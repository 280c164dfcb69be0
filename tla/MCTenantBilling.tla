--------------------------- MODULE MCTenantBilling ---------------------------
(***************************************************************************)
(* TenantBilling for TLC in four settings, chosen at the start, so that    *)
(* one run says what holds when operations race and fail, and what holds   *)
(* only when they do not or when no administrator intervenes; and, in a    *)
(* fifth, what two tenants do and see through the client of the gateway.   *)
(***************************************************************************)
EXTENDS TenantBilling, TLC

CONSTANTS w1, w2, s1, s2

TwoWorkers == {w1, w2}
TwoSubs == {s1, s2}

(* Two users on trial, three on starter, four on pro.                      *)
SmallLimits == [p \in Plans |->
                   CASE p = "trial" -> 2 [] p = "starter" -> 3 [] OTHER -> 4]
SmallPrice == [p \in Plans |->
                   CASE p = "trial" -> 0 [] p = "starter" -> 1 [] OTHER -> 3]

Symmetric == Permutations(TwoWorkers) \cup Permutations(TwoSubs)

Everything == [ops |-> Ops, moves |-> {"overdue", "paid", "delete"},
               faults |-> TRUE, serial |-> FALSE]

(* Anything at once; the customer and his invoices; one operation after    *)
(* the other without a failure, by the customer or by anybody.             *)
Settings ==
    [free |-> Everything,
     customer |-> [Everything EXCEPT !.ops = CustomerOps],
     calm |-> [Everything EXCEPT !.ops = CustomerOps, !.faults = FALSE,
                                 !.serial = TRUE],
     managed |-> [Everything EXCEPT !.moves = {}, !.faults = FALSE,
                                    !.serial = TRUE],
     client |-> Everything]

(* The client: two requests at a time, of two tenants.                     *)
CONSTANTS Handlers, Tenants, Customers, Payments, MaxBad, MaxAsked

ASSUME ClientAssumption ==
    /\ Tenants \subseteq Nat \ {0} /\ 1 \in Tenants
    /\ Customers \subseteq Nat \ {0} /\ Payments \subseteq Nat \ {0}
    /\ MaxBad \in Nat /\ MaxAsked \in Nat

VARIABLES
    scene,   \* the name of the setting; with "client" the tenants' rows rest
    custOf, subOf, ownerOf, known, bills, asked, shown, bad, requests
mcvars == <<vars, scene, custOf, subOf, ownerOf, known, bills, asked, shown,
            bad, requests>>

(* The bounds of each setting.                                             *)
Racing == INSTANCE TenantBilling WITH MaxOps <- 3, MaxTime <- 1, MaxSeats <- 1
Calm == INSTANCE TenantBilling WITH MaxTime <- 1, MaxSeats <- 1

Client == INSTANCE Gateway

MCInit ==
    /\ scene \in DOMAIN Settings
    /\ setting = Settings[scene]
    /\ Init /\ Client!GatewayInit
TenantNext ==
    CASE scene \in {"free", "customer"} -> Racing!Next
      [] scene = "calm" -> Calm!Next
      [] scene = "managed" -> Next
MCNext ==
    /\ IF scene = "client" THEN UNCHANGED vars /\ Client!GatewayNext
       ELSE TenantNext /\ UNCHANGED <<custOf, subOf, ownerOf, known, bills, asked,
                                      shown, bad, requests>>
    /\ UNCHANGED scene
MCSpec == MCInit /\ [][MCNext]_mcvars

-----------------------------------------------------------------------------
(* One operation after the other: nobody is charged for a downgrade.       *)
CalmCharges == [][scene = "calm" => UpgradesAreCharged]_mcvars

(* What a tenant is shown of the gateway is its own, whoever asks for what *)
(* payment, and whichever call fails or comes back unreadable.             *)
OwnBilling ==
    Client!GatewayTypeOK /\ Client!OwnBilling /\ Client!LinksAreThere

=============================================================================
