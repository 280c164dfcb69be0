------------------------------- MODULE Access -------------------------------
(***************************************************************************)
(* Who is answered: sessions (auth_usecase.go, auth_handler.go, jwt.go),   *)
(* roles and permissions (permissions.go), and the gate before every route *)
(* (router.go and its middlewares).  A token carries the role its user had *)
(* when it was issued, while the tenant is read at every request.          *)
(*                                                                         *)
(* Nothing tells the two tokens of a session apart but what is in them:    *)
(* one key signs both and one check reads both, so that either is accepted *)
(* wherever a token is asked for.  The refresh token names no role.        *)
(*                                                                         *)
(* One user, with any number of sessions; how the row of a user changes is *)
(* in Members, that of a tenant in TenantBilling.                          *)
(***************************************************************************)
EXTENDS Integers, FiniteSets

CONSTANTS
    Never,         \* not yet, or a trial without an end
    TokenLife,     \* expiration (24 hours)
    RefreshLife,   \* refreshExpiration (7 days)
    MaxTime,       \* bound: the clock
    MaxChanges     \* bound: changes of the user and of the tenant

VARIABLES
    account,  \* the row of the user: role, active
    issued,   \* the tokens the user was given: role, until
    tenant,   \* the row of the tenant: status, until (trial_expires_at)
    clock,
    held,     \* history: the last instant at which the user held each role
    changes

accessvars == <<account, issued, tenant, clock, held, changes>>

-----------------------------------------------------------------------------
(* Roles and what they may do.                                             *)

roleRank == [VIEWER |-> 1, ENGINEER |-> 2, MANAGER |-> 3, ADMIN |-> 4,
             OWNER |-> 5, SUPER_ADMIN |-> 6]
Roles == DOMAIN roleRank
NoRole == ""
ValidTenantRole(r) == r \in Roles \ {"SUPER_ADMIN"}

RolePermissions ==
    LET viewer == {"view", "export"}
        engineer == viewer \cup {"operation"}
        manager == engineer \cup {"registry", "financial"}
        owner == manager \cup {"users", "tenant", "billing", "audit"}
    IN  [VIEWER |-> viewer, ENGINEER |-> engineer, MANAGER |-> manager,
         ADMIN |-> owner, OWNER |-> owner,
         SUPER_ADMIN |-> owner \cup {"platform"}]

CanAssignRole(actor, target) ==
    /\ ValidTenantRole(target)
    /\ IF target = "OWNER" THEN actor \in {"OWNER", "SUPER_ADMIN"}
       ELSE roleRank[actor] >= roleRank[target] /\ roleRank[actor] >= roleRank["ADMIN"]

(* The permission each group of routes asks for ("": a session is enough). *)
Routes ==
    [profile |-> "", settings |-> "tenant", onboarding |-> "", training |-> "",
     users |-> "users", audit |-> "audit", network |-> "view",
     registry |-> "registry", readings |-> "operation", balance |-> "operation",
     imports |-> "operation", alerts |-> "operation", dashboard |-> "view",
     financial |-> "financial", exports |-> "export", billing |-> "billing",
     admin |-> "platform"]

(* Open to tenants that are held out of everything else.                   *)
isBillingAllowedPath == {"billing", "profile", "settings"}

-----------------------------------------------------------------------------
(* The gate, in its order: session, tenant, permission.                    *)

Statuses == {"TRIAL", "ACTIVE", "PENDING_PAYMENT", "SUSPENDED", "CANCELLED"}

(* ValidateToken and ValidateRefreshToken: the same signature, claims and  *)
(* end.                                                                    *)
ValidateToken(t) == t.until >= clock
ValidateRefreshToken(t) == t.until >= clock

TrialIsOver(tn) ==
    tn.status = "TRIAL" /\ tn.until # Never /\ clock > tn.until
TenantStatusHandler(route, role, tn) ==
    \/ role = "SUPER_ADMIN"
    \/ route \in isBillingAllowedPath
    \/ /\ tn.status \notin {"SUSPENDED", "PENDING_PAYMENT", "CANCELLED"}
       /\ ~TrialIsOver(tn)
(* Who has no role is turned away wherever a permission is asked for.      *)
RequirePermission(route, role) ==
    \/ Routes[route] = ""
    \/ role # NoRole /\ Routes[route] \in RolePermissions[role]

(* The panel of the platform asks for a role, and for no tenant.           *)
RoleMiddleware(role) == role = "SUPER_ADMIN"

Answered(route, t, tn) ==
    /\ ValidateToken(t)
    /\ IF route = "admin" THEN RoleMiddleware(t.role)
       ELSE /\ TenantStatusHandler(route, t.role, tn)
            /\ RequirePermission(route, t.role)

-----------------------------------------------------------------------------
(* Sessions.                                                               *)

GenerateToken(role) == [role |-> role, until |-> clock + TokenLife]
GenerateRefreshToken == [role |-> NoRole, until |-> clock + RefreshLife]

Init ==
    /\ account \in [role : {"VIEWER", "MANAGER", "OWNER", "SUPER_ADMIN"},
                 active : {TRUE}]
    /\ issued = {}
    /\ tenant \in [status : {"TRIAL"}, until : {1, Never}]
    /\ clock = 0 /\ changes = 0
    /\ held = [r \in Roles |-> IF r = account.role THEN 0 ELSE Never]

issue(role) ==
    /\ issued' = issued \cup {GenerateToken(role), GenerateRefreshToken}
    /\ UNCHANGED <<account, tenant, clock, held, changes>>

Login == account.active /\ issue(account.role)

(* Mutant of RefreshToken: the new token is made of the claims of the old. *)
RefreshFromClaims ==
    \E t \in issued :
        ValidateRefreshToken(t) /\ account.active /\ issue(t.role)
(* The row is read again.  A refusal clears the browser's cookie, as the   *)
(* logout does; the tokens it was given stay what they are.                *)
RefreshToken ==
    \E t \in issued :
        ValidateRefreshToken(t) /\ account.active /\ issue(account.role)

-----------------------------------------------------------------------------
(* What others do meanwhile.                                               *)

Changed == changes < MaxChanges /\ changes' = changes + 1

(* Somebody with a higher role updates or removes the user.                *)
UpdateUser(role, active) ==
    /\ Changed /\ account.role # "SUPER_ADMIN" /\ ValidTenantRole(role)
    /\ account # [role |-> role, active |-> active]
    /\ account' = [role |-> role, active |-> active]
    /\ held' = IF active THEN [held EXCEPT ![role] = clock] ELSE held
    /\ UNCHANGED <<issued, tenant, clock>>

(* Payments, events and administrators set the status.                     *)
SetStatus(s) ==
    /\ Changed /\ tenant.status # s
    /\ tenant' = [tenant EXCEPT !.status = s]
    /\ UNCHANGED <<account, issued, clock, held>>

GetExpiredTrials ==
    tenant.status = "TRIAL" /\ tenant.until # Never /\ tenant.until <= clock
TrialExpirationRun ==
    /\ GetExpiredTrials
    /\ tenant' = [tenant EXCEPT !.status = "SUSPENDED"]
    /\ UNCHANGED <<account, issued, clock, held, changes>>

Tick ==
    /\ clock < MaxTime /\ clock' = clock + 1
    /\ held' = IF account.active THEN [held EXCEPT ![account.role] = clock + 1] ELSE held
    /\ UNCHANGED <<account, issued, tenant, changes>>

Next ==
    \/ Login \/ RefreshToken \/ TrialExpirationRun \/ Tick
    \/ \E role \in {"VIEWER", "MANAGER", "OWNER"}, active \in BOOLEAN :
           UpdateUser(role, active)
    \/ \E s \in Statuses : SetStatus(s)

-----------------------------------------------------------------------------
AccessTypeOK ==
    /\ account \in [role : Roles, active : BOOLEAN]
    /\ issued \subseteq [role : Roles \cup {NoRole}, until : Nat]
    /\ tenant.status \in Statuses
    /\ clock \in 0 .. MaxTime

(* Did the user, while active, hold one of roles in the last life instants?*)
Longest == IF RefreshLife > TokenLife THEN RefreshLife ELSE TokenLife
HeldWithin(life, roles) ==
    \E r \in roles : held[r] # Never /\ clock - held[r] <= life

(* Though nothing revokes a token and each is good for the other, a right  *)
(* that was taken away ends with the access token at the latest: neither   *)
(* refreshing nor the refresh token carries it on.  Routes that ask for a  *)
(* session only are open to who was put out until the refresh token ends.  *)
RightsLapse ==
    \A route \in DOMAIN Routes, t \in issued :
        Answered(route, t, tenant) =>
            IF Routes[route] = "" THEN HeldWithin(Longest, Roles)
            ELSE HeldWithin(TokenLife,
                            {r \in Roles : Routes[route] \in RolePermissions[r]})

(* A blocked tenant is held out of its data at once, whatever tokens its   *)
(* users were given, and whoever pays its bills can still sign in and pay. *)
BlockedTenantsPay ==
    tenant.status \in {"SUSPENDED", "PENDING_PAYMENT", "CANCELLED"} \/ TrialIsOver(tenant) =>
        /\ \A route \in DOMAIN Routes \ isBillingAllowedPath, t \in issued :
               Answered(route, t, tenant) => t.role = "SUPER_ADMIN"
        /\ account.active /\ CanAssignRole(account.role, "ADMIN") =>
               \A route \in isBillingAllowedPath :
                   Answered(route, GenerateToken(account.role), tenant)

(* Whether the job has already run over an expired trial shows nowhere (but*)
(* at its very last instant).                                              *)
JobShowsNowhere ==
    GetExpiredTrials /\ clock # tenant.until =>
        \A route \in DOMAIN Routes, r \in Roles \cup {NoRole} :
            LET t == GenerateToken(r)
            IN  Answered(route, t, tenant)
                    <=> Answered(route, t, [tenant EXCEPT !.status = "SUSPENDED"])

(* A role may do what those below it may, and nobody grants more than that.*)
RolesNest ==
    \A a, r \in Roles :
        roleRank[r] <= roleRank[a] \/ CanAssignRole(a, r)
            => RolePermissions[r] \subseteq RolePermissions[a]

=============================================================================
