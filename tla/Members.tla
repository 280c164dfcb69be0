------------------------------- MODULE Members -------------------------------
(***************************************************************************)
(* The members of one tenant: users and their roles (AccountUseCase,       *)
(* AuthUseCase), invites (InviteUseCase), and the seat count a trigger     *)
(* keeps in the tenant's row.                                              *)
(*                                                                         *)
(* An operation reads rows, decides, and writes whole rows back, with no   *)
(* transaction around it: each statement is a step, and operations of      *)
(* several goroutines interleave between steps.  A user is known by the    *)
(* e-mail, which is unique, also among the users that were removed.        *)
(***************************************************************************)
EXTENDS Integers, FiniteSets

CONSTANTS
    Emails,
    Founder,   \* the OWNER that signed the tenant up
    Nobody,
    Invites, NoInvite,
    Workers,   \* goroutines serving requests
    MaxUsers,  \* tenants.max_users
    MaxOps     \* bound on the operations started

ASSUME MembersAssumption ==
    /\ Founder \in Emails /\ Nobody \notin Emails
    /\ NoInvite \notin Invites
    /\ MaxUsers \in Nat \ {0} /\ MaxOps \in Nat

VARIABLES
    user,    \* user[e]: the row of users with e-mail e
    seats,   \* seat_count of the tenant
    invite,  \* invite[i]: the row i of invites
    claims,  \* claims[e]: managing roles in the access tokens e was given
    task,    \* task[w]: the operation worker w is in
    ops,
    serial   \* do operations come one after the other?  It never changes.

store == <<user, seats, invite, claims>>
vars == <<store, task, ops, serial>>

-----------------------------------------------------------------------------
(* One managing role below OWNER and one role that manages nobody stand    *)
(* for the five of a tenant.                                               *)
Roles == {"OWNER", "ADMIN", "VIEWER"}
Managers == {"OWNER", "ADMIN"}
Rank == [OWNER |-> 5, ADMIN |-> 4, VIEWER |-> 1]

CanAssignRole(actor, role) ==
    IF role = "OWNER" THEN actor = "OWNER"
    ELSE Rank[actor] >= Rank[role] /\ Rank[actor] >= Rank["ADMIN"]

(* gone: deleted_at is set.                                                *)
User == [exists : BOOLEAN, gone : BOOLEAN, active : BOOLEAN, role : Roles]
NoUser == [exists |-> FALSE, gone |-> FALSE, active |-> FALSE, role |-> "VIEWER"]
Joined(role) == [exists |-> TRUE, gone |-> FALSE, active |-> TRUE, role |-> role]

Invite == [status : {"none", "PENDING", "ACCEPTED", "CANCELLED"},
           email : Emails, role : Roles, expired : BOOLEAN]

Task == [op : {"none", "login", "password", "update", "remove", "invite",
               "accept", "cancel", "resend"},
         at : {"idle", "inviteLookup", "insertInvite", "createUser", "accepted",
               "cancelled", "renew", "target", "owners", "update", "delete"},
         by : Emails \cup {Nobody}, who : Emails \cup {Nobody},
         inv : Invites \cup {NoInvite},
         role : Roles,   \* of the actor, as read; or of the invite to be made
         row : User]     \* the copy of the user that will be written
Idle == [op |-> "none", at |-> "idle", by |-> Nobody, who |-> Nobody,
         inv |-> NoInvite, role |-> "VIEWER", row |-> NoUser]

TypeOK ==
    /\ user \in [Emails -> User]
    /\ seats \in Int
    /\ invite \in [Invites -> Invite]
    /\ claims \in [Emails -> SUBSET Managers]
    /\ task \in [Workers -> Task]
    /\ \A w \in Workers :
          /\ task[w].at \in {"target", "owners", "update", "delete"} =>
                task[w].who \in Emails
          /\ task[w].at \in {"createUser", "accepted", "cancelled", "renew"} =>
                invite[task[w].inv].status # "none"
    /\ ops \in Nat /\ serial \in BOOLEAN

(* The signup inserts seat_count 1 and its owner, whom the trigger adds.   *)
Init ==
    /\ user = [e \in Emails |-> IF e = Founder THEN Joined("OWNER") ELSE NoUser]
    /\ seats = 2
    /\ invite = [i \in Invites |-> [status |-> "none", email |-> Founder,
                                    role |-> "VIEWER", expired |-> FALSE]]
    /\ claims = [e \in Emails |-> IF e = Founder THEN {"OWNER"} ELSE {}]
    /\ task = [w \in Workers |-> Idle]
    /\ ops = 0 /\ serial \in BOOLEAN

-----------------------------------------------------------------------------
(* What the queries on users see.                                          *)
Live(r) == r.exists /\ ~r.gone
ActiveOwner(r) == Live(r) /\ r.active /\ r.role = "OWNER"

Begin(w, t) ==
    /\ task[w] = Idle
    /\ ops < MaxOps
    /\ ops' = ops + 1
    /\ task' = [task EXCEPT ![w] = t]
    /\ UNCHANGED store

At(w, step) == task[w].at = step /\ UNCHANGED ops
Goto(w, step) == task' = [task EXCEPT ![w].at = step]
Finish(w) == task' = [task EXCEPT ![w] = Idle]

(* Mutant of Managed: every role manages users.                            *)
ManagedByAll(c) == {c}

(* The permission to manage users goes with the role.                      *)
Managed(c) == IF c \in Managers THEN {c} ELSE {}

(* A write of users, with the trigger's share of it.                       *)
Seat(r) == IF r.active THEN 1 ELSE 0
WriteUser(e, r) ==
    /\ user' = [user EXCEPT ![e] = r]
    /\ seats' = seats + Seat(r) - Seat(user[e])

-----------------------------------------------------------------------------
(* CreateInvite: the role in the actor's token decides; the tenant is read *)
(* and, one statement later, the e-mail is looked up.  Only the seats in   *)
(* use count, and no other invite is looked at.                            *)
CreateInvite(w) ==
    \E by, e \in Emails, role \in Roles :
        /\ \E c \in claims[by] : CanAssignRole(c, role)
        /\ seats < MaxUsers
        /\ Begin(w, [Idle EXCEPT !.op = "invite", !.at = "inviteLookup",
                                 !.who = e, !.role = role])

InviteLookup(w) ==
    /\ At(w, "inviteLookup")
    /\ IF Live(user[task[w].who]) THEN Finish(w) ELSE Goto(w, "insertInvite")
    /\ UNCHANGED store

InsertInvite(w) ==
    /\ At(w, "insertInvite")
    /\ \E i \in Invites :
          /\ invite[i].status = "none"
          /\ invite' = [invite EXCEPT ![i] =
                           [status |-> "PENDING", email |-> task[w].who,
                            role |-> task[w].role, expired |-> FALSE]]
    /\ Finish(w)
    /\ UNCHANGED <<user, seats, claims>>

(* AcceptInvite, up to ValidateInvite.                                     *)
AcceptInvite(w) ==
    \E i \in Invites :
        /\ invite[i].status = "PENDING" /\ ~invite[i].expired
        /\ Begin(w, [Idle EXCEPT !.op = "accept", !.at = "createUser", !.inv = i])

(* Mutant of CreateUser: only live users keep an e-mail taken.             *)
CreateUserAgain(w) ==
    LET i == invite[task[w].inv] IN
    /\ At(w, "createUser")
    /\ IF Live(user[i.email])
       THEN Finish(w) /\ UNCHANGED <<user, seats>>
       ELSE WriteUser(i.email, Joined(i.role)) /\ Goto(w, "accepted")
    /\ UNCHANGED <<invite, claims>>

(* An e-mail that any user has or had is refused, by the lookup or by the  *)
(* unique index.  Seats are not looked at.                                 *)
CreateUser(w) ==
    LET i == invite[task[w].inv] IN
    /\ At(w, "createUser")
    /\ IF user[i.email].exists
       THEN Finish(w) /\ UNCHANGED <<user, seats>>
       ELSE WriteUser(i.email, Joined(i.role)) /\ Goto(w, "accepted")
    /\ UNCHANGED <<invite, claims>>

(* The status is written whatever it is by now; the user gets a token.     *)
MarkAccepted(w) ==
    LET i == task[w].inv IN
    /\ At(w, "accepted")
    /\ invite' = [invite EXCEPT ![i].status = "ACCEPTED"]
    /\ claims' = [claims EXCEPT ![invite[i].email] = @ \cup Managed(invite[i].role)]
    /\ Finish(w)
    /\ UNCHANGED <<user, seats>>

CancelInvite(w) ==
    \E i \in Invites :
        /\ invite[i].status = "PENDING"
        /\ Begin(w, [Idle EXCEPT !.op = "cancel", !.at = "cancelled", !.inv = i])

MarkCancelled(w) ==
    /\ At(w, "cancelled")
    /\ invite' = [invite EXCEPT ![task[w].inv].status = "CANCELLED"]
    /\ Finish(w)
    /\ UNCHANGED <<user, seats, claims>>

ResendInvite(w) ==
    \E i \in Invites :
        /\ invite[i].status = "PENDING"
        /\ Begin(w, [Idle EXCEPT !.op = "resend", !.at = "renew", !.inv = i])

RenewToken(w) ==
    /\ At(w, "renew")
    /\ invite' = [invite EXCEPT ![task[w].inv].expired =
                      @ /\ invite[task[w].inv].status # "PENDING"]
    /\ Finish(w)
    /\ UNCHANGED <<user, seats, claims>>

(* Seven days pass.                                                        *)
Expire(i) ==
    /\ invite[i].status = "PENDING"
    /\ invite' = [invite EXCEPT ![i].expired = TRUE]
    /\ UNCHANGED <<user, seats, claims, task, ops>>

-----------------------------------------------------------------------------
(* Mutant of Login: an inactive user is let in, and so made active.        *)
LoginInactive(w) ==
    \E e \in Emails :
        /\ Live(user[e])
        /\ Begin(w, [Idle EXCEPT !.op = "login", !.at = "update", !.by = e,
                                 !.who = e, !.row = [user[e] EXCEPT !.active = TRUE]])

(* Login: the row read is written back with last_login.                    *)
Login(w) ==
    \E e \in Emails :
        /\ Live(user[e]) /\ user[e].active
        /\ Begin(w, [Idle EXCEPT !.op = "login", !.at = "update", !.by = e,
                                 !.who = e, !.row = user[e]])

ChangePassword(w) ==
    \E e \in Emails :
        /\ Live(user[e])
        /\ Begin(w, [Idle EXCEPT !.op = "password", !.at = "update", !.by = e,
                                 !.who = e, !.row = user[e]])

RefreshToken(w) ==
    \E e \in Emails :
        /\ Live(user[e]) /\ user[e].active
        /\ claims' = [claims EXCEPT ![e] = @ \cup Managed(user[e].role)]
        /\ UNCHANGED <<user, seats, invite, task, ops>>

(* UpdateUser and RemoveUser begin with the actor's row; the permission to *)
(* manage users is that of the token.                                      *)
ManageUser(w) ==
    \E by, e \in Emails, op \in {"update", "remove"} :
        /\ claims[by] # {}
        /\ Live(user[by])
        /\ op = "remove" => by # e
        /\ Begin(w, [Idle EXCEPT !.op = op, !.at = "target", !.by = by,
                                 !.who = e, !.role = user[by].role])

(* UpdateUser's rules for turning the row r into new.                      *)
MayUpdate(t, r, new) ==
    /\ r.role = "OWNER" => t.role = "OWNER"
    /\ new.role # r.role => t.by # t.who /\ CanAssignRole(t.role, new.role)
    /\ r.active /\ ~new.active => t.by # t.who

Demotes(r, new) ==
    r.role = "OWNER" /\ (new.role # "OWNER" \/ (r.active /\ ~new.active))

(* UpdateUser reads the target and changes its copy: role, active or both, *)
(* or only the name.                                                       *)
UpdateTarget(w) ==
    LET t == task[w]  r == user[t.who] IN
    /\ At(w, "target") /\ t.op = "update"
    /\ \E role \in Roles, active \in BOOLEAN :
          LET new == [r EXCEPT !.role = role, !.active = active] IN
          IF Live(r) /\ MayUpdate(t, r, new)
          THEN task' = [task EXCEPT ![w].at = IF Demotes(r, new) THEN "owners"
                                              ELSE "update",
                                    ![w].row = new]
          ELSE Finish(w)
    /\ UNCHANGED store

(* RemoveUser reads the target.                                            *)
RemoveTarget(w) ==
    LET t == task[w]  r == user[t.who] IN
    /\ At(w, "target") /\ t.op = "remove"
    /\ IF ~Live(r) \/ Rank[r.role] > Rank[t.role] THEN Finish(w)
       ELSE Goto(w, IF r.role = "OWNER" THEN "owners" ELSE "delete")
    /\ UNCHANGED store

(* Mutant of EnsureAnotherOwner: the target may be the owner it finds.     *)
EnsureAnyOwner(w) ==
    LET t == task[w] IN
    /\ At(w, "owners")
    /\ IF \E e \in Emails : ActiveOwner(user[e])
       THEN Goto(w, IF t.op = "remove" THEN "delete" ELSE "update")
       ELSE Finish(w)
    /\ UNCHANGED store

EnsureAnotherOwner(w) ==
    LET t == task[w] IN
    /\ At(w, "owners")
    /\ IF \E e \in Emails \ {t.who} : ActiveOwner(user[e])
       THEN Goto(w, IF t.op = "remove" THEN "delete" ELSE "update")
       ELSE Finish(w)
    /\ UNCHANGED store

(* UserRepository.Update: role and active of the copy, whatever the row    *)
(* has become, and also when the user was removed.                         *)
UpdateRow(w) ==
    LET t == task[w] IN
    /\ At(w, "update")
    /\ WriteUser(t.who, [user[t.who] EXCEPT !.role = t.row.role,
                                            !.active = t.row.active])
    /\ claims' = IF t.op = "login"
                 THEN [claims EXCEPT ![t.who] = @ \cup Managed(t.row.role)]
                 ELSE claims
    /\ Finish(w)
    /\ UNCHANGED invite

(* UserRepository.Delete.                                                  *)
DeleteRow(w) ==
    LET t == task[w] IN
    /\ At(w, "delete")
    /\ WriteUser(t.who, IF user[t.who].gone THEN user[t.who]
                        ELSE [user[t.who] EXCEPT !.gone = TRUE, !.active = FALSE])
    /\ Finish(w)
    /\ UNCHANGED <<invite, claims>>

(* A statement fails or the process stops: what was written stays.         *)
Abort(w) ==
    /\ task[w] # Idle
    /\ Finish(w)
    /\ UNCHANGED <<store, ops>>

Inviting(w) ==
    \/ CreateInvite(w) \/ InviteLookup(w) \/ InsertInvite(w)
    \/ AcceptInvite(w) \/ CreateUser(w) \/ MarkAccepted(w)
    \/ CancelInvite(w) \/ MarkCancelled(w)
    \/ ResendInvite(w) \/ RenewToken(w)
Using(w) ==
    \/ Login(w) \/ ChangePassword(w) \/ RefreshToken(w)
    \/ ManageUser(w) \/ UpdateTarget(w) \/ RemoveTarget(w)
    \/ EnsureAnotherOwner(w) \/ UpdateRow(w) \/ DeleteRow(w)

(* At most one operation is in progress.                                   *)
OneAtATime ==
    \A v, w \in Workers : task[v] # Idle /\ task[w] # Idle => v = w

Next ==
    /\ \/ \E w \in Workers : Inviting(w) \/ Using(w) \/ Abort(w)
       \/ \E i \in Invites : Expire(i)
    /\ serial => OneAtATime'
    /\ UNCHANGED serial

Spec == Init /\ [][Next]_vars

-----------------------------------------------------------------------------
(* "O tenant sempre mantem ao menos um OWNER ativo" (the comment of        *)
(* UpdateUser, account_usecase.go:138): an active owner remains, whatever  *)
(* requests come at once.                                                  *)
OwnerRemains == \E e \in Emails : ActiveOwner(user[e])

(* Those who can get in.                                                   *)
Admitted == {e \in Emails : Live(user[e]) /\ user[e].active}

(* seat_count: what the trigger keeps is that the count moves by the users *)
(* that come in or are put out, also when the row of a user who was        *)
(* removed, or had no access, is written once more.  It is not the count   *)
(* that the column is documented to be (007_billing_fase_a.sql:27): a      *)
(* signup writes 1 and then inserts the owner, whom the trigger counts.    *)
SeatsKeepPace == seats' - seats = Cardinality(Admitted') - Cardinality(Admitted)

(* An e-mail is admitted through one invite only, whoever accepts however  *)
(* many invites to it at once, and the user is there.                      *)
AdmittedOnce ==
    \A i, j \in Invites :
        invite[i].status = "ACCEPTED" =>
            /\ user[invite[i].email].exists
            /\ invite[j].status = "ACCEPTED" /\ invite[j].email = invite[i].email
                  => i = j

(* A user put out comes back through an update of his own row that lets him*)
(* in, by somebody who was given the right to manage users: never by a     *)
(* login, a new password or an invite.  Who was put out himself may be that*)
(* somebody, for as long as he has a token: only putting oneself out is    *)
(* refused.                                                                *)
Readmission ==
    \A e \in Emails :
        user[e].exists /\ ~user[e].active /\ user'[e].active =>
            \E w \in Workers :
                /\ task[w].op = "update" /\ task[w].who = e /\ task'[w] = Idle
                /\ task[w].row.active /\ claims[task[w].by] # {}

(* The outcome of an invite is final.                                      *)
OutcomeStands ==
    \A i \in Invites :
        invite[i].status \in {"ACCEPTED", "CANCELLED"} =>
            invite'[i].status = invite[i].status

(* Nobody below OWNER takes an owner's role or access away.                *)
OwnersAnswerToOwners ==
    \A e \in Emails :
        ActiveOwner(user[e]) /\ ~ActiveOwner(user'[e]) =>
            \E w \in Workers : task[w].role = "OWNER" /\ task'[w] = Idle

(* One operation after the other, any of which may be cut off: the tenant  *)
(* keeps an active owner.                                                  *)
SerialOwner == serial => OwnerRemains

(* One operation after the other: only an owner takes an owner's role or   *)
(* access away, who was put out comes back by an update of a manager only, *)
(* the outcome of an invite is final, and the seats keep pace.             *)
SerialAccess ==
    [][serial => /\ OwnersAnswerToOwners /\ Readmission
                 /\ OutcomeStands /\ SeatsKeepPace]_vars

=============================================================================
