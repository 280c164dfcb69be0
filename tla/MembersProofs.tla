---------------------------- MODULE MembersProofs ----------------------------
(***************************************************************************)
(* Proofs about Members, for any e-mails, invites and workers and any      *)
(* bounds.                                                                 *)
(*                                                                         *)
(* However operations overlap, an e-mail is admitted through one invite:   *)
(* the invite that admitted it, accepted by now or about to be marked so   *)
(* (Passed), is the one whose user could be created.  When operations come *)
(* one after the other, what an operation read still holds when it writes  *)
(* (TaskOK), and then an owner stays, seats are those of the users who can *)
(* get in and the one that Signup counted, and nobody is let in or put out *)
(* by whom it does not behove.                                             *)
(*                                                                         *)
(* The last parts are about the gate (Access) and the limiter (RateLimit), *)
(* as MCMembers runs them beside the members.                              *)
(***************************************************************************)
EXTENDS MCMembers, FiniteSetTheorems, TLAPS

(* What a task refers to is there.                                         *)
RefOK(t) ==
    /\ t.at \in {"inviteLookup", "insertInvite", "target", "owners", "update", "delete"}
          => t.who \in Emails
    /\ t.at \in {"createUser", "accepted", "cancelled", "renew"}
          => t.inv \in Invites /\ invite[t.inv].status # "none"

TypeInv == TypeOK /\ \A w \in Workers : RefOK(task[w])

(* The invite has let its user in, or is the one that is letting it in.    *)
Passed(i) ==
    \/ invite[i].status = "ACCEPTED"
    \/ \E w \in Workers : task[w].at = "accepted" /\ task[w].inv = i

AdmitInv ==
    /\ \A i \in Invites : Passed(i) => user[invite[i].email].exists
    /\ \A i, j \in Invites :
          Passed(i) /\ Passed(j) /\ invite[i].email = invite[j].email => i = j

(* The users who can get in.                                               *)
Active == {e \in Emails : user[e].active}

SeatsInv ==
    /\ \A e \in Emails : user[e].active => Live(user[e])
    /\ IsFiniteSet(Active) /\ seats - 1 = Cardinality(Active)

AnotherOwner(e) == \E o \in Emails \ {e} : ActiveOwner(user[o])

(* What the operation t has read, and decided upon, is still so.           *)
TaskOK(t) ==
    /\ t.at \in {"createUser", "accepted", "cancelled", "renew"}
          => invite[t.inv].status = "PENDING"
    /\ t.at \in {"target", "owners"} => t.op \in {"update", "remove"}
    /\ t.at = "delete" => t.op = "remove"
    /\ t.at \in {"target", "owners", "update"} /\ t.op = "update" =>
          t.by \in Emails /\ claims[t.by] # {}
    /\ t.at = "update" => t.op \in {"login", "password", "update"}
    /\ t.at \in {"owners", "update", "delete"} => Live(user[t.who])
    /\ t.at = "update" /\ t.op # "update" => t.row = user[t.who]
    /\ t.at \in {"owners", "update"} /\ t.op = "update" =>
          MayUpdate(t, user[t.who], t.row)
    /\ t.at = "update" /\ Demotes(user[t.who], t.row) => AnotherOwner(t.who)
    /\ t.at \in {"owners", "delete"} /\ t.op = "remove" =>
          Rank[user[t.who].role] <= Rank[t.role]
    /\ t.at = "delete" /\ user[t.who].role = "OWNER" => AnotherOwner(t.who)

SerialInv ==
    serial => /\ OneAtATime /\ OwnerRemains /\ SeatsInv
              /\ \A w \in Workers : TaskOK(task[w])

Inv == TypeInv /\ AdmitInv /\ SerialInv

-----------------------------------------------------------------------------
LEMMA UserType ==
    /\ NoUser \in User
    /\ \A role \in Roles : /\ Joined(role) \in User /\ Joined(role).exists
                           /\ ~Joined(role).gone /\ Joined(role).active
                           /\ Joined(role).role = role
  BY DEF NoUser, Joined, User, Roles

LEMMA IdleType ==
    /\ Idle \in Task /\ Idle.at = "idle" /\ Idle.op = "none"
    /\ RefOK(Idle) /\ TaskOK(Idle)
  <1>1. Idle \in Task
    BY MembersAssumption DEF Idle, Task, NoUser, User, Roles
  <1>2. Idle.at = "idle" /\ Idle.op = "none"
    BY DEF Idle
  <1>. QED  BY <1>1, <1>2 DEF RefOK, TaskOK

LEMMA TaskType ==
    ASSUME TypeOK, NEW w \in Workers
    PROVE  /\ task[w] \in Task /\ task[w].role \in Roles /\ task[w].row \in User
           /\ task[w].row.role \in Roles /\ task[w].row.active \in BOOLEAN
  BY DEF TypeOK, Task, User

LEMMA RowType ==
    ASSUME TypeOK, NEW e \in Emails
    PROVE  /\ user[e] \in User /\ user[e].role \in Roles
           /\ user[e].exists \in BOOLEAN /\ user[e].gone \in BOOLEAN
           /\ user[e].active \in BOOLEAN
  BY DEF TypeOK, User

LEMMA InviteType ==
    ASSUME TypeOK, NEW i \in Invites
    PROVE  /\ invite[i] \in Invite /\ invite[i].email \in Emails
           /\ invite[i].role \in Roles /\ invite[i].expired \in BOOLEAN
  BY DEF TypeOK, Invite

(* The ranks order the roles, with the owner on top.                       *)
LEMMA RankFacts ==
    /\ \A r \in Roles : Rank[r] \in Nat /\ Rank[r] <= 5
    /\ Rank["OWNER"] = 5
    /\ \A r \in Roles : Rank["OWNER"] <= Rank[r] => r = "OWNER"
  <1>1. Rank["OWNER"] = 5 /\ Rank["ADMIN"] = 4 /\ Rank["VIEWER"] = 1
    BY DEF Rank
  <1>2. \A r \in Roles : r = "OWNER" \/ r = "ADMIN" \/ r = "VIEWER"
    BY DEF Roles
  <1>. QED  BY <1>1, <1>2, SMT

(* What a write of users does to the rows and to the seats.                *)
LEMMA WriteFacts ==
    ASSUME TypeOK, NEW e \in Emails, NEW r \in User, WriteUser(e, r)
    PROVE  /\ user' \in [Emails -> User] /\ seats' \in Int
           /\ user'[e] = r /\ \A f \in Emails \ {e} : user'[f] = user[f]
  <1>1. user \in [Emails -> User] /\ seats \in Int /\ user' = [user EXCEPT ![e] = r]
    BY DEF TypeOK, WriteUser
  <1>2. Seat(r) \in Int /\ Seat(user[e]) \in Int
    BY SMT DEF Seat
  <1>3. seats' = seats + Seat(r) - Seat(user[e])
    BY DEF WriteUser
  <1>4. seats' \in Int
    BY <1>1, <1>2, <1>3, SMT
  <1>. QED  BY <1>1, <1>4

(* The trigger keeps the count right when a row that is active is live.    *)
LEMMA WriteKeepsSeats ==
    ASSUME TypeOK, SeatsInv, NEW e \in Emails, NEW r \in User, WriteUser(e, r),
           r.active => Live(r)
    PROVE  SeatsInv'
  <1>1. /\ user'[e] = r /\ \A f \in Emails \ {e} : user'[f] = user[f]
        /\ seats' = seats + Seat(r) - Seat(user[e]) /\ seats \in Int
    BY WriteFacts DEF WriteUser, TypeOK
  <1>2. /\ IsFiniteSet(Active) /\ seats - 1 = Cardinality(Active)
        /\ Cardinality(Active) \in Nat
    BY FS_CardinalityType DEF SeatsInv
  <1>3. \A f \in Emails : user'[f].active => Live(user'[f])
    BY <1>1 DEF SeatsInv
  <1>4. r.active \in BOOLEAN /\ user[e].active \in BOOLEAN
    BY RowType DEF User
  <1>5. IsFiniteSet(Active') /\ seats' - 1 = Cardinality(Active')
    <2>1. CASE r.active /\ user[e].active
      <3>1. Active' = Active
        BY <1>1, <2>1 DEF Active
      <3>2. Seat(r) = 1 /\ Seat(user[e]) = 1
        BY <2>1 DEF Seat
      <3>3. seats' = seats
        BY <1>1, <3>2, SMT
      <3>. QED  BY <1>2, <3>1, <3>3
    <2>2. CASE r.active /\ ~user[e].active
      <3>1. Active' = Active \cup {e} /\ e \notin Active
        BY <1>1, <2>2 DEF Active
      <3>2. IsFiniteSet(Active') /\ Cardinality(Active') = Cardinality(Active) + 1
        BY <1>2, <3>1, FS_AddElement
      <3>3. Seat(r) = 1 /\ Seat(user[e]) = 0
        BY <2>2 DEF Seat
      <3>4. seats' = seats + 1
        BY <1>1, <3>3, SMT
      <3>. QED  BY <1>1, <1>2, <3>2, <3>4, SMT
    <2>3. CASE ~r.active /\ user[e].active
      <3>1. Active' = Active \ {e} /\ e \in Active
        BY <1>1, <2>3 DEF Active
      <3>2. IsFiniteSet(Active') /\ Cardinality(Active') = Cardinality(Active) - 1
        BY <1>2, <3>1, FS_RemoveElement
      <3>3. Seat(r) = 0 /\ Seat(user[e]) = 1
        BY <2>3 DEF Seat
      <3>4. seats' = seats - 1
        BY <1>1, <3>3, SMT
      <3>. QED  BY <1>1, <1>2, <3>2, <3>4, SMT
    <2>4. CASE ~r.active /\ ~user[e].active
      <3>1. Active' = Active
        BY <1>1, <2>4 DEF Active
      <3>2. Seat(r) = 0 /\ Seat(user[e]) = 0
        BY <2>4 DEF Seat
      <3>3. seats' = seats
        BY <1>1, <3>2, SMT
      <3>. QED  BY <1>2, <3>1, <3>3
    <2>. QED  BY <1>4, <2>1, <2>2, <2>3, <2>4
  <1>. QED  BY <1>3, <1>5 DEF SeatsInv

-----------------------------------------------------------------------------
(* A step of w that changes its task only.                                 *)
LEMMA TaskStep ==
    ASSUME Inv, NEW w \in Workers, NEW t \in Task,
           UNCHANGED <<store, serial>>, ops' \in Nat,
           task' = [task EXCEPT ![w] = t], RefOK(t), t.at # "accepted",
           serial => TaskOK(t) /\ OneAtATime' /\ (task[w] # Idle \/ t # Idle)
    PROVE  Inv'
  <1>1. /\ TypeOK /\ UNCHANGED <<user, seats, invite, claims, serial>>
        /\ task' \in [Workers -> Task] /\ task'[w] = t
        /\ \A v \in Workers \ {w} : task'[v] = task[v]
    BY DEF Inv, TypeInv, TypeOK, store
  <1>2. TypeInv'
    <2>1. ASSUME NEW v \in Workers, NEW x \in Task, x = task'[v] PROVE RefOK(x)'
      <3>1. RefOK(x)
        BY <1>1, <2>1 DEF Inv, TypeInv
      <3>. QED  BY <1>1, <3>1 DEF RefOK
    <2>2. \A v \in Workers : RefOK(task[v])'
      <3> SUFFICES ASSUME NEW v \in Workers PROVE RefOK(task[v])'
        OBVIOUS
      <3>1. PICK x \in Task : x = task'[v]
        BY <1>1
      <3>2. RefOK(x)'
        BY <2>1, <3>1
      <3>. QED  BY <3>1, <3>2
    <2>3. TypeOK'
      <3>1. ASSUME NEW v \in Workers
            PROVE  /\ task'[v].at \in {"target", "owners", "update", "delete"} =>
                         task'[v].who \in Emails
                   /\ task'[v].at \in {"createUser", "accepted", "cancelled", "renew"} =>
                         invite'[task'[v].inv].status # "none"
        BY <2>2 DEF RefOK
      <3>. QED  BY <1>1, <3>1 DEF TypeOK
    <2>. QED  BY <2>2, <2>3 DEF TypeInv
  <1>3. AdmitInv'
    <2>1. \A i \in Invites : Passed(i)' => Passed(i)
      BY <1>1 DEF Passed
    <2>. QED  BY <1>1, <2>1 DEF Inv, AdmitInv
  <1>4. SerialInv'
    <2> SUFFICES ASSUME serial
                 PROVE  /\ OneAtATime' /\ OwnerRemains' /\ SeatsInv'
                        /\ \A v \in Workers : TaskOK(task[v])'
      BY <1>1 DEF SerialInv
    <2>1. OwnerRemains' /\ SeatsInv'
      BY <1>1 DEF Inv, SerialInv, OwnerRemains, SeatsInv, Active
    <2>2. ASSUME NEW x \in Task, TaskOK(x) PROVE TaskOK(x)'
      BY <1>1, <2>2 DEF TaskOK, AnotherOwner
    <2>3. ASSUME NEW v \in Workers PROVE TaskOK(task[v])'
      <3>1. PICK x \in Task : x = task'[v]
        BY <1>1
      <3>2. TaskOK(x)
        BY <1>1, <3>1 DEF Inv, SerialInv
      <3>. QED  BY <2>2, <3>1, <3>2
    <2>. QED  BY <2>1, <2>3
  <1>. QED  BY <1>2, <1>3, <1>4 DEF Inv

(* The first step of an operation.                                         *)
LEMMA BeginStep ==
    ASSUME Inv, NEW w \in Workers, NEW t \in Task, Begin(w, t), UNCHANGED serial,
           serial => OneAtATime' /\ TaskOK(t), RefOK(t),
           t.at \notin {"idle", "accepted"}
    PROVE  Inv'
  <1>1. /\ UNCHANGED <<store, serial>> /\ ops' \in Nat
        /\ task' = [task EXCEPT ![w] = t]
    BY SMT DEF Begin, Inv, TypeInv, TypeOK
  <1>2. t # Idle
    BY IdleType
  <1>. QED  BY <1>1, <1>2, TaskStep

(* An operation that ends without a write.                                 *)
LEMMA QuitStep ==
    ASSUME Inv, NEW w \in Workers, Finish(w), UNCHANGED <<store, ops, serial>>,
           serial => OneAtATime', task[w] # Idle
    PROVE  Inv'
  <1>1. ops' \in Nat /\ task' = [task EXCEPT ![w] = Idle]
    BY DEF Finish, Inv, TypeInv, TypeOK
  <1>. QED  BY <1>1, IdleType, TaskStep

(* An operation that has read something and goes on.                       *)
LEMMA GoStep ==
    ASSUME Inv, NEW w \in Workers, NEW step \in {"insertInvite", "owners", "update", "delete"},
           Goto(w, step), UNCHANGED <<store, ops, serial>>,
           task[w].who \in Emails, task[w].at # "idle",
           serial => OneAtATime' /\ TaskOK([task[w] EXCEPT !.at = step])
    PROVE  Inv'
  <1> DEFINE t == [task[w] EXCEPT !.at = step]
  <1>1. task[w] \in Task /\ task' = [task EXCEPT ![w] = t] /\ ops' \in Nat
    BY TaskType DEF Goto, Inv, TypeInv, TypeOK
  <1>2. t \in Task /\ t.at = step /\ t.who = task[w].who
    BY <1>1 DEF Task
  <1>3. RefOK(t)
    BY <1>2 DEF RefOK
  <1>4. serial => OneAtATime' /\ TaskOK(t) /\ task[w] # Idle
    BY IdleType
  <1>5. t.at # "accepted"
    BY <1>2
  <1> HIDE DEF t
  <1>. QED  BY <1>1, <1>2, <1>3, <1>4, <1>5, TaskStep

-----------------------------------------------------------------------------
(* Users are there for good, and invites that let nobody in stay so.       *)
LEMMA AdmitFrame ==
    ASSUME TypeInv, AdmitInv,
           \A i \in Invites : Passed(i)' =>
               Passed(i) /\ invite'[i].email = invite[i].email,
           \A e \in Emails : user[e].exists => user'[e].exists
    PROVE  AdmitInv'
  <1>1. \A i \in Invites : Passed(i)' => user'[invite'[i].email].exists
    BY InviteType DEF TypeInv, AdmitInv
  <1>2. \A i, j \in Invites :
           Passed(i)' /\ Passed(j)' /\ invite'[i].email = invite'[j].email => i = j
    BY DEF AdmitInv
  <1>. QED  BY <1>1, <1>2 DEF AdmitInv

(* A step that ends the operation of w, and may write: when operations come*)
(* one after the other, no other one has read what it writes.              *)
LEMMA EndStep ==
    ASSUME Inv, NEW w \in Workers, task[w] # Idle, Finish(w), UNCHANGED <<ops, serial>>,
           user' \in [Emails -> User], seats' \in Int,
           invite' \in [Invites -> Invite], claims' \in [Emails -> SUBSET Managers],
           \A i \in Invites : invite[i].status # "none" => invite'[i].status # "none",
           AdmitInv',
           serial => OneAtATime' /\ OwnerRemains' /\ SeatsInv'
    PROVE  Inv'
  <1>1. /\ TypeOK /\ task' \in [Workers -> Task] /\ task'[w] = Idle
        /\ \A v \in Workers \ {w} : task'[v] = task[v]
        /\ ops' \in Nat /\ serial' = serial /\ serial \in BOOLEAN
    BY IdleType DEF Inv, TypeInv, TypeOK, Finish
  <1>2. ASSUME NEW v \in Workers PROVE RefOK(task[v])'
    <2>1. RefOK(task[v]) /\ (task'[v] = task[v] \/ task'[v] = Idle)
      BY <1>1 DEF Inv, TypeInv
    <2>. QED  BY <2>1, IdleType DEF RefOK
  <1>3. TypeInv'
    <2>1. ASSUME NEW v \in Workers
          PROVE  /\ task'[v].at \in {"target", "owners", "update", "delete"} =>
                       task'[v].who \in Emails
                 /\ task'[v].at \in {"createUser", "accepted", "cancelled", "renew"} =>
                       invite'[task'[v].inv].status # "none"
      BY <1>2 DEF RefOK
    <2>2. TypeOK'
      BY <1>1, <2>1 DEF TypeOK
    <2>. QED  BY <1>2, <2>2 DEF TypeInv
  <1>4. SerialInv'
    <2> SUFFICES ASSUME serial
                 PROVE  /\ OneAtATime' /\ OwnerRemains' /\ SeatsInv'
                        /\ \A v \in Workers : TaskOK(task[v])'
      BY <1>1 DEF SerialInv
    <2>1. \A v \in Workers : task'[v] = Idle
      BY <1>1 DEF Inv, SerialInv, OneAtATime
    <2>2. \A v \in Workers : TaskOK(task[v])'
      BY <2>1, IdleType DEF TaskOK
    <2>. QED  BY <2>2
  <1>. QED  BY <1>3, <1>4 DEF Inv

(* The same when only invites and tokens are written.                      *)
LEMMA InviteEndStep ==
    ASSUME Inv, NEW w \in Workers, task[w] # Idle, Finish(w),
           UNCHANGED <<ops, serial, user, seats>>,
           invite' \in [Invites -> Invite], claims' \in [Emails -> SUBSET Managers],
           \A i \in Invites : invite[i].status # "none" =>
               invite'[i].status # "none" /\ invite'[i].email = invite[i].email,
           \A i \in Invites : invite'[i].status = "ACCEPTED" => Passed(i),
           serial => OneAtATime'
    PROVE  Inv'
  <1>1. TypeOK /\ user' \in [Emails -> User] /\ seats' \in Int
    BY DEF Inv, TypeInv, TypeOK
  <1>2. \A i \in Invites : Passed(i)' => Passed(i)
    <2>1. \A v \in Workers : task'[v] = Idle \/ task'[v] = task[v]
      BY <1>1 DEF Finish, TypeOK
    <2>. QED  BY <2>1, IdleType DEF Passed
  <1>3. \A i \in Invites : Passed(i) => invite[i].status # "none"
    BY DEF Inv, TypeInv, RefOK, Passed
  <1>4. AdmitInv'
    BY <1>2, <1>3, AdmitFrame DEF Inv
  <1>5. serial => OwnerRemains' /\ SeatsInv'
    BY DEF Inv, SerialInv, OwnerRemains, SeatsInv, Active
  <1>. QED  BY <1>1, <1>4, <1>5, EndStep

LEMMA ManagedType == \A c \in Roles : Managed(c) \in SUBSET Managers
  BY DEF Managed, Managers, Roles

LEMMA InsertInviteStep ==
    ASSUME Inv, NEW w \in Workers, InsertInvite(w), UNCHANGED serial,
           serial => OneAtATime'
    PROVE  Inv'
  <1>1. PICK i \in Invites :
           /\ invite[i].status = "none"
           /\ invite' = [invite EXCEPT ![i] =
                            [status |-> "PENDING", email |-> task[w].who,
                             role |-> task[w].role, expired |-> FALSE]]
    BY DEF InsertInvite
  <1>2. /\ TypeOK /\ task[w].at = "insertInvite" /\ task[w].who \in Emails
        /\ Finish(w) /\ UNCHANGED <<ops, user, seats, claims>>
    BY DEF InsertInvite, At, Inv, TypeInv, RefOK
  <1>3. [status |-> "PENDING", email |-> task[w].who, role |-> task[w].role,
         expired |-> FALSE] \in Invite
    BY <1>2, TaskType DEF Invite
  <1>4. /\ invite' \in [Invites -> Invite] /\ invite'[i].status = "PENDING"
        /\ \A j \in Invites \ {i} : invite'[j] = invite[j]
        /\ claims' \in [Emails -> SUBSET Managers]
    BY <1>1, <1>2, <1>3 DEF TypeOK
  <1>5. \A j \in Invites : invite'[j].status = "ACCEPTED" => Passed(j)
    BY <1>4 DEF Passed
  <1>6. \A j \in Invites : invite[j].status # "none" =>
            invite'[j].status # "none" /\ invite'[j].email = invite[j].email
    BY <1>1, <1>4
  <1>7. task[w] # Idle
    BY <1>2, IdleType
  <1>. QED  BY <1>2, <1>4, <1>5, <1>6, <1>7, InviteEndStep

LEMMA MarkStep ==
    ASSUME Inv, NEW w \in Workers, MarkAccepted(w) \/ MarkCancelled(w) \/ RenewToken(w),
           UNCHANGED serial, serial => OneAtATime'
    PROVE  Inv'
  <1> DEFINE i == task[w].inv
  <1>1. /\ TypeOK /\ task[w].at \in {"accepted", "cancelled", "renew"}
        /\ i \in Invites /\ invite[i].status # "none"
        /\ Finish(w) /\ UNCHANGED <<ops, user, seats>>
    BY DEF MarkAccepted, MarkCancelled, RenewToken, At, Inv, TypeInv, RefOK
  <1>2. /\ invite \in [Invites -> Invite] /\ claims \in [Emails -> SUBSET Managers]
        /\ invite[i].email \in Emails /\ Managed(invite[i].role) \in SUBSET Managers
        /\ invite[i].expired \in BOOLEAN /\ invite[i] \in Invite
    BY <1>1, InviteType, ManagedType DEF TypeOK
  <1> HIDE DEF i
  <1>3. /\ invite' \in [Invites -> Invite] /\ claims' \in [Emails -> SUBSET Managers]
        /\ \A j \in Invites \ {i} : invite'[j] = invite[j]
        /\ invite'[i].email = invite[i].email /\ invite'[i].status # "none"
        /\ invite'[i].status = "ACCEPTED" => Passed(i)
    <2>1. CASE MarkAccepted(w)
      <3> DEFINE x == [invite[i] EXCEPT !.status = "ACCEPTED"]
      <3>1. x \in Invite /\ x.email = invite[i].email /\ x.status = "ACCEPTED"
        BY <1>2 DEF Invite
      <3>2. /\ invite' = [invite EXCEPT ![i] = x]
            /\ claims' = [claims EXCEPT ![invite[i].email] =
                             @ \cup Managed(invite[i].role)]
            /\ task[w].at = "accepted"
        BY <2>1 DEF MarkAccepted, At, i
      <3> HIDE DEF x
      <3>3. claims' \in [Emails -> SUBSET Managers]
        BY <1>2, <3>2
      <3>4. Passed(i)
        BY <3>2 DEF Passed, i
      <3>. QED  BY <1>1, <1>2, <3>1, <3>2, <3>3, <3>4
    <2>2. CASE MarkCancelled(w)
      <3> DEFINE x == [invite[i] EXCEPT !.status = "CANCELLED"]
      <3>1. x \in Invite /\ x.email = invite[i].email /\ x.status = "CANCELLED"
        BY <1>2 DEF Invite
      <3>2. invite' = [invite EXCEPT ![i] = x] /\ claims' = claims
        BY <2>2 DEF MarkCancelled, i
      <3> HIDE DEF x
      <3>. QED  BY <1>1, <1>2, <3>1, <3>2
    <2>3. CASE RenewToken(w)
      <3> DEFINE b == invite[i].expired /\ invite[i].status # "PENDING"
                 x == [invite[i] EXCEPT !.expired = b]
      <3>1. b \in BOOLEAN
        OBVIOUS
      <3>2. x \in Invite /\ x.email = invite[i].email /\ x.status = invite[i].status
        BY <1>2, <3>1 DEF Invite
      <3>3. invite' = [invite EXCEPT ![i] = x] /\ claims' = claims
        BY <2>3 DEF RenewToken, i
      <3> HIDE DEF x
      <3>. QED  BY <1>1, <1>2, <3>2, <3>3 DEF Passed
    <2>. QED  BY <2>1, <2>2, <2>3 DEF i
  <1>4. \A j \in Invites : invite'[j].status = "ACCEPTED" => Passed(j)
    BY <1>3 DEF Passed
  <1>5. \A j \in Invites : invite[j].status # "none" =>
            invite'[j].status # "none" /\ invite'[j].email = invite[j].email
    BY <1>3
  <1>6. task[w] # Idle
    BY <1>1, IdleType
  <1>. QED  BY <1>1, <1>3, <1>4, <1>5, <1>6, InviteEndStep

-----------------------------------------------------------------------------
(* The last write of an operation on a user.                               *)
LEMMA UserEndStep ==
    ASSUME Inv, NEW w \in Workers, task[w] # Idle, Finish(w),
           NEW e \in Emails, NEW r \in User, WriteUser(e, r),
           UNCHANGED <<ops, serial, invite>>, claims' \in [Emails -> SUBSET Managers],
           user[e].exists => r.exists,
           serial => /\ OneAtATime' /\ (r.active => Live(r))
                     /\ ActiveOwner(user[e]) => ActiveOwner(r) \/ AnotherOwner(e)
    PROVE  Inv'
  <1>1. /\ TypeOK /\ user' \in [Emails -> User] /\ seats' \in Int
        /\ user'[e] = r /\ \A f \in Emails \ {e} : user'[f] = user[f]
        /\ invite' \in [Invites -> Invite]
    BY WriteFacts DEF Inv, TypeInv, TypeOK
  <1>2. AdmitInv'
    <2>1. \A v \in Workers : task'[v] = Idle \/ task'[v] = task[v]
      BY <1>1 DEF Finish, TypeOK
    <2>2. \A i \in Invites : Passed(i)' => Passed(i)
      BY <2>1, IdleType DEF Passed
    <2>3. \A f \in Emails : user[f].exists => user'[f].exists
      BY <1>1
    <2>. QED  BY <2>2, <2>3, AdmitFrame DEF Inv
  <1>3. ASSUME serial PROVE OneAtATime' /\ OwnerRemains' /\ SeatsInv'
    <2>1. SeatsInv'
      BY <1>1, <1>3, WriteKeepsSeats DEF Inv, SerialInv
    <2>2. PICK o \in Emails : ActiveOwner(user[o])
      BY <1>3 DEF Inv, SerialInv, OwnerRemains
    <2>3. \E f \in Emails : ActiveOwner(user'[f])
      <3>1. CASE o # e
        BY <1>1, <2>2, <3>1
      <3>2. CASE o = e
        BY <1>1, <1>3, <2>2, <3>2 DEF AnotherOwner
      <3>. QED  BY <3>1, <3>2
    <2>. QED  BY <1>3, <2>1, <2>3 DEF OwnerRemains, ActiveOwner, Live
  <1>. QED  BY <1>1, <1>2, <1>3, EndStep

(* What UpdateRow writes, and why it may.                                  *)
LEMMA UpdateFacts ==
    ASSUME Inv, NEW w \in Workers, UpdateRow(w)
    PROVE  LET e == task[w].who
               r == [user[e] EXCEPT !.role = task[w].row.role,
                                    !.active = task[w].row.active]
           IN  /\ e \in Emails /\ r \in User /\ WriteUser(e, r)
               /\ r.exists = user[e].exists /\ r.gone = user[e].gone
               /\ r.role = task[w].row.role /\ r.active = task[w].row.active
               /\ task[w].at = "update" /\ user'[e] = r
               /\ \A f \in Emails \ {e} : user'[f] = user[f]
               /\ Finish(w) /\ UNCHANGED <<ops, invite>>
  <1> DEFINE e == task[w].who
             r == [user[e] EXCEPT !.role = task[w].row.role,
                                  !.active = task[w].row.active]
  <1>1. /\ TypeOK /\ task[w].at = "update" /\ e \in Emails /\ WriteUser(e, r)
        /\ Finish(w) /\ UNCHANGED <<ops, invite>>
    BY DEF UpdateRow, At, Inv, TypeInv, RefOK
  <1>2. /\ user[e] \in User /\ task[w].row.role \in Roles
        /\ task[w].row.active \in BOOLEAN
    BY <1>1, RowType, TaskType
  <1>3. /\ r \in User /\ r.exists = user[e].exists /\ r.gone = user[e].gone
        /\ r.role = task[w].row.role /\ r.active = task[w].row.active
    BY <1>2 DEF User
  <1> HIDE DEF r
  <1>4. user'[e] = r /\ \A f \in Emails \ {e} : user'[f] = user[f]
    BY <1>1, <1>3, WriteFacts
  <1>. QED  BY <1>1, <1>3, <1>4 DEF r

LEMMA UpdateRowStep ==
    ASSUME Inv, NEW w \in Workers, UpdateRow(w), UNCHANGED serial,
           serial => OneAtATime'
    PROVE  Inv'
  <1> DEFINE e == task[w].who
             r == [user[e] EXCEPT !.role = task[w].row.role,
                                  !.active = task[w].row.active]
  <1>1. /\ e \in Emails /\ r \in User /\ WriteUser(e, r)
        /\ r.exists = user[e].exists /\ r.gone = user[e].gone
        /\ r.role = task[w].row.role /\ r.active = task[w].row.active
        /\ task[w].at = "update" /\ Finish(w) /\ UNCHANGED <<ops, invite>>
    BY UpdateFacts
  <1> HIDE DEF r
  <1>2. claims' \in [Emails -> SUBSET Managers]
    <2>1. /\ claims \in [Emails -> SUBSET Managers]
          /\ Managed(task[w].row.role) \in SUBSET Managers
      BY TaskType, ManagedType DEF Inv, TypeInv, TypeOK
    <2>2. \/ claims' = claims
          \/ claims' = [claims EXCEPT ![e] = @ \cup Managed(task[w].row.role)]
      BY DEF UpdateRow
    <2>. QED  BY <1>1, <2>1, <2>2
  <1>3. ASSUME serial
        PROVE  /\ r.active => Live(r)
               /\ ActiveOwner(user[e]) => ActiveOwner(r) \/ AnotherOwner(e)
    <2>1. TaskOK(task[w])
      BY <1>3 DEF Inv, SerialInv
    <2>2. Live(r)
      BY <1>1, <2>1 DEF TaskOK, Live
    <2>3. ActiveOwner(user[e]) => ActiveOwner(r) \/ Demotes(user[e], task[w].row)
      BY <1>1, <2>2 DEF ActiveOwner, Demotes
    <2>4. Demotes(user[e], task[w].row) => AnotherOwner(e)
      BY <1>1, <2>1 DEF TaskOK
    <2>. QED  BY <2>2, <2>3, <2>4
  <1>4. task[w] # Idle
    BY <1>1, IdleType
  <1> HIDE DEF e
  <1>. QED  BY <1>1, <1>2, <1>3, <1>4, UserEndStep

LEMMA DeleteFacts ==
    ASSUME Inv, NEW w \in Workers, DeleteRow(w)
    PROVE  LET e == task[w].who
               r == IF user[e].gone THEN user[e]
                    ELSE [user[e] EXCEPT !.gone = TRUE, !.active = FALSE]
           IN  /\ e \in Emails /\ r \in User /\ WriteUser(e, r)
               /\ r.exists = user[e].exists
               /\ r.active => user[e].gone /\ user[e].active
               /\ task[w].at = "delete" /\ user'[e] = r
               /\ \A f \in Emails \ {e} : user'[f] = user[f]
               /\ Finish(w) /\ UNCHANGED <<ops, invite, claims>>
  <1> DEFINE e == task[w].who
             r == IF user[e].gone THEN user[e]
                  ELSE [user[e] EXCEPT !.gone = TRUE, !.active = FALSE]
  <1>1. /\ TypeOK /\ task[w].at = "delete" /\ e \in Emails /\ WriteUser(e, r)
        /\ Finish(w) /\ UNCHANGED <<ops, invite, claims>>
    BY DEF DeleteRow, At, Inv, TypeInv, RefOK
  <1>2. user[e] \in User
    BY <1>1, RowType
  <1>3. /\ r \in User /\ r.exists = user[e].exists
        /\ r.active => user[e].gone /\ user[e].active
    BY <1>2 DEF User
  <1> HIDE DEF r
  <1>4. user'[e] = r /\ \A f \in Emails \ {e} : user'[f] = user[f]
    BY <1>1, <1>3, WriteFacts
  <1>. QED  BY <1>1, <1>3, <1>4 DEF r

LEMMA DeleteRowStep ==
    ASSUME Inv, NEW w \in Workers, DeleteRow(w), UNCHANGED serial,
           serial => OneAtATime'
    PROVE  Inv'
  <1>1. PICK e \in Emails, r \in User :
           /\ e = task[w].who /\ WriteUser(e, r) /\ r.exists = user[e].exists
           /\ r.active => user[e].gone /\ user[e].active
           /\ task[w].at = "delete" /\ Finish(w) /\ UNCHANGED <<ops, invite, claims>>
    BY DeleteFacts
  <1>2. claims' \in [Emails -> SUBSET Managers]
    BY <1>1 DEF Inv, TypeInv, TypeOK
  <1>3. ASSUME serial
        PROVE  /\ r.active => Live(r)
               /\ ActiveOwner(user[e]) => ActiveOwner(r) \/ AnotherOwner(e)
    <2>1. TaskOK(task[w]) /\ (user[e].active => Live(user[e]))
      BY <1>3 DEF Inv, SerialInv, SeatsInv
    <2>2. ~r.active
      BY <1>1, <2>1 DEF Live
    <2>3. ActiveOwner(user[e]) => AnotherOwner(e)
      BY <1>1, <2>1 DEF TaskOK, ActiveOwner
    <2>. QED  BY <2>2, <2>3
  <1>4. task[w] # Idle
    BY <1>1, IdleType
  <1>. QED  BY <1>1, <1>2, <1>3, <1>4, UserEndStep

LEMMA CreateUserStep ==
    ASSUME Inv, NEW w \in Workers, CreateUser(w), UNCHANGED serial,
           serial => OneAtATime'
    PROVE  Inv'
  <1> DEFINE i == task[w].inv
             e == invite[i].email
             r == Joined(invite[i].role)
  <1>1. /\ TypeInv /\ TypeOK /\ task[w].at = "createUser" /\ i \in Invites
        /\ invite[i].status # "none" /\ UNCHANGED <<ops, invite, claims>>
    BY DEF CreateUser, At, Inv, TypeInv, RefOK
  <1>2. e \in Emails /\ invite[i].role \in Roles /\ task[w] \in Task /\ task[w] # Idle
    BY <1>1, InviteType, TaskType, IdleType
  <1>3. CASE user[e].exists
    <2>1. Finish(w) /\ UNCHANGED store
      BY <1>1, <1>3 DEF CreateUser, store
    <2>. QED  BY <1>1, <1>2, <2>1, QuitStep
  <1>4. CASE ~user[e].exists
    <2> DEFINE t == [task[w] EXCEPT !.at = "accepted"]
    <2>1. WriteUser(e, r) /\ task' = [task EXCEPT ![w] = t]
      BY <1>1, <1>4 DEF CreateUser, Goto, TypeOK
    <2>2. /\ t \in Task /\ t.at = "accepted" /\ t.inv = i
      BY <1>2 DEF Task
    <2>3. r \in User /\ r.exists /\ ~r.gone /\ r.active
      BY <1>2, UserType
    <2> HIDE DEF i, e, r, t
    <2>4. /\ user' \in [Emails -> User] /\ seats' \in Int /\ user'[e] = r
          /\ \A f \in Emails \ {e} : user'[f] = user[f]
      BY <1>1, <1>2, <2>1, <2>3, WriteFacts
    <2>5. /\ task' \in [Workers -> Task] /\ task'[w] = t
          /\ \A v \in Workers \ {w} : task'[v] = task[v]
      BY <1>1, <2>1, <2>2 DEF TypeOK
    <2>6. ASSUME NEW v \in Workers PROVE RefOK(task[v])'
      <3>1. RefOK(task[v])
        BY <1>1 DEF TypeInv
      <3>2. CASE v = w
        BY <1>1, <2>2, <2>5, <3>2 DEF RefOK
      <3>3. CASE v # w
        BY <1>1, <2>5, <3>1, <3>3 DEF RefOK
      <3>. QED  BY <3>2, <3>3
    <2>7. TypeInv'
      <3>1. ASSUME NEW v \in Workers
            PROVE  /\ task'[v].at \in {"target", "owners", "update", "delete"} =>
                         task'[v].who \in Emails
                   /\ task'[v].at \in {"createUser", "accepted", "cancelled", "renew"} =>
                         invite'[task'[v].inv].status # "none"
        BY <2>6 DEF RefOK
      <3>2. TypeOK'
        BY <1>1, <2>4, <2>5, <3>1 DEF TypeOK
      <3>. QED  BY <2>6, <3>2 DEF TypeInv
    <2>8. AdmitInv'
      <3>1. \A j \in Invites : Passed(j)' => Passed(j) \/ j = i
        BY <1>1, <2>2, <2>5 DEF Passed
      <3>2. \A j \in Invites : Passed(j) => user[invite[j].email].exists
        BY DEF Inv, AdmitInv
      <3>3. \A j \in Invites : Passed(j) => invite[j].email # e
        BY <1>4, <3>2 DEF e
      <3>4. \A j \in Invites : Passed(j)' => user'[invite'[j].email].exists
        BY <1>1, <2>3, <2>4, <3>1, <3>2, InviteType DEF e
      <3>5. \A j, k \in Invites :
               Passed(j)' /\ Passed(k)' /\ invite'[j].email = invite'[k].email => j = k
        BY <1>1, <3>1, <3>3 DEF Inv, AdmitInv, e
      <3>. QED  BY <3>4, <3>5 DEF AdmitInv
    <2>9. SerialInv'
      <3> SUFFICES ASSUME serial
                   PROVE  /\ OneAtATime' /\ OwnerRemains' /\ SeatsInv'
                          /\ \A v \in Workers : TaskOK(task[v])'
        BY DEF SerialInv
      <3>1. /\ OneAtATime /\ OwnerRemains /\ SeatsInv /\ TaskOK(task[w])
        BY DEF Inv, SerialInv
      <3>2. SeatsInv'
        BY <1>1, <1>2, <2>1, <2>3, <3>1, WriteKeepsSeats DEF Live
      <3>3. OwnerRemains'
        <4>1. PICK o \in Emails : ActiveOwner(user[o])
          BY <3>1 DEF OwnerRemains
        <4>2. o # e
          BY <1>4, <4>1 DEF ActiveOwner, Live
        <4>3. user'[o] = user[o]
          BY <2>4, <4>2
        <4>. QED  BY <4>1, <4>3 DEF OwnerRemains, ActiveOwner, Live
      <3>4. invite[i].status = "PENDING"
        BY <1>1, <3>1 DEF TaskOK, i
      <3>5. ASSUME NEW v \in Workers PROVE TaskOK(task[v])'
        <4>1. CASE v = w
          BY <1>1, <2>2, <2>5, <3>4, <4>1 DEF TaskOK
        <4>2. CASE v # w
          <5>1. task'[v] = Idle
            BY <1>2, <2>5, <3>1, <4>2 DEF OneAtATime
          <5>. QED  BY <5>1, IdleType DEF TaskOK
        <4>. QED  BY <4>1, <4>2
      <3>. QED  BY <3>2, <3>3, <3>5
    <2>. QED  BY <2>7, <2>8, <2>9 DEF Inv
  <1>. QED  BY <1>3, <1>4

-----------------------------------------------------------------------------
(* The operations begin.                                                   *)
LEMMA InviteBegins ==
    ASSUME Inv, NEW w \in Workers,
           CreateInvite(w) \/ AcceptInvite(w) \/ CancelInvite(w) \/ ResendInvite(w),
           UNCHANGED serial, serial => OneAtATime'
    PROVE  Inv'
  <1>1. CASE CreateInvite(w)
    <2>1. PICK e \in Emails, role \in Roles :
             Begin(w, [Idle EXCEPT !.op = "invite", !.at = "inviteLookup",
                                   !.who = e, !.role = role])
      BY <1>1 DEF CreateInvite
    <2> DEFINE t == [Idle EXCEPT !.op = "invite", !.at = "inviteLookup",
                                 !.who = e, !.role = role]
    <2>2. t \in Task /\ t.at = "inviteLookup" /\ t.who = e
      BY IdleType DEF Task
    <2>3. RefOK(t) /\ TaskOK(t)
      BY <2>2 DEF RefOK, TaskOK
    <2> HIDE DEF t
    <2>4. Begin(w, t)
      BY <2>1 DEF t
    <2>. QED  BY <2>2, <2>3, <2>4, BeginStep
  <1>2. CASE AcceptInvite(w) \/ CancelInvite(w) \/ ResendInvite(w)
    <2>1. PICK i \in Invites, op \in {"accept", "cancel", "resend"},
               at \in {"createUser", "cancelled", "renew"} :
             /\ invite[i].status = "PENDING"
             /\ Begin(w, [Idle EXCEPT !.op = op, !.at = at, !.inv = i])
      BY <1>2 DEF AcceptInvite, CancelInvite, ResendInvite
    <2> DEFINE t == [Idle EXCEPT !.op = op, !.at = at, !.inv = i]
    <2>2. t \in Task /\ t.at = at /\ t.inv = i
      BY IdleType DEF Task
    <2>3. RefOK(t) /\ TaskOK(t)
      BY <2>1, <2>2 DEF RefOK, TaskOK
    <2>4. t.at \notin {"idle", "accepted"}
      BY <2>2
    <2> HIDE DEF t
    <2>5. Begin(w, t)
      BY <2>1 DEF t
    <2>. QED  BY <2>2, <2>3, <2>4, <2>5, BeginStep
  <1>. QED  BY <1>1, <1>2

LEMMA UserBegins ==
    ASSUME Inv, NEW w \in Workers, Login(w) \/ ChangePassword(w) \/ ManageUser(w),
           UNCHANGED serial, serial => OneAtATime'
    PROVE  Inv'
  <1>1. CASE Login(w) \/ ChangePassword(w)
    <2>1. PICK e \in Emails, op \in {"login", "password"} :
             /\ Live(user[e])
             /\ Begin(w, [Idle EXCEPT !.op = op, !.at = "update", !.by = e,
                                      !.who = e, !.row = user[e]])
      BY <1>1 DEF Login, ChangePassword
    <2> DEFINE t == [Idle EXCEPT !.op = op, !.at = "update", !.by = e,
                                 !.who = e, !.row = user[e]]
    <2>2. /\ t \in Task /\ t.at = "update" /\ t.who = e /\ t.op = op
          /\ t.row = user[e]
      BY IdleType, RowType DEF Inv, TypeInv, Task
    <2>3. ~Demotes(user[e], user[e])
      BY DEF Demotes
    <2> HIDE DEF t
    <2>4. RefOK(t)
      BY <2>2 DEF RefOK
    <2>5. TaskOK(t)
      BY <2>1, <2>2, <2>3 DEF TaskOK
    <2>6. Begin(w, t)
      BY <2>1 DEF t
    <2>. QED  BY <2>2, <2>4, <2>5, <2>6, BeginStep
  <1>2. CASE ManageUser(w)
    <2>1. PICK by \in Emails, e \in Emails, op \in {"update", "remove"} :
             /\ claims[by] # {}
             /\ Begin(w, [Idle EXCEPT !.op = op, !.at = "target", !.by = by,
                                      !.who = e, !.role = user[by].role])
      BY <1>2 DEF ManageUser
    <2> DEFINE t == [Idle EXCEPT !.op = op, !.at = "target", !.by = by,
                                 !.who = e, !.role = user[by].role]
    <2>2. user[by].role \in Roles
      BY RowType DEF Inv, TypeInv
    <2>3. t \in Task /\ t.at = "target" /\ t.who = e /\ t.op = op /\ t.by = by
      BY <2>2, IdleType DEF Task
    <2> HIDE DEF t
    <2>4. RefOK(t) /\ TaskOK(t)
      BY <2>1, <2>3 DEF RefOK, TaskOK
    <2>5. Begin(w, t)
      BY <2>1 DEF t
    <2>. QED  BY <2>3, <2>4, <2>5, BeginStep
  <1>. QED  BY <1>1, <1>2

-----------------------------------------------------------------------------
(* The operations read, and decide.                                        *)
LEMMA InviteLookupStep ==
    ASSUME Inv, NEW w \in Workers, InviteLookup(w), UNCHANGED serial,
           serial => OneAtATime'
    PROVE  Inv'
  <1>1. /\ task[w].at = "inviteLookup" /\ UNCHANGED <<store, ops>>
        /\ task[w].who \in Emails /\ task[w] # Idle /\ task[w] \in Task
    BY IdleType, TaskType DEF InviteLookup, At, Inv, TypeInv, RefOK
  <1>2. CASE Finish(w)
    BY <1>1, <1>2, QuitStep
  <1>3. CASE Goto(w, "insertInvite")
    <2> DEFINE t == [task[w] EXCEPT !.at = "insertInvite"]
    <2>1. t.at = "insertInvite"
      BY <1>1 DEF Task
    <2>2. TaskOK(t)
      BY <2>1 DEF TaskOK
    <2>. QED  BY <1>1, <1>3, <2>2, GoStep
  <1>. QED  BY <1>2, <1>3 DEF InviteLookup

LEMMA UpdateTargetStep ==
    ASSUME Inv, NEW w \in Workers, UpdateTarget(w), UNCHANGED serial,
           serial => OneAtATime'
    PROVE  Inv'
  <1> DEFINE r == user[task[w].who]
  <1>1. /\ task[w].at = "target" /\ task[w].op = "update" /\ UNCHANGED <<store, ops>>
        /\ task[w].who \in Emails /\ task[w] # Idle /\ task[w] \in Task /\ TypeOK
        /\ ops' \in Nat
    BY IdleType, TaskType DEF UpdateTarget, At, Inv, TypeInv, TypeOK, RefOK
  <1>2. PICK role \in Roles, active \in BOOLEAN :
           LET new == [r EXCEPT !.role = role, !.active = active] IN
           IF Live(r) /\ MayUpdate(task[w], r, new)
           THEN task' = [task EXCEPT ![w].at = IF Demotes(r, new) THEN "owners"
                                               ELSE "update",
                                     ![w].row = new]
           ELSE Finish(w)
    BY DEF UpdateTarget
  <1> DEFINE new == [r EXCEPT !.role = role, !.active = active]
  <1>3. CASE Live(r) /\ MayUpdate(task[w], r, new)
    <2> DEFINE step == IF Demotes(r, new) THEN "owners" ELSE "update"
               t == [task[w] EXCEPT !.at = step, !.row = new]
    <2>1. r \in User /\ new \in User
      BY <1>1, RowType DEF User
    <2>2. MayUpdate(task[w], r, new) /\ Live(r)
      BY <1>3
    <2>3. task' = [task EXCEPT ![w].at = step, ![w].row = new]
      BY <1>2, <1>3
    <2> HIDE DEF new, r
    <2>4. step \in {"owners", "update"} /\ (step = "update" => ~Demotes(r, new))
      OBVIOUS
    <2> HIDE DEF step
    <2>5. /\ t \in Task /\ t.at = step /\ t.row = new /\ t.who = task[w].who
          /\ t.op = "update" /\ t.by = task[w].by /\ t.role = task[w].role
      BY <1>1, <2>1, <2>4 DEF Task
    <2>6. task' = [task EXCEPT ![w] = t]
      BY <1>1, <2>3 DEF TypeOK
    <2> HIDE DEF t
    <2>7. MayUpdate(t, r, new)
      BY <2>2, <2>5 DEF MayUpdate
    <2>8. RefOK(t)
      BY <1>1, <2>4, <2>5 DEF RefOK
    <2>9. ASSUME serial PROVE TaskOK(t)
      <3>1. t.by \in Emails /\ claims[t.by] # {}
        BY <1>1, <2>5, <2>9 DEF Inv, SerialInv, TaskOK
      <3>. QED  BY <2>2, <2>4, <2>5, <2>7, <3>1 DEF TaskOK, r
    <2>10. t.at # "accepted"
      BY <2>4, <2>5
    <2>. QED  BY <1>1, <2>5, <2>6, <2>8, <2>9, <2>10, TaskStep
  <1>4. CASE ~(Live(r) /\ MayUpdate(task[w], r, new))
    <2>1. Finish(w)
      BY <1>2, <1>4
    <2>. QED  BY <1>1, <2>1, QuitStep
  <1>. QED  BY <1>3, <1>4

LEMMA RemoveTargetStep ==
    ASSUME Inv, NEW w \in Workers, RemoveTarget(w), UNCHANGED serial,
           serial => OneAtATime'
    PROVE  Inv'
  <1> DEFINE r == user[task[w].who]
             step == IF r.role = "OWNER" THEN "owners" ELSE "delete"
             t == [task[w] EXCEPT !.at = step]
  <1>1. /\ task[w].at = "target" /\ task[w].op = "remove" /\ UNCHANGED <<store, ops>>
        /\ task[w].who \in Emails /\ task[w] # Idle /\ task[w] \in Task
        /\ TypeOK /\ task[w].role \in Roles
    BY IdleType, TaskType DEF RemoveTarget, At, Inv, TypeInv, RefOK
  <1>2. CASE ~Live(r) \/ Rank[r.role] > Rank[task[w].role]
    <2>1. Finish(w)
      BY <1>2 DEF RemoveTarget
    <2>. QED  BY <1>1, <2>1, QuitStep
  <1>3. CASE Live(r) /\ ~(Rank[r.role] > Rank[task[w].role])
    <2>1. Goto(w, step)
      BY <1>3 DEF RemoveTarget
    <2>2. step \in {"owners", "delete"} /\ (step = "delete" => r.role # "OWNER")
      OBVIOUS
    <2>3. /\ t.at = step /\ t.who = task[w].who /\ t.op = "remove"
          /\ t.role = task[w].role
      BY <1>1 DEF Task
    <2>4. Rank[r.role] <= Rank[task[w].role]
      <3>1. Rank[r.role] \in Nat /\ Rank[task[w].role] \in Nat
        BY <1>1, RowType, RankFacts
      <3>. QED  BY <1>3, <3>1, SMT
    <2> HIDE DEF step, t
    <2>5. TaskOK(t)
      BY <1>3, <2>2, <2>3, <2>4 DEF TaskOK
    <2>6. TaskOK([task[w] EXCEPT !.at = step])
      BY <2>5 DEF t
    <2>. QED  BY <1>1, <2>1, <2>2, <2>6, GoStep
  <1>. QED  BY <1>2, <1>3

LEMMA EnsureAnotherOwnerStep ==
    ASSUME Inv, NEW w \in Workers, EnsureAnotherOwner(w), UNCHANGED serial,
           serial => OneAtATime'
    PROVE  Inv'
  <1> DEFINE step == IF task[w].op = "remove" THEN "delete" ELSE "update"
             t == [task[w] EXCEPT !.at = step]
  <1>1. /\ task[w].at = "owners" /\ UNCHANGED <<store, ops>>
        /\ task[w].who \in Emails /\ task[w] # Idle /\ task[w] \in Task
    BY IdleType, TaskType DEF EnsureAnotherOwner, At, Inv, TypeInv, RefOK
  <1>2. CASE AnotherOwner(task[w].who)
    <2>1. Goto(w, step)
      BY <1>2 DEF EnsureAnotherOwner, AnotherOwner
    <2>2. step \in {"update", "delete"} /\ (step = "delete" <=> task[w].op = "remove")
      OBVIOUS
    <2>3. /\ t.at = step /\ t.who = task[w].who /\ t.op = task[w].op
          /\ t.role = task[w].role /\ t.row = task[w].row /\ t.by = task[w].by
      BY <1>1 DEF Task
    <2> HIDE DEF step, t
    <2>4. ASSUME serial PROVE TaskOK(t)
      <3>1. TaskOK(task[w])
        BY <2>4 DEF Inv, SerialInv
      <3>2. task[w].op \in {"update", "remove"} /\ Live(user[task[w].who])
        BY <1>1, <3>1 DEF TaskOK
      <3>3. task[w].op = "update" => MayUpdate(t, user[task[w].who], task[w].row)
        BY <1>1, <2>3, <3>1 DEF TaskOK, MayUpdate
      <3>. QED  BY <1>1, <1>2, <2>2, <2>3, <3>1, <3>2, <3>3 DEF TaskOK
    <2>5. serial => TaskOK([task[w] EXCEPT !.at = step])
      BY <2>4 DEF t
    <2>. QED  BY <1>1, <2>1, <2>2, <2>5, GoStep
  <1>3. CASE ~AnotherOwner(task[w].who)
    <2>1. Finish(w)
      BY <1>3 DEF EnsureAnotherOwner, AnotherOwner
    <2>. QED  BY <1>1, <2>1, QuitStep
  <1>. QED  BY <1>2, <1>3

-----------------------------------------------------------------------------
(* Steps outside the operations: tasks, users and outcomes stay.           *)
LEMMA AsideStep ==
    ASSUME Inv, UNCHANGED <<user, seats, task, ops, serial>>,
           claims' \in [Emails -> SUBSET Managers], invite' \in [Invites -> Invite],
           \A e \in Emails : claims[e] \subseteq claims'[e],
           \A i \in Invites : /\ invite'[i].status = invite[i].status
                              /\ invite'[i].email = invite[i].email
    PROVE  Inv'
  <1>1. TypeInv /\ TypeOK /\ AdmitInv /\ SerialInv
    BY DEF Inv, TypeInv
  <1>2. TypeInv'
    <2>1. \A w \in Workers : RefOK(task[w])'
      BY <1>1 DEF TypeInv, RefOK
    <2>2. ASSUME NEW v \in Workers
          PROVE  /\ task'[v].at \in {"target", "owners", "update", "delete"} =>
                       task'[v].who \in Emails
                 /\ task'[v].at \in {"createUser", "accepted", "cancelled", "renew"} =>
                       invite'[task'[v].inv].status # "none"
      BY <2>1 DEF RefOK
    <2>3. TypeOK'
      BY <1>1, <2>2 DEF TypeOK
    <2>. QED  BY <2>1, <2>3 DEF TypeInv
  <1>3. AdmitInv'
    <2>1. \A i \in Invites : Passed(i)' => Passed(i)
      BY DEF Passed
    <2>. QED  BY <1>1, <2>1, AdmitFrame
  <1>4. SerialInv'
    <2> SUFFICES ASSUME serial
                 PROVE  /\ OneAtATime' /\ OwnerRemains' /\ SeatsInv'
                        /\ \A v \in Workers : TaskOK(task[v])'
      BY DEF SerialInv
    <2>1. OneAtATime' /\ OwnerRemains' /\ SeatsInv'
      BY <1>1 DEF SerialInv, OneAtATime, OwnerRemains, SeatsInv, Active
    <2>2. ASSUME NEW w \in Workers, NEW t \in Task, t = task[w] PROVE TaskOK(t)'
      <3>1. TaskOK(t) /\ RefOK(t)
        BY <1>1, <2>2 DEF SerialInv, TypeInv
      <3>2. t.at \in {"createUser", "accepted", "cancelled", "renew"} =>
                invite'[t.inv].status = "PENDING"
        BY <3>1 DEF TaskOK, RefOK
      <3>3. t.at \in {"target", "owners", "update"} /\ t.op = "update" =>
                t.by \in Emails /\ claims'[t.by] # {}
        BY <3>1 DEF TaskOK
      <3>. QED  BY <3>1, <3>2, <3>3 DEF TaskOK, AnotherOwner
    <2>3. ASSUME NEW w \in Workers PROVE TaskOK(task[w])'
      <3>1. PICK t \in Task : t = task[w]
        BY <1>1, TaskType
      <3>. QED  BY <2>2, <3>1
    <2>. QED  BY <2>1, <2>3
  <1>. QED  BY <1>2, <1>3, <1>4 DEF Inv

LEMMA RefreshTokenStep ==
    ASSUME Inv, NEW w \in Workers, RefreshToken(w), UNCHANGED serial
    PROVE  Inv'
  <1>1. PICK e \in Emails :
           claims' = [claims EXCEPT ![e] = @ \cup Managed(user[e].role)]
    BY DEF RefreshToken
  <1>2. claims \in [Emails -> SUBSET Managers] /\ invite \in [Invites -> Invite]
        /\ Managed(user[e].role) \in SUBSET Managers
    BY RowType, ManagedType DEF Inv, TypeInv, TypeOK
  <1>3. claims' \in [Emails -> SUBSET Managers] /\ invite' = invite
        /\ \A f \in Emails : claims[f] \subseteq claims'[f]
        /\ UNCHANGED <<user, seats, task, ops>>
    BY <1>1, <1>2 DEF RefreshToken
  <1>. QED  BY <1>2, <1>3, AsideStep

LEMMA ExpireStep ==
    ASSUME Inv, NEW i \in Invites, Expire(i), UNCHANGED serial
    PROVE  Inv'
  <1> DEFINE x == [invite[i] EXCEPT !.expired = TRUE]
  <1>1. /\ invite \in [Invites -> Invite] /\ claims \in [Emails -> SUBSET Managers]
        /\ UNCHANGED <<user, seats, claims, task, ops>>
        /\ invite' = [invite EXCEPT ![i] = x]
    BY DEF Inv, TypeInv, TypeOK, Expire
  <1>2. x \in Invite /\ x.status = invite[i].status /\ x.email = invite[i].email
    BY <1>1 DEF Invite
  <1> HIDE DEF x
  <1>3. /\ invite' \in [Invites -> Invite]
        /\ \A j \in Invites : /\ invite'[j].status = invite[j].status
                              /\ invite'[j].email = invite[j].email
    BY <1>1, <1>2
  <1>. QED  BY <1>1, <1>3, AsideStep

-----------------------------------------------------------------------------
LEMMA InvInit == Init => Inv
  <1> SUFFICES ASSUME Init PROVE Inv
    OBVIOUS
  <1>1. /\ Founder \in Emails /\ "OWNER" \in Roles /\ "VIEWER" \in Roles
        /\ Joined("OWNER") \in User /\ NoUser \in User /\ {"OWNER"} \in SUBSET Managers
        /\ {} \in SUBSET Managers
    BY MembersAssumption, UserType DEF Roles, Managers
  <1>2. \A w \in Workers : task[w] = Idle
    BY DEF Init
  <1>3. user \in [Emails -> User] /\ claims \in [Emails -> SUBSET Managers]
    BY <1>1 DEF Init
  <1>4. /\ invite \in [Invites -> Invite]
        /\ \A i \in Invites : invite[i].status = "none"
    BY <1>1 DEF Init, Invite
  <1>5. task \in [Workers -> Task] /\ seats \in Int /\ ops \in Nat /\ serial \in BOOLEAN
    BY IdleType, SMT DEF Init
  <1>6. TypeInv
    BY <1>2, <1>3, <1>4, <1>5, IdleType DEF TypeInv, TypeOK
  <1>7. AdmitInv
    BY <1>2, <1>4, IdleType DEF AdmitInv, Passed
  <1>8. SerialInv
    <2>1. user[Founder] = Joined("OWNER") /\ \A e \in Emails \ {Founder} : user[e] = NoUser
      BY <1>1 DEF Init
    <2>2. OwnerRemains
      BY <1>1, <2>1, UserType DEF OwnerRemains, ActiveOwner, Live
    <2>3. \A e \in Emails : user[e].active => Live(user[e])
      BY <1>1, <2>1, UserType DEF Live, NoUser
    <2>4. Active = {Founder}
      BY <1>1, <2>1, UserType DEF Active, NoUser
    <2>5. IsFiniteSet(Active) /\ Cardinality(Active) = 1
      BY <2>4, FS_Singleton
    <2>6. seats - 1 = 1
      BY SMT DEF Init
    <2>. QED  BY <1>2, <2>2, <2>3, <2>5, <2>6, IdleType DEF SerialInv, SeatsInv, OneAtATime
  <1>. QED  BY <1>6, <1>7, <1>8 DEF Inv

LEMMA InvStep == Inv /\ [Next]_vars => Inv'
  <1> SUFFICES ASSUME Inv, [Next]_vars PROVE Inv'
    OBVIOUS
  <1>1. CASE UNCHANGED vars
    <2>1. /\ UNCHANGED <<user, seats, invite, claims, task, ops, serial>>
          /\ claims' \in [Emails -> SUBSET Managers] /\ invite' \in [Invites -> Invite]
      BY <1>1 DEF vars, store, Inv, TypeInv, TypeOK
    <2>. QED  BY <2>1, AsideStep
  <1>2. CASE Next
    <2>1. UNCHANGED serial /\ (serial => OneAtATime')
      BY <1>2 DEF Next
    <2>2. ASSUME NEW w \in Workers, Inviting(w) PROVE Inv'
      BY <2>1, <2>2, InviteBegins, InviteLookupStep, InsertInviteStep, CreateUserStep,
         MarkStep DEF Inviting
    <2>3. ASSUME NEW w \in Workers, Using(w) PROVE Inv'
      BY <2>1, <2>3, UserBegins, RefreshTokenStep, UpdateTargetStep, RemoveTargetStep,
         EnsureAnotherOwnerStep, UpdateRowStep, DeleteRowStep DEF Using
    <2>4. ASSUME NEW w \in Workers, Abort(w) PROVE Inv'
      <3>1. Finish(w) /\ task[w] # Idle /\ UNCHANGED <<store, ops>>
        BY <2>4 DEF Abort
      <3>. QED  BY <2>1, <3>1, QuitStep
    <2>5. ASSUME NEW i \in Invites, Expire(i) PROVE Inv'
      BY <2>1, <2>5, ExpireStep
    <2>. QED  BY <1>2, <2>2, <2>3, <2>4, <2>5 DEF Next
  <1>. QED  BY <1>1, <1>2

(* Users, invites, tokens and operations are well formed in every state,   *)
(* however requests overlap.                                               *)
THEOREM MembersTypeCorrect == Spec => []TypeOK
<1>1. Inv => TypeOK
  BY DEF Inv, TypeInv
<1>2. QED  BY <1>1, InvInit, InvStep, PTL DEF Spec

(* AcceptInvite: an e-mail is admitted through one invite only, however    *)
(* many invites to it are accepted at once and wherever the process stops. *)
THEOREM InviteesAreAdmittedOnce == Spec => []AdmittedOnce
<1>1. Inv => AdmittedOnce
  BY DEF Inv, AdmitInv, Passed, AdmittedOnce
<1>2. QED  BY <1>1, InvInit, InvStep, PTL DEF Spec

(* One operation after the other, cut off anywhere: EnsureAnotherOwner     *)
(* keeps an active owner in.                                               *)
THEOREM SerialOwnerStays == Spec => []SerialOwner
<1>1. Inv => SerialOwner
  BY DEF Inv, SerialInv, SerialOwner
<1>2. QED  BY <1>1, InvInit, InvStep, PTL DEF Spec

-----------------------------------------------------------------------------
(* What the count is more than the users is the same before and after.     *)
LEMMA PaceStep == Inv /\ serial /\ Inv' /\ serial' => SeatsKeepPace
  <1> SUFFICES ASSUME Inv, serial, Inv', serial' PROVE SeatsKeepPace
    OBVIOUS
  <1>1. SeatsInv /\ SeatsInv'
    BY DEF Inv, SerialInv
  <1>2. Admitted = Active /\ Admitted' = Active'
    BY <1>1 DEF SeatsInv, Admitted, Active
  <1>3. /\ seats - 1 = Cardinality(Admitted) /\ seats' - 1 = Cardinality(Admitted')
        /\ seats \in Int /\ seats' \in Int
    BY <1>1, <1>2 DEF SeatsInv, Inv, TypeInv, TypeOK
  <1>. QED  BY <1>3 DEF SeatsKeepPace

(* A step of an operation that writes neither users nor outcomes.          *)
LEMMA QuietAccess ==
    ASSUME UNCHANGED user,
           \A i \in Invites : invite[i].status \in {"ACCEPTED", "CANCELLED"} =>
               invite'[i].status = invite[i].status
    PROVE  OwnersAnswerToOwners /\ Readmission /\ OutcomeStands
  BY DEF OwnersAnswerToOwners, Readmission, OutcomeStands, ActiveOwner, Live

LEMMA AccessStep ==
    Inv /\ serial /\ [Next]_vars => OwnersAnswerToOwners /\ Readmission /\ OutcomeStands
  <1> SUFFICES ASSUME Inv, serial, [Next]_vars
               PROVE  OwnersAnswerToOwners /\ Readmission /\ OutcomeStands
    OBVIOUS
  <1>1. TypeOK /\ invite \in [Invites -> Invite] /\ task \in [Workers -> Task]
    BY DEF Inv, TypeInv, TypeOK
  <1>2. \A w \in Workers : RefOK(task[w]) /\ TaskOK(task[w])
    BY DEF Inv, TypeInv, SerialInv
  <1>3. \A e \in Emails : user[e].active => Live(user[e])
    BY DEF Inv, SerialInv, SeatsInv
  <1>4. CASE UNCHANGED <<user, invite>>
    BY <1>4, QuietAccess
  <1>5. ASSUME NEW w \in Workers, InsertInvite(w) \/ MarkAccepted(w) \/ MarkCancelled(w)
                                  \/ RenewToken(w)
        PROVE  OwnersAnswerToOwners /\ Readmission /\ OutcomeStands
    <2>1. UNCHANGED user
      BY <1>5 DEF InsertInvite, MarkAccepted, MarkCancelled, RenewToken
    <2>2. ASSUME NEW i \in Invites, invite[i].status \in {"ACCEPTED", "CANCELLED"}
          PROVE  invite'[i].status = invite[i].status
      <3>1. CASE InsertInvite(w)
        <4>1. PICK j \in Invites :
                 /\ invite[j].status = "none"
                 /\ invite' = [invite EXCEPT ![j] =
                                  [status |-> "PENDING", email |-> task[w].who,
                                   role |-> task[w].role, expired |-> FALSE]]
          BY <3>1 DEF InsertInvite
        <4>. QED  BY <1>1, <2>2, <4>1
      <3>2. CASE MarkAccepted(w)
        <4>1. invite[task[w].inv].status = "PENDING"
          BY <1>2, <3>2 DEF MarkAccepted, At, TaskOK
        <4>2. invite' = [invite EXCEPT ![task[w].inv].status = "ACCEPTED"]
          BY <3>2 DEF MarkAccepted
        <4>. QED  BY <1>1, <2>2, <4>1, <4>2
      <3>3. CASE MarkCancelled(w)
        <4>1. invite[task[w].inv].status = "PENDING"
          BY <1>2, <3>3 DEF MarkCancelled, At, TaskOK
        <4>2. invite' = [invite EXCEPT ![task[w].inv].status = "CANCELLED"]
          BY <3>3 DEF MarkCancelled
        <4>. QED  BY <1>1, <2>2, <4>1, <4>2
      <3>4. CASE RenewToken(w)
        <4> DEFINE j == task[w].inv
                   x == [invite[j] EXCEPT !.expired =
                            @ /\ invite[j].status # "PENDING"]
        <4>1. j \in Invites /\ invite' = [invite EXCEPT ![j] = x]
          BY <1>2, <3>4 DEF RenewToken, At, RefOK
        <4>2. invite[j] \in Invite
          BY <1>1, <4>1
        <4>3. x.status = invite[j].status
          BY <4>2 DEF Invite
        <4> HIDE DEF x, j
        <4>. QED  BY <1>1, <4>1, <4>3
      <3>. QED  BY <1>5, <3>1, <3>2, <3>3, <3>4
    <2>. QED  BY <2>1, <2>2, QuietAccess
  <1>6. ASSUME NEW w \in Workers, CreateUser(w), UNCHANGED serial
        PROVE  OwnersAnswerToOwners /\ Readmission /\ OutcomeStands
    <2> DEFINE i == task[w].inv
               e == invite[i].email
    <2>1. /\ UNCHANGED invite /\ i \in Invites /\ e \in Emails
          /\ invite[i].role \in Roles
      BY <1>1, <1>2, <1>6, InviteType DEF CreateUser, At, RefOK
    <2>2. CASE user[e].exists
      BY <1>4, <1>6, <2>1, <2>2 DEF CreateUser
    <2>3. CASE ~user[e].exists
      <3>1. WriteUser(e, Joined(invite[i].role)) /\ Joined(invite[i].role) \in User
        BY <1>6, <2>1, <2>3, UserType DEF CreateUser
      <3>2. \A f \in Emails \ {e} : user'[f] = user[f]
        BY <1>1, <2>1, <3>1, WriteFacts
      <3>3. ~ActiveOwner(user[e])
        BY <2>3 DEF ActiveOwner, Live
      <3>4. \A f \in Emails : ActiveOwner(user[f]) => user'[f] = user[f]
        BY <3>2, <3>3
      <3>5. \A f \in Emails : user[f].exists => user'[f] = user[f]
        BY <2>3, <3>2
      <3> HIDE DEF e, i
      <3>6. OwnersAnswerToOwners
        BY <3>4 DEF OwnersAnswerToOwners
      <3>7. Readmission
        BY <3>5 DEF Readmission
      <3>8. OutcomeStands
        BY <2>1 DEF OutcomeStands
      <3>. QED  BY <3>6, <3>7, <3>8
    <2>. QED  BY <2>2, <2>3
  <1>7. ASSUME NEW w \in Workers, UpdateRow(w)
        PROVE  OwnersAnswerToOwners /\ Readmission /\ OutcomeStands
    <2> DEFINE e == task[w].who
               r == [user[e] EXCEPT !.role = task[w].row.role,
                                    !.active = task[w].row.active]
    <2>1. /\ e \in Emails
          /\ r.exists = user[e].exists /\ r.gone = user[e].gone
          /\ r.role = task[w].row.role /\ r.active = task[w].row.active
          /\ task[w].at = "update" /\ user'[e] = r
          /\ \A f \in Emails \ {e} : user'[f] = user[f]
          /\ Finish(w) /\ UNCHANGED <<ops, invite>>
      BY <1>7, UpdateFacts
    <2> HIDE DEF r
    <2>2. TaskOK(task[w]) /\ task'[w] = Idle
      BY <1>1, <1>2, <2>1 DEF Finish
    <2>3. CASE task[w].op # "update"
      <3>1. task[w].row = user[e]
        BY <2>1, <2>2, <2>3 DEF TaskOK
      <3>2. \A f \in Emails : ActiveOwner(user[f]) => ActiveOwner(user'[f])
        BY <2>1, <3>1 DEF ActiveOwner, Live
      <3>3. \A f \in Emails : user'[f].active = user[f].active
        BY <2>1, <3>1
      <3>. QED  BY <2>1, <3>2, <3>3
                DEF OwnersAnswerToOwners, Readmission, OutcomeStands
    <2>4. CASE task[w].op = "update"
      <3>1. MayUpdate(task[w], user[e], task[w].row)
        BY <2>1, <2>2, <2>4 DEF TaskOK
      <3>2. user[e].role = "OWNER" => task[w].role = "OWNER"
        BY <3>1 DEF MayUpdate
      <3>3. OwnersAnswerToOwners
        BY <2>1, <2>2, <3>2 DEF OwnersAnswerToOwners, ActiveOwner
      <3>4. Readmission
        <4>1. claims[task[w].by] # {}
          BY <2>1, <2>2, <2>4 DEF TaskOK
        <4>2. ASSUME NEW f \in Emails, ~user[f].active, user'[f].active
              PROVE  f = task[w].who /\ task[w].row.active
          BY <2>1, <4>2
        <4>. QED  BY <2>2, <2>4, <4>1, <4>2 DEF Readmission
      <3>5. OutcomeStands
        BY <2>1 DEF OutcomeStands
      <3>. QED  BY <3>3, <3>4, <3>5
    <2>. QED  BY <2>3, <2>4
  <1>8. ASSUME NEW w \in Workers, DeleteRow(w)
        PROVE  OwnersAnswerToOwners /\ Readmission /\ OutcomeStands
    <2>1. PICK e \in Emails, r \in User :
             /\ e = task[w].who
             /\ r.active => user[e].gone /\ user[e].active
             /\ task[w].at = "delete" /\ user'[e] = r
             /\ \A f \in Emails \ {e} : user'[f] = user[f]
             /\ Finish(w) /\ UNCHANGED <<ops, invite, claims>>
      BY <1>8, DeleteFacts
    <2>2. TaskOK(task[w]) /\ task'[w] = Idle /\ task[w].role \in Roles
      <3>1. TaskOK(task[w])
        BY <1>1, <1>2
      <3>2. task[w].role \in Roles
        BY <1>1, TaskType
      <3>3. task \in [Workers -> Task] /\ task' = [task EXCEPT ![w] = Idle]
        BY <1>1, <2>1 DEF Finish, TypeOK
      <3>4. task'[w] = Idle
        BY <3>3
      <3>. QED  BY <3>1, <3>2, <3>4
    <2>3. /\ user[e].role \in Roles
          /\ Rank[user[e].role] <= Rank[task[w].role]
      <3>1. user[e].role \in Roles
        BY <1>1, RowType
      <3>2. task[w].op = "remove"
        BY <2>1, <2>2 DEF TaskOK
      <3>3. Rank[user[e].role] <= Rank[task[w].role]
        BY <2>1, <2>2, <3>2 DEF TaskOK
      <3>. QED  BY <3>1, <3>3
    <2>4. user[e].role = "OWNER" => task[w].role = "OWNER"
      BY <2>2, <2>3, RankFacts
    <2>5. OwnersAnswerToOwners
      BY <2>1, <2>2, <2>4 DEF OwnersAnswerToOwners, ActiveOwner
    <2>6. ~r.active
      BY <1>3, <2>1 DEF Live
    <2>7. Readmission
      BY <2>1, <2>6 DEF Readmission
    <2>8. OutcomeStands
      BY <2>1 DEF OutcomeStands
    <2>. QED  BY <2>5, <2>7, <2>8
  <1>9. ASSUME NEW i \in Invites, Expire(i)
        PROVE  OwnersAnswerToOwners /\ Readmission /\ OutcomeStands
    <2>1. UNCHANGED user /\ invite' = [invite EXCEPT ![i].expired = TRUE]
      BY <1>9 DEF Expire
    <2>2. \A j \in Invites : invite'[j].status = invite[j].status
      <3> DEFINE x == [invite[i] EXCEPT !.expired = TRUE]
      <3>1. x.status = invite[i].status
        BY <1>1 DEF Invite
      <3>2. invite' = [invite EXCEPT ![i] = x]
        BY <2>1
      <3> HIDE DEF x
      <3>. QED  BY <1>1, <3>1, <3>2
    <2>. QED  BY <2>1, <2>2, QuietAccess
  <1>10. ASSUME NEW w \in Workers,
                \/ Abort(w) \/ CreateInvite(w) \/ InviteLookup(w) \/ AcceptInvite(w)
                \/ CancelInvite(w) \/ ResendInvite(w) \/ Login(w) \/ ChangePassword(w)
                \/ RefreshToken(w) \/ ManageUser(w) \/ UpdateTarget(w)
                \/ RemoveTarget(w) \/ EnsureAnotherOwner(w)
         PROVE  UNCHANGED <<user, invite>>
    BY <1>10 DEF Abort, CreateInvite, InviteLookup, AcceptInvite, CancelInvite,
                 ResendInvite, Login, ChangePassword, RefreshToken, ManageUser,
                 UpdateTarget, RemoveTarget, EnsureAnotherOwner, Begin, store
  <1>11. CASE UNCHANGED vars
    BY <1>4, <1>11 DEF vars, store
  <1>12. CASE Next
    <2>1. UNCHANGED serial
      BY <1>12 DEF Next
    <2>2. ASSUME NEW w \in Workers, Inviting(w) \/ Using(w) \/ Abort(w)
          PROVE  OwnersAnswerToOwners /\ Readmission /\ OutcomeStands
      BY <1>4, <1>5, <1>6, <1>7, <1>8, <1>10, <2>1, <2>2 DEF Inviting, Using
    <2>. QED  BY <1>9, <1>12, <2>2 DEF Next
  <1>. QED  BY <1>11, <1>12

(* One operation after the other: an owner loses role or access through an *)
(* owner only, who was put out comes back through an update of his row by  *)
(* somebody who was given a managing role, an invite that was accepted or  *)
(* cancelled stays so, and seat_count moves with the users who can get in. *)
THEOREM SerialAccessIsRight == Spec => SerialAccess
<1>1. Inv /\ Inv' /\ [Next]_vars =>
          [serial => /\ OwnersAnswerToOwners /\ Readmission
                     /\ OutcomeStands /\ SeatsKeepPace]_vars
  <2>1. [Next]_vars /\ serial => serial'
    BY DEF Next, vars
  <2>. QED  BY <2>1, AccessStep, PaceStep
<1>2. QED  BY <1>1, InvInit, InvStep, PTL DEF Spec, SerialAccess

-----------------------------------------------------------------------------
(* The gate.                                                               *)

(* The role of an access token was held when it was issued, or later; when *)
(* a refresh token was issued, some role was.                              *)
WithinLife(t) ==
    IF t.role = Gate!NoRole
    THEN \E r \in Gate!Roles : held[r] # Nobody /\ t.until <= held[r] + RefreshLife
    ELSE held[t.role] # Nobody /\ t.until <= held[t.role] + TokenLife
GateType ==
    /\ account \in [role : Gate!Roles, active : BOOLEAN]
    /\ issued \subseteq [role : Gate!Roles \cup {Gate!NoRole}, until : Nat]
    /\ tenant \in [status : Gate!Statuses, until : {1, Nobody}]
    /\ clock \in 0 .. MaxTime
    /\ held \in [Gate!Roles -> 0 .. clock \cup {Nobody}]
GateInv ==
    /\ GateType
    /\ \A t \in issued : WithinLife(t)
    /\ account.active => held[account.role] = clock

RoleNames == {"VIEWER", "ENGINEER", "MANAGER", "ADMIN", "OWNER", "SUPER_ADMIN"}
LEMMA RolesAre == Gate!Roles = RoleNames
  BY DEF Gate!Roles, Gate!roleRank, RoleNames
LEMMA NoRoleIsNone == Gate!NoRole \notin Gate!Roles
  BY RolesAre DEF RoleNames, Gate!NoRole

LEMMA GateInitHolds == Gate!Init => GateInv
<1> SUFFICES ASSUME Gate!Init PROVE GateInv
  OBVIOUS
<1>1. /\ account \in [role : {"VIEWER", "MANAGER", "OWNER", "SUPER_ADMIN"}, active : {TRUE}]
      /\ issued = {}
      /\ tenant \in [status : {"TRIAL"}, until : {1, Nobody}]
      /\ clock = 0
      /\ held = [r \in Gate!Roles |-> IF r = account.role THEN 0 ELSE Nobody]
  BY DEF Gate!Init
<1>2. account.role \in Gate!Roles /\ account \in [role : Gate!Roles, active : BOOLEAN]
  BY <1>1, RolesAre DEF RoleNames
<1>3. 0 \in 0 .. MaxTime /\ 0 \in 0 .. 0
  BY GateAssumption
<1>5. tenant \in [status : Gate!Statuses, until : {1, Nobody}]
  BY <1>1 DEF Gate!Statuses
<1>6. held \in [Gate!Roles -> 0 .. clock \cup {Nobody}] /\ held[account.role] = clock
  BY <1>1, <1>2, <1>3
<1>. QED  BY <1>1, <1>2, <1>3, <1>5, <1>6 DEF GateInv, GateType

LEMMA IssueKeeps ==
    ASSUME GateInv, account.active, Gate!issue(account.role) PROVE GateInv'
<1> DEFINE access == [role |-> account.role, until |-> clock + TokenLife]
           refresh == [role |-> Gate!NoRole, until |-> clock + RefreshLife]
<1>1. /\ issued' = issued \cup {access, refresh}
      /\ UNCHANGED <<account, tenant, clock, held>>
  BY DEF Gate!issue, Gate!GenerateToken, Gate!GenerateRefreshToken
<1>2. /\ account.role \in Gate!Roles /\ clock \in 0 .. MaxTime
      /\ held[account.role] = clock
  BY DEF GateInv, GateType
<1>3. /\ clock + TokenLife \in Nat /\ clock + RefreshLife \in Nat /\ clock # Nobody
  BY <1>2, GateAssumption
<1>4. issued' \subseteq [role : Gate!Roles \cup {Gate!NoRole}, until : Nat]
  BY <1>1, <1>2, <1>3 DEF GateInv, GateType
<1>5. WithinLife(access)
  <2>1. access.role = account.role /\ access.until = clock + TokenLife
    OBVIOUS
  <2>2. clock + TokenLife <= held[account.role] + TokenLife
    BY <1>2, <1>3
  <2>3. access.role # Gate!NoRole
    BY <1>2, <2>1, NoRoleIsNone
  <2>. QED  BY <1>2, <1>3, <2>1, <2>2, <2>3 DEF WithinLife
<1>6. WithinLife(refresh)
  <2>1. refresh.role = Gate!NoRole /\ refresh.until = clock + RefreshLife
    OBVIOUS
  <2>2. clock + RefreshLife <= held[account.role] + RefreshLife
    BY <1>2, <1>3
  <2>. QED  BY <1>2, <1>3, <2>1, <2>2 DEF WithinLife
<1> HIDE DEF access, refresh
<1>7. \A t \in issued' : WithinLife(t)
  BY <1>1, <1>5, <1>6 DEF GateInv
<1>8. \A t \in issued' : WithinLife(t)'
  BY <1>1, <1>7 DEF WithinLife
<1>. QED  BY <1>1, <1>4, <1>8 DEF GateInv, GateType

LEMMA LaterIsLonger ==
    ASSUME NEW a \in Int, NEW b \in Int, NEW c \in Int, NEW d \in Int,
           a <= b + d, b <= c
    PROVE  a <= c + d
  OBVIOUS

(* What the user held up to now only becomes later.                        *)
LEMMA HoldKeeps ==
    ASSUME GateInv, UNCHANGED <<issued, tenant>>,
           account' \in [role : Gate!Roles, active : BOOLEAN],
           clock' \in clock .. MaxTime,
           held' = IF account'.active THEN [held EXCEPT ![account'.role] = clock']
                   ELSE held
    PROVE  GateInv'
<1>1. /\ clock \in 0 .. MaxTime /\ clock' \in 0 .. MaxTime /\ clock' \in 0 .. clock'
      /\ \A n \in 0 .. clock : n \in 0 .. clock' /\ n <= clock'
      /\ held \in [Gate!Roles -> 0 .. clock \cup {Nobody}]
  BY GateAssumption DEF GateInv, GateType
<1>2. /\ held' \in [Gate!Roles -> 0 .. clock' \cup {Nobody}]
      /\ account'.active => held'[account'.role] = clock'
      /\ \A r \in Gate!Roles : held'[r] = held[r] \/ held'[r] = clock'
  BY <1>1
<1>3. ASSUME NEW r \in Gate!Roles, NEW life \in Nat, NEW until \in Nat,
             held[r] # Nobody, until <= held[r] + life
      PROVE  held'[r] # Nobody /\ until <= held'[r] + life
  <2>1. held[r] \in 0 .. clock
    BY <1>1, <1>3
  <2>2. CASE held'[r] = held[r]
    BY <1>3, <2>2
  <2>3. CASE held'[r] = clock'
    <3>1. clock' # Nobody
      BY <1>1, GateAssumption
    <3>2. held[r] <= clock' /\ clock' \in Int /\ held[r] \in Int
      BY <1>1, <2>1
    <3>3. until <= clock' + life
      <4>1. until \in Int /\ life \in Int /\ until <= held[r] + life
        BY <1>3
      <4>. QED  BY <3>2, <4>1, LaterIsLonger
    <3>. QED  BY <2>3, <3>1, <3>3
  <2>. QED  BY <1>2, <2>2, <2>3
<1>4. ASSUME NEW t \in issued PROVE WithinLife(t)'
  <2>1. t.role \in Gate!Roles \cup {Gate!NoRole} /\ t.until \in Nat /\ WithinLife(t)
    BY DEF GateInv, GateType
  <2>2. TokenLife \in Nat /\ RefreshLife \in Nat
    BY GateAssumption
  <2>3. CASE t.role = Gate!NoRole
    BY <1>3, <2>1, <2>2, <2>3 DEF WithinLife
  <2>4. CASE t.role # Gate!NoRole
    BY <1>3, <2>1, <2>2, <2>4 DEF WithinLife
  <2>. QED  BY <2>3, <2>4
<1>. QED  BY <1>1, <1>2, <1>4 DEF GateInv, GateType

LEMMA GateKeeps == ASSUME GateInv, Gate!Next PROVE GateInv'
<1>1. CASE Gate!Login
  BY <1>1, IssueKeeps DEF Gate!Login
<1>2. CASE Gate!RefreshToken
  BY <1>2, IssueKeeps DEF Gate!RefreshToken
<1>3. ASSUME NEW s \in Gate!Statuses, tenant' = [tenant EXCEPT !.status = s],
             UNCHANGED <<account, issued, clock, held>>
      PROVE  GateInv'
  <2>1. tenant' \in [status : Gate!Statuses, until : {1, Nobody}]
    BY <1>3 DEF GateInv, GateType
  <2>. QED  BY <1>3, <2>1 DEF GateInv, GateType, WithinLife
<1>4. CASE Gate!TrialExpirationRun
  <2>1. "SUSPENDED" \in Gate!Statuses
    BY DEF Gate!Statuses
  <2>. QED  BY <1>3, <1>4, <2>1 DEF Gate!TrialExpirationRun
<1>5. ASSUME NEW s \in Gate!Statuses, Gate!SetStatus(s) PROVE GateInv'
  BY <1>3, <1>5 DEF Gate!SetStatus
<1>6. CASE Gate!Tick
  <2>1. /\ UNCHANGED <<account, issued, tenant>>
        /\ clock < MaxTime /\ clock' = clock + 1
        /\ held' = IF account.active THEN [held EXCEPT ![account.role] = clock + 1]
                   ELSE held
    BY <1>6 DEF Gate!Tick
  <2>2. clock' \in clock .. MaxTime
    BY <2>1, GateAssumption DEF GateInv, GateType
  <2>3. account' \in [role : Gate!Roles, active : BOOLEAN]
    BY <2>1 DEF GateInv, GateType
  <2>. QED  BY <2>1, <2>2, <2>3, HoldKeeps
<1>7. ASSUME NEW role \in {"VIEWER", "MANAGER", "OWNER"}, NEW active \in BOOLEAN,
             Gate!UpdateUser(role, active)
      PROVE  GateInv'
  <2>1. /\ UNCHANGED <<issued, tenant, clock>>
        /\ account' = [role |-> role, active |-> active]
        /\ held' = IF active THEN [held EXCEPT ![role] = clock] ELSE held
    BY <1>7 DEF Gate!UpdateUser
  <2>2. account' \in [role : Gate!Roles, active : BOOLEAN]
    BY <2>1, RolesAre DEF RoleNames
  <2>3. clock' \in clock .. MaxTime
    BY <2>1, GateAssumption DEF GateInv, GateType
  <2>. QED  BY <2>1, <2>2, <2>3, HoldKeeps
<1>. QED  BY <1>1, <1>2, <1>4, <1>5, <1>6, <1>7 DEF Gate!Next

(* What each role may do, and whom it may make what.                       *)
LEMMA PermissionsAre ==
    /\ Gate!RolePermissions["VIEWER"] = {"view", "export"}
    /\ Gate!RolePermissions["ENGINEER"] = {"view", "export", "operation"}
    /\ Gate!RolePermissions["MANAGER"] =
           {"view", "export", "operation", "registry", "financial"}
    /\ \A r \in {"ADMIN", "OWNER"} : Gate!RolePermissions[r] =
           {"view", "export", "operation", "registry", "financial",
            "users", "tenant", "billing", "audit"}
    /\ Gate!RolePermissions["SUPER_ADMIN"] =
           {"view", "export", "operation", "registry", "financial",
            "users", "tenant", "billing", "audit", "platform"}
  BY DEF Gate!RolePermissions

LEMMA RolesNestAlways == Gate!RolesNest
<1> SUFFICES ASSUME NEW a \in RoleNames, NEW r \in RoleNames,
                    \/ Gate!roleRank[r] <= Gate!roleRank[a]
                    \/ Gate!CanAssignRole(a, r)
             PROVE  Gate!RolePermissions[r] \subseteq Gate!RolePermissions[a]
  BY RolesAre DEF Gate!RolesNest
<1>1. /\ Gate!roleRank["VIEWER"] = 1 /\ Gate!roleRank["ENGINEER"] = 2
      /\ Gate!roleRank["MANAGER"] = 3 /\ Gate!roleRank["ADMIN"] = 4
      /\ Gate!roleRank["OWNER"] = 5 /\ Gate!roleRank["SUPER_ADMIN"] = 6
  BY DEF Gate!roleRank
<1>2. \/ Gate!roleRank[r] <= Gate!roleRank[a]
      \/ a \in {"OWNER", "SUPER_ADMIN"} /\ r = "OWNER"
  BY DEF Gate!CanAssignRole
<1>3. \/ r = "VIEWER" \/ a = "SUPER_ADMIN" \/ r = a
      \/ a \in {"ADMIN", "OWNER"} /\ r # "SUPER_ADMIN"
      \/ a = "MANAGER" /\ r = "ENGINEER"
  BY <1>1, <1>2 DEF RoleNames
<1> HIDE DEF RoleNames
<1>. QED  BY <1>3, PermissionsAre DEF RoleNames

LEMMA GateIsRight == GateInv => GateHolds
<1> SUFFICES ASSUME GateInv PROVE GateHolds
  OBVIOUS
<1>1. /\ account.role \in Gate!Roles
      /\ tenant.status \in Gate!Statuses /\ tenant.until \in {1, Nobody}
      /\ clock \in 0 .. MaxTime
  BY DEF GateInv, GateType
<1>2. Gate!AccessTypeOK
  BY DEF GateInv, GateType, Gate!AccessTypeOK
<1>3. Gate!RightsLapse
  <2> SUFFICES ASSUME NEW route \in DOMAIN Gate!Routes, NEW t \in issued,
                      Gate!Answered(route, t, tenant)
               PROVE  IF Gate!Routes[route] = ""
                      THEN Gate!HeldWithin(Gate!Longest, Gate!Roles)
                      ELSE Gate!HeldWithin(TokenLife,
                               {r \in Gate!Roles :
                                    Gate!Routes[route] \in Gate!RolePermissions[r]})
    BY DEF Gate!RightsLapse
  <2>1. /\ t.until \in Nat /\ t.role \in Gate!Roles \cup {Gate!NoRole}
        /\ WithinLife(t) /\ t.until >= clock
    BY DEF GateInv, GateType, Gate!Answered, Gate!ValidateToken
  <2>2. ASSUME NEW r \in Gate!Roles, NEW life \in Nat,
               held[r] # Nobody, t.until <= held[r] + life
        PROVE  clock - held[r] <= life
    <3>1. held[r] \in Int /\ clock \in Int
      BY <1>1, <2>2 DEF GateInv, GateType
    <3>. QED  BY <2>1, <2>2, <3>1
  <2>3. /\ TokenLife \in Nat /\ RefreshLife \in Nat
        /\ TokenLife <= Gate!Longest /\ RefreshLife <= Gate!Longest
        /\ Gate!Longest \in Nat
    BY GateAssumption DEF Gate!Longest
  <2>4. \/ Gate!Routes[route] = ""
        \/ t.role \in Gate!Roles /\ Gate!Routes[route] \in Gate!RolePermissions[t.role]
    <3>1. CASE route = "admin"
      <4>1. Gate!Routes[route] = "platform"
        BY <3>1 DEF Gate!Routes
      <4>2. t.role = "SUPER_ADMIN"
        BY <3>1 DEF Gate!Answered, Gate!RoleMiddleware
      <4>. QED  BY <4>1, <4>2, PermissionsAre, RolesAre DEF RoleNames
    <3>2. CASE route # "admin"
      BY <2>1, <3>2 DEF Gate!Answered, Gate!RequirePermission
    <3>. QED  BY <3>1, <3>2
  <2>5. CASE t.role = Gate!NoRole
    <3>1. PICK r \in Gate!Roles : held[r] # Nobody /\ t.until <= held[r] + RefreshLife
      BY <2>1, <2>5 DEF WithinLife
    <3>2. clock - held[r] <= RefreshLife /\ held[r] \in Int
      BY <1>1, <2>2, <2>3, <3>1 DEF GateInv, GateType
    <3>3. clock - held[r] <= Gate!Longest
      BY <1>1, <2>3, <3>2
    <3>4. Gate!Routes[route] = ""
      BY <2>4, <2>5, NoRoleIsNone
    <3>. QED  BY <3>1, <3>3, <3>4 DEF Gate!HeldWithin
  <2>6. CASE t.role # Gate!NoRole
    <3>1. /\ t.role \in Gate!Roles /\ held[t.role] # Nobody
          /\ t.until <= held[t.role] + TokenLife
      BY <2>1, <2>6 DEF WithinLife
    <3>2. clock - held[t.role] <= TokenLife /\ held[t.role] \in Int
      BY <1>1, <2>2, <2>3, <3>1 DEF GateInv, GateType
    <3>3. clock - held[t.role] <= Gate!Longest
      BY <1>1, <2>3, <3>2
    <3>. QED  BY <2>4, <3>1, <3>2, <3>3 DEF Gate!HeldWithin
  <2>. QED  BY <2>5, <2>6
<1>4. Gate!BlockedTenantsPay
  <2> DEFINE blocked == \/ tenant.status \in {"SUSPENDED", "PENDING_PAYMENT", "CANCELLED"}
                        \/ Gate!TrialIsOver(tenant)
  <2>1. ASSUME blocked, NEW route \in DOMAIN Gate!Routes \ Gate!isBillingAllowedPath,
               NEW t \in issued, Gate!Answered(route, t, tenant)
        PROVE  t.role = "SUPER_ADMIN"
    BY <2>1 DEF Gate!Answered, Gate!RoleMiddleware, Gate!TenantStatusHandler
  <2>2. ASSUME Gate!CanAssignRole(account.role, "ADMIN"),
               NEW route \in Gate!isBillingAllowedPath
        PROVE  Gate!Answered(route, Gate!GenerateToken(account.role), tenant)
    <3>1. account.role \in {"ADMIN", "OWNER", "SUPER_ADMIN"}
      <4>1. Gate!roleRank[account.role] >= Gate!roleRank["ADMIN"]
        BY <2>2 DEF Gate!CanAssignRole
      <4>. QED  BY <1>1, <4>1, RolesAre DEF RoleNames, Gate!roleRank
    <3>2. Gate!ValidateToken(Gate!GenerateToken(account.role))
      <4>1. clock + TokenLife # Nobody /\ clock + TokenLife >= clock
        BY <1>1, GateAssumption
      <4>. QED  BY <4>1 DEF Gate!ValidateToken, Gate!GenerateToken
    <3>3. route # "admin" /\ Gate!Routes[route] \in {"", "billing", "tenant"}
      <4>1. route \in {"billing", "profile", "settings"}
        BY <2>2 DEF Gate!isBillingAllowedPath
      <4>2. /\ Gate!Routes["billing"] = "billing" /\ Gate!Routes["profile"] = ""
            /\ Gate!Routes["settings"] = "tenant"
        BY DEF Gate!Routes
      <4>. QED  BY <4>1, <4>2
    <3>4. Gate!RequirePermission(route, account.role)
      <4>1. account.role # Gate!NoRole
        BY <1>1, NoRoleIsNone
      <4>. QED  BY <3>1, <3>3, <4>1, PermissionsAre DEF Gate!RequirePermission
    <3>5. Gate!TenantStatusHandler(route, account.role, tenant)
      BY <2>2 DEF Gate!TenantStatusHandler
    <3>6. Gate!GenerateToken(account.role).role = account.role
      BY DEF Gate!GenerateToken
    <3>. QED  BY <3>2, <3>3, <3>4, <3>5, <3>6 DEF Gate!Answered
  <2>. QED  BY <2>1, <2>2 DEF Gate!BlockedTenantsPay
<1>5. Gate!JobShowsNowhere
  <2> SUFFICES ASSUME Gate!GetExpiredTrials, clock # tenant.until,
                      NEW route \in DOMAIN Gate!Routes,
                      NEW r \in Gate!Roles \cup {Gate!NoRole}
               PROVE  Gate!Answered(route, Gate!GenerateToken(r), tenant)
                      <=> Gate!Answered(route, Gate!GenerateToken(r),
                                        [tenant EXCEPT !.status = "SUSPENDED"])
    BY DEF Gate!JobShowsNowhere
  <2> DEFINE after == [tenant EXCEPT !.status = "SUSPENDED"]
  <2>1. tenant.status = "TRIAL" /\ tenant.until # Nobody /\ tenant.until <= clock
    BY DEF Gate!GetExpiredTrials
  <2>2. Gate!TrialIsOver(tenant)
    BY <1>1, <2>1, GateAssumption DEF Gate!TrialIsOver
  <2>3. after.status = "SUSPENDED"
    BY DEF GateInv, GateType
  <2> HIDE DEF after
  <2>4. ASSUME NEW role
        PROVE  Gate!TenantStatusHandler(route, role, tenant)
               <=> Gate!TenantStatusHandler(route, role, after)
    BY <2>2, <2>3 DEF Gate!TenantStatusHandler
  <2>5. Gate!Answered(route, Gate!GenerateToken(r), tenant)
        <=> Gate!Answered(route, Gate!GenerateToken(r), after)
    BY <2>4 DEF Gate!Answered
  <2>. QED  BY <2>5 DEF after
<1>. QED  BY <1>2, <1>3, <1>4, <1>5, RolesNestAlways DEF GateHolds

(* The gate, though either token of a session is good for the other: what  *)
(* asks for a permission ends with the last access token that carried it,  *)
(* what asks for a session only with the last token of any kind; a blocked *)
(* tenant sees nothing but its bills and can still pay them; it shows      *)
(* nowhere whether the job has run over an expired trial; and roles and    *)
(* what they may grant nest: for any lives of tokens and any number of     *)
(* changes of the account and the tenant.                                  *)
THEOREM GateIsSafe == MCSpec => []GateHolds
<1>1. MCInit => GateInv
  BY GateInitHolds DEF MCInit
<1>2. GateInv /\ [MCNext]_mcvars => GateInv'
  <2> SUFFICES ASSUME GateInv, [MCNext]_mcvars PROVE GateInv'
    OBVIOUS
  <2>1. CASE UNCHANGED <<account, issued, tenant, clock, held>>
    BY <2>1 DEF GateInv, GateType, WithinLife
  <2>2. CASE Gate!Next
    BY <2>2, GateKeeps
  <2>. QED  BY <2>1, <2>2 DEF MCNext, mcvars
<1>. QED  BY <1>1, <1>2, GateIsRight, PTL DEF MCSpec

-----------------------------------------------------------------------------
(* The limiter.                                                            *)
Bucket == INSTANCE RateLimitProofs WITH Idle <- BucketLife

(* The limiter of the login, among the rest: what RateLimitProofs proves of*)
(* any limiter.                                                            *)
THEOREM LimiterIsFair == MCSpec => []LimitHolds
<1>1. Bucket!Limits
  BY LimiterAssumption DEF Limiter!Limits, Bucket!Limits, Limiter!Token, Bucket!Token
<1>2. MCInit => Bucket!IInv
  <2>1. Limiter!Init => Bucket!Init
    BY DEF Limiter!Init, Bucket!Init
  <2>. QED  BY <1>1, <2>1, Bucket!InitHolds DEF MCInit
<1>3. Bucket!IInv /\ [MCNext]_mcvars => Bucket!IInv'
  <2>1. Limiter!Next => Bucket!Next
    BY DEF Limiter!Next, Bucket!Next, Limiter!Allow, Bucket!Allow,
           Limiter!AllowNew, Bucket!AllowNew, Limiter!AllowKnown, Bucket!AllowKnown,
           Limiter!Refuse, Bucket!Refuse, Limiter!cleanup, Bucket!cleanup,
           Limiter!Tick, Bucket!Tick, Limiter!Granted, Bucket!Granted,
           Limiter!Refilled, Bucket!Refilled, Limiter!Least, Bucket!Least,
           Limiter!Token, Bucket!Token, Limiter!Paid, Bucket!Paid
  <2>2. [MCNext]_mcvars => [Bucket!Next]_(Bucket!limitvars)
    BY <2>1 DEF MCNext, mcvars, Bucket!limitvars
  <2>. QED  BY <1>1, <2>2, Bucket!NextKeeps
<1>4. Bucket!IInv => LimitHolds
  <2>1. Bucket!IInv => Bucket!LimitTypeOK /\ Bucket!WithinBurst /\ Bucket!RetrySucceeds
    BY <1>1, Bucket!InvBoundsBurst, Bucket!InvServesWaiting DEF Bucket!IInv
  <2>2. /\ Bucket!LimitTypeOK => Limiter!LimitTypeOK
        /\ Bucket!WithinBurst => Limiter!WithinBurst
        /\ Bucket!RetrySucceeds => Limiter!RetrySucceeds
    BY DEF Limiter!LimitTypeOK, Bucket!LimitTypeOK, Limiter!WithinBurst,
           Bucket!WithinBurst, Limiter!RetrySucceeds, Bucket!RetrySucceeds,
           Limiter!Token, Bucket!Token, Limiter!Refilled, Bucket!Refilled,
           Limiter!Least, Bucket!Least, Limiter!retryAfter, Bucket!retryAfter
  <2>. QED  BY <2>1, <2>2 DEF LimitHolds
<1>. QED  BY <1>2, <1>3, <1>4, PTL DEF MCSpec

=============================================================================
