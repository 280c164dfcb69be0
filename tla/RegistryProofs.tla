---------------------------- MODULE RegistryProofs ----------------------------
(***************************************************************************)
(* Proofs about Registry, for any workers, rows, codes and bounds.         *)
(*                                                                         *)
(* However operations overlap, codes stay unique: whoever writes a code    *)
(* finds it unused in the statement that writes it, and an import restores *)
(* only substations that have a row (RestoredOK).  When operations come    *)
(* one after the other, what an operation read still holds when it writes  *)
(* (TaskOK): then the plan's limit holds, and no link is lost unasked.      *)
(*                                                                         *)
(* At the end, proofs about Metering in its two settings (MonthsAreMetered)*)
(* whose invariant (MeterInv) says that each balance is of one month, that *)
(* its transformer and first instant are a key, and that it is of readings *)
(* unless that month is behind.                                            *)
(***************************************************************************)
EXTENDS Registry, MCMetering, FiniteSetTheorems, TLAPS

(* An import has looked up each substation that its file names, and one    *)
(* that it found removed has a row for ever.                               *)
FoundAll(t) == DOMAIN t.found = {x.sub : x \in t.file} \ {NoSub}
TypeInv == TypeOK /\ \A w \in Workers : At(w, "commit") => FoundAll(task[w])

RestoredOK ==
    \A w \in Workers : At(w, "commit") =>
        \A s \in task[w].restored : sub[s].st # "none"

UniqueInv == CodesAreUnique /\ RestoredOK

(* Every code that is stored or about to be was typed by somebody.         *)
Typed(t) ==
    /\ t.pc \in {"lookup", "insert"} => \A x \in t.items : x.code \in typed
    /\ t.pc \in {"recode", "write"} => t.copy.code \in typed
    /\ t.pc \in {"quota", "resolve", "commit"} =>
          \A x \in t.file : x.code \in typed
TypedInv ==
    /\ \A r \in Rows : trafo[r].st # "none" => trafo[r].code \in typed
    /\ \A w \in Workers : Typed(task[w])

(* What the operation t has read, and compared with the plan, is still so. *)
TaskOK(t) ==
    /\ t.pc \in {"lookup", "insert"} =>
          /\ IsFiniteSet(t.items) /\ CheckTransformerQuota(Cardinality(t.items))
    /\ t.pc \in {"recode", "write"} =>
          t.row \in Live(trafo) /\ (t.field # "sub" => t.copy.sub = trafo[t.row].sub)
    /\ t.pc \in {"quota", "resolve", "commit"} => IsFiniteSet(t.file)
    /\ t.pc = "quota" => t.new = Cardinality(NewLines(t.file))
    /\ t.pc \in {"resolve", "commit"} =>
          CheckTransformerQuota(Cardinality(NewLines(t.file)))
    /\ t.pc = "commit" =>
          \A c \in DOMAIN t.found : t.found[c] # NoSub =>
              t.found[c] \in Live(sub) \cup t.restored

AtMostOne == \A v, w \in Workers : task[v] # Idle /\ task[w] # Idle => v = w

SerialInv ==
    serial => /\ AtMostOne
              /\ \A w \in Workers : TaskOK(task[w])
              /\ OneCase => WithinQuota

Inv == TypeInv /\ UniqueInv /\ TypedInv /\ SerialInv

-----------------------------------------------------------------------------
(* What a task carries, by the step it is at.                              *)
Pcs == {"idle", "lookup", "insert", "recode", "write", "quota", "resolve",
        "commit", "unitLookup", "unitInsert", "unitUpsert", "unitWrite"}

LEMMA TaskFacts ==
    ASSUME TypeOK, NEW w \in Workers
    PROVE  /\ At(w, "idle") <=> task[w] = Idle
           /\ At(w, "lookup") \/ At(w, "insert") =>
                 task[w] \in [pc : {"lookup", "insert"}, items : SUBSET Item]
           /\ At(w, "recode") \/ At(w, "write") =>
                 task[w] \in [pc : {"recode", "write"}, row : Rows, copy : Row,
                              field : {"code", "sub", "active"}]
           /\ At(w, "quota") =>
                 task[w] \in [pc : {"quota"}, file : SUBSET Line, new : 0..MaxFile]
           /\ At(w, "resolve") => task[w] \in [pc : {"resolve"}, file : SUBSET Line]
           /\ At(w, "commit") =>
                 task[w] \in [pc : {"commit"}, file : SUBSET Line,
                              restored : SUBSET Subs,
                              found : UNION {[D -> Subs \cup {NoSub}] : D \in SUBSET SubCodes}]
           /\ At(w, "unitLookup") \/ At(w, "unitInsert") \/ At(w, "unitUpsert") =>
                 task[w] \in [pc : {"unitLookup", "unitInsert", "unitUpsert"},
                              code : Codes, row : Rows]
           /\ At(w, "unitWrite") =>
                 task[w] \in [pc : {"unitWrite"}, id : Units, copy : Unit]
  <1>1. task[w] \in Task
    BY DEF TypeOK
  <1>2. task[w] \in [pc : {"idle"}] <=> task[w] = Idle
    BY DEF Idle
  <1>. QED  BY <1>1, <1>2 DEF Task, At, Idle

LEMMA IdleFacts == Idle \in Task /\ Idle.pc = "idle" /\ Typed(Idle) /\ TaskOK(Idle)
  BY DEF Idle, Task, Typed, TaskOK

(* A worker takes its next task, the others keep theirs.                   *)
LEMMA GotoFacts ==
    ASSUME TypeOK, NEW w \in Workers, NEW t \in Task, Goto(w, t)
    PROVE  /\ task' \in [Workers -> Task] /\ task'[w] = t
           /\ \A v \in Workers \ {w} : task'[v] = task[v]
  BY DEF Goto, TypeOK

LEMMA RowTypes ==
    ASSUME TypeOK
    PROVE  /\ \A r \in Rows : /\ trafo[r] \in Row /\ trafo[r].st \in Stored
                              /\ trafo[r].code \in Codes
           /\ \A s \in Subs : /\ sub[s] \in Substation /\ sub[s].st \in Stored
                              /\ sub[s].code \in SubCodes
           /\ \A u \in Units : /\ unit[u] \in Unit /\ unit[u].st \in Stored
                               /\ unit[u].code \in Codes
           /\ DOMAIN trafo = Rows /\ DOMAIN sub = Subs /\ DOMAIN unit = Units
  BY DEF TypeOK, Row, Substation, Unit

(* The rows that insertions make.                                          *)
LEMMA InsertedType ==
    ASSUME NEW x \in Item
    PROVE  /\ Inserted(x) \in Row /\ Inserted(x).st = "live"
           /\ Inserted(x).code = x.code /\ Inserted(x).sub = x.sub
  BY DEF Inserted, Item, Row, Stored

LEMMA UpsertedType ==
    ASSUME NEW old \in Row, NEW c \in Codes, NEW s \in Subs \cup {NoSub}
    PROVE  /\ Upserted(old, c, s) \in Row /\ Upserted(old, c, s).st = "live"
           /\ Upserted(old, c, s).code = c
           /\ Upserted(old, c, s).sub =
                 IF s # NoSub THEN s ELSE IF old.st = "none" THEN NoSub ELSE old.sub
  BY DEF Upserted, Row, Stored

LEMMA WrittenType ==
    /\ \A old, copy \in Row : /\ Written(old, copy) \in Row
                              /\ Written(old, copy).st = old.st
                              /\ Written(old, copy).code = copy.code
                              /\ Written(old, copy).sub = copy.sub
    /\ \A old, copy \in Unit : /\ Written(old, copy) \in Unit
                               /\ Written(old, copy).st = old.st
                               /\ Written(old, copy).code = copy.code
  BY DEF Written, Row, Unit

(* After an insertion a row is an item's, in a row that was free, or what  *)
(* it was.                                                                 *)
LEMMA WithItemsFacts ==
    ASSUME TypeOK, NEW items \in SUBSET Item,
           NEW id \in Unused(Free(trafo), {x.code : x \in items})
    PROVE  /\ WithItems(items, id) \in [Rows -> Row]
           /\ \A r \in Rows :
                 \/ WithItems(items, id)[r] = trafo[r] /\ \A x \in items : id[x.code] # r
                 \/ \E x \in items : /\ id[x.code] = r /\ r \in Free(trafo)
                                     /\ WithItems(items, id)[r] = Inserted(x)
  <1> DEFINE new == WithItems(items, id)
  <1>1. \A x \in items : id[x.code] \in Free(trafo)
    BY DEF Unused
  <1>2. ASSUME NEW r \in Rows, \A x \in items : id[x.code] # r
        PROVE  new[r] = trafo[r] /\ new[r] \in Row
    BY <1>2, RowTypes DEF WithItems
  <1>3. ASSUME NEW r \in Rows, NEW z \in items, id[z.code] = r
        PROVE  /\ new[r] \in Row
               /\ \E x \in items : id[x.code] = r /\ r \in Free(trafo) /\ new[r] = Inserted(x)
    <2> DEFINE x == CHOOSE y \in items : id[y.code] = r
    <2>1. x \in items /\ id[x.code] = r
      BY <1>3
    <2>2. new[r] = Inserted(x)
      BY <1>3 DEF WithItems
    <2> HIDE DEF x
    <2>. QED  BY <1>1, <2>1, <2>2, InsertedType
  <1>4. new \in [Rows -> Row]
    <2>1. \A r \in Rows : new[r] \in Row
      BY <1>2, <1>3
    <2>2. new = [r \in Rows |-> new[r]]
      BY DEF WithItems
    <2>. QED  BY <2>1, <2>2
  <1>. QED  BY <1>2, <1>3, <1>4

(* The rows that an import writes: each is found by the code it had, or    *)
(* was free and gets a code that nobody had.                               *)
Fresh(t) == {c \in DOMAIN t.found : t.found[c] = NoSub}
NewCodes(t) == {c \in {x.code : x \in t.file} : Holders(trafo, c) = {}}

LEMMA RowOfFacts ==
    ASSUME TypeOK, NEW t, NEW ti \in Unused(Free(trafo), NewCodes(t)),
           NEW x \in t.file
    PROVE  /\ RowOf(ti, x.code) \in Rows
           /\ \/ Holders(trafo, x.code) = {} /\ RowOf(ti, x.code) \in Free(trafo)
              \/ RowOf(ti, x.code) \in Holders(trafo, x.code)
  <1>1. DOMAIN ti = NewCodes(t) /\ \A c \in NewCodes(t) : ti[c] \in Free(trafo)
    BY DEF Unused
  <1>2. CASE x.code \in NewCodes(t)
    <2>1. RowOf(ti, x.code) = ti[x.code]
      BY <1>1, <1>2 DEF RowOf
    <2>. QED  BY <1>1, <1>2, <2>1, RowTypes DEF NewCodes, Free
  <1>3. CASE x.code \notin NewCodes(t)
    <2>1. Holders(trafo, x.code) # {}
      BY <1>3 DEF NewCodes
    <2>2. RowOf(ti, x.code) = CHOOSE r \in Holders(trafo, x.code) : TRUE
      BY <1>1, <1>3 DEF RowOf
    <2>3. RowOf(ti, x.code) \in Holders(trafo, x.code)
      BY <2>1, <2>2
    <2>. QED  BY <2>3, RowTypes DEF Holders
  <1>. QED  BY <1>2, <1>3

(* Two codes are written to two rows.                                      *)
LEMMA RowOfIsInjective ==
    ASSUME TypeOK, NEW t, NEW ti \in Unused(Free(trafo), NewCodes(t)),
           NEW x \in t.file, NEW y \in t.file, RowOf(ti, x.code) = RowOf(ti, y.code)
    PROVE  x.code = y.code
  <1>1. DOMAIN ti = NewCodes(t)
        /\ \A c, d \in NewCodes(t) : ti[c] = ti[d] => c = d
    BY DEF Unused
  <1>2. CASE Holders(trafo, x.code) = {} /\ Holders(trafo, y.code) = {}
    <2>1. x.code \in NewCodes(t) /\ y.code \in NewCodes(t)
      BY <1>2 DEF NewCodes
    <2>. QED  BY <1>1, <2>1 DEF RowOf
  <1>3. CASE RowOf(ti, x.code) \in Holders(trafo, x.code)
    <2>1. RowOf(ti, y.code) \in Holders(trafo, y.code)
      BY <1>3, RowOfFacts DEF Holders, Free
    <2>. QED  BY <1>3, <2>1 DEF Holders
  <1>4. CASE RowOf(ti, y.code) \in Holders(trafo, y.code)
    <2>1. RowOf(ti, x.code) \in Holders(trafo, x.code)
      BY <1>4, RowOfFacts DEF Holders, Free
    <2>. QED  BY <1>4, <2>1 DEF Holders
  <1>. QED  BY <1>2, <1>3, <1>4, RowOfFacts

(* The substation that a line names, in a task with all it looked up.      *)
LEMMA SubOfFacts ==
    ASSUME TypeOK, NEW w \in Workers, At(w, "commit"), FoundAll(task[w]),
           NEW si \in Unused(Free(sub), Fresh(task[w])), NEW x \in task[w].file
    PROVE  /\ SubOf(task[w], si, x.sub) \in Subs \cup {NoSub}
           /\ SubOf(task[w], si, x.sub) # NoSub =>
                 \/ \E c \in DOMAIN si : si[c] = SubOf(task[w], si, x.sub)
                 \/ \E c \in DOMAIN task[w].found :
                       SubOf(task[w], si, x.sub) = task[w].found[c]
  <1> DEFINE t == task[w]
  <1>1. t \in [pc : {"commit"}, file : SUBSET Line, restored : SUBSET Subs,
               found : UNION {[D -> Subs \cup {NoSub}] : D \in SUBSET SubCodes}]
    BY TaskFacts
  <1>2. \A c \in DOMAIN t.found : t.found[c] \in Subs \cup {NoSub}
    BY <1>1
  <1>3. DOMAIN si = Fresh(t) /\ \A c \in Fresh(t) : si[c] \in Subs
    BY RowTypes DEF Unused, Free
  <1>4. x.sub = NoSub \/ x.sub \in DOMAIN t.found
    BY DEF FoundAll
  <1>5. CASE x.sub = NoSub
    BY <1>5 DEF SubOf
  <1>6. CASE x.sub # NoSub /\ x.sub \in Fresh(t)
    <2>1. SubOf(t, si, x.sub) = si[x.sub]
      BY <1>3, <1>6 DEF SubOf
    <2>. QED  BY <1>3, <1>6, <2>1
  <1>7. CASE x.sub # NoSub /\ x.sub \notin Fresh(t)
    <2>1. SubOf(t, si, x.sub) = t.found[x.sub]
      BY <1>3, <1>7 DEF SubOf
    <2>. QED  BY <1>2, <1>4, <1>7, <2>1
  <1>. QED  BY <1>5, <1>6, <1>7

LEMMA WithLinesFacts ==
    ASSUME TypeOK, NEW w \in Workers, At(w, "commit"), FoundAll(task[w]),
           NEW si \in Unused(Free(sub), Fresh(task[w])),
           NEW ti \in Unused(Free(trafo), NewCodes(task[w]))
    PROVE  /\ WithLines(task[w], si, ti) \in [Rows -> Row]
           /\ \A r \in Rows :
                 \/ /\ WithLines(task[w], si, ti)[r] = trafo[r]
                    /\ \A x \in task[w].file : RowOf(ti, x.code) # r
                 \/ \E x \in task[w].file :
                       /\ RowOf(ti, x.code) = r
                       /\ WithLines(task[w], si, ti)[r] =
                             Upserted(trafo[r], x.code, SubOf(task[w], si, x.sub))
  <1> DEFINE t == task[w]
             new == WithLines(t, si, ti)
  <1>1. \A x \in t.file : x.code \in Codes
    BY TaskFacts DEF Line
  <1>2. ASSUME NEW r \in Rows, \A x \in t.file : RowOf(ti, x.code) # r
        PROVE  new[r] = trafo[r] /\ new[r] \in Row
    BY <1>2, RowTypes DEF WithLines
  <1>3. ASSUME NEW r \in Rows, NEW z \in t.file, RowOf(ti, z.code) = r
        PROVE  /\ new[r] \in Row
               /\ \E x \in t.file : /\ RowOf(ti, x.code) = r
                                    /\ new[r] = Upserted(trafo[r], x.code, SubOf(t, si, x.sub))
    <2> DEFINE x == CHOOSE y \in t.file : RowOf(ti, y.code) = r
    <2>1. x \in t.file /\ RowOf(ti, x.code) = r
      BY <1>3
    <2>2. new[r] = Upserted(trafo[r], x.code, SubOf(t, si, x.sub))
      BY <1>3 DEF WithLines
    <2> HIDE DEF x
    <2>3. new[r] \in Row
      <3>1. trafo[r] \in Row /\ x.code \in Codes
        BY <1>1, <2>1, RowTypes
      <3>2. SubOf(t, si, x.sub) \in Subs \cup {NoSub}
        BY <2>1, SubOfFacts
      <3>. QED  BY <2>2, <3>1, <3>2, UpsertedType
    <2>. QED  BY <2>1, <2>2, <2>3
  <1>4. new \in [Rows -> Row]
    <2>1. \A r \in Rows : new[r] \in Row
      BY <1>2, <1>3
    <2>2. new = [r \in Rows |-> new[r]]
      BY DEF WithLines
    <2>. QED  BY <2>1, <2>2
  <1>. QED  BY <1>2, <1>3, <1>4

(* The substations that an import writes.                                  *)
LEMMA WithSubstationsFacts ==
    ASSUME TypeOK, NEW w \in Workers, At(w, "commit"),
           NEW si \in Unused(Free(sub), Fresh(task[w]))
    PROVE  /\ WithSubstations(task[w], si) \in [Subs -> Substation]
           /\ \A s \in Subs :
                 \/ /\ WithSubstations(task[w], si)[s] = sub[s]
                    /\ s \notin task[w].restored /\ \A c \in DOMAIN si : si[c] # s
                 \/ /\ s \in task[w].restored
                    /\ WithSubstations(task[w], si)[s] = [sub[s] EXCEPT !.st = "live"]
                 \/ \E c \in DOMAIN si :
                       /\ si[c] = s /\ s \in Free(sub)
                       /\ WithSubstations(task[w], si)[s] = [st |-> "live", code |-> c]
  <1> DEFINE t == task[w]
             new == WithSubstations(t, si)
  <1>1. /\ DOMAIN si = Fresh(t) /\ \A c \in Fresh(t) : si[c] \in Free(sub)
        /\ \A c \in Fresh(t) : c \in SubCodes
    <2>1. DOMAIN t.found \in SUBSET SubCodes
      <3>1. t.found \in UNION {[D -> Subs \cup {NoSub}] : D \in SUBSET SubCodes}
        BY TaskFacts
      <3>. QED  BY <3>1
    <2>. QED  BY <2>1 DEF Unused, Fresh
  <1>2. ASSUME NEW s \in Subs, s \in t.restored
        PROVE  new[s] = [sub[s] EXCEPT !.st = "live"] /\ new[s] \in Substation
    BY <1>2, RowTypes DEF WithSubstations, Substation, Stored
  <1>3. ASSUME NEW s \in Subs, s \notin t.restored, NEW d \in DOMAIN si, si[d] = s
        PROVE  /\ new[s] \in Substation
               /\ \E c \in DOMAIN si : /\ si[c] = s /\ s \in Free(sub)
                                       /\ new[s] = [st |-> "live", code |-> c]
    <2> DEFINE c == CHOOSE b \in DOMAIN si : si[b] = s
    <2>1. c \in DOMAIN si /\ si[c] = s
      BY <1>3
    <2>2. new[s] = [st |-> "live", code |-> c]
      BY <1>3 DEF WithSubstations
    <2> HIDE DEF c
    <2>3. c \in SubCodes
      BY <1>1, <2>1
    <2>. QED  BY <1>1, <2>1, <2>2, <2>3 DEF Substation, Stored
  <1>4. ASSUME NEW s \in Subs, s \notin t.restored, \A c \in DOMAIN si : si[c] # s
        PROVE  new[s] = sub[s] /\ new[s] \in Substation
    BY <1>4, RowTypes DEF WithSubstations
  <1>5. new \in [Subs -> Substation]
    <2>1. \A s \in Subs : new[s] \in Substation
      BY <1>2, <1>3, <1>4
    <2>2. new = [s \in Subs |-> new[s]]
      BY DEF WithSubstations
    <2>. QED  BY <2>1, <2>2
  <1>. QED  BY <1>2, <1>3, <1>4, <1>5

(* The statement of an import, taken apart.                                *)
LEMMA UpsertCases ==
    ASSUME NEW w \in Workers, UpsertByCode(w)
    PROVE  /\ At(w, "commit") /\ Done(w) /\ UNCHANGED <<unit, ops>>
           /\ \/ UNCHANGED <<trafo, sub>>
              \/ /\ \A c \in Fresh(task[w]) : Holders(sub, c) = {}
                 /\ \E si \in Unused(Free(sub), Fresh(task[w])),
                       ti \in Unused(Free(trafo), NewCodes(task[w])) :
                       /\ trafo' = WithLines(task[w], si, ti)
                       /\ sub' = WithSubstations(task[w], si)
  BY DEF UpsertByCode, Fresh, NewCodes

-----------------------------------------------------------------------------
(* Types.                                                                  *)

LEMMA InvInit == Init => Inv
<1> SUFFICES ASSUME Init PROVE Inv
  OBVIOUS
<1>1. PICK c \in Codes, s \in SubCodes :
          /\ trafo = [r \in Rows |-> [st |-> "none", code |-> c, sub |-> NoSub,
                                      active |-> TRUE]]
          /\ sub = [i \in Subs |-> [st |-> "none", code |-> s]]
          /\ unit = [u \in Units |-> [st |-> "none", code |-> c, row |-> NoRow]]
          /\ task = [w \in Workers |-> Idle]
          /\ ops = 0 /\ serial \in BOOLEAN /\ typed \in SUBSET Codes
  BY DEF Init
<1>2. TypeOK
  <2>1. trafo \in [Rows -> Row] /\ sub \in [Subs -> Substation] /\ unit \in [Units -> Unit]
    BY <1>1 DEF Row, Substation, Unit, Stored
  <2>2. task \in [Workers -> Task]
    BY <1>1, IdleFacts
  <2>3. ops \in 0 .. MaxOps
    BY <1>1, RegistryAssumption, SMT
  <2>. QED  BY <1>1, <2>1, <2>2, <2>3 DEF TypeOK
<1>3. /\ \A r \in Rows : trafo[r].st = "none"
      /\ \A i \in Subs : sub[i].st = "none"
      /\ \A u \in Units : unit[u].st = "none"
      /\ \A w \in Workers : task[w] = Idle
      /\ DOMAIN trafo = Rows /\ DOMAIN sub = Subs /\ DOMAIN unit = Units
  BY <1>1
<1>4. TypeInv /\ UniqueInv /\ TypedInv
  BY <1>2, <1>3, IdleFacts DEF TypeInv, UniqueInv, CodesAreUnique, Unique,
                               RestoredOK, TypedInv, At
<1>5. WithinQuota
  <2>1. Live(trafo) = {}
    BY <1>3 DEF Live
  <2>2. Cardinality(Live(trafo)) = 0
    BY <2>1, FS_EmptySet
  <2>. QED  BY <2>2, RegistryAssumption DEF WithinQuota
<1>6. AtMostOne /\ \A w \in Workers : TaskOK(task[w])
  BY <1>3, IdleFacts DEF AtMostOne
<1>. QED  BY <1>4, <1>5, <1>6 DEF Inv, SerialInv

LEMMA TypeGoto ==
    ASSUME TypeInv, NEW w \in Workers, NEW t \in Task, Goto(w, t),
           t.pc = "commit" => FoundAll(t)
    PROVE  /\ task' \in [Workers -> Task]
           /\ \A v \in Workers : At(v, "commit")' => FoundAll(task[v])'
  BY GotoFacts DEF TypeInv, At, FoundAll

(* Operations that only begin, or look something up: their tasks.          *)
LEMMA EditType ==
    ASSUME TypeOK, NEW old \in Row, NEW e \in Edit
    PROVE  /\ [old EXCEPT ![e.field] = e.to] \in Row
           /\ [old EXCEPT ![e.field] = e.to].st = old.st
           /\ e.field = "code" => /\ e.to \in typed
                                  /\ [old EXCEPT ![e.field] = e.to].code = e.to
                                  /\ [old EXCEPT ![e.field] = e.to].sub = old.sub
           /\ e.field # "code" => [old EXCEPT ![e.field] = e.to].code = old.code
           /\ e.field # "sub" => [old EXCEPT ![e.field] = e.to].sub = old.sub
           /\ e.field \in {"code", "sub", "active"}
  <1>1. typed \subseteq Codes /\ Known \subseteq Subs \cup {NoSub}
    BY RowTypes DEF TypeOK, Known
  <1>2. CASE e.field = "code" /\ e.to \in typed
    BY <1>1, <1>2 DEF Row
  <1>3. CASE e.field = "sub" /\ e.to \in Known
    BY <1>1, <1>3 DEF Row
  <1>4. CASE e.field = "active" /\ e.to \in BOOLEAN
    BY <1>1, <1>4 DEF Row
  <1>. QED  BY <1>2, <1>3, <1>4 DEF Edit

LEMMA NewLinesCount ==
    ASSUME NEW file, Distinct(file)
    PROVE  Cardinality(NewLines(file)) \in 0 .. MaxFile
  <1>1. IsFiniteSet(file) /\ Cardinality(file) <= MaxFile
    BY DEF Distinct
  <1>2. NewLines(file) \in SUBSET file
    BY DEF NewLines
  <1>3. /\ IsFiniteSet(NewLines(file))
        /\ Cardinality(NewLines(file)) <= Cardinality(file)
    BY <1>1, <1>2, FS_Subset
  <1>4. Cardinality(NewLines(file)) \in Nat /\ Cardinality(file) \in Nat
    BY <1>1, <1>3, FS_CardinalityType
  <1>. QED  BY <1>1, <1>3, <1>4, RegistryAssumption, SMT

(* What each operation on transformers does to its task.                   *)
LEMMA TransformerTasks ==
    ASSUME TypeOK, NEW w \in Workers, TransformerStep(w)
    PROVE  \E t \in Task : Goto(w, t) /\ (t.pc = "commit" => FoundAll(t))
  <1>1. typed \subseteq Codes /\ Known \subseteq Subs \cup {NoSub}
    BY RowTypes DEF TypeOK, Known
  <1>2. CASE Done(w)
    BY <1>2, IdleFacts DEF Done
  <1>3. CASE CreateTransformer(w)
    <2>1. PICK c \in typed, s \in Known :
              Goto(w, [pc |-> "lookup", items |-> {[code |-> c, sub |-> s]}])
      BY <1>3 DEF CreateTransformer
    <2>2. {[code |-> c, sub |-> s]} \in SUBSET Item
      BY <1>1 DEF Item
    <2>. QED  BY <2>1, <2>2 DEF Task
  <1>4. CASE LookupCode(w) /\ ~Done(w)
    <2>1. At(w, "lookup") /\ Goto(w, [task[w] EXCEPT !.pc = "insert"])
      BY <1>4 DEF LookupCode
    <2>2. [task[w] EXCEPT !.pc = "insert"] \in [pc : {"lookup", "insert"}, items : SUBSET Item]
      BY <2>1, TaskFacts
    <2>. QED  BY <2>1, <2>2 DEF Task
  <1>5. CASE CreateTransformers(w)
    <2>1. PICK items \in SUBSET [code : typed, sub : Known] :
              Goto(w, [pc |-> "insert", items |-> items])
      BY <1>5 DEF CreateTransformers
    <2>2. items \in SUBSET Item
      BY <1>1 DEF Item
    <2>. QED  BY <2>1, <2>2 DEF Task
  <1>6. CASE UpdateTransformer(w)
    <2>1. PICK r \in Live(trafo), e \in Edit :
              Goto(w, [pc |-> IF e.field = "code" /\ e.to # trafo[r].code
                              THEN "recode" ELSE "write",
                       row |-> r, field |-> e.field,
                       copy |-> [trafo[r] EXCEPT ![e.field] = e.to]])
      BY <1>6 DEF UpdateTransformer
    <2> DEFINE copy == [trafo[r] EXCEPT ![e.field] = e.to]
               pc == IF e.field = "code" /\ e.to # trafo[r].code
                     THEN "recode" ELSE "write"
    <2>2. /\ r \in Rows /\ copy \in Row /\ pc \in {"recode", "write"}
          /\ e.field \in {"code", "sub", "active"}
      BY RowTypes, EditType DEF Live
    <2>3. Goto(w, [pc |-> pc, row |-> r, field |-> e.field, copy |-> copy])
      BY <2>1
    <2> HIDE DEF pc, copy
    <2>. QED  BY <2>2, <2>3 DEF Task
  <1>7. CASE LookupNewCode(w) /\ ~Done(w)
    <2>1. At(w, "recode") /\ Goto(w, [task[w] EXCEPT !.pc = "write"])
      BY <1>7 DEF LookupNewCode
    <2>2. [task[w] EXCEPT !.pc = "write"] \in
              [pc : {"recode", "write"}, row : Rows, copy : Row,
               field : {"code", "sub", "active"}]
      BY <2>1, TaskFacts
    <2>. QED  BY <2>1, <2>2 DEF Task
  <1>8. CASE ImportTransformers(w)
    <2>1. PICK file \in SUBSET [code : typed, sub : SubCodes \cup {NoSub}] :
              /\ Distinct(file)
              /\ Goto(w, [pc |-> "quota", file |-> file,
                          new |-> Cardinality(NewLines(file))])
      BY <1>8 DEF ImportTransformers
    <2>2. file \in SUBSET Line
      BY <1>1 DEF Line
    <2>3. Cardinality(NewLines(file)) \in 0 .. MaxFile
      BY <2>1, NewLinesCount
    <2>. QED  BY <2>1, <2>2, <2>3 DEF Task
  <1>9. CASE ImportQuota(w) /\ ~Done(w)
    <2>1. At(w, "quota") /\ Goto(w, [pc |-> "resolve", file |-> task[w].file])
      BY <1>9 DEF ImportQuota
    <2>2. task[w].file \in SUBSET Line
      BY <2>1, TaskFacts
    <2>. QED  BY <2>1, <2>2 DEF Task
  <1>10. CASE GetOrCreateByCode(w)
    <2> DEFINE codes == {x.sub : x \in task[w].file} \ {NoSub}
               found == [c \in codes |-> SubstationOf(c)]
               back == {s \in {found[c] : c \in codes} \ {NoSub} : sub[s].st = "deleted"}
               t == [pc |-> "commit", file |-> task[w].file, found |-> found,
                     restored |-> back]
    <2>1. At(w, "resolve") /\ Goto(w, t)
      BY <1>10 DEF GetOrCreateByCode
    <2>2. task[w].file \in SUBSET Line
      BY <2>1, TaskFacts
    <2>3. codes \in SUBSET SubCodes
      BY <2>2 DEF Line
    <2>4. \A c \in codes : SubstationOf(c) \in Subs \cup {NoSub}
      BY RowTypes DEF SubstationOf, Holders
    <2>5. /\ found \in UNION {[D -> Subs \cup {NoSub}] : D \in SUBSET SubCodes}
          /\ back \in SUBSET Subs /\ DOMAIN found = codes
      <3>1. found \in [codes -> Subs \cup {NoSub}]
        BY <2>4
      <3> HIDE DEF found
      <3>. QED  BY <2>3, <3>1
    <2>6. t.pc = "commit" /\ t.found = found /\ t.file = task[w].file
      OBVIOUS
    <2>7. FoundAll(t)
      BY <2>5, <2>6 DEF FoundAll
    <2>8. t \in Task
      <3> HIDE DEF found, back
      <3>. QED  BY <2>2, <2>5 DEF Task
    <2>. QED  BY <2>1, <2>7, <2>8
  <1>. QED
    BY <1>2, <1>3, <1>4, <1>5, <1>6, <1>7, <1>8, <1>9, <1>10
       DEF TransformerStep, Insert, Update, UpsertByCode, LookupCode,
           LookupNewCode, ImportQuota

(* What each operation on units does to its task.                          *)
LEMMA UnitTasks ==
    ASSUME TypeOK, NEW w \in Workers, UnitStep(w)
    PROVE  \E t \in Task : Goto(w, t) /\ (t.pc = "commit" => FoundAll(t))
  <1> DEFINE Lookup == [pc : {"unitLookup", "unitInsert", "unitUpsert"},
                        code : Codes, row : Rows]
  <1>1. typed \subseteq Codes /\ Live(trafo) \subseteq Rows /\ Live(unit) \subseteq Units
    BY RowTypes DEF TypeOK, Live
  <1>2. CASE Done(w)
    BY <1>2, IdleFacts DEF Done
  <1>3. CASE CreateUnit(w)
    <2>1. PICK c \in typed, r \in Rows : Goto(w, [pc |-> "unitLookup", code |-> c, row |-> r])
      BY <1>3 DEF CreateUnit
    <2>. QED  BY <1>1, <2>1 DEF Task
  <1>4. CASE LookupUnit(w) /\ ~Done(w)
    <2>1. At(w, "unitLookup") /\ Goto(w, [task[w] EXCEPT !.pc = "unitInsert"])
      BY <1>4 DEF LookupUnit
    <2>2. [task[w] EXCEPT !.pc = "unitInsert"] \in Lookup
      BY <2>1, TaskFacts
    <2>. QED  BY <2>1, <2>2 DEF Task
  <1>5. CASE UpdateUnit(w)
    <2>1. PICK u \in Live(unit) :
             \/ \E r \in Rows :
                   Goto(w, [pc |-> "unitWrite", id |-> u,
                            copy |-> [unit[u] EXCEPT !.row = r]])
             \/ \E c \in typed :
                   Goto(w, [pc |-> "unitWrite", id |-> u,
                            copy |-> [unit[u] EXCEPT !.code = c]])
      BY <1>5 DEF UpdateUnit
    <2>2. u \in Units /\ unit[u] \in Unit
      BY <1>1, RowTypes
    <2>3. /\ \A r \in Rows : [unit[u] EXCEPT !.row = r] \in Unit
          /\ \A c \in typed : [unit[u] EXCEPT !.code = c] \in Unit
      BY <1>1, <2>2 DEF Unit
    <2>4. PICK copy \in Unit : Goto(w, [pc |-> "unitWrite", id |-> u, copy |-> copy])
      BY <2>1, <2>3
    <2>. QED  BY <2>2, <2>4 DEF Task
  <1>6. CASE ImportUnits(w)
    <2>1. PICK c \in typed, r \in Live(trafo) :
              Goto(w, [pc |-> "unitUpsert", code |-> c, row |-> r])
      BY <1>6 DEF ImportUnits
    <2>. QED  BY <1>1, <2>1 DEF Task
  <1>. QED
    BY <1>2, <1>3, <1>4, <1>5, <1>6
       DEF UnitStep, InsertUnit, WriteUnit, UpsertUnit, LookupUnit

(* The rows after each statement that writes.                              *)
LEMMA TransformerRows ==
    ASSUME TypeInv, NEW w \in Workers, TransformerStep(w)
    PROVE  /\ trafo' \in [Rows -> Row] /\ sub' \in [Subs -> Substation]
           /\ UNCHANGED unit
  <1>1. TypeOK
    BY DEF TypeInv
  <1>2. CASE Insert(w)
    <2>1. PICK id : \/ UNCHANGED trafo
                    \/ /\ id \in Unused(Free(trafo), {x.code : x \in task[w].items})
                       /\ trafo' = WithItems(task[w].items, id)
      BY <1>2 DEF Insert
    <2>2. task[w].items \in SUBSET Item
      BY <1>1, <1>2, TaskFacts DEF Insert
    <2>. QED  BY <1>1, <1>2, <2>1, <2>2, WithItemsFacts DEF Insert, TypeOK
  <1>3. CASE Update(w)
    <2>1. task[w].row \in Rows /\ task[w].copy \in Row
      BY <1>1, <1>3, TaskFacts DEF Update
    <2>2. Written(trafo[task[w].row], task[w].copy) \in Row
      BY <1>1, <2>1, WrittenType, RowTypes
    <2>. QED  BY <1>1, <1>3, <2>1, <2>2 DEF Update, TypeOK
  <1>4. CASE UpsertByCode(w)
    <2>1. At(w, "commit") /\ FoundAll(task[w])
      BY <1>4 DEF UpsertByCode, TypeInv
    <2>. QED  BY <1>1, <1>4, <2>1, UpsertCases, WithLinesFacts, WithSubstationsFacts DEF TypeOK
  <1>5. CASE UNCHANGED <<trafo, sub, unit>>
    BY <1>1, <1>5 DEF TypeOK
  <1>. QED
    BY <1>2, <1>3, <1>4, <1>5
       DEF TransformerStep, CreateTransformer, LookupCode, CreateTransformers,
           UpdateTransformer, LookupNewCode, ImportTransformers, ImportQuota,
           GetOrCreateByCode

LEMMA UnitRows ==
    ASSUME TypeInv, NEW w \in Workers, UnitStep(w)
    PROVE  unit' \in [Units -> Unit] /\ UNCHANGED <<trafo, sub>>
  <1>1. TypeOK /\ unit \in [Units -> Unit]
    BY DEF TypeInv, TypeOK
  <1>2. \A c \in Codes, r \in Rows : [st |-> "live", code |-> c, row |-> r] \in Unit
    BY DEF Unit, Stored
  <1>3. CASE InsertUnit(w)
    <2>1. task[w].code \in Codes /\ task[w].row \in Rows
      BY <1>1, <1>3, TaskFacts DEF InsertUnit
    <2> DEFINE new == [st |-> "live", code |-> task[w].code, row |-> task[w].row]
    <2>2. UNCHANGED unit \/ \E u \in Free(unit) : unit' = [unit EXCEPT ![u] = new]
      BY <1>3 DEF InsertUnit
    <2>3. new \in Unit
      BY <1>2, <2>1
    <2> HIDE DEF new
    <2>. QED  BY <1>1, <1>3, <2>2, <2>3 DEF InsertUnit
  <1>4. CASE WriteUnit(w)
    <2>1. task[w].id \in Units /\ task[w].copy \in Unit
      BY <1>1, <1>4, TaskFacts DEF WriteUnit
    <2>2. Written(unit[task[w].id], task[w].copy) \in Unit
      BY <1>1, <2>1, WrittenType
    <2>. QED  BY <1>1, <1>4, <2>1, <2>2 DEF WriteUnit
  <1>5. CASE UpsertUnit(w)
    <2>1. task[w].code \in Codes /\ task[w].row \in Rows
      BY <1>1, <1>5, TaskFacts DEF UpsertUnit
    <2> DEFINE new == [st |-> "live", code |-> task[w].code, row |-> task[w].row]
    <2>2. \E u : unit' = [unit EXCEPT ![u] = new]
      BY <1>5 DEF UpsertUnit
    <2>3. new \in Unit
      BY <1>2, <2>1
    <2> HIDE DEF new
    <2>. QED  BY <1>1, <1>5, <2>2, <2>3 DEF UpsertUnit
  <1>6. CASE UNCHANGED <<trafo, sub, unit>>
    BY <1>1, <1>6
  <1>. QED
    BY <1>3, <1>4, <1>5, <1>6
       DEF UnitStep, CreateUnit, LookupUnit, UpdateUnit, ImportUnits

LEMMA OpsStep ==
    ASSUME TypeOK, Next
    PROVE  ops' \in 0 .. MaxOps /\ serial' \in BOOLEAN /\ typed' \in SUBSET Codes
  <1>1. ops' = ops \/ (ops < MaxOps /\ ops' = ops + 1)
    BY DEF Next, TransformerStep, UnitStep, CreateTransformer, LookupCode,
           CreateTransformers, Insert, UpdateTransformer, LookupNewCode, Update,
           ImportTransformers, ImportQuota, GetOrCreateByCode, UpsertByCode,
           CreateUnit, LookupUnit, InsertUnit, UpdateUnit, WriteUnit,
           ImportUnits, UpsertUnit, Delete, DeleteSubstation, CreateSubstation,
           UpdateSubstation, DeleteUnit, Begin, Single
  <1>2. ops \in 0 .. MaxOps /\ MaxOps \in Nat
    BY RegistryAssumption DEF TypeOK
  <1>3. ops' \in 0 .. MaxOps
    BY <1>1, <1>2, SMT
  <1>4. UNCHANGED <<serial, typed>>
    BY DEF Next
  <1>. QED  BY <1>3, <1>4 DEF TypeOK

LEMMA TypeStep == TypeInv /\ [Next]_vars => TypeInv'
<1> SUFFICES ASSUME TypeInv, [Next]_vars PROVE TypeInv'
  OBVIOUS
<1>1. TypeOK
  BY DEF TypeInv
<1>2. CASE UNCHANGED vars
  BY <1>1, <1>2 DEF vars, TypeInv, TypeOK, At, FoundAll, Task, Row, Unit, Item, Line
<1>3. CASE Next
  <2>1. ops' \in 0 .. MaxOps /\ serial' \in BOOLEAN /\ typed' \in SUBSET Codes
    BY <1>1, <1>3, OpsStep
  <2> DEFINE TasksOK == /\ task' \in [Workers -> Task]
                        /\ \A v \in Workers : At(v, "commit")' => FoundAll(task[v])'
             TablesOK == /\ trafo' \in [Rows -> Row] /\ sub' \in [Subs -> Substation]
                         /\ unit' \in [Units -> Unit]
  <2>2. ASSUME NEW w \in Workers, TransformerStep(w) \/ UnitStep(w)
        PROVE  TasksOK /\ TablesOK
    <3>1. PICK t \in Task : Goto(w, t) /\ (t.pc = "commit" => FoundAll(t))
      BY <1>1, <2>2, TransformerTasks, UnitTasks
    <3>2. TasksOK
      BY <3>1, TypeGoto
    <3>3. TablesOK
      BY <1>1, <2>2, TransformerRows, UnitRows DEF TypeOK
    <3>. QED  BY <3>2, <3>3
  <2>3. ASSUME UNCHANGED task
        PROVE  TasksOK
    BY <1>1, <2>3 DEF TypeInv, TypeOK, At, FoundAll
  <2>4. ASSUME NEW r \in Rows, Delete(r)
        PROVE  TasksOK /\ TablesOK
    <3>1. UNCHANGED <<task, sub, unit>> /\ trafo' = [trafo EXCEPT ![r].st = "deleted"]
      BY <2>4 DEF Delete, Single
    <3>2. trafo' \in [Rows -> Row]
      BY <1>1, <3>1 DEF TypeOK, Row, Stored
    <3>. QED  BY <1>1, <2>3, <3>1, <3>2 DEF TypeOK
  <2>5. ASSUME NEW s \in Subs, DeleteSubstation(s)
        PROVE  TasksOK /\ TablesOK
    <3>1. /\ UNCHANGED <<task, unit>> /\ sub' = [sub EXCEPT ![s].st = "deleted"]
          /\ trafo' = [r \in Rows |-> Unlinked(trafo[r], s)]
      BY <2>5 DEF DeleteSubstation, Single
    <3>2. sub' \in [Subs -> Substation]
      BY <1>1, <3>1 DEF TypeOK, Substation, Stored
    <3>3. \A r \in Rows : Unlinked(trafo[r], s) \in Row
      BY <1>1, RowTypes DEF Unlinked, Row
    <3>. QED  BY <1>1, <2>3, <3>1, <3>2, <3>3 DEF TypeOK
  <2>6. ASSUME NEW s \in Subs, NEW c \in SubCodes,
               CreateSubstation(s, c) \/ UpdateSubstation(s, c)
        PROVE  TasksOK /\ TablesOK
    <3>1. UNCHANGED <<task, trafo, unit>>
      BY <2>6 DEF CreateSubstation, UpdateSubstation, Single
    <3>2. sub' \in [Subs -> Substation]
      BY <1>1, <2>6 DEF CreateSubstation, UpdateSubstation, TypeOK, Substation, Stored
    <3>. QED  BY <1>1, <2>3, <3>1, <3>2 DEF TypeOK
  <2>7. ASSUME NEW u \in Units, DeleteUnit(u)
        PROVE  TasksOK /\ TablesOK
    <3>1. UNCHANGED <<task, trafo, sub>> /\ unit' = [unit EXCEPT ![u].st = "deleted"]
      BY <2>7 DEF DeleteUnit, Single
    <3>2. unit' \in [Units -> Unit]
      BY <1>1, <3>1 DEF TypeOK, Unit, Stored
    <3>. QED  BY <1>1, <2>3, <3>1, <3>2 DEF TypeOK
  <2>8. TasksOK /\ TablesOK
    BY <1>3, <2>2, <2>4, <2>5, <2>6, <2>7 DEF Next
  <2>. QED  BY <2>1, <2>8 DEF TypeInv, TypeOK
<1>. QED  BY <1>2, <1>3

-----------------------------------------------------------------------------
(* Codes.                                                                  *)

(* A table stays unique when each row that is written, one of W, has a code*)
(* that nobody else held, and no two of them have the same.                *)
LEMMA UniqueAfter ==
    ASSUME NEW old, NEW new, DOMAIN new = DOMAIN old, Unique(old),
           NEW W \in SUBSET DOMAIN old,
           \A i \in DOMAIN old \ W : new[i].st # "none" =>
               old[i].st # "none" /\ new[i].code = old[i].code,
           \A i \in W : Holders(old, new[i].code) \subseteq {i},
           \A i, j \in W : new[i].code = new[j].code => i = j
    PROVE  Unique(new)
<1> SUFFICES ASSUME NEW i \in DOMAIN old, NEW j \in DOMAIN old, i # j,
                    new[i].st # "none", new[j].st # "none", new[i].code = new[j].code
             PROVE  FALSE
  BY DEF Unique
<1>1. CASE i \in W /\ j \in W
  BY <1>1
<1>2. CASE i \notin W /\ j \notin W
  BY <1>2 DEF Unique
<1>3. CASE i \in W /\ j \notin W
  <2>1. j \in Holders(old, new[i].code)
    BY <1>3 DEF Holders
  <2>. QED  BY <1>3, <2>1
<1>4. CASE i \notin W /\ j \in W
  <2>1. i \in Holders(old, new[j].code)
    BY <1>4 DEF Holders
  <2>. QED  BY <1>4, <2>1
<1>. QED  BY <1>1, <1>2, <1>3, <1>4

(* One row is written with a code that no other row holds.                 *)
LEMMA UniqueRow ==
    ASSUME NEW old, NEW new, Unique(old), NEW i \in DOMAIN old, NEW row,
           new = [old EXCEPT ![i] = row],
           Holders(old, row.code) \subseteq {i}
    PROVE  Unique(new)
  <1>1. DOMAIN new = DOMAIN old /\ new[i] = row /\ \A j \in DOMAIN old \ {i} : new[j] = old[j]
    OBVIOUS
  <1>. QED  BY <1>1 DEF Unique, Holders

(* Rows that keep their codes, and are not made, disturb nobody.           *)
LEMMA UniqueKept ==
    ASSUME NEW old, NEW new, Unique(old), DOMAIN new = DOMAIN old,
           \A i \in DOMAIN old : new[i].st # "none" =>
               old[i].st # "none" /\ new[i].code = old[i].code
    PROVE  Unique(new)
  BY DEF Unique

LEMMA InsertUnique ==
    ASSUME TypeInv, CodesAreUnique, NEW w \in Workers, Insert(w)
    PROVE  Unique(trafo')
<1>1. TypeOK /\ Unique(trafo) /\ DOMAIN trafo = Rows
  BY RowTypes DEF TypeInv, CodesAreUnique
<1>2. task[w].items \in SUBSET Item
  BY <1>1, TaskFacts DEF Insert
<1> DEFINE items == task[w].items
           codes == {x.code : x \in items}
<1>3. CASE UNCHANGED trafo
  BY <1>1, <1>3
<1>4. ASSUME NEW id \in Unused(Free(trafo), codes), trafo' = WithItems(items, id),
             \A c \in codes : Holders(trafo, c) = {}
      PROVE  Unique(trafo')
  <2> DEFINE W == {r \in Rows : \E x \in items : id[x.code] = r}
  <2>1. /\ DOMAIN trafo' = Rows
        /\ \A r \in Rows :
              \/ trafo'[r] = trafo[r] /\ r \notin W
              \/ \E x \in items : id[x.code] = r /\ trafo'[r] = Inserted(x)
    <3>1. /\ WithItems(items, id) \in [Rows -> Row]
          /\ \A r \in Rows :
                \/ WithItems(items, id)[r] = trafo[r] /\ \A x \in items : id[x.code] # r
                \/ \E x \in items : /\ id[x.code] = r /\ r \in Free(trafo)
                                    /\ WithItems(items, id)[r] = Inserted(x)
      <4>1. items \in SUBSET Item /\ id \in Unused(Free(trafo), {x.code : x \in items})
        BY <1>2, <1>4
      <4> HIDE DEF items
      <4>. QED  BY <1>1, <4>1, WithItemsFacts
    <3>2. /\ trafo' \in [Rows -> Row]
          /\ \A r \in Rows :
                \/ trafo'[r] = trafo[r] /\ \A x \in items : id[x.code] # r
                \/ \E x \in items : id[x.code] = r /\ trafo'[r] = Inserted(x)
      <4> HIDE DEF items
      <4>. QED  BY <1>4, <3>1
    <3>3. DOMAIN trafo' = Rows
      BY <3>2
    <3>4. \A r \in Rows : (\A x \in items : id[x.code] # r) => r \notin W
      OBVIOUS
    <3> HIDE DEF items, W
    <3>. QED  BY <3>2, <3>3, <3>4
  <2>2. \A r \in W : \E x \in items : id[x.code] = r /\ trafo'[r].code = x.code
    BY <1>2, <2>1, InsertedType
  <2>3. \A r \in W : Holders(trafo, trafo'[r].code) \subseteq {r}
    BY <1>4, <2>2
  <2>4. \A r, q \in W : trafo'[r].code = trafo'[q].code => r = q
    BY <2>2
  <2>5. \A r \in Rows \ W : trafo'[r] = trafo[r]
    BY <2>1
  <2>6. W \in SUBSET Rows
    OBVIOUS
  <2>7. DOMAIN trafo' = DOMAIN trafo /\ W \in SUBSET DOMAIN trafo
    BY <1>1, <2>1, <2>6
  <2> HIDE DEF items, codes, W
  <2>8. \A r \in DOMAIN trafo \ W : trafo'[r].st # "none" =>
           trafo[r].st # "none" /\ trafo'[r].code = trafo[r].code
    BY <1>1, <2>5
  <2>. QED  BY <1>1, <2>3, <2>4, <2>7, <2>8, UniqueAfter
<1>. QED  BY <1>3, <1>4 DEF Insert

LEMMA UpdateUnique ==
    ASSUME TypeInv, CodesAreUnique, NEW w \in Workers, Update(w)
    PROVE  Unique(trafo')
<1>1. TypeOK /\ Unique(trafo) /\ DOMAIN trafo = Rows
  BY RowTypes DEF TypeInv, CodesAreUnique
<1> DEFINE r == task[w].row
           copy == task[w].copy
<1>2. r \in Rows /\ copy \in Row
  BY <1>1, TaskFacts DEF Update
<1>3. Written(trafo[r], copy).code = copy.code
  BY <1>1, <1>2, WrittenType, RowTypes
<1>4. CASE Holders(trafo, copy.code) \subseteq {r}
  <2>1. trafo' = [trafo EXCEPT ![r] = Written(trafo[r], copy)]
    BY <1>4 DEF Update
  <2>. QED  BY <1>1, <1>2, <1>3, <1>4, <2>1, UniqueRow
<1>5. CASE ~(Holders(trafo, copy.code) \subseteq {r})
  <2>1. trafo' = trafo
    BY <1>5 DEF Update
  <2>. QED  BY <1>1, <2>1
<1>. QED  BY <1>4, <1>5

(* A row that an import writes has one of its codes, which is the one that *)
(* the row had, or was nobody's.                                           *)
LEMMA LinesUnique ==
    ASSUME TypeOK, Unique(trafo), NEW w \in Workers, At(w, "commit"), FoundAll(task[w]),
           NEW si \in Unused(Free(sub), Fresh(task[w])),
           NEW ti \in Unused(Free(trafo), NewCodes(task[w])),
           trafo' = WithLines(task[w], si, ti)
    PROVE  Unique(trafo')
<1> DEFINE file == task[w].file
           W == {r \in Rows : \E x \in file : RowOf(ti, x.code) = r}
<1>1. DOMAIN trafo = Rows /\ DOMAIN trafo' = Rows
  BY RowTypes, WithLinesFacts
<1>2. \A x \in file : x.code \in Codes
  BY TaskFacts DEF Line
<1>3. \A r \in Rows :
          \/ trafo'[r] = trafo[r] /\ r \notin W
          \/ \E x \in file : /\ RowOf(ti, x.code) = r
                             /\ trafo'[r] = Upserted(trafo[r], x.code, SubOf(task[w], si, x.sub))
  BY WithLinesFacts
<1>4. ASSUME NEW r \in W
      PROVE  \E x \in file : RowOf(ti, x.code) = r /\ trafo'[r].code = x.code
  <2>1. PICK x \in file : /\ RowOf(ti, x.code) = r
                          /\ trafo'[r] = Upserted(trafo[r], x.code, SubOf(task[w], si, x.sub))
    BY <1>3
  <2>2. trafo'[r].code = x.code
    <3>1. trafo[r] \in Row /\ x.code \in Codes
      BY <1>2, RowTypes
    <3>2. SubOf(task[w], si, x.sub) \in Subs \cup {NoSub}
      BY SubOfFacts
    <3>. QED  BY <2>1, <3>1, <3>2, UpsertedType
  <2>. QED  BY <2>1, <2>2
<1>5. ASSUME NEW r \in W
      PROVE  Holders(trafo, trafo'[r].code) \subseteq {r}
  <2>1. PICK x \in file : RowOf(ti, x.code) = r /\ trafo'[r].code = x.code
    BY <1>4
  <2>2. CASE Holders(trafo, x.code) = {}
    BY <2>1, <2>2
  <2>3. CASE r \in Holders(trafo, x.code)
    BY <2>1, <2>3 DEF Unique, Holders
  <2>. QED  BY <2>1, <2>2, <2>3, RowOfFacts
<1>6. \A r, q \in W : trafo'[r].code = trafo'[q].code => r = q
  BY <1>4
<1>7. \A r \in Rows \ W : trafo'[r] = trafo[r]
  BY <1>3
<1>8. W \in SUBSET Rows
  OBVIOUS
<1> HIDE DEF W
<1>. QED  BY <1>1, <1>5, <1>6, <1>7, <1>8, UniqueAfter

LEMMA SubstationsUnique ==
    ASSUME TypeOK, Unique(sub), NEW w \in Workers, At(w, "commit"),
           \A s \in task[w].restored : sub[s].st # "none",
           NEW si \in Unused(Free(sub), Fresh(task[w])),
           \A c \in Fresh(task[w]) : Holders(sub, c) = {},
           sub' = WithSubstations(task[w], si)
    PROVE  /\ Unique(sub')
           /\ \A s \in Subs : sub[s].st # "none" => sub'[s].st # "none"
<1> DEFINE W == {s \in Subs : s \notin task[w].restored /\ \E c \in DOMAIN si : si[c] = s}
<1>1. DOMAIN sub = Subs /\ DOMAIN sub' = Subs /\ DOMAIN si = Fresh(task[w])
  BY RowTypes, WithSubstationsFacts DEF Unused
<1>2. \A s \in Subs :
          \/ sub'[s] = sub[s] /\ s \notin W
          \/ /\ s \in task[w].restored /\ s \notin W
             /\ sub'[s] = [sub[s] EXCEPT !.st = "live"]
          \/ \E c \in DOMAIN si : /\ si[c] = s /\ s \in Free(sub)
                                  /\ sub'[s] = [st |-> "live", code |-> c]
  <2>1. \A s \in Subs :
          \/ /\ sub'[s] = sub[s]
             /\ s \notin task[w].restored /\ \A c \in DOMAIN si : si[c] # s
          \/ /\ s \in task[w].restored
             /\ sub'[s] = [sub[s] EXCEPT !.st = "live"]
          \/ \E c \in DOMAIN si : /\ si[c] = s /\ s \in Free(sub)
                                  /\ sub'[s] = [st |-> "live", code |-> c]
    <3>0. \A s \in Subs :
            \/ /\ WithSubstations(task[w], si)[s] = sub[s]
               /\ s \notin task[w].restored /\ \A c \in DOMAIN si : si[c] # s
            \/ /\ s \in task[w].restored
               /\ WithSubstations(task[w], si)[s] = [sub[s] EXCEPT !.st = "live"]
            \/ \E c \in DOMAIN si :
                  /\ si[c] = s /\ s \in Free(sub)
                  /\ WithSubstations(task[w], si)[s] = [st |-> "live", code |-> c]
      <4> HIDE DEF W
      <4>. QED  BY ONLY TypeOK, w \in Workers, At(w, "commit"), WithSubstationsFacts,
                        si \in Unused(Free(sub), Fresh(task[w]))
    <3> DEFINE new == WithSubstations(task[w], si)
    <3>1. \A s \in Subs :
            \/ /\ new[s] = sub[s]
               /\ s \notin task[w].restored /\ \A c \in DOMAIN si : si[c] # s
            \/ /\ s \in task[w].restored
               /\ new[s] = [sub[s] EXCEPT !.st = "live"]
            \/ \E c \in DOMAIN si : /\ si[c] = s /\ s \in Free(sub)
                                    /\ new[s] = [st |-> "live", code |-> c]
      BY <3>0, Zenon
    <3>2. sub' = new
      OBVIOUS
    <3> HIDE DEF new
    <3>3. \A s \in Subs : sub'[s] = new[s]
      BY <3>2
    <3> SUFFICES ASSUME NEW s \in Subs
                 PROVE  \/ /\ sub'[s] = sub[s]
                           /\ s \notin task[w].restored /\ \A c \in DOMAIN si : si[c] # s
                        \/ /\ s \in task[w].restored
                           /\ sub'[s] = [sub[s] EXCEPT !.st = "live"]
                        \/ \E c \in DOMAIN si :
                              /\ si[c] = s /\ s \in Free(sub)
                              /\ sub'[s] = [st |-> "live", code |-> c]
      OBVIOUS
    <3>4. sub'[s] = new[s]
      BY <3>3
    <3>5. CASE new[s] = sub[s] /\ s \notin task[w].restored /\ \A c \in DOMAIN si : si[c] # s
      BY <3>4, <3>5
    <3>6. CASE s \in task[w].restored /\ new[s] = [sub[s] EXCEPT !.st = "live"]
      BY <3>4, <3>6
    <3>7. CASE \E c \in DOMAIN si : /\ si[c] = s /\ s \in Free(sub)
                                    /\ new[s] = [st |-> "live", code |-> c]
      BY <3>4, <3>7
    <3>. QED  BY <3>1, <3>5, <3>6, <3>7, Zenon
  <2>. QED  BY <2>1
<1>3. \A s \in Subs : [sub[s] EXCEPT !.st = "live"].code = sub[s].code
                      /\ [sub[s] EXCEPT !.st = "live"].st = "live"
  BY RowTypes DEF Substation
<1>4. ASSUME NEW s \in W
      PROVE  \E c \in DOMAIN si : si[c] = s /\ sub'[s].code = c
  <2>1. s \in Subs /\ s \notin task[w].restored /\ \E c \in DOMAIN si : si[c] = s
    OBVIOUS
  <2>2. \E c \in DOMAIN si : si[c] = s /\ sub'[s] = [st |-> "live", code |-> c]
    BY <1>2, <2>1
  <2>. QED  BY <2>2
<1>5. \A s \in Subs \ W : sub'[s].st # "none" => sub[s].st # "none" /\ sub'[s].code = sub[s].code
  <2> SUFFICES ASSUME NEW s \in Subs \ W, sub'[s].st # "none"
               PROVE  sub[s].st # "none" /\ sub'[s].code = sub[s].code
    OBVIOUS
  <2>1. CASE s \in task[w].restored
    <3>1. sub[s].st # "none"
      BY <2>1
    <3>2. sub'[s] = [sub[s] EXCEPT !.st = "live"] \/ sub'[s] = sub[s]
      BY <1>2, <3>1 DEF Free
    <3>. QED  BY <1>3, <3>1, <3>2
  <2>2. CASE s \notin task[w].restored
    <3>1. \A c \in DOMAIN si : si[c] # s
      BY <2>2
    <3>. QED  BY <1>2, <2>2, <3>1
  <2>. QED  BY <2>1, <2>2
<1>6. \A s \in W : Holders(sub, sub'[s].code) \subseteq {s}
  BY <1>1, <1>4
<1>7. \A s, q \in W : sub'[s].code = sub'[q].code => s = q
  BY <1>4
<1>8. \A s \in Subs : sub[s].st # "none" => sub'[s].st # "none"
  BY <1>2, <1>3 DEF Free
<1>9. W \in SUBSET Subs
  OBVIOUS
<1> HIDE DEF W
<1>10. Unique(sub')
  <2>1. \A s \in DOMAIN sub \ W : sub'[s].st # "none" =>
            sub[s].st # "none" /\ sub'[s].code = sub[s].code
    BY <1>1, <1>5
  <2>2. DOMAIN sub' = DOMAIN sub /\ W \in SUBSET DOMAIN sub
    BY <1>1, <1>9
  <2>. QED  BY ONLY Unique(sub), <1>6, <1>7, <2>1, <2>2, UniqueAfter
<1>. QED  BY <1>8, <1>10

LEMMA InsertUnitUnique ==
    ASSUME TypeInv, CodesAreUnique, NEW w \in Workers,
           InsertUnit(w) \/ WriteUnit(w) \/ UpsertUnit(w)
    PROVE  Unique(unit')
<1>1. TypeOK /\ Unique(unit) /\ DOMAIN unit = Units
  BY RowTypes DEF TypeInv, CodesAreUnique
<1> DEFINE new == [st |-> "live", code |-> task[w].code, row |-> task[w].row]
<1>2. new.code = task[w].code
  OBVIOUS
<1>3. CASE UNCHANGED unit
  BY <1>1, <1>3
<1>4. CASE InsertUnit(w) /\ ~UNCHANGED unit
  <2>1. Holders(unit, task[w].code) = {}
    BY <1>4 DEF InsertUnit
  <2>2. PICK u \in Free(unit) : unit' = [unit EXCEPT ![u] = new]
    BY <1>4 DEF InsertUnit
  <2>3. u \in DOMAIN unit
    BY <2>2 DEF Free
  <2> HIDE DEF new
  <2>. QED  BY <1>1, <1>2, <2>1, <2>2, <2>3, UniqueRow
<1>5. CASE WriteUnit(w) /\ ~UNCHANGED unit
  <2> DEFINE u == task[w].id
             row == Written(unit[u], task[w].copy)
  <2>1. u \in Units /\ task[w].copy \in Unit
    BY <1>1, <1>5, TaskFacts DEF WriteUnit
  <2>2. /\ Holders(unit, task[w].copy.code) \subseteq {u}
        /\ unit' = [unit EXCEPT ![u] = row]
    BY <1>5 DEF WriteUnit
  <2>3. row.code = task[w].copy.code
    BY <1>1, <2>1, WrittenType, RowTypes
  <2> HIDE DEF u, row
  <2>. QED  BY <1>1, <2>1, <2>2, <2>3, UniqueRow
<1>6. CASE UpsertUnit(w)
  <2> DEFINE h == Holders(unit, task[w].code)
  <2>1. PICK u \in IF h = {} THEN Free(unit) ELSE h : unit' = [unit EXCEPT ![u] = new]
    BY <1>6 DEF UpsertUnit
  <2>2. u \in DOMAIN unit /\ h \subseteq {u}
    BY <1>1, <2>1 DEF Free, Holders, Unique
  <2> HIDE DEF new
  <2>. QED  BY <1>1, <1>2, <2>1, <2>2, UniqueRow
<1>. QED  BY <1>3, <1>4, <1>5, <1>6

LEMMA RestoredGoto ==
    ASSUME TypeOK, RestoredOK, NEW w \in Workers, NEW t \in Task, Goto(w, t),
           t.pc = "commit" => \A s \in t.restored : sub'[s].st # "none",
           \A s \in Subs : sub[s].st # "none" => sub'[s].st # "none"
    PROVE  RestoredOK'
  <1> SUFFICES ASSUME NEW v \in Workers, task'[v].pc = "commit",
                      NEW s \in task'[v].restored
               PROVE  sub'[s].st # "none"
    BY DEF RestoredOK, At
  <1>1. CASE v = w
    BY <1>1, GotoFacts
  <1>2. CASE v # w
    <2>1. task'[v] = task[v] /\ At(v, "commit")
      BY <1>2, GotoFacts DEF At
    <2>2. s \in Subs
      BY <2>1, TaskFacts
    <2>. QED  BY <2>1, <2>2 DEF RestoredOK
  <1>. QED  BY <1>1, <1>2

LEMMA RestoredSame ==
    ASSUME TypeOK, RestoredOK, UNCHANGED task,
           \A s \in Subs : sub[s].st # "none" => sub'[s].st # "none"
    PROVE  RestoredOK'
  <1> SUFFICES ASSUME NEW v \in Workers, task'[v].pc = "commit",
                      NEW s \in task'[v].restored
               PROVE  sub'[s].st # "none"
    BY DEF RestoredOK, At
  <1>1. At(v, "commit") /\ s \in task[v].restored
    BY DEF At
  <1>2. s \in Subs
    BY <1>1, TaskFacts
  <1>. QED  BY <1>1, <1>2 DEF RestoredOK

(* What an import restores has a row when it is looked up.                 *)
LEMMA LookupRestores ==
    ASSUME TypeOK, NEW w \in Workers, GetOrCreateByCode(w)
    PROVE  \E t \in Task : Goto(w, t) /\ \A s \in t.restored : sub[s].st # "none"
  <1>1. PICK t : Goto(w, t) /\ \A s \in t.restored : sub[s].st = "deleted"
    BY DEF GetOrCreateByCode
  <1>2. PICK u \in Task : Goto(w, u)
    BY TransformerTasks DEF TransformerStep
  <1>3. t = u
    BY <1>1, <1>2 DEF Goto, TypeOK
  <1>. QED  BY <1>1, <1>2, <1>3

LEMMA UniqueStep == TypeInv /\ UniqueInv /\ [Next]_vars => UniqueInv'
<1> SUFFICES ASSUME TypeInv, UniqueInv, [Next]_vars PROVE UniqueInv'
  OBVIOUS
<1>1. /\ TypeOK /\ CodesAreUnique /\ RestoredOK
      /\ Unique(trafo) /\ Unique(sub) /\ Unique(unit)
  BY DEF TypeInv, UniqueInv, CodesAreUnique
<1>2. DOMAIN trafo = Rows /\ DOMAIN sub = Subs /\ DOMAIN unit = Units
  BY <1>1, RowTypes
<1> DEFINE Good == Unique(trafo') /\ Unique(sub') /\ Unique(unit') /\ RestoredOK'
<1>3. CASE UNCHANGED <<trafo, sub, unit, task>>
  BY <1>1, <1>3 DEF RestoredOK, At, UniqueInv, CodesAreUnique, Unique
<1>4. ASSUME NEW w \in Workers, NEW t \in Task, Goto(w, t), UNCHANGED sub,
             t.pc = "commit" => \A s \in t.restored : sub[s].st # "none"
      PROVE  RestoredOK'
  BY <1>1, <1>4, RestoredGoto
<1>5. ASSUME NEW w \in Workers, TransformerStep(w)
      PROVE  Good
  <2>1. PICK t \in Task : Goto(w, t)
    BY <1>1, <1>5, TransformerTasks
  <2>2. CASE GetOrCreateByCode(w)
    <3>1. UNCHANGED <<trafo, sub, unit>>
      BY <2>2 DEF GetOrCreateByCode
    <3>. QED  BY <1>1, <1>4, <2>2, <3>1, LookupRestores
  <2>3. CASE Insert(w)
    <3>1. UNCHANGED <<sub, unit>> /\ Goto(w, Idle)
      BY <2>3 DEF Insert, Done
    <3>2. RestoredOK'
      BY <1>4, <3>1, IdleFacts
    <3>. QED  BY <1>1, <2>3, <3>1, <3>2, InsertUnique
  <2>4. CASE Update(w)
    <3>1. UNCHANGED <<sub, unit>> /\ Goto(w, Idle)
      BY <2>4 DEF Update, Done
    <3>2. RestoredOK'
      BY <1>4, <3>1, IdleFacts
    <3>. QED  BY <1>1, <2>4, <3>1, <3>2, UpdateUnique
  <2>5. CASE UpsertByCode(w)
    <3>1. At(w, "commit") /\ Goto(w, Idle) /\ UNCHANGED unit /\ FoundAll(task[w])
      BY <2>5, UpsertCases DEF Done, TypeInv
    <3>2. \A s \in task[w].restored : sub[s].st # "none"
      BY <1>1, <3>1 DEF RestoredOK
    <3>3. /\ Unique(trafo') /\ Unique(sub')
          /\ \A s \in Subs : sub[s].st # "none" => sub'[s].st # "none"
      <4>1. CASE UNCHANGED <<trafo, sub>>
        BY <1>1, <4>1
      <4>2. ASSUME NEW si \in Unused(Free(sub), Fresh(task[w])),
                   NEW ti \in Unused(Free(trafo), NewCodes(task[w])),
                   trafo' = WithLines(task[w], si, ti),
                   sub' = WithSubstations(task[w], si),
                   \A c \in Fresh(task[w]) : Holders(sub, c) = {}
            PROVE  /\ Unique(trafo') /\ Unique(sub')
                   /\ \A s \in Subs : sub[s].st # "none" => sub'[s].st # "none"
        BY <1>1, <3>1, <3>2, <4>2, LinesUnique, SubstationsUnique
      <4>. QED  BY <2>5, <4>1, <4>2, UpsertCases
    <3>4. RestoredOK'
      BY <1>1, <3>1, <3>3, IdleFacts, RestoredGoto
    <3>. QED  BY <1>1, <3>1, <3>3, <3>4
  <2>6. CASE /\ UNCHANGED <<trafo, sub, unit>>
             /\ \E u \in Task : Goto(w, u) /\ u.pc # "commit"
    BY <1>1, <1>4, <2>6
  <2>7. ASSUME \/ CreateTransformer(w) \/ LookupCode(w) \/ CreateTransformers(w)
               \/ UpdateTransformer(w) \/ LookupNewCode(w)
               \/ ImportTransformers(w) \/ ImportQuota(w)
        PROVE  /\ UNCHANGED <<trafo, sub, unit>>
               /\ \E u \in Task : Goto(w, u) /\ u.pc # "commit"
    <3>1. UNCHANGED <<trafo, sub, unit>>
      BY <2>7 DEF CreateTransformer, LookupCode, CreateTransformers,
                  UpdateTransformer, LookupNewCode, ImportTransformers, ImportQuota
    <3>2. t = task'[w]
      BY <1>1, <2>1, GotoFacts
    <3>3. task'[w].pc # "commit"
      <4>1. \A u : Goto(w, u) => task'[w] = u
        BY <1>1 DEF Goto, TypeOK
      <4>2. PICK u : Goto(w, u) /\ u.pc # "commit"
        <5>1. CASE Done(w)
          BY <5>1, IdleFacts DEF Done
        <5>2. CASE (LookupCode(w) \/ LookupNewCode(w)) /\ ~Done(w)
          <6>1. /\ At(w, "lookup") \/ At(w, "recode")
                /\ \/ Goto(w, [task[w] EXCEPT !.pc = "insert"])
                   \/ Goto(w, [task[w] EXCEPT !.pc = "write"])
            BY <5>2 DEF LookupCode, LookupNewCode
          <6>2. /\ [task[w] EXCEPT !.pc = "insert"].pc # "commit"
                /\ [task[w] EXCEPT !.pc = "write"].pc # "commit"
            BY <1>1, <6>1, TaskFacts
          <6>. QED  BY <6>1, <6>2
        <5>3. CASE \/ CreateTransformer(w) \/ CreateTransformers(w) \/ UpdateTransformer(w)
                   \/ ImportTransformers(w) \/ (ImportQuota(w) /\ ~Done(w))
          <6>1. CASE CreateTransformer(w)
            BY <6>1 DEF CreateTransformer
          <6>2. CASE CreateTransformers(w)
            BY <6>2 DEF CreateTransformers
          <6>3. CASE UpdateTransformer(w)
            <7>1. PICK r, e, copy :
                      Goto(w, [pc |-> IF e.field = "code" /\ e.to # trafo[r].code
                                      THEN "recode" ELSE "write",
                               row |-> r, field |-> e.field, copy |-> copy])
              BY <6>3 DEF UpdateTransformer
            <7>. QED  BY <7>1
          <6>4. CASE ImportTransformers(w)
            BY <6>4 DEF ImportTransformers
          <6>5. CASE ImportQuota(w) /\ ~Done(w)
            BY <6>5 DEF ImportQuota
          <6>. QED  BY <5>3, <6>1, <6>2, <6>3, <6>4, <6>5
        <5>. QED  BY <2>7, <5>1, <5>2, <5>3
      <4>. QED  BY <4>1, <4>2
    <3>. QED  BY <2>1, <3>1, <3>2, <3>3
  <2>. QED  BY <1>5, <2>2, <2>3, <2>4, <2>5, <2>6, <2>7 DEF TransformerStep
<1>6. ASSUME NEW w \in Workers, UnitStep(w)
      PROVE  Good
  <2>1. UNCHANGED <<trafo, sub>>
    BY <1>6, UnitRows
  <2>2. RestoredOK'
    <3>1. PICK t : Goto(w, t) /\ t.pc # "commit"
      <4>1. CASE Done(w)
        BY <4>1, IdleFacts DEF Done
      <4>2. CASE LookupUnit(w) /\ ~Done(w)
        <5>1. At(w, "unitLookup") /\ Goto(w, [task[w] EXCEPT !.pc = "unitInsert"])
          BY <4>2 DEF LookupUnit
        <5>2. [task[w] EXCEPT !.pc = "unitInsert"].pc # "commit"
          BY <1>1, <5>1, TaskFacts
        <5>. QED  BY <5>1, <5>2
      <4>3. CASE CreateUnit(w) \/ UpdateUnit(w) \/ ImportUnits(w)
        <5>1. CASE CreateUnit(w)
          BY <5>1 DEF CreateUnit
        <5>2. CASE ImportUnits(w)
          BY <5>2 DEF ImportUnits
        <5>3. CASE UpdateUnit(w)
          <6>1. PICK u, copy : Goto(w, [pc |-> "unitWrite", id |-> u, copy |-> copy])
            BY <5>3 DEF UpdateUnit
          <6>. QED  BY <6>1
        <5>. QED  BY <4>3, <5>1, <5>2, <5>3
      <4>. QED  BY <1>6, <4>1, <4>2, <4>3 DEF UnitStep, InsertUnit, WriteUnit, UpsertUnit
    <3>2. PICK u \in Task : Goto(w, u)
      BY <1>1, <1>6, UnitTasks
    <3>3. t = u
      BY <1>1, <3>1, <3>2 DEF Goto, TypeOK
    <3>. QED  BY <1>4, <2>1, <3>1, <3>2, <3>3
  <2>3. Unique(unit')
    <3>1. CASE UNCHANGED unit
      BY <1>1, <3>1
    <3>2. ASSUME CreateUnit(w) \/ LookupUnit(w) \/ UpdateUnit(w) \/ ImportUnits(w)
          PROVE  UNCHANGED unit
      BY <3>2 DEF CreateUnit, LookupUnit, UpdateUnit, ImportUnits
    <3>. QED  BY <1>1, <1>6, <3>1, <3>2, InsertUnitUnique DEF UnitStep
  <2>. QED  BY <1>1, <2>1, <2>2, <2>3
<1>7. ASSUME NEW r \in Rows, Delete(r)
      PROVE  Good
  <2>1. UNCHANGED <<task, sub, unit>> /\ trafo' = [trafo EXCEPT ![r].st = "deleted"]
        /\ r \in Live(trafo)
    BY <1>7 DEF Delete, Single
  <2>2. \A q \in Rows : /\ trafo'[q].code = trafo[q].code
                        /\ trafo'[q].st # "none" => trafo[q].st # "none"
    BY <1>1, <2>1, RowTypes DEF Row, Live
  <2>3. Unique(trafo')
    BY <1>1, <1>2, <2>1, <2>2, UniqueKept
  <2>. QED  BY <1>1, <2>1, <2>3, RestoredSame
<1>8. ASSUME NEW u \in Units, DeleteUnit(u)
      PROVE  Good
  <2>1. UNCHANGED <<task, sub, trafo>> /\ unit' = [unit EXCEPT ![u].st = "deleted"]
        /\ u \in Live(unit)
    BY <1>8 DEF DeleteUnit, Single
  <2>2. \A q \in Units : /\ unit'[q].code = unit[q].code
                         /\ unit'[q].st # "none" => unit[q].st # "none"
    BY <1>1, <2>1, RowTypes DEF Unit, Live
  <2>3. Unique(unit')
    BY <1>1, <1>2, <2>1, <2>2, UniqueKept
  <2>. QED  BY <1>1, <2>1, <2>3, RestoredSame
<1>9. ASSUME NEW s \in Subs, DeleteSubstation(s)
      PROVE  Good
  <2>1. /\ UNCHANGED <<task, unit>> /\ sub' = [sub EXCEPT ![s].st = "deleted"]
        /\ trafo' = [r \in Rows |-> Unlinked(trafo[r], s)] /\ s \in Live(sub)
    BY <1>9 DEF DeleteSubstation, Single
  <2>2. \A q \in Subs : /\ sub'[q].code = sub[q].code
                        /\ sub'[q].st # "none" <=> sub[q].st # "none"
    BY <1>1, <2>1, RowTypes DEF Substation, Live
  <2>3. \A r \in Rows : trafo'[r].code = trafo[r].code /\ trafo'[r].st = trafo[r].st
    BY <1>1, <2>1, RowTypes DEF Unlinked, Row
  <2>4. Unique(trafo')
    BY <1>1, <1>2, <2>1, <2>3, UniqueKept
  <2>5. Unique(sub')
    BY <1>1, <1>2, <2>1, <2>2, UniqueKept
  <2>. QED  BY <1>1, <2>1, <2>2, <2>4, <2>5, RestoredSame
<1>10. ASSUME NEW s \in Subs, NEW c \in SubCodes, CreateSubstation(s, c)
       PROVE  Good
  <2> DEFINE row == [st |-> "live", code |-> c]
  <2>1. /\ UNCHANGED <<task, trafo, unit>> /\ sub' = [sub EXCEPT ![s] = row]
        /\ Holders(sub, row.code) = {}
    BY <1>10 DEF CreateSubstation, Single
  <2>2. row.st # "none"
    OBVIOUS
  <2> HIDE DEF row
  <2>3. Unique(sub')
    BY <1>1, <1>2, <2>1, UniqueRow
  <2>. QED  BY <1>1, <1>2, <2>1, <2>2, <2>3, RestoredSame
<1>11. ASSUME NEW s \in Subs, NEW c \in SubCodes, UpdateSubstation(s, c)
       PROVE  Good
  <2> DEFINE row == [sub[s] EXCEPT !.code = c]
  <2>1. /\ UNCHANGED <<task, trafo, unit>> /\ sub' = [sub EXCEPT ![s] = row]
        /\ Holders(sub, c) \subseteq {s}
    BY <1>11 DEF UpdateSubstation, Single
  <2>2. row.st = sub[s].st /\ row.code = c
    BY <1>1, RowTypes DEF Substation
  <2> HIDE DEF row
  <2>3. Unique(sub')
    BY <1>1, <1>2, <2>1, <2>2, UniqueRow
  <2>. QED  BY <1>1, <1>2, <2>1, <2>2, <2>3, RestoredSame
<1>12. CASE UNCHANGED vars
  BY <1>3, <1>12 DEF vars, UniqueInv, CodesAreUnique
<1>13. CASE Next
  <2>1. Good
    BY <1>5, <1>6, <1>7, <1>8, <1>9, <1>10, <1>11, <1>13 DEF Next
  <2>. QED  BY <2>1 DEF UniqueInv, CodesAreUnique
<1>. QED  BY <1>12, <1>13

(* Tables and tasks are well typed and, however creations, renamings,      *)
(* restorations and imports overlap, no two rows of a table share a code,  *)
(* removed rows included.                                                  *)
THEOREM TablesStayRight == Spec => []TablesAreRight
<1>1. Init => TypeInv /\ UniqueInv
  BY InvInit DEF Inv
<1>2. TypeInv /\ UniqueInv => TablesAreRight
  BY DEF TypeInv, UniqueInv, TablesAreRight
<1>3. QED  BY <1>1, <1>2, TypeStep, UniqueStep, PTL DEF Spec

-----------------------------------------------------------------------------
(* Removed rows.                                                           *)

LEMMA DeletedStep == TypeInv /\ [Next]_vars => DeletedStays
<1> SUFFICES ASSUME TypeInv, [Next]_vars PROVE DeletedStays
  OBVIOUS
<1>1. TypeOK
  BY DEF TypeInv
<1>2. ASSUME NEW w \in Workers, TransformerStep(w)
      PROVE  DeletedStays
  <2> SUFFICES ASSUME NEW r \in Rows, trafo[r].st = "deleted", trafo'[r].st # "deleted"
               PROVE  ImportsNow("commit", trafo[r].code)
    BY <1>2, TransformerRows DEF DeletedStays
  <2>1. CASE Insert(w)
    <3>1. PICK id : \/ UNCHANGED trafo
                    \/ /\ id \in Unused(Free(trafo), {x.code : x \in task[w].items})
                       /\ trafo' = WithItems(task[w].items, id)
      BY <2>1 DEF Insert
    <3>2. task[w].items \in SUBSET Item
      BY <1>1, <2>1, TaskFacts DEF Insert
    <3>3. r \in Free(trafo) \/ trafo'[r] = trafo[r]
      <4>1. ASSUME id \in Unused(Free(trafo), {x.code : x \in task[w].items}),
                   trafo' = WithItems(task[w].items, id)
            PROVE  r \in Free(trafo) \/ WithItems(task[w].items, id)[r] = trafo[r]
        BY <1>1, <3>2, <4>1, WithItemsFacts
      <4>. QED  BY <3>1, <4>1
    <3>. QED  BY <3>3 DEF Free
  <2>2. CASE Update(w)
    <3>1. task[w].row \in Rows /\ task[w].copy \in Row
      BY <1>1, <2>2, TaskFacts DEF Update
    <3> DEFINE row == Written(trafo[task[w].row], task[w].copy)
    <3>2. row.st = trafo[task[w].row].st
      BY <1>1, <3>1, WrittenType, RowTypes
    <3>3. UNCHANGED trafo \/ trafo' = [trafo EXCEPT ![task[w].row] = row]
      BY <2>2 DEF Update
    <3> HIDE DEF row
    <3>. QED  BY <1>1, <3>1, <3>2, <3>3, RowTypes
  <2>3. CASE UpsertByCode(w)
    <3>1. At(w, "commit") /\ FoundAll(task[w])
      BY <2>3, UpsertCases DEF TypeInv
    <3>2. PICK si, ti :
             /\ si \in Unused(Free(sub), Fresh(task[w]))
             /\ ti \in Unused(Free(trafo), NewCodes(task[w]))
             /\ trafo' = WithLines(task[w], si, ti)
      BY <2>3, UpsertCases
    <3>3. PICK x \in task[w].file : RowOf(ti, x.code) = r
      BY <1>1, <3>1, <3>2, WithLinesFacts
    <3>4. r \in Holders(trafo, x.code)
      BY <1>1, <3>2, <3>3, RowOfFacts DEF Free
    <3>5. trafo[r].code = x.code
      BY <3>4 DEF Holders
    <3>. QED  BY <3>1, <3>3, <3>5 DEF ImportsNow
  <2>4. ASSUME \/ CreateTransformer(w) \/ LookupCode(w) \/ CreateTransformers(w)
               \/ UpdateTransformer(w) \/ LookupNewCode(w)
               \/ ImportTransformers(w) \/ ImportQuota(w) \/ GetOrCreateByCode(w)
        PROVE  UNCHANGED trafo
    BY <2>4 DEF CreateTransformer, LookupCode, CreateTransformers, UpdateTransformer,
                LookupNewCode, ImportTransformers, ImportQuota, GetOrCreateByCode
  <2>. QED  BY <1>2, <2>1, <2>2, <2>3, <2>4 DEF TransformerStep
<1>3. ASSUME NEW w \in Workers, UnitStep(w)
      PROVE  DeletedStays
  <2> SUFFICES ASSUME NEW u \in Units, unit[u].st = "deleted", unit'[u].st # "deleted"
               PROVE  ImportsNow("unitUpsert", unit[u].code)
    BY <1>3, UnitRows DEF DeletedStays
  <2>1. CASE InsertUnit(w)
    <3>1. PICK v, row : UNCHANGED unit \/ (v \in Free(unit) /\ unit' = [unit EXCEPT ![v] = row])
      BY <2>1 DEF InsertUnit
    <3>. QED  BY <1>1, <3>1, RowTypes DEF Free
  <2>2. CASE WriteUnit(w)
    <3>1. task[w].id \in Units /\ task[w].copy \in Unit
      BY <1>1, <2>2, TaskFacts DEF WriteUnit
    <3> DEFINE row == Written(unit[task[w].id], task[w].copy)
    <3>2. row.st = unit[task[w].id].st
      BY <1>1, <3>1, WrittenType, RowTypes
    <3>3. UNCHANGED unit \/ unit' = [unit EXCEPT ![task[w].id] = row]
      BY <2>2 DEF WriteUnit
    <3> HIDE DEF row
    <3>. QED  BY <1>1, <3>1, <3>2, <3>3, RowTypes
  <2>3. CASE UpsertUnit(w)
    <3> DEFINE h == Holders(unit, task[w].code)
    <3>1. PICK v, row : /\ v \in IF h = {} THEN Free(unit) ELSE h
                        /\ unit' = [unit EXCEPT ![v] = row]
      BY <2>3 DEF UpsertUnit
    <3>2. v = u
      BY <1>1, <3>1, RowTypes
    <3>3. unit[u].code = task[w].code
      BY <3>1, <3>2 DEF Free, Holders
    <3>. QED  BY <2>3, <3>3 DEF UpsertUnit, ImportsNow
  <2>4. ASSUME CreateUnit(w) \/ LookupUnit(w) \/ UpdateUnit(w) \/ ImportUnits(w)
        PROVE  UNCHANGED unit
    BY <2>4 DEF CreateUnit, LookupUnit, UpdateUnit, ImportUnits
  <2>. QED  BY <1>3, <2>1, <2>2, <2>3, <2>4 DEF UnitStep
<1>4. ASSUME UNCHANGED <<trafo, unit>>
      PROVE  DeletedStays
  BY <1>4 DEF DeletedStays
<1>5. ASSUME NEW r \in Rows, Delete(r)
      PROVE  DeletedStays
  <2>1. UNCHANGED unit /\ trafo' = [trafo EXCEPT ![r].st = "deleted"]
    BY <1>5 DEF Delete
  <2>2. \A q \in Rows : trafo'[q].st = "deleted" \/ trafo'[q] = trafo[q]
    BY <1>1, <2>1, RowTypes DEF Row
  <2>. QED  BY <2>1, <2>2 DEF DeletedStays
<1>6. ASSUME NEW u \in Units, DeleteUnit(u)
      PROVE  DeletedStays
  <2>1. UNCHANGED trafo /\ unit' = [unit EXCEPT ![u].st = "deleted"]
    BY <1>6 DEF DeleteUnit
  <2>2. \A q \in Units : unit'[q].st = "deleted" \/ unit'[q] = unit[q]
    BY <1>1, <2>1, RowTypes DEF Unit
  <2>. QED  BY <2>1, <2>2 DEF DeletedStays
<1>7. ASSUME NEW s \in Subs, DeleteSubstation(s)
      PROVE  DeletedStays
  <2>1. UNCHANGED unit /\ trafo' = [r \in Rows |-> Unlinked(trafo[r], s)]
    BY <1>7 DEF DeleteSubstation
  <2>2. \A r \in Rows : trafo'[r].st = trafo[r].st
    BY <1>1, <2>1, RowTypes DEF Unlinked, Row
  <2>. QED  BY <2>1, <2>2 DEF DeletedStays
<1>8. ASSUME NEW s \in Subs, NEW c \in SubCodes,
             CreateSubstation(s, c) \/ UpdateSubstation(s, c)
      PROVE  DeletedStays
  BY <1>4, <1>8 DEF CreateSubstation, UpdateSubstation
<1>9. CASE UNCHANGED vars
  BY <1>4, <1>9 DEF vars
<1>. QED  BY <1>2, <1>3, <1>5, <1>6, <1>7, <1>8, <1>9 DEF Next

(* A removed row comes back through an import of its code only, also when  *)
(* an update that is under way read it before it was removed.              *)
THEOREM RemovedRowsStay == Spec => RemovedStays
<1>1. Init => TypeInv
  BY InvInit DEF Inv
<1>2. TypeInv /\ [Next]_vars => [DeletedStays]_vars
  BY DeletedStep
<1>3. QED  BY <1>1, <1>2, TypeStep, PTL DEF Spec, RemovedStays

-----------------------------------------------------------------------------
(* One operation after the other.                                          *)

(* Operations that read: what the task then says was so when it was read.  *)
LEMMA ReadingTasks ==
    ASSUME TypeInv, TypedInv, NEW w \in Workers,
           \/ CreateTransformer(w) \/ LookupCode(w) \/ CreateTransformers(w)
           \/ UpdateTransformer(w) \/ LookupNewCode(w)
           \/ ImportTransformers(w) \/ ImportQuota(w) \/ GetOrCreateByCode(w)
    PROVE  /\ UNCHANGED <<trafo, sub, unit>>
           /\ \E t : /\ Goto(w, t) /\ Typed(t)
                     /\ TaskOK(task[w]) => TaskOK(t)
<1>1. TypeOK /\ Typed(task[w])
  BY DEF TypeInv, TypedInv
<1>2. UNCHANGED <<trafo, sub, unit>>
  BY DEF CreateTransformer, LookupCode, CreateTransformers, UpdateTransformer,
         LookupNewCode, ImportTransformers, ImportQuota, GetOrCreateByCode
<1>3. CASE Done(w)
  BY <1>2, <1>3, IdleFacts DEF Done
<1>4. CASE CreateTransformer(w)
  <2>1. PICK c \in typed, s \in Known :
            Goto(w, [pc |-> "lookup", items |-> {[code |-> c, sub |-> s]}])
    BY <1>4 DEF CreateTransformer
  <2> DEFINE item == [code |-> c, sub |-> s]
             t == [pc |-> "lookup", items |-> {item}]
  <2>2. item.code = c /\ item.sub = s
    OBVIOUS
  <2>3. t.pc = "lookup" /\ t.items = {item} /\ Goto(w, t)
    BY <2>1
  <2> HIDE DEF item, t
  <2>4. IsFiniteSet({item}) /\ Cardinality({item}) = 1
    BY FS_Singleton
  <2>5. Typed(t) /\ TaskOK(t)
    BY <1>4, <2>2, <2>3, <2>4 DEF Typed, TaskOK, CreateTransformer
  <2>. QED  BY <1>2, <2>3, <2>5
<1>5. CASE LookupCode(w) /\ ~Done(w)
  <2> DEFINE t == [task[w] EXCEPT !.pc = "insert"]
  <2>1. At(w, "lookup") /\ Goto(w, t)
    BY <1>5 DEF LookupCode
  <2>2. t.pc = "insert" /\ t.items = task[w].items
    BY <1>1, <2>1, TaskFacts
  <2> HIDE DEF t
  <2>3. Typed(t) /\ (TaskOK(task[w]) => TaskOK(t))
    BY <1>1, <2>1, <2>2 DEF Typed, TaskOK, At
  <2>. QED  BY <1>2, <2>1, <2>3
<1>6. CASE CreateTransformers(w)
  <2>1. PICK items \in SUBSET [code : typed, sub : Known] :
            /\ Distinct(items) /\ CheckTransformerQuota(Cardinality(items))
            /\ Goto(w, [pc |-> "insert", items |-> items])
    BY <1>6 DEF CreateTransformers
  <2> DEFINE t == [pc |-> "insert", items |-> items]
  <2>2. t.pc = "insert" /\ t.items = items /\ Goto(w, t)
    BY <2>1
  <2> HIDE DEF t
  <2>3. \A x \in items : x.code \in typed
    OBVIOUS
  <2>4. Typed(t) /\ TaskOK(t)
    BY <2>1, <2>2, <2>3 DEF Typed, TaskOK, Distinct
  <2>. QED  BY <1>2, <2>2, <2>4
<1>7. CASE UpdateTransformer(w)
  <2>1. PICK r \in Live(trafo), e \in Edit :
            Goto(w, [pc |-> IF e.field = "code" /\ e.to # trafo[r].code
                            THEN "recode" ELSE "write",
                     row |-> r, field |-> e.field,
                     copy |-> [trafo[r] EXCEPT ![e.field] = e.to]])
    BY <1>7 DEF UpdateTransformer
  <2> DEFINE copy == [trafo[r] EXCEPT ![e.field] = e.to]
             pc == IF e.field = "code" /\ e.to # trafo[r].code THEN "recode" ELSE "write"
             t == [pc |-> pc, row |-> r, field |-> e.field, copy |-> copy]
  <2>2. t.pc = pc /\ t.row = r /\ t.field = e.field /\ t.copy = copy /\ Goto(w, t)
    BY <2>1
  <2>3. pc \in {"recode", "write"}
    OBVIOUS
  <2>4. r \in Rows /\ trafo[r] \in Row /\ trafo[r].st = "live"
    BY <1>1, RowTypes DEF Live
  <2>5. copy.code = trafo[r].code \/ copy.code \in typed
    BY <1>1, <2>4, EditType
  <2>6. e.field # "sub" => copy.sub = trafo[r].sub
    BY <1>1, <2>4, EditType
  <2> HIDE DEF copy, pc, t
  <2>7. copy.code \in typed
    BY <2>4, <2>5 DEF TypedInv
  <2>8. Typed(t) /\ TaskOK(t)
    BY <2>2, <2>3, <2>6, <2>7 DEF Typed, TaskOK
  <2>. QED  BY <1>2, <2>2, <2>8
<1>8. CASE LookupNewCode(w) /\ ~Done(w)
  <2> DEFINE t == [task[w] EXCEPT !.pc = "write"]
  <2>1. At(w, "recode") /\ Goto(w, t)
    BY <1>8 DEF LookupNewCode
  <2>2. /\ t.pc = "write" /\ t.row = task[w].row
        /\ t.field = task[w].field /\ t.copy = task[w].copy
    BY <1>1, <2>1, TaskFacts
  <2> HIDE DEF t
  <2>3. Typed(t) /\ (TaskOK(task[w]) => TaskOK(t))
    BY <1>1, <2>1, <2>2 DEF Typed, TaskOK, At
  <2>. QED  BY <1>2, <2>1, <2>3
<1>9. CASE ImportTransformers(w)
  <2>1. PICK file \in SUBSET [code : typed, sub : SubCodes \cup {NoSub}] :
            /\ Distinct(file)
            /\ Goto(w, [pc |-> "quota", file |-> file,
                        new |-> Cardinality(NewLines(file))])
    BY <1>9 DEF ImportTransformers
  <2> DEFINE t == [pc |-> "quota", file |-> file, new |-> Cardinality(NewLines(file))]
  <2>2. /\ t.pc = "quota" /\ t.file = file /\ t.new = Cardinality(NewLines(file))
        /\ Goto(w, t)
    BY <2>1
  <2> HIDE DEF t
  <2>3. \A x \in file : x.code \in typed
    OBVIOUS
  <2>4. Typed(t) /\ TaskOK(t)
    BY <2>1, <2>2, <2>3 DEF Typed, TaskOK, Distinct
  <2>. QED  BY <1>2, <2>2, <2>4
<1>10. CASE ImportQuota(w) /\ ~Done(w)
  <2> DEFINE t == [pc |-> "resolve", file |-> task[w].file]
  <2>1. /\ At(w, "quota") /\ Goto(w, t) /\ CheckTransformerQuota(task[w].new)
        /\ t.pc = "resolve" /\ t.file = task[w].file
    BY <1>10 DEF ImportQuota
  <2> HIDE DEF t
  <2>2. Typed(t) /\ (TaskOK(task[w]) => TaskOK(t))
    BY <1>1, <2>1 DEF Typed, TaskOK, At
  <2>. QED  BY <1>2, <2>1, <2>2
<1>11. CASE GetOrCreateByCode(w)
  <2> DEFINE codes == {x.sub : x \in task[w].file} \ {NoSub}
             found == [c \in codes |-> SubstationOf(c)]
             back == {s \in {found[c] : c \in codes} \ {NoSub} : sub[s].st = "deleted"}
             t == [pc |-> "commit", file |-> task[w].file, found |-> found,
                   restored |-> back]
  <2>1. /\ At(w, "resolve") /\ Goto(w, t) /\ t.pc = "commit" /\ t.file = task[w].file
        /\ t.found = found /\ t.restored = back /\ DOMAIN found = codes
    BY <1>11 DEF GetOrCreateByCode
  <2>2. \A c \in codes : found[c] # NoSub => found[c] \in Live(sub) \cup back
    <3> SUFFICES ASSUME NEW c \in codes, found[c] # NoSub
                 PROVE  found[c] \in Live(sub) \cup back
      OBVIOUS
    <3>1. found[c] = SubstationOf(c)
      OBVIOUS
    <3>2. found[c] \in Holders(sub, c)
      BY <3>1 DEF SubstationOf
    <3>3. sub[found[c]].st \in {"live", "deleted"} /\ found[c] \in DOMAIN sub
      BY <1>1, <3>2, RowTypes DEF Holders, Stored
    <3>4. sub[found[c]].st = "deleted" => found[c] \in back
      OBVIOUS
    <3> HIDE DEF found, back
    <3>. QED  BY <3>3, <3>4 DEF Live
  <2> HIDE DEF codes, found, back, t
  <2>3. Typed(t) /\ (TaskOK(task[w]) => TaskOK(t))
    BY <1>1, <2>1, <2>2 DEF Typed, TaskOK, At
  <2>. QED  BY <1>2, <2>1, <2>3
<1>. QED
  BY <1>3, <1>4, <1>5, <1>6, <1>7, <1>8, <1>9, <1>10, <1>11
     DEF LookupCode, LookupNewCode, ImportQuota

LEMMA UnitTyped ==
    ASSUME TypeInv, NEW w \in Workers, UnitStep(w)
    PROVE  \E t : Goto(w, t) /\ Typed(t) /\ TaskOK(t)
  <1> DEFINE Other == {"idle", "unitLookup", "unitInsert", "unitUpsert", "unitWrite"}
  <1>1. TypeOK
    BY DEF TypeInv
  <1>2. PICK t : Goto(w, t) /\ t.pc \in Other
    <2>1. CASE Done(w)
      BY <2>1, IdleFacts DEF Done
    <2>2. CASE LookupUnit(w) /\ ~Done(w)
      <3>1. At(w, "unitLookup") /\ Goto(w, [task[w] EXCEPT !.pc = "unitInsert"])
        BY <2>2 DEF LookupUnit
      <3>2. [task[w] EXCEPT !.pc = "unitInsert"].pc = "unitInsert"
        BY <1>1, <3>1, TaskFacts
      <3>. QED  BY <3>1, <3>2
    <2>3. CASE CreateUnit(w)
      BY <2>3 DEF CreateUnit
    <2>4. CASE ImportUnits(w)
      BY <2>4 DEF ImportUnits
    <2>5. CASE UpdateUnit(w)
      <3>1. PICK u, copy : Goto(w, [pc |-> "unitWrite", id |-> u, copy |-> copy])
        BY <2>5 DEF UpdateUnit
      <3>. QED  BY <3>1
    <2>. QED  BY <2>1, <2>2, <2>3, <2>4, <2>5 DEF UnitStep, InsertUnit, WriteUnit, UpsertUnit
  <1>3. Typed(t) /\ TaskOK(t)
    BY <1>2 DEF Typed, TaskOK
  <1>. QED  BY <1>2, <1>3

LEMMA TypedStep == TypeInv /\ TypedInv /\ [Next]_vars => TypedInv'
<1> SUFFICES ASSUME TypeInv, TypedInv, [Next]_vars PROVE TypedInv'
  OBVIOUS
<1>1. TypeOK
  BY DEF TypeInv
<1> DEFINE RowsTyped == \A r \in Rows : trafo'[r].st # "none" => trafo'[r].code \in typed
<1>2. ASSUME \A r \in Rows : /\ trafo'[r].code = trafo[r].code
                             /\ trafo'[r].st # "none" => trafo[r].st # "none"
      PROVE  RowsTyped
  BY <1>2 DEF TypedInv
<1>3. ASSUME NEW w \in Workers, NEW t, Goto(w, t), Typed(t), typed' = typed
      PROVE  \A v \in Workers : Typed(task[v])'
  <2>1. task'[w] = t /\ \A v \in Workers \ {w} : task'[v] = task[v]
    BY <1>1, <1>3 DEF Goto, TypeOK
  <2>. QED  BY <1>3, <2>1 DEF TypedInv, Typed
<1>4. ASSUME UNCHANGED <<task, typed>>
      PROVE  \A v \in Workers : Typed(task[v])'
  BY <1>4 DEF TypedInv, Typed
<1>5. ASSUME NEW w \in Workers, TransformerStep(w), typed' = typed
      PROVE  RowsTyped /\ \A v \in Workers : Typed(task[v])'
  <2>1. CASE \/ CreateTransformer(w) \/ LookupCode(w) \/ CreateTransformers(w)
             \/ UpdateTransformer(w) \/ LookupNewCode(w)
             \/ ImportTransformers(w) \/ ImportQuota(w) \/ GetOrCreateByCode(w)
    <3>1. UNCHANGED trafo /\ \E t : Goto(w, t) /\ Typed(t)
      BY <2>1, ReadingTasks
    <3>2. RowsTyped
      BY <1>2, <3>1
    <3>. QED  BY <1>3, <1>5, <3>1, <3>2
  <2>2. CASE Done(w) /\ RowsTyped
    BY <1>3, <1>5, <2>2, IdleFacts DEF Done
  <2>3. CASE Insert(w)
    <3>1. /\ At(w, "insert") /\ task[w].items \in SUBSET Item
          /\ \A x \in task[w].items : x.code \in typed
      BY <1>1, <2>3, TaskFacts DEF Insert, TypedInv, Typed, At
    <3>2. CASE UNCHANGED trafo
      BY <1>2, <2>2, <2>3, <3>2 DEF Insert
    <3>3. ASSUME NEW id \in Unused(Free(trafo), {x.code : x \in task[w].items}),
                 trafo' = WithItems(task[w].items, id)
          PROVE  RowsTyped
      <4> SUFFICES ASSUME NEW r \in Rows, trafo'[r].st # "none"
                   PROVE  trafo'[r].code \in typed
        OBVIOUS
      <4>1. \/ WithItems(task[w].items, id)[r] = trafo[r]
            \/ \E x \in task[w].items : WithItems(task[w].items, id)[r] = Inserted(x)
        BY <1>1, <3>1, WithItemsFacts
      <4>2. trafo'[r] = trafo[r] \/ \E x \in task[w].items : trafo'[r] = Inserted(x)
        BY <3>3, <4>1
      <4>. QED  BY <3>1, <4>2, InsertedType DEF TypedInv
    <3>. QED  BY <2>2, <2>3, <3>2, <3>3 DEF Insert
  <2>4. CASE Update(w)
    <3>1. /\ task[w].row \in Rows /\ task[w].copy \in Row
          /\ task[w].copy.code \in typed
      BY <1>1, <2>4, TaskFacts DEF Update, TypedInv, Typed, At
    <3> DEFINE row == Written(trafo[task[w].row], task[w].copy)
    <3>2. row.code = task[w].copy.code
      BY <1>1, <3>1, WrittenType, RowTypes
    <3>3. UNCHANGED trafo \/ trafo' = [trafo EXCEPT ![task[w].row] = row]
      BY <2>4 DEF Update
    <3> HIDE DEF row
    <3>4. RowsTyped
      BY <1>1, <3>1, <3>2, <3>3, RowTypes DEF TypedInv
    <3>. QED  BY <2>2, <2>4, <3>4 DEF Update
  <2>5. CASE UpsertByCode(w)
    <3>1. At(w, "commit") /\ FoundAll(task[w]) /\ Done(w)
      BY <2>5, UpsertCases DEF TypeInv
    <3>2. \A x \in task[w].file : x.code \in typed /\ x.code \in Codes
      BY <1>1, <3>1, TaskFacts DEF TypedInv, Typed, At, Line
    <3>3. CASE UNCHANGED trafo
      BY <1>2, <2>2, <3>1, <3>3
    <3>4. ASSUME NEW si \in Unused(Free(sub), Fresh(task[w])),
                 NEW ti \in Unused(Free(trafo), NewCodes(task[w])),
                 trafo' = WithLines(task[w], si, ti)
          PROVE  RowsTyped
      <4> SUFFICES ASSUME NEW r \in Rows, trafo'[r].st # "none"
                   PROVE  trafo'[r].code \in typed
        OBVIOUS
      <4>1. CASE trafo'[r] = trafo[r]
        BY <4>1 DEF TypedInv
      <4>2. ASSUME NEW x \in task[w].file,
                   trafo'[r] = Upserted(trafo[r], x.code, SubOf(task[w], si, x.sub))
            PROVE  trafo'[r].code \in typed
        <5>1. SubOf(task[w], si, x.sub) \in Subs \cup {NoSub}
          BY <1>1, <3>1, SubOfFacts
        <5>2. trafo'[r].code = x.code
          BY <1>1, <3>2, <4>2, <5>1, UpsertedType, RowTypes
        <5>. QED  BY <3>2, <5>2
      <4>3. \/ WithLines(task[w], si, ti)[r] = trafo[r]
            \/ \E x \in task[w].file :
                  WithLines(task[w], si, ti)[r] =
                      Upserted(trafo[r], x.code, SubOf(task[w], si, x.sub))
        BY <1>1, <3>1, WithLinesFacts
      <4>. QED  BY <3>4, <4>1, <4>2, <4>3
    <3>. QED  BY <2>2, <2>5, <3>1, <3>3, <3>4, UpsertCases
  <2>. QED  BY <1>5, <2>1, <2>3, <2>4, <2>5 DEF TransformerStep
<1>6. ASSUME NEW w \in Workers, UnitStep(w), typed' = typed
      PROVE  RowsTyped /\ \A v \in Workers : Typed(task[v])'
  BY <1>2, <1>3, <1>6, UnitTyped, UnitRows
<1>7. ASSUME NEW r \in Rows, Delete(r)
      PROVE  RowsTyped /\ UNCHANGED task
  <2>1. UNCHANGED task /\ trafo' = [trafo EXCEPT ![r].st = "deleted"] /\ r \in Live(trafo)
    BY <1>7 DEF Delete, Single
  <2>2. \A q \in Rows : /\ trafo'[q].code = trafo[q].code
                        /\ trafo'[q].st # "none" => trafo[q].st # "none"
    BY <1>1, <2>1, RowTypes DEF Row, Live
  <2>. QED  BY <1>2, <2>1, <2>2
<1>8. ASSUME NEW s \in Subs, DeleteSubstation(s)
      PROVE  RowsTyped /\ UNCHANGED task
  <2>1. UNCHANGED task /\ trafo' = [r \in Rows |-> Unlinked(trafo[r], s)]
    BY <1>8 DEF DeleteSubstation, Single
  <2>2. \A r \in Rows : trafo'[r].code = trafo[r].code /\ trafo'[r].st = trafo[r].st
    BY <1>1, <2>1, RowTypes DEF Unlinked, Row
  <2>. QED  BY <1>2, <2>1, <2>2
<1>9. ASSUME UNCHANGED <<task, trafo>>
      PROVE  RowsTyped /\ UNCHANGED task
  BY <1>2, <1>9
<1>10. CASE UNCHANGED vars
  BY <1>4, <1>9, <1>10 DEF vars, TypedInv
<1>11. CASE Next
  <2>1. typed' = typed
    BY <1>11 DEF Next
  <2>2. CASE \E w \in Workers : TransformerStep(w) \/ UnitStep(w)
    BY <1>5, <1>6, <2>1, <2>2 DEF TypedInv
  <2>3. CASE RowsTyped /\ UNCHANGED task
    BY <1>4, <2>1, <2>3 DEF TypedInv
  <2>4. ASSUME NEW s \in Subs, NEW c \in SubCodes,
               CreateSubstation(s, c) \/ UpdateSubstation(s, c)
        PROVE  UNCHANGED <<task, trafo>>
    BY <2>4 DEF CreateSubstation, UpdateSubstation, Single
  <2>5. ASSUME NEW u \in Units, DeleteUnit(u)
        PROVE  UNCHANGED <<task, trafo>>
    BY <2>5 DEF DeleteUnit, Single
  <2>. QED  BY <1>7, <1>8, <1>9, <1>11, <2>2, <2>3, <2>4, <2>5 DEF Next
<1>. QED  BY <1>10, <1>11

(* The set B has at most one element for each of S besides those of A.     *)
LEMMA QuotaGrows ==
    ASSUME NEW A, IsFiniteSet(A), NEW S, IsFiniteSet(S), NEW f, DOMAIN f = S,
           NEW B, \A b \in B : b \in A \/ \E s \in S : f[s] = b
    PROVE  Cardinality(B) \in Nat /\ Cardinality(B) <= Cardinality(A) + Cardinality(S)
  <1> DEFINE T == {f[s] : s \in S}
             g == [s \in S |-> f[s]]
  <1>1. g \in Surjection(S, T)
    BY DEF Surjection
  <1>2. IsFiniteSet(T) /\ Cardinality(T) <= Cardinality(S)
    BY <1>1, FS_Surjection
  <1>3. B \in SUBSET (A \cup T)
    OBVIOUS
  <1> HIDE DEF T
  <1>4. /\ IsFiniteSet(A \cup T)
        /\ Cardinality(A \cup T) = Cardinality(A) + Cardinality(T) - Cardinality(A \cap T)
    BY <1>2, FS_Union
  <1>5. IsFiniteSet(B) /\ Cardinality(B) <= Cardinality(A \cup T)
    BY <1>3, <1>4, FS_Subset
  <1>6. IsFiniteSet(A \cap T)
    BY FS_Intersection
  <1>7. /\ Cardinality(A) \in Nat /\ Cardinality(T) \in Nat /\ Cardinality(S) \in Nat
        /\ Cardinality(B) \in Nat /\ Cardinality(A \cap T) \in Nat
        /\ Cardinality(A \cup T) \in Nat
    BY <1>2, <1>4, <1>5, <1>6, FS_CardinalityType
  <1>. QED  BY <1>2, <1>4, <1>5, <1>7, SMT

(* What fits into the plan leaves it within its limit.                     *)
LEMMA QuotaKept ==
    ASSUME TypeOK, NEW S, IsFiniteSet(S), CheckTransformerQuota(Cardinality(S)),
           NEW f, DOMAIN f = S,
           \A r \in Live(trafo)' : r \in Live(trafo) \/ \E s \in S : f[s] = r
    PROVE  WithinQuota'
  <1>1. IsFiniteSet(Live(trafo))
    <2>1. Live(trafo) \in SUBSET Rows
      BY RowTypes DEF Live
    <2>. QED  BY <2>1, RegistryAssumption, FS_Subset
  <1>2. /\ Cardinality(Live(trafo)') \in Nat
        /\ Cardinality(Live(trafo)') <= Cardinality(Live(trafo)) + Cardinality(S)
    BY <1>1, QuotaGrows
  <1>3. Cardinality(Live(trafo)) \in Nat /\ Cardinality(S) \in Nat
    BY <1>1, FS_CardinalityType
  <1>4. MaxTransformers = 0 \/ Cardinality(Live(trafo)) + Cardinality(S) <= MaxTransformers
    BY DEF CheckTransformerQuota
  <1>5. MaxTransformers > 0 => Cardinality(Live(trafo)') <= MaxTransformers
    BY <1>2, <1>3, <1>4, RegistryAssumption, SMT
  <1>. QED  BY <1>5 DEF WithinQuota

LEMMA QuotaLess ==
    ASSUME TypeOK, WithinQuota, Live(trafo)' \subseteq Live(trafo)
    PROVE  WithinQuota'
  <1>1. Live(trafo) \in SUBSET Rows
    BY RowTypes DEF Live
  <1>2. IsFiniteSet(Live(trafo))
    BY <1>1, RegistryAssumption, FS_Subset
  <1>3. IsFiniteSet(Live(trafo)') /\ Cardinality(Live(trafo)') <= Cardinality(Live(trafo))
    BY <1>2, FS_Subset
  <1>4. Cardinality(Live(trafo)') \in Nat /\ Cardinality(Live(trafo)) \in Nat
    BY <1>2, <1>3, FS_CardinalityType
  <1>5. MaxTransformers > 0 => Cardinality(Live(trafo)') <= MaxTransformers
    BY <1>3, <1>4, RegistryAssumption, SMT DEF WithinQuota
  <1>. QED  BY <1>5 DEF WithinQuota

(* Nobody else is at work when a worker takes a step.                      *)
LEMMA OthersRest ==
    ASSUME TypeInv, AtMostOne, OneAtATime, NEW w \in Workers,
           TransformerStep(w) \/ UnitStep(w)
    PROVE  \A v \in Workers \ {w} : task[v] = Idle
<1>1. TypeOK /\ ops \in Nat
  BY RegistryAssumption, SMT DEF TypeInv, TypeOK
<1>2. CASE task[w] # Idle
  BY <1>2 DEF AtMostOne
<1>3. CASE task[w] = Idle
  <2>1. ops' = ops + 1
    BY <1>3 DEF TransformerStep, UnitStep, CreateTransformer, LookupCode,
        CreateTransformers, Insert, UpdateTransformer, LookupNewCode, Update,
        ImportTransformers, ImportQuota, GetOrCreateByCode, UpsertByCode,
        CreateUnit, LookupUnit, InsertUnit, UpdateUnit, WriteUnit,
        ImportUnits, UpsertUnit, Begin, At, Idle
  <2>2. ops' # ops
    BY <1>1, <2>1, SMT
  <2>. QED  BY <2>2 DEF OneAtATime
<1>. QED  BY <1>2, <1>3

(* Nobody is when a request of one statement is served.                    *)
LEMMA AllRest ==
    ASSUME TypeInv, OneAtATime, NEW kind, Single(kind)
    PROVE  (\A v \in Workers : task[v] = Idle) /\ UNCHANGED task
  <1>1. ops \in Nat /\ ops' = ops + 1 /\ UNCHANGED task
    BY RegistryAssumption, SMT DEF TypeInv, TypeOK, Single
  <1>2. ops' # ops
    BY <1>1, SMT
  <1>. QED  BY <1>1, <1>2 DEF OneAtATime

(* No link is lost while neither table changes.                            *)
LEMMA NothingLost ==
    ASSUME UNCHANGED <<trafo, sub>>
    PROVE  LostLinksAreNamed
  BY DEF LostLinksAreNamed, Lost

LEMMA InsertSerial ==
    ASSUME TypeInv, NEW w \in Workers, Insert(w), TaskOK(task[w])
    PROVE  LostLinksAreNamed /\ (WithinQuota => WithinQuota')
<1>1. /\ TypeOK /\ At(w, "insert") /\ UNCHANGED sub
      /\ task[w].items \in SUBSET Item
  BY TaskFacts DEF TypeInv, Insert
<1> DEFINE items == task[w].items
<1>2. IsFiniteSet(items) /\ CheckTransformerQuota(Cardinality(items))
  BY <1>1 DEF TaskOK, At
<1>3. CASE UNCHANGED trafo
  BY <1>1, <1>3, NothingLost DEF WithinQuota, Live
<1>4. ASSUME NEW id \in Unused(Free(trafo), {x.code : x \in items}),
             trafo' = WithItems(items, id)
      PROVE  LostLinksAreNamed /\ (WithinQuota => WithinQuota')
  <2>1. /\ DOMAIN WithItems(items, id) = Rows
        /\ \A r \in Rows :
              \/ WithItems(items, id)[r] = trafo[r]
              \/ \E x \in items : id[x.code] = r /\ WithItems(items, id)[r] = Inserted(x)
    BY <1>1, <1>4, WithItemsFacts
  <2>2. /\ DOMAIN trafo' = Rows
        /\ \A r \in Rows :
              \/ trafo'[r] = trafo[r]
              \/ \E x \in items : id[x.code] = r /\ trafo'[r].sub = x.sub
    BY <1>1, <1>4, <2>1, InsertedType
  <2>3. LostLinksAreNamed
    <3> SUFFICES ASSUME NEW r \in Rows, Lost(r)', ~Lost(r)
                 PROVE  Names(task[w], r, trafo'[r].sub)
      BY DEF LostLinksAreNamed
    <3>1. trafo'[r] # trafo[r]
      BY <1>1 DEF Lost
    <3>. QED  BY <1>1, <2>2, <3>1 DEF Names, At
  <2>4. \A r \in Live(trafo)' : r \in Live(trafo) \/ \E x \in items : id[x.code] = r
    BY <1>1, <2>2, RowTypes DEF Live
  <2> DEFINE f == [x \in items |-> id[x.code]]
  <2>5. DOMAIN f = items /\ \A x \in items : f[x] = id[x.code]
    OBVIOUS
  <2> HIDE DEF f
  <2>6. \A r \in Live(trafo)' : r \in Live(trafo) \/ \E x \in items : f[x] = r
    BY <2>4, <2>5
  <2>7. WithinQuota'
    BY <1>1, <1>2, <2>5, <2>6, QuotaKept
  <2>. QED  BY <2>3, <2>7
<1>. QED  BY <1>3, <1>4 DEF Insert

(* An update that was not asked for another substation writes the one that *)
(* the row has.                                                            *)
LEMMA UpdateSerial ==
    ASSUME TypeInv, NEW w \in Workers, Update(w), TaskOK(task[w])
    PROVE  LostLinksAreNamed /\ (WithinQuota => WithinQuota')
<1>1. /\ TypeOK /\ UNCHANGED sub /\ DOMAIN trafo = Rows /\ At(w, "write")
      /\ task[w].row \in Rows /\ task[w].copy \in Row
      /\ task[w].field # "sub" => task[w].copy.sub = trafo[task[w].row].sub
  BY TaskFacts, RowTypes DEF TypeInv, Update, TaskOK, At
<1> DEFINE row == Written(trafo[task[w].row], task[w].copy)
<1>2. row.sub = task[w].copy.sub /\ row.st = trafo[task[w].row].st
  BY <1>1, WrittenType, RowTypes
<1>3. UNCHANGED trafo \/ trafo' = [trafo EXCEPT ![task[w].row] = row]
  BY DEF Update
<1> HIDE DEF row
<1>4. \A r \in Rows :
          /\ trafo'[r].st = trafo[r].st
          /\ trafo'[r].sub # trafo[r].sub =>
                /\ r = task[w].row /\ task[w].field = "sub"
                /\ trafo'[r].sub = task[w].copy.sub
  BY <1>1, <1>2, <1>3
<1>5. DOMAIN trafo' = Rows
  BY <1>1, <1>3
<1>6. LostLinksAreNamed
  <2> SUFFICES ASSUME NEW r \in Rows, Lost(r)', ~Lost(r)
               PROVE  Names(task[w], r, trafo'[r].sub)
    BY DEF LostLinksAreNamed
  <2>1. trafo'[r].sub # trafo[r].sub
    BY <1>1, <1>4 DEF Lost
  <2>. QED  BY <1>1, <1>4, <2>1 DEF Names, At
<1>7. Live(trafo)' \subseteq Live(trafo)
  BY <1>1, <1>4, <1>5 DEF Live
<1>. QED  BY <1>1, <1>6, <1>7, QuotaLess

(* The lines that make a row live were counted as new: when codes are      *)
(* typed in one case, the lookup by upper case finds what the index finds. *)
LEMMA LinesWithinQuota ==
    ASSUME TypeInv, CodesAreUnique, TypedInv, OneCase, NEW w \in Workers,
           At(w, "commit"), TaskOK(task[w]),
           NEW si \in Unused(Free(sub), Fresh(task[w])),
           NEW ti \in Unused(Free(trafo), NewCodes(task[w])),
           trafo' = WithLines(task[w], si, ti)
    PROVE  WithinQuota'
<1> DEFINE file == task[w].file
           S == NewLines(file)
           f == [x \in S |-> RowOf(ti, x.code)]
<1>1. /\ TypeOK /\ FoundAll(task[w])
      /\ IsFiniteSet(file) /\ CheckTransformerQuota(Cardinality(S))
      /\ \A x \in file : x.code \in typed
  BY DEF TypeInv, TaskOK, At, TypedInv, Typed
<1>2. S \in SUBSET file
  BY DEF NewLines
<1>3. IsFiniteSet(S)
  BY <1>1, <1>2, FS_Subset
<1>4. DOMAIN f = S /\ \A x \in S : f[x] = RowOf(ti, x.code)
  OBVIOUS
<1>5. \A r \in Live(trafo)' : r \in Live(trafo) \/ \E x \in S : f[x] = r
  <2> SUFFICES ASSUME NEW r \in Live(trafo)', r \notin Live(trafo)
               PROVE  \E x \in S : RowOf(ti, x.code) = r
    BY <1>4
  <2>1. r \in Rows /\ trafo'[r] # trafo[r]
    BY <1>1, WithLinesFacts, RowTypes DEF Live
  <2>2. PICK x \in file : RowOf(ti, x.code) = r
    BY <1>1, <2>1, WithLinesFacts
  <2>3. ASSUME NEW q \in Live(trafo), Fold[trafo[q].code] = Fold[x.code]
        PROVE  FALSE
    <3>1. q \in Rows /\ trafo[q].st = "live"
      BY <1>1, RowTypes DEF Live
    <3>2. trafo[q].code \in typed /\ x.code \in typed
      BY <1>1, <3>1 DEF TypedInv
    <3>3. trafo[q].code = x.code
      BY <2>3, <3>2 DEF OneCase
    <3>4. q \in Holders(trafo, x.code)
      BY <1>1, <3>1, <3>3, RowTypes DEF Holders
    <3>5. r \in Holders(trafo, x.code)
      BY <1>1, <2>2, <3>4, RowOfFacts
    <3>6. r = q
      BY <3>4, <3>5 DEF CodesAreUnique, Unique, Holders
    <3>. QED  BY <3>6
  <2>4. x \in S
    BY <2>3 DEF NewLines, RefsByTenant
  <2>. QED  BY <2>2, <2>4
<1> HIDE DEF f, S
<1>. QED  BY <1>1, <1>3, <1>4, <1>5, QuotaKept

(* A substation that is live stays so in an import, and those that it      *)
(* restores or makes become so.                                            *)
LEMMA SubstationsLive ==
    ASSUME TypeOK, NEW w \in Workers, At(w, "commit"),
           NEW si \in Unused(Free(sub), Fresh(task[w])),
           sub' = WithSubstations(task[w], si)
    PROVE  /\ \A s \in Live(sub) : sub'[s].st = "live"
           /\ \A s \in task[w].restored : sub'[s].st = "live"
           /\ \A c \in DOMAIN si : sub'[si[c]].st = "live"
<1> DEFINE new == WithSubstations(task[w], si)
<1>1. \A s \in Subs :
          \/ /\ new[s] = sub[s]
             /\ s \notin task[w].restored /\ \A c \in DOMAIN si : si[c] # s
          \/ s \in task[w].restored /\ new[s] = [sub[s] EXCEPT !.st = "live"]
          \/ \E c \in DOMAIN si : /\ si[c] = s /\ s \in Free(sub)
                                  /\ new[s] = [st |-> "live", code |-> c]
  BY WithSubstationsFacts
<1>2. sub' = new
  OBVIOUS
<1> HIDE DEF new
<1>3. \A s \in Subs : [sub[s] EXCEPT !.st = "live"].st = "live"
  BY RowTypes DEF Substation
<1>4. \A s \in Subs :
          \/ /\ sub'[s] = sub[s]
             /\ s \notin task[w].restored /\ \A c \in DOMAIN si : si[c] # s
          \/ sub'[s].st = "live"
  <2> SUFFICES ASSUME NEW s \in Subs
               PROVE  \/ /\ sub'[s] = sub[s]
                         /\ s \notin task[w].restored /\ \A c \in DOMAIN si : si[c] # s
                      \/ sub'[s].st = "live"
    OBVIOUS
  <2>1. CASE new[s] = [sub[s] EXCEPT !.st = "live"]
    BY <1>2, <1>3, <2>1
  <2>2. CASE \E c \in DOMAIN si : new[s] = [st |-> "live", code |-> c]
    BY <1>2, <2>2
  <2>3. CASE /\ new[s] = sub[s]
             /\ s \notin task[w].restored /\ \A c \in DOMAIN si : si[c] # s
    BY <1>2, <2>3
  <2>. QED  BY <1>1, <2>1, <2>2, <2>3
<1>5. /\ task[w].restored \subseteq Subs /\ Live(sub) \subseteq Subs
      /\ \A c \in DOMAIN si : si[c] \in Subs
  BY TaskFacts, RowTypes DEF Live, Unused, Free
<1>. QED  BY <1>4, <1>5 DEF Live

LEMMA LinesLinked ==
    ASSUME TypeInv, NEW w \in Workers, At(w, "commit"), TaskOK(task[w]),
           NEW si \in Unused(Free(sub), Fresh(task[w])),
           NEW ti \in Unused(Free(trafo), NewCodes(task[w])),
           trafo' = WithLines(task[w], si, ti),
           sub' = WithSubstations(task[w], si)
    PROVE  \A r \in Rows : ~Lost(r) => ~Lost(r)'
<1>1. TypeOK /\ FoundAll(task[w])
  BY DEF TypeInv
<1>2. \A c \in DOMAIN task[w].found : task[w].found[c] # NoSub =>
          task[w].found[c] \in Live(sub) \cup task[w].restored
  BY DEF TaskOK, At
<1>3. /\ \A s \in Live(sub) : sub'[s].st = "live"
      /\ \A s \in task[w].restored : sub'[s].st = "live"
      /\ \A c \in DOMAIN si : sub'[si[c]].st = "live"
  BY <1>1, SubstationsLive
<1>4. ASSUME NEW r \in Rows, ~Lost(r), trafo[r].st # "none", trafo[r].sub # NoSub
      PROVE  sub'[trafo[r].sub].st = "live"
  <2>1. trafo[r].sub \in Live(sub)
    BY <1>1, <1>4, RowTypes DEF Lost, Live, Row
  <2>. QED  BY <1>3, <2>1
<1> SUFFICES ASSUME NEW r \in Rows, ~Lost(r), trafo'[r].st # "none", trafo'[r].sub # NoSub
             PROVE  sub'[trafo'[r].sub].st = "live"
  BY DEF Lost
<1>5. CASE trafo'[r] = trafo[r]
  BY <1>4, <1>5
<1>6. ASSUME NEW x \in task[w].file,
             trafo'[r] = Upserted(trafo[r], x.code, SubOf(task[w], si, x.sub))
      PROVE  sub'[trafo'[r].sub].st = "live"
  <2> DEFINE s == SubOf(task[w], si, x.sub)
  <2>1. /\ s \in Subs \cup {NoSub}
        /\ s # NoSub => \/ \E c \in DOMAIN si : si[c] = s
                        \/ \E c \in DOMAIN task[w].found : s = task[w].found[c]
    BY <1>1, SubOfFacts
  <2>2. x.code \in Codes
    BY <1>1, TaskFacts DEF Line
  <2>3. trafo'[r].sub = IF s # NoSub THEN s
                        ELSE IF trafo[r].st = "none" THEN NoSub ELSE trafo[r].sub
    BY <1>1, <1>6, <2>1, <2>2, UpsertedType, RowTypes
  <2> HIDE DEF s
  <2>4. CASE s # NoSub
    BY <1>2, <1>3, <2>1, <2>3, <2>4
  <2>5. CASE s = NoSub
    BY <1>4, <2>3, <2>5
  <2>. QED  BY <2>4, <2>5
<1>7. \/ WithLines(task[w], si, ti)[r] = trafo[r]
      \/ \E x \in task[w].file :
            WithLines(task[w], si, ti)[r] =
                Upserted(trafo[r], x.code, SubOf(task[w], si, x.sub))
  BY <1>1, WithLinesFacts
<1>. QED  BY <1>5, <1>6, <1>7

LEMMA UpsertSerial ==
    ASSUME TypeInv, UniqueInv, TypedInv, NEW w \in Workers,
           UpsertByCode(w), TaskOK(task[w]), OneCase => WithinQuota
    PROVE  LostLinksAreNamed /\ (OneCase => WithinQuota')
<1>1. CASE UNCHANGED <<trafo, sub>>
  BY <1>1, NothingLost DEF WithinQuota, Live
<1>2. ASSUME NEW si \in Unused(Free(sub), Fresh(task[w])),
             NEW ti \in Unused(Free(trafo), NewCodes(task[w])),
             trafo' = WithLines(task[w], si, ti),
             sub' = WithSubstations(task[w], si)
      PROVE  LostLinksAreNamed /\ (OneCase => WithinQuota')
  <2>1. At(w, "commit") /\ CodesAreUnique
    BY UpsertCases DEF UniqueInv
  <2>2. LostLinksAreNamed
    BY <1>2, <2>1, LinesLinked DEF LostLinksAreNamed
  <2>. QED  BY <1>2, <2>1, <2>2, LinesWithinQuota
<1>. QED  BY <1>1, <1>2, UpsertCases

(* The requests of one statement that touch links or count.                *)
LEMMA SingleSerial ==
    ASSUME TypeInv,
           \/ \E r \in Rows : Delete(r)
           \/ \E s \in Subs : DeleteSubstation(s)
           \/ \E s \in Subs, c \in SubCodes : CreateSubstation(s, c) \/ UpdateSubstation(s, c)
           \/ \E u \in Units : DeleteUnit(u)
    PROVE  LostLinksAreNamed /\ (WithinQuota => WithinQuota')
<1>1. TypeOK /\ DOMAIN trafo = Rows
  BY RowTypes DEF TypeInv
<1>2. ASSUME NEW r \in Rows, Delete(r)
      PROVE  LostLinksAreNamed /\ Live(trafo)' \subseteq Live(trafo)
  <2>1. UNCHANGED sub /\ trafo' = [trafo EXCEPT ![r].st = "deleted"] /\ r \in Live(trafo)
    BY <1>2 DEF Delete
  <2>2. \A q \in Rows \ {r} : trafo'[q] = trafo[q]
    BY <1>1, <2>1
  <2>3. trafo'[r].sub = trafo[r].sub /\ trafo'[r].st = "deleted" /\ trafo[r].st = "live"
    BY <1>1, <2>1, RowTypes DEF Row, Live
  <2>4. DOMAIN trafo' = Rows
    BY <1>1, <2>1
  <2>. QED  BY <1>1, <2>1, <2>2, <2>3, <2>4 DEF LostLinksAreNamed, Lost, Live
<1>3. ASSUME NEW s \in Subs, DeleteSubstation(s)
      PROVE  LostLinksAreNamed /\ Live(trafo)' \subseteq Live(trafo)
  <2>1. /\ sub' = [sub EXCEPT ![s].st = "deleted"]
        /\ trafo' = [r \in Rows |-> Unlinked(trafo[r], s)]
    BY <1>3 DEF DeleteSubstation
  <2>2. \A r \in Rows : /\ trafo'[r].st = trafo[r].st
                        /\ \/ trafo[r].sub = s /\ trafo'[r].sub = NoSub
                           \/ trafo[r].sub # s /\ trafo'[r].sub = trafo[r].sub
    BY <1>1, <2>1, RowTypes DEF Unlinked, Row
  <2>3. \A q \in Subs : q # s => sub'[q] = sub[q]
    BY <1>1, <2>1, RowTypes
  <2>4. LostLinksAreNamed
    BY <1>1, <2>2, <2>3, RowTypes DEF LostLinksAreNamed, Lost, Row
  <2>. QED  BY <1>1, <2>1, <2>2, <2>4 DEF Live
<1>4. ASSUME NEW s \in Subs, NEW c \in SubCodes,
             CreateSubstation(s, c) \/ UpdateSubstation(s, c)
      PROVE  LostLinksAreNamed /\ Live(trafo)' \subseteq Live(trafo)
  <2>1. UNCHANGED trafo
    BY <1>4 DEF CreateSubstation, UpdateSubstation
  <2>2. ASSUME NEW q \in Subs, sub[q].st = "live"
        PROVE  sub'[q].st = "live"
    <3>1. CASE CreateSubstation(s, c)
      BY <1>1, <2>2, <3>1, RowTypes DEF CreateSubstation
    <3>2. CASE UpdateSubstation(s, c)
      BY <1>1, <2>2, <3>2, RowTypes DEF UpdateSubstation, Substation
    <3>. QED  BY <1>4, <3>1, <3>2
  <2>. QED  BY <1>1, <2>1, <2>2, RowTypes DEF LostLinksAreNamed, Lost, Row, Live
<1>5. ASSUME NEW u \in Units, DeleteUnit(u)
      PROVE  LostLinksAreNamed /\ Live(trafo)' \subseteq Live(trafo)
  BY <1>5, NothingLost DEF DeleteUnit, Live
<1>. QED  BY <1>1, <1>2, <1>3, <1>4, <1>5, QuotaLess

(* What was read stays so while neither table changes.                     *)
LEMMA ReadStays ==
    ASSUME NEW t, TaskOK(t), UNCHANGED <<trafo, sub>>
    PROVE  TaskOK(t)'
  BY DEF TaskOK, Live, CheckTransformerQuota, NewLines, RefsByTenant

LEMMA SerialStep == Inv /\ [Next]_vars => SerialInv'
<1> SUFFICES ASSUME Inv, [Next]_vars PROVE SerialInv'
  OBVIOUS
<1>1. TypeInv /\ UniqueInv /\ TypedInv /\ SerialInv /\ TypeOK
  BY DEF Inv, TypeInv
<1>2. CASE UNCHANGED vars
  <2>1. UNCHANGED <<trafo, sub, task, serial, typed>>
    BY <1>2 DEF vars
  <2>2. ASSUME \A w \in Workers : TaskOK(task[w])
        PROVE  \A w \in Workers : TaskOK(task[w])'
    <3> SUFFICES ASSUME NEW w \in Workers PROVE TaskOK(task[w])'
      OBVIOUS
    <3>1. PICK t : t = task[w] /\ TaskOK(t)
      BY <2>2
    <3>2. TaskOK(t)' /\ task'[w] = t
      BY <2>1, <3>1, ReadStays
    <3>. QED  BY <3>2 DEF TaskOK
  <2>3. /\ AtMostOne => AtMostOne'
        /\ (OneCase => WithinQuota) => (OneCase' => WithinQuota')
    BY <2>1 DEF AtMostOne, WithinQuota, OneCase, Live
  <2>. QED  BY <1>1, <2>1, <2>2, <2>3 DEF SerialInv
<1>3. CASE Next
  <2> SUFFICES ASSUME serial
               PROVE  /\ AtMostOne'
                      /\ \A w \in Workers : TaskOK(task[w])'
                      /\ OneCase => WithinQuota'
    BY <1>3 DEF Next, SerialInv, OneCase
  <2>1. /\ AtMostOne /\ (OneCase => WithinQuota) /\ OneAtATime
        /\ \A w \in Workers : TaskOK(task[w])
    BY <1>1, <1>3 DEF SerialInv, Next
  <2>2. ASSUME NEW w \in Workers, TransformerStep(w) \/ UnitStep(w),
               NEW t, Goto(w, t), TaskOK(t)'
        PROVE  AtMostOne' /\ \A v \in Workers : TaskOK(task[v])'
    <3>1. \A v \in Workers \ {w} : task[v] = Idle
      BY <1>1, <2>1, <2>2, OthersRest
    <3>2. task'[w] = t /\ \A v \in Workers \ {w} : task'[v] = Idle
      BY <1>1, <2>2, <3>1 DEF Goto, TypeOK
    <3>3. \A v \in Workers \ {w} : TaskOK(task[v])'
      BY <3>2 DEF TaskOK, Idle
    <3>4. TaskOK(task[w])'
      BY <2>2, <3>2 DEF TaskOK
    <3>. QED  BY <3>2, <3>3, <3>4 DEF AtMostOne
  <2>3. TaskOK(Idle)'
    BY DEF TaskOK, Idle
  <2>5. ASSUME UNCHANGED <<trafo, sub>>
        PROVE  OneCase => WithinQuota'
    BY <2>1, <2>5 DEF WithinQuota, Live
  <2>6. ASSUME NEW w \in Workers, TransformerStep(w)
        PROVE  /\ AtMostOne'
               /\ \A v \in Workers : TaskOK(task[v])'
               /\ OneCase => WithinQuota'
    <3>1. CASE \/ CreateTransformer(w) \/ LookupCode(w) \/ CreateTransformers(w)
               \/ UpdateTransformer(w) \/ LookupNewCode(w)
               \/ ImportTransformers(w) \/ ImportQuota(w) \/ GetOrCreateByCode(w)
      <4>1. UNCHANGED <<trafo, sub>>
        BY <1>1, <3>1, ReadingTasks
      <4>2. PICK t : Goto(w, t) /\ TaskOK(t)
        BY <1>1, <2>1, <3>1, ReadingTasks
      <4>3. TaskOK(t)'
        BY <4>1, <4>2, ReadStays
      <4>. QED  BY <2>2, <2>5, <2>6, <4>1, <4>2, <4>3
    <3>2. ASSUME Done(w)
          PROVE  AtMostOne' /\ \A v \in Workers : TaskOK(task[v])'
      BY <2>2, <2>3, <2>6, <3>2 DEF Done
    <3>3. CASE Insert(w)
      <4>1. WithinQuota => WithinQuota'
        BY <1>1, <2>1, <3>3, InsertSerial
      <4>. QED  BY <2>1, <3>2, <3>3, <4>1 DEF Insert
    <3>4. CASE Update(w)
      <4>1. WithinQuota => WithinQuota'
        BY <1>1, <2>1, <3>4, UpdateSerial
      <4>. QED  BY <2>1, <3>2, <3>4, <4>1 DEF Update
    <3>5. CASE UpsertByCode(w)
      <4>1. OneCase => WithinQuota'
        BY <1>1, <2>1, <3>5, UpsertSerial
      <4>. QED  BY <3>2, <3>5, <4>1 DEF UpsertByCode
    <3>. QED  BY <2>6, <3>1, <3>3, <3>4, <3>5 DEF TransformerStep
  <2>7. ASSUME NEW w \in Workers, UnitStep(w)
        PROVE  /\ AtMostOne'
               /\ \A v \in Workers : TaskOK(task[v])'
               /\ OneCase => WithinQuota'
    <3>1. UNCHANGED <<trafo, sub>>
      BY <1>1, <2>7, UnitRows
    <3>2. PICK t : Goto(w, t) /\ TaskOK(t)
      BY <1>1, <2>7, UnitTyped
    <3>3. TaskOK(t)'
      BY <3>1, <3>2, ReadStays
    <3>. QED  BY <2>2, <2>5, <2>7, <3>1, <3>2, <3>3
  <2>8. CASE \/ \E r \in Rows : Delete(r)
             \/ \E s \in Subs : DeleteSubstation(s)
             \/ \E s \in Subs, c \in SubCodes : CreateSubstation(s, c) \/ UpdateSubstation(s, c)
             \/ \E u \in Units : DeleteUnit(u)
    <3>1. WithinQuota => WithinQuota'
      BY <1>1, <2>1, <2>8, SingleSerial
    <3>2. \E kind : Single(kind)
      BY <2>8 DEF Delete, DeleteSubstation, CreateSubstation, UpdateSubstation, DeleteUnit
    <3>3. \A v \in Workers : task'[v] = Idle
      BY <1>1, <2>1, <3>2, AllRest
    <3>4. \A v \in Workers : TaskOK(task[v])'
      BY <3>3 DEF TaskOK, Idle
    <3>. QED  BY <2>1, <3>1, <3>3, <3>4 DEF AtMostOne
  <2>. QED  BY <1>3, <2>6, <2>7, <2>8 DEF Next
<1>. QED  BY <1>2, <1>3

(* What a step can do to the links.                                        *)
LEMMA LinksStep == Inv /\ serial /\ [Next]_vars => LostLinksAreNamed
<1> SUFFICES ASSUME Inv, serial, [Next]_vars PROVE LostLinksAreNamed
  OBVIOUS
<1>1. TypeInv /\ UniqueInv /\ TypedInv
  BY DEF Inv
<1>2. (\A w \in Workers : TaskOK(task[w])) /\ (OneCase => WithinQuota)
  BY DEF Inv, SerialInv
<1>3. CASE UNCHANGED vars
  BY <1>3, NothingLost DEF vars
<1>4. ASSUME NEW w \in Workers, TransformerStep(w)
      PROVE  LostLinksAreNamed
  <2>1. CASE Insert(w)
    BY <1>1, <1>2, <2>1, InsertSerial
  <2>2. CASE Update(w)
    BY <1>1, <1>2, <2>2, UpdateSerial
  <2>3. CASE UpsertByCode(w)
    BY <1>1, <1>2, <2>3, UpsertSerial
  <2>4. ASSUME \/ CreateTransformer(w) \/ LookupCode(w) \/ CreateTransformers(w)
               \/ UpdateTransformer(w) \/ LookupNewCode(w)
               \/ ImportTransformers(w) \/ ImportQuota(w) \/ GetOrCreateByCode(w)
        PROVE  UNCHANGED <<trafo, sub>>
    BY <1>1, <2>4, ReadingTasks
  <2>. QED  BY <1>4, <2>1, <2>2, <2>3, <2>4, NothingLost DEF TransformerStep
<1>5. ASSUME NEW w \in Workers, UnitStep(w)
      PROVE  LostLinksAreNamed
  BY <1>1, <1>5, UnitRows, NothingLost
<1>. QED  BY <1>1, <1>3, <1>4, <1>5, SingleSerial DEF Next

(* One operation after the other, the plan's limit holds for everything    *)
(* that creates or restores transformers, if codes are typed in one case.  *)
THEOREM SerialNetworkIsRight == Spec => []SerialNetwork
<1>1. Inv /\ [Next]_vars => Inv'
  BY TypeStep, UniqueStep, TypedStep, SerialStep DEF Inv
<1>2. Inv => SerialNetwork
  BY DEF Inv, SerialInv, SerialNetwork
<1>3. QED  BY InvInit, <1>1, <1>2, PTL DEF Spec

(* One operation after the other, a link to a removed substation is made by*)
(* the request that names that substation: the removal itself takes it from*)
(* every transformer, and imports and updates of other columns keep it so. *)
THEOREM LinksAreNamedSerially == Spec => LinksAreNamed
<1>1. Inv /\ [Next]_vars => Inv'
  BY TypeStep, UniqueStep, TypedStep, SerialStep DEF Inv
<1>2. Inv /\ [Next]_vars => [serial => LostLinksAreNamed]_vars
  BY LinksStep
<1>3. QED  BY InvInit, <1>1, <1>2, PTL DEF Spec, LinksAreNamed

-----------------------------------------------------------------------------
(* Months and their balances.  A month of Brasilia begins at an instant of *)
(* the form 4k + 1, one of UTC at 4k; every stored balance is of one such  *)
(* month, and its transformer and beginning tell it from the others.       *)
Begins(x) == \E k \in Int : x = 4 * k + 1
BeginsUtc(x) == \E k \in Int : x = 4 * k

ReadIn(readings, t, first) ==
    {r \in readings : r.row = t /\ first <= r.at /\ r.at <= first + 3}
BalanceOf(tr, ur, t, first) ==
    [row |-> t, start |-> first, end |-> first + 3, manual |-> FALSE,
     inj |-> Cardinality(ReadIn(tr, t, first)),
     con |-> Cardinality(ReadIn(ur, t, first))]

OfAMonth(b) ==
    /\ b.row \in Transformers /\ b.start \in Int /\ b.end = b.start + 3
    /\ \/ Begins(b.start)
       \/ scene # "metering" /\ BeginsUtc(b.start)
Measures(b, tr, ur) ==
    b = BalanceOf(tr, ur, b.row, b.start) /\ b.inj > 0 /\ b.con > 0
OnePerKey(bs) == \A b, c \in bs : b.row = c.row /\ b.start = c.start => b = c

(* What holds of the balances bs, given the readings tr and ur and the     *)
(* months bh that are behind.                                              *)
BalancesOK(bs, tr, ur, bh) ==
    /\ \A b \in bs : OfAMonth(b)
    /\ OnePerKey(bs)
    /\ \A b \in bs : Begins(b.start) /\ <<b.row, b.start>> \notin bh
                         => Measures(b, tr, ur)

MeterTypes ==
    /\ home \in [Meters -> Transformers \cup {NoTransformer}]
    /\ trafoReadings \subseteq [row : Transformers, at : 1 .. Horizon]
    /\ ucReadings \subseteq [unit : Meters, row : Transformers, at : 1 .. Horizon]
    /\ IsFiniteSet(trafoReadings) /\ IsFiniteSet(ucReadings)
    /\ today \in 1 .. Horizon /\ moves \in Nat
    /\ moves <= IF scene = "metering" THEN Moves["metering"] ELSE Moves["meteringUtc"]

MeterInv == MeterTypes /\ BalancesOK(balances, trafoReadings, ucReadings, behind)

-----------------------------------------------------------------------------
LEMMA MonthFacts ==
    ASSUME NEW at \in Int
    PROVE  /\ M!MonthStart(at, 1) \in Int /\ Begins(M!MonthStart(at, 1))
           /\ M!MonthStart(at, 1) <= at /\ at <= M!MonthStart(at, 1) + 3
<1> DEFINE k == (at - 1) \div 4
<1>1. k \in Int /\ 4 * k <= at - 1 /\ at - 1 <= 4 * k + 3
  OBVIOUS
<1>2. M!MonthStart(at, 1) = 4 * k + 1
  BY <1>1 DEF M!MonthStart, M!MonthLength
<1> HIDE DEF k
<1>. QED  BY <1>1, <1>2 DEF Begins

LEMMA MonthIs ==
    ASSUME NEW x \in Int, Begins(x), NEW at \in Int, x <= at, at <= x + 3
    PROVE  M!MonthStart(at, 1) = x
<1>1. PICK k \in Int : x = 4 * k + 1
  BY DEF Begins
<1>2. (at - 1) \div 4 = k
  BY <1>1
<1>. QED  BY <1>1, <1>2 DEF M!MonthStart, M!MonthLength

LEMMA UtcMonthFacts ==
    ASSUME NEW at \in Int
    PROVE  /\ M!MonthStart(at, 0) \in Int /\ BeginsUtc(M!MonthStart(at, 0))
           /\ M!MonthStart(at, 0) <= at /\ at <= M!MonthStart(at, 0) + 3
<1> DEFINE k == at \div 4
<1>1. k \in Int /\ 4 * k <= at /\ at <= 4 * k + 3
  OBVIOUS
<1>2. M!MonthStart(at, 0) = 4 * k
  BY <1>1 DEF M!MonthStart, M!MonthLength
<1> HIDE DEF k
<1>. QED  BY <1>1, <1>2 DEF BeginsUtc

LEMMA UtcMonthIs ==
    ASSUME NEW x \in Int, BeginsUtc(x), NEW at \in Int, x <= at, at <= x + 3
    PROVE  M!MonthStart(at, 0) = x
<1>1. PICK k \in Int : x = 4 * k
  BY DEF BeginsUtc
<1>2. at \div 4 = k
  BY <1>1
<1>. QED  BY <1>1, <1>2 DEF M!MonthStart, M!MonthLength

(* Both servers cut time in the same way.                                  *)
LEMMA SameMonths ==
    \A at, zone : MUtc!MonthStart(at, zone) = M!MonthStart(at, zone)
BY DEF M!MonthStart, M!MonthLength, MUtc!MonthStart, MUtc!MonthLength

(* No month of Brasilia is one of UTC.                                     *)
LEMMA MonthsDiffer ==
    ASSUME NEW x \in Int
    PROVE  /\ ~(Begins(x) /\ BeginsUtc(x))
           /\ Begins(x) <=> M!MonthStart(x, 1) = x
<1>1. ~(Begins(x) /\ BeginsUtc(x))
  BY DEF Begins, BeginsUtc
<1>2. Begins(x) => M!MonthStart(x, 1) = x
  BY MonthIs
<1>3. M!MonthStart(x, 1) = x => Begins(x)
  BY MonthFacts
<1>. QED  BY <1>1, <1>2, <1>3

(* Two months of one calendar are the same or have no instant in common.   *)
LEMMA MonthsApart ==
    ASSUME NEW x \in Int, NEW y \in Int, Begins(x), Begins(y), x # y
    PROVE  x + 3 < y \/ y + 3 < x
BY DEF Begins

-----------------------------------------------------------------------------
(* Storing new balances, each of its readings or given by hand, in place of*)
(* those with the same key.                                                *)
LEMMA StoreKeeps ==
    ASSUME NEW bs, NEW tr, NEW ur, NEW bh, BalancesOK(bs, tr, ur, bh),
           NEW new, NEW tr2, NEW ur2, NEW bh2,
           \A c \in new : OfAMonth(c),
           OnePerKey(new),
           \A c \in new : Measures(c, tr2, ur2) \/ <<c.row, c.start>> \in bh2
                          \/ ~Begins(c.start),
           \A b \in bs :
               Begins(b.start) /\ <<b.row, b.start>> \notin bh2
               /\ (\A c \in new : ~M!Replaces(b, c))
                   => /\ <<b.row, b.start>> \notin bh
                      /\ BalanceOf(tr2, ur2, b.row, b.start)
                            = BalanceOf(tr, ur, b.row, b.start)
    PROVE  BalancesOK({b \in bs : \A c \in new : ~M!Replaces(b, c)} \cup new,
                      tr2, ur2, bh2)
<1> DEFINE kept == {b \in bs : \A c \in new : ~M!Replaces(b, c)}
           bs2  == kept \cup new
<1>1. \A b \in bs2 : OfAMonth(b)
  BY DEF BalancesOK
<1>2. ASSUME NEW b \in bs2, NEW c \in bs2, b.row = c.row, b.start = c.start
      PROVE  b = c
  <2>1. b.end = c.end
    BY <1>1, <1>2 DEF OfAMonth
  <2>2. M!Replaces(b, c) /\ M!Replaces(c, b)
    BY <1>2, <2>1 DEF M!Replaces
  <2>3. \/ b \in kept /\ c \in kept
        \/ b \in new /\ c \in new
    BY <2>2
  <2>. QED  BY <1>2, <2>3 DEF OnePerKey, BalancesOK
<1>3. ASSUME NEW b \in bs2, Begins(b.start), <<b.row, b.start>> \notin bh2
      PROVE  Measures(b, tr2, ur2)
  <2>1. CASE b \in new
    BY <1>3, <2>1
  <2>2. CASE b \in kept
    <3>1. /\ b \in bs /\ <<b.row, b.start>> \notin bh
          /\ BalanceOf(tr2, ur2, b.row, b.start) = BalanceOf(tr, ur, b.row, b.start)
      BY <1>3, <2>2
    <3>2. Measures(b, tr, ur)
      BY <1>3, <3>1 DEF BalancesOK
    <3>. QED  BY <3>1, <3>2 DEF Measures
  <2>. QED  BY <2>1, <2>2
<1> HIDE DEF kept, bs2
<1>4. BalancesOK(bs2, tr2, ur2, bh2)
  BY <1>1, <1>2, <1>3 DEF BalancesOK, OnePerKey
<1>. QED  BY <1>4 DEF bs2, kept

-----------------------------------------------------------------------------
LEMMA Counting ==
    \A S : M!Cardinality(S) = Cardinality(S) /\ MUtc!Cardinality(S) = Cardinality(S)
BY DEF M!Cardinality, MUtc!Cardinality, Cardinality

(* What the code calculates is BalanceOf, and what it finds enough readings*)
(* for measures them.                                                      *)
LEMMA Calculated ==
    ASSUME NEW first \in Int
    PROVE  /\ M!Month(first) = [start |-> first, end |-> first + 3]
           /\ \A t : M!FromReadings(t, M!Month(first))
                        = BalanceOf(trafoReadings, ucReadings, t, first)
           /\ \A t : t \in M!Sufficient(M!Month(first)) <=>
                 /\ t \in Transformers
                 /\ Measures(BalanceOf(trafoReadings, ucReadings, t, first),
                             trafoReadings, ucReadings)
<1>1. M!Month(first) = [start |-> first, end |-> first + 3]
  BY DEF M!Month, M!MonthLength
<1>2. ASSUME NEW t
      PROVE  /\ M!AggregateByTransformerAndPeriod(t, M!Month(first))
                    = Cardinality(ReadIn(trafoReadings, t, first))
             /\ M!GetTotalByTransformerAndPeriod(t, M!Month(first))
                    = Cardinality(ReadIn(ucReadings, t, first))
  <2>1. M!Month(first).start = first /\ M!Month(first).end = first + 3
    BY <1>1
  <2>2. {r \in trafoReadings : r.row = t /\ M!In(r.at, M!Month(first))}
           = ReadIn(trafoReadings, t, first)
    BY <2>1 DEF M!In, ReadIn
  <2>3. {r \in ucReadings : r.row = t /\ M!In(r.at, M!Month(first))}
           = ReadIn(ucReadings, t, first)
    BY <2>1 DEF M!In, ReadIn
  <2>4. M!AggregateByTransformerAndPeriod(t, M!Month(first))
           = Cardinality({r \in trafoReadings : r.row = t /\ M!In(r.at, M!Month(first))})
    BY Counting DEF M!AggregateByTransformerAndPeriod
  <2>5. M!GetTotalByTransformerAndPeriod(t, M!Month(first))
           = Cardinality({r \in ucReadings : r.row = t /\ M!In(r.at, M!Month(first))})
    BY Counting DEF M!GetTotalByTransformerAndPeriod, M!GetByTransformerAndPeriod
  <2>. QED  BY <2>2, <2>3, <2>4, <2>5
<1>3. ASSUME NEW t
      PROVE  M!FromReadings(t, M!Month(first))
                = BalanceOf(trafoReadings, ucReadings, t, first)
  <2>1. M!Month(first).start = first /\ M!Month(first).end = first + 3
    BY <1>1
  <2>. QED  BY <1>2, <2>1 DEF M!FromReadings, BalanceOf
<1>4. ASSUME NEW t
      PROVE  t \in M!Sufficient(M!Month(first)) <=>
                 /\ t \in Transformers
                 /\ Measures(BalanceOf(trafoReadings, ucReadings, t, first),
                             trafoReadings, ucReadings)
  BY <1>2 DEF M!Sufficient, Measures, BalanceOf
<1>. QED  BY <1>1, <1>3, <1>4

(* The same after a step.                                                  *)
LEMMA CalculatedNext ==
    ASSUME NEW first \in Int, NEW t
    PROVE  /\ M!FromReadings(t, M!Month(first))'
                 = BalanceOf(trafoReadings', ucReadings', t, first)
           /\ t \in M!Sufficient(M!Month(first))' <=>
                 /\ t \in Transformers
                 /\ Measures(BalanceOf(trafoReadings', ucReadings', t, first),
                             trafoReadings', ucReadings')
<1>1. M!Month(first) = [start |-> first, end |-> first + 3]
  BY DEF M!Month, M!MonthLength
<1>2. /\ M!AggregateByTransformerAndPeriod(t, M!Month(first))'
             = Cardinality(ReadIn(trafoReadings', t, first))
      /\ M!GetTotalByTransformerAndPeriod(t, M!Month(first))'
             = Cardinality(ReadIn(ucReadings', t, first))
  <2>1. M!Month(first).start = first /\ M!Month(first).end = first + 3
    BY <1>1
  <2>2. {r \in trafoReadings' : r.row = t /\ M!In(r.at, M!Month(first))}
           = ReadIn(trafoReadings', t, first)
    BY <2>1 DEF M!In, ReadIn
  <2>3. {r \in ucReadings' : r.row = t /\ M!In(r.at, M!Month(first))}
           = ReadIn(ucReadings', t, first)
    BY <2>1 DEF M!In, ReadIn
  <2>4. M!AggregateByTransformerAndPeriod(t, M!Month(first))'
           = Cardinality({r \in trafoReadings' : r.row = t /\ M!In(r.at, M!Month(first))})
    BY Counting DEF M!AggregateByTransformerAndPeriod, M!In, M!Month, M!MonthLength
  <2>5. M!GetTotalByTransformerAndPeriod(t, M!Month(first))'
           = Cardinality({r \in ucReadings' : r.row = t /\ M!In(r.at, M!Month(first))})
    BY Counting DEF M!GetTotalByTransformerAndPeriod, M!GetByTransformerAndPeriod,
           M!In, M!Month, M!MonthLength
  <2>. QED  BY <2>2, <2>3, <2>4, <2>5
<1>3. M!FromReadings(t, M!Month(first))'
          = BalanceOf(trafoReadings', ucReadings', t, first)
  <2>1. M!Month(first).start = first /\ M!Month(first).end = first + 3
    BY <1>1
  <2>. QED  BY <1>2, <2>1 DEF M!FromReadings, BalanceOf, M!Month, M!MonthLength
<1>4. t \in M!Sufficient(M!Month(first))' <=>
          /\ t \in Transformers
          /\ Measures(BalanceOf(trafoReadings', ucReadings', t, first),
                      trafoReadings', ucReadings')
  BY <1>2 DEF M!Sufficient, Measures, BalanceOf
<1>. QED  BY <1>3, <1>4

(* What both servers do with new balances is the same.                     *)
LEMMA SameStores ==
    /\ \A new : MUtc!Upsert(new) <=> M!Upsert(new)
    /\ \A new : MUtc!Done(new) = M!Done(new)
    /\ \A first : MUtc!Month(first) = M!Month(first)
    /\ \A t, p : MUtc!FromReadings(t, p) = M!FromReadings(t, p)
    /\ \A p : MUtc!Sufficient(p) = M!Sufficient(p)
<1>1. \A new : MUtc!Upsert(new) <=> M!Upsert(new)
  BY DEF M!Upsert, MUtc!Upsert, M!Replaces, MUtc!Replaces
<1>2. \A first : MUtc!Month(first) = M!Month(first)
  BY DEF M!Month, MUtc!Month, M!MonthLength, MUtc!MonthLength
<1>3. \A p : MUtc!WholeMonth(p) <=> M!WholeMonth(p)
  BY <1>2, SameMonths DEF M!WholeMonth, MUtc!WholeMonth, M!Brasilia, MUtc!Brasilia
<1>4. \A new : MUtc!Done(new) = M!Done(new)
  BY <1>3 DEF M!Done, MUtc!Done
<1>5. /\ \A t, p : MUtc!AggregateByTransformerAndPeriod(t, p)
                       = M!AggregateByTransformerAndPeriod(t, p)
      /\ \A t, p : MUtc!GetTotalByTransformerAndPeriod(t, p)
                       = M!GetTotalByTransformerAndPeriod(t, p)
  BY Counting DEF M!AggregateByTransformerAndPeriod, MUtc!AggregateByTransformerAndPeriod,
         M!GetTotalByTransformerAndPeriod, MUtc!GetTotalByTransformerAndPeriod,
         M!GetByTransformerAndPeriod, MUtc!GetByTransformerAndPeriod, M!In, MUtc!In
<1>6. \A t, p : MUtc!FromReadings(t, p) = M!FromReadings(t, p)
  BY <1>5 DEF M!FromReadings, MUtc!FromReadings
<1>7. \A p : MUtc!Sufficient(p) = M!Sufficient(p)
  BY <1>5 DEF M!Sufficient, MUtc!Sufficient
<1>. QED  BY <1>1, <1>2, <1>4, <1>6, <1>7

(* A month of Brasilia is whole, one of UTC is not.                        *)
LEMMA WholeIs ==
    ASSUME NEW b, OfAMonth(b)
    PROVE  M!WholeMonth([start |-> b.start, end |-> b.end]) <=> Begins(b.start)
<1>1. b.start \in Int /\ b.end = b.start + 3 /\ M!MonthStart(b.start, 1) \in Int
  BY MonthFacts DEF OfAMonth
<1>2. Begins(b.start) <=> M!MonthStart(b.start, 1) = b.start
  BY <1>1, MonthsDiffer
<1>. QED  BY <1>1, <1>2 DEF M!WholeMonth, M!Month, M!MonthLength, M!Brasilia

(* Months are done when a balance of their readings is stored, which then  *)
(* takes the place of any other.                                           *)
LEMMA DoneIs ==
    ASSUME NEW new, \A c \in new : OfAMonth(c), NEW b, OfAMonth(b), Begins(b.start),
           \A c \in new : ~M!Replaces(b, c)
    PROVE  <<b.row, b.start>> \notin M!Done(new)
<1>1. SUFFICES ASSUME NEW c \in new, <<b.row, b.start>> = <<c.row, c.start>>
               PROVE  FALSE
  BY DEF M!Done
<1>2. b.row = c.row /\ b.start = c.start /\ b.end = c.end
  BY <1>1 DEF OfAMonth
<1>. QED  BY <1>1, <1>2 DEF M!Replaces

LEMMA DoneMeasures ==
    ASSUME NEW new, \A c \in new : OfAMonth(c), NEW x
    PROVE  x \in M!Done(new) <=>
               \E c \in new : /\ Begins(c.start) /\ ~c.manual
                              /\ x = <<c.row, c.start>>
BY WholeIs DEF M!Done

-----------------------------------------------------------------------------
(* A calculation of months, of any transformers at once.                   *)
LEMMA CalculationKeeps ==
    ASSUME MeterInv, NEW new,
           \A c \in new : /\ OfAMonth(c)
                          /\ Measures(c, trafoReadings, ucReadings),
           M!Upsert(new), behind' = behind \ M!Done(new),
           UNCHANGED <<trafoReadings, ucReadings, scene>>
    PROVE  BalancesOK(balances, trafoReadings, ucReadings, behind)'
<1> DEFINE tr == trafoReadings
           ur == ucReadings
<1>1. OnePerKey(new)
  BY DEF OnePerKey, Measures
<1>2. BalancesOK(balances, tr, ur, behind)
  BY DEF MeterInv
<1>3. ASSUME NEW b \in balances, Begins(b.start), <<b.row, b.start>> \notin behind',
             \A c \in new : ~M!Replaces(b, c)
      PROVE  <<b.row, b.start>> \notin behind
  <2>1. <<b.row, b.start>> \notin M!Done(new)
    BY <1>2, <1>3, DoneIs DEF BalancesOK
  <2>. QED  BY <1>3, <2>1
<1>4. BalancesOK({b \in balances : \A c \in new : ~M!Replaces(b, c)} \cup new,
                 tr, ur, behind')
  <2> HIDE DEF tr, ur
  <2>. QED  BY <1>1, <1>2, <1>3, StoreKeeps DEF tr, ur
<1>5. balances' = {b \in balances : \A c \in new : ~M!Replaces(b, c)} \cup new
  BY DEF M!Upsert
<1>6. BalancesOK(balances', tr', ur', behind')
  BY <1>4, <1>5
<1>. QED  BY <1>6 DEF BalancesOK, OfAMonth

LEMMA CalculateKeeps ==
    ASSUME MeterInv, NEW ts, NEW first \in Int,
           Begins(first) \/ (scene # "metering" /\ BeginsUtc(first)),
           M!CalculateBalance(ts, M!Month(first)), UNCHANGED scene
    PROVE  MeterInv'
<1> DEFINE new == {M!FromReadings(t, M!Month(first)) :
                      t \in ts \cap M!Sufficient(M!Month(first))}
<1>1. /\ M!Upsert(new) /\ behind' = behind \ M!Done(new)
      /\ UNCHANGED <<home, trafoReadings, ucReadings, today, moves>>
  BY DEF M!CalculateBalance
<1>2. \A c \in new : OfAMonth(c) /\ Measures(c, trafoReadings, ucReadings)
  <2>1. SUFFICES ASSUME NEW t \in M!Sufficient(M!Month(first))
                 PROVE  LET c == M!FromReadings(t, M!Month(first))
                        IN  OfAMonth(c) /\ Measures(c, trafoReadings, ucReadings)
    OBVIOUS
  <2>2. /\ t \in Transformers
        /\ M!FromReadings(t, M!Month(first))
              = BalanceOf(trafoReadings, ucReadings, t, first)
        /\ Measures(BalanceOf(trafoReadings, ucReadings, t, first),
                    trafoReadings, ucReadings)
    BY <2>1, Calculated
  <2> DEFINE c == BalanceOf(trafoReadings, ucReadings, t, first)
  <2>3. c.row = t /\ c.start = first /\ c.end = first + 3
    BY DEF BalanceOf
  <2> HIDE DEF c
  <2>4. OfAMonth(c)
    BY <2>2, <2>3 DEF OfAMonth
  <2>. QED  BY <2>2, <2>4 DEF c
<1> HIDE DEF new
<1>3. BalancesOK(balances, trafoReadings, ucReadings, behind)'
  BY <1>1, <1>2, CalculationKeeps
<1>4. MeterTypes'
  BY <1>1 DEF MeterInv, MeterTypes
<1>. QED  BY <1>3, <1>4 DEF MeterInv

(* A balance given by hand for a month leaves it behind.                   *)
LEMMA ManualKeeps ==
    ASSUME MeterInv, NEW t \in Transformers, NEW first \in Int,
           Begins(first) \/ (scene # "metering" /\ BeginsUtc(first)),
           M!CalculateManually(t, M!Month(first)), UNCHANGED scene
    PROVE  MeterInv'
<1> DEFINE given == [row |-> t, start |-> first, end |-> first + 3,
                     manual |-> TRUE, inj |-> 2, con |-> 1]
           new == {given}
           tr == trafoReadings
           ur == ucReadings
<1>1. M!Month(first) = [start |-> first, end |-> first + 3]
  BY Calculated
<1>2. /\ M!Upsert(new)
      /\ behind' = behind \cup {<<t, m>> : m \in M!MonthsOf(M!Month(first))}
      /\ UNCHANGED <<home, trafoReadings, ucReadings, today, moves>>
  <2>1. /\ M!Month(first).start = first /\ M!Month(first).end = first + 3
    BY <1>1
  <2>. QED  BY <2>1 DEF M!CalculateManually
<1>3. Begins(first) => <<t, first>> \in behind'
  <2> SUFFICES ASSUME Begins(first) PROVE <<t, first>> \in behind'
    OBVIOUS
  <2>1. first \in M!Month(first).start .. M!Month(first).end
    BY <1>1
  <2>2. M!MonthStart(first, 1) = first
    BY MonthsDiffer
  <2>3. first \in M!MonthsOf(M!Month(first))
    BY <2>1, <2>2 DEF M!MonthsOf, M!Brasilia
  <2>. QED  BY <1>2, <2>3
<1>4. given.row = t /\ given.start = first /\ OfAMonth(given)
  BY DEF OfAMonth
<1>5. BalancesOK(balances, tr, ur, behind)
  BY DEF MeterInv
<1> HIDE DEF given
<1>6. /\ \A c \in new : /\ OfAMonth(c)
                        /\ <<c.row, c.start>> \in behind' \/ ~Begins(c.start)
      /\ OnePerKey(new)
  <2>1. <<given.row, given.start>> \in behind' \/ ~Begins(given.start)
    BY <1>3, <1>4
  <2>2. \A c \in new : c = given
    OBVIOUS
  <2>3. OnePerKey(new)
    BY <2>2 DEF OnePerKey
  <2>. QED  BY <1>4, <2>1, <2>2, <2>3
<1>7. \A b \in balances : <<b.row, b.start>> \notin behind' =>
          <<b.row, b.start>> \notin behind
  BY <1>2
<1> HIDE DEF new, tr, ur
<1>8. BalancesOK({b \in balances : \A c \in new : ~M!Replaces(b, c)} \cup new,
                 tr, ur, behind')
  <2>1. \A c \in new : OfAMonth(c)
    BY <1>6
  <2>2. \A c \in new : Measures(c, tr, ur) \/ <<c.row, c.start>> \in behind'
                        \/ ~Begins(c.start)
    BY <1>6
  <2>3. OnePerKey(new)
    BY <1>6
  <2>4. \A b \in balances :
            Begins(b.start) /\ <<b.row, b.start>> \notin behind'
            /\ (\A c \in new : ~M!Replaces(b, c))
                => /\ <<b.row, b.start>> \notin behind
                   /\ BalanceOf(tr, ur, b.row, b.start)
                         = BalanceOf(tr, ur, b.row, b.start)
    BY <1>7
  <2>. QED  BY <1>5, <2>1, <2>2, <2>3, <2>4, StoreKeeps
<1>9. BalancesOK(balances', tr', ur', behind')
  BY <1>2, <1>8 DEF M!Upsert, tr, ur
<1>10. BalancesOK(balances, trafoReadings, ucReadings, behind)'
  BY <1>9 DEF BalancesOK, OfAMonth, tr, ur
<1>11. MeterTypes'
  BY <1>2 DEF MeterInv, MeterTypes
<1>. QED  BY <1>10, <1>11 DEF MeterInv

(* The daily job calculates one month or two, of Brasilia.                 *)
LEMMA RecalculateKeeps ==
    ASSUME MeterInv, M!RecalculateAll \/ MUtc!RecalculateAll, UNCHANGED scene
    PROVE  MeterInv'
<1> DEFINE first == M!MonthStart(today, 1)
           early == (today - first) \div 2 < 1
           ps == {M!Month(first)} \cup IF early THEN {M!Month(first - 4)} ELSE {}
           new == UNION {{M!FromReadings(t, p) : t \in M!Sufficient(p)} : p \in ps}
<1>1. /\ M!Upsert(new) /\ behind' = behind \ M!Done(new)
      /\ UNCHANGED <<home, trafoReadings, ucReadings, today, moves>>
  <2>1. CASE M!RecalculateAll
    BY <2>1 DEF M!RecalculateAll, M!Brasilia, M!DayLength, M!GraceDays, M!MonthLength
  <2>2. CASE MUtc!RecalculateAll
    <3> DEFINE first2 == MUtc!MonthStart(today, 1)
               early2 == (today - first2) \div 2 < 1
               ps2 == {MUtc!Month(first2)}
                      \cup IF early2 THEN {MUtc!Month(first2 - 4)} ELSE {}
               new2 == UNION {{MUtc!FromReadings(t, p) : t \in MUtc!Sufficient(p)} :
                              p \in ps2}
    <3>1. /\ MUtc!Upsert(new2) /\ behind' = behind \ MUtc!Done(new2)
          /\ UNCHANGED <<home, trafoReadings, ucReadings, today, moves>>
      BY <2>2 DEF MUtc!RecalculateAll, MUtc!Brasilia, MUtc!DayLength,
                  MUtc!GraceDays, MUtc!MonthLength
    <3>2. first2 = first
      BY SameMonths
    <3>3. early2 = early
      BY <3>2
    <3>4. ps2 = ps
      BY <3>2, <3>3, SameStores
    <3>5. \A p : {MUtc!FromReadings(t, p) : t \in MUtc!Sufficient(p)}
                   = {M!FromReadings(t, p) : t \in M!Sufficient(p)}
      BY SameStores
    <3> HIDE DEF ps2, ps
    <3>6. new2 = new
      BY <3>4, <3>5
    <3> HIDE DEF new2, new
    <3>. QED  BY <3>1, <3>6, SameStores
  <2>. QED  BY <2>1, <2>2
<1>2. first \in Int /\ Begins(first)
  BY MonthFacts DEF MeterInv, MeterTypes
<1>3. first - 4 \in Int /\ Begins(first - 4)
  <2> HIDE DEF first
  <2>1. PICK k \in Int : first = 4 * k + 1
    BY <1>2 DEF Begins
  <2>2. first - 4 = 4 * (k - 1) + 1 /\ k - 1 \in Int
    BY <2>1
  <2>. QED  BY <1>2, <2>2 DEF Begins
<1>4. \A p \in ps : \E x \in Int : Begins(x) /\ p = M!Month(x)
  BY <1>2, <1>3
<1> HIDE DEF first, early, ps
<1>5. \A c \in new : OfAMonth(c) /\ Measures(c, trafoReadings, ucReadings)
  <2>1. SUFFICES ASSUME NEW x \in Int, Begins(x), NEW t \in M!Sufficient(M!Month(x))
                 PROVE  LET c == M!FromReadings(t, M!Month(x))
                        IN  OfAMonth(c) /\ Measures(c, trafoReadings, ucReadings)
    BY <1>4
  <2>2. /\ t \in Transformers
        /\ M!FromReadings(t, M!Month(x)) = BalanceOf(trafoReadings, ucReadings, t, x)
        /\ Measures(BalanceOf(trafoReadings, ucReadings, t, x),
                    trafoReadings, ucReadings)
    BY <2>1, Calculated
  <2> DEFINE c == BalanceOf(trafoReadings, ucReadings, t, x)
  <2>3. c.row = t /\ c.start = x /\ c.end = x + 3
    BY DEF BalanceOf
  <2> HIDE DEF c
  <2>4. OfAMonth(c)
    BY <2>1, <2>2, <2>3 DEF OfAMonth
  <2>. QED  BY <2>2, <2>4 DEF c
<1> HIDE DEF new
<1>6. BalancesOK(balances, trafoReadings, ucReadings, behind)'
  BY <1>1, <1>5, CalculationKeeps
<1>7. MeterTypes'
  BY <1>1 DEF MeterInv, MeterTypes
<1>. QED  BY <1>6, <1>7 DEF MeterInv

-----------------------------------------------------------------------------
(* A reading more, at one instant of one transformer: the balances of other*)
(* months and transformers are still of their readings, and there are not  *)
(* less readings than before.                                              *)
OneMore(old, new, t, at) ==
    /\ old \subseteq new /\ IsFiniteSet(new)
    /\ \A r \in new : r \in old \/ (r.row = t /\ r.at = at)

LEMMA OneMoreReading ==
    ASSUME NEW old, NEW new, NEW t, NEW at \in Int, OneMore(old, new, t, at)
    PROVE  /\ \A u : \A first \in Int :
                 ~(u = t /\ first <= at /\ at <= first + 3)
                     => ReadIn(new, u, first) = ReadIn(old, u, first)
           /\ \A u : \A first \in Int :
                 /\ Cardinality(ReadIn(new, u, first)) \in Nat
                 /\ Cardinality(ReadIn(old, u, first)) \in Nat
                 /\ Cardinality(ReadIn(old, u, first))
                       <= Cardinality(ReadIn(new, u, first))
<1>1. ASSUME NEW u, NEW first \in Int,
             ~(u = t /\ first <= at /\ at <= first + 3)
      PROVE  ReadIn(new, u, first) = ReadIn(old, u, first)
  BY <1>1 DEF ReadIn, OneMore
<1>2. ASSUME NEW u, NEW first \in Int
      PROVE  /\ Cardinality(ReadIn(new, u, first)) \in Nat
             /\ Cardinality(ReadIn(old, u, first)) \in Nat
             /\ Cardinality(ReadIn(old, u, first))
                   <= Cardinality(ReadIn(new, u, first))
  <2>1. /\ ReadIn(old, u, first) \subseteq ReadIn(new, u, first)
        /\ ReadIn(new, u, first) \subseteq new
    BY DEF ReadIn, OneMore
  <2>2. IsFiniteSet(ReadIn(new, u, first))
    BY <2>1, FS_Subset DEF OneMore
  <2>3. IsFiniteSet(ReadIn(old, u, first))
    BY <2>1, <2>2, FS_Subset
  <2>. QED  BY <2>1, <2>2, <2>3, FS_Subset, FS_CardinalityType
<1>. QED  BY <1>1, <1>2

LEMMA ReadingKeeps ==
    ASSUME MeterInv, NEW t \in Transformers, NEW at \in Int,
           NEW zone \in {0, 1}, zone = 0 => scene # "metering", NEW recalculate,
           OneMore(trafoReadings, trafoReadings', t, at),
           OneMore(ucReadings, ucReadings', t, at),
           M!Recalculated(t, at, zone, recalculate), UNCHANGED scene
    PROVE  BalancesOK(balances, trafoReadings, ucReadings, behind)'
<1> DEFINE tr == trafoReadings
           ur == ucReadings
           first == M!MonthStart(at, zone)
           all == M!RecalcMonth(t, at, zone)
           new == IF recalculate THEN all ELSE {}
           late == IF recalculate /\ zone = 1 THEN behind
                   ELSE behind \cup {<<t, M!MonthStart(at, 1)>>}
<1>1. /\ balances' = {b \in balances : \A c \in new : ~M!Replaces(b, c)} \cup new
      /\ behind' = late \ M!Done(new)
  BY DEF M!Recalculated, M!Upsert, M!Brasilia
<1>2. /\ first \in Int
      /\ zone = 1 => Begins(first)
      /\ zone = 0 => BeginsUtc(first)
  BY MonthFacts, UtcMonthFacts
<1>3. /\ \A u : \A x \in Int :
             ~(u = t /\ x <= at /\ at <= x + 3)
                 => BalanceOf(tr', ur', u, x) = BalanceOf(tr, ur, u, x)
      /\ \A u : \A x \in Int :
             Measures(BalanceOf(tr, ur, u, x), tr, ur)
                 => Measures(BalanceOf(tr', ur', u, x), tr', ur')
  <2>1. /\ \A u : \A x \in Int : ~(u = t /\ x <= at /\ at <= x + 3)
              => ReadIn(tr', u, x) = ReadIn(tr, u, x)
        /\ \A u : \A x \in Int :
              /\ Cardinality(ReadIn(tr', u, x)) \in Nat
              /\ Cardinality(ReadIn(tr, u, x)) \in Nat
              /\ Cardinality(ReadIn(tr, u, x)) <= Cardinality(ReadIn(tr', u, x))
    BY OneMoreReading
  <2>2. /\ \A u : \A x \in Int : ~(u = t /\ x <= at /\ at <= x + 3)
              => ReadIn(ur', u, x) = ReadIn(ur, u, x)
        /\ \A u : \A x \in Int :
              /\ Cardinality(ReadIn(ur', u, x)) \in Nat
              /\ Cardinality(ReadIn(ur, u, x)) \in Nat
              /\ Cardinality(ReadIn(ur, u, x)) <= Cardinality(ReadIn(ur', u, x))
    BY OneMoreReading
  <2> HIDE DEF tr, ur
  <2>3. ASSUME NEW u, NEW x \in Int, ~(u = t /\ x <= at /\ at <= x + 3)
        PROVE  BalanceOf(tr', ur', u, x) = BalanceOf(tr, ur, u, x)
    BY <2>1, <2>2, <2>3 DEF BalanceOf
  <2>4. ASSUME NEW u, NEW x \in Int, Measures(BalanceOf(tr, ur, u, x), tr, ur)
        PROVE  Measures(BalanceOf(tr', ur', u, x), tr', ur')
    <3>1. /\ Cardinality(ReadIn(tr, u, x)) > 0 /\ Cardinality(ReadIn(ur, u, x)) > 0
      BY <2>4 DEF Measures, BalanceOf
    <3>2. /\ Cardinality(ReadIn(tr', u, x)) > 0 /\ Cardinality(ReadIn(ur', u, x)) > 0
      BY <2>1, <2>2, <3>1
    <3>. QED  BY <3>2 DEF Measures, BalanceOf
  <2>. QED  BY <2>3, <2>4
<1>4. all = IF Measures(BalanceOf(tr', ur', t, first), tr', ur')
            THEN {BalanceOf(tr', ur', t, first)} ELSE {}
  <2>1. M!FromReadings(t, M!Month(first))' = BalanceOf(tr', ur', t, first)
    BY <1>2, CalculatedNext
  <2>2. t \in M!Sufficient(M!Month(first))' <=>
            Measures(BalanceOf(tr', ur', t, first), tr', ur')
    BY <1>2, CalculatedNext
  <2>3. all = IF t \in M!Sufficient(M!Month(first))'
              THEN {M!FromReadings(t, M!Month(first))'} ELSE {}
    BY DEF M!RecalcMonth
  <2> HIDE DEF all
  <2>. QED  BY <2>1, <2>2, <2>3
<1>5. \A c \in new : OfAMonth(c) /\ c.row = t /\ c.start = first /\ Measures(c, tr', ur')
  <2> DEFINE c == BalanceOf(tr', ur', t, first)
  <2>1. c.row = t /\ c.start = first /\ c.end = first + 3
    BY DEF BalanceOf
  <2> HIDE DEF c, first, all, tr, ur
  <2>2. OfAMonth(c)
    BY <1>2, <2>1 DEF OfAMonth
  <2>3. \A d \in all : d = c /\ Measures(c, tr', ur')
    BY <1>4 DEF c
  <2>. QED  BY <2>1, <2>2, <2>3
<1>6. OnePerKey(new)
  BY <1>5 DEF OnePerKey, Measures
<1>7. BalancesOK(balances, tr, ur, behind)
  BY DEF MeterInv
<1>8. ASSUME NEW b \in balances, Begins(b.start), <<b.row, b.start>> \notin behind',
             \A c \in new : ~M!Replaces(b, c)
      PROVE  /\ <<b.row, b.start>> \notin behind
             /\ BalanceOf(tr', ur', b.row, b.start) = BalanceOf(tr, ur, b.row, b.start)
  <2>1. OfAMonth(b) /\ b.start \in Int /\ b.end = b.start + 3
    BY <1>7 DEF BalancesOK, OfAMonth
  <2>2. <<b.row, b.start>> \notin M!Done(new)
    <3> HIDE DEF new, first, tr, ur
    <3>. QED  BY <1>5, <1>8, <2>1, DoneIs
  <2>3. <<b.row, b.start>> \notin late
    BY <1>1, <1>8, <2>2
  <2>4. ASSUME b.row = t, b.start <= at, at <= b.start + 3
        PROVE  FALSE
    <3>1. M!MonthStart(at, 1) = b.start
      BY <1>8, <2>1, <2>4, MonthIs
    <3>2. recalculate /\ zone = 1
      BY <2>3, <2>4, <3>1
    <3>3. first = b.start /\ new = all
      BY <3>1, <3>2
    <3>4. <<b.row, b.start>> \notin behind
      BY <2>3
    <3> HIDE DEF first, new, all, tr, ur
    <3>5. Measures(b, tr, ur)
      BY <1>7, <1>8, <3>4 DEF BalancesOK
    <3>6. Measures(BalanceOf(tr', ur', t, first), tr', ur')
      <4>1. b = BalanceOf(tr, ur, t, first)
        BY <2>4, <3>3, <3>5 DEF Measures
      <4>. QED  BY <1>2, <1>3, <3>5, <4>1
    <3>7. BalanceOf(tr', ur', t, first) \in new
      BY <1>4, <3>3, <3>6
    <3>8. M!Replaces(b, BalanceOf(tr', ur', t, first))
      BY <2>1, <2>4, <3>3 DEF M!Replaces, BalanceOf
    <3>. QED  BY <1>8, <3>7, <3>8
  <2>5. <<b.row, b.start>> \notin behind
    BY <2>3
  <2>. QED  BY <1>3, <2>1, <2>4, <2>5
<1>9. BalancesOK({b \in balances : \A c \in new : ~M!Replaces(b, c)} \cup new,
                 tr', ur', behind')
  <2> HIDE DEF new, tr, ur
  <2>. QED  BY <1>5, <1>6, <1>7, <1>8, StoreKeeps
<1>10. BalancesOK(balances', tr', ur', behind')
  BY <1>1, <1>9
<1>. QED  BY <1>10 DEF BalancesOK, OfAMonth

LEMMA SameRecalculation ==
    \A t, at, zone, recalculate :
        MUtc!Recalculated(t, at, zone, recalculate)
            <=> M!Recalculated(t, at, zone, recalculate)
<1>1. /\ \A t, p : MUtc!AggregateByTransformerAndPeriod(t, p)'
                       = M!AggregateByTransformerAndPeriod(t, p)'
      /\ \A t, p : MUtc!GetTotalByTransformerAndPeriod(t, p)'
                       = M!GetTotalByTransformerAndPeriod(t, p)'
  BY Counting DEF M!AggregateByTransformerAndPeriod, MUtc!AggregateByTransformerAndPeriod,
         M!GetTotalByTransformerAndPeriod, MUtc!GetTotalByTransformerAndPeriod,
         M!GetByTransformerAndPeriod, MUtc!GetByTransformerAndPeriod, M!In, MUtc!In
<1>2. /\ \A t, p : MUtc!FromReadings(t, p)' = M!FromReadings(t, p)'
      /\ \A p : MUtc!Sufficient(p)' = M!Sufficient(p)'
  BY <1>1 DEF M!FromReadings, MUtc!FromReadings, M!Sufficient, MUtc!Sufficient
<1>3. \A at, zone : MUtc!Month(MUtc!MonthStart(at, zone)) = M!Month(M!MonthStart(at, zone))
  BY SameStores, SameMonths
<1>4. \A t, at, zone : MUtc!RecalcMonth(t, at, zone) = M!RecalcMonth(t, at, zone)
  BY <1>2, <1>3 DEF M!RecalcMonth, MUtc!RecalcMonth
<1>5. ASSUME NEW t, NEW at, NEW zone, NEW recalculate
      PROVE  MUtc!Recalculated(t, at, zone, recalculate)
                 <=> M!Recalculated(t, at, zone, recalculate)
  BY <1>4, SameStores, SameMonths DEF M!Recalculated, MUtc!Recalculated,
     M!Brasilia, MUtc!Brasilia
<1>. QED  BY <1>5

(* A reading typed in, of a transformer or of a unit, in either setting.   *)
LEMMA TrafoReadingKeeps ==
    ASSUME MeterInv, NEW t \in Transformers, NEW at \in 1 .. Horizon,
           NEW zone \in {0, 1}, zone = 0 => scene # "metering", NEW recalculate,
           \/ M!AddTransformerReading(t, at, zone, recalculate)
           \/ MUtc!AddTransformerReading(t, at, zone, recalculate),
           UNCHANGED scene
    PROVE  MeterInv'
<1>1. /\ trafoReadings' = trafoReadings \cup {[row |-> t, at |-> at]}
      /\ UNCHANGED <<home, ucReadings, today, moves>>
      /\ M!Recalculated(t, at, zone, recalculate)
  BY SameRecalculation DEF M!AddTransformerReading, MUtc!AddTransformerReading
<1>2. IsFiniteSet(trafoReadings) /\ IsFiniteSet(ucReadings) /\ at \in Int
  BY MeteringAssumption DEF MeterInv, MeterTypes
<1>3. IsFiniteSet(trafoReadings')
  BY <1>1, <1>2, FS_AddElement
<1>4. OneMore(trafoReadings, trafoReadings', t, at)
  BY <1>1, <1>3 DEF OneMore
<1>5. OneMore(ucReadings, ucReadings', t, at)
  BY <1>1, <1>2 DEF OneMore
<1>6. BalancesOK(balances, trafoReadings, ucReadings, behind)'
  BY <1>1, <1>2, <1>4, <1>5, ReadingKeeps
<1>7. MeterTypes'
  BY <1>1, <1>3 DEF MeterInv, MeterTypes
<1>. QED  BY <1>6, <1>7 DEF MeterInv

LEMMA UnitReadingKeeps ==
    ASSUME MeterInv, NEW u \in Meters, NEW at \in 1 .. Horizon,
           NEW zone \in {0, 1}, zone = 0 => scene # "metering", NEW recalculate,
           \/ M!AddUCReading(u, at, zone, recalculate)
           \/ MUtc!AddUCReading(u, at, zone, recalculate),
           UNCHANGED scene
    PROVE  MeterInv'
<1> DEFINE t == home[u]
<1>1. /\ ucReadings' = ucReadings \cup {[unit |-> u, row |-> t, at |-> at]}
      /\ UNCHANGED <<home, trafoReadings, today, moves>>
      /\ M!Recalculated(t, at, zone, recalculate)
      /\ t # NoTransformer
  BY SameRecalculation DEF M!AddUCReading, MUtc!AddUCReading
<1>2. /\ IsFiniteSet(trafoReadings) /\ IsFiniteSet(ucReadings) /\ at \in Int
      /\ t \in Transformers
  BY <1>1, MeteringAssumption DEF MeterInv, MeterTypes
<1> HIDE DEF t
<1>3. IsFiniteSet(ucReadings')
  BY <1>1, <1>2, FS_AddElement
<1>4. OneMore(ucReadings, ucReadings', t, at)
  BY <1>1, <1>3 DEF OneMore
<1>5. OneMore(trafoReadings, trafoReadings', t, at)
  BY <1>1, <1>2 DEF OneMore
<1>6. BalancesOK(balances, trafoReadings, ucReadings, behind)'
  BY <1>1, <1>2, <1>4, <1>5, ReadingKeeps
<1>7. MeterTypes'
  BY <1>1, <1>2, <1>3 DEF MeterInv, MeterTypes
<1>. QED  BY <1>6, <1>7 DEF MeterInv

(* Time passes, and a unit moves.                                          *)
LEMMA RestKeeps ==
    ASSUME MeterInv, UNCHANGED scene,
           \/ scene = "metering" /\ M!Tick
           \/ scene # "metering" /\ MUtc!Tick
           \/ \E u \in Meters, t \in Transformers \cup {NoTransformer} :
                  \/ scene = "metering" /\ M!MoveUnit(u, t)
                  \/ scene # "metering" /\ MUtc!MoveUnit(u, t)
           \/ UNCHANGED <<home, trafoReadings, ucReadings, balances, today, behind,
                          moves>>
    PROVE  MeterInv'
<1>1. UNCHANGED <<trafoReadings, ucReadings, balances, behind>>
  BY DEF M!Tick, MUtc!Tick, M!MoveUnit, MUtc!MoveUnit
<1>2. BalancesOK(balances, trafoReadings, ucReadings, behind)'
  BY <1>1 DEF MeterInv, BalancesOK, OfAMonth
<1>3. today' \in 1 .. Horizon
  BY MeteringAssumption
     DEF M!Tick, MUtc!Tick, M!MoveUnit, MUtc!MoveUnit, MeterInv, MeterTypes
<1>4. home' \in [Meters -> Transformers \cup {NoTransformer}]
  BY DEF M!Tick, MUtc!Tick, M!MoveUnit, MUtc!MoveUnit, MeterInv, MeterTypes
<1>5. /\ moves' \in Nat
      /\ moves' <= IF scene' = "metering" THEN Moves["metering"]
                   ELSE Moves["meteringUtc"]
  <2>1. Moves["metering"] \in Nat /\ Moves["meteringUtc"] \in Nat
    BY MeteringAssumption
  <2>2. CASE moves' = moves
    BY <2>2 DEF MeterInv, MeterTypes
  <2>3. CASE moves' # moves
    <3>1. /\ moves' = moves + 1
          /\ moves < IF scene = "metering" THEN Moves["metering"]
                     ELSE Moves["meteringUtc"]
      BY <2>3 DEF M!Tick, MUtc!Tick, M!MoveUnit, MUtc!MoveUnit
    <3>. QED  BY <2>1, <3>1 DEF MeterInv, MeterTypes
  <2>. QED  BY <2>2, <2>3
<1>6. MeterTypes'
  BY <1>1, <1>3, <1>4, <1>5 DEF MeterInv, MeterTypes
<1>. QED  BY <1>2, <1>6 DEF MeterInv

-----------------------------------------------------------------------------
(* Whatever period a request names, it is a month: of Brasilia, or the     *)
(* month before this one in UTC.                                           *)
LEMMA PeriodsAreMonths ==
    ASSUME MeterInv
    PROVE  /\ \A p \in M!Periods : \E first \in Int : Begins(first) /\ p = M!Month(first)
           /\ \A p \in MUtc!Periods : \E first \in Int :
                 (Begins(first) \/ BeginsUtc(first)) /\ p = M!Month(first)
<1>1. ASSUME NEW first \in Int, Begins(first)
      PROVE  M!NormalizePeriod(first, first + 2, 1) = M!Month(first)
  <2>1. PICK k \in Int : first = 4 * k + 1
    BY <1>1 DEF Begins
  <2>2. (first + 2 - 1) % 2 = 0
    <3>1. first + 2 - 1 = 2 * (2 * k + 1)
      BY <2>1
    <3>2. (2 * (2 * k + 1)) % 2 = 0
      OBVIOUS
    <3>. QED  BY <3>1, <3>2
  <2>3. first + 2 + 2 - 1 = first + 3 /\ first + 4 - 1 = first + 3
    OBVIOUS
  <2>. QED  BY <2>2, <2>3 DEF M!NormalizePeriod, M!Month, M!MonthLength, M!DayLength
<1>2. \E first \in Int : Begins(first) /\ M!DefaultPeriod = M!Month(first)
  <2> DEFINE this == M!MonthStart(today, 1)
  <2>1. this \in Int /\ Begins(this)
    BY MonthFacts DEF MeterInv, MeterTypes
  <2>2. M!DefaultPeriod = M!NormalizePeriod(this - 4, this - 2, 1)
    BY DEF M!DefaultPeriod, M!MonthLength, M!DayLength
  <2> HIDE DEF this
  <2>3. PICK k \in Int : this = 4 * k + 1
    BY <2>1 DEF Begins
  <2>4. this - 4 = 4 * (k - 1) + 1 /\ k - 1 \in Int /\ this - 2 = this - 4 + 2
        /\ this - 4 \in Int
    BY <2>3
  <2>5. Begins(this - 4)
    BY <2>4 DEF Begins
  <2>. QED  BY <1>1, <2>2, <2>4, <2>5
<1>3. ASSUME NEW x \in M!ParseDate("month")
      PROVE  \E first \in Int :
                 Begins(first) /\ M!NormalizePeriod(x[1], x[2], 1) = M!Month(first)
  <2>1. /\ x[1] \in 1 .. Horizon /\ M!MonthStart(x[1], 1) = x[1]
        /\ x[2] = x[1] + 4 - 2
    BY DEF M!ParseDate, M!Days, M!Instants, M!MonthLength, M!DayLength, M!Brasilia
  <2>2. x[1] \in Int /\ x[2] = x[1] + 2
    BY <2>1, MeteringAssumption
  <2>3. Begins(x[1])
    BY <2>1, <2>2, MonthsDiffer
  <2>. QED  BY <1>1, <2>2, <2>3
<1>4. ASSUME NEW p \in M!Periods
      PROVE  \/ p = M!DefaultPeriod
             \/ \E x \in M!ParseDate("month") : p = M!NormalizePeriod(x[1], x[2], 1)
  BY DEF M!Periods, M!Brasilia
<1>5. \E first \in Int : BeginsUtc(first) /\ MUtc!DefaultPeriod = M!Month(first)
  <2> DEFINE this == M!MonthStart(today, 0)
  <2>1. this \in Int /\ BeginsUtc(this)
    BY UtcMonthFacts DEF MeterInv, MeterTypes
  <2>2. MUtc!DefaultPeriod = MUtc!NormalizePeriod(this - 4, this - 2, 0)
    BY SameMonths DEF MUtc!DefaultPeriod, MUtc!MonthLength, MUtc!DayLength
  <2> HIDE DEF this
  <2>3. PICK k \in Int : this = 4 * k
    BY <2>1 DEF BeginsUtc
  <2>4. this - 4 = 4 * (k - 1) /\ k - 1 \in Int /\ this - 4 \in Int
    BY <2>3
  <2>5. BeginsUtc(this - 4)
    BY <2>4 DEF BeginsUtc
  <2>6. (this - 2 - 0) % 2 = 0
    <3>1. this - 2 - 0 = 2 * (2 * k - 1)
      BY <2>3
    <3>2. (2 * (2 * k - 1)) % 2 = 0
      OBVIOUS
    <3>. QED  BY <3>1, <3>2
  <2>7. this - 2 + 2 - 1 = this - 4 + 3 /\ this - 4 + 4 - 1 = this - 4 + 3
    BY <2>1
  <2>8. MUtc!NormalizePeriod(this - 4, this - 2, 0) = M!Month(this - 4)
    BY <2>6, <2>7 DEF MUtc!NormalizePeriod, M!Month, M!MonthLength, MUtc!DayLength
  <2>. QED  BY <2>2, <2>4, <2>5, <2>8
<1>6. ASSUME NEW p \in MUtc!Periods
      PROVE  \/ p = MUtc!DefaultPeriod
             \/ \E x \in M!ParseDate("month") : p = M!NormalizePeriod(x[1], x[2], 1)
  <2>1. MUtc!ParseDate("month") = M!ParseDate("month")
    BY SameMonths DEF M!ParseDate, MUtc!ParseDate, M!Days, MUtc!Days, M!Instants,
       MUtc!Instants, M!MonthLength, MUtc!MonthLength, M!DayLength, MUtc!DayLength,
       M!Brasilia, MUtc!Brasilia
  <2>2. \A a, b : MUtc!NormalizePeriod(a, b, 1) = M!NormalizePeriod(a, b, 1)
    BY DEF M!NormalizePeriod, MUtc!NormalizePeriod, M!DayLength, MUtc!DayLength
  <2>3. "days" \notin UtcRequests
    BY MeteringAssumption
  <2>4. \/ p = MUtc!DefaultPeriod
        \/ \E x \in MUtc!ParseDate("month") : p = MUtc!NormalizePeriod(x[1], x[2], 1)
    BY <2>3 DEF MUtc!Periods, MUtc!Brasilia
  <2>. QED  BY <2>1, <2>2, <2>4
<1>. QED  BY <1>2, <1>3, <1>4, <1>5, <1>6

(* Both servers calculate alike, once the period is known.                 *)
LEMMA SameCalculations ==
    /\ \A ts, p : MUtc!CalculateBalance(ts, p) <=> M!CalculateBalance(ts, p)
    /\ \A t, p : MUtc!CalculateManually(t, p) <=> M!CalculateManually(t, p)
<1>1. \A ts, p : MUtc!CalculateBalance(ts, p) <=> M!CalculateBalance(ts, p)
  BY SameStores DEF M!CalculateBalance, MUtc!CalculateBalance
<1>2. \A p : MUtc!MonthsOf(p) = M!MonthsOf(p)
  BY SameMonths DEF M!MonthsOf, MUtc!MonthsOf, M!Brasilia, MUtc!Brasilia
<1>3. \A t, p : MUtc!CalculateManually(t, p) <=> M!CalculateManually(t, p)
  BY <1>2, SameStores DEF M!CalculateManually, MUtc!CalculateManually
<1>. QED  BY <1>1, <1>3

LEMMA MeterStep ==
    MeterInv /\ [MeteringNext]_meteringvars => MeterInv'
<1> SUFFICES ASSUME MeterInv, [MeteringNext]_meteringvars
             PROVE  MeterInv'
  OBVIOUS
<1>1. UNCHANGED scene
  BY DEF MeteringNext, meteringvars
<1>2. CASE ~(MeteringNext /\ scene \in Metering)
  <2>1. CASE MeteringNext
    <3>1. scene \notin Metering
      BY <1>2, <2>1
    <3>2. UNCHANGED meteringvars
      BY <2>1, <3>1 DEF MeteringNext, Metering
    <3>. QED  BY <1>1, <3>2, RestKeeps DEF meteringvars
  <2>2. CASE UNCHANGED meteringvars
    BY <1>1, <2>2, RestKeeps DEF meteringvars
  <2>. QED  BY <2>1, <2>2
<1>3. CASE scene = "metering" /\ M!Next
  <2>1. M!Zones = {1}
    BY DEF M!Zones, M!Brasilia
  <2>2. CASE M!Calculate
    <3>1. PICK t \in Transformers, p \in M!Periods :
              M!CalculateBalance({t}, p) \/ M!CalculateManually(t, p)
      BY <2>2 DEF M!Calculate
    <3>2. PICK first \in Int : Begins(first) /\ p = M!Month(first)
      BY PeriodsAreMonths
    <3>. QED  BY <1>1, <3>1, <3>2, CalculateKeeps, ManualKeeps
  <2>3. CASE M!CalculateAll
    <3>1. PICK p \in M!Periods : M!CalculateBalance(Transformers, p)
      BY <2>3 DEF M!CalculateAll
    <3>2. PICK first \in Int : Begins(first) /\ p = M!Month(first)
      BY PeriodsAreMonths
    <3>. QED  BY <1>1, <3>1, <3>2, CalculateKeeps
  <2>4. CASE M!RecalculateAll
    BY <1>1, <2>4, RecalculateKeeps
  <2>5. ASSUME NEW at \in 1 .. Horizon, NEW zone \in M!Zones, NEW b \in BOOLEAN,
               \/ \E t \in Transformers : M!AddTransformerReading(t, at, zone, b)
               \/ \E u \in Meters : M!AddUCReading(u, at, zone, b)
        PROVE  MeterInv'
    <3>1. zone \in {0, 1} /\ zone # 0
      BY <2>1
    <3>. QED  BY <1>1, <2>5, <3>1, TrafoReadingKeeps, UnitReadingKeeps
  <2>6. CASE M!Tick
    BY <1>1, <1>3, <2>6, RestKeeps
  <2>7. CASE \E u \in Meters, t \in Transformers \cup {NoTransformer} : M!MoveUnit(u, t)
    BY <1>1, <1>3, <2>7, RestKeeps
  <2>. QED  BY <1>3, <2>2, <2>3, <2>4, <2>5, <2>6, <2>7 DEF M!Next, M!Instants
<1>4. CASE scene = "meteringUtc" /\ MUtc!Next
  <2>1. MUtc!Zones \subseteq {0, 1}
    BY DEF MUtc!Zones, MUtc!Brasilia, MUtc!UTC
  <2>2. CASE MUtc!Calculate
    <3>1. PICK t \in Transformers, p \in MUtc!Periods :
              MUtc!CalculateBalance({t}, p) \/ MUtc!CalculateManually(t, p)
      BY <2>2 DEF MUtc!Calculate
    <3>2. PICK first \in Int : (Begins(first) \/ BeginsUtc(first)) /\ p = M!Month(first)
      BY PeriodsAreMonths
    <3>3. M!CalculateBalance({t}, p) \/ M!CalculateManually(t, p)
      BY <3>1, SameCalculations
    <3>. QED  BY <1>1, <1>4, <3>2, <3>3, CalculateKeeps, ManualKeeps
  <2>7. CASE MUtc!CalculateAll
    <3>1. PICK p \in MUtc!Periods : MUtc!CalculateBalance(Transformers, p)
      BY <2>7 DEF MUtc!CalculateAll
    <3>2. PICK first \in Int : (Begins(first) \/ BeginsUtc(first)) /\ p = M!Month(first)
      BY PeriodsAreMonths
    <3>3. M!CalculateBalance(Transformers, p)
      BY <3>1, SameCalculations
    <3>. QED  BY <1>1, <1>4, <3>2, <3>3, CalculateKeeps
  <2>3. CASE MUtc!RecalculateAll
    BY <1>1, <2>3, RecalculateKeeps
  <2>4. ASSUME NEW at \in 1 .. Horizon, NEW zone \in MUtc!Zones, NEW b \in BOOLEAN,
               \/ \E t \in Transformers : MUtc!AddTransformerReading(t, at, zone, b)
               \/ \E u \in Meters : MUtc!AddUCReading(u, at, zone, b)
        PROVE  MeterInv'
    <3>1. zone \in {0, 1} /\ scene # "metering"
      BY <1>4, <2>1
    <3>. QED  BY <1>1, <2>4, <3>1, TrafoReadingKeeps, UnitReadingKeeps
  <2>5. CASE MUtc!Tick
    BY <1>1, <1>4, <2>5, RestKeeps
  <2>6. CASE \E u \in Meters, t \in Transformers \cup {NoTransformer} :
                 MUtc!MoveUnit(u, t)
    BY <1>1, <1>4, <2>6, RestKeeps
  <2>. QED  BY <1>4, <2>2, <2>3, <2>4, <2>5, <2>6, <2>7 DEF MUtc!Next, MUtc!Instants
<1>. QED  BY <1>2, <1>3, <1>4 DEF MeteringNext, Metering

LEMMA MeterInit == MeteringInit => MeterInv
<1> SUFFICES ASSUME MeteringInit
             PROVE  MeterInv
  OBVIOUS
<1>1. /\ home \in [Meters -> Transformers] /\ trafoReadings = {} /\ ucReadings = {}
      /\ balances = {} /\ today = 1 /\ moves = 0
  BY DEF MeteringInit, M!Init
<1>2. BalancesOK(balances, trafoReadings, ucReadings, behind)
  BY <1>1 DEF BalancesOK, OnePerKey
<1>3. Moves["metering"] \in Nat /\ Moves["meteringUtc"] \in Nat /\ 1 \in 1 .. Horizon
  BY MeteringAssumption
<1>4. home \in [Meters -> Transformers \cup {NoTransformer}]
  BY <1>1
<1>5. IsFiniteSet(trafoReadings) /\ IsFiniteSet(ucReadings)
  BY <1>1, FS_EmptySet
<1>6. MeterTypes
  BY <1>1, <1>3, <1>4, <1>5 DEF MeterTypes
<1>. QED  BY <1>2, <1>6 DEF MeterInv

-----------------------------------------------------------------------------
(* What the invariant says of the balances.                                *)
LEMMA OneEach ==
    ASSUME MeterInv, scene = "metering"
    PROVE  M!OneBalancePerMonth
<1> SUFFICES ASSUME NEW b \in balances, NEW c \in balances, b.row = c.row, b # c
             PROVE  b.end < c.start \/ c.end < b.start
  BY DEF M!OneBalancePerMonth
<1>1. /\ b.start \in Int /\ b.end = b.start + 3 /\ Begins(b.start)
      /\ c.start \in Int /\ c.end = c.start + 3 /\ Begins(c.start)
  BY DEF MeterInv, BalancesOK, OfAMonth
<1>2. b.start # c.start
  BY DEF MeterInv, BalancesOK, OnePerKey
<1>. QED  BY <1>1, <1>2, MonthsApart

(* Of two that meet, one is of a month of Brasilia and one of UTC.         *)
LEMMA OneEachUtc ==
    ASSUME MeterInv
    PROVE  MUtc!OneBalancePerCalendar
<1> SUFFICES ASSUME NEW b \in balances, NEW c \in balances, b.row = c.row, b # c,
                    b.start <= c.end, c.start <= b.end
             PROVE  MUtc!WholeMonth([start |-> b.start, end |-> b.end])
                        # MUtc!WholeMonth([start |-> c.start, end |-> c.end])
  BY DEF MUtc!OneBalancePerCalendar
<1>1. /\ OfAMonth(b) /\ b.start \in Int /\ b.end = b.start + 3
      /\ OfAMonth(c) /\ c.start \in Int /\ c.end = c.start + 3
      /\ Begins(b.start) \/ BeginsUtc(b.start)
      /\ Begins(c.start) \/ BeginsUtc(c.start)
  BY DEF MeterInv, BalancesOK, OfAMonth
<1>2. b.start # c.start
  BY DEF MeterInv, BalancesOK, OnePerKey
<1>3. \A p : MUtc!WholeMonth(p) <=> M!WholeMonth(p)
  BY SameStores, SameMonths DEF M!WholeMonth, MUtc!WholeMonth, M!Brasilia, MUtc!Brasilia
<1>4. ~(Begins(b.start) /\ Begins(c.start))
  BY <1>1, <1>2, MonthsApart
<1>5. ~(BeginsUtc(b.start) /\ BeginsUtc(c.start))
  BY <1>1, <1>2 DEF BeginsUtc
<1>6. Begins(b.start) \/ Begins(c.start)
  BY <1>1, <1>5
<1>7. /\ MUtc!WholeMonth([start |-> b.start, end |-> b.end]) <=> Begins(b.start)
      /\ MUtc!WholeMonth([start |-> c.start, end |-> c.end]) <=> Begins(c.start)
  BY <1>1, <1>3, WholeIs
<1>8. CASE Begins(b.start)
  BY <1>4, <1>7, <1>8
<1>9. CASE ~Begins(b.start)
  BY <1>6, <1>7, <1>9
<1>. QED  BY <1>8, <1>9

LEMMA OfTheirReadings ==
    ASSUME MeterInv
    PROVE  M!BalanceOfReadings /\ MUtc!BalanceOfReadings
<1>1. ASSUME NEW b \in balances, M!WholeMonth([start |-> b.start, end |-> b.end]),
             <<b.row, b.start>> \notin behind
      PROVE  b = M!FromReadings(b.row, [start |-> b.start, end |-> b.end])
  <2>1. OfAMonth(b) /\ b.start \in Int /\ b.end = b.start + 3
    BY DEF MeterInv, BalancesOK, OfAMonth
  <2>2. Measures(b, trafoReadings, ucReadings)
    BY <1>1, <2>1, WholeIs DEF MeterInv, BalancesOK
  <2>3. /\ M!Month(b.start) = [start |-> b.start, end |-> b.end]
        /\ M!FromReadings(b.row, M!Month(b.start))
              = BalanceOf(trafoReadings, ucReadings, b.row, b.start)
    BY <2>1, Calculated
  <2>. QED  BY <2>2, <2>3 DEF Measures
<1>2. M!BalanceOfReadings
  BY <1>1 DEF M!BalanceOfReadings
<1>3. \A p : MUtc!WholeMonth(p) <=> M!WholeMonth(p)
  BY SameStores, SameMonths DEF M!WholeMonth, MUtc!WholeMonth, M!Brasilia, MUtc!Brasilia
<1>4. MUtc!BalanceOfReadings
  BY <1>1, <1>3, SameStores DEF MUtc!BalanceOfReadings
<1>. QED  BY <1>2, <1>4

LEMMA NamedAlike ==
    ASSUME MeterInv
    PROVE  M!MonthsAreNamedAlike /\ MUtc!MonthsAreNamedAlike
<1>1. ASSUME NEW b \in balances
      PROVE  M!PeriodMonth(b) - 1 = M!MonthStart(b.start, 0) - 0
  <2>1. /\ b.start \in Int /\ b.end = b.start + 3
        /\ Begins(b.start) \/ BeginsUtc(b.start)
    BY DEF MeterInv, BalancesOK, OfAMonth
  <2> DEFINE x == b.start
  <2>2. M!PeriodMonth(b) = M!MonthStart(x + 1, 1)
    <3>1. b.start + (b.end - b.start) \div 2 = x + 1
      <4>1. b.end - b.start = 3
        BY <2>1
      <4>2. 3 \div 2 = 1
        OBVIOUS
      <4>. QED  BY <2>1, <4>1, <4>2
    <3>. QED  BY <3>1 DEF M!PeriodMonth, M!Brasilia
  <2> HIDE DEF x
  <2>3. x \in Int /\ (Begins(x) \/ BeginsUtc(x)) /\ x + 1 \in Int
    BY <2>1 DEF x
  <2>4. CASE Begins(x)
    <3>1. M!MonthStart(x + 1, 1) = x
      BY <2>3, <2>4, MonthIs
    <3>2. BeginsUtc(x - 1) /\ x - 1 \in Int
      BY <2>3, <2>4 DEF Begins, BeginsUtc
    <3>3. M!MonthStart(x, 0) = x - 1
      BY <2>3, <3>2, UtcMonthIs
    <3>. QED  BY <2>2, <2>3, <3>1, <3>3 DEF x
  <2>5. CASE BeginsUtc(x)
    <3>1. Begins(x + 1)
      BY <2>3, <2>5 DEF Begins, BeginsUtc
    <3>2. M!MonthStart(x + 1, 1) = x + 1
      BY <2>3, <3>1, MonthIs
    <3>3. M!MonthStart(x, 0) = x
      BY <2>3, <2>5, UtcMonthIs
    <3>. QED  BY <2>2, <2>3, <3>2, <3>3 DEF x
  <2>. QED  BY <2>3, <2>4, <2>5
<1>2. ASSUME \A b \in balances : M!WholeMonth([start |-> b.start, end |-> b.end]),
             NEW zone \in {0, 1}, NEW b \in balances
      PROVE  b \in M!CompareMonth(zone)
                 <=> b.start - 1 = M!MonthStart(today, zone) - zone - 4
  <2> DEFINE x == b.start
             this == M!MonthStart(today, zone)
             first == this - 4
  <2>1. x \in Int /\ Begins(x)
    BY <1>2, WholeIs DEF MeterInv, BalancesOK, OfAMonth
  <2>2. this \in Int
    BY MonthFacts, UtcMonthFacts DEF MeterInv, MeterTypes
  <2>3. b \in M!CompareMonth(zone) <=>
            first <= x /\ x <= first + 3 /\ M!MonthStart(x, zone) = first
    BY <2>2 DEF M!CompareMonth, M!In, M!Month, M!MonthLength
  <2>4. M!MonthStart(x, zone) = x - 1 + zone
    <3>1. CASE zone = 1
      BY <2>1, <3>1, MonthIs
    <3>2. CASE zone = 0
      <4>1. BeginsUtc(x - 1) /\ x - 1 \in Int
        BY <2>1 DEF Begins, BeginsUtc
      <4>2. M!MonthStart(x, 0) = x - 1
        BY <2>1, <4>1, UtcMonthIs
      <4>. QED  BY <2>1, <3>2, <4>2
    <3>. QED  BY <3>1, <3>2
  <2> HIDE DEF x, this
  <2>5. (first <= x /\ x <= first + 3 /\ x - 1 + zone = first)
            <=> x - 1 = this - zone - 4
    BY <2>1, <2>2
  <2>. QED  BY <2>3, <2>4, <2>5 DEF x, this
<1>3. M!MonthsAreNamedAlike
  BY <1>1, <1>2 DEF M!MonthsAreNamedAlike, M!Brasilia, M!UTC, M!MonthLength
<1>4. /\ \A b : MUtc!PeriodMonth(b) = M!PeriodMonth(b)
      /\ \A p : MUtc!WholeMonth(p) <=> M!WholeMonth(p)
      /\ \A zone : MUtc!CompareMonth(zone) = M!CompareMonth(zone)
  <2>1. \A b : MUtc!PeriodMonth(b) = M!PeriodMonth(b)
    BY SameMonths DEF M!PeriodMonth, MUtc!PeriodMonth, M!Brasilia, MUtc!Brasilia
  <2>2. \A p : MUtc!WholeMonth(p) <=> M!WholeMonth(p)
    BY SameStores, SameMonths
       DEF M!WholeMonth, MUtc!WholeMonth, M!Brasilia, MUtc!Brasilia
  <2>3. \A zone : MUtc!CompareMonth(zone) = M!CompareMonth(zone)
    BY SameStores, SameMonths DEF M!CompareMonth, MUtc!CompareMonth, M!In, MUtc!In,
       M!MonthLength, MUtc!MonthLength
  <2>. QED  BY <2>1, <2>2, <2>3
<1>5. MUtc!MonthsAreNamedAlike
  BY <1>1, <1>2, <1>4, SameMonths DEF MUtc!MonthsAreNamedAlike, MUtc!Brasilia, MUtc!UTC,
     MUtc!MonthLength
<1>. QED  BY <1>3, <1>5

(* Months are metered (MonthsAreMetered), for any transformers, units,     *)
(* readings, moves and length of time: on a server in Brasilia requests,   *)
(* files, readings typed late and the daily job all mean the same months,  *)
(* so that a month has one balance.  On one in UTC the month of a request  *)
(* without a period is another, and a month has at most one balance of each*)
(* calendar.  On both, the balance of a month of Brasilia is of its        *)
(* readings once they were calculated.                                     *)
THEOREM MonthsStayMetered == MeteringSpec => []MonthsAreMetered
<1>1. MeterInv => MonthsAreMetered
  <2> SUFFICES ASSUME MeterInv
               PROVE  MonthsAreMetered
    OBVIOUS
  <2>1. \A b \in balances : b.row \in Transformers /\ b.start <= b.end
    BY DEF MeterInv, BalancesOK, OfAMonth
  <2>2. Moves["metering"] \in Nat /\ Moves["meteringUtc"] \in Nat
    BY MeteringAssumption
  <2>3. scene = "metering" => M!MeteringTypeOK
    BY <2>1, <2>2 DEF MeterInv, MeterTypes, M!MeteringTypeOK, M!Instants
  <2>4. scene # "metering" => MUtc!MeteringTypeOK
    BY <2>1, <2>2 DEF MeterInv, MeterTypes, MUtc!MeteringTypeOK, MUtc!Instants
  <2>. QED  BY <2>3, <2>4, OneEach, OneEachUtc, OfTheirReadings, NamedAlike DEF MonthsAreMetered
<1>. QED  BY <1>1, MeterInit, MeterStep, PTL DEF MeteringSpec
=============================================================================
