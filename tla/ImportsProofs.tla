---------------------------- MODULE ImportsProofs -----------------------------
(***************************************************************************)
(* Proofs about Imports, for any agents, imports, readings and bounds.     *)
(*                                                                         *)
(* Each part of the invariant assumes only the settings that its property  *)
(* names.  HistoryInv: an import has one agent at most, and what this one  *)
(* kept is what the import owns.  SerialInv: a reading has one owner, and  *)
(* a calculation carries the energy that is stored.  SteadyInv: an         *)
(* operation that has not inserted yet leaves the balance current or has a *)
(* reading to insert, after which it calculates the balance again.         *)
(*                                                                         *)
(* The last part is about the risk score (Risk), as MCImports runs it      *)
(* beside the imports: the loss weighs so much that its factor bounds the  *)
(* level, whatever the other four add up to.                               *)
(***************************************************************************)
EXTENDS MCImports, FiniteSetTheorems, TLAPS

Before == {"clear", "analyze", "dedupe", "insert"}
After == {"injected", "count", "total", "update", "create", "finish"}

(* What an import owns and its agent carries comes from its file; an       *)
(* import that does not exist yet owns nothing and has no agent.           *)
Filed(t) ==
    /\ t.at = "idle" => t = Idle
    /\ t.at \in {"clear", "analyze", "dedupe"} => t.kept = {}
    /\ t.at \in Before => ~t.failed
    /\ t.imp \in Imports => /\ imp[t.imp].status # "none"
                           /\ t.kept \subseteq imp[t.imp].file
                           /\ t.valid \subseteq imp[t.imp].file

FileInv ==
    /\ \A i \in Imports :
          Owned(i) \subseteq imp[i].file /\ (imp[i].status = "none" => Owned(i) = {})
    /\ \A a \in Agents : Filed(task[a])

OneAgentEach ==
    \A a, b \in Agents : task[a].imp = task[b].imp /\ task[a].imp \in Imports => a = b

(* What the agent of an import has made of it so far.                      *)
Kept(t) ==
    /\ t.at \in {"analyze", "dedupe", "insert"} => Owned(t.imp) = {}
    /\ t.at \in After /\ t.imp \in Imports =>
          /\ ~imp[t.imp].deleted => Owned(t.imp) = t.kept
          /\ t.failed => t.kept = {}
    /\ t.imp \in Imports /\ ~May("retry") => imp[t.imp].status = "PROCESSING"

HistoryInv ==
    ~May("retry") \/ (setting.serial /\ setting.steady) =>
        OneAgentEach /\ HistoryIsTrue /\ \A a \in Agents : Kept(task[a])

AtMostOne == \A a, b \in Agents : task[a] # Idle /\ task[b] # Idle => a = b
OneOwner ==
    \A r \in Readings, i \in Imports :
        rows[i][r] <= 1 /\ \A j \in Imports : rows[i][r] > 0 /\ rows[j][r] > 0 => i = j

(* What an operation has read is still so.                                 *)
Read(t) ==
    /\ t.at = "insert" => \A r \in t.kept : ~Stored(r)
    /\ t.imp \in Imports => ~imp[t.imp].deleted
    /\ t.at \in {"count", "total", "update", "create"} =>
          t.inj = Energy(TrafoReadings) /\ t.inj > 0
    /\ t.at \in {"total", "update", "create"} => Energy(UcReadings) > 0
    /\ t.at \in {"update", "create"} => t.con = Energy(UcReadings)
    /\ t.at = "create" => balance = << >>

SerialInv ==
    setting.serial =>
        /\ AtMostOne /\ OneOwner /\ DeletedHasNoReadings
        /\ OneBalancePerPeriod /\ NoFalseLoss
        /\ \A a \in Agents : Read(task[a])

(* The balance is that of the readings stored.                             *)
Now == [inj |-> Energy(TrafoReadings), con |-> Energy(UcReadings)]
Current ==
    /\ Now.inj > 0 /\ Now.con > 0 => balance # << >>
    /\ \A b \in DOMAIN balance : balance[b] = Now

(* A reading is stored, or in the file of an import that will store it.    *)
Known(r) ==
    Stored(r) \/ \E a \in Agents : task[a].at \in Before /\ r \in imp[task[a].imp].file

Completing(t) ==
    /\ t.at \in {"dedupe", "insert"} => t.valid = imp[t.imp].file
    /\ t.at = "insert" => /\ t.kept \cup t.dups = imp[t.imp].file
                          /\ \A r \in t.dups : Stored(r)
    /\ t.at \in Before =>
          Current \/ \E r \in imp[t.imp].file : ~Stored(r)
    /\ t.at \in After /\ t.imp \in Imports =>
          /\ t.kept \cup t.dups = imp[t.imp].file
          /\ \A r \in imp[t.imp].file : Stored(r)
    /\ t.at = "finish" => Current

SteadyInv ==
    setting.serial /\ setting.steady /\ ~May("delete") /\ ~May("skip") =>
        /\ \A a \in Agents : Completing(task[a])
        /\ (\A a \in Agents : task[a] = Idle) => Current
        /\ balance # << >> => /\ \E r \in TrafoReadings : Known(r)
                              /\ \E r \in UcReadings : Known(r)
        /\ \A i \in Imports : imp[i].status = "COMPLETED" =>
              /\ imp[i].ok \cup imp[i].dups \subseteq imp[i].file
              /\ \A r \in imp[i].file : Known(r)

Inv == TypeOK /\ FileInv /\ HistoryInv /\ SerialInv /\ SteadyInv

-----------------------------------------------------------------------------
(* Types, and the rows of the tables.                                      *)
Places == {"idle", "clear", "analyze", "dedupe", "insert", "injected",
           "count", "total", "update", "create", "finish"}

LEMMA TaskFacts ==
    ASSUME TypeOK, NEW a \in Agents
    PROVE  /\ task[a].at \in Places
           /\ task[a].imp \in Imports \cup {NoImport}
           /\ task[a].valid \in SUBSET Readings /\ task[a].kept \in SUBSET Readings
           /\ task[a].dups \in SUBSET Readings /\ task[a].failed \in BOOLEAN
           /\ task[a].inj \in Nat /\ task[a].con \in Nat
           /\ task[a].at \in InImport => task[a].imp \in Imports
           /\ task[a] \in Task
  BY DEF TypeOK, Task, Places

LEMMA RowFacts ==
    ASSUME TypeOK
    PROVE  /\ \A i \in Imports : rows[i] \in [Readings -> 0 .. MaxCopies]
           /\ \A i \in Imports, r \in Readings :
                 rows[i][r] \in Nat /\ rows[i][r] <= MaxCopies
           /\ DOMAIN rows = Imports /\ DOMAIN imp = Imports /\ DOMAIN task = Agents
           /\ MaxCopies \in Nat \ {0}
           /\ \A i \in Imports : imp[i] \in Import
  BY ImportsAssumption DEF TypeOK

LEMMA IdleFacts ==
    /\ Idle \in Task /\ Idle.at = "idle" /\ Idle.imp = NoImport
    /\ Idle.kept = {} /\ Idle.valid = {} /\ Idle.dups = {} /\ ~Idle.failed
    /\ \A i \in Imports \cup {NoImport}, s \in Places :
          /\ Doing(i, s) \in Task /\ Doing(i, s).at = s /\ Doing(i, s).imp = i
          /\ Doing(i, s).kept = {} /\ Doing(i, s).valid = {}
          /\ Doing(i, s).dups = {} /\ Doing(i, s).failed = FALSE
  <1>1. Idle \in Task
    BY DEF Idle, Task
  <1>2. /\ Idle.at = "idle" /\ Idle.imp = NoImport
        /\ Idle.kept = {} /\ Idle.valid = {} /\ Idle.dups = {} /\ ~Idle.failed
    BY DEF Idle
  <1>3. ASSUME NEW i \in Imports \cup {NoImport}, NEW s \in Places
        PROVE  /\ Doing(i, s) \in Task /\ Doing(i, s).at = s /\ Doing(i, s).imp = i
               /\ Doing(i, s).kept = {} /\ Doing(i, s).valid = {}
               /\ Doing(i, s).dups = {} /\ Doing(i, s).failed = FALSE
    BY <1>1, <1>2 DEF Doing, Task, Places
  <1>. QED  BY <1>1, <1>2, <1>3

(* An agent takes its next task, the others keep theirs.                   *)
Others(a) == \A b \in Agents \ {a} : task'[b] = task[b]

LEMMA TaskStep ==
    ASSUME TypeOK, NEW a \in Agents, NEW t \in Task,
           t.at \in InImport => t.imp \in Imports,
           task' = [task EXCEPT ![a] = t]
    PROVE  /\ task' \in [Agents -> Task] /\ task'[a] = t /\ Others(a)
           /\ \A b \in Agents : task'[b].at \in InImport => task'[b].imp \in Imports
  BY DEF TypeOK, Others

(* The rows of some readings: finitely many, and none when none is stored. *)
LEMMA RowsOfFinite ==
    ASSUME TypeOK, NEW m \in SUBSET Readings
    PROVE  IsFiniteSet(RowsOf(m)) /\ (RowsOf(m) = {} <=> \A r \in m : ~Stored(r))
  <1> DEFINE S == (Imports \X Readings) \X (1 .. MaxCopies)
             T == Imports \X Readings \X (1 .. MaxCopies)
             f == [p \in S |-> <<p[1][1], p[1][2], p[2]>>]
  <1>1. IsFiniteSet(S)
    <2>1. IsFiniteSet(1 .. MaxCopies)
      BY RowFacts, FS_Interval
    <2>2. IsFiniteSet(Imports \X Readings)
      BY ImportsAssumption, FS_Product
    <2>. QED  BY <2>1, <2>2, FS_Product
  <1>2. f \in Surjection(S, T)
    <2>1. f \in [S -> T]
      OBVIOUS
    <2>2. ASSUME NEW x \in T PROVE \E p \in S : f[p] = x
      <3>1. <<<<x[1], x[2]>>, x[3]>> \in S /\ f[<<<<x[1], x[2]>>, x[3]>>] = x
        OBVIOUS
      <3>. QED  BY <3>1
    <2>. QED  BY <2>1, <2>2 DEF Surjection
  <1>3. IsFiniteSet(T)
    <2> HIDE DEF S, T, f
    <2>. QED  BY <1>1, <1>2, FS_Surjection
  <1>4. RowsOf(m) \in SUBSET T
    BY DEF RowsOf
  <1>5. IsFiniteSet(RowsOf(m))
    <2> HIDE DEF T
    <2>. QED  BY <1>3, <1>4, FS_Subset
  <1>6. ASSUME NEW r \in m, Stored(r) PROVE RowsOf(m) # {}
    <2>1. PICK i \in Imports : rows[i][r] > 0
      BY <1>6 DEF Stored
    <2>2. rows[i][r] \in Nat /\ MaxCopies \in Nat \ {0}
      BY RowFacts
    <2>3. 1 \in 1 .. MaxCopies /\ 1 <= rows[i][r]
      BY <2>1, <2>2, SMT
    <2>4. <<i, r, 1>> \in RowsOf(m)
      BY <2>3 DEF RowsOf
    <2>. QED  BY <2>4
  <1>7. ASSUME NEW x \in RowsOf(m) PROVE \E r \in m : Stored(r)
    <2>1. PICK i \in Imports, r \in m, n \in 1 .. MaxCopies : n <= rows[i][r]
      BY DEF RowsOf
    <2>2. rows[i][r] > 0
      BY <2>1, RowFacts, SMT
    <2>. QED  BY <2>1, <2>2 DEF Stored
  <1>. QED  BY <1>5, <1>6, <1>7

LEMMA EnergyFacts ==
    ASSUME TypeOK, NEW m \in SUBSET Readings
    PROVE  /\ Energy(m) \in Nat
           /\ Energy(m) = 0 <=> \A r \in m : ~Stored(r)
           /\ Energy(m) > 0 <=> \E r \in m : Stored(r)
  <1>1. Energy(m) \in Nat /\ (Energy(m) = 0 <=> RowsOf(m) = {})
    BY RowsOfFinite, FS_CardinalityType, FS_EmptySet DEF Energy
  <1>2. Energy(m) = 0 <=> \A r \in m : ~Stored(r)
    BY <1>1, RowsOfFinite
  <1>. QED  BY <1>1, <1>2, SMT

LEMMA OneOwnerStoresOnce ==
    ASSUME TypeOK, OneOwner
    PROVE  NoDuplicateReadings
  <1>1. SUFFICES ASSUME NEW r \in Readings PROVE Cardinality(RowsOf({r})) <= 1
    BY DEF NoDuplicateReadings
  <1>2. ASSUME NEW x \in RowsOf({r}), NEW y \in RowsOf({r}) PROVE x = y
    <2>1. PICK i \in Imports, n \in 1 .. MaxCopies : x = <<i, r, n>> /\ n <= rows[i][r]
      BY DEF RowsOf
    <2>2. PICK j \in Imports, k \in 1 .. MaxCopies : y = <<j, r, k>> /\ k <= rows[j][r]
      BY DEF RowsOf
    <2>3. rows[i][r] \in Nat /\ rows[j][r] \in Nat /\ MaxCopies \in Nat
          /\ rows[i][r] <= 1 /\ rows[j][r] <= 1
      BY RowFacts DEF OneOwner
    <2>4. n = 1 /\ k = 1 /\ rows[i][r] > 0 /\ rows[j][r] > 0
      BY <2>1, <2>2, <2>3, SMT
    <2>5. i = j
      BY <2>4 DEF OneOwner
    <2>. QED  BY <2>1, <2>2, <2>4, <2>5
  <1>3. CASE RowsOf({r}) = {}
    BY <1>3, FS_EmptySet, SMT
  <1>4. CASE RowsOf({r}) # {}
    <2>1. PICK x : RowsOf({r}) = {x}
      BY <1>2, <1>4
    <2>2. Cardinality(RowsOf({r})) = 1
      BY <2>1, FS_Singleton
    <2>. QED  BY <2>2, SMT
  <1>. QED  BY <1>3, <1>4

(* The energy is in the rows only.                                         *)
LEMMA EnergyKept ==
    ASSUME rows' = rows
    PROVE  /\ \A m : Energy(m)' = Energy(m)
           /\ \A r : Stored(r)' <=> Stored(r)
           /\ \A i : Owned(i)' = Owned(i)
  BY DEF Energy, RowsOf, Stored, Owned

-----------------------------------------------------------------------------
(* What each action does, field by field.                                  *)
Others2(a, i) == Others(a) /\ \A j \in Imports \ {i} : imp'[j] = imp[j]

LEMMA TypeStep ==
    ASSUME TypeOK, UNCHANGED <<retries, aborts, setting>>,
           imp' \in [Imports -> Import],
           rows' \in [Imports -> [Readings -> 0 .. MaxCopies]],
           balance' \in Seq([inj : Nat, con : Nat]), Len(balance') <= MaxBalances,
           task' \in [Agents -> Task],
           \A b \in Agents : task'[b].at \in InImport => task'[b].imp \in Imports
    PROVE  TypeOK'
  BY DEF TypeOK

LEMMA UploadFacts ==
    ASSUME TypeOK, UNCHANGED setting, NEW a \in Agents, NEW i \in Imports, Upload(a, i)
    PROVE  /\ TypeOK' /\ Others2(a, i) /\ rows' = rows /\ balance' = balance
           /\ task[a] = Idle /\ imp[i].status = "none"
           /\ imp'[i].status = "PROCESSING" /\ ~imp'[i].deleted
           /\ imp'[i].file \in SUBSET Readings
           /\ task'[a] = Doing(i, "analyze")
  <1>1. PICK f \in Files :
            imp' = [imp EXCEPT ![i] = [NotUploaded EXCEPT !.status = "PROCESSING",
                                                          !.file = f]]
    BY DEF Upload
  <1>2. f \in SUBSET Readings
    <2>1. f \in Files
      BY <1>1
    <2>2. f \in SUBSET TrafoReadings \/ f \in SUBSET UcReadings
      BY <2>1 DEF Files
    <2>. QED  BY <2>2 DEF Readings
  <1>3. imp' \in [Imports -> Import] /\ imp'[i].status = "PROCESSING"
        /\ imp'[i].deleted = FALSE /\ imp'[i].file = f
    BY <1>1, <1>2 DEF TypeOK, NotUploaded, Import
  <1>4. task' = [task EXCEPT ![a] = Doing(i, "analyze")]
    BY DEF Upload
  <1>5. /\ task' \in [Agents -> Task] /\ task'[a] = Doing(i, "analyze") /\ Others(a)
        /\ \A b \in Agents : task'[b].at \in InImport => task'[b].imp \in Imports
    <2>1. Doing(i, "analyze") \in Task /\ Doing(i, "analyze").imp = i
      BY IdleFacts DEF Places
    <2>. QED  BY <1>4, <2>1, TaskStep
  <1>6. UNCHANGED <<rows, balance, retries, aborts>>
    BY DEF Upload
  <1>7. TypeOK'
    BY <1>3, <1>5, <1>6, TypeStep DEF TypeOK
  <1>8. \A j \in Imports \ {i} : imp'[j] = imp[j]
    BY <1>1 DEF TypeOK
  <1>. QED  BY <1>2, <1>3, <1>5, <1>6, <1>7, <1>8 DEF Upload, Others2

LEMMA RetryFacts ==
    ASSUME TypeOK, UNCHANGED setting, NEW a \in Agents, NEW i \in Imports, Retry(a, i)
    PROVE  /\ TypeOK' /\ Others(a)
           /\ imp' = imp /\ rows' = rows /\ balance' = balance
           /\ task[a] = Idle /\ May("retry")
           /\ imp[i].status # "none" /\ ~imp[i].deleted
           /\ task'[a] = Doing(i, "clear")
  <1>1. task' = [task EXCEPT ![a] = Doing(i, "clear")]
    BY DEF Retry
  <1>2. /\ task' \in [Agents -> Task] /\ task'[a] = Doing(i, "clear") /\ Others(a)
        /\ \A b \in Agents : task'[b].at \in InImport => task'[b].imp \in Imports
    <2>1. Doing(i, "clear") \in Task /\ Doing(i, "clear").imp = i
      BY IdleFacts DEF Places
    <2>. QED  BY <1>1, <2>1, TaskStep
  <1>3. retries' \in 0 .. MaxRetries
    <2>1. retries \in 0 .. MaxRetries /\ retries < MaxRetries /\ retries' = retries + 1
      BY DEF Retry, TypeOK
    <2>. QED  BY <2>1, ImportsAssumption, SMT
  <1>4. TypeOK'
    BY <1>2, <1>3 DEF Retry, TypeOK
  <1>. QED  BY <1>2, <1>4 DEF Retry

(* The steps that only change a task.                                      *)
LEMMA MoveFacts ==
    ASSUME TypeOK, UNCHANGED setting, NEW a \in Agents,
           UNCHANGED <<imp, rows, balance, retries, aborts>>,
           NEW t \in Task, t.at \in InImport => t.imp \in Imports,
           task' = [task EXCEPT ![a] = t]
    PROVE  TypeOK' /\ Others(a) /\ task'[a] = t
  <1>1. /\ task' \in [Agents -> Task] /\ task'[a] = t /\ Others(a)
        /\ \A b \in Agents : task'[b].at \in InImport => task'[b].imp \in Imports
    BY TaskStep
  <1>2. TypeOK'
    BY <1>1, TypeStep DEF TypeOK
  <1>. QED  BY <1>1, <1>2

LEMMA ClearFacts ==
    ASSUME TypeOK, UNCHANGED setting, NEW a \in Agents, Clear(a)
    PROVE  /\ TypeOK' /\ Others(a) /\ imp' = imp /\ balance' = balance
           /\ task[a].at = "clear" /\ task[a].imp \in Imports
           /\ \A r \in Readings : rows'[task[a].imp][r] = 0
           /\ \A j \in Imports \ {task[a].imp} : rows'[j] = rows[j]
           /\ task'[a].at = "analyze" /\ task'[a].imp = task[a].imp
           /\ task'[a].kept = task[a].kept /\ task'[a].valid = task[a].valid
           /\ task'[a].dups = task[a].dups /\ task'[a].failed = task[a].failed
  <1> DEFINE t == [task[a] EXCEPT !.at = "analyze"]
             i == task[a].imp
  <1>1. task[a].at = "clear" /\ i \in Imports /\ task[a] \in Task
    BY TaskFacts DEF Clear, InImport
  <1>2. t \in Task /\ t.at = "analyze" /\ t.imp = task[a].imp /\ t.valid = task[a].valid
        /\ t.kept = task[a].kept /\ t.dups = task[a].dups /\ t.failed = task[a].failed
    BY <1>1 DEF Task
  <1> HIDE DEF t
  <1>3. task' = [task EXCEPT ![a] = t]
    BY DEF t, Clear
  <1>4. /\ task' \in [Agents -> Task] /\ task'[a] = t /\ Others(a)
        /\ \A b \in Agents : task'[b].at \in InImport => task'[b].imp \in Imports
    BY <1>1, <1>2, <1>3, TaskStep
  <1>5. /\ rows' \in [Imports -> [Readings -> 0 .. MaxCopies]]
        /\ \A r \in Readings : rows'[i][r] = 0
        /\ \A j \in Imports \ {i} : rows'[j] = rows[j]
    <2>1. [r \in Readings |-> 0] \in [Readings -> 0 .. MaxCopies]
      BY RowFacts, SMT
    <2>. QED  BY <1>1, <2>1 DEF Clear, NothingOf, TypeOK
  <1>6. TypeOK'
    BY <1>4, <1>5, TypeStep DEF TypeOK, Clear
  <1>. QED  BY <1>1, <1>2, <1>4, <1>5, <1>6 DEF Clear

LEMMA AnalyzeFacts ==
    ASSUME TypeOK, UNCHANGED setting, NEW a \in Agents, Analyze(a)
    PROVE  /\ TypeOK' /\ Others(a)
           /\ imp' = imp /\ rows' = rows /\ balance' = balance
           /\ task[a].at = "analyze" /\ task[a].imp \in Imports
           /\ task'[a].imp = task[a].imp /\ task'[a].kept = task[a].kept
           /\ \/ /\ task'[a].at = "dedupe" /\ task'[a].failed = task[a].failed
                 /\ task'[a].valid \subseteq imp[task[a].imp].file
                 /\ setting.steady => task'[a].valid = imp[task[a].imp].file
              \/ /\ task'[a].at = "finish" /\ task'[a].failed
                 /\ task'[a].valid = task[a].valid /\ ~setting.steady
  <1>1. task[a].at = "analyze" /\ task[a].imp \in Imports /\ task[a] \in Task
    BY TaskFacts DEF Analyze, InImport
  <1>2. imp[task[a].imp].file \in SUBSET Readings
    BY <1>1 DEF TypeOK, Import
  <1>3. UNCHANGED <<imp, rows, balance, retries, aborts>>
    BY DEF Analyze
  <1>4. ASSUME NEW v \in SUBSET imp[task[a].imp].file,
               setting.steady => v = imp[task[a].imp].file,
               task' = [task EXCEPT ![a].at = "dedupe", ![a].valid = v]
        PROVE  /\ TypeOK' /\ Others(a)
               /\ task'[a].at = "dedupe" /\ task'[a].imp = task[a].imp
               /\ task'[a].valid = v /\ task'[a].kept = task[a].kept
               /\ task'[a].failed = task[a].failed
    <2> DEFINE t == [task[a] EXCEPT !.at = "dedupe", !.valid = v]
    <2>1. t \in Task /\ t.at = "dedupe" /\ t.imp = task[a].imp /\ t.valid = v
          /\ t.kept = task[a].kept /\ t.failed = task[a].failed
      BY <1>1, <1>2 DEF Task
    <2>2. task' = [task EXCEPT ![a] = t]
      BY <1>4
    <2> HIDE DEF t
    <2>3. TypeOK' /\ Others(a) /\ task'[a] = t
      BY <1>1, <1>3, <2>1, <2>2, MoveFacts
    <2>. QED  BY <2>1, <2>3
  <1>5. ASSUME task' = [task EXCEPT ![a].at = "finish", ![a].failed = TRUE]
        PROVE  /\ TypeOK' /\ Others(a)
               /\ task'[a].at = "finish" /\ task'[a].imp = task[a].imp
               /\ task'[a].valid = task[a].valid /\ task'[a].kept = task[a].kept
               /\ task'[a].failed = TRUE
    <2> DEFINE t == [task[a] EXCEPT !.at = "finish", !.failed = TRUE]
    <2>1. t \in Task /\ t.at = "finish" /\ t.imp = task[a].imp
          /\ t.valid = task[a].valid /\ t.kept = task[a].kept /\ t.failed = TRUE
      BY <1>1 DEF Task
    <2>2. task' = [task EXCEPT ![a] = t]
      BY <1>5
    <2> HIDE DEF t
    <2>3. TypeOK' /\ Others(a) /\ task'[a] = t
      BY <1>1, <1>3, <2>1, <2>2, MoveFacts
    <2>. QED  BY <2>1, <2>3
  <1>. QED  BY <1>1, <1>3, <1>4, <1>5 DEF Analyze

LEMMA DedupeFacts ==
    ASSUME TypeOK, UNCHANGED setting, NEW a \in Agents, Dedupe(a)
    PROVE  /\ TypeOK' /\ Others(a)
           /\ imp' = imp /\ rows' = rows /\ balance' = balance
           /\ task[a].at = "dedupe" /\ task[a].imp \in Imports
           /\ task'[a].imp = task[a].imp /\ task'[a].valid = task[a].valid
           /\ \/ /\ task'[a].at = "insert" /\ task'[a].failed = task[a].failed
                 /\ task'[a].dups = {r \in task[a].valid : Stored(r)}
                 /\ task'[a].kept = {r \in task[a].valid : ~Stored(r)}
              \/ /\ task'[a].at = "finish" /\ task'[a].failed
                 /\ task'[a].kept = task[a].kept /\ ~setting.steady
  <1> DEFINE d == {r \in task[a].valid : Stored(r)}
  <1>1. task[a].at = "dedupe" /\ task[a].imp \in Imports /\ task[a] \in Task
        /\ task[a].valid \in SUBSET Readings
    BY TaskFacts DEF Dedupe, InImport
  <1>2. UNCHANGED <<imp, rows, balance, retries, aborts>>
    BY DEF Dedupe
  <1>3. d \in SUBSET Readings /\ task[a].valid \ d \in SUBSET Readings
        /\ task[a].valid \ d = {r \in task[a].valid : ~Stored(r)}
    BY <1>1
  <1>4. ASSUME task' = [task EXCEPT ![a].at = "insert", ![a].dups = d,
                                    ![a].kept = task[a].valid \ d]
        PROVE  /\ TypeOK' /\ Others(a)
               /\ task'[a].at = "insert" /\ task'[a].imp = task[a].imp
               /\ task'[a].valid = task[a].valid /\ task'[a].kept = task[a].valid \ d
               /\ task'[a].dups = d /\ task'[a].failed = task[a].failed
    <2> HIDE DEF d
    <2> DEFINE t == [task[a] EXCEPT !.at = "insert", !.dups = d,
                                    !.kept = task[a].valid \ d]
    <2>1. t \in Task /\ t.at = "insert" /\ t.imp = task[a].imp
          /\ t.valid = task[a].valid /\ t.kept = task[a].valid \ d
          /\ t.dups = d /\ t.failed = task[a].failed
      BY <1>1, <1>3 DEF Task
    <2>2. task' = [task EXCEPT ![a] = t]
      BY <1>4
    <2> HIDE DEF t
    <2>3. TypeOK' /\ Others(a) /\ task'[a] = t
      BY <1>1, <1>2, <2>1, <2>2, MoveFacts
    <2>. QED  BY <2>1, <2>3
  <1>5. ASSUME task' = [task EXCEPT ![a].at = "finish", ![a].failed = TRUE]
        PROVE  /\ TypeOK' /\ Others(a)
               /\ task'[a].at = "finish" /\ task'[a].imp = task[a].imp
               /\ task'[a].valid = task[a].valid /\ task'[a].kept = task[a].kept
               /\ task'[a].failed = TRUE
    <2> DEFINE t == [task[a] EXCEPT !.at = "finish", !.failed = TRUE]
    <2>1. t \in Task /\ t.at = "finish" /\ t.imp = task[a].imp
          /\ t.valid = task[a].valid /\ t.kept = task[a].kept /\ t.failed = TRUE
      BY <1>1 DEF Task
    <2>2. task' = [task EXCEPT ![a] = t]
      BY <1>5
    <2> HIDE DEF t
    <2>3. TypeOK' /\ Others(a) /\ task'[a] = t
      BY <1>1, <1>2, <2>1, <2>2, MoveFacts
    <2>. QED  BY <2>1, <2>3
  <1>. QED  BY <1>1, <1>2, <1>3, <1>4, <1>5 DEF Dedupe

LEMMA InsertFacts ==
    ASSUME TypeOK, UNCHANGED setting, NEW a \in Agents, Insert(a)
    PROVE  /\ TypeOK' /\ Others(a) /\ imp' = imp /\ balance' = balance
           /\ task[a].at = "insert" /\ task[a].imp \in Imports
           /\ task'[a].imp = task[a].imp /\ task'[a].valid = task[a].valid
           /\ task'[a].dups = task[a].dups
           /\ \/ /\ \A r \in Readings : rows'[task[a].imp][r] =
                       IF r \in task[a].kept THEN rows[task[a].imp][r] + 1
                       ELSE rows[task[a].imp][r]
                 /\ \A j \in Imports \ {task[a].imp} : rows'[j] = rows[j]
                 /\ task[a].kept = {} => rows' = rows
                 /\ task'[a].kept = task[a].kept /\ task'[a].failed = task[a].failed
                 /\ \/ task'[a].at = "injected" /\ task[a].kept # {}
                    \/ task'[a].at = "finish" /\ (task[a].kept = {} \/ May("skip"))
              \/ /\ task'[a].at = "finish" /\ task'[a].failed
                 /\ task'[a].kept = {} /\ ~setting.steady /\ rows' = rows
  <1> DEFINE i == task[a].imp
             k == task[a].kept
  <1>1. task[a].at = "insert" /\ i \in Imports /\ task[a] \in Task
        /\ k \in SUBSET Readings
    BY TaskFacts DEF Insert, InImport
  <1>2. UNCHANGED <<imp, balance, retries, aborts>>
    BY DEF Insert
  <1>3. CASE /\ \A r \in k : rows[i][r] < MaxCopies
             /\ rows' = [rows EXCEPT ![i] = [r \in Readings |->
                            IF r \in k THEN rows[i][r] + 1 ELSE rows[i][r]]]
             /\ \E step \in {"injected", "finish"} :
                   /\ step = "injected" => Recalculates(task[a])
                   /\ step = "finish" => ~Recalculates(task[a]) \/ May("skip")
                   /\ task' = [task EXCEPT ![a].at = step]
    <2>1. PICK step \in {"injected", "finish"} :
              /\ step = "injected" => k # {}
              /\ step = "finish" => k = {} \/ May("skip")
              /\ task' = [task EXCEPT ![a].at = step]
      BY <1>3 DEF Recalculates
    <2> DEFINE t == [task[a] EXCEPT !.at = step]
               new == [r \in Readings |->
                          IF r \in k THEN rows[i][r] + 1 ELSE rows[i][r]]
    <2>2. t \in Task /\ t.at = step /\ t.imp = i /\ t.valid = task[a].valid
          /\ t.kept = k /\ t.dups = task[a].dups /\ t.failed = task[a].failed
      BY <1>1, <2>1 DEF Task
    <2>3. task' = [task EXCEPT ![a] = t]
      BY <2>1
    <2>4. new \in [Readings -> 0 .. MaxCopies] /\ rows' = [rows EXCEPT ![i] = new]
      <3>1. ASSUME NEW r \in Readings PROVE new[r] \in 0 .. MaxCopies
        <4>1. rows[i][r] \in Nat /\ rows[i][r] <= MaxCopies /\ MaxCopies \in Nat
          BY <1>1, RowFacts
        <4>2. r \in k => rows[i][r] < MaxCopies
          BY <1>3
        <4>. QED  BY <4>1, <4>2, SMT
      <3>. QED  BY <1>3, <3>1
    <2>5. k = {} => new = rows[i]
      BY <1>1, RowFacts
    <2>6. \A r \in Readings : new[r] = IF r \in k THEN rows[i][r] + 1 ELSE rows[i][r]
      OBVIOUS
    <2> HIDE DEF t, new
    <2>7. /\ task' \in [Agents -> Task] /\ task'[a] = t /\ Others(a)
          /\ \A b \in Agents : task'[b].at \in InImport => task'[b].imp \in Imports
      BY <1>1, <2>2, <2>3, TaskStep
    <2>8. rows' \in [Imports -> [Readings -> 0 .. MaxCopies]]
          /\ rows'[i] = new /\ \A j \in Imports \ {i} : rows'[j] = rows[j]
      BY <1>1, <2>4 DEF TypeOK
    <2>9. k = {} => rows' = rows
      BY <1>1, <2>4, <2>5 DEF TypeOK
    <2>10. TypeOK'
      BY <1>2, <2>7, <2>8, TypeStep DEF TypeOK
    <2>. QED  BY <1>1, <1>2, <2>1, <2>2, <2>6, <2>7, <2>8, <2>9, <2>10
  <1>4. CASE /\ ~setting.steady /\ rows' = rows
             /\ task' = [task EXCEPT ![a] = InsertFailed(task[a])]
    <2> DEFINE t == InsertFailed(task[a])
    <2>1. t \in Task /\ t.at = "finish" /\ t.imp = i /\ t.valid = task[a].valid
          /\ t.kept = {} /\ t.dups = task[a].dups /\ t.failed = TRUE
      BY <1>1 DEF Task, InsertFailed
    <2>2. task' = [task EXCEPT ![a] = t]
      BY <1>4
    <2> HIDE DEF t
    <2>3. TypeOK' /\ Others(a) /\ task'[a] = t
      BY <1>1, <1>2, <1>4, <2>1, <2>2, MoveFacts
    <2>. QED  BY <1>1, <1>2, <1>4, <2>1, <2>3
  <1>5. Insert(a) => \/ /\ \A r \in k : rows[i][r] < MaxCopies
                        /\ rows' = [rows EXCEPT ![i] = [r \in Readings |->
                              IF r \in k THEN rows[i][r] + 1 ELSE rows[i][r]]]
                        /\ \E step \in {"injected", "finish"} :
                             /\ step = "injected" => Recalculates(task[a])
                             /\ step = "finish" => ~Recalculates(task[a]) \/ May("skip")
                             /\ task' = [task EXCEPT ![a].at = step]
                     \/ /\ ~setting.steady /\ rows' = rows
                        /\ task' = [task EXCEPT ![a] = InsertFailed(task[a])]
    BY <1>1, RowFacts DEF Insert
  <1>. QED  BY <1>3, <1>4, <1>5

LEMMA FinishFacts ==
    ASSUME TypeOK, UNCHANGED setting, NEW a \in Agents, Finish(a)
    PROVE  /\ TypeOK' /\ Others2(a, task[a].imp) /\ rows' = rows /\ balance' = balance
           /\ task[a].at = "finish" /\ task[a].imp \in Imports
           /\ task'[a] = Idle
           /\ imp'[task[a].imp].status = Outcome(task[a])
           /\ imp'[task[a].imp].ok = task[a].kept
           /\ imp'[task[a].imp].dups = task[a].dups
           /\ imp'[task[a].imp].file = imp[task[a].imp].file
           /\ imp'[task[a].imp].deleted = imp[task[a].imp].deleted
  <1> DEFINE i == task[a].imp
             new == [imp[i] EXCEPT !.status = Outcome(task[a]), !.ok = task[a].kept,
                                   !.dups = task[a].dups]
  <1>1. task[a].at = "finish" /\ i \in Imports
        /\ task[a].kept \in SUBSET Readings /\ task[a].dups \in SUBSET Readings
    BY TaskFacts DEF Finish, InImport
  <1>2. imp' = [imp EXCEPT ![i] = new]
    BY DEF Finish
  <1>3. /\ new \in Import /\ new.status = Outcome(task[a]) /\ new.ok = task[a].kept
        /\ new.dups = task[a].dups /\ new.file = imp[i].file
        /\ new.deleted = imp[i].deleted
    <2>1. imp[i] \in Import /\ Outcome(task[a]) \in {"COMPLETED", "ERROR"}
      BY <1>1, RowFacts DEF Outcome
    <2>. QED  BY <1>1, <2>1 DEF Import
  <1> HIDE DEF new
  <1>4. imp' \in [Imports -> Import] /\ imp'[i] = new
        /\ \A j \in Imports \ {i} : imp'[j] = imp[j]
    BY <1>1, <1>2, <1>3 DEF TypeOK
  <1>5. /\ task' \in [Agents -> Task] /\ task'[a] = Idle /\ Others(a)
        /\ \A b \in Agents : task'[b].at \in InImport => task'[b].imp \in Imports
    <2>1. task' = [task EXCEPT ![a] = Idle] /\ Idle.at \notin InImport
      BY IdleFacts DEF Finish, InImport
    <2>. QED  BY <2>1, IdleFacts, TaskStep
  <1>6. TypeOK'
    BY <1>4, <1>5, TypeStep DEF TypeOK, Finish
  <1>. QED  BY <1>1, <1>3, <1>4, <1>5, <1>6 DEF Finish, Others2

LEMMA RecalculateFacts ==
    ASSUME TypeOK, UNCHANGED setting, NEW a \in Agents, Recalculate(a)
    PROVE  /\ TypeOK' /\ Others(a)
           /\ imp' = imp /\ rows' = rows /\ balance' = balance
           /\ task[a] = Idle /\ task'[a] = Doing(NoImport, "injected")
  <1>1. Doing(NoImport, "injected") \in Task
        /\ Doing(NoImport, "injected").at \notin InImport
    BY IdleFacts DEF Places, InImport
  <1>2. task' = [task EXCEPT ![a] = Doing(NoImport, "injected")]
    BY DEF Recalculate
  <1>3. TypeOK' /\ Others(a) /\ task'[a] = Doing(NoImport, "injected")
    BY <1>1, <1>2, MoveFacts DEF Recalculate
  <1>. QED  BY <1>3 DEF Recalculate

LEMMA DeleteFacts ==
    ASSUME TypeOK, UNCHANGED setting, NEW a \in Agents, NEW i \in Imports, Delete(a, i)
    PROVE  /\ TypeOK' /\ task' = task /\ balance' = balance
           /\ task[a] = Idle /\ May("delete")
           /\ imp[i].status # "none" /\ ~imp[i].deleted
           /\ imp'[i].deleted /\ imp'[i].status = imp[i].status
           /\ imp'[i].file = imp[i].file
           /\ \A j \in Imports \ {i} : imp'[j] = imp[j] /\ rows'[j] = rows[j]
           /\ \A r \in Readings : rows'[i][r] = 0
  <1> DEFINE gone == [imp[i] EXCEPT !.deleted = TRUE]
  <1>1. /\ imp' \in [Imports -> Import] /\ imp'[i].deleted = TRUE
        /\ imp'[i].status = imp[i].status /\ imp'[i].file = imp[i].file
        /\ \A j \in Imports \ {i} : imp'[j] = imp[j]
    <2>1. imp \in [Imports -> Import] /\ imp[i] \in Import
      BY DEF TypeOK
    <2>2. /\ gone \in Import /\ gone.deleted = TRUE
          /\ gone.status = imp[i].status /\ gone.file = imp[i].file
      BY <2>1 DEF Import
    <2>3. imp' = [imp EXCEPT ![i] = gone]
      BY DEF Delete
    <2> HIDE DEF gone
    <2>4. /\ imp' \in [Imports -> Import] /\ imp'[i] = gone
          /\ \A j \in Imports \ {i} : imp'[j] = imp[j]
      BY <2>1, <2>2, <2>3
    <2>. QED  BY <2>2, <2>4
  <1>2. /\ rows' \in [Imports -> [Readings -> 0 .. MaxCopies]]
        /\ \A r \in Readings : rows'[i][r] = 0
        /\ \A j \in Imports \ {i} : rows'[j] = rows[j]
    <2>1. [r \in Readings |-> 0] \in [Readings -> 0 .. MaxCopies]
      BY RowFacts, SMT
    <2>. QED  BY <2>1 DEF Delete, NothingOf, TypeOK
  <1>3. TypeOK'
    BY <1>1, <1>2 DEF TypeOK, Delete
  <1>. QED  BY <1>1, <1>2, <1>3 DEF Delete

LEMMA GrowFacts ==
    ASSUME TypeOK, UNCHANGED setting, NEW i \in Imports, Grow(i)
    PROVE  /\ TypeOK' /\ task' = task /\ balance' = balance /\ rows' = rows
           /\ \A j \in Imports :
                 /\ imp'[j].status = imp[j].status /\ imp'[j].deleted = imp[j].deleted
                 /\ imp'[j].file = imp[j].file /\ imp'[j].ok = imp[j].ok
                 /\ imp'[j].dups = imp[j].dups
  <1> DEFINE aged == [imp[i] EXCEPT !.old = TRUE]
  <1>1. imp \in [Imports -> Import] /\ imp[i] \in Import
    BY DEF TypeOK
  <1>2. /\ aged \in Import /\ aged.status = imp[i].status
        /\ aged.deleted = imp[i].deleted /\ aged.file = imp[i].file
        /\ aged.ok = imp[i].ok /\ aged.dups = imp[i].dups
    BY <1>1 DEF Import
  <1>3. imp' = [imp EXCEPT ![i] = aged]
    BY DEF Grow
  <1> HIDE DEF aged
  <1>4. /\ imp' \in [Imports -> Import] /\ imp'[i] = aged
        /\ \A j \in Imports \ {i} : imp'[j] = imp[j]
    BY <1>1, <1>2, <1>3
  <1>5. \A j \in Imports :
           /\ imp'[j].status = imp[j].status /\ imp'[j].deleted = imp[j].deleted
           /\ imp'[j].file = imp[j].file /\ imp'[j].ok = imp[j].ok
           /\ imp'[j].dups = imp[j].dups
    BY <1>2, <1>4
  <1>6. TypeOK'
    BY <1>4 DEF TypeOK, Grow
  <1>. QED  BY <1>5, <1>6 DEF Grow

LEMMA AbortFacts ==
    ASSUME TypeOK, UNCHANGED setting, NEW a \in Agents, Abort(a)
    PROVE  /\ TypeOK' /\ Others(a)
           /\ imp' = imp /\ rows' = rows /\ balance' = balance
           /\ ~setting.steady /\ task'[a] = Idle
  <1>1. /\ task' \in [Agents -> Task] /\ task'[a] = Idle /\ Others(a)
        /\ \A b \in Agents : task'[b].at \in InImport => task'[b].imp \in Imports
    <2>1. task' = [task EXCEPT ![a] = Idle] /\ Idle.at \notin InImport
      BY IdleFacts DEF Abort, InImport
    <2>. QED  BY <2>1, IdleFacts, TaskStep
  <1>2. aborts' \in 0 .. MaxAborts
    <2>1. aborts \in 0 .. MaxAborts /\ aborts < MaxAborts /\ aborts' = aborts + 1
      BY DEF Abort, TypeOK
    <2>. QED  BY <2>1, ImportsAssumption, SMT
  <1>3. TypeOK'
    BY <1>1, <1>2 DEF TypeOK, Abort
  <1>. QED  BY <1>1, <1>3 DEF Abort

-----------------------------------------------------------------------------
(* The calculation keeps the task's file and touches neither imports nor   *)
(* readings; it ends in finish, or idle when it serves no import.          *)
Computing == {"injected", "count", "total", "update", "create"}
SameFile(t, u) ==
    /\ u.imp = t.imp /\ u.valid = t.valid /\ u.kept = t.kept
    /\ u.dups = t.dups /\ u.failed = t.failed
Ended(t, u) ==
    IF t.imp = NoImport THEN u = Idle ELSE u.at = "finish" /\ SameFile(t, u)

LEMMA CalculatedFacts ==
    ASSUME TypeOK, NEW a \in Agents
    PROVE  /\ Calculated(task[a]) \in Task /\ Ended(task[a], Calculated(task[a]))
           /\ Calculated(task[a]).at \in InImport => Calculated(task[a]).imp \in Imports
  <1>1. task[a] \in Task /\ task[a].imp \in Imports \cup {NoImport}
    BY TaskFacts
  <1>2. CASE task[a].imp = NoImport
    BY <1>2, IdleFacts DEF Calculated, Ended, InImport
  <1>3. CASE task[a].imp # NoImport
    BY <1>1, <1>3 DEF Calculated, Ended, SameFile, Task
  <1>. QED  BY <1>2, <1>3

LEMMA ComputeType ==
    ASSUME TypeOK, UNCHANGED <<setting, imp, rows, retries, aborts>>,
           NEW a \in Agents, NEW t \in Task, t.at \in InImport => t.imp \in Imports,
           task' = [task EXCEPT ![a] = t],
           balance' \in Seq([inj : Nat, con : Nat]), Len(balance') <= MaxBalances
    PROVE  TypeOK' /\ Others(a) /\ task'[a] = t
  <1>1. /\ task' \in [Agents -> Task] /\ task'[a] = t /\ Others(a)
        /\ \A b \in Agents : task'[b].at \in InImport => task'[b].imp \in Imports
    BY TaskStep
  <1>2. TypeOK'
    BY <1>1, TypeStep DEF TypeOK
  <1>. QED  BY <1>1, <1>2

LEMMA ReadInjectedFacts ==
    ASSUME TypeOK, UNCHANGED setting, NEW a \in Agents, ReadInjected(a)
    PROVE  /\ TypeOK' /\ Others(a)
           /\ imp' = imp /\ rows' = rows /\ balance' = balance
           /\ task[a].at = "injected"
           /\ \/ Energy(TrafoReadings) = 0 /\ Ended(task[a], task'[a])
              \/ /\ Energy(TrafoReadings) > 0 /\ SameFile(task[a], task'[a])
                 /\ task'[a].at = "count" /\ task'[a].inj = Energy(TrafoReadings)
  <1> DEFINE e == Energy(TrafoReadings)
  <1>1. e \in Nat /\ task[a] \in Task
    BY TaskFacts, EnergyFacts DEF Readings
  <1> HIDE DEF e
  <1>2. CASE e = 0
    <2>1. task' = [task EXCEPT ![a] = Calculated(task[a])]
      BY <1>2 DEF ReadInjected, e
    <2>. QED  BY <1>2, <2>1, CalculatedFacts, MoveFacts DEF ReadInjected, e
  <1>3. CASE e # 0
    <2> DEFINE t == [task[a] EXCEPT !.at = "count", !.inj = e]
    <2>1. t \in Task /\ t.at = "count" /\ t.inj = e /\ SameFile(task[a], t)
      BY <1>1 DEF Task, SameFile
    <2>2. task' = [task EXCEPT ![a] = t]
      BY <1>3 DEF ReadInjected, e
    <2>3. t.at \notin InImport
      BY <2>1 DEF InImport
    <2>4. e > 0
      BY <1>1, <1>3, SMT
    <2> HIDE DEF t
    <2>. QED  BY <2>1, <2>2, <2>3, <2>4, MoveFacts DEF ReadInjected, e
  <1>. QED  BY <1>2, <1>3

LEMMA CountFacts ==
    ASSUME TypeOK, UNCHANGED setting, NEW a \in Agents, CountConsumption(a)
    PROVE  /\ TypeOK' /\ Others(a)
           /\ imp' = imp /\ rows' = rows /\ balance' = balance
           /\ task[a].at = "count"
           /\ \/ Energy(UcReadings) = 0 /\ Ended(task[a], task'[a])
              \/ /\ Energy(UcReadings) > 0 /\ SameFile(task[a], task'[a])
                 /\ task'[a].at = "total" /\ task'[a].inj = task[a].inj
  <1> DEFINE e == Energy(UcReadings)
  <1>1. e \in Nat /\ task[a] \in Task
    BY TaskFacts, EnergyFacts DEF Readings
  <1> HIDE DEF e
  <1>2. CASE e = 0
    <2>1. task' = [task EXCEPT ![a] = Calculated(task[a])]
      BY <1>2 DEF CountConsumption, e
    <2>. QED  BY <1>2, <2>1, CalculatedFacts, MoveFacts DEF CountConsumption, e
  <1>3. CASE e # 0
    <2> DEFINE t == [task[a] EXCEPT !.at = "total"]
    <2>1. t \in Task /\ t.at = "total" /\ t.inj = task[a].inj /\ SameFile(task[a], t)
      BY <1>1 DEF Task, SameFile
    <2>2. task' = [task EXCEPT ![a] = t]
      BY <1>3 DEF CountConsumption, e
    <2>3. t.at \notin InImport
      BY <2>1 DEF InImport
    <2>4. e > 0
      BY <1>1, <1>3, SMT
    <2> HIDE DEF t
    <2>. QED  BY <2>1, <2>2, <2>3, <2>4, MoveFacts DEF CountConsumption, e
  <1>. QED  BY <1>2, <1>3

LEMMA TotalFacts ==
    ASSUME TypeOK, UNCHANGED setting, NEW a \in Agents, TotalConsumption(a)
    PROVE  /\ TypeOK' /\ Others(a)
           /\ imp' = imp /\ rows' = rows /\ balance' = balance
           /\ task[a].at = "total" /\ SameFile(task[a], task'[a])
           /\ task'[a].at = "update" /\ task'[a].inj = task[a].inj
           /\ task'[a].con = Energy(UcReadings)
  <1> DEFINE e == Energy(UcReadings)
             t == [task[a] EXCEPT !.at = "update", !.con = e]
  <1>1. e \in Nat /\ task[a] \in Task
    BY TaskFacts, EnergyFacts DEF Readings
  <1> HIDE DEF e
  <1>2. t \in Task /\ t.at = "update" /\ t.inj = task[a].inj /\ t.con = e
        /\ SameFile(task[a], t)
    BY <1>1 DEF Task, SameFile
  <1>3. task' = [task EXCEPT ![a] = t]
    BY DEF TotalConsumption, e
  <1>4. t.at \notin InImport
    BY <1>2 DEF InImport
  <1> HIDE DEF t
  <1>. QED  BY <1>2, <1>3, <1>4, MoveFacts DEF TotalConsumption, e

LEMMA ResultType ==
    ASSUME TypeOK, NEW a \in Agents
    PROVE  Result(task[a]) \in [inj : Nat, con : Nat]
  BY TaskFacts DEF Result

LEMMA UpdateFacts ==
    ASSUME TypeOK, UNCHANGED setting, NEW a \in Agents, UpdateBalance(a)
    PROVE  /\ TypeOK' /\ Others(a) /\ imp' = imp /\ rows' = rows
           /\ task[a].at = "update"
           /\ DOMAIN balance' = DOMAIN balance /\ Len(balance') = Len(balance)
           /\ \A b \in DOMAIN balance : balance'[b] = Result(task[a])
           /\ balance' = << >> <=> balance = << >>
           /\ \/ balance # << >> /\ Ended(task[a], task'[a])
              \/ /\ balance = << >> /\ SameFile(task[a], task'[a])
                 /\ task'[a].at = "create" /\ task'[a].inj = task[a].inj
                 /\ task'[a].con = task[a].con
  <1>1. balance' = [b \in DOMAIN balance |-> Result(task[a])]
    BY DEF UpdateBalance
  <1>2. balance \in Seq([inj : Nat, con : Nat]) /\ Len(balance) <= MaxBalances
        /\ task[a] \in Task
    BY TaskFacts DEF TypeOK
  <1>3. /\ balance' \in Seq([inj : Nat, con : Nat]) /\ Len(balance') = Len(balance)
        /\ DOMAIN balance' = DOMAIN balance
        /\ \A b \in DOMAIN balance : balance'[b] = Result(task[a])
    <2> DEFINE x == Result(task[a])
               new == [b \in DOMAIN balance |-> x]
    <2>1. x \in [inj : Nat, con : Nat]
      BY ResultType
    <2>2. DOMAIN balance = 1 .. Len(balance) /\ Len(balance) \in Nat
      BY <1>2
    <2> HIDE DEF x
    <2>3. new \in Seq([inj : Nat, con : Nat]) /\ Len(new) = Len(balance)
      BY <2>1, <2>2
    <2>4. balance' = new
      BY <1>1 DEF x
    <2>. QED  BY <1>2, <2>3, <2>4 DEF x
  <1>4. balance' = << >> <=> balance = << >>
    BY <1>2, <1>3, SMT
  <1>5. UNCHANGED <<imp, rows, retries, aborts>>
    BY DEF UpdateBalance
  <1>6. CASE balance # << >>
    <2>1. task' = [task EXCEPT ![a] = Calculated(task[a])]
      BY <1>6 DEF UpdateBalance
    <2>2. TypeOK' /\ Others(a) /\ task'[a] = Calculated(task[a])
      BY <1>2, <1>3, <1>5, <2>1, CalculatedFacts, ComputeType
    <2>. QED  BY <1>3, <1>4, <1>5, <1>6, <2>2, CalculatedFacts DEF UpdateBalance
  <1>7. CASE balance = << >>
    <2> DEFINE t == [task[a] EXCEPT !.at = "create"]
    <2>1. t \in Task /\ t.at = "create" /\ t.inj = task[a].inj /\ t.con = task[a].con
          /\ SameFile(task[a], t)
      BY <1>2 DEF Task, SameFile
    <2>2. task' = [task EXCEPT ![a] = t]
      BY <1>7 DEF UpdateBalance
    <2>3. t.at \notin InImport
      BY <2>1 DEF InImport
    <2> HIDE DEF t
    <2>4. TypeOK' /\ Others(a) /\ task'[a] = t
      BY <1>2, <1>3, <1>5, <2>1, <2>2, <2>3, ComputeType
    <2>. QED  BY <1>3, <1>4, <1>5, <1>7, <2>1, <2>4 DEF UpdateBalance
  <1>. QED  BY <1>6, <1>7

LEMMA CreateFacts ==
    ASSUME TypeOK, UNCHANGED setting, NEW a \in Agents, CreateBalance(a)
    PROVE  /\ TypeOK' /\ Others(a) /\ imp' = imp /\ rows' = rows
           /\ task[a].at = "create" /\ Ended(task[a], task'[a])
           /\ balance' = Append(balance, Result(task[a]))
  <1>1. balance \in Seq([inj : Nat, con : Nat]) /\ Len(balance) \in Nat
        /\ Len(balance) < MaxBalances /\ MaxBalances \in Nat
        /\ balance' = Append(balance, Result(task[a]))
    BY ImportsAssumption DEF TypeOK, CreateBalance
  <1>2. balance' \in Seq([inj : Nat, con : Nat]) /\ Len(balance') <= MaxBalances
    BY <1>1, ResultType, SMT
  <1>3. task' = [task EXCEPT ![a] = Calculated(task[a])]
        /\ UNCHANGED <<imp, rows, retries, aborts>>
    BY DEF CreateBalance
  <1>4. TypeOK' /\ Others(a) /\ task'[a] = Calculated(task[a])
    BY <1>2, <1>3, CalculatedFacts, ComputeType
  <1>. QED  BY <1>1, <1>3, <1>4, CalculatedFacts DEF CreateBalance

-----------------------------------------------------------------------------
(* Files.                                                                  *)

LEMMA FiledFacts ==
    ASSUME TypeOK, FileInv, NEW a \in Agents
    PROVE  /\ task[a].at = "idle" => task[a] = Idle
           /\ task[a].imp \in Imports =>
                 imp[task[a].imp].status # "none" /\ task[a] # Idle
  BY IdleFacts, ImportsAssumption DEF FileInv, Filed

(* Nobody's file changes but that of a new import, which has no agent yet. *)
LEMMA FileKept ==
    ASSUME FileInv, NEW a \in Agents, Others(a), Filed(task[a])',
           \A j \in Imports : imp[j].status # "none" =>
               imp'[j].file = imp[j].file /\ imp'[j].status # "none",
           \A j \in Imports : Owned(j)' \subseteq imp'[j].file
                              /\ (imp'[j].status = "none" => Owned(j)' = {})
    PROVE  FileInv'
  <1>1. ASSUME NEW b \in Agents, b # a PROVE Filed(task[b])'
    <2>1. task'[b] = task[b] /\ Filed(task[b])
      BY <1>1 DEF Others, FileInv
    <2>. QED  BY <2>1 DEF Filed, Before
  <1>2. \A b \in Agents : Filed(task[b])'
    BY <1>1
  <1>. QED  BY <1>2 DEF FileInv

(* The same when neither imports nor readings change.                      *)
LEMMA FileMove ==
    ASSUME TypeOK, FileInv, NEW a \in Agents, Others(a), imp' = imp, rows' = rows,
           Filed(task[a])'
    PROVE  FileInv'
  <1>1. \A j \in Imports : Owned(j)' = Owned(j)
    BY EnergyKept
  <1>. QED  BY <1>1, FileKept DEF FileInv

LEMMA FileCompute ==
    ASSUME TypeOK, FileInv, NEW a \in Agents, Others(a), imp' = imp, rows' = rows,
           \/ Ended(task[a], task'[a])
           \/ SameFile(task[a], task'[a]) /\ task'[a].at \in {"count", "total", "update", "create"}
    PROVE  FileInv'
  <1>1. Filed(task[a])
    BY DEF FileInv
  <1>2. Filed(task[a])'
    <2>1. CASE task'[a] = Idle
      BY <2>1, IdleFacts, ImportsAssumption DEF Filed, Before
    <2>2. CASE SameFile(task[a], task'[a]) /\ task'[a].at \in {"finish", "count", "total", "update", "create"}
      BY <1>1, <2>2 DEF Filed, Before, SameFile
    <2>. QED  BY <2>1, <2>2 DEF Ended
  <1>. QED  BY <1>2, FileMove

LEMMA FileUpload ==
    ASSUME TypeOK, FileInv, UNCHANGED setting, NEW a \in Agents, NEW i \in Imports,
           Upload(a, i)
    PROVE  FileInv'
  <1>1. /\ Others2(a, i) /\ rows' = rows /\ imp[i].status = "none"
        /\ imp'[i].status = "PROCESSING" /\ task'[a] = Doing(i, "analyze")
    BY UploadFacts
  <1>2. \A j \in Imports : Owned(j)' = Owned(j)
    BY <1>1, EnergyKept
  <1>3. Filed(task[a])'
    <2>1. task'[a].kept = {} /\ task'[a].valid = {} /\ task'[a].imp = i
          /\ task'[a].failed = FALSE /\ task'[a].at = "analyze"
      BY <1>1, IdleFacts DEF Places
    <2>. QED  BY <1>1, <2>1 DEF Filed, Before
  <1>4. \A j \in Imports : imp[j].status # "none" =>
               imp'[j].file = imp[j].file /\ imp'[j].status # "none"
    BY <1>1 DEF Others2
  <1>5. \A j \in Imports : Owned(j)' \subseteq imp'[j].file
                           /\ (imp'[j].status = "none" => Owned(j)' = {})
    BY <1>1, <1>2 DEF FileInv, Others2
  <1>. QED  BY <1>1, <1>3, <1>4, <1>5, FileKept DEF Others2

LEMMA FileRetry ==
    ASSUME TypeOK, FileInv, UNCHANGED setting, NEW a \in Agents, NEW i \in Imports,
           Retry(a, i)
    PROVE  FileInv'
  <1>1. /\ Others(a) /\ imp' = imp /\ rows' = rows /\ imp[i].status # "none"
        /\ task'[a] = Doing(i, "clear")
    BY RetryFacts
  <1>2. Filed(task[a])'
    <2>1. task'[a].kept = {} /\ task'[a].valid = {} /\ task'[a].imp = i
          /\ task'[a].failed = FALSE /\ task'[a].at = "clear"
      BY <1>1, IdleFacts DEF Places
    <2>. QED  BY <1>1, <2>1 DEF Filed, Before
  <1>. QED  BY <1>1, <1>2, FileMove

(* Readings leave the tables, or come from the file.                       *)
LEMMA FileRows ==
    ASSUME TypeOK, TypeOK', FileInv, NEW a \in Agents, Others(a), Filed(task[a])',
           NEW i \in Imports, imp[i].status # "none",
           \A j \in Imports : imp'[j].file = imp[j].file /\ imp'[j].status = imp[j].status,
           \A j \in Imports \ {i} : rows'[j] = rows[j],
           \A r \in Readings : rows'[i][r] > rows[i][r] => r \in imp[i].file
    PROVE  FileInv'
  <1>1. ASSUME NEW j \in Imports, j # i PROVE Owned(j)' = Owned(j)
    BY <1>1 DEF Owned
  <1>2. Owned(i)' \subseteq imp[i].file
    <2>1. ASSUME NEW r \in Readings, rows'[i][r] > 0 PROVE r \in imp[i].file
      <3>1. rows[i][r] \in Nat /\ rows'[i][r] \in Nat
        BY RowFacts DEF TypeOK
      <3>2. rows[i][r] > 0 \/ rows'[i][r] > rows[i][r]
        BY <2>1, <3>1, SMT
      <3>3. rows[i][r] > 0 => r \in Owned(i)
        BY DEF Owned
      <3>. QED  BY <3>2, <3>3 DEF FileInv
    <2>. QED  BY <2>1 DEF Owned
  <1>. QED  BY <1>1, <1>2, FileKept DEF FileInv

LEMMA FileClear ==
    ASSUME TypeOK, FileInv, UNCHANGED setting, NEW a \in Agents, Clear(a)
    PROVE  FileInv'
  <1> DEFINE i == task[a].imp
  <1>1. /\ TypeOK' /\ Others(a) /\ imp' = imp /\ i \in Imports
        /\ \A r \in Readings : rows'[i][r] = 0
        /\ \A j \in Imports \ {i} : rows'[j] = rows[j]
        /\ task[a].at = "clear" /\ task'[a].at = "analyze" /\ task'[a].imp = i
        /\ task'[a].kept = task[a].kept /\ task'[a].valid = task[a].valid
        /\ task'[a].failed = task[a].failed
    BY ClearFacts
  <1>2. Filed(task[a])
    BY DEF FileInv
  <1>3. Filed(task[a])'
    BY <1>1, <1>2 DEF Filed, Before
  <1>4. ASSUME NEW r \in Readings PROVE ~(rows'[i][r] > rows[i][r])
    <2>1. rows[i][r] \in Nat /\ rows'[i][r] = 0
      BY <1>1, RowFacts
    <2>. QED  BY <2>1, SMT
  <1>5. imp[i].status # "none"
    BY <1>1, <1>2 DEF Filed, Before
  <1> HIDE DEF i
  <1>. QED  BY <1>1, <1>3, <1>4, <1>5, FileRows

LEMMA FileAnalyze ==
    ASSUME TypeOK, FileInv, UNCHANGED setting, NEW a \in Agents, Analyze(a)
    PROVE  FileInv'
  <1>1. Filed(task[a])
    BY DEF FileInv
  <1>2. Filed(task[a])'
    BY <1>1, AnalyzeFacts DEF Filed, Before
  <1>. QED  BY <1>2, AnalyzeFacts, FileMove

LEMMA FileDedupe ==
    ASSUME TypeOK, FileInv, UNCHANGED setting, NEW a \in Agents, Dedupe(a)
    PROVE  FileInv'
  <1>1. Filed(task[a])
    BY DEF FileInv
  <1>2. Filed(task[a])'
    BY <1>1, DedupeFacts DEF Filed, Before
  <1>. QED  BY <1>2, DedupeFacts, FileMove

LEMMA FileInsert ==
    ASSUME TypeOK, FileInv, UNCHANGED setting, NEW a \in Agents, Insert(a)
    PROVE  FileInv'
  <1> DEFINE i == task[a].imp
  <1>1. Filed(task[a])
    BY DEF FileInv
  <1>2. /\ TypeOK' /\ Others(a) /\ imp' = imp
        /\ task[a].at = "insert" /\ i \in Imports /\ task'[a].imp = i
        /\ task'[a].valid = task[a].valid /\ task'[a].at \in {"injected", "finish"}
        /\ task'[a].kept \in {task[a].kept, {}}
    BY InsertFacts
  <1>3. Filed(task[a])'
    <2>1. task'[a].at \notin Before /\ task'[a].at # "idle"
      BY <1>2 DEF Before
    <2>2. imp[i].status # "none" /\ task[a].kept \subseteq imp[i].file
          /\ task[a].valid \subseteq imp[i].file
      BY <1>1, <1>2 DEF Filed
    <2>. QED  BY <1>2, <2>1, <2>2 DEF Filed, Before
  <1>4. CASE rows' = rows
    BY <1>2, <1>3, <1>4, FileMove
  <1>5. CASE /\ \A r \in Readings : rows'[i][r] =
                   IF r \in task[a].kept THEN rows[i][r] + 1 ELSE rows[i][r]
             /\ \A j \in Imports \ {i} : rows'[j] = rows[j]
    <2>1. ASSUME NEW r \in Readings, rows'[i][r] > rows[i][r] PROVE r \in imp[i].file
      <3>1. rows[i][r] \in Nat
        BY <1>2, RowFacts
      <3>2. r \in task[a].kept
        BY <1>5, <2>1, <3>1, SMT
      <3>. QED  BY <1>1, <1>2, <3>2 DEF Filed, Before
    <2>2. imp[i].status # "none"
      BY <1>1, <1>2 DEF Filed, Before
    <2> HIDE DEF i
    <2>. QED  BY <1>2, <1>3, <1>5, <2>1, <2>2, FileRows
  <1>. QED  BY <1>4, <1>5, InsertFacts

LEMMA FileFinish ==
    ASSUME TypeOK, FileInv, UNCHANGED setting, NEW a \in Agents, Finish(a)
    PROVE  FileInv'
  <1> DEFINE i == task[a].imp
  <1>1. /\ Others2(a, i) /\ rows' = rows /\ i \in Imports /\ task'[a] = Idle
        /\ imp'[i].status = Outcome(task[a]) /\ imp'[i].file = imp[i].file
    BY FinishFacts
  <1>2. imp'[i].status # "none"
    BY <1>1 DEF Outcome
  <1>3. Filed(task[a])'
    BY <1>1, IdleFacts, ImportsAssumption DEF Filed, Before
  <1>4. \A j \in Imports : Owned(j)' = Owned(j)
    BY <1>1, EnergyKept
  <1>5. \A j \in Imports : imp[j].status # "none" =>
               imp'[j].file = imp[j].file /\ imp'[j].status # "none"
    BY <1>1, <1>2 DEF Others2
  <1>6. \A j \in Imports : Owned(j)' \subseteq imp'[j].file
                           /\ (imp'[j].status = "none" => Owned(j)' = {})
    BY <1>1, <1>2, <1>4 DEF FileInv, Others2
  <1>. QED  BY <1>1, <1>3, <1>5, <1>6, FileKept DEF Others2

LEMMA FileDelete ==
    ASSUME TypeOK, FileInv, UNCHANGED setting, NEW a \in Agents, NEW i \in Imports,
           Delete(a, i)
    PROVE  FileInv'
  <1>1. /\ TypeOK' /\ task' = task /\ imp[i].status # "none"
        /\ imp'[i].status = imp[i].status /\ imp'[i].file = imp[i].file
        /\ \A j \in Imports \ {i} : imp'[j] = imp[j] /\ rows'[j] = rows[j]
        /\ \A r \in Readings : rows'[i][r] = 0
    BY DeleteFacts
  <1>2. ASSUME NEW r \in Readings PROVE ~(rows'[i][r] > rows[i][r])
    <2>1. rows[i][r] \in Nat /\ rows'[i][r] = 0
      BY <1>1, RowFacts
    <2>. QED  BY <2>1, SMT
  <1>3. \A j \in Imports : imp'[j].file = imp[j].file /\ imp'[j].status = imp[j].status
    BY <1>1
  <1>4. Filed(task[a])
    BY DEF FileInv
  <1>5. Filed(task[a])'
    BY <1>1, <1>3, <1>4 DEF Filed, Before
  <1>6. Others(a)
    BY <1>1 DEF Others
  <1>. QED  BY <1>1, <1>2, <1>3, <1>5, <1>6, FileRows

LEMMA FileGrow ==
    ASSUME TypeOK, FileInv, UNCHANGED setting, NEW i \in Imports, Grow(i)
    PROVE  FileInv'
  <1>1. /\ task' = task /\ rows' = rows
        /\ \A j \in Imports :
              imp'[j].file = imp[j].file /\ imp'[j].status = imp[j].status
    BY GrowFacts
  <1>2. \A j \in Imports : Owned(j)' = Owned(j)
    BY <1>1, EnergyKept
  <1>3. ASSUME NEW a \in Agents PROVE Filed(task[a])'
    BY <1>1 DEF FileInv, Filed
  <1>. QED  BY <1>1, <1>2, <1>3 DEF FileInv

LEMMA FileRest ==
    ASSUME TypeOK, FileInv, UNCHANGED setting, NEW a \in Agents,
           Recalculate(a) \/ Abort(a) \/ Calculate(a)
    PROVE  FileInv'
  <1>1. CASE Recalculate(a)
    <2>1. task'[a].at = "injected" /\ task'[a].imp = NoImport
      BY <1>1, RecalculateFacts, IdleFacts DEF Places
    <2>2. Filed(task[a])'
      BY <2>1, ImportsAssumption DEF Filed, Before
    <2>. QED  BY <1>1, <2>2, RecalculateFacts, FileMove
  <1>2. CASE Abort(a)
    <2>1. Filed(task[a])'
      BY <1>2, AbortFacts, IdleFacts, ImportsAssumption DEF Filed, Before
    <2>. QED  BY <1>2, <2>1, AbortFacts, FileMove
  <1>3. CASE ReadInjected(a)
    BY <1>3, ReadInjectedFacts, FileCompute
  <1>4. CASE CountConsumption(a)
    BY <1>4, CountFacts, FileCompute
  <1>5. CASE TotalConsumption(a)
    BY <1>5, TotalFacts, FileCompute
  <1>6. CASE UpdateBalance(a)
    BY <1>6, UpdateFacts, FileCompute
  <1>7. CASE CreateBalance(a)
    BY <1>7, CreateFacts, FileCompute
  <1>. QED  BY <1>1, <1>2, <1>3, <1>4, <1>5, <1>6, <1>7 DEF Calculate

-----------------------------------------------------------------------------
(* The history.                                                            *)
Told == ~May("retry") \/ (setting.serial /\ setting.steady)
TrueOf(i) ==
    imp[i].status \in {"COMPLETED", "ERROR"} /\ ~imp[i].deleted /\ ~Processing(i)
        => Owned(i) = imp[i].ok /\ (imp[i].status = "ERROR" => imp[i].ok = {})

(* Agent a begins, goes on with, or ends the work on i, that nobody else   *)
(* does; or i is no import.                                                *)
LEMMA HistoryStep ==
    ASSUME TypeOK, HistoryInv, Told, Told', UNCHANGED setting, NEW a \in Agents, Others(a),
           NEW i \in Imports \cup {NoImport},
           \A b \in Agents \ {a} : i \in Imports => task[b].imp # i,
           task[a].imp \in {i, NoImport}, task'[a].imp \in {i, NoImport},
           \A j \in Imports \ {i} :
               /\ imp'[j].status = imp[j].status /\ imp'[j].deleted = imp[j].deleted
               /\ imp'[j].ok = imp[j].ok /\ Owned(j)' = Owned(j),
           Kept(task[a])',
           i \in Imports => task'[a].imp = i \/ TrueOf(i)'
    PROVE  HistoryInv'
  <1>1. OneAgentEach /\ HistoryIsTrue /\ \A b \in Agents : Kept(task[b])
    BY DEF HistoryInv, Told
  <1>2. NoImport \notin Imports
    BY ImportsAssumption
  <1>3. OneAgentEach'
    <2>1. ASSUME NEW b \in Agents, NEW c \in Agents,
                 task'[b].imp = task'[c].imp, task'[b].imp \in Imports
          PROVE  b = c
      <3>1. CASE b # a /\ c # a
        BY <1>1, <2>1, <3>1 DEF Others, OneAgentEach
      <3>2. CASE b = a /\ c # a
        <4>1. task'[a].imp = i /\ task'[c] = task[c] /\ task[c].imp # i
          BY <1>2, <2>1, <3>2 DEF Others
        <4>. QED  BY <2>1, <3>2, <4>1
      <3>3. CASE b # a /\ c = a
        <4>1. task'[a].imp = i /\ task'[b] = task[b] /\ task[b].imp # i
          BY <1>2, <2>1, <3>3 DEF Others
        <4>. QED  BY <2>1, <3>3, <4>1
      <3>. QED  BY <3>1, <3>2, <3>3
    <2>. QED  BY <2>1 DEF OneAgentEach
  <1>4. ASSUME NEW j \in Imports PROVE TrueOf(j)'
    <2>1. CASE j = i
      <3>1. CASE task'[a].imp = i
        BY <2>1, <3>1 DEF TrueOf, Processing
      <3>2. CASE TrueOf(i)'
        BY <2>1, <3>2
      <3>. QED  BY <2>1, <3>1, <3>2
    <2>2. CASE j # i
      <3>1. Processing(j)' <=> Processing(j)
        <4>1. task[a].imp # j /\ task'[a].imp # j
          BY <1>2, <2>2
        <4>. QED  BY <4>1 DEF Processing, Others
      <3>2. TrueOf(j)
        BY <1>1 DEF HistoryIsTrue, TrueOf
      <3>. QED  BY <2>2, <3>1, <3>2 DEF TrueOf
    <2>. QED  BY <2>1, <2>2
  <1>5. ASSUME NEW b \in Agents, b # a PROVE Kept(task[b])'
    <2>1. task'[b] = task[b] /\ Kept(task[b]) /\ (i \in Imports => task[b].imp # i)
      BY <1>1, <1>5 DEF Others
    <2>2. /\ task[b].imp \in Imports \cup {NoImport}
          /\ task[b].at \in {"analyze", "dedupe", "insert"} => task[b].imp \in Imports
      BY TaskFacts DEF InImport
    <2>3. CASE task[b].imp \in Imports
      <3>1. task[b].imp \in Imports \ {i}
        BY <2>1, <2>3
      <3>. QED  BY <2>1, <3>1 DEF Kept, May
    <2>4. CASE task[b].imp = NoImport
      BY <1>2, <2>1, <2>2, <2>4 DEF Kept
    <2>. QED  BY <2>2, <2>3, <2>4
  <1>6. HistoryIsTrue'
    BY <1>4 DEF HistoryIsTrue, TrueOf
  <1>. QED  BY <1>3, <1>5, <1>6 DEF HistoryInv

(* The same for an agent that goes on with its import, or leaves it.       *)
LEMMA HistoryGoesOn ==
    ASSUME TypeOK, HistoryInv, Told, Told', UNCHANGED setting, NEW a \in Agents, Others(a),
           NEW i \in Imports \cup {NoImport}, task[a].imp = i,
           imp' = imp, task'[a].imp \in {i, NoImport},
           \A j \in Imports \ {i} : rows'[j] = rows[j],
           Kept(task[a])',
           i \in Imports => task'[a].imp = i \/ TrueOf(i)'
    PROVE  HistoryInv'
  <1>1. \A b \in Agents \ {a} : i \in Imports => task[b].imp # i
    BY DEF HistoryInv, OneAgentEach, Told
  <1>2. \A j \in Imports \ {i} : Owned(j)' = Owned(j)
    BY DEF Owned
  <1>. QED  BY <1>1, <1>2, HistoryStep

LEMMA HistoryUpload ==
    ASSUME TypeOK, FileInv, HistoryInv, Told, Told', UNCHANGED setting,
           NEW a \in Agents, NEW i \in Imports, Upload(a, i)
    PROVE  HistoryInv'
  <1>1. /\ Others2(a, i) /\ rows' = rows /\ imp[i].status = "none" /\ task[a] = Idle
        /\ imp'[i].status = "PROCESSING" /\ task'[a] = Doing(i, "analyze")
    BY UploadFacts
  <1>2. \A j \in Imports : Owned(j)' = Owned(j)
    BY <1>1, EnergyKept
  <1>3. \A b \in Agents : task[b].imp # i
    BY <1>1 DEF FileInv, Filed
  <1>4. task[a].imp = NoImport /\ task'[a].imp = i /\ task'[a].at = "analyze"
    BY <1>1, IdleFacts DEF Places
  <1>5. Kept(task[a])'
    <2>1. Owned(i) = {}
      BY <1>1 DEF FileInv
    <2>. QED  BY <1>1, <1>2, <1>4, <2>1 DEF Kept, After
  <1>. QED  BY <1>1, <1>2, <1>3, <1>4, <1>5, HistoryStep DEF Others2

LEMMA HistoryRetry ==
    ASSUME TypeOK, FileInv, HistoryInv, Told, Told', UNCHANGED setting,
           setting.serial => OneAtATime,
           NEW a \in Agents, NEW i \in Imports, Retry(a, i)
    PROVE  HistoryInv'
  <1>1. /\ Others(a) /\ imp' = imp /\ rows' = rows /\ task[a] = Idle /\ May("retry")
        /\ task'[a] = Doing(i, "clear")
    BY RetryFacts
  <1>2. \A j \in Imports : Owned(j)' = Owned(j)
    BY <1>1, EnergyKept
  <1>3. task[a].imp = NoImport /\ task'[a].imp = i /\ task'[a].at = "clear"
        /\ task'[a] # Idle
    BY <1>1, IdleFacts DEF Places
  <1>4. OneAtATime
    BY <1>1 DEF Told
  <1>5. ASSUME NEW b \in Agents \ {a} PROVE task[b].imp # i
    <2>1. task[b] = Idle
      BY <1>1, <1>3, <1>4 DEF OneAtATime, Others
    <2>. QED  BY <2>1, IdleFacts, ImportsAssumption
  <1>6. Kept(task[a])'
    BY <1>1, <1>3 DEF Kept, After, May
  <1>7. /\ \A b \in Agents \ {a} : i \in Imports => task[b].imp # i
        /\ task[a].imp \in {i, NoImport} /\ task'[a].imp \in {i, NoImport}
        /\ \A j \in Imports \ {i} :
               /\ imp'[j].status = imp[j].status /\ imp'[j].deleted = imp[j].deleted
               /\ imp'[j].ok = imp[j].ok /\ Owned(j)' = Owned(j)
    BY <1>1, <1>2, <1>3, <1>5
  <1>. QED  BY <1>1, <1>3, <1>6, <1>7, HistoryStep

LEMMA HistoryClear ==
    ASSUME TypeOK, FileInv, HistoryInv, Told, Told', UNCHANGED setting,
           NEW a \in Agents, Clear(a)
    PROVE  HistoryInv'
  <1>0. PICK i \in Imports : task[a].imp = i
    BY ClearFacts
  <1>1. /\ TypeOK' /\ Others(a) /\ imp' = imp
        /\ \A r \in Readings : rows'[i][r] = 0
        /\ \A j \in Imports \ {i} : rows'[j] = rows[j]
        /\ task'[a].at = "analyze" /\ task'[a].imp = i
    BY <1>0, ClearFacts
  <1>2. Owned(i)' = {}
    <2>1. \A r \in Readings : ~(rows'[i][r] > 0)
      BY <1>1, SMT
    <2>. QED  BY <2>1 DEF Owned
  <1>3. Kept(task[a])
    BY DEF HistoryInv, Told
  <1>4. Kept(task[a])'
    BY <1>0, <1>1, <1>2, <1>3 DEF Kept, After, May
  <1>. QED  BY <1>0, <1>1, <1>4, HistoryGoesOn

LEMMA HistoryAnalyze ==
    ASSUME TypeOK, FileInv, HistoryInv, Told, Told', UNCHANGED setting,
           NEW a \in Agents, Analyze(a)
    PROVE  HistoryInv'
  <1>1. Kept(task[a]) /\ Filed(task[a])
    BY DEF HistoryInv, FileInv, Told
  <1>0. PICK i \in Imports : task[a].imp = i
    BY AnalyzeFacts
  <1>2. Owned(i)' = Owned(i) /\ rows' = rows
    BY AnalyzeFacts, EnergyKept
  <1>3. Kept(task[a])'
    BY <1>0, <1>1, <1>2, AnalyzeFacts DEF Kept, Filed, After, May
  <1>. QED  BY <1>0, <1>2, <1>3, AnalyzeFacts, HistoryGoesOn

LEMMA HistoryDedupe ==
    ASSUME TypeOK, FileInv, HistoryInv, Told, Told', UNCHANGED setting,
           NEW a \in Agents, Dedupe(a)
    PROVE  HistoryInv'
  <1>1. Kept(task[a]) /\ Filed(task[a])
    BY DEF HistoryInv, FileInv, Told
  <1>0. PICK i \in Imports : task[a].imp = i
    BY DedupeFacts
  <1>2. Owned(i)' = Owned(i) /\ rows' = rows
    BY DedupeFacts, EnergyKept
  <1>3. Kept(task[a])'
    BY <1>0, <1>1, <1>2, DedupeFacts DEF Kept, Filed, After, May
  <1>. QED  BY <1>0, <1>2, <1>3, DedupeFacts, HistoryGoesOn

LEMMA HistoryInsert ==
    ASSUME TypeOK, FileInv, HistoryInv, Told, Told', UNCHANGED setting,
           NEW a \in Agents, Insert(a)
    PROVE  HistoryInv'
  <1>0. PICK i \in Imports, k \in SUBSET Readings :
            task[a].imp = i /\ task[a].kept = k
    BY TaskFacts, InsertFacts
  <1>1. Kept(task[a]) /\ Filed(task[a])
    BY DEF HistoryInv, FileInv, Told
  <1>2. /\ TypeOK' /\ Others(a) /\ imp' = imp /\ task'[a].imp = i
        /\ task[a].at = "insert" /\ task'[a].at \in {"injected", "finish"}
    BY <1>0, InsertFacts
  <1>3. Owned(i) = {} /\ ~task[a].failed
    BY <1>0, <1>1, <1>2 DEF Kept, Filed, Before
  <1>4. CASE /\ \A r \in Readings : rows'[i][r] =
                    IF r \in k THEN rows[i][r] + 1 ELSE rows[i][r]
             /\ \A j \in Imports \ {i} : rows'[j] = rows[j]
             /\ task'[a].kept = k /\ task'[a].failed = task[a].failed
    <2>1. ASSUME NEW r \in Readings PROVE rows'[i][r] > 0 <=> r \in k
      <3>1. rows[i][r] \in Nat /\ ~(rows[i][r] > 0)
        BY <1>2, <1>3, RowFacts DEF Owned
      <3>2. rows'[i][r] = IF r \in k THEN rows[i][r] + 1 ELSE rows[i][r]
        BY <1>4
      <3>. QED  BY <3>1, <3>2, SMT
    <2>2. Owned(i)' = k
      BY <1>2, <2>1 DEF Owned
    <2>3. Kept(task[a])'
      BY <1>0, <1>1, <1>2, <1>3, <1>4, <2>2 DEF Kept, May
    <2>. QED  BY <1>0, <1>2, <1>4, <2>3, HistoryGoesOn
  <1>5. CASE /\ task'[a].at = "finish" /\ task'[a].failed
             /\ task'[a].kept = {} /\ rows' = rows
    <2>1. Owned(i)' = Owned(i)
      BY <1>5, EnergyKept
    <2>2. Kept(task[a])'
      BY <1>0, <1>1, <1>2, <1>3, <1>5, <2>1 DEF Kept, May
    <2>. QED  BY <1>0, <1>2, <1>5, <2>2, HistoryGoesOn
  <1>. QED  BY <1>0, <1>4, <1>5, InsertFacts

LEMMA HistoryFinish ==
    ASSUME TypeOK, FileInv, HistoryInv, Told, Told', UNCHANGED setting,
           NEW a \in Agents, Finish(a)
    PROVE  HistoryInv'
  <1>0. PICK i \in Imports : task[a].imp = i
    BY FinishFacts
  <1>1. Kept(task[a])
    BY DEF HistoryInv, Told
  <1>2. /\ Others2(a, i) /\ rows' = rows /\ task'[a] = Idle
        /\ task[a].at = "finish"
        /\ imp'[i].status = Outcome(task[a]) /\ imp'[i].ok = task[a].kept
        /\ imp'[i].deleted = imp[i].deleted
    BY <1>0, FinishFacts
  <1>3. \A j \in Imports : Owned(j)' = Owned(j)
    BY <1>2, EnergyKept
  <1>4. TrueOf(i)'
    <2>1. ~imp[i].deleted => Owned(i) = task[a].kept
      BY <1>0, <1>1, <1>2 DEF Kept, After
    <2>2. Outcome(task[a]) = "ERROR" => task[a].kept = {}
      BY <1>0, <1>1, <1>2 DEF Kept, After, Outcome
    <2>. QED  BY <1>2, <1>3, <2>1, <2>2 DEF TrueOf
  <1>5. Kept(task[a])' /\ task'[a].imp = NoImport
    BY <1>2, IdleFacts, ImportsAssumption DEF Kept, After
  <1>6. \A b \in Agents \ {a} : task[b].imp # i
    BY <1>0, <1>2 DEF HistoryInv, OneAgentEach, Told
  <1>7. /\ task[a].imp \in {i, NoImport} /\ task'[a].imp \in {i, NoImport}
        /\ \A j \in Imports \ {i} :
               /\ imp'[j].status = imp[j].status /\ imp'[j].deleted = imp[j].deleted
               /\ imp'[j].ok = imp[j].ok /\ Owned(j)' = Owned(j)
    BY <1>0, <1>2, <1>3, <1>5 DEF Others2
  <1>. QED  BY <1>2, <1>4, <1>5, <1>6, <1>7, HistoryStep DEF Others2

LEMMA HistoryDelete ==
    ASSUME TypeOK, FileInv, HistoryInv, Told, Told', UNCHANGED setting,
           NEW a \in Agents, NEW i \in Imports, Delete(a, i)
    PROVE  HistoryInv'
  <1>1. OneAgentEach /\ HistoryIsTrue /\ \A b \in Agents : Kept(task[b])
    BY DEF HistoryInv, Told
  <1>2. /\ TypeOK' /\ task' = task
        /\ imp'[i].deleted /\ imp'[i].status = imp[i].status
        /\ \A j \in Imports \ {i} : imp'[j] = imp[j] /\ rows'[j] = rows[j]
        /\ \A r \in Readings : rows'[i][r] = 0
    BY DeleteFacts
  <1>3. Owned(i)' = {} /\ \A j \in Imports \ {i} : Owned(j)' = Owned(j)
    <2>1. \A r \in Readings : ~(rows'[i][r] > 0)
      BY <1>2, SMT
    <2>. QED  BY <1>2, <2>1 DEF Owned
  <1>4. HistoryIsTrue'
    BY <1>1, <1>2, <1>3 DEF HistoryIsTrue, Processing
  <1>5. ASSUME NEW b \in Agents PROVE Kept(task[b])'
    <2>1. task'[b] = task[b] /\ Kept(task[b])
      BY <1>1, <1>2
    <2>2. /\ task[b].imp \in Imports \cup {NoImport}
          /\ task[b].at \in {"analyze", "dedupe", "insert"} => task[b].imp \in Imports
      BY TaskFacts DEF InImport
    <2>3. CASE task[b].imp = i
      BY <1>2, <1>3, <2>1, <2>3 DEF Kept, May
    <2>4. CASE task[b].imp \in Imports \ {i}
      BY <1>2, <1>3, <2>1, <2>4 DEF Kept, May
    <2>5. CASE task[b].imp = NoImport
      BY <2>1, <2>2, <2>5, ImportsAssumption DEF Kept
    <2>. QED  BY <2>2, <2>3, <2>4, <2>5
  <1>6. OneAgentEach'
    BY <1>1, <1>2 DEF OneAgentEach
  <1>. QED  BY <1>4, <1>5, <1>6 DEF HistoryInv

LEMMA HistoryGrow ==
    ASSUME TypeOK, FileInv, HistoryInv, Told, Told', UNCHANGED setting,
           NEW i \in Imports, Grow(i)
    PROVE  HistoryInv'
  <1>1. OneAgentEach /\ HistoryIsTrue /\ \A b \in Agents : Kept(task[b])
    BY DEF HistoryInv, Told
  <1>2. /\ task' = task /\ rows' = rows
        /\ \A j \in Imports :
              /\ imp'[j].status = imp[j].status /\ imp'[j].deleted = imp[j].deleted
              /\ imp'[j].ok = imp[j].ok
    BY GrowFacts
  <1>3. \A j : Owned(j)' = Owned(j)
    BY <1>2, EnergyKept
  <1>4. HistoryIsTrue'
    BY <1>1, <1>2, <1>3 DEF HistoryIsTrue, Processing
  <1>5. \A b \in Agents : Kept(task[b])'
    BY <1>1, <1>2, <1>3 DEF Kept, May
  <1>6. OneAgentEach'
    BY <1>1, <1>2 DEF OneAgentEach
  <1>. QED  BY <1>4, <1>5, <1>6 DEF HistoryInv

LEMMA HistoryAbort ==
    ASSUME TypeOK, FileInv, HistoryInv, Told, Told', UNCHANGED setting,
           NEW a \in Agents, Abort(a)
    PROVE  HistoryInv'
  <1>0. PICK i \in Imports \cup {NoImport} : task[a].imp = i
    BY TaskFacts
  <1>1. /\ Others(a) /\ imp' = imp /\ rows' = rows /\ ~May("retry")
        /\ task'[a] = Idle /\ task'[a].imp = NoImport
    BY AbortFacts, IdleFacts DEF Told
  <1>2. Kept(task[a])
    BY DEF HistoryInv, Told
  <1>3. Kept(task[a])'
    BY <1>1, IdleFacts, ImportsAssumption DEF Kept, After
  <1>4. i \in Imports => TrueOf(i)'
    BY <1>0, <1>1, <1>2 DEF Kept, TrueOf
  <1>. QED  BY <1>0, <1>1, <1>3, <1>4, HistoryGoesOn

LEMMA HistoryCompute ==
    ASSUME TypeOK, HistoryInv, Told, Told', UNCHANGED setting,
           NEW a \in Agents, Others(a), imp' = imp, rows' = rows,
           task[a].at \in Computing,
           \/ Ended(task[a], task'[a])
           \/ SameFile(task[a], task'[a]) /\ task'[a].at \in {"count", "total", "update", "create"}
    PROVE  HistoryInv'
  <1>0. PICK i \in Imports \cup {NoImport} : task[a].imp = i
    BY TaskFacts
  <1>1. Kept(task[a])
    BY DEF HistoryInv, Told
  <1>2. \A j : Owned(j)' = Owned(j)
    BY EnergyKept
  <1>3. CASE task'[a] = Idle /\ task[a].imp = NoImport
    <2>1. Kept(task[a])' /\ task'[a].imp = NoImport
      BY <1>3, IdleFacts, ImportsAssumption DEF Kept, After
    <2>. QED  BY <1>0, <1>3, <2>1, ImportsAssumption, HistoryGoesOn
  <1>4. CASE SameFile(task[a], task'[a]) /\ task'[a].at \in {"finish", "count", "total", "update", "create"}
    <2>1. task'[a].imp = task[a].imp
      BY <1>4 DEF SameFile
    <2>2. Kept(task[a])'
      BY <1>1, <1>2, <1>4 DEF Kept, SameFile, After, Computing, May
    <2>. QED  BY <1>0, <2>1, <2>2, HistoryGoesOn
  <1>. QED  BY <1>3, <1>4 DEF Ended

LEMMA HistoryRest ==
    ASSUME TypeOK, HistoryInv, Told, Told', UNCHANGED setting, NEW a \in Agents,
           Recalculate(a) \/ Calculate(a)
    PROVE  HistoryInv'
  <1>1. CASE Recalculate(a)
    <2>1. /\ Others(a) /\ imp' = imp /\ rows' = rows
          /\ task[a].imp = NoImport /\ task'[a].imp = NoImport
          /\ task'[a].at = "injected"
      BY <1>1, RecalculateFacts, IdleFacts DEF Places
    <2>2. Kept(task[a])'
      BY <2>1, ImportsAssumption DEF Kept
    <2>. QED  BY <2>1, <2>2, ImportsAssumption, HistoryGoesOn
  <1>2. CASE ReadInjected(a)
    BY <1>2, ReadInjectedFacts, HistoryCompute DEF Computing
  <1>3. CASE CountConsumption(a)
    BY <1>3, CountFacts, HistoryCompute DEF Computing
  <1>4. CASE TotalConsumption(a)
    BY <1>4, TotalFacts, HistoryCompute DEF Computing
  <1>5. CASE UpdateBalance(a)
    BY <1>5, UpdateFacts, HistoryCompute DEF Computing
  <1>6. CASE CreateBalance(a)
    BY <1>6, CreateFacts, HistoryCompute DEF Computing
  <1>. QED  BY <1>1, <1>2, <1>3, <1>4, <1>5, <1>6 DEF Calculate

-----------------------------------------------------------------------------
(* One operation after the other.                                          *)

LEMMA ReadIdle == Read(Idle) /\ Completing(Idle)
  BY IdleFacts, ImportsAssumption DEF Read, Completing, Before, After

LEMMA Alone ==
    ASSUME setting.serial, SerialInv, OneAtATime, NEW a \in Agents, Others(a),
           task[a] # Idle \/ task'[a] # Idle
    PROVE  \A b \in Agents \ {a} : task[b] = Idle /\ task'[b] = Idle
  BY DEF SerialInv, AtMostOne, OneAtATime, Others

LEMMA ReadStep ==
    ASSUME setting.serial, SerialInv, OneAtATime, NEW a \in Agents, Others(a),
           task[a] # Idle \/ task'[a] # Idle, Read(task[a])'
    PROVE  AtMostOne' /\ \A b \in Agents : Read(task[b])'
  <1>1. AtMostOne'
    BY DEF OneAtATime, AtMostOne
  <1>2. ASSUME NEW b \in Agents, b # a PROVE Read(task[b])'
    <2>1. task'[b] = Idle
      BY <1>2, Alone
    <2>. QED  BY <2>1, IdleFacts, ImportsAssumption DEF Read
  <1>. QED  BY <1>1, <1>2

(* Nothing is stored or removed.                                           *)
LEMMA RowsStay ==
    ASSUME rows' = rows, OneOwner PROVE OneOwner'
  BY DEF OneOwner

LEMMA DeletedStay ==
    ASSUME rows' = rows, DeletedHasNoReadings,
           \A j \in Imports : imp'[j].deleted => imp[j].deleted
    PROVE  DeletedHasNoReadings'
  BY EnergyKept DEF DeletedHasNoReadings

LEMMA BalanceStays ==
    ASSUME balance' = balance, OneBalancePerPeriod, NoFalseLoss
    PROVE  OneBalancePerPeriod' /\ NoFalseLoss'
  BY DEF OneBalancePerPeriod, NoFalseLoss

(* The readings of i are removed.                                          *)
LEMMA RowsCleared ==
    ASSUME TypeOK, OneOwner, DeletedHasNoReadings, NEW i \in Imports,
           \A r \in Readings : rows'[i][r] = 0,
           \A j \in Imports \ {i} : rows'[j] = rows[j],
           \A j \in Imports \ {i} : imp'[j].deleted => imp[j].deleted
    PROVE  OneOwner' /\ DeletedHasNoReadings' /\ Owned(i)' = {}
           /\ \A j \in Imports \ {i} : Owned(j)' = Owned(j)
  <1>1. ASSUME NEW r \in Readings, NEW j \in Imports PROVE
            rows'[j][r] <= 1 /\ (rows'[j][r] > 0 => j # i /\ rows[j][r] > 0)
    <2>1. CASE j = i
      BY <2>1, SMT
    <2>2. CASE j # i
      BY <2>2 DEF OneOwner
    <2>. QED  BY <2>1, <2>2
  <1>2. OneOwner'
    BY <1>1 DEF OneOwner
  <1>3. Owned(i)' = {} /\ \A j \in Imports \ {i} : Owned(j)' = Owned(j)
    BY <1>1 DEF Owned
  <1>. QED  BY <1>2, <1>3 DEF DeletedHasNoReadings

LEMMA SerialMove ==
    ASSUME setting.serial, SerialInv, OneAtATime, UNCHANGED setting,
           NEW a \in Agents, Others(a), task[a] # Idle \/ task'[a] # Idle,
           rows' = rows, balance' = balance,
           \A j \in Imports : imp'[j].deleted => imp[j].deleted,
           Read(task[a])'
    PROVE  SerialInv'
  <1>1. OneOwner /\ DeletedHasNoReadings /\ OneBalancePerPeriod /\ NoFalseLoss
    BY DEF SerialInv
  <1>2. AtMostOne' /\ \A b \in Agents : Read(task[b])'
    BY ReadStep
  <1>. QED  BY <1>1, <1>2, RowsStay, DeletedStay, BalanceStays DEF SerialInv

LEMMA SerialBegin ==
    ASSUME TypeOK, setting.serial, SerialInv, OneAtATime, UNCHANGED setting,
           NEW a \in Agents
    PROVE  /\ \A i \in Imports : Upload(a, i) \/ Retry(a, i) => SerialInv'
           /\ Recalculate(a) => SerialInv'
  <1>1. ASSUME NEW i \in Imports, Upload(a, i) PROVE SerialInv'
    <2>1. /\ Others2(a, i) /\ rows' = rows /\ balance' = balance
          /\ ~imp'[i].deleted /\ task'[a] = Doing(i, "analyze")
      BY <1>1, UploadFacts
    <2>2. task'[a].at = "analyze" /\ task'[a].imp = i /\ task'[a] # Idle
      BY <2>1, IdleFacts DEF Places
    <2>3. Read(task[a])'
      BY <2>1, <2>2 DEF Read
    <2>. QED  BY <2>1, <2>2, <2>3, SerialMove DEF Others2
  <1>2. ASSUME NEW i \in Imports, Retry(a, i) PROVE SerialInv'
    <2>1. /\ Others(a) /\ imp' = imp /\ rows' = rows /\ balance' = balance
          /\ ~imp[i].deleted /\ task'[a] = Doing(i, "clear")
      BY <1>2, RetryFacts
    <2>2. task'[a].at = "clear" /\ task'[a].imp = i /\ task'[a] # Idle
      BY <2>1, IdleFacts DEF Places
    <2>3. Read(task[a])'
      BY <2>1, <2>2 DEF Read
    <2>. QED  BY <2>1, <2>2, <2>3, SerialMove
  <1>3. ASSUME Recalculate(a) PROVE SerialInv'
    <2>1. /\ Others(a) /\ imp' = imp /\ rows' = rows /\ balance' = balance
          /\ task'[a] = Doing(NoImport, "injected")
      BY <1>3, RecalculateFacts
    <2>2. task'[a].at = "injected" /\ task'[a].imp = NoImport /\ task'[a] # Idle
      BY <2>1, IdleFacts DEF Places
    <2>3. Read(task[a])'
      BY <2>1, <2>2, ImportsAssumption DEF Read
    <2>. QED  BY <2>1, <2>2, <2>3, SerialMove
  <1>. QED  BY <1>1, <1>2, <1>3

LEMMA SerialClear ==
    ASSUME TypeOK, setting.serial, SerialInv, OneAtATime, UNCHANGED setting,
           NEW a \in Agents, Clear(a)
    PROVE  SerialInv'
  <1>0. PICK i \in Imports : task[a].imp = i
    BY ClearFacts
  <1>1. /\ Others(a) /\ imp' = imp /\ balance' = balance
        /\ \A r \in Readings : rows'[i][r] = 0
        /\ \A j \in Imports \ {i} : rows'[j] = rows[j]
        /\ task[a].at = "clear" /\ task'[a].at = "analyze" /\ task'[a].imp = i
    BY <1>0, ClearFacts
  <1>2. OneOwner /\ DeletedHasNoReadings /\ OneBalancePerPeriod /\ NoFalseLoss
        /\ Read(task[a])
    BY DEF SerialInv
  <1>3. Read(task[a])'
    BY <1>0, <1>1, <1>2 DEF Read
  <1>4. task[a] # Idle
    BY <1>1, IdleFacts
  <1>5. AtMostOne' /\ \A b \in Agents : Read(task[b])'
    BY <1>1, <1>3, <1>4, ReadStep
  <1>6. OneOwner' /\ DeletedHasNoReadings'
    BY <1>1, <1>2, RowsCleared
  <1>. QED  BY <1>1, <1>2, <1>5, <1>6, BalanceStays DEF SerialInv

LEMMA SerialAnalyze ==
    ASSUME TypeOK, setting.serial, SerialInv, OneAtATime, UNCHANGED setting,
           NEW a \in Agents, Analyze(a)
    PROVE  SerialInv'
  <1>1. Read(task[a])
    BY DEF SerialInv
  <1>2. /\ Others(a) /\ imp' = imp /\ rows' = rows /\ balance' = balance
        /\ task[a].at = "analyze" /\ task'[a].at \in {"dedupe", "finish"}
        /\ task'[a].imp = task[a].imp
    BY AnalyzeFacts
  <1>3. Read(task[a])' /\ task[a] # Idle
    BY <1>1, <1>2, IdleFacts DEF Read
  <1>. QED  BY <1>2, <1>3, SerialMove

LEMMA SerialDedupe ==
    ASSUME TypeOK, setting.serial, SerialInv, OneAtATime, UNCHANGED setting,
           NEW a \in Agents, Dedupe(a)
    PROVE  SerialInv'
  <1>1. Read(task[a])
    BY DEF SerialInv
  <1>2. /\ Others(a) /\ imp' = imp /\ rows' = rows /\ balance' = balance
        /\ task[a].at = "dedupe" /\ task'[a].at \in {"insert", "finish"}
        /\ task'[a].imp = task[a].imp
        /\ task'[a].at = "insert" => task'[a].kept = {r \in task[a].valid : ~Stored(r)}
    BY DedupeFacts
  <1>3. \A r : Stored(r)' <=> Stored(r)
    BY <1>2, EnergyKept
  <1>4. task'[a].at = "insert" => \A r \in task'[a].kept : ~Stored(r)'
    BY <1>2, <1>3
  <1>5. Read(task[a])'
    BY <1>1, <1>2, <1>4 DEF Read
  <1>6. task[a] # Idle
    BY <1>2, IdleFacts
  <1>. QED  BY <1>2, <1>5, <1>6, SerialMove

LEMMA SerialInsert ==
    ASSUME TypeOK, setting.serial, SerialInv, OneAtATime, UNCHANGED setting,
           NEW a \in Agents, Insert(a)
    PROVE  SerialInv'
  <1>0. PICK i \in Imports, k \in SUBSET Readings :
            task[a].imp = i /\ task[a].kept = k
    BY TaskFacts, InsertFacts
  <1>1. OneOwner /\ DeletedHasNoReadings /\ OneBalancePerPeriod /\ NoFalseLoss
        /\ Read(task[a])
    BY DEF SerialInv
  <1>2. /\ Others(a) /\ imp' = imp /\ balance' = balance
        /\ task[a].at = "insert" /\ task'[a].at \in {"injected", "finish"}
        /\ task'[a].imp = i
    BY <1>0, InsertFacts
  <1>3. Read(task[a])' /\ task[a] # Idle
    BY <1>0, <1>1, <1>2, IdleFacts DEF Read
  <1>4. CASE rows' = rows
    BY <1>2, <1>3, <1>4, SerialMove
  <1>5. CASE /\ \A r \in Readings : rows'[i][r] =
                   IF r \in k THEN rows[i][r] + 1 ELSE rows[i][r]
             /\ \A j \in Imports \ {i} : rows'[j] = rows[j]
    <2>1. AtMostOne' /\ \A b \in Agents : Read(task[b])'
      BY <1>2, <1>3, ReadStep
    <2>2. \A r \in k, j \in Imports : rows[j][r] = 0
      <3>1. ASSUME NEW r \in k, NEW j \in Imports PROVE rows[j][r] = 0
        <4>1. ~Stored(r)
          BY <1>0, <1>1, <1>2 DEF Read
        <4>2. rows[j][r] \in Nat /\ ~(rows[j][r] > 0)
          BY <4>1, RowFacts DEF Stored
        <4>. QED  BY <4>2, SMT
      <3>. QED  BY <3>1
    <2>3. ASSUME NEW r \in Readings, NEW j \in Imports
          PROVE  /\ r \notin k => rows'[j][r] = rows[j][r]
                 /\ r \in k => rows'[j][r] = IF j = i THEN 1 ELSE 0
      <3>1. CASE j = i
        <4>1. r \in k => rows'[i][r] = rows[i][r] + 1 /\ rows[i][r] = 0
          BY <1>5, <2>2
        <4>. QED  BY <1>5, <3>1, <4>1, SMT
      <3>2. CASE j # i
        BY <1>5, <2>2, <3>2
      <3>. QED  BY <3>1, <3>2
    <2>4. OneOwner'
      <3>1. ASSUME NEW r \in Readings, NEW j \in Imports
            PROVE  /\ rows'[j][r] <= 1
                   /\ \A m \in Imports : rows'[j][r] > 0 /\ rows'[m][r] > 0 => j = m
        <4>1. CASE r \in k
          <5>1. \A m \in Imports : rows'[m][r] = IF m = i THEN 1 ELSE 0
            BY <2>3, <4>1
          <5>. QED  BY <5>1, SMT
        <4>2. CASE r \notin k
          <5>1. \A m \in Imports : rows'[m][r] = rows[m][r]
            BY <2>3, <4>2
          <5>. QED  BY <1>1, <5>1 DEF OneOwner
        <4>. QED  BY <4>1, <4>2
      <3>. QED  BY <3>1 DEF OneOwner
    <2>5. DeletedHasNoReadings'
      <3>1. ASSUME NEW j \in Imports, imp[j].deleted PROVE Owned(j)' = {}
        <4>1. j # i
          BY <1>0, <1>1, <3>1 DEF Read
        <4>2. Owned(j)' = Owned(j)
          BY <1>5, <4>1 DEF Owned
        <4>. QED  BY <1>1, <3>1, <4>2 DEF DeletedHasNoReadings
      <3>. QED  BY <1>2, <3>1 DEF DeletedHasNoReadings
    <2>. QED  BY <1>1, <1>2, <2>1, <2>4, <2>5, BalanceStays DEF SerialInv
  <1>. QED  BY <1>0, <1>4, <1>5, InsertFacts

LEMMA SerialEnd ==
    ASSUME TypeOK, setting.serial, SerialInv, OneAtATime, UNCHANGED setting,
           NEW a \in Agents, Finish(a) \/ Abort(a)
    PROVE  SerialInv'
  <1>1. CASE Finish(a)
    <2>0. PICK i \in Imports : task[a].imp = i
      BY <1>1, FinishFacts
    <2>1. /\ Others2(a, i) /\ rows' = rows /\ balance' = balance
          /\ task[a].at = "finish" /\ task'[a] = Idle
          /\ imp'[i].deleted = imp[i].deleted
      BY <1>1, <2>0, FinishFacts
    <2>2. Read(task[a])' /\ task[a] # Idle
      BY <2>1, IdleFacts, ImportsAssumption DEF Read
    <2>. QED  BY <2>1, <2>2, SerialMove DEF Others2
  <1>2. CASE Abort(a)
    <2>1. /\ Others(a) /\ imp' = imp /\ rows' = rows /\ balance' = balance
          /\ task'[a] = Idle /\ task[a].at # "idle"
      BY <1>2, AbortFacts DEF Abort
    <2>2. Read(task[a])' /\ task[a] # Idle
      BY <2>1, IdleFacts, ImportsAssumption DEF Read
    <2>. QED  BY <2>1, <2>2, SerialMove
  <1>. QED  BY <1>1, <1>2

LEMMA SerialDelete ==
    ASSUME TypeOK, setting.serial, SerialInv, OneAtATime, UNCHANGED setting,
           NEW a \in Agents, NEW i \in Imports, Delete(a, i)
    PROVE  SerialInv'
  <1>1. /\ task' = task /\ balance' = balance
        /\ imp'[i].deleted /\ ~imp[i].deleted
        /\ \A j \in Imports \ {i} : imp'[j] = imp[j] /\ rows'[j] = rows[j]
        /\ \A r \in Readings : rows'[i][r] = 0
    BY DeleteFacts
  <1>2. OneOwner /\ DeletedHasNoReadings /\ OneBalancePerPeriod /\ NoFalseLoss
    BY DEF SerialInv
  <1>3. OneOwner' /\ DeletedHasNoReadings'
    BY <1>1, <1>2, RowsCleared
  <1>4. \A b \in Agents : task'[b] = Idle
    BY <1>1 DEF OneAtATime
  <1>5. AtMostOne' /\ \A b \in Agents : Read(task[b])'
    BY <1>4, IdleFacts, ImportsAssumption DEF AtMostOne, Read
  <1>. QED  BY <1>1, <1>2, <1>3, <1>5, BalanceStays DEF SerialInv

LEMMA SerialGrow ==
    ASSUME TypeOK, setting.serial, SerialInv, OneAtATime, UNCHANGED setting,
           NEW i \in Imports, Grow(i)
    PROVE  SerialInv'
  <1>1. /\ task' = task /\ rows' = rows /\ balance' = balance
        /\ \A j \in Imports : imp'[j].deleted = imp[j].deleted
    BY GrowFacts
  <1>2. /\ OneOwner /\ DeletedHasNoReadings /\ OneBalancePerPeriod /\ NoFalseLoss
        /\ AtMostOne /\ \A b \in Agents : Read(task[b])
    BY DEF SerialInv
  <1>3. \A m : Energy(m)' = Energy(m)
    BY <1>1, EnergyKept
  <1>4. \A r : Stored(r)' <=> Stored(r)
    BY <1>1, EnergyKept
  <1>5. AtMostOne' /\ \A b \in Agents : Read(task[b])'
    BY <1>1, <1>2, <1>3, <1>4 DEF AtMostOne, Read
  <1>. QED  BY <1>1, <1>2, <1>5, RowsStay, DeletedStay, BalanceStays DEF SerialInv

(* The calculation.                                                        *)
LEMMA SerialCompute ==
    ASSUME TypeOK, setting.serial, SerialInv, OneAtATime, UNCHANGED setting,
           NEW a \in Agents, task[a].at \in Computing,
           Others(a), imp' = imp, rows' = rows,
           OneBalancePerPeriod' /\ NoFalseLoss',
           \/ Ended(task[a], task'[a])
           \/ SameFile(task[a], task'[a]) /\ Read(task[a])'
    PROVE  SerialInv'
  <1>1. Read(task[a]) /\ OneOwner /\ DeletedHasNoReadings
    BY DEF SerialInv
  <1>2. task[a] # Idle
    BY IdleFacts DEF Computing
  <1>3. Read(task[a])'
    <2>1. CASE task'[a] = Idle
      BY <2>1, IdleFacts, ImportsAssumption DEF Read
    <2>2. CASE task'[a].at = "finish" /\ SameFile(task[a], task'[a])
      BY <1>1, <2>2 DEF Read, SameFile
    <2>. QED  BY <2>1, <2>2 DEF Ended
  <1>4. AtMostOne' /\ \A b \in Agents : Read(task[b])'
    BY <1>2, <1>3, ReadStep
  <1>. QED  BY <1>1, <1>4, RowsStay, DeletedStay DEF SerialInv

LEMMA SerialCalculate ==
    ASSUME TypeOK, setting.serial, SerialInv, OneAtATime, UNCHANGED setting,
           NEW a \in Agents, Calculate(a)
    PROVE  SerialInv'
  <1>1. Read(task[a]) /\ OneBalancePerPeriod /\ NoFalseLoss
    BY DEF SerialInv
  <1>2. /\ rows' = rows => \A m : Energy(m)' = Energy(m)
        /\ Energy(UcReadings) \in Nat
    BY EnergyKept, EnergyFacts DEF Readings
  <1>3. balance \in Seq([inj : Nat, con : Nat]) /\ Len(balance) \in Nat
    BY DEF TypeOK
  <1>4. CASE ReadInjected(a)
    <2>1. \/ Ended(task[a], task'[a])
          \/ SameFile(task[a], task'[a]) /\ Read(task[a])'
      BY <1>1, <1>2, <1>4, ReadInjectedFacts DEF Read, SameFile
    <2>. QED  BY <1>1, <1>4, <2>1, ReadInjectedFacts, BalanceStays, SerialCompute DEF Computing
  <1>5. CASE CountConsumption(a)
    <2>1. \/ Ended(task[a], task'[a])
          \/ SameFile(task[a], task'[a]) /\ Read(task[a])'
      BY <1>1, <1>2, <1>5, CountFacts DEF Read, SameFile
    <2>. QED  BY <1>1, <1>5, <2>1, CountFacts, BalanceStays, SerialCompute DEF Computing
  <1>6. CASE TotalConsumption(a)
    <2>1. SameFile(task[a], task'[a]) /\ Read(task[a])'
      BY <1>1, <1>2, <1>6, TotalFacts DEF Read, SameFile
    <2>. QED  BY <1>1, <1>6, <2>1, TotalFacts, BalanceStays, SerialCompute DEF Computing
  <1>7. CASE UpdateBalance(a)
    <2>1. \/ Ended(task[a], task'[a])
          \/ SameFile(task[a], task'[a]) /\ Read(task[a])'
      BY <1>1, <1>2, <1>7, UpdateFacts DEF Read, SameFile
    <2>2. Result(task[a]).con > 0
      BY <1>1, <1>7, UpdateFacts DEF Read, Result
    <2>3. OneBalancePerPeriod' /\ NoFalseLoss'
      BY <1>1, <1>7, <2>2, UpdateFacts DEF OneBalancePerPeriod, NoFalseLoss
    <2>. QED  BY <1>7, <2>1, <2>3, UpdateFacts, SerialCompute DEF Computing
  <1>8. CASE CreateBalance(a)
    <2>1. balance = << >> /\ Result(task[a]).con > 0
          /\ balance' = Append(balance, Result(task[a]))
      BY <1>1, <1>8, CreateFacts DEF Read, Result
    <2>2. Len(balance') = 1 /\ DOMAIN balance' = {1} /\ balance'[1] = Result(task[a])
      BY <2>1, ResultType
    <2>3. OneBalancePerPeriod' /\ NoFalseLoss'
      BY <2>1, <2>2 DEF OneBalancePerPeriod, NoFalseLoss
    <2>. QED  BY <1>8, <2>3, CreateFacts, SerialCompute DEF Computing
  <1>. QED  BY <1>4, <1>5, <1>6, <1>7, <1>8 DEF Calculate

-----------------------------------------------------------------------------
(* Nothing fails and nothing is undone.                                    *)
Steadily == setting.serial /\ setting.steady /\ ~May("delete") /\ ~May("skip")
Used ==
    balance # << >> => /\ \E r \in TrafoReadings : Known(r)
                       /\ \E r \in UcReadings : Known(r)
Counted(i) ==
    imp[i].status = "COMPLETED" => /\ imp[i].ok \cup imp[i].dups \subseteq imp[i].file
                                   /\ \A r \in imp[i].file : Known(r)

LEMMA SteadyParts ==
    ASSUME Steadily, SteadyInv
    PROVE  /\ \A a \in Agents : Completing(task[a])
           /\ (\A a \in Agents : task[a] = Idle) => Current
           /\ Used /\ \A i \in Imports : Counted(i)
  BY DEF SteadyInv, Steadily, Used, Counted

(* When only a works, a reading is known from the tables or from a.        *)
Only(a) == \A b \in Agents \ {a} : task[b] = Idle
Mine(a, r) == task[a].at \in Before /\ r \in imp[task[a].imp].file

LEMMA KnownFacts ==
    ASSUME NEW a \in Agents, Only(a)
    PROVE  \A r : Known(r) <=> Stored(r) \/ Mine(a, r)
  BY IdleFacts DEF Only, Known, Mine, Before

LEMMA KnownFactsNext ==
    ASSUME NEW a \in Agents, Only(a)'
    PROVE  \A r : Known(r)' <=> Stored(r)' \/ Mine(a, r)'
  BY IdleFacts DEF Only, Known, Mine, Before

LEMMA SteadyStep ==
    ASSUME TypeOK, Steadily, SteadyInv, UNCHANGED setting, NEW a \in Agents,
           Only(a), Only(a)',
           \A r \in Readings : Known(r) => Known(r)',
           Completing(task[a])', task'[a] = Idle => Current', Used',
           \A j \in Imports : Counted(j)'
    PROVE  SteadyInv'
  <1>1. ASSUME NEW b \in Agents, b # a PROVE Completing(task[b])'
    <2>1. task'[b] = Idle
      BY <1>1 DEF Only
    <2>. QED  BY <2>1, IdleFacts, ImportsAssumption DEF Completing, Before, After
  <1>2. \A b \in Agents : Completing(task[b])'
    BY <1>1
  <1>. QED  BY <1>2 DEF SteadyInv, Used, Counted

LEMMA OnlyFacts ==
    ASSUME setting.serial, SerialInv, OneAtATime, NEW a \in Agents, Others(a),
           task[a] # Idle \/ task'[a] # Idle
    PROVE  Only(a) /\ Only(a)'
  BY Alone DEF Only

(* The imports and what is known stay.                                     *)
LEMMA UsedStays ==
    ASSUME Used, balance' = balance, \A r \in Readings : Known(r) => Known(r)'
    PROVE  Used'
  BY DEF Used, Readings

LEMMA CountedStays ==
    ASSUME TypeOK, NEW i \in Imports, Counted(i), \A r \in Readings : Known(r) => Known(r)',
           \/ imp'[i].status # "COMPLETED"
           \/ /\ imp'[i].status = imp[i].status /\ imp'[i].file = imp[i].file
              /\ imp'[i].ok = imp[i].ok /\ imp'[i].dups = imp[i].dups
    PROVE  Counted(i)'
  <1>1. imp[i].file \in SUBSET Readings
    BY DEF TypeOK, Import
  <1>. QED  BY <1>1 DEF Counted

LEMMA CurrentStays ==
    ASSUME rows' = rows, balance' = balance PROVE Current' <=> Current
  BY EnergyKept DEF Current, Now

(* Only a's task changes.                                                  *)
LEMMA SteadyMove ==
    ASSUME TypeOK, Steadily, SerialInv, SteadyInv, OneAtATime, UNCHANGED setting,
           NEW a \in Agents, Others(a), task[a] # Idle \/ task'[a] # Idle,
           imp' = imp, rows' = rows, balance' = balance,
           \A r \in Readings : Mine(a, r) => Stored(r) \/ Mine(a, r)',
           Completing(task[a])', task'[a] = Idle => Current'
    PROVE  SteadyInv'
  <1>1. Only(a) /\ Only(a)'
    BY OnlyFacts DEF Steadily
  <1>2. \A r \in Readings : Known(r) => Known(r)'
    BY <1>1, KnownFacts, KnownFactsNext, EnergyKept
  <1>3. Used' /\ \A j \in Imports : Counted(j)'
    BY <1>2, SteadyParts, UsedStays, CountedStays
  <1>. QED  BY <1>1, <1>2, <1>3, SteadyStep

LEMMA SteadyUpload ==
    ASSUME TypeOK, Steadily, SerialInv, SteadyInv, OneAtATime, UNCHANGED setting,
           NEW a \in Agents, NEW i \in Imports, Upload(a, i)
    PROVE  SteadyInv'
  <1>1. /\ Others2(a, i) /\ rows' = rows /\ balance' = balance /\ task[a] = Idle
        /\ imp'[i].status = "PROCESSING" /\ task'[a] = Doing(i, "analyze")
    BY UploadFacts
  <1>2. task'[a].at = "analyze" /\ task'[a].imp = i /\ task'[a] # Idle
    BY <1>1, IdleFacts DEF Places
  <1>3. Only(a) /\ Only(a)'
    BY <1>1, <1>2, OnlyFacts DEF Steadily, Others2
  <1>4. Current'
    <2>1. Current
      BY <1>1, <1>3, SteadyParts DEF Only
    <2>. QED  BY <1>1, <2>1, CurrentStays
  <1>5. \A r \in Readings : Known(r) => Known(r)'
    <2>1. \A r : ~Mine(a, r)
      BY <1>1, IdleFacts DEF Mine, Before
    <2>. QED  BY <1>1, <1>3, <2>1, KnownFacts, KnownFactsNext, EnergyKept
  <1>6. Completing(task[a])'
    BY <1>2, <1>4 DEF Completing, Before, After
  <1>7. Used'
    BY <1>1, <1>5, SteadyParts, UsedStays
  <1>8. \A j \in Imports : Counted(j)'
    <2>1. \A j \in Imports : imp'[j].status # "COMPLETED" \/ imp'[j] = imp[j]
      BY <1>1 DEF Others2
    <2>. QED  BY <1>5, <2>1, SteadyParts, CountedStays
  <1>. QED  BY <1>2, <1>3, <1>5, <1>6, <1>7, <1>8, SteadyStep

LEMMA SteadyBegin ==
    ASSUME TypeOK, Steadily, SerialInv, SteadyInv, OneAtATime, UNCHANGED setting,
           NEW a \in Agents
    PROVE  /\ \A i \in Imports : Retry(a, i) => SteadyInv'
           /\ Recalculate(a) => SteadyInv'
  <1>1. ASSUME NEW i \in Imports, Retry(a, i) PROVE SteadyInv'
    <2>1. /\ Others(a) /\ imp' = imp /\ rows' = rows /\ balance' = balance
          /\ task[a] = Idle /\ task'[a] = Doing(i, "clear")
      BY <1>1, RetryFacts
    <2>2. task'[a].at = "clear" /\ task'[a].imp = i /\ task'[a] # Idle
      BY <2>1, IdleFacts DEF Places
    <2>3. Current'
      <3>1. \A b \in Agents : task[b] = Idle
        BY <2>1, <2>2, OnlyFacts DEF Steadily, Only
      <3>. QED  BY <2>1, <3>1, SteadyParts, CurrentStays
    <2>4. Completing(task[a])'
      BY <2>2, <2>3 DEF Completing, Before, After
    <2>5. \A r : ~Mine(a, r)
      BY <2>1, IdleFacts DEF Mine, Before
    <2>. QED  BY <2>1, <2>2, <2>4, <2>5, SteadyMove
  <1>2. ASSUME Recalculate(a) PROVE SteadyInv'
    <2>1. /\ Others(a) /\ imp' = imp /\ rows' = rows /\ balance' = balance
          /\ task[a] = Idle /\ task'[a] = Doing(NoImport, "injected")
      BY <1>2, RecalculateFacts
    <2>2. task'[a].at = "injected" /\ task'[a].imp = NoImport /\ task'[a] # Idle
      BY <2>1, IdleFacts DEF Places
    <2>3. Completing(task[a])'
      BY <2>2, ImportsAssumption DEF Completing, Before, After
    <2>4. \A r : ~Mine(a, r)
      BY <2>1, IdleFacts DEF Mine, Before
    <2>. QED  BY <2>1, <2>2, <2>3, <2>4, SteadyMove
  <1>. QED  BY <1>1, <1>2

LEMMA SteadyClear ==
    ASSUME TypeOK, FileInv, Steadily, SerialInv, SteadyInv, OneAtATime,
           UNCHANGED setting, NEW a \in Agents, Clear(a)
    PROVE  SteadyInv'
  <1>0. PICK i \in Imports : task[a].imp = i
    BY ClearFacts
  <1>1. /\ TypeOK' /\ Others(a) /\ imp' = imp /\ balance' = balance
        /\ \A r \in Readings : rows'[i][r] = 0
        /\ \A j \in Imports \ {i} : rows'[j] = rows[j]
        /\ task[a].at = "clear" /\ task'[a].at = "analyze" /\ task'[a].imp = i
    BY <1>0, ClearFacts
  <1>2. task[a] # Idle /\ task'[a] # Idle
    BY <1>1, IdleFacts
  <1>3. Only(a) /\ Only(a)'
    BY <1>1, <1>2, OnlyFacts DEF Steadily
  <1>4. OneOwner /\ Owned(i) \subseteq imp[i].file
        /\ (Current \/ \E r \in imp[i].file : ~Stored(r))
        /\ imp[i].file \in SUBSET Readings
    <2>1. Completing(task[a])
      BY SteadyParts
    <2>. QED  BY <1>0, <1>1, <2>1 DEF SerialInv, Steadily, FileInv, Completing, Before,
                                      TypeOK, Import
  <1>5. ASSUME NEW r \in Readings PROVE
            /\ Stored(r)' => Stored(r) /\ r \notin Owned(i)
            /\ Stored(r) => Stored(r)' \/ r \in Owned(i)
    <2>1. ASSUME NEW j \in Imports, rows'[j][r] > 0 PROVE j # i /\ rows[j][r] > 0
      <3>1. j # i
        BY <1>1, <2>1, SMT
      <3>. QED  BY <1>1, <2>1, <3>1
    <2>2. Stored(r)' => Stored(r) /\ r \notin Owned(i)
      BY <1>4, <2>1 DEF Stored, Owned, OneOwner
    <2>3. Stored(r) => Stored(r)' \/ r \in Owned(i)
      BY <1>1 DEF Stored, Owned
    <2>. QED  BY <2>2, <2>3
  <1>6. \A r \in Readings : Known(r) => Known(r)'
    <2>1. \A r \in Readings : Mine(a, r)' <=> r \in imp[i].file
      BY <1>1 DEF Mine, Before
    <2>2. \A r \in Readings : Mine(a, r) <=> r \in imp[i].file
      BY <1>0, <1>1 DEF Mine, Before
    <2>. QED  BY <1>3, <1>4, <1>5, <2>1, <2>2, KnownFacts, KnownFactsNext
  <1>7. Current' \/ \E r \in imp'[i].file : ~Stored(r)'
    <2>1. CASE Owned(i) = {}
      <3>1. \A r \in Readings : rows[i][r] = 0
        <4>1. ASSUME NEW r \in Readings PROVE rows[i][r] = 0
          <5>1. rows[i][r] \in Nat /\ ~(rows[i][r] > 0)
            BY <2>1, RowFacts DEF Owned
          <5>. QED  BY <5>1, SMT
        <4>. QED  BY <4>1
      <3>2. rows' = rows
        <4>1. rows \in [Imports -> [Readings -> 0 .. MaxCopies]]
              /\ rows' \in [Imports -> [Readings -> 0 .. MaxCopies]]
          BY <1>1 DEF TypeOK
        <4>2. \A j \in Imports : \A r \in Readings : rows'[j][r] = rows[j][r]
          BY <1>1, <3>1
        <4>. QED  BY <4>1, <4>2
      <3>. QED  BY <1>1, <1>4, <1>5, <3>2, CurrentStays
    <2>2. CASE Owned(i) # {}
      <3>1. PICK r : r \in Owned(i)
        BY <2>2
      <3>2. r \in imp[i].file /\ r \in Readings
        BY <1>4, <3>1
      <3>3. ~Stored(r)'
        BY <1>5, <3>1, <3>2
      <3>. QED  BY <1>1, <3>2, <3>3
    <2>. QED  BY <2>1, <2>2
  <1>8. Completing(task[a])'
    BY <1>1, <1>7 DEF Completing, Before, After
  <1>9. Used' /\ \A j \in Imports : Counted(j)'
    BY <1>1, <1>6, SteadyParts, UsedStays, CountedStays
  <1>. QED  BY <1>2, <1>3, <1>6, <1>8, <1>9, SteadyStep

LEMMA SteadyAnalyze ==
    ASSUME TypeOK, FileInv, Steadily, SerialInv, SteadyInv, OneAtATime,
           UNCHANGED setting, NEW a \in Agents, Analyze(a)
    PROVE  SteadyInv'
  <1>1. /\ Others(a) /\ imp' = imp /\ rows' = rows /\ balance' = balance
        /\ task[a].at = "analyze" /\ task'[a].at = "dedupe"
        /\ task'[a].imp = task[a].imp
        /\ task'[a].valid = imp[task[a].imp].file
    BY AnalyzeFacts DEF Steadily
  <1>2. Completing(task[a])
    BY SteadyParts
  <1>3. Current' <=> Current
    BY <1>1, CurrentStays
  <1>4. \A r : Stored(r)' <=> Stored(r)
    BY <1>1, EnergyKept
  <1>5. Completing(task[a])'
    BY <1>1, <1>2, <1>3, <1>4 DEF Completing, Before, After
  <1>6. \A r \in Readings : Mine(a, r) => Mine(a, r)'
    BY <1>1 DEF Mine, Before
  <1>7. task[a] # Idle /\ task'[a] # Idle
    BY <1>1, IdleFacts
  <1>. QED  BY <1>1, <1>5, <1>6, <1>7, SteadyMove

LEMMA SteadyDedupe ==
    ASSUME TypeOK, FileInv, Steadily, SerialInv, SteadyInv, OneAtATime,
           UNCHANGED setting, NEW a \in Agents, Dedupe(a)
    PROVE  SteadyInv'
  <1>1. /\ Others(a) /\ imp' = imp /\ rows' = rows /\ balance' = balance
        /\ task[a].at = "dedupe" /\ task'[a].at = "insert"
        /\ task'[a].imp = task[a].imp /\ task'[a].valid = task[a].valid
        /\ task'[a].dups = {r \in task[a].valid : Stored(r)}
        /\ task'[a].kept = {r \in task[a].valid : ~Stored(r)}
    BY DedupeFacts DEF Steadily
  <1>2. Completing(task[a])
    BY SteadyParts
  <1>3. Current' <=> Current
    BY <1>1, CurrentStays
  <1>4. \A r : Stored(r)' <=> Stored(r)
    BY <1>1, EnergyKept
  <1>5. Completing(task[a])'
    <2>1. task[a].valid = imp[task[a].imp].file
          /\ (Current \/ \E r \in imp[task[a].imp].file : ~Stored(r))
      BY <1>1, <1>2 DEF Completing, Before
    <2>2. task'[a].kept \cup task'[a].dups = imp'[task'[a].imp].file
      BY <1>1, <2>1
    <2>3. \A r \in task'[a].dups : Stored(r)'
      BY <1>1, <1>4
    <2>4. Current' \/ \E r \in imp'[task'[a].imp].file : ~Stored(r)'
      BY <1>1, <1>3, <1>4, <2>1
    <2>5. task'[a].valid = imp'[task'[a].imp].file
      BY <1>1, <2>1
    <2>. QED  BY <1>1, <2>2, <2>3, <2>4, <2>5 DEF Completing, Before, After
  <1>6. \A r \in Readings : Mine(a, r) => Mine(a, r)'
    BY <1>1 DEF Mine, Before
  <1>7. task[a] # Idle /\ task'[a] # Idle
    BY <1>1, IdleFacts
  <1>. QED  BY <1>1, <1>5, <1>6, <1>7, SteadyMove

LEMMA SteadyInsert ==
    ASSUME TypeOK, FileInv, Steadily, SerialInv, SteadyInv, OneAtATime,
           UNCHANGED setting, NEW a \in Agents, Insert(a)
    PROVE  SteadyInv'
  <1>0. PICK i \in Imports, k \in SUBSET Readings :
            task[a].imp = i /\ task[a].kept = k
    BY TaskFacts, InsertFacts
  <1>1. /\ Others(a) /\ imp' = imp /\ balance' = balance
        /\ task[a].at = "insert" /\ task'[a].at \in {"injected", "finish"}
        /\ task'[a].imp = i /\ task'[a].dups = task[a].dups /\ task'[a].kept = k
        /\ \A r \in Readings : rows'[i][r] =
              IF r \in k THEN rows[i][r] + 1 ELSE rows[i][r]
        /\ \A j \in Imports \ {i} : rows'[j] = rows[j]
        /\ k = {} => rows' = rows
        /\ task'[a].at = "finish" => k = {}
    BY <1>0, InsertFacts DEF Steadily
  <1>2. /\ k \cup task[a].dups = imp[i].file /\ \A r \in task[a].dups : Stored(r)
        /\ Current \/ \E r \in imp[i].file : ~Stored(r)
        /\ imp[i].file \in SUBSET Readings
    <2>1. Completing(task[a])
      BY SteadyParts
    <2>. QED  BY <1>0, <1>1, <2>1 DEF Completing, Before, TypeOK, Import
  <1>3. task[a] # Idle /\ task'[a] # Idle
    BY <1>1, IdleFacts
  <1>4. Only(a) /\ Only(a)'
    BY <1>1, <1>3, OnlyFacts DEF Steadily
  <1>5. ASSUME NEW r \in Readings, Stored(r) \/ r \in k PROVE Stored(r)'
    <2>1. CASE r \in k
      <3>1. rows[i][r] \in Nat /\ rows'[i][r] = rows[i][r] + 1
        BY <1>1, <2>1, RowFacts
      <3>2. rows'[i][r] > 0
        BY <3>1, SMT
      <3>. QED  BY <3>2 DEF Stored
    <2>2. CASE r \notin k
      <3>1. PICK j \in Imports : rows[j][r] > 0
        BY <1>5, <2>2 DEF Stored
      <3>2. rows'[j][r] = rows[j][r]
        BY <1>1, <2>2
      <3>. QED  BY <3>1, <3>2 DEF Stored
    <2>. QED  BY <2>1, <2>2
  <1>6. \A r \in imp[i].file : Stored(r)'
    BY <1>2, <1>5
  <1>7. \A r \in Readings : Known(r) => Known(r)'
    <2>1. \A r \in Readings : Mine(a, r) => r \in imp[i].file
      BY <1>0 DEF Mine
    <2>. QED  BY <1>4, <1>5, <1>6, <2>1, KnownFacts, KnownFactsNext
  <1>8. Completing(task[a])'
    <2>1. task'[a].at = "finish" => Current'
      <3>1. ASSUME k = {} PROVE Current'
        <4>1. Current
          BY <1>2, <3>1
        <4>. QED  BY <1>1, <3>1, <4>1, CurrentStays
      <3>. QED  BY <1>1, <3>1
    <2>2. task'[a].kept \cup task'[a].dups = imp'[task'[a].imp].file
          /\ \A r \in imp'[task'[a].imp].file : Stored(r)'
      BY <1>1, <1>2, <1>6
    <2>. QED  BY <1>1, <2>1, <2>2 DEF Completing, Before, After
  <1>9. Used' /\ \A j \in Imports : Counted(j)'
    BY <1>1, <1>7, SteadyParts, UsedStays, CountedStays
  <1>. QED  BY <1>3, <1>4, <1>7, <1>8, <1>9, SteadyStep

LEMMA SteadyFinish ==
    ASSUME TypeOK, FileInv, Steadily, SerialInv, SteadyInv, OneAtATime,
           UNCHANGED setting, NEW a \in Agents, Finish(a)
    PROVE  SteadyInv'
  <1>0. PICK i \in Imports : task[a].imp = i
    BY FinishFacts
  <1>1. /\ Others2(a, i) /\ rows' = rows /\ balance' = balance
        /\ task[a].at = "finish" /\ task'[a] = Idle
        /\ imp'[i].ok = task[a].kept /\ imp'[i].dups = task[a].dups
        /\ imp'[i].file = imp[i].file
    BY <1>0, FinishFacts
  <1>2. /\ task[a].kept \cup task[a].dups = imp[i].file /\ Current
        /\ \A r \in imp[i].file : Stored(r)
        /\ imp[i].file \in SUBSET Readings
    <2>1. Completing(task[a])
      BY SteadyParts
    <2>. QED  BY <1>0, <1>1, <2>1 DEF Completing, After, TypeOK, Import
  <1>3. task[a] # Idle
    BY <1>1, IdleFacts
  <1>4. Only(a) /\ Only(a)'
    BY <1>1, <1>3, OnlyFacts DEF Steadily, Others2
  <1>5. \A r : Known(r)' <=> Known(r)
    <2>1. \A r : ~Mine(a, r) /\ ~Mine(a, r)'
      BY <1>1, IdleFacts DEF Mine, Before
    <2>. QED  BY <1>1, <1>4, <2>1, KnownFacts, KnownFactsNext, EnergyKept
  <1>6. \A j \in Imports : Counted(j)'
    <2>1. \A r \in imp[i].file : Known(r)'
      BY <1>2, <1>5 DEF Known
    <2>2. Counted(i)'
      BY <1>1, <1>2, <2>1 DEF Counted
    <2>3. ASSUME NEW j \in Imports, j # i PROVE Counted(j)'
      BY <1>1, <1>5, <2>3, SteadyParts, CountedStays DEF Others2
    <2>. QED  BY <2>2, <2>3
  <1>7. Used' /\ Current'
    BY <1>1, <1>2, <1>5, SteadyParts, UsedStays, CurrentStays
  <1>8. Completing(task[a])'
    BY <1>1, IdleFacts, ImportsAssumption DEF Completing, Before, After
  <1>. QED  BY <1>4, <1>5, <1>6, <1>7, <1>8, SteadyStep

LEMMA SteadyGrow ==
    ASSUME TypeOK, Steadily, SerialInv, SteadyInv, UNCHANGED setting,
           NEW i \in Imports, Grow(i)
    PROVE  SteadyInv'
  <1>1. /\ task' = task /\ rows' = rows /\ balance' = balance
        /\ \A j \in Imports :
              /\ imp'[j].status = imp[j].status /\ imp'[j].file = imp[j].file
              /\ imp'[j].ok = imp[j].ok /\ imp'[j].dups = imp[j].dups
    BY GrowFacts
  <1>2. /\ \A r : Stored(r)' <=> Stored(r)
        /\ Current' <=> Current
    BY <1>1, EnergyKept, CurrentStays
  <1>3. \A r : Known(r)' <=> Known(r)
    <2>1. \A b \in Agents : task[b].at \in Before => task[b].imp \in Imports
      BY TaskFacts DEF Before, InImport
    <2>. QED  BY <1>1, <1>2, <2>1 DEF Known
  <1>4. \A b \in Agents : Completing(task[b])'
    <2>1. ASSUME NEW b \in Agents PROVE Completing(task[b])'
      <3>1. Completing(task[b]) /\ task'[b] = task[b]
            /\ (task[b].at \in Before => task[b].imp \in Imports)
        BY <1>1, TaskFacts, SteadyParts DEF Before, InImport
      <3>. QED  BY <1>1, <1>2, <3>1 DEF Completing, Before
    <2>. QED  BY <2>1
  <1>5. Used' /\ \A j \in Imports : Counted(j)'
    BY <1>1, <1>3, SteadyParts, UsedStays, CountedStays
  <1>6. (\A b \in Agents : task'[b] = Idle) => Current'
    BY <1>1, <1>2, SteadyParts
  <1>. QED  BY <1>4, <1>5, <1>6 DEF SteadyInv, Used, Counted

(* The calculation makes the balance current, or finds that it is: then    *)
(* there are no readings of one kind, and never was a balance.             *)
LEMMA SteadyCompute ==
    ASSUME TypeOK, Steadily, SerialInv, SteadyInv, OneAtATime, UNCHANGED setting,
           NEW a \in Agents, Others(a), imp' = imp, rows' = rows,
           task[a].at \in Computing, Used',
           \/ Ended(task[a], task'[a]) /\ Current'
           \/ /\ SameFile(task[a], task'[a])
              /\ task'[a].at \in {"count", "total", "update", "create"}
    PROVE  SteadyInv'
  <1>1. task[a] # Idle
    BY IdleFacts DEF Computing
  <1>2. Only(a) /\ Only(a)'
    BY <1>1, OnlyFacts DEF Steadily
  <1>3. Completing(task[a])
    BY SteadyParts
  <1>4. \A r : Stored(r)' <=> Stored(r)
    BY EnergyKept
  <1>5. Completing(task[a])' /\ (task'[a] = Idle => Current')
    <2>1. CASE task'[a] = Idle /\ Current'
      BY <2>1, IdleFacts, ImportsAssumption DEF Completing, Before, After
    <2>2. CASE task'[a].at = "finish" /\ SameFile(task[a], task'[a]) /\ Current'
      BY <1>3, <1>4, <2>2, IdleFacts DEF Completing, SameFile, Before, After, Computing
    <2>3. CASE SameFile(task[a], task'[a])
               /\ task'[a].at \in {"count", "total", "update", "create"}
      BY <1>3, <1>4, <2>3, IdleFacts DEF Completing, SameFile, Before, After, Computing
    <2>. QED  BY <2>1, <2>2, <2>3 DEF Ended
  <1>6. \A r \in Readings : Known(r) => Known(r)'
    <2>1. \A r : ~Mine(a, r)
      BY DEF Mine, Before, Computing
    <2>. QED  BY <1>2, <1>4, <2>1, KnownFacts, KnownFactsNext
  <1>7. \A j \in Imports : Counted(j)'
    BY <1>6, SteadyParts, CountedStays
  <1>. QED  BY <1>2, <1>5, <1>6, <1>7, SteadyStep

(* Who calculates is the only source of known readings beside the tables.  *)
LEMMA NothingUsed ==
    ASSUME TypeOK, Steadily, SerialInv, SteadyInv, OneAtATime,
           NEW a \in Agents, Others(a), task[a].at \in Computing,
           Energy(TrafoReadings) = 0 \/ Energy(UcReadings) = 0
    PROVE  balance = << >> /\ Current
  <1>1. task[a] # Idle
    BY IdleFacts DEF Computing
  <1>2. Only(a)
    BY <1>1, OnlyFacts DEF Steadily
  <1>3. \A r : Known(r) <=> Stored(r)
    BY <1>2, KnownFacts DEF Mine, Before, Computing
  <1>4. balance = << >>
    <2>1. \/ \A r \in TrafoReadings : ~Stored(r)
          \/ \A r \in UcReadings : ~Stored(r)
      BY EnergyFacts DEF Readings
    <2>. QED  BY <1>3, <2>1, SteadyParts DEF Used
  <1>5. ~(Now.inj > 0 /\ Now.con > 0)
    <2>1. Now.inj = 0 \/ Now.con = 0
      BY DEF Now
    <2>2. Now.inj \in Nat /\ Now.con \in Nat
      BY EnergyFacts DEF Now, Readings
    <2>. QED  BY <2>1, <2>2, SMT
  <1>6. DOMAIN balance = {}
    BY <1>4
  <1>. QED  BY <1>4, <1>5, <1>6 DEF Current

LEMMA UsedKept ==
    ASSUME TypeOK, Steadily, SerialInv, SteadyInv, OneAtATime, NEW a \in Agents, Others(a),
           task[a].at \in Computing, rows' = rows, balance' = << >> \/ balance # << >>
    PROVE  Used'
  <1>1. task[a] # Idle
    BY IdleFacts DEF Computing
  <1>2. Only(a)
    BY <1>1, OnlyFacts DEF Steadily
  <1>3. \A r : Known(r) => Stored(r)
    BY <1>2, KnownFacts DEF Mine, Before, Computing
  <1>4. \A r : Stored(r) => Known(r)'
    BY EnergyKept DEF Known
  <1>. QED  BY <1>3, <1>4, SteadyParts DEF Used

LEMMA SteadyCalculate ==
    ASSUME TypeOK, Steadily, SerialInv, SteadyInv, OneAtATime, UNCHANGED setting,
           NEW a \in Agents, Calculate(a)
    PROVE  SteadyInv'
  <1>1. Read(task[a])
    BY DEF SerialInv, Steadily
  <1>2. CASE ReadInjected(a)
    <2>1. /\ Others(a) /\ imp' = imp /\ rows' = rows /\ balance' = balance
          /\ task[a].at \in Computing
          /\ \/ Energy(TrafoReadings) = 0 /\ Ended(task[a], task'[a])
             \/ SameFile(task[a], task'[a]) /\ task'[a].at = "count"
      BY <1>2, ReadInjectedFacts DEF Computing
    <2>2. Used'
      BY <2>1, UsedKept
    <2>3. Energy(TrafoReadings) = 0 => Current'
      BY <2>1, NothingUsed, CurrentStays
    <2>. QED  BY <2>1, <2>2, <2>3, SteadyCompute
  <1>3. CASE CountConsumption(a)
    <2>1. /\ Others(a) /\ imp' = imp /\ rows' = rows /\ balance' = balance
          /\ task[a].at \in Computing
          /\ \/ Energy(UcReadings) = 0 /\ Ended(task[a], task'[a])
             \/ SameFile(task[a], task'[a]) /\ task'[a].at = "total"
      BY <1>3, CountFacts DEF Computing
    <2>2. Used'
      BY <2>1, UsedKept
    <2>3. Energy(UcReadings) = 0 => Current'
      BY <2>1, NothingUsed, CurrentStays
    <2>. QED  BY <2>1, <2>2, <2>3, SteadyCompute
  <1>4. CASE TotalConsumption(a)
    <2>1. /\ Others(a) /\ imp' = imp /\ rows' = rows /\ balance' = balance
          /\ task[a].at \in Computing
          /\ SameFile(task[a], task'[a]) /\ task'[a].at = "update"
      BY <1>4, TotalFacts DEF Computing
    <2>2. Used'
      BY <2>1, UsedKept
    <2>. QED  BY <2>1, <2>2, SteadyCompute
  <1>5. CASE UpdateBalance(a)
    <2>1. /\ Others(a) /\ imp' = imp /\ rows' = rows
          /\ task[a].at = "update" /\ task[a].at \in Computing
          /\ DOMAIN balance' = DOMAIN balance
          /\ \A b \in DOMAIN balance : balance'[b] = Result(task[a])
          /\ balance' = << >> <=> balance = << >>
          /\ \/ balance # << >> /\ Ended(task[a], task'[a])
             \/ SameFile(task[a], task'[a]) /\ task'[a].at = "create"
      BY <1>5, UpdateFacts DEF Computing
    <2>2. Used'
      BY <2>1, UsedKept
    <2>3. balance # << >> => Current'
      <3>1. Result(task[a]) = Now
        BY <1>1, <2>1 DEF Read, Result, Now
      <3>2. Now' = Now
        BY <2>1, EnergyKept DEF Now
      <3>. QED  BY <2>1, <3>1, <3>2 DEF Current
    <2>. QED  BY <2>1, <2>2, <2>3, SteadyCompute
  <1>6. CASE CreateBalance(a)
    <2>1. /\ Others(a) /\ imp' = imp /\ rows' = rows
          /\ task[a].at = "create" /\ task[a].at \in Computing
          /\ balance' = Append(balance, Result(task[a]))
          /\ Ended(task[a], task'[a])
      BY <1>6, CreateFacts DEF Computing
    <2>2. balance = << >> /\ Energy(TrafoReadings) > 0 /\ Energy(UcReadings) > 0
      BY <1>1, <2>1 DEF Read
    <2>3. DOMAIN balance' = {1} /\ balance'[1] = Result(task[a]) /\ balance' # << >>
      BY <2>1, <2>2, ResultType
    <2>4. Current'
      <3>1. Result(task[a]) = Now
        BY <1>1, <2>1 DEF Read, Result, Now
      <3>2. Now' = Now
        BY <2>1, EnergyKept DEF Now
      <3>. QED  BY <2>3, <3>1, <3>2 DEF Current
    <2>5. Used'
      <3>1. /\ \E r \in TrafoReadings : Stored(r)
            /\ \E r \in UcReadings : Stored(r)
        BY <2>2, EnergyFacts DEF Readings
      <3>2. \A r : Stored(r) => Known(r)'
        BY <2>1, EnergyKept DEF Known
      <3>. QED  BY <3>1, <3>2 DEF Used
    <2>. QED  BY <2>1, <2>4, <2>5, SteadyCompute
  <1>. QED  BY <1>2, <1>3, <1>4, <1>5, <1>6 DEF Calculate

-----------------------------------------------------------------------------
(* The invariant.                                                          *)

LEMMA InvInit == Init => Inv
<1> SUFFICES ASSUME Init PROVE Inv
  OBVIOUS
<1>1. /\ \A i \in Imports : imp[i] = NotUploaded
      /\ \A i \in Imports, r \in Readings : rows[i][r] = 0
      /\ balance = << >> /\ \A a \in Agents : task[a] = Idle
  BY DEF Init
<1>2. TypeOK
  <2>1. NotUploaded \in Import
    BY DEF NotUploaded, Import
  <2>2. rows \in [Imports -> [Readings -> 0 .. MaxCopies]]
    <3>1. [r \in Readings |-> 0] \in [Readings -> 0 .. MaxCopies]
      BY ImportsAssumption, SMT
    <3>. QED  BY <3>1 DEF Init
  <2>3. balance \in Seq([inj : Nat, con : Nat]) /\ Len(balance) <= MaxBalances
    BY <1>1, ImportsAssumption
  <2>4. task \in [Agents -> Task]
        /\ \A a \in Agents : task[a].at \in InImport => task[a].imp \in Imports
    BY IdleFacts DEF Init, InImport
  <2>5. retries \in 0 .. MaxRetries /\ aborts \in 0 .. MaxAborts
    BY ImportsAssumption, SMT DEF Init
  <2>. QED  BY <2>1, <2>2, <2>3, <2>4, <2>5 DEF TypeOK, Init
<1>3. /\ \A i \in Imports : Owned(i) = {}
      /\ \A r \in Readings : ~Stored(r)
      /\ \A i \in Imports : imp[i].status = "none" /\ ~imp[i].deleted
  <2>1. \A i \in Imports, r \in Readings : ~(rows[i][r] > 0)
    BY <1>1, SMT
  <2>. QED  BY <1>1, <2>1 DEF Owned, Stored, NotUploaded
<1>4. FileInv
  BY <1>1, <1>3, IdleFacts, ImportsAssumption DEF FileInv, Filed, Before
<1>5. HistoryInv
  BY <1>1, <1>3, IdleFacts, ImportsAssumption
     DEF HistoryInv, OneAgentEach, HistoryIsTrue, Kept, After
<1>6. SerialInv
  <2>1. OneOwner
    BY <1>1, SMT DEF OneOwner
  <2>2. OneBalancePerPeriod /\ NoFalseLoss
    BY <1>1 DEF OneBalancePerPeriod, NoFalseLoss
  <2>3. \A a \in Agents : Read(task[a])
    BY <1>1, ReadIdle
  <2>. QED  BY <1>1, <1>3, <2>1, <2>2, <2>3 DEF SerialInv, AtMostOne, DeletedHasNoReadings
<1>7. SteadyInv
  <2>1. Current
    <3>1. Now.inj = 0 /\ Now.inj \in Nat
      BY <1>2, <1>3, EnergyFacts DEF Now, Readings
    <3>2. ~(Now.inj > 0)
      BY <3>1, SMT
    <3>3. DOMAIN balance = {}
      BY <1>1
    <3>. QED  BY <3>2, <3>3 DEF Current
  <2>. QED  BY <1>1, <1>3, <2>1, ReadIdle DEF SteadyInv
<1>. QED  BY <1>2, <1>4, <1>5, <1>6, <1>7 DEF Inv

LEMMA FileNext ==
    ASSUME TypeOK, FileInv, UNCHANGED setting, Next
    PROVE  TypeOK' /\ FileInv'
  <1>1. ASSUME NEW a \in Agents, NEW i \in Imports, Upload(a, i) PROVE TypeOK' /\ FileInv'
    BY <1>1, UploadFacts, FileUpload
  <1>2. ASSUME NEW a \in Agents, NEW i \in Imports, Retry(a, i) PROVE TypeOK' /\ FileInv'
    BY <1>2, RetryFacts, FileRetry
  <1>3. ASSUME NEW a \in Agents, NEW i \in Imports, Delete(a, i) PROVE TypeOK' /\ FileInv'
    BY <1>3, DeleteFacts, FileDelete
  <1>4. ASSUME NEW a \in Agents, Process(a) PROVE TypeOK' /\ FileInv'
    BY <1>4, ClearFacts, FileClear, AnalyzeFacts, FileAnalyze, DedupeFacts, FileDedupe,
       InsertFacts, FileInsert, FinishFacts, FileFinish DEF Process
  <1>5. ASSUME NEW a \in Agents, Recalculate(a) \/ Calculate(a) \/ Abort(a)
        PROVE  TypeOK' /\ FileInv'
    BY <1>5, RecalculateFacts, AbortFacts, ReadInjectedFacts, CountFacts, TotalFacts,
       UpdateFacts, CreateFacts, FileRest DEF Calculate
  <1>6. ASSUME NEW i \in Imports, Grow(i) PROVE TypeOK' /\ FileInv'
    BY <1>6, GrowFacts, FileGrow
  <1>. QED  BY <1>1, <1>2, <1>3, <1>4, <1>5, <1>6 DEF Next

LEMMA HistoryNext ==
    ASSUME TypeOK, FileInv, HistoryInv, UNCHANGED setting, Next
    PROVE  HistoryInv'
  <1>1. CASE ~Told
    BY <1>1 DEF Told, HistoryInv, May
  <1>2. CASE Told
    <2>0. Told' /\ (setting.serial => OneAtATime)
      BY <1>2 DEF Told, May, Next
    <2>1. ASSUME NEW a \in Agents, NEW i \in Imports, Upload(a, i) PROVE HistoryInv'
      BY <1>2, <2>0, <2>1, HistoryUpload
    <2>2. ASSUME NEW a \in Agents, NEW i \in Imports, Retry(a, i) PROVE HistoryInv'
      BY <1>2, <2>0, <2>2, HistoryRetry
    <2>3. ASSUME NEW a \in Agents, NEW i \in Imports, Delete(a, i) PROVE HistoryInv'
      BY <1>2, <2>0, <2>3, HistoryDelete
    <2>4. ASSUME NEW a \in Agents, Process(a) PROVE HistoryInv'
      BY <1>2, <2>0, <2>4, HistoryClear, HistoryAnalyze, HistoryDedupe, HistoryInsert,
         HistoryFinish DEF Process
    <2>5. ASSUME NEW a \in Agents, Recalculate(a) \/ Calculate(a) \/ Abort(a)
          PROVE  HistoryInv'
      BY <1>2, <2>0, <2>5, HistoryRest, HistoryAbort
    <2>6. ASSUME NEW i \in Imports, Grow(i) PROVE HistoryInv'
      BY <1>2, <2>0, <2>6, HistoryGrow
    <2>. QED  BY <2>1, <2>2, <2>3, <2>4, <2>5, <2>6 DEF Next
  <1>. QED  BY <1>1, <1>2

LEMMA SerialNext ==
    ASSUME TypeOK, SerialInv, UNCHANGED setting, Next
    PROVE  SerialInv'
  <1>1. CASE ~setting.serial
    BY <1>1 DEF SerialInv
  <1>2. CASE setting.serial
    <2>0. OneAtATime
      BY <1>2 DEF Next
    <2>1. ASSUME NEW a \in Agents, NEW i \in Imports, Upload(a, i) \/ Retry(a, i)
          PROVE  SerialInv'
      BY <1>2, <2>0, <2>1, SerialBegin
    <2>2. ASSUME NEW a \in Agents, NEW i \in Imports, Delete(a, i) PROVE SerialInv'
      BY <1>2, <2>0, <2>2, SerialDelete
    <2>3. ASSUME NEW a \in Agents, Process(a) PROVE SerialInv'
      BY <1>2, <2>0, <2>3, SerialClear, SerialAnalyze, SerialDedupe, SerialInsert,
         SerialEnd DEF Process
    <2>4. ASSUME NEW a \in Agents, Recalculate(a) \/ Calculate(a) \/ Abort(a)
          PROVE  SerialInv'
      BY <1>2, <2>0, <2>4, SerialBegin, SerialCalculate, SerialEnd
    <2>5. ASSUME NEW i \in Imports, Grow(i) PROVE SerialInv'
      BY <1>2, <2>0, <2>5, SerialGrow
    <2>. QED  BY <2>1, <2>2, <2>3, <2>4, <2>5 DEF Next
  <1>. QED  BY <1>1, <1>2

LEMMA SteadyNext ==
    ASSUME TypeOK, FileInv, SerialInv, SteadyInv, UNCHANGED setting, Next
    PROVE  SteadyInv'
  <1>1. CASE ~Steadily
    BY <1>1 DEF SteadyInv, Steadily, May
  <1>2. CASE Steadily
    <2>0. OneAtATime
      BY <1>2 DEF Next, Steadily
    <2>1. ASSUME NEW a \in Agents, NEW i \in Imports, Upload(a, i) \/ Retry(a, i)
          PROVE  SteadyInv'
      BY <1>2, <2>0, <2>1, SteadyUpload, SteadyBegin
    <2>2. ASSUME NEW a \in Agents, NEW i \in Imports, Delete(a, i) PROVE SteadyInv'
      BY <1>2, <2>2, DeleteFacts DEF Steadily
    <2>3. ASSUME NEW a \in Agents, Process(a) PROVE SteadyInv'
      BY <1>2, <2>0, <2>3, SteadyClear, SteadyAnalyze, SteadyDedupe, SteadyInsert,
         SteadyFinish DEF Process
    <2>4. ASSUME NEW a \in Agents, Recalculate(a) \/ Calculate(a) \/ Abort(a)
          PROVE  SteadyInv'
      BY <1>2, <2>0, <2>4, SteadyBegin, SteadyCalculate, AbortFacts DEF Steadily
    <2>5. ASSUME NEW i \in Imports, Grow(i) PROVE SteadyInv'
      BY <1>2, <2>5, SteadyGrow
    <2>. QED  BY <2>1, <2>2, <2>3, <2>4, <2>5 DEF Next
  <1>. QED  BY <1>1, <1>2

LEMMA InvNext == Inv /\ [Next]_vars => Inv'
<1> SUFFICES ASSUME Inv, [Next]_vars PROVE Inv'
  OBVIOUS
<1>1. CASE Next
  <2>1. UNCHANGED setting
    BY <1>1 DEF Next
  <2>. QED  BY <1>1, <2>1, FileNext, HistoryNext, SerialNext, SteadyNext DEF Inv
<1>2. CASE UNCHANGED vars
  <2>1. /\ imp' = imp /\ rows' = rows /\ balance' = balance /\ task' = task
        /\ retries' = retries /\ aborts' = aborts /\ setting' = setting
    BY <1>2 DEF vars
  <2>2. TypeOK'
    BY <2>1 DEF Inv, TypeOK
  <2>3. FileInv'
    BY <2>1 DEF Inv, FileInv, Filed, Owned
  <2>4. HistoryInv'
    BY <2>1 DEF Inv, HistoryInv, OneAgentEach, HistoryIsTrue, Kept, Owned, Processing, May
  <2>5. /\ \A m : Energy(m)' = Energy(m)
        /\ \A r : Stored(r)' <=> Stored(r)
        /\ \A i : Owned(i)' = Owned(i)
    BY <2>1, EnergyKept
  <2>6. SerialInv'
    BY <2>1, <2>5 DEF Inv, SerialInv, AtMostOne, OneOwner, DeletedHasNoReadings,
                      OneBalancePerPeriod, NoFalseLoss, Read
  <2>7. SteadyInv'
    <3>1. (Current' <=> Current) /\ \A r : Known(r)' <=> Known(r)
      BY <2>1, <2>5, CurrentStays DEF Known
    <3>. QED  BY <2>1, <2>5, <3>1 DEF Inv, SteadyInv, Completing, May
  <2>. QED  BY <2>2, <2>3, <2>4, <2>6, <2>7 DEF Inv
<1>. QED  BY <1>1, <1>2

LEMMA InvAlways == Spec => []Inv
  BY InvInit, InvNext, PTL DEF Spec

-----------------------------------------------------------------------------
(* The variables keep their types: in particular an agent that finishes or *)
(* prepares an import has one (finish of process, CalculateBalance).       *)
THEOREM ImportsTypeCorrect == Spec => []TypeOK
  <1>1. Inv => TypeOK
    BY DEF Inv
  <1>. QED  BY <1>1, InvAlways, PTL

(* While imports, retries, removals and recalculations come one after the  *)
(* other, whatever fails or is cut off, no reading is stored twice, an     *)
(* import undone keeps none, and a period gets one balance, which has      *)
(* consumption (dedupe, Retry, Delete, UpsertForPeriod).                   *)
THEOREM SerialImportsAreRight == Spec => []SerialImports
  <1>1. Inv => SerialImports
    BY OneOwnerStoresOnce DEF Inv, SerialInv, SerialImports
  <1>. QED  BY <1>1, InvAlways, PTL

(* Unless two retries overlap or one is cut off, the history of an import  *)
(* tells what it stored (finish of process, and Retry).                    *)
THEOREM HistoriesAreTrue == Spec => []HistoryHolds
  <1>1. Inv => HistoryHolds
    BY DEF Inv, HistoryInv, HistoryHolds
  <1>. QED  BY <1>1, InvAlways, PTL

(* While nothing fails or is undone, what a completed import counts is     *)
(* stored, though it may have skipped readings of an import that is being  *)
(* retried, and whenever nothing runs the balance is that of the readings  *)
(* stored (process, Retry, CalculateBalance).                              *)
THEOREM SteadyImportsAreRight == Spec => []SteadyImports
  <1>1. ASSUME Inv, Steadily PROVE CompletedIsStored /\ BalanceIsCurrent
    <2>1. TypeOK /\ SteadyInv
      BY <1>1 DEF Inv
    <2>2. CompletedIsStored
      <3>1. ASSUME \A i \in Imports : ~Processing(i), NEW i \in Imports,
                   imp[i].status = "COMPLETED",
                   NEW r \in imp[i].ok \cup imp[i].dups
            PROVE  Stored(r)
        <4>1. Known(r)
          BY <1>1, <2>1, <3>1, SteadyParts DEF Counted
        <4>2. ASSUME NEW a \in Agents PROVE task[a].at \notin Before
          <5>1. task[a].imp \notin Imports
            BY <3>1 DEF Processing
          <5>. QED  BY <2>1, <5>1, TaskFacts DEF Before, InImport
        <4>. QED  BY <4>1, <4>2 DEF Known
      <3>. QED  BY <3>1 DEF CompletedIsStored
    <2>3. BalanceIsCurrent
      BY <1>1, <2>1, SteadyParts DEF BalanceIsCurrent, Current, Now
    <2>. QED  BY <2>2, <2>3
  <1>2. Inv => SteadyImports
    BY <1>1 DEF SteadyImports, Steadily
  <1>. QED  BY <1>2, InvAlways, PTL

-----------------------------------------------------------------------------
(* The risk of a transformer.                                              *)

LEMMA MaxOfTwo ==
    ASSUME NEW a \in Int, NEW b \in Int
    PROVE  R!Max({a, b}) = IF a >= b THEN a ELSE b
<1>1. PICK x \in {a, b} : \A y \in {a, b} : x >= y
  <2>1. CASE a >= b
    BY <2>1
  <2>2. CASE b >= a
    BY <2>2
  <2>. QED  BY <2>1, <2>2
<1>2. R!Max({a, b}) \in {a, b} /\ \A y \in {a, b} : R!Max({a, b}) >= y
  BY <1>1 DEF R!Max
<1> DEFINE m == R!Max({a, b})
<1> HIDE DEF m
<1>3. m \in {a, b} /\ m >= a /\ m >= b
  BY <1>2 DEF m
<1>. QED  BY <1>3 DEF m

LEMMA MinOfTwo ==
    ASSUME NEW a \in Int, NEW b \in Int
    PROVE  R!Min({a, b}) = IF a <= b THEN a ELSE b
<1>1. PICK x \in {a, b} : \A y \in {a, b} : x <= y
  <2>1. CASE a <= b
    BY <2>1
  <2>2. CASE b <= a
    BY <2>2
  <2>. QED  BY <2>1, <2>2
<1>2. R!Min({a, b}) \in {a, b} /\ \A y \in {a, b} : R!Min({a, b}) <= y
  BY <1>1 DEF R!Min
<1> DEFINE m == R!Min({a, b})
<1> HIDE DEF m
<1>3. m \in {a, b} /\ m <= a /\ m <= b
  BY <1>2 DEF m
<1>. QED  BY <1>3 DEF m

(* A month's loss is a number, below zero when more is consumed.           *)
LEMMA LossType ==
    ASSUME NEW m \in Months
    PROVE  /\ m.inj \in Nat /\ m.con \in Nat /\ R!LossPct(m) \in Int
           /\ m.inj > 0 /\ m.con > m.inj => R!LossPct(m) < 0
<1>1. m.inj \in Nat /\ m.con \in Nat
  BY RiskAssumption
<1>2. ASSUME NEW x \in Int, NEW d \in Nat, d > 0
      PROVE  x \div d \in Int /\ (x < 0 => x \div d < 0)
  <2>1. x \div d \in Int
    BY <1>2, SMT
  <2>2. x < 0 => x \div d < 0
    BY <1>2, SMT
  <2>. QED  BY <2>1, <2>2
<1>3. 100 * (m.inj - m.con) \in Int
      /\ (m.con > m.inj => 100 * (m.inj - m.con) < 0)
  BY <1>1, SMT
<1>. QED  BY <1>1, <1>2, <1>3 DEF R!LossPct

(* The balances as they are fetched, the latest first.                     *)
LEMMA FetchedFacts ==
    ASSUME R!RiskTypeOK
    PROVE  /\ Len(R!Fetched) = Len(history) /\ Len(history) \in 0 .. Window
           /\ Window \in 1 .. 7
           /\ \A k \in 1 .. Len(history) : R!Fetched[k] \in Months
           /\ history # << >> => /\ Len(history) >= 1 /\ R!Latest \in Months
                                 /\ R!Fetched[1] = R!Latest
<1>1. history \in Seq(Months) /\ Len(history) <= Window /\ Window \in 1 .. 7
  BY RiskAssumption DEF R!RiskTypeOK, R!LongestTrend
<1>2. Len(history) \in Nat /\ \A k \in 1 .. Len(history) : history[k] \in Months
  BY <1>1
<1>3. R!Fetched = [k \in 1 .. Len(history) |-> history[(Len(history) - k) + 1]]
  BY DEF R!Fetched, R!Reverse
<1>4. Len(R!Fetched) = Len(history)
  BY <1>2, <1>3
<1>5. \A k \in 1 .. Len(history) : R!Fetched[k] \in Months
  <2> SUFFICES ASSUME NEW k \in 1 .. Len(history) PROVE R!Fetched[k] \in Months
    OBVIOUS
  <2>1. (Len(history) - k) + 1 \in 1 .. Len(history)
    BY <1>2
  <2>. QED  BY <1>2, <1>3, <2>1
<1>6. ASSUME history # << >>
      PROVE  /\ Len(history) >= 1 /\ R!Latest \in Months /\ R!Fetched[1] = R!Latest
  <2>1. Len(history) \in 1 .. Len(history)
    BY <1>1, <1>2, <1>6
  <2>2. R!Latest = history[Len(history)]
    BY DEF R!Latest, R!Last
  <2>3. (Len(history) - 1) + 1 = Len(history) /\ 1 \in 1 .. Len(history)
    BY <1>2, <2>1
  <2>. QED  BY <1>2, <1>3, <2>1, <2>2, <2>3
<1>. QED  BY <1>1, <1>2, <1>4, <1>5, <1>6

(* The slope is a fraction.                                                *)
LEMMA SlopeType ==
    ASSUME NEW b, Len(b) \in 3 .. 7, \A k \in 1 .. Len(b) : b[k] \in Months
    PROVE  R!Run(b) \in Nat \ {0} /\ R!Rise(b) \in Int
<1> DEFINE n == Len(b)
<1>1. n \in {3, 4, 5, 6, 7} /\ n \in Nat
  OBVIOUS
<1>2. R!Run(b) \in Nat \ {0}
  <2> HIDE DEF n
  <2>1. R!Run(b) = n * R!SumOver(LAMBDA i : (i - 1) * (i - 1), n)
                   - R!SumOver(LAMBDA i : i - 1, n) * R!SumOver(LAMBDA i : i - 1, n)
    BY DEF R!Run, n
  <2>2. CASE n = 3
    BY <2>1, <2>2 DEF R!SumOver
  <2>3. CASE n = 4
    BY <2>1, <2>3 DEF R!SumOver
  <2>4. CASE n = 5
    BY <2>1, <2>4 DEF R!SumOver
  <2>5. CASE n = 6
    BY <2>1, <2>5 DEF R!SumOver
  <2>6. CASE n = 7
    BY <2>1, <2>6 DEF R!SumOver
  <2>. QED  BY <1>1, <2>2, <2>3, <2>4, <2>5, <2>6
<1>3. R!Rise(b) \in Int
  <2>1. \A k \in 1 .. 7 : k <= n => R!LossPct(b[k]) \in Int
    BY <1>1, LossType
  <2>6. \A k \in 1 .. 7 : k <= n => (k - 1) * R!LossPct(b[k]) \in Int
    BY <2>1, SMT
  <2> HIDE DEF n
  <2>2. R!SumOver(LAMBDA i : (i - 1) * R!LossPct(b[i]), n) \in Int
    <3> DEFINE at(k) == IF k <= n THEN (k - 1) * R!LossPct(b[k]) ELSE 0
    <3>1. \A k \in 1 .. 7 : at(k) \in Int
      BY <2>6
    <3>3. /\ at(1) \in Int /\ at(2) \in Int /\ at(3) \in Int /\ at(4) \in Int
          /\ at(5) \in Int /\ at(6) \in Int /\ at(7) \in Int
      BY <3>1
    <3> HIDE DEF at
    <3>4. at(1) + at(2) + at(3) + at(4) + at(5) + at(6) + at(7) \in Int
      BY <3>3
    <3>. QED  BY <3>4 DEF at, R!SumOver
  <2>3. R!SumOver(LAMBDA i : i - 1, n) \in Int
    BY <1>1 DEF R!SumOver
  <2>4. R!SumOver(LAMBDA i : R!LossPct(b[i]), n) \in Int
    <3> DEFINE loss(k) == IF k <= n THEN R!LossPct(b[k]) ELSE 0
    <3>1. \A k \in 1 .. 7 : loss(k) \in Int
      BY <2>1
    <3>2. /\ loss(1) \in Int /\ loss(2) \in Int /\ loss(3) \in Int /\ loss(4) \in Int
          /\ loss(5) \in Int /\ loss(6) \in Int /\ loss(7) \in Int
      BY <3>1
    <3> HIDE DEF loss
    <3>3. loss(1) + loss(2) + loss(3) + loss(4) + loss(5) + loss(6) + loss(7) \in Int
      BY <3>2
    <3>. QED  BY <3>3 DEF loss, R!SumOver
  <2>5. \A x, y, z \in Int : n * x - y * z \in Int
    BY <1>1, SMT
  <2>. QED  BY <2>2, <2>3, <2>4, <2>5 DEF R!Rise, n
<1>. QED  BY <1>2, <1>3

(* Multiplying keeps the order.                                            *)
LEMMA TimesKeeps ==
    ASSUME NEW k \in Nat, NEW a \in Int, NEW b \in Int, a <= b
    PROVE  k * a <= k * b
<1>1. b - a \in Nat /\ k * (b - a) \in Nat
  BY SMT
<1>. QED  BY <1>1, SMT

(* Points and Whole, of five factors.                                      *)
Score(l, ld, t, td, u, ud, c, cd) ==
    40 * l * td * ud * cd + 25 * ld * t * ud * cd + 15 * ld * td * u * cd
        + 10 * ld * td * ud * c + 10 * ld * td * ud * cd
Scale(ld, td, ud, cd) == ld * td * ud * cd

(* Four factors between 0 and 1 and one below: the first decides.          *)
LEMMA ScoreFollowsFirst ==
    ASSUME NEW l \in Int, NEW ld \in Nat \ {0}, NEW td \in Nat \ {0},
           NEW ud \in Nat \ {0}, NEW cd \in Nat \ {0},
           NEW t \in 0 .. td, NEW u \in 0 .. ud, NEW c \in 0 .. cd
    PROVE  LET points == Score(l, ld, t, td, u, ud, c, cd)
               whole == Scale(ld, td, ud, cd)
           IN  /\ points \in Int /\ whole \in Int
               /\ points >= 80 * whole => 2 * l >= ld
               /\ points < 40 * whole => 4 * l < 3 * ld
<1> DEFINE points == Score(l, ld, t, td, u, ud, c, cd)
           whole == Scale(ld, td, ud, cd)
           a == td * ud * cd
           x == ld * ud * cd
           y == ld * td * cd
           z == ld * td * ud
<1>1. a \in Nat \ {0} /\ x \in Nat /\ y \in Nat /\ z \in Nat
  <2>1. td * ud \in Nat \ {0} /\ ld * ud \in Nat /\ ld * td \in Nat
    BY SMT
  <2>. QED  BY <2>1, SMT
<1>2. x * t <= x * td /\ y * u <= y * ud /\ z * c <= z * cd
      /\ 0 <= x * t /\ 0 <= y * u /\ 0 <= z * c
  <2>1. x * t <= x * td /\ x * 0 <= x * t
    BY <1>1, TimesKeeps
  <2>2. y * u <= y * ud /\ y * 0 <= y * u
    BY <1>1, TimesKeeps
  <2>3. z * c <= z * cd /\ z * 0 <= z * c
    BY <1>1, TimesKeeps
  <2>. QED  BY <1>1, <2>1, <2>2, <2>3
<1>3. x * td = ld * a /\ y * ud = ld * a /\ z * cd = ld * a
      /\ whole = ld * a
  BY SMT DEF Scale
<1>4. points = 40 * (l * a) + 25 * (x * t) + 15 * (y * u) + 10 * (z * c)
                   + 10 * (ld * a)
  BY SMT DEF Score
<1>5. x * t \in Int /\ y * u \in Int /\ z * c \in Int /\ l * a \in Int /\ ld * a \in Int
  BY <1>1, SMT
<1> DEFINE xt == x * t
           yu == y * u
           zc == z * c
           la == l * a
           da == ld * a
<1>6. /\ xt \in Int /\ yu \in Int /\ zc \in Int /\ la \in Int /\ da \in Int
      /\ xt \in 0 .. da /\ yu \in 0 .. da /\ zc \in 0 .. da
      /\ points = 40 * la + 25 * xt + 15 * yu + 10 * zc + 10 * da
  BY <1>2, <1>3, <1>4, <1>5
<1>7. ~(2 * l >= ld) => 2 * la < da
  <2>1. ASSUME 2 * l < ld PROVE 2 * la < da
    <3>1. a * (2 * l) <= a * (ld - 1)
      BY <1>1, <2>1, TimesKeeps
    <3>. QED  BY <1>1, <3>1, SMT
  <2>. QED  BY <2>1
<1>8. ~(4 * l < 3 * ld) => 4 * la >= 3 * da
  <2>1. ASSUME 3 * ld <= 4 * l PROVE 3 * da <= 4 * la
    <3>1. a * (3 * ld) <= a * (4 * l)
      BY <1>1, <2>1, TimesKeeps
    <3>. QED  BY <1>1, <3>1, SMT
  <2>. QED  BY <2>1, <1>6
<1>9. whole = da
  BY <1>3
<1> HIDE DEF xt, yu, zc, la, da, points, whole
<1>10. points >= 80 * da => 2 * la >= da
  BY <1>6, SMT
<1>11. points < 40 * da => 4 * la < 3 * da
  BY <1>6, SMT
<1>12. points \in Int /\ whole \in Int
  BY <1>6, <1>9
<1>. QED  BY <1>6, <1>7, <1>8, <1>9, <1>10, <1>11, <1>12 DEF points, whole

LEMMA TrafoType ==
    ASSUME R!RiskTypeOK
    PROVE  trafo.limit \in Nat \ {0} /\ trafo.ucs \in Nat /\ trafo.tech \in Nat
  BY RiskAssumption DEF R!RiskTypeOK

(* The factors are between 0 and 1, but for the loss, which may be below.  *)
LEMMA FactorsFit ==
    ASSUME R!RiskTypeOK, history # << >>
    PROVE  /\ R!LossFactor.d = 2 * trafo.limit
           /\ R!LossFactor.n = IF R!LossPct(R!Latest) <= 2 * trafo.limit
                               THEN R!LossPct(R!Latest) ELSE 2 * trafo.limit
           /\ R!TrendFactor.d \in Nat \ {0} /\ R!TrendFactor.n \in 0 .. R!TrendFactor.d
           /\ R!UcFactor.d \in Nat \ {0} /\ R!UcFactor.n \in 0 .. R!UcFactor.d
           /\ R!TechFactor.d \in Nat \ {0} /\ R!TechFactor.n \in 0 .. R!TechFactor.d
<1>1. /\ trafo.limit \in Nat \ {0} /\ trafo.ucs \in Nat /\ trafo.tech \in Nat
      /\ R!Latest \in Months
  BY TrafoType, FetchedFacts
<1>2. R!LossPct(R!Latest) \in Int /\ R!Latest.inj \in Nat /\ R!Latest.con \in Nat
  BY <1>1, LossType
<1>3. /\ R!LossFactor.d = 2 * trafo.limit
      /\ R!LossFactor.n = IF R!LossPct(R!Latest) <= 2 * trafo.limit
                          THEN R!LossPct(R!Latest) ELSE 2 * trafo.limit
  <2>1. 2 * trafo.limit \in Int
    BY <1>1
  <2>. QED  BY <1>2, <2>1, MinOfTwo DEF R!LossFactor
<1>4. R!Half.d \in Nat \ {0} /\ R!Half.n \in 0 .. R!Half.d
  BY DEF R!Half
<1>5. R!TrendFactor.d \in Nat \ {0} /\ R!TrendFactor.n \in 0 .. R!TrendFactor.d
  <2>1. CASE R!Trend = "STABLE"
    BY <1>4, <2>1 DEF R!TrendFactor
  <2>2. CASE R!Trend # "STABLE"
    <3> DEFINE d == 10 * R!Run(R!Fetched)
               n == 5 * R!Run(R!Fetched) + 2 * R!Rise(R!Fetched)
               least == R!Min({n, d})
    <3>1. R!TrendFactor = [n |-> R!Max({0, least}), d |-> d]
      BY <2>2 DEF R!TrendFactor
    <3>2. R!Run(R!Fetched) \in Nat \ {0} /\ R!Rise(R!Fetched) \in Int
      <4>1. ~(Len(R!Fetched) < 3)
        BY <2>2 DEF R!Trend
      <4>2. /\ Len(R!Fetched) = Len(history) /\ Len(history) \in 0 .. Window
            /\ Window \in 1 .. 7
        BY FetchedFacts
      <4> DEFINE fetched == Len(R!Fetched)
                 stored  == Len(history)
      <4>3. fetched = stored /\ stored \in 0 .. Window /\ Window \in 1 .. 7
            /\ ~(fetched < 3)
        BY <4>1, <4>2
      <4> HIDE DEF fetched, stored
      <4>4. fetched \in 3 .. 7
        BY <4>3
      <4>5. Len(R!Fetched) \in 3 .. 7
        BY <4>4 DEF fetched
      <4>6. \A k \in 1 .. Len(R!Fetched) : R!Fetched[k] \in Months
        BY FetchedFacts
      <4>. QED  BY <4>5, <4>6, SlopeType
    <3>3. d \in Nat \ {0} /\ n \in Int
      BY <3>2
    <3> HIDE DEF d, n
    <3>4. least = IF n <= d THEN n ELSE d
      BY <3>3, MinOfTwo
    <3>5. least \in Int /\ least <= d
      BY <3>3, <3>4
    <3> HIDE DEF least
    <3>6. R!Max({0, least}) = IF 0 >= least THEN 0 ELSE least
      BY <3>5, MaxOfTwo
    <3>. QED  BY <3>1, <3>3, <3>5, <3>6
  <2>. QED  BY <2>1, <2>2
<1>6. R!UcFactor.d \in Nat \ {0} /\ R!UcFactor.n \in 0 .. R!UcFactor.d
  <2>1. R!Min({trafo.ucs, 100}) = IF trafo.ucs <= 100 THEN trafo.ucs ELSE 100
    BY <1>1, MinOfTwo
  <2>. QED  BY <1>1, <2>1 DEF R!UcFactor
<1>7. R!TechFactor.d \in Nat \ {0} /\ R!TechFactor.n \in 0 .. R!TechFactor.d
  <2> DEFINE loss == R!Latest.inj - R!Latest.con - trafo.tech
             part == R!NonTechnical(R!Latest)
  <2>1. part \in Nat
    <3>1. loss \in Int
      BY <1>1, <1>2
    <3> HIDE DEF loss
    <3>2. R!Max({0, loss}) \in Nat
      BY <3>1, MaxOfTwo
    <3>. QED  BY <3>2 DEF R!NonTechnical, loss
  <2> HIDE DEF part
  <2>2. CASE trafo.plate /\ R!Latest.inj > 0 /\ trafo.tech + part > 0
    <3>1. R!TechFactor = [n |-> part, d |-> trafo.tech + part]
      BY <2>2 DEF R!TechFactor, part
    <3>2. trafo.tech + part \in Nat \ {0} /\ part \in 0 .. trafo.tech + part
      BY <1>1, <2>1, <2>2
    <3>. QED  BY <3>1, <3>2
  <2>3. CASE ~(trafo.plate /\ R!Latest.inj > 0 /\ trafo.tech + part > 0)
    BY <1>4, <2>3 DEF R!TechFactor, part
  <2>. QED  BY <2>2, <2>3
<1>. QED  BY <1>3, <1>5, <1>6, <1>7

LEMMA LevelFollowsLoss ==
    ASSUME R!RiskTypeOK, history # << >>
    PROVE  /\ R!Level = "CRITICAL" => R!LossPct(R!Latest) >= trafo.limit
           /\ R!Level = "LOW" => 2 * R!LossPct(R!Latest) < 3 * trafo.limit
<1> DEFINE l == R!LossFactor.n    ld == R!LossFactor.d
           t == R!TrendFactor.n   td == R!TrendFactor.d
           u == R!UcFactor.n      ud == R!UcFactor.d
           c == R!TechFactor.n    cd == R!TechFactor.d
           loss == R!LossPct(R!Latest)
<1>1. /\ trafo.limit \in Nat \ {0} /\ loss \in Int
      /\ ld = 2 * trafo.limit
      /\ l = IF loss <= 2 * trafo.limit THEN loss ELSE 2 * trafo.limit
      /\ td \in Nat \ {0} /\ t \in 0 .. td
      /\ ud \in Nat \ {0} /\ u \in 0 .. ud
      /\ cd \in Nat \ {0} /\ c \in 0 .. cd
  BY TrafoType, FetchedFacts, LossType, FactorsFit
<1>2. R!Points = Score(l, ld, t, td, u, ud, c, cd)
  BY DEF R!Points, Score
<1>3. R!Whole = Scale(ld, td, ud, cd)
  BY DEF R!Whole, Scale
<1>4. /\ R!Level = "CRITICAL" => R!Points >= 80 * R!Whole
      /\ R!Level = "LOW" => ~(R!Points >= 40 * R!Whole)
  BY DEF R!Level
<1> HIDE DEF l, ld, t, td, u, ud, c, cd, loss
<1>5. l \in Int /\ ld \in Nat \ {0}
  BY <1>1
<1>6. /\ R!Points \in Int /\ R!Whole \in Int
      /\ R!Points >= 80 * R!Whole => 2 * l >= ld
      /\ R!Points < 40 * R!Whole => 4 * l < 3 * ld
  BY <1>1, <1>2, <1>3, <1>5, ScoreFollowsFirst
<1>8. ~(R!Points >= 40 * R!Whole) => R!Points < 40 * R!Whole
  BY <1>6
<1>9. 2 * l >= ld => loss >= trafo.limit
  BY <1>1
<1>10. 4 * l < 3 * ld => 2 * loss < 3 * trafo.limit
  BY <1>1
<1>. QED  BY <1>4, <1>6, <1>8, <1>9, <1>10 DEF loss

LEMMA MonthIsExplained ==
    ASSUME R!RiskTypeOK, history # << >>
    PROVE  R!RiskFollowsLoss /\ R!AnomaliesFollowLoss
<1> DEFINE loss == R!LossPct(R!Latest)
<1>1. /\ trafo.limit \in Nat \ {0} /\ R!Latest \in Months /\ loss \in Int
      /\ Len(history) \in Nat /\ Len(history) >= 1
      /\ R!Fetched[1] = R!Latest /\ Len(R!Fetched) = Len(history)
  BY TrafoType, FetchedFacts, LossType
<1>2. loss >= trafo.limit => R!Status(R!Latest) = "CRITICAL"
  BY DEF R!Status
<1>3. R!RiskFollowsLoss
  BY <1>2, LevelFollowsLoss DEF R!RiskFollowsLoss
<1>4. ASSUME "PERSISTENT_OVER_LIMIT" \in R!Anomalies
      PROVE  loss >= trafo.limit
  <2>1. R!PersistentlyOver(R!Fetched)
    BY <1>4 DEF R!Anomalies
  <2>2. 1 \in DOMAIN R!Fetched
    BY <1>1 DEF R!Fetched, R!Reverse
  <2>. QED  BY <1>1, <2>1, <2>2 DEF R!PersistentlyOver
<1>5. ASSUME "BALANCE_INCONSISTENCY" \in R!Anomalies
      PROVE  /\ R!Anomalies \cap {"LOSS_SPIKE", "PERSISTENT_OVER_LIMIT"} = {}
             /\ R!Level # "CRITICAL" /\ R!Status(R!Latest) = "NORMAL"
  <2>1. R!Inconsistent(R!Latest) /\ ~(Len(R!Fetched) < 2)
    BY <1>1, <1>5 DEF R!Anomalies
  <2>2. loss < 0
    BY <1>1, <2>1, LossType DEF R!Inconsistent
  <2>3. ~(loss >= trafo.limit) /\ ~(10 * loss >= 8 * trafo.limit)
    BY <1>1, <2>2
  <2>4. "PERSISTENT_OVER_LIMIT" \notin R!Anomalies
    BY <1>4, <2>3
  <2>5. "LOSS_SPIKE" \notin R!Anomalies
    <3> SUFFICES ASSUME "LOSS_SPIKE" \in R!Anomalies PROVE FALSE
      OBVIOUS
    <3> DEFINE before == R!LossPct(R!Fetched[2])
    <3>1. R!Spike(R!Latest, R!Fetched[2])
      BY <1>1 DEF R!Anomalies
    <3>2. before > 0 /\ 2 * (loss - before) > before
      BY <3>1 DEF R!Spike
    <3>3. before \in Int
      <4>1. 2 \in 1 .. Len(history)
        BY <1>1, <2>1
      <4>. QED  BY <4>1, FetchedFacts, LossType
    <3> HIDE DEF before, loss
    <3>. QED  BY <1>1, <2>2, <3>2, <3>3
  <2>6. R!Level # "CRITICAL"
    BY <2>3, LevelFollowsLoss
  <2>7. R!Status(R!Latest) = "NORMAL"
    BY <2>3 DEF R!Status
  <2>. QED  BY <2>4, <2>5, <2>6, <2>7
<1>. QED  BY <1>2, <1>3, <1>4, <1>5 DEF R!AnomaliesFollowLoss

LEMMA RiskKeepsType == ASSUME R!RiskTypeOK, R!RiskNext PROVE R!RiskTypeOK'
<1>1. /\ history \in Seq(Months) /\ Len(history) \in Nat /\ Len(history) <= Window
      /\ Window \in 1 .. 7 /\ trafo' = trafo
  BY RiskAssumption
  DEF R!RiskTypeOK, R!LongestTrend, R!RiskNext, R!CloseMonth, R!Recalculated
<1>2. ASSUME NEW m \in Months, R!CloseMonth(m)
      PROVE  history' \in Seq(Months) /\ Len(history') <= Window
  <2> DEFINE h == Append(history, m)
  <2>1. h \in Seq(Months) /\ Len(h) = Len(history) + 1 /\ h # << >>
    BY <1>1
  <2> HIDE DEF h
  <2>2. history' = IF Len(h) > Window THEN Tail(h) ELSE h
    BY <1>2 DEF R!CloseMonth, h
  <2>3. CASE Len(h) > Window
    <3>1. Tail(h) \in Seq(Months) /\ Len(Tail(h)) = Len(h) - 1
      BY <2>1
    <3>. QED  BY <1>1, <2>1, <2>2, <2>3, <3>1
  <2>4. CASE ~(Len(h) > Window)
    BY <1>1, <2>1, <2>2, <2>4
  <2>. QED  BY <2>3, <2>4
<1>3. ASSUME NEW k \in DOMAIN history, NEW m \in Months, R!Recalculated(k, m)
      PROVE  history' \in Seq(Months) /\ Len(history') <= Window
  BY <1>1, <1>3 DEF R!Recalculated
<1>. QED  BY <1>1, <1>2, <1>3 DEF R!RiskNext, R!RiskTypeOK

(* calc.CalculateRiskScore and DetectAnomalies: CRITICAL says that the     *)
(* month is over its limit, LOW that its loss is under one and a half times*)
(* the limit, an anomaly of the limit that the month is over it, and one of*)
(* the balance that nothing says the loss is too high: for any balances,   *)
(* transformers and windows of up to seven months.                         *)
THEOREM MonthsAreAlwaysExplained == MCSpec => []MonthsAreExplained
<1>1. MCInit => R!RiskTypeOK
  <2> SUFFICES ASSUME R!RiskInit PROVE R!RiskTypeOK
    BY DEF MCInit
  <2>1. trafo \in Trafos /\ history = << >>
    BY DEF R!RiskInit
  <2>2. << >> \in Seq(Months) /\ Len(<< >>) = 0 /\ 0 <= Window
    BY RiskAssumption
  <2>. QED  BY <2>1, <2>2 DEF R!RiskTypeOK
<1>2. R!RiskTypeOK /\ [MCNext]_mcvars => R!RiskTypeOK'
  <2> SUFFICES ASSUME R!RiskTypeOK, [MCNext]_mcvars PROVE R!RiskTypeOK'
    OBVIOUS
  <2>1. CASE UNCHANGED <<trafo, history>>
    BY <2>1 DEF R!RiskTypeOK
  <2>2. CASE R!RiskNext
    BY <2>2, RiskKeepsType
  <2>. QED  BY <2>1, <2>2 DEF MCNext, mcvars
<1>3. R!RiskTypeOK => MonthsAreExplained
  <2> SUFFICES ASSUME R!RiskTypeOK PROVE R!RiskFollowsLoss /\ R!AnomaliesFollowLoss
    BY DEF MonthsAreExplained
  <2>1. CASE history = << >>
    BY <2>1 DEF R!RiskFollowsLoss, R!AnomaliesFollowLoss
  <2>. QED  BY <2>1, MonthIsExplained
<1>. QED  BY <1>1, <1>2, <1>3, PTL DEF MCSpec

=============================================================================
