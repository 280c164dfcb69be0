------------------------------- MODULE Imports -------------------------------
(***************************************************************************)
(* Imports of meter readings (ImportUseCase) and the balance calculated    *)
(* from them (BalanceUseCase), for one transformer and one month.          *)
(*                                                                         *)
(* A reading stands for the key (meter, instant) of a row of               *)
(* transformer_readings or uc_readings; every reading counts 1 kWh.  No    *)
(* unique index protects either table, nor transformer_balance, so each    *)
(* statement of an agent may interleave with those of the others; what     *)
(* runs in InTx is one step.                                               *)
(***************************************************************************)
EXTENDS Integers, Sequences, FiniteSets

CONSTANTS
    Agents,          \* requests and the nightly job
    Imports, NoImport,
    TrafoReadings, UcReadings,
    MaxCopies,       \* copies of a reading one import can come to own
    MaxBalances,     \* rows of transformer_balance
    MaxRetries, MaxAborts

Readings == TrafoReadings \cup UcReadings

ASSUME ImportsAssumption ==
    /\ NoImport \notin Imports
    /\ TrafoReadings \cap UcReadings = {}
    /\ IsFiniteSet(Imports) /\ IsFiniteSet(Readings)
    /\ MaxCopies \in Nat \ {0} /\ MaxBalances \in Nat \ {0}
    /\ MaxRetries \in Nat /\ MaxAborts \in Nat

VARIABLES
    imp,      \* imp[i]: the row of imports
    rows,     \* rows[i][r]: rows of reading r whose import_id is i
    balance,  \* the rows of transformer_balance of the month
    task,     \* task[a]: the operation agent a is in
    retries, aborts,
    setting   \* what happens, chosen at the start

vars == <<imp, rows, balance, task, retries, aborts, setting>>

(* options: what the agents may ask for besides an upload.                 *)
(* serial: operations come one after the other.                            *)
(* steady: meters stay registered, no statement fails and none is cut off. *)
(* prompt: an import takes less than the 10 minutes of Retry.              *)
Setting == [options : SUBSET {"retry", "delete", "recalculate", "skip"},
            serial : BOOLEAN, steady : BOOLEAN, prompt : BOOLEAN]
May(option) == option \in setting.options

-----------------------------------------------------------------------------
(* A file holds readings of one type.                                      *)
Files == ((SUBSET TrafoReadings) \cup (SUBSET UcReadings)) \ {{}}

(* ok and dups stand for rows_ok and duplicates_skipped.                   *)
Import == [status : {"none", "PROCESSING", "COMPLETED", "ERROR"},
           deleted : BOOLEAN, old : BOOLEAN,
           file : SUBSET Readings, ok : SUBSET Readings,
           dups : SUBSET Readings]
NotUploaded == [status |-> "none", deleted |-> FALSE, old |-> FALSE,
                file |-> {}, ok |-> {}, dups |-> {}]

Task == [at : {"idle", "clear", "analyze", "dedupe", "insert", "injected",
               "count", "total", "update", "create", "finish"},
         imp : Imports \cup {NoImport},
         valid : SUBSET Readings, kept : SUBSET Readings,
         dups : SUBSET Readings, failed : BOOLEAN,
         inj : Nat, con : Nat]
Idle == [at |-> "idle", imp |-> NoImport, valid |-> {}, kept |-> {},
         dups |-> {}, failed |-> FALSE, inj |-> 0, con |-> 0]
Doing(i, step) == [Idle EXCEPT !.at = step, !.imp = i]

InImport == {"clear", "analyze", "dedupe", "insert", "finish"}

TypeOK ==
    /\ imp \in [Imports -> Import]
    /\ rows \in [Imports -> [Readings -> 0 .. MaxCopies]]
    /\ balance \in Seq([inj : Nat, con : Nat])
    /\ Len(balance) <= MaxBalances
    /\ task \in [Agents -> Task]
    /\ \A a \in Agents : task[a].at \in InImport => task[a].imp \in Imports
    /\ retries \in 0 .. MaxRetries /\ aborts \in 0 .. MaxAborts
    /\ setting \in Setting

Init ==
    /\ imp = [i \in Imports |-> NotUploaded]
    /\ rows = [i \in Imports |-> [r \in Readings |-> 0]]
    /\ balance = << >>
    /\ task = [a \in Agents |-> Idle]
    /\ retries = 0 /\ aborts = 0
    /\ setting \in Setting

Stored(r) == \E i \in Imports : rows[i][r] > 0
Owned(i) == {r \in Readings : rows[i][r] > 0}

(* The rows that the tables hold of some readings, and the energy in them. *)
RowsOf(readings) ==
    {x \in Imports \X readings \X (1 .. MaxCopies) : x[3] <= rows[x[1]][x[2]]}
Energy(readings) == Cardinality(RowsOf(readings))
NothingOf(i) == [rows EXCEPT ![i] = [r \in Readings |-> 0]]

-----------------------------------------------------------------------------
Upload(a, i) ==
    /\ task[a] = Idle /\ imp[i].status = "none"
    /\ \E f \in Files :
          imp' = [imp EXCEPT ![i] = [NotUploaded EXCEPT
                                        !.status = "PROCESSING", !.file = f]]
    /\ task' = [task EXCEPT ![a] = Doing(i, "analyze")]
    /\ UNCHANGED <<rows, balance, retries, aborts>>

(* Retry refuses an import that may still be running; the row it read is   *)
(* not changed, so a second Retry is not refused.                          *)
Retry(a, i) ==
    /\ task[a] = Idle /\ retries < MaxRetries /\ May("retry")
    /\ imp[i].status # "none" /\ ~imp[i].deleted
    /\ imp[i].status = "PROCESSING" => imp[i].old
    /\ retries' = retries + 1
    /\ task' = [task EXCEPT ![a] = Doing(i, "clear")]
    /\ UNCHANGED <<imp, rows, balance, aborts>>

(* Mutant of Clear: the previous attempt's readings are left.              *)
ClearNothing(a) ==
    /\ task[a].at = "clear"
    /\ task' = [task EXCEPT ![a].at = "analyze"]
    /\ UNCHANGED <<imp, rows, balance, retries, aborts>>

(* Retry's transaction.                                                    *)
Clear(a) ==
    /\ task[a].at = "clear"
    /\ rows' = NothingOf(task[a].imp)
    /\ task' = [task EXCEPT ![a].at = "analyze"]
    /\ UNCHANGED <<imp, balance, retries, aborts>>

(* analyze: rows of meters not registered become errors; a file that is    *)
(* rejected, or whose references cannot be loaded, goes straight to finish.*)
Analyze(a) ==
    /\ task[a].at = "analyze"
    /\ \/ \E valid \in SUBSET imp[task[a].imp].file :
             /\ setting.steady => valid = imp[task[a].imp].file
             /\ task' = [task EXCEPT ![a].at = "dedupe", ![a].valid = valid]
       \/ /\ ~setting.steady
          /\ task' = [task EXCEPT ![a].at = "finish", ![a].failed = TRUE]
    /\ UNCHANGED <<imp, rows, balance, retries, aborts>>

(* Mutant of Dedupe: every row is taken for a new one.                     *)
DedupeNothing(a) ==
    /\ task[a].at = "dedupe"
    /\ task' = [task EXCEPT ![a].at = "insert", ![a].kept = task[a].valid]
    /\ UNCHANGED <<imp, rows, balance, retries, aborts>>

(* dedupe: ExistingKeys looks at the readings of every import.             *)
Dedupe(a) ==
    /\ task[a].at = "dedupe"
    /\ LET dups == {r \in task[a].valid : Stored(r)} IN
       \/ task' = [task EXCEPT ![a].at = "insert", ![a].dups = dups,
                               ![a].kept = task[a].valid \ dups]
       \/ /\ ~setting.steady
          /\ task' = [task EXCEPT ![a].at = "finish", ![a].failed = TRUE]
    /\ UNCHANGED <<imp, rows, balance, retries, aborts>>

(* Mutant of Recalculates: a file with duplicates has been calculated.     *)
RecalculatesNew(t) == t.kept # {} /\ t.dups = {}

Recalculates(t) == t.kept # {}

InsertFailed(t) == [t EXCEPT !.at = "finish", !.failed = TRUE, !.kept = {}]

(* The transaction that copies the rows in, and what follows it; the       *)
(* request may ask for no recalculation, and too many months prevent it.   *)
Insert(a) ==
    /\ task[a].at = "insert"
    /\ LET t == task[a] IN
       \/ /\ \A r \in t.kept : rows[t.imp][r] < MaxCopies
          /\ rows' = [rows EXCEPT ![t.imp] =
                         [r \in Readings |-> IF r \in t.kept THEN @[r] + 1
                                             ELSE @[r]]]
          /\ \E step \in {"injected", "finish"} :
                /\ step = "injected" => Recalculates(t)
                /\ step = "finish" => ~Recalculates(t) \/ May("skip")
                /\ task' = [task EXCEPT ![a].at = step]
       \/ /\ ~setting.steady
          /\ task' = [task EXCEPT ![a] = InsertFailed(t)]
          /\ UNCHANGED rows
    /\ UNCHANGED <<imp, balance, retries, aborts>>

(* An error only when nothing of the file was used: duplicates count as    *)
(* readings already present.                                               *)
Outcome(t) ==
    IF \/ t.failed
       \/ t.kept \cup t.dups = {} /\ imp[t.imp].file \ t.valid # {}
    THEN "ERROR" ELSE "COMPLETED"

(* finish; Update does not look at deleted_at.                             *)
Finish(a) ==
    /\ task[a].at = "finish"
    /\ LET t == task[a] IN
       imp' = [imp EXCEPT ![t.imp].status = Outcome(t),
                          ![t.imp].ok = t.kept, ![t.imp].dups = t.dups]
    /\ task' = [task EXCEPT ![a] = Idle]
    /\ UNCHANGED <<rows, balance, retries, aborts>>

-----------------------------------------------------------------------------
(* CalculateBalance, one step per statement.                               *)

(* A recalculation asked for by hand or by the nightly job.                *)
Recalculate(a) ==
    /\ task[a] = Idle /\ May("recalculate")
    /\ task' = [task EXCEPT ![a] = Doing(NoImport, "injected")]
    /\ UNCHANGED <<imp, rows, balance, retries, aborts>>

(* Mutant of Calculated: a recalculation has an import to finish.          *)
CalculatedImport(t) == [t EXCEPT !.at = "finish"]

Calculated(t) ==
    IF t.imp = NoImport THEN Idle
    ELSE [t EXCEPT !.at = "finish", !.inj = 0, !.con = 0]

ReadInjected(a) ==
    /\ task[a].at = "injected"
    /\ LET inj == Energy(TrafoReadings) IN
       task' = [task EXCEPT ![a] =
                   IF inj = 0 THEN Calculated(@)
                   ELSE [@ EXCEPT !.at = "count", !.inj = inj]]
    /\ UNCHANGED <<imp, rows, balance, retries, aborts>>

(* Without a reading of a consuming unit there is no balance.              *)
CountConsumption(a) ==
    /\ task[a].at = "count"
    /\ task' = [task EXCEPT ![a] =
                   IF Energy(UcReadings) = 0 THEN Calculated(@)
                   ELSE [@ EXCEPT !.at = "total"]]
    /\ UNCHANGED <<imp, rows, balance, retries, aborts>>

TotalConsumption(a) ==
    /\ task[a].at = "total"
    /\ task' = [task EXCEPT ![a].at = "update", ![a].con = Energy(UcReadings)]
    /\ UNCHANGED <<imp, rows, balance, retries, aborts>>

Result(t) == [inj |-> t.inj, con |-> t.con]

(* UpsertForPeriod: UPDATE ... RETURNING id of the rows of the period.     *)
UpdateBalance(a) ==
    /\ task[a].at = "update"
    /\ balance' = [b \in DOMAIN balance |-> Result(task[a])]
    /\ task' = [task EXCEPT ![a] = IF balance # << >> THEN Calculated(@)
                                   ELSE [@ EXCEPT !.at = "create"]]
    /\ UNCHANGED <<imp, rows, retries, aborts>>

(* UpsertForPeriod: no row was updated, so one is inserted.                *)
CreateBalance(a) ==
    /\ task[a].at = "create" /\ Len(balance) < MaxBalances
    /\ balance' = Append(balance, Result(task[a]))
    /\ task' = [task EXCEPT ![a] = Calculated(@)]
    /\ UNCHANGED <<imp, rows, retries, aborts>>

-----------------------------------------------------------------------------
(* Delete: one transaction, also while the import is being processed.  No  *)
(* balance is calculated again.                                            *)
Delete(a, i) ==
    /\ task[a] = Idle /\ May("delete")
    /\ imp[i].status # "none" /\ ~imp[i].deleted
    /\ imp' = [imp EXCEPT ![i].deleted = TRUE]
    /\ rows' = NothingOf(i)
    /\ UNCHANGED <<balance, task, retries, aborts>>

(* Ten minutes pass since i was created.                                   *)
Grow(i) ==
    /\ imp[i].status # "none" /\ ~imp[i].old
    /\ setting.prompt => \A a \in Agents : task[a].imp # i
    /\ imp' = [imp EXCEPT ![i].old = TRUE]
    /\ UNCHANGED <<rows, balance, task, retries, aborts>>

(* The process stops, or the client goes away and its context is cancelled:*)
(* no later statement of the operation takes effect.                       *)
Abort(a) ==
    /\ task[a].at # "idle" /\ ~setting.steady /\ aborts < MaxAborts
    /\ aborts' = aborts + 1
    /\ task' = [task EXCEPT ![a] = Idle]
    /\ UNCHANGED <<imp, rows, balance, retries>>

Calculate(a) ==
    \/ ReadInjected(a) \/ CountConsumption(a) \/ TotalConsumption(a)
    \/ UpdateBalance(a) \/ CreateBalance(a)

Process(a) == Clear(a) \/ Analyze(a) \/ Dedupe(a) \/ Insert(a) \/ Finish(a)

(* In a serial setting no operation begins, or removes, during another.    *)
OneAtATime ==
    /\ \A a, b \in Agents : task'[a] # Idle /\ task'[b] # Idle => a = b
    /\ \A i \in Imports : imp'[i].deleted # imp[i].deleted
          => \A a \in Agents : task[a] = Idle

Next ==
    /\ \/ \E a \in Agents :
             \/ \E i \in Imports : Upload(a, i) \/ Retry(a, i) \/ Delete(a, i)
             \/ Process(a) \/ Recalculate(a) \/ Calculate(a) \/ Abort(a)
       \/ \E i \in Imports : Grow(i)
    /\ setting.serial => OneAtATime
    /\ UNCHANGED setting

Spec == Init /\ [][Next]_vars

-----------------------------------------------------------------------------
(* No reading is stored twice, however often a file is sent or retried.    *)
NoDuplicateReadings == \A r \in Readings : Cardinality(RowsOf({r})) <= 1

(* An import that was undone leaves no reading behind.                     *)
DeletedHasNoReadings == \A i \in Imports : imp[i].deleted => Owned(i) = {}

Processing(i) == \E a \in Agents : task[a].imp = i

(* The history of an import says exactly which readings it stored, and an  *)
(* import in error stored none.                                            *)
HistoryIsTrue ==
    \A i \in Imports :
        imp[i].status \in {"COMPLETED", "ERROR"} /\ ~imp[i].deleted
        /\ ~Processing(i)
            => /\ Owned(i) = imp[i].ok
               /\ imp[i].status = "ERROR" => imp[i].ok = {}

(* What a completed import counts, duplicates skipped included, is stored  *)
(* once nothing is being processed.                                        *)
CompletedIsStored ==
    (\A i \in Imports : ~Processing(i))
        => \A i \in Imports :
              imp[i].status = "COMPLETED" /\ ~imp[i].deleted
                  => \A r \in imp[i].ok \cup imp[i].dups : Stored(r)

(* A period of a transformer has one balance, whoever recalculates it.     *)
OneBalancePerPeriod == Len(balance) <= 1

(* No balance counts the month of a transformer without consumption, which *)
(* would be a loss of 100 percent.                                         *)
NoFalseLoss == \A b \in DOMAIN balance : balance[b].con > 0

(* Once nothing is running the balance is that of the readings stored.     *)
BalanceIsCurrent ==
    (\A a \in Agents : task[a] = Idle)
        => LET now == [inj |-> Energy(TrafoReadings),
                       con |-> Energy(UcReadings)]
           IN  /\ now.inj > 0 /\ now.con > 0 => balance # << >>
               /\ \A b \in DOMAIN balance : balance[b] = now

(* One operation after the other, cut off anywhere and retried or sent     *)
(* again: no reading is stored twice, an import undone leaves none, and a  *)
(* period has one balance and a month without consumption has none.        *)
SerialImports ==
    setting.serial => /\ NoDuplicateReadings /\ DeletedHasNoReadings
                      /\ OneBalancePerPeriod /\ NoFalseLoss

(* However uploads and removals overlap, fail and are cut off, the history *)
(* says what each import stored; so it does when imports are retried one   *)
(* after the other and nothing fails.                                      *)
HistoryHolds ==
    ~May("retry") \/ (setting.serial /\ setting.steady) => HistoryIsTrue

(* While nothing fails or is undone, what the history counts is stored and *)
(* the imports leave the balance current.                                  *)
SteadyImports ==
    setting.serial /\ setting.steady /\ ~May("delete") /\ ~May("skip")
        => CompletedIsStored /\ BalanceIsCurrent

=============================================================================
