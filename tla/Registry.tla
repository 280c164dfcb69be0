------------------------------ MODULE Registry ------------------------------
(***************************************************************************)
(* The network of one tenant: substations, transformers and consuming      *)
(* units, with soft deletion, plan quota and import by file (transformer_, *)
(* consuming_unit_, network_ and registry_import_usecase.go and their      *)
(* repositories).  Every statement is a step; a transaction is one step at *)
(* its commit, preceded by the reads that it does not lock.                *)
(***************************************************************************)
EXTENDS Naturals, FiniteSets

CONSTANTS Workers,          \* goroutines that serve requests
          Rows, Subs, Units, \* ids of transformers, substations and units
          Codes,            \* codes of transformers and of units
          SubCodes,         \* codes of substations
          Fold,             \* Fold[c]: the code c in upper case
          NoSub, NoRow,     \* no substation, no transformer
          MaxTransformers,  \* transformers of the plan; 0: unlimited
          Kinds,            \* the operations that are asked for
          MaxFile,          \* bound: rows of a file or batch
          MaxOps            \* bound: operations started

ASSUME RegistryAssumption ==
    /\ NoSub \notin Subs /\ NoRow \notin Rows
    /\ IsFiniteSet(Rows)
    /\ Fold \in [Codes -> Codes]
    /\ MaxTransformers \in Nat /\ MaxFile \in Nat /\ MaxOps \in Nat

VARIABLES trafo,  \* transformers: state, code, substation, active
          sub,    \* substations: state, code
          unit,   \* consuming units: state, code, transformer
          task,   \* what each worker carries between two statements
          ops,    \* operations started
          serial, \* do operations come one after the other?
          typed   \* the codes that users type; neither ever changes

vars == <<trafo, sub, unit, task, ops, serial, typed>>

Stored == {"none", "live", "deleted"}
Idle == [pc |-> "idle"]

Row == [st : Stored, code : Codes, sub : Subs \cup {NoSub}, active : BOOLEAN]
Substation == [st : Stored, code : SubCodes]
Unit == [st : Stored, code : Codes, row : Rows \cup {NoRow}]

Live(table) == {i \in DOMAIN table : table[i].st = "live"}
Free(table) == {i \in DOMAIN table : table[i].st = "none"}
(* Mutant of Holders: an index of the rows that are not removed only.      *)
HoldersAlive(table, c) ==
    {i \in DOMAIN table : table[i].st = "live" /\ table[i].code = c}
(* The unique index (tenant_id, code) sees removed rows as well.           *)
Holders(table, c) ==
    {i \in DOMAIN table : table[i].st # "none" /\ table[i].code = c}
GetByCode(c) == {r \in Live(trafo) : trafo[r].code = c}
GetUnitByCode(c) == {u \in Live(unit) : unit[u].code = c}
(* Mutant of RefsByTenant: removed rows count as known to the plan.        *)
RefsOfAll == {Fold[trafo[r].code] : r \in Rows \ Free(trafo)}
(* The keys of RefsByTenant: what is not removed, by code in upper case.   *)
RefsByTenant == {Fold[trafo[r].code] : r \in Live(trafo)}

CheckTransformerQuota(n) ==
    MaxTransformers = 0 \/ Cardinality(Live(trafo)) + n <= MaxTransformers

(* A line of a file or an item of a batch, and the files: no code appears  *)
(* twice in one, in any case of letters.                                   *)
Item == [code : Codes, sub : Subs \cup {NoSub}]
Line == [code : Codes, sub : SubCodes \cup {NoSub}]
Distinct(file) ==
    /\ file # {} /\ IsFiniteSet(file) /\ Cardinality(file) <= MaxFile
    /\ \A x, y \in file : Fold[x.code] = Fold[y.code] => x = y

(* A request names a substation by its id, which nobody looks up: the      *)
(* foreign key is content with any row, removed ones included.             *)
Known == {s \in DOMAIN sub : sub[s].st # "none"} \cup {NoSub}

Edit == [field : {"code"}, to : typed]
        \cup [field : {"sub"}, to : Known]
        \cup [field : {"active"}, to : BOOLEAN]

Unused(ids, codes) ==
    {f \in [codes -> ids] : \A c, d \in codes : f[c] = f[d] => c = d}

-----------------------------------------------------------------------------
Init ==
    \E c \in Codes, s \in SubCodes :
        /\ trafo = [r \in Rows |-> [st |-> "none", code |-> c, sub |-> NoSub,
                                    active |-> TRUE]]
        /\ sub = [i \in Subs |-> [st |-> "none", code |-> s]]
        /\ unit = [u \in Units |-> [st |-> "none", code |-> c, row |-> NoRow]]
        /\ task = [w \in Workers |-> Idle]
        /\ ops = 0 /\ serial \in BOOLEAN /\ typed \in SUBSET Codes
        /\ c = CHOOSE d \in Codes : TRUE
        /\ s = CHOOSE d \in SubCodes : TRUE

At(w, pc) == task[w].pc = pc
Goto(w, t) == task' = [task EXCEPT ![w] = t]
Done(w) == Goto(w, Idle)
Begin(w, kind) ==
    /\ At(w, "idle") /\ kind \in Kinds
    /\ ops < MaxOps /\ ops' = ops + 1
(* A request of one statement occupies nobody between two of them.         *)
Single(kind) ==
    /\ kind \in Kinds /\ ops < MaxOps /\ ops' = ops + 1
    /\ UNCHANGED task

-----------------------------------------------------------------------------
(* Transformers.                                                           *)

(* Validation and quota; the code is looked up and the row inserted later. *)
CreateTransformer(w) ==
    /\ Begin(w, "create") /\ CheckTransformerQuota(1)
    /\ \E c \in typed, s \in Known :
           Goto(w, [pc |-> "lookup", items |-> {[code |-> c, sub |-> s]}])
    /\ UNCHANGED <<trafo, sub, unit>>

LookupCode(w) ==
    /\ At(w, "lookup")
    /\ IF \E x \in task[w].items : GetByCode(x.code) # {} THEN Done(w)
       ELSE Goto(w, [task[w] EXCEPT !.pc = "insert"])
    /\ UNCHANGED <<trafo, sub, unit, ops>>

(* POST /transformers/batch: quota, then all rows in one transaction.      *)
CreateTransformers(w) ==
    /\ Begin(w, "batch")
    /\ \E items \in SUBSET [code : typed, sub : Known] :
           /\ Distinct(items) /\ CheckTransformerQuota(Cardinality(items))
           /\ Goto(w, [pc |-> "insert", items |-> items])
    /\ UNCHANGED <<trafo, sub, unit>>

Inserted(item) == [st |-> "live", code |-> item.code, sub |-> item.sub,
                   active |-> TRUE]
(* id[c]: the new row of the item with code c.                             *)
WithItems(items, id) ==
    [r \in Rows |-> IF \E x \in items : id[x.code] = r
                    THEN Inserted(CHOOSE x \in items : id[x.code] = r)
                    ELSE trafo[r]]

(* One code that is taken, by a removed row too, and nothing is inserted.  *)
Insert(w) ==
    /\ At(w, "insert") /\ Done(w)
    /\ LET items == task[w].items
           codes == {x.code : x \in items}
       IN  \/ /\ \A c \in codes : Holders(trafo, c) = {}
              /\ \E id \in Unused(Free(trafo), codes) :
                     trafo' = WithItems(items, id)
           \/ (\E c \in codes : Holders(trafo, c) # {}) /\ UNCHANGED trafo
    /\ UNCHANGED <<sub, unit, ops>>

(* The row is read and edited in memory ...                                *)
UpdateTransformer(w) ==
    /\ Begin(w, "update")
    /\ \E r \in Live(trafo), e \in Edit :
           Goto(w, [pc |-> IF e.field = "code" /\ e.to # trafo[r].code
                           THEN "recode" ELSE "write",
                    row |-> r, field |-> e.field,
                    copy |-> [trafo[r] EXCEPT ![e.field] = e.to]])
    /\ UNCHANGED <<trafo, sub, unit>>

(* ... a new code is looked up ...                                         *)
LookupNewCode(w) ==
    /\ At(w, "recode")
    /\ IF GetByCode(task[w].copy.code) # {} THEN Done(w)
       ELSE Goto(w, [task[w] EXCEPT !.pc = "write"])
    /\ UNCHANGED <<trafo, sub, unit, ops>>

(* ... and every column but deleted_at is written back, to a row that may  *)
(* have been removed meanwhile.                                            *)
WrittenWhole(old, copy) == copy   \* mutant of Written
Written(old, copy) == [copy EXCEPT !.st = old.st]
Update(w) ==
    /\ At(w, "write") /\ Done(w)
    /\ LET r == task[w].row
           copy == task[w].copy
       IN  trafo' = IF Holders(trafo, copy.code) \subseteq {r}
                    THEN [trafo EXCEPT ![r] = Written(@, copy)]
                    ELSE trafo
    /\ UNCHANGED <<sub, unit, ops>>

(* One statement per removal; a batch is several of them, each by itself.  *)
Delete(r) ==
    /\ Single("delete") /\ r \in Live(trafo)
    /\ trafo' = [trafo EXCEPT ![r].st = "deleted"]
    /\ UNCHANGED <<sub, unit>>

-----------------------------------------------------------------------------
(* Substations.                                                            *)

CreateSubstation(s, c) ==
    /\ Single("substation") /\ s \in Free(sub)
    /\ Holders(sub, c) = {}
    /\ sub' = [sub EXCEPT ![s] = [st |-> "live", code |-> c]]
    /\ UNCHANGED <<trafo, unit>>

(* Every column comes from the request: nothing of the row read is kept.   *)
UpdateSubstation(s, c) ==
    /\ Single("recode") /\ s \in Live(sub)
    /\ Holders(sub, c) \subseteq {s}
    /\ sub' = [sub EXCEPT ![s].code = c]
    /\ UNCHANGED <<trafo, unit>>

(* Mutant of Unlinked: transformers that were removed keep the link.       *)
UnlinkedLive(row, s) ==
    IF row.sub = s /\ row.st = "live" THEN [row EXCEPT !.sub = NoSub] ELSE row
(* In one transaction the substation goes and its transformers, removed    *)
(* ones too, lose it.                                                      *)
Unlinked(row, s) == IF row.sub = s THEN [row EXCEPT !.sub = NoSub] ELSE row
DeleteSubstation(s) ==
    /\ Single("delete") /\ s \in Live(sub)
    /\ sub' = [sub EXCEPT ![s].st = "deleted"]
    /\ trafo' = [r \in Rows |-> Unlinked(trafo[r], s)]
    /\ UNCHANGED unit

-----------------------------------------------------------------------------
(* Import of transformers.                                                 *)

NewLines(file) == {x \in file : Fold[x.code] \notin RefsByTenant}

(* What the file would create is compared with the plan.                   *)
ImportTransformers(w) ==
    /\ Begin(w, "import")
    /\ \E file \in SUBSET [code : typed, sub : SubCodes \cup {NoSub}] :
           /\ Distinct(file)
           /\ Goto(w, [pc |-> "quota", file |-> file,
                       new |-> Cardinality(NewLines(file))])
    /\ UNCHANGED <<trafo, sub, unit>>

ImportQuota(w) ==
    /\ At(w, "quota")
    /\ IF CheckTransformerQuota(task[w].new)
       THEN Goto(w, [pc |-> "resolve", file |-> task[w].file])
       ELSE Done(w)
    /\ UNCHANGED <<trafo, sub, unit, ops>>

(* In the transaction each substation is looked up by its code: found as   *)
(* it is, restored (and locked), or to be inserted.                        *)
Locked(s) == \E v \in Workers : At(v, "commit") /\ s \in task[v].restored
SubstationOf(c) == LET h == Holders(sub, c)
                   IN  IF h = {} THEN NoSub ELSE CHOOSE s \in h : TRUE
GetOrCreateByCode(w) ==
    /\ At(w, "resolve")
    /\ LET codes == {x.sub : x \in task[w].file} \ {NoSub}
           found == [c \in codes |-> SubstationOf(c)]
           ids == {found[c] : c \in codes} \ {NoSub}
       IN  /\ \A s \in ids : ~Locked(s)
           /\ Goto(w, [pc |-> "commit", file |-> task[w].file, found |-> found,
                       restored |-> {s \in ids : sub[s].st = "deleted"}])
    /\ UNCHANGED <<trafo, sub, unit, ops>>

(* ON CONFLICT (tenant_id, code): the row is restored, and keeps its       *)
(* substation unless the file names one.                                   *)
Upserted(old, code, s) ==
    [st |-> "live", code |-> code, active |-> TRUE,
     sub |-> IF s # NoSub THEN s ELSE IF old.st = "none" THEN NoSub ELSE old.sub]

(* si[c], ti[c]: the new rows of the substation and of the transformer with *)
(* code c; every other code has a row.                                     *)
SubOf(t, si, c) == IF c = NoSub THEN NoSub
                   ELSE IF c \in DOMAIN si THEN si[c] ELSE t.found[c]
RowOf(ti, c) == IF c \in DOMAIN ti THEN ti[c]
                ELSE CHOOSE r \in Holders(trafo, c) : TRUE
WithLines(t, si, ti) ==
    [r \in Rows |->
        IF \E x \in t.file : RowOf(ti, x.code) = r
        THEN LET x == CHOOSE y \in t.file : RowOf(ti, y.code) = r
             IN  Upserted(trafo[r], x.code, SubOf(t, si, x.sub))
        ELSE trafo[r]]
WithSubstations(t, si) ==
    [s \in Subs |->
        IF s \in t.restored THEN [sub[s] EXCEPT !.st = "live"]
        ELSE IF \E c \in DOMAIN si : si[c] = s
        THEN [st |-> "live", code |-> CHOOSE c \in DOMAIN si : si[c] = s]
        ELSE sub[s]]

(* All of the file at once: a substation that another import has inserted  *)
(* meanwhile violates the index, and nothing is written.                   *)
UpsertByCode(w) ==
    /\ At(w, "commit") /\ Done(w)
    /\ LET t == task[w]
           fresh == {c \in DOMAIN t.found : t.found[c] = NoSub}
           new == {c \in {x.code : x \in t.file} : Holders(trafo, c) = {}}
       IN  \/ /\ \A c \in fresh : Holders(sub, c) = {}
              /\ \E si \in Unused(Free(sub), fresh), ti \in Unused(Free(trafo), new) :
                     /\ trafo' = WithLines(t, si, ti)
                     /\ sub' = WithSubstations(t, si)
           \/ /\ \E c \in fresh : Holders(sub, c) # {}
              /\ UNCHANGED <<trafo, sub>>
    /\ UNCHANGED <<unit, ops>>

-----------------------------------------------------------------------------
(* Consuming units.                                                        *)

EnsureTransformer(r) == r \in Live(trafo)

CreateUnit(w) ==
    /\ Begin(w, "unit")
    /\ \E c \in typed, r \in Rows :
           /\ EnsureTransformer(r)
           /\ Goto(w, [pc |-> "unitLookup", code |-> c, row |-> r])
    /\ UNCHANGED <<trafo, sub, unit>>

LookupUnit(w) ==
    /\ At(w, "unitLookup")
    /\ IF GetUnitByCode(task[w].code) # {} THEN Done(w)
       ELSE Goto(w, [task[w] EXCEPT !.pc = "unitInsert"])
    /\ UNCHANGED <<trafo, sub, unit, ops>>

InsertUnit(w) ==
    /\ At(w, "unitInsert") /\ Done(w)
    /\ \/ /\ Holders(unit, task[w].code) = {}
          /\ \E u \in Free(unit) :
                 unit' = [unit EXCEPT ![u] = [st |-> "live", code |-> task[w].code,
                                              row |-> task[w].row]]
       \/ Holders(unit, task[w].code) # {} /\ UNCHANGED unit
    /\ UNCHANGED <<trafo, sub, ops>>

(* Another transformer is checked, the row read is written back whole.     *)
UpdateUnit(w) ==
    /\ Begin(w, "unitUpdate")
    /\ \E u \in Live(unit) :
         \/ \E r \in Rows :
               /\ r # unit[u].row => EnsureTransformer(r)
               /\ Goto(w, [pc |-> "unitWrite", id |-> u,
                           copy |-> [unit[u] EXCEPT !.row = r]])
         \/ \E c \in typed :
               /\ c # unit[u].code => GetUnitByCode(c) = {}
               /\ Goto(w, [pc |-> "unitWrite", id |-> u,
                           copy |-> [unit[u] EXCEPT !.code = c]])
    /\ UNCHANGED <<trafo, sub, unit>>

WriteUnit(w) ==
    /\ At(w, "unitWrite") /\ Done(w)
    /\ LET u == task[w].id
           copy == task[w].copy
       IN  unit' = IF Holders(unit, copy.code) \subseteq {u}
                   THEN [unit EXCEPT ![u] = Written(@, copy)]
                   ELSE unit
    /\ UNCHANGED <<trafo, sub, ops>>

DeleteUnit(u) ==
    /\ Single("unitDelete") /\ u \in Live(unit)
    /\ unit' = [unit EXCEPT ![u].st = "deleted"]
    /\ UNCHANGED <<trafo, sub>>

(* A line of a file of units: the references are read, then the units are  *)
(* upserted; lines whose transformer is unknown are errors.                *)
ImportUnits(w) ==
    /\ Begin(w, "unitImport")
    /\ \E c \in typed, r \in Live(trafo) :
           Goto(w, [pc |-> "unitUpsert", code |-> c, row |-> r])
    /\ UNCHANGED <<trafo, sub, unit>>

UpsertUnit(w) ==
    /\ At(w, "unitUpsert") /\ Done(w)
    /\ LET c == task[w].code
           h == Holders(unit, c)
       IN  \E u \in IF h = {} THEN Free(unit) ELSE h :
               unit' = [unit EXCEPT ![u] = [st |-> "live", code |-> c,
                                            row |-> task[w].row]]
    /\ UNCHANGED <<trafo, sub, ops>>

-----------------------------------------------------------------------------
TransformerStep(w) ==
    \/ CreateTransformer(w) \/ LookupCode(w) \/ CreateTransformers(w)
    \/ Insert(w) \/ UpdateTransformer(w) \/ LookupNewCode(w) \/ Update(w)
    \/ ImportTransformers(w) \/ ImportQuota(w) \/ GetOrCreateByCode(w)
    \/ UpsertByCode(w)
UnitStep(w) ==
    \/ CreateUnit(w) \/ LookupUnit(w) \/ InsertUnit(w)
    \/ UpdateUnit(w) \/ WriteUnit(w) \/ ImportUnits(w) \/ UpsertUnit(w)

(* No operation begins while another is in progress.                       *)
OneAtATime == (\E w \in Workers : task[w] # Idle) => ops' = ops

Next ==
    /\ \/ \E w \in Workers : TransformerStep(w) \/ UnitStep(w)
       \/ \E r \in Rows : Delete(r)
       \/ \E s \in Subs : DeleteSubstation(s)
       \/ \E s \in Subs, c \in SubCodes :
              CreateSubstation(s, c) \/ UpdateSubstation(s, c)
       \/ \E u \in Units : DeleteUnit(u)
    /\ serial => OneAtATime
    /\ UNCHANGED <<serial, typed>>
Spec == Init /\ [][Next]_vars

-----------------------------------------------------------------------------
Task ==
    [pc : {"idle"}]
    \cup [pc : {"lookup", "insert"}, items : SUBSET Item]
    \cup [pc : {"recode", "write"}, row : Rows, copy : Row,
          field : {"code", "sub", "active"}]
    \cup [pc : {"quota"}, file : SUBSET Line, new : 0..MaxFile]
    \cup [pc : {"resolve"}, file : SUBSET Line]
    \cup [pc : {"commit"}, file : SUBSET Line, restored : SUBSET Subs,
          found : UNION {[D -> Subs \cup {NoSub}] : D \in SUBSET SubCodes}]
    \cup [pc : {"unitLookup", "unitInsert", "unitUpsert"}, code : Codes,
          row : Rows]
    \cup [pc : {"unitWrite"}, id : Units, copy : Unit]
TypeOK ==
    /\ trafo \in [Rows -> Row] /\ sub \in [Subs -> Substation]
    /\ unit \in [Units -> Unit]
    /\ task \in [Workers -> Task]
    /\ ops \in 0..MaxOps /\ serial \in BOOLEAN /\ typed \in SUBSET Codes

(* No two rows of a table share a code, removed rows included, whoever     *)
(* inserts, renames, restores or imports at the same time.                 *)
Unique(table) ==
    \A i, j \in DOMAIN table :
        table[i].st # "none" /\ table[j].st # "none" /\ i # j
            => table[i].code # table[j].code
CodesAreUnique == Unique(trafo) /\ Unique(sub) /\ Unique(unit)
TablesAreRight == TypeOK /\ CodesAreUnique

(* The plan's limit counts the transformers that are not removed.          *)
WithinQuota ==
    MaxTransformers > 0 => Cardinality(Live(trafo)) <= MaxTransformers

(* One operation after the other, the plan's limit holds (Create, batch and*)
(* import); for files this needs codes to be typed in one case of letters. *)
OneCase == \A c, d \in typed : Fold[c] = Fold[d] => c = d
SerialNetwork == serial /\ OneCase => WithinQuota

(* A transformer, removed or not, whose substation was removed.            *)
Lost(r) == /\ trafo[r].st # "none" /\ trafo[r].sub # NoSub
           /\ sub[trafo[r].sub].st # "live"
(* The operation t was asked to link r, or what it inserts, to s.          *)
Names(t, r, s) ==
    \/ t.pc = "insert" /\ \E x \in t.items : x.sub = s
    \/ t.pc = "write" /\ t.row = r /\ t.field = "sub" /\ t.copy.sub = s

(* A link to a removed substation is made by the request that names it, and*)
(* by nothing else: not by the removal of the substation, an import that   *)
(* restores transformers, or an update of another column.                  *)
LostLinksAreNamed ==
    \A r \in Rows : Lost(r)' /\ ~Lost(r) =>
        \E w \in Workers : Names(task[w], r, trafo'[r].sub)
(* One operation after the other; an update that read the row before its   *)
(* substation was removed would link it again.                             *)
LinksAreNamed == [][serial => LostLinksAreNamed]_vars

(* What was removed comes back through an import that names its code and   *)
(* through nothing else, also when an update read it before the removal.   *)
ImportsNow(pc, c) ==
    \E w \in Workers : At(w, pc) /\ c \in IF pc = "commit"
                                          THEN {x.code : x \in task[w].file}
                                          ELSE {task[w].code}
DeletedStays ==
    /\ \A r \in Rows : trafo[r].st = "deleted" /\ trafo'[r].st # "deleted"
           => ImportsNow("commit", trafo[r].code)
    /\ \A u \in Units : unit[u].st = "deleted" /\ unit'[u].st # "deleted"
           => ImportsNow("unitUpsert", unit[u].code)
(* So at every step, of whatever operations overlap.                       *)
RemovedStays == [][DeletedStays]_vars

=============================================================================
