---------------------------- MODULE CatalogSync ----------------------------
(***************************************************************************)
(* The product catalog's synchronisation for one POS config               *)
(* (product-catalog-service: sync-worker.ts, catalog/repository.ts).       *)
(*                                                                         *)
(* Each run copies Odoo's product list page by page into documents tagged  *)
(* with its own snapshot id, validates their number, and then makes that   *)
(* snapshot the active one by one update of the sync-state document.  A    *)
(* Redis lock keeps runs apart; a prune that nobody awaits removes the     *)
(* older snapshots.  A step of this specification is what one awaited call *)
(* does, so anything another run, a prune, a crash or Odoo does can fall   *)
(* between two of them.                                                    *)
(*                                                                         *)
(* A snapshot id starts with the time its run took it, so runs are         *)
(* numbered in that order and a run's number is its snapshot id.           *)
(***************************************************************************)
EXTENDS Naturals, FiniteSets, SequencesExt

CONSTANTS
    Products,       \* product rows Odoo may hold, one per product and warehouse
    Workers,        \* processes running a CatalogSyncWorker
    MaxRuns,        \* bound: number of runs
    MaxChanges,     \* bound: number of changes made in Odoo
    PageLimit,      \* catalogMaxLimit
    InitialSource,  \* Odoo's product list at the start
    Env             \* what the environment may do, a subset of EnvEvents

EnvEvents ==
    { "withdraw",   \* products leave Odoo's list
      "bootstrap",  \* clients call /catalog/bootstrap
      "crash",      \* a worker process dies
      "storeError", \* a call to MongoDB, Redis or Odoo fails
      "ackLoss",    \* the publishing update is applied but its answer is lost
      "lockLoss",   \* a live run's lock expires: its renewals fail
      "slowPrune" } \* a prune is still at work when a later run starts

Runs == 1..MaxRuns
None == 0           \* no run, no snapshot
Nobody == "nobody"  \* the worker of a run that has not started
RunOrNone == Runs \cup {None}

(* A row of Odoo's product list: a product and its write_date.  Everything *)
(* else in a row is determined by the two.                                 *)
Item == [product : Products, written : 0..MaxChanges]

ASSUME BoundsAssumption ==
    /\ MaxRuns \in Nat \ {0}
    /\ MaxChanges \in Nat
    /\ PageLimit \in Nat \ {0}

ASSUME ProductsAssumption == IsFiniteSet(Products)

ASSUME SourceAssumption == InitialSource \in Seq(Item)

(* A search in Odoo answers each product once. *)
ASSUME RowsAssumption ==
    \A i, j \in DOMAIN InitialSource :
        InitialSource[i].product = InitialSource[j].product => i = j

ASSUME EnvAssumption == Env \subseteq EnvEvents

VARIABLES
    source,   \* Odoo's product list, ordered by write_date
    changes,  \* number of changes made in Odoo, the clock of write dates
    lock,     \* the run whose worker id the Redis lock holds, or None
    staged,   \* product_snapshots: the documents tagged with each run's id
    state,    \* the config's document in sync_state
    legacy,   \* the products collection that /catalog/bootstrap fills
    pc,       \* where each run stands
    owner,    \* the worker executing each run
    since,    \* when each run took its snapshot id
    prior,    \* the sync state each run read before it began
    seen,     \* the rows each run fetched, in order: what its hash covers
    total,    \* sourceTotal of each run
    prune,    \* where the prune each run started stands
    keep      \* the older snapshot that prune will spare

vars == <<source, changes, lock, staged, state, legacy,
          pc, owner, since, prior, seen, total, prune, keep>>

odooVars == <<source, changes>>
dbVars   == <<staged, state, legacy>>
runVars  == <<owner, since, prior, seen, total>>
pruneVars == <<prune, keep>>

-----------------------------------------------------------------------------
(* Where a run can stand: the await it is about to issue. *)

Staging == {"page", "count", "publish", "dropDocs", "dropMark"}
Failing == {"failMark", "failDocs"}
Unlocking == {"unlockGet", "unlockDel"}
Critical == {"read", "begin"} \cup Staging \cup Failing \cup Unlocking
PC == {"idle", "done", "dead"} \cup Critical

Live(r) == pc[r] \in Critical

SyncState ==
    [ active   : RunOrNone,                 \* active_snapshot_id
      status   : {"none", "running", "complete", "failed"},
      lastRun  : RunOrNone,                 \* last_run_id
      located  : BOOLEAN,                   \* warehouse_odoo_id is known
      total    : Nat,                       \* source_total
      count    : Nat,                       \* product_count
      print    : Seq(Item) ]                \* source_fingerprint

NoState == [ active |-> None, status |-> "none", lastRun |-> None,
             located |-> FALSE, total |-> 0, count |-> 0, print |-> <<>> ]

TypeOK ==
    /\ source \in Seq(Item)
    /\ changes \in 0..MaxChanges
    /\ lock \in RunOrNone
    /\ staged \in [Runs -> SUBSET Item]
    /\ state \in SyncState
    /\ legacy \in SUBSET Item
    /\ pc \in [Runs -> PC]
    /\ owner \in [Runs -> Workers \cup {Nobody}]
    /\ since \in [Runs -> 0..MaxChanges]
    /\ prior \in [Runs -> SyncState]
    /\ seen \in [Runs -> Seq(Item)]
    /\ total \in [Runs -> Nat]
    /\ prune \in [Runs -> {"none", "find", "delete"}]
    /\ keep \in [Runs -> RunOrNone]

Init ==
    /\ source = InitialSource
    /\ changes = 0
    /\ lock = None
    /\ staged = [r \in Runs |-> {}]
    /\ state = NoState
    /\ legacy = {}
    /\ pc = [r \in Runs |-> "idle"]
    /\ owner = [r \in Runs |-> Nobody]
    /\ since = [r \in Runs |-> 0]
    /\ prior = [r \in Runs |-> NoState]
    /\ seen = [r \in Runs |-> <<>>]
    /\ total = [r \in Runs |-> 0]
    /\ prune = [r \in Runs |-> "none"]
    /\ keep = [r \in Runs |-> None]

-----------------------------------------------------------------------------
(* Odoo.  A change takes the next write date and puts the row last in the  *)
(* list.  Changes, faults and crashes stop once the last run has started   *)
(* (RunsRemain): a bounded stand-in for an environment that is eventually  *)
(* quiet while the worker keeps ticking.                                   *)

RunsRemain == pc[MaxRuns] = "idle"

InOdoo(p) == \E i \in DOMAIN source : source[i].product = p

OdooChange ==
    /\ RunsRemain
    /\ changes < MaxChanges
    /\ changes' = changes + 1
    /\ UNCHANGED <<lock, dbVars, pc, runVars, pruneVars>>

(* A product is added, or a withdrawn one becomes available again: a write *)
(* to it, which dates it.                                                  *)
OdooCreate(p) ==
    /\ ~InOdoo(p)
    /\ source' = Append(source, [product |-> p, written |-> changes + 1])
    /\ OdooChange

OdooUpdate(i) ==
    /\ source' = Append(RemoveAt(source, i),
                        [source[i] EXCEPT !.written = changes + 1])
    /\ OdooChange

OdooWithdraw(i) ==
    /\ "withdraw" \in Env
    /\ source' = RemoveAt(source, i)
    /\ OdooChange

(* One page of the list, as Odoo answers a request for it. *)
OdooPage(offset) ==
    LET end == offset + PageLimit
    IN  SubSeq(source, offset + 1, IF end < Len(source) THEN end ELSE Len(source))

-----------------------------------------------------------------------------
(* A run, in the order of its awaited calls. *)

Goto(r, step) == pc' = [pc EXCEPT ![r] = step]

(* The next unused snapshot id. *)
IsNext(r) ==
    /\ pc[r] = "idle"
    /\ \A x \in Runs : x < r => pc[x] # "idle"

(* Mutant: SET without NX overwrites another run's lock. *)
LockGranted_WithoutNX == TRUE

(* The lock is taken with SET NX. *)
LockGranted == lock = None

(* Take the lock.  A worker that finds it held skips the config, which     *)
(* changes nothing.  One worker can have two runs: the internal route      *)
(* /catalog/sync/ensure calls syncOnce beside the tick.  Unless            *)
(* "slowPrune" is possible, earlier runs' prunes have ended by now.        *)
Start(r, w) ==
    /\ IsNext(r)
    /\ LockGranted
    /\ \/ "slowPrune" \in Env
       \/ \A x \in Runs : prune[x] = "none"
    /\ lock' = r
    /\ owner' = [owner EXCEPT ![r] = w]
    /\ since' = [since EXCEPT ![r] = changes]
    /\ Goto(r, "read")
    /\ UNCHANGED <<odooVars, dbVars, prior, seen, total, pruneVars>>

ReadState(r) ==
    /\ pc[r] = "read"
    /\ prior' = [prior EXCEPT ![r] = state]
    /\ Goto(r, "begin")
    /\ UNCHANGED <<odooVars, lock, dbVars, owner, since, seen, total,
                   pruneVars>>

(* beginSnapshot.  The documents it deletes first are those of the run's   *)
(* own new id, so the two calls are one step.                              *)
Begin(r) ==
    /\ pc[r] = "begin"
    /\ staged' = [staged EXCEPT ![r] = {}]
    /\ state' = [state EXCEPT !.status = "running", !.lastRun = r]
    /\ Goto(r, "page")
    /\ UNCHANGED <<odooVars, lock, legacy, runVars, pruneVars>>

(* The source total is the first non-zero total Odoo reports. *)
SourceTotal(r) == IF total[r] = 0 THEN Len(source) ELSE total[r]

NextPage(r) == OdooPage(Len(seen[r]))

(* Mutant: the key of a document includes its write date. *)
Upsert_KeyedByRow(docs, rows) == docs \cup rows

(* Documents are keyed by product: a row replaces an earlier row for it. *)
Upsert(docs, rows) ==
    {d \in docs : \A row \in rows : row.product # d.product} \cup rows

(* Mutant: the filter of the upserts lacks the snapshot id. *)
StagePage_AnySnapshot(r, rows) ==
    [x \in Runs |-> IF x \in {r, state.active} THEN Upsert(staged[x], rows)
                                              ELSE staged[x]]

StagePage(r, rows) == [staged EXCEPT ![r] = Upsert(@, rows)]

(* Mutant: equal totals are enough. *)
Unchanged_ByTotal(r, rows, expected) ==
    /\ prior[r].active # None
    /\ prior[r].total = expected

(* The new rows hash to the fingerprint of the snapshot that was active    *)
(* when the run began, and their total is the same.                        *)
Unchanged(r, rows, expected) ==
    /\ prior[r].active # None
    /\ prior[r].total = expected
    /\ prior[r].print = rows

AfterPage(r, rows, expected) ==
    IF Len(rows) < expected THEN "page"
    ELSE IF Unchanged(r, rows, expected) THEN "dropDocs"
    ELSE "count"

(* Fetch one page and stage it; after the last one, decide what follows.   *)
(* Fetching touches nothing but the run, so it is one step with the write. *)
CopyPage(r) ==
    LET rows == seen[r] \o NextPage(r)
        expected == SourceTotal(r)
    IN  /\ pc[r] = "page"
        /\ Len(source) = expected
        /\ staged' = StagePage(r, Range(NextPage(r)))
        /\ seen' = [seen EXCEPT ![r] = rows]
        /\ total' = [total EXCEPT ![r] = expected]
        /\ Goto(r, AfterPage(r, rows, expected))
        /\ UNCHANGED <<odooVars, lock, state, legacy, owner, since, prior,
                       pruneVars>>

(* Mutant: the total is compared before the try block is entered. *)
TotalMoved_OutsideTry(r) ==
    /\ pc[r] = "page"
    /\ Len(source) # SourceTotal(r)
    /\ Goto(r, "unlockGet")
    /\ UNCHANGED <<odooVars, lock, dbVars, runVars, pruneVars>>

(* Odoo reports another total than on the first page: the run fails. *)
TotalMoved(r) ==
    /\ pc[r] = "page"
    /\ Len(source) # SourceTotal(r)
    /\ Goto(r, "failMark")
    /\ UNCHANGED <<odooVars, lock, dbVars, runVars, pruneVars>>

(* Mutant: the ids of the run and of the unchanged snapshot are confused. *)
DropDocs_DropsPrior(r) ==
    /\ pc[r] = "dropDocs"
    /\ staged' = [staged EXCEPT ![prior[r].active] = {}]
    /\ Goto(r, "dropMark")
    /\ UNCHANGED <<odooVars, lock, state, legacy, runVars, pruneVars>>

(* Mutant: an unchanged run's documents are left to a later prune. *)
DropDocs_LeftToPrune(r) ==
    /\ pc[r] = "dropDocs"
    /\ Goto(r, "dropMark")
    /\ UNCHANGED <<odooVars, lock, dbVars, runVars, pruneVars>>

(* discardUnchangedSnapshot deletes its documents (DeleteOne and then the  *)
(* rest), then marks the state.                                            *)
DropDocs(r) ==
    /\ pc[r] = "dropDocs"
    /\ staged' = [staged EXCEPT ![r] = {}]
    /\ Goto(r, "dropMark")
    /\ UNCHANGED <<odooVars, lock, state, legacy, runVars, pruneVars>>

(* Mutant: an unchanged run gets a status the schema does not know. *)
DropMark_OwnStatus(r) ==
    /\ pc[r] = "dropMark"
    /\ state' = [state EXCEPT !.status = "unchanged"]
    /\ Goto(r, "unlockGet")
    /\ UNCHANGED <<odooVars, lock, staged, legacy, runVars, pruneVars>>

(* The sync state is marked only if it still names this run. *)
DropMark(r) ==
    /\ pc[r] = "dropMark"
    /\ state' = IF state.lastRun = r THEN [state EXCEPT !.status = "complete"]
                                     ELSE state
    /\ Goto(r, "unlockGet")
    /\ UNCHANGED <<odooVars, lock, staged, legacy, runVars, pruneVars>>

(* Mutant: a snapshot with any documents will do. *)
Validated_NotEmpty(r) == staged[r] # {} \/ total[r] = 0

Validated(r) == Cardinality(staged[r]) = total[r]

(* commitSnapshot validates the number of staged documents ... *)
Count(r) ==
    /\ pc[r] = "count"
    /\ Goto(r, IF Validated(r) THEN "publish" ELSE "failMark")
    /\ UNCHANGED <<odooVars, lock, dbVars, runVars, pruneVars>>

(* Mutant: the previous fingerprint is preferred to the run's own. *)
Published_KeepsPrint(r) ==
    [ active |-> r, status |-> "complete", lastRun |-> r, located |-> TRUE,
      total |-> total[r], count |-> total[r],
      print |-> IF state.print = <<>> THEN seen[r] ELSE state.print ]

Published(r) ==
    [ active |-> r, status |-> "complete", lastRun |-> r, located |-> TRUE,
      total |-> total[r], count |-> total[r], print |-> seen[r] ]

(* ... and makes the snapshot active; the prune is then set off unawaited. *)
Publish(r) ==
    /\ pc[r] = "publish"
    /\ state' = Published(r)
    /\ prune' = [prune EXCEPT ![r] = "find"]
    /\ Goto(r, "unlockGet")
    /\ UNCHANGED <<odooVars, lock, staged, legacy, runVars, keep>>

(* markSnapshotFailed, first the sync state, then the documents (DeleteOne *)
(* and then the rest).                                                     *)
FailMark(r) ==
    /\ pc[r] = "failMark"
    /\ state' = [state EXCEPT !.status = "failed", !.lastRun = r]
    /\ Goto(r, "failDocs")
    /\ UNCHANGED <<odooVars, lock, staged, legacy, runVars, pruneVars>>

FailDocs(r) ==
    /\ pc[r] = "failDocs"
    /\ staged' = [staged EXCEPT ![r] = {}]
    /\ Goto(r, "unlockGet")
    /\ UNCHANGED <<odooVars, lock, state, legacy, runVars, pruneVars>>

(* The finally block: get the lock, and delete it if it holds this         *)
(* worker's id - which every run of the worker writes.                     *)
UnlockGet(r) ==
    /\ pc[r] = "unlockGet"
    /\ Goto(r, IF lock # None /\ owner[lock] = owner[r] THEN "unlockDel"
                                                        ELSE "done")
    /\ UNCHANGED <<odooVars, lock, dbVars, runVars, pruneVars>>

UnlockDel(r) ==
    /\ pc[r] = "unlockDel"
    /\ lock' = None
    /\ Goto(r, "done")
    /\ UNCHANGED <<odooVars, dbVars, runVars, pruneVars>>

-----------------------------------------------------------------------------
(* pruneSnapshots(r): find the newest other snapshot, then delete all but  *)
(* these two (DeleteOne and then the rest).                                *)

OthersStaged(r) == {x \in Runs \ {r} : staged[x] # {}}

(* Mutant: the snapshots are sorted in ascending order. *)
NewestOf_Ascending(k, S) == \A x \in S : k # None /\ k <= x

NewestOf(k, S) == \A x \in S : x <= k

PruneFind(r) ==
    /\ prune[r] = "find"
    /\ \E k \in OthersStaged(r) \cup {None} :
          /\ NewestOf(k, OthersStaged(r))
          /\ keep' = [keep EXCEPT ![r] = k]
    /\ prune' = [prune EXCEPT ![r] = "delete"]
    /\ UNCHANGED <<odooVars, lock, dbVars, pc, runVars>>

PruneDelete(r) ==
    /\ prune[r] = "delete"
    /\ staged' = [x \in Runs |-> IF x \in {r, keep[r]} THEN staged[x] ELSE {}]
    /\ prune' = [prune EXCEPT ![r] = "none"]
    /\ UNCHANGED <<odooVars, lock, state, legacy, pc, runVars, keep>>

(* The snapshots whose documents a deleteMany of r is removing: the run's  *)
(* own, or all that its prune does not keep.                               *)
BeingDeleted(r) ==
    (IF pc[r] \in {"dropDocs", "failDocs"} THEN {r} ELSE {})
        \cup (IF prune[r] = "delete" THEN Runs \ {r, keep[r]} ELSE {})

(* MongoDB deletes them one by one, in no order.  A deleteMany that fails, *)
(* or whose process dies, is left where it is.                             *)
DeleteOne(r) ==
    /\ \E x \in BeingDeleted(r) : \E document \in staged[x] :
          staged' = [staged EXCEPT ![x] = @ \ {document}]
    /\ UNCHANGED <<odooVars, lock, state, legacy, pc, runVars, pruneVars>>

-----------------------------------------------------------------------------
(* Faults. *)

(* Mutant: the lock is released at the end of the try block. *)
AfterThrow_UnlockInTry(step) ==
    IF step \in Failing THEN "unlockGet" ELSE "failMark"

(* A call of the run throws: its catch block runs; a call of the catch     *)
(* block throws: the finally block runs; a call of that one throws: the    *)
(* run ends with the lock still held.  "page" covers Odoo's refusals,      *)
(* timeouts and malformed or empty pages.                                  *)
AfterThrow(step) ==
    CASE step \in Unlocking -> "done"
      [] step \in Failing   -> "unlockGet"
      [] OTHER              -> "failMark"

Throw(r) ==
    /\ "storeError" \in Env
    /\ RunsRemain
    /\ Live(r)
    /\ Goto(r, AfterThrow(pc[r]))
    /\ UNCHANGED <<odooVars, lock, dbVars, runVars, pruneVars>>

(* The publishing update is applied but the driver reports a failure, so   *)
(* the catch block runs and no prune is set off.                           *)
PublishUnacknowledged(r) ==
    /\ "ackLoss" \in Env
    /\ RunsRemain
    /\ pc[r] = "publish"
    /\ state' = Published(r)
    /\ Goto(r, "failMark")
    /\ UNCHANGED <<odooVars, lock, staged, legacy, runVars, pruneVars>>

(* A process dies with its runs and its prunes; its lock stays behind.  A  *)
(* rejected prune kills it too: nothing handles the rejection of a promise *)
(* that was discarded with void.                                           *)
Crash(w) ==
    /\ RunsRemain
    /\ \/ /\ "crash" \in Env
          /\ \E r \in Runs : owner[r] = w /\ (Live(r) \/ prune[r] # "none")
       \/ /\ "storeError" \in Env
          /\ \E r \in Runs : owner[r] = w /\ prune[r] # "none"
    /\ pc' = [r \in Runs |-> IF owner[r] = w /\ Live(r) THEN "dead" ELSE pc[r]]
    /\ prune' = [r \in Runs |-> IF owner[r] = w THEN "none" ELSE prune[r]]
    /\ UNCHANGED <<odooVars, lock, dbVars, runVars, keep>>

(* The lock's time to live passes after its run ended without releasing it *)
(* or died: nothing renews it any more.                                    *)
LockTimeout ==
    /\ lock # None
    /\ ~Live(lock)
    /\ lock' = None
    /\ UNCHANGED <<odooVars, dbVars, pc, runVars, pruneVars>>

(* The renewals of a live run fail for a whole time to live. *)
LockLost ==
    /\ "lockLoss" \in Env
    /\ RunsRemain
    /\ lock # None
    /\ Live(lock)
    /\ lock' = None
    /\ UNCHANGED <<odooVars, dbVars, pc, runVars, pruneVars>>

-----------------------------------------------------------------------------
(* /catalog/bootstrap: a client's request puts the rows from some offset   *)
(* on in the legacy products collection, counts that collection, and       *)
(* writes the number into the sync state.  Requests run side by side and   *)
(* nothing is ever deleted there, so a number some request has counted and *)
(* not yet written is any that was once right.                             *)

BootstrapRows(offset) ==
    /\ "bootstrap" \in Env
    /\ legacy' = Upsert(legacy, Range(OdooPage(offset)))
    /\ UNCHANGED <<odooVars, lock, staged, state, pc, runVars, pruneVars>>

BootstrapState ==
    /\ "bootstrap" \in Env
    /\ \E n \in 0..Cardinality(legacy) :
          state' = [state EXCEPT !.count = n, !.located = TRUE]
    /\ UNCHANGED <<odooVars, lock, staged, legacy, pc, runVars, pruneVars>>

Bootstrap ==
    \/ \E offset \in 0..Len(source) : BootstrapRows(offset)
    \/ BootstrapState

-----------------------------------------------------------------------------
RunStep(r) ==
    \/ ReadState(r) \/ Begin(r) \/ CopyPage(r) \/ TotalMoved(r)
    \/ DropDocs(r) \/ DropMark(r) \/ Count(r) \/ Publish(r)
    \/ FailMark(r) \/ FailDocs(r) \/ UnlockGet(r) \/ UnlockDel(r)

PruneStep(r) == PruneFind(r) \/ PruneDelete(r)

OdooStep ==
    \/ \E p \in Products : OdooCreate(p)
    \/ \E i \in DOMAIN source : OdooUpdate(i) \/ OdooWithdraw(i)

Next ==
    \/ \E r \in Runs, w \in Workers : Start(r, w)
    \/ \E r \in Runs : RunStep(r) \/ PruneStep(r) \/ DeleteOne(r)
    \/ \E r \in Runs : Throw(r) \/ PublishUnacknowledged(r)
    \/ \E w \in Workers : Crash(w)
    \/ LockTimeout \/ LockLost
    \/ OdooStep
    \/ Bootstrap

Spec == Init /\ [][Next]_vars

(* A worker keeps ticking, awaited calls and prunes are answered, and      *)
(* Redis expires keys.  Odoo, clients and faults owe nothing.              *)
Fairness ==
    /\ \A r \in Runs : WF_vars(\E w \in Workers : Start(r, w))
    /\ \A r \in Runs : WF_vars(RunStep(r)) /\ WF_vars(PruneStep(r))
    /\ WF_vars(LockTimeout)

FairSpec == Spec /\ Fairness

-----------------------------------------------------------------------------
(* Properties. *)

(* No fault takes a lock, a prune or a publication out of its run's hands. *)
QuietEnv == Env \cap {"ackLoss", "lockLoss", "slowPrune"} = {}

(* The Redis lock keeps runs apart, over crashes, failed releases and      *)
(* expiries: two runs are never inside syncConfig together.                *)
OneRunAtATime == \A x, y \in Runs : Live(x) /\ Live(y) => x = y

(* The active snapshot always has exactly as many documents as the source  *)
(* total it was validated against: no failed or discarded run, prune or    *)
(* later run ever takes documents from it or adds any.                     *)
ActiveSnapshotFull ==
    state.active # None => Cardinality(staged[state.active]) = state.total

(* Why these two hold when the environment is quiet: the lock names the    *)
(* one live run, which is the newest; its snapshot is not active before it *)
(* is published, and nobody touches it between its count and its           *)
(* publication; and a prune works for the active snapshot, with no other   *)
(* run under way.                                                          *)
LockCoversRun == \A r \in Runs : Live(r) => lock = r

StartedInOrder ==
    \A x, y \in Runs : x < y /\ pc[y] # "idle" =>
        pc[x] # "idle" /\ ~Live(x)

UnpublishedNotActive ==
    \A r \in Runs :
        pc[r] \in {"idle", "read", "begin"} \cup Staging \cup Failing =>
            state.active # r

CountHolds ==
    \A r \in Runs : pc[r] = "publish" => Cardinality(staged[r]) = total[r]

PruneAlone ==
    \A r \in Runs : prune[r] # "none" =>
        state.active = r /\ \A x \in Runs : Live(x) => x = r

SyncInv ==
    /\ LockCoversRun
    /\ StartedInOrder
    /\ UnpublishedNotActive
    /\ CountHolds
    /\ PruneAlone
    /\ OneRunAtATime
    /\ ActiveSnapshotFull

(* What readers see of the catalog changes only when a newer, complete     *)
(* snapshot replaces the active one.                                       *)
Publication == INSTANCE CatalogPublication
    WITH version <- state.active,
         catalog <- IF state.active = None THEN {} ELSE staged[state.active],
         size    <- state.total,
         SizeOf  <- Cardinality

PublishesAtomically == Publication!Spec

(* sync_status tells the truth: while a run is staging, it says "running"  *)
(* and names that run; and a run that ended did not leave "running"        *)
(* behind, unless the update that would have said otherwise failed.        *)
StatusTruthful ==
    /\ \A r \in Runs : pc[r] \in Staging =>
            state.status = "running" /\ state.lastRun = r
    /\ state.status = "running" =>
            \/ pc[state.lastRun] \in Staging \cup {"failMark", "dead"}
            \/ "storeError" \in Env

(* The stored fingerprint is that of the active snapshot's documents, so a *)
(* run that compares equal to it really has nothing new to publish.        *)
PrintDescribesActive ==
    state.active # None => Range(state.print) = staged[state.active]

(* While no product leaves Odoo's list, the count is validation enough: a  *)
(* row that has not been written since a run took its snapshot id is in    *)
(* the snapshot that run published, whatever else moved between its pages. *)
PublishedHoldsSteadyRows ==
    state.active # None =>
        \A row \in Range(source) :
            row.written <= since[state.active] => row \in staged[state.active]

(* The snapshot that was active before is kept whole, for the clients      *)
(* still paging through it.                                                *)
PreviousSnapshotKept ==
    LET before == prior[state.active]
    IN  state.active # None /\ before.active # None =>
            Cardinality(staged[before.active]) = before.total

(* Snapshots do not pile up: between runs, the active one and one older    *)
(* one at most have documents.                                             *)
SnapshotsBounded ==
    (\A r \in Runs : ~Live(r) /\ prune[r] = "none") =>
        Cardinality({r \in Runs : staged[r] # {}}) <= 2

(* The catch block and the discarding of an unchanged snapshot never work  *)
(* on the active snapshot, not even when runs overlap.                     *)
CatchSparesActive ==
    \A r \in Runs : pc[r] \in Failing \cup {"dropDocs"} => state.active # r

(* Whatever overlaps or stops half-way - runs that lost their lock, slow   *)
(* prunes, lost answers - the active snapshot is either exactly what its   *)
(* fingerprint was made of or visibly short of the total in the state:     *)
(* readers never get a row that another run, or another page, staged.      *)
ActiveWholeOrShort ==
    LET documents == staged[state.active]
    IN  state.active # None =>
            /\ documents \subseteq Range(state.print)
            /\ Cardinality(documents) <= state.total
            /\ Cardinality(documents) = state.total =>
                  documents = Range(state.print)

(* Once Odoo and the environment are quiet, the catalog comes to hold      *)
(* exactly Odoo's list, and stays so.                                      *)
CatalogCatchesUp ==
    <>[](state.active # None /\ staged[state.active] = Range(source))

=============================================================================
