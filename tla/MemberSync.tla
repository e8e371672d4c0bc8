----------------------------- MODULE MemberSync -----------------------------
(***************************************************************************)
(* The members of one company: their synchronisation, and reading them     *)
(* while it goes on (customer-member-service: sync-worker.ts,              *)
(* member/repository.ts, member/service.ts).                               *)
(*                                                                         *)
(* A run copies Odoo's member list into documents tagged with its snapshot *)
(* id, replaces the tiers and loyalty programs, which belong to no         *)
(* snapshot, validates the number of members and publishes them by one     *)
(* update of the sync state.  A step is what one awaited call does.        *)
(*                                                                         *)
(* One process runs the worker; several, and locks lost under a live run,  *)
(* are the subject of CatalogSync, whose protocol this one shares.         *)
(***************************************************************************)
EXTENDS Naturals, FiniteSets, SequencesExt, SortedLists

CONSTANTS
    Members,        \* partners that can be members
    MaxRuns,        \* bound: number of runs
    MaxChanges,     \* bound: number of changes made in Odoo
    PageLimit,      \* memberMaxLimit
    Limit,          \* members per page of a listing
    InitialSource,  \* Odoo's member list at the start
    Env             \* what the environment may do, a subset of EnvEvents

EnvEvents ==
    { "withdraw",   \* members leave Odoo's list
      "crash",      \* the worker's process dies
      "storeError", \* a call to MongoDB, Redis or Odoo fails
      "ackLoss",    \* the publication is applied, its answer is lost
      "slowPrune" } \* a prune is not over when the next run starts

Runs == 1..MaxRuns
None == 0           \* no run, no snapshot
RunOrNone == Runs \cup {None}

(* A member document: the partner and its write_date.  normalizeMember     *)
(* derives everything else from the same record of Odoo's.                 *)
Item == [member : Members, written : 0..MaxChanges]

(* Odoo's tiers and loyalty programs, as the time they were written: none  *)
(* yet, or the list of that time.                                          *)
TierDocs == {{}} \cup {{t} : t \in 0..MaxChanges}

ASSUME MemberAssumption ==
    /\ MaxRuns \in Nat \ {0}
    /\ MaxChanges \in Nat
    /\ PageLimit \in Nat \ {0}
    /\ Limit \in Nat \ {0}
    /\ IsFiniteSet(Members) /\ Members \subseteq Nat
    /\ InitialSource \in Seq(Item)
    /\ \A i, j \in DOMAIN InitialSource :
          InitialSource[i].member = InitialSource[j].member => i = j
    /\ Env \subseteq EnvEvents

VARIABLES
    source,   \* Odoo's member list, ordered by write_date
    tiers,    \* Odoo's tiers and loyalty programs
    changes,  \* number of changes made in Odoo, the clock of write dates
    lock,     \* the run that holds the Redis lock, or None
    staged,   \* memberSnapshots: the documents tagged with each run's id
    aux,      \* the times of the tiers and loyalty programs stored
    state,    \* the company's document in sync_state
    legacy,   \* the members collection that /members/bootstrap fills
    pc,       \* where each run stands
    copied,   \* syncedCount of each run
    total,    \* sourceTotal of each run
    first,    \* the tiers each run got with its first page
    prune,    \* where the prune each run started stands
    keep,     \* the older snapshot that prune will spare
    role,     \* what the client does
    boot,     \* a bootstrap request
    listing   \* a client's listing and the request it has under way

odooVars == <<source, tiers, changes>>
dbVars   == <<staged, aux, state, legacy>>
runVars  == <<copied, total, first>>
pruneVars == <<prune, keep>>
clientVars == <<role, boot, listing>>
vars == <<odooVars, lock, dbVars, pc, runVars, pruneVars, clientVars>>

-----------------------------------------------------------------------------
(* Where a run can stand: the await it is about to issue. *)

Failing == {"failMark", "failDocs"}
Critical == {"begin", "page", "clear", "fill", "count", "publish", "unlock"}
                \cup Failing

Live(r) == pc[r] \in Critical

SyncState ==
    [ active  : RunOrNone,                  \* active_snapshot_id
      status  : {"none", "running", "complete", "failed"},
      total   : Nat,                        \* source_total
      counted : BOOLEAN,                    \* there is a member_count
      count   : Nat ]                       \* member_count

NoState == [ active |-> None, status |-> "none", total |-> 0,
             counted |-> FALSE, count |-> 0 ]

Listing ==
    [ step  : {"idle", "read", "done"},
      to_do : SUBSET {"list", "find", "count", "label"},
      snap  : RunOrNone,                    \* snapshotId, None for members
      items : Seq(Item),
      total : Nat,
      label : RunOrNone,                    \* the answer's snapshot_id
      got   : Seq(Item),                    \* the rows received so far
      pin   : RunOrNone,                    \* snapshot_id of the last answer
      loose : BOOLEAN ]      \* a page, before the pin, was not of its label

Boot ==
    [ step   : {"none", "fetch", "write", "count", "state", "done"},
      page   : Seq(Item),
      tiers  : TierDocs,
      count  : Nat,
      copied : Nat,                         \* syncedCount, and the offset
      total  : Nat ]

MemberTypeOK ==
    /\ source \in Seq(Item)
    /\ tiers \in TierDocs
    /\ changes \in 0..MaxChanges
    /\ lock \in RunOrNone
    /\ staged \in [Runs -> SUBSET Item]
    /\ aux \in SUBSET (0..MaxChanges)
    /\ state \in SyncState
    /\ legacy \in SUBSET Item
    /\ pc \in [Runs -> {"idle", "done", "dead"} \cup Critical]
    /\ copied \in [Runs -> Nat]
    /\ total \in [Runs -> Nat]
    /\ first \in [Runs -> TierDocs]
    /\ prune \in [Runs -> {"none", "find", "delete"}]
    /\ keep \in [Runs -> RunOrNone]
    /\ role \in {"lister", "bootstrapper"}
    /\ boot \in Boot
    /\ listing \in Listing

Init ==
    /\ source = InitialSource
    /\ tiers = {0}
    /\ changes = 0
    /\ lock = None
    /\ staged = [r \in Runs |-> {}]
    /\ aux = {}
    /\ state = NoState
    /\ legacy = {}
    /\ pc = [r \in Runs |-> "idle"]
    /\ copied = [r \in Runs |-> 0]
    /\ total = [r \in Runs |-> 0]
    /\ first = [r \in Runs |-> {}]
    /\ prune = [r \in Runs |-> "none"]
    /\ keep = [r \in Runs |-> None]
    /\ role \in {"lister", "bootstrapper"}
    /\ boot = [ step |-> "none", page |-> <<>>, tiers |-> {}, count |-> 0,
                copied |-> 0, total |-> 0 ]
    /\ listing = [ step |-> "idle", to_do |-> {}, snap |-> None,
                   items |-> <<>>, total |-> 0, label |-> None,
                   got |-> <<>>, pin |-> None, loose |-> FALSE ]

-----------------------------------------------------------------------------
(* Odoo.  Changes and faults stop once the last run has started, a bounded *)
(* stand-in for an environment that is eventually quiet.                   *)

RunsRemain == pc[MaxRuns] = "idle"

OdooChange ==
    /\ RunsRemain
    /\ changes < MaxChanges
    /\ changes' = changes + 1
    /\ UNCHANGED <<lock, dbVars, pc, runVars, pruneVars, clientVars>>

OdooCreate(m) ==
    /\ \A i \in DOMAIN source : source[i].member # m
    /\ source' = Append(source, [member |-> m, written |-> changes + 1])
    /\ OdooChange
    /\ UNCHANGED tiers

OdooUpdate(i) ==
    /\ source' = Append(RemoveAt(source, i),
                        [source[i] EXCEPT !.written = changes + 1])
    /\ OdooChange
    /\ UNCHANGED tiers

OdooWithdraw(i) ==
    /\ "withdraw" \in Env
    /\ source' = RemoveAt(source, i)
    /\ OdooChange
    /\ UNCHANGED tiers

OdooTiers ==
    /\ tiers' = {changes + 1}
    /\ OdooChange
    /\ UNCHANGED source

(* One page of the list, as Odoo answers a request for it. *)
OdooPage(offset) ==
    LET end == offset + PageLimit
    IN  SubSeq(source, offset + 1, IF end < Len(source) THEN end ELSE Len(source))

-----------------------------------------------------------------------------
(* A run, in the order of its awaited calls. *)

Goto(r, step) == pc' = [pc EXCEPT ![r] = step]

IsNext(r) ==
    /\ pc[r] = "idle"
    /\ \A x \in Runs : x < r => pc[x] # "idle"

(* Mutant: SET without NX overwrites another run's lock. *)
LockGranted_WithoutNX == TRUE

LockGranted == lock = None

(* syncOnce, from the tick or from /members/sync/ensure: log in, take the  *)
(* lock.  A failed login or a held lock changes nothing, and nothing waits *)
(* for the prunes of earlier runs: they have ended unless they are slow.   *)
Start(r) ==
    /\ IsNext(r)
    /\ LockGranted
    /\ "slowPrune" \in Env \/ \A x \in Runs : prune[x] = "none"
    /\ lock' = r
    /\ Goto(r, "begin")
    /\ UNCHANGED <<odooVars, dbVars, runVars, pruneVars, clientVars>>

(* The documents it deletes first are those of the run's own new id. *)
Begin(r) ==
    /\ pc[r] = "begin"
    /\ staged' = [staged EXCEPT ![r] = {}]
    /\ state' = [state EXCEPT !.status = "running"]
    /\ Goto(r, "page")
    /\ UNCHANGED <<odooVars, lock, aux, legacy, runVars, pruneVars, clientVars>>

(* Documents are keyed by member: a row replaces an earlier row for it. *)
Upsert(docs, rows) ==
    {d \in docs : \A row \in rows : row.member # d.member} \cup rows

(* The source total is the first non-zero total Odoo reports. *)
SourceTotal(r) == IF total[r] = 0 THEN Len(source) ELSE total[r]

(* Mutant: the tiers are only loaded where there are none yet. *)
AfterPage_TiersOnce(r, n) ==
    IF n < SourceTotal(r) THEN "page" ELSE IF aux = {} THEN "clear" ELSE "count"

(* Mutant: the last member is taken for copied when it is not. *)
AfterPage_OneShort(r, n) == IF n + 1 < SourceTotal(r) THEN "page" ELSE "clear"

AfterPage(r, n) == IF n < SourceTotal(r) THEN "page" ELSE "clear"

(* Fetch one page and stage it.  Each answer of Odoo holds the tiers; the  *)
(* first one's are kept.                                                   *)
CopyPage(r) ==
    LET page == OdooPage(copied[r])
    IN  /\ pc[r] = "page"
        /\ Len(source) = SourceTotal(r)
        /\ staged' = [staged EXCEPT ![r] = Upsert(@, Range(page))]
        /\ copied' = [copied EXCEPT ![r] = @ + Len(page)]
        /\ total' = [total EXCEPT ![r] = SourceTotal(r)]
        /\ first' = [first EXCEPT ![r] = IF @ = {} THEN tiers ELSE @]
        /\ Goto(r, AfterPage(r, copied'[r]))
        /\ UNCHANGED <<odooVars, lock, aux, state, legacy, pruneVars, clientVars>>

(* Odoo reports another total than on the first page: the run fails. *)
TotalMoved(r) ==
    /\ pc[r] = "page"
    /\ Len(source) # SourceTotal(r)
    /\ Goto(r, "failMark")
    /\ UNCHANGED <<odooVars, lock, dbVars, runVars, pruneVars, clientVars>>

(* replaceAuxiliaryData deletes the tiers and loyalty programs (some of    *)
(* them deleted, or written, is either of the two) ...                     *)
ClearTiers(r) ==
    /\ pc[r] = "clear"
    /\ aux' = {}
    /\ Goto(r, "fill")
    /\ UNCHANGED <<odooVars, lock, staged, state, legacy, runVars, pruneVars,
                   clientVars>>

(* The documents are keyed by Odoo's ids: writing a list leaves of those   *)
(* that are there the ones it does not name.                               *)
AuxWith(written) == {kept \cup written : kept \in SUBSET aux}

(* ... and then writes the new ones, before the members are validated. *)
FillTiers(r) ==
    /\ pc[r] = "fill"
    /\ aux' \in AuxWith(first[r])
    /\ Goto(r, "count")
    /\ UNCHANGED <<odooVars, lock, staged, state, legacy, runVars, pruneVars,
                   clientVars>>

(* commitSnapshot validates the number of staged documents ... *)
Count(r) ==
    /\ pc[r] = "count"
    /\ Goto(r, IF Cardinality(staged[r]) = total[r] THEN "publish"
                                                    ELSE "failMark")
    /\ UNCHANGED <<odooVars, lock, dbVars, runVars, pruneVars, clientVars>>

Published(r) ==
    [ active |-> r, status |-> "complete", total |-> total[r],
      counted |-> TRUE, count |-> total[r] ]

(* ... and makes the snapshot active; the prune is then set off unawaited. *)
Publish(r) ==
    /\ pc[r] = "publish"
    /\ state' = Published(r)
    /\ prune' = [prune EXCEPT ![r] = "find"]
    /\ Goto(r, "unlock")
    /\ UNCHANGED <<odooVars, lock, staged, aux, legacy, runVars, keep,
                   clientVars>>

(* Mutant: a status the readers do not know. *)
FailMark_OwnStatus(r) ==
    /\ pc[r] = "failMark"
    /\ state' = [state EXCEPT !.status = "error"]
    /\ Goto(r, "failDocs")
    /\ UNCHANGED <<odooVars, lock, staged, aux, legacy, runVars, pruneVars,
                   clientVars>>

(* markSnapshotFailed, first the sync state, then the documents (DeleteOne *)
(* and then the rest).                                                     *)
FailMark(r) ==
    /\ pc[r] = "failMark"
    /\ state' = [state EXCEPT !.status = "failed"]
    /\ Goto(r, "failDocs")
    /\ UNCHANGED <<odooVars, lock, staged, aux, legacy, runVars, pruneVars,
                   clientVars>>

(* Mutant: the snapshot id is left out of the deletion. *)
FailDocs_AllSnapshots(r) ==
    /\ pc[r] = "failDocs"
    /\ staged' = [x \in Runs |-> {}]
    /\ Goto(r, "unlock")
    /\ UNCHANGED <<odooVars, lock, aux, state, legacy, runVars, pruneVars,
                   clientVars>>

FailDocs(r) ==
    /\ pc[r] = "failDocs"
    /\ staged' = [staged EXCEPT ![r] = {}]
    /\ Goto(r, "unlock")
    /\ UNCHANGED <<odooVars, lock, aux, state, legacy, runVars, pruneVars,
                   clientVars>>

(* The finally block.  Its get and its del are one step: with no lock lost *)
(* under a live run, nothing tells them apart.                             *)
Unlock(r) ==
    /\ pc[r] = "unlock"
    /\ lock' = None
    /\ Goto(r, "done")
    /\ UNCHANGED <<odooVars, dbVars, runVars, pruneVars, clientVars>>

(* pruneSnapshots: find the newest other snapshot, then delete all but     *)
(* these two (DeleteOne and then the rest).                                *)
PruneFind(r) ==
    LET others == {x \in Runs \ {r} : staged[x] # {}}
    IN  /\ prune[r] = "find"
        /\ \E k \in others \cup {None} :
              /\ \A x \in others : x <= k
              /\ keep' = [keep EXCEPT ![r] = k]
        /\ prune' = [prune EXCEPT ![r] = "delete"]
        /\ UNCHANGED <<odooVars, lock, dbVars, pc, runVars, clientVars>>

PruneDelete(r) ==
    /\ prune[r] = "delete"
    /\ staged' = [x \in Runs |-> IF x \in {r, keep[r]} THEN staged[x] ELSE {}]
    /\ prune' = [prune EXCEPT ![r] = "none"]
    /\ keep' = [keep EXCEPT ![r] = None]
    /\ UNCHANGED <<odooVars, lock, aux, state, legacy, pc, runVars, clientVars>>

(* The snapshots a deleteMany of the run has been sent off for. *)
BeingDeleted(r) ==
    (IF pc[r] = "failDocs" THEN {r} ELSE {})
        \cup (IF prune[r] = "delete" THEN Runs \ {r, keep[r]} ELSE {})

(* MongoDB deletes them one by one, in no order.  A deleteMany that fails, *)
(* or whose process dies, is left where it is.                             *)
DeleteOne(r) ==
    /\ \E x \in BeingDeleted(r) : \E document \in staged[x] :
          staged' = [staged EXCEPT ![x] = @ \ {document}]
    /\ UNCHANGED <<odooVars, lock, aux, state, legacy, pc, runVars, pruneVars,
                   clientVars>>

-----------------------------------------------------------------------------
(* Faults. *)

(* A call throws: the catch block runs, then the finally block.            *)
AfterThrow(step) ==
    CASE step = "unlock"   -> "done"
      [] step \in Failing  -> "unlock"
      [] OTHER             -> "failMark"

Throw(r) ==
    /\ "storeError" \in Env
    /\ RunsRemain
    /\ Live(r)
    /\ Goto(r, AfterThrow(pc[r]))
    /\ UNCHANGED <<odooVars, lock, dbVars, runVars, pruneVars, clientVars>>

(* The publishing update is applied but the driver reports a failure, so   *)
(* the catch block runs and no prune is set off.                           *)
PublishUnacknowledged(r) ==
    /\ "ackLoss" \in Env
    /\ RunsRemain
    /\ pc[r] = "publish"
    /\ state' = Published(r)
    /\ Goto(r, "failMark")
    /\ UNCHANGED <<odooVars, lock, staged, aux, legacy, runVars, pruneVars,
                   clientVars>>

(* The process dies with its run and its prunes; its lock stays behind.  A *)
(* rejected prune kills it too, as nothing handles the rejection.          *)
Crash ==
    /\ RunsRemain
    /\ \/ "crash" \in Env /\ \E r \in Runs : Live(r)
       \/ /\ Env \cap {"crash", "storeError"} # {}
          /\ \E r \in Runs : prune[r] # "none"
    /\ pc' = [r \in Runs |-> IF Live(r) THEN "dead" ELSE pc[r]]
    /\ prune' = [r \in Runs |-> "none"]
    /\ keep' = [r \in Runs |-> None]
    /\ UNCHANGED <<odooVars, lock, dbVars, runVars, clientVars>>

(* The lock of a run that is over expires: nothing renews it any more. *)
LockTimeout ==
    /\ lock # None
    /\ ~Live(lock)
    /\ lock' = None
    /\ UNCHANGED <<odooVars, dbVars, pc, runVars, pruneVars, clientVars>>

-----------------------------------------------------------------------------
(* /members/bootstrap: a client's request fetches the list page by page    *)
(* and upserts each page into the collections that belong to no snapshot.  *)

BootOnly == UNCHANGED <<odooVars, lock, staged, pc, runVars, pruneVars, role,
                        listing>>

BootFetch ==
    /\ role = "bootstrapper"
    /\ boot.step \in {"none", "fetch"}
    /\ boot' = [boot EXCEPT !.step  = "write",
                            !.page  = OdooPage(boot.copied),
                            !.tiers = tiers,
                            !.total = IF source = <<>> THEN @ ELSE Len(source)]
    /\ UNCHANGED <<aux, state, legacy>>
    /\ BootOnly

BootWrite ==
    /\ boot.step = "write"
    /\ legacy' = Upsert(legacy, Range(boot.page))
    /\ aux' \in AuxWith(boot.tiers)
    /\ boot' = [boot EXCEPT !.step = "count", !.tiers = {}]
    /\ UNCHANGED state
    /\ BootOnly

BootCount ==
    /\ boot.step = "count"
    /\ boot' = [boot EXCEPT !.step = "state", !.count = Cardinality(legacy)]
    /\ UNCHANGED <<aux, state, legacy>>
    /\ BootOnly

(* After the state, the next page; an empty one before the total is        *)
(* reached is an error, which ends the request like the last page does.    *)
BootState ==
    LET n == boot.copied + Len(boot.page)
    IN  /\ boot.step = "state"
        /\ state' = [state EXCEPT !.counted = TRUE, !.count = boot.count]
        /\ boot' = [boot EXCEPT
              !.step = IF n < boot.total /\ boot.page # <<>> THEN "fetch"
                                                             ELSE "done",
              !.page = <<>>, !.count = 0, !.copied = n]
        /\ UNCHANGED <<aux, legacy>>
        /\ BootOnly

BootStep == BootFetch \/ BootWrite \/ BootCount \/ BootState

-----------------------------------------------------------------------------
(* A listing.  payloadFromCache sends its reads off together: listMembers, *)
(* which reads the state and then finds and counts, and another read of    *)
(* the state for the answer's label.  The client sends the snapshot_id it  *)
(* was given with its next request, and asks for more while has_more.      *)

ListOnly == UNCHANGED <<odooVars, lock, dbVars, pc, runVars, pruneVars, role,
                        boot>>

Ask ==
    /\ role = "lister"
    /\ listing.step = "idle"
    /\ listing' = [listing EXCEPT !.step = "read", !.to_do = {"list", "label"}]
    /\ ListOnly

Reads(what) == listing.step = "read" /\ what \in listing.to_do

(* Mutant: the active snapshot is preferred to the one the client sent. *)
Wanted_Active(l) == state.active

(* The snapshot the client sent, or else the active one. *)
Wanted(l) == IF l.pin # None THEN l.pin ELSE state.active

(* The count in the sync state is only used when no snapshot is asked for. *)
CountKnown(l) == l.pin = None /\ state.counted

(* listMembers reads the sync state. *)
ListState ==
    LET more == IF CountKnown(listing) THEN {"find"} ELSE {"find", "count"}
    IN  /\ Reads("list")
        /\ listing' =
              IF state.status = "running" /\ Wanted(listing) = None
              THEN [listing EXCEPT !.to_do = @ \ {"list"}, !.snap = None,
                                   !.items = <<>>, !.total = 0]
              ELSE [listing EXCEPT !.to_do = (@ \ {"list"}) \cup more,
                                   !.snap = Wanted(listing),
                                   !.total = IF CountKnown(listing)
                                             THEN state.count ELSE 0]
        /\ ListOnly

Documents(snap) == IF snap = None THEN legacy ELSE staged[snap]

(* The sort order: by write date, and by partner where these are equal. *)
Before(x, y) ==
    \/ x.written < y.written
    \/ x.written = y.written /\ x.member < y.member

DateOrder == {p \in Item \X Item : Before(p[1], p[2])}

Sorted(rows) == SortedBy(rows, DateOrder)

ListFind ==
    LET rows == Sorted(Documents(listing.snap))
        end  == Len(listing.got) + Limit
    IN  /\ Reads("find")
        /\ listing' = [listing EXCEPT
              !.to_do = @ \ {"find"},
              !.items = SubSeq(rows, Len(listing.got) + 1,
                               IF end < Len(rows) THEN end ELSE Len(rows))]
        /\ ListOnly

ListCount ==
    /\ Reads("count")
    /\ listing' = [listing EXCEPT
                      !.to_do = @ \ {"count"},
                      !.total = Cardinality(Documents(listing.snap))]
    /\ ListOnly

(* The read whose snapshot id the answer will bear. *)
ListLabel ==
    /\ Reads("label")
    /\ listing' = [listing EXCEPT
                      !.to_do = @ \ {"label"},
                      !.label = IF listing.pin # None THEN listing.pin
                                                      ELSE state.active]
    /\ ListOnly

HasMore(l) == Len(l.got) + Limit < l.total

(* The answer, and the client's next request if there is one. *)
ListAnswer ==
    /\ listing.step = "read"
    /\ listing.to_do = {}
    /\ listing' =
          [ step  |-> IF HasMore(listing) THEN "read" ELSE "done",
            to_do |-> IF HasMore(listing) THEN {"list", "label"} ELSE {},
            got   |-> listing.got \o listing.items,
            loose |-> \/ listing.loose
                      \/ listing.pin = None /\ listing.snap # listing.label,
            pin   |-> listing.label,
            total |-> listing.total,
            snap |-> None, items |-> <<>>, label |-> None ]
    /\ ListOnly

ListStep == ListState \/ ListFind \/ ListCount \/ ListLabel \/ ListAnswer

-----------------------------------------------------------------------------
RunStep(r) ==
    \/ Begin(r) \/ CopyPage(r) \/ TotalMoved(r) \/ ClearTiers(r)
    \/ FillTiers(r) \/ Count(r) \/ Publish(r)
    \/ FailMark(r) \/ FailDocs(r) \/ Unlock(r)

PruneStep(r) == PruneFind(r) \/ PruneDelete(r)

OdooStep ==
    \/ \E m \in Members : OdooCreate(m)
    \/ \E i \in DOMAIN source : OdooUpdate(i) \/ OdooWithdraw(i)
    \/ OdooTiers

Next ==
    \/ \E r \in Runs : Start(r) \/ RunStep(r) \/ PruneStep(r) \/ DeleteOne(r)
    \/ \E r \in Runs : Throw(r) \/ PublishUnacknowledged(r)
    \/ Crash \/ LockTimeout
    \/ OdooStep
    \/ BootStep
    \/ Ask \/ ListStep

Spec == Init /\ [][Next]_vars

-----------------------------------------------------------------------------
(* Properties. *)

(* No fault takes a prune or a publication out of its run's hands. *)
QuietEnv == Env \cap {"ackLoss", "slowPrune"} = {}

(* Two runs are never inside syncOnce's critical section together, over    *)
(* crashes, failed releases and expiries of the lock.                      *)
MemberRunsExclusive == \A x, y \in Runs : Live(x) /\ Live(y) => x = y

(* What readers see of the members changes only when a newer snapshot, as  *)
(* large as Odoo said its list is, replaces the active one, whatever runs  *)
(* and bootstraps leave half done: so long as each prune is over when the  *)
(* next run starts and no publication's answer is lost.                    *)
Publication == INSTANCE CatalogPublication
    WITH version <- state.active,
         catalog <- IF state.active = None THEN {} ELSE staged[state.active],
         size    <- state.total,
         SizeOf  <- Cardinality

MembersPublishedWhole == Publication!Spec

(* The tiers replaced outside any snapshot are never older than those that *)
(* came with the published members, although the run replaces them before  *)
(* it knows whether its members can be published; and they are missing     *)
(* only while a later run that has copied its members replaces them, or    *)
(* after one failed there.  (A bootstrap can put older ones back: what it  *)
(* writes, it fetched some time before.)                                   *)
TiersFitMembers ==
    boot.step = "none" /\ state.active # None =>
        /\ \A t \in aux, u \in first[state.active] : t >= u
        /\ aux = {} =>
              \E r \in Runs : /\ r > state.active
                              /\ first[r] # {} /\ copied[r] = total[r]

(* A reader can count on the active snapshot and the one it replaced: any  *)
(* run in between published nothing, but it may have died and left         *)
(* documents that the prune takes for the previous snapshot's.             *)
Readable(s) ==
    /\ s # None
    /\ \/ s = state.active
       \/ s < state.active /\ \A x \in s + 1 .. state.active - 1 : pc[x] = "done"
                                                 /\ staged[x] = {}

(* A listing that ends while its snapshot can be counted on holds each     *)
(* member of that snapshot once and in order, and was told their number -  *)
(* unless a run published between the read that chose its first page and   *)
(* the one that labelled it: then the client goes on in another snapshot.  *)
MemberListingWhole ==
    listing.step = "done" /\ Readable(listing.pin) /\ ~listing.loose =>
        /\ listing.got = Sorted(staged[listing.pin])
        /\ listing.total = Cardinality(staged[listing.pin])

(* Where prunes are slow and answers are lost, an active snapshot can lose *)
(* documents under a client that pages through it.  What that costs the    *)
(* client is members it does not get: it gets none twice or out of order.  *)
MemberListingNoRepeats ==
    listing.step = "done" /\ listing.pin # None /\ ~listing.loose =>
        \A i, j \in DOMAIN listing.got : i < j =>
            /\ Before(listing.got[i], listing.got[j])
            /\ listing.got[i].member # listing.got[j].member

(* Nothing earlier runs left behind - documents, a status, cleared tiers,  *)
(* a lock - stays in the way: a run that Odoo and the faults leave alone,  *)
(* which the last one is, publishes exactly Odoo's members and tiers.      *)
QuietRunPublishes ==
    pc[MaxRuns] = "done" =>
        /\ state.active = MaxRuns
        /\ staged[MaxRuns] = Range(source)
        /\ boot.step = "none" => aux = tiers

=============================================================================
