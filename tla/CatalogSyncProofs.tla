------------------------- MODULE CatalogSyncProofs -------------------------
(***************************************************************************)
(* Theorems about CatalogSync, for every set of products and workers, every  *)
(* page size and every bound on runs and changes.                            *)
(***************************************************************************)
EXTENDS CatalogSync, ListLemmas

-----------------------------------------------------------------------------
(* Lemmas about the operators. *)

(* A page Odoo answers is a list of rows. *)
LEMMA OdooPageType ==
    ASSUME source \in Seq(Item), NEW offset \in Nat
    PROVE  OdooPage(offset) \in Seq(Item)
<1> DEFINE end == offset + PageLimit
           last == IF end < Len(source) THEN end ELSE Len(source)
<1>1. PageLimit \in Nat /\ Len(source) \in Nat
  BY BoundsAssumption
<1>2. last \in Nat /\ last <= Len(source)
  BY <1>1
<1>3. offset + 1 \in Nat /\ 1 <= offset + 1
  OBVIOUS
<1>4. SubSeq(source, offset + 1, last) \in Seq(Item)
  <2> HIDE DEF last
  <2> QED BY <1>2, <1>3, SubSeqProperties
<1> QED
  BY <1>4 DEF OdooPage

(* There are finitely many rows: Odoo has finitely many products, and each *)
(* has been written at one of finitely many times.                         *)
LEMMA ItemsFinite == IsFiniteSet(Item)
<1> DEFINE S == Products \X (0..MaxChanges)
           f == [x \in S |-> [product |-> x[1], written |-> x[2]]]
<1>1. IsFiniteSet(S)
  <2>1. IsFiniteSet(0..MaxChanges)
    BY BoundsAssumption, FS_Interval
  <2> QED BY <2>1, ProductsAssumption, FS_Product
<1>2. f \in Surjection(S, Item)
  <2>1. f \in [S -> Item]
    BY DEF Item
  <2>2. ASSUME NEW row \in Item PROVE \E x \in S : f[x] = row
    <3>1. <<row.product, row.written>> \in S
      BY DEF Item
    <3>2. f[<<row.product, row.written>>] = row
      BY <3>1 DEF Item
    <3> QED BY <3>1, <3>2
  <2> QED BY <2>1, <2>2 DEF Surjection
<1> HIDE DEF S, f
<1> QED BY <1>1, <1>2, FS_Surjection

(* Staging rows in a set of documents gives a set of documents. *)
LEMMA UpsertType ==
    ASSUME NEW docs \in SUBSET Item, NEW rows \in SUBSET Item
    PROVE  Upsert(docs, rows) \in SUBSET Item
  BY DEF Upsert

-----------------------------------------------------------------------------
(* Every variable keeps its type: in particular every run is at a step the *)
(* worker has, and documents, locks and sync states name runs that exist.  *)

LEMMA InitType == Init => TypeOK
<1> SUFFICES ASSUME Init PROVE TypeOK
  OBVIOUS
<1>1. NoState \in SyncState
  BY DEF NoState, SyncState, RunOrNone
<1>2. legacy \in SUBSET Item /\ 0 \in 0..MaxChanges
  BY BoundsAssumption DEF Init
<1> QED
  BY <1>1, <1>2, SourceAssumption DEF Init, TypeOK, RunOrNone, PC

LEMMA RunStepType ==
    ASSUME TypeOK, NEW r \in Runs, RunStep(r)
    PROVE  TypeOK'
<1> USE DEF TypeOK, odooVars, dbVars, runVars, pruneVars
<1>1. CASE ReadState(r)
  BY <1>1 DEF ReadState, Goto, PC, Critical
<1>2. CASE Begin(r)
  <2>1. state' \in SyncState
    BY <1>2 DEF Begin, SyncState, RunOrNone
  <2>2. staged' \in [Runs -> SUBSET Item]
    BY <1>2 DEF Begin
  <2> QED
    BY <1>2, <2>1, <2>2 DEF Begin, Goto, PC, Critical, Staging
<1>3. CASE CopyPage(r)
  <2> DEFINE rows == seen[r] \o NextPage(r)
  <2>1. seen[r] \in Seq(Item) /\ Len(seen[r]) \in Nat
    OBVIOUS
  <2>2. NextPage(r) \in Seq(Item)
    BY <2>1, OdooPageType DEF NextPage
  <2>3. rows \in Seq(Item)
    BY <2>1, <2>2, ConcatProperties
  <2>4. Range(NextPage(r)) \in SUBSET Item
    BY <2>2, RangeOfSeq
  <2>5. staged' \in [Runs -> SUBSET Item]
    <3>1. Upsert(staged[r], Range(NextPage(r))) \in SUBSET Item
      BY <2>4, UpsertType
    <3> QED BY <1>3, <3>1 DEF CopyPage, StagePage
  <2>6. SourceTotal(r) \in Nat
    BY DEF SourceTotal
  <2>7. AfterPage(r, rows, SourceTotal(r)) \in PC
    BY DEF AfterPage, PC, Critical, Staging
  <2>8. pc' \in [Runs -> PC]
    BY <1>3, <2>7 DEF CopyPage, Goto
  <2>9. seen' \in [Runs -> Seq(Item)] /\ total' \in [Runs -> Nat]
    BY <1>3, <2>3, <2>6 DEF CopyPage
  <2> QED
    BY <1>3, <2>5, <2>8, <2>9 DEF CopyPage
<1>4. CASE TotalMoved(r)
  BY <1>4 DEF TotalMoved, Goto, PC, Critical, Failing
<1>5. CASE DropDocs(r)
  BY <1>5 DEF DropDocs, Goto, PC, Critical, Staging
<1>6. CASE DropMark(r)
  <2>1. state' \in SyncState
    BY <1>6 DEF DropMark, SyncState
  <2> QED
    BY <1>6, <2>1 DEF DropMark, Goto, PC, Critical, Unlocking
<1>7. CASE Count(r)
  BY <1>7 DEF Count, Goto, PC, Critical, Staging, Failing
<1>8. CASE Publish(r)
  <2>1. Published(r) \in SyncState
    BY DEF Published, SyncState, RunOrNone
  <2> QED
    BY <1>8, <2>1 DEF Publish, Goto, PC, Critical, Unlocking
<1>9. CASE FailMark(r)
  <2>1. state' \in SyncState
    BY <1>9 DEF FailMark, SyncState, RunOrNone
  <2> QED
    BY <1>9, <2>1 DEF FailMark, Goto, PC, Critical, Failing
<1>10. CASE FailDocs(r)
  BY <1>10 DEF FailDocs, Goto, PC, Critical, Unlocking
<1>11. CASE UnlockGet(r)
  BY <1>11 DEF UnlockGet, Goto, PC, Critical, Unlocking
<1>12. CASE UnlockDel(r)
  BY <1>12 DEF UnlockDel, Goto, PC, RunOrNone
<1> QED
  BY <1>1, <1>2, <1>3, <1>4, <1>5, <1>6, <1>7, <1>8, <1>9, <1>10, <1>11, <1>12
  DEF RunStep

LEMMA OdooStepType ==
    ASSUME TypeOK, OdooStep
    PROVE  TypeOK'
<1> USE DEF TypeOK
<1>1. OdooChange
  BY DEF OdooStep, OdooCreate, OdooUpdate, OdooWithdraw
<1>2. changes' \in 0..MaxChanges /\ changes + 1 \in 0..MaxChanges
  BY <1>1, BoundsAssumption DEF OdooChange
<1>3. source' \in Seq(Item)
  <2>1. CASE \E p \in Products : OdooCreate(p)
    <3>1. PICK p \in Products : OdooCreate(p)
      BY <2>1
    <3>2. [product |-> p, written |-> changes + 1] \in Item
      BY <1>2 DEF Item
    <3> QED
      BY <3>1, <3>2, AppendProperties DEF OdooCreate
  <2>2. CASE \E i \in DOMAIN source : OdooUpdate(i)
    <3>1. PICK i \in DOMAIN source : OdooUpdate(i)
      BY <2>2
    <3>2. RemoveAt(source, i) \in Seq(Item)
      BY RemoveAtType
    <3>3. source[i] \in Item
      OBVIOUS
    <3>4. [source[i] EXCEPT !.written = changes + 1] \in Item
      BY <1>2, <3>3 DEF Item
    <3> QED
      BY <3>1, <3>2, <3>4, AppendProperties DEF OdooUpdate
  <2>3. CASE \E i \in DOMAIN source : OdooWithdraw(i)
    BY <2>3, RemoveAtType DEF OdooWithdraw
  <2> QED
    BY <2>1, <2>2, <2>3 DEF OdooStep
<1> QED
  BY <1>1, <1>2, <1>3 DEF OdooChange, dbVars, runVars, pruneVars

LEMMA BootstrapType ==
    ASSUME TypeOK, Bootstrap
    PROVE  TypeOK'
<1> USE DEF TypeOK, odooVars, runVars, pruneVars
<1>1. ASSUME NEW offset \in 0..Len(source), BootstrapRows(offset)
      PROVE  TypeOK'
  <2>1. Range(OdooPage(offset)) \subseteq Item
    BY OdooPageType, RangeOfSeq
  <2>2. legacy' \in SUBSET Item
    BY <1>1, <2>1, UpsertType DEF BootstrapRows
  <2> QED
    BY <1>1, <2>2 DEF BootstrapRows
<1>2. ASSUME BootstrapState PROVE TypeOK'
  <2>1. Cardinality(legacy) \in Nat
    BY ItemsFinite, FS_Subset, FS_CardinalityType
  <2>2. PICK n \in 0..Cardinality(legacy) :
           state' = [state EXCEPT !.count = n, !.located = TRUE]
    BY <1>2 DEF BootstrapState
  <2>3. n \in Nat
    BY <2>1, <2>2
  <2>4. state' \in SyncState
    BY <2>2, <2>3 DEF SyncState
  <2> QED
    BY <1>2, <2>4 DEF BootstrapState
<1> QED
  BY <1>1, <1>2 DEF Bootstrap

(* A deleteMany under way takes one document and touches nothing else. *)
LEMMA DeleteOneStep ==
    ASSUME TypeOK, NEW r \in Runs, DeleteOne(r)
    PROVE  /\ UNCHANGED <<source, changes, lock, state, legacy, pc, owner, since,
                          prior, seen, total, prune, keep>>
           /\ staged' \in [Runs -> SUBSET Item]
           /\ \E x \in Runs :
                 /\ \/ x = r /\ pc[r] \in {"dropDocs", "failDocs"}
                    \/ prune[r] = "delete" /\ x \notin {r, keep[r]}
                 /\ \A y \in Runs : staged'[y] \subseteq staged[y]
                 /\ \A y \in Runs \ {x} : staged'[y] = staged[y]
<1>1. PICK x \in BeingDeleted(r) : \E document \in staged[x] :
         staged' = [staged EXCEPT ![x] = @ \ {document}]
  BY DEF DeleteOne
<1>2. /\ x \in Runs
      /\ \/ x = r /\ pc[r] \in {"dropDocs", "failDocs"}
         \/ prune[r] = "delete" /\ x \notin {r, keep[r]}
  BY DEF BeingDeleted
<1>3. UNCHANGED <<source, changes, lock, state, legacy, pc, owner, since, prior,
                  seen, total, prune, keep>>
  BY DEF DeleteOne, odooVars, runVars, pruneVars
<1> QED
  BY <1>1, <1>2, <1>3 DEF TypeOK

LEMMA NextType == TypeOK /\ [Next]_vars => TypeOK'
<1> SUFFICES ASSUME TypeOK, [Next]_vars PROVE TypeOK'
  OBVIOUS
<1>1. ASSUME NEW r \in Runs, NEW w \in Workers, Start(r, w) PROVE TypeOK'
  BY <1>1 DEF TypeOK, Start, Goto, RunOrNone, PC, Critical,
              odooVars, dbVars, pruneVars
<1>2. ASSUME NEW r \in Runs, RunStep(r) PROVE TypeOK'
  BY <1>2, RunStepType
<1>3. ASSUME NEW r \in Runs, PruneStep(r) PROVE TypeOK'
  <2>1. CASE PruneFind(r)
    <3>1. PICK k \in OthersStaged(r) \cup {None} : keep' = [keep EXCEPT ![r] = k]
      BY <2>1 DEF PruneFind
    <3>2. k \in RunOrNone
      BY DEF OthersStaged, RunOrNone
    <3> QED
      BY <2>1, <3>1, <3>2 DEF PruneFind, TypeOK, odooVars, dbVars, runVars
  <2>2. CASE PruneDelete(r)
    BY <2>2 DEF PruneDelete, TypeOK, odooVars, runVars
  <2> QED
    BY <1>3, <2>1, <2>2 DEF PruneStep
<1>4. ASSUME NEW r \in Runs, Throw(r) PROVE TypeOK'
  <2>1. AfterThrow(pc[r]) \in PC
    BY DEF AfterThrow, PC, Critical, Failing, Unlocking
  <2> QED
    BY <1>4, <2>1 DEF Throw, Goto, TypeOK, odooVars, dbVars, runVars, pruneVars
<1>5. ASSUME NEW r \in Runs, PublishUnacknowledged(r) PROVE TypeOK'
  <2>1. Published(r) \in SyncState
    BY DEF Published, SyncState, RunOrNone, TypeOK
  <2> QED
    BY <1>5, <2>1 DEF PublishUnacknowledged, Goto, PC, Critical, Failing,
                      TypeOK, odooVars, runVars, pruneVars
<1>6. ASSUME NEW w \in Workers, Crash(w) PROVE TypeOK'
  BY <1>6 DEF Crash, TypeOK, PC, odooVars, dbVars, runVars
<1>7. ASSUME LockTimeout \/ LockLost PROVE TypeOK'
  BY <1>7 DEF LockTimeout, LockLost, TypeOK, RunOrNone,
              odooVars, dbVars, runVars, pruneVars
<1>8. ASSUME OdooStep PROVE TypeOK'
  BY <1>8, OdooStepType
<1>9. ASSUME Bootstrap PROVE TypeOK'
  BY <1>9, BootstrapType
<1>10. ASSUME NEW r \in Runs, DeleteOne(r) PROVE TypeOK'
  BY <1>10, DeleteOneStep DEF TypeOK
<1>11. CASE UNCHANGED vars
  BY <1>11 DEF vars, TypeOK
<1> QED
  BY <1>1, <1>2, <1>3, <1>4, <1>5, <1>6, <1>7, <1>8, <1>9, <1>10, <1>11 DEF Next

(* In every environment, crashes and lost locks included, the documents of *)
(* MongoDB, the lock in Redis and the variables of syncConfig's runs keep  *)
(* their types.                                                            *)
THEOREM TypeCorrect == Spec => []TypeOK
  BY InitType, NextType, PTL DEF Spec

-----------------------------------------------------------------------------
(* The inductive invariant.  In a quiet environment it is preserved by     *)
(* every step; OneRunAtATime and ActiveSnapshotFull are parts of it.       *)

LEMMA InitSync == Init => SyncInv
  BY DEF Init, SyncInv, LockCoversRun, StartedInOrder, UnpublishedNotActive,
         CountHolds, PruneAlone, OneRunAtATime, ActiveSnapshotFull, Live,
         Critical, Staging, Failing, Unlocking, NoState, None, Runs

(* The lock names one run at most. *)
LEMMA LockExcludes == LockCoversRun => OneRunAtATime
  BY DEF LockCoversRun, OneRunAtATime

(* What a step leaves of the active snapshot. *)
KeepsActive ==
    /\ state'.active = state.active
    /\ state'.total = state.total
    /\ state.active # None => staged'[state.active] = staged[state.active]

LEMMA StartSync ==
    ASSUME QuietEnv, TypeOK, SyncInv,
           NEW r \in Runs, NEW w \in Workers, Start(r, w)
    PROVE  SyncInv' /\ KeepsActive
<1> USE DEF SyncInv, TypeOK, Live
<1>1. pc' = [pc EXCEPT ![r] = "read"] /\ lock' = r /\ pc[r] = "idle"
  BY DEF Start, Goto, IsNext
<1>2. UNCHANGED <<staged, state, total, prune>>
  BY DEF Start, dbVars, pruneVars
<1>3. \A x \in Runs : ~Live(x)
  BY DEF Start, LockGranted, LockCoversRun, None, Runs
<1>4. \A x \in Runs : prune[x] = "none"
  BY DEF Start, QuietEnv
<1>5. LockCoversRun'
  BY <1>1, <1>3 DEF LockCoversRun
<1>6. StartedInOrder'
  <2>1. \A x \in Runs : x < r => pc[x] # "idle"
    BY DEF Start, IsNext
  <2>2. \A x, y \in Runs : x \in Int /\ y \in Int /\ r \in Int
    BY DEF Runs
  <2> QED
    BY <1>1, <1>3, <2>1, <2>2 DEF StartedInOrder
<1>7. UnpublishedNotActive'
  BY <1>1, <1>2 DEF UnpublishedNotActive
<1>8. CountHolds'
  BY <1>1, <1>2 DEF CountHolds
<1>9. PruneAlone'
  BY <1>2, <1>4 DEF PruneAlone
<1>10. ActiveSnapshotFull'
  BY <1>2 DEF ActiveSnapshotFull
<1> QED
  BY <1>2, <1>5, <1>6, <1>7, <1>8, <1>9, <1>10
  DEF LockCoversRun, OneRunAtATime, KeepsActive

(* A live run is alone: no other run is live, no prune but its own is      *)
(* pending, and until it ends its snapshot is not the active one.          *)
LEMMA RunAlone ==
    ASSUME TypeOK, SyncInv, NEW r \in Runs, Live(r)
    PROVE  /\ lock = r
           /\ \A x \in Runs \ {r} : ~Live(x)
           /\ \A x \in Runs \ {r} : prune[x] = "none"
           /\ pc[r] \notin Unlocking => state.active # r /\ prune[r] = "none"
  BY DEF SyncInv, LockCoversRun, PruneAlone, OneRunAtATime,
         UnpublishedNotActive, Live, Critical

(* A step of a run that leaves the run where it was or further on, keeps   *)
(* the lock, and leaves documents of other runs alone.                     *)
LEMMA RunOrderKept ==
    ASSUME TypeOK, SyncInv, NEW r \in Runs, Live(r),
           NEW step \in PC \ {"idle"}, Goto(r, step)
    PROVE  StartedInOrder'
<1>1. \A x, y \in Runs : x \in Int /\ y \in Int /\ r \in Int
  BY DEF Runs
<1>2. pc' = [pc EXCEPT ![r] = step] /\ pc \in [Runs -> PC]
  BY DEF Goto, TypeOK
<1>3. pc[r] # "idle" /\ StartedInOrder
  BY DEF Live, Critical, Staging, Failing, Unlocking, SyncInv
<1>4. ASSUME NEW x \in Runs, NEW y \in Runs, x < y, pc'[y] # "idle"
      PROVE  pc'[x] # "idle" /\ pc'[x] \notin Critical
  <2>1. pc[y] # "idle"
    BY <1>2, <1>3, <1>4
  <2>2. pc[x] # "idle" /\ ~Live(x)
    BY <1>3, <1>4, <2>1 DEF StartedInOrder
  <2>3. x # r
    BY <2>2
  <2> QED
    BY <1>2, <2>2, <2>3 DEF Live
<1> QED
  BY <1>4 DEF StartedInOrder, Live

(* The steps of a run other than publishing and unlocking: they move the   *)
(* run, touch no documents but its own, and neither the lock, the prunes,  *)
(* nor which snapshot is active.                                           *)
LEMMA OwnStepSync ==
    ASSUME TypeOK, SyncInv, NEW r \in Runs, Live(r),
           NEW step \in PC \ {"idle"}, Goto(r, step),
           lock' = lock, prune' = prune,
           state'.active = state.active, state'.total = state.total,
           \A x \in Runs \ {r} : staged'[x] = staged[x] /\ total'[x] = total[x],
           pc[r] \in Unlocking =>
               staged'[r] = staged[r] /\ step \in Unlocking \cup {"done"},
           step = "publish" => Cardinality(staged'[r]) = total'[r]
    PROVE  SyncInv' /\ KeepsActive
<1> USE DEF TypeOK, Live
<1>1. pc' = [pc EXCEPT ![r] = step]
  BY DEF Goto
<1>2. /\ lock = r
      /\ \A x \in Runs \ {r} : ~Live(x)
      /\ \A x \in Runs \ {r} : prune[x] = "none"
      /\ pc[r] \notin Unlocking => state.active # r /\ prune[r] = "none"
  BY RunAlone
<1>3. LockCoversRun'
  BY <1>1, <1>2 DEF LockCoversRun
<1>4. StartedInOrder'
  BY RunOrderKept
<1>5. UnpublishedNotActive'
  <2>1. step \in {"read", "begin"} \cup Staging \cup Failing => state.active # r
    BY <1>2 DEF Staging, Failing, Unlocking
  <2> QED
    BY <1>1, <2>1 DEF SyncInv, UnpublishedNotActive
<1>6. CountHolds'
  <2>1. \A x \in Runs \ {r} : pc[x] # "publish"
    BY <1>2 DEF Critical, Staging
  <2> QED
    BY <1>1, <2>1 DEF CountHolds
<1>7. PruneAlone'
  BY <1>1, <1>2 DEF SyncInv, PruneAlone
<1>8. KeepsActive
  BY <1>2 DEF KeepsActive, SyncState, RunOrNone
<1>9. ActiveSnapshotFull'
  BY <1>8 DEF KeepsActive, SyncInv, ActiveSnapshotFull
<1> QED
  BY <1>3, <1>4, <1>5, <1>6, <1>7, <1>8, <1>9 DEF SyncInv, LockCoversRun, OneRunAtATime

LEMMA RunStepSync ==
    ASSUME TypeOK, SyncInv, NEW r \in Runs, RunStep(r)
    PROVE  SyncInv' /\ (Publish(r) \/ KeepsActive)
<1> USE DEF TypeOK, Live, Critical, Staging, Failing, Unlocking,
            dbVars, runVars, pruneVars
<1>1. CASE ReadState(r)
  <2>1. Live(r) /\ "begin" \in PC \ {"idle"}
    BY <1>1 DEF ReadState, PC
  <2> QED
    BY <1>1, <2>1, OwnStepSync DEF ReadState
<1>2. CASE Begin(r)
  <2>1. Live(r) /\ "page" \in PC \ {"idle"}
    BY <1>2 DEF Begin, PC
  <2>2. state'.active = state.active /\ state'.total = state.total
    BY <1>2 DEF Begin, SyncState
  <2> QED
    BY <1>2, <2>1, <2>2, OwnStepSync DEF Begin
<1>3. CASE CopyPage(r)
  <2> DEFINE rows == seen[r] \o NextPage(r)
             step == AfterPage(r, rows, SourceTotal(r))
  <2>1. Live(r) /\ step \in PC \ {"idle"} /\ step # "publish"
    BY <1>3 DEF CopyPage, PC, AfterPage
  <2>2. Goto(r, step) /\ pc[r] \notin Unlocking
    BY <1>3 DEF CopyPage
  <2>3. /\ lock' = lock /\ prune' = prune /\ state' = state
        /\ \A x \in Runs \ {r} : staged'[x] = staged[x] /\ total'[x] = total[x]
    BY <1>3 DEF CopyPage, StagePage
  <2> HIDE DEF step
  <2> QED
    BY <2>1, <2>2, <2>3, OwnStepSync
<1>4. CASE TotalMoved(r)
  <2>1. Live(r) /\ "failMark" \in PC \ {"idle"}
    BY <1>4 DEF TotalMoved, PC
  <2> QED
    BY <1>4, <2>1, OwnStepSync DEF TotalMoved
<1>5. CASE DropDocs(r)
  <2>1. Live(r) /\ "dropMark" \in PC \ {"idle"}
    BY <1>5 DEF DropDocs, PC
  <2> QED
    BY <1>5, <2>1, OwnStepSync DEF DropDocs
<1>6. CASE DropMark(r)
  <2>1. Live(r) /\ "unlockGet" \in PC \ {"idle"}
    BY <1>6 DEF DropMark, PC
  <2>2. state'.active = state.active /\ state'.total = state.total
    BY <1>6 DEF DropMark, SyncState
  <2> QED
    BY <1>6, <2>1, <2>2, OwnStepSync DEF DropMark
<1>7. CASE Count(r)
  <2> DEFINE step == IF Validated(r) THEN "publish" ELSE "failMark"
  <2>1. Live(r) /\ step \in PC \ {"idle"} /\ Goto(r, step)
    BY <1>7 DEF Count, PC
  <2>2. step = "publish" => Cardinality(staged'[r]) = total'[r]
    BY <1>7 DEF Count, Validated
  <2> HIDE DEF step
  <2> QED
    BY <1>7, <2>1, <2>2, OwnStepSync DEF Count
<1>8. CASE Publish(r)
  <2>1. /\ pc' = [pc EXCEPT ![r] = "unlockGet"] /\ pc[r] = "publish"
        /\ prune' = [prune EXCEPT ![r] = "find"]
        /\ state'.active = r /\ state'.total = total[r]
        /\ UNCHANGED <<lock, staged, total>>
    BY <1>8 DEF Publish, Goto, Published
  <2>2. /\ lock = r
        /\ \A x \in Runs \ {r} : ~Live(x)
        /\ \A x \in Runs \ {r} : prune[x] = "none"
    BY <2>1, RunAlone
  <2>3. LockCoversRun' /\ OneRunAtATime'
    BY <2>1, <2>2 DEF LockCoversRun, OneRunAtATime
  <2>4. StartedInOrder'
    BY <1>8, <2>1, RunOrderKept DEF Publish, PC
  <2>5. UnpublishedNotActive'
    BY <2>1 DEF UnpublishedNotActive
  <2>6. CountHolds' /\ ActiveSnapshotFull'
    BY <2>1, <2>2 DEF SyncInv, CountHolds, ActiveSnapshotFull
  <2>7. PruneAlone'
    BY <2>1, <2>2 DEF PruneAlone
  <2> QED
    BY <1>8, <2>3, <2>4, <2>5, <2>6, <2>7 DEF SyncInv
<1>9. CASE FailMark(r)
  <2>1. Live(r) /\ "failDocs" \in PC \ {"idle"}
    BY <1>9 DEF FailMark, PC
  <2>2. state'.active = state.active /\ state'.total = state.total
    BY <1>9 DEF FailMark, SyncState
  <2> QED
    BY <1>9, <2>1, <2>2, OwnStepSync DEF FailMark
<1>10. CASE FailDocs(r)
  <2>1. Live(r) /\ "unlockGet" \in PC \ {"idle"}
    BY <1>10 DEF FailDocs, PC
  <2> QED
    BY <1>10, <2>1, OwnStepSync DEF FailDocs
<1>11. CASE UnlockGet(r)
  <2> DEFINE step == IF lock # None /\ owner[lock] = owner[r] THEN "unlockDel"
                                                        ELSE "done"
  <2>1. Live(r) /\ step \in PC \ {"idle"} /\ Goto(r, step)
    BY <1>11 DEF UnlockGet, PC
  <2>2. step \in Unlocking \cup {"done"}
    OBVIOUS
  <2> HIDE DEF step
  <2> QED
    BY <1>11, <2>1, <2>2, OwnStepSync DEF UnlockGet
<1>12. CASE UnlockDel(r)
  <2>1. /\ pc' = [pc EXCEPT ![r] = "done"] /\ pc[r] = "unlockDel"
        /\ UNCHANGED <<state, staged, total, prune>>
    BY <1>12 DEF UnlockDel, Goto
  <2>2. \A x \in Runs \ {r} : ~Live(x)
    BY <2>1, RunAlone
  <2>3. LockCoversRun' /\ OneRunAtATime'
    BY <2>1, <2>2 DEF LockCoversRun, OneRunAtATime
  <2>4. StartedInOrder'
    BY <1>12, <2>1, RunOrderKept DEF UnlockDel, PC
  <2>5. UnpublishedNotActive' /\ CountHolds' /\ ActiveSnapshotFull'
    BY <2>1 DEF SyncInv, UnpublishedNotActive, CountHolds, ActiveSnapshotFull
  <2>6. PruneAlone'
    BY <2>1 DEF SyncInv, PruneAlone
  <2> QED
    BY <2>1, <2>3, <2>4, <2>5, <2>6 DEF SyncInv, KeepsActive
<1> QED
  BY <1>1, <1>2, <1>3, <1>4, <1>5, <1>6, <1>7, <1>8, <1>9, <1>10, <1>11, <1>12
  DEF RunStep

LEMMA ThrowSync ==
    ASSUME TypeOK, SyncInv, NEW r \in Runs, Throw(r)
    PROVE  SyncInv' /\ KeepsActive
<1> DEFINE step == AfterThrow(pc[r])
<1>1. step \in PC \ {"idle"} /\ step # "publish"
  BY DEF AfterThrow, PC, Critical, Failing, Unlocking
<1>2. pc[r] \in Unlocking => step = "done"
  BY DEF AfterThrow, Failing, Unlocking
<1>3. Live(r) /\ Goto(r, step)
  BY DEF Throw
<1> HIDE DEF step
<1> QED
  BY <1>1, <1>2, <1>3, OwnStepSync
  DEF Throw, dbVars, runVars, pruneVars, TypeOK

LEMMA PruneStepSync ==
    ASSUME TypeOK, SyncInv, NEW r \in Runs, PruneStep(r)
    PROVE  SyncInv' /\ KeepsActive
<1> USE DEF TypeOK, Live, dbVars, runVars
<1>1. prune[r] # "none" /\ \A x \in Runs \ {r} : prune'[x] = prune[x]
  BY DEF PruneStep, PruneFind, PruneDelete
<1>2. UNCHANGED <<lock, pc, state, total>> /\ staged'[r] = staged[r]
  BY DEF PruneStep, PruneFind, PruneDelete
<1>3. state.active = r /\ \A x \in Runs : Live(x) => x = r
  BY <1>1 DEF SyncInv, PruneAlone
<1>4. LockCoversRun' /\ StartedInOrder' /\ UnpublishedNotActive' /\ OneRunAtATime'
  BY <1>2 DEF SyncInv, LockCoversRun, StartedInOrder, UnpublishedNotActive,
              OneRunAtATime
<1>5. CountHolds'
  BY <1>2, <1>3 DEF SyncInv, CountHolds, UnpublishedNotActive, Critical, Staging
<1>6. PruneAlone'
  BY <1>1, <1>2, <1>3 DEF SyncInv, PruneAlone
<1>7. ActiveSnapshotFull' /\ KeepsActive
  BY <1>2, <1>3 DEF SyncInv, ActiveSnapshotFull, KeepsActive
<1> QED
  BY <1>4, <1>5, <1>6, <1>7 DEF SyncInv

LEMMA DeleteOneSync ==
    ASSUME TypeOK, SyncInv, NEW r \in Runs, DeleteOne(r)
    PROVE  SyncInv' /\ KeepsActive
<1> USE DEF TypeOK, Live
<1>1. UNCHANGED <<lock, pc, state, total, prune>>
  BY DeleteOneStep
<1>2. PICK x \in Runs :
         /\ \/ x = r /\ pc[r] \in {"dropDocs", "failDocs"}
            \/ prune[r] = "delete" /\ x \notin {r, keep[r]}
         /\ \A y \in Runs \ {x} : staged'[y] = staged[y]
  BY DeleteOneStep
<1>3. state.active # x /\ pc[x] # "publish"
  BY <1>2 DEF SyncInv, UnpublishedNotActive, PruneAlone, Critical, Staging, Failing
<1>4. /\ LockCoversRun' /\ StartedInOrder' /\ UnpublishedNotActive'
      /\ OneRunAtATime' /\ PruneAlone'
  BY <1>1 DEF SyncInv, LockCoversRun, StartedInOrder, UnpublishedNotActive,
              OneRunAtATime, PruneAlone
<1>5. CountHolds'
  BY <1>1, <1>2, <1>3 DEF SyncInv, CountHolds
<1>6. ActiveSnapshotFull' /\ KeepsActive
  BY <1>1, <1>2, <1>3
  DEF SyncInv, ActiveSnapshotFull, KeepsActive, SyncState, RunOrNone
<1> QED
  BY <1>4, <1>5, <1>6 DEF SyncInv

LEMMA CrashSync ==
    ASSUME TypeOK, SyncInv, NEW w \in Workers, Crash(w)
    PROVE  SyncInv' /\ KeepsActive
<1> USE DEF TypeOK
<1>1. UNCHANGED <<lock, staged, state, total>>
  BY DEF Crash, dbVars, runVars
<1>2. /\ \A x \in Runs : /\ pc'[x] \in {pc[x], "dead"}
                         /\ pc'[x] = "dead" => pc[x] # "idle"
      /\ \A x \in Runs : prune'[x] # "none" => prune[x] # "none"
  BY DEF Crash, Live, Critical, Staging, Failing, Unlocking
<1>3. "dead" \notin Critical /\ "dead" \notin Staging /\ "dead" \notin Failing
  BY DEF Critical, Staging, Failing, Unlocking
<1>4. \A x \in Runs : Live(x)' => Live(x)
  BY <1>2, <1>3 DEF Live
<1>5. LockCoversRun' /\ OneRunAtATime'
  BY <1>1, <1>4 DEF SyncInv, LockCoversRun, OneRunAtATime
<1>6. StartedInOrder'
  BY <1>2, <1>4 DEF SyncInv, StartedInOrder
<1>7. UnpublishedNotActive' /\ CountHolds' /\ ActiveSnapshotFull'
  BY <1>1, <1>2, <1>3
  DEF SyncInv, UnpublishedNotActive, CountHolds, ActiveSnapshotFull
<1>8. PruneAlone'
  <2>1. PruneAlone
    BY DEF SyncInv
  <2>2. ASSUME NEW x \in Runs, prune'[x] # "none"
        PROVE  state'.active = x /\ \A y \in Runs : Live(y)' => y = x
    <3>1. prune[x] # "none"
      BY <1>2, <2>2
    <3> QED
      BY <1>1, <1>4, <2>1, <3>1 DEF PruneAlone
  <2> QED
    BY <2>2 DEF PruneAlone
<1> QED
  BY <1>1, <1>5, <1>6, <1>7, <1>8 DEF SyncInv, KeepsActive

(* A lock that outlives its run can be given up; Odoo and the clients of   *)
(* /catalog/bootstrap never reach the parts of the state SyncInv is about. *)
LEMMA SurroundingsSync ==
    ASSUME QuietEnv, TypeOK, SyncInv,
           \/ LockTimeout
           \/ LockLost
           \/ OdooStep
           \/ Bootstrap
           \/ UNCHANGED vars
    PROVE  SyncInv' /\ KeepsActive
<1> USE DEF TypeOK
<1>1. /\ UNCHANGED <<staged, pc, total, prune>>
      /\ state'.active = state.active /\ state'.total = state.total
  BY DEF LockTimeout, LockLost, OdooStep, OdooCreate, OdooUpdate, OdooWithdraw,
         OdooChange, Bootstrap, BootstrapRows, BootstrapState, SyncState, vars, dbVars, runVars, pruneVars
<1>2. lock' = lock \/ \A r \in Runs : ~Live(r)
  BY DEF LockTimeout, LockLost, OdooStep, OdooCreate, OdooUpdate, OdooWithdraw,
         OdooChange, Bootstrap, BootstrapRows, BootstrapState, vars, QuietEnv, SyncInv, LockCoversRun
<1>3. LockCoversRun'
  BY <1>1, <1>2 DEF SyncInv, LockCoversRun, Live
<1> QED
  BY <1>1, <1>3
  DEF SyncInv, StartedInOrder, UnpublishedNotActive, CountHolds, PruneAlone,
      OneRunAtATime, ActiveSnapshotFull, Live, KeepsActive

LEMMA NextSync ==
    ASSUME QuietEnv, TypeOK, SyncInv, [Next]_vars
    PROVE  SyncInv' /\ (KeepsActive \/ \E r \in Runs : Publish(r))
<1>1. ASSUME NEW r \in Runs, PublishUnacknowledged(r) PROVE FALSE
  BY <1>1 DEF PublishUnacknowledged, QuietEnv
<1> QED
  BY <1>1, StartSync, RunStepSync, PruneStepSync, DeleteOneSync, ThrowSync, CrashSync,
     SurroundingsSync DEF Next

(* As long as no lock is lost under a live run, no publication goes        *)
(* unacknowledged and prunes end before the next run starts, SyncInv holds *)
(* - whatever Odoo does, and whenever workers crash or calls fail.         *)
THEOREM SyncInvariant == QuietEnv => (Spec => []SyncInv)
<1>1. ASSUME QuietEnv PROVE Spec => []SyncInv
  <2>1. TypeOK /\ SyncInv /\ [Next]_vars => SyncInv'
    BY <1>1, NextSync
  <2> QED
    BY <2>1, InitSync, TypeCorrect, PTL DEF Spec
<1> QED
  BY <1>1

(* Then the lock keeps runs apart: two are never in syncConfig together. *)
THEOREM RunsExclusive == QuietEnv => (Spec => []OneRunAtATime)
<1>1. SyncInv => OneRunAtATime
  BY DEF SyncInv
<1> QED
  BY <1>1, SyncInvariant, PTL

(* And the active snapshot always has all the documents it was validated   *)
(* with: no failed run, discarded run, prune or later run takes any.       *)
THEOREM ActiveFull == QuietEnv => (Spec => []ActiveSnapshotFull)
<1>1. SyncInv => ActiveSnapshotFull
  BY DEF SyncInv
<1> QED
  BY <1>1, SyncInvariant, PTL

-----------------------------------------------------------------------------
(* Even when locks are lost and prunes linger, a run's catch block and the *)
(* discarding of an unchanged snapshot never work on the active snapshot:  *)
(* a run has left the try block's calls behind once its snapshot is        *)
(* active, for good.                                                       *)

LEMMA NextUnpublished ==
    ASSUME "ackLoss" \notin Env, TypeOK, UnpublishedNotActive, [Next]_vars
    PROVE  UnpublishedNotActive'
<1> USE DEF TypeOK
<1> DEFINE Before == {"idle", "read", "begin"} \cup Staging \cup Failing
<1>1. ASSUME NEW r \in Runs, NEW step \in PC, Goto(r, step),
             step \in Before => pc[r] \in Before,
             state'.active = state.active
      PROVE  UnpublishedNotActive'
  BY <1>1 DEF Goto, UnpublishedNotActive
<1>2. ASSUME NEW r \in Runs, RunStep(r), ~Publish(r) PROVE UnpublishedNotActive'
  <2>1. state'.active = state.active
    BY <1>2 DEF RunStep, ReadState, Begin, CopyPage, TotalMoved, DropDocs,
                DropMark, Count, FailMark, FailDocs, UnlockGet, UnlockDel,
                SyncState, dbVars
  <2>2. \E step \in PC : Goto(r, step) /\ (step \in Before => pc[r] \in Before)
    BY <1>2 DEF RunStep, ReadState, Begin, CopyPage, TotalMoved, DropDocs,
                DropMark, Count, FailMark, FailDocs, UnlockGet, UnlockDel,
                AfterPage, PC, Critical, Staging, Failing, Unlocking
  <2> QED
    BY <1>1, <2>1, <2>2
<1>3. ASSUME NEW r \in Runs, Publish(r) PROVE UnpublishedNotActive'
  <2>1. state'.active = r /\ pc' = [pc EXCEPT ![r] = "unlockGet"]
    BY <1>3 DEF Publish, Published, Goto
  <2> QED
    BY <2>1 DEF UnpublishedNotActive, Staging, Failing
<1>4. ASSUME NEW r \in Runs, NEW w \in Workers, Start(r, w)
      PROVE  UnpublishedNotActive'
  BY <1>1, <1>4 DEF Start, IsNext, PC, Critical, dbVars
<1>5. ASSUME NEW r \in Runs, Throw(r) PROVE UnpublishedNotActive'
  <2> DEFINE step == AfterThrow(pc[r])
  <2>1. step \in PC /\ (step \in Before => pc[r] \in Before)
    BY <1>5 DEF Throw, Live, AfterThrow, PC, Critical, Staging, Failing, Unlocking
  <2>2. Goto(r, step) /\ state'.active = state.active
    BY <1>5 DEF Throw, dbVars
  <2> HIDE DEF step
  <2> QED
    BY <1>1, <2>1, <2>2
<1>6. ASSUME NEW w \in Workers, Crash(w) PROVE UnpublishedNotActive'
  <2>1. \A r \in Runs : pc'[r] \in {pc[r], "dead"}
    BY <1>6 DEF Crash
  <2> QED
    BY <1>6, <2>1 DEF Crash, dbVars, UnpublishedNotActive, Staging, Failing
<1>7. ASSUME UNCHANGED pc, state'.active = state.active
      PROVE  UnpublishedNotActive'
  BY <1>7 DEF UnpublishedNotActive
<1>8. ASSUME \/ \E r \in Runs : PruneStep(r)
             \/ LockTimeout
             \/ LockLost
             \/ OdooStep
             \/ Bootstrap
             \/ UNCHANGED vars
      PROVE  UNCHANGED pc /\ state'.active = state.active
  BY <1>8 DEF PruneStep, PruneFind, PruneDelete, LockTimeout, LockLost, OdooStep,
              OdooCreate, OdooUpdate, OdooWithdraw, OdooChange, Bootstrap,
              BootstrapRows, BootstrapState, SyncState, vars, dbVars
<1>9. ASSUME NEW r \in Runs, PublishUnacknowledged(r) PROVE FALSE
  BY <1>9 DEF PublishUnacknowledged
<1>10. ASSUME NEW r \in Runs, DeleteOne(r)
       PROVE  UNCHANGED pc /\ state'.active = state.active
  BY <1>10, DeleteOneStep
<1> QED
  BY <1>2, <1>3, <1>4, <1>5, <1>6, <1>7, <1>8, <1>9, <1>10 DEF Next

(* The catch block of syncConfig never deletes the documents of the active *)
(* snapshot, unless the publishing update was applied and reported as failed.*)
THEOREM CatchSparing == "ackLoss" \notin Env => (Spec => []CatchSparesActive)
<1>1. ASSUME "ackLoss" \notin Env PROVE Spec => []CatchSparesActive
  <2>1. TypeOK /\ UnpublishedNotActive /\ [Next]_vars => UnpublishedNotActive'
    BY <1>1, NextUnpublished
  <2>2. Init => UnpublishedNotActive
    BY InitSync DEF SyncInv
  <2>3. UnpublishedNotActive => CatchSparesActive
    BY DEF UnpublishedNotActive, CatchSparesActive, Staging
  <2> QED
    BY <2>1, <2>2, <2>3, TypeCorrect, PTL DEF Spec
<1> QED
  BY <1>1

-----------------------------------------------------------------------------
(* The refinement: CatalogSync publishes as CatalogPublication says. *)

(* A run that is about to publish is newer than the active snapshot. *)
LEMMA PublishIsNewer ==
    ASSUME TypeOK, SyncInv, NEW r \in Runs, pc[r] = "publish"
    PROVE  state.active < r
<1>1. state.active # r
  BY DEF SyncInv, UnpublishedNotActive, Staging
<1>2. state.active \in Runs => pc[state.active] # "idle"
  BY DEF SyncInv, UnpublishedNotActive
<1>3. Live(r)
  BY DEF Live, Critical, Staging
<1>4. state.active \in Runs /\ r < state.active => FALSE
  BY <1>2, <1>3 DEF SyncInv, StartedInOrder
<1>5. state.active \in Runs \/ state.active = 0
  BY DEF TypeOK, SyncState, RunOrNone, None
<1> QED
  BY <1>1, <1>4, <1>5, BoundsAssumption DEF Runs

LEMMA InitPublication == Init => Publication!Init
  BY DEF Init, Publication!Init, NoState, None

LEMMA NextPublication ==
    ASSUME QuietEnv, TypeOK, SyncInv, [Next]_vars
    PROVE  [Publication!Next]_(Publication!vars)
<1>1. CASE KeepsActive
  BY <1>1 DEF KeepsActive, Publication!vars
<1>2. ASSUME NEW r \in Runs, Publish(r) PROVE Publication!Publish
  <2>1. /\ pc[r] = "publish" /\ state' = Published(r) /\ staged' = staged
    BY <1>2 DEF Publish
  <2>2. state'.active = r /\ state'.total = total[r] /\ r # None
    BY <2>1 DEF Published, Runs, None
  <2>3. state'.active \in Nat /\ state'.active > state.active
    <3>1. state.active < r
      BY <2>1, PublishIsNewer
    <3>2. state.active \in Nat
      BY DEF TypeOK, SyncState, RunOrNone, Runs, None
    <3> QED
      BY <2>2, <3>1, <3>2 DEF Runs
  <2>4. staged'[r] \in SUBSET Item
    BY <2>1 DEF TypeOK
  <2>5. Cardinality(staged'[r]) = total[r]
    BY <2>1 DEF SyncInv, CountHolds
  <2> QED
    BY <2>2, <2>3, <2>4, <2>5 DEF Publication!Publish
<1> QED
  BY <1>1, <1>2, NextSync DEF Publication!Next

(* In a quiet environment readers see one complete catalog after another,  *)
(* each newer than the last, and nothing in between.                       *)
THEOREM ImplementsPublication == QuietEnv => (Spec => PublishesAtomically)
<1>1. ASSUME QuietEnv PROVE Spec => Publication!Spec
  <2>1. TypeOK /\ SyncInv /\ [Next]_vars => [Publication!Next]_(Publication!vars)
    BY <1>1, NextPublication
  <2>2. Spec => []SyncInv
    BY <1>1, SyncInvariant
  <2> QED
    BY <2>1, <2>2, InitPublication, TypeCorrect, PTL DEF Spec, Publication!Spec
<1> QED
  BY <1>1 DEF PublishesAtomically
=============================================================================
