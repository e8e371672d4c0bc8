--------------------------- MODULE MemberSyncProofs ---------------------------
(***************************************************************************)
(* Theorems about MemberSync, for every set of members, every list, every  *)
(* page size and every bound on runs and changes: runs exclude each other, *)
(* the members are published whole, the tiers fit the members beside them, *)
(* and a run that is left alone publishes exactly what Odoo has.           *)
(***************************************************************************)
EXTENDS MemberSync, ListLemmas

-----------------------------------------------------------------------------
(* Lemmas about the operators. *)

(* A page Odoo answers is a list of rows. *)
LEMMA OdooPageType ==
    ASSUME source \in Seq(Item), NEW offset \in Nat
    PROVE  OdooPage(offset) \in Seq(Item)
<1> DEFINE end == offset + PageLimit
           last == IF end < Len(source) THEN end ELSE Len(source)
<1>1. PageLimit \in Nat /\ Len(source) \in Nat
  BY MemberAssumption
<1>2. last \in Nat /\ last <= Len(source)
  BY <1>1
<1>3. offset + 1 \in Nat /\ 1 <= offset + 1
  OBVIOUS
<1>4. SubSeq(source, offset + 1, last) \in Seq(Item)
  <2> HIDE DEF last
  <2> QED BY <1>2, <1>3, SubSeqProperties
<1> QED
  BY <1>4 DEF OdooPage

(* There are finitely many documents: finitely many partners, each written *)
(* at one of finitely many times.                                          *)
LEMMA ItemsFinite == IsFiniteSet(Item)
<1> DEFINE S == Members \X (0..MaxChanges)
           f == [x \in S |-> [member |-> x[1], written |-> x[2]]]
<1>1. IsFiniteSet(S)
  <2>1. IsFiniteSet(0..MaxChanges)
    BY MemberAssumption, FS_Interval
  <2> QED BY <2>1, MemberAssumption, FS_Product
<1>2. f \in Surjection(S, Item)
  <2>1. f \in [S -> Item]
    BY DEF Item
  <2>2. ASSUME NEW row \in Item PROVE \E x \in S : f[x] = row
    <3>1. <<row.member, row.written>> \in S
      BY DEF Item
    <3>2. f[<<row.member, row.written>>] = row
      BY <3>1 DEF Item
    <3> QED BY <3>1, <3>2
  <2> QED BY <2>1, <2>2 DEF Surjection
<1> HIDE DEF S, f
<1> QED BY <1>1, <1>2, FS_Surjection

(* Staging rows in a set of documents gives a set of documents. *)
LEMMA UpsertType ==
    ASSUME NEW docs \in SUBSET Item, NEW rows \in SUBSET Item
    PROVE  Upsert(docs, rows) \in SUBSET Item
  BY DEF Upsert

(* A list of tiers bears one time. *)
LEMMA TierDocsOneTime ==
    ASSUME NEW docs \in TierDocs
    PROVE  /\ docs \in SUBSET (0..MaxChanges)
           /\ docs \subseteq Int /\ \A t, u \in docs : t = u
<1>1. 0..MaxChanges \subseteq Int
  BY MemberAssumption
<1> QED
  BY <1>1 DEF TierDocs

(* Writing a list leaves times. *)
LEMMA AuxType ==
    ASSUME aux \in SUBSET (0..MaxChanges), NEW written \in TierDocs
    PROVE  /\ AuxWith(written) \subseteq SUBSET (0..MaxChanges)
           /\ aux = {} => AuxWith(written) = {written}
<1>1. written \in SUBSET (0..MaxChanges)
  BY TierDocsOneTime
<1>2. AuxWith(written) \subseteq SUBSET (0..MaxChanges)
  BY <1>1 DEF AuxWith
<1>3. ASSUME aux = {} PROVE AuxWith(written) = {written}
  <2>1. SUBSET aux = {{}} /\ {} \cup written = written
    BY <1>3
  <2>2. AuxWith(written) = {kept \cup written : kept \in {{}}}
    BY <2>1 DEF AuxWith
  <2> QED
    BY <2>1, <2>2
<1> QED
  BY <1>2, <1>3

-----------------------------------------------------------------------------
(* The types of everything but a client's listing, which no run depends on. *)

Places == {"idle", "done", "dead"} \cup Critical

SyncTypes ==
    /\ source \in Seq(Item)
    /\ tiers \in TierDocs
    /\ changes \in 0..MaxChanges
    /\ lock \in RunOrNone
    /\ staged \in [Runs -> SUBSET Item]
    /\ aux \in SUBSET (0..MaxChanges)
    /\ state \in SyncState
    /\ legacy \in SUBSET Item
    /\ pc \in [Runs -> Places]
    /\ copied \in [Runs -> Nat]
    /\ total \in [Runs -> Nat]
    /\ first \in [Runs -> TierDocs]
    /\ prune \in [Runs -> {"none", "find", "delete"}]
    /\ keep \in [Runs -> RunOrNone]
    /\ boot \in Boot

LEMMA InitTypes == Init => SyncTypes
<1> SUFFICES ASSUME Init PROVE SyncTypes
  OBVIOUS
<1>1. NoState \in SyncState
  BY DEF NoState, SyncState, RunOrNone
<1>2. 0 \in 0..MaxChanges /\ {0} \in TierDocs /\ {} \in TierDocs
  BY MemberAssumption DEF TierDocs
<1>3. <<>> \in Seq(Item)
  OBVIOUS
<1>4. boot \in Boot
  BY <1>2, <1>3 DEF Init, Boot
<1>5. source \in Seq(Item)
  BY MemberAssumption DEF Init
<1> QED
  BY <1>1, <1>2, <1>4, <1>5 DEF Init, SyncTypes, RunOrNone, Places

LEMMA RunStepTypes ==
    ASSUME SyncTypes, NEW r \in Runs, RunStep(r)
    PROVE  SyncTypes'
<1> USE DEF SyncTypes, odooVars, dbVars, runVars, pruneVars, clientVars
<1>1. CASE Begin(r)
  <2>1. state' \in SyncState
    BY <1>1 DEF Begin, SyncState
  <2> QED
    BY <1>1, <2>1 DEF Begin, Goto, Places, Critical
<1>2. CASE CopyPage(r)
  <2> DEFINE page == OdooPage(copied[r])
  <2>1. page \in Seq(Item) /\ Len(page) \in Nat
    BY OdooPageType, LenProperties
  <2>2. Range(page) \in SUBSET Item
    BY <2>1, RangeOfSeq
  <2>3. Upsert(staged[r], Range(page)) \in SUBSET Item
    BY <2>2, UpsertType
  <2>4. staged' \in [Runs -> SUBSET Item]
    BY <1>2, <2>3 DEF CopyPage
  <2>5. SourceTotal(r) \in Nat
    BY DEF SourceTotal
  <2>6. \A n : AfterPage(r, n) \in Places
    BY DEF AfterPage, Places, Critical
  <2>7. pc' \in [Runs -> Places]
    BY <1>2, <2>6 DEF CopyPage, Goto
  <2>8. copied' \in [Runs -> Nat]
    BY <1>2, <2>1 DEF CopyPage
  <2>9. total' \in [Runs -> Nat] /\ first' \in [Runs -> TierDocs]
    BY <1>2, <2>5 DEF CopyPage
  <2> QED
    BY <1>2, <2>4, <2>7, <2>8, <2>9 DEF CopyPage
<1>3. CASE TotalMoved(r)
  BY <1>3 DEF TotalMoved, Goto, Places, Critical, Failing
<1>4. CASE ClearTiers(r)
  BY <1>4 DEF ClearTiers, Goto, Places, Critical
<1>5. CASE FillTiers(r)
  <2>1. aux' \in SUBSET (0..MaxChanges)
    BY <1>5, AuxType DEF FillTiers
  <2> QED
    BY <1>5, <2>1 DEF FillTiers, Goto, Places, Critical
<1>6. CASE Count(r)
  BY <1>6 DEF Count, Goto, Places, Critical, Failing
<1>7. CASE Publish(r)
  <2>1. state' \in SyncState
    BY <1>7 DEF Publish, Published, SyncState, RunOrNone
  <2> QED
    BY <1>7, <2>1 DEF Publish, Goto, Places, Critical
<1>8. CASE FailMark(r)
  <2>1. state' \in SyncState
    BY <1>8 DEF FailMark, SyncState
  <2> QED
    BY <1>8, <2>1 DEF FailMark, Goto, Places, Critical, Failing
<1>9. CASE FailDocs(r)
  BY <1>9 DEF FailDocs, Goto, Places, Critical
<1>10. CASE Unlock(r)
  BY <1>10 DEF Unlock, Goto, Places, RunOrNone
<1> QED
  BY <1>1, <1>2, <1>3, <1>4, <1>5, <1>6, <1>7, <1>8, <1>9, <1>10 DEF RunStep

LEMMA OdooStepTypes ==
    ASSUME SyncTypes, OdooStep
    PROVE  SyncTypes'
<1> USE DEF SyncTypes
<1>1. OdooChange
  BY DEF OdooStep, OdooCreate, OdooUpdate, OdooWithdraw, OdooTiers
<1>2. changes' \in 0..MaxChanges /\ changes + 1 \in 0..MaxChanges
  BY <1>1, MemberAssumption DEF OdooChange
<1>3. source' \in Seq(Item) /\ tiers' \in TierDocs
  <2>1. CASE \E m \in Members : OdooCreate(m)
    <3>1. PICK m \in Members : OdooCreate(m)
      BY <2>1
    <3>2. [member |-> m, written |-> changes + 1] \in Item
      BY <1>2 DEF Item
    <3> QED
      BY <3>1, <3>2, AppendProperties DEF OdooCreate
  <2>2. CASE \E i \in DOMAIN source : OdooUpdate(i)
    <3>1. PICK i \in DOMAIN source : OdooUpdate(i)
      BY <2>2
    <3>2. RemoveAt(source, i) \in Seq(Item) /\ source[i] \in Item
      BY RemoveAtType
    <3>3. [source[i] EXCEPT !.written = changes + 1] \in Item
      BY <1>2, <3>2 DEF Item
    <3> QED
      BY <3>1, <3>2, <3>3, AppendProperties DEF OdooUpdate
  <2>3. CASE \E i \in DOMAIN source : OdooWithdraw(i)
    BY <2>3, RemoveAtType DEF OdooWithdraw
  <2>4. CASE OdooTiers
    BY <1>2, <2>4 DEF OdooTiers, TierDocs
  <2> QED
    BY <2>1, <2>2, <2>3, <2>4 DEF OdooStep
<1> QED
  BY <1>1, <1>2, <1>3 DEF OdooChange, dbVars, runVars, pruneVars, clientVars

LEMMA BootStepTypes ==
    ASSUME SyncTypes, BootStep
    PROVE  SyncTypes'
<1> USE DEF SyncTypes, BootOnly, odooVars, runVars, pruneVars
<1>1. /\ boot.page \in Seq(Item) /\ boot.tiers \in TierDocs
      /\ boot.count \in Nat /\ boot.copied \in Nat /\ boot.total \in Nat
      /\ Len(boot.page) \in Nat
  BY DEF Boot
<1>2. CASE BootFetch
  <2>1. OdooPage(boot.copied) \in Seq(Item)
    BY <1>1, OdooPageType DEF SyncTypes
  <2>3. Len(source) \in Nat
    BY LenProperties
  <2>2. boot' \in Boot
    BY <1>1, <1>2, <2>1, <2>3 DEF BootFetch, Boot
  <2> QED
    BY <1>2, <2>2 DEF BootFetch
<1>3. CASE BootWrite
  <2>1. legacy' \in SUBSET Item
    <3>1. Range(boot.page) \in SUBSET Item
      BY <1>1, RangeOfSeq
    <3>2. legacy \in SUBSET Item
      OBVIOUS
    <3> QED
      BY <1>3, <3>1, <3>2, UpsertType DEF BootWrite
  <2>2. boot' \in Boot
    BY <1>1, <1>3 DEF BootWrite, Boot, TierDocs
  <2>3. aux' \in SUBSET (0..MaxChanges)
    BY <1>1, <1>3, AuxType DEF BootWrite
  <2> QED
    BY <1>1, <1>3, <2>1, <2>2, <2>3 DEF BootWrite
<1>4. CASE BootCount
  <2>1. Cardinality(legacy) \in Nat
    BY ItemsFinite, FS_Subset, FS_CardinalityType
  <2>2. boot' \in Boot
    BY <1>1, <1>4, <2>1 DEF BootCount, Boot
  <2> QED
    BY <1>4, <2>2 DEF BootCount
<1>5. CASE BootState
  <2>1. state' \in SyncState
    BY <1>1, <1>5 DEF BootState, SyncState
  <2>2. boot' \in Boot
    <3>1. boot.copied + Len(boot.page) \in Nat /\ <<>> \in Seq(Item)
      BY <1>1
    <3> QED
      BY <1>1, <1>5, <3>1 DEF BootState, Boot
  <2> QED
    BY <1>5, <2>1, <2>2 DEF BootState
<1> QED
  BY <1>2, <1>3, <1>4, <1>5 DEF BootStep

(* A client's listing changes nothing but itself. *)
LEMMA ListingsOnlyRead ==
    ASSUME Ask \/ ListStep
    PROVE  ListOnly
  BY DEF Ask, ListStep, ListState, ListFind, ListCount, ListLabel, ListAnswer

(* A deleteMany under way takes one document and touches nothing else. *)
LEMMA DeleteOneStep ==
    ASSUME SyncTypes, NEW r \in Runs, DeleteOne(r)
    PROVE  /\ UNCHANGED <<source, tiers, changes, lock, aux, state, legacy, pc,
                          copied, total, first, prune, keep, role, boot, listing>>
           /\ staged' \in [Runs -> SUBSET Item]
           /\ \E x \in Runs :
                 /\ \/ x = r /\ pc[r] = "failDocs"
                    \/ prune[r] = "delete" /\ x \notin {r, keep[r]}
                 /\ \A y \in Runs : staged'[y] \subseteq staged[y]
                 /\ \A y \in Runs \ {x} : staged'[y] = staged[y]
<1>1. PICK x \in BeingDeleted(r) : \E document \in staged[x] :
         staged' = [staged EXCEPT ![x] = @ \ {document}]
  BY DEF DeleteOne
<1>2. /\ x \in Runs
      /\ \/ x = r /\ pc[r] = "failDocs"
         \/ prune[r] = "delete" /\ x \notin {r, keep[r]}
  BY DEF BeingDeleted
<1>3. UNCHANGED <<source, tiers, changes, lock, aux, state, legacy, pc,
                  copied, total, first, prune, keep, role, boot, listing>>
  BY DEF DeleteOne, odooVars, runVars, pruneVars, clientVars
<1> QED
  BY <1>1, <1>2, <1>3 DEF SyncTypes

LEMMA NextTypes == SyncTypes /\ [Next]_vars => SyncTypes'
<1> SUFFICES ASSUME SyncTypes, [Next]_vars PROVE SyncTypes'
  OBVIOUS
<1>1. ASSUME NEW r \in Runs, Start(r) PROVE SyncTypes'
  BY <1>1 DEF SyncTypes, Start, Goto, RunOrNone, Places, Critical,
              odooVars, dbVars, runVars, pruneVars, clientVars
<1>2. ASSUME NEW r \in Runs, RunStep(r) PROVE SyncTypes'
  BY <1>2, RunStepTypes
<1>3. ASSUME NEW r \in Runs, PruneStep(r) PROVE SyncTypes'
  <2>1. CASE PruneFind(r)
    <3>1. PICK k \in {x \in Runs \ {r} : staged[x] # {}} \cup {None} :
                 keep' = [keep EXCEPT ![r] = k]
      BY <2>1 DEF PruneFind
    <3>2. k \in RunOrNone
      BY DEF RunOrNone
    <3> QED
      BY <2>1, <3>1, <3>2
      DEF PruneFind, SyncTypes, odooVars, dbVars, runVars, clientVars
  <2>2. CASE PruneDelete(r)
    BY <2>2 DEF PruneDelete, SyncTypes, odooVars, runVars, clientVars, RunOrNone
  <2> QED
    BY <1>3, <2>1, <2>2 DEF PruneStep
<1>4. ASSUME NEW r \in Runs, Throw(r) PROVE SyncTypes'
  <2>1. AfterThrow(pc[r]) \in Places
    BY DEF AfterThrow, Places, Critical, Failing
  <2> QED
    BY <1>4, <2>1
    DEF Throw, Goto, SyncTypes, odooVars, dbVars, runVars, pruneVars, clientVars
<1>5. CASE Crash
  BY <1>5 DEF Crash, SyncTypes, Places, RunOrNone, odooVars, dbVars, runVars,
              clientVars
<1>6. CASE LockTimeout
  BY <1>6 DEF LockTimeout, SyncTypes, RunOrNone, odooVars, dbVars, runVars,
              pruneVars, clientVars
<1>7. CASE OdooStep
  BY <1>7, OdooStepTypes
<1>8. CASE BootStep
  BY <1>8, BootStepTypes
<1>9. CASE Ask \/ ListStep
  BY <1>9, ListingsOnlyRead
  DEF ListOnly, SyncTypes, odooVars, dbVars, runVars, pruneVars
<1>10. ASSUME NEW r \in Runs, DeleteOne(r) PROVE SyncTypes'
  BY <1>10, DeleteOneStep DEF SyncTypes
<1>11. ASSUME NEW r \in Runs, PublishUnacknowledged(r) PROVE SyncTypes'
  <2>1. Published(r) \in SyncState
    BY DEF Published, SyncState, RunOrNone, SyncTypes
  <2> QED
    BY <1>11, <2>1 DEF PublishUnacknowledged, Goto, Places, Critical, Failing,
                       SyncTypes, odooVars, runVars, pruneVars, clientVars
<1>12. CASE UNCHANGED vars
  BY <1>12 DEF vars, SyncTypes, odooVars, dbVars, runVars, pruneVars, clientVars
<1> QED
  BY <1>1, <1>2, <1>3, <1>4, <1>5, <1>6, <1>7, <1>8, <1>9, <1>10, <1>11, <1>12
  DEF Next

(* In particular every run is at a step the worker has, and documents,     *)
(* lock, prunes and sync state name runs that exist.                       *)
THEOREM MemberTypes == Spec => []SyncTypes
  BY InitTypes, NextTypes, PTL DEF Spec

-----------------------------------------------------------------------------
(* The order of the runs, which the lock alone keeps: only the newest can  *)
(* be live and then holds the lock, and what it has not published is not   *)
(* active.                                                                 *)

LockIsHeld == \A r \in Runs : Live(r) => lock = r

InOrder ==
    \A x, y \in Runs : x < y /\ pc[y] # "idle" => pc[x] # "idle" /\ ~Live(x)

(* Where a run stands before it publishes. *)
Early == {"idle", "begin", "page", "clear", "fill", "count", "publish"}

EarlyNotActive == \A r \in Runs : pc[r] \in Early => state.active # r

Order == LockIsHeld /\ InOrder /\ EarlyNotActive

LEMMA InitOrder == Init => Order
  BY DEF Init, Order, LockIsHeld, InOrder, EarlyNotActive, Live, Critical, Failing,
         NoState, None, Runs

(* A live run is alone. *)
LEMMA LiveIsAlone ==
    ASSUME SyncTypes, Order, NEW r \in Runs, Live(r)
    PROVE  lock = r /\ \A x \in Runs \ {r} : ~Live(x)
  BY DEF Order, LockIsHeld

(* The runs after a live one have not started. *)
LEMMA LiveIsNewest ==
    ASSUME SyncTypes, Order, NEW r \in Runs, Live(r)
    PROVE  \A y \in Runs : r < y => pc[y] = "idle"
  BY DEF Order, InOrder

(* A live run is newer than the active snapshot until it publishes. *)
LEMMA LiveIsNewer ==
    ASSUME SyncTypes, Order, NEW r \in Runs, Live(r), pc[r] \in Early
    PROVE  state.active \in Nat /\ state.active < r
<1>1. state.active # r
  BY DEF Order, EarlyNotActive
<1>2. state.active \in Runs => pc[state.active] # "idle"
  BY DEF Order, EarlyNotActive, Early
<1>3. state.active \in Runs /\ r < state.active => FALSE
  BY <1>2, LiveIsNewest
<1>4. state.active \in Runs \/ state.active = 0
  BY DEF SyncTypes, SyncState, RunOrNone, None
<1> QED
  BY <1>1, <1>3, <1>4, MemberAssumption DEF Runs

(* A step that takes a live run on keeps the order of the runs. *)
LEMMA OrderKept ==
    ASSUME SyncTypes, Order, NEW r \in Runs, Live(r),
           NEW step \in Places \ {"idle"}, Goto(r, step)
    PROVE  InOrder'
<1>1. \A x, y \in Runs : x \in Int /\ y \in Int /\ r \in Int
  BY DEF Runs
<1>2. pc' = [pc EXCEPT ![r] = step] /\ pc \in [Runs -> Places]
  BY DEF Goto, SyncTypes
<1>3. pc[r] # "idle" /\ InOrder
  BY DEF Live, Critical, Failing, Order
<1>4. ASSUME NEW x \in Runs, NEW y \in Runs, x < y, pc'[y] # "idle"
      PROVE  pc'[x] # "idle" /\ pc'[x] \notin Critical
  <2>1. pc[y] # "idle"
    BY <1>2, <1>3, <1>4
  <2>2. pc[x] # "idle" /\ ~Live(x)
    BY <1>3, <1>4, <2>1 DEF InOrder
  <2>3. x # r
    BY <2>2
  <2> QED
    BY <1>2, <2>2, <2>3 DEF Live
<1> QED
  BY <1>4 DEF InOrder, Live

(* A step of a run and what it does to the order: it keeps the lock while  *)
(* it is live, and makes no snapshot active but its own, when it has left  *)
(* the steps before its publication.                                       *)
LEMMA OwnStepOrder ==
    ASSUME SyncTypes, Order, NEW r \in Runs, Live(r),
           NEW step \in Places \ {"idle"}, Goto(r, step),
           lock' = lock \/ step \notin Critical,
           state'.active = state.active
               \/ (state'.active = r /\ step \notin Early),
           step \in Early => pc[r] \in Early
    PROVE  Order'
<1> USE DEF SyncTypes, Live
<1>1. pc' = [pc EXCEPT ![r] = step]
  BY DEF Goto
<1>2. lock = r /\ \A x \in Runs \ {r} : ~Live(x)
  BY LiveIsAlone
<1>3. LockIsHeld'
  BY <1>1, <1>2 DEF LockIsHeld
<1>4. EarlyNotActive'
  BY <1>1 DEF Order, EarlyNotActive
<1> QED
  BY <1>3, <1>4, OrderKept DEF Order

LEMMA RunStepOrder ==
    ASSUME SyncTypes, Order, NEW r \in Runs,
           RunStep(r) \/ Throw(r) \/ PublishUnacknowledged(r)
    PROVE  Order'
<1>1. Live(r)
  BY DEF RunStep, Begin, CopyPage, TotalMoved, ClearTiers, FillTiers, Count, Publish,
         FailMark, FailDocs, Unlock, Throw, PublishUnacknowledged, Live, Critical,
         Failing
<1> SUFFICES \E step \in Places \ {"idle"} :
                 /\ Goto(r, step)
                 /\ lock' = lock \/ step \notin Critical
                 /\ state'.active = state.active
                        \/ (state'.active = r /\ step \notin Early)
                 /\ step \in Early => pc[r] \in Early
  BY <1>1, OwnStepOrder
<1> USE DEF Places, Critical, Failing, Early, SyncTypes, SyncState
<1>2. CASE Begin(r) \/ TotalMoved(r) \/ ClearTiers(r) \/ FillTiers(r)
  BY <1>2 DEF Begin, TotalMoved, ClearTiers, FillTiers, dbVars
<1>3. CASE CopyPage(r)
  BY <1>3 DEF CopyPage, AfterPage
<1>4. CASE Count(r)
  <2>1. \E step \in {"publish", "failMark"} : Goto(r, step)
    BY <1>4 DEF Count
  <2> QED
    BY <1>4, <2>1 DEF Count, dbVars
<1>5. CASE Publish(r) \/ PublishUnacknowledged(r)
  BY <1>5 DEF Publish, PublishUnacknowledged, Published
<1>6. CASE FailMark(r) \/ FailDocs(r) \/ Unlock(r)
  <2>1. state'.active = state.active /\ (lock' = lock \/ pc[r] = "unlock")
    BY <1>6 DEF FailMark, FailDocs, Unlock, dbVars
  <2>2. CASE FailMark(r) \/ FailDocs(r)
    <3>1. \E step \in {"failDocs", "unlock"} : Goto(r, step) /\ lock' = lock
      BY <2>2 DEF FailMark, FailDocs
    <3> QED
      BY <2>1, <3>1
  <2>3. CASE Unlock(r)
    BY <2>1, <2>3 DEF Unlock
  <2> QED
    BY <1>6, <2>2, <2>3
<1>7. CASE Throw(r)
  <2>1. \E step \in {"done", "unlock", "failMark"} : Goto(r, step)
    BY <1>7 DEF Throw, AfterThrow
  <2> QED
    BY <1>7, <2>1 DEF Throw, dbVars
<1> QED
  BY <1>2, <1>3, <1>4, <1>5, <1>6, <1>7 DEF RunStep

LEMMA NextOrder == ASSUME SyncTypes, Order, [Next]_vars PROVE Order'
<1> USE DEF SyncTypes, Live
<1>1. ASSUME NEW r \in Runs, Start(r) PROVE Order'
  <2>1. pc' = [pc EXCEPT ![r] = "begin"] /\ lock' = r /\ pc[r] = "idle" /\ state' = state
    BY <1>1 DEF Start, Goto, IsNext, dbVars
  <2>2. \A x \in Runs : ~Live(x)
    BY <1>1 DEF Start, LockGranted, Order, LockIsHeld, None, Runs
  <2>3. InOrder'
    <3>1. \A x \in Runs : x < r => pc[x] # "idle"
      BY <1>1 DEF Start, IsNext
    <3>2. \A x, y \in Runs : x \in Int /\ y \in Int /\ r \in Int
      BY DEF Runs
    <3> QED
      BY <2>1, <2>2, <3>1, <3>2 DEF Order, InOrder
  <2>4. LockIsHeld' /\ EarlyNotActive'
    BY <2>1, <2>2 DEF Order, LockIsHeld, EarlyNotActive, Early
  <2> QED
    BY <2>3, <2>4 DEF Order
<1>2. ASSUME NEW r \in Runs, RunStep(r) \/ Throw(r) \/ PublishUnacknowledged(r)
      PROVE  Order'
  BY <1>2, RunStepOrder
<1>3. CASE Crash
  <2>1. /\ \A x \in Runs : pc'[x] = IF Live(x) THEN "dead" ELSE pc[x]
        /\ UNCHANGED <<lock, state>>
    BY <1>3 DEF Crash, dbVars
  <2>2. "dead" \notin Critical /\ "idle" \notin Critical /\ "dead" \notin Early
    BY DEF Critical, Failing, Early
  <2> QED
    BY <2>1, <2>2 DEF Order, LockIsHeld, InOrder, EarlyNotActive
<1>4. CASE LockTimeout
  <2>1. UNCHANGED <<pc, state>> /\ \A r \in Runs : ~Live(r)
    BY <1>4 DEF LockTimeout, Order, LockIsHeld, dbVars
  <2> QED
    BY <2>1 DEF Order, LockIsHeld, InOrder, EarlyNotActive
<1>5. ASSUME UNCHANGED <<pc, lock>>, state'.active = state.active PROVE Order'
  BY <1>5 DEF Order, LockIsHeld, InOrder, EarlyNotActive
<1>6. ASSUME \/ \E r \in Runs : PruneStep(r)
             \/ OdooStep \/ Ask \/ ListStep \/ UNCHANGED vars
      PROVE  Order'
  <2>1. UNCHANGED <<pc, lock, state>>
    BY <1>6, ListingsOnlyRead
    DEF PruneStep, PruneFind, PruneDelete, OdooStep, OdooCreate, OdooUpdate,
        OdooWithdraw, OdooTiers, OdooChange, ListOnly, vars, dbVars
  <2> QED
    BY <1>5, <2>1
<1>7. ASSUME NEW r \in Runs, DeleteOne(r) PROVE Order'
  BY <1>5, <1>7, DeleteOneStep
<1>8. CASE BootStep
  <2>1. state'.active = state.active /\ UNCHANGED <<pc, lock>>
    BY <1>8 DEF BootStep, BootFetch, BootWrite, BootCount, BootState, BootOnly,
                SyncState
  <2> QED
    BY <1>5, <2>1
<1> QED
  BY <1>1, <1>2, <1>3, <1>4, <1>6, <1>7, <1>8 DEF Next

LEMMA OrderInvariant == Spec => []Order
  BY InitOrder, NextOrder, MemberTypes, PTL DEF Spec

(* The lock keeps runs apart, over crashes, failing calls, failed releases,*)
(* slow prunes and lost answers: two are never inside syncOnce together.   *)
THEOREM RunsApart == Spec => []MemberRunsExclusive
<1>1. Order => MemberRunsExclusive
  BY DEF Order, LockIsHeld, MemberRunsExclusive
<1> QED
  BY <1>1, OrderInvariant, PTL

-----------------------------------------------------------------------------
(* The protocol of the runs, where prunes are over before the next run and *)
(* no answer is lost: what a run works on is not active, and a prune is    *)
(* the active snapshot's own.                                              *)

(* Where a run stands before it has published. *)
Unpublished == {"idle"} \cup (Critical \ {"unlock"})

NotYetActive == \A r \in Runs : pc[r] \in Unpublished => state.active # r

Validated ==
    \A r \in Runs : pc[r] = "publish" => Cardinality(staged[r]) = total[r]

PruneOfActive ==
    \A r \in Runs : prune[r] # "none" =>
        state.active = r /\ \A x \in Runs : Live(x) => x = r

ActiveWhole ==
    state.active # None => Cardinality(staged[state.active]) = state.total

Protocol == Order /\ NotYetActive /\ Validated /\ PruneOfActive /\ ActiveWhole

LEMMA InitProtocol == Init => Protocol
  BY InitOrder
  DEF Init, Protocol, NotYetActive, Validated, PruneOfActive, ActiveWhole, Live,
      Critical, Failing, NoState, None, Runs

(* What a step leaves of the active snapshot. *)
KeepsActive ==
    /\ state'.active = state.active
    /\ state'.total = state.total
    /\ state.active # None => staged'[state.active] = staged[state.active]

LEMMA StartProtocol ==
    ASSUME QuietEnv, SyncTypes, Protocol, Order', NEW r \in Runs, Start(r)
    PROVE  Protocol' /\ KeepsActive
<1> USE DEF Protocol, SyncTypes, Live
<1>1. pc' = [pc EXCEPT ![r] = "begin"] /\ pc[r] = "idle"
  BY DEF Start, Goto, IsNext
<1>2. UNCHANGED <<staged, state, total, prune>>
  BY DEF Start, dbVars, runVars, pruneVars
<1>3. \A x \in Runs : prune[x] = "none"
  BY DEF Start, QuietEnv
<1>4. NotYetActive'
  BY <1>1, <1>2 DEF NotYetActive, Unpublished
<1>5. Validated' /\ PruneOfActive' /\ ActiveWhole'
  BY <1>1, <1>2, <1>3 DEF Validated, PruneOfActive, ActiveWhole
<1> QED
  BY <1>2, <1>4, <1>5 DEF KeepsActive

(* A live run is alone: no other run is live, no prune but its own is      *)
(* pending, and until it unlocks its snapshot is not the active one.       *)
LEMMA RunAlone ==
    ASSUME SyncTypes, Protocol, NEW r \in Runs, Live(r)
    PROVE  /\ lock = r
           /\ \A x \in Runs \ {r} : ~Live(x)
           /\ \A x \in Runs \ {r} : prune[x] = "none"
           /\ pc[r] # "unlock" => state.active # r /\ prune[r] = "none"
  BY DEF Protocol, Order, LockIsHeld, PruneOfActive, NotYetActive, Unpublished, Live

(* The steps of a run other than publishing and unlocking: they move the   *)
(* run and touch no documents but its own, and neither the lock, the       *)
(* prunes, nor which snapshot is active.                                   *)
LEMMA OwnStepProtocol ==
    ASSUME SyncTypes, Protocol, Order', NEW r \in Runs, Live(r),
           NEW step \in Places \ {"idle"}, Goto(r, step),
           lock' = lock, prune' = prune,
           state'.active = state.active, state'.total = state.total,
           \A x \in Runs \ {r} : staged'[x] = staged[x] /\ total'[x] = total[x],
           pc[r] = "unlock" => staged'[r] = staged[r] /\ step \in {"unlock", "done"},
           step = "publish" => Cardinality(staged'[r]) = total'[r]
    PROVE  Protocol' /\ KeepsActive
<1> USE DEF SyncTypes, Live
<1>1. pc' = [pc EXCEPT ![r] = step]
  BY DEF Goto
<1>2. /\ lock = r
      /\ \A x \in Runs \ {r} : ~Live(x)
      /\ \A x \in Runs \ {r} : prune[x] = "none"
      /\ pc[r] # "unlock" => state.active # r /\ prune[r] = "none"
  BY RunAlone
<1>5. NotYetActive'
  <2>1. step \in Unpublished => state.active # r
    BY <1>2 DEF Unpublished, Places, Critical, Failing
  <2> QED
    BY <1>1, <2>1 DEF Protocol, NotYetActive
<1>6. Validated'
  <2>1. \A x \in Runs \ {r} : pc[x] # "publish"
    BY <1>2 DEF Critical
  <2> QED
    BY <1>1, <2>1 DEF Validated
<1>7. PruneOfActive'
  BY <1>1, <1>2 DEF Protocol, PruneOfActive
<1>8. KeepsActive
  BY <1>2 DEF KeepsActive, SyncState, RunOrNone
<1>9. ActiveWhole'
  BY <1>8 DEF KeepsActive, Protocol, ActiveWhole
<1> QED
  BY <1>5, <1>6, <1>7, <1>8, <1>9 DEF Protocol

LEMMA RunStepProtocol ==
    ASSUME SyncTypes, Protocol, Order', NEW r \in Runs, RunStep(r)
    PROVE  Protocol' /\ (Publish(r) \/ KeepsActive)
<1> USE DEF SyncTypes, Live, Critical, Failing, dbVars, runVars, pruneVars
<1>1. CASE Begin(r)
  <2>1. Live(r) /\ "page" \in Places \ {"idle"}
    BY <1>1 DEF Begin, Places
  <2>2. state'.active = state.active /\ state'.total = state.total
    BY <1>1 DEF Begin, SyncState
  <2> QED
    BY <1>1, <2>1, <2>2, OwnStepProtocol DEF Begin
<1>2. CASE CopyPage(r)
  <2>1. Live(r) /\ pc[r] = "page"
    BY <1>2 DEF CopyPage
  <2>2. PICK step \in {"page", "clear"} : Goto(r, step)
    BY <1>2 DEF CopyPage, AfterPage
  <2>3. step \in Places \ {"idle"} /\ step # "publish"
    BY DEF Places
  <2>4. /\ lock' = lock /\ prune' = prune /\ state' = state
        /\ \A x \in Runs \ {r} : staged'[x] = staged[x] /\ total'[x] = total[x]
    BY <1>2 DEF CopyPage
  <2> QED
    BY <2>1, <2>2, <2>3, <2>4, OwnStepProtocol
<1>3. CASE TotalMoved(r)
  <2>1. Live(r) /\ "failMark" \in Places \ {"idle"}
    BY <1>3 DEF TotalMoved, Places
  <2> QED
    BY <1>3, <2>1, OwnStepProtocol DEF TotalMoved
<1>4. CASE ClearTiers(r)
  <2>1. Live(r) /\ "fill" \in Places \ {"idle"}
    BY <1>4 DEF ClearTiers, Places
  <2> QED
    BY <1>4, <2>1, OwnStepProtocol DEF ClearTiers
<1>5. CASE FillTiers(r)
  <2>1. Live(r) /\ "count" \in Places \ {"idle"}
    BY <1>5 DEF FillTiers, Places
  <2> QED
    BY <1>5, <2>1, OwnStepProtocol DEF FillTiers
<1>6. CASE Count(r)
  <2> DEFINE step == IF Cardinality(staged[r]) = total[r] THEN "publish"
                                                          ELSE "failMark"
  <2>1. Live(r) /\ step \in Places \ {"idle"} /\ Goto(r, step)
    BY <1>6 DEF Count, Places
  <2>2. step = "publish" => Cardinality(staged'[r]) = total'[r]
    BY <1>6 DEF Count
  <2>3. pc[r] = "count" /\ UNCHANGED <<lock, prune, state, staged, total>>
    BY <1>6 DEF Count
  <2> HIDE DEF step
  <2> QED
    BY <2>1, <2>2, <2>3, OwnStepProtocol
<1>7. CASE Publish(r)
  <2>1. /\ pc' = [pc EXCEPT ![r] = "unlock"] /\ pc[r] = "publish"
        /\ prune' = [prune EXCEPT ![r] = "find"]
        /\ state'.active = r /\ state'.total = total[r]
        /\ UNCHANGED <<lock, staged, total>>
    BY <1>7 DEF Publish, Published, Goto
  <2>2. /\ lock = r
        /\ \A x \in Runs \ {r} : ~Live(x)
        /\ \A x \in Runs \ {r} : prune[x] = "none"
    BY <2>1, RunAlone
  <2>5. NotYetActive'
    BY <2>1 DEF NotYetActive, Unpublished
  <2>6. Validated' /\ ActiveWhole'
    BY <2>1, <2>2 DEF Protocol, Validated, ActiveWhole
  <2>7. PruneOfActive'
    BY <2>1, <2>2 DEF PruneOfActive
  <2> QED
    BY <1>7, <2>5, <2>6, <2>7 DEF Protocol
<1>8. CASE FailMark(r)
  <2>1. Live(r) /\ "failDocs" \in Places \ {"idle"}
    BY <1>8 DEF FailMark, Places
  <2>2. state'.active = state.active /\ state'.total = state.total
    BY <1>8 DEF FailMark, SyncState
  <2> QED
    BY <1>8, <2>1, <2>2, OwnStepProtocol DEF FailMark
<1>9. CASE FailDocs(r)
  <2>1. Live(r) /\ "unlock" \in Places \ {"idle"}
    BY <1>9 DEF FailDocs, Places
  <2> QED
    BY <1>9, <2>1, OwnStepProtocol DEF FailDocs
<1>10. CASE Unlock(r)
  <2>1. /\ pc' = [pc EXCEPT ![r] = "done"] /\ pc[r] = "unlock"
        /\ UNCHANGED <<state, staged, total, prune>>
    BY <1>10 DEF Unlock, Goto
  <2>2. \A x \in Runs \ {r} : ~Live(x)
    BY <2>1, RunAlone
  <2>5. NotYetActive' /\ Validated' /\ ActiveWhole'
    BY <2>1 DEF Protocol, NotYetActive, Unpublished, Validated, ActiveWhole
  <2>6. PruneOfActive'
    BY <2>1 DEF Protocol, PruneOfActive
  <2> QED
    BY <2>1, <2>5, <2>6 DEF Protocol, KeepsActive
<1> QED
  BY <1>1, <1>2, <1>3, <1>4, <1>5, <1>6, <1>7, <1>8, <1>9, <1>10 DEF RunStep

LEMMA ThrowProtocol ==
    ASSUME SyncTypes, Protocol, Order', NEW r \in Runs, Throw(r)
    PROVE  Protocol' /\ KeepsActive
<1>1. PICK step \in Places \ {"idle", "publish"} :
             Goto(r, step) /\ (pc[r] = "unlock" => step = "done")
  <2> DEFINE step == AfterThrow(pc[r])
  <2>1. step \in Places \ {"idle", "publish"}
    BY DEF AfterThrow, Places, Critical, Failing
  <2>2. pc[r] = "unlock" => step = "done"
    BY DEF AfterThrow, Failing
  <2>3. Goto(r, step)
    BY DEF Throw
  <2> HIDE DEF step
  <2> QED
    BY <2>1, <2>2, <2>3
<1>2. Live(r)
  BY DEF Throw
<1> QED
  BY <1>1, <1>2, OwnStepProtocol
  DEF Throw, dbVars, runVars, pruneVars, SyncTypes

LEMMA PruneStepProtocol ==
    ASSUME SyncTypes, Protocol, Order', NEW r \in Runs, PruneStep(r)
    PROVE  Protocol' /\ KeepsActive
<1> USE DEF SyncTypes, Live, dbVars, runVars
<1>1. prune[r] # "none" /\ \A x \in Runs \ {r} : prune'[x] = prune[x]
  BY DEF PruneStep, PruneFind, PruneDelete
<1>2. UNCHANGED <<lock, pc, state, total>> /\ staged'[r] = staged[r]
  BY DEF PruneStep, PruneFind, PruneDelete
<1>3. state.active = r /\ \A x \in Runs : Live(x) => x = r
  BY <1>1 DEF Protocol, PruneOfActive
<1>4. NotYetActive'
  BY <1>2 DEF Protocol, NotYetActive
<1>5. Validated'
  BY <1>2, <1>3
  DEF Protocol, Validated, NotYetActive, Unpublished, Critical
<1>6. PruneOfActive'
  BY <1>1, <1>2, <1>3 DEF Protocol, PruneOfActive
<1>7. ActiveWhole' /\ KeepsActive
  BY <1>2, <1>3 DEF Protocol, ActiveWhole, KeepsActive
<1> QED
  BY <1>4, <1>5, <1>6, <1>7 DEF Protocol

(* No deletion reaches the active snapshot or one about to be published.   *)
LEMMA DeleteOneProtocol ==
    ASSUME SyncTypes, Protocol, Order', NEW r \in Runs, DeleteOne(r)
    PROVE  Protocol' /\ KeepsActive
<1> USE DEF SyncTypes, Live
<1>1. UNCHANGED <<lock, pc, state, total, prune>>
  BY DeleteOneStep
<1>2. PICK x \in Runs :
         /\ \/ x = r /\ pc[r] = "failDocs"
            \/ prune[r] = "delete" /\ x \notin {r, keep[r]}
         /\ \A y \in Runs \ {x} : staged'[y] = staged[y]
  BY DeleteOneStep
<1>3. state.active # x /\ pc[x] # "publish"
  BY <1>2 DEF Protocol, NotYetActive, Unpublished, PruneOfActive, Critical, Failing
<1>4. NotYetActive' /\ PruneOfActive'
  BY <1>1 DEF Protocol, NotYetActive, PruneOfActive
<1>5. Validated'
  BY <1>1, <1>2, <1>3 DEF Protocol, Validated
<1>6. ActiveWhole' /\ KeepsActive
  BY <1>1, <1>2, <1>3
  DEF Protocol, ActiveWhole, KeepsActive, SyncState, RunOrNone
<1> QED
  BY <1>4, <1>5, <1>6 DEF Protocol

LEMMA CrashProtocol ==
    ASSUME SyncTypes, Protocol, Order', Crash
    PROVE  Protocol' /\ KeepsActive
<1> USE DEF SyncTypes
<1>1. UNCHANGED <<lock, staged, state, total>>
  BY DEF Crash, dbVars, runVars
<1>2. /\ \A x \in Runs : pc'[x] = IF Live(x) THEN "dead" ELSE pc[x]
      /\ \A x \in Runs : prune'[x] = "none"
  BY DEF Crash
<1>3. "dead" \notin Critical
  BY DEF Critical, Failing
<1>5. PruneOfActive'
  BY <1>2 DEF PruneOfActive
<1>7. NotYetActive' /\ Validated' /\ ActiveWhole'
  BY <1>1, <1>2, <1>3
  DEF Protocol, NotYetActive, Unpublished, Validated, ActiveWhole
<1> QED
  BY <1>1, <1>5, <1>7 DEF Protocol, KeepsActive

(* A lock that outlives its run is given up; Odoo and clients do not reach *)
(* what Protocol is about.                                                 *)
LEMMA SurroundingsProtocol ==
    ASSUME SyncTypes, Protocol, Order',
           LockTimeout \/ OdooStep \/ BootStep \/ Ask \/ ListStep \/ UNCHANGED vars
    PROVE  Protocol' /\ KeepsActive
<1> USE DEF SyncTypes
<1>1. ASSUME UNCHANGED <<staged, pc, total, prune>>,
             state'.active = state.active, state'.total = state.total
      PROVE  Protocol' /\ KeepsActive
  BY <1>1
  DEF Protocol, NotYetActive, Validated, PruneOfActive, ActiveWhole, Live, KeepsActive
<1>2. CASE LockTimeout
  BY <1>1, <1>2 DEF LockTimeout, dbVars, runVars, pruneVars
<1>3. CASE OdooStep
  <2>1. OdooChange
    BY <1>3 DEF OdooStep, OdooCreate, OdooUpdate, OdooWithdraw, OdooTiers
  <2> QED
    BY <1>1, <2>1 DEF OdooChange, dbVars, runVars, pruneVars
<1>4. CASE BootStep
  <2>1. state'.active = state.active /\ state'.total = state.total
    BY <1>4 DEF BootStep, BootFetch, BootWrite, BootCount, BootState, SyncState
  <2>2. UNCHANGED <<staged, pc, total, prune, lock>>
    BY <1>4 DEF BootStep, BootFetch, BootWrite, BootCount, BootState, BootOnly,
                runVars, pruneVars
  <2> QED
    BY <1>1, <2>1, <2>2
<1>5. CASE Ask \/ ListStep \/ UNCHANGED vars
  <2>1. UNCHANGED <<staged, pc, total, prune, lock, state>>
    BY <1>5, ListingsOnlyRead DEF ListOnly, vars, dbVars, runVars, pruneVars
  <2> QED
    BY <1>1, <2>1
<1> QED
  BY <1>2, <1>3, <1>4, <1>5

LEMMA NextProtocol ==
    ASSUME QuietEnv, SyncTypes, Protocol, [Next]_vars
    PROVE  Protocol' /\ (KeepsActive \/ \E r \in Runs : Publish(r))
<1>1. Order'
  BY NextOrder DEF Protocol
<1>2. \A r \in Runs : ~PublishUnacknowledged(r)
  BY DEF PublishUnacknowledged, QuietEnv
<1> QED
  BY <1>1, <1>2, StartProtocol, RunStepProtocol, PruneStepProtocol,
     DeleteOneProtocol, ThrowProtocol, CrashProtocol, SurroundingsProtocol DEF Next

LEMMA ProtocolInvariant == QuietEnv => (Spec => []Protocol)
<1>1. ASSUME QuietEnv PROVE Spec => []Protocol
  <2>1. SyncTypes /\ Protocol /\ [Next]_vars => Protocol'
    BY <1>1, NextProtocol
  <2> QED
    BY <2>1, InitProtocol, MemberTypes, PTL DEF Spec
<1> QED
  BY <1>1

(* Where prunes are over before the next run and no answer is lost, what   *)
(* readers see of the members is replaced as a whole by a newer and        *)
(* complete snapshot, and changes in no other way.                         *)
THEOREM MembersImplementPublication == QuietEnv => (Spec => MembersPublishedWhole)
<1>1. Init => Publication!Init
  BY DEF Init, Publication!Init, NoState, None
<1>2. ASSUME QuietEnv, SyncTypes, Protocol, [Next]_vars
      PROVE  [Publication!Next]_(Publication!vars)
  <2>1. CASE KeepsActive
    BY <2>1 DEF KeepsActive, Publication!vars
  <2>2. ASSUME NEW r \in Runs, Publish(r) PROVE Publication!Publish
    <3>1. /\ pc[r] = "publish" /\ state'.active = r /\ state'.total = total[r]
          /\ staged' = staged /\ r # None
      BY <2>2 DEF Publish, Published, Runs, None
    <3>2. state.active < r /\ r \in Nat
      BY <1>2, <3>1, LiveIsNewer DEF Protocol, Live, Critical, Early, Runs
    <3>3. staged'[r] \in SUBSET Item
      BY <1>2, <3>1 DEF SyncTypes
    <3>4. Cardinality(staged'[r]) = total[r]
      BY <1>2, <3>1 DEF Protocol, Validated
    <3> QED
      BY <3>1, <3>2, <3>3, <3>4 DEF Publication!Publish
  <2> QED
    BY <1>2, <2>1, <2>2, NextProtocol DEF Publication!Next
<1>3. ASSUME QuietEnv PROVE Spec => Publication!Spec
  <2>1. Spec => []Protocol
    BY <1>3, ProtocolInvariant
  <2>2. SyncTypes /\ Protocol /\ [Next]_vars => [Publication!Next]_(Publication!vars)
    BY <1>2, <1>3
  <2> QED
    BY <1>1, <2>1, <2>2, MemberTypes, PTL DEF Spec, Publication!Spec
<1> QED
  BY <1>3 DEF MembersPublishedWhole

-----------------------------------------------------------------------------
(* The tiers.  What a run got with its first page is not older than what   *)
(* earlier runs got, and from its own fill until it has published, a run's *)
(* tiers are the ones in the collection.                                   *)

Known ==
    /\ tiers # {}
    /\ \A t \in tiers : t <= changes
    /\ \A r \in Runs : \A u \in first[r], t \in tiers : u <= t

Ascending ==
    \A x, y \in Runs : x < y => \A u \in first[x], v \in first[y] : u <= v

HasCopied(r) == first[r] # {} /\ copied[r] = total[r]

RunFits(r) ==
    /\ copied[r] <= total[r]
    /\ pc[r] \in {"idle", "begin"} =>
          first[r] = {} /\ copied[r] = 0 /\ total[r] = 0
    /\ pc[r] = "page" => first[r] = {} \/ copied[r] < total[r]
    /\ pc[r] \in {"clear", "fill", "count", "publish"} => HasCopied(r)
    /\ boot.step = "none" /\ pc[r] = "fill" => aux = {}
    /\ boot.step = "none" /\ pc[r] \in {"count", "publish"} => aux = first[r]

TierInv ==
    /\ Known /\ Ascending
    /\ \A r \in Runs : RunFits(r)
    /\ TiersFitMembers

LEMMA InitTiers == Init => TierInv
  BY MemberAssumption
  DEF Init, TierInv, Known, Ascending, RunFits, TiersFitMembers, NoState

(* Places where a run has nothing to say of the tiers any more. *)
Over == {"failMark", "failDocs", "unlock", "done", "dead"}

(* A step that only moves runs, and none of them past a page or a fill. *)
LEMMA MoveTiers ==
    ASSUME SyncTypes, TierInv,
           UNCHANGED <<tiers, changes, aux, copied, total, first>>,
           boot'.step = boot.step, state'.active = state.active,
           \A r \in Runs :
              \/ pc'[r] = pc[r]
              \/ pc'[r] \in Over
              \/ <<pc[r], pc'[r]>> \in { <<"idle", "begin">>, <<"begin", "page">>,
                                         <<"count", "publish">> }
    PROVE  TierInv'
<1>1. ASSUME NEW r \in Runs PROVE RunFits(r)'
  <2>1. CASE pc'[r] = pc[r] \/ pc'[r] \in Over
    BY <2>1 DEF TierInv, RunFits, HasCopied, Over
  <2>2. CASE pc[r] = "idle" /\ pc'[r] = "begin"
    BY <2>2 DEF TierInv, RunFits, HasCopied
  <2>3. CASE pc[r] = "begin" /\ pc'[r] = "page"
    BY <2>3 DEF TierInv, RunFits, HasCopied
  <2>4. CASE pc[r] = "count" /\ pc'[r] = "publish"
    BY <2>4 DEF TierInv, RunFits, HasCopied
  <2> QED
    BY <2>1, <2>2, <2>3, <2>4
<1>2. Known' /\ Ascending'
  BY DEF TierInv, Known, Ascending
<1>3. TiersFitMembers'
  BY DEF TierInv, TiersFitMembers
<1> QED
  BY <1>1, <1>2, <1>3 DEF TierInv

(* A page ends within the list. *)
LEMMA OdooPageLength ==
    ASSUME SyncTypes, NEW offset \in Nat, offset <= Len(source)
    PROVE  Len(OdooPage(offset)) \in Nat
           /\ offset + Len(OdooPage(offset)) <= Len(source)
<1> DEFINE end == offset + PageLimit
           last == IF end < Len(source) THEN end ELSE Len(source)
<1>1. PageLimit \in Nat /\ Len(source) \in Nat /\ source \in Seq(Item)
  BY MemberAssumption DEF SyncTypes
<1>2. last \in Nat /\ last <= Len(source)
  BY <1>1
<1>3. Len(SubSeq(source, offset + 1, last)) =
         IF offset + 1 <= last THEN last - (offset + 1) + 1 ELSE 0
  <2> HIDE DEF last
  <2>1. \A i \in offset + 1 .. last : source[i] \in Item
    BY <1>1, <1>2
  <2> QED
    BY <1>2, <2>1, SubSeqProperties
<1>4. OdooPage(offset) = SubSeq(source, offset + 1, last)
  BY DEF OdooPage
<1> HIDE DEF last
<1> QED
  BY <1>1, <1>2, <1>3, <1>4

LEMMA CopyPageTiers ==
    ASSUME SyncTypes, Order, TierInv, NEW r \in Runs, CopyPage(r)
    PROVE  TierInv'
<1> DEFINE n == Len(OdooPage(copied[r]))
<1>1. pc[r] = "page" /\ Live(r) /\ pc[r] \in Early
  BY DEF CopyPage, Live, Critical, Early
<1>2. /\ UNCHANGED <<tiers, changes, aux, boot, state>>
      /\ \A x \in Runs \ {r} : /\ pc'[x] = pc[x] /\ copied'[x] = copied[x]
                               /\ total'[x] = total[x] /\ first'[x] = first[x]
  BY DEF CopyPage, Goto, SyncTypes, odooVars, clientVars
<1>3. /\ copied[r] \in Nat /\ total[r] \in Nat /\ Len(source) \in Nat
      /\ copied[r] <= total[r]
  BY LenProperties DEF SyncTypes, TierInv, RunFits
<1>4. SourceTotal(r) = Len(source) /\ copied[r] <= Len(source)
  BY <1>3 DEF CopyPage, SourceTotal
<1>5. n \in Nat /\ copied[r] + n <= Len(source)
  BY <1>3, <1>4, OdooPageLength
<1>6. /\ copied'[r] = copied[r] + n /\ total'[r] = Len(source)
      /\ first'[r] = IF first[r] = {} THEN tiers ELSE first[r]
      /\ pc'[r] = IF copied[r] + n < Len(source) THEN "page" ELSE "clear"
  BY <1>4 DEF CopyPage, Goto, AfterPage, SyncTypes
<1> HIDE DEF n
<1>7. tiers # {} /\ first'[r] # {}
  BY <1>6 DEF TierInv, Known
<1>8. ASSUME NEW x \in Runs PROVE RunFits(x)'
  <2>1. CASE x = r
    <3>1. copied'[r] <= total'[r]
      BY <1>5, <1>6
    <3>2. CASE copied[r] + n < Len(source)
      BY <1>6, <2>1, <3>1, <3>2 DEF RunFits
    <3>3. CASE ~(copied[r] + n < Len(source))
      <4>1. copied'[r] = total'[r]
        BY <1>3, <1>5, <1>6, <3>3
      <4> QED
        BY <1>6, <1>7, <2>1, <3>1, <3>3, <4>1 DEF RunFits, HasCopied
    <3> QED
      BY <3>2, <3>3
  <2>2. CASE x # r
    BY <1>2, <2>2 DEF TierInv, RunFits, HasCopied
  <2> QED
    BY <2>1, <2>2
<1>9. Known'
  <2>1. \A t \in tiers, u \in tiers : u <= t
    BY DEF SyncTypes, TierDocs
  <2> QED
    BY <1>2, <1>6, <2>1 DEF TierInv, Known
<1>10. Ascending'
  <2>1. \A y \in Runs : r < y => first[y] = {}
    BY <1>1, LiveIsNewest DEF TierInv, RunFits
  <2>2. ASSUME NEW x \in Runs, NEW y \in Runs, x < y,
               NEW u \in first'[x], NEW v \in first'[y]
        PROVE  u <= v
    <3>1. CASE x = r
      BY <1>2, <2>1, <2>2, <3>1 DEF Runs
    <3>2. CASE x # r /\ y = r
      BY <1>2, <1>6, <2>2, <3>2 DEF TierInv, Known, Ascending
    <3>3. CASE x # r /\ y # r
      BY <1>2, <2>2, <3>3 DEF TierInv, Ascending
    <3> QED
      BY <3>1, <3>2, <3>3
  <2> QED
    BY <2>2 DEF Ascending
<1>11. TiersFitMembers'
  <2>1. ~HasCopied(r) /\ state.active # r
    BY <1>1, <1>3, LiveIsNewer DEF TierInv, RunFits, HasCopied, Runs
  <2>2. state.active # None => state.active \in Runs
    BY DEF SyncTypes, SyncState, RunOrNone, None
  <2> QED
    BY <1>2, <2>1, <2>2 DEF TierInv, TiersFitMembers, HasCopied
<1> QED
  BY <1>8, <1>9, <1>10, <1>11 DEF TierInv

(* While a run is live, no other is about to count or publish. *)
LEMMA OthersPast ==
    ASSUME SyncTypes, Order, NEW r \in Runs, Live(r), NEW x \in Runs \ {r}
    PROVE  pc[x] \notin Critical
  BY LiveIsAlone DEF Live

LEMMA RefillTiers ==
    ASSUME SyncTypes, Order, TierInv, NEW r \in Runs,
           ClearTiers(r) \/ FillTiers(r)
    PROVE  TierInv'
<1>1. Live(r) /\ pc[r] \in Early
  BY DEF ClearTiers, FillTiers, Live, Critical, Early
<1>2. UNCHANGED <<tiers, changes, copied, total, first, state, boot>>
  BY DEF ClearTiers, FillTiers, odooVars, runVars, clientVars
<1>3. HasCopied(r) /\ r > state.active
  BY <1>1, LiveIsNewer DEF ClearTiers, FillTiers, TierInv, RunFits, Runs
<1>4. /\ pc'[r] \in {"fill", "count"}
      /\ pc'[r] = "fill" => aux' = {}
      /\ pc'[r] = "count" /\ boot.step = "none" => aux' = first[r]
  <2>1. CASE ClearTiers(r)
    BY <2>1 DEF ClearTiers, Goto, SyncTypes
  <2>2. CASE FillTiers(r)
    <3>1. pc'[r] = "count" /\ pc[r] = "fill"
      BY <2>2 DEF FillTiers, Goto, SyncTypes
    <3>2. ASSUME boot.step = "none" PROVE aux' = first[r]
      <4>1. aux = {}
        BY <3>1, <3>2 DEF TierInv, RunFits
      <4> QED
        BY <2>2, <4>1, AuxType DEF FillTiers, SyncTypes
    <3> QED
      BY <3>1, <3>2
  <2> QED
    BY <2>1, <2>2
<1>5. \A x \in Runs \ {r} : pc'[x] = pc[x] /\ pc[x] \notin {"fill", "count", "publish"}
  BY <1>1, OthersPast DEF ClearTiers, FillTiers, Goto, SyncTypes, Critical
<1>6. ASSUME NEW x \in Runs PROVE RunFits(x)'
  <2>1. CASE x = r
    BY <1>2, <1>3, <1>4, <2>1 DEF TierInv, RunFits, HasCopied
  <2>2. CASE x # r
    BY <1>2, <1>5, <2>2 DEF TierInv, RunFits, HasCopied
  <2> QED
    BY <2>1, <2>2
<1>7. Known' /\ Ascending'
  BY <1>2 DEF TierInv, Known, Ascending
<1>8. TiersFitMembers'
  <2>1. state.active # None => state.active \in Runs
    BY DEF SyncTypes, SyncState, RunOrNone, None
  <2>2. boot.step = "none" => aux' = {} \/ aux' = first[r]
    BY <1>4
  <2>3. state.active # None =>
            \A t \in first[r], u \in first[state.active] : t >= u
    <3>1. ASSUME state.active # None,
                 NEW t \in first[r], NEW u \in first[state.active]
          PROVE  u <= t
      BY <1>3, <2>1, <3>1 DEF TierInv, Ascending, Runs
    <3>2. \A x \in Runs : first[x] \subseteq Int
      BY TierDocsOneTime DEF SyncTypes
    <3> QED
      BY <2>1, <3>1, <3>2
  <2>4. CASE aux' = {}
    BY <1>2, <1>3, <2>4 DEF TiersFitMembers, HasCopied
  <2>5. CASE aux' = first[r]
    BY <1>2, <1>3, <2>3, <2>5 DEF TiersFitMembers, HasCopied
  <2>6. CASE boot.step # "none"
    BY <1>2, <2>6 DEF TiersFitMembers
  <2> QED
    BY <2>2, <2>4, <2>5, <2>6
<1> QED
  BY <1>6, <1>7, <1>8 DEF TierInv

(* Publishing, whether the run hears of it or not. *)
LEMMA PublishTiers ==
    ASSUME SyncTypes, Order, TierInv, NEW r \in Runs,
           Publish(r) \/ PublishUnacknowledged(r)
    PROVE  TierInv'
<1>1. pc[r] = "publish" /\ HasCopied(r) /\ (boot.step = "none" => aux = first[r])
  BY DEF Publish, PublishUnacknowledged, TierInv, RunFits
<1>2. UNCHANGED <<tiers, changes, copied, total, first, aux, boot>>
  BY DEF Publish, PublishUnacknowledged, odooVars, runVars, clientVars
<1>3. state'.active = r /\ \E step \in Over : pc' = [pc EXCEPT ![r] = step]
  BY DEF Publish, PublishUnacknowledged, Published, Goto, Over
<1>4. \A x \in Runs : RunFits(x)'
  BY <1>2, <1>3 DEF TierInv, RunFits, HasCopied, SyncTypes, Over
<1>5. Known' /\ Ascending'
  BY <1>2 DEF TierInv, Known, Ascending
<1>6. \A t, u \in first[r] : t >= u
  <2>1. first[r] \in TierDocs
    BY DEF SyncTypes
  <2> QED
    BY <2>1, TierDocsOneTime
<1>7. TiersFitMembers'
  BY <1>1, <1>2, <1>3, <1>6 DEF TiersFitMembers, HasCopied
<1> QED
  BY <1>4, <1>5, <1>7 DEF TierInv

LEMMA RunStepTiers ==
    ASSUME SyncTypes, Order, TierInv, NEW r \in Runs, RunStep(r)
    PROVE  TierInv'
<1> USE DEF SyncTypes, odooVars, dbVars, runVars, clientVars, Goto, Over
<1>1. CASE Begin(r)
  <2>1. state'.active = state.active
    BY <1>1 DEF Begin, SyncState
  <2>2. pc[r] = "begin" /\ pc' = [pc EXCEPT ![r] = "page"]
    BY <1>1 DEF Begin
  <2>3. UNCHANGED <<tiers, changes, aux, copied, total, first, boot>>
    BY <1>1 DEF Begin
  <2> QED
    BY <2>1, <2>2, <2>3, MoveTiers
<1>2. CASE CopyPage(r)
  BY <1>2, CopyPageTiers
<1>3. CASE ClearTiers(r) \/ FillTiers(r)
  BY <1>3, RefillTiers
<1>4. CASE Count(r)
  <2>1. pc[r] = "count" /\ \E step \in {"publish", "failMark"} :
                               pc' = [pc EXCEPT ![r] = step]
    BY <1>4 DEF Count
  <2>2. UNCHANGED <<tiers, changes, aux, copied, total, first, boot, state>>
    BY <1>4 DEF Count
  <2> QED
    BY <2>1, <2>2, MoveTiers
<1>5. CASE Publish(r)
  BY <1>5, PublishTiers
<1>6. CASE TotalMoved(r) \/ FailMark(r) \/ FailDocs(r) \/ Unlock(r)
  <2>1. state'.active = state.active
    BY <1>6 DEF TotalMoved, FailMark, FailDocs, Unlock, SyncState
  <2>2. \E step \in Over : pc' = [pc EXCEPT ![r] = step]
    BY <1>6 DEF TotalMoved, FailMark, FailDocs, Unlock
  <2>3. UNCHANGED <<tiers, changes, aux, copied, total, first, boot>>
    BY <1>6 DEF TotalMoved, FailMark, FailDocs, Unlock
  <2> QED
    BY <2>1, <2>2, <2>3, MoveTiers
<1> QED
  BY <1>1, <1>2, <1>3, <1>4, <1>5, <1>6 DEF RunStep

LEMMA OdooStepTiers ==
    ASSUME SyncTypes, TierInv, OdooStep
    PROVE  TierInv'
<1>1. OdooChange /\ (tiers' = tiers \/ tiers' = {changes + 1})
  BY DEF OdooStep, OdooCreate, OdooUpdate, OdooWithdraw, OdooTiers
<1>2. /\ changes' = changes + 1
      /\ UNCHANGED <<aux, state, pc, copied, total, first, boot>>
  BY <1>1 DEF OdooChange, dbVars, runVars, clientVars
<1>3. /\ changes \in Int /\ tiers \subseteq Int
      /\ \A r \in Runs : first[r] \subseteq Int
  BY MemberAssumption, TierDocsOneTime DEF SyncTypes
<1>4. Known'
  <2>1. CASE tiers' = tiers
    BY <1>2, <1>3, <2>1 DEF TierInv, Known
  <2>2. CASE tiers' = {changes + 1}
    <3>1. ASSUME NEW r \in Runs, NEW u \in first[r] PROVE u <= changes
      <4>1. PICK t \in tiers : u <= t /\ t <= changes
        BY DEF TierInv, Known
      <4> QED
        BY <1>3, <4>1
    <3> QED
      BY <1>2, <1>3, <2>2, <3>1 DEF Known
  <2> QED
    BY <1>1, <2>1, <2>2
<1> QED
  BY <1>2, <1>4
  DEF TierInv, Ascending, RunFits, HasCopied, TiersFitMembers

LEMMA BootStepTiers ==
    ASSUME SyncTypes, TierInv, BootStep
    PROVE  TierInv'
<1>1. boot'.step # "none"
  BY DEF BootStep, BootFetch, BootWrite, BootCount, BootState, SyncTypes, Boot
<1>2. UNCHANGED <<tiers, changes, pc, copied, total, first>>
  BY DEF BootStep, BootFetch, BootWrite, BootCount, BootState, BootOnly,
         odooVars, runVars
<1> QED
  BY <1>1, <1>2
  DEF TierInv, Known, Ascending, RunFits, HasCopied, TiersFitMembers

LEMMA NextTiers ==
    ASSUME SyncTypes, Order, TierInv, [Next]_vars
    PROVE  TierInv'
<1> USE DEF SyncTypes, odooVars, dbVars, runVars, clientVars, Over
<1>1. ASSUME NEW r \in Runs, Start(r) PROVE TierInv'
  <2>1. pc[r] = "idle" /\ pc' = [pc EXCEPT ![r] = "begin"]
    BY <1>1 DEF Start, IsNext, Goto
  <2>2. UNCHANGED <<tiers, changes, aux, copied, total, first, boot, state>>
    BY <1>1 DEF Start
  <2> QED
    BY <2>1, <2>2, MoveTiers
<1>2. ASSUME NEW r \in Runs, RunStep(r) PROVE TierInv'
  BY <1>2, RunStepTiers
<1>3. ASSUME NEW r \in Runs, Throw(r) PROVE TierInv'
  <2>1. \E step \in Over : pc' = [pc EXCEPT ![r] = step]
    BY <1>3 DEF Throw, Goto, AfterThrow, Failing
  <2>2. UNCHANGED <<tiers, changes, aux, copied, total, first, boot, state>>
    BY <1>3 DEF Throw
  <2> QED
    BY <2>1, <2>2, MoveTiers
<1>4. CASE Crash
  <2>1. \A r \in Runs : pc'[r] = pc[r] \/ pc'[r] = "dead"
    BY <1>4 DEF Crash
  <2>2. UNCHANGED <<tiers, changes, aux, copied, total, first, boot, state>>
    BY <1>4 DEF Crash
  <2> QED
    BY <2>1, <2>2, MoveTiers
<1>5. CASE LockTimeout \/ (\E r \in Runs : PruneStep(r)) \/ Ask \/ ListStep
           \/ UNCHANGED vars
  <2>1. UNCHANGED <<tiers, changes, aux, copied, total, first, boot, state, pc>>
    BY <1>5, ListingsOnlyRead
    DEF LockTimeout, PruneStep, PruneFind, PruneDelete, ListOnly, vars
  <2> QED
    BY <2>1, MoveTiers
<1>6. CASE OdooStep
  BY <1>6, OdooStepTiers
<1>7. CASE BootStep
  BY <1>7, BootStepTiers
<1>8. ASSUME NEW r \in Runs, DeleteOne(r) PROVE TierInv'
  <2>1. UNCHANGED <<tiers, changes, aux, copied, total, first, boot, state, pc>>
    BY <1>8, DeleteOneStep
  <2> QED
    BY <2>1, MoveTiers
<1>9. ASSUME NEW r \in Runs, PublishUnacknowledged(r) PROVE TierInv'
  BY <1>9, PublishTiers
<1> QED
  BY <1>1, <1>2, <1>3, <1>4, <1>5, <1>6, <1>7, <1>8, <1>9 DEF Next

LEMMA TierInvariant == Spec => []TierInv
  BY InitTiers, NextTiers, MemberTypes, OrderInvariant, PTL DEF Spec

(* Replaced outside any snapshot, and before the members beside them are   *)
(* validated, the tiers are still never older than the published members', *)
(* and only missing while a later run that has copied everything replaces  *)
(* them or after one has failed there: slow prunes and lost answers        *)
(* included.                                                               *)
THEOREM TiersFit == Spec => []TiersFitMembers
<1>1. TierInv => TiersFitMembers
  BY DEF TierInv
<1> QED
  BY <1>1, TierInvariant, PTL

-----------------------------------------------------------------------------
(* The last run, which Odoo and the faults leave alone: it copies the list *)
(* from its start, and so validates and publishes it.                      *)

(* Odoo lists a partner once. *)
OneRowEach ==
    \A i, j \in DOMAIN source : source[i].member = source[j].member => i = j

Rows(n) == {source[i] : i \in 1..n}

Untroubled == pc[MaxRuns] \notin Failing \cup {"dead"}

Copying ==
    pc[MaxRuns] = "page" =>
        /\ staged[MaxRuns] = Rows(copied[MaxRuns])
        /\ first[MaxRuns] \in {{}, tiers}
        /\ total[MaxRuns] \in {0, Len(source)}

Copied ==
    pc[MaxRuns] \in {"clear", "fill", "count", "publish", "unlock", "done"} =>
        /\ staged[MaxRuns] = Range(source)
        /\ first[MaxRuns] = tiers
        /\ total[MaxRuns] = Len(source)

Delivered ==
    pc[MaxRuns] \in {"unlock", "done"} =>
        /\ state.active = MaxRuns
        /\ boot.step = "none" => aux = tiers

LastRun == OneRowEach /\ Untroubled /\ Copying /\ Copied /\ Delivered

LEMMA LastIsRun == MaxRuns \in Runs /\ \A x \in Runs : x # MaxRuns => x < MaxRuns
  BY MemberAssumption DEF Runs

LEMMA InitLastRun == Init => LastRun
  BY LastIsRun, MemberAssumption
  DEF Init, LastRun, OneRowEach, Untroubled, Copying, Copied, Delivered, Failing

(* Until it begins there is nothing to say of it. *)
LEMMA BeforeLastRun ==
    ASSUME OneRowEach', pc'[MaxRuns] \in {"idle", "begin"}
    PROVE  LastRun'
  BY DEF LastRun, Untroubled, Copying, Copied, Delivered, Failing

(* A step that leaves it and what it has done alone. *)
LEMMA BesideLastRun ==
    ASSUME LastRun, UNCHANGED <<source, tiers, pc, copied, total, first>>,
           staged'[MaxRuns] = staged[MaxRuns], state'.active = state.active,
           boot'.step = "none" => boot.step = "none" /\ aux' = aux
    PROVE  LastRun'
  BY DEF LastRun, OneRowEach, Untroubled, Copying, Copied, Delivered, Rows

(* Odoo keeps one row for each partner. *)
LEMMA OdooStepRows ==
    ASSUME SyncTypes, OneRowEach, OdooStep
    PROVE  OneRowEach'
<1> USE DEF OneRowEach
<1>1. source \in Seq(Item) /\ Len(source) \in Nat /\ DOMAIN source = 1..Len(source)
  BY LenProperties DEF SyncTypes
<1>2. changes + 1 \in 0..MaxChanges
  <2>1. OdooChange
    BY DEF OdooStep, OdooCreate, OdooUpdate, OdooWithdraw, OdooTiers
  <2> QED
    BY <2>1, MemberAssumption DEF OdooChange, SyncTypes
<1>3. ASSUME NEW i \in DOMAIN source
      PROVE  /\ RemoveAt(source, i) \in Seq(Item)
             /\ Len(RemoveAt(source, i)) = Len(source) - 1
             /\ \A j, k \in 1 .. Len(source) - 1 :
                   RemoveAt(source, i)[j].member = RemoveAt(source, i)[k].member
                       => j = k
             /\ \A j \in 1 .. Len(source) - 1 :
                   RemoveAt(source, i)[j].member # source[i].member
  <2> DEFINE t == RemoveAt(source, i)
  <2>1. /\ t \in Seq(Item) /\ Len(t) = Len(source) - 1
        /\ \A k \in 1 .. Len(source) - 1 :
              t[k] = IF k < i THEN source[k] ELSE source[k + 1]
    <3>1. source \in Seq(Item)
      BY <1>1
    <3> HIDE DEF t
    <3>2. t = RemoveAt(source, i)
      BY DEF t
    <3> QED
      BY <3>1, <3>2, RemoveAtProperties
  <2> HIDE DEF t
  <2>2. ASSUME NEW j \in 1 .. Len(source) - 1, NEW k \in 1 .. Len(source) - 1,
               t[j].member = t[k].member
        PROVE  j = k
    <3>1. /\ \E a \in {j, j + 1} : t[j] = source[a] /\ (a = j <=> j < i)
          /\ \E b \in {k, k + 1} : t[k] = source[b] /\ (b = k <=> k < i)
      BY <1>1, <2>1
    <3>2. PICK a \in {j, j + 1}, b \in {k, k + 1} :
                  /\ t[j] = source[a] /\ (a = j <=> j < i)
                  /\ t[k] = source[b] /\ (b = k <=> k < i)
      BY <3>1
    <3>3. a \in DOMAIN source /\ b \in DOMAIN source
      BY <1>1
    <3>4. a = b
      BY <2>2, <3>2, <3>3
    <3> QED
      BY <1>1, <3>2, <3>4
  <2>3. ASSUME NEW j \in 1 .. Len(source) - 1, t[j].member = source[i].member
        PROVE  FALSE
    <3>1. PICK a \in {j, j + 1} : t[j] = source[a] /\ (a = j <=> j < i)
      BY <1>1, <2>1
    <3>2. a \in DOMAIN source /\ a # i
      BY <1>1, <3>1
    <3> QED
      BY <2>3, <3>1, <3>2
  <2>4. t = RemoveAt(source, i)
    BY DEF t
  <2> QED
    BY <2>1, <2>2, <2>3, <2>4
<1>4. ASSUME NEW t \in Seq(Item), NEW row \in Item, source' = Append(t, row),
             \A j, k \in 1 .. Len(t) : t[j].member = t[k].member => j = k,
             \A j \in 1 .. Len(t) : t[j].member # row.member
      PROVE  OneRowEach'
  <2>1. /\ Len(t) \in Nat /\ DOMAIN source' = 1 .. Len(t) + 1
        /\ \A j \in 1 .. Len(t) : source'[j] = t[j]
        /\ source'[Len(t) + 1] = row
    BY <1>4, AppendProperties, LenProperties
  <2>2. \A j \in DOMAIN source' : j \in 1 .. Len(t) \/ j = Len(t) + 1
    BY <2>1
  <2> QED
    BY <1>4, <2>1, <2>2
<1>5. ASSUME NEW m \in Members, OdooCreate(m) PROVE OneRowEach'
  <2> DEFINE row == [member |-> m, written |-> changes + 1]
  <2>1. row \in Item /\ row.member = m
    BY <1>2 DEF Item
  <2>2. source' = Append(source, row) /\ \A i \in 1..Len(source) : source[i].member # m
    BY <1>1, <1>5 DEF OdooCreate
  <2> HIDE DEF row
  <2> QED
    BY <1>1, <1>4, <2>1, <2>2
<1>6. ASSUME NEW i \in DOMAIN source, OdooUpdate(i) PROVE OneRowEach'
  <2> DEFINE row == [source[i] EXCEPT !.written = changes + 1]
             t == RemoveAt(source, i)
  <2>1. row \in Item /\ row.member = source[i].member
    <3>1. source[i] \in Item
      BY <1>1
    <3> QED
      BY <1>2, <3>1 DEF Item
  <2>2. source' = Append(t, row)
    BY <1>6 DEF OdooUpdate
  <2>3. /\ t \in Seq(Item)
        /\ \A j, k \in 1 .. Len(t) : t[j].member = t[k].member => j = k
        /\ \A j \in 1 .. Len(t) : t[j].member # source[i].member
    BY <1>3
  <2> HIDE DEF row, t
  <2> QED
    BY <1>4, <2>1, <2>2, <2>3
<1>7. ASSUME NEW i \in DOMAIN source, OdooWithdraw(i) PROVE OneRowEach'
  <2> DEFINE t == RemoveAt(source, i)
  <2>1. source' = t
    BY <1>7 DEF OdooWithdraw
  <2>2. /\ t \in Seq(Item)
        /\ \A j, k \in 1 .. Len(t) : t[j].member = t[k].member => j = k
    BY <1>3
  <2> HIDE DEF t
  <2> QED
    BY <2>1, <2>2, LenProperties
<1>8. CASE OdooTiers
  BY <1>8 DEF OdooTiers
<1> QED
  BY <1>5, <1>6, <1>7, <1>8 DEF OdooStep

(* Another page of the list continues what was copied of it. *)
LEMMA CopyPageLast ==
    ASSUME SyncTypes, Protocol, TierInv, LastRun, CopyPage(MaxRuns)
    PROVE  LastRun'
<1> DEFINE r == MaxRuns
           c == copied[r]
           page == OdooPage(c)
<1>1. r \in Runs /\ pc[r] = "page"
  BY LastIsRun DEF CopyPage
<1>2. /\ source \in Seq(Item) /\ Len(source) \in Nat /\ DOMAIN source = 1..Len(source)
      /\ c \in Nat /\ total[r] \in Nat /\ c <= total[r]
  BY <1>1, LenProperties DEF SyncTypes, TierInv, RunFits
<1>3. SourceTotal(r) = Len(source) /\ c <= Len(source)
  BY <1>2 DEF CopyPage, SourceTotal
<1>4. /\ UNCHANGED <<source, tiers, state, boot>>
      /\ staged'[r] = Upsert(staged[r], Range(page))
      /\ copied'[r] = c + Len(page) /\ total'[r] = Len(source)
      /\ first'[r] = IF first[r] = {} THEN tiers ELSE first[r]
      /\ pc'[r] = IF c + Len(page) < Len(source) THEN "page" ELSE "clear"
  BY <1>1, <1>3
  DEF CopyPage, Goto, AfterPage, SyncTypes, odooVars, clientVars
<1>5. first'[r] = tiers
  BY <1>1, <1>4 DEF LastRun, Copying
<1>6. /\ page \in Seq(Item) /\ Len(page) \in Nat /\ c + Len(page) <= Len(source)
      /\ \A k \in 1 .. Len(page) : page[k] = source[c + k]
  <2> DEFINE end == c + PageLimit
             last == IF end < Len(source) THEN end ELSE Len(source)
  <2>1. PageLimit \in Nat
    BY MemberAssumption
  <2>2. last \in Nat /\ c <= last /\ last <= Len(source)
    BY <1>2, <1>3, <2>1
  <2>3. page = SubSeq(source, c + 1, last)
    BY DEF OdooPage
  <2> HIDE DEF last, page, c
  <2>4. \A k \in c + 1 .. last : source[k] \in Item
    BY <1>2, <2>2
  <2>5. c + 1 \in Int /\ last \in Int
    BY <1>2, <2>2
  <2>6. /\ page \in Seq(Item)
        /\ Len(page) = IF c + 1 <= last THEN last - (c + 1) + 1 ELSE 0
        /\ \A k \in 1 .. last - (c + 1) + 1 : page[k] = source[c + 1 + k - 1]
    BY <2>3, <2>4, <2>5, SubSeqProperties
  <2>7. Len(page) = last - c
    BY <1>2, <2>2, <2>6
  <2>8. \A k \in 1 .. Len(page) : c + 1 + k - 1 = c + k /\ k \in 1 .. last - (c + 1) + 1
    BY <1>2, <2>2, <2>7
  <2> QED
    BY <1>2, <2>2, <2>6, <2>7, <2>8
<1>7. staged[r] = Rows(c)
  BY <1>1 DEF LastRun, Copying
<1> HIDE DEF page, c
<1>8. Range(page) = {source[i] : i \in c + 1 .. c + Len(page)}
  <2>1. Range(page) = {page[k] : k \in 1 .. Len(page)}
    BY <1>6, RangeEquality
  <2>2. ASSUME NEW k \in 1 .. Len(page)
        PROVE  page[k] \in {source[i] : i \in c + 1 .. c + Len(page)}
    <3>1. c + k \in c + 1 .. c + Len(page) /\ page[k] = source[c + k]
      BY <1>2, <1>6
    <3> QED
      BY <3>1
  <2>3. ASSUME NEW i \in c + 1 .. c + Len(page)
        PROVE  source[i] \in {page[k] : k \in 1 .. Len(page)}
    <3>1. i - c \in 1 .. Len(page) /\ c + (i - c) = i
      BY <1>2, <1>6
    <3>2. page[i - c] = source[i]
      BY <1>6, <3>1
    <3> QED
      BY <3>1, <3>2
  <2> QED
    BY <2>1, <2>2, <2>3
<1>9. staged'[r] = Rows(c + Len(page))
  <2>1. \A d \in Rows(c), row \in Range(page) : row.member # d.member
    <3> SUFFICES ASSUME NEW i \in 1..c, NEW j \in c + 1 .. c + Len(page)
                 PROVE  source[j].member # source[i].member
      BY <1>8 DEF Rows
    <3>1. i \in DOMAIN source /\ j \in DOMAIN source /\ i # j
      BY <1>2, <1>6
    <3> QED
      BY <3>1 DEF LastRun, OneRowEach
  <2>2. staged'[r] = Rows(c) \cup Range(page)
    BY <1>4, <1>7, <2>1 DEF Upsert
  <2>3. \A i : i \in 1 .. c + Len(page) <=> i \in 1..c \/ i \in c + 1 .. c + Len(page)
    BY <1>2, <1>6
  <2> QED
    BY <1>8, <2>2, <2>3 DEF Rows
<1>10. Rows(Len(source)) = Range(source)
  BY <1>2, RangeEquality DEF Rows
<1>11. CASE c + Len(page) < Len(source)
  BY <1>4, <1>5, <1>9, <1>11
  DEF LastRun, OneRowEach, Untroubled, Copying, Copied, Delivered, Rows, Failing
<1>12. CASE ~(c + Len(page) < Len(source))
  <2>1. c + Len(page) = Len(source)
    <3>1. c \in Nat /\ Len(page) \in Nat /\ Len(source) \in Nat
      BY <1>2, <1>6
    <3>2. c + Len(page) <= Len(source)
      BY <1>6
    <3> QED
      BY <1>12, <3>1, <3>2
  <2>2. staged'[r] = Range(source)
    BY <1>9, <1>10, <2>1
  <2> QED
    BY <1>4, <1>5, <1>12, <2>2
    DEF LastRun, OneRowEach, Untroubled, Copying, Copied, Delivered, Failing
<1> QED
  BY <1>11, <1>12

LEMMA LastRunSteps ==
    ASSUME SyncTypes, Protocol, TierInv, LastRun, RunStep(MaxRuns)
    PROVE  LastRun'
<1> DEFINE r == MaxRuns
<1> USE DEF odooVars, dbVars, runVars, pruneVars, clientVars, Goto,
            LastRun, OneRowEach, Untroubled, Copying, Copied, Delivered, Failing
<1>1. r \in Runs
  BY LastIsRun
<1>2. pc \in [Runs -> Places] /\ staged \in [Runs -> SUBSET Item]
  BY DEF SyncTypes
<1>3. CASE Begin(r)
  <2>1. first[r] = {} /\ copied[r] = 0 /\ total[r] = 0
    BY <1>1, <1>3 DEF Begin, TierInv, RunFits
  <2>2. Rows(0) = {}
    BY DEF Rows
  <2>3. pc'[r] = "page" /\ staged'[r] = {}
    BY <1>1, <1>2, <1>3 DEF Begin
  <2>4. UNCHANGED <<source, tiers, copied, total, first>>
    BY <1>3 DEF Begin
  <2> QED
    BY <2>1, <2>2, <2>3, <2>4 DEF Rows
<1>4. CASE CopyPage(r)
  BY <1>4, CopyPageLast
<1>5. CASE TotalMoved(r)
  BY <1>5 DEF TotalMoved, SourceTotal
<1>6. CASE ClearTiers(r)
  <2>1. pc[r] = "clear" /\ pc'[r] = "fill"
    BY <1>1, <1>2, <1>6 DEF ClearTiers
  <2>2. UNCHANGED <<source, tiers, staged, total, first>>
    BY <1>6 DEF ClearTiers
  <2> QED
    BY <2>1, <2>2
<1>7. CASE FillTiers(r)
  <2>1. pc[r] = "fill" /\ pc'[r] = "count"
    BY <1>1, <1>2, <1>7 DEF FillTiers
  <2>2. UNCHANGED <<source, tiers, staged, total, first>>
    BY <1>7 DEF FillTiers
  <2> QED
    BY <2>1, <2>2
<1>8. CASE Count(r)
  <2>1. pc[r] = "count"
    BY <1>8 DEF Count
  <2>2. Cardinality(staged[r]) = total[r]
    <3>1. \A i, j \in DOMAIN source : source[i] = source[j] => i = j
      OBVIOUS
    <3>2. source \in Seq(Item)
      BY DEF SyncTypes
    <3>3. Cardinality(Range(source)) = Len(source)
      BY <3>1, <3>2, RangeSize
    <3> QED
      BY <2>1, <3>3
  <2>3. pc'[r] = "publish"
    BY <1>1, <1>2, <1>8, <2>2 DEF Count
  <2>4. UNCHANGED <<source, tiers, staged, total, first>>
    BY <1>8 DEF Count
  <2> QED
    BY <2>1, <2>3, <2>4
<1>9. CASE Publish(r)
  <2>1. pc[r] = "publish" /\ pc'[r] = "unlock" /\ state'.active = r
    BY <1>1, <1>2, <1>9 DEF Publish, Published
  <2>2. UNCHANGED <<source, tiers, staged, total, first, aux, boot>>
    BY <1>9 DEF Publish
  <2>3. boot.step = "none" => aux = first[r]
    BY <1>1, <2>1 DEF TierInv, RunFits
  <2> QED
    BY <2>1, <2>2, <2>3
<1>10. CASE FailMark(r) \/ FailDocs(r)
  BY <1>10 DEF FailMark, FailDocs
<1>11. CASE Unlock(r)
  <2>1. pc[r] = "unlock" /\ pc'[r] = "done"
    BY <1>1, <1>2, <1>11 DEF Unlock
  <2>2. UNCHANGED <<source, tiers, staged, total, first, aux, boot, state>>
    BY <1>11 DEF Unlock
  <2> QED
    BY <2>1, <2>2
<1> QED
  BY <1>3, <1>4, <1>5, <1>6, <1>7, <1>8, <1>9, <1>10, <1>11 DEF RunStep

LEMMA NextLastRun ==
    ASSUME QuietEnv, SyncTypes, Protocol, TierInv, LastRun, [Next]_vars
    PROVE  LastRun'
<1> USE DEF odooVars, dbVars, runVars, pruneVars, clientVars
<1>0. pc \in [Runs -> Places] /\ MaxRuns \in Runs /\ OneRowEach
  BY LastIsRun DEF SyncTypes, LastRun
<1>1. ASSUME pc[MaxRuns] = "idle", pc'[MaxRuns] = "idle", UNCHANGED source
      PROVE  LastRun'
  BY <1>0, <1>1, BeforeLastRun DEF OneRowEach
<1>2. ASSUME NEW x \in Runs, Live(x), x # MaxRuns PROVE pc[MaxRuns] = "idle"
  BY <1>0, <1>2, LastIsRun, LiveIsNewest DEF Protocol
<1>3. ASSUME NEW x \in Runs, Start(x) PROVE LastRun'
  <2>1. pc[MaxRuns] = "idle"
    BY <1>0, <1>3, LastIsRun DEF Start, IsNext, Protocol, Order, InOrder
  <2>2. pc'[MaxRuns] \in {"idle", "begin"} /\ source' = source
    BY <1>0, <1>3, <2>1 DEF Start, Goto
  <2> QED
    BY <1>0, <2>2, BeforeLastRun DEF OneRowEach
<1>4. ASSUME NEW x \in Runs, RunStep(x) PROVE LastRun'
  <2>1. CASE x = MaxRuns
    BY <1>4, <2>1, LastRunSteps
  <2>2. CASE x # MaxRuns
    <3>1. Live(x)
      BY <1>4 DEF RunStep, Begin, CopyPage, TotalMoved, ClearTiers, FillTiers,
                  Count, Publish, FailMark, FailDocs, Unlock, Live, Critical,
                  Failing
    <3>2. \E step : Goto(x, step)
      BY <1>4 DEF RunStep, Begin, CopyPage, TotalMoved, ClearTiers, FillTiers,
                  Count, Publish, FailMark, FailDocs, Unlock
    <3>3. source' = source
      BY <1>4 DEF RunStep, Begin, CopyPage, TotalMoved, ClearTiers, FillTiers,
                  Count, Publish, FailMark, FailDocs, Unlock
    <3> QED
      BY <1>0, <1>1, <1>2, <2>2, <3>1, <3>2, <3>3 DEF Goto
  <2> QED
    BY <2>1, <2>2
<1>5. ASSUME NEW x \in Runs, PruneStep(x) PROVE LastRun'
  <2>1. /\ UNCHANGED <<source, tiers, pc, copied, total, first, state, boot, aux>>
        /\ staged'[x] = staged[x]
    BY <1>5 DEF PruneStep, PruneFind, PruneDelete, SyncTypes
  <2>2. state.active = x /\ \A y \in Runs : Live(y) => y = x
    BY <1>5 DEF PruneStep, PruneFind, PruneDelete, Protocol, PruneOfActive
  <2>3. CASE pc[MaxRuns] = "idle"
    BY <1>1, <2>1, <2>3
  <2>4. CASE pc[MaxRuns] # "idle"
    <3>1. Live(MaxRuns) \/ pc[MaxRuns] = "done"
      BY <1>0, <2>4 DEF LastRun, Untroubled, Places, Live
    <3>2. x = MaxRuns
      BY <1>0, <2>2, <3>1 DEF LastRun, Delivered
    <3> QED
      BY <2>1, <3>2, BesideLastRun
  <2> QED
    BY <2>3, <2>4
<1>6. ASSUME NEW x \in Runs, Throw(x) PROVE LastRun'
  <2>1. pc[MaxRuns] = "idle" /\ x # MaxRuns /\ source' = source
    BY <1>6 DEF Throw, RunsRemain, Live, Critical, Failing
  <2> QED
    BY <1>0, <1>1, <1>6, <2>1 DEF Throw, Goto
<1>7. CASE Crash
  <2>1. pc[MaxRuns] = "idle" /\ pc'[MaxRuns] = "idle" /\ source' = source
    BY <1>0, <1>7 DEF Crash, RunsRemain, Live, Critical, Failing
  <2> QED
    BY <1>1, <2>1
<1>8. CASE LockTimeout \/ Ask \/ ListStep \/ UNCHANGED vars
  <2>1. UNCHANGED <<source, tiers, pc, copied, total, first, staged, state, boot, aux>>
    BY <1>8, ListingsOnlyRead DEF LockTimeout, ListOnly, vars
  <2> QED
    BY <2>1, BesideLastRun
<1>9. CASE OdooStep
  <2>1. OdooChange
    BY <1>9 DEF OdooStep, OdooCreate, OdooUpdate, OdooWithdraw, OdooTiers
  <2>2. pc'[MaxRuns] = "idle"
    BY <2>1 DEF OdooChange, RunsRemain
  <2> QED
    BY <1>0, <1>9, <2>2, OdooStepRows, BeforeLastRun
<1>10. CASE BootStep
  <2>1. UNCHANGED <<source, tiers, pc, copied, total, first, staged>>
    BY <1>10 DEF BootStep, BootFetch, BootWrite, BootCount, BootState, BootOnly
  <2>2. state'.active = state.active
    BY <1>10 DEF BootStep, BootFetch, BootWrite, BootCount, BootState,
                 SyncTypes, SyncState
  <2>3. boot'.step # "none"
    BY <1>10 DEF BootStep, BootFetch, BootWrite, BootCount, BootState,
                 SyncTypes, Boot
  <2> QED
    BY <2>1, <2>2, <2>3, BesideLastRun
<1>11. ASSUME NEW x \in Runs, DeleteOne(x) PROVE LastRun'
  <2>1. /\ UNCHANGED <<source, tiers, pc, copied, total, first, state, boot, aux>>
        /\ \/ x = MaxRuns /\ pc[x] = "failDocs"
           \/ prune[x] = "delete" /\ (x = MaxRuns => staged'[x] = staged[x])
           \/ staged'[MaxRuns] = staged[MaxRuns]
    BY <1>0, <1>11, DeleteOneStep
  <2>2. ~(x = MaxRuns /\ pc[x] = "failDocs")
    BY DEF LastRun, Untroubled, Failing
  <2>3. CASE staged'[MaxRuns] = staged[MaxRuns]
    BY <2>1, <2>3, BesideLastRun
  <2>4. CASE prune[x] = "delete" /\ (x = MaxRuns => staged'[x] = staged[x])
    <3>1. state.active = x /\ \A y \in Runs : Live(y) => y = x
      BY <2>4 DEF Protocol, PruneOfActive
    <3>2. CASE pc[MaxRuns] = "idle"
      BY <1>1, <2>1, <3>2
    <3>3. CASE pc[MaxRuns] # "idle"
      <4>1. Live(MaxRuns) \/ pc[MaxRuns] = "done"
        BY <1>0, <3>3 DEF LastRun, Untroubled, Places, Live
      <4>2. x = MaxRuns
        BY <1>0, <3>1, <4>1 DEF LastRun, Delivered
      <4> QED
        BY <2>1, <2>4, <4>2, BesideLastRun
    <3> QED
      BY <3>2, <3>3
  <2> QED
    BY <2>1, <2>2, <2>3, <2>4
<1>12. \A x \in Runs : ~PublishUnacknowledged(x)
  BY DEF PublishUnacknowledged, QuietEnv
<1> QED
  BY <1>3, <1>4, <1>5, <1>6, <1>7, <1>8, <1>9, <1>10, <1>11, <1>12 DEF Next

(* Whatever earlier runs left behind - documents, a status, cleared tiers, *)
(* a lock - and however long the list is, a run that is left alone ends by *)
(* publishing exactly Odoo's members and tiers, where earlier prunes are   *)
(* over when it starts.                                                    *)
THEOREM QuietRunsPublish == QuietEnv => (Spec => []QuietRunPublishes)
<1>1. LastRun => QuietRunPublishes
  BY DEF LastRun, Copied, Delivered, QuietRunPublishes
<1>2. ASSUME QuietEnv PROVE Spec => []LastRun
  <2>1. Spec => []Protocol
    BY <1>2, ProtocolInvariant
  <2>2. SyncTypes /\ Protocol /\ TierInv /\ LastRun /\ [Next]_vars => LastRun'
    BY <1>2, NextLastRun
  <2> QED
    BY <2>1, <2>2, InitLastRun, MemberTypes, TierInvariant, PTL DEF Spec
<1>3. ASSUME QuietEnv PROVE Spec => []QuietRunPublishes
  <2>1. Spec => []LastRun
    BY <1>2, <1>3
  <2> QED
    BY <1>1, <2>1, PTL
<1> QED
  BY <1>3

-----------------------------------------------------------------------------
(* Reading the members.  What a client can count on: the snapshot the      *)
(* prune keeps is the newest with documents but the active one, and while  *)
(* a prune is pending no later run has started.                            *)

Others(r) == {x \in Runs \ {r} : staged[x] # {}}

IdleEmpty == \A x \in Runs : pc[x] = "idle" => staged[x] = {}

PruneBeforeNext ==
    \A r \in Runs : prune[r] # "none" => \A x \in Runs : r < x => pc[x] = "idle"

NewestKept ==
    \A r \in Runs : prune[r] = "delete" =>
        /\ keep[r] \in Others(r) \cup {None}
        /\ \A x \in Others(r) : x <= keep[r]

KeepInv == IdleEmpty /\ PruneBeforeNext /\ NewestKept

LEMMA InitKeep == Init => KeepInv
  BY DEF Init, KeepInv, IdleEmpty, PruneBeforeNext, NewestKept

(* A prune's deleteMany takes a document, or all that are left. *)
PruneDeletes(r) == PruneDelete(r) \/ (prune[r] = "delete" /\ DeleteOne(r))

(* What one step can do to one run. *)
MoveOf(x) ==
    /\ staged'[x] \subseteq staged[x] \/ Live(x)
    /\ \/ staged'[x] = staged[x]
       \/ Live(x) /\ pc[x] # "unlock"
       \/ \E r \in Runs : PruneDeletes(r)
    /\ pc'[x] = pc[x] \/ Live(x) \/ (pc[x] = "idle" /\ Start(x))
    /\ pc'[x] = "idle" => pc[x] = "idle"
    /\ prune'[x] # "none" => prune[x] # "none" \/ Publish(x)
    /\ prune'[x] = "delete" =>
          \/ PruneFind(x)
          \/ prune[x] = "delete" /\ keep'[x] = keep[x]

LEMMA EachMove ==
    ASSUME SyncTypes, [Next]_vars, NEW x \in Runs
    PROVE  MoveOf(x)
<1> USE DEF SyncTypes, MoveOf, Live, Critical, Failing, Goto, dbVars, runVars, pruneVars
<1>1. ASSUME NEW r \in Runs, Start(r) PROVE MoveOf(x)
  BY <1>1 DEF Start, IsNext
<1>2. ASSUME NEW r \in Runs, RunStep(r) PROVE MoveOf(x)
  <2>1. CASE Begin(r) \/ CopyPage(r) \/ TotalMoved(r)
    BY <2>1 DEF Begin, CopyPage, TotalMoved, AfterPage
  <2>2. CASE ClearTiers(r) \/ FillTiers(r) \/ Count(r)
    BY <2>2 DEF ClearTiers, FillTiers, Count
  <2>3. CASE Publish(r)
    BY <2>3 DEF Publish
  <2>4. CASE FailMark(r) \/ FailDocs(r) \/ Unlock(r)
    BY <2>4 DEF FailMark, FailDocs, Unlock
  <2> QED
    BY <1>2, <2>1, <2>2, <2>3, <2>4 DEF RunStep
<1>3. ASSUME NEW r \in Runs, PruneStep(r) PROVE MoveOf(x)
  <2>1. CASE PruneFind(r)
    BY <2>1 DEF PruneFind
  <2>2. CASE PruneDelete(r)
    BY <2>2 DEF PruneDelete, PruneDeletes
  <2> QED
    BY <1>3, <2>1, <2>2 DEF PruneStep
<1>4. ASSUME NEW r \in Runs, Throw(r) PROVE MoveOf(x)
  <2>1. AfterThrow(pc[r]) # "idle"
    BY DEF AfterThrow
  <2> QED
    BY <1>4, <2>1 DEF Throw
<1>5. CASE Crash
  BY <1>5 DEF Crash
<1>6. CASE LockTimeout \/ OdooStep \/ BootStep \/ Ask \/ ListStep \/ UNCHANGED vars
  <2>1. UNCHANGED <<staged, pc, prune, keep>>
    BY <1>6, ListingsOnlyRead
    DEF LockTimeout, OdooStep, OdooCreate, OdooUpdate, OdooWithdraw, OdooTiers,
        OdooChange, BootStep, BootFetch, BootWrite, BootCount, BootState, BootOnly,
        ListOnly, vars
  <2> QED
    BY <2>1
<1>7. ASSUME NEW r \in Runs, DeleteOne(r) PROVE MoveOf(x)
  <2>1. UNCHANGED <<pc, prune, keep>> /\ staged'[x] \subseteq staged[x]
    BY <1>7, DeleteOneStep
  <2>2. \/ staged'[x] = staged[x]
        \/ x = r /\ pc[r] = "failDocs"
        \/ PruneDeletes(r)
    BY <1>7, DeleteOneStep DEF PruneDeletes
  <2> QED
    BY <2>1, <2>2
<1>8. ASSUME NEW r \in Runs, PublishUnacknowledged(r) PROVE MoveOf(x)
  BY <1>8 DEF PublishUnacknowledged
<1> QED
  BY <1>1, <1>2, <1>3, <1>4, <1>5, <1>6, <1>7, <1>8 DEF Next

LEMMA NextKeep ==
    ASSUME QuietEnv, SyncTypes, Protocol, KeepInv, [Next]_vars
    PROVE  KeepInv'
<1>1. \A x \in Runs : MoveOf(x)
  BY EachMove
<1>2. IdleEmpty'
  <2>1. ASSUME NEW x \in Runs, pc'[x] = "idle" PROVE staged'[x] = {}
    <3>1. pc[x] = "idle" /\ ~Live(x)
      BY <1>1, <2>1 DEF MoveOf, Live, Critical, Failing
    <3>2. staged[x] = {}
      BY <3>1 DEF KeepInv, IdleEmpty
    <3> QED
      BY <1>1, <3>1, <3>2 DEF MoveOf
  <2> QED BY <2>1 DEF IdleEmpty
<1>3. PruneBeforeNext'
  <2>1. ASSUME NEW r \in Runs, NEW x \in Runs, prune'[r] # "none", r < x
        PROVE  pc'[x] = "idle"
    <3>1. CASE prune[r] # "none"
      <4>1. pc[x] = "idle"
        BY <2>1, <3>1 DEF KeepInv, PruneBeforeNext
      <4>2. ~Start(x) /\ ~Live(x)
        BY <3>1, <4>1 DEF Start, QuietEnv, Live, Critical, Failing
      <4> QED BY <1>1, <4>1, <4>2 DEF MoveOf
    <3>2. CASE Publish(r)
      <4>1. Live(r) /\ pc' = [pc EXCEPT ![r] = "unlock"] /\ x # r
        <5>1. r \in Int
          BY DEF Runs
        <5> QED BY <2>1, <3>2, <5>1 DEF Publish, Goto, Live, Critical
      <4>2. pc[x] = "idle"
        BY <2>1, <4>1, LiveIsNewest DEF Protocol
      <4> QED BY <4>1, <4>2 DEF SyncTypes
    <3> QED BY <1>1, <2>1, <3>1, <3>2 DEF MoveOf
  <2> QED BY <2>1 DEF PruneBeforeNext
<1>4. NewestKept'
  <2>1. ASSUME NEW r \in Runs, prune'[r] = "delete"
        PROVE  keep'[r] \in Others(r)' \cup {None} /\ \A x \in Others(r)' : x <= keep'[r]
    <3>1. CASE PruneFind(r)
      BY <3>1 DEF PruneFind, Others, dbVars, SyncTypes
    <3>2. CASE prune[r] = "delete" /\ keep'[r] = keep[r]
      <4>1. state.active = r /\ \A x \in Runs : Live(x) => x = r
        BY <3>2 DEF Protocol, PruneOfActive
      <4>2. \A x \in Runs : Live(x) => pc[x] = "unlock"
        BY <4>1 DEF Protocol, NotYetActive, Unpublished, Live
      <4>3. ASSUME NEW z \in Runs, PruneDelete(z) PROVE FALSE
        <5>1. prune[z] # "none" /\ prune'[z] = "none"
          BY <4>3 DEF PruneDelete, SyncTypes
        <5>2. z = r
          BY <4>1, <5>1 DEF Protocol, PruneOfActive
        <5> QED BY <2>1, <5>1, <5>2
      <4>4. \A x \in Runs : staged'[x] \subseteq staged[x]
        <5>1. ASSUME NEW x \in Runs, Live(x) PROVE staged'[x] \subseteq staged[x]
          <6>1. pc[x] = "unlock"
            BY <4>2, <5>1
          <6>2. CASE \E z \in Runs : PruneDeletes(z)
            BY <4>3, <6>2, DeleteOneStep DEF PruneDeletes
          <6> QED BY <1>1, <6>1, <6>2 DEF MoveOf
        <5> QED BY <1>1, <5>1 DEF MoveOf
      <4>5. Others(r)' \subseteq Others(r)
        BY <4>4 DEF Others
      <4>6. keep[r] \in Runs => staged'[keep[r]] = staged[keep[r]]
        <5>1. ASSUME keep[r] \in Runs, NEW z \in Runs, PruneDeletes(z)
              PROVE  staged'[keep[r]] = staged[keep[r]]
          <6>1. DeleteOne(z) /\ prune[z] # "none"
            BY <4>3, <5>1 DEF PruneDeletes
          <6>2. z = r
            BY <4>1, <6>1 DEF Protocol, PruneOfActive
          <6>3. pc[r] # "failDocs"
            BY <4>1 DEF Protocol, NotYetActive, Unpublished, Critical, Failing
          <6> QED BY <5>1, <6>1, <6>2, <6>3, DeleteOneStep
        <5>2. keep[r] \in Runs => (Live(keep[r]) => pc[keep[r]] = "unlock")
          BY <4>2
        <5> QED BY <1>1, <5>1, <5>2 DEF MoveOf
      <4>7. keep[r] \in Others(r) \cup {None} /\ \A x \in Others(r) : x <= keep[r]
        BY <3>2 DEF KeepInv, NewestKept
      <4>8. keep[r] \in Others(r)' \cup {None}
        BY <4>6, <4>7 DEF Others
      <4> QED
        BY <3>2, <4>5, <4>7, <4>8
    <3> QED BY <1>1, <2>1, <3>1, <3>2 DEF MoveOf
  <2> QED BY <2>1 DEF NewestKept, Others
<1> QED
  BY <1>2, <1>3, <1>4 DEF KeepInv

(* So what a client can count on does not change under it. *)
LEMMA ReadableKept ==
    ASSUME QuietEnv, SyncTypes, Protocol, KeepInv, [Next]_vars,
           NEW s \in RunOrNone, s <= state.active, Readable(s)'
    PROVE  Readable(s) /\ staged'[s] = staged[s]
<1>0. /\ s \in Runs /\ s # None /\ s \in Nat /\ state.active \in Runs /\ state.active \in Nat
  <2>1. s # None /\ None = 0
    BY DEF Readable, None
  <2>2. s \in Nat /\ state.active \in RunOrNone /\ state.active \in Nat
    BY DEF SyncTypes, SyncState, RunOrNone, Runs, None
  <2>3. state.active # 0
    BY <2>1, <2>2
  <2> QED BY <2>1, <2>2, <2>3 DEF RunOrNone
<1>1. \A x \in Runs : MoveOf(x)
  BY EachMove
<1>2. \A x \in Runs : x < state.active => pc[x] # "idle" /\ ~Live(x)
  BY <1>0 DEF Protocol, Order, InOrder, NotYetActive, Unpublished
<1>3. \A x \in Runs : x < state.active => pc'[x] = pc[x]
  BY <1>1, <1>2 DEF MoveOf
<1>4. CASE KeepsActive
  <2>1. state'.active = state.active /\ staged'[state.active] = staged[state.active]
    BY <1>0, <1>4 DEF KeepsActive, Runs, None
  <2>2. CASE s = state.active
    BY <1>0, <2>1, <2>2 DEF Readable
  <2>3. CASE s # state.active
    <3>1. s < state.active
      BY <1>0, <2>3
    <3>2. \A x \in s + 1 .. state.active - 1 : pc'[x] = "done" /\ staged'[x] = {}
      BY <2>1, <2>3 DEF Readable
    <3>3. \A x \in s + 1 .. state.active - 1 : x \in Runs /\ x < state.active /\ s < x
      <4>1. \A a \in Runs : a \in Nat /\ 1 <= a /\ a <= MaxRuns
        BY DEF Runs
      <4>2. ASSUME NEW x \in s + 1 .. state.active - 1
            PROVE  x \in Runs /\ x < state.active /\ s < x
        <5>1. x \in Nat /\ x < state.active /\ s < x
          BY <1>0
        <5>2. 1 <= x /\ x <= MaxRuns /\ MaxRuns \in Nat
          BY <1>0, <4>1, <5>1, MemberAssumption
        <5> QED BY <5>1, <5>2 DEF Runs
      <4> QED BY <4>2
    <3>4. CASE \E r \in Runs : PruneDeletes(r)
      <4>1. PICK r \in Runs : PruneDeletes(r)
        BY <3>4
      <4>2. prune[r] = "delete" /\ r = state.active
        BY <4>1 DEF PruneDeletes, PruneDelete, Protocol, PruneOfActive
      <4>3. /\ keep[r] \in Others(r) \cup {None}
            /\ \A x \in Others(r) : x <= keep[r]
        BY <4>2 DEF KeepInv, NewestKept
      <4>4. /\ keep[r] \in Runs => staged'[keep[r]] = staged[keep[r]]
            /\ \A x \in Runs : staged'[x] \subseteq staged[x]
        <5>1. CASE PruneDelete(r)
          BY <5>1 DEF PruneDelete
        <5>2. CASE DeleteOne(r)
          <6>1. pc[r] # "failDocs"
            BY <4>2 DEF Protocol, NotYetActive, Unpublished, Critical, Failing
          <6> QED BY <5>2, <6>1, DeleteOneStep
        <5> QED BY <4>1, <5>1, <5>2 DEF PruneDeletes
      <4>5. \A x \in Others(r) : x < state.active
        <5>1. ASSUME NEW x \in Others(r) PROVE x < state.active
          <6>1. x \in Runs /\ x # r /\ staged[x] # {}
            BY DEF Others
          <6>2. pc[x] # "idle"
            BY <6>1 DEF KeepInv, IdleEmpty
          <6>3. ~(r < x)
            BY <4>2, <6>1, <6>2 DEF KeepInv, PruneBeforeNext
          <6>4. x \in Nat /\ r \in Nat
            BY <6>1 DEF Runs
          <6> QED BY <4>2, <6>1, <6>3, <6>4
        <5> QED BY <5>1
      <4>6. ASSUME NEW x \in Others(r), s < x PROVE FALSE
        <5>1. x <= keep[r]
          BY <4>3
        <5>2. keep[r] # None /\ keep[r] \in Others(r)
          <6>1. x \in Nat /\ x # 0
            BY DEF Others, Runs
          <6> QED BY <4>3, <5>1, <6>1 DEF None
        <5>3. keep[r] < state.active /\ keep[r] \in Runs /\ staged[keep[r]] # {}
          BY <4>5, <5>2 DEF Others
        <5>4. x \in Nat /\ keep[r] \in Nat
          BY <5>3 DEF Others, Runs
        <5>5. keep[r] \in s + 1 .. state.active - 1
          BY <1>0, <4>6, <5>1, <5>3, <5>4
        <5>6. staged'[keep[r]] = staged[keep[r]]
          BY <4>4, <5>3
        <5> QED BY <3>2, <5>3, <5>5, <5>6
      <4>7. \A x \in s + 1 .. state.active - 1 : pc[x] = "done" /\ staged[x] = {}
        BY <1>3, <3>2, <3>3, <4>2, <4>6 DEF Others
      <4>8. Readable(s)
        BY <1>0, <3>1, <4>7 DEF Readable
      <4>9. CASE staged[s] = {}
        BY <1>0, <4>4, <4>8, <4>9
      <4>10. CASE staged[s] # {}
        <5>1. s \in Others(r)
          BY <1>0, <2>3, <4>2, <4>10 DEF Others
        <5>2. s <= keep[r]
          BY <4>3, <5>1
        <5>3. keep[r] \in Others(r)
          <6>1. keep[r] # None
            BY <1>0, <4>3, <5>2 DEF None
          <6> QED BY <4>3, <6>1
        <5>4. ~(s < keep[r]) /\ keep[r] \in Nat
          BY <4>6, <5>3 DEF Others, Runs
        <5>5. keep[r] = s
          BY <1>0, <5>2, <5>4
        <5> QED BY <1>0, <4>4, <4>8, <5>5
      <4> QED BY <4>9, <4>10
    <3>5. CASE ~(\E r \in Runs : PruneDeletes(r))
      <4>1. \A x \in Runs : x < state.active => staged'[x] = staged[x]
        BY <1>1, <1>2, <3>5 DEF MoveOf
      <4>2. \A x \in s + 1 .. state.active - 1 : pc[x] = "done" /\ staged[x] = {}
        BY <1>3, <3>2, <3>3, <4>1
      <4> QED BY <1>0, <3>1, <4>1, <4>2 DEF Readable
    <3> QED BY <3>4, <3>5
  <2> QED BY <2>2, <2>3
<1>5. ASSUME NEW r \in Runs, Publish(r) PROVE Readable(s) /\ staged'[s] = staged[s]
  <2>1. /\ pc[r] = "publish" /\ state'.active = r /\ staged' = staged
        /\ Live(r) /\ pc[r] \in Early
    BY <1>5 DEF Publish, Published, Live, Critical, Early
  <2>2. state.active < r /\ r \in Nat
    BY <2>1, LiveIsNewer DEF Protocol, Runs
  <2>3. s < r
    BY <1>0, <2>2
  <2>4. \A x \in s + 1 .. r - 1 : pc'[x] = "done" /\ staged[x] = {}
    BY <1>0, <2>1, <2>2, <2>3 DEF Readable
  <2>5. CASE s = state.active
    BY <1>0, <2>1, <2>5 DEF Readable
  <2>6. CASE s # state.active
    <3>1. s < state.active
      BY <1>0, <2>6
    <3>2. ASSUME NEW x \in s + 1 .. state.active - 1
          PROVE  pc[x] = "done" /\ staged[x] = {}
      <4>1. x \in Nat /\ s < x /\ x < state.active /\ x \in s + 1 .. r - 1
        BY <1>0, <2>2
      <4>2. x \in Runs
        <5>1. 1 <= x /\ x <= MaxRuns /\ MaxRuns \in Nat
          BY <1>0, <4>1, MemberAssumption DEF Runs
        <5> QED BY <4>1, <5>1 DEF Runs
      <4> QED BY <1>3, <2>4, <4>1, <4>2
    <3> QED BY <1>0, <2>1, <3>1, <3>2 DEF Readable
  <2> QED BY <2>5, <2>6
<1> QED
  BY <1>4, <1>5, NextProtocol

-----------------------------------------------------------------------------
(* The types of a client's listing. *)

(* No two members share a date and a partner, so the sort order is total.  *)
LEMMA DateOrders == ASSUME NEW S, S \subseteq Item PROVE Orders(DateOrder, S)
<1>1. \A x \in Item : x.member \in Nat /\ x.written \in Nat
  <2>1. Members \subseteq Nat /\ 0..MaxChanges \subseteq Nat
    BY MemberAssumption
  <2> QED
    BY <2>1 DEF Item
<1>2. \A x, y \in Item : x.member = y.member /\ x.written = y.written => x = y
  BY DEF Item
<1>3. \A x, y \in Item : <<x, y>> \in DateOrder <=> Before(x, y)
  BY DEF DateOrder
<1>4. \A x \in Item : ~Before(x, x)
  BY <1>1 DEF Before
<1>5. \A x, y, z \in Item : Before(x, y) /\ Before(y, z) => Before(x, z)
  BY <1>1 DEF Before
<1>6. \A x, y \in Item : x = y \/ Before(x, y) \/ Before(y, x)
  <2>1. ASSUME NEW x \in Item, NEW y \in Item, ~Before(x, y), ~Before(y, x) PROVE x = y
    <3>1. x.written = y.written
      BY <1>1, <2>1 DEF Before
    <3>2. x.member = y.member
      BY <1>1, <2>1, <3>1 DEF Before
    <3> QED BY <1>2, <3>1, <3>2
  <2> QED BY <2>1
<1> QED
  BY <1>3, <1>4, <1>5, <1>6 DEF Orders

LEMMA SortedRows ==
    ASSUME NEW S, S \subseteq Item
    PROVE  /\ IsFiniteSet(S) /\ Cardinality(S) \in Nat
           /\ Sorted(S) \in Seq(Item) /\ Len(Sorted(S)) = Cardinality(S)
<1>1. IsFiniteSet(S) /\ Cardinality(S) \in Nat
  BY ItemsFinite, FS_Subset, FS_CardinalityType
<1>2. Orders(DateOrder, S)
  BY DateOrders
<1>3. Sorted(S) \in Seq(S) /\ Len(Sorted(S)) = Cardinality(S)
  BY <1>1, <1>2, SortedProperties DEF Sorted
<1>4. Sorted(S) \in Seq(Item)
  BY <1>3
<1> QED
  BY <1>1, <1>3, <1>4

ListTypes == role \in {"lister", "bootstrapper"} /\ listing \in Listing

(* What the two queries answer is of the right type, and the first is the  *)
(* page behind the rows the client has.                                    *)
LEMMA QueryTypes ==
    ASSUME SyncTypes, ListTypes
    PROVE  LET rows == Sorted(Documents(listing.snap))
               page == PageOf(rows, Len(listing.got), Limit)
           IN  /\ Documents(listing.snap) \subseteq Item
               /\ Cardinality(Documents(listing.snap)) \in Nat
               /\ page \in Seq(Item)
<1> DEFINE rows == Sorted(Documents(listing.snap))
           n == Len(listing.got)
           end == IF n + Limit < Len(rows) THEN n + Limit ELSE Len(rows)
<1>1. Documents(listing.snap) \subseteq Item
  BY DEF Documents, SyncTypes, ListTypes, Listing, RunOrNone
<1>2. rows \in Seq(Item) /\ Cardinality(Documents(listing.snap)) \in Nat
  BY <1>1, SortedRows
<1>3. n \in Nat /\ Limit \in Nat
  BY MemberAssumption DEF ListTypes, Listing
<1>4. PageOf(rows, n, Limit) = SubSeq(rows, n + 1, end)
  BY DEF PageOf
<1> HIDE DEF rows, n
<1>5. n + 1 \in Nat \ {0} /\ end \in Nat /\ end <= Len(rows)
  BY <1>2, <1>3
<1> HIDE DEF end
<1>6. SubSeq(rows, n + 1, end) \in Seq(Item)
  <2>1. \A i \in n + 1 .. end : rows[i] \in Item
    BY <1>2, <1>5
  <2> QED
    BY <1>5, <2>1, SubSeqProperties
<1> QED
  BY <1>1, <1>2, <1>4, <1>6 DEF rows, n

LEMMA ListStepTypes ==
    ASSUME SyncTypes, ListTypes, ListStep
    PROVE  ListTypes'
<1> DEFINE Parts == SUBSET {"list", "find", "count", "label"}
<1>0. /\ state.active \in RunOrNone /\ state.count \in Nat /\ None \in RunOrNone
      /\ listing \in Listing
      /\ listing.pin \in RunOrNone /\ listing.total \in Nat
      /\ listing.snap \in RunOrNone /\ listing.label \in RunOrNone
      /\ listing.loose \in BOOLEAN
      /\ listing.got \in Seq(Item) /\ listing.items \in Seq(Item)
      /\ listing.to_do \in Parts
      /\ <<>> \in Seq(Item)
  BY DEF SyncTypes, SyncState, ListTypes, Listing, RunOrNone
<1>1. CASE ListState
  <2>1. PICK s \in RunOrNone, p \in {listing.items, <<>>}, n \in Nat, t \in Parts :
           listing' = [listing EXCEPT !.to_do = t, !.snap = s, !.items = p, !.total = n]
    <3>1. CASE listing' = [listing EXCEPT !.to_do = @ \ {"list"}, !.snap = None,
                                          !.items = <<>>, !.total = 0]
      BY <1>0, <3>1
    <3>2. ASSUME NEW t \in Parts,
                 listing' = [listing EXCEPT !.to_do = t, !.snap = Wanted(listing),
                       !.total = IF CountKnown(listing) THEN state.count ELSE 0]
          PROVE  \E s \in RunOrNone, n \in Nat :
                    listing' = [listing EXCEPT !.to_do = t, !.snap = s,
                                               !.items = listing.items, !.total = n]
      <4>1. Wanted(listing) \in RunOrNone
        BY <1>0 DEF Wanted
      <4>2. PICK n \in Nat : n = IF CountKnown(listing) THEN state.count ELSE 0
        BY <1>0
      <4>3. listing' = [listing EXCEPT !.to_do = t, !.snap = Wanted(listing),
                                       !.items = listing.items, !.total = n]
        BY <1>0, <3>2, <4>2 DEF Listing
      <4> QED BY <4>1, <4>3
    <3>3. (listing.to_do \ {"list"}) \cup {"find"} \in Parts
          /\ (listing.to_do \ {"list"}) \cup {"find", "count"} \in Parts
      BY <1>0
    <3>4. PICK t \in Parts :
             t = (listing.to_do \ {"list"})
                    \cup (IF CountKnown(listing) THEN {"find"} ELSE {"find", "count"})
      BY <3>3
    <3>5. \/ listing' = [listing EXCEPT !.to_do = @ \ {"list"}, !.snap = None,
                                        !.items = <<>>, !.total = 0]
          \/ listing' = [listing EXCEPT !.to_do = t, !.snap = Wanted(listing),
                       !.total = IF CountKnown(listing) THEN state.count ELSE 0]
      BY <1>1, <3>4 DEF ListState
    <3>6. CASE listing' = [listing EXCEPT !.to_do = t, !.snap = Wanted(listing),
                       !.total = IF CountKnown(listing) THEN state.count ELSE 0]
      <4>1. PICK s \in RunOrNone, n \in Nat :
               listing' = [listing EXCEPT !.to_do = t, !.snap = s,
                                          !.items = listing.items, !.total = n]
        BY <3>2, <3>6
      <4>2. listing.items \in {listing.items, <<>>}
        OBVIOUS
      <4> QED BY <4>1, <4>2
    <3> QED BY <3>1, <3>5, <3>6
  <2>2. listing' \in Listing
    BY <1>0, <2>1 DEF Listing
  <2> QED BY <1>1, <2>2 DEF ListState, ListOnly, ListTypes
<1>2. CASE ListFind
  <2>1. PICK p \in Seq(Item), t \in Parts :
           listing' = [listing EXCEPT !.to_do = t, !.items = p]
    <3>1. PageOf(Sorted(Documents(listing.snap)), Len(listing.got), Limit) \in Seq(Item)
      BY QueryTypes
    <3>2. listing' = [listing EXCEPT !.to_do = listing.to_do \ {"find"},
             !.items = PageOf(Sorted(Documents(listing.snap)), Len(listing.got), Limit)]
      BY <1>2 DEF ListFind, PageOf
    <3> QED BY <1>0, <3>1, <3>2
  <2>2. listing' \in Listing
    BY <1>0, <2>1 DEF Listing
  <2> QED BY <1>2, <2>2 DEF ListFind, ListOnly, ListTypes
<1>3. CASE ListCount
  <2>1. PICK n \in Nat, t \in Parts :
           listing' = [listing EXCEPT !.to_do = t, !.total = n]
    <3>1. Cardinality(Documents(listing.snap)) \in Nat
      BY QueryTypes
    <3>2. listing' = [listing EXCEPT !.to_do = listing.to_do \ {"count"},
                                     !.total = Cardinality(Documents(listing.snap))]
      BY <1>3 DEF ListCount
    <3> QED BY <1>0, <3>1, <3>2
  <2>2. listing' \in Listing
    BY <1>0, <2>1 DEF Listing
  <2> QED BY <1>3, <2>2 DEF ListCount, ListOnly, ListTypes
<1>4. CASE ListLabel
  <2>1. PICK s \in RunOrNone, t \in Parts :
           listing' = [listing EXCEPT !.to_do = t, !.label = s]
    BY <1>0, <1>4 DEF ListLabel
  <2>2. listing' \in Listing
    BY <1>0, <2>1 DEF Listing
  <2> QED BY <1>4, <2>2 DEF ListLabel, ListOnly, ListTypes
<1>5. CASE ListAnswer
  <2>1. listing.got \o listing.items \in Seq(Item)
    BY <1>0, ConcatProperties
  <2>2. PICK g \in Seq(Item), b \in BOOLEAN, st \in {"read", "done"}, t \in Parts :
           listing' = [ step |-> st, to_do |-> t, got |-> g, loose |-> b,
                        pin |-> listing.label, total |-> listing.total,
                        snap |-> None, items |-> <<>>, label |-> None ]
    <3>1. PICK b \in BOOLEAN : b = \/ listing.loose
                                   \/ listing.pin = None /\ listing.snap # listing.label
      BY <1>0
    <3>2. PICK st \in {"read", "done"} : st = IF HasMore(listing) THEN "read" ELSE "done"
      OBVIOUS
    <3>3. PICK t \in Parts : t = IF HasMore(listing) THEN {"list", "label"} ELSE {}
      OBVIOUS
    <3> QED BY <1>5, <2>1, <3>1, <3>2, <3>3 DEF ListAnswer
  <2>3. listing' \in Listing
    BY <1>0, <2>2 DEF Listing
  <2> QED BY <1>5, <2>3 DEF ListAnswer, ListOnly, ListTypes
<1> QED
  BY <1>1, <1>2, <1>3, <1>4, <1>5 DEF ListStep

(* Nobody but its own steps touches a listing, and nobody a client's role. *)
LEMMA ListingsStand ==
    ASSUME SyncTypes, [Next]_vars
    PROVE  role' = role /\ (Ask \/ ListStep \/ listing' = listing)
<1>1. ASSUME NEW r \in Runs, RunStep(r)
      PROVE  UNCHANGED clientVars
  BY <1>1 DEF RunStep, Begin, CopyPage, TotalMoved, ClearTiers, FillTiers, Count,
              Publish, FailMark, FailDocs, Unlock
<1>2. ASSUME NEW r \in Runs,
             \/ Start(r) \/ PruneStep(r) \/ DeleteOne(r) \/ Throw(r)
             \/ PublishUnacknowledged(r)
      PROVE  UNCHANGED clientVars
  BY <1>2 DEF Start, PruneStep, PruneFind, PruneDelete, DeleteOne, Throw,
              PublishUnacknowledged
<1>3. ASSUME Crash \/ LockTimeout \/ OdooStep \/ UNCHANGED vars
      PROVE  UNCHANGED clientVars
  BY <1>3 DEF Crash, LockTimeout, OdooStep, OdooCreate, OdooUpdate, OdooWithdraw,
              OdooTiers, OdooChange, vars
<1>4. ASSUME BootStep PROVE UNCHANGED <<role, listing>>
  BY <1>4 DEF BootStep, BootFetch, BootWrite, BootCount, BootState, BootOnly
<1>5. ASSUME Ask \/ ListStep PROVE role' = role
  BY <1>5, ListingsOnlyRead DEF ListOnly
<1> QED
  BY <1>1, <1>2, <1>3, <1>4, <1>5 DEF Next, clientVars

LEMMA NextListTypes ==
    ASSUME SyncTypes, ListTypes, [Next]_vars
    PROVE  ListTypes'
<1>1. CASE Ask
  <2>1. listing' \in Listing
    BY <1>1 DEF Ask, ListTypes, Listing
  <2> QED BY <2>1, ListingsStand DEF ListTypes
<1>2. CASE ListStep
  BY <1>2, ListStepTypes
<1>3. CASE listing' = listing
  BY <1>3, ListingsStand DEF ListTypes
<1> QED
  BY <1>1, <1>2, <1>3, ListingsStand

LEMMA InitListTypes == Init => ListTypes
<1> SUFFICES ASSUME Init PROVE ListTypes
  OBVIOUS
<1>1. <<>> \in Seq(Item) /\ None \in RunOrNone
  BY DEF RunOrNone
<1> QED BY <1>1 DEF Init, ListTypes, Listing

(* Every variable keeps its type, whatever fails and whoever asks. *)
THEOREM MemberTypeCorrect == Spec => []MemberTypeOK
<1>1. Init => ListTypes
  BY InitListTypes
<1>2. SyncTypes /\ ListTypes /\ [Next]_vars => ListTypes'
  BY NextListTypes
<1>3. SyncTypes /\ ListTypes => MemberTypeOK
  BY DEF SyncTypes, ListTypes, MemberTypeOK, Places
<1> QED
  BY <1>1, <1>2, <1>3, MemberTypes, PTL DEF Spec

-----------------------------------------------------------------------------
(* The invariant behind MemberListingWhole.  Where a client lists, no      *)
(* bootstrap is requested: the members collection stays empty and the      *)
(* count in the sync state is the one the active snapshot was validated    *)
(* against ...                                                             *)
CountKept ==
    role = "lister" =>
        /\ legacy = {} /\ boot.step = "none"
        /\ state.counted <=> state.active # None
        /\ state.counted => state.count = state.total

LEMMA InitCount == Init => CountKept
  BY DEF Init, CountKept, NoState

LEMMA NextCount ==
    ASSUME SyncTypes, CountKept, [Next]_vars
    PROVE  CountKept'
<1> USE DEF CountKept
<1>0. role' = role
  BY ListingsStand
<1>1. ASSUME UNCHANGED <<legacy, boot, state>> PROVE CountKept'
  BY <1>0, <1>1
<1>2. ASSUME NEW r \in Runs, Publish(r) \/ PublishUnacknowledged(r)
      PROVE  CountKept'
  <2>1. /\ state'.active = r /\ state'.counted = TRUE /\ state'.count = state'.total
        /\ r # None /\ legacy' = legacy /\ boot' = boot
    BY <1>2 DEF Publish, PublishUnacknowledged, Published, Runs, None, clientVars
  <2> QED BY <1>0, <2>1
<1>3. ASSUME NEW r \in Runs, Begin(r) \/ FailMark(r) PROVE CountKept'
  <2>1. /\ state'.active = state.active /\ state'.counted = state.counted
        /\ state'.count = state.count /\ state'.total = state.total
        /\ legacy' = legacy /\ boot' = boot
    BY <1>3 DEF Begin, FailMark, SyncTypes, SyncState, clientVars
  <2> QED BY <1>0, <2>1
<1>4. ASSUME NEW r \in Runs, RunStep(r) PROVE CountKept'
  <2>1. CASE CopyPage(r) \/ TotalMoved(r) \/ ClearTiers(r) \/ FillTiers(r)
             \/ Count(r) \/ FailDocs(r) \/ Unlock(r)
    <3>1. UNCHANGED <<legacy, boot, state>>
      BY <2>1 DEF CopyPage, TotalMoved, ClearTiers, FillTiers, Count, FailDocs,
                  Unlock, dbVars, clientVars
    <3> QED BY <1>1, <3>1
  <2> QED BY <1>2, <1>3, <1>4, <2>1 DEF RunStep
<1>5. CASE \/ \E r \in Runs : Start(r) \/ PruneStep(r) \/ DeleteOne(r) \/ Throw(r)
           \/ Crash \/ LockTimeout \/ OdooStep \/ Ask \/ ListStep
           \/ UNCHANGED vars
  <2>1. UNCHANGED <<legacy, boot, state>>
    BY <1>5, ListingsOnlyRead
    DEF Start, PruneStep, PruneFind, PruneDelete, DeleteOne, Throw, Crash,
        LockTimeout, OdooStep, OdooCreate, OdooUpdate, OdooWithdraw, OdooTiers, OdooChange, ListOnly, dbVars,
        clientVars, vars
  <2> QED BY <1>1, <2>1
<1>6. CASE BootStep
  <2>1. role # "lister"
    BY <1>6 DEF BootStep, BootFetch, BootWrite, BootCount, BootState
  <2> QED BY <1>0, <2>1
<1> QED
  BY <1>2, <1>4, <1>5, <1>6 DEF Next

(* ... the reads of a page agree on the snapshot once it is pinned, and    *)
(* before that a listing that is not loose has no rows ...                 *)
Agreeing ==
    /\ listing.step # "idle" => role = "lister"
    /\ listing.step = "idle" => listing.pin = None
    /\ listing.step # "read" => listing.to_do = {} /\ listing.items = <<>>
    /\ \A s \in {listing.pin, listing.snap, listing.label} : s <= state.active
    /\ listing.pin = None /\ ~listing.loose => listing.got = <<>>
    /\ "list" \in listing.to_do =>
          listing.items = <<>> /\ listing.to_do \cap {"find", "count"} = {}
    /\ listing.step = "read" /\ "list" \notin listing.to_do =>
          /\ listing.pin # None => listing.snap = listing.pin
          /\ listing.snap = None => listing.items = <<>>
    /\ listing.step = "read" /\ "label" \notin listing.to_do /\ listing.pin # None =>
          listing.label = listing.pin

(* ... while that snapshot can be counted on, the client has its first     *)
(* rows ...                                                                *)
Walked ==
    Readable(listing.pin) /\ ~listing.loose =>
        /\ Len(listing.got) <= Cardinality(staged[listing.pin])
        /\ listing.got = SubSeq(Sorted(staged[listing.pin]), 1, Len(listing.got))

(* ... and what a request has found so far is the page behind them and the *)
(* number of all.                                                          *)
Answered ==
    /\ listing.step = "read" /\ "list" \notin listing.to_do
    /\ Readable(listing.snap)
    => /\ "find" \notin listing.to_do =>
             listing.items = PageOf(Sorted(staged[listing.snap]), Len(listing.got), Limit)
       /\ "count" \notin listing.to_do =>
             listing.total = Cardinality(staged[listing.snap])

ListInv == Agreeing /\ Walked /\ Answered /\ MemberListingWhole

LEMMA InitList == Init => ListInv
<1> SUFFICES ASSUME Init PROVE ListInv
  OBVIOUS
<1>1. state.active = 0 /\ None = 0
  BY DEF Init, NoState, None
<1>2. ~Readable(listing.pin) /\ ~Readable(listing.snap)
  BY DEF Init, Readable
<1> QED
  BY <1>1, <1>2 DEF Init, ListInv, Agreeing, Walked, Answered, MemberListingWhole

LEMMA ActiveGrows ==
    ASSUME QuietEnv, SyncTypes, Protocol, [Next]_vars, NEW s \in RunOrNone, s <= state.active
    PROVE  s <= state'.active
<1>1. CASE KeepsActive
  BY <1>1 DEF KeepsActive
<1>2. ASSUME NEW r \in Runs, Publish(r) PROVE s <= state'.active
  <2>1. pc[r] \in Early /\ state'.active = r /\ Live(r)
    BY <1>2 DEF Publish, Published, Live, Critical, Early
  <2>2. state.active < r
    BY <2>1, LiveIsNewer DEF Protocol
  <2>3. s \in Nat /\ r \in Nat /\ state.active \in Nat
    BY DEF SyncTypes, SyncState, RunOrNone, Runs, None
  <2> QED BY <2>1, <2>2, <2>3
<1> QED
  BY <1>1, <1>2, NextProtocol

(* The steps beside the listing: what they change, it cannot count on.     *)
LEMMA ListBeside ==
    ASSUME QuietEnv, SyncTypes, Protocol, KeepInv, ListTypes, ListInv,
           [Next]_vars, listing' = listing
    PROVE  ListInv'
<1>1. PICK p \in RunOrNone, s \in RunOrNone, l \in RunOrNone :
         p = listing.pin /\ s = listing.snap /\ l = listing.label
  BY DEF ListTypes, Listing
<1>2. p <= state.active /\ s <= state.active /\ l <= state.active
  BY <1>1 DEF ListInv, Agreeing
<1>3. p <= state'.active /\ s <= state'.active /\ l <= state'.active
  BY <1>2, ActiveGrows
<1>4. /\ Readable(p)' => Readable(p) /\ staged'[p] = staged[p]
      /\ Readable(s)' => Readable(s) /\ staged'[s] = staged[s]
  BY <1>2, ReadableKept
<1>5. (Readable(listing.pin)' => Readable(p)') /\ (Readable(listing.snap)' => Readable(s)')
  BY <1>1 DEF Readable
<1>6. Readable(listing.pin)' =>
         Readable(listing.pin) /\ staged'[listing.pin] = staged[listing.pin]
  BY <1>1, <1>4, <1>5
<1>7. Readable(listing.snap)' =>
         Readable(listing.snap) /\ staged'[listing.snap] = staged[listing.snap]
  BY <1>1, <1>4, <1>5
<1>8. Agreeing'
  BY <1>1, <1>3, ListingsStand DEF ListInv, Agreeing
<1>9. Walked' /\ MemberListingWhole'
  BY <1>6 DEF ListInv, Walked, MemberListingWhole, Sorted
<1>10. Answered'
  BY <1>7 DEF ListInv, Answered, Sorted
<1> QED
  BY <1>8, <1>9, <1>10 DEF ListInv

(* A step of the listing moves nothing else. *)
LEMMA OthersStand ==
    ASSUME ListOnly
    PROVE  /\ staged' = staged /\ state' = state /\ legacy' = legacy /\ role' = role
           /\ \A s : Readable(s)' <=> Readable(s)
  BY DEF ListOnly, dbVars, Readable

LEMMA ListStateInv ==
    ASSUME SyncTypes, Protocol, CountKept, ListTypes, ListInv, ListState
    PROVE  ListInv'
<1>0. /\ listing.step = "read" /\ "list" \in listing.to_do
      /\ staged' = staged /\ state' = state /\ role' = role
      /\ \A s : Readable(s)' <=> Readable(s)
  BY OthersStand DEF ListState, Reads
<1>1. /\ listing.items = <<>> /\ "find" \notin listing.to_do
      /\ "count" \notin listing.to_do /\ role = "lister"
  BY <1>0 DEF ListInv, Agreeing
<1>2. PICK snap, n, todo :
         /\ listing' = [listing EXCEPT !.to_do = todo, !.snap = snap,
                                       !.items = <<>>, !.total = n]
         /\ snap = Wanted(listing)
         /\ "label" \in todo <=> "label" \in listing.to_do
         /\ "list" \notin todo
         /\ snap # None => "find" \in todo
         /\ snap # None /\ "count" \notin todo => CountKnown(listing) /\ n = state.count
  <2>1. CASE /\ Wanted(listing) = None
             /\ listing' = [listing EXCEPT !.to_do = @ \ {"list"}, !.snap = None,
                                           !.items = <<>>, !.total = 0]
    <3>1. PICK todo : todo = listing.to_do \ {"list"}
      OBVIOUS
    <3>2. /\ "label" \in todo <=> "label" \in listing.to_do
          /\ "list" \notin todo
      BY <3>1
    <3>3. listing' = [listing EXCEPT !.to_do = todo, !.snap = None,
                                     !.items = <<>>, !.total = 0]
      BY <2>1, <3>1
    <3> QED BY <2>1, <3>2, <3>3
  <2>2. ASSUME NEW more,
               more = IF CountKnown(listing) THEN {"find"} ELSE {"find", "count"},
               listing' = [listing EXCEPT !.to_do = (@ \ {"list"}) \cup more,
                                          !.snap = Wanted(listing),
                                          !.total = IF CountKnown(listing)
                                                    THEN state.count ELSE 0]
        PROVE  \E snap, n, todo :
                 /\ listing' = [listing EXCEPT !.to_do = todo, !.snap = snap,
                                               !.items = <<>>, !.total = n]
                 /\ snap = Wanted(listing)
                 /\ "label" \in todo <=> "label" \in listing.to_do
                 /\ "list" \notin todo
                 /\ snap # None => "find" \in todo
                 /\ snap # None /\ "count" \notin todo =>
                       CountKnown(listing) /\ n = state.count
    <3>1. PICK n : n = IF CountKnown(listing) THEN state.count ELSE 0
      OBVIOUS
    <3>2. PICK todo : todo = (listing.to_do \ {"list"}) \cup more
      OBVIOUS
    <3>3. listing' = [listing EXCEPT !.to_do = todo, !.snap = Wanted(listing),
                                     !.items = <<>>, !.total = n]
      BY <1>1, <2>2, <3>1, <3>2 DEF ListTypes, Listing
    <3>4. "count" \notin todo => CountKnown(listing)
      BY <2>2, <3>2
    <3>5. /\ "label" \in todo <=> "label" \in listing.to_do
          /\ "list" \notin todo /\ "find" \in todo
      BY <2>2, <3>2
    <3> QED BY <3>1, <3>3, <3>4, <3>5
  <2> QED BY <2>1, <2>2 DEF ListState
<1>3. /\ listing'.step = "read" /\ listing'.to_do = todo /\ listing'.snap = snap
      /\ listing'.items = <<>> /\ listing'.total = n
      /\ listing'.got = listing.got /\ listing'.pin = listing.pin
      /\ listing'.label = listing.label /\ listing'.loose = listing.loose
  BY <1>0, <1>2 DEF ListTypes, Listing
<1>4. snap <= state.active
  <2>1. state.active \in Nat
    BY DEF SyncTypes, SyncState, RunOrNone, Runs, None
  <2>2. state.active <= state.active
    BY <2>1
  <2> QED BY <1>2, <2>2 DEF Wanted, ListInv, Agreeing
<1>5. Agreeing'
  BY <1>0, <1>1, <1>2, <1>3, <1>4 DEF ListInv, Agreeing, Wanted
<1>6. Readable(listing.pin)' <=> Readable(listing.pin)
  BY <1>0, <1>3 DEF Readable, ListState, ListOnly
<1>7. Walked' /\ MemberListingWhole'
  BY <1>0, <1>3, <1>6 DEF ListInv, Walked, MemberListingWhole, Sorted
<1>8. ASSUME Readable(listing.snap)', "count" \notin todo
      PROVE  n = Cardinality(staged[snap])
  <2>1. snap # None
    BY <1>3, <1>8 DEF Readable
  <2>2. listing.pin = None /\ state.counted /\ n = state.count
    BY <1>2, <1>8, <2>1 DEF CountKnown
  <2>3. snap = state.active
    BY <1>2, <2>2 DEF Wanted
  <2>4. n = state.total
    BY <1>1, <2>2 DEF CountKept
  <2> QED BY <2>1, <2>3, <2>4 DEF Protocol, ActiveWhole
<1>9. Answered'
  <2>1. Readable(listing.snap)' => "find" \in todo
    BY <1>2, <1>3 DEF Readable
  <2> QED BY <1>0, <1>3, <1>8, <2>1 DEF Answered
<1> QED
  BY <1>5, <1>7, <1>9 DEF ListInv

LEMMA ListFindInv ==
    ASSUME SyncTypes, CountKept, ListTypes, ListInv, ListFind
    PROVE  ListInv'
<1>0. /\ listing.step = "read" /\ "find" \in listing.to_do
      /\ staged' = staged /\ state' = state /\ role' = role
      /\ \A s : Readable(s)' <=> Readable(s)
  BY OthersStand DEF ListFind, Reads
<1>1. "list" \notin listing.to_do /\ role = "lister"
  BY <1>0 DEF ListInv, Agreeing
<1>2. PICK p : p = PageOf(Sorted(Documents(listing.snap)), Len(listing.got), Limit)
  OBVIOUS
<1>3. listing' = [listing EXCEPT !.to_do = listing.to_do \ {"find"}, !.items = p]
  BY <1>2 DEF ListFind, PageOf
<1>4. /\ listing'.step = "read" /\ listing'.to_do = listing.to_do \ {"find"}
      /\ listing'.snap = listing.snap
      /\ listing'.items = p /\ listing'.total = listing.total
      /\ listing'.got = listing.got /\ listing'.pin = listing.pin
      /\ listing'.label = listing.label /\ listing'.loose = listing.loose
  BY <1>0, <1>3 DEF ListTypes, Listing
<1>5. listing.snap = None => p = <<>>
  <2>1. ASSUME listing.snap = None PROVE p = <<>>
    <3>1. Documents(listing.snap) = {}
      BY <1>1, <2>1 DEF Documents, CountKept
    <3>2. {} \subseteq Item /\ Cardinality({}) = 0
      BY FS_EmptySet
    <3>3. Len(Sorted({})) = 0
      BY <3>2, SortedRows
    <3>4. PICK k \in Nat : k = Len(listing.got)
      BY DEF ListTypes, Listing
    <3>5. Limit \in Nat /\ Limit # 0
      BY MemberAssumption
    <3>6. p = SubSeq(Sorted({}), k + 1, IF k + Limit < 0 THEN k + Limit ELSE 0)
      BY <1>2, <3>1, <3>3, <3>4 DEF PageOf
    <3>7. (IF k + Limit < 0 THEN k + Limit ELSE 0) = 0
      BY <3>4, <3>5
    <3> QED BY <3>4, <3>6, <3>7, SubSeqEmpty
  <2> QED BY <2>1
<1>6. Agreeing'
  BY <1>0, <1>1, <1>4, <1>5 DEF ListInv, Agreeing
<1>7. /\ Readable(listing.pin)' <=> Readable(listing.pin)
      /\ Readable(listing.snap)' <=> Readable(listing.snap)
  BY <1>0, <1>4 DEF Readable, ListFind, ListOnly
<1>8. Walked' /\ MemberListingWhole'
  BY <1>0, <1>4, <1>7 DEF ListInv, Walked, MemberListingWhole, Sorted
<1>9. Answered'
  <2>1. listing.snap # None => Documents(listing.snap) = staged[listing.snap]
    BY DEF Documents
  <2>2. Readable(listing.snap) => listing.snap # None
    BY DEF Readable
  <2> QED BY <1>0, <1>1, <1>2, <1>4, <1>7, <2>1, <2>2 DEF ListInv, Answered, Sorted
<1> QED
  BY <1>6, <1>8, <1>9 DEF ListInv

LEMMA ListCountInv ==
    ASSUME SyncTypes, ListTypes, ListInv, ListCount
    PROVE  ListInv'
<1>0. /\ listing.step = "read" /\ "count" \in listing.to_do
      /\ staged' = staged /\ state' = state /\ role' = role
      /\ \A s : Readable(s)' <=> Readable(s)
  BY OthersStand DEF ListCount, Reads
<1>1. "list" \notin listing.to_do
  BY <1>0 DEF ListInv, Agreeing
<1>2. PICK n : n = Cardinality(Documents(listing.snap))
  OBVIOUS
<1>3. listing' = [listing EXCEPT !.to_do = listing.to_do \ {"count"}, !.total = n]
  BY <1>2 DEF ListCount
<1>4. /\ listing'.step = "read" /\ listing'.to_do = listing.to_do \ {"count"}
      /\ listing'.snap = listing.snap
      /\ listing'.items = listing.items /\ listing'.total = n
      /\ listing'.got = listing.got /\ listing'.pin = listing.pin
      /\ listing'.label = listing.label /\ listing'.loose = listing.loose
  BY <1>0, <1>3 DEF ListTypes, Listing
<1>5. Agreeing'
  BY <1>0, <1>1, <1>4 DEF ListInv, Agreeing
<1>6. /\ Readable(listing.pin)' <=> Readable(listing.pin)
      /\ Readable(listing.snap)' <=> Readable(listing.snap)
  BY <1>0, <1>4 DEF Readable, ListCount, ListOnly
<1>7. Walked' /\ MemberListingWhole'
  BY <1>0, <1>4, <1>6 DEF ListInv, Walked, MemberListingWhole, Sorted
<1>8. Answered'
  <2>1. Readable(listing.snap) => n = Cardinality(staged[listing.snap])
    BY <1>2 DEF Readable, Documents
  <2> QED BY <1>0, <1>1, <1>4, <1>6, <2>1 DEF ListInv, Answered, Sorted
<1> QED
  BY <1>5, <1>7, <1>8 DEF ListInv

LEMMA ListLabelInv ==
    ASSUME SyncTypes, ListTypes, ListInv, ListLabel
    PROVE  ListInv'
<1>0. /\ listing.step = "read" /\ "label" \in listing.to_do
      /\ staged' = staged /\ state' = state /\ role' = role
      /\ \A s : Readable(s)' <=> Readable(s)
  BY OthersStand DEF ListLabel, Reads
<1>1. PICK l : l = IF listing.pin # None THEN listing.pin ELSE state.active
  OBVIOUS
<1>2. listing' = [listing EXCEPT !.to_do = listing.to_do \ {"label"}, !.label = l]
  BY <1>1 DEF ListLabel
<1>3. /\ listing'.step = "read" /\ listing'.to_do = listing.to_do \ {"label"}
      /\ listing'.snap = listing.snap
      /\ listing'.items = listing.items /\ listing'.total = listing.total
      /\ listing'.got = listing.got /\ listing'.pin = listing.pin
      /\ listing'.label = l /\ listing'.loose = listing.loose
  BY <1>0, <1>2 DEF ListTypes, Listing
<1>4. l <= state.active
  <2>1. state.active \in Nat
    BY DEF SyncTypes, SyncState, RunOrNone, Runs, None
  <2>2. state.active <= state.active
    BY <2>1
  <2> QED BY <1>1, <2>2 DEF ListInv, Agreeing
<1>5. Agreeing'
  BY <1>0, <1>1, <1>3, <1>4 DEF ListInv, Agreeing
<1>6. /\ Readable(listing.pin)' <=> Readable(listing.pin)
      /\ Readable(listing.snap)' <=> Readable(listing.snap)
  BY <1>0, <1>3 DEF Readable, ListLabel, ListOnly
<1>7. Walked' /\ MemberListingWhole' /\ Answered'
  BY <1>0, <1>3, <1>6 DEF ListInv, Walked, Answered, MemberListingWhole, Sorted
<1> QED
  BY <1>5, <1>7 DEF ListInv

(* The answer to a page whose label a client can count on extends what it  *)
(* has by the page behind it, and ends the listing once that is all.       *)
LEMMA AnswerExtends ==
    ASSUME SyncTypes, ListTypes, ListInv, listing.step = "read", listing.to_do = {},
           Readable(listing.label), ~listing.loose,
           listing.pin # None \/ listing.snap = listing.label
    PROVE  LET all == Sorted(staged[listing.label])
               got == listing.got \o listing.items
           IN  /\ Len(got) <= Cardinality(staged[listing.label])
               /\ got = SubSeq(all, 1, Len(got))
               /\ ~HasMore(listing) => got = all
               /\ listing.total = Cardinality(staged[listing.label])
<1> DEFINE s == Sorted(staged[listing.label])
           k == Len(listing.got)
           n == Cardinality(staged[listing.label])
           p == listing.items
           g == listing.got \o p
<1>1. listing.label \in Runs
  BY DEF ListTypes, Listing, RunOrNone, Readable
<1>2. s \in Seq(Item) /\ Len(s) = n /\ n \in Nat
  BY <1>1, SortedRows DEF SyncTypes
<1>3. listing.snap = listing.label /\ (listing.pin # None => listing.label = listing.pin)
  BY DEF ListInv, Agreeing
<1>4. p = PageOf(s, k, Limit) /\ listing.total = n
  BY <1>3 DEF ListInv, Answered
<1>5. listing.got \in Seq(Item) /\ k \in Nat /\ Limit \in Nat /\ Limit \in Nat \ {0}
  BY MemberAssumption DEF ListTypes, Listing
<1>6. k <= n /\ listing.got = SubSeq(s, 1, k)
  <2>1. CASE listing.pin # None
    BY <1>3, <2>1 DEF ListInv, Walked
  <2>2. CASE listing.pin = None
    <3>1. listing.got = <<>>
      BY <2>2 DEF ListInv, Agreeing
    <3>2. k = 0 /\ SubSeq(s, 1, 0) = <<>>
      BY <3>1, SubSeqEmpty
    <3> QED BY <1>2, <3>1, <3>2
  <2> QED BY <2>1, <2>2
<1>7. HasMore(listing) <=> k + Limit < listing.total
  BY DEF HasMore
<1> SUFFICES /\ Len(g) <= n
             /\ g = SubSeq(s, 1, Len(g))
             /\ ~HasMore(listing) => g = s
             /\ listing.total = n
  OBVIOUS
<1>8. k \in 0 .. Len(s)
  BY <1>2, <1>5, <1>6
<1> HIDE DEF s, k, n, p
<1>9. /\ p \in Seq(Item) /\ Len(p) \in Nat
      /\ k + Len(p) \in k .. Len(s)
      /\ SubSeq(s, 1, k) \o p = SubSeq(s, 1, k + Len(p))
      /\ Len(s) <= k + Limit => k + Len(p) = Len(s)
  <2>1. LET q == PageOf(s, k, Limit)
        IN  /\ q \in Seq(Item)
            /\ k + Len(q) \in k .. Len(s)
            /\ SubSeq(s, 1, k) \o q = SubSeq(s, 1, k + Len(q))
            /\ Len(s) <= k + Limit => k + Len(q) = Len(s)
    BY <1>2, <1>5, <1>8, PageFollows
  <2>2. p = PageOf(s, k, Limit)
    BY <1>4
  <2>3. Len(p) \in Nat
    BY <2>1, <2>2
  <2> QED BY <2>1, <2>2, <2>3
<1>10. g = SubSeq(s, 1, k + Len(p))
  BY <1>6, <1>9
<1>11. Len(g) = k + Len(p)
  BY <1>5, <1>9, ConcatProperties DEF k
<1>12. Len(g) <= n
  BY <1>2, <1>9, <1>11
<1>13. ASSUME ~HasMore(listing) PROVE g = s
  <2>1. Len(s) <= k + Limit
    BY <1>2, <1>4, <1>5, <1>7, <1>13
  <2> QED BY <1>2, <1>9, <1>10, <2>1, SubSeqFull
<1> QED
  BY <1>4, <1>10, <1>11, <1>12, <1>13

LEMMA ListAnswerInv ==
    ASSUME SyncTypes, ListTypes, ListInv, ListAnswer
    PROVE  ListInv'
<1>0. /\ listing.step = "read" /\ listing.to_do = {}
      /\ staged' = staged /\ state' = state /\ role' = role
      /\ \A s : Readable(s)' <=> Readable(s)
  BY OthersStand DEF ListAnswer
<1>1. PICK g : g = listing.got \o listing.items
  OBVIOUS
<1>2. PICK more \in BOOLEAN : more <=> HasMore(listing)
  OBVIOUS
<1>3. PICK loose \in BOOLEAN :
         loose = (listing.loose \/ (listing.pin = None /\ listing.snap # listing.label))
  BY DEF ListTypes, Listing
<1>4. /\ listing'.step = (IF more THEN "read" ELSE "done")
      /\ listing'.to_do = (IF more THEN {"list", "label"} ELSE {})
      /\ listing'.got = g /\ listing'.loose = loose /\ listing'.pin = listing.label
      /\ listing'.total = listing.total
      /\ listing'.snap = None /\ listing'.items = <<>> /\ listing'.label = None
  BY <1>1, <1>2, <1>3 DEF ListAnswer
<1>5. Readable(listing.pin)' <=> Readable(listing.label)
  BY <1>0, <1>4 DEF Readable, ListAnswer, ListOnly
<1>6. ASSUME Readable(listing.label), ~loose
      PROVE  /\ Len(g) <= Cardinality(staged[listing.label])
             /\ g = SubSeq(Sorted(staged[listing.label]), 1, Len(g))
             /\ ~more => g = Sorted(staged[listing.label])
             /\ listing.total = Cardinality(staged[listing.label])
  <2>1. ~listing.loose /\ (listing.pin # None \/ listing.snap = listing.label)
    BY <1>3, <1>6
  <2> QED BY <1>0, <1>1, <1>2, <1>6, <2>1, AnswerExtends
<1>7. listing.label = None /\ ~loose => g = <<>>
  <2>1. ASSUME listing.label = None, ~loose PROVE g = <<>>
    <3>1. listing.pin = None /\ listing.snap = None
      BY <1>0, <1>3, <2>1 DEF ListInv, Agreeing
    <3>2. listing.got = <<>> /\ listing.items = <<>>
      BY <1>0, <1>3, <2>1, <3>1 DEF ListInv, Agreeing
    <3> QED BY <1>1, <3>2
  <2> QED BY <2>1
<1>8. None <= state.active /\ listing.label <= state.active
  <2>1. state.active \in Nat
    BY DEF SyncTypes, SyncState, RunOrNone, Runs, None
  <2>2. None <= state.active
    BY <2>1 DEF None
  <2> QED BY <2>2 DEF ListInv, Agreeing
<1>9. Agreeing'
  BY <1>0, <1>4, <1>7, <1>8 DEF ListInv, Agreeing
<1>10. Walked' /\ MemberListingWhole'
  BY <1>0, <1>4, <1>5, <1>6 DEF Walked, MemberListingWhole, Sorted
<1>11. Answered'
  BY <1>4 DEF Answered
<1> QED
  BY <1>9, <1>10, <1>11 DEF ListInv

LEMMA NextList ==
    ASSUME QuietEnv, SyncTypes, Protocol, KeepInv, CountKept, ListTypes, ListInv, [Next]_vars
    PROVE  ListInv'
<1>1. CASE Ask
  <2>1. /\ listing' = [listing EXCEPT !.step = "read", !.to_do = {"list", "label"}]
        /\ listing.step = "idle" /\ role = "lister"
        /\ staged' = staged /\ state' = state /\ role' = role
    BY <1>1, OthersStand DEF Ask
  <2>2. /\ listing'.step = "read" /\ listing'.to_do = {"list", "label"}
        /\ listing'.snap = listing.snap
        /\ listing'.items = listing.items /\ listing'.total = listing.total
        /\ listing'.got = listing.got /\ listing'.pin = listing.pin
        /\ listing'.label = listing.label /\ listing'.loose = listing.loose
    BY <2>1 DEF ListTypes, Listing
  <2>3. listing.pin = None
    BY <2>1 DEF ListInv, Agreeing
  <2>4. Agreeing'
    BY <2>1, <2>2, <2>3 DEF ListInv, Agreeing
  <2> QED
    BY <2>2, <2>3, <2>4 DEF ListInv, Walked, Answered, MemberListingWhole, Readable
<1>2. CASE ListStep
  BY <1>2, ListStateInv, ListFindInv, ListCountInv, ListLabelInv, ListAnswerInv
  DEF ListStep
<1>3. CASE listing' = listing
  BY <1>3, ListBeside
<1> QED
  BY <1>1, <1>2, <1>3, ListingsStand

(* Where prunes are over before the next run and no answer is lost:        *)
(* however the reads of its pages, the steps of runs and prunes, crashes   *)
(* and failing calls interleave: a listing whose first page was of its     *)
(* label, and that ends while its snapshot can still be counted on, gave   *)
(* every member of it once and in order, and their number.                 *)
THEOREM MemberListingsWhole == QuietEnv => (Spec => []MemberListingWhole)
<1>1. ASSUME QuietEnv PROVE Spec => []MemberListingWhole
  <2>1. SyncTypes /\ CountKept /\ [Next]_vars => CountKept'
    BY NextCount
  <2>2. SyncTypes /\ ListTypes /\ [Next]_vars => ListTypes'
    BY NextListTypes
  <2>3. SyncTypes /\ Protocol /\ KeepInv /\ [Next]_vars => KeepInv'
    BY <1>1, NextKeep
  <2>4. SyncTypes /\ Protocol /\ KeepInv /\ CountKept /\ ListTypes /\ ListInv
           /\ [Next]_vars => ListInv'
    BY <1>1, NextList
  <2>5. ListInv => MemberListingWhole
    BY DEF ListInv
  <2>6. Init => ListTypes
    BY InitListTypes
  <2>7. Spec => []Protocol
    BY <1>1, ProtocolInvariant
  <2> QED
    BY <2>1, <2>2, <2>3, <2>4, <2>5, <2>6, <2>7, InitKeep, InitCount, InitList,
       MemberTypes, PTL DEF Spec
<1> QED
  BY <1>1

=============================================================================
