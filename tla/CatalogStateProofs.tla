-------------------------- MODULE CatalogStateProofs --------------------------
(***************************************************************************)
(* Further theorems about CatalogSync: what the sync state says of the     *)
(* runs and of the active snapshot, what can happen to its documents, and  *)
(* why counting them is validation enough.                                 *)
(***************************************************************************)
EXTENDS CatalogSyncProofs

-----------------------------------------------------------------------------
(* What a step is for one run: which steps lead it where, and what they    *)
(* leave of what it has fetched and staged.                                *)

Early == {"idle", "read", "begin"}
Copied == {"count", "publish"}

Fetched(x) == <<seen[x], total[x], since[x]>>

StepOf(x) ==
    /\ pc'[x] \in Early =>
          pc[x] \in Early /\ seen'[x] = seen[x] /\ total'[x] = total[x]
    /\ pc'[x] = "page" =>
          CopyPage(x) \/ Begin(x) \/ (pc[x] = "page" /\ UNCHANGED Fetched(x))
    /\ pc'[x] \in Copied =>
          CopyPage(x) \/ (pc[x] \in Copied /\ UNCHANGED Fetched(x))
    /\ since'[x] = since[x] \/ (pc[x] = "idle" /\ since'[x] = changes)
    /\ \/ CopyPage(x)
       \/ staged'[x] \subseteq staged[x] /\ seen'[x] = seen[x] /\ total'[x] = total[x]

LEMMA EachRun ==
    ASSUME TypeOK, [Next]_vars, NEW x \in Runs
    PROVE  StepOf(x)
<1> USE DEF TypeOK, StepOf, Early, Copied, Fetched, Goto, odooVars, dbVars, runVars,
            pruneVars
<1>1. ASSUME NEW r \in Runs, NEW w \in Workers, Start(r, w) PROVE StepOf(x)
  BY <1>1 DEF Start, IsNext
<1>2. ASSUME NEW r \in Runs, RunStep(r) PROVE StepOf(x)
  <2>1. CASE ReadState(r)
    BY <2>1 DEF ReadState
  <2>2. CASE Begin(r)
    <3>1. CASE x = r
      BY <2>2, <3>1 DEF Begin
    <3>2. CASE x # r
      BY <2>2, <3>2 DEF Begin
    <3> QED
      BY <3>1, <3>2
  <2>3. CASE CopyPage(r)
    <3>1. CASE x = r
      <4>1. pc'[x] \in {"page", "dropDocs", "count"} /\ since'[x] = since[x]
        BY <2>3, <3>1 DEF CopyPage, AfterPage
      <4> QED
        BY <2>3, <3>1, <4>1
    <3>2. CASE x # r
      BY <2>3, <3>2 DEF CopyPage, StagePage
    <3> QED
      BY <3>1, <3>2
  <2>4. CASE TotalMoved(r) \/ DropDocs(r) \/ DropMark(r) \/ Count(r)
    BY <2>4 DEF TotalMoved, DropDocs, DropMark, Count
  <2>5. CASE Publish(r) \/ FailMark(r) \/ FailDocs(r)
    BY <2>5 DEF Publish, FailMark, FailDocs
  <2>6. CASE UnlockGet(r) \/ UnlockDel(r)
    BY <2>6 DEF UnlockGet, UnlockDel
  <2> QED
    BY <1>2, <2>1, <2>2, <2>3, <2>4, <2>5, <2>6 DEF RunStep
<1>3. ASSUME NEW r \in Runs, PruneStep(r) PROVE StepOf(x)
  BY <1>3 DEF PruneStep, PruneFind, PruneDelete
<1>4. ASSUME NEW r \in Runs, Throw(r) PROVE StepOf(x)
  <2>1. AfterThrow(pc[r]) \in {"done", "unlockGet", "failMark"}
    BY DEF AfterThrow
  <2> QED
    BY <1>4, <2>1 DEF Throw
<1>5. ASSUME NEW r \in Runs, PublishUnacknowledged(r) PROVE StepOf(x)
  BY <1>5 DEF PublishUnacknowledged
<1>6. ASSUME NEW w \in Workers, Crash(w) PROVE StepOf(x)
  BY <1>6 DEF Crash
<1>7. CASE LockTimeout \/ LockLost
  BY <1>7 DEF LockTimeout, LockLost
<1>8. CASE OdooStep
  BY <1>8 DEF OdooStep, OdooCreate, OdooUpdate, OdooWithdraw, OdooChange
<1>9. CASE Bootstrap
  BY <1>9 DEF Bootstrap, BootstrapRows, BootstrapState
<1>10. ASSUME NEW r \in Runs, DeleteOne(r) PROVE StepOf(x)
  BY <1>10, DeleteOneStep DEF CopyPage
<1>11. CASE UNCHANGED vars
  BY <1>11 DEF vars
<1> QED
  BY <1>1, <1>2, <1>3, <1>4, <1>5, <1>6, <1>7, <1>8, <1>9, <1>10, <1>11 DEF Next

(* Which snapshot is active, its total and its fingerprint change with a   *)
(* publication only.                                                       *)
SameActive ==
    /\ state'.active = state.active
    /\ state'.total = state.total
    /\ state'.print = state.print

LEMMA StateStep ==
    ASSUME TypeOK, [Next]_vars
    PROVE  SameActive \/ \E r \in Runs : Publish(r) \/ PublishUnacknowledged(r)
<1> USE DEF TypeOK, SameActive, SyncState, odooVars, dbVars, runVars, pruneVars
<1>1. ASSUME NEW r \in Runs, RunStep(r) PROVE SameActive \/ Publish(r)
  BY <1>1 DEF RunStep, ReadState, Begin, CopyPage, TotalMoved, DropDocs, DropMark,
              Count, FailMark, FailDocs, UnlockGet, UnlockDel
<1>2. ASSUME NEW r \in Runs, (\E w \in Workers : Start(r, w)) \/ PruneStep(r) \/ Throw(r)
      PROVE  state' = state
  BY <1>2 DEF Start, PruneStep, PruneFind, PruneDelete, Throw
<1>3. CASE (\E w \in Workers : Crash(w)) \/ LockTimeout \/ LockLost \/ UNCHANGED vars
  BY <1>3 DEF Crash, LockTimeout, LockLost, vars
<1>4. CASE OdooStep
  BY <1>4 DEF OdooStep, OdooCreate, OdooUpdate, OdooWithdraw, OdooChange
<1>5. CASE Bootstrap
  BY <1>5 DEF Bootstrap, BootstrapRows, BootstrapState
<1>6. ASSUME NEW r \in Runs, DeleteOne(r) PROVE state' = state
  BY <1>6 DEF DeleteOne
<1> QED
  BY <1>1, <1>2, <1>3, <1>4, <1>5, <1>6 DEF Next

-----------------------------------------------------------------------------
(* The status.  A run that is live is alone, so the status it wrote stays  *)
(* until it writes the next one.                                           *)

StatusInv ==
    /\ \A r \in Runs : pc[r] \in Staging =>
            state.status = "running" /\ state.lastRun = r
    /\ state.status = "running" =>
            /\ state.lastRun \in Runs
            /\ \/ pc[state.lastRun] \in Staging \cup {"failMark", "dead"}
               \/ "storeError" \in Env

LEMMA NextStatus ==
    ASSUME QuietEnv, TypeOK, SyncInv, StatusInv, [Next]_vars
    PROVE  StatusInv'
<1> USE DEF TypeOK, Staging, Goto, odooVars, dbVars, runVars, pruneVars
<1>1. ASSUME NEW r \in Runs, NEW w \in Workers, Start(r, w) PROVE StatusInv'
  BY <1>1 DEF Start, IsNext, StatusInv
<1>2. ASSUME NEW r \in Runs, RunStep(r) PROVE StatusInv'
  <2>1. Live(r)
    BY <1>2 DEF RunStep, ReadState, Begin, CopyPage, TotalMoved, DropDocs, DropMark,
                Count, Publish, FailMark, FailDocs, UnlockGet, UnlockDel, Live,
                Critical, Failing, Unlocking
  <2>2. \A x \in Runs \ {r} : pc[x] \notin Staging \cup {"failMark"}
    BY <2>1, RunAlone DEF Live, Critical, Failing
  <2>3. CASE ReadState(r)
    BY <2>3 DEF ReadState, StatusInv
  <2>4. CASE Begin(r)
    <3>1. /\ state'.status = "running" /\ state'.lastRun = r
          /\ pc' = [pc EXCEPT ![r] = "page"]
      BY <2>4 DEF Begin, SyncState
    <3> QED
      BY <2>2, <3>1 DEF StatusInv
  <2>5. CASE CopyPage(r)
    <3>1. /\ state' = state /\ pc[r] = "page"
          /\ \E step \in {"page", "dropDocs", "count"} : pc' = [pc EXCEPT ![r] = step]
      BY <2>5 DEF CopyPage, AfterPage
    <3> QED
      BY <3>1 DEF StatusInv
  <2>6. CASE TotalMoved(r) \/ DropDocs(r) \/ Count(r)
    <3>1. /\ state' = state /\ pc[r] \in Staging
          /\ \E step \in {"failMark", "dropMark", "publish"} :
                pc' = [pc EXCEPT ![r] = step]
          /\ pc'[r] \in Staging \cup {"failMark"}
      BY <2>6 DEF TotalMoved, DropDocs, Count
    <3> QED
      BY <3>1 DEF StatusInv
  <2>7. CASE DropMark(r) \/ Publish(r) \/ FailMark(r)
    <3>1. state'.status \in {"complete", "failed"}
      <4>1. CASE DropMark(r)
        <5>1. state.lastRun = r /\ state \in SyncState
          BY <4>1 DEF DropMark, StatusInv
        <5>2. state' = [state EXCEPT !.status = "complete"]
          BY <4>1, <5>1 DEF DropMark
        <5> QED
          BY <5>1, <5>2 DEF SyncState
      <4>2. CASE Publish(r)
        BY <4>2 DEF Publish, Published
      <4>3. CASE FailMark(r)
        BY <4>3 DEF FailMark, SyncState
      <4> QED
        BY <2>7, <4>1, <4>2, <4>3
    <3>2. pc'[r] \notin Staging /\ \A x \in Runs \ {r} : pc'[x] = pc[x]
      BY <2>7 DEF DropMark, Publish, FailMark
    <3> QED
      BY <2>2, <3>1, <3>2 DEF StatusInv
  <2>8. CASE FailDocs(r) \/ UnlockGet(r) \/ UnlockDel(r)
    <3>1. /\ state' = state /\ pc[r] \in {"failDocs", "unlockGet", "unlockDel"}
          /\ \E step \in {"unlockGet", "unlockDel", "done"} :
                pc' = [pc EXCEPT ![r] = step]
      BY <2>8 DEF FailDocs, UnlockGet, UnlockDel
    <3> QED
      BY <3>1 DEF StatusInv
  <2> QED
    BY <1>2, <2>3, <2>4, <2>5, <2>6, <2>7, <2>8 DEF RunStep
<1>3. ASSUME NEW r \in Runs, PruneStep(r) PROVE StatusInv'
  BY <1>3 DEF PruneStep, PruneFind, PruneDelete, StatusInv
<1>4. ASSUME NEW r \in Runs, Throw(r) PROVE StatusInv'
  <2>1. AfterThrow(pc[r]) \in {"done", "unlockGet", "failMark"}
    BY DEF AfterThrow
  <2> QED
    BY <1>4, <2>1 DEF Throw, StatusInv
<1>5. ASSUME NEW r \in Runs, PublishUnacknowledged(r) PROVE StatusInv'
  BY <1>5 DEF PublishUnacknowledged, QuietEnv
<1>6. ASSUME NEW w \in Workers, Crash(w) PROVE StatusInv'
  BY <1>6 DEF Crash, StatusInv
<1>7. CASE LockTimeout \/ LockLost
  BY <1>7 DEF LockTimeout, LockLost, StatusInv
<1>8. CASE OdooStep
  BY <1>8 DEF OdooStep, OdooCreate, OdooUpdate, OdooWithdraw, OdooChange, StatusInv
<1>9. CASE Bootstrap
  BY <1>9 DEF Bootstrap, BootstrapRows, BootstrapState, StatusInv, SyncState
<1>10. ASSUME NEW r \in Runs, DeleteOne(r) PROVE StatusInv'
  BY <1>10 DEF DeleteOne, StatusInv
<1>11. CASE UNCHANGED vars
  BY <1>11 DEF vars, StatusInv
<1> QED
  BY <1>1, <1>2, <1>3, <1>4, <1>5, <1>6, <1>7, <1>8, <1>9, <1>10, <1>11 DEF Next

(* sync_status tells the truth about the runs: "running" names the run     *)
(* that is staging, and is left behind only by a run that died or could    *)
(* not write its failure (beginSnapshot, commitSnapshot,                   *)
(* discardUnchangedSnapshot and markSnapshotFailed).                       *)
THEOREM StatusIsTrue == QuietEnv => (Spec => []StatusTruthful)
<1>1. ASSUME QuietEnv PROVE Spec => []StatusTruthful
  <2>1. Init => StatusInv
    BY DEF Init, StatusInv, Staging, NoState
  <2>2. TypeOK /\ SyncInv /\ StatusInv /\ [Next]_vars => StatusInv'
    BY <1>1, NextStatus
  <2>3. StatusInv => StatusTruthful
    BY DEF StatusInv, StatusTruthful
  <2>4. Spec => []SyncInv
    BY <1>1, SyncInvariant
  <2> QED
    BY <2>1, <2>2, <2>3, <2>4, TypeCorrect, PTL DEF Spec
<1> QED
  BY <1>1

-----------------------------------------------------------------------------
(* The fingerprint.  Rows can move between pages, so that a run fetches    *)
(* one product twice: it stages fewer documents than it has fetched rows.  *)
(* Their number then differs from the total, which is that of the rows.    *)

CopyInv ==
    \A r \in Runs :
        /\ pc[r] \in Early => seen[r] = <<>> /\ total[r] = 0
        /\ pc[r] \in {"page"} \cup Copied => staged[r] \subseteq Range(seen[r])
        /\ pc[r] = "page" => Len(seen[r]) <= total[r]
        /\ pc[r] \in Copied => Len(seen[r]) = total[r]

(* A page reaches to the end of the list at most. *)
LEMMA OdooPageRows ==
    ASSUME TypeOK, NEW offset \in Nat, offset <= Len(source)
    PROVE  /\ OdooPage(offset) \in Seq(Item)
           /\ Len(OdooPage(offset)) \in Nat
           /\ offset + Len(OdooPage(offset)) <= Len(source)
           /\ Range(OdooPage(offset)) \subseteq Range(source)
<1> DEFINE end == offset + PageLimit
           last == IF end < Len(source) THEN end ELSE Len(source)
           page == SubSeq(source, offset + 1, last)
<1>1. PageLimit \in Nat /\ Len(source) \in Nat /\ source \in Seq(Item)
  BY BoundsAssumption DEF TypeOK
<1>2. last \in Nat /\ last <= Len(source)
  BY <1>1
<1>3. OdooPage(offset) = page
  BY DEF OdooPage
<1> HIDE DEF last
<1>4. \A i \in offset + 1 .. last : source[i] \in Item
  BY <1>1, <1>2
<1>5. /\ page \in Seq(Item)
      /\ Len(page) = IF offset + 1 <= last THEN last - (offset + 1) + 1 ELSE 0
      /\ \A i \in 1 .. last - (offset + 1) + 1 : page[i] = source[offset + 1 + i - 1]
  BY <1>2, <1>4, SubSeqProperties
<1>6. ASSUME NEW i \in DOMAIN page PROVE page[i] \in Range(source)
  <2>1. /\ i \in 1 .. last - (offset + 1) + 1
        /\ offset + 1 + i - 1 \in DOMAIN source
    BY <1>1, <1>2, <1>5
  <2> QED
    BY <1>5, <2>1 DEF Range
<1>7. Range(page) \subseteq Range(source)
  BY <1>6 DEF Range
<1> QED
  BY <1>1, <1>2, <1>3, <1>5, <1>7

LEMMA RangeOfConcat ==
    ASSUME NEW S, NEW s \in Seq(S), NEW t \in Seq(S)
    PROVE  Range(s) \cup Range(t) \subseteq Range(s \o t)
<1>1. ASSUME NEW i \in DOMAIN s PROVE s[i] \in Range(s \o t)
  <2>1. i \in DOMAIN (s \o t) /\ (s \o t)[i] = s[i]
    BY <1>1
  <2> QED
    BY <2>1 DEF Range
<1>2. ASSUME NEW i \in DOMAIN t PROVE t[i] \in Range(s \o t)
  <2>1. Len(s) + i \in DOMAIN (s \o t) /\ (s \o t)[Len(s) + i] = t[i]
    BY <1>2
  <2> QED
    BY <2>1 DEF Range
<1> QED
  BY <1>1, <1>2 DEF Range

(* A list has at most as many elements as it is long. *)
LEMMA RangeBound ==
    ASSUME NEW S, NEW s \in Seq(S)
    PROVE  IsFiniteSet(Range(s)) /\ Cardinality(Range(s)) <= Len(s)
<1>1. DOMAIN s = 1..Len(s) /\ Len(s) \in Nat
  OBVIOUS
<1>2. IsFiniteSet(1..Len(s)) /\ Cardinality(1..Len(s)) = Len(s)
  BY <1>1, FS_Interval
<1>3. s \in Surjection(1..Len(s), Range(s))
  <2>1. s \in [1..Len(s) -> Range(s)]
    BY <1>1 DEF Range
  <2> QED
    BY <1>1, <2>1 DEF Range, Surjection
<1> QED
  BY <1>2, <1>3, FS_Surjection

(* Where a copied page leads, and what it adds to what was fetched. *)
LEMMA CopyPageAdds ==
    ASSUME TypeOK, CopyInv, NEW r \in Runs, CopyPage(r)
    PROVE  /\ NextPage(r) \in Seq(Item)
           /\ Range(NextPage(r)) \subseteq Range(source)
           /\ total'[r] = Len(source)
           /\ seen'[r] = seen[r] \o NextPage(r)
           /\ seen[r] \in Seq(Item) /\ seen'[r] \in Seq(Item)
           /\ Len(seen'[r]) \in Nat /\ Len(seen'[r]) <= Len(source)
           /\ staged'[r] = Upsert(staged[r], Range(NextPage(r)))
           /\ pc'[r] = "page" \/ (Len(seen'[r]) = Len(source) /\ pc'[r] \in {"dropDocs", "count"})
<1> USE DEF TypeOK
<1>1. /\ seen[r] \in Seq(Item) /\ Len(seen[r]) \in Nat
      /\ total[r] \in Nat /\ Len(source) \in Nat
  OBVIOUS
<1>2. Len(source) = SourceTotal(r) /\ pc[r] = "page"
  BY DEF CopyPage
<1>3. Len(seen[r]) <= Len(source)
  BY <1>1, <1>2 DEF CopyInv, SourceTotal
<1>4. /\ NextPage(r) \in Seq(Item) /\ Len(NextPage(r)) \in Nat
      /\ Len(seen[r]) + Len(NextPage(r)) <= Len(source)
      /\ Range(NextPage(r)) \subseteq Range(source)
  BY <1>1, <1>3, OdooPageRows DEF NextPage
<1>5. /\ seen'[r] = seen[r] \o NextPage(r) /\ total'[r] = Len(source)
      /\ staged'[r] = Upsert(staged[r], Range(NextPage(r)))
      /\ pc'[r] = AfterPage(r, seen'[r], Len(source))
  BY <1>2 DEF CopyPage, StagePage, Goto
<1>6. /\ seen'[r] \in Seq(Item)
      /\ Len(seen'[r]) = Len(seen[r]) + Len(NextPage(r))
  BY <1>1, <1>4, <1>5, ConcatProperties
<1>7. /\ Len(seen'[r]) \in Nat /\ Len(seen'[r]) <= Len(source)
  BY <1>1, <1>4, <1>6
<1>8. pc'[r] = "page" \/ (Len(seen'[r]) = Len(source) /\ pc'[r] \in {"dropDocs", "count"})
  BY <1>1, <1>5, <1>7 DEF AfterPage
<1> QED
  BY <1>1, <1>4, <1>5, <1>6, <1>7, <1>8

LEMMA NextCopy ==
    ASSUME TypeOK, CopyInv, [Next]_vars
    PROVE  CopyInv'
<1>1. ASSUME NEW x \in Runs
      PROVE  /\ pc'[x] \in Early => seen'[x] = <<>> /\ total'[x] = 0
             /\ pc'[x] \in {"page"} \cup Copied => staged'[x] \subseteq Range(seen'[x])
             /\ pc'[x] = "page" => Len(seen'[x]) <= total'[x]
             /\ pc'[x] \in Copied => Len(seen'[x]) = total'[x]
  <2>1. StepOf(x)
    BY EachRun
  <2>2. CASE CopyPage(x)
    <3>1. Upsert(staged[x], Range(NextPage(x))) \subseteq staged[x] \cup Range(NextPage(x))
      BY DEF Upsert
    <3>2. staged[x] \subseteq Range(seen[x])
      BY <2>2 DEF CopyInv, CopyPage
    <3>3. /\ seen'[x] = seen[x] \o NextPage(x)
          /\ staged'[x] = Upsert(staged[x], Range(NextPage(x)))
          /\ NextPage(x) \in Seq(Item) /\ seen[x] \in Seq(Item)
      BY <2>2, CopyPageAdds
    <3>4. staged'[x] \subseteq Range(seen'[x])
      BY <3>1, <3>2, <3>3, RangeOfConcat
    <3>5. /\ Len(seen'[x]) <= total'[x]
          /\ pc'[x] = "page" \/ (Len(seen'[x]) = total'[x] /\ pc'[x] \in {"dropDocs", "count"})
      BY <2>2, CopyPageAdds
    <3> QED
      BY <3>4, <3>5 DEF Early, Copied
  <2>3. CASE Begin(x)
    <3>1. /\ pc'[x] = "page" /\ staged'[x] = {} /\ pc[x] = "begin"
          /\ seen'[x] = seen[x] /\ total'[x] = total[x]
      BY <2>3 DEF Begin, Goto, TypeOK, runVars
    <3>2. seen'[x] = <<>> /\ total'[x] = 0
      BY <3>1 DEF CopyInv, Early
    <3> QED
      BY <3>1, <3>2 DEF Early, Copied
  <2>4. CASE ~CopyPage(x) /\ ~Begin(x)
    <3>1. staged'[x] \subseteq staged[x]
      BY <2>1, <2>4 DEF StepOf
    <3>2. CASE pc'[x] \in Early
      BY <2>1, <2>4, <3>2 DEF StepOf, CopyInv, Early, Copied
    <3>3. CASE pc'[x] = "page"
      BY <2>1, <2>4, <3>1, <3>3 DEF StepOf, CopyInv, Early, Copied, Fetched
    <3>4. CASE pc'[x] \in Copied
      BY <2>1, <2>4, <3>1, <3>4 DEF StepOf, CopyInv, Early, Copied, Fetched
    <3> QED
      BY <3>2, <3>3, <3>4
  <2> QED
    BY <2>2, <2>3, <2>4
<1> QED
  BY <1>1 DEF CopyInv

(* Whatever overlaps: what a run has staged are rows it fetched, and it    *)
(* fetches no more once its snapshot is active.                            *)
WholeInv ==
    /\ CopyInv
    /\ \A r \in Runs : staged[r] \subseteq Range(seen[r])
    /\ state.active # None =>
          /\ pc[state.active] \notin Early \cup {"page"}
          /\ state.print = seen[state.active]
          /\ state.total = total[state.active]
          /\ Len(seen[state.active]) = total[state.active]

LEMMA NextWhole ==
    ASSUME TypeOK, WholeInv, [Next]_vars
    PROVE  WholeInv'
<1>1. CopyInv /\ CopyInv'
  BY NextCopy DEF WholeInv
<1>2. ASSUME NEW x \in Runs PROVE staged'[x] \subseteq Range(seen'[x])
  <2>1. CASE CopyPage(x)
    <3>1. pc'[x] \in {"page", "dropDocs", "count"}
      BY <1>1, <2>1, CopyPageAdds
    <3>2. Upsert(staged[x], Range(NextPage(x))) \subseteq staged[x] \cup Range(NextPage(x))
      BY DEF Upsert
    <3>3. /\ seen'[x] = seen[x] \o NextPage(x)
          /\ staged'[x] = Upsert(staged[x], Range(NextPage(x)))
          /\ NextPage(x) \in Seq(Item) /\ seen[x] \in Seq(Item)
      BY <1>1, <2>1, CopyPageAdds
    <3> QED
      BY <3>2, <3>3, RangeOfConcat DEF WholeInv
  <2>2. CASE ~CopyPage(x)
    BY <2>2, EachRun DEF StepOf, WholeInv
  <2> QED
    BY <2>1, <2>2
<1>3. ASSUME NEW x \in Runs, pc[x] \notin Early \cup {"page"}
      PROVE  /\ pc'[x] \notin Early \cup {"page"}
             /\ seen'[x] = seen[x] /\ total'[x] = total[x]
  <2>1. ~CopyPage(x) /\ ~Begin(x)
    BY <1>3 DEF CopyPage, Begin, Early
  <2> QED
    BY <1>3, <2>1, EachRun DEF StepOf
<1>4. ASSUME NEW x \in Runs, Publish(x) \/ PublishUnacknowledged(x)
      PROVE  /\ state'.active = x /\ state'.print = seen[x] /\ state'.total = total[x]
             /\ pc[x] \in Copied /\ Len(seen[x]) = total[x]
  BY <1>1, <1>4 DEF Publish, PublishUnacknowledged, Published, Copied, CopyInv
<1>5. ASSUME state'.active # None
      PROVE  /\ pc'[state'.active] \notin Early \cup {"page"}
             /\ state'.print = seen'[state'.active]
             /\ state'.total = total'[state'.active]
             /\ Len(seen'[state'.active]) = total'[state'.active]
  <2>1. CASE SameActive
    <3>1. state.active \in Runs /\ state'.active = state.active
      BY <1>5, <2>1 DEF SameActive, TypeOK, SyncState, RunOrNone
    <3> QED
      BY <1>3, <1>5, <2>1, <3>1 DEF SameActive, WholeInv
  <2>2. ASSUME NEW x \in Runs, Publish(x) \/ PublishUnacknowledged(x)
        PROVE  /\ pc'[state'.active] \notin Early \cup {"page"}
               /\ state'.print = seen'[state'.active]
               /\ state'.total = total'[state'.active]
               /\ Len(seen'[state'.active]) = total'[state'.active]
    BY <1>3, <1>4, <2>2 DEF Early, Copied
  <2> QED
    BY <2>1, <2>2, StateStep
<1> QED
  BY <1>1, <1>2, <1>5 DEF WholeInv

(* In every environment, with locks lost under live runs, slow prunes and  *)
(* deletions that stop half-way: the active snapshot holds no row but      *)
(* those its fingerprint was made of, no more of them than the state says, *)
(* and all of them when it has as many (the filters by snapshot id in      *)
(* upsertProducts, markSnapshotFailed and pruneSnapshots, and what         *)
(* commitSnapshot puts into the state).                                    *)
THEOREM WholeOrShort == Spec => []ActiveWholeOrShort
<1>1. Init => WholeInv
  BY DEF Init, WholeInv, CopyInv, Copied, NoState
<1>2. TypeOK /\ WholeInv /\ [Next]_vars => WholeInv'
  BY NextWhole
<1>3. ASSUME TypeOK, WholeInv PROVE ActiveWholeOrShort
  <2> SUFFICES ASSUME state.active # None
               PROVE  /\ staged[state.active] \subseteq Range(state.print)
                      /\ Cardinality(staged[state.active]) <= state.total
                      /\ Cardinality(staged[state.active]) = state.total =>
                            staged[state.active] = Range(state.print)
    BY DEF ActiveWholeOrShort
  <2>1. PICK x \in Runs : x = state.active
    BY <1>3 DEF TypeOK, SyncState, RunOrNone
  <2>2. /\ staged[x] \subseteq Range(seen[x]) /\ seen[x] \in Seq(Item)
        /\ state.print = seen[x] /\ state.total = Len(seen[x])
        /\ Len(seen[x]) \in Nat
    BY <1>3, <2>1 DEF WholeInv, TypeOK
  <2>3. IsFiniteSet(Range(seen[x])) /\ Cardinality(Range(seen[x])) <= Len(seen[x])
    BY <2>2, RangeBound
  <2>4. /\ IsFiniteSet(staged[x])
        /\ Cardinality(staged[x]) <= Cardinality(Range(seen[x]))
        /\ Cardinality(Range(seen[x])) = Cardinality(staged[x]) => Range(seen[x]) = staged[x]
    BY <2>2, <2>3, FS_Subset
  <2>5. Cardinality(Range(seen[x])) \in Nat /\ Cardinality(staged[x]) \in Nat
    BY <2>3, <2>4, FS_CardinalityType
  <2> QED
    BY <2>1, <2>2, <2>3, <2>4, <2>5
<1> QED
  BY <1>1, <1>2, <1>3, TypeCorrect, PTL DEF Spec

LEMMA NextPrint ==
    ASSUME QuietEnv, TypeOK, SyncInv, CopyInv, PrintDescribesActive, [Next]_vars
    PROVE  PrintDescribesActive'
<1>1. ASSUME NEW r \in Runs, Publish(r) PROVE PrintDescribesActive'
  <2>1. /\ pc[r] = "publish" /\ staged' = staged
        /\ state'.active = r /\ state'.print = seen[r]
    BY <1>1 DEF Publish, Published
  <2>2. /\ staged[r] \subseteq Range(seen[r]) /\ Len(seen[r]) = total[r]
        /\ Cardinality(staged[r]) = total[r]
    BY <2>1 DEF CopyInv, Copied, SyncInv, CountHolds
  <2>3. seen[r] \in Seq(Item) /\ total[r] \in Nat
    BY DEF TypeOK
  <2>4. IsFiniteSet(Range(seen[r])) /\ Cardinality(Range(seen[r])) <= total[r]
    BY <2>2, <2>3, RangeBound
  <2>5. /\ Cardinality(staged[r]) <= Cardinality(Range(seen[r]))
        /\ Cardinality(Range(seen[r])) = Cardinality(staged[r]) => Range(seen[r]) = staged[r]
    BY <2>2, <2>4, FS_Subset
  <2>6. Cardinality(Range(seen[r])) \in Nat
    BY <2>4, FS_CardinalityType
  <2>7. Range(seen[r]) = staged[r]
    BY <2>2, <2>3, <2>4, <2>5, <2>6
  <2> QED
    BY <2>1, <2>7 DEF PrintDescribesActive
<1>2. CASE ~\E r \in Runs : Publish(r)
  <2>1. KeepsActive
    BY <1>2, NextSync
  <2>2. ASSUME NEW r \in Runs, PublishUnacknowledged(r) PROVE FALSE
    BY <2>2 DEF PublishUnacknowledged, QuietEnv
  <2>3. state'.print = state.print
    BY <1>2, <2>2, StateStep DEF SameActive
  <2> QED
    BY <2>1, <2>3 DEF KeepsActive, PrintDescribesActive
<1> QED
  BY <1>1, <1>2

(* The fingerprint a later run compares with is that of the documents that *)
(* are active, so a run that finds nothing new is right (syncConfig's      *)
(* check against source_fingerprint, and commitSnapshot's validation).     *)
THEOREM PrintOfActive == QuietEnv => (Spec => []PrintDescribesActive)
<1>1. ASSUME QuietEnv PROVE Spec => []PrintDescribesActive
  <2>1. Init => CopyInv /\ PrintDescribesActive
    <3>1. Init => PrintDescribesActive
      BY DEF Init, PrintDescribesActive, NoState
    <3>2. Init => CopyInv
      BY DEF Init, CopyInv, Copied
    <3> QED
      BY <3>1, <3>2
  <2>2. TypeOK /\ SyncInv /\ CopyInv /\ PrintDescribesActive /\ [Next]_vars
          => CopyInv' /\ PrintDescribesActive'
    BY <1>1, NextCopy, NextPrint
  <2>3. Spec => []SyncInv
    BY <1>1, SyncInvariant
  <2> QED
    BY <2>1, <2>2, <2>3, TypeCorrect, PTL DEF Spec
<1> QED
  BY <1>1

-----------------------------------------------------------------------------
(* The rows that were not written while a run copied.  A run can miss one  *)
(* only by fetching another product twice, and then counts too few.        *)

OneRowEach ==
    \A i, j \in DOMAIN source : source[i].product = source[j].product => i = j

Steady(r) ==
    \A row \in Range(source) : row.written <= since[r] => row \in staged[r]

(* A product has one document, whose row Odoo still has or has rewritten.  *)
Keyed(docs) == \A d, e \in docs : d.product = e.product => d = e

Current(r, docs) ==
    \A d \in docs : \E row \in Range(source) :
        row.product = d.product /\ (row = d \/ row.written > since[r])

RowInv ==
    /\ OneRowEach
    /\ \A r \in Runs : since[r] <= changes
    /\ \A r \in Runs : pc[r] \in {"page"} \cup Copied =>
          Keyed(staged[r]) /\ Current(r, staged[r])
    /\ \A r \in Runs : pc[r] \in Copied /\ Cardinality(staged[r]) = total[r] =>
          Steady(r)

(* A change of Odoo's puts one new row in, in place of another of the same *)
(* product or of none.                                                     *)
Moves(new) ==
    /\ new \in Item /\ new.written = changes + 1
    /\ \A row \in Range(source') : row \in Range(source) \/ row = new
    /\ \A row \in Range(source) : row \in Range(source') \/ row.product = new.product
    /\ new \in Range(source')

LEMMA OdooMoves ==
    ASSUME TypeOK, OneRowEach, "withdraw" \notin Env, OdooStep
    PROVE  OneRowEach' /\ \E new \in Item : Moves(new)
<1> USE DEF OneRowEach
<1>1. source \in Seq(Item) /\ Len(source) \in Nat /\ DOMAIN source = 1..Len(source)
  BY LenProperties DEF TypeOK
<1>2. changes + 1 \in 0..MaxChanges
  <2>1. OdooChange
    BY DEF OdooStep, OdooCreate, OdooUpdate, OdooWithdraw
  <2> QED
    BY <2>1, BoundsAssumption DEF OdooChange, TypeOK
<1>3. ASSUME NEW t \in Seq(Item), NEW new \in Item, source' = Append(t, new),
             new.written = changes + 1,
             \A j, k \in DOMAIN t : t[j].product = t[k].product => j = k,
             \A j \in DOMAIN t : t[j].product # new.product,
             Range(t) \subseteq Range(source),
             \A row \in Range(source) : row \in Range(t) \/ row.product = new.product
      PROVE  OneRowEach' /\ Moves(new)
  <2>1. /\ Len(t) \in Nat /\ DOMAIN source' = 1 .. Len(t) + 1 /\ DOMAIN t = 1 .. Len(t)
        /\ \A j \in 1 .. Len(t) : source'[j] = t[j]
        /\ source'[Len(t) + 1] = new
    BY <1>3, AppendProperties, LenProperties
  <2>2. \A j \in DOMAIN source' : j \in DOMAIN t \/ j = Len(t) + 1
    BY <2>1
  <2>3. OneRowEach'
    BY <1>3, <2>1, <2>2
  <2>4. \A row \in Range(t) : row \in Range(source')
    BY <2>1 DEF Range
  <2>5. new \in Range(source')
    BY <2>1 DEF Range
  <2>6. \A row \in Range(source') : row \in Range(t) \/ row = new
    BY <2>1, <2>2 DEF Range
  <2> QED
    BY <1>3, <2>3, <2>4, <2>5, <2>6 DEF Moves
<1>4. ASSUME NEW p \in Products, OdooCreate(p)
      PROVE  OneRowEach' /\ \E new \in Item : Moves(new)
  <2> DEFINE new == [product |-> p, written |-> changes + 1]
  <2>1. new \in Item /\ new.product = p /\ new.written = changes + 1
    BY <1>2 DEF Item
  <2>2. source' = Append(source, new) /\ \A i \in DOMAIN source : source[i].product # p
    BY <1>4 DEF OdooCreate, InOdoo
  <2> HIDE DEF new
  <2> QED
    BY <1>1, <1>3, <2>1, <2>2
<1>5. ASSUME NEW i \in DOMAIN source, OdooUpdate(i)
      PROVE  OneRowEach' /\ \E new \in Item : Moves(new)
  <2>1. source[i] \in Item
    BY <1>1
  <2>2. PICK new : new = [source[i] EXCEPT !.written = changes + 1]
    OBVIOUS
  <2>3. new \in Item /\ new.product = source[i].product /\ new.written = changes + 1
    BY <1>2, <2>1, <2>2 DEF Item
  <2>4. PICK t : t = RemoveAt(source, i)
    OBVIOUS
  <2>5. /\ t \in Seq(Item) /\ Len(t) = Len(source) - 1
        /\ \A k \in 1 .. Len(source) - 1 :
              t[k] = IF k < i THEN source[k] ELSE source[k + 1]
    BY <1>1, <2>4, RemoveAtProperties
  <2>6. DOMAIN t = 1 .. Len(source) - 1
    BY <2>5
  <2>7. ASSUME NEW j \in DOMAIN t
        PROVE  \E a \in DOMAIN source \ {i} :
                  t[j] = source[a] /\ a = IF j < i THEN j ELSE j + 1
    BY <1>1, <2>5, <2>6
  <2>8. ASSUME NEW j \in DOMAIN t, NEW k \in DOMAIN t, t[j].product = t[k].product
        PROVE  j = k
    <3>1. PICK a \in DOMAIN source \ {i} :
             t[j] = source[a] /\ a = IF j < i THEN j ELSE j + 1
      BY <2>7
    <3>2. PICK b \in DOMAIN source \ {i} :
             t[k] = source[b] /\ b = IF k < i THEN k ELSE k + 1
      BY <2>7
    <3>3. a = b
      BY <2>8, <3>1, <3>2
    <3> QED
      BY <1>1, <2>6, <3>1, <3>2, <3>3
  <2>9. \A j \in DOMAIN t : t[j].product # new.product
    BY <2>3, <2>7
  <2>10. Range(t) \subseteq Range(source)
    BY <2>7 DEF Range
  <2>11. ASSUME NEW a \in DOMAIN source
         PROVE  source[a] \in Range(t) \/ source[a].product = new.product
    <3>1. CASE a = i
      BY <2>3, <3>1
    <3>2. CASE a < i
      <4>1. a \in DOMAIN t /\ t[a] = source[a]
        BY <1>1, <2>5, <2>6, <3>2
      <4> QED
        BY <4>1 DEF Range
    <3>3. CASE a > i
      <4>1. a - 1 \in DOMAIN t /\ t[a - 1] = source[a]
        BY <1>1, <2>5, <2>6, <3>3
      <4> QED
        BY <4>1 DEF Range
    <3> QED
      BY <1>1, <3>1, <3>2, <3>3
  <2>12. \A row \in Range(source) : row \in Range(t) \/ row.product = new.product
    BY <2>11 DEF Range
  <2>13. source' = Append(t, new)
    BY <1>5, <2>2, <2>4 DEF OdooUpdate
  <2> QED
    BY <1>3, <2>3, <2>5, <2>8, <2>9, <2>10, <2>12, <2>13
<1> QED
  BY <1>4, <1>5 DEF OdooStep, OdooWithdraw

LEMMA RowsDiffer ==
    ASSUME OneRowEach, NEW a \in Range(source), NEW b \in Range(source),
           a.product = b.product
    PROVE  a = b
  BY DEF OneRowEach, Range

(* As many documents as Odoo has rows, of different products that are all  *)
(* Odoo's: then each of its products has one.                              *)
LEMMA CountCovers ==
    ASSUME TypeOK, OneRowEach, NEW docs, Keyed(docs),
           \A d \in docs : \E row \in Range(source) : row.product = d.product,
           Cardinality(docs) = Len(source)
    PROVE  \A row \in Range(source) : \E d \in docs : d.product = row.product
<1>1. DOMAIN source = 1..Len(source) /\ Len(source) \in Nat
  BY LenProperties DEF TypeOK
<1>2. PICK names : names = {source[i].product : i \in DOMAIN source}
  OBVIOUS
<1>3. IsFiniteSet(names) /\ Cardinality(names) = Len(source)
  <2>1. IsFiniteSet(1..Len(source)) /\ Cardinality(1..Len(source)) = Len(source)
    <3>1. PICK n \in Nat : n = Len(source)
      BY <1>1
    <3>2. IsFiniteSet(1..n) /\ Cardinality(1..n) = n
      BY FS_Interval
    <3> QED
      BY <3>1, <3>2
  <2> DEFINE f == [i \in 1..Len(source) |-> source[i].product]
  <2>2. f \in [1..Len(source) -> names]
    BY <1>1, <1>2
  <2>3. \A i, j \in 1..Len(source) : f[i] = f[j] => i = j
    BY <1>1 DEF OneRowEach
  <2>4. \A n \in names : \E i \in 1..Len(source) : f[i] = n
    BY <1>1, <1>2
  <2> HIDE DEF f
  <2>5. f \in Bijection(1..Len(source), names)
    BY <2>2, <2>3, <2>4 DEF Bijection, Injection, IsInjective, Surjection
  <2> QED
    BY <2>1, <2>5, FS_Bijection DEF ExistsBijection
<1>4. PICK g : g = [d \in docs |-> d.product]
  OBVIOUS
<1>5. g \in Injection(docs, names)
  <2>1. \A d \in docs : d.product \in names
    BY <1>2 DEF Range
  <2>2. g \in [docs -> names]
    BY <1>4, <2>1
  <2>3. \A d, e \in docs : g[d] = g[e] => d = e
    BY <1>4 DEF Keyed
  <2> QED
    BY <2>2, <2>3 DEF Injection, IsInjective
<1>6. g \in Surjection(docs, names)
  BY <1>3, <1>5, FS_Injection
<1>7. ASSUME NEW row \in Range(source) PROVE \E d \in docs : d.product = row.product
  <2>1. row.product \in names
    BY <1>2 DEF Range
  <2>2. PICK d \in docs : g[d] = row.product
    BY <1>6, <2>1 DEF Surjection
  <2> QED
    BY <1>4, <2>2
<1> QED
  BY <1>7

LEMMA CopyPageRows ==
    ASSUME TypeOK, CopyInv, RowInv, NEW r \in Runs, CopyPage(r)
    PROVE  /\ Keyed(staged'[r]) /\ Current(r, staged'[r])
           /\ pc'[r] \in Copied /\ Cardinality(staged'[r]) = total'[r] =>
                 \A row \in Range(source) : row.written <= since[r] => row \in staged'[r]
<1>1. PICK rows : rows = Range(NextPage(r))
  OBVIOUS
<1>2. /\ rows \subseteq Range(source)
      /\ staged'[r] = Upsert(staged[r], rows)
      /\ total'[r] = Len(source)
  BY <1>1, CopyPageAdds
<1>3. Keyed(staged[r]) /\ Current(r, staged[r]) /\ OneRowEach
  BY DEF RowInv, CopyPage
<1>4. Keyed(staged'[r])
  BY <1>2, <1>3, RowsDiffer DEF Keyed, Upsert
<1>5. Current(r, staged'[r])
  BY <1>2, <1>3 DEF Current, Upsert
<1>6. ASSUME Cardinality(staged'[r]) = total'[r],
             NEW row \in Range(source), row.written <= since[r]
      PROVE  row \in staged'[r]
  <2>1. PICK docs : docs = staged'[r]
    OBVIOUS
  <2>2. \A d \in docs : \E a \in Range(source) : a.product = d.product
    BY <1>5, <2>1 DEF Current
  <2>3. PICK d \in docs : d.product = row.product
    BY <1>2, <1>3, <1>4, <1>6, <2>1, <2>2, CountCovers
  <2>4. PICK a \in Range(source) :
           a.product = d.product /\ (a = d \/ a.written > since[r])
    BY <1>5, <2>1 DEF Current
  <2>5. a = row
    BY <1>3, <2>3, <2>4, RowsDiffer
  <2>6. row.written \in Nat /\ since[r] \in Nat
    <3>1. Range(source) \subseteq Item
      BY RangeOfSeq DEF TypeOK
    <3> QED
      BY <3>1 DEF TypeOK, Item
  <2>7. a = d
    BY <1>6, <2>4, <2>5, <2>6
  <2> QED
    BY <2>1, <2>5, <2>7
<1> QED
  BY <1>4, <1>5, <1>6

(* Nobody touches the documents of a run that has copied and not yet       *)
(* published.                                                              *)
LEMMA CopiedKept ==
    ASSUME TypeOK, SyncInv, [Next]_vars, NEW x \in Runs, pc'[x] \in Copied, ~CopyPage(x)
    PROVE  staged'[x] = staged[x]
<1> USE DEF TypeOK, Copied, Goto, odooVars, dbVars, runVars, pruneVars
<1>1. pc[x] \in Copied
  BY EachRun DEF StepOf
<1>2. ASSUME NEW r \in Runs, RunStep(r) PROVE staged'[x] = staged[x]
  <2>1. CASE Begin(r) \/ DropDocs(r) \/ FailDocs(r)
    BY <1>1, <2>1 DEF Begin, DropDocs, FailDocs
  <2>2. CASE CopyPage(r)
    BY <1>1, <2>2 DEF CopyPage, StagePage
  <2> QED
    BY <1>2, <2>1, <2>2
    DEF RunStep, ReadState, TotalMoved, DropMark, Count, Publish, FailMark,
        UnlockGet, UnlockDel
<1>3. ASSUME NEW r \in Runs, PruneStep(r) PROVE staged'[x] = staged[x]
  <2>1. CASE PruneFind(r)
    BY <2>1 DEF PruneFind
  <2>2. CASE PruneDelete(r)
    <3>1. Live(x)
      BY <1>1 DEF Live, Critical, Staging
    <3>2. prune[r] # "none"
      BY <2>2 DEF PruneDelete
    <3>3. x = r
      BY <3>1, <3>2 DEF SyncInv, PruneAlone
    <3> QED
      BY <2>2, <3>3 DEF PruneDelete
  <2> QED
    BY <1>3, <2>1, <2>2 DEF PruneStep
<1>4. ASSUME NEW r \in Runs, DeleteOne(r) PROVE staged'[x] = staged[x]
  <2>1. PICK y \in Runs :
           /\ \/ y = r /\ pc[r] \in {"dropDocs", "failDocs"}
              \/ prune[r] = "delete" /\ y \notin {r, keep[r]}
           /\ \A z \in Runs \ {y} : staged'[z] = staged[z]
    BY <1>4, DeleteOneStep
  <2>2. Live(x) /\ pc[x] \notin {"dropDocs", "failDocs"}
    BY <1>1 DEF Live, Critical, Staging
  <2>3. prune[r] = "delete" => x = r
    BY <2>2 DEF SyncInv, PruneAlone
  <2> QED
    BY <2>1, <2>2, <2>3
<1> QED
  BY <1>2, <1>3, <1>4
  DEF Next, Start, Throw, PublishUnacknowledged, Crash, LockTimeout, LockLost, OdooStep,
      OdooCreate, OdooUpdate, OdooWithdraw, OdooChange, Bootstrap, BootstrapRows,
      BootstrapState, vars

LEMMA SourceStep ==
    ASSUME TypeOK, [Next]_vars
    PROVE  \/ source' = source /\ changes' = changes
           \/ OdooStep /\ changes' = changes + 1 /\ UNCHANGED <<staged, state, pc, since, total>>
<1> USE DEF odooVars, dbVars, runVars
<1>1. ASSUME NEW r \in Runs, RunStep(r) PROVE source' = source /\ changes' = changes
  BY <1>1 DEF RunStep, ReadState, Begin, CopyPage, TotalMoved, DropDocs, DropMark,
              Count, Publish, FailMark, FailDocs, UnlockGet, UnlockDel
<1>2. CASE OdooStep
  BY <1>2 DEF OdooStep, OdooCreate, OdooUpdate, OdooWithdraw, OdooChange
<1> QED
  BY <1>1, <1>2
  DEF Next, Start, PruneStep, PruneFind, PruneDelete, DeleteOne, Throw,
      PublishUnacknowledged, Crash, LockTimeout, LockLost, Bootstrap, BootstrapRows,
      BootstrapState, vars

LEMMA NextRows ==
    ASSUME TypeOK, SyncInv, CopyInv, RowInv, "withdraw" \notin Env, [Next]_vars
    PROVE  RowInv'
<1>1. changes \in Nat /\ \A x \in Runs : since[x] \in Nat
  BY DEF TypeOK
<1>2. ASSUME NEW x \in Runs PROVE since'[x] <= changes
  BY <1>1, EachRun DEF StepOf, RowInv
<1>3. CASE source' = source /\ changes' = changes
  <2>1. ASSUME NEW x \in Runs, pc'[x] \in {"page"} \cup Copied
        PROVE  /\ Keyed(staged'[x]) /\ Current(x, staged[x])'
               /\ pc'[x] \in Copied /\ Cardinality(staged'[x]) = total'[x] => Steady(x)'
    <3>1. StepOf(x)
      BY EachRun
    <3>2. CASE CopyPage(x)
      <4>1. since'[x] = since[x]
        BY <3>2 DEF CopyPage
      <4> QED
        BY <1>3, <3>2, <4>1, CopyPageRows DEF Current, Steady
    <3>3. CASE Begin(x)
      <4>1. staged'[x] = {} /\ pc'[x] = "page"
        BY <3>3 DEF Begin, Goto, TypeOK
      <4> QED
        BY <4>1 DEF Keyed, Current, Copied
    <3>4. CASE ~CopyPage(x) /\ ~Begin(x)
      <4>1. /\ pc[x] \in {"page"} \cup Copied
            /\ pc'[x] \in Copied => pc[x] \in Copied
            /\ total'[x] = total[x] /\ since'[x] = since[x]
            /\ staged'[x] \subseteq staged[x]
        BY <2>1, <3>1, <3>4 DEF StepOf, Fetched, Copied
      <4>2. Keyed(staged[x]) /\ Current(x, staged[x])
        BY <4>1 DEF RowInv
      <4>3. Keyed(staged'[x]) /\ Current(x, staged[x])'
        BY <1>3, <4>1, <4>2 DEF Keyed, Current
      <4>4. ASSUME pc'[x] \in Copied, Cardinality(staged'[x]) = total'[x]
            PROVE  Steady(x)'
        <5>1. staged'[x] = staged[x]
          BY <3>4, <4>4, CopiedKept
        <5> QED
          BY <1>3, <4>1, <4>4, <5>1 DEF RowInv, Steady
      <4> QED
        BY <4>3, <4>4
    <3> QED
      BY <3>2, <3>3, <3>4
  <2> QED
    BY <1>2, <1>3, <2>1 DEF RowInv, OneRowEach, Keyed
<1>4. CASE OdooStep /\ changes' = changes + 1 /\ UNCHANGED <<staged, state, pc, since, total>>
  <2>1. OneRowEach
    BY DEF RowInv
  <2>2. OneRowEach' /\ \E new \in Item : Moves(new)
    BY <1>4, <2>1, OdooMoves
  <2>3. PICK new \in Item : Moves(new)
    BY <2>2
  <2>4. \A x \in Runs : new.written > since[x]
    BY <1>1, <2>3 DEF Moves, RowInv
  <2>5. ASSUME NEW x \in Runs, Current(x, staged[x]) PROVE Current(x, staged[x])'
    BY <1>4, <2>3, <2>4, <2>5 DEF Current, Moves
  <2>6. ASSUME NEW x \in Runs, Steady(x) PROVE Steady(x)'
    <3>1. ASSUME NEW row \in Range(source'), row.written <= since[x] PROVE row \in staged[x]
      <4>1. row # new
        BY <1>1, <2>3, <2>4, <3>1 DEF Item
      <4>2. row \in Range(source)
        BY <2>3, <4>1 DEF Moves
      <4> QED
        BY <2>6, <3>1, <4>2 DEF Steady
    <3> QED
      BY <1>4, <3>1 DEF Steady
  <2>7. \A x \in Runs : since'[x] <= changes'
    BY <1>1, <1>2, <1>4
  <2> QED
    BY <1>4, <2>2, <2>5, <2>6, <2>7 DEF RowInv
<1> QED
  BY <1>3, <1>4, SourceStep

LEMMA NextSteady ==
    ASSUME QuietEnv, "withdraw" \notin Env, TypeOK, SyncInv, RowInv,
           PublishedHoldsSteadyRows, [Next]_vars
    PROVE  PublishedHoldsSteadyRows'
<1>1. ASSUME NEW r \in Runs, Publish(r) PROVE PublishedHoldsSteadyRows'
  <2>1. /\ pc[r] = "publish" /\ staged' = staged /\ since' = since /\ source' = source
        /\ state'.active = r
    BY <1>1 DEF Publish, Published, odooVars, runVars
  <2>2. Steady(r)
    BY <2>1 DEF SyncInv, CountHolds, RowInv, Copied
  <2> QED
    BY <2>1, <2>2 DEF PublishedHoldsSteadyRows, Steady
<1>2. CASE ~\E r \in Runs : Publish(r)
  <2>1. KeepsActive
    BY <1>2, NextSync
  <2>2. ASSUME state.active # None
        PROVE  /\ state.active \in Runs /\ since'[state.active] = since[state.active]
               /\ since[state.active] \in Nat /\ since[state.active] <= changes
    <3>1. PICK x \in Runs : x = state.active
      BY <2>2 DEF TypeOK, SyncState, RunOrNone
    <3>2. pc[x] # "idle"
      BY <3>1 DEF SyncInv, UnpublishedNotActive
    <3>3. since'[x] = since[x]
      BY <3>2, EachRun DEF StepOf
    <3> QED
      BY <3>1, <3>3 DEF RowInv, TypeOK
  <2>3. CASE source' = source
    BY <2>1, <2>2, <2>3 DEF KeepsActive, PublishedHoldsSteadyRows
  <2>4. CASE OdooStep
    <3>1. OneRowEach
      BY DEF RowInv
    <3>2. PICK new \in Item : Moves(new)
      BY <2>4, <3>1, OdooMoves
    <3>3. ASSUME state'.active # None, NEW row \in Range(source'),
                 row.written <= since'[state'.active]
          PROVE  row \in staged'[state'.active]
      <4>1. state.active # None /\ state'.active = state.active
        BY <2>1, <3>3 DEF KeepsActive
      <4>2. row # new
        <5>1. changes \in Nat
          BY DEF TypeOK
        <5> QED
          BY <2>2, <3>2, <3>3, <4>1, <5>1 DEF Moves
      <4>3. row \in Range(source)
        BY <3>2, <4>2 DEF Moves
      <4> QED
        BY <2>1, <2>2, <3>3, <4>1, <4>3 DEF KeepsActive, PublishedHoldsSteadyRows
    <3> QED
      BY <3>3 DEF PublishedHoldsSteadyRows
  <2> QED
    BY <2>3, <2>4, SourceStep
<1> QED
  BY <1>1, <1>2

(* While no product leaves Odoo's list, counting the staged documents is   *)
(* validation enough: a row that was not written since the run took its    *)
(* snapshot id is in the snapshot it published, whatever moved between its *)
(* pages (commitSnapshot's comparison with the source total).              *)
THEOREM CountingSuffices ==
    QuietEnv /\ "withdraw" \notin Env => (Spec => []PublishedHoldsSteadyRows)
<1>1. ASSUME QuietEnv, "withdraw" \notin Env PROVE Spec => []PublishedHoldsSteadyRows
  <2>1. Init => CopyInv /\ RowInv /\ PublishedHoldsSteadyRows
    <3>1. Init => CopyInv
      BY DEF Init, CopyInv, Copied
    <3>2. Init => RowInv
      BY RowsAssumption DEF Init, RowInv, OneRowEach, Copied
    <3>3. Init => PublishedHoldsSteadyRows
      BY DEF Init, PublishedHoldsSteadyRows, NoState
    <3> QED
      BY <3>1, <3>2, <3>3
  <2>2. TypeOK /\ SyncInv /\ CopyInv /\ RowInv /\ PublishedHoldsSteadyRows /\ [Next]_vars
          => CopyInv' /\ RowInv' /\ PublishedHoldsSteadyRows'
    <3>1. TypeOK /\ CopyInv /\ [Next]_vars => CopyInv'
      BY NextCopy
    <3>2. TypeOK /\ SyncInv /\ CopyInv /\ RowInv /\ [Next]_vars => RowInv'
      BY <1>1, NextRows
    <3>3. TypeOK /\ SyncInv /\ RowInv /\ PublishedHoldsSteadyRows /\ [Next]_vars
            => PublishedHoldsSteadyRows'
      BY <1>1, NextSteady
    <3> QED
      BY <3>1, <3>2, <3>3
  <2>3. Spec => []SyncInv
    BY <1>1, SyncInvariant
  <2> QED
    BY <2>1, <2>2, <2>3, TypeCorrect, PTL DEF Spec
<1> QED
  BY <1>1

-----------------------------------------------------------------------------
(* The older snapshot.  When no call fails and no process dies, a run that *)
(* does not publish leaves no documents, so that the newest other snapshot *)
(* a prune finds is the one that was active before.                        *)

CalmEnv == Env \subseteq {"withdraw", "bootstrap"}

Before == IF state.active = None THEN None ELSE prior[state.active].active

Unfinished == {"begin", "page", "count", "publish"}
Busy == {"page", "count", "publish", "dropDocs"} \cup Failing

(* A prune's deleteMany takes a document, or all that are left. *)
PruneDeletes(r) == PruneDelete(r) \/ (prune[r] = "delete" /\ DeleteOne(r))

(* What a step is for one run, seen from its documents. *)
CalmStepOf(x) ==
    /\ staged'[x] # {} /\ pc'[x] \notin Busy =>
          Publish(x) \/ (staged[x] # {} /\ pc[x] \notin Busy)
    /\ pc'[x] \in Unfinished /\ ~ReadState(x) => pc[x] \in Unfinished
    /\ prior'[x] = prior[x] \/ ReadState(x)
    /\ \/ staged'[x] = staged[x]
       \/ Live(x) /\ pc[x] \notin Unlocking
       \/ \E r \in Runs : PruneDeletes(r)
    /\ prune'[x] = "delete" /\ ~PruneFind(x) =>
          prune[x] = "delete" /\ keep'[x] = keep[x]
    /\ prune'[x] = "none" => prune[x] = "none" \/ PruneDelete(x)

LEMMA CalmIsQuiet == CalmEnv => QuietEnv
  BY DEF CalmEnv, QuietEnv

LEMMA CalmRun ==
    ASSUME CalmEnv, TypeOK, [Next]_vars, NEW x \in Runs
    PROVE  CalmStepOf(x)
<1> USE DEF TypeOK, CalmStepOf, Unfinished, Busy, Failing, Unlocking, Staging, Critical,
            Live, Goto, odooVars, dbVars, runVars, pruneVars
<1>1. ASSUME NEW r \in Runs, NEW w \in Workers, Start(r, w) PROVE CalmStepOf(x)
  BY <1>1 DEF Start, IsNext
<1>2. ASSUME NEW r \in Runs, RunStep(r) PROVE CalmStepOf(x)
  <2>1. CASE ReadState(r)
    BY <2>1 DEF ReadState
  <2>2. CASE Begin(r)
    BY <2>2 DEF Begin
  <2>3. CASE CopyPage(r)
    <3>1. CASE x = r
      <4>1. pc'[x] \in {"page", "dropDocs", "count"} /\ pc[x] = "page"
        BY <2>3, <3>1 DEF CopyPage, AfterPage
      <4>2. UNCHANGED <<prior, prune, keep>>
        BY <2>3 DEF CopyPage
      <4> QED
        BY <4>1, <4>2
    <3>2. CASE x # r
      BY <2>3, <3>2 DEF CopyPage, StagePage
    <3> QED
      BY <3>1, <3>2
  <2>4. CASE TotalMoved(r) \/ DropDocs(r) \/ DropMark(r) \/ Count(r)
    BY <2>4 DEF TotalMoved, DropDocs, DropMark, Count
  <2>5. CASE Publish(r)
    BY <2>5 DEF Publish
  <2>6. CASE FailMark(r) \/ FailDocs(r)
    BY <2>6 DEF FailMark, FailDocs
  <2>7. CASE UnlockGet(r) \/ UnlockDel(r)
    BY <2>7 DEF UnlockGet, UnlockDel
  <2> QED
    BY <1>2, <2>1, <2>2, <2>3, <2>4, <2>5, <2>6, <2>7 DEF RunStep
<1>3. ASSUME NEW r \in Runs, PruneStep(r) PROVE CalmStepOf(x)
  <2>1. CASE PruneFind(r)
    BY <2>1 DEF PruneFind
  <2>2. CASE PruneDelete(r)
    BY <2>2 DEF PruneDelete, PruneDeletes
  <2> QED
    BY <1>3, <2>1, <2>2 DEF PruneStep
<1>4. ASSUME \/ LockTimeout
             \/ OdooStep
             \/ Bootstrap
             \/ UNCHANGED vars
      PROVE  CalmStepOf(x)
  <2>1. UNCHANGED <<staged, pc, prior, prune, keep>>
    BY <1>4 DEF LockTimeout, OdooStep, OdooCreate, OdooUpdate, OdooWithdraw, OdooChange,
                Bootstrap, BootstrapRows, BootstrapState, vars
  <2> QED
    BY <2>1
<1>5. ASSUME \/ \E r \in Runs : Throw(r) \/ PublishUnacknowledged(r)
             \/ \E w \in Workers : Crash(w)
             \/ LockLost
      PROVE  FALSE
  BY <1>5 DEF CalmEnv, Throw, PublishUnacknowledged, Crash, LockLost
<1>6. ASSUME NEW r \in Runs, DeleteOne(r) PROVE CalmStepOf(x)
  <2>1. /\ UNCHANGED <<pc, prior, prune, keep>>
        /\ staged'[x] \subseteq staged[x]
    BY <1>6, DeleteOneStep
  <2>2. \/ staged'[x] = staged[x]
        \/ x = r /\ pc[r] \in {"dropDocs", "failDocs"}
        \/ PruneDeletes(r)
    BY <1>6, DeleteOneStep DEF PruneDeletes
  <2> QED
    BY <2>1, <2>2
<1> QED
  BY <1>1, <1>2, <1>3, <1>4, <1>5, <1>6 DEF Next

(* The invariant.  A run works on the state it read; the snapshot before   *)
(* the active one is older; documents are of the active snapshot, of those *)
(* before it, or of a run that is not done with them; a prune spares the   *)
(* newest other snapshot; after it only two have documents.                *)

StateIsRead ==
    \A r \in Runs : pc[r] \in Unfinished =>
        prior[r].active = state.active /\ prior[r].total = state.total

BeforeIsOlder == state.active # None => Before < state.active

Holders ==
    \A x \in Runs : staged[x] # {} =>
        x = state.active \/ x <= Before \/ pc[x] \in Busy

NewestSpared ==
    \A r \in Runs : prune[r] = "delete" =>
        /\ keep[r] \in OthersStaged(r) \cup {None}
        /\ NewestOf(keep[r], OthersStaged(r))

TwoLeft ==
    state.active = None \/ prune[state.active] = "none" =>
        \E k \in RunOrNone : \A x \in Runs : staged[x] # {} =>
            x \in {state.active, k} \/ pc[x] \in Busy

KeptInv ==
    /\ StateIsRead
    /\ BeforeIsOlder
    /\ Holders
    /\ NewestSpared
    /\ TwoLeft
    /\ PreviousSnapshotKept

LEMMA InitKept == Init => KeptInv
  BY DEF Init, KeptInv, StateIsRead, BeforeIsOlder, Holders, NewestSpared, TwoLeft,
         PreviousSnapshotKept, Unfinished, NoState, RunOrNone

LEMMA NumbersOfRuns ==
    ASSUME TypeOK, KeptInv
    PROVE  /\ \A x \in Runs : x \in Nat /\ x # 0
           /\ state.active \in Nat /\ Before \in Nat
           /\ state.active # 0 => /\ state.active \in Runs
                                  /\ Before < state.active
                                  /\ Before = prior[state.active].active
           /\ state.active = 0 => Before = 0
           /\ Before <= state.active
           /\ Before # 0 => Before \in Runs /\ state.active # 0
<1>1. None = 0 /\ Runs \subseteq Nat \ {0}
  BY DEF Runs, None
<1>2. state.active \in Runs \cup {0}
  BY <1>1 DEF TypeOK, SyncState, RunOrNone
<1>3. state.active # 0 => prior[state.active].active \in Runs \cup {0}
  BY <1>1, <1>2 DEF TypeOK, SyncState, RunOrNone
<1>4. Before = IF state.active = 0 THEN 0 ELSE prior[state.active].active
  BY <1>1 DEF Before
<1>5. state.active # 0 => Before < state.active
  BY <1>1 DEF KeptInv, BeforeIsOlder
<1>6. Before \in Runs \cup {0}
  BY <1>3, <1>4
<1>7. state.active \in Nat /\ Before \in Nat
  <2>1. ASSUME NEW x \in Runs \cup {0} PROVE x \in Nat
    BY <1>1, <2>1
  <2> QED BY <1>2, <1>6, <2>1
<1>8. state.active = 0 => Before = 0
  BY <1>4
<1>9. state.active # 0 => Before = prior[state.active].active
  BY <1>4
<1>10. Before <= state.active
  BY <1>5, <1>7, <1>8
<1> QED
  BY <1>1, <1>2, <1>5, <1>6, <1>7, <1>8, <1>9, <1>10

(* A live run whose snapshot is not active is newer than the active one. *)
LEMMA LiveIsNewer ==
    ASSUME TypeOK, SyncInv, NEW r \in Runs, Live(r)
    PROVE  state.active <= r
<1>1. state.active \in Runs => pc[state.active] # "idle"
  BY DEF SyncInv, UnpublishedNotActive
<1>2. state.active \in Runs /\ r < state.active => FALSE
  BY <1>1 DEF SyncInv, StartedInOrder
<1>3. state.active \in Runs \/ state.active = 0
  BY DEF TypeOK, SyncState, RunOrNone, None
<1> QED
  BY <1>2, <1>3, BoundsAssumption DEF Runs

(* The snapshot before the active one stays what it is until the next      *)
(* publication: no live run has its number, and the prune spares it.       *)
LEMMA BeforeKept ==
    ASSUME CalmEnv, TypeOK, SyncInv, KeptInv, [Next]_vars, KeepsActive
    PROVE  /\ Before' = Before
           /\ Before # None => staged'[Before] = staged[Before]
<1>0. /\ \A x \in Runs : x \in Nat /\ x # 0
      /\ state.active \in Nat /\ Before \in Nat
      /\ state.active # 0 => /\ state.active \in Runs
                             /\ Before < state.active
                             /\ Before = prior[state.active].active
      /\ state.active = 0 => Before = 0
      /\ Before <= state.active
      /\ Before # 0 => Before \in Runs /\ state.active # 0
      /\ None = 0
  BY NumbersOfRuns DEF None
<1> USE DEF TypeOK
<1>1. state'.active = state.active /\ state'.total = state.total
  BY DEF KeepsActive
<1>2. \A x \in Runs : CalmStepOf(x)
  BY CalmRun
<1>3. Before' = Before
  <2>1. CASE state.active = None
    BY <1>1, <2>1 DEF Before
  <2>2. CASE state.active # None
    <3>1. state.active \in Runs
      BY <2>2, <1>0
    <3>2. ~ReadState(state.active)
      BY <3>1 DEF ReadState, SyncInv, UnpublishedNotActive
    <3>3. prior'[state.active] = prior[state.active]
      BY <1>2, <3>1, <3>2 DEF CalmStepOf
    <3> QED
      BY <1>1, <2>2, <3>3 DEF Before
  <2> QED BY <2>1, <2>2
<1>4. ASSUME Before # None PROVE staged'[Before] = staged[Before]
  <2>1. Before \in Runs /\ state.active \in Runs /\ Before < state.active
    BY <1>4, <1>0
  <2>2. ~Live(Before)
    <3>1. Live(Before) => state.active <= Before
      BY <2>1, LiveIsNewer
    <3> QED BY <2>1, <3>1, <1>0
  <2>3. ASSUME NEW r \in Runs, PruneDeletes(r) PROVE staged'[Before] = staged[Before]
    <3>1. prune[r] = "delete" /\ r = state.active
      BY <2>3 DEF PruneDeletes, PruneDelete, SyncInv, PruneAlone
    <3>2. CASE staged[Before] = {}
      BY <2>1, <2>3, <3>2, DeleteOneStep DEF PruneDeletes, PruneDelete
    <3>3. CASE staged[Before] # {}
      <4>1. Before \in OthersStaged(r)
        <5>1. Before # r
          BY <2>1, <3>1, <1>0
        <5> QED BY <2>1, <3>3, <5>1 DEF OthersStaged
      <4>2. keep[r] \in OthersStaged(r) \cup {None} /\ Before <= keep[r]
        BY <3>1, <4>1 DEF KeptInv, NewestSpared, NewestOf
      <4>3. keep[r] \in OthersStaged(r)
        BY <2>1, <4>2, <1>0
      <4>4. keep[r] \in Runs /\ keep[r] # state.active /\ staged[keep[r]] # {}
        BY <3>1, <4>3 DEF OthersStaged
      <4>5. ~Live(keep[r])
        BY <3>1, <4>4 DEF SyncInv, PruneAlone
      <4>6. keep[r] <= Before
        BY <4>4, <4>5 DEF KeptInv, Holders, Live, Busy, Critical, Staging
      <4>7. keep[r] = Before
        <5>1. keep[r] \in Nat /\ Before \in Nat
          BY <1>0, <4>4
        <5> HIDE DEF TypeOK
        <5> QED BY <4>2, <4>6, <5>1
      <4>8. CASE PruneDelete(r)
        BY <2>1, <4>7, <4>8 DEF PruneDelete
      <4>9. CASE DeleteOne(r)
        <5>1. ~Live(Before) /\ Before # r
          BY <2>1, <2>2, <3>1, <1>0
        <5>2. pc[Before] \notin {"dropDocs", "failDocs"}
          BY <5>1 DEF Live, Critical, Staging, Failing
        <5> QED
          BY <2>1, <4>7, <4>9, <5>1, <5>2, DeleteOneStep
      <4> QED BY <2>3, <4>8, <4>9 DEF PruneDeletes
    <3> QED BY <3>2, <3>3
  <2> QED
    BY <1>2, <2>1, <2>2, <2>3 DEF CalmStepOf
<1> QED
  BY <1>3, <1>4

(* The steps that publish nothing. *)
LEMMA KeptBeside ==
    ASSUME CalmEnv, TypeOK, TypeOK', SyncInv, KeptInv, [Next]_vars, KeepsActive
    PROVE  KeptInv'
<1>0. /\ \A x \in Runs : x \in Nat /\ x # 0
      /\ state.active \in Nat /\ Before \in Nat
      /\ state.active # 0 => /\ state.active \in Runs
                             /\ Before < state.active
                             /\ Before = prior[state.active].active
      /\ state.active = 0 => Before = 0
      /\ Before <= state.active
      /\ Before # 0 => Before \in Runs /\ state.active # 0
      /\ None = 0
  BY NumbersOfRuns DEF None
<1> USE DEF TypeOK
<1>1. state'.active = state.active /\ state'.total = state.total
  BY DEF KeepsActive
<1>2. \A x \in Runs : CalmStepOf(x)
  BY CalmRun
<1>3. \A x \in Runs : ~Publish(x)
  <2>1. ASSUME NEW x \in Runs, Publish(x) PROVE FALSE
    <3>1. pc[x] = "publish" /\ state'.active = x
      BY <2>1 DEF Publish, Published
    <3> QED
      BY <1>1, <3>1 DEF SyncInv, UnpublishedNotActive, Staging
  <2> QED BY <2>1
<1>4. /\ Before' = Before
      /\ Before # None => staged'[Before] = staged[Before]
  BY BeforeKept
<1>5. StateIsRead'
  <2>1. ASSUME NEW r \in Runs, pc'[r] \in Unfinished
        PROVE  prior'[r].active = state.active /\ prior'[r].total = state.total
    <3>1. CASE ReadState(r)
      BY <3>1 DEF ReadState
    <3>2. CASE ~ReadState(r)
      BY <1>2, <2>1, <3>2 DEF CalmStepOf, KeptInv, StateIsRead
    <3> QED BY <3>1, <3>2
  <2> QED BY <1>1, <2>1 DEF StateIsRead
<1>6. BeforeIsOlder'
  BY <1>1, <1>4 DEF KeptInv, BeforeIsOlder
<1>7. Holders'
  BY <1>1, <1>2, <1>3, <1>4 DEF KeptInv, Holders, CalmStepOf
<1>8. ASSUME NEW r \in Runs, prune[r] # "none"
      PROVE  staged' = staged \/ PruneDeletes(r)
  <2>1. state.active = r /\ \A x \in Runs : Live(x) => x = r
    BY <1>8 DEF SyncInv, PruneAlone
  <2>2. \A x \in Runs : ~(Live(x) /\ pc[x] \notin Unlocking)
    BY <2>1 DEF SyncInv, UnpublishedNotActive, Live, Critical
  <2>3. \A x \in Runs : PruneDeletes(x) => x = r
    BY <2>1 DEF PruneDeletes, PruneDelete, SyncInv, PruneAlone
  <2>4. CASE ~PruneDeletes(r)
    <3>1. \A x \in Runs : staged'[x] = staged[x]
      BY <1>2, <2>2, <2>3, <2>4 DEF CalmStepOf
    <3> QED BY <3>1
  <2> QED BY <2>4
<1>9. NewestSpared'
  <2>1. ASSUME NEW r \in Runs, prune'[r] = "delete"
        PROVE  keep'[r] \in OthersStaged(r)' \cup {None} /\ NewestOf(keep'[r], OthersStaged(r)')
    <3>1. CASE PruneFind(r)
      BY <3>1 DEF PruneFind, OthersStaged, dbVars
    <3>2. CASE ~PruneFind(r)
      <4>1. prune[r] = "delete" /\ keep'[r] = keep[r]
        BY <1>2, <2>1, <3>2 DEF CalmStepOf
      <4>2. ~PruneDelete(r)
        BY <2>1 DEF PruneDelete
      <4>3. /\ keep[r] \in OthersStaged(r) \cup {None}
            /\ NewestOf(keep[r], OthersStaged(r))
        BY <4>1 DEF KeptInv, NewestSpared
      <4>4. CASE staged' = staged
        BY <4>1, <4>3, <4>4 DEF OthersStaged
      <4>5. CASE DeleteOne(r)
        <5>1. state.active = r
          BY <4>1 DEF SyncInv, PruneAlone
        <5>2. pc[r] \notin {"dropDocs", "failDocs"}
          BY <5>1 DEF SyncInv, UnpublishedNotActive, Staging, Failing
        <5>3. \A y \in Runs : staged'[y] \subseteq staged[y]
          BY <4>5, DeleteOneStep
        <5>4. keep[r] \in Runs => staged'[keep[r]] = staged[keep[r]]
          BY <4>5, <5>2, DeleteOneStep
        <5>5. OthersStaged(r)' \subseteq OthersStaged(r)
          BY <5>3 DEF OthersStaged
        <5>6. keep[r] \in OthersStaged(r)' \cup {None}
          BY <4>3, <5>4 DEF OthersStaged
        <5> QED
          BY <4>1, <4>3, <5>5, <5>6 DEF NewestOf
      <4> QED
        BY <1>8, <4>1, <4>2, <4>4, <4>5 DEF PruneDeletes
    <3> QED BY <3>1, <3>2
  <2> QED BY <2>1 DEF NewestSpared, OthersStaged, NewestOf
<1>10. TwoLeft'
  <2> SUFFICES ASSUME state.active = None \/ prune'[state.active] = "none"
               PROVE  \E k \in RunOrNone : \A x \in Runs : staged'[x] # {} =>
                         x \in {state.active, k} \/ pc'[x] \in Busy
    BY <1>1 DEF TwoLeft
  <2>1. CASE state.active = None \/ prune[state.active] = "none"
    <3>1. PICK k \in RunOrNone : \A x \in Runs : staged[x] # {} =>
             x \in {state.active, k} \/ pc[x] \in Busy
      BY <2>1 DEF KeptInv, TwoLeft
    <3>2. \A x \in Runs : staged'[x] # {} => x \in {state.active, k} \/ pc'[x] \in Busy
      BY <1>2, <1>3, <3>1 DEF CalmStepOf
    <3> QED BY <3>2
  <2>2. CASE state.active \in Runs /\ prune[state.active] # "none"
    <3>1. PruneDelete(state.active)
      BY <1>0, <1>2, <2>2 DEF CalmStepOf
    <3>2. keep[state.active] \in RunOrNone
      BY <2>2
    <3>3. \A x \in Runs : staged'[x] # {} => x \in {state.active, keep[state.active]}
      BY <3>1 DEF PruneDelete
    <3> QED BY <3>2, <3>3
  <2> QED BY <2>1, <2>2, <1>0
<1>11. PreviousSnapshotKept'
  <2> SUFFICES ASSUME state.active # None, prior'[state.active].active # None
               PROVE  Cardinality(staged'[prior'[state.active].active])
                         = prior'[state.active].total
    BY <1>1 DEF PreviousSnapshotKept
  <2>1. state.active \in Runs /\ Before = prior[state.active].active
    BY <1>0
  <2>2. ~ReadState(state.active)
    BY <2>1 DEF ReadState, SyncInv, UnpublishedNotActive
  <2>3. prior'[state.active] = prior[state.active]
    BY <1>2, <2>1, <2>2 DEF CalmStepOf
  <2> QED
    BY <1>4, <2>1, <2>3 DEF KeptInv, PreviousSnapshotKept
<1> QED
  BY <1>5, <1>6, <1>7, <1>9, <1>10, <1>11 DEF KeptInv

LEMMA KeptByPublish ==
    ASSUME CalmEnv, TypeOK, TypeOK', SyncInv, KeptInv, NEW r \in Runs, Publish(r)
    PROVE  KeptInv'
<1>0. /\ \A x \in Runs : x \in Nat /\ x # 0
      /\ state.active \in Nat /\ Before \in Nat
      /\ state.active # 0 => /\ state.active \in Runs
                             /\ Before < state.active
                             /\ Before = prior[state.active].active
      /\ state.active = 0 => Before = 0
      /\ Before <= state.active
      /\ Before # 0 => Before \in Runs /\ state.active # 0
      /\ None = 0
  BY NumbersOfRuns DEF None
<1> USE DEF TypeOK
<1>1. /\ pc[r] = "publish" /\ pc' = [pc EXCEPT ![r] = "unlockGet"]
      /\ prune' = [prune EXCEPT ![r] = "find"]
      /\ UNCHANGED <<staged, prior, keep>>
      /\ state'.active = r /\ r # None
  BY DEF Publish, Published, Goto, runVars, Runs, None
<1>2. Live(r)
  BY <1>1 DEF Live, Critical, Staging
<1>3. \A x \in Runs \ {r} : ~Live(x) /\ prune[x] = "none"
  BY <1>2, RunAlone
<1>4. prior[r].active = state.active /\ prior[r].total = state.total
  BY <1>1 DEF KeptInv, StateIsRead, Unfinished
<1>5. Before' = state.active /\ state.active < r
  BY <1>1, <1>4, PublishIsNewer DEF Before
<1>6. StateIsRead'
  BY <1>1, <1>3 DEF StateIsRead, Unfinished, Live, Critical, Staging
<1>7. BeforeIsOlder'
  BY <1>1, <1>5 DEF BeforeIsOlder
<1>8. Holders'
  <2>1. ASSUME NEW x \in Runs, staged[x] # {}, x # r PROVE x <= state.active
    <3>1. pc[x] \notin Busy
      BY <1>3, <2>1 DEF Live, Busy, Critical, Staging
    <3>2. x = state.active \/ x <= Before
      BY <2>1, <3>1 DEF KeptInv, Holders
    <3>3. x \in Nat \ {0}
      BY <1>0
    <3>4. x \in Nat /\ x # 0 /\ Before \in Nat /\ state.active \in Nat
      BY <1>0
    <3>5. Before <= state.active
      BY <1>0
    <3> HIDE DEF TypeOK
    <3> QED BY <3>2, <3>4, <3>5
  <2> QED BY <1>1, <1>5, <2>1 DEF Holders
<1>9. NewestSpared'
  BY <1>1 DEF KeptInv, NewestSpared, OthersStaged, NewestOf
<1>10. TwoLeft'
  BY <1>1 DEF TwoLeft
<1>11. PreviousSnapshotKept'
  BY <1>1, <1>4 DEF PreviousSnapshotKept, SyncInv, ActiveSnapshotFull
<1> QED
  BY <1>6, <1>7, <1>8, <1>9, <1>10, <1>11 DEF KeptInv

LEMMA NextKept ==
    ASSUME CalmEnv, TypeOK, SyncInv, KeptInv, [Next]_vars
    PROVE  KeptInv'
<1>1. TypeOK'
  BY NextType
<1>2. KeepsActive \/ \E r \in Runs : Publish(r)
  BY CalmIsQuiet, NextSync
<1> QED
  BY <1>1, <1>2, KeptBeside, KeptByPublish

(* In a calm environment this invariant holds, beside SyncInv. *)
THEOREM CalmKeeps == CalmEnv => (Spec => []KeptInv)
<1>1. ASSUME CalmEnv PROVE Spec => []KeptInv
  <2>1. TypeOK /\ SyncInv /\ KeptInv /\ [Next]_vars => KeptInv'
    BY <1>1, NextKept
  <2>2. Spec => []SyncInv
    BY <1>1, CalmIsQuiet, SyncInvariant
  <2> QED
    BY <2>1, <2>2, InitKept, TypeCorrect, PTL DEF Spec
<1> QED
  BY <1>1

(* While no call fails and no process dies, the snapshot that was active   *)
(* before the present one keeps all its documents: whatever runs copy,     *)
(* fail over a moved total or discard, the prune finds it as the newest    *)
(* other one (pruneSnapshots).                                             *)
THEOREM PreviousKept == CalmEnv => (Spec => []PreviousSnapshotKept)
<1>1. KeptInv => PreviousSnapshotKept
  BY DEF KeptInv
<1> QED
  BY <1>1, CalmKeeps, PTL

(* Two elements make a set of two at most. *)
LEMMA PairSize ==
    ASSUME NEW a, NEW b, NEW S, S \subseteq {a, b}
    PROVE  IsFiniteSet(S) /\ Cardinality(S) <= 2
<1>1. IsFiniteSet({a}) /\ Cardinality({a}) = 1
  BY FS_Singleton
<1>2. IsFiniteSet({a} \cup {b}) /\ Cardinality({a} \cup {b}) <= 2
  BY <1>1, FS_AddElement
<1>3. S \subseteq {a} \cup {b}
  OBVIOUS
<1> QED
  BY <1>2, <1>3, FS_Subset, FS_CardinalityType

(* And then snapshots do not pile up: when no run is live and no prune     *)
(* pending, two at most have documents.                                    *)
THEOREM OldOnesPruned == CalmEnv => (Spec => []SnapshotsBounded)
<1>1. TypeOK /\ KeptInv => SnapshotsBounded
  <2> SUFFICES ASSUME TypeOK, KeptInv, \A r \in Runs : ~Live(r) /\ prune[r] = "none"
               PROVE  Cardinality({r \in Runs : staged[r] # {}}) <= 2
    BY DEF SnapshotsBounded
  <2>1. state.active = None \/ prune[state.active] = "none"
    BY DEF TypeOK, SyncState, RunOrNone
  <2>2. PICK k \in RunOrNone : \A x \in Runs : staged[x] # {} =>
           x \in {state.active, k} \/ pc[x] \in Busy
    BY <2>1 DEF KeptInv, TwoLeft
  <2>3. {r \in Runs : staged[r] # {}} \subseteq {state.active, k}
    BY <2>2 DEF Live, Busy, Critical, Staging
  <2> QED
    BY <2>3, PairSize
<1> QED
  BY <1>1, CalmKeeps, TypeCorrect, PTL
===============================================================================
