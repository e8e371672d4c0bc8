-------------------------- MODULE CatalogReadProofs --------------------------
(***************************************************************************)
(* Theorems about CatalogRead: readers leave the synchronisation as it is, *)
(* and a scan never answers from an older catalog than it asked for.       *)
(***************************************************************************)
EXTENDS CatalogRead, CatalogStateProofs

-----------------------------------------------------------------------------
(* A step of a reader changes nothing of the synchronisation. *)
LEMMA ReadNextKeeps == [ReadNext]_allVars => [Next]_vars
<1> SUFFICES ASSUME [ReadNext]_allVars PROVE [Next]_vars
  OBVIOUS
<1>1. CASE \E mode \in {"offset", "cursor"} : Ask(mode)
  BY <1>1 DEF Ask
<1>2. CASE ListStep
  BY <1>2 DEF ListStep, ListService, ListRepository, ListFind, ListCount, ListAnswer
<1>3. CASE ScanStep
  BY <1>3 DEF ScanStep, ScanService, ScanCache, ScanRepository, ScanFind, ScanSet
<1>4. CASE \E k \in RunOrNone : CacheExpire(k)
  BY <1>4 DEF CacheExpire
<1>5. CASE UNCHANGED allVars
  BY <1>5 DEF allVars
<1> QED
  BY <1>1, <1>2, <1>3, <1>4, <1>5 DEF ReadNext

(* So whatever holds of the synchronisation holds of it beside readers. *)
THEOREM ReadersHarmless == ReadSpec => Spec
<1>1. ReadInit => Init
  BY DEF ReadInit
<1> QED
  BY <1>1, ReadNextKeeps, PTL DEF ReadSpec, Spec

-----------------------------------------------------------------------------
(* The invariant behind ScanNotOlder: an answer is cached under a snapshot *)
(* that is not newer than the one it is from, a scan's key is not newer    *)
(* than the active snapshot, and where it looks is not older than its key. *)

ScanTypeOK ==
    /\ scan \in Scan
    /\ cache \in [RunOrNone -> [row : RowOrNone, from : RunOrNone]]

ScanInv ==
    /\ \A k \in RunOrNone : cache[k] # NotCached => cache[k].from >= k
    /\ scan.key <= state.active
    /\ scan.step \in {"get", "repository"} => scan.from = None
    /\ scan.step \in {"find", "set"} => scan.from >= scan.key
    /\ ScanNotOlder

LEMMA InitScan == ReadInit => ScanTypeOK /\ ScanInv
<1> SUFFICES ASSUME ReadInit PROVE ScanTypeOK /\ ScanInv
  OBVIOUS
<1>1. NoRow \in RowOrNone /\ None \in RunOrNone
  BY DEF RowOrNone, RunOrNone
<1>2. state.active = 0
  BY DEF ReadInit, Init, NoState, None
<1> QED
  BY <1>1, <1>2 DEF ReadInit, ScanTypeOK, Scan, ScanInv, ScanNotOlder, NotCached, None

(* The active snapshot is only ever replaced by a newer one. *)
LEMMA ActiveGrows ==
    ASSUME QuietEnv, TypeOK, SyncInv, [Next]_vars
    PROVE  state.active <= state'.active
<1>1. CASE KeepsActive
  BY <1>1 DEF KeepsActive, TypeOK, SyncState, RunOrNone, Runs, None
<1>2. ASSUME NEW r \in Runs, Publish(r) PROVE state.active <= state'.active
  <2>1. state'.active = r /\ pc[r] = "publish"
    BY <1>2 DEF Publish, Published
  <2>2. state.active < r
    BY <2>1, PublishIsNewer
  <2>3. state.active \in Nat /\ r \in Nat
    BY DEF TypeOK, SyncState, RunOrNone, Runs, None
  <2> QED
    BY <2>1, <2>2, <2>3
<1> QED
  BY <1>1, <1>2, NextSync

LEMMA ScanStepInv ==
    ASSUME TypeOK, ScanTypeOK, ScanInv, ScanStep
    PROVE  ScanTypeOK' /\ ScanInv'
<1> USE DEF ScanTypeOK, ScanInv, ScanNotOlder
<1>1. state' = state
  BY DEF ScanStep, ScanService, ScanCache, ScanRepository, ScanFind, ScanSet, vars
<1>2. state.active \in RunOrNone /\ state.located \in BOOLEAN
  BY DEF TypeOK, SyncState
<1>3. RunOrNone \subseteq Nat /\ None = 0 /\ None \in RunOrNone
  BY DEF RunOrNone, Runs, None
<1>4. CASE ScanService
  <2> DEFINE step == IF state = NoState THEN "done" ELSE "get"
  <2>1. step \in {"done", "get"}
    OBVIOUS
  <2>2. /\ scan' = [ step |-> step, located |-> state.located,
                     key |-> state.active, from |-> None, row |-> NoRow ]
        /\ cache' = cache
    BY <1>4 DEF ScanService
  <2> HIDE DEF step
  <2>3. scan' \in Scan
    BY <1>2, <1>3, <2>1, <2>2 DEF Scan, RowOrNone
  <2>4. scan'.step = step /\ scan'.key = state.active /\ scan'.from = None
    BY <2>2
  <2>5. scan'.key <= state'.active
    <3>1. state.active \in Nat
      BY <1>2, <1>3
    <3>2. state.active <= state.active
      BY <3>1
    <3> QED BY <1>1, <2>4, <3>2
  <2> QED
    BY <2>1, <2>2, <2>3, <2>4, <2>5
<1>5. CASE ScanCache
  <2> DEFINE entry == cache[scan.key]
  <2>1. /\ entry \in [row : RowOrNone, from : RunOrNone]
        /\ entry # NotCached => entry.from >= scan.key
    BY DEF Scan
  <2>2. cache' = cache /\ scan.step = "get" /\ scan.from = None
    BY <1>5 DEF ScanCache
  <2>3. CASE entry = NotCached
    <3>1. scan' = [scan EXCEPT !.step = "repository"]
      BY <1>5, <2>3 DEF ScanCache, CacheKey
    <3>2. /\ scan' \in Scan
          /\ scan'.step = "repository" /\ scan'.key = scan.key
          /\ scan'.from = None
      BY <2>2, <3>1 DEF Scan
    <3> QED
      BY <1>1, <2>2, <3>2
  <2>4. CASE entry # NotCached
    <3> HIDE DEF entry
    <3>1. scan' = [scan EXCEPT !.step = "done", !.row = entry.row,
                               !.from = entry.from]
      BY <1>5, <2>4 DEF ScanCache, CacheKey, entry
    <3>2. /\ scan' \in Scan
          /\ scan'.step = "done" /\ scan'.key = scan.key
          /\ scan'.from = entry.from
      BY <2>1, <3>1 DEF Scan
    <3> QED
      BY <1>1, <2>1, <2>2, <2>4, <3>2
  <2> QED
    BY <2>3, <2>4
<1>6. CASE ScanRepository
  <2>1. cache' = cache /\ scan.step = "repository" /\ scan.from = None
    BY <1>6 DEF ScanRepository
  <2>2. CASE scan' = [scan EXCEPT !.step = "done"]
    <3>1. /\ scan' \in Scan
          /\ scan'.step = "done" /\ scan'.key = scan.key /\ scan'.from = None
      BY <2>1, <2>2 DEF Scan
    <3> QED
      BY <1>1, <2>1, <3>1
  <2>3. CASE scan' = [scan EXCEPT !.step = "find", !.from = state.active]
    <3>1. /\ scan' \in Scan
          /\ scan'.step = "find" /\ scan'.key = scan.key
          /\ scan'.from = state.active /\ scan.key \in RunOrNone
      BY <1>2, <2>3 DEF Scan
    <3> QED
      BY <1>1, <1>2, <1>3, <2>1, <3>1
  <2> QED
    BY <1>6, <2>2, <2>3 DEF ScanRepository
<1>7. CASE ScanFind
  <2>1. Found(scan) \subseteq RowOrNone
    BY <1>3 DEF Found, Documents, TypeOK, Scan, RowOrNone, RunOrNone
  <2>2. cache' = cache /\ scan.step = "find"
    BY <1>7 DEF ScanFind
  <2>3. /\ scan' \in Scan
        /\ scan'.step \in {"done", "set"} /\ scan'.key = scan.key
        /\ scan'.from = scan.from
    BY <1>7, <2>1 DEF ScanFind, Scan
  <2> QED
    BY <1>1, <2>2, <2>3
<1>8. CASE ScanSet
  <2> DEFINE entry == [row |-> scan.row, from |-> scan.from]
  <2>1. /\ cache' = [cache EXCEPT ![scan.key] = entry]
        /\ scan' = [scan EXCEPT !.step = "done"]
        /\ scan.from >= scan.key
    BY <1>8 DEF ScanSet, CacheKey
  <2>2. entry \in [row : RowOrNone, from : RunOrNone] /\ entry.from >= scan.key
    BY <2>1 DEF Scan
  <2> HIDE DEF entry
  <2>3. /\ scan' \in Scan
        /\ scan'.step = "done" /\ scan'.key = scan.key /\ scan'.from = scan.from
    BY <2>1 DEF Scan
  <2>4. cache' \in [RunOrNone -> [row : RowOrNone, from : RunOrNone]]
    BY <2>1, <2>2
  <2>5. \A k \in RunOrNone : cache'[k] # NotCached => cache'[k].from >= k
    BY <2>1, <2>2
  <2> QED
    BY <1>1, <2>1, <2>3, <2>4, <2>5
<1> QED
  BY <1>4, <1>5, <1>6, <1>7, <1>8 DEF ScanStep

LEMMA ReadNextInv ==
    ASSUME QuietEnv, TypeOK, SyncInv, ScanTypeOK, ScanInv, [ReadNext]_allVars
    PROVE  ScanTypeOK' /\ ScanInv'
<1>1. CASE ScanStep
  BY <1>1, ScanStepInv
<1>2. CASE \E k \in RunOrNone : CacheExpire(k)
  <2>1. PICK k \in RunOrNone : CacheExpire(k)
    BY <1>2
  <2>2. NotCached \in [row : RowOrNone, from : RunOrNone]
    BY DEF NotCached, RowOrNone, RunOrNone
  <2>3. cache' = [cache EXCEPT ![k] = NotCached] /\ UNCHANGED <<scan, state>>
    BY <2>1 DEF CacheExpire, vars
  <2>4. ScanTypeOK'
    BY <2>2, <2>3 DEF ScanTypeOK
  <2>5. \A x \in RunOrNone : cache'[x] # NotCached => cache'[x].from >= x
    BY <2>3 DEF ScanTypeOK, ScanInv
  <2> QED
    BY <2>3, <2>4, <2>5 DEF ScanInv, ScanNotOlder
<1>3. ASSUME UNCHANGED <<scan, cache>> PROVE ScanTypeOK' /\ ScanInv'
  <2>1. state.active <= state'.active
    BY ReadNextKeeps, ActiveGrows
  <2>2. state.active \in RunOrNone /\ state'.active \in RunOrNone
    BY ReadNextKeeps, NextType DEF TypeOK, SyncState
  <2>3. scan.key \in RunOrNone /\ RunOrNone \subseteq Nat
    BY DEF ScanTypeOK, Scan, RunOrNone, Runs, None
  <2>4. scan.key <= state'.active
    <3>1. scan.key \in Nat /\ state.active \in Nat /\ state'.active \in Nat
      BY <2>2, <2>3
    <3>2. scan.key <= state.active
      BY DEF ScanInv
    <3> QED BY <2>1, <3>1, <3>2
  <2> QED
    BY <1>3, <2>4 DEF ScanTypeOK, ScanInv, ScanNotOlder
<1> QED
  BY <1>1, <1>2, <1>3
  DEF ReadNext, allVars, readVars, Ask, ListStep, ListService, ListRepository,
      ListFind, ListCount, ListAnswer

(* In a quiet environment a scan never answers from an older catalog than  *)
(* the one that was active when it was asked, whatever is published, put   *)
(* in the cache or dropped from it between its calls.                      *)
THEOREM ScansNeverOlder == QuietEnv => (ReadSpec => []ScanNotOlder)
<1>1. ASSUME QuietEnv PROVE ReadSpec => []ScanNotOlder
  <2>1. TypeOK /\ SyncInv /\ ScanTypeOK /\ ScanInv /\ [ReadNext]_allVars
           => ScanTypeOK' /\ ScanInv'
    BY <1>1, ReadNextInv
  <2>2. ReadSpec => []TypeOK /\ []SyncInv
    <3>1. Spec => []SyncInv
      BY <1>1, SyncInvariant
    <3> QED
      BY <3>1, ReadersHarmless, TypeCorrect, PTL
  <2>3. ScanInv => ScanNotOlder
    BY DEF ScanInv
  <2> QED
    BY <2>1, <2>2, <2>3, InitScan, PTL DEF ReadSpec
<1> QED
  BY <1>1

-----------------------------------------------------------------------------
(* What a reader can count on does not change under it: a snapshot that is *)
(* readable after a step, and was there before, was readable before it and *)
(* has the same documents.                                                 *)
LEMMA ReadableKept ==
    ASSUME CalmEnv, TypeOK, SyncInv, KeptInv, [Next]_vars,
           NEW s \in RunOrNone, s <= state.active, Readable(s)'
    PROVE  Readable(s) /\ staged'[s] = staged[s]
<1>0. /\ state.active \in Nat /\ Before \in Nat
      /\ Before = IF state.active = 0 THEN 0 ELSE prior[state.active].active
      /\ Before <= state.active
      /\ None = 0
  BY NumbersOfRuns DEF None
<1>1. /\ s # None /\ state'.active # None
      /\ s = state'.active \/ s = Before'
  BY DEF Readable, Before
<1>2. Readable(s) <=> state.active # None /\ s # None /\ (s = state.active \/ s = Before)
  BY <1>0 DEF Readable
<1>3. CASE KeepsActive
  <2>1. state'.active = state.active /\ staged'[state.active] = staged[state.active]
    BY <1>1, <1>3 DEF KeepsActive
  <2>2. Before' = Before /\ (Before # None => staged'[Before] = staged[Before])
    BY <1>3, BeforeKept
  <2> QED
    BY <1>1, <1>2, <2>1, <2>2
<1>4. ASSUME NEW r \in Runs, Publish(r) PROVE Readable(s) /\ staged'[s] = staged[s]
  <2>1. /\ pc[r] = "publish" /\ state'.active = r
        /\ staged' = staged /\ prior' = prior
    BY <1>4 DEF Publish, Published, runVars
  <2>2. prior[r].active = state.active
    BY <2>1 DEF KeptInv, StateIsRead, Unfinished
  <2>3. Before' = state.active /\ state.active < r
    BY <1>1, <2>1, <2>2, PublishIsNewer DEF Before
  <2>4. s # r
    <3>1. s \in Nat /\ r \in Nat
      BY DEF RunOrNone, Runs, None
    <3> QED BY <1>0, <2>3, <3>1
  <2>5. s = state.active
    BY <1>1, <2>1, <2>3, <2>4
  <2> QED
    BY <1>1, <1>2, <2>1, <2>5
<1> QED
  BY <1>3, <1>4, CalmIsQuiet, NextSync

-----------------------------------------------------------------------------
(* The invariant behind ScanTrue: a cached answer, and one about to be     *)
(* cached, is a row, and is in the snapshot it is said to be from for as   *)
(* long as that one can be counted on.                                     *)
CachedTrue ==
    \A k \in RunOrNone : cache[k] # NotCached =>
        /\ cache[k].row # NoRow
        /\ cache[k].from <= state.active
        /\ Readable(cache[k].from) => cache[k].row \in staged[cache[k].from]

FoundTrue ==
    /\ scan.from <= state.active
    /\ scan.step \in {"get", "repository"} => scan.from = None
    /\ scan.step \in {"get", "repository", "find"} => scan.row = NoRow
    /\ scan.step = "set" =>
          /\ scan.row # NoRow
          /\ Readable(scan.from) => scan.row \in staged[scan.from]

AnswerInv ==
    /\ CachedTrue
    /\ FoundTrue
    /\ ScanTrue

LEMMA InitAnswer == ReadInit => AnswerInv
<1> SUFFICES ASSUME ReadInit PROVE AnswerInv
  OBVIOUS
<1>1. state.active = 0 /\ scan.from = 0 /\ scan.step = "idle"
  BY DEF ReadInit, Init, NoState, None
<1>2. CachedTrue
  BY DEF ReadInit, CachedTrue
<1> QED
  BY <1>1, <1>2 DEF AnswerInv, FoundTrue, ScanTrue, ReadInit

(* The steps of the synchronisation, and those of a listing. *)
LEMMA AnswerBeside ==
    ASSUME CalmEnv, TypeOK, SyncInv, KeptInv, ScanTypeOK, AnswerInv, [Next]_vars,
           UNCHANGED <<scan, cache>>
    PROVE  AnswerInv'
<1>1. /\ state.active \in Nat /\ state'.active \in Nat
      /\ state.active <= state'.active
  <2>1. state.active <= state'.active
    BY ActiveGrows, CalmIsQuiet
  <2>2. state.active \in RunOrNone /\ state'.active \in RunOrNone
    BY NextType DEF TypeOK, SyncState
  <2> QED
    BY <2>1, <2>2 DEF RunOrNone, Runs, None
<1>2. ASSUME NEW s \in RunOrNone, s <= state.active
      PROVE  s <= state'.active /\ (Readable(s)' => Readable(s) /\ staged'[s] = staged[s])
  <2>1. s \in Nat
    BY DEF RunOrNone, Runs, None
  <2>2. s <= state'.active
    BY <1>1, <1>2, <2>1
  <2> QED
    BY <1>2, <2>2, ReadableKept
<1>3. scan.from \in RunOrNone /\ \A k \in RunOrNone : cache[k].from \in RunOrNone
  BY DEF ScanTypeOK, Scan
<1>4. CachedTrue'
  <2>1. ASSUME NEW k \in RunOrNone, cache[k] # NotCached
        PROVE  /\ cache[k].row # NoRow
               /\ cache[k].from <= state'.active
               /\ Readable(cache[k].from)' => cache[k].row \in staged'[cache[k].from]
    <3>1. /\ cache[k].row # NoRow
          /\ cache[k].from <= state.active
          /\ Readable(cache[k].from) => cache[k].row \in staged[cache[k].from]
      BY <2>1 DEF AnswerInv, CachedTrue
    <3>2. PICK s \in RunOrNone : s = cache[k].from
      BY <1>3
    <3>3. s <= state'.active /\ (Readable(s)' => Readable(s) /\ staged'[s] = staged[s])
      BY <1>2, <3>1, <3>2
    <3>4. Readable(cache[k].from)' <=> Readable(s)'
      BY <3>2 DEF Readable
    <3> QED
      BY <3>1, <3>2, <3>3
  <2> QED
    BY <2>1 DEF CachedTrue
<1>5. FoundTrue'
  BY <1>2, <1>3 DEF AnswerInv, FoundTrue
<1>6. ScanTrue'
  BY <1>2, <1>3 DEF AnswerInv, FoundTrue, ScanTrue
<1> QED
  BY <1>4, <1>5, <1>6 DEF AnswerInv

(* The steps of a scan. *)
LEMMA AnswerStep ==
    ASSUME TypeOK, ScanTypeOK, AnswerInv, ScanStep
    PROVE  AnswerInv'
<1> USE DEF ScanTypeOK, AnswerInv, FoundTrue, ScanTrue
<1>1. state' = state /\ staged' = staged /\ prior' = prior
  BY DEF ScanStep, ScanService, ScanCache, ScanRepository, ScanFind, ScanSet, vars
<1>2. \A s : Readable(s)' <=> Readable(s)
  BY <1>1 DEF Readable
<1>3. state.active \in RunOrNone /\ RunOrNone \subseteq Nat /\ None = 0
  BY DEF TypeOK, SyncState, RunOrNone, Runs, None
<1>4. ~Readable(None)
  BY DEF Readable
<1>0. None <= state'.active /\ state.active <= state'.active
  <2>1. state.active \in Nat /\ None = 0
    BY <1>3
  <2>2. 0 <= state.active /\ state.active <= state.active
    BY <2>1
  <2> QED
    BY <1>1, <2>1, <2>2
<1>5. ASSUME cache' = cache PROVE CachedTrue'
  BY <1>1, <1>2, <1>5 DEF CachedTrue
<1>6. CASE ScanService
  <2>1. cache' = cache /\ scan'.from = None /\ scan'.row = NoRow
        /\ scan'.step \in {"done", "get"}
    BY <1>6 DEF ScanService
  <2>2. scan'.from <= state'.active
    BY <1>0, <2>1
  <2> QED
    BY <1>2, <1>4, <1>5, <2>1, <2>2
<1>7. CASE ScanCache
  <2> DEFINE entry == cache[scan.key]
  <2>1. cache' = cache /\ scan.step = "get"
    BY <1>7 DEF ScanCache
  <2>2. scan.from = None /\ scan.row = NoRow /\ scan.key \in RunOrNone
    BY <2>1 DEF Scan
  <2>3. CASE entry = NotCached
    <3>1. scan' = [scan EXCEPT !.step = "repository"]
      BY <1>7, <2>3 DEF ScanCache, CacheKey
    <3>2. scan'.step = "repository" /\ scan'.from = None /\ scan'.row = NoRow
      BY <2>2, <3>1 DEF Scan
    <3>3. scan'.from <= state'.active
      BY <1>0, <3>2
    <3> QED
      BY <1>5, <2>1, <3>2, <3>3
  <2>4. CASE entry # NotCached
    <3>1. scan' = [scan EXCEPT !.step = "done", !.row = entry.row, !.from = entry.from]
      BY <1>7, <2>4 DEF ScanCache, CacheKey
    <3>2. scan'.step = "done" /\ scan'.from = entry.from /\ scan'.row = entry.row
      BY <3>1 DEF Scan
    <3>3. /\ entry.row # NoRow /\ entry.from <= state.active
          /\ Readable(entry.from) => entry.row \in staged[entry.from]
      BY <2>2, <2>4 DEF CachedTrue
    <3> HIDE DEF entry
    <3>4. scan'.from <= state'.active
      BY <1>1, <3>2, <3>3
    <3>5. ScanTrue'
      BY <1>1, <1>2, <3>2, <3>3
    <3> QED
      BY <1>5, <2>1, <3>2, <3>4, <3>5
  <2> QED
    BY <2>3, <2>4
<1>8. CASE ScanRepository
  <2>1. cache' = cache /\ scan.step = "repository"
    BY <1>8 DEF ScanRepository
  <2>2. scan.from = None /\ scan.row = NoRow
    BY <2>1
  <2>3. CASE scan' = [scan EXCEPT !.step = "done"]
    <3>1. scan'.step = "done" /\ scan'.from = None /\ scan'.row = NoRow
      BY <2>2, <2>3 DEF Scan
    <3>2. scan'.from <= state'.active
      BY <1>0, <3>1
    <3> QED
      BY <1>2, <1>4, <1>5, <2>1, <3>1, <3>2
  <2>4. CASE scan' = [scan EXCEPT !.step = "find", !.from = state.active]
    <3>1. scan'.step = "find" /\ scan'.from = state.active /\ scan'.row = NoRow
      BY <2>2, <2>4 DEF Scan
    <3>2. scan'.from <= state'.active
      BY <1>0, <3>1
    <3> QED
      BY <1>5, <2>1, <3>1, <3>2
  <2> QED
    BY <1>8, <2>3, <2>4 DEF ScanRepository
<1>9. CASE ScanFind
  <2>1. cache' = cache /\ scan.step = "find" /\ scan.row = NoRow
    BY <1>9 DEF ScanFind
  <2>2. ASSUME Readable(scan.from)
        PROVE  Found(scan) = {row \in staged[scan.from] :
                                 scan.located /\ row.product = Barcode}
    BY <2>2 DEF Readable, Found, Documents
  <2>3. CASE Found(scan) = {} /\ scan' = [scan EXCEPT !.step = "done"]
    <3>1. /\ scan'.step = "done" /\ scan'.from = scan.from
          /\ scan'.row = NoRow /\ scan'.located = scan.located
      BY <2>1, <2>3 DEF Scan
    <3>2. scan'.from <= state'.active
      BY <1>1, <3>1
    <3>3. ScanTrue'
      BY <1>1, <1>2, <2>2, <2>3, <3>1
    <3> QED
      BY <1>5, <2>1, <3>1, <3>2, <3>3
  <2>4. ASSUME NEW row \in Found(scan),
               scan' = [scan EXCEPT !.step = "set", !.row = row]
        PROVE  AnswerInv'
    <3>1. /\ scan'.step = "set" /\ scan'.from = scan.from /\ scan'.row = row
      BY <2>4 DEF Scan
    <3>2. scan'.from <= state'.active
      BY <1>1, <3>1
    <3>3. row # NoRow
      <4>1. row.product = Barcode /\ Barcode # 0
        BY ReadAssumption DEF Found
      <4> QED BY <4>1 DEF NoRow
    <3>4. Readable(scan.from)' => scan'.row \in staged'[scan'.from]
      BY <1>1, <1>2, <2>2, <3>1 DEF Readable
    <3> QED
      BY <1>5, <2>1, <3>1, <3>2, <3>3, <3>4
  <2> QED
    BY <1>9, <2>3, <2>4 DEF ScanFind
<1>10. CASE ScanSet
  <2> DEFINE entry == [row |-> scan.row, from |-> scan.from]
  <2>1. /\ cache' = [cache EXCEPT ![scan.key] = entry]
        /\ scan' = [scan EXCEPT !.step = "done"]
        /\ scan.step = "set" /\ scan.key \in RunOrNone
    BY <1>10 DEF ScanSet, CacheKey, Scan
  <2>2. /\ scan.row # NoRow
        /\ Readable(scan.from) => scan.row \in staged[scan.from]
        /\ entry.row = scan.row /\ entry.from = scan.from
    BY <2>1
  <2> HIDE DEF entry
  <2>3. /\ scan'.step = "done" /\ scan'.from = scan.from /\ scan'.row = scan.row
    BY <2>1 DEF Scan
  <2>4. \A k \in RunOrNone : cache'[k] = IF k = scan.key THEN entry ELSE cache[k]
    BY <2>1
  <2>5. CachedTrue'
    BY <1>1, <1>2, <2>2, <2>4 DEF CachedTrue
  <2>6. scan'.from <= state'.active
    BY <1>1, <2>3
  <2>7. ScanTrue'
    BY <1>1, <1>2, <2>2, <2>3
  <2> QED
    BY <2>3, <2>5, <2>6, <2>7
<1> QED
  BY <1>6, <1>7, <1>8, <1>9, <1>10 DEF ScanStep

LEMMA ReadNextAnswer ==
    ASSUME CalmEnv, TypeOK, SyncInv, KeptInv, ScanTypeOK, AnswerInv,
           [ReadNext]_allVars
    PROVE  AnswerInv'
<1>1. CASE ScanStep
  BY <1>1, AnswerStep
<1>2. CASE \E k \in RunOrNone : CacheExpire(k)
  <2>1. PICK k \in RunOrNone : CacheExpire(k)
    BY <1>2
  <2>2. cache' = [cache EXCEPT ![k] = NotCached] /\ UNCHANGED <<scan, vars>>
    BY <2>1 DEF CacheExpire
  <2>3. state' = state /\ staged' = staged /\ prior' = prior /\ scan' = scan
    BY <2>2 DEF vars
  <2>4. \A s : Readable(s)' <=> Readable(s)
    BY <2>3 DEF Readable
  <2>5. \A x \in RunOrNone : cache'[x] # NotCached => cache'[x] = cache[x] /\ cache[x] # NotCached
    BY <2>2 DEF ScanTypeOK
  <2>6. CachedTrue'
    BY <2>3, <2>4, <2>5 DEF AnswerInv, CachedTrue
  <2> QED
    BY <2>3, <2>4, <2>6 DEF AnswerInv, FoundTrue, ScanTrue
<1>3. ASSUME UNCHANGED <<scan, cache>> PROVE AnswerInv'
  BY <1>3, ReadNextKeeps, AnswerBeside
<1> QED
  BY <1>1, <1>2, <1>3
  DEF ReadNext, allVars, readVars, Ask, ListStep, ListService, ListRepository,
      ListFind, ListCount, ListAnswer

(* While no call of a run fails, a scan's answer, found or not, fresh or   *)
(* cached, is what the snapshot it is from holds, for as long as that      *)
(* snapshot is the active one or the one before it.                        *)
THEOREM ScansTrue == CalmEnv => (ReadSpec => []ScanTrue)
<1>1. ASSUME CalmEnv PROVE ReadSpec => []ScanTrue
  <2>1. ReadSpec => []TypeOK /\ []SyncInv /\ []KeptInv
    <3>1. (Spec => []SyncInv) /\ (Spec => []KeptInv)
      BY <1>1, CalmIsQuiet, SyncInvariant, CalmKeeps
    <3> QED
      BY <3>1, ReadersHarmless, TypeCorrect, PTL
  <2>2. TypeOK /\ SyncInv /\ ScanTypeOK /\ ScanInv /\ [ReadNext]_allVars
           => ScanTypeOK' /\ ScanInv'
    BY <1>1, CalmIsQuiet, ReadNextInv
  <2>3. TypeOK /\ SyncInv /\ KeptInv /\ ScanTypeOK /\ AnswerInv /\ [ReadNext]_allVars
           => AnswerInv'
    BY <1>1, ReadNextAnswer
  <2>4. AnswerInv => ScanTrue
    BY DEF AnswerInv
  <2> QED
    BY <2>1, <2>2, <2>3, <2>4, InitScan, InitAnswer, PTL DEF ReadSpec
<1> QED
  BY <1>1

-----------------------------------------------------------------------------
(* The rows of a listing: what its two queries answer. *)

(* No two rows share a date and a product, so the sort order is total. *)
LEMMA DateOrders == ASSUME NEW S, S \subseteq Item PROVE Orders(DateOrder, S)
<1>1. \A x \in Item : x.product \in Nat /\ x.written \in Nat
  <2>1. Products \subseteq Nat /\ 0..MaxChanges \subseteq Nat
    BY ReadAssumption, BoundsAssumption
  <2> QED
    BY <2>1 DEF Item
<1>2. \A x, y \in Item : x.product = y.product /\ x.written = y.written => x = y
  BY DEF Item
<1>3. \A x, y \in Item : <<x, y>> \in DateOrder <=> Later(y, x)
  BY DEF DateOrder
<1>4. \A x \in Item : ~Later(x, x)
  BY <1>1 DEF Later
<1>5. \A x, y, z \in Item : Later(y, x) /\ Later(z, y) => Later(z, x)
  BY <1>1 DEF Later
<1>6. \A x, y \in Item : x = y \/ Later(x, y) \/ Later(y, x)
  <2>1. ASSUME NEW x \in Item, NEW y \in Item, ~Later(x, y), ~Later(y, x) PROVE x = y
    <3>1. x.written = y.written
      BY <1>1, <2>1 DEF Later
    <3>2. x.product = y.product
      BY <1>1, <2>1, <3>1 DEF Later
    <3> QED BY <1>2, <3>1, <3>2
  <2> QED BY <2>1
<1> QED
  BY <1>3, <1>4, <1>5, <1>6 DEF Orders

LEMMA SortedRows ==
    ASSUME NEW S, S \subseteq Item
    PROVE  /\ IsFiniteSet(S) /\ Cardinality(S) \in Nat
           /\ SortByDate(S) \in Seq(S) /\ SortByDate(S) \in Seq(Item)
           /\ Len(SortByDate(S)) = Cardinality(S)
           /\ \A i \in 1 .. Cardinality(S) : SortByDate(S)[i] \in S
<1>1. IsFiniteSet(S) /\ Cardinality(S) \in Nat
  BY ItemsFinite, FS_Subset, FS_CardinalityType
<1>2. Orders(DateOrder, S)
  BY DateOrders
<1>3. /\ SortByDate(S) \in Seq(S) /\ Len(SortByDate(S)) = Cardinality(S)
      /\ \A i \in 1 .. Cardinality(S) : SortByDate(S)[i] \in S
  BY <1>1, <1>2, SortedProperties DEF SortByDate
<1>4. SortByDate(S) \in Seq(Item)
  BY <1>3
<1> QED
  BY <1>1, <1>3, <1>4

(* What the two queries answer is of the right type. *)
LEMMA QueryTypes ==
    ASSUME TypeOK, listing \in Listing
    PROVE  /\ Matching(listing) \subseteq Item
           /\ Page(listing) \in Seq(Item)
           /\ Cardinality(Matching(listing)) \in Nat
<1>1. Documents(listing.snap) \subseteq Item
  BY DEF Documents, TypeOK, Listing, RunOrNone
<1>2. Matching(listing) \subseteq Item
  BY <1>1 DEF Matching
<1> DEFINE rows == SortByDate(Matching(listing))
           skip == IF HasCursor(listing) THEN 0 ELSE Len(listing.got)
           end  == IF skip + Limit < Len(rows) THEN skip + Limit ELSE Len(rows)
<1>3. rows \in Seq(Item) /\ Cardinality(Matching(listing)) \in Nat
  BY <1>2, SortedRows
<1>4. skip \in Nat
  BY DEF Listing
<1>5. Page(listing) = SubSeq(rows, skip + 1, end)
  BY DEF Page
<1>6. Limit \in Nat
  BY ReadAssumption
<1> HIDE DEF rows, skip
<1>7. skip + 1 \in Nat \ {0} /\ end \in Nat /\ end <= Len(rows)
  BY <1>3, <1>4, <1>6
<1> HIDE DEF end
<1>8. SubSeq(rows, skip + 1, end) \in Seq(Item)
  <2>1. \A i \in skip + 1 .. end : rows[i] \in Item
    BY <1>3, <1>7
  <2> QED
    BY <1>7, <2>1, SubSeqProperties
<1> QED
  BY <1>2, <1>3, <1>5, <1>8

(* The rows a listing is given keep their type, and so does its cursor. *)
LEMMA ListStepType ==
    ASSUME TypeOK, listing \in Listing, ListStep
    PROVE  listing' \in Listing
<1>0. /\ state.active \in RunOrNone /\ state.located \in BOOLEAN /\ state.count \in Nat
      /\ listing.pin \in RunOrNone /\ listing.total \in Nat
      /\ listing.got \in Seq(Item) /\ listing.items \in Seq(Item)
      /\ listing.after \in RowOrNone /\ listing.to_do \in SUBSET {"find", "count"}
      /\ None \in RunOrNone
  BY DEF TypeOK, SyncState, Listing, RunOrNone
<1>1. CASE ListService
  <2>1. CASE listing' = [listing EXCEPT !.step = "done"]
    BY <2>1 DEF Listing
  <2>2. CASE listing' = [listing EXCEPT !.step = "repository", !.pin = Asked(listing),
                                        !.located = state.located]
    <3>1. Asked(listing) \in RunOrNone
      BY <1>0 DEF Asked
    <3> QED BY <1>0, <2>2, <3>1 DEF Listing
  <2> QED BY <1>1, <2>1, <2>2 DEF ListService
<1>2. CASE ListRepository
  <2> DEFINE snap  == IF listing.pin # None THEN listing.pin ELSE state.active
             count == IF CountKnown(listing) THEN state.count ELSE 0
             todo  == IF CountKnown(listing) THEN {"find"} ELSE {"find", "count"}
  <2>1. snap \in RunOrNone /\ count \in Nat /\ todo \in SUBSET {"find", "count"}
    BY <1>0
  <2> HIDE DEF count, todo
  <2>2. \/ listing' = [listing EXCEPT !.step = "done"]
        \/ listing' = [listing EXCEPT !.step = "query", !.snap = snap,
                                      !.total = count, !.to_do = todo]
    BY <1>2 DEF ListRepository, count, todo
  <2> HIDE DEF snap
  <2> QED BY <2>1, <2>2 DEF Listing
<1>3. CASE ListFind
  <2>1. PICK p \in Seq(Item), t \in SUBSET {"find", "count"} :
           listing' = [listing EXCEPT !.items = p, !.to_do = t]
    <3>1. Page(listing) \in Seq(Item)
      BY QueryTypes
    <3>2. listing' = [listing EXCEPT !.items = Page(listing),
                                     !.to_do = listing.to_do \ {"find"}]
      BY <1>3 DEF ListFind
    <3> QED BY <1>0, <3>1, <3>2
  <2> QED BY <2>1 DEF Listing
<1>4. CASE ListCount
  <2>1. PICK n \in Nat, t \in SUBSET {"find", "count"} :
           listing' = [listing EXCEPT !.total = n, !.to_do = t]
    <3>1. Cardinality(Matching(listing)) \in Nat
      BY QueryTypes
    <3>2. listing' = [listing EXCEPT !.total = Cardinality(Matching(listing)),
                                     !.to_do = listing.to_do \ {"count"}]
      BY <1>4 DEF ListCount
    <3> QED BY <1>0, <3>1, <3>2
  <2> QED BY <2>1 DEF Listing
<1>5. CASE ListAnswer
  <2>1. PICK st \in {"service", "done"} : st = Proceed(HasMore(listing))
    BY DEF Proceed
  <2>2. PICK a \in RowOrNone : a = NextCursor(listing)
    <3>1. CASE listing.items # <<>>
      <4>1. Last(listing.items) \in RowOrNone
        BY <1>0, <3>1 DEF Last, RowOrNone
      <4> QED BY <1>0, <4>1 DEF NextCursor
    <3>2. CASE listing.items = <<>>
      BY <1>0, <3>2 DEF NextCursor
    <3> QED BY <3>1, <3>2
  <2>3. PICK g \in Seq(Item) : g = listing.got \o listing.items
    BY <1>0, ConcatProperties
  <2>4. listing' = [listing EXCEPT !.step = st, !.got = g, !.after = a,
                                   !.located = FALSE, !.snap = None, !.items = <<>>]
    BY <1>5, <2>1, <2>2, <2>3 DEF ListAnswer
  <2>5. PICK l \in Listing : l = [listing EXCEPT !.step = st, !.got = g, !.after = a]
    BY DEF Listing
  <2>6. listing' = [l EXCEPT !.located = FALSE, !.snap = None, !.items = <<>>]
    BY <2>4, <2>5
  <2>7. <<>> \in Seq(Item)
    OBVIOUS
  <2> QED BY <1>0, <2>6, <2>7 DEF Listing
<1> QED
  BY <1>1, <1>2, <1>3, <1>4, <1>5 DEF ListStep

LEMMA ScanStepType ==
    ASSUME TypeOK, ScanTypeOK, ScanStep
    PROVE  ScanTypeOK'
<1> USE DEF ScanTypeOK
<1>0. /\ state.active \in RunOrNone /\ state.located \in BOOLEAN
      /\ None \in RunOrNone /\ NoRow \in RowOrNone
  BY DEF TypeOK, SyncState, RunOrNone, RowOrNone
<1>1. CASE ScanService
  <2>1. PICK st \in {"done", "get"} :
           scan' = [ step |-> st, located |-> state.located, key |-> state.active,
                     from |-> None, row |-> NoRow ]
    BY <1>1 DEF ScanService
  <2>2. scan' \in Scan
    BY <1>0, <2>1 DEF Scan
  <2> QED BY <1>1, <2>2 DEF ScanService
<1>2. CASE ScanCache
  <2>1. PICK entry \in [row : RowOrNone, from : RunOrNone] : entry = cache[scan.key]
    BY DEF Scan
  <2>2. \/ scan' = [scan EXCEPT !.step = "repository"]
        \/ scan' = [scan EXCEPT !.step = "done", !.row = entry.row, !.from = entry.from]
    BY <1>2, <2>1 DEF ScanCache, CacheKey
  <2>3. scan' \in Scan
    BY <2>1, <2>2 DEF Scan
  <2> QED BY <1>2, <2>3 DEF ScanCache
<1>3. CASE ScanRepository
  <2>1. scan' \in Scan
    BY <1>0, <1>3 DEF ScanRepository, Scan
  <2> QED BY <1>3, <2>1 DEF ScanRepository
<1>4. CASE ScanFind
  <2>1. Found(scan) \subseteq RowOrNone
    BY DEF Found, Documents, TypeOK, Scan, RowOrNone, RunOrNone
  <2>2. scan' \in Scan
    BY <1>4, <2>1 DEF ScanFind, Scan
  <2> QED BY <1>4, <2>2 DEF ScanFind
<1>5. CASE ScanSet
  <2>1. PICK entry \in [row : RowOrNone, from : RunOrNone] :
           entry = [row |-> scan.row, from |-> scan.from]
    BY DEF Scan
  <2>2. /\ cache' = [cache EXCEPT ![scan.key] = entry]
        /\ scan' = [scan EXCEPT !.step = "done"]
    BY <1>5, <2>1 DEF ScanSet, CacheKey
  <2>3. scan' \in Scan
    BY <2>2 DEF Scan
  <2>4. cache' \in [RunOrNone -> [row : RowOrNone, from : RunOrNone]]
    BY <2>2
  <2> QED BY <2>3, <2>4
<1> QED
  BY <1>1, <1>2, <1>3, <1>4, <1>5 DEF ScanStep

LEMMA ReadNextType ==
    ASSUME TypeOK, ReadTypeOK, [ReadNext]_allVars
    PROVE  ReadTypeOK'
<1>0. role \in {"lister", "scanner"} /\ listing \in Listing /\ ScanTypeOK
  BY DEF ReadTypeOK, ScanTypeOK
<1>1. CASE \E mode \in {"offset", "cursor"} : Ask(mode)
  <2>1. PICK mode \in {"offset", "cursor"} : Ask(mode)
    BY <1>1
  <2>2. listing' = [listing EXCEPT !.step = "service", !.mode = mode]
    BY <2>1 DEF Ask
  <2>3. listing' \in Listing
    BY <1>0, <2>2 DEF Listing
  <2> QED BY <1>0, <2>1, <2>3 DEF Ask, ReadTypeOK, ScanTypeOK
<1>2. CASE ListStep
  <2>1. listing' \in Listing
    BY <1>0, <1>2, ListStepType
  <2>2. UNCHANGED <<role, scan, cache>>
    BY <1>2 DEF ListStep, ListService, ListRepository, ListFind, ListCount, ListAnswer
  <2> QED BY <1>0, <2>1, <2>2 DEF ReadTypeOK, ScanTypeOK
<1>3. CASE ScanStep
  <2>1. ScanTypeOK'
    BY <1>0, <1>3, ScanStepType
  <2>2. UNCHANGED <<role, listing>>
    BY <1>3 DEF ScanStep, ScanService, ScanCache, ScanRepository, ScanFind, ScanSet
  <2> QED BY <1>0, <2>1, <2>2 DEF ReadTypeOK, ScanTypeOK
<1>4. CASE \E k \in RunOrNone : CacheExpire(k)
  <2>1. PICK k \in RunOrNone : CacheExpire(k)
    BY <1>4
  <2>2. NotCached \in [row : RowOrNone, from : RunOrNone]
    BY DEF NotCached, RowOrNone, RunOrNone
  <2>3. cache' \in [RunOrNone -> [row : RowOrNone, from : RunOrNone]]
    BY <1>0, <2>1, <2>2 DEF CacheExpire, ScanTypeOK
  <2> QED BY <1>0, <2>1, <2>3 DEF CacheExpire, ReadTypeOK, ScanTypeOK
<1>5. CASE UNCHANGED readVars
  BY <1>5 DEF readVars, ReadTypeOK
<1> QED
  BY <1>1, <1>2, <1>3, <1>4, <1>5 DEF ReadNext, allVars

(* The readers' variables keep their types, whatever the environment does. *)
THEOREM ReadTypeCorrect == ReadSpec => []ReadTypeOK
<1>1. ReadInit => ReadTypeOK
  <2> SUFFICES ASSUME ReadInit PROVE ReadTypeOK
    OBVIOUS
  <2>1. ScanTypeOK
    BY InitScan
  <2>2. NoRow \in RowOrNone /\ None \in RunOrNone
    BY DEF RowOrNone, RunOrNone
  <2>3. listing \in Listing
    BY <2>2 DEF ReadInit, Listing
  <2> QED BY <2>1, <2>3 DEF ReadInit, ReadTypeOK, ScanTypeOK
<1>2. TypeOK /\ ReadTypeOK /\ [ReadNext]_allVars => ReadTypeOK'
  BY ReadNextType
<1>3. ReadSpec => []TypeOK
  BY ReadersHarmless, TypeCorrect, PTL
<1> QED
  BY <1>1, <1>2, <1>3, PTL DEF ReadSpec

-----------------------------------------------------------------------------
(* The invariant behind ListingWhole and TotalsAgree.  No client calls     *)
(* /catalog/bootstrap: it overwrites the count by that of another          *)
(* collection, and the totals do not agree then.                           *)
CountedEnv == Env \subseteq {"withdraw"}

(* The sync state has a count and a warehouse once a snapshot is active,   *)
(* and the count is the one that snapshot was validated against.           *)
StateKnown ==
    IF state.active = None THEN ~state.located
                           ELSE state.located /\ state.count = state.total

LEMMA NextKnown ==
    ASSUME CountedEnv, TypeOK, StateKnown, [Next]_vars
    PROVE  StateKnown'
<1> USE DEF StateKnown
<1>1. CASE UNCHANGED state
  BY <1>1
<1>2. ASSUME NEW r \in Runs, Publish(r) PROVE StateKnown'
  <2>1. state'.active = r /\ state'.located = TRUE /\ state'.count = state'.total /\ r # None
    BY <1>2 DEF Publish, Published, Runs, None
  <2> QED BY <2>1
<1>3. ASSUME NEW r \in Runs, Begin(r) \/ DropMark(r) \/ FailMark(r) PROVE StateKnown'
  <2>1. /\ state'.active = state.active /\ state'.located = state.located
        /\ state'.count = state.count /\ state'.total = state.total
    BY <1>3 DEF Begin, DropMark, FailMark, TypeOK, SyncState
  <2> QED BY <2>1
<1>4. ASSUME NEW r \in Runs, RunStep(r) PROVE StateKnown'
  <2>1. CASE ReadState(r) \/ CopyPage(r) \/ TotalMoved(r) \/ DropDocs(r)
             \/ Count(r) \/ FailDocs(r) \/ UnlockGet(r) \/ UnlockDel(r)
    BY <1>1, <2>1 DEF ReadState, CopyPage, TotalMoved, DropDocs, Count, FailDocs,
                      UnlockGet, UnlockDel, dbVars
  <2> QED BY <1>2, <1>3, <1>4, <2>1 DEF RunStep
<1>5. CASE \/ \E r \in Runs, w \in Workers : Start(r, w)
           \/ \E r \in Runs : PruneStep(r) \/ DeleteOne(r) \/ Throw(r)
           \/ \E w \in Workers : Crash(w)
           \/ LockTimeout \/ LockLost \/ OdooStep
           \/ UNCHANGED vars
  BY <1>1, <1>5
  DEF Start, PruneStep, PruneFind, PruneDelete, DeleteOne, Throw, Crash, LockTimeout, LockLost,
      OdooStep, OdooCreate, OdooUpdate, OdooWithdraw, OdooChange, dbVars, vars
<1>6. ~(\E r \in Runs : PublishUnacknowledged(r)) /\ ~Bootstrap
  BY DEF CountedEnv, PublishUnacknowledged, Bootstrap, BootstrapRows, BootstrapState
<1> QED
  BY <1>4, <1>5, <1>6 DEF Next

(* The rows of a snapshot in the order a listing gives them. *)
Ordered(s) == SortByDate(staged[s])

(* A listing names no snapshot that is newer than the active one, has rows *)
(* only of a snapshot it names, and searches in that one.                  *)
Pinned ==
    /\ listing.pin <= state.active
    /\ listing.pin = None => listing.got = <<>> /\ listing.after = NoRow
    /\ listing.mode = "offset" => listing.after = NoRow
    /\ listing.step = "idle" => listing.pin = None /\ listing.mode = "offset"
    /\ listing.step # "query" => listing.items = <<>>
    /\ listing.step \in {"repository", "query"} =>
          (listing.located <=> listing.pin # None)
    /\ listing.step = "query" =>
          /\ ~listing.located => listing.items = <<>>
          /\ listing.pin # None => listing.snap = listing.pin

(* While that snapshot can be counted on, the client has its first rows,   *)
(* and the cursor, if any, is the last of them ...                         *)
Walked ==
    Readable(listing.pin) =>
        /\ Len(listing.got) <= Cardinality(staged[listing.pin])
        /\ listing.got = SubSeq(Ordered(listing.pin), 1, Len(listing.got))
        /\ HasCursor(listing) /\ listing.step # "done" =>
              /\ listing.got # <<>>
              /\ listing.after = Ordered(listing.pin)[Len(listing.got)]

(* ... and what a request has found so far is the next page and the total. *)
Answered ==
    Readable(listing.pin) /\ listing.step = "query" =>
        /\ "find" \notin listing.to_do =>
              listing.items = PageOf(Ordered(listing.pin), Len(listing.got), Limit)
        /\ "count" \notin listing.to_do /\ ~HasCursor(listing) =>
              listing.total = Cardinality(staged[listing.pin])

ListInv ==
    /\ Pinned
    /\ Walked
    /\ Answered
    /\ ListingWhole
    /\ TotalsAgree

(* The query of a request answers the page behind the rows the client has, *)
(* with and without a cursor.                                              *)
LEMMA PageIsNext ==
    ASSUME TypeOK, listing \in Listing, listing.pin \in Runs,
           listing.snap = listing.pin, listing.located,
           Len(listing.got) <= Cardinality(staged[listing.pin]),
           HasCursor(listing) =>
              /\ listing.got # <<>>
              /\ listing.after = Ordered(listing.pin)[Len(listing.got)]
    PROVE  /\ Page(listing) = PageOf(Ordered(listing.pin), Len(listing.got), Limit)
           /\ ~HasCursor(listing) => Matching(listing) = staged[listing.pin]
<1> DEFINE S == staged[listing.pin]
           s == Ordered(listing.pin)
           k == Len(listing.got)
           n == Cardinality(S)
<1>1. S \subseteq Item
  BY DEF TypeOK
<1>2. /\ IsFiniteSet(S) /\ n \in Nat /\ s \in Seq(Item) /\ Len(s) = n
      /\ \A i \in 1 .. n : s[i] \in S
  BY <1>1, SortedRows DEF Ordered
<1>3. k \in Nat /\ k <= n
  BY DEF Listing
<1>4. Limit \in Nat /\ Limit # 0
  BY ReadAssumption
<1>5. Matching(listing) = {row \in S : Later(row, listing.after)}
  BY DEF Matching, Documents, After, Runs, None
<1>6. CASE ~HasCursor(listing)
  <2>1. \A row \in S : Later(row, NoRow)
    <3>1. \A row \in Item : row.product \in Nat \ {0} /\ row.written \in Nat
      <4>1. Products \subseteq Nat \ {0} /\ 0..MaxChanges \subseteq Nat
        BY ReadAssumption, BoundsAssumption
      <4> QED BY <4>1 DEF Item
    <3> QED BY <1>1, <3>1 DEF Later, NoRow
  <2>2. Matching(listing) = S
    BY <1>5, <1>6, <2>1 DEF HasCursor
  <2>3. Page(listing) = PageOf(s, k, Limit)
    BY <1>6, <2>2 DEF Page, PageOf, Ordered
  <2> QED BY <2>2, <2>3
<1>7. CASE HasCursor(listing)
  <2> DEFINE x == listing.after
             T == {y \in S : <<x, y>> \in DateOrder}
             t == SortByDate(T)
             e == IF 0 + Limit < Len(t) THEN 0 + Limit ELSE Len(t)
             f == IF k + Limit < Len(s) THEN k + Limit ELSE Len(s)
  <2>1. k # 0 /\ x = s[k]
    BY <1>7 DEF Listing
  <2>2. k \in 1 .. n /\ x \in S
    BY <1>2, <1>3, <2>1
  <2>3. Matching(listing) = T
    BY <1>1, <1>5, <2>2 DEF DateOrder
  <2>4. Orders(DateOrder, S)
    BY <1>1, DateOrders
  <2>5. /\ Cardinality(T) = n - k
        /\ t = SubSeq(s, k + 1, n)
    <3>1. SortedBy(S, DateOrder)[k] = x
      BY <2>1 DEF Ordered, SortByDate
    <3> HIDE DEF S, x
    <3>2. /\ Cardinality({y \in S : <<x, y>> \in DateOrder}) = n - k
          /\ SortedBy({y \in S : <<x, y>> \in DateOrder}, DateOrder)
                = SubSeq(SortedBy(S, DateOrder), k + 1, n)
      BY <1>2, <2>2, <2>4, <3>1, SortedRest
    <3> QED BY <3>2 DEF SortByDate, Ordered, S
  <2>6. Len(t) = n - k
    <3>1. T \subseteq Item
      BY <1>1
    <3> HIDE DEF T
    <3> QED BY <2>5, <3>1, SortedRows
  <2>7. Page(listing) = SubSeq(t, 0 + 1, e)
    BY <1>7, <2>3 DEF Page
  <2>8. PageOf(s, k, Limit) = SubSeq(s, k + 1, f)
    BY DEF PageOf
  <2> HIDE DEF t, s, k, n, T, S, x
  <2>9. e \in 0 .. Len(s) - k /\ f = k + e /\ 0 + 1 = 1 /\ k \in 0 .. Len(s)
    BY <1>2, <1>3, <1>4, <2>6
  <2> HIDE DEF e, f
  <2>10. SubSeq(SubSeq(s, k + 1, Len(s)), 1, e) = SubSeq(s, k + 1, k + e)
    BY <1>2, <2>9, FrontOfRest
  <2>11. Page(listing) = PageOf(s, k, Limit)
    BY <1>2, <2>5, <2>7, <2>8, <2>9, <2>10
  <2> QED BY <1>7, <2>11 DEF s, k
<1> QED
  BY <1>6, <1>7

LEMMA CountedIsCalm == CountedEnv => CalmEnv
  BY DEF CountedEnv, CalmEnv

LEMMA InitList == ReadInit => ListInv /\ StateKnown
<1> SUFFICES ASSUME ReadInit PROVE ListInv /\ StateKnown
  OBVIOUS
<1>1. state.active = 0 /\ None = 0 /\ ~state.located
  BY DEF ReadInit, Init, NoState, None
<1>2. ~Readable(listing.pin)
  BY <1>1 DEF Readable
<1> QED
  BY <1>1, <1>2 DEF ReadInit, ListInv, Pinned, Walked, Answered, ListingWhole,
     TotalsAgree, StateKnown

(* The steps of the synchronisation, and those of a scan. *)
LEMMA ListBeside ==
    ASSUME CalmEnv, TypeOK, SyncInv, KeptInv, listing \in Listing, ListInv,
           [Next]_vars, listing' = listing
    PROVE  ListInv'
<1>1. PICK s \in RunOrNone : s = listing.pin
  BY DEF Listing
<1>2. s <= state'.active
  <2>1. state.active <= state'.active
    BY ActiveGrows, CalmIsQuiet
  <2>2. state.active \in RunOrNone /\ state'.active \in RunOrNone
    BY NextType DEF TypeOK, SyncState
  <2>3. s \in Nat /\ state.active \in Nat /\ state'.active \in Nat
    BY <2>2 DEF RunOrNone, Runs, None
  <2>4. s <= state.active
    BY <1>1 DEF ListInv, Pinned
  <2> QED
    BY <2>1, <2>3, <2>4
<1>3. Readable(s)' => Readable(s) /\ staged'[s] = staged[s]
  <2>1. s <= state.active
    BY <1>1 DEF ListInv, Pinned
  <2> QED BY <2>1, ReadableKept
<1>4. Readable(listing.pin)' => Readable(s)'
  BY <1>1 DEF Readable
<1>5. Readable(listing.pin)' =>
         /\ Readable(listing.pin)
         /\ staged'[listing.pin] = staged[listing.pin]
         /\ Ordered(listing.pin)' = Ordered(listing.pin)
  BY <1>1, <1>3, <1>4 DEF Ordered, SortByDate
<1>6. Pinned'
  BY <1>1, <1>2 DEF ListInv, Pinned
<1>7. Walked' /\ Answered'
  BY <1>5 DEF ListInv, Walked, Answered
<1>8. ListingWhole' /\ TotalsAgree'
  BY <1>5 DEF ListInv, ListingWhole, TotalsAgree, Ordered
<1> QED
  BY <1>6, <1>7, <1>8 DEF ListInv

(* The steps of a listing.  What they share: nothing else moves. *)
LEMMA ReadersStand ==
    ASSUME UNCHANGED vars, NEW s
    PROVE  /\ Readable(s)' <=> Readable(s)
           /\ Ordered(s)' = Ordered(s)
           /\ staged' = staged /\ state' = state
  BY DEF vars, Readable, Ordered, SortByDate

LEMMA ListServiceInv ==
    ASSUME TypeOK, StateKnown, listing \in Listing, ListInv, ListService
    PROVE  ListInv'
<1> USE DEF ListInv
<1>0. UNCHANGED vars /\ listing.step = "service"
  BY DEF ListService
<1>1. \A s : (Readable(s)' <=> Readable(s)) /\ Ordered(s)' = Ordered(s)
  BY <1>0, ReadersStand
<1>2. staged' = staged /\ state' = state
  BY <1>0, ReadersStand
<1>3. state.active \in RunOrNone /\ listing.pin \in RunOrNone /\ RunOrNone \subseteq Nat /\ None = 0
  BY DEF TypeOK, SyncState, Listing, RunOrNone, Runs, None
<1>4. CASE state = NoState /\ listing' = [listing EXCEPT !.step = "done"]
  <2>1. \A s : ~Readable(s)'
    BY <1>1, <1>4 DEF Readable, NoState
  <2>2. /\ listing'.step = "done" /\ listing'.pin = listing.pin
        /\ listing'.got = listing.got /\ listing'.after = listing.after
        /\ listing'.mode = listing.mode /\ listing'.items = listing.items
    BY <1>4 DEF Listing
  <2>3. Pinned'
    BY <1>0, <1>2, <2>2 DEF Pinned
  <2> QED
    BY <2>1, <2>2, <2>3 DEF Walked, Answered, ListingWhole, TotalsAgree, Readable
<1>5. CASE listing' = [listing EXCEPT !.step = "repository", !.pin = Asked(listing),
                                      !.located = state.located]
  <2>1. /\ listing'.step = "repository" /\ listing'.pin = Asked(listing)
        /\ listing'.located = state.located
        /\ listing'.got = listing.got /\ listing'.after = listing.after
        /\ listing'.mode = listing.mode /\ listing'.items = listing.items
    BY <1>5 DEF Listing
  <2>2. CASE listing.pin # None
    <3>1. listing'.pin = listing.pin
      BY <2>1, <2>2 DEF Asked
    <3>2. state.active # None
      <4>1. listing.pin <= state.active
        BY DEF Pinned
      <4>2. listing.pin \in Nat /\ listing.pin # 0 /\ state.active \in Nat
        BY <1>3, <2>2
      <4> QED BY <1>3, <4>1, <4>2
    <3>3. listing'.located
      BY <2>1, <3>2 DEF StateKnown
    <3>4. Pinned'
      BY <1>0, <1>2, <2>1, <2>2, <3>1, <3>3 DEF Pinned
    <3>5. Walked'
      BY <1>0, <1>1, <1>2, <2>1, <3>1 DEF Walked, HasCursor
    <3> QED
      BY <2>1, <3>4, <3>5 DEF Answered, ListingWhole, TotalsAgree
  <2>3. CASE listing.pin = None
    <3>1. listing'.pin = state.active /\ listing'.got = <<>> /\ listing'.after = NoRow
      BY <2>1, <2>3 DEF Asked, Pinned
    <3>2. listing'.located <=> listing'.pin # None
      BY <2>1, <3>1 DEF StateKnown
    <3>3. listing'.pin <= state'.active
      <4>1. state.active \in Nat
        BY <1>3
      <4>2. state.active <= state.active
        BY <4>1
      <4> QED BY <1>2, <3>1, <4>2
    <3>4. Pinned'
      BY <1>0, <2>1, <3>1, <3>2, <3>3 DEF Pinned
    <3>5. Walked'
      <4>1. ASSUME Readable(listing.pin)'
            PROVE  /\ Len(listing'.got) <= Cardinality(staged'[listing'.pin])
                   /\ listing'.got = SubSeq(Ordered(listing.pin)', 1, Len(listing'.got))
        <5>1. listing'.pin \in Runs
          BY <1>3, <3>1, <4>1 DEF Readable, RunOrNone, Runs, None
        <5>2. Cardinality(staged[listing'.pin]) \in Nat
          BY <5>1, SortedRows DEF TypeOK
        <5>3. Len(listing'.got) = 0
          BY <3>1
        <5>4. SubSeq(Ordered(listing.pin)', 1, 0) = <<>>
          BY SubSeqEmpty
        <5> QED BY <1>2, <3>1, <5>2, <5>3, <5>4
      <4> QED BY <3>1, <4>1 DEF Walked, HasCursor
    <3> QED
      BY <2>1, <3>4, <3>5 DEF Answered, ListingWhole, TotalsAgree
  <2> QED
    BY <2>2, <2>3
<1> QED
  BY <1>4, <1>5 DEF ListService

LEMMA ListRepositoryInv ==
    ASSUME TypeOK, SyncInv, StateKnown, listing \in Listing, ListInv, ListRepository
    PROVE  ListInv'
<1> USE DEF ListInv
<1>0. UNCHANGED vars /\ listing.step = "repository" /\ listing.items = <<>>
  BY DEF ListRepository, Pinned
<1>1. \A s : (Readable(s)' <=> Readable(s)) /\ Ordered(s)' = Ordered(s)
  BY <1>0, ReadersStand
<1>2. staged' = staged /\ state' = state
  BY <1>0, ReadersStand
<1> DEFINE snap  == IF listing.pin # None THEN listing.pin ELSE state.active
           count == IF CountKnown(listing) THEN state.count ELSE 0
           todo  == IF CountKnown(listing) THEN {"find"} ELSE {"find", "count"}
<1>3. CASE /\ snap = None
           /\ listing' = [listing EXCEPT !.step = "done"]
  <2>1. state.active = None
    BY <1>3 DEF Pinned
  <2>2. \A s : ~Readable(s)'
    BY <1>1, <2>1 DEF Readable
  <2>3. /\ listing'.step = "done" /\ listing'.pin = listing.pin
        /\ listing'.got = listing.got /\ listing'.after = listing.after
        /\ listing'.mode = listing.mode /\ listing'.items = listing.items
    BY <1>3 DEF Listing
  <2>4. Pinned'
    BY <1>0, <1>2, <2>3 DEF Pinned
  <2> QED
    BY <2>2, <2>3, <2>4 DEF Walked, Answered, ListingWhole, TotalsAgree, Readable
<1>4. CASE listing' = [listing EXCEPT !.step = "query", !.snap = snap,
                                      !.total = count, !.to_do = todo]
  <2> HIDE DEF snap, count, todo
  <2>1. /\ listing'.step = "query" /\ listing'.pin = listing.pin
        /\ listing'.snap = snap /\ listing'.total = count /\ listing'.to_do = todo
        /\ listing'.got = listing.got /\ listing'.after = listing.after
        /\ listing'.mode = listing.mode /\ listing'.items = listing.items
        /\ listing'.located = listing.located
    BY <1>4 DEF Listing
  <2>2. Pinned'
    BY <1>0, <1>2, <2>1 DEF Pinned, snap
  <2>3. Walked'
    BY <1>0, <1>1, <1>2, <2>1 DEF Walked, HasCursor
  <2>4. ASSUME Readable(listing.pin), "count" \notin todo
        PROVE  count = Cardinality(staged[listing.pin])
    <3>1. CountKnown(listing)
      BY <2>4 DEF todo
    <3>2. listing.pin = state.active /\ state.active # None
      BY <2>4, <3>1 DEF CountKnown, Readable
    <3>3. count = state.total
      BY <3>1, <3>2 DEF count, StateKnown
    <3> QED
      BY <3>2, <3>3 DEF SyncInv, ActiveSnapshotFull
  <2>5. Answered'
    <3>1. "find" \in todo
      BY DEF todo
    <3>2. Readable(listing.pin)' <=> Readable(listing.pin)
      BY <1>2, <1>0, <2>1 DEF Readable, vars
    <3> QED
      BY <1>2, <2>1, <2>4, <3>1, <3>2 DEF Answered
  <2> QED
    BY <2>1, <2>2, <2>3, <2>5 DEF ListingWhole, TotalsAgree
<1> QED
  BY <1>3, <1>4 DEF ListRepository

(* What a query of a listing that can be counted on works on. *)
LEMMA QueryPinned ==
    ASSUME TypeOK, listing \in Listing, ListInv, listing.step = "query",
           Readable(listing.pin)
    PROVE  /\ listing.pin \in Runs
           /\ Page(listing) = PageOf(Ordered(listing.pin), Len(listing.got), Limit)
           /\ ~HasCursor(listing) => Matching(listing) = staged[listing.pin]
<1>1. listing.pin \in Runs /\ listing.pin # None
  BY DEF Readable, Listing, RunOrNone
<1>2. listing.snap = listing.pin /\ listing.located
  <2>1. listing.located \in BOOLEAN
    BY DEF Listing
  <2> QED
    BY <1>1, <2>1 DEF ListInv, Pinned
<1>3. /\ Len(listing.got) <= Cardinality(staged[listing.pin])
      /\ HasCursor(listing) =>
            /\ listing.got # <<>>
            /\ listing.after = Ordered(listing.pin)[Len(listing.got)]
  BY DEF ListInv, Walked
<1> QED
  BY <1>1, <1>2, <1>3, PageIsNext

(* Without a warehouse nothing is found. *)
LEMMA NothingFound ==
    ASSUME listing \in Listing, ~listing.located
    PROVE  Page(listing) = <<>>
<1>1. Matching(listing) = {}
  BY DEF Matching
<1>2. Len(SortByDate({})) = 0
  <2>1. {} \subseteq Item
    OBVIOUS
  <2> QED
    BY <2>1, SortedRows, FS_EmptySet
<1> DEFINE skip == IF HasCursor(listing) THEN 0 ELSE Len(listing.got)
<1>3. Page(listing) = SubSeq(SortByDate({}), skip + 1,
                             IF skip + Limit < 0 THEN skip + Limit ELSE 0)
  BY <1>1, <1>2 DEF Page
<1>4. skip \in Nat /\ Limit \in Nat
  BY ReadAssumption DEF Listing
<1> HIDE DEF skip
<1>5. (IF skip + Limit < 0 THEN skip + Limit ELSE 0) = 0
  BY <1>4
<1>6. SubSeq(SortByDate({}), skip + 1, 0) = <<>>
  BY <1>4, SubSeqEmpty
<1> QED
  BY <1>3, <1>5, <1>6

LEMMA ListFindInv ==
    ASSUME TypeOK, listing \in Listing, ListInv, ListFind
    PROVE  ListInv'
<1>0. UNCHANGED vars /\ listing.step = "query"
  BY DEF ListFind
<1>1. \A s : (Readable(s)' <=> Readable(s)) /\ Ordered(s)' = Ordered(s)
  BY <1>0, ReadersStand
<1>2. staged' = staged /\ state' = state
  BY <1>0, ReadersStand
<1>3. PICK p : p = Page(listing)
  OBVIOUS
<1>4. listing' = [listing EXCEPT !.items = p, !.to_do = listing.to_do \ {"find"}]
  BY <1>3 DEF ListFind
<1>5. /\ listing'.step = "query" /\ listing'.pin = listing.pin
      /\ listing'.snap = listing.snap /\ listing'.total = listing.total
      /\ listing'.to_do = listing.to_do \ {"find"} /\ listing'.items = p
      /\ listing'.got = listing.got /\ listing'.after = listing.after
      /\ listing'.mode = listing.mode /\ listing'.located = listing.located
  BY <1>0, <1>4 DEF Listing
<1>6. ~listing.located => p = <<>>
  BY <1>3, NothingFound
<1>7. Pinned'
  BY <1>0, <1>2, <1>5, <1>6 DEF ListInv, Pinned
<1>8. Readable(listing.pin)' <=> Readable(listing.pin)
  BY <1>0, <1>5 DEF Readable, vars
<1>9. Walked'
  BY <1>0, <1>1, <1>2, <1>5, <1>8 DEF ListInv, Walked, HasCursor
<1>10. Answered'
  <2>1. Readable(listing.pin) => p = PageOf(Ordered(listing.pin), Len(listing.got), Limit)
    BY <1>0, <1>3, QueryPinned
  <2> QED
    BY <1>0, <1>1, <1>2, <1>5, <1>8, <2>1 DEF ListInv, Answered, HasCursor
<1> QED
  BY <1>5, <1>7, <1>9, <1>10 DEF ListInv, ListingWhole, TotalsAgree

LEMMA ListCountInv ==
    ASSUME TypeOK, listing \in Listing, ListInv, ListCount
    PROVE  ListInv'
<1>0. UNCHANGED vars /\ listing.step = "query"
  BY DEF ListCount
<1>1. \A s : (Readable(s)' <=> Readable(s)) /\ Ordered(s)' = Ordered(s)
  BY <1>0, ReadersStand
<1>2. staged' = staged /\ state' = state
  BY <1>0, ReadersStand
<1>3. PICK n : n = Cardinality(Matching(listing))
  OBVIOUS
<1>4. listing' = [listing EXCEPT !.total = n, !.to_do = listing.to_do \ {"count"}]
  BY <1>3 DEF ListCount
<1>5. /\ listing'.step = "query" /\ listing'.pin = listing.pin
      /\ listing'.snap = listing.snap /\ listing'.total = n
      /\ listing'.to_do = listing.to_do \ {"count"} /\ listing'.items = listing.items
      /\ listing'.got = listing.got /\ listing'.after = listing.after
      /\ listing'.mode = listing.mode /\ listing'.located = listing.located
  BY <1>0, <1>4 DEF Listing
<1>6. Pinned'
  BY <1>0, <1>2, <1>5 DEF ListInv, Pinned
<1>7. Readable(listing.pin)' <=> Readable(listing.pin)
  BY <1>0, <1>5 DEF Readable, vars
<1>8. Walked'
  BY <1>0, <1>1, <1>2, <1>5, <1>7 DEF ListInv, Walked, HasCursor
<1>9. Answered'
  <2>1. Readable(listing.pin) /\ ~HasCursor(listing) =>
           n = Cardinality(staged[listing.pin])
    BY <1>0, <1>3, QueryPinned
  <2> QED
    BY <1>0, <1>1, <1>2, <1>5, <1>7, <2>1 DEF ListInv, Answered, HasCursor
<1> QED
  BY <1>5, <1>6, <1>8, <1>9 DEF ListInv, ListingWhole, TotalsAgree

LEMMA ListAnswerInv ==
    ASSUME TypeOK, listing \in Listing, ListInv, ListAnswer
    PROVE  ListInv'
<1>0. UNCHANGED vars /\ listing.step = "query" /\ listing.to_do = {}
  BY DEF ListAnswer
<1>1. \A s : (Readable(s)' <=> Readable(s)) /\ Ordered(s)' = Ordered(s)
  BY <1>0, ReadersStand
<1>2. staged' = staged /\ state' = state
  BY <1>0, ReadersStand
<1>3. /\ listing.got \in Seq(Item) /\ listing.items \in Seq(Item)
      /\ listing.located \in BOOLEAN /\ listing.mode \in {"offset", "cursor"}
      /\ listing.total \in Nat
  BY DEF Listing
<1>4. PICK st \in {"service", "done"} :
         st = Proceed(HasMore(listing)) /\ (st = "done" <=> ~HasMore(listing))
  BY DEF Proceed
<1>5. PICK a : a = NextCursor(listing)
  OBVIOUS
<1>6. PICK g : g = listing.got \o listing.items
  OBVIOUS
<1>7. /\ listing'.step = st /\ listing'.pin = listing.pin
      /\ listing'.got = g /\ listing'.after = a
      /\ listing'.mode = listing.mode /\ listing'.total = listing.total
      /\ listing'.items = <<>> /\ listing'.located = FALSE
  BY <1>4, <1>5, <1>6 DEF ListAnswer, Listing
<1>8. Readable(listing.pin)' <=> Readable(listing.pin)
  BY <1>0, <1>7 DEF Readable, vars
<1>9. Pinned'
  <2>1. listing.pin = None => listing.got = <<>> /\ listing.items = <<>> /\ listing.after = NoRow
    BY <1>0, <1>3 DEF ListInv, Pinned
  <2>2. listing.pin = None => g = <<>> /\ a = NoRow
    BY <1>5, <1>6, <2>1 DEF NextCursor
  <2>3. listing.mode = "offset" => a = NoRow
    BY <1>5 DEF NextCursor, ListInv, Pinned
  <2> QED
    BY <1>0, <1>2, <1>4, <1>7, <2>2, <2>3 DEF ListInv, Pinned
<1>10. ASSUME Readable(listing.pin)
       PROVE  /\ Len(g) <= Cardinality(staged[listing.pin])
              /\ g = SubSeq(Ordered(listing.pin), 1, Len(g))
              /\ a # NoRow /\ st # "done" =>
                    g # <<>> /\ a = Ordered(listing.pin)[Len(g)]
              /\ st = "done" => g = Ordered(listing.pin)
              /\ listing.mode = "offset" =>
                    listing.total = Cardinality(staged[listing.pin])
  <2> DEFINE s == Ordered(listing.pin)
             k == Len(listing.got)
             n == Cardinality(staged[listing.pin])
             p == listing.items
  <2>1. listing.pin \in Runs
    BY <1>0, <1>10, QueryPinned
  <2>2. s \in Seq(Item) /\ Len(s) = n /\ n \in Nat
    BY <2>1, SortedRows DEF TypeOK, Ordered
  <2>3. /\ k <= n /\ listing.got = SubSeq(s, 1, k)
        /\ p = PageOf(s, k, Limit)
        /\ ~HasCursor(listing) => listing.total = n
        /\ HasCursor(listing) => listing.mode = "cursor"
    BY <1>0, <1>3, <1>10 DEF ListInv, Pinned, Walked, Answered, HasCursor
  <2>4. k \in 0 .. Len(s) /\ k \in Nat /\ Limit \in Nat \ {0}
    BY <1>3, <2>2, <2>3, ReadAssumption
  <2>5. HasMore(listing) <=> IF HasCursor(listing) THEN Len(p) = Limit
                                                   ELSE k + Len(p) < listing.total
    BY DEF HasMore
  <2>6. a = IF listing.mode = "cursor" /\ HasMore(listing) /\ p # <<>>
            THEN Last(p) ELSE listing.after
    BY <1>5 DEF NextCursor
  <2>7. HasCursor(listing) <=> listing.after # NoRow
    BY DEF HasCursor
  <2> HIDE DEF s, k, n, p
  <2>8. /\ p \in Seq(Item) /\ Len(p) \in Nat
        /\ k + Len(p) \in k .. Len(s)
        /\ SubSeq(s, 1, k) \o p = SubSeq(s, 1, k + Len(p))
        /\ Len(p) # Limit => k + Len(p) = Len(s)
        /\ p # <<>> => Last(p) = s[k + Len(p)]
    <3>1. LET q == PageOf(s, k, Limit)
          IN  /\ q \in Seq(Item)
              /\ k + Len(q) \in k .. Len(s)
              /\ SubSeq(s, 1, k) \o q = SubSeq(s, 1, k + Len(q))
              /\ Len(q) # Limit => k + Len(q) = Len(s)
              /\ q # <<>> => Last(q) = s[k + Len(q)]
      BY <2>2, <2>4, PageFollows
    <3>2. p = PageOf(s, k, Limit)
      BY <2>3
    <3>3. Len(p) \in Nat
      BY <3>1, <3>2
    <3> QED BY <3>1, <3>2, <3>3
  <2>9. g = SubSeq(s, 1, k + Len(p))
    BY <1>6, <2>3, <2>8 DEF p
  <2>10. Len(g) = k + Len(p)
    <3>1. g = listing.got \o p
      BY <1>6 DEF p
    <3> QED BY <1>3, <2>8, <3>1, ConcatProperties DEF k
  <2>11. p # <<>> => g # <<>>
    <3>1. p # <<>> => Len(p) # 0
      BY <2>8
    <3>2. p # <<>> => Len(g) # 0
      BY <2>4, <2>8, <2>10, <3>1
    <3> QED BY <3>2
  <2>12. st = "done" => k + Len(p) = n
    BY <1>4, <2>2, <2>3, <2>5, <2>8
  <2>13. st = "done" => g = s
    BY <2>2, <2>9, <2>12, SubSeqFull
  <2>14. a # NoRow /\ st # "done" => g # <<>> /\ a = s[Len(g)]
    <3>1. HasCursor(listing) /\ st # "done" => p # <<>>
      <4>1. HasCursor(listing) /\ st # "done" => Len(p) # 0
        BY <1>4, <2>4, <2>5
      <4> QED BY <4>1
    <3>2. a # NoRow /\ st # "done" => a = Last(p) /\ p # <<>>
      BY <1>4, <2>3, <2>6, <2>7, <3>1
    <3> QED BY <2>8, <2>10, <2>11, <3>2
  <2>15. Len(g) <= n
    BY <2>2, <2>8, <2>10
  <2>16. listing.mode = "offset" => listing.total = n
    BY <2>3
  <2> QED
    BY <2>9, <2>10, <2>13, <2>14, <2>15, <2>16 DEF s, n
<1>11. Ordered(listing.pin)' = Ordered(listing.pin)
  BY <1>2, <1>7 DEF Ordered, SortByDate
<1>12. Walked'
  BY <1>2, <1>7, <1>8, <1>10, <1>11 DEF Walked, HasCursor
<1>13. ListingWhole' /\ TotalsAgree'
  BY <1>2, <1>7, <1>8, <1>10, <1>11 DEF ListingWhole, TotalsAgree, Ordered
<1>14. Answered'
  BY <1>4, <1>7 DEF Answered
<1> QED
  BY <1>9, <1>12, <1>13, <1>14 DEF ListInv

LEMMA ReadNextList ==
    ASSUME CountedEnv, TypeOK, SyncInv, KeptInv, StateKnown, ReadTypeOK, ListInv,
           [ReadNext]_allVars
    PROVE  ListInv'
<1>0. listing \in Listing /\ CalmEnv
  BY CountedIsCalm DEF ReadTypeOK
<1>1. CASE \E mode \in {"offset", "cursor"} : Ask(mode)
  <2>1. PICK mode \in {"offset", "cursor"} : Ask(mode)
    BY <1>1
  <2>2. /\ listing' = [listing EXCEPT !.step = "service", !.mode = mode]
        /\ listing.step = "idle" /\ UNCHANGED vars
    BY <2>1 DEF Ask
  <2>3. state' = state
    BY <2>2 DEF vars
  <2>4. listing.pin = None /\ listing.got = <<>> /\ listing.after = NoRow
    BY <2>2 DEF ListInv, Pinned
  <2>5. /\ listing'.step = "service" /\ listing'.pin = None
        /\ listing'.got = <<>> /\ listing'.after = NoRow
        /\ listing'.items = listing.items
    BY <1>0, <2>2, <2>4 DEF Listing
  <2>6. Pinned'
    BY <2>2, <2>3, <2>4, <2>5 DEF ListInv, Pinned
  <2> QED
    BY <2>5, <2>6 DEF ListInv, Walked, Answered, ListingWhole, TotalsAgree, Readable
<1>2. CASE ListStep
  BY <1>0, <1>2, ListServiceInv, ListRepositoryInv, ListFindInv, ListCountInv,
     ListAnswerInv DEF ListStep
<1>3. ASSUME listing' = listing PROVE ListInv'
  BY <1>0, <1>3, ReadNextKeeps, ListBeside
<1> QED
  BY <1>1, <1>2, <1>3
  DEF ReadNext, allVars, readVars, ScanStep, ScanService, ScanCache, ScanRepository,
      ScanFind, ScanSet, CacheExpire

(* While no call of a run fails and no client overwrites the count, the    *)
(* invariant holds, however the pages of a listing, the queries of a page  *)
(* and the steps of runs and prunes interleave ...                         *)
THEOREM ListInvariant == CountedEnv => (ReadSpec => []ListInv)
<1>1. ASSUME CountedEnv PROVE ReadSpec => []ListInv
  <2>1. ReadSpec => []TypeOK /\ []SyncInv /\ []KeptInv
    <3>1. (Spec => []SyncInv) /\ (Spec => []KeptInv)
      BY <1>1, CountedIsCalm, CalmIsQuiet, SyncInvariant, CalmKeeps
    <3> QED
      BY <3>1, ReadersHarmless, TypeCorrect, PTL
  <2>2. TypeOK /\ StateKnown /\ [ReadNext]_allVars => StateKnown'
    BY <1>1, ReadNextKeeps, NextKnown
  <2>3. TypeOK /\ SyncInv /\ KeptInv /\ StateKnown /\ ReadTypeOK /\ ListInv
           /\ [ReadNext]_allVars => ListInv'
    BY <1>1, ReadNextList
  <2> QED
    BY <2>1, <2>2, <2>3, InitList, ReadTypeCorrect, PTL DEF ReadSpec
<1> QED
  BY <1>1

(* ... so a listing that ends, its snapshot still readable, gave every     *)
(* product of it once and in order, with offsets and with cursors ...      *)
THEOREM ListingsWhole == CountedEnv => (ReadSpec => []ListingWhole)
<1>1. ListInv => ListingWhole
  BY DEF ListInv
<1> QED
  BY <1>1, ListInvariant, PTL

(* ... and the total each page reported is the size of that snapshot,      *)
(* whether it was counted or taken from the sync state.                    *)
THEOREM TotalsTrue == CountedEnv => (ReadSpec => []TotalsAgree)
<1>1. ListInv => TotalsAgree
  BY DEF ListInv
<1> QED
  BY <1>1, ListInvariant, PTL

=============================================================================
