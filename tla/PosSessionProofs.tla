--------------------------- MODULE PosSessionProofs ---------------------------
(***************************************************************************)
(* Theorems about PosSession, for every number of requests and sessions    *)
(* and every set of bodies: the cache calls no session closed that Odoo    *)
(* has open, a close that was answered is answered again from the cache,   *)
(* and a pass makes the open session the current one.  They follow from    *)
(* two inductive invariants: PosInv, of what is known of Odoo, and         *)
(* CacheInv, of the rows and their order.                                  *)
(***************************************************************************)
EXTENDS PosSession, ListLemmas

-----------------------------------------------------------------------------
(* The inductive invariant: what is stored, and what each transaction      *)
(* holds, is never ahead of Odoo.                                          *)

Stored ==
    /\ odoo \in [Sessions -> {"none", "opened", "closed"}]
    /\ rows \in [Sessions -> {"absent", "opened", "closed"}]
    /\ keys \in [Sessions -> SUBSET Answer]
    /\ last \in [Sessions -> Bodies \cup {None}]
    /\ ClosedTruthful

(* The last answer given is the one the key remembers. *)
Answered ==
    \A s \in Sessions : last[s] # None => \E a \in keys[s] : a.body = last[s]

Behind(q) ==
    /\ q.s # None => odoo[q.s] # "none"
    /\ q.says = "closed" => q.s # None /\ odoo[q.s] = "closed"
    /\ q.kind = "close" /\ q.ok => odoo[q.s] = "closed"

Formed(q) ==
    /\ q.kind \in {"close", "cash"} => q.s # None
    /\ q.body # None => q.kind = "close"
    /\ q.step = "lookup" => q.body # None
    /\ q.s # None /\ q.step \notin {"idle", "lookup", "call"} => q.says # "none"

Fits(q) == Behind(q) /\ Formed(q)

PosInv ==
    /\ Stored /\ Answered
    /\ txn \in [Actors -> Txn] /\ \A a \in Actors : Fits(txn[a])

-----------------------------------------------------------------------------
(* Steps in general.  Odoo never reopens a session nor loses one.          *)

OdooMoves ==
    \A s \in Sessions :
        /\ odoo[s] = "closed" => odoo'[s] = "closed"
        /\ odoo[s] # "none" => odoo'[s] # "none"

LEMMA FitsKept ==
    ASSUME OdooMoves, NEW q \in Txn, Fits(q)
    PROVE  Fits(q)'
<1>1. q.s # None => q.s \in Sessions
  BY DEF Txn
<1>2. Formed(q)'
  BY DEF Fits, Formed
<1>3. q.kind = "close" => q.s # None
  BY DEF Fits, Formed
<1>4. Behind(q)'
  BY <1>1, <1>3 DEF Fits, Behind, OdooMoves
<1> QED
  BY <1>2, <1>4 DEF Fits

(* A step in which every transaction holds what it held, or what fits.     *)
LEMMA StepKeeps ==
    ASSUME PosInv, OdooMoves, Stored', Answered', txn' \in [Actors -> Txn],
           \A a \in Actors : \/ txn'[a] = txn[a]
                             \/ \E q \in Txn : txn'[a] = q /\ Fits(q)'
    PROVE  PosInv'
<1>1. ASSUME NEW a \in Actors PROVE Fits(txn[a])'
  <2>1. PICK q \in Txn : txn'[a] = q /\ Fits(q)'
    <3>1. CASE txn'[a] = txn[a]
      <4>1. PICK q \in Txn : q = txn[a]
        BY DEF PosInv
      <4>2. Fits(q)
        BY <4>1 DEF PosInv
      <4> QED
        BY <3>1, <4>1, <4>2, FitsKept
    <3> QED
      BY <3>1
  <2> QED
    BY <2>1 DEF Fits, Behind, Formed
<1> QED
  BY <1>1 DEF PosInv

(* A step of one actor that leaves Odoo and the cache alone.               *)
LEMMA SetsKeeps ==
    ASSUME PosInv, NEW a \in Actors, NEW new \in Txn, Fits(new), Sets(a, new),
           UNCHANGED <<odoo, cache>>
    PROVE  PosInv'
<1>1. OdooMoves
  BY DEF OdooMoves
<1>2. Stored' /\ Answered'
  BY DEF PosInv, Stored, Answered, ClosedTruthful, cache
<1>3. txn' = [txn EXCEPT ![a] = new] /\ txn \in [Actors -> Txn]
  BY DEF Sets, PosInv
<1>4. txn' \in [Actors -> Txn]
  BY <1>3
<1>5. Fits(new)'
  BY <1>1, FitsKept
<1> QED
  BY <1>1, <1>2, <1>3, <1>4, <1>5, StepKeeps

LEMMA IdleFits == Idle \in Txn /\ Fits(Idle)
<1>1. Idle \in Txn
  BY DEF Idle, Txn, None
<1>2. Fits(Idle)
  BY DEF Idle, Fits, Behind, Formed, None
<1> QED
  BY <1>1, <1>2

LEMMA IdleKeeps ==
    ASSUME PosInv, NEW a \in Actors, Sets(a, Idle), UNCHANGED <<odoo, cache>>
    PROVE  PosInv'
BY IdleFits, SetsKeeps

(* The end of a transaction: it holds nothing any more.                    *)
LEMMA EndKeeps ==
    ASSUME PosInv, NEW a \in Actors, Sets(a, Idle), OdooMoves, Stored', Answered'
    PROVE  PosInv'
<1>1. txn' = [txn EXCEPT ![a] = Idle] /\ txn \in [Actors -> Txn]
  BY DEF Sets, PosInv
<1>2. txn' \in [Actors -> Txn] /\ Fits(Idle)'
  BY <1>1, IdleFits, FitsKept
<1>3. \A e \in Actors : txn'[e] = IF e = a THEN Idle ELSE txn[e]
  BY <1>1
<1> QED
  BY <1>2, <1>3, IdleFits, StepKeeps

LEMMA RollBackKeeps ==
    ASSUME PosInv, NEW a \in Actors, RollsBack(a), odoo' = odoo
    PROVE  PosInv'
<1>1. Stored' /\ Answered' /\ OdooMoves
  BY DEF RollsBack, PosInv, Stored, Answered, ClosedTruthful, cache, OdooMoves
<1> QED
  BY <1>1, EndKeeps DEF RollsBack

-----------------------------------------------------------------------------
(* Odoo's own steps. *)
LEMMA OdooKeeps ==
    ASSUME PosInv, NEW s \in Sessions, OdooOpens(s) \/ OdooCloses(s)
    PROVE  PosInv'
<1>1. odoo \in [Sessions -> {"none", "opened", "closed"}]
  BY DEF PosInv, Stored
<1>2. odoo' \in [Sessions -> {"none", "opened", "closed"}] /\ OdooMoves
  BY <1>1 DEF OdooOpens, OdooCloses, OdooMoves
<1>3. UNCHANGED <<cache, txn>>
  BY DEF OdooOpens, OdooCloses, db
<1>4. Stored' /\ Answered'
  BY <1>2, <1>3
  DEF PosInv, Stored, Answered, ClosedTruthful, cache, OdooMoves
<1> QED
  BY <1>2, <1>3, <1>4, StepKeeps DEF PosInv

-----------------------------------------------------------------------------
(* The steps of requests and passes before their commit. *)
LEMMA AskKeeps ==
    ASSUME PosInv, NEW r \in Requests, NEW kind \in {"close", "cash"},
           NEW s \in Sessions, NEW b \in Bodies \cup {None}, Asks(r, kind, s, b),
           b # None => kind = "close"
    PROVE  PosInv'
<1> DEFINE step == IF b = None THEN "call" ELSE "lookup"
           new == [Idle EXCEPT !.kind = kind, !.step = step, !.s = s, !.body = b]
<1>1. r \in Actors /\ Sets(r, new) /\ UNCHANGED <<odoo, cache>> /\ odoo[s] # "none"
  BY DEF Actors, Asks, db
<1>2. step \in {"lookup", "call"} /\ (step = "lookup" => b # None)
  OBVIOUS
<1> HIDE DEF step
<1>3. new \in Txn
  BY <1>2, IdleFits DEF Txn
<1>4. /\ new.kind = kind /\ new.step = step /\ new.s = s /\ new.body = b
      /\ new.says = "none" /\ ~new.ok
  BY DEF Idle
<1> HIDE DEF new
<1>5. Fits(new)
  BY <1>1, <1>2, <1>4, PosAssumption DEF Fits, Behind, Formed, Sessions, None
<1> QED
  BY <1>1, <1>3, <1>5, SetsKeeps

LEMMA CallKeeps ==
    ASSUME PosInv, NEW r \in Requests, CallClose(r) \/ CallCash(r)
    PROVE  PosInv'
<1> DEFINE s == txn[r].s
<1>1. /\ r \in Actors /\ txn[r] \in Txn /\ Fits(txn[r])
      /\ txn \in [Actors -> Txn]
      /\ txn[r].step = "call" /\ txn[r].kind \in {"close", "cash"}
  BY DEF Actors, PosInv, CallClose, CallCash, At
<1>2. s \in Sessions /\ s # None /\ odoo[s] \in {"opened", "closed"}
  BY <1>1 DEF Fits, Formed, Behind, Txn, PosInv, Stored
<1> HIDE DEF s
<1>3. ASSUME RollsBack(r), UNCHANGED odoo PROVE PosInv'
  BY <1>1, <1>3, RollBackKeeps
(* Odoo answers with the state that it has. *)
<1>4. ASSUME NEW ok \in BOOLEAN, Told(r, ok, odoo[s]), UNCHANGED odoo,
             ok => txn[r].kind = "cash"
      PROVE  PosInv'
  <2> DEFINE new == [txn[r] EXCEPT !.step = "list", !.ok = ok, !.says = odoo[s]]
  <2>1. Sets(r, new) /\ UNCHANGED <<odoo, cache>>
    BY <1>4 DEF Told, db
  <2>2. new \in Txn
    BY <1>1, <1>2 DEF Txn
  <2>3. /\ new.kind = txn[r].kind /\ new.step = "list" /\ new.s = s
        /\ new.body = txn[r].body /\ new.says = odoo[s] /\ new.ok = ok
    BY <1>1 DEF Txn, s
  <2> HIDE DEF new
  <2>4. Fits(new)
    BY <1>1, <1>2, <1>4, <2>3 DEF Fits, Behind, Formed
  <2> QED
    BY <1>1, <1>4, <2>1, <2>2, <2>4, SetsKeeps
(* Odoo closes the session, and answers ... *)
<1>5. ASSUME odoo' = [odoo EXCEPT ![s] = "closed"],
             Told(r, TRUE, "closed") \/ RollsBack(r)
      PROVE  PosInv'
  <2>1. odoo \in [Sessions -> {"none", "opened", "closed"}] /\ UNCHANGED cache
    BY <1>5 DEF PosInv, Stored, Told, RollsBack, db
  <2>2. /\ odoo' \in [Sessions -> {"none", "opened", "closed"}]
        /\ OdooMoves /\ odoo'[s] = "closed"
    BY <1>2, <1>5, <2>1 DEF OdooMoves
  <2>3. Stored' /\ Answered'
    BY <2>1, <2>2 DEF PosInv, Stored, Answered, ClosedTruthful, cache, OdooMoves
  <2>4. CASE Told(r, TRUE, "closed")
    <3>1. [txn[r] EXCEPT !.step = "list", !.ok = TRUE, !.says = "closed"] \in Txn
      BY <1>1 DEF Txn
    <3>2. PICK q \in Txn :
            /\ txn' = [txn EXCEPT ![r] = q]
            /\ q.kind = txn[r].kind /\ q.step = "list" /\ q.s = s
            /\ q.body = txn[r].body /\ q.says = "closed"
      BY <1>1, <2>4, <3>1 DEF Told, Sets, Txn, s
    <3>3. Formed(txn[r])
      BY <1>1 DEF Fits
    <3>4. Fits(q)'
      BY <1>1, <1>2, <2>2, <3>2, <3>3 DEF Fits, Behind, Formed
    <3>5. txn' \in [Actors -> Txn] /\ txn'[r] = q
          /\ \A a \in Actors : a # r => txn'[a] = txn[a]
      BY <1>1, <3>2
    <3> QED
      BY <2>2, <2>3, <3>4, <3>5, StepKeeps
  (* ... or its answer is lost. *)
  <2>5. CASE RollsBack(r)
    BY <1>1, <2>2, <2>3, <2>5, EndKeeps DEF RollsBack
  <2> QED
    BY <1>5, <2>4, <2>5
<1>6. CASE CallClose(r)
  BY <1>3, <1>4, <1>5, <1>6 DEF CallClose, s
<1>7. CASE CallCash(r)
  BY <1>3, <1>4, <1>7 DEF CallCash, s
<1> QED
  BY <1>6, <1>7

(* A transaction goes on to another step with what it was told.            *)
LEMMA GoKeeps ==
    ASSUME PosInv, NEW a \in Actors, NEW new \in Txn, Sets(a, new),
           UNCHANGED <<odoo, cache>>,
           new.kind = txn[a].kind, new.s = txn[a].s, new.body = txn[a].body,
           new.ok = txn[a].ok, new.says = txn[a].says, new.step # "lookup",
           txn[a].step \in {"idle", "lookup", "call"} => new.step = "call"
    PROVE  PosInv'
<1>1. Fits(txn[a])
  BY DEF PosInv
<1>2. Fits(new)
  BY <1>1 DEF Fits, Behind, Formed
<1> QED
  BY <1>2, SetsKeeps

LEMMA RequestReads ==
    ASSUME PosInv, NEW r \in Requests, Lookup(r) \/ ListConfigs(r) \/ LoadKey(r)
    PROVE  PosInv'
<1>1. /\ r \in Actors /\ txn[r] \in Txn /\ UNCHANGED <<odoo, cache>>
      /\ txn[r].step \in {"lookup", "list", "store"}
  BY DEF PosInv, Actors, Lookup, ListConfigs, LoadKey, At, RollsBack, db
<1>2. ASSUME NEW step \in {"call", "row"}, Sets(r, [txn[r] EXCEPT !.step = step]),
             txn[r].step = "lookup" => step = "call"
      PROVE  PosInv'
  <2> DEFINE new == [txn[r] EXCEPT !.step = step]
  <2>1. new \in Txn
    BY <1>1 DEF Txn
  <2>2. /\ new.kind = txn[r].kind /\ new.s = txn[r].s /\ new.body = txn[r].body
        /\ new.ok = txn[r].ok /\ new.says = txn[r].says /\ new.step = step
    BY <1>1 DEF Txn
  <2> HIDE DEF new
  <2>3. Sets(r, new)
    BY <1>2 DEF new
  <2> QED
    BY <1>1, <1>2, <2>1, <2>2, <2>3, GoKeeps
<1>3. CASE Lookup(r)
  BY <1>1, <1>2, <1>3, IdleKeeps DEF Lookup
<1>4. CASE ListConfigs(r)
  <2>1. txn[r].step = "list"
    BY <1>4 DEF ListConfigs, At
  <2> QED
    BY <1>1, <1>2, <1>4, <2>1, RollBackKeeps DEF ListConfigs
<1>5. CASE LoadKey(r)
  <2> DEFINE stored == keys[txn[r].s] # {}
             new == [txn[r] EXCEPT !.step = "commit", !.stored = stored]
  <2>1. Sets(r, new) /\ txn[r].step = "store"
    BY <1>5 DEF LoadKey, At
  <2>2. stored \in BOOLEAN
    OBVIOUS
  <2> HIDE DEF stored
  <2>3. new \in Txn
    BY <1>1, <2>2 DEF Txn
  <2>4. /\ new.kind = txn[r].kind /\ new.s = txn[r].s /\ new.body = txn[r].body
        /\ new.ok = txn[r].ok /\ new.says = txn[r].says /\ new.step = "commit"
    BY <1>1 DEF Txn
  <2> HIDE DEF new
  <2> QED
    BY <1>1, <2>1, <2>3, <2>4, GoKeeps
<1> QED
  BY <1>3, <1>4, <1>5

LEMMA LoadRowKeeps ==
    ASSUME PosInv, NEW a \in Actors, LoadRow(a)
    PROVE  PosInv'
<1>1. txn[a] \in Txn /\ UNCHANGED <<odoo, cache>> /\ txn[a].step = "row"
  BY DEF PosInv, LoadRow, At, db
<1> DEFINE step == IF txn[a].body = None THEN "commit" ELSE "store"
           loaded == IF txn[a].s = None THEN "absent" ELSE rows[txn[a].s]
           new == [txn[a] EXCEPT !.step = step, !.loaded = loaded]
<1>2. Sets(a, new)
  BY DEF LoadRow
<1>3. step \in {"store", "commit"} /\ loaded \in {"absent", "opened", "closed"}
  BY <1>1 DEF PosInv, Stored, Txn
<1> HIDE DEF step, loaded
<1>4. new \in Txn
  BY <1>1, <1>3 DEF Txn
<1>5. /\ new.kind = txn[a].kind /\ new.s = txn[a].s /\ new.body = txn[a].body
      /\ new.ok = txn[a].ok /\ new.says = txn[a].says /\ new.step = step
  BY <1>1 DEF Txn
<1> HIDE DEF new
<1> QED
  BY <1>1, <1>2, <1>3, <1>4, <1>5, GoKeeps

LEMMA PassKeeps ==
    ASSUME PosInv, PassBegins \/ PassQueries \/ Hydrate
    PROVE  PosInv'
<1>1. /\ Worker \in Actors /\ txn[Worker] \in Txn /\ Fits(txn[Worker])
      /\ odoo \in [Sessions -> {"none", "opened", "closed"}]
      /\ UNCHANGED <<odoo, cache>>
  BY DEF PosInv, Stored, Actors, PassBegins, PassQueries, Hydrate, db
<1>2. ASSUME NEW s \in Sessions, odoo[s] = "opened",
             Sets(Worker, [Idle EXCEPT !.kind = "pass", !.step = "begin",
                                       !.s = s, !.says = "opened"])
      PROVE  PosInv'
  <2> DEFINE new == [Idle EXCEPT !.kind = "pass", !.step = "begin",
                                 !.s = s, !.says = "opened"]
  <2>1. new \in Txn
    BY IdleFits DEF Txn
  <2>2. Fits(new)
    BY <1>2 DEF Idle, Fits, Behind, Formed
  <2> QED
    BY <1>1, <1>2, <2>1, <2>2, SetsKeeps
<1>3. ASSUME Sets(Worker, [Idle EXCEPT !.kind = "pass", !.step = "begin"])
      PROVE  PosInv'
  <2> DEFINE new == [Idle EXCEPT !.kind = "pass", !.step = "begin"]
  <2>1. new \in Txn
    BY IdleFits DEF Txn
  <2>2. Fits(new)
    BY DEF Idle, Fits, Behind, Formed
  <2> QED
    BY <1>1, <1>3, <2>1, <2>2, SetsKeeps
<1>4. CASE PassBegins
  BY <1>2, <1>3, <1>4 DEF PassBegins
<1>5. CASE Hydrate
  <2> DEFINE s == txn[Worker].s
  <2>0. txn[Worker].step = "hydrate"
    BY <1>5 DEF Hydrate, At
  <2>1. ASSUME s # None,
               Sets(Worker, [txn[Worker] EXCEPT !.step = "row", !.says = odoo[s]])
        PROVE  PosInv'
    <3> DEFINE new == [txn[Worker] EXCEPT !.step = "row", !.says = odoo[s]]
    <3>1. s \in Sessions /\ odoo[s] \in {"opened", "closed"}
      BY <1>1, <2>1 DEF Txn, Fits, Behind
    <3>2. new \in Txn
      BY <1>1, <3>1 DEF Txn
    <3>3. /\ new.kind = txn[Worker].kind /\ new.step = "row" /\ new.s = s
          /\ new.body = txn[Worker].body /\ new.says = odoo[s]
          /\ new.ok = txn[Worker].ok
      BY <1>1 DEF Txn
    <3> HIDE DEF new
    <3>4. Fits(new)
      BY <1>1, <2>1, <3>1, <3>3 DEF Fits, Behind, Formed
    <3>5. Sets(Worker, new)
      BY <2>1 DEF new
    <3> QED
      BY <1>1, <3>2, <3>4, <3>5, SetsKeeps
  <2>2. ASSUME Sets(Worker, [txn[Worker] EXCEPT !.step = "row"])
        PROVE  PosInv'
    <3> DEFINE new == [txn[Worker] EXCEPT !.step = "row"]
    <3>1. new \in Txn
      BY <1>1 DEF Txn
    <3>2. /\ new.kind = txn[Worker].kind /\ new.s = txn[Worker].s
          /\ new.body = txn[Worker].body /\ new.ok = txn[Worker].ok
          /\ new.says = txn[Worker].says /\ new.step = "row"
      BY <1>1 DEF Txn
    <3> HIDE DEF new
    <3>3. Sets(Worker, new)
      BY <2>2 DEF new
    <3> QED
      BY <1>1, <2>0, <3>1, <3>2, <3>3, GoKeeps
  <2> QED
    BY <1>5, <2>1, <2>2 DEF Hydrate
<1>6. CASE PassQueries
  <2> DEFINE new == [txn[Worker] EXCEPT !.step = "hydrate"]
  <2>0. txn[Worker].step = "begin" /\ Sets(Worker, new)
    BY <1>6 DEF PassQueries, At
  <2>1. new \in Txn
    BY <1>1 DEF Txn
  <2>2. /\ new.kind = txn[Worker].kind /\ new.s = txn[Worker].s
        /\ new.body = txn[Worker].body /\ new.ok = txn[Worker].ok
        /\ new.says = txn[Worker].says /\ new.step = "hydrate"
    BY <1>1 DEF Txn
  <2> HIDE DEF new
  <2> QED
    BY <1>1, <2>0, <2>1, <2>2, GoKeeps
<1> QED
  BY <1>4, <1>5, <1>6

-----------------------------------------------------------------------------
(* The commit writes nothing but what Odoo has said. *)
LEMMA CommitKeeps ==
    ASSUME PosInv, NEW a \in Actors, Commit(a)
    PROVE  PosInv'
<1> DEFINE s == txn[a].s
<1>1. /\ txn[a] \in Txn /\ Fits(txn[a]) /\ txn[a].step = "commit"
      /\ Stored /\ Answered
  BY DEF PosInv, Commit, At
<1>2. odoo' = odoo /\ Sets(a, Idle)
  BY DEF Commit
<1>3. s # None => s \in Sessions
  BY <1>1 DEF Txn
<1>4. /\ rows' \in [Sessions -> {"absent", "opened", "closed"}]
      /\ \A e \in Sessions : rows'[e] = "closed" => odoo[e] = "closed"
  <2>1. CASE s = None
    BY <1>1, <2>1 DEF Commit, Stored, ClosedTruthful
  <2>2. CASE s # None
    <3> DEFINE state == NewState(a)
    <3>1. rows' = [rows EXCEPT ![s] = state]
      BY <2>2 DEF Commit
    <3>2. /\ state \in {"absent", "opened", "closed"}
          /\ state = "closed" => odoo[s] = "closed"
      BY <1>1, <1>3, <2>2
      DEF NewState, Fits, Behind, Formed, Txn, Stored, ClosedTruthful
    <3> HIDE DEF state, s
    <3> QED
      BY <1>1, <1>3, <2>2, <3>1, <3>2 DEF Stored, ClosedTruthful
  <2> QED
    BY <2>1, <2>2
<1>5. /\ keys' \in [Sessions -> SUBSET Answer]
      /\ last' \in [Sessions -> Bodies \cup {None}]
      /\ \A e \in Sessions : (\E k \in keys'[e] : k.ok) => odoo[e] = "closed"
      /\ Answered'
  <2>1. CASE txn[a].body = None
    BY <1>1, <2>1 DEF Commit, Stored, ClosedTruthful, Answered
  <2>2. CASE txn[a].body # None
    <3> DEFINE answer == [body |-> txn[a].body, ok |-> txn[a].ok]
    <3>1. /\ s \in Sessions /\ txn[a].body \in Bodies \ {None} /\ txn[a].ok \in BOOLEAN
          /\ txn[a].ok => odoo[s] = "closed"
      BY <1>1, <1>3, <2>2 DEF Fits, Behind, Formed, Txn
    <3>2. /\ keys' = [keys EXCEPT ![s] = {answer}]
          /\ last' = [last EXCEPT ![s] = txn[a].body]
      BY <2>2 DEF Commit, Remembered
    <3>3. answer \in Answer /\ answer.body = txn[a].body /\ answer.ok = txn[a].ok
      BY <3>1 DEF Answer
    <3> HIDE DEF answer, s
    <3> QED
      BY <1>1, <3>1, <3>2, <3>3 DEF Stored, ClosedTruthful, Answered
  <2> QED
    BY <2>1, <2>2
<1>6. Stored'
  BY <1>1, <1>2, <1>4, <1>5 DEF Stored, ClosedTruthful
<1> QED
  BY <1>2, <1>5, <1>6, EndKeeps DEF OdooMoves

-----------------------------------------------------------------------------
(* The invariant, and what follows from it. *)
LEMMA InitPos == Init => PosInv
<1> SUFFICES ASSUME Init PROVE PosInv
  OBVIOUS
<1>1. Stored /\ Answered
  BY DEF Init, Stored, Answered, ClosedTruthful
<1> QED
  BY <1>1, IdleFits DEF Init, PosInv

LEMMA NextPos == ASSUME PosInv, [Next]_vars PROVE PosInv'
<1>1. CASE \E s \in Sessions : OdooOpens(s) \/ OdooCloses(s)
  BY <1>1, OdooKeeps
<1>2. ASSUME NEW r \in Requests, NEW s \in Sessions, NEW b \in Bodies,
             Asks(r, "close", s, b)
      PROVE  PosInv'
  BY <1>2, AskKeeps
<1>3. ASSUME NEW r \in Requests, NEW s \in Sessions, Asks(r, "cash", s, None)
      PROVE  PosInv'
  BY <1>3, AskKeeps
<1>4. ASSUME NEW a \in Actors, CommitConflicts(a) \/ Fails(a)
      PROVE  PosInv'
  BY <1>4, RollBackKeeps DEF CommitConflicts, Fails
<1>5. ASSUME NEW r \in Requests, Request(r) PROVE PosInv'
  <2>1. r \in Actors
    BY DEF Actors
  <2> QED
    BY <1>4, <1>5, <2>1, RequestReads, CallKeeps, LoadRowKeeps, CommitKeeps
    DEF Request
<1>6. CASE WorkerStep
  <2>1. Worker \in Actors
    BY DEF Actors
  <2> QED
    BY <1>4, <1>6, <2>1, PassKeeps, LoadRowKeeps, CommitKeeps DEF WorkerStep
<1>7. CASE UNCHANGED vars
  <2>1. OdooMoves /\ Stored' /\ Answered' /\ txn' = txn
    BY <1>7
    DEF vars, OdooMoves, PosInv, Stored, Answered, ClosedTruthful
  <2> QED
    BY <2>1, StepKeeps DEF PosInv
<1> QED
  BY <1>1, <1>2, <1>3, <1>4, <1>5, <1>6, <1>7 DEF Next

(* Every reachable state satisfies the invariant.                          *)
THEOREM PosInvariant == Spec => []PosInv
BY InitPos, NextPos, PTL DEF Spec

(* Neither the cache nor a stored answer calls a session closed that is    *)
(* open in Odoo.                                                           *)
THEOREM ClosesTruthful == Spec => []ClosedTruthful
<1>1. PosInv => ClosedTruthful
  BY DEF PosInv, Stored
<1> QED
  BY <1>1, PosInvariant, PTL

(* A request that comes to look up the key's last answer finds it.         *)
LEMMA ReplayStep ==
    ASSUME PosInv, Next, NEW r \in Requests,
           At(r, "lookup"), txn[r].body = last[txn[r].s]
    PROVE  txn'[r].step # "call"
<1>1. /\ r \in Actors /\ txn \in [Actors -> Txn] /\ txn[r].step = "lookup"
  BY DEF PosInv, Actors, At
<1>2. Completed(r)
  <2>1. Fits(txn[r]) /\ txn[r] \in Txn /\ Answered
    BY <1>1 DEF PosInv
  <2>2. txn[r].s \in Sessions /\ txn[r].body # None
    BY <1>1, <2>1, PosAssumption DEF Fits, Formed, Txn, None
  <2> QED
    BY <2>1, <2>2 DEF Answered, Completed
<1>3. Idle.step # "call"
  BY DEF Idle
(* No other step sets what a request holds at its lookup. *)
<1>4. ASSUME NEW a \in Actors, txn[a].step # "lookup", NEW new, Sets(a, new)
      PROVE  txn'[r].step # "call"
  BY <1>1, <1>4 DEF Sets
<1>5. ASSUME NEW a \in Actors, Sets(a, Idle) PROVE txn'[r].step # "call"
  BY <1>1, <1>3, <1>5 DEF Sets
<1>6. ASSUME NEW q \in Requests, Lookup(q) PROVE txn'[r].step # "call"
  <2>1. CASE q = r
    BY <1>1, <1>2, <1>3, <1>6, <2>1 DEF Lookup, Sets
  <2>2. CASE q # r
    BY <1>1, <1>6, <2>2 DEF Lookup, Sets
  <2> QED
    BY <2>1, <2>2
<1>7. ASSUME NEW a \in Actors, LoadRow(a) PROVE txn'[r].step # "call"
  BY <1>4, <1>7 DEF LoadRow, At
<1>8. ASSUME NEW a \in Actors, Commit(a) \/ CommitConflicts(a) \/ Fails(a)
      PROVE  txn'[r].step # "call"
  BY <1>5, <1>8 DEF Commit, CommitConflicts, Fails, RollsBack
<1>9. ASSUME NEW q \in Requests, NEW kind, NEW s, NEW b, Asks(q, kind, s, b)
      PROVE  txn'[r].step # "call"
  BY <1>4, <1>9 DEF Asks, At, Actors
<1>10. ASSUME NEW q \in Requests, Request(q) PROVE txn'[r].step # "call"
  <2>1. q \in Actors
    BY DEF Actors
  <2>2. CASE CallClose(q) \/ CallCash(q) \/ ListConfigs(q) \/ LoadKey(q)
    BY <1>4, <1>5, <2>1, <2>2
    DEF CallClose, CallCash, ListConfigs, LoadKey, Told, RollsBack, At
  <2> QED
    BY <1>6, <1>7, <1>8, <1>10, <2>1, <2>2 DEF Request
<1>11. CASE WorkerStep
  <2>1. Worker \in Actors
    BY DEF Actors
  <2>2. CASE PassBegins \/ PassQueries \/ Hydrate
    BY <1>4, <2>1, <2>2 DEF PassBegins, PassQueries, Hydrate, At
  <2> QED
    BY <1>7, <1>8, <1>11, <2>1, <2>2 DEF WorkerStep
<1>12. CASE \E s \in Sessions : OdooOpens(s) \/ OdooCloses(s)
  BY <1>1, <1>12 DEF OdooOpens, OdooCloses
<1> QED
  BY <1>8, <1>9, <1>10, <1>11, <1>12 DEF Next

(* A close sent again with the body its key was last answered for does not *)
(* reach Odoo.                                                             *)
THEOREM ReplaysAnswered == Spec => ReplayAnswered
<1>1. PosInv /\ [Next]_vars =>
        [\A r \in Requests :
           At(r, "lookup") /\ txn[r].body = last[txn[r].s]
              => txn'[r].step # "call"]_vars
  BY ReplayStep
<1> QED
  BY <1>1, PosInvariant, PTL DEF Spec, ReplayAnswered

-----------------------------------------------------------------------------
(* The rows of the cache: each session has one, which is never deleted, so *)
(* one that a transaction has loaded is still there when it commits; and   *)
(* each transaction has its place among them.                              *)

Places == Sessions \cup Actors

Listed ==
    /\ order \in Seq(Places) /\ Distinct(order)
    /\ \A s \in Sessions : rows[s] # "absent" <=> Has(order, s)

Placed ==
    \A a \in Actors : /\ txn[a].step \in Outside => ~Has(order, a)
                      /\ txn[a].step \in Inside => Has(order, a)

(* A key has one answer at most. *)
OneAnswer == keys \in [Sessions -> {{}} \cup {{a} : a \in Answer}]

There(q) == q.loaded # "absent" => q.s # None /\ rows[q.s] # "absent"

CacheInv ==
    Listed /\ Placed /\ OneAnswer /\ \A a \in Actors : There(txn[a])

LEMMA Apart == \A s \in Sessions, a \in Actors : s # a
BY PosAssumption DEF Sessions, Actors

(* A list without an element, and its other elements in their order.       *)
LEMMA WithoutElements ==
    ASSUME NEW S, NEW q \in Seq(S), Distinct(q), NEW e, NEW rest, rest = Without(q, e)
    PROVE  /\ rest \in Seq(S) /\ Distinct(rest) /\ ~Has(rest, e)
           /\ \A x \in S : x # e => (Has(rest, x) <=> Has(q, x))
           /\ \A i, j \in 1..Len(rest) : i < j =>
                 \E m, n \in 1..Len(q) : m < n /\ q[m] = rest[i] /\ q[n] = rest[j]
<1> DEFINE at == {i \in DOMAIN q : q[i] = e}
<1>1. CASE at = {}
  <2>1. rest = q /\ ~Has(q, e)
    BY <1>1 DEF Without, Has
  <2> QED BY <2>1
<1>2. CASE at # {}
  <2>1. PICK k \in 1..Len(q) : q[k] = e /\ at = {k}
    BY <1>2 DEF Distinct
  <2>2. Max(at) = k
    BY <2>1 DEF Max
  <2>3. rest = RemoveAt(q, k)
    BY <1>2, <2>2 DEF Without
  <2> HIDE DEF at
  <2>4. /\ rest \in Seq(S) /\ Distinct(rest) /\ ~Has(rest, q[k])
        /\ \A x \in S : x # q[k] => (Has(rest, x) <=> Has(q, x))
    BY <2>3, RemoveAtElements
  <2>6. \A i, j \in 1..Len(rest) : i < j =>
           \E m, n \in 1..Len(q) : m < n /\ q[m] = rest[i] /\ q[n] = rest[j]
    BY <2>3, RemoveAtOrder
  <2> QED BY <2>1, <2>4, <2>6
<1> QED BY <1>1, <1>2

(* A transaction that begins gets the last place, if it has none yet.      *)
LEMMA BeginsLists ==
    ASSUME Listed, NEW a \in Actors, Begins(a)
    PROVE  /\ order' \in Seq(Places) /\ Distinct(order)'
           /\ \A e \in Places : Has(order, e)' <=> e = a \/ Has(order, e)
<1>1. PICK q \in Seq(Places) : q = order /\ Distinct(q)
  BY DEF Listed
<1>2. a \in Range(order) <=> Has(q, a)
  BY <1>1 DEF Range, Has
<1>3. CASE Has(q, a)
  BY <1>1, <1>2, <1>3 DEF Begins, Has, Distinct
<1>4. CASE ~Has(q, a)
  <2>1. PICK t : t = Append(q, a)
    OBVIOUS
  <2>2. /\ t \in Seq(Places) /\ Len(t) = Len(q) + 1 /\ Len(q) \in Nat
        /\ t[Len(q) + 1] = a /\ \A i \in 1..Len(q) : t[i] = q[i]
    BY <1>1, <2>1 DEF Places
  <2>3. Distinct(t)
    BY <1>1, <1>4, <2>2 DEF Distinct, Has
  <2>4. \A e \in Places : Has(t, e) <=> e = a \/ Has(q, e)
    BY <2>2 DEF Has
  <2>5. order' = t
    BY <1>1, <1>2, <1>4, <2>1 DEF Begins
  <2> QED BY <1>1, <2>2, <2>3, <2>4, <2>5 DEF Has, Distinct
<1> QED BY <1>3, <1>4

(* A row that is written takes the place of the transaction; what comes    *)
(* after it then came after the transaction before.                        *)
LEMMA StampedElements ==
    ASSUME Listed, NEW a \in Actors, NEW s \in Sessions, Has(order, a),
           NEW t, t = Stamped(a, s)
    PROVE  /\ t \in Seq(Places) /\ Distinct(t)
           /\ \A e \in Places : Has(t, e) <=> e = s \/ (e # a /\ Has(order, e))
           /\ \A i, j \in 1..Len(t) : i < j /\ t[i] = s =>
                 t[j] # s /\ t[j] # a
                 /\ \E m, n \in 1..Len(order) : m < n /\ order[m] = a /\ order[n] = t[j]
<1>1. PICK q \in Seq(Places) : q = order /\ Distinct(q) /\ Has(q, a)
  BY DEF Listed
<1>2. PICK rest : rest = Without(q, s)
  OBVIOUS
<1>3. /\ rest \in Seq(Places) /\ Distinct(rest) /\ ~Has(rest, s)
      /\ \A x \in Places : x # s => (Has(rest, x) <=> Has(q, x))
      /\ \A i, j \in 1..Len(rest) : i < j =>
            \E m, n \in 1..Len(q) : m < n /\ q[m] = rest[i] /\ q[n] = rest[j]
  BY <1>1, <1>2, WithoutElements
<1>4. s # a /\ s \in Places /\ a \in Places
  BY Apart DEF Places
<1>5. t = [i \in DOMAIN rest |-> IF rest[i] = a THEN s ELSE rest[i]]
  BY <1>1, <1>2 DEF Stamped
<1>6. /\ t \in Seq(Places) /\ Len(t) = Len(rest) /\ Len(rest) \in Nat
      /\ \A i \in 1..Len(rest) :
            t[i] = (IF rest[i] = a THEN s ELSE rest[i]) /\ rest[i] \in Places
  <2>1. DOMAIN rest = 1..Len(rest) /\ Len(rest) \in Nat
        /\ \A i \in 1..Len(rest) : rest[i] \in Places
    BY <1>3
  <2>2. t \in [1..Len(rest) -> Places]
    BY <1>4, <1>5, <2>1
  <2> QED BY <1>5, <2>1, <2>2
<1>7. \A i \in 1..Len(rest) : rest[i] # s
  BY <1>3 DEF Has
<1>8. Distinct(t)
  BY <1>3, <1>6, <1>7 DEF Distinct
<1>9. ASSUME NEW e \in Places
      PROVE  Has(t, e) <=> e = s \/ (e # a /\ Has(order, e))
  <2>1. Has(rest, a)
    BY <1>1, <1>3, <1>4
  <2>2. CASE e = s
    BY <1>6, <2>1, <2>2 DEF Has
  <2>3. CASE e # s
    <3>1. Has(rest, e) <=> Has(order, e)
      BY <1>1, <1>3, <2>3
    <3>2. Has(t, e) <=> e # a /\ Has(rest, e)
      BY <1>6, <2>3 DEF Has
    <3> QED BY <2>3, <3>1, <3>2
  <2> QED BY <2>2, <2>3
<1>10. ASSUME NEW i \in 1..Len(t), NEW j \in 1..Len(t), i < j, t[i] = s
       PROVE  /\ t[j] # s /\ t[j] # a
              /\ \E m, n \in 1..Len(order) : m < n /\ order[m] = a /\ order[n] = t[j]
  <2>1. rest[i] = a
    BY <1>6, <1>7, <1>10
  <2>2. rest[j] # a /\ i # j
    BY <1>3, <1>6, <1>10, <2>1 DEF Distinct
  <2>3. t[j] = rest[j] /\ rest[j] # s
    BY <1>6, <1>7, <2>2
  <2> QED BY <1>1, <1>3, <1>6, <1>10, <2>1, <2>2, <2>3
<1> QED BY <1>6, <1>8, <1>9, <1>10

(* The end of a transaction that writes no row. *)
LEMMA LeavesList ==
    ASSUME Listed, NEW a \in Actors, order' = Without(order, a), rows' = rows
    PROVE  Listed' /\ \A e \in Actors : Has(order, e)' <=> e # a /\ Has(order, e)
<1>1. PICK q \in Seq(Places) : q = order /\ Distinct(q)
  BY DEF Listed
<1>2. PICK rest : rest = Without(q, a)
  OBVIOUS
<1>3. /\ rest \in Seq(Places) /\ Distinct(rest) /\ ~Has(rest, a)
      /\ \A x \in Places : x # a => (Has(rest, x) <=> Has(q, x))
  BY <1>1, <1>2, WithoutElements
<1>4. order' = rest
  BY <1>1, <1>2
<1>5. \A s \in Sessions : Has(rest, s) <=> Has(order, s)
  BY <1>1, <1>3, Apart DEF Places
<1>6. \A e \in Actors : Has(rest, e) <=> e # a /\ Has(order, e)
  BY <1>1, <1>3 DEF Places
<1>7. Listed'
  BY <1>3, <1>4, <1>5 DEF Listed, Has, Distinct
<1> QED BY <1>4, <1>6, <1>7 DEF Has

(* A commit writes a row that is there, and stays so. *)
LEMMA WritesRow ==
    ASSUME PosInv, CacheInv, NEW a \in Actors, Commit(a), txn[a].s # None
    PROVE  /\ txn[a].s \in Sessions
           /\ NewState(a) \in {"opened", "closed"}
<1>1. /\ txn[a] \in Txn /\ Fits(txn[a]) /\ txn[a].step = "commit" /\ There(txn[a])
      /\ rows \in [Sessions -> {"absent", "opened", "closed"}]
  BY DEF PosInv, CacheInv, Stored, Commit, At
<1>2. txn[a].s \in Sessions /\ txn[a].says \in {"opened", "closed"}
  BY <1>1 DEF Txn, Fits, Formed
<1> QED BY <1>1, <1>2 DEF NewState, There

LEMMA CommitLists ==
    ASSUME PosInv, CacheInv, NEW a \in Actors, Commit(a)
    PROVE  /\ Listed' /\ OneAnswer'
           /\ \A e \in Actors : Has(order, e)' <=> e # a /\ Has(order, e)
           /\ \A s \in Sessions : rows[s] # "absent" => rows'[s] # "absent"
<1> DEFINE s == txn[a].s
<1>0. /\ rows \in [Sessions -> {"absent", "opened", "closed"}]
      /\ txn[a] \in Txn /\ Fits(txn[a]) /\ Listed /\ OneAnswer
      /\ Has(order, a)
  BY DEF PosInv, CacheInv, Stored, Placed, Inside, Commit, At
<1>1. OneAnswer'
  <2>1. CASE txn[a].body = None
    BY <1>0, <2>1 DEF Commit, OneAnswer
  <2>2. CASE txn[a].body # None
    <3>1. s \in Sessions /\ Remembered(a) \in {{x} : x \in Answer}
      BY <1>0, <2>2 DEF Fits, Formed, Txn, Remembered, Answer
    <3>2. keys' = [keys EXCEPT ![s] = Remembered(a)]
      BY <2>2 DEF Commit
    <3> QED BY <1>0, <3>1, <3>2 DEF OneAnswer
  <2> QED BY <2>1, <2>2
<1>2. CASE s = None
  <2>1. order' = Without(order, a) /\ rows' = rows
    BY <1>2 DEF Commit
  <2> QED BY <1>0, <1>1, <2>1, LeavesList
<1>3. CASE s # None
  <2>1. s \in Sessions /\ NewState(a) \in {"opened", "closed"}
    BY <1>3, WritesRow
  <2>2. rows' = [rows EXCEPT ![s] = NewState(a)] /\ order' = Stamped(a, s)
    BY <1>3 DEF Commit
  <2>3. \A e \in Sessions : rows'[e] = IF e = s THEN NewState(a) ELSE rows[e]
    BY <1>0, <2>2
  <2>4. PICK q \in Sessions : q = s
    BY <2>1
  <2>5. PICK t : t = Stamped(a, q)
    OBVIOUS
  <2>6. /\ t \in Seq(Places) /\ Distinct(t)
        /\ \A e \in Places : Has(t, e) <=> e = q \/ (e # a /\ Has(order, e))
    BY <1>0, <2>5, StampedElements
  <2>7. order' = t
    BY <2>2, <2>4, <2>5
  <2>8. Listed'
    <3>1. \A e \in Sessions : Has(t, e) <=> e = q \/ Has(order, e)
      BY <2>6, Apart DEF Places
    <3> QED
      BY <1>0, <2>1, <2>3, <2>4, <2>6, <2>7, <3>1 DEF Listed, Has, Distinct
  <2>9. \A e \in Actors : Has(order, e)' <=> e # a /\ Has(order, e)
    BY <2>4, <2>6, <2>7, Apart DEF Places, Has
  <2>10. \A e \in Sessions : rows[e] # "absent" => rows'[e] # "absent"
    BY <2>1, <2>3
  <2> QED BY <1>1, <2>8, <2>9, <2>10
<1> QED BY <1>2, <1>3

(* Where a transaction goes on to, its place fits, or it begins.           *)
Moves(a, step) ==
    \/ /\ UNCHANGED order
       /\ step \in Outside => ~Has(order, a)
       /\ step \in Inside => Has(order, a)
    \/ Begins(a) /\ step \notin Outside

(* A step that sets one transaction and leaves the cache alone: what the   *)
(* transaction holds as loaded, it has loaded before or loads now.         *)
LEMMA SetsListed ==
    ASSUME PosInv, CacheInv, NEW a \in Actors, NEW new, Sets(a, new), There(new),
           UNCHANGED cache, Moves(a, new.step)
    PROVE  CacheInv'
<1>0. Listed /\ Placed /\ rows' = rows /\ keys' = keys
  BY DEF CacheInv, cache
<1>1. OneAnswer'
  BY <1>0 DEF CacheInv, OneAnswer
<1>2. \A e \in Actors : txn'[e] = IF e = a THEN new ELSE txn[e]
  BY DEF PosInv, Sets
<1>3. ASSUME NEW e \in Actors PROVE There(txn[e])'
  <2>1. There(txn[e])
    BY DEF CacheInv
  <2> QED BY <1>0, <1>2, <2>1 DEF There
<1>4. CASE UNCHANGED order /\ (new.step \in Outside => ~Has(order, a))
                           /\ (new.step \in Inside => Has(order, a))
  <2>1. Listed'
    BY <1>0, <1>4 DEF Listed, Has, Distinct
  <2>2. Placed'
    BY <1>0, <1>2, <1>4 DEF Placed, Has
  <2> QED BY <1>1, <1>3, <2>1, <2>2 DEF CacheInv
<1>5. CASE Begins(a) /\ new.step \notin Outside
  <2>1. /\ order' \in Seq(Places) /\ Distinct(order)'
        /\ \A e \in Places : Has(order, e)' <=> e = a \/ Has(order, e)
    BY <1>0, <1>5, BeginsLists
  <2>2. Listed'
    <3>1. \A s \in Sessions : Has(order, s)' <=> Has(order, s)
      BY <2>1, Apart DEF Places
    <3> QED BY <1>0, <2>1, <3>1 DEF Listed
  <2>3. Placed'
    <3>1. \A e \in Actors : Has(order, e)' <=> e = a \/ Has(order, e)
      BY <2>1 DEF Places
    <3> QED BY <1>0, <1>2, <1>5, <3>1 DEF Placed
  <2> QED BY <1>1, <1>3, <2>2, <2>3 DEF CacheInv
<1> QED BY <1>4, <1>5 DEF Moves

LEMMA EndListed ==
    ASSUME PosInv, CacheInv, NEW a \in Actors, Sets(a, Idle), Listed', OneAnswer',
           \A e \in Actors : Has(order, e)' <=> e # a /\ Has(order, e),
           \A s \in Sessions : rows[s] # "absent" => rows'[s] # "absent"
    PROVE  CacheInv'
<1>1. \A e \in Actors : txn'[e] = IF e = a THEN Idle ELSE txn[e]
  BY DEF PosInv, Sets
<1>2. ASSUME NEW e \in Actors PROVE There(txn[e])'
  <2>1. There(txn[e]) /\ (txn[e].s = None \/ txn[e].s \in Sessions)
    BY DEF PosInv, CacheInv, Txn
  <2> QED BY <1>1, <2>1 DEF There, Idle
<1>3. Placed'
  BY <1>1 DEF CacheInv, Placed, Idle, Inside
<1> QED BY <1>2, <1>3 DEF CacheInv

LEMMA RollBackListed ==
    ASSUME PosInv, CacheInv, NEW a \in Actors, RollsBack(a)
    PROVE  CacheInv'
<1>1. /\ order' = Without(order, a) /\ rows' = rows /\ keys' = keys
      /\ Sets(a, Idle) /\ Listed
  BY DEF RollsBack, CacheInv, cache
<1>2. Listed' /\ \A e \in Actors : Has(order, e)' <=> e # a /\ Has(order, e)
  BY <1>1, LeavesList
<1>3. OneAnswer'
  BY <1>1 DEF CacheInv, OneAnswer
<1> QED BY <1>1, <1>2, <1>3, EndListed

(* A step that changes nothing of what was loaded. *)
LEMMA GoesOn ==
    ASSUME PosInv, CacheInv, NEW a \in Actors, NEW new, Sets(a, new),
           new.loaded = "absent" \/ (new.loaded = txn[a].loaded /\ new.s = txn[a].s),
           UNCHANGED cache, Moves(a, new.step)
    PROVE  CacheInv'
<1>1. There(new)
  BY DEF CacheInv, There
<1> QED BY <1>1, SetsListed

(* It keeps its place if it goes from one step to another of the same      *)
(* side, or to one of neither side.                                        *)
LEMMA Stays ==
    ASSUME PosInv, CacheInv, NEW a \in Actors, NEW step, UNCHANGED order,
           \/ step \in Outside /\ txn[a].step \in Outside
           \/ step \in Inside /\ txn[a].step \in Inside
           \/ step \in {"call", "list"}
    PROVE  Moves(a, step)
BY DEF CacheInv, Placed, Moves, Outside, Inside

LEMMA NextListed ==
    ASSUME PosInv, CacheInv, [Next]_vars
    PROVE  CacheInv'
<1>0. \A a \in Actors : txn[a] \in Txn
  BY DEF PosInv
<1>1. ASSUME UNCHANGED <<db, txn>> PROVE CacheInv'
  <2>1. rows' = rows /\ txn' = txn /\ order' = order /\ keys' = keys
    BY <1>1 DEF db, cache
  <2> QED
    BY <2>1 DEF CacheInv, Listed, Placed, OneAnswer, There, Has, Distinct
<1>2. ASSUME NEW r \in Requests, NEW kind, NEW s, NEW b, Asks(r, kind, s, b)
      PROVE  CacheInv'
  <2>1. PICK new, step :
           /\ Sets(r, new) /\ step \in {"call", "lookup"}
           /\ new = [Idle EXCEPT !.kind = kind, !.step = step, !.s = s, !.body = b]
    BY <1>2 DEF Asks
  <2>2. new.loaded = "absent" /\ new.step = step
    BY <2>1 DEF Idle
  <2>3. UNCHANGED <<cache, order>> /\ r \in Actors /\ txn[r].step = "idle"
    BY <1>2 DEF Asks, Actors, db, At
  <2>4. Moves(r, new.step)
    BY <2>1, <2>2, <2>3, Stays DEF Outside
  <2> QED BY <2>1, <2>2, <2>3, <2>4, GoesOn
<1>3. ASSUME NEW a \in Actors, RollsBack(a) PROVE CacheInv'
  BY <1>3, RollBackListed
<1>4. ASSUME NEW a \in Actors, Commit(a) PROVE CacheInv'
  <2>1. Sets(a, Idle)
    BY <1>4 DEF Commit
  <2> QED BY <1>4, <2>1, CommitLists, EndListed
<1>6. ASSUME NEW a \in Actors, LoadRow(a) PROVE CacheInv'
  <2>1. PICK loaded, step :
           /\ step \in {"store", "commit"}
           /\ loaded = IF txn[a].s = None THEN "absent" ELSE rows[txn[a].s]
           /\ Sets(a, [txn[a] EXCEPT !.step = step, !.loaded = loaded])
    BY <1>6 DEF LoadRow
  <2>2. PICK new : new = [txn[a] EXCEPT !.step = step, !.loaded = loaded]
    OBVIOUS
  <2>3. /\ new.loaded = loaded /\ new.s = txn[a].s /\ new.step = step
        /\ Sets(a, new)
    BY <1>0, <2>1, <2>2 DEF Txn
  <2>4. There(new)
    BY <2>1, <2>3 DEF There
  <2>5. UNCHANGED <<cache, order>> /\ txn[a].step \in Inside
    BY <1>6 DEF LoadRow, At, Inside, db
  <2>6. Moves(a, new.step)
    BY <2>1, <2>3, <2>5, Stays DEF Inside
  <2> QED BY <2>3, <2>4, <2>5, <2>6, SetsListed
<1>7. ASSUME NEW a \in Actors, NEW new, Sets(a, new), Moves(a, new.step),
             new.loaded = "absent" \/ (new.loaded = txn[a].loaded /\ new.s = txn[a].s),
             UNCHANGED cache
      PROVE  CacheInv'
  BY <1>7, GoesOn
<1>8. Idle.loaded = "absent" /\ Idle.step = "idle"
  BY DEF Idle
(* A step of a transaction to another one, with its place or to begin.     *)
<1>9. ASSUME NEW a \in Actors, NEW step, Sets(a, [txn[a] EXCEPT !.step = step]),
             Moves(a, step), UNCHANGED cache
      PROVE  CacheInv'
  <2>1. PICK new : new = [txn[a] EXCEPT !.step = step]
    OBVIOUS
  <2>2. /\ Sets(a, new) /\ new.loaded = txn[a].loaded /\ new.s = txn[a].s
        /\ new.step = step
    BY <1>0, <1>9, <2>1 DEF Txn
  <2> QED BY <1>7, <1>9, <2>2
<1>10. ASSUME NEW r \in Requests, Request(r) PROVE CacheInv'
  <2>0. r \in Actors /\ txn[r] \in Txn
    BY <1>0 DEF Actors
  <2>1. ASSUME NEW ok, NEW says, Told(r, ok, says) PROVE CacheInv'
    <3>1. PICK new : new = [txn[r] EXCEPT !.step = "list", !.ok = ok, !.says = says]
      OBVIOUS
    <3>2. /\ Sets(r, new) /\ new.loaded = txn[r].loaded /\ new.s = txn[r].s
          /\ new.step = "list" /\ UNCHANGED <<cache, order>>
      BY <2>0, <2>1, <3>1 DEF Told, Txn, db
    <3>3. Moves(r, new.step)
      BY <2>0, <3>2, Stays
    <3> QED BY <1>7, <2>0, <3>2, <3>3
  <2>2. CASE Lookup(r)
    <3>1. txn[r].step = "lookup" /\ UNCHANGED cache
      BY <2>2 DEF Lookup, At
    <3>2. CASE Sets(r, Idle) /\ UNCHANGED order
      <4>1. Moves(r, Idle.step)
        BY <1>8, <2>0, <3>1, <3>2, Stays DEF Outside
      <4> QED BY <1>7, <1>8, <2>0, <3>1, <3>2, <4>1
    <3>3. CASE Sets(r, [txn[r] EXCEPT !.step = "call"]) /\ Begins(r)
      <4>1. Moves(r, "call")
        BY <3>3 DEF Moves, Outside
      <4> QED BY <1>9, <2>0, <3>1, <3>3, <4>1
    <3> QED BY <2>2, <3>2, <3>3 DEF Lookup
  <2>3. CASE CallClose(r) \/ CallCash(r)
    BY <1>3, <2>0, <2>1, <2>3 DEF CallClose, CallCash
  <2>4. CASE ListConfigs(r)
    <3>1. CASE /\ Sets(r, [txn[r] EXCEPT !.step = "row"]) /\ Begins(r)
               /\ UNCHANGED cache
      <4>1. Moves(r, "row")
        BY <3>1 DEF Moves, Outside
      <4> QED BY <1>9, <2>0, <3>1, <4>1
    <3> QED BY <1>3, <2>0, <2>4, <3>1 DEF ListConfigs
  <2>5. CASE LoadKey(r)
    <3>1. PICK new : new = [txn[r] EXCEPT !.step = "commit", !.stored = keys[txn[r].s] # {}]
      OBVIOUS
    <3>2. /\ Sets(r, new) /\ new.loaded = txn[r].loaded /\ new.s = txn[r].s
          /\ new.step = "commit" /\ UNCHANGED <<cache, order>>
          /\ txn[r].step = "store"
      BY <2>0, <2>5, <3>1 DEF LoadKey, Txn, db, At
    <3>3. Moves(r, new.step)
      BY <2>0, <3>2, Stays DEF Inside
    <3> QED BY <1>7, <2>0, <3>2, <3>3
  <2> QED
    BY <1>3, <1>4, <1>6, <1>10, <2>0, <2>2, <2>3, <2>4, <2>5
       DEF Request, CommitConflicts
<1>11. CASE WorkerStep
  <2>0. Worker \in Actors /\ txn[Worker] \in Txn
    BY <1>0 DEF Actors
  <2>1. CASE PassBegins
    <3>1. PICK s, new : /\ Sets(Worker, new)
                        /\ \/ new = [Idle EXCEPT !.kind = "pass", !.step = "begin",
                                                 !.s = s, !.says = "opened"]
                           \/ new = [Idle EXCEPT !.kind = "pass", !.step = "begin"]
      BY <2>1 DEF PassBegins
    <3>2. new.loaded = "absent" /\ new.step = "begin"
      BY <3>1 DEF Idle
    <3>3. UNCHANGED <<cache, order>> /\ txn[Worker].step = "idle"
      BY <2>1 DEF PassBegins, db, At
    <3>4. Moves(Worker, new.step)
      BY <2>0, <3>2, <3>3, Stays DEF Outside
    <3> QED BY <1>7, <2>0, <3>1, <3>2, <3>3, <3>4
  <2>2. CASE PassQueries
    <3>1. Moves(Worker, "hydrate")
      BY <2>2 DEF PassQueries, Moves, Outside
    <3> QED BY <1>9, <2>0, <2>2, <3>1 DEF PassQueries
  <2>3. CASE Hydrate
    <3>1. PICK new, says : /\ Sets(Worker, new)
                           /\ \/ new = [txn[Worker] EXCEPT !.step = "row", !.says = says]
                              \/ new = [txn[Worker] EXCEPT !.step = "row"]
      BY <2>3 DEF Hydrate
    <3>2. /\ new.loaded = txn[Worker].loaded /\ new.s = txn[Worker].s
          /\ new.step = "row"
      BY <2>0, <3>1 DEF Txn
    <3>3. UNCHANGED <<cache, order>> /\ txn[Worker].step = "hydrate"
      BY <2>3 DEF Hydrate, db, At
    <3>4. Moves(Worker, new.step)
      BY <2>0, <3>2, <3>3, Stays DEF Inside
    <3> QED BY <1>7, <2>0, <3>1, <3>2, <3>3, <3>4
  <2> QED
    BY <1>3, <1>4, <1>6, <1>11, <2>0, <2>1, <2>2, <2>3
       DEF WorkerStep, CommitConflicts
<1>12. CASE \E s \in Sessions : OdooOpens(s) \/ OdooCloses(s)
  BY <1>1, <1>12 DEF OdooOpens, OdooCloses
<1>13. CASE UNCHANGED vars
  BY <1>1, <1>13 DEF vars, db, cache
<1> QED
  BY <1>2, <1>3, <1>10, <1>11, <1>12, <1>13 DEF Next, Fails

LEMMA InitListed == Init => CacheInv
<1> SUFFICES ASSUME Init PROVE CacheInv
  OBVIOUS
<1>1. Len(order) = 0 /\ order \in Seq(Places)
  BY DEF Init
<1>2. Listed
  BY <1>1 DEF Init, Listed, Has, Distinct
<1>3. OneAnswer
  BY DEF Init, OneAnswer
<1>4. \A a \in Actors : There(txn[a])
  BY DEF Init, There, Idle
<1>5. Placed
  BY <1>1 DEF Init, Placed, Idle, Has, Inside
<1> QED BY <1>2, <1>3, <1>4, <1>5 DEF CacheInv

(* What requests, passes, commits, conflicts and failures keep of the rows *)
(* and their order, and of the keys.                                       *)
THEOREM CacheInvariant == Spec => []CacheInv
  BY InitListed, NextListed, PosInvariant, PTL DEF Spec

(* Every variable keeps its type: in particular each session has one row   *)
(* at most and a key one stored answer (upsert_session and                 *)
(* store_completed, with IntegrityError as the way out).                   *)
THEOREM PosTypeCorrect == Spec => []PosTypeOK
<1>1. PosInv /\ CacheInv => PosTypeOK
  <2> SUFFICES ASSUME PosInv, CacheInv PROVE PosTypeOK
    OBVIOUS
  <2>1. order \in Seq(Places) /\ IsInjective(order)
    BY DEF CacheInv, Listed, IsInjective, Distinct
  <2>2. \A e : e \in Range(order) <=> Has(order, e)
    BY <2>1 DEF Range, Has
  <2> QED
    BY <2>1, <2>2
    DEF PosTypeOK, PosInv, Stored, CacheInv, Listed, Placed, OneAnswer, Places
<1> QED
  BY <1>1, PosInvariant, CacheInvariant, PTL

(* A pass that commits with a session that is open in Odoo writes that it  *)
(* is, in the pass's place.                                                *)
LEMMA PassStep ==
    ASSUME PosInv, CacheInv, NEW s \in Sessions,
           Commit(Worker), txn[Worker].s = s, odoo[s] = "opened"
    PROVE  Current' = s \/ Current' \in WrittenLater(Worker)
<1>1. /\ Worker \in Actors /\ s # None
      /\ txn[Worker] \in Txn /\ Fits(txn[Worker]) /\ There(txn[Worker])
      /\ txn[Worker].step = "commit" /\ rows \in [Sessions -> {"absent", "opened", "closed"}]
      /\ ClosedTruthful /\ Listed /\ Has(order, Worker)
  BY PosAssumption
  DEF PosInv, Stored, CacheInv, Placed, Inside, Actors, Commit, At, Sessions, None
<1>2. txn[Worker].says = "opened"
  BY <1>1 DEF Txn, Fits, Formed, Behind
<1>3. NewState(Worker) = "opened"
  BY <1>1, <1>2 DEF NewState, There, ClosedTruthful
<1>4. rows' = [rows EXCEPT ![s] = "opened"] /\ order' = Stamped(Worker, s)
  BY <1>1, <1>3 DEF Commit
<1>5. rows'[s] = "opened"
  BY <1>1, <1>4
<1>6. PICK t : t = Stamped(Worker, s)
  OBVIOUS
<1>7. /\ t \in Seq(Places) /\ Has(t, s)
      /\ \A i, j \in 1..Len(t) : i < j /\ t[i] = s =>
            t[j] # s /\ t[j] # Worker
            /\ \E m, n \in 1..Len(order) :
                  m < n /\ order[m] = Worker /\ order[n] = t[j]
  <2>1. s \in Places
    BY DEF Places
  <2> QED BY <1>1, <1>6, <2>1, StampedElements
<1>8. PICK k \in 1..Len(t) : t[k] = s
  BY <1>7 DEF Has
<1>9. PICK open : open = {i \in DOMAIN t : t[i] \in Sessions /\ rows'[t[i]] = "opened"}
  OBVIOUS
<1>10. k \in open /\ open \subseteq 1..Len(t) /\ Len(t) \in Nat
  BY <1>5, <1>7, <1>8, <1>9
<1>11. PICK m \in open : \A i \in open : i <= m
  BY <1>10, LargestIn
<1>12. Max(open) = m
  <2>1. \A i \in open : i \in Nat
    BY <1>10
  <2>2. m \in open /\ \A i \in open : m >= i
    BY <1>11, <2>1
  <2>3. \A i \in open : (\A j \in open : i >= j) => i = m
    BY <2>1, <2>2
  <2> QED BY <2>2, <2>3 DEF Max
<1>13. Current' = t[m] /\ t[m] \in Sessions
  <2>1. Current' = IF open = {} THEN None ELSE t[Max(open)]
    BY <1>4, <1>6, <1>9 DEF Current
  <2> QED BY <1>9, <1>11, <1>12, <2>1
<1>14. CASE m = k
  BY <1>8, <1>13, <1>14
<1>15. CASE k < m
  <2>1. PICK i, j \in 1..Len(order) : i < j /\ order[i] = Worker /\ order[j] = t[m]
    BY <1>7, <1>8, <1>10, <1>15
  <2>2. DOMAIN order = 1..Len(order)
    BY <1>1 DEF Listed
  <2> QED BY <1>13, <2>1, <2>2 DEF WrittenLater
<1> QED BY <1>10, <1>11, <1>14, <1>15

(* The session a pass found open in Odoo, and that is open still when the  *)
(* pass commits, becomes the config's current one: though a close in Odoo  *)
(* came between, and though an earlier session may be open in the cache,   *)
(* unless that one was stored by a transaction that began after the pass's *)
(* (_sync_config_session, upsert_session and current_for_config).          *)
THEOREM PassesMakeCurrent == Spec => PassMakesCurrent
<1>1. PosInv /\ CacheInv /\ [Next]_vars =>
        [\A s \in Sessions :
           Commit(Worker) /\ txn[Worker].s = s /\ odoo[s] = "opened"
              => Current' = s \/ Current' \in WrittenLater(Worker)]_vars
  BY PassStep
<1> QED
  BY <1>1, PosInvariant, CacheInvariant, PTL DEF Spec, PassMakesCurrent

=============================================================================
