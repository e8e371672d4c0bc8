----------------------------- MODULE PosSession -----------------------------
(***************************************************************************)
(* The POS service's cache of one POS config's sessions and its            *)
(* idempotency keys (pos-python-runtime: pos/service.py,                   *)
(* pos/repositories.py, pos/sync_worker.py): requests that close a session *)
(* or set its opening cash, in Odoo first and then in the cache, beside    *)
(* the sync worker's passes.                                               *)
(*                                                                         *)
(* Each of them has one database transaction, which begins with its first  *)
(* query, reads what is committed and writes, at its commit, what it found *)
(* different from the rows it loaded.  The time it writes (func.now()) is  *)
(* that at which it began, not that of its commit.  The config is cached   *)
(* already.  All of them replace its payment links, and where it has some  *)
(* one DELETE waits for another and may find that it has nothing left to   *)
(* delete: that only delays a transaction or makes it fail, which any may  *)
(* do here at any step.  A config without payment methods has no such      *)
(* locks, so that every interleaving is one of the program's.              *)
(***************************************************************************)
EXTENDS Naturals, SequencesExt

CONSTANTS
    Requests,       \* the requests there can be at a time
    Worker,         \* the sync worker
    MaxSessions,    \* bound: sessions opened in Odoo
    Asked,          \* bound: the sessions requests are about
    Bodies          \* the bodies closes are sent with, None without a key

ASSUME PosAssumption ==
    /\ MaxSessions \in Nat /\ Asked \subseteq 1..MaxSessions
    /\ Worker \notin Requests
    /\ 1..MaxSessions \cap (Requests \cup {Worker}) = {}

Sessions == 1..MaxSessions
None == 0
Actors == Requests \cup {Worker}

VARIABLES
    odoo,       \* state of each session in Odoo
    rows,       \* ... in pos_sessions
    order,      \* ... in the order of updated_at, and amid them, where it
                \* began, who has a transaction under way
    keys,       \* idempotency_keys: what is stored for a session's close key
    txn,        \* what each actor holds between its awaited calls
    last        \* history: the body each key was answered last for

vars == <<odoo, rows, order, keys, txn, last>>
cache == <<rows, keys, last>>
db == <<cache, order>>

-----------------------------------------------------------------------------
Txn ==
    [ kind   : {"none", "close", "cash", "pass"},
      step   : {"idle", "lookup", "call", "list", "begin", "hydrate", "row",
                "store", "commit"},
      s      : Sessions \cup {None},
      body   : Bodies \cup {None},
      ok     : BOOLEAN,                             \* Odoo's "successful"
      says   : {"none", "opened", "closed"},        \* the state Odoo gave
      loaded : {"absent", "opened", "closed"},      \* the row as loaded
      stored : BOOLEAN ]                            \* the key's row was there

Idle == [ kind |-> "none", step |-> "idle", s |-> None, body |-> None,
          ok |-> FALSE, says |-> "none", loaded |-> "absent",
          stored |-> FALSE ]

Answer == [body : Bodies \ {None}, ok : BOOLEAN]

(* The steps outside of a transaction, and those that are within one.      *)
Outside == {"idle", "lookup", "begin"}
Inside == {"hydrate", "row", "store", "commit"}

PosTypeOK ==
    /\ odoo \in [Sessions -> {"none", "opened", "closed"}]
    /\ rows \in [Sessions -> {"absent", "opened", "closed"}]
    /\ order \in Seq(Sessions \cup Actors) /\ IsInjective(order)
    /\ \A s \in Sessions : s \in Range(order) <=> rows[s] # "absent"
    /\ \A a \in Actors : /\ txn[a].step \in Outside => a \notin Range(order)
                         /\ txn[a].step \in Inside => a \in Range(order)
    /\ keys \in [Sessions -> {{}} \cup {{a} : a \in Answer}]
    /\ txn \in [Actors -> Txn]
    /\ last \in [Sessions -> Bodies \cup {None}]

Init ==
    /\ odoo = [s \in Sessions |-> "none"]
    /\ rows = [s \in Sessions |-> "absent"]
    /\ order = <<>>
    /\ keys = [s \in Sessions |-> {}]
    /\ txn = [a \in Actors |-> Idle]
    /\ last = [s \in Sessions |-> None]

-----------------------------------------------------------------------------
(* Odoo: a cashier opens the config's next session, or closes the open one *)
(* in Odoo itself.                                                         *)

OdooOpens(s) ==
    /\ odoo[s] = "none"
    /\ \A e \in Sessions : odoo[e] # "opened" /\ (e < s => odoo[e] = "closed")
    /\ odoo' = [odoo EXCEPT ![s] = "opened"]
    /\ UNCHANGED <<db, txn>>

OdooCloses(s) ==
    /\ odoo[s] = "opened"
    /\ odoo' = [odoo EXCEPT ![s] = "closed"]
    /\ UNCHANGED <<db, txn>>

-----------------------------------------------------------------------------
At(a, step) == txn[a].step = step

Sets(a, new) == txn' = [txn EXCEPT ![a] = new]

(* Its first query begins its transaction. *)
Begins(a) == order' = IF a \in Range(order) THEN order ELSE Append(order, a)

Without(q, e) ==
    LET at == {i \in DOMAIN q : q[i] = e}
    IN  IF at = {} THEN q ELSE RemoveAt(q, Max(at))

(* An exception, an error answer or a crash: the transaction rolls back.   *)
RollsBack(a) ==
    Sets(a, Idle) /\ order' = Without(order, a) /\ UNCHANGED cache

Fails(a) == txn[a].step # "idle" /\ RollsBack(a) /\ UNCHANGED odoo

-----------------------------------------------------------------------------
(* close_session, with an idempotency key or without, and opening_cash.    *)

Asks(r, kind, s, b) ==
    /\ At(r, "idle") /\ s \in Asked /\ odoo[s] # "none"
    /\ Sets(r, [Idle EXCEPT
         !.kind = kind, !.step = IF b = None THEN "call" ELSE "lookup",
         !.s = s, !.body = b])
    /\ UNCHANGED <<odoo, db>>

(* Mutant: an answer of an unsuccessful close does not count. *)
Completed_Successful(r) ==
    \E a \in keys[txn[r].s] : a.body = txn[r].body /\ a.ok

(* The key's stored answer, if it was given to the same body.              *)
Completed(r) == \E a \in keys[txn[r].s] : a.body = txn[r].body

Lookup(r) ==
    /\ At(r, "lookup")
    /\ IF Completed(r) THEN Sets(r, Idle) /\ UNCHANGED order
       ELSE Sets(r, [txn[r] EXCEPT !.step = "call"]) /\ Begins(r)
    /\ UNCHANGED <<odoo, cache>>

Told(r, ok, says) ==
    /\ Sets(r, [txn[r] EXCEPT !.step = "list", !.ok = ok, !.says = says])
    /\ UNCHANGED db

(* Odoo closes the session and answers, or the answer is lost; it says     *)
(* that it did not succeed; or it refuses.                                 *)
CallClose(r) ==
    LET s == txn[r].s
    IN  /\ At(r, "call") /\ txn[r].kind = "close"
        /\ \/ /\ odoo' = [odoo EXCEPT ![s] = "closed"]
              /\ Told(r, TRUE, "closed") \/ RollsBack(r)
           \/ odoo' = odoo /\ Told(r, FALSE, odoo[s])
           \/ odoo' = odoo /\ RollsBack(r)

CallCash(r) ==
    /\ At(r, "call") /\ txn[r].kind = "cash"
    /\ Told(r, TRUE, odoo[txn[r].s]) \/ RollsBack(r)
    /\ UNCHANGED odoo

(* _sync_single_config asks Odoo for its configs and then queries its own; *)
(* should that fail, what Odoo did is not stored.                          *)
ListConfigs(r) ==
    /\ r \in Requests /\ At(r, "list")
    /\ \/ Sets(r, [txn[r] EXCEPT !.step = "row"]) /\ Begins(r) /\ UNCHANGED cache
       \/ RollsBack(r)
    /\ UNCHANGED odoo

-----------------------------------------------------------------------------
(* sync_once: the list comes with the login, and with it the session that  *)
(* is open now, if any.                                                    *)
PassBegins ==
    /\ At(Worker, "idle")
    /\ \/ \E s \in Sessions :
            /\ odoo[s] = "opened"
            /\ Sets(Worker, [Idle EXCEPT !.kind = "pass", !.step = "begin",
                                         !.s = s, !.says = "opened"])
       \/ /\ \A s \in Sessions : odoo[s] # "opened"
          /\ Sets(Worker, [Idle EXCEPT !.kind = "pass", !.step = "begin"])
    /\ UNCHANGED <<odoo, db>>

PassQueries ==
    /\ At(Worker, "begin")
    /\ Sets(Worker, [txn[Worker] EXCEPT !.step = "hydrate"])
    /\ Begins(Worker)
    /\ UNCHANGED <<odoo, cache>>

(* _sync_config_session: the listed session may be complete, or be asked   *)
(* for once more; should that fail, the listed state is kept.              *)
Hydrate ==
    LET s == txn[Worker].s
    IN  /\ At(Worker, "hydrate")
        /\ \/ s # None /\ Sets(Worker, [txn[Worker] EXCEPT !.step = "row",
                                                           !.says = odoo[s]])
           \/ Sets(Worker, [txn[Worker] EXCEPT !.step = "row"])
        /\ UNCHANGED <<odoo, db>>

-----------------------------------------------------------------------------
(* The transaction's writes. *)

(* upsert_session loads the row. *)
LoadRow(a) ==
    /\ At(a, "row")
    /\ Sets(a, [txn[a] EXCEPT
         !.step = IF txn[a].body = None THEN "commit" ELSE "store",
         !.loaded = IF txn[a].s = None THEN "absent" ELSE rows[txn[a].s]])
    /\ UNCHANGED <<odoo, db>>

(* store_completed loads the key. *)
LoadKey(r) ==
    /\ At(r, "store")
    /\ Sets(r, [txn[r] EXCEPT !.step = "commit", !.stored = keys[txn[r].s] # {}])
    /\ UNCHANGED <<odoo, db>>

(* Rows it is to insert have been inserted by another transaction.         *)
Conflict(a) ==
    LET s == txn[a].s
    IN  \/ s # None /\ txn[a].loaded = "absent" /\ rows[s] # "absent"
        \/ txn[a].body # None /\ ~txn[a].stored /\ keys[s] # {}

(* Mutant: a close that has been answered has closed the session. *)
NewState_Assumed(a) ==
    IF txn[a].kind = "close" THEN "closed" ELSE txn[a].says

(* The state is written if Odoo's differs from the loaded row's.           *)
NewState(a) == IF txn[a].says = txn[a].loaded THEN rows[txn[a].s] ELSE txn[a].says

(* Mutant: a row keeps the time of its insert. *)
Stamped_Insert(a, s) ==
    IF s \in Range(order) THEN Without(order, a)
    ELSE [i \in DOMAIN order |-> IF order[i] = a THEN s ELSE order[i]]

(* Mutant: a session can have two rows. *)
Stamped_Twice(a, s) == [i \in DOMAIN order |-> IF order[i] = a THEN s ELSE order[i]]

(* updated_at changes with synced_at, whatever else does: to the time at   *)
(* which the transaction began.                                            *)
Stamped(a, s) ==
    LET others == Without(order, s)
    IN  [i \in DOMAIN others |-> IF others[i] = a THEN s ELSE others[i]]

Remembered(a) == {[body |-> txn[a].body, ok |-> txn[a].ok]}

Commit(a) ==
    LET s == txn[a].s
    IN  /\ At(a, "commit") /\ ~Conflict(a)
        /\ IF s = None THEN order' = Without(order, a) /\ UNCHANGED rows
           ELSE /\ order' = Stamped(a, s)
                /\ rows' = [rows EXCEPT ![s] = NewState(a)]
        /\ IF txn[a].body = None THEN UNCHANGED <<keys, last>>
           ELSE /\ keys' = [keys EXCEPT ![s] = Remembered(a)]
                /\ last' = [last EXCEPT ![s] = txn[a].body]
        /\ Sets(a, Idle)
        /\ UNCHANGED odoo

(* An IntegrityError: what Odoo has done stays done, the cache as it was.  *)
CommitConflicts(a) ==
    /\ At(a, "commit") /\ Conflict(a)
    /\ RollsBack(a) /\ UNCHANGED odoo

-----------------------------------------------------------------------------
Request(r) ==
    \/ Lookup(r) \/ CallClose(r) \/ CallCash(r) \/ ListConfigs(r)
    \/ LoadRow(r) \/ LoadKey(r) \/ Commit(r) \/ CommitConflicts(r)

WorkerStep ==
    \/ PassBegins \/ PassQueries \/ Hydrate \/ LoadRow(Worker)
    \/ Commit(Worker) \/ CommitConflicts(Worker)

Next ==
    \/ \E s \in Sessions : OdooOpens(s) \/ OdooCloses(s)
    \/ \E r \in Requests, s \in Sessions, b \in Bodies : Asks(r, "close", s, b)
    \/ \E r \in Requests, s \in Sessions : Asks(r, "cash", s, None)
    \/ \E r \in Requests : Request(r)
    \/ WorkerStep
    \/ \E a \in Actors : Fails(a)

Spec == Init /\ [][Next]_vars

-----------------------------------------------------------------------------
(* Properties. *)

(* The cache and the stored answers never call a session closed that is    *)
(* open in Odoo: not by a close that Odoo answered without success, nor    *)
(* by a transaction that was overtaken.                                    *)
ClosedTruthful ==
    \A s \in Sessions :
        rows[s] = "closed" \/ (\E a \in keys[s] : a.ok) => odoo[s] = "closed"

(* A close that is sent again after it was answered does not reach Odoo a  *)
(* second time, as long as its key has not been used for another body.     *)
ReplayAnswered ==
    [][\A r \in Requests :
         At(r, "lookup") /\ txn[r].body = last[txn[r].s]
            => txn'[r].step # "call"]_vars

(* current_for_config's row: the last one updated of those that are open.  *)
Current ==
    LET open == {i \in DOMAIN order :
                   order[i] \in Sessions /\ rows[order[i]] = "opened"}
    IN  IF open = {} THEN None ELSE order[Max(open)]

(* The sessions last written by a transaction that began after a's.        *)
WrittenLater(a) ==
    {s \in Sessions : \E i, j \in DOMAIN order :
                         i < j /\ order[i] = a /\ order[j] = s}

(* A pass that commits makes the session that is open in Odoo the config's *)
(* current one, even if an earlier one that was closed is still open in    *)
(* the cache, and even if it was stored while the pass was under way: then *)
(* unless the transaction that stored it began after the pass's own, and   *)
(* has therefore given its row the later time.                             *)
PassMakesCurrent ==
    [][\A s \in Sessions :
         Commit(Worker) /\ txn[Worker].s = s /\ odoo[s] = "opened"
            => Current' = s \/ Current' \in WrittenLater(Worker)]_vars

=============================================================================
