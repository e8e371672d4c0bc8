-------------------------- MODULE AuthSessionProofs --------------------------
(***************************************************************************)
(* Theorems about AuthSession, for every number of requests, device rows   *)
(* and refresh tokens: its invariants and its action property follow from  *)
(* one inductive invariant, AuthInv.                                       *)
(***************************************************************************)
EXTENDS AuthSession, SequenceTheorems, TLAPS

-----------------------------------------------------------------------------
(* The inductive invariant: what the tables and the histories say of each  *)
(* other, and what a request holds at each of its steps.                   *)

Tables ==
    /\ devices \in Seq(Device) /\ Len(devices) <= MaxDevices
    /\ tokens \in Seq(RefreshToken) /\ Len(tokens) <= MaxTokens
    /\ \A t \in DOMAIN tokens : tokens[t].device \in DOMAIN devices

Gone(d) == d \in DOMAIN devices /\ devices[d].status = "logged_out"

Histories ==
    /\ \A d \in left : Gone(d)
    /\ \A t \in spent : t \in DOMAIN tokens /\ tokens[t].revoked
    /\ RevokedForAReason

(* The rows a request refers to are there. *)
Loaded(q) ==
    /\ q.step = "token" => q.kind \in {"refresh", "logout"}
    /\ q.step = "issue" => q.device \in DOMAIN devices
    /\ q.kind = "login" /\ q.step \in {"odoo", "user", "device"} => q.device = None
    /\ q.kind = "login" /\ q.device # None => q.device \in DOMAIN devices
    /\ q.kind \in {"refresh", "logout"} => q.token \in DOMAIN tokens
    /\ q.kind \in {"refresh", "logout", "context"} => q.device \in DOMAIN devices

(* It goes on only with a device that was not logged out of before it      *)
(* began.                                                                  *)
Admitted(q) ==
    /\ q.out \subseteq left
    /\ q.kind = "login" => q.device \notin q.out
    /\ q.kind \in {"refresh", "context"} /\ q.step \in {"revoke", "issue", "answer"}
         => q.device \notin q.out

(* It has not got past the check with a token spent before.                *)
Fresh(q) == q.stale => q.token \in spent /\ q.step = "token"

(* A logout leaves its device logged out, and revokes its own token and    *)
(* others of its device.                                                   *)
Leaving(q) ==
    q.kind = "logout" =>
        /\ q.step \in {"odoo", "revoke", "commit"} /\ ~q.alive => Gone(q.device)
        /\ q.step = "commit" =>
             /\ q.token \in q.revoke
             /\ \A t \in q.revoke :
                  /\ t \in DOMAIN tokens
                  /\ t = q.token \/ tokens[t].device = q.device

Fits(q) == Loaded(q) /\ Admitted(q) /\ Fresh(q) /\ Leaving(q)

AuthInv == AuthTypeOK /\ Tables /\ Histories /\ \A r \in Requests : Fits(req[r])

-----------------------------------------------------------------------------
(* Steps in general.  What a request holds still fits when the tables and  *)
(* the histories only grow.                                                *)

Grows ==
    /\ \A d \in DOMAIN devices : d \in DOMAIN devices' /\ (Gone(d) => Gone(d)')
    /\ \A t \in DOMAIN tokens :
         t \in DOMAIN tokens' /\ tokens'[t].device = tokens[t].device
    /\ left \subseteq left'
    /\ spent \subseteq spent'

LEMMA FitsKept ==
    ASSUME Grows, NEW q \in Request, Fits(q)
    PROVE  Fits(q)'
<1>1. Loaded(q)'
  BY DEF Grows, Fits, Loaded
<1>2. Admitted(q)'
  BY DEF Grows, Fits, Admitted
<1>3. Fresh(q)'
  BY DEF Grows, Fits, Fresh
<1>4. Leaving(q)'
  BY DEF Grows, Fits, Leaving, Gone
<1> QED
  BY <1>1, <1>2, <1>3, <1>4 DEF Fits

LEMMA StepKeeps ==
    ASSUME AuthInv, NEW r \in Requests, NEW new \in Request,
           req' = [req EXCEPT ![r] = new], Fits(new)', Grows,
           odooActive' \in BOOLEAN, user' \in User, Tables', Histories',
           left' \subseteq 1..MaxDevices, spent' \subseteq 1..MaxTokens
    PROVE  AuthInv'
<1>1. req \in [Requests -> Request] /\ \A p \in Requests : Fits(req[p])
  BY DEF AuthInv, AuthTypeOK
<1>2. req' \in [Requests -> Request]
  BY <1>1
<1>3. AuthTypeOK'
  BY <1>2 DEF AuthTypeOK, Tables
<1>4. ASSUME NEW p \in Requests PROVE Fits(req[p])'
  <2>1. CASE p = r
    <3>1. req'[p] = new
      BY <1>1, <2>1
    <3> QED
      BY <3>1 DEF Fits, Loaded, Admitted, Fresh, Leaving
  <2>2. CASE p # r
    <3>1. req'[p] = req[p]
      BY <1>1, <2>2
    <3>2. \A q \in Request : Fits(q) => Fits(q)'
      BY FitsKept
    <3>3. Fits(req[p]) /\ req[p] \in Request
      BY <1>1
    <3>4. PICK c \in Request : c = req[p]
      BY <3>3
    <3>5. Fits(c)'
      BY <3>2, <3>3, <3>4
    <3>6. req'[p] = c
      BY <3>1, <3>4
    <3> QED
      BY <3>5, <3>6 DEF Fits, Loaded, Admitted, Fresh, Leaving
  <2> QED
    BY <2>1, <2>2
<1> QED
  BY <1>3, <1>4 DEF AuthInv

(* A step that only reads. *)
LEMMA ReadKeeps ==
    ASSUME AuthInv, NEW r \in Requests, NEW new \in Request,
           req' = [req EXCEPT ![r] = new], Fits(new), Reads
    PROVE  AuthInv'
<1> USE DEF Reads
<1>1. Grows
  BY DEF Grows, Gone
<1>2. Fits(new)'
  BY <1>1, FitsKept
<1>3. Tables' /\ Histories'
  BY DEF AuthInv, Tables, Histories, RevokedForAReason, Gone
<1>4. /\ odooActive' \in BOOLEAN /\ user' \in User
      /\ left' \subseteq 1..MaxDevices /\ spent' \subseteq 1..MaxTokens
  BY DEF AuthInv, AuthTypeOK
<1> QED
  BY <1>1, <1>2, <1>3, <1>4, StepKeeps

(* A request ends, or goes on to another step with what it holds.          *)
LEMMA IdleFits == ASSUME AuthInv PROVE Idle \in Request /\ Fits(Idle)
<1>1. Idle \in Request
  BY AuthAssumption DEF Idle, Request, None
<1>2. Fits(Idle)
  BY DEF Idle, Fits, Loaded, Admitted, Fresh, Leaving, None
<1> QED
  BY <1>1, <1>2

LEMMA EndKeeps ==
    ASSUME AuthInv, NEW r \in Requests, Ends(r), Reads
    PROVE  AuthInv'
BY IdleFits, ReadKeeps DEF Ends

Steps == {"idle", "odoo", "token", "user", "device", "revoke", "commit",
          "issue", "answer"}

LEMMA GoKeeps ==
    ASSUME AuthInv, NEW r \in Requests, NEW step \in Steps, Goes(r, step), Reads,
           Fits([req[r] EXCEPT !.step = step])
    PROVE  AuthInv'
<1>1. req[r] \in Request /\ req \in [Requests -> Request]
  BY DEF AuthInv, AuthTypeOK
<1> DEFINE new == [req[r] EXCEPT !.step = step]
<1>2. new \in Request
  BY <1>1 DEF Request, Steps
<1>3. req' = [req EXCEPT ![r] = new]
  BY <1>1 DEF Goes
<1> QED
  BY <1>2, <1>3, ReadKeeps


-----------------------------------------------------------------------------
(* What a request has loaded, in every step. *)
LEMMA Typed ==
    ASSUME AuthInv, NEW r \in Requests
    PROVE  /\ req \in [Requests -> Request]
           /\ req[r] \in Request
           /\ Fits(req[r])
           /\ devices \in Seq(Device) /\ DOMAIN devices = 1..Len(devices)
           /\ Len(devices) \in Nat /\ DOMAIN devices \subseteq 1..MaxDevices
           /\ tokens \in Seq(RefreshToken) /\ DOMAIN tokens = 1..Len(tokens)
           /\ Len(tokens) \in Nat /\ DOMAIN tokens \subseteq 1..MaxTokens
           /\ left \subseteq DOMAIN devices
<1>1. req \in [Requests -> Request] /\ req[r] \in Request /\ Fits(req[r])
  BY DEF AuthInv, AuthTypeOK
<1>2. /\ devices \in Seq(Device) /\ Len(devices) <= MaxDevices
      /\ tokens \in Seq(RefreshToken) /\ Len(tokens) <= MaxTokens
  BY DEF AuthInv, Tables
<1>3. /\ DOMAIN devices = 1..Len(devices) /\ Len(devices) \in Nat
      /\ DOMAIN tokens = 1..Len(tokens) /\ Len(tokens) \in Nat
  BY <1>2, LenProperties
<1>4. DOMAIN devices \subseteq 1..MaxDevices /\ DOMAIN tokens \subseteq 1..MaxTokens
  BY <1>2, <1>3, AuthAssumption
<1>5. left \subseteq DOMAIN devices
  BY DEF AuthInv, Histories, Gone
<1> QED
  BY <1>1, <1>2, <1>3, <1>4, <1>5

LEMMA Bounded ==
    ASSUME AuthInv
    PROVE  /\ odooActive \in BOOLEAN /\ user \in User
           /\ left \subseteq 1..MaxDevices /\ spent \subseteq 1..MaxTokens
BY DEF AuthInv, AuthTypeOK

-----------------------------------------------------------------------------
(* The beginnings of requests. *)
LEMMA BeginKeeps ==
    ASSUME AuthInv, NEW r \in Requests, NEW q \in Request, Begins(r, q),
           Loaded(q), q.step \notin {"revoke", "issue", "answer", "commit"},
           q.kind = "login" => q.device = None,
           q.kind = "logout" => q.step = "token",
           q.stale => q.token \in spent /\ q.step = "token"
    PROVE  AuthInv'
<1> DEFINE new == [q EXCEPT !.out = left]
<1>1. req' = [req EXCEPT ![r] = new] /\ Reads
  BY DEF Begins
<1>2. left \in SUBSET (1..MaxDevices) /\ 0 \notin left
  BY DEF AuthInv, AuthTypeOK
<1>3. new \in Request
  BY <1>2 DEF Request
<1>4. /\ new.kind = q.kind /\ new.step = q.step /\ new.token = q.token
      /\ new.device = q.device /\ new.out = left /\ new.stale = q.stale
  BY DEF Request
<1> HIDE DEF new
<1>5. Fits(new)
  BY <1>2, <1>4 DEF Fits, Loaded, Admitted, Fresh, Leaving, None
<1> QED
  BY <1>1, <1>3, <1>5, ReadKeeps

LEMMA LogInKeeps ==
    ASSUME AuthInv, NEW r \in Requests, LogIn(r)
    PROVE  AuthInv'
<1> DEFINE q == [Idle EXCEPT !.kind = "login", !.step = "odoo"]
<1>1. q \in Request
  BY IdleFits DEF Request
<1>2. /\ q.kind = "login" /\ q.step = "odoo" /\ q.device = None /\ ~q.stale
  BY DEF Idle
<1>3. Begins(r, q)
  BY DEF LogIn
<1> HIDE DEF q
<1>4. Loaded(q)
  BY <1>2 DEF Loaded
<1> QED
  BY <1>1, <1>2, <1>3, <1>4, BeginKeeps

LEMMA WithTokenKeeps ==
    ASSUME AuthInv, NEW r \in Requests, NEW kind \in {"refresh", "logout"},
           WithToken(r, kind)
    PROVE  AuthInv'
<1> PICK t \in DOMAIN tokens :
        Begins(r, [Idle EXCEPT !.kind = kind, !.step = "token", !.token = t,
                               !.device = tokens[t].device,
                               !.stale = t \in spent])
  BY DEF WithToken
<1> DEFINE again == t \in spent
           q == [Idle EXCEPT !.kind = kind, !.step = "token", !.token = t,
                             !.device = tokens[t].device, !.stale = again]
<1>6. Begins(r, q)
  OBVIOUS
<1>0. again \in BOOLEAN /\ (again => t \in spent)
  OBVIOUS
<1> HIDE DEF again
<1>1. t \in 0..MaxTokens
  BY Typed, AuthAssumption
<1>2. tokens[t].device \in DOMAIN devices
  BY DEF AuthInv, Tables
<1>3. tokens[t].device \in 0..MaxDevices
  BY <1>2, Typed
<1>4. q \in Request
  BY <1>0, <1>1, <1>3, IdleFits DEF Request
<1>5. /\ q.kind = kind /\ q.step = "token" /\ q.token = t
      /\ q.device = tokens[t].device /\ q.stale = again
  BY DEF Idle
<1> HIDE DEF q
<1>7. Loaded(q)
  BY <1>2, <1>5 DEF Loaded
<1> QED
  BY <1>0, <1>4, <1>5, <1>6, <1>7, BeginKeeps

LEMMA WithAccessKeeps ==
    ASSUME AuthInv, NEW r \in Requests, WithAccess(r)
    PROVE  AuthInv'
<1> PICK t \in DOMAIN tokens :
        Begins(r, [Idle EXCEPT !.kind = "context", !.step = "user",
                               !.device = tokens[t].device])
  BY DEF WithAccess
<1> DEFINE q == [Idle EXCEPT !.kind = "context", !.step = "user",
                             !.device = tokens[t].device]
<1>1. tokens[t].device \in DOMAIN devices
  BY DEF AuthInv, Tables
<1>2. tokens[t].device \in 0..MaxDevices
  BY <1>1, Typed
<1>3. q \in Request
  BY <1>2, IdleFits DEF Request
<1>4. /\ q.kind = "context" /\ q.step = "user"
      /\ q.device = tokens[t].device /\ ~q.stale
  BY DEF Idle
<1>5. Begins(r, q)
  OBVIOUS
<1> HIDE DEF q
<1>6. Loaded(q)
  BY <1>1, <1>4 DEF Loaded
<1> QED
  BY <1>3, <1>4, <1>5, <1>6, BeginKeeps


-----------------------------------------------------------------------------
(* The steps of requests that only read. *)
LEMMA LoginReads ==
    ASSUME AuthInv, NEW r \in Requests,
           \/ LoginOdoo(r) \/ LoginUser(r) \/ OfflineUser(r)
           \/ LoginDevice(r) \/ LoginConflict(r)
    PROVE  AuthInv'
<1>1. /\ req \in [Requests -> Request] /\ req[r] \in Request /\ Fits(req[r])
      /\ odooActive \in BOOLEAN /\ user \in User
  BY Typed DEF AuthInv, AuthTypeOK
<1>2. CASE LoginOdoo(r)
  <2> USE <1>2 DEF LoginOdoo, At
  <2>1. CASE Ends(r)
    BY <2>1, EndKeeps
  <2>2. CASE Goes(r, "user")
    <3>1. Fits([req[r] EXCEPT !.step = "user"])
      BY <1>1 DEF Fits, Loaded, Admitted, Fresh, Leaving, Request
    <3> QED
      BY <2>2, <3>1, GoKeeps DEF Steps
  <2>3. CASE req' = [req EXCEPT ![r].step = "user", ![r].online = TRUE,
                                ![r].active = odooActive]
    <3> DEFINE new == [req[r] EXCEPT !.step = "user", !.online = TRUE,
                                     !.active = odooActive]
    <3>1. new \in Request
      BY <1>1 DEF Request
    <3>2. Fits(new)
      BY <1>1 DEF Fits, Loaded, Admitted, Fresh, Leaving, Request
    <3>3. req' = [req EXCEPT ![r] = new]
      BY <1>1, <2>3
    <3> QED
      BY <3>1, <3>2, <3>3, ReadKeeps
  <2> QED
    BY <2>1, <2>2, <2>3
<1>3. CASE LoginUser(r)
  <2> DEFINE differs == ~user.known \/ user.active # req[r].active
             unknown == ~user.known
             new == [req[r] EXCEPT !.step = "device", !.new = unknown,
                                   !.change = differs]
  <2>1. req' = [req EXCEPT ![r] = new]
    BY <1>1, <1>3 DEF LoginUser
  <2>2. differs \in BOOLEAN /\ unknown \in BOOLEAN
    OBVIOUS
  <2> HIDE DEF differs, unknown
  <2>3. new \in Request
    BY <1>1, <2>2 DEF Request
  <2>4. Fits(new)
    BY <1>1, <1>3 DEF LoginUser, At, Fits, Loaded, Admitted, Fresh, Leaving, Request
  <2> HIDE DEF new
  <2> QED
    BY <1>3, <2>1, <2>3, <2>4, ReadKeeps DEF LoginUser
<1>4. CASE OfflineUser(r)
  <2>1. CASE Ends(r)
    BY <1>4, <2>1, EndKeeps DEF OfflineUser
  <2>2. CASE Goes(r, "device")
    <3>1. Fits([req[r] EXCEPT !.step = "device"])
      BY <1>1, <1>4 DEF OfflineUser, At, Fits, Loaded, Admitted, Fresh, Leaving, Request
    <3> QED
      BY <1>4, <2>2, <3>1, GoKeeps DEF Steps, OfflineUser
  <2> QED
    BY <1>4, <2>1, <2>2 DEF OfflineUser
<1>5. CASE LoginDevice(r)
  <2>1. ASSUME NEW d \in DOMAIN devices, Loadable(d),
               req' = [req EXCEPT ![r].step = "commit", ![r].device = d]
        PROVE  AuthInv'
    <3> DEFINE new == [req[r] EXCEPT !.step = "commit", !.device = d]
    <3>1. d \in 0..MaxDevices
      BY Typed, AuthAssumption
    <3>2. new \in Request
      BY <1>1, <3>1 DEF Request
    <3>3. d \notin left
      BY <2>1 DEF Loadable, AuthInv, Histories, Gone
    <3>4. Fits(new)
      BY <1>1, <1>5, <3>3
      DEF LoginDevice, At, Fits, Loaded, Admitted, Fresh, Leaving, Request
    <3>5. req' = [req EXCEPT ![r] = new]
      BY <1>1, <2>1
    <3> QED
      BY <1>5, <3>2, <3>4, <3>5, ReadKeeps DEF LoginDevice
  <2>2. CASE Goes(r, "commit")
    <3>1. Fits([req[r] EXCEPT !.step = "commit"])
      BY <1>1, <1>5 DEF LoginDevice, At, Fits, Loaded, Admitted, Fresh, Leaving, Request
    <3> QED
      BY <1>5, <2>2, <3>1, GoKeeps DEF Steps, LoginDevice
  <2> QED
    BY <1>5, <2>1, <2>2 DEF LoginDevice
<1>6. CASE LoginConflict(r)
  BY <1>6, EndKeeps DEF LoginConflict
<1> QED
  BY <1>2, <1>3, <1>4, <1>5, <1>6

LEMMA CheckReads ==
    ASSUME AuthInv, NEW r \in Requests,
           CheckToken(r) \/ CheckUser(r) \/ CheckDevice(r) \/ ContextAnswer(r)
    PROVE  AuthInv'
<1>1. /\ req[r] \in Request /\ Fits(req[r])
      /\ \A d \in left : devices[d].status = "logged_out"
      /\ \A t \in spent : ~Live(t)
  BY Typed DEF AuthInv, Histories, Gone, Live
<1>2. ASSUME NEW step \in {"user", "device"}, Goes(r, step), Reads,
             \/ CheckToken(r) /\ Live(req[r].token)
             \/ CheckUser(r)
      PROVE  AuthInv'
  <2>1. req[r].kind \in {"refresh", "logout", "context"} /\ ~req[r].stale
    BY <1>1, <1>2 DEF CheckToken, CheckUser, Fits, Loaded, Fresh
  <2>2. Fits([req[r] EXCEPT !.step = step])
    BY <1>1, <2>1 DEF Fits, Loaded, Admitted, Fresh, Leaving, Request
  <2> QED
    BY <1>2, <2>2, GoKeeps DEF Steps
<1>3. CASE CheckToken(r)
  BY <1>2, <1>3, EndKeeps DEF CheckToken
<1>4. CASE CheckUser(r)
  BY <1>2, <1>4, EndKeeps DEF CheckUser
<1>5. CASE CheckDevice(r)
  <2>1. CASE ~Accepts(req[r].device)
    BY <1>5, <2>1, EndKeeps DEF CheckDevice
  <2>2. ASSUME NEW step \in {"revoke", "answer"}, Goes(r, step), Reads,
               Accepts(req[r].device)
        PROVE  AuthInv'
    <3>1. req[r].device \notin left
      BY <1>1, <2>2 DEF Accepts
    <3>2. Fits([req[r] EXCEPT !.step = step])
      BY <1>1, <1>5, <3>1
      DEF CheckDevice, Fits, Loaded, Admitted, Fresh, Leaving, Request
    <3> QED
      BY <2>2, <3>2, GoKeeps DEF Steps
  <2> QED
    BY <1>5, <2>1, <2>2 DEF CheckDevice
<1>6. CASE ContextAnswer(r)
  BY <1>6, EndKeeps DEF ContextAnswer
<1> QED
  BY <1>3, <1>4, <1>5, <1>6


LEMMA LogoutReads ==
    ASSUME AuthInv, NEW r \in Requests,
           LogoutDevice(r) \/ LogoutOdoo(r) \/ LogoutRevoke(r)
    PROVE  AuthInv'
<1>1. req \in [Requests -> Request] /\ req[r] \in Request /\ Fits(req[r])
  BY Typed
<1>2. CASE LogoutDevice(r)
  <2> DEFINE d == devices[req[r].device]
             alive == d.status = "active"
             step == IF d.odoo THEN "odoo" ELSE "revoke"
             new == [req[r] EXCEPT !.step = step, !.held = d.odoo, !.alive = alive]
  <2>1. req' = [req EXCEPT ![r] = new] /\ At(r, "logout", "device") /\ Reads
    BY <1>1, <1>2 DEF LogoutDevice
  <2>2. req[r].device \in DOMAIN devices
    BY <1>1, <2>1 DEF At, Fits, Loaded
  <2>3. d \in Device
    BY <2>2, Typed, ElementOfSeq
  <2>4. alive \in BOOLEAN /\ (~alive => d.status = "logged_out")
    BY <2>3 DEF Device
  <2>5. step \in {"odoo", "revoke"} /\ d.odoo \in BOOLEAN
    BY <2>3 DEF Device
  <2>6. ~alive => Gone(req[r].device)
    BY <2>2, <2>4 DEF Gone
  <2> HIDE DEF d, alive, step
  <2>7. new \in Request
    BY <1>1, <2>4, <2>5 DEF Request
  <2>8. Fits(new)
    BY <1>1, <2>1, <2>2, <2>5, <2>6
    DEF At, Fits, Loaded, Admitted, Fresh, Leaving, Request
  <2> HIDE DEF new
  <2> QED
    BY <2>1, <2>7, <2>8, ReadKeeps
<1>3. CASE LogoutOdoo(r)
  <2>1. Fits([req[r] EXCEPT !.step = "revoke"])
    BY <1>1, <1>3 DEF LogoutOdoo, At, Fits, Loaded, Admitted, Fresh, Leaving, Request
  <2> QED
    BY <1>3, <2>1, GoKeeps DEF LogoutOdoo, Steps
<1>4. CASE LogoutRevoke(r)
  <2> DEFINE revoke == {t \in DOMAIN tokens :
                          \/ t = req[r].token
                          \/ tokens[t].device = req[r].device /\ Live(t)}
             new == [req[r] EXCEPT !.step = "commit", !.revoke = revoke]
  <2>1. req' = [req EXCEPT ![r] = new] /\ At(r, "logout", "revoke") /\ Reads
    BY <1>1, <1>4 DEF LogoutRevoke
  <2>2. /\ revoke \in SUBSET (1..MaxTokens)
        /\ \A t \in revoke : /\ t \in DOMAIN tokens
                             /\ t = req[r].token \/ tokens[t].device = req[r].device
    BY Typed
  <2>3. req[r].token \in revoke
    BY <1>1, <2>1 DEF At, Fits, Loaded
  <2> HIDE DEF revoke
  <2>4. new \in Request
    BY <1>1, <2>2 DEF Request
  <2>5. Fits(new)
    BY <1>1, <2>1, <2>2, <2>3
    DEF At, Fits, Loaded, Admitted, Fresh, Leaving, Request
  <2> HIDE DEF new
  <2> QED
    BY <2>1, <2>4, <2>5, ReadKeeps
<1> QED
  BY <1>2, <1>3, <1>4

-----------------------------------------------------------------------------
(* The steps that write.  They leave a row that is logged out as it is.    *)
FinalRows == \A d \in DOMAIN devices : devices[d].status = "logged_out" =>
                 d \in DOMAIN devices' /\ devices'[d].status = "logged_out"

LEMMA CommitOfLogin ==
    ASSUME AuthInv, NEW r \in Requests, LoginCommit(r)
    PROVE  AuthInv' /\ FinalRows
<1> DEFINE d == req[r].device
           e == LoginDeviceOf(r)
<1>1. /\ req \in [Requests -> Request] /\ req[r] \in Request /\ Fits(req[r])
      /\ req[r].kind = "login" /\ req[r].step = "commit"
      /\ req[r].online \in BOOLEAN /\ req[r].active \in BOOLEAN
  BY Typed DEF LoginCommit, At, Request
<1>2. /\ tokens' = tokens /\ left' = left /\ spent' = spent
      /\ odooActive' = odooActive
      /\ req' = [req EXCEPT ![r] = [req[r] EXCEPT !.step = "issue", !.device = e]]
  BY <1>1 DEF LoginCommit
<1>3. user' \in User
  <2>1. user \in User
    BY DEF AuthInv, AuthTypeOK
  <2>2. CASE req[r].change
    BY <1>1, <2>2 DEF LoginCommit, User
  <2>3. CASE ~req[r].change
    BY <2>1, <2>3 DEF LoginCommit
  <2> QED
    BY <2>2, <2>3
(* The rows: one more, or the loaded one with its status. *)
<1>4. /\ devices' \in Seq(Device) /\ Len(devices') <= MaxDevices
      /\ e \in DOMAIN devices' /\ e \in 0..MaxDevices /\ e # None
      /\ e \notin req[r].out
      /\ \A c \in DOMAIN devices :
           c \in DOMAIN devices' /\ devices'[c].status = devices[c].status
  <2>1. CASE d = None
    <3> DEFINE row == [status |-> "active", odoo |-> req[r].online]
    <3>1. devices' = Append(devices, row) /\ Len(devices) < MaxDevices
      BY <2>1 DEF LoginCommit
    <3>2. row \in Device
      BY <1>1 DEF Device
    <3> HIDE DEF row
    <3>3. /\ devices' \in Seq(Device) /\ Len(devices') = Len(devices) + 1
          /\ \A c \in 1..Len(devices) : devices'[c] = devices[c]
      BY <3>1, <3>2, Typed, AppendProperties
    <3>4. DOMAIN devices' = 1..Len(devices')
      BY <3>3, LenProperties
    <3>5. e = Len(devices) + 1
      BY <2>1 DEF LoginDeviceOf
    <3>6. e \notin req[r].out
      BY <1>1, <3>5, Typed DEF Fits, Admitted
    <3> HIDE DEF e
    <3> QED
      BY <3>1, <3>3, <3>4, <3>5, <3>6, Typed, AuthAssumption DEF None
  <2>2. CASE d # None
    <3> DEFINE row == LoginRow(r, devices[d])
    <3>1. d \in DOMAIN devices /\ d \notin req[r].out /\ e = d
      BY <1>1, <2>2 DEF Fits, Loaded, Admitted, LoginDeviceOf
    <3>2. devices' = [devices EXCEPT ![d] = row]
      BY <2>2 DEF LoginCommit
    <3>3. devices[d] \in Device
      BY <3>1, Typed, ElementOfSeq
    <3>4. row \in Device /\ row.status = devices[d].status
      BY <1>1, <3>3 DEF LoginRow, Device
    <3> HIDE DEF row
    <3>5. /\ devices' \in Seq(Device) /\ Len(devices') = Len(devices)
          /\ \A c \in 1..Len(devices) :
               devices'[c] = IF c = d THEN row ELSE devices[c]
      BY <3>1, <3>2, <3>4, Typed, ExceptSeq
    <3>6. DOMAIN devices' = 1..Len(devices')
      BY <3>5, LenProperties
    <3>7. e \in DOMAIN devices /\ e # None /\ e \notin req[r].out
      BY <2>2, <3>1
    <3>8. Len(devices) <= MaxDevices
      BY DEF AuthInv, Tables
    <3> HIDE DEF d, e
    <3> QED
      BY <3>4, <3>5, <3>6, <3>7, <3>8, Typed, AuthAssumption
  <2> QED
    BY <2>1, <2>2
<1> HIDE DEF d, e
<1>5. [req[r] EXCEPT !.step = "issue", !.device = e] \in Request
  BY <1>1, <1>4 DEF Request
<1>6. PICK new \in Request :
        /\ req' = [req EXCEPT ![r] = new]
        /\ new.kind = "login" /\ new.step = "issue" /\ new.device = e
        /\ new.out = req[r].out /\ new.stale = req[r].stale
  BY <1>1, <1>2, <1>5 DEF Request
<1>7. Grows /\ FinalRows
  BY <1>2, <1>4 DEF Grows, Gone, FinalRows
<1>8. Tables' /\ Histories'
  BY <1>2, <1>4
  DEF AuthInv, Tables, Histories, RevokedForAReason, Gone
<1>9. Fits(new)'
  <2>1. ~req[r].stale /\ req[r].out \subseteq left
    BY <1>1 DEF Fits, Fresh, Admitted
  <2> QED
    BY <1>2, <1>4, <1>6, <2>1 DEF Fits, Loaded, Admitted, Fresh, Leaving
<1>10. AuthInv'
  BY <1>2, <1>3, <1>6, <1>7, <1>8, <1>9, Bounded, StepKeeps
<1> QED
  BY <1>7, <1>10

LEMMA IssueKeeps ==
    ASSUME AuthInv, NEW r \in Requests, IssueTokens(r)
    PROVE  AuthInv'
<1> DEFINE row == [device |-> req[r].device, revoked |-> FALSE]
<1>1. /\ tokens' = Append(tokens, row) /\ Len(tokens) < MaxTokens
      /\ devices' = devices /\ left' = left /\ spent' = spent
      /\ odooActive' = odooActive /\ user' = user
      /\ req' = [req EXCEPT ![r] = Idle]
  BY DEF IssueTokens, Ends
<1>2. req[r].device \in DOMAIN devices
  <2>1. Fits(req[r]) /\ req[r].step = "issue"
    BY Typed DEF IssueTokens
  <2> QED
    BY <2>1 DEF Fits, Loaded
<1>3. row \in RefreshToken /\ row.device \in DOMAIN devices /\ ~row.revoked
  BY <1>2, Typed DEF RefreshToken
<1> HIDE DEF row
<1>4. /\ tokens' \in Seq(RefreshToken) /\ Len(tokens') = Len(tokens) + 1
      /\ \A t \in 1..Len(tokens) : tokens'[t] = tokens[t]
      /\ tokens'[Len(tokens) + 1] = row
  BY <1>1, <1>3, Typed, AppendProperties
<1>5. DOMAIN tokens' = 1..Len(tokens')
  BY <1>4, LenProperties
<1>6. /\ \A t \in DOMAIN tokens : t \in DOMAIN tokens' /\ tokens'[t] = tokens[t]
      /\ \A t \in DOMAIN tokens' : t \in DOMAIN tokens \/ tokens'[t] = row
      /\ Len(tokens') <= MaxTokens
  BY <1>1, <1>4, <1>5, Typed, AuthAssumption
<1>7. Grows
  BY <1>1, <1>6 DEF Grows, Gone
<1>8. Tables'
  BY <1>1, <1>3, <1>4, <1>6 DEF AuthInv, Tables
<1>9. Histories'
  BY <1>1, <1>3, <1>6 DEF AuthInv, Histories, RevokedForAReason, Gone
<1>10. Idle \in Request /\ Fits(Idle)'
  BY <1>7, IdleFits, FitsKept
<1> QED
  BY <1>1, <1>7, <1>8, <1>9, <1>10, Bounded, StepKeeps

LEMMA RevokeKeeps ==
    ASSUME AuthInv, NEW r \in Requests, RefreshRevoke(r)
    PROVE  AuthInv'
<1> DEFINE t == req[r].token
           row == [tokens[t] EXCEPT !.revoked = TRUE]
<1>1. /\ req \in [Requests -> Request] /\ req[r] \in Request /\ Fits(req[r])
      /\ req[r].kind = "refresh" /\ req[r].step = "revoke"
  BY Typed DEF RefreshRevoke, At
<1>2. /\ tokens' = [tokens EXCEPT ![t].revoked = TRUE]
      /\ spent' = spent \cup {t} /\ devices' = devices /\ left' = left
      /\ odooActive' = odooActive /\ user' = user
      /\ req' = [req EXCEPT ![r] = [req[r] EXCEPT !.step = "issue"]]
  BY <1>1 DEF RefreshRevoke, Rotated, Goes
<1>3. /\ t \in DOMAIN tokens /\ req[r].device \in DOMAIN devices
      /\ req[r].device \notin req[r].out /\ req[r].out \subseteq left
      /\ ~req[r].stale /\ req[r].device # None
  BY <1>1, Typed DEF Fits, Loaded, Admitted, Fresh, None
<1>4. tokens[t] \in RefreshToken
  BY <1>3, Typed, ElementOfSeq
<1>5. row \in RefreshToken /\ row.device = tokens[t].device /\ row.revoked
  BY <1>4 DEF RefreshToken
<1>6. tokens' = [tokens EXCEPT ![t] = row]
  BY <1>2
<1> HIDE DEF t, row
<1>7. /\ tokens' \in Seq(RefreshToken) /\ Len(tokens') = Len(tokens)
      /\ \A u \in 1..Len(tokens) : tokens'[u] = IF u = t THEN row ELSE tokens[u]
  BY <1>3, <1>5, <1>6, Typed, ExceptSeq
<1>8. DOMAIN tokens' = DOMAIN tokens
  BY <1>7, Typed, LenProperties
<1>9. \A u \in DOMAIN tokens :
        /\ tokens'[u].device = tokens[u].device
        /\ tokens'[u].revoked <=> (tokens[u].revoked \/ u = t)
  BY <1>5, <1>7, Typed
<1>10. Grows
  BY <1>2, <1>8, <1>9 DEF Grows, Gone
<1>11. Tables'
  BY <1>2, <1>7, <1>8, <1>9 DEF AuthInv, Tables
<1>12. Histories'
  BY <1>2, <1>3, <1>8, <1>9 DEF AuthInv, Histories, RevokedForAReason, Gone
<1>13. [req[r] EXCEPT !.step = "issue"] \in Request
  BY <1>1 DEF Request
<1>14. PICK new \in Request :
        /\ req' = [req EXCEPT ![r] = new]
        /\ new.kind = "refresh" /\ new.step = "issue" /\ new.token = t
        /\ new.device = req[r].device /\ new.out = req[r].out
        /\ new.stale = req[r].stale
  BY <1>1, <1>2, <1>13 DEF Request, t
<1>15. Fits(new)'
  BY <1>2, <1>3, <1>8, <1>14 DEF Fits, Loaded, Admitted, Fresh, Leaving
<1>16. spent' \subseteq 1..MaxTokens
  BY <1>2, <1>3, Typed, Bounded
<1> QED
  BY <1>2, <1>10, <1>11, <1>12, <1>14, <1>15, <1>16, Bounded, StepKeeps

LEMMA CommitOfLogout ==
    ASSUME AuthInv, NEW r \in Requests, LogoutCommit(r)
    PROVE  AuthInv' /\ FinalRows
<1> DEFINE d == req[r].device
           t == req[r].token
           revoke == req[r].revoke
           row == LogoutRow(r, devices[d])
<1>1. /\ req[r] \in Request /\ Fits(req[r])
      /\ req[r].kind = "logout" /\ req[r].step = "commit"
  BY Typed DEF LogoutCommit, At
<1>2. /\ tokens' = [u \in DOMAIN tokens |-> [tokens[u] EXCEPT
                      !.revoked = @ \/ u \in revoke]]
      /\ devices' = [devices EXCEPT ![d] = row]
      /\ left' = left \cup {d} /\ spent' = spent \cup {t}
      /\ odooActive' = odooActive /\ user' = user
      /\ req' = [req EXCEPT ![r] = Idle]
  BY DEF LogoutCommit, Ends
<1>3. /\ d \in DOMAIN devices /\ t \in DOMAIN tokens /\ t \in revoke
      /\ \A u \in revoke : u \in DOMAIN tokens /\ (u = t \/ tokens[u].device = d)
      /\ req[r].alive \/ devices[d].status = "logged_out"
  BY <1>1 DEF Fits, Loaded, Leaving, Gone
(* The device's row is logged out, if it was not before. *)
<1>4. row \in Device /\ row.status = "logged_out"
  <2>1. devices[d] \in Device
    BY <1>3, Typed, ElementOfSeq
  <2>2. CASE req[r].alive
    <3> DEFINE odoo == devices[d].odoo /\ ~req[r].held
    <3>1. row = [status |-> "logged_out", odoo |-> odoo]
      BY <2>2 DEF LogoutRow
    <3>2. odoo \in BOOLEAN
      OBVIOUS
    <3> HIDE DEF row, odoo
    <3> QED
      BY <3>1, <3>2 DEF Device
  <2>3. CASE ~req[r].alive
    BY <1>3, <2>1, <2>3 DEF LogoutRow
  <2> QED
    BY <2>2, <2>3
<1> HIDE DEF d, t, revoke, row
<1>5. /\ devices' \in Seq(Device) /\ Len(devices') = Len(devices)
      /\ DOMAIN devices' = DOMAIN devices
      /\ \A c \in DOMAIN devices : devices'[c] = IF c = d THEN row ELSE devices[c]
  <2>1. /\ devices' \in Seq(Device) /\ Len(devices') = Len(devices)
        /\ \A c \in 1..Len(devices) : devices'[c] = IF c = d THEN row ELSE devices[c]
    BY <1>2, <1>3, <1>4, Typed, ExceptSeq
  <2>2. DOMAIN devices' = 1..Len(devices')
    BY <2>1, LenProperties
  <2> QED
    BY <2>1, <2>2, Typed
<1>6. /\ tokens' \in Seq(RefreshToken) /\ Len(tokens') = Len(tokens)
      /\ DOMAIN tokens' = DOMAIN tokens
      /\ \A u \in DOMAIN tokens :
           /\ tokens'[u].device = tokens[u].device
           /\ tokens'[u].revoked <=> (tokens[u].revoked \/ u \in revoke)
  <2>1. ASSUME NEW u \in DOMAIN tokens
        PROVE  /\ tokens'[u] \in RefreshToken
               /\ tokens'[u].device = tokens[u].device
               /\ tokens'[u].revoked <=> (tokens[u].revoked \/ u \in revoke)
    <3> DEFINE revoked == tokens[u].revoked \/ u \in revoke
    <3>1. tokens[u] \in RefreshToken
      BY Typed, ElementOfSeq
    <3>2. tokens'[u] = [tokens[u] EXCEPT !.revoked = revoked]
      BY <1>2
    <3>3. revoked \in BOOLEAN
      OBVIOUS
    <3> HIDE DEF revoked
    <3>4. /\ tokens'[u] \in RefreshToken /\ tokens'[u].device = tokens[u].device
          /\ tokens'[u].revoked = revoked
      BY <3>1, <3>2, <3>3 DEF RefreshToken
    <3> QED
      BY <3>4 DEF revoked
  <2>2. DOMAIN tokens' = 1..Len(tokens)
    BY <1>2, Typed
  <2>3. tokens' \in [1..Len(tokens) -> RefreshToken]
    BY <1>2, <2>1, <2>2, Typed
  <2>4. tokens' \in Seq(RefreshToken)
    BY <2>3, SeqDef, Typed
  <2>5. Len(tokens') = Len(tokens)
    BY <2>2, <2>4, LenProperties, Typed
  <2> QED
    BY <2>1, <2>2, <2>4, <2>5, Typed
<1>7. Grows /\ FinalRows
  BY <1>2, <1>4, <1>5, <1>6 DEF Grows, Gone, FinalRows
<1>8. Tables'
  BY <1>5, <1>6 DEF AuthInv, Tables
<1>9. Histories'
  <2>1. \A c \in left' : Gone(c)'
    BY <1>2, <1>3, <1>4, <1>5 DEF AuthInv, Histories, Gone
  <2>2. \A u \in spent' : u \in DOMAIN tokens' /\ tokens'[u].revoked
    BY <1>2, <1>3, <1>6 DEF AuthInv, Histories
  <2>3. RevokedForAReason'
    BY <1>2, <1>3, <1>6 DEF AuthInv, Histories, RevokedForAReason
  <2> QED
    BY <2>1, <2>2, <2>3 DEF Histories
<1>10. Idle \in Request /\ Fits(Idle)'
  BY <1>7, IdleFits, FitsKept
<1>11. left' \subseteq 1..MaxDevices /\ spent' \subseteq 1..MaxTokens
  BY <1>2, <1>3, Bounded, Typed
<1>12. AuthInv'
  BY <1>2, <1>7, <1>8, <1>9, <1>10, <1>11, Bounded, StepKeeps
<1> QED
  BY <1>7, <1>12

-----------------------------------------------------------------------------
(* The invariant, and what follows from it. *)
LEMMA InitAuth == Init => AuthInv
<1> SUFFICES ASSUME Init PROVE AuthInv
  OBVIOUS
<1>1. devices = <<>> /\ tokens = <<>> /\ left = {} /\ spent = {}
  BY DEF Init
<1>2. DOMAIN devices = {} /\ DOMAIN tokens = {}
  BY <1>1
<1>3. Tables
  BY <1>1, <1>2, EmptySeq, AuthAssumption DEF Tables
<1>4. Histories
  BY <1>1, <1>2 DEF Histories, RevokedForAReason
<1>5. Idle \in Request
  BY AuthAssumption DEF Idle, Request, None
<1>6. Fits(Idle)
  BY DEF Idle, Fits, Loaded, Admitted, Fresh, Leaving, None
<1>7. \A r \in Requests : Fits(req[r])
  BY <1>6 DEF Init
<1>8. AuthTypeOK
  BY <1>1, <1>3, <1>5 DEF Init, AuthTypeOK, User, Tables
<1> QED
  BY <1>3, <1>4, <1>7, <1>8 DEF AuthInv

LEMMA NextAuth == ASSUME AuthInv, [Next]_vars PROVE AuthInv' /\ FinalRows
<1>1. ASSUME devices' = devices PROVE FinalRows
  BY <1>1 DEF FinalRows
<1>2. ASSUME NEW r \in Requests, Login(r) PROVE AuthInv' /\ FinalRows
  <2>1. CASE LogIn(r)
    BY <1>1, <2>1, LogInKeeps DEF LogIn, Begins, Reads
  <2>2. CASE \/ LoginOdoo(r) \/ LoginUser(r) \/ OfflineUser(r)
             \/ LoginDevice(r) \/ LoginConflict(r)
    BY <1>1, <2>2, LoginReads
    DEF LoginOdoo, LoginUser, OfflineUser, LoginDevice, LoginConflict, Reads
  <2>3. CASE LoginCommit(r)
    BY <2>3, CommitOfLogin
  <2> QED
    BY <1>2, <2>1, <2>2, <2>3 DEF Login
<1>3. ASSUME NEW r \in Requests, Check(r) PROVE AuthInv' /\ FinalRows
  <2>1. CASE WithToken(r, "refresh")
    BY <1>1, <2>1, WithTokenKeeps DEF WithToken, Begins, Reads
  <2>2. CASE WithAccess(r)
    BY <1>1, <2>2, WithAccessKeeps DEF WithAccess, Begins, Reads
  <2>3. CASE CheckToken(r) \/ CheckUser(r) \/ CheckDevice(r) \/ ContextAnswer(r)
    BY <1>1, <2>3, CheckReads
    DEF CheckToken, CheckUser, CheckDevice, ContextAnswer, Reads
  <2>4. CASE RefreshRevoke(r)
    BY <1>1, <2>4, RevokeKeeps DEF RefreshRevoke
  <2>5. CASE IssueTokens(r)
    BY <1>1, <2>5, IssueKeeps DEF IssueTokens
  <2> QED
    BY <1>3, <2>1, <2>2, <2>3, <2>4, <2>5 DEF Check
<1>4. ASSUME NEW r \in Requests, Logout(r) PROVE AuthInv' /\ FinalRows
  <2>1. CASE WithToken(r, "logout")
    BY <1>1, <2>1, WithTokenKeeps DEF WithToken, Begins, Reads
  <2>2. CASE LogoutDevice(r) \/ LogoutOdoo(r) \/ LogoutRevoke(r)
    BY <1>1, <2>2, LogoutReads DEF LogoutDevice, LogoutOdoo, LogoutRevoke, Reads
  <2>3. CASE LogoutCommit(r)
    BY <2>3, CommitOfLogout
  <2> QED
    BY <1>4, <2>1, <2>2, <2>3 DEF Logout
<1>5. ASSUME NEW r \in Requests, Aborts(r) PROVE AuthInv' /\ FinalRows
  BY <1>1, <1>5, EndKeeps DEF Aborts, Reads
<1>6. ASSUME UNCHANGED <<user, devices, tokens, req, left, spent>>,
             odooActive' \in BOOLEAN
      PROVE  AuthInv' /\ FinalRows
  <2>1. AuthTypeOK'
    BY <1>6 DEF AuthInv, AuthTypeOK
  <2>2. Tables' /\ Histories'
    BY <1>6 DEF AuthInv, Tables, Histories, RevokedForAReason, Gone
  <2>3. \A r \in Requests : Fits(req[r])'
    BY <1>6 DEF AuthInv, Fits, Loaded, Admitted, Fresh, Leaving, Gone
  <2> QED
    BY <1>1, <1>6, <2>1, <2>2, <2>3 DEF AuthInv
<1>7. CASE OdooToggles
  BY <1>6, <1>7, Bounded DEF OdooToggles
<1>8. CASE UNCHANGED vars
  BY <1>6, <1>8, Bounded DEF vars
<1> QED
  BY <1>2, <1>3, <1>4, <1>5, <1>7, <1>8 DEF Next

(* Every reachable state is well typed and satisfies the invariant.        *)
THEOREM AuthInvariant == Spec => []AuthInv
BY InitAuth, NextAuth, PTL DEF Spec

(* The tables, the histories and what requests hold are well typed.        *)
THEOREM AuthTypeCorrect == Spec => []AuthTypeOK
<1>1. AuthInv => AuthTypeOK
  BY DEF AuthInv
<1> QED
  BY <1>1, AuthInvariant, PTL

(* No request that begins after a logout was carried out is let through    *)
(* with that logout's device.                                              *)
THEOREM LogoutCloses == Spec => []NothingAfterLogout
<1>1. AuthInv => NothingAfterLogout
  BY DEF AuthInv, NothingAfterLogout, Past, Fits, Admitted
<1> QED
  BY <1>1, AuthInvariant, PTL

(* A refresh token that was exchanged or logged out with opens nothing for *)
(* a request that brings it again.                                         *)
THEOREM SpentTokensRefused == Spec => []ReuseRefused
<1>1. AuthInv => ReuseRefused
  BY DEF AuthInv, ReuseRefused, Fits, Fresh
<1> QED
  BY <1>1, AuthInvariant, PTL

(* No refresh token is revoked but by its own exchange or by a logout of   *)
(* its device.                                                             *)
THEOREM RevocationsJustified == Spec => []RevokedForAReason
<1>1. AuthInv => RevokedForAReason
  BY DEF AuthInv, Histories
<1> QED
  BY <1>1, AuthInvariant, PTL

(* A device row that is logged out stays so.                               *)
THEOREM LogoutFinal == Spec => LoggedOutIsFinal
<1>1. AuthInv /\ [Next]_vars =>
        [\A d \in DOMAIN devices : devices[d].status = "logged_out" =>
           d \in DOMAIN devices' /\ devices'[d].status = "logged_out"]_vars
  BY NextAuth DEF FinalRows
<1> QED
  BY <1>1, AuthInvariant, PTL DEF Spec, LoggedOutIsFinal

=============================================================================
