---------------------------- MODULE AuthSession ----------------------------
(***************************************************************************)
(* The auth service's sessions of one user on one device code              *)
(* (pos-python-runtime: services/auth_service.py, api/dependencies.py):    *)
(* logins through Odoo and, while Odoo does not answer, from the local     *)
(* cache, refreshes, logouts, and the check every other request begins     *)
(* with.  Requests run side by side; one step is the code between two      *)
(* awaited calls.                                                          *)
(*                                                                         *)
(* A database session reads what is committed (READ COMMITTED), keeps the  *)
(* rows it has loaded over its commits (expire_on_commit is off), and at a *)
(* commit writes just the columns it changed.  Row locks, which make one   *)
(* commit wait for another, are left out: every order they allow remains.  *)
(***************************************************************************)
EXTENDS Naturals, Sequences

CONSTANTS
    Requests,       \* the requests there can be at a time
    MaxDevices,     \* bound: rows of devices
    MaxTokens       \* bound: rows of refresh_tokens

ASSUME AuthAssumption == MaxDevices \in Nat /\ MaxTokens \in Nat

VARIABLES
    odooActive,     \* Odoo's user is active
    user,           \* the row of users, once there is one
    devices,        \* the rows of devices with the device's code, in the
                    \* order of their commits
    tokens,         \* the rows of refresh_tokens, likewise
    req,            \* what each request holds between its awaited calls
    left,           \* history: devices a logout was carried out for
    spent           \* history: refresh tokens exchanged or logged out with

vars == <<odooActive, user, devices, tokens, req, left, spent>>

-----------------------------------------------------------------------------
None == 0

User == [known : BOOLEAN, active : BOOLEAN]

Device == [status : {"active", "logged_out"}, odoo : BOOLEAN]

RefreshToken == [device : 1..MaxDevices, revoked : BOOLEAN]

Request ==
    [ kind   : {"none", "login", "refresh", "logout", "context"},
      step   : {"idle", "odoo", "token", "user", "device", "revoke", "commit",
                "issue", "answer"},
      token  : 0..MaxTokens,            \* the refresh token it came with
      device : 0..MaxDevices,           \* the device row it has loaded
      online : BOOLEAN,                 \* Odoo has answered the login
      new    : BOOLEAN,                 \* there was no user to load
      active : BOOLEAN,                 \* Odoo's word on the user
      change : BOOLEAN,                 \* ... and it differs from the row
      held   : BOOLEAN,                 \* the loaded row has an Odoo token
      alive  : BOOLEAN,                 \* the loaded row was active
      revoke : SUBSET (1..MaxTokens),   \* rows its UPDATE has matched
      out    : SUBSET (1..MaxDevices),  \* history: left, when it began
      stale  : BOOLEAN ]                \* history: its token was spent then

Idle ==
    [ kind |-> "none", step |-> "idle", token |-> None, device |-> None,
      online |-> FALSE, new |-> FALSE, active |-> FALSE, change |-> FALSE,
      held |-> FALSE, alive |-> FALSE, revoke |-> {}, out |-> {},
      stale |-> FALSE ]

AuthTypeOK ==
    /\ odooActive \in BOOLEAN
    /\ user \in User
    /\ devices \in Seq(Device) /\ Len(devices) <= MaxDevices
    /\ tokens \in Seq(RefreshToken) /\ Len(tokens) <= MaxTokens
    /\ req \in [Requests -> Request]
    /\ left \subseteq 1..MaxDevices
    /\ spent \subseteq 1..MaxTokens

Init ==
    /\ odooActive = TRUE
    /\ user = [known |-> FALSE, active |-> FALSE]
    /\ devices = <<>> /\ tokens = <<>>
    /\ req = [r \in Requests |-> Idle]
    /\ left = {} /\ spent = {}

-----------------------------------------------------------------------------
At(r, kind, step) == req[r].kind = kind /\ req[r].step = step

Ends(r) == req' = [req EXCEPT ![r] = Idle]

Goes(r, step) == req' = [req EXCEPT ![r].step = step]

Reads == UNCHANGED <<odooActive, user, devices, tokens, left, spent>>

Begins(r, new) ==
    /\ req[r].step = "idle"
    /\ req' = [req EXCEPT ![r] = [new EXCEPT !.out = left]]
    /\ Reads

LogIn(r) == Begins(r, [Idle EXCEPT !.kind = "login", !.step = "odoo"])

WithToken(r, kind) ==
    \E t \in DOMAIN tokens :
        Begins(r, [Idle EXCEPT !.kind = kind, !.step = "token", !.token = t,
                               !.device = tokens[t].device,
                               !.stale = t \in spent])

(* Access tokens name the user and the device they were issued for. *)
WithAccess(r) ==
    \E t \in DOMAIN tokens :
        Begins(r, [Idle EXCEPT !.kind = "context", !.step = "user",
                               !.device = tokens[t].device])

(* An exception or a crash: the request's transaction is rolled back. *)
Aborts(r) == req[r].step # "idle" /\ Ends(r) /\ Reads

-----------------------------------------------------------------------------
(* Login.  Odoo answers with its record of the user, or refuses, or does   *)
(* not answer: then the local cache has to do.                             *)

LoginOdoo(r) ==
    /\ At(r, "login", "odoo")
    /\ \/ req' = [req EXCEPT ![r].step = "user", ![r].online = TRUE,
                             ![r].active = odooActive]
       \/ Goes(r, "user")
       \/ Ends(r)
    /\ Reads

(* _upsert_user loads the user.  A column is written only if its new value *)
(* differs from the loaded one.                                            *)
LoginUser(r) ==
    /\ At(r, "login", "user") /\ req[r].online
    /\ req' = [req EXCEPT ![r].step = "device",
                          ![r].new = ~user.known,
                          ![r].change = ~user.known \/ user.active # req[r].active]
    /\ Reads

(* _login_from_local_cache: a known, active user whose password matches    *)
(* the hash kept of the last one Odoo accepted.                            *)
OfflineUser(r) ==
    /\ At(r, "login", "user") /\ ~req[r].online
    /\ \/ user.known /\ user.active /\ Goes(r, "device")
       \/ Ends(r)
    /\ Reads

Loadable(d) == devices[d].status = "active"

(* _upsert_device and _upsert_local_device: the active row that was        *)
(* created last, or none.  created_at is when the inserting transaction    *)
(* began, and rows are numbered here as they are committed: of two active  *)
(* rows either may be the one.                                             *)
LoginDevice(r) ==
    /\ At(r, "login", "device")
    /\ \/ \E d \in DOMAIN devices :
            /\ Loadable(d)
            /\ req' = [req EXCEPT ![r].step = "commit", ![r].device = d]
       \/ /\ \A d \in DOMAIN devices : ~Loadable(d)
          /\ Goes(r, "commit")
    /\ Reads

(* Mutant: the UPDATE writes every column, the status among them. *)
LoginRow_All(r, d) ==
    [status |-> "active", odoo |-> req[r].online \/ d.odoo]

(* What a login writes to the row it loaded: status was "active" already.  *)
LoginRow(r, d) == [d EXCEPT !.odoo = req[r].online \/ @]

(* Mutant: the new row's id does not reach the tokens. *)
LoginDeviceOf_Loaded(r) == req[r].device

(* The device row a login goes on with: the loaded one, or a new one.      *)
LoginDeviceOf(r) ==
    IF req[r].device = None THEN Len(devices) + 1 ELSE req[r].device

(* The first commit.  Two first logins insert the same user: users.login   *)
(* is unique, the later one fails.                                         *)
LoginCommit(r) ==
    /\ At(r, "login", "commit")
    /\ ~(req[r].new /\ user.known)
    /\ req[r].device = None => Len(devices) < MaxDevices
    /\ user' = IF req[r].change THEN [known |-> TRUE, active |-> req[r].active]
                                ELSE user
    /\ devices' = IF req[r].device = None
                  THEN Append(devices, [status |-> "active", odoo |-> req[r].online])
                  ELSE [devices EXCEPT ![req[r].device] = LoginRow(r, @)]
    /\ req' = [req EXCEPT ![r].step = "issue", ![r].device = LoginDeviceOf(r)]
    /\ UNCHANGED <<odooActive, tokens, left, spent>>

LoginConflict(r) ==
    /\ At(r, "login", "commit")
    /\ req[r].new /\ user.known
    /\ Ends(r) /\ Reads

(* _issue_tokens, and the answer. *)
IssueTokens(r) ==
    /\ req[r].step = "issue"
    /\ Len(tokens) < MaxTokens
    /\ tokens' = Append(tokens, [device |-> req[r].device, revoked |-> FALSE])
    /\ Ends(r)
    /\ UNCHANGED <<odooActive, user, devices, left, spent>>

-----------------------------------------------------------------------------
(* Refresh and logout begin with the refresh token's row.  A refresh with  *)
(* a token that is no longer live is refused; a logout with one does       *)
(* nothing, though its answer is the same as that of one that did.         *)

(* Mutant: the check goes by the expiry only. *)
Live_Unexpired(t) == TRUE

Live(t) == ~tokens[t].revoked

CheckToken(r) ==
    /\ req[r].step = "token"
    /\ \/ ~Live(req[r].token) /\ Ends(r)
       \/ req[r].kind = "refresh" /\ Ends(r)      \* it has expired
       \/ /\ Live(req[r].token)
          /\ Goes(r, IF req[r].kind = "refresh" THEN "user" ELSE "device")
    /\ Reads

(* A refresh or any other request loads the user ... *)
CheckUser(r) ==
    /\ req[r].kind \in {"refresh", "context"} /\ req[r].step = "user"
    /\ IF user.active THEN Goes(r, "device") ELSE Ends(r)
    /\ Reads

Accepts(d) == devices[d].status = "active"

(* ... and then the device. *)
CheckDevice(r) ==
    /\ req[r].kind \in {"refresh", "context"} /\ req[r].step = "device"
    /\ IF ~Accepts(req[r].device) THEN Ends(r)
       ELSE Goes(r, IF req[r].kind = "refresh" THEN "revoke" ELSE "answer")
    /\ Reads

(* Mutant: a refresh revokes all the tokens of its device. *)
Rotated_All(r) ==
    [t \in DOMAIN tokens |-> [tokens[t] EXCEPT
        !.revoked = @ \/ tokens[t].device = req[r].device]]

Rotated(r) == [tokens EXCEPT ![req[r].token].revoked = TRUE]

(* The used token is revoked in a commit of its own; the new one is issued *)
(* in another.                                                             *)
RefreshRevoke(r) ==
    /\ At(r, "refresh", "revoke")
    /\ tokens' = Rotated(r)
    /\ spent' = spent \cup {req[r].token}
    /\ Goes(r, "issue")
    /\ UNCHANGED <<odooActive, user, devices, left>>

(* The context a route works in, and the heartbeat's last_seen_at, which   *)
(* is the only column it writes.                                           *)
ContextAnswer(r) ==
    /\ At(r, "context", "answer")
    /\ Ends(r) /\ Reads

-----------------------------------------------------------------------------
(* Logout. *)

LogoutDevice(r) ==
    LET d == devices[req[r].device]
    IN  /\ At(r, "logout", "device")
        /\ req' = [req EXCEPT ![r].step = IF d.odoo THEN "odoo" ELSE "revoke",
                              ![r].held = d.odoo,
                              ![r].alive = d.status = "active"]
        /\ Reads

(* Odoo's own logout may fail: the local one goes on. *)
LogoutOdoo(r) ==
    /\ At(r, "logout", "odoo")
    /\ Goes(r, "revoke") /\ Reads

(* The UPDATE matches the rows committed by now ... *)
LogoutRevoke(r) ==
    /\ At(r, "logout", "revoke")
    /\ req' = [req EXCEPT ![r].step = "commit",
                          ![r].revoke = {t \in DOMAIN tokens :
                             \/ t = req[r].token
                             \/ tokens[t].device = req[r].device /\ Live(t)}]
    /\ Reads

(* Mutant: the device row is left alone: its tokens are revoked, after all. *)
LogoutRow_Kept(r, d) == d

(* What a logout writes to the device row it loaded.  An Odoo token that   *)
(* was not there when it loaded the row is not cleared.                    *)
LogoutRow(r, d) ==
    IF req[r].alive
    THEN [status |-> "logged_out", odoo |-> d.odoo /\ ~req[r].held]
    ELSE d

(* ... and they change, with the device's row, at the commit.              *)
LogoutCommit(r) ==
    /\ At(r, "logout", "commit")
    /\ tokens' = [t \in DOMAIN tokens |-> [tokens[t] EXCEPT
                    !.revoked = @ \/ t \in req[r].revoke]]
    /\ devices' = [devices EXCEPT ![req[r].device] = LogoutRow(r, @)]
    /\ left' = left \cup {req[r].device}
    /\ spent' = spent \cup {req[r].token}
    /\ Ends(r)
    /\ UNCHANGED <<odooActive, user>>

-----------------------------------------------------------------------------
(* Odoo's administrators deactivate the user, or activate it again. *)
OdooToggles ==
    /\ odooActive' = ~odooActive
    /\ UNCHANGED <<user, devices, tokens, req, left, spent>>

Login(r) ==
    \/ LogIn(r) \/ LoginOdoo(r) \/ LoginUser(r) \/ OfflineUser(r)
    \/ LoginDevice(r) \/ LoginCommit(r) \/ LoginConflict(r)

Check(r) ==
    \/ WithToken(r, "refresh") \/ WithAccess(r)
    \/ CheckToken(r) \/ CheckUser(r) \/ CheckDevice(r)
    \/ RefreshRevoke(r) \/ IssueTokens(r) \/ ContextAnswer(r)

Logout(r) ==
    \/ WithToken(r, "logout") \/ LogoutDevice(r) \/ LogoutOdoo(r)
    \/ LogoutRevoke(r) \/ LogoutCommit(r)

Next ==
    \/ OdooToggles
    \/ \E r \in Requests : Login(r) \/ Check(r) \/ Logout(r) \/ Aborts(r)

Spec == Init /\ [][Next]_vars

-----------------------------------------------------------------------------
(* Properties. *)

(* A device row that is logged out stays so: a login that loaded it while  *)
(* it was active and commits after the logout does not bring it back.      *)
LoggedOutIsFinal ==
    [][\A d \in DOMAIN devices : devices[d].status = "logged_out" =>
           d \in DOMAIN devices' /\ devices'[d].status = "logged_out"]_vars

Past(r) == req[r].step \in {"revoke", "issue", "answer"}

(* No request that begins after a logout was carried out is let through    *)
(* with that logout's device, not even with a token that was issued while  *)
(* the logout was between its UPDATE and its commit.                       *)
NothingAfterLogout ==
    \A r \in Requests :
        req[r].kind \in {"login", "refresh", "context"} /\ Past(r)
            => req[r].device \notin req[r].out

(* A refresh token that has been exchanged or logged out with opens        *)
(* nothing for a request that brings it again: no new tokens, no logout.   *)
ReuseRefused ==
    \A r \in Requests : req[r].stale => req[r].step = "token"

(* A refresh token is only ever revoked by its own exchange or by a logout *)
(* of its device.                                                          *)
RevokedForAReason ==
    \A t \in DOMAIN tokens : tokens[t].revoked =>
        t \in spent \/ tokens[t].device \in left

=============================================================================
