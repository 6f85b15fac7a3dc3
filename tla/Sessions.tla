------------------------------ MODULE Sessions ------------------------------
(***************************************************************************)
(* The sessions of one account: login, refresh-token rotation with replay  *)
(* detection, logout, device revocation and re-enrolment (auth.service.ts, *)
(* otp.service.ts), and the account's suspension and reactivation          *)
(* (account-restriction.service.ts), on the trusted_devices rows.          *)
(*                                                                         *)
(* A call is one HTTP request.  Session ids and token ids are random UUIDs, *)
(* so a token is named by the login or refresh that minted it, and a       *)
(* session by its login.                                                   *)
(*                                                                         *)
(* PostgreSQL runs each UPDATE at READ COMMITTED: it looks for rows in a   *)
(* snapshot taken when the statement starts, waits for the row's lock, and *)
(* compares the row's own columns again if the row has changed; what the   *)
(* WHERE clause says of the users table is not looked at again.  A         *)
(* statement that reads only its own row is one step.                      *)
(***************************************************************************)
CONSTANTS
    Devices,
    Logins, Refreshes, Logouts, Revocations, Enrolments,  \* calls of clients
    Suspensions, Reactivations,                           \* of administrators
    None

Minters == Logins \cup Refreshes
Kinds == <<Logins, Refreshes, Logouts, Revocations, Enrolments, Suspensions, Reactivations>>
Calls == Minters \cup Logouts \cup Revocations \cup Enrolments \cup Suspensions \cup Reactivations

ASSUME CallAssumption ==
    /\ None \notin Calls \cup Devices
    /\ \A i, j \in DOMAIN Kinds : i # j => Kinds[i] \cap Kinds[j] = {}

VARIABLES
    status,     \* committed users.status
    rows,       \* devices that have a row in trusted_devices
    authorized, \* trusted_devices.isAuthorized
    sid,        \* trusted_devices.refreshSessionId
    jti,        \* trusted_devices.currentRefreshJti
    issued,     \* tokens a client has received
    pc,         \* where each call stands
    device,     \* the device a call is about
    token,      \* the refresh token a call presents
    family,     \* the session of a minted token
    match,      \* whether an UPDATE found its row in its snapshot
    found,      \* the rows that a suspension's UPDATE found
    reply       \* how a call ended

account == <<status, rows, authorized, sid, jti>>
tokens == <<issued, family>>
memory == <<device, token, match, found>>
vars == <<account, tokens, memory, pc, reply>>

Steps == {"idle", "establish", "install", "rotate", "swap", "reread", "end", "enrol",
          "clear", "commit", "done"}
Replies == {"none", "tokens", "ok", "refused", "replay", "error"}

TypeOK ==
    /\ status \in {"ACTIVE", "SUSPENDED"}
    /\ rows \subseteq Devices
    /\ authorized \in [Devices -> BOOLEAN]
    /\ sid \in [Devices -> Logins \cup {None}]
    /\ jti \in [Devices -> Minters \cup {None}]
    /\ issued \subseteq Minters
    /\ pc \in [Calls -> Steps]
    /\ device \in [Calls -> Devices \cup {None}]
    /\ token \in [Calls -> Minters \cup {None}]
    /\ family \in [Minters -> Logins \cup {None}]
    /\ match \in [Calls -> BOOLEAN]
    /\ found \in [Suspensions -> SUBSET Devices]
    /\ reply \in [Calls -> Replies]

Init ==
    /\ status = "ACTIVE"
    /\ rows \in SUBSET Devices
    /\ authorized \in {a \in [Devices -> BOOLEAN] : \A d \in Devices \ rows : ~a[d]}
    /\ sid = [d \in Devices |-> None]
    /\ jti = [d \in Devices |-> None]
    /\ issued = {}
    /\ pc = [c \in Calls |-> "idle"]
    /\ device = [c \in Calls |-> None]
    /\ token = [c \in Calls |-> None]
    /\ family = [t \in Minters |-> None]
    /\ match = [c \in Calls |-> FALSE]
    /\ found = [s \in Suspensions |-> {}]
    /\ reply = [c \in Calls |-> "none"]

-----------------------------------------------------------------------------
(* Helpers. *)

Goto(c, step) == pc' = [pc EXCEPT ![c] = step]
Return(c, r) == Goto(c, "done") /\ reply' = [reply EXCEPT ![c] = r]

\* The call is about device d, and presents token t if it presents one.
Begins(c, step, d, t) ==
    /\ pc[c] = "idle"
    /\ Goto(c, step)
    /\ device' = [device EXCEPT ![c] = d]
    /\ token' = [token EXCEPT ![c] = t]
    /\ UNCHANGED <<match, found>>

\* A suspension holds the rows that its last statement found until it commits.
RowFree(d) == \A s \in Suspensions : pc[s] = "commit" => d \notin found[s]

\* Another suspension, and a reactivation, wait for the user's row.
UserFree == \A s \in Suspensions : pc[s] \notin {"clear", "commit"}

Session(c) == family[token[c]]

ClearRows(S) ==
    /\ sid' = [d \in Devices |-> IF d \in S THEN None ELSE sid[d]]
    /\ jti' = [d \in Devices |-> IF d \in S THEN None ELSE jti[d]]

\* The commit of a minted token; its acknowledgement may be lost.
Deliver(c) ==
    \/ Return(c, "tokens") /\ issued' = issued \cup {c}
    \/ Return(c, "error") /\ UNCHANGED issued

-----------------------------------------------------------------------------
(* Login, after the PIN was verified. *)

\* The user and its devices are read without a lock.
LoginRead(c, d) ==
    /\ status = "ACTIVE" /\ authorized[d]
    /\ Begins(c, "establish", d, None)
    /\ UNCHANGED <<account, tokens, reply>>

LoginRefused(c, d) ==
    /\ pc[c] = "idle"
    /\ ~(status = "ACTIVE" /\ authorized[d])
    /\ Return(c, "refused")
    /\ UNCHANGED <<account, tokens, memory>>

\* The UPDATE's snapshot.
LoginMatch(c) ==
    /\ pc[c] = "establish"
    /\ match' = [match EXCEPT ![c] = status = "ACTIVE" /\ authorized[device[c]]]
    /\ Goto(c, "install")
    /\ UNCHANGED <<account, tokens, device, token, found, reply>>

Install(c) ==
    /\ sid' = [sid EXCEPT ![device[c]] = c]
    /\ jti' = [jti EXCEPT ![device[c]] = c]
    /\ family' = [family EXCEPT ![c] = c]
    /\ Deliver(c)
    /\ UNCHANGED <<status, rows, authorized, memory>>

\* Faulty: isAuthorized is not in the WHERE clause.
InstallUnchecked(c) ==
    /\ pc[c] = "install"
    /\ match[c]
    /\ RowFree(device[c])
    /\ Install(c)

LoginInstall(c) ==
    /\ pc[c] = "install"
    /\ match[c]
    /\ RowFree(device[c])
    /\ authorized[device[c]]
    /\ Install(c)

LoginMissed(c) ==
    /\ pc[c] = "install"
    /\ ~match[c] \/ (RowFree(device[c]) /\ ~authorized[device[c]])
    /\ Return(c, "refused")
    /\ UNCHANGED <<account, tokens, memory>>

-----------------------------------------------------------------------------
(* Refresh. *)

RefreshRead(c, t) ==
    /\ t \in issued
    /\ status = "ACTIVE"
    /\ Begins(c, "rotate", device[t], t)
    /\ UNCHANGED <<account, tokens, reply>>

RefreshRefused(c) ==
    /\ pc[c] = "idle"
    /\ status # "ACTIVE"
    /\ Return(c, "refused")
    /\ UNCHANGED <<account, tokens, memory>>

\* The columns of the row itself: the token presented is the current one.
RowMatches(c) ==
    /\ authorized[device[c]]
    /\ sid[device[c]] = Session(c)
    /\ jti[device[c]] = token[c]

RefreshMatch(c) ==
    /\ pc[c] = "rotate"
    /\ match' = [match EXCEPT ![c] = status = "ACTIVE" /\ RowMatches(c)]
    /\ Goto(c, "swap")
    /\ UNCHANGED <<account, tokens, device, token, found, reply>>

Swap(c) ==
    /\ jti' = [jti EXCEPT ![device[c]] = c]
    /\ family' = [family EXCEPT ![c] = Session(c)]
    /\ Deliver(c)
    /\ UNCHANGED <<status, rows, authorized, memory>>

\* Faulty: what was read before the lock is trusted.
SwapUnchecked(c) ==
    /\ pc[c] = "swap"
    /\ match[c]
    /\ RowFree(device[c])
    /\ Swap(c)
    /\ UNCHANGED sid

\* Faulty: the row is saved whole, with the session it had when it was read.
SwapWhole(c) ==
    /\ pc[c] = "swap"
    /\ match[c]
    /\ RowFree(device[c])
    /\ Swap(c)
    /\ sid' = [sid EXCEPT ![device[c]] = Session(c)]

\* The compare-and-swap on currentRefreshJti.
RefreshSwap(c) ==
    /\ pc[c] = "swap"
    /\ match[c]
    /\ RowFree(device[c])
    /\ RowMatches(c)
    /\ Swap(c)
    /\ UNCHANGED sid

RefreshMissed(c) ==
    /\ pc[c] = "swap"
    /\ ~match[c] \/ (RowFree(device[c]) /\ ~RowMatches(c))
    /\ Goto(c, "reread")
    /\ UNCHANGED <<account, tokens, memory, reply>>

\* isReplayWithinCurrentSession: the session goes on with another token.
Superseded(c) ==
    /\ authorized[device[c]]
    /\ sid[device[c]] = Session(c)
    /\ jti[device[c]] \notin {None, token[c]}

ReplayFound(c) ==
    /\ pc[c] = "reread"
    /\ Superseded(c)
    /\ Goto(c, "end")
    /\ UNCHANGED <<account, tokens, memory, reply>>

NoReplay(c) ==
    /\ pc[c] = "reread"
    /\ ~Superseded(c)
    /\ Return(c, "refused")
    /\ UNCHANGED <<account, tokens, memory>>

\* Faulty: the update looks for the token that was presented.
EndPresented(c) ==
    /\ pc[c] = "end"
    /\ RowFree(device[c])
    /\ ClearRows({d \in {device[c]} : RowMatches(c)})
    /\ Return(c, "replay")
    /\ UNCHANGED <<status, rows, authorized, tokens, memory>>

\* The verdict came from an earlier read; the update tests it again.  A client
\* cannot tell this refusal ("replay") from another.
EndSession(c) ==
    /\ pc[c] = "end"
    /\ RowFree(device[c])
    /\ ClearRows({d \in {device[c]} : Superseded(c)})
    /\ Return(c, "replay")
    /\ UNCHANGED <<status, rows, authorized, tokens, memory>>

-----------------------------------------------------------------------------
(* Logout, revocation, enrolment. *)

\* Faulty: an old cookie of the session does not end it.
LogoutToken(c, t) ==
    /\ t \in issued
    /\ RowFree(device[t])
    /\ pc[c] = "idle"
    /\ token' = [token EXCEPT ![c] = t]
    /\ ClearRows({d \in {device[t]} : sid[d] = family[t] /\ jti[d] = t})
    /\ Return(c, "ok")
    /\ UNCHANGED <<status, rows, authorized, tokens, device, match, found>>

\* The session of the token is ended, whichever of its tokens is presented.
Logout(c, t) ==
    /\ t \in issued
    /\ RowFree(device[t])
    /\ pc[c] = "idle"
    /\ token' = [token EXCEPT ![c] = t]
    /\ ClearRows({d \in {device[t]} : sid[d] = family[t]})
    /\ Return(c, "ok")
    /\ UNCHANGED <<status, rows, authorized, tokens, device, match, found>>

Revoke(c, d) ==
    /\ pc[c] = "idle"
    /\ d \in rows
    /\ RowFree(d)
    /\ authorized' = [authorized EXCEPT ![d] = FALSE]
    /\ ClearRows({d})
    /\ Return(c, "ok")
    /\ UNCHANGED <<status, rows, tokens, memory>>

\* After the one-time password was verified: the account must be ACTIVE ...
EnrolRead(c, d) ==
    /\ status = "ACTIVE"
    /\ Begins(c, "enrol", d, None)
    /\ UNCHANGED <<account, tokens, reply>>

EnrolRefused(c) ==
    /\ pc[c] = "idle"
    /\ status # "ACTIVE"
    /\ Return(c, "refused")
    /\ UNCHANGED <<account, tokens, memory>>

\* ... and the device's row is created, or authorized anew, without a session.
Enrol(c) ==
    /\ pc[c] = "enrol"
    /\ RowFree(device[c])
    /\ rows' = rows \cup {device[c]}
    /\ authorized' = [authorized EXCEPT ![device[c]] = TRUE]
    /\ ClearRows({device[c]})
    /\ Return(c, "ok")
    /\ UNCHANGED <<status, tokens, memory>>

-----------------------------------------------------------------------------
(* Suspension and reactivation. *)

\* The wallet's and the user's rows are written and held.
Suspend(c) ==
    /\ UserFree
    /\ pc[c] = "idle"
    /\ Goto(c, "clear")
    /\ UNCHANGED <<account, tokens, memory, reply>>

\* The last statement of the transaction clears and locks the device rows there
\* are; the change is visible when the transaction commits.
ClearSessions(c) ==
    /\ pc[c] = "clear"
    /\ found' = [found EXCEPT ![c] = rows]
    /\ Goto(c, "commit")
    /\ UNCHANGED <<account, tokens, device, token, match, reply>>

\* Faulty: the sessions are not cleared.
CommitStatusOnly(c) ==
    /\ pc[c] = "commit"
    /\ status' = "SUSPENDED"
    /\ Return(c, "ok")
    /\ UNCHANGED <<rows, authorized, sid, jti, tokens, memory>>

CommitSuspend(c) ==
    /\ pc[c] = "commit"
    /\ status' = "SUSPENDED"
    /\ ClearRows(found[c])
    /\ Return(c, "ok")
    /\ UNCHANGED <<rows, authorized, tokens, memory>>

Reactivate(c) ==
    /\ pc[c] = "idle"
    /\ UserFree
    /\ status = "SUSPENDED"
    /\ status' = "ACTIVE"
    /\ Return(c, "ok")
    /\ UNCHANGED <<rows, authorized, sid, jti, tokens, memory>>

\* A statement fails before it changed anything; a transaction rolls back.
Fail(c) ==
    /\ pc[c] \notin {"idle", "done"}
    /\ Return(c, "error")
    /\ UNCHANGED <<account, tokens, memory>>

-----------------------------------------------------------------------------
(* The specification. *)

LoginStep(c) ==
    \/ \E d \in Devices : LoginRead(c, d) \/ LoginRefused(c, d)
    \/ LoginMatch(c) \/ LoginInstall(c) \/ LoginMissed(c)

RefreshStep(c) ==
    \/ \E t \in Minters : RefreshRead(c, t)
    \/ RefreshRefused(c)
    \/ RefreshMatch(c) \/ RefreshSwap(c) \/ RefreshMissed(c)
    \/ ReplayFound(c) \/ NoReplay(c) \/ EndSession(c)

EnrolStep(c) ==
    \/ \E d \in Devices : EnrolRead(c, d)
    \/ EnrolRefused(c) \/ Enrol(c)

SuspendStep(c) == Suspend(c) \/ ClearSessions(c) \/ CommitSuspend(c)

Next ==
    \/ \E c \in Logins : LoginStep(c)
    \/ \E c \in Refreshes : RefreshStep(c)
    \/ \E c \in Logouts, t \in Minters : Logout(c, t)
    \/ \E c \in Revocations, d \in Devices : Revoke(c, d)
    \/ \E c \in Enrolments : EnrolStep(c)
    \/ \E c \in Suspensions : SuspendStep(c)
    \/ \E c \in Reactivations : Reactivate(c)
    \/ \E c \in Calls : Fail(c)

Spec == Init /\ [][Next]_vars

-----------------------------------------------------------------------------
(* Properties. *)

Minted == {t \in Minters : family[t] # None}

\* However refreshes race, a token is exchanged by one of them at most, also
\* when the winner's answer is lost.
TokenSpentOnce ==
    \A r, q \in Refreshes \cap Minted : token[r] = token[q] => r = q

\* A refresh that found its token superseded has ended the session, and the
\* session stays ended.
ReplayEndsSession ==
    \A r \in Refreshes : reply[r] = "replay" => sid[device[r]] # Session(r)

\* A revoked device holds no session that could be renewed, whatever logins
\* and refreshes were under way.
RevokedHoldsNoSession ==
    \A d \in Devices : ~authorized[d] => sid[d] = None /\ jti[d] = None

\* After a logout nothing renews the session, not even a refresh that was
\* waiting for its row.
LogoutIsFinal ==
    \A c \in Logouts : reply[c] = "ok" => sid[device[token[c]]] # Session(c)

Live(l) == \E d \in Devices : sid[d] = l

\* A session that has ended never lives again: not by a delayed write, and not
\* by a reactivation of the account.
EndedForGood ==
    \A l \in Logins \cap Minted : ~Live(l) => ~Live(l)'
EndedStaysEnded == [][EndedForGood]_vars

\* No token is exchanged while the account is not ACTIVE, although the update
\* looks at the account only in its snapshot: the suspension clears the token
\* in the same transaction.  It overlooks a device enrolled behind its back.
Overlooked(d) == \E s \in Suspensions : reply[s] = "ok" /\ d \notin found[s]
ExchangedWhileActive ==
    \A r \in Refreshes :
        family[r] = None /\ family'[r] # None => status = "ACTIVE" \/ Overlooked(device[r])
NoExchangeWhileRestricted == [][ExchangedWhileActive]_vars

\* The rows hold what a single-use token service holds.
Store == INSTANCE SingleUseTokens WITH
             Tokens <- Minters, live <- jti, minted <- Minted,
             spent <- {token[r] : r \in Refreshes \cap Minted}
ImplementsSingleUse == Store!Spec

\* A session is established only while the account's state permits login.
EstablishedWhileActive ==
    \A l \in Logins : family[l] = None /\ family'[l] # None => status = "ACTIVE"
NoSessionWhileRestricted == [][EstablishedWhileActive]_vars

-----------------------------------------------------------------------------
(* The inductive invariant. *)

\* A row holds a token of its session and device, or nothing.
RowsHoldTokens ==
    \A d \in Devices :
        /\ sid[d] = None <=> jti[d] = None
        /\ jti[d] # None =>
              jti[d] \in Minted /\ device[jti[d]] = d /\ family[jti[d]] = sid[d]

\* A minted token belongs to a minted session, and the call that minted it is
\* over.
TokensAreRooted ==
    /\ issued \subseteq Minted
    /\ \A t \in Minted : pc[t] = "done" /\ device[t] \in Devices /\ family[t] \in Minted

\* A call knows its device, and a token presented was minted for that device.
Presenting(r) ==
    pc[r] \in {"rotate", "swap", "reread", "end"} \/ reply[r] = "replay" \/ r \in Minted
CallsAreInformed ==
    /\ \A c \in Logins \cup Refreshes \cup Enrolments :
          pc[c] \notin {"idle", "done"} => device[c] \in Devices
    /\ \A r \in Refreshes :
          Presenting(r) => token[r] \in Minted /\ device[r] = device[token[r]]
    /\ \A c \in Logouts : reply[c] = "ok" => token[c] \in Minted
    /\ \A c \in Calls : pc[c] # "done" => reply[c] = "none"

\* A token that was exchanged, or was found superseded, is on no row.
SpentIsGone ==
    \A r \in Refreshes :
        r \in Minted \/ pc[r] = "end" => \A d \in Devices : jti[d] # token[r]

\* A refresh that may still swap was overtaken by no suspension.
SwapsAreTimely ==
    \A r \in Refreshes :
        pc[r] = "swap" /\ match[r] /\ jti[device[r]] = token[r] =>
            status = "ACTIVE" \/ Overlooked(device[r])

IInv ==
    /\ TypeOK
    /\ RowsHoldTokens
    /\ TokensAreRooted
    /\ CallsAreInformed
    /\ SpentIsGone
    /\ SwapsAreTimely
    /\ TokenSpentOnce
    /\ ReplayEndsSession
    /\ RevokedHoldsNoSession
    /\ LogoutIsFinal
=============================================================================
