--------------------------- MODULE SessionsProofs ---------------------------
(***************************************************************************)
(* For any devices and calls: a refresh token is spent once, a revoked     *)
(* device holds no session, what has ended stays ended, and the rows       *)
(* implement SingleUseTokens.                                              *)
(*                                                                         *)
(* A step is one call's own.  Towards the rows it does one of four things: *)
(* nothing, a login's installation, a refresh's swap, or the end of the    *)
(* sessions of some devices.  Each part of IInv is kept by each of them.   *)
(***************************************************************************)
EXTENDS Sessions, TLAPS

\* The calls of two kinds are different calls.
LEMMA KindsAreDisjoint ==
    /\ None \notin Calls /\ None \notin Devices
    /\ Logins \cap Refreshes = {}
    /\ Minters \cap (Logouts \cup Revocations \cup Enrolments) = {}
    /\ Minters \cap (Suspensions \cup Reactivations) = {}
    /\ Logouts \cap (Revocations \cup Enrolments \cup Suspensions \cup Reactivations) = {}
    /\ Suspensions \cap (Revocations \cup Enrolments \cup Reactivations) = {}
<1>1. DOMAIN Kinds = {1, 2, 3, 4, 5, 6, 7}
  BY DEF Kinds
<1>2. /\ Kinds[1] = Logins /\ Kinds[2] = Refreshes /\ Kinds[3] = Logouts
      /\ Kinds[4] = Revocations /\ Kinds[5] = Enrolments /\ Kinds[6] = Suspensions
      /\ Kinds[7] = Reactivations
  BY DEF Kinds
<1>3. QED
  BY <1>1, <1>2, CallAssumption DEF Minters

LEMMA InitInvariant == Init => IInv
BY KindsAreDisjoint
   DEF Init, IInv, TypeOK, RowsHoldTokens, TokensAreRooted, CallsAreInformed, Presenting,
       SpentIsGone, SwapsAreTimely, TokenSpentOnce, ReplayEndsSession,
       RevokedHoldsNoSession, LogoutIsFinal, Minted, Minters, Calls, Steps, Replies

-----------------------------------------------------------------------------
(* Types. *)

LEMMA LoginType ==
    ASSUME IInv, NEW c \in Logins, LoginStep(c)
    PROVE  TypeOK'
<1>0. /\ TypeOK /\ c \in Calls /\ c \in Minters
      /\ pc[c] \notin {"idle", "done"} => device[c] \in Devices
  BY DEF IInv, CallsAreInformed, Calls, Minters
<1>1. ASSUME NEW d \in Devices, LoginRead(c, d) \/ LoginRefused(c, d) PROVE TypeOK'
  BY <1>0, <1>1 DEF LoginRead, LoginRefused, Begins, Return, Goto, account, tokens, memory,
     TypeOK, Steps, Replies
<1>2. CASE LoginMatch(c) \/ LoginMissed(c)
  BY <1>0, <1>2 DEF LoginMatch, LoginMissed, Return, Goto, account, tokens, memory,
     TypeOK, Steps, Replies
<1>3. CASE LoginInstall(c)
  BY <1>0, <1>3 DEF LoginInstall, Install, Deliver, Return, Goto, memory, TypeOK, Steps,
     Replies
<1>4. QED
  BY <1>1, <1>2, <1>3 DEF LoginStep

LEMMA RefreshType ==
    ASSUME IInv, NEW c \in Refreshes, RefreshStep(c)
    PROVE  TypeOK'
<1>0. /\ TypeOK /\ c \in Calls /\ c \in Minters
      /\ pc[c] \notin {"idle", "done"} => device[c] \in Devices
      /\ Presenting(c) => token[c] \in Minters
      /\ \A t \in issued : t \in Minters /\ t \in Calls /\ device[t] \in Devices
  BY DEF IInv, CallsAreInformed, TokensAreRooted, Calls, Minters, Minted
<1>1. ASSUME NEW t \in Minters, RefreshRead(c, t) PROVE TypeOK'
  BY <1>0, <1>1 DEF RefreshRead, Begins, Goto, account, tokens, TypeOK, Steps
<1>2. CASE RefreshRefused(c) \/ RefreshMatch(c) \/ RefreshMissed(c)
  BY <1>0, <1>2 DEF RefreshRefused, RefreshMatch, RefreshMissed, RowMatches, Session,
     Return, Goto, account, tokens, memory, TypeOK, Steps, Replies
<1>3. CASE RefreshSwap(c)
  BY <1>0, <1>3 DEF RefreshSwap, Swap, Deliver, Session, Presenting, Return, Goto, memory,
     TypeOK, Steps, Replies
<1>4. CASE ReplayFound(c) \/ NoReplay(c)
  BY <1>0, <1>4 DEF ReplayFound, NoReplay, Return, Goto, account, tokens, memory, TypeOK,
     Steps, Replies
<1>5. CASE EndSession(c)
  BY <1>0, <1>5 DEF EndSession, ClearRows, Return, Goto, tokens, memory, TypeOK, Steps,
     Replies
<1>6. QED
  BY <1>1, <1>2, <1>3, <1>4, <1>5 DEF RefreshStep

LEMMA DeviceType ==
    /\ \A c \in Logouts, t \in Minters : TypeOK /\ Logout(c, t) => TypeOK'
    /\ \A c \in Revocations, d \in Devices : TypeOK /\ Revoke(c, d) => TypeOK'
    /\ \A c \in Enrolments : IInv /\ EnrolStep(c) => TypeOK'
<1>1. \A c \in Logouts, t \in Minters : TypeOK /\ Logout(c, t) => TypeOK'
  BY DEF Logout, ClearRows, Return, Goto, tokens, TypeOK, Steps, Replies, Calls
<1>2. \A c \in Revocations, d \in Devices : TypeOK /\ Revoke(c, d) => TypeOK'
  BY DEF Revoke, ClearRows, Return, Goto, tokens, memory, TypeOK, Steps, Replies, Calls
<1>3. ASSUME NEW c \in Enrolments, IInv, EnrolStep(c) PROVE TypeOK'
  <2>0. /\ TypeOK /\ c \in Calls
        /\ pc[c] = "enrol" => device[c] \in Devices
    BY <1>3 DEF IInv, CallsAreInformed, Calls
  <2>1. ASSUME NEW d \in Devices, EnrolRead(c, d) PROVE TypeOK'
    BY <2>0, <2>1 DEF EnrolRead, Begins, Goto, account, tokens, TypeOK, Steps
  <2>2. CASE EnrolRefused(c)
    BY <2>0, <2>2 DEF EnrolRefused, Return, Goto, account, tokens, memory, TypeOK, Steps,
       Replies
  <2>3. CASE Enrol(c)
    BY <2>0, <2>3 DEF Enrol, ClearRows, Return, Goto, tokens, memory, TypeOK, Steps, Replies
  <2>4. QED
    BY <1>3, <2>1, <2>2, <2>3 DEF EnrolStep
<1>4. QED
  BY <1>1, <1>2, <1>3

LEMMA RestrictionType ==
    /\ \A c \in Suspensions : TypeOK /\ SuspendStep(c) => TypeOK'
    /\ \A c \in Reactivations : TypeOK /\ Reactivate(c) => TypeOK'
    /\ \A c \in Calls : TypeOK /\ Fail(c) => TypeOK'
<1>1. ASSUME NEW c \in Suspensions, TypeOK, SuspendStep(c) PROVE TypeOK'
  <2>1. CASE Suspend(c) \/ ClearSessions(c)
    BY <1>1, <2>1 DEF Suspend, ClearSessions, Goto, account, tokens, memory, TypeOK, Steps,
       Calls
  <2>2. CASE CommitSuspend(c)
    BY <1>1, <2>2 DEF CommitSuspend, ClearRows, Return, Goto, tokens, memory, TypeOK, Steps,
       Replies, Calls
  <2>3. QED
    BY <1>1, <2>1, <2>2 DEF SuspendStep
<1>2. \A c \in Reactivations : TypeOK /\ Reactivate(c) => TypeOK'
  BY DEF Reactivate, Return, Goto, tokens, memory, TypeOK, Steps, Replies, Calls
<1>3. \A c \in Calls : TypeOK /\ Fail(c) => TypeOK'
  BY DEF Fail, Return, Goto, account, tokens, memory, TypeOK, Steps, Replies
<1>4. QED
  BY <1>1, <1>2, <1>3

LEMMA NextType == IInv /\ [Next]_vars => TypeOK'
<1>1. CASE IInv /\ UNCHANGED vars
  BY <1>1 DEF vars, account, tokens, memory, IInv, TypeOK
<1>2. QED
  BY <1>1, LoginType, RefreshType, DeviceType, RestrictionType DEF Next, IInv

-----------------------------------------------------------------------------
(* What a step can do. *)

\* A call that is not over moves; it keeps its device and token once it has
\* them, and replies when it is over.
OwnStep(c) ==
    /\ pc[c] # "done"
    /\ \A b \in Calls \ {c} :
          /\ pc'[b] = pc[b] /\ reply'[b] = reply[b] /\ match'[b] = match[b]
          /\ device'[b] = device[b] /\ token'[b] = token[b]
    /\ pc[c] # "idle" => device'[c] = device[c] /\ token'[c] = token[c]
    /\ pc'[c] # "done" => reply'[c] = reply[c]
    /\ \A d \in Devices : Overlooked(d) => Overlooked(d)'

KeepsRows ==
    /\ UNCHANGED <<sid, jti, authorized, family, issued>>
    /\ status = "ACTIVE" => status' = "ACTIVE"

Ends(S) ==
    /\ ClearRows(S)
    /\ UNCHANGED <<family, issued>>
    /\ \A d \in Devices \ S : authorized'[d] = authorized[d]
    /\ status = "ACTIVE" => status' = "ACTIVE" \/ \A d \in Devices \ S : Overlooked(d)'

Effect(c) ==
    \/ KeepsRows
    \/ \E S \in SUBSET Devices : Ends(S)
    \/ c \in Logins /\ LoginInstall(c)
    \/ c \in Refreshes /\ RefreshSwap(c)

\* Nothing but a suspension changes what is overlooked.
LEMMA OverlookedStays ==
    ASSUME TypeOK, NEW c \in Calls, c \notin Suspensions, UNCHANGED found,
           \A b \in Calls \ {c} : reply'[b] = reply[b]
    PROVE  \A d \in Devices : Overlooked(d) => Overlooked(d)'
BY DEF Overlooked, Calls

LEMMA LoginEffect ==
    ASSUME IInv, NEW c \in Logins, LoginStep(c)
    PROVE  OwnStep(c) /\ Effect(c)
<1>0. TypeOK /\ c \in Calls /\ c \notin Suspensions
  BY KindsAreDisjoint DEF IInv, Calls, Minters
<1>1. ASSUME NEW d \in Devices, LoginRead(c, d) \/ LoginRefused(c, d)
      PROVE  OwnStep(c) /\ KeepsRows
  BY <1>0, <1>1, OverlookedStays DEF LoginRead, LoginRefused, Begins, Return, Goto, account,
     tokens, memory, TypeOK, OwnStep, KeepsRows
<1>2. ASSUME LoginMatch(c) \/ LoginMissed(c)
      PROVE  OwnStep(c) /\ KeepsRows
  BY <1>0, <1>2, OverlookedStays DEF LoginMatch, LoginMissed, Return, Goto, account, tokens,
     memory, TypeOK, OwnStep, KeepsRows
<1>3. ASSUME LoginInstall(c)
      PROVE  OwnStep(c)
  BY <1>0, <1>3, OverlookedStays DEF LoginInstall, Install, Deliver, Return, Goto, memory,
     TypeOK, OwnStep
<1>4. QED
  BY <1>1, <1>2, <1>3 DEF LoginStep, Effect

LEMMA RefreshEffect ==
    ASSUME IInv, NEW c \in Refreshes, RefreshStep(c)
    PROVE  OwnStep(c) /\ Effect(c)
<1>0. TypeOK /\ c \in Calls /\ c \notin Suspensions
  BY KindsAreDisjoint DEF IInv, Calls, Minters
<1>1. ASSUME NEW t \in Minters, RefreshRead(c, t)
      PROVE  OwnStep(c) /\ KeepsRows
  BY <1>0, <1>1, OverlookedStays DEF RefreshRead, Begins, Goto, account, tokens, memory, TypeOK, OwnStep, KeepsRows
<1>2. ASSUME RefreshRefused(c) \/ RefreshMatch(c) \/ RefreshMissed(c)
      PROVE  OwnStep(c) /\ KeepsRows
  BY <1>0, <1>2, OverlookedStays DEF RefreshRefused, RefreshMatch, RefreshMissed, Return,
     Goto, account, tokens, memory, TypeOK, OwnStep, KeepsRows
<1>3. ASSUME RefreshSwap(c)
      PROVE  OwnStep(c)
  BY <1>0, <1>3, OverlookedStays DEF RefreshSwap, Swap, Deliver, Return, Goto, memory,
     TypeOK, OwnStep
<1>4. ASSUME ReplayFound(c) \/ NoReplay(c)
      PROVE  OwnStep(c) /\ KeepsRows
  BY <1>0, <1>4, OverlookedStays DEF ReplayFound, NoReplay, Return, Goto, account, tokens,
     memory, TypeOK, OwnStep, KeepsRows
<1>5. ASSUME EndSession(c)
      PROVE  OwnStep(c) /\ \E S \in SUBSET Devices : Ends(S)
  <2>1. OwnStep(c)
    BY <1>0, <1>5, OverlookedStays DEF EndSession, Return, Goto, tokens, memory, TypeOK,
       OwnStep
  <2>2. pc[c] = "end" /\ device[c] \in Devices
    BY <1>0, <1>5 DEF EndSession, IInv, CallsAreInformed
  <2>3. Ends({d \in {device[c]} : Superseded(c)})
    BY <1>5 DEF EndSession, tokens, Ends
  <2>4. QED
    BY <2>1, <2>2, <2>3
<1>6. QED
  BY <1>1, <1>2, <1>3, <1>4, <1>5 DEF RefreshStep, Effect

LEMMA LogoutEffect ==
    ASSUME IInv, NEW c \in Logouts, NEW t \in Minters, Logout(c, t)
    PROVE  OwnStep(c) /\ Effect(c)
<1>0. TypeOK /\ c \in Calls /\ c \notin Suspensions /\ device[t] \in Devices
  BY KindsAreDisjoint DEF IInv, TokensAreRooted, Logout, Calls
<1>1. OwnStep(c)
  BY <1>0, OverlookedStays DEF Logout, Return, Goto, TypeOK, OwnStep
<1>2. Ends({d \in {device[t]} : sid[d] = family[t]})
  BY DEF Logout, tokens, Ends
<1>3. QED
  BY <1>0, <1>1, <1>2 DEF Effect

LEMMA RevokeEffect ==
    ASSUME IInv, NEW c \in Revocations, NEW d \in Devices, Revoke(c, d)
    PROVE  OwnStep(c) /\ Effect(c)
<1>0. TypeOK /\ c \in Calls /\ c \notin Suspensions
  BY KindsAreDisjoint DEF IInv, Calls
<1>1. OwnStep(c)
  BY <1>0, OverlookedStays DEF Revoke, Return, Goto, memory, TypeOK, OwnStep
<1>2. Ends({d})
  BY <1>0 DEF Revoke, tokens, Ends, TypeOK
<1>3. QED
  BY <1>1, <1>2 DEF Effect

LEMMA EnrolEffect ==
    ASSUME IInv, NEW c \in Enrolments, EnrolStep(c)
    PROVE  OwnStep(c) /\ Effect(c)
<1>0. TypeOK /\ c \in Calls /\ c \notin Suspensions
  BY KindsAreDisjoint DEF IInv, Calls
<1>1. ASSUME NEW d \in Devices, EnrolRead(c, d)
      PROVE  OwnStep(c) /\ KeepsRows
  BY <1>0, <1>1, OverlookedStays DEF EnrolRead, Begins, Goto, account,
     tokens, memory, TypeOK, OwnStep, KeepsRows
<1>2. ASSUME EnrolRefused(c)
      PROVE  OwnStep(c) /\ KeepsRows
  BY <1>0, <1>2, OverlookedStays DEF EnrolRefused, Return, Goto, account,
     tokens, memory, TypeOK, OwnStep, KeepsRows
<1>3. ASSUME Enrol(c)
      PROVE  OwnStep(c) /\ Ends({device[c]}) /\ device[c] \in Devices
  <2>1. OwnStep(c)
    BY <1>0, <1>3, OverlookedStays DEF Enrol, Return, Goto, memory, TypeOK, OwnStep
  <2>2. device[c] \in Devices
    BY <1>3 DEF Enrol, IInv, CallsAreInformed
  <2>3. Ends({device[c]})
    BY <1>0, <1>3 DEF Enrol, tokens, Ends, TypeOK
  <2>4. QED
    BY <2>1, <2>2, <2>3
<1>4. QED
  BY <1>1, <1>2, <1>3 DEF EnrolStep, Effect

\* Until it is over a suspension has not replied, so it overlooks nothing yet.
LEMMA SuspendEffect ==
    ASSUME IInv, NEW c \in Suspensions, SuspendStep(c)
    PROVE  OwnStep(c) /\ Effect(c)
<1>0. /\ TypeOK /\ c \in Calls
      /\ \A s \in Suspensions : s \in Calls
      /\ pc[c] # "done" => reply[c] = "none"
  BY DEF IInv, CallsAreInformed, Calls
<1>1. ASSUME Suspend(c) \/ ClearSessions(c)
      PROVE  OwnStep(c) /\ KeepsRows
  BY <1>0, <1>1 DEF Suspend, ClearSessions, Goto, account, tokens, memory, TypeOK, OwnStep,
     KeepsRows, Overlooked
<1>2. ASSUME CommitSuspend(c)
      PROVE  OwnStep(c) /\ Ends(found[c])
  <2>1. OwnStep(c)
    BY <1>0, <1>2 DEF CommitSuspend, Return, Goto, tokens, memory, TypeOK, OwnStep, Overlooked
  <2>2. \A d \in Devices \ found[c] : Overlooked(d)'
    BY <1>0, <1>2 DEF CommitSuspend, Return, memory, TypeOK, Overlooked
  <2>3. QED
    BY <1>2, <2>1, <2>2 DEF CommitSuspend, tokens, Ends
<1>3. QED
  BY <1>0, <1>1, <1>2 DEF SuspendStep, Effect, TypeOK

LEMMA OtherEffect ==
    /\ \A c \in Reactivations : IInv /\ Reactivate(c) => OwnStep(c) /\ Effect(c)
    /\ \A c \in Calls : IInv /\ Fail(c) => OwnStep(c) /\ Effect(c)
<1>1. ASSUME NEW c \in Reactivations, IInv, Reactivate(c)
      PROVE  OwnStep(c) /\ KeepsRows
  BY <1>1, OverlookedStays, KindsAreDisjoint DEF Reactivate, Return, Goto,
     tokens, memory, IInv, TypeOK, Calls, OwnStep, KeepsRows
<1>2. ASSUME NEW c \in Calls, IInv, Fail(c)
      PROVE  OwnStep(c) /\ KeepsRows
  BY <1>2 DEF Fail, Return, Goto, account, tokens, memory, IInv, TypeOK, CallsAreInformed,
     Calls, OwnStep, KeepsRows, Overlooked
<1>3. QED
  BY <1>1, <1>2 DEF Effect

-----------------------------------------------------------------------------
(* The two statements that mint a token. *)

\* Call c mints a token of session s for its device, whose row is authorized.
Mints(c, s) ==
    /\ c \in Minters \ Minted /\ s \in Logins
    /\ pc[c] # "done" /\ pc'[c] = "done"
    /\ device[c] \in Devices /\ authorized[device[c]]
    /\ jti' = [jti EXCEPT ![device[c]] = c]
    /\ sid' = [sid EXCEPT ![device[c]] = s]
    /\ family' = [family EXCEPT ![c] = s]
    /\ Minted' = Minted \cup {c}
    /\ issued \subseteq issued' /\ issued' \subseteq issued \cup {c}
    /\ reply'[c] \notin {"ok", "replay"}
    /\ \A b \in Calls : pc'[b] # "done" => reply'[b] = reply[b]
    /\ UNCHANGED <<status, rows, authorized, device, token, match, found>>

LEMMA InstallMints ==
    ASSUME IInv, NEW c \in Logins, LoginInstall(c)
    PROVE  Mints(c, c)
<1>1. /\ TypeOK /\ c \in Calls /\ c \in Minters /\ None \notin Minters
      /\ pc[c] = "install" /\ device[c] \in Devices
  BY KindsAreDisjoint DEF IInv, CallsAreInformed, LoginInstall, Calls, Minters
<1>2. c \notin Minted
  BY <1>1 DEF IInv, TokensAreRooted
<1>3. Minted' = Minted \cup {c}
  BY <1>1 DEF LoginInstall, Install, Minted, TypeOK
<1>4. QED
  BY <1>1, <1>2, <1>3
     DEF LoginInstall, Install, Deliver, Return, Goto, memory, Mints, TypeOK

LEMMA SwapMints ==
    ASSUME IInv, NEW c \in Refreshes, RefreshSwap(c)
    PROVE  /\ Mints(c, family[token[c]])
           /\ token[c] \in Minted
           /\ jti[device[c]] = token[c] /\ sid' = sid
           /\ pc[c] = "swap" /\ match[c]
<1>1. /\ TypeOK /\ c \in Calls /\ c \in Minters /\ None \notin Minters
      /\ pc[c] = "swap" /\ device[c] \in Devices /\ token[c] \in Minted
  BY KindsAreDisjoint DEF IInv, CallsAreInformed, Presenting, RefreshSwap, Calls, Minters
<1>2. /\ jti[device[c]] = token[c] /\ sid[device[c]] = family[token[c]]
      /\ authorized[device[c]] /\ match[c] /\ sid' = sid
  BY DEF RefreshSwap, RowMatches, Session
<1>3. c \notin Minted
  BY <1>1 DEF IInv, TokensAreRooted
<1>4. family[token[c]] \in Logins
  BY <1>1 DEF TypeOK, Minted
<1>5. sid' = [sid EXCEPT ![device[c]] = family[token[c]]]
  BY <1>1, <1>2 DEF TypeOK
<1>6. family' = [family EXCEPT ![c] = family[token[c]]]
  BY DEF RefreshSwap, Swap, Session
<1>7. Minted' = Minted \cup {c}
  BY <1>1, <1>4, <1>6, KindsAreDisjoint DEF Minted, Minters, Calls, TypeOK
<1>8. Mints(c, family[token[c]])
  BY <1>1, <1>2, <1>3, <1>4, <1>5, <1>6, <1>7
     DEF RefreshSwap, Swap, Deliver, Return, Goto, memory, Mints, TypeOK
<1>9. QED
  BY <1>1, <1>2, <1>8

\* A token that was minted keeps its family, its device and its call's end.
LEMMA MintedIsStable ==
    ASSUME IInv, TypeOK', NEW c \in Calls, OwnStep(c), Effect(c)
    PROVE  /\ c \notin Minted
           /\ \A t \in Minted :
                 /\ t \in Minted' /\ family'[t] = family[t]
                 /\ device'[t] = device[t] /\ pc'[t] = "done"
           /\ KeepsRows \/ (\E S \in SUBSET Devices : Ends(S)) => Minted' = Minted
<1>0. TypeOK /\ Minted \subseteq Calls /\ \A t \in Minted : pc[t] = "done"
  BY DEF IInv, TokensAreRooted, Minted, Minters, Calls
<1>1. c \notin Minted /\ \A t \in Minted : device'[t] = device[t] /\ pc'[t] = "done"
  BY <1>0 DEF OwnStep
<1>2. KeepsRows \/ (\E S \in SUBSET Devices : Ends(S)) => Minted' = Minted /\ family' = family
  BY DEF KeepsRows, Ends, Minted
<1>3. \A s : Mints(c, s) => \A t \in Minted : t \in Minted' /\ family'[t] = family[t]
  BY <1>0, <1>1 DEF Mints, TypeOK
<1>4. QED
  BY <1>1, <1>2, <1>3, InstallMints, SwapMints DEF Effect

-----------------------------------------------------------------------------
(* What a call knows after its own step. *)

RefreshOutcome(c) ==
    /\ pc'[c] \notin {"idle", "done"} => device'[c] \in Devices
    /\ Presenting(c)' => token'[c] \in Minted /\ device'[c] = device[token'[c]]
    /\ pc'[c] = "end" => KeepsRows /\ \A d \in Devices : jti[d] # token'[c]
    /\ pc'[c] = "swap" /\ match'[c] => status' = "ACTIVE"
    /\ reply'[c] = "replay" => sid'[device'[c]] # family[token'[c]]

LogoutOutcome(c) ==
    reply'[c] = "ok" =>
        token'[c] \in Minted /\ sid'[device[token'[c]]] # family[token'[c]]

Outcome(c) ==
    /\ c \in Refreshes => RefreshOutcome(c)
    /\ c \in Logouts => LogoutOutcome(c)
    /\ c \in Logins \cup Enrolments /\ pc'[c] \notin {"idle", "done"} => device'[c] \in Devices

\* The statement that ends a replayed session leaves none of it: the token is
\* on no row any more, so either the row is cleared or it is another session's.
LEMMA ReplayOutcome ==
    ASSUME IInv, NEW c \in Refreshes, EndSession(c)
    PROVE  sid'[device[c]] # family[token[c]]
<1>1. /\ device[c] \in Devices /\ token[c] \in Minted
      /\ None \notin Logins /\ family[token[c]] # None
      /\ jti[device[c]] # token[c]
      /\ sid[device[c]] = None <=> jti[device[c]] = None
      /\ ~authorized[device[c]] => sid[device[c]] = None
  BY KindsAreDisjoint DEF EndSession, IInv, CallsAreInformed, Presenting, SpentIsGone,
     RowsHoldTokens, RevokedHoldsNoSession, Minted, Calls, Minters
<1>2. CASE Superseded(c)
  BY <1>1, <1>2 DEF EndSession, ClearRows
<1>3. CASE ~Superseded(c)
  BY <1>1, <1>3 DEF EndSession, ClearRows, Superseded, Session
<1>4. QED
  BY <1>2, <1>3

LEMMA RefreshInforms ==
    ASSUME IInv, TypeOK', NEW c \in Refreshes, RefreshStep(c), OwnStep(c), Effect(c)
    PROVE  RefreshOutcome(c)
<1>0. /\ TypeOK /\ c \in Calls /\ c \notin Minted
      /\ pc[c] # "done" /\ reply[c] = "none"
      /\ pc[c] \notin {"idle", "done"} => device[c] \in Devices
      /\ Presenting(c) => token[c] \in Minted /\ device[c] = device[token[c]]
  BY MintedIsStable DEF IInv, CallsAreInformed, OwnStep, Calls, Minters
<1>1. ASSUME NEW t \in Minters, RefreshRead(c, t) PROVE RefreshOutcome(c)
  <2>1. t \in Minted /\ device[t] \in Devices
    BY <1>1 DEF RefreshRead, IInv, TokensAreRooted
  <2>2. pc'[c] = "rotate" /\ device'[c] = device[t] /\ token'[c] = t /\ reply'[c] = "none"
    BY <1>0, <1>1 DEF RefreshRead, Begins, Goto, TypeOK
  <2>3. QED
    BY <2>1, <2>2 DEF RefreshOutcome
<1>2. CASE RefreshRefused(c) \/ NoReplay(c)
  <2>1. pc'[c] = "done" /\ reply'[c] = "refused" /\ UNCHANGED tokens
    BY <1>0, <1>2 DEF RefreshRefused, NoReplay, Return, Goto, TypeOK
  <2>2. c \notin Minted'
    BY <1>0, <2>1 DEF tokens, Minted
  <2>3. QED
    BY <2>1, <2>2 DEF RefreshOutcome, Presenting
<1>3. CASE RefreshMatch(c) \/ RefreshMissed(c)
  <2>1. /\ pc[c] \in {"rotate", "swap"} /\ pc'[c] \in {"swap", "reread"}
        /\ device'[c] = device[c] /\ token'[c] = token[c] /\ reply'[c] = "none"
        /\ pc'[c] = "swap" /\ match'[c] => status' = "ACTIVE"
    BY <1>0, <1>3 DEF RefreshMatch, RefreshMissed, Goto, account, memory, TypeOK
  <2>2. QED
    BY <1>0, <2>1 DEF RefreshOutcome, Presenting
<1>4. CASE RefreshSwap(c)
  <2>1. Mints(c, family[token[c]]) /\ pc[c] = "swap"
    BY <1>4, SwapMints
  <2>2. QED
    BY <1>0, <2>1 DEF Mints, RefreshOutcome, Presenting
<1>5. CASE ReplayFound(c)
  <2>1. /\ pc[c] = "reread" /\ pc'[c] = "end" /\ reply'[c] = "none"
        /\ device'[c] = device[c] /\ token'[c] = token[c] /\ KeepsRows
        /\ jti[device[c]] # token[c]
    BY <1>0, <1>5 DEF ReplayFound, Superseded, Goto, account, tokens, memory, TypeOK,
       KeepsRows
  <2>2. /\ token[c] \in Minted /\ device[c] = device[token[c]] /\ device[c] \in Devices
        /\ token[c] # None
    BY <1>0, <2>1, KindsAreDisjoint DEF Presenting, Minted, Calls
  <2>3. \A d \in Devices : jti[d] # token[c]
    BY <2>1, <2>2 DEF IInv, RowsHoldTokens
  <2>4. QED
    BY <2>1, <2>2, <2>3 DEF RefreshOutcome
<1>6. CASE EndSession(c)
  <2>1. /\ pc[c] = "end" /\ pc'[c] = "done"
        /\ device'[c] = device[c] /\ token'[c] = token[c]
    BY <1>0, <1>6 DEF EndSession, Return, Goto, memory, TypeOK
  <2>2. QED
    BY <1>0, <1>6, <2>1, ReplayOutcome DEF RefreshOutcome, Presenting
<1>7. QED
  BY <1>1, <1>2, <1>3, <1>4, <1>5, <1>6 DEF RefreshStep

LEMMA StepEffect ==
    ASSUME IInv, TypeOK', Next
    PROVE  \E c \in Calls : OwnStep(c) /\ Effect(c) /\ Outcome(c)
<1>0. TypeOK
  BY DEF IInv
<1>1. ASSUME NEW c \in Logins, LoginStep(c)
      PROVE  OwnStep(c) /\ Effect(c) /\ Outcome(c)
  <2>1. OwnStep(c) /\ Effect(c)
    BY <1>1, LoginEffect
  <2>2. pc'[c] \notin {"idle", "done"} => device'[c] \in Devices
    <3>1. CASE pc[c] = "idle"
      BY <1>0, <1>1, <3>1 DEF LoginStep, LoginRead, LoginRefused, LoginMatch, LoginInstall,
         LoginMissed, Begins, Return, Goto, TypeOK, Calls, Minters
    <3>2. CASE pc[c] # "idle"
      BY <2>1, <3>2 DEF OwnStep, IInv, CallsAreInformed
    <3>3. QED
      BY <3>1, <3>2
  <2>3. QED
    BY <2>1, <2>2, KindsAreDisjoint DEF Outcome, Minters
<1>2. ASSUME NEW c \in Refreshes, RefreshStep(c)
      PROVE  OwnStep(c) /\ Effect(c) /\ Outcome(c)
  BY <1>2, RefreshEffect, RefreshInforms, KindsAreDisjoint DEF Outcome, Minters
<1>3. ASSUME NEW c \in Logouts, NEW t \in Minters, Logout(c, t)
      PROVE  OwnStep(c) /\ Effect(c) /\ Outcome(c)
  <2>1. t \in Minted /\ device[t] \in Devices /\ token'[c] = t /\ family[t] # None
    BY <1>0, <1>3 DEF Logout, IInv, TokensAreRooted, Minted, TypeOK, Calls
  <2>2. sid'[device[t]] # family[t]
    BY <1>3, <2>1 DEF Logout, ClearRows
  <2>3. LogoutOutcome(c)
    BY <2>1, <2>2 DEF LogoutOutcome
  <2>4. QED
    BY <1>3, <2>3, LogoutEffect, KindsAreDisjoint DEF Outcome, Minters
<1>4. ASSUME NEW c \in Revocations, NEW d \in Devices, Revoke(c, d)
      PROVE  OwnStep(c) /\ Effect(c) /\ Outcome(c)
  <2>1. pc'[c] = "done" /\ c \notin Refreshes \cup Logouts
    BY <1>0, <1>4, KindsAreDisjoint DEF Revoke, Return, Goto, TypeOK, Calls, Minters
  <2>2. QED
    BY <1>4, <2>1, RevokeEffect DEF Outcome
<1>5. ASSUME NEW c \in Enrolments, EnrolStep(c)
      PROVE  OwnStep(c) /\ Effect(c) /\ Outcome(c)
  <2>1. pc'[c] \notin {"idle", "done"} => device'[c] \in Devices
    BY <1>0, <1>5 DEF EnrolStep, EnrolRead, EnrolRefused, Enrol, Begins, Return, Goto, TypeOK,
       Calls
  <2>2. QED
    BY <1>5, <2>1, EnrolEffect, KindsAreDisjoint DEF Outcome, Minters
<1>6. ASSUME NEW c \in Suspensions, SuspendStep(c)
      PROVE  OwnStep(c) /\ Effect(c) /\ Outcome(c)
  BY <1>6, SuspendEffect, KindsAreDisjoint DEF Outcome, Minters
<1>7. ASSUME NEW c \in Reactivations, Reactivate(c)
      PROVE  OwnStep(c) /\ Effect(c) /\ Outcome(c)
  <2>1. pc'[c] = "done" /\ c \notin Refreshes \cup Logouts
    BY <1>0, <1>7, KindsAreDisjoint DEF Reactivate, Return, Goto, TypeOK, Calls, Minters
  <2>2. QED
    BY <1>7, <2>1, OtherEffect DEF Outcome
<1>8. ASSUME NEW c \in Calls, Fail(c)
      PROVE  OwnStep(c) /\ Effect(c) /\ Outcome(c)
  <2>1. OwnStep(c) /\ Effect(c)
    BY <1>8, OtherEffect
  <2>2. pc'[c] = "done" /\ reply'[c] = "error" /\ c \notin Minted'
    BY <1>0, <1>8, <2>1, MintedIsStable DEF Fail, Return, Goto, tokens, Minted, TypeOK
  <2>3. QED
    BY <2>1, <2>2 DEF Outcome, RefreshOutcome, LogoutOutcome, Presenting
<1>9. QED
  BY <1>1, <1>2, <1>3, <1>4, <1>5, <1>6, <1>7, <1>8 DEF Next, Calls, Minters

-----------------------------------------------------------------------------
(* Each part of the invariant is kept. *)

\* A step as the lemmas below need it.
Step(c) == TypeOK' /\ OwnStep(c) /\ Effect(c) /\ Outcome(c)

\* The tokens and sessions on the rows after a step were there before, or are
\* the minted one.
LEMMA RowsAfter ==
    ASSUME IInv, NEW c \in Calls, Step(c), NEW d \in Devices
    PROVE  \/ jti'[d] = None /\ sid'[d] = None
           \/ jti'[d] = jti[d] /\ sid'[d] = sid[d]
           \/ \E s : Mints(c, s) /\ d = device[c] /\ jti'[d] = c /\ sid'[d] = s
<1>0. TypeOK
  BY DEF IInv
<1>1. CASE KeepsRows
  BY <1>1 DEF KeepsRows
<1>2. CASE \E S \in SUBSET Devices : Ends(S)
  BY <1>2 DEF Ends, ClearRows
<1>3. ASSUME NEW s, Mints(c, s)
      PROVE  \/ jti'[d] = jti[d] /\ sid'[d] = sid[d]
             \/ d = device[c] /\ jti'[d] = c /\ sid'[d] = s
  BY <1>0, <1>3 DEF Mints, TypeOK
<1>4. QED
  BY <1>1, <1>2, <1>3, InstallMints, SwapMints DEF Step, Effect

LEMMA RowsKept ==
    ASSUME IInv, NEW c \in Calls, Step(c)
    PROVE  RowsHoldTokens'
<1> SUFFICES ASSUME NEW d \in Devices
             PROVE  /\ sid'[d] = None <=> jti'[d] = None
                    /\ jti'[d] # None =>
                          jti'[d] \in Minted' /\ device'[jti'[d]] = d /\ family'[jti'[d]] = sid'[d]
  BY DEF RowsHoldTokens
<1>1. CASE jti'[d] = None /\ sid'[d] = None
  BY <1>1
<1>2. CASE jti'[d] = jti[d] /\ sid'[d] = sid[d]
  BY <1>2, MintedIsStable DEF Step, IInv, RowsHoldTokens
<1>3. ASSUME NEW s, Mints(c, s), d = device[c], jti'[d] = c, sid'[d] = s
      PROVE  /\ sid'[d] # None /\ jti'[d] # None
             /\ c \in Minted' /\ device'[c] = d /\ family'[c] = s
  BY <1>3, KindsAreDisjoint DEF Mints, IInv, TypeOK, Calls, Minters
<1>4. QED
  BY <1>1, <1>2, <1>3, RowsAfter

LEMMA RootsKept ==
    ASSUME IInv, NEW c \in Calls, Step(c)
    PROVE  TokensAreRooted'
<1>0. \A t \in Minted : t \in Minted' /\ pc'[t] = "done" /\ device'[t] \in Devices
                        /\ family'[t] \in Minted'
  BY MintedIsStable DEF Step, IInv, TokensAreRooted
<1>1. CASE Minted' = Minted /\ issued' = issued
  BY <1>0, <1>1 DEF IInv, TokensAreRooted
<1>2. ASSUME NEW s, Mints(c, s), s \in Minted \cup {c}
      PROVE  TokensAreRooted'
  BY <1>0, <1>2 DEF Mints, IInv, TokensAreRooted, TypeOK
<1>3. CASE c \in Logins /\ LoginInstall(c)
  BY <1>2, <1>3, InstallMints
<1>4. CASE c \in Refreshes /\ RefreshSwap(c)
  BY <1>2, <1>4, SwapMints DEF IInv, TokensAreRooted
<1>5. QED
  BY <1>1, <1>3, <1>4, MintedIsStable DEF Step, Effect, KeepsRows, Ends

LEMMA CallsKept ==
    ASSUME IInv, NEW c \in Calls, Step(c)
    PROVE  CallsAreInformed'
<1>0. /\ TypeOK /\ CallsAreInformed /\ OwnStep(c)
      /\ Minters \subseteq Calls /\ Minted \subseteq Minters /\ Minted' \subseteq Minted \cup {c}
      /\ \A t \in Minted : t \in Minted' /\ device'[t] = device[t]
  <2>1. Minted' \subseteq Minted \cup {c}
    BY MintedIsStable, InstallMints, SwapMints DEF Step, Effect, Mints
  <2>2. QED
    BY <2>1, MintedIsStable DEF Step, IInv, Calls, Minted
<1>1. ASSUME NEW b \in Logins \cup Refreshes \cup Enrolments, pc'[b] \notin {"idle", "done"}
      PROVE  device'[b] \in Devices
  <2>1. CASE b = c
    BY <1>1, <2>1 DEF Step, Outcome, RefreshOutcome
  <2>2. CASE b # c
    BY <1>0, <1>1, <2>2 DEF OwnStep, CallsAreInformed, Calls, Minters
  <2>3. QED
    BY <2>1, <2>2
<1>2. ASSUME NEW r \in Refreshes, Presenting(r)'
      PROVE  token'[r] \in Minted' /\ device'[r] = device'[token'[r]]
  <2>1. CASE r = c
    BY <1>0, <1>2, <2>1 DEF Step, Outcome, RefreshOutcome
  <2>2. CASE r # c
    <3>1. Presenting(r) /\ token'[r] = token[r] /\ device'[r] = device[r]
      BY <1>0, <1>2, <2>2 DEF OwnStep, Presenting, Minters
    <3>2. QED
      BY <1>0, <3>1 DEF CallsAreInformed
  <2>3. QED
    BY <2>1, <2>2
<1>3. ASSUME NEW l \in Logouts, reply'[l] = "ok"
      PROVE  token'[l] \in Minted'
  BY <1>0, <1>3 DEF Step, Outcome, LogoutOutcome, OwnStep, CallsAreInformed, Calls
<1>4. ASSUME NEW b \in Calls, pc'[b] # "done"
      PROVE  reply'[b] = "none"
  BY <1>0, <1>4 DEF OwnStep, CallsAreInformed
<1>5. QED
  BY <1>1, <1>2, <1>3, <1>4 DEF CallsAreInformed

\* No step puts a token on a row again that was spent or superseded.
LEMMA SpentKept ==
    ASSUME IInv, NEW c \in Calls, Step(c)
    PROVE  SpentIsGone'
<1> SUFFICES ASSUME NEW r \in Refreshes, r \in Minted' \/ pc'[r] = "end",
                    NEW d \in Devices
             PROVE  jti'[d] # token'[r]
  BY DEF SpentIsGone
<1>0. /\ TypeOK /\ OwnStep(c) /\ r \in Minters /\ r \in Calls
      /\ None \notin Minted /\ None \notin Minted'
  BY KindsAreDisjoint DEF Step, IInv, Calls, Minters, Minted
<1>1. token'[r] \in Minted /\ token'[r] # c /\ token'[r] # None
  <2>1. CASE r = c
    BY <1>0, <2>1, MintedIsStable DEF Step, Outcome, RefreshOutcome, Presenting
  <2>2. CASE r # c
    <3>1. r \in Minted \/ pc[r] = "end"
      BY <1>0, <2>2, MintedIsStable, InstallMints, SwapMints DEF Step, OwnStep, Effect, Mints
    <3>2. QED
      BY <1>0, <2>2, <3>1, MintedIsStable
         DEF Step, OwnStep, IInv, CallsAreInformed, Presenting
  <2>3. QED
    BY <2>1, <2>2
<1>2. CASE \A e \in Devices : jti[e] # token'[r]
  BY <1>1, <1>2, RowsAfter
<1>3. CASE r # c
  <2>1. r \in Minted \/ pc[r] = "end"
    BY <1>0, <1>3, MintedIsStable, InstallMints, SwapMints DEF Step, OwnStep, Effect, Mints
  <2>2. QED
    BY <1>0, <1>2, <1>3, <2>1 DEF OwnStep, IInv, SpentIsGone
<1>4. CASE r = c /\ pc'[c] = "end"
  BY <1>2, <1>4 DEF Step, Outcome, RefreshOutcome
<1>5. CASE r = c /\ r \in Minted'
  <2>1. RefreshSwap(c)
    BY <1>5, MintedIsStable, KindsAreDisjoint DEF Step, Effect
  <2>2. /\ Mints(c, family[token[c]]) /\ jti[device[c]] = token[c]
        /\ token'[c] = token[c] /\ device[c] \in Devices
    BY <1>5, <2>1, SwapMints DEF Mints
  <2>3. device[token[c]] = device[c]
    BY <1>1, <1>5, <2>2 DEF IInv, RowsHoldTokens
  <2>4. CASE d = device[c]
    BY <1>0, <1>1, <1>5, <2>2, <2>4 DEF Mints, TypeOK
  <2>5. CASE d # device[c]
    BY <1>0, <1>1, <1>5, <2>2, <2>3, <2>5 DEF Mints, TypeOK, IInv, RowsHoldTokens
  <2>6. QED
    BY <2>4, <2>5
<1>6. QED
  BY <1>3, <1>4, <1>5

\* A token is exchanged once: after that it is on no row.
LEMMA SpentOnceKept ==
    ASSUME IInv, NEW c \in Calls, Step(c)
    PROVE  TokenSpentOnce'
<1>0. /\ TypeOK /\ OwnStep(c) /\ Minters \subseteq Calls
      /\ \A r \in (Refreshes \cap Minted') \ {c} : r \in Minted /\ token'[r] = token[r]
  BY MintedIsStable, InstallMints, SwapMints
     DEF Step, OwnStep, Effect, Mints, IInv, Calls, Minters, Minted
<1>1. ASSUME NEW r \in Refreshes \cap Minted', c \in Refreshes \cap Minted', r # c
      PROVE  token'[r] # token'[c]
  <2>1. RefreshSwap(c)
    BY <1>1, MintedIsStable, KindsAreDisjoint DEF Step, Effect
  <2>2. jti[device[c]] = token[c] /\ token'[c] = token[c] /\ device[c] \in Devices
    BY <1>1, <2>1, SwapMints DEF Mints
  <2>3. QED
    BY <1>0, <1>1, <2>2 DEF IInv, SpentIsGone
<1>2. QED
  BY <1>0, <1>1 DEF IInv, TokenSpentOnce

\* A session that ended stays ended: only a login installs a session, its own.
LEMMA EndedStays ==
    ASSUME IInv, NEW c \in Calls, Step(c), NEW d \in Devices, NEW l \in Minted,
           sid[d] # l
    PROVE  sid'[d] # l
<1>0. l # None
  BY KindsAreDisjoint DEF Minted, Calls
<1>1. CASE c \in Logins /\ LoginInstall(c)
  BY <1>1, InstallMints DEF Mints, IInv, TypeOK
<1>2. CASE ~(c \in Logins /\ LoginInstall(c))
  BY <1>0, <1>2, SwapMints DEF Step, Effect, KeepsRows, Ends, ClearRows
<1>3. QED
  BY <1>1, <1>2

LEMMA ReplayKept ==
    ASSUME IInv, NEW c \in Calls, Step(c)
    PROVE  ReplayEndsSession' /\ LogoutIsFinal'
<1>0. /\ TypeOK /\ OwnStep(c) /\ Minted \subseteq Minters /\ Minters \subseteq Calls
      /\ \A t \in Minted : /\ family'[t] = family[t] /\ device'[t] = device[t]
                           /\ family[t] \in Minted /\ device[t] \in Devices
  BY MintedIsStable DEF Step, IInv, TokensAreRooted, Calls, Minted
<1>1. ASSUME NEW r \in Refreshes, reply'[r] = "replay"
      PROVE  sid'[device'[r]] # family'[token'[r]]
  <2>1. CASE r = c
    <3>1. token'[c] \in Minted /\ sid'[device'[c]] # family[token'[c]]
      BY <1>1, <2>1 DEF Step, Outcome, RefreshOutcome, Presenting
    <3>2. QED
      BY <1>0, <2>1, <3>1
  <2>2. CASE r # c
    <3>1. /\ reply[r] = "replay" /\ device'[r] = device[r] /\ token'[r] = token[r]
          /\ token[r] \in Minted /\ device[r] = device[token[r]]
          /\ sid[device[r]] # family[token[r]]
      BY <1>0, <1>1, <2>2 DEF OwnStep, IInv, CallsAreInformed, Presenting,
         ReplayEndsSession, Session, Minters
    <3>2. QED
      BY <1>0, <3>1, EndedStays
  <2>3. QED
    BY <2>1, <2>2
<1>2. ASSUME NEW o \in Logouts, reply'[o] = "ok"
      PROVE  sid'[device'[token'[o]]] # family'[token'[o]]
  <2>1. CASE o = c
    BY <1>0, <1>2, <2>1 DEF Step, Outcome, LogoutOutcome
  <2>2. CASE o # c
    <3>1. /\ reply[o] = "ok" /\ token'[o] = token[o] /\ token[o] \in Minted
          /\ sid[device[token[o]]] # family[token[o]]
      BY <1>0, <1>2, <2>2 DEF OwnStep, IInv, CallsAreInformed, LogoutIsFinal, Session, Calls
    <3>2. QED
      BY <1>0, <3>1, EndedStays
  <2>3. QED
    BY <2>1, <2>2
<1>3. QED
  BY <1>1, <1>2 DEF ReplayEndsSession, LogoutIsFinal, Session

LEMMA RevokedKept ==
    ASSUME IInv, NEW c \in Calls, Step(c)
    PROVE  RevokedHoldsNoSession'
<1>1. CASE KeepsRows
  BY <1>1 DEF KeepsRows, IInv, RevokedHoldsNoSession
<1>2. CASE \E S \in SUBSET Devices : Ends(S)
  BY <1>2 DEF Ends, ClearRows, IInv, RevokedHoldsNoSession
<1>3. ASSUME NEW s, Mints(c, s)
      PROVE  RevokedHoldsNoSession'
  BY <1>3 DEF Mints, IInv, TypeOK, RevokedHoldsNoSession
<1>4. QED
  BY <1>1, <1>2, <1>3, InstallMints, SwapMints DEF Step, Effect

\* A suspension that commits clears the token of every refresh that waits for
\* a row, except on rows it did not find.
LEMMA TimelyKept ==
    ASSUME IInv, NEW c \in Calls, Step(c)
    PROVE  SwapsAreTimely'
<1>0. TypeOK /\ OwnStep(c) /\ CallsAreInformed'
  BY CallsKept DEF Step, IInv
<1>1. ASSUME NEW r \in Refreshes, NEW d \in Devices, d = device'[r],
             pc'[r] = "swap", match'[r], jti'[d] = token'[r]
      PROVE  status' = "ACTIVE" \/ Overlooked(d)'
  <2>1. CASE r = c
    BY <1>1, <2>1 DEF Step, Outcome, RefreshOutcome
  <2>2. CASE r # c
    <3>1. /\ pc[r] = "swap" /\ match[r] /\ d = device[r] /\ token'[r] = token[r]
          /\ token[r] \in Minted /\ token[r] # c /\ token[r] # None
      BY <1>0, <1>1, <2>2, MintedIsStable, KindsAreDisjoint
         DEF Step, OwnStep, IInv, CallsAreInformed, Presenting, Minted, Calls, Minters
    <3>2. jti[d] = token[r]
      BY <1>1, <3>1, RowsAfter
    <3>3. status = "ACTIVE" \/ Overlooked(d)
      BY <1>1, <3>1, <3>2 DEF IInv, SwapsAreTimely
    <3>4. Overlooked(d) => Overlooked(d)'
      BY <1>0 DEF OwnStep
    <3>5. CASE KeepsRows
      BY <3>3, <3>4, <3>5 DEF KeepsRows
    <3>6. ASSUME NEW S \in SUBSET Devices, Ends(S)
          PROVE  status' = "ACTIVE" \/ Overlooked(d)'
      BY <1>1, <3>1, <3>3, <3>4, <3>6 DEF Ends, ClearRows
    <3>7. ASSUME NEW s, Mints(c, s)
          PROVE  status' = status
      BY <3>7 DEF Mints
    <3>8. QED
      BY <3>3, <3>4, <3>5, <3>6, <3>7, InstallMints, SwapMints DEF Step, Effect
  <2>3. QED
    BY <2>1, <2>2
<1>2. ASSUME NEW r \in Refreshes, pc'[r] = "swap"
      PROVE  device'[r] \in Devices
  BY <1>0, <1>2 DEF CallsAreInformed
<1>3. ASSUME NEW r \in Refreshes, pc'[r] = "swap", match'[r], jti'[device'[r]] = token'[r]
      PROVE  (status = "ACTIVE" \/ Overlooked(device[r]))'
  <2>1. PICK d \in Devices : d = device'[r]
    BY <1>2, <1>3
  <2>2. status' = "ACTIVE" \/ Overlooked(d)'
    BY <1>1, <1>3, <2>1
  <2>3. QED
    BY <2>1, <2>2 DEF Overlooked
<1>4. QED
  BY <1>3 DEF SwapsAreTimely

LEMMA NextInvariant == IInv /\ [Next]_vars => IInv'
<1>1. ASSUME IInv, Next PROVE IInv'
  <2>1. TypeOK'
    BY <1>1, NextType
  <2>2. PICK c \in Calls : Step(c)
    BY <1>1, <2>1, StepEffect DEF Step
  <2>3. QED
    BY <1>1, <2>1, <2>2, RowsKept, RootsKept, CallsKept, SpentKept, SpentOnceKept,
       ReplayKept, RevokedKept, TimelyKept DEF IInv
<1>2. ASSUME IInv, UNCHANGED vars PROVE IInv'
  BY <1>2 DEF vars, account, tokens, memory, IInv, TypeOK, RowsHoldTokens, TokensAreRooted,
     CallsAreInformed, Presenting, SpentIsGone, SwapsAreTimely, Overlooked, TokenSpentOnce,
     ReplayEndsSession, RevokedHoldsNoSession, LogoutIsFinal, Session, Minted
<1>3. QED
  BY <1>1, <1>2

-----------------------------------------------------------------------------
(* The theorems. *)

\* Every reachable state satisfies the inductive invariant.
THEOREM Invariance == Spec => []IInv
BY InitInvariant, NextInvariant, PTL DEF Spec

\* Every reachable state is well typed.
THEOREM TypeCorrect == Spec => []TypeOK
<1>1. IInv => TypeOK
  BY DEF IInv
<1>2. QED
  BY <1>1, Invariance, PTL

\* The compare-and-swap of refreshTokens lets one refresh win, however many
\* present the token.
THEOREM TokensAreSingleUse == Spec => []TokenSpentOnce
<1>1. IInv => TokenSpentOnce
  BY DEF IInv
<1>2. QED
  BY <1>1, Invariance, PTL

\* The replayed session is over when the client is told, and stays over.
THEOREM ReplayIsPunished == Spec => []ReplayEndsSession
<1>1. IInv => ReplayEndsSession
  BY DEF IInv
<1>2. QED
  BY <1>1, Invariance, PTL

\* revokeTrustedDevice is not undone by a login or a refresh under way.
THEOREM RevocationHolds == Spec => []RevokedHoldsNoSession
<1>1. IInv => RevokedHoldsNoSession
  BY DEF IInv
<1>2. QED
  BY <1>1, Invariance, PTL

\* No refresh renews a session that its client has logged out of.
THEOREM LogoutHolds == Spec => []LogoutIsFinal
<1>1. IInv => LogoutIsFinal
  BY DEF IInv
<1>2. QED
  BY <1>1, Invariance, PTL

\* No call brings a session back, a reactivation of the account included.
THEOREM SessionsEndForGood == Spec => EndedStaysEnded
<1>1. IInv /\ [Next]_vars => [EndedForGood]_vars
  <2>1. ASSUME IInv, Next PROVE EndedForGood
    <3>1. TypeOK'
      BY <2>1, NextType
    <3>2. PICK c \in Calls : Step(c)
      BY <2>1, <3>1, StepEffect DEF Step
    <3>3. QED
      BY <2>1, <3>2, EndedStays DEF EndedForGood, Live
  <2>2. QED
    BY <2>1
<1>2. QED
  BY <1>1, Invariance, PTL DEF Spec, EndedStaysEnded

\* A suspension is not overtaken by a refresh on a device that it found.
THEOREM SuspensionIsNotOvertaken == Spec => NoExchangeWhileRestricted
<1>1. IInv /\ [Next]_vars => [ExchangedWhileActive]_vars
  <2>1. ASSUME IInv, Next PROVE ExchangedWhileActive
    <3>1. TypeOK'
      BY <2>1, NextType
    <3>2. PICK c \in Calls : Step(c)
      BY <2>1, <3>1, StepEffect DEF Step
    <3>3. ASSUME NEW r \in Refreshes, family[r] = None, family'[r] # None
          PROVE  status = "ACTIVE" \/ Overlooked(device[r])
      <4>1. r \in Minters
        BY DEF Minters
      <4>2. \A s : Mints(c, s) => r = c
        BY <2>1, <3>3, <4>1 DEF Mints, IInv, TypeOK
      <4>3. r = c /\ RefreshSwap(c)
        BY <2>1, <3>2, <3>3, <4>2, InstallMints, SwapMints, KindsAreDisjoint
           DEF Step, Effect, KeepsRows, Ends
      <4>4. QED
        BY <2>1, <3>3, <4>3, SwapMints DEF IInv, SwapsAreTimely
    <3>4. QED
      BY <3>3 DEF ExchangedWhileActive
  <2>2. QED
    BY <2>1
<1>2. QED
  BY <1>1, Invariance, PTL DEF Spec, NoExchangeWhileRestricted

-----------------------------------------------------------------------------
(* Refinement. *)

Spent == {token[r] : r \in Refreshes \cap Minted}

LEMMA InitRefines == Init => Store!Init
BY KindsAreDisjoint DEF Init, Store!Init, Minted, Minters, Calls

\* A call that does not mint changes no token of one that did.
LEMMA SpentIsStable ==
    ASSUME IInv, NEW c \in Calls, Step(c), Minted' = Minted
    PROVE  Spent' = Spent
<1>1. \A r \in Refreshes \cap Minted : token'[r] = token[r]
  BY MintedIsStable DEF Step, OwnStep, Calls, Minters
<1>2. QED
  BY <1>1 DEF Spent

LEMMA InstallRefines ==
    ASSUME IInv, NEW c \in Logins, LoginInstall(c)
    PROVE  Store!Next
<1>1. Mints(c, c) /\ c \notin Refreshes
  BY InstallMints, KindsAreDisjoint
<1>2. Spent' = Spent
  BY <1>1 DEF Mints, Spent
<1>3. Store!Establish(device[c], c)
  BY <1>1, <1>2 DEF Mints, Spent, Store!Establish, Store!MakeLive
<1>4. QED
  BY <1>1, <1>3 DEF Mints, Store!Next

LEMMA SwapRefines ==
    ASSUME IInv, NEW c \in Refreshes, RefreshSwap(c)
    PROVE  Store!Next
<1>1. /\ Mints(c, family[token[c]])
      /\ jti[device[c]] = token[c] /\ token[c] \in Minted
  BY SwapMints
<1>2. Spent' = Spent \cup {token[c]}
  BY <1>1 DEF Mints, Spent
<1>3. token[c] \notin Spent
  BY <1>1 DEF Mints, Spent, IInv, SpentIsGone
<1>4. token[c] # None
  BY <1>1, KindsAreDisjoint DEF Minted, Calls
<1>5. Store!Exchange(device[c], c)
  BY <1>1, <1>2, <1>3, <1>4 DEF Mints, Spent, Store!Exchange, Store!MakeLive
<1>6. QED
  BY <1>1, <1>5 DEF Mints, Store!Next

LEMMA StepRefines == IInv /\ [Next]_vars => [Store!Next]_(Store!vars)
<1>1. ASSUME IInv, Next PROVE Store!Next \/ UNCHANGED Store!vars
  <2>1. TypeOK'
    BY <1>1, NextType
  <2>2. PICK c \in Calls : Step(c)
    BY <1>1, <2>1, StepEffect DEF Step
  <2>3. CASE KeepsRows
    <3>1. Minted' = Minted
      BY <2>3 DEF KeepsRows, Minted
    <3>2. Spent' = Spent
      BY <1>1, <2>2, <3>1, SpentIsStable
    <3>3. QED
      BY <2>3, <3>1, <3>2 DEF KeepsRows, Store!vars, Spent
  <2>4. ASSUME NEW S \in SUBSET Devices, Ends(S) PROVE Store!Next
    <3>1. Minted' = Minted
      BY <2>4 DEF Ends, Minted
    <3>2. Spent' = Spent
      BY <1>1, <2>2, <3>1, SpentIsStable
    <3>3. Store!End(S)
      BY <2>4, <3>1, <3>2 DEF Ends, ClearRows, Store!End, Spent
    <3>4. QED
      BY <3>3 DEF Store!Next
  <2>5. QED
    BY <1>1, <2>2, <2>3, <2>4, InstallRefines, SwapRefines DEF Step, Effect
<1>2. ASSUME UNCHANGED vars PROVE UNCHANGED Store!vars
  BY <1>2 DEF vars, account, tokens, memory, Store!vars, Minted
<1>3. QED
  BY <1>1, <1>2

\* The rows of trusted_devices hold what a single-use token service holds.
THEOREM Refinement == Spec => ImplementsSingleUse
BY InitRefines, StepRefines, Invariance, PTL DEF Spec, ImplementsSingleUse, Store!Spec
=============================================================================
