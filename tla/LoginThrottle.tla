---------------------------- MODULE LoginThrottle ----------------------------
(***************************************************************************)
(* The limit on wrong PINs for one phone (auth.service.ts): login looks at *)
(* the throttle key, then at the PIN, and then counts a failure, or clears *)
(* the counter and the throttle.  The two Redis keys have TTLs of their    *)
(* own, which every write starts anew, so time is modelled: a key holds    *)
(* the ticks it has left, 0 when it is absent.                             *)
(*                                                                         *)
(* A client sends one login after the other; clients run concurrently.     *)
(***************************************************************************)
EXTENDS Naturals, FiniteSets

CONSTANTS
    Clients,
    MaxFailures,     \* LOGIN_MAX_FAILURES
    FailureWindow,   \* LOGIN_FAILURE_WINDOW_SECONDS, in ticks
    ThrottleTime     \* LOGIN_THROTTLE_SECONDS, in ticks

\* env.validation.ts: each is an integer, at least 1.
ASSUME ConfigAssumption == {MaxFailures, FailureWindow, ThrottleTime} \subseteq Nat \ {0}
ASSUME ClientAssumption == IsFiniteSet(Clients)

VARIABLES
    failures, \* value of the counter; beyond MaxFailures nobody looks at it
    window,   \* ticks until the counter expires
    throttle, \* ticks until the throttle expires
    pc,       \* where each client's login stands
    guesses   \* history: wrong PINs counted since the limit was last lifted, less
              \* one for each throttle that was due and that Redis lost

vars == <<failures, window, throttle, pc, guesses>>

Steps == {"idle", "verify", "record", "store", "clear", "lift"}

TypeOK ==
    /\ failures \in 0..MaxFailures
    /\ window \in 0..FailureWindow
    /\ throttle \in 0..ThrottleTime
    /\ pc \in [Clients -> Steps]
    /\ guesses \in Nat

Init ==
    /\ failures = 0
    /\ window = 0
    /\ throttle = 0
    /\ pc = [c \in Clients |-> "idle"]
    /\ guesses = 0

Goto(c, step) == pc' = [pc EXCEPT ![c] = step]

Less(ticks) == IF ticks > 0 THEN ticks - 1 ELSE 0

-----------------------------------------------------------------------------
(* Before the PIN: assertLoginNotThrottled. *)

\* Faulty: a login that the throttle turns away counts as one more failure.
CountThrottled(c) ==
    /\ pc[c] = "idle"
    /\ Goto(c, IF throttle = 0 THEN "verify" ELSE "record")
    /\ UNCHANGED <<failures, window, throttle, guesses>>

\* A throttled login ends here, as does one that cannot reach Redis.
NotThrottled(c) ==
    /\ pc[c] = "idle"
    /\ throttle = 0
    /\ Goto(c, "verify")
    /\ UNCHANGED <<failures, window, throttle, guesses>>

\* The user is unknown or the PIN is wrong; or it is right.
Verify(c) ==
    /\ pc[c] = "verify"
    /\ Goto(c, "record") \/ Goto(c, "clear")
    /\ UNCHANGED <<failures, window, throttle, guesses>>

-----------------------------------------------------------------------------
(* recordLoginFailure. *)

Bumped == IF failures < MaxFailures THEN failures + 1 ELSE failures

\* Faulty: the limit is compared with the count before this failure.
FormerlyReached == failures = MaxFailures
LimitReached == Bumped = MaxFailures

\* INCR and EXPIRE in one MULTI.
Record(c) ==
    /\ pc[c] = "record"
    /\ failures' = Bumped
    /\ window' = FailureWindow
    /\ guesses' = guesses + 1
    /\ Goto(c, IF LimitReached THEN "store" ELSE "idle")
    /\ UNCHANGED throttle

\* The transaction is carried out, but its result is lost: the failure counts,
\* and nobody stores the throttle it may call for.
RecordUnconfirmed(c) ==
    /\ pc[c] = "record"
    /\ failures' = Bumped
    /\ window' = FailureWindow
    /\ guesses' = IF LimitReached THEN guesses ELSE guesses + 1
    /\ Goto(c, "idle")
    /\ UNCHANGED throttle

\* With or without the confirmation that it is stored.
StoreThrottle(c) ==
    /\ pc[c] = "store"
    /\ throttle' = ThrottleTime
    /\ Goto(c, "idle")
    /\ UNCHANGED <<failures, window, guesses>>

-----------------------------------------------------------------------------
(* clearLoginFailureState: two DELs, sent in this order; each may be lost.  *)

ClearFailures(c) ==
    /\ pc[c] = "clear"
    /\ failures' = 0
    /\ window' = 0
    /\ guesses' = 0
    /\ Goto(c, "lift")
    /\ UNCHANGED throttle

ClearLost(c) ==
    /\ pc[c] = "clear"
    /\ Goto(c, "lift")
    /\ UNCHANGED <<failures, window, throttle, guesses>>

LiftThrottle(c) ==
    /\ pc[c] = "lift"
    /\ throttle' = 0
    /\ guesses' = 0
    /\ Goto(c, "idle")
    /\ UNCHANGED <<failures, window>>

-----------------------------------------------------------------------------
(* Failures and time. *)

\* A query or a Redis command fails without effect, or the server stops; a
\* throttle that should have been stored is not.
Fail(c) ==
    /\ pc[c] # "idle"
    /\ Goto(c, "idle")
    /\ guesses' = IF pc[c] = "store" THEN Less(guesses) ELSE guesses
    /\ UNCHANGED <<failures, window, throttle>>

\* A second passes.  A key whose last tick this was is gone, and with the counter
\* or the throttle the limit is lifted.
Tick ==
    /\ window' = Less(window)
    /\ throttle' = Less(throttle)
    /\ failures' = IF window > 1 THEN failures ELSE 0
    /\ guesses' = IF window = 1 \/ throttle = 1 THEN 0 ELSE guesses
    /\ UNCHANGED pc

-----------------------------------------------------------------------------
(* The specification. *)

Login(c) ==
    \/ NotThrottled(c) \/ Verify(c)
    \/ Record(c) \/ RecordUnconfirmed(c) \/ StoreThrottle(c)
    \/ ClearFailures(c) \/ ClearLost(c) \/ LiftThrottle(c)
    \/ Fail(c)

Next == (\E c \in Clients : Login(c)) \/ Tick

Spec == Init /\ [][Next]_vars

\* Time goes on.  Nothing is assumed of clients: they may log in for ever, or
\* stop anywhere.
FairSpec == Spec /\ WF_vars(Tick)

-----------------------------------------------------------------------------
(* Properties. *)

\* Until the limit is lifted, by a right PIN or by time, at most MaxFailures - 1
\* wrong PINs are looked at, and one more for every login that can be under way
\* when the limit is reached and for every throttle that Redis loses.  A failure
\* that Redis counted counts, whatever became of the answer.
GuessesAreBounded == guesses < MaxFailures + Cardinality(Clients)

\* However many clients keep trying wrong PINs, the throttle runs out: a login
\* that is turned away does not prolong it.
ThrottleIsLifted == throttle > 0 ~> throttle = 0

-----------------------------------------------------------------------------
(* The inductive invariant. *)

At(steps) == {c \in Clients : pc[c] \in steps}

\* Below the limit the counter has seen every guess.  Beyond it, as long as
\* there is no throttle, each guess has left its client about to store one;
\* once there is, only logins already under way can still guess.
LimitIsComing ==
    /\ window = 0 => failures = 0
    /\ failures < MaxFailures => guesses <= failures
    /\ throttle = 0 => guesses < MaxFailures + Cardinality(At({"store"}))
    /\ throttle > 0 =>
          guesses + Cardinality(At({"verify", "record"}))
              < MaxFailures + Cardinality(Clients)

IInv == TypeOK /\ LimitIsComing
=============================================================================
