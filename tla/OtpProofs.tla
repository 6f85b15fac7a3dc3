------------------------------ MODULE OtpProofs ------------------------------
(***************************************************************************)
(* For any number of sends, verifications, logins and devices: the         *)
(* cooldown holds, a code that was sent can be verified and guessed at     *)
(* MaxFailures times, and devices become trusted as DeviceTrust says.      *)
(*                                                                         *)
(* Sends touch the lock and the challenges, verifications and logins the   *)
(* factors.  So each part of the invariant is a lemma over the steps that  *)
(* can disturb it, and the rest of the steps leave all it speaks of alone. *)
(***************************************************************************)
EXTENDS Otp, TLAPS

USE DEF keys, memory, locking, codes, history

LEMMA InitInvariant == Init => IInv
<1> SUFFICES ASSUME Init
             PROVE  IInv
  OBVIOUS
<1> USE CallAssumption DEF Init, Calls
<1>1. TypeOK
  <2>1. failures \in 0..MaxFailures
    BY ConfigAssumption
  <2>2. overrun \in BOOLEAN
    OBVIOUS
  <2>3. pc \in [Calls -> Steps]
    BY DEF Steps
  <2>4. QED
    BY <2>1, <2>2, <2>3 DEF TypeOK
<1>2. \A c \in Calls : pc[c] = "idle" /\ device[c] = None
  OBVIOUS
<1>3. CooldownHolds /\ CodeIsStored /\ GuessesAreCounted
  BY <1>2, ConfigAssumption
     DEF CooldownHolds, CodeIsStored, GuessesAreCounted, GuessesPerCode,
         AtWork, Working
<1>4. ChallengesAreUsedOnce
  BY <1>2 DEF ChallengesAreUsedOnce, Holds
<1>5. TokensAreUsedOnce
  BY <1>2 DEF TokensAreUsedOnce, Holds
<1>6. QED
  BY <1>1, <1>2, <1>3, <1>4, <1>5 DEF IInv, IdleNamesNothing

-----------------------------------------------------------------------------
(* Types. *)

LEMMA SendType ==
    ASSUME TypeOK, NEW s \in Sends, SendStep(s)
    PROVE  TypeOK'
<1> USE DEF TypeOK, Calls, Steps, Working, Ends, Goto
<1>1. ASSUME NEW d \in Devices, CheckFailures(s, d)
      PROVE  TypeOK'
  BY <1>1 DEF CheckFailures, Begin
<1>2. CASE TooManyFailures(s) \/ LockRefused(s)
  BY <1>2 DEF TooManyFailures, LockRefused
<1>3. CASE TakeLock(s)
  BY <1>3 DEF TakeLock, Lock
<1>4. CASE StoreChallenge(s) \/ StoreUnconfirmed(s)
  BY <1>4 DEF StoreChallenge, StoreUnconfirmed
<1>5. CASE Activate(s) \/ ActivateUnconfirmed(s)
  BY <1>5 DEF Activate, ActivateUnconfirmed, Point
<1>6. CASE DropChallenge(s) \/ DropLock(s)
  BY <1>6 DEF DropChallenge, DropLock
<1>7. QED
  BY <1>1, <1>2, <1>3, <1>4, <1>5, <1>6 DEF SendStep

LEMMA VerifyType ==
    ASSUME IInv, NEW v \in Verifies, VerifyStep(v)
    PROVE  TypeOK'
<1> USE ConfigAssumption DEF TypeOK, Calls, Steps, Working, Ends, Goto
<1>0. TypeOK
  BY DEF IInv
<1>1. ASSUME NEW s \in Sends, NEW d \in Devices, ScriptRefuses(v, s, d) \/ WrongCode(v, s, d)
      PROVE  TypeOK'
  BY <1>0, <1>1 DEF ScriptRefuses, WrongCode, Verifiable
<1>2. ASSUME NEW s \in Sends, NEW d \in Devices, NEW l \in Logins \cup {None},
             RightCode(v, s, d, l)
      PROVE  TypeOK'
  BY <1>0, <1>2 DEF RightCode, Begin
<1>3. CASE Lookup(v) \/ LookupRefuses(v) \/ ConsumeRefused(v)
  BY <1>0, <1>3 DEF Lookup, LookupRefuses, ConsumeRefused
<1>4. CASE Consume(v)
  BY <1>0, <1>4 DEF Consume
<1>5. CASE Enrol(v)
  <2>1. challenge[v] \in Sends /\ token[v] \in Logins /\ device[v] \in Devices
    BY <1>0, <1>5 DEF Enrol, IInv, ChallengesAreUsedOnce, TokensAreUsedOnce, Holds
  <2>2. QED
    BY <1>0, <1>5, <2>1 DEF Enrol
<1>6. QED
  BY <1>1, <1>2, <1>3, <1>4, <1>5 DEF VerifyStep

LEMMA OtherType ==
    ASSUME TypeOK,
           \/ \E l \in Logins : LoginStep(l)
           \/ \E d \in Devices : Revoke(d)
           \/ \E c \in Calls : Fail(c)
           \/ Expire
    PROVE  TypeOK'
<1> USE ConfigAssumption DEF TypeOK, Calls, Steps, Working, Ends, Goto
<1>1. ASSUME NEW l \in Logins, LoginStep(l)
      PROVE  TypeOK'
  BY <1>1 DEF LoginStep, LoginUntrusted, IssueAuthorization, Begin
<1>2. ASSUME NEW d \in Devices, Revoke(d)
      PROVE  TypeOK'
  BY <1>2 DEF Revoke
<1>3. ASSUME NEW c \in Calls, Fail(c)
      PROVE  TypeOK'
  BY <1>3 DEF Fail
<1>4. CASE Expire
  BY <1>4 DEF Expire, ExpireFailures, ExpireLock, ExpireActive, ExpireAuthorization,
     ExpireChallenge
<1>5. QED
  BY <1>1, <1>2, <1>3, <1>4

LEMMA NextType == IInv /\ [Next]_vars => TypeOK'
<1>1. TypeOK /\ UNCHANGED vars => TypeOK'
  BY DEF vars, TypeOK
<1>2. QED
  BY <1>1, SendType, VerifyType, OtherType DEF Next, IInv

-----------------------------------------------------------------------------
(* The cooldown. *)

\* Outside of sends, only the expiry of keys touches what the cooldown and the
\* codes are about.
QuietForSends ==
    /\ UNCHANGED <<locking, pointed>>
    /\ \A s \in Sends : pc'[s] = pc[s] \/ (pc'[s] = "error" /\ pc[s] # "sent")

LEMMA OthersAreQuiet ==
    ASSUME TypeOK,
           \/ \E v \in Verifies : VerifyStep(v)
           \/ \E l \in Logins : LoginStep(l)
           \/ \E d \in Devices : Revoke(d)
           \/ \E c \in Calls : Fail(c)
           \/ Expire
           \/ UNCHANGED vars
    PROVE  /\ QuietForSends
           /\ \/ UNCHANGED <<resend, cooled>>
              \/ resend # None /\ resend' = None /\ cooled' = cooled \cup {resend}
<1> USE CallAssumption DEF TypeOK, QuietForSends, Goto, Calls
<1>1. ASSUME NEW v \in Verifies, VerifyStep(v)
      PROVE  QuietForSends /\ UNCHANGED <<resend, cooled>>
  BY <1>1 DEF VerifyStep, ScriptRefuses, WrongCode, RightCode, Lookup, LookupRefuses, Consume,
     ConsumeRefused, Enrol, Begin
<1>2. ASSUME NEW l \in Logins, LoginStep(l)
      PROVE  QuietForSends /\ UNCHANGED <<resend, cooled>>
  BY <1>2 DEF LoginStep, LoginUntrusted, IssueAuthorization, Begin
<1>3. ASSUME NEW d \in Devices, Revoke(d)
      PROVE  QuietForSends /\ UNCHANGED <<resend, cooled>>
  BY <1>3 DEF Revoke
<1>4. ASSUME NEW c \in Calls, Fail(c)
      PROVE  QuietForSends /\ UNCHANGED <<resend, cooled>>
  BY <1>4 DEF Fail, Ends
<1>5. ASSUME Expire
      PROVE  /\ QuietForSends
             /\ \/ UNCHANGED <<resend, cooled>>
                \/ resend # None /\ resend' = None /\ cooled' = cooled \cup {resend}
  BY <1>5 DEF Expire, ExpireFailures, ExpireLock, ExpireActive, ExpireAuthorization,
     ExpireChallenge
<1>6. ASSUME UNCHANGED vars
      PROVE  QuietForSends /\ UNCHANGED <<resend, cooled>>
  BY <1>6 DEF vars
<1>7. QED
  BY <1>1, <1>2, <1>3, <1>4, <1>5, <1>6

LEMMA SendKeepsCooldown ==
    ASSUME IInv, NEW s \in Sends, SendStep(s)
    PROVE  CooldownHolds'
<1> USE DEF AtWork, Working
<1>1. TypeOK /\ CooldownHolds /\ pc[s] \in Steps
  BY DEF IInv, TypeOK, Calls
<1>2. CASE TakeLock(s)
  <2>1. /\ pc[s] = "lock" /\ resend = None /\ resend' = s /\ last' = s
        /\ overrun' = \E t \in Sends : AtWork(t) /\ (overrun \/ t \in cooled)
        /\ \A t \in Sends : pc'[t] = IF t = s THEN "store" ELSE pc[t]
    BY <1>1, <1>2 DEF TakeLock, Lock, Goto, TypeOK, Calls
  <2>2. ASSUME ~overrun', NEW t \in Sends, AtWork(t)
        PROVE  FALSE
    BY <1>1, <2>1, <2>2, CallAssumption DEF CooldownHolds, Calls
  <2>3. QED
    BY <2>1, <2>2 DEF CooldownHolds
<1>3. CASE \/ \E d \in Devices : CheckFailures(s, d)
           \/ TooManyFailures(s) \/ LockRefused(s)
  <2>1. /\ pc[s] \in {"idle", "lock"} /\ pc'[s] \in {"lock", "refused", "error"}
        /\ \A t \in Sends \ {s} : pc'[t] = pc[t]
        /\ UNCHANGED <<locking, cooled, pointed>>
        /\ resend' = resend \/ resend = None
    BY <1>1, <1>3 DEF CheckFailures, TooManyFailures, LockRefused, Begin, Goto, TypeOK, Calls
  <2>2. QED
    BY <1>1, <2>1, CallAssumption DEF CooldownHolds, TypeOK, Calls
<1>4. CASE \/ StoreChallenge(s) \/ StoreUnconfirmed(s)
           \/ Activate(s) \/ ActivateUnconfirmed(s) \/ DropChallenge(s)
  <2>1. /\ AtWork(s) /\ (pc'[s] \in Working \/ (pc'[s] = "sent" /\ pointed' = s))
        /\ \A t \in Sends \ {s} : pc'[t] = pc[t]
        /\ UNCHANGED <<locking, cooled, resend>>
    BY <1>1, <1>4 DEF StoreChallenge, StoreUnconfirmed, Activate, ActivateUnconfirmed, Point,
       DropChallenge, Goto, TypeOK, Calls
  <2>2. QED
    BY <1>1, <2>1 DEF CooldownHolds, TypeOK
<1>5. CASE DropLock(s)
  <2>1. /\ AtWork(s) /\ pc'[s] = "error"
        /\ \A t \in Sends \ {s} : pc'[t] = pc[t]
        /\ UNCHANGED <<locking, cooled, pointed>>
    BY <1>1, <1>5 DEF DropLock, Goto, TypeOK, Calls
  <2>2. QED
    BY <1>1, <2>1 DEF CooldownHolds, TypeOK
<1>6. QED
  BY <1>2, <1>3, <1>4, <1>5 DEF SendStep

LEMMA CooldownKept == IInv /\ [Next]_vars => CooldownHolds'
<1>1. ASSUME IInv, QuietForSends,
             \/ UNCHANGED <<resend, cooled>>
             \/ resend # None /\ resend' = None /\ cooled' = cooled \cup {resend}
      PROVE  CooldownHolds'
  BY <1>1 DEF IInv, TypeOK, QuietForSends, CooldownHolds, AtWork, Working
<1>2. QED
  BY <1>1, SendKeepsCooldown, OthersAreQuiet DEF Next, IInv

-----------------------------------------------------------------------------
(* The codes. *)

\* What is taken away outside of sends has expired or was verified.
LEMMA OthersTakeNothing ==
    ASSUME TypeOK,
           \/ \E v \in Verifies : VerifyStep(v)
           \/ \E l \in Logins : LoginStep(l)
           \/ \E d \in Devices : Revoke(d)
           \/ \E c \in Calls : Fail(c)
           \/ Expire
           \/ UNCHANGED vars
    PROVE  /\ gone \subseteq gone'
           /\ challenges \subseteq challenges' \cup gone'
           /\ active' = active \/ active \in gone'
<1> DEFINE TakesNothing == /\ gone \subseteq gone'
                           /\ challenges \subseteq challenges' \cup gone'
                           /\ active' = active \/ active \in gone'
<1>1. ASSUME NEW v \in Verifies, VerifyStep(v)
      PROVE  TakesNothing
  BY <1>1 DEF VerifyStep, ScriptRefuses, WrongCode, RightCode, Lookup, LookupRefuses, Consume,
     ConsumeRefused, Enrol, Verifiable
<1>2. ASSUME NEW l \in Logins, LoginStep(l)
      PROVE  TakesNothing
  BY <1>2 DEF LoginStep, LoginUntrusted, IssueAuthorization
<1>3. ASSUME NEW d \in Devices, Revoke(d)
      PROVE  TakesNothing
  BY <1>3 DEF Revoke
<1>4. ASSUME NEW c \in Calls, Fail(c)
      PROVE  TakesNothing
  BY <1>4 DEF Fail
<1>5. CASE Expire
  BY <1>5 DEF Expire, ExpireFailures, ExpireLock, ExpireActive, ExpireAuthorization,
     ExpireChallenge
<1>6. CASE UNCHANGED vars
  BY <1>6 DEF vars
<1>7. QED
  BY <1>1, <1>2, <1>3, <1>4, <1>5, <1>6

\* A step of a send adds its own challenge, or takes it away while nobody can
\* present it; and it makes no other the active one.
LEMMA SendKeepsCodes ==
    ASSUME IInv, NEW s \in Sends, SendStep(s)
    PROVE  CodeIsStored'
<1>1. TypeOK /\ CodeIsStored
  BY DEF IInv
<1>2. CASE \/ \E d \in Devices : CheckFailures(s, d)
           \/ TooManyFailures(s) \/ LockRefused(s) \/ TakeLock(s)
           \/ StoreUnconfirmed(s) \/ DropChallenge(s) \/ DropLock(s)
  <2>1. /\ pc[s] \notin {"activate", "sent"} /\ pc'[s] \notin {"activate", "sent"}
        /\ \A t \in Sends \ {s} : pc'[t] = pc[t]
        /\ challenges \ {s} \subseteq challenges'
        /\ UNCHANGED <<active, gone, pointed>>
    BY <1>1, <1>2 DEF CheckFailures, TooManyFailures, LockRefused, TakeLock, Lock,
       StoreUnconfirmed, DropChallenge, DropLock, Begin, Goto, TypeOK, Calls
  <2>2. QED
    BY <1>1, <2>1 DEF CodeIsStored
<1>3. CASE StoreChallenge(s)
  <2>1. /\ pc'[s] = "activate" /\ challenges' = challenges \cup {s}
        /\ \A t \in Sends \ {s} : pc'[t] = pc[t]
        /\ UNCHANGED <<active, gone, pointed>>
    BY <1>1, <1>3 DEF StoreChallenge, Goto, TypeOK, Calls
  <2>2. QED
    BY <1>1, <2>1 DEF CodeIsStored
<1>4. CASE Activate(s) \/ ActivateUnconfirmed(s)
  <2>1. /\ pc[s] = "activate" /\ pc'[s] \in {"sent", "undo"}
        /\ pc'[s] = "sent" => active' = s
        /\ (active' = s /\ pointed' = s) \/ UNCHANGED <<active, pointed>>
        /\ \A t \in Sends \ {s} : pc'[t] = pc[t]
        /\ UNCHANGED <<challenges, gone>>
    BY <1>1, <1>4 DEF Activate, ActivateUnconfirmed, Point, Goto, TypeOK, Calls
  <2>2. QED
    BY <1>1, <2>1 DEF CodeIsStored
<1>5. QED
  BY <1>2, <1>3, <1>4 DEF SendStep

LEMMA CodesKept == IInv /\ [Next]_vars => CodeIsStored'
<1>1. ASSUME IInv, QuietForSends,
             gone \subseteq gone', challenges \subseteq challenges' \cup gone',
             active' = active \/ active \in gone'
      PROVE  CodeIsStored'
  BY <1>1 DEF IInv, TypeOK, QuietForSends, CodeIsStored
<1>2. QED
  BY <1>1, SendKeepsCodes, OthersAreQuiet, OthersTakeNothing DEF Next, IInv

-----------------------------------------------------------------------------
(* The guesses. *)

\* A step that counts no wrong code: the counter only stands still, or restarts
\* where no code is active or every code's count restarts with it.
CountsNothing ==
    /\ UNCHANGED wrong \/ wrong' = [s \in Sends |-> 0]
    /\ active' \in {active, None} \/ wrong'[active'] = 0
    /\ failures' = failures \/ active' = None \/ wrong' = [s \in Sends |-> 0]
    /\ \A s \in Sends : pc[s] = "sent" => pc'[s] = "sent"

LEMMA CountingNothingKeepsGuesses ==
    ASSUME IInv, TypeOK', CountsNothing
    PROVE  GuessesAreCounted'
<1>1. TypeOK /\ GuessesAreCounted /\ None \notin Sends /\ MaxFailures \in Nat
  BY CallAssumption, ConfigAssumption DEF IInv, Calls
<1>2. \A s \in Sends : wrong'[s] = wrong[s] \/ wrong'[s] = 0
  BY DEF CountsNothing
<1>3. GuessesPerCode' /\ \A s \in Sends : wrong'[s] > 0 => pc'[s] = "sent"
  BY <1>1, <1>2 DEF CountsNothing, GuessesAreCounted, GuessesPerCode, TypeOK
<1>4. active' # None => wrong'[active'] <= failures'
  <2>1. failures' \in Nat
    BY <1>1 DEF TypeOK
  <2>2. QED
    BY <1>1, <1>2, <2>1 DEF CountsNothing, GuessesAreCounted, TypeOK
<1>5. QED
  BY <1>3, <1>4 DEF GuessesAreCounted

\* The codes that verifications present have been sent, so a challenge that is
\* made the active one has none counted yet.
LEMMA SendCountsNothing ==
    ASSUME IInv, NEW s \in Sends, SendStep(s)
    PROVE  CountsNothing
<1>1. TypeOK /\ GuessesAreCounted
  BY DEF IInv
<1>2. pc[s] # "sent" => wrong[s] = 0
  BY <1>1 DEF GuessesAreCounted, TypeOK
<1>3. /\ pc[s] # "sent" /\ \A t \in Sends \ {s} : pc'[t] = pc[t]
      /\ active' = active \/ active' = s
      /\ UNCHANGED <<failures, wrong>>
  BY <1>1 DEF SendStep, CheckFailures, TooManyFailures, LockRefused, TakeLock, Lock,
     StoreChallenge, StoreUnconfirmed, Activate, ActivateUnconfirmed, Point, DropChallenge,
     DropLock, Begin, Goto, TypeOK, Calls
<1>4. QED
  BY <1>2, <1>3 DEF CountsNothing

LEMMA RestCountsNothing ==
    ASSUME TypeOK,
           \/ \E v \in Verifies : VerifyStep(v)
                  /\ ~\E s \in Sends, d \in Devices : WrongCode(v, s, d)
           \/ \E l \in Logins : LoginStep(l)
           \/ \E d \in Devices : Revoke(d)
           \/ \E c \in Calls : Fail(c)
           \/ Expire
           \/ UNCHANGED vars
    PROVE  CountsNothing
<1>1. \A s \in Sends : pc[s] = "sent" => pc'[s] = "sent"
  BY OthersAreQuiet DEF QuietForSends
<1>2. ASSUME NEW v \in Verifies, VerifyStep(v),
             ~\E s \in Sends, d \in Devices : WrongCode(v, s, d)
      PROVE  CountsNothing
  BY <1>1, <1>2 DEF VerifyStep, ScriptRefuses, RightCode, Lookup, LookupRefuses, Consume,
     ConsumeRefused, Enrol, CountsNothing
<1>3. ASSUME \/ \E l \in Logins : LoginStep(l)
             \/ \E d \in Devices : Revoke(d)
             \/ \E c \in Calls : Fail(c)
             \/ UNCHANGED vars
      PROVE  CountsNothing
  BY <1>1, <1>3 DEF LoginStep, LoginUntrusted, IssueAuthorization, Revoke, Fail, vars,
     CountsNothing
<1>4. CASE Expire
  BY <1>1, <1>4 DEF Expire, ExpireFailures, ExpireLock, ExpireActive, ExpireAuthorization,
     ExpireChallenge, CountsNothing
<1>5. QED
  BY <1>2, <1>3, <1>4

LEMMA WrongCodeKeepsGuesses ==
    ASSUME IInv, NEW v \in Verifies, NEW s \in Sends, NEW d \in Devices, WrongCode(v, s, d)
    PROVE  GuessesAreCounted'
<1>1. TypeOK /\ GuessesAreCounted
  BY DEF IInv
<1>2. /\ pc[s] = "sent" /\ active = s /\ active' = s /\ failures < MaxFailures
      /\ failures' = failures + 1 /\ wrong' = [wrong EXCEPT ![s] = @ + 1]
      /\ \A t \in Sends : pc'[t] = pc[t]
  BY <1>1, CallAssumption DEF WrongCode, Presentable, Verifiable, Goto, TypeOK, Calls
<1>3. s # None /\ wrong[s] <= failures /\ wrong'[s] = wrong[s] + 1
  BY <1>1, <1>2, CallAssumption DEF GuessesAreCounted, TypeOK, Calls
<1>4. failures \in Nat /\ MaxFailures \in Nat /\ wrong[s] \in Nat
  BY <1>1, ConfigAssumption DEF TypeOK
<1>5. \A t \in Sends \ {s} : wrong'[t] = wrong[t]
  BY <1>1, <1>2 DEF TypeOK
<1>6. QED
  BY <1>1, <1>2, <1>3, <1>4, <1>5 DEF GuessesAreCounted, GuessesPerCode

LEMMA GuessesKept == IInv /\ [Next]_vars => GuessesAreCounted'
<1> SUFFICES ASSUME IInv, [Next]_vars
             PROVE  GuessesAreCounted'
  OBVIOUS
<1>1. TypeOK /\ TypeOK'
  BY NextType DEF IInv
<1>2. CASE \E v \in Verifies, s \in Sends, d \in Devices : WrongCode(v, s, d)
  BY <1>2, WrongCodeKeepsGuesses
<1>3. CASE ~\E v \in Verifies, s \in Sends, d \in Devices : WrongCode(v, s, d)
  <2>1. CountsNothing
    BY <1>1, <1>3, SendCountsNothing, RestCountsNothing DEF Next
  <2>2. QED
    BY <1>1, <2>1, CountingNothingKeepsGuesses
<1>4. QED
  BY <1>2, <1>3

-----------------------------------------------------------------------------
(* The factors. *)

Factors == ChallengesAreUsedOnce /\ TokensAreUsedOnce /\ IdleNamesNothing

\* A step of call c that uses no factor up and hands no token out.
Tame(c) ==
    /\ pc[c] \notin Ends /\ pc'[c] \notin {"idle", "lookup", "enrol", "issued"}
    /\ \A d \in Calls \ {c} : pc'[d] = pc[d] /\ device'[d] = device[d]
    /\ pc[c] # "idle" => device'[c] = device[c]
    /\ pc'[c] = "consume" => pc[c] = "lookup" /\ token[c] # None
    /\ UNCHANGED <<challenge, token, spent, authorization>>
    /\ \A s \in challenges' : s \in challenges \/ (s = c /\ pc[c] = "store")

\* A step that is no call's.
Still ==
    /\ UNCHANGED <<pc, device, challenge, token, spent>>
    /\ authorization' \in {authorization, None}
    /\ challenges' \subseteq challenges

LEMMA SendIsTame ==
    ASSUME TypeOK, NEW s \in Sends, SendStep(s)
    PROVE  Tame(s)
<1> USE DEF TypeOK, Calls, Ends, Goto, Tame
<1>1. ASSUME NEW d \in Devices, CheckFailures(s, d)
      PROVE  Tame(s)
  BY <1>1 DEF CheckFailures, Begin
<1>2. CASE TooManyFailures(s) \/ LockRefused(s) \/ TakeLock(s)
  BY <1>2 DEF TooManyFailures, LockRefused, TakeLock, Lock
<1>3. CASE StoreChallenge(s) \/ StoreUnconfirmed(s)
  BY <1>3 DEF StoreChallenge, StoreUnconfirmed
<1>4. CASE Activate(s) \/ ActivateUnconfirmed(s) \/ DropChallenge(s) \/ DropLock(s)
  BY <1>4 DEF Activate, ActivateUnconfirmed, Point, DropChallenge, DropLock
<1>5. QED
  BY <1>1, <1>2, <1>3, <1>4 DEF SendStep

LEMMA VerifyIsTame ==
    ASSUME TypeOK, NEW v \in Verifies,
           \/ \E s \in Sends, d \in Devices : ScriptRefuses(v, s, d) \/ WrongCode(v, s, d)
           \/ Lookup(v) \/ LookupRefuses(v) \/ ConsumeRefused(v)
    PROVE  Tame(v)
BY DEF TypeOK, Calls, Ends, Goto, Tame, ScriptRefuses, WrongCode, Lookup, LookupRefuses,
       ConsumeRefused

LEMMA LoginIsTame ==
    ASSUME TypeOK, NEW l \in Logins, NEW d \in Devices, LoginUntrusted(l, d)
    PROVE  Tame(l)
BY DEF TypeOK, Calls, Ends, Goto, Tame, LoginUntrusted, Begin

LEMMA FailIsTame ==
    ASSUME TypeOK, NEW c \in Calls, Fail(c)
    PROVE  Tame(c)
BY DEF TypeOK, Ends, Goto, Tame, Fail

LEMMA RestIsStill ==
    ASSUME Expire \/ UNCHANGED vars \/ \E d \in Devices : Revoke(d)
    PROVE  Still
BY DEF Still, Expire, ExpireFailures, ExpireLock, ExpireActive, ExpireAuthorization,
       ExpireChallenge, Revoke, vars

LEMMA StillKeepsFactors ==
    ASSUME IInv, Still
    PROVE  Factors'
<1>1. TypeOK /\ ChallengesAreUsedOnce /\ TokensAreUsedOnce /\ IdleNamesNothing
  BY DEF IInv
<1>2. ChallengesAreUsedOnce'
  BY <1>1 DEF Still, ChallengesAreUsedOnce, Holds
<1>3. TokensAreUsedOnce'
  <2>1. \A v \in Verifies : pc[v] = "enrol" => token[v] # None
    BY <1>1 DEF TokensAreUsedOnce
  <2>2. QED
    BY <1>1, <2>1 DEF Still, TokensAreUsedOnce, Holds
<1>4. QED
  BY <1>1, <1>2, <1>3 DEF Still, Factors, IdleNamesNothing

LEMMA TameKeepsFactors ==
    ASSUME IInv, NEW c \in Calls, Tame(c)
    PROVE  Factors'
<1>1. TypeOK /\ ChallengesAreUsedOnce /\ TokensAreUsedOnce /\ IdleNamesNothing
  BY DEF IInv
<1>2. \A d \in Calls : pc[d] \in Ends => d # c /\ pc'[d] = pc[d] /\ device'[d] = device[d]
  BY DEF Tame
<1>3. \A v \in Verifies : v \in Calls /\ (Holds(v)' => Holds(v) /\ device'[v] = device[v])
  BY DEF Tame, Holds, Calls
<1>4. ChallengesAreUsedOnce'
  <2>1. \A s \in challenges' : s \notin spent'
    BY <1>1 DEF Tame, ChallengesAreUsedOnce, TokensAreUsedOnce, TypeOK
  <2>2. \A s \in spent' \cap Sends : pc'[s] = "sent"
    BY <1>1, <1>2 DEF Tame, ChallengesAreUsedOnce, Calls, Ends
  <2>3. ASSUME NEW v \in Verifies, Holds(v)'
        PROVE  /\ challenge'[v] \in Sends /\ challenge'[v] \notin challenges' \cup spent'
               /\ pc'[challenge'[v]] = "sent"
               /\ device'[v] \in Devices /\ device'[challenge'[v]] = device'[v]
    BY <1>1, <1>2, <1>3, <2>3 DEF Tame, ChallengesAreUsedOnce, Calls, Ends
  <2>4. QED
    BY <1>1, <1>3, <2>1, <2>2, <2>3 DEF Tame, ChallengesAreUsedOnce
<1>5. TokensAreUsedOnce'
  <2>1. \A v \in Verifies : pc'[v] = "enrol" => pc[v] = "enrol"
    BY DEF Tame, Calls
  <2>2. \A v \in Verifies : pc'[v] \in {"consume", "enrol"} => token[v] # None
    BY <1>1 DEF Tame, Calls, TokensAreUsedOnce
  <2>3. authorization' # None => authorization \in Calls /\ authorization' = authorization
    BY <1>1 DEF Tame, TypeOK, Calls
  <2>4. \A v \in Verifies : token[v] # None => token[v] \in Logins /\ token[v] \in Calls
    BY <1>1 DEF TypeOK, Calls
  <2>5. /\ authorization' # None =>
              authorization' \notin spent' /\ pc'[authorization'] \in {"issued", "error"}
        /\ \A l \in spent' \cap Logins : pc'[l] = "issued"
    BY <1>1, <1>2, <2>3 DEF Tame, TokensAreUsedOnce, Calls, Ends
  <2>6. \A v \in Verifies : Holds(v)' /\ token'[v] # None => pc'[token'[v]] = "issued"
    BY <1>1, <1>2, <1>3, <2>4 DEF Tame, TokensAreUsedOnce, Ends
  <2>7. ASSUME NEW v \in Verifies, pc'[v] = "enrol"
        PROVE  /\ token'[v] \notin spent' /\ token'[v] # authorization'
               /\ device'[token'[v]] = device'[v]
    <3>1. /\ pc[v] = "enrol" /\ Holds(v) /\ Holds(v)' /\ token[v] # None
          /\ pc[token[v]] = "issued" /\ token[v] \in Calls
      BY <1>1, <2>1, <2>2, <2>4, <2>7 DEF Holds, TokensAreUsedOnce
    <3>2. QED
      BY <1>1, <1>2, <1>3, <3>1 DEF Tame, TokensAreUsedOnce, Ends
  <2>8. QED
    BY <1>1, <2>1, <2>2, <2>5, <2>6, <2>7 DEF Tame, TokensAreUsedOnce
<1>6. IdleNamesNothing'
  BY <1>1 DEF Tame, IdleNamesNothing
<1>7. QED
  BY <1>4, <1>5, <1>6 DEF Factors

LEMMA RightCodeKeepsFactors ==
    ASSUME IInv, NEW v \in Verifies, NEW s \in Sends, NEW d \in Devices,
           NEW l \in Logins \cup {None}, l # None => pc[l] = "issued",
           RightCode(v, s, d, l)
    PROVE  Factors'
<1>1. TypeOK /\ ChallengesAreUsedOnce /\ TokensAreUsedOnce /\ IdleNamesNothing
  BY DEF IInv
<1>2. /\ s \in challenges /\ challenges' = challenges \ {s}
      /\ pc[s] = "sent" /\ device[s] = d /\ pc[v] = "idle"
      /\ UNCHANGED <<authorization, spent>>
  BY DEF RightCode, Presentable, Verifiable, Begin
<1>3. /\ pc'[v] \in {"lookup", "error"} /\ device'[v] = d
      /\ \A c \in Calls \ {v} : pc'[c] = pc[c] /\ device'[c] = device[c]
  BY <1>1 DEF RightCode, Begin, Goto, TypeOK, Calls
<1>4. /\ challenge'[v] = s /\ token'[v] = l
      /\ \A w \in Verifies \ {v} : challenge'[w] = challenge[w] /\ token'[w] = token[w]
  BY <1>1 DEF RightCode, TypeOK
<1>5. \A c \in Calls : pc[c] # "idle" => c # v
  BY <1>2
<1>6. \A w \in Verifies \ {v} :
          w \in Calls /\ (Holds(w)' <=> Holds(w)) /\ device'[w] = device[w] /\ pc'[w] = pc[w]
  BY <1>3 DEF Holds, Calls
<1>7. s \in Calls /\ pc'[s] = "sent" /\ device'[s] = d
  BY <1>2, <1>3 DEF Calls
<1>8. ChallengesAreUsedOnce'
  <2>1. \A t \in challenges' : t \notin spent'
    BY <1>1, <1>2 DEF ChallengesAreUsedOnce
  <2>2. \A t \in spent' \cap Sends : pc'[t] = "sent"
    BY <1>1, <1>2, <1>3 DEF ChallengesAreUsedOnce, Calls
  <2>3. ASSUME NEW w \in Verifies, Holds(w)'
        PROVE  /\ challenge'[w] \in Sends /\ challenge'[w] \notin challenges' \cup spent'
               /\ pc'[challenge'[w]] = "sent"
               /\ device'[w] \in Devices /\ device'[challenge'[w]] = device'[w]
    <3>1. CASE w = v
      BY <1>1, <1>2, <1>3, <1>4, <1>7, <3>1 DEF ChallengesAreUsedOnce
    <3>2. CASE w # v
      <4>1. Holds(w) /\ challenge'[w] = challenge[w]
        BY <1>4, <1>6, <2>3, <3>2
      <4>2. /\ challenge[w] \in Sends /\ challenge[w] \notin challenges \cup spent
            /\ pc[challenge[w]] = "sent" /\ challenge[w] # v /\ challenge[w] \in Calls
            /\ device[w] \in Devices /\ device[challenge[w]] = device[w]
        BY <1>1, <1>2, <4>1 DEF ChallengesAreUsedOnce, Calls
      <4>3. QED
        BY <1>2, <1>3, <1>6, <3>2, <4>1, <4>2
    <3>3. QED
      BY <3>1, <3>2
  <2>4. \A w \in Verifies \ {v} : Holds(w) => challenge[w] # s
    BY <1>1, <1>2 DEF ChallengesAreUsedOnce
  <2>5. \A w, x \in Verifies : Holds(w)' /\ Holds(x)' /\ challenge'[w] = challenge'[x] => w = x
    BY <1>1, <1>4, <1>6, <2>4 DEF ChallengesAreUsedOnce
  <2>6. QED
    BY <2>1, <2>2, <2>3, <2>5 DEF ChallengesAreUsedOnce
<1>9. TokensAreUsedOnce'
  <2>1. /\ authorization' # None =>
              authorization' \notin spent' /\ pc'[authorization'] \in {"issued", "error"}
        /\ \A m \in spent' \cap Logins : pc'[m] = "issued"
    <3>1. \A m \in Logins : m \in Calls /\ (pc[m] \in {"issued", "error"} => pc'[m] = pc[m])
      BY <1>3, <1>5 DEF Calls
    <3>2. authorization # None => authorization \in Logins
      BY <1>1 DEF TypeOK
    <3>3. QED
      BY <1>1, <1>2, <3>1, <3>2 DEF TokensAreUsedOnce
  <2>2. ASSUME NEW w \in Verifies, Holds(w)', token'[w] # None
        PROVE  pc'[token'[w]] = "issued"
    <3>1. token'[w] \in Calls /\ pc[token'[w]] = "issued"
      BY <1>1, <1>4, <1>6, <2>2 DEF TokensAreUsedOnce, TypeOK, Calls
    <3>2. QED
      BY <1>2, <1>3, <3>1
  <2>3. \A w \in Verifies : pc'[w] \in {"consume", "enrol"} =>
            w # v /\ pc[w] = pc'[w] /\ token'[w] = token[w] /\ token[w] # None
    BY <1>1, <1>3, <1>4, <1>6 DEF TokensAreUsedOnce
  <2>4. ASSUME NEW w \in Verifies, pc'[w] = "enrol"
        PROVE  /\ token'[w] \notin spent' /\ token'[w] # authorization'
               /\ device'[token'[w]] = device'[w]
    <3>1. /\ w # v /\ pc[w] = "enrol" /\ token'[w] = token[w] /\ token[w] # None
          /\ token[w] \in Calls /\ pc[token[w]] = "issued"
      BY <1>1, <2>3, <2>4 DEF TokensAreUsedOnce, TypeOK, Calls, Holds
    <3>2. QED
      BY <1>1, <1>2, <1>3, <1>6, <3>1 DEF TokensAreUsedOnce
  <2>5. \A w, x \in Verifies :
            pc'[w] = "enrol" /\ pc'[x] = "enrol" /\ token'[w] = token'[x] => w = x
    BY <1>1, <2>3 DEF TokensAreUsedOnce
  <2>6. QED
    BY <2>1, <2>2, <2>3, <2>4, <2>5 DEF TokensAreUsedOnce
<1>10. IdleNamesNothing'
  BY <1>1, <1>3 DEF IdleNamesNothing
<1>11. QED
  BY <1>8, <1>9, <1>10 DEF Factors

LEMMA ConsumeKeepsFactors ==
    ASSUME IInv, NEW v \in Verifies, Consume(v)
    PROVE  Factors'
<1>1. TypeOK /\ ChallengesAreUsedOnce /\ TokensAreUsedOnce /\ IdleNamesNothing
  BY DEF IInv
<1>2. /\ pc[v] = "consume" /\ pc'[v] \in {"enrol", "error"}
      /\ \A c \in Calls \ {v} : pc'[c] = pc[c]
      /\ authorization = token[v] /\ authorization' = None
      /\ device[token[v]] = device[v]
      /\ UNCHANGED <<challenges, device, challenge, token, spent>>
  BY <1>1 DEF Consume, Matches, Goto, TypeOK, Calls
<1>3. \A w \in Verifies : w \in Calls /\ (Holds(w)' => Holds(w))
  BY <1>2 DEF Holds, Calls
<1>4. \A c \in Calls : pc[c] \in {"sent", "issued"} => pc'[c] = pc[c]
  BY <1>2
<1>5. ChallengesAreUsedOnce'
  BY <1>1, <1>2, <1>3, <1>4 DEF ChallengesAreUsedOnce, Calls
<1>6. TokensAreUsedOnce'
  <2>1. /\ token[v] # None /\ token[v] \notin spent
        /\ \A w \in Verifies : pc[w] = "enrol" => token[w] # token[v]
    BY <1>1, <1>2 DEF TokensAreUsedOnce
  <2>2. \A l \in spent' \cap Logins : pc'[l] = "issued"
    BY <1>1, <1>2, <1>4 DEF TokensAreUsedOnce, Calls
  <2>3. ASSUME NEW w \in Verifies, Holds(w)', token'[w] # None
        PROVE  pc'[token'[w]] = "issued"
    <3>1. token[w] \in Calls /\ pc[token[w]] = "issued" /\ token'[w] = token[w]
      BY <1>1, <1>2, <1>3, <2>3 DEF TokensAreUsedOnce, TypeOK, Calls
    <3>2. QED
      BY <1>4, <3>1
  <2>4. \A w \in Verifies : pc'[w] = "enrol" => w = v \/ pc[w] = "enrol"
    BY <1>2, <1>3
  <2>5. \A w \in Verifies : pc'[w] = "consume" => pc[w] = "consume"
    BY <1>2, <1>3
  <2>6. \A w \in Verifies : pc'[w] = "enrol" => token[w] # None /\ token[w] \notin spent
                                                /\ device[token[w]] = device[w]
    BY <1>1, <1>2, <2>1, <2>4 DEF TokensAreUsedOnce
  <2>7. \A w, x \in Verifies :
            pc'[w] = "enrol" /\ pc'[x] = "enrol" /\ token[w] = token[x] => w = x
    BY <1>1, <2>1, <2>4 DEF TokensAreUsedOnce
  <2>8. \A w \in Verifies : pc'[w] \in {"consume", "enrol"} => token[w] # None
    BY <1>1, <2>5, <2>6 DEF TokensAreUsedOnce
  <2>9. QED
    BY <1>2, <2>2, <2>3, <2>6, <2>7, <2>8 DEF TokensAreUsedOnce
<1>7. IdleNamesNothing'
  BY <1>1, <1>2 DEF IdleNamesNothing
<1>8. QED
  BY <1>5, <1>6, <1>7 DEF Factors

LEMMA EnrolKeepsFactors ==
    ASSUME IInv, NEW v \in Verifies, Enrol(v)
    PROVE  Factors'
<1>1. TypeOK /\ ChallengesAreUsedOnce /\ TokensAreUsedOnce /\ IdleNamesNothing
  BY DEF IInv
<1>2. /\ pc[v] = "enrol" /\ pc'[v] \in {"trusted", "error"}
      /\ \A c \in Calls \ {v} : pc'[c] = pc[c]
      /\ spent' = spent \cup {challenge[v], token[v]}
      /\ UNCHANGED <<challenges, authorization, device, challenge, token>>
  BY <1>1 DEF Enrol, Goto, TypeOK, Calls
<1>3. /\ challenge[v] \in Sends /\ pc[challenge[v]] = "sent" /\ challenge[v] \notin challenges
      /\ token[v] \in Logins /\ pc[token[v]] = "issued" /\ token[v] # authorization
  BY <1>1, <1>2 DEF ChallengesAreUsedOnce, TokensAreUsedOnce, Holds, TypeOK
<1>4. \A w \in Verifies : w \in Calls /\ (Holds(w)' => Holds(w) /\ w # v)
  BY <1>2 DEF Holds, Calls
<1>5. \A c \in Calls : pc[c] # "enrol" => pc'[c] = pc[c]
  BY <1>2
<1>6. /\ \A s \in Sends : s \in spent' => s \in spent \/ s = challenge[v]
      /\ \A l \in Logins : l \in spent' => l \in spent \/ l = token[v]
  BY <1>2, <1>3, CallAssumption
<1>7. ChallengesAreUsedOnce'
  <2>1. \A s \in challenges' : s \notin spent'
    BY <1>1, <1>2, <1>3, <1>6 DEF ChallengesAreUsedOnce, TypeOK
  <2>2. \A s \in spent' \cap Sends : pc'[s] = "sent"
    BY <1>1, <1>3, <1>5, <1>6 DEF ChallengesAreUsedOnce, Calls
  <2>3. ASSUME NEW w \in Verifies, Holds(w)'
        PROVE  /\ challenge'[w] \in Sends /\ challenge'[w] \notin challenges' \cup spent'
               /\ pc'[challenge'[w]] = "sent"
               /\ device'[w] \in Devices /\ device'[challenge'[w]] = device'[w]
    <3>1. /\ challenge[w] \in Sends /\ challenge[w] \notin challenges \cup spent
          /\ pc[challenge[w]] = "sent" /\ device[w] \in Devices
          /\ device[challenge[w]] = device[w] /\ challenge[w] # challenge[v]
      BY <1>1, <1>2, <1>4, <2>3 DEF ChallengesAreUsedOnce, Holds
    <3>2. QED
      BY <1>2, <1>5, <1>6, <3>1 DEF Calls
  <2>4. QED
    BY <1>1, <1>2, <1>4, <2>1, <2>2, <2>3 DEF ChallengesAreUsedOnce
<1>8. TokensAreUsedOnce'
  <2>1. authorization' # None =>
            authorization' \notin spent' /\ pc'[authorization'] \in {"issued", "error"}
    BY <1>1, <1>2, <1>3, <1>5, <1>6 DEF TokensAreUsedOnce, TypeOK, Calls
  <2>2. \A l \in spent' \cap Logins : pc'[l] = "issued"
    BY <1>1, <1>3, <1>5, <1>6 DEF TokensAreUsedOnce, Calls
  <2>3. ASSUME NEW w \in Verifies, Holds(w)', token'[w] # None
        PROVE  pc'[token'[w]] = "issued"
    <3>1. token[w] \in Calls /\ pc[token[w]] = "issued" /\ token'[w] = token[w]
      BY <1>1, <1>2, <1>4, <2>3 DEF TokensAreUsedOnce, TypeOK, Calls
    <3>2. QED
      BY <1>5, <3>1
  <2>4. \A w \in Verifies : pc'[w] \in {"consume", "enrol"} => w # v /\ pc[w] = pc'[w]
    BY <1>2, <1>4
  <2>5. ASSUME NEW w \in Verifies, pc'[w] = "enrol"
        PROVE  token'[w] \notin spent' /\ token'[w] # authorization'
               /\ device'[token'[w]] = device'[w]
    <3>1. /\ token[w] \in Logins /\ token[w] \notin spent /\ token[w] # authorization
          /\ device[token[w]] = device[w] /\ token[w] # token[v]
      BY <1>1, <1>2, <2>4, <2>5 DEF TokensAreUsedOnce, TypeOK
    <3>2. QED
      BY <1>2, <1>6, <3>1
  <2>6. QED
    BY <1>1, <1>2, <2>1, <2>2, <2>3, <2>4, <2>5 DEF TokensAreUsedOnce
<1>9. IdleNamesNothing'
  BY <1>1, <1>2 DEF IdleNamesNothing
<1>10. QED
  BY <1>7, <1>8, <1>9 DEF Factors

LEMMA IssueKeepsFactors ==
    ASSUME IInv, NEW l \in Logins, IssueAuthorization(l)
    PROVE  Factors'
<1>1. TypeOK /\ ChallengesAreUsedOnce /\ TokensAreUsedOnce /\ IdleNamesNothing
  BY DEF IInv
<1>2. /\ l \in Calls /\ pc[l] = "issue" /\ pc'[l] \in {"issued", "error"}
      /\ \A c \in Calls : pc[c] # "issue" => pc'[c] = pc[c]
      /\ \A c \in Calls \ {l} : pc'[c] = pc[c]
      /\ authorization' = l
      /\ UNCHANGED <<challenges, device, challenge, token, spent>>
  BY <1>1 DEF IssueAuthorization, Goto, TypeOK, Calls
<1>3. \A w \in Verifies : w \in Calls /\ w # l /\ pc'[w] = pc[w] /\ (Holds(w)' <=> Holds(w))
  BY <1>2, CallAssumption DEF Holds, Calls
<1>4. ChallengesAreUsedOnce'
  BY <1>1, <1>2, <1>3 DEF ChallengesAreUsedOnce, Calls
<1>5. TokensAreUsedOnce'
  <2>1. \A m \in spent' \cap Logins : pc'[m] = "issued"
    BY <1>1, <1>2 DEF TokensAreUsedOnce, Calls
  <2>2. l \notin spent
    BY <1>1, <1>2 DEF TokensAreUsedOnce
  <2>3. ASSUME NEW w \in Verifies, Holds(w), token[w] # None
        PROVE  pc[token[w]] = "issued" /\ pc'[token[w]] = "issued" /\ token[w] # l
    <3>1. token[w] \in Calls /\ pc[token[w]] = "issued"
      BY <1>1, <2>3 DEF TokensAreUsedOnce, TypeOK, Calls
    <3>2. QED
      BY <1>2, <3>1
  <2>4. \A w \in Verifies : pc'[w] = "enrol" => Holds(w) /\ token[w] # None
    BY <1>1, <1>3 DEF TokensAreUsedOnce, Holds
  <2>5. QED
    BY <1>1, <1>2, <1>3, <2>1, <2>2, <2>3, <2>4 DEF TokensAreUsedOnce
<1>6. IdleNamesNothing'
  BY <1>1, <1>2 DEF IdleNamesNothing
<1>7. QED
  BY <1>4, <1>5, <1>6 DEF Factors

LEMMA FactorsKept == IInv /\ [Next]_vars => Factors'
<1> SUFFICES ASSUME IInv, [Next]_vars
             PROVE  Factors'
  OBVIOUS
<1>0. TypeOK /\ None \notin Logins
  BY CallAssumption DEF IInv, Calls
<1>1. ASSUME NEW s \in Sends, SendStep(s)
      PROVE  Factors'
  BY <1>0, <1>1, SendIsTame, TameKeepsFactors DEF Calls
<1>2. ASSUME NEW v \in Verifies, VerifyStep(v)
      PROVE  Factors'
  <2>1. ASSUME \/ \E s \in Sends, d \in Devices : ScriptRefuses(v, s, d) \/ WrongCode(v, s, d)
               \/ Lookup(v) \/ LookupRefuses(v) \/ ConsumeRefused(v)
        PROVE  Factors'
    BY <1>0, <2>1, VerifyIsTame, TameKeepsFactors DEF Calls
  <2>2. ASSUME NEW s \in Sends, NEW d \in Devices, RightCode(v, s, d, None)
        PROVE  Factors'
    BY <2>2, RightCodeKeepsFactors
  <2>3. ASSUME NEW s \in Sends, NEW d \in Devices, NEW l \in Logins,
               pc[l] = "issued", RightCode(v, s, d, l)
        PROVE  Factors'
    BY <2>3, RightCodeKeepsFactors
  <2>4. ASSUME Consume(v) \/ Enrol(v)
        PROVE  Factors'
    BY <2>4, ConsumeKeepsFactors, EnrolKeepsFactors
  <2>5. QED
    BY <1>2, <2>1, <2>2, <2>3, <2>4 DEF VerifyStep
<1>3. ASSUME NEW l \in Logins, LoginStep(l)
      PROVE  Factors'
  <2>1. ASSUME NEW d \in Devices, LoginUntrusted(l, d)
        PROVE  Factors'
    BY <1>0, <2>1, LoginIsTame, TameKeepsFactors DEF Calls
  <2>2. QED
    BY <1>3, <2>1, IssueKeepsFactors DEF LoginStep
<1>4. ASSUME NEW c \in Calls, Fail(c)
      PROVE  Factors'
  BY <1>0, <1>4, FailIsTame, TameKeepsFactors
<1>5. ASSUME Expire \/ UNCHANGED vars \/ \E d \in Devices : Revoke(d)
      PROVE  Factors'
  BY <1>5, RestIsStill, StillKeepsFactors
<1>6. QED
  BY <1>1, <1>2, <1>3, <1>4, <1>5 DEF Next

LEMMA NextInvariant == IInv /\ [Next]_vars => IInv'
BY NextType, CooldownKept, CodesKept, GuessesKept, FactorsKept DEF IInv, Factors

-----------------------------------------------------------------------------
(* The theorems. *)

\* All that the proofs rest on holds throughout.
THEOREM Invariance == Spec => []IInv
BY InitInvariant, NextInvariant, PTL DEF Spec

\* The stores and the calls have their types.
THEOREM TypeCorrect == Spec => []TypeOK
<1>1. IInv => TypeOK
  BY DEF IInv
<1>2. QED
  BY <1>1, Invariance, PTL

\* sendOtp lets one code out per cooldown, whatever answers are lost, as long as
\* no send outlives its own.
THEOREM CooldownKeptAlways == Spec => []CooldownHolds
<1>1. IInv => CooldownHolds
  BY DEF IInv
<1>2. QED
  BY <1>1, Invariance, PTL

\* While the failure limit leaves room, a code that sendOtp reported as sent is
\* verifiable until it expires, is verified, or Redis is given another active
\* challenge: no lost answer, compensation or wrong code takes it away.
THEOREM CodesStayVerifiable == Spec => []SentIsVerifiable
<1>1. IInv => SentIsVerifiable
  BY DEF IInv, CodeIsStored, SentIsVerifiable, Verifiable
<1>2. QED
  BY <1>1, Invariance, PTL

\* However verifications interleave, a code is guessed at MaxFailures times at
\* most before the failure counter expires.
THEOREM GuessesLimited == Spec => []GuessesPerCode
<1>1. IInv => GuessesPerCode
  BY DEF IInv, GuessesAreCounted
<1>2. QED
  BY <1>1, Invariance, PTL

\* The first states are first states of DeviceTrust.
LEMMA InitRefines == Init => Trust!Init
BY CallAssumption DEF Init, Trust!Init, Trust!Factors, Calls

\* A step that gives no call a device.
NamesNoDevice ==
    /\ UNCHANGED <<trusted, spent>>
    /\ \A f \in Sends \cup Logins : device'[f] = device[f]

LEMMA NamingNoDeviceStutters ==
    ASSUME NamesNoDevice
    PROVE  UNCHANGED Trust!vars
<1>1. [f \in Sends \cup Logins |-> device[f]]' = [f \in Sends \cup Logins |-> device[f]]
  BY DEF NamesNoDevice
<1>2. QED
  BY <1>1 DEF NamesNoDevice, Trust!vars

LEMMA BeginBinds ==
    ASSUME IInv, NEW f \in Sends \cup Logins, NEW d \in Devices,
           pc[f] = "idle", device' = [device EXCEPT ![f] = d], UNCHANGED <<trusted, spent>>
    PROVE  Trust!Next
<1>1. device[f] = None
  BY DEF IInv, IdleNamesNothing, Calls
<1>2. device \in [Calls -> Devices \cup {None}]
  BY DEF IInv, TypeOK
<1>3. Trust!Bind(f, d)
  BY <1>1, <1>2 DEF Trust!Bind, Calls
<1>4. QED
  BY <1>3 DEF Trust!Next, Trust!Factors

LEMMA SendRefines ==
    ASSUME IInv, NEW s \in Sends, SendStep(s)
    PROVE  [Trust!Next]_Trust!vars
<1>1. ASSUME NEW d \in Devices, CheckFailures(s, d)
      PROVE  Trust!Next
  BY <1>1, BeginBinds DEF CheckFailures, Begin
<1>2. ASSUME \/ TooManyFailures(s) \/ TakeLock(s) \/ LockRefused(s)
             \/ StoreChallenge(s) \/ StoreUnconfirmed(s)
             \/ Activate(s) \/ ActivateUnconfirmed(s) \/ DropChallenge(s) \/ DropLock(s)
      PROVE  NamesNoDevice
  BY <1>2 DEF TooManyFailures, TakeLock, Lock, LockRefused, StoreChallenge, StoreUnconfirmed,
     Activate, ActivateUnconfirmed, Point, DropChallenge, DropLock, NamesNoDevice
<1>3. QED
  BY <1>1, <1>2, NamingNoDeviceStutters DEF SendStep

LEMMA EnrolRefines ==
    ASSUME IInv, NEW v \in Verifies, Enrol(v)
    PROVE  Trust!Next
<1>1. /\ pc[v] = "enrol" /\ Holds(v) /\ token[v] # None /\ token[v] \in Logins
      /\ token[v] \notin spent /\ device[token[v]] = device[v]
  BY DEF Enrol, IInv, TokensAreUsedOnce, Holds, TypeOK
<1>2. /\ challenge[v] \in Sends /\ challenge[v] \notin spent
      /\ device[v] \in Devices /\ device[challenge[v]] = device[v]
  BY <1>1 DEF IInv, ChallengesAreUsedOnce
<1>3. Trust!Trust(device[v], challenge[v], token[v])
  BY <1>1, <1>2 DEF Trust!Trust, Enrol
<1>4. QED
  BY <1>1, <1>2, <1>3 DEF Trust!Next

LEMMA VerifyRefines ==
    ASSUME IInv, NEW v \in Verifies, VerifyStep(v)
    PROVE  [Trust!Next]_Trust!vars
<1>1. ASSUME \/ \E s \in Sends, d \in Devices : ScriptRefuses(v, s, d) \/ WrongCode(v, s, d)
             \/ Lookup(v) \/ LookupRefuses(v) \/ Consume(v) \/ ConsumeRefused(v)
      PROVE  NamesNoDevice
  BY <1>1 DEF ScriptRefuses, WrongCode, Lookup, LookupRefuses, Consume, ConsumeRefused,
     NamesNoDevice
<1>2. ASSUME NEW s \in Sends, NEW d \in Devices, NEW l \in Logins \cup {None},
             RightCode(v, s, d, l)
      PROVE  NamesNoDevice
  BY <1>2, CallAssumption DEF RightCode, Begin, NamesNoDevice, IInv, TypeOK, Calls
<1>3. QED
  BY <1>1, <1>2, EnrolRefines, NamingNoDeviceStutters DEF VerifyStep

LEMMA OtherRefines ==
    ASSUME IInv,
           \/ \E l \in Logins : LoginStep(l)
           \/ \E d \in Devices : Revoke(d)
           \/ \E c \in Calls : Fail(c)
           \/ Expire
           \/ UNCHANGED vars
    PROVE  [Trust!Next]_Trust!vars
<1>1. ASSUME NEW l \in Logins, LoginStep(l)
      PROVE  Trust!Next \/ NamesNoDevice
  BY <1>1, BeginBinds DEF LoginStep, LoginUntrusted, IssueAuthorization, Begin, NamesNoDevice
<1>2. ASSUME NEW d \in Devices, Revoke(d)
      PROVE  Trust!Next
  BY <1>2 DEF Revoke, Trust!Next, Trust!Revoke
<1>3. ASSUME (\E c \in Calls : Fail(c)) \/ Expire \/ UNCHANGED vars
      PROVE  NamesNoDevice
  BY <1>3 DEF Fail, Expire, ExpireFailures, ExpireLock, ExpireActive, ExpireAuthorization,
     ExpireChallenge, vars, NamesNoDevice
<1>4. QED
  BY <1>1, <1>2, <1>3, NamingNoDeviceStutters

\* Devices become trusted as DeviceTrust promises: in exchange for a one-time
\* password and an authorization, each used once and on the device it was for.
THEOREM Refinement == Spec => ImplementsTrust
<1>1. IInv /\ [Next]_vars => [Trust!Next]_Trust!vars
  BY SendRefines, VerifyRefines, OtherRefines DEF Next
<1>2. QED
  BY <1>1, InitRefines, Invariance, PTL DEF Spec, ImplementsTrust, Trust!Spec
=============================================================================
