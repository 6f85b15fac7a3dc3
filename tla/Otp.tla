--------------------------------- MODULE Otp ---------------------------------
(***************************************************************************)
(* One-time passwords for a phone that has an account, and the device they *)
(* make trusted: sendOtp and verifyOtp (otp.service.ts), the two Lua       *)
(* scripts, and the device-enrolment authorization that login issues       *)
(* (auth.service.ts, auth-proof.service.ts) and verifyOtp consumes.        *)
(*                                                                         *)
(* A call is one HTTP request.  A challenge is named by the call that sent *)
(* it, an authorization by its login; ids and tokens are random, so a      *)
(* client presents only what it was given.  Every Redis command is a step, *)
(* and a script is one.  A command may be lost, or take effect without its *)
(* answer; a key may expire between any two steps.                         *)
(***************************************************************************)
EXTENDS Naturals

CONSTANTS
    Sends, Verifies, Logins, \* calls
    Devices,
    MaxFailures,             \* OTP_MAX_FAILURES
    None

Calls == Sends \cup Verifies \cup Logins

ASSUME ConfigAssumption == MaxFailures \in Nat \ {0}
ASSUME CallAssumption ==
    /\ None \notin Calls \cup Devices
    /\ Sends \cap Verifies = {}
    /\ Logins \cap (Sends \cup Verifies) = {}

VARIABLES
    failures,      \* Redis: wrong codes counted for the phone
    resend,        \* Redis: the send that holds the cooldown lock
    challenges,    \* Redis: challenges stored
    active,        \* Redis: the active challenge
    authorization, \* Redis: the device-enrolment authorization stored
    trusted,       \* devices with isAuthorized in trusted_devices
    pc,            \* where each call stands, or how it ended
    device,        \* the device a call names
    challenge,     \* the challenge a verification presents
    token,         \* the authorization it presents
    last,          \* history: the last send that took the lock
    overrun,       \* history: it did while a send worked on whose lock had expired
    cooled,        \* history: sends whose lock expired
    gone,          \* history: challenges that expired or were verified
    spent,         \* history: what was given for a device's trust
    pointed,       \* history: the send last made the active challenge
    wrong          \* history: wrong codes counted on a challenge in this window

keys == <<failures, resend, challenges, active, authorization>>
memory == <<device, challenge, token>>
locking == <<last, overrun>>
codes == <<gone, pointed, wrong>>
history == <<locking, cooled, spent, codes>>
vars == <<keys, trusted, pc, memory, history>>

Working == {"store", "activate", "undo", "unlock"}
Ends == {"sent", "issued", "trusted", "refused", "error"}
Steps == {"idle", "lock", "lookup", "consume", "enrol", "issue"} \cup Working \cup Ends

TypeOK ==
    /\ failures \in 0..MaxFailures
    /\ resend \in Sends \cup {None}
    /\ challenges \subseteq Sends
    /\ active \in Sends \cup {None}
    /\ authorization \in Logins \cup {None}
    /\ trusted \subseteq Devices
    /\ pc \in [Calls -> Steps]
    /\ device \in [Calls -> Devices \cup {None}]
    /\ challenge \in [Verifies -> Sends \cup {None}]
    /\ token \in [Verifies -> Logins \cup {None}]
    /\ last \in Sends \cup {None}
    /\ overrun \in BOOLEAN
    /\ cooled \subseteq Sends
    /\ gone \subseteq Sends
    /\ spent \subseteq Sends \cup Logins
    /\ pointed \in Sends \cup {None}
    /\ wrong \in [Sends -> Nat]

Init ==
    /\ failures = 0
    /\ resend = None
    /\ challenges = {}
    /\ active = None
    /\ authorization = None
    /\ trusted \in SUBSET Devices
    /\ pc = [c \in Calls |-> "idle"]
    /\ device = [c \in Calls |-> None]
    /\ challenge = [v \in Verifies |-> None]
    /\ token = [v \in Verifies |-> None]
    /\ last = None
    /\ overrun = FALSE
    /\ cooled = {}
    /\ gone = {}
    /\ spent = {}
    /\ pointed = None
    /\ wrong = [s \in Sends |-> 0]

-----------------------------------------------------------------------------
(* Helpers. *)

Goto(c, step) == pc' = [pc EXCEPT ![c] = step]

\* The call names device d.
Begin(c, step, d) ==
    /\ pc[c] = "idle"
    /\ Goto(c, step)
    /\ device' = [device EXCEPT ![c] = d]

AtWork(s) == pc[s] \in Working

-----------------------------------------------------------------------------
(* sendOtp. *)

CheckFailures(s, d) ==
    /\ failures < MaxFailures
    /\ Begin(s, "lock", d)
    /\ UNCHANGED <<keys, trusted, challenge, token, history>>

TooManyFailures(s) ==
    /\ pc[s] = "idle"
    /\ failures >= MaxFailures
    /\ Goto(s, "refused")
    /\ UNCHANGED <<keys, trusted, memory, history>>

\* SET resend NX: from here to its answer the send is at work.
Lock(s) ==
    /\ resend' = s
    /\ last' = s
    /\ overrun' = \E t \in Sends : AtWork(t) /\ (overrun \/ t \in cooled)
    /\ Goto(s, "store")
    /\ UNCHANGED <<failures, challenges, active, authorization, trusted, memory, cooled, spent,
                   codes>>

\* Faulty: SET without NX.
TakeAnyLock(s) == pc[s] = "lock" /\ Lock(s)

TakeLock(s) ==
    /\ pc[s] = "lock"
    /\ resend = None
    /\ Lock(s)

\* The lock is another's; or Redis sets it and the answer is lost, and the send
\* ends with its own lock in its way.  It looks again, and answers 429 when there
\* is a lock, 503 when that has expired by then or cannot be read.  A SET that
\* was lost is Fail's.
LockRefused(s) ==
    /\ pc[s] = "lock"
    /\ \/ resend # None /\ UNCHANGED resend
       \/ resend = None /\ resend' = s
    /\ Goto(s, "refused") \/ Goto(s, "error")
    /\ UNCHANGED <<failures, challenges, active, authorization, trusted, memory, history>>

StoreChallenge(s) ==
    /\ pc[s] = "store"
    /\ challenges' = challenges \cup {s}
    /\ Goto(s, "activate")
    /\ UNCHANGED <<failures, resend, active, authorization, trusted, memory, history>>

StoreUnconfirmed(s) ==
    /\ pc[s] = "store"
    /\ challenges' \in {challenges, challenges \cup {s}}
    /\ Goto(s, "unlock")
    /\ UNCHANGED <<failures, resend, active, authorization, trusted, memory, history>>

Point(s) ==
    /\ active' = s
    /\ pointed' = s

Activate(s) ==
    /\ pc[s] = "activate"
    /\ Point(s)
    /\ Goto(s, "sent")
    /\ UNCHANGED <<failures, resend, challenges, authorization, trusted, memory, locking,
                   cooled, gone, spent, wrong>>

ActivateUnconfirmed(s) ==
    /\ pc[s] = "activate"
    /\ Point(s) \/ UNCHANGED <<active, pointed>>
    /\ Goto(s, "undo")
    /\ UNCHANGED <<failures, resend, challenges, authorization, trusted, memory, locking,
                   cooled, gone, spent, wrong>>

\* Faulty: the compensation takes the active challenge away, whosever it is.
DropActive(s) ==
    /\ pc[s] = "undo"
    /\ challenges' \in {challenges, challenges \ {s}}
    /\ active' \in {active, None}
    /\ Goto(s, "unlock")
    /\ UNCHANGED <<failures, resend, authorization, trusted, memory, history>>

\* The compensation: DELs whose results nobody looks at.
DropChallenge(s) ==
    /\ pc[s] = "undo"
    /\ challenges' \in {challenges, challenges \ {s}}
    /\ Goto(s, "unlock")
    /\ UNCHANGED <<failures, resend, active, authorization, trusted, memory, history>>

\* Whoever's lock it is by now.
DropLock(s) ==
    /\ pc[s] = "unlock"
    /\ resend' \in {resend, None}
    /\ Goto(s, "error")
    /\ UNCHANGED <<failures, challenges, active, authorization, trusted, memory, history>>

-----------------------------------------------------------------------------
(* verifyOtp: the script. *)

Presentable(s) == pc[s] = "sent"

\* Faulty: the limit is one off.
VerifiableAtLimit(s, d) ==
    /\ failures <= MaxFailures
    /\ active = s
    /\ s \in challenges
    /\ device[s] = d

Verifiable(s, d) ==
    /\ failures < MaxFailures
    /\ active = s
    /\ s \in challenges
    /\ device[s] = d

ScriptRefuses(v, s, d) ==
    /\ pc[v] = "idle"
    /\ Presentable(s) /\ ~Verifiable(s, d)
    /\ Goto(v, "refused")
    /\ UNCHANGED <<keys, trusted, memory, history>>

WrongCode(v, s, d) ==
    /\ pc[v] = "idle"
    /\ Presentable(s) /\ Verifiable(s, d)
    /\ failures' = failures + 1
    /\ wrong' = [wrong EXCEPT ![s] = @ + 1]
    /\ Goto(v, "refused")
    /\ UNCHANGED <<resend, challenges, active, authorization, trusted, memory, locking, cooled,
                   gone, spent, pointed>>

\* The keys are deleted, and the answer may be lost.
RightCode(v, s, d, l) ==
    /\ Presentable(s) /\ Verifiable(s, d)
    /\ challenges' = challenges \ {s}
    /\ active' = None
    /\ failures' = 0
    /\ Begin(v, "lookup", d) \/ Begin(v, "error", d)
    /\ challenge' = [challenge EXCEPT ![v] = s]
    /\ token' = [token EXCEPT ![v] = l]
    /\ gone' = gone \cup {s}
    /\ UNCHANGED <<resend, authorization, trusted, locking, cooled, spent, pointed, wrong>>

-----------------------------------------------------------------------------
(* verifyOtp: the account's device. *)

Lookup(v) ==
    /\ pc[v] = "lookup"
    /\ token[v] # None
    /\ Goto(v, "consume")
    /\ UNCHANGED <<keys, trusted, memory, history>>

\* There is no authorization in the request, or the account is not ACTIVE.
LookupRefuses(v) ==
    /\ pc[v] = "lookup"
    /\ Goto(v, "refused")
    /\ UNCHANGED <<keys, trusted, memory, history>>

\* Faulty: the device is not compared.
MatchesToken(v) == authorization = token[v]

\* The script compares token, user, phone and device; here there is one user.
Matches(v) == authorization = token[v] /\ device[authorization] = device[v]

\* Compared and deleted in one step, whose answer may be lost.
Consume(v) ==
    /\ pc[v] = "consume"
    /\ Matches(v)
    /\ authorization' = None
    /\ Goto(v, "enrol") \/ Goto(v, "error")
    /\ UNCHANGED <<failures, resend, challenges, active, trusted, memory, history>>

ConsumeRefused(v) ==
    /\ pc[v] = "consume"
    /\ ~Matches(v)
    /\ Goto(v, "refused")
    /\ UNCHANGED <<keys, trusted, memory, history>>

\* trustDevice.upsert, acknowledged or not.
Enrol(v) ==
    /\ pc[v] = "enrol"
    /\ trusted' = trusted \cup {device[v]}
    /\ spent' = spent \cup {challenge[v], token[v]}
    /\ Goto(v, "trusted") \/ Goto(v, "error")
    /\ UNCHANGED <<keys, memory, locking, cooled, codes>>

-----------------------------------------------------------------------------
(* login, after the PIN, on a device that is not trusted; revokeDevice.     *)

LoginUntrusted(l, d) ==
    /\ d \notin trusted
    /\ Begin(l, "issue", d)
    /\ UNCHANGED <<keys, trusted, challenge, token, history>>

\* It replaces the one before.  Redis may store it without the client getting it.
IssueAuthorization(l) ==
    /\ pc[l] = "issue"
    /\ authorization' = l
    /\ Goto(l, "issued") \/ Goto(l, "error")
    /\ UNCHANGED <<failures, resend, challenges, active, trusted, memory, history>>

Revoke(d) ==
    /\ d \in trusted
    /\ trusted' = trusted \ {d}
    /\ UNCHANGED <<keys, pc, memory, history>>

-----------------------------------------------------------------------------
(* Failures and expiry. *)

\* A query or a Redis command fails without effect, or the server stops.
Fail(c) ==
    /\ pc[c] \notin Ends \cup {"idle"}
    /\ Goto(c, "error")
    /\ UNCHANGED <<keys, trusted, memory, history>>

ExpireFailures ==
    /\ failures # 0
    /\ failures' = 0
    /\ wrong' = [s \in Sends |-> 0]
    /\ UNCHANGED <<resend, challenges, active, authorization, trusted, pc, memory, locking,
                   cooled, gone, spent, pointed>>

ExpireLock ==
    /\ resend # None
    /\ resend' = None
    /\ cooled' = cooled \cup {resend}
    /\ UNCHANGED <<failures, challenges, active, authorization, trusted, pc, memory, locking,
                   spent, codes>>

ExpireChallenge(s) ==
    /\ s \in challenges
    /\ challenges' = challenges \ {s}
    /\ gone' = gone \cup {s}
    /\ UNCHANGED <<failures, resend, active, authorization, trusted, pc, memory, locking,
                   cooled, spent, pointed, wrong>>

ExpireActive ==
    /\ active # None
    /\ active' = None
    /\ gone' = gone \cup {active}
    /\ UNCHANGED <<failures, resend, challenges, authorization, trusted, pc, memory, locking,
                   cooled, spent, pointed, wrong>>

ExpireAuthorization ==
    /\ authorization # None
    /\ authorization' = None
    /\ UNCHANGED <<failures, resend, challenges, active, trusted, pc, memory, history>>

-----------------------------------------------------------------------------
(* The specification. *)

SendStep(s) ==
    \/ \E d \in Devices : CheckFailures(s, d)
    \/ TooManyFailures(s)
    \/ TakeLock(s) \/ LockRefused(s)
    \/ StoreChallenge(s) \/ StoreUnconfirmed(s)
    \/ Activate(s) \/ ActivateUnconfirmed(s)
    \/ DropChallenge(s) \/ DropLock(s)

VerifyStep(v) ==
    \/ \E s \in Sends, d \in Devices :
          \/ ScriptRefuses(v, s, d) \/ WrongCode(v, s, d)
          \/ RightCode(v, s, d, None)
          \/ \E l \in Logins : pc[l] = "issued" /\ RightCode(v, s, d, l)
    \/ Lookup(v) \/ LookupRefuses(v)
    \/ Consume(v) \/ ConsumeRefused(v)
    \/ Enrol(v)

LoginStep(l) ==
    \/ \E d \in Devices : LoginUntrusted(l, d)
    \/ IssueAuthorization(l)

Expire ==
    \/ ExpireFailures \/ ExpireLock \/ ExpireActive \/ ExpireAuthorization
    \/ \E s \in Sends : ExpireChallenge(s)

Next ==
    \/ \E s \in Sends : SendStep(s)
    \/ \E v \in Verifies : VerifyStep(v)
    \/ \E l \in Logins : LoginStep(l)
    \/ \E d \in Devices : Revoke(d)
    \/ \E c \in Calls : Fail(c)
    \/ Expire

Spec == Init /\ [][Next]_vars

-----------------------------------------------------------------------------
(* Properties.                                                              *)

\* A send that outlives its cooldown, which is long against a few Redis commands,
\* may undo what the next one did: overrun says so.  Otherwise, from the moment
\* it takes the lock until its cooldown expires, a send that has not failed is
\* alone, and its lock stays, and the newest code sent is the one in place:
\* neither a lost answer nor another send's compensation lets a second code out
\* meanwhile, or puts an older one in its place.
CooldownHolds ==
    ~overrun =>
        /\ \A s \in Sends : AtWork(s) => s = last
        /\ last # None /\ last \notin cooled =>
              (AtWork(last) \/ pc[last] = "sent" => resend = last)
        /\ last # None /\ pc[last] = "sent" => pointed = last

\* A code whose sending was reported can be verified on its device, while the
\* failure limit leaves room, until it expires, is verified, or another
\* challenge is made the active one: no lost answer, no compensation of another
\* send, also of one that outlived its cooldown, and no wrong code below the
\* limit takes it away.
SentIsVerifiable ==
    \A s \in Sends :
        pc[s] = "sent" /\ s = pointed /\ failures < MaxFailures =>
            s \in gone \/ Verifiable(s, device[s])

\* Until the failure counter expires, a code can be guessed at MaxFailures times
\* and no more, however verifications interleave, and although a right code
\* clears the counter: that code is gone, and one that was superseded before does
\* not come back.
GuessesPerCode == \A s \in Sends : wrong[s] <= MaxFailures

\* Devices become trusted as DeviceTrust says: although the password and the
\* authorization are consumed in two steps, each counts once, and for the
\* device it was asked for on.
Trust == INSTANCE DeviceTrust WITH
             Codes <- Sends, Authorizations <- Logins,
             boundTo <- [f \in Sends \cup Logins |-> device[f]]
ImplementsTrust == Trust!Spec

-----------------------------------------------------------------------------
(* The inductive invariant. *)

\* What SentIsVerifiable rests on, whatever the counter says: the challenge stays
\* where it was stored, and the active one is the last that was made it.
CodeIsStored ==
    \A s \in Sends :
        /\ pc[s] = "activate" => s \in challenges \cup gone
        /\ pc[s] = "sent" /\ s = pointed => s \in gone \/ (s \in challenges /\ active = s)

\* The counter has seen the wrong codes of the active challenge.
GuessesAreCounted ==
    /\ GuessesPerCode
    /\ \A s \in Sends : wrong[s] > 0 => pc[s] = "sent"
    /\ active # None => wrong[active] <= failures

\* A verification has consumed its challenge, and it alone.
Holds(v) == pc[v] \in {"lookup", "consume", "enrol"}

ChallengesAreUsedOnce ==
    /\ \A s \in challenges : s \notin spent
    /\ \A s \in spent \cap Sends : pc[s] = "sent"
    /\ \A v \in Verifies : Holds(v) =>
          /\ challenge[v] \in Sends /\ challenge[v] \notin challenges \cup spent
          /\ pc[challenge[v]] = "sent"
          /\ device[v] \in Devices /\ device[challenge[v]] = device[v]
    /\ \A v, w \in Verifies :
          Holds(v) /\ Holds(w) /\ challenge[v] = challenge[w] => v = w

\* A verification that enrols has consumed its authorization, and it alone.
TokensAreUsedOnce ==
    /\ authorization # None =>
          authorization \notin spent /\ pc[authorization] \in {"issued", "error"}
    /\ \A l \in spent \cap Logins : pc[l] = "issued"
    /\ \A v \in Verifies : Holds(v) /\ token[v] # None => pc[token[v]] = "issued"
    /\ \A v \in Verifies : pc[v] \in {"consume", "enrol"} => token[v] # None
    /\ \A v \in Verifies : pc[v] = "enrol" =>
          /\ token[v] \notin spent /\ token[v] # authorization
          /\ device[token[v]] = device[v]
    /\ \A v, w \in Verifies :
          pc[v] = "enrol" /\ pc[w] = "enrol" /\ token[v] = token[w] => v = w

IdleNamesNothing == \A c \in Calls : pc[c] = "idle" => device[c] = None

IInv ==
    /\ TypeOK
    /\ CooldownHolds
    /\ CodeIsStored
    /\ GuessesAreCounted
    /\ ChallengesAreUsedOnce
    /\ TokensAreUsedOnce
    /\ IdleNamesNothing
=============================================================================
