----------------------------- MODULE Idempotency -----------------------------
(***************************************************************************)
(* The idempotency interceptor in front of the money requests, over Redis. *)
(*                                                                         *)
(* An attempt is one HTTP request; a client that retries makes several     *)
(* under one x-idempotency-key.  idempotency.interceptor.ts looks the key  *)
(* up, marks it PROCESSING, runs the handler, and then stores the response *)
(* or deletes the marker without waiting for Redis.  Attempts may run in   *)
(* several server processes, so those last commands reach Redis late, or   *)
(* never.  Every Redis command is atomic; a key disappears when its TTL    *)
(* runs out, which may be at any time.                                     *)
(*                                                                         *)
(* The handler is transactions.service.ts as KeyedHandler describes it,    *)
(* which Transfers implements.                                             *)
(***************************************************************************)
CONSTANTS
    Attempts, \* HTTP requests, each handled once
    Keys,     \* values of the x-idempotency-key header
    KeyOf     \* attempt -> its key

ASSUME KeyAssumption == KeyOf \in [Attempts -> Keys]

NotAttempts == {"none", "wait", "refused", "error", "absent", "PROCESSING"}
ASSUME AttemptAssumption == Attempts \cap NotAttempts = {}

VARIABLES
    store,   \* what Redis holds under a key; a response is named by its attempt
    moved,   \* attempts whose transfer the database committed
    pc,      \* where each attempt stands
    result,  \* what the handler returned or threw
    reply,   \* what the client was told
    late,    \* the Redis command issued after the handler and not yet served
    expired, \* history: what ran out under a key
    owner,   \* history: the attempt that last marked a key
    lost     \* history: attempts that crashed, or one of whose commands Redis
             \* lost or did not confirm

history == <<expired, owner, lost>>
vars == <<store, moved, pc, result, reply, late, history>>

Results == Attempts \cup {"none", "refused", "error"}

TypeOK ==
    /\ store \in [Keys -> Attempts \cup {"absent", "PROCESSING"}]
    /\ moved \subseteq Attempts
    /\ pc \in [Attempts -> {"idle", "mark", "handler", "respond", "done", "crashed"}]
    /\ result \in [Attempts -> Results]
    /\ reply \in [Attempts -> Results \cup {"wait"}]
    /\ late \in [Attempts -> {"none", "cache", "release"}]
    /\ expired \in [Keys -> SUBSET {"response", "overrun"}]
    /\ owner \in [Keys -> Attempts \cup {"none"}]
    /\ lost \subseteq Attempts

Init ==
    /\ store = [k \in Keys |-> "absent"]
    /\ moved = {}
    /\ pc = [a \in Attempts |-> "idle"]
    /\ result = [a \in Attempts |-> "none"]
    /\ reply = [a \in Attempts |-> "none"]
    /\ late = [a \in Attempts |-> "none"]
    /\ expired = [k \in Keys |-> {}]
    /\ owner = [k \in Keys |-> "none"]
    /\ lost = {}

Stored(a) == store[KeyOf[a]]

Goto(a, step) == pc' = [pc EXCEPT ![a] = step]

Answer(a, r) ==
    /\ Goto(a, "done")
    /\ reply' = [reply EXCEPT ![a] = r]

-----------------------------------------------------------------------------
(* Before the handler. *)

\* State A: another attempt is at work.
ReadMarker(a) ==
    /\ pc[a] = "idle"
    /\ Stored(a) = "PROCESSING"
    /\ Answer(a, "wait")
    /\ UNCHANGED <<store, moved, result, late, history>>

\* State B: the response of an earlier attempt.
ReadResponse(a) ==
    /\ pc[a] = "idle"
    /\ Stored(a) \in Attempts
    /\ Answer(a, Stored(a))
    /\ UNCHANGED <<store, moved, result, late, history>>

\* State C.  get also answers null while Redis is not connected, whatever the
\* key holds.
ReadNothing(a) ==
    /\ pc[a] = "idle"
    /\ Goto(a, "mark")
    /\ UNCHANGED <<store, moved, result, reply, late, history>>

\* get does not catch an error of a connected client.
ReadFails(a) ==
    /\ pc[a] = "idle"
    /\ Answer(a, "error")
    /\ UNCHANGED <<store, moved, result, late, history>>

SetMarker(a) ==
    /\ store' = [store EXCEPT ![KeyOf[a]] = "PROCESSING"]
    /\ owner' = [owner EXCEPT ![KeyOf[a]] = a]

\* Faulty: SET without NX.
MarkAlways(a) ==
    /\ pc[a] = "mark"
    /\ SetMarker(a)
    /\ Goto(a, "handler")
    /\ UNCHANGED <<moved, result, reply, late, expired, lost>>

\* SET key PROCESSING EX ttl NX.
Mark(a) ==
    /\ pc[a] = "mark"
    /\ Stored(a) = "absent"
    /\ SetMarker(a)
    /\ Goto(a, "handler")
    /\ UNCHANGED <<moved, result, reply, late, expired, lost>>

MarkTaken(a) ==
    /\ pc[a] = "mark"
    /\ Stored(a) # "absent"
    /\ Answer(a, "wait")
    /\ UNCHANGED <<store, moved, result, late, history>>

\* set answers false: Redis is not connected, failed, or took the command and
\* the confirmation was lost.
MarkUnconfirmed(a) ==
    /\ pc[a] = "mark"
    /\ \/ UNCHANGED <<store, owner>>
       \/ Stored(a) = "absent" /\ SetMarker(a)
    /\ lost' = lost \cup {a}
    /\ Answer(a, "wait")
    /\ UNCHANGED <<moved, result, late, expired>>

-----------------------------------------------------------------------------
(* The handler. *)

SameKey(a) == {b \in Attempts : KeyOf[b] = KeyOf[a]}

Handler == INSTANCE KeyedHandler WITH keyOf <- KeyOf

Returned(a) ==
    /\ pc[a] = "handler"
    /\ Goto(a, "respond")
    /\ UNCHANGED <<store, reply, late, history>>

\* Faulty: the database does not know the key.
MoveAgain(a) ==
    /\ Returned(a)
    /\ moved' = moved \cup {a}
    /\ \E r \in {a, "error"} : Handler!Return(a, r)

HandlerMoves(a) == Returned(a) /\ Handler!Move(a)
HandlerRefuses(a) == Returned(a) /\ Handler!Refuse(a)

-----------------------------------------------------------------------------
(* After the handler: answers do not wait for Redis. *)

\* tap.
RespondSuccess(a) ==
    /\ pc[a] = "respond"
    /\ result[a] \in Attempts
    /\ Answer(a, result[a])
    /\ late' = [late EXCEPT ![a] = "cache"]
    /\ UNCHANGED <<store, moved, result, history>>

\* Faulty: what the handler threw is cached like a response.
CacheFailure(a) ==
    /\ pc[a] = "respond"
    /\ result[a] \notin Attempts
    /\ Answer(a, result[a])
    /\ late' = [late EXCEPT ![a] = "cache"]
    /\ UNCHANGED <<store, moved, result, history>>

\* Faulty: what failed leaves its marker to the TTL.
LeaveMarker(a) ==
    /\ pc[a] = "respond"
    /\ result[a] \notin Attempts
    /\ Answer(a, result[a])
    /\ UNCHANGED <<store, moved, result, late, history>>

\* catchError.
RespondFailure(a) ==
    /\ pc[a] = "respond"
    /\ result[a] \notin Attempts
    /\ Answer(a, result[a])
    /\ late' = [late EXCEPT ![a] = "release"]
    /\ UNCHANGED <<store, moved, result, history>>

Serve(a, value) ==
    /\ store' = [store EXCEPT ![KeyOf[a]] = value]
    /\ late' = [late EXCEPT ![a] = "none"]
    /\ UNCHANGED <<moved, pc, result, reply, history>>

\* Both commands act on whatever the key holds by then.
LateCache(a) == late[a] = "cache" /\ Serve(a, a)
LateRelease(a) == late[a] = "release" /\ Serve(a, "absent")

\* The command fails, which is only logged, or its process crashes first.
LateLost(a) ==
    /\ late[a] # "none"
    /\ late' = [late EXCEPT ![a] = "none"]
    /\ lost' = lost \cup {a}
    /\ UNCHANGED <<store, moved, pc, result, reply, expired, owner>>

-----------------------------------------------------------------------------
(* Failures and time. *)

Crash(a) ==
    /\ pc[a] \in {"mark", "handler", "respond"}
    /\ Goto(a, "crashed")
    /\ lost' = lost \cup {a}
    /\ UNCHANGED <<store, moved, result, reply, late, expired, owner>>

\* An attempt that still needs its marker.
Busy(a) == pc[a] \in {"handler", "respond"} \/ late[a] # "none"

\* PROCESSING_TTL_SECONDS or IDEMPOTENCY_TTL_SECONDS have passed.
Expire(k) ==
    /\ store[k] # "absent"
    /\ store' = [store EXCEPT ![k] = "absent"]
    /\ expired' = [expired EXCEPT ![k] = @ \cup
           IF store[k] # "PROCESSING" THEN {"response"}
           ELSE IF \E a \in Attempts : KeyOf[a] = k /\ Busy(a) THEN {"overrun"}
           ELSE {}]
    /\ UNCHANGED <<moved, pc, result, reply, late, owner, lost>>

-----------------------------------------------------------------------------
(* The specification. *)

Arrive(a) == ReadMarker(a) \/ ReadResponse(a) \/ ReadNothing(a) \/ ReadFails(a)

Proceed(a) ==
    \/ Mark(a) \/ MarkTaken(a) \/ MarkUnconfirmed(a)
    \/ HandlerMoves(a) \/ HandlerRefuses(a)
    \/ RespondSuccess(a) \/ RespondFailure(a)

Settle(a) == LateCache(a) \/ LateRelease(a) \/ LateLost(a)

Next ==
    \/ \E a \in Attempts : Arrive(a) \/ Proceed(a) \/ Settle(a) \/ Crash(a)
    \/ \E k \in Keys : Expire(k)

Spec == Init /\ [][Next]_vars

-----------------------------------------------------------------------------
(* Properties. *)

\* While no marker runs out under an attempt that still needs it, the handler
\* works for one attempt per key at a time, however late the commands that
\* delete markers arrive.
MarkerExcludes ==
    \A a, b \in Attempts :
        /\ "overrun" \notin expired[KeyOf[a]]
        /\ KeyOf[a] = KeyOf[b]
        /\ pc[a] \in {"handler", "respond"} /\ pc[b] \in {"handler", "respond"}
        => a = b

\* A response, once cached, stays until its TTL runs out: no failing attempt
\* deletes it and no marker replaces it, unless an attempt outlived its marker.
CachedUntilExpiry ==
    \A k \in Keys : store[k] \in Attempts /\ expired'[k] = {} => store'[k] = store[k]
ResponseIsKept == [][CachedUntilExpiry]_vars

\* What is cached is the response of a transfer that happened under this key:
\* an error is never cached, also not when the handler outlives its marker.
CacheIsTrue ==
    \A k \in Keys : store[k] \in Attempts => store[k] \in moved /\ KeyOf[store[k]] = k

\* Whatever Redis loses, delays or forgets, the attempts of a key move money
\* once and each is told the truth.
Once == INSTANCE OncePerKey WITH told <- reply
ImplementsOnce == Once!Spec

\* A success that was reported is in the cache, or the command that puts it
\* there is still on its way: what other attempts of the key do at the same time,
\* or their deletes that arrive late, never leave the key without it.  Only the
\* loss of that one command, or a TTL, does.
SuccessIsRemembered ==
    \A a \in Attempts :
        reply[a] = a /\ a \notin lost /\ expired[KeyOf[a]] = {} =>
            late[a] = "cache" \/ Stored(a) = a

\* A marker is that of an attempt at work, or its attempt crashed, or Redis lost
\* one of its commands: every other way out of the interceptor frees the key
\* without waiting for the TTL, also when markers expire under their attempts.
BlockedOnlyByLoss ==
    \A k \in Keys : store[k] = "PROCESSING" =>
        /\ owner[k] \in Attempts /\ KeyOf[owner[k]] = k
        /\ Busy(owner[k]) \/ owner[k] \in lost

\* A key under which a success was reported is not processed again while the
\* 24 hours of its response last.
NotReprocessed ==
    \A a \in Attempts :
        pc[a] = "handler" /\ "response" \notin expired[KeyOf[a]] =>
            \A b \in SameKey(a) : reply[b] # b

-----------------------------------------------------------------------------
(* The inductive invariant. *)

\* What an attempt has done by the time it stands where it stands.
AttemptKnows(a) ==
    /\ a \in moved => pc[a] \in {"respond", "done", "crashed"}
    /\ a \in moved /\ pc[a] = "respond" => result[a] \in {a, "error"}
    /\ result[a] \in Attempts => result[a] = a /\ a \in moved
    /\ result[a] = "refused" => a \notin moved
    /\ pc[a] = "respond" => result[a] # "none"
    /\ reply[a] # "none" => pc[a] = "done"
    /\ late[a] # "none" => pc[a] = "done"
    /\ late[a] = "cache" => a \in moved

\* A busy attempt has the marker to itself as long as none ran out.
MarkerIsHeld ==
    \A a \in Attempts :
        "overrun" \notin expired[KeyOf[a]] /\ Busy(a) =>
            /\ Stored(a) = "PROCESSING"
            /\ \A b \in SameKey(a) : Busy(b) => a = b

MovedOnce == \A a, b \in moved : KeyOf[a] = KeyOf[b] => a = b

IInv ==
    /\ TypeOK
    /\ \A a \in Attempts : AttemptKnows(a)
    /\ MarkerIsHeld
    /\ MovedOnce
    /\ CacheIsTrue
    /\ SuccessIsRemembered
    /\ BlockedOnlyByLoss
=============================================================================
