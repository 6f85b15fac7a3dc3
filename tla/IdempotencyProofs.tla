-------------------------- MODULE IdempotencyProofs --------------------------
(***************************************************************************)
(* For any attempts and keys: the marker excludes, a success is cached and *)
(* stays so until it expires, a marker left over is a loss's, and the      *)
(* interceptor implements OncePerKey.                                      *)
(*                                                                         *)
(* Every step is one attempt's, or an expiry.  A step of an attempt        *)
(* disturbs another attempt of its key only through the marker and through *)
(* the database, and IInv says what each may rely on there.                *)
(***************************************************************************)
EXTENDS Idempotency, TLAPS

USE DEF history

\* What Redis holds under a key is a response or not, never both.
LEMMA StoreValues ==
    ASSUME NEW a \in Attempts
    PROVE  a \notin NotAttempts
BY AttemptAssumption

LEMMA InitInvariant == Init => IInv
BY KeyAssumption, AttemptAssumption
   DEF Init, IInv, TypeOK, AttemptKnows, MarkerIsHeld, MovedOnce, CacheIsTrue, Busy,
       SuccessIsRemembered, BlockedOnlyByLoss, Results, NotAttempts, SameKey, Stored

\* What the handler does to the attempt it works for.
LEMMA HandlerEffect ==
    ASSUME NEW a \in Attempts
    PROVE  /\ HandlerMoves(a) =>
                /\ moved \cap SameKey(a) = {}
                /\ moved' = moved \cup {a}
                /\ \E r \in {a, "error"} : result' = [result EXCEPT ![a] = r]
           /\ HandlerRefuses(a) =>
                /\ moved' = moved
                /\ \E r \in {"refused", "error"} : result' = [result EXCEPT ![a] = r]
           /\ HandlerMoves(a) \/ HandlerRefuses(a) =>
                /\ pc[a] = "handler"
                /\ Goto(a, "respond")
                /\ UNCHANGED <<store, reply, late, history>>
BY DEF HandlerMoves, HandlerRefuses, Returned, Handler!Move, Handler!Refuse,
   Handler!Return, Handler!SameKey, SameKey

-----------------------------------------------------------------------------
(* Types. *)

LEMMA ReadType ==
    ASSUME TypeOK, NEW a \in Attempts, Arrive(a)
    PROVE  TypeOK'
BY KeyAssumption
   DEF Arrive, ReadMarker, ReadResponse, ReadNothing, ReadFails, Answer, Goto, Stored,
       TypeOK, Results

LEMMA ProceedType ==
    ASSUME TypeOK, NEW a \in Attempts, Proceed(a)
    PROVE  TypeOK'
<1>1. CASE Mark(a) \/ MarkTaken(a) \/ MarkUnconfirmed(a)
  BY <1>1, KeyAssumption
     DEF Mark, MarkTaken, MarkUnconfirmed, SetMarker, Answer, Goto, Stored, TypeOK, Results
<1>2. CASE HandlerMoves(a) \/ HandlerRefuses(a)
  BY <1>2, HandlerEffect DEF Goto, TypeOK, Results
<1>3. CASE RespondSuccess(a) \/ RespondFailure(a)
  BY <1>3 DEF RespondSuccess, RespondFailure, Answer, Goto, TypeOK, Results
<1>4. QED
  BY <1>1, <1>2, <1>3 DEF Proceed

LEMMA SettleType ==
    ASSUME TypeOK, NEW a \in Attempts, Settle(a)
    PROVE  TypeOK'
BY KeyAssumption
   DEF Settle, LateCache, LateRelease, LateLost, Serve, TypeOK

LEMMA ExpireType ==
    ASSUME TypeOK, NEW k \in Keys, Expire(k)
    PROVE  TypeOK'
BY DEF Expire, TypeOK

LEMMA NextType == TypeOK /\ [Next]_vars => TypeOK'
<1> SUFFICES ASSUME TypeOK, [Next]_vars PROVE TypeOK'
  OBVIOUS
<1>1. ASSUME NEW a \in Attempts, Crash(a) PROVE TypeOK'
  BY <1>1 DEF Crash, Goto, TypeOK
<1>2. CASE UNCHANGED vars
  BY <1>2 DEF vars, TypeOK
<1>3. QED
  BY <1>1, <1>2, ReadType, ProceedType, SettleType, ExpireType DEF Next

-----------------------------------------------------------------------------
(* The inductive step, one lemma for each part of the invariant. *)

\* What an attempt knows changes by its own steps, and by the first movement
\* of its key, which can only add to moved.
LEMMA KnowledgeKept ==
    ASSUME IInv, [Next]_vars, NEW b \in Attempts
    PROVE  AttemptKnows(b)'
<1>0. /\ TypeOK /\ AttemptKnows(b) /\ SameKey(b) \subseteq Attempts
      /\ b \notin NotAttempts
  BY StoreValues DEF IInv, SameKey
<1>1. ASSUME NEW a \in Attempts, Arrive(a)
      PROVE  AttemptKnows(b)'
  BY <1>0, <1>1 DEF Arrive, ReadMarker, ReadResponse, ReadNothing, ReadFails, Answer,
     Goto, AttemptKnows, SameKey, TypeOK
<1>2. ASSUME NEW a \in Attempts, Mark(a) \/ MarkTaken(a) \/ MarkUnconfirmed(a)
      PROVE  AttemptKnows(b)'
  BY <1>0, <1>2 DEF Mark, MarkTaken, MarkUnconfirmed, Answer, Goto, AttemptKnows,
     SameKey, TypeOK
<1>3. ASSUME NEW a \in Attempts, HandlerMoves(a)
      PROVE  AttemptKnows(b)'
  <2>1. CASE a = b
    <3>1. PICK r \in {b, "error"} :
             /\ result' = [result EXCEPT ![b] = r]
             /\ pc' = [pc EXCEPT ![b] = "respond"]
             /\ moved' = moved \cup {b}
             /\ UNCHANGED <<reply, late>>
      BY <1>3, <2>1, HandlerEffect DEF Goto
    <3>2. pc[b] = "handler" /\ pc'[b] = "respond" /\ result'[b] = r
      BY <1>0, <1>3, <2>1, <3>1, HandlerEffect DEF TypeOK
    <3>3. r # "none" /\ r # "refused" /\ "error" \notin Attempts
      BY <1>0, AttemptAssumption DEF NotAttempts
    <3>4. QED
      BY <1>0, <3>1, <3>2, <3>3 DEF AttemptKnows
  <2>2. CASE a # b
    BY <1>0, <1>3, <2>2, HandlerEffect DEF Goto, AttemptKnows, TypeOK
  <2>3. QED
    BY <2>1, <2>2
<1>4. ASSUME NEW a \in Attempts, HandlerRefuses(a)
      PROVE  AttemptKnows(b)'
  BY <1>0, <1>4, AttemptAssumption, HandlerEffect DEF Goto, AttemptKnows, TypeOK,
     NotAttempts
<1>5. ASSUME NEW a \in Attempts, RespondSuccess(a) \/ RespondFailure(a)
      PROVE  AttemptKnows(b)'
  BY <1>0, <1>5 DEF RespondSuccess, RespondFailure, Answer, Goto, AttemptKnows, SameKey,
     TypeOK
<1>6. ASSUME NEW a \in Attempts, Settle(a) \/ Crash(a)
      PROVE  AttemptKnows(b)'
  BY <1>0, <1>6 DEF Settle, LateCache, LateRelease, LateLost, Serve, Crash, Goto,
     AttemptKnows, SameKey, TypeOK
<1>7. ASSUME NEW k \in Keys, Expire(k)
      PROVE  AttemptKnows(b)'
  BY <1>0, <1>7 DEF Expire, AttemptKnows, SameKey
<1>8. CASE UNCHANGED vars
  BY <1>0, <1>8 DEF vars, AttemptKnows, SameKey
<1>9. QED
  BY <1>1, <1>2, <1>3, <1>4, <1>5, <1>6, <1>7, <1>8 DEF Next, Proceed

\* Only the first attempt of a key to reach the database moves anything.
LEMMA MovedOnceKept ==
    ASSUME IInv, [Next]_vars
    PROVE  MovedOnce'
<1>1. CASE moved' = moved
  BY <1>1 DEF IInv, MovedOnce
<1>2. ASSUME NEW a \in Attempts, HandlerMoves(a)
      PROVE  MovedOnce'
  BY <1>2, HandlerEffect DEF SameKey, IInv, MovedOnce, TypeOK
<1>3. moved' = moved \/ \E a \in Attempts : HandlerMoves(a)
  BY HandlerEffect
  DEF Next, vars, Arrive, ReadMarker, ReadResponse, ReadNothing, ReadFails, Proceed,
     Mark, MarkTaken, MarkUnconfirmed, RespondSuccess, RespondFailure, Settle, LateCache,
     LateRelease, LateLost, Serve, Crash, Expire
<1>4. QED
  BY <1>1, <1>2, <1>3

\* The values a step may leave in Redis.
LEMMA StoreSteps ==
    ASSUME [Next]_vars, TypeOK
    PROVE  \/ UNCHANGED store
           \/ \E a \in Attempts :
                 /\ pc[a] = "mark" /\ Stored(a) = "absent"
                 /\ store' = [store EXCEPT ![KeyOf[a]] = "PROCESSING"]
           \/ \E a \in Attempts : LateCache(a) \/ LateRelease(a)
           \/ \E k \in Keys : Expire(k)
BY HandlerEffect
DEF Next, vars, Arrive, ReadMarker, ReadResponse, ReadNothing, ReadFails, Proceed,
   Mark, MarkTaken, MarkUnconfirmed, SetMarker, RespondSuccess, RespondFailure, Settle, LateLost,
   Crash

\* What ran out is remembered.
LEMMA ExpiredGrows ==
    ASSUME [Next]_vars, TypeOK, NEW k \in Keys
    PROVE  expired[k] \subseteq expired'[k]
<1>1. ASSUME NEW j \in Keys, Expire(j)
      PROVE  expired[k] \subseteq expired'[k]
  BY <1>1 DEF Expire, TypeOK
<1>2. expired' = expired \/ \E j \in Keys : Expire(j)
  BY HandlerEffect
  DEF Next, vars, Arrive, ReadMarker, ReadResponse, ReadNothing, ReadFails, Proceed,
     Mark, MarkTaken, MarkUnconfirmed, RespondSuccess, RespondFailure, Settle, LateCache,
     LateRelease, LateLost, Serve, Crash
<1>3. QED
  BY <1>1, <1>2

\* Only a success is cached, and under its own key.
LEMMA CacheIsTrueKept ==
    ASSUME IInv, [Next]_vars
    PROVE  CacheIsTrue'
<1>0. TypeOK /\ CacheIsTrue /\ KeyOf \in [Attempts -> Keys]
  BY KeyAssumption DEF IInv
<1>1. moved \subseteq moved'
  BY HandlerEffect
  DEF Next, vars, Arrive, ReadMarker, ReadResponse, ReadNothing, ReadFails, Proceed,
     Mark, MarkTaken, MarkUnconfirmed, RespondSuccess, RespondFailure, Settle, LateCache,
     LateRelease, LateLost, Serve, Crash, Expire
<1>2. "absent" \notin Attempts /\ "PROCESSING" \notin Attempts
  BY AttemptAssumption DEF NotAttempts
<1>3. ASSUME NEW a \in Attempts, LateCache(a)
      PROVE  CacheIsTrue'
  <2>1. a \in moved
    BY <1>3 DEF LateCache, IInv, AttemptKnows
  <2>2. QED
    BY <1>0, <1>1, <1>3, <2>1 DEF LateCache, Serve, CacheIsTrue, TypeOK
<1>4. ASSUME NEW k \in Keys, NEW v \in {"absent", "PROCESSING"},
             store' = [store EXCEPT ![k] = v]
      PROVE  CacheIsTrue'
  BY <1>0, <1>1, <1>2, <1>4 DEF CacheIsTrue, TypeOK
<1>5. CASE UNCHANGED store
  BY <1>0, <1>1, <1>5 DEF CacheIsTrue
<1>6. QED
  BY <1>0, <1>3, <1>4, <1>5, StoreSteps DEF LateRelease, Serve, Expire

\* An attempt becomes busy only by setting the marker where there was nothing,
\* so where nobody was; a busy attempt loses the marker only to its TTL.
LEMMA MarkerIsHeldKept ==
    ASSUME IInv, [Next]_vars
    PROVE  MarkerIsHeld'
<1>0. TypeOK /\ MarkerIsHeld /\ KeyOf \in [Attempts -> Keys]
  BY KeyAssumption DEF IInv
<1>1. ASSUME NEW a \in Attempts, Mark(a)
      PROVE  MarkerIsHeld'
  BY <1>0, <1>1 DEF Mark, SetMarker, Goto, MarkerIsHeld, Busy, SameKey, Stored, TypeOK
<1>2. ASSUME NEW a \in Attempts, MarkUnconfirmed(a)
      PROVE  MarkerIsHeld'
  BY <1>0, <1>2 DEF MarkUnconfirmed, SetMarker, Answer, Goto, MarkerIsHeld, Busy, SameKey, Stored,
     TypeOK
<1>3. ASSUME UNCHANGED <<store, expired>>,
             \A b \in Attempts : Busy(b)' => Busy(b)
      PROVE  MarkerIsHeld'
  BY <1>0, <1>3 DEF MarkerIsHeld, SameKey, Stored
<1>4. ASSUME NEW a \in Attempts, Arrive(a) \/ MarkTaken(a) \/ Crash(a)
      PROVE  MarkerIsHeld'
  <2>1. UNCHANGED <<store, expired>> /\ \A b \in Attempts : Busy(b)' => Busy(b)
    BY <1>0, <1>4 DEF Arrive, ReadMarker, ReadResponse, ReadNothing, ReadFails, MarkTaken,
       Crash, Answer, Goto, Busy, TypeOK
  <2>2. QED
    BY <1>3, <2>1
<1>5. ASSUME NEW a \in Attempts,
             \/ HandlerMoves(a) \/ HandlerRefuses(a)
             \/ RespondSuccess(a) \/ RespondFailure(a)
      PROVE  MarkerIsHeld'
  <2>1. UNCHANGED <<store, expired>> /\ \A b \in Attempts : Busy(b)' => Busy(b)
    BY <1>0, <1>5, HandlerEffect DEF RespondSuccess, RespondFailure, Answer, Goto, Busy,
       TypeOK
  <2>2. QED
    BY <1>3, <2>1
<1>6. ASSUME NEW a \in Attempts, Settle(a)
      PROVE  MarkerIsHeld'
  <2>1. Busy(a) /\ ~Busy(a)' /\ UNCHANGED expired
    BY <1>0, <1>6 DEF IInv, AttemptKnows, Settle, LateCache, LateRelease, LateLost, Serve,
       Busy, TypeOK
  <2>2. \A b \in Attempts \ {a} : Busy(b)' = Busy(b)
    BY <1>0, <1>6 DEF Settle, LateCache, LateRelease, LateLost, Serve, Busy, TypeOK
  <2>3. \A k \in Keys \ {KeyOf[a]} : store'[k] = store[k]
    BY <1>0, <1>6 DEF Settle, LateCache, LateRelease, LateLost, Serve, TypeOK
  <2>4. QED
    BY <1>0, <2>1, <2>2, <2>3 DEF MarkerIsHeld, SameKey, Stored
<1>7. ASSUME NEW k \in Keys, Expire(k)
      PROVE  MarkerIsHeld'
  <2>1. \A b \in Attempts : Busy(b)' = Busy(b)
    BY <1>7 DEF Expire, Busy
  <2>2. \A j \in Keys : expired[j] \subseteq expired'[j]
    BY <1>0, ExpiredGrows
  <2>3. \A j \in Keys \ {k} : store'[j] = store[j]
    BY <1>0, <1>7 DEF Expire, TypeOK
  <2>4. ASSUME NEW b \in Attempts, KeyOf[b] = k, Busy(b), "overrun" \notin expired[k]
        PROVE  "overrun" \in expired'[k]
    <3>1. store[k] = "PROCESSING"
      BY <1>0, <2>4 DEF MarkerIsHeld, Stored
    <3>2. QED
      BY <1>0, <1>7, <2>4, <3>1 DEF Expire, TypeOK
  <2>5. QED
    BY <1>0, <2>1, <2>2, <2>3, <2>4 DEF MarkerIsHeld, SameKey, Stored
<1>8. CASE UNCHANGED vars
  BY <1>0, <1>8 DEF vars, MarkerIsHeld, Busy, SameKey, Stored
<1>9. QED
  BY <1>1, <1>2, <1>4, <1>5, <1>6, <1>7, <1>8 DEF Next, Proceed

\* The answer an attempt gives names the attempt itself only when its handler
\* moved, and then the response is on its way to Redis.
LEMMA OwnSuccess ==
    ASSUME IInv, Next, NEW a \in Attempts, reply'[a] = a
    PROVE  reply[a] = a \/ late'[a] = "cache"
<1>0. TypeOK /\ AttemptKnows(a) /\ CacheIsTrue /\ a \notin NotAttempts
  BY StoreValues DEF IInv
<1>1. ASSUME NEW b \in Attempts, Arrive(b)
      PROVE  reply[a] = a
  <2>1. ReadResponse(a) => Stored(a) # a
    BY <1>0, KeyAssumption DEF ReadResponse, AttemptKnows, CacheIsTrue, Stored
  <2>2. QED
    BY <1>0, <1>1, <2>1 DEF Arrive, ReadMarker, ReadResponse, ReadNothing, ReadFails, Answer,
       NotAttempts, TypeOK
<1>2. ASSUME NEW b \in Attempts, Mark(b) \/ MarkTaken(b) \/ MarkUnconfirmed(b)
      PROVE  reply[a] = a
  BY <1>0, <1>2 DEF Mark, MarkTaken, MarkUnconfirmed, Answer, NotAttempts, TypeOK
<1>3. ASSUME NEW b \in Attempts, HandlerMoves(b) \/ HandlerRefuses(b)
      PROVE  reply[a] = a
  BY <1>3, HandlerEffect
<1>4. ASSUME NEW b \in Attempts, RespondSuccess(b) \/ RespondFailure(b)
      PROVE  reply[a] = a \/ late'[a] = "cache"
  BY <1>0, <1>4 DEF RespondSuccess, RespondFailure, Answer, TypeOK
<1>5. ASSUME \/ \E b \in Attempts : Settle(b) \/ Crash(b)
             \/ \E k \in Keys : Expire(k)
      PROVE  reply[a] = a
  BY <1>5 DEF Settle, LateCache, LateRelease, LateLost, Serve, Crash, Expire
<1>6. QED
  BY <1>1, <1>2, <1>3, <1>4, <1>5 DEF Next, Proceed

\* A command on its way stays so until it is served or lost.
LEMMA LateSteps ==
    ASSUME IInv, Next, NEW a \in Attempts, late[a] = "cache", a \notin lost'
    PROVE  late'[a] = "cache" \/ LateCache(a)
<1>0. TypeOK /\ pc[a] = "done"
  BY DEF IInv, AttemptKnows
<1>1. ASSUME NEW b \in Attempts, Settle(b)
      PROVE  late'[a] = "cache" \/ LateCache(a)
  BY <1>0, <1>1 DEF Settle, LateCache, LateRelease, LateLost, Serve, TypeOK
<1>2. ASSUME NEW b \in Attempts, Arrive(b) \/ Proceed(b) \/ Crash(b)
      PROVE  late'[a] = "cache"
  BY <1>0, <1>2, HandlerEffect
  DEF Arrive, ReadMarker, ReadResponse, ReadNothing, ReadFails, Proceed, Mark, MarkTaken,
      MarkUnconfirmed, RespondSuccess, RespondFailure, Crash, TypeOK
<1>3. ASSUME NEW k \in Keys, Expire(k)
      PROVE  late'[a] = "cache"
  BY <1>3 DEF Expire
<1>4. QED
  BY <1>1, <1>2, <1>3 DEF Next

\* What a step leaves of a response that is in Redis.
LEMMA ResponseStays ==
    ASSUME IInv, [Next]_vars, NEW k \in Keys, store[k] \in Attempts, expired'[k] = {}
    PROVE  store'[k] = store[k]
<1>1. TypeOK /\ KeyOf \in [Attempts -> Keys]
  BY KeyAssumption DEF IInv
<1>2. store[k] # "absent" /\ store[k] # "PROCESSING"
  BY AttemptAssumption DEF NotAttempts
<1>3. expired[k] = {}
  BY <1>1, ExpiredGrows
<1>4. ASSUME NEW j \in Keys, Expire(j)
      PROVE  store'[k] = store[k]
  <2>1. j # k
    BY <1>1, <1>2, <1>4 DEF Expire, TypeOK
  <2>2. QED
    BY <1>1, <1>4, <2>1 DEF Expire, TypeOK
<1>5. ASSUME NEW a \in Attempts, LateCache(a) \/ LateRelease(a)
      PROVE  store'[k] = store[k]
  <2>1. Busy(a)
    BY <1>5 DEF LateCache, LateRelease, Busy
  <2>2. KeyOf[a] # k
    BY <1>2, <1>3, <2>1 DEF IInv, MarkerIsHeld, Stored
  <2>3. QED
    BY <1>1, <1>5, <2>2 DEF LateCache, LateRelease, Serve, TypeOK
<1>6. ASSUME NEW a \in Attempts, Stored(a) = "absent",
             store' = [store EXCEPT ![KeyOf[a]] = "PROCESSING"]
      PROVE  store'[k] = store[k]
  BY <1>1, <1>2, <1>6 DEF Stored, TypeOK
<1>7. QED
  BY <1>1, <1>4, <1>5, <1>6, StoreSteps

LEMMA SuccessIsRememberedKept ==
    ASSUME IInv, [Next]_vars
    PROVE  SuccessIsRemembered'
<1>0. TypeOK /\ SuccessIsRemembered /\ KeyOf \in [Attempts -> Keys]
  BY KeyAssumption DEF IInv
<1>1. lost \subseteq lost'
  BY HandlerEffect
  DEF Next, vars, Arrive, ReadMarker, ReadResponse, ReadNothing, ReadFails, Proceed,
     Mark, MarkTaken, MarkUnconfirmed, RespondSuccess, RespondFailure, Settle, LateCache,
     LateRelease, LateLost, Serve, Crash, Expire
<1>2. ASSUME NEW a \in Attempts, reply'[a] = a, a \notin lost', expired'[KeyOf[a]] = {},
             Next
      PROVE  late'[a] = "cache" \/ store'[KeyOf[a]] = a
  <2>1. expired[KeyOf[a]] = {} /\ a \notin lost
    BY <1>0, <1>1, <1>2, ExpiredGrows
  <2>2. CASE reply[a] # a
    BY <1>2, <2>2, OwnSuccess
  <2>3. CASE reply[a] = a /\ Stored(a) = a
    BY <1>0, <1>2, <2>3, ResponseStays DEF Stored
  <2>4. CASE late[a] = "cache"
    <3>1. LateCache(a) => store'[KeyOf[a]] = a
      BY <1>0 DEF LateCache, Serve, TypeOK
    <3>2. QED
      BY <1>2, <2>4, <3>1, LateSteps
  <2>5. QED
    BY <1>0, <2>1, <2>2, <2>3, <2>4 DEF SuccessIsRemembered
<1>3. CASE UNCHANGED vars
  BY <1>0, <1>3 DEF vars, SuccessIsRemembered, Stored
<1>4. QED
  BY <1>2, <1>3 DEF SuccessIsRemembered, Stored

\* An attempt stops being busy by serving its command, which replaces the
\* marker, or by a loss.
LEMMA BlockedOnlyByLossKept ==
    ASSUME IInv, [Next]_vars
    PROVE  BlockedOnlyByLoss'
<1>0. TypeOK /\ BlockedOnlyByLoss /\ KeyOf \in [Attempts -> Keys]
  BY KeyAssumption DEF IInv
<1>1. "absent" # "PROCESSING" /\ "PROCESSING" \notin Attempts
  BY AttemptAssumption DEF NotAttempts
<1>2. ASSUME NEW a \in Attempts, Mark(a)
      PROVE  BlockedOnlyByLoss'
  BY <1>0, <1>2 DEF Mark, SetMarker, Goto, BlockedOnlyByLoss, Busy, TypeOK
<1>3. ASSUME NEW a \in Attempts, MarkUnconfirmed(a)
      PROVE  BlockedOnlyByLoss'
  BY <1>0, <1>3 DEF MarkUnconfirmed, SetMarker, Answer, Goto, BlockedOnlyByLoss, Busy, TypeOK
<1>4. ASSUME UNCHANGED <<store, owner>>, lost \subseteq lost',
             \A b \in Attempts : Busy(b) => Busy(b)' \/ b \in lost'
      PROVE  BlockedOnlyByLoss'
  BY <1>0, <1>4 DEF BlockedOnlyByLoss
<1>5. ASSUME NEW a \in Attempts, Arrive(a) \/ MarkTaken(a) \/ Crash(a) \/ LateLost(a)
      PROVE  BlockedOnlyByLoss'
  <2>1. /\ UNCHANGED <<store, owner>> /\ lost \subseteq lost'
        /\ \A b \in Attempts : Busy(b) => Busy(b)' \/ b \in lost'
    BY <1>0, <1>5 DEF Arrive, ReadMarker, ReadResponse, ReadNothing, ReadFails, MarkTaken,
       Crash, LateLost, Answer, Goto, Busy, TypeOK
  <2>2. QED
    BY <1>4, <2>1
<1>6. ASSUME NEW a \in Attempts,
             \/ HandlerMoves(a) \/ HandlerRefuses(a)
             \/ RespondSuccess(a) \/ RespondFailure(a)
      PROVE  BlockedOnlyByLoss'
  <2>1. /\ UNCHANGED <<store, owner, lost>>
        /\ \A b \in Attempts : Busy(b) => Busy(b)'
    BY <1>0, <1>6, HandlerEffect DEF RespondSuccess, RespondFailure, Answer, Goto, Busy,
       TypeOK
  <2>2. QED
    BY <1>4, <2>1
<1>7. ASSUME NEW a \in Attempts, LateCache(a) \/ LateRelease(a)
      PROVE  BlockedOnlyByLoss'
  <2>1. /\ store'[KeyOf[a]] # "PROCESSING" /\ UNCHANGED <<owner, lost>>
        /\ \A k \in Keys \ {KeyOf[a]} : store'[k] = store[k]
        /\ \A b \in Attempts \ {a} : Busy(b)' = Busy(b)
    BY <1>0, <1>1, <1>7 DEF LateCache, LateRelease, Serve, Busy, TypeOK
  <2>2. QED
    BY <1>0, <2>1 DEF BlockedOnlyByLoss
<1>8. ASSUME NEW k \in Keys, Expire(k)
      PROVE  BlockedOnlyByLoss'
  BY <1>0, <1>1, <1>8 DEF Expire, BlockedOnlyByLoss, Busy, TypeOK
<1>9. CASE UNCHANGED vars
  BY <1>0, <1>9 DEF vars, BlockedOnlyByLoss, Busy
<1>10. QED
  BY <1>2, <1>3, <1>5, <1>6, <1>7, <1>8, <1>9 DEF Next, Proceed, Settle

LEMMA NextInvariant == IInv /\ [Next]_vars => IInv'
BY NextType, KnowledgeKept, MarkerIsHeldKept, MovedOnceKept, CacheIsTrueKept,
   SuccessIsRememberedKept, BlockedOnlyByLossKept
   DEF IInv

\* The invariant of the interceptor: what every attempt, every marker and every
\* cached response can be relied on for, whatever Redis loses or forgets.
THEOREM Invariance == Spec => []IInv
BY InitInvariant, NextInvariant, PTL DEF Spec

-----------------------------------------------------------------------------
(* What follows. *)

\* Every reachable state of the attempts under a key is well typed.
THEOREM TypeCorrect == Spec => []TypeOK
<1>1. IInv => TypeOK
  BY DEF IInv
<1>2. QED
  BY <1>1, Invariance, PTL

\* Unless an attempt outlives its marker, the handler works for one attempt
\* per key at a time.
THEOREM MarkerIsExclusive == Spec => []MarkerExcludes
<1>1. IInv => MarkerExcludes
  BY DEF IInv, MarkerIsHeld, MarkerExcludes, Busy, SameKey
<1>2. QED
  BY <1>1, Invariance, PTL

\* Redis holds no response of a transfer that did not happen under the key.
THEOREM CachedIsTrue == Spec => []CacheIsTrue
<1>1. IInv => CacheIsTrue
  BY DEF IInv
<1>2. QED
  BY <1>1, Invariance, PTL

\* A cached response is replaced or deleted by nothing but its TTL, as long as
\* no attempt outlived its marker.
THEOREM CachedStays == Spec => ResponseIsKept
<1>1. IInv /\ [Next]_vars => CachedUntilExpiry
  BY ResponseStays DEF CachedUntilExpiry
<1>2. QED
  BY <1>1, Invariance, PTL DEF Spec, ResponseIsKept

\* A reported success is cached or about to be, unless that write was lost or a
\* TTL ran out.
THEOREM SuccessesAreRemembered == Spec => []SuccessIsRemembered
<1>1. IInv => SuccessIsRemembered
  BY DEF IInv
<1>2. QED
  BY <1>1, Invariance, PTL

\* Only an attempt at work, a crash or a lost command keeps a key marked.
THEOREM MarkersAreOwned == Spec => []BlockedOnlyByLoss
<1>1. IInv => BlockedOnlyByLoss
  BY DEF IInv
<1>2. QED
  BY <1>1, Invariance, PTL

-----------------------------------------------------------------------------
(* The refinement. *)

\* An answer is one the promise allows.
LEMMA AnswerTells ==
    ASSUME IInv, NEW a \in Attempts, pc[a] # "done", NEW r, Answer(a, r), UNCHANGED moved,
           \/ r \in moved \cap SameKey(a)
           \/ r \in {"refused", "wait"} /\ a \notin moved
           \/ r = "error"
    PROVE  Once!Tell(a)
<1>1. reply[a] = "none"
  BY DEF IInv, AttemptKnows
<1>2. Once!SameKey(a) = SameKey(a)
  BY DEF Once!SameKey, SameKey
<1>3. QED
  BY <1>1, <1>2 DEF Answer, Once!Tell

\* Each step moves, tells, or leaves both as they were.
LEMMA StepImplements ==
    ASSUME IInv, Next
    PROVE  Once!Next \/ UNCHANGED Once!vars
<1>0. TypeOK /\ CacheIsTrue /\ KeyOf \in [Attempts -> Keys]
  BY KeyAssumption DEF IInv
<1>1. ASSUME NEW a \in Attempts, ReadResponse(a)
      PROVE  Once!Tell(a)
  <2>1. Stored(a) \in moved \cap SameKey(a)
    BY <1>0, <1>1 DEF ReadResponse, CacheIsTrue, SameKey, Stored
  <2>2. QED
    BY <1>1, <2>1, AnswerTells DEF ReadResponse
<1>2. ASSUME NEW a \in Attempts,
             ReadMarker(a) \/ ReadFails(a) \/ MarkTaken(a) \/ MarkUnconfirmed(a)
      PROVE  Once!Tell(a)
  <2>1. a \notin moved
    BY <1>2 DEF IInv, AttemptKnows, ReadMarker, ReadFails, MarkTaken, MarkUnconfirmed
  <2>2. QED
    BY <1>2, <2>1, AnswerTells DEF ReadMarker, ReadFails, MarkTaken, MarkUnconfirmed
<1>3. ASSUME NEW a \in Attempts, RespondSuccess(a) \/ RespondFailure(a)
      PROVE  Once!Tell(a)
  <2>1. /\ AttemptKnows(a) /\ pc[a] = "respond" /\ Answer(a, result[a])
        /\ UNCHANGED moved /\ a \in SameKey(a) /\ result[a] \in Results
    BY <1>0, <1>3 DEF IInv, RespondSuccess, RespondFailure, SameKey, TypeOK
  <2>2. \/ result[a] \in moved \cap SameKey(a)
        \/ result[a] = "refused" /\ a \notin moved
        \/ result[a] = "error"
    BY <2>1, StoreValues DEF AttemptKnows, Results, NotAttempts
  <2>3. QED
    BY <2>1, <2>2, AnswerTells
<1>4. ASSUME NEW a \in Attempts, HandlerMoves(a)
      PROVE  Once!Move(a)
  BY <1>4, HandlerEffect DEF IInv, AttemptKnows, Once!Move, Once!SameKey, SameKey
<1>5. ASSUME NEW a \in Attempts,
             \/ ReadNothing(a) \/ Mark(a) \/ HandlerRefuses(a) \/ Settle(a) \/ Crash(a)
      PROVE  UNCHANGED Once!vars
  BY <1>5, HandlerEffect DEF ReadNothing, Mark, Settle, LateCache, LateRelease, LateLost,
     Serve, Crash, Once!vars
<1>6. ASSUME NEW k \in Keys, Expire(k)
      PROVE  UNCHANGED Once!vars
  BY <1>6 DEF Expire, Once!vars
<1>7. QED
  BY <1>1, <1>2, <1>3, <1>4, <1>5, <1>6 DEF Next, Arrive, Proceed, Once!Next

\* The attempts of a key move money once and each is told the truth: the
\* interceptor in front of the database's unique index implements OncePerKey.
THEOREM Refinement == Spec => ImplementsOnce
<1>1. Init => Once!Init
  BY DEF Init, Once!Init
<1>2. IInv /\ [Next]_vars => [Once!Next]_Once!vars
  BY StepImplements DEF vars, Once!vars
<1>3. QED
  BY <1>1, <1>2, Invariance, PTL DEF Spec, ImplementsOnce, Once!Spec
=============================================================================
