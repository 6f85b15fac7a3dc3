------------------------- MODULE LoginThrottleProofs -------------------------
(***************************************************************************)
(* For any number of clients and any limit and times: the state is well    *)
(* typed, and wrong PINs stay bounded.  The invariant counts the clients   *)
(* at some steps of a login, so the lemmas say how a step of one client    *)
(* changes the two counts.                                                 *)
(***************************************************************************)
EXTENDS LoginThrottle, FiniteSetTheorems, TLAPS

Storing == At({"store"})
Guessing == At({"verify", "record"})

LEMMA AtIsFinite ==
    ASSUME NEW steps
    PROVE  IsFiniteSet(At(steps)) /\ Cardinality(At(steps)) \in Nat
<1>1. At(steps) \in SUBSET Clients
  BY DEF At
<1>2. QED
  BY <1>1, ClientAssumption, FS_Subset, FS_CardinalityType

\* Nobody stores a throttle and guesses at once.
LEMMA CountsAddUp ==
    /\ Cardinality(Storing) \in Nat
    /\ Cardinality(Guessing) \in Nat
    /\ Cardinality(Storing) + Cardinality(Guessing) <= Cardinality(Clients)
<1>1. Storing \cap Guessing = {} /\ Storing \cup Guessing \in SUBSET Clients
  BY DEF Storing, Guessing, At
<1>2. IsFiniteSet(Storing) /\ IsFiniteSet(Guessing)
  BY AtIsFinite DEF Storing, Guessing
<1>3. /\ Cardinality(Storing) \in Nat /\ Cardinality(Guessing) \in Nat
      /\ Cardinality(Clients) \in Nat
  BY <1>2, ClientAssumption, FS_CardinalityType
<1>4. Cardinality(Storing \cup Guessing) = Cardinality(Storing) + Cardinality(Guessing) - 0
  BY <1>1, <1>2, FS_Union, FS_EmptySet
<1>5. Cardinality(Storing \cup Guessing) <= Cardinality(Clients)
  BY <1>1, ClientAssumption, FS_Subset
<1>6. QED
  BY <1>3, <1>4, <1>5

One(b) == IF b THEN 1 ELSE 0

\* A client that moves is counted where it arrives, and no longer where it was.
LEMMA MoveCounts ==
    ASSUME TypeOK, NEW c \in Clients, NEW step, Goto(c, step), NEW steps
    PROVE  Cardinality(At(steps)') + One(pc[c] \in steps)
               = Cardinality(At(steps)) + One(step \in steps)
<1> DEFINE Rest == At(steps) \ {c}
<1>1. IsFiniteSet(At(steps)) /\ Cardinality(At(steps)) \in Nat
  BY AtIsFinite
<1>2. c \in At(steps) <=> pc[c] \in steps
  BY DEF At
<1>3. /\ IsFiniteSet(Rest) /\ c \notin Rest
      /\ Cardinality(Rest) =
            IF pc[c] \in steps THEN Cardinality(At(steps)) - 1 ELSE Cardinality(At(steps))
  BY <1>1, <1>2, FS_RemoveElement
<1>4. At(steps)' = IF step \in steps THEN Rest \cup {c} ELSE Rest
  BY DEF TypeOK, Goto, At
<1>5. Cardinality(Rest \cup {c}) = Cardinality(Rest) + 1
  BY <1>3, FS_AddElement
<1>6. Cardinality(Rest) \in Nat
  BY <1>3, FS_CardinalityType
<1>7. QED
  BY <1>1, <1>3, <1>4, <1>5, <1>6 DEF One

\* What a move means for the two counts.
LEMMA TwoCounts ==
    ASSUME TypeOK, NEW c \in Clients, NEW step \in Steps, Goto(c, step)
    PROVE  /\ Cardinality(Storing') + One(pc[c] = "store")
                  = Cardinality(Storing) + One(step = "store")
           /\ Cardinality(Guessing') + One(pc[c] \in {"verify", "record"})
                  = Cardinality(Guessing) + One(step \in {"verify", "record"})
<1>1. Cardinality(At({"store"})') + One(pc[c] \in {"store"})
          = Cardinality(At({"store"})) + One(step \in {"store"})
  BY MoveCounts
<1>2. Cardinality(At({"verify", "record"})') + One(pc[c] \in {"verify", "record"})
          = Cardinality(At({"verify", "record"})) + One(step \in {"verify", "record"})
  BY MoveCounts
<1>3. QED
  BY <1>1, <1>2 DEF Storing, Guessing, One

-----------------------------------------------------------------------------
(* Types. *)

LEMMA InitType == Init => TypeOK
BY ConfigAssumption DEF Init, TypeOK, Steps

LEMMA NextType == TypeOK /\ [Next]_vars => TypeOK'
<1> SUFFICES ASSUME TypeOK, [Next]_vars
             PROVE  TypeOK'
  OBVIOUS
<1> USE ConfigAssumption DEF TypeOK
<1>1. ASSUME NEW c \in Clients, NotThrottled(c) \/ Verify(c)
      PROVE  TypeOK'
  BY <1>1 DEF NotThrottled, Verify, Goto, Steps
<1>2. ASSUME NEW c \in Clients, Record(c) \/ RecordUnconfirmed(c) \/ StoreThrottle(c)
      PROVE  TypeOK'
  BY <1>2 DEF Record, RecordUnconfirmed, StoreThrottle, Bumped, Goto, Steps
<1>3. ASSUME NEW c \in Clients, ClearFailures(c) \/ ClearLost(c) \/ LiftThrottle(c) \/ Fail(c)
      PROVE  TypeOK'
  BY <1>3 DEF ClearFailures, ClearLost, LiftThrottle, Fail, Less, Goto, Steps
<1>4. CASE Tick
  BY <1>4 DEF Tick, Less
<1>5. CASE UNCHANGED vars
  BY <1>5 DEF vars
<1>6. QED
  BY <1>1, <1>2, <1>3, <1>4, <1>5 DEF Next, Login

-----------------------------------------------------------------------------
(* The limit. *)

\* The invariant in terms of the two counts.
Limit(n, f, t, storing, guessing) ==
    /\ f < MaxFailures => n <= f
    /\ t = 0 => n < MaxFailures + storing
    /\ t > 0 => n + guessing < MaxFailures + Cardinality(Clients)

LEMMA LimitReads ==
    LimitIsComing <=>
        /\ window = 0 => failures = 0
        /\ Limit(guesses, failures, throttle, Cardinality(Storing), Cardinality(Guessing))
BY DEF LimitIsComing, Limit, Storing, Guessing

LEMMA LoginKeepsLimit ==
    ASSUME IInv, NEW c \in Clients, Login(c)
    PROVE  Limit(guesses', failures', throttle', Cardinality(Storing'), Cardinality(Guessing'))
<1> DEFINE s == Cardinality(Storing)
           g == Cardinality(Guessing)
           s1 == Cardinality(Storing')
           g1 == Cardinality(Guessing')
           n == Cardinality(Clients)
<1>1. /\ TypeOK /\ Limit(guesses, failures, throttle, s, g)
      /\ pc[c] \in Steps
  BY LimitReads DEF IInv, TypeOK
<1>2. s \in Nat /\ g \in Nat /\ n \in Nat /\ s + g <= n
  BY CountsAddUp, ClientAssumption, FS_CardinalityType
<1>3. s1 \in Nat /\ g1 \in Nat /\ s1 + g1 <= n
  <2>1. (/\ Cardinality(Storing) \in Nat
         /\ Cardinality(Guessing) \in Nat
         /\ Cardinality(Storing) + Cardinality(Guessing) <= Cardinality(Clients))'
    BY CountsAddUp, PTL
  <2>2. QED
    BY <2>1
<1>4. ASSUME NEW step \in Steps, Goto(c, step)
      PROVE  /\ s1 + One(pc[c] = "store") = s + One(step = "store")
             /\ g1 + One(pc[c] \in {"verify", "record"})
                    = g + One(step \in {"verify", "record"})
  BY <1>1, <1>4, TwoCounts
<1>a. /\ failures \in Nat /\ failures' \in Nat /\ throttle \in Nat /\ throttle' \in Nat
      /\ guesses \in Nat /\ guesses' \in Nat /\ MaxFailures \in Nat \ {0}
  <2>1. TypeOK'
    BY <1>1, NextType DEF Next
  <2>2. QED
    BY <1>1, <2>1, ConfigAssumption DEF TypeOK
<1>b. guesses' = 0 => Limit(guesses', failures', throttle', s1, g1)
  BY <1>2, <1>3, <1>a DEF Limit
<1> HIDE DEF s, g, s1, g1, n
<1>5. ASSUME NotThrottled(c)
      PROVE  Limit(guesses', failures', throttle', s1, g1)
  <2>1. "verify" \in Steps /\ Goto(c, "verify") /\ pc[c] = "idle"
    BY <1>5 DEF NotThrottled, Steps
  <2>2. s1 = s
    BY <1>2, <1>3, <1>4, <2>1 DEF One
  <2>3. QED
    BY <1>1, <1>2, <2>2, <1>5 DEF NotThrottled, Limit
<1>6. ASSUME Verify(c) \/ ClearLost(c)
      PROVE  Limit(guesses', failures', throttle', s1, g1)
  <2>1. PICK step \in {"record", "clear", "lift"} :
            /\ Goto(c, step)
            /\ pc[c] \in {"verify", "clear"} /\ (step = "record" => pc[c] = "verify")
    BY <1>6 DEF Verify, ClearLost
  <2>2. step \in Steps
    BY <2>1 DEF Steps
  <2>3. s1 = s /\ g1 <= g
    BY <1>2, <1>3, <1>4, <2>1, <2>2 DEF One
  <2>4. UNCHANGED <<guesses, failures, throttle>>
    BY <1>6 DEF Verify, ClearLost
  <2>5. QED
    BY <1>1, <1>2, <1>3, <1>a, <2>3, <2>4 DEF Limit, n
<1>7. ASSUME Record(c)
      PROVE  Limit(guesses', failures', throttle', s1, g1)
  <2>1. PICK step \in Steps :
            Goto(c, step) /\ step = IF LimitReached THEN "store" ELSE "idle"
    BY <1>7 DEF Record, Steps
  <2>2. /\ g1 + 1 = g /\ s1 = IF LimitReached THEN s + 1 ELSE s
    BY <1>2, <1>3, <1>4, <1>7, <2>1 DEF Record, One
  <2>3. /\ guesses' = guesses + 1 /\ throttle' = throttle
        /\ failures' = IF failures < MaxFailures THEN failures + 1 ELSE failures
        /\ LimitReached <=> failures' = MaxFailures
        /\ failures <= MaxFailures
    BY <1>1, <1>a, <1>7 DEF Record, Bumped, LimitReached, TypeOK
  <2>4. QED
    BY <1>1, <1>2, <1>3, <1>a, <2>2, <2>3 DEF Limit, n
<1>8. ASSUME StoreThrottle(c)
      PROVE  Limit(guesses', failures', throttle', s1, g1)
  <2>1. "idle" \in Steps /\ Goto(c, "idle") /\ pc[c] = "store"
    BY <1>8 DEF StoreThrottle, Steps
  <2>2. s1 + 1 = s /\ g1 = g
    BY <1>2, <1>3, <1>4, <2>1 DEF One
  <2>3. throttle' > 0 /\ UNCHANGED <<guesses, failures>>
    BY <1>8, ConfigAssumption DEF StoreThrottle
  <2>4. QED
    BY <1>1, <1>2, <1>3, <1>a, <2>2, <2>3 DEF Limit, n
<1>9. ASSUME ClearFailures(c) \/ LiftThrottle(c)
      PROVE  Limit(guesses', failures', throttle', s1, g1)
  BY <1>b, <1>9 DEF ClearFailures, LiftThrottle
<1>10. ASSUME RecordUnconfirmed(c)
      PROVE  Limit(guesses', failures', throttle', s1, g1)
  <2>1. "idle" \in Steps /\ Goto(c, "idle") /\ pc[c] = "record"
    BY <1>10 DEF RecordUnconfirmed, Steps
  <2>2. s1 = s /\ g1 + 1 = g
    BY <1>2, <1>3, <1>4, <2>1 DEF One
  <2>3. /\ guesses' = IF LimitReached THEN guesses ELSE guesses + 1
        /\ throttle' = throttle
        /\ failures' = IF failures < MaxFailures THEN failures + 1 ELSE failures
        /\ LimitReached <=> failures' = MaxFailures
        /\ failures <= MaxFailures
    BY <1>1, <1>a, <1>10 DEF RecordUnconfirmed, Bumped, LimitReached, TypeOK
  <2>4. QED
    BY <1>1, <1>2, <1>3, <1>a, <2>2, <2>3 DEF Limit, n
<1>11. ASSUME Fail(c)
      PROVE  Limit(guesses', failures', throttle', s1, g1)
  <2>1. "idle" \in Steps /\ Goto(c, "idle")
    BY <1>11 DEF Fail, Steps
  <2>2. g1 <= g /\ s1 = IF pc[c] = "store" THEN s - 1 ELSE s
    BY <1>2, <1>3, <1>4, <2>1 DEF One
  <2>3. /\ UNCHANGED <<failures, throttle>>
        /\ guesses' = IF pc[c] = "store" THEN Less(guesses) ELSE guesses
    BY <1>11 DEF Fail
  <2>4. QED
    BY <1>1, <1>2, <1>3, <1>a, <2>2, <2>3 DEF Limit, Less, n
<1>12. QED
  BY <1>5, <1>6, <1>7, <1>8, <1>9, <1>10, <1>11 DEF Login, s1, g1

\* Time only takes away; with the counter or the throttle go all the guesses.
LEMMA TickKeepsLimit == IInv /\ Tick => LimitIsComing'
<1> SUFFICES ASSUME IInv, Tick
             PROVE  LimitIsComing'
  OBVIOUS
<1>1. /\ Cardinality(Storing) \in Nat /\ Cardinality(Guessing) \in Nat
      /\ Cardinality(Storing) + Cardinality(Guessing) <= Cardinality(Clients)
      /\ Cardinality(Clients) \in Nat
  BY CountsAddUp, ClientAssumption, FS_CardinalityType
<1>2. UNCHANGED <<Storing, Guessing>>
  BY DEF Tick, Storing, Guessing, At
<1>3. Limit(guesses, failures, throttle, Cardinality(Storing), Cardinality(Guessing))
  BY LimitReads DEF IInv
<1>4. /\ failures \in Nat /\ throttle \in Nat /\ window \in Nat /\ guesses \in Nat
      /\ MaxFailures \in Nat \ {0}
  BY ConfigAssumption DEF IInv, TypeOK
<1>5. /\ throttle' = IF throttle > 0 THEN throttle - 1 ELSE 0
      /\ failures' = IF window > 1 THEN failures ELSE 0
      /\ guesses' = IF window = 1 \/ throttle = 1 THEN 0 ELSE guesses
  BY DEF Tick, Less
<1>6. window = 0 => failures = 0
  BY DEF IInv, LimitIsComing
<1>7. Limit(guesses', failures', throttle', Cardinality(Storing), Cardinality(Guessing))
  BY <1>1, <1>3, <1>4, <1>5, <1>6 DEF Limit
<1>8. window' = 0 => failures' = 0
  BY <1>4, <1>5 DEF Tick, Less
<1>9. QED
  BY <1>2, <1>7, <1>8 DEF LimitIsComing, Limit, Storing, Guessing

LEMMA LoginKeepsWindow ==
    ASSUME IInv, NEW c \in Clients, Login(c)
    PROVE  (window = 0 => failures = 0)'
<1>1. (window = 0 => failures = 0) /\ FailureWindow # 0
  BY ConfigAssumption DEF IInv, LimitIsComing
<1>2. QED
  BY <1>1 DEF Login, NotThrottled, Verify, Record, RecordUnconfirmed, StoreThrottle,
     ClearFailures, ClearLost, LiftThrottle, Fail

LEMMA InitInvariant == Init => IInv
<1>1. Cardinality(Storing) \in Nat /\ Cardinality(Guessing) \in Nat
  BY CountsAddUp
<1>2. QED
  BY <1>1, InitType, ConfigAssumption DEF Init, IInv, LimitIsComing, Storing

LEMMA NextInvariant == IInv /\ [Next]_vars => IInv'
<1> SUFFICES ASSUME IInv, [Next]_vars
             PROVE  IInv'
  OBVIOUS
<1>1. TypeOK'
  BY NextType DEF IInv
<1>2. ASSUME NEW c \in Clients, Login(c)
      PROVE  LimitIsComing'
  <2>1. Limit(guesses', failures', throttle', Cardinality(Storing'), Cardinality(Guessing'))
    BY <1>2, LoginKeepsLimit
  <2>2. (window = 0 => failures = 0)'
    BY <1>2, LoginKeepsWindow
  <2>3. QED
    BY <2>1, <2>2 DEF LimitIsComing, Limit, Storing, Guessing
<1>3. ASSUME Tick
      PROVE  LimitIsComing'
  BY <1>3, TickKeepsLimit
<1>4. ASSUME UNCHANGED vars
      PROVE  LimitIsComing'
  <2>1. LimitIsComing /\ UNCHANGED <<window, failures, throttle, guesses, pc>>
    BY <1>4 DEF vars, IInv
  <2>2. At({"store"})' = At({"store"}) /\ At({"verify", "record"})' = At({"verify", "record"})
    BY <2>1 DEF At
  <2>3. QED
    BY <2>1, <2>2 DEF LimitIsComing
<1>5. QED
  BY <1>1, <1>2, <1>3, <1>4 DEF Next, IInv

\* The counter, or the throttle it is about to call for, has seen every guess.
THEOREM Invariance == Spec => []IInv
BY InitInvariant, NextInvariant, PTL DEF Spec

-----------------------------------------------------------------------------
(* What follows. *)

\* Every reachable state of the limit is well typed.
THEOREM TypeCorrect == Spec => []TypeOK
<1>1. IInv => TypeOK
  BY DEF IInv
<1>2. QED
  BY <1>1, Invariance, PTL

\* However many clients try PINs of one phone at the same time, the wrong ones
\* that are looked at until the limit is lifted stay below the limit plus the
\* number of clients: one for each login that can be under way.
THEOREM GuessesBounded == Spec => []GuessesAreBounded
<1>1. IInv => GuessesAreBounded
  <2> SUFFICES ASSUME IInv
               PROVE  GuessesAreBounded
    OBVIOUS
  <2>1. Limit(guesses, failures, throttle, Cardinality(Storing), Cardinality(Guessing))
    BY LimitReads DEF IInv
  <2>2. /\ Cardinality(Storing) \in Nat /\ Cardinality(Guessing) \in Nat
        /\ Cardinality(Storing) + Cardinality(Guessing) <= Cardinality(Clients)
        /\ Cardinality(Clients) \in Nat
    BY CountsAddUp, ClientAssumption, FS_CardinalityType
  <2>3. throttle \in Nat /\ guesses \in Nat /\ MaxFailures \in Nat
    BY ConfigAssumption DEF IInv, TypeOK
  <2>4. QED
    BY <2>1, <2>2, <2>3 DEF Limit, GuessesAreBounded
<1>2. QED
  BY <1>1, Invariance, PTL
=============================================================================
