----------------------------- MODULE OncePerKey -----------------------------
(***************************************************************************)
(* What a client that retries under one idempotency key may count on: the  *)
(* attempts of a key move money once between them, and whatever an attempt *)
(* is told is true when it is told.  Nothing is promised about how often   *)
(* an attempt is told to wait.                                             *)
(***************************************************************************)
CONSTANTS Attempts, KeyOf

VARIABLES moved, told

vars == <<moved, told>>

SameKey(a) == {b \in Attempts : KeyOf[b] = KeyOf[a]}

Init ==
    /\ moved = {}
    /\ told = [a \in Attempts |-> "none"]

\* An attempt that was answered moves nothing any more.
Move(a) ==
    /\ told[a] = "none"
    /\ moved \cap SameKey(a) = {}
    /\ moved' = moved \cup {a}
    /\ UNCHANGED told

\* A success names the attempt whose transfer the response describes.
Tell(a) ==
    /\ told[a] = "none"
    /\ \/ \E b \in moved \cap SameKey(a) : told' = [told EXCEPT ![a] = b]
       \/ /\ a \notin moved
          /\ \E r \in {"refused", "wait"} : told' = [told EXCEPT ![a] = r]
       \/ told' = [told EXCEPT ![a] = "error"]
    /\ UNCHANGED moved

Next == \E a \in Attempts : Move(a) \/ Tell(a)

Spec == Init /\ [][Next]_vars
=============================================================================
