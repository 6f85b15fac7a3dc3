---------------------------- MODULE KeyedHandler ----------------------------
(***************************************************************************)
(* What idempotency.interceptor.ts counts on from the handler behind it.   *)
(* Each attempt gets one result: its transfer happened and the response    *)
(* says so, it was refused and moved nothing, or there was an error, which *)
(* leaves open whether it moved.  Under one key money moves once.          *)
(*                                                                         *)
(* A refusal says nothing of the other attempts of the key: the conflict   *)
(* of the unique index on trxId is answered like that of the key.          *)
(***************************************************************************)
CONSTANT Attempts

VARIABLES
    keyOf,  \* attempt -> its key, which never changes
    moved,  \* attempts whose transfer the database committed
    result  \* what the handler returned or threw

vars == <<keyOf, moved, result>>

SameKey(a) == {b \in Attempts : keyOf[b] = keyOf[a]}

Return(a, r) ==
    /\ result[a] = "none"
    /\ result' = [result EXCEPT ![a] = r]

Init ==
    /\ moved = {}
    /\ result = [a \in Attempts |-> "none"]

\* The transfer commits; its acknowledgement may be lost.
Move(a) ==
    /\ moved \cap SameKey(a) = {}
    /\ moved' = moved \cup {a}
    /\ \E r \in {a, "error"} : Return(a, r)
    /\ UNCHANGED keyOf

\* Ineligible, insufficient funds, a conflict, or any failure before the commit.
Refuse(a) ==
    /\ \E r \in {"refused", "error"} : Return(a, r)
    /\ UNCHANGED <<keyOf, moved>>

Next == \E a \in Attempts : Move(a) \/ Refuse(a)

Spec == Init /\ [][Next]_vars
=============================================================================
