----------------------------- MODULE MCTransfers -----------------------------
(***************************************************************************)
(* Two customers and an agent.  Ann's balance covers one of the requests   *)
(* below but not two of those she can send.                                *)
(***************************************************************************)
EXTENDS Transfers, TLC

CONSTANTS ann, bob, eve, sys, k1, k2

MCWalletType == ann :> "PERSONAL" @@ bob :> "PERSONAL" @@ eve :> "AGENT"
MCInitBalance == ann :> 2000 @@ bob :> 1600 @@ eve :> 1000 @@ sys :> 0
MCMaxBalance == 3000

Ask(type, from, to, amount, key) ==
    [type |-> type, from |-> from, to |-> to, amount |-> amount, key |-> key]

\* Opposite directions, one key used twice, a fee of 500, 18 (half to even) or
\* none, an amount that overflows the receiver.
MCRequestSet ==
    {Ask("SEND_MONEY", ann, bob, 1000, k1),
     Ask("SEND_MONEY", bob, ann, 1001, k2),
     Ask("CASH_OUT", ann, eve, 1000, k2),
     Ask("CASH_IN", eve, ann, 1000, k1)}

MCOperationSet ==
    [op : {"suspend", "reactivate", "activate", "deactivate"}, wallet : {ann}]

IdOrder == ann :> 1 @@ bob :> 2 @@ eve :> 3 @@ sys :> 4
OneOrder == {IdOrder}
HeapOrder == ann :> 4 @@ bob :> 3 @@ eve :> 2 @@ sys :> 1
TwoOrders == {IdOrder, HeapOrder}

\* Two casts of callers: two requests and two administrator calls, or one request
\* and all administrator calls.  Who is not in the cast never calls.
Cast == {S \in SUBSET Procs :
             <<Cardinality(S \cap Requests), Cardinality(S \cap Operations)>>
                 \in {<<2, 2>>, <<1, Cardinality(Operations)>>}}

AnyOf(S) == CHOOSE s \in S : TRUE

CastInit ==
    \E S \in Cast :
        /\ balance = InitBalance
        /\ active = [w \in Accounts |-> TRUE]
        /\ status = [w \in Wallets |-> "ACTIVE"]
        /\ trxs = {}
        /\ ledger = [w \in Accounts |-> <<>>]
        /\ rowLock = [w \in Accounts |-> NoProc]
        /\ userLock = [w \in Wallets |-> NoProc]
        /\ req \in [Requests -> RequestSet]
        /\ \A p \in Requests \ S : req[p] = AnyOf(RequestSet)
        /\ job \in [Operations -> OperationSet]
        /\ \A a \in Operations \ S : job[a] = AnyOf(OperationSet)
        /\ pc = [p \in Procs |-> IF p \in S THEN "idle" ELSE "done"]
        /\ tx = [p \in Requests |-> BlankMemory]
        /\ answer = [p \in Procs |-> "none"]

CastSpec == CastInit /\ [][Next]_vars

Symmetry == Permutations(Requests) \cup Permutations(Operations)
=============================================================================
