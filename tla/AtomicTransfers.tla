--------------------------- MODULE AtomicTransfers ---------------------------
(***************************************************************************)
(* What the transfer service promises, with nothing of how it does it: a   *)
(* transfer happens in one step, between two unrestricted participants and *)
(* out of sufficient funds, under an idempotency key and a trxId never     *)
(* used before; accounts are suspended together with their wallet, and a   *)
(* wallet is unfrozen only while its owner is ACTIVE.  The promise is the  *)
(* one transactions.service.ts, account-restriction.service.ts and         *)
(* wallets.service.ts make to their callers.                               *)
(***************************************************************************)
EXTENDS Fees

CONSTANTS Wallets, System, InitBalance, MaxBalance, Requests, RequestSet, TrxIds

VARIABLES balance, active, status, trxs

vars == <<balance, active, status, trxs>>

Accounts == Wallets \cup {System}

\* The transfers that could be recorded: request p with content r under id.
Candidate(p, r, id) ==
    [by |-> p, key |-> r.key, trxId |-> id, from |-> r.from, to |-> r.to,
     amount |-> r.amount, fee |-> CalculateFee(r.amount, r.type)]

Init ==
    /\ balance = InitBalance
    /\ active = [w \in Accounts |-> TRUE]
    /\ status = [w \in Wallets |-> "ACTIVE"]
    /\ trxs = {}

Unrestricted(w) == active[w] /\ status[w] = "ACTIVE"

\* What the books say after t: the sender pays principal and fee, the receiver
\* gets the principal, the SYSTEM wallet the fee.
Moved(t) ==
    [w \in Accounts |->
        CASE w = t.from -> balance[w] - (t.amount + t.fee)
          [] w = t.to   -> balance[w] + t.amount
          [] w = System -> balance[w] + t.fee
          [] OTHER      -> balance[w]]

Transfer(t) ==
    /\ t.from # t.to
    /\ Unrestricted(t.from)
    /\ Unrestricted(t.to)
    /\ balance[t.from] >= t.amount + t.fee
    /\ \A u \in trxs : u.key # t.key /\ u.trxId # t.trxId /\ u.by # t.by
    /\ balance' = Moved(t)
    /\ \A w \in Accounts : balance'[w] <= MaxBalance
    /\ trxs' = trxs \cup {t}
    /\ UNCHANGED <<active, status>>

Suspend(w) ==
    /\ active' = [active EXCEPT ![w] = FALSE]
    /\ status' = [status EXCEPT ![w] = "SUSPENDED"]
    /\ UNCHANGED <<balance, trxs>>

Reactivate(w) ==
    /\ status[w] = "SUSPENDED"
    /\ status' = [status EXCEPT ![w] = "ACTIVE"]
    /\ UNCHANGED <<balance, active, trxs>>

Freeze(w) ==
    /\ active' = [active EXCEPT ![w] = FALSE]
    /\ UNCHANGED <<balance, status, trxs>>

Unfreeze(w) ==
    /\ status[w] = "ACTIVE"
    /\ active' = [active EXCEPT ![w] = TRUE]
    /\ UNCHANGED <<balance, status, trxs>>

Next ==
    \/ \E p \in Requests, r \in RequestSet, id \in TrxIds : Transfer(Candidate(p, r, id))
    \/ \E w \in Wallets : Suspend(w) \/ Reactivate(w) \/ Freeze(w) \/ Unfreeze(w)

Spec == Init /\ [][Next]_vars
=============================================================================
