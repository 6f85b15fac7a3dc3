------------------------------ MODULE Transfers ------------------------------
(***************************************************************************)
(* Money transfers and the operator actions that race with them, over one  *)
(* PostgreSQL database at READ COMMITTED.                                  *)
(*                                                                         *)
(* A request runs transactions.service.ts: an unlocked eligibility check,  *)
(* then one database transaction that locks the two wallets and the SYSTEM *)
(* wallet, reads them again, writes the transaction record, the balances   *)
(* and the ledger, and commits.  An operation is one administrator call:   *)
(* suspend or reactivate an account (account-restriction.service.ts),      *)
(* freeze or unfreeze a wallet (wallets.service.ts).  Wallets and accounts *)
(* are one to one, so an account is named by its wallet.                   *)
(*                                                                         *)
(* Of the database the model keeps committed rows, row locks held until    *)
(* commit or rollback, and the writes a transaction has staged.  A single  *)
(* UPDATE statement is one step: it waits for the row lock and then tests  *)
(* its WHERE clause on the committed row.                                  *)
(***************************************************************************)
EXTENDS Fees, Sequences, FiniteSets, Functions

CONSTANTS
    Wallets,      \* wallets owned by users
    System,       \* the SYSTEM revenue wallet, cachedSystemWalletId
    WalletType,   \* wallet -> PERSONAL, AGENT or MERCHANT
    InitBalance,  \* account -> opening balance
    MaxBalance,   \* largest BIGINT the balance column stores
    Requests,     \* transfer requests, each handled once
    RequestSet,   \* what a request may ask for
    TrxIds,       \* ids generateTrxId can draw
    Operations,   \* administrator calls, each handled once
    OperationSet, \* what an administrator may ask for
    ScanOrders,   \* orders in which the locking SELECT may visit rows
    NoProc        \* "nobody holds this row"

Accounts == Wallets \cup {System}
Procs == Requests \cup Operations

ASSUME WalletAssumption ==
    /\ IsFiniteSet(Wallets)
    /\ System \notin Wallets
    /\ WalletType \in [Wallets -> {"PERSONAL", "AGENT", "MERCHANT"}]
    /\ MaxBalance \in Nat
    /\ InitBalance \in [Accounts -> 0 .. MaxBalance]

ASSUME ProcAssumption ==
    /\ Requests \cap Operations = {}
    /\ NoProc \notin Procs

ASSUME RequestAssumption ==
    \A r \in RequestSet :
        /\ r.type \in TransferTypes
        /\ r.from \in Wallets
        /\ r.to \in Wallets
        /\ r.amount \in Nat

ASSUME OperationAssumption ==
    \A o \in OperationSet :
        /\ o.op \in {"suspend", "reactivate", "activate", "deactivate"}
        /\ o.wallet \in Wallets

\* A scan order ranks the rows of the wallets table, no two alike.
ASSUME ScanAssumption ==
    /\ ScanOrders # {}
    /\ \A rank \in ScanOrders :
          /\ rank \in [Accounts -> Nat]
          /\ \A v, w \in Accounts : rank[v] = rank[w] => v = w

ASSUME TrxIdAssumption == TrxIds # {}

VARIABLES
    balance,  \* committed wallets.balance
    active,   \* committed wallets.isActive
    status,   \* committed users.status of the wallet's owner
    trxs,     \* committed transactions rows
    ledger,   \* committed ledger_entries rows of each wallet, oldest first
    rowLock,  \* holder of each wallet row
    userLock, \* holder of each user row
    req,      \* what each request asks for
    job,      \* what each operation asks for
    pc,       \* where each request and operation stands
    tx,       \* what a request remembers and has staged
    answer    \* HTTP answer of a finished request or operation

db == <<balance, active, status, trxs, ledger>>
locks == <<rowLock, userLock>>
asked == <<req, job>>
vars == <<db, locks, asked, pc, tx, answer>>

-----------------------------------------------------------------------------
(* Types. *)

Statuses == {"ACTIVE", "SUSPENDED", "LOCKED"}

Entry == [by : Requests, type : {"DEBIT", "CREDIT"}, amount : Nat,
          balanceAfter : Int]

Record == [by : Requests, key : {r.key : r \in RequestSet}, trxId : TrxIds,
           from : Wallets, to : Wallets, amount : Nat, fee : Nat]

\* todo: rows to read or lock next.  scan: order of the locking SELECT.
\* seen: the sender's balance as last read.  blocked: a participant was found
\* restricted.  staged: ledger entries written but not committed, whose last
\* balanceAfter is the wallet's uncommitted balance.
Memory == [todo : SUBSET Accounts, scan : ScanOrders, seen : Int,
           blocked : BOOLEAN, staged : [Accounts -> Seq(Entry)],
           trxId : TrxIds]

BlankMemory == [todo |-> {}, scan |-> CHOOSE rank \in ScanOrders : TRUE,
                seen |-> 0, blocked |-> FALSE,
                staged |-> [w \in Accounts |-> <<>>],
                trxId |-> CHOOSE t \in TrxIds : TRUE]

Answers == {"none", "200", "400", "403", "404", "409", "500"}

\* Every row of LockSet is locked in these steps.
WriteSteps == {"insert", "debit", "credit", "fee", "commit"}
LockedSteps == {"fetchSender", "fetchReceiver", "fetchSystem"} \cup WriteSteps

RequestSteps == {"idle", "preflight", "begin", "lock", "done"} \cup LockedSteps
OperationSteps == {"idle", "freeze", "restrict", "commitSuspend",
                   "checkOwner", "commitActivate", "done"}

-----------------------------------------------------------------------------
(* What a request needs. *)

SenderType == [SEND_MONEY |-> "PERSONAL", CASH_IN |-> "AGENT",
               CASH_OUT |-> "PERSONAL", PAYMENT |-> "PERSONAL"]
ReceiverType == [SEND_MONEY |-> "PERSONAL", CASH_IN |-> "PERSONAL",
                 CASH_OUT |-> "AGENT", PAYMENT |-> "MERCHANT"]

Fee(p) == CalculateFee(req[p].amount, req[p].type)
Total(p) == TotalRequired(req[p].amount, req[p].type)

\* Faulty: the receiver's row is left out of the IN list.
LockSenderOnly(p) == {req[p].from, System}

\* walletsToLock: the SYSTEM row is locked whether or not there is a fee.
LockSet(p) == {req[p].from, req[p].to, System}

\* Faulty: the sender's row first, then the receiver's, whatever their ids.
SenderFirst(p) ==
    IF req[p].from \in tx[p].todo THEN req[p].from
    ELSE IF req[p].to \in tx[p].todo THEN req[p].to ELSE System

\* The row the locking SELECT visits next.
NextRow(p) == CHOOSE w \in tx[p].todo :
                  \A v \in tx[p].todo : tx[p].scan[w] <= tx[p].scan[v]

\* A row an UPDATE of p can write without waiting.
Writable(p, w) == rowLock[w] \in {NoProc, p}
TakeRow(p, w) ==
    /\ Writable(p, w)
    /\ rowLock' = [rowLock EXCEPT ![w] = p]
    /\ UNCHANGED userLock

Release(p) ==
    /\ rowLock' = [w \in Accounts |-> IF rowLock[w] = p THEN NoProc ELSE rowLock[w]]
    /\ userLock' = [w \in Wallets |-> IF userLock[w] = p THEN NoProc ELSE userLock[w]]

Goto(p, step) == pc' = [pc EXCEPT ![p] = step]

\* The handler of p returns; what it remembered is gone.
Finish(p, code) ==
    /\ Goto(p, "done")
    /\ answer' = [answer EXCEPT ![p] = code]
    /\ tx' = [q \in Requests |-> IF q = p THEN BlankMemory ELSE tx[q]]
    /\ UNCHANGED asked

\* Faulty: the error path leaves the database transaction open.
RollbackKeepingLocks(p, code) ==
    /\ Finish(p, code)
    /\ UNCHANGED <<db, locks>>

\* Nothing p staged is kept and its row locks are released.
Rollback(p, code) ==
    /\ Finish(p, code)
    /\ Release(p)
    /\ UNCHANGED db

Init ==
    /\ balance = InitBalance
    /\ active = [w \in Accounts |-> TRUE]
    /\ status = [w \in Wallets |-> "ACTIVE"]
    /\ trxs = {}
    /\ ledger = [w \in Accounts |-> <<>>]
    /\ rowLock = [w \in Accounts |-> NoProc]
    /\ userLock = [w \in Wallets |-> NoProc]
    /\ req \in [Requests -> RequestSet]
    /\ job \in [Operations -> OperationSet]
    /\ pc = [p \in Procs |-> "idle"]
    /\ tx = [p \in Requests |-> BlankMemory]
    /\ answer = [p \in Procs |-> "none"]

-----------------------------------------------------------------------------
(* A transfer request: the unlocked part. *)

\* The guards in front of the handler and the checks that need no wallet row.
Refusal(p) ==
    IF \/ status[req[p].from] # "ACTIVE"
       \/ WalletType[req[p].from] # SenderType[req[p].type]
    THEN "403"
    ELSE IF ~AcceptsAmount(req[p].amount) \/ req[p].from = req[p].to
    THEN "400"
    ELSE "none"

Submit(p) ==
    /\ pc[p] = "idle"
    /\ Refusal(p) = "none"
    /\ Goto(p, "preflight")
    /\ tx' = [tx EXCEPT ![p].todo = {req[p].from, req[p].to}]
    /\ UNCHANGED <<db, locks, asked, answer>>

Refuse(p) ==
    /\ pc[p] = "idle"
    /\ Refusal(p) # "none"
    /\ Rollback(p, Refusal(p))

\* getWalletStateForTransaction: the two reads are issued together and may be
\* answered in either order; neither locks anything.
PreflightRead(p, w) ==
    /\ pc[p] = "preflight"
    /\ w \in tx[p].todo
    /\ active[w]
    /\ tx' = [tx EXCEPT ![p].todo = @ \ {w},
                        ![p].seen = IF w = req[p].from THEN balance[w] ELSE @]
    /\ UNCHANGED <<db, locks, asked, pc, answer>>

PreflightInactive(p, w) ==
    /\ pc[p] = "preflight"
    /\ w \in tx[p].todo
    /\ ~active[w]
    /\ Rollback(p, "404")

\* What assertTransferEligibility concludes from the rows it read.
Eligible(p) ==
    /\ WalletType[req[p].to] = ReceiverType[req[p].type]
    /\ tx[p].seen >= Total(p)

PreflightPass(p) ==
    /\ pc[p] = "preflight"
    /\ tx[p].todo = {}
    /\ Eligible(p)
    /\ Goto(p, "begin")
    /\ UNCHANGED <<db, locks, asked, tx, answer>>

PreflightRefuse(p) ==
    /\ pc[p] = "preflight"
    /\ tx[p].todo = {}
    /\ ~Eligible(p)
    /\ Rollback(p, "400")

-----------------------------------------------------------------------------
(* A transfer request: executeACIDTransfer, one database transaction. *)

\* The SELECT ... FOR NO KEY UPDATE has no ORDER BY: the plan decides in which
\* order its scan comes across the rows of the IN list.
Begin(p) ==
    /\ pc[p] = "begin"
    /\ Goto(p, "lock")
    /\ \E rank \in ScanOrders :
          tx' = [tx EXCEPT ![p].todo = LockSet(p), ![p].scan = rank, ![p].seen = 0]
    /\ UNCHANGED <<db, locks, asked, answer>>

\* Rows are locked one at a time; the scan waits at a row somebody holds.
LockRow(p) ==
    /\ pc[p] = "lock"
    /\ tx[p].todo # {}
    /\ TakeRow(p, NextRow(p))
    /\ tx' = [tx EXCEPT ![p].todo = @ \ {NextRow(p)}]
    /\ UNCHANGED <<db, asked, pc, answer>>

AllLocked(p) ==
    /\ pc[p] = "lock"
    /\ tx[p].todo = {}
    /\ Goto(p, "fetchSender")
    /\ UNCHANGED <<db, locks, asked, tx, answer>>

\* findUnique of a participant: the wallet is active and its owner ACTIVE.
Unrestricted(w) == active[w] /\ status[w] = "ACTIVE"

FetchSender(p) ==
    /\ pc[p] = "fetchSender"
    /\ Goto(p, "fetchReceiver")
    /\ tx' = [tx EXCEPT ![p].seen = balance[req[p].from],
                        ![p].blocked = ~Unrestricted(req[p].from)]
    /\ UNCHANGED <<db, locks, asked, answer>>

FetchReceiver(p) ==
    /\ pc[p] = "fetchReceiver"
    /\ Goto(p, "fetchSystem")
    /\ tx' = [tx EXCEPT ![p].blocked = @ \/ ~Unrestricted(req[p].to)]
    /\ UNCHANGED <<db, locks, asked, answer>>

FetchSystem(p) ==
    /\ pc[p] = "fetchSystem"
    /\ Goto(p, "insert")
    /\ tx' = [tx EXCEPT ![p].blocked = @ \/ ~active[System]]
    /\ UNCHANGED <<db, locks, asked, answer>>

RefuseRestricted(p) ==
    /\ pc[p] = "insert"
    /\ tx[p].blocked
    /\ Rollback(p, "403")

RefuseInsufficient(p) ==
    /\ pc[p] = "insert"
    /\ ~tx[p].blocked
    /\ tx[p].seen < Total(p)
    /\ Rollback(p, "400")

\* Faulty: the funds are not checked again under the lock.
MayWriteUnchecked(p) == pc[p] = "insert" /\ ~tx[p].blocked

MayWrite(p) == pc[p] = "insert" /\ ~tx[p].blocked /\ tx[p].seen >= Total(p)

\* Faulty: no unique index on the idempotency key.
DuplicateTrxId(p, id) == \E t \in trxs : t.trxId = id

\* The unique indexes on transactions.idempotencyKey and transactions.trxId.
Duplicate(p, id) == \E t \in trxs : t.key = req[p].key \/ t.trxId = id

\* transaction.create.  Every transfer holds the SYSTEM row, so no uncommitted
\* record of another one can be in the way.
InsertTransaction(p, id) ==
    /\ MayWrite(p)
    /\ ~Duplicate(p, id)
    /\ Goto(p, "debit")
    /\ tx' = [tx EXCEPT ![p].trxId = id]
    /\ UNCHANGED <<db, locks, asked, answer>>

\* Faulty: a duplicate is reported as if this request had succeeded.
AcceptDuplicate(p, id) ==
    /\ MayWrite(p)
    /\ Duplicate(p, id)
    /\ Rollback(p, "200")

\* P2002 on either index becomes the same ConflictException.
RefuseDuplicate(p, id) ==
    /\ MayWrite(p)
    /\ Duplicate(p, id)
    /\ Rollback(p, "409")

\* The balance p's own statements see.
Current(p, w) ==
    LET written == tx[p].staged[w]
    IN  IF written = <<>> THEN balance[w] ELSE written[Len(written)].balanceAfter

\* wallet.update followed by ledgerEntry.create with the balance it returned.
Stage(p, w, type, amount, after) ==
    /\ after <= MaxBalance
    /\ TakeRow(p, w)
    /\ tx' = [tx EXCEPT ![p].staged[w] =
                 Append(@, [by |-> p, type |-> type, amount |-> amount,
                            balanceAfter |-> after])]
    /\ UNCHANGED <<db, asked, answer>>

Debit(p) ==
    /\ pc[p] = "debit"
    /\ Stage(p, req[p].from, "DEBIT", Total(p), Current(p, req[p].from) - Total(p))
    /\ Goto(p, "credit")

\* Faulty: the receiver is credited with the fee as well.
CreditTotal(p) ==
    /\ pc[p] = "credit"
    /\ Stage(p, req[p].to, "CREDIT", Total(p), Current(p, req[p].to) + Total(p))
    /\ Goto(p, "fee")

Credit(p) ==
    /\ pc[p] = "credit"
    /\ Stage(p, req[p].to, "CREDIT", req[p].amount,
             Current(p, req[p].to) + req[p].amount)
    /\ Goto(p, "fee")

CollectFee(p) ==
    /\ pc[p] = "fee"
    /\ Fee(p) # 0
    /\ Stage(p, System, "CREDIT", Fee(p), Current(p, System) + Fee(p))
    /\ Goto(p, "commit")

\* Faulty: the fee may be left in nobody's wallet.
SkipFee(p) ==
    /\ pc[p] = "fee"
    /\ Goto(p, "commit")
    /\ UNCHANGED <<db, locks, asked, tx, answer>>

NoFee(p) ==
    /\ pc[p] = "fee"
    /\ Fee(p) = 0
    /\ Goto(p, "commit")
    /\ UNCHANGED <<db, locks, asked, tx, answer>>

\* An increment past the BIGINT column's range fails the statement.
Overflow(p) ==
    /\ \/ pc[p] = "credit" /\ Current(p, req[p].to) + req[p].amount > MaxBalance
       \/ pc[p] = "fee" /\ Current(p, System) + Fee(p) > MaxBalance
    /\ Rollback(p, "500")

\* Faulty: the two unique columns are swapped.
SwappedRecord(p) ==
    [by |-> p, key |-> tx[p].trxId, trxId |-> req[p].key, from |-> req[p].from,
     to |-> req[p].to, amount |-> req[p].amount, fee |-> Fee(p)]

NewRecord(p) ==
    [by |-> p, key |-> req[p].key, trxId |-> tx[p].trxId, from |-> req[p].from,
     to |-> req[p].to, amount |-> req[p].amount, fee |-> Fee(p)]

\* Faulty: ledger entries are written with the balance before the update.
CommitOldBalances(p) ==
    /\ pc[p] = "commit"
    /\ trxs' = trxs \cup {NewRecord(p)}
    /\ balance' = [w \in Accounts |-> Current(p, w)]
    /\ ledger' = [w \in Accounts |-> ledger[w] \o
           [i \in DOMAIN tx[p].staged[w] |->
               [tx[p].staged[w][i] EXCEPT !.balanceAfter = balance[w]]]]
    /\ UNCHANGED <<active, status>>
    /\ Release(p)
    /\ Finish(p, "200")

\* The staged rows become visible together.  The acknowledgement may be lost
\* after the database committed: the client then gets an error.
Commit(p) ==
    /\ pc[p] = "commit"
    /\ trxs' = trxs \cup {NewRecord(p)}
    /\ balance' = [w \in Accounts |-> Current(p, w)]
    /\ ledger' = [w \in Accounts |-> ledger[w] \o tx[p].staged[w]]
    /\ UNCHANGED <<active, status>>
    /\ Release(p)
    /\ \E code \in {"200", "500"} : Finish(p, code)

-----------------------------------------------------------------------------
(* Account suspension and reactivation.  No property is about an            *)
(* administrator's answer, so only transfers may lose an acknowledgement.   *)

Runs(a, op) == job[a].op = op

\* Suspension reads the account first, without a lock.
Suspend(a) ==
    /\ pc[a] = "idle" /\ Runs(a, "suspend")
    /\ status[job[a].wallet] # "LOCKED"
    /\ Goto(a, "freeze")
    /\ UNCHANGED <<db, locks, asked, tx, answer>>

FreezeWallet(a) ==
    /\ pc[a] = "freeze"
    /\ TakeRow(a, job[a].wallet)
    /\ Goto(a, "restrict")
    /\ UNCHANGED <<db, asked, tx, answer>>

RestrictUser(a) ==
    /\ pc[a] = "restrict"
    /\ userLock[job[a].wallet] = NoProc
    /\ status[job[a].wallet] \in {"ACTIVE", "SUSPENDED"}
    /\ userLock' = [userLock EXCEPT ![job[a].wallet] = a]
    /\ Goto(a, "commitSuspend")
    /\ UNCHANGED <<db, rowLock, asked, tx, answer>>

\* Both updates become visible together.  (Clearing the device sessions, the
\* last statement of the transaction, touches no row of this model.)
CommitSuspend(a) ==
    /\ pc[a] = "commitSuspend"
    /\ active' = [active EXCEPT ![job[a].wallet] = FALSE]
    /\ status' = [status EXCEPT ![job[a].wallet] = "SUSPENDED"]
    /\ UNCHANGED <<balance, trxs, ledger>>
    /\ Release(a)
    /\ Finish(a, "200")

\* One statement: the account becomes ACTIVE, its wallet stays frozen.
Reactivate(a) ==
    /\ pc[a] = "idle" /\ Runs(a, "reactivate")
    /\ status[job[a].wallet] = "SUSPENDED"
    /\ userLock[job[a].wallet] = NoProc
    /\ status' = [status EXCEPT ![job[a].wallet] = "ACTIVE"]
    /\ UNCHANGED <<balance, active, trxs, ledger, locks>>
    /\ Finish(a, "200")

-----------------------------------------------------------------------------
(* Freezing and unfreezing a wallet. *)

Deactivate(a) ==
    /\ pc[a] = "idle" /\ Runs(a, "deactivate")
    /\ active[job[a].wallet]
    /\ Writable(a, job[a].wallet)
    /\ active' = [active EXCEPT ![job[a].wallet] = FALSE]
    /\ UNCHANGED <<balance, status, trxs, ledger, locks>>
    /\ Finish(a, "200")

ActivateWallet(a) ==
    /\ pc[a] = "idle" /\ Runs(a, "activate")
    /\ ~active[job[a].wallet]
    /\ TakeRow(a, job[a].wallet)
    /\ Goto(a, "checkOwner")
    /\ UNCHANGED <<db, asked, tx, answer>>

\* Faulty: the owner's status is not looked at.
SkipCheckOwner(a) ==
    /\ pc[a] = "checkOwner"
    /\ Goto(a, "commitActivate")
    /\ UNCHANGED <<db, locks, asked, tx, answer>>

\* The owner's status is read after the wallet row is locked.
CheckOwner(a) ==
    /\ pc[a] = "checkOwner"
    /\ status[job[a].wallet] = "ACTIVE"
    /\ Goto(a, "commitActivate")
    /\ UNCHANGED <<db, locks, asked, tx, answer>>

CommitActivate(a) ==
    /\ pc[a] = "commitActivate"
    /\ active' = [active EXCEPT ![job[a].wallet] = TRUE]
    /\ UNCHANGED <<balance, status, trxs, ledger>>
    /\ Release(a)
    /\ Finish(a, "200")

\* An update whose WHERE clause matches no row: an error, and nothing written.
NotEligible(a) ==
    LET w == job[a].wallet IN
    \/ pc[a] = "idle" /\ Runs(a, "suspend") /\ status[w] = "LOCKED"
    \/ pc[a] = "idle" /\ Runs(a, "reactivate") /\ status[w] # "SUSPENDED"
    \/ pc[a] = "idle" /\ Runs(a, "deactivate") /\ ~active[w]
    \/ pc[a] = "idle" /\ Runs(a, "activate") /\ active[w]
    \/ pc[a] = "restrict" /\ status[w] = "LOCKED"
    \/ pc[a] = "checkOwner" /\ status[w] # "ACTIVE"

RefuseOperation(a) ==
    /\ NotEligible(a)
    /\ Rollback(a, IF pc[a] = "idle" /\ Runs(a, "suspend") THEN "404" ELSE "409")

-----------------------------------------------------------------------------
(* Failures. *)

\* Any statement may fail: the connection is lost, the server restarts, the
\* interactive transaction expires.  The database rolls back.
Fail(p) ==
    /\ pc[p] \notin {"idle", "done"}
    /\ Rollback(p, "500")

\* Whom p is waiting for, or NoProc.
WaitsFor(p) ==
    CASE pc[p] = "lock" /\ tx[p].todo # {} -> rowLock[NextRow(p)]
      [] pc[p] = "freeze"                  -> rowLock[job[p].wallet]
      [] pc[p] = "restrict"                -> userLock[job[p].wallet]
      [] OTHER                             -> NoProc

Waiting == {p \in Procs : WaitsFor(p) # NoProc}

\* A set of processes that wait in a ring.
Deadlocked(S) == S # {} /\ {WaitsFor(p) : p \in S} = S

\* PostgreSQL's deadlock detector aborts one transaction of the ring.
DeadlockVictim(p) ==
    /\ \E S \in SUBSET Waiting : p \in S /\ Deadlocked(S)
    /\ Rollback(p, "500")

-----------------------------------------------------------------------------
(* The specification. *)

\* What the server does next for a request it has accepted.
RequestStep(p) ==
    \/ \E w \in Wallets : PreflightRead(p, w) \/ PreflightInactive(p, w)
    \/ PreflightPass(p) \/ PreflightRefuse(p)
    \/ Begin(p) \/ LockRow(p) \/ AllLocked(p)
    \/ FetchSender(p) \/ FetchReceiver(p) \/ FetchSystem(p)
    \/ RefuseRestricted(p) \/ RefuseInsufficient(p)
    \/ \E id \in TrxIds : InsertTransaction(p, id) \/ RefuseDuplicate(p, id)
    \/ Debit(p) \/ Credit(p) \/ CollectFee(p) \/ NoFee(p) \/ Overflow(p)
    \/ Commit(p)

OperationCall(a) ==
    \/ Suspend(a) \/ Reactivate(a) \/ Deactivate(a) \/ ActivateWallet(a)
    \/ pc[a] = "idle" /\ RefuseOperation(a)

\* What the server does next for an operation it has begun.
OperationStep(a) ==
    \/ FreezeWallet(a) \/ RestrictUser(a) \/ CommitSuspend(a)
    \/ CheckOwner(a) \/ CommitActivate(a)
    \/ pc[a] # "idle" /\ RefuseOperation(a)

AllDone ==
    /\ \A p \in Procs : pc[p] = "done"
    /\ UNCHANGED vars

Next ==
    \/ \E p \in Requests : Submit(p) \/ Refuse(p) \/ RequestStep(p)
    \/ \E a \in Operations : OperationCall(a) \/ OperationStep(a)
    \/ \E p \in Procs : Fail(p) \/ DeadlockVictim(p)
    \/ AllDone

Spec == Init /\ [][Next]_vars

\* Nobody has to call; what was called is carried on with.  Weak fairness is
\* enough for a row lock although others contend for it: PostgreSQL queues
\* the waiters, and here a row is taken finitely often.
FairSpec ==
    /\ Spec
    /\ \A p \in Requests : WF_vars(RequestStep(p))
    /\ \A a \in Operations : WF_vars(OperationStep(a))
    /\ \A p \in Procs : WF_vars(DeadlockVictim(p))

-----------------------------------------------------------------------------
(* Properties. *)

TypeOK ==
    /\ balance \in [Accounts -> Int]
    /\ active \in [Accounts -> BOOLEAN]
    /\ status \in [Wallets -> Statuses]
    /\ trxs \subseteq Record
    /\ ledger \in [Accounts -> Seq(Entry)]
    /\ rowLock \in [Accounts -> Procs \cup {NoProc}]
    /\ userLock \in [Wallets -> Operations \cup {NoProc}]
    /\ req \in [Requests -> RequestSet]
    /\ job \in [Operations -> OperationSet]
    /\ pc \in [Procs -> RequestSteps \cup OperationSteps]
    /\ tx \in [Requests -> Memory]
    /\ answer \in [Procs -> Answers]

\* No wallet is ever overdrawn, whatever transfers race for its balance, and
\* none exceeds what its column stores: the check that counts is the one
\* executeACIDTransfer repeats on the locked sender row.
BalancesInRange == \A w \in Accounts : balance[w] \in 0 .. MaxBalance

\* Money is neither created nor destroyed, only moved.
Conservation == SumFunction(balance) = SumFunction(InitBalance)

\* What a recorded transfer did to the balance of w.
Effect(t, w) ==
    CASE w = t.from -> 0 - (t.amount + t.fee)
      [] w = t.to   -> t.amount
      [] w = System -> t.fee
      [] OTHER      -> 0

\* Every balance is the opening balance and what the recorded transfers did to
\* it: no balance moves without a record, and no record without its balances.
BalancesReconcile ==
    \A w \in Accounts :
        balance[w] = InitBalance[w] + SumFunction([t \in trxs |-> Effect(t, w)])

Signed(e) == IF e.type = "DEBIT" THEN 0 - e.amount ELSE e.amount

BalanceBefore(w, i) ==
    IF i = 1 THEN InitBalance[w] ELSE ledger[w][i - 1].balanceAfter

Replays(w) ==
    /\ \A i \in 1 .. Len(ledger[w]) :
          ledger[w][i].balanceAfter = BalanceBefore(w, i) + Signed(ledger[w][i])
    /\ balance[w] = BalanceBefore(w, Len(ledger[w]) + 1)

\* The ledger of a wallet replays to its balance: every entry's balanceAfter
\* follows from the entry before it, and the last one is the balance.
LedgerChain == \A w \in Accounts : Replays(w)

EntriesOf(p, w) == {i \in DOMAIN ledger[w] : ledger[w][i].by = p}
Posted(p, w) == {<<ledger[w][i].type, ledger[w][i].amount>> : i \in EntriesOf(p, w)}

\* The entries that go with record t, and no others.
Paired(t) ==
    /\ Posted(t.by, t.from) = {<<"DEBIT", t.amount + t.fee>>}
    /\ Posted(t.by, t.to) = {<<"CREDIT", t.amount>>}
    /\ Posted(t.by, System) = IF t.fee = 0 THEN {} ELSE {<<"CREDIT", t.fee>>}
    /\ \A w \in Wallets \ {t.from, t.to} : Posted(t.by, w) = {}

\* A committed transfer has exactly its paired entries, a failed one none: a
\* debit of principal and fee, a credit of the principal, and a credit of the
\* fee unless it is zero.
DoubleEntry ==
    /\ \A t \in trxs : Paired(t)
    /\ \A p \in Requests, w \in Accounts :
          /\ Cardinality(EntriesOf(p, w)) <= 1
          /\ (\A t \in trxs : t.by # p) => EntriesOf(p, w) = {}

\* An idempotency key moves money at most once, and a trxId names one transfer.
KeyMovesMoneyOnce ==
    \A t, u \in trxs : t.key = u.key \/ t.trxId = u.trxId \/ t.by = u.by => t = u

\* A success is never reported for a transfer the database does not hold, and
\* a refusal (any 4xx) never for one it does; only a 500 leaves the client in
\* doubt.
AnswersMatchBooks ==
    \A p \in Requests :
        LET recorded == \E t \in trxs : t.by = p
        IN  /\ answer[p] = "200" => recorded
            /\ answer[p] \in {"400", "403", "404", "409"} => ~recorded

\* The wallet of a suspended account is frozen, through every race between
\* suspension, reactivation and unfreezing.
RestrictedIsFrozen == \A w \in Wallets : status[w] # "ACTIVE" => ~active[w]

RecordsUnrestricted ==
    \A t \in trxs' \ trxs : active[System] /\ Unrestricted(t.from) /\ Unrestricted(t.to)

\* Money never moves to or from a wallet that is frozen, or whose owner is not
\* ACTIVE, in the committed state the transfer becomes visible in: a
\* suspension that has committed is never overtaken by a transfer that read
\* the wallet before.
NoTransferPastFreeze == [][RecordsUnrestricted]_vars

\* No ring of transactions waits on one another's row locks.
NoDeadlock == \A S \in SUBSET Waiting : ~Deadlocked(S)

\* A 409 tells the client that the database already holds a transaction under
\* its idempotency key.
ConflictMeansProcessed ==
    \A p \in Requests : answer[p] = "409" => \E t \in trxs : t.key = req[p].key

\* Every request the server accepted is answered, also when scans lock rows in
\* opposite orders.
EveryRequestAnswered ==
    \A p \in Requests : pc[p] # "idle" ~> pc[p] = "done"

\* Seen through its committed rows the service is the atomic one.
Atomic == INSTANCE AtomicTransfers
ImplementsAtomic == Atomic!Spec

\* To the interceptor in front of it the service is one keyed handler.
Recorded == {t.by : t \in trxs}

Outcome(p) ==
    CASE answer[p] = "200"                       -> p
      [] answer[p] \in {"400", "403", "404", "409"} -> "refused"
      [] answer[p] = "500"                       -> "error"
      [] OTHER                                   -> "none"

Handler == INSTANCE KeyedHandler
    WITH Attempts <- Requests, keyOf <- [p \in Requests |-> req[p].key],
         moved <- Recorded, result <- [p \in Requests |-> Outcome(p)]
ImplementsHandler == Handler!Spec

-----------------------------------------------------------------------------
(* The inductive invariant: what each process may rely on while others run. *)

\* Entries p writes, in terms of balances nobody else can change meanwhile.
DebitEntry(p) == [by |-> p, type |-> "DEBIT", amount |-> Total(p),
                  balanceAfter |-> balance[req[p].from] - Total(p)]
CreditEntry(p) == [by |-> p, type |-> "CREDIT", amount |-> req[p].amount,
                   balanceAfter |-> balance[req[p].to] + req[p].amount]
FeeEntry(p) == [by |-> p, type |-> "CREDIT", amount |-> Fee(p),
                balanceAfter |-> balance[System] + Fee(p)]

ExpectedStaged(p) ==
    [w \in Accounts |->
        IF w = req[p].from /\ pc[p] \in {"credit", "fee", "commit"}
        THEN <<DebitEntry(p)>>
        ELSE IF w = req[p].to /\ pc[p] \in {"fee", "commit"}
        THEN <<CreditEntry(p)>>
        ELSE IF w = System /\ pc[p] = "commit" /\ Fee(p) # 0
        THEN <<FeeEntry(p)>>
        ELSE <<>>]

\* The rows p has locked are its own.
RequestHolds(p) ==
    /\ pc[p] = "lock" => \A w \in LockSet(p) \ tx[p].todo : rowLock[w] = p
    /\ pc[p] \in LockedSteps => \A w \in LockSet(p) : rowLock[w] = p

\* What p read under its locks is still so.
RequestKnows(p) ==
    /\ pc[p] \notin {"idle", "done"} => req[p].from # req[p].to
    /\ pc[p] \in LockedSteps \ {"fetchSender"} =>
          /\ tx[p].seen = balance[req[p].from]
          /\ ~tx[p].blocked => Unrestricted(req[p].from)
    /\ pc[p] \in WriteSteps \cup {"fetchSystem"} =>
          (~tx[p].blocked => Unrestricted(req[p].to))
    /\ pc[p] \in WriteSteps => (~tx[p].blocked => active[System])
    /\ pc[p] \in WriteSteps \ {"insert"} =>
          ~tx[p].blocked /\ tx[p].seen >= Total(p) /\ ~Duplicate(p, tx[p].trxId)

\* What p has written so far fits the columns it will be stored in.
RequestStaged(p) ==
    /\ tx[p].staged = ExpectedStaged(p)
    /\ pc[p] \in {"fee", "commit"} => balance[req[p].to] + req[p].amount <= MaxBalance
    /\ pc[p] = "commit" => balance[System] + Fee(p) <= MaxBalance

\* Only a finished request has an answer or a record.
RequestBooked(p) ==
    /\ answer[p] # "none" => pc[p] = "done"
    /\ \A t \in trxs : t.by = p => pc[p] = "done"

OperationHolds(a) ==
    /\ pc[a] \in {"restrict", "commitSuspend", "checkOwner", "commitActivate"} =>
          rowLock[job[a].wallet] = a
    /\ pc[a] = "commitActivate" => status[job[a].wallet] = "ACTIVE"

Relies(p) == RequestHolds(p) /\ RequestKnows(p) /\ RequestStaged(p) /\ RequestBooked(p)

IInv ==
    /\ TypeOK
    /\ \A p \in Requests : Relies(p)
    /\ \A a \in Operations : OperationHolds(a)
    /\ BalancesInRange
    /\ LedgerChain
    /\ KeyMovesMoneyOnce
    /\ AnswersMatchBooks
    /\ RestrictedIsFrozen
    /\ active[System]

\* What a record says of the request that made it.
RecordsAreAsked == \A t \in trxs : t.key = req[t.by].key

\* What NoDeadlock rests on when there is one scan order: a request holds rows
\* only below those it still wants, no operation begins its transaction with a
\* row, and none waits while it holds a user row.
RowsFollowScan(p) ==
    /\ pc[p] \in RequestSteps
    /\ \A w \in Accounts : rowLock[w] = p =>
          /\ pc[p] \in {"lock"} \cup LockedSteps
          /\ pc[p] = "lock" => \A v \in tx[p].todo : tx[p].scan[w] < tx[p].scan[v]

RowsAreTaken(a) ==
    /\ pc[a] \in OperationSteps
    /\ \A w \in Accounts : rowLock[w] = a =>
          pc[a] \in {"restrict", "commitSuspend", "checkOwner", "commitActivate"}

UserIsLast(a) == \A w \in Wallets : userLock[w] = a => pc[a] = "commitSuspend"

LocksFollowScan ==
    /\ \A p \in Requests : RowsFollowScan(p)
    /\ \A a \in Operations : RowsAreTaken(a) /\ UserIsLast(a)
=============================================================================
