--------------------------- MODULE TransfersProofs ---------------------------
(***************************************************************************)
(* The inductive invariant of Transfers and what follows from it, for      *)
(* every set of wallets, requests, operations and scan orders.             *)
(*                                                                         *)
(* The argument is rely-guarantee.  A step of process q changes only q's   *)
(* own memory and takes or frees only q's own row locks (StepIsOwn); it    *)
(* changes a row of the database only while no other process has the row   *)
(* locked (LockedRowIsStable).  So what a request knows about the rows it  *)
(* has locked survives every step of the others (OthersKeepRelies), and    *)
(* each of its own steps has to establish the next thing it relies on      *)
(* (OwnStepKeepsRelies).                                                   *)
(***************************************************************************)
EXTENDS Transfers, WellFoundedInduction, TLAPS

USE DEF Accounts, Procs

-----------------------------------------------------------------------------
(* Types. *)

LEMMA FeeIsNat ==
    ASSUME NEW amount \in Nat, NEW type
    PROVE  CalculateFee(amount, type) \in Nat
<1>1. amount * 185 \in Nat
  OBVIOUS
<1>2. DivideRoundHalfEven(amount * 185, 10000) \in Nat
  BY <1>1 DEF DivideRoundHalfEven
<1>3. QED
  BY <1>2 DEF CalculateFee

LEMMA TotalIsNat ==
    ASSUME NEW p \in Requests, req \in [Requests -> RequestSet]
    PROVE  /\ req[p].amount \in Nat
           /\ Fee(p) \in Nat
           /\ Total(p) \in Nat
           /\ Total(p) = req[p].amount + Fee(p)
<1>1. req[p].amount \in Nat
  BY RequestAssumption
<1>2. QED
  BY <1>1, FeeIsNat DEF Fee, Total, TotalRequired

LEMMA BlankMemoryType == BlankMemory \in Memory
<1>1. PICK rank0 \in ScanOrders : TRUE
  BY ScanAssumption
<1>2. (CHOOSE rank \in ScanOrders : TRUE) \in ScanOrders
  BY <1>1
<1>3. PICK t0 \in TrxIds : TRUE
  BY TrxIdAssumption
<1>4. (CHOOSE t \in TrxIds : TRUE) \in TrxIds
  BY <1>3
<1>5. <<>> \in Seq(Entry)
  OBVIOUS
<1>6. QED
  BY <1>2, <1>4, <1>5 DEF BlankMemory, Memory

LEMMA FinishType ==
    ASSUME TypeOK, NEW p \in Procs, NEW code \in Answers, Finish(p, code)
    PROVE  /\ tx' \in [Requests -> Memory]
           /\ pc' \in [Procs -> RequestSteps \cup OperationSteps]
           /\ answer' \in [Procs -> Answers]
           /\ req' \in [Requests -> RequestSet]
           /\ job' \in [Operations -> OperationSet]
BY BlankMemoryType DEF TypeOK, Finish, Goto, RequestSteps, asked

LEMMA ReleaseType ==
    ASSUME TypeOK, NEW p \in Procs, Release(p)
    PROVE  /\ rowLock' \in [Accounts -> Procs \cup {NoProc}]
           /\ userLock' \in [Wallets -> Operations \cup {NoProc}]
BY DEF TypeOK, Release

LEMMA RollbackType ==
    ASSUME TypeOK, NEW p \in Procs, NEW code \in Answers, Rollback(p, code)
    PROVE  TypeOK'
BY FinishType, ReleaseType DEF TypeOK, Rollback, db

-----------------------------------------------------------------------------
(* Type correctness. *)

LEMMA StepNames ==
    /\ LockedSteps \subseteq RequestSteps
    /\ {"idle", "preflight", "begin", "lock", "done"} \subseteq RequestSteps
    /\ {"freeze", "restrict", "commitSuspend", "checkOwner", "commitActivate"}
          \subseteq OperationSteps
BY DEF LockedSteps, WriteSteps, RequestSteps, OperationSteps

LEMMA StageType ==
    ASSUME TypeOK, NEW p \in Requests, NEW w \in Accounts,
           NEW type \in {"DEBIT", "CREDIT"}, NEW amount \in Nat, NEW after \in Int,
           Stage(p, w, type, amount, after)
    PROVE  /\ tx' \in [Requests -> Memory]
           /\ rowLock' \in [Accounts -> Procs \cup {NoProc}]
           /\ UNCHANGED <<db, userLock, asked, answer>>
<1> DEFINE e == [by |-> p, type |-> type, amount |-> amount, balanceAfter |-> after]
<1>1. e \in Entry
  BY DEF Entry
<1>2. tx[p] \in Memory /\ tx[p].staged[w] \in Seq(Entry)
  BY DEF TypeOK, Memory
<1>3. Append(tx[p].staged[w], e) \in Seq(Entry)
  BY <1>1, <1>2
<1>4. [tx[p] EXCEPT !.staged[w] = Append(@, e)] \in Memory
  BY <1>2, <1>3 DEF Memory
<1>5. tx' = [tx EXCEPT ![p] = [tx[p] EXCEPT !.staged[w] = Append(@, e)]]
  BY DEF Stage, TypeOK
<1>6. tx' \in [Requests -> Memory]
  BY <1>4, <1>5 DEF TypeOK
<1>7. QED
  BY <1>6 DEF Stage, TakeRow, TypeOK

LEMMA CurrentType ==
    ASSUME TypeOK, NEW p \in Requests, NEW w \in Accounts
    PROVE  Current(p, w) \in Int
<1>1. tx[p].staged[w] \in Seq(Entry)
  BY DEF TypeOK, Memory
<1>2. CASE tx[p].staged[w] = <<>>
  BY <1>2 DEF Current, TypeOK
<1>3. CASE tx[p].staged[w] # <<>>
  <2>1. Len(tx[p].staged[w]) \in 1 .. Len(tx[p].staged[w])
    BY <1>1, <1>3
  <2>2. tx[p].staged[w][Len(tx[p].staged[w])] \in Entry
    BY <1>1, <2>1
  <2>3. QED
    BY <1>3, <2>2 DEF Current, Entry
<1>4. QED
  BY <1>2, <1>3

LEMMA AskedTypes ==
    ASSUME TypeOK
    PROVE  /\ \A p \in Requests : /\ req[p].from \in Wallets
                                  /\ req[p].to \in Wallets
                                  /\ req[p].type \in TransferTypes
                                  /\ req[p].amount \in Nat
                                  /\ LockSet(p) \subseteq Accounts
           /\ \A a \in Operations : job[a].wallet \in Wallets
BY RequestAssumption, OperationAssumption DEF TypeOK, LockSet

LEMMA BeginMemory ==
    ASSUME NEW m \in Memory, NEW rows \in SUBSET Accounts, NEW rank \in ScanOrders
    PROVE  [m EXCEPT !.todo = rows, !.scan = rank, !.seen = 0] \in Memory
<1>1. [m EXCEPT !.todo = rows, !.scan = rank] \in Memory
  BY DEF Memory
<1>2. [m EXCEPT !.seen = 0] \in Memory
  BY DEF Memory
<1>3. QED
  BY <1>1, <1>2 DEF Memory

LEMMA RequestType ==
    ASSUME TypeOK, NEW p \in Requests, Submit(p) \/ Refuse(p) \/ RequestStep(p)
    PROVE  TypeOK'
<1> USE StepNames, AskedTypes
<1>0. p \in Procs /\ tx[p] \in Memory
  BY DEF TypeOK
<1>1. CASE Submit(p)
  <2>1. [tx[p] EXCEPT !.todo = {req[p].from, req[p].to}] \in Memory
    BY <1>0 DEF Memory
  <2>2. tx' \in [Requests -> Memory]
    BY <1>1, <2>1 DEF Submit, TypeOK
  <2>3. QED
    BY <1>1, <2>2 DEF Submit, Goto, TypeOK, db, locks, asked
<1>2. CASE Refuse(p)
  BY <1>2, RollbackType DEF Refuse, Refusal, Answers
<1>3. ASSUME NEW w \in Wallets, PreflightRead(p, w)
      PROVE  TypeOK'
  <2>1. [tx[p] EXCEPT !.todo = @ \ {w},
                      !.seen = IF w = req[p].from THEN balance[w] ELSE @] \in Memory
    BY <1>0 DEF Memory, TypeOK
  <2>2. tx' \in [Requests -> Memory]
    BY <1>3, <2>1 DEF PreflightRead, TypeOK
  <2>3. QED
    BY <1>3, <2>2 DEF PreflightRead, TypeOK, db, locks, asked
<1>4. ASSUME NEW w \in Wallets, PreflightInactive(p, w)
      PROVE  TypeOK'
  BY <1>4, RollbackType DEF PreflightInactive, Answers
<1>5. CASE PreflightPass(p)
  BY <1>5 DEF PreflightPass, Goto, TypeOK, db, locks, asked
<1>6. CASE PreflightRefuse(p) \/ RefuseRestricted(p) \/ RefuseInsufficient(p) \/ Overflow(p)
  BY <1>6, RollbackType
  DEF PreflightRefuse, RefuseRestricted, RefuseInsufficient, Overflow, Answers
<1>7. CASE Begin(p)
  <2>1. PICK rank \in ScanOrders :
            tx' = [tx EXCEPT ![p].todo = LockSet(p), ![p].scan = rank, ![p].seen = 0]
    BY <1>7 DEF Begin
  <2>2. LockSet(p) \in SUBSET Accounts
    OBVIOUS
  <2> DEFINE m == [tx[p] EXCEPT !.todo = LockSet(p), !.scan = rank, !.seen = 0]
  <2>3. m \in Memory
    BY <1>0, <2>2, BeginMemory
  <2>5. tx' = [tx EXCEPT ![p] = m]
    BY <2>1 DEF TypeOK
  <2>6. tx' \in [Requests -> Memory]
    BY <2>3, <2>5 DEF TypeOK
  <2>7. QED
    BY <1>7, <2>6 DEF Begin, Goto, TypeOK, db, locks, asked
<1>8. CASE LockRow(p)
  <2>1. [tx[p] EXCEPT !.todo = @ \ {NextRow(p)}] \in Memory
    BY <1>0 DEF Memory
  <2>2. tx' \in [Requests -> Memory]
    BY <1>8, <2>1 DEF LockRow, TypeOK
  <2>3. rowLock' \in [Accounts -> Procs \cup {NoProc}]
    BY <1>0, <1>8 DEF LockRow, TakeRow, TypeOK
  <2>4. QED
    BY <1>8, <2>2, <2>3 DEF LockRow, TakeRow, TypeOK, db, asked
<1>9. CASE AllLocked(p)
  BY <1>9 DEF AllLocked, Goto, TypeOK, db, locks, asked, LockedSteps
<1>10. CASE FetchSender(p)
  <2>1. [tx[p] EXCEPT !.seen = balance[req[p].from],
                      !.blocked = ~Unrestricted(req[p].from)] \in Memory
    BY <1>0 DEF Memory, TypeOK, Unrestricted
  <2>2. tx' \in [Requests -> Memory]
    BY <1>10, <2>1 DEF FetchSender, TypeOK
  <2>3. QED
    BY <1>10, <2>2 DEF FetchSender, Goto, TypeOK, db, locks, asked, LockedSteps
<1>11. CASE FetchReceiver(p)
  <2>1. [tx[p] EXCEPT !.blocked = @ \/ ~Unrestricted(req[p].to)] \in Memory
    BY <1>0 DEF Memory, TypeOK, Unrestricted
  <2>2. tx' \in [Requests -> Memory]
    BY <1>11, <2>1 DEF FetchReceiver, TypeOK
  <2>3. QED
    BY <1>11, <2>2 DEF FetchReceiver, Goto, TypeOK, db, locks, asked, LockedSteps
<1>12. CASE FetchSystem(p)
  <2>1. [tx[p] EXCEPT !.blocked = @ \/ ~active[System]] \in Memory
    BY <1>0 DEF Memory, TypeOK
  <2>2. tx' \in [Requests -> Memory]
    BY <1>12, <2>1 DEF FetchSystem, TypeOK
  <2>3. QED
    BY <1>12, <2>2 DEF FetchSystem, Goto, TypeOK, db, locks, asked, LockedSteps, WriteSteps
<1>13. ASSUME NEW id \in TrxIds, InsertTransaction(p, id)
       PROVE  TypeOK'
  <2>1. [tx[p] EXCEPT !.trxId = id] \in Memory
    BY <1>0 DEF Memory
  <2>2. tx' \in [Requests -> Memory]
    BY <1>13, <2>1 DEF InsertTransaction, TypeOK
  <2>3. QED
    BY <1>13, <2>2
    DEF InsertTransaction, Goto, TypeOK, db, locks, asked, LockedSteps, WriteSteps
<1>14. ASSUME NEW id \in TrxIds, RefuseDuplicate(p, id)
       PROVE  TypeOK'
  BY <1>14, RollbackType DEF RefuseDuplicate, Answers
<1>15. CASE Debit(p)
  <2>1. Current(p, req[p].from) - Total(p) \in Int /\ Total(p) \in Nat
    BY CurrentType, TotalIsNat DEF TypeOK
  <2>2. QED
    BY <1>0, <1>15, <2>1, StageType
    DEF Debit, Goto, TypeOK, db, asked, LockedSteps, WriteSteps
<1>16. CASE Credit(p)
  <2>1. Current(p, req[p].to) + req[p].amount \in Int
    BY CurrentType
  <2>2. QED
    BY <1>0, <1>16, <2>1, StageType
    DEF Credit, Goto, TypeOK, db, asked, LockedSteps, WriteSteps
<1>17. CASE CollectFee(p)
  <2>1. Current(p, System) + Fee(p) \in Int /\ Fee(p) \in Nat /\ System \in Accounts
    BY CurrentType, TotalIsNat DEF TypeOK
  <2>2. QED
    BY <1>0, <1>17, <2>1, StageType
    DEF CollectFee, Goto, TypeOK, db, asked, LockedSteps, WriteSteps
<1>18. CASE NoFee(p)
  BY <1>18 DEF NoFee, Goto, TypeOK, db, locks, asked, LockedSteps, WriteSteps
<1>19. CASE Commit(p)
  <2>1. NewRecord(p) \in Record
    BY <1>0, TotalIsNat DEF NewRecord, Record, Memory, TypeOK
  <2>2. balance' \in [Accounts -> Int]
    BY <1>19, CurrentType DEF Commit
  <2>3. \A w \in Accounts : ledger[w] \o tx[p].staged[w] \in Seq(Entry)
    BY <1>0 DEF Memory, TypeOK
  <2>4. ledger' \in [Accounts -> Seq(Entry)]
    BY <1>19, <2>3 DEF Commit
  <2>5. PICK code \in {"200", "500"} : Finish(p, code)
    BY <1>19 DEF Commit
  <2>6. code \in Answers
    BY DEF Answers
  <2>7. Release(p) /\ trxs' = trxs \cup {NewRecord(p)} /\ UNCHANGED <<active, status>>
    BY <1>19 DEF Commit
  <2>8. /\ tx' \in [Requests -> Memory]
        /\ pc' \in [Procs -> RequestSteps \cup OperationSteps]
        /\ answer' \in [Procs -> Answers]
        /\ req' \in [Requests -> RequestSet]
        /\ job' \in [Operations -> OperationSet]
    BY <1>0, <2>5, <2>6, FinishType
  <2>9. /\ rowLock' \in [Accounts -> Procs \cup {NoProc}]
        /\ userLock' \in [Wallets -> Operations \cup {NoProc}]
    BY <1>0, <2>7, ReleaseType
  <2>10. QED
    BY <2>1, <2>2, <2>4, <2>7, <2>8, <2>9 DEF TypeOK
<1>20. QED
  BY <1>1, <1>2, <1>3, <1>4, <1>5, <1>6, <1>7, <1>8, <1>9, <1>10, <1>11, <1>12,
     <1>13, <1>14, <1>15, <1>16, <1>17, <1>18, <1>19 DEF RequestStep

LEMMA OperationType ==
    ASSUME TypeOK, NEW a \in Operations, OperationCall(a) \/ OperationStep(a)
    PROVE  TypeOK'
<1> USE StepNames
<1>0. a \in Procs /\ job[a].wallet \in Wallets /\ job[a].wallet \in Accounts
  BY AskedTypes
<1>1. "200" \in Answers
  BY DEF Answers
<1>2. CASE RefuseOperation(a)
  BY <1>0, <1>2, RollbackType DEF RefuseOperation, Answers
<1>3. CASE Suspend(a) \/ CheckOwner(a)
  <2>1. pc' = [pc EXCEPT ![a] = "freeze"] \/ pc' = [pc EXCEPT ![a] = "commitActivate"]
    BY <1>3 DEF Suspend, CheckOwner, Goto
  <2>2. pc' \in [Procs -> RequestSteps \cup OperationSteps]
    BY <1>0, <2>1 DEF TypeOK
  <2>3. QED
    BY <1>3, <2>2 DEF Suspend, CheckOwner, TypeOK, db, locks, asked
<1>4. CASE FreezeWallet(a) \/ ActivateWallet(a)
  <2>1. rowLock' = [rowLock EXCEPT ![job[a].wallet] = a] /\ UNCHANGED userLock
    BY <1>4 DEF FreezeWallet, ActivateWallet, TakeRow
  <2>2. rowLock' \in [Accounts -> Procs \cup {NoProc}]
    BY <1>0, <2>1 DEF TypeOK
  <2>3. pc' = [pc EXCEPT ![a] = "restrict"] \/ pc' = [pc EXCEPT ![a] = "checkOwner"]
    BY <1>4 DEF FreezeWallet, ActivateWallet, Goto
  <2>4. pc' \in [Procs -> RequestSteps \cup OperationSteps]
    BY <1>0, <2>3 DEF TypeOK
  <2>5. UNCHANGED <<db, asked, tx, answer>>
    BY <1>4 DEF FreezeWallet, ActivateWallet
  <2>6. QED
    BY <2>1, <2>2, <2>4, <2>5 DEF TypeOK, db, asked
<1>5. CASE RestrictUser(a)
  <2>1. userLock' \in [Wallets -> Operations \cup {NoProc}]
    BY <1>0, <1>5 DEF RestrictUser, TypeOK
  <2>2. pc' \in [Procs -> RequestSteps \cup OperationSteps]
    BY <1>0, <1>5 DEF RestrictUser, Goto, TypeOK
  <2>3. QED
    BY <1>5, <2>1, <2>2 DEF RestrictUser, TypeOK, db, asked
<1>6. CASE CommitSuspend(a)
  <2>1. active' \in [Accounts -> BOOLEAN] /\ status' \in [Wallets -> Statuses]
    BY <1>6 DEF CommitSuspend, TypeOK, Statuses
  <2>2. Finish(a, "200") /\ Release(a) /\ UNCHANGED <<balance, trxs, ledger>>
    BY <1>6 DEF CommitSuspend
  <2>3. QED
    BY <1>0, <1>1, <2>1, <2>2, FinishType, ReleaseType DEF TypeOK
<1>7. CASE Reactivate(a)
  <2>1. status' \in [Wallets -> Statuses]
    BY <1>7 DEF Reactivate, TypeOK, Statuses
  <2>2. Finish(a, "200") /\ UNCHANGED <<balance, active, trxs, ledger, locks>>
    BY <1>7 DEF Reactivate
  <2>3. QED
    BY <1>0, <1>1, <2>1, <2>2, FinishType DEF TypeOK, locks
<1>8. CASE Deactivate(a)
  <2>1. active' \in [Accounts -> BOOLEAN]
    BY <1>8 DEF Deactivate, TypeOK
  <2>2. Finish(a, "200") /\ UNCHANGED <<balance, status, trxs, ledger, locks>>
    BY <1>8 DEF Deactivate
  <2>3. QED
    BY <1>0, <1>1, <2>1, <2>2, FinishType DEF TypeOK, locks
<1>9. CASE CommitActivate(a)
  <2>1. active' \in [Accounts -> BOOLEAN]
    BY <1>9 DEF CommitActivate, TypeOK
  <2>2. Finish(a, "200") /\ Release(a) /\ UNCHANGED <<balance, status, trxs, ledger>>
    BY <1>9 DEF CommitActivate
  <2>3. QED
    BY <1>0, <1>1, <2>1, <2>2, FinishType, ReleaseType DEF TypeOK
<1>10. QED
  BY <1>2, <1>3, <1>4, <1>5, <1>6, <1>7, <1>8, <1>9 DEF OperationCall, OperationStep

LEMMA InitType == Init => TypeOK
<1> SUFFICES ASSUME Init PROVE TypeOK
  OBVIOUS
<1>1. InitBalance \in [Accounts -> Int]
  BY WalletAssumption
<1>2. ledger \in [Accounts -> Seq(Entry)]
  <2>1. <<>> \in Seq(Entry)
    OBVIOUS
  <2>2. QED
    BY <2>1 DEF Init
<1>3. tx \in [Requests -> Memory]
  BY BlankMemoryType DEF Init
<1>4. pc \in [Procs -> RequestSteps \cup OperationSteps]
  BY StepNames DEF Init
<1>5. /\ balance \in [Accounts -> Int]
      /\ trxs \subseteq Record
      /\ active \in [Accounts -> BOOLEAN]
      /\ status \in [Wallets -> Statuses]
      /\ answer \in [Procs -> Answers]
  BY <1>1 DEF Init, Statuses, Answers
<1>6. /\ rowLock \in [Accounts -> Procs \cup {NoProc}]
      /\ userLock \in [Wallets -> Operations \cup {NoProc}]
  BY DEF Init
<1>7. QED
  BY <1>2, <1>3, <1>4, <1>5, <1>6 DEF Init, TypeOK

LEMMA NextType == TypeOK /\ [Next]_vars => TypeOK'
<1> SUFFICES ASSUME TypeOK, [Next]_vars PROVE TypeOK'
  OBVIOUS
<1>1. CASE UNCHANGED vars
  BY <1>1 DEF TypeOK, vars, db, locks, asked
<1>2. ASSUME NEW p \in Requests, Submit(p) \/ Refuse(p) \/ RequestStep(p)
      PROVE  TypeOK'
  BY <1>2, RequestType
<1>3. ASSUME NEW a \in Operations, OperationCall(a) \/ OperationStep(a)
      PROVE  TypeOK'
  BY <1>3, OperationType
<1>4. ASSUME NEW p \in Procs, Fail(p) \/ DeadlockVictim(p)
      PROVE  TypeOK'
  BY <1>4, RollbackType DEF Fail, DeadlockVictim, Answers
<1>5. CASE AllDone
  BY <1>1, <1>5 DEF AllDone
<1>6. QED
  BY <1>1, <1>2, <1>3, <1>4, <1>5 DEF Next

(***************************************************************************)
(* Every reachable state is well typed: rows, locks, answers and what each *)
(* handler remembers keep their types through every step and failure.      *)
(***************************************************************************)
THEOREM TypeCorrect == Spec => []TypeOK
BY InitType, NextType, PTL DEF Spec

-----------------------------------------------------------------------------
(* The inductive invariant. *)

ProcStep(q) ==
    \/ q \in Requests /\ (Submit(q) \/ Refuse(q) \/ RequestStep(q))
    \/ q \in Operations /\ (OperationCall(q) \/ OperationStep(q))
    \/ Fail(q) \/ DeadlockVictim(q)

LEMMA NextIsProcStep ==
    ASSUME Next
    PROVE  (\E q \in Procs : ProcStep(q)) \/ UNCHANGED vars
<1>1. ASSUME NEW p \in Requests, Submit(p) \/ Refuse(p) \/ RequestStep(p)
      PROVE  \E q \in Procs : ProcStep(q)
  <2>1. p \in Procs /\ ProcStep(p)
    BY <1>1 DEF ProcStep
  <2>2. QED
    BY <2>1
<1>2. ASSUME NEW a \in Operations, OperationCall(a) \/ OperationStep(a)
      PROVE  \E q \in Procs : ProcStep(q)
  <2>1. a \in Procs /\ ProcStep(a)
    BY <1>2 DEF ProcStep
  <2>2. QED
    BY <2>1
<1>3. ASSUME NEW p \in Procs, Fail(p) \/ DeadlockVictim(p)
      PROVE  \E q \in Procs : ProcStep(q)
  BY <1>3 DEF ProcStep
<1>4. CASE AllDone
  BY <1>4 DEF AllDone
<1>5. QED
  BY <1>1, <1>2, <1>3, <1>4 DEF Next

\* What a step of q leaves to the others.
OwnOnly(q) ==
    /\ UNCHANGED asked
    /\ \A p \in Procs \ {q} : pc'[p] = pc[p] /\ answer'[p] = answer[p]
    /\ \A p \in Requests \ {q} : tx'[p] = tx[p]
    /\ \A p \in Procs \ {q}, w \in Accounts : rowLock[w] = p => rowLock'[w] = p

LEMMA RollbackIsOwn ==
    ASSUME TypeOK, NEW q \in Procs, NEW code, Finish(q, code),
           Release(q) \/ UNCHANGED locks
    PROVE  OwnOnly(q)
BY DEF OwnOnly, Finish, Goto, Release, TypeOK, locks

LEMMA TakeRowIsOwn ==
    ASSUME TypeOK, NEW q \in Procs, NEW w, TakeRow(q, w)
    PROVE  \A p \in Procs \ {q}, v \in Accounts : rowLock[v] = p => rowLock'[v] = p
BY ProcAssumption DEF TakeRow, Writable, TypeOK

LEMMA RequestStepIsOwn ==
    ASSUME TypeOK, NEW q \in Requests, Submit(q) \/ Refuse(q) \/ RequestStep(q)
    PROVE  OwnOnly(q)
<1>0. q \in Procs
  OBVIOUS
<1>1. ASSUME NEW code, Rollback(q, code)
      PROVE  OwnOnly(q)
  <2>1. Finish(q, code) /\ Release(q)
    BY <1>1 DEF Rollback
  <2>2. QED
    BY <1>0, <2>1, RollbackIsOwn
<1>2. CASE \/ Refuse(q) \/ PreflightRefuse(q) \/ RefuseRestricted(q)
           \/ RefuseInsufficient(q) \/ Overflow(q)
           \/ (\E w \in Wallets : PreflightInactive(q, w))
           \/ (\E id \in TrxIds : RefuseDuplicate(q, id))
  BY <1>1, <1>2 DEF Refuse, PreflightRefuse, RefuseRestricted, RefuseInsufficient,
     Overflow, PreflightInactive, RefuseDuplicate
<1>3. CASE Submit(q) \/ PreflightPass(q) \/ AllLocked(q) \/ NoFee(q)
  BY <1>3 DEF Submit, PreflightPass, AllLocked, NoFee, Goto, OwnOnly, TypeOK, locks
<1>4. CASE \E w \in Wallets : PreflightRead(q, w)
  BY <1>4 DEF PreflightRead, OwnOnly, TypeOK, locks
<1>5. CASE Begin(q)
  BY <1>5 DEF Begin, Goto, OwnOnly, TypeOK, locks
<1>6. CASE FetchSender(q) \/ FetchReceiver(q) \/ FetchSystem(q)
  BY <1>6 DEF FetchSender, FetchReceiver, FetchSystem, Goto, OwnOnly, TypeOK, locks
<1>7. CASE \E id \in TrxIds : InsertTransaction(q, id)
  BY <1>7 DEF InsertTransaction, Goto, OwnOnly, TypeOK, locks
<1>8. CASE LockRow(q)
  BY <1>0, <1>8, TakeRowIsOwn DEF LockRow, OwnOnly, TypeOK
<1>9. CASE Debit(q) \/ Credit(q) \/ CollectFee(q)
  BY <1>0, <1>9, TakeRowIsOwn DEF Debit, Credit, CollectFee, Stage, Goto, OwnOnly, TypeOK
<1>10. CASE Commit(q)
  BY <1>0, <1>10, RollbackIsOwn DEF Commit
<1>11. QED
  BY <1>2, <1>3, <1>4, <1>5, <1>6, <1>7, <1>8, <1>9, <1>10 DEF RequestStep

LEMMA OperationStepIsOwn ==
    ASSUME TypeOK, NEW q \in Operations, OperationCall(q) \/ OperationStep(q)
    PROVE  OwnOnly(q)
<1>0. q \in Procs /\ q \notin Requests
  BY ProcAssumption
<1>1. CASE RefuseOperation(q)
  BY <1>0, <1>1, RollbackIsOwn DEF RefuseOperation, Rollback
<1>2. CASE Suspend(q) \/ CheckOwner(q) \/ RestrictUser(q)
  BY <1>0, <1>2 DEF Suspend, CheckOwner, RestrictUser, Goto, OwnOnly, TypeOK, locks
<1>3. CASE FreezeWallet(q) \/ ActivateWallet(q)
  BY <1>0, <1>3, TakeRowIsOwn DEF FreezeWallet, ActivateWallet, Goto, OwnOnly, TypeOK
<1>4. CASE CommitSuspend(q) \/ Reactivate(q) \/ Deactivate(q) \/ CommitActivate(q)
  BY <1>0, <1>4, RollbackIsOwn
  DEF CommitSuspend, Reactivate, Deactivate, CommitActivate, locks
<1>5. QED
  BY <1>1, <1>2, <1>3, <1>4 DEF OperationCall, OperationStep

LEMMA StepIsOwn ==
    ASSUME TypeOK, NEW q \in Procs, ProcStep(q)
    PROVE  OwnOnly(q)
<1>1. CASE Fail(q) \/ DeadlockVictim(q)
  BY <1>1, RollbackIsOwn DEF Fail, DeadlockVictim, Rollback
<1>2. QED
  BY <1>1, RequestStepIsOwn, OperationStepIsOwn DEF ProcStep

\* The steps that change committed rows.
Writes(q) ==
    \/ q \in Requests /\ Commit(q)
    \/ /\ q \in Operations
       /\ CommitSuspend(q) \/ Reactivate(q) \/ Deactivate(q) \/ CommitActivate(q)

LEMMA StepWrites ==
    ASSUME NEW q \in Procs, ProcStep(q)
    PROVE  UNCHANGED db \/ Writes(q)
<1>1. ASSUME NEW code, Rollback(q, code)
      PROVE  UNCHANGED db
  BY <1>1 DEF Rollback
<1>2. CASE Fail(q) \/ DeadlockVictim(q)
  BY <1>1, <1>2 DEF Fail, DeadlockVictim
<1>3. ASSUME q \in Requests, Submit(q) \/ Refuse(q) \/ RequestStep(q)
      PROVE  UNCHANGED db \/ Writes(q)
  <2>1. CASE \/ Refuse(q) \/ PreflightRefuse(q) \/ RefuseRestricted(q)
             \/ RefuseInsufficient(q) \/ Overflow(q)
             \/ (\E w \in Wallets : PreflightInactive(q, w))
             \/ (\E id \in TrxIds : RefuseDuplicate(q, id))
    BY <1>1, <2>1 DEF Refuse, PreflightRefuse, RefuseRestricted, RefuseInsufficient,
       Overflow, PreflightInactive, RefuseDuplicate
  <2>2. CASE \/ Submit(q) \/ PreflightPass(q) \/ AllLocked(q) \/ NoFee(q) \/ Begin(q)
             \/ FetchSender(q) \/ FetchReceiver(q) \/ FetchSystem(q) \/ LockRow(q)
             \/ (\E w \in Wallets : PreflightRead(q, w))
             \/ (\E id \in TrxIds : InsertTransaction(q, id))
    BY <2>2 DEF Submit, PreflightPass, AllLocked, NoFee, Begin, FetchSender,
       FetchReceiver, FetchSystem, LockRow, PreflightRead, InsertTransaction
  <2>3. CASE Debit(q) \/ Credit(q) \/ CollectFee(q)
    BY <2>3 DEF Debit, Credit, CollectFee, Stage
  <2>4. QED
    BY <1>3, <2>1, <2>2, <2>3 DEF RequestStep, Writes
<1>4. ASSUME q \in Operations, OperationCall(q) \/ OperationStep(q)
      PROVE  UNCHANGED db \/ Writes(q)
  <2>1. CASE RefuseOperation(q)
    BY <1>1, <2>1 DEF RefuseOperation
  <2>2. CASE \/ Suspend(q) \/ CheckOwner(q) \/ RestrictUser(q)
             \/ FreezeWallet(q) \/ ActivateWallet(q)
    BY <2>2 DEF Suspend, CheckOwner, RestrictUser, FreezeWallet, ActivateWallet
  <2>3. QED
    BY <1>4, <2>1, <2>2 DEF OperationCall, OperationStep, Writes
<1>5. QED
  BY <1>2, <1>3, <1>4 DEF ProcStep

-----------------------------------------------------------------------------
(* A step of one process does not disturb what another has locked. *)

LEMMA LockedRowIsStable ==
    ASSUME IInv, NEW q \in Procs, ProcStep(q),
           NEW p \in Procs \ {q}, NEW w \in Accounts, rowLock[w] = p
    PROVE  /\ balance'[w] = balance[w]
           /\ active'[w] = active[w]
           /\ w \in Wallets /\ status[w] = "ACTIVE" => status'[w] = "ACTIVE"
           /\ w = System => trxs' = trxs
<1>0. TypeOK
  BY DEF IInv
<1>1. CASE UNCHANGED db
  BY <1>1 DEF db
<1>2. CASE q \in Requests /\ Commit(q)
  <2>1. pc[q] = "commit" /\ Relies(q)
    BY <1>2 DEF Commit, IInv
  <2>2. \A v \in LockSet(q) : rowLock[v] = q
    BY <2>1 DEF Relies, RequestHolds, LockedSteps, WriteSteps
  <2>3. w \notin {req[q].from, req[q].to, System}
    BY <2>2 DEF LockSet
  <2>4. tx[q].staged[w] = <<>>
    BY <2>1, <2>3 DEF Relies, RequestStaged, ExpectedStaged
  <2>5. Current(q, w) = balance[w]
    BY <2>4 DEF Current
  <2>6. QED
    BY <1>2, <2>3, <2>5 DEF Commit
<1>3. CASE q \in Operations /\ CommitSuspend(q)
  <2>1. rowLock[job[q].wallet] = q
    BY <1>3 DEF CommitSuspend, IInv, OperationHolds
  <2>2. QED
    BY <1>0, <1>3, <2>1 DEF CommitSuspend, TypeOK
<1>4. CASE q \in Operations /\ CommitActivate(q)
  <2>1. rowLock[job[q].wallet] = q
    BY <1>4 DEF CommitActivate, IInv, OperationHolds
  <2>2. QED
    BY <1>0, <1>4, <2>1 DEF CommitActivate, TypeOK
<1>5. CASE q \in Operations /\ Reactivate(q)
  BY <1>0, <1>5 DEF Reactivate, TypeOK
<1>6. CASE q \in Operations /\ Deactivate(q)
  <2>1. rowLock[job[q].wallet] \in {NoProc, q}
    BY <1>6 DEF Deactivate, Writable
  <2>2. w # job[q].wallet
    BY <2>1, ProcAssumption
  <2>3. QED
    BY <1>0, <1>6, <2>2 DEF Deactivate, TypeOK
<1>7. QED
  BY <1>1, <1>2, <1>3, <1>4, <1>5, <1>6, StepWrites DEF Writes

LEMMA OthersKeepRelies ==
    ASSUME IInv, NEW q \in Procs, ProcStep(q), NEW p \in Requests, p # q
    PROVE  Relies(p)'
<1>0. TypeOK /\ Relies(p) /\ p \in Procs \ {q}
  BY DEF IInv
<1>1. OwnOnly(q)
  BY <1>0, StepIsOwn
<1>2. req' = req /\ pc'[p] = pc[p] /\ tx'[p] = tx[p] /\ answer'[p] = answer[p]
  BY <1>0, <1>1 DEF OwnOnly, asked
<1>3. /\ req[p].from \in Wallets /\ req[p].to \in Wallets
      /\ LockSet(p) \subseteq Accounts /\ LockSet(p)' = LockSet(p)
  BY <1>0, <1>2, AskedTypes DEF LockSet
<1>4. /\ Fee(p)' = Fee(p) /\ Total(p)' = Total(p)
  BY <1>2 DEF Fee, Total
<1>5. RequestHolds(p)'
  BY <1>0, <1>1, <1>2, <1>3 DEF Relies, RequestHolds, OwnOnly
<1>6. ASSUME pc[p] \in LockedSteps
      PROVE  /\ balance'[req[p].from] = balance[req[p].from]
             /\ balance'[req[p].to] = balance[req[p].to]
             /\ balance'[System] = balance[System]
             /\ active'[System] = active[System]
             /\ Unrestricted(req[p].from) => Unrestricted(req[p].from)'
             /\ Unrestricted(req[p].to) => Unrestricted(req[p].to)'
             /\ trxs' = trxs
  <2>1. \A w \in {req[p].from, req[p].to, System} : rowLock[w] = p
    BY <1>0, <1>6 DEF Relies, RequestHolds, LockSet
  <2>2. QED
    BY <1>0, <1>2, <1>3, <2>1, LockedRowIsStable DEF Unrestricted
<1>7. RequestKnows(p)'
  <2>1. CASE pc[p] \in LockedSteps
    <3>1. Duplicate(p, tx[p].trxId)' = Duplicate(p, tx[p].trxId)
      BY <1>2, <1>6, <2>1 DEF Duplicate
    <3>2. QED
      BY <1>0, <1>2, <1>4, <1>6, <2>1, <3>1 DEF Relies, RequestKnows, Unrestricted
  <2>2. CASE pc[p] \notin LockedSteps
    BY <1>0, <1>2, <2>2 DEF Relies, RequestKnows, LockedSteps, WriteSteps
  <2>3. QED
    BY <2>1, <2>2
<1>8. RequestStaged(p)'
  <2>1. CASE pc[p] \in LockedSteps
    <3>1. /\ DebitEntry(p)' = DebitEntry(p) /\ CreditEntry(p)' = CreditEntry(p)
          /\ FeeEntry(p)' = FeeEntry(p)
      BY <1>2, <1>4, <1>6, <2>1 DEF DebitEntry, CreditEntry, FeeEntry
    <3>2. ExpectedStaged(p)' = ExpectedStaged(p)
      BY <1>2, <1>4, <3>1 DEF ExpectedStaged
    <3>3. QED
      BY <1>0, <1>2, <1>4, <1>6, <2>1, <3>2 DEF Relies, RequestStaged
  <2>2. CASE pc[p] \notin LockedSteps
    <3>1. pc[p] \notin {"credit", "fee", "commit"}
      BY <2>2 DEF LockedSteps, WriteSteps
    <3>2. /\ ExpectedStaged(p) = [w \in Accounts |-> <<>>]
          /\ ExpectedStaged(p)' = [w \in Accounts |-> <<>>]
      BY <1>2, <3>1 DEF ExpectedStaged
    <3>3. QED
      BY <1>0, <1>2, <3>1, <3>2 DEF Relies, RequestStaged
  <2>3. QED
    BY <2>1, <2>2
<1>9. RequestBooked(p)'
  <2>1. \A t \in trxs' : t.by = p => t \in trxs
    <3>1. CASE UNCHANGED db
      BY <3>1 DEF db
    <3>2. CASE q \in Requests /\ Commit(q)
      BY <3>2 DEF Commit, NewRecord
    <3>3. CASE CommitSuspend(q) \/ Reactivate(q) \/ Deactivate(q) \/ CommitActivate(q)
      BY <3>3 DEF CommitSuspend, Reactivate, Deactivate, CommitActivate
    <3>4. QED
      BY <3>1, <3>2, <3>3, StepWrites DEF Writes
  <2>2. QED
    BY <1>0, <1>2, <2>1 DEF Relies, RequestBooked
<1>10. QED
  BY <1>5, <1>7, <1>8, <1>9 DEF Relies

LEMMA OthersKeepHolds ==
    ASSUME IInv, NEW q \in Procs, ProcStep(q), NEW a \in Operations, a # q
    PROVE  OperationHolds(a)'
<1>0. TypeOK /\ OperationHolds(a) /\ a \in Procs \ {q}
  BY DEF IInv
<1>1. OwnOnly(q)
  BY <1>0, StepIsOwn
<1>2. job' = job /\ pc'[a] = pc[a] /\ job[a].wallet \in Wallets
  BY <1>0, <1>1, AskedTypes DEF OwnOnly, asked
<1>3. QED
  BY <1>0, <1>1, <1>2, LockedRowIsStable DEF OperationHolds, OwnOnly

-----------------------------------------------------------------------------
(* A step of a request establishes what the request relies on next. *)

LEMMA FinishRelies ==
    ASSUME TypeOK, NEW q \in Requests, NEW code, Finish(q, code)
    PROVE  Relies(q)'
<1>1. pc'[q] = "done" /\ tx'[q] = BlankMemory
  BY DEF Finish, Goto, TypeOK
<1>2. tx'[q].staged = [w \in Accounts |-> <<>>]
  BY <1>1 DEF BlankMemory
<1>3. ExpectedStaged(q)' = [w \in Accounts |-> <<>>]
  BY <1>1 DEF ExpectedStaged
<1>4. QED
  BY <1>1, <1>2, <1>3 DEF Relies, RequestHolds, RequestKnows, RequestStaged,
     RequestBooked, LockedSteps, WriteSteps

LEMMA BeginKeeps ==
    ASSUME NEW m \in Memory, NEW rows, NEW rank
    PROVE  LET n == [m EXCEPT !.todo = rows, !.scan = rank, !.seen = 0]
           IN  n.todo = rows /\ n.staged = m.staged
<1>1. DOMAIN m = {"todo", "scan", "seen", "blocked", "staged", "trxId"}
  BY DEF Memory
<1>2. QED
  BY <1>1

\* Steps before the row locks are all taken.
LEMMA UnlockedStepRelies ==
    ASSUME TypeOK, NEW q \in Requests, Relies(q),
           \/ Submit(q) \/ PreflightPass(q) \/ Begin(q) \/ AllLocked(q)
           \/ \E w \in Wallets : PreflightRead(q, w)
    PROVE  Relies(q)'
<1>0. q \in Procs /\ tx[q] \in Memory
  BY DEF TypeOK
<1>1. UNCHANGED <<balance, active, status, trxs, rowLock, req, answer>>
  BY DEF Submit, PreflightPass, Begin, AllLocked, PreflightRead, db, locks, asked
<1>2. LockSet(q)' = LockSet(q) /\ Fee(q)' = Fee(q)
  BY <1>1 DEF LockSet, Fee
<1>3. /\ pc[q] \in {"idle", "preflight", "begin", "lock"}
      /\ pc'[q] \in {"preflight", "begin", "lock", "fetchSender"}
      /\ pc[q] \in {"idle"} => Refusal(q) = "none"
  BY <1>0 DEF Submit, PreflightPass, Begin, AllLocked, PreflightRead, Goto, TypeOK
<1>4. tx'[q].staged = tx[q].staged
  <2>1. CASE Begin(q)
    <3>1. PICK rank \in ScanOrders :
             tx' = [tx EXCEPT ![q].todo = LockSet(q), ![q].scan = rank, ![q].seen = 0]
      BY <2>1 DEF Begin
    <3>2. tx'[q] = [tx[q] EXCEPT !.todo = LockSet(q), !.scan = rank, !.seen = 0]
      BY <3>1 DEF TypeOK
    <3>3. QED
      BY <1>0, <3>2, BeginKeeps
  <2>2. CASE Submit(q)
    <3>1. tx'[q] = [tx[q] EXCEPT !.todo = {req[q].from, req[q].to}]
      BY <2>2 DEF Submit, TypeOK
    <3>2. QED
      BY <1>0, <3>1 DEF Memory
  <2>3. CASE PreflightPass(q) \/ AllLocked(q)
    BY <2>3 DEF PreflightPass, AllLocked
  <2>4. ASSUME NEW w \in Wallets, PreflightRead(q, w)
        PROVE  tx'[q].staged = tx[q].staged
    BY <1>0, <2>4 DEF PreflightRead, TypeOK, Memory
  <2>5. QED
    BY <2>1, <2>2, <2>3, <2>4
<1>5. RequestStaged(q)'
  <2>1. /\ ExpectedStaged(q) = [w \in Accounts |-> <<>>]
        /\ ExpectedStaged(q)' = [w \in Accounts |-> <<>>]
    BY <1>3 DEF ExpectedStaged
  <2>2. QED
    BY <1>3, <1>4, <2>1 DEF Relies, RequestStaged
<1>6. RequestBooked(q)'
  BY <1>1, <1>3 DEF Relies, RequestBooked
<1>7. RequestKnows(q)'
  <2>1. req[q].from # req[q].to
    BY <1>3 DEF Relies, RequestKnows, Refusal
  <2>2. QED
    BY <1>1, <1>3, <2>1 DEF RequestKnows, LockedSteps, WriteSteps
<1>8. RequestHolds(q)'
  <2>1. CASE Begin(q)
    <3>1. PICK rank \in ScanOrders :
             tx' = [tx EXCEPT ![q].todo = LockSet(q), ![q].scan = rank, ![q].seen = 0]
      BY <2>1 DEF Begin
    <3>2. tx'[q] = [tx[q] EXCEPT !.todo = LockSet(q), !.scan = rank, !.seen = 0]
      BY <3>1 DEF TypeOK
    <3>3. tx'[q].todo = LockSet(q)
      BY <1>0, <3>2, BeginKeeps
    <3>4. QED
      BY <1>0, <1>2, <2>1, <3>3 DEF Begin, Goto, TypeOK, RequestHolds, LockedSteps, WriteSteps
  <2>2. CASE AllLocked(q)
    BY <1>0, <1>1, <1>2, <2>2 DEF AllLocked, Goto, TypeOK, Relies, RequestHolds
  <2>3. CASE Submit(q) \/ PreflightPass(q) \/ \E w \in Wallets : PreflightRead(q, w)
    BY <1>0, <2>3 DEF Submit, PreflightPass, PreflightRead, Goto, TypeOK, RequestHolds,
       LockedSteps, WriteSteps
  <2>4. QED
    BY <2>1, <2>2, <2>3
<1>9. QED
  BY <1>5, <1>6, <1>7, <1>8 DEF Relies

LEMMA LockRowRelies ==
    ASSUME TypeOK, NEW q \in Requests, Relies(q), LockRow(q)
    PROVE  Relies(q)'
<1>0. q \in Procs /\ tx[q] \in Memory
  BY DEF TypeOK
<1>1. UNCHANGED <<balance, active, status, trxs, req, pc, answer>>
  BY DEF LockRow, db, asked
<1>2. LockSet(q)' = LockSet(q) /\ Fee(q)' = Fee(q)
  BY <1>1 DEF LockSet, Fee
<1>3. pc[q] = "lock"
  BY DEF LockRow
<1>4. /\ tx'[q].staged = tx[q].staged
      /\ tx'[q].todo = tx[q].todo \ {NextRow(q)}
  BY <1>0 DEF LockRow, TypeOK, Memory
<1>5. \A w \in LockSet(q) \ tx'[q].todo : rowLock'[w] = q
  BY <1>0, <1>3, <1>4, AskedTypes DEF LockRow, TakeRow, Relies, RequestHolds, TypeOK
<1>6. RequestHolds(q)'
  BY <1>1, <1>2, <1>3, <1>5 DEF RequestHolds, LockedSteps, WriteSteps
<1>7. RequestStaged(q)'
  <2>1. /\ ExpectedStaged(q) = [w \in Accounts |-> <<>>]
        /\ ExpectedStaged(q)' = [w \in Accounts |-> <<>>]
    BY <1>1, <1>3 DEF ExpectedStaged
  <2>2. QED
    BY <1>1, <1>3, <1>4, <2>1 DEF Relies, RequestStaged
<1>8. RequestBooked(q)' /\ RequestKnows(q)'
  BY <1>1, <1>3 DEF Relies, RequestBooked, RequestKnows, LockedSteps, WriteSteps
<1>9. QED
  BY <1>6, <1>7, <1>8 DEF Relies

\* Steps under the row locks that stage no entry.
LEMMA LockedStepRelies ==
    ASSUME TypeOK, NEW q \in Requests, Relies(q),
           \/ FetchSender(q) \/ FetchReceiver(q) \/ FetchSystem(q)
           \/ \E id \in TrxIds : InsertTransaction(q, id)
    PROVE  Relies(q)'
<1>0. q \in Procs /\ tx[q] \in Memory
  BY DEF TypeOK
<1>1. UNCHANGED <<balance, active, status, trxs, rowLock, req, answer>>
  BY DEF FetchSender, FetchReceiver, FetchSystem, InsertTransaction, db, locks, asked
<1>2. LockSet(q)' = LockSet(q) /\ Fee(q)' = Fee(q) /\ Total(q)' = Total(q)
  BY <1>1 DEF LockSet, Fee, Total
<1>3. /\ pc[q] \in {"fetchSender", "fetchReceiver", "fetchSystem", "insert"}
      /\ pc'[q] \in {"fetchReceiver", "fetchSystem", "insert", "debit"}
  BY <1>0 DEF FetchSender, FetchReceiver, FetchSystem, InsertTransaction, MayWrite, Goto, TypeOK
<1>4. tx'[q].staged = tx[q].staged
  BY <1>0 DEF FetchSender, FetchReceiver, FetchSystem, InsertTransaction, TypeOK, Memory
<1>5. RequestStaged(q)'
  <2>1. /\ ExpectedStaged(q) = [w \in Accounts |-> <<>>]
        /\ ExpectedStaged(q)' = [w \in Accounts |-> <<>>]
    BY <1>3 DEF ExpectedStaged
  <2>2. QED
    BY <1>3, <1>4, <2>1 DEF Relies, RequestStaged
<1>6. RequestBooked(q)' /\ RequestHolds(q)'
  BY <1>1, <1>2, <1>3 DEF Relies, RequestBooked, RequestHolds, LockedSteps, WriteSteps
<1>7. RequestKnows(q)'
  <2>1. req[q].from # req[q].to
    BY <1>3 DEF Relies, RequestKnows
  <2>2. CASE FetchSender(q)
    <3>1. /\ pc'[q] = "fetchReceiver"
          /\ tx'[q].seen = balance[req[q].from]
          /\ tx'[q].blocked = ~Unrestricted(req[q].from)
      BY <1>0, <2>2 DEF FetchSender, Goto, TypeOK, Memory
    <3>2. QED
      BY <1>1, <2>1, <3>1 DEF RequestKnows, Unrestricted, LockedSteps, WriteSteps
  <2>3. CASE FetchReceiver(q)
    <3>1. /\ pc[q] = "fetchReceiver" /\ pc'[q] = "fetchSystem"
          /\ tx'[q].seen = tx[q].seen
          /\ tx'[q].blocked = (tx[q].blocked \/ ~Unrestricted(req[q].to))
      BY <1>0, <2>3 DEF FetchReceiver, Goto, TypeOK, Memory
    <3>2. QED
      BY <1>1, <2>1, <3>1 DEF Relies, RequestKnows, Unrestricted, LockedSteps, WriteSteps
  <2>4. CASE FetchSystem(q)
    <3>1. /\ pc[q] = "fetchSystem" /\ pc'[q] = "insert"
          /\ tx'[q].seen = tx[q].seen
          /\ tx'[q].blocked = (tx[q].blocked \/ ~active[System])
      BY <1>0, <2>4 DEF FetchSystem, Goto, TypeOK, Memory
    <3>2. QED
      BY <1>1, <2>1, <3>1 DEF Relies, RequestKnows, Unrestricted, LockedSteps, WriteSteps
  <2>5. ASSUME NEW id \in TrxIds, InsertTransaction(q, id)
        PROVE  RequestKnows(q)'
    <3>1. /\ pc[q] = "insert" /\ pc'[q] = "debit"
          /\ tx'[q].seen = tx[q].seen /\ tx'[q].blocked = tx[q].blocked
          /\ tx'[q].trxId = id
      BY <1>0, <2>5 DEF InsertTransaction, MayWrite, Goto, TypeOK, Memory
    <3>2. ~tx[q].blocked /\ tx[q].seen >= Total(q) /\ ~Duplicate(q, id)
      BY <2>5 DEF InsertTransaction, MayWrite
    <3>3. ~Duplicate(q, tx[q].trxId)'
      BY <1>1, <3>1, <3>2 DEF Duplicate
    <3>4. QED
      BY <1>1, <1>2, <2>1, <3>1, <3>2, <3>3
      DEF Relies, RequestKnows, Unrestricted, LockedSteps, WriteSteps
  <2>6. QED
    BY <2>2, <2>3, <2>4, <2>5
<1>8. QED
  BY <1>5, <1>6, <1>7 DEF Relies

\* What staging the first entry of a wallet does.
LEMMA StageFirst ==
    ASSUME TypeOK, NEW q \in Requests, NEW w \in Accounts, NEW type, NEW amount,
           NEW after, Stage(q, w, type, amount, after), tx[q].staged[w] = <<>>
    PROVE  /\ tx'[q].staged = [tx[q].staged EXCEPT ![w] =
                 <<[by |-> q, type |-> type, amount |-> amount, balanceAfter |-> after]>>]
           /\ tx'[q].seen = tx[q].seen /\ tx'[q].blocked = tx[q].blocked
           /\ tx'[q].trxId = tx[q].trxId
           /\ \A v \in Accounts : rowLock[v] = q => rowLock'[v] = q
           /\ UNCHANGED <<balance, active, status, trxs, req, answer>>
<1> DEFINE e == [by |-> q, type |-> type, amount |-> amount, balanceAfter |-> after]
<1>1. tx[q] \in Memory
  BY DEF TypeOK
<1>2. tx'[q] = [tx[q] EXCEPT !.staged[w] = Append(@, e)]
  BY DEF Stage, TypeOK
<1>3. Append(tx[q].staged[w], e) = <<e>>
  OBVIOUS
<1>4. tx'[q].staged = [tx[q].staged EXCEPT ![w] = <<e>>]
  BY <1>1, <1>2, <1>3 DEF Memory
<1>5. /\ tx'[q].seen = tx[q].seen /\ tx'[q].blocked = tx[q].blocked
      /\ tx'[q].trxId = tx[q].trxId
  BY <1>1, <1>2 DEF Memory
<1>6. QED
  BY <1>4, <1>5 DEF Stage, TakeRow, TypeOK, db, asked

LEMMA WriteStepRelies ==
    ASSUME TypeOK, BalancesInRange, NEW q \in Requests, Relies(q),
           Debit(q) \/ Credit(q) \/ CollectFee(q) \/ NoFee(q)
    PROVE  Relies(q)'
<1>0. /\ q \in Procs /\ req[q].from \in Wallets /\ req[q].to \in Wallets
      /\ req[q].from # System /\ req[q].to # System
      /\ LockSet(q) \subseteq Accounts
  BY AskedTypes, WalletAssumption
<1>1. pc[q] \in {"debit", "credit", "fee"} /\ req[q].from # req[q].to
  BY DEF Debit, Credit, CollectFee, NoFee, Relies, RequestKnows
<1>2. tx[q].staged = ExpectedStaged(q)
  BY DEF Relies, RequestStaged
<1> DEFINE Same ==
      /\ UNCHANGED <<balance, active, status, trxs, req, answer>>
      /\ tx'[q].seen = tx[q].seen /\ tx'[q].blocked = tx[q].blocked
      /\ tx'[q].trxId = tx[q].trxId
      /\ \A v \in Accounts : rowLock[v] = q => rowLock'[v] = q
<1>3. ASSUME Same, pc'[q] \in {"credit", "fee", "commit"}
      PROVE  RequestHolds(q)' /\ RequestKnows(q)' /\ RequestBooked(q)'
  <2>1. LockSet(q)' = LockSet(q) /\ Total(q)' = Total(q)
    BY <1>3 DEF LockSet, Total
  <2>2. RequestHolds(q)'
    BY <1>0, <1>1, <1>3, <2>1 DEF Relies, RequestHolds, LockedSteps, WriteSteps
  <2>3. Duplicate(q, tx[q].trxId)' = Duplicate(q, tx[q].trxId)
    BY <1>3 DEF Duplicate
  <2>4. /\ Unrestricted(req[q].from)' = Unrestricted(req[q].from)
        /\ Unrestricted(req[q].to)' = Unrestricted(req[q].to)
    BY <1>3 DEF Unrestricted
  <2>5. /\ tx[q].seen = balance[req[q].from] /\ tx[q].seen >= Total(q)
        /\ ~tx[q].blocked /\ active[System] /\ ~Duplicate(q, tx[q].trxId)
        /\ Unrestricted(req[q].from) /\ Unrestricted(req[q].to)
    BY <1>1 DEF Relies, RequestKnows, LockedSteps, WriteSteps
  <2>6. RequestKnows(q)'
    BY <1>1, <1>3, <2>1, <2>3, <2>4, <2>5 DEF RequestKnows
  <2>7. RequestBooked(q)'
    BY <1>1, <1>3 DEF Relies, RequestBooked
  <2>8. QED
    BY <2>2, <2>6, <2>7
<1>4. ASSUME Same
      PROVE  /\ DebitEntry(q)' = DebitEntry(q) /\ CreditEntry(q)' = CreditEntry(q)
             /\ FeeEntry(q)' = FeeEntry(q) /\ Fee(q)' = Fee(q)
  BY <1>4 DEF DebitEntry, CreditEntry, FeeEntry, Total, Fee
<1>5. CASE Debit(q)
  <2>1. pc[q] = "debit" /\ pc'[q] = "credit"
    BY <1>0, <1>5 DEF Debit, Goto, TypeOK
  <2>2. tx[q].staged = [w \in Accounts |-> <<>>]
    BY <1>2, <2>1 DEF ExpectedStaged
  <2>3. Current(q, req[q].from) = balance[req[q].from]
    BY <1>0, <2>2 DEF Current
  <2>4. Same /\ tx'[q].staged = [tx[q].staged EXCEPT ![req[q].from] = <<DebitEntry(q)>>]
    <3>1. PICK w, n, after : /\ w = req[q].from /\ n = Total(q)
                             /\ after = balance[req[q].from] - Total(q)
      OBVIOUS
    <3>2. Stage(q, w, "DEBIT", n, after)
      BY <1>5, <2>3, <3>1 DEF Debit, Stage, TakeRow, Writable
    <3>3. w \in Accounts /\ tx[q].staged[w] = <<>>
      BY <1>0, <2>2, <3>1
    <3>4. Same /\ tx'[q].staged = [tx[q].staged EXCEPT ![w] =
             <<[by |-> q, type |-> "DEBIT", amount |-> n, balanceAfter |-> after]>>]
      BY <3>2, <3>3, StageFirst
    <3>5. QED
      BY <3>1, <3>4 DEF DebitEntry
  <2>5. ExpectedStaged(q)' = [tx[q].staged EXCEPT ![req[q].from] = <<DebitEntry(q)>>]
    BY <1>4, <2>1, <2>2, <2>4 DEF ExpectedStaged
  <2>6. QED
    BY <1>3, <2>1, <2>4, <2>5 DEF Relies, RequestStaged
<1>6. CASE Credit(q)
  <2>1. pc[q] = "credit" /\ pc'[q] = "fee"
    BY <1>0, <1>6 DEF Credit, Goto, TypeOK
  <2>2. tx[q].staged = [w \in Accounts |->
                           IF w = req[q].from THEN <<DebitEntry(q)>> ELSE <<>>]
    BY <1>2, <2>1 DEF ExpectedStaged
  <2>3. tx[q].staged[req[q].to] = <<>> /\ Current(q, req[q].to) = balance[req[q].to]
    BY <1>0, <1>1, <2>2 DEF Current
  <2>4. Same /\ tx'[q].staged = [tx[q].staged EXCEPT ![req[q].to] = <<CreditEntry(q)>>]
    <3>1. PICK w, n, after : /\ w = req[q].to /\ n = req[q].amount
                             /\ after = balance[req[q].to] + req[q].amount
      OBVIOUS
    <3>2. Stage(q, w, "CREDIT", n, after)
      BY <1>6, <2>3, <3>1 DEF Credit, Stage, TakeRow, Writable
    <3>3. w \in Accounts /\ tx[q].staged[w] = <<>>
      BY <1>0, <2>3, <3>1
    <3>4. Same /\ tx'[q].staged = [tx[q].staged EXCEPT ![w] =
             <<[by |-> q, type |-> "CREDIT", amount |-> n, balanceAfter |-> after]>>]
      BY <3>2, <3>3, StageFirst
    <3>5. QED
      BY <3>1, <3>4 DEF CreditEntry
  <2>5. ExpectedStaged(q)' = [tx[q].staged EXCEPT ![req[q].to] = <<CreditEntry(q)>>]
    <3>1. ExpectedStaged(q)' =
             [w \in Accounts |-> IF w = req[q].from THEN <<DebitEntry(q)>>
                                ELSE IF w = req[q].to THEN <<CreditEntry(q)>> ELSE <<>>]
      BY <1>4, <2>1, <2>4 DEF ExpectedStaged
    <3>2. QED
      BY <1>0, <1>1, <2>2, <3>1
  <2>6. balance[req[q].to] + req[q].amount <= MaxBalance
    BY <1>6, <2>3 DEF Credit, Stage
  <2>7. QED
    BY <1>3, <2>1, <2>4, <2>5, <2>6 DEF Relies, RequestStaged
<1>7. ASSUME CollectFee(q) \/ NoFee(q)
      PROVE  pc[q] = "fee" /\ pc'[q] = "commit"
  BY <1>0, <1>7 DEF CollectFee, NoFee, Goto, TypeOK
<1>8. CASE CollectFee(q)
  <2>1. tx[q].staged = [w \in Accounts |->
                           IF w = req[q].from THEN <<DebitEntry(q)>>
                           ELSE IF w = req[q].to THEN <<CreditEntry(q)>> ELSE <<>>]
    BY <1>2, <1>7, <1>8 DEF ExpectedStaged
  <2>2. tx[q].staged[System] = <<>> /\ Current(q, System) = balance[System]
    BY <1>0, <2>1 DEF Current
  <2>3. Same /\ tx'[q].staged = [tx[q].staged EXCEPT ![System] = <<FeeEntry(q)>>]
    BY <1>0, <1>8, <2>2, StageFirst DEF CollectFee, FeeEntry
  <2>4. ExpectedStaged(q)' = [tx[q].staged EXCEPT ![System] = <<FeeEntry(q)>>]
    <3>1. ExpectedStaged(q)' =
             [w \in Accounts |-> IF w = req[q].from THEN <<DebitEntry(q)>>
                                ELSE IF w = req[q].to THEN <<CreditEntry(q)>>
                                ELSE IF w = System THEN <<FeeEntry(q)>> ELSE <<>>]
      BY <1>4, <1>7, <1>8, <2>3 DEF ExpectedStaged, CollectFee
    <3>2. QED
      BY <1>0, <2>1, <3>1
  <2>5. balance[System] + Fee(q) <= MaxBalance
    BY <1>8, <2>2 DEF CollectFee, Stage
  <2>6. QED
    BY <1>3, <1>4, <1>7, <1>8, <2>3, <2>4, <2>5 DEF Relies, RequestStaged
<1>9. CASE NoFee(q)
  <2>1. Same /\ tx'[q].staged = tx[q].staged /\ Fee(q) = 0
    BY <1>9 DEF NoFee, db, locks, asked
  <2>2. ExpectedStaged(q)' = ExpectedStaged(q)
    BY <1>4, <1>7, <1>9, <2>1 DEF ExpectedStaged
  <2>3. balance[System] + Fee(q) <= MaxBalance
    BY <2>1, WalletAssumption DEF BalancesInRange
  <2>4. QED
    BY <1>3, <1>4, <1>7, <1>9, <2>1, <2>2, <2>3 DEF Relies, RequestStaged
<1>10. QED
  BY <1>5, <1>6, <1>8, <1>9

LEMMA OwnStepKeepsRelies ==
    ASSUME TypeOK, BalancesInRange, NEW q \in Requests, Relies(q), ProcStep(q)
    PROVE  Relies(q)'
<1>1. ASSUME NEW code, Rollback(q, code)
      PROVE  Relies(q)'
  <2>1. Finish(q, code)
    BY <1>1 DEF Rollback
  <2>2. QED
    BY <2>1, FinishRelies
<1>2. CASE \/ Fail(q) \/ DeadlockVictim(q) \/ Refuse(q) \/ PreflightRefuse(q)
           \/ RefuseRestricted(q) \/ RefuseInsufficient(q) \/ Overflow(q)
           \/ (\E w \in Wallets : PreflightInactive(q, w))
           \/ (\E id \in TrxIds : RefuseDuplicate(q, id))
  BY <1>1, <1>2 DEF Fail, DeadlockVictim, Refuse, PreflightRefuse, RefuseRestricted,
     RefuseInsufficient, Overflow, PreflightInactive, RefuseDuplicate
<1>3. CASE Commit(q)
  BY <1>3, FinishRelies DEF Commit
<1>4. QED
  BY <1>2, <1>3, UnlockedStepRelies, LockRowRelies, LockedStepRelies, WriteStepRelies,
     ProcAssumption DEF ProcStep, RequestStep

LEMMA OwnStepKeepsHolds ==
    ASSUME TypeOK, NEW a \in Operations, OperationHolds(a), ProcStep(a)
    PROVE  OperationHolds(a)'
<1>0. a \in Procs /\ a \notin Requests /\ job[a].wallet \in Wallets
  BY ProcAssumption, AskedTypes
<1>1. ASSUME NEW code, Finish(a, code)
      PROVE  OperationHolds(a)'
  BY <1>0, <1>1 DEF Finish, Goto, TypeOK, OperationHolds
<1>2. CASE \/ Fail(a) \/ DeadlockVictim(a) \/ RefuseOperation(a) \/ CommitSuspend(a)
           \/ Reactivate(a) \/ Deactivate(a) \/ CommitActivate(a)
  BY <1>1, <1>2 DEF Fail, DeadlockVictim, RefuseOperation, Rollback, CommitSuspend,
     Reactivate, Deactivate, CommitActivate
<1>3. CASE Suspend(a)
  BY <1>0, <1>3 DEF Suspend, Goto, TypeOK, OperationHolds
<1>4. CASE FreezeWallet(a) \/ ActivateWallet(a)
  BY <1>0, <1>4 DEF FreezeWallet, ActivateWallet, TakeRow, Goto, TypeOK, OperationHolds, asked
<1>5. CASE RestrictUser(a)
  BY <1>0, <1>5 DEF RestrictUser, Goto, TypeOK, OperationHolds, asked
<1>6. CASE CheckOwner(a)
  BY <1>0, <1>6 DEF CheckOwner, Goto, TypeOK, OperationHolds, asked, db, locks
<1>7. QED
  BY <1>0, <1>2, <1>3, <1>4, <1>5, <1>6 DEF ProcStep, OperationCall, OperationStep

-----------------------------------------------------------------------------
(* What a step does to the books. *)

\* A committing transfer appends to a wallet's ledger either nothing, or one
\* entry that carries the wallet's balance on and stays within the column.
Carries(w, e) ==
    /\ e.balanceAfter = balance[w] + Signed(e)
    /\ e.balanceAfter \in 0 .. MaxBalance

LEMMA CommitStages ==
    ASSUME IInv, NEW q \in Requests, pc[q] = "commit", NEW w \in Accounts
    PROVE  \/ tx[q].staged[w] = <<>> /\ Current(q, w) = balance[w]
           \/ \E e \in Entry : /\ tx[q].staged[w] = <<e>>
                               /\ Current(q, w) = e.balanceAfter
                               /\ Carries(w, e)
<1>1. /\ TypeOK /\ Relies(q) /\ BalancesInRange
      /\ req[q].from \in Wallets /\ req[q].to \in Wallets /\ req[q].from # req[q].to
      /\ req[q].from # System /\ req[q].to # System
      /\ req[q] \in RequestSet
  BY AskedTypes, WalletAssumption DEF IInv, Relies, RequestKnows, TypeOK
<1>2. /\ req[q].amount \in Nat /\ Fee(q) \in Nat /\ Total(q) \in Nat
      /\ MaxBalance \in Nat /\ \A v \in Accounts : balance[v] \in 0 .. MaxBalance
  BY <1>1, TotalIsNat, WalletAssumption DEF TypeOK, BalancesInRange
<1>3. /\ balance[req[q].from] >= Total(q)
      /\ balance[req[q].to] + req[q].amount <= MaxBalance
      /\ balance[System] + Fee(q) <= MaxBalance
  BY <1>1 DEF Relies, RequestKnows, RequestStaged, LockedSteps, WriteSteps
<1>4. tx[q].staged = ExpectedStaged(q)
  BY <1>1 DEF Relies, RequestStaged
<1>5. ASSUME NEW e \in Entry, tx[q].staged[w] = <<e>>
      PROVE  Current(q, w) = e.balanceAfter
  BY <1>5 DEF Current
<1>6. CASE w = req[q].from
  <2>1. tx[q].staged[w] = <<DebitEntry(q)>>
    BY <1>4, <1>6 DEF ExpectedStaged
  <2>2. DebitEntry(q) \in Entry
    BY <1>1, <1>2 DEF DebitEntry, Entry
  <2>3. Carries(w, DebitEntry(q))
    BY <1>1, <1>2, <1>3, <1>6 DEF DebitEntry, Carries, Signed
  <2>4. QED
    BY <1>5, <2>1, <2>2, <2>3
<1>7. CASE w = req[q].to
  <2>1. tx[q].staged[w] = <<CreditEntry(q)>>
    BY <1>1, <1>4, <1>7 DEF ExpectedStaged
  <2>2. CreditEntry(q) \in Entry
    BY <1>1, <1>2 DEF CreditEntry, Entry
  <2>3. Carries(w, CreditEntry(q))
    BY <1>1, <1>2, <1>3, <1>7 DEF CreditEntry, Carries, Signed
  <2>4. QED
    BY <1>5, <2>1, <2>2, <2>3
<1>8. CASE w = System /\ Fee(q) # 0
  <2>1. tx[q].staged[w] = <<FeeEntry(q)>>
    BY <1>1, <1>4, <1>8 DEF ExpectedStaged
  <2>2. FeeEntry(q) \in Entry
    BY <1>1, <1>2 DEF FeeEntry, Entry
  <2>3. Carries(w, FeeEntry(q))
    BY <1>1, <1>2, <1>3, <1>8 DEF FeeEntry, Carries, Signed
  <2>4. QED
    BY <1>5, <2>1, <2>2, <2>3
<1>9. CASE w \notin {req[q].from, req[q].to} /\ (w # System \/ Fee(q) = 0)
  <2>1. tx[q].staged[w] = <<>>
    BY <1>4, <1>9 DEF ExpectedStaged
  <2>2. QED
    BY <2>1 DEF Current
<1>10. QED
  BY <1>6, <1>7, <1>8, <1>9

LEMMA BalancesKept ==
    ASSUME IInv, NEW q \in Procs, ProcStep(q)
    PROVE  BalancesInRange'
<1>1. CASE UNCHANGED balance
  BY <1>1 DEF IInv, BalancesInRange
<1>2. CASE q \in Requests /\ Commit(q)
  <2>1. ASSUME NEW w \in Accounts
        PROVE  balance'[w] \in 0 .. MaxBalance
    <3>1. pc[q] = "commit" /\ balance'[w] = Current(q, w)
      BY <1>2 DEF Commit
    <3>2. QED
      BY <1>2, <3>1, CommitStages DEF Carries, IInv, BalancesInRange
  <2>2. QED
    BY <2>1 DEF BalancesInRange
<1>3. CASE CommitSuspend(q) \/ Reactivate(q) \/ Deactivate(q) \/ CommitActivate(q)
  BY <1>1, <1>3 DEF CommitSuspend, Reactivate, Deactivate, CommitActivate
<1>4. QED
  BY <1>1, <1>2, <1>3, StepWrites DEF Writes, db

LEMMA LedgerKept ==
    ASSUME IInv, NEW q \in Procs, ProcStep(q)
    PROVE  LedgerChain'
<1>1. CASE UNCHANGED <<balance, ledger>>
  BY <1>1 DEF IInv, LedgerChain, Replays, BalanceBefore
<1>2. CASE q \in Requests /\ Commit(q)
  <2>1. SUFFICES ASSUME NEW w \in Accounts
                 PROVE  Replays(w)'
    BY DEF LedgerChain
  <2>2. ledger[w] \in Seq(Entry) /\ Replays(w)
    BY DEF IInv, TypeOK, LedgerChain
  <2>3. /\ pc[q] = "commit" /\ balance'[w] = Current(q, w)
        /\ ledger'[w] = ledger[w] \o tx[q].staged[w]
    BY <1>2 DEF Commit
  <2>4. CASE tx[q].staged[w] = <<>> /\ Current(q, w) = balance[w]
    <3>1. ledger'[w] = ledger[w] /\ balance'[w] = balance[w]
      BY <2>2, <2>3, <2>4
    <3>2. QED
      BY <2>2, <3>1 DEF Replays, BalanceBefore
  <2>5. ASSUME NEW e \in Entry, tx[q].staged[w] = <<e>>,
               Current(q, w) = e.balanceAfter, Carries(w, e)
        PROVE  Replays(w)'
    <3>1. /\ ledger'[w] = Append(ledger[w], e)
          /\ Len(ledger'[w]) = Len(ledger[w]) + 1
          /\ \A i \in 1 .. Len(ledger[w]) : ledger'[w][i] = ledger[w][i]
          /\ ledger'[w][Len(ledger[w]) + 1] = e
      BY <2>2, <2>3, <2>5
    <3>2. \A i \in 1 .. Len(ledger[w]) + 1 : BalanceBefore(w, i)' = BalanceBefore(w, i)
      BY <2>2, <3>1 DEF BalanceBefore
    <3>3. balance'[w] = BalanceBefore(w, Len(ledger[w]) + 1)'
      BY <2>2, <2>3, <2>5, <3>1 DEF BalanceBefore
    <3>4. ASSUME NEW i \in 1 .. Len(ledger'[w])
          PROVE  ledger'[w][i].balanceAfter = BalanceBefore(w, i)' + Signed(ledger'[w][i])
      <4>1. CASE i \in 1 .. Len(ledger[w])
        BY <2>2, <3>1, <3>2, <4>1 DEF Replays
      <4>2. CASE i = Len(ledger[w]) + 1
        BY <2>2, <2>5, <3>1, <3>2, <4>2 DEF Carries, Replays
      <4>3. QED
        BY <2>2, <3>1, <4>1, <4>2
    <3>5. QED
      BY <3>3, <3>4 DEF Replays
  <2>6. QED
    BY <1>2, <2>3, <2>4, <2>5, CommitStages
<1>3. CASE CommitSuspend(q) \/ Reactivate(q) \/ Deactivate(q) \/ CommitActivate(q)
  BY <1>1, <1>3 DEF CommitSuspend, Reactivate, Deactivate, CommitActivate
<1>4. QED
  BY <1>1, <1>2, <1>3, StepWrites DEF Writes, db

LEMMA KeysKept ==
    ASSUME IInv, NEW q \in Procs, ProcStep(q)
    PROVE  KeyMovesMoneyOnce'
<1>1. CASE UNCHANGED trxs
  BY <1>1 DEF IInv, KeyMovesMoneyOnce
<1>2. CASE q \in Requests /\ Commit(q)
  <2>1. pc[q] = "commit" /\ trxs' = trxs \cup {NewRecord(q)}
    BY <1>2 DEF Commit
  <2>2. ~Duplicate(q, tx[q].trxId) /\ \A t \in trxs : t.by # q
    BY <1>2, <2>1 DEF IInv, Relies, RequestKnows, RequestBooked, WriteSteps
  <2>3. \A t \in trxs : /\ t.by # NewRecord(q).by
                        /\ t.key # NewRecord(q).key
                        /\ t.trxId # NewRecord(q).trxId
    BY <2>2 DEF Duplicate, NewRecord
  <2>4. QED
    BY <2>1, <2>3 DEF IInv, KeyMovesMoneyOnce
<1>3. CASE CommitSuspend(q) \/ Reactivate(q) \/ Deactivate(q) \/ CommitActivate(q)
  BY <1>1, <1>3 DEF CommitSuspend, Reactivate, Deactivate, CommitActivate
<1>4. QED
  BY <1>1, <1>2, <1>3, StepWrites DEF Writes, db

LEMMA VictimWaits ==
    ASSUME NEW p \in Procs, DeadlockVictim(p)
    PROVE  pc[p] # "done"
<1>1. WaitsFor(p) # NoProc
  BY DEF DeadlockVictim, Waiting
<1>2. QED
  BY <1>1 DEF WaitsFor

\* How a step of a request can answer it.
LEMMA RequestAnswers ==
    ASSUME NEW q \in Requests, ProcStep(q)
    PROVE  \/ Commit(q)
           \/ /\ pc[q] # "done"
              /\ \E code \in {"400", "403", "404", "409", "500"} : Rollback(q, code)
           \/ UNCHANGED <<answer, trxs>>
<1>1. CASE \/ Fail(q) \/ PreflightRefuse(q) \/ RefuseRestricted(q)
           \/ RefuseInsufficient(q) \/ Overflow(q)
           \/ (\E w \in Wallets : PreflightInactive(q, w))
           \/ (\E id \in TrxIds : RefuseDuplicate(q, id))
  BY <1>1 DEF Fail, PreflightRefuse, RefuseRestricted, RefuseInsufficient, Overflow,
     PreflightInactive, RefuseDuplicate, MayWrite
<1>2. CASE Refuse(q)
  BY <1>2 DEF Refuse, Refusal
<1>3. CASE DeadlockVictim(q)
  <2>1. pc[q] # "done"
    BY <1>3, ProcAssumption, VictimWaits
  <2>2. QED
    BY <1>3, <2>1 DEF DeadlockVictim
<1>4. \/ Commit(q) \/ Fail(q) \/ PreflightRefuse(q) \/ RefuseRestricted(q)
      \/ RefuseInsufficient(q) \/ Overflow(q)
      \/ (\E w \in Wallets : PreflightInactive(q, w))
      \/ (\E id \in TrxIds : RefuseDuplicate(q, id))
      \/ Refuse(q) \/ DeadlockVictim(q)
      \/ UNCHANGED <<answer, trxs>>
  BY ProcAssumption DEF ProcStep, RequestStep, Submit, PreflightRead, PreflightPass,
     Begin, LockRow, AllLocked, FetchSender, FetchReceiver, FetchSystem,
     InsertTransaction, Debit, Credit, CollectFee, NoFee, Stage, db
<1>5. QED
  BY <1>1, <1>2, <1>3, <1>4

LEMMA AnswersKept ==
    ASSUME IInv, NEW q \in Procs, ProcStep(q)
    PROVE  AnswersMatchBooks'
<1> DEFINE Matches(p) == LET recorded == \E t \in trxs : t.by = p
                         IN  /\ answer[p] = "200" => recorded
                             /\ answer[p] \in {"400", "403", "404", "409"} => ~recorded
<1>0. TypeOK /\ \A p \in Requests : Matches(p)
  BY DEF IInv, AnswersMatchBooks
<1>1. \A t \in trxs : t \in trxs'
  <2>1. CASE UNCHANGED db
    BY <2>1 DEF db
  <2>2. CASE q \in Requests /\ Commit(q)
    BY <2>2 DEF Commit
  <2>3. CASE CommitSuspend(q) \/ Reactivate(q) \/ Deactivate(q) \/ CommitActivate(q)
    BY <2>3 DEF CommitSuspend, Reactivate, Deactivate, CommitActivate
  <2>4. QED
    BY <2>1, <2>2, <2>3, StepWrites DEF Writes
<1>2. \A t \in trxs' : t \in trxs \/ t.by = q
  <2>1. CASE UNCHANGED db
    BY <2>1 DEF db
  <2>2. CASE q \in Requests /\ Commit(q)
    BY <2>2 DEF Commit, NewRecord
  <2>3. CASE CommitSuspend(q) \/ Reactivate(q) \/ Deactivate(q) \/ CommitActivate(q)
    BY <2>3 DEF CommitSuspend, Reactivate, Deactivate, CommitActivate
  <2>4. QED
    BY <2>1, <2>2, <2>3, StepWrites DEF Writes
<1>3. ASSUME NEW p \in Requests, p # q
      PROVE  Matches(p)'
  <2>1. answer'[p] = answer[p]
    BY <1>0, <1>3, StepIsOwn DEF OwnOnly
  <2>2. QED
    BY <1>0, <1>1, <1>2, <1>3, <2>1
<1>4. ASSUME q \in Requests
      PROVE  Matches(q)'
  <2>0. Relies(q) /\ answer[q] \in Answers
    BY <1>4 DEF IInv, TypeOK
  <2>1. CASE Commit(q)
    <3>1. NewRecord(q) \in trxs' /\ NewRecord(q).by = q
      BY <2>1 DEF Commit, NewRecord
    <3>2. answer'[q] \in {"200", "500"}
      BY <1>0, <1>4, <2>1 DEF Commit, Finish, TypeOK
    <3>3. QED
      BY <3>1, <3>2
  <2>2. ASSUME NEW code \in {"400", "403", "404", "409", "500"},
               Rollback(q, code), pc[q] # "done"
        PROVE  Matches(q)'
    <3>1. answer'[q] = code /\ trxs' = trxs
      BY <1>0, <1>4, <2>2 DEF Rollback, Finish, TypeOK, db
    <3>2. \A t \in trxs : t.by # q
      BY <2>0, <2>2 DEF Relies, RequestBooked
    <3>3. QED
      BY <3>1, <3>2
  <2>3. CASE answer'[q] = answer[q] /\ trxs' = trxs
    BY <1>0, <1>4, <2>3
  <2>4. QED
    BY <1>4, <2>1, <2>2, <2>3, RequestAnswers
<1>5. QED
  BY <1>3, <1>4 DEF AnswersMatchBooks

LEMMA FrozenKept ==
    ASSUME IInv, NEW q \in Procs, ProcStep(q)
    PROVE  RestrictedIsFrozen' /\ active'[System]
<1>0. TypeOK /\ RestrictedIsFrozen /\ active[System]
  BY DEF IInv
<1>1. CASE UNCHANGED <<active, status>>
  BY <1>0, <1>1 DEF RestrictedIsFrozen
<1>2. ASSUME q \in Operations
      PROVE  job[q].wallet \in Wallets /\ job[q].wallet # System /\ OperationHolds(q)
  BY <1>0, <1>2, AskedTypes, WalletAssumption DEF IInv
<1>3. CASE q \in Operations /\ CommitSuspend(q)
  BY <1>0, <1>2, <1>3 DEF CommitSuspend, TypeOK, RestrictedIsFrozen
<1>4. CASE q \in Operations /\ Reactivate(q)
  BY <1>0, <1>2, <1>4 DEF Reactivate, TypeOK, RestrictedIsFrozen
<1>5. CASE q \in Operations /\ Deactivate(q)
  BY <1>0, <1>2, <1>5 DEF Deactivate, TypeOK, RestrictedIsFrozen
<1>6. CASE q \in Operations /\ CommitActivate(q)
  <2>1. status[job[q].wallet] = "ACTIVE"
    BY <1>2, <1>6 DEF CommitActivate, OperationHolds
  <2>2. QED
    BY <1>0, <1>2, <1>6, <2>1 DEF CommitActivate, TypeOK, RestrictedIsFrozen
<1>7. CASE q \in Requests /\ Commit(q)
  BY <1>1, <1>7 DEF Commit
<1>8. QED
  BY <1>1, <1>3, <1>4, <1>5, <1>6, <1>7, StepWrites DEF Writes, db

-----------------------------------------------------------------------------
(* The theorems. *)

LEMMA InitInvariant == ASSUME Init PROVE IInv
<1>1. TypeOK
  BY InitType
<1>2. ASSUME NEW p \in Requests
      PROVE  Relies(p)
  <2>1. pc[p] = "idle" /\ tx[p].staged = [w \in Accounts |-> <<>>]
    BY <1>2 DEF Init, BlankMemory
  <2>2. ExpectedStaged(p) = [w \in Accounts |-> <<>>]
    BY <2>1 DEF ExpectedStaged
  <2>3. QED
    BY <2>1, <2>2 DEF Init, Relies, RequestHolds, RequestKnows, RequestStaged,
       RequestBooked, LockedSteps, WriteSteps
<1>3. \A a \in Operations : OperationHolds(a)
  BY DEF Init, OperationHolds
<1>4. BalancesInRange
  BY WalletAssumption DEF Init, BalancesInRange
<1>5. ASSUME NEW w \in Accounts
      PROVE  Replays(w)
  BY <1>5 DEF Init, Replays, BalanceBefore
<1>6. KeyMovesMoneyOnce /\ AnswersMatchBooks /\ RestrictedIsFrozen /\ active[System]
  BY DEF Init, KeyMovesMoneyOnce, AnswersMatchBooks, RestrictedIsFrozen
<1>7. QED
  BY <1>1, <1>2, <1>3, <1>4, <1>5, <1>6 DEF IInv, LedgerChain

LEMMA NextInvariant == ASSUME IInv, [Next]_vars PROVE IInv'
<1>1. TypeOK'
  BY NextType DEF IInv
<1>2. CASE UNCHANGED vars
  <2>1. UNCHANGED <<balance, active, status, trxs, ledger, rowLock, req, job, pc, tx, answer>>
    BY <1>2 DEF vars, db, locks, asked
  <2>2. ASSUME NEW p \in Requests
        PROVE  Relies(p)'
    <3>1. RequestHolds(p)' = RequestHolds(p)
      BY <2>1 DEF RequestHolds, LockSet
    <3>2. RequestKnows(p)' = RequestKnows(p)
      BY <2>1 DEF RequestKnows, Total, Unrestricted, Duplicate
    <3>3. ExpectedStaged(p)' = ExpectedStaged(p)
      BY <2>1 DEF ExpectedStaged, DebitEntry, CreditEntry, FeeEntry, Fee, Total
    <3>4. RequestStaged(p)' = RequestStaged(p)
      BY <2>1, <3>3 DEF RequestStaged, Fee
    <3>5. RequestBooked(p)' = RequestBooked(p)
      BY <2>1 DEF RequestBooked
    <3>6. QED
      BY <3>1, <3>2, <3>4, <3>5 DEF IInv, Relies
  <2>3. QED
    BY <1>1, <2>1, <2>2 DEF IInv, OperationHolds, BalancesInRange, LedgerChain, Replays,
       BalanceBefore, KeyMovesMoneyOnce, AnswersMatchBooks, RestrictedIsFrozen
<1>3. ASSUME NEW q \in Procs, ProcStep(q)
      PROVE  IInv'
  <2>1. TypeOK /\ BalancesInRange
    BY DEF IInv
  <2>2. ASSUME NEW p \in Requests
        PROVE  Relies(p)'
    BY <1>3, <2>1, OthersKeepRelies, OwnStepKeepsRelies DEF IInv
  <2>3. ASSUME NEW a \in Operations
        PROVE  OperationHolds(a)'
    BY <1>3, <2>1, OthersKeepHolds, OwnStepKeepsHolds DEF IInv
  <2>4. QED
    BY <1>1, <1>3, <2>2, <2>3, BalancesKept, LedgerKept, KeysKept, AnswersKept, FrozenKept
    DEF IInv
<1>4. QED
  BY <1>2, <1>3, NextIsProcStep

\* The invariant holds in every reachable state.
THEOREM Invariance == Spec => []IInv
BY InitInvariant, NextInvariant, PTL DEF Spec

\* No wallet is overdrawn or overflows, however many transfers race for it.
THEOREM NeverOverdrawn == Spec => []BalancesInRange
<1>1. IInv => BalancesInRange
  BY DEF IInv
<1>2. QED
  BY <1>1, Invariance, PTL

\* The ledger of every wallet replays to its balance.
THEOREM LedgerReplays == Spec => []LedgerChain
<1>1. IInv => LedgerChain
  BY DEF IInv
<1>2. QED
  BY <1>1, Invariance, PTL

\* An idempotency key moves money at most once.
THEOREM KeysAreUnique == Spec => []KeyMovesMoneyOnce
<1>1. IInv => KeyMovesMoneyOnce
  BY DEF IInv
<1>2. QED
  BY <1>1, Invariance, PTL

\* A success is reported only for a recorded transfer, a refusal for none.
THEOREM AnswersAreTrue == Spec => []AnswersMatchBooks
<1>1. IInv => AnswersMatchBooks
  BY DEF IInv
<1>2. QED
  BY <1>1, Invariance, PTL

\* The wallet of a restricted account is frozen.
THEOREM RestrictedStaysFrozen == Spec => []RestrictedIsFrozen
<1>1. IInv => RestrictedIsFrozen
  BY DEF IInv
<1>2. QED
  BY <1>1, Invariance, PTL

LEMMA OnlyCommitRecords ==
    ASSUME IInv, [Next]_vars, NEW t \in trxs' \ trxs
    PROVE  \E q \in Requests : Commit(q) /\ t = NewRecord(q)
<1>1. CASE UNCHANGED vars
  BY <1>1 DEF vars, db
<1>2. ASSUME NEW q \in Procs, ProcStep(q)
      PROVE  \E p \in Requests : Commit(p) /\ t = NewRecord(p)
  <2>1. CASE UNCHANGED db
    BY <2>1 DEF db
  <2>2. CASE q \in Requests /\ Commit(q)
    BY <2>2 DEF Commit
  <2>3. CASE CommitSuspend(q) \/ Reactivate(q) \/ Deactivate(q) \/ CommitActivate(q)
    BY <2>3 DEF CommitSuspend, Reactivate, Deactivate, CommitActivate
  <2>4. QED
    BY <1>2, <2>1, <2>2, <2>3, StepWrites DEF Writes
<1>3. QED
  BY <1>1, <1>2, NextIsProcStep

\* A transfer becomes visible only in a state in which both its wallets are
\* active and both owners ACTIVE.
THEOREM FreezeIsNotOvertaken == Spec => NoTransferPastFreeze
<1>1. ASSUME IInv, [Next]_vars
      PROVE  RecordsUnrestricted
  <2>1. SUFFICES ASSUME NEW t \in trxs' \ trxs
                 PROVE  active[System] /\ Unrestricted(t.from) /\ Unrestricted(t.to)
    BY DEF RecordsUnrestricted
  <2>2. PICK q \in Requests : Commit(q) /\ t = NewRecord(q)
    BY <1>1, OnlyCommitRecords
  <2>3. pc[q] = "commit" /\ t.from = req[q].from /\ t.to = req[q].to
    BY <2>2 DEF Commit, NewRecord
  <2>4. QED
    BY <1>1, <2>3 DEF IInv, Relies, RequestKnows, LockedSteps, WriteSteps
<1>2. IInv /\ [Next]_vars => [RecordsUnrestricted]_vars
  BY <1>1
<1>3. QED
  BY <1>2, Invariance, PTL DEF Spec, NoTransferPastFreeze

-----------------------------------------------------------------------------
(* Deadlocks.  With one scan order a ring of waiting transactions would      *)
(* descend for ever through the ranks of the rows they wait for.             *)

\* Some row of a set comes first in a scan.
LEMMA FirstRowExists ==
    ASSUME NEW rank \in ScanOrders, NEW T \in SUBSET Accounts, T # {}
    PROVE  \E w \in T : \A v \in T : rank[w] <= rank[v]
<1> DEFINE Ranks == {rank[w] : w \in T}
<1>1. \A w \in T : rank[w] \in Nat
  BY ScanAssumption
<1>2. Ranks \subseteq Nat /\ Ranks # {}
  BY <1>1
<1>3. PICK n \in Ranks : \A m \in Ranks : <<m, n>> \notin OpToRel(<, Nat)
  <2> HIDE DEF Ranks
  <2>1. QED
    BY <1>2, NatLessThanWellFounded, WFMin
<1>4. n \in Nat /\ \A m \in Ranks : m \in Nat /\ ~(m < n)
  BY <1>2, <1>3 DEF OpToRel
<1>5. PICK w \in T : rank[w] = n
  BY <1>3
<1>6. \A v \in T : rank[w] <= rank[v]
  BY <1>1, <1>4, <1>5
<1>7. QED
  BY <1>6

LEMMA NextRowIsFirst ==
    ASSUME TypeOK, NEW p \in Requests, tx[p].todo # {}
    PROVE  /\ NextRow(p) \in tx[p].todo
           /\ \A v \in tx[p].todo \ {NextRow(p)} : tx[p].scan[NextRow(p)] < tx[p].scan[v]
<1>1. tx[p].scan \in ScanOrders /\ tx[p].todo \in SUBSET Accounts
  BY DEF TypeOK, Memory
<1>2. /\ NextRow(p) \in tx[p].todo
      /\ \A v \in tx[p].todo : tx[p].scan[NextRow(p)] <= tx[p].scan[v]
  BY <1>1, FirstRowExists DEF NextRow
<1> HIDE DEF Accounts
<1>3. /\ tx[p].scan \in [Accounts -> Nat]
      /\ \A v, w \in Accounts : tx[p].scan[v] = tx[p].scan[w] => v = w
  BY <1>1, ScanAssumption DEF Accounts
<1>4. QED
  BY <1>1, <1>2, <1>3

LEMMA ReleaseFreesAll ==
    ASSUME NEW q \in Procs, Release(q)
    PROVE  /\ \A w \in Accounts : rowLock'[w] # q /\ rowLock'[w] \in {rowLock[w], NoProc}
           /\ \A w \in Wallets : userLock'[w] # q /\ userLock'[w] \in {userLock[w], NoProc}
BY ProcAssumption DEF Release

LEMMA RollbackKeepsScan ==
    ASSUME TypeOK, LocksFollowScan, NEW q \in Procs, NEW code, Finish(q, code), Release(q)
    PROVE  LocksFollowScan'
<1>1. /\ pc'[q] = "done" /\ \A p \in Procs \ {q} : pc'[p] = pc[p]
      /\ \A p \in Requests \ {q} : tx'[p] = tx[p]
  BY DEF Finish, Goto, TypeOK
<1>2. \A p \in Procs : p # NoProc
  BY ProcAssumption
<1>3. ASSUME NEW p \in Procs, NEW w \in Accounts, rowLock'[w] = p
      PROVE  p # q /\ rowLock[w] = p
  BY <1>2, <1>3, ReleaseFreesAll
<1>4. ASSUME NEW p \in Procs, NEW w \in Wallets, userLock'[w] = p
      PROVE  p # q /\ userLock[w] = p
  BY <1>2, <1>4, ReleaseFreesAll
<1>5. ASSUME NEW p \in Requests
      PROVE  RowsFollowScan(p)'
  <2>1. pc'[p] \in RequestSteps
    BY <1>1 DEF LocksFollowScan, RowsFollowScan, RequestSteps
  <2>2. QED
    BY <1>1, <1>3, <2>1 DEF LocksFollowScan, RowsFollowScan
<1>6. ASSUME NEW a \in Operations
      PROVE  RowsAreTaken(a)' /\ UserIsLast(a)'
  <2>1. pc'[a] \in OperationSteps
    BY <1>1 DEF LocksFollowScan, RowsAreTaken, OperationSteps
  <2>2. QED
    BY <1>1, <1>3, <1>4, <2>1 DEF LocksFollowScan, RowsAreTaken, UserIsLast
<1>7. QED
  BY <1>5, <1>6 DEF LocksFollowScan

\* A step of q that keeps its locks takes free ones at most.
Takes(q) ==
    /\ \A w \in Accounts : rowLock'[w] \in {rowLock[w], q}
    /\ \A w \in Wallets : userLock'[w] \in {userLock[w], q}

LEMMA OthersKeepScan ==
    ASSUME TypeOK, LocksFollowScan, NEW q \in Procs, OwnOnly(q), Takes(q)
    PROVE  /\ \A p \in Requests \ {q} : RowsFollowScan(p)'
           /\ \A a \in Operations \ {q} : RowsAreTaken(a)' /\ UserIsLast(a)'
<1>1. ASSUME NEW p \in Procs \ {q}
      PROVE  /\ pc'[p] = pc[p]
             /\ \A w \in Accounts : rowLock'[w] = p => rowLock[w] = p
             /\ \A w \in Wallets : userLock'[w] = p => userLock[w] = p
  BY DEF OwnOnly, Takes
<1>2. ASSUME NEW p \in Requests \ {q}
      PROVE  RowsFollowScan(p)'
  BY <1>1 DEF LocksFollowScan, RowsFollowScan, OwnOnly
<1>3. ASSUME NEW a \in Operations \ {q}
      PROVE  RowsAreTaken(a)' /\ UserIsLast(a)'
  BY <1>1 DEF LocksFollowScan, RowsAreTaken, UserIsLast
<1>4. QED
  BY <1>2, <1>3

LEMMA RequestKeepsScan ==
    ASSUME TypeOK, LocksFollowScan, NEW q \in Requests, Submit(q) \/ Refuse(q) \/ RequestStep(q)
    PROVE  LocksFollowScan'
<1>0. /\ q \in Procs /\ q \notin Operations /\ OwnOnly(q) /\ RowsFollowScan(q)
      /\ pc \in [Procs -> RequestSteps \cup OperationSteps] /\ tx \in [Requests -> Memory]
      /\ rowLock \in [Accounts -> Procs \cup {NoProc}]
  BY ProcAssumption, RequestStepIsOwn DEF LocksFollowScan, TypeOK
<1> SUFFICES ASSUME ~(\E code : Finish(q, code) /\ Release(q))
             PROVE  Takes(q) /\ RowsFollowScan(q)'
  BY <1>0, RollbackKeepsScan, OthersKeepScan DEF LocksFollowScan
<1>1. CASE \/ Refuse(q) \/ PreflightRefuse(q) \/ RefuseRestricted(q)
           \/ RefuseInsufficient(q) \/ Overflow(q) \/ Commit(q)
           \/ (\E w \in Wallets : PreflightInactive(q, w))
           \/ (\E id \in TrxIds : RefuseDuplicate(q, id))
  BY <1>1 DEF Refuse, PreflightRefuse, RefuseRestricted, RefuseInsufficient, Overflow, Commit,
     PreflightInactive, RefuseDuplicate, Rollback
<1>2. CASE \/ Submit(q) \/ PreflightPass(q) \/ Begin(q)
           \/ (\E w \in Wallets : PreflightRead(q, w))
  <2>1. /\ UNCHANGED locks /\ pc[q] \in {"idle", "preflight", "begin"}
        /\ pc'[q] \in {"preflight", "begin", "lock"}
    BY <1>0, <1>2 DEF Submit, PreflightPass, Begin, PreflightRead, Goto
  <2>2. \A w \in Accounts : rowLock'[w] # q
    BY <1>0, <2>1 DEF RowsFollowScan, LockedSteps, WriteSteps, locks
  <2>3. QED
    BY <2>1, <2>2 DEF RowsFollowScan, Takes, RequestSteps, locks
<1>3. CASE LockRow(q)
  <2> DEFINE row == NextRow(q)
  <2>1. /\ pc[q] = "lock" /\ tx[q].todo # {} /\ UNCHANGED <<pc, userLock>>
        /\ rowLock' = [rowLock EXCEPT ![row] = q]
        /\ tx' = [tx EXCEPT ![q].todo = @ \ {row}]
    BY <1>3 DEF LockRow, TakeRow
  <2>2. /\ row \in tx[q].todo
        /\ \A v \in tx[q].todo \ {row} : tx[q].scan[row] < tx[q].scan[v]
    BY <2>1, NextRowIsFirst
  <2> HIDE DEF row
  <2>3. tx'[q].todo = tx[q].todo \ {row} /\ tx'[q].scan = tx[q].scan
    BY <1>0, <2>1 DEF Memory
  <2>4. \A w \in Accounts : rowLock'[w] = IF w = row THEN q ELSE rowLock[w]
    BY <1>0, <2>1
  <2>5. RowsFollowScan(q)'
    BY <1>0, <2>1, <2>2, <2>3, <2>4 DEF RowsFollowScan
  <2>6. QED
    BY <2>1, <2>4, <2>5 DEF Takes
<1>4. CASE \/ AllLocked(q) \/ FetchSender(q) \/ FetchReceiver(q) \/ FetchSystem(q)
           \/ (\E id \in TrxIds : InsertTransaction(q, id)) \/ NoFee(q)
  <2>1. UNCHANGED locks /\ pc'[q] \in LockedSteps
    BY <1>0, <1>4 DEF AllLocked, FetchSender, FetchReceiver, FetchSystem, InsertTransaction,
       NoFee, Goto, LockedSteps, WriteSteps
  <2>2. QED
    BY <2>1 DEF RowsFollowScan, Takes, RequestSteps, LockedSteps, WriteSteps, locks
<1>5. CASE Debit(q) \/ Credit(q) \/ CollectFee(q)
  <2>1. pc'[q] \in LockedSteps /\ \E w : TakeRow(q, w)
    BY <1>0, <1>5 DEF Debit, Credit, CollectFee, Stage, Goto, LockedSteps, WriteSteps
  <2>2. QED
    BY <1>0, <2>1 DEF RowsFollowScan, Takes, TakeRow, RequestSteps, LockedSteps, WriteSteps
<1>6. QED
  BY <1>1, <1>2, <1>3, <1>4, <1>5 DEF RequestStep

LEMMA OperationKeepsScan ==
    ASSUME TypeOK, LocksFollowScan, NEW q \in Operations, OperationCall(q) \/ OperationStep(q)
    PROVE  LocksFollowScan'
<1>0. /\ q \in Procs /\ q \notin Requests /\ OwnOnly(q) /\ RowsAreTaken(q) /\ UserIsLast(q)
      /\ pc \in [Procs -> RequestSteps \cup OperationSteps]
      /\ rowLock \in [Accounts -> Procs \cup {NoProc}]
      /\ userLock \in [Wallets -> Operations \cup {NoProc}]
  BY ProcAssumption, OperationStepIsOwn DEF LocksFollowScan, TypeOK
<1> SUFFICES ASSUME ~(\E code : Finish(q, code) /\ Release(q))
             PROVE  Takes(q) /\ RowsAreTaken(q)' /\ UserIsLast(q)'
  BY <1>0, RollbackKeepsScan, OthersKeepScan DEF LocksFollowScan
<1>1. CASE CommitSuspend(q) \/ CommitActivate(q) \/ RefuseOperation(q)
  BY <1>1 DEF CommitSuspend, CommitActivate, RefuseOperation, Rollback
<1>2. CASE Suspend(q) \/ Reactivate(q) \/ Deactivate(q)
  <2>1. UNCHANGED locks /\ pc[q] = "idle" /\ pc'[q] \in {"freeze", "done"}
    BY <1>0, <1>2 DEF Suspend, Reactivate, Deactivate, Finish, Goto
  <2>2. QED
    BY <1>0, <2>1 DEF RowsAreTaken, UserIsLast, Takes, OperationSteps, locks
<1>3. CASE CheckOwner(q)
  <2>1. UNCHANGED locks /\ pc[q] = "checkOwner" /\ pc'[q] = "commitActivate"
    BY <1>0, <1>3 DEF CheckOwner, Goto
  <2>2. QED
    BY <1>0, <2>1 DEF RowsAreTaken, UserIsLast, Takes, OperationSteps, locks
<1>4. CASE FreezeWallet(q) \/ ActivateWallet(q)
  <2>1. /\ \E w : TakeRow(q, w)
        /\ pc[q] \in {"freeze", "idle"} /\ pc'[q] \in {"restrict", "checkOwner"}
    BY <1>0, <1>4 DEF FreezeWallet, ActivateWallet, Goto
  <2>2. QED
    BY <1>0, <2>1 DEF TakeRow, RowsAreTaken, UserIsLast, Takes, OperationSteps
<1>5. CASE RestrictUser(q)
  <2>1. /\ UNCHANGED rowLock /\ pc'[q] = "commitSuspend"
        /\ \A w \in Wallets : userLock'[w] \in {userLock[w], q}
    BY <1>0, <1>5 DEF RestrictUser, Goto
  <2>2. QED
    BY <1>0, <2>1 DEF RowsAreTaken, UserIsLast, Takes, OperationSteps
<1>6. QED
  BY <1>1, <1>2, <1>3, <1>4, <1>5 DEF OperationCall, OperationStep

LEMMA ScanKept ==
    ASSUME TypeOK, LocksFollowScan, [Next]_vars
    PROVE  LocksFollowScan'
<1>1. ASSUME NEW q \in Procs, ProcStep(q)
      PROVE  LocksFollowScan'
  <2>1. CASE Fail(q) \/ DeadlockVictim(q)
    BY <2>1, RollbackKeepsScan DEF Fail, DeadlockVictim, Rollback
  <2>2. QED
    BY <1>1, <2>1, RequestKeepsScan, OperationKeepsScan DEF ProcStep
<1>2. CASE UNCHANGED vars
  BY <1>2 DEF vars, locks, LocksFollowScan, RowsFollowScan, RowsAreTaken, UserIsLast
<1>3. QED
  BY <1>1, <1>2, NextIsProcStep

LEMMA InitScan == Init => LocksFollowScan
<1> SUFFICES ASSUME Init
             PROVE  LocksFollowScan
  OBVIOUS
<1>1. /\ \A p \in Procs : pc[p] = "idle" /\ \A w \in Accounts : rowLock[w] # p
      /\ \A p \in Procs, w \in Wallets : userLock[w] # p
  BY ProcAssumption DEF Init
<1>2. "idle" \in RequestSteps /\ "idle" \in OperationSteps
  BY DEF RequestSteps, OperationSteps
<1>3. QED
  BY <1>1, <1>2 DEF LocksFollowScan, RowsFollowScan, RowsAreTaken, UserIsLast

\* Where a waiting process stands, and at whose row.
LEMMA WaitingAt ==
    ASSUME TypeOK, LocksFollowScan, NEW q \in Waiting
    PROVE  /\ q \in Procs /\ WaitsFor(q) # NoProc
           /\ \/ /\ q \in Requests /\ pc[q] = "lock" /\ NextRow(q) \in tx[q].todo
                 /\ tx[q].todo \subseteq Accounts /\ WaitsFor(q) = rowLock[NextRow(q)]
              \/ /\ q \in Operations /\ pc[q] = "freeze" /\ job[q].wallet \in Wallets
                 /\ WaitsFor(q) = rowLock[job[q].wallet]
              \/ /\ q \in Operations /\ pc[q] = "restrict" /\ job[q].wallet \in Wallets
                 /\ WaitsFor(q) = userLock[job[q].wallet]
<1>1. q \in Procs /\ WaitsFor(q) # NoProc
  BY DEF Waiting
<1>2. CASE q \in Requests
  <2>1. pc[q] \in RequestSteps
    BY <1>2 DEF LocksFollowScan, RowsFollowScan
  <2>2. pc[q] = "lock" /\ tx[q].todo # {} /\ WaitsFor(q) = rowLock[NextRow(q)]
    BY <1>1, <2>1 DEF WaitsFor, RequestSteps, LockedSteps, WriteSteps
  <2>3. tx[q].todo \subseteq Accounts
    BY <1>2 DEF TypeOK, Memory
  <2>4. QED
    BY <1>1, <1>2, <2>2, <2>3, NextRowIsFirst
<1>3. CASE q \in Operations
  <2>1. pc[q] \in OperationSteps
    BY <1>3 DEF LocksFollowScan, RowsAreTaken
  <2>2. job[q].wallet \in Wallets
    BY <1>3, OperationAssumption DEF TypeOK
  <2>3. QED
    BY <1>1, <1>3, <2>1, <2>2 DEF WaitsFor, OperationSteps
<1>4. QED
  BY <1>1, <1>2, <1>3

LEMMA OneOrderHasNoRing ==
    ASSUME TypeOK, LocksFollowScan, \A rank, other \in ScanOrders : rank = other
    PROVE  NoDeadlock
<1> SUFFICES ASSUME NEW S \in SUBSET Waiting, Deadlocked(S)
             PROVE  FALSE
  BY DEF NoDeadlock
<1>1. S # {} /\ (\A p \in S : p \in Waiting /\ WaitsFor(p) \in S)
             /\ (\A p \in S : \E q \in S : WaitsFor(q) = p)
  BY DEF Deadlocked
\* Who holds a user row does not wait.
<1>2. ASSUME NEW p \in S, NEW w \in Wallets, userLock[w] = p
      PROVE  FALSE
  <2>1. p \in Operations
    BY <1>1, <1>2, WaitingAt, ProcAssumption DEF TypeOK, Waiting
  <2>2. pc[p] = "commitSuspend"
    BY <1>2, <2>1 DEF LocksFollowScan, UserIsLast
  <2>3. QED
    BY <1>1, <2>2, WaitingAt
<1>3. \A p \in S : \E w \in Accounts : rowLock[w] = p
  BY <1>1, <1>2, WaitingAt
\* So no operation is in the ring: one at its first statement holds nothing, one
\* at its second waits for a user row.
<1>4. ASSUME NEW p \in S
      PROVE  /\ p \in Requests /\ pc[p] = "lock" /\ NextRow(p) \in tx[p].todo
             /\ tx[p].todo \subseteq Accounts /\ WaitsFor(p) = rowLock[NextRow(p)]
  <2>1. ~(p \in Operations /\ pc[p] = "freeze")
    BY <1>3 DEF LocksFollowScan, RowsAreTaken
  <2>2. ~(pc[p] = "restrict" /\ job[p].wallet \in Wallets
              /\ WaitsFor(p) = userLock[job[p].wallet])
    BY <1>1, <1>2
  <2>3. QED
    BY <1>1, <2>1, <2>2, WaitingAt
<1>5. PICK rank \in ScanOrders : \A p \in S : tx[p].scan = rank
  <2>1. \A p \in S : tx[p].scan \in ScanOrders
    BY <1>4 DEF TypeOK, Memory
  <2>2. QED
    BY <1>1, <2>1
<1>6. \A p \in S : \E q \in S : rank[NextRow(q)] < rank[NextRow(p)]
  <2>1. ASSUME NEW p \in S, NEW q \in S, WaitsFor(q) = p
        PROVE  rank[NextRow(q)] < rank[NextRow(p)]
    <3>1. rowLock[NextRow(q)] = p /\ NextRow(q) \in Accounts
      BY <1>4, <2>1
    <3>2. tx[p].scan[NextRow(q)] < tx[p].scan[NextRow(p)]
      BY <1>4, <3>1 DEF LocksFollowScan, RowsFollowScan
    <3>3. QED
      BY <1>5, <3>2
  <2>2. QED
    BY <1>1, <2>1
<1>7. PICK w \in {NextRow(p) : p \in S} : \A v \in {NextRow(p) : p \in S} : rank[w] <= rank[v]
  <2>1. {NextRow(p) : p \in S} \in SUBSET Accounts /\ {NextRow(p) : p \in S} # {}
    BY <1>1, <1>4
  <2>2. QED
    BY <2>1, FirstRowExists
<1>8. PICK p \in S, q \in S : w = NextRow(p) /\ rank[NextRow(q)] < rank[w]
  BY <1>6, <1>7
<1>9. rank[w] <= rank[NextRow(q)] /\ rank[w] \in Nat /\ rank[NextRow(q)] \in Nat
  BY <1>4, <1>7, <1>8, ScanAssumption
<1>10. QED
  BY <1>8, <1>9

\* If every plan visits the rows in one order, no transfers and administrator
\* calls, however many, ever wait for one another in a ring.  The locking SELECT
\* of executeACIDTransfer does not ask for that order.
THEOREM OneOrderIsDeadlockFree ==
    ASSUME \A rank, other \in ScanOrders : rank = other
    PROVE  Spec => []NoDeadlock
<1>1. TypeOK /\ LocksFollowScan => NoDeadlock
  BY OneOrderHasNoRing
<1>2. TypeOK /\ LocksFollowScan /\ [Next]_vars => LocksFollowScan'
  BY ScanKept
<1>3. QED
  BY <1>1, <1>2, InitScan, TypeCorrect, PTL DEF Spec
=============================================================================
