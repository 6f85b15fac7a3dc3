------------------------- MODULE TransfersRefinement -------------------------
(***************************************************************************)
(* Transfers implements AtomicTransfers and the handler the interceptor    *)
(* counts on, every committed transfer has its paired ledger entries, and  *)
(* the balances add up and reconcile, for every value of the constants.    *)
(*                                                                         *)
(* The refinement mapping is the identity on the committed rows: whatever  *)
(* a transaction has staged is invisible.  A transfer takes effect when it *)
(* commits; what it then relies on (IInv) is what the atomic transfer asks *)
(* for.                                                                    *)
(***************************************************************************)
EXTENDS TransfersProofs, FiniteSetTheorems

USE DEF Accounts, Procs

\* What a committing transfer does to each balance.
LEMMA CommitMoves ==
    ASSUME IInv, NEW q \in Requests, Commit(q), NEW w \in Accounts
    PROVE  balance'[w] =
               CASE w = req[q].from -> balance[w] - (req[q].amount + Fee(q))
                 [] w = req[q].to   -> balance[w] + req[q].amount
                 [] w = System      -> balance[w] + Fee(q)
                 [] OTHER           -> balance[w]
<1>1. /\ TypeOK /\ Relies(q) /\ pc[q] = "commit"
      /\ balance'[w] = Current(q, w)
  BY DEF IInv, Commit
<1>2. /\ req[q].from \in Wallets /\ req[q].to \in Wallets /\ req[q].from # req[q].to
      /\ req[q].from # System /\ req[q].to # System
  BY <1>1, AskedTypes, WalletAssumption DEF Relies, RequestKnows
<1>3. Fee(q) \in Nat /\ Total(q) = req[q].amount + Fee(q) /\ balance[w] \in Int
  BY <1>1, TotalIsNat DEF TypeOK
<1>4. tx[q].staged = ExpectedStaged(q)
  BY <1>1 DEF Relies, RequestStaged
<1>5. CASE w = req[q].from
  <2>1. tx[q].staged[w] = <<DebitEntry(q)>>
    BY <1>1, <1>4, <1>5 DEF ExpectedStaged
  <2>2. Current(q, w) = DebitEntry(q).balanceAfter
    BY <2>1 DEF Current
  <2>3. QED
    BY <1>1, <1>2, <1>3, <1>5, <2>2 DEF DebitEntry
<1>6. CASE w = req[q].to
  <2>1. tx[q].staged[w] = <<CreditEntry(q)>>
    BY <1>1, <1>2, <1>4, <1>6 DEF ExpectedStaged
  <2>2. Current(q, w) = CreditEntry(q).balanceAfter
    BY <2>1 DEF Current
  <2>3. QED
    BY <1>1, <1>2, <1>6, <2>2 DEF CreditEntry
<1>7. CASE w = System /\ Fee(q) # 0
  <2>1. tx[q].staged[w] = <<FeeEntry(q)>>
    BY <1>1, <1>2, <1>4, <1>7 DEF ExpectedStaged
  <2>2. Current(q, w) = FeeEntry(q).balanceAfter
    BY <2>1 DEF Current
  <2>3. QED
    BY <1>1, <1>2, <1>7, <2>2 DEF FeeEntry
<1>8. CASE w \notin {req[q].from, req[q].to} /\ (w # System \/ Fee(q) = 0)
  <2>1. tx[q].staged[w] = <<>>
    BY <1>4, <1>8 DEF ExpectedStaged
  <2>2. Current(q, w) = balance[w]
    BY <2>1 DEF Current
  <2>3. QED
    BY <1>1, <1>2, <1>3, <1>8, <2>2
<1>9. QED
  BY <1>5, <1>6, <1>7, <1>8

LEMMA CommitImplements ==
    ASSUME IInv, NEW q \in Requests, Commit(q)
    PROVE  Atomic!Transfer(NewRecord(q))
<1> DEFINE t == NewRecord(q)
<1>0. TypeOK /\ Relies(q) /\ pc[q] = "commit"
  BY DEF IInv, Commit
<1>1. /\ t.from = req[q].from /\ t.to = req[q].to /\ t.amount = req[q].amount
      /\ t.fee = Fee(q) /\ t.by = q /\ t.key = req[q].key /\ t.trxId = tx[q].trxId
  BY DEF NewRecord
<1>2. /\ req[q].from # req[q].to
      /\ Unrestricted(req[q].from) /\ Unrestricted(req[q].to)
      /\ balance[req[q].from] >= Total(q)
      /\ ~Duplicate(q, tx[q].trxId)
  BY <1>0 DEF Relies, RequestKnows, LockedSteps, WriteSteps
<1>3. Total(q) = req[q].amount + Fee(q)
  BY <1>0, TotalIsNat DEF TypeOK
<1>4. \A u \in trxs : u.key # t.key /\ u.trxId # t.trxId /\ u.by # t.by
  BY <1>0, <1>1, <1>2 DEF Duplicate, Relies, RequestBooked
<1>5. balance' = [w \in Accounts |-> balance'[w]]
  BY DEF Commit
<1>6. \A w \in Accounts : balance'[w] = Atomic!Moved(t)[w]
  <2>1. SUFFICES ASSUME NEW w \in Accounts PROVE balance'[w] = Atomic!Moved(t)[w]
    OBVIOUS
  <2>2. QED
    BY <1>1, CommitMoves DEF Atomic!Moved, Atomic!Accounts
<1>7. balance' = Atomic!Moved(t)
  BY <1>5, <1>6 DEF Atomic!Moved, Atomic!Accounts
<1>8. \A w \in Accounts : balance'[w] <= MaxBalance
  <2>1. q \in Procs /\ ProcStep(q)
    BY DEF ProcStep, RequestStep
  <2>2. QED
    BY <2>1, BalancesKept, WalletAssumption DEF BalancesInRange
<1>9. trxs' = trxs \cup {t} /\ UNCHANGED <<active, status>>
  BY DEF Commit
<1> HIDE DEF t
<1>10. Atomic!Transfer(t)
  BY <1>1, <1>2, <1>3, <1>4, <1>7, <1>8, <1>9
  DEF Atomic!Transfer, Atomic!Accounts, Atomic!Unrestricted, Unrestricted
<1>11. QED
  BY <1>10 DEF t

LEMMA StepImplements ==
    ASSUME IInv, NEW q \in Procs, ProcStep(q)
    PROVE  [Atomic!Next]_(Atomic!vars)
<1>0. TypeOK
  BY DEF IInv
<1>1. CASE UNCHANGED db
  BY <1>1 DEF db, Atomic!vars
<1>2. CASE q \in Requests /\ Commit(q)
  <2>1. NewRecord(q) = Atomic!Candidate(q, req[q], tx[q].trxId)
    <3>1. CalculateFee(req[q].amount, req[q].type)
             = Atomic!CalculateFee(req[q].amount, req[q].type)
      BY DEF CalculateFee, DivideRoundHalfEven, Atomic!CalculateFee,
         Atomic!DivideRoundHalfEven
    <3>2. QED
      BY <3>1 DEF NewRecord, Atomic!Candidate, Fee
  <2>2. req[q] \in RequestSet /\ tx[q].trxId \in TrxIds
    BY <1>0, <1>2 DEF TypeOK, Memory
  <2>3. Atomic!Transfer(Atomic!Candidate(q, req[q], tx[q].trxId))
    BY <1>2, <2>1, CommitImplements
  <2>4. QED
    BY <1>2, <2>2, <2>3 DEF Atomic!Next
<1>3. ASSUME q \in Operations
      PROVE  job[q].wallet \in Wallets /\ OperationHolds(q)
  BY <1>0, <1>3, AskedTypes DEF IInv
<1>4. CASE q \in Operations /\ CommitSuspend(q)
  BY <1>3, <1>4 DEF CommitSuspend, Atomic!Next, Atomic!Suspend
<1>5. CASE q \in Operations /\ Reactivate(q)
  BY <1>3, <1>5 DEF Reactivate, Atomic!Next, Atomic!Reactivate
<1>6. CASE q \in Operations /\ Deactivate(q)
  BY <1>3, <1>6 DEF Deactivate, Atomic!Next, Atomic!Freeze
<1>7. CASE q \in Operations /\ CommitActivate(q)
  BY <1>3, <1>7 DEF CommitActivate, OperationHolds, Atomic!Next, Atomic!Unfreeze
<1>8. QED
  BY <1>1, <1>2, <1>4, <1>5, <1>6, <1>7, StepWrites DEF Writes

\* Seen through its committed rows the service is the atomic one.
THEOREM Refinement == Spec => ImplementsAtomic
<1>1. Init => Atomic!Init
  BY DEF Init, Atomic!Init, Atomic!Accounts
<1>2. IInv /\ [Next]_vars => [Atomic!Next]_(Atomic!vars)
  <2>1. CASE UNCHANGED vars
    BY <2>1 DEF vars, db, Atomic!vars
  <2>2. QED
    BY <2>1, StepImplements, NextIsProcStep
<1>3. QED
  BY <1>1, <1>2, Invariance, PTL DEF Spec, ImplementsAtomic, Atomic!Spec

-----------------------------------------------------------------------------
(* Double entry. *)

LEMMA SameLedger ==
    ASSUME NEW p, NEW w, ledger'[w] = ledger[w]
    PROVE  EntriesOf(p, w)' = EntriesOf(p, w) /\ Posted(p, w)' = Posted(p, w)
BY DEF EntriesOf, Posted

LEMMA AppendPosts ==
    ASSUME NEW p, NEW w, ledger[w] \in Seq(Entry), NEW e \in Entry,
           ledger'[w] = Append(ledger[w], e)
    PROVE  /\ e.by # p => /\ EntriesOf(p, w)' = EntriesOf(p, w)
                          /\ Posted(p, w)' = Posted(p, w)
           /\ e.by = p /\ EntriesOf(p, w) = {} =>
                /\ EntriesOf(p, w)' = {Len(ledger[w]) + 1}
                /\ Posted(p, w)' = {<<e.type, e.amount>>}
<1>1. /\ DOMAIN ledger[w] = 1 .. Len(ledger[w])
      /\ DOMAIN ledger'[w] = 1 .. Len(ledger[w]) + 1
      /\ \A i \in 1 .. Len(ledger[w]) : ledger'[w][i] = ledger[w][i]
      /\ ledger'[w][Len(ledger[w]) + 1] = e
      /\ Len(ledger[w]) \in Nat
  OBVIOUS
<1>2. CASE e.by # p
  <2>1. EntriesOf(p, w)' = EntriesOf(p, w)
    BY <1>1, <1>2 DEF EntriesOf
  <2>2. \A i \in EntriesOf(p, w) : ledger'[w][i] = ledger[w][i]
    BY <1>1 DEF EntriesOf
  <2>3. QED
    BY <1>2, <2>1, <2>2 DEF Posted
<1>3. CASE e.by = p /\ EntriesOf(p, w) = {}
  <2>1. \A i \in 1 .. Len(ledger[w]) : ledger[w][i].by # p
    BY <1>1, <1>3 DEF EntriesOf
  <2>2. EntriesOf(p, w)' = {Len(ledger[w]) + 1}
    BY <1>1, <1>3, <2>1 DEF EntriesOf
  <2>3. QED
    BY <1>1, <1>3, <2>2 DEF Posted
<1>4. QED
  BY <1>2, <1>3

LEMMA EntryTypes ==
    ASSUME TypeOK, NEW q \in Requests
    PROVE  DebitEntry(q) \in Entry /\ CreditEntry(q) \in Entry /\ FeeEntry(q) \in Entry
<1>1. req[q].from \in Wallets /\ req[q].to \in Wallets /\ req[q].amount \in Nat
  BY AskedTypes
<1>2. Fee(q) \in Nat /\ Total(q) \in Nat
  BY TotalIsNat DEF TypeOK
<1>3. \A w \in Accounts : balance[w] \in Int
  BY DEF TypeOK
<1>4. DebitEntry(q) \in Entry
  BY <1>1, <1>2, <1>3 DEF DebitEntry, Entry
<1>5. CreditEntry(q) \in Entry
  BY <1>1, <1>3 DEF CreditEntry, Entry
<1>6. FeeEntry(q) \in Entry
  BY <1>2, <1>3 DEF FeeEntry, Entry
<1>7. QED
  BY <1>4, <1>5, <1>6

\* What a committing transfer appends to each ledger.
LEMMA CommitAppends ==
    ASSUME IInv, NEW q \in Requests, Commit(q), NEW w \in Accounts
    PROVE  /\ w = req[q].from => ledger'[w] = Append(ledger[w], DebitEntry(q))
           /\ w = req[q].to => ledger'[w] = Append(ledger[w], CreditEntry(q))
           /\ w = System /\ Fee(q) # 0 => ledger'[w] = Append(ledger[w], FeeEntry(q))
           /\ w \notin {req[q].from, req[q].to} /\ (w # System \/ Fee(q) = 0) =>
                 ledger'[w] = ledger[w]
<1>1. /\ TypeOK /\ Relies(q) /\ pc[q] = "commit"
      /\ ledger'[w] = ledger[w] \o tx[q].staged[w]
      /\ ledger[w] \in Seq(Entry)
  BY DEF IInv, TypeOK, Commit
<1>2. /\ req[q].from # req[q].to /\ req[q].from # System /\ req[q].to # System
  BY <1>1, AskedTypes, WalletAssumption DEF Relies, RequestKnows
<1>3. tx[q].staged = ExpectedStaged(q)
  BY <1>1 DEF Relies, RequestStaged
<1>4. DebitEntry(q) \in Entry /\ CreditEntry(q) \in Entry /\ FeeEntry(q) \in Entry
  BY <1>1, EntryTypes
<1>5. CASE w = req[q].from
  <2>1. tx[q].staged[w] = <<DebitEntry(q)>>
    BY <1>1, <1>3, <1>5 DEF ExpectedStaged
  <2>2. ledger'[w] = Append(ledger[w], DebitEntry(q))
    BY <1>1, <1>4, <2>1
  <2>3. QED
    BY <1>2, <1>5, <2>2
<1>6. CASE w = req[q].to
  <2>1. tx[q].staged[w] = <<CreditEntry(q)>>
    BY <1>1, <1>2, <1>3, <1>6 DEF ExpectedStaged
  <2>2. ledger'[w] = Append(ledger[w], CreditEntry(q))
    BY <1>1, <1>4, <2>1
  <2>3. QED
    BY <1>2, <1>6, <2>2
<1>7. CASE w = System /\ Fee(q) # 0
  <2>1. tx[q].staged[w] = <<FeeEntry(q)>>
    BY <1>1, <1>2, <1>3, <1>7 DEF ExpectedStaged
  <2>2. ledger'[w] = Append(ledger[w], FeeEntry(q))
    BY <1>1, <1>4, <2>1
  <2>3. QED
    BY <1>2, <1>7, <2>2
<1>8. CASE w \notin {req[q].from, req[q].to} /\ (w # System \/ Fee(q) = 0)
  <2>1. tx[q].staged[w] = <<>>
    BY <1>3, <1>8 DEF ExpectedStaged
  <2>2. ledger'[w] = ledger[w]
    BY <1>1, <2>1
  <2>3. QED
    BY <1>8, <2>2
<1>9. QED
  BY <1>5, <1>6, <1>7, <1>8

LEMMA CommitKeepsDoubleEntry ==
    ASSUME IInv, DoubleEntry, NEW q \in Requests, Commit(q)
    PROVE  DoubleEntry'
<1>0. /\ TypeOK /\ Relies(q) /\ pc[q] = "commit"
      /\ trxs' = trxs \cup {NewRecord(q)}
      /\ \A w \in Accounts : ledger[w] \in Seq(Entry)
  BY DEF IInv, TypeOK, Commit
<1>1. /\ req[q].from # req[q].to /\ req[q].from # System /\ req[q].to # System
      /\ req[q].from \in Wallets /\ req[q].to \in Wallets
      /\ \A t \in trxs : t.by # q
  BY <1>0, AskedTypes, WalletAssumption DEF Relies, RequestKnows, RequestBooked
<1>2. DebitEntry(q) \in Entry /\ CreditEntry(q) \in Entry /\ FeeEntry(q) \in Entry
  BY <1>0, EntryTypes
<1>3. \A w \in Accounts : EntriesOf(q, w) = {}
  BY <1>1 DEF DoubleEntry
<1>4. ASSUME NEW w \in Accounts, NEW p \in Requests, p # q
      PROVE  EntriesOf(p, w)' = EntriesOf(p, w) /\ Posted(p, w)' = Posted(p, w)
  <2>1. CASE ledger'[w] = ledger[w]
    BY <2>1, SameLedger
  <2>2. ASSUME NEW e \in Entry, e.by = q, ledger'[w] = Append(ledger[w], e)
        PROVE  EntriesOf(p, w)' = EntriesOf(p, w) /\ Posted(p, w)' = Posted(p, w)
    BY <1>0, <1>4, <2>2, AppendPosts
  <2>3. DebitEntry(q).by = q /\ CreditEntry(q).by = q /\ FeeEntry(q).by = q
    BY DEF DebitEntry, CreditEntry, FeeEntry
  <2>4. QED
    BY <1>2, <2>1, <2>2, <2>3, CommitAppends
<1>5. ASSUME NEW w \in Accounts, NEW e \in Entry, e.by = q,
             ledger'[w] = Append(ledger[w], e)
      PROVE  /\ EntriesOf(q, w)' = {Len(ledger[w]) + 1}
             /\ Posted(q, w)' = {<<e.type, e.amount>>}
  BY <1>0, <1>3, <1>5, AppendPosts
<1>6. PICK f, g, r :
         /\ f \in Wallets /\ f = req[q].from
         /\ g \in Wallets /\ g = req[q].to
         /\ r = NewRecord(q)
  BY <1>1
<1>7. /\ r.by = q /\ r.from = f /\ r.to = g /\ f # g /\ f # System /\ g # System
      /\ r.amount = req[q].amount /\ r.fee = Fee(q)
      /\ Total(q) = r.amount + r.fee
  BY <1>0, <1>1, <1>6, TotalIsNat DEF NewRecord, TypeOK
<1>8. /\ Posted(q, f)' = {<<"DEBIT", r.amount + r.fee>>}
      /\ EntriesOf(q, f)' = {Len(ledger[f]) + 1}
  <2>1. PICK e \in Entry : e = DebitEntry(q)
    BY <1>2
  <2>2. ledger'[f] = Append(ledger[f], e)
    BY <1>6, <2>1, CommitAppends
  <2>3. e.by = q /\ e.type = "DEBIT" /\ e.amount = r.amount + r.fee
    BY <1>7, <2>1 DEF DebitEntry
  <2>4. QED
    BY <1>5, <1>6, <2>2, <2>3
<1>9. /\ Posted(q, g)' = {<<"CREDIT", r.amount>>}
      /\ EntriesOf(q, g)' = {Len(ledger[g]) + 1}
  <2>1. PICK e \in Entry : e = CreditEntry(q)
    BY <1>2
  <2>2. ledger'[g] = Append(ledger[g], e)
    BY <1>6, <2>1, CommitAppends
  <2>3. e.by = q /\ e.type = "CREDIT" /\ e.amount = r.amount
    BY <1>7, <2>1 DEF CreditEntry
  <2>4. QED
    BY <1>5, <1>6, <2>2, <2>3
<1>10. ASSUME r.fee # 0
       PROVE  /\ Posted(q, System)' = {<<"CREDIT", r.fee>>}
              /\ EntriesOf(q, System)' = {Len(ledger[System]) + 1}
  <2>1. PICK e \in Entry : e = FeeEntry(q)
    BY <1>2
  <2>2. /\ ledger'[System] = Append(ledger[System], e) /\ e.by = q
        /\ e.type = "CREDIT" /\ e.amount = r.fee
    BY <1>6, <1>7, <1>10, <2>1, CommitAppends DEF FeeEntry
  <2>3. QED
    BY <1>5, <2>2
<1>11. ASSUME NEW w \in Accounts, w \notin {f, g}, w # System \/ r.fee = 0
       PROVE  Posted(q, w)' = {} /\ EntriesOf(q, w)' = {}
  <2>1. ledger'[w] = ledger[w]
    BY <1>6, <1>7, <1>11, CommitAppends
  <2>2. EntriesOf(q, w)' = {}
    BY <1>3, <2>1, SameLedger
  <2>3. QED
    BY <2>2 DEF Posted
<1>12. Paired(r)'
  <2>1. Posted(q, System)' = IF r.fee = 0 THEN {} ELSE {<<"CREDIT", r.fee>>}
    BY <1>7, <1>10, <1>11
  <2>2. \A w \in Wallets \ {f, g} : Posted(q, w)' = {}
    BY <1>11, WalletAssumption
  <2>3. QED
    BY <1>7, <1>8, <1>9, <2>1, <2>2 DEF Paired
<1>13. ASSUME NEW t \in trxs
       PROVE  Paired(t)'
  <2>1. /\ Paired(t) /\ t.by \in Requests /\ t.by # q
        /\ t.from \in Wallets /\ t.to \in Wallets
    BY <1>0, <1>1 DEF DoubleEntry, TypeOK, Record
  <2>2. \A w \in Accounts : Posted(t.by, w)' = Posted(t.by, w)
    BY <1>4, <2>1
  <2>3. QED
    BY <2>1, <2>2 DEF Paired
<1>14. ASSUME NEW p \in Requests, NEW w \in Accounts
       PROVE  /\ Cardinality(EntriesOf(p, w)') <= 1
              /\ (\A t \in trxs' : t.by # p) => EntriesOf(p, w)' = {}
  <2>1. CASE p # q
    BY <1>0, <1>4, <2>1 DEF DoubleEntry
  <2>2. CASE p = q
    <3>1. EntriesOf(q, w)' = {} \/ EntriesOf(q, w)' = {Len(ledger[w]) + 1}
      <4>1. CASE w = f
        BY <1>8, <4>1
      <4>2. CASE w = g
        BY <1>9, <4>2
      <4>3. CASE w = System /\ r.fee # 0
        BY <1>10, <4>3
      <4>4. CASE w \notin {f, g} /\ (w # System \/ r.fee = 0)
        BY <1>11, <4>4
      <4>5. QED
        BY <4>1, <4>2, <4>3, <4>4
    <3>2. Cardinality(EntriesOf(q, w)') <= 1
      <4>1. Cardinality({}) = 0 /\ Cardinality({Len(ledger[w]) + 1}) = 1
        BY FS_EmptySet, FS_Singleton
      <4>2. Cardinality(EntriesOf(q, w)') \in {0, 1}
        BY <3>1, <4>1, Zenon
      <4>3. QED
        BY <4>2
    <3>3. r \in trxs' /\ r.by = q
      BY <1>0, <1>6, <1>7
    <3>4. QED
      BY <2>2, <3>2, <3>3
  <2>3. QED
    BY <2>1, <2>2
<1>15. \A t \in trxs' : Paired(t)'
  BY <1>0, <1>6, <1>12, <1>13
<1>16. QED
  BY <1>14, <1>15 DEF DoubleEntry

\* A recorded transfer has exactly its paired ledger entries, every other
\* request none.
THEOREM EntriesArePaired == Spec => []DoubleEntry
<1>1. Init => DoubleEntry
  <2>1. ASSUME Init, NEW p, NEW w \in Accounts
        PROVE  EntriesOf(p, w) = {}
    <3>1. ledger[w] = <<>>
      BY <2>1 DEF Init
    <3>2. QED
      BY <3>1 DEF EntriesOf
  <2>2. Cardinality({}) = 0
    BY FS_EmptySet
  <2>3. ASSUME Init, NEW p, NEW w \in Accounts
        PROVE  Cardinality(EntriesOf(p, w)) <= 1 /\ EntriesOf(p, w) = {}
    BY <2>1, <2>2, <2>3
  <2>4. Init => \A t \in trxs : Paired(t)
    BY DEF Init
  <2>5. QED
    BY <2>3, <2>4 DEF DoubleEntry
<1>2. IInv /\ DoubleEntry /\ [Next]_vars => DoubleEntry'
  <2>1. ASSUME UNCHANGED <<trxs, ledger>>, DoubleEntry
        PROVE  DoubleEntry'
    <3>1. \A p, w : EntriesOf(p, w)' = EntriesOf(p, w) /\ Posted(p, w)' = Posted(p, w)
      BY <2>1, SameLedger
    <3>2. \A t : Paired(t)' = Paired(t)
      BY <3>1 DEF Paired
    <3>3. QED
      BY <2>1, <3>1, <3>2 DEF DoubleEntry
  <2>2. ASSUME IInv, DoubleEntry, NEW q \in Procs, ProcStep(q)
        PROVE  DoubleEntry'
    <3>1. CASE UNCHANGED db
      BY <2>1, <2>2, <3>1 DEF db
    <3>2. CASE q \in Requests /\ Commit(q)
      BY <2>2, <3>2, CommitKeepsDoubleEntry
    <3>3. CASE CommitSuspend(q) \/ Reactivate(q) \/ Deactivate(q) \/ CommitActivate(q)
      BY <2>1, <2>2, <3>3 DEF CommitSuspend, Reactivate, Deactivate, CommitActivate
    <3>4. QED
      BY <2>2, <3>1, <3>2, <3>3, StepWrites DEF Writes
  <2>3. CASE UNCHANGED vars
    BY <2>1, <2>3 DEF vars, db
  <2>4. QED
    BY <2>2, <2>3, NextIsProcStep
<1>3. QED
  BY <1>1, <1>2, Invariance, PTL DEF Spec
-----------------------------------------------------------------------------
(* Sums.  The community modules' SumFunction takes the elements of a       *)
(* function's domain in an order it does not say; what is shown of it here *)
(* is that its recursion has a solution, and that the order is no matter.  *)

\* Induction over the subsets of a finite set: what the empty set has, and a
\* set has when it stays so after any element is taken away, every subset has.
LEMMA SubsetInduction ==
    ASSUME NEW S, IsFiniteSet(S), NEW P, {} \in P,
           \A T \in SUBSET S : T # {} /\ (\A x \in T : T \ {x} \in P) => T \in P
    PROVE  SUBSET S \subseteq P
<1> DEFINE Missing == (SUBSET S) \ P
<1>1. SUFFICES ASSUME Missing # {} PROVE FALSE
  OBVIOUS
<1>2. Missing \subseteq FiniteSubsetsOf(S)
  BY FS_FiniteSubsetsOfFinite
<1>3. PICK T \in Missing : \A U \in Missing : <<U, T>> \notin StrictSubsetOrdering(S)
  <2> HIDE DEF Missing
  <2>1. QED
    BY <1>1, <1>2, FS_StrictSubsetOrderingWellFounded, WFMin
<1>4. ASSUME NEW x \in T PROVE T \ {x} \in P
  <2>1. <<T \ {x}, T>> \in StrictSubsetOrdering(S)
    BY <1>4 DEF StrictSubsetOrdering
  <2>2. QED
    BY <1>3, <2>1
<1>5. QED
  BY <1>3, <1>4

\* How SumFunctionOnSet takes the elements of a set: any one first.
Picked(s) == CHOOSE x \in s : TRUE
SumStep(f, g, s) == IF s = {} THEN 0 ELSE f[Picked(s)] + g[s \ {Picked(s)}]

\* g gives the sum of f over every subset of D.
IsSum(f, D, g) == g = [s \in SUBSET D |-> SumStep(f, g, s)]

\* The same for the subsets with at most n elements.
Upto(D, n) == {s \in SUBSET D : Cardinality(s) <= n}
IsSumUpto(f, D, n, g) == g = [s \in Upto(D, n) |-> SumStep(f, g, s)]

LEMMA Smaller ==
    ASSUME NEW D, IsFiniteSet(D), NEW s \in SUBSET D
    PROVE  /\ Cardinality(s) \in Nat
           /\ s = {} <=> Cardinality(s) = 0
           /\ s # {} => /\ Picked(s) \in s
                        /\ Cardinality(s \ {Picked(s)}) = Cardinality(s) - 1
<1>1. IsFiniteSet(s)
  BY FS_Subset
<1>2. s # {} => Picked(s) \in s
  BY DEF Picked
<1>3. QED
  BY <1>1, <1>2, FS_CardinalityType, FS_EmptySet, FS_RemoveElement

LEMMA SumUptoExtends ==
    ASSUME NEW D, IsFiniteSet(D), NEW f, NEW n \in Nat, NEW g, IsSumUpto(f, D, n, g)
    PROVE  \E h : IsSumUpto(f, D, n + 1, h)
<1> DEFINE h == [s \in Upto(D, n + 1) |-> SumStep(f, g, s)]
<1>1. ASSUME NEW s \in Upto(D, n + 1)
      PROVE  h[s] = SumStep(f, h, s)
  <2>1. CASE s = {}
    BY <2>1 DEF SumStep
  <2>2. CASE s # {}
    <3> DEFINE r == s \ {Picked(s)}
    <3>1. r \in Upto(D, n) /\ r \in Upto(D, n + 1)
      BY <2>2, Smaller DEF Upto
    <3>2. g[r] = SumStep(f, g, r)
      BY <3>1 DEF IsSumUpto
    <3>3. h[r] = g[r]
      BY <3>1, <3>2
    <3>4. QED
      BY <2>2, <3>3 DEF SumStep
  <2>3. QED
    BY <2>1, <2>2
<1>2. h = [s \in Upto(D, n + 1) |-> SumStep(f, h, s)]
  BY <1>1
<1> HIDE DEF h
<1>3. QED
  BY <1>2 DEF IsSumUpto

LEMMA SumExists ==
    ASSUME NEW D, IsFiniteSet(D), NEW f
    PROVE  \E g : IsSum(f, D, g)
<1> DEFINE Without == {n \in Nat : \A g : ~IsSumUpto(f, D, n, g)}
<1>1. Without = {}
  <2>1. SUFFICES ASSUME Without # {} PROVE FALSE
    OBVIOUS
  <2>2. PICK n \in Without : \A m \in Without : <<m, n>> \notin OpToRel(<, Nat)
    <3>1. Without \subseteq Nat
      OBVIOUS
    <3> HIDE DEF Without
    <3>2. QED
      BY <2>1, <3>1, NatLessThanWellFounded, WFMin
  <2>3. \A m \in Nat : m < n => m \notin Without
    BY <2>2 DEF OpToRel
  <2>4. CASE n = 0
    <3>1. Upto(D, 0) = {{}}
      <4>1. ASSUME NEW s \in SUBSET D
            PROVE  Cardinality(s) <= 0 <=> s = {}
        <5>1. Cardinality(s) \in Nat /\ (s = {} <=> Cardinality(s) = 0)
          BY Smaller
        <5> HIDE DEF Without
        <5>2. QED
          BY <5>1
      <4> HIDE DEF Without
      <4>2. QED
        BY <4>1 DEF Upto
    <3>2. IsSumUpto(f, D, 0, [s \in {{}} |-> 0])
      <4> DEFINE z == [s \in {{}} |-> 0]
      <4>1. [s \in {{}} |-> SumStep(f, z, s)] = [s \in {{}} |-> 0]
        BY DEF SumStep
      <4>2. QED
        BY <3>1, <4>1 DEF IsSumUpto
    <3>3. QED
      BY <2>2, <2>4, <3>2
  <2>5. CASE n # 0
    <3>1. n - 1 \in Nat /\ n - 1 < n /\ (n - 1) + 1 = n
      <4>1. n \in Nat
        OBVIOUS
      <4> HIDE DEF Without
      <4>2. QED
        BY <2>5, <4>1
    <3>2. PICK g : IsSumUpto(f, D, n - 1, g)
      BY <2>3, <3>1
    <3>3. \E h : IsSumUpto(f, D, n, h)
      BY <3>1, <3>2, SumUptoExtends
    <3>4. QED
      BY <2>2, <3>3
  <2>6. QED
    BY <2>4, <2>5
<1>2. Cardinality(D) \in Nat
  BY FS_CardinalityType
<1>3. Upto(D, Cardinality(D)) = SUBSET D
  BY FS_Subset DEF Upto
<1>4. PICK g : IsSumUpto(f, D, Cardinality(D), g)
  BY <1>1, <1>2
<1>5. IsSum(f, D, g)
  BY <1>3, <1>4 DEF IsSum, IsSumUpto
<1>6. QED
  BY <1>5

\* What SumFunction of the community modules returns.
LEMMA SumFunctionIsSum ==
    ASSUME NEW D, IsFiniteSet(D), NEW f, f = [x \in D |-> f[x]]
    PROVE  \E g : IsSum(f, D, g) /\ SumFunction(f) = g[D]
<1> DEFINE s == CHOOSE g : IsSum(f, D, g)
<1>1. IsSum(f, D, s)
  BY SumExists
<1>2. DOMAIN f = D
  OBVIOUS
<1>3. SumFunction(f) = s[D]
  BY <1>2 DEF SumFunction, SumFunctionOnSet, FoldFunctionOnSet, MapThenFoldSet,
     IsSum, SumStep, Picked
<1>4. QED
  BY <1>1, <1>3

LEMMA SumsAreInt ==
    ASSUME NEW D, IsFiniteSet(D), NEW f \in [D -> Int], NEW g, IsSum(f, D, g)
    PROVE  \A s \in SUBSET D : g[s] \in Int
<1> DEFINE P == {s \in SUBSET D : g[s] \in Int}
<1>1. \A s \in SUBSET D : g[s] = SumStep(f, g, s)
  BY DEF IsSum
<1>2. {} \in P
  BY <1>1 DEF SumStep
<1>3. ASSUME NEW T \in SUBSET D, T # {}, \A x \in T : T \ {x} \in P
      PROVE  T \in P
  <2>1. Picked(T) \in T
    BY <1>3, Smaller
  <2>2. g[T \ {Picked(T)}] \in Int
    BY <1>3, <2>1
  <2>3. g[T] = f[Picked(T)] + g[T \ {Picked(T)}]
    BY <1>1, <1>3 DEF SumStep
  <2>4. QED
    BY <2>1, <2>2, <2>3
<1> HIDE DEF P
<1>4. SUBSET D \subseteq P
  BY <1>2, <1>3, SubsetInduction
<1>5. QED
  BY <1>4 DEF P

\* The order in which the elements are taken does not matter.
LEMMA SumsAreOrderless ==
    ASSUME NEW D, IsFiniteSet(D), NEW f \in [D -> Int], NEW g, IsSum(f, D, g)
    PROVE  \A s \in SUBSET D : \A y \in s : g[s] = f[y] + g[s \ {y}]
<1> DEFINE P == {s \in SUBSET D : \A y \in s : g[s] = f[y] + g[s \ {y}]}
<1>1. \A s \in SUBSET D : g[s] = SumStep(f, g, s) /\ g[s] \in Int
  BY SumsAreInt DEF IsSum
<1>2. {} \in P
  OBVIOUS
<1>3. ASSUME NEW T \in SUBSET D, T # {}, \A x \in T : T \ {x} \in P
      PROVE  T \in P
  <2>1. PICK x \in T : x = Picked(T)
    BY <1>3, Smaller
  <2>2. g[T] = f[x] + g[T \ {x}]
    BY <1>1, <1>3, <2>1 DEF SumStep
  <2>3. SUFFICES ASSUME NEW y \in T, y # x
                 PROVE  g[T] = f[y] + g[T \ {y}]
    BY <2>2
  <2>4. g[T \ {x}] = f[y] + g[(T \ {x}) \ {y}]
    BY <1>3, <2>3
  <2>5. g[T \ {y}] = f[x] + g[(T \ {y}) \ {x}]
    BY <1>3, <2>3
  <2>6. (T \ {x}) \ {y} = (T \ {y}) \ {x}
    OBVIOUS
  <2>7. PICK a \in Int, b \in Int, c \in Int :
            a = f[x] /\ b = f[y] /\ c = g[(T \ {y}) \ {x}]
    BY <1>1
  <2>8. g[T \ {x}] = b + c /\ g[T \ {y}] = a + c
    BY <2>4, <2>5, <2>6, <2>7
  <2>9. g[T] = a + (b + c)
    BY <2>2, <2>7, <2>8
  <2>10. QED
    BY <2>7, <2>8, <2>9
<1> HIDE DEF P
<1>4. SUBSET D \subseteq P
  BY <1>2, <1>3, SubsetInduction
<1>5. QED
  BY <1>4 DEF P

\* Functions that agree on a set have the same sum over it.
LEMMA SumsAgree ==
    ASSUME NEW D, IsFiniteSet(D), NEW f \in [D -> Int], NEW g, IsSum(f, D, g),
           NEW E, IsFiniteSet(E), NEW h \in [E -> Int], NEW k, IsSum(h, E, k),
           NEW C \in SUBSET (D \cap E), \A x \in C : f[x] = h[x]
    PROVE  g[C] = k[C]
<1> DEFINE P == {s \in SUBSET C : g[s] = k[s]}
<1>1. /\ \A s \in SUBSET D : g[s] = SumStep(f, g, s)
      /\ \A s \in SUBSET E : k[s] = SumStep(h, k, s)
      /\ IsFiniteSet(C)
  BY FS_Subset DEF IsSum
<1>2. {} \in P
  BY <1>1 DEF SumStep
<1>3. ASSUME NEW T \in SUBSET C, T # {}, \A x \in T : T \ {x} \in P
      PROVE  T \in P
  <2>1. PICK x \in T : x = Picked(T)
    BY <1>1, <1>3, Smaller
  <2>2. g[T] = f[x] + g[T \ {x}] /\ k[T] = h[x] + k[T \ {x}]
    BY <1>1, <1>3, <2>1 DEF SumStep
  <2>3. g[T \ {x}] = k[T \ {x}] /\ f[x] = h[x]
    BY <1>3
  <2>4. QED
    BY <2>2, <2>3
<1> HIDE DEF P
<1>4. SUBSET C \subseteq P
  BY <1>1, <1>2, <1>3, SubsetInduction
<1>5. QED
  BY <1>4 DEF P

LEMMA SumIsInt ==
    ASSUME NEW D, IsFiniteSet(D), NEW f \in [D -> Int]
    PROVE  SumFunction(f) \in Int
BY SumFunctionIsSum, SumsAreInt

LEMMA SumOfNothing ==
    ASSUME NEW f, f = [x \in {} |-> f[x]]
    PROVE  SumFunction(f) = 0
<1>1. IsFiniteSet({})
  BY FS_EmptySet
<1>2. PICK g : IsSum(f, {}, g) /\ SumFunction(f) = g[{}]
  BY <1>1, SumFunctionIsSum
<1>3. QED
  BY <1>2 DEF IsSum, SumStep

\* One more element adds its value.
LEMMA SumOfOneMore ==
    ASSUME NEW D, IsFiniteSet(D), NEW x, x \notin D,
           NEW f \in [D -> Int], NEW h \in [D \cup {x} -> Int],
           \A v \in D : h[v] = f[v]
    PROVE  SumFunction(f) \in Int /\ SumFunction(h) = SumFunction(f) + h[x]
<1> DEFINE E == D \cup {x}
<1>1. IsFiniteSet(E)
  BY FS_AddElement
<1>2. PICK g : IsSum(f, D, g) /\ SumFunction(f) = g[D]
  BY SumFunctionIsSum
<1>3. PICK k : IsSum(h, E, k) /\ SumFunction(h) = k[E]
  BY <1>1, SumFunctionIsSum
<1>4. k[E] = h[x] + k[E \ {x}]
  BY <1>1, <1>3, SumsAreOrderless
<1>5. E \ {x} = D
  OBVIOUS
<1>6. g[D] = k[D]
  BY <1>1, <1>2, <1>3, SumsAgree
<1>7. g[D] \in Int /\ h[x] \in Int
  BY <1>2, SumsAreInt
<1>8. SumFunction(h) = h[x] + g[D]
  BY <1>3, <1>4, <1>5, <1>6
<1>9. QED
  BY <1>2, <1>7, <1>8

\* A function changed at one point sums to as much more.
LEMMA SumOfChange ==
    ASSUME NEW D, IsFiniteSet(D), NEW f \in [D -> Int], NEW h \in [D -> Int],
           NEW w \in D, \A v \in D \ {w} : h[v] = f[v]
    PROVE  SumFunction(h) = SumFunction(f) + (h[w] - f[w])
<1> DEFINE C == D \ {w}
           e == [v \in C |-> f[v]]
<1>1. IsFiniteSet(C) /\ w \notin C /\ D = C \cup {w} /\ e \in [C -> Int]
  BY FS_RemoveElement
<1> HIDE DEF C
<1>2. SumFunction(e) \in Int /\ SumFunction(f) = SumFunction(e) + f[w]
  BY <1>1, SumOfOneMore
<1>3. \A v \in C : h[v] = e[v]
  BY DEF C
<1>4. SumFunction(h) = SumFunction(e) + h[w]
  <2> HIDE DEF e
  <2>1. QED
    BY <1>1, <1>3, SumOfOneMore
<1>5. QED
  BY <1>2, <1>4

-----------------------------------------------------------------------------
(* Conservation. *)

LEMMA AccountsAreFinite == IsFiniteSet(Accounts)
BY WalletAssumption, FS_AddElement DEF Accounts

\* What leaves the sender arrives at the receiver and the SYSTEM wallet.
LEMMA CommitConserves ==
    ASSUME IInv, NEW q \in Requests, Commit(q)
    PROVE  SumFunction(balance') = SumFunction(balance)
<1> DEFINE from == req[q].from
           to == req[q].to
           amount == req[q].amount
           fee == Fee(q)
           b1 == [balance EXCEPT ![from] = @ - (amount + fee)]
           b2 == [b1 EXCEPT ![to] = @ + amount]
<1>0. TypeOK /\ Relies(q) /\ pc[q] = "commit"
  BY DEF IInv, Commit
<1>1. /\ from \in Wallets /\ to \in Wallets /\ from # to
      /\ from # System /\ to # System /\ amount \in Nat
  BY <1>0, AskedTypes, WalletAssumption DEF Relies, RequestKnows
<1>2. fee \in Nat /\ balance \in [Accounts -> Int]
  BY <1>0, TotalIsNat DEF TypeOK
<1>3. balance' \in [Accounts -> Int]
  <2>1. TypeOK'
    BY <1>0, NextType DEF Next, RequestStep
  <2>2. QED
    BY <2>1 DEF TypeOK
<1>4. \A w \in Accounts : balance'[w] =
         CASE w = from   -> balance[w] - (amount + fee)
           [] w = to     -> balance[w] + amount
           [] w = System -> balance[w] + fee
           [] OTHER      -> balance[w]
  BY CommitMoves
<1>5. /\ balance'[from] = balance[from] - (amount + fee)
      /\ balance'[to] = balance[to] + amount
      /\ balance'[System] = balance[System] + fee
      /\ \A w \in Accounts \ {from, to, System} : balance'[w] = balance[w]
  BY <1>1, <1>4
<1> HIDE DEF from, to, amount, fee
<1>6. /\ b1 \in [Accounts -> Int]
      /\ b1[from] = balance[from] - (amount + fee)
      /\ \A w \in Accounts \ {from} : b1[w] = balance[w]
  BY <1>1, <1>2
<1>7. /\ b2 \in [Accounts -> Int]
      /\ b2[to] = b1[to] + amount
      /\ \A w \in Accounts \ {to} : b2[w] = b1[w]
  BY <1>1, <1>2, <1>6
<1> HIDE DEF b1, b2
<1>8. \A w \in Accounts \ {System} : balance'[w] = b2[w]
  BY <1>1, <1>5, <1>6, <1>7
<1>9. /\ SumFunction(b1) = SumFunction(balance) + (b1[from] - balance[from])
      /\ SumFunction(b2) = SumFunction(b1) + (b2[to] - b1[to])
      /\ SumFunction(balance') = SumFunction(b2) + (balance'[System] - b2[System])
  <2>1. IsFiniteSet(Accounts) /\ from \in Accounts /\ to \in Accounts /\ System \in Accounts
    BY <1>1, AccountsAreFinite
  <2> HIDE DEF Accounts
  <2>2. SumFunction(b1) = SumFunction(balance) + (b1[from] - balance[from])
    BY <1>2, <1>6, <2>1, SumOfChange
  <2>3. SumFunction(b2) = SumFunction(b1) + (b2[to] - b1[to])
    BY <1>6, <1>7, <2>1, SumOfChange
  <2>4. SumFunction(balance') = SumFunction(b2) + (balance'[System] - b2[System])
    BY <1>3, <1>7, <1>8, <2>1, SumOfChange
  <2>5. QED
    BY <2>2, <2>3, <2>4
<1>10. /\ b1[from] - balance[from] = 0 - (amount + fee)
       /\ b2[to] - b1[to] = amount
       /\ balance'[System] - b2[System] = fee
  BY <1>1, <1>2, <1>5, <1>6, <1>7
<1>11. SumFunction(balance) \in Int
  BY <1>2, AccountsAreFinite, SumIsInt
<1>12. QED
  BY <1>1, <1>2, <1>6, <1>7, <1>9, <1>10, <1>11

\* A step of an administrator, or one that writes no committed row, leaves the
\* balances and the records alone.
LEMMA OnlyCommitMoves ==
    ASSUME NEW q \in Procs, ProcStep(q)
    PROVE  (q \in Requests /\ Commit(q)) \/ UNCHANGED <<balance, trxs>>
BY StepWrites DEF Writes, db, CommitSuspend, Reactivate, Deactivate, CommitActivate

\* Money is neither created nor destroyed: whatever requests race, fail or
\* commit, the balances of all wallets add up to the opening ones.
THEOREM MoneyIsConserved == Spec => []Conservation
<1>1. Init => Conservation
  BY DEF Init, Conservation
<1>2. IInv /\ Conservation /\ [Next]_vars => Conservation'
  <2>1. CASE UNCHANGED balance
    BY <2>1 DEF Conservation
  <2>2. ASSUME IInv, Conservation, NEW q \in Requests, Commit(q)
        PROVE  Conservation'
    BY <2>2, CommitConserves DEF Conservation
  <2>3. QED
    BY <2>1, <2>2, NextIsProcStep, OnlyCommitMoves DEF vars, db
<1>3. QED
  BY <1>1, <1>2, Invariance, PTL DEF Spec

\* One more term, whose effect on a wallet is known.
LEMMA EffectsOfOneMore ==
    ASSUME TypeOK, NEW w \in Accounts, IsFiniteSet(trxs),
           NEW t \in Record, t \notin trxs, trxs' = trxs \cup {t}
    PROVE  /\ SumFunction([u \in trxs |-> Effect(u, w)]) \in Int
           /\ SumFunction([u \in trxs' |-> Effect(u, w)]) =
                 SumFunction([u \in trxs |-> Effect(u, w)]) + Effect(t, w)
<1> DEFINE f == [u \in trxs |-> Effect(u, w)]
           h == [u \in trxs \cup {t} |-> Effect(u, w)]
<1>1. \A u \in Record : Effect(u, w) \in Int
  BY DEF Effect, Record
<1>2. f \in [trxs -> Int] /\ h \in [trxs \cup {t} -> Int]
  BY <1>1 DEF TypeOK
<1>3. (\A u \in trxs : h[u] = f[u]) /\ h[t] = Effect(t, w)
  OBVIOUS
<1>4. [u \in trxs' |-> Effect(u, w)] = h
  OBVIOUS
<1> HIDE DEF f, h
<1>5. SumFunction(f) \in Int /\ SumFunction(h) = SumFunction(f) + h[t]
  BY <1>2, <1>3, SumOfOneMore
<1>6. QED
  BY <1>3, <1>4, <1>5 DEF f

\* The inductive invariant: the sum is over finitely many records.
FiniteBooks == BalancesReconcile /\ IsFiniteSet(trxs)

LEMMA CommitReconciles ==
    ASSUME IInv, FiniteBooks, NEW q \in Requests, Commit(q)
    PROVE  FiniteBooks'
<1> DEFINE t == NewRecord(q)
<1>0. /\ TypeOK /\ Relies(q) /\ pc[q] = "commit" /\ trxs' = trxs \cup {t}
      /\ BalancesReconcile /\ IsFiniteSet(trxs)
  BY DEF IInv, Commit, FiniteBooks
<1>1. /\ t.from = req[q].from /\ t.to = req[q].to /\ t.amount = req[q].amount
      /\ t.fee = Fee(q) /\ t.by = q
  BY DEF NewRecord
<1>2. t \notin trxs
  BY <1>0, <1>1 DEF Relies, RequestBooked
<1>3. t \in Record
  <2>1. TypeOK'
    BY <1>0, NextType DEF Next, RequestStep
  <2>2. QED
    BY <1>0, <2>1 DEF TypeOK
<1>4. req[q].amount \in Nat /\ Fee(q) \in Nat /\ InitBalance \in [Accounts -> Int]
  BY <1>0, AskedTypes, TotalIsNat, WalletAssumption DEF TypeOK
<1> HIDE DEF t
<1>5. ASSUME NEW w \in Accounts
      PROVE  balance'[w] = InitBalance[w] + SumFunction([u \in trxs' |-> Effect(u, w)])
  <2>1. balance'[w] = balance[w] + Effect(t, w)
    <3>1. balance[w] \in Int
      BY <1>0 DEF TypeOK
    <3>2. QED
      BY <1>1, <1>4, <3>1, CommitMoves DEF Effect
  <2>2. /\ SumFunction([u \in trxs |-> Effect(u, w)]) \in Int
        /\ SumFunction([u \in trxs' |-> Effect(u, w)]) =
              SumFunction([u \in trxs |-> Effect(u, w)]) + Effect(t, w)
    BY <1>0, <1>2, <1>3, EffectsOfOneMore
  <2>3. balance[w] = InitBalance[w] + SumFunction([u \in trxs |-> Effect(u, w)])
    BY <1>0 DEF BalancesReconcile
  <2>4. Effect(t, w) \in Int /\ InitBalance[w] \in Int
    BY <1>3, <1>4 DEF Effect, Record
  <2>5. QED
    BY <2>1, <2>2, <2>3, <2>4
<1>6. IsFiniteSet(trxs')
  BY <1>0, FS_AddElement
<1>7. QED
  BY <1>5, <1>6 DEF BalancesReconcile, FiniteBooks

\* Every balance is its opening balance and the effects of the recorded
\* transfers: a balance never moves without a record that accounts for it.
THEOREM BooksReconcile == Spec => []BalancesReconcile
<1>1. Init => FiniteBooks
  <2>1. SUFFICES ASSUME Init PROVE FiniteBooks
    OBVIOUS
  <2>2. balance = InitBalance /\ trxs = {}
    BY <2>1 DEF Init
  <2>3. ASSUME NEW w \in Accounts
        PROVE  balance[w] = InitBalance[w] + SumFunction([u \in trxs |-> Effect(u, w)])
    <3> DEFINE f == [u \in {} |-> Effect(u, w)]
    <3>1. f = [u \in {} |-> f[u]] /\ [u \in trxs |-> Effect(u, w)] = f
      BY <2>2
    <3> HIDE DEF f
    <3>2. SumFunction(f) = 0
      BY <3>1, SumOfNothing
    <3>3. InitBalance[w] \in Int
      BY WalletAssumption
    <3>4. QED
      BY <2>2, <3>1, <3>2, <3>3
  <2>4. QED
    BY <2>2, <2>3, FS_EmptySet DEF FiniteBooks, BalancesReconcile
<1>2. IInv /\ FiniteBooks /\ [Next]_vars => FiniteBooks'
  <2>1. CASE UNCHANGED <<balance, trxs>>
    BY <2>1 DEF FiniteBooks, BalancesReconcile, Effect
  <2>2. ASSUME IInv, FiniteBooks, NEW q \in Requests, Commit(q)
        PROVE  FiniteBooks'
    BY <2>2, CommitReconciles
  <2>3. QED
    BY <2>1, <2>2, NextIsProcStep, OnlyCommitMoves DEF vars, db
<1>3. FiniteBooks => BalancesReconcile
  BY DEF FiniteBooks
<1>4. QED
  BY <1>1, <1>2, <1>3, Invariance, PTL DEF Spec

-----------------------------------------------------------------------------
(* What the interceptor counts on. *)

LEMMA RecordsStayAsked ==
    ASSUME IInv, RecordsAreAsked, NEW q \in Procs, ProcStep(q)
    PROVE  RecordsAreAsked'
<1>1. req' = req
  BY StepIsOwn DEF IInv, OwnOnly, asked
<1>2. CASE UNCHANGED trxs
  BY <1>1, <1>2 DEF RecordsAreAsked
<1>3. CASE q \in Requests /\ Commit(q)
  <2>1. trxs' = trxs \cup {NewRecord(q)}
    BY <1>3 DEF Commit
  <2>2. NewRecord(q).key = req[NewRecord(q).by].key
    BY DEF NewRecord
  <2>3. QED
    BY <1>1, <2>1, <2>2 DEF RecordsAreAsked
<1>4. QED
  BY <1>2, <1>3, OnlyCommitMoves

\* The new result of q, when no other request's answer changes.
LEMMA OneOutcome ==
    ASSUME TypeOK, NEW q \in Requests, ProcStep(q)
    PROVE  [p \in Requests |-> Outcome(p)'] =
               [[p \in Requests |-> Outcome(p)] EXCEPT ![q] = Outcome(q)']
<1>1. \A p \in Requests \ {q} : answer'[p] = answer[p]
  BY StepIsOwn DEF OwnOnly
<1>2. \A p \in Requests \ {q} : Outcome(p)' = Outcome(p)
  BY <1>1 DEF Outcome
<1>3. QED
  BY <1>2

LEMMA CommitIsMove ==
    ASSUME IInv, RecordsAreAsked, NEW q \in Requests, Commit(q)
    PROVE  Handler!Move(q)
<1>0. TypeOK /\ Relies(q) /\ pc[q] = "commit" /\ q \in Procs /\ ProcStep(q)
  BY DEF IInv, Commit, ProcStep, RequestStep
<1>1. ~Duplicate(q, tx[q].trxId) /\ answer[q] = "none"
  BY <1>0 DEF Relies, RequestKnows, RequestBooked, LockedSteps, WriteSteps
<1>2. Recorded \cap Handler!SameKey(q) = {}
  BY <1>1 DEF Handler!SameKey, Recorded, RecordsAreAsked, Duplicate
<1>3. Recorded' = Recorded \cup {q}
  <2>1. trxs' = trxs \cup {NewRecord(q)} /\ NewRecord(q).by = q
    BY DEF Commit, NewRecord
  <2>2. QED
    BY <2>1 DEF Recorded
<1>4. answer'[q] \in {"200", "500"} /\ req' = req
  BY <1>0 DEF Commit, Finish, TypeOK, asked
<1>5. Outcome(q) = "none" /\ Outcome(q)' \in {q, "error"}
  BY <1>1, <1>4 DEF Outcome
<1>6. \E r \in {q, "error"} : Handler!Return(q, r)
  BY <1>0, <1>5, OneOutcome DEF Handler!Return
<1>7. QED
  BY <1>2, <1>3, <1>4, <1>6 DEF Handler!Move

LEMMA RollbackIsRefuse ==
    ASSUME IInv, NEW q \in Requests, ProcStep(q), pc[q] # "done",
           NEW code \in {"400", "403", "404", "409", "500"}, Rollback(q, code)
    PROVE  Handler!Refuse(q)
<1>0. TypeOK /\ answer[q] = "none"
  BY DEF IInv, Relies, RequestBooked
<1>1. answer'[q] = code /\ trxs' = trxs /\ req' = req
  BY <1>0 DEF Rollback, Finish, TypeOK, db, asked
<1>2. Outcome(q) = "none" /\ Outcome(q)' \in {"refused", "error"}
  BY <1>0, <1>1 DEF Outcome
<1>3. \E r \in {"refused", "error"} : Handler!Return(q, r)
  BY <1>0, <1>2, OneOutcome DEF Handler!Return
<1>4. QED
  BY <1>1, <1>3 DEF Handler!Refuse, Recorded

LEMMA QuietStepIsStutter ==
    ASSUME UNCHANGED <<req, trxs>>, \A p \in Requests : answer'[p] = answer[p]
    PROVE  UNCHANGED Handler!vars
<1>1. \A p \in Requests : Outcome(p)' = Outcome(p)
  BY DEF Outcome
<1>2. [p \in Requests |-> Outcome(p)]' = [p \in Requests |-> Outcome(p)]
  BY <1>1
<1>3. Recorded' = Recorded /\ [p \in Requests |-> req[p].key]' = [p \in Requests |-> req[p].key]
  BY DEF Recorded
<1>4. QED
  BY <1>2, <1>3 DEF Handler!vars

\* To the interceptor the service is a keyed handler: each request gets one
\* result, a success only with its money moved, a refusal only without, and
\* under one key money moves once, whatever the operators do meanwhile.
THEOREM HandlerContract == Spec => ImplementsHandler
<1>1. Init => RecordsAreAsked /\ Handler!Init
  BY DEF Init, RecordsAreAsked, Handler!Init, Recorded, Outcome
<1>2. ASSUME IInv, RecordsAreAsked, [Next]_vars
      PROVE  RecordsAreAsked' /\ [Handler!Next]_(Handler!vars)
  <2>1. CASE UNCHANGED vars
    BY <1>2, <2>1, QuietStepIsStutter DEF vars, db, asked, RecordsAreAsked
  <2>2. ASSUME NEW q \in Procs, ProcStep(q)
        PROVE  RecordsAreAsked' /\ [Handler!Next]_(Handler!vars)
    <3>1. OwnOnly(q) /\ RecordsAreAsked' /\ req' = req
      BY <1>2, <2>2, StepIsOwn, RecordsStayAsked DEF IInv, OwnOnly, asked
    <3>2. CASE q \in Requests /\ Commit(q)
      BY <1>2, <3>1, <3>2, CommitIsMove DEF Handler!Next
    <3>3. ASSUME q \in Requests, pc[q] # "done",
                 NEW code \in {"400", "403", "404", "409", "500"}, Rollback(q, code)
          PROVE  Handler!Next
      BY <1>2, <2>2, <3>3, RollbackIsRefuse DEF Handler!Next
    <3>4. CASE q \in Requests /\ UNCHANGED <<answer, trxs>>
      BY <3>1, <3>4, QuietStepIsStutter
    <3>5. CASE q \in Operations
      <4>1. q \notin Requests /\ UNCHANGED trxs
        BY <2>2, <3>5, ProcAssumption, OnlyCommitMoves
      <4>2. QED
        BY <3>1, <4>1, QuietStepIsStutter DEF OwnOnly
    <3>6. QED
      BY <2>2, <3>1, <3>2, <3>3, <3>4, <3>5, RequestAnswers
  <2>3. QED
    BY <1>2, <2>1, <2>2, NextIsProcStep
<1>3. QED
  BY <1>1, <1>2, Invariance, PTL DEF Spec, ImplementsHandler, Handler!Spec
=============================================================================
