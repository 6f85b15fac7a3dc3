------------------------- MODULE RegistrationProofs -------------------------
(***************************************************************************)
(* For any number of calls: a proof registers once, a business has the     *)
(* role it was approved for, answers are true, and the tables implement    *)
(* PhoneRegistry.                                                          *)
(*                                                                         *)
(* Most steps only move their call along (Quiet).  The others write one    *)
(* thing each: the stored proof, the account, or the approval.             *)
(***************************************************************************)
EXTENDS Registration, TLAPS

LEMMA InitInvariant == Init => IInv
BY CallAssumption
   DEF Init, IInv, TypeOK, ProofsAreFresh, WritersAreAlone, RenewalsAreDue, AnswersAreFinal,
       ProofSpentOnce, BusinessIsApproved, AnswersMatchAccount, Claimed, Calls,
       Registrations, Steps, Replies

-----------------------------------------------------------------------------
(* What a step can do. *)

\* The step is call c's own, which is not over; it replies when it is.
Own(c) ==
    /\ pc[c] # "done"
    /\ \A d \in Calls \ {c} : pc'[d] = pc[d] /\ reply'[d] = reply[d] /\ role'[d] = role[d]
    /\ \A a \in Approvals \ {c} : seen'[a] = seen[a]
    /\ pc'[c] # "done" => reply'[c] = reply[c]

\* Where a step that writes nothing takes its call.
Quiet(c) ==
    /\ UNCHANGED <<rows, proofs>>
    /\ pc'[c] # "check"
    /\ pc'[c] = "commit" => account = None /\ PhoneFree
    /\ Claimed(c)' =>
          \/ Claimed(c) /\ role'[c] = role[c]
          \/ ApprovalFree /\ Usable(approval) /\ approval.role = role'[c]
    /\ c \in Approvals =>
          /\ pc'[c] \in {"look", "create", "renew"} => role'[c] \in BusinessRoles
          /\ seen'[c] = seen[c] \/ (approval # None /\ seen'[c] = approval.by)
          /\ pc'[c] = "renew" =>
                approval # None /\ seen'[c] = approval.by /\ ~approval.valid
    /\ reply'[c] # "tokens"

Writes(c) ==
    \/ c \in Verifications /\ IssueProof(c)
    \/ c \in Registrations /\ (ConsumeProof(c) \/ Commit(c))
    \/ c \in Approvals /\ (CreateApproval(c) \/ Renew(c))

Step(c) == Own(c) /\ (Quiet(c) \/ Writes(c))

LEMMA VerifyEffect ==
    ASSUME IInv, NEW c \in Verifications, VerifyPhone(c) \/ IssueProof(c)
    PROVE  TypeOK' /\ Step(c)
<1>0. /\ TypeOK /\ c \in Calls /\ c \notin Approvals /\ c \notin Businesses
      /\ pc[c] # "done" => reply[c] = "none"
  BY CallAssumption DEF IInv, AnswersAreFinal, Calls, Registrations
<1>1. CASE VerifyPhone(c)
  BY <1>0, <1>1 DEF VerifyPhone, Goto, rows, proofs, memory, TypeOK, Steps, Step, Own, Quiet,
     Claimed
<1>2. CASE IssueProof(c)
  BY <1>0, <1>2 DEF IssueProof, Return, rows, memory, TypeOK, Steps, Replies, Step, Own,
     Writes
<1>3. QED
  BY <1>1, <1>2

LEMMA RegisterEffect ==
    ASSUME IInv, NEW c \in Registrations, RegisterStep(c)
    PROVE  TypeOK' /\ Step(c)
<1>0. /\ TypeOK /\ c \in Calls /\ c \notin Approvals
      /\ pc[c] # "done" => reply[c] = "none"
      /\ \A b \in Businesses : pc[b] # "check"
      /\ \A b \in Businesses : Claimed(b) =>
            approval # None /\ ~approval.activated /\ approval.role = role[b]
  BY CallAssumption DEF IInv, AnswersAreFinal, WritersAreAlone, Calls
<1>1. CASE ConsumeProof(c)
  BY <1>0, <1>1 DEF ConsumeProof, FirstStep, Goto, Return, rows, memory, TypeOK, Steps,
     Replies, Step, Own, Writes
<1>2. CASE ProofRefused(c) \/ PhoneUnknown(c) \/ PhoneKnown(c)
  <2>1. TypeOK' /\ Own(c)
    BY <1>0, <1>2 DEF ProofRefused, PhoneUnknown, PhoneKnown, Goto, Return, rows, proofs,
       memory, TypeOK, Steps, Replies, Own
  <2>2. Quiet(c)
    <3>1. /\ UNCHANGED <<rows, proofs, role>> /\ reply'[c] # "tokens"
          /\ pc'[c] \in {"insert", "done"} /\ (pc'[c] = "insert" => c \notin Businesses)
      BY <1>0, <1>2 DEF ProofRefused, PhoneUnknown, PhoneKnown, Goto, Return, memory, TypeOK
    <3>2. QED
      BY <1>0, <3>1 DEF Quiet, Claimed
  <2>3. QED
    BY <2>1, <2>2 DEF Step
<1>3. CASE ReadApproval(c) \/ NotApproved(c)
  <2>1. TypeOK' /\ Own(c)
    BY <1>0, <1>3 DEF ReadApproval, NotApproved, Usable, Approved, Roles, Goto, Return, rows,
       proofs, memory, TypeOK, Steps, Replies, Own
  <2>2. Quiet(c)
    BY <1>0, <1>3 DEF ReadApproval, NotApproved, Goto, Return, memory, TypeOK, Quiet, Claimed
  <2>3. QED
    BY <2>1, <2>2 DEF Step
<1>4. CASE Claim(c) \/ ClaimMissed(c)
  <2>1. TypeOK' /\ Own(c)
    BY <1>0, <1>4 DEF Claim, ClaimMissed, Goto, Return, rows, proofs, memory, TypeOK, Steps,
       Replies, Own
  <2>2. Quiet(c)
    BY <1>0, <1>4 DEF Claim, ClaimMissed, Goto, Return, memory, TypeOK, Quiet, Claimed
  <2>3. QED
    BY <2>1, <2>2 DEF Step
<1>5. CASE InsertUser(c) \/ PhoneTaken(c)
  <2>1. TypeOK' /\ Own(c)
    BY <1>0, <1>5 DEF InsertUser, PhoneTaken, Goto, Return, rows, proofs, memory, TypeOK,
       Steps, Replies, Own
  <2>2. Quiet(c)
    BY <1>0, <1>5 DEF InsertUser, PhoneTaken, Goto, Return, memory, TypeOK, Quiet, Claimed
  <2>3. QED
    BY <2>1, <2>2 DEF Step
<1>6. CASE Commit(c)
  <2>1. Own(c) /\ Writes(c)
    BY <1>0, <1>6 DEF Commit, Return, memory, TypeOK, Own, Writes
  <2>2. c \in Businesses => approval # None /\ role[c] \in BusinessRoles
    BY <1>0, <1>6 DEF Commit, Claimed, TypeOK, Approved
  <2>3. account' \in [by : Registrations, role : BusinessRoles \cup {"CUSTOMER"}]
    BY <1>6, <2>2 DEF Commit
  <2>4. approval' \in Approved \cup {None}
    BY <1>0, <1>6, <2>2 DEF Commit, TypeOK, Approved
  <2>5. TypeOK'
    BY <1>0, <1>6, <2>3, <2>4 DEF Commit, Return, proofs, memory, TypeOK, Steps, Replies
  <2>6. QED
    BY <2>1, <2>5 DEF Step
<1>7. QED
  BY <1>1, <1>2, <1>3, <1>4, <1>5, <1>6 DEF RegisterStep

LEMMA ApproveEffect ==
    ASSUME IInv, NEW c \in Approvals, ApproveStep(c)
    PROVE  TypeOK' /\ Step(c)
<1>0. /\ TypeOK /\ c \in Calls /\ c \notin Businesses
      /\ pc[c] # "done" => reply[c] = "none"
      /\ pc[c] \in {"look", "create", "renew"} => role[c] \in BusinessRoles
  BY CallAssumption DEF IInv, AnswersAreFinal, RenewalsAreDue, Calls, Registrations
<1>1. CASE AskRole(c) \/ PhoneInUse(c)
  BY <1>0, <1>1 DEF AskRole, PhoneInUse, Goto, Return, rows, proofs, memory, TypeOK, Roles,
     Steps, Replies, Step, Own, Quiet, Claimed
<1>2. CASE LookNew(c) \/ LookExpired(c) \/ LookTaken(c)
  <2>1. TypeOK' /\ Own(c)
    BY <1>0, <1>2 DEF LookNew, LookExpired, LookTaken, Goto, Return, rows, proofs, memory,
       TypeOK, Approved, Steps, Replies, Own
  <2>2. Quiet(c)
    BY <1>0, <1>2 DEF LookNew, LookExpired, LookTaken, Goto, Return, memory, TypeOK, Quiet,
       Claimed
  <2>3. QED
    BY <2>1, <2>2 DEF Step
<1>3. CASE ApprovalExists(c) \/ RenewMissed(c)
  BY <1>0, <1>3 DEF ApprovalExists, RenewMissed, Return, rows, proofs, memory, TypeOK, Steps,
     Replies, Step, Own, Quiet, Claimed
<1>4. CASE CreateApproval(c) \/ Renew(c)
  <2>1. approval' \in Approved
    <3>1. approval' = [by |-> c, role |-> role[c], valid |-> TRUE, activated |-> FALSE]
      BY <1>4 DEF CreateApproval, Renew, Write
    <3>2. role[c] \in BusinessRoles
      BY <1>0, <1>4 DEF CreateApproval, Renew
    <3>3. QED
      BY <3>1, <3>2 DEF Approved
  <2>2. QED
    BY <1>0, <1>4, <2>1 DEF CreateApproval, Renew, Return, proofs, memory, TypeOK, Steps,
       Replies, Step, Own, Writes
<1>5. QED
  BY <1>1, <1>2, <1>3, <1>4 DEF ApproveStep

LEMMA FailEffect ==
    ASSUME IInv, NEW c \in Calls, Fail(c)
    PROVE  TypeOK' /\ Step(c)
BY DEF Fail, Return, rows, proofs, memory, IInv, TypeOK, Steps, Replies, Step, Own, Quiet,
   Claimed

LEMMA StepEffect ==
    ASSUME IInv, Next
    PROVE  /\ TypeOK'
           /\ (\E c \in Calls : Step(c)) \/ ExpireProof \/ ExpireApproval
<1>1. ASSUME ExpireProof PROVE TypeOK'
  BY <1>1 DEF ExpireProof, rows, memory, IInv, TypeOK
<1>2. ASSUME ExpireApproval PROVE TypeOK'
  BY <1>2 DEF ExpireApproval, proofs, memory, IInv, TypeOK, Approved
<1>3. QED
  BY <1>1, <1>2, VerifyEffect, RegisterEffect, ApproveEffect, FailEffect DEF Next, Calls

-----------------------------------------------------------------------------
(* Each part of the invariant is kept. *)

\* What is over stays over.
LEMMA DoneStays ==
    ASSUME NEW c \in Calls, Own(c), NEW d \in Calls, pc[d] = "done"
    PROVE  pc'[d] = "done" /\ reply'[d] = reply[d] /\ d # c
BY DEF Own

LEMMA ProofsKept ==
    ASSUME IInv, TypeOK', NEW c \in Calls, Step(c)
    PROVE  ProofsAreFresh' /\ ProofSpentOnce'
<1>0. /\ TypeOK /\ ProofsAreFresh /\ ProofSpentOnce /\ Own(c)
      /\ Verifications \subseteq Calls
      /\ None \notin Verifications
      /\ \A d \in Calls : pc[d] = "done" => pc'[d] = "done" /\ d # c
  BY DoneStays, CallAssumption DEF Step, IInv, Calls
<1>1. CASE UNCHANGED proofs
  BY <1>0, <1>1 DEF proofs, TypeOK, ProofsAreFresh, ProofSpentOnce
<1>2. CASE c \in Verifications /\ IssueProof(c)
  <2>1. /\ proof' = c /\ spent' = spent /\ pc'[c] = "done"
        /\ given \subseteq given' /\ given' \subseteq given \cup {c}
    BY <1>0, <1>2 DEF IssueProof, Return, TypeOK, Calls
  <2>2. QED
    BY <1>0, <2>1 DEF TypeOK, ProofsAreFresh, ProofSpentOnce
<1>3. CASE c \in Registrations /\ ConsumeProof(c)
  <2>1. /\ proof \in given /\ proof' = None /\ given' = given
        /\ spent' = [spent EXCEPT ![c] = proof]
    BY <1>3 DEF ConsumeProof
  <2>2. ProofsAreFresh'
    BY <1>0, <1>3, <2>1 DEF TypeOK, ProofsAreFresh
  <2>3. ProofSpentOnce'
    BY <1>0, <1>3, <2>1 DEF TypeOK, ProofsAreFresh, ProofSpentOnce
  <2>4. QED
    BY <2>2, <2>3
<1>4. QED
  BY <1>1, <1>2, <1>3 DEF Step, Quiet, Writes, Commit, CreateApproval, Renew

\* A call that writes something has thereby left the steps that hold a row.
LEMMA WriterLeaves ==
    ASSUME IInv, NEW c \in Calls, Writes(c)
    PROVE  /\ pc'[c] # "commit" /\ ~Claimed(c)'
           /\ c \in Businesses => pc'[c] # "check"
           /\ c \in Approvals => pc'[c] = "done"
<1>1. TypeOK
  BY DEF IInv
<1>2. CASE c \in Registrations /\ ConsumeProof(c)
  BY <1>1, <1>2, CallAssumption
     DEF ConsumeProof, FirstStep, Goto, Return, TypeOK, Claimed, Registrations
<1>3. CASE ~(c \in Registrations /\ ConsumeProof(c))
  BY <1>1, <1>3, CallAssumption
     DEF Writes, IssueProof, Commit, CreateApproval, Renew, Return, TypeOK, Claimed,
         Registrations
<1>4. QED
  BY <1>2, <1>3

LEMMA WritersKept ==
    ASSUME IInv, TypeOK', NEW c \in Calls, Step(c)
    PROVE  WritersAreAlone'
<1>0. /\ TypeOK /\ WritersAreAlone /\ Own(c)
      /\ Businesses \subseteq Registrations /\ Registrations \subseteq Calls
      /\ \A d \in Registrations : d # c => pc'[d] = pc[d] /\ role'[d] = role[d]
  BY DEF Step, Own, IInv, Calls, Registrations
<1>1. \A b \in Businesses : b # c => (Claimed(b)' <=> Claimed(b))
  BY <1>0 DEF Claimed
<1>2. CASE Quiet(c)
  <2>1. /\ \A b \in Businesses : pc'[b] # "check"
        /\ \A d \in Registrations : pc'[d] = "commit" => account' = None
        /\ \A d, e \in Registrations : pc'[d] = "commit" /\ pc'[e] = "commit" => d = e
    BY <1>0, <1>2 DEF Quiet, rows, WritersAreAlone, PhoneFree
  <2>2. ASSUME NEW b \in Businesses, Claimed(b)'
        PROVE  approval' # None /\ ~approval'.activated /\ approval'.role = role'[b]
    BY <1>0, <1>1, <1>2, <2>2 DEF Quiet, rows, WritersAreAlone, Usable
  <2>3. ASSUME NEW b \in Businesses, NEW d \in Businesses, Claimed(b)', Claimed(d)'
        PROVE  b = d
    BY <1>0, <1>1, <1>2, <2>3 DEF Quiet, WritersAreAlone, ApprovalFree
  <2>4. QED
    BY <2>1, <2>2, <2>3 DEF WritersAreAlone
<1>3. CASE Writes(c)
  <2>1. pc'[c] # "commit" /\ ~Claimed(c)' /\ (c \in Businesses => pc'[c] # "check")
    BY <1>3, WriterLeaves DEF Step
  <2>2. CASE UNCHANGED rows
    BY <1>0, <1>1, <2>1, <2>2 DEF rows, WritersAreAlone
  <2>3. CASE c \in Registrations /\ Commit(c)
    <3>1. /\ pc[c] = "commit" /\ (c \in Businesses => Claimed(c))
          /\ c \notin Businesses => approval' = approval
      BY <2>3 DEF Commit, Claimed
    <3>2. \A d \in Registrations : pc'[d] # "commit"
      BY <1>0, <2>1, <2>3, <3>1 DEF WritersAreAlone
    <3>3. c \in Businesses => \A b \in Businesses : ~Claimed(b)'
      BY <1>0, <1>1, <2>1, <3>1 DEF WritersAreAlone
    <3>4. QED
      BY <1>0, <1>1, <2>1, <3>1, <3>2, <3>3 DEF WritersAreAlone
  <2>4. CASE c \in Approvals /\ (CreateApproval(c) \/ Renew(c))
    <3>1. account' = account /\ ApprovalFree
      BY <1>0, <2>4 DEF CreateApproval, Renew, WritersAreAlone, ApprovalFree
    <3>2. \A b \in Businesses : ~Claimed(b)'
      BY <1>1, <2>1, <3>1 DEF ApprovalFree
    <3>3. QED
      BY <1>0, <2>1, <3>1, <3>2 DEF WritersAreAlone
  <2>5. QED
    BY <1>3, <2>2, <2>3, <2>4 DEF Writes, IssueProof, ConsumeProof
<1>4. QED
  BY <1>2, <1>3 DEF Step

LEMMA RenewalsKept ==
    ASSUME IInv, TypeOK', NEW c \in Calls, Step(c)
    PROVE  RenewalsAreDue'
<1>0. /\ TypeOK /\ RenewalsAreDue /\ Own(c) /\ Approvals \subseteq Calls
      /\ \A a \in Approvals : a # c =>
            pc'[a] = pc[a] /\ role'[a] = role[a] /\ seen'[a] = seen[a]
      /\ \A a \in Calls : pc[a] = "done" => pc'[a] = "done" /\ a # c
      /\ approval # None => approval \in Approved
      /\ approval' # None => approval' \in Approved
      /\ None \notin Approvals
  BY DoneStays, CallAssumption DEF Step, Own, IInv, Calls, TypeOK
<1>1. CASE Quiet(c)
  <2>1. approval' = approval
    BY <1>1 DEF Quiet, rows
  <2>2. approval # None => pc[approval.by] = "done" /\ approval.by \in Approvals
    BY <1>0 DEF RenewalsAreDue, Approved
  <2>3. ASSUME NEW a \in Approvals
        PROVE  /\ seen'[a] # None => pc'[seen'[a]] = "done"
               /\ pc'[a] \in {"look", "create", "renew"} => role'[a] \in BusinessRoles
               /\ pc'[a] = "renew" =>
                     approval # None /\ (approval.by = seen'[a] => ~approval.valid)
    <3>1. CASE a = c
      BY <1>0, <1>1, <2>2, <3>1 DEF Quiet, RenewalsAreDue, TypeOK
    <3>2. CASE a # c
      BY <1>0, <3>2 DEF RenewalsAreDue, TypeOK
    <3>3. QED
      BY <3>1, <3>2
  <2>4. QED
    BY <1>0, <2>1, <2>2, <2>3 DEF RenewalsAreDue
<1>2. CASE Writes(c) /\ seen' = seen
  <2>1. c \in Approvals => pc'[c] = "done"
    BY <1>2, WriterLeaves DEF Step
  <2>2. CASE approval' = approval
    BY <1>0, <1>2, <2>1, <2>2 DEF RenewalsAreDue, TypeOK, Approved
  <2>3. CASE c \in Registrations /\ Commit(c)
    <3>1. approval' = approval \/
             (approval # None /\ approval' = [approval EXCEPT !.activated = TRUE])
      BY <2>3 DEF Commit, IInv, WritersAreAlone, Claimed
    <3>2. CASE approval # None /\ approval' = [approval EXCEPT !.activated = TRUE]
      <4>1. approval' # None /\ approval'.by = approval.by /\ approval'.valid = approval.valid
        BY <1>0, <3>2, CallAssumption DEF Approved, Roles
      <4>2. QED
        BY <1>0, <1>2, <2>1, <3>2, <4>1 DEF RenewalsAreDue, TypeOK, Approved
    <3>3. QED
      BY <2>2, <3>1, <3>2
  <2>4. CASE c \in Approvals /\ (CreateApproval(c) \/ Renew(c))
    <3>1. approval' = [by |-> c, role |-> role[c], valid |-> TRUE, activated |-> FALSE]
      BY <2>4 DEF CreateApproval, Renew, Write
    <3>2. approval'.by = c /\ approval' # None
      BY <1>0, <2>4, <3>1, CallAssumption
         DEF Roles, RenewalsAreDue, CreateApproval, Renew
    <3>3. \A a \in Approvals : seen[a] # c
      BY <1>0, <2>4 DEF RenewalsAreDue, TypeOK
    <3>4. QED
      BY <1>0, <1>2, <2>1, <2>4, <3>2, <3>3 DEF RenewalsAreDue, TypeOK
  <2>5. QED
    BY <1>2, <2>2, <2>3, <2>4 DEF Writes, IssueProof, ConsumeProof, rows
<1>3. Writes(c) => seen' = seen
  BY DEF Writes, IssueProof, ConsumeProof, Commit, CreateApproval, Renew, memory
<1>4. QED
  BY <1>1, <1>2, <1>3 DEF Step

LEMMA AnswersKept ==
    ASSUME IInv, TypeOK', NEW c \in Calls, Step(c)
    PROVE  AnswersAreFinal' /\ AnswersMatchAccount'
<1>0. /\ TypeOK /\ AnswersAreFinal /\ AnswersMatchAccount /\ Own(c)
      /\ Registrations \subseteq Calls
      /\ \A d \in Calls : d # c => pc'[d] = pc[d] /\ reply'[d] = reply[d]
      /\ pc[c] # "done" /\ reply[c] = "none"
      /\ account # None => account.by \in Registrations
  BY DEF Step, Own, IInv, AnswersAreFinal, Calls, TypeOK
<1>1. \A d \in Calls : pc'[d] # "done" => reply'[d] = "none"
  BY <1>0 DEF Own, AnswersAreFinal
<1>2. CASE account' = account /\ reply'[c] # "tokens"
  BY <1>0, <1>1, <1>2 DEF AnswersAreFinal, AnswersMatchAccount
<1>3. CASE c \in Registrations /\ Commit(c)
  <2>1. account' = [by |-> c, role |-> IF c \in Businesses THEN role[c] ELSE "CUSTOMER"]
    BY <1>3 DEF Commit
  <2>2. account'.by = c /\ pc'[c] = "done" /\ reply'[c] \in {"tokens", "error"}
    BY <1>0, <1>3, <2>1 DEF Commit, Return, TypeOK
  <2>3. account = None
    BY <1>3 DEF Commit, IInv, WritersAreAlone
  <2>4. account' # None
    <3>1. c \in Businesses => role[c] \in Roles
      BY <1>3 DEF Commit, IInv, WritersAreAlone, Claimed, TypeOK, Approved, Roles
    <3>2. QED
      BY <1>3, <2>1, <3>1, CallAssumption DEF Roles
  <2>5. \A d \in Registrations : d # c => reply'[d] # "tokens"
    BY <1>0, <2>3 DEF AnswersMatchAccount
  <2>6. QED
    BY <1>1, <2>2, <2>4, <2>5 DEF AnswersAreFinal, AnswersMatchAccount
<1>4. CASE Writes(c) /\ ~(c \in Registrations /\ Commit(c))
  BY <1>0, <1>2, <1>4 DEF Writes, IssueProof, ConsumeProof, CreateApproval, Renew, Goto,
     Return, rows, TypeOK
<1>5. QED
  BY <1>2, <1>3, <1>4 DEF Step, Quiet, rows

LEMMA ApprovedKept ==
    ASSUME IInv, TypeOK', NEW c \in Calls, Step(c)
    PROVE  BusinessIsApproved'
<1>0. /\ TypeOK /\ BusinessIsApproved
      /\ approval # None => approval \in Approved
  BY DEF IInv, TypeOK
<1>1. CASE UNCHANGED rows
  BY <1>0, <1>1 DEF rows, BusinessIsApproved
<1>2. CASE c \in Registrations /\ Commit(c)
  <2>1. /\ account = None
        /\ account' = [by |-> c, role |-> IF c \in Businesses THEN role[c] ELSE "CUSTOMER"]
        /\ account'.by = c
    BY <1>2 DEF Commit, IInv, WritersAreAlone
  <2>2. CASE c \in Businesses
    <3>1. approval # None /\ approval.role = role[c]
      BY <1>2, <2>2 DEF Commit, IInv, WritersAreAlone, Claimed
    <3>2. approval' = [approval EXCEPT !.activated = TRUE] /\ account'.role = role[c]
      BY <1>2, <2>1, <2>2 DEF Commit
    <3>3. approval'.activated /\ approval'.role = role[c]
      BY <1>0, <3>1, <3>2 DEF Approved
    <3>4. approval' # None
      BY <1>0, <3>1, <3>2, CallAssumption DEF Approved, Roles
    <3>5. account' # None
      BY <1>0, <1>2, <2>1, <2>2, <3>1, CallAssumption DEF Approved, Roles
    <3>6. QED
      BY <2>1, <2>2, <3>2, <3>3, <3>4, <3>5 DEF BusinessIsApproved
  <2>3. CASE c \notin Businesses
    BY <1>0, <1>2, <2>1, <2>3 DEF Commit, BusinessIsApproved
  <2>4. QED
    BY <2>2, <2>3
<1>3. CASE c \in Approvals /\ (CreateApproval(c) \/ Renew(c))
  <2>1. /\ approval' = [by |-> c, role |-> role[c], valid |-> TRUE, activated |-> FALSE]
        /\ account' = account
    BY <1>3 DEF CreateApproval, Renew, Write
  <2>2. approval = None \/ ~approval.activated
    BY <1>3 DEF CreateApproval, Renew, Renewable
  <2>3. QED
    BY <1>0, <2>1, <2>2 DEF BusinessIsApproved
<1>4. QED
  BY <1>1, <1>2, <1>3 DEF Step, Quiet, Writes, IssueProof, ConsumeProof

LEMMA ProofExpiryKept ==
    ASSUME IInv, ExpireProof
    PROVE  IInv'
BY CallAssumption, StepEffect
   DEF ExpireProof, rows, memory, Next, IInv, TypeOK, ProofsAreFresh, WritersAreAlone,
       Claimed, RenewalsAreDue, AnswersAreFinal, ProofSpentOnce, BusinessIsApproved,
       AnswersMatchAccount, Calls

\* Only the flag changes; what a registration has claimed is not looked at again.
LEMMA ApprovalExpiryKept ==
    ASSUME IInv, ExpireApproval
    PROVE  IInv'
<1>1. /\ approval \in Approved
      /\ approval' = [approval EXCEPT !.valid = FALSE]
      /\ UNCHANGED <<account, proofs, role, seen, pc, reply>>
  BY DEF ExpireApproval, memory, IInv, TypeOK
<1>2. /\ approval'.by = approval.by /\ approval'.role = approval.role
      /\ approval'.activated = approval.activated /\ ~approval'.valid
  BY <1>1 DEF Approved
<1>3. approval' # None /\ approval # None
  BY <1>1, CallAssumption DEF Approved, Roles
<1>4. TypeOK'
  BY StepEffect DEF Next
<1>5. ProofsAreFresh' /\ ProofSpentOnce' /\ AnswersAreFinal' /\ AnswersMatchAccount'
  BY <1>1 DEF proofs, IInv, ProofsAreFresh, ProofSpentOnce, AnswersAreFinal,
     AnswersMatchAccount
<1>6. WritersAreAlone'
  BY <1>1, <1>2, <1>3 DEF IInv, WritersAreAlone, Claimed
<1>7. RenewalsAreDue'
  BY <1>1, <1>2, <1>3 DEF IInv, RenewalsAreDue
<1>8. BusinessIsApproved'
  BY <1>1, <1>2, <1>3 DEF IInv, BusinessIsApproved
<1>9. QED
  BY <1>4, <1>5, <1>6, <1>7, <1>8 DEF IInv

LEMMA NextInvariant == IInv /\ [Next]_vars => IInv'
<1>1. ASSUME IInv, Next PROVE IInv'
  <2>1. TypeOK'
    BY <1>1, StepEffect
  <2>2. ASSUME NEW c \in Calls, Step(c) PROVE IInv'
    BY <1>1, <2>1, <2>2, ProofsKept, WritersKept, RenewalsKept, AnswersKept, ApprovedKept
       DEF IInv
  <2>3. QED
    BY <1>1, <2>2, StepEffect, ProofExpiryKept, ApprovalExpiryKept
<1>2. ASSUME IInv, UNCHANGED vars PROVE IInv'
  BY <1>2 DEF vars, rows, proofs, memory, IInv, TypeOK, ProofsAreFresh, WritersAreAlone,
     Claimed, RenewalsAreDue, AnswersAreFinal, ProofSpentOnce, BusinessIsApproved,
     AnswersMatchAccount
<1>3. QED
  BY <1>1, <1>2

-----------------------------------------------------------------------------
(* The theorems. *)

\* Every reachable state of registration satisfies the inductive invariant.
THEOREM Invariance == Spec => []IInv
BY InitInvariant, NextInvariant, PTL DEF Spec

\* Every reachable state of the rows, the stored proof and the calls is well typed.
THEOREM TypeCorrect == Spec => []TypeOK
<1>1. IInv => TypeOK
  BY DEF IInv
<1>2. QED
  BY <1>1, Invariance, PTL

\* A proof of the phone registers once, however many requests present it.
THEOREM ProofsRegisterOnce == Spec => []ProofSpentOnce
<1>1. IInv => ProofSpentOnce
  BY DEF IInv
<1>2. QED
  BY <1>1, Invariance, PTL

\* A business account has the role of the approval it used up, whatever
\* administrators renewed in the meantime, and a used approval has its account.
THEOREM RolesAreApproved == Spec => []BusinessIsApproved
<1>1. IInv => BusinessIsApproved
  BY DEF IInv
<1>2. QED
  BY <1>1, Invariance, PTL

\* A registration's answer agrees with the account in the database.
THEOREM AnswersAreTrue == Spec => []AnswersMatchAccount
<1>1. IInv => AnswersMatchAccount
  BY DEF IInv
<1>2. QED
  BY <1>1, Invariance, PTL

-----------------------------------------------------------------------------
(* The tables implement the registry of one phone. *)

LEMMA CommitRefines ==
    ASSUME IInv, NEW c \in Registrations, Commit(c)
    PROVE  Registry!RegisterPersonal(c) \/ Registry!RegisterBusiness(c)
<1>1. account = None
  BY DEF Commit, IInv, WritersAreAlone
<1>2. CASE c \in Businesses
  <2>1. approval # None /\ ~approval.activated /\ approval.role = role[c]
    BY <1>2 DEF Commit, IInv, WritersAreAlone, Claimed
  <2>2. QED
    BY <1>1, <1>2, <2>1 DEF Commit, Registry!RegisterBusiness, Registry!Create
<1>3. CASE c \notin Businesses
  BY <1>1, <1>3 DEF Commit, Registry!RegisterPersonal, Registry!Create
<1>4. QED
  BY <1>2, <1>3

LEMMA ApproveRefines ==
    ASSUME IInv, NEW a \in Approvals, CreateApproval(a) \/ Renew(a)
    PROVE  role[a] \in BusinessRoles /\ Registry!Approve(a, role[a])
<1>1. role[a] \in BusinessRoles
  BY DEF CreateApproval, Renew, IInv, RenewalsAreDue
<1>2. approval # None => ~approval.activated /\ ~approval.valid
  BY DEF CreateApproval, Renew, Renewable, IInv, RenewalsAreDue
<1>3. QED
  BY <1>1, <1>2 DEF CreateApproval, Renew, Write, Registry!Approve

LEMMA StepRefines == IInv /\ [Next]_vars => [Registry!Next]_(Registry!vars)
<1>1. ASSUME IInv, NEW c \in Calls, Step(c) PROVE Registry!Next \/ UNCHANGED rows
  <2>1. CASE c \in Registrations /\ Commit(c)
    BY <1>1, <2>1, CommitRefines DEF Registry!Next
  <2>2. CASE c \in Approvals /\ (CreateApproval(c) \/ Renew(c))
    BY <1>1, <2>2, ApproveRefines DEF Registry!Next
  <2>3. QED
    BY <1>1, <2>1, <2>2 DEF Step, Quiet, Writes, IssueProof, ConsumeProof
<1>2. ASSUME ExpireProof PROVE UNCHANGED rows
  BY <1>2 DEF ExpireProof
<1>3. ASSUME ExpireApproval PROVE Registry!Next
  BY <1>3 DEF ExpireApproval, Registry!Expire, Registry!Next
<1>4. IInv /\ Next => Registry!Next \/ UNCHANGED rows
  BY <1>1, <1>2, <1>3, StepEffect
<1>5. QED
  BY <1>4 DEF vars, rows, Registry!vars

LEMMA InitRefines == Init => Registry!Init
BY DEF Init, Registry!Init

\* The rows of users and business_approvals change as the registry of one phone does.
THEOREM Refinement == Spec => ImplementsRegistry
BY InitRefines, StepRefines, Invariance, PTL DEF Spec, ImplementsRegistry, Registry!Spec
=============================================================================
