---------------------------- MODULE Registration ----------------------------
(***************************************************************************)
(* The registration of one phone: the proof that an OTP verification       *)
(* issues (auth-proof.service.ts), register, registerBusiness and          *)
(* approveBusinessAccount (auth.service.ts), racing with one another.      *)
(*                                                                         *)
(* A call is one HTTP request.  A proof is named by the verification that  *)
(* issued it, an approval by the call that wrote it last.  A transaction's *)
(* writes become visible when it commits; until then a claimed approval is *)
(* locked, and an inserted phone holds up other inserts of it.  A          *)
(* registration takes the time and runs its statement in one step.         *)
(***************************************************************************)
CONSTANTS
    Verifications,         \* of one-time passwords, each of a fresh challenge
    Personals, Businesses, \* registrations
    Approvals,             \* of administrators
    None

Registrations == Personals \cup Businesses
Calls == Registrations \cup Verifications \cup Approvals
BusinessRoles == {"AGENT", "MERCHANT"}
Roles == BusinessRoles \cup {"CUSTOMER", "ADMIN"}

ASSUME CallAssumption ==
    /\ None \notin Calls
    /\ Personals \cap Businesses = {}
    /\ Verifications \cap Registrations = {}
    /\ Approvals \cap (Registrations \cup Verifications) = {}
    /\ \A role \in Roles : role # None
    /\ \A c \in Registrations, role \in Roles : [by |-> c, role |-> role] # None
    /\ \A a \in Approvals, role \in Roles, v, u \in BOOLEAN :
          [by |-> a, role |-> role, valid |-> v, activated |-> u] # None

VARIABLES
    account,  \* the phone's row in users: which call created it, with which role
    approval, \* the phone's row in business_approvals; valid: expiresAt is to come
    proof,    \* Redis: the authorization stored for the phone
    given,    \* authorizations that clients have received
    pc,       \* where each call stands
    spent,    \* the authorization that a registration consumed
    role,     \* the role a call has read, or asks for
    seen,     \* whose approval an administrator's call has read
    reply     \* how a call ended

rows == <<account, approval>>
proofs == <<proof, given, spent>>
memory == <<role, seen>>
vars == <<rows, proofs, memory, pc, reply>>

Steps == {"idle", "issue", "check", "read", "claim", "insert", "commit", "look", "create",
          "renew", "done"}
Replies == {"none", "proof", "tokens", "ok", "refused", "conflict", "error"}
Approved == [by : Approvals, role : BusinessRoles, valid : BOOLEAN, activated : BOOLEAN]

TypeOK ==
    /\ account \in [by : Registrations, role : BusinessRoles \cup {"CUSTOMER"}] \cup {None}
    /\ approval \in Approved \cup {None}
    /\ proof \in Verifications \cup {None}
    /\ given \subseteq Verifications
    /\ pc \in [Calls -> Steps]
    /\ spent \in [Registrations -> Verifications \cup {None}]
    /\ role \in [Calls -> Roles \cup {None}]
    /\ seen \in [Approvals -> Approvals \cup {None}]
    /\ reply \in [Calls -> Replies]

Init ==
    /\ account = None
    /\ approval = None
    /\ proof = None
    /\ given = {}
    /\ pc = [c \in Calls |-> "idle"]
    /\ spent = [c \in Registrations |-> None]
    /\ role = [c \in Calls |-> None]
    /\ seen = [a \in Approvals |-> None]
    /\ reply = [c \in Calls |-> "none"]

-----------------------------------------------------------------------------
(* Helpers. *)

Goto(c, step) == pc' = [pc EXCEPT ![c] = step] /\ UNCHANGED reply
Return(c, r) == pc' = [pc EXCEPT ![c] = "done"] /\ reply' = [reply EXCEPT ![c] = r]

Usable(row) == row # None /\ ~row.activated /\ row.valid

\* A registration that has claimed the approval holds its row until it ends.
Claimed(c) == c \in Businesses /\ pc[c] \in {"insert", "commit"}
ApprovalFree == \A c \in Businesses : ~Claimed(c)

\* An insert waits for the transaction that has inserted the same phone.
PhoneFree == \A c \in Registrations : pc[c] # "commit"

-----------------------------------------------------------------------------
(* The proof. *)

\* The one-time password was right, and the phone has no account.
VerifyPhone(i) ==
    /\ pc[i] = "idle"
    /\ account = None
    /\ Goto(i, "issue")
    /\ UNCHANGED <<rows, proofs, memory>>

\* An authorization replaces the one before.  Redis may store it without the
\* client getting it.
IssueProof(i) ==
    /\ pc[i] = "issue"
    /\ proof' = i
    /\ \/ Return(i, "proof") /\ given' = given \cup {i}
       \/ Return(i, "error") /\ UNCHANGED given
    /\ UNCHANGED <<rows, spent, memory>>

ExpireProof ==
    /\ proof # None
    /\ proof' = None
    /\ UNCHANGED <<rows, given, spent, memory, pc, reply>>

FirstStep(c) == IF c \in Personals THEN "check" ELSE "read"

\* Faulty: the script compares but does not delete.
ConsumeKeeping(c) ==
    /\ pc[c] = "idle"
    /\ proof \in given
    /\ spent' = [spent EXCEPT ![c] = proof]
    /\ Goto(c, FirstStep(c))
    /\ UNCHANGED <<rows, proof, given, memory>>

\* The script compares and deletes in one step; its answer may be lost.
ConsumeProof(c) ==
    /\ pc[c] = "idle"
    /\ proof \in given
    /\ proof' = None
    /\ spent' = [spent EXCEPT ![c] = proof]
    /\ Goto(c, FirstStep(c)) \/ Return(c, "error")
    /\ UNCHANGED <<rows, given, memory>>

\* The authorization presented is another one, or another device's.
ProofRefused(c) ==
    /\ pc[c] = "idle"
    /\ Return(c, "refused")
    /\ UNCHANGED <<rows, proofs, memory>>

-----------------------------------------------------------------------------
(* register and registerBusiness. *)

PhoneUnknown(c) ==
    /\ pc[c] = "check"
    /\ account = None
    /\ Goto(c, "insert")
    /\ UNCHANGED <<rows, proofs, memory>>

PhoneKnown(c) ==
    /\ pc[c] = "check"
    /\ account # None
    /\ Return(c, "conflict")
    /\ UNCHANGED <<rows, proofs, memory>>

ReadApproval(c) ==
    /\ pc[c] = "read"
    /\ Usable(approval)
    /\ role' = [role EXCEPT ![c] = approval.role]
    /\ Goto(c, "claim")
    /\ UNCHANGED <<rows, proofs, seen>>

NotApproved(c) ==
    /\ pc[c] = "read"
    /\ ~Usable(approval)
    /\ Return(c, "refused")
    /\ UNCHANGED <<rows, proofs, memory>>

\* Faulty: the role is not in the WHERE clause.
ClaimAnyRole(c) ==
    /\ pc[c] = "claim"
    /\ ApprovalFree
    /\ Usable(approval)
    /\ Goto(c, "insert")
    /\ UNCHANGED <<rows, proofs, memory>>

\* Within the transaction: what was read must still be what is claimed.
Claim(c) ==
    /\ pc[c] = "claim"
    /\ ApprovalFree
    /\ Usable(approval) /\ approval.role = role[c]
    /\ Goto(c, "insert")
    /\ UNCHANGED <<rows, proofs, memory>>

ClaimMissed(c) ==
    /\ pc[c] = "claim"
    /\ ApprovalFree
    /\ ~(Usable(approval) /\ approval.role = role[c])
    /\ Return(c, "conflict")
    /\ UNCHANGED <<rows, proofs, memory>>

\* Faulty: users.phone has no unique index.
InsertAnyway(c) ==
    /\ pc[c] = "insert"
    /\ Goto(c, "commit")
    /\ UNCHANGED <<rows, proofs, memory>>

InsertUser(c) ==
    /\ pc[c] = "insert"
    /\ PhoneFree
    /\ account = None
    /\ Goto(c, "commit")
    /\ UNCHANGED <<rows, proofs, memory>>

\* P2002; register does not tell it from other errors.
PhoneTaken(c) ==
    /\ pc[c] = "insert"
    /\ PhoneFree
    /\ account # None
    /\ Return(c, IF c \in Businesses THEN "conflict" ELSE "error")
    /\ UNCHANGED <<rows, proofs, memory>>

\* The account with its wallet, device and session; the acknowledgement of the
\* commit may be lost.
Commit(c) ==
    /\ pc[c] = "commit"
    /\ account' = [by |-> c, role |-> IF c \in Businesses THEN role[c] ELSE "CUSTOMER"]
    /\ approval' = IF c \in Businesses THEN [approval EXCEPT !.activated = TRUE] ELSE approval
    /\ Return(c, "tokens") \/ Return(c, "error")
    /\ UNCHANGED <<proofs, memory>>

-----------------------------------------------------------------------------
(* approveBusinessAccount. *)

AskRole(a) ==
    /\ pc[a] = "idle"
    /\ account = None
    /\ \E r \in BusinessRoles : role' = [role EXCEPT ![a] = r]
    /\ Goto(a, "look")
    /\ UNCHANGED <<rows, proofs, seen>>

PhoneInUse(a) ==
    /\ pc[a] = "idle"
    /\ account # None
    /\ Return(a, "conflict")
    /\ UNCHANGED <<rows, proofs, memory>>

LookNew(a) ==
    /\ pc[a] = "look"
    /\ approval = None
    /\ Goto(a, "create")
    /\ UNCHANGED <<rows, proofs, memory>>

LookExpired(a) ==
    /\ pc[a] = "look"
    /\ approval # None /\ ~approval.activated /\ ~approval.valid
    /\ seen' = [seen EXCEPT ![a] = approval.by]
    /\ Goto(a, "renew")
    /\ UNCHANGED <<rows, proofs, role>>

\* The time it is judged by was taken before it was read, so it may have
\* expired since.
LookTaken(a) ==
    /\ pc[a] = "look"
    /\ approval # None
    /\ Return(a, "conflict")
    /\ UNCHANGED <<rows, proofs, memory>>

Write(a) == approval' = [by |-> a, role |-> role[a], valid |-> TRUE, activated |-> FALSE]

\* The insert's acknowledgement, like any other, may be lost.
CreateApproval(a) ==
    /\ pc[a] = "create"
    /\ approval = None
    /\ Write(a)
    /\ Return(a, "ok") \/ Return(a, "error")
    /\ UNCHANGED <<account, proofs, memory>>

\* P2002 of the approval's phone.
ApprovalExists(a) ==
    /\ pc[a] = "create"
    /\ approval # None
    /\ Return(a, "conflict")
    /\ UNCHANGED <<rows, proofs, memory>>

\* Faulty: the update names the row and nothing else.
RenewAnyway(a) ==
    /\ pc[a] = "renew"
    /\ ApprovalFree
    /\ Write(a)
    /\ Return(a, "ok")
    /\ UNCHANGED <<account, proofs, memory>>

\* expiresAt <= now, of the time before the read: the approval that was read,
\* since a renewal puts expiresAt an hour ahead.
Renewable(a) == ~approval.activated /\ approval.by = seen[a]

Renew(a) ==
    /\ pc[a] = "renew"
    /\ ApprovalFree
    /\ Renewable(a)
    /\ Write(a)
    /\ Return(a, "ok") \/ Return(a, "error")
    /\ UNCHANGED <<account, proofs, memory>>

RenewMissed(a) ==
    /\ pc[a] = "renew"
    /\ ApprovalFree
    /\ ~Renewable(a)
    /\ Return(a, "conflict")
    /\ UNCHANGED <<rows, proofs, memory>>

ExpireApproval ==
    /\ approval # None
    /\ approval.valid
    /\ approval' = [approval EXCEPT !.valid = FALSE]
    /\ UNCHANGED <<account, proofs, memory, pc, reply>>

-----------------------------------------------------------------------------
(* The specification. *)

\* A query, a Redis command or a statement fails, and its transaction rolls back.
\* A call that fails in its first, before it has any effect, might as well not come.
Fail(c) ==
    /\ pc[c] \notin {"idle", "done"}
    /\ Return(c, "error")
    /\ UNCHANGED <<rows, proofs, memory>>

RegisterStep(c) ==
    \/ ConsumeProof(c) \/ ProofRefused(c)
    \/ PhoneUnknown(c) \/ PhoneKnown(c)
    \/ ReadApproval(c) \/ NotApproved(c) \/ Claim(c) \/ ClaimMissed(c)
    \/ InsertUser(c) \/ PhoneTaken(c) \/ Commit(c)

ApproveStep(a) ==
    \/ AskRole(a) \/ PhoneInUse(a)
    \/ LookNew(a) \/ LookExpired(a) \/ LookTaken(a)
    \/ CreateApproval(a) \/ ApprovalExists(a) \/ Renew(a) \/ RenewMissed(a)

Next ==
    \/ \E i \in Verifications : VerifyPhone(i) \/ IssueProof(i)
    \/ \E c \in Registrations : RegisterStep(c)
    \/ \E a \in Approvals : ApproveStep(a)
    \/ \E c \in Calls : Fail(c)
    \/ ExpireProof
    \/ ExpireApproval

Spec == Init /\ [][Next]_vars

-----------------------------------------------------------------------------
(* Properties. *)

\* A proof of the phone registers once, however many requests present it.
ProofSpentOnce ==
    \A c, d \in Registrations : spent[c] # None /\ spent[c] = spent[d] => c = d

\* A business account has exactly the role of the approval it used up, although
\* the approval was read in an earlier statement and administrators may renew
\* it with another role; and a used approval has its account.
BusinessIsApproved ==
    /\ account # None /\ account.by \in Businesses =>
          approval # None /\ approval.activated /\ approval.role = account.role
    /\ approval # None /\ approval.activated =>
          account # None /\ account.by \in Businesses

\* Tokens are returned for the account that this very call created, and no
\* other outcome but an error is reported for one that was created.
AnswersMatchAccount ==
    \A c \in Registrations :
        /\ reply[c] = "tokens" => account # None /\ account.by = c
        /\ reply[c] \in {"refused", "conflict"} => account = None \/ account.by # c

\* The two tables change as the registry of one phone does.
Registry == INSTANCE PhoneRegistry WITH Grants <- Approvals
ImplementsRegistry == Registry!Spec

-----------------------------------------------------------------------------
(* The inductive invariant. *)

\* An authorization on its way to a client is fresh, a spent one is gone.
ProofsAreFresh ==
    /\ proof # None => pc[proof] = "done"
    /\ \A i \in given : pc[i] = "done"
    /\ \A c \in Registrations : spent[c] # None => spent[c] \in given /\ spent[c] # proof

\* Between its claim and its commit a registration owns the approval, and
\* between its insert and its commit the phone.  A business gets no further
\* without a claim.
WritersAreAlone ==
    /\ \A b \in Businesses : pc[b] # "check"
    /\ \A c \in Registrations : pc[c] = "commit" => account = None
    /\ \A c, d \in Registrations : pc[c] = "commit" /\ pc[d] = "commit" => c = d
    /\ \A b \in Businesses : Claimed(b) =>
          approval # None /\ ~approval.activated /\ approval.role = role[b]
    /\ \A b, d \in Businesses : Claimed(b) /\ Claimed(d) => b = d

\* An administrator's call that renews has read an approval, and if that is
\* still the one there is, it has expired.
RenewalsAreDue ==
    /\ approval # None => pc[approval.by] = "done"
    /\ \A a \in Approvals :
          /\ seen[a] # None => pc[seen[a]] = "done"
          /\ pc[a] \in {"look", "create", "renew"} => role[a] \in BusinessRoles
          /\ pc[a] = "renew" =>
                approval # None /\ (approval.by = seen[a] => ~approval.valid)

\* Nobody has an answer yet who is not done, and whoever created the account is.
AnswersAreFinal ==
    /\ \A c \in Calls : pc[c] # "done" => reply[c] = "none"
    /\ account # None => pc[account.by] = "done"

IInv ==
    /\ TypeOK
    /\ ProofsAreFresh
    /\ WritersAreAlone
    /\ RenewalsAreDue
    /\ AnswersAreFinal
    /\ ProofSpentOnce
    /\ BusinessIsApproved
    /\ AnswersMatchAccount
=============================================================================
