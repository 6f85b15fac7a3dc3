-------------------------------- MODULE MCOtp --------------------------------
(***************************************************************************)
(* Four casts of callers.  Three sends and a verification: one send can    *)
(* follow a failed one that another overlaps.  Two sends and three         *)
(* verifications: more wrong codes than the limit, on two challenges.  Two *)
(* sends, two verifications and a login: two challenges compete for an     *)
(* authorization.  One send, two verifications, two logins: two            *)
(* authorizations compete for a challenge.  Who is not in the cast never   *)
(* calls.                                                                  *)
(***************************************************************************)
EXTENDS Otp, FiniteSets, TLC

Casts == {<<3, 1, 0>>, <<2, 3, 0>>, <<2, 2, 1>>, <<1, 2, 2>>}

Cast == {S \in SUBSET Calls :
             <<Cardinality(S \cap Sends), Cardinality(S \cap Verifies),
               Cardinality(S \cap Logins)>> \in Casts}

CastInit ==
    /\ failures = 0
    /\ resend = None
    /\ challenges = {}
    /\ active = None
    /\ authorization = None
    /\ trusted = {}
    /\ \E S \in Cast : pc = [c \in Calls |-> IF c \in S THEN "idle" ELSE "error"]
    /\ device = [c \in Calls |-> None]
    /\ challenge = [v \in Verifies |-> None]
    /\ token = [v \in Verifies |-> None]
    /\ last = None
    /\ overrun = FALSE
    /\ cooled = {}
    /\ gone = {}
    /\ spent = {}
    /\ pointed = None
    /\ wrong = [s \in Sends |-> 0]

CastSpec == CastInit /\ [][Next]_vars

Symmetry == Permutations(Sends) \cup Permutations(Verifies) \cup Permutations(Logins)
                \cup Permutations(Devices)
=============================================================================
