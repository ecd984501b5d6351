------------------------------ MODULE MCCharge ------------------------------
(***************************************************************************)
(* One authorization of a payer, and calls of verify() that share it.      *)
(***************************************************************************)
EXTENDS Charge, TLC

CONSTANTS n1, r1, r2, r3

OneNonce == {n1}
TwoCalls == {r1, r2}
ThreeCalls == {r1, r2, r3}
OnePrice == {1}
OneOrTwo == {1, 2}

\* Calls are alike until one receives a credential.
Symmetry == Permutations(Calls)

\* Do the RPC calls of the server all answer.
VARIABLE reliable

MCInit == Init /\ reliable \in BOOLEAN

MCNext ==
  /\ \/ reliable /\ ReliableNext
     \/ ~reliable /\ Next
  /\ UNCHANGED reliable

MCSpec == MCInit /\ [][MCNext]_<<vars, reliable>>

\* When no RPC call fails, a payer that was charged has its answer, or the
\* request is about to give it.
ReliablyAnswered == reliable => PaidIsAnswered
=============================================================================
