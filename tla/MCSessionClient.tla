-------------------------- MODULE MCSessionClient --------------------------
(***************************************************************************)
(* A few calls of the client, all for the same payee.  A behaviour takes   *)
(* one part: the client with nobody who answers, its calls at any time     *)
(* ("any") or one after the other ("serial"); or client, server and        *)
(* contract together, again at any time ("payments") or in turn.           *)
(***************************************************************************)
EXTENDS SessionPayments, TLC

CONSTANTS alice, bob, usdc

TwoCalls == 1..2
ThreeCalls == 1..3
OneOrTwo == {1, 2}
FourPresentations == 1..4
NumberedSalts == [r \in Calls |-> r]

VARIABLE part

Parts == {"any", "serial", "payments", "in turn"}

Alone == part \in {"any", "serial"}

MCInit == JointInit /\ part \in Parts /\ (~Alone => funds = Funds)

MCNext ==
  /\ \/ part = "any" /\ Next
     \/ part = "serial" /\ SerialNext
     \/ part = "payments" /\ JointNext
     \/ part = "in turn" /\ InTurn
  /\ Alone => UNCHANGED <<server, chain>>
  /\ UNCHANGED part

MCSpec == MCInit /\ [][MCNext]_<<payments, part>>

\* "The client opens a channel once": calls that do not overlap share one
\* funded channel.
OpensOnce == part \in {"serial", "in turn"} => Cardinality(funded) <= 1

\* When requests are answered in turn, the server refuses none that the client
\* has paid for within its deposit.
ServedInTurn == [][part = "in turn" => NothingRefused]_<<payments, part>>
=============================================================================
