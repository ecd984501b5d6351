-------------------------- MODULE MCSessionServer --------------------------
(***************************************************************************)
(* One channel between one payer and the server.                           *)
(***************************************************************************)
EXTENDS SessionServer, TLC

CONSTANTS payer, server, usdc, r1, r2, r3

MCAccounts == {payer, server}
MCTokens == {usdc}
MCChannelIds ==
  {[payer |-> payer, payee |-> server, token |-> usdc, salt |-> 1,
    authorizedSigner |-> NoAddress]}

ThreeRequests == {r1, r2, r3}

\* Requests are alike until one receives a credential.
Symmetry == Permutations(Requests)

\* Does the client wait for each answer.
VARIABLE serial

MCInit == Init /\ serial \in BOOLEAN

MCNext ==
  /\ \/ serial /\ SerialNext
     \/ ~serial /\ Next
  /\ UNCHANGED serial

MCSpec == MCInit /\ [][MCNext]_<<vars, serial>>

\* When the server has closed a channel of a client that waits for each
\* answer, it has been paid for everything it has counted as spent.
CloseCollectsSpent ==
  serial => \A id \in ChannelIds :
              store[id].finalized => store[id].spent <= paid[id]

\* A client that waits for each answer is counted no paid unit with a voucher
\* lower than the one the server holds.
SerialAccumulates ==
  [][serial => \A id \in ChannelIds : AccumulatesStep(id)]_vars
=============================================================================
