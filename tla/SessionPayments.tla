-------------------------- MODULE SessionPayments --------------------------
(***************************************************************************)
(* The session client, the session server and the escrow contract together:*)
(* what the client opens is a channel of the contract, what it signs are   *)
(* vouchers, and what it returns are the credentials that the server gets. *)
(* Credentials may overtake each other and be lost; both sides may fail,   *)
(* and restart.                                                            *)
(***************************************************************************)
EXTENDS SessionClient

CONSTANTS
  Presentations,  \* the calls of verify()
  payer, payee, token, NoAddress, Escrow,
  Salt,           \* call -> the salt that it draws
  Amount          \* what the challenge of each request asks

\* A salt is random, and never drawn twice.
ASSUME PaymentsAssumption ==
  /\ IsFiniteSet(Presentations)
  /\ \A r, s \in Calls : Salt[r] = Salt[s] => r = s
  /\ Amount \in Prices

VARIABLES
  store, req,      \* of SessionServer
  channels, balance, vouchers, deposited, paid, refunded, notice, now, \* StreamChannel
  presented        \* the credentials that the server has got

Id(r) == [payer |-> payer, payee |-> payee, token |-> token, salt |-> Salt[r],
          authorizedSigner |-> NoAddress]

Server ==
  INSTANCE SessionServer WITH
    Requests <- Presentations, Recipient <- payee, Currency <- token, Price <- Amount,
    MinDelta <- Amount, Accounts <- {payer, payee}, Tokens <- {token},
    ChannelIds <- {Id(r) : r \in Calls}, MaxUint128 <- Amount * Cardinality(Calls),
    CloseGracePeriod <- 1, InitialFunds <- Funds, MaxTime <- 1,
    MaxVouchers <- Cardinality(Calls)

chain == <<channels, balance, vouchers, deposited, paid, refunded, notice, now>>
server == <<store, req, presented>>
payments == <<vars, server, chain>>

JointInit == Init /\ Server!Init /\ presented = {}

-----------------------------------------------------------------------------
\* The transaction of the client is a call of the contract.
OpenOnChain(r) ==
  /\ Open(r)
  /\ IF r \in funded' THEN Server!Chain!open(payer, Id(r), Deposit) ELSE UNCHANGED chain
  /\ UNCHANGED server

\* What the wallet signs exists.
SignVoucher(r) ==
  /\ Sign(r)
  /\ vouchers' = vouchers \cup
       {[signer |-> payer, channelId |-> Id(call[r].channel), amount |-> call[r].amount]}
  /\ UNCHANGED <<server, channels, balance, deposited, paid, refunded, notice, now>>

ClientStep(r) ==
  \/ OpenOnChain(r)
  \/ SignVoucher(r)
  \/ /\ Lookup(r) \/ ReadAllowance(r) \/ Approve(r) \/ Estimate(r) \/ Register(r)
        \/ Confirm(r) \/ Reject(r)
     /\ UNCHANGED <<server, chain>>

\* The first credential of a channel is that of the call that has opened it.
Payment(k) ==
  [action |-> IF k.call = k.channel THEN "open" ELSE "voucher",
   channelId |-> Id(k.channel), cumulative |-> k.cumulative]

\* The server gets a credential; one whose signature is over another amount
\* changes nothing.
Present(q, k) ==
  /\ presented' = presented \cup {k}
  /\ \/ k.cumulative = k.signed /\ Server!Receive(q, Payment(k))
     \/ k.cumulative # k.signed /\ UNCHANGED <<store, req, chain>>
  /\ UNCHANGED vars

ServerStep(q) == Server!Handle(q) /\ UNCHANGED <<vars, presented>>

\* Whoever runs the server settles.
Settle(r) ==
  /\ Server!Chain!settle(payee, Id(r), store[Id(r)].highestVoucherAmount)
  /\ UNCHANGED <<vars, server>>

\* A call or a process ends; either side may forget its channels.
Failure ==
  \/ /\ (\E r \in Calls : Fail(r)) \/ Restart
     /\ UNCHANGED <<server, chain>>
  \/ Server!Restart /\ UNCHANGED <<vars, presented>>

Request(r) == Begin(r, Amount) /\ UNCHANGED <<server, chain>>

\* Each credential is presented once, or never.
JointNext ==
  \/ \E r \in Calls : Request(r) \/ ClientStep(r) \/ Settle(r)
  \/ \E q \in Presentations :
       ServerStep(q) \/ \E k \in credentials \ presented : Present(q, k)
  \/ Failure

Idle ==
  /\ \A r \in Calls : ~InFlight(r)
  /\ \A q \in Presentations : ~Server!InFlight(q)

\* The receipt of the opening transaction arrives.
Arrives(q) ==
  Server!At(q, "open", "start") /\ Server!OpenChecks(req[q]) => req'[q].at = "write"

\* A request is answered before the next is made, and nothing fails.  A
\* credential may be presented again.
InTurn ==
  \/ \E r \in Calls : ClientStep(r) \/ Settle(r)
  \/ \E q \in Presentations : ServerStep(q) /\ Arrives(q)
  \/ Idle /\ credentials = presented /\ \E r \in Calls : Request(r)
  \/ Idle /\ \E q \in Presentations, k \in credentials : Present(q, k)

-----------------------------------------------------------------------------
(* Properties                                                              *)

\* The requests that the server counts on a channel cost no more than what the
\* client has signed for them, whatever overtakes what, is lost, fails or is
\* forgotten: the client can close with what it has signed.
NeverOvercharged ==
  \A r \in Calls : store[Id(r)].spent <= cumulative[r]

\* The server gives no receipt.
Refuses(q) ==
  /\ req[q].at = "start" /\ req'[q] = Server!Ended
  /\ ~(req[q].action = "voucher" /\ store[req[q].channelId].exists /\ Server!Repeats(req[q]))

Excused(id, cumulativeAmount) ==
  \/ cumulativeAmount > Deposit
  \/ \A r \in confirmed : Id(r) # id

\* Nothing that the client presents is refused, unless it is above the deposit or
\* of a channel that the user has rejected.
NothingRefused ==
  /\ \A k \in presented' : k.cumulative = k.signed
  /\ \A q \in Presentations :
       Refuses(q) => Excused(req[q].channelId, req[q].cumulative)
=============================================================================
