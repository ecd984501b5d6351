--------------------------- MODULE SessionServer ---------------------------
(***************************************************************************)
(* The session method of the payment server: verify() handles the open,    *)
(* topUp, voucher and close credentials of payment channels.  Every await  *)
(* that reads the store or the chain, sends a transaction or writes the    *)
(* store ends a step, so requests interleave there; what they have read    *)
(* may be stale when they use it.  updateChannel is one step, which is     *)
(* what ChannelStore shows it to be.                                       *)
(*                                                                         *)
(* The client is free: it sends any credential at any time, any number of  *)
(* times, and uses the escrow contract as it likes.                        *)
(***************************************************************************)
EXTENDS Integers, FiniteSets

CONSTANTS
  Requests,     \* the calls of verify()
  Recipient,    \* the payee the server expects, and its own account
  Currency,     \* the token the server expects
  Price,        \* challengeAmount: what the challenge of a request asks
  MinDelta,     \* minVoucherDelta
  Accounts, NoAddress, Escrow, Tokens, ChannelIds, MaxUint128,
  CloseGracePeriod, InitialFunds, MaxTime, MaxVouchers  \* of StreamChannel

VARIABLES
  store,   \* the ChannelState of every channel
  req,     \* per call of verify: where it is, its payload, what it has read
  channels, balance, vouchers, deposited, paid, refunded, notice, now

Chain == INSTANCE StreamChannel

chain == <<channels, balance, vouchers, deposited, paid, refunded, notice, now>>
vars == <<store, req, chain>>

Amounts == Chain!Amounts

ASSUME ServerAssumption ==
  /\ NoAddress \notin Accounts
  /\ ChannelIds \subseteq Chain!ChannelParams
  /\ MaxUint128 \in Nat
  /\ Price \in Nat

-----------------------------------------------------------------------------
\* highestVoucher is kept as its amount: its channel is the record's, and its
\* signature is one that exists.
ChannelState ==
  [exists: BOOLEAN, deposit: Amounts, settledOnChain: Amounts,
   highestVoucherAmount: Amounts, spent: Nat, units: Nat, finalized: BOOLEAN]

NoState ==
  [exists |-> FALSE, deposit |-> 0, settledOnChain |-> 0,
   highestVoucherAmount |-> 0, spent |-> 0, units |-> 0, finalized |-> FALSE]

Actions == {"open", "topUp", "voucher", "close"}

\* A credential's signature is over its own channel and amount, or worthless.
Credential == [action: Actions, channelId: ChannelIds, cumulative: Amounts]

\* deposit and settled are what the call has read, of the store or the chain.
Call(at, c, deposit, settled) ==
  [at |-> at, action |-> c.action, channelId |-> c.channelId,
   cumulative |-> c.cumulative, deposit |-> deposit, settled |-> settled]

NoCredential == [action |-> "open", channelId |-> CHOOSE id \in ChannelIds : TRUE,
                 cumulative |-> 0]

Waiting == Call("idle", NoCredential, 0, 0)
Ended   == Call("ended", NoCredential, 0, 0)

Init ==
  /\ Chain!Init
  /\ store = [id \in ChannelIds |-> NoState]
  /\ req = [r \in Requests |-> Waiting]

At(r, action, here) == req[r].at = here /\ req[r].action = action

End(r) == req' = [req EXCEPT ![r] = Ended]

\* A check that throws ends the call, one that does not lets it go on.
Check(r, ok, call) == req' = [req EXCEPT ![r] = IF ok THEN call ELSE Ended]

\* updateChannel with the update function of topUp, voucher and close, which
\* sees the record of the moment.
Revise(id, state) ==
  store' = [store EXCEPT ![id] = IF @.exists THEN state ELSE NoState]

\* verifyVoucherSig
Signed(c) ==
  [signer |-> Chain!ExpectedSigner(c.channelId), channelId |-> c.channelId,
   amount |-> c.cumulative] \in vouchers

Receive(r, c) ==
  /\ req[r] = Waiting
  /\ req' = [req EXCEPT ![r] = Call("start", c, 0, 0)]
  /\ UNCHANGED <<store, chain>>

-----------------------------------------------------------------------------
\* open: the transaction's receipt, then the channel as it is on the chain.
\* Any mined transaction will do, so its status says nothing of the channel.
OpenChecks(c) ==
  LET onChain == channels[c.channelId]
  IN  /\ onChain.deposit # 0
      /\ ~onChain.finalized
      /\ onChain.closeRequestedAt = 0
      /\ onChain.payee = Recipient
      /\ onChain.token = Currency
      /\ c.cumulative <= onChain.deposit
      /\ Signed(c)

OpenRead(r) ==
  LET c == req[r]
      onChain == channels[c.channelId]
  IN  /\ At(r, "open", "start")
      /\ \E mined \in BOOLEAN :
           Check(r, mined /\ OpenChecks(c),
                 Call("write", c, onChain.deposit, onChain.settled))
      /\ UNCHANGED <<store, chain>>

\* The new state replaces whatever record there is.
OpenWrite(r) ==
  LET c == req[r]
  IN  /\ At(r, "open", "write")
      /\ store' = [store EXCEPT ![c.channelId] =
           [exists |-> TRUE, deposit |-> c.deposit, settledOnChain |-> c.settled,
            highestVoucherAmount |-> c.cumulative, spent |-> Price, units |-> 1,
            finalized |-> FALSE]]
      /\ End(r)
      /\ UNCHANGED chain

-----------------------------------------------------------------------------
TopUpRead(r) ==
  LET c == req[r]
      state == store[c.channelId]
  IN  /\ At(r, "topUp", "start")
      /\ Check(r, state.exists, Call("mined", c, state.deposit, 0))
      /\ UNCHANGED <<store, chain>>

TopUpChain(r) ==
  LET c == req[r]
      onChain == channels[c.channelId]
  IN  /\ At(r, "topUp", "mined")
      /\ \E mined \in BOOLEAN :
           Check(r, mined /\ onChain.deposit > c.deposit,
                 Call("write", c, onChain.deposit, 0))
      /\ UNCHANGED <<store, chain>>

ReadDeposit(r) == req[r].deposit

TopUpWrite(r) ==
  LET id == req[r].channelId
  IN  /\ At(r, "topUp", "write")
      /\ Revise(id, [store[id] EXCEPT !.deposit = ReadDeposit(r)])
      /\ End(r)
      /\ UNCHANGED chain

-----------------------------------------------------------------------------
\* Mutant: a voucher is compared with what the chain has settled.
Settled(state) == state.settledOnChain

Highest(state) == state.highestVoucherAmount

\* A voucher that is not above the highest one gets a receipt and no charge.
Repeats(c) == c.cumulative <= Highest(store[c.channelId])

\* Mutant: the deposit is not looked at.
UncoveredVoucherChecks(c) ==
  /\ c.cumulative - Highest(store[c.channelId]) >= MinDelta
  /\ Signed(c)

VoucherChecks(c) ==
  LET state == store[c.channelId]
  IN  /\ c.cumulative - Highest(state) >= MinDelta
      /\ c.cumulative <= state.deposit
      /\ Signed(c)

VoucherRead(r) ==
  LET c == req[r]
      state == store[c.channelId]
  IN  /\ At(r, "voucher", "start")
      /\ Check(r, /\ state.exists
                  /\ ~state.finalized
                  /\ ~Repeats(c)
                  /\ VoucherChecks(c), Call("write", c, 0, 0))
      /\ UNCHANGED <<store, chain>>

\* What was checked was the record of VoucherRead.
VoucherWrite(r) ==
  LET c == req[r]
  IN  /\ At(r, "voucher", "write")
      /\ Revise(c.channelId,
           [store[c.channelId] EXCEPT !.highestVoucherAmount = c.cumulative,
                                      !.spent = @ + Price,
                                      !.units = @ + 1])
      /\ End(r)
      /\ UNCHANGED chain

-----------------------------------------------------------------------------
\* Mutant: what the requests have spent is not looked at.
AboveSettled(state) == state.settledOnChain

\* minClose
MinClose(state) ==
  IF state.spent > state.settledOnChain THEN state.spent
  ELSE state.settledOnChain

CloseRead(r) ==
  LET c == req[r]
      state == store[c.channelId]
  IN  /\ At(r, "close", "start")
      /\ Check(r, /\ state.exists
                  /\ ~state.finalized
                  /\ MinClose(state) <= c.cumulative
                  /\ c.cumulative <= state.deposit
                  /\ Signed(c), Call("send", c, 0, 0))
      /\ UNCHANGED <<store, chain>>

\* The close transaction takes effect, and the wait for its receipt may fail.
CloseSend(r) ==
  LET c == req[r]
  IN  /\ At(r, "close", "send")
      /\ Chain!close(Recipient, c.channelId, c.cumulative)
      /\ \E received \in BOOLEAN : Check(r, received, Call("write", c, 0, 0))
      /\ UNCHANGED store

\* It is refused, reverts or is never sent.
CloseFail(r) ==
  /\ At(r, "close", "send")
  /\ End(r)
  /\ UNCHANGED <<store, chain>>

\* Mutant: the record is marked before the receipt is there.
EarlyMark(r) == At(r, "close", "send") \/ At(r, "close", "write")

ReceiptThere(r) == At(r, "close", "write")

CloseWrite(r) ==
  LET c == req[r]
  IN  /\ ReceiptThere(r)
      /\ Revise(c.channelId,
           [store[c.channelId] EXCEPT !.highestVoucherAmount = c.cumulative,
                                      !.finalized = TRUE])
      /\ End(r)
      /\ UNCHANGED chain

-----------------------------------------------------------------------------
InFlight(r) == req[r] \notin {Waiting, Ended}

\* The process restarts: pending calls are dropped.
Restart ==
  /\ \E r \in Requests : InFlight(r)
  /\ req' = [r \in Requests |-> IF InFlight(r) THEN Ended ELSE req[r]]
  /\ store' \in {store, [id \in ChannelIds |-> NoState]}
  /\ UNCHANGED chain

Handle(r) ==
  \/ OpenRead(r) \/ OpenWrite(r)
  \/ TopUpRead(r) \/ TopUpChain(r) \/ TopUpWrite(r)
  \/ VoucherRead(r) \/ VoucherWrite(r)
  \/ CloseRead(r) \/ CloseSend(r) \/ CloseFail(r) \/ CloseWrite(r)

\* Payer and signer act on their own.  verify() never settles; whoever runs
\* the server may do so with the voucher it holds.
World ==
  /\ \/ \E id \in ChannelIds :
          \/ Chain!PayerStep(id.payer, id)
          \/ Chain!SignStep(Chain!ExpectedSigner(id), id)
          \/ Chain!settle(Recipient, id, store[id].highestVoucherAmount)
     \/ Chain!Tick
  /\ UNCHANGED <<store, req>>

Next ==
  \/ \E r \in Requests : Handle(r) \/ \E c \in Credential : Receive(r, c)
  \/ Restart
  \/ World

Spec == Init /\ [][Next]_vars

\* A client that waits for each answer before it sends the next credential.
SerialNext ==
  \/ \E r \in Requests :
       \/ Handle(r)
       \/ /\ \A other \in Requests : ~InFlight(other)
          /\ \E c \in Credential : Receive(r, c)
  \/ Restart
  \/ World

-----------------------------------------------------------------------------
\* The highest voucher the server holds can be collected: as long as the
\* channel is open on the chain and less is settled, the contract would accept
\* the voucher from the recipient, however stale the records were that the
\* server checked it against.
VoucherCollectable ==
  \A id \in ChannelIds :
    LET c == channels[id]
        highest == store[id].highestVoucherAmount
    IN  store[id].exists /\ Chain!IsOpen(c) /\ c.settled < highest =>
          /\ c.payee = Recipient
          /\ highest <= c.deposit
          /\ Chain!ValidVoucher(id, highest)

\* A channel the server takes for finalized is so on the chain, whatever
\* happened between sending the close transaction and recording it: no
\* request is refused as closed while its money could still be collected.
FinalizedOnChain ==
  \A id \in ChannelIds : store[id].finalized => channels[id].finalized

AccumulatesStep(id) ==
  store[id].exists /\ store'[id].units > store[id].units =>
    store'[id].highestVoucherAmount >= store[id].highestVoucherAmount

\* "The server accumulates the highest voucher": counting one more paid unit
\* never lowers it.
Accumulates == [][\A id \in ChannelIds : AccumulatesStep(id)]_vars
=============================================================================
