--------------------------- MODULE StreamChannel ---------------------------
(***************************************************************************)
(* The escrow contract AbstractStreamChannel.  A payer opens a channel by  *)
(* depositing an ERC-20 amount, signs cumulative vouchers off-chain, and   *)
(* the payee collects them with settle or close.  The payer leaves alone   *)
(* by requestClose, a grace period, and withdraw.                          *)
(*                                                                         *)
(* A transaction is atomic, so each external function is one action.  A    *)
(* revert undoes everything, so it is the absence of a step: every revert  *)
(* of the code is the negation of a conjunct below.                        *)
(***************************************************************************)
EXTENDS Integers, FiniteSets, Functions

CONSTANTS
  Accounts,          \* addresses that send transactions and sign vouchers
  NoAddress,         \* address(0)
  Escrow,            \* address(this)
  Tokens,            \* ERC-20 contracts
  ChannelIds,        \* the channel parameters that open() may be called with
  MaxUint128,        \* type(uint128).max
  CloseGracePeriod,  \* CLOSE_GRACE_PERIOD
  InitialFunds,      \* what each account owns of each token at the start
  MaxTime,           \* bound on block.timestamp; a close is only requested
                     \* early enough for its grace period to elapse
  MaxVouchers        \* bound on the number of signatures ever made

\* computeChannelId hashes exactly these fields (and the contract's own
\* address and chain); the hash is injective, so the fields are the id.  There are
\* finitely many, since a hash has 32 bytes.
ChannelParams ==
  [payer: Accounts, payee: Accounts \cup {NoAddress},
   token: Tokens \cup {NoAddress}, salt: Nat,
   authorizedSigner: Accounts \cup {NoAddress}]

ASSUME ConstantsAssumption ==
  /\ NoAddress \notin Accounts \cup Tokens \cup {Escrow}
  /\ Escrow \notin Accounts
  /\ ChannelIds \subseteq ChannelParams /\ IsFiniteSet(ChannelIds)
  /\ MaxUint128 \in Nat \ {0}
  /\ CloseGracePeriod \in Nat \ {0}
  /\ InitialFunds \in Nat
  /\ MaxTime \in Nat
  /\ MaxVouchers \in Nat

VARIABLES
  channels,  \* the contract's mapping(bytes32 => Channel)
  balance,   \* the tokens' own ledgers
  vouchers,  \* the EIP-712 signatures that exist, wherever they are held
  deposited, \* per channel, what the contract's events add up to: paid in
  paid,      \* by the payer, paid out to the payee
  refunded,  \* and given back to the payer
  notice,    \* per channel, what its close events announce to a payee
  now        \* block.timestamp

totals == <<deposited, paid, refunded>>

vars == <<channels, balance, vouchers, totals, notice, now>>

-----------------------------------------------------------------------------
Amounts  == 0 .. MaxUint128
Wide     == 0 .. MaxUint128 + 2  \* some uint256 values, two of them too wide
Holders  == Accounts \cup {Escrow}
Vouchers == [signer: Accounts, channelId: ChannelIds, amount: Amounts]

\* An entry of the mapping before open().
NoChannel ==
  [payer |-> NoAddress, payee |-> NoAddress, token |-> NoAddress,
   authorizedSigner |-> NoAddress, deposit |-> 0, settled |-> 0,
   closeRequestedAt |-> 0, finalized |-> FALSE]

\* _clearAndFinalize: every field is deleted, then finalized is set.
Finalized == [NoChannel EXCEPT !.finalized = TRUE]

\* Solidity's uint128(x), which drops the high bits.
Uint128(x) == IF x <= MaxUint128 THEN x ELSE x % (MaxUint128 + 1)

\* The guard every function but open starts with.
IsOpen(c) == ~c.finalized /\ c.payer # NoAddress

\* Who may sign vouchers of a channel (record or parameters).
ExpectedSigner(c) ==
  IF c.authorizedSigner # NoAddress THEN c.authorizedSigner ELSE c.payer

\* Mutant: the signed digest does not name the channel.
AnyChannelVoucher(id, amount) ==
  \E v \in vouchers : /\ v.signer = ExpectedSigner(channels[id])
                      /\ v.amount = amount

\* _assertValidVoucherSignature: a signature is over one channel id and one
\* amount, so it is good for no other.
ValidVoucher(id, amount) ==
  [signer |-> ExpectedSigner(channels[id]), channelId |-> id,
   amount |-> amount] \in vouchers

\* Mutants: additionalDeposit is cast before it is compared; the deposit the
\* channel already has is forgotten.
CastFits(c, additionalDeposit) ==
  Uint128(additionalDeposit) <= MaxUint128 - c.deposit
AloneFits(c, additionalDeposit) == additionalDeposit <= MaxUint128

\* topUp's overflow check, on the uint256 before it is cast down.
Fits(c, additionalDeposit) == additionalDeposit <= MaxUint128 - c.deposit

\* Mutant: a voucher is paid in full each time.
FullAmount(c, amount) == amount

\* What a cumulative voucher still adds to what was settled before.
Delta(c, amount) == amount - c.settled

\* Mutant: the refund is taken from storage, before the last delta.
StaleRefund(c, delta) == c.deposit - c.settled

\* What goes back to the payer when a channel ends with a last delta.
Refund(c, delta) == c.deposit - (c.settled + delta)

\* ERC-20 transfer and transferFrom.
Moved(b, from, to, amount) ==
  [b EXCEPT ![from] = @ - amount, ![to] = @ + amount]

Transfer(token, from, to, amount) ==
  /\ amount <= balance[token][from]
  /\ balance' = [balance EXCEPT ![token] = Moved(@, from, to, amount)]

-----------------------------------------------------------------------------
Init ==
  /\ channels = [id \in ChannelIds |-> NoChannel]
  /\ balance = [t \in Tokens |->
                  [a \in Holders |-> IF a = Escrow THEN 0 ELSE InitialFunds]]
  /\ vouchers = {}
  /\ deposited = [id \in ChannelIds |-> 0]
  /\ paid = [id \in ChannelIds |-> 0]
  /\ refunded = [id \in ChannelIds |-> 0]
  /\ notice = [id \in ChannelIds |-> 0]
  /\ now = 1

open(sender, id, deposit) ==
  /\ sender = id.payer
  /\ id.payee # NoAddress
  /\ id.token # NoAddress
  /\ deposit # 0
  /\ channels[id].payer = NoAddress
  /\ ~channels[id].finalized
  /\ channels' = [channels EXCEPT ![id] =
       [payer |-> sender, payee |-> id.payee, token |-> id.token,
        authorizedSigner |-> id.authorizedSigner, deposit |-> deposit,
        settled |-> 0, closeRequestedAt |-> 0, finalized |-> FALSE]]
  /\ Transfer(id.token, sender, Escrow, deposit)
  /\ deposited' = [deposited EXCEPT ![id] = @ + deposit]
  /\ UNCHANGED <<vouchers, paid, refunded, notice, now>>

settle(sender, id, amount) ==
  LET c == channels[id]
      delta == Delta(c, amount)
  IN  /\ IsOpen(c)
      /\ sender = c.payee
      /\ amount <= c.deposit
      /\ c.settled < amount
      /\ ValidVoucher(id, amount)
      /\ channels' = [channels EXCEPT ![id].settled = amount]
      /\ Transfer(c.token, Escrow, c.payee, delta)
      /\ paid' = [paid EXCEPT ![id] = @ + delta]
      /\ UNCHANGED <<vouchers, deposited, refunded, notice, now>>

topUp(sender, id, additionalDeposit) ==
  LET c == channels[id]
  IN  /\ IsOpen(c)
      /\ sender = c.payer
      /\ additionalDeposit # 0
      /\ Fits(c, additionalDeposit)
      /\ channels' = [channels EXCEPT ![id].deposit =
                                            @ + Uint128(additionalDeposit),
                                      ![id].closeRequestedAt = 0]
      /\ Transfer(c.token, sender, Escrow, additionalDeposit)
      /\ deposited' = [deposited EXCEPT ![id] = @ + additionalDeposit]
      /\ notice' = [notice EXCEPT ![id] = 0]
      /\ UNCHANGED <<vouchers, paid, refunded, now>>

\* A second request neither restarts nor shortens the grace period.
requestClose(sender, id) ==
  LET c == channels[id]
  IN  /\ IsOpen(c)
      /\ sender = c.payer
      /\ c.closeRequestedAt = 0
      /\ now + CloseGracePeriod <= MaxTime
      /\ channels' = [channels EXCEPT ![id].closeRequestedAt = now]
      /\ notice' = [notice EXCEPT ![id] = now]
      /\ UNCHANGED <<balance, vouchers, totals, now>>

\* amount <= settled is accepted with any signature and pays nothing more.
close(sender, id, amount) ==
  LET c == channels[id]
      delta == IF amount > c.settled THEN Delta(c, amount) ELSE 0
      refund == Refund(c, delta)
  IN  /\ IsOpen(c)
      /\ sender = c.payee
      /\ amount > c.settled => amount <= c.deposit /\ ValidVoucher(id, amount)
      /\ channels' = [channels EXCEPT ![id] = Finalized]
      /\ delta + refund <= balance[c.token][Escrow]
      /\ balance' = [balance EXCEPT ![c.token] =
           Moved(Moved(@, Escrow, c.payee, delta), Escrow, c.payer, refund)]
      /\ paid' = [paid EXCEPT ![id] = @ + delta]
      /\ refunded' = [refunded EXCEPT ![id] = @ + refund]
      /\ UNCHANGED <<vouchers, deposited, notice, now>>

\* Mutant: a channel without a close request counts as requested at time 0.
AlwaysRequested(c) == now >= c.closeRequestedAt + CloseGracePeriod

CloseGracePassed(c) ==
  /\ c.closeRequestedAt # 0
  /\ now >= c.closeRequestedAt + CloseGracePeriod

withdraw(sender, id) ==
  LET c == channels[id]
      refund == Refund(c, 0)
  IN  /\ IsOpen(c)
      /\ sender = c.payer
      /\ CloseGracePassed(c)
      /\ channels' = [channels EXCEPT ![id] = Finalized]
      /\ Transfer(c.token, Escrow, c.payer, refund)
      /\ refunded' = [refunded EXCEPT ![id] = @ + refund]
      /\ UNCHANGED <<vouchers, deposited, paid, notice, now>>

\* Any account may sign any voucher; only the contract judges the signer.
SignVoucher(signer, id, amount) ==
  /\ Cardinality(vouchers) < MaxVouchers
  /\ vouchers' = vouchers \cup
       {[signer |-> signer, channelId |-> id, amount |-> amount]}
  /\ UNCHANGED <<channels, balance, totals, notice, now>>

Tick ==
  /\ now < MaxTime
  /\ now' = now + 1
  /\ UNCHANGED <<channels, balance, vouchers, totals, notice>>

PayerStep(sender, id) ==
  \/ \E amount \in Amounts : open(sender, id, amount)
  \/ \E amount \in Wide : topUp(sender, id, amount)
  \/ requestClose(sender, id)
  \/ withdraw(sender, id)

PayeeStep(sender, id) ==
  \E amount \in Amounts : settle(sender, id, amount) \/ close(sender, id, amount)

SignStep(signer, id) ==
  \E amount \in Amounts : SignVoucher(signer, id, amount)

Next ==
  \/ \E sender \in Accounts, id \in ChannelIds :
       PayerStep(sender, id) \/ PayeeStep(sender, id) \/ SignStep(sender, id)
  \/ Tick

Spec == Init /\ [][Next]_vars

\* A payer that wants its deposit back keeps sending withdraw, and blocks
\* keep being produced.  Nothing else is promised to happen.
PayerIsFair ==
  /\ WF_vars(Tick)
  /\ \A id \in ChannelIds : WF_vars(withdraw(id.payer, id))

-----------------------------------------------------------------------------
Channel ==
  [payer: Accounts \cup {NoAddress}, payee: Accounts \cup {NoAddress},
   token: Tokens \cup {NoAddress}, authorizedSigner: Accounts \cup {NoAddress},
   deposit: Amounts, settled: Amounts, closeRequestedAt: Nat,
   finalized: BOOLEAN]

\* Every variable keeps its type; no amount leaves uint128 and no token
\* balance becomes negative.
TypeOK ==
  /\ channels \in [ChannelIds -> Channel]
  /\ balance \in [Tokens -> [Holders -> Nat]]
  /\ vouchers \subseteq Vouchers
  /\ deposited \in [ChannelIds -> Nat]
  /\ paid \in [ChannelIds -> Nat]
  /\ refunded \in [ChannelIds -> Nat]
  /\ notice \in [ChannelIds -> Nat]
  /\ now \in Nat

Locked(id) == channels[id].deposit - channels[id].settled

\* What a channel still owes of a token, and all channels together.
Owes(t, id) == IF channels[id].token = t THEN Locked(id) ELSE 0
Owed(t) == SumFunction([id \in ChannelIds |-> Owes(t, id)])

\* The escrow holds, of every token, exactly what its channels still owe:
\* no function moves another amount than the one it books, so a payout of
\* one channel can never be made with the deposit of another.
Solvency == \A t \in Tokens : balance[t][Escrow] = Owed(t)

\* What a payee has received from a channel, over all its settles and the
\* close, is the amount of one voucher that the channel's signer signed for
\* this very channel: never a sum of vouchers, never one of another channel.
PaidIsSigned ==
  \A id \in ChannelIds :
    paid[id] = 0
      \/ [signer |-> ExpectedSigner(id), channelId |-> id,
          amount |-> paid[id]] \in vouchers

\* Every unit deposited in a channel is either still locked in it, or was
\* paid to the payee, or went back to the payer; also after the record is
\* deleted, when nothing is locked any more.
FundsAccounted ==
  \A id \in ChannelIds :
    /\ deposited[id] = paid[id] + refunded[id] + Locked(id)
    /\ Locked(id) >= 0

HasEnded(id) == deposited[id] # 0 /\ ~IsOpen(channels[id])

NothingMoves(id) ==
  /\ deposited'[id] = deposited[id]
  /\ paid'[id] = paid[id]
  /\ refunded'[id] = refunded[id]

EndedStep == \A id \in ChannelIds : HasEnded(id) => HasEnded(id)' /\ NothingMoves(id)

\* A channel that was open and has ended moves no more tokens and its id is
\* never reused, so old vouchers of the id cannot be collected from a
\* reopened channel.
EndedForever == [][EndedStep]_vars

\* A payer that has announced its exit and has not cancelled it by a topUp
\* gets its channel finalized, whatever the payee does or fails to do.
PayerGetsOut ==
  \A id \in ChannelIds :
    notice[id] # 0 ~> channels[id].finalized \/ notice[id] = 0

-----------------------------------------------------------------------------
\* The payee's side of the grace period.  A diligent payee reads the close
\* events and acts on what they say, never on the contract's storage: it has
\* collected its best voucher when an announced grace period ends, takes no
\* voucher after that, and closes with its best voucher.
Collectable(id) ==
  {amount \in Amounts : /\ IsOpen(channels[id])
                        /\ channels[id].settled < amount
                        /\ amount <= channels[id].deposit
                        /\ ValidVoucher(id, amount)}

NoticeEnded(id) == notice[id] # 0 /\ now >= notice[id] + CloseGracePeriod

DiligentPayeeStep(sender, id) ==
  \E amount \in Amounts :
    \/ settle(sender, id, amount)
    \/ /\ close(sender, id, amount)
       /\ \A better \in Collectable(id) : better <= amount

DiligentNext ==
  /\ \/ \E sender \in Accounts, id \in ChannelIds :
          \/ PayerStep(sender, id)
          \/ DiligentPayeeStep(sender, id)
          \/ SignStep(sender, id)
     \/ Tick
  /\ \A id \in ChannelIds : NoticeEnded(id)' => Collectable(id)' = {}

-----------------------------------------------------------------------------
\* The ideal channel seen through the contract's storage and events.
Stage(id) ==
  CASE channels[id].finalized -> "closed"
    [] IsOpen(channels[id]) -> "open"
    [] OTHER -> "none"

Authorised(id) ==
  {amount \in Amounts : [signer |-> ExpectedSigner(id), channelId |-> id,
                         amount |-> amount] \in vouchers}

Ideal == INSTANCE IdealChannel WITH
  Ids <- ChannelIds,
  Capacity <- MaxUint128,
  stage <- [id \in ChannelIds |-> Stage(id)],
  escrowed <- deposited,
  earned <- paid,
  returned <- refunded,
  authorised <- [id \in ChannelIds |-> Authorised(id)]

\* The contract implements the ideal channel: each function is one ideal step
\* or changes nothing the ideal channel shows.
ImplementsIdeal == Ideal!Spec
=============================================================================
