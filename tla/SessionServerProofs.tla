------------------------ MODULE SessionServerProofs ------------------------
(***************************************************************************)
(* What the session server may rely on, for any number of channels and of  *)
(* concurrent requests, whatever the client sends and does on the chain;   *)
(* and of its channel store: the promise map excludes, and with it every   *)
(* update is atomic.                                                       *)
(***************************************************************************)
EXTENDS MCSessionServer, MCChannelStore, TLAPS

-----------------------------------------------------------------------------
(* The contract, as far as the server depends on it                        *)

\* What the record of a channel says is what its payer has paid in.
OnChainInv(id) ==
  LET c == channels[id]
  IN  \/ c = Chain!NoChannel /\ deposited[id] = 0 /\ paid[id] = 0
      \/ /\ Chain!IsOpen(c)
         /\ c.payer = id.payer /\ c.payee = id.payee
         /\ c.authorizedSigner = id.authorizedSigner
         /\ c.deposit = deposited[id] /\ c.settled = paid[id]
      \/ c = Chain!Finalized

ChainInv ==
  /\ channels \in [ChannelIds -> Chain!Channel]
  /\ deposited \in [ChannelIds -> Nat]
  /\ paid \in [ChannelIds -> Nat]
  /\ now \in Nat
  /\ \A id \in ChannelIds : OnChainInv(id)

\* What is paid in or out, signed or finalized stays so.
ChainGrows ==
  /\ vouchers \subseteq vouchers'
  /\ \A id \in ChannelIds :
       /\ deposited[id] <= deposited'[id]
       /\ paid[id] <= paid'[id]
       /\ channels[id].finalized => channels'[id].finalized

\* A call of the contract for channel id: the record becomes c.
Changes(id, c, paidIn, paidOut) ==
  /\ channels' = [channels EXCEPT ![id] = c]
  /\ deposited' = [deposited EXCEPT ![id] = @ + paidIn]
  /\ paid' = [paid EXCEPT ![id] = @ + paidOut]
  /\ vouchers' = vouchers /\ now' = now

LEMMA IdTyped ==
  ASSUME NEW id \in ChannelIds
  PROVE  /\ id.payer \in Accounts /\ id.payer # NoAddress
         /\ id.payee \in Accounts \cup {NoAddress}
         /\ id.token \in Tokens \cup {NoAddress}
         /\ id.authorizedSigner \in Accounts \cup {NoAddress}
  BY ServerAssumption DEF Chain!ChannelParams

LEMMA AmountsNat ==
  /\ Amounts = 0 .. MaxUint128 /\ Chain!Amounts = 0 .. MaxUint128
  /\ 0 \in Amounts /\ MaxUint128 \in Nat
  BY ServerAssumption DEF Amounts, Chain!Amounts

LEMMA OpenChannel ==
  ASSUME ChainInv, NEW id \in ChannelIds, Chain!IsOpen(channels[id])
  PROVE  /\ channels[id] \in Chain!Channel
         /\ channels[id].payer = id.payer /\ channels[id].payee = id.payee
         /\ channels[id].authorizedSigner = id.authorizedSigner
         /\ channels[id].deposit = deposited[id] /\ channels[id].settled = paid[id]
         /\ channels[id].deposit \in 0 .. MaxUint128 /\ channels[id].settled \in 0 .. MaxUint128
         /\ channels[id].deposit \in Nat /\ channels[id].settled \in Nat
         /\ deposited[id] \in Nat /\ paid[id] \in Nat
         /\ ~channels[id].finalized /\ channels[id].payer # NoAddress
<1>1. channels[id] \in Chain!Channel /\ OnChainInv(id)
  BY DEF ChainInv
<1>2. channels[id] # Chain!NoChannel /\ channels[id] # Chain!Finalized
  BY DEF Chain!IsOpen, Chain!NoChannel, Chain!Finalized
<1>3. channels[id].deposit \in 0 .. MaxUint128 /\ channels[id].settled \in 0 .. MaxUint128
  BY <1>1 DEF Chain!Channel, Chain!Amounts
<1> QED
  BY <1>1, <1>2, <1>3, AmountsNat DEF OnChainInv, Chain!IsOpen, ChainInv

LEMMA ChangesInv ==
  ASSUME ChainInv, NEW id \in ChannelIds, NEW c \in Chain!Channel,
         NEW paidIn \in Nat, NEW paidOut \in Nat, Changes(id, c, paidIn, paidOut),
         channels[id].finalized => c.finalized,
         \/ c = Chain!Finalized
         \/ /\ Chain!IsOpen(c)
            /\ c.payer = id.payer /\ c.payee = id.payee
            /\ c.authorizedSigner = id.authorizedSigner
            /\ c.deposit = deposited[id] + paidIn /\ c.settled = paid[id] + paidOut
  PROVE  ChainInv' /\ ChainGrows
<1>1. /\ deposited[id] + paidIn \in Nat /\ paid[id] + paidOut \in Nat
      /\ deposited[id] \in Nat /\ paid[id] \in Nat
  BY DEF ChainInv
<1>2. /\ channels' \in [ChannelIds -> Chain!Channel]
      /\ deposited' \in [ChannelIds -> Nat] /\ paid' \in [ChannelIds -> Nat]
      /\ vouchers' = vouchers /\ now' \in Nat
  BY <1>1 DEF ChainInv, Changes
<1>3. /\ channels'[id] = c /\ deposited'[id] = deposited[id] + paidIn
      /\ paid'[id] = paid[id] + paidOut
  BY DEF ChainInv, Changes
<1>4. \A j \in ChannelIds : j # id =>
        /\ channels'[j] = channels[j] /\ deposited'[j] = deposited[j] /\ paid'[j] = paid[j]
  BY DEF ChainInv, Changes
<1>5. OnChainInv(id)'
  BY <1>3 DEF OnChainInv
<1>6. ASSUME NEW j \in ChannelIds, j # id PROVE OnChainInv(j)'
  BY <1>4, <1>6 DEF ChainInv, OnChainInv
<1>7. ChainInv'
  BY <1>2, <1>5, <1>6 DEF ChainInv
<1>8. \A j \in ChannelIds : deposited[j] \in Nat /\ paid[j] \in Nat
  BY DEF ChainInv
<1>9. ChainGrows
  BY <1>1, <1>2, <1>3, <1>4, <1>8 DEF ChainGrows
<1> QED
  BY <1>7, <1>9

LEMMA FinalizedTyped == Chain!Finalized \in Chain!Channel /\ Chain!Finalized.finalized
  BY AmountsNat DEF Chain!Finalized, Chain!NoChannel, Chain!Channel

LEMMA OpenOnChain ==
  ASSUME ChainInv, NEW id \in ChannelIds, NEW deposit \in Chain!Amounts,
         Chain!open(id.payer, id, deposit)
  PROVE  ChainInv' /\ ChainGrows
<1> DEFINE c == [payer |-> id.payer, payee |-> id.payee, token |-> id.token,
                 authorizedSigner |-> id.authorizedSigner, deposit |-> deposit,
                 settled |-> 0, closeRequestedAt |-> 0, finalized |-> FALSE]
<1>1. /\ channels' = [channels EXCEPT ![id] = c]
      /\ deposited' = [deposited EXCEPT ![id] = @ + deposit]
      /\ paid' = paid /\ vouchers' = vouchers /\ now' = now
      /\ channels[id].payer = NoAddress /\ ~channels[id].finalized
  BY DEF Chain!open
<1>2. deposited[id] = 0 /\ paid[id] = 0
  BY <1>1, FinalizedTyped DEF ChainInv, OnChainInv, Chain!IsOpen
<1>3. deposit \in Nat /\ 0 \in Nat
  BY AmountsNat
<1>4. c \in Chain!Channel
  BY AmountsNat, IdTyped DEF Chain!Channel
<1>5. Changes(id, c, deposit, 0)
  BY <1>1 DEF Changes, ChainInv
<1>6. Chain!IsOpen(c) /\ c.payer = id.payer /\ c.payee = id.payee
      /\ c.authorizedSigner = id.authorizedSigner /\ c.deposit = deposit /\ c.settled = 0
  BY IdTyped DEF Chain!IsOpen
<1> HIDE DEF c
<1> QED
  BY <1>1, <1>2, <1>3, <1>4, <1>5, <1>6, ChangesInv

LEMMA TopUpOnChain ==
  ASSUME ChainInv, NEW id \in ChannelIds, NEW amount \in Chain!Wide,
         Chain!topUp(id.payer, id, amount)
  PROVE  ChainInv' /\ ChainGrows
<1> DEFINE old == channels[id]
           c == [old EXCEPT !.deposit = @ + amount, !.closeRequestedAt = 0]
<1>1. Chain!IsOpen(old) /\ Chain!Fits(old, amount)
  BY DEF Chain!topUp
<1>2. amount \in Nat /\ Chain!Uint128(amount) = amount /\ old.deposit + amount \in 0 .. MaxUint128
  BY <1>1, OpenChannel, ServerAssumption DEF Chain!Wide, Chain!Fits, Chain!Uint128
<1>3. /\ channels' = [channels EXCEPT ![id] = c]
      /\ deposited' = [deposited EXCEPT ![id] = @ + amount]
      /\ paid' = paid /\ vouchers' = vouchers /\ now' = now
  BY <1>2 DEF Chain!topUp
<1>4. /\ c \in Chain!Channel /\ Chain!IsOpen(c) /\ c.payer = id.payer /\ c.payee = id.payee
      /\ c.authorizedSigner = id.authorizedSigner
      /\ c.deposit = deposited[id] + amount /\ c.settled = paid[id] + 0
  <2>1. old \in Chain!Channel
    BY <1>1, OpenChannel
  <2>2. /\ c \in Chain!Channel /\ c.payer = old.payer /\ c.payee = old.payee
        /\ c.authorizedSigner = old.authorizedSigner /\ c.finalized = old.finalized
        /\ c.deposit = old.deposit + amount /\ c.settled = old.settled
    BY <1>1, <1>2, <2>1, AmountsNat DEF Chain!Channel
  <2> HIDE DEF c
  <2> QED
    BY <1>1, <2>2, OpenChannel DEF Chain!IsOpen
<1>5. Changes(id, c, amount, 0)
  BY <1>3 DEF Changes, ChainInv
<1> HIDE DEF c
<1> QED
  BY <1>1, <1>2, <1>4, <1>5, OpenChannel, ChangesInv

LEMMA RequestCloseOnChain ==
  ASSUME ChainInv, NEW id \in ChannelIds, Chain!requestClose(id.payer, id)
  PROVE  ChainInv' /\ ChainGrows
<1> DEFINE old == channels[id]
           c == [old EXCEPT !.closeRequestedAt = now]
<1>1. /\ Chain!IsOpen(old)
      /\ channels' = [channels EXCEPT ![id] = c]
      /\ deposited' = deposited /\ paid' = paid /\ vouchers' = vouchers /\ now' = now
  BY DEF Chain!requestClose, Chain!totals
<1>2. /\ c \in Chain!Channel /\ Chain!IsOpen(c) /\ c.payer = id.payer /\ c.payee = id.payee
      /\ c.authorizedSigner = id.authorizedSigner
      /\ c.deposit = deposited[id] + 0 /\ c.settled = paid[id] + 0
  <2>1. old \in Chain!Channel /\ now \in Nat
    BY <1>1, OpenChannel DEF ChainInv
  <2>2. /\ c \in Chain!Channel /\ c.payer = old.payer /\ c.payee = old.payee
        /\ c.authorizedSigner = old.authorizedSigner /\ c.finalized = old.finalized
        /\ c.deposit = old.deposit /\ c.settled = old.settled
    BY <1>1, <2>1, AmountsNat DEF Chain!Channel
  <2> HIDE DEF c
  <2> QED
    BY <1>1, <2>2, OpenChannel DEF Chain!IsOpen
<1>3. Changes(id, c, 0, 0)
  BY <1>1 DEF Changes, ChainInv
<1> HIDE DEF c
<1> QED
  BY <1>1, <1>2, <1>3, OpenChannel, ChangesInv

LEMMA WithdrawOnChain ==
  ASSUME ChainInv, NEW id \in ChannelIds, Chain!withdraw(id.payer, id)
  PROVE  ChainInv' /\ ChainGrows
<1>1. Changes(id, Chain!Finalized, 0, 0)
  BY DEF Chain!withdraw, Changes, ChainInv
<1> QED
  BY <1>1, FinalizedTyped, ChangesInv

LEMMA SettleOnChain ==
  ASSUME ChainInv, NEW id \in ChannelIds, NEW amount \in Chain!Amounts,
         Chain!settle(Recipient, id, amount)
  PROVE  ChainInv' /\ ChainGrows
<1> DEFINE old == channels[id]
           c == [old EXCEPT !.settled = amount]
           delta == amount - old.settled
<1>1. /\ Chain!IsOpen(old) /\ old.settled < amount
      /\ channels' = [channels EXCEPT ![id] = c]
      /\ paid' = [paid EXCEPT ![id] = @ + delta]
      /\ deposited' = deposited /\ vouchers' = vouchers /\ now' = now
  BY DEF Chain!settle, Chain!Delta
<1>2. delta \in Nat /\ amount = paid[id] + delta
  BY <1>1, OpenChannel, AmountsNat
<1>3. /\ c \in Chain!Channel /\ Chain!IsOpen(c) /\ c.payer = id.payer /\ c.payee = id.payee
      /\ c.authorizedSigner = id.authorizedSigner
      /\ c.deposit = deposited[id] + 0 /\ c.settled = amount
  <2>1. old \in Chain!Channel
    BY <1>1, OpenChannel
  <2>2. /\ c \in Chain!Channel /\ c.payer = old.payer /\ c.payee = old.payee
        /\ c.authorizedSigner = old.authorizedSigner /\ c.finalized = old.finalized
        /\ c.deposit = old.deposit /\ c.settled = amount
    BY <1>1, <1>2, <2>1, AmountsNat DEF Chain!Channel
  <2> HIDE DEF c
  <2> QED
    BY <1>1, <2>2, OpenChannel DEF Chain!IsOpen
<1>4. Changes(id, c, 0, delta)
  BY <1>1 DEF Changes, ChainInv
<1> HIDE DEF c, delta
<1> QED
  BY <1>1, <1>2, <1>3, <1>4, OpenChannel, ChangesInv

\* After a close that the contract accepts, the voucher has been paid.
LEMMA CloseOnChain ==
  ASSUME ChainInv, NEW id \in ChannelIds, NEW amount \in Chain!Amounts,
         Chain!close(Recipient, id, amount)
  PROVE  ChainInv' /\ ChainGrows /\ channels'[id].finalized /\ amount <= paid'[id]
<1> DEFINE old == channels[id]
           delta == IF amount > old.settled THEN amount - old.settled ELSE 0
<1>1. /\ Chain!IsOpen(old)
      /\ channels' = [channels EXCEPT ![id] = Chain!Finalized]
      /\ paid' = [paid EXCEPT ![id] = @ + delta]
      /\ deposited' = deposited /\ vouchers' = vouchers /\ now' = now
  BY DEF Chain!close, Chain!Delta
<1>2. delta \in Nat /\ amount <= paid[id] + delta
  BY <1>1, OpenChannel, AmountsNat
<1>3. Changes(id, Chain!Finalized, 0, delta)
  BY <1>1 DEF Changes, ChainInv
<1>4. channels'[id] = Chain!Finalized /\ paid'[id] = paid[id] + delta
  BY <1>1 DEF ChainInv
<1> HIDE DEF delta
<1> QED
  BY <1>2, <1>3, <1>4, FinalizedTyped, ChangesInv

LEMMA OthersOnChain ==
  ASSUME ChainInv, channels' = channels, deposited' = deposited, paid' = paid,
         now' \in Nat, vouchers \subseteq vouchers'
  PROVE  ChainInv' /\ ChainGrows
<1>1. ChainInv'
  BY DEF ChainInv, OnChainInv
<1>2. ChainGrows
  BY DEF ChainInv, ChainGrows
<1> QED
  BY <1>1, <1>2

LEMMA WorldOnChain ==
  ASSUME ChainInv, store \in [ChannelIds -> ChannelState], World
  PROVE  ChainInv' /\ ChainGrows
<1>1. ASSUME NEW id \in ChannelIds, Chain!PayerStep(id.payer, id)
      PROVE  ChainInv' /\ ChainGrows
  BY <1>1, OpenOnChain, TopUpOnChain, RequestCloseOnChain, WithdrawOnChain DEF Chain!PayerStep
<1>2. ASSUME NEW id \in ChannelIds, Chain!SignStep(Chain!ExpectedSigner(id), id)
      PROVE  ChainInv' /\ ChainGrows
  <2>1. /\ channels' = channels /\ deposited' = deposited /\ paid' = paid /\ now' = now
        /\ vouchers \subseteq vouchers'
    BY <1>2 DEF Chain!SignStep, Chain!SignVoucher, Chain!totals
  <2> QED
    BY <2>1, OthersOnChain DEF ChainInv
<1>3. ASSUME NEW id \in ChannelIds, Chain!settle(Recipient, id, store[id].highestVoucherAmount)
      PROVE  ChainInv' /\ ChainGrows
  <2>1. store[id].highestVoucherAmount \in Chain!Amounts
    BY AmountsNat DEF ChannelState
  <2> QED
    BY <1>3, <2>1, SettleOnChain
<1>4. CASE Chain!Tick
  <2>1. /\ channels' = channels /\ deposited' = deposited /\ paid' = paid /\ now' \in Nat
        /\ vouchers \subseteq vouchers'
    BY <1>4 DEF Chain!Tick, Chain!totals, ChainInv
  <2> QED
    BY <2>1, OthersOnChain
<1> QED
  BY <1>1, <1>2, <1>3, <1>4 DEF World

LEMMA ChainStays ==
  ASSUME ChainInv, UNCHANGED chain
  PROVE  ChainInv' /\ ChainGrows
<1>1. /\ channels' = channels /\ deposited' = deposited /\ paid' = paid /\ now' = now
      /\ vouchers' = vouchers
  BY DEF chain
<1> QED
  BY <1>1, OthersOnChain DEF ChainInv

-----------------------------------------------------------------------------
(* The inductive invariant of the server                                   *)

\* A voucher over what has been paid in.
Backed(id, amount) ==
  /\ amount <= deposited[id]
  /\ [signer |-> Chain!ExpectedSigner(id), channelId |-> id, amount |-> amount] \in vouchers

\* What a record holds was true of the chain once, and paying in, signing and
\* finalizing are for good.
RecordHolds(id) ==
  LET state == store[id]
  IN  /\ state \in ChannelState
      /\ state.exists \/ state = NoState
      /\ state.exists =>
           /\ id.payee = Recipient
           /\ state.deposit <= deposited[id]
           /\ Backed(id, state.highestVoucherAmount)
      /\ state.finalized => channels[id].finalized

Payload ==
  [at: {"start", "mined", "write", "send"}, action: Actions, channelId: ChannelIds,
   cumulative: Amounts, deposit: Amounts, settled: Amounts]

\* So is what a call has read and checked, until it writes it.
Holds(c) ==
  LET id == c.channelId
  IN  \/ c \in {Waiting, Ended}
      \/ /\ c \in Payload
         /\ c.at = "write" /\ c.action \in {"open", "topUp"} => c.deposit <= deposited[id]
         /\ c.at = "write" /\ c.action = "open" => id.payee = Recipient
         /\ c.at \in {"write", "send"} /\ c.action \in {"open", "voucher", "close"} =>
              Backed(id, c.cumulative)
         /\ c.at = "write" /\ c.action = "close" => channels[id].finalized

IInv ==
  /\ ChainInv
  /\ store \in [ChannelIds -> ChannelState]
  /\ \A id \in ChannelIds : RecordHolds(id)
  /\ req = [r \in Requests |-> req[r]]
  /\ \A r \in Requests : Holds(req[r])

LEMMA BackedStays ==
  ASSUME ChainInv, ChainInv', ChainGrows, NEW id \in ChannelIds, NEW amount \in Amounts,
         Backed(id, amount)
  PROVE  Backed(id, amount)'
<1>1. deposited[id] \in Nat /\ deposited'[id] \in Nat /\ amount \in Nat
  BY AmountsNat DEF ChainInv
<1> QED
  BY <1>1 DEF Backed, ChainGrows, Chain!ExpectedSigner

LEMMA RecordStays ==
  ASSUME ChainInv, ChainInv', ChainGrows, NEW id \in ChannelIds, RecordHolds(id),
         store'[id] = store[id]
  PROVE  RecordHolds(id)'
<1>1. store[id].exists => store[id].deposit <= deposited'[id]
  BY AmountsNat DEF RecordHolds, ChannelState, ChainInv, ChainGrows
<1>2. store[id].exists => Backed(id, store[id].highestVoucherAmount)'
  <2>1. store[id].highestVoucherAmount \in Amounts
    BY DEF RecordHolds, ChannelState
  <2>2. \A amount \in Amounts : Backed(id, amount) => Backed(id, amount)'
    BY BackedStays
  <2> QED
    BY <2>1, <2>2 DEF RecordHolds, Backed
<1> QED
  BY <1>1, <1>2 DEF RecordHolds, ChainGrows, NoState

LEMMA CallStays ==
  ASSUME ChainInv, ChainInv', ChainGrows, NEW r \in Requests, Holds(req[r]),
         req'[r] = req[r]
  PROVE  Holds(req[r])'
<1> DEFINE c == req[r]
<1>1. CASE c \in {Waiting, Ended}
  BY <1>1 DEF Holds
<1>2. CASE c \in Payload
  <2>1. c.channelId \in ChannelIds /\ c.cumulative \in Amounts /\ c.deposit \in Amounts
    BY <1>2 DEF Payload
  <2>2. c.deposit <= deposited[c.channelId] => c.deposit <= deposited'[c.channelId]
    BY <2>1, AmountsNat DEF ChainInv, ChainGrows
  <2>3. Backed(c.channelId, c.cumulative) => Backed(c.channelId, c.cumulative)'
    <3>1. \A id \in ChannelIds, amount \in Amounts : Backed(id, amount) => Backed(id, amount)'
      BY BackedStays
    <3> QED
      BY <2>1, <3>1 DEF Backed
  <2> QED
    BY <1>2, <2>1, <2>2, <2>3 DEF Holds, ChainGrows, Backed
<1> QED
  BY <1>1, <1>2 DEF Holds

LEMMA InitIInv == Init => IInv
<1> SUFFICES ASSUME Init PROVE IInv
  OBVIOUS
<1>1. ChainInv
  BY AmountsNat DEF Init, Chain!Init, ChainInv, OnChainInv, Chain!NoChannel, Chain!Channel
<1>2. NoState \in ChannelState
  BY AmountsNat DEF NoState, ChannelState
<1>3. \A r \in Requests : req[r] = Waiting
  BY DEF Init
<1> QED
  BY <1>1, <1>2, <1>3 DEF Init, IInv, RecordHolds, Holds, NoState

-----------------------------------------------------------------------------
(* The steps                                                               *)

LEMMA CallMoves ==
  ASSUME IInv, ChainInv', ChainGrows, store' = store, NEW r \in Requests, NEW c,
         req' = [req EXCEPT ![r] = c], Holds(c)'
  PROVE  IInv'
<1>1. \A id \in ChannelIds : RecordHolds(id)'
  BY RecordStays DEF IInv
<1>2. req'[r] = c /\ \A q \in Requests : q # r => req'[q] = req[q]
  BY DEF IInv
<1>3. \A q \in Requests : Holds(req[q])'
  <2>1. \A q \in Requests : q # r => Holds(req[q])'
    BY <1>2, CallStays DEF IInv
  <2>2. Holds(req[r])'
    BY <1>2 DEF Holds, Backed
  <2> QED
    BY <2>1, <2>2
<1> QED
  BY <1>1, <1>3 DEF IInv

LEMMA CallEnds ==
  ASSUME IInv, ChainInv', ChainGrows, store' = store, NEW r \in Requests, End(r)
  PROVE  IInv'
<1>1. Holds(Ended)'
  BY DEF Holds
<1> QED
  BY <1>1, CallMoves DEF End

\* A record is replaced, and the call that has done it ends.
LEMMA CallWrites ==
  ASSUME IInv, UNCHANGED chain, NEW r \in Requests, End(r),
         NEW id \in ChannelIds, NEW state \in ChannelState,
         store' = [store EXCEPT ![id] = state],
         state.exists, id.payee = Recipient, state.deposit <= deposited[id],
         Backed(id, state.highestVoucherAmount),
         state.finalized => channels[id].finalized
  PROVE  IInv'
<1>1. ChainInv /\ ChainInv' /\ ChainGrows
  BY ChainStays DEF IInv
<1>2. store' \in [ChannelIds -> ChannelState] /\ store'[id] = state
      /\ \A j \in ChannelIds : j # id => store'[j] = store[j]
  BY DEF IInv
<1>3. RecordHolds(id)'
  BY <1>2 DEF RecordHolds, chain, Backed
<1>4. \A j \in ChannelIds : RecordHolds(j)'
  BY <1>1, <1>2, <1>3, RecordStays DEF IInv
<1>5. req'[r] = Ended /\ \A q \in Requests : q # r => req'[q] = req[q]
  BY DEF IInv, End
<1>6. Holds(req[r])'
  BY <1>5 DEF Holds
<1>7. \A q \in Requests : Holds(req[q])'
  BY <1>1, <1>5, <1>6, CallStays DEF IInv
<1>8. req' = [q \in Requests |-> req'[q]]
  BY DEF IInv, End
<1> QED
  BY <1>1, <1>2, <1>4, <1>7, <1>8 DEF IInv

\* The record is replaced unless it is gone.
LEMMA CallRevises ==
  ASSUME IInv, UNCHANGED chain, NEW r \in Requests, End(r),
         NEW id \in ChannelIds, NEW state, Revise(id, state),
         store[id].exists =>
           /\ state \in ChannelState /\ state.exists /\ state.deposit <= deposited[id]
           /\ Backed(id, state.highestVoucherAmount)
           /\ state.finalized => channels[id].finalized
  PROVE  IInv'
<1>1. CASE store[id].exists
  <2>1. store' = [store EXCEPT ![id] = state] /\ id.payee = Recipient
    BY <1>1 DEF Revise, IInv, RecordHolds
  <2> QED
    BY <1>1, <2>1, CallWrites
<1>2. CASE ~store[id].exists
  <2>1. store' = store
    BY <1>2 DEF Revise, IInv, RecordHolds
  <2>2. ChainInv' /\ ChainGrows
    BY ChainStays DEF IInv
  <2> QED
    BY <2>1, <2>2, CallEnds
<1> QED
  BY <1>1, <1>2

LEMMA ReceiveStep ==
  ASSUME IInv, NEW r \in Requests, NEW c \in Credential, Receive(r, c)
  PROVE  IInv'
<1>1. ChainInv' /\ ChainGrows /\ store' = store
  BY ChainStays DEF Receive, IInv
<1>2. PICK k : k = Call("start", c, 0, 0) /\ req' = [req EXCEPT ![r] = k]
  BY DEF Receive
<1>3. k \in Payload /\ k.at = "start"
  BY <1>2, AmountsNat DEF Call, Credential, Payload
<1>4. Holds(k)'
  BY <1>3 DEF Holds
<1> QED
  BY <1>1, <1>2, <1>4, CallMoves

\* The call that a check lets go on holds what was checked.
LEMMA CheckStep ==
  ASSUME IInv, ChainInv', ChainGrows, store' = store, NEW r \in Requests,
         NEW ok, NEW c, Check(r, ok, c), ok => Holds(c)'
  PROVE  IInv'
<1>1. CASE ok
  BY <1>1, CallMoves DEF Check
<1>2. CASE ~ok
  BY <1>2, CallEnds DEF Check, End
<1> QED
  BY <1>1, <1>2

\* What a call that is under way carries.
LEMMA Carries ==
  ASSUME IInv, NEW r \in Requests, req[r].at \notin {"idle", "ended"}
  PROVE  /\ req[r] \in Payload
         /\ req[r].channelId \in ChannelIds /\ req[r].cumulative \in Amounts
         /\ req[r].deposit \in Amounts /\ req[r].settled \in Amounts
  BY DEF IInv, Holds, Payload, Waiting, Ended, Call

LEMMA SignedIsBacked ==
  ASSUME NEW c \in Payload, Signed(c), c.cumulative <= deposited[c.channelId]
  PROVE  Backed(c.channelId, c.cumulative)
  BY DEF Signed, Backed

\* What the chain says of a deposit has been paid in.
LEMMA OnChainDeposit ==
  ASSUME ChainInv, NEW id \in ChannelIds
  PROVE  /\ channels[id].deposit <= deposited[id]
         /\ channels[id].deposit \in Amounts /\ channels[id].settled \in Amounts
<1>1. /\ channels[id] \in Chain!Channel /\ OnChainInv(id) /\ deposited[id] \in Nat
      /\ Amounts = Chain!Amounts
  BY DEF ChainInv, Amounts
<1>2. channels[id].deposit \in Amounts /\ channels[id].settled \in Amounts
  BY <1>1 DEF Chain!Channel
<1> QED
  BY <1>1, <1>2, AmountsNat DEF OnChainInv, Chain!NoChannel, Chain!Finalized

LEMMA OpenReadStep ==
  ASSUME IInv, NEW r \in Requests, OpenRead(r)
  PROVE  IInv'
<1> DEFINE c == req[r]
           onChain == channels[c.channelId]
<1>1. c \in Payload /\ c.channelId \in ChannelIds /\ c.cumulative \in Amounts /\ c.action = "open"
  BY Carries DEF OpenRead, At
<1>2. ChainInv /\ ChainInv' /\ ChainGrows /\ store' = store /\ UNCHANGED chain
  BY ChainStays DEF OpenRead, IInv
<1>3. PICK mined \in BOOLEAN :
        Check(r, mined /\ OpenChecks(c), Call("write", c, onChain.deposit, onChain.settled))
  BY DEF OpenRead
<1>4. PICK k : k = Call("write", c, onChain.deposit, onChain.settled)
  OBVIOUS
<1>5. onChain.deposit \in Amounts /\ onChain.settled \in Amounts
      /\ onChain.deposit <= deposited[c.channelId] /\ deposited[c.channelId] \in Nat
  BY <1>1, <1>2, OnChainDeposit DEF ChainInv
<1>6. /\ k \in Payload /\ k.at = "write" /\ k.action = "open" /\ k.channelId = c.channelId
      /\ k.cumulative = c.cumulative /\ k.deposit = onChain.deposit
  BY <1>1, <1>4, <1>5 DEF Call, Payload
<1>7. ASSUME OpenChecks(c) PROVE Holds(k)'
  <2>1. onChain.payee = Recipient /\ c.cumulative <= onChain.deposit /\ Signed(c)
        /\ onChain.deposit # 0
    BY <1>7 DEF OpenChecks
  <2>2. c.channelId.payee = Recipient
    BY <1>1, <1>2, <2>1 DEF ChainInv, OnChainInv, Chain!NoChannel, Chain!Finalized
  <2>3. Backed(c.channelId, c.cumulative)
    BY <1>1, <1>5, <2>1, SignedIsBacked, AmountsNat
  <2> QED
    BY <1>2, <1>5, <1>6, <2>2, <2>3 DEF Holds, Backed, chain
<1> QED
  BY <1>2, <1>3, <1>4, <1>7, CheckStep

LEMMA OpenWriteStep ==
  ASSUME IInv, NEW r \in Requests, OpenWrite(r)
  PROVE  IInv'
<1> DEFINE c == req[r]
           state == [exists |-> TRUE, deposit |-> c.deposit, settledOnChain |-> c.settled,
                     highestVoucherAmount |-> c.cumulative, spent |-> Price, units |-> 1,
                     finalized |-> FALSE]
<1>1. c.at = "write" /\ c.action = "open" /\ Holds(c)
  BY DEF OpenWrite, At, IInv
<1>2. /\ c.channelId \in ChannelIds /\ c.cumulative \in Amounts /\ c.deposit \in Amounts
      /\ c.settled \in Amounts
  BY <1>1, Carries
<1>3. /\ c.channelId.payee = Recipient /\ c.deposit <= deposited[c.channelId]
      /\ Backed(c.channelId, c.cumulative)
  BY <1>1 DEF Holds, Waiting, Ended, Call
<1>4. state \in ChannelState
  BY <1>2, ServerAssumption DEF ChannelState
<1>5. store' = [store EXCEPT ![c.channelId] = state] /\ End(r) /\ UNCHANGED chain
  BY DEF OpenWrite
<1> QED
  BY <1>2, <1>3, <1>4, <1>5, CallWrites

LEMMA TopUpSteps ==
  ASSUME IInv, NEW r \in Requests, TopUpRead(r) \/ TopUpChain(r) \/ TopUpWrite(r)
  PROVE  IInv'
<1> DEFINE c == req[r]
           id == c.channelId
<1>1. /\ c \in Payload /\ id \in ChannelIds /\ c.cumulative \in Amounts
      /\ c.action = "topUp"
  BY Carries DEF TopUpRead, TopUpChain, TopUpWrite, At
<1>2. ChainInv /\ ChainInv' /\ ChainGrows /\ UNCHANGED chain
  BY ChainStays DEF TopUpRead, TopUpChain, TopUpWrite, IInv
<1>3. CASE TopUpRead(r)
  <2>1. PICK k : k = Call("mined", c, store[id].deposit, 0)
    OBVIOUS
  <2>2. k \in Payload /\ k.at = "mined"
    BY <1>1, <2>1, AmountsNat DEF Call, Payload, IInv, ChannelState
  <2>3. Holds(k)'
    BY <2>2 DEF Holds
  <2> QED
    BY <1>2, <1>3, <2>1, <2>3, CheckStep DEF TopUpRead
<1>4. CASE TopUpChain(r)
  <2>1. PICK k : k = Call("write", c, channels[id].deposit, 0)
    OBVIOUS
  <2>2. channels[id].deposit <= deposited[id] /\ channels[id].deposit \in Amounts
    BY <1>1, <1>2, OnChainDeposit
  <2>3. /\ k \in Payload /\ k.at = "write" /\ k.action = "topUp" /\ k.channelId = id
        /\ k.deposit = channels[id].deposit
    BY <1>1, <2>1, <2>2, AmountsNat DEF Call, Payload
  <2>4. Holds(k)'
    BY <1>2, <2>2, <2>3 DEF Holds, chain
  <2>5. \E ok : Check(r, ok, k) /\ store' = store
    BY <1>4, <2>1 DEF TopUpChain
  <2> QED
    BY <1>2, <2>4, <2>5, CheckStep
<1>5. CASE TopUpWrite(r)
  <2> DEFINE state == [store[id] EXCEPT !.deposit = c.deposit]
  <2>1. c.deposit <= deposited[id] /\ c.deposit \in Amounts
    BY <1>1, <1>5, Carries DEF IInv, Holds, TopUpWrite, At, Waiting, Ended, Call
  <2>2. Revise(id, state) /\ End(r)
    BY <1>5 DEF TopUpWrite, ReadDeposit
  <2>3. store[id] \in ChannelState /\ RecordHolds(id)
    BY <1>1 DEF IInv
  <2>4. /\ state \in ChannelState /\ state.deposit = c.deposit
        /\ state.exists = store[id].exists /\ state.finalized = store[id].finalized
        /\ state.highestVoucherAmount = store[id].highestVoucherAmount
    BY <2>1, <2>3 DEF ChannelState
  <2> HIDE DEF state
  <2> QED
    BY <1>1, <1>2, <2>1, <2>2, <2>3, <2>4, CallRevises DEF RecordHolds
<1> QED
  BY <1>3, <1>4, <1>5

LEMMA VoucherSteps ==
  ASSUME IInv, NEW r \in Requests, VoucherRead(r) \/ VoucherWrite(r)
  PROVE  IInv'
<1> DEFINE c == req[r]
           id == c.channelId
<1>1. /\ c \in Payload /\ id \in ChannelIds /\ c.cumulative \in Amounts
      /\ c.action = "voucher"
  BY Carries DEF VoucherRead, VoucherWrite, At
<1>2. ChainInv /\ ChainInv' /\ ChainGrows /\ UNCHANGED chain
  BY ChainStays DEF VoucherRead, VoucherWrite, IInv
<1>3. store[id] \in ChannelState /\ RecordHolds(id) /\ deposited[id] \in Nat
  BY <1>1 DEF IInv, ChainInv
<1>4. CASE VoucherRead(r)
  <2>1. PICK k : k = Call("write", c, 0, 0)
    OBVIOUS
  <2>2. k \in Payload /\ k.at = "write" /\ k.action = "voucher" /\ k.channelId = id
        /\ k.cumulative = c.cumulative
    BY <1>1, <2>1, AmountsNat DEF Call, Payload
  <2>3. ASSUME store[id].exists, VoucherChecks(c) PROVE Holds(k)'
    <3>1. c.cumulative <= store[id].deposit /\ Signed(c)
      BY <2>3 DEF VoucherChecks
    <3>2. c.cumulative <= deposited[id]
      BY <1>1, <1>3, <2>3, <3>1, AmountsNat DEF RecordHolds, ChannelState
    <3>3. Backed(id, c.cumulative)
      BY <1>1, <3>1, <3>2, SignedIsBacked
    <3> QED
      BY <1>2, <2>2, <3>3 DEF Holds, Backed, chain
  <2> QED
    BY <1>2, <1>4, <2>1, <2>3, CheckStep DEF VoucherRead
<1>5. CASE VoucherWrite(r)
  <2> DEFINE state == [store[id] EXCEPT !.highestVoucherAmount = c.cumulative,
                                        !.spent = @ + Price, !.units = @ + 1]
  <2>1. Backed(id, c.cumulative)
    BY <1>1, <1>5 DEF IInv, Holds, VoucherWrite, At, Waiting, Ended, Call
  <2>2. Revise(id, state) /\ End(r)
    BY <1>5 DEF VoucherWrite
  <2>3. /\ state \in ChannelState /\ state.deposit = store[id].deposit
        /\ state.exists = store[id].exists /\ state.finalized = store[id].finalized
        /\ state.highestVoucherAmount = c.cumulative
    <3>1. store[id].spent + Price \in Nat /\ store[id].units + 1 \in Nat
      BY <1>3, ServerAssumption DEF ChannelState
    <3> QED
      BY <1>1, <1>3, <3>1 DEF ChannelState
  <2> HIDE DEF state
  <2> QED
    BY <1>1, <1>2, <1>3, <2>1, <2>2, <2>3, CallRevises DEF RecordHolds
<1> QED
  BY <1>4, <1>5

LEMMA CloseSteps ==
  ASSUME IInv, NEW r \in Requests,
         CloseRead(r) \/ CloseSend(r) \/ CloseFail(r) \/ CloseWrite(r)
  PROVE  IInv' /\ ChainGrows
<1> DEFINE c == req[r]
           id == c.channelId
<1>1. /\ c \in Payload /\ id \in ChannelIds /\ c.cumulative \in Amounts
      /\ c.action = "close"
  BY Carries DEF CloseRead, CloseSend, CloseFail, CloseWrite, ReceiptThere, At
<1>2. ChainInv /\ store[id] \in ChannelState /\ RecordHolds(id) /\ deposited[id] \in Nat /\ Holds(c)
  BY <1>1 DEF IInv, ChainInv
<1>3. CASE CloseRead(r)
  <2>1. PICK k : k = Call("send", c, 0, 0)
    OBVIOUS
  <2>2. k \in Payload /\ k.at = "send" /\ k.action = "close" /\ k.channelId = id
        /\ k.cumulative = c.cumulative
    BY <1>1, <2>1, AmountsNat DEF Call, Payload
  <2>3. ChainInv' /\ ChainGrows /\ UNCHANGED chain /\ store' = store
    BY <1>2, <1>3, ChainStays DEF CloseRead
  <2>4. ASSUME store[id].exists, c.cumulative <= store[id].deposit, Signed(c) PROVE Holds(k)'
    <3>1. c.cumulative <= deposited[id]
      BY <1>1, <1>2, <2>4, AmountsNat DEF RecordHolds, ChannelState
    <3>2. Backed(id, c.cumulative)
      BY <1>1, <2>4, <3>1, SignedIsBacked
    <3> QED
      BY <2>2, <2>3, <3>2 DEF Holds, Backed, chain
  <2> QED
    BY <1>3, <2>1, <2>3, <2>4, CheckStep DEF CloseRead
<1>4. CASE CloseSend(r)
  <2>1. PICK k : k = Call("write", c, 0, 0)
    OBVIOUS
  <2>2. k \in Payload /\ k.at = "write" /\ k.action = "close" /\ k.channelId = id
        /\ k.cumulative = c.cumulative
    BY <1>1, <2>1, AmountsNat DEF Call, Payload
  <2>3. ChainInv' /\ ChainGrows /\ channels'[id].finalized
    <3>1. c.cumulative \in Chain!Amounts /\ Chain!close(Recipient, id, c.cumulative)
      BY <1>1, <1>4, AmountsNat DEF CloseSend
    <3> QED
      BY <1>1, <1>2, <3>1, CloseOnChain
  <2>4. Holds(k)'
    <3>1. Backed(id, c.cumulative)
      BY <1>1, <1>2, <1>4 DEF Holds, CloseSend, At, Waiting, Ended, Call
    <3>2. \A j \in ChannelIds, amount \in Amounts : Backed(j, amount) => Backed(j, amount)'
      BY <1>2, <2>3, BackedStays
    <3>3. \A j \in ChannelIds, amount \in Amounts :
            j = id /\ amount = c.cumulative => Backed(j, amount)'
      BY <3>1, <3>2
    <3>4. Backed(k.channelId, k.cumulative)'
      BY <1>1, <2>2, <3>3
    <3> QED
      BY <1>1, <2>2, <2>3, <3>4 DEF Holds
  <2>5. \E ok : Check(r, ok, k) /\ store' = store
    BY <1>4, <2>1 DEF CloseSend
  <2> QED
    BY <2>3, <2>4, <2>5, CheckStep
<1>5. CASE CloseFail(r)
  BY <1>2, <1>5, ChainStays, CallEnds DEF CloseFail
<1>6. CASE CloseWrite(r)
  <2> DEFINE state == [store[id] EXCEPT !.highestVoucherAmount = c.cumulative,
                                        !.finalized = TRUE]
  <2>1. Backed(id, c.cumulative) /\ channels[id].finalized
    BY <1>1, <1>2, <1>6 DEF Holds, CloseWrite, ReceiptThere, At, Waiting, Ended, Call
  <2>2. Revise(id, state) /\ End(r) /\ UNCHANGED chain
    BY <1>6 DEF CloseWrite
  <2>3. /\ state \in ChannelState /\ state.deposit = store[id].deposit
        /\ state.exists = store[id].exists
        /\ state.highestVoucherAmount = c.cumulative
    BY <1>1, <1>2 DEF ChannelState
  <2>4. ChainGrows
    BY <1>2, <2>2, ChainStays
  <2> HIDE DEF state
  <2> QED
    BY <1>1, <1>2, <2>1, <2>2, <2>3, <2>4, CallRevises DEF RecordHolds
<1> QED
  BY <1>3, <1>4, <1>5, <1>6

LEMMA HandleStep ==
  ASSUME IInv, NEW r \in Requests, Handle(r)
  PROVE  IInv' /\ ChainGrows
<1>1. UNCHANGED chain => ChainGrows
  BY ChainStays DEF IInv
<1>2. CASE OpenRead(r) \/ OpenWrite(r)
  BY <1>1, <1>2, OpenReadStep, OpenWriteStep DEF OpenRead, OpenWrite
<1>3. CASE TopUpRead(r) \/ TopUpChain(r) \/ TopUpWrite(r)
  BY <1>1, <1>3, TopUpSteps DEF TopUpRead, TopUpChain, TopUpWrite
<1>4. CASE VoucherRead(r) \/ VoucherWrite(r)
  BY <1>1, <1>4, VoucherSteps DEF VoucherRead, VoucherWrite
<1>5. CASE CloseRead(r) \/ CloseSend(r) \/ CloseFail(r) \/ CloseWrite(r)
  BY <1>5, CloseSteps
<1> QED
  BY <1>2, <1>3, <1>4, <1>5 DEF Handle

LEMMA RestartStep ==
  ASSUME IInv, Restart
  PROVE  IInv' /\ ChainGrows
<1>1. ChainInv /\ ChainInv' /\ ChainGrows /\ UNCHANGED chain
  BY ChainStays DEF Restart, IInv
<1>2. NoState \in ChannelState
  BY AmountsNat DEF NoState, ChannelState
<1>3. store' \in [ChannelIds -> ChannelState]
  BY <1>2 DEF Restart, IInv
<1>4. ASSUME NEW id \in ChannelIds PROVE RecordHolds(id)'
  <2>1. CASE store'[id] = store[id]
    BY <1>1, <2>1, RecordStays DEF IInv
  <2>2. CASE store'[id] = NoState
    BY <1>2, <2>2 DEF RecordHolds, NoState
  <2> QED
    BY <2>1, <2>2 DEF Restart
<1>5. \A r \in Requests : req'[r] \in {Waiting, Ended}
  BY DEF Restart, InFlight
<1>6. req' = [q \in Requests |-> req'[q]]
  BY DEF Restart
<1>7. \A r \in Requests : Holds(req[r])'
  BY <1>5 DEF Holds
<1> QED
  BY <1>1, <1>3, <1>4, <1>6, <1>7 DEF IInv

LEMMA StaysStep ==
  ASSUME IInv, ChainInv', ChainGrows, UNCHANGED <<store, req>>
  PROVE  IInv'
<1>1. \A id \in ChannelIds : RecordHolds(id)'
  BY RecordStays DEF IInv
<1>2. \A r \in Requests : Holds(req[r])'
  BY CallStays DEF IInv
<1> QED
  BY <1>1, <1>2 DEF IInv

LEMMA StepIInv ==
  ASSUME IInv, [Next]_vars
  PROVE  IInv' /\ ChainGrows
<1>1. ASSUME NEW r \in Requests, NEW c \in Credential, Receive(r, c)
      PROVE  IInv' /\ ChainGrows
  BY <1>1, ReceiveStep, ChainStays DEF Receive, IInv
<1>2. CASE World
  BY <1>2, WorldOnChain, StaysStep DEF IInv, World
<1>3. CASE UNCHANGED vars
  BY <1>3, ChainStays, StaysStep DEF IInv, vars
<1> QED
  BY <1>1, <1>2, <1>3, HandleStep, RestartStep DEF Next

-----------------------------------------------------------------------------
(* What follows                                                            *)

\* The highest voucher that the server holds of a channel can be collected as
\* long as it is open, whatever updateChannel writes over stale reads.
THEOREM AlwaysCollectable == Spec => []VoucherCollectable
<1>1. IInv => VoucherCollectable
  <2> SUFFICES ASSUME IInv, NEW id \in ChannelIds, store[id].exists, Chain!IsOpen(channels[id])
               PROVE  LET highest == store[id].highestVoucherAmount
                      IN  /\ channels[id].payee = Recipient
                          /\ highest <= channels[id].deposit
                          /\ Chain!ValidVoucher(id, highest)
    BY DEF VoucherCollectable
  <2>1. id.payee = Recipient /\ Backed(id, store[id].highestVoucherAmount)
    BY DEF IInv, RecordHolds
  <2>2. /\ channels[id].payee = id.payee /\ channels[id].deposit = deposited[id]
        /\ channels[id].authorizedSigner = id.authorizedSigner
        /\ channels[id].payer = id.payer
    BY OpenChannel DEF IInv
  <2>3. Chain!ExpectedSigner(channels[id]) = Chain!ExpectedSigner(id)
    BY <2>2 DEF Chain!ExpectedSigner
  <2> QED
    BY <2>1, <2>2, <2>3 DEF Backed, Chain!ValidVoucher
<1> QED
  BY <1>1, InitIInv, StepIInv, PTL DEF Spec

\* A record is marked as finalized once the receipt of the close is there, and no
\* earlier, wherever the call that closes is overtaken or cut off.
THEOREM AlwaysFinalizedOnChain == Spec => []FinalizedOnChain
<1>1. IInv => FinalizedOnChain
  BY DEF IInv, RecordHolds, FinalizedOnChain
<1> QED
  BY <1>1, InitIInv, StepIInv, PTL DEF Spec

-----------------------------------------------------------------------------
(* A client that waits for each answer                                     *)

\* What a record says that only one call at a time writes.
RecordCounts(id) ==
  /\ store[id].finalized => store[id].spent <= paid[id]
  /\ store[id].exists => store[id].units >= 1

\* What a call has checked is still so when it goes on.
StillSo(c) ==
  LET state == store[c.channelId]
  IN  /\ c.at = "write" /\ c.action = "voucher" =>
           ~state.finalized /\ state.highestVoucherAmount <= c.cumulative
      /\ c.at = "send" /\ c.action = "close" => state.spent <= c.cumulative
      /\ c.at = "write" /\ c.action = "close" => state.spent <= paid[c.channelId]

SerialInv ==
  /\ \A q, r \in Requests : InFlight(q) /\ InFlight(r) => q = r
  /\ \A id \in ChannelIds : RecordCounts(id)
  /\ \A r \in Requests : InFlight(r) => StillSo(req[r])

LEMMA InitSerial == Init => SerialInv
  BY DEF Init, SerialInv, InFlight, RecordCounts, NoState

LEMMA RecordTyped ==
  ASSUME IInv, NEW id \in ChannelIds
  PROVE  /\ store[id] \in ChannelState /\ store[id].spent \in Nat /\ store[id].units \in Nat
         /\ store[id].highestVoucherAmount \in Nat /\ store[id].settledOnChain \in Nat
         /\ paid[id] \in Nat
  BY AmountsNat DEF IInv, ChannelState, ChainInv

\* Nobody but r does anything.
LEMMA SerialMoves ==
  ASSUME IInv, SerialInv, NEW r \in Requests, \A q \in Requests : InFlight(q) => q = r,
         NEW c, req' = [req EXCEPT ![r] = c], c = Ended \/ StillSo(c)',
         \A id \in ChannelIds : RecordCounts(id)'
  PROVE  SerialInv'
<1>1. req'[r] = c /\ \A q \in Requests : q # r => req'[q] = req[q]
  BY DEF IInv
<1>2. \A q \in Requests : q # r => ~InFlight(q)'
  BY <1>1 DEF InFlight
<1>3. InFlight(r)' => StillSo(req[r])'
  BY <1>1 DEF InFlight, StillSo
<1> QED
  BY <1>2, <1>3 DEF SerialInv

LEMMA RecordCountsOn ==
  ASSUME IInv, IInv', SerialInv, ChainGrows, NEW id \in ChannelIds,
         store'[id] = store[id] \/ store'[id] = NoState
  PROVE  RecordCounts(id)'
<1>1. paid[id] \in Nat /\ paid'[id] \in Nat /\ paid[id] <= paid'[id]
  BY DEF IInv, ChainInv, ChainGrows
<1> QED
  BY <1>1, RecordTyped DEF SerialInv, RecordCounts, NoState

\* A call that writes no record, and what it holds then.
LEMMA SerialChecks ==
  ASSUME IInv, IInv', SerialInv, ChainGrows, store' = store,
         NEW r \in Requests, \A q \in Requests : InFlight(q) => q = r,
         NEW ok, NEW c, Check(r, ok, c), ok => StillSo(c)'
  PROVE  SerialInv'
<1>1. \A id \in ChannelIds : RecordCounts(id)'
  BY RecordCountsOn
<1>2. CASE ok
  BY <1>1, <1>2, SerialMoves DEF Check
<1>3. CASE ~ok
  BY <1>1, <1>3, SerialMoves DEF Check
<1> QED
  BY <1>2, <1>3

\* A call that writes a record ends.
LEMMA SerialWrites ==
  ASSUME IInv, IInv', SerialInv, ChainGrows, UNCHANGED chain,
         NEW r \in Requests, \A q \in Requests : InFlight(q) => q = r, End(r),
         NEW id \in ChannelIds, NEW state,
         \/ store' = [store EXCEPT ![id] = state]
         \/ Revise(id, state),
         state.finalized => state.spent <= paid[id],
         state.exists => state.units >= 1
  PROVE  SerialInv'
<1>1. RecordCounts(id)'
  <2>1. store'[id] = state \/ store'[id] = NoState
    BY DEF IInv, Revise
  <2> QED
    BY <2>1 DEF RecordCounts, NoState, chain
<1>2. \A j \in ChannelIds : j # id => store'[j] = store[j]
  BY DEF IInv, Revise
<1>3. \A j \in ChannelIds : RecordCounts(j)'
  BY <1>1, <1>2, RecordCountsOn
<1> QED
  BY <1>3, SerialMoves DEF End

LEMMA SerialHandle ==
  ASSUME IInv, IInv', SerialInv, ChainGrows, NEW r \in Requests, Handle(r)
  PROVE  SerialInv'
<1> DEFINE c == req[r]
           id == c.channelId
           state == store[id]
<1>1. /\ c \in Payload /\ id \in ChannelIds /\ c.cumulative \in Nat
      /\ InFlight(r) /\ StillSo(c)
  <2>1. c.at \notin {"idle", "ended"}
    BY DEF Handle, OpenRead, OpenWrite, TopUpRead, TopUpChain, TopUpWrite, VoucherRead,
           VoucherWrite, CloseRead, CloseSend, CloseFail, CloseWrite, ReceiptThere, At
  <2>2. InFlight(r)
    BY <2>1 DEF InFlight, Waiting, Ended, Call
  <2> QED
    BY <2>1, <2>2, Carries, AmountsNat DEF SerialInv
<1>2. \A q \in Requests : InFlight(q) => q = r
  BY <1>1 DEF SerialInv
<1>3. /\ state \in ChannelState /\ state.spent \in Nat /\ state.units \in Nat
      /\ state.highestVoucherAmount \in Nat /\ state.settledOnChain \in Nat
      /\ RecordCounts(id) /\ paid[id] \in Nat /\ paid'[id] \in Nat /\ paid[id] <= paid'[id]
  BY <1>1, RecordTyped DEF SerialInv, IInv, ChainInv, ChainGrows
<1>4. CASE OpenRead(r) \/ TopUpRead(r) \/ TopUpChain(r)
  <2>1. store' = store
    BY <1>4 DEF OpenRead, TopUpRead, TopUpChain
  <2>2. \E k, ok : Check(r, ok, k) /\ k.action \in {"open", "topUp"}
    BY <1>4 DEF OpenRead, TopUpRead, TopUpChain, At, Call
  <2>3. PICK k, ok : Check(r, ok, k) /\ k.action \in {"open", "topUp"}
    BY <2>2
  <2>4. StillSo(k)'
    BY <2>3 DEF StillSo
  <2> QED
    BY <1>2, <2>1, <2>3, <2>4, SerialChecks
<1>5. CASE OpenWrite(r)
  <2> DEFINE new == [exists |-> TRUE, deposit |-> c.deposit, settledOnChain |-> c.settled,
                     highestVoucherAmount |-> c.cumulative, spent |-> Price, units |-> 1,
                     finalized |-> FALSE]
  <2>1. store' = [store EXCEPT ![id] = new] /\ End(r) /\ UNCHANGED chain
    BY <1>5 DEF OpenWrite
  <2>2. ~new.finalized /\ new.units >= 1
    OBVIOUS
  <2> HIDE DEF new
  <2> QED
    BY <1>1, <1>2, <2>1, <2>2, SerialWrites
<1>6. CASE TopUpWrite(r)
  <2> DEFINE new == [state EXCEPT !.deposit = c.deposit]
  <2>1. Revise(id, new) /\ End(r) /\ UNCHANGED chain
    BY <1>6 DEF TopUpWrite, ReadDeposit
  <2>2. /\ new.finalized = state.finalized /\ new.units = state.units
        /\ new.exists = state.exists /\ new.spent = state.spent
    BY <1>3 DEF ChannelState
  <2> HIDE DEF new
  <2> QED
    BY <1>1, <1>2, <1>3, <2>1, <2>2, SerialWrites DEF RecordCounts
<1>7. CASE VoucherRead(r)
  <2>1. PICK k : k = Call("write", c, 0, 0)
    OBVIOUS
  <2>2. /\ store' = store /\ c.action = "voucher"
        /\ Check(r, state.exists /\ ~state.finalized /\ ~Repeats(c) /\ VoucherChecks(c), k)
    BY <1>7, <2>1 DEF VoucherRead, At
  <2>3. k.at = "write" /\ k.action = "voucher" /\ k.channelId = id /\ k.cumulative = c.cumulative
    BY <2>1, <2>2 DEF Call
  <2>4. ~state.finalized /\ ~Repeats(c) => StillSo(k)'
    BY <1>1, <1>3, <2>2, <2>3 DEF StillSo, Repeats, Highest
  <2> QED
    BY <1>2, <2>2, <2>4, SerialChecks
<1>8. CASE VoucherWrite(r)
  <2> DEFINE new == [state EXCEPT !.highestVoucherAmount = c.cumulative,
                                  !.spent = @ + Price, !.units = @ + 1]
  <2>1. Revise(id, new) /\ End(r) /\ UNCHANGED chain
    BY <1>8 DEF VoucherWrite
  <2>2. ~state.finalized
    BY <1>1, <1>8 DEF StillSo, VoucherWrite, At
  <2>3. new.finalized = state.finalized /\ new.units = state.units + 1
    BY <1>3 DEF ChannelState
  <2> HIDE DEF new
  <2> QED
    BY <1>1, <1>2, <1>3, <2>1, <2>2, <2>3, SerialWrites
<1>9. CASE CloseRead(r)
  <2>1. PICK k : k = Call("send", c, 0, 0)
    OBVIOUS
  <2>2. \E ok : store' = store /\ Check(r, ok, k) /\ (ok => MinClose(state) <= c.cumulative)
    BY <1>9, <2>1 DEF CloseRead
  <2>3. k.at = "send" /\ k.channelId = id /\ k.cumulative = c.cumulative
    BY <2>1 DEF Call
  <2>4. MinClose(state) <= c.cumulative => state.spent <= c.cumulative
    BY <1>1, <1>3 DEF MinClose
  <2>5. MinClose(state) <= c.cumulative /\ store' = store => StillSo(k)'
    BY <1>1, <2>3, <2>4 DEF StillSo
  <2> QED
    BY <1>2, <2>2, <2>5, SerialChecks
<1>10. CASE CloseSend(r)
  <2>1. PICK k : k = Call("write", c, 0, 0)
    OBVIOUS
  <2>2. /\ store' = store /\ c.action = "close" /\ \E ok : Check(r, ok, k)
        /\ Chain!close(Recipient, id, c.cumulative)
    BY <1>10, <2>1 DEF CloseSend, At
  <2>3. state.spent <= c.cumulative
    BY <1>1, <1>10 DEF StillSo, CloseSend, At
  <2>4. c.cumulative <= paid'[id]
    BY <1>1, <2>2, Carries, CloseOnChain, AmountsNat DEF IInv, Payload
  <2>5. k.at = "write" /\ k.action = "close" /\ k.channelId = id
    BY <2>1, <2>2 DEF Call
  <2>6. StillSo(k)'
    BY <1>1, <1>3, <2>2, <2>3, <2>4, <2>5 DEF StillSo
  <2> QED
    BY <1>2, <2>2, <2>6, SerialChecks
<1>11. CASE CloseFail(r)
  <2>1. \A j \in ChannelIds : RecordCounts(j)'
    BY <1>11, RecordCountsOn DEF CloseFail
  <2> QED
    BY <1>2, <1>11, <2>1, SerialMoves DEF CloseFail, End
<1>12. CASE CloseWrite(r)
  <2> DEFINE new == [state EXCEPT !.highestVoucherAmount = c.cumulative, !.finalized = TRUE]
  <2>1. Revise(id, new) /\ End(r) /\ UNCHANGED chain
    BY <1>12 DEF CloseWrite
  <2>2. state.spent <= paid[id]
    BY <1>1, <1>12 DEF StillSo, CloseWrite, ReceiptThere, At
  <2>3. new.spent = state.spent /\ new.units = state.units /\ new.exists = state.exists
    BY <1>3 DEF ChannelState
  <2> HIDE DEF new
  <2> QED
    BY <1>1, <1>2, <1>3, <2>1, <2>2, <2>3, SerialWrites DEF RecordCounts
<1> QED
  BY <1>4, <1>5, <1>6, <1>7, <1>8, <1>9, <1>10, <1>11, <1>12 DEF Handle

LEMMA StepSerial ==
  ASSUME IInv, IInv', SerialInv, ChainGrows, [SerialNext]_vars
  PROVE  SerialInv'
<1>1. ASSUME NEW r \in Requests, NEW c \in Credential, Receive(r, c),
             \A q \in Requests : ~InFlight(q)
      PROVE  SerialInv'
  <2>1. PICK k : k = Call("start", c, 0, 0) /\ req' = [req EXCEPT ![r] = k] /\ store' = store
    BY <1>1 DEF Receive
  <2>2. k.at = "start"
    BY <2>1 DEF Call
  <2>3. StillSo(k)'
    BY <2>2 DEF StillSo
  <2>4. \A id \in ChannelIds : RecordCounts(id)'
    BY <2>1, RecordCountsOn
  <2> QED
    BY <1>1, <2>1, <2>3, <2>4, SerialMoves
<1>2. CASE Restart
  <2>1. \A id \in ChannelIds : RecordCounts(id)'
    BY <1>2, RecordCountsOn DEF Restart
  <2>2. \A r \in Requests : ~InFlight(r)'
    BY <1>2 DEF Restart, InFlight
  <2> QED
    BY <2>1, <2>2 DEF SerialInv
<1>3. CASE UNCHANGED <<store, req>>
  <2>1. \A id \in ChannelIds : RecordCounts(id)'
    BY <1>3, RecordCountsOn
  <2>2. ASSUME NEW r \in Requests, InFlight(r) PROVE StillSo(req[r])'
    <3>1. req[r].channelId \in ChannelIds
      BY <2>2 DEF IInv, Holds, InFlight, Payload
    <3>2. /\ paid[req[r].channelId] \in Nat /\ paid'[req[r].channelId] \in Nat
          /\ paid[req[r].channelId] <= paid'[req[r].channelId]
          /\ store[req[r].channelId].spent \in Nat
      BY <3>1, RecordTyped DEF IInv, ChainInv, ChainGrows
    <3> QED
      BY <1>3, <2>2, <3>1, <3>2 DEF SerialInv, StillSo
  <2> QED
    BY <1>3, <2>1, <2>2 DEF SerialInv, InFlight
<1> QED
  BY <1>1, <1>2, <1>3, SerialHandle DEF SerialNext, World, vars

LEMMA SerialIsNext == SerialNext => Next
  BY DEF SerialNext, Next

MCInv == IInv /\ serial \in BOOLEAN /\ (serial => SerialInv)

LEMMA InitMCInv == MCInit => MCInv
  BY InitIInv, InitSerial DEF MCInit, MCInv

LEMMA StepMCInv == MCInv /\ [MCNext]_<<vars, serial>> => MCInv'
<1> SUFFICES ASSUME MCInv, [MCNext]_<<vars, serial>> PROVE MCInv'
  OBVIOUS
<1>1. [Next]_vars /\ serial' = serial /\ (serial => [SerialNext]_vars)
  BY SerialIsNext DEF MCNext, MCInv
<1>2. IInv' /\ ChainGrows
  BY <1>1, StepIInv DEF MCInv
<1> QED
  BY <1>1, <1>2, StepSerial DEF MCInv

\* Once it has closed the channel of a client that waits for each answer, the
\* server has been paid for all that it has counted, although the close pays
\* the voucher that the client has chosen.
THEOREM CloseAlwaysCollects == MCSpec => []CloseCollectsSpent
<1>1. MCInv => CloseCollectsSpent
  BY DEF MCInv, SerialInv, RecordCounts, CloseCollectsSpent
<1> QED
  BY <1>1, InitMCInv, StepMCInv, PTL DEF MCSpec

LEMMA WriterAccumulates ==
  ASSUME IInv, SerialInv, NEW r \in Requests, OpenWrite(r) \/ VoucherWrite(r),
         NEW id \in ChannelIds
  PROVE  AccumulatesStep(id)
<1> DEFINE c == req[r]
<1>1. c.at = "write" /\ c.action \in {"open", "voucher"} /\ c.channelId \in ChannelIds
      /\ c.cumulative \in Nat
  BY Carries, AmountsNat DEF OpenWrite, VoucherWrite, At
<1>2. /\ store \in [ChannelIds -> ChannelState] /\ store[id].units \in Nat
      /\ store[id].highestVoucherAmount \in Nat
      /\ store[id].exists => store[id].units >= 1
  BY RecordTyped DEF IInv, SerialInv, RecordCounts
<1>3. CASE id # c.channelId
  <2>1. store'[id] = store[id]
    BY <1>1, <1>2, <1>3 DEF OpenWrite, VoucherWrite, Revise
  <2> QED
    BY <1>2, <2>1 DEF AccumulatesStep
<1>4. CASE id = c.channelId /\ OpenWrite(r)
  <2>1. store'[id].units = 1
    BY <1>1, <1>2, <1>4 DEF OpenWrite
  <2> QED
    BY <1>2, <2>1 DEF AccumulatesStep
<1>5. CASE id = c.channelId /\ VoucherWrite(r)
  <2>1. store[id].exists => store'[id].highestVoucherAmount = c.cumulative
    BY <1>1, <1>2, <1>5 DEF VoucherWrite, Revise, ChannelState
  <2>2. InFlight(r) /\ StillSo(c)
    BY <1>1 DEF InFlight, Waiting, Ended, Call, SerialInv
  <2>3. store[id].highestVoucherAmount <= c.cumulative
    BY <1>1, <1>5, <2>2 DEF StillSo, VoucherWrite, At
  <2> QED
    BY <1>1, <1>2, <2>1, <2>3 DEF AccumulatesStep
<1> QED
  BY <1>3, <1>4, <1>5

LEMMA OthersAccumulate ==
  ASSUME IInv, [SerialNext]_vars,
         \A r \in Requests : ~OpenWrite(r) /\ ~VoucherWrite(r), NEW id \in ChannelIds
  PROVE  AccumulatesStep(id)
<1>1. store[id].units \in Nat /\ store \in [ChannelIds -> ChannelState]
  BY RecordTyped DEF IInv
<1>2. store[id].exists => store'[id].units <= store[id].units
  <2>1. CASE store'[id] \in {store[id], NoState}
    BY <1>1, <2>1 DEF NoState
  <2>2. ASSUME NEW r \in Requests, TopUpWrite(r) \/ CloseWrite(r)
        PROVE  store[id].exists => store'[id].units = store[id].units
    <3> DEFINE k == req[r].channelId
    <3>1. k \in ChannelIds /\ store[k] \in ChannelState
      BY <2>2, <1>1, Carries DEF TopUpWrite, CloseWrite, ReceiptThere, At
    <3> DEFINE topped == [store[k] EXCEPT !.deposit = ReadDeposit(r)]
               closed == [store[k] EXCEPT !.highestVoucherAmount = req[r].cumulative,
                                          !.finalized = TRUE]
    <3>2. topped.units = store[k].units /\ closed.units = store[k].units
      BY <3>1 DEF ChannelState
    <3>3. Revise(k, topped) \/ Revise(k, closed)
      BY <2>2 DEF TopUpWrite, CloseWrite
    <3> HIDE DEF k, topped, closed
    <3>4. CASE id # k
      BY <1>1, <3>1, <3>3, <3>4 DEF Revise
    <3>5. CASE id = k
      BY <1>1, <3>2, <3>3, <3>5 DEF Revise
    <3> QED
      BY <3>4, <3>5
  <2>3. ASSUME NEW r \in Requests,
               OpenRead(r) \/ TopUpRead(r) \/ TopUpChain(r) \/ VoucherRead(r) \/ CloseRead(r)
                 \/ CloseSend(r) \/ CloseFail(r) \/ \E c \in Credential : Receive(r, c)
        PROVE  store' = store
    BY <2>3 DEF OpenRead, TopUpRead, TopUpChain, VoucherRead, CloseRead, CloseSend, CloseFail,
                Receive
  <2>4. Restart => store'[id] \in {store[id], NoState}
    BY DEF Restart
  <2> QED
    BY <1>1, <2>1, <2>2, <2>3, <2>4 DEF SerialNext, Handle, World, vars
<1>3. IInv'
  BY StepIInv, SerialIsNext
<1>4. store'[id].units \in Nat
  BY <1>3 DEF IInv, ChannelState
<1> QED
  BY <1>1, <1>2, <1>4 DEF AccumulatesStep

\* "The server accumulates the highest voucher", for a client that waits for each
\* answer: the voucher that is counted is no lower than the one that is held.
THEOREM SerialAlwaysAccumulates == MCSpec => SerialAccumulates
<1>1. MCInv /\ [MCNext]_<<vars, serial>> =>
        [serial => \A id \in ChannelIds : AccumulatesStep(id)]_vars
  <2> SUFFICES ASSUME MCInv, [MCNext]_<<vars, serial>>, serial, NEW id \in ChannelIds
               PROVE  AccumulatesStep(id)
    OBVIOUS
  <2>1. IInv /\ SerialInv /\ [SerialNext]_vars
    BY DEF MCInv, MCNext
  <2> QED
    BY <2>1, WriterAccumulates, OthersAccumulate
<1> QED
  BY <1>1, InitMCInv, StepMCInv, PTL DEF MCSpec, SerialAccumulates

-----------------------------------------------------------------------------
(* The store, for any updates of any channels                              *)

\* The entry of the map is the update that is inside.
LockInv == \A u \in Updates : Store!Inside(u) => locks[KeyOf[u]] = u

\* What an update read is still what the store holds when it writes.
FreshInv == \A u \in Updates : pc[u] = "put" => current[u] = records[KeyOf[u]]

\* An update writes once.
OnceInv ==
  \A u \in Updates : pc[u] \in {"idle", "waiting", "get", "put"} => u \notin applied

StoreInv == Store!TypeOK /\ LockInv /\ FreshInv /\ OnceInv

LEMMA KeyTyped == \A u \in Updates : KeyOf[u] \in Keys
  BY StoreAssumption

LEMMA FnTyped ==
  ASSUME NEW u \in Updates, NEW r \in Store!Records
  PROVE  Store!fn(u, r) \in Store!Records
<1>1. CASE u \in Creating
  BY <1>1 DEF Store!fn, Store!Records
<1>2. CASE u \notin Creating /\ ~r.exists
  BY <1>2 DEF Store!fn, Store!Records, Store!NoRecord
<1>3. CASE u \notin Creating /\ r.exists
  BY <1>3 DEF Store!fn, Store!Records
<1> QED
  BY <1>1, <1>2, <1>3

LEMMA InitStore == Store!Init => StoreInv
  BY StoreAssumption, KeyTyped
     DEF Store!Init, StoreInv, Store!TypeOK, LockInv, FreshInv, OnceInv, Store!Inside,
         Store!Records, Store!NoRecord, Store!Locations

LEMMA CallStore ==
  ASSUME StoreInv, NEW u \in Updates, Store!Call(u)
  PROVE  StoreInv'
  BY DEF StoreInv, Store!TypeOK, LockInv, FreshInv, OnceInv, Store!Inside, Store!Locations,
         Store!Call, Store!Goto

LEMMA LockStore ==
  ASSUME StoreInv, NEW u \in Updates, Store!Lock(u)
  PROVE  StoreInv'
<1>1. /\ pc[u] = "waiting" /\ locks[KeyOf[u]] = Free
      /\ locks' = [locks EXCEPT ![KeyOf[u]] = u]
      /\ pc' = [pc EXCEPT ![u] = "get"]
      /\ records' = records /\ current' = current /\ applied' = applied
  BY DEF Store!Lock, Store!Unlocked, Store!Goto
<1>2. Store!TypeOK'
  BY <1>1, KeyTyped DEF StoreInv, Store!TypeOK, Store!Locations
<1>3. LockInv'
  <2> SUFFICES ASSUME NEW v \in Updates, Store!Inside(v)'
               PROVE  locks'[KeyOf[v]] = v
    BY DEF LockInv
  <2>1. CASE v = u
    BY <1>1, <2>1, KeyTyped DEF StoreInv, Store!TypeOK
  <2>2. CASE v # u
    <3>1. Store!Inside(v) /\ locks[KeyOf[v]] = v
      BY <1>1, <2>2 DEF StoreInv, Store!TypeOK, LockInv, Store!Inside
    <3>2. KeyOf[v] # KeyOf[u]
      BY <1>1, <3>1, StoreAssumption
    <3> QED
      BY <1>1, <3>1, <3>2, KeyTyped DEF StoreInv, Store!TypeOK
  <2> QED
    BY <2>1, <2>2
<1>4. FreshInv' /\ OnceInv'
  BY <1>1 DEF StoreInv, Store!TypeOK, FreshInv, OnceInv
<1> QED
  BY <1>2, <1>3, <1>4 DEF StoreInv

LEMMA GetStore ==
  ASSUME StoreInv, NEW u \in Updates, Store!Get(u)
  PROVE  StoreInv'
<1>1. /\ pc[u] = "get"
      /\ \/ /\ current' = [current EXCEPT ![u] = records[KeyOf[u]]]
            /\ pc' = [pc EXCEPT ![u] = "put"]
         \/ /\ pc' = [pc EXCEPT ![u] = "throw"]
            /\ current' = current
      /\ records' = records /\ locks' = locks /\ applied' = applied
  BY DEF Store!Get, Store!Goto
<1>2. Store!TypeOK'
  BY <1>1, KeyTyped DEF StoreInv, Store!TypeOK, Store!Locations
<1>3. LockInv'
  BY <1>1 DEF StoreInv, Store!TypeOK, LockInv, Store!Inside
<1>4. FreshInv' /\ OnceInv'
  BY <1>1 DEF StoreInv, Store!TypeOK, FreshInv, OnceInv
<1> QED
  BY <1>2, <1>3, <1>4 DEF StoreInv

LEMMA PutStore ==
  ASSUME StoreInv, NEW u \in Updates, Store!Put(u)
  PROVE  StoreInv'
<1>1. /\ pc[u] = "put"
      /\ \/ /\ records' = [records EXCEPT ![KeyOf[u]] = Store!fn(u, current[u])]
            /\ applied' = applied \cup {u}
            /\ \/ pc' = [pc EXCEPT ![u] = "return"]
               \/ pc' = [pc EXCEPT ![u] = "throw"]
         \/ /\ pc' = [pc EXCEPT ![u] = "throw"]
            /\ records' = records /\ applied' = applied
      /\ locks' = locks /\ current' = current
  BY DEF Store!Put, Store!Goto
<1>2. Store!TypeOK'
  <2>1. Store!fn(u, current[u]) \in Store!Records
    BY FnTyped DEF StoreInv, Store!TypeOK
  <2> QED
    BY <1>1, <2>1, KeyTyped DEF StoreInv, Store!TypeOK, Store!Locations
<1>3. LockInv'
  BY <1>1 DEF StoreInv, Store!TypeOK, LockInv, Store!Inside
<1>4. FreshInv'
  <2> SUFFICES ASSUME NEW v \in Updates, pc'[v] = "put"
               PROVE  current'[v] = records'[KeyOf[v]]
    BY DEF FreshInv
  <2>1. v # u /\ pc[v] = "put"
    BY <1>1 DEF StoreInv, Store!TypeOK
  <2>2. KeyOf[v] # KeyOf[u]
    BY <1>1, <2>1 DEF StoreInv, LockInv, Store!Inside
  <2> QED
    BY <1>1, <2>1, <2>2, KeyTyped DEF StoreInv, Store!TypeOK, FreshInv
<1>5. OnceInv'
  BY <1>1 DEF StoreInv, Store!TypeOK, OnceInv
<1> QED
  BY <1>2, <1>3, <1>4, <1>5 DEF StoreInv

LEMMA ReleaseStore ==
  ASSUME StoreInv, NEW u \in Updates, Store!Release(u)
  PROVE  StoreInv'
<1>1. /\ pc[u] \in {"return", "throw"}
      /\ locks' = [locks EXCEPT ![KeyOf[u]] = Free]
      /\ \/ pc' = [pc EXCEPT ![u] = "returned"]
         \/ pc' = [pc EXCEPT ![u] = "thrown"]
      /\ records' = records /\ current' = current /\ applied' = applied
  BY DEF Store!Release, Store!Leaving, Store!Goto
<1>2. Store!TypeOK'
  BY <1>1, KeyTyped DEF StoreInv, Store!TypeOK, Store!Locations
<1>3. LockInv'
  <2> SUFFICES ASSUME NEW v \in Updates, Store!Inside(v)'
               PROVE  locks'[KeyOf[v]] = v
    BY DEF LockInv
  <2>1. v # u /\ Store!Inside(v)
    BY <1>1 DEF StoreInv, Store!TypeOK, Store!Inside
  <2>2. locks[KeyOf[v]] = v /\ locks[KeyOf[u]] = u
    BY <1>1, <2>1 DEF StoreInv, LockInv, Store!Inside
  <2> QED
    BY <1>1, <2>1, <2>2, KeyTyped DEF StoreInv, Store!TypeOK
<1>4. FreshInv' /\ OnceInv'
  BY <1>1 DEF StoreInv, Store!TypeOK, FreshInv, OnceInv
<1> QED
  BY <1>2, <1>3, <1>4 DEF StoreInv

LEMMA CrashStore ==
  ASSUME StoreInv, Store!Crash
  PROVE  StoreInv'
  BY DEF StoreInv, Store!TypeOK, LockInv, FreshInv, OnceInv, Store!Inside, Store!Locations, Store!Crash

LEMMA StepStore == StoreInv /\ [Store!Next]_Store!vars => StoreInv'
<1> SUFFICES ASSUME StoreInv, [Store!Next]_Store!vars PROVE StoreInv'
  OBVIOUS
<1>1. ASSUME NEW u \in Updates, Store!Call(u) \/ Store!Step(u) PROVE StoreInv'
  BY <1>1, CallStore, LockStore, GetStore, PutStore, ReleaseStore DEF Store!Step
<1>2. CASE UNCHANGED Store!vars
  BY <1>2 DEF Store!vars, StoreInv, Store!TypeOK, LockInv, FreshInv, OnceInv, Store!Inside
<1> QED
  BY <1>1, <1>2, CrashStore DEF Store!Next

LEMMA StoreAlways == Store!Spec => []StoreInv
  BY InitStore, StepStore, PTL DEF Store!Spec

\* At most one update of a channel is between its read and its write.
THEOREM Exclusion == StoreSpec => []Store!MutualExclusion
<1>1. StoreInv => Store!MutualExclusion
  BY DEF StoreInv, LockInv, Store!MutualExclusion
<1> QED
  BY <1>1, StoreAlways, PTL DEF StoreSpec

\* Every update takes effect as one read-modify-write, at its put.
THEOREM Atomicity == StoreSpec => IsAtomic
<1>1. Store!Init => Store!Atomic!Init
  BY DEF Store!Init, Store!Atomic!Init, Store!NoRecord
<1>2. ASSUME StoreInv, [Store!Next]_Store!vars
      PROVE  (\E u \in Updates : Store!Atomic!Apply(u)) \/ UNCHANGED <<records, applied>>
  <2>1. ASSUME NEW u \in Updates, Store!Put(u)
        PROVE  Store!Atomic!Apply(u) \/ UNCHANGED <<records, applied>>
    <3>1. CASE UNCHANGED <<records, applied>>
      BY <3>1
    <3>2. CASE /\ records' = [records EXCEPT ![KeyOf[u]] = Store!fn(u, current[u])]
               /\ applied' = applied \cup {u}
      <4>1. pc[u] = "put" /\ u \notin applied
              /\ current[u] = records[KeyOf[u]] /\ records[KeyOf[u]] \in Store!Records
        BY <1>2, <2>1, KeyTyped DEF Store!Put, StoreInv, Store!TypeOK, OnceInv, FreshInv
      <4>2. Store!fn(u, current[u]) = Store!Atomic!Next(u, records[KeyOf[u]])
        BY <4>1 DEF Store!fn, Store!Atomic!Next, Store!NoRecord, Store!Records
      <4> QED
        BY <3>2, <4>1, <4>2 DEF Store!Atomic!Apply
    <3> QED
      BY <2>1, <3>1, <3>2 DEF Store!Put
  <2>2. ASSUME NEW u \in Updates, Store!Call(u) \/ Store!Lock(u) \/ Store!Get(u) \/ Store!Release(u)
        PROVE  UNCHANGED <<records, applied>>
    BY <2>2 DEF Store!Call, Store!Lock, Store!Get, Store!Release
  <2>3. CASE Store!Crash \/ UNCHANGED Store!vars
    BY <2>3 DEF Store!Crash, Store!vars
  <2> QED
    BY <1>2, <2>1, <2>2, <2>3 DEF Store!Next, Store!Step
<1> QED
  BY <1>1, <1>2, StoreAlways, PTL DEF StoreSpec, Store!Spec, IsAtomic, Store!Atomic!Spec
=============================================================================
