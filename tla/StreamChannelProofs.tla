------------------------ MODULE StreamChannelProofs ------------------------
(***************************************************************************)
(* Proofs about StreamChannel for every set of accounts, tokens and        *)
(* channels, every width of the amounts and every grace period.            *)
(*                                                                         *)
(* The argument is per channel.  RecordInv relates the three shapes of a   *)
(* record (never opened, open, finalized) to what the events add up to;    *)
(* VoucherInv says where the payee's money came from.  Neither mentions    *)
(* another channel, and a step changes the record of one channel only.     *)
(***************************************************************************)
EXTENDS StreamChannel, Sums

\* What the storage says agrees with what the events say.
RecordInv(id) ==
  LET c == channels[id]
  IN  \/ /\ c = NoChannel
         /\ deposited[id] = 0 /\ paid[id] = 0 /\ refunded[id] = 0
      \/ /\ IsOpen(c)
         /\ c.payer = id.payer
         /\ c.payee = id.payee
         /\ c.token = id.token
         /\ c.authorizedSigner = id.authorizedSigner
         /\ id.payee \in Accounts
         /\ id.token \in Tokens
         /\ c.settled <= c.deposit
         /\ deposited[id] = c.deposit
         /\ paid[id] = c.settled
         /\ refunded[id] = 0
      \/ /\ c = Finalized
         /\ deposited[id] = paid[id] + refunded[id]
         /\ deposited[id] <= MaxUint128

\* The payee's income is one signed voucher of this channel.
VoucherInv(id) ==
  paid[id] = 0
    \/ [signer |-> ExpectedSigner(id), channelId |-> id,
        amount |-> paid[id]] \in vouchers

\* The inductive invariant.
Inv ==
  /\ TypeOK
  /\ \A id \in ChannelIds : RecordInv(id) /\ VoucherInv(id)

\* A step leaves every channel but id alone.
SameElsewhere(id) ==
  \A j \in ChannelIds : j # id =>
    /\ channels'[j] = channels[j]
    /\ deposited'[j] = deposited[j]
    /\ paid'[j] = paid[j]
    /\ refunded'[j] = refunded[j]

-----------------------------------------------------------------------------
\* The fields of a channel id are addresses, or address(0).
LEMMA ParamsTyped ==
  ASSUME NEW id \in ChannelIds
  PROVE  /\ id.payer \in Accounts
         /\ id.payee \in Accounts \cup {NoAddress}
         /\ id.token \in Tokens \cup {NoAddress}
         /\ id.authorizedSigner \in Accounts \cup {NoAddress}
         /\ ExpectedSigner(id) \in Accounts
  BY ConstantsAssumption DEF ChannelParams, ExpectedSigner

\* A token transfer within the sender's balance leaves balances natural,
\* also when sender and receiver are the same account.
LEMMA MovedTyped ==
  ASSUME NEW b \in [Holders -> Nat], NEW from \in Holders, NEW to \in Holders,
         NEW amount \in Nat, amount <= b[from]
  PROVE  /\ Moved(b, from, to, amount) \in [Holders -> Nat]
         /\ from # to => Moved(b, from, to, amount)[from] = b[from] - amount
  BY DEF Moved

LEMMA TransferTyped ==
  ASSUME balance \in [Tokens -> [Holders -> Nat]],
         NEW token \in Tokens, NEW from \in Holders, NEW to \in Holders,
         NEW amount \in Nat, Transfer(token, from, to, amount)
  PROVE  balance' \in [Tokens -> [Holders -> Nat]]
<1>1. balance[token] \in [Holders -> Nat]
  OBVIOUS
<1>2. Moved(balance[token], from, to, amount) \in [Holders -> Nat]
  BY <1>1, MovedTyped DEF Transfer
<1>3. balance' = [balance EXCEPT ![token] =
                    Moved(balance[token], from, to, amount)]
  BY DEF Transfer
<1> QED
  BY <1>2, <1>3

\* A step that changes one channel, and adds vouchers at most, preserves the
\* invariant if it does so for that channel.
LEMMA OneChannel ==
  ASSUME Inv, NEW id \in ChannelIds, SameElsewhere(id),
         vouchers \subseteq vouchers',
         TypeOK', RecordInv(id)', VoucherInv(id)'
  PROVE  Inv'
<1>1. ASSUME NEW j \in ChannelIds, j # id
      PROVE  RecordInv(j)' /\ VoucherInv(j)'
  <2>1. /\ RecordInv(j) /\ VoucherInv(j)
        /\ channels'[j] = channels[j] /\ deposited'[j] = deposited[j]
        /\ paid'[j] = paid[j] /\ refunded'[j] = refunded[j]
    BY <1>1 DEF Inv, SameElsewhere
  <2>2. RecordInv(j)'
    BY <2>1 DEF RecordInv, IsOpen
  <2>3. VoucherInv(j)'
    BY <2>1 DEF VoucherInv
  <2> QED
    BY <2>2, <2>3
<1> QED
  BY <1>1 DEF Inv

\* What the invariant says of a channel that is open.
LEMMA OpenChannel ==
  ASSUME Inv, NEW id \in ChannelIds, IsOpen(channels[id])
  PROVE  /\ channels[id] \in Channel
         /\ channels[id].payer = id.payer
         /\ channels[id].payee = id.payee
         /\ channels[id].token = id.token
         /\ channels[id].authorizedSigner = id.authorizedSigner
         /\ ExpectedSigner(channels[id]) = ExpectedSigner(id)
         /\ id.payer \in Accounts /\ id.payer \in Holders
         /\ id.payee \in Accounts /\ id.payee \in Holders
         /\ id.token \in Tokens
         /\ Escrow \in Holders /\ Escrow # id.payee
         /\ channels[id].deposit \in Nat
         /\ channels[id].deposit <= MaxUint128
         /\ channels[id].settled \in Nat
         /\ channels[id].settled <= channels[id].deposit
         /\ deposited[id] = channels[id].deposit
         /\ paid[id] = channels[id].settled
         /\ refunded[id] = 0
<1>1. TypeOK /\ RecordInv(id)
  BY DEF Inv
<1>2. channels[id] # NoChannel /\ channels[id] # Finalized
  BY DEF IsOpen, NoChannel, Finalized
<1>3. channels[id] \in Channel
  BY <1>1 DEF TypeOK
<1>4. /\ channels[id].deposit \in Nat
      /\ channels[id].deposit <= MaxUint128
      /\ channels[id].settled \in Nat
  BY <1>3, ConstantsAssumption DEF Channel, Amounts
<1>5. /\ id.payer \in Accounts /\ id.payer \in Holders
      /\ Escrow \in Holders /\ Escrow \notin Accounts
  BY ParamsTyped, ConstantsAssumption DEF Holders
<1> QED
  BY <1>1, <1>2, <1>3, <1>4, <1>5 DEF RecordInv, ExpectedSigner, Holders

-----------------------------------------------------------------------------
\* One lemma per function of the contract.
LEMMA InitInv == Init => Inv
<1> SUFFICES ASSUME Init PROVE Inv
  OBVIOUS
<1>1. TypeOK
  BY ConstantsAssumption
     DEF Init, TypeOK, Channel, NoChannel, Amounts, Holders, Vouchers
<1>2. ASSUME NEW id \in ChannelIds PROVE RecordInv(id) /\ VoucherInv(id)
  BY DEF Init, RecordInv, VoucherInv
<1> QED
  BY <1>1, <1>2 DEF Inv

LEMMA OpenInv ==
  ASSUME Inv, NEW sender \in Accounts, NEW id \in ChannelIds,
         NEW deposit \in Amounts, open(sender, id, deposit)
  PROVE  Inv'
<1> DEFINE new ==
      [payer |-> sender, payee |-> id.payee, token |-> id.token,
       authorizedSigner |-> id.authorizedSigner, deposit |-> deposit,
       settled |-> 0, closeRequestedAt |-> 0, finalized |-> FALSE]
<1>1. TypeOK /\ RecordInv(id)
  BY DEF Inv
<1>2. /\ sender = id.payer /\ sender # NoAddress
      /\ id.payee \in Accounts /\ id.token \in Tokens
      /\ id.authorizedSigner \in Accounts \cup {NoAddress}
      /\ sender \in Holders /\ Escrow \in Holders
      /\ deposit \in Nat /\ 0 \in Amounts
  BY ParamsTyped, ConstantsAssumption DEF open, Amounts, Holders
<1>3. deposited[id] = 0 /\ paid[id] = 0 /\ refunded[id] = 0
  <2>1. ~channels[id].finalized /\ channels[id].payer = NoAddress
    BY DEF open
  <2>2. channels[id] # Finalized /\ ~IsOpen(channels[id])
    BY <2>1 DEF Finalized, NoChannel, IsOpen
  <2> QED
    BY <1>1, <2>2 DEF RecordInv
<1>4. /\ channels' = [channels EXCEPT ![id] = new]
      /\ deposited' = [deposited EXCEPT ![id] = @ + deposit]
      /\ paid' = paid /\ refunded' = refunded /\ vouchers' = vouchers
      /\ notice' = notice /\ now' = now
      /\ Transfer(id.token, sender, Escrow, deposit)
  BY DEF open
<1>5. TypeOK'
  <2>1. new \in Channel
    BY <1>2 DEF Channel
  <2>2. balance' \in [Tokens -> [Holders -> Nat]]
    BY <1>1, <1>2, <1>4, TransferTyped DEF TypeOK
  <2> HIDE DEF new
  <2> QED
    BY <1>1, <1>2, <1>4, <2>1, <2>2 DEF TypeOK
<1>6. channels'[id] = new /\ deposited'[id] = deposit /\ SameElsewhere(id)
  BY <1>1, <1>2, <1>3, <1>4 DEF TypeOK, SameElsewhere
<1>7. RecordInv(id)' /\ VoucherInv(id)'
  BY <1>2, <1>3, <1>4, <1>6 DEF RecordInv, VoucherInv, IsOpen
<1> QED
  BY <1>4, <1>5, <1>6, <1>7, OneChannel

LEMMA SettleInv ==
  ASSUME Inv, NEW sender \in Accounts, NEW id \in ChannelIds,
         NEW amount \in Amounts, settle(sender, id, amount)
  PROVE  Inv'
<1> DEFINE c == channels[id]
           delta == Delta(c, amount)
<1>1. TypeOK /\ IsOpen(c) /\ amount <= c.deposit /\ c.settled < amount
  BY DEF Inv, settle
<1>2. /\ channels' = [channels EXCEPT ![id].settled = amount]
      /\ paid' = [paid EXCEPT ![id] = @ + delta]
      /\ deposited' = deposited /\ refunded' = refunded
      /\ vouchers' = vouchers /\ notice' = notice /\ now' = now
      /\ Transfer(c.token, Escrow, c.payee, delta)
  BY DEF settle
<1>3. delta \in Nat /\ amount \in Nat
  BY <1>1, OpenChannel, ConstantsAssumption DEF Amounts, Delta
<1>4. TypeOK'
  <2>1. channels' \in [ChannelIds -> Channel]
    BY <1>1, <1>2 DEF TypeOK, Channel
  <2>2. balance' \in [Tokens -> [Holders -> Nat]]
    BY <1>1, <1>2, <1>3, OpenChannel, TransferTyped DEF TypeOK
  <2>3. paid' \in [ChannelIds -> Nat]
    BY <1>1, <1>2, <1>3 DEF TypeOK
  <2> QED
    BY <1>1, <1>2, <2>1, <2>2, <2>3 DEF TypeOK
<1>5. /\ channels'[id] = [c EXCEPT !.settled = amount]
      /\ paid'[id] = paid[id] + delta
      /\ SameElsewhere(id)
  BY <1>1, <1>2 DEF TypeOK, SameElsewhere
<1>6. paid'[id] = amount
  BY <1>1, <1>3, <1>5, OpenChannel DEF Delta
<1>7. RecordInv(id)'
  BY <1>1, <1>2, <1>5, <1>6, OpenChannel DEF RecordInv, IsOpen, Channel
<1>8. VoucherInv(id)'
  <2>1. ValidVoucher(id, amount)
    BY DEF settle
  <2> QED
    BY <1>1, <1>2, <1>6, <2>1, OpenChannel DEF VoucherInv, ValidVoucher
<1> QED
  BY <1>2, <1>4, <1>5, <1>7, <1>8, OneChannel

LEMMA TopUpInv ==
  ASSUME Inv, NEW sender \in Accounts, NEW id \in ChannelIds,
         NEW amount \in Wide, topUp(sender, id, amount)
  PROVE  Inv'
<1> DEFINE c == channels[id]
<1>1. TypeOK /\ IsOpen(c) /\ amount <= MaxUint128 - c.deposit /\ sender = c.payer
  BY DEF Inv, topUp, Fits
<1>2. /\ amount \in Nat /\ MaxUint128 \in Nat
      /\ Uint128(amount) = amount /\ c.deposit + amount \in Amounts
  BY <1>1, OpenChannel, ConstantsAssumption DEF Amounts, Wide, Uint128, Fits
<1>3. /\ channels' = [channels EXCEPT ![id].deposit = @ + amount,
                                      ![id].closeRequestedAt = 0]
      /\ deposited' = [deposited EXCEPT ![id] = @ + amount]
      /\ notice' = [notice EXCEPT ![id] = 0]
      /\ paid' = paid /\ refunded' = refunded
      /\ vouchers' = vouchers /\ now' = now
      /\ Transfer(c.token, sender, Escrow, amount)
  BY <1>2 DEF topUp
<1>4. TypeOK'
  <2>1. channels' \in [ChannelIds -> Channel]
    <3>1. c \in Channel /\ c.deposit + amount \in Amounts
      BY <1>1, <1>2 DEF TypeOK
    <3>2. [c EXCEPT !.deposit = @ + amount, !.closeRequestedAt = 0] \in Channel
      BY <3>1, ConstantsAssumption DEF Channel
    <3> QED
      BY <1>1, <1>3, <3>2 DEF TypeOK
  <2>2. balance' \in [Tokens -> [Holders -> Nat]]
    BY <1>1, <1>2, <1>3, OpenChannel, TransferTyped DEF TypeOK
  <2>3. deposited' \in [ChannelIds -> Nat] /\ notice' \in [ChannelIds -> Nat]
    BY <1>1, <1>2, <1>3 DEF TypeOK
  <2> QED
    BY <1>1, <1>3, <2>1, <2>2, <2>3 DEF TypeOK
<1>5. /\ channels'[id] = [c EXCEPT !.deposit = @ + amount,
                                   !.closeRequestedAt = 0]
      /\ deposited'[id] = deposited[id] + amount
      /\ SameElsewhere(id)
  BY <1>1, <1>3 DEF TypeOK, SameElsewhere
<1>6. RecordInv(id)'
  <2>1. /\ channels'[id].payer = c.payer /\ channels'[id].payee = c.payee
        /\ channels'[id].token = c.token
        /\ channels'[id].authorizedSigner = c.authorizedSigner
        /\ channels'[id].finalized = c.finalized
        /\ channels'[id].deposit = c.deposit + amount
        /\ channels'[id].settled = c.settled
    BY <1>1, <1>5, OpenChannel DEF Channel
  <2>2. c.settled <= c.deposit + amount
    BY <1>1, <1>2, OpenChannel
  <2>3. IsOpen(channels[id])'
    BY <1>1, <2>1 DEF IsOpen
  <2> QED
    BY <1>1, <1>3, <1>5, <2>1, <2>2, <2>3, OpenChannel DEF RecordInv
<1>7. VoucherInv(id)'
  BY <1>3 DEF Inv, VoucherInv
<1> QED
  BY <1>3, <1>4, <1>5, <1>6, <1>7, OneChannel

LEMMA RequestCloseInv ==
  ASSUME Inv, NEW sender \in Accounts, NEW id \in ChannelIds,
         requestClose(sender, id)
  PROVE  Inv'
<1> DEFINE c == channels[id]
<1>1. TypeOK /\ IsOpen(c)
  BY DEF Inv, requestClose
<1>2. /\ channels' = [channels EXCEPT ![id].closeRequestedAt = now]
      /\ notice' = [notice EXCEPT ![id] = now]
      /\ deposited' = deposited /\ paid' = paid /\ refunded' = refunded
      /\ balance' = balance /\ vouchers' = vouchers /\ now' = now
  BY DEF requestClose, totals
<1>3. TypeOK'
  <2>1. channels' \in [ChannelIds -> Channel]
    BY <1>1, <1>2 DEF TypeOK, Channel
  <2>2. notice' \in [ChannelIds -> Nat]
    BY <1>1, <1>2 DEF TypeOK
  <2> QED
    BY <1>1, <1>2, <2>1, <2>2 DEF TypeOK
<1>4. channels'[id] = [c EXCEPT !.closeRequestedAt = now] /\ SameElsewhere(id)
  BY <1>1, <1>2 DEF TypeOK, SameElsewhere
<1>5. RecordInv(id)'
  <2>1. /\ channels'[id].payer = c.payer /\ channels'[id].payee = c.payee
        /\ channels'[id].token = c.token
        /\ channels'[id].authorizedSigner = c.authorizedSigner
        /\ channels'[id].finalized = c.finalized
        /\ channels'[id].deposit = c.deposit
        /\ channels'[id].settled = c.settled
    BY <1>1, <1>4, OpenChannel DEF Channel
  <2>2. IsOpen(channels[id])'
    BY <1>1, <2>1 DEF IsOpen
  <2> QED
    BY <1>1, <1>2, <2>1, <2>2, OpenChannel DEF RecordInv
<1>6. VoucherInv(id)'
  BY <1>2 DEF Inv, VoucherInv
<1> QED
  BY <1>2, <1>3, <1>4, <1>5, <1>6, OneChannel

\* Finalizing a channel preserves the invariant if delta and refund divide
\* what is locked in it and the payee's total is a signed amount.
LEMMA FinalizeInv ==
  ASSUME Inv, NEW id \in ChannelIds, IsOpen(channels[id]),
         NEW delta \in Nat, NEW refund \in Nat,
         channels[id].settled + delta + refund = channels[id].deposit,
         delta = 0 \/ ValidVoucher(id, channels[id].settled + delta),
         channels' = [channels EXCEPT ![id] = Finalized],
         paid' = [paid EXCEPT ![id] = @ + delta],
         refunded' = [refunded EXCEPT ![id] = @ + refund],
         deposited' = deposited, vouchers' = vouchers,
         notice' = notice, now' = now,
         balance' \in [Tokens -> [Holders -> Nat]]
  PROVE  Inv'
<1> DEFINE c == channels[id]
<1>1. TypeOK /\ VoucherInv(id)
  BY DEF Inv
<1>2. TypeOK'
  <2>1. Finalized \in Channel
    <3>1. NoChannel \in Channel
      BY ConstantsAssumption DEF NoChannel, Channel, Amounts
    <3> QED
      BY <3>1 DEF Finalized, Channel
  <2>2. channels' \in [ChannelIds -> Channel]
    BY <1>1, <2>1 DEF TypeOK
  <2>3. paid' \in [ChannelIds -> Nat] /\ refunded' \in [ChannelIds -> Nat]
    BY <1>1 DEF TypeOK
  <2> QED
    BY <1>1, <2>2, <2>3 DEF TypeOK
<1>3. /\ channels'[id] = Finalized
      /\ paid'[id] = paid[id] + delta
      /\ refunded'[id] = refunded[id] + refund
      /\ SameElsewhere(id)
  BY <1>1 DEF TypeOK, SameElsewhere
<1>4. RecordInv(id)'
  BY <1>3, OpenChannel DEF RecordInv
<1>5. VoucherInv(id)'
  <2>1. CASE delta = 0
    <3>1. paid'[id] = paid[id]
      BY <1>3, <2>1, OpenChannel
    <3> QED
      BY <1>1, <3>1 DEF VoucherInv
  <2>2. CASE ValidVoucher(id, c.settled + delta)
    BY <1>3, <2>2, OpenChannel DEF VoucherInv, ValidVoucher
  <2> QED
    BY <2>1, <2>2
<1> QED
  BY <1>2, <1>3, <1>4, <1>5, OneChannel

LEMMA CloseInv ==
  ASSUME Inv, NEW sender \in Accounts, NEW id \in ChannelIds,
         NEW amount \in Amounts, close(sender, id, amount)
  PROVE  Inv'
<1> DEFINE c == channels[id]
           delta == IF amount > c.settled THEN Delta(c, amount) ELSE 0
           refund == Refund(c, delta)
<1>1. TypeOK /\ IsOpen(c) /\ amount \in Nat
  BY ConstantsAssumption DEF Inv, close, Amounts
<1>2. /\ amount > c.settled => amount <= c.deposit /\ ValidVoucher(id, amount)
      /\ channels' = [channels EXCEPT ![id] = Finalized]
      /\ delta + refund <= balance[c.token][Escrow]
      /\ balance' = [balance EXCEPT ![c.token] =
           Moved(Moved(@, Escrow, c.payee, delta), Escrow, c.payer, refund)]
      /\ paid' = [paid EXCEPT ![id] = @ + delta]
      /\ refunded' = [refunded EXCEPT ![id] = @ + refund]
      /\ deposited' = deposited /\ vouchers' = vouchers
      /\ notice' = notice /\ now' = now
  BY DEF close
<1>3. /\ delta \in Nat /\ refund \in Nat
      /\ c.settled + delta + refund = c.deposit
      /\ delta = 0 \/ ValidVoucher(id, c.settled + delta)
  <2>1. CASE amount > c.settled
    <3>1. delta = amount - c.settled /\ c.settled + delta = amount
      BY <1>1, <2>1, OpenChannel DEF Delta
    <3> QED
      BY <1>1, <1>2, <2>1, <3>1, OpenChannel DEF Refund
  <2>2. CASE ~(amount > c.settled)
    <3>1. delta = 0
      BY <2>2
    <3> QED
      BY <1>1, <3>1, OpenChannel DEF Refund
  <2> QED
    BY <2>1, <2>2
<1> HIDE DEF delta, refund
<1>4. balance' \in [Tokens -> [Holders -> Nat]]
  <2> DEFINE b == balance[c.token]
             once == Moved(b, Escrow, c.payee, delta)
  <2>1. b \in [Holders -> Nat]
    BY <1>1, OpenChannel DEF TypeOK
  <2>2. b[Escrow] \in Nat /\ delta <= b[Escrow] /\ refund <= b[Escrow] - delta
    BY <1>1, <1>2, <1>3, <2>1, OpenChannel
  <2>3. once \in [Holders -> Nat] /\ once[Escrow] = b[Escrow] - delta
    BY <1>1, <1>3, <2>1, <2>2, MovedTyped, OpenChannel
  <2>4. Moved(once, Escrow, c.payer, refund) \in [Holders -> Nat]
    BY <1>1, <1>3, <2>2, <2>3, MovedTyped, OpenChannel
  <2>5. balance' = [balance EXCEPT ![c.token] =
                      Moved(once, Escrow, c.payer, refund)]
    BY <1>2
  <2> QED
    BY <1>1, <2>4, <2>5 DEF TypeOK
<1> QED
  BY <1>1, <1>2, <1>3, <1>4, FinalizeInv

LEMMA WithdrawInv ==
  ASSUME Inv, NEW sender \in Accounts, NEW id \in ChannelIds,
         withdraw(sender, id)
  PROVE  Inv'
<1> DEFINE c == channels[id]
           refund == Refund(c, 0)
<1>1. TypeOK /\ IsOpen(c)
  BY DEF Inv, withdraw
<1>2. /\ channels' = [channels EXCEPT ![id] = Finalized]
      /\ Transfer(c.token, Escrow, c.payer, refund)
      /\ refunded' = [refunded EXCEPT ![id] = @ + refund]
      /\ deposited' = deposited /\ paid' = paid /\ vouchers' = vouchers
      /\ notice' = notice /\ now' = now
  BY DEF withdraw
<1>3. refund \in Nat /\ c.settled + 0 + refund = c.deposit
  BY <1>1, OpenChannel DEF Refund
<1>4. balance' \in [Tokens -> [Holders -> Nat]]
  BY <1>1, <1>2, <1>3, OpenChannel, TransferTyped DEF TypeOK
<1>5. paid' = [paid EXCEPT ![id] = @ + 0]
  BY <1>1, <1>2 DEF TypeOK
<1> HIDE DEF refund
<1> QED
  BY <1>1, <1>2, <1>3, <1>4, <1>5, FinalizeInv

LEMMA SignVoucherInv ==
  ASSUME Inv, NEW signer \in Accounts, NEW id \in ChannelIds,
         NEW amount \in Amounts, SignVoucher(signer, id, amount)
  PROVE  Inv'
<1>1. /\ vouchers \subseteq vouchers'
      /\ channels' = channels /\ deposited' = deposited /\ paid' = paid
      /\ refunded' = refunded
  BY DEF SignVoucher, totals
<1>2. TypeOK'
  BY DEF Inv, TypeOK, SignVoucher, Vouchers, totals
<1>3. \A j \in ChannelIds : RecordInv(j)' /\ VoucherInv(j)'
  BY <1>1 DEF Inv, RecordInv, VoucherInv, IsOpen
<1> QED
  BY <1>2, <1>3 DEF Inv

-----------------------------------------------------------------------------
\* The invariant is inductive.
LEMMA StepInv == Inv /\ [Next]_vars => Inv'
<1> SUFFICES ASSUME Inv, [Next]_vars PROVE Inv'
  OBVIOUS
<1>1. ASSUME NEW sender \in Accounts, NEW id \in ChannelIds,
             PayerStep(sender, id) \/ PayeeStep(sender, id)
               \/ SignStep(sender, id)
      PROVE  Inv'
  BY <1>1, OpenInv, SettleInv, TopUpInv, RequestCloseInv, CloseInv,
     WithdrawInv, SignVoucherInv DEF PayerStep, PayeeStep, SignStep
<1>2. CASE Tick
  BY <1>2 DEF Tick, totals, Inv, TypeOK, RecordInv, VoucherInv, IsOpen
<1>3. CASE UNCHANGED vars
  BY <1>3 DEF vars, totals, Inv, TypeOK, RecordInv, VoucherInv, IsOpen
<1> QED
  BY <1>1, <1>2, <1>3 DEF Next

THEOREM Invariance == Spec => []Inv
<1> QED
  BY InitInv, StepInv, PTL DEF Spec

\* Amounts stay in uint128, no token balance becomes negative, whatever
\* sequence of calls the parties send.
THEOREM TypeCorrect == Spec => []TypeOK
<1>1. Inv => TypeOK
  BY DEF Inv
<1> QED
  BY <1>1, Invariance, PTL

\* The payee's income from a channel is always the amount of one voucher its
\* signer made for it.
THEOREM PaidIsAlwaysSigned == Spec => []PaidIsSigned
<1>1. Inv => PaidIsSigned
  BY DEF Inv, VoucherInv, PaidIsSigned
<1> QED
  BY <1>1, Invariance, PTL

\* No unit deposited in a channel is lost or made.
THEOREM FundsAlwaysAccounted == Spec => []FundsAccounted
<1>1. ASSUME Inv, NEW id \in ChannelIds
      PROVE  /\ deposited[id] = paid[id] + refunded[id] + Locked(id)
             /\ Locked(id) >= 0
  <2>1. /\ RecordInv(id)
        /\ deposited[id] \in Nat /\ paid[id] \in Nat /\ refunded[id] \in Nat
    BY <1>1 DEF Inv, TypeOK
  <2>2. CASE IsOpen(channels[id])
    BY <1>1, <2>1, <2>2, OpenChannel DEF Locked
  <2>3. CASE channels[id] = NoChannel
    BY <2>1, <2>3 DEF RecordInv, IsOpen, NoChannel, Finalized, Locked
  <2>4. CASE channels[id] = Finalized
    <3>1. channels[id].deposit = 0 /\ channels[id].settled = 0
      BY <2>4 DEF Finalized, NoChannel
    <3>2. deposited[id] = paid[id] + refunded[id]
      BY <2>1, <2>4 DEF RecordInv, IsOpen, NoChannel, Finalized
    <3> QED
      BY <2>1, <3>1, <3>2 DEF Locked
  <2> QED
    BY <2>1, <2>2, <2>3, <2>4 DEF RecordInv
<1>2. Inv => FundsAccounted
  BY <1>1 DEF FundsAccounted
<1> QED
  BY <1>2, Invariance, PTL

-----------------------------------------------------------------------------
\* A channel that has ended is Finalized in the storage, and every function
\* of the contract asks for a record that is not.
LEMMA EndedIsFinalized ==
  ASSUME Inv, NEW id \in ChannelIds, HasEnded(id)
  PROVE  channels[id] = Finalized /\ channels[id].finalized
<1>1. RecordInv(id) /\ deposited[id] # 0 /\ ~IsOpen(channels[id])
  BY DEF Inv, HasEnded
<1> QED
  BY <1>1 DEF RecordInv, Finalized, NoChannel

LEMMA EndedStays ==
  ASSUME Inv, [Next]_vars, NEW id \in ChannelIds, HasEnded(id)
  PROVE  channels'[id] = channels[id] /\ NothingMoves(id)
<1>1. TypeOK /\ channels[id].finalized /\ ~IsOpen(channels[id])
  BY EndedIsFinalized DEF Inv, HasEnded
<1>2. ASSUME NEW sender \in Accounts, NEW j \in ChannelIds,
             PayerStep(sender, j) \/ PayeeStep(sender, j)
               \/ SignStep(sender, j)
      PROVE  channels'[id] = channels[id] /\ NothingMoves(id)
  <2>1. ASSUME NEW amount \in Amounts, open(sender, j, amount)
        PROVE  channels'[id] = channels[id] /\ NothingMoves(id)
    BY <1>1, <2>1 DEF open, TypeOK, NothingMoves
  <2>2. ASSUME NEW amount \in Amounts, settle(sender, j, amount)
        PROVE  channels'[id] = channels[id] /\ NothingMoves(id)
    BY <1>1, <2>2 DEF settle, TypeOK, NothingMoves
  <2>3. ASSUME NEW amount \in Wide, topUp(sender, j, amount)
        PROVE  channels'[id] = channels[id] /\ NothingMoves(id)
    BY <1>1, <2>3 DEF topUp, TypeOK, NothingMoves
  <2>4. ASSUME NEW amount \in Amounts, close(sender, j, amount)
        PROVE  channels'[id] = channels[id] /\ NothingMoves(id)
    BY <1>1, <2>4 DEF close, TypeOK, NothingMoves
  <2>5. CASE requestClose(sender, j)
    BY <1>1, <2>5 DEF requestClose, TypeOK, NothingMoves, totals
  <2>6. CASE withdraw(sender, j)
    BY <1>1, <2>6 DEF withdraw, TypeOK, NothingMoves
  <2>7. ASSUME NEW amount \in Amounts, SignVoucher(sender, j, amount)
        PROVE  channels'[id] = channels[id] /\ NothingMoves(id)
    BY <2>7 DEF SignVoucher, NothingMoves, totals
  <2> QED
    BY <1>2, <2>1, <2>2, <2>3, <2>4, <2>5, <2>6, <2>7
       DEF PayerStep, PayeeStep, SignStep
<1>3. CASE Tick
  BY <1>3 DEF Tick, NothingMoves, totals
<1>4. CASE UNCHANGED vars
  BY <1>4 DEF vars, totals, NothingMoves
<1> QED
  BY <1>2, <1>3, <1>4 DEF Next

\* An ended channel moves no more tokens and its id is never reused.
THEOREM EndedIsForever == Spec => EndedForever
<1>1. Inv /\ [Next]_vars => [EndedStep]_vars
  <2> SUFFICES ASSUME Inv, [Next]_vars, NEW id \in ChannelIds, HasEnded(id)
               PROVE  HasEnded(id)' /\ NothingMoves(id)
    BY DEF EndedStep
  <2>1. channels'[id] = channels[id] /\ NothingMoves(id)
    BY EndedStays
  <2> QED
    BY <2>1 DEF HasEnded, NothingMoves, IsOpen
<1> QED
  BY <1>1, Invariance, PTL DEF Spec, EndedForever

-----------------------------------------------------------------------------
\* Solvency.  A step changes what one channel owes, and the escrow's balance
\* of each token by the same amount.
LEMMA OwesType ==
  ASSUME Inv, NEW t \in Tokens, NEW id \in ChannelIds
  PROVE  Owes(t, id) \in Int
<1>1. channels[id] \in Channel
  BY DEF Inv, TypeOK
<1>2. channels[id].deposit \in Int /\ channels[id].settled \in Int
  BY <1>1, ConstantsAssumption DEF Channel, Amounts
<1> QED
  BY <1>2 DEF Owes, Locked

LEMMA OwedChanges ==
  ASSUME Inv, Inv', NEW t \in Tokens, NEW id \in ChannelIds, SameElsewhere(id)
  PROVE  Owed(t)' = Owed(t) - Owes(t, id) + Owes(t, id)'
<1> DEFINE f == [j \in ChannelIds |-> Owes(t, j)]
           g == [j \in ChannelIds |-> Owes(t, j)']
<1>1. \A j \in ChannelIds : f[j] \in Int
  BY OwesType
<1>2. \A j \in ChannelIds : g[j] \in Int
  <2>1. \A j \in ChannelIds : channels'[j] \in Channel
    BY DEF Inv, TypeOK
  <2>2. \A j \in ChannelIds : channels'[j].deposit \in Int /\ channels'[j].settled \in Int
    BY <2>1, ConstantsAssumption DEF Channel, Amounts
  <2> QED
    BY <2>2 DEF Owes, Locked
<1>3. \A j \in ChannelIds : j # id => f[j] = g[j]
  BY DEF Owes, Locked, SameElsewhere
<1>4. Owed(t) = SumFunctionOnSet(f, ChannelIds) /\ Owed(t)' = SumFunctionOnSet(g, ChannelIds)
  BY DEF Owed, SumFunction
<1>5. f[id] = Owes(t, id) /\ g[id] = Owes(t, id)'
  OBVIOUS
<1> HIDE DEF f, g
<1>6. SumFunctionOnSet(g, ChannelIds) = SumFunctionOnSet(f, ChannelIds) - f[id] + g[id]
  BY <1>1, <1>2, <1>3, SumChange, ConstantsAssumption
<1> QED
  BY <1>4, <1>5, <1>6

\* What a transfer does to the escrow's balances: the accounts are others.
LEMMA EscrowReceives ==
  ASSUME Inv, NEW token \in Tokens, NEW from \in Accounts, NEW amount \in Nat,
         Transfer(token, from, Escrow, amount), NEW t \in Tokens
  PROVE  balance'[t][Escrow] = balance[t][Escrow] + (IF t = token THEN amount ELSE 0)
<1>1. balance \in [Tokens -> [Holders -> Nat]] /\ Escrow \in Holders /\ from \in Holders
      /\ Escrow # from
  BY ConstantsAssumption DEF Inv, TypeOK, Holders
<1>2. balance' = [balance EXCEPT ![token] = Moved(balance[token], from, Escrow, amount)]
  BY DEF Transfer
<1>3. balance[token] \in [Holders -> Nat] /\ balance[t][Escrow] \in Nat
  BY <1>1
<1>4. Moved(balance[token], from, Escrow, amount)[Escrow] = balance[token][Escrow] + amount
  BY <1>1, <1>3 DEF Moved
<1> QED
  BY <1>1, <1>2, <1>3, <1>4

LEMMA EscrowPays ==
  ASSUME Inv, NEW token \in Tokens, NEW to \in Accounts, NEW amount \in Nat,
         Transfer(token, Escrow, to, amount), NEW t \in Tokens
  PROVE  balance'[t][Escrow] = balance[t][Escrow] - (IF t = token THEN amount ELSE 0)
<1>1. balance \in [Tokens -> [Holders -> Nat]] /\ Escrow \in Holders /\ to \in Holders
      /\ Escrow # to
  BY ConstantsAssumption DEF Inv, TypeOK, Holders
<1>2. balance' = [balance EXCEPT ![token] = Moved(balance[token], Escrow, to, amount)]
      /\ amount <= balance[token][Escrow]
  BY DEF Transfer
<1>3. balance[token] \in [Holders -> Nat] /\ balance[t][Escrow] \in Nat
  BY <1>1
<1>4. Moved(balance[token], Escrow, to, amount)[Escrow] = balance[token][Escrow] - amount
  BY <1>1, <1>2, <1>3, MovedTyped
<1> QED
  BY <1>1, <1>2, <1>3, <1>4

\* A step that changes what channel id owes, and the escrow's balances by as much.
Books(id) ==
  /\ SameElsewhere(id)
  /\ \A t \in Tokens :
       balance'[t][Escrow] = balance[t][Escrow] - Owes(t, id) + Owes(t, id)'

\* What an open channel owes, and one that is not open.
LEMMA OpenOwes ==
  ASSUME Inv, NEW id \in ChannelIds, IsOpen(channels[id]), NEW t \in Tokens
  PROVE  Owes(t, id) = (IF t = channels[id].token THEN channels[id].deposit - channels[id].settled
                        ELSE 0)
  BY OpenChannel DEF Owes, Locked

LEMMA ClosedOwes ==
  ASSUME NEW c \in {NoChannel, Finalized}, NEW id \in ChannelIds, NEW t \in Tokens
  PROVE  /\ channels[id] = c => Owes(t, id) = 0
         /\ channels'[id] = c => Owes(t, id)' = 0
<1>1. c.token = NoAddress /\ NoAddress # t
  BY ConstantsAssumption DEF NoChannel, Finalized
<1> QED
  BY <1>1 DEF Owes

LEMMA OpenBooks ==
  ASSUME Inv, NEW sender \in Accounts, NEW id \in ChannelIds,
         NEW deposit \in Amounts, open(sender, id, deposit)
  PROVE  Books(id)
<1>1. /\ RecordInv(id) /\ channels \in [ChannelIds -> Channel]
      /\ deposited \in [ChannelIds -> Nat]
  BY DEF Inv, TypeOK
<1>2. channels[id] = NoChannel
  <2>1. ~channels[id].finalized /\ channels[id].payer = NoAddress
    BY DEF open
  <2>2. channels[id] # Finalized /\ ~IsOpen(channels[id])
    BY <2>1 DEF Finalized, NoChannel, IsOpen
  <2> QED
    BY <1>1, <2>2 DEF RecordInv
<1>3. /\ Transfer(id.token, sender, Escrow, deposit) /\ id.token \in Tokens
      /\ deposit \in Nat
      /\ channels'[id].token = id.token
      /\ channels'[id].deposit = deposit /\ channels'[id].settled = 0
      /\ SameElsewhere(id)
  BY <1>1, ParamsTyped, ConstantsAssumption DEF open, Amounts, SameElsewhere
<1>4. ASSUME NEW t \in Tokens
      PROVE  balance'[t][Escrow] = balance[t][Escrow] - Owes(t, id) + Owes(t, id)'
  <2>1. Owes(t, id) = 0
    BY <1>2, ClosedOwes
  <2>2. Owes(t, id)' = IF t = id.token THEN deposit ELSE 0
    BY <1>3 DEF Owes, Locked
  <2>3. balance[t][Escrow] \in Nat
    BY DEF Inv, TypeOK, Holders
  <2> QED
    BY <1>3, <2>1, <2>2, <2>3, EscrowReceives
<1> QED
  BY <1>3, <1>4 DEF Books

LEMMA SettleBooks ==
  ASSUME Inv, NEW sender \in Accounts, NEW id \in ChannelIds,
         NEW amount \in Amounts, settle(sender, id, amount)
  PROVE  Books(id)
<1> DEFINE c == channels[id]
           delta == Delta(c, amount)
<1>1. /\ IsOpen(c) /\ c.settled < amount /\ Transfer(c.token, Escrow, c.payee, delta)
      /\ channels \in [ChannelIds -> Channel]
  BY DEF settle, Inv, TypeOK
<1>2. delta \in Nat /\ amount \in Nat /\ delta = amount - c.settled
  BY <1>1, OpenChannel, ConstantsAssumption DEF Amounts, Delta
<1>3. /\ channels'[id].token = c.token /\ channels'[id].deposit = c.deposit
      /\ channels'[id].settled = amount
      /\ SameElsewhere(id)
  <2>1. channels'[id] = [c EXCEPT !.settled = amount]
    BY <1>1 DEF settle
  <2>2. c \in Channel
    BY <1>1
  <2>3. SameElsewhere(id)
    BY <1>1 DEF settle, SameElsewhere, Inv, TypeOK
  <2> QED
    BY <2>1, <2>2, <2>3 DEF Channel
<1>4. ASSUME NEW t \in Tokens
      PROVE  balance'[t][Escrow] = balance[t][Escrow] - Owes(t, id) + Owes(t, id)'
  <2>1. Owes(t, id)' = IF t = c.token THEN c.deposit - amount ELSE 0
    BY <1>3 DEF Owes, Locked
  <2>2. balance[t][Escrow] \in Nat
    BY DEF Inv, TypeOK, Holders
  <2>3. balance'[t][Escrow] = balance[t][Escrow] - (IF t = c.token THEN delta ELSE 0)
    BY <1>1, <1>2, OpenChannel, EscrowPays
  <2> HIDE DEF delta
  <2> QED
    BY <1>1, <1>2, <2>1, <2>2, <2>3, OpenOwes, OpenChannel
<1> QED
  BY <1>3, <1>4 DEF Books

LEMMA TopUpBooks ==
  ASSUME Inv, NEW sender \in Accounts, NEW id \in ChannelIds,
         NEW amount \in Wide, topUp(sender, id, amount)
  PROVE  Books(id)
<1> DEFINE c == channels[id]
<1>1. /\ IsOpen(c) /\ sender = c.payer /\ Fits(c, amount)
      /\ Transfer(c.token, sender, Escrow, amount)
      /\ channels \in [ChannelIds -> Channel]
  BY DEF topUp, Inv, TypeOK
<1>2. amount \in Nat /\ Uint128(amount) = amount
  BY <1>1, OpenChannel, ConstantsAssumption DEF Amounts, Wide, Uint128, Fits
<1>3. /\ channels'[id].token = c.token /\ channels'[id].deposit = c.deposit + amount
      /\ channels'[id].settled = c.settled
      /\ SameElsewhere(id)
  <2>1. channels'[id] = [c EXCEPT !.deposit = @ + amount, !.closeRequestedAt = 0]
    BY <1>1, <1>2 DEF topUp
  <2>2. c \in Channel
    BY <1>1
  <2>3. SameElsewhere(id)
    BY <1>1 DEF topUp, SameElsewhere, Inv, TypeOK
  <2> QED
    BY <2>1, <2>2, <2>3 DEF Channel
<1>4. ASSUME NEW t \in Tokens
      PROVE  balance'[t][Escrow] = balance[t][Escrow] - Owes(t, id) + Owes(t, id)'
  <2>1. Owes(t, id)' = IF t = c.token THEN (c.deposit + amount) - c.settled ELSE 0
    BY <1>3 DEF Owes, Locked
  <2>2. /\ balance[t][Escrow] \in Nat /\ c.deposit \in Nat /\ c.settled \in Nat
        /\ Owes(t, id) = IF t = c.token THEN c.deposit - c.settled ELSE 0
    BY <1>1, OpenChannel, OpenOwes DEF Inv, TypeOK, Holders
  <2>3. balance'[t][Escrow] = balance[t][Escrow] + (IF t = c.token THEN amount ELSE 0)
    BY <1>1, <1>2, OpenChannel, EscrowReceives
  <2> QED
    BY <1>2, <2>1, <2>2, <2>3
<1> QED
  BY <1>3, <1>4 DEF Books

LEMMA RequestCloseBooks ==
  ASSUME Inv, NEW sender \in Accounts, NEW id \in ChannelIds,
         requestClose(sender, id)
  PROVE  Books(id)
<1> DEFINE c == channels[id]
<1>1. channels \in [ChannelIds -> Channel] /\ c \in Channel /\ balance' = balance
  BY DEF requestClose, Inv, TypeOK
<1>2. channels'[id] = [c EXCEPT !.closeRequestedAt = now] /\ SameElsewhere(id)
  BY <1>1 DEF requestClose, SameElsewhere, totals
<1>3. /\ channels'[id].token = c.token /\ channels'[id].deposit = c.deposit
      /\ channels'[id].settled = c.settled
  BY <1>1, <1>2 DEF Channel
<1>4. ASSUME NEW t \in Tokens
      PROVE  balance'[t][Escrow] = balance[t][Escrow] - Owes(t, id) + Owes(t, id)'
  <2>1. Owes(t, id)' = Owes(t, id) /\ balance[t][Escrow] \in Nat
    BY <1>3 DEF Owes, Locked, Inv, TypeOK, Holders
  <2> QED
    BY <1>1, <2>1, OwesType
<1> QED
  BY <1>2, <1>4 DEF Books

LEMMA CloseBooks ==
  ASSUME Inv, NEW sender \in Accounts, NEW id \in ChannelIds,
         NEW amount \in Amounts, close(sender, id, amount)
  PROVE  Books(id)
<1> DEFINE c == channels[id]
           delta == IF amount > c.settled THEN Delta(c, amount) ELSE 0
           refund == Refund(c, delta)
           b == balance[c.token]
           once == Moved(b, Escrow, c.payee, delta)
<1>1. /\ IsOpen(c) /\ amount \in Nat
      /\ amount > c.settled => amount <= c.deposit
      /\ channels' = [channels EXCEPT ![id] = Finalized]
      /\ delta + refund <= b[Escrow]
      /\ balance' = [balance EXCEPT ![c.token] = Moved(once, Escrow, c.payer, refund)]
      /\ channels \in [ChannelIds -> Channel]
      /\ balance \in [Tokens -> [Holders -> Nat]]
  BY ConstantsAssumption DEF close, Inv, TypeOK, Amounts
<1>2. channels'[id] = Finalized /\ SameElsewhere(id)
  BY <1>1 DEF close, SameElsewhere, Inv, TypeOK
<1>3. delta \in Nat /\ refund \in Nat /\ delta + refund = c.deposit - c.settled
  BY <1>1, OpenChannel DEF Delta, Refund
<1> HIDE DEF delta, refund
<1>4. /\ b \in [Holders -> Nat] /\ b[Escrow] \in Nat
      /\ delta <= b[Escrow] /\ refund <= b[Escrow] - delta
      /\ Escrow \in Holders /\ c.payee \in Holders /\ c.payer \in Holders
      /\ Escrow # c.payee /\ Escrow # c.payer /\ delta \in Nat /\ refund \in Nat
  BY <1>1, <1>3, OpenChannel, ConstantsAssumption
<1> HIDE DEF b
<1>5. once \in [Holders -> Nat] /\ once[Escrow] = b[Escrow] - delta
  BY <1>4, MovedTyped
<1> HIDE DEF once
<1>6. refund <= once[Escrow]
  BY <1>4, <1>5
<1>7. Moved(once, Escrow, c.payer, refund)[Escrow] = once[Escrow] - refund
  BY <1>4, <1>5, <1>6, MovedTyped
<1>8. ASSUME NEW t \in Tokens
      PROVE  balance'[t][Escrow] = balance[t][Escrow] - Owes(t, id) + Owes(t, id)'
  <2>1. Owes(t, id)' = 0
    BY <1>2, ClosedOwes
  <2>2. balance'[t][Escrow] =
          IF t = c.token THEN balance[t][Escrow] - (c.deposit - c.settled) ELSE balance[t][Escrow]
    BY <1>1, <1>3, <1>4, <1>5, <1>7, OpenChannel DEF b
  <2>3. balance[t][Escrow] \in Nat
    BY DEF Inv, TypeOK, Holders
  <2> QED
    BY <1>1, <2>1, <2>2, <2>3, OpenOwes, OpenChannel
<1> QED
  BY <1>2, <1>8 DEF Books

LEMMA WithdrawBooks ==
  ASSUME Inv, NEW sender \in Accounts, NEW id \in ChannelIds,
         withdraw(sender, id)
  PROVE  Books(id)
<1> DEFINE c == channels[id]
<1>1. /\ IsOpen(c) /\ Transfer(c.token, Escrow, c.payer, Refund(c, 0))
      /\ channels \in [ChannelIds -> Channel]
      /\ channels'[id] = Finalized
  BY DEF withdraw, Inv, TypeOK
<1>2. SameElsewhere(id)
  BY <1>1 DEF withdraw, SameElsewhere, Inv, TypeOK
<1>3. Refund(c, 0) \in Nat /\ Refund(c, 0) = c.deposit - c.settled
  BY <1>1, OpenChannel DEF Refund
<1>4. ASSUME NEW t \in Tokens
      PROVE  balance'[t][Escrow] = balance[t][Escrow] - Owes(t, id) + Owes(t, id)'
  <2>1. Owes(t, id)' = 0
    BY <1>1, ClosedOwes
  <2>2. balance'[t][Escrow] = balance[t][Escrow] - (IF t = c.token THEN Refund(c, 0) ELSE 0)
    BY <1>1, <1>3, OpenChannel, EscrowPays
  <2>3. balance[t][Escrow] \in Nat
    BY DEF Inv, TypeOK, Holders
  <2> QED
    BY <1>1, <1>3, <2>1, <2>2, <2>3, OpenOwes, OpenChannel
<1> QED
  BY <1>2, <1>4 DEF Books

LEMMA InitSolvent == Init => Solvency
<1> SUFFICES ASSUME Init, NEW t \in Tokens PROVE balance[t][Escrow] = Owed(t)
  BY DEF Solvency
<1> DEFINE f == [id \in ChannelIds |-> Owes(t, id)]
           zero == [id \in ChannelIds |-> 0]
<1>1. balance[t][Escrow] = 0
  BY DEF Init, Holders
<1>2. \A id \in ChannelIds : channels[id] = NoChannel
  BY DEF Init
<1>3. \A id \in ChannelIds : f[id] = 0
  BY <1>2, ClosedOwes
<1>4. Owed(t) = SumFunctionOnSet(f, ChannelIds)
  BY DEF Owed, SumFunction
<1> HIDE DEF f
<1> QED
  BY <1>1, <1>3, <1>4, SumZero, ConstantsAssumption

LEMMA StepSolvent == Inv /\ Inv' /\ Solvency /\ [Next]_vars => Solvency'
<1> SUFFICES ASSUME Inv, Inv', Solvency, [Next]_vars PROVE Solvency'
  OBVIOUS
<1>1. ASSUME NEW id \in ChannelIds, Books(id) PROVE Solvency'
  <2> SUFFICES ASSUME NEW t \in Tokens PROVE balance'[t][Escrow] = Owed(t)'
    BY DEF Solvency
  <2>1. balance[t][Escrow] = Owed(t)
    BY DEF Solvency
  <2>2. Owed(t)' = Owed(t) - Owes(t, id) + Owes(t, id)'
    BY <1>1, OwedChanges DEF Books
  <2> QED
    BY <1>1, <2>1, <2>2 DEF Books
<1>2. ASSUME channels' = channels, balance' = balance PROVE Solvency'
  BY <1>2 DEF Solvency, Owed, Owes, Locked
<1>3. ASSUME NEW sender \in Accounts, NEW id \in ChannelIds,
             PayerStep(sender, id) \/ PayeeStep(sender, id)
      PROVE  Solvency'
  BY <1>1, <1>3, OpenBooks, SettleBooks, TopUpBooks, RequestCloseBooks, CloseBooks,
     WithdrawBooks DEF PayerStep, PayeeStep
<1>4. ASSUME NEW sender \in Accounts, NEW id \in ChannelIds, SignStep(sender, id)
      PROVE  Solvency'
  BY <1>2, <1>4 DEF SignStep, SignVoucher
<1>5. CASE Tick \/ UNCHANGED vars
  BY <1>2, <1>5 DEF Tick, vars
<1> QED
  BY <1>3, <1>4, <1>5 DEF Next

\* The escrow holds of every token exactly what its channels owe, for any number
\* of channels: no payout of one is made with the deposit of another.
THEOREM AlwaysSolvent == Spec => []Solvency
<1> QED
  BY InitSolvent, StepSolvent, Invariance, PTL DEF Spec

-----------------------------------------------------------------------------
\* The refinement.  What a step of the contract changes of one channel is
\* what a step of the ideal channel changes, and the rest stays.
stages == [id \in ChannelIds |-> Stage(id)]
agreed == [id \in ChannelIds |-> Authorised(id)]

LEMMA StagesUpdate ==
  ASSUME NEW id \in ChannelIds, SameElsewhere(id)
  PROVE  stages' = [stages EXCEPT ![id] = Stage(id)']
  BY DEF stages, Stage, SameElsewhere, IsOpen

LEMMA OpenStage ==
  ASSUME NEW id \in ChannelIds, IsOpen(channels[id])
  PROVE  Stage(id) = "open" /\ stages[id] = "open"
  BY DEF stages, Stage, IsOpen

LEMMA AgreedSame ==
  ASSUME vouchers' = vouchers
  PROVE  agreed' = agreed
  BY DEF agreed, Authorised

\* A valid voucher for an open channel is an amount the ideal payer agreed to.
LEMMA VoucherAgreed ==
  ASSUME Inv, NEW id \in ChannelIds, IsOpen(channels[id]),
         NEW amount \in Amounts, ValidVoucher(id, amount)
  PROVE  amount \in agreed[id]
  BY OpenChannel DEF agreed, Authorised, ValidVoucher

LEMMA InitRefines == Init => Ideal!Init
<1> SUFFICES ASSUME Init PROVE Ideal!Init
  OBVIOUS
<1>1. \A id \in ChannelIds : Stage(id) = "none" /\ Authorised(id) = {}
  BY DEF Init, Stage, Authorised, IsOpen, NoChannel
<1> QED
  BY <1>1 DEF Init, Ideal!Init

LEMMA FundRefines ==
  ASSUME Inv, Inv', NEW id \in ChannelIds, NEW amount \in Nat, amount # 0,
         ~channels[id].finalized, IsOpen(channels[id])',
         deposited' = [deposited EXCEPT ![id] = @ + amount],
         paid' = paid, refunded' = refunded, vouchers' = vouchers,
         SameElsewhere(id)
  PROVE  Ideal!Fund(id)
<1>1. stages' = [stages EXCEPT ![id] = "open"]
  BY StagesUpdate DEF Stage, IsOpen
<1>2. stages[id] # "closed"
  BY DEF stages, Stage
<1>3. /\ deposited[id] \in Nat /\ deposited'[id] = deposited[id] + amount
      /\ MaxUint128 \in Nat
  BY ConstantsAssumption DEF Inv, TypeOK
<1>4. deposited'[id] <= MaxUint128
  <2>1. /\ RecordInv(id)' /\ (channels[id] \in Channel)'
        /\ channels'[id] # NoChannel /\ channels'[id] # Finalized
    BY DEF Inv, TypeOK, IsOpen, NoChannel, Finalized
  <2> QED
    BY <2>1, ConstantsAssumption DEF RecordInv, Channel, Amounts
<1>5. amount \in 1 .. MaxUint128 /\ deposited[id] + amount <= MaxUint128
  BY <1>3, <1>4
<1> QED
  BY <1>1, <1>2, <1>5, AgreedSame DEF Ideal!Fund, stages, agreed

LEMMA SettleRefines ==
  ASSUME Inv, NEW sender \in Accounts, NEW id \in ChannelIds,
         NEW amount \in Amounts, settle(sender, id, amount)
  PROVE  Ideal!Earn(id)
<1> DEFINE c == channels[id]
<1>1. /\ IsOpen(c) /\ amount <= c.deposit /\ c.settled < amount
      /\ ValidVoucher(id, amount)
      /\ channels' = [channels EXCEPT ![id].settled = amount]
      /\ paid' = [paid EXCEPT ![id] = @ + (amount - c.settled)]
      /\ deposited' = deposited /\ refunded' = refunded
      /\ vouchers' = vouchers
  BY DEF settle, Delta
<1>2. /\ amount \in 1 .. MaxUint128
      /\ paid[id] + (amount - c.settled) = amount
      /\ paid[id] < amount /\ amount <= deposited[id]
  BY <1>1, OpenChannel, ConstantsAssumption DEF Amounts
<1>3. paid' = [paid EXCEPT ![id] = amount]
  BY <1>1, <1>2
<1>4. stages[id] = "open" /\ stages' = stages
  <2>1. /\ channels'[id].finalized = c.finalized
        /\ channels'[id].payer = c.payer
        /\ \A j \in ChannelIds : j # id => channels'[j] = channels[j]
    BY <1>1, OpenChannel DEF Inv, TypeOK, Channel
  <2> QED
    BY <1>1, <2>1, OpenStage DEF stages, Stage, IsOpen
<1>5. Ideal!Claimable(id, amount)
  BY <1>1, <1>2, VoucherAgreed DEF Ideal!Claimable, agreed
<1> QED
  BY <1>1, <1>2, <1>3, <1>4, <1>5, AgreedSame DEF Ideal!Earn, stages, agreed

LEMMA EndRefines ==
  ASSUME Inv, NEW id \in ChannelIds, IsOpen(channels[id]),
         NEW delta \in Nat, NEW refund \in Nat,
         channels[id].settled + delta + refund = channels[id].deposit,
         delta = 0 \/ ValidVoucher(id, channels[id].settled + delta),
         channels' = [channels EXCEPT ![id] = Finalized],
         paid' = [paid EXCEPT ![id] = @ + delta],
         refunded' = [refunded EXCEPT ![id] = @ + refund],
         deposited' = deposited, vouchers' = vouchers
  PROVE  Ideal!End(id)
<1> DEFINE c == channels[id]
           amount == c.settled + delta
<1>1. /\ amount \in 0 .. MaxUint128 /\ amount \in Amounts
      /\ paid[id] + delta = amount
      /\ refunded[id] + refund = deposited[id] - amount
      /\ amount <= deposited[id] /\ paid[id] \in Nat
  BY OpenChannel, ConstantsAssumption DEF Amounts
<1>2. amount = paid[id] \/ Ideal!Claimable(id, amount)
  <2>1. CASE delta = 0
    BY <2>1, OpenChannel
  <2>2. CASE delta # 0 /\ ValidVoucher(id, amount)
    <3>1. paid[id] < amount
      BY <1>1, <2>2
    <3> QED
      BY <1>1, <2>2, <3>1, VoucherAgreed DEF Ideal!Claimable, agreed
  <2> QED
    BY <2>1, <2>2
<1>3. /\ paid' = [paid EXCEPT ![id] = amount]
      /\ refunded' = [refunded EXCEPT ![id] = deposited[id] - amount]
  BY <1>1
<1>4. stages[id] = "open" /\ stages' = [stages EXCEPT ![id] = "closed"]
  <2>1. SameElsewhere(id) /\ channels'[id] = Finalized
    <3>1. /\ channels \in [ChannelIds -> Channel]
          /\ paid \in [ChannelIds -> Nat] /\ refunded \in [ChannelIds -> Nat]
      BY DEF Inv, TypeOK
    <3> QED
      BY <3>1 DEF SameElsewhere
  <2>2. Stage(id)' = "closed"
    <3>1. Finalized.finalized
      BY DEF Finalized, NoChannel
    <3> QED
      BY <2>1, <3>1 DEF Stage, IsOpen
  <2> QED
    BY <2>1, <2>2, StagesUpdate, OpenStage
<1> HIDE DEF amount
<1> QED
  BY <1>1, <1>2, <1>3, <1>4, AgreedSame DEF Ideal!End, stages, agreed

LEMMA SignRefines ==
  ASSUME Inv, NEW signer \in Accounts, NEW id \in ChannelIds,
         NEW amount \in Amounts, SignVoucher(signer, id, amount)
  PROVE  Ideal!Authorise(id) \/ UNCHANGED Ideal!vars
<1>1. /\ vouchers' = vouchers \cup
           {[signer |-> signer, channelId |-> id, amount |-> amount]}
      /\ channels' = channels /\ deposited' = deposited /\ paid' = paid
      /\ refunded' = refunded
  BY DEF SignVoucher, totals
<1>2. stages' = stages
  BY <1>1 DEF stages, Stage, IsOpen
<1>3. ASSUME NEW j \in ChannelIds, j # id
      PROVE  Authorised(j)' = Authorised(j)
  BY <1>1, <1>3 DEF Authorised
<1>4. CASE signer = ExpectedSigner(id)
  <2>1. Authorised(id)' = Authorised(id) \cup {amount}
    BY <1>1, <1>4 DEF Authorised
  <2>2. agreed' = [agreed EXCEPT ![id] = @ \cup {amount}]
    BY <1>3, <2>1 DEF agreed
  <2>3. amount \in 0 .. MaxUint128
    BY DEF Amounts
  <2> QED
    BY <1>1, <1>2, <2>2, <2>3 DEF Ideal!Authorise, stages, agreed
<1>5. CASE signer # ExpectedSigner(id)
  <2>1. Authorised(id)' = Authorised(id)
    BY <1>1, <1>5 DEF Authorised
  <2>2. agreed' = agreed
    BY <1>3, <2>1 DEF agreed
  <2> QED
    BY <1>1, <1>2, <2>2 DEF Ideal!vars, stages, agreed
<1> QED
  BY <1>4, <1>5

LEMMA CallRefines ==
  ASSUME Inv, Inv', NEW sender \in Accounts, NEW id \in ChannelIds,
         PayerStep(sender, id) \/ PayeeStep(sender, id)
  PROVE  (\E i \in ChannelIds : \/ Ideal!Fund(i)
                                \/ Ideal!Earn(i)
                                \/ Ideal!End(i))
           \/ UNCHANGED Ideal!vars
<1> TypeOK
  BY DEF Inv
<1>1. ASSUME NEW deposit \in Amounts, open(sender, id, deposit)
      PROVE  Ideal!Fund(id)
  <2>1. /\ deposit \in Nat /\ deposit # 0 /\ ~channels[id].finalized
        /\ deposited' = [deposited EXCEPT ![id] = @ + deposit]
        /\ paid' = paid /\ refunded' = refunded /\ vouchers' = vouchers
    BY <1>1, ConstantsAssumption DEF open, Amounts
  <2>2. IsOpen(channels[id])' /\ SameElsewhere(id)
    BY <1>1, ParamsTyped, ConstantsAssumption
       DEF open, TypeOK, IsOpen, SameElsewhere
  <2> QED
    BY <2>1, <2>2, FundRefines
<1>2. ASSUME NEW amount \in Wide, topUp(sender, id, amount)
      PROVE  Ideal!Fund(id)
  <2>1. /\ amount \in Nat /\ amount # 0 /\ IsOpen(channels[id])
        /\ deposited' = [deposited EXCEPT ![id] = @ + amount]
        /\ paid' = paid /\ refunded' = refunded /\ vouchers' = vouchers
        /\ channels' = [channels EXCEPT
                          ![id].deposit = @ + Uint128(amount),
                          ![id].closeRequestedAt = 0]
    BY <1>2, ConstantsAssumption DEF topUp, Wide
  <2>2. /\ channels'[id].finalized = channels[id].finalized
        /\ channels'[id].payer = channels[id].payer
    BY <2>1, OpenChannel DEF TypeOK, Channel
  <2>3. SameElsewhere(id)
    BY <2>1 DEF TypeOK, SameElsewhere
  <2> QED
    BY <2>1, <2>2, <2>3, FundRefines DEF IsOpen
<1>3. ASSUME requestClose(sender, id)
      PROVE  UNCHANGED Ideal!vars
  <2>1. /\ IsOpen(channels[id])
        /\ channels' = [channels EXCEPT ![id].closeRequestedAt = now]
        /\ deposited' = deposited /\ paid' = paid /\ refunded' = refunded
        /\ vouchers' = vouchers
    BY <1>3 DEF requestClose, totals
  <2>2. /\ channels'[id].finalized = channels[id].finalized
        /\ channels'[id].payer = channels[id].payer
        /\ \A j \in ChannelIds : j # id => channels'[j] = channels[j]
    BY <2>1, OpenChannel DEF TypeOK, Channel
  <2>3. stages' = stages
    BY <2>1, <2>2 DEF stages, Stage, IsOpen
  <2> QED
    BY <2>1, <2>3, AgreedSame DEF Ideal!vars, stages, agreed
<1>4. ASSUME withdraw(sender, id)
      PROVE  Ideal!End(id)
  <2> DEFINE refund == Refund(channels[id], 0)
  <2>1. /\ IsOpen(channels[id])
        /\ channels' = [channels EXCEPT ![id] = Finalized]
        /\ refunded' = [refunded EXCEPT ![id] = @ + refund]
        /\ deposited' = deposited /\ paid' = paid /\ vouchers' = vouchers
    BY <1>4 DEF withdraw
  <2>2. refund \in Nat
        /\ channels[id].settled + 0 + refund = channels[id].deposit
    BY <2>1, OpenChannel DEF Refund
  <2>3. paid' = [paid EXCEPT ![id] = @ + 0]
    BY <2>1 DEF TypeOK
  <2> HIDE DEF refund
  <2> QED
    BY <2>1, <2>2, <2>3, EndRefines
<1>5. ASSUME NEW amount \in Amounts, close(sender, id, amount)
      PROVE  Ideal!End(id)
  <2> DEFINE c == channels[id]
             delta == IF amount > c.settled THEN Delta(c, amount) ELSE 0
             refund == Refund(c, delta)
  <2>1. /\ IsOpen(c) /\ amount \in Nat
        /\ amount > c.settled =>
             amount <= c.deposit /\ ValidVoucher(id, amount)
        /\ channels' = [channels EXCEPT ![id] = Finalized]
        /\ paid' = [paid EXCEPT ![id] = @ + delta]
        /\ refunded' = [refunded EXCEPT ![id] = @ + refund]
        /\ deposited' = deposited /\ vouchers' = vouchers
    BY <1>5, ConstantsAssumption DEF close, Amounts
  <2>2. /\ delta \in Nat /\ refund \in Nat
        /\ c.settled + delta + refund = c.deposit
        /\ delta = 0 \/ ValidVoucher(id, c.settled + delta)
    <3>1. CASE amount > c.settled
      <4>1. delta = amount - c.settled /\ c.settled + delta = amount
        BY <2>1, <3>1, OpenChannel DEF Delta
      <4> QED
        BY <2>1, <3>1, <4>1, OpenChannel DEF Refund
    <3>2. CASE ~(amount > c.settled)
      <4>1. delta = 0
        BY <3>2
      <4> QED
        BY <2>1, <4>1, OpenChannel DEF Refund
    <3> QED
      BY <3>1, <3>2
  <2> HIDE DEF delta, refund
  <2> QED
    BY <2>1, <2>2, EndRefines
<1> QED
  BY <1>1, <1>2, <1>3, <1>4, <1>5, SettleRefines DEF PayerStep, PayeeStep

LEMMA StepRefines == Inv /\ Inv' /\ [Next]_vars => [Ideal!Next]_(Ideal!vars)
<1> SUFFICES ASSUME Inv, Inv', [Next]_vars
             PROVE  Ideal!Next \/ UNCHANGED Ideal!vars
  OBVIOUS
<1>1. ASSUME NEW sender \in Accounts, NEW id \in ChannelIds,
             PayerStep(sender, id) \/ PayeeStep(sender, id)
      PROVE  Ideal!Next \/ UNCHANGED Ideal!vars
  BY <1>1, CallRefines DEF Ideal!Next
<1>2. ASSUME NEW sender \in Accounts, NEW id \in ChannelIds,
             SignStep(sender, id)
      PROVE  Ideal!Next \/ UNCHANGED Ideal!vars
  BY <1>2, SignRefines DEF SignStep, Ideal!Next
<1>3. ASSUME channels' = channels, totals' = totals, vouchers' = vouchers
      PROVE  UNCHANGED Ideal!vars
  <2>1. deposited' = deposited /\ paid' = paid /\ refunded' = refunded
    BY <1>3 DEF totals
  <2>2. stages' = stages
    BY <1>3 DEF stages, Stage, IsOpen
  <2> QED
    BY <1>3, <2>1, <2>2, AgreedSame DEF Ideal!vars, stages, agreed
<1>4. CASE Tick \/ UNCHANGED vars
  BY <1>3, <1>4 DEF Tick, vars
<1> QED
  BY <1>1, <1>2, <1>4 DEF Next

\* The contract implements the ideal channel.
THEOREM Refinement == Spec => ImplementsIdeal
<1> QED
  BY InitRefines, StepRefines, Invariance, PTL
     DEF Spec, ImplementsIdeal, Ideal!Spec
=============================================================================
