------------------------ MODULE SessionClientProofs ------------------------
(***************************************************************************)
(* The session client, for any number of calls and any prices.             *)
(*                                                                         *)
(* Alone: type correctness, every voucher pays for a request of its own,   *)
(* no credential commits to more than was asked, and calls in order open   *)
(* one channel.  With server and contract: the server never counts more    *)
(* than was signed, and refuses nothing of a client that waits.            *)
(***************************************************************************)
EXTENDS MCSessionClient, Sums

Before == {"idle", "start", "allowance", "approve", "estimate", "open",
           "register", "confirm"}

\* The amount of r does not pay for s, nor the other way round.
Apart(r, s) ==
  \/ call[r].amount + call[s].price <= call[s].amount
  \/ call[s].amount + call[r].price <= call[r].amount

\* EachPaysItsOwn speaks of the credentials returned.  It is inductive only
\* together with the calls that wait for their signature, and with the fact
\* that the entry is never below what was raised.
VoucherInv ==
  /\ \A r \in Calls : call[r].at \in Before => call[r].channel = NoEntry
  /\ \A r \in Calls : call[r].at = "sign" => call[r].channel # NoEntry
  /\ \A r \in Calls : call[r].at = "confirm" => r \in announced
  /\ \A r \in Calls : call[r].channel # NoEntry =>
       call[r].amount <= cumulative[call[r].channel]
  /\ \A r, s \in Calls :
       r # s /\ call[r].channel = call[s].channel /\ call[r].channel # NoEntry
         => Apart(r, s)
  /\ \A c \in credentials :
       /\ call[c.call].channel = c.channel
       /\ call[c.call].amount = c.signed

IInv == TypeOK /\ VoucherInv

-----------------------------------------------------------------------------
LEMMA InitIInv == Init => IInv
<1> SUFFICES ASSUME Init PROVE IInv
  OBVIOUS
<1>1. TypeOK
  <2>1. call \in [Calls -> Call]
    BY DEF Init, Call, Places
  <2> QED
    BY <2>1, ConstantsAssumption DEF Init, TypeOK
<1>2. VoucherInv
  BY DEF Init, VoucherInv, Before
<1> QED
  BY <1>1, <1>2 DEF IInv

-----------------------------------------------------------------------------
\* A call that moves on without charging anything.
LEMMA CallMoves ==
  ASSUME IInv, NEW r \in Calls, NEW c \in Call,
         TypeOK',
         call' = [call EXCEPT ![r] = c],
         UNCHANGED <<cumulative, credentials>>,
         announced \subseteq announced',
         c.channel = call[r].channel,
         c.amount = call[r].amount,
         \/ c.price = call[r].price
         \/ c.channel = NoEntry,
         c.at \in Before => call[r].at \in Before,
         c.at # "sign",
         c.at = "confirm" => r \in announced'
  PROVE  IInv'
<1> DEFINE Same(s) == /\ call'[s].channel = call[s].channel
                      /\ call'[s].amount = call[s].amount
                      /\ call[s].channel # NoEntry => call'[s].price = call[s].price
<1>1. \A s \in Calls : s # r => call'[s] = call[s]
  BY DEF IInv, TypeOK
<1>2. call'[r] = c
  BY DEF IInv, TypeOK
<1>3. \A s \in Calls : Same(s)
  BY <1>1, <1>2
<1>4. \A s \in Calls : call'[s].at \in Before => call'[s].channel = NoEntry
  BY <1>1, <1>2, <1>3 DEF IInv, VoucherInv
<1>5. \A s \in Calls : /\ call'[s].at = "sign" => call'[s].channel # NoEntry
                       /\ call'[s].at = "confirm" => s \in announced'
  BY <1>1, <1>2, <1>3 DEF IInv, VoucherInv
<1>6. \A s \in Calls : call'[s].channel # NoEntry =>
        call'[s].amount <= cumulative'[call'[s].channel]
  BY <1>3 DEF IInv, VoucherInv
<1>7. \A s, t \in Calls :
        s # t /\ call'[s].channel = call'[t].channel
          /\ call'[s].channel # NoEntry => Apart(s, t)'
  BY <1>3 DEF IInv, VoucherInv, Apart
<1>8. \A d \in credentials' : /\ call'[d.call].channel = d.channel
                              /\ call'[d.call].amount = d.signed
  BY <1>3 DEF IInv, VoucherInv, TypeOK, Credential
<1>9. VoucherInv'
  BY <1>4, <1>5, <1>6, <1>7, <1>8 DEF VoucherInv
<1> QED
  BY <1>9 DEF IInv

\* Raising the entry puts the new amount above every other one of the channel.
LEMMA ChargeRaises ==
  ASSUME IInv, NEW r \in Calls, NEW id \in Calls,
         call[r].at \in Before, Charge(r, id),
         UNCHANGED <<current, credentials, wallet, announced>>,
         confirmed' \subseteq announced'
  PROVE  IInv'
<1> DEFINE amount == cumulative[id] + call[r].price
           c == [call[r] EXCEPT !.at = "sign", !.channel = id, !.amount = amount]
<1>1. /\ call[r] \in Call
      /\ cumulative[id] \in Nat
      /\ call[r].channel = NoEntry
  BY DEF IInv, TypeOK, VoucherInv
<1>2. call[r].price \in Nat
  <2>1. Prices \cup {0} \subseteq Nat
    BY ConstantsAssumption
  <2>2. call[r].price \in Prices \cup {0}
    BY <1>1 DEF Call
  <2> HIDE DEF amount, c
  <2> QED
    BY <2>1, <2>2
<1>3. amount \in Nat
  BY <1>1, <1>2
<1>4. cumulative' = [cumulative EXCEPT ![id] = amount]
  BY DEF Charge, Charged
<1>5. call' = [call EXCEPT ![r] = c]
  <2>1. Charged(r, id)[id] = amount
    BY DEF Charged, IInv, TypeOK
  <2> QED
    BY <2>1 DEF Charge
<1>6. /\ c \in Call
      /\ c.at = "sign"
      /\ c.channel = id
      /\ c.amount = amount
      /\ c.price = call[r].price
  BY <1>1, <1>3 DEF Call, Places
<1>7. call' \in [Calls -> Call] /\ cumulative' \in [Calls -> Nat]
  BY <1>3, <1>4, <1>5, <1>6 DEF IInv, TypeOK
<1>8. TypeOK'
  BY <1>7 DEF IInv, TypeOK, wallet
<1>9. \A s \in Calls : s # r => call'[s] = call[s]
  BY <1>5 DEF IInv, TypeOK
<1>10. call'[r] = c
  BY <1>5 DEF IInv, TypeOK
<1>11. cumulative'[id] = amount
         /\ \A s \in Calls : s # id => cumulative'[s] = cumulative[s]
  BY <1>4 DEF IInv, TypeOK
<1>12. \A s \in Calls : call[s].amount \in Nat /\ call[s].channel \in Calls \cup {NoEntry}
  BY DEF IInv, TypeOK, Call
<1>13. id # NoEntry
  BY ConstantsAssumption
<1>14. \A s \in Calls : s # r /\ call[s].channel = id => call[s].amount <= cumulative[id]
  BY <1>13 DEF IInv, VoucherInv
<1> HIDE DEF c
<1>15. \A s \in Calls : call'[s].at \in Before => call'[s].channel = NoEntry
  BY <1>6, <1>9, <1>10 DEF IInv, VoucherInv, Before
<1>16. \A s \in Calls : call'[s].at = "sign" => call'[s].channel # NoEntry
  BY <1>6, <1>9, <1>10, <1>13 DEF IInv, VoucherInv
<1>17. \A s \in Calls : call'[s].at = "confirm" => s \in announced'
  BY <1>6, <1>9, <1>10 DEF IInv, VoucherInv
<1>18. \A s \in Calls : call'[s].channel # NoEntry =>
         call'[s].amount <= cumulative'[call'[s].channel]
  <2> SUFFICES ASSUME NEW s \in Calls, call'[s].channel # NoEntry
               PROVE  call'[s].amount <= cumulative'[call'[s].channel]
    OBVIOUS
  <2>1. CASE s = r
    BY <1>3, <1>6, <1>10, <1>11, <2>1
  <2>2. CASE s # r /\ call[s].channel = id
    BY <1>1, <1>2, <1>9, <1>11, <1>12, <1>14, <2>2
  <2>3. CASE s # r /\ call[s].channel # id
    BY <1>9, <1>11, <1>12, <2>3 DEF IInv, VoucherInv
  <2> QED
    BY <2>1, <2>2, <2>3
<1>19. \A s \in Calls : s # r /\ call'[s].channel = id => Apart(r, s)' /\ Apart(s, r)'
  BY <1>1, <1>2, <1>6, <1>9, <1>10, <1>12, <1>14 DEF Apart
<1>20. \A s, t \in Calls :
         s # t /\ call'[s].channel = call'[t].channel
           /\ call'[s].channel # NoEntry => Apart(s, t)'
  <2> SUFFICES ASSUME NEW s \in Calls, NEW t \in Calls, s # t,
                      call'[s].channel = call'[t].channel,
                      call'[s].channel # NoEntry
               PROVE  Apart(s, t)'
    OBVIOUS
  <2>1. CASE s = r
    BY <1>6, <1>10, <1>19, <2>1
  <2>2. CASE t = r
    BY <1>6, <1>10, <1>19, <2>2
  <2>3. CASE s # r /\ t # r
    BY <1>9, <2>3 DEF IInv, VoucherInv, Apart
  <2> QED
    BY <2>1, <2>2, <2>3
<1>21. \A d \in credentials' : /\ call'[d.call].channel = d.channel
                               /\ call'[d.call].amount = d.signed
  <2> SUFFICES ASSUME NEW d \in credentials
               PROVE  call'[d.call].channel = d.channel /\ call'[d.call].amount = d.signed
    OBVIOUS
  <2>1. d.call \in Calls /\ d.channel \in Calls
    BY DEF IInv, TypeOK, Credential
  <2>2. call[d.call].channel = d.channel /\ call[d.call].amount = d.signed
    BY DEF IInv, VoucherInv
  <2>3. d.call # r
    BY <1>1, <2>1, <2>2, ConstantsAssumption
  <2> QED
    BY <1>9, <2>1, <2>2, <2>3
<1>22. VoucherInv'
  BY <1>15, <1>16, <1>17, <1>18, <1>20, <1>21 DEF VoucherInv
<1> QED
  BY <1>8, <1>22 DEF IInv

LEMMA SignReturns ==
  ASSUME IInv, NEW r \in Calls, Sign(r)
  PROVE  IInv'
<1> DEFINE c == [call[r] EXCEPT !.at = "ended"]
           credential == [call |-> r, channel |-> call[r].channel,
                          cumulative |-> Payload(r), signed |-> call[r].amount]
<1>1. call[r] \in Call /\ call[r].at = "sign" /\ call[r].channel \in Calls
  BY DEF Sign, At, IInv, TypeOK, VoucherInv, Call
<1>2. /\ c \in Call
      /\ c.at = "ended"
      /\ c.channel = call[r].channel
      /\ c.amount = call[r].amount
      /\ c.price = call[r].price
  BY <1>1 DEF Call, Places
<1>3. /\ credential \in Credential
      /\ credential.call = r
      /\ credential.channel = call[r].channel
      /\ credential.signed = call[r].amount
  BY <1>1 DEF IInv, TypeOK, Credential, Payload, Call
<1>4. /\ call' = [call EXCEPT ![r] = c]
      /\ credentials' = credentials \cup {credential}
      /\ UNCHANGED <<current, cumulative, wallet, user>>
  BY DEF Sign, Goto
<1> HIDE DEF c, credential
<1>5. TypeOK'
  BY <1>2, <1>3, <1>4 DEF IInv, TypeOK, wallet, user
<1>6. \A s \in Calls : /\ s # r => call'[s] = call[s]
                       /\ call'[s].channel = call[s].channel
                       /\ call'[s].amount = call[s].amount
                       /\ call'[s].price = call[s].price
  BY <1>2, <1>4 DEF IInv, TypeOK
<1>7. call'[r].at = "ended"
  BY <1>2, <1>4 DEF IInv, TypeOK
<1>8. \A s \in Calls : /\ call'[s].at \in Before => call'[s].channel = NoEntry
                       /\ call'[s].at = "sign" => call'[s].channel # NoEntry
                       /\ call'[s].at = "confirm" => s \in announced'
  BY <1>4, <1>6, <1>7 DEF IInv, VoucherInv, Before, user
<1>9. \A s \in Calls : call'[s].channel # NoEntry =>
        call'[s].amount <= cumulative'[call'[s].channel]
  BY <1>4, <1>6 DEF IInv, VoucherInv
<1>10. \A s, t \in Calls :
         s # t /\ call'[s].channel = call'[t].channel
           /\ call'[s].channel # NoEntry => Apart(s, t)'
  BY <1>6 DEF IInv, VoucherInv, Apart
<1>11. \A d \in credentials' : /\ call'[d.call].channel = d.channel
                               /\ call'[d.call].amount = d.signed
  BY <1>3, <1>4, <1>6 DEF IInv, VoucherInv, TypeOK, Credential
<1>12. VoucherInv'
  BY <1>8, <1>9, <1>10, <1>11 DEF VoucherInv
<1> QED
  BY <1>5, <1>12 DEF IInv

-----------------------------------------------------------------------------
\* A call that only goes to another place.
LEMMA GoesTo ==
  ASSUME IInv, NEW r \in Calls, NEW there \in Places \ {"sign"},
         Goto(r, there),
         UNCHANGED <<cumulative, credentials>>,
         current' \in Calls \cup {NoEntry},
         allowance' \in 0 .. Deposit, funds' \in 0 .. Funds, funded' \subseteq Calls,
         announced \subseteq announced', announced' \subseteq Calls,
         confirmed' = confirmed,
         there \in Before => call[r].at \in Before,
         there = "confirm" => r \in announced'
  PROVE  IInv'
<1> DEFINE c == [call[r] EXCEPT !.at = there]
<1>1. call[r] \in Call
  BY DEF IInv, TypeOK
<1>2. /\ c \in Call
      /\ c.at = there
      /\ c.channel = call[r].channel
      /\ c.amount = call[r].amount
      /\ c.price = call[r].price
  BY <1>1 DEF Call
<1>3. call' = [call EXCEPT ![r] = c]
  BY DEF Goto
<1> HIDE DEF c
<1>4. TypeOK'
  BY <1>2, <1>3 DEF IInv, TypeOK
<1> QED
  BY <1>2, <1>3, <1>4, CallMoves

LEMMA BeginStep ==
  ASSUME IInv, NEW r \in Calls, NEW price \in Prices, Begin(r, price)
  PROVE  IInv'
<1> DEFINE c == [call[r] EXCEPT !.at = "start", !.price = price]
<1>1. call[r] \in Call /\ call[r].at = "idle"
  BY DEF Begin, At, IInv, TypeOK
<1>2. /\ c \in Call
      /\ c.at = "start"
      /\ c.channel = call[r].channel
      /\ c.amount = call[r].amount
  BY <1>1 DEF Call, Places
<1>3. call' = [call EXCEPT ![r] = c] /\ UNCHANGED <<current, cumulative, credentials, wallet, user>>
  BY DEF Begin
<1>4. call[r].channel = NoEntry
  BY <1>1 DEF IInv, VoucherInv, Before
<1> HIDE DEF c
<1>5. TypeOK'
  BY <1>2, <1>3 DEF IInv, TypeOK, wallet, user
<1>6. announced' = announced
  BY <1>3 DEF user
<1>7. call[r].at \in Before
  BY <1>1 DEF Before
<1> QED
  BY <1>2, <1>3, <1>4, <1>5, <1>6, <1>7, CallMoves

LEMMA HandleStep ==
  ASSUME IInv, NEW r \in Calls, Handle(r)
  PROVE  IInv'
<1>1. TypeOK
  BY DEF IInv
<1>2. CASE Lookup(r)
  <2>1. CASE Known /\ Charge(r, current)
    <3>1. current \in Calls
      BY <1>1, <2>1 DEF Known, TypeOK
    <3>2. call[r].at \in Before
      BY <1>2 DEF Lookup, At, Before
    <3>3. UNCHANGED <<current, credentials, wallet, announced>> /\ confirmed' \subseteq announced'
      BY <1>1, <1>2 DEF Lookup, user, TypeOK
    <3> QED
      BY <2>1, <3>1, <3>2, <3>3, ChargeRaises
  <2>2. CASE Goto(r, "allowance") /\ UNCHANGED cumulative
    BY <1>1, <1>2, <2>2, GoesTo DEF Lookup, At, Before, Places, TypeOK, wallet, user
  <2> QED
    BY <1>2, <2>1, <2>2 DEF Lookup
<1>3. CASE ReadAllowance(r)
  BY <1>1, <1>3, GoesTo DEF ReadAllowance, At, Before, Places, TypeOK, wallet, user
<1>4. CASE Approve(r)
  <2>1. allowance' \in 0 .. Deposit
    BY <1>4, ConstantsAssumption DEF Approve, NewAllowance
  <2> QED
    BY <1>1, <1>4, <2>1, GoesTo DEF Approve, At, Before, Places, TypeOK, user
<1>5. CASE Estimate(r)
  BY <1>1, <1>5, GoesTo DEF Estimate, At, Before, Places, TypeOK, wallet, user
<1>6. CASE Open(r)
  <2>1. allowance' \in 0 .. Deposit /\ funds' \in 0 .. Funds /\ funded' \subseteq Calls
    BY <1>1, <1>6, ConstantsAssumption DEF Open, Transferable, TypeOK, wallet
  <2> QED
    BY <1>1, <1>6, <2>1, GoesTo DEF Open, At, Before, Places, TypeOK, user
<1>7. CASE Register(r)
  BY <1>1, <1>7, GoesTo DEF Register, At, Before, Places, TypeOK, wallet
<1>8. CASE Confirm(r)
  <2>1. call[r].at \in Before /\ r \in announced
    BY <1>8 DEF Confirm, At, Before, IInv, VoucherInv
  <2>2. UNCHANGED <<current, credentials, wallet, announced>> /\ confirmed' \subseteq announced'
    BY <1>1, <1>8, <2>1 DEF Confirm, TypeOK
  <2>3. Charge(r, r)
    BY <1>8 DEF Confirm
  <2> QED
    BY <2>1, <2>2, <2>3, ChargeRaises
<1>9. CASE Reject(r)
  BY <1>1, <1>9, GoesTo DEF Reject, At, Before, Places, TypeOK, wallet, user
<1>10. CASE Sign(r)
  BY <1>10, SignReturns
<1> QED
  BY <1>2, <1>3, <1>4, <1>5, <1>6, <1>7, <1>8, <1>9, <1>10 DEF Handle

LEMMA RestartStep ==
  ASSUME IInv, Restart
  PROVE  IInv'
<1>1. \A r \in Calls : /\ call'[r] \in Call
                       /\ call'[r].channel = call[r].channel
                       /\ call'[r].amount = call[r].amount
                       /\ call'[r].price = call[r].price
                       /\ call'[r] = call[r] \/ call'[r].at = "ended"
  <2> SUFFICES ASSUME NEW r \in Calls
               PROVE  /\ call'[r] \in Call
                      /\ call'[r].channel = call[r].channel
                      /\ call'[r].amount = call[r].amount
                      /\ call'[r].price = call[r].price
                      /\ call'[r] = call[r] \/ call'[r].at = "ended"
    OBVIOUS
  <2>1. call[r] \in Call
    BY DEF IInv, TypeOK
  <2> DEFINE c == [call[r] EXCEPT !.at = "ended"]
  <2>2. /\ c \in Call
        /\ c.at = "ended"
        /\ c.channel = call[r].channel
        /\ c.amount = call[r].amount
        /\ c.price = call[r].price
    BY <2>1 DEF Call, Places
  <2>3. call'[r] = IF InFlight(r) THEN c ELSE call[r]
    BY DEF Restart
  <2> HIDE DEF c
  <2> QED
    BY <2>1, <2>2, <2>3
<1>2. UNCHANGED <<cumulative, credentials, wallet, user>>
  BY DEF Restart
<1>3. TypeOK'
  <2>1. call' \in [Calls -> Call]
    BY <1>1 DEF Restart
  <2> QED
    BY <1>2, <2>1 DEF Restart, IInv, TypeOK, wallet, user
<1>4. \A s \in Calls : /\ call'[s].at \in Before => call'[s].channel = NoEntry
                       /\ call'[s].at = "sign" => call'[s].channel # NoEntry
                       /\ call'[s].at = "confirm" => s \in announced'
  BY <1>1, <1>2 DEF IInv, VoucherInv, Before, user
<1>5. \A s \in Calls : call'[s].channel # NoEntry =>
        call'[s].amount <= cumulative'[call'[s].channel]
  BY <1>1, <1>2 DEF IInv, VoucherInv
<1>6. \A s, t \in Calls :
        s # t /\ call'[s].channel = call'[t].channel
          /\ call'[s].channel # NoEntry => Apart(s, t)'
  BY <1>1 DEF IInv, VoucherInv, Apart
<1>7. \A d \in credentials' : /\ call'[d.call].channel = d.channel
                              /\ call'[d.call].amount = d.signed
  BY <1>1, <1>2 DEF IInv, VoucherInv, TypeOK, Credential
<1>8. VoucherInv'
  BY <1>4, <1>5, <1>6, <1>7 DEF VoucherInv
<1> QED
  BY <1>3, <1>8 DEF IInv

LEMMA StepIInv == IInv /\ [Next]_vars => IInv'
<1> SUFFICES ASSUME IInv, [Next]_vars PROVE IInv'
  OBVIOUS
<1>1. ASSUME NEW r \in Calls, Fail(r)
      PROVE  IInv'
  BY <1>1, GoesTo DEF Fail, Before, Places, IInv, TypeOK, wallet, user
<1>2. CASE UNCHANGED vars
  BY <1>2 DEF vars, wallet, user, IInv, TypeOK, VoucherInv, Apart
<1> QED
  BY <1>1, <1>2, HandleStep, BeginStep, RestartStep DEF Next, ReliableNext

-----------------------------------------------------------------------------
\* createCredential() keeps every variable in its type: no allowance and no
\* balance is used twice, and no channel is confirmed that was not announced.
THEOREM TypeCorrect == Spec => []TypeOK
<1>1. IInv => TypeOK
  BY DEF IInv
<1> QED
  BY <1>1, InitIInv, StepIInv, PTL DEF Spec

\* However calls of createCredential() interleave, fail or are cut off by a
\* restart, the vouchers they sign for one channel are apart by the price of
\* the request of the higher one.
THEOREM EachAlwaysPaysItsOwn == Spec => []EachPaysItsOwn
<1>1. IInv => EachPaysItsOwn
  <2> SUFFICES ASSUME IInv, NEW c \in credentials, NEW d \in credentials,
                      c.call # d.call, c.channel = d.channel
               PROVE  \/ c.signed + PriceOf(d.call) <= d.signed
                      \/ d.signed + PriceOf(c.call) <= c.signed
    BY DEF EachPaysItsOwn
  <2>1. /\ c.call \in Calls /\ d.call \in Calls
        /\ c.channel \in Calls
    BY DEF IInv, TypeOK, Credential
  <2>2. /\ call[c.call].channel = c.channel /\ call[c.call].amount = c.signed
        /\ call[d.call].channel = d.channel /\ call[d.call].amount = d.signed
    BY DEF IInv, VoucherInv
  <2>3. call[c.call].channel # NoEntry
    BY <2>1, <2>2, ConstantsAssumption
  <2>4. Apart(c.call, d.call)
    BY <2>1, <2>2, <2>3 DEF IInv, VoucherInv
  <2> QED
    BY <2>2, <2>4 DEF Apart, PriceOf
<1> QED
  BY <1>1, InitIInv, StepIInv, PTL DEF Spec

-----------------------------------------------------------------------------
\* What a channel's entry has been raised to is what its requests have been
\* asked, and no credential says more than the entry.
SumInv ==
  /\ \A id \in Calls : cumulative[id] = Asked(id)
  /\ \A c \in credentials : c.cumulative <= cumulative[c.channel]

LEMMA PriceType ==
  ASSUME IInv, NEW r \in Calls
  PROVE  call[r].price \in Nat
<1>1. Prices \cup {0} \subseteq Nat
  BY ConstantsAssumption
<1>2. call[r].price \in Prices \cup {0}
  BY DEF IInv, TypeOK, Call
<1> QED
  BY <1>1, <1>2

\* A step that raises no entry leaves every call on its channel, at its price.
Raises(r, id) ==
  /\ Charge(r, id)
  /\ call[r].at \in Before
  /\ credentials' = credentials

Keeps ==
  /\ cumulative' = cumulative
  /\ \A c \in credentials' \ credentials : c.cumulative <= cumulative[c.channel]
  /\ \A r \in Calls :
       /\ call'[r].channel = call[r].channel
       /\ call'[r].channel # NoEntry => call'[r].price = call[r].price

LEMMA MovesKeeps ==
  ASSUME IInv, NEW r \in Calls, NEW there, Goto(r, there),
         UNCHANGED <<cumulative, credentials>>
  PROVE  Keeps
<1>1. \A s \in Calls : call[s] \in Call /\ call' = [call EXCEPT ![r] = [call[r] EXCEPT !.at = there]]
  BY DEF IInv, TypeOK, Goto
<1> QED
  BY <1>1 DEF Keeps, IInv, TypeOK, Call

LEMMA StepKinds ==
  ASSUME IInv, [Next]_vars
  PROVE  Keeps \/ \E r, id \in Calls : Raises(r, id)
<1>1. TypeOK
  BY DEF IInv
<1>2. ASSUME NEW r \in Calls, Handle(r)
      PROVE  Keeps \/ \E id \in Calls : Raises(r, id)
  <2>1. CASE Lookup(r)
    <3>1. CASE Known /\ Charge(r, current)
      <4>1. current \in Calls
        BY <1>1, <3>1 DEF Known, TypeOK
      <4>2. Raises(r, current)
        BY <2>1, <3>1 DEF Raises, Lookup, At, Before
      <4> QED
        BY <4>1, <4>2
    <3>2. CASE Goto(r, "allowance") /\ UNCHANGED cumulative
      BY <2>1, <3>2, MovesKeeps DEF Lookup
    <3> QED
      BY <2>1, <3>1, <3>2 DEF Lookup
  <2>2. CASE ReadAllowance(r) \/ Approve(r) \/ Estimate(r) \/ Open(r) \/ Register(r) \/ Reject(r)
    BY <2>2, MovesKeeps DEF ReadAllowance, Approve, Estimate, Open, Register, Reject
  <2>3. CASE Confirm(r)
    BY <2>3 DEF Confirm, Raises, At, Before
  <2>4. CASE Sign(r)
    <3>1. call[r] \in Call /\ call[r].at = "sign" /\ call[r].channel \in Calls
      BY <2>4 DEF Sign, At, IInv, TypeOK, VoucherInv, Call
    <3>2. \A c \in credentials' \ credentials : c.cumulative = cumulative[c.channel]
      BY <2>4 DEF Sign, Payload
    <3>3. cumulative[call[r].channel] \in Nat
      BY <1>1, <3>1 DEF TypeOK
    <3>4. \A c \in credentials' \ credentials : c.cumulative <= cumulative[c.channel]
      BY <2>4, <3>3 DEF Sign, Payload
    <3>5. call' = [call EXCEPT ![r] = [call[r] EXCEPT !.at = "ended"]] /\ cumulative' = cumulative
      BY <2>4 DEF Sign, Goto
    <3> QED
      BY <1>1, <3>4, <3>5 DEF Keeps, TypeOK, Call
  <2> QED
    BY <1>2, <2>1, <2>2, <2>3, <2>4 DEF Handle
<1>3. ASSUME NEW r \in Calls, NEW price \in Prices, Begin(r, price)
      PROVE  Keeps
  <2>1. call[r].channel = NoEntry
    BY <1>3 DEF Begin, At, IInv, VoucherInv, Before
  <2> QED
    BY <1>1, <1>3, <2>1 DEF Begin, Keeps, TypeOK, Call
<1>4. ASSUME NEW r \in Calls, Fail(r)
      PROVE  Keeps
  BY <1>4, MovesKeeps DEF Fail
<1>5. CASE Restart
  <2>1. \A r \in Calls : call[r] \in Call
    BY <1>1 DEF TypeOK
  <2> QED
    BY <1>5, <2>1 DEF Restart, Keeps, Call
<1>6. CASE UNCHANGED vars
  BY <1>6 DEF vars, Keeps
<1> QED
  BY <1>2, <1>3, <1>4, <1>5, <1>6 DEF Next, ReliableNext

LEMMA InitSumInv == Init => SumInv
<1> SUFFICES ASSUME Init PROVE SumInv
  OBVIOUS
<1>1. ASSUME NEW id \in Calls PROVE cumulative[id] = Asked(id)
  <2> DEFINE f == [r \in Calls |-> AskedOf(r, id)]
  <2>1. \A r \in Calls : f[r] = 0
    BY DEF Init, AskedOf, PriceOf
  <2>2. Asked(id) = SumFunctionOnSet(f, Calls)
    BY DEF Asked, SumFunction
  <2> HIDE DEF f
  <2> QED
    BY <2>1, <2>2, SumZero, ConstantsAssumption DEF Init
<1> QED
  BY <1>1 DEF SumInv, Init

LEMMA KeepsSumInv ==
  ASSUME IInv, IInv', SumInv, Keeps
  PROVE  SumInv'
<1>1. ASSUME NEW id \in Calls PROVE Asked(id)' = Asked(id)
  <2> DEFINE f == [r \in Calls |-> AskedOf(r, id)]
             g == [r \in Calls |-> AskedOf(r, id)']
  <2>1. \A r \in Calls : f[r] \in Int
    BY PriceType DEF AskedOf, PriceOf
  <2>2. \A r \in Calls : f[r] = g[r]
    BY ConstantsAssumption DEF Keeps, AskedOf, PriceOf
  <2>3. Asked(id) = SumFunctionOnSet(f, Calls) /\ Asked(id)' = SumFunctionOnSet(g, Calls)
    BY DEF Asked, SumFunction
  <2> HIDE DEF f, g
  <2> QED
    BY <2>1, <2>2, <2>3, SumSame, ConstantsAssumption
<1> QED
  BY <1>1 DEF SumInv, Keeps

LEMMA RaisesSumInv ==
  ASSUME IInv, IInv', SumInv, NEW r \in Calls, NEW k \in Calls, Raises(r, k)
  PROVE  SumInv'
<1>1. /\ call[r].channel = NoEntry /\ call[r] \in Call /\ call[r].price \in Nat
      /\ cumulative \in [Calls -> Nat] /\ call \in [Calls -> Call]
  BY PriceType DEF Raises, IInv, VoucherInv, TypeOK
<1>2. /\ cumulative' = [cumulative EXCEPT ![k] = @ + call[r].price]
      /\ \A s \in Calls : s # r => call'[s] = call[s]
      /\ call'[r].channel = k /\ call'[r].price = call[r].price
  BY <1>1 DEF Raises, Charge, Charged, Call
<1>3. ASSUME NEW id \in Calls PROVE cumulative'[id] = Asked(id)'
  <2> DEFINE f == [s \in Calls |-> AskedOf(s, id)]
             g == [s \in Calls |-> AskedOf(s, id)']
  <2>1. \A s \in Calls : f[s] \in Int
    BY PriceType DEF AskedOf, PriceOf
  <2>2. \A s \in Calls : s # r => f[s] = g[s]
    BY <1>2 DEF AskedOf, PriceOf
  <2>3. f[r] = 0 /\ g[r] = IF id = k THEN call[r].price ELSE 0
    BY <1>1, <1>2, ConstantsAssumption DEF AskedOf, PriceOf
  <2>4. \A s \in Calls : g[s] \in Int
    BY <1>1, <2>1, <2>2, <2>3
  <2>5. Asked(id) = SumFunctionOnSet(f, Calls) /\ Asked(id)' = SumFunctionOnSet(g, Calls)
    BY DEF Asked, SumFunction
  <2>6. cumulative[id] = Asked(id) /\ cumulative[id] \in Nat
    BY <1>1 DEF SumInv
  <2> HIDE DEF f, g
  <2>7. SumFunctionOnSet(g, Calls) = SumFunctionOnSet(f, Calls) - f[r] + g[r]
    BY <2>1, <2>2, <2>4, SumChange, ConstantsAssumption
  <2> QED
    BY <1>1, <1>2, <2>3, <2>5, <2>6, <2>7
<1>4. ASSUME NEW c \in credentials' PROVE c.cumulative <= cumulative'[c.channel]
  <2>1. /\ c \in credentials /\ c.channel \in Calls /\ c.cumulative \in Nat
        /\ c.cumulative <= cumulative[c.channel]
    BY DEF Raises, SumInv, IInv, TypeOK, Credential
  <2>2. cumulative[c.channel] \in Nat /\ cumulative[c.channel] <= cumulative'[c.channel]
    BY <1>1, <1>2, <2>1
  <2> QED
    BY <1>1, <1>2, <2>1, <2>2
<1> QED
  BY <1>3, <1>4 DEF SumInv

LEMMA StepSumInv == IInv /\ IInv' /\ SumInv /\ [Next]_vars => SumInv'
  BY StepKinds, KeepsSumInv, RaisesSumInv

\* However many requests there are on a channel, and whatever fails, is repeated
\* or runs concurrently, its vouchers commit the payer to no more than what the
\* requests have been asked together.
THEOREM NeverCommitsMore == Spec => []NeverOvercommitted
<1>1. IInv /\ SumInv => NeverOvercommitted
  <2> SUFFICES ASSUME IInv, SumInv, NEW c \in credentials
               PROVE  c.signed <= Asked(c.channel) /\ c.cumulative <= Asked(c.channel)
    BY DEF NeverOvercommitted
  <2>1. /\ c.call \in Calls /\ c.channel \in Calls
        /\ call[c.call].channel = c.channel /\ call[c.call].amount = c.signed
        /\ c.channel # NoEntry
    BY ConstantsAssumption DEF IInv, TypeOK, Credential, VoucherInv
  <2>2. c.signed <= cumulative[c.channel] /\ c.cumulative <= cumulative[c.channel]
    BY <2>1 DEF IInv, VoucherInv, SumInv
  <2> QED
    BY <2>1, <2>2 DEF SumInv
<1> QED
  BY <1>1, InitIInv, StepIInv, InitSumInv, StepSumInv, PTL DEF Spec

-----------------------------------------------------------------------------
\* Whatever part a behaviour takes, the client does what it may do alone.
LEMMA ClientSteps == [MCNext]_<<payments, part>> => [Next]_vars
<1>1. ASSUME NEW r \in Calls, ClientStep(r) PROVE Handle(r)
  BY <1>1 DEF ClientStep, OpenOnChain, SignVoucher, Handle
<1>2. ASSUME NEW r \in Calls, Request(r) PROVE Next
  BY <1>2, PaymentsAssumption DEF Request, Next, ReliableNext
<1>3. ASSUME JointNext PROVE [Next]_vars
  BY <1>1, <1>2, <1>3 DEF JointNext, Settle, ServerStep, Present, Failure, Next, ReliableNext
<1>4. ASSUME InTurn PROVE [Next]_vars
  BY <1>1, <1>2, <1>4 DEF InTurn, Settle, ServerStep, Present, Next, ReliableNext
<1>5. SerialNext => Next
  BY DEF SerialNext, Next, ReliableNext
<1> QED
  BY <1>3, <1>4, <1>5 DEF MCNext, payments

LEMMA MCIInv == MCSpec => [](IInv /\ SumInv)
<1>1. MCInit => IInv /\ SumInv
  BY InitIInv, InitSumInv DEF MCInit, JointInit
<1>2. IInv /\ SumInv /\ [MCNext]_<<payments, part>> => (IInv /\ SumInv)'
  BY ClientSteps, StepIInv, StepSumInv
<1> QED
  BY <1>1, <1>2, PTL DEF MCSpec

-----------------------------------------------------------------------------
\* Where a call opens a channel.
Opening == {"allowance", "approve", "estimate", "open"}

\* One call at a time; it opens a channel only if none is known or funded, and
\* makes it known before it ends.
OnceInv ==
  /\ \A r, s \in Calls : InFlight(r) /\ InFlight(s) => r = s
  /\ \A r \in Calls : call[r].at \in Opening => current = NoEntry /\ funded = {}
  /\ funded = {} \/ \E r \in Calls : funded = {r}
  /\ current = NoEntry /\ funded # {} => \E r \in Calls : call[r].at = "register"

InOrder == part \in {"serial", "in turn"}

\* In both parts that are in order, a client's step is one of SerialNext.
LEMMA OrderedSteps ==
  ASSUME InOrder, [MCNext]_<<payments, part>>
  PROVE  [SerialNext]_vars /\ part' = part
<1>1. ASSUME NEW r \in Calls, ClientStep(r) PROVE Handle(r)
  BY <1>1 DEF ClientStep, OpenOnChain, SignVoucher, Handle
<1>2. ASSUME NEW r \in Calls, Request(r), Idle PROVE SerialNext
  BY <1>2, PaymentsAssumption DEF Request, Idle, SerialNext
<1>3. ASSUME InTurn PROVE [SerialNext]_vars
  BY <1>1, <1>2, <1>3 DEF InTurn, Settle, ServerStep, Present, SerialNext
<1> QED
  BY <1>3 DEF MCNext, payments, InOrder

\* A call that goes on, with what the map and the contract hold as they are.
LEMMA OnceMoves ==
  ASSUME IInv, OnceInv, NEW r \in Calls, NEW c,
         call' = [call EXCEPT ![r] = c], UNCHANGED <<current, funded>>,
         InFlight(r) \/ \A s \in Calls : ~InFlight(s),
         call[r].at # "register",
         c.at \in Opening => call[r].at \in Opening \/ (current = NoEntry /\ funded = {})
  PROVE  OnceInv'
<1>1. /\ \A s \in Calls : s # r => call'[s] = call[s]
      /\ call'[r] = c
  BY DEF IInv, TypeOK
<1>2. \A s \in Calls : s # r /\ InFlight(r)' => ~InFlight(s) /\ ~InFlight(s)'
  BY <1>1 DEF OnceInv, InFlight
<1>3. \A s, t \in Calls : InFlight(s)' /\ InFlight(t)' => s = t
  BY <1>1 DEF OnceInv, InFlight
<1>4. \A s \in Calls : call'[s].at \in Opening => current' = NoEntry /\ funded' = {}
  BY <1>1 DEF OnceInv
<1>5. current' = NoEntry /\ funded' # {} => \E s \in Calls : call'[s].at = "register"
  BY <1>1 DEF OnceInv
<1> QED
  BY <1>3, <1>4, <1>5 DEF OnceInv

LEMMA StepOnceInv ==
  ASSUME IInv, OnceInv, [SerialNext]_vars
  PROVE  OnceInv'
<1>1. /\ call \in [Calls -> Call] /\ NoEntry \notin Calls
  BY ConstantsAssumption DEF IInv, TypeOK
<1>2. ASSUME NEW r \in Calls, NEW there, Goto(r, there)
      PROVE  \E c : call' = [call EXCEPT ![r] = c] /\ c.at = there
  <2>1. [call[r] EXCEPT !.at = there].at = there
    BY <1>1 DEF Call
  <2> QED
    BY <1>2, <2>1 DEF Goto
<1>3. ASSUME NEW r \in Calls, NEW k \in Calls, Charge(r, k)
      PROVE  \E c : call' = [call EXCEPT ![r] = c] /\ c.at = "sign"
  <2>1. [call[r] EXCEPT !.at = "sign", !.channel = k, !.amount = Charged(r, k)[k]].at = "sign"
    BY <1>1 DEF Call
  <2> QED
    BY <1>3, <2>1 DEF Charge
<1>4. ASSUME NEW r \in Calls, Lookup(r) PROVE OnceInv'
  <2>1. InFlight(r) /\ call[r].at = "start" /\ UNCHANGED <<current, funded>>
    BY <1>4 DEF Lookup, At, InFlight, wallet
  <2>2. CASE Known /\ Charge(r, current)
    <3>1. PICK c : call' = [call EXCEPT ![r] = c] /\ c.at = "sign"
      BY <1>3, <2>2 DEF Known, IInv, TypeOK
    <3> QED
      BY <2>1, <3>1, OnceMoves DEF Opening
  <2>3. CASE ~Known /\ Goto(r, "allowance")
    <3>1. PICK c : call' = [call EXCEPT ![r] = c] /\ c.at = "allowance"
      BY <1>2, <2>3
    <3>2. current = NoEntry /\ funded = {}
      BY <2>1, <2>3 DEF Known, OnceInv, InFlight
    <3> QED
      BY <2>1, <3>1, <3>2, OnceMoves
  <2> QED
    BY <1>4, <2>2, <2>3 DEF Lookup
<1>5. ASSUME NEW r \in Calls, ReadAllowance(r) \/ Approve(r) \/ Estimate(r)
      PROVE  OnceInv'
  <2>1. /\ InFlight(r) /\ call[r].at \in Opening /\ call[r].at # "register"
        /\ UNCHANGED <<current, funded>>
    BY <1>5 DEF ReadAllowance, Approve, Estimate, At, InFlight, Opening, wallet
  <2>2. \E there : Goto(r, there)
    BY <1>5 DEF ReadAllowance, Approve, Estimate
  <2>3. PICK c : call' = [call EXCEPT ![r] = c]
    BY <1>2, <2>2
  <2> QED
    BY <2>1, <2>3, OnceMoves
<1>6. ASSUME NEW r \in Calls, Confirm(r) \/ Reject(r) \/ Sign(r)
      PROVE  OnceInv'
  <2>1. InFlight(r) /\ call[r].at # "register" /\ UNCHANGED <<current, funded>>
    BY <1>6 DEF Confirm, Reject, Sign, At, InFlight, wallet
  <2>2. PICK c : call' = [call EXCEPT ![r] = c] /\ c.at \notin Opening
    BY <1>2, <1>3, <1>6 DEF Confirm, Reject, Sign, Opening
  <2> QED
    BY <2>1, <2>2, OnceMoves
<1>7. ASSUME NEW r \in Calls, Open(r) PROVE OnceInv'
  <2>1. InFlight(r) /\ call[r].at = "open" /\ current = NoEntry /\ funded = {} /\ current' = current
    BY <1>7 DEF Open, At, InFlight, OnceInv, Opening
  <2>2. funded' = {r} \/ funded' = {}
    BY <1>7, <2>1 DEF Open, wallet
  <2>3. PICK c : call' = [call EXCEPT ![r] = c] /\ c.at = "register"
    BY <1>2, <1>7 DEF Open
  <2>4. call'[r].at = "register" /\ \A s \in Calls : s # r => call'[s] = call[s] /\ ~InFlight(s)
    BY <1>1, <2>1, <2>3 DEF OnceInv
  <2>5. \A s \in Calls : s # r => call'[s].at \in {"idle", "ended"}
    BY <2>4 DEF InFlight
  <2> QED
    BY <2>2, <2>4, <2>5 DEF OnceInv, InFlight, Opening
<1>8. ASSUME NEW r \in Calls, Register(r) PROVE OnceInv'
  <2>1. InFlight(r) /\ current' = r /\ funded' = funded
    BY <1>8 DEF Register, At, InFlight, wallet
  <2>2. PICK c : call' = [call EXCEPT ![r] = c] /\ c.at = "confirm"
    BY <1>2, <1>8 DEF Register
  <2>3. call'[r].at = "confirm" /\ \A s \in Calls : s # r => call'[s] = call[s] /\ ~InFlight(s)
    BY <1>1, <2>1, <2>2 DEF OnceInv
  <2>4. \A s \in Calls : s # r => call'[s].at \in {"idle", "ended"}
    BY <2>3 DEF InFlight
  <2> QED
    BY <1>1, <2>1, <2>3, <2>4 DEF OnceInv, InFlight, Opening
<1>9. ASSUME NEW r \in Calls, NEW price, Begin(r, price), \A s \in Calls : ~InFlight(s)
      PROVE  OnceInv'
  <2>1. [call[r] EXCEPT !.at = "start", !.price = price].at = "start"
    BY <1>1 DEF Call
  <2>2. \E c : call' = [call EXCEPT ![r] = c] /\ c.at = "start"
    BY <1>9, <2>1 DEF Begin
  <2> QED
    BY <1>9, <2>2, OnceMoves DEF Begin, At, Opening, wallet
<1>10. CASE UNCHANGED vars
  BY <1>10 DEF vars, wallet, OnceInv, InFlight
<1> QED
  BY <1>4, <1>5, <1>6, <1>7, <1>8, <1>9, <1>10 DEF SerialNext, Handle

\* A client whose calls do not overlap has opened one channel at most, alone or
\* with server and contract, whatever the user confirms or rejects.
THEOREM AlwaysOpensOnce == MCSpec => []OpensOnce
<1>1. MCInit => (InOrder => OnceInv)
  BY DEF MCInit, JointInit, Init, OnceInv, InFlight, Opening
<1>2. IInv /\ (InOrder => OnceInv) /\ [MCNext]_<<payments, part>> => (InOrder => OnceInv)'
  <2> SUFFICES ASSUME IInv, InOrder => OnceInv, [MCNext]_<<payments, part>>, InOrder'
               PROVE  OnceInv'
    OBVIOUS
  <2>1. InOrder
    BY DEF MCNext, payments, InOrder
  <2> QED
    BY <2>1, OrderedSteps, StepOnceInv
<1>3. (InOrder => OnceInv) => OpensOnce
  <2> SUFFICES ASSUME InOrder, OnceInv PROVE Cardinality(funded) <= 1
    BY DEF OpensOnce, InOrder
  <2>1. CASE funded = {}
    BY <2>1, FS_EmptySet
  <2>2. ASSUME NEW r \in Calls, funded = {r} PROVE Cardinality(funded) <= 1
    BY <2>2, FS_Singleton
  <2> QED
    BY <2>1, <2>2 DEF OnceInv
<1> QED
  BY <1>1, <1>2, <1>3, MCIInv, PTL DEF MCSpec

-----------------------------------------------------------------------------
\* Each call has one credential at most, once it has ended, and the sum it says
\* covers its own price.  What has been presented is a credential.
CredentialInv ==
  /\ \A k \in credentials : call[k.call].at = "ended" /\ PriceOf(k.call) <= k.cumulative
  /\ \A k, l \in credentials : k.call = l.call => k = l
  /\ \A r \in Calls : call[r].channel # NoEntry => PriceOf(r) <= cumulative[call[r].channel]
  /\ presented \subseteq credentials

\* With the server, each request that has begun is asked the same.
PriceInv == ~Alone => \A r \in Calls : call[r].at # "idle" => PriceOf(r) = Amount

\* Store and requests are functions, and their values records.
IsState(s) ==
  s = [exists |-> s.exists, deposit |-> s.deposit, settledOnChain |-> s.settledOnChain,
       highestVoucherAmount |-> s.highestVoucherAmount, spent |-> s.spent,
       units |-> s.units, finalized |-> s.finalized]

ShapeInv ==
  /\ store = [id \in {Id(r) : r \in Calls} |-> store[id]]
  /\ req = [q \in Presentations |-> req[q]]
  /\ \A r \in Calls : IsState(store[Id(r)]) /\ store[Id(r)].spent \in Nat

\* What a request under way may still count on a channel, and what the server
\* may still be presented for a call.
DueOf(q, r) == IF Server!InFlight(q) /\ req[q].channelId = Id(r) THEN Amount ELSE 0
Due(r) == SumFunction([q \in Presentations |-> DueOf(q, r)])

LeftOf(c, r) ==
  IF call[c].channel = r /\ \A k \in presented : k.call # c THEN Amount ELSE 0
Left(r) == SumFunction([c \in Calls |-> LeftOf(c, r)])

\* If each credential is presented once, what is counted, under way and left to
\* present is no more than what was signed.
SpendInv == \A r \in Calls : store[Id(r)].spent + Due(r) + Left(r) <= cumulative[r]

\* A request in turn: its voucher is above the record by the price, at least.
Worth(q) ==
  \E r \in Calls :
    /\ req[q].channelId = Id(r)
    /\ req[q].action \in {"open", "voucher"}
    /\ req[q].cumulative \in Amount .. cumulative[r]
    /\ req[q].action = "voucher" /\ req[q].at = "write" =>
         store[Id(r)].highestVoucherAmount + Amount <= req[q].cumulative

\* If requests are answered in turn, the highest voucher covers what is counted,
\* even of credentials that are presented again.
TurnInv ==
  /\ \A p, q \in Presentations : Server!InFlight(p) /\ Server!InFlight(q) => p = q
  /\ \A q \in Presentations : Server!InFlight(q) => Worth(q)
  /\ \A r \in Calls :
       /\ store[Id(r)].highestVoucherAmount \in 0 .. cumulative[r]
       /\ store[Id(r)].spent <= store[Id(r)].highestVoucherAmount

ChargedInv ==
  /\ Alone => \A r \in Calls : store[Id(r)].spent = 0
  /\ part = "payments" => SpendInv
  /\ part = "in turn" => TurnInv

LEMMA AmountType == Amount \in Nat \ {0}
  BY PaymentsAssumption, ConstantsAssumption

\* A call that has ended does nothing more, and only a signature returns one.
LEMMA StepEnds ==
  ASSUME IInv, [Next]_vars
  PROVE  /\ \A r \in Calls : call[r].at = "ended" => call'[r].at = "ended"
         /\ credentials' = credentials \/ \E r \in Calls : Sign(r)
<1>1. call \in [Calls -> Call]
  BY DEF IInv, TypeOK
<1>2. ASSUME NEW r \in Calls, NEW there, Goto(r, there), call[r].at # "ended"
      PROVE  \A s \in Calls : call[s].at = "ended" => call'[s].at = "ended"
  BY <1>1, <1>2 DEF Goto
<1>3. ASSUME NEW r \in Calls, NEW k, Charge(r, k), call[r].at # "ended"
      PROVE  \A s \in Calls : call[s].at = "ended" => call'[s].at = "ended"
  BY <1>1, <1>3 DEF Charge
<1>4. ASSUME NEW r \in Calls, Handle(r)
      PROVE  /\ \A s \in Calls : call[s].at = "ended" => call'[s].at = "ended"
             /\ credentials' = credentials \/ Sign(r)
  <2>1. CASE Lookup(r)
    BY <2>1, <1>2, <1>3 DEF Lookup, At
  <2>2. CASE ReadAllowance(r) \/ Approve(r) \/ Estimate(r) \/ Open(r)
    BY <2>2, <1>2 DEF ReadAllowance, Approve, Estimate, Open, At
  <2>3. CASE Register(r) \/ Reject(r)
    BY <2>3, <1>2 DEF Register, Reject, At
  <2>4. CASE Confirm(r)
    BY <2>4, <1>3 DEF Confirm, At
  <2>5. CASE Sign(r)
    BY <2>5, <1>2 DEF Sign, At
  <2> QED
    BY <1>4, <2>1, <2>2, <2>3, <2>4, <2>5 DEF Handle
<1>5. ASSUME NEW r \in Calls, NEW price, Begin(r, price)
      PROVE  /\ \A s \in Calls : call[s].at = "ended" => call'[s].at = "ended"
             /\ credentials' = credentials
  BY <1>1, <1>5 DEF Begin, At
<1>6. ASSUME NEW r \in Calls, Fail(r)
      PROVE  /\ \A s \in Calls : call[s].at = "ended" => call'[s].at = "ended"
             /\ credentials' = credentials
  BY <1>6, <1>2 DEF Fail, InFlight
<1>7. CASE Restart
  BY <1>7 DEF Restart, InFlight
<1>8. CASE UNCHANGED vars
  BY <1>8 DEF vars
<1> QED
  BY <1>4, <1>5, <1>6, <1>7, <1>8 DEF Next, ReliableNext

\* No step lowers an entry.
LEMMA SumsRise ==
  ASSUME IInv, [Next]_vars, NEW r \in Calls
  PROVE  /\ cumulative[r] \in Nat /\ cumulative'[r] \in Nat
         /\ cumulative[r] <= cumulative'[r]
<1>1. cumulative \in [Calls -> Nat] /\ cumulative' \in [Calls -> Nat]
  BY StepIInv DEF IInv, TypeOK
<1>2. CASE Keeps
  BY <1>1, <1>2 DEF Keeps
<1>3. ASSUME NEW s \in Calls, NEW k \in Calls, Raises(s, k)
      PROVE  cumulative[r] <= cumulative'[r]
  <2>1. cumulative' = [cumulative EXCEPT ![k] = @ + call[s].price] /\ call[s].price \in Nat
    BY <1>3, PriceType DEF Raises, Charge, Charged
  <2> QED
    BY <1>1, <2>1
<1> QED
  BY <1>1, <1>2, <1>3, StepKinds

\* What a charge leaves behind.
LEMMA RaisesOne ==
  ASSUME IInv, NEW r \in Calls, NEW k \in Calls, Raises(r, k)
  PROVE  /\ call[r].channel = NoEntry /\ call[r].at \in Before
         /\ call'[r].channel = k /\ call'[r].price = call[r].price
         /\ call[r].price \in Nat
         /\ \A s \in Calls : s # r => call'[s] = call[s]
         /\ cumulative'[k] = cumulative[k] + call[r].price
         /\ \A s \in Calls : s # k => cumulative'[s] = cumulative[s]
<1>1. /\ call[r].channel = NoEntry /\ call[r] \in Call /\ call[r].price \in Nat
      /\ cumulative \in [Calls -> Nat] /\ call \in [Calls -> Call]
  BY PriceType DEF Raises, IInv, VoucherInv, TypeOK
<1> QED
  BY <1>1 DEF Raises, Charge, Charged, Call

LEMMA ClientCredentials ==
  ASSUME IInv, CredentialInv, [Next]_vars, presented' = presented
  PROVE  CredentialInv'
<1>1. /\ \A k \in credentials : k.call \in Calls /\ k.channel \in Calls
      /\ \A k \in credentials : k.cumulative \in Nat
      /\ \A k \in credentials : call[k.call].channel = k.channel /\ k.channel # NoEntry
      /\ \A r \in Calls : call[r].channel \in Calls \cup {NoEntry}
      /\ \A r \in Calls : PriceOf(r) \in Nat
  BY PriceType, ConstantsAssumption DEF IInv, TypeOK, VoucherInv, Credential, Call, PriceOf
<1>2. \A r \in Calls : /\ cumulative[r] \in Nat /\ cumulative'[r] \in Nat
                       /\ cumulative[r] <= cumulative'[r]
  BY SumsRise
<1>3. \A r \in Calls : call[r].channel # NoEntry =>
        call'[r].channel = call[r].channel /\ PriceOf(r)' = PriceOf(r)
  <2>1. CASE Keeps
    BY <2>1 DEF Keeps, PriceOf
  <2>2. ASSUME NEW r \in Calls, NEW k \in Calls, Raises(r, k)
        PROVE  \A s \in Calls : call[s].channel # NoEntry =>
                 call'[s].channel = call[s].channel /\ PriceOf(s)' = PriceOf(s)
    BY <2>2, RaisesOne DEF PriceOf
  <2> QED
    BY <2>1, <2>2, StepKinds
<1>4. \A r \in Calls : call'[r].channel # NoEntry => PriceOf(r)' <= cumulative'[call'[r].channel]
  <2>1. ASSUME NEW r \in Calls, call[r].channel # NoEntry
        PROVE  PriceOf(r)' <= cumulative'[call'[r].channel]
    <3>1. /\ PriceOf(r) <= cumulative[call[r].channel] /\ call[r].channel \in Calls
          /\ PriceOf(r)' = PriceOf(r) /\ call'[r].channel = call[r].channel
      BY <1>1, <1>3, <2>1 DEF CredentialInv
    <3> QED
      BY <1>1, <1>2, <3>1
  <2>2. ASSUME NEW r \in Calls, call[r].channel = NoEntry, call'[r].channel # NoEntry
        PROVE  PriceOf(r)' <= cumulative'[call'[r].channel]
    <3>1. ~Keeps
      BY <2>2 DEF Keeps
    <3>2. PICK s \in Calls, k \in Calls : Raises(s, k)
      BY <3>1, StepKinds
    <3>3. r = s /\ call'[r].channel = k /\ PriceOf(r)' = call[r].price /\ call[r].price \in Nat
             /\ cumulative'[k] = cumulative[k] + call[r].price
      BY <2>2, <3>2, RaisesOne DEF PriceOf
    <3> QED
      BY <1>2, <3>2, <3>3
  <2> QED
    BY <2>1, <2>2
<1>5. \A k \in credentials : call'[k.call].at = "ended" /\ PriceOf(k.call)' <= k.cumulative
  BY <1>1, <1>3, StepEnds DEF CredentialInv
<1>6. CASE credentials' = credentials
  BY <1>4, <1>5, <1>6 DEF CredentialInv
<1>7. ASSUME NEW r \in Calls, Sign(r) PROVE CredentialInv'
  <2>0. PICK new : new = [call |-> r, channel |-> call[r].channel,
                          cumulative |-> Payload(r), signed |-> call[r].amount]
    OBVIOUS
  <2>1. /\ call[r].at = "sign" /\ credentials' = credentials \cup {new}
        /\ call' = [call EXCEPT ![r].at = "ended"] /\ cumulative' = cumulative
    BY <1>7, <2>0 DEF Sign, At, Goto
  <2>2. new.call = r /\ new.cumulative = cumulative[call[r].channel]
    BY <2>0 DEF Payload
  <2>3. call[r].channel # NoEntry /\ call[r] \in Call /\ call \in [Calls -> Call]
    BY <2>1 DEF IInv, VoucherInv, TypeOK
  <2>4. call'[r].at = "ended" /\ PriceOf(r)' = PriceOf(r)
    BY <2>1, <2>3 DEF Call, PriceOf
  <2>5. call'[new.call].at = "ended" /\ PriceOf(new.call)' <= new.cumulative
    BY <2>2, <2>3, <2>4 DEF CredentialInv
  <2>6. \A k \in credentials : k.call # new.call
    BY <2>1, <2>2 DEF CredentialInv
  <2>7. \A k, l \in credentials' : k.call = l.call => k = l
    BY <2>1, <2>6 DEF CredentialInv
  <2>8. \A k \in credentials' : call'[k.call].at = "ended" /\ PriceOf(k.call)' <= k.cumulative
    BY <1>5, <2>1, <2>5
  <2>9. presented' \subseteq credentials'
    BY <2>1 DEF CredentialInv
  <2> QED
    BY <1>4, <2>7, <2>8, <2>9 DEF CredentialInv
<1> QED
  BY <1>6, <1>7, StepEnds

-----------------------------------------------------------------------------
\* How client and server move together: the client alone, a request that the
\* server handles, a credential that it gets, or its restart.
ClientMoves == [Next]_vars /\ UNCHANGED <<store, req, presented>>

Presents(q, k) ==
  /\ Present(q, k)
  /\ part = "payments" => k \notin presented
  /\ part = "in turn" => Idle

LEMMA JointSteps ==
  ASSUME ~Alone, [MCNext]_<<payments, part>>
  PROVE  /\ part' = part
         /\ \/ ClientMoves
            \/ \E q \in Presentations : ServerStep(q)
            \/ \E q \in Presentations, k \in credentials : Presents(q, k)
            \/ part = "payments" /\ Server!Restart /\ UNCHANGED <<vars, presented>>
<1>0. part' = part
  BY DEF MCNext, payments
<1>1. CASE UNCHANGED <<payments, part>>
  BY <1>0, <1>1 DEF ClientMoves, payments, server
<1>2. CASE part = "payments" /\ JointNext
  <2>1. ASSUME NEW r \in Calls, Request(r) \/ ClientStep(r) \/ Settle(r)
        PROVE  UNCHANGED <<store, req, presented>>
    BY <2>1 DEF Request, ClientStep, OpenOnChain, SignVoucher, Settle, server
  <2>2. CASE \E r \in Calls : Request(r) \/ ClientStep(r) \/ Settle(r)
    BY <1>0, <1>2, <2>1, <2>2, ClientSteps DEF ClientMoves
  <2>3. CASE \E q \in Presentations :
               ServerStep(q) \/ \E k \in credentials \ presented : Present(q, k)
    BY <1>0, <1>2, <2>3 DEF Presents
  <2>4. CASE ((\E r \in Calls : Fail(r)) \/ Restart) /\ UNCHANGED <<server, chain>>
    BY <1>0, <2>4, ClientSteps DEF ClientMoves, server
  <2>5. CASE Server!Restart /\ UNCHANGED <<vars, presented>>
    BY <1>0, <1>2, <2>5
  <2> QED
    BY <1>0, <1>2, <2>2, <2>3, <2>4, <2>5 DEF JointNext, Failure, MCNext
<1>3. CASE part = "in turn" /\ InTurn
  <2>1. ASSUME NEW r \in Calls, Request(r) \/ ClientStep(r) \/ Settle(r)
        PROVE  UNCHANGED <<store, req, presented>>
    BY <2>1 DEF Request, ClientStep, OpenOnChain, SignVoucher, Settle, server
  <2>2. CASE \E r \in Calls : Request(r) \/ ClientStep(r) \/ Settle(r)
    BY <1>0, <1>3, <2>1, <2>2, ClientSteps DEF ClientMoves
  <2>3. CASE \E q \in Presentations : ServerStep(q)
    BY <1>0, <1>3, <2>3
  <2>4. CASE Idle /\ \E q \in Presentations, k \in credentials : Present(q, k)
    BY <1>0, <1>3, <2>4 DEF Presents
  <2> QED
    BY <1>0, <1>3, <2>2, <2>3, <2>4 DEF InTurn
<1> QED
  BY <1>1, <1>2, <1>3 DEF MCNext, Alone

LEMMA AloneSteps ==
  ASSUME Alone, [MCNext]_<<payments, part>>
  PROVE  part' = part /\ ClientMoves
<1>1. UNCHANGED <<server, part>>
  BY DEF MCNext, payments, Alone
<1> QED
  BY <1>1, ClientSteps DEF ClientMoves, server

\* A call that has begun keeps its price.
LEMMA PricesStay ==
  ASSUME IInv, (\E s \in Calls : Handle(s) \/ Fail(s)) \/ Restart \/ UNCHANGED vars,
         NEW r \in Calls
  PROVE  call'[r].price = call[r].price /\ (call[r].at = "idle" => call'[r].at = "idle")
<1>1. call \in [Calls -> Call]
  BY DEF IInv, TypeOK
<1>2. ASSUME NEW s \in Calls, NEW there, Goto(s, there), call[s].at # "idle"
      PROVE  call'[r].price = call[r].price /\ (call[r].at = "idle" => call'[r].at = "idle")
  BY <1>1, <1>2 DEF Goto, Call
<1>3. ASSUME NEW s \in Calls, NEW k, Charge(s, k), call[s].at # "idle"
      PROVE  call'[r].price = call[r].price /\ (call[r].at = "idle" => call'[r].at = "idle")
  BY <1>1, <1>3 DEF Charge, Call
<1>4. ASSUME NEW s \in Calls, Handle(s)
      PROVE  call'[r].price = call[r].price /\ (call[r].at = "idle" => call'[r].at = "idle")
  <2>1. CASE Lookup(s)
    BY <2>1, <1>2, <1>3 DEF Lookup, At
  <2>2. CASE ReadAllowance(s) \/ Approve(s) \/ Estimate(s) \/ Open(s)
    BY <2>2, <1>2 DEF ReadAllowance, Approve, Estimate, Open, At
  <2>3. CASE Register(s) \/ Reject(s) \/ Sign(s)
    BY <2>3, <1>2 DEF Register, Reject, Sign, At
  <2>4. CASE Confirm(s)
    BY <2>4, <1>3 DEF Confirm, At
  <2> QED
    BY <1>4, <2>1, <2>2, <2>3, <2>4 DEF Handle
<1>5. ASSUME NEW s \in Calls, Fail(s)
      PROVE  call'[r].price = call[r].price /\ (call[r].at = "idle" => call'[r].at = "idle")
  BY <1>5, <1>2 DEF Fail, InFlight
<1>6. CASE Restart
  BY <1>1, <1>6 DEF Restart, InFlight, Call
<1>7. CASE UNCHANGED vars
  BY <1>7 DEF vars
<1> QED
  BY <1>4, <1>5, <1>6, <1>7

LEMMA StepPriceInv == IInv /\ PriceInv /\ [MCNext]_<<payments, part>> => PriceInv'
<1> SUFFICES ASSUME IInv, PriceInv, [MCNext]_<<payments, part>>, ~Alone'
             PROVE  \A r \in Calls : call'[r].at # "idle" => call'[r].price = Amount
  BY DEF PriceInv, PriceOf
<1>1. ~Alone
  BY DEF MCNext, payments, Alone
<1>2. \A r \in Calls : call[r].at # "idle" => call[r].price = Amount
  BY <1>1 DEF PriceInv, PriceOf
<1>3. ASSUME NEW s \in Calls, ClientStep(s) PROVE Handle(s)
  BY <1>3 DEF ClientStep, OpenOnChain, SignVoucher, Handle
<1>4. CASE (\E s \in Calls : Handle(s) \/ Fail(s)) \/ Restart \/ UNCHANGED vars
  BY <1>2, <1>4, PricesStay
<1>5. ASSUME NEW s \in Calls, Request(s)
      PROVE  \A r \in Calls : call'[r].at # "idle" => call'[r].price = Amount
  BY <1>2, <1>5 DEF Request, Begin, IInv, TypeOK, Call
<1>6. CASE JointNext
  BY <1>3, <1>4, <1>5, <1>6 DEF JointNext, Settle, ServerStep, Present, Failure
<1>7. CASE InTurn
  BY <1>3, <1>4, <1>5, <1>7 DEF InTurn, Settle, ServerStep, Present
<1> QED
  BY <1>1, <1>4, <1>6, <1>7 DEF MCNext, payments, Alone

-----------------------------------------------------------------------------
\* The server's requests and records, of which every step keeps the shape.
LEMMA IdsDiffer == \A r, s \in Calls : Id(r) = Id(s) => r = s
<1> SUFFICES ASSUME NEW r \in Calls, NEW s \in Calls, Id(r) = Id(s) PROVE r = s
  OBVIOUS
<1>1. Id(r).salt = Id(s).salt
  OBVIOUS
<1> QED
  BY <1>1, PaymentsAssumption DEF Id

LEMMA NoStateIsState == IsState(Server!NoState) /\ Server!NoState.spent = 0
                          /\ Server!NoState.highestVoucherAmount = 0
  BY DEF IsState, Server!NoState

\* An update of a record.
LEMMA Revises ==
  ASSUME ShapeInv, NEW id, NEW s, Server!Revise(id, s),
         \A r \in Calls : Id(r) = id => IsState(s) /\ s.spent \in Nat
  PROVE  /\ store' = [i \in {Id(r) : r \in Calls} |-> store'[i]]
         /\ \A r \in Calls : IsState(store'[Id(r)]) /\ store'[Id(r)].spent \in Nat
         /\ \A r \in Calls : Id(r) # id => store'[Id(r)] = store[Id(r)]
         /\ \A r \in Calls : Id(r) = id => store'[Id(r)] \in {s, Server!NoState}
<1> DEFINE Ids == {Id(r) : r \in Calls}
           v == IF store[id].exists THEN s ELSE Server!NoState
<1>1. \A r \in Calls : Id(r) \in Ids
  OBVIOUS
<1>2. store' = [store EXCEPT ![id] = v]
  BY DEF Server!Revise
<1>3. /\ v \in {s, Server!NoState}
      /\ \A r \in Calls : Id(r) = id => IsState(v) /\ v.spent \in Nat
  BY NoStateIsState
<1>4. store = [i \in Ids |-> store[i]]
  BY DEF ShapeInv
<1> HIDE DEF v, Ids
<1>5. /\ store' = [i \in Ids |-> store'[i]]
      /\ \A i \in Ids : store'[i] = IF i = id THEN v ELSE store[i]
  BY <1>2, <1>4
<1>6. store' = [i \in {Id(r) : r \in Calls} |-> store'[i]]
  BY <1>5 DEF Ids
<1>7. \A r \in Calls : store'[Id(r)] = IF Id(r) = id THEN v ELSE store[Id(r)]
  BY <1>1, <1>5
<1> QED
  BY <1>3, <1>6, <1>7 DEF ShapeInv

\* A call of verify() that takes a step.
LEMMA CallFields ==
  ASSUME NEW at, NEW c, NEW d, NEW s
  PROVE  /\ Server!Call(at, c, d, s).at = at
         /\ Server!Call(at, c, d, s).action = c.action
         /\ Server!Call(at, c, d, s).channelId = c.channelId
         /\ Server!Call(at, c, d, s).cumulative = c.cumulative
  BY DEF Server!Call

LEMMA RestsAt ==
  /\ Server!Waiting.at = "idle" /\ Server!Ended.at = "ended"
  /\ Server!Waiting.action = "open" /\ Server!Ended.action = "open"
  BY CallFields DEF Server!Waiting, Server!Ended, Server!NoCredential

\* The request goes on over its channel, or ends.
Goes(q, c) ==
  /\ req' = [req EXCEPT ![q] = c]
  /\ c = Server!Ended \/ c.channelId = req[q].channelId

Steps(q) == Server!InFlight(q) /\ \E c : Goes(q, c)

LEMMA ReadsGo ==
  ASSUME NEW q \in Presentations,
         \/ Server!OpenRead(q) \/ Server!TopUpRead(q) \/ Server!TopUpChain(q)
         \/ Server!VoucherRead(q) \/ Server!CloseRead(q) \/ Server!CloseSend(q)
         \/ Server!CloseFail(q)
  PROVE  Steps(q) /\ store' = store
<1>1. store' = store
  BY DEF Server!OpenRead, Server!TopUpRead, Server!TopUpChain, Server!VoucherRead,
         Server!CloseRead, Server!CloseSend, Server!CloseFail
<1>2. req[q].at \in {"start", "mined", "send"}
  BY DEF Server!OpenRead, Server!TopUpRead, Server!TopUpChain, Server!VoucherRead,
         Server!CloseRead, Server!CloseSend, Server!CloseFail, Server!At
<1>3. \E ok, at, d, s : \/ Server!Check(q, ok, Server!Call(at, req[q], d, s))
                        \/ Server!End(q)
  BY DEF Server!OpenRead, Server!TopUpRead, Server!TopUpChain, Server!VoucherRead,
         Server!CloseRead, Server!CloseSend, Server!CloseFail
<1>4. \E c : Goes(q, c)
  BY <1>3, CallFields DEF Goes, Server!Check, Server!End
<1> QED
  BY <1>1, <1>2, <1>4, RestsAt DEF Steps, Server!InFlight

\* The record that a write replaces, and what it replaces it with.
Writes(q, s) ==
  /\ Server!InFlight(q) /\ req' = [req EXCEPT ![q] = Server!Ended]
  /\ \A r \in Calls : Id(r) # req[q].channelId => store'[Id(r)] = store[Id(r)]
  /\ \A r \in Calls : Id(r) = req[q].channelId => store'[Id(r)] \in {s, Server!NoState}
  /\ store' = [i \in {Id(r) : r \in Calls} |-> store'[i]]
  /\ \A r \in Calls : IsState(store'[Id(r)]) /\ store'[Id(r)].spent \in Nat

Opened(q) ==
  [exists |-> TRUE, deposit |-> req[q].deposit, settledOnChain |-> req[q].settled,
   highestVoucherAmount |-> req[q].cumulative, spent |-> Amount, units |-> 1,
   finalized |-> FALSE]

LEMMA OpenWrites ==
  ASSUME ShapeInv, NEW q \in Presentations, Server!OpenWrite(q)
  PROVE  Writes(q, Opened(q))
<1> DEFINE Ids == {Id(r) : r \in Calls}
           id == req[q].channelId
<1>1. \A r \in Calls : Id(r) \in Ids
  OBVIOUS
<1>2. store' = [store EXCEPT ![id] = Opened(q)] /\ Server!InFlight(q)
        /\ req' = [req EXCEPT ![q] = Server!Ended]
  BY RestsAt DEF Server!OpenWrite, Opened, Server!InFlight, Server!At, Server!End
<1>3. IsState(Opened(q)) /\ Opened(q).spent \in Nat
  BY AmountType DEF IsState, Opened
<1>4. store = [i \in Ids |-> store[i]]
  BY DEF ShapeInv
<1> HIDE DEF Ids, id
<1>5. /\ store' = [i \in Ids |-> store'[i]]
      /\ \A i \in Ids : store'[i] = IF i = id THEN Opened(q) ELSE store[i]
  BY <1>2, <1>4
<1>6. store' = [i \in {Id(r) : r \in Calls} |-> store'[i]]
  BY <1>5 DEF Ids
<1>7. \A r \in Calls : store'[Id(r)] = IF Id(r) = id THEN Opened(q) ELSE store[Id(r)]
  BY <1>1, <1>5
<1> QED
  BY <1>2, <1>3, <1>6, <1>7 DEF ShapeInv, Writes, id

\* The updates that the server makes of a record.
LEMMA Corrected ==
  ASSUME NEW e, IsState(e), NEW d, NEW m,
         NEW a, \/ a = [e EXCEPT !.deposit = d]
                \/ a = [e EXCEPT !.highestVoucherAmount = m, !.finalized = TRUE]
  PROVE  IsState(a) /\ a.spent = e.spent
<1>1. e = [exists |-> e.exists, deposit |-> e.deposit, settledOnChain |-> e.settledOnChain,
           highestVoucherAmount |-> e.highestVoucherAmount, spent |-> e.spent,
           units |-> e.units, finalized |-> e.finalized]
  BY DEF IsState
<1>2. ASSUME a = [e EXCEPT !.deposit = d] PROVE IsState(a) /\ a.spent = e.spent
  <2>1. a = [exists |-> e.exists, deposit |-> d, settledOnChain |-> e.settledOnChain,
             highestVoucherAmount |-> e.highestVoucherAmount, spent |-> e.spent,
             units |-> e.units, finalized |-> e.finalized]
    BY <1>1, <1>2
  <2> QED
    BY <2>1 DEF IsState
<1>3. ASSUME a = [e EXCEPT !.highestVoucherAmount = m, !.finalized = TRUE]
      PROVE  IsState(a) /\ a.spent = e.spent
  <2>1. a = [exists |-> e.exists, deposit |-> e.deposit, settledOnChain |-> e.settledOnChain,
             highestVoucherAmount |-> m, spent |-> e.spent,
             units |-> e.units, finalized |-> TRUE]
    BY <1>1, <1>3
  <2> QED
    BY <2>1 DEF IsState
<1> QED
  BY <1>2, <1>3

\* What the record of a request's channel is raised to.
Counts(q, s) ==
  /\ s.spent = store[req[q].channelId].spent + Amount
  /\ s.highestVoucherAmount = req[q].cumulative

VoucherWritten(q) ==
  [store[req[q].channelId] EXCEPT !.highestVoucherAmount = req[q].cumulative,
                                  !.spent = @ + Amount, !.units = @ + 1]

LEMMA VoucherWrites ==
  ASSUME ShapeInv, NEW q \in Presentations, Server!VoucherWrite(q)
  PROVE  /\ Writes(q, VoucherWritten(q))
         /\ \A r \in Calls : Id(r) = req[q].channelId => Counts(q, VoucherWritten(q))
<1> DEFINE id == req[q].channelId
           s == VoucherWritten(q)
<1>1. Server!Revise(id, s) /\ Server!InFlight(q) /\ req' = [req EXCEPT ![q] = Server!Ended]
  BY RestsAt DEF Server!VoucherWrite, Server!InFlight, Server!At, Server!End, VoucherWritten
<1>2. ASSUME NEW r \in Calls, Id(r) = id
      PROVE  /\ IsState(s) /\ s.spent \in Nat
             /\ s.spent = store[id].spent + Amount
             /\ s.highestVoucherAmount = req[q].cumulative
  <2>1. IsState(store[id]) /\ store[id].spent \in Nat
    BY <1>2 DEF ShapeInv
  <2> DEFINE e == store[id]
             m == req[q].cumulative
  <2>2. s = [e EXCEPT !.highestVoucherAmount = m, !.spent = @ + Amount, !.units = @ + 1]
    BY DEF VoucherWritten
  <2>3. IsState(e) /\ e.spent \in Nat
    BY <2>1
  <2> HIDE DEF e, m, s
  <2>4. e = [exists |-> e.exists, deposit |-> e.deposit, settledOnChain |-> e.settledOnChain,
             highestVoucherAmount |-> e.highestVoucherAmount, spent |-> e.spent,
             units |-> e.units, finalized |-> e.finalized]
    BY <2>3 DEF IsState
  <2>5. s = [exists |-> e.exists, deposit |-> e.deposit, settledOnChain |-> e.settledOnChain,
             highestVoucherAmount |-> m, spent |-> e.spent + Amount,
             units |-> e.units + 1, finalized |-> e.finalized]
    BY <2>2, <2>4
  <2>6. IsState(s) /\ s.spent = e.spent + Amount /\ s.highestVoucherAmount = m
    BY <2>5 DEF IsState
  <2>7. s.spent \in Nat
    BY <2>3, <2>6, AmountType
  <2> QED
    BY <2>6, <2>7 DEF e, m
<1> HIDE DEF s, id
<1>3. /\ store' = [i \in {Id(r) : r \in Calls} |-> store'[i]]
      /\ \A r \in Calls : IsState(store'[Id(r)]) /\ store'[Id(r)].spent \in Nat
      /\ \A r \in Calls : Id(r) # id => store'[Id(r)] = store[Id(r)]
      /\ \A r \in Calls : Id(r) = id => store'[Id(r)] \in {s, Server!NoState}
  BY <1>1, <1>2, Revises
<1> QED
  BY <1>1, <1>2, <1>3 DEF Writes, Counts, s, id

\* A write that counts nothing.
LEMMA OtherWrites ==
  ASSUME ShapeInv, NEW q \in Presentations, Server!TopUpWrite(q) \/ Server!CloseWrite(q)
  PROVE  /\ req[q].action \in {"topUp", "close"}
         /\ \E s : /\ Writes(q, s)
                   /\ \A r \in Calls : Id(r) = req[q].channelId =>
                        s.spent = store[Id(r)].spent
<1> DEFINE id == req[q].channelId
<1>1. /\ req[q].action \in {"topUp", "close"} /\ Server!InFlight(q)
      /\ req' = [req EXCEPT ![q] = Server!Ended]
  BY RestsAt DEF Server!TopUpWrite, Server!CloseWrite, Server!ReceiptThere,
                 Server!InFlight, Server!At, Server!End
<1>2. \E d, m : \/ Server!Revise(id, [store[id] EXCEPT !.deposit = d])
                \/ Server!Revise(id, [store[id] EXCEPT !.highestVoucherAmount = m,
                                                       !.finalized = TRUE])
  BY DEF Server!TopUpWrite, Server!CloseWrite
<1>3. PICK d, m : \/ Server!Revise(id, [store[id] EXCEPT !.deposit = d])
                  \/ Server!Revise(id, [store[id] EXCEPT !.highestVoucherAmount = m,
                                                         !.finalized = TRUE])
  BY <1>2
<1>4. ASSUME NEW r \in Calls, Id(r) = id
      PROVE  /\ IsState([store[id] EXCEPT !.deposit = d])
             /\ IsState([store[id] EXCEPT !.highestVoucherAmount = m, !.finalized = TRUE])
             /\ [store[id] EXCEPT !.deposit = d].spent = store[id].spent
             /\ [store[id] EXCEPT !.highestVoucherAmount = m, !.finalized = TRUE].spent
                  = store[id].spent
             /\ store[id].spent \in Nat
  <2>1. IsState(store[id]) /\ store[id].spent \in Nat
    BY <1>4 DEF ShapeInv
  <2> QED
    BY <2>1, Corrected
<1>5. PICK s : /\ Server!Revise(id, s)
               /\ \A r \in Calls : Id(r) = id =>
                    IsState(s) /\ s.spent = store[id].spent /\ s.spent \in Nat
  BY <1>3, <1>4
<1> HIDE DEF id
<1>6. /\ store' = [i \in {Id(r) : r \in Calls} |-> store'[i]]
      /\ \A r \in Calls : IsState(store'[Id(r)]) /\ store'[Id(r)].spent \in Nat
      /\ \A r \in Calls : Id(r) # id => store'[Id(r)] = store[Id(r)]
      /\ \A r \in Calls : Id(r) = id => store'[Id(r)] \in {s, Server!NoState}
  BY <1>5, Revises
<1>7. Writes(q, s)
  BY <1>1, <1>6 DEF Writes, id
<1> QED
  BY <1>1, <1>5, <1>7 DEF id

LEMMA ServerKinds ==
  ASSUME ShapeInv, NEW q \in Presentations, Server!Handle(q)
  PROVE  \/ Steps(q) /\ store' = store
         \/ Server!OpenWrite(q) /\ Writes(q, Opened(q))
         \/ /\ Server!VoucherWrite(q) /\ Writes(q, VoucherWritten(q))
            /\ \A r \in Calls : Id(r) = req[q].channelId => Counts(q, VoucherWritten(q))
         \/ /\ req[q].action \in {"topUp", "close"}
            /\ \E s : /\ Writes(q, s)
                      /\ \A r \in Calls : Id(r) = req[q].channelId =>
                           s.spent = store[Id(r)].spent
  BY ReadsGo, OpenWrites, VoucherWrites, OtherWrites DEF Server!Handle

LEMMA InitShapeInv == MCInit => ShapeInv /\ \A r \in Calls : store[Id(r)] = Server!NoState
<1> SUFFICES ASSUME MCInit
             PROVE  ShapeInv /\ \A r \in Calls : store[Id(r)] = Server!NoState
  OBVIOUS
<1>1. /\ store = [id \in {Id(r) : r \in Calls} |-> Server!NoState]
      /\ req = [q \in Presentations |-> Server!Waiting]
  BY DEF MCInit, JointInit, Server!Init
<1>2. \A r \in Calls : store[Id(r)] = Server!NoState
  BY <1>1
<1> QED
  BY <1>1, <1>2, NoStateIsState DEF ShapeInv

\* A credential that the server gets is a request over its channel.
LEMMA PresentsOne ==
  ASSUME ShapeInv, NEW q \in Presentations, NEW k, Present(q, k)
  PROVE  /\ store' = store /\ presented' = presented \cup {k} /\ UNCHANGED vars
         /\ \/ req' = req
            \/ /\ k.cumulative = k.signed
               /\ req[q] = Server!Waiting
               /\ \E c : /\ req' = [req EXCEPT ![q] = c]
                         /\ c = Server!Call("start", Payment(k), 0, 0)
  BY DEF Present, Server!Receive

LEMMA RestartEmpties ==
  ASSUME ShapeInv, Server!Restart
  PROVE  /\ req' = [q \in Presentations |-> req'[q]]
         /\ \A q \in Presentations : ~Server!InFlight(q)'
         /\ store' = [i \in {Id(r) : r \in Calls} |-> store'[i]]
         /\ \A r \in Calls : store'[Id(r)] \in {store[Id(r)], Server!NoState}
<1>1. req' = [q \in Presentations |-> IF Server!InFlight(q) THEN Server!Ended ELSE req[q]]
  BY DEF Server!Restart
<1>2. \A q \in Presentations : req'[q] = IF Server!InFlight(q) THEN Server!Ended ELSE req[q]
  BY <1>1
<1>3. \A q \in Presentations : ~Server!InFlight(q)'
  BY <1>2 DEF Server!InFlight
<1>4. store' \in {store, [i \in {Id(r) : r \in Calls} |-> Server!NoState]}
  BY DEF Server!Restart
<1> QED
  BY <1>1, <1>3, <1>4 DEF ShapeInv

LEMMA StepShapeInv == ShapeInv /\ [MCNext]_<<payments, part>> => ShapeInv'
<1> SUFFICES ASSUME ShapeInv, [MCNext]_<<payments, part>> PROVE ShapeInv'
  OBVIOUS
<1>1. CASE UNCHANGED <<store, req>>
  BY <1>1 DEF ShapeInv, IsState
<1>2. ASSUME NEW q \in Presentations, NEW c, req' = [req EXCEPT ![q] = c]
      PROVE  req' = [p \in Presentations |-> req'[p]]
  BY <1>2 DEF ShapeInv
<1>3. ASSUME NEW q \in Presentations, ServerStep(q) PROVE ShapeInv'
  <2>1. Server!Handle(q)
    BY <1>3 DEF ServerStep
  <2>2. CASE Steps(q) /\ store' = store
    <3>1. req' = [p \in Presentations |-> req'[p]]
      BY <1>2, <2>2 DEF Steps, Goes
    <3> QED
      BY <2>2, <3>1 DEF ShapeInv, IsState
  <2>3. ASSUME NEW s, Writes(q, s) PROVE ShapeInv'
    <3>1. req' = [p \in Presentations |-> req'[p]]
      BY <1>2, <2>3 DEF Writes
    <3> QED
      BY <2>3, <3>1 DEF ShapeInv, Writes, IsState
  <2> QED
    BY <2>1, <2>2, <2>3, ServerKinds
<1>4. ASSUME NEW q \in Presentations, NEW k, Present(q, k) PROVE ShapeInv'
  <2>1. req' = [p \in Presentations |-> req'[p]] /\ store' = store
    BY <1>2, <1>4, PresentsOne DEF ShapeInv
  <2> QED
    BY <2>1 DEF ShapeInv, IsState
<1>5. CASE Server!Restart
  <2>1. \A r \in Calls : IsState(store'[Id(r)]) /\ store'[Id(r)].spent \in Nat
    <3> SUFFICES ASSUME NEW r \in Calls
                 PROVE  IsState(store'[Id(r)]) /\ store'[Id(r)].spent \in Nat
      OBVIOUS
    <3>1. \E e : e = store'[Id(r)] /\ e \in {store[Id(r)], Server!NoState}
      BY <1>5, RestartEmpties
    <3>2. \A e : e \in {store[Id(r)], Server!NoState} => IsState(e) /\ e.spent \in Nat
      BY NoStateIsState DEF ShapeInv
    <3> QED
      BY <3>1, <3>2
  <2> QED
    BY <1>5, <2>1, RestartEmpties DEF ShapeInv, IsState
<1>6. CASE Alone
  BY <1>1, <1>6, AloneSteps DEF ClientMoves
<1>7. CASE ~Alone
  BY <1>1, <1>3, <1>4, <1>5, <1>7, JointSteps DEF ClientMoves, Presents
<1> QED
  BY <1>6, <1>7

-----------------------------------------------------------------------------
\* Presented at any time, each credential once.
LEMMA DueChanges ==
  ASSUME ShapeInv, NEW q \in Presentations, NEW c, req' = [req EXCEPT ![q] = c],
         NEW r \in Calls
  PROVE  /\ Due(r)' = Due(r) - DueOf(q, r) + DueOf(q, r)'
         /\ Due(r) \in Nat /\ Due(r)' \in Nat /\ req'[q] = c
<1> DEFINE f == [p \in Presentations |-> DueOf(p, r)]
           g == [p \in Presentations |-> DueOf(p, r)']
<1>1. \A p \in Presentations : f[p] \in Nat /\ g[p] \in Nat
  BY AmountType DEF DueOf
<1>2. /\ \A p \in Presentations : p # q => req'[p] = req[p]
      /\ req'[q] = c
  BY DEF ShapeInv
<1>3. \A p \in Presentations : p # q => f[p] = g[p]
  BY <1>2 DEF DueOf, Server!InFlight
<1>4. f[q] = DueOf(q, r) /\ g[q] = DueOf(q, r)'
  OBVIOUS
<1>5. Due(r) = SumFunctionOnSet(f, Presentations) /\ Due(r)' = SumFunctionOnSet(g, Presentations)
  BY DEF Due, SumFunction
<1> HIDE DEF f, g
<1>6. /\ SumFunctionOnSet(f, Presentations) \in Nat
      /\ SumFunctionOnSet(g, Presentations) \in Nat
      /\ SumFunctionOnSet(g, Presentations) =
           SumFunctionOnSet(f, Presentations) - f[q] + g[q]
  BY <1>1, <1>3, SumNat, SumChange, PaymentsAssumption
<1> QED
  BY <1>2, <1>4, <1>5, <1>6

LEMMA LeftChanges ==
  ASSUME NEW c \in Calls, NEW r \in Calls,
         \A d \in Calls : d # c => LeftOf(d, r)' = LeftOf(d, r)
  PROVE  /\ Left(r)' = Left(r) - LeftOf(c, r) + LeftOf(c, r)'
         /\ Left(r) \in Nat /\ Left(r)' \in Nat
<1> DEFINE f == [d \in Calls |-> LeftOf(d, r)]
           g == [d \in Calls |-> LeftOf(d, r)']
<1>1. \A d \in Calls : f[d] \in Nat /\ g[d] \in Nat
  BY AmountType DEF LeftOf
<1>2. \A d \in Calls : d # c => f[d] = g[d]
  OBVIOUS
<1>3. f[c] = LeftOf(c, r) /\ g[c] = LeftOf(c, r)'
  OBVIOUS
<1>4. Left(r) = SumFunctionOnSet(f, Calls) /\ Left(r)' = SumFunctionOnSet(g, Calls)
  BY DEF Left, SumFunction
<1> HIDE DEF f, g
<1>5. /\ SumFunctionOnSet(f, Calls) \in Nat
      /\ SumFunctionOnSet(g, Calls) \in Nat
      /\ SumFunctionOnSet(g, Calls) = SumFunctionOnSet(f, Calls) - f[c] + g[c]
  BY <1>1, <1>2, SumNat, SumChange, ConstantsAssumption
<1> QED
  BY <1>3, <1>4, <1>5

LEMMA DueType == ASSUME NEW r \in Calls PROVE Due(r) \in Nat
<1> DEFINE f == [p \in Presentations |-> DueOf(p, r)]
<1>1. \A p \in Presentations : f[p] \in Nat
  BY AmountType DEF DueOf
<1>2. Due(r) = SumFunctionOnSet(f, Presentations)
  BY DEF Due, SumFunction
<1> HIDE DEF f
<1> QED
  BY <1>1, <1>2, SumNat, PaymentsAssumption

LEMMA LeftType == ASSUME NEW r \in Calls PROVE Left(r) \in Nat
<1> DEFINE f == [d \in Calls |-> LeftOf(d, r)]
<1>1. \A d \in Calls : f[d] \in Nat
  BY AmountType DEF LeftOf
<1>2. Left(r) = SumFunctionOnSet(f, Calls)
  BY DEF Left, SumFunction
<1> HIDE DEF f
<1> QED
  BY <1>1, <1>2, SumNat, ConstantsAssumption

\* What a handler counts is no more than what its request was due.
LEMMA ServerSpends ==
  ASSUME ShapeInv, NEW q \in Presentations, Server!Handle(q), NEW r \in Calls
  PROVE  store'[Id(r)].spent + Due(r)' <= store[Id(r)].spent + Due(r)
<1>1. store[Id(r)].spent \in Nat /\ DueOf(q, r) \in Nat /\ Amount \in Nat
  BY AmountType DEF ShapeInv, DueOf
<1>2. CASE Steps(q) /\ store' = store
  <2>1. PICK c : Goes(q, c)
    BY <1>2 DEF Steps
  <2>2. req' = [req EXCEPT ![q] = c]
    BY <2>1 DEF Goes
  <2>3. /\ Due(r)' = Due(r) - DueOf(q, r) + DueOf(q, r)'
        /\ Due(r) \in Nat /\ Due(r)' \in Nat /\ req'[q] = c
    BY <2>2, DueChanges
  <2>4. DueOf(q, r)' \in Nat /\ DueOf(q, r)' <= DueOf(q, r)
    BY <1>1, <1>2, <2>1, <2>3 DEF DueOf, Steps, Goes, Server!InFlight
  <2> QED
    BY <1>1, <1>2, <2>3, <2>4
<1>3. ASSUME NEW s, Writes(q, s),
             req[q].channelId = Id(r) =>
               s.spent \in Nat /\ s.spent <= store[Id(r)].spent + Amount
      PROVE  store'[Id(r)].spent + Due(r)' <= store[Id(r)].spent + Due(r)
  <2>1. /\ Due(r)' = Due(r) - DueOf(q, r) + DueOf(q, r)'
        /\ Due(r) \in Nat /\ Due(r)' \in Nat /\ req'[q] = Server!Ended
    BY <1>3, DueChanges DEF Writes
  <2>2. DueOf(q, r)' = 0
    BY <2>1 DEF DueOf, Server!InFlight
  <2>3. CASE req[q].channelId = Id(r)
    <3>1. DueOf(q, r) = Amount
      BY <1>3, <2>3 DEF DueOf, Writes
    <3>2. store'[Id(r)].spent \in Nat /\ store'[Id(r)].spent <= store[Id(r)].spent + Amount
      BY <1>1, <1>3, <2>3, NoStateIsState DEF Writes
    <3> QED
      BY <1>1, <2>1, <2>2, <3>1, <3>2
  <2>4. CASE req[q].channelId # Id(r)
    <3>1. DueOf(q, r) = 0 /\ store'[Id(r)] = store[Id(r)]
      BY <1>3, <2>4 DEF DueOf, Writes
    <3> QED
      BY <1>1, <2>1, <2>2, <3>1
  <2> QED
    BY <2>3, <2>4
<1>4. Opened(q).spent = Amount
  BY DEF Opened
<1>5. CASE Writes(q, Opened(q))
  BY <1>1, <1>3, <1>4, <1>5
<1>6. CASE /\ Writes(q, VoucherWritten(q))
           /\ \A s \in Calls : Id(s) = req[q].channelId => Counts(q, VoucherWritten(q))
  <2>1. req[q].channelId = Id(r) => VoucherWritten(q).spent = store[Id(r)].spent + Amount
    BY <1>6 DEF Counts
  <2> QED
    BY <1>1, <1>3, <1>6, <2>1
<1>7. CASE \E s : /\ Writes(q, s)
                  /\ \A i \in Calls : Id(i) = req[q].channelId => s.spent = store[Id(i)].spent
  BY <1>1, <1>3, <1>7
<1> QED
  BY <1>2, <1>5, <1>6, <1>7, ServerKinds

LEMMA DueTypeNext == ASSUME NEW r \in Calls PROVE Due(r)' \in Nat
<1> DEFINE f == [p \in Presentations |-> DueOf(p, r)']
<1>1. \A p \in Presentations : f[p] \in Nat
  BY AmountType DEF DueOf
<1>2. Due(r)' = SumFunctionOnSet(f, Presentations)
  BY DEF Due, SumFunction
<1> HIDE DEF f
<1> QED
  BY <1>1, <1>2, SumNat, PaymentsAssumption

LEMMA DueStays ==
  ASSUME req' = req, NEW r \in Calls
  PROVE  Due(r)' = Due(r)
  BY DEF Due, DueOf, Server!InFlight

LEMMA LeftStays ==
  ASSUME UNCHANGED <<call, presented>>, NEW r \in Calls
  PROVE  Left(r)' = Left(r)
  BY DEF Left, LeftOf

LEMMA ClientSpends ==
  ASSUME IInv, CredentialInv, PriceInv', ShapeInv, ~Alone', ClientMoves, SpendInv
  PROVE  SpendInv'
<1> SUFFICES ASSUME NEW r \in Calls
             PROVE  store'[Id(r)].spent + Due(r)' + Left(r)' <= cumulative'[r]
  BY DEF SpendInv
<1>1. /\ [Next]_vars /\ store' = store /\ Due(r)' = Due(r) /\ presented' = presented
      /\ store[Id(r)].spent \in Nat /\ Due(r) \in Nat /\ Left(r) \in Nat
      /\ store[Id(r)].spent + Due(r) + Left(r) <= cumulative[r]
  BY DueStays, DueType, LeftType DEF ClientMoves, ShapeInv, SpendInv
<1>2. cumulative[r] \in Nat
  BY DEF IInv, TypeOK
<1>3. CASE Keeps
  <2>1. \A d \in Calls : LeftOf(d, r)' = LeftOf(d, r)
    BY <1>1, <1>3 DEF LeftOf, Keeps
  <2>2. Left(r)' = Left(r) - LeftOf(r, r) + LeftOf(r, r)'
    BY <2>1, LeftChanges
  <2>3. LeftOf(r, r)' = LeftOf(r, r) /\ LeftOf(r, r) \in Nat
    BY <2>1, AmountType DEF LeftOf
  <2> QED
    BY <1>1, <1>2, <1>3, <2>2, <2>3 DEF Keeps
<1>4. ASSUME NEW c \in Calls, NEW k \in Calls, Raises(c, k)
      PROVE  store'[Id(r)].spent + Due(r)' + Left(r)' <= cumulative'[r]
  <2>1. /\ call[c].channel = NoEntry /\ call'[c].channel = k
        /\ \A d \in Calls : d # c => call'[d] = call[d]
        /\ cumulative'[k] = cumulative[k] + call[c].price
        /\ \A d \in Calls : d # k => cumulative'[d] = cumulative[d]
        /\ call'[c].price = call[c].price
    BY <1>4, RaisesOne
  <2>2. call'[c].at = "sign"
    BY <1>4 DEF Raises, Charge, IInv, TypeOK, Call
  <2>3. call[c].price = Amount
    BY <2>1, <2>2 DEF PriceInv, PriceOf
  <2>4. \A d \in Calls : d # c => LeftOf(d, r)' = LeftOf(d, r)
    BY <1>1, <2>1 DEF LeftOf
  <2>5. Left(r)' = Left(r) - LeftOf(c, r) + LeftOf(c, r)' /\ Left(r)' \in Nat
    BY <2>4, LeftChanges
  <2>6. LeftOf(c, r) = 0
    BY <2>1, ConstantsAssumption DEF LeftOf
  <2>7. LeftOf(c, r)' \in Nat /\ LeftOf(c, r)' <= IF r = k THEN Amount ELSE 0
    BY <2>1, AmountType DEF LeftOf
  <2>8. cumulative'[r] = cumulative[r] + IF r = k THEN Amount ELSE 0
    BY <1>2, <2>1, <2>3
  <2> QED
    BY <1>1, <1>2, <2>5, <2>6, <2>7, <2>8, AmountType
<1> QED
  BY <1>1, <1>3, <1>4, StepKinds

LEMMA PresentSpends ==
  ASSUME IInv, CredentialInv, ShapeInv, SpendInv,
         NEW q \in Presentations, NEW k \in credentials \ presented, Present(q, k)
  PROVE  SpendInv'
<1> SUFFICES ASSUME NEW r \in Calls
             PROVE  store'[Id(r)].spent + Due(r)' + Left(r)' <= cumulative'[r]
  BY DEF SpendInv
<1>1. /\ store[Id(r)].spent \in Nat /\ Due(r) \in Nat /\ Left(r) \in Nat
      /\ store[Id(r)].spent + Due(r) + Left(r) <= cumulative[r] /\ cumulative[r] \in Nat
  BY DueType, LeftType DEF ShapeInv, SpendInv, IInv, TypeOK
<1>2. /\ k.call \in Calls /\ k.channel \in Calls
      /\ call[k.call].channel = k.channel
  BY DEF IInv, TypeOK, VoucherInv, Credential
<1>3. \A l \in presented : l.call # k.call
  BY DEF CredentialInv
<1>4. /\ store' = store /\ presented' = presented \cup {k}
      /\ call' = call /\ cumulative' = cumulative
  BY PresentsOne DEF vars
<1>5. \A d \in Calls : d # k.call => LeftOf(d, r)' = LeftOf(d, r)
  BY <1>4 DEF LeftOf
<1>6. Left(r)' = Left(r) - LeftOf(k.call, r) + LeftOf(k.call, r)'
  BY <1>2, <1>5, LeftChanges
<1>7. LeftOf(k.call, r)' = 0
  BY <1>4 DEF LeftOf
<1>8. LeftOf(k.call, r) = IF k.channel = r THEN Amount ELSE 0
  BY <1>2, <1>3 DEF LeftOf
<1>9. CASE req' = req
  <2>1. Due(r)' = Due(r)
    BY <1>9, DueStays
  <2>2. LeftOf(k.call, r) \in Nat
    BY <1>8, AmountType
  <2> QED
    BY <1>1, <1>4, <1>6, <1>7, <2>1, <2>2
<1>10. ASSUME NEW c, req[q] = Server!Waiting, req' = [req EXCEPT ![q] = c],
              c = Server!Call("start", Payment(k), 0, 0)
       PROVE  store'[Id(r)].spent + Due(r)' + Left(r)' <= cumulative'[r]
  <2>1. Due(r)' = Due(r) - DueOf(q, r) + DueOf(q, r)' /\ req'[q] = c
    BY <1>10, DueChanges
  <2>2. DueOf(q, r) = 0
    BY <1>10 DEF DueOf, Server!InFlight
  <2>3. c.channelId = Id(k.channel)
    BY <1>10, CallFields DEF Payment
  <2>4. DueOf(q, r)' \in Nat /\ DueOf(q, r)' <= IF k.channel = r THEN Amount ELSE 0
    BY <1>2, <2>1, <2>3, AmountType, IdsDiffer DEF DueOf
  <2> QED
    BY <1>1, <1>4, <1>6, <1>7, <1>8, <2>1, <2>2, <2>4, AmountType
<1> QED
  BY <1>9, <1>10, PresentsOne

LEMMA RestartSpends ==
  ASSUME IInv, ShapeInv, SpendInv, Server!Restart, UNCHANGED <<vars, presented>>
  PROVE  SpendInv'
<1> SUFFICES ASSUME NEW r \in Calls
             PROVE  store'[Id(r)].spent + Due(r)' + Left(r)' <= cumulative'[r]
  BY DEF SpendInv
<1>1. /\ store[Id(r)].spent \in Nat /\ Due(r) \in Nat /\ Left(r) \in Nat
      /\ store[Id(r)].spent + Due(r) + Left(r) <= cumulative[r] /\ cumulative[r] \in Nat
  BY DueType, LeftType DEF ShapeInv, SpendInv, IInv, TypeOK
<1>2. Left(r)' = Left(r) /\ cumulative' = cumulative
  BY LeftStays DEF vars
<1>3. Due(r)' = 0
  <2> DEFINE g == [p \in Presentations |-> DueOf(p, r)']
  <2>1. \A p \in Presentations : g[p] = 0
    BY RestartEmpties DEF DueOf
  <2>2. Due(r)' = SumFunctionOnSet(g, Presentations)
    BY DEF Due, SumFunction
  <2> HIDE DEF g
  <2> QED
    BY <2>1, <2>2, SumZero, PaymentsAssumption
<1>4. store'[Id(r)].spent \in {store[Id(r)].spent, 0}
  BY RestartEmpties, NoStateIsState
<1> QED
  BY <1>1, <1>2, <1>3, <1>4

LEMMA StepSpendInv ==
  ASSUME IInv, CredentialInv, PriceInv', ShapeInv, SpendInv, part = "payments",
         [MCNext]_<<payments, part>>
  PROVE  SpendInv'
<1>1. ~Alone /\ ~Alone'
  BY JointSteps DEF Alone
<1>2. CASE ClientMoves
  BY <1>1, <1>2, ClientSpends
<1>3. ASSUME NEW q \in Presentations, ServerStep(q) PROVE SpendInv'
  <2> SUFFICES ASSUME NEW r \in Calls
               PROVE  store'[Id(r)].spent + Due(r)' + Left(r)' <= cumulative'[r]
    BY DEF SpendInv
  <2>1. /\ store[Id(r)].spent \in Nat /\ Due(r) \in Nat /\ Left(r) \in Nat
        /\ store[Id(r)].spent + Due(r) + Left(r) <= cumulative[r] /\ cumulative[r] \in Nat
    BY DueType, LeftType DEF ShapeInv, SpendInv, IInv, TypeOK
  <2>2. Left(r)' = Left(r) /\ cumulative' = cumulative
    BY <1>3, LeftStays DEF ServerStep, vars
  <2>3. store'[Id(r)].spent + Due(r)' <= store[Id(r)].spent + Due(r)
    BY <1>3, ServerSpends DEF ServerStep
  <2>4. store'[Id(r)].spent \in Nat /\ Due(r)' \in Nat
    BY StepShapeInv, DueTypeNext DEF ShapeInv
  <2> QED
    BY <2>1, <2>2, <2>3, <2>4
<1>4. ASSUME NEW q \in Presentations, NEW k \in credentials, Presents(q, k) PROVE SpendInv'
  BY <1>4, PresentSpends DEF Presents
<1> QED
  BY <1>1, <1>2, <1>3, <1>4, RestartSpends, JointSteps

LEMMA StepCredentialInv ==
  ASSUME IInv, CredentialInv, ShapeInv, [MCNext]_<<payments, part>>
  PROVE  CredentialInv'
<1>1. CASE ClientMoves
  BY <1>1, ClientCredentials DEF ClientMoves
<1>2. CASE UNCHANGED <<vars, presented>>
  BY <1>2 DEF vars, CredentialInv, PriceOf
<1>3. ASSUME NEW q \in Presentations, NEW k \in credentials, Presents(q, k)
      PROVE  CredentialInv'
  <2>1. UNCHANGED vars /\ presented' = presented \cup {k}
    BY <1>3, PresentsOne DEF Presents
  <2>2. UNCHANGED <<call, credentials, cumulative>> /\ presented' \subseteq credentials
    BY <2>1 DEF vars, CredentialInv
  <2> QED
    BY <2>2 DEF CredentialInv, PriceOf
<1> QED
  BY <1>1, <1>2, <1>3, AloneSteps, JointSteps DEF ServerStep

-----------------------------------------------------------------------------
\* Answered in turn, each credential any number of times.

LEMMA ClientTurns ==
  ASSUME IInv, TurnInv, ClientMoves
  PROVE  TurnInv'
<1>1. /\ store' = store /\ req' = req
      /\ \A r \in Calls : /\ cumulative[r] \in Nat /\ cumulative'[r] \in Nat
                          /\ cumulative[r] <= cumulative'[r]
  BY SumsRise DEF ClientMoves
<1>2. \A q \in Presentations : Server!InFlight(q)' <=> Server!InFlight(q)
  BY <1>1 DEF Server!InFlight
<1>3. ASSUME NEW q \in Presentations, Server!InFlight(q) PROVE Worth(q)'
  <2>1. PICK r \in Calls :
          /\ req[q].channelId = Id(r)
          /\ req[q].action \in {"open", "voucher"}
          /\ req[q].cumulative \in Amount .. cumulative[r]
          /\ req[q].action = "voucher" /\ req[q].at = "write" =>
               store[Id(r)].highestVoucherAmount + Amount <= req[q].cumulative
    BY <1>3 DEF TurnInv, Worth
  <2>2. req[q].cumulative \in Amount .. cumulative'[r]
    BY <1>1, <2>1, AmountType
  <2> QED
    BY <1>1, <2>1, <2>2 DEF Worth
<1>4. \A r \in Calls :
        /\ store[Id(r)].highestVoucherAmount \in 0 .. cumulative'[r]
        /\ store[Id(r)].spent <= store[Id(r)].highestVoucherAmount
  BY <1>1 DEF TurnInv
<1> QED
  BY <1>1, <1>2, <1>3, <1>4 DEF TurnInv

LEMMA PresentTurns ==
  ASSUME IInv, CredentialInv, PriceInv, SumInv, ShapeInv, TurnInv, ~Alone,
         NEW q \in Presentations, NEW k \in credentials, Present(q, k),
         \A p \in Presentations : ~Server!InFlight(p)
  PROVE  TurnInv'
<1>1. /\ store' = store /\ cumulative' = cumulative
  BY PresentsOne DEF vars
<1>2. CASE req' = req
  BY <1>1, <1>2 DEF TurnInv, Server!InFlight, Worth
<1>3. ASSUME NEW c, req' = [req EXCEPT ![q] = c],
             c = Server!Call("start", Payment(k), 0, 0)
      PROVE  TurnInv'
  <2>1. \A p \in Presentations : p # q => req'[p] = req[p]
    BY <1>3 DEF ShapeInv
  <2>2. req'[q] = c
    BY <1>3 DEF ShapeInv
  <2>3. \A p \in Presentations : Server!InFlight(p)' => p = q
    BY <2>1 DEF Server!InFlight
  <2>4. /\ k.call \in Calls /\ k.channel \in Calls /\ k.cumulative \in Nat
        /\ call[k.call].at = "ended" /\ PriceOf(k.call) <= k.cumulative
        /\ k.cumulative <= cumulative[k.channel] /\ cumulative[k.channel] \in Nat
    BY DEF IInv, TypeOK, Credential, CredentialInv, SumInv
  <2>5. PriceOf(k.call) = Amount
    BY <2>4 DEF PriceInv
  <2>6. k.cumulative \in Amount .. cumulative[k.channel]
    BY <2>4, <2>5, AmountType
  <2>7. /\ c.channelId = Id(k.channel) /\ c.action \in {"open", "voucher"}
        /\ c.cumulative = k.cumulative /\ c.at = "start"
    BY <1>3, CallFields DEF Payment
  <2>8. Worth(q)'
    BY <1>1, <2>2, <2>4, <2>6, <2>7 DEF Worth
  <2> QED
    BY <1>1, <2>3, <2>8 DEF TurnInv
<1> QED
  BY <1>2, <1>3, PresentsOne

\* Only the request that moves is in flight, before the step and after it.
LEMMA OnlyOne ==
  ASSUME ShapeInv, TurnInv, NEW q \in Presentations, Server!InFlight(q),
         NEW c, req' = [req EXCEPT ![q] = c]
  PROVE  /\ req'[q] = c
         /\ \A p \in Presentations : Server!InFlight(p)' => p = q
<1>1. /\ \A p \in Presentations : p # q => req'[p] = req[p]
      /\ req'[q] = c
  BY DEF ShapeInv
<1> QED
  BY <1>1 DEF TurnInv, Server!InFlight

\* A voucher that is let through is above the record by the price.
LEMMA ReadsWorth ==
  ASSUME ShapeInv, TurnInv, NEW q \in Presentations, Server!Handle(q),
         Steps(q), NEW c, Goes(q, c), c # Server!Ended
  PROVE  /\ c.action = req[q].action /\ c.cumulative = req[q].cumulative
         /\ c.action = "voucher" /\ c.at = "write" =>
              req[q].cumulative
                - store[req[q].channelId].highestVoucherAmount >= Amount
<1>1. req' = [req EXCEPT ![q] = c] /\ req'[q] = c
  BY OnlyOne DEF Goes, Steps
<1>2. CASE Server!OpenRead(q) \/ Server!TopUpRead(q) \/ Server!TopUpChain(q)
           \/ Server!CloseRead(q) \/ Server!CloseSend(q)
  <2>1. req[q].action # "voucher"
    BY <1>2 DEF Server!OpenRead, Server!TopUpRead, Server!TopUpChain, Server!CloseRead,
                Server!CloseSend, Server!At
  <2>2. \E ok, at, d, s : Server!Check(q, ok, Server!Call(at, req[q], d, s))
    BY <1>2 DEF Server!OpenRead, Server!TopUpRead, Server!TopUpChain, Server!CloseRead,
                Server!CloseSend
  <2>3. \E at, d, s : req'[q] \in {Server!Call(at, req[q], d, s), Server!Ended}
    BY <2>2 DEF Server!Check, ShapeInv
  <2> QED
    BY <1>1, <2>1, <2>3, CallFields
<1>3. CASE Server!VoucherRead(q)
  <2>1. \/ req'[q] = Server!Ended
        \/ Server!VoucherChecks(req[q]) /\ req'[q] = Server!Call("write", req[q], 0, 0)
    BY <1>3 DEF Server!VoucherRead, Server!Check, ShapeInv
  <2>2. Server!VoucherChecks(req[q]) =>
          req[q].cumulative - store[req[q].channelId].highestVoucherAmount >= Amount
    BY DEF Server!VoucherChecks, Server!Highest
  <2> QED
    BY <1>1, <2>1, <2>2, CallFields
<1>4. CASE Server!CloseFail(q) \/ Server!OpenWrite(q) \/ Server!TopUpWrite(q)
           \/ Server!VoucherWrite(q) \/ Server!CloseWrite(q)
  <2>1. Server!End(q)
    BY <1>4 DEF Server!CloseFail, Server!OpenWrite, Server!TopUpWrite,
                Server!VoucherWrite, Server!CloseWrite
  <2> QED
    BY <1>1, <2>1 DEF Server!End, ShapeInv
<1> QED
  BY <1>2, <1>3, <1>4 DEF Server!Handle

LEMMA ServerTurns ==
  ASSUME IInv, ShapeInv, TurnInv, NEW q \in Presentations, Server!Handle(q),
         UNCHANGED vars
  PROVE  TurnInv'
<1>1. cumulative' = cumulative /\ Server!InFlight(q)
  BY ServerKinds, RestsAt DEF vars, Steps, Writes
<1>2. PICK r \in Calls :
        /\ req[q].channelId = Id(r)
        /\ req[q].action \in {"open", "voucher"}
        /\ req[q].cumulative \in Amount .. cumulative[r]
        /\ req[q].action = "voucher" /\ req[q].at = "write" =>
             store[Id(r)].highestVoucherAmount + Amount <= req[q].cumulative
  BY <1>1 DEF TurnInv, Worth
<1>3. /\ cumulative[r] \in Nat /\ store[Id(r)].spent \in Nat
      /\ store[Id(r)].highestVoucherAmount \in 0 .. cumulative[r]
      /\ store[Id(r)].spent <= store[Id(r)].highestVoucherAmount
  BY DEF IInv, TypeOK, ShapeInv, TurnInv
<1>4. CASE Steps(q) /\ store' = store
  <2>1. PICK c : Goes(q, c)
    BY <1>4 DEF Steps
  <2>2. req'[q] = c /\ \A p \in Presentations : Server!InFlight(p)' => p = q
    BY <1>1, <2>1, OnlyOne DEF Goes
  <2>3. ASSUME Server!InFlight(q)' PROVE Worth(q)'
    <3>1. c # Server!Ended /\ c.channelId = Id(r)
      BY <1>2, <2>1, <2>2, <2>3 DEF Server!InFlight, Goes
    <3>2. /\ c.action = req[q].action /\ c.cumulative = req[q].cumulative
          /\ c.action = "voucher" /\ c.at = "write" =>
               req[q].cumulative - store[Id(r)].highestVoucherAmount >= Amount
      BY <1>2, <1>4, <2>1, <3>1, ReadsWorth
    <3>3. c.action = "voucher" /\ c.at = "write" =>
            store[Id(r)].highestVoucherAmount + Amount <= c.cumulative
      BY <1>2, <1>3, <3>2, AmountType
    <3> QED
      BY <1>1, <1>2, <1>4, <2>2, <3>1, <3>2, <3>3 DEF Worth
  <2> QED
    BY <1>1, <1>4, <2>2, <2>3 DEF TurnInv
<1>5. ASSUME NEW s, Writes(q, s),
             s.highestVoucherAmount \in 0 .. cumulative[r],
             s.spent <= s.highestVoucherAmount
      PROVE  TurnInv'
  <2>1. req'[q] = Server!Ended /\ \A p \in Presentations : Server!InFlight(p)' => p = q
    BY <1>1, <1>5, OnlyOne DEF Writes
  <2>2. \A p \in Presentations : ~Server!InFlight(p)'
    BY <2>1 DEF Server!InFlight
  <2>3. ASSUME NEW t \in Calls
        PROVE  /\ store'[Id(t)].highestVoucherAmount \in 0 .. cumulative[t]
               /\ store'[Id(t)].spent <= store'[Id(t)].highestVoucherAmount
    <3>1. CASE t = r
      <4>1. \E e : e = store'[Id(t)] /\ e \in {s, Server!NoState}
        BY <1>2, <1>5, <3>1 DEF Writes
      <4>2. \A e : e \in {s, Server!NoState} =>
              e.highestVoucherAmount \in 0 .. cumulative[r] /\ e.spent <= e.highestVoucherAmount
        BY <1>3, <1>5, NoStateIsState
      <4> QED
        BY <3>1, <4>1, <4>2
    <3>2. CASE t # r
      <4>1. store'[Id(t)] = store[Id(t)]
        BY <1>2, <1>5, <3>2, IdsDiffer DEF Writes
      <4> QED
        BY <4>1 DEF TurnInv
    <3> QED
      BY <3>1, <3>2
  <2> QED
    BY <1>1, <2>2, <2>3 DEF TurnInv
<1>6. CASE Writes(q, Opened(q))
  <2>1. Opened(q).highestVoucherAmount = req[q].cumulative /\ Opened(q).spent = Amount
    BY DEF Opened
  <2> QED
    BY <1>2, <1>3, <1>5, <1>6, <2>1, AmountType
<1>7. CASE /\ Server!VoucherWrite(q) /\ Writes(q, VoucherWritten(q))
           /\ \A t \in Calls : Id(t) = req[q].channelId => Counts(q, VoucherWritten(q))
  <2>1. /\ VoucherWritten(q).highestVoucherAmount = req[q].cumulative
        /\ VoucherWritten(q).spent = store[Id(r)].spent + Amount
    BY <1>2, <1>7 DEF Counts
  <2>2. req[q].action = "voucher" /\ req[q].at = "write"
    BY <1>7 DEF Server!VoucherWrite, Server!At
  <2>3. /\ req[q].cumulative \in 0 .. cumulative[r]
        /\ store[Id(r)].spent + Amount <= req[q].cumulative
    BY <1>2, <1>3, <2>2, AmountType
  <2> QED
    BY <1>5, <1>7, <2>1, <2>3
<1> QED
  BY <1>2, <1>4, <1>6, <1>7, ServerKinds

LEMMA StepTurnInv ==
  ASSUME IInv, SumInv, CredentialInv, PriceInv, ShapeInv, TurnInv, part = "in turn",
         [MCNext]_<<payments, part>>
  PROVE  TurnInv'
<1>1. ~Alone
  BY DEF Alone
<1>2. ASSUME NEW q \in Presentations, ServerStep(q) PROVE TurnInv'
  BY <1>2, ServerTurns DEF ServerStep
<1>3. ASSUME NEW q \in Presentations, NEW k \in credentials, Presents(q, k) PROVE TurnInv'
  BY <1>1, <1>3, PresentTurns DEF Presents, Idle
<1> QED
  BY <1>1, <1>2, <1>3, ClientTurns, JointSteps

LEMMA InitPayments ==
  ASSUME MCInit
  PROVE  /\ IInv /\ SumInv /\ ShapeInv /\ CredentialInv /\ PriceInv /\ TurnInv
         /\ \A q \in Presentations : ~Server!InFlight(q)
<1>1. IInv /\ SumInv /\ ShapeInv
  BY InitIInv, InitSumInv, InitShapeInv DEF MCInit, JointInit
<1>2. CredentialInv /\ PriceInv
  BY DEF MCInit, JointInit, Init, CredentialInv, PriceInv
<1>3. \A r \in Calls : /\ store[Id(r)].spent = 0 /\ store[Id(r)].highestVoucherAmount = 0
                       /\ cumulative[r] = 0
  BY InitShapeInv, NoStateIsState DEF MCInit, JointInit, Init
<1>4. \A q \in Presentations : ~Server!InFlight(q)
  BY DEF MCInit, JointInit, Server!Init, Server!InFlight
<1>5. TurnInv
  BY <1>3, <1>4 DEF TurnInv
<1> QED
  BY <1>1, <1>2, <1>4, <1>5

\* The server never counts more on a channel than its payer has signed for it:
\* neither if credentials are presented once, in any order, whatever fails or
\* restarts, nor if requests wait for their answers and are presented again.
THEOREM NeverTakesMore == MCSpec => []NeverOvercharged
<1> DEFINE Inv == /\ IInv /\ SumInv /\ CredentialInv
                  /\ PriceInv /\ ShapeInv /\ ChargedInv
<1>1. ASSUME MCInit PROVE Inv
  <2>1. /\ IInv /\ SumInv /\ ShapeInv /\ CredentialInv /\ PriceInv /\ TurnInv
        /\ \A q \in Presentations : ~Server!InFlight(q)
    BY <1>1, InitPayments
  <2>2. \A r \in Calls : store[Id(r)].spent = 0 /\ cumulative[r] = 0
    BY <1>1, InitShapeInv, NoStateIsState DEF MCInit, JointInit, Init
  <2>3. ASSUME NEW r \in Calls PROVE Due(r) = 0 /\ Left(r) = 0
    <3> DEFINE f == [q \in Presentations |-> DueOf(q, r)]
               g == [c \in Calls |-> LeftOf(c, r)]
    <3>1. /\ \A q \in Presentations : f[q] = 0
          /\ \A c \in Calls : g[c] = 0
      BY <1>1, <2>1, ConstantsAssumption DEF DueOf, LeftOf, MCInit, JointInit, Init
    <3>2. Due(r) = SumFunctionOnSet(f, Presentations) /\ Left(r) = SumFunctionOnSet(g, Calls)
      BY DEF Due, Left, SumFunction
    <3> HIDE DEF f, g
    <3> QED
      BY <3>1, <3>2, SumZero, PaymentsAssumption, ConstantsAssumption
  <2>4. SpendInv
    BY <2>2, <2>3 DEF SpendInv
  <2> QED
    BY <2>1, <2>2, <2>4 DEF ChargedInv
<1>2. ASSUME Inv, [MCNext]_<<payments, part>> PROVE Inv'
  <2>1. IInv' /\ SumInv'
    BY <1>2, ClientSteps, StepIInv, StepSumInv
  <2>2. CredentialInv' /\ PriceInv' /\ ShapeInv'
    BY <1>2, StepCredentialInv, StepPriceInv, StepShapeInv
  <2>3. part' = part
    BY <1>2 DEF MCNext, payments
  <2>4. CASE Alone
    <3>1. store' = store
      BY <1>2, <2>4, AloneSteps DEF ClientMoves
    <3> QED
      BY <1>2, <2>1, <2>2, <2>3, <2>4, <3>1 DEF ChargedInv, Alone
  <2>5. CASE part = "payments"
    BY <1>2, <2>1, <2>2, <2>3, <2>5, StepSpendInv DEF ChargedInv, Alone
  <2>6. CASE part = "in turn"
    BY <1>2, <2>1, <2>2, <2>3, <2>6, StepTurnInv DEF ChargedInv, Alone
  <2>7. CASE part \notin {"any", "serial", "payments", "in turn"}
    BY <1>2, <2>1, <2>2, <2>3, <2>7 DEF ChargedInv, Alone
  <2> QED
    BY <2>4, <2>5, <2>6, <2>7 DEF Alone
<1>3. Inv /\ part \in Parts => NeverOvercharged
  <2> SUFFICES ASSUME Inv, part \in Parts, NEW r \in Calls
               PROVE  store[Id(r)].spent <= cumulative[r]
    BY DEF NeverOvercharged
  <2>1. store[Id(r)].spent \in Nat /\ cumulative[r] \in Nat
    BY DEF ShapeInv, IInv, TypeOK
  <2>2. CASE Alone
    <3>1. \A s \in Calls : store[Id(s)].spent = 0
      BY <2>2 DEF ChargedInv
    <3> QED
      BY <2>1, <3>1
  <2>3. CASE part = "payments"
    BY <2>1, <2>3, DueType, LeftType DEF ChargedInv, SpendInv
  <2>4. CASE part = "in turn"
    <3>1. TurnInv
      BY <2>4 DEF ChargedInv
    <3>2. /\ store[Id(r)].highestVoucherAmount \in 0 .. cumulative[r]
          /\ store[Id(r)].spent <= store[Id(r)].highestVoucherAmount
      BY <3>1 DEF TurnInv
    <3> QED
      BY <2>1, <3>2
  <2> QED
    BY <2>2, <2>3, <2>4 DEF Parts, Alone
<1>4. MCInit => part \in Parts
  BY DEF MCInit
<1>5. part \in Parts /\ [MCNext]_<<payments, part>> => (part \in Parts)'
  BY DEF MCNext, payments
<1> HIDE DEF Inv
<1> QED
  BY <1>1, <1>2, <1>3, <1>4, <1>5, PTL DEF MCSpec

-----------------------------------------------------------------------------
\* What a client that waits for each answer has opened, charged and signed.
PaysInv ==
  /\ \A r \in Calls : call[r].at = "open" => Transferable
  /\ \A r \in Calls : call[r].at \in {"register", "confirm"} => r \in funded
  /\ Known => current \in funded /\ call[current].at \in {"confirm", "sign", "ended"}
  /\ \A r \in Calls : call[r].channel # NoEntry => call[r].channel \in funded
  /\ \A r, s \in Calls : call[r].at # "ended" /\ s # r => call[s].channel # r
  /\ \A r \in Calls : call[r].channel = r => call[r].amount = PriceOf(r)
  /\ \A r \in Calls : call[r].at = "sign" => call[r].amount = cumulative[call[r].channel]
  /\ \A k \in credentials : k.cumulative = k.signed
  /\ \A r \in confirmed :
       /\ call[r].channel = r
       /\ call[r].at = "sign" \/ \E k \in credentials : k.call = r

\* No request is made before all credentials are presented, so the one of a
\* channel's opening call is presented first.
FirstInv ==
  /\ (\E r \in Calls : InFlight(r)) => credentials = presented
  /\ \A k, o \in credentials : o.call = k.channel /\ k.call # k.channel => o \in presented

\* What the contract knows of it.
OpenChannel(settled) ==
  [payer |-> payer, payee |-> payee, token |-> token, authorizedSigner |-> NoAddress,
   deposit |-> Deposit, settled |-> settled, closeRequestedAt |-> 0, finalized |-> FALSE]

Voucher(r, amount) == [signer |-> payer, channelId |-> Id(r), amount |-> amount]

OnChainInv ==
  /\ channels = [id \in {Id(r) : r \in Calls} |-> channels[id]]
  /\ \A r \in funded : channels[Id(r)] = OpenChannel(channels[Id(r)].settled)
  /\ \A k \in credentials : Voucher(k.channel, k.signed) \in vouchers

\* What the server knows of it: each request is about a credential, each record
\* about the channel and one of its credentials, and once that of the opening
\* call has come there is a record, or about to be one.
IsAbout(q, k) ==
  /\ req[q].channelId = Id(k.channel)
  /\ req[q].cumulative = k.cumulative
  /\ req[q].action = Payment(k).action
  /\ req[q].action = "open" /\ req[q].at = "write" => req[q].deposit = Deposit

Opens(q, r) ==
  Server!InFlight(q) /\ req[q].action = "open" /\ req[q].channelId = Id(r)

Records(r) ==
  /\ ~store[Id(r)].finalized
  /\ store[Id(r)].deposit = Deposit
  /\ \E k \in presented : /\ k.channel = r
                          /\ store[Id(r)].highestVoucherAmount = k.cumulative

ServedInv ==
  /\ \A q \in Presentations :
       Server!InFlight(q) => \E k \in presented : IsAbout(q, k)
  /\ \A r \in Calls : store[Id(r)].exists => Records(r)
  /\ \A r \in confirmed :
       Amount <= Deposit /\ (\E k \in presented : k.call = r) =>
         store[Id(r)].exists \/ \E q \in Presentations : Opens(q, r)

\* A call on its way is the only one.
LEMMA NobodyElse ==
  ASSUME OnceInv, NEW r \in Calls, InFlight(r)
  PROVE  \A s \in Calls : s # r => call[s].at \in {"idle", "ended"}
  BY DEF OnceInv, InFlight

LEMMA PaysMoves ==
  ASSUME IInv, OnceInv, PaysInv, NEW r \in Calls, NEW there, Goto(r, there),
         InFlight(r), call[r].at # "sign", there # "sign", there # "idle",
         UNCHANGED <<current, cumulative, credentials, confirmed>>,
         funded \subseteq funded',
         there = "open" => Transferable',
         there \in {"register", "confirm"} => r \in funded',
         there # "ended" => call[r].at # "confirm"
  PROVE  PaysInv'
<1>1. /\ call \in [Calls -> Call] /\ call[r] \in Call
      /\ \A s \in Calls : s # r => call[s].at \in {"idle", "ended"}
  BY NobodyElse DEF IInv, TypeOK
<1>2. /\ \A s \in Calls : s # r => call'[s] = call[s]
      /\ call'[r].at = there /\ call'[r].channel = call[r].channel
      /\ call'[r].amount = call[r].amount /\ call'[r].price = call[r].price
  BY <1>1 DEF Goto, Call
<1>3. call[r].at \in Before /\ call[r].channel = NoEntry /\ r # NoEntry
  <2>1. call[r].at \in Before
    BY <1>1 DEF Call, Places, Before, InFlight
  <2> QED
    BY <2>1, ConstantsAssumption DEF IInv, VoucherInv
<1>4. r \notin confirmed
  BY <1>3 DEF PaysInv
<1>5. \A s \in Calls : call'[s].at = "open" => Transferable'
  BY <1>1, <1>2
<1>6. \A s \in Calls : call'[s].at \in {"register", "confirm"} => s \in funded'
  BY <1>1, <1>2
<1>7. Known' => current' \in funded' /\ call'[current'].at \in {"confirm", "sign", "ended"}
  <2> SUFFICES ASSUME Known PROVE current \in funded' /\ call'[current].at \in {"confirm", "sign", "ended"}
    BY DEF Known
  <2>1. current \in funded /\ call[current].at \in {"confirm", "sign", "ended"} /\ current \in Calls
    BY DEF PaysInv, Known, IInv, TypeOK
  <2> QED
    BY <1>1, <1>2, <1>3, <2>1 DEF Before
<1>8. \A s \in Calls : call'[s].channel # NoEntry => call'[s].channel \in funded'
  BY <1>2, <1>3 DEF PaysInv
<1>9. \A s, t \in Calls : call'[s].at # "ended" /\ t # s => call'[t].channel # s
  <2> SUFFICES ASSUME NEW s \in Calls, NEW t \in Calls, call'[s].at # "ended", t # s
               PROVE  call'[t].channel # s
    OBVIOUS
  <2>1. call[s].at # "ended"
    BY <1>2, <1>3 DEF Before
  <2> QED
    BY <1>2, <2>1 DEF PaysInv
<1>10. \A s \in Calls : call'[s].channel = s => call'[s].amount = PriceOf(s)'
  BY <1>2 DEF PaysInv, PriceOf
<1>11. \A s \in Calls : call'[s].at = "sign" => call'[s].amount = cumulative'[call'[s].channel]
  BY <1>1, <1>2
<1>12. \A s \in confirmed : /\ call'[s].channel = s
                            /\ call'[s].at = "sign" \/ \E k \in credentials : k.call = s
  BY <1>1, <1>2, <1>4 DEF PaysInv, IInv, TypeOK
<1>13. \A k \in credentials : k.cumulative = k.signed
  BY DEF PaysInv
<1> QED
  BY <1>5, <1>6, <1>7, <1>8, <1>9, <1>10, <1>11, <1>12, <1>13 DEF PaysInv

\* The amount of a charge is the entry's; the first of a channel is its price.
LEMMA PaysCharges ==
  ASSUME IInv, SumInv, OnceInv, PaysInv, NEW r \in Calls, NEW k \in Calls, Charge(r, k),
         UNCHANGED <<current, credentials, funded>>,
         \/ /\ call[r].at = "start" /\ Known /\ k = current
            /\ confirmed' = confirmed
         \/ /\ call[r].at = "confirm" /\ k = r
            /\ confirmed' = confirmed \cup {r}
  PROVE  PaysInv'
<1>1. /\ call \in [Calls -> Call] /\ call[r] \in Call /\ InFlight(r)
      /\ cumulative \in [Calls -> Nat] /\ call[r].at \in Before
      /\ call[r].channel = NoEntry /\ \A s \in Calls : s # NoEntry
  BY ConstantsAssumption DEF IInv, TypeOK, VoucherInv, Before, InFlight
<1>2. \A s \in Calls : s # r => call[s].at \in {"idle", "ended"}
  BY <1>1, NobodyElse
<1>3. /\ call'[r].channel = k /\ call'[r].price = call[r].price
      /\ \A s \in Calls : s # r => call'[s] = call[s]
      /\ cumulative'[k] = cumulative[k] + call[r].price
      /\ call[r].price \in Nat
  BY <1>1, RaisesOne DEF Raises
<1>4. call'[r].at = "sign" /\ call'[r].amount = cumulative'[k]
  BY <1>1 DEF Charge, Call
<1>5. k \in funded /\ (k = r \/ call[k].at = "ended")
  <2>1. CASE Known /\ k = current /\ call[r].at = "start"
    <3>1. k \in funded /\ call[k].at \in {"confirm", "sign", "ended"}
      BY <2>1 DEF PaysInv
    <3> QED
      BY <1>2, <2>1, <3>1
  <2> QED
    BY <2>1 DEF PaysInv
<1>6. k = r => call'[r].amount = call[r].price
  <2> SUFFICES ASSUME k = r PROVE cumulative[k] = 0
    BY <1>3, <1>4
  <2> DEFINE f == [s \in Calls |-> AskedOf(s, r)]
  <2>1. \A s \in Calls : call[s].channel # r
    BY <1>1 DEF PaysInv, Before
  <2>2. \A s \in Calls : f[s] = 0
    BY <2>1 DEF AskedOf
  <2>3. cumulative[r] = SumFunctionOnSet(f, Calls)
    BY DEF SumInv, Asked, SumFunction
  <2> HIDE DEF f
  <2> QED
    BY <2>2, <2>3, SumZero, ConstantsAssumption
<1>7. \A s \in Calls : call'[s].at # "open" /\ call'[s].at \notin {"register", "confirm"}
  BY <1>2, <1>3, <1>4
<1>8. Known' => current' \in funded' /\ call'[current'].at \in {"confirm", "sign", "ended"}
  <2> SUFFICES ASSUME Known PROVE current \in funded /\ call'[current].at \in {"confirm", "sign", "ended"}
    BY DEF Known
  <2>1. current \in funded /\ call[current].at \in {"confirm", "sign", "ended"} /\ current \in Calls
    BY DEF PaysInv, Known, IInv, TypeOK
  <2> QED
    BY <1>3, <1>4, <2>1
<1>9. \A s \in Calls : call'[s].channel # NoEntry => call'[s].channel \in funded'
  BY <1>3, <1>5 DEF PaysInv
<1>10. \A s, t \in Calls : call'[s].at # "ended" /\ t # s => call'[t].channel # s
  <2> SUFFICES ASSUME NEW s \in Calls, NEW t \in Calls, call'[s].at # "ended", t # s
               PROVE  call'[t].channel # s
    OBVIOUS
  <2>1. call[s].at # "ended"
    BY <1>1, <1>3 DEF Before
  <2>2. CASE t = r
    BY <1>3, <1>5, <2>1, <2>2
  <2>3. CASE t # r
    BY <1>3, <2>1, <2>3 DEF PaysInv
  <2> QED
    BY <2>2, <2>3
<1>11. \A s \in Calls : call'[s].channel = s => call'[s].amount = PriceOf(s)'
  <2>1. call'[r].channel = r => call'[r].amount = PriceOf(r)'
    BY <1>3, <1>6 DEF PriceOf
  <2>2. \A s \in Calls : s # r /\ call'[s].channel = s => call'[s].amount = PriceOf(s)'
    BY <1>3 DEF PaysInv, PriceOf
  <2> QED
    BY <2>1, <2>2
<1>12. \A s \in Calls : call'[s].at = "sign" => call'[s].amount = cumulative'[call'[s].channel]
  BY <1>2, <1>3, <1>4
<1>13. \A s \in confirmed' : /\ call'[s].channel = s
                             /\ call'[s].at = "sign" \/ \E c \in credentials' : c.call = s
  <2>1. confirmed \subseteq Calls
    BY DEF IInv, TypeOK
  <2>2. r \notin confirmed
    BY <1>1 DEF PaysInv
  <2> QED
    BY <1>3, <1>4, <2>1, <2>2 DEF PaysInv
<1>14. \A c \in credentials' : c.cumulative = c.signed
  BY DEF PaysInv
<1> QED
  BY <1>7, <1>8, <1>9, <1>10, <1>11, <1>12, <1>13, <1>14 DEF PaysInv

LEMMA PaysSigns ==
  ASSUME IInv, OnceInv, PaysInv, NEW r \in Calls, Sign(r)
  PROVE  PaysInv'
<1>0. PICK new : new = [call |-> r, channel |-> call[r].channel,
                        cumulative |-> Payload(r), signed |-> call[r].amount]
  OBVIOUS
<1>1. /\ call[r].at = "sign" /\ credentials' = credentials \cup {new}
      /\ call' = [call EXCEPT ![r].at = "ended"]
      /\ UNCHANGED <<current, cumulative, allowance, funds, funded, confirmed>>
  BY <1>0 DEF Sign, At, Goto, wallet, user
<1>2. /\ call \in [Calls -> Call] /\ call[r] \in Call
      /\ \A s \in Calls : s # r => call[s].at \in {"idle", "ended"}
  BY <1>1, NobodyElse DEF IInv, TypeOK, InFlight
<1>3. /\ \A s \in Calls : s # r => call'[s] = call[s]
      /\ call'[r].at = "ended"
      /\ \A s \in Calls : /\ call'[s].channel = call[s].channel
                          /\ call'[s].amount = call[s].amount
                          /\ call'[s].price = call[s].price
  BY <1>1, <1>2 DEF Call
<1>4. new.call = r /\ new.cumulative = new.signed
  BY <1>0, <1>1 DEF Payload, PaysInv
<1>5. \A s \in Calls : call'[s].at # "open" /\ call'[s].at \notin {"register", "confirm", "sign"}
  BY <1>2, <1>3
<1>6. Known' => current' \in funded' /\ call'[current'].at \in {"confirm", "sign", "ended"}
  <2> SUFFICES ASSUME Known PROVE current \in funded /\ call'[current].at \in {"confirm", "sign", "ended"}
    BY <1>1 DEF Known
  <2>1. current \in funded /\ call[current].at \in {"confirm", "sign", "ended"} /\ current \in Calls
    BY DEF PaysInv, Known, IInv, TypeOK
  <2> QED
    BY <1>3, <2>1
<1>7. \A s \in Calls : call'[s].channel # NoEntry => call'[s].channel \in funded'
  BY <1>1, <1>3 DEF PaysInv
<1>8. \A s, t \in Calls : call'[s].at # "ended" /\ t # s => call'[t].channel # s
  BY <1>3 DEF PaysInv
<1>9. \A s \in Calls : call'[s].channel = s => call'[s].amount = PriceOf(s)'
  BY <1>3 DEF PaysInv, PriceOf
<1>10. \A s \in confirmed' : /\ call'[s].channel = s
                             /\ call'[s].at = "sign" \/ \E c \in credentials' : c.call = s
  <2>1. \A s \in confirmed : call[s].channel = s /\ s \in Calls
    BY DEF PaysInv, IInv, TypeOK
  <2>2. \A s \in confirmed : s # r => call[s].at # "sign"
    BY <1>2, <2>1
  <2>3. \A s \in confirmed : s # r => \E c \in credentials : c.call = s
    BY <2>2 DEF PaysInv
  <2> QED
    BY <1>1, <1>3, <1>4, <2>1, <2>3
<1>11. \A c \in credentials' : c.cumulative = c.signed
  BY <1>1, <1>4 DEF PaysInv
<1> QED
  BY <1>5, <1>6, <1>7, <1>8, <1>9, <1>10, <1>11 DEF PaysInv

LEMMA PaysBegins ==
  ASSUME IInv, PaysInv, NEW r \in Calls, NEW price, Begin(r, price),
         \A s \in Calls : ~InFlight(s)
  PROVE  PaysInv'
<1>1. /\ call \in [Calls -> Call] /\ call[r] \in Call /\ call[r].at = "idle"
      /\ UNCHANGED <<current, cumulative, credentials, allowance, funds, funded, confirmed>>
      /\ call' = [call EXCEPT ![r] = [@ EXCEPT !.at = "start", !.price = price]]
  BY DEF IInv, TypeOK, Begin, At, wallet, user
<1>2. /\ \A s \in Calls : s # r => call'[s] = call[s]
      /\ call'[r].at = "start" /\ call'[r].channel = call[r].channel
      /\ call'[r].amount = call[r].amount
  BY <1>1 DEF Call
<1>3. call[r].channel = NoEntry /\ \A s \in Calls : s # NoEntry
  BY <1>1, ConstantsAssumption DEF IInv, VoucherInv, Before
<1>4. \A s \in Calls : s # r => call'[s].at \in {"idle", "ended"}
  BY <1>2 DEF InFlight
<1>5. \A s \in Calls : /\ call'[s].at # "open" /\ call'[s].at # "sign"
                       /\ call'[s].at \notin {"register", "confirm"}
  BY <1>2, <1>4
<1>6. Known' => current' \in funded' /\ call'[current'].at \in {"confirm", "sign", "ended"}
  <2> SUFFICES ASSUME Known PROVE current \in funded /\ call'[current].at \in {"confirm", "sign", "ended"}
    BY <1>1 DEF Known
  <2>1. current \in funded /\ call[current].at \in {"confirm", "sign", "ended"} /\ current \in Calls
    BY DEF PaysInv, Known, IInv, TypeOK
  <2> QED
    BY <1>1, <1>2, <2>1
<1>7. \A s \in Calls : call'[s].channel # NoEntry => call'[s].channel \in funded'
  BY <1>1, <1>2, <1>3 DEF PaysInv
<1>8. \A s, t \in Calls : call'[s].at # "ended" /\ t # s => call'[t].channel # s
  <2> SUFFICES ASSUME NEW s \in Calls, NEW t \in Calls, call'[s].at # "ended", t # s
               PROVE  call'[t].channel # s
    OBVIOUS
  <2>1. call[s].at # "ended"
    BY <1>1, <1>2
  <2> QED
    BY <1>2, <2>1 DEF PaysInv
<1>9. \A s \in Calls : call'[s].channel = s => call'[s].amount = PriceOf(s)'
  BY <1>2, <1>3 DEF PaysInv, PriceOf
<1>10. \A s \in confirmed : /\ call'[s].channel = s
                            /\ call'[s].at = "sign" \/ \E c \in credentials : c.call = s
  <2>1. \A s \in confirmed : /\ call[s].channel = s /\ s \in Calls
                             /\ call[s].at = "sign" \/ \E c \in credentials : c.call = s
    BY DEF PaysInv, IInv, TypeOK
  <2>2. \A s \in confirmed : s # r
    BY <1>3, <2>1
  <2> QED
    BY <1>2, <2>1, <2>2
<1>11. \A c \in credentials : c.cumulative = c.signed
  BY DEF PaysInv
<1> QED
  BY <1>1, <1>5, <1>6, <1>7, <1>8, <1>9, <1>10, <1>11 DEF PaysInv

LEMMA StepPaysInv ==
  ASSUME IInv, SumInv, OnceInv, PaysInv, [SerialNext]_vars
  PROVE  PaysInv'
<1>1. ASSUME NEW r \in Calls, Lookup(r) PROVE PaysInv'
  <2>1. /\ call[r].at = "start" /\ InFlight(r)
        /\ UNCHANGED <<current, credentials, funded, confirmed>>
    BY <1>1 DEF Lookup, At, InFlight, wallet, user
  <2>2. CASE Known /\ Charge(r, current)
    <3>1. current \in Calls
      BY <2>2 DEF IInv, TypeOK, Known
    <3> QED
      BY <2>1, <2>2, <3>1, PaysCharges
  <2>3. CASE Goto(r, "allowance") /\ UNCHANGED cumulative
    BY <2>1, <2>3, PaysMoves
  <2> QED
    BY <1>1, <2>2, <2>3 DEF Lookup
<1>2. ASSUME NEW r \in Calls, ReadAllowance(r) PROVE PaysInv'
  BY <1>2, PaysMoves DEF ReadAllowance, At, InFlight, wallet, user
<1>3. ASSUME NEW r \in Calls, Approve(r) PROVE PaysInv'
  BY <1>3, PaysMoves DEF Approve, At, InFlight, user
<1>4. ASSUME NEW r \in Calls, Estimate(r) PROVE PaysInv'
  <2>1. /\ call[r].at = "estimate" /\ InFlight(r)
        /\ UNCHANGED <<current, cumulative, credentials, funded, confirmed, allowance, funds>>
    BY <1>4 DEF Estimate, At, InFlight, wallet, user
  <2>2. Transferable' <=> Transferable
    BY <2>1 DEF Transferable
  <2>3. PICK there : /\ Goto(r, there) /\ there \in {"open", "ended"}
                     /\ there = "open" => Transferable
    BY <1>4 DEF Estimate
  <2> QED
    BY <2>1, <2>2, <2>3, PaysMoves
<1>5. ASSUME NEW r \in Calls, Open(r) PROVE PaysInv'
  <2>1. call[r].at = "open" /\ InFlight(r) /\ Transferable
    BY <1>5 DEF Open, At, InFlight, PaysInv
  <2>2. /\ funded' = funded \cup {r} /\ Goto(r, "register")
        /\ UNCHANGED <<current, cumulative, credentials, confirmed>>
    BY <1>5, <2>1 DEF Open, user
  <2> QED
    BY <2>1, <2>2, PaysMoves
<1>6. ASSUME NEW r \in Calls, Register(r) PROVE PaysInv'
  <2>1. /\ call[r].at = "register" /\ InFlight(r) /\ r \in funded /\ current' = r
        /\ Goto(r, "confirm") /\ announced' = announced \cup {r}
        /\ UNCHANGED <<cumulative, credentials, allowance, funds, funded, confirmed>>
    BY <1>6 DEF Register, At, InFlight, PaysInv, wallet
  <2>2. /\ call \in [Calls -> Call] /\ call[r] \in Call
        /\ \A s \in Calls : s # r => call[s].at \in {"idle", "ended"}
    BY <2>1, NobodyElse DEF IInv, TypeOK
  <2>3. /\ \A s \in Calls : s # r => call'[s] = call[s]
        /\ call'[r].at = "confirm"
        /\ \A s \in Calls : /\ call'[s].channel = call[s].channel
                            /\ call'[s].amount = call[s].amount
                            /\ call'[s].price = call[s].price
    BY <2>1, <2>2 DEF Goto, Call
  <2>4. call[r].channel = NoEntry /\ \A s \in Calls : s # NoEntry
    BY <2>1, ConstantsAssumption DEF IInv, VoucherInv, Before
  <2>5. \A s \in Calls : call'[s].at # "open" /\ call'[s].at # "sign"
    BY <2>2, <2>3
  <2>6. \A s \in Calls : call'[s].at \in {"register", "confirm"} => s \in funded'
    BY <2>1, <2>2, <2>3
  <2>7. \A s, t \in Calls : call'[s].at # "ended" /\ t # s => call'[t].channel # s
    <3> SUFFICES ASSUME NEW s \in Calls, NEW t \in Calls, call'[s].at # "ended", t # s
                 PROVE  call'[t].channel # s
      OBVIOUS
    <3>1. call[s].at # "ended"
      BY <2>1, <2>3
    <3> QED
      BY <2>3, <3>1 DEF PaysInv
  <2>8. \A s \in confirmed : /\ call'[s].channel = s
                             /\ call'[s].at = "sign" \/ \E c \in credentials : c.call = s
    <3>1. \A s \in confirmed : /\ call[s].channel = s /\ s \in Calls
                               /\ call[s].at = "sign" \/ \E c \in credentials : c.call = s
      BY DEF PaysInv, IInv, TypeOK
    <3>2. \A s \in confirmed : s # r
      BY <2>4, <3>1
    <3> QED
      BY <2>3, <3>1, <3>2
  <2>9. \A s \in Calls : call'[s].channel = s => call'[s].amount = PriceOf(s)'
    BY <2>3 DEF PaysInv, PriceOf
  <2>10. \A s \in Calls : call'[s].channel # NoEntry => call'[s].channel \in funded'
    BY <2>1, <2>3 DEF PaysInv
  <2>11. \A c \in credentials : c.cumulative = c.signed
    BY DEF PaysInv
  <2>12. Known' => current' \in funded' /\ call'[current'].at \in {"confirm", "sign", "ended"}
    BY <2>1, <2>3
  <2> QED
    BY <2>1, <2>5, <2>6, <2>7, <2>8, <2>9, <2>10, <2>11, <2>12 DEF PaysInv
<1>7. ASSUME NEW r \in Calls, Confirm(r) PROVE PaysInv'
  <2>1. /\ call[r].at = "confirm" /\ Charge(r, r) /\ confirmed' = confirmed \cup {r}
        /\ UNCHANGED <<current, credentials, funded>>
    BY <1>7 DEF Confirm, At, wallet
  <2> QED
    BY <2>1, PaysCharges
<1>8. ASSUME NEW r \in Calls, Reject(r) PROVE PaysInv'
  BY <1>8, PaysMoves DEF Reject, At, InFlight, wallet, user
<1>9. CASE UNCHANGED vars
  BY <1>9 DEF vars, PaysInv, Known, Transferable, PriceOf
<1> QED
  BY <1>1, <1>2, <1>3, <1>4, <1>5, <1>6, <1>7, <1>8, <1>9, PaysSigns, PaysBegins
     DEF SerialNext, Handle

-----------------------------------------------------------------------------
\* How they move when requests are answered in turn.
LEMMA TurnSteps ==
  ASSUME part = "in turn", [MCNext]_<<payments, part>>
  PROVE  \/ \E r \in Calls : ClientStep(r) \/ Settle(r)
         \/ \E q \in Presentations : ServerStep(q) /\ Arrives(q)
         \/ Idle /\ credentials = presented /\ \E r \in Calls : Request(r)
         \/ Idle /\ \E q \in Presentations, k \in credentials : Present(q, k)
         \/ UNCHANGED payments
  BY DEF MCNext, InTurn

LEMMA ClientHandles ==
  ASSUME NEW r \in Calls, ClientStep(r)
  PROVE  Handle(r) /\ InFlight(r) /\ UNCHANGED server
<1>1. Handle(r) /\ UNCHANGED server
  BY DEF ClientStep, OpenOnChain, SignVoucher, Handle, server
<1>2. InFlight(r)
  BY <1>1 DEF Handle, Lookup, ReadAllowance, Approve, Estimate, Open, Register,
              Confirm, Reject, Sign, At, InFlight
<1> QED
  BY <1>1, <1>2

LEMMA StepFirstInv ==
  ASSUME IInv, CredentialInv, ShapeInv, OnceInv, PaysInv, FirstInv, part = "in turn",
         [MCNext]_<<payments, part>>
  PROVE  FirstInv'
<1>1. CASE UNCHANGED <<call, credentials, presented>>
  BY <1>1 DEF FirstInv, InFlight
<1>2. ASSUME NEW r \in Calls, ClientStep(r) PROVE FirstInv'
  <2>1. Handle(r) /\ InFlight(r) /\ UNCHANGED <<store, req, presented>>
    BY <1>2, ClientHandles DEF server
  <2>2. credentials = presented
    BY <2>1 DEF FirstInv
  <2>3. CASE credentials' = credentials
    BY <2>1, <2>2, <2>3 DEF FirstInv
  <2>4. CASE Sign(r)
    <3>1. PICK new : /\ new = [call |-> r, channel |-> call[r].channel,
                               cumulative |-> Payload(r), signed |-> call[r].amount]
                     /\ credentials' = credentials \cup {new}
      BY <2>4 DEF Sign
    <3>2. call[r].at = "sign" /\ call' = [call EXCEPT ![r].at = "ended"]
      BY <2>4 DEF Sign, At, Goto
    <3>3. new.call = r /\ new.channel = call[r].channel
      BY <3>1
    <3>4. \A s \in Calls : ~InFlight(s)'
      <4>1. call \in [Calls -> Call] /\ \A s \in Calls : s # r => call[s].at \in {"idle", "ended"}
        BY <2>1, NobodyElse DEF IInv, TypeOK
      <4> QED
        BY <3>2, <4>1 DEF InFlight, Call
    <3>5. ASSUME NEW k \in credentials', NEW o \in credentials',
                 o.call = k.channel, k.call # k.channel
          PROVE  o \in presented
      <4>1. CASE o \in credentials
        BY <2>2, <4>1
      <4>2. CASE o = new /\ k \in credentials
        <5>1. k.call \in Calls /\ call[k.call].channel = k.channel
          BY <4>2 DEF IInv, TypeOK, VoucherInv, Credential
        <5>2. k.channel = r /\ k.call # r
          BY <3>3, <3>5, <4>2
        <5> QED
          BY <3>2, <5>1, <5>2 DEF PaysInv
      <4>3. CASE o = new /\ k = new
        BY <3>3, <3>5, <4>3
      <4> QED
        BY <3>1, <4>1, <4>2, <4>3
    <3> QED
      BY <2>1, <3>4, <3>5 DEF FirstInv
  <2>5. [Next]_vars
    BY <2>1 DEF Next, ReliableNext
  <2>6. credentials' = credentials \/ Sign(r)
    BY <2>1 DEF Handle, Lookup, ReadAllowance, Approve, Estimate, Open, Register,
                Confirm, Reject
  <2> QED
    BY <2>3, <2>4, <2>6
<1>3. ASSUME NEW r \in Calls, Request(r), credentials = presented PROVE FirstInv'
  BY <1>3 DEF Request, Begin, server, FirstInv
<1>4. ASSUME Idle, NEW q \in Presentations, NEW k \in credentials, Present(q, k) PROVE FirstInv'
  <2>1. UNCHANGED <<call, credentials>> /\ presented' = presented \cup {k}
    BY <1>4, PresentsOne DEF vars
  <2>2. \A r \in Calls : ~InFlight(r)'
    BY <1>4, <2>1 DEF Idle, InFlight
  <2> QED
    BY <2>1, <2>2 DEF FirstInv
<1>5. ASSUME NEW r \in Calls, Settle(r) PROVE FirstInv'
  BY <1>1, <1>5 DEF Settle, vars, server
<1>6. ASSUME NEW q \in Presentations, ServerStep(q) PROVE FirstInv'
  BY <1>1, <1>6 DEF ServerStep, vars
<1>7. CASE UNCHANGED payments
  BY <1>1, <1>7 DEF payments, vars, server
<1> QED
  BY <1>2, <1>3, <1>4, <1>5, <1>6, <1>7, TurnSteps

-----------------------------------------------------------------------------
\* The server asks the chain for what is there, and changes it only to close.
LEMMA ServerLooks ==
  ASSUME ServedInv, NEW q \in Presentations, Server!Handle(q), Server!InFlight(q)
  PROVE  UNCHANGED chain
<1>1. PICK k \in presented : IsAbout(q, k)
  BY DEF ServedInv
<1>2. req[q].action # "close"
  BY <1>1 DEF IsAbout, Payment
<1>3. ~Server!CloseSend(q)
  BY <1>2 DEF Server!CloseSend, Server!At
<1> QED
  BY <1>3 DEF Server!Handle, Server!OpenRead, Server!OpenWrite, Server!TopUpRead,
              Server!TopUpChain, Server!TopUpWrite, Server!VoucherRead,
              Server!VoucherWrite, Server!CloseRead, Server!CloseFail,
              Server!CloseWrite, Server!chain, chain

LEMMA HandlesInFlight ==
  ASSUME ShapeInv, NEW q \in Presentations, Server!Handle(q)
  PROVE  Server!InFlight(q)
  BY ServerKinds, RestsAt DEF Steps, Writes

LEMMA SettlesOpen ==
  ASSUME NEW c, NEW x, c = OpenChannel(x),
         NEW amount, NEW d, d = [c EXCEPT !.settled = amount]
  PROVE  d = OpenChannel(amount)
  BY DEF OpenChannel

LEMMA StepOnChainInv ==
  ASSUME IInv, ShapeInv, OnceInv, PaysInv, OnChainInv, ServedInv, part = "in turn",
         [MCNext]_<<payments, part>>
  PROVE  OnChainInv'
<1>1. CASE UNCHANGED <<funded, credentials, chain>>
  BY <1>1 DEF OnChainInv, chain
<1>2. ASSUME NEW r \in Calls, OpenOnChain(r) PROVE OnChainInv'
  <2>1. Open(r) /\ call[r].at = "open"
    BY <1>2 DEF OpenOnChain, Open, At
  <2>2. funded = {} /\ Transferable
    BY <2>1 DEF OnceInv, Opening, PaysInv
  <2>3. funded' = {r} /\ credentials' = credentials
    BY <2>1, <2>2 DEF Open
  <2>4. Server!Chain!open(payer, Id(r), Deposit)
    BY <1>2, <2>3 DEF OpenOnChain
  <2>9. /\ Id(r).payee = payee /\ Id(r).token = token
        /\ Id(r).authorizedSigner = NoAddress
    BY DEF Id
  <2>10. /\ channels' = [channels EXCEPT ![Id(r)] =
              [payer |-> payer, payee |-> Id(r).payee, token |-> Id(r).token,
               authorizedSigner |-> Id(r).authorizedSigner, deposit |-> Deposit,
               settled |-> 0, closeRequestedAt |-> 0, finalized |-> FALSE]]
         /\ vouchers' = vouchers
    BY <2>4 DEF Server!Chain!open
  <2>5. /\ channels' = [channels EXCEPT ![Id(r)] = OpenChannel(0)]
        /\ vouchers' = vouchers
    BY <2>9, <2>10 DEF OpenChannel
  <2>6. /\ channels' = [id \in {Id(s) : s \in Calls} |-> channels'[id]]
        /\ channels'[Id(r)] = OpenChannel(0)
    BY <2>5 DEF OnChainInv
  <2>7. channels'[Id(r)] = OpenChannel(channels'[Id(r)].settled)
    <3>1. OpenChannel(0).settled = 0
      BY DEF OpenChannel
    <3> QED
      BY <2>6, <3>1
  <2>8. \A s \in funded' : channels'[Id(s)] = OpenChannel(channels'[Id(s)].settled)
    BY <2>3, <2>7
  <2>11. \A k \in credentials' : Voucher(k.channel, k.signed) \in vouchers'
    BY <2>3, <2>5 DEF OnChainInv
  <2> QED
    BY <2>6, <2>8, <2>11 DEF OnChainInv
<1>3. ASSUME NEW r \in Calls, SignVoucher(r) PROVE OnChainInv'
  <2>1. PICK new : /\ new = [call |-> r, channel |-> call[r].channel,
                             cumulative |-> Payload(r), signed |-> call[r].amount]
                   /\ credentials' = credentials \cup {new}
    BY <1>3 DEF SignVoucher, Sign
  <2>2. /\ vouchers' = vouchers \cup {Voucher(call[r].channel, call[r].amount)}
        /\ channels' = channels /\ funded' = funded
    BY <1>3 DEF SignVoucher, Sign, Voucher, wallet
  <2>3. new.channel = call[r].channel /\ new.signed = call[r].amount
    BY <2>1
  <2>4. \A k \in credentials' : Voucher(k.channel, k.signed) \in vouchers'
    BY <2>1, <2>2, <2>3 DEF OnChainInv
  <2> QED
    BY <2>2, <2>4 DEF OnChainInv
<1>4. ASSUME NEW r \in Calls,
             Lookup(r) \/ ReadAllowance(r) \/ Approve(r) \/ Estimate(r) \/ Register(r)
               \/ Confirm(r) \/ Reject(r),
             UNCHANGED chain
      PROVE  OnChainInv'
  <2>1. UNCHANGED <<funded, credentials>>
    BY <1>4 DEF Lookup, ReadAllowance, Approve, Estimate, Register, Confirm, Reject, wallet
  <2> QED
    BY <1>1, <1>4, <2>1
<1>5. ASSUME NEW r \in Calls, Request(r) PROVE OnChainInv'
  BY <1>1, <1>5 DEF Request, Begin, wallet
<1>6. ASSUME NEW r \in Calls, Settle(r) PROVE OnChainInv'
  <2>1. PICK amount : Server!Chain!settle(payee, Id(r), amount)
    BY <1>6 DEF Settle
  <2>2. /\ channels' = [channels EXCEPT ![Id(r)].settled = amount] /\ vouchers' = vouchers
        /\ UNCHANGED <<funded, credentials>>
    BY <1>6, <2>1 DEF Server!Chain!settle, Settle, vars
  <2>3. channels' = [id \in {Id(s) : s \in Calls} |-> channels'[id]]
    BY <2>2 DEF OnChainInv
  <2>4. ASSUME NEW s \in funded PROVE channels'[Id(s)] = OpenChannel(channels'[Id(s)].settled)
    <3>1. s \in Calls /\ channels[Id(s)] = OpenChannel(channels[Id(s)].settled)
      BY DEF OnChainInv, IInv, TypeOK
    <3>2. CASE s = r
      <4>1. channels'[Id(s)] = [channels[Id(s)] EXCEPT !.settled = amount]
        BY <2>2, <3>1, <3>2 DEF OnChainInv
      <4>2. channels'[Id(s)] = OpenChannel(amount)
        BY <3>1, <4>1, SettlesOpen
      <4>4. OpenChannel(amount).settled = amount
        BY DEF OpenChannel
      <4> QED
        BY <4>2, <4>4
    <3>3. CASE s # r
      <4>1. channels'[Id(s)] = channels[Id(s)]
        BY <2>2, <3>1, <3>3, IdsDiffer DEF OnChainInv
      <4> QED
        BY <3>1, <4>1
    <3> QED
      BY <3>2, <3>3
  <2> QED
    BY <2>2, <2>3, <2>4 DEF OnChainInv
<1>7. ASSUME NEW q \in Presentations, ServerStep(q) PROVE OnChainInv'
  BY <1>1, <1>7, ServerLooks, HandlesInFlight DEF ServerStep, vars
<1>8. ASSUME NEW q \in Presentations, NEW k, Present(q, k) PROVE OnChainInv'
  BY <1>1, <1>8 DEF Present, Server!Receive, Server!chain, chain, vars
<1>9. CASE UNCHANGED payments
  BY <1>1, <1>9 DEF payments, vars, chain
<1> QED
  BY <1>2, <1>3, <1>4, <1>5, <1>6, <1>7, <1>8, <1>9, TurnSteps DEF ClientStep

-----------------------------------------------------------------------------
\* What holds of client, server and contract when requests are answered in turn.
InTurnInv ==
  /\ IInv /\ SumInv /\ CredentialInv /\ PriceInv /\ ShapeInv /\ TurnInv
  /\ OnceInv /\ PaysInv /\ FirstInv /\ OnChainInv /\ ServedInv

\* Each credential is over what was signed, the price at least, on a channel that
\* is open on the chain.
LEMMA Paid ==
  ASSUME InTurnInv, ~Alone, NEW k \in presented
  PROVE  /\ k \in credentials /\ k.call \in Calls /\ k.channel \in Calls
         /\ call[k.call].at = "ended" /\ call[k.call].channel = k.channel
         /\ call[k.call].amount = k.cumulative /\ call[k.call].price = Amount
         /\ k.cumulative \in Nat /\ Amount <= k.cumulative
         /\ channels[Id(k.channel)] = OpenChannel(channels[Id(k.channel)].settled)
         /\ Voucher(k.channel, k.cumulative) \in vouchers
<1>1. k \in credentials
  BY DEF InTurnInv, CredentialInv
<1>2. /\ k.call \in Calls /\ k.channel \in Calls /\ k.cumulative \in Nat
  BY <1>1 DEF InTurnInv, IInv, TypeOK, Credential
<1>3. /\ call[k.call].at = "ended" /\ PriceOf(k.call) <= k.cumulative
  BY <1>1 DEF InTurnInv, CredentialInv
<1>4. call[k.call].channel = k.channel /\ call[k.call].amount = k.signed
  BY <1>1 DEF InTurnInv, IInv, VoucherInv
<1>5. k.signed = k.cumulative
  BY <1>1 DEF InTurnInv, PaysInv
<1>6. call[k.call].price = Amount
  BY <1>2, <1>3 DEF InTurnInv, PriceInv, PriceOf
<1>7. k.channel \in funded
  BY <1>2, <1>4, ConstantsAssumption DEF InTurnInv, PaysInv
<1>8. channels[Id(k.channel)] = OpenChannel(channels[Id(k.channel)].settled)
  BY <1>7 DEF InTurnInv, OnChainInv
<1>9. Voucher(k.channel, k.cumulative) \in vouchers
  BY <1>1, <1>5 DEF InTurnInv, OnChainInv
<1> QED
  BY <1>1, <1>2, <1>3, <1>4, <1>5, <1>6, <1>8, <1>9 DEF PriceOf

LEMMA SignedFor ==
  ASSUME NEW q, NEW k, IsAbout(q, k), Voucher(k.channel, k.cumulative) \in vouchers
  PROVE  Server!Signed(req[q])
<1>1. Id(k.channel).authorizedSigner = NoAddress /\ Id(k.channel).payer = payer
  BY DEF Id
<1>2. Server!Chain!ExpectedSigner(Id(k.channel)) = payer
  BY <1>1 DEF Server!Chain!ExpectedSigner
<1>3. req[q].channelId = Id(k.channel) /\ req[q].cumulative = k.cumulative
  BY DEF IsAbout
<1> HIDE DEF Id
<1> QED
  BY <1>2, <1>3 DEF Server!Signed, Voucher

\* The server finds the channel that the client has opened.
LEMMA Openable ==
  ASSUME InTurnInv, ~Alone, NEW q, NEW k \in presented, IsAbout(q, k),
         k.cumulative <= Deposit
  PROVE  Server!OpenChecks(req[q])
<1>1. /\ channels[Id(k.channel)] = OpenChannel(channels[Id(k.channel)].settled)
      /\ Voucher(k.channel, k.cumulative) \in vouchers
  BY Paid
<1>2. PICK x : x = channels[Id(k.channel)].settled
  OBVIOUS
<1>3. PICK onChain : onChain = OpenChannel(x)
  OBVIOUS
<1>4. channels[req[q].channelId] = onChain /\ req[q].cumulative = k.cumulative
  BY <1>1, <1>2, <1>3 DEF IsAbout
<1>5. /\ onChain.deposit = Deposit /\ onChain.finalized = FALSE
      /\ onChain.closeRequestedAt = 0 /\ onChain.payee = payee /\ onChain.token = token
  BY <1>3 DEF OpenChannel
<1>6. Deposit # 0
  BY ConstantsAssumption
<1>7. Server!Signed(req[q])
  BY <1>1, SignedFor
<1> QED
  BY <1>4, <1>5, <1>6, <1>7 DEF Server!OpenChecks

\* The first voucher of a confirmed channel is that of the call that has opened
\* it, and has come before any other.
LEMMA OpenedFirst ==
  ASSUME InTurnInv, ~Alone, NEW k \in presented, k.channel \in confirmed,
         k.cumulative <= Deposit, k.call # k.channel,
         \A p \in Presentations : ~Opens(p, k.channel)
  PROVE  store[Id(k.channel)].exists
<1>1. /\ k \in credentials /\ k.call \in Calls /\ k.channel \in Calls
      /\ call[k.call].channel = k.channel
      /\ k.cumulative \in Nat /\ Amount <= k.cumulative
  BY Paid
<1>2. call[k.channel].at = "ended"
  BY <1>1 DEF InTurnInv, PaysInv
<1>3. PICK o \in credentials : o.call = k.channel
  BY <1>2 DEF InTurnInv, PaysInv
<1>4. o \in presented
  BY <1>1, <1>3 DEF InTurnInv, FirstInv
<1>5. Amount <= Deposit
  BY <1>1, AmountType, ConstantsAssumption
<1>6. InTurnInv => ServedInv
  BY DEF InTurnInv
<1> QED
  BY <1>3, <1>4, <1>5, <1>6 DEF ServedInv

LEMMA NoneRefused ==
  ASSUME InTurnInv, ~Alone, NEW q \in Presentations, ServerStep(q), Arrives(q), Refuses(q)
  PROVE  Excused(req[q].channelId, req[q].cumulative)
<1>1. /\ Server!Handle(q) /\ req[q].at = "start" /\ req'[q] = Server!Ended
      /\ ~(req[q].action = "voucher" /\ store[req[q].channelId].exists
             /\ Server!Repeats(req[q]))
  BY DEF ServerStep, Refuses
<1>2. Server!InFlight(q)
  BY <1>1, RestsAt DEF Server!InFlight
<1>3. PICK k \in presented : IsAbout(q, k)
  BY <1>2 DEF InTurnInv, ServedInv
<1>4. /\ k \in credentials /\ k.call \in Calls /\ k.channel \in Calls
      /\ call[k.call].at = "ended" /\ call[k.call].channel = k.channel
      /\ call[k.call].amount = k.cumulative /\ call[k.call].price = Amount
      /\ k.cumulative \in Nat /\ Amount <= k.cumulative
      /\ Voucher(k.channel, k.cumulative) \in vouchers
  BY Paid
<1>5. /\ req[q].channelId = Id(k.channel) /\ req[q].cumulative = k.cumulative
      /\ req[q].action = IF k.call = k.channel THEN "open" ELSE "voucher"
  BY <1>3 DEF IsAbout, Payment
<1> SUFFICES ASSUME k.cumulative <= Deposit, NEW r \in confirmed, Id(r) = req[q].channelId
             PROVE  FALSE
  BY <1>4, <1>5, ConstantsAssumption DEF Excused
<1>6. r = k.channel
  BY <1>4, <1>5, IdsDiffer DEF InTurnInv, IInv, TypeOK
<1>7. CASE k.call = k.channel
  <2>1. Server!At(q, "open", "start")
    BY <1>1, <1>5, <1>7 DEF Server!At
  <2>2. req'[q].at = "write"
    BY <2>1, <1>3, Openable DEF Arrives
  <2> QED
    BY <1>1, <2>2, RestsAt
<1>8. CASE k.call # k.channel
  <2>1. req[q].action = "voucher"
    BY <1>5, <1>8
  <2>2. \A p \in Presentations : ~Opens(p, k.channel)
    BY <1>2, <2>1 DEF Opens, InTurnInv, TurnInv
  <2>3. store[Id(k.channel)].exists
    BY <1>6, <1>8, <2>2, OpenedFirst
  <2>4. Records(k.channel)
    BY <1>4, <2>3 DEF InTurnInv, ServedInv
  <2>5. PICK highest : highest = store[Id(k.channel)].highestVoucherAmount
    OBVIOUS
  <2>6. PICK d \in presented : d.channel = k.channel /\ highest = d.cumulative
    BY <2>4, <2>5 DEF Records
  <2>7. /\ d \in credentials /\ d.call \in Calls /\ call[d.call].channel = k.channel
        /\ call[d.call].amount = highest /\ call[d.call].price = Amount
        /\ highest \in Nat
    BY <2>6, Paid
  <2>8. ~(k.cumulative <= highest)
    BY <1>1, <1>5, <2>1, <2>3, <2>5 DEF Server!Repeats, Server!Highest
  <2>9. d.call # k.call
    BY <1>4, <2>7, <2>8
  <2>10. Apart(k.call, d.call)
    BY <1>4, <2>7, <2>9, ConstantsAssumption DEF InTurnInv, IInv, VoucherInv
  <2>11. k.cumulative - highest >= Amount
    BY <1>4, <2>7, <2>8, <2>10, AmountType DEF Apart
  <2>12. /\ store[req[q].channelId].exists /\ ~store[req[q].channelId].finalized
         /\ store[req[q].channelId].deposit = Deposit
         /\ store[req[q].channelId].highestVoucherAmount = highest
    BY <1>5, <2>3, <2>4, <2>5 DEF Records
  <2>13. Server!VoucherChecks(req[q])
    BY <1>3, <1>4, <1>5, <2>11, <2>12, SignedFor DEF Server!VoucherChecks, Server!Highest
  <2>14. ~Server!Repeats(req[q])
    BY <1>5, <2>8, <2>12 DEF Server!Repeats, Server!Highest
  <2>15. Server!VoucherRead(q)
    BY <1>1, <2>1, RestsAt DEF Server!Handle, Server!OpenRead, Server!OpenWrite,
       Server!TopUpRead, Server!TopUpChain, Server!TopUpWrite, Server!VoucherWrite,
       Server!CloseRead, Server!CloseSend, Server!CloseFail, Server!CloseWrite,
       Server!ReceiptThere, Server!At
  <2>16. req'[q] = Server!Call("write", req[q], 0, 0)
    BY <2>12, <2>13, <2>14, <2>15 DEF Server!VoucherRead, Server!Check, InTurnInv, ShapeInv
  <2> QED
    BY <1>1, <2>16, CallFields, RestsAt
<1> QED
  BY <1>7, <1>8

-----------------------------------------------------------------------------
\* A voucher's record is the one before it, raised.
LEMMA VoucherRecord ==
  ASSUME ShapeInv, NEW q \in Presentations, Server!VoucherWrite(q),
         NEW r \in Calls, req[q].channelId = Id(r)
  PROVE  \/ store'[Id(r)] = Server!NoState /\ ~store[Id(r)].exists
         \/ /\ store'[Id(r)].exists = store[Id(r)].exists
            /\ store'[Id(r)].deposit = store[Id(r)].deposit
            /\ store'[Id(r)].finalized = store[Id(r)].finalized
            /\ store'[Id(r)].highestVoucherAmount = req[q].cumulative
<1> DEFINE Ids == {Id(t) : t \in Calls}
<1>1. PICK e : e = store[Id(r)]
  OBVIOUS
<1>2. PICK m : m = req[q].cumulative
  OBVIOUS
<1>3. PICK b : b = [e EXCEPT !.highestVoucherAmount = m, !.spent = @ + Amount,
                             !.units = @ + 1]
  OBVIOUS
<1>4. Server!Revise(Id(r), b)
  BY <1>1, <1>2, <1>3 DEF Server!VoucherWrite
<1>5. Id(r) \in Ids /\ store = [i \in Ids |-> store[i]]
  BY DEF ShapeInv
<1> HIDE DEF Ids
<1>6. store'[Id(r)] = IF e.exists THEN b ELSE Server!NoState
  BY <1>1, <1>4, <1>5 DEF Server!Revise
<1>7. IsState(e)
  BY <1>1 DEF ShapeInv
<1>8. /\ b.exists = e.exists /\ b.deposit = e.deposit /\ b.finalized = e.finalized
      /\ b.highestVoucherAmount = m
  <2>1. e = [exists |-> e.exists, deposit |-> e.deposit, settledOnChain |-> e.settledOnChain,
             highestVoucherAmount |-> e.highestVoucherAmount, spent |-> e.spent,
             units |-> e.units, finalized |-> e.finalized]
    BY <1>7 DEF IsState
  <2>2. b = [exists |-> e.exists, deposit |-> e.deposit, settledOnChain |-> e.settledOnChain,
             highestVoucherAmount |-> m, spent |-> e.spent + Amount,
             units |-> e.units + 1, finalized |-> e.finalized]
    BY <1>3, <2>1
  <2> QED
    BY <2>2
<1> QED
  BY <1>1, <1>2, <1>6, <1>8

\* The client changes nothing that the server knows, and confirms a channel
\* before it returns a credential.
LEMMA ClientServed ==
  ASSUME InTurnInv, UNCHANGED <<store, req, presented>>,
         \A k \in presented : k.call \in confirmed' => k.call \in confirmed
  PROVE  ServedInv'
<1> USE DEF InTurnInv
<1>1. \A q \in Presentations : Server!InFlight(q)' <=> Server!InFlight(q)
  BY DEF Server!InFlight
<1>2. \A q \in Presentations : \A k : IsAbout(q, k)' <=> IsAbout(q, k)
  BY DEF IsAbout
<1>3. \A q \in Presentations : \A r \in Calls : Opens(q, r)' <=> Opens(q, r)
  BY <1>1 DEF Opens
<1>4. \A r \in Calls : Records(r)' <=> Records(r)
  BY DEF Records
<1>5. \A q \in Presentations : Server!InFlight(q)' => \E k \in presented : IsAbout(q, k)'
  BY <1>1, <1>2 DEF ServedInv
<1>6. \A r \in Calls : store[Id(r)].exists => Records(r)'
  BY <1>4 DEF ServedInv
<1>7. ASSUME NEW r \in confirmed', Amount <= Deposit, \E k \in presented : k.call = r
      PROVE  store[Id(r)].exists \/ \E q \in Presentations : Opens(q, r)'
  <2>1. r \in confirmed /\ r \in Calls
    BY <1>7 DEF IInv, TypeOK
  <2>2. store[Id(r)].exists \/ \E q \in Presentations : Opens(q, r)
    BY <1>7, <2>1 DEF ServedInv
  <2> QED
    BY <1>3, <2>1, <2>2
<1> QED
  BY <1>5, <1>6, <1>7 DEF ServedInv

LEMMA PresentServed ==
  ASSUME InTurnInv, ~Alone, Idle, NEW q \in Presentations, NEW k \in credentials,
         Present(q, k)
  PROVE  ServedInv'
<1>1. /\ k.cumulative = k.signed /\ k.call \in Calls /\ k.channel \in Calls
      /\ call[k.call].channel = k.channel
  BY DEF InTurnInv, IInv, TypeOK, VoucherInv, Credential, PaysInv
<1>2. PICK c : c = Server!Call("start", Payment(k), 0, 0)
  OBVIOUS
<1>3. /\ presented' = presented \cup {k} /\ confirmed' = confirmed
      /\ store' = store /\ req' = [req EXCEPT ![q] = c]
  BY <1>1, <1>2 DEF Present, Server!Receive, vars
<1>4. /\ c.at = "start" /\ c.action = Payment(k).action /\ c.channelId = Id(k.channel)
      /\ c.cumulative = k.cumulative
  BY <1>2, CallFields DEF Payment
<1>5. req'[q] = c /\ \A p \in Presentations : p # q => req'[p] = req[p]
  BY <1>3 DEF InTurnInv, ShapeInv
<1>6. \A p \in Presentations : Server!InFlight(p)' => p = q
  BY <1>5 DEF Idle, Server!InFlight
<1>7. IsAbout(q, k)'
  BY <1>4, <1>5 DEF IsAbout
<1>8. \A p \in Presentations : Server!InFlight(p)' => \E o \in presented' : IsAbout(p, o)'
  BY <1>3, <1>6, <1>7
<1>9. ASSUME NEW r \in Calls, store'[Id(r)].exists PROVE Records(r)'
  <2>1. Records(r)
    BY <1>3, <1>9 DEF InTurnInv, ServedInv
  <2> QED
    BY <1>3, <2>1 DEF Records
<1>10. ASSUME NEW r \in confirmed, Amount <= Deposit, NEW o \in presented', o.call = r
       PROVE  store'[Id(r)].exists \/ \E p \in Presentations : Opens(p, r)'
  <2>1. CASE o \in presented
    <3>1. \A p \in Presentations : ~Opens(p, r)
      BY DEF Idle, Opens
    <3> QED
      BY <1>3, <1>10, <2>1, <3>1 DEF InTurnInv, ServedInv
  <2>2. CASE o = k
    <3>1. k.channel = r /\ k.call = r
      BY <1>1, <1>10, <2>2 DEF InTurnInv, PaysInv
    <3>2. c.action = "open" /\ c.channelId = Id(r)
      BY <1>4, <3>1 DEF Payment
    <3>3. Server!InFlight(q)'
      BY <1>4, <1>5, RestsAt DEF Server!InFlight
    <3> QED
      BY <1>5, <3>2, <3>3 DEF Opens
  <2> QED
    BY <1>3, <1>10, <2>1, <2>2
<1> QED
  BY <1>3, <1>8, <1>9, <1>10 DEF ServedInv

\* A request that reads goes on about the same credential.
LEMMA ReadServed ==
  ASSUME InTurnInv, NEW q \in Presentations, Server!InFlight(q), NEW k \in presented,
         NEW c, req' = [req EXCEPT ![q] = c], UNCHANGED <<store, presented, confirmed>>,
         c = Server!Ended \/ IsAbout(q, k)',
         \A r \in confirmed : Amount <= Deposit /\ Opens(q, r) => Opens(q, r)'
  PROVE  ServedInv'
<1> USE DEF InTurnInv
<1>1. req'[q] = c /\ \A p \in Presentations : Server!InFlight(p)' => p = q
  BY OnlyOne
<1>2. Server!InFlight(q)' => IsAbout(q, k)'
  BY <1>1 DEF Server!InFlight
<1>3. \A p \in Presentations : Server!InFlight(p)' => \E o \in presented' : IsAbout(p, o)'
  BY <1>1, <1>2
<1>4. \A r \in Calls : store'[Id(r)].exists => Records(r)'
  BY DEF ServedInv, Records
<1>5. ASSUME NEW r \in confirmed, Amount <= Deposit, \E o \in presented : o.call = r
      PROVE  store'[Id(r)].exists \/ \E p \in Presentations : Opens(p, r)'
  <2>1. store[Id(r)].exists \/ \E p \in Presentations : Opens(p, r)
    BY <1>5 DEF ServedInv
  <2>2. \A p \in Presentations : Opens(p, r) => p = q
    BY DEF Opens, TurnInv
  <2> QED
    BY <1>5, <2>1, <2>2
<1> QED
  BY <1>3, <1>4, <1>5 DEF ServedInv

\* A request that writes leaves a record of what it is about.
LEMMA WriteServed ==
  ASSUME InTurnInv, NEW q \in Presentations, Server!InFlight(q), NEW k \in presented,
         IsAbout(q, k), k.channel \in Calls,
         req' = [req EXCEPT ![q] = Server!Ended], UNCHANGED <<presented, confirmed>>,
         \A r \in Calls : Id(r) # req[q].channelId => store'[Id(r)] = store[Id(r)],
         store'[Id(k.channel)].exists =>
           /\ ~store'[Id(k.channel)].finalized
           /\ store'[Id(k.channel)].deposit = Deposit
           /\ store'[Id(k.channel)].highestVoucherAmount = req[q].cumulative,
         store[Id(k.channel)].exists \/ Opens(q, k.channel) =>
           store'[Id(k.channel)].exists
  PROVE  ServedInv'
<1> USE DEF InTurnInv
<1>1. req'[q] = Server!Ended /\ \A p \in Presentations : Server!InFlight(p)' => p = q
  BY OnlyOne
<1>2. \A p \in Presentations : ~Server!InFlight(p)'
  BY <1>1 DEF Server!InFlight
<1>3. /\ req[q].channelId = Id(k.channel) /\ req[q].cumulative = k.cumulative
  BY DEF IsAbout
<1>4. \A r \in Calls : r # k.channel => store'[Id(r)] = store[Id(r)]
  BY <1>3, IdsDiffer
<1>5. ASSUME NEW r \in Calls, store'[Id(r)].exists PROVE Records(r)'
  <2>1. CASE r = k.channel
    BY <1>3, <1>5, <2>1 DEF Records
  <2>2. CASE r # k.channel
    <3>1. Records(r)
      BY <1>4, <1>5, <2>2 DEF ServedInv
    <3> QED
      BY <1>4, <2>2, <3>1 DEF Records
  <2> QED
    BY <2>1, <2>2
<1>6. ASSUME NEW r \in confirmed, Amount <= Deposit, \E o \in presented : o.call = r
      PROVE  store'[Id(r)].exists
  <2>1. r \in Calls
    BY DEF IInv, TypeOK
  <2>2. store[Id(r)].exists \/ \E p \in Presentations : Opens(p, r)
    BY <1>6 DEF ServedInv
  <2>3. \A p \in Presentations : Opens(p, r) => p = q /\ r = k.channel
    BY <1>3, <2>1, IdsDiffer DEF Opens, TurnInv
  <2> QED
    BY <1>4, <2>1, <2>2, <2>3
<1> QED
  BY <1>2, <1>5, <1>6 DEF ServedInv

\* A request takes the step that its place asks for.
LEMMA HandledAs ==
  ASSUME NEW q \in Presentations, Server!Handle(q)
  PROVE  /\ req[q].action = "open" => Server!OpenRead(q) \/ Server!OpenWrite(q)
         /\ req[q].action = "voucher" => Server!VoucherRead(q) \/ Server!VoucherWrite(q)
  BY DEF Server!Handle, Server!OpenRead, Server!OpenWrite, Server!TopUpRead,
     Server!TopUpChain, Server!TopUpWrite, Server!VoucherRead, Server!VoucherWrite,
     Server!CloseRead, Server!CloseSend, Server!CloseFail, Server!CloseWrite,
     Server!ReceiptThere, Server!At

LEMMA ServerServed ==
  ASSUME InTurnInv, ~Alone, NEW q \in Presentations, ServerStep(q), Arrives(q)
  PROVE  ServedInv'
<1>1. /\ Server!Handle(q) /\ Server!InFlight(q) /\ ShapeInv
      /\ UNCHANGED <<presented, confirmed>>
  BY HandlesInFlight DEF ServerStep, vars, InTurnInv
<1>2. PICK k \in presented : IsAbout(q, k)
  BY <1>1 DEF InTurnInv, ServedInv
<1>3. /\ k.channel \in Calls /\ k.call \in Calls /\ k.cumulative \in Nat
      /\ call[k.call].channel = k.channel /\ call[k.call].amount = k.cumulative
      /\ call[k.call].price = Amount
      /\ channels[Id(k.channel)] = OpenChannel(channels[Id(k.channel)].settled)
  BY Paid
<1>4. /\ req[q].channelId = Id(k.channel) /\ req[q].cumulative = k.cumulative
      /\ req[q].action = Payment(k).action
      /\ req[q].action = IF k.call = k.channel THEN "open" ELSE "voucher"
  BY <1>2 DEF IsAbout, Payment
<1>5. ASSUME NEW r \in Calls, Opens(q, r) PROVE r = k.channel /\ k.call = k.channel
  BY <1>3, <1>4, <1>5, IdsDiffer DEF Opens
<1>6. CASE Server!OpenRead(q)
  <2>1. PICK deposit, settled, c :
          /\ deposit = channels[req[q].channelId].deposit
          /\ c \in {Server!Call("write", req[q], deposit, settled), Server!Ended}
          /\ req' = [req EXCEPT ![q] = c]
    BY <1>6 DEF Server!OpenRead, Server!Check
  <2>2. req'[q] = c /\ store' = store /\ Server!At(q, "open", "start")
    BY <1>1, <1>6, <2>1 DEF ShapeInv, Server!OpenRead
  <2>3. deposit = Deposit
    <3>1. \A x : OpenChannel(x).deposit = Deposit
      BY DEF OpenChannel
    <3> QED
      BY <1>3, <1>4, <2>1, <3>1
  <2>4. ASSUME c # Server!Ended PROVE IsAbout(q, k)'
    <3>1. /\ c.at = "write" /\ c.action = req[q].action /\ c.channelId = req[q].channelId
          /\ c.cumulative = req[q].cumulative
      BY <2>1, <2>4, CallFields
    <3>2. c.deposit = deposit
      BY <2>1, <2>4 DEF Server!Call
    <3> QED
      BY <1>4, <2>2, <2>3, <3>1, <3>2 DEF IsAbout
  <2>5. ASSUME NEW r \in confirmed, Amount <= Deposit, Opens(q, r) PROVE Opens(q, r)'
    <3>1. r \in Calls
      BY DEF InTurnInv, IInv, TypeOK
    <3>2. r = k.channel /\ k.call = k.channel
      BY <1>5, <2>5, <3>1
    <3>3. k.cumulative = Amount
      BY <1>3, <3>2 DEF InTurnInv, PaysInv, PriceOf
    <3>4. req'[q].at = "write"
      BY <1>2, <2>2, <2>5, <3>3, Openable DEF Arrives
    <3>5. c = Server!Call("write", req[q], deposit, settled)
      BY <2>1, <2>2, <3>4, RestsAt
    <3>6. c.action = "open" /\ c.channelId = Id(r) /\ c.at = "write"
      BY <1>4, <2>2, <3>2, <3>5, CallFields DEF Server!At
    <3> QED
      BY <2>2, <3>6, RestsAt DEF Opens, Server!InFlight
  <2> QED
    BY <1>1, <2>1, <2>2, <2>4, <2>5, ReadServed
<1>7. CASE Server!VoucherRead(q)
  <2>1. PICK c : /\ c \in {Server!Call("write", req[q], 0, 0), Server!Ended}
                 /\ req' = [req EXCEPT ![q] = c]
    BY <1>7 DEF Server!VoucherRead, Server!Check
  <2>2. req'[q] = c /\ store' = store /\ Server!At(q, "voucher", "start")
    BY <1>1, <1>7, <2>1 DEF ShapeInv, Server!VoucherRead
  <2>3. ASSUME c # Server!Ended PROVE IsAbout(q, k)'
    <3>1. /\ c.at = "write" /\ c.action = req[q].action /\ c.channelId = req[q].channelId
          /\ c.cumulative = req[q].cumulative
      BY <2>1, <2>3, CallFields
    <3> QED
      BY <1>4, <2>2, <3>1 DEF IsAbout, Server!At
  <2>4. \A r : ~Opens(q, r)
    BY <2>2 DEF Opens, Server!At
  <2> QED
    BY <1>1, <2>1, <2>2, <2>3, <2>4, ReadServed
<1>8. CASE Server!OpenWrite(q)
  <2>1. PICK s : s = Opened(q)
    OBVIOUS
  <2>2. /\ s.exists = TRUE /\ s.finalized = FALSE /\ s.deposit = req[q].deposit
        /\ s.highestVoucherAmount = req[q].cumulative
    BY <2>1 DEF Opened
  <2>3. req[q].deposit = Deposit
    BY <1>2, <1>8 DEF IsAbout, Server!OpenWrite, Server!At
  <2>4. /\ store' = [store EXCEPT ![req[q].channelId] = s]
        /\ req' = [req EXCEPT ![q] = Server!Ended]
    BY <1>8, <2>1 DEF Server!OpenWrite, Opened, Server!End
  <2>5. PICK id : id = Id(k.channel)
    OBVIOUS
  <2>6. store'[id] = s /\ \A r \in Calls : Id(r) # req[q].channelId => store'[Id(r)] = store[Id(r)]
    <3> DEFINE Ids == {Id(t) : t \in Calls}
    <3>1. store = [i \in Ids |-> store[i]] /\ id \in Ids /\ \A r \in Calls : Id(r) \in Ids
      BY <1>1, <1>3, <2>5 DEF ShapeInv
    <3> HIDE DEF Ids
    <3> QED
      BY <1>4, <2>4, <2>5, <3>1
  <2> QED
    BY <1>1, <1>2, <1>3, <2>2, <2>3, <2>4, <2>5, <2>6, WriteServed
<1>9. CASE Server!VoucherWrite(q)
  <2>1. Writes(q, VoucherWritten(q))
    BY <1>1, <1>9, VoucherWrites
  <2>2. /\ req' = [req EXCEPT ![q] = Server!Ended]
        /\ \A r \in Calls : Id(r) # req[q].channelId => store'[Id(r)] = store[Id(r)]
    BY <2>1 DEF Writes
  <2>3. \/ store'[Id(k.channel)] = Server!NoState /\ ~store[Id(k.channel)].exists
        \/ /\ store'[Id(k.channel)].exists = store[Id(k.channel)].exists
           /\ store'[Id(k.channel)].deposit = store[Id(k.channel)].deposit
           /\ store'[Id(k.channel)].finalized = store[Id(k.channel)].finalized
           /\ store'[Id(k.channel)].highestVoucherAmount = req[q].cumulative
    BY <1>1, <1>3, <1>4, <1>9, VoucherRecord
  <2>4. Server!NoState.exists = FALSE
    BY DEF Server!NoState
  <2>5. store'[Id(k.channel)].exists =>
          /\ ~store'[Id(k.channel)].finalized
          /\ store'[Id(k.channel)].deposit = Deposit
          /\ store'[Id(k.channel)].highestVoucherAmount = req[q].cumulative
    BY <1>3, <2>3, <2>4 DEF InTurnInv, ServedInv, Records
  <2>6. ~Opens(q, k.channel)
    BY <1>9 DEF Opens, Server!VoucherWrite, Server!At
  <2>7. store[Id(k.channel)].exists => store'[Id(k.channel)].exists
    BY <2>3
  <2> QED
    BY <1>1, <1>2, <1>3, <2>2, <2>5, <2>6, <2>7, WriteServed
<1> QED
  BY <1>1, <1>4, <1>6, <1>7, <1>8, <1>9, HandledAs

LEMMA StepServedInv ==
  ASSUME InTurnInv, part = "in turn", [MCNext]_<<payments, part>>
  PROVE  ServedInv'
<1>0. ~Alone
  BY DEF Alone
<1>1. ASSUME NEW r \in Calls, ClientStep(r) PROVE ServedInv'
  <2>1. Handle(r) /\ UNCHANGED <<store, req, presented>>
    BY <1>1, ClientHandles DEF server
  <2>2. ASSUME NEW k \in presented, k.call \in confirmed' PROVE k.call \in confirmed
    <3>1. confirmed' = confirmed \/ Confirm(r)
      BY <2>1 DEF Handle, Lookup, ReadAllowance, Approve, Estimate, Open, Register,
                  Reject, Sign, user
    <3>2. CASE Confirm(r)
      <4>1. call[r].at = "confirm" /\ confirmed' = confirmed \cup {r}
        BY <3>2 DEF Confirm, At
      <4>2. call[k.call].at = "ended"
        BY <1>0, Paid
      <4> QED
        BY <2>2, <4>1, <4>2
    <3> QED
      BY <2>2, <3>1, <3>2
  <2> QED
    BY <2>1, <2>2, ClientServed
<1>2. ASSUME NEW r \in Calls, Request(r) \/ Settle(r) PROVE ServedInv'
  <2>1. UNCHANGED <<store, req, presented, confirmed>>
    BY <1>2 DEF Request, Begin, Settle, server, vars, user
  <2> QED
    BY <2>1, ClientServed
<1>3. CASE UNCHANGED payments
  BY <1>3, ClientServed DEF payments, vars, server
<1> QED
  BY <1>0, <1>1, <1>2, <1>3, TurnSteps, ServerServed, PresentServed

LEMMA InitInTurnInv == MCInit => InTurnInv
<1> SUFFICES ASSUME MCInit PROVE InTurnInv
  OBVIOUS
<1>1. /\ IInv /\ SumInv /\ ShapeInv /\ CredentialInv /\ PriceInv /\ TurnInv
      /\ \A q \in Presentations : ~Server!InFlight(q)
  BY InitPayments
<1>2. Init /\ presented = {} /\ Server!Chain!Init
  BY DEF MCInit, JointInit, Server!Init
<1>3. OnceInv /\ PaysInv /\ FirstInv
  BY <1>2, ConstantsAssumption DEF Init, OnceInv, Opening, InFlight, Known, PaysInv, FirstInv
<1>4. OnChainInv
  <2>1. \E e : channels = [id \in {Id(r) : r \in Calls} |-> e]
    BY <1>2 DEF Server!Chain!Init
  <2> QED
    BY <1>2, <2>1 DEF Init, OnChainInv
<1>5. ServedInv
  <2>1. \A r \in Calls : store[Id(r)].exists = FALSE
    BY InitShapeInv DEF Server!NoState
  <2> QED
    BY <1>1, <1>2, <2>1 DEF Init, ServedInv
<1> QED
  BY <1>1, <1>3, <1>4, <1>5 DEF InTurnInv

LEMMA StepInTurnInv ==
  ASSUME InTurnInv, part = "in turn", [MCNext]_<<payments, part>>
  PROVE  InTurnInv'
<1> USE DEF InTurnInv
<1>1. [SerialNext]_vars
  BY OrderedSteps DEF InOrder
<1>2. IInv' /\ SumInv'
  BY ClientSteps, StepIInv, StepSumInv
<1>3. CredentialInv' /\ PriceInv' /\ ShapeInv' /\ TurnInv'
  BY StepCredentialInv, StepPriceInv, StepShapeInv, StepTurnInv
<1>4. OnceInv' /\ PaysInv' /\ FirstInv' /\ OnChainInv'
  BY <1>1, StepOnceInv, StepPaysInv, StepFirstInv, StepOnChainInv
<1>5. ServedInv'
  BY StepServedInv
<1> QED
  BY <1>2, <1>3, <1>4, <1>5

\* Only a request's own step refuses it.
LEMMA RefusedItself ==
  ASSUME InTurnInv, part = "in turn", [MCNext]_<<payments, part>>,
         NEW q \in Presentations, Refuses(q)
  PROVE  ServerStep(q) /\ Arrives(q)
<1>1. req[q].at = "start" /\ req'[q] = Server!Ended
  BY DEF Refuses
<1>2. req'[q] # req[q]
  BY <1>1, RestsAt
<1>3. ASSUME NEW p \in Presentations, ServerStep(p), Arrives(p) PROVE p = q
  <2>1. ShapeInv /\ Server!Handle(p)
    BY <1>3 DEF ServerStep, InTurnInv
  <2>2. \E c : req' = [req EXCEPT ![p] = c]
    BY <2>1, ServerKinds DEF Steps, Goes, Writes
  <2> QED
    BY <1>2, <2>1, <2>2 DEF ShapeInv
<1>4. ASSUME NEW p \in Presentations, NEW k, Present(p, k) PROVE FALSE
  <2>1. ShapeInv
    BY DEF InTurnInv
  <2>2. \/ req' = req
        \/ \E c : req' = [req EXCEPT ![p] = c] /\ c = Server!Call("start", Payment(k), 0, 0)
    BY <1>4, <2>1, PresentsOne
  <2>3. PICK c : req' = [req EXCEPT ![p] = c] /\ c = Server!Call("start", Payment(k), 0, 0)
    BY <1>2, <2>2
  <2>4. req'[q] = c
    BY <1>2, <2>1, <2>3 DEF ShapeInv
  <2>5. c.at = "start"
    BY <2>3 DEF Server!Call
  <2> QED
    BY <1>1, <2>4, <2>5, RestsAt
<1>5. ASSUME NEW r \in Calls, ClientStep(r) \/ Settle(r) \/ Request(r) PROVE FALSE
  BY <1>2, <1>5, ClientHandles DEF Settle, Request, server
<1> QED
  BY <1>2, <1>3, <1>4, <1>5, TurnSteps DEF payments, server

\* A client that waits for each answer before it makes the next request, and
\* presents each credential, perhaps again, is refused nothing it has paid for
\* within its deposit, once it has confirmed the channel.
THEOREM AlwaysServedInTurn == MCSpec => ServedInTurn
<1> DEFINE Inv == part = "in turn" => InTurnInv
<1>1. MCInit => Inv
  BY InitInTurnInv
<1>2. Inv /\ [MCNext]_<<payments, part>> => Inv'
  <2> SUFFICES ASSUME Inv, [MCNext]_<<payments, part>>, part' = "in turn"
               PROVE  InTurnInv'
    OBVIOUS
  <2>1. part = "in turn"
    BY DEF MCNext, payments
  <2> QED
    BY <2>1, StepInTurnInv
<1>3. ASSUME Inv, [MCNext]_<<payments, part>>
      PROVE  [part = "in turn" => NothingRefused]_<<payments, part>>
  <2> SUFFICES ASSUME part = "in turn" PROVE NothingRefused
    OBVIOUS
  <2>1. InTurnInv /\ ~Alone
    BY <1>3 DEF Alone
  <2>2. part' = part
    BY <1>3 DEF MCNext, payments
  <2>3. InTurnInv'
    BY <1>2, <1>3, <2>2
  <2>4. \A k \in presented' : k.cumulative = k.signed
    BY <2>3 DEF InTurnInv, CredentialInv, PaysInv
  <2>5. ASSUME NEW q \in Presentations, Refuses(q)
        PROVE  Excused(req[q].channelId, req[q].cumulative)
    BY <1>3, <2>1, <2>5, RefusedItself, NoneRefused
  <2> QED
    BY <2>4, <2>5 DEF NothingRefused
<1> HIDE DEF Inv
<1> QED
  BY <1>1, <1>2, <1>3, PTL DEF MCSpec, ServedInTurn

=============================================================================
