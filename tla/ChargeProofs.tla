---------------------------- MODULE ChargeProofs ----------------------------
(***************************************************************************)
(* Type correctness of the charge method, and that every success stands    *)
(* for a payment of its own, for any number of calls and authorizations.   *)
(***************************************************************************)
EXTENDS MCCharge, TLAPS

\* The call has a transaction that was mined with success.
Settled(r) == call[r].at \in {"mined", "ok"}

\* SuccessIsPaidOnce is not inductive: what makes it true is known before the
\* receipt is read.
PaymentInv ==
  /\ \A r \in Calls : Settled(r) => /\ call[r].nonce \in used
                                    /\ paid[call[r].nonce] = call[r].amount
  /\ \A r, s \in Calls :
       Settled(r) /\ Settled(s) /\ r # s => call[r].nonce # call[s].nonce
  /\ \A n \in Nonces : n \notin used => paid[n] = 0

IInv == TypeOK /\ PaymentInv

-----------------------------------------------------------------------------
LEMMA InitIInv == Init => IInv
<1> SUFFICES ASSUME Init PROVE IInv
  OBVIOUS
<1> USE ConstantsAssumption
<1>1. (CHOOSE n \in Nonces : TRUE) \in Nonces
  OBVIOUS
<1>2. TypeOK
  <2>1. Unsigned \in Authorization
    BY DEF Unsigned, Authorization, TokenDomain, Domain
  <2>2. call \in [Calls -> Call]
    BY <1>1 DEF Init, Call, Places, TokenDomain, Domain
  <2> QED
    BY <2>1, <2>2 DEF Init, TypeOK
<1>3. PaymentInv
  BY DEF Init, PaymentInv, Settled
<1> QED
  BY <1>2, <1>3 DEF IInv

-----------------------------------------------------------------------------
\* A step that only takes one call to a place where nothing is settled, or
\* from "mined" to "ok", keeps what is known of the payments.
LEMMA CallMoves ==
  ASSUME IInv, NEW r \in Calls, NEW c \in Call,
         call' = [call EXCEPT ![r] = c],
         UNCHANGED <<signed, token>>,
         cache' \in Domain \cup {NoDomain},
         \/ c.at \notin {"mined", "ok"}
         \/ /\ Settled(r)
            /\ c.nonce = call[r].nonce
            /\ c.amount = call[r].amount
  PROVE  IInv'
<1>1. TypeOK'
  BY DEF IInv, TypeOK, token
<1>2. \A s \in Calls : Settled(s)' =>
        /\ Settled(s)
        /\ call'[s].nonce = call[s].nonce
        /\ call'[s].amount = call[s].amount
  BY DEF Settled, IInv, TypeOK
<1>3. PaymentInv'
  BY <1>2 DEF PaymentInv, IInv, token
<1> QED
  BY <1>1, <1>3 DEF IInv

\* A mined transaction pays a nonce that was unused, for one call.
LEMMA MinedPays ==
  ASSUME IInv, NEW r \in Calls, NEW success \in {"mined", "failed"},
         NEW failure \in {"reverted", "failed"}, Mined(r, success, failure)
  PROVE  IInv'
<1> DEFINE n == call[r].nonce
<1>1. n \in Nonces /\ call[r] \in Call
  BY DEF IInv, TypeOK, Call
<1>2. CASE ~Accepts(r)
  <2>1. [call[r] EXCEPT !.at = failure] \in Call
    BY <1>1 DEF Call, Places
  <2>2. [call[r] EXCEPT !.at = failure].at \notin {"mined", "ok"}
    BY <1>1 DEF Call
  <2>3. /\ call' = [call EXCEPT ![r] = [call[r] EXCEPT !.at = failure]]
        /\ UNCHANGED <<signed, token, cache>>
    BY <1>2 DEF Mined, Goto
  <2> QED
    BY <2>1, <2>2, <2>3, CallMoves DEF IInv, TypeOK
<1>3. CASE Accepts(r)
  <2> DEFINE c == [call[r] EXCEPT !.at = success]
  <2>1. /\ used' = used \cup {n}
        /\ paid' = [paid EXCEPT ![n] = @ + call[r].amount]
        /\ funds' = funds - call[r].amount
        /\ call' = [call EXCEPT ![r] = c]
        /\ UNCHANGED <<signed, cache, now>>
    BY <1>3 DEF Mined, Goto
  <2>2. /\ n \notin used
        /\ signed[n].value = call[r].amount
        /\ call[r].amount <= funds
    BY <1>3 DEF Accepts
  <2>3. /\ c \in Call
        /\ c.nonce = n
        /\ c.amount = call[r].amount
    BY <1>1 DEF Call, Places
  <2>4. call[r].amount \in Nat
    <3>1. Prices \cup {0} \subseteq Nat
      BY ConstantsAssumption
    <3>2. call[r].amount \in Prices \cup {0}
      BY <1>1 DEF Call
    <3> HIDE DEF n, c
    <3> QED
      BY <3>1, <3>2
  <2>5. paid[n] = 0 /\ paid'[n] = call[r].amount
    BY <1>1, <2>1, <2>2, <2>4 DEF IInv, PaymentInv, TypeOK
  <2>6. \A m \in Nonces : m # n => paid'[m] = paid[m]
    BY <2>1 DEF IInv, TypeOK
  <2>7. TypeOK'
    <3>1. call' \in [Calls -> Call] /\ used' \subseteq Nonces
      BY <1>1, <2>1, <2>3 DEF IInv, TypeOK
    <3>2. paid' \in [Nonces -> Nat] /\ funds' \in 0 .. Funds
      BY <1>1, <2>1, <2>2, <2>4, <2>5, ConstantsAssumption DEF IInv, TypeOK
    <3>3. \A m \in Nonces : paid'[m] \in {0, signed'[m].value}
      BY <2>1, <2>2, <2>5, <2>6 DEF IInv, TypeOK
    <3> QED
      BY <2>1, <3>1, <3>2, <3>3 DEF IInv, TypeOK
  <2>8. \A s \in Calls : s # r => call'[s] = call[s]
    BY <2>1 DEF IInv, TypeOK
  <2>9. \A s \in Calls : s # r /\ Settled(s) => call[s].nonce # n
    BY <2>2 DEF IInv, PaymentInv
  <2>10. call'[r].nonce = n /\ call'[r].amount = call[r].amount
    BY <2>1, <2>3 DEF IInv, TypeOK
  <2>11. \A s \in Calls : call[s].nonce \in Nonces
    BY DEF IInv, TypeOK, Call
  <2> HIDE DEF n, c
  <2>12. PaymentInv'
    BY <2>1, <2>5, <2>6, <2>8, <2>9, <2>10, <2>11 DEF IInv, PaymentInv, Settled
  <2> QED
    BY <2>7, <2>12 DEF IInv
<1> QED
  BY <1>2, <1>3

-----------------------------------------------------------------------------
\* The steps of a call that pay nothing.
LEMMA HandlerStep ==
  ASSUME IInv, NEW r \in Calls,
         \/ \E n \in Nonces, price \in Prices : Receive(r, n, price)
         \/ LookupDomain(r)
         \/ \E answered \in BOOLEAN : ReadName(r, answered) \/ ReadVersion(r, answered)
         \/ Verify(r) \/ ReadState(r) \/ Estimate(r) \/ Receipt(r) \/ Fail(r)
  PROVE  IInv'
<1>1. call[r] \in Call /\ call[r].domain \in Domain /\ cache \in Domain \cup {NoDomain}
  BY DEF IInv, TypeOK, Call
<1>2. ASSUME NEW n \in Nonces, NEW price \in Prices, Receive(r, n, price)
      PROVE  IInv'
  <2> DEFINE c == [call[r] EXCEPT !.at = "start", !.nonce = n, !.amount = price]
  <2>1. c \in Call /\ c.at = "start"
    BY <1>1 DEF Call, Places
  <2>2. call' = [call EXCEPT ![r] = c] /\ UNCHANGED <<signed, cache, token>>
    BY <1>2 DEF Receive
  <2> HIDE DEF c
  <2> QED
    BY <1>1, <2>1, <2>2, CallMoves
<1>3. CASE LookupDomain(r)
  <2> DEFINE c == IF cache = NoDomain THEN [call[r] EXCEPT !.at = "name"]
                  ELSE [call[r] EXCEPT !.at = "verify", !.domain = cache]
  <2>1. c \in Call /\ c.at \notin {"mined", "ok"}
    BY <1>1 DEF Call, Places
  <2>2. call' = [call EXCEPT ![r] = c] /\ UNCHANGED <<signed, cache, token>>
    BY <1>3 DEF LookupDomain
  <2> HIDE DEF c
  <2> QED
    BY <1>1, <2>1, <2>2, CallMoves
<1>4. ASSUME NEW answered \in BOOLEAN, ReadName(r, answered)
      PROVE  IInv'
  <2> DEFINE c == [call[r] EXCEPT !.at = "version", !.domain.name = answered]
  <2>1. c \in Call /\ c.at = "version"
    BY <1>1 DEF Call, Places, Domain
  <2>2. call' = [call EXCEPT ![r] = c] /\ UNCHANGED <<signed, cache, token>>
    BY <1>4 DEF ReadName
  <2> HIDE DEF c
  <2> QED
    BY <1>1, <2>1, <2>2, CallMoves
<1>5. ASSUME NEW answered \in BOOLEAN, ReadVersion(r, answered)
      PROVE  IInv'
  <2> DEFINE c == [call[r] EXCEPT !.at = "verify", !.domain.version = answered]
  <2>1. c \in Call /\ c.at = "verify"
    BY <1>1 DEF Call, Places, Domain
  <2>2. call' = [call EXCEPT ![r] = c] /\ UNCHANGED <<signed, token>>
    BY <1>5 DEF ReadVersion
  <2>3. cache' \in Domain
    BY <1>1, <1>5 DEF ReadVersion, Domain
  <2> HIDE DEF c
  <2> QED
    BY <2>1, <2>2, <2>3, CallMoves
<1>6. ASSUME NEW there \in Places \ {"mined", "ok"}, Goto(r, there),
             UNCHANGED <<signed, cache, token>>
      PROVE  IInv'
  <2> DEFINE c == [call[r] EXCEPT !.at = there]
  <2>1. c \in Call /\ c.at = there
    BY <1>1 DEF Call
  <2>2. call' = [call EXCEPT ![r] = c]
    BY <1>6 DEF Goto
  <2> HIDE DEF c
  <2> QED
    BY <1>1, <1>6, <2>1, <2>2, CallMoves
<1>7. CASE Verify(r)
  BY <1>6, <1>7 DEF Verify, Check, Places
<1>8. CASE ReadState(r)
  BY <1>6, <1>8 DEF ReadState, Check, Places
<1>9. CASE Estimate(r)
  BY <1>6, <1>9 DEF Estimate, Check, Places
<1>10. CASE Fail(r)
  BY <1>6, <1>10 DEF Fail, Dropped, Places
<1>11. CASE Receipt(r)
  <2>1. CASE Succeeded(r)
    <3> DEFINE c == [call[r] EXCEPT !.at = "ok"]
    <3>1. /\ c \in Call
          /\ c.nonce = call[r].nonce
          /\ c.amount = call[r].amount
      BY <1>1 DEF Call, Places
    <3>2. call' = [call EXCEPT ![r] = c] /\ UNCHANGED <<signed, cache, token>>
      BY <1>11, <2>1 DEF Receipt, Check, Goto
    <3>3. Settled(r)
      BY <2>1 DEF Succeeded, Settled
    <3> HIDE DEF c
    <3> QED
      BY <1>1, <3>1, <3>2, <3>3, CallMoves
  <2>2. CASE ~Succeeded(r)
    BY <1>6, <1>11, <2>2 DEF Receipt, Check, Places
  <2> QED
    BY <2>1, <2>2
<1> QED
  BY <1>2, <1>3, <1>4, <1>5, <1>7, <1>8, <1>9, <1>10, <1>11

\* The steps of the payer and the clock leave every call where it is.
LEMMA PayerStep ==
  ASSUME IInv, Payer \/ Tick
  PROVE  IInv'
<1>1. ASSUME NEW n \in Nonces, NEW price \in Prices, NEW validBefore \in 0 .. MaxTime,
             NEW domain \in Domain, CreateCredential(n, price, validBefore, domain)
      PROVE  IInv'
  <2> DEFINE a == [value |-> price, validBefore |-> validBefore, domain |-> domain]
  <2>1. a \in Authorization /\ a.value = price
    BY ConstantsAssumption DEF Authorization
  <2>2. /\ signed' = [signed EXCEPT ![n] = a]
        /\ signed[n] = Unsigned
        /\ UNCHANGED <<cache, call, token>>
    BY <1>1 DEF CreateCredential
  <2> HIDE DEF a
  <2>3. paid[n] = 0
    BY <2>2 DEF IInv, TypeOK, Unsigned
  <2>4. TypeOK'
    BY <2>1, <2>2, <2>3 DEF IInv, TypeOK, token
  <2>5. PaymentInv'
    BY <2>2 DEF IInv, PaymentInv, Settled, token
  <2> QED
    BY <2>4, <2>5 DEF IInv
<1>2. ASSUME NEW n \in Nonces, Cancel(n)
      PROVE  IInv'
  BY <1>2 DEF Cancel, IInv, TypeOK, PaymentInv, Settled
<1>3. CASE Spend
  BY <1>3, ConstantsAssumption DEF Spend, IInv, TypeOK, PaymentInv, Settled
<1>4. CASE Tick
  BY <1>4, ConstantsAssumption DEF Tick, IInv, TypeOK, PaymentInv, Settled
<1> QED
  BY <1>1, <1>2, <1>3, <1>4 DEF Payer

LEMMA RestartStep ==
  ASSUME IInv, Restart
  PROVE  IInv'
<1>1. \A r \in Calls : call'[r] \in Call /\ (Settled(r)' => call'[r] = call[r])
  <2> SUFFICES ASSUME NEW r \in Calls
               PROVE  call'[r] \in Call /\ (Settled(r)' => call'[r] = call[r])
    OBVIOUS
  <2>1. call[r] \in Call
    BY DEF IInv, TypeOK
  <2> DEFINE c == [call[r] EXCEPT !.at = Dropped(@)]
  <2>2. c \in Call /\ c.at \notin {"mined", "ok"}
    BY <2>1 DEF Call, Places, Dropped
  <2>3. call'[r] = IF InFlight(r) THEN c ELSE call[r]
    BY DEF Restart
  <2> HIDE DEF c
  <2> QED
    BY <2>1, <2>2, <2>3 DEF Settled
<1>2. call' \in [Calls -> Call]
  BY <1>1 DEF Restart
<1>3. TypeOK'
  BY <1>2 DEF Restart, IInv, TypeOK, token
<1>4. UNCHANGED <<used, paid>>
  BY DEF Restart, token
<1>5. \A r \in Calls : Settled(r)' => Settled(r)
  BY <1>1 DEF Settled
<1>6. PaymentInv'
  BY <1>1, <1>4, <1>5 DEF IInv, PaymentInv
<1> QED
  BY <1>3, <1>6 DEF IInv

LEMMA StepIInv == IInv /\ [Next]_vars => IInv'
<1> SUFFICES ASSUME IInv, [Next]_vars PROVE IInv'
  OBVIOUS
<1>1. CASE UNCHANGED vars
  BY <1>1 DEF vars, token, IInv, TypeOK, PaymentInv, Settled
<1>2. CASE Payer \/ Tick
  BY <1>2, PayerStep
<1>3. CASE Restart
  BY <1>3, RestartStep
<1>4. ASSUME NEW r \in Calls, Mine(r) \/ MineLost(r)
      PROVE  IInv'
  BY <1>4, MinedPays DEF Mine, MineLost
<1>5. ASSUME NEW r \in Calls,
             \/ \E n \in Nonces, price \in Prices : Receive(r, n, price)
             \/ LookupDomain(r)
             \/ \E answered \in BOOLEAN :
                  ReadName(r, answered) \/ ReadVersion(r, answered)
             \/ Verify(r) \/ ReadState(r) \/ Estimate(r) \/ Receipt(r) \/ Fail(r)
      PROVE  IInv'
  BY <1>5, HandlerStep
<1> QED
  BY <1>1, <1>2, <1>3, <1>4, <1>5 DEF Next, ReliableNext, Handle

-----------------------------------------------------------------------------
\* verify() keeps every variable in its type, and never pays an authorization
\* twice or with another amount than the one signed.
THEOREM TypeCorrect == Spec => []TypeOK
<1>1. IInv => TypeOK
  BY DEF IInv
<1> QED
  BY <1>1, InitIInv, StepIInv, PTL DEF Spec

\* Every success that verify() returns stands for one payment of the amount
\* asked, and no two of them for the same one, however many calls check the
\* same authorization at the same time.
THEOREM SuccessIsAlwaysPaidOnce == Spec => []SuccessIsPaidOnce
<1>1. IInv => SuccessIsPaidOnce
  BY DEF IInv, PaymentInv, Settled, SuccessIsPaidOnce
<1> QED
  BY <1>1, InitIInv, StepIInv, PTL DEF Spec

-----------------------------------------------------------------------------
\* A transaction that is mined in time is that of a call that waits for it,
\* and a call that waits for it goes on to its answer.
LEMMA StepAnswered ==
  ASSUME IInv, PaidIsAnswered, [ReliableNext]_vars
  PROVE  PaidIsAnswered'
<1> SUFFICES ASSUME NEW n \in Nonces, paid'[n] > 0
             PROVE  \E r \in Calls : call'[r].nonce = n /\ call'[r].at \in {"mined", "ok"}
  BY DEF PaidIsAnswered
<1>1. CASE \E r \in Calls : Mine(r)
  <2>1. PICK r \in Calls : Mine(r)
    BY <1>1
  <2>2. /\ call[r].at = "sent" /\ call[r].nonce \in Nonces
        /\ \A q \in Calls : q # r => call'[q] = call[q]
    BY <2>1 DEF Mine, Mined, Goto, At, IInv, TypeOK, Call
  <2>3. CASE paid'[n] = paid[n]
    <3>1. PICK q \in Calls : call[q].nonce = n /\ call[q].at \in {"mined", "ok"}
      BY <1>1, <2>3 DEF PaidIsAnswered
    <3> QED
      BY <2>2, <3>1
  <2>4. CASE paid'[n] # paid[n]
    <3>1. n = call[r].nonce /\ Goto(r, "mined")
      BY <2>1, <2>4 DEF Mine, Mined, token, IInv, TypeOK
    <3> QED
      BY <3>1 DEF Goto, IInv, TypeOK, Call
  <2> QED
    BY <2>3, <2>4
<1>2. CASE /\ paid' = paid
           /\ \A r \in Calls : Settled(r) => /\ call'[r].nonce = call[r].nonce
                                             /\ Settled(r)'
  BY <1>2 DEF PaidIsAnswered, Settled
<1>3. ASSUME NEW r \in Calls, Handle(r) \/ ReadName(r, TRUE) \/ ReadVersion(r, TRUE),
             ~Mine(r)
      PROVE  /\ paid' = paid
             /\ \A q \in Calls : Settled(q) => /\ call'[q].nonce = call[q].nonce
                                               /\ Settled(q)'
  <2>1. \A q \in Calls : q # r => call'[q] = call[q]
    BY <1>3 DEF Handle, Receive, LookupDomain, Verify, ReadState, Estimate, Receipt, ReadName,
                ReadVersion, Check, Goto, IInv, TypeOK
  <2>2. paid' = paid
    BY <1>3 DEF Handle, Receive, LookupDomain, Verify, ReadState, Estimate, Receipt, ReadName,
                ReadVersion, token
  <2>3. Settled(r) => Goto(r, "ok")
    BY <1>3 DEF Handle, Receive, LookupDomain, Verify, ReadState, Estimate, Receipt, ReadName,
                ReadVersion, Check, Settled, Succeeded, At
  <2>4. Settled(r) => call'[r].nonce = call[r].nonce /\ Settled(r)'
    BY <2>3 DEF Goto, Settled, IInv, TypeOK, Call
  <2> QED
    BY <2>1, <2>2, <2>4 DEF Settled
<1>4. Payer \/ Tick \/ UNCHANGED vars => UNCHANGED <<paid, call>>
  BY DEF Payer, Cancel, CreateCredential, Spend, Tick, vars, token
<1> QED
  BY <1>1, <1>2, <1>3, <1>4 DEF ReliableNext, Settled

MCInv == IInv /\ reliable \in BOOLEAN /\ (reliable => PaidIsAnswered)

\* As long as no RPC call of the server fails, a payer that was charged has its
\* answer, or the call that has its payment is about to give it.
THEOREM AlwaysAnswered == MCSpec => []ReliablyAnswered
<1>1. MCInit => MCInv
  BY InitIInv DEF MCInit, MCInv, Init, PaidIsAnswered
<1>2. MCInv /\ [MCNext]_<<vars, reliable>> => MCInv'
  <2> SUFFICES ASSUME MCInv, [MCNext]_<<vars, reliable>> PROVE MCInv'
    OBVIOUS
  <2>1. reliable' = reliable /\ [Next]_vars /\ (reliable => [ReliableNext]_vars)
    BY DEF MCNext, Next, MCInv
  <2> QED
    BY <2>1, StepIInv, StepAnswered DEF MCInv
<1>3. MCInv => ReliablyAnswered
  BY DEF MCInv, ReliablyAnswered
<1> QED
  BY <1>1, <1>2, <1>3, PTL DEF MCSpec
=============================================================================
