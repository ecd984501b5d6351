-------------------------- MODULE AgwClientProofs --------------------------
(***************************************************************************)
(* Proofs about AgwClient for any number of requests, any sessions and     *)
(* intents, whatever moves on the chain and in the registry meanwhile; and *)
(* about Provider for any signers, whatever the user selects meanwhile.    *)
(***************************************************************************)
EXTENDS MCAgwClient, Sums

\* Some nonce among the next ones is free: there are more of them than
\* transactions that wait.
LEMMA PendingCountType ==
  ASSUME TypeOK, NEW a \in Addresses
  PROVE  /\ PendingCount(a) \in Nat
         /\ PendingCount(a) >= nonces[a]
         /\ \A c \in Pending(a) : req[c].nonce # PendingCount(a)
         /\ \A k \in nonces[a]..(PendingCount(a) - 1) : \E c \in Pending(a) : req[c].nonce = k
<1> DEFINE N == nonces[a]
           K == Cardinality(Pending(a))
           Free == {n \in N..(N + K) : \A c \in Pending(a) : req[c].nonce # n}
<1>1. N \in Nat /\ IsFiniteSet(Pending(a)) /\ K \in Nat
  BY FS_Subset, FS_CardinalityType, ClientAssumption DEF TypeOK, Pending
<1>2. Free # {}
  <2> SUFFICES ASSUME Free = {} PROVE FALSE
    OBVIOUS
  <2> DEFINE f == [n \in N..(N + K) |-> CHOOSE c \in Pending(a) : req[c].nonce = n]
  <2>1. \A n \in N..(N + K) : f[n] \in Pending(a) /\ req[f[n]].nonce = n
    OBVIOUS
  <2>2. f \in [N..(N + K) -> Pending(a)]
    BY <2>1
  <2>3. IsFiniteSet(N..(N + K)) /\ Cardinality(N..(N + K)) = K + 1
    <3>1. N \in Int /\ N + K \in Int /\ ~(N > N + K) /\ (N + K) - N + 1 = K + 1
      BY <1>1
    <3> HIDE DEF N, K
    <3> QED
      BY <3>1, FS_Interval
  <2>4. \E x, y \in N..(N + K) : x # y /\ f[x] = f[y]
    <3> DEFINE S == N..(N + K)
    <3>1. IsFiniteSet(S) /\ Cardinality(Pending(a)) < Cardinality(S)
      BY <1>1, <2>3
    <3>2. f \in [S -> Pending(a)] /\ IsFiniteSet(Pending(a))
      BY <1>1, <2>2
    <3> HIDE DEF f, S
    <3>3. \E x, y \in S : x # y /\ f[x] = f[y]
      BY <3>1, <3>2, FS_PigeonHole
    <3> QED
      BY <3>3 DEF S
  <2> QED
    BY <2>1, <2>4
<1>3. PICK m \in Free : \A y \in Free : ~(y < m)
  <2>1. Free \subseteq Nat
    BY <1>1
  <2> QED
    BY <1>2, <2>1, LeastNatural
<1>4. \A k \in N..(m - 1) : \E c \in Pending(a) : req[c].nonce = k
  BY <1>1, <1>3
<1>5. /\ PendingCount(a) \in N..(N + K)
      /\ \A c \in Pending(a) : req[c].nonce # PendingCount(a)
      /\ \A k \in N..(PendingCount(a) - 1) : \E c \in Pending(a) : req[c].nonce = k
  BY <1>3, <1>4 DEF PendingCount
<1> QED
  BY <1>1, <1>5

-----------------------------------------------------------------------------
(* What a request holds at each place                                      *)

Unprepared == {"idle", "code", "hooks", "factory", "prepare", "nonce"}
Prepared == {"estimate", "policies", "send", "sent"}

\* The call is the one that was asked for, and made by the wallet, or by a
\* session client's own account.
Ready(r) ==
  /\ r.from \in Addresses
  /\ Asks(r.intent, InnerCall(r.call))
  /\ \/ ActsAs(r.from, r.call) = wallet
     \/ r.intent.kind = "session" /\ r.from \in Signers
  /\ r.intent.kind = "deploy" => r.from \in Signers
  /\ r.call.op = "deploy" => r.from \in Signers

Placed(c) ==
  /\ pc[c] # "idle" => req[c].intent \in Intents
  /\ pc[c] \in Unprepared => ~Drawn(c) /\ outcome[c] = "unsent"
  /\ pc[c] \in Prepared => Drawn(c)
  /\ pc[c] \in {"code", "hooks"} => req[c].intent.kind = "create"
  /\ pc[c] = "factory" => req[c].intent.kind = "deploy"
  /\ pc[c] = "prepare" => /\ Asks(req[c].intent, req[c].call)
                          /\ req[c].intent.kind # "deploy"
  /\ pc[c] = "nonce" \/ Drawn(c) => Ready(req[c])

\* req is a function.
Indexed == req = [c \in Requests |-> req[c]]

Inv == TypeOK /\ Indexed /\ \A c \in Requests : Placed(c)

LEMMA AskedIsAskable ==
  ASSUME NEW i \in Intents, NEW call, Asks(i, call)
  PROVE  Askable(call) /\ call.op # "deploy"
<1>1. CASE i.kind \in {"send", "session"} /\ call = i.call
  BY <1>1, IntentsAssumption DEF Askable, Simple
<1>2. CASE i.kind = "batch" /\ call = Batch(i.calls)
  BY <1>2, IntentsAssumption DEF Askable, Simple
<1>3. CASE \/ i.kind = "revoke" /\ call = RevokeKeys({i.session})
           \/ i.kind = "create" /\ call \in {AddModule(i.session), CreateSession(i.session)}
           \/ i.kind = "deploy" /\ call = Plain(None, NoSelector)
  <2>1. Simple(call)
    BY <1>3 DEF Simple, RevokeKeys, AddModule, CreateSession, Plain
  <2>2. CreatedBy(call) \subseteq Sessions
    BY <1>3, IntentsAssumption
       DEF CreatedBy, Creates, RevokeKeys, AddModule, CreateSession, Plain
  <2> QED
    BY <2>1, <2>2 DEF Askable, Simple
<1> QED
  BY <1>1, <1>2, <1>3 DEF Asks

LEMMA WalletIsNoSigner == wallet \in Addresses /\ wallet \notin Signers /\ Signers \subseteq Addresses
  BY ClientAssumption DEF wallet, Accounts, Addresses

LEMMA InitPlaced == Init => Inv
<1> SUFFICES ASSUME Init PROVE Inv
  OBVIOUS
<1>1. TypeOK
  BY DEF Init, TypeOK, NoRequest
<1>2. ASSUME NEW c \in Requests PROVE Placed(c)
  BY DEF Init, Placed, NoRequest, Drawn, Unprepared, Prepared
<1>3. Indexed
  BY DEF Init, Indexed
<1> QED
  BY <1>1, <1>2, <1>3 DEF Inv

\* A step of one request: what there is to show about it.
LEMMA OneMoves ==
  ASSUME Inv, NEW c \in Requests, NEW r, NEW there,
         req' = [req EXCEPT ![c] = r], pc' = [pc EXCEPT ![c] = there],
         outcome' = outcome, nonces' = nonces,
         manager' \in [Addresses -> Nat], seen' \in [Requests -> SUBSET Sessions],
         DOMAIN r = DOMAIN NoRequest, r.nonce \in Nat \cup {None},
         r.from \in Addresses \cup {None}, req[c].nonce \in Nat => r.nonce \in Nat,
         there \in {"code", "hooks", "factory", "prepare", "nonce", "estimate",
                    "policies", "send", "sent", "done", "failed"},
         Placed(c)'
  PROVE  Inv'
<1>1. TypeOK'
  BY DEF Inv, TypeOK
<1>2. ASSUME NEW d \in Requests \ {c} PROVE Placed(d)'
  <2>1. req'[d] = req[d] /\ pc'[d] = pc[d] /\ outcome'[d] = outcome[d]
    BY DEF Inv, TypeOK
  <2> QED
    BY <2>1 DEF Inv, Placed, Drawn
<1>3. Indexed'
  BY DEF Inv, TypeOK, Indexed
<1> QED
  BY <1>1, <1>2, <1>3 DEF Inv

LEMMA BeginPlaced ==
  ASSUME Inv, NEW c \in Requests, NEW i \in Intents, Begin(c, i)
  PROVE  Inv'
<1>1. seen' \in [Requests -> SUBSET Sessions]
  BY DEF Begin, Inv, TypeOK, AllowedNow
<1>2. ASSUME NEW call, NEW there \in {"prepare", "code", "factory"},
             Begins(c, i, call, there),
             there = "prepare" => Asks(i, call) /\ i.kind # "deploy",
             there = "code" => i.kind = "create", there = "factory" => i.kind = "deploy"
      PROVE  Inv'
  <2> DEFINE r == [NoRequest EXCEPT !.intent = i, !.call = call]
  <2>1. /\ DOMAIN r = DOMAIN NoRequest /\ r.intent = i /\ r.call = call
        /\ r.nonce = None /\ r.from = None
    BY DEF NoRequest
  <2>2. req' = [req EXCEPT ![c] = r] /\ pc' = [pc EXCEPT ![c] = there]
    BY <1>2 DEF Begins, Holding, Goto
  <2>3. /\ outcome' = outcome /\ nonces' = nonces /\ manager' = manager
        /\ outcome[c] = "unsent" /\ req[c].nonce = None
    BY DEF Begin, external, Inv, Placed, Unprepared, Drawn
  <2>4. req'[c] = r /\ pc'[c] = there /\ outcome'[c] = "unsent"
    BY <2>2, <2>3 DEF Inv, TypeOK
  <2> HIDE DEF r
  <2>5. Placed(c)'
    BY <1>2, <2>1, <2>4 DEF Placed, Drawn, Unprepared, Prepared
  <2> QED
    BY <1>1, <1>2, <2>1, <2>2, <2>3, <2>5, OneMoves, ClientAssumption DEF Inv, TypeOK
<1>3. CASE i.kind = "send" /\ Begins(c, i, i.call, "prepare")
  BY <1>2, <1>3 DEF Asks
<1>4. CASE i.kind = "batch" /\ Begins(c, i, Batch(i.calls), "prepare")
  BY <1>2, <1>4 DEF Asks
<1>5. CASE i.kind = "revoke" /\ Begins(c, i, RevokeKeys({i.session}), "prepare")
  BY <1>2, <1>5 DEF Asks
<1>6. CASE i.kind = "create" /\ Begins(c, i, None, "code")
  BY <1>2, <1>6
<1>7. CASE i.kind = "deploy" /\ Begins(c, i, None, "factory")
  BY <1>2, <1>7
<1> QED
  BY <1>3, <1>4, <1>5, <1>6, <1>7 DEF Begin

LEMMA BeginSessionHolds ==
  ASSUME NEW c, NEW i, BeginSession(c, i)
  PROVE  \E r : /\ Holding(c, r) /\ DOMAIN r = DOMAIN NoRequest /\ r.intent = i
                /\ r.call = i.call /\ r.nonce = None /\ r.from = None
                /\ Goto(c, "prepare") \/ Goto(c, "failed")
<1> DEFINE q == [NoRequest EXCEPT !.intent = i, !.call = i.call]
<1>1. /\ DOMAIN q = DOMAIN NoRequest /\ q.intent = i /\ q.call = i.call
      /\ q.nonce = None /\ q.from = None
      /\ DOMAIN q = {"intent", "call", "from", "nonce", "ids", "left"}
  BY DEF NoRequest
<1>2. \/ Holding(c, q) /\ Goto(c, "failed")
      \/ \E p \in PoliciesFor(Config[i.session], i.call) :
           /\ Holding(c, [q EXCEPT !.ids = PeriodIds(Config[i.session], p, i.call, now)])
           /\ Goto(c, "prepare")
  BY DEF BeginSession
<1> HIDE DEF q
<1>3. ASSUME NEW p, Holding(c, [q EXCEPT !.ids = PeriodIds(Config[i.session], p, i.call, now)])
      PROVE  \E r : /\ Holding(c, r) /\ DOMAIN r = DOMAIN NoRequest /\ r.intent = i
                    /\ r.call = i.call /\ r.nonce = None /\ r.from = None
  <2> DEFINE ids == PeriodIds(Config[i.session], p, i.call, now)
             x == [q EXCEPT !.ids = ids]
  <2>1. Holding(c, x)
    BY <1>3
  <2> HIDE DEF ids
  <2>2. /\ DOMAIN x = DOMAIN NoRequest /\ x.intent = i /\ x.call = i.call
        /\ x.nonce = None /\ x.from = None
    BY <1>1
  <2> HIDE DEF x
  <2> QED
    BY <2>1, <2>2
<1> QED
  BY <1>1, <1>2, <1>3

LEMMA BeginSessionPlaced ==
  ASSUME Inv, NEW c \in Requests, NEW i \in Intents, BeginSession(c, i)
  PROVE  Inv'
<1>1. seen' \in [Requests -> SUBSET Sessions]
  BY DEF BeginSession, Inv, TypeOK, AllowedNow
<1>2. /\ outcome' = outcome /\ nonces' = nonces /\ manager' = manager
      /\ outcome[c] = "unsent" /\ req[c].nonce = None /\ i.kind = "session"
  BY DEF BeginSession, external, Inv, Placed, Unprepared, Drawn
<1>3. PICK r : /\ Holding(c, r) /\ DOMAIN r = DOMAIN NoRequest /\ r.intent = i
               /\ r.call = i.call /\ r.nonce = None /\ r.from = None
               /\ Goto(c, "prepare") \/ Goto(c, "failed")
  BY BeginSessionHolds
<1>4. ASSUME NEW there \in {"failed", "prepare"}, Goto(c, there)
      PROVE  Inv'
  <2>1. req' = [req EXCEPT ![c] = r] /\ pc' = [pc EXCEPT ![c] = there]
    BY <1>3, <1>4 DEF Holding, Goto
  <2>2. req'[c] = r /\ pc'[c] = there /\ outcome'[c] = "unsent"
    BY <1>2, <2>1 DEF Inv, TypeOK
  <2>3. Placed(c)'
    BY <1>2, <1>3, <2>2 DEF Placed, Drawn, Unprepared, Prepared, Asks
  <2> QED
    BY <1>1, <1>2, <1>3, <2>1, <2>3, OneMoves, ClientAssumption DEF Inv, TypeOK
<1> QED
  BY <1>3, <1>4

LEMMA ReadsPlaced ==
  ASSUME Inv, NEW c \in Requests, ReadCode(c) \/ ReadHooks(c) \/ ReadFactory(c)
  PROVE  Inv'
<1>0. /\ outcome' = outcome /\ nonces' = nonces /\ manager' = manager /\ seen' = seen
      /\ outcome[c] = "unsent" /\ req[c].nonce = None /\ req[c].intent \in Intents
      /\ DOMAIN req[c] = DOMAIN NoRequest /\ req[c].from \in Addresses \cup {None}
  BY DEF ReadCode, ReadHooks, ReadFactory, unsent, external, Inv, TypeOK, Placed, Unprepared,
         Drawn
<1>1. DOMAIN req[c] = {"intent", "call", "from", "nonce", "ids", "left"}
  BY <1>0 DEF NoRequest
<1>2. ASSUME NEW r, NEW there \in {"hooks", "prepare", "nonce", "done"},
             req' = [req EXCEPT ![c] = r], pc' = [pc EXCEPT ![c] = there],
             DOMAIN r = DOMAIN req[c], r.intent = req[c].intent, r.nonce = None,
             r.from \in Addresses \cup {None},
             there = "hooks" => r.intent.kind = "create",
             there = "prepare" => Asks(r.intent, r.call) /\ r.intent.kind # "deploy",
             there = "nonce" => Ready(r)
      PROVE  Inv'
  <2>1. req'[c] = r /\ pc'[c] = there /\ outcome'[c] = "unsent"
    BY <1>0, <1>2 DEF Inv, TypeOK
  <2>2. Placed(c)'
    BY <1>0, <1>2, <2>1 DEF Placed, Drawn, Unprepared, Prepared
  <2> QED
    BY <1>0, <1>2, <2>2, OneMoves, ClientAssumption DEF Inv, TypeOK
<1>3. ASSUME NEW s \in {AddModule(req[c].intent.session), CreateSession(req[c].intent.session)},
             req' = [req EXCEPT ![c] = [req[c] EXCEPT !.call = s]],
             pc' = [pc EXCEPT ![c] = "prepare"], req[c].intent.kind = "create"
      PROVE  Inv'
  <2> DEFINE r == [req[c] EXCEPT !.call = s]
  <2>1. /\ DOMAIN r = DOMAIN req[c] /\ r.intent = req[c].intent /\ r.nonce = None
        /\ r.from \in Addresses \cup {None} /\ r.call = s
    BY <1>0, <1>1
  <2>2. Asks(r.intent, s)
    BY <1>3, <2>1 DEF Asks
  <2> HIDE DEF r
  <2> QED
    BY <1>2, <1>3, <2>1, <2>2 DEF r
<1>4. ASSUME pc' = [pc EXCEPT ![c] = "nonce"], req[c].intent.kind = "deploy",
             req' = [req EXCEPT ![c] = [req[c] EXCEPT
                       !.call = Deploy(owner, Plain(None, NoSelector)), !.from = owner]]
      PROVE  Inv'
  <2> DEFINE r == [req[c] EXCEPT !.call = Deploy(owner, Plain(None, NoSelector)), !.from = owner]
  <2>1. /\ DOMAIN r = DOMAIN req[c] /\ r.intent = req[c].intent /\ r.nonce = None
        /\ r.from = owner /\ r.call = Deploy(owner, Plain(None, NoSelector))
    BY <1>0, <1>1
  <2>2. Ready(r)
    <3>1. /\ r.call.op = "deploy" /\ InnerCall(r.call) = Plain(None, NoSelector)
          /\ ActsAs(r.from, r.call) = wallet
      BY <2>1 DEF InnerCall, ActsAs, Deploy, wallet
    <3>2. Asks(r.intent, Plain(None, NoSelector))
      BY <1>4, <2>1 DEF Asks
    <3> HIDE DEF r
    <3> QED
      BY <2>1, <3>1, <3>2, ClientAssumption, WalletIsNoSigner DEF Ready
  <2>3. req' = [req EXCEPT ![c] = r]
    BY <1>4
  <2>4. owner \in Addresses
    BY WalletIsNoSigner, ClientAssumption
  <2> HIDE DEF r
  <2> QED
    BY <1>2, <1>4, <2>1, <2>2, <2>3, <2>4
<1>5. ASSUME UNCHANGED req, NEW there \in {"hooks", "done"}, pc' = [pc EXCEPT ![c] = there],
             there = "hooks" => req[c].intent.kind = "create"
      PROVE  Inv'
  <2>1. req' = [req EXCEPT ![c] = req[c]]
    BY <1>5 DEF Inv, TypeOK, Indexed
  <2> QED
    BY <1>0, <1>2, <1>5, <2>1
<1>6. CASE ReadCode(c)
  BY <1>3, <1>5, <1>6 DEF ReadCode, Goto, Holding, Inv, Placed
<1>7. CASE ReadHooks(c)
  BY <1>3, <1>7 DEF ReadHooks, Goto, Holding, Inv, Placed, SessionCall
<1>8. CASE ReadFactory(c)
  BY <1>4, <1>5, <1>8 DEF ReadFactory, Goto, Holding, Inv, Placed
<1> QED
  BY <1>6, <1>7, <1>8

LEMMA PreparePlaced ==
  ASSUME Inv, NEW c \in Requests, Prepare(c)
  PROVE  Inv'
<1> DEFINE q == req[c]
           k == SignerOf(q.intent)
           r == Wrapped(q)
<1>1. /\ outcome' = outcome /\ nonces' = nonces /\ manager' = manager /\ seen' = seen
      /\ outcome[c] = "unsent" /\ q.nonce = None /\ q.intent \in Intents
      /\ DOMAIN q = DOMAIN NoRequest
      /\ Asks(q.intent, q.call) /\ q.intent.kind # "deploy"
  BY DEF Prepare, unsent, external, Inv, TypeOK, Placed, Unprepared, Drawn
<1>2. DOMAIN q = {"intent", "call", "from", "nonce", "ids", "left"}
  BY <1>1 DEF NoRequest
<1>3. k \in Signers /\ (k # owner => q.intent.kind = "session")
  BY <1>1, IntentsAssumption, ClientAssumption DEF SignerOf
<1>4. q.call.op # "deploy"
  BY <1>1, AskedIsAskable
<1>5. ASSUME wallet \in chain.deployed
      PROVE  r.nonce = None /\ DOMAIN r = DOMAIN NoRequest /\ Ready(r) /\ r.intent = q.intent
  <2>1. /\ r.intent = q.intent /\ r.from = wallet /\ r.call = q.call /\ r.nonce = None
        /\ DOMAIN r = DOMAIN NoRequest
    BY <1>1, <1>2, <1>5 DEF Wrapped
  <2>2. InnerCall(r.call) = q.call /\ ActsAs(r.from, r.call) = wallet
    BY <1>4, <2>1 DEF InnerCall, ActsAs
  <2>3. Ready(r)
    BY <1>1, <1>4, <2>1, <2>2, WalletIsNoSigner DEF Ready
  <2> QED
    BY <2>1, <2>3
<1>6. ASSUME wallet \notin chain.deployed
      PROVE  r.nonce = None /\ DOMAIN r = DOMAIN NoRequest /\ Ready(r) /\ r.intent = q.intent
  <2>1. /\ r.intent = q.intent /\ r.from = k /\ r.call = Deploy(k, q.call) /\ r.nonce = None
        /\ DOMAIN r = DOMAIN NoRequest
    BY <1>1, <1>2, <1>6 DEF Wrapped
  <2>2. InnerCall(r.call) = q.call /\ ActsAs(r.from, r.call) = AccountOf[k]
    BY <2>1 DEF InnerCall, ActsAs, Deploy
  <2>3. Ready(r)
    BY <1>1, <1>3, <2>1, <2>2, WalletIsNoSigner DEF Ready, wallet
  <2> QED
    BY <2>1, <2>3
<1>7. r.nonce = None /\ DOMAIN r = DOMAIN NoRequest /\ Ready(r) /\ r.intent = q.intent
  <2> HIDE DEF r
  <2> QED
    BY <1>5, <1>6
<1>8. req' = [req EXCEPT ![c] = r] /\ pc' = [pc EXCEPT ![c] = "nonce"]
  BY DEF Prepare, Holding, Goto
<1> HIDE DEF r
<1>9. req'[c] = r /\ pc'[c] = "nonce" /\ outcome'[c] = "unsent"
  BY <1>1, <1>8 DEF Inv, TypeOK
<1>10. Placed(c)'
  BY <1>1, <1>7, <1>9 DEF Placed, Drawn, Unprepared, Prepared
<1> QED
  BY <1>1, <1>7, <1>8, <1>10, OneMoves, ClientAssumption DEF Inv, TypeOK, Ready

LEMMA DrawPlaced ==
  ASSUME Inv, NEW c \in Requests, DrawNonce(c)
  PROVE  Inv'
<1> DEFINE q == req[c]
<1>1. /\ outcome' = outcome /\ nonces' = nonces /\ seen' = seen /\ outcome[c] = "unsent"
      /\ q.intent \in Intents /\ DOMAIN q = DOMAIN NoRequest /\ Ready(q) /\ q.from \in Addresses
  BY DEF DrawNonce, unsent, external, Inv, TypeOK, Placed, Unprepared, Ready
<1>2. DOMAIN q = {"intent", "call", "from", "nonce", "ids", "left"}
  BY <1>1 DEF NoRequest
<1>3. PendingCount(q.from) \in Nat /\ Consumed(q.from) \in Nat
  BY <1>1, PendingCountType DEF Inv, TypeOK, Consumed
<1>4. PICK n \in Nat : req' = [req EXCEPT ![c] = [q EXCEPT !.nonce = n]]
  BY <1>3 DEF DrawNonce, Holding
<1>5. manager' \in [Addresses -> Nat]
  BY <1>1, <1>3 DEF DrawNonce, Inv, TypeOK
<1>6. pc' = [pc EXCEPT ![c] = "estimate"]
  BY DEF DrawNonce, Goto
<1> DEFINE r == [q EXCEPT !.nonce = n]
<1>7. /\ r.intent = q.intent /\ r.from = q.from /\ r.call = q.call /\ r.nonce = n
      /\ DOMAIN r = DOMAIN NoRequest /\ req' = [req EXCEPT ![c] = r]
  BY <1>1, <1>2, <1>4
<1> HIDE DEF r
<1>8. req'[c] = r /\ pc'[c] = "estimate" /\ outcome'[c] = "unsent"
  BY <1>1, <1>6, <1>7 DEF Inv, TypeOK
<1>9. Ready(r)
  BY <1>1, <1>7 DEF Ready
<1>10. Placed(c)'
  BY <1>1, <1>7, <1>8, <1>9, ClientAssumption DEF Placed, Drawn, Unprepared, Prepared
<1>11. seen' \in [Requests -> SUBSET Sessions]
  BY <1>1 DEF Inv, TypeOK
<1> HIDE DEF q
<1> QED
  BY <1>1, <1>4, <1>5, <1>6, <1>7, <1>10, <1>11, OneMoves

\* After that the call, its sender and its nonce stay as they are.
LEMMA LatePlaced ==
  ASSUME Inv, NEW c \in Requests, Estimate(c) \/ CheckPolicies(c) \/ Fail(c)
  PROVE  Inv'
<1> DEFINE q == req[c]
<1>1. /\ outcome' = outcome /\ nonces' = nonces /\ manager' = manager /\ seen' = seen
      /\ DOMAIN q = DOMAIN NoRequest /\ q.nonce \in Nat \cup {None}
      /\ q.from \in Addresses \cup {None} /\ pc[c] # "idle"
  BY DEF Estimate, CheckPolicies, Fail, unsent, external, Inv, TypeOK
<1>2. DOMAIN q = {"intent", "call", "from", "nonce", "ids", "left"}
  BY <1>1 DEF NoRequest
<1>3. ASSUME NEW r, NEW there \in {"send", "policies", "failed"},
             req' = [req EXCEPT ![c] = r], pc' = [pc EXCEPT ![c] = there],
             r.intent = q.intent, r.call = q.call, r.from = q.from, r.nonce = q.nonce,
             DOMAIN r = DOMAIN NoRequest, there # "failed" => pc[c] \in Prepared
      PROVE  Inv'
  <2>1. req'[c] = r /\ pc'[c] = there /\ outcome'[c] = outcome[c]
    BY <1>1, <1>3 DEF Inv, TypeOK
  <2>2. Ready(q) => Ready(r)
    BY <1>3 DEF Ready
  <2>3. Placed(c)'
    BY <1>1, <1>3, <2>1, <2>2 DEF Inv, Placed, Drawn, Unprepared, Prepared
  <2> QED
    BY <1>1, <1>3, <2>3, OneMoves DEF Inv, TypeOK
<1>4. ASSUME UNCHANGED req, NEW there \in {"send", "policies", "failed"},
             pc' = [pc EXCEPT ![c] = there], there # "failed" => pc[c] \in Prepared
      PROVE  Inv'
  <2>1. req' = [req EXCEPT ![c] = q]
    BY <1>4 DEF Inv, TypeOK, Indexed
  <2> HIDE DEF q
  <2> QED
    BY <1>1, <1>3, <1>4, <2>1
<1>5. ASSUME NEW S, NEW there \in {"send", "policies"}, pc[c] \in Prepared,
             req' = [req EXCEPT ![c] = [q EXCEPT !.left = S]], pc' = [pc EXCEPT ![c] = there]
      PROVE  Inv'
  <2> DEFINE r == [q EXCEPT !.left = S]
  <2>1. /\ r.intent = q.intent /\ r.call = q.call /\ r.from = q.from /\ r.nonce = q.nonce
        /\ DOMAIN r = DOMAIN NoRequest
    BY <1>1, <1>2
  <2>2. req' = [req EXCEPT ![c] = r]
    BY <1>5
  <2> HIDE DEF r, q
  <2> QED
    BY <1>3, <1>5, <2>1, <2>2
<1>6. CASE Estimate(c)
  BY <1>4, <1>5, <1>6 DEF Estimate, Goto, Holding, Prepared
<1>7. CASE CheckPolicies(c)
  <2>1. \/ UNCHANGED req /\ (Goto(c, "send") \/ Goto(c, "failed"))
        \/ \E s \in req[c].left :
             req' = [req EXCEPT ![c] = [q EXCEPT !.left = @ \ {s}]] /\ UNCHANGED pc
    BY <1>7 DEF CheckPolicies, Holding
  <2>2. pc[c] = "policies"
    BY <1>7 DEF CheckPolicies
  <2>3. UNCHANGED pc => pc' = [pc EXCEPT ![c] = "policies"]
    BY <2>2 DEF Inv, TypeOK
  <2>4. CASE UNCHANGED req /\ (Goto(c, "send") \/ Goto(c, "failed"))
    BY <1>4, <2>2, <2>4 DEF Goto, Prepared
  <2>5. ASSUME NEW s \in req[c].left, UNCHANGED pc,
               req' = [req EXCEPT ![c] = [q EXCEPT !.left = @ \ {s}]]
        PROVE  Inv'
    <3>1. req' = [req EXCEPT ![c] = [q EXCEPT !.left = q.left \ {s}]]
      BY <2>5
    <3> QED
      BY <1>5, <2>2, <2>3, <2>5, <3>1 DEF Prepared
  <2> QED
    BY <2>1, <2>4, <2>5
<1>8. CASE Fail(c)
  BY <1>4, <1>8 DEF Fail, Goto
<1> QED
  BY <1>6, <1>7, <1>8

\* The transaction on its way.
LEMMA ChainPlaced ==
  ASSUME Inv, \/ \E c \in Requests : Send(c) \/ Mine(c) \/ Drop(c)
              \/ \E k \in DOMAIN registry, v \in {"Allowed", "Denied"} : SetStatus(k, v)
              \/ Tick \/ UNCHANGED vars
  PROVE  Inv'
<1>1. CASE Tick \/ UNCHANGED vars
  BY <1>1 DEF Tick, vars, Inv, TypeOK, Indexed, Placed, Drawn
<1>2. ASSUME NEW k \in DOMAIN registry, NEW v \in {"Allowed", "Denied"}, SetStatus(k, v)
      PROVE  Inv'
  <2>1. seen' \in [Requests -> SUBSET Sessions]
    BY <1>2 DEF SetStatus, Inv, TypeOK
  <2> QED
    BY <1>2, <2>1 DEF SetStatus, Inv, TypeOK, Indexed, Placed, Drawn
<1>3. ASSUME NEW c \in Requests, Send(c) \/ Mine(c) \/ Drop(c)
      PROVE  Inv'
  <2>1. /\ req' = req /\ manager' = manager /\ seen' = seen
        /\ nonces' \in [Addresses -> Nat] /\ Drawn(c)
    <3>1. CASE Send(c)
      BY <3>1 DEF Send, Inv, TypeOK, Placed, Prepared
    <3>2. CASE Mine(c)
      BY <3>2, ClientAssumption DEF Mine, Inv, TypeOK, Placed, Drawn, Ready
    <3>3. CASE Drop(c)
      BY <3>3, ClientAssumption DEF Drop, Inv, TypeOK, Placed, Drawn
    <3> QED
      BY <1>3, <3>1, <3>2, <3>3
  <2>2. \E there \in {pc[c], "sent", "failed"},
           o \in {"pending", "success", "reverted", "dropped"} :
          pc' = [pc EXCEPT ![c] = there] /\ outcome' = [outcome EXCEPT ![c] = o]
    BY <1>3 DEF Send, Mine, Drop, Goto, Inv, TypeOK
  <2>3. pc[c] \notin Unprepared
    BY <2>1 DEF Inv, Placed
  <2>4. TypeOK'
    BY <2>1, <2>2 DEF Inv, TypeOK, Drawn
  <2>5. ASSUME NEW d \in Requests PROVE Placed(d)'
    BY <2>1, <2>2, <2>3 DEF Inv, TypeOK, Placed, Drawn, Unprepared, Prepared
  <2> QED
    BY <2>1, <2>4, <2>5 DEF Inv, Indexed
<1> QED
  BY <1>1, <1>2, <1>3

LEMMA NextPlaced == Inv /\ [Next]_vars => Inv'
  BY BeginPlaced, BeginSessionPlaced, ReadsPlaced, PreparePlaced, DrawPlaced, LatePlaced,
     ChainPlaced DEF Next, Start, Step

LEMMA PlacedAlways == Spec => []Inv
  BY InitPlaced, NextPlaced, PTL DEF Spec

\* Every reachable state is well typed, and what is sent has a nonce.
THEOREM TypeCorrect == Spec => []TypeOK
<1>1. Inv => TypeOK
  BY DEF Inv
<1> QED
  BY PlacedAlways, <1>1, PTL

\* Nothing but what was asked for is executed for a request, and the wallet is
\* who has made the call, whenever the account was deployed and by whom; only a
\* session client may have acted for its own account.
THEOREM WalletActs == Spec => []ByTheWallet
<1>1. Inv => ByTheWallet
  BY ClientAssumption DEF Inv, TypeOK, Placed, Drawn, Ready, ByTheWallet
<1> QED
  BY PlacedAlways, <1>1, PTL
-----------------------------------------------------------------------------
(* The nonce manager                                                       *)

\* A nonce that was drawn stays with its request.
Kept(d) ==
  /\ Drawn(d) => /\ req'[d].nonce = req[d].nonce /\ req'[d].from = req[d].from
                 /\ req'[d].intent = req[d].intent
  /\ ~Drawn(d) => req'[d].nonce = None

OwnStep(c) ==
  \/ \E i \in Intents : Begin(c, i) \/ BeginSession(c, i)
  \/ ReadCode(c) \/ ReadHooks(c) \/ ReadFactory(c) \/ Prepare(c)
  \/ Estimate(c) \/ CheckPolicies(c) \/ Fail(c)

LEMMA OwnStepKeeps ==
  ASSUME Inv, Inv', NEW c \in Requests, OwnStep(c)
  PROVE  /\ \A d \in Requests : Kept(d)
         /\ UNCHANGED <<nonces, manager, managed, outcome, chain, registry>>
         /\ \A d \in Requests \ {c} : req'[d] = req[d] /\ pc'[d] = pc[d] /\ seen'[d] = seen[d]
<1>1. UNCHANGED <<nonces, manager, managed, outcome, chain, registry>>
  BY DEF OwnStep, Begin, BeginSession, ReadCode, ReadHooks, ReadFactory, Prepare, Estimate,
         CheckPolicies, Fail, unsent, external
<1>2. \A d \in Requests \ {c} : req'[d] = req[d] /\ pc'[d] = pc[d] /\ seen'[d] = seen[d]
  <2>1. DOMAIN req = Requests /\ DOMAIN pc = Requests /\ DOMAIN seen = Requests
    BY DEF Inv, TypeOK
  <2>2. /\ \E r : req' = [req EXCEPT ![c] = r] \/ req' = req
        /\ \E there : pc' = [pc EXCEPT ![c] = there] \/ pc' = pc
        /\ seen' = [seen EXCEPT ![c] = AllowedNow] \/ seen' = seen
    <3>1. CASE \E i \in Intents : Begin(c, i) \/ BeginSession(c, i)
      BY <3>1 DEF Begin, Begins, BeginSession, Goto, Holding
    <3>2. CASE ReadCode(c) \/ ReadHooks(c) \/ ReadFactory(c)
      BY <3>2 DEF ReadCode, ReadHooks, ReadFactory, unsent, Goto, Holding
    <3>3. CASE Prepare(c) \/ Estimate(c) \/ CheckPolicies(c) \/ Fail(c)
      BY <3>3 DEF Prepare, Estimate, CheckPolicies, Fail, unsent, Goto, Holding
    <3> QED
      BY <3>1, <3>2, <3>3 DEF OwnStep
  <2> QED
    BY <2>1, <2>2
<1>3. DOMAIN req[c] = {"intent", "call", "from", "nonce", "ids", "left"} /\ DOMAIN req = Requests
  BY DEF Inv, TypeOK, NoRequest
<1>4. Kept(c)
  <2>1. CASE (\E i \in Intents : Begin(c, i) \/ BeginSession(c, i)) \/ Prepare(c)
             \/ ReadCode(c) \/ ReadHooks(c) \/ ReadFactory(c)
    <3>1. ~Drawn(c)
      BY <2>1 DEF Begin, BeginSession, Prepare, ReadCode, ReadHooks, ReadFactory, Inv, Placed,
                  Unprepared
    <3>2. ASSUME NEW i \in Intents, Begin(c, i) PROVE req'[c].nonce = None
      BY <1>3, <3>2 DEF Begin, Begins, Holding, NoRequest
    <3>3. ASSUME NEW i \in Intents, BeginSession(c, i) PROVE req'[c].nonce = None
      <4>1. PICK r : /\ Holding(c, r) /\ DOMAIN r = DOMAIN NoRequest /\ r.intent = i
                     /\ r.call = i.call /\ r.nonce = None /\ r.from = None
                     /\ Goto(c, "prepare") \/ Goto(c, "failed")
        BY <3>3, BeginSessionHolds
      <4>2. req' = [req EXCEPT ![c] = r]
        BY <4>1 DEF Holding
      <4> QED
        BY <1>3, <4>1, <4>2
    <3>4. ASSUME Prepare(c) PROVE Kept(c)
      <4>1. pc'[c] = "nonce"
        BY <3>4 DEF Prepare, Goto, Inv, TypeOK
      <4> QED
        BY <3>1, <4>1 DEF Inv, Placed, Unprepared, Drawn, Kept
    <3>5. ASSUME ReadCode(c) \/ ReadHooks(c) \/ ReadFactory(c) PROVE Kept(c)
      <4>1. req' = req \/ pc'[c] \in {"prepare", "hooks", "nonce"}
        BY <3>5 DEF ReadCode, ReadHooks, ReadFactory, Goto, Inv, TypeOK
      <4> QED
        BY <3>1, <4>1 DEF Inv, Placed, Unprepared, Drawn, Kept
    <3> QED
      BY <2>1, <3>1, <3>2, <3>3, <3>4, <3>5 DEF Kept, Drawn, Prepare
  <2>2. CASE Estimate(c)
    BY <1>3, <2>2 DEF Estimate, Holding, Kept, Drawn
  <2>3. CASE CheckPolicies(c)
    BY <1>3, <2>3 DEF CheckPolicies, Holding, Kept, Drawn
  <2>4. CASE Fail(c)
    BY <2>4 DEF Fail, Kept, Drawn
  <2> QED
    BY <2>1, <2>2, <2>3, <2>4 DEF OwnStep
<1> QED
  BY <1>1, <1>2, <1>4 DEF Kept, Drawn

\* What the manager has given out is held by one request each, and what it will
\* not give out again is used or held.
ManagerInv ==
  /\ \A c \in Requests : ByManager(c) => req[c].nonce < manager[req[c].from]
  /\ \A c, d \in Requests :
       c # d /\ ByManager(c) /\ ByManager(d) /\ req[d].from = req[c].from
         => req[d].nonce # req[c].nonce
  /\ \A a \in Addresses : \A n \in 0..(manager[a] - 1) :
       \/ n < nonces[a]
       \/ \E d \in Requests : Drawn(d) /\ req[d].from = a /\ req[d].nonce = n

LEMMA KeptManages ==
  ASSUME Inv, Inv', ManagerInv, \A d \in Requests : Kept(d),
         UNCHANGED <<manager, managed>>, \A a \in Addresses : nonces'[a] >= nonces[a]
  PROVE  ManagerInv'
<1>1. ASSUME NEW d \in Requests
      PROVE  /\ Drawn(d)' <=> Drawn(d)
             /\ Drawn(d) => /\ ByManager(d)' <=> ByManager(d)
                            /\ req'[d].nonce = req[d].nonce /\ req'[d].from = req[d].from
  BY DEF Kept, Drawn, ByManager, HasManager
<1>2. \A d \in Requests : ByManager(d)' => ByManager(d) /\ Drawn(d)
  BY <1>1 DEF ByManager
<1>3. (\A c \in Requests : ByManager(c) => req[c].nonce < manager[req[c].from])'
  BY <1>1, <1>2 DEF ManagerInv
<1>4. (\A c, d \in Requests :
         c # d /\ ByManager(c) /\ ByManager(d) /\ req[d].from = req[c].from
           => req[d].nonce # req[c].nonce)'
  BY <1>1, <1>2 DEF ManagerInv
<1>5. ASSUME NEW a \in Addresses, NEW n \in 0..(manager[a] - 1)
      PROVE  \/ n < nonces'[a]
             \/ \E d \in Requests : Drawn(d)' /\ req'[d].from = a /\ req'[d].nonce = n
  <2>1. nonces[a] \in Nat /\ nonces'[a] \in Nat /\ nonces'[a] >= nonces[a] /\ n \in Int
    BY DEF Inv, TypeOK
  <2>2. n < nonces[a] => n < nonces'[a]
    BY <2>1
  <2>3. n < nonces[a] \/ \E d \in Requests : Drawn(d) /\ req[d].from = a /\ req[d].nonce = n
    BY DEF ManagerInv
  <2> QED
    BY <1>1, <2>2, <2>3
<1> QED
  BY <1>3, <1>4, <1>5 DEF ManagerInv

LEMMA DrawManages ==
  ASSUME Inv, Inv', ManagerInv, NEW c \in Requests, DrawNonce(c)
  PROVE  ManagerInv'
<1> DEFINE a == req[c].from
           n == IF HasManager(req[c]) THEN Consumed(a) ELSE PendingCount(a)
<1>1. /\ UNCHANGED <<nonces, managed, outcome>> /\ ~Drawn(c) /\ a \in Addresses
      /\ DOMAIN req[c] = {"intent", "call", "from", "nonce", "ids", "left"}
      /\ DOMAIN req = Requests
  BY DEF DrawNonce, unsent, external, Inv, TypeOK, Placed, Unprepared, Ready, NoRequest
<1>2. /\ manager[a] \in Nat /\ nonces[a] \in Nat /\ PendingCount(a) \in Nat
      /\ \A k \in nonces[a]..(PendingCount(a) - 1) :
           \E d \in Requests : Drawn(d) /\ req[d].from = a /\ req[d].nonce = k
  <2>1. \A d \in Pending(a) : d \in Requests /\ Drawn(d) /\ req[d].from = a
    BY ClientAssumption DEF Inv, TypeOK, Pending, Drawn
  <2> QED
    BY <1>1, <2>1, PendingCountType DEF Inv, TypeOK
<1>3. n \in Nat /\ (HasManager(req[c]) => n >= manager[a])
  BY <1>2 DEF Consumed
<1> DEFINE m == IF HasManager(req[c]) THEN n + 1 ELSE manager[a]
<1>4. req' = [req EXCEPT ![c] = [req[c] EXCEPT !.nonce = n]]
  BY DEF DrawNonce, Holding
<1>5. /\ req'[c].nonce = n /\ req'[c].from = a /\ req'[c].intent = req[c].intent
      /\ \A d \in Requests \ {c} : req'[d] = req[d]
  BY <1>1, <1>4
<1>6. /\ ByManager(c)' <=> HasManager(req[c])
      /\ \A d \in Requests \ {c} : (ByManager(d)' <=> ByManager(d)) /\ (Drawn(d)' <=> Drawn(d))
      /\ Drawn(c)'
  <2> HIDE DEF n
  <2> QED
    BY <1>1, <1>3, <1>5, ClientAssumption DEF ByManager, HasManager, Drawn
<1>7. manager' = [manager EXCEPT ![a] = m]
  BY DEF DrawNonce, Inv, TypeOK
<1>8. /\ m \in Nat /\ m >= manager[a] /\ (HasManager(req[c]) => m = n + 1)
      /\ \A b \in Addresses : /\ manager[b] \in Nat /\ nonces[b] \in Nat
                             /\ manager'[b] = IF b = a THEN m ELSE manager[b]
  <2> HIDE DEF n
  <2>1. CASE HasManager(req[c])
    BY <1>1, <1>2, <1>3, <1>7, <2>1 DEF Inv, TypeOK
  <2>2. CASE ~HasManager(req[c])
    BY <1>1, <1>2, <1>3, <1>7, <2>2 DEF Inv, TypeOK
  <2> QED
    BY <2>1, <2>2
<1>9. \A d \in Requests : ByManager(d) =>
        req[d].nonce \in Nat /\ req[d].from \in Addresses /\ req[d].nonce < manager[req[d].from]
  BY ClientAssumption DEF Inv, TypeOK, ByManager, Drawn, ManagerInv, Placed, Ready
\* What is below the new bound was below the old one, or is pending, or is drawn now.
<1>10. ASSUME NEW k \in Nat, k < m, ~(k < manager[a])
       PROVE  k = n \/ k < PendingCount(a)
  <2>1. HasManager(req[c])
    BY <1>10
  <2>2. n = manager[a] \/ n = PendingCount(a)
    BY <2>1 DEF Consumed
  <2>3. k < n + 1
    BY <1>8, <1>10, <2>1
  <2> HIDE DEF n, m
  <2> QED
    BY <1>2, <1>3, <1>10, <2>2, <2>3
<1> HIDE DEF n, m
<1>11. (\A d \in Requests : ByManager(d) => req[d].nonce < manager[req[d].from])'
  <2>1. ASSUME NEW d \in Requests \ {c}, ByManager(d)
        PROVE  req[d].nonce < manager'[req[d].from]
    BY <1>1, <1>8, <1>9, <2>1
  <2>2. ByManager(c)' => req'[c].nonce < manager'[req'[c].from]
    BY <1>1, <1>3, <1>5, <1>6, <1>8
  <2> QED
    BY <1>5, <1>6, <2>1, <2>2
<1>12. (\A d, e \in Requests :
         d # e /\ ByManager(d) /\ ByManager(e) /\ req[e].from = req[d].from
           => req[e].nonce # req[d].nonce)'
  <2>1. \A d \in Requests \ {c} :
          ByManager(d) /\ HasManager(req[c]) /\ req[d].from = a => req[d].nonce < n
    BY <1>2, <1>3, <1>9
  <2>2. \A d \in Requests \ {c} :
          ByManager(d)' /\ ByManager(c)' /\ req'[d].from = req'[c].from
            => req'[d].nonce # req'[c].nonce
    BY <1>3, <1>5, <1>6, <1>9, <2>1
  <2>3. \A d, e \in Requests \ {c} :
          d # e /\ ByManager(d)' /\ ByManager(e)' /\ req'[e].from = req'[d].from
            => req'[e].nonce # req'[d].nonce
    BY <1>5, <1>6 DEF ManagerInv
  <2> QED
    BY <2>2, <2>3
<1>13. ASSUME NEW b \in Addresses, NEW k \in 0..(manager'[b] - 1)
       PROVE  \/ k < nonces'[b]
              \/ \E d \in Requests : Drawn(d)' /\ req'[d].from = b /\ req'[d].nonce = k
  <2> DEFINE top == manager'[b]
  <2>1. top \in Nat /\ k \in Nat /\ k < top /\ top = IF b = a THEN m ELSE manager[b]
    <3>1. top \in Nat /\ top = IF b = a THEN m ELSE manager[b]
      BY <1>8
    <3>2. k \in 0..(top - 1)
      OBVIOUS
    <3> HIDE DEF top
    <3> QED
      BY <3>1, <3>2
  <2> HIDE DEF top
  <2>2. \/ k \in 0..(manager[b] - 1)
        \/ b = a /\ (k = n \/ k < nonces[a] \/ k \in nonces[a]..(PendingCount(a) - 1))
    BY <1>1, <1>2, <1>8, <1>10, <2>1
  <2>3. \/ k < nonces[b]
        \/ \E d \in Requests : Drawn(d) /\ req[d].from = b /\ req[d].nonce = k
        \/ b = a /\ k = n
    BY <1>2, <2>2 DEF ManagerInv
  <2> QED
    BY <1>1, <1>5, <1>6, <2>3
<1> QED
  BY <1>11, <1>12, <1>13 DEF ManagerInv

LEMMA NextManages == Inv /\ Inv' /\ ManagerInv /\ [Next]_vars => ManagerInv'
<1> SUFFICES ASSUME Inv, Inv', ManagerInv, [Next]_vars PROVE ManagerInv'
  OBVIOUS
<1>1. ASSUME NEW c \in Requests, OwnStep(c) PROVE ManagerInv'
  BY <1>1, OwnStepKeeps, KeptManages DEF Inv, TypeOK
<1>2. ASSUME NEW c \in Requests, DrawNonce(c) PROVE ManagerInv'
  BY <1>2, DrawManages
<1>3. CASE \/ \E c \in Requests : Send(c) \/ Mine(c) \/ Drop(c)
           \/ \E k \in DOMAIN registry, v \in {"Allowed", "Denied"} : SetStatus(k, v)
           \/ Tick \/ UNCHANGED vars
  <2>1. req' = req /\ manager' = manager /\ managed' = managed
    BY <1>3 DEF Send, Mine, Drop, SetStatus, Tick, vars
  <2>2. \A a \in Addresses : nonces'[a] >= nonces[a]
    BY <1>3 DEF Send, Mine, Drop, SetStatus, Tick, vars, Inv, TypeOK
  <2>3. \A d \in Requests : Kept(d)
    BY <2>1 DEF Kept, Drawn
  <2> QED
    BY <2>1, <2>2, <2>3, KeptManages
<1> QED
  BY <1>1, <1>2, <1>3 DEF Next, Start, Step, OwnStep

\* Requests whose nonces come from the manager never share one, however many are
\* prepared at the same time, and no nonce below theirs is left out.
THEOREM ManagerOrders == Spec => []NoncesInOrder
<1>1. Init => ManagerInv
  BY ClientAssumption DEF Init, ManagerInv, ByManager, Drawn, NoRequest
<1>2. Inv /\ ManagerInv => NoncesInOrder
  <2> SUFFICES ASSUME Inv, ManagerInv, NEW c \in Requests, ByManager(c)
               PROVE  /\ \A d \in Requests \ {c} :
                           ByManager(d) /\ req[d].from = req[c].from
                             => req[d].nonce # req[c].nonce
                      /\ \A n \in 0..(req[c].nonce - 1) :
                           \/ n < nonces[req[c].from]
                           \/ \E d \in Requests : /\ Drawn(d) /\ req[d].from = req[c].from
                                                  /\ req[d].nonce = n
    BY DEF NoncesInOrder
  <2>1. /\ req[c].nonce \in Nat /\ req[c].from \in Addresses
        /\ manager[req[c].from] \in Nat /\ req[c].nonce < manager[req[c].from]
    BY ClientAssumption DEF Inv, TypeOK, ByManager, Drawn, ManagerInv, Placed, Ready
  <2>2. 0..(req[c].nonce - 1) \subseteq 0..(manager[req[c].from] - 1)
    BY <2>1
  <2> QED
    BY <2>1, <2>2 DEF ManagerInv
<1> QED
  BY <1>1, <1>2, NextManages, PlacedAlways, PTL DEF Spec

-----------------------------------------------------------------------------
(* The look-ups in the policy registry                                     *)

Granted(c) == {s \in Sessions : Constrained(Config[s]) /\ s \in seen[c]}

\* The sessions that its call creates in the client's sight.
InSight(c) ==
  {s \in CreatedBy(req[c].call) : ~OutOfSight(req[c].intent, req[c].call, s)}

\* Between the estimate and the signature, a session that the call creates in the
\* client's sight is either granted or still to be looked up.
Checked(c) ==
  /\ pc[c] # "idle" => AllowedNow \subseteq seen[c]
  /\ req[c].from = wallet /\ pc[c] = "policies" =>
       InSight(c) \subseteq req[c].left \cup Granted(c)
  /\ req[c].from = wallet /\ (pc[c] = "send" \/ outcome[c] # "unsent") =>
       InSight(c) \subseteq Granted(c)

\* The client finds what is in its sight, before it has looked anything up.
LEMMA SeenAreFound ==
  ASSUME NEW i, NEW call, Askable(call), NEW s \in CreatedBy(call), ~OutOfSight(i, call, s)
  PROVE  s \in SessionsIn(i, wallet, call)
<1>1. Written(i) = {"validator", "account"}
  BY DEF OutOfSight, Written
<1>2. CASE call.op = "batch"
  <2>1. PICK k \in DOMAIN call.calls : s \in Creates(call.calls[k])
    BY <1>2 DEF CreatedBy
  <2> DEFINE sub == call.calls[k]
  <2>2. /\ sub.op # "nested"
        /\ sub.op = "addModule" => "account" \in Decoded(i)
        /\ "validator" \in Decoded(i)
    BY <1>2, <2>1 DEF OutOfSight, Decoded
  <2>3. sub.op \in {"addModule", "createSession"} /\ s = sub.session
    BY <2>1, <2>2 DEF Creates
  <2> HIDE DEF sub
  <2>4. s \in SessionIn(wallet, sub, Decoded(i))
    BY <2>2, <2>3 DEF SessionIn
  <2> QED
    BY <1>1, <1>2, <2>4 DEF SessionsIn, sub
<1>3. CASE call.op # "batch"
  <2>1. call.op \in {"addModule", "createSession"} /\ s = call.session
    BY <1>3 DEF CreatedBy, Creates, Askable, Simple
  <2> QED
    BY <1>1, <1>3, <2>1 DEF SessionsIn, SessionIn
<1> QED
  BY <1>2, <1>3

LEMMA CreatedAreSessions ==
  ASSUME Inv, NEW c \in Requests, Drawn(c), req[c].from = wallet
  PROVE  CreatedBy(req[c].call) \subseteq Sessions /\ Askable(req[c].call)
<1>1. Ready(req[c]) /\ req[c].intent \in Intents
  BY DEF Inv, Placed, Drawn, Unprepared
<1>2. InnerCall(req[c].call) = req[c].call
  BY <1>1, WalletIsNoSigner DEF Ready, InnerCall
<1> QED
  BY <1>1, <1>2, AskedIsAskable DEF Ready, Askable

\* A request is where it was, and may have seen more.
LEMMA StillChecked ==
  ASSUME NEW c, Checked(c), req'[c] = req[c], outcome'[c] = outcome[c],
         pc'[c] = pc[c] \/ (pc[c] # "idle" /\ pc'[c] = "failed"),
         seen[c] \subseteq seen'[c], pc[c] # "idle" => AllowedNow' \subseteq seen'[c]
  PROVE  Checked(c)'
<1>1. Granted(c) \subseteq Granted(c)'
  BY DEF Granted
<1> QED
  BY <1>1 DEF Checked, InSight

LEMMA OwnStepChecks ==
  ASSUME Inv, Inv', \A d \in Requests : Checked(d), NEW c \in Requests,
         OwnStep(c) \/ DrawNonce(c)
  PROVE  Checked(c)'
<1>1. outcome' = outcome /\ registry' = registry /\ AllowedNow' = AllowedNow /\ Checked(c)
  BY DEF OwnStep, Begin, BeginSession, ReadCode, ReadHooks, ReadFactory, Prepare, DrawNonce,
         Estimate, CheckPolicies, Fail, unsent, external, AllowedNow
<1>2. /\ DOMAIN req = Requests /\ DOMAIN pc = Requests /\ DOMAIN seen = Requests
      /\ DOMAIN req[c] = {"intent", "call", "from", "nonce", "ids", "left"}
  BY DEF Inv, TypeOK, NoRequest
<1>3. ASSUME outcome[c] = "unsent", pc'[c] \notin {"policies", "send"},
             AllowedNow \subseteq seen'[c]
      PROVE  Checked(c)'
  BY <1>1, <1>3 DEF Checked
<1>4. CASE \/ \E i \in Intents : Begin(c, i) \/ BeginSession(c, i)
           \/ ReadCode(c) \/ ReadHooks(c) \/ ReadFactory(c) \/ Prepare(c) \/ DrawNonce(c)
  <2>1. outcome[c] = "unsent"
    BY <1>4 DEF Begin, BeginSession, ReadCode, ReadHooks, ReadFactory, Prepare, DrawNonce, Inv,
                Placed, Unprepared
  <2>2. CASE \E i \in Intents : Begin(c, i) \/ BeginSession(c, i)
    <3>1. pc'[c] \in {"prepare", "code", "factory", "failed"} /\ seen'[c] = AllowedNow
      BY <1>2, <2>2 DEF Begin, Begins, BeginSession, Goto
    <3> QED
      BY <1>3, <2>1, <3>1
  <2>3. CASE ReadCode(c) \/ ReadHooks(c) \/ ReadFactory(c) \/ Prepare(c) \/ DrawNonce(c)
    <3>1. /\ pc[c] # "idle" /\ seen' = seen
          /\ pc'[c] \in {"prepare", "hooks", "done", "nonce", "estimate"}
      BY <1>2, <2>3 DEF ReadCode, ReadHooks, ReadFactory, Prepare, DrawNonce, Goto, unsent
    <3> QED
      BY <1>1, <1>3, <2>1, <3>1 DEF Checked
  <2> QED
    BY <1>4, <2>2, <2>3
<1>5. CASE Fail(c)
  <2>1. req' = req /\ seen' = seen /\ pc[c] # "idle" /\ pc'[c] = "failed"
    BY <1>2, <1>5 DEF Fail, Goto, unsent
  <2> QED
    BY <1>1, <2>1, StillChecked DEF Checked
<1>6. CASE Estimate(c)
  <2>1. /\ seen' = seen /\ pc[c] = "estimate" /\ Drawn(c) /\ Ready(req[c])
    BY <1>6 DEF Estimate, unsent, Inv, Placed, Prepared
  <2>2. CASE req' = req /\ pc'[c] = "failed"
    BY <1>1, <2>1, <2>2, StillChecked DEF Checked
  <2>3. CASE /\ req' = [req EXCEPT ![c] = [req[c] EXCEPT !.left = SessionsIn(req[c].intent, req[c].from, req[c].call)]]
             /\ pc'[c] = IF req[c].intent.kind = "deploy" THEN "send" ELSE "policies"
    <3>1. /\ req'[c].left = SessionsIn(req[c].intent, req[c].from, req[c].call)
          /\ req'[c].from = req[c].from /\ req'[c].call = req[c].call
          /\ req'[c].intent = req[c].intent
      BY <1>2, <2>3
    <3>2. Granted(c)' = Granted(c) /\ InSight(c)' = InSight(c)
      BY <2>1, <3>1 DEF Granted, InSight
    <3>3. req[c].from = wallet => pc'[c] = "policies"
      BY <2>1, <2>3, WalletIsNoSigner DEF Ready
    <3>4. req[c].from = wallet => InSight(c) \subseteq req'[c].left
      BY <2>1, <3>1, CreatedAreSessions, SeenAreFound DEF InSight
    <3> QED
      BY <1>1, <2>1, <3>1, <3>2, <3>3, <3>4 DEF Checked
  <2> QED
    BY <1>2, <1>6, <2>2, <2>3 DEF Estimate, Holding, Goto
<1>7. CASE CheckPolicies(c)
  <2>1. seen' = seen /\ pc[c] = "policies" /\ Drawn(c) /\ Granted(c)' = Granted(c)
    BY <1>7 DEF CheckPolicies, unsent, Inv, Placed, Prepared, Granted
  <2>2. CASE req' = req /\ pc'[c] = "failed"
    BY <1>1, <2>1, <2>2, StillChecked DEF Checked
  <2>3. CASE req[c].left = {} /\ req' = req /\ pc'[c] = "send"
    BY <1>1, <2>1, <2>3 DEF Checked, InSight
  <2>4. ASSUME NEW s \in req[c].left, Constrained(Config[s]), Allowed(Config[s], registry),
               req' = [req EXCEPT ![c] = [req[c] EXCEPT !.left = req[c].left \ {s}]], pc' = pc
        PROVE  Checked(c)'
    <3>1. /\ req'[c].left = req[c].left \ {s}
          /\ req'[c].from = req[c].from /\ req'[c].call = req[c].call
          /\ req'[c].intent = req[c].intent
      BY <1>2, <2>4
    <3>2. req[c].from = wallet /\ s \in InSight(c) => s \in Granted(c)
      BY <1>1, <2>1, <2>4, CreatedAreSessions DEF Checked, Granted, AllowedNow, InSight
    <3>3. InSight(c)' = InSight(c)
      BY <3>1 DEF InSight
    <3> QED
      BY <1>1, <2>1, <2>4, <3>1, <3>2, <3>3 DEF Checked
  <2>5. \/ req' = req /\ pc'[c] = "failed"
        \/ req[c].left = {} /\ req' = req /\ pc'[c] = "send"
        \/ \E s \in req[c].left :
             /\ Constrained(Config[s]) /\ Allowed(Config[s], registry) /\ pc' = pc
             /\ req' = [req EXCEPT ![c] = [req[c] EXCEPT !.left = req[c].left \ {s}]]
    BY <1>2, <1>7 DEF CheckPolicies, Holding, Goto
  <2> QED
    BY <2>2, <2>3, <2>4, <2>5
<1> QED
  BY <1>4, <1>5, <1>6, <1>7 DEF OwnStep

LEMMA NextChecks ==
  Inv /\ Inv' /\ (\A c \in Requests : Checked(c)) /\ [Next]_vars
    => (\A c \in Requests : Checked(c))'
<1> SUFFICES ASSUME Inv, Inv', \A d \in Requests : Checked(d), [Next]_vars, NEW c \in Requests
             PROVE  Checked(c)'
  OBVIOUS
<1>1. ASSUME NEW d \in Requests, OwnStep(d) \/ DrawNonce(d) PROVE Checked(c)'
  <2>1. CASE d = c
    BY <1>1, <2>1, OwnStepChecks
  <2>2. ASSUME d # c
        PROVE  /\ req'[c] = req[c] /\ pc'[c] = pc[c] /\ seen'[c] = seen[c]
               /\ outcome' = outcome /\ registry' = registry
    <3>1. CASE OwnStep(d)
      BY <2>2, <3>1, OwnStepKeeps
    <3>2. CASE DrawNonce(d)
      BY <2>2, <3>2 DEF DrawNonce, Holding, Goto, unsent, external, Inv, TypeOK
    <3> QED
      BY <1>1, <3>1, <3>2
  <2>3. d # c => AllowedNow' = AllowedNow
    BY <2>2 DEF AllowedNow
  <2> QED
    BY <2>1, <2>2, <2>3, StillChecked DEF Checked
<1>2. ASSUME NEW d \in Requests, Send(d) \/ Mine(d) \/ Drop(d) PROVE Checked(c)'
  <2>1. /\ req' = req /\ seen' = seen /\ registry' = registry /\ AllowedNow' = AllowedNow
        /\ Granted(c)' = Granted(c) /\ InSight(c)' = InSight(c)
    BY <1>2 DEF Send, Mine, Drop, AllowedNow, Granted, InSight
  <2>2. /\ pc'[c] = pc[c] \/ (pc[c] = "send" /\ pc'[c] \in {"sent", "failed"})
        /\ pc[c] = "send" \/ (outcome[c] = "unsent" => outcome'[c] = "unsent")
    BY <1>2 DEF Send, Mine, Drop, Goto, Inv, TypeOK
  <2> QED
    BY <2>1, <2>2 DEF Checked
<1>3. ASSUME NEW k \in DOMAIN registry, NEW v \in {"Allowed", "Denied"}, SetStatus(k, v)
      PROVE  Checked(c)'
  <2>1. /\ req' = req /\ pc' = pc /\ outcome' = outcome
        /\ pc[c] # "idle" => seen'[c] = seen[c] \cup AllowedNow'
    BY <1>3 DEF SetStatus, AllowedNow
  <2>2. CASE pc[c] = "idle"
    BY <2>1, <2>2 DEF Checked, Inv, Placed, Unprepared
  <2>3. CASE pc[c] # "idle"
    BY <2>1, <2>3, StillChecked
  <2> QED
    BY <2>2, <2>3
<1>4. CASE Tick \/ UNCHANGED vars
  <2>1. UNCHANGED <<req, pc, outcome, seen, registry>> /\ AllowedNow' = AllowedNow
    BY <1>4 DEF Tick, vars, AllowedNow
  <2> QED
    BY <2>1, StillChecked DEF Checked
<1> QED
  BY <1>1, <1>2, <1>3, <1>4 DEF Next, Start, Step, OwnStep

\* No session is created by a transaction of the deployed wallet, alone or in a
\* batch, that the registry has not allowed during that request, however the
\* registry changes between the look-ups; unless its call is written as the client
\* does not expect it, or lies in a batch in the batch.
THEOREM SessionsAreChecked == Spec => []CheckedSessions
<1>1. Init => \A c \in Requests : Checked(c)
  BY WalletIsNoSigner, ClientAssumption DEF Init, Checked, NoRequest
<1>2. (\A c \in Requests : Checked(c)) => CheckedSessions
  BY DEF Checked, CheckedSessions, Granted, InSight
<1> QED
  BY <1>1, <1>2, NextChecks, PlacedAlways, PTL DEF Spec

-----------------------------------------------------------------------------
(* The provider of an app.  What a request asks has been checked against   *)
(* the signer that it has been given by the time that something is signed, *)
(* and a request that nothing disturbs has the signer that is selected.    *)

ServedInv ==
  /\ at \in {"idle", "signer", "address", "client", "sign", "code"}
  /\ asked \in App!AppRequests \/ at = "idle"
  /\ at = "address" => asked.method = "accounts"
  /\ at \in {"client", "sign", "code"} =>
       /\ asked.method # "accounts" /\ signer # None
       /\ asked.method = "sendCalls" => App!ChainFits(asked)
  /\ at \in {"sign", "code"} => App!Authorized(asked)
  /\ at = "code" => App!IsMessage(asked)

SteadyInv ==
  steady /\ at # "idle" =>
    /\ network = "here"
    /\ asked.named \in {selected, App!Agw(selected)}
    /\ at \in {"client", "sign", "code"} => asked.named = App!Agw(signer)

ProviderInv == ServedInv /\ SteadyInv /\ App!ActsAsNamed

LEMMA InitProvider == App!Init => ProviderInv
  BY DEF App!Init, App!Answer, ProviderInv, ServedInv, SteadyInv, App!ActsAsNamed, App!Done

LEMMA AskStep ==
  ASSUME ProviderInv, NEW r \in App!AppRequests, App!Ask(r)
  PROVE  ProviderInv'
<1>1. CASE at' = "idle" /\ answer'.by = None
  BY <1>1 DEF ProviderInv, ServedInv, SteadyInv, App!ActsAsNamed, App!Done
<1>2. CASE at' = "signer" /\ asked' = r
  BY <1>2 DEF ProviderInv, ServedInv, SteadyInv, App!ActsAsNamed, App!Done, App!Ask, App!wallet
<1> QED
  BY <1>1, <1>2 DEF App!Ask, App!Goto, App!Return, App!Answer

\* What each method of a request may say.
LEMMA AskedVersion ==
  ASSUME NEW r \in App!AppRequests, r.method = "sendCalls"
  PROVE  r.version \in {None, "1.0", "2.0.0", "2.0"}
  BY DEF App!AppRequests, App!AppRequest

LEMMA ReadSignerStep ==
  ASSUME ProviderInv, App!ReadSigner
  PROVE  ProviderInv'
<1> USE DEF ProviderInv, ServedInv, SteadyInv
<1>0. /\ at = "signer" /\ signer' = selected
      /\ UNCHANGED <<selected, network, hasCode, asked, steady>>
  BY DEF App!ReadSigner, App!wallet
<1>1. CASE at' = "idle" /\ answer'.by = None
  BY <1>0, <1>1 DEF App!ActsAsNamed, App!Done
<1>2. CASE at' = "idle" /\ answer' = App!Answer("passedOn", selected) /\ asked.named = selected
  BY <1>0, <1>2 DEF App!ActsAsNamed, App!Done, App!Answer
<1>3. CASE at' = "address" /\ asked.method = "accounts"
  BY <1>0, <1>3 DEF App!ActsAsNamed, App!Done
<1>4. CASE /\ at' = "client" /\ selected # None /\ asked.named # selected
           /\ asked.method # "accounts"
           /\ asked.method = "sendCalls" => App!ChainFits(asked)
  BY <1>0, <1>4 DEF App!ActsAsNamed, App!Done, App!ChainFits
<1> QED
  BY <1>0, <1>1, <1>2, <1>3, <1>4 DEF App!ReadSigner, App!Goto, App!Return, App!Answer

LEMMA HandleStep ==
  ASSUME ProviderInv, App!ReadAddress \/ App!MakeClient \/ App!Sign \/ App!ReadCode
  PROVE  ProviderInv'
<1> USE DEF ProviderInv, ServedInv, SteadyInv, App!Goto, App!Return, App!Answer
<1>0. UNCHANGED <<selected, network, hasCode, asked, signer, steady>>
  BY DEF App!ReadAddress, App!MakeClient, App!Sign, App!ReadCode, App!wallet
<1>1. CASE App!ReadAddress
  BY <1>0, <1>1 DEF App!ReadAddress, App!ActsAsNamed, App!Done
<1>2. CASE App!MakeClient
  BY <1>0, <1>2 DEF App!MakeClient, App!ActsAsNamed, App!Done, App!Authorized, App!ChainFits
<1>3. CASE App!Sign
  <2>1. CASE at' = "idle" /\ answer' = App!Answer("transaction", App!Agw(signer))
             /\ ~App!IsMessage(asked)
    <3>1. asked.method = "sendCalls" /\ asked.version # "2.0" => asked.chain \in {None, "here"}
      BY <1>3, AskedVersion DEF App!Sign, App!ChainFits
    <3> QED
      BY <1>0, <1>3, <2>1, <3>1 DEF App!Sign, App!ActsAsNamed, App!Done, App!Authorized
  <2>2. CASE at' = "idle" /\ answer'.by = None
    BY <1>0, <2>2 DEF App!ActsAsNamed, App!Done
  <2>3. CASE at' = "code" /\ App!IsMessage(asked)
    BY <1>0, <1>3, <2>3 DEF App!Sign, App!ActsAsNamed, App!Done, App!Authorized, App!IsMessage,
                            App!ChainFits
  <2> QED
    BY <1>3, <2>1, <2>2, <2>3 DEF App!Sign
<1>4. CASE App!ReadCode
  BY <1>0, <1>4 DEF App!ReadCode, App!ActsAsNamed, App!Done, App!IsMessage, App!Authorized
<1> QED
  BY <1>1, <1>2, <1>3, <1>4

\* What the user and the world do to a request that is handled.
LEMMA WorldStep ==
  ASSUME ProviderInv, App!Select \/ App!Switch \/ App!Deploy \/ UNCHANGED app1193
  PROVE  ProviderInv'
<1>1. UNCHANGED <<asked, at, signer, answer>> /\ hasCode \subseteq hasCode'
  BY DEF App!Select, App!Switch, App!Deploy, app1193
<1>2. steady' => steady
  BY DEF App!Select, App!Switch, App!Deploy, app1193
<1>3. steady' /\ at # "idle" => UNCHANGED <<selected, network>>
  BY DEF App!Select, App!Switch, App!Deploy, app1193
<1>4. ServedInv'
  BY <1>1 DEF ProviderInv, ServedInv, App!ChainFits, App!Authorized, App!IsMessage
<1>5. SteadyInv'
  BY <1>1, <1>2, <1>3 DEF ProviderInv, SteadyInv
<1>6. App!ActsAsNamed'
  BY <1>1, <1>2 DEF ProviderInv, App!ActsAsNamed, App!Done
<1> QED
  BY <1>4, <1>5, <1>6 DEF ProviderInv

LEMMA StepProvider == ProviderInv /\ [App!Next]_app1193 => ProviderInv'
  BY AskStep, ReadSignerStep, HandleStep, WorldStep DEF App!Next, App!Handle

\* What an app asks for is done by the account that it has named, however many
\* signers the user has and whichever they select, and on whatever chain, while
\* it is handled.
THEOREM AlwaysAsNamed == MCSpec => []ActsAsNamed
<1>1. MCInit => ProviderInv
  BY InitProvider DEF MCInit
<1>2. ProviderInv /\ [MCNext]_<<vars, app1193, mode>> => ProviderInv'
  <2>1. [MCNext]_<<vars, app1193, mode>> => [App!Next]_app1193
    BY DEF MCNext
  <2> QED
    BY <2>1, StepProvider
<1>3. ProviderInv => ActsAsNamed
  BY DEF ProviderInv, ActsAsNamed
<1> QED
  BY <1>1, <1>2, <1>3, PTL DEF MCSpec

-----------------------------------------------------------------------------
(* One request at a time: nothing is refused that could have been done     *)

\* What the contracts keep to: a session is of an account that has the module, and
\* so has code.
Sound ==
  {ch \in Chain :
     /\ ch.module \subseteq ch.deployed
     /\ \A a \in Accounts \ ch.module, s \in Sessions : ch.status[a][s] = "NotInitialized"}

LEMMA ActivatedSound ==
  ASSUME NEW ch \in Sound, NEW a \in ch.module, NEW s \in Sessions
  PROVE  Activated(ch, a, s) \in Sound /\ Activated(ch, a, s).deployed = ch.deployed
<1> DEFINE of == [ch.status[a] EXCEPT ![s] = "Active"]
           status == [ch.status EXCEPT ![a] = of]
<1>1. Activated(ch, a, s) = [ch EXCEPT !.status = status]
  BY DEF Activated
<1>2. ch \in Chain /\ a \in Accounts
  BY DEF Sound, Chain
<1>3. of \in [Sessions -> SessionStatus]
  BY <1>2 DEF Chain, SessionStatus
<1>4. status \in [Accounts -> [Sessions -> SessionStatus]]
      /\ \A b \in Accounts : b # a => status[b] = ch.status[b]
  BY <1>2, <1>3 DEF Chain
<1> HIDE DEF of, status
<1>5. /\ Activated(ch, a, s) \in Chain
      /\ Activated(ch, a, s).deployed = ch.deployed
      /\ Activated(ch, a, s).module = ch.module
      /\ Activated(ch, a, s).status = status
  BY <1>1, <1>2, <1>4 DEF Chain
<1> QED
  BY <1>2, <1>4, <1>5 DEF Sound

LEMMA EffectSound ==
  ASSUME NEW ch \in Sound, NEW a \in ch.deployed, NEW call,
         Simple(call) \/ call.op = "nested",
         CreatedBy(call) \subseteq Sessions, NEW d \in Effect(ch, a, call)
  PROVE  d \in Sound /\ d.deployed = ch.deployed
<1>1. ch \in Chain /\ a \in Accounts
  BY DEF Sound, Chain
<1>2. CASE call.op = "plain"
  BY <1>2 DEF Effect
<1>3. CASE call.op = "addModule"
  <2> DEFINE with == [ch EXCEPT !.module = @ \cup {a}]
  <2>1. d = Activated(with, a, call.session) /\ call.session \in Sessions
    BY <1>3 DEF Effect, CreatedBy, Creates
  <2>2. with \in Sound /\ a \in with.module /\ with.deployed = ch.deployed
    BY <1>1 DEF Sound, Chain
  <2> HIDE DEF with
  <2> QED
    BY <2>1, <2>2, ActivatedSound
<1>4. CASE call.op = "createSession"
  <2>1. d = Activated(ch, a, call.session) /\ call.session \in Sessions /\ a \in ch.module
    BY <1>4 DEF Effect, CreatedBy, Creates
  <2> QED
    BY <2>1, ActivatedSound
<1>5. CASE call.op = "revokeKeys"
  <2> DEFINE of == [s \in Sessions |-> IF s \in call.sessions THEN "Closed"
                                       ELSE ch.status[a][s]]
             status == [ch.status EXCEPT ![a] = of]
  <2>1. d = [ch EXCEPT !.status = status] /\ \A s \in call.sessions : ch.status[a][s] = "Active"
    BY <1>5 DEF Effect
  <2>2. of \in [Sessions -> SessionStatus]
    BY <1>1 DEF Chain, SessionStatus
  <2>3. a \notin ch.module => \A s \in Sessions : of[s] = "NotInitialized"
    BY <1>1, <2>1 DEF Sound
  <2> HIDE DEF of
  <2>4. /\ status \in [Accounts -> [Sessions -> SessionStatus]]
        /\ status[a] = of
        /\ \A b \in Accounts : b # a => status[b] = ch.status[b]
    BY <1>1, <2>2 DEF Chain
  <2> HIDE DEF status
  <2>5. /\ d \in Chain
        /\ d.deployed = ch.deployed /\ d.module = ch.module /\ d.status = status
    BY <1>1, <2>1, <2>4 DEF Chain
  <2>6. \A b \in Accounts \ ch.module, s \in Sessions : status[b][s] = "NotInitialized"
    BY <1>1, <2>3, <2>4 DEF Sound
  <2> QED
    BY <2>5, <2>6 DEF Sound
<1>6. CASE call.op = "nested"
  <2> DEFINE of == [s \in Sessions |-> IF s \in call.sessions THEN "Active"
                                       ELSE ch.status[a][s]]
             status == [ch.status EXCEPT ![a] = of]
  <2>1. d = [ch EXCEPT !.status = status] /\ a \in ch.module
    BY <1>6 DEF Effect
  <2>2. of \in [Sessions -> SessionStatus]
    BY <1>1 DEF Chain, SessionStatus
  <2> HIDE DEF of
  <2>3. /\ status \in [Accounts -> [Sessions -> SessionStatus]]
        /\ \A b \in Accounts : b # a => status[b] = ch.status[b]
    BY <1>1, <2>2 DEF Chain
  <2> HIDE DEF status
  <2>4. /\ d \in Chain
        /\ d.deployed = ch.deployed /\ d.module = ch.module /\ d.status = status
    BY <1>1, <2>1, <2>3 DEF Chain
  <2>5. \A b \in Accounts \ ch.module, s \in Sessions : status[b][s] = "NotInitialized"
    BY <2>1, <2>3 DEF Sound
  <2>6. ch.module \subseteq ch.deployed
    BY DEF Sound
  <2> QED
    BY <2>4, <2>5, <2>6 DEF Sound
<1> QED
  BY <1>2, <1>3, <1>4, <1>5, <1>6 DEF Simple

\* A batch, as the recursive function on the places of its calls.
BatchFrom(ch, a, calls, it, s) ==
  IF s = {} THEN {ch} ELSE UNION {Effect(d, a, calls[Max(s)]) : d \in it[s \ {Max(s)}]}

LEMMA BatchUnfolds ==
  ASSUME NEW ch, NEW a, NEW call, call.op = "batch"
  PROVE  AccountEffects(ch, a, call) =
           (CHOOSE it : it = [s \in SUBSET (DOMAIN call.calls) |->
                                BatchFrom(ch, a, call.calls, it, s)])[DOMAIN call.calls]
  BY DEF AccountEffects, FoldLeft, MapThenFoldSet, BatchFrom

LEMMA LastIn ==
  ASSUME NEW n \in Nat, NEW s \in SUBSET (1..n), s # {}
  PROVE  Max(s) \in s
<1>1. \E x \in s : \A y \in s : x >= y
  BY GreatestNatural
<1> QED
  BY <1>1 DEF Max

LEMMA BatchSound ==
  ASSUME NEW ch \in Sound, NEW a \in ch.deployed, NEW call, call.op = "batch", Askable(call)
  PROVE  \A d \in AccountEffects(ch, a, call) : d \in Sound /\ d.deployed = ch.deployed
<1> DEFINE calls == call.calls
           S == DOMAIN calls
           States == {d \in Sound : d.deployed = ch.deployed}
           V == SUBSET States
           first == [s \in SUBSET S |-> Max(s)]
           g == [p \in S \X V |-> UNION {Effect(d, a, calls[p[1]]) : d \in p[2]}]
           jt == CHOOSE it : it = [s \in SUBSET S |-> BatchFrom(ch, a, calls, it, s)]
<1>0. AccountEffects(ch, a, call) = jt[S]
  BY BatchUnfolds, Zenon
<1>1. PICK n \in Nat : S = 1..n
  BY DEF Askable, Simple
<1>2. IsFiniteSet(S)
  BY <1>1, FS_Interval
<1>3. \A s \in SUBSET S : s # {} => first[s] = Max(s) /\ Max(s) \in s
  BY <1>1, LastIn
<1>4. \A k \in S : /\ Simple(calls[k]) \/ calls[k].op = "nested"
                  /\ CreatedBy(calls[k]) \subseteq Sessions
  BY DEF Askable, CreatedBy, Simple, Creates
<1>5. \A k \in S, D \in V : UNION {Effect(d, a, calls[k]) : d \in D} \in V
  BY <1>4, EffectSound
<1> HIDE DEF calls, S, V
<1>6. g \in [S \X V -> V]
  BY <1>5
<1>7. {ch} \in V
  BY DEF V
<1> HIDE DEF first, g
<1>8. PICK it \in [SUBSET S -> V] : IsFold(first, g, {ch}, it, S)
  <2>1. \A s \in SUBSET S : s # {} => first[s] \in s
    BY <1>3
  <2> QED
    BY <1>2, <1>6, <1>7, <2>1, FoldExists
<1>9. ASSUME NEW s \in SUBSET S
      PROVE  Folds(first, g, {ch}, it, s) = BatchFrom(ch, a, calls, it, s)
  <2>1. CASE s = {}
    BY <2>1 DEF Folds, BatchFrom
  <2>2. CASE s # {}
    <3>1. first[s] = Max(s) /\ Max(s) \in S /\ it[s \ {Max(s)}] \in V
      BY <1>3, <2>2
    <3>2. g[<<Max(s), it[s \ {Max(s)}]>>] =
            UNION {Effect(d, a, calls[Max(s)]) : d \in it[s \ {Max(s)}]}
      BY <3>1 DEF g
    <3> QED
      BY <2>2, <3>1, <3>2 DEF Folds, BatchFrom
  <2> QED
    BY <2>1, <2>2
<1>10. it = [s \in SUBSET S |-> BatchFrom(ch, a, calls, it, s)]
  BY <1>8, <1>9 DEF IsFold
<1>11. jt = [s \in SUBSET S |-> BatchFrom(ch, a, calls, jt, s)]
  BY <1>10
<1> HIDE DEF jt
<1>12. \A s \in SUBSET S : jt[s] \in V
  <2>1. jt[{}] = {ch}
    BY <1>11 DEF BatchFrom
  <2>2. ASSUME NEW s \in SUBSET S, s # {}, jt[s \ {first[s]}] \in V
        PROVE  jt[s] \in V
    <3>1. jt[s] = UNION {Effect(d, a, calls[Max(s)]) : d \in jt[s \ {Max(s)}]}
      BY <1>11, <2>2 DEF BatchFrom
    <3> DEFINE D == jt[s \ {Max(s)}]
               k == Max(s)
    <3>2. k \in S /\ D \in V
      BY <1>3, <2>2
    <3>3. jt[s] = UNION {Effect(d, a, calls[k]) : d \in D}
      BY <3>1
    <3> HIDE DEF D, k
    <3>4. UNION {Effect(d, a, calls[k]) : d \in D} \in V
      BY <1>5, <3>2
    <3> QED
      BY <3>3, <3>4
  <2>3. \A s \in SUBSET S : s # {} => first[s] \in s
    BY <1>3
  <2>4. jt[{}] \in V
    BY <1>7, <2>1
  <2> QED
    BY <1>2, <2>2, <2>3, <2>4, FoldTyped
<1> QED
  BY <1>0, <1>12 DEF V

\* Whatever is executed for a request leaves the contracts sound.
LEMMA EffectsSound ==
  ASSUME NEW ch \in Sound, NEW from, NEW call,
         \/ call.op = "deploy" /\ Askable(call.call) /\ AccountOf[call.salt] \in Accounts
         \/ call.op # "deploy" /\ Askable(call) /\ from \in ch.deployed
  PROVE  \A d \in Effects(ch, from, call) :
           /\ d \in Sound
           /\ d.deployed = IF call.op = "deploy" THEN ch.deployed \cup {AccountOf[call.salt]}
                           ELSE ch.deployed
<1>1. ASSUME NEW c2, Askable(c2), NEW ch2 \in Sound, NEW a \in ch2.deployed
      PROVE  \A d \in AccountEffects(ch2, a, c2) : d \in Sound /\ d.deployed = ch2.deployed
  <2>1. CASE c2.op = "batch"
    BY <1>1, <2>1, BatchSound
  <2>2. CASE c2.op # "batch"
    BY <1>1, <2>2, EffectSound DEF Askable, AccountEffects
  <2> QED
    BY <2>1, <2>2
<1>2. CASE call.op = "deploy"
  <2> DEFINE a == AccountOf[call.salt]
             ch2 == [ch EXCEPT !.deployed = @ \cup {a}]
  <2>1. a \in Accounts /\ Askable(call.call)
    BY <1>2
  <2>2. ch2 \in Sound /\ a \in ch2.deployed /\ ch2.deployed = ch.deployed \cup {a}
    BY <2>1 DEF Sound, Chain
  <2>3. \A d \in Effects(ch, from, call) : d \in AccountEffects(ch2, a, call.call)
    BY <1>2 DEF Effects
  <2> HIDE DEF ch2
  <2> QED
    BY <1>1, <1>2, <2>1, <2>2, <2>3
<1>3. CASE call.op # "deploy"
  BY <1>1, <1>3 DEF Effects
<1> QED
  BY <1>2, <1>3

\* A request under way, and alone.
Busy(c) == pc[c] # "idle" /\ ~Ended(c)
Alone(c) == \A d \in Requests \ {c} : ~Busy(d)

\* What a request has read of the chain and of the clock is still so.
Fits(r) == r.intent.kind = "create" => InnerCall(r.call) = SessionCall(r.intent.session)
Timely(r) == r.intent.kind = "session" => InPeriods(r)
Made(r) ==
  \/ wallet \in chain.deployed /\ r.from = wallet /\ r.call.op # "deploy"
  \/ /\ wallet \notin chain.deployed /\ r.from = SignerOf(r.intent)
     /\ r.call.op = "deploy" /\ r.call.salt = SignerOf(r.intent)

Current(r, there) ==
  /\ there = "hooks" => wallet \in chain.deployed
  /\ there \in {"prepare", "nonce"} \cup Prepared => Fits(r) /\ Timely(r)
  /\ there \in {"nonce"} \cup Prepared => Made(r)
  /\ there \in Prepared => r.nonce >= nonces[r.from]
  /\ there \in {"policies", "send", "sent"} => Effects(chain, r.from, r.call) # {}
  /\ there = "policies" => r.left \subseteq SessionsIn(r.intent, r.from, r.call)

SerialInv ==
  /\ chain \in Sound
  /\ \A c \in Requests : Busy(c) =>
       /\ Alone(c)
       /\ outcome[c] = "pending" => pc[c] = "sent"
       /\ Current(req[c], pc[c])

Refused(c) ==
  \/ pc'[c] = "failed" /\ pc[c] # "failed"
  \/ outcome[c] = "pending" /\ outcome'[c] \in {"reverted", "dropped"}

\* What there is to show about a step.
Grants ==
  /\ SerialInv'
  /\ \A c \in Requests : Refused(c) => ~Possible(req'[c].intent)

\* What is possible is the call that was prepared, and nothing that it creates is
\* missing in the registry.
LEMMA PossibleIsMade ==
  ASSUME chain \in Sound, NEW r, r.intent \in Intents, Asks(r.intent, InnerCall(r.call)),
         Fits(r), Made(r), Possible(r.intent)
  PROVE  /\ Effects(chain, r.from, r.call) # {}
         /\ \A s \in SessionsIn(r.intent, r.from, r.call) :
              Constrained(Config[s]) /\ Allowed(Config[s], registry)
<1> DEFINE i == r.intent
           with == [chain EXCEPT !.deployed = @ \cup {wallet}]
           inner == InnerCall(r.call)
<1>1. PICK call \in CallsFor(i) :
        /\ AccountEffects(with, wallet, call) # {}
        /\ wallet \in chain.deployed =>
             \A s \in CreatedBy(call) : Constrained(Config[s]) /\ s \in AllowedNow
  BY DEF Possible
<1>2. i \in Intents /\ i.kind \in {"send", "batch", "revoke", "create", "deploy", "session"}
  BY IntentsAssumption
<1>3. Askable(inner) /\ inner.op # "deploy"
  BY AskedIsAskable
<1>4. with.module = chain.module /\ chain \in Chain
  BY DEF Sound, Chain
<1>5. call = inner
  <2>1. CASE i.kind = "create"
    <3>1. inner = SessionCall(i.session)
      BY <2>1 DEF Fits
    <3>2. call \in {AddModule(i.session), CreateSession(i.session)}
      BY <2>1 DEF CallsFor
    <3>3. call.op \in {"addModule", "createSession"}
      BY <3>2 DEF AddModule, CreateSession
    <3>4. Effect(with, wallet, call) # {}
      BY <1>1, <3>3 DEF AccountEffects
    <3>5. call.op = "addModule" => wallet \notin with.module
      BY <3>4 DEF Effect
    <3>6. call.op = "createSession" => wallet \in with.module
      BY <3>4 DEF Effect
    <3> HIDE DEF with
    <3> QED
      BY <1>4, <3>1, <3>2, <3>5, <3>6 DEF SessionCall, AddModule, CreateSession
  <2>2. CASE i.kind # "create"
    BY <1>1, <1>2, <2>2 DEF CallsFor, Asks
  <2> QED
    BY <2>1, <2>2
<1>6. CASE wallet \in chain.deployed
  <2>1. r.from = wallet /\ r.call.op # "deploy" /\ r.call = inner
    BY <1>6 DEF Made, InnerCall
  <2>2. with = chain
    BY <1>4, <1>6 DEF Chain
  <2>3. Effects(chain, r.from, r.call) # {}
    BY <1>1, <1>5, <2>1, <2>2 DEF Effects
  <2>4. SessionsIn(r.intent, r.from, r.call) \subseteq CreatedBy(r.call)
    BY <2>1 DEF SessionsIn, SessionIn, CreatedBy, Creates
  <2> QED
    BY <1>1, <1>5, <1>6, <2>1, <2>3, <2>4 DEF AllowedNow
<1>7. CASE wallet \notin chain.deployed
  <2>1. wallet \in Accounts /\ wallet \notin chain.module
    BY <1>7, ClientAssumption DEF Sound, wallet, Accounts
  <2>2. i.kind # "session"
    <3>1. i.kind = "session" => i.session \in Sessions /\ chain.status[wallet][i.session] = "Active"
      BY <1>2, IntentsAssumption DEF Possible
    <3> QED
      BY <2>1, <3>1 DEF Sound
  <2>3. r.call.op = "deploy" /\ AccountOf[r.call.salt] = wallet /\ r.call.call = inner
    BY <1>7, <2>2 DEF Made, SignerOf, wallet, InnerCall
  <2>4. Effects(chain, r.from, r.call) = AccountEffects(with, wallet, inner)
    BY <1>7, <2>3 DEF Effects
  <2>5. SessionsIn(r.intent, r.from, r.call) = {}
    BY <2>3 DEF SessionsIn, SessionIn
  <2> QED
    BY <1>1, <1>5, <2>4, <2>5
<1> QED
  BY <1>6, <1>7

LEMMA PossibleIsValid ==
  ASSUME chain \in Sound, NEW r, r.intent \in Intents, Made(r), Timely(r), Possible(r.intent)
  PROVE  Valid(r)
<1>1. SignerOf(r.intent) \in Signers
  BY IntentsAssumption, ClientAssumption DEF SignerOf
<1>2. r.from \in Accounts => r.from = wallet /\ wallet \in chain.deployed
  BY <1>1, ClientAssumption DEF Made
<1>3. r.intent.kind = "session" /\ wallet \in Accounts =>
        /\ chain.status[wallet][r.intent.session] = "Active"
        /\ now <= Config[r.intent.session].expiresAt
        /\ wallet \in chain.module
  BY IntentsAssumption DEF Possible, Sound
<1> QED
  BY <1>2, <1>3 DEF Valid, Timely

\* A step of one request before its transaction is sent.
LEMMA OneServed ==
  ASSUME Inv, chain \in Sound, NEW c \in Requests, Alone(c), outcome[c] # "pending",
         NEW r, NEW there,
         req' = [req EXCEPT ![c] = r], pc' = [pc EXCEPT ![c] = there],
         UNCHANGED <<chain, nonces, now, outcome>>, there # "sent",
         there \notin {"done", "failed"} => Current(r, there),
         there = "failed" => ~Possible(r.intent)
  PROVE  Grants
<1>1. req'[c] = r /\ pc'[c] = there /\ outcome'[c] # "pending"
  BY DEF Inv, TypeOK
<1>2. ASSUME NEW d \in Requests \ {c} PROVE pc'[d] = pc[d] /\ outcome'[d] = outcome[d]
  BY DEF Inv, TypeOK
<1>3. \A d \in Requests \ {c} : ~Busy(d)'
  BY <1>2 DEF Alone, Busy, Ended
<1>4. there \notin {"done", "failed"} => Current(r, there)'
  BY DEF Current, Fits, Timely, Made, InPeriods, SessionCall
<1>5. SerialInv'
  BY <1>1, <1>3, <1>4 DEF SerialInv, Alone, Busy, Ended
<1>6. ASSUME NEW d \in Requests, Refused(d) PROVE ~Possible(req'[d].intent)
  BY <1>1, <1>2, <1>6 DEF Refused
<1> QED
  BY <1>5, <1>6 DEF Grants

LEMMA BeginServed ==
  ASSUME Inv, chain \in Sound, NEW c \in Requests, Alone(c), NEW i \in Intents, Begin(c, i)
  PROVE  Grants
<1>1. outcome[c] # "pending" /\ UNCHANGED <<chain, nonces, now, outcome>>
  BY DEF Begin, Inv, Placed, Unprepared, external
<1>2. ASSUME NEW call, NEW there \in {"prepare", "code", "factory"}, Begins(c, i, call, there),
             there = "prepare" => i.kind \notin {"create", "session"}
      PROVE  Grants
  <2> DEFINE r == [NoRequest EXCEPT !.intent = i, !.call = call]
  <2>1. r.intent = i
    BY DEF NoRequest
  <2>2. req' = [req EXCEPT ![c] = r] /\ pc' = [pc EXCEPT ![c] = there]
    BY <1>2 DEF Begins, Holding, Goto
  <2> HIDE DEF r
  <2>3. Current(r, there)
    BY <1>2, <2>1 DEF Current, Fits, Timely, Prepared
  <2> QED
    BY <1>1, <2>2, <2>3, OneServed
<1> QED
  BY <1>2 DEF Begin

LEMMA BeginSessionServed ==
  ASSUME Inv, chain \in Sound, NEW c \in Requests, Alone(c), NEW i \in Intents,
         BeginSession(c, i)
  PROVE  Grants
<1>1. /\ outcome[c] # "pending" /\ UNCHANGED <<chain, nonces, now, outcome>>
      /\ i.kind = "session"
  BY DEF BeginSession, Inv, Placed, Unprepared, external
<1> DEFINE q == [NoRequest EXCEPT !.intent = i, !.call = i.call]
<1>2. q.intent = i /\ q.call = i.call /\ DOMAIN q = {"intent", "call", "from", "nonce", "ids", "left"}
  BY DEF NoRequest
<1>3. \/ PoliciesFor(Config[i.session], i.call) = {} /\ Holding(c, q) /\ Goto(c, "failed")
      \/ \E p \in PoliciesFor(Config[i.session], i.call) :
           /\ Holding(c, [q EXCEPT !.ids = PeriodIds(Config[i.session], p, i.call, now)])
           /\ Goto(c, "prepare")
  BY DEF BeginSession
<1> HIDE DEF q
<1>4. CASE PoliciesFor(Config[i.session], i.call) = {} /\ Holding(c, q) /\ Goto(c, "failed")
  <2>1. ~Possible(q.intent)
    BY <1>1, <1>2, <1>4 DEF Possible
  <2> QED
    BY <1>1, <1>4, <2>1, OneServed DEF Holding, Goto
<1>5. ASSUME NEW p \in PoliciesFor(Config[i.session], i.call),
             Holding(c, [q EXCEPT !.ids = PeriodIds(Config[i.session], p, i.call, now)]),
             Goto(c, "prepare")
      PROVE  Grants
  <2> DEFINE ids == PeriodIds(Config[i.session], p, i.call, now)
             r == [q EXCEPT !.ids = ids]
  <2>1. r.intent = i /\ r.ids = ids
    BY <1>2
  <2>2. req' = [req EXCEPT ![c] = r] /\ pc' = [pc EXCEPT ![c] = "prepare"]
    BY <1>5 DEF Holding, Goto
  <2> HIDE DEF r
  <2>3. Current(r, "prepare")
    BY <1>1, <2>1 DEF Current, Fits, Timely, InPeriods, Prepared
  <2> QED
    BY <1>1, <2>2, <2>3, OneServed
<1> QED
  BY <1>3, <1>4, <1>5

LEMMA ReadsServed ==
  ASSUME Inv, SerialInv, NEW c \in Requests, ReadCode(c) \/ ReadHooks(c) \/ ReadFactory(c)
  PROVE  Grants
<1> DEFINE q == req[c]
           s == q.intent.session
<1>1. /\ outcome[c] # "pending" /\ UNCHANGED <<chain, nonces, now, outcome>>
      /\ pc[c] \in {"code", "hooks"} => q.intent.kind = "create"
      /\ pc[c] = "factory" => q.intent.kind = "deploy"
  BY DEF ReadCode, ReadHooks, ReadFactory, unsent, external, Inv, Placed, Unprepared
<1>2. chain \in Sound /\ Alone(c)
  BY DEF ReadCode, ReadHooks, ReadFactory, SerialInv, Busy, Ended
<1>3. DOMAIN q = {"intent", "call", "from", "nonce", "ids", "left"}
  BY DEF Inv, TypeOK, NoRequest
<1>4. ASSUME Holding(c, [q EXCEPT !.call = SessionCall(s)]), Goto(c, "prepare"),
             q.intent.kind = "create"
      PROVE  Grants
  <2> DEFINE r == [q EXCEPT !.call = SessionCall(s)]
  <2>1. r.intent = q.intent /\ r.call = SessionCall(s)
    BY <1>3
  <2>2. InnerCall(r.call) = SessionCall(s)
    BY <2>1 DEF InnerCall, SessionCall, AddModule, CreateSession
  <2>3. req' = [req EXCEPT ![c] = r] /\ pc' = [pc EXCEPT ![c] = "prepare"]
    BY <1>4 DEF Holding, Goto
  <2> HIDE DEF r
  <2>4. Current(r, "prepare")
    BY <1>4, <2>1, <2>2 DEF Current, Fits, Timely, Prepared
  <2> QED
    BY <1>1, <1>2, <2>3, <2>4, OneServed
<1>5. ASSUME UNCHANGED req, NEW there \in {"hooks", "done"}, Goto(c, there),
             there = "hooks" => wallet \in chain.deployed
      PROVE  Grants
  <2>1. req' = [req EXCEPT ![c] = q]
    BY <1>5 DEF Inv, TypeOK, Indexed
  <2>2. Current(q, there)
    BY <1>5 DEF Current, Prepared
  <2> HIDE DEF q
  <2> QED
    BY <1>1, <1>2, <1>5, <2>1, <2>2, OneServed DEF Goto
<1>6. ASSUME wallet \notin chain.deployed, Goto(c, "nonce"), q.intent.kind = "deploy",
             Holding(c, [q EXCEPT !.call = Deploy(owner, Plain(None, NoSelector)),
                                  !.from = owner])
      PROVE  Grants
  <2> DEFINE r == [q EXCEPT !.call = Deploy(owner, Plain(None, NoSelector)), !.from = owner]
  <2>1. /\ r.intent = q.intent /\ r.from = owner
        /\ r.call = Deploy(owner, Plain(None, NoSelector))
    BY <1>3
  <2>2. r.call.op = "deploy" /\ r.call.salt = owner
    BY <2>1 DEF Deploy
  <2>3. req' = [req EXCEPT ![c] = r] /\ pc' = [pc EXCEPT ![c] = "nonce"]
    BY <1>6 DEF Holding, Goto
  <2> HIDE DEF r
  <2>4. Current(r, "nonce")
    BY <1>6, <2>1, <2>2 DEF Current, Fits, Timely, Made, Prepared, SignerOf
  <2> QED
    BY <1>1, <1>2, <2>3, <2>4, OneServed
<1>7. CASE ReadCode(c)
  <2>1. wallet \notin chain.deployed => SessionCall(s) = AddModule(s)
    BY <1>2 DEF Sound, SessionCall
  <2> QED
    BY <1>1, <1>4, <1>5, <1>7, <2>1 DEF ReadCode
<1>8. CASE ReadHooks(c)
  BY <1>1, <1>4, <1>8 DEF ReadHooks
<1>9. CASE ReadFactory(c)
  BY <1>1, <1>5, <1>6, <1>9 DEF ReadFactory
<1> QED
  BY <1>7, <1>8, <1>9

LEMMA PrepareServed ==
  ASSUME Inv, SerialInv, NEW c \in Requests, Prepare(c)
  PROVE  Grants
<1> DEFINE q == req[c]
           k == SignerOf(q.intent)
           r == Wrapped(q)
<1>1. /\ outcome[c] # "pending" /\ UNCHANGED <<chain, nonces, now, outcome>>
      /\ Asks(q.intent, q.call) /\ q.intent \in Intents
      /\ DOMAIN q = {"intent", "call", "from", "nonce", "ids", "left"}
  BY DEF Prepare, unsent, external, Inv, TypeOK, NoRequest, Placed, Unprepared
<1>2. chain \in Sound /\ Alone(c) /\ Fits(q) /\ Timely(q)
  BY DEF Prepare, SerialInv, Busy, Ended, Current
<1>3. q.call.op # "deploy" /\ InnerCall(q.call) = q.call
  BY <1>1, AskedIsAskable DEF InnerCall
<1>4. r.intent = q.intent /\ r.ids = q.ids /\ InnerCall(r.call) = q.call /\ Made(r)
  <2>1. CASE wallet \in chain.deployed
    <3>1. r = [q EXCEPT !.from = wallet]
      BY <2>1 DEF Wrapped
    <3>2. r.intent = q.intent /\ r.ids = q.ids /\ r.call = q.call /\ r.from = wallet
      BY <1>1, <3>1
    <3> HIDE DEF r
    <3> QED
      BY <1>3, <2>1, <3>2 DEF Made
  <2>2. CASE wallet \notin chain.deployed
    <3>1. r = [q EXCEPT !.from = k, !.call = Deploy(k, q.call)]
      BY <2>2 DEF Wrapped
    <3>2. r.intent = q.intent /\ r.ids = q.ids /\ r.call = Deploy(k, q.call) /\ r.from = k
      BY <1>1, <3>1
    <3> HIDE DEF r
    <3>3. r.call.op = "deploy" /\ r.call.salt = k /\ InnerCall(r.call) = q.call
      BY <3>2 DEF Deploy, InnerCall
    <3> QED
      BY <2>2, <3>2, <3>3 DEF Made
  <2> QED
    BY <2>1, <2>2
<1>5. req' = [req EXCEPT ![c] = r] /\ pc' = [pc EXCEPT ![c] = "nonce"]
  BY DEF Prepare, Holding, Goto
<1> HIDE DEF r
<1>6. Current(r, "nonce")
  BY <1>2, <1>3, <1>4 DEF Current, Fits, Timely, InPeriods, Prepared
<1> QED
  BY <1>1, <1>2, <1>5, <1>6, OneServed

\* What is current stays so when only the nonce, or what is left to look up, is set.
LEMMA StillCurrent ==
  ASSUME NEW q, NEW r, r.intent = q.intent, r.ids = q.ids, r.call = q.call, r.from = q.from,
         Fits(q), Timely(q), Made(q)
  PROVE  Fits(r) /\ Timely(r) /\ Made(r)
  BY DEF Fits, Timely, InPeriods, Made

LEMMA DrawServed ==
  ASSUME Inv, SerialInv, NEW c \in Requests, DrawNonce(c)
  PROVE  Grants
<1> DEFINE q == req[c]
<1>1. /\ outcome[c] # "pending" /\ UNCHANGED <<chain, nonces, now, outcome>>
      /\ q.from \in Addresses
      /\ DOMAIN q = {"intent", "call", "from", "nonce", "ids", "left"}
  BY DEF DrawNonce, unsent, external, Inv, TypeOK, NoRequest, Placed, Unprepared, Ready
<1>2. chain \in Sound /\ Alone(c) /\ Fits(q) /\ Timely(q) /\ Made(q)
  BY DEF DrawNonce, SerialInv, Busy, Ended, Current
<1>3. /\ PendingCount(q.from) \in Nat /\ PendingCount(q.from) >= nonces[q.from]
      /\ nonces[q.from] \in Nat /\ manager[q.from] \in Nat
  BY <1>1, PendingCountType DEF Inv, TypeOK
<1>4. PICK n \in Nat : n >= nonces[q.from] /\ req' = [req EXCEPT ![c] = [q EXCEPT !.nonce = n]]
  BY <1>3 DEF DrawNonce, Holding, Consumed
<1> DEFINE r == [q EXCEPT !.nonce = n]
<1>5. /\ r.intent = q.intent /\ r.ids = q.ids /\ r.call = q.call /\ r.from = q.from
      /\ r.nonce = n /\ req' = [req EXCEPT ![c] = r]
  BY <1>1, <1>4
<1>6. pc' = [pc EXCEPT ![c] = "estimate"]
  BY DEF DrawNonce, Goto
<1> HIDE DEF r, q
<1>7. Fits(r) /\ Timely(r) /\ Made(r)
  BY <1>2, <1>5, StillCurrent
<1>8. Current(r, "estimate")
  BY <1>4, <1>5, <1>7 DEF Current
<1> QED
  BY <1>1, <1>2, <1>5, <1>6, <1>8, OneServed

LEMMA EstimateServed ==
  ASSUME Inv, SerialInv, NEW c \in Requests, Estimate(c)
  PROVE  Grants
<1> DEFINE q == req[c]
           S == SessionsIn(q.intent, q.from, q.call)
<1>1. /\ UNCHANGED <<chain, nonces, now, outcome>> /\ pc[c] = "estimate"
      /\ q.intent \in Intents /\ Asks(q.intent, InnerCall(q.call))
      /\ DOMAIN q = {"intent", "call", "from", "nonce", "ids", "left"}
  BY DEF Estimate, unsent, external, Inv, TypeOK, NoRequest, Placed, Prepared, Ready
<1>2. /\ chain \in Sound /\ Alone(c) /\ outcome[c] # "pending"
      /\ Fits(q) /\ Timely(q) /\ Made(q) /\ q.nonce >= nonces[q.from]
  BY <1>1 DEF SerialInv, Busy, Ended, Current, Prepared
<1>3. ASSUME Effects(chain, q.from, q.call) # {}, NEW there \in {"send", "policies"},
             Holding(c, [q EXCEPT !.left = S]), Goto(c, there)
      PROVE  Grants
  <2> DEFINE r == [q EXCEPT !.left = S]
  <2>1. /\ r.intent = q.intent /\ r.ids = q.ids /\ r.call = q.call /\ r.from = q.from
        /\ r.nonce = q.nonce /\ r.left = SessionsIn(q.intent, q.from, q.call)
    BY <1>1
  <2>2. req' = [req EXCEPT ![c] = r] /\ pc' = [pc EXCEPT ![c] = there]
    BY <1>3 DEF Holding, Goto
  <2> HIDE DEF r, q
  <2>3. Fits(r) /\ Timely(r) /\ Made(r)
    BY <1>2, <2>1, StillCurrent
  <2>4. Current(r, there)
    BY <1>2, <1>3, <2>1, <2>3 DEF Current
  <2> QED
    BY <1>1, <1>2, <2>2, <2>4, OneServed
<1>4. ASSUME Effects(chain, q.from, q.call) = {}, Goto(c, "failed"), UNCHANGED req
      PROVE  Grants
  <2>1. ~Possible(q.intent)
    BY <1>1, <1>2, <1>4, PossibleIsMade
  <2>2. req' = [req EXCEPT ![c] = q]
    BY <1>4 DEF Inv, TypeOK, Indexed
  <2> HIDE DEF q
  <2> QED
    BY <1>1, <1>2, <1>4, <2>1, <2>2, OneServed DEF Goto
<1> QED
  BY <1>3, <1>4 DEF Estimate

LEMMA CheckServed ==
  ASSUME Inv, SerialInv, NEW c \in Requests, CheckPolicies(c)
  PROVE  Grants
<1> DEFINE q == req[c]
<1>1. /\ UNCHANGED <<chain, nonces, now, outcome>> /\ pc[c] = "policies"
      /\ q.intent \in Intents /\ Asks(q.intent, InnerCall(q.call))
      /\ DOMAIN q = {"intent", "call", "from", "nonce", "ids", "left"}
  BY DEF CheckPolicies, unsent, external, Inv, TypeOK, NoRequest, Placed, Prepared, Ready
<1>2. /\ chain \in Sound /\ Alone(c) /\ outcome[c] # "pending"
      /\ Fits(q) /\ Timely(q) /\ Made(q) /\ q.nonce >= nonces[q.from]
      /\ Effects(chain, q.from, q.call) # {} /\ q.left \subseteq SessionsIn(q.intent, q.from, q.call)
  BY <1>1 DEF SerialInv, Busy, Ended, Current, Prepared
<1>3. ASSUME UNCHANGED req, NEW there \in {"send", "failed"}, Goto(c, there),
             there = "failed" => ~Possible(q.intent)
      PROVE  Grants
  <2>1. req' = [req EXCEPT ![c] = q]
    BY <1>3 DEF Inv, TypeOK, Indexed
  <2> HIDE DEF q
  <2>2. there = "send" => Current(q, there)
    BY <1>2 DEF Current
  <2> QED
    BY <1>1, <1>2, <1>3, <2>1, <2>2, OneServed DEF Goto
<1>4. ASSUME NEW s \in q.left, ~Constrained(Config[s]) \/ ~Allowed(Config[s], registry)
      PROVE  ~Possible(q.intent)
  BY <1>1, <1>2, <1>4, PossibleIsMade
<1>5. ASSUME NEW s \in q.left, Holding(c, [q EXCEPT !.left = @ \ {s}]), UNCHANGED pc
      PROVE  Grants
  <2> DEFINE r == [q EXCEPT !.left = q.left \ {s}]
  <2>1. /\ r.intent = q.intent /\ r.ids = q.ids /\ r.call = q.call /\ r.from = q.from
        /\ r.nonce = q.nonce /\ r.left \subseteq q.left
    BY <1>1
  <2>2. req' = [req EXCEPT ![c] = r] /\ pc' = [pc EXCEPT ![c] = "policies"]
    BY <1>1, <1>5 DEF Holding, Inv, TypeOK
  <2> HIDE DEF r, q
  <2>3. Fits(r) /\ Timely(r) /\ Made(r)
    BY <1>2, <2>1, StillCurrent
  <2>4. Current(r, "policies")
    BY <1>2, <2>1, <2>3 DEF Current
  <2> QED
    BY <1>1, <1>2, <2>2, <2>4, OneServed
<1> QED
  BY <1>3, <1>4, <1>5 DEF CheckPolicies

\* Its transaction is sent, in turn, and stays possible until it is mined.
LEMMA SendServed ==
  ASSUME Inv, SerialInv, NEW c \in Requests, Send(c), pc'[c] # "failed"
  PROVE  Grants
<1>1. /\ UNCHANGED <<chain, nonces, now, req>> /\ pc[c] = "send"
      /\ outcome' = [outcome EXCEPT ![c] = "pending"] /\ pc' = [pc EXCEPT ![c] = "sent"]
  BY DEF Send, Goto, Inv, TypeOK
<1>2. chain \in Sound /\ Alone(c) /\ outcome[c] # "pending" /\ Current(req[c], "send")
  BY <1>1 DEF SerialInv, Busy, Ended
<1>3. pc'[c] = "sent" /\ outcome'[c] = "pending"
  BY <1>1 DEF Inv, TypeOK
<1>4. ASSUME NEW d \in Requests \ {c} PROVE pc'[d] = pc[d] /\ outcome'[d] = outcome[d]
  BY <1>1 DEF Inv, TypeOK
<1>5. \A d \in Requests \ {c} : ~Busy(d)'
  BY <1>2, <1>4 DEF Alone, Busy, Ended
<1>6. Current(req[c], "sent")'
  BY <1>1, <1>2 DEF Current, Fits, Timely, Made, InPeriods, SessionCall, Prepared
<1>7. SerialInv'
  BY <1>1, <1>2, <1>3, <1>5, <1>6 DEF SerialInv, Alone, Busy, Ended
<1> QED
  BY <1>1, <1>2, <1>3, <1>4, <1>7 DEF Grants, Refused

LEMMA SettledServed ==
  ASSUME Inv, SerialInv, NEW c \in Requests, Mine(c) \/ Drop(c)
  PROVE  Grants
<1> DEFINE q == req[c]
<1>1. /\ UNCHANGED <<req, pc>> /\ outcome[c] = "pending"
      /\ \E o \in {"success", "reverted", "dropped"} : outcome' = [outcome EXCEPT ![c] = o]
  BY DEF Mine, Drop
<1>2. pc[c] # "idle"
  BY <1>1 DEF Inv, Placed, Unprepared
<1>3. chain \in Sound /\ Alone(c) /\ Current(q, "sent") /\ pc[c] = "sent"
  BY <1>1, <1>2 DEF SerialInv, Busy, Ended
<1>4. /\ q.intent \in Intents /\ Asks(q.intent, InnerCall(q.call)) /\ q.from \in Addresses
      /\ Fits(q) /\ Timely(q) /\ Made(q) /\ Effects(chain, q.from, q.call) # {}
      /\ q.nonce >= nonces[q.from] /\ q.nonce \in Nat /\ nonces[q.from] \in Nat
  BY <1>1, <1>3, ClientAssumption DEF Inv, TypeOK, Placed, Prepared, Ready, Current
<1>5. /\ outcome'[c] \in {"success", "reverted", "dropped"}
      /\ \A d \in Requests \ {c} : outcome'[d] = outcome[d]
  BY <1>1 DEF Inv, TypeOK
<1>6. \A d \in Requests : ~Busy(d)'
  BY <1>1, <1>3, <1>5 DEF Alone, Busy, Ended
<1>7. chain' \in Sound
  <2>1. CASE UNCHANGED chain
    BY <1>3, <2>1
  <2>2. CASE chain' \in Effects(chain, q.from, q.call)
    <3>1. Askable(InnerCall(q.call))
      BY <1>4, AskedIsAskable
    <3>2. SignerOf(q.intent) \in Signers
      BY <1>4, IntentsAssumption, ClientAssumption DEF SignerOf
    <3>3. \/ q.call.op = "deploy" /\ Askable(q.call.call) /\ AccountOf[q.call.salt] \in Accounts
          \/ q.call.op # "deploy" /\ Askable(q.call) /\ q.from \in chain.deployed
      BY <1>4, <3>1, <3>2 DEF Made, InnerCall, Accounts
    <3> QED
      BY <1>3, <2>2, <3>3, EffectsSound
  <2> QED
    BY <2>1, <2>2 DEF Mine, Drop
<1>8. outcome'[c] = "reverted" => ~Possible(q.intent)
  BY <1>4, <1>5 DEF Mine, Drop, Inv, TypeOK
<1>9. outcome'[c] = "dropped" => ~Possible(q.intent)
  <2>1. Mine(c) => outcome'[c] \in {"success", "reverted"}
    BY DEF Mine, Inv, TypeOK
  <2>2. Drop(c) => ~Valid(q)
    BY <1>4 DEF Drop
  <2> QED
    BY <1>3, <1>4, <2>1, <2>2, PossibleIsValid
<1>10. SerialInv'
  BY <1>6, <1>7 DEF SerialInv
<1>11. ASSUME NEW d \in Requests, Refused(d) PROVE ~Possible(req'[d].intent)
  BY <1>1, <1>5, <1>8, <1>9, <1>11 DEF Refused
<1> QED
  BY <1>10, <1>11 DEF Grants

\* Between two requests.
LEMMA QuietServed ==
  ASSUME Inv, SerialInv, UNCHANGED vars \/ (Quiet /\ (Tick \/
           \E k \in DOMAIN registry, v \in {"Allowed", "Denied"} : SetStatus(k, v)))
  PROVE  Grants
<1>1. UNCHANGED <<chain, req, pc, outcome>>
  BY DEF vars, Tick, SetStatus
<1>2. CASE UNCHANGED vars
  BY <1>2 DEF vars, Grants, Refused, SerialInv, Alone, Busy, Ended, Current, Fits, Timely, Made,
              InPeriods, SessionCall
<1>3. CASE Quiet
  <2>1. \A d \in Requests : ~Busy(d)'
    BY <1>1, <1>3 DEF Quiet, Busy, Ended
  <2>2. SerialInv'
    BY <1>1, <2>1 DEF SerialInv
  <2> QED
    BY <1>1, <2>2 DEF Grants, Refused
<1> QED
  BY <1>2, <1>3

LEMMA SerialServed ==
  ASSUME Inv, SerialInv, SerialNext \/ UNCHANGED vars
  PROVE  Grants
<1>1. ASSUME Quiet, NEW c \in Requests, Start(c)
      PROVE  Grants
  <2>1. chain \in Sound /\ Alone(c)
    BY <1>1 DEF SerialInv, Alone, Quiet, Busy
  <2> QED
    BY <1>1, <2>1, BeginServed, BeginSessionServed DEF Start
<1>2. ASSUME NEW c \in Requests, Step(c), ~(pc[c] = "send" /\ pc'[c] = "failed")
      PROVE  Grants
  <2>1. Send(c) => pc'[c] # "failed"
    BY <1>2 DEF Send
  <2> QED
    BY <1>2, <2>1, ReadsServed, PrepareServed, DrawServed, EstimateServed, CheckServed,
       SendServed, SettledServed DEF Step
<1> QED
  BY <1>1, <1>2, QuietServed DEF SerialNext

\* When requests come one at a time, what the chain could have granted is neither
\* refused nor reverted nor dropped: what a request has read, and computed from the
\* clock, still holds when its transaction is executed.  For any configurations of
\* sessions and any calls.
THEOREM PossibleIsDone == MCSpec => SerialSucceeds
<1> DEFINE I == Inv /\ (Serial => SerialInv)
<1>1. MCInit => I
  <2>1. Init => SerialInv
    BY DEF Init, SerialInv, Sound, Busy
  <2> QED
    BY <2>1, InitPlaced DEF MCInit
<1>2. ASSUME I, [MCNext]_<<vars, app1193, mode>>
      PROVE  /\ I'
             /\ Serial => \A c \in Requests : Refused(c) => ~Possible(req'[c].intent)
  <2>1. [Next]_vars
    BY <1>2 DEF MCNext, SerialNext, Next
  <2>2. Serial' = Serial
    BY <1>2 DEF MCNext, Serial
  <2>3. Serial => SerialNext \/ UNCHANGED vars
    BY <1>2 DEF MCNext, Serial
  <2> QED
    BY <1>2, <2>1, <2>2, <2>3, NextPlaced, SerialServed DEF Grants
<1> DEFINE A == Serial => \A c \in Requests :
                  (pc'[c] = "failed" /\ pc[c] # "failed") \/
                  (outcome[c] = "pending" /\ outcome'[c] \in {"reverted", "dropped"}) =>
                    ~Possible(req'[c].intent)
<1>3. I /\ [MCNext]_<<vars, app1193, mode>> => [A]_vars
  BY <1>2 DEF Refused
<1> HIDE DEF I
<1>4. I /\ [MCNext]_<<vars, app1193, mode>> => I'
  BY <1>2 DEF I
<1> QED
  BY <1>1, <1>3, <1>4, PTL DEF MCSpec, SerialSucceeds
=============================================================================
