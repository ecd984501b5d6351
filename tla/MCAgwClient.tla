---------------------------- MODULE MCAgwClient ----------------------------
(***************************************************************************)
(* One wallet and one session key; two requests, one after the other in a  *)
(* serial behaviour, both at once in any other; or the provider of an app, *)
(* on a device that can sign with both keys.                               *)
(***************************************************************************)
EXTENDS AgwClient, TLC

CONSTANTS r1, r2, s1, s2, s3, key, account, keyAccount, app, spender, friend, approve, mint

TwoRequests == {r1, r2}
ThreeSessions == {s1, s2, s3}
TwoAccounts == owner :> account @@ key :> keyAccount
RestrictedSelectors == {approve}

Unlimited == [type |-> "Unlimited", period |-> 0]
Lifetime == [type |-> "Lifetime", period |-> 0]
Allowance(n) == [type |-> "Allowance", period |-> n]
Constraint(i, cond, r, l) == [index |-> i, condition |-> cond, ref |-> r, limit |-> l]

Approval(constraints) ==
  [target |-> app, selector |-> approve, value |-> Lifetime, constraints |-> constraints]

\* s1 may approve one spender, in amounts per period; s2 may send value to a
\* friend; s3 may approve anybody.
Configs ==
  s1 :> [signer |-> key, expiresAt |-> 0, fee |-> Unlimited, transfer |-> {},
         call |-> {Approval(<<Constraint(0, "Equal", spender, Unlimited),
                              Constraint(1, "Less", None, Allowance(2))>>)}]
  @@ s2 :> [signer |-> key, expiresAt |-> 1, fee |-> Allowance(1), call |-> {},
            transfer |-> {[target |-> friend, value |-> Lifetime]}]
  @@ s3 :> [signer |-> key, expiresAt |-> 1, fee |-> Unlimited, transfer |-> {},
            call |-> {Approval(<<Constraint(0, "Less", spender, Unlimited)>>)}]

\* What creates a session is written as the client's constants are, or not; or it
\* lies in a batch, or in a batch of a batch.
SomeIntents ==
  {[kind |-> "send", call |-> Plain(app, mint), spelt |-> {}],
   [kind |-> "send", call |-> CreateSession(s3), spelt |-> {}],
   [kind |-> "send", call |-> Batch(<<AddModule(s2), Nested({s3})>>),
    spelt |-> {"to"}],
   [kind |-> "batch", calls |-> <<CreateSession(s2), Plain(app, mint)>>, spelt |-> {"account"}],
   [kind |-> "revoke", session |-> s1],
   [kind |-> "session", session |-> s1, call |-> Plain(app, approve)],
   [kind |-> "session", session |-> s2, call |-> Plain(friend, NoSelector)],
   [kind |-> "deploy"]}
  \cup {[kind |-> "create", session |-> s] : s \in Sessions}

Symmetry == Permutations(Requests)

\* A new wallet, one with code, one with the session s1.
NoSessions == [s \in Sessions |-> "NotInitialized"]
Starts ==
  {[deployed |-> {}, module |-> {}, status |-> [a \in Accounts |-> NoSessions]],
   [deployed |-> {wallet}, module |-> {}, status |-> [a \in Accounts |-> NoSessions]],
   [deployed |-> {wallet}, module |-> {wallet},
    status |-> [a \in Accounts |->
                  IF a = wallet THEN [NoSessions EXCEPT ![s1] = "Active"] ELSE NoSessions]]}

-----------------------------------------------------------------------------
VARIABLES selected, network, hasCode, asked, at, signer, answer, steady

app1193 == <<selected, network, hasCode, asked, at, signer, answer, steady>>

App == INSTANCE Provider WITH Stranger <- app

VARIABLE mode

Serial == mode = "serial"

MCInit ==
  /\ Init /\ App!Init
  /\ mode \in {"serial", "any", "provider"}
  /\ chain \in Starts
  /\ mode = "provider" => chain.deployed = {}
  /\ mode # "provider" => selected = None

Ended(c) == pc[c] \in {"done", "sent", "failed"} /\ outcome[c] # "pending"
Quiet == \A c \in Requests : pc[c] = "idle" \/ Ended(c)

\* Whoever waits for a receipt before the next request has no other in flight.
\* The registry and the clock move between requests only, nothing is lost.
SerialNext ==
  \/ /\ Quiet
     /\ \/ \E c \in Requests : Start(c)
        \/ \E k \in DOMAIN registry, v \in {"Allowed", "Denied"} : SetStatus(k, v)
        \/ Tick
  \/ \E c \in Requests : Step(c) /\ ~(pc[c] = "send" /\ pc'[c] = "failed")

\* One of the two AGWs is deployed at most.
MCNext ==
  /\ \/ Serial /\ SerialNext /\ UNCHANGED app1193
     \/ mode = "any" /\ Next /\ UNCHANGED app1193
     \/ /\ mode = "provider" /\ App!Next /\ UNCHANGED vars
        /\ hasCode' \subseteq {App!Agw(owner)} \X App!Chains
  /\ UNCHANGED mode

MCSpec == MCInit /\ [][MCNext]_<<vars, app1193, mode>>

\* The calls that do what an intent asks for.
CallsFor(i) ==
  CASE i.kind \in {"send", "session"} -> {i.call}
    [] i.kind = "batch" -> {Batch(i.calls)}
    [] i.kind = "revoke" -> {RevokeKeys({i.session})}
    [] i.kind = "create" -> {AddModule(i.session), CreateSession(i.session)}
    [] i.kind = "deploy" -> {Plain(None, NoSelector)}

\* One of them can be made by the wallet, deployed with it or before; the registry
\* and the session have nothing against it.
Possible(i) ==
  /\ \E call \in CallsFor(i) :
       /\ AccountEffects([chain EXCEPT !.deployed = @ \cup {wallet}], wallet, call) # {}
       /\ wallet \in chain.deployed =>
            \A s \in CreatedBy(call) : Constrained(Config[s]) /\ s \in AllowedNow
  /\ i.kind = "session" =>
       /\ chain.status[wallet][i.session] = "Active"
       /\ now <= Config[i.session].expiresAt
       /\ PoliciesFor(Config[i.session], i.call) # {}

\* createSession, prepareTransactionRequest, the period ids: when requests come
\* one at a time, what is possible is done.  None is refused, reverted or
\* dropped that the chain could have granted.
SerialSucceeds ==
  [][Serial => \A c \in Requests :
       (pc'[c] = "failed" /\ pc[c] # "failed") \/
       (outcome[c] = "pending" /\ outcome'[c] \in {"reverted", "dropped"}) =>
         ~Possible(req'[c].intent)]_vars

\* As in Provider: what an app asks for is done by the account that it has named.
ActsAsNamed == App!ActsAsNamed
=============================================================================
