----------------------------- MODULE AgwClient -----------------------------
(***************************************************************************)
(* The actions of an agw-client: each call of sendTransaction, sendCalls,  *)
(* createSession, revokeSessions, deployAccount, or of a session client,   *)
(* is a request.  A request reads the chain in several steps, has the user *)
(* or the session key sign one transaction, and sends it.  Requests run    *)
(* concurrently, and the chain moves on between any two steps.             *)
(***************************************************************************)
EXTENDS AgwChain, SessionKeys, FiniteSets

CONSTANTS
  Requests,
  Intents,      \* what a request may be about
  Config,       \* session -> its configuration
  owner,        \* the signer of the wallet
  MaxTime,      \* bound of the clock
  None

wallet == AccountOf[owner]
Addresses == Accounts \cup Signers

ASSUME ClientAssumption ==
  /\ owner \in Signers
  /\ MaxTime \in Nat
  /\ None \notin Addresses \cup Nat
  /\ Accounts \cap Signers = {}
  /\ \A s \in Sessions : Config[s].signer \in Signers
  /\ IsFiniteSet(Requests)

VARIABLES
  chain,      \* what the contracts have stored
  nonces,     \* the next nonce of each address
  registry,   \* the policy registry
  now,        \* block.timestamp
  req,        \* per request, what it holds
  pc,         \* where it is
  outcome,    \* what became of its transaction
  managed,    \* whether the owner's account has a nonce manager
  manager,    \* the first nonce that it has not given out, for each address
  seen        \* per request, the sessions that the registry allowed meanwhile

vars == <<chain, nonces, registry, now, req, pc, outcome, managed, manager, seen>>
external == <<chain, nonces, registry, now, outcome>>
unsent == <<external, managed, seen>>

-----------------------------------------------------------------------------
SignerOf(i) == IF i.kind = "session" THEN Config[i.session].signer ELSE owner

\* ids are the period ids of a session's transaction, left the sessions whose
\* policies still have to be looked up.
NoRequest ==
  [intent |-> None, call |-> None, from |-> None, nonce |-> None,
   ids |-> <<>>, left |-> {}]

Init ==
  /\ chain \in Chain /\ chain.module \subseteq chain.deployed
  /\ \A a \in Accounts \ chain.module, s \in Sessions : chain.status[a][s] = "NotInitialized"
  /\ nonces = [a \in Addresses |-> 0]
  /\ registry \in [UNION {Checks(Config[s]) : s \in Sessions} -> {"Allowed"}]
  /\ now = 0
  /\ req = [c \in Requests |-> NoRequest]
  /\ pc = [c \in Requests |-> "idle"]
  /\ outcome = [c \in Requests |-> "unsent"]
  /\ managed \in BOOLEAN
  /\ manager = [a \in Addresses |-> 0]
  /\ seen = [c \in Requests |-> {}]

Goto(c, there) == pc' = [pc EXCEPT ![c] = there]
Holding(c, r) == req' = [req EXCEPT ![c] = r]

AllowedNow == {s \in Sessions : Allowed(Config[s], registry)}

-----------------------------------------------------------------------------
(* The entry points                                                        *)

Begins(c, i, call, there) ==
  /\ Holding(c, [NoRequest EXCEPT !.intent = i, !.call = call])
  /\ Goto(c, there)

\* sendTransaction, writeContract, sendTransactionBatch, sendCalls,
\* revokeSessions; createSession and deployAccount read first.
Begin(c, i) ==
  /\ pc[c] = "idle"
  /\ \/ i.kind = "send" /\ Begins(c, i, i.call, "prepare")
     \/ i.kind = "batch" /\ i.calls # <<>> /\ Begins(c, i, Batch(i.calls), "prepare")
     \/ i.kind = "revoke" /\ Begins(c, i, RevokeKeys({i.session}), "prepare")
     \/ i.kind = "create" /\ Begins(c, i, None, "code")
     \/ i.kind = "deploy" /\ Begins(c, i, None, "factory")
  /\ seen' = [seen EXCEPT ![c] = AllowedNow]
  /\ UNCHANGED <<external, managed, manager>>

\* The session client computes the periods before anything else, and throws if
\* no policy fits.
BeginSession(c, i) ==
  /\ pc[c] = "idle" /\ i.kind = "session"
  /\ LET fits == PoliciesFor(Config[i.session], i.call)
         r == [NoRequest EXCEPT !.intent = i, !.call = i.call]
     IN \/ fits = {} /\ Holding(c, r) /\ Goto(c, "failed")
        \/ \E p \in fits :
             /\ Holding(c, [r EXCEPT !.ids = PeriodIds(Config[i.session], p, i.call, now)])
             /\ Goto(c, "prepare")
  /\ seen' = [seen EXCEPT ![c] = AllowedNow]
  /\ UNCHANGED <<external, managed, manager>>

\* prepareCreateSessionCall: the code of the account, then its hooks.
ReadCode(c) ==
  /\ pc[c] = "code"
  /\ \/ wallet \notin chain.deployed
        /\ Holding(c, [req[c] EXCEPT !.call = AddModule(req[c].intent.session)])
        /\ Goto(c, "prepare")
     \/ wallet \in chain.deployed
        /\ Goto(c, "hooks")
        /\ UNCHANGED req
  /\ UNCHANGED <<unsent, manager>>

\* Mutant: the module is added whether or not the account has it.
SessionCallAdds(s) == AddModule(s)

SessionCall(s) == IF wallet \in chain.module THEN CreateSession(s) ELSE AddModule(s)

ReadHooks(c) ==
  /\ pc[c] = "hooks"
  /\ Holding(c, [req[c] EXCEPT !.call = SessionCall(req[c].intent.session)])
  /\ Goto(c, "prepare")
  /\ UNCHANGED <<unsent, manager>>

\* deployAccount has its own transaction, with an initial call to nobody, which
\* the owner's own wallet client prepares and sends; or nothing to do.
ReadFactory(c) ==
  /\ pc[c] = "factory"
  /\ \/ wallet \in chain.deployed /\ Goto(c, "done") /\ UNCHANGED req
     \/ wallet \notin chain.deployed
        /\ Holding(c, [req[c] EXCEPT !.call = Deploy(owner, Plain(None, NoSelector)),
                                     !.from = owner])
        /\ Goto(c, "nonce")
  /\ UNCHANGED <<unsent, manager>>

-----------------------------------------------------------------------------
(* prepareTransactionRequest                                               *)

\* Mutant: the deployment makes no initial call.
WrappedEmpty(r) ==
  IF wallet \in chain.deployed THEN [r EXCEPT !.from = wallet]
  ELSE [r EXCEPT !.from = SignerOf(r.intent),
                 !.call = Deploy(SignerOf(r.intent), Plain(None, NoSelector))]

\* An account without code is deployed by the transaction, which then comes from
\* the signer.
Wrapped(r) ==
  IF wallet \in chain.deployed THEN [r EXCEPT !.from = wallet]
  ELSE [r EXCEPT !.from = SignerOf(r.intent), !.call = Deploy(SignerOf(r.intent), r.call)]

Prepare(c) ==
  /\ pc[c] = "prepare"
  /\ Holding(c, Wrapped(req[c]))
  /\ Goto(c, "nonce")
  /\ UNCHANGED <<unsent, manager>>

\* The transactions that wait to be mined.
Pending(a) == {c \in Requests : outcome[c] = "pending" /\ req[c].from = a}

\* getTransactionCount at the pending block.
PendingCount(a) ==
  CHOOSE n \in nonces[a]..(nonces[a] + Cardinality(Pending(a))) :
    /\ \A c \in Pending(a) : req[c].nonce # n
    /\ \A k \in nonces[a]..(n - 1) : \E c \in Pending(a) : req[c].nonce = k

\* Mutant: what was given out and not sent yet is forgotten.
ConsumedPending(a) == PendingCount(a)

\* nonceManager.consume gives out the next one, even if nothing of what was
\* given out before has been sent.
Consumed(a) == IF manager[a] > PendingCount(a) THEN manager[a] ELSE PendingCount(a)

\* The nonce manager of the account that signs, if it has one.
HasManager(r) == managed /\ SignerOf(r.intent) = owner

DrawNonce(c) ==
  /\ pc[c] = "nonce"
  /\ LET a == req[c].from
     IN \/ /\ HasManager(req[c])
           /\ Holding(c, [req[c] EXCEPT !.nonce = Consumed(a)])
           /\ manager' = [manager EXCEPT ![a] = Consumed(a) + 1]
        \/ /\ ~HasManager(req[c])
           /\ Holding(c, [req[c] EXCEPT !.nonce = PendingCount(a)])
           /\ UNCHANGED manager
  /\ Goto(c, "estimate")
  /\ UNCHANGED unsent

\* Addresses are compared as they are written.  The `to' of a transaction is what
\* the caller has written, unless the client makes the call itself; those in a
\* batch are decoded, so they have their checksum, like the constant of the
\* validator, but the account's address may have come without.
Written(i) ==
  IF i.kind = "send" /\ "to" \notin i.spelt THEN {} ELSE {"validator", "account"}

Decoded(i) ==
  IF i.kind \in {"send", "batch"} /\ "account" \notin i.spelt
  THEN {"validator"} ELSE {"validator", "account"}

\* The session that a call of account a creates, if the call is recognised:
\* `same' are the addresses that are written as those they are compared with.
SessionIn(a, call, same) ==
  IF \/ call.op = "createSession" /\ "validator" \in same
     \/ call.op = "addModule" /\ a = wallet /\ "account" \in same
  THEN {call.session} ELSE {}

\* Mutant: a batch is not looked into.
SessionsInCall(i, a, call) == SessionIn(a, call, Written(i))

\* A batch is looked into, one in it is not.
SessionsIn(i, a, call) ==
  IF call.op = "batch" /\ a = wallet /\ "account" \in Written(i)
  THEN UNION {SessionIn(a, call.calls[k], Decoded(i)) : k \in DOMAIN call.calls}
  ELSE SessionIn(a, call, Written(i))

\* estimateGas runs the transaction and throws if it would revert.
Estimate(c) ==
  /\ pc[c] = "estimate"
  /\ LET r == req[c]
     IN \/ Effects(chain, r.from, r.call) # {}
           /\ Holding(c, [r EXCEPT !.left = SessionsIn(r.intent, r.from, r.call)])
           /\ Goto(c, IF r.intent.kind = "deploy" THEN "send" ELSE "policies")
        \/ Effects(chain, r.from, r.call) = {}
           /\ Goto(c, "failed")
           /\ UNCHANGED req
  /\ UNCHANGED <<unsent, manager>>

-----------------------------------------------------------------------------
(* signTransaction                                                         *)

\* One look-up for each session found.
CheckPolicies(c) ==
  /\ pc[c] = "policies"
  /\ \/ req[c].left = {} /\ Goto(c, "send") /\ UNCHANGED req
     \/ \E s \in req[c].left :
          \/ /\ Constrained(Config[s]) /\ Allowed(Config[s], registry)
             /\ Holding(c, [req[c] EXCEPT !.left = @ \ {s}])
             /\ UNCHANGED pc
          \/ /\ ~Constrained(Config[s]) \/ ~Allowed(Config[s], registry)
             /\ Goto(c, "failed")
             /\ UNCHANGED req
  /\ UNCHANGED <<unsent, manager>>

\* The transaction is signed, unless somebody declines (Fail), and sent with the
\* periods of its session; sendRawTransaction is answered with the hash, or the
\* answer is lost.
Send(c) ==
  /\ pc[c] = "send"
  /\ outcome' = [outcome EXCEPT ![c] = "pending"]
  /\ Goto(c, "sent") \/ Goto(c, "failed")
  /\ UNCHANGED <<chain, nonces, registry, now, req, managed, manager, seen>>

\* Anything that is awaited may throw.
Fail(c) ==
  /\ pc[c] \in {"code", "hooks", "factory", "prepare", "nonce", "estimate", "policies", "send"}
  /\ Goto(c, "failed")
  /\ UNCHANGED <<unsent, req, manager>>

-----------------------------------------------------------------------------
(* The chain, and the operator of the registry                             *)

InPeriods(r) ==
  LET s == Config[r.intent.session]
  IN \E p \in PoliciesFor(s, r.intent.call) : r.ids = PeriodIds(s, p, r.intent.call, now)

\* What an account validates before it executes.
Valid(r) ==
  r.from \in Accounts =>
    /\ r.from \in chain.deployed
    /\ r.intent.kind = "session" =>
         /\ r.from \in chain.module
         /\ chain.status[r.from][r.intent.session] = "Active"
         /\ now <= Config[r.intent.session].expiresAt
         /\ InPeriods(r)

Mine(c) ==
  /\ outcome[c] = "pending"
  /\ req[c].nonce = nonces[req[c].from]
  /\ Valid(req[c])
  /\ nonces' = [nonces EXCEPT ![req[c].from] = @ + 1]
  /\ LET effects == Effects(chain, req[c].from, req[c].call)
     IN \/ /\ chain' \in effects
           /\ outcome' = [outcome EXCEPT ![c] = "success"]
        \/ /\ effects = {}
           /\ outcome' = [outcome EXCEPT ![c] = "reverted"]
           /\ UNCHANGED chain
  /\ UNCHANGED <<registry, now, req, pc, managed, manager, seen>>

\* A transaction whose nonce is used, or that does not validate, is dropped.
Drop(c) ==
  /\ outcome[c] = "pending"
  /\ \/ req[c].nonce < nonces[req[c].from]
     \/ req[c].nonce = nonces[req[c].from] /\ ~Valid(req[c])
  /\ outcome' = [outcome EXCEPT ![c] = "dropped"]
  /\ UNCHANGED <<chain, nonces, registry, now, req, pc, managed, manager, seen>>

SetStatus(k, v) ==
  /\ registry' = [registry EXCEPT ![k] = v]
  /\ seen' = [c \in Requests |->
                IF pc[c] = "idle" THEN {}
                ELSE seen[c] \cup {s \in Sessions : Allowed(Config[s], registry')}]
  /\ UNCHANGED <<chain, nonces, now, req, pc, outcome, managed, manager>>

Tick ==
  /\ now < MaxTime
  /\ now' = now + 1
  /\ UNCHANGED <<chain, nonces, registry, req, pc, outcome, managed, manager, seen>>

-----------------------------------------------------------------------------
Start(c) == \E i \in Intents : Begin(c, i) \/ BeginSession(c, i)

Step(c) ==
  \/ ReadCode(c) \/ ReadHooks(c) \/ ReadFactory(c) \/ Prepare(c)
  \/ DrawNonce(c) \/ Estimate(c) \/ CheckPolicies(c) \/ Send(c) \/ Mine(c) \/ Drop(c)

Next ==
  \/ \E c \in Requests : Start(c) \/ Step(c) \/ Fail(c)
  \/ \E k \in DOMAIN registry, v \in {"Allowed", "Denied"} : SetStatus(k, v)
  \/ Tick

Spec == Init /\ [][Next]_vars

-----------------------------------------------------------------------------
(* Properties                                                              *)

\* Every variable keeps its type; what is sent has a nonce.
TypeOK ==
  /\ nonces \in [Addresses -> Nat]
  /\ manager \in [Addresses -> Nat]
  /\ DOMAIN req = Requests
  /\ \A c \in Requests :
       /\ DOMAIN req[c] = DOMAIN NoRequest
       /\ req[c].nonce \in Nat \cup {None}
       /\ req[c].from \in Addresses \cup {None}
       /\ outcome[c] # "unsent" => req[c].nonce \in Nat
  /\ outcome \in [Requests -> {"unsent", "pending", "success", "reverted", "dropped"}]
  /\ pc \in [Requests -> {"idle", "code", "hooks", "factory", "prepare", "nonce", "estimate",
                          "policies", "send", "sent", "done", "failed"}]
  /\ seen \in [Requests -> SUBSET Sessions]

Drawn(c) == req[c].nonce # None
ByManager(c) == Drawn(c) /\ HasManager(req[c])

\* prepareTransactionRequest with a nonce manager: however many requests are in
\* flight, no two of them share a nonce, and none skips one: every nonce below is
\* used, or was drawn by a request of the same sender.
NoncesInOrder ==
  \A c \in Requests : ByManager(c) =>
    /\ \A d \in Requests \ {c} :
         ByManager(d) /\ req[d].from = req[c].from => req[d].nonce # req[c].nonce
    /\ \A n \in 0..(req[c].nonce - 1) :
         \/ n < nonces[req[c].from]
         \/ \E d \in Requests : Drawn(d) /\ req[d].from = req[c].from /\ req[d].nonce = n

\* The call that a transaction makes for its sender, and what an intent asks for.
InnerCall(call) == IF call.op = "deploy" THEN call.call ELSE call

Asks(i, call) ==
  \/ i.kind \in {"send", "session"} /\ call = i.call
  \/ i.kind = "batch" /\ call = Batch(i.calls)
  \/ i.kind = "revoke" /\ call = RevokeKeys({i.session})
  \/ i.kind = "create" /\ call \in {AddModule(i.session), CreateSession(i.session)}
  \/ i.kind = "deploy" /\ call = Plain(None, NoSelector)

\* The sessions that a call creates.
Creates(call) ==
  IF call.op \in {"addModule", "createSession"} THEN {call.session}
  ELSE IF call.op = "nested" THEN call.sessions ELSE {}

CreatedBy(call) ==
  IF call.op = "batch" THEN UNION {Creates(call.calls[k]) : k \in DOMAIN call.calls}
  ELSE Creates(call)

Simple(call) == call.op \in {"plain", "addModule", "createSession", "revokeKeys"}

Askable(call) ==
  /\ CreatedBy(call) \subseteq Sessions
  /\ \/ Simple(call)
     \/ /\ call.op = "batch"
        /\ call.calls \in Seq(ToSet(call.calls))
        /\ \A k \in DOMAIN call.calls : Simple(call.calls[k]) \/ call.calls[k].op = "nested"

\* An intent asks for a call or a batch of calls, none of them the deployment that
\* only prepareTransactionRequest makes; `spelt' says whether its `to' is written as
\* the client's constants are, and whether the account's address has its checksum.
ASSUME IntentsAssumption ==
  \A i \in Intents :
    /\ i.kind \in {"send", "batch", "revoke", "create", "deploy", "session"}
    /\ i.kind \in {"send", "session"} => Askable(i.call)
    /\ i.kind = "batch" => Askable(Batch(i.calls))
    /\ i.kind \in {"send", "batch"} => i.spelt \subseteq {"to", "account"}
    /\ i.kind \in {"create", "revoke", "session"} => i.session \in Sessions

\* Whatever is executed for a request is what was asked, and the wallet is who
\* has made the call, deployed with it or before; except for a session client
\* that was used before the wallet had code.
ByTheWallet ==
  \A c \in Requests : outcome[c] = "success" =>
    /\ Asks(req[c].intent, InnerCall(req[c].call))
    /\ \/ ActsAs(req[c].from, req[c].call) = wallet
       \/ req[c].intent.kind = "session" /\ req[c].from \in Signers

\* The client does not see that call creates s: its `to' is written in another way
\* than the address it is compared with, as is the account's in what is decoded
\* from a batch; or s is created in a batch in the batch.
OutOfSight(i, call, s) ==
  \/ i.kind = "send" /\ "to" \notin i.spelt
  \/ /\ call.op = "batch"
     /\ \E k \in DOMAIN call.calls :
          /\ s \in Creates(call.calls[k])
          /\ \/ call.calls[k].op = "nested"
             \/ /\ i.kind \in {"send", "batch"} /\ "account" \notin i.spelt
                /\ call.calls[k].op = "addModule"

\* assertSessionKeyPolicies: a session that a transaction of the deployed wallet
\* creates, alone or in a batch, but not out of the client's sight, has a
\* destination for each restricted selector, and at some moment of its request the
\* registry allowed all of its policies.
CheckedSessions ==
  \A c \in Requests : outcome[c] = "success" /\ req[c].from = wallet =>
    \A s \in CreatedBy(req[c].call) :
      \/ Constrained(Config[s]) /\ s \in seen[c]
      \/ OutOfSight(req[c].intent, req[c].call, s)
=============================================================================
