------------------------------ MODULE AgwChain ------------------------------
(***************************************************************************)
(* The contracts that agw-client calls, as far as it relies on them: the   *)
(* factory, the accounts it deploys, the session key validator.  They are  *)
(* not part of the repository; `Effects' says what a call does, and is     *)
(* empty if the call reverts.                                              *)
(***************************************************************************)
EXTENDS SequencesExt

CONSTANTS
  Sessions,   \* the sessions, each known by its hash
  AccountOf   \* signer -> the account whose salt is the hash of the signer

Signers == DOMAIN AccountOf
Accounts == {AccountOf[k] : k \in Signers}

SessionStatus == {"NotInitialized", "Active", "Closed"}

Chain ==
  [deployed: SUBSET Accounts,                           \* accounts with code
   module: SUBSET Accounts,                             \* with the session hook
   status: [Accounts -> [Sessions -> SessionStatus]]]

\* Calls, from the transaction's data.
Plain(target, selector) == [op |-> "plain", target |-> target, selector |-> selector]
AddModule(s) == [op |-> "addModule", session |-> s]
CreateSession(s) == [op |-> "createSession", session |-> s]
RevokeKeys(S) == [op |-> "revokeKeys", sessions |-> S]
Batch(calls) == [op |-> "batch", calls |-> calls]
\* A batch in a batch, at any depth, as far as the sessions that it creates.
Nested(S) == [op |-> "nested", sessions |-> S]
Deploy(signer, initialCall) == [op |-> "deploy", salt |-> signer, call |-> initialCall]

Activated(ch, a, s) == [ch EXCEPT !.status[a][s] = "Active"]

\* One call made by account a.
Effect(ch, a, call) ==
  CASE call.op = "plain" -> {ch}
    [] call.op = "addModule" ->
         IF a \in ch.module \/ ch.status[a][call.session] # "NotInitialized" THEN {}
         ELSE {Activated([ch EXCEPT !.module = @ \cup {a}], a, call.session)}
    [] call.op = "createSession" ->
         IF a \notin ch.module \/ ch.status[a][call.session] # "NotInitialized" THEN {}
         ELSE {Activated(ch, a, call.session)}
    [] call.op = "nested" ->
         IF a \notin ch.module \/ \E s \in call.sessions : ch.status[a][s] # "NotInitialized"
         THEN {}
         ELSE {[ch EXCEPT !.status[a] =
                  [s \in Sessions |-> IF s \in call.sessions THEN "Active" ELSE @[s]]]}
    [] call.op = "revokeKeys" ->
         IF \E s \in call.sessions : ch.status[a][s] # "Active" THEN {}
         ELSE {[ch EXCEPT !.status[a] =
                  [s \in Sessions |-> IF s \in call.sessions THEN "Closed" ELSE @[s]]]}

\* A batch is atomic: no call of it is allowed to fail.
AccountEffects(ch, a, call) ==
  IF call.op = "batch"
  THEN FoldLeft(LAMBDA chs, c : UNION {Effect(d, a, c) : d \in chs}, {ch}, call.calls)
  ELSE Effect(ch, a, call)

\* deployAccount makes the account and lets it make its initial call.
Effects(ch, from, call) ==
  IF call.op = "deploy"
  THEN LET a == AccountOf[call.salt]
       IN IF a \in ch.deployed THEN {}
          ELSE AccountEffects([ch EXCEPT !.deployed = @ \cup {a}], a, call.call)
  ELSE AccountEffects(ch, from, call)

\* Who makes the call that was asked for.
ActsAs(from, call) == IF call.op = "deploy" THEN AccountOf[call.salt] ELSE from
=============================================================================
