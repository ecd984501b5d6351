------------------------------ MODULE Provider ------------------------------
(***************************************************************************)
(* An app's EIP-1193 provider, transformEIP1193Provider: the account of    *)
(* the injected wallet that the user has selected is a signer, and each    *)
(* signer has an AGW.  The handler keeps nothing between requests, so one  *)
(* at a time will do; but selection, network and deployments change while  *)
(* it awaits.                                                              *)
(***************************************************************************)
CONSTANTS
  Signers,   \* accounts of the injected wallet
  Stranger,  \* an address of neither kind, or one of them spelled differently
  None       \* no account, nobody

VARIABLES
  selected,  \* what eth_accounts of the injected wallet answers first
  network,   \* the chain that it is on
  hasCode,   \* the AGWs that are deployed, on each chain
  asked,     \* the last request
  at,        \* where the handler is
  signer,    \* what getAgwSigner has returned
  answer,    \* who has done what was asked, as whom, or what was told
  steady     \* the app has named the account selected, and nothing has moved since

vars == <<selected, network, hasCode, asked, at, signer, answer, steady>>

\* The chain of the provider, another one of Abstract, and any other.
Chains == {"here", "other", "foreign"}
ValidChains == {"here", "other"}

Agw(s) == [agw |-> s]
Addresses == Signers \cup {Agw(s) : s \in Signers} \cup {Stranger}

\* A call may lack its address; a request, or its calls, may say their chain.
\* Typed data says one if it is a transaction, whose sender is the one named.
AppRequest(methods, named, chains, versions, to) ==
  [method: methods, named: named, chain: chains, version: versions, to: to]
AppRequests ==
  AppRequest({"accounts", "other"}, {None}, {None}, {None}, {TRUE})
  \cup AppRequest({"chain"}, {None}, Chains \cup {None}, {None}, {TRUE})
  \cup AppRequest({"message", "transaction", "capabilities"}, Addresses, {None}, {None}, {TRUE})
  \cup AppRequest({"typed"}, Addresses, {None, "here", "other"}, {None}, {TRUE})
  \cup AppRequest({"sendCalls"}, Addresses, {None, "here", "other"}, {None, "1.0", "2.0.0", "2.0"},
               BOOLEAN)

Answer(what, by) == [what |-> what, by |-> by]

Init ==
  /\ selected \in Signers \cup {None}
  /\ network = "here"
  /\ hasCode = {}
  /\ asked = [method |-> "other", named |-> None, chain |-> None, version |-> None, to |-> TRUE]
  /\ at = "idle"
  /\ signer = None
  /\ answer = Answer("nothing", None)
  /\ steady = FALSE

wallet == <<selected, network, hasCode>>
Goto(there) == at' = there /\ UNCHANGED answer
Return(what, by) == at' = "idle" /\ answer' = Answer(what, by)

-----------------------------------------------------------------------------
Ask(r) ==
  /\ at = "idle"
  /\ asked' = r
  /\ signer' = None
  /\ steady' = (selected # None /\ network = "here" /\ r.named \in {selected, Agw(selected)})
  /\ CASE r.method = "other" -> Return("passedOn", None)
       [] r.method = "chain" ->
            Return(IF r.chain \in ValidChains THEN "passedOn" ELSE "error", None)
       [] OTHER -> Goto("signer")
  /\ UNCHANGED wallet

\* assertCurrentChain of each call that says its chain; the other version always
\* says it.
ChainFits(r) ==
  CASE r.version \in {None, "1.0"} -> r.chain \in {None, "here"}
    [] r.version = "2.0.0" -> r.chain = "here"
    [] OTHER -> TRUE

\* getAgwSigner, and what follows without another await.
ReadSigner ==
  /\ at = "signer"
  /\ signer' = selected
  /\ CASE selected = None -> Return(IF asked.method = "accounts" THEN "told" ELSE "error", None)
       [] selected # None /\ asked.method = "accounts" -> Goto("address")
       [] selected # None /\ asked.named = selected -> Return("passedOn", selected)
       [] selected \notin {None, asked.named} /\ asked.method = "capabilities" -> Return("told", None)
       [] selected \notin {None, asked.named} /\ asked.method = "sendCalls" /\ ~ChainFits(asked) ->
            Return("error", None)
       [] OTHER -> Goto("client")
  /\ UNCHANGED <<wallet, asked, steady>>

\* getAgwAddressFromInitialSigner reads on the network of the injected wallet.
ReadAddress ==
  /\ at = "address"
  /\ \/ network \in ValidChains /\ Return("told", signer)
     \/ Return("error", None)
  /\ UNCHANGED <<wallet, asked, signer, steady>>

\* Mutant: the sender of sendCalls is not compared.
AnySender(r) == r.method = "sendCalls" => r.to

Authorized(r) == r.method = "sendCalls" => r.named = Agw(signer) /\ r.to

\* getAgwClient reads the AGW's address; then the checks of sendCalls, and of
\* typed data that is a transaction.
MakeClient ==
  /\ at = "client"
  /\ \/ /\ Authorized(asked)
        /\ asked.method = "typed" => asked.chain \in {None, "here"}
        /\ Goto("sign")
     \/ Return("error", None)
  /\ UNCHANGED <<wallet, asked, signer, steady>>

\* Typed data that says no chain is signed as a message is.
IsMessage(r) == r.method = "message" \/ (r.method = "typed" /\ r.chain = None)

\* The injected wallet signs as the signer of the client, or refuses; for a
\* transaction, the chain that it is on is compared first.
Sign ==
  /\ at = "sign"
  /\ \/ IsMessage(asked) /\ Goto("code")
     \/ ~IsMessage(asked) /\ network = "here" /\ Return("transaction", Agw(signer))
     \/ Return("error", None)
  /\ UNCHANGED <<wallet, asked, signer, steady>>

\* getAgwTypedSignature: the code is read on the network of the injected wallet.
ReadCode ==
  /\ at = "code"
  /\ \/ Return(IF <<Agw(signer), network>> \in hasCode THEN "signature" ELSE "wrapped", Agw(signer))
     \/ Return("error", None)
  /\ UNCHANGED <<wallet, asked, signer, steady>>

Handle == ReadSigner \/ ReadAddress \/ MakeClient \/ Sign \/ ReadCode

-----------------------------------------------------------------------------
\* The user selects another account or network; an AGW is deployed.
Select ==
  /\ selected' \in (Signers \cup {None}) \ {selected}
  /\ steady' = (steady /\ at = "idle")
  /\ UNCHANGED <<network, hasCode, asked, at, signer, answer>>

Switch ==
  /\ network' \in Chains \ {network}
  /\ steady' = (steady /\ at = "idle")
  /\ UNCHANGED <<selected, hasCode, asked, at, signer, answer>>

Deploy ==
  /\ \E s \in Signers, c \in ValidChains : hasCode' = hasCode \cup {<<Agw(s), c>>}
  /\ UNCHANGED <<selected, network, asked, at, signer, answer, steady>>

Next == (\E r \in AppRequests : Ask(r)) \/ Handle \/ Select \/ Switch \/ Deploy

Spec == Init /\ [][Next]_vars

-----------------------------------------------------------------------------
(* Properties                                                              *)

Done == at = "idle" /\ answer.by # None

\* "Unauthorized", "Chain not supported": whatever the user selects while a
\* request is handled, an AGW sends calls only if they name it, and only on the
\* chain that they say.  A user who changes nothing meanwhile acts as the account
\* that the app has named, signer or AGW; and then a signature verifies, also if
\* the AGW is deployed before it is signed, while it is, or after.
ActsAsNamed ==
  Done =>
    /\ asked.method = "sendCalls" =>
         /\ answer.by = asked.named
         /\ answer.what = "transaction" /\ asked.version # "2.0" => asked.chain \in {None, "here"}
    /\ steady /\ asked.method # "accounts" =>
         /\ answer.by = asked.named
         /\ answer.what = "signature" => <<answer.by, "here">> \in hasCode
=============================================================================
