------------------------------- MODULE Charge -------------------------------
(***************************************************************************)
(* The charge method: a client signs an ERC-3009 authorization for the     *)
(* price of a challenge, and the server's verify() checks it, broadcasts   *)
(* transferWithAuthorization and waits for the receipt.                    *)
(*                                                                         *)
(* Every await of verify() ends a step.  The token is code outside this    *)
(* repository: it takes an authorization once, inside its time window, and *)
(* only when its signature is over the token's own EIP-712 domain.         *)
(***************************************************************************)
EXTENDS Integers, FiniteSets

CONSTANTS
  Calls,    \* the calls of verify()
  Nonces,   \* the authorizations signed, by their random nonce
  Prices,   \* amounts of challenges
  Funds,    \* the payer's tokens
  MaxTime   \* bound on block.timestamp

ASSUME ConstantsAssumption ==
  /\ Nonces # {}
  /\ Prices \subseteq Nat \ {0}
  /\ Funds \in Nat
  /\ MaxTime \in Nat

VARIABLES
  signed,  \* per nonce, the authorization the client has signed
  cache,   \* domainCache, for the one currency
  call,    \* per call of verify(): where it is, its credential, its domain
  used,    \* the token's authorizationState
  paid,    \* per nonce, what the token has transferred for it
  funds,   \* the payer's balance
  now      \* block.timestamp

vars == <<signed, cache, call, used, paid, funds, now>>

token == <<used, paid, funds, now>>

-----------------------------------------------------------------------------
\* Per field of the EIP-712 domain: is it the token's, or the fallback that
\* stands in for it when the read fails ("USD Coin", "2")?  They differ.
Domain == [name: BOOLEAN, version: BOOLEAN]
TokenDomain == [name |-> TRUE, version |-> TRUE]
NoDomain == [name |-> FALSE]

Authorization == [value: Prices \cup {0}, validBefore: Nat, domain: Domain]
Unsigned == [value |-> 0, validBefore |-> 0, domain |-> TokenDomain]

Places == {"idle", "start", "name", "version", "verify", "state", "estimate",
           "sent", "mined", "reverted", "ok", "failed", "lost"}

Call == [at: Places, nonce: Nonces, amount: Prices \cup {0}, domain: Domain]

InFlight(r) == call[r].at \notin {"idle", "ok", "failed", "lost"}

Init ==
  /\ signed = [n \in Nonces |-> Unsigned]
  /\ cache = NoDomain
  /\ call = [r \in Calls |->
               [at |-> "idle", nonce |-> CHOOSE n \in Nonces : TRUE,
                amount |-> 0, domain |-> TokenDomain]]
  /\ used = {}
  /\ paid = [n \in Nonces |-> 0]
  /\ funds = Funds
  /\ now = 0

\* The client's createCredential: the domain is read anew, each field with its
\* own fallback; validBefore comes from the challenge or the clock.
CreateCredential(n, price, validBefore, domain) ==
  /\ signed[n] = Unsigned
  /\ signed' = [signed EXCEPT ![n] =
       [value |-> price, validBefore |-> validBefore, domain |-> domain]]
  /\ UNCHANGED <<cache, call, token>>

\* The retry of a request brings the same credential again.
Receive(r, n, price) ==
  /\ call[r].at = "idle"
  /\ signed[n] # Unsigned
  /\ call' = [call EXCEPT ![r] = [@ EXCEPT !.at = "start", !.nonce = n,
                                           !.amount = price]]
  /\ UNCHANGED <<signed, cache, token>>

-----------------------------------------------------------------------------
At(r, here) == call[r].at = here

Goto(r, there) == call' = [call EXCEPT ![r].at = there]

Check(r, ok, there) == Goto(r, IF ok THEN there ELSE "failed")

\* getErc3009Domain
LookupDomain(r) ==
  /\ At(r, "start")
  /\ call' = [call EXCEPT ![r] =
       IF cache = NoDomain THEN [@ EXCEPT !.at = "name"]
       ELSE [@ EXCEPT !.at = "verify", !.domain = cache]]
  /\ UNCHANGED <<signed, cache, token>>

ReadName(r, answered) ==
  /\ At(r, "name")
  /\ call' = [call EXCEPT ![r].at = "version", ![r].domain.name = answered]
  /\ UNCHANGED <<signed, cache, token>>

ReadVersion(r, answered) ==
  /\ At(r, "version")
  /\ call' = [call EXCEPT ![r].at = "verify", ![r].domain.version = answered]
  /\ cache' = [call[r].domain EXCEPT !.version = answered]
  /\ UNCHANGED <<signed, token>>

\* verifyTypedData, over the domain the server has.
Signed(r) ==
  /\ signed[call[r].nonce].value = call[r].amount
  /\ signed[call[r].nonce].domain = call[r].domain

Verify(r) ==
  /\ At(r, "verify")
  /\ Check(r, Signed(r), "state")
  /\ UNCHANGED <<signed, cache, token>>

\* authorizationState and getCode; what follows is the same for both kinds of
\* account.
ReadState(r) ==
  /\ At(r, "state")
  /\ Check(r, call[r].nonce \notin used, "estimate")
  /\ UNCHANGED <<signed, cache, token>>

\* Would transferWithAuthorization pass?  validAfter is 0.
Accepts(r) ==
  LET a == signed[call[r].nonce]
  IN  /\ call[r].nonce \notin used
      /\ a.value = call[r].amount
      /\ a.domain = TokenDomain
      /\ now < a.validBefore
      /\ a.value <= funds

\* writeContract estimates the transaction, and throws when it would revert.
Estimate(r) ==
  /\ At(r, "estimate")
  /\ Check(r, Accepts(r), "sent")
  /\ UNCHANGED <<signed, cache, token>>

\* It is mined later, and may revert then; also when its sender no longer
\* waits for it.
Mined(r, success, failure) ==
  \/ /\ Accepts(r)
     /\ used' = used \cup {call[r].nonce}
     /\ paid' = [paid EXCEPT ![call[r].nonce] = @ + call[r].amount]
     /\ funds' = funds - call[r].amount
     /\ Goto(r, success)
     /\ UNCHANGED <<signed, cache, now>>
  \/ /\ ~Accepts(r)
     /\ Goto(r, failure)
     /\ UNCHANGED <<signed, cache, token>>

Mine(r) == At(r, "sent") /\ Mined(r, "mined", "reverted")

MineLost(r) == At(r, "lost") /\ Mined(r, "failed", "failed")

\* Mutants: a receipt is enough, whatever its status; the nonce is checked
\* once more.
AnyStatus(r) == call[r].at \in {"mined", "reverted"}
StillUnused(r) == call[r].at = "mined" /\ call[r].nonce \notin used

\* receipt.status
Succeeded(r) == call[r].at = "mined"

Receipt(r) ==
  /\ call[r].at \in {"mined", "reverted"}
  /\ Check(r, Succeeded(r), "ok")
  /\ UNCHANGED <<signed, cache, token>>

\* Where a call is left that ends before its time.
Dropped(at) == IF at = "sent" THEN "lost" ELSE "failed"

\* An RPC call fails or times out: verify() throws.
Fail(r) ==
  /\ InFlight(r)
  /\ Goto(r, Dropped(call[r].at))
  /\ UNCHANGED <<signed, cache, token>>

Restart ==
  /\ cache # NoDomain
  /\ cache' = NoDomain
  /\ call' = [r \in Calls |->
       IF InFlight(r) THEN [call[r] EXCEPT !.at = Dropped(@)] ELSE call[r]]
  /\ UNCHANGED <<signed, token>>

-----------------------------------------------------------------------------
\* The payer may cancel an authorization in the token and spend its funds.
Cancel(n) ==
  /\ signed[n] # Unsigned
  /\ used' = used \cup {n}
  /\ UNCHANGED <<signed, cache, call, paid, funds, now>>

Spend ==
  /\ funds > 0
  /\ funds' = funds - 1
  /\ UNCHANGED <<signed, cache, call, used, paid, now>>

Tick ==
  /\ now < MaxTime
  /\ now' = now + 1
  /\ UNCHANGED <<signed, cache, call, used, paid, funds>>

Payer ==
  \/ \E n \in Nonces :
       \/ Cancel(n)
       \/ \E price \in Prices, validBefore \in 0 .. MaxTime, domain \in Domain :
            CreateCredential(n, price, validBefore, domain)
  \/ Spend

Handle(r) ==
  \/ \E n \in Nonces, price \in Prices : Receive(r, n, price)
  \/ LookupDomain(r)
  \/ Verify(r) \/ ReadState(r) \/ Estimate(r)
  \/ Mine(r) \/ Receipt(r)

\* No RPC call of the server fails.
ReliableNext ==
  \/ \E r \in Calls : Handle(r) \/ ReadName(r, TRUE) \/ ReadVersion(r, TRUE)
  \/ Payer
  \/ Tick

Next ==
  \/ ReliableNext
  \/ \E r \in Calls :
       \/ ReadName(r, FALSE) \/ ReadVersion(r, FALSE)
       \/ Fail(r) \/ MineLost(r)
  \/ Restart

Spec == Init /\ [][Next]_vars

-----------------------------------------------------------------------------
\* Every variable keeps its type; what is paid for an authorization is what
\* the payer signed, or nothing.
TypeOK ==
  /\ signed \in [Nonces -> Authorization]
  /\ cache \in Domain \cup {NoDomain}
  /\ call \in [Calls -> Call]
  /\ used \subseteq Nonces
  /\ paid \in [Nonces -> Nat]
  /\ \A n \in Nonces : paid[n] \in {0, signed[n].value}
  /\ funds \in 0 .. Funds
  /\ now \in 0 .. MaxTime

\* A request answered with success has been paid what its challenge asked,
\* and no payment answers two requests: also when the same credential is
\* verified twice at the same time and both see its nonce unused.
SuccessIsPaidOnce ==
  \A r \in Calls :
    call[r].at = "ok" =>
      /\ paid[call[r].nonce] = call[r].amount
      /\ \A other \in Calls \ {r} :
           call[other].at = "ok" => call[other].nonce # call[r].nonce

\* "Server verifies, settles on-chain, responds 200 OK": a payer that was
\* charged has its answer, or the request is about to give it.
PaidIsAnswered ==
  \A n \in Nonces :
    paid[n] > 0 => \E r \in Calls :
                     call[r].nonce = n /\ call[r].at \in {"mined", "ok"}
=============================================================================
