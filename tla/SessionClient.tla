--------------------------- MODULE SessionClient ---------------------------
(***************************************************************************)
(* The session method of the paying client: createCredential() opens a     *)
(* channel for the first request of a payee, token and escrow contract,    *)
(* and signs a cumulative voucher for every request.  All calls share one  *)
(* in-memory map of channels, of which this module has one key.            *)
(*                                                                         *)
(* Every await ends a step, and calls interleave there.  The salt of a     *)
(* channel is random, so a channel is named by the call that opens it.     *)
(* An onChannelOpened callback is given.                                   *)
(***************************************************************************)
EXTENDS Integers, FiniteSets, Functions

CONSTANTS
  Calls,      \* the calls of createCredential()
  NoEntry,    \* the key is not in the map
  Prices,     \* what the challenge of a request may ask
  Deposit,    \* what a channel is opened with
  Funds       \* the most tokens the account may own

ASSUME ConstantsAssumption ==
  /\ IsFiniteSet(Calls) /\ NoEntry \notin Calls
  /\ Prices \subseteq Nat \ {0}
  /\ Deposit \in Nat \ {0}
  /\ Funds \in Nat

VARIABLES
  current,      \* channels.get(key): the channel in use
  cumulative,   \* entry.cumulativeAmount of every entry ever made
  call,         \* per call: where it is, its price, its channel, its amount
  credentials,  \* what the calls have returned
  allowance,    \* the token's allowance of the account to the escrow
  funds,        \* the account's tokens
  funded,       \* the channels that are open in the contract
  announced,    \* the channels onChannelOpened was called for
  confirmed     \* those for which its promise has resolved

vars == <<current, cumulative, call, credentials, allowance, funds, funded,
          announced, confirmed>>

wallet == <<allowance, funds, funded>>
user == <<announced, confirmed>>

-----------------------------------------------------------------------------
Places == {"idle", "start", "allowance", "approve", "estimate", "open",
           "register", "confirm", "sign", "ended"}

Call == [at: Places, price: Prices \cup {0}, channel: Calls \cup {NoEntry},
         amount: Nat]

InFlight(r) == call[r].at \notin {"idle", "ended"}

Init ==
  /\ current = NoEntry
  /\ cumulative = [r \in Calls |-> 0]
  /\ call = [r \in Calls |-> [at |-> "idle", price |-> 0,
                              channel |-> NoEntry, amount |-> 0]]
  /\ credentials = {}
  /\ allowance = 0
  /\ funds \in 0 .. Funds
  /\ funded = {}
  /\ announced = {}
  /\ confirmed = {}

At(r, here) == call[r].at = here

Goto(r, there) == call' = [call EXCEPT ![r].at = there]

\* The clients of the chain are resolved before the map is looked at.
Begin(r, price) ==
  /\ At(r, "idle")
  /\ call' = [call EXCEPT ![r] = [@ EXCEPT !.at = "start", !.price = price]]
  /\ UNCHANGED <<current, cumulative, credentials, wallet, user>>

\* Mutants: the sum is not kept; the price is added twice.
Forgotten(r, id) == cumulative
ChargedTwice(r, id) == [cumulative EXCEPT ![id] = @ + 2 * call[r].price]

\* entry.cumulativeAmount += amount
Charged(r, id) == [cumulative EXCEPT ![id] = @ + call[r].price]

\* The entry is raised when the wallet is asked to sign, not when it has.
Charge(r, id) ==
  /\ cumulative' = Charged(r, id)
  /\ call' = [call EXCEPT ![r] = [@ EXCEPT !.at = "sign",
                                           !.channel = id,
                                           !.amount = Charged(r, id)[id]]]

\* Mutant: the key of the map is never found again.
NeverKnown == FALSE

Known == current # NoEntry

Lookup(r) ==
  /\ At(r, "start")
  /\ \/ Known /\ Charge(r, current)
     \/ ~Known /\ Goto(r, "allowance") /\ UNCHANGED cumulative
  /\ UNCHANGED <<current, credentials, wallet, user>>

-----------------------------------------------------------------------------
\* The first request.
ReadAllowance(r) ==
  /\ At(r, "allowance")
  /\ Goto(r, IF allowance < Deposit THEN "approve" ELSE "estimate")
  /\ UNCHANGED <<current, cumulative, credentials, wallet, user>>

\* approve() replaces the allowance.
NewAllowance == Deposit

Approve(r) ==
  /\ At(r, "approve")
  /\ allowance' = NewAllowance
  /\ Goto(r, "estimate")
  /\ UNCHANGED <<current, cumulative, credentials, funds, funded, user>>

\* open() calls transferFrom, which needs the allowance and the tokens.
Transferable == Deposit <= allowance /\ Deposit <= funds

\* writeContract estimates the transaction, and throws when it would revert.
Estimate(r) ==
  /\ At(r, "estimate")
  /\ Goto(r, IF Transferable THEN "open" ELSE "ended")
  /\ UNCHANGED <<current, cumulative, credentials, wallet, user>>

\* It is mined later, and may revert then.  The receipt is awaited; its
\* status is not looked at.
Open(r) ==
  /\ At(r, "open")
  /\ \/ /\ Transferable
        /\ allowance' = allowance - Deposit
        /\ funds' = funds - Deposit
        /\ funded' = funded \cup {r}
     \/ /\ ~Transferable
        /\ UNCHANGED wallet
  /\ Goto(r, "register")
  /\ UNCHANGED <<current, cumulative, credentials, user>>

\* computeChannelId has answered: the entry replaces any other.
Register(r) ==
  /\ At(r, "register")
  /\ current' = r
  /\ announced' = announced \cup {r}
  /\ Goto(r, "confirm")
  /\ UNCHANGED <<cumulative, credentials, wallet, confirmed>>

Confirm(r) ==
  /\ At(r, "confirm")
  /\ confirmed' = confirmed \cup {r}
  /\ Charge(r, r)
  /\ UNCHANGED <<current, credentials, wallet, announced>>

\* The callback's promise rejects: createCredential throws.
Reject(r) ==
  /\ At(r, "confirm")
  /\ Goto(r, "ended")
  /\ UNCHANGED <<current, cumulative, credentials, wallet, user>>

-----------------------------------------------------------------------------
\* Mutant: the payload carries the price of the request.
PriceOnly(r) == call[r].price

\* The payload's cumulativeAmount is read from the entry, after the signature
\* has come.
Payload(r) == cumulative[call[r].channel]

Sign(r) ==
  /\ At(r, "sign")
  /\ credentials' = credentials \cup
       {[call |-> r, channel |-> call[r].channel, cumulative |-> Payload(r),
         signed |-> call[r].amount]}
  /\ Goto(r, "ended")
  /\ UNCHANGED <<current, cumulative, wallet, user>>

\* An RPC call or the wallet refuses: the call throws, what it did stays.
Fail(r) ==
  /\ InFlight(r)
  /\ Goto(r, "ended")
  /\ UNCHANGED <<current, cumulative, credentials, wallet, user>>

\* The map is in memory only.
Restart ==
  /\ Known
  /\ current' = NoEntry
  /\ call' = [r \in Calls |->
                IF InFlight(r) THEN [call[r] EXCEPT !.at = "ended"] ELSE call[r]]
  /\ UNCHANGED <<cumulative, credentials, wallet, user>>

Handle(r) ==
  \/ Lookup(r)
  \/ ReadAllowance(r) \/ Approve(r) \/ Estimate(r) \/ Open(r)
  \/ Register(r) \/ Confirm(r) \/ Reject(r)
  \/ Sign(r)

\* Calls start at any time, and nothing fails.
ReliableNext ==
  \E r \in Calls : Handle(r) \/ \E price \in Prices : Begin(r, price)

Next == ReliableNext \/ (\E r \in Calls : Fail(r)) \/ Restart

\* One call at a time, and nothing fails.
SerialNext ==
  \E r \in Calls :
    \/ Handle(r)
    \/ /\ \A other \in Calls : ~InFlight(other)
       /\ \E price \in Prices : Begin(r, price)

Spec == Init /\ [][Next]_vars

-----------------------------------------------------------------------------
Credential ==
  [call: Calls, channel: Calls, cumulative: Nat, signed: Nat]

\* Every variable keeps its type; tokens are never spent twice.
TypeOK ==
  /\ current \in Calls \cup {NoEntry}
  /\ cumulative \in [Calls -> Nat]
  /\ call \in [Calls -> Call]
  /\ credentials \subseteq Credential
  /\ allowance \in 0 .. Deposit
  /\ funds \in 0 .. Funds
  /\ funded \subseteq Calls
  /\ announced \subseteq Calls
  /\ confirmed \subseteq announced

PriceOf(r) == call[r].price

\* What the requests made on a channel have been asked, together.
AskedOf(r, id) == IF call[r].channel = id THEN PriceOf(r) ELSE 0
Asked(id) == SumFunction([r \in Calls |-> AskedOf(r, id)])

\* Whatever fails, is repeated or runs concurrently, no credential commits the
\* payer to more than the prices of the requests made on that channel.
NeverOvercommitted ==
  \A c \in credentials :
    c.signed <= Asked(c.channel) /\ c.cumulative <= Asked(c.channel)

\* Of two vouchers of a channel, the higher one exceeds the lower one by at
\* least the price of its own request: concurrent calls never sign the same
\* amount, so no request is paid for by the voucher of another.
EachPaysItsOwn ==
  \A c, d \in credentials :
    c.call # d.call /\ c.channel = d.channel =>
      \/ c.signed + PriceOf(d.call) <= d.signed
      \/ d.signed + PriceOf(c.call) <= c.signed

\* "The voucher signing is deferred until that Promise resolves": no channel
\* has a voucher before the user has confirmed it.
ConfirmedFirst == \A c \in credentials : c.channel \in confirmed
=============================================================================
