--------------------------- MODULE IdealChannel ---------------------------
(***************************************************************************)
(* What a payment channel promises to its two parties, without accounts,   *)
(* token ledgers, clocks or signatures: money goes in until the channel    *)
(* ends, the payee earns no more than the payer authorised at some moment, *)
(* and the end divides all of the money once.  StreamChannel implements it.*)
(***************************************************************************)
EXTENDS Integers

CONSTANTS
  Ids,      \* the channels
  Capacity  \* the most a channel can hold, a natural number

VARIABLES
  stage,       \* "none", "open" or "closed"
  escrowed,    \* what the payer has put in, over time
  earned,      \* what the payee has taken out, over time
  returned,    \* what the payer has got back
  authorised   \* the amounts the payer agreed to pay in total

vars == <<stage, escrowed, earned, returned, authorised>>

Init ==
  /\ stage = [i \in Ids |-> "none"]
  /\ escrowed = [i \in Ids |-> 0]
  /\ earned = [i \in Ids |-> 0]
  /\ returned = [i \in Ids |-> 0]
  /\ authorised = [i \in Ids |-> {}]

Fund(i) ==
  \E amount \in 1 .. Capacity :
    /\ stage[i] # "closed"
    /\ escrowed[i] + amount <= Capacity
    /\ stage' = [stage EXCEPT ![i] = "open"]
    /\ escrowed' = [escrowed EXCEPT ![i] = @ + amount]
    /\ UNCHANGED <<earned, returned, authorised>>

Authorise(i) ==
  \E amount \in 0 .. Capacity :
    /\ authorised' = [authorised EXCEPT ![i] = @ \cup {amount}]
    /\ UNCHANGED <<stage, escrowed, earned, returned>>

\* An amount the payee may hold in total from now on.
Claimable(i, amount) ==
  /\ amount \in authorised[i]
  /\ earned[i] < amount
  /\ amount <= escrowed[i]

Earn(i) ==
  \E amount \in 1 .. Capacity :
    /\ stage[i] = "open"
    /\ Claimable(i, amount)
    /\ earned' = [earned EXCEPT ![i] = amount]
    /\ UNCHANGED <<stage, escrowed, returned, authorised>>

\* The payee ends the channel with a last claim, or either party without.
End(i) ==
  \E amount \in 0 .. Capacity :
    /\ stage[i] = "open"
    /\ amount = earned[i] \/ Claimable(i, amount)
    /\ stage' = [stage EXCEPT ![i] = "closed"]
    /\ earned' = [earned EXCEPT ![i] = amount]
    /\ returned' = [returned EXCEPT ![i] = escrowed[i] - amount]
    /\ UNCHANGED <<escrowed, authorised>>

Next == \E i \in Ids : Fund(i) \/ Authorise(i) \/ Earn(i) \/ End(i)

Spec == Init /\ [][Next]_vars
=============================================================================
