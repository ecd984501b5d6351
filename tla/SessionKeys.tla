---------------------------- MODULE SessionKeys ----------------------------
(***************************************************************************)
(* What agw-client computes from the configuration of a session: which     *)
(* policy a transaction falls under, in which periods of its allowances it *)
(* is made, and what has to be asked of the policy registry before the     *)
(* session may be created.                                                 *)
(*                                                                         *)
(* A limit is [type, period]; a call policy is [target, selector, value,   *)
(* constraints], a constraint [index, condition, ref, limit]; a transfer   *)
(* policy is [target, value].  A session is [signer, expiresAt, fee, call, *)
(* transfer], with a set of policies of each kind.                         *)
(***************************************************************************)
EXTENDS Integers, Sequences

CONSTANTS
  Restricted,  \* the selectors of approve, transfer and setApprovalForAll
  NoSelector   \* a transfer of value, without data

IsContractCall(c) == c.selector # NoSelector

CallPolicies(s, c) ==
  {p \in s.call : p.target = c.target /\ p.selector = c.selector}

TransferPolicies(s, c) == {p \in s.transfer : p.target = c.target}

\* At most one of each set: the targets and selectors of a session are unique.
PoliciesFor(s, c) ==
  IF IsContractCall(c) THEN CallPolicies(s, c) ELSE TransferPolicies(s, c)

PeriodId(limit, t) ==
  IF limit.type = "Allowance" THEN t \div limit.period ELSE 0

\* The limits of a policy in the order in which the validator goes through them.
LimitsOf(s, p, c) ==
  <<s.fee, p.value>>
    \o (IF IsContractCall(c)
        THEN [i \in 1..Len(p.constraints) |-> p.constraints[i].limit]
        ELSE <<>>)

PeriodIds(s, p, c, t) ==
  [i \in 1..Len(LimitsOf(s, p, c)) |-> PeriodId(LimitsOf(s, p, c)[i], t)]

-----------------------------------------------------------------------------
(* assertSessionKeyPolicies                                                *)

Destinations(p) ==
  {p.constraints[i].ref : i \in {j \in 1..Len(p.constraints) :
      p.constraints[j].index = 0 /\ p.constraints[j].condition = "Equal"}}

\* A restricted selector needs a constraint that fixes its destination.
Constrained(s) ==
  \A p \in s.call : p.selector \in Restricted => Destinations(p) # {}

\* What the registry is asked.
Checks(s) ==
  UNION {{<<"approval", p.target, d>> : d \in Destinations(p)} :
           p \in {q \in s.call : q.selector \in Restricted}}
  \cup {<<"call", p.target, p.selector>> : p \in {q \in s.call : q.selector \notin Restricted}}
  \cup {<<"transfer", p.target>> : p \in s.transfer}

Allowed(s, registry) == \A k \in Checks(s) : registry[k] = "Allowed"
=============================================================================
