---------------------------- MODULE AtomicStore ----------------------------
(***************************************************************************)
(* What updateChannel promises its callers: every update reads the record  *)
(* and writes the one computed from it in one indivisible step, at most    *)
(* once.  A record is the set of updates it has seen.                      *)
(***************************************************************************)
CONSTANTS
  Updates,   \* the calls of updateChannel
  Creating,  \* those whose function ignores the current record
  Keys,
  KeyOf      \* the channel each call is about

VARIABLES store, applied

\* () => state for a creating update; for the others, a changed copy of the
\* record, or null when there is none.
Next(u, record) ==
  IF u \in Creating THEN [exists |-> TRUE, seen |-> {u}]
  ELSE IF ~record.exists THEN record
  ELSE [record EXCEPT !.seen = @ \cup {u}]

Init ==
  /\ store = [k \in Keys |-> [exists |-> FALSE, seen |-> {}]]
  /\ applied = {}

Apply(u) ==
  /\ u \notin applied
  /\ applied' = applied \cup {u}
  /\ store' = [store EXCEPT ![KeyOf[u]] = Next(u, @)]

Spec == Init /\ [][\E u \in Updates : Apply(u)]_<<store, applied>>
=============================================================================
