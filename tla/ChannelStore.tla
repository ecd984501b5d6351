---------------------------- MODULE ChannelStore ----------------------------
(***************************************************************************)
(* channelStoreFromStore: read-modify-write of channel records over an     *)
(* asynchronous key-value store, serialised per channel by promises kept   *)
(* in a map.  Every await of update() is a point where other updates run;  *)
(* code between two awaits is one step, since JavaScript runs it alone.    *)
(* The store itself is the caller's and may fail any call.                 *)
(***************************************************************************)
EXTENDS FiniteSets

CONSTANTS
  Updates,   \* the calls of updateChannel
  Creating,  \* those whose function is () => state
  Keys,      \* channel ids
  KeyOf,     \* the channel each call is about
  Free       \* no entry in locks

VARIABLES
  store,    \* the records
  locks,    \* channelId -> the update whose promise is in the map
  pc,       \* where each update is
  current,  \* what each update has read
  applied   \* the updates whose write the store has taken

vars == <<store, locks, pc, current, applied>>

\* A record is known by the updates that made it what it is.
Records == {r \in [exists: BOOLEAN, seen: SUBSET Updates] :
              ~r.exists => r.seen = {}}
NoRecord == [exists |-> FALSE, seen |-> {}]

\* fn(current): a creating update returns its own record, the others a changed
\* copy of the record or, when there is none, null.
fn(u, record) ==
  IF u \in Creating THEN [exists |-> TRUE, seen |-> {u}]
  ELSE IF ~record.exists THEN NoRecord
  ELSE [record EXCEPT !.seen = @ \cup {u}]

Init ==
  /\ store = [k \in Keys |-> NoRecord]
  /\ locks = [k \in Keys |-> Free]
  /\ pc = [u \in Updates |-> "idle"]
  /\ current = [u \in Updates |-> NoRecord]
  /\ applied = {}

Goto(u, there) == pc' = [pc EXCEPT ![u] = there]

Call(u) ==
  /\ pc[u] = "idle"
  /\ Goto(u, "waiting")
  /\ UNCHANGED <<store, locks, current, applied>>

\* Mutant: the map is looked at once, not again after the await.
AnyTime(u) == TRUE

\* while (locks.has(channelId)) await ...; a waiter that wakes up after
\* another one took the lock waits again.
Unlocked(u) == locks[KeyOf[u]] = Free

Lock(u) ==
  /\ pc[u] = "waiting"
  /\ Unlocked(u)
  /\ locks' = [locks EXCEPT ![KeyOf[u]] = u]
  /\ Goto(u, "get")
  /\ UNCHANGED <<store, current, applied>>

Get(u) ==
  /\ pc[u] = "get"
  /\ \/ /\ current' = [current EXCEPT ![u] = store[KeyOf[u]]]
        /\ Goto(u, "put")
     \/ /\ Goto(u, "throw")
        /\ UNCHANGED current
  /\ UNCHANGED <<store, locks, applied>>

\* put or delete; a call that fails may or may not have reached the store.
Put(u) ==
  /\ pc[u] = "put"
  /\ \/ /\ store' = [store EXCEPT ![KeyOf[u]] = fn(u, current[u])]
        /\ applied' = applied \cup {u}
        /\ \E there \in {"return", "throw"} : Goto(u, there)
     \/ /\ Goto(u, "throw")
        /\ UNCHANGED <<store, applied>>
  /\ UNCHANGED <<locks, current>>

\* Mutant: the lock is only given back when nothing was thrown.
Happy == {"return"}

\* The finally block runs on both ways out.
Leaving == {"return", "throw"}

Release(u) ==
  /\ pc[u] \in Leaving
  /\ locks' = [locks EXCEPT ![KeyOf[u]] = Free]
  /\ Goto(u, IF pc[u] = "return" THEN "returned" ELSE "thrown")
  /\ UNCHANGED <<store, current, applied>>

\* The process dies: the map and every pending call are gone, the store is
\* not.  New calls are made by the next process.
Crash ==
  /\ \E u \in Updates : pc[u] \notin {"idle", "returned", "thrown"}
  /\ locks' = [k \in Keys |-> Free]
  /\ pc' = [u \in Updates |-> IF pc[u] \in {"idle", "returned"} THEN pc[u]
                              ELSE "thrown"]
  /\ UNCHANGED <<store, current, applied>>

Step(u) == Lock(u) \/ Get(u) \/ Put(u) \/ Release(u)

Next == Crash \/ \E u \in Updates : Call(u) \/ Step(u)

\* The store answers every call, and the event loop runs what can run.
Fairness == \A u \in Updates : WF_vars(Step(u))

Spec == Init /\ [][Next]_vars /\ Fairness

-----------------------------------------------------------------------------
Locations ==
  {"idle", "waiting", "get", "put", "return", "throw", "returned", "thrown"}

\* Every variable keeps its type.
TypeOK ==
  /\ store \in [Keys -> Records]
  /\ locks \in [Keys -> Updates \cup {Free}]
  /\ pc \in [Updates -> Locations]
  /\ current \in [Updates -> Records]
  /\ applied \subseteq Updates

\* An update that is between its read and its write, or about to release.
Inside(u) == pc[u] \in {"get", "put", "return", "throw"}

\* Two updates of one channel are never inside the critical section together,
\* also after one has thrown and others have been waiting for it.
MutualExclusion ==
  \A u, v \in Updates :
    u # v /\ KeyOf[u] = KeyOf[v] => ~(Inside(u) /\ Inside(v))

\* The same as one step.
Atomic == INSTANCE AtomicStore

\* An update that was called comes to an end, whatever the store throws at it
\* and at those before it in the queue.
EveryCallEnds ==
  \A u \in Updates : pc[u] = "waiting" ~> pc[u] \in {"returned", "thrown"}
=============================================================================
