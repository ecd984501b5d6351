---------------------------- MODULE AgwCoreProofs ----------------------------
(***************************************************************************)
(* Proofs about a device with agw on it, for any number of commands,       *)
(* bootstraps, revokes, migrations and callback flows, and for all inputs  *)
(* and policies.  The lock excludes as long as no process leaves its lock  *)
(* file behind: then no lock is ever taken for stale.  Under it a failed   *)
(* bootstrap changes nothing, and pairs no session with the key of         *)
(* another.  What is said while nobody has died, or nobody has revoked, is *)
(* inductive because a state without a death has no predecessor with one.  *)
(* A list is sorted and cut into pages that together are all of it.        *)
(***************************************************************************)
EXTENDS MCAgwCore, Sums, SequenceTheorems, TLAPS

LEMMA InitTyped == Init => TypeOK
  BY ConstantsAssumption
     DEF Init, TypeOK, NoLock, Keys, Session, Missing, ActiveSession, NewMemory,
         Memory, Places

Failures == {"flow", "restore", "delete"}

LEMMA MemTyped ==
  ASSUME TypeOK, NEW p \in Processes, NEW failure \in Failures
  PROVE  /\ mem[p] \in Memory
         /\ [mem[p] EXCEPT !.failed = failure] \in Memory
  BY DEF TypeOK, Memory, Failures

LEMMA MovesTyped ==
  ASSUME TypeOK, NEW p \in Processes, NEW there \in Places,
         \/ Goto(p, there)
         \/ \E failure \in Failures :
              GoWith(p, there, [mem[p] EXCEPT !.failed = failure])
  PROVE  /\ pc' \in [Processes -> Places]
         /\ mem' \in [Processes -> Memory]
  BY MemTyped DEF TypeOK, Goto, GoWith

LEMMA LockStepTyped ==
  ASSUME TypeOK, NEW p \in Processes,
         Open(p) \/ Stat(p) \/ Read(p) \/ Unlink(p) \/ WritePid(p) \/ Release(p)
  PROVE  TypeOK'
<1>1. CASE Open(p)
  <2>1. CASE lock = NoLock
    <3>1. lock' = LockOf(p) /\ Goto(p, "write") /\ UNCHANGED <<key, session, registered>>
      BY <1>1, <2>1 DEF Open
    <3>2. pc' \in [Processes -> Places] /\ mem' \in [Processes -> Memory]
      BY <3>1, MovesTyped DEF Places
    <3> QED
      BY <3>1, <3>2, ConstantsAssumption DEF TypeOK, NoLock, LockOf
  <2>2. CASE lock # NoLock
    BY <1>1, <2>2, MovesTyped DEF Open, TypeOK, Places
  <2> QED
    BY <2>1, <2>2
<1>2. CASE Stat(p)
  <2>1. [mem[p] EXCEPT !.aged = lock.old] \in Memory
    BY DEF TypeOK, Memory
  <2> QED
    BY <1>2, <2>1 DEF Stat, GoWith, TypeOK, Places
<1>3. CASE Read(p)
  BY <1>3 DEF Read, Goto, GoWith, TypeOK, NoLock, Memory, Places
<1>4. CASE Unlink(p)
  <2>1. [mem[p] EXCEPT !.again = TRUE] \in Memory
    BY DEF TypeOK, Memory
  <2> QED
    BY <1>4, <2>1 DEF Unlink, GoWith, TypeOK, NoLock, Places
<1>5. CASE WritePid(p)
  <2>1. /\ lock' \in [owner: Processes \cup {None}, pid: BOOLEAN, old: BOOLEAN]
        /\ lock'.owner = None => lock' = NoLock
    <3>1. \/ lock' = NoLock
          \/ lock' = [lock EXCEPT !.pid = TRUE] /\ lock.owner = p
          \/ lock' = lock
      BY <1>5 DEF WritePid, WithPid
    <3>2. CASE lock' = NoLock
      BY <3>2 DEF NoLock, TypeOK
    <3>3. CASE lock' = [lock EXCEPT !.pid = TRUE] /\ lock.owner = p
      BY <3>3, ConstantsAssumption DEF TypeOK
    <3>4. CASE lock' = lock
      BY <3>4 DEF TypeOK, NoLock
    <3> QED
      BY <3>1, <3>2, <3>3, <3>4
  <2>2. Goto(p, "capture") \/ Goto(p, "refused")
    BY <1>5 DEF WritePid
  <2> QED
    <3>1. pc' \in [Processes -> Places] /\ mem' \in [Processes -> Memory]
      BY <2>2, MovesTyped DEF Places
    <3> QED
      BY <1>5, <2>1, <3>1 DEF WritePid, TypeOK
<1>6. CASE Release(p)
  BY <1>6 DEF Release, Goto, GoWith, TypeOK, NoLock, Memory, Places
<1> QED
  BY <1>1, <1>2, <1>3, <1>4, <1>5, <1>6

LEMMA InitStepTyped ==
  ASSUME TypeOK, NEW p \in Processes,
         \/ StartInit(p) \/ CaptureKey(p) \/ CaptureSession(p) \/ Answered(p)
         \/ SaveKey(p) \/ SaveSession(p) \/ RestoreKey(p) \/ RestoreSession(p)
  PROVE  TypeOK'
<1>1. CASE StartInit(p)
  BY <1>1 DEF StartInit, GoWith, TypeOK, Memory, Places, NoLock
<1>2. CASE CaptureKey(p)
  BY <1>2 DEF CaptureKey, GoWith, TypeOK, Memory, Places, NoLock
<1>3. CASE CaptureSession(p)
  BY <1>3 DEF CaptureSession, GoWith, TypeOK, Memory, Places, NoLock
<1>4. CASE Answered(p)
  <2>1. Goto(p, "saveKey") \/ GoWith(p, "restoreKey", [mem[p] EXCEPT !.failed = "flow"])
    BY <1>4 DEF Answered
  <2>2. pc' \in [Processes -> Places] /\ mem' \in [Processes -> Memory]
    BY <2>1, MovesTyped DEF Places, Failures
  <2>3. UNCHANGED <<lock, key, session, registered>>
    BY <1>4 DEF Answered
  <2> QED
    BY <2>2, <2>3 DEF TypeOK, NoLock
<1>5. CASE SaveKey(p)
  <2>1. /\ \/ Goto(p, "saveSession")
           \/ GoWith(p, "restoreKey", [mem[p] EXCEPT !.failed = "flow"])
        /\ key' \in {p, key} /\ UNCHANGED <<lock, session, registered>>
    BY <1>5 DEF SaveKey
  <2>2. pc' \in [Processes -> Places] /\ mem' \in [Processes -> Memory]
    BY <2>1, MovesTyped DEF Places, Failures
  <2> QED
    BY <2>1, <2>2 DEF TypeOK, NoLock, Keys
<1>6. CASE SaveSession(p)
  <2>1. key' \in Keys \cup {None, Torn} /\ session' \in Session
    <3>1. key' \in {key, None} /\ session' \in {session, ActiveSession(mem[p].approved, p)}
      BY <1>6 DEF SaveSession
    <3>2. mem[p].approved \in Wallets \cup {None}
      BY DEF TypeOK, Memory
    <3> QED
      BY <3>1, <3>2 DEF TypeOK, Keys, Session, ActiveSession
  <2> QED
    BY <1>6, <2>1, MovesTyped DEF SaveSession, TypeOK, Places, NoLock, Failures
<1>7. CASE RestoreKey(p)
  <2>1. key' \in Keys \cup {None, Torn}
    BY <1>7 DEF RestoreKey, Restored, TypeOK, Memory
  <2> QED
    BY <1>7, <2>1, MovesTyped DEF RestoreKey, TypeOK, Places, NoLock, Failures
<1>8. CASE RestoreSession(p)
  <2>1. session' \in Session
    BY <1>8 DEF RestoreSession, TypeOK, Memory, Session, Missing
  <2> QED
    BY <1>8, <2>1, MovesTyped DEF RestoreSession, TypeOK, Places, NoLock, Failures
<1> QED
  BY <1>1, <1>2, <1>3, <1>4, <1>5, <1>6, <1>7, <1>8

LEMMA RevokeStepTyped ==
  ASSUME TypeOK, NEW p \in Processes,
         \/ StartRevoke(p) \/ RevokeAnswered(p) \/ MarkRevoked(p)
         \/ Wipe(p) \/ UnlinkKey(p) \/ KeepsKey(p)
  PROVE  TypeOK'
<1>1. CASE StartRevoke(p)
  <2>1. [mem[p] EXCEPT !.flow = "revoke", !.session = session] \in Memory
    BY DEF TypeOK, Memory
  <2> QED
    BY <1>1, <2>1 DEF StartRevoke, GoWith, TypeOK, Places, NoLock
<1>2. CASE RevokeAnswered(p)
  BY <1>2, MovesTyped DEF RevokeAnswered, TypeOK, Places, NoLock, Failures
<1>3. CASE MarkRevoked(p)
  <2>1. session' \in Session
    BY <1>3 DEF MarkRevoked, Marked, RevokedSession, TypeOK, Memory, Session
  <2> QED
    BY <1>3, <2>1, MovesTyped DEF MarkRevoked, TypeOK, Places, NoLock, Failures
<1>4. CASE Wipe(p)
  BY <1>4 DEF Wipe, Goto, GoWith, TypeOK, Memory, Places, NoLock
<1>5. CASE UnlinkKey(p)
  BY <1>5 DEF UnlinkKey, Goto, GoWith, TypeOK, Memory, Places, NoLock
<1>6. CASE KeepsKey(p)
  BY <1>6, MovesTyped DEF KeepsKey, TypeOK, Places, NoLock, Failures
<1> QED
  BY <1>1, <1>2, <1>3, <1>4, <1>5, <1>6

LEMMA OtherStepTyped ==
  ASSUME TypeOK,
         Age \/ \E p \in Processes : Approve(p) \/ Die(p)
  PROVE  TypeOK'
<1>1. CASE Age
  BY <1>1 DEF Age, TypeOK, NoLock
<1>2. ASSUME NEW p \in Processes, Approve(p) PROVE TypeOK'
  <2>1. registered' \subseteq Wallets \X Keys
    BY <1>2 DEF Approve, TypeOK, Keys
  <2>2. \A w \in Wallets : [mem[p] EXCEPT !.approved = w] \in Memory
    BY DEF TypeOK, Memory
  <2> QED
    BY <1>2, <2>1, <2>2 DEF Approve, TypeOK, NoLock
<1>3. ASSUME NEW p \in Processes, Die(p) PROVE TypeOK'
  BY <1>3 DEF Die, Goto, GoWith, TypeOK, Memory, Places, NoLock
<1> QED
  BY <1>1, <1>2, <1>3

LEMMA NextTyped == TypeOK /\ [Next]_vars => TypeOK'
<1> SUFFICES ASSUME TypeOK, [Next]_vars PROVE TypeOK'
  OBVIOUS
<1>1. CASE UNCHANGED vars
  BY <1>1 DEF vars, TypeOK, NoLock
<1>2. CASE Next
  BY <1>2, LockStepTyped, InitStepTyped, RevokeStepTyped, OtherStepTyped
     DEF Next, Step
<1> QED
  BY <1>1, <1>2

\* Every reachable state is well typed, for every set of commands, whatever
\* fails and whichever process dies.
THEOREM TypeCorrect == Spec => []TypeOK
  BY InitTyped, NextTyped, PTL DEF Spec

-----------------------------------------------------------------------------
\* No lock is old or taken for stale, and who is inside owns the lock.
LockInv ==
  /\ ~lock.old
  /\ \A p \in Processes :
       /\ pc[p] \notin {"dead", "unlink"}
       /\ ~mem[p].aged
       /\ pc[p] \in Inside => lock.owner = p

LEMMA InitLock == Init => LockInv
  BY DEF Init, LockInv, NoLock, NewMemory, Inside

\* A lock is stale only if its owner is dead or it is old.
LEMMA NeverStale ==
  ASSUME TypeOK, LockInv, NEW p \in Processes
  PROVE  ~Stale(p)
<1>1. CASE lock.pid
  <2>1. lock.owner \in Processes
    BY <1>1 DEF TypeOK, NoLock
  <2> QED
    BY <1>1, <2>1 DEF Stale, Alive, LockInv
<1>2. CASE ~lock.pid
  BY <1>2 DEF Stale, LockInv
<1> QED
  BY <1>1, <1>2

\* A step that leaves the lock and what others do, and does not enter.
LEMMA QuietLock ==
  ASSUME TypeOK, LockInv, NEW p \in Processes, UNCHANGED lock,
         pc' \in [Processes -> Places],
         \A q \in Processes : q # p => pc'[q] = pc[q] /\ mem'[q] = mem[q],
         pc'[p] \notin {"dead", "unlink"}, ~mem'[p].aged,
         pc'[p] \in Inside => pc[p] \in Inside
  PROVE  LockInv'
  BY DEF LockInv, TypeOK

\* The owner leaves and takes the lock with it.
LEMMA LeavingLock ==
  ASSUME TypeOK, LockInv, NEW p \in Processes, pc[p] \in Inside,
         lock' = NoLock, NEW there \in {"done", "refused"}, Goto(p, there)
  PROVE  LockInv'
<1>1. \A q \in Processes \ {p} : pc'[q] = pc[q] /\ mem'[q] = mem[q] /\ pc[q] \notin Inside
  BY DEF LockInv, TypeOK, Goto
<1>2. pc'[p] = there /\ ~mem'[p].aged
  BY DEF LockInv, TypeOK, Goto, GoWith, Memory
<1> QED
  BY <1>1, <1>2 DEF LockInv, NoLock, Inside

LEMMA LockStepLock ==
  ASSUME TypeOK, LockInv, NEW p \in Processes,
         Open(p) \/ Stat(p) \/ Read(p) \/ Unlink(p) \/ WritePid(p) \/ Release(p)
  PROVE  LockInv'
<1>1. CASE Open(p)
  <2>1. CASE lock = NoLock
    <3>1. lock' = LockOf(p) /\ Goto(p, "write")
      BY <1>1, <2>1 DEF Open
    <3>2. \A q \in Processes \ {p} : pc'[q] = pc[q] /\ mem'[q] = mem[q] /\ pc[q] \notin Inside
      BY <2>1, <3>1, ConstantsAssumption DEF LockInv, TypeOK, Goto, GoWith, NoLock
    <3>3. pc'[p] = "write" /\ ~mem'[p].aged
      BY <3>1 DEF LockInv, TypeOK, Goto, GoWith, Memory
    <3> QED
      BY <3>1, <3>2, <3>3 DEF LockInv, LockOf
  <2>2. CASE lock # NoLock
    <3> DEFINE there == IF mem[p].again THEN "refused" ELSE "stat"
    <3>1. Goto(p, there) /\ UNCHANGED lock
      BY <1>1, <2>2 DEF Open
    <3>2. there \in Places /\ there \notin Inside \cup {"dead", "unlink"}
      BY DEF Places, Inside
    <3> HIDE DEF there
    <3> QED
      BY <3>1, <3>2, QuietLock DEF Goto, LockInv, TypeOK
  <2> QED
    BY <2>1, <2>2
<1>2. CASE Stat(p)
  BY <1>2, QuietLock DEF Stat, GoWith, LockInv, TypeOK, Memory, Places, Inside
<1>3. CASE Read(p)
  <2>1. Goto(p, "refused") /\ UNCHANGED lock
    BY <1>3, NeverStale DEF Read
  <2> QED
    BY <2>1, QuietLock DEF Goto, LockInv, TypeOK, Places, Inside
<1>4. CASE Unlink(p)
  BY <1>4 DEF Unlink, At, LockInv
<1>5. CASE WritePid(p)
  <2>0. pc[p] = "write" /\ lock.owner = p
    BY <1>5 DEF WritePid, At, LockInv, Inside
  <2>1. CASE lock' = WithPid(p) /\ Goto(p, "capture")
    <3>1. lock'.owner = p /\ ~lock'.old
      BY <2>0, <2>1 DEF WithPid, TypeOK, LockInv
    <3>2. \A q \in Processes \ {p} : pc'[q] = pc[q] /\ mem'[q] = mem[q] /\ pc[q] \notin Inside
      BY <2>0, <2>1 DEF LockInv, TypeOK, Goto
    <3>3. pc'[p] = "capture" /\ ~mem'[p].aged
      BY <2>1 DEF LockInv, TypeOK, Goto, GoWith, Memory
    <3> QED
      BY <3>1, <3>2, <3>3 DEF LockInv
  <2>2. CASE lock' = NoLock /\ Goto(p, "refused")
    BY <2>0, <2>2, LeavingLock DEF Inside
  <2> QED
    BY <1>5, <2>1, <2>2 DEF WritePid
<1>6. CASE Release(p)
  BY <1>6, LeavingLock DEF Release, At, Inside
<1> QED
  BY <1>1, <1>2, <1>3, <1>4, <1>5, <1>6

LEMMA OtherStepLock ==
  ASSUME TypeOK, LockInv, NEW p \in Processes,
         \/ StartInit(p) \/ CaptureKey(p) \/ CaptureSession(p) \/ Answered(p)
         \/ SaveKey(p) \/ SaveSession(p) \/ RestoreKey(p) \/ RestoreSession(p)
         \/ StartRevoke(p) \/ RevokeAnswered(p) \/ MarkRevoked(p)
         \/ Wipe(p) \/ UnlinkKey(p) \/ KeepsKey(p) \/ Approve(p)
  PROVE  LockInv'
<1>1. UNCHANGED lock
  BY DEF StartInit, CaptureKey, CaptureSession, Answered, SaveKey, SaveSession,
         RestoreKey, RestoreSession, StartRevoke, RevokeAnswered, MarkRevoked,
         Wipe, UnlinkKey, KeepsKey, Approve
<1>2. \A q \in Processes : q # p => pc'[q] = pc[q] /\ mem'[q] = mem[q]
  BY DEF StartInit, CaptureKey, CaptureSession, Answered, SaveKey, SaveSession,
         RestoreKey, RestoreSession, StartRevoke, RevokeAnswered, MarkRevoked,
         Wipe, UnlinkKey, KeepsKey, Approve, Goto, GoWith, TypeOK
<1>3. mem'[p].aged = mem[p].aged
  <2>1. CASE StartInit(p) \/ CaptureKey(p)
    <3>1. \/ mem' = [mem EXCEPT ![p] = [mem[p] EXCEPT !.flow = "init"]]
          \/ mem' = [mem EXCEPT ![p] = [mem[p] EXCEPT !.key = key]]
      BY <2>1 DEF StartInit, CaptureKey, GoWith
    <3> QED
      BY <3>1 DEF TypeOK, Memory
  <2>2. CASE CaptureSession(p) \/ StartRevoke(p)
    <3>1. \/ mem' = [mem EXCEPT ![p] = [mem[p] EXCEPT !.session = session]]
          \/ mem' = [mem EXCEPT ![p] =
                       [mem[p] EXCEPT !.flow = "revoke", !.session = session]]
      BY <2>2 DEF CaptureSession, StartRevoke, GoWith
    <3>2. p \in DOMAIN mem /\ mem[p] \in Memory
      BY DEF TypeOK
    <3>3. \A m \in Memory : [m EXCEPT !.session = session].aged = m.aged
      BY DEF Memory
    <3>4. \A m \in Memory :
            [m EXCEPT !.flow = "revoke", !.session = session].aged = m.aged
      BY DEF Memory
    <3>5. \/ mem'[p] = [mem[p] EXCEPT !.session = session]
          \/ mem'[p] = [mem[p] EXCEPT !.flow = "revoke", !.session = session]
      BY <3>1, <3>2
    <3> QED
      BY <3>2, <3>3, <3>4, <3>5
  <2>3. CASE Answered(p) \/ Approve(p)
    <3>1. \/ mem' = mem
          \/ mem' = [mem EXCEPT ![p] = [mem[p] EXCEPT !.failed = "flow"]]
          \/ \E w \in Wallets : mem' = [mem EXCEPT ![p].approved = w]
      BY <2>3 DEF Answered, Approve, Goto, GoWith
    <3> QED
      BY <3>1 DEF TypeOK, Memory
  <2>4. CASE \/ SaveKey(p) \/ SaveSession(p) \/ RevokeAnswered(p) \/ MarkRevoked(p)
    <3>1. \/ mem' = mem
          \/ mem' = [mem EXCEPT ![p] = [mem[p] EXCEPT !.failed = "flow"]]
      BY <2>4 DEF SaveKey, SaveSession, RevokeAnswered, MarkRevoked, Goto, GoWith
    <3> QED
      BY <3>1 DEF TypeOK, Memory
  <2>5. CASE \/ RestoreKey(p) \/ RestoreSession(p)
             \/ Wipe(p) \/ UnlinkKey(p) \/ KeepsKey(p)
    <3>1. \/ mem' = mem
          \/ mem' = [mem EXCEPT ![p] = [mem[p] EXCEPT !.failed = "restore"]]
          \/ mem' = [mem EXCEPT ![p] = [mem[p] EXCEPT !.failed = "delete"]]
      BY <2>5 DEF RestoreKey, RestoreSession, Wipe, UnlinkKey, KeepsKey, Goto, GoWith
    <3> QED
      BY <3>1 DEF TypeOK, Memory
  <2> QED
    BY <2>1, <2>2, <2>3, <2>4, <2>5
<1>4. CASE /\ pc'[p] \in Inside
           /\ pc[p] \in Inside
  BY <1>1, <1>2, <1>3, <1>4 DEF LockInv, Inside
<1>5. CASE /\ pc'[p] \in Places \ (Inside \cup {"dead", "unlink"})
  BY <1>1, <1>2, <1>3, <1>5 DEF LockInv, Inside
<1>6. CASE StartInit(p)
  BY <1>5, <1>6 DEF StartInit, GoWith, TypeOK, Memory, Places, Inside
<1>7. CASE CaptureKey(p) \/ CaptureSession(p) \/ Answered(p)
  BY <1>4, <1>7 DEF CaptureKey, CaptureSession, Answered, Goto, GoWith, At, TypeOK,
                    Memory, Inside
<1>8. CASE SaveKey(p) \/ SaveSession(p) \/ RestoreKey(p) \/ RestoreSession(p)
  BY <1>4, <1>8 DEF SaveKey, SaveSession, RestoreKey, RestoreSession, Goto, GoWith, At,
                    TypeOK, Memory, Inside
<1>9. CASE StartRevoke(p) \/ RevokeAnswered(p) \/ MarkRevoked(p)
  BY <1>5, <1>9 DEF StartRevoke, RevokeAnswered, MarkRevoked, Goto, GoWith, TypeOK,
                    Memory, Places, Inside
<1>10. CASE Wipe(p) \/ UnlinkKey(p) \/ KeepsKey(p)
  BY <1>5, <1>10 DEF Wipe, UnlinkKey, KeepsKey, Goto, GoWith, TypeOK, Memory, Places,
                     Inside
<1>11. CASE Approve(p)
  BY <1>1, <1>2, <1>3, <1>11 DEF Approve, TypeOK, Memory, LockInv, Inside
<1> QED
  BY <1>6, <1>7, <1>8, <1>9, <1>10, <1>11

\* A dead process stays dead.
LEMMA DeathStays ==
  ASSUME TypeOK, [Next]_vars, NobodyDied'
  PROVE  NobodyDied
<1> SUFFICES ASSUME NEW q \in Processes, pc[q] = "dead" PROVE pc'[q] = "dead"
  BY DEF NobodyDied, Alive
<1>1. CASE Age \/ UNCHANGED vars
  BY <1>1 DEF Age, vars
<1>2. ASSUME NEW p \in Processes, Step(p) \/ StartInit(p) \/ StartRevoke(p)
                                  \/ Approve(p) \/ Die(p)
      PROVE  pc'[q] = "dead"
  <2>1. p # q
    BY <1>2 DEF Step, StartInit, StartRevoke, Approve, Die, Open, Stat, Read, Unlink,
                WritePid, CaptureKey, CaptureSession, Answered, SaveKey, SaveSession,
                RestoreKey, RestoreSession, Release, RevokeAnswered, MarkRevoked, Wipe,
                UnlinkKey, KeepsKey, At
  <2>2. pc' = pc \/ \E there : pc' = [pc EXCEPT ![p] = there]
    BY <1>2 DEF Step, StartInit, StartRevoke, Approve, Die, Open, Stat, Read, Unlink,
                WritePid, CaptureKey, CaptureSession, Answered, SaveKey, SaveSession,
                RestoreKey, RestoreSession, Release, RevokeAnswered, MarkRevoked, Wipe,
                UnlinkKey, KeepsKey, Goto, GoWith
  <2> QED
    BY <2>1, <2>2 DEF TypeOK
<1> QED
  BY <1>1, <1>2 DEF Next

LEMMA NextLock ==
  ASSUME TypeOK, NobodyDied => LockInv, [Next]_vars, NobodyDied'
  PROVE  LockInv'
<1>0. LockInv
  BY DeathStays
<1>1. CASE UNCHANGED vars
  BY <1>0, <1>1 DEF vars, LockInv, Inside
<1>2. CASE Age
  <2>1. lock.owner \in Processes
    BY <1>2 DEF Age, TypeOK
  <2> QED
    BY <1>0, <1>2, <2>1 DEF Age, Alive, LockInv
<1>3. ASSUME NEW p \in Processes, Die(p) PROVE FALSE
  BY <1>3 DEF Die, Goto, TypeOK, NobodyDied, Alive
<1> QED
  BY <1>0, <1>1, <1>2, <1>3, LockStepLock, OtherStepLock DEF Next, Step

LEMMA LockAlways == Spec => [](NobodyDied => LockInv)
<1>1. TypeOK /\ (NobodyDied => LockInv) /\ [Next]_vars => (NobodyDied => LockInv)'
  BY NextLock
<1> QED
  BY InitLock, TypeCorrect, <1>1, PTL DEF Spec

\* As long as no process has left its lock file behind, no two bootstraps of
\* a directory are ever between acquireBootstrapLock and release.
THEOREM Exclusion == Spec => []LockExcludes
<1>1. (NobodyDied => LockInv) => LockExcludes
  BY DEF LockInv, LockExcludes, MutualExclusion
<1> QED
  BY LockAlways, <1>1, PTL

-----------------------------------------------------------------------------
(* Registration: an approval precedes the save of a session, and without a *)
(* revoke no signer leaves the wallet.  Locks play no part, so crashes and *)
(* stale locks do not matter.                                              *)

Revoking == {"revoking", "mark", "wipe", "unlinkKey"}

\* No command has revoked before it has started.
Fresh == \A p \in Processes : At(p, "idle") => mem[p].flow = "none"

LEMMA NextFresh ==
  ASSUME TypeOK, Fresh, [Next]_vars
  PROVE  Fresh' /\ (NoRevoke' => NoRevoke)
<1>1. CASE Age \/ UNCHANGED vars
  BY <1>1 DEF Age, vars, Fresh, NoRevoke, At
<1>2. ASSUME NEW p \in Processes, StartInit(p) \/ StartRevoke(p)
      PROVE  Fresh' /\ (NoRevoke' => NoRevoke)
  <2>1. /\ mem[p].flow = "none"
        /\ \A q \in Processes : q # p => pc'[q] = pc[q] /\ mem'[q] = mem[q]
        /\ pc'[p] # "idle"
    BY <1>2 DEF StartInit, StartRevoke, GoWith, Fresh, TypeOK, At
  <2> QED
    BY <2>1 DEF Fresh, NoRevoke, At
<1>3. ASSUME NEW p \in Processes, Step(p) \/ Approve(p) \/ Die(p)
      PROVE  Fresh' /\ (NoRevoke' => NoRevoke)
  <2>1. /\ \A q \in Processes : q # p => pc'[q] = pc[q] /\ mem'[q] = mem[q]
        /\ pc'[p] # "idle"
    BY <1>3 DEF Step, Approve, Die, Open, Stat, Read, Unlink, WritePid, CaptureKey,
                CaptureSession, Answered, SaveKey, SaveSession, RestoreKey,
                RestoreSession, Release, RevokeAnswered, MarkRevoked, Wipe, UnlinkKey,
                KeepsKey, Goto, GoWith, TypeOK, At
  <2>2. \/ mem' = mem
        \/ mem' = [mem EXCEPT ![p] = [mem[p] EXCEPT !.aged = lock.old]]
        \/ mem' = [mem EXCEPT ![p] = [mem[p] EXCEPT !.again = TRUE]]
        \/ mem' = [mem EXCEPT ![p] = [mem[p] EXCEPT !.key = key]]
        \/ mem' = [mem EXCEPT ![p] = [mem[p] EXCEPT !.session = session]]
        \/ \E w \in Wallets : mem' = [mem EXCEPT ![p].approved = w]
        \/ \E failure \in Failures :
             mem' = [mem EXCEPT ![p] = [mem[p] EXCEPT !.failed = failure]]
    BY <1>3 DEF Step, Approve, Die, Open, Stat, Read, Unlink, WritePid, CaptureKey,
                CaptureSession, Answered, SaveKey, SaveSession, RestoreKey,
                RestoreSession, Release, RevokeAnswered, MarkRevoked, Wipe, UnlinkKey,
                KeepsKey, Goto, GoWith, Failures
  <2>3. mem'[p].flow = mem[p].flow
    BY <2>2 DEF TypeOK, Memory
  <2> QED
    BY <2>1, <2>3 DEF Fresh, NoRevoke, At
<1> QED
  BY <1>1, <1>2, <1>3 DEF Next

LEMMA FreshAlways == Spec => []Fresh
<1>1. Init => Fresh
  BY DEF Init, Fresh, NewMemory
<1>2. TypeOK /\ Fresh /\ [Next]_vars => Fresh'
  BY NextFresh
<1> QED
  BY TypeCorrect, <1>1, <1>2, PTL DEF Spec

LEMMA RevokeShows ==
  ASSUME TypeOK, NEW p \in Processes, StartRevoke(p)
  PROVE  ~NoRevoke'
<1>1. mem' = [mem EXCEPT ![p] = [mem[p] EXCEPT !.flow = "revoke", !.session = session]]
  BY DEF StartRevoke, GoWith
<1>2. mem'[p].flow = "revoke"
  BY <1>1 DEF TypeOK, Memory
<1> QED
  BY <1>2 DEF NoRevoke

\* The sessions for signers that their wallets have registered, when the signers
\* were approved for these.
Vouched ==
  {s \in Session :
     s.status = "active" =>
       /\ s.signer \in Keys /\ s.wallet = WalletOf(s.signer)
       /\ <<s.wallet, s.signer>> \in registered}

\* The keys that may be in a file.
Usable == {None, Torn} \cup {k \in Keys : <<WalletOf(k), k>> \in registered}

RegisteredInv ==
  /\ session \in Vouched
  /\ \A p \in Processes :
       /\ pc[p] \notin Revoking
       /\ mem[p].approved # None => <<mem[p].approved, p>> \in registered
       /\ pc[p] \in {"saveKey", "saveSession"} => mem[p].approved # None
       /\ mem[p].session \in Vouched

LEMMA InactiveVouched ==
  /\ Missing \in Vouched
  /\ [Missing EXCEPT !.status = "torn"] \in Vouched
  BY DEF Vouched, Missing, Session

LEMMA InitRegistered == Init => RegisteredInv
<1> SUFFICES ASSUME Init PROVE RegisteredInv
  OBVIOUS
<1>1. session \in Vouched
  <2>1. CASE session = Missing
    BY <2>1, InactiveVouched
  <2>2. CASE session = ActiveSession(EarlierWallet, Earlier)
    <3>1. registered = {<<EarlierWallet, Earlier>>}
      BY DEF Init
    <3> QED
      BY <2>2, <3>1, ConstantsAssumption DEF Vouched, Session, ActiveSession, WalletOf, Keys
  <2> QED
    BY <2>1, <2>2 DEF Init
<1> QED
  BY <1>1, InactiveVouched DEF Init, RegisteredInv, NewMemory, Revoking

\* An approval is for one wallet, and for good.
LEMMA ApprovedOnce ==
  ASSUME TypeOK, [Next]_vars, NEW k \in Processes, mem[k].approved # None
  PROVE  mem'[k].approved = mem[k].approved
<1>1. CASE Age \/ UNCHANGED vars
  BY <1>1 DEF Age, vars
<1>2. ASSUME NEW p \in Processes,
             StartInit(p) \/ StartRevoke(p) \/ Step(p) \/ Die(p)
      PROVE  mem'[k].approved = mem[k].approved
  <2>1. \/ mem' = mem
        \/ mem' = [mem EXCEPT ![p] = [mem[p] EXCEPT !.flow = "init"]]
        \/ mem' = [mem EXCEPT ![p] = [mem[p] EXCEPT !.flow = "revoke", !.session = session]]
        \/ mem' = [mem EXCEPT ![p] = [mem[p] EXCEPT !.aged = lock.old]]
        \/ mem' = [mem EXCEPT ![p] = [mem[p] EXCEPT !.again = TRUE]]
        \/ mem' = [mem EXCEPT ![p] = [mem[p] EXCEPT !.key = key]]
        \/ mem' = [mem EXCEPT ![p] = [mem[p] EXCEPT !.session = session]]
        \/ \E failure \in Failures :
             mem' = [mem EXCEPT ![p] = [mem[p] EXCEPT !.failed = failure]]
    BY <1>2 DEF StartInit, StartRevoke, Step, Die, Open, Stat, Read, Unlink, WritePid,
                CaptureKey, CaptureSession, Answered, SaveKey, SaveSession, RestoreKey,
                RestoreSession, Release, RevokeAnswered, MarkRevoked, Wipe, UnlinkKey,
                KeepsKey, Goto, GoWith, Failures
  <2>2. mem \in [Processes -> Memory] /\ mem[p] \in Memory
    BY DEF TypeOK
  <2>3. CASE mem' = [mem EXCEPT ![p] = [mem[p] EXCEPT !.flow = "revoke", !.session = session]]
    BY <2>2, <2>3 DEF Memory
  <2>4. CASE \E failure \in Failures :
               mem' = [mem EXCEPT ![p] = [mem[p] EXCEPT !.failed = failure]]
    BY <2>2, <2>4 DEF Memory
  <2> QED
    BY <2>1, <2>2, <2>3, <2>4 DEF Memory
<1>3. ASSUME NEW p \in Processes, Approve(p)
      PROVE  mem'[k].approved = mem[k].approved
  <2>1. PICK w \in Wallets : mem' = [mem EXCEPT ![p].approved = w]
    BY <1>3 DEF Approve
  <2>2. p # k
    BY <1>3 DEF Approve
  <2> QED
    BY <2>1, <2>2 DEF TypeOK
<1> QED
  BY <1>1, <1>2, <1>3 DEF Next

\* What is registered stays so until a revoke, and so does what rests on it.
LEMMA VouchedStays ==
  ASSUME TypeOK, RegisteredInv, [Next]_vars
  PROVE  registered \subseteq registered' /\ Vouched \subseteq Vouched' /\ Usable \subseteq Usable'
<1>1. registered \subseteq registered'
  <2>1. \A p \in Processes : ~At(p, "revoking")
    BY DEF RegisteredInv, Revoking, At
  <2> QED
    BY <2>1 DEF Next, Age, vars, StartInit, StartRevoke, Step, Approve, Die, Open, Stat, Read,
                Unlink, WritePid, CaptureKey, CaptureSession, Answered, SaveKey, SaveSession,
                RestoreKey, RestoreSession, Release, RevokeAnswered, MarkRevoked, Wipe,
                UnlinkKey, KeepsKey, At
<1>2. ASSUME NEW k \in Keys, <<WalletOf(k), k>> \in registered
      PROVE  WalletOf(k)' = WalletOf(k)
  <2>1. CASE k = Earlier
    BY <2>1 DEF WalletOf
  <2>2. CASE k # Earlier
    <3>1. k \in Processes /\ WalletOf(k) = mem[k].approved /\ mem[k].approved # None
      BY <1>2, <2>2, ConstantsAssumption DEF WalletOf, Keys, TypeOK
    <3>2. mem'[k].approved = mem[k].approved
      BY <3>1, ApprovedOnce
    <3> QED
      BY <2>2, <3>1, <3>2 DEF WalletOf
  <2> QED
    BY <2>1, <2>2
<1> QED
  BY <1>1, <1>2 DEF Vouched, Usable

LEMMA NextRegistered ==
  ASSUME TypeOK, Fresh, NoRevoke => RegisteredInv, [Next]_vars, NoRevoke'
  PROVE  RegisteredInv'
<1>0. RegisteredInv
  BY NextFresh
<1>a. registered \subseteq registered' /\ Vouched \subseteq Vouched'
  BY <1>0, VouchedStays
<1> USE <1>0, <1>a DEF RegisteredInv, Revoking
<1>1. ASSUME NEW p \in Processes, Open(p) \/ Stat(p) \/ Read(p) \/ Unlink(p) \/ WritePid(p) \/ Release(p)
      PROVE  RegisteredInv'
  <2>1. /\ UNCHANGED <<session, registered>>
        /\ pc' = [pc EXCEPT ![p] = pc'[p]]
        /\ pc'[p] \notin Revoking \cup {"saveKey", "saveSession"}
    BY <1>1 DEF Open, Stat, Read, Unlink, WritePid, Release, Goto, GoWith, TypeOK
  <2>2. \/ mem' = mem
        \/ mem' = [mem EXCEPT ![p] = [mem[p] EXCEPT !.aged = lock.old]]
        \/ mem' = [mem EXCEPT ![p] = [mem[p] EXCEPT !.again = TRUE]]
    BY <1>1 DEF Open, Stat, Read, Unlink, WritePid, Release, Goto, GoWith
  <2>3. \A q \in Processes :
          mem'[q].approved = mem[q].approved /\ mem'[q].session = mem[q].session
    BY <2>2 DEF TypeOK, Memory
  <2> QED
    BY <2>1, <2>3 DEF TypeOK
<1>2. ASSUME NEW p \in Processes, StartInit(p) \/ CaptureKey(p) \/ CaptureSession(p)
      PROVE  RegisteredInv'
  <2>1. /\ UNCHANGED <<session, registered>>
        /\ pc' = [pc EXCEPT ![p] = pc'[p]]
        /\ pc'[p] \notin Revoking \cup {"saveKey", "saveSession"}
    BY <1>2 DEF StartInit, CaptureKey, CaptureSession, GoWith, TypeOK
  <2>2. \/ mem' = [mem EXCEPT ![p] = [mem[p] EXCEPT !.flow = "init"]]
        \/ mem' = [mem EXCEPT ![p] = [mem[p] EXCEPT !.key = key]]
        \/ mem' = [mem EXCEPT ![p] = [mem[p] EXCEPT !.session = session]]
    BY <1>2 DEF StartInit, CaptureKey, CaptureSession, GoWith
  <2>3. \A q \in Processes :
          mem'[q].approved = mem[q].approved /\ mem'[q].session \in {mem[q].session, session}
    BY <2>2 DEF TypeOK, Memory
  <2> QED
    BY <2>1, <2>3 DEF TypeOK
<1>3. ASSUME NEW p \in Processes, Answered(p) \/ SaveKey(p)
      PROVE  RegisteredInv'
  <2>1. /\ UNCHANGED <<session, registered>>
        /\ pc' = [pc EXCEPT ![p] = pc'[p]]
        /\ pc'[p] \notin Revoking
        /\ pc'[p] \in {"saveKey", "saveSession"} => mem[p].approved # None
    BY <1>3 DEF Answered, Verified, SaveKey, Goto, GoWith, At, TypeOK
  <2>2. \/ mem' = mem
        \/ mem' = [mem EXCEPT ![p] = [mem[p] EXCEPT !.failed = "flow"]]
    BY <1>3 DEF Answered, SaveKey, Goto, GoWith
  <2>3. \A q \in Processes :
          mem'[q].approved = mem[q].approved /\ mem'[q].session = mem[q].session
    BY <2>2 DEF TypeOK, Memory
  <2> QED
    BY <2>1, <2>3 DEF TypeOK
<1>4. ASSUME NEW p \in Processes, SaveSession(p) \/ RestoreKey(p) \/ RestoreSession(p)
      PROVE  RegisteredInv'
  <2>1. /\ UNCHANGED registered
        /\ pc' = [pc EXCEPT ![p] = pc'[p]]
        /\ pc'[p] \notin Revoking \cup {"saveKey", "saveSession"}
    BY <1>4 DEF SaveSession, RestoreKey, RestoreSession, Goto, GoWith, TypeOK
  <2>2. session' \in Vouched
    <3>1. \/ session' \in {session, mem[p].session, [Missing EXCEPT !.status = "torn"]}
          \/ At(p, "saveSession") /\ session' = ActiveSession(mem[p].approved, p)
      BY <1>4 DEF SaveSession, RestoreKey, RestoreSession
    <3>2. CASE At(p, "saveSession") /\ session' = ActiveSession(mem[p].approved, p)
      <4>1. /\ mem[p].approved \in Wallets /\ <<mem[p].approved, p>> \in registered
            /\ p \in Keys /\ WalletOf(p) = mem[p].approved
        BY <3>2, ConstantsAssumption DEF At, TypeOK, Memory, Keys, WalletOf
      <4> QED
        BY <3>2, <4>1 DEF Vouched, ActiveSession, Session
    <3> QED
      BY <3>1, <3>2, InactiveVouched
  <2>3. \/ mem' = mem
        \/ mem' = [mem EXCEPT ![p] = [mem[p] EXCEPT !.failed = "flow"]]
        \/ mem' = [mem EXCEPT ![p] = [mem[p] EXCEPT !.failed = "restore"]]
    BY <1>4 DEF SaveSession, RestoreKey, RestoreSession, Goto, GoWith
  <2>4. \A q \in Processes :
          mem'[q].approved = mem[q].approved /\ mem'[q].session = mem[q].session
    BY <2>3 DEF TypeOK, Memory
  <2> QED
    BY <2>1, <2>2, <2>4 DEF TypeOK
<1>5. ASSUME NEW p \in Processes, Approve(p)
      PROVE  RegisteredInv'
  <2>1. PICK w \in Wallets :
          /\ UNCHANGED <<session, pc>>
          /\ registered' = registered \cup {<<w, p>>}
          /\ mem' = [mem EXCEPT ![p].approved = w]
    BY <1>5 DEF Approve, At
  <2>2. /\ \A q \in Processes : mem'[q].session = mem[q].session
        /\ \A q \in Processes \ {p} : mem'[q].approved = mem[q].approved
        /\ mem'[p].approved = w /\ w # None
    BY <2>1, ConstantsAssumption DEF TypeOK, Memory
  <2>3. session' \in Vouched' /\ \A q \in Processes : mem'[q].session \in Vouched'
    BY <2>1, <2>2
  <2>4. \A q \in Processes : mem'[q].approved # None => <<mem'[q].approved, q>> \in registered'
    BY <2>1, <2>2
  <2>5. \A q \in Processes :
          pc'[q] \notin Revoking /\ (pc'[q] \in {"saveKey", "saveSession"} => mem'[q].approved # None)
    BY <2>1, <2>2
  <2> QED
    BY <2>3, <2>4, <2>5
<1>6. ASSUME Age \/ UNCHANGED vars \/ \E p \in Processes : Die(p)
      PROVE  RegisteredInv'
  <2>1. /\ UNCHANGED <<session, registered, mem>>
        /\ \A q \in Processes : pc'[q] \in {pc[q], "dead"}
    BY <1>6 DEF Age, vars, Die, Goto, TypeOK
  <2> QED
    BY <2>1
<1>7. \A p \in Processes :
        ~(\/ StartRevoke(p) \/ RevokeAnswered(p) \/ MarkRevoked(p)
          \/ Wipe(p) \/ UnlinkKey(p) \/ KeepsKey(p))
  BY RevokeShows DEF RevokeAnswered, MarkRevoked, Wipe, UnlinkKey, KeepsKey, At
<1> QED
  BY <1>1, <1>2, <1>3, <1>4, <1>5, <1>6, <1>7 DEF Next, Step

\* Until a command revokes, the device never holds an active session for a signer
\* that the wallet of the session has not registered, for any wallets that the
\* inits are approved for, whatever dies and fails.
THEOREM AlwaysRegistered == Spec => []SignerIsRegistered
<1>1. (NoRevoke => RegisteredInv) => SignerIsRegistered
  BY DEF RegisteredInv, Vouched, SignerIsRegistered
<1>2. /\ TypeOK /\ Fresh /\ (NoRevoke => RegisteredInv) /\ [Next]_vars
      => (NoRevoke => RegisteredInv)'
  BY NextRegistered
<1> QED
  BY TypeCorrect, FreshAlways, InitRegistered, <1>1, <1>2, PTL DEF Spec

-----------------------------------------------------------------------------
(* All or nothing: nobody but the holder of the lock writes, so what it    *)
(* has captured stays what the files hold until it writes itself.          *)

Unfailed ==
  {"idle", "open", "stat", "read", "unlink", "write", "capture", "captureSession",
   "waiting", "saveKey", "saveSession"}

SnapshotInv ==
  \A p \in Processes :
    /\ pc[p] \notin Revoking
    /\ pc[p] \in Unfailed => mem[p].failed = "nothing"
    /\ pc[p] \in {"captureSession", "waiting", "saveKey", "restoreSession"} =>
         key = mem[p].key
    /\ pc[p] \in {"waiting", "saveKey", "saveSession", "restoreKey"} =>
         session = mem[p].session
    /\ At(p, "release") /\ mem[p].failed = "flow" =>
         key = mem[p].key /\ session = mem[p].session

LEMMA InitSnapshot == Init => SnapshotInv
  BY DEF Init, SnapshotInv, NewMemory, Revoking, Unfailed, At

\* A step of p disturbs no other process: either it writes no file, or the
\* others are outside.
LEMMA OthersSnapshot ==
  ASSUME MutualExclusion, SnapshotInv, NEW p \in Processes,
         \A q \in Processes : q # p => pc'[q] = pc[q] /\ mem'[q] = mem[q],
         UNCHANGED <<key, session>> \/ pc[p] \in Inside
  PROVE  \A q \in Processes : q # p =>
           /\ pc'[q] \notin Revoking
           /\ pc'[q] \in Unfailed => mem'[q].failed = "nothing"
           /\ pc'[q] \in {"captureSession", "waiting", "saveKey", "restoreSession"} =>
                key' = mem'[q].key
           /\ pc'[q] \in {"waiting", "saveKey", "saveSession", "restoreKey"} =>
                session' = mem'[q].session
           /\ pc'[q] = "release" /\ mem'[q].failed = "flow" =>
                key' = mem'[q].key /\ session' = mem'[q].session
<1> TAKE q \in Processes
<1> HAVE q # p
<1>1. CASE UNCHANGED <<key, session>>
  BY <1>1 DEF SnapshotInv, At
<1>2. CASE pc[p] \in Inside
  <2>1. pc[q] \notin Inside
    BY <1>2 DEF MutualExclusion
  <2> QED
    BY <2>1 DEF SnapshotInv, Inside
<1> QED
  BY <1>1, <1>2

Undisturbed == NobodyDied /\ NoRevoke

LEMMA NextSnapshot ==
  ASSUME TypeOK, Fresh, LockExcludes, Undisturbed => SnapshotInv, [Next]_vars,
         Undisturbed'
  PROVE  SnapshotInv'
<1>0. SnapshotInv /\ MutualExclusion
  BY DeathStays, NextFresh DEF Undisturbed, LockExcludes
<1>1. CASE Age \/ UNCHANGED vars
  BY <1>0, <1>1 DEF Age, vars, SnapshotInv, At
<1>2. ASSUME NEW p \in Processes, Step(p) \/ StartInit(p) \/ Approve(p)
      PROVE  SnapshotInv'
  <2>1. \A q \in Processes : q # p => pc'[q] = pc[q] /\ mem'[q] = mem[q]
    BY <1>2 DEF Step, StartInit, Open, Stat, Read, Unlink, WritePid, CaptureKey,
                CaptureSession, Answered, SaveKey, SaveSession, RestoreKey,
                RestoreSession, Release, RevokeAnswered, MarkRevoked, Wipe, UnlinkKey,
                KeepsKey, Approve, Goto, GoWith, TypeOK
  <2>2. UNCHANGED <<key, session>> \/ pc[p] \in Inside
    BY <1>0, <1>2
       DEF Step, StartInit, Open, Stat, Read, Unlink, WritePid, CaptureKey,
           CaptureSession, Answered, SaveKey, SaveSession, RestoreKey, RestoreSession,
           Release, RevokeAnswered, MarkRevoked, Wipe, UnlinkKey, KeepsKey, Approve, At,
           Inside, SnapshotInv, Revoking
  <2>3. /\ pc'[p] \notin Revoking
        /\ pc'[p] \in Unfailed => mem'[p].failed = "nothing"
        /\ pc'[p] \in {"captureSession", "waiting", "saveKey", "restoreSession"} =>
             key' = mem'[p].key
        /\ pc'[p] \in {"waiting", "saveKey", "saveSession", "restoreKey"} =>
             session' = mem'[p].session
        /\ pc'[p] = "release" /\ mem'[p].failed = "flow" =>
             key' = mem'[p].key /\ session' = mem'[p].session
    <3> USE <1>0 DEF SnapshotInv, Revoking, Unfailed, At, TypeOK, Memory, Goto, GoWith
    <3>1. CASE StartInit(p) \/ Stat(p) \/ Read(p) \/ Unlink(p)
      BY <3>1 DEF StartInit, Stat, Read, Unlink
    <3>2. CASE Open(p)
      BY <3>2 DEF Open
    <3>3. CASE WritePid(p)
      BY <3>3 DEF WritePid
    <3>4. CASE CaptureKey(p) \/ CaptureSession(p)
      BY <3>4 DEF CaptureKey, CaptureSession
    <3>5. CASE Answered(p)
      BY <3>5 DEF Answered
    <3>6. CASE SaveKey(p) \/ SaveSession(p)
      BY <3>6 DEF SaveKey, SaveSession
    <3>7. CASE RestoreKey(p) \/ RestoreSession(p)
      BY <3>7 DEF RestoreKey, RestoreSession, Restored
    <3>8. CASE Release(p)
      BY <3>8 DEF Release
    <3>9. CASE Approve(p)
      BY <3>9 DEF Approve
    <3>10. ~(\/ RevokeAnswered(p) \/ MarkRevoked(p)
             \/ Wipe(p) \/ UnlinkKey(p) \/ KeepsKey(p))
      BY DEF RevokeAnswered, MarkRevoked, Wipe, UnlinkKey, KeepsKey
    <3> QED
      BY <1>2, <3>1, <3>2, <3>3, <3>4, <3>5, <3>6, <3>7, <3>8, <3>9, <3>10 DEF Step
  <2> QED
    BY <1>0, <2>1, <2>2, <2>3, OthersSnapshot DEF SnapshotInv, At
<1>3. \A p \in Processes : ~StartRevoke(p) /\ ~Die(p)
  BY RevokeShows DEF Die, Goto, TypeOK, Undisturbed, NobodyDied, Alive
<1> QED
  BY <1>1, <1>2, <1>3 DEF Next

\* As long as nobody has died or revoked, a bootstrap that fails at any point
\* and can restore puts back exactly what it has found, for any number of
\* bootstraps at once.
THEOREM AllOrNothing == Spec => []FailedChangesNothing
<1>1. (Undisturbed => SnapshotInv) => FailedChangesNothing
  BY DEF Undisturbed, SnapshotInv, FailedChangesNothing
<1>2. /\ TypeOK /\ Fresh /\ LockExcludes /\ (Undisturbed => SnapshotInv) /\ [Next]_vars
      => (Undisturbed => SnapshotInv)'
  BY NextSnapshot
<1> QED
  BY Exclusion, TypeCorrect, FreshAlways, InitSnapshot, <1>1, <1>2, PTL DEF Spec

-----------------------------------------------------------------------------
(* Commands                                                                *)

Stages == {"idle", "signing", "signed", "opened", "ended"}

Holding ==
  [tool: Tools \cup {None}, asked: BOOLEAN,
   session: Session, key: Keys \cup {None}]

CTypeOK == stage \in [Callers -> Stages] /\ held \in [Callers -> Holding]

\* What the commands do to the device is nothing.
LEMMA DeviceSteps == CNext => [Next]_vars
  BY DEF CNext, Start, CommandStep, Sign, Answer

LEMMA Device == CSpec => Spec
<1>1. CInit => Init
  BY DEF CInit
<1>2. [CNext]_<<vars, cvars>> => [Next]_vars
  BY DeviceSteps
<1> QED
  BY <1>1, <1>2, PTL DEF CSpec, Spec

LEMMA LoadedTyped == TypeOK => Loaded \in Session
  BY DEF TypeOK, Loaded, Missing, Session

LEMMA InitHeld == CInit => CTypeOK
<1>1. NoCommand \in Holding
  BY DEF NoCommand, Holding, Missing, Session
<1> QED
  BY <1>1 DEF CInit, CTypeOK, Stages

LEMMA NextHeld ==
  ASSUME TypeOK, CTypeOK, [CNext]_<<vars, cvars>>
  PROVE  CTypeOK'
<1>1. CASE UNCHANGED cvars
  BY <1>1 DEF cvars, CTypeOK
<1>2. ASSUME NEW c \in Callers, NEW i \in Inputs, Start(c, i)
      PROVE  CTypeOK'
  <2>1. \A tool \in Tools \cup {None} :
          [tool |-> tool, asked |-> Asked(i), session |-> Loaded, key |-> None] \in Holding
    BY LoadedTyped DEF Holding, Asked
  <2> QED
    BY <1>2, <2>1 DEF Start, CTypeOK, Stages
<1>3. ASSUME NEW c \in Callers, Sign(c)
      PROVE  CTypeOK'
  <2>1. CASE UNCHANGED held
    BY <1>3, <2>1 DEF Sign, CTypeOK, Stages
  <2>2. CASE key \in Keys /\ held' = [held EXCEPT ![c].key = key]
    <3>1. [held[c] EXCEPT !.key = key] \in Holding
      BY <2>2 DEF CTypeOK, Holding
    <3>2. held' = [held EXCEPT ![c] = [held[c] EXCEPT !.key = key]]
      BY <2>2
    <3> QED
      BY <1>3, <3>1, <3>2 DEF Sign, CTypeOK, Stages
  <2> QED
    BY <1>3, <2>1, <2>2 DEF Sign
<1>4. ASSUME NEW c \in Callers, Answer(c)
      PROVE  CTypeOK'
  <2>1. NoCommand \in Holding
    BY DEF NoCommand, Holding, Missing, Session
  <2> QED
    BY <1>4, <2>1 DEF Answer, CTypeOK, Stages
<1> QED
  BY <1>1, <1>2, <1>3, <1>4 DEF CNext, CommandStep, cvars

LEMMA HeldTyped == CSpec => []CTypeOK
<1>1. TypeOK /\ CTypeOK /\ [CNext]_<<vars, cvars>> => CTypeOK'
  BY NextHeld
<1> QED
  BY TypeCorrect, Device, InitHeld, <1>1, PTL DEF CSpec

-----------------------------------------------------------------------------
\* normalizeExecuteFlag executes only what was asked for, with no dry run in it,
\* if the command is one that it looks at.
LEMMA ExecutesAsked ==
  ASSUME NEW i, NEW d, Accepted(i, d), d.mutation.execution, Executes(i, d)
  PROVE  Asked(i)
  BY DEF Accepted, Executes, Asked, Contradicts

\* The commands that sign, and those that open the hosted app.
Acting ==
  {"tx.send", "tx.calls", "tx.transfer-token", "contract.deploy", "tx.sign-message",
   "tx.sign-transaction", "contract.write", "auth.init", "auth.revoke"}

LEMMA ReadersDoNotAct ==
  ASSUME NEW d \in schemaNamespace \cup mcpNamespace \cup sessionNamespace \cup walletNamespace
                     \cup portalNamespace \cup appNamespace
  PROVE  d.id \notin Acting
  BY DEF schemaNamespace, mcpNamespace, sessionNamespace, walletNamespace, portalNamespace,
         appNamespace, Command, Acting

LEMMA WritersExecute ==
  ASSUME NEW d \in authNamespace \cup txNamespace \cup contractNamespace, d.id \in Acting
  PROVE  d.mutation.execution
  BY DEF authNamespace, txNamespace, contractNamespace, Command, Acting, writeMutation,
         readMutation

\* The registry has the flag for every command that can act.
LEMMA ActingExecute ==
  ASSUME NEW d \in commandRegistry, d.id \in Acting
  PROVE  d.mutation.execution
  BY ReadersDoNotAct, WritersExecute DEF commandRegistry

\* Every way to a signature goes through the flag and the policy.
LEMMA SignsAllowed ==
  ASSUME NEW id, NEW tool, NEW s, NEW execute, NEW view, Signs(id, tool, s, execute, view)
  PROVE  execute /\ Allowed(s, tool) /\ id \in Acting
  BY DEF Signs, SendTransaction, SendCalls, TransferToken, DeployContract, TxSignMessage,
         TxSignTransaction, ContractWrite, Acting

\* So does every way to the hosted app.
LEMMA OpensExecuted ==
  ASSUME NEW id, NEW s, NEW execute, Opens(id, s, execute)
  PROVE  execute /\ id \in Acting
  BY DEF Opens, Acting

LEMMA NextPreviews ==
  ASSUME CTypeOK, PreviewsFirst, [CNext]_<<vars, cvars>>
  PROVE  PreviewsFirst'
<1>1. CASE UNCHANGED cvars
  BY <1>1 DEF cvars, PreviewsFirst
<1>2. ASSUME NEW c \in Callers, NEW i \in Inputs, Start(c, i)
      PROVE  PreviewsFirst'
  <2>1. CASE stage' = [stage EXCEPT ![c] = "ended"] /\ UNCHANGED held
    BY <2>1 DEF PreviewsFirst, CTypeOK
  <2>2. ASSUME NEW tool \in Tools, NEW d \in commandRegistry, Accepted(i, d),
               Signs(d.id, tool, Loaded, Executes(i, d), i.view), WriteReady(Loaded),
               held' = [held EXCEPT ![c] =
                  [tool |-> tool, asked |-> Asked(i), session |-> Loaded, key |-> None]],
               stage' = [stage EXCEPT ![c] = "signing"]
        PROVE  PreviewsFirst'
    <3>1. Executes(i, d) /\ Allowed(Loaded, tool) /\ d.mutation.execution
      BY <2>2, SignsAllowed, ActingExecute
    <3>2. Asked(i) /\ tool \in EnabledTools[Loaded.signer]
      BY <2>2, <3>1, ExecutesAsked DEF Allowed, WriteReady
    <3> QED
      BY <2>2, <3>2 DEF PreviewsFirst, CTypeOK
  <2>3. ASSUME NEW d \in commandRegistry, Accepted(i, d), Opens(d.id, Loaded, Executes(i, d)),
               held' = [held EXCEPT ![c] =
                  [tool |-> None, asked |-> Asked(i), session |-> Loaded, key |-> None]],
               stage' = [stage EXCEPT ![c] = "opened"]
        PROVE  PreviewsFirst'
    <3>1. Executes(i, d) /\ d.mutation.execution
      BY <2>3, OpensExecuted, ActingExecute
    <3>2. Asked(i)
      BY <2>3, <3>1, ExecutesAsked
    <3> QED
      BY <2>3, <3>2 DEF PreviewsFirst, CTypeOK
  <2> QED
    BY <1>2, <2>1, <2>2, <2>3 DEF Start
<1>3. ASSUME NEW c \in Callers, Sign(c) \/ Answer(c)
      PROVE  PreviewsFirst'
  <2>1. CASE stage' = [stage EXCEPT ![c] = "ended"] /\ held' \in {held, [held EXCEPT ![c] = NoCommand]}
    BY <2>1 DEF PreviewsFirst, CTypeOK
  <2>2. CASE /\ stage[c] = "signing" /\ stage' = [stage EXCEPT ![c] = "signed"]
             /\ held' = [held EXCEPT ![c].key = key]
    <3>1. \A d \in Callers : /\ held'[d].asked = held[d].asked
                             /\ held'[d].tool = held[d].tool
                             /\ held'[d].session = held[d].session
      BY <2>2 DEF CTypeOK, Holding
    <3> QED
      BY <2>2, <3>1 DEF PreviewsFirst, CTypeOK
  <2> QED
    BY <1>3, <2>1, <2>2 DEF Sign, Answer
<1> QED
  BY <1>1, <1>2, <1>3 DEF CNext, CommandStep, cvars

\* No command signs, or opens a flow of the hosted app, unless it was asked to,
\* without a dry run, in the options or in the payload, and none signs what its
\* session does not enable.
THEOREM OnlyWhenAsked == CSpec => []PreviewsFirst
<1>1. CInit => PreviewsFirst
  BY DEF CInit, PreviewsFirst
<1>2. CTypeOK /\ PreviewsFirst /\ [CNext]_<<vars, cvars>> => PreviewsFirst'
  BY NextPreviews
<1> QED
  BY HeldTyped, <1>1, <1>2, PTL DEF CSpec

-----------------------------------------------------------------------------
(* The key on the device is one that is registered, as is every key in the *)
(* memory of a bootstrap that may put it back.                             *)

KeyInv == key \in Usable /\ \A p \in Processes : mem[p].key \in Usable

LEMMA NextKey ==
  ASSUME TypeOK, Fresh, NoRevoke => RegisteredInv, NoRevoke => KeyInv,
         [Next]_vars, NoRevoke'
  PROVE  KeyInv'
<1>0. RegisteredInv /\ KeyInv
  BY NextFresh
<1>1. Usable \subseteq Usable'
  BY <1>0, VouchedStays
<1> USE <1>0 DEF KeyInv
<1>2. CASE Age \/ UNCHANGED vars
  BY <1>1, <1>2 DEF Age, vars
<1>3. ASSUME NEW p \in Processes,
             StartInit(p) \/ Step(p) \/ Approve(p) \/ Die(p)
      PROVE  KeyInv'
  <2>1. key' \in Usable
    <3>1. CASE SaveKey(p)
      <4>1. At(p, "saveKey") /\ key' \in {p, key}
        BY <3>1 DEF SaveKey
      <4>2. <<mem[p].approved, p>> \in registered
        BY <4>1 DEF RegisteredInv, At
      <4>3. p \in Keys /\ WalletOf(p) = mem[p].approved
        BY ConstantsAssumption DEF WalletOf, Keys
      <4> QED
        BY <4>1, <4>2, <4>3 DEF Usable
    <3>2. CASE RestoreKey(p)
      BY <3>2 DEF RestoreKey, Restored, Usable
    <3>3. ASSUME ~SaveKey(p), ~RestoreKey(p)
          PROVE  key' \in {key, None, Torn}
      BY <1>3, <3>3
         DEF StartInit, Step, Approve, Die, Open, Stat, Read, Unlink, WritePid, CaptureKey,
             CaptureSession, Answered, SaveSession, RestoreSession, Release, RevokeAnswered,
             MarkRevoked, Wipe, UnlinkKey, KeepsKey
    <3> QED
      BY <3>1, <3>2, <3>3 DEF Usable
  <2>2. \/ mem' = mem
        \/ mem' = [mem EXCEPT ![p] = [mem[p] EXCEPT !.flow = "init"]]
        \/ mem' = [mem EXCEPT ![p] = [mem[p] EXCEPT !.aged = lock.old]]
        \/ mem' = [mem EXCEPT ![p] = [mem[p] EXCEPT !.again = TRUE]]
        \/ mem' = [mem EXCEPT ![p] = [mem[p] EXCEPT !.key = key]]
        \/ mem' = [mem EXCEPT ![p] = [mem[p] EXCEPT !.session = session]]
        \/ \E w \in Wallets : mem' = [mem EXCEPT ![p].approved = w]
        \/ \E failure \in Failures :
             mem' = [mem EXCEPT ![p] = [mem[p] EXCEPT !.failed = failure]]
    BY <1>3 DEF StartInit, Step, Approve, Die, Open, Stat, Read, Unlink, WritePid, CaptureKey,
                CaptureSession, Answered, SaveKey, SaveSession, RestoreKey,
                RestoreSession, Release, RevokeAnswered, MarkRevoked, Wipe, UnlinkKey,
                KeepsKey, Goto, GoWith, Failures
  <2>3. \A q \in Processes : mem'[q].key \in {mem[q].key, key}
    BY <2>2 DEF TypeOK, Memory
  <2> QED
    BY <1>1, <2>1, <2>3
<1>4. \A p \in Processes : ~StartRevoke(p)
  BY RevokeShows
<1> QED
  BY <1>2, <1>3, <1>4 DEF Next

LEMMA KeyAlways == Spec => [](NoRevoke => RegisteredInv /\ KeyInv)
<1>1. Init => RegisteredInv /\ KeyInv
  BY InitRegistered, ConstantsAssumption DEF Init, KeyInv, Usable, NewMemory, WalletOf, Keys
<1>2. /\ TypeOK /\ Fresh /\ (NoRevoke => RegisteredInv /\ KeyInv) /\ [Next]_vars
      => (NoRevoke => RegisteredInv /\ KeyInv)'
  BY NextRegistered, NextKey
<1> QED
  BY TypeCorrect, FreshAlways, <1>1, <1>2, PTL DEF Spec

\* A command has a session that was vouched for when it started, an active one if
\* it goes on to sign, and then a key that was in the file.
HeldInv ==
  \A c \in Callers :
    /\ held[c].session \in Vouched /\ held[c].key \in Usable
    /\ held[c].key # None => stage[c] = "signed"
    /\ stage[c] \in {"signing", "signed"} => held[c].session.status = "active"

LEMMA NextHeldInv ==
  ASSUME TypeOK, Fresh, CTypeOK, NoRevoke => RegisteredInv /\ KeyInv, NoRevoke => HeldInv,
         [CNext]_<<vars, cvars>>, NoRevoke'
  PROVE  HeldInv'
<1>1. [Next]_vars
  BY DeviceSteps
<1>2. NoRevoke /\ RegisteredInv /\ KeyInv /\ HeldInv
  BY <1>1, NextFresh
<1>3. Vouched \subseteq Vouched' /\ Usable \subseteq Usable'
  BY <1>1, <1>2, VouchedStays
<1>4. None \in Usable
  BY DEF Usable
<1> USE <1>2 DEF HeldInv
<1>5. CASE UNCHANGED cvars
  BY <1>3, <1>5 DEF cvars
<1>6. ASSUME NEW c \in Callers, NEW i \in Inputs, Start(c, i)
      PROVE  HeldInv'
  <2>1. Loaded \in Vouched
    BY InactiveVouched DEF Loaded, RegisteredInv
  <2>2. \/ stage' = [stage EXCEPT ![c] = "ended"] /\ held' = held
        \/ \E tool \in Tools \cup {None}, there \in {"signing", "opened"} :
             /\ held' = [held EXCEPT ![c] = [tool |-> tool, asked |-> Asked(i),
                                             session |-> Loaded, key |-> None]]
             /\ stage' = [stage EXCEPT ![c] = there]
             /\ there = "signing" => Loaded.status = "active"
    BY <1>6 DEF Start, WriteReady, Active
  <2>3. held[c].key = None
    BY <1>6 DEF Start
  <2> QED
    BY <1>3, <1>4, <2>1, <2>2, <2>3 DEF CTypeOK
<1>7. ASSUME NEW c \in Callers, Sign(c)
      PROVE  HeldInv'
  <2>1. CASE UNCHANGED held /\ stage' = [stage EXCEPT ![c] = "ended"]
    BY <1>3, <1>7, <2>1 DEF Sign, CTypeOK
  <2>2. CASE held' = [held EXCEPT ![c].key = key] /\ stage' = [stage EXCEPT ![c] = "signed"]
    <3>1. /\ \A d \in Callers : held'[d].session = held[d].session
          /\ \A d \in Callers \ {c} : held'[d].key = held[d].key
          /\ held'[c].key = key
      BY <2>2 DEF CTypeOK, Holding
    <3>2. key \in Usable /\ stage[c] = "signing"
      BY <1>7 DEF KeyInv, Sign
    <3> QED
      BY <1>3, <2>2, <3>1, <3>2 DEF CTypeOK
  <2> QED
    BY <1>7, <2>1, <2>2 DEF Sign
<1>8. ASSUME NEW c \in Callers, Answer(c)
      PROVE  HeldInv'
  BY <1>3, <1>4, <1>8, InactiveVouched DEF Answer, NoCommand, CTypeOK
<1> QED
  BY <1>5, <1>6, <1>7, <1>8 DEF CNext, CommandStep, cvars

\* A key that is not that of an init for another wallet is one of this wallet's.
LEMMA HeldSigns ==
  ASSUME CTypeOK, NoRevoke => HeldInv
  PROVE  SignsRegistered
<1> SUFFICES ASSUME NoRevoke, NEW c \in Callers, held[c].key # None
             PROVE  \/ <<held[c].session.wallet, held[c].key>> \in registered
                    \/ /\ held[c].key # held[c].session.signer
                       /\ WalletOf(held[c].key) # held[c].session.wallet
                       /\ <<WalletOf(held[c].key), held[c].key>> \in registered
  BY DEF SignsRegistered
<1> DEFINE k == held[c].key
           s == held[c].session
<1>1. s \in Vouched /\ s.status = "active" /\ k \in Usable
  BY DEF HeldInv
<1>2. k \in Keys
  BY DEF CTypeOK, Holding
<1>3. <<WalletOf(k), k>> \in registered
  BY <1>1, <1>2, ConstantsAssumption DEF Usable, Keys
<1>4. s.wallet = WalletOf(s.signer)
  BY <1>1 DEF Vouched
<1> QED
  BY <1>3, <1>4

\* Until a command revokes, a command signs only with keys that the wallet of its
\* session has registered, for any number of bootstraps that run, fail and die
\* meanwhile; beside an init for another wallet it may have a key that this other
\* wallet has registered, but then not the one that its session was made with.
THEOREM KeysAreRegistered == CSpec => []SignsRegistered
<1>1. CInit => HeldInv
  BY InactiveVouched DEF CInit, HeldInv, NoCommand, Usable
<1>2. /\ TypeOK /\ Fresh /\ CTypeOK /\ (NoRevoke => RegisteredInv /\ KeyInv)
      /\ (NoRevoke => HeldInv) /\ [CNext]_<<vars, cvars>>
      => (NoRevoke => HeldInv)'
  BY NextHeldInv
<1>3. CTypeOK /\ (NoRevoke => HeldInv) => SignsRegistered
  BY HeldSigns
<1> QED
  BY TypeCorrect, FreshAlways, KeyAlways, HeldTyped, Device, <1>1, <1>2, <1>3, PTL DEF CSpec

-----------------------------------------------------------------------------
(* The callbacks.  The token of a flow says what the app has done for it,  *)
(* and it does so once: a signer that a token has removed from a wallet is *)
(* added to none again, since the flow that has made it has had its token. *)

Signers == Flows \cup {Earlier}
Asking == [action: {None, "init", "revoke"}, chain: Chains \cup {None},
           wallet: Wallets \cup {None}, signer: Signers \cup {None}]
Token == [action: {"init", "revoke"}, state: Flows, chain: Chains, wallet: Wallets,
          signer: Signers, iat: Int, exp: Int]
Payloads == Token \cup {NoPayload, TooLarge, Broken}
Listener == [open: BOOLEAN, settled: BOOLEAN, payload: Payloads \cup {None},
             since: Nat \cup {None}]
Granted == [wallet: Wallets, signer: Signers, chain: Chains]

CallbackTypes ==
  /\ clock \in Nat /\ ahead \in Int
  /\ delegated \subseteq Granted /\ sessions \subseteq Granted
  /\ tokens \subseteq Token
  /\ flow \in [Flows -> Asking]
  /\ place \in [Flows -> {"idle", "fetching", "waiting", "succeeded", "failed"}]
  /\ server \in [Flows -> Listener]
  /\ told \in [Flows -> SUBSET Payloads]

\* A signer that is there already, or whose flow has had its token.
Known(k) == k = Earlier \/ \E t \in tokens : t.state = k

FlowInv ==
  \A f \in Flows :
    /\ place[f] # "idle" =>
         \/ flow[f].action = "init" /\ flow[f].signer = f
         \/ flow[f].action = "revoke" /\ Known(flow[f].signer)
    /\ place[f] = "succeeded" => \E t \in tokens : Callbacks!Fits(f, t)

Says(t, action, w, k) == t.action = action /\ t.wallet = w /\ t.signer = k

TokenInv ==
  /\ \A t \in tokens :
       /\ place[t.state] \notin {"idle", "fetching"}
       /\ t.action = flow[t.state].action /\ t.signer = flow[t.state].signer
       /\ t.iat <= clock + ahead
       /\ t.action = "init" =>
            \/ Callbacks!Session(t.wallet, t.signer, t.chain) \in delegated
            \/ \E u \in tokens : Says(u, "revoke", t.wallet, t.signer)
       /\ t.action = "revoke" =>
            /\ Known(t.signer)
            /\ \A c \in Chains : Callbacks!Session(t.wallet, t.signer, c) \notin delegated
  /\ \A s \in sessions : Known(s.signer)

\* Only a flow that waits has told a page anything, and only one.
ToldInv ==
  \A f \in Flows :
    /\ server[f].open /\ ~server[f].settled => place[f] = "waiting"
    /\ told[f] # {} => place[f] = "waiting" /\ server[f].settled
    /\ \A t \in told[f] : t = server[f].payload

CallbackInv == CallbackTypes /\ FlowInv /\ TokenInv /\ ToldInv

LEMMA InitCallbacks == Callbacks!Init => CallbackInv
<1> SUFFICES ASSUME Callbacks!Init PROVE CallbackInv
  OBVIOUS
<1> USE DEF Callbacks!Init, Callbacks!NoFlow, Callbacks!Closed, Callbacks!BeforeAll,
            Callbacks!Session
<1>1. CallbackTypes
  BY HandoffAssumption
     DEF CallbackTypes, Granted, Signers, Asking, Listener, Payloads
<1>2. FlowInv /\ TokenInv /\ ToldInv
  BY DEF FlowInv, TokenInv, ToldInv, Known
<1> QED
  BY <1>1, <1>2 DEF CallbackInv

\* What is known of the tokens as long as none is made.
LEMMA NoToken ==
  ASSUME CallbackInv, UNCHANGED <<delegated, tokens, sessions, flow>>,
         \A f \in Flows : place[f] \notin {"idle", "fetching"} =>
                            place'[f] \notin {"idle", "fetching"},
         clock' + ahead' >= clock + ahead, CallbackTypes'
  PROVE  TokenInv'
<1>1. \A t \in tokens : t.state \in Flows /\ t.iat \in Int
  BY DEF CallbackInv, CallbackTypes, Token
<1>2. clock' + ahead' \in Int /\ clock + ahead \in Int
  BY DEF CallbackInv, CallbackTypes
<1> QED
  BY <1>1, <1>2 DEF CallbackInv, TokenInv, Known, Says

LEMMA BeginStep ==
  ASSUME CallbackInv, NEW f \in Flows, Callbacks!Begin(f)
  PROVE  CallbackInv'
<1> USE DEF CallbackInv
<1>1. /\ place[f] = "idle" /\ place' = [place EXCEPT ![f] = "fetching"]
      /\ UNCHANGED <<clock, ahead, delegated, tokens, server, told, sessions>>
      /\ \E a \in Asking :
           /\ flow' = [flow EXCEPT ![f] = a]
           /\ \/ a.action = "init" /\ a.signer = f
              \/ a.action = "revoke" /\ Known(a.signer)
  <2>1. ASSUME NEW c \in Chains, flow' = [flow EXCEPT ![f] = Callbacks!LaunchInit(f, c)]
        PROVE  /\ Callbacks!LaunchInit(f, c) \in Asking
               /\ Callbacks!LaunchInit(f, c).action = "init"
               /\ Callbacks!LaunchInit(f, c).signer = f
    BY DEF Callbacks!LaunchInit, Asking, Signers
  <2>2. ASSUME NEW s \in sessions, flow' = [flow EXCEPT ![f] = Callbacks!LaunchRevoke(s)]
        PROVE  /\ Callbacks!LaunchRevoke(s) \in Asking
               /\ Callbacks!LaunchRevoke(s).action = "revoke"
               /\ Known(Callbacks!LaunchRevoke(s).signer)
    BY DEF Callbacks!LaunchRevoke, Asking, CallbackTypes, Granted, TokenInv
  <2> QED
    BY <2>1, <2>2 DEF Callbacks!Begin, Callbacks!Goto, Callbacks!world
<1>2. CallbackTypes'
  BY <1>1 DEF CallbackTypes
<1>3. \A g \in Flows : g # f => flow'[g] = flow[g] /\ place'[g] = place[g]
  BY <1>1 DEF CallbackTypes
<1>4. FlowInv'
  BY <1>1, <1>3 DEF FlowInv, CallbackTypes, Known, Callbacks!Fits, Callbacks!FitsInit,
                    Callbacks!FitsRevoke
<1>5. TokenInv'
  <2>1. \A t \in tokens : t.state \in Flows /\ t.state # f
    BY <1>1 DEF TokenInv, CallbackTypes, Token
  <2> QED
    BY <1>1, <1>3, <2>1 DEF TokenInv, Known, Says
<1>6. ToldInv'
  BY <1>1, <1>3 DEF ToldInv
<1> QED
  BY <1>2, <1>4, <1>5, <1>6

LEMMA ListenStep ==
  ASSUME CallbackInv, NEW f \in Flows, Callbacks!Listen(f)
  PROVE  CallbackInv'
<1> USE DEF CallbackInv
<1>1. /\ place[f] = "fetching"
      /\ UNCHANGED <<clock, ahead, delegated, tokens, flow, told, sessions>>
      /\ \A g \in Flows : g # f => place'[g] = place[g] /\ server'[g] = server[g]
  BY DEF Callbacks!Listen, Callbacks!Goto, Callbacks!world, CallbackTypes
<1>2. /\ place' \in [Flows -> {"idle", "fetching", "waiting", "succeeded", "failed"}]
      /\ place'[f] \in {"waiting", "failed"}
      /\ place'[f] = "failed" => server' = server
      /\ server' \in [Flows -> Listener]
  <2>1. [Callbacks!Closed EXCEPT !.open = TRUE, !.since = clock] \in Listener
    BY DEF CallbackTypes, Callbacks!Closed, Listener
  <2>2. server' \in [Flows -> Listener]
    BY <2>1 DEF Callbacks!Listen, CallbackTypes
  <2>3. /\ place' \in [Flows -> {"idle", "fetching", "waiting", "succeeded", "failed"}]
        /\ place'[f] \in {"waiting", "failed"}
        /\ place'[f] = "failed" => server' = server
    BY DEF Callbacks!Listen, Callbacks!Goto, CallbackTypes
  <2> QED
    BY <2>2, <2>3
<1>3. CallbackTypes'
  BY <1>1, <1>2 DEF CallbackTypes
<1>4. FlowInv'
  BY <1>1, <1>2 DEF FlowInv, Known, Callbacks!Fits, Callbacks!FitsInit, Callbacks!FitsRevoke
<1>5. TokenInv'
  <2>1. clock + ahead \in Int
    BY DEF CallbackTypes
  <2> QED
    BY <1>1, <1>2, <1>3, <2>1, NoToken
<1>6. ToldInv'
  BY <1>1, <1>2 DEF ToldInv
<1> QED
  BY <1>3, <1>4, <1>5, <1>6

LEMMA ResumeStep ==
  ASSUME CallbackInv, NEW f \in Flows, Callbacks!Resume(f)
  PROVE  CallbackInv'
<1> USE DEF CallbackInv
<1> DEFINE t == server[f].payload
<1>1. /\ place[f] = "waiting"
      /\ UNCHANGED <<clock, ahead, delegated, tokens, flow, server>>
      /\ told' = [told EXCEPT ![f] = {}]
      /\ \A g \in Flows : g # f => place'[g] = place[g]
  BY DEF Callbacks!Resume, Callbacks!Goto, Callbacks!world, CallbackTypes
<1>2. /\ place' \in [Flows -> {"idle", "fetching", "waiting", "succeeded", "failed"}]
      /\ place'[f] \in {"succeeded", "failed"}
      /\ place'[f] = "succeeded" => t \in tokens /\ Callbacks!Fits(f, t)
  BY DEF Callbacks!Resume, Callbacks!Goto, CallbackTypes
<1>3. /\ sessions' \subseteq Granted
      /\ \A s \in sessions' : s \in sessions \/ (s.signer = t.signer /\ t \in tokens
                                                 /\ t.action = "init" /\ Callbacks!Fits(f, t))
  <2>1. ASSUME t \in tokens, flow[f].action = "init", Callbacks!Fits(f, t)
        PROVE  /\ Callbacks!Session(t.wallet, t.signer, t.chain) \in Granted
               /\ Callbacks!Session(t.wallet, t.signer, t.chain).signer = t.signer
               /\ t.action = "init"
    BY <2>1 DEF CallbackTypes, Token, Granted, Callbacks!Session, Callbacks!Fits,
                Callbacks!FitsInit
  <2> QED
    BY <2>1 DEF Callbacks!Resume, CallbackTypes
<1>4. CallbackTypes'
  BY <1>1, <1>2, <1>3 DEF CallbackTypes
<1>5. FlowInv'
  BY <1>1, <1>2 DEF FlowInv, Known, Callbacks!Fits, Callbacks!FitsInit, Callbacks!FitsRevoke
<1>6. TokenInv'
  <2>1. t \in tokens /\ t.action = "init" /\ Callbacks!Fits(f, t) => Known(t.signer)
    BY DEF Callbacks!Fits, Callbacks!FitsInit, Callbacks!FitsRevoke, Known
  <2> HIDE DEF t
  <2>2. \A s \in sessions' : Known(s.signer)
    BY <1>3, <2>1 DEF TokenInv
  <2>3. \A u \in tokens : u.state \in Flows /\ place'[u.state] \notin {"idle", "fetching"}
    BY <1>1, <1>2 DEF TokenInv, CallbackTypes, Token
  <2> QED
    BY <1>1, <2>2, <2>3 DEF TokenInv, Known, Says
<1>7. ToldInv'
  <2>1. told'[f] = {} /\ \A g \in Flows : g # f => told'[g] = told[g]
    BY <1>1 DEF CallbackTypes
  <2>2. server[f].settled
    BY DEF Callbacks!Resume
  <2> HIDE DEF t
  <2> QED
    BY <1>1, <2>1, <2>2 DEF ToldInv
<1> QED
  BY <1>4, <1>5, <1>6, <1>7

\* What the callback server does, and time, concern its own state only.
LEMMA ServerStep ==
  ASSUME CallbackInv, NEW f \in Flows,
         \/ Callbacks!Close(f) \/ Callbacks!TimeOut(f)
         \/ \E r \in Callbacks!Requests : Callbacks!Receive(f, r)
  PROVE  CallbackInv'
<1> USE DEF CallbackInv
<1>1. /\ UNCHANGED <<clock, ahead, delegated, tokens, flow, sessions>>
      /\ \A g \in Flows :
           g # f => place'[g] = place[g] /\ server'[g] = server[g] /\ told'[g] = told[g]
  BY DEF Callbacks!Close, Callbacks!TimeOut, Callbacks!Receive, Callbacks!Goto,
         Callbacks!world, CallbackTypes
<1>2. /\ place' \in [Flows -> {"idle", "fetching", "waiting", "succeeded", "failed"}]
      /\ place'[f] = place[f] \/ (place[f] = "waiting" /\ place'[f] = "failed")
  BY DEF Callbacks!Close, Callbacks!TimeOut, Callbacks!Receive, Callbacks!Goto, CallbackTypes,
         ToldInv
<1>3. /\ server' \in [Flows -> Listener] /\ told' \in [Flows -> SUBSET Payloads]
      /\ server'[f].open /\ ~server'[f].settled => place'[f] = "waiting"
      /\ told'[f] # {} => place'[f] = "waiting" /\ server'[f].settled
      /\ \A t \in told'[f] : t = server'[f].payload
  <2>0. server[f] \in Listener
    BY DEF CallbackTypes
  <2>1. CASE Callbacks!Close(f)
    <3>1. told' = told /\ told[f] = {} /\ place' = place
      BY <2>1 DEF Callbacks!Close, ToldInv, Callbacks!world
    <3>2. server' = [server EXCEPT ![f] = [Callbacks!Closed EXCEPT !.since = 0]]
      BY <2>1 DEF Callbacks!Close
    <3>3. [Callbacks!Closed EXCEPT !.since = 0] \in Listener
          /\ ~[Callbacks!Closed EXCEPT !.since = 0].open
      BY DEF Callbacks!Closed, Listener
    <3> QED
      BY <3>1, <3>2, <3>3 DEF CallbackTypes
  <2>2. CASE Callbacks!TimeOut(f)
    <3>1. told' = [told EXCEPT ![f] = {}] /\ place'[f] = "failed"
      BY <2>2 DEF Callbacks!TimeOut, Callbacks!Goto, CallbackTypes
    <3>2. server' = [server EXCEPT ![f].settled = TRUE]
      BY <2>2 DEF Callbacks!TimeOut
    <3> QED
      BY <2>0, <3>1, <3>2 DEF CallbackTypes, Listener
  <2>3. ASSUME NEW r \in Callbacks!Requests, Callbacks!Receive(f, r)
        PROVE  <1>3!:
    <3>1. server[f].open /\ ~server[f].settled /\ r.payload \in Payloads
      <4>1. server[f].open /\ Callbacks!Status(f, r) = 200
        BY <2>3 DEF Callbacks!Receive
      <4>2. CASE ~r.path \/ ~r.get
        BY <4>1, <4>2 DEF Callbacks!Status
      <4>3. CASE r.path /\ r.get /\ server[f].settled
        BY <4>1, <4>3 DEF Callbacks!Status
      <4>4. r.payload \in Payloads /\ r.path \in BOOLEAN /\ r.get \in BOOLEAN
        BY DEF Callbacks!Requests, CallbackTypes, Payloads
      <4> QED
        BY <4>1, <4>2, <4>3, <4>4
    <3>2. told[f] = {} /\ place[f] = "waiting"
      BY <3>1 DEF ToldInv
    <3>3. /\ server' = [server EXCEPT ![f].settled = TRUE, ![f].payload = r.payload]
          /\ told' = [told EXCEPT ![f] = @ \cup {r.payload}]
          /\ place' = place
      BY <2>3, <3>1 DEF Callbacks!Receive
    <3>4. server' \in [Flows -> Listener] /\ server'[f].settled
          /\ server'[f].payload = r.payload
      BY <2>0, <3>1, <3>3 DEF CallbackTypes, Listener
    <3>5. told' \in [Flows -> SUBSET Payloads] /\ told'[f] = {r.payload}
      BY <3>1, <3>2, <3>3 DEF CallbackTypes
    <3> QED
      BY <3>2, <3>3, <3>4, <3>5
  <2> QED
    BY <2>1, <2>2, <2>3
<1>4. CallbackTypes'
  BY <1>1, <1>2, <1>3 DEF CallbackTypes
<1>5. FlowInv'
  BY <1>1, <1>2 DEF FlowInv, Known, Callbacks!Fits, Callbacks!FitsInit, Callbacks!FitsRevoke
<1>6. TokenInv'
  <2>1. clock + ahead \in Int
    BY DEF CallbackTypes
  <2> QED
    BY <1>1, <1>2, <1>4, <2>1, NoToken
<1>7. ToldInv'
  BY <1>1, <1>3 DEF ToldInv
<1> QED
  BY <1>4, <1>5, <1>6, <1>7

\* The app makes the one token of a flow, and changes the wallet as it says.
LEMMA ApproveStep ==
  ASSUME CallbackInv, NEW f \in Flows, NEW w \in Wallets, NEW c \in Chains,
         Callbacks!Approve(f, w, c)
  PROVE  CallbackInv'
<1> USE DEF CallbackInv
<1> DEFINE k == flow[f].signer
           t == [action |-> flow[f].action, state |-> f, chain |-> c, wallet |-> w,
                 signer |-> k, iat |-> clock + ahead, exp |-> clock + ahead + Life]
           removed == {Callbacks!Session(w, k, d) : d \in Chains}
<1>1. /\ place[f] \notin {"idle", "fetching"} /\ \A u \in tokens : u.state # f
      /\ tokens' = tokens \cup {t}
      /\ UNCHANGED <<clock, ahead, flow, place, server, told, sessions>>
  BY DEF Callbacks!Approve
<1>2. \/ flow[f].action = "init" /\ k = f
      \/ flow[f].action = "revoke" /\ Known(k)
  BY <1>1 DEF FlowInv
<1>3. k \in Signers
  <2>1. flow[f] \in Asking
    BY DEF CallbackTypes
  <2> QED
    BY <1>2, <2>1, HandoffAssumption DEF Known, Asking, Signers, CallbackTypes, Token
<1>4. t \in Token /\ t.action = flow[f].action /\ t.state = f /\ t.signer = k /\ t.wallet = w
      /\ t.chain = c /\ t.iat = clock + ahead
  BY <1>2, <1>3, HandoffAssumption DEF Token, CallbackTypes
<1>5. \A s \in Granted : s \in removed <=> s.wallet = w /\ s.signer = k
  BY <1>3 DEF Callbacks!Session, Granted
<1>6. Callbacks!Session(w, k, c) \in Granted
  BY <1>3 DEF Callbacks!Session, Granted
<1>7. \/ /\ flow[f].action = "init"
         /\ delegated' = delegated \cup {Callbacks!Session(w, k, c)}
      \/ /\ flow[f].action = "revoke"
         /\ delegated' = delegated \ removed
  BY <1>2 DEF Callbacks!Approve
<1>8. \A x \in Signers : (Known(x) => Known(x)') /\ (x = f => Known(x)')
  BY <1>1, <1>4 DEF Known
<1>9. \A u \in tokens : u \in Token /\ u.state \in Flows
  BY DEF CallbackTypes, Token
<1> HIDE DEF t, k, removed
<1>10. CallbackTypes'
  BY <1>1, <1>4, <1>6, <1>7 DEF CallbackTypes
<1>11. FlowInv'
  <2>1. \A g \in Flows, u \in tokens : Callbacks!Fits(g, u) => Callbacks!Fits(g, u)'
    BY <1>1 DEF Callbacks!Fits, Callbacks!FitsInit, Callbacks!FitsRevoke
  <2> QED
    BY <1>1, <2>1 DEF FlowInv, Known
<1>12. ASSUME NEW u \in tokens'
       PROVE  /\ place'[u.state] \notin {"idle", "fetching"}
              /\ u.action = flow'[u.state].action /\ u.signer = flow'[u.state].signer
              /\ u.iat <= clock' + ahead'
              /\ u.action = "revoke" => Known(u.signer)'
  <2>1. CASE u = t
    <3>1. clock + ahead \in Int
      BY DEF CallbackTypes
    <3>2. u.signer = k /\ u.signer \in Signers
      BY <1>3, <1>4, <2>1
    <3>3. u.action = "revoke" => Known(u.signer)
      BY <1>2, <1>4, <2>1, <3>2
    <3> QED
      BY <1>1, <1>4, <1>8, <2>1, <3>1, <3>2, <3>3 DEF k
  <2>2. CASE u \in tokens
    BY <1>1, <2>2 DEF TokenInv, Known
  <2> QED
    BY <1>1, <2>1, <2>2
<1>13. ASSUME NEW u \in tokens', u.action = "init"
       PROVE  \/ Callbacks!Session(u.wallet, u.signer, u.chain) \in delegated'
              \/ \E v \in tokens' : Says(v, "revoke", u.wallet, u.signer)
  <2>1. CASE u = t
    BY <1>4, <1>7, <1>13, <2>1
  <2>2. CASE u \in tokens /\ Callbacks!Session(u.wallet, u.signer, u.chain) \notin delegated
    BY <1>1, <1>13, <2>2 DEF TokenInv
  <2>3. CASE u \in tokens /\ Callbacks!Session(u.wallet, u.signer, u.chain) \in delegated
    <3>1. CASE Callbacks!Session(u.wallet, u.signer, u.chain) \in removed /\ flow[f].action = "revoke"
      <4>1. u.wallet = w /\ u.signer = k
        BY <1>5, <1>9, <2>3, <3>1 DEF Callbacks!Session, CallbackTypes
      <4> QED
        BY <1>1, <1>4, <3>1, <4>1 DEF Says
    <3> QED
      BY <1>7, <2>3, <3>1
  <2> QED
    BY <1>1, <2>1, <2>2, <2>3
<1>14. ASSUME NEW u \in tokens', u.action = "revoke", NEW d \in Chains
       PROVE  Callbacks!Session(u.wallet, u.signer, d) \notin delegated'
  <2>1. CASE u = t
    BY <1>4, <1>7, <1>14, <2>1 DEF removed
  <2>2. CASE u \in tokens
    <3>1. Callbacks!Session(u.wallet, u.signer, d) \notin delegated /\ Known(u.signer)
      BY <1>14, <2>2 DEF TokenInv
    <3>2. CASE flow[f].action = "init"
      <4>1. u.signer # f
        BY <1>1, <3>1, HandoffAssumption DEF Known
      <4>2. Callbacks!Session(u.wallet, u.signer, d) # Callbacks!Session(w, k, c)
        BY <1>2, <3>2, <4>1 DEF Callbacks!Session
      <4> QED
        BY <1>7, <3>1, <3>2, <4>2
    <3> QED
      BY <1>7, <3>1, <3>2
  <2> QED
    BY <1>1, <2>1, <2>2
<1>15. \A s \in sessions' : Known(s.signer)'
  BY <1>1 DEF TokenInv, Known
<1>16. TokenInv'
  BY <1>12, <1>13, <1>14, <1>15 DEF TokenInv
<1>17. ToldInv'
  BY <1>1 DEF ToldInv
<1> QED
  BY <1>10, <1>11, <1>16, <1>17

LEMMA TickStep ==
  ASSUME CallbackInv, Callbacks!Tick
  PROVE  CallbackInv'
<1> USE DEF CallbackInv
<1>1. /\ clock' = clock + 1
      /\ UNCHANGED <<ahead, delegated, tokens, flow, place, server, told, sessions>>
  BY DEF Callbacks!Tick
<1>2. CallbackTypes' /\ clock' + ahead' >= clock + ahead
  BY <1>1 DEF CallbackTypes
<1>3. FlowInv' /\ ToldInv'
  BY <1>1 DEF FlowInv, ToldInv, Known, Callbacks!Fits, Callbacks!FitsInit, Callbacks!FitsRevoke
<1> QED
  BY <1>1, <1>2, <1>3, NoToken

LEMMA StepCallbacks == CallbackInv /\ [Callbacks!Next]_handoff => CallbackInv'
<1>1. CallbackInv /\ UNCHANGED handoff => CallbackInv'
  BY DEF handoff, CallbackInv, CallbackTypes, FlowInv, TokenInv, ToldInv, Known, Says,
         Callbacks!Fits, Callbacks!FitsInit, Callbacks!FitsRevoke
<1> QED
  BY <1>1, BeginStep, ListenStep, ResumeStep, ServerStep, ApproveStep, TickStep
     DEF Callbacks!Next, Callbacks!Step

LEMMA CallbacksAlways == MCSpec => []CallbackInv
<1>1. MCInit => CallbackInv
  BY InitCallbacks DEF MCInit
<1>2. [MCNext]_<<vars, cvars, mvars, listing, handoff, part>> => [Callbacks!Next]_handoff
  BY DEF MCNext
<1> QED
  BY <1>1, <1>2, StepCallbacks, PTL DEF MCSpec

\* What a flow reports is true of the wallet: for any flows, wallets and chains,
\* whatever pages are opened with whatever wallet, and however long they take.
THEOREM AlwaysTrueOfTheWallet == MCSpec => []TrueOfTheWallet
<1>1. CallbackInv => TrueOfTheWallet
  <2> SUFFICES ASSUME CallbackInv PROVE Callbacks!TrueOfTheWallet
    BY DEF TrueOfTheWallet
  <2> USE DEF CallbackInv
  <2>1. ASSUME NEW f \in Flows, Callbacks!Asked(f, "init")
        PROVE  \E w \in Wallets :
                 \/ Callbacks!Session(w, f, flow[f].chain) \in delegated
                 \/ \E u \in tokens : u.action = "revoke" /\ u.wallet = w /\ u.signer = f
    <3>1. PICK t \in tokens : Callbacks!FitsInit(f, t)
      BY <2>1 DEF FlowInv, Callbacks!Asked, Callbacks!Fits
    <3>2. t.wallet \in Wallets
      BY DEF CallbackTypes, Token
    <3>3. \/ Callbacks!Session(t.wallet, t.signer, t.chain) \in delegated
          \/ \E u \in tokens : Says(u, "revoke", t.wallet, t.signer)
      BY <3>1 DEF TokenInv, Callbacks!FitsInit
    <3> QED
      BY <3>1, <3>2, <3>3 DEF Callbacks!FitsInit, Says
  <2>2. ASSUME NEW f \in Flows, Callbacks!Asked(f, "revoke")
        PROVE  Callbacks!Session(flow[f].wallet, flow[f].signer, flow[f].chain) \notin delegated
    <3>1. PICK t \in tokens : Callbacks!FitsRevoke(f, t)
      BY <2>2 DEF FlowInv, Callbacks!Asked, Callbacks!Fits
    <3>2. t.chain \in Chains
      BY DEF CallbackTypes, Token
    <3> QED
      BY <3>1, <3>2 DEF TokenInv, Callbacks!FitsRevoke
  <2> QED
    BY <2>1, <2>2 DEF Callbacks!TrueOfTheWallet
<1> QED
  BY <1>1, CallbacksAlways, PTL

\* A page that is told "Session received", with the answer of the app in time, is
\* not told so in vain.
THEOREM AlwaysCounts == MCSpec => ReceivedCounts
<1>1. CallbackInv /\ [MCNext]_<<vars, cvars, mvars, listing, handoff, part>> =>
        [\A f \in Flows : place[f] = "waiting" /\ place'[f] = "failed" =>
           ~\E t \in told[f] : Callbacks!Honest(f, t)]_handoff
  <2> SUFFICES ASSUME CallbackInv, Callbacks!Next, NEW f \in Flows,
                      place[f] = "waiting", place'[f] = "failed",
                      NEW t \in told[f], Callbacks!Honest(f, t)
               PROVE  FALSE
    BY DEF MCNext
  <2> USE DEF CallbackInv
  <2>1. server[f].settled /\ t = server[f].payload
    BY DEF ToldInv
  <2>2. Callbacks!Resume(f)
    <3>1. ASSUME NEW g \in Flows, Callbacks!Begin(g) PROVE FALSE
      BY <3>1 DEF Callbacks!Begin, Callbacks!Goto, CallbackTypes
    <3>2. ASSUME NEW g \in Flows, Callbacks!Listen(g) PROVE FALSE
      BY <3>2 DEF Callbacks!Listen, Callbacks!Goto, CallbackTypes
    <3>3. ASSUME NEW g \in Flows, Callbacks!Resume(g) PROVE g = f
      BY <3>3 DEF Callbacks!Resume, Callbacks!Goto, CallbackTypes
    <3>4. ASSUME NEW g \in Flows, Callbacks!TimeOut(g) PROVE FALSE
      BY <2>1, <3>4 DEF Callbacks!TimeOut, Callbacks!Goto, CallbackTypes
    <3>5. ASSUME \/ Callbacks!Tick
                 \/ \E g \in Flows :
                      \/ Callbacks!Close(g)
                      \/ \E r \in Callbacks!Requests : Callbacks!Receive(g, r)
                      \/ \E w \in Wallets, c \in Chains : Callbacks!Approve(g, w, c)
          PROVE  FALSE
      BY <3>5 DEF Callbacks!Tick, Callbacks!Close, Callbacks!Receive, Callbacks!Approve
    <3> QED
      BY <3>1, <3>2, <3>3, <3>4, <3>5 DEF Callbacks!Next, Callbacks!Step
  <2>3. t \in tokens /\ t \in Token /\ t.state = f
    BY DEF Callbacks!Honest, CallbackTypes
  <2>4. Callbacks!Fresh(t)
    BY <2>3, HandoffAssumption DEF Callbacks!Honest, Callbacks!Fresh, TokenInv, CallbackTypes, Token
  <2>5. Callbacks!Fits(f, t)
    BY <2>3 DEF Callbacks!Honest, Callbacks!Fits, Callbacks!FitsInit, Callbacks!FitsRevoke,
                TokenInv, FlowInv, CallbackTypes, Token
  <2> QED
    BY <2>1, <2>2, <2>3, <2>4, <2>5 DEF Callbacks!Resume, Callbacks!Goto, CallbackTypes
<1> QED
  BY <1>1, CallbacksAlways, PTL DEF MCSpec, ReceivedCounts, Callbacks!ReceivedCounts, Callbacks!vars, handoff

-----------------------------------------------------------------------------
(* Key and session belong together: whoever replaces them has taken a      *)
(* snapshot in which they do, and nobody else writes until it is done.     *)

\* What has failed to be put back shows until the end.
BrokenShows ==
  \A p \in Processes : mem[p].failed = "restore" => pc[p] \in {"release", "done", "dead"}

Match(k, s) == s.status = "active" => k = s.signer
Replacing == {"saveSession", "restoreKey", "restoreSession"}

\* What p has to know of the files, wherever it is.
CalmAt(p) ==
  /\ pc[p] \in {"captureSession", "waiting", "saveKey", "restoreSession"} => key = mem[p].key
  /\ pc[p] \in {"waiting", "saveKey", "saveSession", "restoreKey"} => session = mem[p].session
  /\ pc[p] \in {"waiting", "saveKey"} \cup Replacing => Match(mem[p].key, mem[p].session)
  /\ pc[p] = "saveSession" => key = p
  /\ pc[p] \in {"revoking", "mark", "wipe"} => key = mem[p].session.signer
  /\ pc[p] \in {"wipe", "unlinkKey"} => session.status = "revoked"

CalmInv ==
  /\ \A p \in Processes : CalmAt(p)
  /\ (\A p \in Processes : pc[p] \notin Replacing) => Match(key, session)

Busy == Inside \cup Revoking

\* Of those that read and write the files, p is the only one.
Only(p) ==
  \A q \in Processes : q # p /\ (pc[p] \in Busy \/ StartRevoke(p)) => pc[q] \notin Busy

LEMMA InitCalm == Init => CalmInv /\ BrokenShows
  BY DEF Init, CalmInv, CalmAt, BrokenShows, Match, Replacing, ActiveSession, Missing, NewMemory

\* No failure but that of a restore hides that of a restore.
LEMMA NextBroken ==
  ASSUME TypeOK, BrokenShows, [Next]_vars
  PROVE  BrokenShows' /\ (RestoresWork' => RestoresWork)
<1>1. CASE UNCHANGED vars \/ Age
  BY <1>1 DEF vars, Age, BrokenShows, RestoresWork
<1>2. ASSUME NEW p \in Processes,
             Step(p) \/ StartInit(p) \/ StartRevoke(p) \/ Approve(p) \/ Die(p)
      PROVE  BrokenShows' /\ (RestoresWork' => RestoresWork)
  <2>1. \A q \in Processes : q # p => pc'[q] = pc[q] /\ mem'[q] = mem[q]
    BY <1>2 DEF Step, StartInit, StartRevoke, Open, Stat, Read, Unlink, WritePid, CaptureKey,
                CaptureSession, Answered, SaveKey, SaveSession, RestoreKey,
                RestoreSession, Release, RevokeAnswered, MarkRevoked, Wipe, UnlinkKey,
                KeepsKey, Approve, Die, Goto, GoWith, TypeOK
  <2>2. /\ mem[p].failed = "restore" => mem'[p].failed = "restore"
        /\ mem'[p].failed = "restore" => pc'[p] \in {"release", "done", "dead"}
    <3> USE DEF BrokenShows, At, TypeOK, Memory, Goto, GoWith
    <3>1. CASE StartInit(p) \/ StartRevoke(p) \/ Approve(p) \/ Die(p)
      <4>1. CASE StartInit(p)
        BY <4>1 DEF StartInit
      <4>2. CASE StartRevoke(p)
        BY <4>2 DEF StartRevoke
      <4>3. CASE Approve(p) \/ Die(p)
        BY <4>3 DEF Approve, Die
      <4> QED
        BY <3>1, <4>1, <4>2, <4>3
    <3>2. CASE Open(p) \/ Stat(p) \/ Read(p) \/ Unlink(p) \/ WritePid(p)
      BY <3>2 DEF Open, Stat, Read, Unlink, WritePid
    <3>3. CASE CaptureKey(p) \/ CaptureSession(p) \/ Answered(p) \/ SaveKey(p)
      BY <3>3 DEF CaptureKey, CaptureSession, Answered, SaveKey
    <3>4. CASE SaveSession(p) \/ RestoreKey(p) \/ RestoreSession(p) \/ Release(p)
      BY <3>4 DEF SaveSession, RestoreKey, RestoreSession, Release
    <3>5. CASE RevokeAnswered(p) \/ MarkRevoked(p) \/ Wipe(p) \/ UnlinkKey(p) \/ KeepsKey(p)
      BY <3>5 DEF RevokeAnswered, MarkRevoked, Wipe, UnlinkKey, KeepsKey
    <3> QED
      BY <1>2, <3>1, <3>2, <3>3, <3>4, <3>5 DEF Step
  <2> QED
    BY <2>1, <2>2 DEF BrokenShows, RestoresWork
<1> QED
  BY <1>1, <1>2 DEF Next

\* A step of p, which shares its place with nobody.
LEMMA StepCalm ==
  ASSUME TypeOK, CalmInv, NEW p \in Processes, Only(p), RestoresWork',
         Step(p) \/ StartInit(p) \/ StartRevoke(p) \/ Approve(p)
  PROVE  CalmInv'
<1>1. \A q \in Processes : q # p => pc'[q] = pc[q] /\ mem'[q] = mem[q]
  BY DEF Step, StartInit, StartRevoke, Open, Stat, Read, Unlink, WritePid, CaptureKey,
         CaptureSession, Answered, SaveKey, SaveSession, RestoreKey,
         RestoreSession, Release, RevokeAnswered, MarkRevoked, Wipe, UnlinkKey,
         KeepsKey, Approve, Goto, GoWith, TypeOK
<1>2. UNCHANGED <<key, session>> \/ pc[p] \in Busy
  BY DEF Step, StartInit, StartRevoke, Open, Stat, Read, Unlink, WritePid, CaptureKey,
         CaptureSession, Answered, SaveKey, SaveSession, RestoreKey, RestoreSession,
         Release, RevokeAnswered, MarkRevoked, Wipe, UnlinkKey, KeepsKey, Approve, At,
         Busy, Inside, Revoking
<1>3. ASSUME NEW q \in Processes, q # p PROVE CalmAt(q)'
  <2>1. CASE UNCHANGED <<key, session>>
    BY <1>1, <1>3, <2>1 DEF CalmInv, CalmAt
  <2>2. CASE pc[p] \in Busy
    <3>1. pc'[q] \notin Busy
      BY <1>1, <1>3, <2>2 DEF Only
    <3> QED
      BY <3>1 DEF CalmAt, Busy, Inside, Revoking, Replacing
  <2> QED
    BY <1>2, <2>1, <2>2
<1>4. /\ CalmAt(p)'
      /\ (\A q \in Processes : pc[q] \notin Replacing)' => Match(key', session')
  <2>1. mem'[p].failed # "restore"
    BY DEF RestoresWork
  <2>2. pc[p] \in Busy \/ StartRevoke(p) => \A q \in Processes : q # p => pc[q] \notin Replacing
    BY DEF Only, Busy, Inside, Replacing
  <2> DEFINE Nobody == \A q \in Processes : pc[q] \notin Replacing
  <2>3. CalmAt(p) /\ (Nobody => Match(key, session))
    BY DEF CalmInv
  <2>4. ASSUME pc[p] \notin Replacing, \A q \in Processes : pc'[q] \notin Replacing
        PROVE  Nobody
    BY <1>1, <2>4
  <2>5. ASSUME pc[p] \in Busy, pc[p] \notin Replacing
        PROVE  Nobody
    BY <2>2, <2>5
  <2> HIDE DEF Nobody
  <2>6. CASE StartInit(p) \/ Open(p) \/ Stat(p) \/ Read(p) \/ Unlink(p)
    <3>1. UNCHANGED <<key, session>> /\ pc[p] \notin Replacing
          /\ pc'[p] \in {"open", "write", "refused", "stat", "read", "unlink"}
      BY <2>6 DEF StartInit, Open, Stat, Read, Unlink, At, Goto, GoWith, TypeOK, Replacing
    <3> QED
      BY <2>3, <2>4, <3>1 DEF CalmAt, Replacing
  <2>7. CASE WritePid(p) \/ CaptureKey(p) \/ Release(p)
    <3>1. /\ UNCHANGED <<key, session>> /\ pc[p] \notin Replacing
          /\ pc'[p] \in {"capture", "refused", "captureSession", "done"}
          /\ pc'[p] = "captureSession" => mem'[p].key = key
      BY <2>7 DEF WritePid, CaptureKey, Release, At, Goto, GoWith, TypeOK, Memory, Replacing
    <3> QED
      BY <2>3, <2>4, <3>1 DEF CalmAt, Replacing
  <2>8. CASE CaptureSession(p)
    <3>1. Nobody
      BY <2>5, <2>8 DEF CaptureSession, At, Busy, Inside, Replacing
    <3>2. UNCHANGED <<key, session>> /\ pc'[p] = "waiting" /\ mem'[p].session = session
          /\ mem'[p].key = mem[p].key /\ key = mem[p].key
      BY <2>3, <2>8 DEF CaptureSession, At, GoWith, TypeOK, Memory, CalmAt
    <3> QED
      BY <2>3, <3>1, <3>2 DEF CalmAt, Match, Replacing
  <2>9. CASE Answered(p) \/ SaveKey(p)
    <3>1. Nobody
      BY <2>5, <2>9 DEF Answered, SaveKey, At, Busy, Inside, Replacing
    <3>2. /\ UNCHANGED session /\ mem'[p].session = mem[p].session /\ mem'[p].key = mem[p].key
          /\ session = mem[p].session /\ Match(mem[p].key, mem[p].session) /\ key = mem[p].key
      BY <2>3, <2>9 DEF Answered, SaveKey, At, Goto, GoWith, TypeOK, Memory, CalmAt
    <3>3. \/ pc'[p] \in {"saveKey", "restoreKey"} /\ UNCHANGED key
          \/ pc'[p] = "saveSession" /\ key' = p
      BY <2>9 DEF Answered, SaveKey, Goto, GoWith, TypeOK
    <3> QED
      BY <2>3, <3>1, <3>2, <3>3 DEF CalmAt, Replacing
  <2>10. CASE SaveSession(p)
    <3>1. \/ pc'[p] = "release" /\ session' = ActiveSession(mem[p].approved, p) /\ key' = key
          \/ /\ pc'[p] = "restoreKey" /\ session' = session
             /\ mem'[p].session = mem[p].session /\ mem'[p].key = mem[p].key
      BY <2>10 DEF SaveSession, Goto, GoWith, TypeOK, Memory
    <3>2. key = p /\ session = mem[p].session /\ Match(mem[p].key, mem[p].session)
      BY <2>3, <2>10 DEF CalmAt, SaveSession, At, Replacing
    <3> QED
      BY <3>1, <3>2 DEF CalmAt, Replacing, Match, ActiveSession
  <2>11. CASE RestoreKey(p) \/ RestoreSession(p)
    <3>1. /\ mem'[p].session = mem[p].session /\ mem'[p].key = mem[p].key
          /\ Match(mem[p].key, mem[p].session)
          /\ \/ pc'[p] = "restoreSession" /\ key' = mem[p].key
             \/ pc'[p] = "release" /\ key' = mem[p].key /\ session' = mem[p].session
      BY <2>1, <2>3, <2>11 DEF RestoreKey, RestoreSession, Restored, At, Goto, GoWith, TypeOK,
                               Memory, CalmAt, Replacing
    <3> QED
      BY <3>1 DEF CalmAt, Replacing
  <2>12. CASE StartRevoke(p) \/ RevokeAnswered(p)
    <3>1. Nobody
      BY <2>2, <2>12 DEF Nobody, StartRevoke, RevokeAnswered, At, Busy, Revoking, Replacing
    <3>2. /\ UNCHANGED <<key, session>>
          /\ \/ pc'[p] = "revoking" /\ mem'[p].session = session /\ session.status = "active"
             \/ pc'[p] = "mark" /\ mem'[p].session = mem[p].session /\ pc[p] = "revoking"
             \/ pc'[p] = "done"
      BY <2>12 DEF StartRevoke, RevokeAnswered, At, Goto, GoWith, TypeOK, Memory
    <3> QED
      BY <2>3, <3>1, <3>2 DEF CalmAt, Match, Replacing
  <2>13. CASE MarkRevoked(p)
    <3>1. Nobody
      BY <2>5, <2>13 DEF MarkRevoked, At, Busy, Revoking, Replacing
    <3>2. /\ UNCHANGED key
          /\ \/ /\ pc'[p] = "wipe" /\ mem'[p].session = mem[p].session
                /\ session'.status = "revoked"
             \/ pc'[p] = "done" /\ UNCHANGED session
      BY <2>13 DEF MarkRevoked, Marked, RevokedSession, Goto, GoWith, TypeOK, Memory, Session
    <3> QED
      BY <2>3, <2>13, <3>1, <3>2 DEF CalmAt, Match, Replacing, MarkRevoked, At
  <2>14. CASE Wipe(p) \/ UnlinkKey(p) \/ KeepsKey(p)
    <3>1. UNCHANGED session /\ pc'[p] \in {"unlinkKey", "done"} /\ pc[p] \in {"wipe", "unlinkKey"}
      BY <2>14 DEF Wipe, UnlinkKey, KeepsKey, At, Goto, GoWith, TypeOK
    <3> QED
      BY <2>3, <3>1 DEF CalmAt, Match, Replacing
  <2>15. CASE Approve(p)
    <3>1. UNCHANGED <<key, session, pc>> /\ mem'[p].session = mem[p].session
          /\ mem'[p].key = mem[p].key
      BY <2>15 DEF Approve, TypeOK, Memory
    <3> QED
      BY <2>3, <3>1 DEF CalmAt, Nobody
  <2> QED
    BY <2>6, <2>7, <2>8, <2>9, <2>10, <2>11, <2>12, <2>13, <2>14, <2>15 DEF Step
<1> QED
  BY <1>3, <1>4 DEF CalmInv

LEMMA NextCalm ==
  ASSUME TypeOK, Fresh, BrokenShows, LockExcludes, Undisturbed => SnapshotInv,
         Undisturbed /\ RestoresWork => CalmInv, [Next]_vars, Undisturbed', RestoresWork'
  PROVE  CalmInv'
<1>1. CalmInv /\ SnapshotInv /\ MutualExclusion
  BY DeathStays, NextFresh, NextBroken DEF Undisturbed, LockExcludes
<1>2. CASE Age \/ UNCHANGED vars
  BY <1>1, <1>2 DEF Age, vars, CalmInv, CalmAt
<1>3. ASSUME NEW p \in Processes, Step(p) \/ StartInit(p) \/ Approve(p)
      PROVE  CalmInv'
  <2>1. Only(p)
    <3>1. ~StartRevoke(p)
      BY RevokeShows DEF Undisturbed
    <3> QED
      BY <1>1, <3>1 DEF Only, Busy, SnapshotInv, MutualExclusion
  <2> QED
    BY <1>1, <1>3, <2>1, StepCalm
<1>4. \A p \in Processes : ~StartRevoke(p) /\ ~Die(p)
  BY RevokeShows DEF Die, Goto, TypeOK, Undisturbed, NobodyDied, Alive
<1> QED
  BY <1>2, <1>3, <1>4 DEF Next

LEMMA PairedAlways == Spec => []Paired
<1>1. (Undisturbed /\ RestoresWork => CalmInv) => Paired
  <2>1. \A p \in Processes : pc[p] \notin Inside => pc[p] \notin Replacing
    BY DEF Inside, Replacing
  <2> QED
    BY <2>1 DEF Undisturbed, Paired, CalmInv, Match
<1>2. (Undisturbed => SnapshotInv) /\ TypeOK /\ Fresh /\ LockExcludes /\ [Next]_vars =>
        (Undisturbed => SnapshotInv)'
  BY NextSnapshot
<1>3. TypeOK /\ BrokenShows /\ [Next]_vars => BrokenShows'
  BY NextBroken
<1>4. /\ TypeOK /\ Fresh /\ BrokenShows /\ LockExcludes /\ (Undisturbed => SnapshotInv)
      /\ (Undisturbed /\ RestoresWork => CalmInv) /\ [Next]_vars
      => (Undisturbed /\ RestoresWork => CalmInv)'
  BY NextCalm
<1>5. Init => SnapshotInv /\ CalmInv /\ BrokenShows
  BY InitSnapshot, InitCalm
<1> QED
  BY Exclusion, TypeCorrect, FreshAlways, <1>1, <1>2, <1>3, <1>4, <1>5, PTL DEF Spec

\* Where nobody migrates, the files are those of AuthSession.
LEMMA Undivided == MCSpec /\ ~Migrates => Spec
<1>1. MCInit => Init
  BY DEF MCInit, CInit
<1>2. ~Migrates /\ [MCNext]_<<vars, cvars, mvars, listing, handoff, part>> =>
        [Next]_vars /\ ~Migrates'
  BY DeviceSteps DEF MCNext, SerialNext, Next, Migrates
<1> QED
  BY <1>1, <1>2, PTL DEF MCSpec, Spec

\* No failure of a bootstrap pairs a session with the key of another, however many
\* there are at once and wherever they fail, until a restore fails itself.
THEOREM AlwaysPaired == MCSpec => []StaysPaired
<1>1. [MCNext]_<<vars, cvars, mvars, listing, handoff, part>> => UNCHANGED part
  BY DEF MCNext
<1>2. Migrates => StaysPaired
  BY DEF StaysPaired
<1>3. Paired => StaysPaired
  BY DEF StaysPaired
<1>4. Migrates /\ UNCHANGED part => Migrates'
  BY DEF Migrates
<1> QED
  BY Undivided, PairedAlways, <1>1, <1>2, <1>3, <1>4, PTL DEF MCSpec

-----------------------------------------------------------------------------
(* Commands that run one after the other                                   *)

Running(p) == ~At(p, "idle") /\ ~Ended(p)
Alone == \A p, q \in Processes : Running(p) /\ Running(q) => p = q

Moves(p) == Step(p) \/ StartInit(p) \/ StartRevoke(p) \/ Approve(p) \/ Die(p)

\* Where a process has a snapshot of the key, and where one of both files.
HasKey == Inside \ {"write", "capture"}
HasBoth == {"waiting", "saveKey", "release"} \cup Replacing

\* What a process that is not done can do to the files and to its memory.
Effect(p) ==
  /\ ~Ended(p) /\ pc'[p] # "idle"
  /\ \A q \in Processes : q # p => pc'[q] = pc[q] /\ mem'[q] = mem[q]
  /\ \/ key' \in {key, None, Torn}
     \/ At(p, "saveKey") /\ key' = p
     \/ At(p, "restoreKey") /\ key' = mem[p].key
  /\ \/ session' = session
     \/ At(p, "restoreSession") /\ mem'[p].failed = "restore"
        /\ session' = [Missing EXCEPT !.status = "torn"]
     \/ At(p, "mark") /\ session' = RevokedSession(mem[p].session)
     \/ At(p, "saveSession") /\ session' = ActiveSession(mem[p].approved, p)
     \/ At(p, "restoreSession") /\ session' = mem[p].session
  /\ \/ mem'[p].key = key
     \/ mem'[p].key = mem[p].key /\ (pc'[p] \in HasKey => pc[p] \in HasKey)
  /\ \/ mem'[p].session = session /\ (At(p, "captureSession") \/ StartRevoke(p))
     \/ mem'[p].session = mem[p].session /\ (pc'[p] \in HasBoth => pc[p] \in HasBoth)
  /\ \/ mem'[p].flow = "revoke" /\ StartRevoke(p)
     \/ mem'[p].flow = "init" /\ StartInit(p)
     \/ mem'[p].flow = mem[p].flow /\ ~At(p, "idle")

LEMMA Effects ==
  ASSUME TypeOK, NEW p \in Processes, Moves(p)
  PROVE  Effect(p)
<1> USE DEF At, Goto, GoWith, TypeOK, Memory, Ended, Effect, HasKey, HasBoth, Inside, Replacing
<1>1. CASE StartInit(p) \/ StartRevoke(p)
  <2>1. /\ pc[p] = "idle" /\ pc'[p] \in {"open", "revoking"} /\ UNCHANGED <<key, session>>
        /\ \A q \in Processes : q # p => pc'[q] = pc[q] /\ mem'[q] = mem[q]
        /\ mem'[p].key = mem[p].key
    <3>1. CASE StartInit(p)
      BY <3>1 DEF StartInit
    <3>2. CASE StartRevoke(p)
      BY <3>2 DEF StartRevoke
    <3> QED
      BY <1>1, <3>1, <3>2
  <2>2. StartInit(p) => mem'[p].flow = "init" /\ mem'[p].session = mem[p].session
                        /\ pc'[p] = "open"
    BY DEF StartInit
  <2>3. StartRevoke(p) => mem'[p].flow = "revoke" /\ mem'[p].session = session
    BY DEF StartRevoke
  <2> QED
    BY <1>1, <2>1, <2>2, <2>3
<1>2. CASE Approve(p) \/ Die(p)
  BY <1>2 DEF Approve, Die
<1>3. CASE Open(p) \/ Stat(p) \/ Read(p) \/ Unlink(p) \/ WritePid(p)
  BY <1>3 DEF Open, Stat, Read, Unlink, WritePid
<1>4. CASE CaptureKey(p) \/ CaptureSession(p)
  BY <1>4 DEF CaptureKey, CaptureSession
<1>5. CASE Answered(p) \/ SaveKey(p)
  BY <1>5 DEF Answered, SaveKey
<1>6. CASE SaveSession(p)
  BY <1>6 DEF SaveSession
<1>7. CASE RestoreKey(p) \/ RestoreSession(p)
  BY <1>7 DEF RestoreKey, RestoreSession, Restored
<1>8. CASE Release(p) \/ RevokeAnswered(p)
  BY <1>8 DEF Release, RevokeAnswered
<1>9. CASE MarkRevoked(p)
  BY <1>9 DEF MarkRevoked, Marked
<1>10. CASE Wipe(p) \/ UnlinkKey(p) \/ KeepsKey(p)
  BY <1>10 DEF Wipe, UnlinkKey, KeepsKey
<1> QED
  BY <1>1, <1>2, <1>3, <1>4, <1>5, <1>6, <1>7, <1>8, <1>9, <1>10 DEF Moves, Step

Phases == {"idle", "legacy", "copy", "copying", "save", "resolve", "loaded", "broken"}
Got == [session: Session, key: {"none", "here", "legacy"}]

MTypeOK ==
  /\ TypeOK
  /\ legacyKey \in {Earlier, None}
  /\ phase \in [Loaders -> Phases]
  /\ got \in [Loaders -> Got]

\* All the variables of a device.
device == <<vars, cvars, mvars, listing, handoff, part>>

\* What a command that loads can do to the files.
LoadEffect(c) ==
  /\ UNCHANGED <<lock, registered, pc, mem, legacyKey>>
  /\ \A d \in Loaders : d # c => phase'[d] = phase[d] /\ got'[d] = got[d]
  /\ \/ key' = key
     \/ phase[c] = "copy" /\ key' = Torn
     \/ phase[c] = "copying" /\ key' = legacyKey
  /\ \/ session' = session
     \/ phase[c] = "save" /\ session' = LegacySession

LEMMA LoadEffects ==
  ASSUME MTypeOK, NEW c \in Loaders, Load(c)
  PROVE  LoadEffect(c) /\ MTypeOK'
<1>1. LoadEffect(c)
  <2> USE DEF LoadEffect, Move, MTypeOK
  <2>1. CASE LoadCurrent(c) \/ LoadLegacy(c) \/ Resolve(c) \/ End(c) \/ Break(c)
    BY <2>1 DEF Load, LoadCurrent, LoadLegacy, Resolve, End, Break
  <2>2. CASE CopyKey(c) \/ CopyEnds(c) \/ SaveMigrated(c)
    BY <2>2 DEF Load, CopyKey, CopyEnds, SaveMigrated
  <2> QED
    BY <2>1, <2>2 DEF Load
<1>2. LegacySession \in Session /\ Nothing \in Got /\ legacyKey \in Keys \cup {None}
  BY ConstantsAssumption
     DEF LegacySession, ActiveSession, Nothing, Missing, Got, Session, Keys, MTypeOK
<1>3. /\ phase' \in [Loaders -> Phases]
      /\ got' \in [Loaders -> Got]
  <2>1. \A there \in Phases, file \in Got :
          Move(c, there, file) =>
            phase' \in [Loaders -> Phases] /\ got' \in [Loaders -> Got]
    BY DEF Move, MTypeOK
  <2>2. /\ session \in Session /\ got[c] \in Got
        /\ \A s \in Session, k \in {"none", "here", "legacy"} :
             [session |-> s, key |-> k] \in Got
    BY DEF MTypeOK, TypeOK, Got
  <2>3. \E there \in Phases, file \in Got : Move(c, there, file)
    <3>1. CASE LoadCurrent(c)
      BY <1>2, <2>2, <3>1 DEF LoadCurrent, Phases
    <3>2. CASE LoadLegacy(c)
      BY <1>2, <2>2, <3>2 DEF LoadLegacy, AfterMissing, Phases
    <3>3. CASE CopyKey(c) \/ CopyEnds(c) \/ End(c) \/ Break(c)
      BY <1>2, <3>3 DEF CopyKey, CopyEnds, End, Break, Phases
    <3>4. CASE SaveMigrated(c)
      BY <1>2, <2>2, <3>4 DEF SaveMigrated, Phases
    <3>5. CASE Resolve(c)
      BY <1>2, <2>2, <3>5 DEF Resolve, Phases
    <3> QED
      BY <3>1, <3>2, <3>3, <3>4, <3>5 DEF Load
  <2> QED
    BY <2>1, <2>3
<1>4. TypeOK'
  <2>1. key' \in Keys \cup {None, Torn} /\ session' \in Session
    BY <1>1, <1>2 DEF LoadEffect, MTypeOK, TypeOK
  <2> QED
    BY <1>1, <2>1 DEF LoadEffect, MTypeOK, TypeOK, NoLock
<1> QED
  BY <1>1, <1>3, <1>4 DEF LoadEffect, MTypeOK

\* The steps of a device: those of AuthSession, and of the commands that migrate.
LEMMA DeviceStep ==
  ASSUME [MCNext]_device
  PROVE  /\ UNCHANGED part
         /\ \/ [Next]_vars /\ UNCHANGED mvars
            \/ Migrates /\ \E c \in Loaders : Load(c)
<1>1. SerialNext => Next
  BY DEF SerialNext, Next
<1> QED
  BY <1>1, DeviceSteps DEF MCNext, AloneNext, MNext, Migrates, device

LEMMA DeviceTyped == MCSpec => []MTypeOK
<1>1. MCInit => MTypeOK
  <2>1. Nothing \in Got
    BY DEF Nothing, Missing, Got, Session
  <2> QED
    BY <2>1, InitTyped DEF MCInit, CInit, MInit, MTypeOK, Phases
<1>2. MTypeOK /\ [MCNext]_device => MTypeOK'
  <2>1. MTypeOK /\ [Next]_vars /\ UNCHANGED mvars => MTypeOK'
    BY NextTyped DEF MTypeOK, mvars
  <2> QED
    BY <2>1, DeviceStep, LoadEffects
<1> QED
  BY <1>1, <1>2, PTL DEF MCSpec, device

\* Whose turn it is: in a serial behaviour, and where the commands that migrate are
\* alone.
Turns == part \in {"serial", "migrateAlone"}

Rest == \A p \in Processes : ~Running(p)
InTurn(p) == Moves(p) /\ (StartInit(p) \/ StartRevoke(p) => Rest)

LEMMA TurnStep ==
  ASSUME Turns, [MCNext]_device
  PROVE  /\ Turns' /\ UNCHANGED part
         /\ \/ /\ \E p \in Processes : InTurn(p)
               /\ UNCHANGED mvars
               /\ part = "migrateAlone" => \A c \in Loaders : Resting(c)
            \/ UNCHANGED <<key, session, pc, mem, mvars>>
            \/ Rest /\ part = "migrateAlone" /\
               \E c \in Loaders : Load(c) /\ \A d \in Loaders \ {c} : Resting(d)
<1>1. \A p \in Processes : At(p, "idle") \/ Ended(p) <=> ~Running(p)
  BY DEF Running
<1>2. CASE UNCHANGED device
  BY <1>2 DEF device, vars, mvars, Turns
<1>3. CASE MCNext
  <2>1. Turns'
    BY <1>3 DEF MCNext, Turns
  <2>2. \A p \in Processes :
          StartInit(p) \/ StartRevoke(p) => ~Step(p) /\ ~Approve(p) /\ ~Die(p)
    BY DEF StartInit, StartRevoke, At, Step, Approve, Die, Open, Stat, Read, Unlink, WritePid,
           CaptureKey, CaptureSession, Answered, SaveKey, SaveSession, RestoreKey,
           RestoreSession, Release, RevokeAnswered, MarkRevoked, Wipe, UnlinkKey, KeepsKey
  <2>3. CASE /\ SerialNext /\ UNCHANGED <<mvars, part>>
             /\ part = "migrateAlone" => \A c \in Loaders : Resting(c)
    <3>1. CASE Age
      BY <2>1, <2>3, <3>1 DEF Age
    <3>2. ASSUME NEW p \in Processes, Step(p) \/ Approve(p) \/ Die(p)
          PROVE  InTurn(p)
      BY <2>2, <3>2 DEF InTurn, Moves
    <3>3. ASSUME NEW p \in Processes, StartInit(p) \/ StartRevoke(p), Rest
          PROVE  InTurn(p)
      BY <3>3 DEF InTurn, Moves
    <3> QED
      BY <1>1, <2>1, <2>3, <3>1, <3>2, <3>3 DEF SerialNext, Rest
  <2> QED
    BY <1>1, <1>3, <2>1, <2>3 DEF MCNext, AloneNext, Rest, Turns
<1> QED
  BY <1>2, <1>3

LEMMA AloneStep ==
  ASSUME MTypeOK, Alone, Turns, [MCNext]_device
  PROVE  Alone'
<1>1. CASE UNCHANGED pc
  BY <1>1 DEF Alone, Running, Ended, At
<1>2. ASSUME NEW p \in Processes, InTurn(p) PROVE Alone'
  <2>1. /\ \A q \in Processes : q # p => pc'[q] = pc[q]
        /\ At(p, "idle") => StartInit(p) \/ StartRevoke(p)
        /\ At(p, "idle") \/ Running(p)
    <3>1. Effect(p)
      BY <1>2, Effects DEF InTurn, MTypeOK
    <3>2. At(p, "idle") => ~Step(p) /\ ~Approve(p) /\ ~Die(p)
      BY DEF At, Step, Approve, Die, Open, Stat, Read, Unlink, WritePid, CaptureKey,
             CaptureSession, Answered, SaveKey, SaveSession, RestoreKey, RestoreSession,
             Release, RevokeAnswered, MarkRevoked, Wipe, UnlinkKey, KeepsKey
    <3> QED
      BY <1>2, <3>1, <3>2 DEF Effect, InTurn, Moves, Running
  <2>2. \A q \in Processes : q # p => ~Running(q)
    BY <1>2, <2>1 DEF InTurn, Rest, Alone
  <2> QED
    BY <2>1, <2>2 DEF Alone, Running, Ended, At
<1>3. (\E c \in Loaders : Load(c)) => UNCHANGED pc
  BY DEF Load
<1> QED
  BY <1>1, <1>2, <1>3, TurnStep

\* So nobody reads and writes the files beside a command whose turn it is.
LEMMA OnlyInTurn ==
  ASSUME MTypeOK, Alone, NEW p \in Processes, InTurn(p)
  PROVE  Only(p)
<1>1. \A q \in Processes : pc[q] \in Busy => Running(q)
  BY DEF Busy, Inside, Revoking, Running, At, Ended
<1> QED
  BY <1>1 DEF Only, Alone, InTurn, Rest

\* What a command that has not started yet will generate is nowhere.
Unseen(p) ==
  /\ key # p /\ session.signer # p
  /\ \A q \in Processes : mem[q].key # p /\ mem[q].session.signer # p

FlowsAt(p) ==
  /\ mem[p].flow = "revoke" =>
       pc[p] \in Revoking \cup {"done", "dead"} /\ mem[p].session.status = "active"
  /\ pc[p] \in Revoking => mem[p].flow = "revoke"
  /\ mem[p].session.status = "active" => mem[p].session.signer # None
  /\ pc[p] \in {"wipe", "unlinkKey"} => session.status = "revoked"
  /\ At(p, "idle") => Unseen(p)

FlowsInv ==
  /\ \A p \in Processes : FlowsAt(p)
  /\ session.status = "active" => session.signer # None

LEMMA InitFlows == Init => FlowsInv /\ Alone
  BY ConstantsAssumption
     DEF Init, FlowsInv, FlowsAt, Alone, Running, Unseen, NewMemory, Missing, ActiveSession,
         Revoking, At

LEMMA FlowsStep ==
  ASSUME MTypeOK, Fresh, FlowsInv, NEW p \in Processes, InTurn(p), Only(p)
  PROVE  FlowsInv'
<1>1. Effect(p) /\ mem[p] \in Memory /\ session \in Session /\ key \in Keys \cup {None, Torn}
  BY Effects DEF InTurn, MTypeOK, TypeOK
<1>2. FlowsAt(p) /\ (session.status = "active" => session.signer # None)
  BY DEF FlowsInv
<1>3. /\ session'.signer \in {session.signer, None, p, mem[p].session.signer}
      /\ session'.status = "active" => session'.signer # None
      /\ session'.status # session.status => pc[p] \in Busy
  <2>1. mem[p].session \in Session
    BY <1>1 DEF Memory
  <2>2. CASE session' = session
    BY <1>2, <2>2
  <2>3. CASE session' = [Missing EXCEPT !.status = "torn"] /\ At(p, "restoreSession")
    BY <2>3 DEF Missing, At, Busy, Inside
  <2>4. CASE At(p, "mark") /\ session' = RevokedSession(mem[p].session)
    BY <2>1, <2>4 DEF RevokedSession, Session, At, Busy, Revoking
  <2>5. CASE At(p, "saveSession") /\ session' = ActiveSession(mem[p].approved, p)
    BY <2>5, ConstantsAssumption DEF ActiveSession, At, Busy, Inside
  <2>6. CASE At(p, "restoreSession") /\ session' = mem[p].session
    BY <1>2, <2>6 DEF FlowsAt, At, Busy, Inside
  <2> QED
    BY <1>1, <2>2, <2>3, <2>4, <2>5, <2>6 DEF Effect
<1>4. ASSUME NEW q \in Processes, pc'[q] = "idle"
      PROVE  Unseen(q)'
  <2>1. q # p /\ pc'[q] = pc[q]
    BY <1>1, <1>4 DEF Effect
  <2>2. Unseen(q)
    BY <1>4, <2>1 DEF FlowsInv, FlowsAt, At
  <2>3. key' # q /\ session'.signer # q
    BY <1>1, <1>3, <2>1, <2>2, ConstantsAssumption DEF Effect, Unseen
  <2>4. mem'[p].key # q /\ mem'[p].session.signer # q
    BY <1>1, <2>1, <2>2 DEF Effect, Unseen
  <2> QED
    BY <1>1, <2>2, <2>3, <2>4 DEF Effect, Unseen
<1>5. ASSUME NEW q \in Processes, q # p
      PROVE  FlowsAt(q)'
  <2>1. pc'[q] = pc[q] /\ mem'[q] = mem[q]
    BY <1>1, <1>5 DEF Effect
  <2>2. pc[q] \in {"wipe", "unlinkKey"} => session'.status = session.status
    BY <1>3, <1>5 DEF Only, Busy, Revoking
  <2>3. FlowsAt(q)
    BY DEF FlowsInv
  <2> QED
    BY <1>4, <2>1, <2>2, <2>3 DEF FlowsAt, At
<1>6. FlowsAt(p)'
  <2>1. /\ mem'[p].session.status = "active" => mem'[p].session.signer # None
    BY <1>1, <1>2 DEF Effect, FlowsAt
  <2>2. /\ mem'[p].flow = "revoke" =>
             pc'[p] \in Revoking \cup {"done", "dead"} /\ mem'[p].session.status = "active"
        /\ pc'[p] \in Revoking => mem'[p].flow = "revoke"
        /\ pc'[p] \in {"wipe", "unlinkKey"} => session'.status = "revoked"
    <3> USE <1>1, <1>2 DEF FlowsAt, Revoking, At, MTypeOK, TypeOK, Memory, Goto, GoWith
    <3>1. CASE StartInit(p)
      BY <3>1 DEF StartInit
    <3>2. CASE StartRevoke(p)
      BY <3>2 DEF StartRevoke
    <3>3. CASE Approve(p) \/ Die(p)
      BY <3>3 DEF Approve, Die
    <3>4. CASE Open(p) \/ Stat(p) \/ Read(p) \/ Unlink(p) \/ WritePid(p)
      BY <3>4 DEF Open, Stat, Read, Unlink, WritePid
    <3>5. CASE CaptureKey(p) \/ CaptureSession(p) \/ Answered(p) \/ SaveKey(p)
      BY <3>5 DEF CaptureKey, CaptureSession, Answered, SaveKey
    <3>6. CASE SaveSession(p) \/ RestoreKey(p) \/ RestoreSession(p) \/ Release(p)
      BY <3>6 DEF SaveSession, RestoreKey, RestoreSession, Release
    <3>7. CASE RevokeAnswered(p)
      BY <3>7 DEF RevokeAnswered
    <3>8. CASE MarkRevoked(p)
      BY <3>8 DEF MarkRevoked, Marked, RevokedSession, Session
    <3>9. CASE Wipe(p) \/ UnlinkKey(p) \/ KeepsKey(p)
      BY <3>9 DEF Wipe, UnlinkKey, KeepsKey
    <3> QED
      BY <3>1, <3>2, <3>3, <3>4, <3>5, <3>6, <3>7, <3>8, <3>9 DEF InTurn, Moves, Step
  <2> QED
    BY <1>1, <2>1, <2>2 DEF FlowsAt, At, Effect
<1> QED
  BY <1>3, <1>5, <1>6 DEF FlowsInv

\* p has revoked its signer, and deleted the key.
Gone(p) == At(p, "done") /\ mem[p].flow = "revoke" /\ mem[p].failed = "nothing"

\* The signer k is not there, and nobody can bring it back.
NeverBack(k) ==
  /\ key # k /\ ~ActiveFor(session, k) /\ session.status # "missing"
  /\ k \in Processes => Ended(k)
  /\ \A q \in Processes :
       /\ pc[q] \in HasKey => mem[q].key # k
       /\ pc[q] \in HasBoth =>
            ~ActiveFor(mem[q].session, k) /\ mem[q].session.status # "missing"

GoneInv == \A p \in Processes : Gone(p) => NeverBack(mem[p].session.signer)

LEMMA BackStep ==
  ASSUME MTypeOK, NEW p \in Processes, InTurn(p),
         NEW k \in Keys, NeverBack(k)
  PROVE  NeverBack(k)'
<1>1. Effect(p)
  BY Effects DEF InTurn, MTypeOK
<1>2. mem[p] \in Memory /\ session \in Session /\ mem[p].session \in Session
  BY DEF MTypeOK, TypeOK, Memory
<1>3. k # None /\ k # Torn
  BY ConstantsAssumption DEF Keys
<1>4. k # p /\ (k \in Processes => Ended(k)')
  BY <1>1 DEF Effect, NeverBack, Ended
<1>5. key' # k
  BY <1>1, <1>3, <1>4 DEF Effect, NeverBack, HasKey, Inside, At
<1>6. ~ActiveFor(session', k) /\ session'.status # "missing"
  BY <1>1, <1>2, <1>4
     DEF Effect, NeverBack, HasBoth, Replacing, At, Missing, RevokedSession, ActiveSession, ActiveFor, Session
<1>7. /\ pc'[p] \in HasKey => mem'[p].key # k
      /\ pc'[p] \in HasBoth =>
           ~ActiveFor(mem'[p].session, k) /\ mem'[p].session.status # "missing"
  BY <1>1 DEF Effect, NeverBack
<1>8. \A q \in Processes : q # p => pc'[q] = pc[q] /\ mem'[q] = mem[q]
  BY <1>1 DEF Effect
<1> QED
  BY <1>4, <1>5, <1>6, <1>7, <1>8 DEF NeverBack, ActiveFor

\* The key is deleted last.
LEMMA DeletedStep ==
  ASSUME MTypeOK, Alone, FlowsInv, NEW p \in Processes, InTurn(p), Gone(p)'
  PROVE  /\ mem[p].session.signer \in Keys /\ mem'[p].session = mem[p].session
         /\ \A k \in Keys : k = mem[p].session.signer => NeverBack(k)'
<1>1. FlowsAt(p) /\ mem[p] \in Memory /\ Effect(p)
  BY Effects DEF FlowsInv, MTypeOK, TypeOK, InTurn
<1>2. UnlinkKey(p)
  <2> USE <1>1 DEF Gone, FlowsAt, Revoking, At, MTypeOK, TypeOK, Memory, Goto, GoWith
  <2>1. ~StartInit(p) /\ ~StartRevoke(p) /\ ~Approve(p) /\ ~Die(p)
    BY DEF StartInit, StartRevoke, Approve, Die
  <2>2. ~Open(p) /\ ~Stat(p) /\ ~Read(p) /\ ~Unlink(p) /\ ~WritePid(p)
    BY DEF Open, Stat, Read, Unlink, WritePid
  <2>3. ~CaptureKey(p) /\ ~CaptureSession(p) /\ ~Answered(p) /\ ~SaveKey(p)
    BY DEF CaptureKey, CaptureSession, Answered, SaveKey
  <2>4. ~SaveSession(p) /\ ~RestoreKey(p) /\ ~RestoreSession(p) /\ ~Release(p)
    BY DEF SaveSession, RestoreKey, RestoreSession, Release
  <2>5. ~RevokeAnswered(p) /\ ~MarkRevoked(p) /\ ~Wipe(p) /\ ~KeepsKey(p)
    BY DEF RevokeAnswered, MarkRevoked, Wipe, KeepsKey
  <2> QED
    BY <2>1, <2>2, <2>3, <2>4, <2>5 DEF InTurn, Moves, Step
<1>3. /\ pc[p] = "unlinkKey" /\ pc'[p] = "done" /\ key' = None /\ UNCHANGED <<session, mem>>
  BY <1>2 DEF UnlinkKey, Goto, At, MTypeOK, TypeOK
<1>4. session.status = "revoked" /\ mem[p].session.signer \in Keys
  BY <1>1, <1>3 DEF FlowsAt, Revoking, Memory, Session
<1>5. \A q \in Processes : q # p => pc'[q] = pc[q] /\ ~Running(q)
  BY <1>1, <1>3 DEF Effect, Alone, Running, At, Ended
<1>6. \A q \in Processes : pc'[q] \notin HasKey /\ pc'[q] \notin HasBoth
  BY <1>3, <1>5 DEF Running, At, Ended, HasKey, HasBoth, Inside, Replacing
<1>7. ASSUME NEW k \in Keys, k = mem[p].session.signer
      PROVE  NeverBack(k)'
  <2>1. ASSUME k \in Processes PROVE Ended(k)'
    <3>1. pc[k] # "idle"
      BY <1>7, <2>1 DEF FlowsInv, FlowsAt, Unseen, At
    <3> QED
      BY <1>3, <1>5, <2>1, <3>1 DEF Running, At, Ended
  <2>2. session'.status = "revoked" /\ key' # k
    BY <1>3, <1>4, ConstantsAssumption DEF Keys
  <2> QED
    BY <1>6, <2>1, <2>2 DEF NeverBack, ActiveFor
<1> QED
  BY <1>3, <1>4, <1>7

\* No part of a session file is left by a restore that works.
UntornInv ==
  RestoresWork =>
    session.status # "torn" /\ \A p \in Processes : mem[p].session.status # "torn"

LEMMA UntornStep ==
  ASSUME MTypeOK, BrokenShows, UntornInv, NEW p \in Processes, Moves(p)
  PROVE  UntornInv'
<1> SUFFICES ASSUME RestoresWork'
             PROVE  /\ session'.status # "torn"
                    /\ \A q \in Processes : mem'[q].session.status # "torn"
  BY DEF UntornInv
<1>1. RestoresWork
  BY NextBroken DEF Moves, Next, MTypeOK
<1>2. Effect(p) /\ mem[p].session \in Session /\ mem'[p].failed # "restore"
  BY Effects DEF MTypeOK, TypeOK, Memory, RestoresWork
<1>3. session'.status # "torn"
  BY <1>1, <1>2 DEF UntornInv, Effect, RevokedSession, ActiveSession, Session
<1>4. \A q \in Processes : mem'[q].session.status # "torn"
  BY <1>1, <1>2 DEF UntornInv, Effect
<1> QED
  BY <1>3, <1>4

LoadsAlone ==
  part = "migrateAlone" =>
    /\ \A c, d \in Loaders : ~Resting(c) /\ ~Resting(d) => c = d
    /\ (\E c \in Loaders : ~Resting(c)) => Rest
    /\ \A c \in Loaders : phase[c] \in {"copy", "copying", "save"} => session.status = "missing"

\* What holds where commands take turns.
TurnInv == Alone /\ Fresh /\ BrokenShows /\ FlowsInv /\ GoneInv /\ UntornInv

LEMMA TurnMoves ==
  ASSUME MTypeOK, TurnInv, NEW p \in Processes, InTurn(p)
  PROVE  Fresh' /\ BrokenShows' /\ FlowsInv' /\ GoneInv' /\ UntornInv'
<1> USE DEF TurnInv
<1>1. Fresh' /\ BrokenShows'
  BY NextFresh, NextBroken DEF InTurn, Moves, Next, MTypeOK
<1>2. FlowsInv' /\ UntornInv'
  BY FlowsStep, OnlyInTurn, UntornStep DEF InTurn
<1>3. ASSUME NEW q \in Processes, Gone(q)'
      PROVE  NeverBack(mem[q].session.signer)'
  <2>1. Effect(p)
    BY Effects DEF InTurn, MTypeOK
  <2>2. CASE q = p
    <3>1. /\ mem[p].session.signer \in Keys /\ mem'[p].session = mem[p].session
          /\ \A k \in Keys : k = mem[p].session.signer => NeverBack(k)'
      BY <1>3, <2>2, DeletedStep
    <3> QED
      BY <2>2, <3>1
  <2>3. CASE q # p
    <3>1. Gone(q) /\ mem'[q] = mem[q]
      BY <1>3, <2>1, <2>3 DEF Effect, Gone, At
    <3>2. NeverBack(mem[q].session.signer) /\ mem[q].session.signer \in Keys
      BY <3>1 DEF GoneInv, Gone, FlowsInv, FlowsAt, MTypeOK, TypeOK, Memory, Session
    <3>3. \A k \in Keys : NeverBack(k) => NeverBack(k)'
      BY BackStep
    <3> QED
      BY <3>1, <3>2, <3>3
  <2> QED
    BY <2>2, <2>3
<1> QED
  BY <1>1, <1>2, <1>3 DEF GoneInv

\* A load changes the files only as long as there is no session, and so has been none
\* to revoke.
LEMMA TurnLoads ==
  ASSUME MTypeOK, TurnInv, LoadsAlone, Rest, part = "migrateAlone", NEW c \in Loaders, Load(c)
  PROVE  Fresh' /\ BrokenShows' /\ FlowsInv' /\ GoneInv' /\ UntornInv'
<1> USE DEF TurnInv
<1>1. LoadEffect(c)
  BY LoadEffects
<1>2. Fresh' /\ BrokenShows' /\ UntornInv'
  BY <1>1 DEF LoadEffect, Fresh, BrokenShows, UntornInv, RestoresWork, At, LegacySession,
              ActiveSession
<1>3. \A q \in Processes : pc[q] \notin {"wipe", "unlinkKey"}
  BY DEF Rest, Running, At, Ended
<1>4. session'.status = "active" => session'.signer # None
  BY <1>1, ConstantsAssumption DEF LoadEffect, FlowsInv, LegacySession, ActiveSession
<1>5. ASSUME NEW q \in Processes, Unseen(q) PROVE Unseen(q)'
  BY <1>1, <1>5, ConstantsAssumption
     DEF LoadEffect, Unseen, LegacySession, ActiveSession, MTypeOK
<1>6. FlowsInv'
  <2>1. \A q \in Processes : FlowsAt(q)'
    BY <1>1, <1>3, <1>5 DEF LoadEffect, FlowsInv, FlowsAt, At
  <2> QED
    BY <1>4, <2>1 DEF FlowsInv
<1>7. ASSUME NEW q \in Processes, Gone(q) PROVE NeverBack(mem[q].session.signer)'
  <2>1. NeverBack(mem[q].session.signer)
    BY <1>7 DEF GoneInv
  <2>2. UNCHANGED <<key, session>>
    BY <1>1, <2>1 DEF NeverBack, LoadsAlone, LoadEffect
  <2> QED
    BY <1>1, <2>1, <2>2 DEF NeverBack, LoadEffect, Ended
<1>8. GoneInv'
  BY <1>1, <1>7 DEF GoneInv, Gone, At, LoadEffect
<1> QED
  BY <1>2, <1>6, <1>8

LEMMA NextLoadsAlone ==
  ASSUME MTypeOK, LoadsAlone, [MCNext]_device, Turns
  PROVE  LoadsAlone'
<1>1. CASE part # "migrateAlone"
  BY <1>1, TurnStep DEF LoadsAlone
<1>2. CASE part = "migrateAlone" /\ UNCHANGED <<key, session, pc, mem, mvars>>
  BY <1>2, TurnStep DEF LoadsAlone, Resting, Rest, Running, At, Ended, mvars
<1>3. ASSUME NEW p \in Processes, InTurn(p), \A c \in Loaders : Resting(c), UNCHANGED mvars
      PROVE  LoadsAlone'
  BY <1>3 DEF LoadsAlone, Resting, mvars
<1>4. ASSUME part = "migrateAlone", Rest, NEW c \in Loaders, Load(c),
             \A d \in Loaders \ {c} : Resting(d)
      PROVE  LoadsAlone'
  <2>1. LoadEffect(c)
    BY <1>4, LoadEffects
  <2>2. Rest' /\ \A d \in Loaders \ {c} : Resting(d)'
    BY <1>4, <2>1 DEF LoadEffect, Rest, Running, At, Ended, Resting
  <2>3. phase'[c] \in {"copy", "copying", "save"} => session'.status = "missing"
    <3> USE <1>4 DEF LoadsAlone, Move, MTypeOK
    <3>1. CASE LoadCurrent(c) \/ Resolve(c) \/ End(c) \/ Break(c)
      BY <3>1 DEF LoadCurrent, Resolve, End, Break
    <3>2. CASE LoadLegacy(c)
      BY <3>2 DEF LoadLegacy
    <3>3. CASE CopyKey(c) \/ CopyEnds(c) \/ SaveMigrated(c)
      BY <3>3 DEF CopyKey, CopyEnds, SaveMigrated
    <3> QED
      BY <3>1, <3>2, <3>3 DEF Load
  <2> QED
    BY <2>2, <2>3 DEF LoadsAlone, Resting
<1> QED
  BY <1>1, <1>2, <1>3, <1>4, TurnStep

LEMMA NextTurn ==
  ASSUME MTypeOK, TurnInv, LoadsAlone, Turns, [MCNext]_device
  PROVE  TurnInv' /\ LoadsAlone' /\ Turns'
<1>1. Alone' /\ LoadsAlone' /\ Turns'
  BY AloneStep, NextLoadsAlone, TurnStep DEF TurnInv
<1>2. CASE UNCHANGED <<key, session, pc, mem, mvars>>
  <2>1. Fresh' /\ BrokenShows' /\ UntornInv'
    BY <1>2 DEF TurnInv, Fresh, BrokenShows, UntornInv, RestoresWork, At
  <2>2. FlowsInv'
    BY <1>2 DEF TurnInv, FlowsInv, FlowsAt, Unseen, At
  <2>3. GoneInv'
    BY <1>2 DEF TurnInv, GoneInv, Gone, NeverBack, At, Ended
  <2> QED
    BY <1>1, <2>1, <2>2, <2>3 DEF TurnInv
<1> QED
  BY <1>1, <1>2, TurnMoves, TurnLoads, TurnStep DEF TurnInv

LEMMA TurnsAlways == MCSpec => [](Turns => TurnInv /\ LoadsAlone)
<1>1. MCInit => TurnInv /\ LoadsAlone
  <2>1. Init => TurnInv
    BY InitFlows, InitCalm
       DEF Init, TurnInv, Fresh, GoneInv, Gone, UntornInv, NewMemory, Missing, ActiveSession, At
  <2>2. MInit => LoadsAlone
    BY DEF MInit, LoadsAlone, Resting
  <2> QED
    BY <2>1, <2>2 DEF MCInit, CInit
<1>2. /\ MTypeOK /\ (Turns => TurnInv /\ LoadsAlone) /\ [MCNext]_device
      => (Turns => TurnInv /\ LoadsAlone)'
  <2>1. [MCNext]_device => (Turns' => Turns)
    BY DeviceStep DEF Turns
  <2> QED
    BY <2>1, NextTurn
<1> QED
  BY DeviceTyped, <1>1, <1>2, PTL DEF MCSpec, device

\* After a revoke that has deleted the key neither key nor session of its signer
\* comes back, when the commands run one after the other, whatever dies and fails.
THEOREM NeverComesBack == MCSpec => []RevokedForGood
<1>1. (Turns => TurnInv /\ LoadsAlone) => RevokedForGood
  BY DEF Turns, TurnInv, RevokedForGood, Serial, GoneInv, Gone, NeverBack
<1> QED
  BY TurnsAlways, <1>1, PTL

\* In a serial behaviour, as long as nobody dies and no restore fails.
SerialCalm == Serial /\ NobodyDied /\ RestoresWork => CalmInv

LEMMA NextSerialCalm ==
  ASSUME MTypeOK, Turns => TurnInv, SerialCalm, [MCNext]_device
  PROVE  SerialCalm'
<1> SUFFICES ASSUME Serial', NobodyDied', RestoresWork' PROVE CalmInv'
  BY DEF SerialCalm
<1>1. Serial /\ [Next]_vars
  BY DeviceStep DEF Serial, Migrates
<1>2. Turns /\ TurnInv
  BY <1>1 DEF Serial, Turns
<1>3. CalmInv
  BY <1>1, <1>2, DeathStays, NextBroken DEF SerialCalm, TurnInv, MTypeOK
<1>4. CASE UNCHANGED <<key, session, pc, mem, mvars>>
  BY <1>3, <1>4 DEF CalmInv, CalmAt
<1>5. ASSUME NEW p \in Processes, InTurn(p) PROVE CalmInv'
  <2>1. Only(p)
    BY <1>2, <1>5, OnlyInTurn DEF TurnInv
  <2>2. ~Die(p)
    BY DEF Die, Goto, MTypeOK, TypeOK, NobodyDied, Alive
  <2> QED
    BY <1>3, <1>5, <2>1, <2>2, StepCalm DEF InTurn, Moves, MTypeOK
<1> QED
  BY <1>1, <1>2, <1>4, <1>5, TurnStep DEF Serial

\* The key that a revoke deletes is that of the signer it has removed, when the
\* commands run one after the other and none of them leaves half of a bootstrap.
THEOREM DeletesItsOwn == MCSpec => OnlyItsKey
<1>1. MCInit => SerialCalm
  BY InitCalm DEF MCInit, CInit, SerialCalm
<1>2. MTypeOK /\ (Turns => TurnInv /\ LoadsAlone) /\ SerialCalm /\ [MCNext]_device => SerialCalm'
  BY NextSerialCalm
<1>3. SerialCalm /\ [MCNext]_device =>
        [Serial /\ NobodyDied /\ RestoresWork =>
           \A p \in Processes :
             At(p, "wipe") /\ pc'[p] = "unlinkKey" =>
               key \in {None, Torn, mem[p].session.signer}]_vars
  BY DEF SerialCalm, CalmInv, CalmAt, At
<1> QED
  BY DeviceTyped, TurnsAlways, <1>1, <1>2, <1>3, PTL DEF MCSpec, device, OnlyItsKey

-----------------------------------------------------------------------------
(* Migration                                                               *)

LEMMA UntouchedStep ==
  ASSUME MTypeOK, [Next]_vars, Untouched'
  PROVE  UNCHANGED <<key, session, pc, mem>>
<1>1. \A p \in Processes : ~Moves(p)
  BY Effects DEF MTypeOK, Effect, Untouched, At
<1> QED
  BY <1>1 DEF Next, Moves, Age, vars

\* What has been copied so far, while agw itself has written nothing.
CopyInv ==
  Migrates /\ Untouched /\ Legacy =>
    /\ session \in {Missing, LegacySession} /\ key \in {None, Torn, legacyKey}
    /\ session = LegacySession => key # None
    /\ \A c \in Loaders :
         /\ phase[c] = "save" => key # None
         /\ phase[c] = "resolve" =>
              /\ got[c].session = LegacySession
              /\ got[c].key = "here" => key # None
         /\ phase[c] = "loaded" => got[c].session = LegacySession

Breaks == \E c \in Loaders : phase[c] = "broken"

\* A copy that has begun ends, unless its command breaks.
CopyEndsInv ==
  Migrates /\ Untouched /\ Legacy /\ ~Breaks /\ key = Torn =>
    \E c \in Loaders : phase[c] = "copying"

CopyAloneInv ==
  part = "migrateAlone" /\ Untouched /\ Legacy =>
    /\ session = LegacySession => key = legacyKey
    /\ \A c \in Loaders : phase[c] = "save" => key = legacyKey

RevokedStays ==
  part = "migrateAlone" /\ RestoresWork =>
    \A p \in Processes, c \in Loaders : Gone(p) =>
      /\ phase[c] # "legacy"
      /\ phase[c] \in {"resolve", "loaded"} =>
           ~ActiveFor(got[c].session, mem[p].session.signer)

MigrateInv == CopyInv /\ CopyEndsInv /\ CopyAloneInv /\ RevokedStays

LEMMA InitMigrate == MCInit => MigrateInv
<1>1. MCInit /\ Migrates => key = None /\ session = Missing
  BY DEF MCInit, CInit, Init
<1>2. \A c \in Loaders : MCInit => phase[c] = "idle"
  BY DEF MCInit, MInit
<1>3. Missing # LegacySession
  BY DEF Missing, LegacySession, ActiveSession
<1> QED
  BY <1>1, <1>2, <1>3, ConstantsAssumption
     DEF MigrateInv, CopyInv, CopyEndsInv, CopyAloneInv, RevokedStays, Migrates

LEMMA LoadCopy ==
  ASSUME MTypeOK, CopyInv, NEW c \in Loaders, Load(c), UNCHANGED part
  PROVE  CopyInv'
<1> SUFFICES ASSUME Migrates, Untouched, Legacy PROVE CopyInv'
  BY LoadEffects DEF CopyInv, LoadEffect, Migrates, Untouched, Legacy, At
<1>1. LoadEffect(c) /\ legacyKey # None /\ legacyKey # Torn
  BY LoadEffects, ConstantsAssumption DEF Legacy, MTypeOK
<1>2. /\ session' \in {Missing, LegacySession} /\ key' \in {None, Torn, legacyKey}
      /\ key # None => key' # None
      /\ session' = LegacySession => key' # None
  BY <1>1, ConstantsAssumption DEF LoadEffect, CopyInv
<1>3. /\ phase'[c] = "save" => key' # None
      /\ phase'[c] = "resolve" =>
           /\ got'[c].session = LegacySession
           /\ got'[c].key = "here" => key' # None
      /\ phase'[c] = "loaded" => got'[c].session = LegacySession
  <2> USE DEF Move, MTypeOK
  <2>1. CASE LoadCurrent(c)
    <3>1. Readable(session) => session = LegacySession
      BY DEF CopyInv, Readable, Missing
    <3>2. Move(c, "legacy", Nothing) \/
          (session = LegacySession /\ Move(c, "resolve", [session |-> session, key |-> "here"]))
      BY <2>1, <3>1 DEF LoadCurrent
    <3> QED
      BY <1>1, <1>2, <2>1, <3>2 DEF LoadCurrent, CopyInv
  <2>2. CASE LoadLegacy(c)
    <3>1. Move(c, "resolve", [session |-> LegacySession, key |-> "legacy"]) \/ Move(c, "copy", Nothing)
      BY <1>1, <2>2 DEF LoadLegacy, AfterMissing
    <3> QED
      BY <3>1
  <2>3. CASE CopyKey(c)
    BY <2>3 DEF CopyKey
  <2>4. CASE CopyEnds(c)
    BY <1>1, <2>4 DEF CopyEnds
  <2>5. CASE SaveMigrated(c)
    BY <1>1, <2>5 DEF SaveMigrated, CopyInv
  <2>6. CASE Resolve(c)
    <3>1. got[c].session = LegacySession /\ KeyFile(c) # None
      BY <1>1, <2>6 DEF Resolve, CopyInv, KeyFile
    <3> QED
      BY <2>6, <3>1 DEF Resolve
  <2>7. CASE End(c) \/ Break(c)
    BY <2>7 DEF End, Break
  <2> QED
    BY <2>1, <2>2, <2>3, <2>4, <2>5, <2>6, <2>7 DEF Load
<1> QED
  BY <1>1, <1>2, <1>3 DEF LoadEffect, CopyInv

LEMMA LoadEnds ==
  ASSUME MTypeOK, CopyEndsInv, NEW c \in Loaders, Load(c), UNCHANGED part
  PROVE  CopyEndsInv'
<1>1. LoadEffect(c)
  BY LoadEffects
<1> SUFFICES ASSUME Migrates, Untouched, Legacy, ~Breaks', key' = Torn
             PROVE  \E d \in Loaders : phase'[d] = "copying"
  BY <1>1 DEF CopyEndsInv, LoadEffect, Migrates, Untouched, Legacy, At
<1>2. ~Break(c)
  BY DEF Break, Breaks, Move, MTypeOK
<1>3. ~Breaks
  <2>1. phase[c] # "broken"
    BY DEF Load, LoadCurrent, LoadLegacy, CopyKey, CopyEnds, SaveMigrated, Resolve, End, Break
  <2> QED
    BY <1>1, <2>1 DEF Breaks, LoadEffect
<1>4. CASE CopyKey(c)
  BY <1>4 DEF CopyKey, Move, MTypeOK
<1>5. ~CopyEnds(c)
  BY ConstantsAssumption DEF CopyEnds, MTypeOK
<1>6. CASE LoadCurrent(c) \/ LoadLegacy(c) \/ SaveMigrated(c) \/ Resolve(c) \/ End(c)
  <2>1. key = Torn /\ phase[c] # "copying"
    BY <1>6 DEF LoadCurrent, LoadLegacy, SaveMigrated, Resolve, End
  <2> QED
    BY <1>1, <1>3, <2>1 DEF CopyEndsInv, LoadEffect
<1> QED
  BY <1>2, <1>4, <1>5, <1>6 DEF Load

LEMMA LoadCopyAlone ==
  ASSUME MTypeOK, CopyAloneInv, LoadsAlone, NEW c \in Loaders, Load(c), UNCHANGED part,
         \A d \in Loaders \ {c} : Resting(d)
  PROVE  CopyAloneInv'
<1>1. LoadEffect(c)
  BY LoadEffects
<1> SUFFICES ASSUME part = "migrateAlone", Untouched, Legacy PROVE CopyAloneInv'
  BY <1>1 DEF CopyAloneInv, LoadEffect, Untouched, Legacy, At
<1>2. \A d \in Loaders : d # c => phase'[d] \in {"idle", "broken"}
  BY <1>1 DEF LoadEffect, Resting
<1>3. /\ session' = LegacySession => key' = legacyKey
      /\ phase'[c] = "save" => key' = legacyKey
  <2> USE DEF Move, MTypeOK
  <2>1. CASE LoadCurrent(c) \/ Resolve(c) \/ End(c) \/ Break(c)
    BY <2>1 DEF LoadCurrent, Resolve, End, Break, CopyAloneInv
  <2>2. CASE LoadLegacy(c)
    BY <2>2 DEF LoadLegacy, AfterMissing, Legacy, CopyAloneInv
  <2>3. CASE CopyKey(c)
    BY <2>3 DEF CopyKey, LoadsAlone, LegacySession, ActiveSession
  <2>4. CASE CopyEnds(c) \/ SaveMigrated(c)
    BY <2>4 DEF CopyEnds, SaveMigrated, CopyAloneInv
  <2> QED
    BY <2>1, <2>2, <2>3, <2>4 DEF Load
<1> QED
  BY <1>1, <1>2, <1>3 DEF CopyAloneInv, LoadEffect

LEMMA LoadRevoked ==
  ASSUME MTypeOK, RevokedStays, LoadsAlone, TurnInv, NEW c \in Loaders, Load(c), UNCHANGED part
  PROVE  RevokedStays'
<1>1. LoadEffect(c)
  BY LoadEffects
<1> SUFFICES ASSUME part = "migrateAlone", RestoresWork, NEW p \in Processes, Gone(p)
             PROVE  \A d \in Loaders :
                      /\ phase'[d] # "legacy"
                      /\ phase'[d] \in {"resolve", "loaded"} =>
                           ~ActiveFor(got'[d].session, mem[p].session.signer)
  BY <1>1 DEF RevokedStays, LoadEffect, RestoresWork, Gone, At
<1>2. /\ ~ActiveFor(session, mem[p].session.signer) /\ Readable(session)
      /\ ~ActiveFor(Nothing.session, mem[p].session.signer)
  BY DEF TurnInv, GoneInv, NeverBack, UntornInv, Readable, Nothing, Missing, ActiveFor
<1>3. /\ phase'[c] # "legacy"
      /\ phase'[c] \in {"resolve", "loaded"} =>
           ~ActiveFor(got'[c].session, mem[p].session.signer)
  <2> USE DEF Move, MTypeOK
  <2>1. CASE LoadCurrent(c)
    BY <1>2, <2>1 DEF LoadCurrent
  <2>2. CASE Resolve(c)
    <3>1. ~ActiveFor(got[c].session, mem[p].session.signer)
      BY <2>2 DEF Resolve, RevokedStays
    <3> QED
      BY <1>2, <2>2, <3>1 DEF Resolve
  <2>3. CASE End(c) \/ Break(c)
    BY <2>3 DEF End, Break
  <2>4. ~LoadLegacy(c) /\ ~CopyKey(c) /\ ~CopyEnds(c) /\ ~SaveMigrated(c)
    BY <1>2 DEF LoadLegacy, CopyKey, CopyEnds, SaveMigrated, RevokedStays, LoadsAlone, Readable
  <2> QED
    BY <2>1, <2>2, <2>3, <2>4 DEF Load
<1> QED
  BY <1>1, <1>3 DEF RevokedStays, LoadEffect

LEMMA NextMigrate ==
  ASSUME MTypeOK, Turns => TurnInv /\ LoadsAlone, MigrateInv, [MCNext]_device
  PROVE  MigrateInv'
<1> USE DEF MigrateInv
<1>1. UNCHANGED part
  BY DeviceStep
<1>2. CASE UNCHANGED <<key, session, pc, mem, mvars>>
  BY <1>1, <1>2 DEF CopyInv, CopyEndsInv, CopyAloneInv, RevokedStays, Migrates, Untouched,
                    Legacy, Breaks, RestoresWork, Gone, At, mvars
<1>3. CASE [Next]_vars /\ UNCHANGED mvars /\ ~UNCHANGED <<key, session, pc, mem, mvars>>
  <2>1. ~Untouched'
    BY <1>3, UntouchedStep
  <2>2. RevokedStays'
    <3>1. CASE part # "migrateAlone"
      BY <1>1, <3>1 DEF RevokedStays
    <3>2. CASE \A c \in Loaders : Resting(c)
      BY <1>3, <3>2 DEF RevokedStays, Resting, mvars
    <3>3. CASE UNCHANGED <<pc, mem>>
      BY <1>1, <1>3, <3>3 DEF RevokedStays, RestoresWork, Gone, At, mvars
    <3>4. (\E c \in Loaders : Load(c)) => UNCHANGED <<pc, mem>>
      BY DEF Load
    <3> QED
      BY <1>3, <3>1, <3>2, <3>3, <3>4, TurnStep DEF Turns
  <2> QED
    BY <2>1, <2>2 DEF CopyInv, CopyEndsInv, CopyAloneInv
<1>4. ASSUME part # "migrateAlone", NEW c \in Loaders, Load(c)
      PROVE  MigrateInv'
  BY <1>1, <1>4, LoadCopy, LoadEnds DEF CopyAloneInv, RevokedStays
<1>5. ASSUME part = "migrateAlone", NEW c \in Loaders, Load(c),
             \A d \in Loaders \ {c} : Resting(d)
      PROVE  MigrateInv'
  BY <1>1, <1>5, LoadCopy, LoadEnds, LoadCopyAlone, LoadRevoked DEF Turns
<1>6. \A p \in Processes : InTurn(p) => [Next]_vars
  BY DEF InTurn, Moves, Next
<1> QED
  BY <1>2, <1>3, <1>4, <1>5, <1>6, DeviceStep, TurnStep DEF Turns

\* A command that dies anywhere in a migration, or others that run beside it, leave a
\* session that can be used, for any number of commands; and one that is revoked
\* after it does not come back.
THEOREM AlwaysWhole == MCSpec => []MigratesWhole
<1>1. MTypeOK /\ MigrateInv => MigratesWhole
  <2> SUFFICES ASSUME MTypeOK, MigrateInv, Migrates
               PROVE  /\ NothingIsLost
                      /\ part = "migrateAlone" \/ ~Breaks => KeyIsWhole
                      /\ part = "migrateAlone" => StaysRevoked
    BY DEF MigratesWhole, Breaks
  <2>1. NothingIsLost
    BY DEF NothingIsLost, MigrateInv, CopyInv
  <2>2. ASSUME part = "migrateAlone" \/ ~Breaks, Untouched, Legacy, session.status = "active",
               \A c \in Loaders : phase[c] # "copying"
        PROVE  key = legacyKey
    <3>1. session = LegacySession /\ key \in {Torn, legacyKey}
      BY <2>2 DEF MigrateInv, CopyInv, Missing
    <3>2. CASE part = "migrateAlone"
      BY <2>2, <3>1, <3>2 DEF MigrateInv, CopyAloneInv
    <3>3. CASE ~Breaks
      BY <2>2, <3>1, <3>3 DEF MigrateInv, CopyEndsInv
    <3> QED
      BY <2>2, <3>2, <3>3
  <2>3. part = "migrateAlone" \/ ~Breaks => KeyIsWhole
    BY <2>2 DEF KeyIsWhole
  <2>4. part = "migrateAlone" => StaysRevoked
    BY DEF MigrateInv, RevokedStays, StaysRevoked, Gone
  <2> QED
    BY <2>1, <2>2, <2>3, <2>4
<1>2. /\ MTypeOK /\ (Turns => TurnInv /\ LoadsAlone) /\ MigrateInv /\ [MCNext]_device
      => MigrateInv'
  BY NextMigrate
<1> QED
  BY DeviceTyped, TurnsAlways, InitMigrate, <1>1, <1>2, PTL DEF MCSpec, device

-----------------------------------------------------------------------------
(* A list.  What filters the results of the workers is a recursive         *)
(* function on the places of the results.                                  *)

Collected(results, it, s) ==
  IF s = {} THEN <<>> ELSE List!Kept(it[s \ {List!Max(s)}], results[List!Max(s)])

LEMMA ResultsUnfold ==
  List!Results =
    (CHOOSE it : it = [s \in SUBSET (DOMAIN pool.results) |-> Collected(pool.results, it, s)])
      [DOMAIN pool.results]
  BY DEF List!Results, List!FoldLeft, List!MapThenFoldSet, Collected

LEMMA GreatestPlace ==
  ASSUME NEW n \in Nat
  PROVE  /\ \A s \in SUBSET (1..n) : s # {} => List!Max(s) \in s
         /\ \A k \in 1..n : List!Max(1..k) = k /\ (1..k) \ {k} = 1..(k - 1)
<1>1. ASSUME NEW s \in SUBSET (1..n), s # {} PROVE List!Max(s) \in s /\ \A y \in s : List!Max(s) >= y
  <2>1. \E x \in s : \A y \in s : x >= y
    BY <1>1, GreatestNatural
  <2> QED
    BY <2>1 DEF List!Max
<1>2. ASSUME NEW k \in 1..n PROVE List!Max(1..k) = k /\ (1..k) \ {k} = 1..(k - 1)
  <2>1. 1..k \in SUBSET (1..n) /\ k \in 1..k
    OBVIOUS
  <2> DEFINE T == 1..k
  <2>2. List!Max(T) \in T /\ List!Max(T) >= k
    <3> HIDE DEF T
    <3> QED
      BY <1>1, <2>1 DEF T
  <2> QED
    BY <2>2
<1> QED
  BY <1>1, <1>2

LEMMA PlacesUpTo ==
  ASSUME NEW n \in Nat, NEW k \in 1..n
  PROVE  1..k \in SUBSET (1..n) /\ 1..k # {} /\ k \in Nat \ {0} /\ k - 1 \in Nat
<1>1. k \in 1..k
  OBVIOUS
<1> QED
  BY <1>1

\* What is left of the results: all of them that are not null, in their order.
LEMMA ResultsAre ==
  ASSUME NEW V, NEW n \in Nat, pool.results \in [1..n -> V \cup {None}]
  PROVE  /\ List!Results \in Seq(V \ {None})
         /\ List!ToSet(List!Results) = {pool.results[i] : i \in 1..n} \ {None}
         /\ (\A i \in 1..n : pool.results[i] # None) => List!Results = pool.results
<1> DEFINE results == pool.results
           S == 1..n
           W == Seq(V \ {None})
           first == [s \in SUBSET S |-> List!Max(s)]
           g == [p \in S \X W |-> List!Kept(p[2], results[p[1]])]
           jt == CHOOSE it : it = [s \in SUBSET S |-> Collected(results, it, s)]
<1>0. DOMAIN results = S /\ IsFiniteSet(S) /\ List!Results = jt[S]
  <2>1. DOMAIN results = S
    OBVIOUS
  <2>2. IsFiniteSet(S)
    BY FS_Interval
  <2>3. List!Results = jt[S]
    BY <2>1, ResultsUnfold, Zenon
  <2> QED
    BY <2>1, <2>2, <2>3
<1>1. \A k \in S, list \in W : List!Kept(list, results[k]) \in W
  BY DEF List!Kept
<1>2. g \in [S \X W -> W]
  BY <1>1
<1>3. \A s \in SUBSET S : s # {} => first[s] \in s /\ first[s] = List!Max(s)
  BY GreatestPlace
<1> HIDE DEF first, g
<1>4. PICK it \in [SUBSET S -> W] : IsFold(first, g, <<>>, it, S)
  <2>1. <<>> \in W
    OBVIOUS
  <2> HIDE DEF S, W
  <2> QED
    BY <1>0, <1>2, <1>3, <2>1, FoldExists
<1>5. ASSUME NEW s \in SUBSET S
      PROVE  Folds(first, g, <<>>, it, s) = Collected(results, it, s)
  <2>1. CASE s = {}
    BY <2>1 DEF Folds, Collected
  <2>2. CASE s # {}
    <3>1. first[s] = List!Max(s) /\ List!Max(s) \in S /\ it[s \ {List!Max(s)}] \in W
      BY <1>3, <2>2
    <3>2. g[<<List!Max(s), it[s \ {List!Max(s)}]>>] =
            List!Kept(it[s \ {List!Max(s)}], results[List!Max(s)])
      BY <3>1 DEF g
    <3> QED
      BY <2>2, <3>1, <3>2 DEF Folds, Collected
  <2> QED
    BY <2>1, <2>2
<1>6. it = [s \in SUBSET S |-> Collected(results, it, s)]
  BY <1>4, <1>5 DEF IsFold
<1>7. jt = [s \in SUBSET S |-> Collected(results, jt, s)]
  BY <1>6
<1> HIDE DEF jt
<1> DEFINE Upto(k) ==
             /\ jt[1..k] \in W
             /\ List!ToSet(jt[1..k]) = {results[i] : i \in 1..k} \ {None}
             /\ (\A i \in 1..k : results[i] # None) =>
                  Len(jt[1..k]) = k /\ \A i \in 1..k : jt[1..k][i] = results[i]
           Bad == {k \in Nat : k <= n /\ ~Upto(k)}
<1>8. Upto(0)
  <2>1. jt[{}] = <<>> /\ 1..0 = {}
    BY <1>7 DEF Collected
  <2>2. jt[1..0] = <<>> /\ <<>> \in W /\ Len(<<>>) = 0
    <3>1. <<>> \in W /\ Len(<<>>) = 0
      OBVIOUS
    <3> HIDE DEF W
    <3> QED
      BY <2>1, <3>1
  <2>3. DOMAIN jt[1..0] = {}
    BY <2>2
  <2>4. List!ToSet(jt[1..0]) = {}
    BY <2>3 DEF List!ToSet
  <2> QED
    BY <2>1, <2>2, <2>4
<1>9. ASSUME NEW k \in S, Upto(k - 1)
      PROVE  Upto(k)
  <2> DEFINE before == jt[1..(k - 1)]
  <2>1. 1..k \in SUBSET S /\ 1..k # {} /\ k \in Nat \ {0} /\ k - 1 \in Nat
    BY PlacesUpTo
  <2>2. jt[1..k] = List!Kept(before, results[k])
    <3>1. List!Max(1..k) = k /\ (1..k) \ {k} = 1..(k - 1)
      BY GreatestPlace
    <3>2. jt[1..k] = Collected(results, jt, 1..k)
      BY <1>7, <2>1
    <3> QED
      BY <2>1, <3>1, <3>2, Zenon DEF Collected
  <2>3. before \in W /\ List!ToSet(before) = {results[i] : i \in 1..(k - 1)} \ {None}
    BY <1>9
  <2>4. (\A i \in 1..(k - 1) : results[i] # None) =>
          Len(before) = k - 1 /\ \A i \in 1..(k - 1) : before[i] = results[i]
    BY <1>9
  <2>5. 1..k = 1..(k - 1) \cup {k}
    BY <2>1
  <2>6. results[k] \in V \cup {None}
    OBVIOUS
  <2> HIDE DEF before, W
  <2>7. CASE results[k] = None
    <3>1. jt[1..k] = before
      BY <2>2, <2>7 DEF List!Kept
    <3>2. {results[i] : i \in 1..k} \ {None} = {results[i] : i \in 1..(k - 1)} \ {None}
      BY <2>5, <2>7
    <3> QED
      BY <2>1, <2>3, <2>7, <3>1, <3>2
  <2>8. CASE results[k] # None
    <3> DEFINE list == jt[1..k]
    <3>1. list = Append(before, results[k])
      BY <2>2, <2>8 DEF List!Kept
    <3>2. before \in Seq(V \ {None}) /\ results[k] \in V \ {None}
      BY <2>3, <2>6, <2>8 DEF W
    <3>3. /\ list \in Seq(V \ {None}) /\ Len(list) = Len(before) + 1
          /\ Len(before) \in Nat
          /\ \A i \in 1..Len(before) : list[i] = before[i]
          /\ list[Len(before) + 1] = results[k]
      BY <3>1, <3>2
    <3>4. DOMAIN list = 1..(Len(before) + 1) /\ DOMAIN before = 1..Len(before)
      BY <3>2, <3>3
    <3> HIDE DEF list
    <3>5. List!ToSet(list) = List!ToSet(before) \cup {results[k]}
      BY <3>3, <3>4 DEF List!ToSet
    <3>6. List!ToSet(list) = {results[i] : i \in 1..k} \ {None}
      BY <2>3, <2>5, <2>8, <3>5
    <3>7. (\A i \in 1..k : results[i] # None) =>
            Len(list) = k /\ \A i \in 1..k : list[i] = results[i]
      <4>1. SUFFICES ASSUME \A i \in 1..k : results[i] # None
                     PROVE  Len(list) = k /\ \A i \in 1..k : list[i] = results[i]
        OBVIOUS
      <4>2. Len(before) = k - 1 /\ \A i \in 1..(k - 1) : before[i] = results[i]
        BY <2>4, <2>5, <4>1
      <4> QED
        BY <2>1, <2>5, <3>3, <4>2
    <3> QED
      BY <3>3, <3>6, <3>7 DEF list, W
  <2> QED
    BY <2>7, <2>8
<1>10. Upto(n)
  <2> SUFFICES ASSUME Bad # {} PROVE FALSE
    <3> HIDE DEF Upto
    <3> QED
      OBVIOUS
  <2>1. PICK k \in Bad : \A m \in Bad : ~(m < k)
    BY LeastNatural
  <2>2. k \in Nat /\ k <= n /\ ~Upto(k)
    OBVIOUS
  <2> HIDE DEF Upto
  <2>3. k # 0
    BY <1>8, <2>2
  <2>4. Upto(k - 1)
    BY <2>1, <2>2, <2>3
  <2> QED
    BY <1>9, <2>2, <2>3, <2>4
<1>11. jt[S] = List!Results
  BY <1>0
<1>12. (\A i \in 1..n : results[i] # None) => List!Results = results
  <2> SUFFICES ASSUME \A i \in 1..n : results[i] # None
               PROVE  jt[S] = results
    BY <1>11
  <2>1. Len(jt[S]) = n /\ \A i \in 1..n : jt[S][i] = results[i]
    BY <1>10
  <2>2. jt[S] \in Seq(V \ {None})
    BY <1>10
  <2> QED
    BY <2>1, <2>2
<1> QED
  BY <1>10, <1>11, <1>12

\* The order of the list, and the entries of an account.
Entries == [token: Tokens, raw: 0..MaxBalance]
Holdings == {List!Entry(t) : t \in List!Held}

OneEach(E) == E \subseteq Entries /\ \A x, y \in E : x.token = y.token => x = y
Rich(E) == {p \in E \X E : List!Richer(p[1], p[2])}

\* The instance counts as the library does.
LEMMA ListCounts ==
  \A S : List!Cardinality(S) = Cardinality(S)
  BY Zenon DEF List!Cardinality, Cardinality

LEMMA RicherOrders ==
  ASSUME NEW E, OneEach(E)
  PROVE  Orders(E, Rich(E)) /\ \A x, y \in E : <<x, y>> \in Rich(E) <=> List!Richer(x, y)
<1>1. \A x \in E : x.token \in Int /\ x.raw \in Int
  <2>1. Tokens \subseteq Int /\ MaxBalance \in Nat
    BY ListAssumption
  <2>2. ASSUME NEW x \in E PROVE x.token \in Int /\ x.raw \in Int
    <3>1. x \in [token: Tokens, raw: 0..MaxBalance]
      BY DEF OneEach, Entries
    <3>2. x.token \in Tokens /\ x.raw \in 0..MaxBalance
      BY <3>1
    <3>3. x.token \in Int
      BY <2>1, <3>2, Zenon
    <3> QED
      BY <2>1, <3>2, <3>3
  <2> QED
    BY <2>2
<1>2. \A x, y \in E : <<x, y>> \in Rich(E) <=> List!Richer(x, y)
  BY DEF Rich
<1>3. \A x \in E : ~List!Richer(x, x)
  BY <1>1 DEF List!Richer
<1>4. \A x, y, z \in E : List!Richer(x, y) /\ List!Richer(y, z) => List!Richer(x, z)
  BY <1>1 DEF List!Richer
<1>5. \A x, y \in E : x = y \/ List!Richer(x, y) \/ List!Richer(y, x)
  BY <1>1 DEF List!Richer, OneEach
<1> QED
  BY <1>2, <1>3, <1>4, <1>5 DEF Orders

\* The sorted list of the entries of different tokens has each at its rank.
LEMMA NormalizedIs ==
  ASSUME NEW E, IsFiniteSet(E), OneEach(E)
  PROVE  LET list == List!Normalized(E)
             n == Cardinality(E)
         IN  /\ n \in Nat /\ list \in [1..n -> E] /\ \A x \in E : \E i \in 1..n : list[i] = x
             /\ \A i \in 1..n : Cardinality({u \in E : List!Richer(u, list[i])}) = i - 1
<1> DEFINE list == List!Normalized(E)
           n == Cardinality(E)
           R == Rich(E)
<1>1. n \in Nat
  BY FS_CardinalityType
<1>2. Orders(E, R) /\ \A x, y \in E : <<x, y>> \in R <=> List!Richer(x, y)
  BY RicherOrders
<1>3. ASSUME NEW f \in [1..n -> E] PROVE Ordered(f, n, R) <=> List!Sorted(f)
  BY <1>2 DEF Ordered, List!Sorted
<1>4. \E f \in [1..n -> E] : Ordered(f, n, R)
  BY <1>2, OrderedList
<1>5. list = CHOOSE f \in [1..n -> E] : List!Sorted(f)
  BY ListCounts, Zenon DEF List!Normalized
<1> HIDE DEF list, R
<1>6. list \in [1..n -> E] /\ Ordered(list, n, R)
  BY <1>3, <1>4, <1>5
<1>7. Ranked(list, n, E, R)
  <2>1. n = Cardinality(E) /\ Orders(E, R)
    BY <1>2
  <2> HIDE DEF n
  <2> QED
    BY <1>1, <1>6, <2>1, RankInList
<1>8. ASSUME NEW i \in 1..n
      PROVE  Cardinality({u \in E : List!Richer(u, list[i])}) = i - 1
  <2>1. {u \in E : List!Richer(u, list[i])} = {u \in E : <<u, list[i]>> \in R}
    BY <1>2, <1>6
  <2> QED
    BY <1>7, <2>1 DEF NumberBefore, Ranked
<1> QED
  BY <1>1, <1>6, <1>7, <1>8 DEF list, Ranked

\* The place of a token among the entries is its rank among the tokens.
LEMMA HoldingsRanked ==
  ASSUME balance \in [Tokens -> 0..MaxBalance]
  PROVE  /\ IsFiniteSet(Holdings) /\ OneEach(Holdings)
         /\ Cardinality(Holdings) = Cardinality(List!Held)
         /\ \A t \in List!Held :
              /\ List!Entry(t).token = t
              /\ List!Rank(t) = Cardinality({u \in Holdings : List!Richer(u, List!Entry(t))})
<1>1. \A t \in Tokens : List!Entry(t).token = t /\ List!Entry(t).raw = balance[t]
                       /\ List!Entry(t) \in Entries
  BY DEF List!Entry, Entries
<1>2. List!Held \subseteq Tokens /\ IsFiniteSet(List!Held)
  BY ListAssumption, FS_Subset DEF List!Held
<1>3. ASSUME NEW B \in SUBSET List!Held, NEW D, D = {List!Entry(t) : t \in B}
      PROVE  IsFiniteSet(D) /\ Cardinality(D) = Cardinality(B)
  <2> DEFINE f == [t \in B |-> List!Entry(t)]
  <2>1. f \in [B -> D] /\ \A t \in B : f[t] = List!Entry(t)
    BY <1>3
  <2>2. \A x, y \in B : f[x] = f[y] => x = y
    BY <1>1, <1>2, <2>1
  <2>3. \A e \in D : \E t \in B : f[t] = e
    BY <1>3, <2>1
  <2> HIDE DEF f
  <2>4. f \in Bijection(B, D)
    BY <2>1, <2>2, <2>3 DEF Bijection, Injection, Surjection, IsInjective
  <2>5. IsFiniteSet(B)
    BY <1>2, FS_Subset
  <2> QED
    BY <2>4, <2>5, FS_Bijection DEF ExistsBijection
<1>4. OneEach(Holdings)
  BY <1>1, <1>2 DEF OneEach, Holdings
<1>5. ASSUME NEW t \in List!Held
      PROVE  List!Rank(t) = Cardinality({u \in Holdings : List!Richer(u, List!Entry(t))})
  <2> DEFINE B == {u \in List!Held : balance[u] > balance[t] \/ (balance[u] = balance[t] /\ u < t)}
             D == {u \in Holdings : List!Richer(u, List!Entry(t))}
  <2>1. \A u \in List!Held : List!Richer(List!Entry(u), List!Entry(t)) <=> u \in B
    BY <1>1, <1>2 DEF List!Richer
  <2>2. D = {List!Entry(u) : u \in B}
    BY <2>1 DEF Holdings
  <2>3. List!Rank(t) = Cardinality(B)
    BY ListCounts, Zenon DEF List!Rank
  <2> HIDE DEF B, D
  <2>4. B \subseteq List!Held
    BY DEF B
  <2>5. Cardinality(D) = Cardinality(B)
    BY <1>3, <2>2, <2>4
  <2> QED
    BY <2>3, <2>5 DEF D
<1>6. IsFiniteSet(Holdings) /\ Cardinality(Holdings) = Cardinality(List!Held)
  BY <1>3 DEF Holdings
<1> QED
  BY <1>1, <1>2, <1>4, <1>5, <1>6

\* A set as a list.
LEMMA SetToSeqIs ==
  ASSUME NEW S, IsFiniteSet(S)
  PROVE  LET list == List!SetToSeq(S)
             n == Cardinality(S)
         IN  /\ n \in Nat /\ list \in [1..n -> S] /\ {list[i] : i \in 1..n} = S
             /\ \A i, j \in 1..n : list[i] = list[j] => i = j
<1> DEFINE n == Cardinality(S)
           list == List!SetToSeq(S)
<1>1. n \in Nat /\ IsFiniteSet(1..n) /\ Cardinality(1..n) = n /\ ExistsBijection(1..n, S)
  BY FS_CardinalityType, FS_Interval
<1>2. PICK f \in [1..n -> S] : IsInjective(f)
  BY <1>1 DEF ExistsBijection, Bijection, Injection
<1>3. list = CHOOSE g \in [1..n -> S] : List!IsInjective(g)
  BY ListCounts, Zenon DEF List!SetToSeq
<1>4. \A g : List!IsInjective(g) <=> IsInjective(g)
  BY DEF List!IsInjective, IsInjective
<1> HIDE DEF list
<1>5. list \in [1..n -> S] /\ IsInjective(list)
  BY <1>2, <1>3, <1>4
<1>6. list \in Injection(1..n, S)
  BY <1>5 DEF Injection
<1>7. list \in Surjection(1..n, S)
  BY <1>1, <1>6, FS_Injection
<1>8. {list[i] : i \in 1..n} = S
  BY <1>7 DEF Surjection
<1> QED
  BY <1>1, <1>5, <1>8 DEF list, IsInjective

-----------------------------------------------------------------------------
(* The inductive invariant of the lists                                    *)

Items == IF cmd.id = "app.list" THEN {Apps[i] : i \in DOMAIN Apps} ELSE Entries
Total == Cardinality(List!Held)

ListTyped ==
  /\ balance \in [Tokens -> 0..MaxBalance] /\ cmd \in Listings
  /\ cursor \in Nat /\ found \subseteq Tokens /\ calm \in BOOLEAN
  /\ scan \in [List!Directions -> [from: Nat, chunk: Nat \ {0}]]
  /\ merged \in Seq(Items)

ListPlaces ==
  /\ cmd.id = "wallet.tokens.list" =>
       at \in {"handle", "scan", "balances", "metadata", "done", "failed"}
  /\ cmd.id = "app.list" => at \in {"handle", "portal", "done", "failed"}
  /\ cmd.id = "portal.streams.list" => at \in {"handle", "refused", "failed"}

\* What has been found are the tokens of all blocks that have been read.
ScanInv ==
  at = "scan" =>
    \A d \in List!Directions, t \in Tokens, b \in 0..Latest :
      b \in Logs[t][d] /\ b < scan[d].from => t \in found

\* The reads of n values, with some of them under way as long as some are left.
Shaped(p, n, Values) ==
  /\ n \in Nat
  /\ p \in [values: [1..n -> Values], next: 0..n, busy: SUBSET (1..n),
            results: [1..n -> Entries \cup {None}]]
  /\ p.busy \subseteq 1..p.next
  /\ p.next < n => p.busy # {}

ReadSoFar(p) == (1..p.next) \ p.busy

\* The balances of what has been found, one for each token.
BalancesInv ==
  at = "balances" =>
    /\ found = Tokens
    /\ Shaped(pool, Len(pool.values), Tokens)
    /\ \A t \in Tokens : \E i \in DOMAIN pool.values : pool.values[i] = t
    /\ \A i, j \in DOMAIN pool.values : pool.values[i] = pool.values[j] => i = j
    /\ \A i \in DOMAIN pool.values :
         /\ pool.results[i] # None => pool.results[i].token = pool.values[i]
         /\ calm /\ i \in ReadSoFar(pool) =>
              pool.results[i] = IF balance[pool.values[i]] > 0
                                THEN List!Entry(pool.values[i]) ELSE None

\* The whole list, if nothing has changed and no read has failed.
MetadataInv ==
  at = "metadata" =>
    /\ Shaped(pool, Len(pool.values), Entries)
    /\ calm => /\ pool.values = List!Normalized(Holdings)
               /\ \A i \in ReadSoFar(pool) : pool.results[i] = pool.values[i]

\* The pages so far are the list from the cursor of the command to that of the page.
EndOfList == IF cmd.id = "app.list" THEN Len(Apps) ELSE Total

Placed(item, j) ==
  IF cmd.id = "app.list" THEN item = Apps[j]
  ELSE item \in Entries /\ item.token \in List!Held /\ List!Rank(item.token) = j - 1

PagesInv ==
  calm /\ cmd.id # "portal.streams.list" =>
    /\ at # "done" => cursor = cmd.cursor + Len(merged)
    /\ at = "done" =>
         Len(merged) = IF cmd.cursor < EndOfList THEN EndOfList - cmd.cursor ELSE 0
    /\ merged = <<>> \/ cmd.cursor + Len(merged) <= EndOfList
    /\ \A i \in 1..Len(merged) : Placed(merged[i], cmd.cursor + i)

ListInv == ListTyped /\ ListPlaces /\ ScanInv /\ BalancesInv /\ MetadataInv /\ PagesInv

\* The workers: as long as values are left, some of them are being read, and each
\* result is that of its value.
LEMMA ListOf ==
  ASSUME NEW V, NEW n \in Nat, NEW list \in [1..n -> V]
  PROVE  list \in Seq(V) /\ Len(list) = n
<1>1. list \in Seq(V)
  BY SeqDef
<1>2. DOMAIN list = 1..Len(list) /\ Len(list) \in Nat /\ DOMAIN list = 1..n
  BY <1>1, LenProperties
<1> QED
  BY <1>1, <1>2

LEMMA PoolShaped ==
  ASSUME NEW V, NEW n \in Nat, NEW values \in [1..n -> V]
  PROVE  LET p == List!Pool(values)
         IN  /\ Shaped(p, n, V) /\ Len(p.values) = n
             /\ p.values = values /\ ReadSoFar(p) = {}
             /\ p.results = [i \in 1..n |-> None]
<1> DEFINE first == IF Concurrency < n THEN Concurrency ELSE n
           p == List!Pool(values)
<1>1. Len(values) = n
  BY ListOf
<1>2. Concurrency \in Nat \ {0}
  BY ListAssumption
<1>3. first \in 0..n /\ (first < n => 1..first # {})
  <2>1. first \in Nat /\ first <= n /\ (first < n => first >= 1)
    BY <1>2
  <2> HIDE DEF first
  <2>2. first \in 0..n
    BY <2>1
  <2>3. ASSUME first < n PROVE 1..first # {}
    <3>1. 1 \in 1..first
      BY <2>1, <2>3
    <3> QED
      BY <3>1
  <2> QED
    BY <2>2, <2>3
<1>4. p = [values |-> values, next |-> first, busy |-> 1..first,
           results |-> [i \in 1..n |-> None]]
  BY <1>1 DEF List!Pool, List!Least
<1> HIDE DEF p, first
<1> QED
  BY <1>1, <1>3, <1>4 DEF Shaped, ReadSoFar, p

\* A worker has its result, and the others have what they had.
Served(p, q, n, i, result) ==
  /\ Len(q.values) = n /\ q.values = p.values /\ i \in 1..n
  /\ q.results[i] = result
  /\ \A j \in 1..n : j # i => q.results[j] = p.results[j]
  /\ ReadSoFar(q) \subseteq ReadSoFar(p) \cup {i}

LEMMA MappedShaped ==
  ASSUME NEW V, NEW n \in Nat, NEW p, Shaped(p, n, V), NEW i \in p.busy,
         NEW result \in Entries \cup {None}, NEW q, q = List!Mapped(p, i, result)
  PROVE  Shaped(q, n, V) /\ Served(p, q, n, i, result)
<1> DEFINE more == IF p.next < n THEN {p.next + 1} ELSE {}
           next == IF p.next + 1 < n THEN p.next + 1 ELSE n
<1>1. /\ p \in [values: [1..n -> V], next: 0..n, busy: SUBSET (1..n),
                results: [1..n -> Entries \cup {None}]]
      /\ p.busy \subseteq 1..p.next /\ (p.next < n => p.busy # {})
  BY DEF Shaped
<1>2. Len(p.values) = n /\ p.next \in 0..n /\ i \in 1..n
  BY <1>1, ListOf
<1>3. q = [p EXCEPT !.results[i] = result, !.busy = (p.busy \ {i}) \cup more, !.next = next]
  BY <1>2, Zenon DEF List!Mapped, List!Least
<1>4. /\ q.values = p.values /\ q.next = next /\ q.busy = (p.busy \ {i}) \cup more
      /\ q.results = [p.results EXCEPT ![i] = result]
      /\ q = [values |-> q.values, next |-> q.next, busy |-> q.busy, results |-> q.results]
  BY <1>1, <1>3
<1>5. next \in 0..n /\ more \subseteq 1..next /\ 1..p.next \subseteq 1..next
      /\ (next < n => more # {})
  BY <1>2
<1>6. 1..next = (1..p.next) \cup more
  BY <1>2
<1> HIDE DEF next, more
<1>7. q.busy \subseteq 1..next /\ 1..next \subseteq 1..n
  BY <1>1, <1>4, <1>5
<1>8. q.results \in [1..n -> Entries \cup {None}]
  BY <1>1, <1>4
<1>9. Shaped(q, n, V)
  BY <1>1, <1>4, <1>5, <1>7, <1>8 DEF Shaped
<1>10. ReadSoFar(q) \subseteq ReadSoFar(p) \cup {i}
  BY <1>4, <1>6 DEF ReadSoFar
<1>11. q.results[i] = result /\ \A j \in 1..n : j # i => q.results[j] = p.results[j]
  BY <1>1, <1>2, <1>4
<1> QED
  BY <1>2, <1>4, <1>9, <1>10, <1>11 DEF Served

\* Once no worker is busy, every value has been read.
LEMMA AllAnswered ==
  ASSUME NEW V, NEW n, NEW p, Shaped(p, n, V), p.busy = {}
  PROVE  n \in Nat /\ ReadSoFar(p) = 1..n
<1>1. n \in Nat /\ p.next \in 0..n /\ ~(p.next < n)
  BY DEF Shaped
<1> QED
  BY <1>1 DEF ReadSoFar

\* A part of a list.
IsPart(items, list, offset, m) ==
  /\ Len(items) = IF offset < m THEN m - offset ELSE 0
  /\ \A i \in 1..Len(items) : items[i] = list[offset + i]

LEMMA PartOf ==
  ASSUME NEW V, NEW list \in Seq(V), NEW offset \in Nat, NEW m \in Nat, m <= Len(list),
         NEW items, items = SubSeq(list, offset + 1, m)
  PROVE  items \in Seq(V) /\ IsPart(items, list, offset, m)
<1>1. Len(list) \in Nat
  BY LenProperties
<1>2. \A i \in (offset + 1)..m : list[i] \in V
  BY <1>1, ElementOfSeq
<1> QED
  BY <1>1, <1>2, SubSeqProperties DEF IsPart

-----------------------------------------------------------------------------
(* The steps of a list                                                     *)

\* The list of all that the account holds.
LEMMA WholeList ==
  ASSUME balance \in [Tokens -> 0..MaxBalance]
  PROVE  LET list == List!Normalized(Holdings)
         IN  /\ Total \in Nat /\ list \in [1..Total -> Holdings] /\ Holdings \subseteq Entries
             /\ \A i \in 1..Total :
                  /\ list[i] \in Entries /\ list[i].token \in List!Held
                  /\ List!Rank(list[i].token) = i - 1
<1> DEFINE list == List!Normalized(Holdings)
<1>1. /\ IsFiniteSet(Holdings) /\ OneEach(Holdings) /\ Cardinality(Holdings) = Total
      /\ \A t \in List!Held :
           /\ List!Entry(t).token = t
           /\ List!Rank(t) = Cardinality({u \in Holdings : List!Richer(u, List!Entry(t))})
  BY HoldingsRanked DEF Total
<1>2. /\ Total \in Nat /\ list \in [1..Total -> Holdings]
      /\ \A i \in 1..Total : Cardinality({u \in Holdings : List!Richer(u, list[i])}) = i - 1
  BY <1>1, NormalizedIs
<1> HIDE DEF list
<1>3. ASSUME NEW i \in 1..Total
      PROVE  /\ list[i] \in Entries /\ list[i].token \in List!Held
             /\ List!Rank(list[i].token) = i - 1
  <2>1. PICK t \in List!Held : list[i] = List!Entry(t)
    BY <1>2 DEF Holdings
  <2>2. list[i] \in Entries
    BY <1>1, <1>2 DEF OneEach
  <2>3. Cardinality({u \in Holdings : List!Richer(u, list[i])}) = i - 1
    BY <1>2
  <2>4. list[i].token = t /\ List!Rank(t) = i - 1
    BY <1>1, <2>1, <2>3
  <2> QED
    BY <2>2, <2>4
<1> QED
  BY <1>1, <1>2, <1>3 DEF list, OneEach

\* What a step leaves of the pages before the last of them.
LEMMA PlacesStay ==
  ASSUME UNCHANGED <<balance, cmd>>
  PROVE  EndOfList' = EndOfList /\ \A item, j : Placed(item, j)' = Placed(item, j)
<1>1. Total' = Total /\ List!Held' = List!Held
  BY DEF Total, List!Held
<1>2. \A t : List!Rank(t)' = List!Rank(t)
  BY <1>1, Zenon DEF List!Rank
<1> QED
  BY <1>1, <1>2, Zenon DEF EndOfList, Placed

LEMMA PagesStay ==
  ASSUME PagesInv, UNCHANGED <<cmd, cursor, merged>>, calm' => calm /\ UNCHANGED balance,
         calm' \in BOOLEAN, at # "done", at' # "done"
  PROVE  PagesInv'
<1> SUFFICES ASSUME calm' PROVE PagesInv'
  BY Zenon DEF PagesInv
<1>1. EndOfList' = EndOfList /\ \A item, j : Placed(item, j)' = Placed(item, j)
  BY PlacesStay
<1> QED
  BY <1>1, Zenon DEF PagesInv

LEMMA AskBalancesInv == ListInv /\ List!AskBalances => ListInv'
<1> SUFFICES ASSUME ListInv, List!AskBalances PROVE ListInv'
  OBVIOUS
<1>0. /\ at = "handle" /\ cmd.id = "wallet.tokens.list" /\ at' \in {"metadata", "scan"}
      /\ UNCHANGED <<balance, cmd, cursor, merged, calm>>
  BY DEF List!AskBalances
<1>1. ListTyped /\ ListPlaces /\ PagesInv
  BY DEF ListInv
<1>2. PagesInv' /\ ListPlaces'
  BY <1>0, <1>1, PagesStay DEF ListPlaces, ListTyped
<1>3. CASE at' = "metadata"
  <2> DEFINE list == List!Normalized(Holdings)
  <2>1. pool' = List!Pool(list) /\ UNCHANGED <<scan, found>>
    BY <1>0, <1>3 DEF List!AskBalances, Holdings
  <2>2. Total \in Nat /\ list \in [1..Total -> Entries]
    BY <1>1, WholeList DEF ListTyped
  <2>3. /\ Shaped(pool', Total, Entries) /\ Len(pool'.values) = Total
        /\ pool'.values = list /\ ReadSoFar(pool') = {}
    <3> HIDE DEF list
    <3> QED
      BY <2>1, <2>2, PoolShaped
  <2>4. Holdings' = Holdings
    BY <1>0 DEF Holdings, List!Entry, List!Held
  <2>5. MetadataInv'
    BY <2>3, <2>4 DEF MetadataInv
  <2>6. ListTyped'
    BY <1>0, <1>1, <2>1 DEF ListTyped, Items
  <2> QED
    BY <1>2, <1>3, <2>5, <2>6 DEF ListInv, ScanInv, BalancesInv
<1>4. CASE at' = "scan"
  <2>1. scan' = List!NoScan /\ found' = {}
    BY <1>0, <1>4 DEF List!AskBalances
  <2>2. Latest + 1 \in Nat \ {0}
    BY ListAssumption
  <2>3. ListTyped'
    BY <1>0, <1>1, <2>1, <2>2 DEF ListTyped, Items, List!NoScan
  <2>4. ScanInv'
    BY <2>1 DEF ScanInv, List!NoScan
  <2> QED
    BY <1>2, <1>4, <2>3, <2>4 DEF ListInv, MetadataInv, BalancesInv
<1> QED
  BY <1>0, <1>3, <1>4

\* A range that is read adds its tokens; one that is refused leaves what was found.
LEMMA ReadLogsInv ==
  ASSUME ListInv, NEW d \in List!Directions, List!ReadLogs(d)
  PROVE  ListInv'
<1>0. /\ at = "scan" /\ at' = "scan" /\ scan[d].from <= Latest
      /\ UNCHANGED <<balance, cmd, cursor, merged, calm>>
  BY DEF List!ReadLogs
<1>1. ListTyped /\ ListPlaces /\ PagesInv /\ ScanInv
  BY DEF ListInv
<1>2. PagesInv' /\ ListPlaces'
  BY <1>0, <1>1, PagesStay DEF ListPlaces, ListTyped
<1>3. Latest \in Nat /\ MinChunk \in Nat \ {0}
  BY ListAssumption
<1>4. scan[d] \in [from: Nat, chunk: Nat \ {0}]
  BY <1>1 DEF ListTyped
<1> DEFINE to == List!ToBlock(scan[d])
<1>5. to \in Nat /\ to >= scan[d].from
  BY <1>0, <1>3, <1>4 DEF List!ToBlock, List!Least
<1>6. /\ found' \subseteq Tokens /\ found \subseteq found'
      /\ scan' \in [List!Directions -> [from: Nat, chunk: Nat \ {0}]]
      /\ \A e \in List!Directions :
           \/ scan'[e].from = scan[e].from
           \/ /\ e = d /\ scan'[e].from = to + 1
              /\ \A t \in Tokens : Logs[t][d] \cap (scan[d].from .. to) # {} => t \in found'
  <2>1. CASE /\ found' = found \cup {t \in Tokens : Logs[t][d] \cap (scan[d].from .. to) # {}}
             /\ scan' = [scan EXCEPT ![d].from = to + 1]
    <3> HIDE DEF to
    <3> QED
      BY <1>1, <1>4, <1>5, <2>1 DEF ListTyped
  <2>2. CASE scan' = [scan EXCEPT ![d] = List!Smaller(@)] /\ UNCHANGED found
    <3>1. /\ List!Smaller(scan[d]) \in [from: Nat, chunk: Nat \ {0}]
          /\ List!Smaller(scan[d]).from = scan[d].from
      BY <1>3, <1>4 DEF List!Smaller
    <3> QED
      BY <1>1, <2>2, <3>1 DEF ListTyped
  <2> QED
    BY <2>1, <2>2 DEF List!ReadLogs
<1> HIDE DEF to
<1>7. ListTyped'
  BY <1>0, <1>1, <1>6 DEF ListTyped, Items
<1>8. ScanInv'
  <2> SUFFICES ASSUME NEW e \in List!Directions, NEW t \in Tokens, NEW b \in 0..Latest,
                      b \in Logs[t][e], b < scan'[e].from
               PROVE  t \in found'
    BY DEF ScanInv
  <2>1. b < scan[e].from => t \in found
    BY <1>0, <1>1 DEF ScanInv
  <2>2. scan[e] \in [from: Nat, chunk: Nat \ {0}]
    BY <1>1 DEF ListTyped
  <2> QED
    BY <1>3, <1>5, <1>6, <2>1, <2>2
<1> QED
  BY <1>0, <1>2, <1>7, <1>8 DEF ListInv, MetadataInv, BalancesInv

\* Every block has been read, so every token that the account can hold was found.
LEMMA ScannedInv == ListInv /\ List!Scanned => ListInv'
<1> SUFFICES ASSUME ListInv, List!Scanned PROVE ListInv'
  OBVIOUS
<1>0. /\ at = "scan" /\ at' = "balances" /\ pool' = List!Pool(List!SetToSeq(found))
      /\ \A d \in List!Directions : scan[d].from > Latest
      /\ UNCHANGED <<balance, cmd, cursor, merged, scan, found, calm>>
  BY DEF List!Scanned
<1>1. ListTyped /\ ListPlaces /\ PagesInv /\ ScanInv
  BY DEF ListInv
<1>2. PagesInv' /\ ListPlaces' /\ ListTyped'
  BY <1>0, <1>1, PagesStay DEF ListPlaces, ListTyped, Items
<1>3. found = Tokens
  <2>1. ASSUME NEW t \in Tokens PROVE t \in found
    <3>1. PICK d \in List!Directions : Logs[t][d] \cap (0..Latest) # {}
      BY ListAssumption
    <3>2. PICK b \in 0..Latest : b \in Logs[t][d]
      BY <3>1
    <3>3. Latest \in Nat /\ scan[d].from \in Nat
      BY <1>1, ListAssumption DEF ListTyped
    <3>4. b < scan[d].from
      BY <1>0, <3>3
    <3> QED
      BY <1>0, <1>1, <3>2, <3>4 DEF ScanInv
  <2> QED
    BY <1>1, <2>1 DEF ListTyped
<1> DEFINE list == List!SetToSeq(Tokens)
           n == Cardinality(Tokens)
<1>4. /\ n \in Nat /\ list \in [1..n -> Tokens] /\ {list[i] : i \in 1..n} = Tokens
      /\ \A i, j \in 1..n : list[i] = list[j] => i = j
  BY ListAssumption, SetToSeqIs
<1> HIDE DEF list, n
<1>5. pool' = List!Pool(list)
  BY <1>0, <1>3 DEF list
<1>6. /\ Shaped(pool', n, Tokens) /\ Len(pool'.values) = n
      /\ pool'.values = list /\ ReadSoFar(pool') = {}
      /\ pool'.results = [i \in 1..n |-> None]
  <2>1. n \in Nat /\ list \in [1..n -> Tokens]
    BY <1>4
  <2> QED
    BY <1>5, <2>1, PoolShaped
<1>7. BalancesInv'
  <2>1. DOMAIN pool'.values = 1..n
    BY <1>4, <1>6
  <2>2. \A t \in Tokens : \E i \in 1..n : list[i] = t
    BY <1>4
  <2>3. \A i \in 1..n : pool'.results[i] = None /\ i \notin ReadSoFar(pool')
    BY <1>6
  <2>4. found' = Tokens /\ Shaped(pool', Len(pool'.values), Tokens)
    BY <1>0, <1>3, <1>6
  <2> QED
    BY <1>4, <1>6, <2>1, <2>2, <2>3, <2>4, Zenon DEF BalancesInv
<1> QED
  BY <1>0, <1>2, <1>7 DEF ListInv, MetadataInv, ScanInv

LEMMA ReadBalanceInv ==
  ASSUME ListInv, NEW i, List!ReadBalance(i)
  PROVE  ListInv'
<1>0. /\ at = "balances" /\ at' = "balances" /\ i \in pool.busy
      /\ UNCHANGED <<balance, cmd, cursor, merged, scan, found>>
  BY DEF List!ReadBalance
<1>1. ListTyped /\ ListPlaces /\ PagesInv /\ BalancesInv
  BY DEF ListInv
<1> DEFINE t == pool.values[i]
           n == Len(pool.values)
           balanceOf == IF balance[t] > 0 THEN List!Entry(t) ELSE None
<1>2. PICK result \in {balanceOf, None} :
        /\ pool' = List!Mapped(pool, i, result)
        /\ (UNCHANGED calm /\ result = balanceOf) \/ calm' = FALSE
  BY Zenon DEF List!ReadBalance
<1>3. found = Tokens /\ Shaped(pool, n, Tokens) /\ n \in Nat
  BY <1>0, <1>1 DEF BalancesInv, Shaped
<1>4. DOMAIN pool.values = 1..n /\ i \in 1..n /\ t \in Tokens
      /\ pool.results \in [1..n -> Entries \cup {None}]
  BY <1>0, <1>3 DEF Shaped
<1>5. List!Entry(t) \in Entries /\ List!Entry(t).token = t
  BY <1>1, <1>4 DEF List!Entry, Entries, ListTyped
<1>6. result \in Entries \cup {None} /\ (result # None => result.token = t)
  BY <1>2, <1>5
<1> HIDE DEF n, balanceOf
<1>7. /\ Shaped(pool', n, Tokens) /\ Len(pool'.values) = n /\ pool'.values = pool.values
      /\ pool'.results[i] = result
      /\ \A j \in 1..n : j # i => pool'.results[j] = pool.results[j]
      /\ ReadSoFar(pool') \subseteq ReadSoFar(pool) \cup {i}
  <2>1. pool' = List!Mapped(pool, i, result) /\ i \in pool.busy
    BY <1>0, <1>2
  <2>2. Shaped(pool', n, Tokens) /\ Served(pool, pool', n, i, result)
    BY <1>3, <1>6, <2>1, MappedShaped
  <2> QED
    BY <2>2 DEF Served
<1>8. calm' => calm /\ result = balanceOf
  BY <1>2
<1>9. PagesInv' /\ ListPlaces' /\ ListTyped'
  BY <1>0, <1>1, <1>2, <1>8, PagesStay DEF ListPlaces, ListTyped, Items
<1>10. \A j \in 1..n :
         /\ pool'.results[j] # None => pool'.results[j].token = pool.values[j]
         /\ calm' /\ j \in ReadSoFar(pool') =>
              pool'.results[j] = IF balance[pool.values[j]] > 0
                                 THEN List!Entry(pool.values[j]) ELSE None
  <2> SUFFICES ASSUME NEW j \in 1..n
               PROVE  /\ pool'.results[j] # None => pool'.results[j].token = pool.values[j]
                      /\ calm' /\ j \in ReadSoFar(pool') =>
                           pool'.results[j] = IF balance[pool.values[j]] > 0
                                              THEN List!Entry(pool.values[j]) ELSE None
    OBVIOUS
  <2>1. CASE j = i
    BY <1>6, <1>7, <1>8, <2>1 DEF balanceOf
  <2>2. CASE j # i
    <3>1. pool'.results[j] = pool.results[j]
          /\ (j \in ReadSoFar(pool') => j \in ReadSoFar(pool))
      BY <1>7, <2>2
    <3> QED
      BY <1>0, <1>1, <1>4, <1>8, <3>1 DEF BalancesInv
  <2> QED
    BY <2>1, <2>2
<1>11. \A u : List!Entry(u)' = List!Entry(u)
  BY <1>0 DEF List!Entry
<1>12. BalancesInv'
  <2>1. /\ \A u \in Tokens : \E j \in DOMAIN pool.values : pool.values[j] = u
        /\ \A j, k \in DOMAIN pool.values : pool.values[j] = pool.values[k] => j = k
    BY <1>0, <1>1, Zenon DEF BalancesInv
  <2>2. found' = Tokens /\ Shaped(pool', Len(pool'.values), Tokens) /\ balance' = balance
    BY <1>0, <1>3, <1>7
  <2> QED
    BY <1>4, <1>7, <1>10, <1>11, <2>1, <2>2, Zenon DEF BalancesInv
<1> QED
  BY <1>0, <1>9, <1>12 DEF ListInv, MetadataInv, ScanInv

LEMMA ReadMetadataInv ==
  ASSUME ListInv, NEW i, List!ReadMetadata(i)
  PROVE  ListInv'
<1>0. /\ at = "metadata" /\ at' = "metadata" /\ i \in pool.busy
      /\ UNCHANGED <<balance, cmd, cursor, merged, scan, found>>
  BY DEF List!ReadMetadata
<1>1. ListTyped /\ ListPlaces /\ PagesInv /\ MetadataInv
  BY DEF ListInv
<1> DEFINE n == Len(pool.values)
<1>2. PICK result \in {pool.values[i], None} :
        /\ pool' = List!Mapped(pool, i, result)
        /\ (UNCHANGED calm /\ result = pool.values[i]) \/ calm' = FALSE
  BY Zenon DEF List!ReadMetadata
<1>3. Shaped(pool, n, Entries) /\ n \in Nat
  BY <1>0, <1>1 DEF MetadataInv, Shaped
<1>4. i \in 1..n /\ pool.values[i] \in Entries
      /\ pool.results \in [1..n -> Entries \cup {None}] /\ ReadSoFar(pool) \subseteq 1..n
  BY <1>0, <1>3 DEF Shaped, ReadSoFar
<1>5. result \in Entries \cup {None}
  BY <1>2, <1>4
<1> HIDE DEF n
<1>6. /\ Shaped(pool', n, Entries) /\ Len(pool'.values) = n /\ pool'.values = pool.values
      /\ pool'.results[i] = result
      /\ \A j \in 1..n : j # i => pool'.results[j] = pool.results[j]
      /\ ReadSoFar(pool') \subseteq ReadSoFar(pool) \cup {i}
  <2>1. pool' = List!Mapped(pool, i, result) /\ i \in pool.busy
    BY <1>0, <1>2
  <2>2. Shaped(pool', n, Entries) /\ Served(pool, pool', n, i, result)
    BY <1>3, <1>5, <2>1, MappedShaped
  <2> QED
    BY <2>2 DEF Served
<1>7. calm' => calm /\ result = pool.values[i]
  BY <1>2
<1>8. PagesInv' /\ ListPlaces' /\ ListTyped'
  BY <1>0, <1>1, <1>2, <1>7, PagesStay DEF ListPlaces, ListTyped, Items
<1>9. Holdings' = Holdings
  BY <1>0 DEF Holdings, List!Entry, List!Held
<1>10. ASSUME calm', NEW j \in ReadSoFar(pool') PROVE pool'.results[j] = pool.values[j]
  BY <1>0, <1>1, <1>4, <1>6, <1>7, <1>10 DEF MetadataInv
<1>11. MetadataInv'
  <2>1. Shaped(pool', Len(pool'.values), Entries)
    BY <1>6
  <2>2. calm' => pool.values = List!Normalized(Holdings)
    BY <1>0, <1>1, <1>7 DEF MetadataInv
  <2> QED
    BY <1>6, <1>9, <1>10, <2>1, <2>2, Zenon DEF MetadataInv
<1> QED
  BY <1>0, <1>8, <1>11 DEF ListInv, BalancesInv, ScanInv

\* What the balances that have been read make together, none of them twice.
LEMMA AllReadInv == ListInv /\ List!AllRead => ListInv'
<1> SUFFICES ASSUME ListInv, List!AllRead PROVE ListInv'
  OBVIOUS
<1> DEFINE E == List!ToSet(List!Results)
           list == List!Normalized(E)
           n == Len(pool.values)
           m == Cardinality(E)
<1>0. /\ at = "balances" /\ at' = "metadata" /\ pool.busy = {} /\ pool' = List!Pool(list)
      /\ UNCHANGED <<balance, cmd, cursor, merged, scan, found, calm>>
  BY DEF List!AllRead
<1>1. ListTyped /\ ListPlaces /\ PagesInv /\ BalancesInv
  BY DEF ListInv
<1>2. PagesInv' /\ ListPlaces' /\ ListTyped'
  BY <1>0, <1>1, PagesStay DEF ListPlaces, ListTyped, Items
<1>3. Shaped(pool, n, Tokens) /\ n \in Nat /\ ReadSoFar(pool) = 1..n
  BY <1>0, <1>1, AllAnswered DEF BalancesInv
<1>4. DOMAIN pool.values = 1..n /\ pool.results \in [1..n -> Entries \cup {None}]
      /\ pool.values \in [1..n -> Tokens]
  BY <1>3 DEF Shaped
<1>5. E = {pool.results[i] : i \in 1..n} \ {None}
  <2> HIDE DEF n
  <2> QED
    BY <1>3, <1>4, ResultsAre, Zenon
<1> HIDE DEF n, E
<1>6. IsFiniteSet(E) /\ OneEach(E)
  <2> DEFINE all == {pool.results[i] : i \in 1..n}
  <2>1. IsFiniteSet(1..n)
    BY <1>3, FS_Interval
  <2>2. IsFiniteSet(all)
    <3>1. pool.results \in Surjection(1..n, all)
      BY <1>4 DEF Surjection
    <3> QED
      BY <2>1, <3>1, FS_Surjection
  <2>3. E \subseteq all /\ E \subseteq Entries
    BY <1>4, <1>5
  <2>4. \A i, j \in 1..n :
          pool.results[i] # None /\ pool.results[j] # None
          /\ pool.results[i].token = pool.results[j].token => i = j
    <3>1. \A i \in 1..n : pool.results[i] # None => pool.results[i].token = pool.values[i]
      BY <1>0, <1>1, <1>4, Zenon DEF BalancesInv
    <3>2. \A i, j \in 1..n : pool.values[i] = pool.values[j] => i = j
      BY <1>0, <1>1, <1>4, Zenon DEF BalancesInv
    <3> QED
      BY <3>1, <3>2
  <2> QED
    BY <1>5, <2>2, <2>3, <2>4, FS_Subset DEF OneEach
<1>7. m \in Nat /\ list \in [1..m -> Entries]
  BY <1>6, NormalizedIs DEF OneEach
<1> HIDE DEF m
<1>8. /\ Shaped(pool', m, Entries) /\ Len(pool'.values) = m
      /\ pool'.values = list /\ ReadSoFar(pool') = {}
  <2> HIDE DEF list
  <2> QED
    BY <1>0, <1>7, PoolShaped
<1>9. ASSUME calm PROVE E = Holdings
  <2>1. \A i \in 1..n :
          pool.results[i] = IF balance[pool.values[i]] > 0
                            THEN List!Entry(pool.values[i]) ELSE None
    BY <1>0, <1>1, <1>3, <1>4, <1>9 DEF BalancesInv
  <2>2. \A t \in Tokens : List!Entry(t) \in Entries /\ List!Entry(t) # None
    BY <1>1, ListAssumption DEF List!Entry, Entries, ListTyped
  <2>3. \A t \in Tokens : \E i \in 1..n : pool.values[i] = t
    BY <1>0, <1>1, <1>4 DEF BalancesInv
  <2>4. \A t \in Tokens : t \in List!Held <=> balance[t] > 0
    BY DEF List!Held
  <2>5. List!Held \subseteq Tokens
    BY DEF List!Held
  <2>6. ASSUME NEW i \in 1..n, pool.results[i] # None PROVE pool.results[i] \in Holdings
    <3>1. balance[pool.values[i]] > 0 /\ pool.results[i] = List!Entry(pool.values[i])
      BY <2>1, <2>6
    <3>2. pool.values[i] \in List!Held
      BY <1>4, <2>4, <3>1
    <3> QED
      BY <3>1, <3>2 DEF Holdings
  <2>7. ASSUME NEW t \in List!Held
        PROVE  List!Entry(t) # None /\ \E i \in 1..n : pool.results[i] = List!Entry(t)
    BY <2>1, <2>2, <2>3, <2>4, <2>5
  <2> QED
    BY <1>5, <2>6, <2>7 DEF Holdings
<1>10. Holdings' = Holdings
  BY <1>0 DEF Holdings, List!Entry, List!Held
<1>11. MetadataInv'
  BY <1>0, <1>8, <1>9, <1>10 DEF MetadataInv
<1> QED
  BY <1>0, <1>2, <1>11 DEF ListInv, BalancesInv, ScanInv

LEMMA OtherListInv ==
  ASSUME ListInv,
         \/ List!AskPortal \/ List!AskStreams \/ List!Fail
         \/ \E t \in Tokens, v \in 0..MaxBalance : List!Move(t, v)
  PROVE  ListInv'
<1>1. ListTyped /\ ListPlaces /\ PagesInv /\ ScanInv /\ BalancesInv /\ MetadataInv
  BY DEF ListInv
<1>2. CASE List!AskPortal \/ List!AskStreams \/ List!Fail
  <2>1. /\ at \notin {"done"} /\ at' \in {"portal", "done", "refused", "failed"}
        /\ at' = "done" => FALSE
        /\ UNCHANGED <<balance, cmd, cursor, merged, scan, found, pool, calm>>
    BY <1>2 DEF List!AskPortal, List!AskStreams, List!Fail,
                List!AppIdIsString, List!AppIdIsPositiveInt
  <2>2. ListTyped'
    BY <1>1, <2>1 DEF ListTyped, Items
  <2>3. PagesInv'
    BY <1>1, <2>1, PagesStay DEF ListTyped
  <2>4. ListPlaces'
    BY <1>1, <1>2, <2>1
       DEF ListPlaces, List!AskPortal, List!AskStreams, List!Fail
  <2> QED
    BY <2>1, <2>2, <2>3, <2>4 DEF ListInv, ScanInv, BalancesInv, MetadataInv
<1>3. ASSUME NEW t \in Tokens, NEW v \in 0..MaxBalance, List!Move(t, v)
      PROVE  ListInv'
  <2>1. /\ at # "done" /\ balance' = [balance EXCEPT ![t] = v] /\ calm' = FALSE
        /\ UNCHANGED <<cmd, at, cursor, merged, scan, found, pool>>
    BY <1>3 DEF List!Move
  <2>2. ListTyped'
    BY <1>1, <2>1 DEF ListTyped, Items
  <2>3. PagesInv' /\ ListPlaces' /\ ScanInv'
    BY <1>1, <2>1 DEF PagesInv, ListPlaces, ScanInv
  <2>4. BalancesInv' /\ MetadataInv'
    BY <1>1, <2>1 DEF BalancesInv, MetadataInv
  <2> QED
    BY <2>2, <2>3, <2>4 DEF ListInv
<1> QED
  BY <1>2, <1>3

\* One page of a list, cut at the place m of it: the pages go on where they were, and
\* those that end have all of it.
Follows(list, n, start, before, after, nextOffset) ==
  /\ nextOffset < n => nextOffset = start + Len(after)
  /\ ~(nextOffset < n) => Len(after) = IF start < n THEN n - start ELSE 0
  /\ after = <<>> \/ start + Len(after) <= n
  /\ \A i \in 1..Len(after) :
       \/ i \in 1..Len(before) /\ after[i] = before[i]
       \/ start + i \in 1..n /\ after[i] = list[start + i]

LEMMA PageFollows ==
  ASSUME NEW V, NEW n \in Nat, NEW list \in Seq(V), Len(list) = n,
         NEW start \in Nat, NEW before \in Seq(V),
         NEW offset \in Nat, offset = start + Len(before), before = <<>> \/ offset <= n,
         NEW m \in Nat, m <= n, offset < n => offset < m,
         NEW items, items = SubSeq(list, offset + 1, m)
  PROVE  /\ Follows(list, n, start, before, before \o items, offset + Len(items))
         /\ offset + Len(items) < n => Len(items) > 0
<1> DEFINE after == before \o items
<1>1. items \in Seq(V) /\ IsPart(items, list, offset, m)
  BY PartOf
<1>2. PICK k \in Nat : k = Len(before)
  BY LenProperties
<1>3. PICK l \in Nat : l = Len(items)
  BY <1>1, LenProperties
<1>4. /\ l = IF offset < m THEN m - offset ELSE 0
      /\ \A i \in 1..l : items[i] = list[offset + i]
  BY <1>1, <1>3 DEF IsPart
<1>5. offset = start + k /\ (k = 0 \/ offset <= n)
  <2>1. before = <<>> => k = 0
    BY <1>2
  <2> QED
    BY <1>2, <2>1
<1>6. after \in Seq(V) /\ Len(after) = k + l
  BY <1>1, <1>2, <1>3, ConcatProperties
<1>7. /\ \A i \in 1..k : after[i] = before[i]
      /\ \A i \in (k + 1)..(k + l) : after[i] = items[i - k]
  BY <1>1, <1>2, <1>3
<1> HIDE DEF after
<1>8. after = <<>> \/ start + Len(after) <= n
  <2>1. k + l = 0 => after = <<>>
    BY <1>6, EmptySeq
  <2> QED
    BY <1>4, <1>5, <1>6, <2>1
<1>9. ASSUME NEW i \in 1..Len(after)
      PROVE  \/ i \in 1..Len(before) /\ after[i] = before[i]
             \/ start + i \in 1..n /\ after[i] = list[start + i]
  <2>1. i \in 1..(k + l)
    BY <1>6
  <2>2. CASE i <= k
    <3>1. i \in 1..k /\ 1..k = 1..Len(before)
      BY <1>2, <2>1, <2>2
    <3> QED
      BY <1>7, <3>1
  <2>3. CASE i > k
    <3> DEFINE j == i - k
    <3>1. j \in 1..l /\ offset + j = start + i /\ i \in (k + 1)..(k + l)
      BY <1>5, <2>1, <2>3
    <3>2. start + i \in 1..n
      BY <1>4, <1>5, <3>1
    <3>3. after[i] = items[j]
      BY <1>7, <3>1
    <3> HIDE DEF j
    <3>4. items[j] = list[offset + j]
      BY <1>4, <3>1
    <3> QED
      BY <3>1, <3>2, <3>3, <3>4
  <2> QED
    BY <2>1, <2>2, <2>3
<1>10. /\ offset + l < n => offset + l = start + Len(after)
       /\ ~(offset + l < n) => Len(after) = IF start < n THEN n - start ELSE 0
       /\ offset + l < n => l > 0
  <2>1. CASE offset < n
    <3>1. l = m - offset /\ l > 0 /\ start < n
      BY <1>4, <1>5, <2>1
    <3> QED
      BY <1>2, <1>5, <1>6, <3>1
  <2>2. CASE ~(offset < n)
    <3>1. l = 0 /\ (start < n => k = n - start) /\ (~(start < n) => k = 0)
      BY <1>2, <1>4, <1>5, <2>2
    <3> QED
      BY <1>2, <1>6, <2>2, <3>1
  <2> QED
    BY <2>1, <2>2
<1> QED
  BY <1>3, <1>8, <1>9, <1>10 DEF Follows, after

\* Whatever the list: the types, and a page that has a next one is not empty.
LEMMA PageTyped ==
  ASSUME ListTyped, UNCHANGED <<balance, cmd, scan, found>>, calm' \in BOOLEAN,
         NEW n \in Nat, NEW items \in Seq(Items), List!Page(items, n)
  PROVE  ListTyped' /\ at' \in {"handle", "done"} /\ (at' = "handle" => cursor + Len(items) < n
                                                     /\ cursor' = cursor + Len(items))
<1>1. Len(items) \in Nat /\ merged \o items \in Seq(Items) /\ cursor \in Nat
  BY LenProperties, ConcatProperties DEF ListTyped
<1>2. Items' = Items
  BY DEF Items
<1> QED
  BY <1>1, <1>2 DEF ListTyped, List!Page

\* The pages of a list that stays as it is.
LEMMA PagesGoOn ==
  ASSUME ListTyped, PagesInv, calm, at # "done", UNCHANGED <<balance, cmd>>,
         cmd.id # "portal.streams.list", cmd.cursor \in Nat,
         NEW n \in Nat, n = EndOfList, NEW list \in Seq(Items), Len(list) = n,
         \A j \in 1..n : Placed(list[j], j),
         NEW m \in Nat, m <= n, cursor < n => cursor < m,
         NEW items, items = SubSeq(list, cursor + 1, m), List!Page(items, n)
  PROVE  PagesInv'
<1>1. /\ cursor \in Nat /\ merged \in Seq(Items)
      /\ cursor = cmd.cursor + Len(merged)
      /\ merged = <<>> \/ cursor <= n
      /\ \A i \in 1..Len(merged) : Placed(merged[i], cmd.cursor + i)
  BY DEF ListTyped, PagesInv
<1>2. Follows(list, n, cmd.cursor, merged, merged \o items, cursor + Len(items))
  BY <1>1, PageFollows
<1>3. /\ merged' = merged \o items
      /\ cursor + Len(items) < n => cursor' = cursor + Len(items) /\ at' = "handle"
      /\ ~(cursor + Len(items) < n) => at' = "done"
  BY DEF List!Page
<1>4. EndOfList' = n /\ cmd' = cmd /\ \A item, j : Placed(item, j)' = Placed(item, j)
  BY PlacesStay
<1>5. /\ at' # "done" => cursor' = cmd.cursor + Len(merged')
      /\ at' = "done" => Len(merged') = IF cmd.cursor < n THEN n - cmd.cursor ELSE 0
      /\ merged' = <<>> \/ cmd.cursor + Len(merged') <= n
  BY <1>2, <1>3 DEF Follows
<1>6. ASSUME NEW i \in 1..Len(merged') PROVE Placed(merged'[i], cmd.cursor + i)
  <2>1. \/ i \in 1..Len(merged) /\ merged'[i] = merged[i]
        \/ cmd.cursor + i \in 1..n /\ merged'[i] = list[cmd.cursor + i]
    BY <1>2, <1>3 DEF Follows
  <2> QED
    BY <1>1, <2>1
<1> QED
  BY <1>4, <1>5, <1>6 DEF PagesInv

\* The tokens that a page is made of: those of the workers that have told what they are.
LEMMA ListedIs ==
  ASSUME ListInv, List!Listed
  PROVE  /\ at = "metadata" /\ cmd.id = "wallet.tokens.list" /\ cmd.cursor \in Nat
         /\ UNCHANGED <<balance, cmd, scan, found, pool, calm>>
         /\ List!Results \in Seq(Items)
         /\ \/ at' = "failed" /\ UNCHANGED <<cursor, merged>>
            \/ \E m \in Nat :
                 /\ m <= Len(List!Results)
                 /\ cursor < Len(List!Results) => cursor < m
                 /\ List!Page(SubSeq(List!Results, cursor + 1, m), Len(List!Results))
         /\ calm => List!Results = List!Normalized(Holdings)
<1>1. ListTyped /\ ListPlaces /\ MetadataInv
  BY DEF ListInv
<1>2. /\ at = "metadata" /\ pool.busy = {}
      /\ UNCHANGED <<balance, cmd, scan, found, pool, calm>>
  BY DEF List!Listed
<1>3. /\ cmd.cursor \in Nat /\ cmd.size \in (Nat \ {0}) \cup {None}
      /\ cmd.id = "wallet.tokens.list"
  BY <1>1, <1>2, ListAssumption DEF ListTyped, ListPlaces
<1> DEFINE n == Len(pool.values)
<1>4. Shaped(pool, n, Entries) /\ n \in Nat /\ ReadSoFar(pool) = 1..n
  BY <1>1, <1>2, AllAnswered DEF MetadataInv
<1>5. pool.results \in [1..n -> Entries \cup {None}] /\ pool.values \in [1..n -> Entries]
  BY <1>4 DEF Shaped
<1> HIDE DEF n
<1>6. /\ List!Results \in Seq(Entries \ {None})
      /\ (\A i \in 1..n : pool.results[i] # None) => List!Results = pool.results
  BY <1>4, <1>5, ResultsAre
<1>7. None \notin Entries /\ Entries \ {None} = Entries
  BY ListAssumption DEF Entries
<1>8. List!Results \in Seq(Items)
  BY <1>3, <1>6, <1>7 DEF Items
<1>9. ASSUME calm PROVE List!Results = List!Normalized(Holdings)
  <2>1. pool.values = List!Normalized(Holdings) /\ \A i \in 1..n : pool.results[i] = pool.values[i]
    BY <1>1, <1>2, <1>4, <1>9 DEF MetadataInv
  <2>2. pool.results = pool.values
    <3>1. /\ pool.results = [i \in 1..n |-> pool.results[i]]
          /\ pool.values = [i \in 1..n |-> pool.values[i]]
      BY <1>5
    <3> QED
      BY <2>1, <3>1, Zenon
  <2> QED
    BY <1>5, <1>6, <1>7, <2>1, <2>2
<1>10. \/ at' = "failed" /\ UNCHANGED <<cursor, merged>>
       \/ \E m \in Nat :
            /\ m <= Len(List!Results)
            /\ cursor < Len(List!Results) => cursor < m
            /\ List!Page(SubSeq(List!Results, cursor + 1, m), Len(List!Results))
  <2> DEFINE size == IF cmd.size = None THEN Len(List!Results) ELSE cmd.size
             m == IF cursor + size < Len(List!Results) THEN cursor + size ELSE Len(List!Results)
  <2>1. Len(List!Results) \in Nat /\ size \in Nat /\ cursor \in Nat
    BY <1>1, <1>3, <1>8, LenProperties DEF ListTyped
  <2>2. CASE size > 0
    <3>1. List!Page(List!Slice(List!Results, cursor, size), Len(List!Results))
      BY <2>2, Zenon DEF List!Listed
    <3>2. List!Page(SubSeq(List!Results, cursor + 1, m), Len(List!Results))
      BY <3>1, Zenon DEF List!Slice, List!Least
    <3>3. m \in Nat /\ m <= Len(List!Results) /\ (cursor < Len(List!Results) => cursor < m)
      BY <2>1, <2>2
    <3> QED
      BY <3>2, <3>3
  <2>3. CASE ~(size > 0)
    BY <2>3, Zenon DEF List!Listed
  <2> QED
    BY <2>2, <2>3
<1> QED
  BY <1>2, <1>3, <1>8, <1>9, <1>10

LEMMA ListedInv == ListInv /\ List!Listed => ListInv'
<1> SUFFICES ASSUME ListInv, List!Listed PROVE ListInv'
  OBVIOUS
<1>1. ListTyped /\ ListPlaces /\ PagesInv
  BY DEF ListInv
<1>2. /\ at = "metadata" /\ cmd.id = "wallet.tokens.list" /\ cmd.cursor \in Nat
      /\ UNCHANGED <<balance, cmd, scan, found, pool, calm>>
      /\ List!Results \in Seq(Items)
      /\ calm => List!Results = List!Normalized(Holdings)
  BY ListedIs
<1>3. CASE at' = "failed" /\ UNCHANGED <<cursor, merged>>
  <2>1. PagesInv' /\ ListPlaces' /\ ListTyped'
    BY <1>1, <1>2, <1>3, PagesStay DEF ListPlaces, ListTyped, Items
  <2> QED
    BY <1>3, <2>1 DEF ListInv, ScanInv, BalancesInv, MetadataInv
<1>4. ASSUME NEW m \in Nat, m <= Len(List!Results),
             cursor < Len(List!Results) => cursor < m,
             List!Page(SubSeq(List!Results, cursor + 1, m), Len(List!Results))
      PROVE  ListInv'
  <2> DEFINE list == List!Results
             items == SubSeq(list, cursor + 1, m)
             n == Len(list)
  <2>1. list \in Seq(Items) /\ n \in Nat /\ cursor \in Nat
    BY <1>1, <1>2, LenProperties DEF ListTyped
  <2> HIDE DEF list, n
  <2>2. items \in Seq(Items)
    BY <1>4, <2>1, PartOf DEF list, n
  <2>3. List!Page(items, n)
    BY <1>4 DEF list, n
  <2> HIDE DEF items
  <2>4. ListTyped' /\ at' \in {"handle", "done"}
    BY <1>1, <1>2, <2>1, <2>2, <2>3, PageTyped DEF ListTyped
  <2>5. ASSUME calm PROVE PagesInv'
    <3>1. /\ Total \in Nat /\ list \in [1..Total -> Entries]
          /\ \A i \in 1..Total :
               /\ list[i] \in Entries /\ list[i].token \in List!Held
               /\ List!Rank(list[i].token) = i - 1
      BY <1>1, <1>2, <2>5, WholeList DEF list, ListTyped
    <3>2. n = Total /\ EndOfList = Total
      BY <1>2, <3>1, ListOf DEF n, EndOfList
    <3>3. \A j \in 1..n : Placed(list[j], j)
      BY <1>2, <3>1, <3>2 DEF Placed
    <3>4. items = SubSeq(list, cursor + 1, m) /\ m <= n /\ (cursor < n => cursor < m)
          /\ Len(list) = n
      BY <1>4 DEF items, list, n
    <3> QED
      BY <1>1, <1>2, <2>1, <2>3, <2>5, <3>2, <3>3, <3>4, PagesGoOn
  <2>6. PagesInv' /\ ListPlaces'
    BY <1>1, <1>2, <2>4, <2>5 DEF ListPlaces, PagesInv, ListTyped
  <2> QED
    BY <2>4, <2>6 DEF ListInv, ScanInv, BalancesInv, MetadataInv
<1> QED
  BY <1>3, <1>4, ListedIs

\* What the portal sends, from the cursor on: a part of the list of the apps, and up to
\* the end of the page of the portal if it sends all of it.
LEMMA PortalIs ==
  ASSUME ListInv, List!PortalAnswers
  PROVE  /\ at = "portal" /\ cmd.id = "app.list" /\ cmd.cursor \in Nat
         /\ Apps \in Seq(Items) /\ calm' \in BOOLEAN /\ (calm' => calm)
         /\ UNCHANGED <<balance, cmd, scan, found, pool>>
         /\ \E items \in Seq(Items) :
              /\ List!Page(items, Len(Apps))
              /\ calm' => \E m \in Nat :
                            /\ m <= Len(Apps) /\ (cursor < Len(Apps) => cursor < m)
                            /\ items = SubSeq(Apps, cursor + 1, m)
<1>1. ListTyped /\ ListPlaces
  BY DEF ListInv
<1>2. at = "portal" /\ UNCHANGED <<balance, cmd, scan, found, pool>>
  BY DEF List!PortalAnswers
<1>3. /\ cmd.cursor \in Nat /\ cmd.size \in (Nat \ {0}) \cup {None} /\ cmd.id = "app.list"
      /\ calm \in BOOLEAN /\ cursor \in Nat
  BY <1>1, <1>2, ListAssumption DEF ListTyped, ListPlaces
<1>4. Apps \in Seq(Items)
  BY <1>3, ListAssumption DEF Items
<1> DEFINE size == List!PageSize
           first == (cursor \div size) * size
           offset == cursor % size
           page == List!Slice(Apps, first, size)
           n == Len(Apps)
           m == IF first + size < n THEN first + size ELSE n
<1>5. size \in Nat \ {0} /\ n \in Nat
  BY <1>3, <1>4, ListAssumption, LenProperties DEF List!PageSize
<1>6. PICK k \in 0..Len(page) :
        /\ List!Page(List!FromCursor(SubSeq(page, 1, k)), n)
        /\ calm' = (calm /\ k = Len(page))
  BY Zenon DEF List!PortalAnswers
<1>7. /\ List!FromCursor(SubSeq(page, 1, k)) =
           SubSeq(SubSeq(page, 1, k), offset + 1, Len(SubSeq(page, 1, k)))
      /\ page = SubSeq(Apps, first + 1, m)
  BY Zenon DEF List!FromCursor, List!Slice, List!Least
<1> HIDE DEF size
<1>8. /\ first \in Nat /\ offset \in Nat /\ first + offset = cursor /\ offset < size
  BY <1>3, <1>5
<1> HIDE DEF first, offset
<1>9. m \in Nat /\ m <= n /\ (cursor < n => cursor < m) /\ (first < m \/ n <= first)
  BY <1>3, <1>5, <1>8
<1> HIDE DEF m
<1>10. page \in Seq(Items) /\ IsPart(page, Apps, first, m)
  BY <1>4, <1>7, <1>8, <1>9, PartOf
<1>11. Len(page) \in Nat /\ Len(page) = IF first < m THEN m - first ELSE 0
  BY <1>10, LenProperties DEF IsPart
<1> HIDE DEF page
<1> DEFINE sent == SubSeq(page, 1, k)
           items == SubSeq(sent, offset + 1, Len(sent))
<1>12. sent \in Seq(Items) /\ IsPart(sent, page, 0, k) /\ k \in Nat
  <2>1. k \in Nat /\ k <= Len(page) /\ 0 \in Nat
    BY <1>6, <1>11
  <2>2. sent = SubSeq(page, 0 + 1, k)
    OBVIOUS
  <2> HIDE DEF sent
  <2> QED
    BY <1>10, <2>1, <2>2, PartOf
<1>13. Len(sent) = k /\ \A i \in 1..k : sent[i] = page[i]
  BY <1>12 DEF IsPart
<1> HIDE DEF sent
<1>14. items \in Seq(Items) /\ IsPart(items, sent, offset, k)
  <2>1. k <= Len(sent) /\ items = SubSeq(sent, offset + 1, k)
    BY <1>12, <1>13
  <2> HIDE DEF items
  <2> QED
    BY <1>8, <1>12, <2>1, PartOf
<1>15. List!Page(items, n)
  BY <1>6, <1>7, Zenon DEF sent
<1>16. ASSUME calm' PROVE items = SubSeq(Apps, cursor + 1, m)
  <2> DEFINE all == SubSeq(Apps, cursor + 1, m)
  <2>1. all \in Seq(Items) /\ IsPart(all, Apps, cursor, m)
    BY <1>3, <1>4, <1>9, PartOf
  <2>2. k = Len(page)
    BY <1>6, <1>16
  <2>3. PICK l \in Nat : l = IF offset < k THEN k - offset ELSE 0
    <3>1. (IF offset < k THEN k - offset ELSE 0) \in Nat
      BY <1>8, <1>12
    <3> QED
      BY <3>1
  <2>4. l = IF cursor < m THEN m - cursor ELSE 0
    BY <1>8, <1>9, <1>11, <1>12, <2>2, <2>3
  <2>5. Len(all) = l /\ \A i \in 1..l : all[i] = Apps[cursor + i]
    BY <2>1, <2>4 DEF IsPart
  <2>6. Len(items) = l /\ \A i \in 1..l : items[i] = sent[offset + i]
    BY <1>14, <2>3 DEF IsPart
  <2>7. ASSUME NEW i \in 1..l PROVE items[i] = all[i]
    <3>1. offset + i \in 1..k /\ first + (offset + i) = cursor + i
      BY <1>3, <1>8, <1>12, <2>3
    <3>2. sent[offset + i] = page[offset + i]
      BY <1>13, <3>1
    <3>3. \A j \in 1..k : page[j] = Apps[first + j]
      BY <1>10, <2>2 DEF IsPart
    <3>4. page[offset + i] = Apps[first + (offset + i)]
      BY <3>1, <3>3
    <3> QED
      BY <2>5, <2>6, <3>1, <3>2, <3>4
  <2> HIDE DEF all, items
  <2>8. items = all
    BY <1>14, <2>1, <2>5, <2>6, <2>7, SeqEqual
  <2> QED
    BY <2>8 DEF all
<1> HIDE DEF items
<1> QED
  BY <1>2, <1>3, <1>4, <1>6, <1>9, <1>14, <1>15, <1>16

LEMMA PortalInv == ListInv /\ List!PortalAnswers => ListInv'
<1> SUFFICES ASSUME ListInv, List!PortalAnswers PROVE ListInv'
  OBVIOUS
<1>1. ListTyped /\ ListPlaces /\ PagesInv
  BY DEF ListInv
<1>2. /\ at = "portal" /\ cmd.id = "app.list" /\ cmd.cursor \in Nat
      /\ Apps \in Seq(Items) /\ calm' \in BOOLEAN /\ (calm' => calm)
      /\ UNCHANGED <<balance, cmd, scan, found, pool>>
  BY PortalIs
<1>3. PICK items \in Seq(Items) :
        /\ List!Page(items, Len(Apps))
        /\ calm' => \E m \in Nat :
                      /\ m <= Len(Apps) /\ (cursor < Len(Apps) => cursor < m)
                      /\ items = SubSeq(Apps, cursor + 1, m)
  BY PortalIs
<1> DEFINE n == Len(Apps)
<1>4. n \in Nat
  BY <1>2, LenProperties
<1>5. ListTyped' /\ at' \in {"handle", "done"}
  BY <1>1, <1>2, <1>3, <1>4, PageTyped
<1>6. ASSUME calm' PROVE PagesInv'
  <2>1. PICK m \in Nat : /\ m <= n /\ (cursor < n => cursor < m)
                         /\ items = SubSeq(Apps, cursor + 1, m)
    BY <1>3, <1>6
  <2>2. n = EndOfList /\ \A j \in 1..n : Placed(Apps[j], j)
    BY <1>2 DEF EndOfList, Placed
  <2>3. List!Page(items, n) /\ Len(Apps) = n
    BY <1>3
  <2> HIDE DEF n
  <2> QED
    BY <1>1, <1>2, <1>4, <1>6, <2>1, <2>2, <2>3, PagesGoOn
<1>7. PagesInv' /\ ListPlaces'
  BY <1>1, <1>2, <1>5, <1>6 DEF ListPlaces, PagesInv
<1> QED
  BY <1>5, <1>7 DEF ListInv, ScanInv, BalancesInv, MetadataInv

listVars == <<balance, cmd, at, cursor, merged, scan, found, pool, calm>>

LEMMA ListSteps == MCNext => List!Next \/ UNCHANGED listVars
  BY DEF MCNext, listVars, listing

LEMMA QuietList == ListInv /\ UNCHANGED listVars => ListInv'
<1> SUFFICES ASSUME ListInv, UNCHANGED listVars PROVE ListInv'
  OBVIOUS
<1>1. EndOfList' = EndOfList /\ \A item, j : Placed(item, j)' = Placed(item, j)
  BY PlacesStay DEF listVars
<1>2. PagesInv'
  BY <1>1, Zenon DEF ListInv, PagesInv, listVars
<1>3. Holdings' = Holdings /\ \A t : List!Entry(t)' = List!Entry(t)
  BY DEF Holdings, List!Entry, List!Held, listVars
<1>4. BalancesInv' /\ MetadataInv'
  BY <1>3, Zenon DEF ListInv, BalancesInv, MetadataInv, listVars
<1>5. ListTyped' /\ ListPlaces' /\ ScanInv'
  BY DEF ListInv, ListTyped, ListPlaces, ScanInv, Items, listVars
<1> QED
  BY <1>2, <1>4, <1>5 DEF ListInv

LEMMA InitList == MCInit => ListInv
<1> SUFFICES ASSUME MCInit PROVE ListInv
  OBVIOUS
<1>1. /\ balance \in [Tokens -> 0..MaxBalance] /\ cmd \in Listings /\ at = "handle"
      /\ cursor = cmd.cursor /\ merged = <<>> /\ scan = List!NoScan /\ found = {}
      /\ calm = TRUE
  BY DEF MCInit, List!Init
<1>2. cmd.cursor \in Nat /\ Latest + 1 \in Nat \ {0}
  BY <1>1, ListAssumption
<1>3. ListTyped
  BY <1>1, <1>2 DEF ListTyped, List!NoScan
<1>4. PagesInv
  BY <1>1, <1>2 DEF PagesInv
<1> QED
  BY <1>1, <1>3, <1>4 DEF ListInv, ListPlaces, ScanInv, BalancesInv, MetadataInv

LEMMA NextListInv == ListInv /\ List!Next => ListInv'
<1> SUFFICES ASSUME ListInv, List!Next PROVE ListInv'
  OBVIOUS
<1>1. \/ List!AskBalances \/ List!Scanned \/ List!AllRead \/ List!Listed
      \/ List!PortalAnswers
      \/ List!AskPortal \/ List!AskStreams \/ List!Fail
      \/ \E t \in Tokens, v \in 0..MaxBalance : List!Move(t, v)
      \/ \E d \in List!Directions : List!ReadLogs(d)
      \/ \E i \in DOMAIN pool.values : List!ReadBalance(i) \/ List!ReadMetadata(i)
  BY DEF List!Next
<1> QED
  BY <1>1, AskBalancesInv, ScannedInv, AllReadInv, ListedInv, PortalInv, OtherListInv,
     ReadLogsInv, ReadBalanceInv, ReadMetadataInv

LEMMA ListAlways == MCSpec => []ListInv
<1>1. ListInv /\ [MCNext]_<<vars, cvars, mvars, listing, handoff, part>> => ListInv'
  <2>1. UNCHANGED <<vars, cvars, mvars, listing, handoff, part>> => UNCHANGED listVars
    BY DEF listVars, listing
  <2> QED
    BY <2>1, ListSteps, QuietList, NextListInv
<1> QED
  BY InitList, <1>1, PTL DEF MCSpec

\* The pages together are the whole list, whatever the ranges in which the logs are
\* read, the order of the answers, and the size and the offset of the pages: for any
\* tokens, transfers, apps and listings.
THEOREM PagesAreWhole == MCSpec => []PagesComplete
<1>1. ListInv => PagesComplete
  <2> SUFFICES ASSUME ListInv, at = "done", calm
               PROVE  IF cmd.id = "app.list"
                      THEN merged = SubSeq(Apps, cmd.cursor + 1, Len(Apps))
                      ELSE /\ Len(merged) = IF cmd.cursor < Cardinality(List!Held)
                                            THEN Cardinality(List!Held) - cmd.cursor ELSE 0
                           /\ \A i \in DOMAIN merged :
                                /\ merged[i].token \in List!Held
                                /\ List!Rank(merged[i].token) = cmd.cursor + i - 1
    BY ListCounts DEF PagesComplete, List!PagesComplete
  <2>1. ListTyped /\ ListPlaces /\ PagesInv
    BY DEF ListInv
  <2>2. /\ cmd.cursor \in Nat /\ cmd.id \in {"wallet.tokens.list", "app.list"}
        /\ merged \in Seq(Items)
    BY <2>1, ListAssumption DEF ListTyped, ListPlaces
  <2>3. /\ Len(merged) = IF cmd.cursor < EndOfList THEN EndOfList - cmd.cursor ELSE 0
        /\ \A i \in 1..Len(merged) : Placed(merged[i], cmd.cursor + i)
    BY <2>1, <2>2 DEF PagesInv
  <2>4. CASE cmd.id = "app.list"
    <3>1. Apps \in Seq(Items)
      BY <2>4, ListAssumption DEF Items
    <3> DEFINE n == Len(Apps)
               all == SubSeq(Apps, cmd.cursor + 1, n)
    <3>2. n \in Nat
      BY <3>1, LenProperties
    <3>3. all \in Seq(Items) /\ IsPart(all, Apps, cmd.cursor, n)
      <4>1. all = SubSeq(Apps, cmd.cursor + 1, n) /\ n = Len(Apps) /\ n <= Len(Apps)
        BY <3>2
      <4> HIDE DEF n, all
      <4> QED
        BY <2>2, <3>1, <3>2, <4>1, PartOf
    <3>4. Len(merged) = Len(all) /\ \A i \in 1..Len(merged) : merged[i] = all[i]
      BY <2>3, <2>4, <3>3 DEF IsPart, EndOfList, Placed
    <3> HIDE DEF all
    <3>5. merged = all
      BY <2>2, <3>3, <3>4, SeqEqual
    <3> QED
      BY <2>4, <3>5 DEF all
  <2>5. CASE cmd.id # "app.list"
    <3>1. DOMAIN merged = 1..Len(merged)
      BY <2>2, LenProperties
    <3>2. Len(merged) = IF cmd.cursor < Cardinality(List!Held)
                        THEN Cardinality(List!Held) - cmd.cursor ELSE 0
      BY <2>3, <2>5 DEF EndOfList, Total
    <3>3. \A i \in 1..Len(merged) :
            /\ merged[i].token \in List!Held
            /\ List!Rank(merged[i].token) = cmd.cursor + i - 1
      <4> SUFFICES ASSUME NEW i \in 1..Len(merged)
                   PROVE  /\ merged[i].token \in List!Held
                          /\ List!Rank(merged[i].token) = cmd.cursor + i - 1
        OBVIOUS
      <4>1. Placed(merged[i], cmd.cursor + i)
        BY <2>3
      <4> QED
        BY <2>2, <2>5, <4>1 DEF Placed
    <3> QED
      BY <2>5, <3>1, <3>2, <3>3
  <2> QED
    BY <2>4, <2>5
<1> QED
  BY ListAlways, <1>1, PTL

\* A page that has a next one moves the cursor forward, whatever changes and fails
\* meanwhile, unless it is a part of a page of the portal with nothing from the
\* cursor on, which leaves cursor and list as they are; and a scan goes on to new
\* blocks or asks for fewer of them.
THEOREM ListGoesOn == MCSpec => ListAdvances
<1>1. ListInv /\ List!Next => List!PageAdvances /\ List!ScanAdvances
  <2> SUFFICES ASSUME ListInv, List!Next PROVE List!PageAdvances /\ List!ScanAdvances
    OBVIOUS
  <2>1. ListTyped /\ cursor \in Nat
    BY DEF ListInv, ListTyped
  <2>2. ASSUME at' = "handle", at # "handle"
        PROVE  cursor' > cursor \/ List!StandsStill
    <3>1. List!Listed \/ List!PortalAnswers
      BY <2>2 DEF List!Next, List!AskBalances, List!Scanned, List!AllRead, List!AskPortal,
                  List!AskStreams, List!Fail, List!ReadLogs, List!ReadBalance,
                  List!ReadMetadata, List!Move
    <3>2. ASSUME NEW list \in Seq(Items), NEW m \in Nat, m <= Len(list),
                 cursor < Len(list) => cursor < m,
                 List!Page(SubSeq(list, cursor + 1, m), Len(list))
          PROVE  cursor' > cursor
      <4> DEFINE items == SubSeq(list, cursor + 1, m)
                 n == Len(list)
      <4>1. items \in Seq(Items) /\ IsPart(items, list, cursor, m)
        BY <2>1, <3>2, PartOf
      <4>2. Len(items) = IF cursor < m THEN m - cursor ELSE 0
        BY <4>1 DEF IsPart
      <4>3. cursor + Len(items) < n /\ cursor' = cursor + Len(items)
        BY <2>2, <3>2 DEF List!Page
      <4>4. n \in Nat
        BY LenProperties
      <4> HIDE DEF items, n
      <4> QED
        BY <2>1, <3>2, <4>2, <4>3, <4>4 DEF n
    <3>3. CASE List!Listed
      BY <2>2, <3>2, <3>3, ListedIs
    <3>4. CASE List!PortalAnswers
      <4>1. CASE calm'
        BY <3>2, <3>4, <4>1, PortalIs
      <4>2. CASE ~calm'
        <5>1. at = "portal" /\ Apps \in Seq(Items)
          BY <3>4, PortalIs
        <5>2. PICK items \in Seq(Items) : List!Page(items, Len(Apps))
          BY <3>4, PortalIs
        <5>3. cursor' = cursor + Len(items) /\ merged' = merged \o items
          BY <2>2, <5>2 DEF List!Page
        <5>4. CASE Len(items) = 0
          <6>1. items = <<>> /\ merged \in Seq(Items)
            BY <2>1, <5>4, EmptySeq DEF ListTyped
          <6>2. merged' = merged /\ cursor' = cursor
            BY <2>1, <5>3, <5>4, <6>1
          <6> QED
            BY <4>2, <5>1, <6>2 DEF List!StandsStill
        <5>5. CASE Len(items) # 0
          <6>1. Len(items) \in Nat
            BY LenProperties
          <6> QED
            BY <2>1, <5>3, <5>5, <6>1
        <5> QED
          BY <5>4, <5>5
      <4> QED
        BY <4>1, <4>2
    <3> QED
      BY <3>1, <3>3, <3>4
  <2>3. ASSUME at = "scan", at' = "scan", NEW d \in List!Directions
        PROVE  \/ scan'[d] = scan[d]
               \/ scan'[d].from > scan[d].from /\ scan'[d].chunk = scan[d].chunk
               \/ /\ scan'[d].from = scan[d].from
                  /\ scan'[d].chunk < scan[d].chunk /\ scan'[d].chunk >= MinChunk
    <3>1. (\E e \in List!Directions : List!ReadLogs(e)) \/ UNCHANGED scan
      BY <2>3 DEF List!Next, List!AskBalances, List!Scanned, List!AllRead, List!Listed,
                  List!AskPortal, List!PortalAnswers, List!AskStreams, List!Fail,
                  List!ReadBalance, List!ReadMetadata, List!Move
    <3>2. ASSUME NEW e \in List!Directions, List!ReadLogs(e)
          PROVE  \/ scan'[d] = scan[d]
                 \/ scan'[d].from > scan[d].from /\ scan'[d].chunk = scan[d].chunk
                 \/ /\ scan'[d].from = scan[d].from
                    /\ scan'[d].chunk < scan[d].chunk /\ scan'[d].chunk >= MinChunk
      <4>1. /\ scan \in [List!Directions -> [from: Nat, chunk: Nat \ {0}]]
            /\ scan[e].from <= Latest
        BY <2>1, <3>2 DEF ListTyped, List!ReadLogs
      <4>2. Latest \in Nat /\ MinChunk \in Nat \ {0}
        BY ListAssumption
      <4>3. CASE d # e
        BY <3>2, <4>1, <4>3 DEF List!ReadLogs
      <4>4. CASE d = e
        <5>1. CASE scan' = [scan EXCEPT ![d].from = List!ToBlock(scan[d]) + 1]
          BY <4>1, <4>2, <4>4, <5>1 DEF List!ToBlock, List!Least
        <5>2. CASE scan[d].chunk > MinChunk /\ scan' = [scan EXCEPT ![d] = List!Smaller(@)]
          <6>1. scan'[d] = List!Smaller(scan[d])
            BY <4>1, <5>2
          <6>2. scan[d] \in [from: Nat, chunk: Nat \ {0}]
            BY <4>1
          <6> QED
            BY <4>2, <5>2, <6>1, <6>2 DEF List!Smaller
        <5> QED
          BY <3>2, <4>4, <5>1, <5>2 DEF List!ReadLogs
      <4> QED
        BY <4>3, <4>4
    <3> QED
      BY <3>1, <3>2
  <2> QED
    BY <2>2, <2>3 DEF List!PageAdvances, List!ScanAdvances
<1>2. ListInv /\ [MCNext]_<<vars, cvars, mvars, listing, handoff, part>>
      => [List!PageAdvances /\ List!ScanAdvances]_(List!vars)
  <2>1. UNCHANGED <<vars, cvars, mvars, listing, handoff, part>> => UNCHANGED listVars
    BY DEF listVars, listing
  <2>2. UNCHANGED listVars => UNCHANGED List!vars
    BY DEF listVars, List!vars
  <2> QED
    BY <1>1, <2>1, <2>2, ListSteps
<1> QED
  BY ListAlways, <1>2, PTL DEF MCSpec, ListAdvances, List!ListAdvances
=============================================================================
