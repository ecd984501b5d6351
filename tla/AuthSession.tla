---------------------------- MODULE AuthSession ----------------------------
(***************************************************************************)
(* The session that agw keeps on a device: session.json and the key of its *)
(* signer, privy-auth.key, in one directory.  `agw auth init` replaces     *)
(* both, under a lock file; `agw auth revoke` marks the session revoked    *)
(* and deletes the key, under none.  Every command is a process of its     *)
(* own, so they interleave between any two calls of the file system.       *)
(* Each init may be approved for another wallet of the user's.             *)
(***************************************************************************)
EXTENDS Integers, FiniteSets

CONSTANTS
  Processes,  \* the commands, and the keys that they generate
  Earlier,    \* the key of an init before all of these
  Wallets,    \* the wallets that an init can be approved for
  EarlierWallet,  \* the one of the init before
  None,       \* no process, no key
  Torn        \* a key file that was wiped, or written in part

ASSUME ConstantsAssumption ==
  /\ None \notin Processes /\ Torn \notin Processes /\ Earlier \notin Processes
  /\ None # Torn /\ None # Earlier /\ Torn # Earlier
  /\ EarlierWallet \in Wallets /\ None \notin Wallets

VARIABLES
  lock,       \* .bootstrap-init.lock: who has created it, what is in it
  key,        \* privy-auth.key
  session,    \* session.json
  registered, \* the signers of the wallets, as pairs
  pc,         \* where each process is
  mem         \* what it remembers

vars == <<lock, key, session, registered, pc, mem>>

-----------------------------------------------------------------------------
Keys == Processes \cup {Earlier}
Session ==
  [wallet: Wallets \cup {None}, signer: Keys \cup {None},
   status: {"missing", "active", "revoked", "torn"}]

Missing == [wallet |-> None, signer |-> None, status |-> "missing"]
ActiveSession(w, k) == [wallet |-> w, signer |-> k, status |-> "active"]
ActiveFor(s, k) == s.status = "active" /\ s.signer = k
RevokedSession(s) == [s EXCEPT !.status = "revoked"]

\* pid is FALSE until the metadata is written; old is the age of more than 30
\* minutes, which counts only for a lock without it.
NoLock == [owner |-> None, pid |-> FALSE, old |-> FALSE]
LockOf(p) == [owner |-> p, pid |-> FALSE, old |-> FALSE]

\* again is the second attempt, aged what statSync has told of the lock, failed
\* approved the wallet for which it was approved; failed what has failed: the
\* flow, which throws, or the restore as well, or a part of the key's deletion,
\* which is passed over; key and session are the snapshot, or the session to
\* revoke.
NewMemory ==
  [flow |-> "none", again |-> FALSE, aged |-> FALSE, approved |-> None,
   failed |-> "nothing", key |-> None, session |-> Missing]

Init ==
  /\ lock = NoLock
  /\ \E k \in {None, Earlier} :
       /\ key = k
       /\ session = IF k = None THEN Missing ELSE ActiveSession(EarlierWallet, k)
       /\ registered = {<<EarlierWallet, Earlier>>}
  /\ pc = [p \in Processes |-> "idle"]
  /\ mem = [p \in Processes |-> NewMemory]

At(p, here) == pc[p] = here
Goto(p, there) == pc' = [pc EXCEPT ![p] = there] /\ UNCHANGED mem
GoWith(p, there, m) == pc' = [pc EXCEPT ![p] = there] /\ mem' = [mem EXCEPT ![p] = m]

Alive(p) == pc[p] # "dead"

-----------------------------------------------------------------------------
(* acquireBootstrapLock                                                    *)

StartInit(p) ==
  /\ At(p, "idle")
  /\ GoWith(p, "open", [mem[p] EXCEPT !.flow = "init"])
  /\ UNCHANGED <<lock, key, session, registered>>

\* openSync(lockPath, "wx"), in the first attempt and in the second.
Open(p) ==
  /\ At(p, "open")
  /\ \/ /\ lock = NoLock
        /\ lock' = LockOf(p)
        /\ Goto(p, "write")
     \/ /\ lock # NoLock
        /\ Goto(p, IF mem[p].again THEN "refused" ELSE "stat")
        /\ UNCHANGED lock
  /\ UNCHANGED <<key, session, registered>>

\* shouldRecoverStaleLock: statSync, then readFileSync and isProcessAlive.
Stat(p) ==
  /\ At(p, "stat")
  /\ GoWith(p, IF lock = NoLock THEN "refused" ELSE "read",
               [mem[p] EXCEPT !.aged = lock.old])
  /\ UNCHANGED <<lock, key, session, registered>>

\* Mutant: a lock without a pid is stale whatever its age.
NoPid(p) == lock.pid => ~Alive(lock.owner)

Stale(p) == IF lock.pid THEN ~Alive(lock.owner) ELSE mem[p].aged

Read(p) ==
  /\ At(p, "read")
  /\ Goto(p, IF Stale(p) THEN "unlink" ELSE "refused")
  /\ UNCHANGED <<lock, key, session, registered>>

\* Whatever lock there is by now, if there is one.
Unlink(p) ==
  /\ At(p, "unlink")
  /\ lock' = NoLock
  /\ GoWith(p, "open", [mem[p] EXCEPT !.again = TRUE])
  /\ UNCHANGED <<key, session, registered>>

\* The pid goes to the file that was opened, which may be unlinked by now.
WithPid(p) == IF lock.owner = p THEN [lock EXCEPT !.pid = TRUE] ELSE lock

WritePid(p) ==
  /\ At(p, "write")
  /\ \/ /\ lock' = WithPid(p)
        /\ Goto(p, "capture")
     \/ /\ lock' = NoLock
        /\ Goto(p, "refused")
  /\ UNCHANGED <<key, session, registered>>

\* Half an hour passes: only a process that is dead has not written its pid.
Age ==
  /\ lock # NoLock /\ ~lock.pid /\ ~lock.old /\ ~Alive(lock.owner)
  /\ lock' = [lock EXCEPT !.old = TRUE]
  /\ UNCHANGED <<key, session, registered, pc, mem>>

-----------------------------------------------------------------------------
(* runBootstrapFlow, with the lock                                         *)

CaptureKey(p) ==
  /\ At(p, "capture")
  /\ GoWith(p, "captureSession", [mem[p] EXCEPT !.key = key])
  /\ UNCHANGED <<lock, key, session, registered>>

\* Mutant: the key of the init replaces the one in place before it is approved.
SavesKeyFirst(p) ==
  /\ At(p, "captureSession")
  /\ key' = p
  /\ GoWith(p, "waiting", [mem[p] EXCEPT !.session = session])
  /\ UNCHANGED <<lock, session, registered>>

CaptureSession(p) ==
  /\ At(p, "captureSession")
  /\ GoWith(p, "waiting", [mem[p] EXCEPT !.session = session])
  /\ UNCHANGED <<lock, key, session, registered>>

\* Mutant: the token is not verified.
Unverified(p) == TRUE

\* The token is signed by the hosted app, for this key and this state.
Verified(p) == mem[p].approved # None

\* The callback server takes one answer: a token that is verified and fits the
\* request, or any other, or none before its timeout.  Its wallet is not compared
\* with that of the session in place.
Answered(p) ==
  /\ At(p, "waiting")
  /\ \/ Verified(p) /\ Goto(p, "saveKey")
     \/ GoWith(p, "restoreKey", [mem[p] EXCEPT !.failed = "flow"])
  /\ UNCHANGED <<lock, key, session, registered>>

\* saveProvisionedSession
SaveKey(p) ==
  /\ At(p, "saveKey")
  /\ \/ key' = p /\ Goto(p, "saveSession")
     \/ /\ GoWith(p, "restoreKey", [mem[p] EXCEPT !.failed = "flow"])
        /\ UNCHANGED key
  /\ UNCHANGED <<lock, session, registered>>

\* Its failure removes the key, or tries to.
SaveSession(p) ==
  /\ At(p, "saveSession")
  /\ \/ /\ session' = ActiveSession(mem[p].approved, p)
        /\ Goto(p, "release")
        /\ UNCHANGED key
     \/ /\ key' \in {None, key}
        /\ GoWith(p, "restoreKey", [mem[p] EXCEPT !.failed = "flow"])
        /\ UNCHANGED session
  /\ UNCHANGED <<lock, registered>>

\* Mutant: a file that the snapshot has not is left alone.
LeftAlone(found, was) == IF was \in {None, Missing} THEN found ELSE was

\* Mutant: nothing is put back.
Kept(found, was) == found

\* A file of the snapshot as it is put back, by unlink or by a write.
Restored(found, was) == was

\* restoreStorageSnapshot.  A write that fails may leave a part of it.
RestoreKey(p) ==
  /\ At(p, "restoreKey")
  /\ \/ key' = Restored(key, mem[p].key) /\ Goto(p, "restoreSession")
     \/ /\ key' \in {Torn, key}
        /\ GoWith(p, "release", [mem[p] EXCEPT !.failed = "restore"])
  /\ UNCHANGED <<lock, session, registered>>

RestoreSession(p) ==
  /\ At(p, "restoreSession")
  /\ \/ session' = mem[p].session /\ Goto(p, "release")
     \/ /\ session' \in {[Missing EXCEPT !.status = "torn"], session}
        /\ GoWith(p, "release", [mem[p] EXCEPT !.failed = "restore"])
  /\ UNCHANGED <<lock, key, registered>>

\* Whoever's lock it is.
Release(p) ==
  /\ At(p, "release")
  /\ lock' = NoLock
  /\ Goto(p, "done")
  /\ UNCHANGED <<key, session, registered>>

-----------------------------------------------------------------------------
(* revokeSessionTool, which takes no lock                                  *)

\* SessionManager.initialize: the session is loaded if its key is there.
StartRevoke(p) ==
  /\ At(p, "idle")
  /\ session.status = "active" /\ key # None
  /\ GoWith(p, "revoking", [mem[p] EXCEPT !.flow = "revoke", !.session = session])
  /\ UNCHANGED <<lock, key, session, registered>>

\* runRemoteRevokeFlow: the token has to be for the wallet of the session.
RevokeAnswered(p) ==
  /\ At(p, "revoking")
  /\ \/ /\ Verified(p) /\ mem[p].approved = mem[p].session.wallet
        /\ Goto(p, "mark")
     \/ GoWith(p, "done", [mem[p] EXCEPT !.failed = "flow"])
  /\ UNCHANGED <<lock, key, session, registered>>

\* Mutant: only the key is deleted.
Unmarked(p) == session

\* What markSessionRevoked saves: the session in memory.
Marked(p) == RevokedSession(mem[p].session)

MarkRevoked(p) ==
  /\ At(p, "mark")
  /\ \/ session' = Marked(p) /\ Goto(p, "wipe")
     \/ /\ GoWith(p, "done", [mem[p] EXCEPT !.failed = "flow"])
        /\ UNCHANGED session
  /\ UNCHANGED <<lock, key, registered>>

\* deleteAuthKeyfile writes zeros and unlinks, and passes over any failure.
Wipe(p) ==
  /\ At(p, "wipe")
  /\ key' = IF key = None THEN None ELSE Torn
  /\ Goto(p, "unlinkKey")
  /\ UNCHANGED <<lock, session, registered>>

UnlinkKey(p) ==
  /\ At(p, "unlinkKey")
  /\ key' = None
  /\ Goto(p, "done")
  /\ UNCHANGED <<lock, session, registered>>

\* A part of it fails: an unlink after a wipe that failed deletes the key still.
KeepsKey(p) ==
  /\ At(p, "wipe") \/ At(p, "unlinkKey")
  /\ GoWith(p, IF At(p, "wipe") THEN "unlinkKey" ELSE "done",
               [mem[p] EXCEPT !.failed = "delete"])
  /\ UNCHANGED <<lock, key, session, registered>>

-----------------------------------------------------------------------------
\* The user approves in the hosted app, with the wallet they are logged in with
\* there, which changes the signers of that wallet.
Approve(p) ==
  /\ mem[p].approved = None
  /\ \E w \in Wallets :
       /\ \/ At(p, "waiting") /\ registered' = registered \cup {<<w, p>>}
          \/ At(p, "revoking") /\ registered' = registered \ {<<w, mem[p].session.signer>>}
       /\ mem' = [mem EXCEPT ![p].approved = w]
  /\ UNCHANGED <<lock, key, session, pc>>

\* A process is killed, or throws between its lock and its try block.
Die(p) ==
  /\ pc[p] \notin {"idle", "done", "refused", "dead"}
  /\ Goto(p, "dead")
  /\ UNCHANGED <<lock, key, session, registered>>

Step(p) ==
  \/ Open(p) \/ Stat(p) \/ Read(p) \/ Unlink(p) \/ WritePid(p)
  \/ CaptureKey(p) \/ CaptureSession(p) \/ Answered(p)
  \/ SaveKey(p) \/ SaveSession(p)
  \/ RestoreKey(p) \/ RestoreSession(p) \/ Release(p)
  \/ RevokeAnswered(p) \/ MarkRevoked(p)
  \/ Wipe(p) \/ UnlinkKey(p) \/ KeepsKey(p)

Next ==
  \/ \E p \in Processes :
       StartInit(p) \/ StartRevoke(p) \/ Step(p) \/ Approve(p) \/ Die(p)
  \/ Age

Spec == Init /\ [][Next]_vars

Ended(p) == pc[p] \in {"done", "refused", "dead"}

-----------------------------------------------------------------------------
Places ==
  {"idle", "open", "stat", "read", "unlink", "write", "capture", "captureSession",
   "waiting", "saveKey", "saveSession", "restoreKey", "restoreSession", "release",
   "revoking", "mark", "wipe", "unlinkKey", "done", "refused", "dead"}

Memory ==
  [flow: {"none", "init", "revoke"}, again: BOOLEAN, aged: BOOLEAN,
   approved: Wallets \cup {None}, failed: {"nothing", "flow", "restore", "delete"},
   key: Keys \cup {None, Torn}, session: Session]

\* Every variable keeps its type; a lock with a pid in it has an owner.
TypeOK ==
  /\ lock \in [owner: Processes \cup {None}, pid: BOOLEAN, old: BOOLEAN]
  /\ lock.owner = None => lock = NoLock
  /\ key \in Keys \cup {None, Torn}
  /\ session \in Session
  /\ registered \subseteq Wallets \X Keys
  /\ pc \in [Processes -> Places]
  /\ mem \in [Processes -> Memory]

Inside ==
  {"write", "capture", "captureSession", "waiting", "saveKey", "saveSession",
   "restoreKey", "restoreSession", "release"}

\* "Another bootstrap flow is already in progress": no two processes are
\* between acquireBootstrapLock and release.
MutualExclusion ==
  \A p, q \in Processes :
    pc[p] \in Inside /\ pc[q] \in Inside => p = q

NobodyDied == \A p \in Processes : Alive(p)
NoRevoke == \A p \in Processes : mem[p].flow # "revoke"
RestoresWork == \A p \in Processes : mem[p].failed # "restore"

\* As long as no process has left its lock file behind, no lock is taken for
\* stale: the bootstraps of a directory exclude one another, whatever fails.
LockExcludes == NobodyDied => MutualExclusion

\* A bootstrap that fails at any point, and then restores, leaves key and
\* session as it has found them, whatever the other bootstraps do.
FailedChangesNothing ==
  NobodyDied /\ NoRevoke =>
    \A p \in Processes :
      At(p, "release") /\ mem[p].failed = "flow" =>
        key = mem[p].key /\ session = mem[p].session

\* While no bootstrap runs, the key on the device is that of the active
\* session: no failure pairs a session with the key of another.
Paired ==
  LET calm == NobodyDied /\ NoRevoke /\ RestoresWork
      nobodyIn == \A p \in Processes : pc[p] \notin Inside
  IN  calm /\ nobodyIn /\ session.status = "active" => key = session.signer

\* The device holds no active session for a signer that the wallet of the session
\* has not registered, whatever wallets the inits are approved for, whatever
\* answers reach the callback server, through crashes, stale locks and restores
\* that fail.
SignerIsRegistered ==
  NoRevoke => (session.status = "active" => <<session.wallet, session.signer>> \in registered)
=============================================================================
