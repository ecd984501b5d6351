----------------------------- MODULE Migration -----------------------------
(***************************************************************************)
(* How a command loads its session: from the directory of agw, or from the *)
(* one of its predecessor, ~/.agw-mcp, whose session and key it then       *)
(* copies.  Neither takes the lock, and a command may die in between.      *)
(***************************************************************************)
EXTENDS AuthSession

CONSTANT Loaders  \* the commands, each of which starts again once it has ended

VARIABLES
  legacyKey,  \* the key file of the legacy directory, which nothing writes
  phase,      \* where each command is
  got         \* the session that it has, and which key file it refers to

mvars == <<legacyKey, phase, got>>

Nothing == [session |-> Missing, key |-> "none"]

\* The legacy session is one of Earlier; its key may be gone.
LegacySession == ActiveSession(EarlierWallet, Earlier)

MInit ==
  /\ legacyKey \in {Earlier, None}
  /\ phase = [c \in Loaders |-> "idle"]
  /\ got = [c \in Loaders |-> Nothing]

Move(c, there, file) ==
  /\ phase' = [phase EXCEPT ![c] = there]
  /\ got' = [got EXCEPT ![c] = file]

\* loadSessionFile: a file that is there and parses.
Readable(s) == s.status \notin {"missing", "torn"}

LoadCurrent(c) ==
  /\ phase[c] = "idle"
  /\ IF Readable(session)
     THEN Move(c, "resolve", [session |-> session, key |-> "here"])
     ELSE Move(c, "legacy", Nothing)
  /\ UNCHANGED <<key, session, legacyKey>>

\* Mutant: the key is left where it is.
Uncopied == "save"

\* What comes first once session.json is known to be missing.
AfterMissing == IF legacyKey # None THEN "copy" ELSE "save"

\* migrateLegacySession: a session.json of any kind stops it.
LoadLegacy(c) ==
  /\ phase[c] = "legacy"
  /\ IF session.status # "missing"
     THEN Move(c, "resolve", [session |-> LegacySession, key |-> "legacy"])
     ELSE Move(c, AfterMissing, Nothing)
  /\ UNCHANGED <<key, session, legacyKey>>

\* copyFileSync over whatever key is there: what it has copied so far is no key.
CopyKey(c) ==
  /\ phase[c] = "copy"
  /\ key' = Torn
  /\ Move(c, "copying", Nothing)
  /\ UNCHANGED <<session, legacyKey>>

CopyEnds(c) ==
  /\ phase[c] = "copying"
  /\ key' = legacyKey
  /\ Move(c, "save", Nothing)
  /\ UNCHANGED <<session, legacyKey>>

\* writeJsonAtomic
SaveMigrated(c) ==
  /\ phase[c] = "save"
  /\ session' = LegacySession
  /\ Move(c, "resolve",
          [session |-> LegacySession, key |-> IF legacyKey = None THEN "legacy" ELSE "here"])
  /\ UNCHANGED <<key, legacyKey>>

KeyFile(c) == IF got[c].key = "here" THEN key ELSE legacyKey

\* resolveAuthKeyRefForRuntime: a session without its key file is none, unless
\* it is revoked.
Resolve(c) ==
  /\ phase[c] = "resolve"
  /\ Move(c, "loaded",
          IF KeyFile(c) = None /\ got[c].session.status # "revoked" THEN Nothing ELSE got[c])
  /\ UNCHANGED <<key, session, legacyKey>>

End(c) ==
  /\ phase[c] = "loaded"
  /\ Move(c, "idle", Nothing)
  /\ UNCHANGED <<key, session, legacyKey>>

\* A call of the file system throws, or the command is killed.
Break(c) ==
  /\ phase[c] \in {"legacy", "copy", "copying", "save", "resolve"}
  /\ Move(c, "broken", Nothing)
  /\ UNCHANGED <<key, session, legacyKey>>

Load(c) ==
  /\ \/ LoadCurrent(c) \/ LoadLegacy(c) \/ CopyKey(c) \/ CopyEnds(c) \/ SaveMigrated(c)
     \/ Resolve(c) \/ End(c) \/ Break(c)
  /\ UNCHANGED <<lock, registered, pc, mem>>

MNext == \E c \in Loaders : Load(c)

Resting(c) == phase[c] \in {"idle", "broken"}

-----------------------------------------------------------------------------
(* Properties                                                              *)

Untouched == \A p \in Processes : At(p, "idle")
Legacy == legacyKey # None

\* As long as agw itself has written nothing, every command that can load a
\* session has that of the legacy directory, with a key file, wherever commands
\* before it and beside it have got to, and have died.
NothingIsLost ==
  Untouched /\ Legacy =>
    \A c \in Loaders : phase[c] = "loaded" => got[c].session = LegacySession

\* Once session.json has been written, its key is whole, as long as nobody copies
\* it once more.
KeyIsWhole ==
  LET copies == \E c \in Loaders : phase[c] \in {"copy", "copying"}
  IN  Untouched /\ Legacy /\ ~copies /\ session.status = "active" => key = legacyKey

\* The legacy directory still has the session that a revoke has ended, and does
\* not bring it back.
StaysRevoked ==
  RestoresWork =>
    \A p \in Processes, c \in Loaders :
      /\ At(p, "done") /\ mem[p].flow = "revoke" /\ mem[p].failed = "nothing"
      /\ phase[c] = "loaded"
      => ~ActiveFor(got[c].session, mem[p].session.signer)
=============================================================================
