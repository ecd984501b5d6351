----------------------------- MODULE MCAgwCore -----------------------------
(***************************************************************************)
(* A device with agw on it.  A behaviour takes one part of it: bootstraps  *)
(* and revokes at any time, or one after the other; a command that signs   *)
(* while two of these run; commands that migrate a legacy session, at once  *)
(* or one after the other; a command that lists; or the callbacks of two   *)
(* flows in homes of their own.                                            *)
(***************************************************************************)
EXTENDS Commands, Migration, Sequences, TLC

CONSTANTS p1, p2, p3, caller, l1, l2, l3, f1, f2, w1, w2, c1, c2, NoPayload,
  TooLarge, Broken
CONSTANTS Flows, Chains, Aheads, MaxTime, Timeout, Skew, Life  \* of Handoff
CONSTANTS Tokens, Logs, Apps, Listings, MaxBalance, Latest, MinChunk, Concurrency,
  DefaultPageSize  \* of TokenList

ThreeProcesses == {p1, p2, p3}
OneCaller == {caller}
TwoFlows == {f1, f2}
TwoWallets == {w1, w2}
TwoChains == {c1, c2}
ThreeLoaders == {l1, l2, l3}

\* The app's clock is off by as much as is allowed for, or by more.
SomeAheads == {-1, 1, 2}

\* Bootstraps and revokes are alike until they start.
Symmetry == Permutations(Processes) \cup Permutations(Loaders)

\* A session that an earlier init made enables some tools only.
SomeTools ==
  [k \in Keys |-> IF k = Earlier THEN {"send_transaction", "sign_message"} ELSE Tools]

\* One command that signs, in each way and with all combinations of options and
\* payload; every command, executed or not; and a function that only reads.
Input(ids, ways, dryRuns, flags, payloads, pages, views) ==
  [id: ids, via: ways, dryRun: dryRuns, flag: flags, payload: payloads, pageAll: pages,
   view: views]
SomeInputs ==
  Input({"tx.sign-message"}, {"cli", "mcp", "api"}, BOOLEAN, {"unset", "yes", "no"},
        {"unset", "yes", "no", "other"}, BOOLEAN, {FALSE})
  \cup Input({d.id : d \in commandRegistry}, {"cli", "mcp"}, {FALSE}, {"unset", "yes"},
             {"unset", "yes"}, {FALSE}, {FALSE})
  \cup Input({"contract.write"}, {"api"}, {FALSE}, {"yes"}, {"unset"}, {FALSE}, {TRUE})

-----------------------------------------------------------------------------
\* Three tokens and five apps, in six blocks.
ThreeTokens == 1..3
TransferBlocks ==
  <<[to |-> {0}, from |-> {}], [to |-> {3, 5}, from |-> {4}], [to |-> {}, from |-> {1}]>>
FiveApps == <<"a", "b", "c", "d", "e">>

Listing(id, size, offset, indexed) ==
  [id |-> id, size |-> size, cursor |-> offset, indexed |-> indexed, appId |-> None]
Streams(app) == [Listing("portal.streams.list", None, 0, FALSE) EXCEPT !.appId = app]
SomeListings ==
  {Listing("wallet.tokens.list", 1, 0, TRUE), Listing("wallet.tokens.list", 2, 0, FALSE),
   Listing("wallet.tokens.list", 2, 1, TRUE), Listing("wallet.tokens.list", None, 0, FALSE)}
  \cup {Listing("app.list", size, offset, FALSE) : size \in {1, 2, 3, None}, offset \in 0..5}
  \cup {Streams("string"), Streams("number")}

VARIABLES balance, cmd, at, cursor, merged, scan, found, pool, calm

listing == <<balance, cmd, at, cursor, merged, scan, found, pool, calm>>

List == INSTANCE TokenList WITH Null <- None

\* An account can hold what has been transferred to it, in some block.
ASSUME ListAssumption ==
  /\ Tokens \subseteq Int /\ IsFiniteSet(Tokens)
  /\ \A t \in Tokens : \E d \in List!Directions : Logs[t][d] \cap (0..Latest) # {}
  /\ Apps \in Seq({Apps[i] : i \in DOMAIN Apps})
  /\ {MaxBalance, Latest} \subseteq Nat
  /\ {MinChunk, Concurrency, DefaultPageSize} \subseteq Nat \ {0}
  /\ \A l \in Listings :
       /\ l.id \in {"wallet.tokens.list", "app.list", "portal.streams.list"}
       /\ l.cursor \in Nat /\ l.size \in (Nat \ {0}) \cup {None}
  /\ None \notin Nat \cup [token: Tokens, raw: 0..MaxBalance]

-----------------------------------------------------------------------------
VARIABLES clock, ahead, delegated, tokens, flow, place, server, told, sessions

handoff == <<clock, ahead, delegated, tokens, flow, place, server, told, sessions>>

Callbacks == INSTANCE Handoff WITH now <- clock, stage <- place

ASSUME HandoffAssumption ==
  /\ Earlier \notin Flows /\ None \notin Flows
  /\ Aheads \subseteq Int
  /\ Skew \in Nat /\ Life \in Nat

-----------------------------------------------------------------------------
VARIABLE part

Parts == {"any", "serial", "commands", "migrate", "migrateAlone", "list", "handoff"}
Migrates == part \in {"migrate", "migrateAlone"}

MCInit ==
  /\ CInit /\ MInit /\ List!Init /\ Callbacks!Init
  /\ part \in Parts
  /\ part \in {"list", "handoff"} \/ Migrates => key = None
  /\ ~Migrates => legacyKey = None
  /\ sessions = {Callbacks!Session(w1, Earlier, c1)}
  /\ part # "handoff" => ahead = 1
  /\ part # "list" => cmd.size = 1 /\ cmd.id = "app.list" /\ cursor = 0 /\ List!Held = {}
  /\ part = "list" /\ cmd.id # "wallet.tokens.list" => List!Held = {}

SerialNext ==
  \/ \E p \in Processes :
       \/ /\ \A q \in Processes : At(q, "idle") \/ Ended(q)
          /\ StartInit(p) \/ StartRevoke(p)
       \/ Step(p) \/ Approve(p) \/ Die(p)
  \/ Age

TwoStart == Cardinality({p \in Processes : pc'[p] # "idle"}) <= 2

\* An init is approved for another wallet only beside the command that signs.
OneWallet == \A p \in Processes : mem'[p].approved \in {None, EarlierWallet}

\* The commands that migrate, and what comes after them, if they are alone.
AloneNext ==
  \/ /\ \A c \in Loaders : Resting(c)
     /\ SerialNext /\ TwoStart /\ OneWallet /\ UNCHANGED mvars
  \/ /\ \A q \in Processes : At(q, "idle") \/ Ended(q)
     /\ \E c \in Loaders : Load(c) /\ \A d \in Loaders \ {c} : Resting(d)

\* The balances of a list change once at most; the flows of a handoff are alike,
\* and time is short where tokens come from the future and cannot expire; one flow is
\* enough where no token is accepted at once.
MCNext ==
  /\ \/ /\ part = "any" /\ Next /\ OneWallet
        /\ UNCHANGED <<cvars, mvars, listing, handoff>>
     \/ /\ part = "serial" /\ SerialNext /\ OneWallet
        /\ UNCHANGED <<cvars, mvars, listing, handoff>>
     \/ /\ part = "commands" /\ CNext /\ TwoStart
        /\ UNCHANGED <<mvars, listing, handoff>>
     \/ /\ part = "migrate" /\ MNext
        /\ UNCHANGED <<cvars, listing, handoff>>
     \/ /\ part = "migrateAlone" /\ AloneNext
        /\ UNCHANGED <<cvars, listing, handoff>>
     \/ /\ part = "list" /\ List!Next
        /\ balance' # balance => calm
        /\ UNCHANGED <<vars, cvars, mvars, handoff>>
     \/ /\ part = "handoff" /\ Callbacks!Next
        /\ place[f1] = "idle" \/ ahead > 1 => place'[f2] = "idle"
        /\ ahead > 0 => clock' <= 1
        /\ UNCHANGED <<vars, cvars, mvars, listing>>
  /\ UNCHANGED part

MCSpec == MCInit /\ [][MCNext]_<<vars, cvars, mvars, listing, handoff, part>>

-----------------------------------------------------------------------------
Serial == part = "serial"

\* "[...] then deletes the local authorization key": after a revoke that has
\* deleted it, the key of its signer does not come back, nor does its session,
\* when the commands run one after the other, whatever dies and fails.
RevokedForGood ==
  Serial =>
    \A p \in Processes :
      At(p, "done") /\ mem[p].flow = "revoke" /\ mem[p].failed = "nothing" =>
        /\ key # mem[p].session.signer
        /\ ~ActiveFor(session, mem[p].session.signer)

\* A revoke deletes no key but that of the signer it has removed from the
\* wallet, when the commands run one after the other and none of them leaves
\* half of a bootstrap.
OnlyItsKey ==
  [][Serial /\ NobodyDied /\ RestoresWork =>
       \A p \in Processes :
         At(p, "wipe") /\ pc'[p] = "unlinkKey" =>
           key \in {None, Torn, mem[p].session.signer}]_vars

\* As in AuthSession: no failure pairs a session with the key of another, on a
\* device whose session nobody migrates.
StaysPaired == ~Migrates => Paired

\* migrateLegacySession: a command that dies anywhere in it, or others that run
\* beside it, leave a session that can be used; and one that is revoked after it
\* does not come back.  Of those that die beside others only the first holds.
MigratesWhole ==
  LET breaks == \E c \in Loaders : phase[c] = "broken"
  IN  Migrates =>
        /\ NothingIsLost
        /\ part = "migrateAlone" \/ ~breaks => KeyIsWhole
        /\ part = "migrateAlone" => StaysRevoked

\* As in TokenList: the pages of a list are all of it.
PagesComplete == List!PagesComplete

\* As in TokenList: the streams of an app can be listed.
StreamsAreListed == List!StreamsAreListed

\* As in TokenList: each page and each scan comes nearer to its end, but for a page
\* of the portal with nothing in it.
ListAdvances == List!ListAdvances

\* As in Handoff: what a flow reports is true of the wallet.
TrueOfTheWallet == Callbacks!TrueOfTheWallet

\* As in Handoff: a page that is told "Session received" is not told so in vain.
ReceivedCounts == Callbacks!ReceivedCounts
=============================================================================
