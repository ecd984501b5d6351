------------------------------ MODULE TokenList ------------------------------
(***************************************************************************)
(* `agw wallet tokens list' and `agw app list' with all their pages.  The  *)
(* executor calls the handler for one page after the other; each call      *)
(* makes the list anew: the first from the balances of the account, or,    *)
(* where the node does not serve them, from its transfer logs and a        *)
(* bounded number of reads at a time, the second from a page of the portal.*)
(* `agw portal streams list' is the third list, as far as it gets.         *)
(***************************************************************************)
EXTENDS Integers, FiniteSets, SequencesExt

CONSTANTS
  Tokens,          \* token contracts, in the order of their addresses
  MaxBalance,      \* bound of the balances
  Latest,          \* the latest block
  MinChunk,        \* LOG_SCAN_MIN_CHUNK_SIZE
  Concurrency,     \* BALANCE_QUERY_CONCURRENCY, METADATA_QUERY_CONCURRENCY
  Logs,            \* token -> its transfers to the account, and from it
  Apps,            \* the apps of the portal
  Listings,        \* what is asked for
  DefaultPageSize, \* DEFAULT_APP_LIST_PAGE_SIZE
  Null

VARIABLES
  balance,  \* token -> what the account holds
  cmd,      \* the command: [id, size, cursor, indexed, appId]
  at,       \* where it is
  cursor,   \* the cursor of the page
  merged,   \* the items of the pages so far
  scan,     \* the two scans of the logs, "to" the account and "from" it
  found,    \* the tokens of the logs read so far
  pool,     \* the reads of mapWithConcurrency
  calm      \* whether nothing has changed since the start, and no read failed

vars == <<balance, cmd, at, cursor, merged, scan, found, pool, calm>>

Least(a, b) == IF a < b THEN a ELSE b
Directions == {"to", "from"}
NoScan == [d \in Directions |-> [from |-> 0, chunk |-> Latest + 1]]
NoPool == [values |-> <<>>, next |-> 0, busy |-> {}, results |-> <<>>]

Init ==
  /\ balance \in [Tokens -> 0..MaxBalance]
  /\ cmd \in Listings
  /\ at = "handle"
  /\ cursor = cmd.cursor
  /\ merged = <<>>
  /\ scan = NoScan
  /\ found = {}
  /\ pool = NoPool
  /\ calm = TRUE

Held == {t \in Tokens : balance[t] > 0}

-----------------------------------------------------------------------------
(* normalizeTokenBalances, mapWithConcurrency                              *)

Entry(t) == [token |-> t, raw |-> balance[t]]

Richer(a, b) == a.raw > b.raw \/ (a.raw = b.raw /\ a.token < b.token)

\* The richest first.
Sorted(list) == \A i, j \in DOMAIN list : i < j => Richer(list[i], list[j])

Normalized(entries) == CHOOSE list \in [1..Cardinality(entries) -> entries] : Sorted(list)

\* Every worker takes a value before the first of them has to wait.
Pool(values) ==
  LET first == Least(Concurrency, Len(values))
  IN  [values |-> values, next |-> first, busy |-> 1..first,
       results |-> [i \in 1..Len(values) |-> Null]]

\* Mutant: results in the order in which they arrive.
Arrived(p, i, result) ==
  LET n == Cardinality({j \in DOMAIN p.results : p.results[j] # Null})
  IN  [p EXCEPT !.results[n + 1] = result,
                !.busy = (@ \ {i}) \cup (IF p.next < Len(p.values) THEN {p.next + 1} ELSE {}),
                !.next = Least(@ + 1, Len(p.values))]

\* A worker has its result and takes the next value.
Mapped(p, i, result) ==
  [p EXCEPT !.results[i] = result,
            !.busy = (@ \ {i}) \cup (IF p.next < Len(p.values) THEN {p.next + 1} ELSE {}),
            !.next = Least(@ + 1, Len(p.values))]

Kept(list, result) == IF result = Null THEN list ELSE Append(list, result)

Results == FoldLeft(Kept, <<>>, pool.results)

-----------------------------------------------------------------------------
(* getTokenBalances                                                        *)

AskBalances ==
  /\ at = "handle" /\ cmd.id = "wallet.tokens.list"
  /\ \/ /\ cmd.indexed
        /\ at' = "metadata"
        /\ pool' = Pool(Normalized({Entry(t) : t \in Held}))
        /\ UNCHANGED <<scan, found>>
     \/ /\ ~cmd.indexed
        /\ at' = "scan"
        /\ scan' = NoScan /\ found' = {}
        /\ UNCHANGED pool
  /\ UNCHANGED <<balance, cmd, cursor, merged, calm>>

ToBlock(s) == Least(s.from + s.chunk - 1, Latest)

Smaller(s) == [s EXCEPT !.chunk = IF @ \div 2 < MinChunk THEN MinChunk ELSE @ \div 2]

\* getTransferLogsWithAdaptiveChunking: a range is read, or refused and tried
\* again with half of the blocks, unless it is small enough (Fail).
ReadLogs(d) ==
  /\ at = "scan" /\ scan[d].from <= Latest
  /\ \/ /\ found' = found \cup
             {t \in Tokens : Logs[t][d] \cap (scan[d].from .. ToBlock(scan[d])) # {}}
        /\ scan' = [scan EXCEPT ![d].from = ToBlock(scan[d]) + 1]
     \/ /\ scan[d].chunk > MinChunk
        /\ scan' = [scan EXCEPT ![d] = Smaller(@)]
        /\ UNCHANGED found
  /\ UNCHANGED <<balance, cmd, at, cursor, merged, pool, calm>>

Scanned ==
  /\ at = "scan" /\ \A d \in Directions : scan[d].from > Latest
  /\ at' = "balances"
  /\ pool' = Pool(SetToSeq(found))
  /\ UNCHANGED <<balance, cmd, cursor, merged, scan, found, calm>>

\* A token whose balance cannot be read is left out.
ReadBalance(i) ==
  /\ at = "balances" /\ i \in pool.busy
  /\ LET t == pool.values[i]
     IN \/ /\ pool' = Mapped(pool, i, IF balance[t] > 0 THEN Entry(t) ELSE Null)
           /\ UNCHANGED calm
        \/ pool' = Mapped(pool, i, Null) /\ calm' = FALSE
  /\ UNCHANGED <<balance, cmd, at, cursor, merged, scan, found>>

AllRead ==
  /\ at = "balances" /\ pool.busy = {}
  /\ at' = "metadata"
  /\ pool' = Pool(Normalized(ToSet(Results)))
  /\ UNCHANGED <<balance, cmd, cursor, merged, scan, found, calm>>

\* So is one that does not tell its symbol and its decimals.
ReadMetadata(i) ==
  /\ at = "metadata" /\ i \in pool.busy
  /\ \/ pool' = Mapped(pool, i, pool.values[i]) /\ UNCHANGED calm
     \/ pool' = Mapped(pool, i, Null) /\ calm' = FALSE
  /\ UNCHANGED <<balance, cmd, at, cursor, merged, scan, found>>

-----------------------------------------------------------------------------
(* The pages                                                               *)

\* The loop over the pages, with the items and the total of one.
Page(items, total) ==
  LET nextOffset == cursor + Len(items)
  IN  /\ merged' = merged \o items
      /\ IF nextOffset < total
         THEN cursor' = nextOffset /\ at' = "handle"
         ELSE UNCHANGED cursor /\ at' = "done"

\* Mutant: the end of the slice does not move on.
SliceToSize(list, offset, size) == SubSeq(list, offset + 1, Least(size, Len(list)))

Slice(list, offset, size) == SubSeq(list, offset + 1, Least(offset + size, Len(list)))

\* sliceItemsWithCursor.  Without a page size it is the length of the list, and
\* an empty list is refused.
Listed ==
  /\ at = "metadata" /\ pool.busy = {}
  /\ LET size == IF cmd.size = Null THEN Len(Results) ELSE cmd.size
     IN IF size > 0
        THEN Page(Slice(Results, cursor, size), Len(Results))
        ELSE at' = "failed" /\ UNCHANGED <<cursor, merged>>
  /\ UNCHANGED <<balance, cmd, scan, found, pool, calm>>

PageSize == IF cmd.size = Null THEN DefaultPageSize ELSE cmd.size

AskPortal ==
  /\ at = "handle" /\ cmd.id = "app.list"
  /\ at' = "portal"
  /\ UNCHANGED <<balance, cmd, cursor, merged, scan, found, pool, calm>>

\* What the page of the portal has from the cursor on.
FromCursor(page) == SubSeq(page, (cursor % PageSize) + 1, Len(page))

\* The portal answers with the page that has the cursor in it, or with a part of
\* the page, which counts as a failure of it.
PortalAnswers ==
  /\ at = "portal"
  /\ LET first == (cursor \div PageSize) * PageSize
         page == Slice(Apps, first, PageSize)
     IN \E n \in 0..Len(page) :
          /\ Page(FromCursor(SubSeq(page, 1, n)), Len(Apps))
          /\ calm' = (calm /\ n = Len(page))
  /\ UNCHANGED <<balance, cmd, scan, found, pool>>

\* The schema of the request has a string for the app; the tool takes a positive
\* integer.
AppIdIsString == cmd.appId = "string"
AppIdIsPositiveInt == cmd.appId = "number"

\* The handler passes no cursor on, and the streams come without one.
AskStreams ==
  /\ at = "handle" /\ cmd.id = "portal.streams.list"
  /\ at' = IF AppIdIsString /\ AppIdIsPositiveInt THEN "done" ELSE "refused"
  /\ UNCHANGED <<balance, cmd, cursor, merged, scan, found, pool, calm>>

Fail ==
  /\ at \in {"handle", "scan", "balances", "metadata", "portal"}
  /\ at' = "failed"
  /\ UNCHANGED <<balance, cmd, cursor, merged, scan, found, pool, calm>>

\* The account gets or spends a token.
Move(t, v) ==
  /\ at \notin {"done", "failed"} /\ cmd.id = "wallet.tokens.list"
  /\ v # balance[t]
  /\ balance' = [balance EXCEPT ![t] = v]
  /\ calm' = FALSE
  /\ UNCHANGED <<cmd, at, cursor, merged, scan, found, pool>>

Next ==
  \/ AskBalances \/ Scanned \/ AllRead \/ Listed
  \/ AskPortal \/ PortalAnswers \/ AskStreams \/ Fail
  \/ \E d \in Directions : ReadLogs(d)
  \/ \E i \in DOMAIN pool.values : ReadBalance(i) \/ ReadMetadata(i)
  \/ \E t \in Tokens, v \in 0..MaxBalance : Move(t, v)

Spec == Init /\ [][Next]_vars

-----------------------------------------------------------------------------
(* Properties                                                              *)

Rank(t) ==
  Cardinality({u \in Held : balance[u] > balance[t] \/ (balance[u] = balance[t] /\ u < t)})

\* pageAll: the pages together are the whole list from the cursor on, in its
\* order and each item once, if it has stayed the same and every read has
\* succeeded: whatever the ranges in which the logs are read, the order in which
\* the workers get their answers, and the size and offset of the pages.
PagesComplete ==
  at = "done" /\ calm =>
    IF cmd.id = "app.list" THEN merged = SubSeq(Apps, cmd.cursor + 1, Len(Apps))
    ELSE /\ Len(merged) = IF cmd.cursor < Cardinality(Held)
                          THEN Cardinality(Held) - cmd.cursor ELSE 0
         /\ \A i \in DOMAIN merged :
              /\ merged[i].token \in Held
              /\ Rank(merged[i].token) = cmd.cursor + i - 1

\* "Browse streams for one app with `agw portal streams list --json
\* '{"appId":"183", ...}'`" (SKILL.md): an app's id as documented is not refused.
StreamsAreListed ==
  cmd.id = "portal.streams.list" /\ cmd.appId = "string" => at # "refused"

\* A part of a page of the portal with nothing from the cursor on, while the total
\* is larger: the cursor of the next page is the same, and so is what is asked for.
StandsStill == at = "portal" /\ ~calm' /\ cursor' = cursor /\ merged' = merged

\* The loop over the pages: each that has a next one moves the cursor forward, the
\* account may change and reads may fail meanwhile; or it stands still.
PageAdvances ==
  at' = "handle" /\ at # "handle" => cursor' > cursor \/ StandsStill

\* The scan goes on to new blocks, or asks for fewer of them, down to a size at
\* which it gives up, and never asks for a block again that it has read.
ScanAdvances ==
  at = "scan" /\ at' = "scan" =>
    \A d \in Directions :
      \/ scan'[d] = scan[d]
      \/ scan'[d].from > scan[d].from /\ scan'[d].chunk = scan[d].chunk
      \/ /\ scan'[d].from = scan[d].from
         /\ scan'[d].chunk < scan[d].chunk /\ scan'[d].chunk >= MinChunk

\* Each turn of the two loops of a list comes nearer to its end, whatever changes
\* and fails meanwhile, but for one: where the portal sends a part of a page that
\* has nothing from the cursor on, the loop over the pages stands still, and goes
\* on for as long as the portal does so.  No balance that changes, no read that
\* fails and no range that is refused is a cause of that, nor is a part of a page
\* that reaches the cursor.
ListAdvances == [][PageAdvances /\ ScanAdvances]_vars
=============================================================================
