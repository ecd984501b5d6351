# A formal model of abstract-packages

TLA+ modules, TLC configurations and TLAPS proofs for the parts of this
repository that keep state and run concurrently. Paths without a prefix are
below `src/packages/`. `PROJECT.json` holds, for each definition, the lines it
is translated from, and for each property a mutant of the code's model that
breaks it.

To check a run: `tlc -config <cfg> <MC module>`; to check the proofs of a
module: `tlapm <module>`.

## 1. Inventory

| Component | Source | State | Operations | Hard behaviour |
|---|---|---|---|---|
| Escrow contract | `contracts/src/AbstractStreamChannel.sol` | channel records; token ledgers | `open settle topUp requestClose close withdraw` | two parties that race on the chain; grace period; uint128; reuse of an id |
| Channel store (server) | `mpp/src/server/session.ts:64-110` | a key-value store, a lock per key | `getChannel updateChannel` | read-modify-write over an asynchronous store that may fail |
| Session method (server) | `mpp/src/server/session.ts` | the `ChannelState` of each channel | `verify` of open, topUp, voucher, close | concurrent and replayed requests, stale reads, restarts, a chain that moves |
| Session method (client) | `mpp/src/client/session.ts` | a map from payee to its channel and running sum | `createCredential` | concurrent calls, failures between approve, open, read, confirm and sign |
| Charge method | `mpp/src/server/charge.ts`, `mpp/src/client/charge.ts` | cache of token domains; the nonces of the token | `createCredential`, `verify` | retries after the payment has landed, lost receipts, restarts |
| Wallet SDK | `wallet-sdk/src/core/{Wallet,Dialog,Messenger}.ts` | the active dialog, pending requests, queues of the bridge | `request`, mode switches, dialogs' events, `destroy` | messages of windows that are gone, popups closed or blocked, awaits in `dispatch` |
| Auth and session storage | `agw-core/src/{auth,session}` | lock file, key file, `session.json`; a callback server per flow | `auth init`, `auth revoke`, `load` with the migration of a predecessor's directory | processes that share files, die, and recover stale locks; callbacks that are late, repeated, or of another wallet |
| Audit log | `agw-core/src/audit/log.ts` | a write queue; rotated files | `append`, `flush` | several processes rotate the same files |
| Privy client | `agw-core/src/privy` | a cached promise of its configuration, the key once read | signed RPC | a key that is read later than the session |
| Executor, registry, MCP server | `agw-core/src/executor.ts`, `agw-core/src/{execution,registry}`, `agw-core/src/mcp-server.ts` | none between commands | `executeCommand` | the loop over pages; what counts as a request to execute |
| Policy, session guard | `agw-core/src/policy/meta.ts`, `agw-core/src/execution/context.ts` | none | checks | the session may be replaced after the check |
| Tools | `agw-core/src/tools` | none | sign, send, deploy; list tokens and apps | log ranges that are refused, workers that share a list, a list made anew for each page |
| Session keys | `agw-client/src/sessions.ts`, `agw-client/src/sessionValidator.ts`, `agw-client/src/actions/*ession*` | none; the account's modules on the chain | create, revoke, use a session | periods of allowances; module added twice; a registry that changes |
| Transactions | `agw-client/src/actions` | the nonce manager; deployment on the chain | prepare, sign, send, batch, deploy | deployment read before it is used; nonces of requests in flight |
| Provider, typed data | `agw-client/src/transformEIP1193Provider.ts`, `agw-client/src/getAgwTypedSignature.ts` | none | JSON-RPC routing, signatures | account, network and deployment change while a request is handled |
| Hooks and adapters | `agw-react`, `agw-web`, `agw-thirdweb`, `web3-react-agw` | that of wagmi, Privy, React Query | hooks, connectors | none of their own |
| CLI, examples, UI | `agw-cli`, `agw-example-ui`, `examples` | none | argument parsing, demonstrations | none |

How they interact. The session client opens a channel in the contract and signs
vouchers over it; the session server reads the contract, checks vouchers and,
when the client asks it to, closes the channel in the contract. Client and
server exchange only the credentials of HTTP requests. The charge method does
the same with one authorization of an ERC-3009 token instead of a channel. The
wallet SDK talks to a wallet host in an iframe or a popup by posted messages.
The commands of agw-core share a directory of files and nothing else; those that
sign read the session and the key that `auth init` has put there, and use an
agw-client. The requests of an agw-client share the chain and, if the account has
one, a nonce manager.

What makes each correct: the contract neither loses nor invents money and lets
both parties out; the store makes updates atomic; the server holds what it can
collect, and collects what it counted; the client commits the payer to what its
requests cost and no more; a charge succeeds once and only when paid; one dialog
is alive and each request is answered; a device holds one session with its key,
and a revoked one is gone; a command signs only when it was asked to, with a key
that its wallet has registered, and lists everything once; whatever an agw-client sends is
done by the wallet, with a nonce of its own, and creates, by a call that it
recognises, no session that the registry does not allow; and an app's provider acts as the account that the app has
named. The hazards of `PROJECT.json` say where each of these
could go wrong, with the line.

## 2. Modules and the code

| Module | Models | Composes |
|---|---|---|
| `StreamChannel` | the contract, the tokens' ledgers, signatures, time | |
| `IdealChannel` | what an escrow promises: a pot per channel, with what was put in, paid out and authorised | implemented by `StreamChannel` |
| `Sums` | no part of the code: 19 lemmas on sums, folds and ordered lists over finite sets | |
| `StreamChannelProofs` | 7 theorems | `Sums` |
| `ChannelStore` | `channelStoreFromStore`, step by step | |
| `AtomicStore` | an update as one step | implemented by `ChannelStore` |
| `SessionServer` | `verify()` of the session method | `StreamChannel` as the chain; `AtomicStore`'s atomicity, through `Revise` |
| `SessionClient` | `createCredential()` of the session method | |
| `SessionPayments` | client, server and contract, with credentials that are lost, overtaken and presented again | `SessionClient`, `SessionServer` with its `StreamChannel` |
| `SessionServerProofs` | 6 theorems, on `SessionServer` and on `ChannelStore` | |
| `SessionClientProofs` | 6 theorems, on `SessionClient` and on `SessionPayments` | `Sums` |
| `Charge` | both sides of the charge method and the token | |
| `ChargeProofs` | 3 theorems | |
| `WalletSdk` | wallet, dialogs and bridge | |
| `WalletSdkProofs` | 2 theorems | |
| `AuthSession` | lock, key and session files; init and revoke | |
| `Handoff` | the callback servers of flows, their tokens, clocks and pages | |
| `Migration` | how a command loads its session, from agw's directory or its predecessor's | `AuthSession`, which goes on after it |
| `Registry` | the commands and their contracts, namespace by namespace | |
| `Commands` | `executeCommand` up to the signature: flags, session, policy, key | `Registry`, and `AuthSession`, whose bootstraps and revokes go on |
| `TokenList` | `wallet tokens list` and `app list` with all pages; `portal streams list` up to its refusal | |
| `SessionKeys` | policies, limits, period ids; what the registry is asked | |
| `AgwChain` | what the factory, the accounts and the validator do (external) | |
| `AgwClient` | the requests of a client, from entry point to receipt | `AgwChain`, `SessionKeys` |
| `Provider` | an app's EIP-1193 provider, message signatures included | |
| `AgwCoreProofs` | 14 theorems, on `AuthSession`, `Commands`, `Migration`, `TokenList` and `Handoff` | `Sums` |
| `AgwClientProofs` | 6 theorems, on `AgwClient` and `Provider` | `Sums` |
| `MC*` | the values and symmetries for TLC | the module of the same name; `MCSessionClient` takes `SessionPayments`, `MCAgwCore` takes `Commands`, `Migration`, `TokenList` and `Handoff`, `MCAgwClient` takes `AgwClient` and `Provider` |

State and actions:

- **StreamChannel.** `channels` is the mapping of the contract, `balance` the
  ledgers of the tokens. `vouchers` is the set of signatures that exist: whoever
  signs adds one, and anybody may present it. `deposited`, `paid` and
  `refunded` are what the contract's events add up to, and `notice` when a close
  was last requested; no action reads them. One action per external function,
  with all its `require`s as guards, plus `SignVoucher` and `Tick`. A channel id
  is the record of the parameters that are hashed.
- **ChannelStore.** One process per call of `updateChannel`, with a step for each
  await: `Lock` (the loop over `locks.has`), `Get`, `Put` (the update function,
  then the write), `Release` (the `finally` block). Each store call may throw.
  A record is abstracted to the set of updates that it has gone through.
- **SessionServer.** `req` holds, per call of `verify`, how far it is and what it
  has read; `store` the records. Each handler is cut where it awaits something
  that others can change: a read of the store, a read of the chain, the locked
  update. The update function sees the record of that moment. The payer, the
  operator and time act on the chain in between (`World`), `Restart` drops the
  calls in flight, and the records too if the store is one of memory.
- **SessionClient.** A call is its own channel (each open draws a random salt), so
  `current` is the entry of the map and `cumulative` the sums of all entries ever
  made. A step per await of `createCredential`; each of them may fail (`Fail`).
- **Charge.** An authorization is known by its nonce; `used` and `paid` are the
  token's. The domain that is hashed is right or wrong in its name and its
  version. A transaction outlives the call that sent it (`MineLost`).
- **WalletSdk.** A dialog is an entry of `dialogs`, with its kind, whether it is
  alive, open, ready, and what is queued in its bridge; `setting` is the dialog
  option of the dApp, and what the browser lets it do; `inbox` is the page's
  queue of posted messages, which keeps what destroyed windows have posted. The
  host, the user and the browser are the environment.
- **AuthSession.** A process per command, a step per call of the file system. A
  process is also the key it generates. `Die` is a kill, or one of the exceptions
  of `bootstrap.ts` between its lock and its try block, which end the command
  with its lock left behind. `registered` has the signers of each wallet, which
  the hosted app changes. An init is approved for any wallet (`Approve`), since
  `bootstrap.ts:92-121` does not compare it with that of the session in place; a
  revoke, for that of its session only.
- **SessionPayments.** A step of client or server is a step of both only where
  they touch: the opening transaction is `open` of the contract, a signature is a
  voucher that exists, `Present` hands a credential of the client to `verify()`.
  `JointNext` presents each credential once or never, in any order, and lets both
  sides fail and restart; in `InTurn` a request is answered before the next, and
  credentials may be presented again.
- **Handoff.** `stage` is where a flow is, `server` its callback server, `tokens` what
  the hosted app has signed, `delegated` the signers of each wallet. A token is sent
  to any server, once or again, and approved with any wallet; `Tick` moves the
  device's clock, and the app's is `ahead` of it by a constant. A promise that is
  settled is continued before anything else (`Continuing`), as the event loop does.
- **Migration.** A step per call of the file system in `load` and
  `migrateLegacySession`, which hold no lock. `copyFileSync` is two steps, with a key
  in between that is not whole. `Break` ends a command anywhere.
- **Registry.** One operator per namespace, with what the executor, the command line
  and the MCP server look at: mutation, pagination, exposure, the fields of the
  request that have a meaning to the executor.
- **Commands.** A caller is one command with a session manager of its own, reached by
  the command line, the MCP server or the API. `Start` is everything before the first
  await: the schema, `normalizeExecuteFlag`, the handler, the tool's checks. It ends
  in a preview or a refusal, goes on to sign, or opens a bootstrap or a revoke, whose
  steps are those of AuthSession; `Sign` the first request to the signer, for the wallet
  of the session that `Start` has loaded, with the key that lies there by then. What cannot be told apart by the properties (which transaction,
  which ABI) is left out.
- **TokenList.** One command, page after page; each page makes the list anew.
  The two scans of the logs and the workers of `mapWithConcurrency` interleave;
  every read may fail, and `calm` remembers whether one has, or a balance moved.
- **SessionKeys.** Operators, from the code of the same names.
- **AgwClient.** `req` is what a request holds, `pc` the await it is at, `outcome`
  what became of its transaction. `Begin` and `BeginSession` are the entry points,
  each later action an await. `nonces` is the chain's, `manager` the nonce
  manager's. `seen` remembers which sessions the registry has allowed since the
  request began; no action reads it. `Mine` and `Drop` are the chain, which
  validates an account's transaction before it executes it.
- **Provider.** One request at a time, since the handler keeps nothing between them;
  `at` is its await. `selected` and `network` are the injected wallet's, `hasCode` says
  which AGWs are deployed on which chain. `steady` remembers whether the app has named
  the account selected, and nothing was moved since; no action reads it.

## 3. Runs

Several properties hold only for an environment that behaves: a client that waits
for each answer, a payee that is diligent, RPC calls that answer. Such a property
is stated in the `MC` module, whose own variable (`diligent`, `serial`,
`reliable`, `mode`, `part`) chooses at the start of a behaviour between the restricted
next-state relation of the component (`DiligentNext`, `SerialNext`, `InTurn`,
`ReliableNext`) and the whole of it. Other conditions are facts of the state, and
part of the property: `NobodyDied` of AuthSession, say. So one run checks both
kinds of behaviours. Three runs have parts that are different systems: `client` has
the client alone and the composition, `agw` the requests of a client and the provider,
`agw_core` the bootstraps, the commands that sign, those that migrate, those that
list, and the callbacks.

| Run | Shows | Bounds |
|---|---|---|
| `channel` | `Solvency` (the escrow holds what all open channels are owed), `PaidIsSigned`, `FundsAccounted`; `PayerGetsOut`: a payer that keeps asking gets its channel ended; `DiligentPayeeIsPaid`: a payee that acts within the grace period has what was signed to it when a channel ends; `ImplementsIdeal` | two channels of one payer and payee, one with a delegated signer; amounts up to 2, so that a sum can overflow; grace 1 of 3 time units; 2 vouchers |
| `store` | `IsAtomic`, `EveryCallEnds` | three updates of one channel, one of another |
| `server` | `VoucherCollectable`, `FinalizedOnChain`; when `serial`, `CloseCollectsSpent`, `SerialAccumulates` | one channel, 3 requests in flight at once, amounts up to 3, restarts with and without the store |
| `client` | `NeverOvercommitted`, `EachPaysItsOwn`; together with server and contract, `NeverOvercharged`: what the server counts on a channel is never more than what the client has signed, however credentials overtake each other, are lost, and either side forgets; in turn, `OpensOnce`, and `ServedInTurn`: the server refuses nothing within the deposit | 3 calls, 4 presentations, prices 1 and 2 alone and 1 together, funds for two channels of 2 |
| `charge` | `SuccessIsPaidOnce`; when `reliable`, `ReliablyAnswered` | 3 calls that may share an authorization, 2 prices, a clock that expires it |
| `wallet` | `OneLive`: no dialog but the active one is alive, for each dialog option, with popups that may be blocked; when `serial`, one request at a time, no race between host and page, no blocked popup, `Settles`: each request is resolved or rejected, unless it is pending in an iframe that the user has hidden with Escape | 2 requests, 5 dialogs, 2 messages under way; 4 and 1 when serial |
| `agw_core` | `LockExcludes` while nobody has died; `FailedChangesNothing` and `StaysPaired` while moreover nobody has revoked; `SignerIsRegistered` until somebody revokes; when serial, `RevokedForGood` and `OnlyItsKey` | 3 bootstraps and revokes, that die, time out and fail at each step |
| | `PreviewsFirst`: what is signed or opened, somebody has asked for; `SignsRegistered` until somebody revokes: a command signs with a key that the wallet of its session has registered, or beside an init for another wallet with the key of that one | 1 command: `tx.sign-message` in each way with all combinations of flags, payload and pages, every command of the registry with and without its flag, and a function that only reads; at most 2 bootstraps or revokes, each approved for one of 2 wallets |
| | `MigratesWhole`: commands that load at once, of which any may die, all get the session of the predecessor; its key is whole unless one dies beside another; a revoke after it is final | 3 commands at once that load again and again; one after the other with at most 2 bootstraps or revokes after them |
| | `PagesComplete` while nothing changes and no read fails; `ListAdvances`: each page and each scan comes nearer to its end, except a page of the portal that has nothing from the cursor on while the total is larger | 3 tokens in 6 blocks whose balances change once, ranges down to 2 blocks, 2 workers, 5 apps, pages of 1, 2, 3 |
| | `TrueOfTheWallet`: what a flow reports is true of the wallet; `ReceivedCounts`: a page that was told "Session received" in time was not told so in vain | 2 flows, 2 wallets, 2 chains, an app whose clock is behind (3 time units), ahead as much as is allowed (2 time units), or more (one flow, whose token is not accepted at once) |
| `agw` | `NoncesInOrder` with a nonce manager; `ByTheWallet`; `CheckedSessions`: no session is created that the registry has not allowed, except by a call that the code does not recognise (below); when serial, `SerialSucceeds`: nothing is refused, reverted or dropped that the chain could have granted | 2 requests of 11 kinds, among them a `to` in another spelling and a batch in a batch, 3 sessions (one with an unconstrained approval), a wallet that is new, deployed, or has a session, 2 time units |
| | `ActsAsNamed`: a batch of calls is sent by the AGW that it names or not at all; as long as the user changes nothing, so is all else, and message signatures verify before and after the deployment | every request with every kind of address, chain and version; 2 signers, 3 networks, 1 AGW that is deployed |

Each bound is a constant of the cfg. Why these are enough: the hazards are races
of two, seldom three, calls, and no action treats a third call or a larger
amount in another way than a second; amounts need 0, a part, the whole and one
more than the whole; each time bound leaves one unit after the grace period or
the expiry. `CHECK_DEADLOCK FALSE` wherever the system may stop when its bounded
requests are used up; that something must happen is said by the liveness
properties. Symmetry is used only where no liveness is
checked, over calls that are alike until they start; not in `client`, whose
channels have numbers for salts.

Runs that find a disagreement between the code and what it says of itself
(`findings` in `PROJECT.json` quotes both):

| Run | The shortest story |
|---|---|
| `server_highest` | two vouchers in flight; the lower is written last (`server/session.ts:509`) |
| `client_confirmed` | after the user has rejected, the next call signs (`client/session.ts:272`) |
| `agw_core_streams` | the documented listing of an app's streams is always refused: the schema takes the app's id as a string, the tool as a number (`registry/portal.ts:54`, `tools/portal-list-streams.ts:17`) |
| `charge_unanswered` | paid, receipt lost, every retry refused (`server/charge.ts:245`) |

`server`, `client` and `charge` are the other side of these: they show that the same, or a closely related, property holds once the race or
the failure in question is ruled out.

### Known limits of the code

Conditions under which the properties above are stated, because the models reach
a state that breaks them otherwise. No run of their own is kept for these; each
can be reproduced by dropping the condition.

- An open credential that is presented again resets the record to its first
  voucher (`server/session.ts:391`). A voucher that rises by less than the price
  counts in full (`:475`).
- Two first calls at once open two channels (`client/session.ts:201`); the amount
  of a credential is read after its signature over an earlier one (`:319`); a
  reverted open is announced (`:250`); vouchers go on above the deposit (`:302`).
  After a failure or rejection between the open transaction and its credential, a
  known channel has no record at the server, which refuses every voucher over it; the
  client never drops an entry, so this lasts until it restarts (`:201`). Of two
  vouchers in flight, one that is presented again may be counted twice, and one
  that is overtaken is answered without being counted (`server/session.ts:462`).
- A failed read is cached as the token's domain (`server/charge.ts:116`).
- A request that goes back from the popup to the iframe destroys the popup with
  another request pending in it, which is sent nowhere: only `switchMode` sends
  again, `ensureActive` does not (`Wallet.ts:138`, `:158`). Escape, or a click beside
  the iframe, hides it and settles nothing of what is pending in it (`Dialog.ts:274`,
  `:343`): such a request waits until the host answers; with the dialog option
  `popup` a next request destroys the hidden iframe with it (`Wallet.ts:138`). A popup that the user has closed and a request reopens before the poll keeps its
  earlier requests pending (`Dialog.ts:426`); a message of the last window is taken
  for one of this window (`Messenger.ts:241`, `:296`); a popup is opened by a message
  (`Wallet.ts:157`); a request resumes after `destroy()` (`Wallet.ts:226`).
- Two processes that recover one stale lock may both enter
  (`bootstrap-internals.ts:92`); an init that fails restores what a revoke has
  deleted since (`bootstrap.ts:125`); a command that dies while it copies a legacy key
  beside another that has finished leaves a key that is not whole
  (`session/storage.ts:249`), and one that migrates beside a bootstrap may pair the
  key of one with the session of the other; a revoke leaves the predecessor's copy
  of the key, and a `session.json` that does not parse falls back to its session
  (`:273`); a revoke deletes the key of a newer init
  (`session/manager.ts:108`). A command may sign with a newer key than its session's
  (`privy/client.ts:117`): beside an init for another wallet, it signs for the wallet of
  the session it has loaded (`session/manager.ts:135`) with a key that only the other
  wallet has registered.
- A list that changes between two pages skips or repeats an item, since each page
  makes it anew (`execution/handlers/wallet.ts:18`); without a page size an empty
  list throws (`execution/output.ts:35`); `app list` with all pages stands still
  where the portal sends a page with nothing from the cursor on and a larger total, and
  goes on for as long as the portal does so (`executor.ts:179`, `portal-app.ts:164`).
- Two sessions created at once both add the module, and the second reverts
  (`createSession.ts:157`); two first transactions both deploy the account, and the
  second reverts (`prepareTransaction.ts:319`). A nonce that was drawn for a request
  that fails afterwards stays unused, and blocks what follows (`:385`). Policies are
  checked on mainnet only (`sessionValidator.ts:49`), and not those of a session in
  a transaction that deploys the account (`:56`). What creates a session is recognised
  by its `to` as it is written (`:57`, `:185`, `:198`), so it is not checked if `to` is in
  another spelling than that of the constants, nor is `addModule` in a batch if the
  account's address was given in another one (`abstractClient.ts:111`), nor a batch in a
  batch (`:65`). A session client that is used before
  the deployment acts as the account of the session key's own
  (`prepareTransaction.ts:347`). `eth_sendTransaction` of the provider does not
  compare `from` with the wallet it acts for, as `wallet_sendCalls` does
  (`transformEIP1193Provider.ts:187`, `:267`): it, and both ways to sign, act as the
  AGW of whoever is selected by then, for any address that is not spelled as the
  selected signer. Which form a message's signature takes is read on the network of
  the injected wallet (`getAgwTypedSignature.ts:67`), which may be another chain. A
  `wallet_sendCalls` whose version is neither 1.0 nor 2.0.0 says its chain in vain.
- `wallet-sdk/README.md:45` says that an unauthenticated user gets a popup, which
  is the host's decision in the code; the server never calls `settle()`, which
  `mpp/README.md:30` names as one of two ways.

### Fairness

- `PayerIsFair` of StreamChannel: blocks are produced (`Tick`) and the payer's
  `withdraw` is sent again and again. Nothing is asked of the payee. A diligent
  payee settles before time goes on: a restriction of its behaviour, to which the
  fairness of time adds that it acts at all.
- ChannelStore: each call of the store answers or throws, and a promise that is
  resolved wakes its waiters. The waiter that loses the race for the lock waits
  again, so weak fairness of each step is what the event loop gives.
- `Fairness` of WalletSdk: the page takes its messages and its timer fires,
  a promise with an outcome resumes, the host boots and answers. `SerialSpec` says
  who acts when, in its comment.
- AuthSession, Migration, Handoff and Provider have none: their commands go through
  finitely many places, and the wait for the browser ends because `handoff.ts:109` has
  a timeout.
- TokenList and AgwClient have none. `ListAdvances` is a property of steps: the loops of
  a list end since each turn comes nearer to its end, where the portal does not go on
  sending pages with nothing in them. `SerialSucceeds` says what an answer may not be.

## 4. Proofs

All theorems are for every value of the constants, and checked by `tlapm` to the
last leaf. They rest on the named `ASSUME`s only, which TLC evaluates on the runs
of the modules: sets that a sum is taken over are finite, amounts are natural
numbers, `NoAddress` is no account, a salt is drawn once (`PaymentsAssumption`), the
flows are not the signer that is there already (`HandoffAssumption`), and what an
account holds was transferred to it in some block (`ListAssumption`). A theorem about
a property of an `MC` module is one of its `MCSpec`, where the environment that
behaves is a part of its own; the parts' bounds on the number of steps (`TwoStart`
and the like) are not used. Every invariant was checked by TLC
before it was proved.

- **Sums.** `SumFunctionOnSet` is a recursive function on the subsets of its indices.
  The library's induction theorems cannot be used on it, so the lemmas take the least
  size of a counterexample instead (`LeastNatural`): that the recursive function
  exists (`FoldExists`, for any fold of this kind), that an index can be taken out in any
  order (`SumRemove`), and what a sum becomes when one value changes (`SumChange`). The
  same way: a finite set has a list in the order of a relation (`OrderedList`), and the
  place of a member in it is one more than the number of those before it (`RankInList`).
- **StreamChannelProofs.** `Inv` is `TypeOK` with, for each channel, `RecordInv`
  (the record is empty, open or finalized, and in each case agrees with what the
  events add up to) and `VoucherInv` (what was paid is 0 or the amount of a
  voucher that exists). Neither `PaidIsSigned` nor `FundsAccounted` is inductive:
  settle pays a difference, so one has to know that `paid` and `settled` agree,
  and this only while the channel is open. From `Inv` follow `TypeCorrect`,
  `PaidIsAlwaysSigned`, `FundsAlwaysAccounted`, `EndedIsForever` (an action
  property that no run checks, since the ideal escrow has it) and `Refinement`, step
  by step: each function maps to an ideal step or to a stutter. `AlwaysSolvent`: a
  step changes what one channel owes, and the escrow's balance of that token by as
  much; `SumChange` carries this to the sum.
- **SessionServerProofs.** The server checks against records that may be stale, so
  `VoucherCollectable` needs facts that no later step can undo: `ChainGrows` (what
  is deposited, paid, signed or finalized on the chain only grows), and `IInv`, where
  each record, and each call past its checks, is `Backed` by a voucher that exists
  and a deposit that was paid in. `AlwaysFinalizedOnChain` is a part of it. For a
  client that waits, `SerialInv` says that one call is in flight and that what it has
  checked is `StillSo`, which gives `CloseAlwaysCollects` and `SerialAlwaysAccumulates`.
- The store, for any updates of any channels: `LockInv` (who is inside holds the
  lock of its key) gives `Exclusion`; `FreshInv` (what was read is what is stored, until
  it is written) and `OnceInv` make `Put` a step of `AtomicStore`, hence `Atomicity`.
- **SessionClientProofs.** The client alone: `VoucherInv` relates every call that was
  charged, not only the finished ones: two of one channel lie `Apart` by the price
  of the higher, and none is above the entry's sum. `EachAlwaysPaysItsOwn` follows.
  `SumInv` says that the entry is the sum of the prices charged to it
  (`NeverCommitsMore`). `OnceInv`: a call that opens finds no entry and nothing
  funded; an entry is missing beside a funded channel only while its opening call is
  about to register it (`AlwaysOpensOnce`).
- With server and contract: credentials overtake each other, so no record is in order
  with the client's sums. What is inductive is `SpendInv`: what is counted, what the
  requests under way may still count, and what the credentials not yet presented may
  still count, all together, are no more than what was signed. It needs that each
  call has one credential, over its price at least (`CredentialInv`). A credential that
  is presented again would break this sum; in turn, `TurnInv` says instead that the
  highest voucher covers what is counted, and that a request's voucher is above it by
  the price. Both give `NeverTakesMore`.
- `AlwaysServedInTurn` is about an answer, so it needs to know that every check of the
  server passes. `PaysInv` says what a client that waits has opened, charged and
  signed (what it signs is still the entry's sum when it reads it again);
  `FirstInv`, that the credential of an opening call is presented before
  any other of its channel; `OnChainInv`, that the contract has what the client has
  opened; `ServedInv`, that a request is about a credential of the client, a record
  about its channel with one of its vouchers as the highest, and that there is a
  record as soon as the opening credential has been handled. Two vouchers of
  a channel then differ by the price (`Apart`), which is what `verify()` asks.
- **ChargeProofs.** `PaymentInv`: a call that has seen its transfer mined is the
  only one of its nonce, the nonce is used, and its price was paid. For
  `AlwaysAnswered`, `PaidIsAnswered` is itself preserved beside it when nothing fails:
  a nonce that was paid has a call that was or will be answered.
- **WalletSdkProofs.** That one dialog at most has a window is inductive beside the types:
  whatever is done to a dialog touches the active one or one that is open, which is the
  active one, and a new one is made only after the old one is destroyed (`CreatedOne`).
  Nothing is needed of the bridges, nor of who waits for what: `AlwaysOneLive`.
- **AgwCoreProofs**, the files. `LockInv` (who is inside owns the lock file; nobody
  has found a lock old; nobody is about to unlink) holds while nobody has died,
  and gives `Exclusion`; a death is final, so the condition can be carried along.
  `SnapshotInv` says which of the two files still is what the holder of the lock has
  captured, at each place of the flow; with `Exclusion` it gives `AllOrNothing`, and
  `CalmInv`, with the place at which each file has been replaced, `AlwaysPaired`.
  `RegisteredInv` needs no lock at all, and gives `AlwaysRegistered` for processes that
  die anywhere. One after the other, commands may die and leave what they left:
  `TurnInv` says for each place what a process may hold (`FlowsInv`: the key of one
  that has not started is on no file and in no snapshot), and that no file, and no
  snapshot that may still be restored, holds the key or the session of a signer
  once it is revoked for good (`GoneInv`, `NeverComesBack`); with `CalmInv`,
  `DeletesItsOwn`.
- The commands. `OnlyWhenAsked`: the flags decide in the step that also loads
  the session, and nothing later raises them. That no command which the registry
  defines as a reader signs or opens (`ReadersDoNotAct`) goes through the registry
  namespace by namespace, for any inputs. `KeysAreRegistered` rests on
  `RegisteredInv`: every active session, on the device, in a snapshot or in a command,
  is for the wallet for which its signer was approved and registered (`Vouched`), and so
  is every key (`Usable`); an approval is for one wallet and for good (`ApprovedOnce`),
  so both stay so until a revoke. A key of another signer than the session's may then
  be one of another wallet, and that is all (`HeldSigns`). For `AlwaysWhole`, `CopyInv` says what has been copied at each place of
  the migration, `CopyEndsInv` that a torn key has a command that still copies it,
  unless one broke, `CopyAloneInv` that for a command that is alone the key is whole
  before the session is written, even when an earlier one broke, and `RevokedStays`
  that no command is about to bring back a signer that was revoked for good.
- The callbacks. `CallbackInv`: a token says what the app has done for the flow that
  it names (`TokenInv`): a signer that is added is there or has been removed since, and
  one that is removed is added to no wallet again; a flow that has succeeded has a
  token that fits, and a page has been told of the payload that was settled first
  (`ToldInv`). This gives `AlwaysTrueOfTheWallet`, and with the margins of the
  clocks `AlwaysCounts`.
- The lists. `ListInv` says at each place of a command what it has: `ScanInv`, that the
  tokens of all blocks that were read have been found; `BalancesInv`, that each read
  that was answered has the balance of its token, and that there is one for every token,
  in whatever order they are answered; `MetadataInv`, that what is read next is the
  whole list, sorted; `PagesInv`, that the pages so far are the list from the cursor of
  the command to that of the page. An entry's place is its rank (`NormalizedIs`, from
  `RankInList`), and what filters the results keeps their order (`ResultsAre`). Of a
  page, `PageFollows` says that it goes on where the last one ended, and that it is not
  empty unless it is the last; for the portal, that its page holds what lies from the
  cursor to the end of the page is division with a remainder (`PortalIs`). From these
  follow `PagesAreWhole` and `ListGoesOn`; a page of the portal that is not sent whole
  moves the cursor by what it has, or stands still if that is nothing (`StandsStill`).
- **AgwClientProofs.** `TypeCorrect` needs that the pending count exists: of n
  pending transactions and n+1 nonces one is free (`PendingCountType`, by
  cardinalities), and that a transaction has its nonce before it is sent. For
  `ManagerOrders`, `ManagerInv` says that every nonce below the manager's is used or
  was drawn, and every drawn one is below it, which is what makes two in flight
  differ. For `WalletActs`, `Placed` says at each place which call a request holds.
  `Checked` carries, through the look-ups of `CheckPolicies`, that of the sessions in
  the client's sight (`InSight`) what is not left to ask has been allowed at some moment. For `AlwaysAsNamed`, `ServedInv` says
  what the provider has compared by each place, and `SteadyInv` what is still so as long
  as the user has changed nothing.
- `PossibleIsDone` is about a request that is alone. `SerialInv` says that one request at
  most is under way, and that what it has read of the chain and of the clock is still so
  (`Current`). The call of what is `Possible` has an effect, and creates no session that
  the registry does not allow (`PossibleIsMade`), and its transaction is valid
  (`PossibleIsValid`); so no step refuses, reverts or drops it. It also needs that no
  call, whatever its batch, leaves the contracts with a module or a session where no
  account is (`Sound`, `BatchSound`).

Several invariants are conditional on something that cannot be taken back
(`NobodyDied`, `NoRevoke`, `RestoresWork`): they are inductive because the condition
held before each step after which it holds.

Only model-checked is liveness: `PayerGetsOut`, `DiligentPayeeIsPaid`, `EveryCallEnds` and
`Settles`, which are out of the prover's reach. Every other property of a run that passes
is stated by a theorem.

## 5. What is left out

In the modelled components: tokens that take a fee, call back, or are sent to the
escrow without a call; other spenders of the payer's allowance; several chains or
tokens in one domain cache; a close transaction that lands after the process that
sent it has restarted; interleavings below the level of an await; a pid that the
operating system uses again; a file torn by a crash inside one write (a failed write
may tear it, and so may a copy).
Signatures and hashes are perfect. What a wallet host does with a request is
outside the repository.

In AgwClient: fees, paymasters, balances, the cross-app way over Privy
(`sendTransaction.ts:95-135`) and `linkToAgw`; nonce and gas are asked for together in
the code, in this order here; what validates a session on the chain is taken from
what the code computes for it. In Commands and TokenList: the formats of the inputs'
other fields, sanitizing and field selection, the expiry of a policy, the tools that
read one value. `setSession`, `clearSession` and the audit log have no caller in the
repository; the cached configuration and clients of agw-core live for one command.

By lines, most of what is not mapped is data: the ABIs of `agw-client/src/abis` and
`agw-cli`'s response schemas, which have no behaviour; then React hooks and adapters,
whose state is that of wagmi, Privy and React Query, and components of a demonstration.

Components without a module are listed with their reasons in `PROJECT.json`. The
adapters, hooks, command line and examples have no state of their own.

## 6. Plan

1. `linkToAgw` of agw-client, with both chains: the signature of the one that the other
   takes.
2. The parts of the liveness properties that are steps: that each turn of a loop comes
   nearer to its end, as `ListGoesOn` says of the lists, for the store's waiters and for
   the wallet's queue.
