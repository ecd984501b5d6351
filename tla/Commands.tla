------------------------------ MODULE Commands ------------------------------
(***************************************************************************)
(* The commands of agw: executeCommand, and the handlers and tools of those *)
(* that sign.  Each has a session manager of its own, on the device on     *)
(* which bootstraps and revokes run; it loads the session when it starts,  *)
(* and reads the key when it signs.                                        *)
(***************************************************************************)
EXTENDS AuthSession, Registry

CONSTANTS
  Callers,       \* the commands
  Inputs,        \* the command lines and payloads that they get
  EnabledTools   \* signer -> the tools that the policy of its session enables

VARIABLES
  stage,   \* where each command is
  held     \* what it holds

cvars == <<stage, held>>

\* asked is whether its caller wants anything but a preview; the key is the one
\* it has signed with.
NoCommand == [tool |-> None, asked |-> FALSE, session |-> Missing, key |-> None]

CInit ==
  /\ Init
  /\ stage = [c \in Callers |-> "idle"]
  /\ held = [c \in Callers |-> NoCommand]

-----------------------------------------------------------------------------
(* executeHandler.  An input is [id, via, dryRun, flag, pageAll, payload,   *)
(* view]: the command, how it is reached, its options, the field execute   *)
(* of the payload, which is also "other" if it is not a boolean, and       *)
(* whether the function that contract.write is given only reads.           *)

\* What normalizeExecuteFlag refuses.
Contradicts(i) ==
  \/ i.dryRun /\ i.flag = "yes"
  \/ i.payload = "other"
  \/ i.dryRun /\ i.payload = "yes"
  \/ i.flag # "unset" /\ i.payload # "unset" /\ i.flag # i.payload

\* validateInputAgainstSchema, and the check of pageAll.
Accepted(i, d) ==
  /\ Reaches(i.via, d, i) /\ Handled(d)
  /\ d.mutation.execution => ~Contradicts(i)
  /\ "execute" \in d.takes => i.payload # "other"
  /\ i.pageAll => d.paged

\* The field execute that the handler gets: of a command that only reads, as it is.
Executes(i, d) ==
  IF d.mutation.execution /\ i.flag # "unset" THEN i.flag = "yes"
  ELSE /\ d.mutation.execution => ~i.dryRun
       /\ i.payload = "yes"

\* What a reader of the command line and the payload would say.
Asked(i) == ~i.dryRun /\ (i.flag = "yes" \/ i.payload = "yes")

-----------------------------------------------------------------------------
(* SessionManager                                                          *)

\* A file that does not parse is no session; an active one needs its key file.
Loaded ==
  IF \/ session.status \in {"missing", "torn"}
     \/ key = None /\ session.status = "active"
  THEN Missing ELSE session

Active(s) == s.status = "active"
WriteReady(s) == Active(s) /\ s.signer # None

\* assertToolAllowedByPolicyMeta: without a session nothing is refused here.
Allowed(s, tool) == s.signer # None => tool \in EnabledTools[s.signer]

-----------------------------------------------------------------------------
(* The tools, as far as they go on to sign                                 *)

SendTransaction(s, execute) == Allowed(s, "send_transaction") /\ Active(s) /\ execute
SendCalls(s, execute) == Allowed(s, "send_calls") /\ Active(s) /\ execute
TransferToken(s, execute) == Allowed(s, "transfer_token") /\ Active(s) /\ execute
DeployContract(s, execute) == Allowed(s, "deploy_contract") /\ Active(s) /\ execute
SignMessage(s) == Allowed(s, "sign_message") /\ Active(s)
SignTransaction(s) == Allowed(s, "sign_transaction") /\ Active(s)

\* A function that only reads is answered without the session's signer.
WriteContract(s, view) == Allowed(s, "write_contract") /\ Active(s) /\ ~view

\* These handlers answer a preview themselves.
TxSignMessage(s, execute) ==
  Active(s) /\ Allowed(s, "sign_message") /\ execute /\ SignMessage(s)
TxSignTransaction(s, execute) ==
  Active(s) /\ Allowed(s, "sign_transaction") /\ execute /\ SignTransaction(s)
ContractWrite(s, execute, view) ==
  Active(s) /\ Allowed(s, "write_contract") /\ execute /\ WriteContract(s, view)

Tools ==
  {"send_transaction", "send_calls", "transfer_token", "sign_message", "sign_transaction",
   "deploy_contract", "write_contract"}

\* commandHandlers, with the tool by which each goes on to sign.
Signs(id, tool, s, execute, view) ==
  \/ id = "tx.send" /\ tool = "send_transaction" /\ SendTransaction(s, execute)
  \/ id = "tx.calls" /\ tool = "send_calls" /\ SendCalls(s, execute)
  \/ id = "tx.transfer-token" /\ tool = "transfer_token" /\ TransferToken(s, execute)
  \/ id = "contract.deploy" /\ tool = "deploy_contract" /\ DeployContract(s, execute)
  \/ id = "tx.sign-message" /\ tool = "sign_message" /\ TxSignMessage(s, execute)
  \/ id = "tx.sign-transaction" /\ tool = "sign_transaction" /\ TxSignTransaction(s, execute)
  \/ id = "contract.write" /\ tool = "write_contract" /\ ContractWrite(s, execute, view)

\* Those that start a bootstrap or a revoke, which are in AuthSession.
Opens(id, s, execute) ==
  \/ id = "auth.init" /\ execute
  \/ id = "auth.revoke" /\ s.status # "missing" /\ execute

-----------------------------------------------------------------------------
\* executeCommand, up to the first await: it has a client made for the session it
\* has loaded, asks the hosted app, or answers with no more than a preview.
Start(c, i) ==
  /\ stage[c] = "idle"
  /\ LET accepted == {d \in commandRegistry : d.id = i.id /\ Accepted(i, d)}
         signing ==
           {tool \in Tools : \E d \in accepted :
              Signs(d.id, tool, Loaded, Executes(i, d), i.view) /\ WriteReady(Loaded)}
         opens == \E d \in accepted : Opens(d.id, Loaded, Executes(i, d))
         with(tool) == [tool |-> tool, asked |-> Asked(i), session |-> Loaded, key |-> None]
     IN \/ \E tool \in signing :
             /\ held' = [held EXCEPT ![c] = with(tool)]
             /\ stage' = [stage EXCEPT ![c] = "signing"]
        \/ /\ opens
           /\ held' = [held EXCEPT ![c] = with(None)]
           /\ stage' = [stage EXCEPT ![c] = "opened"]
        \/ /\ signing = {} /\ ~opens
           /\ stage' = [stage EXCEPT ![c] = "ended"]
           /\ UNCHANGED held
  /\ UNCHANGED vars

\* PrivyWalletClient.rpc: the wallet is that of the session, the key is read when
\* it is needed first; without one that parses, and whenever a request fails, the
\* command throws.
Sign(c) ==
  /\ stage[c] = "signing"
  /\ \/ /\ key \in Keys
        /\ held' = [held EXCEPT ![c].key = key]
        /\ stage' = [stage EXCEPT ![c] = "signed"]
     \/ /\ stage' = [stage EXCEPT ![c] = "ended"]
        /\ UNCHANGED held
  /\ UNCHANGED vars

\* The service answers.
Answer(c) ==
  /\ stage[c] = "signed"
  /\ held' = [held EXCEPT ![c] = NoCommand]
  /\ stage' = [stage EXCEPT ![c] = "ended"]
  /\ UNCHANGED vars

CommandStep(c) == Sign(c) \/ Answer(c)

CNext ==
  \/ Next /\ UNCHANGED cvars
  \/ \E c \in Callers : (\E i \in Inputs : Start(c, i)) \/ CommandStep(c)

CSpec == CInit /\ [][CNext]_<<vars, cvars>>

-----------------------------------------------------------------------------
(* Properties                                                              *)

\* "Default to preview mode": nothing is signed, and no flow of the hosted app is
\* opened, for a caller who has not asked for it or has asked for a dry run, in
\* whatever way command line, MCP server, options and payload are combined; and
\* nothing is signed that the session does not enable.
PreviewsFirst ==
  \A c \in Callers :
    /\ stage[c] \in {"signing", "signed", "opened"} => held[c].asked
    /\ stage[c] \in {"signing", "signed"} =>
         held[c].tool \in EnabledTools[held[c].session.signer]

\* The wallet for which a key was approved.
WalletOf(k) == IF k = Earlier THEN EarlierWallet ELSE mem[k].approved

\* As long as nothing is revoked, a command that signs for the wallet of the session
\* it has loaded does so with a key that this wallet has registered, whatever is
\* replaced or put back while it runs, and whatever of it fails; except beside an
\* init for another wallet, which may have replaced the key since: then it signs
\* with the key of that init, which that other wallet has registered.
SignsRegistered ==
  NoRevoke =>
    \A c \in Callers :
      LET k == held[c].key
          s == held[c].session
          overtaken == k # s.signer /\ WalletOf(k) # s.wallet
      IN  k # None =>
            \/ <<s.wallet, k>> \in registered
            \/ overtaken /\ <<WalletOf(k), k>> \in registered
=============================================================================
