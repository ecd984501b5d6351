------------------------------ MODULE Registry ------------------------------
(***************************************************************************)
(* The commands of agw as the registry defines them, as far as the         *)
(* executor, the command line and the MCP server look at them.             *)
(***************************************************************************)

readMutation == [dryRun |-> FALSE, execution |-> FALSE]
writeMutation == [dryRun |-> TRUE, execution |-> TRUE]

\* paged: supportsPagination and supportsPageAll, which go together; mcp: whether
\* the MCP server offers it; takes: the fields of its request with a meaning of
\* their own to the executor.
Command(id, mutation, paged, mcp, takes) ==
  [id |-> id, mutation |-> mutation, paged |-> paged, mcp |-> mcp, takes |-> takes]

paginationRequest == {"cursor", "pageSize", "pageAll"}

schemaNamespace ==
  {Command("schema.list", readMutation, FALSE, TRUE, {}),
   Command("schema.get", readMutation, FALSE, TRUE, {})}

mcpNamespace == {Command("mcp.serve", readMutation, FALSE, FALSE, {})}

authNamespace ==
  {Command("auth.init", writeMutation, FALSE, FALSE, {"execute"}),
   Command("auth.revoke", writeMutation, FALSE, FALSE, {"execute"})}

sessionNamespace ==
  {Command("session.status", readMutation, FALSE, TRUE, {}),
   Command("session.doctor", readMutation, FALSE, FALSE, {})}

walletNamespace ==
  {Command("wallet.address", readMutation, FALSE, TRUE, {}),
   Command("wallet.balances", readMutation, FALSE, TRUE, {}),
   Command("wallet.tokens.list", readMutation, TRUE, TRUE, paginationRequest)}

\* Mutant: a command that signs is defined as one that reads.
txReads ==
  {Command("tx.preview", readMutation, FALSE, TRUE, {"execute"}),
   Command("tx.send", writeMutation, FALSE, TRUE, {"execute"}),
   Command("tx.calls", writeMutation, FALSE, TRUE, {"execute"}),
   Command("tx.sign-message", readMutation, FALSE, TRUE, {"execute"}),
   Command("tx.sign-transaction", writeMutation, FALSE, TRUE, {"execute"}),
   Command("tx.transfer-token", writeMutation, FALSE, TRUE, {"execute"})}

txNamespace ==
  {Command("tx.preview", readMutation, FALSE, TRUE, {"execute"}),
   Command("tx.send", writeMutation, FALSE, TRUE, {"execute"}),
   Command("tx.calls", writeMutation, FALSE, TRUE, {"execute"}),
   Command("tx.sign-message", writeMutation, FALSE, TRUE, {"execute"}),
   Command("tx.sign-transaction", writeMutation, FALSE, TRUE, {"execute"}),
   Command("tx.transfer-token", writeMutation, FALSE, TRUE, {"execute"})}

contractNamespace ==
  {Command("contract.write", writeMutation, FALSE, TRUE, {"execute"}),
   Command("contract.deploy", writeMutation, FALSE, TRUE, {"execute"})}

portalNamespace ==
  {Command("portal.streams.list", readMutation, TRUE, TRUE, paginationRequest),
   Command("portal.user-profile.get", readMutation, FALSE, TRUE, {})}

appNamespace ==
  {Command("app.list", readMutation, TRUE, TRUE, paginationRequest),
   Command("app.show", readMutation, FALSE, TRUE, {})}

commandRegistry ==
  schemaNamespace \cup mcpNamespace \cup authNamespace \cup sessionNamespace
    \cup walletNamespace \cup txNamespace \cup contractNamespace \cup portalNamespace
    \cup appNamespace

\* The server that `agw mcp serve' runs has no handler: the command line runs it.
Handled(d) == d \notin mcpNamespace

-----------------------------------------------------------------------------
(* The ways to a command.  Its options are [dryRun, flag, pageAll], where  *)
(* flag, the option to execute, is "unset", "yes" or "no".                 *)

\* registerCommands: an option that the command does not support is refused.
OnCommandLine(d, options) ==
  /\ d \notin schemaNamespace \cup mcpNamespace
  /\ options.dryRun => d.mutation.dryRun
  /\ options.flag # "unset" => options.flag = "yes" /\ d.mutation.execution

\* invokeGeneratedMcpTool: without any option.
OverMcp(d, options) == d.mcp /\ ~options.dryRun /\ options.flag = "unset"

\* A program calls executeCommand.
Reaches(via, d, options) ==
  \/ via = "cli" /\ OnCommandLine(d, options)
  \/ via = "mcp" /\ OverMcp(d, options)
  \/ via = "api"
=============================================================================
