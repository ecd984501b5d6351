------------------------------ MODULE Handoff ------------------------------
(***************************************************************************)
(* How a bootstrap or a revoke gets its answer: a server on the loopback   *)
(* interface takes one callback of the browser, whose payload is a token   *)
(* signed by the hosted app.  Flows of several homes run at once, pages    *)
(* are reloaded, left open or opened with the wrong wallet, and the clocks *)
(* of device and app differ.                                               *)
(***************************************************************************)
EXTENDS Integers, FiniteSets

CONSTANTS
  Flows,      \* the flows; also their states, and the keys that inits generate
  Earlier,    \* the session of a device that was set up before
  Wallets, Chains,
  MaxTime,    \* bound of the clock
  Timeout,    \* DEFAULT_CALLBACK_TIMEOUT_MS
  Skew,       \* DEFAULT_CLOCK_SKEW_SECONDS
  Life,       \* how long the app lets a token live
  Aheads,     \* how far the app's clock may be ahead
  None,       \* no flow, no chain
  NoPayload, TooLarge, Broken  \* payloads without a token that verifies and parses

VARIABLES
  now,        \* the device's clock
  ahead,      \* how far the app's clock is ahead of it
  delegated,  \* the signers of each wallet, with the chain of their policy
  tokens,     \* the tokens that the app has signed
  flow,       \* what each flow has asked for
  stage,      \* where it is
  server,     \* its callback server
  told,       \* until it ends, the payloads whose page was told "Session received"
  sessions    \* the sessions that the flows have made

vars == <<now, ahead, delegated, tokens, flow, stage, server, told, sessions>>

-----------------------------------------------------------------------------
NoFlow == [action |-> None, chain |-> None, wallet |-> None, signer |-> None]
Closed == [open |-> FALSE, settled |-> FALSE, payload |-> None, since |-> None]

Session(w, k, c) == [wallet |-> w, signer |-> k, chain |-> c]
BeforeAll == {Session(w, Earlier, c) : w \in Wallets, c \in Chains}

Init ==
  /\ now = 0
  /\ ahead \in Aheads
  /\ \E s \in BeforeAll : delegated = {s} /\ sessions = {s}
  /\ tokens = {}
  /\ flow = [f \in Flows |-> NoFlow]
  /\ stage = [f \in Flows |-> "idle"]
  /\ server = [f \in Flows |-> Closed]
  /\ told = [f \in Flows |-> {}]

Goto(f, there) == stage' = [stage EXCEPT ![f] = there]
world == <<now, ahead, delegated, tokens>>

-----------------------------------------------------------------------------
(* The flows                                                               *)

\* What buildLaunchUrl tells the app, and buildRevokeLaunchUrl.
LaunchInit(f, c) == [action |-> "init", chain |-> c, wallet |-> None, signer |-> f]
LaunchRevoke(s) ==
  [action |-> "revoke", chain |-> s.chain, wallet |-> s.wallet, signer |-> s.signer]

Begin(f) ==
  /\ stage[f] = "idle"
  /\ \/ \E c \in Chains : flow' = [flow EXCEPT ![f] = LaunchInit(f, c)]
     \/ \E s \in sessions : flow' = [flow EXCEPT ![f] = LaunchRevoke(s)]
  /\ Goto(f, "fetching")
  /\ UNCHANGED <<world, server, told, sessions>>

\* resolveCallbackVerificationConfig, then startCallbackServer with its timer.
Listen(f) ==
  /\ stage[f] = "fetching"
  /\ \/ /\ server' = [server EXCEPT ![f] = [Closed EXCEPT !.open = TRUE, !.since = now]]
        /\ Goto(f, "waiting")
     \/ Goto(f, "failed") /\ UNCHANGED server
  /\ UNCHANGED <<world, flow, told, sessions>>

\* verifySignedCallbackToken: what does not verify or parse is Broken.
Fresh(t) == t.iat <= now + Skew /\ t.exp >= now - Skew


\* parseInitSignerBundlePayload and the checks of runBootstrapFlow.
FitsInit(f, t) ==
  /\ t.action = "init" /\ t.state = f
  /\ t.chain = flow[f].chain
  /\ t.signer = f

\* Mutant: the wallet is not compared.
AnyWallet(f, t) ==
  /\ t.action = "revoke" /\ t.state = f
  /\ t.chain = flow[f].chain
  /\ t.signer = flow[f].signer

\* parseRevokeSignerBundlePayload and the checks of runRemoteRevokeFlow; the two
\* addresses are those of the wallet.
FitsRevoke(f, t) ==
  /\ t.action = "revoke" /\ t.state = f
  /\ t.chain = flow[f].chain
  /\ t.wallet = flow[f].wallet
  /\ t.signer = flow[f].signer

Fits(f, t) == IF flow[f].action = "init" THEN FitsInit(f, t) ELSE FitsRevoke(f, t)

\* After waitForPayload, in the turn of the event loop in which it was settled.
Resume(f) ==
  /\ stage[f] = "waiting" /\ server[f].settled
  /\ LET t == server[f].payload
     IN \/ /\ t \in tokens /\ Fresh(t) /\ Fits(f, t)
           /\ Goto(f, "succeeded")
           /\ sessions' = IF flow[f].action = "init"
                          THEN sessions \cup {Session(t.wallet, t.signer, t.chain)}
                          ELSE sessions \ {Session(t.wallet, t.signer, t.chain)}
        \/ /\ ~(t \in tokens /\ Fresh(t) /\ Fits(f, t))
           /\ Goto(f, "failed")
           /\ UNCHANGED sessions
  /\ told' = [told EXCEPT ![f] = {}]
  /\ UNCHANGED <<world, flow, server>>

\* In the finally block; a request that is in the server still is answered.
Close(f) ==
  /\ stage[f] \in {"succeeded", "failed"} /\ server[f].open
  /\ server' = [server EXCEPT ![f] = [Closed EXCEPT !.since = 0]]
  /\ UNCHANGED <<world, flow, stage, told, sessions>>

-----------------------------------------------------------------------------
(* The callback server                                                     *)

\* Mutant: a second callback is not refused.
Unsettled(f, r) ==
  CASE ~r.path -> 404
    [] ~r.get -> 405
    [] r.payload = NoPayload -> 400
    [] r.payload = TooLarge -> 413
    [] r.state # f -> 400
    [] OTHER -> 200

\* What a request to the port of f is answered; its path has a random part.
Status(f, r) ==
  CASE ~r.path -> 404
    [] ~r.get -> 405
    [] server[f].settled -> 409
    [] r.payload = NoPayload -> 400
    [] r.payload = TooLarge -> 413
    [] r.state # f -> 400
    [] OTHER -> 200

Requests ==
  [path: BOOLEAN, get: BOOLEAN, state: Flows \cup {None},
   payload: tokens \cup {NoPayload, TooLarge, Broken}]

Receive(f, r) ==
  /\ server[f].open /\ Status(f, r) = 200
  /\ server' = IF server[f].settled THEN server
               ELSE [server EXCEPT ![f].settled = TRUE, ![f].payload = r.payload]
  /\ told' = [told EXCEPT ![f] = @ \cup {r.payload}]
  /\ UNCHANGED <<world, flow, stage, sessions>>

\* The timer rejects the promise, which ends the flow.
TimeOut(f) ==
  /\ server[f].open /\ ~server[f].settled /\ now - server[f].since >= Timeout
  /\ server' = [server EXCEPT ![f].settled = TRUE]
  /\ Goto(f, "failed")
  /\ told' = [told EXCEPT ![f] = {}]
  /\ UNCHANGED <<world, flow, sessions>>

-----------------------------------------------------------------------------
(* The hosted app, and time                                                *)

\* Someone approves a flow in its page, once, with the wallet they are logged in
\* with and the chain that the page is on: the signer is added to that wallet or
\* removed from it, and a token says so.
Approve(f, w, c) ==
  /\ stage[f] \notin {"idle", "fetching"} /\ server[f].since # None
  /\ \A t \in tokens : t.state # f
  /\ LET k == flow[f].signer
     IN /\ delegated' = IF flow[f].action = "init" THEN delegated \cup {Session(w, k, c)}
                        ELSE delegated \ {Session(w, k, d) : d \in Chains}
        /\ tokens' = tokens \cup
             {[action |-> flow[f].action, state |-> f, chain |-> c, wallet |-> w, signer |-> k,
               iat |-> now + ahead, exp |-> now + ahead + Life]}
  /\ UNCHANGED <<now, ahead, flow, stage, server, told, sessions>>

\* A promise that is settled is continued before anything else happens.
Continuing == \E f \in Flows : stage[f] = "waiting" /\ server[f].settled

\* A timer that is due fires.  Time matters while a server listens.
Due == \E f \in Flows :
  server[f].open /\ ~server[f].settled /\ now - server[f].since > Timeout

Tick ==
  /\ now < MaxTime /\ ~Continuing /\ ~Due
  /\ \E f \in Flows : server[f].open
  /\ now' = now + 1
  /\ UNCHANGED <<ahead, delegated, tokens, flow, stage, server, told, sessions>>

Step(f) == Begin(f) \/ Listen(f) \/ Resume(f) \/ Close(f) \/ TimeOut(f)

Next ==
  \/ \E f \in Flows :
       \/ Step(f)
       \/ \E r \in Requests : Receive(f, r)
       \/ \E w \in Wallets, c \in Chains : Approve(f, w, c)
  \/ Tick

Spec == Init /\ [][Next]_vars

-----------------------------------------------------------------------------
(* Properties                                                              *)

Asked(f, action) == stage[f] = "succeeded" /\ flow[f].action = action

\* runBootstrapFlow and runRemoteRevokeFlow: what a flow reports is true of the
\* wallet.  After an init, its session's wallet has the signer, with a policy for
\* its chain, unless someone has removed it in the app; after a revoke, the
\* wallet of the session has the signer no more: whatever other flows run, and
\* whatever their pages deliver where, and with whatever wallet.
TrueOfTheWallet ==
  /\ \A f \in Flows : Asked(f, "init") =>
       \E w \in Wallets :
         LET s == Session(w, f, flow[f].chain)
         IN \/ s \in delegated
            \/ \E t \in tokens : t.action = "revoke" /\ t.wallet = w /\ t.signer = f
  /\ \A f \in Flows : Asked(f, "revoke") =>
       Session(flow[f].wallet, flow[f].signer, flow[f].chain) \notin delegated

\* The app's answer to f, for what f has asked, by clocks that differ by no more
\* than the skew, and while the app lets it live.
Honest(f, t) ==
  /\ t \in tokens /\ t.state = f /\ t.chain = flow[f].chain
  /\ flow[f].action = "revoke" => t.wallet = flow[f].wallet
  /\ ahead \in -Skew..Skew /\ now + ahead <= t.exp

\* "Session received. You can close this tab.": a page that is told so, with the
\* app's answer in time, is not told so in vain: its flow does not fail, neither
\* by its timer, nor for another page, nor by a clock that is a little off.
ReceivedCounts ==
  [][\A f \in Flows : stage[f] = "waiting" /\ stage'[f] = "failed" =>
       ~\E t \in told[f] : Honest(f, t)]_vars
=============================================================================
