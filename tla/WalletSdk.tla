----------------------------- MODULE WalletSdk -----------------------------
(***************************************************************************)
(* The dApp side of the wallet SDK: createWallet() keeps one active dialog *)
(* (an iframe or a popup with the wallet host in it), sends every request  *)
(* to it, and switches between the two while requests are pending.         *)
(*                                                                         *)
(* A step is what runs without an await.  What waits for the ready message *)
(* resumes in the microtasks of the task that delivers it, so before the   *)
(* page takes another event; the dApp's own code may run between them.     *)
(* Messages of the host are posted into one queue of the page; a listener  *)
(* sees a message whatever window has posted it.                           *)
(***************************************************************************)
EXTENDS Integers, FiniteSets, Sequences

CONSTANTS
  Requests,    \* calls of provider.request()
  MayBlock,    \* may the browser refuse to open a popup
  MaxDialogs,  \* bound on the dialogs ever made
  MaxInbox     \* bound on the messages under way when the host asks to close
               \* or switch, or announces a login

ASSUME ConstantsAssumption ==
  /\ MayBlock \in BOOLEAN
  /\ MaxDialogs \in Nat \ {0}
  /\ MaxInbox \in Nat \ {0}

VARIABLES
  dialogs,    \* the dialogs made so far, the active one and their number
  req,        \* per request: where it is, the handle it holds, its policy
  inbox,      \* messages posted by the host, not delivered yet
  setting,    \* popup: is the dialog option "popup", not "auto" or "iframe";
              \* eligible: would secure() let the iframe be used
  destroyed

vars == <<dialogs, req, inbox, setting, destroyed>>

-----------------------------------------------------------------------------
Ids == 1 .. MaxDialogs
None == 0

\* headless: never asks; silent: asks nothing but must be secure; ask: the
\* dialog is opened for it.
Policies == {"headless", "silent", "ask"}

\* window is the page's view of the peer's window, "gone" when the user has
\* closed a popup; booted is the peer's own view; got and queued are the
\* requests that have reached the peer, or wait for its ready message.
Dialog ==
  [kind: {"none", "iframe", "popup"}, window: {"none", "open", "gone"},
   visible: BOOLEAN, ready: BOOLEAN, booted: BOOLEAN,
   got: SUBSET Requests, queued: SUBSET Requests]

NoDialog ==
  [kind |-> "none", window |-> "none", visible |-> FALSE, ready |-> FALSE,
   booted |-> FALSE, got |-> {}, queued |-> {}]

Pending == {r \in Requests : req[r].at = "pending"}

Active(d) == d.of[d.active]
Mode(d) == IF d.active = None THEN "none" ELSE Active(d).kind

\* The iframe is in the page from the start, the popup's window is opened.
New(kind) ==
  [NoDialog EXCEPT !.kind = kind, !.window = IF kind = "iframe" THEN "open" ELSE "none"]

\* destroy(): the window goes, ready keeps its promise's outcome.
Destroyed(d, h) ==
  IF h = None THEN d
  ELSE [d EXCEPT !.of[h] = [NoDialog EXCEPT !.kind = d.of[h].kind,
                                        !.ready = d.of[h].ready]]

\* close(): an iframe is hidden, a popup loses its window and messenger.
Closed(d, h) ==
  IF h = None THEN d
  ELSE IF d.of[h].kind = "iframe" THEN [d EXCEPT !.of[h].visible = FALSE]
  ELSE [d EXCEPT !.of[h] = New("popup")]

\* open(): a popup whose window is not open gets a new one.
Opened(d, h) ==
  IF d.of[h].kind = "popup" /\ d.of[h].window # "open"
  THEN [d EXCEPT !.of[h] = [New("popup") EXCEPT !.window = "open", !.visible = TRUE]]
  ELSE [d EXCEPT !.of[h].visible = TRUE]

\* The browser refuses the popup that open() wants: it has no window then.
Blocked(d, h) ==
  MayBlock /\ d.of[h].kind = "popup" /\ d.of[h].window # "open"

\* syncRequest(): held until ready; lost without a window, and when the peer
\* has not booted.
Sent(d, h, requests) ==
  IF d.of[h].window # "open" THEN d
  ELSE IF ~d.of[h].ready THEN [d EXCEPT !.of[h].queued = @ \cup requests]
  ELSE IF d.of[h].booted THEN [d EXCEPT !.of[h].got = @ \cup requests]
  ELSE d

\* A new active dialog of some kind, in a state where there may be another.
Created(d, kind) ==
  [d EXCEPT !.of[d.used + 1] = New(kind), !.active = d.used + 1, !.used = @ + 1]

\* Mutant: the previous dialog is left alone.
LeftAlone(d, target) == IF Mode(d) = target THEN d ELSE Created(d, target)

ensureActive(d, target) ==
  IF Mode(d) = target THEN d ELSE Created(Destroyed(d, d.active), target)

\* Mutant: nothing is sent again.
NothingResent(d) == Opened(d, d.active)

\* What switchMode does with the new dialog.
ReDelivered(d) == Sent(Opened(d, d.active), d.active, Pending)

switchMode(d, target) ==
  IF Mode(d) = target THEN d ELSE ReDelivered(ensureActive(d, target))

\* Bound: room for so many more dialogs, beside those that the messages under
\* way and the requests that wait may need.
Room(n) ==
  LET asks == {i \in DOMAIN inbox : inbox[i].topic \in {"switch", "authenticated"}}
      waiting == {r \in Requests : req[r].at = "waiting"}
  IN  dialogs.used + Cardinality(asks) + Cardinality(waiting) + n <= MaxDialogs

Start == [of |-> [h \in Ids |-> NoDialog], active |-> None, used |-> 0]

\* Unless the popup is forced, the iframe is made early.
Init ==
  /\ setting \in [popup: BOOLEAN, eligible: BOOLEAN]
  /\ dialogs = IF setting.popup THEN Start ELSE ensureActive(Start, "iframe")
  /\ req = [r \in Requests |-> [at |-> "idle", handle |-> None, policy |-> "ask"]]
  /\ inbox = <<>>
  /\ destroyed = FALSE

\* The promise of the handle's waitForReady() has an outcome.
Resumable(r) ==
  /\ req[r].at = "waiting"
  /\ LET h == dialogs.of[req[r].handle] IN h.ready \/ h.window = "none"

\* No microtask is left: the page takes its next event.
Quiet == \A r \in Requests : ~Resumable(r)

Goto(r, there) == req' = [req EXCEPT ![r].at = there]

\* open() of the popup throws: no request is sent to it.
Refused ==
  LET d == ensureActive(dialogs, "popup")
  IN  /\ Blocked(d, d.active)
      /\ dialogs' = Closed(d, d.active)

-----------------------------------------------------------------------------
\* dispatch, up to its first await.
Begin(r, policy) ==
  /\ req[r].at = "idle"
  /\ Room(2)
  /\ \/ /\ destroyed
        /\ Goto(r, "rejected")
        /\ UNCHANGED dialogs
     \/ /\ ~destroyed /\ ~setting.popup
        /\ dialogs' = ensureActive(dialogs, "iframe")
        /\ req' = [req EXCEPT ![r] = [at |-> "waiting", handle |-> dialogs'.active,
                                      policy |-> policy]]
     \/ /\ ~destroyed /\ setting.popup
        /\ LET d == ensureActive(dialogs, "popup")
           IN  dialogs' = Sent(Opened(d, d.active), d.active, {r})
        /\ req' = [req EXCEPT ![r] = [at |-> "pending", handle |-> dialogs'.active,
                                      policy |-> policy]]
     \/ /\ ~destroyed /\ setting.popup
        /\ Refused
        /\ Goto(r, "rejected")
  /\ UNCHANGED <<inbox, setting, destroyed>>

\* waitForReady() rejected: the handle was destroyed too early.
ResumeRejected(r) ==
  /\ Resumable(r)
  /\ ~dialogs.of[req[r].handle].ready
  /\ Goto(r, "rejected")
  /\ UNCHANGED <<dialogs, inbox, setting, destroyed>>

Insecure(r) == req[r].policy # "headless" /\ ~setting.eligible

\* The iframe is not secure: the request goes to the popup.
ResumeInPopup(r) ==
  /\ Resumable(r)
  /\ dialogs.of[req[r].handle].ready
  /\ Insecure(r)
  /\ \/ /\ LET d == switchMode(dialogs, "popup")
           IN  dialogs' = Sent(d, d.active, {r})
        /\ req' = [req EXCEPT ![r].at = "pending", ![r].handle = dialogs'.active]
     \/ Mode(dialogs) # "popup" /\ Refused /\ Goto(r, "rejected")
  /\ UNCHANGED <<inbox, setting, destroyed>>

\* It goes to the handle held since Begin, even if that is destroyed by now:
\* to open it then throws, to send to it does nothing.
ResumeInFrame(r) ==
  LET h == req[r].handle
  IN  /\ Resumable(r)
      /\ dialogs.of[h].ready
      /\ ~Insecure(r)
      /\ \/ /\ req[r].policy = "ask" /\ dialogs.of[h].window = "none"
            /\ Goto(r, "rejected")
            /\ UNCHANGED dialogs
         \/ /\ req[r].policy = "ask" /\ dialogs.of[h].window # "none"
            /\ dialogs' = Sent(Opened(dialogs, h), h, {r})
            /\ Goto(r, "pending")
         \/ /\ req[r].policy # "ask"
            /\ dialogs' = Sent(dialogs, h, {r})
            /\ Goto(r, "pending")
      /\ UNCHANGED <<inbox, setting, destroyed>>

Resume(r) == ResumeRejected(r) \/ ResumeInPopup(r) \/ ResumeInFrame(r)

-----------------------------------------------------------------------------
\* The wallet host in the window of dialog h.
Lives(h) == dialogs.of[h].window = "open"

Post(h, topic, r) ==
  inbox' = Append(inbox, [from |-> h, topic |-> topic, request |-> r])

Boot(h) ==
  /\ Lives(h) /\ ~dialogs.of[h].booted
  /\ dialogs' = [dialogs EXCEPT !.of[h].booted = TRUE]
  /\ Post(h, "ready", {})
  /\ UNCHANGED <<req, setting, destroyed>>

Speaks(h) == Lives(h) /\ dialogs.of[h].booted

\* What is asked needs a dialog that the user sees.
Answer(h, r) ==
  /\ Speaks(h)
  /\ r \in dialogs.of[h].got
  /\ req[r].policy = "ask" => dialogs.of[h].visible
  /\ dialogs' = [dialogs EXCEPT !.of[h].got = @ \ {r}]
  /\ Post(h, "rpc-response", {r})
  /\ UNCHANGED <<req, setting, destroyed>>

Control(h, topic) ==
  /\ Speaks(h)
  /\ topic # "close" => Room(1)
  /\ Len(inbox) < MaxInbox
  /\ Post(h, topic, {})
  /\ UNCHANGED <<dialogs, req, setting, destroyed>>

-----------------------------------------------------------------------------
\* Does the page have a listener: a popup that is closed has no messenger.
Listens == dialogs.active # None /\ Active(dialogs).window # "none"

Settle(requests, outcome) ==
  req' = [r \in Requests |->
            IF r \in requests THEN [req[r] EXCEPT !.at = outcome] ELSE req[r]]


\* The requests that onClose and destroy reject.
Outstanding == Pending

\* onResponse: a response that comes twice finds nothing pending.
OnResponse(requests) ==
  /\ Settle(requests \cap Pending, "resolved")
  /\ dialogs' = IF requests \cap Pending # {} /\ Pending \ requests = {}
                THEN Closed(dialogs, dialogs.active) ELSE dialogs

onClose ==
  /\ Settle(Outstanding, "rejected")
  /\ dialogs' = Closed(dialogs, dialogs.active)

OnReady ==
  LET h == dialogs.active
      d == [dialogs EXCEPT !.of[h].ready = TRUE, !.of[h].queued = {}]
  IN  /\ dialogs' = IF Active(dialogs).ready THEN dialogs
                    ELSE Sent(d, h, Active(dialogs).queued)
      /\ UNCHANGED req

\* onInternal
OnSwitch(target) ==
  /\ \/ dialogs' = switchMode(dialogs, target)
     \/ Mode(dialogs) # target /\ target = "popup" /\ Refused
  /\ UNCHANGED req

OnAuthenticated ==
  \/ Mode(dialogs) = "popup" /\ OnSwitch("iframe")
  \/ Mode(dialogs) # "popup" /\ UNCHANGED <<dialogs, req>>

Deliver ==
  /\ Quiet
  /\ inbox # <<>>
  /\ inbox' = Tail(inbox)
  /\ LET m == Head(inbox)
     IN  \/ ~Listens /\ UNCHANGED <<dialogs, req>>
         \/ Listens /\ m.topic = "ready" /\ OnReady
         \/ Listens /\ m.topic = "rpc-response" /\ OnResponse(m.request)
         \/ Listens /\ m.topic = "close" /\ onClose
         \/ Listens /\ m.topic = "switch" /\ OnSwitch("popup")
         \/ Listens /\ m.topic = "authenticated" /\ OnAuthenticated
  /\ UNCHANGED <<setting, destroyed>>

-----------------------------------------------------------------------------
\* The user closes a popup, which the page sees at its next poll.
UserCloses ==
  /\ Quiet
  /\ Mode(dialogs) = "popup" /\ Active(dialogs).window = "open"
  /\ dialogs' = [dialogs EXCEPT !.of[dialogs.active].window = "gone"]
  /\ UNCHANGED <<req, inbox, setting, destroyed>>

Poll ==
  /\ Quiet
  /\ Mode(dialogs) = "popup" /\ Active(dialogs).window = "gone"
  /\ onClose
  /\ UNCHANGED <<inbox, setting, destroyed>>

\* Escape, or a click beside the iframe's dialog, only hides it.
Escape ==
  /\ Quiet
  /\ Mode(dialogs) = "iframe" /\ Active(dialogs).visible
  /\ dialogs' = Closed(dialogs, dialogs.active)
  /\ UNCHANGED <<req, inbox, setting, destroyed>>

destroy ==
  /\ ~destroyed
  /\ destroyed' = TRUE
  /\ Settle(Outstanding, "rejected")
  /\ dialogs' = [Destroyed(dialogs, dialogs.active) EXCEPT !.active = None]
  /\ UNCHANGED <<inbox, setting>>

Host(h) ==
  \/ Boot(h)
  \/ \E r \in Requests : Answer(h, r)
  \/ \E topic \in {"close", "switch", "authenticated"} : Control(h, topic)

Next ==
  \/ \E r \in Requests : Resume(r) \/ \E policy \in Policies : Begin(r, policy)
  \/ \E h \in Ids : Host(h)
  \/ Deliver
  \/ UserCloses \/ Poll \/ Escape
  \/ destroy

Spec == Init /\ [][Next]_vars

\* The page polls and takes its messages; a promise that has an outcome
\* resumes; the host boots, and answers what it can.
Fairness ==
  /\ WF_vars(Deliver)
  /\ WF_vars(Poll)
  /\ \A r \in Requests : WF_vars(Resume(r))
  /\ \A h \in Ids : /\ WF_vars(Boot(h))
                    /\ \A r \in Requests : WF_vars(Answer(h, r))

Settled(r) == req[r].at \in {"idle", "resolved", "rejected"}

\* r asks the user something in an iframe that is hidden: Escape and the click
\* beside the iframe hide it and reject nothing.
LeftHidden(r) ==
  /\ req[r].at = "pending" /\ req[r].policy = "ask"
  /\ Mode(dialogs) = "iframe" /\ ~Active(dialogs).visible
  /\ r \in Active(dialogs).got

\* One request at a time, with no race between page and host: the host posts
\* between two tasks of the page, the page has taken what is posted when it
\* makes its next request, and destroys its wallet in a task of its own.  The
\* next request may come while others are left behind a hidden iframe, which
\* it may open again; but not if it would destroy that for a popup.
SerialNext ==
  \/ \E r \in Requests :
       \/ Resume(r)
       \/ /\ \A other \in Requests :
               Settled(other) \/ (LeftHidden(other) /\ ~setting.popup)
          /\ inbox = <<>>
          /\ \E policy \in Policies : Begin(r, policy)
  \/ Quiet /\ \E h \in Ids : Host(h)
  \/ Deliver
  \/ UserCloses \/ Poll \/ Escape
  \/ Quiet /\ destroy

SerialSpec == Init /\ [][SerialNext]_vars /\ Fairness

-----------------------------------------------------------------------------
\* There is at most one live dialog, the active one: no switch leaves an
\* iframe in the page or a popup on the screen that no one listens to.
OneTransport ==
  \A h \in Ids : dialogs.of[h].window # "none" => h = dialogs.active

\* Every request is eventually resolved or rejected, through every switch of
\* the dialog and with every popup that the user closes; or the user hides the
\* iframe in which it asks.  Whenever that is shown again, by a later request,
\* the user answers or hides it once more: no request is lost.
EverySettles ==
  \A r \in Requests : req[r].at # "idle" ~> Settled(r) \/ LeftHidden(r)
=============================================================================
