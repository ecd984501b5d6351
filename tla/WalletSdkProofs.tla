-------------------------- MODULE WalletSdkProofs ---------------------------
(***************************************************************************)
(* One live dialog, for any number of requests and dialogs, whether or not *)
(* the browser blocks popups.                                              *)
(***************************************************************************)
EXTENDS MCWalletSdk, TLAPS

\* A number that is not in use yet, or that is none of Ids, is a dialog that does
\* not exist: what is done to it changes nothing.
Dialogs == [of: [Ids -> Dialog], active: Nat, used: Nat]

OneOf(d) == \A h \in Ids : d.of[h].window # "none" => h = d.active
NoneOf(d) == \A h \in Ids : d.of[h].window = "none"

Inv ==
  /\ dialogs \in Dialogs
  /\ req \in [Requests -> [at: {"idle", "waiting", "pending", "resolved", "rejected"},
                           handle: Nat, policy: Policies]]
  /\ OneOf(dialogs)

-----------------------------------------------------------------------------
(* What is done to a dialog                                                *)

LEMMA NewTyped ==
  ASSUME NEW kind \in {"iframe", "popup"}
  PROVE  New(kind) \in Dialog
  BY DEF New, NoDialog, Dialog

LEMMA DestroyedNone ==
  ASSUME NEW d \in Dialogs, OneOf(d)
  PROVE  /\ Destroyed(d, d.active) \in Dialogs
         /\ NoneOf(Destroyed(d, d.active))
<1>1. CASE d.active = None
  BY <1>1 DEF Destroyed, NoneOf, OneOf, Ids, None
<1>2. CASE d.active # None
  <2> DEFINE new == [NoDialog EXCEPT !.kind = d.of[d.active].kind, !.ready = d.of[d.active].ready]
  <2>1. Destroyed(d, d.active) = [d EXCEPT !.of = [d.of EXCEPT ![d.active] = new]]
    BY <1>2 DEF Destroyed
  <2>2. d.active \in Ids => new \in Dialog /\ new.window = "none"
    BY DEF Dialogs, Dialog, NoDialog
  <2> HIDE DEF new
  <2> QED
    BY <2>1, <2>2 DEF Dialogs, NoneOf, OneOf
<1> QED
  BY <1>1, <1>2

LEMMA CreatedOne ==
  ASSUME NEW d \in Dialogs, NoneOf(d), NEW kind \in {"iframe", "popup"}
  PROVE  Created(d, kind) \in Dialogs /\ OneOf(Created(d, kind))
<1> DEFINE n == d.used + 1
           of == [d.of EXCEPT ![n] = New(kind)]
<1>1. Created(d, kind) = [d EXCEPT !.of = of, !.active = n, !.used = n]
  BY DEF Created
<1>2. n \in Nat /\ of \in [Ids -> Dialog]
  <2>1. d.used \in Nat /\ d.of \in [Ids -> Dialog]
    BY DEF Dialogs
  <2>2. n \in Nat
    BY <2>1
  <2> HIDE DEF n
  <2>3. New(kind) \in Dialog
    BY NewTyped
  <2> QED
    BY <2>1, <2>2, <2>3
<1>3. \A h \in Ids : of[h].window # "none" => h = n
  BY DEF Dialogs, NoneOf
<1> HIDE DEF n, of
<1>4. Created(d, kind) = [of |-> of, active |-> n, used |-> n]
  BY <1>1 DEF Dialogs
<1> QED
  BY <1>2, <1>3, <1>4 DEF Dialogs, OneOf

LEMMA EnsuredOne ==
  ASSUME NEW d \in Dialogs, OneOf(d), NEW target \in {"iframe", "popup"}
  PROVE  ensureActive(d, target) \in Dialogs /\ OneOf(ensureActive(d, target))
  BY DestroyedNone, CreatedOne DEF ensureActive

LEMMA ClosedOne ==
  ASSUME NEW d \in Dialogs, OneOf(d), NEW h
  PROVE  Closed(d, h) \in Dialogs /\ OneOf(Closed(d, h))
<1>1. CASE h = None
  BY <1>1 DEF Closed
<1>2. CASE h # None /\ d.of[h].kind = "iframe"
  <2> DEFINE new == [d.of[h] EXCEPT !.visible = FALSE]
  <2>1. Closed(d, h) = [d EXCEPT !.of = [d.of EXCEPT ![h] = new]]
    BY <1>2 DEF Closed
  <2>2. h \in Ids => new \in Dialog /\ new.window = d.of[h].window
    BY DEF Dialogs, Dialog
  <2> HIDE DEF new
  <2> QED
    BY <2>1, <2>2 DEF Dialogs, OneOf
<1>3. CASE h # None /\ d.of[h].kind # "iframe"
  <2>1. Closed(d, h) = [d EXCEPT !.of = [d.of EXCEPT ![h] = New("popup")]]
    BY <1>3 DEF Closed
  <2>2. New("popup") \in Dialog /\ New("popup").window = "none"
    BY NewTyped DEF New, NoDialog
  <2> QED
    BY <2>1, <2>2 DEF Dialogs, OneOf
<1> QED
  BY <1>1, <1>2, <1>3

\* A dialog is opened that is the active one, or is open.
LEMMA OpenedOne ==
  ASSUME NEW d \in Dialogs, OneOf(d), NEW h, h = d.active \/ d.of[h].window # "none"
  PROVE  Opened(d, h) \in Dialogs /\ OneOf(Opened(d, h)) /\ Opened(d, h).active = d.active
<1>1. h \in Ids => h = d.active
  BY DEF OneOf
<1>2. ASSUME NEW new, h \in Ids => new \in Dialog,
             Opened(d, h) = [d EXCEPT !.of = [d.of EXCEPT ![h] = new]]
      PROVE  Opened(d, h) \in Dialogs /\ OneOf(Opened(d, h)) /\ Opened(d, h).active = d.active
  BY <1>1, <1>2 DEF Dialogs, OneOf
<1>3. CASE d.of[h].kind = "popup" /\ d.of[h].window # "open"
  <2> DEFINE new == [New("popup") EXCEPT !.window = "open", !.visible = TRUE]
  <2>1. new \in Dialog
    BY DEF New, NoDialog, Dialog
  <2>2. Opened(d, h) = [d EXCEPT !.of = [d.of EXCEPT ![h] = new]]
    BY <1>3 DEF Opened
  <2> QED
    BY <1>2, <2>1, <2>2
<1>4. CASE ~(d.of[h].kind = "popup" /\ d.of[h].window # "open")
  <2> DEFINE new == [d.of[h] EXCEPT !.visible = TRUE]
  <2>1. h \in Ids => new \in Dialog
    BY DEF Dialogs, Dialog
  <2>2. Opened(d, h) = [d EXCEPT !.of = [d.of EXCEPT ![h] = new]]
    BY <1>4 DEF Opened
  <2> QED
    BY <1>2, <2>1, <2>2
<1> QED
  BY <1>3, <1>4

LEMMA SentOne ==
  ASSUME NEW d \in Dialogs, OneOf(d), NEW h, NEW requests \in SUBSET Requests
  PROVE  Sent(d, h, requests) \in Dialogs /\ OneOf(Sent(d, h, requests))
<1>1. CASE Sent(d, h, requests) = d
  BY <1>1
<1>2. ASSUME NEW new, h \in Ids => new \in Dialog /\ new.window = d.of[h].window,
             Sent(d, h, requests) = [d EXCEPT !.of = [d.of EXCEPT ![h] = new]]
      PROVE  Sent(d, h, requests) \in Dialogs /\ OneOf(Sent(d, h, requests))
  BY <1>2 DEF Dialogs, OneOf
<1>3. CASE Sent(d, h, requests) = [d EXCEPT !.of[h].queued = @ \cup requests]
  <2> DEFINE new == [d.of[h] EXCEPT !.queued = @ \cup requests]
  <2>1. h \in Ids => new \in Dialog /\ new.window = d.of[h].window
    BY DEF Dialogs, Dialog
  <2>2. Sent(d, h, requests) = [d EXCEPT !.of = [d.of EXCEPT ![h] = new]]
    BY <1>3
  <2> QED
    BY <1>2, <2>1, <2>2
<1>4. CASE Sent(d, h, requests) = [d EXCEPT !.of[h].got = @ \cup requests]
  <2> DEFINE new == [d.of[h] EXCEPT !.got = @ \cup requests]
  <2>1. h \in Ids => new \in Dialog /\ new.window = d.of[h].window
    BY DEF Dialogs, Dialog
  <2>2. Sent(d, h, requests) = [d EXCEPT !.of = [d.of EXCEPT ![h] = new]]
    BY <1>4
  <2> QED
    BY <1>2, <2>1, <2>2
<1> QED
  BY <1>1, <1>3, <1>4 DEF Sent

LEMMA SwitchedOne ==
  ASSUME Inv, NEW target \in {"iframe", "popup"}
  PROVE  switchMode(dialogs, target) \in Dialogs /\ OneOf(switchMode(dialogs, target))
<1> DEFINE d == ensureActive(dialogs, target)
<1>1. d \in Dialogs /\ OneOf(d)
  BY EnsuredOne DEF Inv
<1>2. switchMode(dialogs, target) \in {dialogs, ReDelivered(d)}
  BY DEF switchMode
<1> HIDE DEF d
<1>3. Opened(d, d.active) \in Dialogs /\ OneOf(Opened(d, d.active))
  BY <1>1, OpenedOne
<1>4. ReDelivered(d) \in Dialogs /\ OneOf(ReDelivered(d))
  BY <1>3, SentOne DEF ReDelivered, Pending
<1> QED
  BY <1>2, <1>4 DEF Inv

LEMMA RefusedOne ==
  ASSUME Inv, Refused
  PROVE  dialogs' \in Dialogs /\ OneOf(dialogs')
<1> DEFINE d == ensureActive(dialogs, "popup")
<1>1. d \in Dialogs /\ OneOf(d)
  BY EnsuredOne DEF Inv
<1>2. dialogs' = Closed(d, d.active)
  BY DEF Refused
<1> HIDE DEF d
<1> QED
  BY <1>1, <1>2, ClosedOne

-----------------------------------------------------------------------------
(* The steps                                                               *)

LEMMA InitOne == Init => Inv
<1> SUFFICES ASSUME Init PROVE Inv
  OBVIOUS
<1>1. Start \in Dialogs /\ NoneOf(Start)
  BY DEF Start, Dialogs, NoneOf, NoDialog, Dialog, None
<1>2. OneOf(Start)
  BY <1>1 DEF OneOf, NoneOf
<1>3. dialogs \in Dialogs /\ OneOf(dialogs)
  BY <1>1, <1>2, EnsuredOne DEF Init
<1> QED
  BY <1>3 DEF Init, Inv, Policies, None

\* A request goes on, the dialogs are as some step leaves them.
LEMMA Goes ==
  ASSUME Inv, NEW r \in Requests, NEW there \in {"rejected", "pending"}, Goto(r, there)
  PROVE  req' \in [Requests -> [at: {"idle", "waiting", "pending", "resolved", "rejected"},
                                handle: Nat, policy: Policies]]
  BY DEF Inv, Goto

LEMMA BeginStep ==
  ASSUME Inv, NEW r \in Requests, NEW policy \in Policies, Begin(r, policy)
  PROVE  Inv'
<1>1. CASE UNCHANGED dialogs /\ Goto(r, "rejected")
  BY <1>1, Goes DEF Inv, OneOf
<1>2. CASE /\ dialogs' = ensureActive(dialogs, "iframe")
           /\ req' = [req EXCEPT ![r] = [at |-> "waiting", handle |-> dialogs'.active,
                                         policy |-> policy]]
  <2>1. dialogs' \in Dialogs /\ OneOf(dialogs')
    BY <1>2, EnsuredOne DEF Inv
  <2>2. dialogs'.active \in Nat
    BY <2>1 DEF Dialogs
  <2> QED
    BY <1>2, <2>1, <2>2 DEF Inv
<1>3. CASE /\ LET d == ensureActive(dialogs, "popup")
              IN  dialogs' = Sent(Opened(d, d.active), d.active, {r})
           /\ req' = [req EXCEPT ![r] = [at |-> "pending", handle |-> dialogs'.active,
                                         policy |-> policy]]
  <2> DEFINE d == ensureActive(dialogs, "popup")
  <2>1. d \in Dialogs /\ OneOf(d)
    BY EnsuredOne DEF Inv
  <2>2. dialogs' = Sent(Opened(d, d.active), d.active, {r})
    BY <1>3
  <2> HIDE DEF d
  <2>3. Opened(d, d.active) \in Dialogs /\ OneOf(Opened(d, d.active))
    BY <2>1, OpenedOne
  <2>4. dialogs' \in Dialogs /\ OneOf(dialogs')
    BY <2>2, <2>3, SentOne
  <2>5. dialogs'.active \in Nat
    BY <2>4 DEF Dialogs
  <2> QED
    BY <1>3, <2>4, <2>5 DEF Inv
<1>4. CASE Refused /\ Goto(r, "rejected")
  BY <1>4, RefusedOne, Goes DEF Inv
<1> QED
  BY <1>1, <1>2, <1>3, <1>4 DEF Begin

LEMMA ResumeStep ==
  ASSUME Inv, NEW r \in Requests, Resume(r)
  PROVE  Inv'
<1>1. CASE ResumeRejected(r)
  BY <1>1, Goes DEF ResumeRejected, Inv
<1>2. CASE ResumeInPopup(r)
  <2>1. CASE Refused /\ Goto(r, "rejected")
    BY <2>1, RefusedOne, Goes DEF Inv
  <2>2. CASE /\ LET d == switchMode(dialogs, "popup")
                IN  dialogs' = Sent(d, d.active, {r})
             /\ req' = [req EXCEPT ![r].at = "pending", ![r].handle = dialogs'.active]
    <3> DEFINE d == switchMode(dialogs, "popup")
    <3>1. d \in Dialogs /\ OneOf(d)
      BY SwitchedOne
    <3>2. dialogs' = Sent(d, d.active, {r})
      BY <2>2
    <3> HIDE DEF d
    <3>3. dialogs' \in Dialogs /\ OneOf(dialogs')
      BY <3>1, <3>2, SentOne
    <3>4. dialogs'.active \in Nat
      BY <3>3 DEF Dialogs
    <3> QED
      BY <2>2, <3>3, <3>4 DEF Inv
  <2> QED
    BY <1>2, <2>1, <2>2 DEF ResumeInPopup
<1>3. CASE ResumeInFrame(r)
  <2> DEFINE h == req[r].handle
  <2>1. CASE UNCHANGED dialogs /\ Goto(r, "rejected")
    BY <2>1, Goes DEF Inv, OneOf
  <2>2. CASE /\ dialogs.of[h].window # "none"
             /\ dialogs' = Sent(Opened(dialogs, h), h, {r})
             /\ Goto(r, "pending")
    <3>1. Opened(dialogs, h) \in Dialogs /\ OneOf(Opened(dialogs, h))
      BY <2>2, OpenedOne DEF Inv
    <3>2. dialogs' \in Dialogs /\ OneOf(dialogs')
      BY <2>2, <3>1, SentOne
    <3> QED
      BY <2>2, <3>2, Goes DEF Inv
  <2>3. CASE dialogs' = Sent(dialogs, h, {r}) /\ Goto(r, "pending")
    BY <2>3, SentOne, Goes DEF Inv
  <2> QED
    BY <1>3, <2>1, <2>2, <2>3 DEF ResumeInFrame
<1> QED
  BY <1>1, <1>2, <1>3 DEF Resume

\* One dialog becomes another one, with no more of a window than it had.
LEMMA ChangedOne ==
  ASSUME Inv, NEW h \in Ids, NEW new \in Dialog,
         new.window # "none" => dialogs.of[h].window # "none",
         dialogs' = [dialogs EXCEPT !.of = [dialogs.of EXCEPT ![h] = new]]
  PROVE  dialogs' \in Dialogs /\ OneOf(dialogs')
  BY DEF Inv, Dialogs, OneOf

LEMMA HostStep ==
  ASSUME Inv, NEW h \in Ids, Host(h)
  PROVE  Inv'
<1>1. dialogs.of[h] \in Dialog
  BY DEF Inv, Dialogs
<1>2. CASE Boot(h)
  <2> DEFINE new == [dialogs.of[h] EXCEPT !.booted = TRUE]
  <2>1. new \in Dialog /\ new.window = dialogs.of[h].window
    BY <1>1 DEF Dialog
  <2>2. dialogs' = [dialogs EXCEPT !.of = [dialogs.of EXCEPT ![h] = new]]
    BY <1>2 DEF Boot
  <2> HIDE DEF new
  <2> QED
    BY <1>2, <2>1, <2>2, ChangedOne DEF Boot, Inv
<1>3. ASSUME NEW r \in Requests, Answer(h, r) PROVE Inv'
  <2> DEFINE new == [dialogs.of[h] EXCEPT !.got = @ \ {r}]
  <2>1. new \in Dialog /\ new.window = dialogs.of[h].window
    BY <1>1 DEF Dialog
  <2>2. dialogs' = [dialogs EXCEPT !.of = [dialogs.of EXCEPT ![h] = new]]
    BY <1>3 DEF Answer
  <2> HIDE DEF new
  <2> QED
    BY <1>3, <2>1, <2>2, ChangedOne DEF Answer, Inv
<1>4. ASSUME NEW topic, Control(h, topic) PROVE Inv'
  BY <1>4 DEF Control, Inv, OneOf
<1> QED
  BY <1>2, <1>3, <1>4 DEF Host

LEMMA SettleTyped ==
  ASSUME Inv, NEW requests, NEW outcome \in {"resolved", "rejected"}, Settle(requests, outcome)
  PROVE  req' \in [Requests -> [at: {"idle", "waiting", "pending", "resolved", "rejected"},
                                handle: Nat, policy: Policies]]
  BY DEF Inv, Settle

LEMMA CloseStep ==
  ASSUME Inv, onClose
  PROVE  Inv'
<1>1. dialogs' \in Dialogs /\ OneOf(dialogs')
  BY ClosedOne DEF Inv, onClose
<1> QED
  BY <1>1, SettleTyped DEF Inv, onClose

LEMMA ReadyStep ==
  ASSUME Inv, OnReady
  PROVE  Inv'
<1> DEFINE h == dialogs.active
           new == [dialogs.of[h] EXCEPT !.ready = TRUE, !.queued = {}]
           d == [dialogs EXCEPT !.of = [dialogs.of EXCEPT ![h] = new]]
<1>1. \/ dialogs' = dialogs
      \/ dialogs' = Sent(d, h, dialogs.of[h].queued) /\ dialogs.of[h].ready # TRUE
  BY DEF OnReady, Active
<1>2. h \in Ids => /\ new \in Dialog /\ new.window = dialogs.of[h].window
                   /\ dialogs.of[h].queued \in SUBSET Requests
  <2>1. h \in Ids => dialogs.of[h] \in Dialog
    BY DEF Inv, Dialogs
  <2> QED
    BY <2>1 DEF Dialog
<1> HIDE DEF new
<1>3. d \in Dialogs /\ OneOf(d)
  BY <1>2 DEF Inv, Dialogs, OneOf
<1>4. CASE h \in Ids
  BY <1>1, <1>2, <1>3, <1>4, SentOne DEF OnReady, Inv
<1>5. CASE h \notin Ids
  <2>1. ASSUME NEW requests PROVE Sent(d, h, requests) = d
    <3>1. d = dialogs /\ \A new2 : [dialogs.of EXCEPT ![h] = new2] = dialogs.of
      BY <1>5 DEF Inv, Dialogs
    <3> QED
      BY <3>1 DEF Sent, Inv, Dialogs
  <2> QED
    BY <1>1, <1>3, <2>1 DEF OnReady, Inv
<1> QED
  BY <1>4, <1>5

LEMMA DeliverStep ==
  ASSUME Inv, Deliver
  PROVE  Inv'
<1>1. CASE UNCHANGED <<dialogs, req>>
  BY <1>1 DEF Inv, OneOf
<1>2. CASE \E requests : OnResponse(requests)
  <2>1. dialogs' \in Dialogs /\ OneOf(dialogs')
    BY <1>2, ClosedOne DEF Inv, OnResponse
  <2> QED
    BY <1>2, <2>1, SettleTyped DEF Inv, OnResponse
<1>3. ASSUME NEW target \in {"iframe", "popup"}, OnSwitch(target)
      PROVE  Inv'
  <2>1. dialogs' \in Dialogs /\ OneOf(dialogs')
    BY <1>3, SwitchedOne, RefusedOne DEF OnSwitch
  <2> QED
    BY <1>3, <2>1 DEF OnSwitch, Inv
<1> QED
  BY <1>1, <1>2, <1>3, CloseStep, ReadyStep DEF Deliver, OnAuthenticated

LEMMA UserStep ==
  ASSUME Inv, UserCloses \/ Poll \/ Escape \/ destroy
  PROVE  Inv'
<1>1. CASE UserCloses
  <2> DEFINE h == dialogs.active
             new == [dialogs.of[h] EXCEPT !.window = "gone"]
  <2>1. dialogs' = [dialogs EXCEPT !.of = [dialogs.of EXCEPT ![h] = new]]
    BY <1>1 DEF UserCloses
  <2>2. h \in Ids => new \in Dialog
    BY DEF Inv, Dialogs, Dialog
  <2> HIDE DEF new
  <2>3. dialogs' \in Dialogs /\ OneOf(dialogs')
    BY <2>1, <2>2 DEF Inv, Dialogs, OneOf
  <2> QED
    BY <1>1, <2>3 DEF UserCloses, Inv
<1>2. CASE Poll
  BY <1>2, CloseStep DEF Poll
<1>3. CASE Escape
  BY <1>3, ClosedOne DEF Escape, Inv
<1>4. CASE destroy
  <2> DEFINE d == Destroyed(dialogs, dialogs.active)
  <2>1. d \in Dialogs /\ NoneOf(d) /\ dialogs' = [d EXCEPT !.active = None]
    BY <1>4, DestroyedNone DEF destroy, Inv
  <2> HIDE DEF d
  <2>2. dialogs' \in Dialogs /\ OneOf(dialogs')
    BY <2>1 DEF Dialogs, OneOf, NoneOf, None
  <2> QED
    BY <1>4, <2>2, SettleTyped DEF destroy, Inv
<1> QED
  BY <1>1, <1>2, <1>3, <1>4

LEMMA StepOne == Inv /\ [Next]_vars => Inv'
<1> SUFFICES ASSUME Inv, [Next]_vars PROVE Inv'
  OBVIOUS
<1>1. CASE UNCHANGED vars
  BY <1>1 DEF vars, Inv, OneOf
<1> QED
  BY <1>1, BeginStep, ResumeStep, HostStep, DeliverStep, UserStep DEF Next

\* Whatever is requested, posted, closed, refused or destroyed in any order, one
\* dialog is live at most, the active one.
THEOREM OneAlways == Spec => []OneTransport
<1>1. Inv => OneTransport
  BY DEF Inv, OneOf, OneTransport
<1> QED
  BY <1>1, InitOne, StepOne, PTL DEF Spec

\* So it is for the requests of the run.
THEOREM AlwaysOneLive == MCSpec => []OneLive
<1> DEFINE MCInv == serial \/ Inv
<1>1. MCInit => MCInv
  BY InitOne DEF MCInit
<1>2. MCInv /\ [MCNext]_<<vars, serial>> => MCInv'
  BY StepOne DEF MCNext
<1>3. MCInv => OneLive
  BY DEF OneLive, Inv, OneOf, OneTransport
<1> QED
  BY <1>1, <1>2, <1>3, PTL DEF MCSpec
=============================================================================
