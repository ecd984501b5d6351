---------------------------- MODULE MCWalletSdk ----------------------------
(***************************************************************************)
(* A wallet with a few requests: in any order, or one at a time, with a    *)
(* browser that opens popups.                                              *)
(***************************************************************************)
EXTENDS WalletSdk

CONSTANTS r1, r2

TwoRequests == {r1, r2}

VARIABLE serial

OneAtATime == INSTANCE WalletSdk WITH MayBlock <- FALSE, MaxDialogs <- 4, MaxInbox <- 1

\* r2 is not made before r1.
InTurn == req'[r2].at = "idle" \/ req'[r1].at # "idle"

MCInit ==
  /\ serial \in BOOLEAN
  /\ IF serial THEN OneAtATime!Init ELSE Init

MCNext ==
  /\ IF serial THEN OneAtATime!SerialNext ELSE Next
  /\ InTurn
  /\ UNCHANGED serial

MCSpec == MCInit /\ [][MCNext]_<<vars, serial>> /\ OneAtATime!Fairness

\* As in WalletSdk: one live dialog at most, whatever happens in any order.
OneLive == serial \/ OneTransport

\* As in WalletSdk: requests that are made one at a time are settled, or left
\* behind an iframe that the user has hidden.
Settles == serial => EverySettles
=============================================================================
