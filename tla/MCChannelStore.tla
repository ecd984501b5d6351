-------------------------- MODULE MCChannelStore ---------------------------
(***************************************************************************)
(* The channel store beside other components, whose states it does not     *)
(* share: what it promises, and an instance of four updates of two         *)
(* channels, one that creates a record and two that change it, and one of  *)
(* another channel that must not be held up.                               *)
(***************************************************************************)
EXTENDS TLC

CONSTANTS Updates, Creating, Keys, KeyOf, Free

ASSUME StoreAssumption ==
  /\ Creating \subseteq Updates
  /\ KeyOf \in [Updates -> Keys]
  /\ Free \notin Updates

VARIABLES records, locks, pc, current, applied

Store == INSTANCE ChannelStore WITH store <- records

StoreSpec == Store!Spec

\* The update takes effect as one read-modify-write: none that the store has
\* taken is lost to another that read the record before it.
IsAtomic == Store!Atomic!Spec

\* An update that was called comes to an end, whatever the store throws at it
\* and at those before it in the queue.
EveryCallEnds == Store!EveryCallEnds

-----------------------------------------------------------------------------
CONSTANTS open1, voucher1, close1, voucher2, c1, c2

MCUpdates == {open1, voucher1, close1, voucher2}
MCCreating == {open1, voucher2}
MCKeys == {c1, c2}
MCKeyOf == open1 :> c1 @@ voucher1 :> c1 @@ close1 :> c1 @@ voucher2 :> c2
=============================================================================
