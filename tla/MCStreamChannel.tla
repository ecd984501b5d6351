-------------------------- MODULE MCStreamChannel --------------------------
(***************************************************************************)
(* Small instances of StreamChannel for TLC: one payer, one payee and one  *)
(* delegate, with two channels of the same token between the same parties, *)
(* the second one with an authorized signer.                               *)
(***************************************************************************)
EXTENDS StreamChannel

CONSTANTS payer, payee, delegate, usdc

MCAccounts == {payer, payee, delegate}
MCTokens == {usdc}

Direct ==
  [payer |-> payer, payee |-> payee, token |-> usdc, salt |-> 1,
   authorizedSigner |-> NoAddress]
Delegated == [Direct EXCEPT !.salt = 2, !.authorizedSigner = delegate]

TwoChannels == {Direct, Delegated}

\* Is the payee a diligent one, that acts on the close events before time goes
\* on.  To such a payee the fairness of time leaves no other choice.
VARIABLE diligent

MCInit == Init /\ diligent \in BOOLEAN

MCNext ==
  /\ \/ diligent /\ DiligentNext
     \/ ~diligent /\ Next
  /\ UNCHANGED diligent

MCSpec ==
  /\ MCInit /\ [][MCNext]_<<vars, diligent>>
  /\ PayerIsFair

\* A diligent payee loses nothing: whoever finalizes a channel, the payee has
\* by then received the largest voucher it could have collected.  The payer
\* cannot leave by a path the events do not announce a whole grace period
\* ahead.
DiligentPayeeIsPaid ==
  [][diligent =>
       \A id \in ChannelIds :
         IsOpen(channels[id]) /\ channels'[id].finalized =>
           \A amount \in Collectable(id) : amount <= paid'[id]]_vars
=============================================================================
