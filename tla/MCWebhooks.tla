----------------------------- MODULE MCWebhooks -----------------------------
(***************************************************************************)
(* Three events of one subscription: an activation, the same activation    *)
(* under another id, and a cancellation that carries no payment.           *)
(***************************************************************************)
EXTENDS Webhooks

MCEvents == 1..3
MCType == <<"activated", "activated", "cancelled">>
MCPayment == <<"p1", "p1", "none">>

\* An activation, and the cancellation that follows it.
MCTwoEvents == 1..2
MCTwoTypes == <<"activated", "cancelled">>
MCTwoPayments == <<"p1", "none">>
=============================================================================
