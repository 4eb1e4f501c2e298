--------------------------- MODULE MCSubscriptions ---------------------------
EXTENDS Subscriptions
=============================================================================
