----------------------------- MODULE MCDeliveries -----------------------------
(* The two delivery workers of the portal for TLC.  They share the process *)
(* and no row, so that their interleavings add nothing: a behaviour runs   *)
(* one of them.                                                            *)
EXTENDS WebhookDelivery, EmailOutbox

VARIABLE which

DeliveriesInit ==
  /\ WebhookInit /\ OutboxInit
  /\ \/ which = "webhooks" /\ smtp = FALSE
     \/ which = "mail" /\ \A s \in Subs : sub[s] = NoSub

DeliveriesNext ==
  /\ which' = which
  /\ \/ which = "webhooks" /\ WebhookNext /\ UNCHANGED outboxVars
     \/ which = "mail" /\ OutboxNext /\ UNCHANGED webhookVars

DeliveriesSpec ==
  /\ DeliveriesInit /\ [][DeliveriesNext]_<<webhookVars, outboxVars, which>>
  /\ WebhookFairness /\ OutboxFairness

(* Neither queue keeps anything for ever: every delivery is settled or     *)
(* deleted with its subscription, every message is over one day.           *)
DeliveriesEnd == EveryDeliverySettles /\ EveryMessageEnds
=============================================================================
