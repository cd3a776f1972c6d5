------------------------------ MODULE MCWebhooks ------------------------------
(* Instances of Webhooks for TLC. *)
EXTENDS Webhooks, TLC

CONSTANTS upfront, invoice,       \* a payment of sign, a payment of an invoice
          declined, retried, late, settled   \* events

\* The upfront payment fails and is then paid; the invoice's payment is reported
\* twice, under way and settled.
MCSubject == [e \in Events |-> IF e \in {declined, retried} THEN upfront ELSE invoice]
MCReported == [e \in Events |->
    CASE e = declined -> "failed" [] e = late -> "processing" [] OTHER -> "succeeded"]

DeliverySymmetry == Permutations(Deliveries)

=============================================================================
