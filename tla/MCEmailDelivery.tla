--------------------------- MODULE MCEmailDelivery ---------------------------
EXTENDS EmailDelivery, TLC

MCRecipientOf == [m \in Mails |-> "member"]

=============================================================================
