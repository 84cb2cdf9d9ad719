---------------------------- MODULE MCIdempotency ----------------------------
EXTENDS Idempotency

\* One key: a request, its duplicate, and another request that reuses the key.
MCKeyOf == [r \in Requests |-> "key"]

MCHashOf == [r \in Requests |-> IF r = "reuse" THEN "other body" ELSE "body"]

=============================================================================
