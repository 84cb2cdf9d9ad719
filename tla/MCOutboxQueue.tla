---------------------------- MODULE MCOutboxQueue ----------------------------
EXTENDS OutboxQueue, TLC

\* All messages are about one aggregate.
MCAggregateOf == [m \in Messages |-> "A"]

\* Two replicas configured with one worker_id.
OneName == [p \in Processes |-> "worker"]

=============================================================================
