--------------------------- MODULE CommandStream ---------------------------
(***************************************************************************)
(* What a channel ring promises: the commands of a channel are delivered   *)
(* to their handlers in the order of submission, none is skipped, and      *)
(* nothing that was not submitted is delivered.  The host's acknowledgement*)
(* (the read pointer it publishes) may get lost, and delivery then resumes *)
(* after the last command acknowledged: at least once, never out of order  *)
(* by any other cause.                                                     *)
(***************************************************************************)
EXTENDS Naturals

CONSTANTS Chans, MaxCmds, MayRewind

VARIABLES
    submitted, \* commands the guest has made visible, per channel
    delivered, \* the last command given to its handler
    acked      \* the last command the guest knows to be consumed

streamVars == <<submitted, delivered, acked>>

Init ==
    /\ submitted = [c \in Chans |-> 0]
    /\ delivered = [c \in Chans |-> 0]
    /\ acked = [c \in Chans |-> 0]

Submit(c) ==
    /\ submitted[c] < MaxCmds
    /\ submitted' = [submitted EXCEPT ![c] = @ + 1]
    /\ UNCHANGED <<delivered, acked>>

Deliver(c) ==
    /\ delivered[c] < submitted[c]
    /\ delivered' = [delivered EXCEPT ![c] = @ + 1]
    /\ UNCHANGED <<submitted, acked>>

\* Delivery restarts behind the acknowledged command.
Redeliver(c) ==
    /\ MayRewind
    /\ acked[c] < delivered[c]
    /\ delivered' = [delivered EXCEPT ![c] = acked[c] + 1]
    /\ UNCHANGED <<submitted, acked>>

Acknowledge(c) ==
    /\ acked' = [acked EXCEPT ![c] = delivered[c]]
    /\ UNCHANGED <<submitted, delivered>>

Next == \E c \in Chans : Submit(c) \/ Deliver(c) \/ Redeliver(c) \/ Acknowledge(c)

Spec == Init /\ [][Next]_streamVars

=============================================================================
