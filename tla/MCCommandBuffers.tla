-------------------------- MODULE MCCommandBuffers --------------------------
(* CommandBuffers and ObjectResolver in one instance: how a command's bytes are  *)
(* fetched from guest memory, and how they are walked.  The walk takes whatever  *)
(* arrived, any number of any words, so the two share no variable and a step of  *)
(* one neither enables nor disables a step of the other.  Every behaviour of the *)
(* pair is then a behaviour of each, and it is enough to run one of them while   *)
(* the other rests.                                                              *)
EXTENDS CommandBuffers, MCObjectResolver

WalkRests ==
    /\ pc = "done" /\ todo = 0 /\ mem = [i \in 0 .. (MaxWords - 1) |-> Unread]
    /\ len = MaxWords /\ off = 0 /\ cmd = 0 /\ segs = <<>> /\ log = <<>>

\* As a decoded descriptor of no bytes does.
ResolverRests ==
    ResolverInit /\ op.kind = "scan" /\ desc = <<>> /\ attrs = <<>> /\ strides = <<>>

ExecInit == (WalkInit /\ ResolverRests) \/ (ResolverInit /\ WalkRests)

ExecNext ==
    \/ WalkNext /\ UNCHANGED resolverVars
    \/ ResolverNext /\ UNCHANGED walkVars

\* The handler of a command runs to its end.
ExecSpec ==
    /\ ExecInit /\ [][ExecNext]_<<walkVars, resolverVars>>
    /\ WF_<<walkVars, resolverVars>>(WalkNext /\ UNCHANGED resolverVars)
=============================================================================
