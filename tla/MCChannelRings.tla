--------------------------- MODULE MCChannelRings ---------------------------
(* Instances of ChannelRings for TLC: a ring of non-contiguous pages.      *)
EXTENDS ChannelRings, TLC

\* Ring pages 0, 1 and 2 are physical pages 2, 0 and 4.
MCPageMap == (0 :> 2) @@ (1 :> 0) @@ (2 :> 4)

=============================================================================
