---------------------------- MODULE MCHelperPlan ----------------------------
(***************************************************************************)
(* Call graphs of an entry point and three functions: shared and repeated  *)
(* callees, chains longer than the plan is deep, and recursion direct and  *)
(* through another function or the entry point.                            *)
(***************************************************************************)
EXTENDS HelperPlan, TLC

MCCallGraphs ==
    {(0 :> e) @@ (1 :> a) @@ (2 :> b) @@ (3 :> c) :
        e \in {<<1>>, <<2, 1>>, <<3, 3>>}, a \in {<<>>, <<2>>, <<2, 3>>, <<1>>},
        b \in {<<>>, <<1>>, <<3>>}, c \in {<<>>, <<1>>, <<0>>}}

=============================================================================
