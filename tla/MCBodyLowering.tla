--------------------------- MODULE MCBodyLowering ---------------------------
(***************************************************************************)
(* The bodies BodyLowering is checked on.  I, P and T write an             *)
(* instruction, a phi and a terminator.                                    *)
(***************************************************************************)
EXTENDS BodyLowering, TLC

I(id, op, args) == [id |-> id, op |-> op, args |-> args]
P(id, in)       == [id |-> id, ptr |-> FALSE, in |-> in]
Ptr(id, in)     == [id |-> id, ptr |-> TRUE, in |-> in]
Br(t)           == [op |-> "br", on |-> 0, to |-> <<t>>]
If(c, t, f)     == [op |-> "br", on |-> c, to |-> <<t, f>>]
Switch(c, to)   == [op |-> "switch", on |-> c, to |-> to]
Ret(v)          == [op |-> "ret", on |-> v, to |-> <<>>]
Unreachable     == [op |-> "unreachable", on |-> 0, to |-> <<>>]
B(phis, insts, term) == [phis |-> phis, insts |-> insts, term |-> term]
Body(bs)        == [i \in 0..(Len(bs) - 1) |-> bs[i + 1]]

Straight == Body(<<B(<<>>, <<I(1, "load", <<0>>), I(2, "binop", <<1, 0>>), I(0, "store", <<0, 2>>)>>, Ret(2))>>)

\* if (c) x = a op k; else x = load; return x op a
Diamond(op) == Body(<<
    B(<<>>, <<I(1, "alloca", <<>>), I(2, "load", <<1>>), I(3, "cmp", <<2>>)>>, If(3, 1, 2)),
    B(<<>>, <<I(4, op, <<2, 0>>)>>, Br(3)),
    B(<<>>, <<I(5, "load", <<0>>)>>, Br(3)),
    B(<<P(6, 1 :> 4 @@ 2 :> 5)>>, <<I(7, "binop", <<6, 2>>)>>, Ret(7))>>)

\* A rotated loop in which one phi takes the other's old value; op is loop-carried.
Rotated(op) == Body(<<
    B(<<>>, <<I(1, "load", <<0>>)>>, Br(1)),
    B(<<P(2, 0 :> 1 @@ 1 :> 4), P(3, 0 :> 0 @@ 1 :> 2)>>,
      <<I(4, op, <<2, 3>>), I(5, "cmp", <<4>>)>>, If(5, 1, 2)),
    B(<<>>, <<I(6, "binop", <<3, 4>>)>>, Ret(6))>>)

\* It leaves through a phi.
RotatedIntoPhi == [Rotated("binop") EXCEPT ![2] =
    B(<<P(6, 1 :> 3)>>, <<I(7, "binop", <<6, 3>>)>>, Ret(7))]

\* Its exit stands before it, and returns x.
ExitFirst(x) == Body(<<
    B(<<>>, <<I(1, "load", <<0>>)>>, Br(2)),
    B(<<>>, <<>>, Ret(x)),
    B(<<P(2, 0 :> 1 @@ 2 :> 3)>>, <<I(3, "binop", <<2, 1>>), I(4, "cmp", <<3>>)>>, If(4, 2, 1))>>)

\* A guarded loop that swaps two phis and leaves with one of them.
Guarded(op) == Body(<<
    B(<<>>, <<I(1, "load", <<0>>), I(2, "cmp", <<1>>)>>, If(2, 2, 1)),
    B(<<P(3, 0 :> 1 @@ 2 :> 5)>>, <<I(4, "unop", <<3>>)>>, Ret(4)),
    B(<<P(5, 0 :> 1 @@ 2 :> 6), P(6, 0 :> 0 @@ 2 :> 7)>>,
      <<I(7, op, <<5>>), I(8, "cmp", <<5, 6>>)>>, If(8, 1, 2))>>)

\* The same swap with a latch of its own, which dispatch takes.
Swap == Body(<<
    B(<<>>, <<I(1, "load", <<0>>)>>, Br(1)),
    B(<<P(2, 0 :> 1 @@ 2 :> 3), P(3, 0 :> 0 @@ 2 :> 2)>>, <<I(4, "cmp", <<2, 3>>)>>, If(4, 2, 3)),
    B(<<>>, <<I(5, "binop", <<2, 3>>)>>, Br(1)),
    B(<<>>, <<I(6, "binop", <<2, 3>>)>>, Ret(6))>>)

\* A self-loop in a case whose phi is read after the loop, when its variable already has
\* the next round's value.
LostCopy == Body(<<
    B(<<>>, <<I(1, "load", <<0>>)>>, Br(1)),
    B(<<P(2, 0 :> 1 @@ 1 :> 3)>>, <<I(3, "call", <<2>>), I(4, "cmp", <<3>>)>>, If(4, 1, 2)),
    B(<<>>, <<I(5, "helper", <<2>>)>>, Br(3)),
    B(<<>>, <<>>, Ret(2))>>)

\* Phis handed on through blocks that have nothing else, and both targets with phis.
Chained(op) == Body(<<
    B(<<>>, <<I(1, "load", <<0>>), I(2, "cmp", <<1>>)>>, If(2, 1, 2)),
    B(<<>>, <<I(3, op, <<1>>)>>, Br(3)),
    B(<<>>, <<>>, Br(3)),
    B(<<P(4, 1 :> 3 @@ 2 :> 1)>>, <<I(5, "cmp", <<4>>)>>, If(5, 4, 5)),
    B(<<P(6, 3 :> 4)>>, <<>>, Br(5)),
    B(<<P(7, 3 :> 4 @@ 4 :> 6)>>, <<I(8, "insertelt", <<7, 4>>)>>, Ret(8))>>)

\* A loop that leaves from two places into the same phi.
TwoExits == Body(<<
    B(<<>>, <<I(1, "load", <<0>>)>>, Br(1)),
    B(<<P(2, 0 :> 1 @@ 2 :> 5)>>, <<I(3, "cmp", <<2>>)>>, If(3, 2, 3)),
    B(<<P(4, 1 :> 2)>>, <<I(5, "binop", <<4>>), I(6, "cmp", <<5>>)>>, If(6, 1, 3)),
    B(<<P(7, 1 :> 2 @@ 2 :> 4)>>, <<>>, Ret(7))>>)

Cases == Body(<<
    B(<<>>, <<I(1, "load", <<0>>)>>, Switch(1, <<3, 1, 2>>)),
    B(<<>>, <<I(2, "extractelt", <<1>>)>>, Br(3)),
    B(<<P(3, 0 :> 1)>>, <<I(4, "cast", <<3>>), I(5, "cmp", <<4>>)>>, If(5, 3, 4)),
    B(<<P(6, 0 :> 0 @@ 1 :> 2 @@ 2 :> 4)>>, <<>>, Ret(6)),
    B(<<>>, <<>>, Unreachable)>>)

\* A value used in a block that is emitted before the one that defines it: by an
\* instruction, or by a phi that it comes into from there.
Early(op) == Body(<<
    B(<<>>, <<I(1, "load", <<0>>)>>, Br(2)),
    B(<<>>, <<I(2, "binop", <<3>>), I(0, "store", <<0, 2>>)>>, Br(2)),
    B(<<>>, <<I(3, op, <<1>>), I(4, "cmp", <<3>>)>>, If(4, 1, 3)),
    B(<<>>, <<I(5, "select", <<3, 3>>)>>, Ret(5))>>)

EarlyPhi(op) == Body(<<
    B(<<>>, <<I(1, "load", <<0>>)>>, Br(2)),
    B(<<>>, <<>>, Br(3)),
    B(<<>>, <<I(2, op, <<1>>), I(3, "cmp", <<2>>)>>, If(3, 1, 3)),
    B(<<P(4, 1 :> 2 @@ 2 :> 1)>>, <<>>, Ret(4))>>)

\* An access chain over a loop's phi, used in other cases; base is what it starts from.
Chain(base, op, top) == Body(<<
    B(<<>>, <<I(1, "alloca", <<>>), I(2, "load", <<0>>)>>, Br(1)),
    B(<<P(3, 0 :> 2 @@ 2 :> 8)>>,
      <<I(4, op, <<0>>), I(5, "gep", <<base, 3>>), I(6, top, IF top = "gep" THEN <<5, 4>> ELSE <<5>>), I(7, "cmp", <<3>>)>>,
      If(7, 2, 3)),
    B(<<>>, <<I(8, "load", <<6>>), I(0, "store", <<6, 3>>)>>, Br(1)),
    B(<<>>, <<I(9, "load", <<5>>)>>, Ret(9))>>)

\* A pointer walks through a loop; x is read behind it.
PointerLoop(x) == Body(<<
    B(<<>>, <<I(1, "alloca", <<>>), I(2, "load", <<0>>)>>, Br(1)),
    B(<<Ptr(3, 0 :> 1 @@ 1 :> 4)>>,
      <<I(4, "gep", <<3, 2>>), I(5, "load", <<3>>), I(6, "cmp", <<5>>)>>, If(6, 1, 2)),
    B(<<>>, <<I(7, "load", <<x>>)>>, Br(3)),
    B(<<>>, <<>>, Ret(7))>>)

\* An operand without a type: what an INSERTVAL makes has none.
Typeless(op) == Body(<<
    B(<<>>, <<I(1, "load", <<0>>), I(2, "cmp", <<1>>)>>, If(2, 1, 2)),
    B(<<>>, <<I(3, "insertval", <<1, 0>>), I(4, op, <<3, 3>>)>>, Br(2)),
    B(<<P(5, 0 :> 1 @@ 1 :> 4)>>, <<>>, Br(3)),
    B(<<>>, <<>>, Ret(5))>>)

\* A branch whose condition is computed in another case.
Condition(op) == Body(<<
    B(<<>>, <<I(1, "load", <<0>>)>>, Br(1)),
    B(<<P(2, 0 :> 1 @@ 2 :> 2)>>, <<I(3, op, <<2, 2>>)>>, Br(2)),
    B(<<>>, <<I(4, "extractval", <<2>>)>>, If(3, 1, 3)),
    B(<<>>, <<>>, Ret(4))>>)

\* One lane of a vector compare decides it.
Lane == Body(<<
    B(<<>>, <<I(1, "load", <<0>>)>>, Br(1)),
    B(<<P(2, 0 :> 1 @@ 2 :> 2)>>, <<I(3, "cmp", <<2>>), I(4, "boolextract", <<3, 0>>)>>, Br(2)),
    B(<<>>, <<I(5, "insertelt", <<2, 0>>)>>, If(4, 1, 3)),
    B(<<>>, <<>>, Ret(5))>>)

MCBodies ==
    {Straight, RotatedIntoPhi, Swap, LostCopy, TwoExits, Cases, Lane, ExitFirst(0), ExitFirst(2)}
    \cup {Diamond(op) : op \in {"binop", "shufflevec", "bitcast", "unknown", "dropped"}}
    \cup {Rotated(op) : op \in {"binop", "load", "select"}}
    \cup {Guarded(op) : op \in {"unop", "call", "newcall", "boolcast"}}
    \cup {Chained(op) : op \in {"load", "insertval", "shufflevec"}}
    \cup {Early("load")} \cup {EarlyPhi(op) : op \in {"load", "unop", "binop"}}
    \cup {Chain(b, op, top) : b \in {0, 1}, op \in {"load", "extractval"}, top \in {"gep", "ptrcast"}}
    \cup {Chain(4, "pointer", "gep"), PointerLoop(3), PointerLoop(4), PointerLoop(1)}
    \cup {Typeless(op) : op \in {"select", "extractval", "bitcast"}}
    \cup {Condition(op) : op \in {"cmp", "newcall", "select"}}

=============================================================================
