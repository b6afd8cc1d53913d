-------------------------- MODULE MCObjectResolver --------------------------
(* Instances of ObjectResolver for TLC. *)
EXTENDS ObjectResolver

Zero == [leaf |-> FALSE, pfn |-> 0]
Down == [leaf |-> FALSE, pfn |-> 2]
Leaf == [leaf |-> TRUE, pfn |-> 4]

\* Trees of up to two nodes, with holes, early leaves (the frames 4 and 5) and
\* pointers to the second node, or to frame 2 at the last level; trees without a
\* root or of a depth that is refused.
MCTables ==
    {[l1 |-> 1, levels |-> n, node |-> [x \in {1, 2} |-> IF x = 1 THEN a ELSE b]] :
        n \in 1 .. 2, a \in [0 .. 1 -> {Zero, Down, Leaf}],
        b \in {[i \in 0 .. 1 |-> IF i = 0 THEN x ELSE y] :
                  x \in {Zero, Leaf}, y \in {Leaf, [leaf |-> FALSE, pfn |-> 3]}}}
    \cup {[l1 |-> l, levels |-> n, node |-> [x \in {1, 2} |-> [i \in 0 .. 1 |-> Leaf]]] :
             l \in 0 .. 1, n \in {0, 3, 5}}

MCObjects ==
    {[type |-> t, bytes |-> 0, next |-> v, magic |-> TRUE, len |-> 6] :
        t \in {FUNCTION, PIPELINE}, v \in {2}}

\* Longer and shorter than the older lookup's window of four bytes.
MCDescs == UNION {[1 .. n -> {0, 4, 5, 6}] : n \in 0 .. 6}

MCAttrs == UNION {[1 .. n -> {[fmt |-> f, off |-> o, buf |-> 0] :
                              f \in {0, 9, 31}, o \in {0, 16, 32}}] : n \in 0 .. 3}

MCStrides == UNION {[1 .. n -> {[val |-> v, tag |-> g] :
                                v \in {4, 24, 48}, g \in {1, 3}}] : n \in 0 .. 4}
=============================================================================
