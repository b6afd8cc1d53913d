--------------------------- MODULE MCEncoderState ---------------------------
(* Shader pairs and rectangles for model checking EncoderState. *)
EXTENDS EncoderState

Image(no) == [no |-> no, kind |-> "image", metal |-> -1]
Buffer(no, metal) == [no |-> no, kind |-> "buffer", metal |-> metal]
Sampler(no) == [no |-> no, kind |-> "sampler", metal |-> -1]
Other(no) == [no |-> no, kind |-> "other", metal |-> -1]

\* Separate streams with textures and a claimed buffer; one input without a stride;
\* a shader without inputs; one with a binding no layout knows.
MCPrograms ==
    {[in |-> <<2, 2>>, bind |-> <<Buffer(0, 1), Image(2), Sampler(3)>>,
      samples |-> TRUE, stride |-> 24],
     [in |-> <<3>>, bind |-> <<>>, samples |-> FALSE, stride |-> 0],
     [in |-> <<>>, bind |-> <<Buffer(2, -1), Buffer(3, 0)>>, samples |-> FALSE, stride |-> 0],
     [in |-> <<4, 2>>, bind |-> <<Buffer(0, -1), Other(1)>>, samples |-> FALSE, stride |-> 48]}

\* The rectangle comes first: TLC orders the fields of a record by where it meets their
\* names, and its workers share the records of MCRects, which must be in that order.
\* One rectangle is cut, one is refused: its far edge would wrap.
MCRects == {[x |-> 1, y |-> 1, w |-> 6, h |-> 1], [x |-> 1, y |-> 1, w |-> 15, h |-> 1]}
MCTarget == [w |-> 4, h |-> 3]
=============================================================================
