------------------------------ MODULE InnerOps ------------------------------
(***************************************************************************)
(* The inner commands of a command buffer, as far as their layout goes:    *)
(* for every opcode the body its handler insists on and the part of the    *)
(* body it then reads, in 32-bit words.  The render commands               *)
(* (render_inner_ops.c) do nothing but decode and log; blit commands       *)
(* (blit_inner_ops.c) are acknowledged except for a copy and a fill; the   *)
(* compute-encoder commands (compute_inner_ops.c), which carry real draws, *)
(* are modelled by EncoderState and appear here only with their layout.    *)
(***************************************************************************)
EXTENDS Integers, Sequences, FiniteSets

\* An entry per opcode from first on.
FromSeqs(first, need, reads) ==
    [op \in first .. (first + Len(need) - 1) |->
        [need |-> need[op - first + 1], reads |-> reads[op - first + 1], each |-> 0]]

\* Entries of op_set_buffers_variable: a count, a first index and count entries
\* of the given size, of which at most four are read.
Variable(ops, words) == [op \in ops |-> [need |-> 2, reads |-> 2, each |-> words]]

Merge(f, g) == [op \in DOMAIN f \cup DOMAIN g |-> IF op \in DOMAIN g THEN g[op] ELSE f[op]]

\* DrawPrimitives64 .. ExecuteCommandsInBufferRanged (0x00..0x15)
RenderDraws ==
    FromSeqs(0, <<5, 2, 7, 2, 9, 3, 6, 3, 8, 4, 12, 5, 12, 4, 15, 6, 4, 7, 7, 10, 4, 5>>,
                <<5, 2, 7, 2, 1, 1, 6, 3, 2, 1, 1, 1, 0, 0, 0, 0, 2, 1, 0, 0, 2, 1>>)

\* Barriers, fences, the render pass and heaps (0x16..0x1d), 0x2c and 0x3c
RenderPass ==
    Merge(FromSeqs(22, <<0, 1, 2, 2, 146, 2, 12, 5>>, <<0, 1, 2, 2, 146, 2, 1, 1>>),
          [op \in {44, 60} |-> IF op = 44 THEN [need |-> 22, reads |-> 22, each |-> 0]
                               ELSE [need |-> 2, reads |-> 2, each |-> 0]])

\* SetBlendColor .. SetDepthClipMode (0x65..0x6d)
RenderBlend ==
    FromSeqs(101, <<4, 2, 3, 1, 2, 2, 2, 3, 2>>, <<4, 2, 2, 1, 1, 1, 2, 3, 2>>)

\* Buffers, textures and samplers of a stage (0x6e..0x72, 0x7d..0x81, 0x9d..0xa1,
\* 0xa5)
BufferTables ==
    Merge(Merge(Variable({110, 113, 125, 128, 157, 160}, 3),
                Variable({112, 114, 127, 129, 159, 161}, 1)),
          Variable({165}, 5))

\* SetFragmentBufferOffset, SetFrontFacingWinding .. SetTriangleFillMode
RenderState ==
    Merge(FromSeqs(111, <<3>>, <<3>>),
          FromSeqs(115, <<2, 1, 8, 1, 2, 2, 2, 5, 1, 2>>, <<2, 1, 8, 1, 2, 1, 1, 1, 1, 1>>))

\* SetVertexBufferOffset, SetViewport .. SetClipPlane (0x7e, 0x82..0x8c)
RenderViewport ==
    Merge(FromSeqs(126, <<3>>, <<3>>),
          FromSeqs(130, <<12, 1, 4, 0, 1, 2, 1, 3, 1, 1, 5>>,
                        <<12, 1, 4, 0, 1, 2, 1, 3, 1, 1, 5>>))

\* SetVertexSamplerState .. SetVertexAmplificationCount (0x8d..0x9a)
RenderSampler ==
    FromSeqs(141, <<5, 5, 1, 1, 2, 1, 1, 0, 0, 4, 3, 3, 2, 1>>,
                  <<5, 5, 1, 1, 2, 1, 1, 0, 0, 2, 1, 1, 2, 1>>)

\* Tile commands (0x9b, 0x9c, 0x9e, 0xa2..0xa4) and 0xa6
RenderTile ==
    Merge(Merge(FromSeqs(155, <<6, 5>>, <<6, 5>>), FromSeqs(158, <<3>>, <<3>>)),
          Merge(FromSeqs(162, <<19, 19, 3>>, <<6, 19, 3>>), FromSeqs(166, <<5>>, <<5>>)))

\* table_lookup and lagfx_render_inner_dispatch: an opcode that is not in the
\* table is counted and ignored.
RenderOps ==
    Merge(Merge(Merge(RenderDraws, RenderPass), Merge(RenderBlend, BufferTables)),
          Merge(Merge(RenderState, RenderViewport), Merge(RenderSampler, RenderTile)))

\* CopyFromTextureToTexture reads 40 bytes.
BlitCopy == FromSeqs(303, <<10>>, <<10>>)

\* FillTextureWithColor insists on 92 bytes and reads the first 72.
BlitFill == FromSeqs(321, <<23>>, <<18>>)

\* lagfx_blit_inner_dispatch: 0x12c..0x143 are an array indexed by opcode, seven
\* more are searched for; the rest is acknowledged without reading anything.
BlitOps ==
    LET ack == [op \in (300 .. 323) \cup {1, 26, 110, 112, 114, 116, 125} |->
                   [need |-> 0, reads |-> 0, each |-> 0]]
    IN  Merge(ack, Merge(BlitCopy, BlitFill))

\* What a handler reads of a body of len words whose first word is count.
ReadsOfUnchecked(e, len, count) ==
    IF len < e.need THEN 0
    ELSE e.reads + e.each * (IF count < 4 THEN count ELSE 4)

ReadsOf(e, len, count) ==
    IF len < e.need THEN 0
    ELSE IF len < e.need + e.each * count THEN e.reads
    ELSE e.reads + e.each * (IF count < 4 THEN count ELSE 4)

EncoderOps(enc) == IF enc = 2 THEN RenderOps ELSE BlitOps
=============================================================================
