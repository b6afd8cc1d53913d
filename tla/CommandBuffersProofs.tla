------------------------ MODULE CommandBuffersProofs ------------------------
(***************************************************************************)
(* From the guest's pages to the handlers of its commands.  The second     *)
(* half proves what CommandBuffers is given: a page-wise read delivers the *)
(* words the radix tree maps, into a buffer that is large enough, and the  *)
(* scans of a descriptor take from it what they should.  The first half:   *)
(* the walk of a command buffer stays inside the words that arrived, for   *)
(* buffers of any length with anything in them, and no handler of an inner *)
(* command reads past the body it is given, for bodies of any length.      *)
(*                                                                         *)
(* CommandsInside is not inductive: it says nothing of the cursors.  The   *)
(* invariant adds where they stand in each state of the walk (inside the   *)
(* current segment, behind the last command, or at the end of a run of     *)
(* markers) and that a word, once read, keeps its value.                   *)
(*                                                                         *)
(* Reads: translation recurses over the levels of the tree.  Iteration     *)
(* shows that such a definition has a value at every level, RangeInduction *)
(* what is true of all of them; the rest is that two addresses of a page   *)
(* take the same way down and differ in the offset alone.                  *)
(***************************************************************************)
EXTENDS CommandBuffers, ObjectResolver, SequenceTheorems, FiniteSetTheorems,
        WellFoundedInduction, TLAPS

-----------------------------------------------------------------------------
(* Handlers. *)

\* A table whose entries insist on at least the fixed part they read.
Sound(ops) ==
    \A code \in DOMAIN ops :
        /\ ops[code].need \in Nat /\ ops[code].reads \in Nat /\ ops[code].each \in Nat
        /\ ops[code].reads <= ops[code].need

LEMMA ReadsOfFits ==
    ASSUME NEW e, e.need \in Nat, e.reads \in Nat, e.each \in Nat, e.reads <= e.need,
           NEW n \in Nat, NEW count \in Nat
    PROVE  ReadsOf(e, n, count) <= n
<1> DEFINE some == IF count < 4 THEN count ELSE 4
<1>1. some \in Nat /\ some <= count
  OBVIOUS
<1>2. e.each * some <= e.each * count
  <2> HIDE DEF some
  <2> QED  BY <1>1
<1>3. e.each * some \in Nat /\ e.each * count \in Nat
  BY <1>1
<1> QED  BY <1>2, <1>3 DEF ReadsOf

LEMMA MergeSound ==
    ASSUME NEW f, NEW g, Sound(f), Sound(g)
    PROVE  Sound(Merge(f, g))
BY DEF Sound, Merge

LEMMA VariableSound ==
    ASSUME NEW ops, NEW words \in Nat
    PROVE  Sound(Variable(ops, words))
BY DEF Sound, Variable

LEMMA FromSeqsSound ==
    ASSUME NEW first \in Nat, NEW need \in Seq(Nat), NEW reads \in Seq(Nat),
           \A i \in 1 .. Len(need) : i \in 1 .. Len(reads) /\ reads[i] <= need[i]
    PROVE  Sound(FromSeqs(first, need, reads))
<1> SUFFICES ASSUME NEW code \in first .. (first + Len(need) - 1)
             PROVE  /\ need[code - first + 1] \in Nat /\ reads[code - first + 1] \in Nat
                    /\ reads[code - first + 1] <= need[code - first + 1]
  BY DEF Sound, FromSeqs
<1>1. code - first + 1 \in 1 .. Len(need)
  OBVIOUS
<1> QED  BY <1>1

\* The tables of render_inner_ops.c and blit_inner_ops.c, entry by entry.
LEMMA RenderDrawsSound == Sound(RenderDraws)
<1> DEFINE need == <<5, 2, 7, 2, 9, 3, 6, 3, 8, 4, 12, 5, 12, 4, 15, 6, 4, 7, 7, 10, 4, 5>>
           reads == <<5, 2, 7, 2, 1, 1, 6, 3, 2, 1, 1, 1, 0, 0, 0, 0, 2, 1, 0, 0, 2, 1>>
<1>1. /\ need \in Seq(Nat) /\ reads \in Seq(Nat)
      /\ \A i \in 1 .. Len(need) : i \in 1 .. Len(reads) /\ reads[i] <= need[i]
  OBVIOUS
<1>2. RenderDraws = FromSeqs(0, need, reads)
  BY DEF RenderDraws
<1> HIDE DEF need, reads
<1> QED  BY <1>1, <1>2, FromSeqsSound

LEMMA RenderBlendSound == Sound(RenderBlend)
<1> DEFINE need == <<4, 2, 3, 1, 2, 2, 2, 3, 2>>
           reads == <<4, 2, 2, 1, 1, 1, 2, 3, 2>>
<1>1. /\ need \in Seq(Nat) /\ reads \in Seq(Nat)
      /\ \A i \in 1 .. Len(need) : i \in 1 .. Len(reads) /\ reads[i] <= need[i]
  OBVIOUS
<1>2. RenderBlend = FromSeqs(101, need, reads)
  BY DEF RenderBlend
<1> HIDE DEF need, reads
<1> QED  BY <1>1, <1>2, FromSeqsSound

LEMMA RenderSamplerSound == Sound(RenderSampler)
<1> DEFINE need == <<5, 5, 1, 1, 2, 1, 1, 0, 0, 4, 3, 3, 2, 1>>
           reads == <<5, 5, 1, 1, 2, 1, 1, 0, 0, 2, 1, 1, 2, 1>>
<1>1. /\ need \in Seq(Nat) /\ reads \in Seq(Nat)
      /\ \A i \in 1 .. Len(need) : i \in 1 .. Len(reads) /\ reads[i] <= need[i]
  OBVIOUS
<1>2. RenderSampler = FromSeqs(141, need, reads)
  BY DEF RenderSampler
<1> HIDE DEF need, reads
<1> QED  BY <1>1, <1>2, FromSeqsSound

LEMMA BlitCopySound == Sound(BlitCopy)
<1> DEFINE need == <<10>>
           reads == <<10>>
<1>1. /\ need \in Seq(Nat) /\ reads \in Seq(Nat)
      /\ \A i \in 1 .. Len(need) : i \in 1 .. Len(reads) /\ reads[i] <= need[i]
  OBVIOUS
<1>2. BlitCopy = FromSeqs(303, need, reads)
  BY DEF BlitCopy
<1> HIDE DEF need, reads
<1> QED  BY <1>1, <1>2, FromSeqsSound

LEMMA BlitFillSound == Sound(BlitFill)
<1> DEFINE need == <<23>>
           reads == <<18>>
<1>1. /\ need \in Seq(Nat) /\ reads \in Seq(Nat)
      /\ \A i \in 1 .. Len(need) : i \in 1 .. Len(reads) /\ reads[i] <= need[i]
  OBVIOUS
<1>2. BlitFill = FromSeqs(321, need, reads)
  BY DEF BlitFill
<1> HIDE DEF need, reads
<1> QED  BY <1>1, <1>2, FromSeqsSound

LEMMA RenderStateSound == Sound(RenderState)
<1>1. Sound(FromSeqs(111, <<3>>,
                    <<3>>))
  <2> DEFINE need == <<3>>
             reads == <<3>>
  <2>1. /\ need \in Seq(Nat) /\ reads \in Seq(Nat)
        /\ \A i \in 1 .. Len(need) : i \in 1 .. Len(reads) /\ reads[i] <= need[i]
    OBVIOUS
  <2> HIDE DEF need, reads
  <2>2. Sound(FromSeqs(111, need, reads))
    BY <2>1, FromSeqsSound
  <2> QED  BY <2>2 DEF need, reads
<1>2. Sound(FromSeqs(115, <<2, 1, 8, 1, 2, 2, 2, 5, 1, 2>>,
                    <<2, 1, 8, 1, 2, 1, 1, 1, 1, 1>>))
  <2> DEFINE need == <<2, 1, 8, 1, 2, 2, 2, 5, 1, 2>>
             reads == <<2, 1, 8, 1, 2, 1, 1, 1, 1, 1>>
  <2>1. /\ need \in Seq(Nat) /\ reads \in Seq(Nat)
        /\ \A i \in 1 .. Len(need) : i \in 1 .. Len(reads) /\ reads[i] <= need[i]
    OBVIOUS
  <2> HIDE DEF need, reads
  <2>2. Sound(FromSeqs(115, need, reads))
    BY <2>1, FromSeqsSound
  <2> QED  BY <2>2 DEF need, reads
<1> QED  BY <1>1, <1>2, MergeSound DEF RenderState

LEMMA RenderViewportSound == Sound(RenderViewport)
<1>1. Sound(FromSeqs(126, <<3>>,
                    <<3>>))
  <2> DEFINE need == <<3>>
             reads == <<3>>
  <2>1. /\ need \in Seq(Nat) /\ reads \in Seq(Nat)
        /\ \A i \in 1 .. Len(need) : i \in 1 .. Len(reads) /\ reads[i] <= need[i]
    OBVIOUS
  <2> HIDE DEF need, reads
  <2>2. Sound(FromSeqs(126, need, reads))
    BY <2>1, FromSeqsSound
  <2> QED  BY <2>2 DEF need, reads
<1>2. Sound(FromSeqs(130, <<12, 1, 4, 0, 1, 2, 1, 3, 1, 1, 5>>,
                    <<12, 1, 4, 0, 1, 2, 1, 3, 1, 1, 5>>))
  <2> DEFINE need == <<12, 1, 4, 0, 1, 2, 1, 3, 1, 1, 5>>
             reads == <<12, 1, 4, 0, 1, 2, 1, 3, 1, 1, 5>>
  <2>1. /\ need \in Seq(Nat) /\ reads \in Seq(Nat)
        /\ \A i \in 1 .. Len(need) : i \in 1 .. Len(reads) /\ reads[i] <= need[i]
    OBVIOUS
  <2> HIDE DEF need, reads
  <2>2. Sound(FromSeqs(130, need, reads))
    BY <2>1, FromSeqsSound
  <2> QED  BY <2>2 DEF need, reads
<1> QED  BY <1>1, <1>2, MergeSound DEF RenderViewport

LEMMA RenderTileSound == Sound(RenderTile)
<1>1. Sound(FromSeqs(155, <<6, 5>>,
                    <<6, 5>>))
  <2> DEFINE need == <<6, 5>>
             reads == <<6, 5>>
  <2>1. /\ need \in Seq(Nat) /\ reads \in Seq(Nat)
        /\ \A i \in 1 .. Len(need) : i \in 1 .. Len(reads) /\ reads[i] <= need[i]
    OBVIOUS
  <2> HIDE DEF need, reads
  <2>2. Sound(FromSeqs(155, need, reads))
    BY <2>1, FromSeqsSound
  <2> QED  BY <2>2 DEF need, reads
<1>2. Sound(FromSeqs(158, <<3>>,
                    <<3>>))
  <2> DEFINE need == <<3>>
             reads == <<3>>
  <2>1. /\ need \in Seq(Nat) /\ reads \in Seq(Nat)
        /\ \A i \in 1 .. Len(need) : i \in 1 .. Len(reads) /\ reads[i] <= need[i]
    OBVIOUS
  <2> HIDE DEF need, reads
  <2>2. Sound(FromSeqs(158, need, reads))
    BY <2>1, FromSeqsSound
  <2> QED  BY <2>2 DEF need, reads
<1>3. Sound(FromSeqs(162, <<19, 19, 3>>,
                    <<6, 19, 3>>))
  <2> DEFINE need == <<19, 19, 3>>
             reads == <<6, 19, 3>>
  <2>1. /\ need \in Seq(Nat) /\ reads \in Seq(Nat)
        /\ \A i \in 1 .. Len(need) : i \in 1 .. Len(reads) /\ reads[i] <= need[i]
    OBVIOUS
  <2> HIDE DEF need, reads
  <2>2. Sound(FromSeqs(162, need, reads))
    BY <2>1, FromSeqsSound
  <2> QED  BY <2>2 DEF need, reads
<1>4. Sound(FromSeqs(166, <<5>>,
                    <<5>>))
  <2> DEFINE need == <<5>>
             reads == <<5>>
  <2>1. /\ need \in Seq(Nat) /\ reads \in Seq(Nat)
        /\ \A i \in 1 .. Len(need) : i \in 1 .. Len(reads) /\ reads[i] <= need[i]
    OBVIOUS
  <2> HIDE DEF need, reads
  <2>2. Sound(FromSeqs(166, need, reads))
    BY <2>1, FromSeqsSound
  <2> QED  BY <2>2 DEF need, reads
<1>5. /\ Sound(Merge(FromSeqs(155, <<6, 5>>, <<6, 5>>), FromSeqs(158, <<3>>, <<3>>)))
      /\ Sound(Merge(FromSeqs(162, <<19, 19, 3>>, <<6, 19, 3>>), FromSeqs(166, <<5>>, <<5>>)))
  BY <1>1, <1>2, <1>3, <1>4, MergeSound
<1> QED  BY <1>5, MergeSound DEF RenderTile

LEMMA RenderPassSound == Sound(RenderPass)
<1>1. Sound(FromSeqs(22, <<0, 1, 2, 2, 146, 2, 12, 5>>,
                    <<0, 1, 2, 2, 146, 2, 1, 1>>))
  <2> DEFINE need == <<0, 1, 2, 2, 146, 2, 12, 5>>
             reads == <<0, 1, 2, 2, 146, 2, 1, 1>>
  <2>1. /\ need \in Seq(Nat) /\ reads \in Seq(Nat)
        /\ \A i \in 1 .. Len(need) : i \in 1 .. Len(reads) /\ reads[i] <= need[i]
    OBVIOUS
  <2> HIDE DEF need, reads
  <2>2. Sound(FromSeqs(22, need, reads))
    BY <2>1, FromSeqsSound
  <2> QED  BY <2>2 DEF need, reads
<1>2. Sound([code \in {44, 60} |-> IF code = 44 THEN [need |-> 22, reads |-> 22, each |-> 0]
                                ELSE [need |-> 2, reads |-> 2, each |-> 0]])
  BY DEF Sound
<1> QED  BY <1>1, <1>2, MergeSound DEF RenderPass

LEMMA BufferTablesSound == Sound(BufferTables)
BY VariableSound, MergeSound DEF BufferTables

LEMMA EncoderOpsSound ==
    ASSUME NEW enc
    PROVE  Sound(EncoderOps(enc))
<1>1. Sound(RenderOps)
  BY RenderDrawsSound, RenderPassSound, RenderBlendSound, BufferTablesSound,
     RenderStateSound, RenderViewportSound, RenderSamplerSound, RenderTileSound,
     MergeSound DEF RenderOps
<1>2. Sound([code \in (300 .. 323) \cup {1, 26, 110, 112, 114, 116, 125} |->
                 [need |-> 0, reads |-> 0, each |-> 0]])
  BY DEF Sound
<1>3. Sound(BlitOps)
  BY <1>2, BlitCopySound, BlitFillSound, MergeSound DEF BlitOps
<1> QED  BY <1>1, <1>3 DEF EncoderOps

\* No handler of a render or blit command reads past its body, for a body of any
\* length and any element count in it: HandlersStayInBody without its bounds
\* (render_inner_ops.c, blit_inner_ops.c).
THEOREM HandlersReadTheirBody ==
    \A enc \in {2, 4} : \A code \in DOMAIN EncoderOps(enc) : \A n, count \in Nat :
        ReadsOf(EncoderOps(enc)[code], n, count) <= n
<1> SUFFICES ASSUME NEW enc \in {2, 4}, NEW code \in DOMAIN EncoderOps(enc),
                    NEW n \in Nat, NEW count \in Nat
             PROVE  ReadsOf(EncoderOps(enc)[code], n, count) <= n
  OBVIOUS
<1>1. Sound(EncoderOps(enc))
  BY EncoderOpsSound
<1> DEFINE e == EncoderOps(enc)[code]
<1>2. e.need \in Nat /\ e.reads \in Nat /\ e.each \in Nat /\ e.reads <= e.need
  BY <1>1 DEF Sound
<1> HIDE DEF e
<1>3. ReadsOf(e, n, count) <= n
  BY <1>2, ReadsOfFits
<1> QED  BY <1>3 DEF e

LEMMA HandlersInBody == HandlersStayInBody
BY HandlersReadTheirBody DEF HandlersStayInBody

-----------------------------------------------------------------------------
(* The walk. *)

SegEntry == [off : Nat, size : Nat, enc : Encoders]
LogEntry == [enc : Encoders, op : Nat, off : Nat, end : Nat]

WalkTypeOK ==
    /\ pc \in {"resource", "locate", "segment", "command", "done"}
    /\ mem \in [0 .. (MaxWords - 1) -> Nat \cup {Unread}]
    /\ len \in 0 .. MaxWords
    /\ off \in Nat /\ cmd \in Nat
    /\ segs \in Seq(SegEntry)
    /\ log \in Seq(LogEntry)

EndOf(s) == s.off + s.size

\* From one offset to another, in a buffer m of n words, there is nothing but markers
\* of four words.
Markers(m, n, from, to) ==
    /\ to <= n
    /\ \E j \in Nat : /\ to = from + 4 * j
                      /\ \A k \in 0 .. (j - 1) : m[from + 4 * k + 1] = Marker

SegsInside == \A i \in 1 .. Len(segs) : EndOf(segs[i]) <= len

LogInside ==
    \A i \in 1 .. Len(log) : \E s \in 1 .. Len(segs) :
        /\ log[i].enc = segs[s].enc
        /\ segs[s].off + 2 <= log[i].off
        /\ log[i].end <= EndOf(segs[s])

LogOrdered == \A i \in 1 .. (Len(log) - 1) : log[i].end <= log[i + 1].off

OnlyMarkersSkipped ==
    \A i \in 1 .. (Len(segs) - 1) : Markers(mem, len, EndOf(segs[i]), segs[i + 1].off)

\* Every command logged so far ends at or before o.
LogBefore(o) == Len(log) > 0 => log[Len(log)].end <= o

\* Where the cursors stand.
AtLocate == pc = "locate" => segs = <<>> /\ log = <<>>

AtSegment ==
    pc = "segment" =>
        /\ LogBefore(off)
        /\ Len(segs) > 0 => Markers(mem, len, EndOf(segs[Len(segs)]), off)

AtCommand ==
    pc = "command" =>
        /\ Len(segs) > 0 /\ off = segs[Len(segs)].off
        /\ off + 2 <= cmd /\ cmd <= SegEnd
        /\ LogBefore(cmd)

WalkInv ==
    /\ WalkTypeOK
    /\ SegsInside /\ LogInside /\ LogOrdered /\ OnlyMarkersSkipped
    /\ AtLocate /\ AtSegment /\ AtCommand

-----------------------------------------------------------------------------

\* The words that hold a marker in m hold one in p.
Kept(m, p, n) == \A x \in 0 .. (n - 1) : m[x] = Marker => p[x] = Marker

LEMMA MarkersKept ==
    ASSUME NEW m, NEW p, NEW n \in Nat, NEW from \in Nat, NEW to \in Nat,
           Kept(m, p, n), Markers(m, n, from, to)
    PROVE  Markers(p, n, from, to)
<1> PICK j \in Nat : /\ to = from + 4 * j
                     /\ \A k \in 0 .. (j - 1) : m[from + 4 * k + 1] = Marker
  BY DEF Markers
<1>1. ASSUME NEW k \in 0 .. (j - 1)
      PROVE  p[from + 4 * k + 1] = Marker
  <2>1. from + 4 * k + 1 \in 0 .. (n - 1)
    BY DEF Markers
  <2> QED  BY <2>1 DEF Kept
<1> QED  BY <1>1 DEF Markers

\* One more marker.
LEMMA MarkersExtended ==
    ASSUME NEW m, NEW n \in Nat, NEW from \in Nat, NEW to \in Nat,
           Markers(m, n, from, to), to + 4 <= n, m[to + 1] = Marker
    PROVE  Markers(m, n, from, to + 4)
<1> PICK j \in Nat : /\ to = from + 4 * j
                     /\ \A k \in 0 .. (j - 1) : m[from + 4 * k + 1] = Marker
  BY DEF Markers
<1>1. ASSUME NEW k \in 0 .. j
      PROVE  m[from + 4 * k + 1] = Marker
  <2>1. CASE k = j  BY <2>1
  <2>2. CASE k \in 0 .. (j - 1)  BY <2>2
  <2> QED  BY <2>1, <2>2
<1>2. j + 1 \in Nat /\ to + 4 = from + 4 * (j + 1) /\ (j + 1) - 1 = j
  OBVIOUS
<1> QED  BY <1>1, <1>2 DEF Markers

\* A word that was read keeps its value.
LEMMA ReadingKeeps ==
    ASSUME WalkTypeOK, NEW o \in Nat, NEW a \in Words, NEW b \in Words, Reading(o, a, b)
    PROVE  /\ mem' \in [0 .. (MaxWords - 1) -> Nat \cup {Unread}]
           /\ Kept(mem, mem', len)
           /\ mem'[o + 1] = b /\ o + 1 < len
<1>1. a \in Nat /\ b \in Nat
  BY WalkAssumption
<1>2. o \in 0 .. (MaxWords - 1) /\ o + 1 \in 0 .. (MaxWords - 1) /\ o + 1 < len
  BY WalkAssumption DEF WalkTypeOK, Reading
<1>3. 0 .. (len - 1) \subseteq 0 .. (MaxWords - 1)
  BY WalkAssumption DEF WalkTypeOK
<1> QED  BY <1>1, <1>2, <1>3 DEF WalkTypeOK, Reading, Kept, Marker, Unread

LEMMA EntriesTyped ==
    ASSUME WalkTypeOK
    PROVE  /\ len \in Nat /\ Len(segs) \in Nat /\ Len(log) \in Nat
           /\ \A i \in 1 .. Len(segs) : /\ segs[i] \in SegEntry
                                        /\ segs[i].off \in Nat /\ segs[i].size \in Nat
                                        /\ EndOf(segs[i]) \in Nat
           /\ \A i \in 1 .. Len(log) : log[i].off \in Nat /\ log[i].end \in Nat
<1>1. len \in Nat /\ Len(segs) \in Nat /\ Len(log) \in Nat
  BY WalkAssumption DEF WalkTypeOK
<1>2. \A i \in 1 .. Len(segs) : segs[i] \in SegEntry
  BY DEF WalkTypeOK
<1>3. \A i \in 1 .. Len(log) : log[i] \in LogEntry
  BY DEF WalkTypeOK
<1> QED  BY <1>1, <1>2, <1>3 DEF SegEntry, LogEntry, EndOf

\* The parts of the invariant that a step which logs nothing leaves alone.
LEMMA StepKeeps ==
    ASSUME WalkInv, UNCHANGED <<len, segs, log>>, Kept(mem, mem', len)
    PROVE  SegsInside' /\ LogInside' /\ LogOrdered' /\ OnlyMarkersSkipped'
<1>1. SegsInside' /\ LogInside' /\ LogOrdered'
  BY DEF WalkInv, SegsInside, LogInside, LogOrdered, EndOf
<1>2. ASSUME NEW i \in 1 .. (Len(segs) - 1)
      PROVE  Markers(mem', len, EndOf(segs[i]), segs[i + 1].off)
  <2>1. EndOf(segs[i]) \in Nat /\ segs[i + 1].off \in Nat /\ len \in Nat
    <3>1. i \in 1 .. Len(segs) /\ i + 1 \in 1 .. Len(segs)
      BY EntriesTyped DEF WalkInv
    <3> QED  BY <3>1, EntriesTyped DEF WalkInv
  <2>2. Markers(mem, len, EndOf(segs[i]), segs[i + 1].off)
    BY DEF WalkInv, OnlyMarkersSkipped
  <2> QED  BY <2>1, <2>2, MarkersKept
<1> QED  BY <1>1, <1>2 DEF OnlyMarkersSkipped

LEMMA InitInv == WalkInit => WalkInv
<1> SUFFICES ASSUME WalkInit PROVE WalkInv
  OBVIOUS
<1>1. WalkTypeOK
  BY WalkAssumption DEF WalkInit, WalkTypeOK
<1> QED  BY <1>1 DEF WalkInit, WalkInv, SegsInside, LogInside, LogOrdered,
                     OnlyMarkersSkipped, AtLocate, AtSegment, AtCommand

LEMMA ResourceInv ==
    ASSUME NEW n \in 0 .. MaxWords, NextResource(n)
    PROVE  WalkInv'
<1>1. WalkTypeOK'
  BY WalkAssumption DEF NextResource, WalkTypeOK
<1> QED  BY <1>1 DEF NextResource, WalkInv, SegsInside, LogInside, LogOrdered,
                     OnlyMarkersSkipped, AtLocate, AtSegment, AtCommand

LEMMA DoneInv ==
    ASSUME WalkInv, ExecDone
    PROVE  WalkInv'
<1>1. WalkTypeOK'
  BY DEF WalkInv, ExecDone, WalkTypeOK
<1>2. SegsInside' /\ LogInside' /\ LogOrdered' /\ OnlyMarkersSkipped'
  BY StepKeeps DEF ExecDone, Kept
<1> QED  BY <1>1, <1>2 DEF ExecDone, WalkInv, AtLocate, AtSegment, AtCommand

LEMMA LocateInv ==
    ASSUME WalkInv, Locate
    PROVE  WalkInv'
<1>1. Kept(mem, mem', len) /\ mem' \in [0 .. (MaxWords - 1) -> Nat \cup {Unread}]
  BY ReadingKeeps DEF Locate, WalkInv, WalkTypeOK, Kept
<1>2. /\ UNCHANGED <<todo, len, cmd, segs, log>>
      /\ pc' \in {"segment", "resource", "locate"} /\ off' \in Nat
      /\ segs = <<>> /\ log = <<>>
  BY DEF Locate, WalkInv, WalkTypeOK, AtLocate
<1>3. WalkTypeOK'
  BY <1>1, <1>2 DEF WalkInv, WalkTypeOK
<1>4. SegsInside' /\ LogInside' /\ LogOrdered' /\ OnlyMarkersSkipped'
  BY <1>1, <1>2, StepKeeps
<1> QED  BY <1>2, <1>3, <1>4 DEF WalkInv, AtLocate, AtSegment, AtCommand, LogBefore

-----------------------------------------------------------------------------
(* One iteration of the segment loop. *)

\* The walk of the buffer ends.
LEMMA SegmentStops ==
    ASSUME WalkInv, pc' = "resource", UNCHANGED <<off, cmd, segs, len, log>>,
           Kept(mem, mem', len), mem' \in [0 .. (MaxWords - 1) -> Nat \cup {Unread}]
    PROVE  WalkInv'
<1>1. WalkTypeOK'
  BY DEF WalkInv, WalkTypeOK
<1>2. SegsInside' /\ LogInside' /\ LogOrdered' /\ OnlyMarkersSkipped'
  BY StepKeeps
<1> QED  BY <1>1, <1>2 DEF WalkInv, AtLocate, AtSegment, AtCommand

\* A marker is skipped.
LEMMA SegmentMarker ==
    ASSUME WalkInv, pc = "segment", UNCHANGED <<pc, cmd, segs, len, log>>,
           off' = off + 4, off + 6 <= len, mem'[off + 1] = Marker,
           Kept(mem, mem', len), mem' \in [0 .. (MaxWords - 1) -> Nat \cup {Unread}]
    PROVE  WalkInv'
<1>1. WalkTypeOK'
  BY DEF WalkInv, WalkTypeOK
<1>2. SegsInside' /\ LogInside' /\ LogOrdered' /\ OnlyMarkersSkipped'
  BY StepKeeps
<1>3. LogBefore(off)'
  BY EntriesTyped DEF WalkInv, WalkTypeOK, AtSegment, LogBefore
<1>4. ASSUME Len(segs) > 0
      PROVE  Markers(mem', len, EndOf(segs[Len(segs)]), off + 4)
  <2>1. EndOf(segs[Len(segs)]) \in Nat /\ off \in Nat /\ len \in Nat
    BY <1>4, EntriesTyped DEF WalkInv, WalkTypeOK
  <2>2. Markers(mem, len, EndOf(segs[Len(segs)]), off)
    BY <1>4 DEF WalkInv, AtSegment
  <2>3. Markers(mem', len, EndOf(segs[Len(segs)]), off)
    BY <2>1, <2>2, MarkersKept
  <2>4. off + 4 <= len
    BY <2>1
  <2> QED  BY <2>1, <2>3, <2>4, MarkersExtended
<1>5. AtSegment'
  BY <1>3, <1>4 DEF AtSegment
<1> QED  BY <1>1, <1>2, <1>5 DEF WalkInv, AtLocate, AtCommand

\* A segment is entered.
LEMMA SegmentEnters ==
    ASSUME WalkInv, pc = "segment", NEW size \in Nat, NEW type \in Encoders,
           SegmentFits(size, off), pc' = "command", cmd' = off + 2,
           segs' = Append(segs, [off |-> off, size |-> size, enc |-> type]),
           UNCHANGED <<off, len, log>>,
           Kept(mem, mem', len), mem' \in [0 .. (MaxWords - 1) -> Nat \cup {Unread}]
    PROVE  WalkInv'
<1> DEFINE new == [off |-> off, size |-> size, enc |-> type]
<1>1. new \in SegEntry /\ off \in Nat /\ len \in Nat /\ EndOf(new) = off + size
  BY EntriesTyped DEF WalkInv, WalkTypeOK, SegEntry, EndOf
<1>2. WalkTypeOK'
  BY <1>1 DEF WalkInv, WalkTypeOK
<1>3. /\ Len(segs') = Len(segs) + 1 /\ Len(segs) \in Nat
      /\ segs'[Len(segs) + 1] = new
      /\ \A i \in 1 .. Len(segs) : segs'[i] = segs[i]
  BY <1>1 DEF WalkInv, WalkTypeOK
<1> HIDE DEF new
<1>4. SegsInside'
  <2>1. EndOf(new) <= len
    BY <1>1 DEF SegmentFits
  <2>2. \A i \in 1 .. Len(segs) : EndOf(segs[i]) <= len
    BY DEF WalkInv, SegsInside
  <2> QED  BY <1>3, <2>1, <2>2 DEF SegsInside
<1>5. LogInside' /\ LogOrdered'
  <2>1. LogOrdered'
    BY DEF WalkInv, LogOrdered
  <2>2. ASSUME NEW i \in 1 .. Len(log)
        PROVE  \E s \in 1 .. Len(segs') : /\ log[i].enc = segs'[s].enc
                                          /\ segs'[s].off + 2 <= log[i].off
                                          /\ log[i].end <= EndOf(segs'[s])
    <3>1. PICK s \in 1 .. Len(segs) : /\ log[i].enc = segs[s].enc
                                      /\ segs[s].off + 2 <= log[i].off
                                      /\ log[i].end <= EndOf(segs[s])
      BY DEF WalkInv, LogInside
    <3>2. s \in 1 .. Len(segs') /\ segs'[s] = segs[s]
      BY <1>3
    <3> QED  BY <3>1, <3>2
  <2> QED  BY <2>1, <2>2 DEF LogInside
<1>6. OnlyMarkersSkipped'
  <2>0. Len(segs') - 1 = Len(segs) /\ len' = len
    BY <1>3
  <2> SUFFICES ASSUME NEW i \in 1 .. Len(segs)
               PROVE  Markers(mem', len, EndOf(segs'[i]), segs'[i + 1].off)
    BY <2>0, Zenon DEF OnlyMarkersSkipped
  <2>1. CASE i = Len(segs)
    <3>1. EndOf(segs[i]) \in Nat
      BY EntriesTyped DEF WalkInv
    <3>2. Markers(mem, len, EndOf(segs[i]), off)
      BY <2>1 DEF WalkInv, AtSegment
    <3>3. Markers(mem', len, EndOf(segs[i]), off)
      BY <1>1, <3>1, <3>2, MarkersKept
    <3> QED  BY <1>3, <2>1, <3>3 DEF new
  <2>2. CASE i \in 1 .. (Len(segs) - 1)
    <3>1. EndOf(segs[i]) \in Nat /\ segs[i + 1].off \in Nat
      BY <1>3, <2>2, EntriesTyped DEF WalkInv
    <3>2. Markers(mem, len, EndOf(segs[i]), segs[i + 1].off)
      BY <2>2 DEF WalkInv, OnlyMarkersSkipped
    <3>3. Markers(mem', len, EndOf(segs[i]), segs[i + 1].off)
      BY <1>1, <3>1, <3>2, MarkersKept
    <3> QED  BY <1>3, <2>2, <3>3
  <2> QED  BY <1>3, <2>1, <2>2
<1>7. AtCommand'
  BY <1>1, <1>3, EntriesTyped, SMTT(30) DEF AtCommand, SegEnd, new, SegmentFits, LogBefore, WalkInv, AtSegment
<1> QED  BY <1>2, <1>4, <1>5, <1>6, <1>7 DEF WalkInv, AtLocate, AtSegment

LEMMA SegmentInv ==
    ASSUME WalkInv, Segment
    PROVE  WalkInv'
<1>1. CASE \E size, type \in Words :
             /\ Reading(off, size, type)
             /\ IF type = Marker
                THEN /\ IF off + 6 > len THEN pc' = "resource" /\ UNCHANGED off
                        ELSE off' = off + MarkerWords /\ UNCHANGED pc
                     /\ UNCHANGED <<cmd, segs>>
                ELSE IF type \notin Encoders \/ ~SegmentFits(size, off)
                THEN pc' = "resource" /\ UNCHANGED <<off, cmd, segs>>
                ELSE /\ pc' = "command" /\ cmd' = off + 2 /\ UNCHANGED off
                     /\ segs' = Append(segs, [off |-> off, size |-> size, enc |-> type])
  <2> PICK size \in Words, type \in Words :
             /\ Reading(off, size, type)
             /\ IF type = Marker
                THEN /\ IF off + 6 > len THEN pc' = "resource" /\ UNCHANGED off
                        ELSE off' = off + MarkerWords /\ UNCHANGED pc
                     /\ UNCHANGED <<cmd, segs>>
                ELSE IF type \notin Encoders \/ ~SegmentFits(size, off)
                THEN pc' = "resource" /\ UNCHANGED <<off, cmd, segs>>
                ELSE /\ pc' = "command" /\ cmd' = off + 2 /\ UNCHANGED off
                     /\ segs' = Append(segs, [off |-> off, size |-> size, enc |-> type])
    BY <1>1
  <2>1. /\ Kept(mem, mem', len) /\ mem' \in [0 .. (MaxWords - 1) -> Nat \cup {Unread}]
        /\ mem'[off + 1] = type
    BY ReadingKeeps DEF WalkInv, WalkTypeOK
  <2>2. pc = "segment" /\ UNCHANGED <<len, log>> /\ size \in Nat
    BY WalkAssumption DEF Segment
  <2>3. off \in Nat /\ len \in Nat
    BY EntriesTyped DEF WalkInv, WalkTypeOK
  <2>4. CASE type = Marker /\ off + 6 > len
    BY <2>1, <2>2, <2>4, SegmentStops
  <2>5. CASE type = Marker /\ ~(off + 6 > len)
    BY <2>1, <2>2, <2>3, <2>5, SegmentMarker DEF MarkerWords
  <2>6. CASE type # Marker /\ (type \notin Encoders \/ ~SegmentFits(size, off))
    BY <2>1, <2>2, <2>6, SegmentStops
  <2>7. CASE type # Marker /\ type \in Encoders /\ SegmentFits(size, off)
    BY <2>1, <2>2, <2>7, SegmentEnters
  <2> QED  BY <2>4, <2>5, <2>6, <2>7
<1>2. CASE off + 1 >= len /\ pc' = "resource" /\ UNCHANGED <<mem, off, cmd, segs>>
  <2>1. Kept(mem, mem', len) /\ UNCHANGED <<len, log>>
        /\ mem' \in [0 .. (MaxWords - 1) -> Nat \cup {Unread}]
    BY <1>2 DEF Kept, Segment, WalkInv, WalkTypeOK
  <2> QED  BY <1>2, <2>1, SegmentStops
<1> QED  BY <1>1, <1>2 DEF Segment

-----------------------------------------------------------------------------
(* One iteration of inner_walk_segment. *)

\* The rest of the segment is given up, or it ends.
LEMMA CommandLeaves ==
    ASSUME WalkInv, pc = "command", NextSegment, UNCHANGED <<cmd, segs, len, log>>,
           Kept(mem, mem', len), mem' \in [0 .. (MaxWords - 1) -> Nat \cup {Unread}]
    PROVE  WalkInv'
<1> DEFINE last == segs[Len(segs)]
<1>1. /\ Len(segs) > 0 /\ last \in SegEntry /\ off = last.off
      /\ SegEnd = EndOf(last) /\ EndOf(last) \in Nat /\ EndOf(last) <= len
      /\ cmd <= EndOf(last) /\ cmd \in Nat /\ len \in Nat
  <2>1. Len(segs) > 0 /\ off = last.off /\ cmd <= SegEnd /\ cmd \in Nat
    BY DEF WalkInv, WalkTypeOK, AtCommand
  <2>2. SegEnd = EndOf(last)
    BY <2>1 DEF SegEnd, EndOf
  <2>3. Len(segs) \in 1 .. Len(segs)
    BY <2>1, EntriesTyped DEF WalkInv
  <2> QED  BY <2>1, <2>2, <2>3, EntriesTyped DEF WalkInv, SegsInside
<1>2. WalkTypeOK'
  BY <1>1 DEF WalkInv, WalkTypeOK, NextSegment
<1>3. SegsInside' /\ LogInside' /\ LogOrdered' /\ OnlyMarkersSkipped'
  BY StepKeeps
<1>4. LogBefore(off)'
  <2>1. LogBefore(cmd)
    BY DEF WalkInv, AtCommand
  <2> QED  BY <1>1, <2>1, EntriesTyped DEF LogBefore, NextSegment, WalkInv
<1>5. Markers(mem', len, EndOf(last), off')
  <2>1. off' = EndOf(last) + 4 * 0 /\ off' <= len
    BY <1>1 DEF NextSegment
  <2>2. \A k \in 0 .. (0 - 1) : mem'[EndOf(last) + 4 * k + 1] = Marker
    OBVIOUS
  <2> QED  BY <2>1, <2>2 DEF Markers
<1>6. AtSegment'
  BY <1>4, <1>5 DEF AtSegment
<1> QED  BY <1>2, <1>3, <1>6 DEF WalkInv, AtLocate, AtCommand, NextSegment

\* A command is dispatched.
LEMMA CommandDispatched ==
    ASSUME WalkInv, pc = "command", NEW code \in Nat, NEW total \in Nat, CommandFits(total),
           log' = Append(log, [enc |-> segs[Len(segs)].enc, op |-> code,
                               off |-> cmd, end |-> cmd + total]),
           cmd' = cmd + total, UNCHANGED <<pc, off, segs, len>>,
           Kept(mem, mem', len), mem' \in [0 .. (MaxWords - 1) -> Nat \cup {Unread}]
    PROVE  WalkInv'
<1> DEFINE last == segs[Len(segs)]
           new == [enc |-> last.enc, op |-> code, off |-> cmd, end |-> cmd + total]
<1>1. /\ Len(segs) \in 1 .. Len(segs) /\ last \in SegEntry /\ off = last.off /\ off \in Nat
      /\ SegEnd = EndOf(last) /\ SegEnd \in Nat /\ off + 2 <= cmd /\ cmd \in Nat
  <2>1. Len(segs) > 0 /\ off = last.off /\ off + 2 <= cmd /\ cmd \in Nat /\ off \in Nat
    BY DEF WalkInv, WalkTypeOK, AtCommand
  <2>2. SegEnd = EndOf(last)
    BY <2>1 DEF SegEnd, EndOf
  <2>3. Len(segs) \in 1 .. Len(segs)
    BY <2>1, EntriesTyped DEF WalkInv
  <2> QED  BY <2>1, <2>2, <2>3, EntriesTyped DEF WalkInv
<1>2. cmd + total <= SegEnd /\ cmd + total \in Nat /\ cmd <= cmd + total
  BY <1>1 DEF CommandFits
<1>3. new \in LogEntry
  BY <1>1, <1>2 DEF LogEntry, SegEntry
<1>4. WalkTypeOK'
  BY <1>2, <1>3 DEF WalkInv, WalkTypeOK
<1>5. /\ Len(log') = Len(log) + 1 /\ Len(log) \in Nat
      /\ log'[Len(log) + 1] = new
      /\ \A i \in 1 .. Len(log) : log'[i] = log[i]
  BY <1>3 DEF WalkInv, WalkTypeOK
<1>6. SegsInside' /\ OnlyMarkersSkipped'
  <2>1. SegsInside'
    BY DEF WalkInv, SegsInside
  <2>2. ASSUME NEW i \in 1 .. (Len(segs) - 1)
        PROVE  Markers(mem', len, EndOf(segs[i]), segs[i + 1].off)
    <3>1. EndOf(segs[i]) \in Nat /\ segs[i + 1].off \in Nat /\ len \in Nat
      <4>1. i \in 1 .. Len(segs) /\ i + 1 \in 1 .. Len(segs)
        BY EntriesTyped DEF WalkInv
      <4> QED  BY <4>1, EntriesTyped DEF WalkInv
    <3>2. Markers(mem, len, EndOf(segs[i]), segs[i + 1].off)
      BY DEF WalkInv, OnlyMarkersSkipped
    <3> QED  BY <3>1, <3>2, MarkersKept
  <2> QED  BY <2>1, <2>2 DEF OnlyMarkersSkipped
<1>7. LogInside'
  <2>1. new.enc = last.enc /\ last.off + 2 <= new.off /\ new.end <= EndOf(last)
    BY <1>1, <1>2
  <2> HIDE DEF new, last
  <2>2. \A i \in 1 .. Len(log) : \E s \in 1 .. Len(segs) :
            /\ log[i].enc = segs[s].enc
            /\ segs[s].off + 2 <= log[i].off
            /\ log[i].end <= EndOf(segs[s])
    BY DEF WalkInv, LogInside
  <2>3. \A i \in 1 .. Len(log') : \E s \in 1 .. Len(segs) :
            /\ log'[i].enc = segs[s].enc
            /\ segs[s].off + 2 <= log'[i].off
            /\ log'[i].end <= EndOf(segs[s])
    <3> TAKE i \in 1 .. Len(log')
    <3>1. CASE i \in 1 .. Len(log)
      BY <1>5, <2>2, <3>1
    <3>2. CASE i = Len(log) + 1
      BY <1>1, <1>5, <2>1, <3>2 DEF last
    <3> QED  BY <1>5, <3>1, <3>2
  <2> QED  BY <2>3 DEF LogInside
<1>8. LogOrdered'
  <2>1. ASSUME NEW i \in 1 .. Len(log)
        PROVE  log'[i].end <= log'[i + 1].off
    <3>1. CASE i = Len(log)
      <4>1. log[i].end <= cmd
        BY <3>1 DEF WalkInv, AtCommand, LogBefore
      <4> QED  BY <1>5, <3>1, <4>1
    <3>2. CASE i \in 1 .. (Len(log) - 1)
      <4>1. i \in 1 .. Len(log) /\ i + 1 \in 1 .. Len(log)
        BY <1>5, <3>2
      <4>2. log[i].end <= log[i + 1].off
        BY <3>2 DEF WalkInv, LogOrdered
      <4> QED  BY <1>5, <4>1, <4>2
    <3> QED  BY <1>5, <3>1, <3>2
  <2> QED  BY <1>5, <2>1 DEF LogOrdered
<1>9. AtCommand'
  <2>1. SegEnd' = SegEnd
    BY DEF SegEnd
  <2>2. LogBefore(cmd)'
    BY <1>2, <1>5 DEF LogBefore
  <2> QED  BY <1>1, <1>2, <2>1, <2>2, SMTT(30) DEF AtCommand
<1> QED  BY <1>4, <1>6, <1>7, <1>8, <1>9 DEF WalkInv, AtLocate, AtSegment

LEMMA CommandInv ==
    ASSUME WalkInv, Command
    PROVE  WalkInv'
<1>1. ASSUME NEW code \in Words, NEW total \in Words, Reading(cmd, code, total),
             IF CommandFits(total)
             THEN /\ log' = Append(log, [enc |-> segs[Len(segs)].enc, op |-> code,
                                         off |-> cmd, end |-> cmd + total])
                  /\ cmd' = cmd + total
                  /\ UNCHANGED <<pc, off>>
             ELSE NextSegment /\ UNCHANGED <<cmd, log>>
      PROVE  WalkInv'
  <2>1. Kept(mem, mem', len) /\ mem' \in [0 .. (MaxWords - 1) -> Nat \cup {Unread}]
    BY <1>1, ReadingKeeps DEF WalkInv, WalkTypeOK
  <2>2. code \in Nat /\ total \in Nat /\ pc = "command" /\ UNCHANGED <<len, segs>>
    BY WalkAssumption DEF Command
  <2>3. CASE CommandFits(total)
    BY <1>1, <2>1, <2>2, <2>3, CommandDispatched
  <2>4. CASE ~CommandFits(total)
    BY <1>1, <2>1, <2>2, <2>4, CommandLeaves
  <2> QED  BY <2>3, <2>4
<1>2. CASE cmd + 2 > SegEnd /\ NextSegment /\ UNCHANGED <<mem, cmd, log>>
  <2>1. Kept(mem, mem', len) /\ UNCHANGED <<len, segs>> /\ pc = "command"
        /\ mem' \in [0 .. (MaxWords - 1) -> Nat \cup {Unread}]
    BY <1>2 DEF Kept, Command, WalkInv, WalkTypeOK
  <2> QED  BY <1>2, <2>1, CommandLeaves
<1> QED  BY <1>1, <1>2 DEF Command

-----------------------------------------------------------------------------

LEMMA WalkInvHolds == WalkSpec => []WalkInv
<1>1. WalkInv /\ [WalkNext]_walkVars => WalkInv'
  <2> SUFFICES ASSUME WalkInv, [WalkNext]_walkVars PROVE WalkInv'
    OBVIOUS
  <2>1. CASE \E n \in 0 .. MaxWords : NextResource(n)
    BY <2>1, ResourceInv
  <2>2. CASE ExecDone
    BY <2>2, DoneInv
  <2>3. CASE Locate
    BY <2>3, LocateInv
  <2>4. CASE Segment
    BY <2>4, SegmentInv
  <2>5. CASE Command
    BY <2>5, CommandInv
  <2>6. CASE UNCHANGED walkVars
    <3>1. UNCHANGED <<pc, mem, len, off, cmd, segs, log>> /\ WalkTypeOK'
      BY <2>6 DEF walkVars, WalkInv, WalkTypeOK
    <3>2. SegsInside' /\ LogInside' /\ LogOrdered' /\ OnlyMarkersSkipped'
      BY <3>1, StepKeeps DEF Kept
    <3> QED  BY <3>1, <3>2 DEF WalkInv, AtLocate, AtSegment, AtCommand, LogBefore, SegEnd
  <2> QED  BY <2>1, <2>2, <2>3, <2>4, <2>5, <2>6 DEF WalkNext
<1> QED  BY <1>1, InitInv, PTL DEF WalkSpec

\* A run of markers, as CommandsInside states it.
LEMMA MarkersGap ==
    ASSUME NEW m, NEW n \in Nat, NEW from \in Nat, NEW to \in Nat, Markers(m, n, from, to)
    PROVE  /\ to - from >= 0 /\ (to - from) % 4 = 0
           /\ \A k \in 0 .. ((to - from) \div 4 - 1) : m[from + 4 * k + 1] = Marker
<1> PICK j \in Nat : /\ to = from + 4 * j
                     /\ \A k \in 0 .. (j - 1) : m[from + 4 * k + 1] = Marker
  BY DEF Markers
<1>1. to - from = 4 * j /\ (to - from) % 4 = 0 /\ (to - from) \div 4 = j
  OBVIOUS
<1> QED  BY <1>1

LEMMA InvInside == WalkInv => CommandsInside
<1> SUFFICES ASSUME WalkInv PROVE CommandsInside
  OBVIOUS
<1>1. \A i \in 1 .. Len(segs) : segs[i].off + segs[i].size <= len
  BY DEF WalkInv, SegsInside, EndOf
<1>2. \A i \in 1 .. Len(log) : \E s \in 1 .. Len(segs) :
             /\ log[i].enc = segs[s].enc
             /\ segs[s].off + 2 <= log[i].off
             /\ log[i].end <= segs[s].off + segs[s].size
  BY DEF WalkInv, LogInside, EndOf
<1>3. \A i \in 1 .. (Len(log) - 1) : log[i].end <= log[i + 1].off
  BY DEF WalkInv, LogOrdered
<1>4. ASSUME NEW i \in 1 .. (Len(segs) - 1)
      PROVE  LET end == segs[i].off + segs[i].size
                 gap == segs[i + 1].off - end
             IN  /\ gap >= 0 /\ gap % 4 = 0
                 /\ \A k \in 0 .. (gap \div 4 - 1) : mem[end + 4 * k + 1] = Marker
  <2>1. i \in 1 .. Len(segs) /\ i + 1 \in 1 .. Len(segs)
    BY EntriesTyped DEF WalkInv
  <2>2. EndOf(segs[i]) \in Nat /\ segs[i + 1].off \in Nat /\ len \in Nat
    BY <2>1, EntriesTyped DEF WalkInv
  <2>3. Markers(mem, len, EndOf(segs[i]), segs[i + 1].off)
    BY DEF WalkInv, OnlyMarkersSkipped
  <2> QED  BY <2>2, <2>3, MarkersGap DEF EndOf
<1> QED  BY <1>1, <1>2, <1>3, <1>4 DEF CommandsInside

\* Whatever a command buffer holds and however long it is, no handler is given a word
\* that did not arrive or belongs to a neighbouring command, and none reads past what
\* it is given (exec_walk_resource, inner_walk_segment and the handlers).
THEOREM WalkReadsInside == WalkSpec => []ReadsInside
<1>1. WalkInv => ReadsInside
  BY InvInside, HandlersInBody DEF ReadsInside
<1> QED  BY <1>1, WalkInvHolds, PTL

-----------------------------------------------------------------------------
(* Induction and recursion. *)

\* Induction over the natural numbers, for a set: the smallest number that is not
\* in it cannot exist.
LEMMA SetInduction ==
    ASSUME NEW P, 0 \in P, \A n \in Nat : n \in P => n + 1 \in P
    PROVE  Nat \subseteq P
<1> SUFFICES ASSUME ~(Nat \subseteq P) PROVE FALSE
  OBVIOUS
<1> DEFINE R == {ss \in Nat \X Nat : ss[1] < ss[2]}
           T == Nat \ P
<1>1. R = OpToRel(<, Nat)
  BY Zenon DEF OpToRel
<1>2. IsWellFoundedOn(R, Nat)
  BY <1>1, NatLessThanWellFounded, Zenon
<1>3. T \subseteq Nat /\ T # {}
  OBVIOUS
<1>4. PICK x \in T : \A y \in T : ~ (<<y, x>> \in R)
  <2> HIDE DEF R, T
  <2> QED  BY <1>2, <1>3, WFMin
<1>5. x \in Nat /\ x # 0 /\ x - 1 \in Nat
  OBVIOUS
<1>6. <<x - 1, x>> \in R
  BY <1>5
<1>7. x - 1 \in P
  BY <1>4, <1>5, <1>6
<1>8. (x - 1) + 1 \in P
  BY <1>5, <1>7
<1> QED  BY <1>5, <1>8

\* What is true of the first element of a range and handed on by each to the next
\* is true of all.
LEMMA RangeInduction ==
    ASSUME NEW n \in Nat, NEW P, 0 \in P, \A k \in 1 .. n : k - 1 \in P => k \in P
    PROVE  0 .. n \subseteq P
<1> DEFINE Q == {k \in Nat : k <= n => k \in P}
<1>1. 0 \in Q
  OBVIOUS
<1>2. ASSUME NEW k \in Nat, k \in Q PROVE k + 1 \in Q
  BY <1>2, k + 1 \in 1 .. n \/ ~(k + 1 <= n), (k + 1) - 1 = k
<1>3. Nat \subseteq Q
  <2> HIDE DEF Q
  <2> QED  BY <1>1, <1>2, SetInduction
<1> QED  BY <1>3

\* A function of a number and a value can be iterated: this is what makes a
\* recursive definition over a range of numbers define something.
StepsOn(n, S) == [1 .. n -> [S -> S]]

Iterates(f, n, S, s0, F) ==
    /\ f \in [0 .. n -> S]
    /\ f[0] = s0
    /\ \A i \in 1 .. n : f[i] = F[i][f[i - 1]]

LEMMA Iteration ==
    ASSUME NEW n \in Nat, NEW S, NEW s0 \in S, NEW F \in StepsOn(n, S)
    PROVE  \E f : Iterates(f, n, S, s0, F)
<1>0. F \in [1 .. n -> [S -> S]]
  BY DEF StepsOn
<1> DEFINE Good(m, f) == /\ f \in [0 .. m -> S]
                         /\ f[0] = s0
                         /\ \A i \in 1 .. m : f[i] = F[i][f[i - 1]]
           P == {m \in 0 .. n : \E f : Good(m, f)}
<1>1. 0 \in P
  <2>1. Good(0, [i \in 0 .. 0 |-> s0])
    OBVIOUS
  <2>2. 0 \in 0 .. n
    OBVIOUS
  <2> QED  BY <2>1, <2>2, Zenon
<1>2. ASSUME NEW k \in 1 .. n, k - 1 \in P PROVE k \in P
  <2>1. PICK f : Good(k - 1, f)
    BY <1>2
  <2> DEFINE g == [i \in 0 .. k |-> IF i < k THEN f[i] ELSE F[k][f[k - 1]]]
  <2>2. f[k - 1] \in S
    BY <2>1
  <2>3. F[k][f[k - 1]] \in S
    BY <1>0, <2>2
  <2>4. g \in [0 .. k -> S]
    BY <2>1, <2>3
  <2>5. g[0] = s0
    BY <2>1
  <2>6. ASSUME NEW i \in 1 .. k PROVE g[i] = F[i][g[i - 1]]
    <3>1. CASE i < k
      <4>1. i \in 1 .. (k - 1) /\ i - 1 < k /\ i \in 0 .. k /\ i - 1 \in 0 .. k
        BY <3>1
      <4>2. g[i] = f[i] /\ g[i - 1] = f[i - 1]
        BY <3>1, <4>1
      <4> QED  BY <2>1, <4>1, <4>2
    <3>2. CASE i = k
      <4>1. k \in 0 .. k /\ k - 1 \in 0 .. k /\ k - 1 < k
        OBVIOUS
      <4>2. g[k] = F[k][f[k - 1]] /\ g[k - 1] = f[k - 1]
        BY <4>1
      <4> QED  BY <3>2, <4>2
    <3> QED  BY <3>1, <3>2
  <2>7. Good(k, g)
    <3> HIDE DEF g
    <3> QED  BY <2>4, <2>5, <2>6
  <2>8. k \in 0 .. n
    OBVIOUS
  <2> QED  BY <2>7, <2>8, Zenon
<1>3. n \in P
  <2>1. n \in 0 .. n
    OBVIOUS
  <2> HIDE DEF P
  <2> QED  BY <1>1, <1>2, <2>1, RangeInduction, Zenon
<1> QED  BY <1>3 DEF Iterates

-----------------------------------------------------------------------------
(* Arithmetic. *)

\* A power of a positive number is positive.
LEMMA PowType ==
    ASSUME NEW b \in Nat \ {0}, NEW n \in Nat
    PROVE  Pow(b, n) \in Nat \ {0}
<1> DEFINE S == Nat \ {0}
           F == [i \in 1 .. n |-> [x \in S |-> b * x]]
<1>1. F \in StepsOn(n, S)
  <2>1. ASSUME NEW x \in S PROVE b * x \in S
    OBVIOUS
  <2> QED  BY <2>1 DEF StepsOn
<1>2. 1 \in S
  OBVIOUS
<1>3. PICK f : Iterates(f, n, S, 1, F)
  <2> HIDE DEF F, S
  <2> QED  BY <1>1, <1>2, Iteration
<1>4. f = [i \in 0 .. n |-> IF i = 0 THEN 1 ELSE b * f[i - 1]]
  <2>1. ASSUME NEW i \in 1 .. n PROVE f[i] = b * f[i - 1]
    <3>1. f[i - 1] \in S
      BY <1>3 DEF Iterates
    <3>2. F[i][f[i - 1]] = b * f[i - 1]
      BY <3>1
    <3> QED  BY <1>3, <3>2 DEF Iterates
  <2> QED  BY <1>3, <2>1 DEF Iterates
<1> DEFINE pow == CHOOSE g : g = [i \in 0 .. n |-> IF i = 0 THEN 1 ELSE b * g[i - 1]]
<1>5. pow = [i \in 0 .. n |-> IF i = 0 THEN 1 ELSE b * pow[i - 1]]
  <2> HIDE DEF F
  <2> QED  BY <1>4, Zenon
<1>6. Pow(b, n) = pow[n]
  BY Zenon DEF Pow
<1> DEFINE P == {i \in 0 .. n : pow[i] \in Nat \ {0}}
<1> HIDE DEF pow, F
<1>7. 0 \in P
  BY <1>5
<1>8. ASSUME NEW k \in 1 .. n, k - 1 \in P PROVE k \in P
  BY <1>5, <1>8
<1>9. n \in P
  <2>1. n \in 0 .. n
    OBVIOUS
  <2> HIDE DEF P
  <2> QED  BY <1>7, <1>8, <2>1, RangeInduction, Zenon
<1> QED  BY <1>6, <1>9

\* The or of two frame numbers is a number.
LEMMA OrType ==
    ASSUME NEW a, NEW b
    PROVE  OrPfn(a, b) \in Nat
<1> DEFINE Add(i) == IF Bit(a, i) + Bit(b, i) > 0 THEN Pow(2, i - 1) ELSE 0
           F == [i \in 1 .. Bits |-> [x \in Nat |-> x + Add(i)]]
<1>1. Bits \in Nat
  BY DEF Bits
<1>2. ASSUME NEW i \in 1 .. Bits PROVE Add(i) \in Nat
  <2>1. i - 1 \in Nat /\ 2 \in Nat \ {0}
    BY <1>1
  <2>2. Pow(2, i - 1) \in Nat
    BY <2>1, PowType
  <2> QED  BY <2>2
<1>3. F \in StepsOn(Bits, Nat)
  <2> HIDE DEF Add
  <2> QED  BY <1>2 DEF StepsOn
<1>4. PICK f : Iterates(f, Bits, Nat, 0, F)
  <2> HIDE DEF F
  <2> QED  BY <1>1, <1>3, 0 \in Nat, Iteration
<1>5. f = [i \in 0 .. Bits |-> IF i = 0 THEN 0 ELSE f[i - 1] + Add(i)]
  <2> HIDE DEF Add
  <2>1. ASSUME NEW i \in 1 .. Bits PROVE f[i] = f[i - 1] + Add(i)
    <3>1. f[i - 1] \in Nat
      BY <1>1, <1>4 DEF Iterates
    <3>2. F[i][f[i - 1]] = f[i - 1] + Add(i)
      BY <3>1
    <3> QED  BY <1>4, <3>2 DEF Iterates
  <2> QED  BY <1>1, <1>4, <2>1 DEF Iterates
<1> DEFINE or == CHOOSE g : g = [i \in 0 .. Bits |-> IF i = 0 THEN 0 ELSE g[i - 1] + Add(i)]
<1>6. or = [i \in 0 .. Bits |-> IF i = 0 THEN 0 ELSE or[i - 1] + Add(i)]
  <2> HIDE DEF F, Add
  <2> QED  BY <1>5, Zenon
<1>7. OrPfn(a, b) = or[Bits]
  BY Zenon DEF OrPfn
<1> DEFINE P == {i \in 0 .. Bits : or[i] \in Nat}
<1> HIDE DEF or, F, Add
<1>8. 0 \in P
  BY <1>1, <1>6
<1>9. ASSUME NEW k \in 1 .. Bits, k - 1 \in P PROVE k \in P
  <2>1. k \in 0 .. Bits /\ k # 0 /\ or[k - 1] \in Nat /\ Add(k) \in Nat
    BY <1>1, <1>2, <1>9
  <2>2. or[k] = or[k - 1] + Add(k)
    BY <1>6, <2>1
  <2> QED  BY <2>1, <2>2
<1>10. Bits \in P
  <2>1. Bits \in 0 .. Bits
    BY <1>1
  <2> HIDE DEF P
  <2> QED  BY <1>1, <1>8, <1>9, <2>1, RangeInduction, Zenon
<1> QED  BY <1>7, <1>10

\* Division: the quotient and the remainder, and what determines them.
LEMMA DivMod ==
    ASSUME NEW a \in Nat, NEW m \in Nat \ {0}
    PROVE  /\ a \div m \in Nat /\ a % m \in 0 .. (m - 1)
           /\ a = m * (a \div m) + (a % m)
           /\ \A q \in Nat, r \in 0 .. (m - 1) : a = m * q + r => q = a \div m /\ r = a % m
OBVIOUS

\* Addresses of one page have the same index at every level, and the same page
\* below it.
LEMMA SamePage ==
    ASSUME NEW a \in Nat, NEW d \in Nat, NEW s \in Nat \ {0}, NEW m \in Nat \ {0},
           (a % s) + d < s
    PROVE  /\ (a + d) \div (s * m) = a \div (s * m)
           /\ ((a + d) % (s * m)) \div s = (a % (s * m)) \div s
           /\ (a + d) % s = (a % s) + d
<1> DEFINE M == s * m
           q == a \div M
           r == a % M
           u == r \div s
           v == r % s
<1>1. M \in Nat \ {0}
  OBVIOUS
<1>2. q \in Nat /\ r \in 0 .. (M - 1) /\ a = M * q + r
  <2> HIDE DEF M
  <2> QED  BY <1>1, DivMod
<1>3. u \in Nat /\ v \in 0 .. (s - 1) /\ r = s * u + v
  <2>1. r \in Nat
    BY <1>1, <1>2
  <2> HIDE DEF r
  <2> QED  BY <2>1, DivMod
<1> HIDE DEF q, r, u, v
<1>4. a = s * (m * q + u) + v
  BY <1>2, <1>3
<1>5. v = a % s
  <2> DEFINE w == m * q + u
  <2>1. w \in Nat
    BY <1>2, <1>3
  <2>2. a = s * w + v
    BY <1>4
  <2> HIDE DEF w
  <2> QED  BY <1>3, <2>1, <2>2, DivMod
<1>6. v + d \in 0 .. (s - 1)
  BY <1>3, <1>5
<1>7. (a + d) % s = v + d
  <2> DEFINE w == m * q + u
             c == a + d
             e == v + d
  <2>1. w \in Nat
    BY <1>2, <1>3
  <2>2. c \in Nat /\ c = s * w + e
    <3>1. a = s * w + v
      BY <1>4
    <3> HIDE DEF w
    <3> QED  BY <1>3, <2>1, <3>1
  <2>3. e \in 0 .. (s - 1)
    BY <1>6
  <2> HIDE DEF w, c, e
  <2>4. e = c % s
    BY <2>1, <2>2, <2>3, DivMod
  <2> QED  BY <2>4 DEF c, e
<1>8. u < m
  <2> SUFFICES ASSUME u >= m PROVE FALSE
    BY <1>3
  <2>1. s * u >= s * m
    BY <1>3
  <2> QED  BY <1>2, <1>3, <2>1
<1>9. s * u + (v + d) \in 0 .. (M - 1)
  <2>1. u + 1 <= m
    BY <1>3, <1>8
  <2>2. s * (u + 1) <= s * m
    BY <1>3, <2>1
  <2>3. s * (u + 1) = s * u + s
    BY <1>3
  <2> QED  BY <1>3, <1>6, <2>2, <2>3
<1>10. a + d = M * q + (s * u + (v + d))
  BY <1>2, <1>3
<1>11. q = (a + d) \div M /\ s * u + (v + d) = (a + d) % M
  <2> DEFINE w == s * u + (v + d)
             c == a + d
  <2>1. c \in Nat
    OBVIOUS
  <2> HIDE DEF M, w, c
  <2>2. w \in 0 .. (M - 1) /\ c = M * q + w
    BY <1>9, <1>10 DEF w, c
  <2>3. q = c \div M /\ w = c % M
    BY <1>1, <1>2, <2>1, <2>2, DivMod
  <2> QED  BY <2>3 DEF w, c
<1>12. (s * u + (v + d)) \div s = u
  <2> DEFINE w == s * u + (v + d)
  <2>1. w \in Nat
    BY <1>3
  <2>2. w = s * u + (v + d)
    OBVIOUS
  <2> HIDE DEF w
  <2>3. u = w \div s
    BY <1>3, <1>6, <2>1, <2>2, DivMod
  <2> QED  BY <2>3 DEF w
<1>13. ((a + d) % M) \div s = u
  BY <1>11, <1>12
<1> QED  BY <1>5, <1>7, <1>11, <1>13 DEF q, r, u

-----------------------------------------------------------------------------
(* The radix walk. *)

Tree(t) ==
    /\ t.l1 \in Nat /\ t.levels \in Nat
    /\ \A n \in DOMAIN t.node, i \in 0 .. (Fanout - 1) :
          t.node[n][i] \in [leaf : BOOLEAN, pfn : Nat]

WalkStates == [st : {"node", "done", "fail"}, v : Int]

\* An entry maps a whole number of pages.
LEMMA SpanType ==
    ASSUME NEW t, Tree(t), NEW k \in 1 .. t.levels
    PROVE  \E m \in Nat \ {0} : Span(t, k) = PageSize * m
<1>1. t.levels - k \in Nat
  BY DEF Tree
<1>2. Pow(Fanout, t.levels - k) \in Nat \ {0}
  BY <1>1, PowType, MemAssumption DEF MemAssumption
<1> QED  BY <1>2 DEF Span

\* The entry looked at is one of the node's.
LEMMA EntryType ==
    ASSUME NEW t, Tree(t), NEW va \in Nat, NEW k \in 1 .. t.levels, NEW n \in DOMAIN t.node
    PROVE  EntryOf(t, va, k, n) \in [leaf : BOOLEAN, pfn : Nat]
<1>1. PICK m \in Nat \ {0} : Span(t, k) = PageSize * m
  BY SpanType
<1>2. PageSize \in Nat \ {0} /\ Fanout \in Nat \ {0}
  BY MemAssumption DEF MemAssumption
<1>3. Span(t, k) \in Nat \ {0}
  BY <1>1, <1>2
<1>4. va \div Span(t, k) \in Nat
  BY <1>3, DivMod
<1>5. (va \div Span(t, k)) % Fanout \in 0 .. (Fanout - 1)
  BY <1>2, <1>4, DivMod
<1> QED  BY <1>5 DEF Tree, EntryOf

\* What a level of the walk leaves: a node to go on with, or the end of the walk.
LEMMA LevelType ==
    ASSUME NEW t, Tree(t), NEW va \in Nat, NEW k \in 1 .. t.levels, NEW prev \in WalkStates
    PROVE  /\ WalkLevel(t, va, k, prev) \in WalkStates
           /\ prev.st = "node" /\ WalkLevel(t, va, k, prev).st = "done" =>
                 /\ WalkLevel(t, va, k, prev).v \in Nat
                 /\ WalkLevel(t, va, k, prev).v % PageSize = va % PageSize
<1> DEFINE pte == EntryOf(t, va, k, prev.v)
           fr == Frame(pte, Span(t, k), va)
           w == WalkLevel(t, va, k, prev)
<1>1. PageSize \in Nat \ {0}
  BY MemAssumption DEF MemAssumption
<1>2. fr \in Nat
  BY OrType DEF Frame
<1>3. va % PageSize \in 0 .. (PageSize - 1)
  BY <1>1
<1>4. prev.v \in DOMAIN t.node => pte \in [leaf : BOOLEAN, pfn : Nat]
  BY EntryType
<1>5. PageSize * fr + (va % PageSize) \in Nat
  <2> HIDE DEF fr
  <2> QED  BY <1>1, <1>2, <1>3
<1>6. (PageSize * fr + (va % PageSize)) % PageSize = va % PageSize
  <2> DEFINE c == PageSize * fr + (va % PageSize)
             r == va % PageSize
  <2>1. c \in Nat /\ c = PageSize * fr + r /\ r \in 0 .. (PageSize - 1)
    BY <1>3, <1>5
  <2> HIDE DEF c, r, fr
  <2>2. r = c % PageSize
    BY <1>1, <1>2, <2>1, DivMod
  <2> QED  BY <2>2 DEF c, r
<1>7. CASE prev.st # "node"
  BY <1>7 DEF WalkLevel
<1>8. CASE prev.st = "node" /\ (prev.v \notin DOMAIN t.node \/ Absent(pte))
  BY <1>8 DEF WalkLevel, WalkStates, None
<1>9. CASE prev.st = "node" /\ ~(prev.v \notin DOMAIN t.node \/ Absent(pte)) /\ (k = t.levels \/ pte.leaf)
  <2>1. w = [st |-> "done", v |-> PageSize * fr + (va % PageSize)]
    BY <1>9 DEF WalkLevel
  <2> HIDE DEF fr, w
  <2>2. w \in WalkStates
    BY <1>5, <2>1 DEF WalkStates
  <2> QED  BY <1>5, <1>6, <2>1, <2>2 DEF w
<1>10. CASE prev.st = "node" /\ ~(prev.v \notin DOMAIN t.node \/ Absent(pte)) /\ ~(k = t.levels \/ pte.leaf)
  BY <1>4, <1>10 DEF WalkLevel, WalkStates
<1> QED  BY <1>7, <1>8, <1>9, <1>10

\* The walk is what its definition says, level by level.
LEMMA WalkFacts ==
    ASSUME NEW t, Tree(t), NEW va \in Nat
    PROVE  /\ Walk(t, va) \in [0 .. t.levels -> WalkStates]
           /\ Walk(t, va)[0] = [st |-> "node", v |-> t.l1]
           /\ \A k \in 1 .. t.levels : Walk(t, va)[k] = WalkLevel(t, va, k, Walk(t, va)[k - 1])
<1> DEFINE L == t.levels
           S == WalkStates
           z == [st |-> "node", v |-> t.l1]
           F == [k \in 1 .. L |-> [x \in S |-> WalkLevel(t, va, k, x)]]
<1>1. L \in Nat /\ z \in S
  BY DEF Tree, WalkStates
<1>2. F \in StepsOn(L, S)
  <2>1. ASSUME NEW k \in 1 .. L, NEW x \in S PROVE WalkLevel(t, va, k, x) \in S
    BY LevelType
  <2> HIDE DEF L, S
  <2> QED  BY <2>1 DEF StepsOn
<1>3. PICK f : Iterates(f, L, S, z, F)
  <2> HIDE DEF L, S, z, F
  <2> QED  BY <1>1, <1>2, Iteration
<1>4. f \in [0 .. L -> S] /\ f[0] = z
  BY <1>3 DEF Iterates
<1>5. ASSUME NEW k \in 1 .. L PROVE f[k] = WalkLevel(t, va, k, f[k - 1])
  <2> HIDE DEF S, z
  <2>1. f[k - 1] \in S
    BY <1>1, <1>4
  <2>2. F[k][f[k - 1]] = WalkLevel(t, va, k, f[k - 1])
    BY <2>1
  <2> QED  BY <1>3, <2>2 DEF Iterates
<1>6. f = [k \in 0 .. L |-> IF k = 0 THEN z ELSE WalkLevel(t, va, k, f[k - 1])]
  <2> HIDE DEF S, z, F
  <2> QED  BY <1>1, <1>4, <1>5
<1> DEFINE walk == CHOOSE g : g = [k \in 0 .. L |-> IF k = 0 THEN z ELSE WalkLevel(t, va, k, g[k - 1])]
<1>7. walk = [k \in 0 .. L |-> IF k = 0 THEN z ELSE WalkLevel(t, va, k, walk[k - 1])]
  <2> HIDE DEF F
  <2> QED  BY <1>6, Zenon
<1>8. Walk(t, va) = walk
  BY Zenon DEF Walk
<1> HIDE DEF walk, F, z, S, L
<1>9. walk[0] = z /\ \A k \in 1 .. L : walk[k] = WalkLevel(t, va, k, walk[k - 1])
  BY <1>1, <1>7
<1> DEFINE P == {k \in 0 .. L : walk[k] \in S}
<1>10. 0 \in P
  BY <1>1, <1>9
<1>11. ASSUME NEW k \in 1 .. L, k - 1 \in P PROVE k \in P
  <2>1. walk[k - 1] \in WalkStates /\ k \in 1 .. t.levels /\ k \in 0 .. L
    BY <1>1, <1>11 DEF S, L
  <2> QED  BY <1>9, <2>1, LevelType DEF S
<1>12. 0 .. L \subseteq P
  <2> HIDE DEF P
  <2> QED  BY <1>1, <1>10, <1>11, RangeInduction
<1>13. walk \in [0 .. L -> S]
  BY <1>7, <1>12
<1> QED  BY <1>8, <1>9, <1>13 DEF L, S, z


\* A failed walk has no address; a finished one has an address with the offset of
\* the virtual one; and at the last level the walk is over.
LEMMA TranslationEnds ==
    ASSUME NEW t, Tree(t), NEW va \in Nat
    PROVE  /\ \A k \in 0 .. t.levels :
                 /\ Walk(t, va)[k].st = "fail" => Walk(t, va)[k].v = None
                 /\ Walk(t, va)[k].st = "done" =>
                       Walk(t, va)[k].v \in Nat /\ Walk(t, va)[k].v % PageSize = va % PageSize
           /\ t.levels # 0 => Walk(t, va)[t.levels].st \in {"done", "fail"}
<1> DEFINE w == Walk(t, va)
           L == t.levels
<1>0. w \in [0 .. L -> WalkStates] /\ w[0] = [st |-> "node", v |-> t.l1]
      /\ \A k \in 1 .. L : w[k] = WalkLevel(t, va, k, w[k - 1])
  BY WalkFacts
<1>1. w \in [0 .. L -> WalkStates] /\ w[0].st = "node"
      /\ \A k \in 1 .. L : w[k] = WalkLevel(t, va, k, w[k - 1])
  <2> HIDE DEF w
  <2> QED  BY <1>0
<1>2. L \in Nat
  BY DEF Tree
<1> DEFINE P == {k \in 0 .. L : /\ w[k].st = "fail" => w[k].v = None
                                /\ w[k].st = "done" => w[k].v \in Nat /\ w[k].v % PageSize = va % PageSize}
<1>3. 0 \in P
  BY <1>1, <1>2
<1>4. ASSUME NEW k \in 1 .. L, k - 1 \in P PROVE k \in P
  <2>1. w[k - 1] \in WalkStates /\ k \in 0 .. L /\ w[k] = WalkLevel(t, va, k, w[k - 1])
    BY <1>1, <1>2
  <2> HIDE DEF w
  <2>2. CASE w[k - 1].st # "node"
    <3>1. w[k] = w[k - 1]
      BY <2>1, <2>2 DEF WalkLevel
    <3> QED  BY <1>4, <2>1, <3>1
  <2>3. CASE w[k - 1].st = "node"
    <3>1. w[k].st = "fail" => w[k].v = None
      BY <2>1, <2>3 DEF WalkLevel
    <3>2. w[k].st = "done" => w[k].v \in Nat /\ w[k].v % PageSize = va % PageSize
      BY <2>1, <2>3, LevelType
    <3> QED  BY <2>1, <3>1, <3>2
  <2> QED  BY <2>2, <2>3
<1>5. 0 .. L \subseteq P
  <2> HIDE DEF P
  <2> QED  BY <1>2, <1>3, <1>4, RangeInduction
<1>6. ASSUME L # 0 PROVE w[L].st \in {"done", "fail"}
  <2>1. w[L - 1] \in WalkStates /\ w[L] = WalkLevel(t, va, L, w[L - 1])
    BY <1>1, <1>2, <1>6
  <2> HIDE DEF w
  <2> QED  BY <2>1 DEF WalkLevel, WalkStates
<1> QED  BY <1>5, <1>6

\* The walk of another address of the same page takes the same path.
LEMMA WalkSamePage ==
    ASSUME NEW t, Tree(t), NEW va \in Nat, NEW d \in Nat, (va % PageSize) + d < PageSize,
           NEW k \in 0 .. t.levels
    PROVE  /\ Walk(t, va + d)[k].st = Walk(t, va)[k].st
           /\ Walk(t, va + d)[k].v =
                 IF Walk(t, va)[k].st = "done" THEN Walk(t, va)[k].v + d ELSE Walk(t, va)[k].v
<1> DEFINE w == Walk(t, va)
           x == Walk(t, va + d)
           L == t.levels
           Like(a, b) == b.st = a.st /\ b.v = IF a.st = "done" THEN a.v + d ELSE a.v
           P == {j \in 0 .. L : Like(w[j], x[j])}
<1>1. L \in Nat /\ va + d \in Nat /\ PageSize \in Nat \ {0}
  BY MemAssumption DEF Tree, MemAssumption
<1>2. w \in [0 .. L -> WalkStates] /\ w[0] = [st |-> "node", v |-> t.l1]
      /\ \A j \in 1 .. L : w[j] = WalkLevel(t, va, j, w[j - 1])
  BY WalkFacts
<1>3. x \in [0 .. L -> WalkStates] /\ x[0] = [st |-> "node", v |-> t.l1]
      /\ \A j \in 1 .. L : x[j] = WalkLevel(t, va + d, j, x[j - 1])
  BY <1>1, WalkFacts
<1>4. 0 \in P
  BY <1>1, <1>2, <1>3
<1>5. ASSUME NEW j \in 1 .. L, j - 1 \in P PROVE j \in P
  <2> DEFINE a == w[j - 1]
             b == x[j - 1]
  <2>0. j - 1 \in 0 .. L /\ j \in 0 .. L
    BY <1>1
  <2>1. a \in WalkStates /\ b \in WalkStates /\ Like(a, b) /\ j \in 0 .. L
    <3> HIDE DEF w, x
    <3> QED  BY <2>0, <1>2, <1>3, <1>5
  <2>2. w[j] = WalkLevel(t, va, j, a) /\ x[j] = WalkLevel(t, va + d, j, b)
    BY <1>2, <1>3
  <2> HIDE DEF w, x, a, b
  <2>3. CASE a.st # "node"
    <3>1. w[j] = a /\ x[j] = b
      BY <2>1, <2>2, <2>3 DEF WalkLevel
    <3> QED  BY <2>1, <3>1
  <2>4. CASE a.st = "node"
    <3>1. PICK m \in Nat \ {0} : Span(t, j) = PageSize * m
      BY SpanType
    <3>2. /\ (va + d) \div Span(t, j) = va \div Span(t, j)
          /\ ((va + d) % Span(t, j)) \div PageSize = (va % Span(t, j)) \div PageSize
          /\ (va + d) % PageSize = (va % PageSize) + d
      <4> DEFINE sp == Span(t, j)
      <4>1. sp = PageSize * m
        BY <3>1
      <4> HIDE DEF sp
      <4>2. /\ (va + d) \div (PageSize * m) = va \div (PageSize * m)
            /\ ((va + d) % (PageSize * m)) \div PageSize = (va % (PageSize * m)) \div PageSize
            /\ (va + d) % PageSize = (va % PageSize) + d
        BY <1>1, SamePage, Zenon
      <4> QED  BY <4>1, <4>2, Zenon DEF sp
    <3>3. a.v = b.v /\ b.st = "node"
      BY <2>1, <2>4
    <3>4. EntryOf(t, va + d, j, b.v) = EntryOf(t, va, j, a.v)
      BY <3>2, <3>3 DEF EntryOf
    <3> DEFINE pte == EntryOf(t, va, j, a.v)
               fr == Frame(pte, Span(t, j), va)
    <3>5. Frame(pte, Span(t, j), va + d) = fr
      BY <3>2 DEF Frame
    <3>6. fr \in Nat
      BY OrType DEF Frame
    <3>7. va % PageSize \in Nat
      BY <1>1
    <3>8. PageSize * fr + ((va + d) % PageSize) = (PageSize * fr + (va % PageSize)) + d
      <4> HIDE DEF fr
      <4> QED  BY <1>1, <3>2, <3>6, <3>7
    <3>9. w[j] = IF a.v \notin DOMAIN t.node \/ Absent(pte) THEN [st |-> "fail", v |-> None]
                 ELSE IF j = t.levels \/ pte.leaf
                 THEN [st |-> "done", v |-> PageSize * fr + (va % PageSize)]
                 ELSE [st |-> "node", v |-> pte.pfn]
      BY <2>2, <2>4, Zenon DEF WalkLevel
    <3>10. x[j] = IF a.v \notin DOMAIN t.node \/ Absent(pte) THEN [st |-> "fail", v |-> None]
                  ELSE IF j = t.levels \/ pte.leaf
                  THEN [st |-> "done", v |-> PageSize * fr + ((va + d) % PageSize)]
                  ELSE [st |-> "node", v |-> pte.pfn]
      BY <2>2, <3>3, <3>4, <3>5, Zenon DEF WalkLevel
    <3> HIDE DEF pte, fr
    <3> QED  BY <2>1, <3>8, <3>9, <3>10
  <2> QED  BY <2>3, <2>4
<1>6. 0 .. L \subseteq P
  <2> HIDE DEF P
  <2> QED  BY <1>1, <1>4, <1>5, RangeInduction
<1> QED  BY <1>6

\* lagfx_task_translate keeps the offset in the page.
LEMMA TranslateType ==
    ASSUME NEW t, Tree(t), NEW va \in Nat, task_translate(t, va) # None
    PROVE  task_translate(t, va) \in Nat /\ task_translate(t, va) % PageSize = va % PageSize
<1>1. t.levels \in Nat /\ t.levels # 0 /\ task_translate(t, va) = Walk(t, va)[t.levels].v
  BY DEF task_translate, Tree
<1>2. Walk(t, va)[t.levels].st \in {"done", "fail"} /\ t.levels \in 0 .. t.levels
  BY <1>1, TranslationEnds
<1>3. Walk(t, va)[t.levels].st = "done"
  BY <1>1, <1>2, TranslationEnds
<1> QED  BY <1>1, <1>2, <1>3, TranslationEnds

\* Addresses of one page translate together.
LEMMA TranslateSamePage ==
    ASSUME NEW t, Tree(t), NEW va \in Nat, NEW d \in Nat, (va % PageSize) + d < PageSize
    PROVE  task_translate(t, va + d) =
              IF task_translate(t, va) = None THEN None ELSE task_translate(t, va) + d
<1>1. CASE t.l1 = 0 \/ t.levels = 0 \/ t.levels > MaxLevels
  BY <1>1 DEF task_translate
<1>2. CASE ~(t.l1 = 0 \/ t.levels = 0 \/ t.levels > MaxLevels)
  <2> DEFINE w == Walk(t, va)[t.levels]
             x == Walk(t, va + d)[t.levels]
  <2>1. task_translate(t, va) = w.v /\ task_translate(t, va + d) = x.v
    BY <1>2 DEF task_translate
  <2>2. t.levels \in 0 .. t.levels /\ t.levels \in Nat
    BY DEF Tree
  <2>3. w.st \in {"done", "fail"} /\ (w.st = "fail" => w.v = None)
        /\ (w.st = "done" => w.v \in Nat)
    BY <1>2, <2>2, TranslationEnds
  <2>4. x.v = IF w.st = "done" THEN w.v + d ELSE w.v
    BY <2>2, WalkSamePage
  <2> HIDE DEF w, x
  <2> QED  BY <2>1, <2>3, <2>4 DEF None
<1> QED  BY <1>1, <1>2

\* A translated address is one the tree maps the virtual address to.
LEMMA TranslateFollows ==
    ASSUME Tree(table), NEW va \in Nat, task_translate(table, va) # None
    PROVE  task_translate(table, va) \in MapsTo(va)
<1> DEFINE w == Walk(table, va)
           L == table.levels
           e(j) == EntryOf(table, va, j, w[j - 1].v)
           OnPath(j) == /\ w[j - 1].v \in DOMAIN table.node
                        /\ ~e(j).leaf /\ ~Absent(e(j)) /\ e(j).pfn = w[j].v
           Ends(q) == /\ w[q - 1].v \in DOMAIN table.node
                      /\ ~Absent(e(q)) /\ (e(q).leaf \/ q = L)
           Gpa(q) == PageSize * OrPfn(e(q).pfn, (va % Span(table, q)) \div PageSize) + (va % PageSize)
           Found(k, q) == (\A j \in 1 .. (q - 1) : OnPath(j)) /\ Ends(q) /\ w[k].v = Gpa(q)
           P == {k \in 0 .. L : /\ w[k].st = "node" => \A j \in 1 .. k : OnPath(j)
                                /\ w[k].st = "done" => \E q \in 1 .. k : Found(k, q)}
<1>1. L \in Nat /\ L # 0 /\ table.l1 # 0 /\ ~(L > MaxLevels) /\ task_translate(table, va) = w[L].v
  BY DEF Tree, task_translate
<1>2. w \in [0 .. L -> WalkStates] /\ w[0] = [st |-> "node", v |-> table.l1]
      /\ \A k \in 1 .. L : w[k] = WalkLevel(table, va, k, w[k - 1])
  BY WalkFacts
<1>3. w[L].st \in {"done", "fail"} /\ (w[L].st = "fail" => w[L].v = None)
  <2>1. L \in 0 .. L
    BY <1>1
  <2> QED  BY <1>1, <2>1, TranslationEnds
<1> HIDE DEF w
<1>4. 0 \in P
  BY <1>1, <1>2
<1>5. ASSUME NEW k \in 1 .. L, k - 1 \in P PROVE k \in P
  <2>1. k \in 0 .. L /\ w[k] = WalkLevel(table, va, k, w[k - 1]) /\ w[k - 1] \in WalkStates
    BY <1>1, <1>2
  <2>2. CASE w[k - 1].st # "node"
    <3>1. w[k] = w[k - 1]
      BY <2>1, <2>2 DEF WalkLevel
    <3>2. w[k].st = "done" => \E q \in 1 .. k : Found(k, q)
      <4> SUFFICES ASSUME w[k].st = "done" PROVE \E q \in 1 .. k : Found(k, q)
        OBVIOUS
      <4>1. PICK q \in 1 .. (k - 1) : Found(k - 1, q)
        BY <1>5, <3>1
      <4>2. q \in 1 .. k
        OBVIOUS
      <4>3. Found(k, q)
        BY <3>1, <4>1
      <4> QED  BY <4>2, <4>3
    <3> QED  BY <2>1, <2>2, <3>1, <3>2
  <2>3. CASE w[k - 1].st = "node"
    <3>1. \A j \in 1 .. (k - 1) : OnPath(j)
      BY <1>5, <2>3
    <3>2. CASE w[k - 1].v \notin DOMAIN table.node \/ Absent(e(k))
      <4>1. w[k].st = "fail"
        BY <2>1, <2>3, <3>2 DEF WalkLevel
      <4> QED  BY <2>1, <4>1
    <3>3. CASE w[k - 1].v \in DOMAIN table.node /\ ~Absent(e(k)) /\ (k = L \/ e(k).leaf)
      <4>1. w[k] = [st |-> "done", v |-> PageSize * Frame(e(k), Span(table, k), va) + (va % PageSize)]
        BY <2>1, <2>3, <3>3 DEF WalkLevel
      <4>2. w[k].st = "done" /\ w[k].v = Gpa(k)
        BY <4>1 DEF Frame
      <4>3. Found(k, k) /\ k \in 1 .. k
        BY <3>1, <3>3, <4>2
      <4> QED  BY <2>1, <4>2, <4>3
    <3>4. CASE w[k - 1].v \in DOMAIN table.node /\ ~Absent(e(k)) /\ ~(k = L \/ e(k).leaf)
      <4>1. w[k] = [st |-> "node", v |-> e(k).pfn]
        BY <2>1, <2>3, <3>4 DEF WalkLevel
      <4>2. OnPath(k)
        BY <3>4, <4>1
      <4>3. \A j \in 1 .. k : OnPath(j)
        BY <3>1, <4>2
      <4> QED  BY <2>1, <4>1, <4>3
    <3> QED  BY <3>2, <3>3, <3>4
  <2> QED  BY <2>2, <2>3
<1>6. L \in P
  <2>1. 0 .. L \subseteq P /\ L \in 0 .. L
    <3> HIDE DEF P
    <3> QED  BY <1>1, <1>4, <1>5, RangeInduction
  <2> QED  BY <2>1
<1>7. PICK q \in 1 .. L : Found(L, q)
  BY <1>1, <1>3, <1>6
<1> DEFINE p == [j \in 1 .. q |-> w[j - 1].v]
<1>8. p \in [1 .. q -> DOMAIN table.node]
  <2>1. ASSUME NEW j \in 1 .. q PROVE w[j - 1].v \in DOMAIN table.node
    BY <1>7, j \in 1 .. (q - 1) \/ j = q
  <2> QED  BY <2>1
<1>9. p[1] = table.l1
  BY <1>2
<1>10. ASSUME NEW j \in 1 .. q PROVE p[j] = w[j - 1].v
  OBVIOUS
<1>11. ASSUME NEW j \in 1 .. (q - 1)
       PROVE  /\ ~EntryOf(table, va, j, p[j]).leaf /\ ~Absent(EntryOf(table, va, j, p[j]))
              /\ EntryOf(table, va, j, p[j]).pfn = p[j + 1]
  <2>1. p[j] = w[j - 1].v /\ p[j + 1] = w[(j + 1) - 1].v
    BY <1>10
  <2>2. (j + 1) - 1 = j
    OBVIOUS
  <2> HIDE DEF p
  <2> QED  BY <1>7, <2>1, <2>2
<1>12. q \in 1 .. q /\ p[q] = w[q - 1].v
  OBVIOUS
<1> HIDE DEF p
<1>13. p \in Paths(va, q)
  BY <1>7, <1>8, <1>9, <1>11, <1>12 DEF Paths
<1>14. w[L].v = MappedBy(va, q, p)
  BY <1>7, <1>12 DEF MappedBy
<1> QED  BY <1>1, <1>13, <1>14 DEF MapsTo

\* An address that does not translate is one the tree does not map.
LEMMA UnmappedFails ==
    ASSUME Tree(table), NEW va \in Nat, task_translate(table, va) = None
    PROVE  MapsTo(va) = {}
<1> SUFFICES ASSUME NEW k \in 1 .. table.levels, NEW p \in Paths(va, k),
                    table.l1 # 0, ~(table.levels > MaxLevels)
             PROVE  FALSE
  BY DEF MapsTo
<1> DEFINE w == Walk(table, va)
           L == table.levels
<1>1. L \in Nat /\ L # 0 /\ task_translate(table, va) = w[L].v
  BY DEF Tree, task_translate
<1>2. w \in [0 .. L -> WalkStates] /\ w[0] = [st |-> "node", v |-> table.l1]
      /\ \A j \in 1 .. L : w[j] = WalkLevel(table, va, j, w[j - 1])
  BY WalkFacts
<1>3. \A j \in 0 .. L : w[j].st = "done" => w[j].v \in Nat
  BY TranslationEnds
<1>4. /\ p \in [1 .. k -> DOMAIN table.node] /\ p[1] = table.l1
      /\ \A j \in 1 .. (k - 1) :
            /\ ~EntryOf(table, va, j, p[j]).leaf /\ ~Absent(EntryOf(table, va, j, p[j]))
            /\ EntryOf(table, va, j, p[j]).pfn = p[j + 1]
      /\ ~Absent(EntryOf(table, va, k, p[k]))
      /\ EntryOf(table, va, k, p[k]).leaf \/ k = L
  BY DEF Paths
<1> HIDE DEF w
<1> DEFINE P == {j \in 0 .. (k - 1) : w[j].st = "node" /\ w[j].v = p[j + 1]}
<1>5. 0 \in P
  BY <1>1, <1>2, <1>4
<1>6. ASSUME NEW j \in 1 .. (k - 1), j - 1 \in P PROVE j \in P
  <2>1. w[j - 1].st = "node" /\ w[j - 1].v = p[j] /\ j \in 1 .. L /\ j \in 0 .. (k - 1) /\ j \in 1 .. k
    BY <1>1, <1>6
  <2>2. w[j] = WalkLevel(table, va, j, w[j - 1]) /\ j # L /\ p[j] \in DOMAIN table.node
    BY <1>1, <1>2, <1>4, <2>1
  <2>3. w[j] = [st |-> "node", v |-> EntryOf(table, va, j, p[j]).pfn]
    BY <1>4, <2>1, <2>2 DEF WalkLevel
  <2> QED  BY <1>4, <2>1, <2>3
<1>7. k - 1 \in P
  <2>1. k - 1 \in Nat /\ k - 1 \in 0 .. (k - 1)
    BY <1>1
  <2>2. 0 .. (k - 1) \subseteq P
    <3> HIDE DEF P
    <3> QED  BY <1>5, <1>6, <2>1, RangeInduction
  <2> QED  BY <2>1, <2>2
<1>8. w[k].st = "done"
  <2>1. w[k - 1].st = "node" /\ w[k - 1].v = p[k] /\ p[k] \in DOMAIN table.node
    BY <1>1, <1>4, <1>7
  <2>2. w[k] = WalkLevel(table, va, k, w[k - 1])
    BY <1>2
  <2> QED  BY <1>4, <2>1, <2>2 DEF WalkLevel
<1> DEFINE Q == {j \in 0 .. (L - k) : w[k + j].st = "done"}
<1>9. 0 \in Q
  BY <1>1, <1>8
<1>10. ASSUME NEW j \in 1 .. (L - k), j - 1 \in Q PROVE j \in Q
  <2>1. k + j \in 1 .. L /\ (k + j) - 1 = k + (j - 1) /\ j \in 0 .. (L - k)
    BY <1>1
  <2>2. w[(k + j) - 1].st = "done" /\ w[k + j] = WalkLevel(table, va, k + j, w[(k + j) - 1])
    BY <1>2, <1>10, <2>1
  <2>3. w[k + j] = w[(k + j) - 1]
    BY <2>2 DEF WalkLevel
  <2> QED  BY <2>1, <2>2, <2>3
<1>11. L - k \in Q
  <2>1. L - k \in Nat /\ L - k \in 0 .. (L - k)
    BY <1>1
  <2>2. 0 .. (L - k) \subseteq Q
    <3> HIDE DEF Q
    <3> QED  BY <1>9, <1>10, <2>1, RangeInduction
  <2> QED  BY <2>1, <2>2
<1>12. w[L].st = "done" /\ L \in 0 .. L
  BY <1>1, <1>11
<1> QED  BY <1>1, <1>3, <1>12 DEF None

-----------------------------------------------------------------------------
(* Reading through the tree. *)

Calls == [kind : {"idle", "read", "exec", "slot", "info", "scan"},
          va : Nat, len : Nat, buf : Nat, size : Nat]

MemTypes ==
    /\ Tree(table) /\ known \in BOOLEAN
    /\ op \in Calls /\ got \in Seq(Int) /\ heapSize \in Nat
    /\ obj.next \in Nat /\ obj.len \in Nat

\* How far a page-wise read has come.
Progress ==
    /\ op.kind = "read" => Len(got) <= op.len
    /\ op.kind = "exec" => Len(got) <= op.size /\ op.size <= op.buf

ResolverInv == MemTypes /\ Progress /\ ReadsFollowTheTree /\ StaysInBuffers

\* The words a piece of physical memory adds to what was read.
LEMMA FlatAppend ==
    ASSUME NEW s \in Seq(Int), NEW gpa \in Int, NEW n \in Nat
    PROVE  /\ s \o Flat(gpa, n) \in Seq(Int)
           /\ Len(s \o Flat(gpa, n)) = Len(s) + n
           /\ \A i \in 1 .. Len(s) : (s \o Flat(gpa, n))[i] = s[i]
           /\ \A i \in (Len(s) + 1) .. (Len(s) + n) :
                 (s \o Flat(gpa, n))[i] = gpa + (i - Len(s)) - 1
<1>1. Flat(gpa, n) \in Seq(Int) /\ Len(Flat(gpa, n)) = n
      /\ \A i \in 1 .. n : Flat(gpa, n)[i] = gpa + i - 1
  BY DEF Flat
<1> DEFINE f == Flat(gpa, n)
<1> HIDE DEF f
<1>2. /\ s \o f \in Seq(Int) /\ Len(s \o f) = Len(s) + Len(f)
      /\ \A i \in 1 .. (Len(s) + Len(f)) :
            (s \o f)[i] = IF i <= Len(s) THEN s[i] ELSE f[i - Len(s)]
  BY <1>1, ConcatProperties DEF f
<1>3. Len(s) \in Nat
  OBVIOUS
<1>4. ASSUME NEW i \in 1 .. Len(s) PROVE (s \o f)[i] = s[i]
  BY <1>1, <1>2, <1>3 DEF f
<1>5. ASSUME NEW i \in (Len(s) + 1) .. (Len(s) + n) PROVE (s \o f)[i] = gpa + (i - Len(s)) - 1
  <2>1. i \in 1 .. (Len(s) + n) /\ ~(i <= Len(s)) /\ i - Len(s) \in 1 .. n
    BY <1>3
  <2> QED  BY <1>1, <1>2, <2>1 DEF f
<1> QED  BY <1>1, <1>2, <1>4, <1>5 DEF f

\* A chunk of a page-wise read ends with the page.
LEMMA ChunkFacts ==
    ASSUME NEW a \in Nat, NEW n \in Nat
    PROVE  /\ ToPageEnd(a, n) \in Nat /\ ToPageEnd(a, n) <= n
           /\ (a % PageSize) + ToPageEnd(a, n) <= PageSize
<1>1. PageSize \in Nat \ {0}
  BY MemAssumption DEF MemAssumption
<1>2. a % PageSize \in 0 .. (PageSize - 1)
  BY <1>1
<1> QED  BY <1>1, <1>2 DEF ToPageEnd

\* A step that starts a call or ends one has read nothing yet.
LEMMA NothingRead ==
    ASSUME got' = <<>>
    PROVE  ReadsFollowTheTree'
BY DEF ReadsFollowTheTree

\* lagfx_task_read_virtual, one page.
LEMMA ReadVirtualKeeps ==
    ASSUME ResolverInv, ReadVirtual, UNCHANGED inputVars
    PROVE  ResolverInv'
<1> DEFINE cur == op.va + Len(got)
           chunk == ToPageEnd(cur, op.len - Len(got))
           gpa == task_translate(table, cur)
<1>1. op \in Calls /\ op.kind = "read" /\ Len(got) \in Nat /\ Len(got) <= op.len /\ got \in Seq(Int)
  BY DEF ResolverInv, MemTypes, Progress, ReadVirtual
<1>2. UNCHANGED <<table, known, heapSize, obj>>
  BY DEF ReadVirtual, inputVars
<1>3. ASSUME NEW r, Finish(r) PROVE ResolverInv'
  <2>1. op' = Idle /\ got' = <<>>
    BY <1>3 DEF Finish
  <2>2. MemTypes'
    BY <1>2, <2>1 DEF ResolverInv, MemTypes, Calls, Idle, Tree
  <2>3. Progress' /\ StaysInBuffers'
    BY <2>1 DEF Progress, StaysInBuffers, Idle
  <2> QED  BY <2>1, <2>2, <2>3, NothingRead DEF ResolverInv
<1>4. ASSUME Len(got) # op.len, gpa # None, got' = got \o Flat(gpa, chunk), UNCHANGED <<op, result>>
      PROVE  ResolverInv'
  <2>1. cur \in Nat /\ op.len - Len(got) \in Nat
    BY <1>1 DEF Calls
  <2>2. gpa \in Nat /\ Tree(table)
    BY <1>4, <2>1, TranslateType DEF ResolverInv, MemTypes
  <2>3. chunk \in Nat /\ chunk <= op.len - Len(got) /\ (cur % PageSize) + chunk <= PageSize
    BY <2>1, ChunkFacts
  <2> HIDE DEF chunk, gpa
  <2>4. /\ got' \in Seq(Int) /\ Len(got') = Len(got) + chunk
        /\ \A i \in 1 .. Len(got) : got'[i] = got[i]
        /\ \A i \in (Len(got) + 1) .. (Len(got) + chunk) : got'[i] = gpa + (i - Len(got)) - 1
    <3>1. gpa \in Int
      BY <2>2
    <3> QED  BY <1>1, <1>4, <2>3, <3>1, FlatAppend, Zenon
  <2>5. MemTypes'
    BY <1>2, <1>4, <2>4 DEF ResolverInv, MemTypes, Tree
  <2>6. Progress' /\ StaysInBuffers'
    <3>1. op'.kind = "read" /\ op'.len = op.len /\ op.len \in Nat
      BY <1>1, <1>4 DEF Calls
    <3>2. Len(got') <= op'.len
      BY <1>1, <2>3, <2>4, <3>1
    <3> QED  BY <3>1, <3>2 DEF Progress, StaysInBuffers
  <2>7. ASSUME NEW i \in 1 .. Len(got) PROVE got'[i] \in MapsTo(op.va + i - 1)
    BY <1>1, <2>4 DEF ResolverInv, ReadsFollowTheTree
  <2>8. ASSUME NEW i \in (Len(got) + 1) .. (Len(got) + chunk) PROVE got'[i] \in MapsTo(op.va + i - 1)
    <3> DEFINE d == (i - Len(got)) - 1
    <3>1. d \in Nat /\ d < chunk /\ cur + d = op.va + i - 1 /\ got'[i] = gpa + d
      <4>1. op.va \in Nat /\ i \in Int
        BY <1>1, <2>3 DEF Calls
      <4>2. got'[i] = gpa + (i - Len(got)) - 1
        BY <2>4
      <4>3. d \in Nat /\ d < chunk
        BY <1>1, <2>3, <4>1
      <4>4. cur + d = op.va + i - 1
        BY <1>1, <4>1
      <4>5. got'[i] = gpa + d
        BY <1>1, <2>2, <4>1, <4>2
      <4> QED  BY <4>3, <4>4, <4>5
    <3>2. (cur % PageSize) + d < PageSize
      <4>1. PageSize \in Nat \ {0}
        BY MemAssumption DEF MemAssumption
      <4>2. cur % PageSize \in Nat
        <5> HIDE DEF cur
        <5> QED  BY <2>1, <4>1
      <4> QED  BY <2>3, <3>1, <4>1, <4>2
    <3> HIDE DEF d, cur
    <3>3. task_translate(table, cur + d) = gpa + d
      BY <1>4, <2>1, <2>2, <3>1, <3>2, TranslateSamePage DEF gpa
    <3>4. gpa + d # None /\ cur + d \in Nat
      BY <2>1, <2>2, <3>1 DEF None
    <3>5. gpa + d \in MapsTo(cur + d)
      BY <2>2, <3>3, <3>4, TranslateFollows
    <3> QED  BY <3>1, <3>5
  <2>9. ReadsFollowTheTree'
    <3> SUFFICES ASSUME NEW i \in 1 .. Len(got') PROVE got'[i] \in MapsTo(op.va + i - 1)'
      BY <1>1, <1>4 DEF ReadsFollowTheTree
    <3>1. op'.va = op.va
      BY <1>4
    <3>2. i \in 1 .. Len(got) \/ i \in (Len(got) + 1) .. (Len(got) + chunk)
      BY <1>1, <2>3, <2>4
    <3>3. got'[i] \in MapsTo(op.va + i - 1)
      BY <2>7, <2>8, <3>2
    <3>4. MapsTo(op.va + i - 1)' = MapsTo(op.va + i - 1)
      BY <1>2, <3>1 DEF MapsTo, Paths, MappedBy
    <3> QED  BY <3>3, <3>4
  <2> QED  BY <2>5, <2>6, <2>9 DEF ResolverInv
<1> QED  BY <1>3, <1>4 DEF ReadVirtual

\* The read loop of exec_walk_resource, one page: the page of the tree, or the
\* identity for a page the tree does not map.
LEMMA ExecReadKeeps ==
    ASSUME ResolverInv, ExecRead, UNCHANGED inputVars
    PROVE  ResolverInv'
<1> DEFINE cur == op.va + Len(got)
           t == IF known THEN task_translate(table, cur) ELSE None
           gpa == IF t = None THEN cur ELSE t
           chunk == ToPageEnd(gpa, op.size - Len(got))
<1>1. op \in Calls /\ op.kind = "exec" /\ Len(got) \in Nat /\ Len(got) <= op.size /\ got \in Seq(Int)
      /\ op.size <= op.buf
  BY DEF ResolverInv, MemTypes, Progress, ExecRead
<1>2. UNCHANGED <<table, known, heapSize, obj>>
  BY DEF ExecRead, inputVars
<1>3. ASSUME NEW r, Finish(r) PROVE ResolverInv'
  <2>1. op' = Idle /\ got' = <<>>
    BY <1>3 DEF Finish
  <2>2. MemTypes'
    BY <1>2, <2>1 DEF ResolverInv, MemTypes, Calls, Idle, Tree
  <2>3. Progress' /\ StaysInBuffers'
    BY <2>1 DEF Progress, StaysInBuffers, Idle
  <2> QED  BY <2>1, <2>2, <2>3, NothingRead DEF ResolverInv
<1>4. ASSUME Len(got) # op.size, got' = got \o Flat(gpa, chunk), UNCHANGED <<op, result>>
      PROVE  ResolverInv'
  <2>0. Tree(table) /\ known \in BOOLEAN /\ PageSize \in Nat \ {0}
    BY MemAssumption DEF ResolverInv, MemTypes, MemAssumption
  <2>1. cur \in Nat /\ op.size - Len(got) \in Nat
    BY <1>1 DEF Calls
  <2>2. gpa \in Nat /\ gpa % PageSize = cur % PageSize
    <3> HIDE DEF cur
    <3>1. CASE t = None
      BY <2>1, <3>1
    <3>2. CASE t # None
      <4>1. gpa = task_translate(table, cur) /\ task_translate(table, cur) # None
        BY <3>2
      <4> QED  BY <2>0, <2>1, <4>1, TranslateType
    <3> QED  BY <3>1, <3>2
  <2> HIDE DEF gpa
  <2>3. chunk \in Nat /\ chunk <= op.size - Len(got) /\ (gpa % PageSize) + chunk <= PageSize
    BY <2>1, <2>2, ChunkFacts
  <2> HIDE DEF chunk
  <2>4. /\ got' \in Seq(Int) /\ Len(got') = Len(got) + chunk
        /\ \A i \in 1 .. Len(got) : got'[i] = got[i]
        /\ \A i \in (Len(got) + 1) .. (Len(got) + chunk) : got'[i] = gpa + (i - Len(got)) - 1
    <3>1. gpa \in Int
      BY <2>2
    <3> QED  BY <1>1, <1>4, <2>3, <3>1, FlatAppend, Zenon
  <2>5. MemTypes'
    BY <1>2, <1>4, <2>4 DEF ResolverInv, MemTypes, Tree
  <2>6. Progress' /\ StaysInBuffers'
    <3>1. op'.kind = "exec" /\ op'.size = op.size /\ op'.buf = op.buf /\ op'.len = op.len
          /\ op.size \in Nat /\ op.buf \in Nat
      BY <1>1, <1>4 DEF Calls
    <3>2. Len(got') <= op.size
      BY <1>1, <2>3, <2>4, <3>1
    <3>3. Len(got') <= op.buf
      BY <1>1, <2>3, <2>4, <3>1, <3>2
    <3>4. op.size <= op.len /\ (op.buf = Scratch \/ op.buf = heapSize)
      BY <1>1 DEF ResolverInv, StaysInBuffers
    <3> QED  BY <1>1, <1>2, <3>1, <3>2, <3>3, <3>4 DEF Progress, StaysInBuffers
  <2> DEFINE Right(i, g) == \/ g \in MapsTo(op.va + i - 1) /\ known
                            \/ g = op.va + i - 1 /\ (known => MapsTo(op.va + i - 1) = {})
  <2>7. ASSUME NEW i \in 1 .. Len(got) PROVE Right(i, got'[i])
    BY <1>1, <2>4 DEF ResolverInv, ReadsFollowTheTree
  <2>8. ASSUME NEW i \in (Len(got) + 1) .. (Len(got) + chunk) PROVE Right(i, got'[i])
    <3> DEFINE d == (i - Len(got)) - 1
    <3>1. d \in Nat /\ d < chunk /\ cur + d = op.va + i - 1 /\ got'[i] = gpa + d
      <4>1. op.va \in Nat /\ i \in Int
        BY <1>1, <2>3 DEF Calls
      <4>2. got'[i] = gpa + (i - Len(got)) - 1
        BY <2>4
      <4>3. d \in Nat /\ d < chunk
        BY <1>1, <2>3, <4>1
      <4>4. cur + d = op.va + i - 1
        BY <1>1, <4>1
      <4>5. got'[i] = gpa + d
        BY <1>1, <2>2, <4>1, <4>2
      <4> QED  BY <4>3, <4>4, <4>5
    <3>2. (cur % PageSize) + d < PageSize
      <4>1. gpa % PageSize \in Nat
        BY <2>0, <2>2
      <4>2. (gpa % PageSize) + d < PageSize
        BY <2>0, <2>3, <3>1, <4>1
      <4> QED  BY <2>2, <4>2
    <3> HIDE DEF d, cur
    <3>3. cur + d \in Nat /\ gpa + d # None
      BY <2>1, <2>2, <3>1 DEF None
    <3>4. CASE ~known
      <4>1. gpa = cur
        BY <3>4 DEF gpa
      <4> QED  BY <3>1, <3>4, <4>1
    <3>5. CASE known /\ task_translate(table, cur) = None
      <4>1. gpa = cur
        BY <3>5 DEF gpa
      <4>2. task_translate(table, cur + d) = None
        BY <2>0, <2>1, <3>1, <3>2, <3>5, TranslateSamePage
      <4>3. MapsTo(cur + d) = {}
        BY <2>0, <3>3, <4>2, UnmappedFails
      <4> QED  BY <3>1, <4>1, <4>3
    <3>6. CASE known /\ task_translate(table, cur) # None
      <4>1. gpa = task_translate(table, cur)
        BY <3>6 DEF gpa
      <4>2. task_translate(table, cur + d) = gpa + d
        BY <2>0, <2>1, <3>1, <3>2, <3>6, <4>1, TranslateSamePage
      <4>3. gpa + d \in MapsTo(cur + d)
        BY <2>0, <3>3, <4>2, TranslateFollows
      <4> QED  BY <3>1, <3>6, <4>3
    <3> QED  BY <2>0, <3>4, <3>5, <3>6
  <2>9. ReadsFollowTheTree'
    <3> SUFFICES ASSUME NEW i \in 1 .. Len(got')
                 PROVE  \/ got'[i] \in MapsTo(op.va + i - 1)' /\ known'
                        \/ got'[i] = op'.va + i - 1 /\ (known' => MapsTo(op.va + i - 1)' = {})
      BY <1>1, <1>4 DEF ReadsFollowTheTree
    <3>1. op'.va = op.va
      BY <1>4
    <3>2. i \in 1 .. Len(got) \/ i \in (Len(got) + 1) .. (Len(got) + chunk)
      BY <1>1, <2>3, <2>4
    <3>3. Right(i, got'[i])
      BY <2>7, <2>8, <3>2
    <3>4. MapsTo(op.va + i - 1)' = MapsTo(op.va + i - 1)
      BY <1>2, <3>1 DEF MapsTo, Paths, MappedBy
    <3> QED  BY <1>2, <3>1, <3>3, <3>4
  <2> QED  BY <2>5, <2>6, <2>9 DEF ResolverInv
<1> QED  BY <1>3, <1>4 DEF ExecRead

\* The steps that start a call, and those of the calls that take one step.
LEMMA CallsKeep ==
    ASSUME ResolverInv, MemNext, UNCHANGED inputVars, ~ReadVirtual, ~ExecRead
    PROVE  ResolverInv'
<1>0. UNCHANGED <<table, known, obj>> /\ MemTypes
  <2>1. obj' = obj /\ MemTypes
    BY DEF inputVars, ResolverInv
  <2>2. ASSUME NEW va, NEW n, NEW r, CallExec(va, n, r) PROVE table' = table /\ known' = known
    BY <2>2 DEF CallExec
  <2>3. ASSUME NEW va, NEW n, CallReadVirtual(va, n) PROVE table' = table /\ known' = known
    BY <2>3 DEF CallReadVirtual
  <2>4. ASSUME NEW id, ReadSlot(HeapPfn, id) PROVE table' = table /\ known' = known
    BY <2>4 DEF ReadSlot
  <2>5. ASSUME NEW c, NEW b, NEW bs, NEW o, InfoDispatch(c, b, bs, 0, o)
        PROVE  table' = table /\ known' = known
    BY <2>5 DEF InfoDispatch
  <2>6. ASSUME Return PROVE table' = table /\ known' = known
    BY <2>6 DEF Return
  <2>7. table' = table /\ known' = known
    BY <2>2, <2>3, <2>4, <2>5, <2>6, Zenon DEF MemNext, ReadFunction
  <2> QED  BY <2>1, <2>7
<1>1. ASSUME NEW va \in VAs, NEW n \in Lengths, NEW r \in BOOLEAN, CallExec(va, n, r) PROVE ResolverInv'
  <2> DEFINE heap == IF n > Scratch /\ heapSize < n /\ r THEN RoundUp(n, HeapUnit) ELSE heapSize
             buf == ExecBuffer(n, heap)
  <2>1. /\ heapSize' = heap /\ got' = <<>>
        /\ op' = [kind |-> "exec", va |-> va, len |-> n, buf |-> buf, size |-> ToRead(n, buf)]
    BY <1>1 DEF CallExec
  <2>2. va \in Nat /\ n \in Nat /\ Scratch \in Nat /\ HeapUnit \in Nat \ {0} /\ heapSize \in Nat
    BY <1>0, MemAssumption DEF MemAssumption, MemTypes
  <2>3. RoundUp(n, HeapUnit) \in Nat
    <3>1. (n + HeapUnit - 1) \div HeapUnit \in Nat
      BY <2>2
    <3> QED  BY <2>2, <3>1 DEF RoundUp
  <2>4. heap \in Nat
    BY <2>2, <2>3
  <2> HIDE DEF heap
  <2>5. buf \in Nat /\ (buf = Scratch \/ buf = heap) /\ ToRead(n, buf) \in Nat
        /\ ToRead(n, buf) <= n /\ ToRead(n, buf) <= buf
    BY <2>2, <2>4 DEF ExecBuffer, ToRead
  <2> HIDE DEF buf
  <2>6. MemTypes'
    BY <1>0, <2>1, <2>2, <2>4, <2>5 DEF MemTypes, Calls, Tree
  <2>7. Progress' /\ StaysInBuffers'
    BY <2>1, <2>2, <2>5 DEF Progress, StaysInBuffers
  <2> QED  BY <2>1, <2>6, <2>7, NothingRead DEF ResolverInv
<1>2. ASSUME NEW va \in Nat, NEW n \in Nat, CallReadVirtual(va, n) PROVE ResolverInv'
  <2>1. op' = [kind |-> "read", va |-> va, len |-> n, buf |-> 0, size |-> 0] /\ got' = <<>> /\ heapSize' = heapSize
    BY <1>2 DEF CallReadVirtual, Idle
  <2>2. MemTypes'
    BY <1>0, <2>1 DEF MemTypes, Calls, Tree
  <2>3. Progress' /\ StaysInBuffers'
    BY <2>1 DEF Progress, StaysInBuffers
  <2> QED  BY <2>1, <2>2, <2>3, NothingRead DEF ResolverInv
<1>3. ASSUME NEW id \in Ids, ReadFunction(id) PROVE ResolverInv'
  <2>1. CallReadVirtual(obj.next, obj.len) /\ obj.next \in Nat /\ obj.len \in Nat
    BY <1>0, <1>3 DEF ReadFunction, lookup_function_bytes, MemTypes
  <2> QED  BY <1>2, <2>1
<1>4. ASSUME NEW id \in Ids, ReadSlot(HeapPfn, id) PROVE ResolverInv'
  <2> DEFINE va == PageSize * HeapPfn + SlotWords * id
             gpa == task_translate(table, va)
  <2>1. op' = [kind |-> "slot", va |-> va, len |-> SlotWords, buf |-> 0, size |-> 0] /\ heapSize' = heapSize
        /\ (got' = <<>> \/ (gpa # None /\ got' = Flat(gpa, SlotWords)))
    BY <1>4 DEF ReadSlot, Idle
  <2>2. PageSize \in Nat /\ SlotWords \in Nat /\ HeapPfn \in Nat /\ id \in Nat
    BY MemAssumption, ResolverAssumption DEF MemAssumption, ResolverAssumption
  <2>3. va \in Nat
    BY <2>2
  <2> HIDE DEF va
  <2>4. got' \in Seq(Int)
    <3>1. CASE gpa # None /\ got' = Flat(gpa, SlotWords)
      <4>1. gpa \in Nat
        BY <1>0, <2>3, <3>1, TranslateType DEF MemTypes
      <4> HIDE DEF gpa
      <4> QED  BY <2>2, <3>1, <4>1 DEF Flat
    <3>2. CASE got' = <<>>
      BY <3>2
    <3> QED  BY <2>1, <3>1, <3>2
  <2>5. MemTypes'
    BY <1>0, <2>1, <2>2, <2>3, <2>4 DEF MemTypes, Calls, Tree
  <2> QED  BY <2>1, <2>5 DEF ResolverInv, Progress, ReadsFollowTheTree, StaysInBuffers
<1>5. ASSUME NEW c \in InfoCommands, NEW b \in Bodies, NEW va \in VAs, NEW n \in Lengths, NEW o \in Offsets,
             InfoDispatch(c, b, [i \in {0} |-> [va |-> va, len |-> n]], 0, o)
      PROVE  ResolverInv'
  <2> DEFINE size == InfoShape(c).reply
             target == (va + o) % Wrap
             t == IF known THEN task_translate(table, target) ELSE None
             gpa == IF t = None THEN target ELSE t
  <2>1. /\ op' = [kind |-> "info", va |-> va, len |-> n, buf |-> o, size |-> size]
        /\ heapSize' = heapSize /\ (got' = <<>> \/ got' = Flat(gpa, size))
        /\ (o + size) % Wrap <= n
    BY <1>5 DEF InfoDispatch, ReplyFits
  <2>2. va \in Nat /\ n \in Nat /\ o \in Nat /\ Wrap \in Nat \ {0} /\ known \in BOOLEAN /\ Tree(table)
    BY <1>0, MemAssumption, ResolverAssumption DEF MemAssumption, ResolverAssumption, MemTypes
  <2>3. size \in Nat
    BY DEF InfoShape, InfoSizes, InfoSizes2, InfoCommands
  <2>4. target \in Nat
    BY <2>2
  <2> HIDE DEF size, target
  <2>5. gpa \in Int
    BY <2>2, <2>4, TranslateType
  <2> HIDE DEF gpa
  <2>6. got' \in Seq(Int)
    <3>1. CASE got' = Flat(gpa, size)
      BY <2>3, <2>5, <3>1 DEF Flat
    <3>2. CASE got' = <<>>
      BY <3>2
    <3> QED  BY <2>1, <3>1, <3>2
  <2>7. MemTypes'
    BY <1>0, <2>1, <2>2, <2>3, <2>6 DEF MemTypes, Calls, Tree
  <2>8. o + size < Wrap => o + size <= n
    <3>1. ASSUME o + size < Wrap PROVE (o + size) % Wrap = o + size
      BY <2>2, <2>3, <3>1
    <3> QED  BY <2>1, <3>1
  <2> QED  BY <2>1, <2>7, <2>8 DEF ResolverInv, Progress, ReadsFollowTheTree, StaysInBuffers
<1>6. ASSUME Return PROVE ResolverInv'
  <2>1. op' = Idle /\ got' = <<>> /\ heapSize' = heapSize
    BY <1>6 DEF Return, Finish
  <2>2. MemTypes'
    BY <1>0, <2>1 DEF MemTypes, Calls, Idle, Tree
  <2>3. Progress' /\ StaysInBuffers'
    BY <2>1 DEF Progress, StaysInBuffers, Idle
  <2> QED  BY <2>1, <2>2, <2>3, NothingRead DEF ResolverInv
<1>7. \A va \in VAs, n \in Lengths : va \in Nat /\ n \in Nat
  BY MemAssumption DEF MemAssumption
<1> QED  BY <1>1, <1>2, <1>3, <1>4, <1>5, <1>6, <1>7 DEF MemNext

LEMMA ResolverInitial ==
    ASSUME ResolverInit
    PROVE  ResolverInv
<1>1. CASE MemInit /\ obj \in Objects
  <2>1. MemTypes
    BY <1>1, MemAssumption, ResolverAssumption
       DEF MemInit, MemAssumption, ResolverAssumption, MemTypes, Tree, Calls, Idle
  <2>2. op.kind = "idle"
    BY <1>1 DEF MemInit, Idle
  <2> QED  BY <2>1, <2>2 DEF ResolverInv, Progress, ReadsFollowTheTree, StaysInBuffers
<1>2. CASE /\ table = [l1 |-> 0, levels |-> 0, node |-> <<>>] /\ known = FALSE
           /\ op = [Idle EXCEPT !.kind = "scan"] /\ got = <<>> /\ heapSize = 0
           /\ obj = [type |-> 0, bytes |-> 0, next |-> 0, magic |-> FALSE, len |-> 0]
  <2>1. op = [kind |-> "scan", va |-> 0, len |-> 0, buf |-> 0, size |-> 0]
    BY <1>2 DEF Idle
  <2>2. Tree(table)
    BY <1>2 DEF Tree
  <2>3. MemTypes
    <3>1. op \in Calls
      BY <2>1 DEF Calls
    <3>2. got \in Seq(Int)
      BY <1>2
    <3> QED  BY <1>2, <2>2, <3>1, <3>2 DEF MemTypes
  <2> QED  BY <2>1, <2>3 DEF ResolverInv, Progress, ReadsFollowTheTree, StaysInBuffers
<1> QED  BY <1>1, <1>2 DEF ResolverInit

LEMMA ResolverStep ==
    ASSUME ResolverInv, [ResolverNext]_resolverVars
    PROVE  ResolverInv'
<1>1. CASE ResolverNext /\ ReadVirtual
  BY <1>1, ReadVirtualKeeps DEF ResolverNext
<1>2. CASE ResolverNext /\ ExecRead
  BY <1>2, ExecReadKeeps DEF ResolverNext
<1>3. CASE ResolverNext /\ ~ReadVirtual /\ ~ExecRead
  BY <1>3, CallsKeep DEF ResolverNext
<1>4. CASE UNCHANGED resolverVars
  <2>1. UNCHANGED <<table, known, op, got, heapSize, result, obj>>
    BY <1>4 DEF resolverVars, memVars
  <2>2. MemTypes' /\ Progress' /\ StaysInBuffers'
    BY <2>1 DEF ResolverInv, MemTypes, Tree, Progress, StaysInBuffers
  <2>3. ReadsFollowTheTree'
    <3> SUFFICES ASSUME op.kind \in {"read", "exec"}, NEW i \in 1 .. Len(got)
                 PROVE  \/ got[i] \in MapsTo(op.va + i - 1)' /\ (op.kind = "exec" => known)
                        \/ /\ op.kind = "exec" /\ got[i] = op.va + i - 1
                           /\ known => MapsTo(op.va + i - 1)' = {}
      BY <2>1 DEF ReadsFollowTheTree
    <3>2. MapsTo(op.va + i - 1)' = MapsTo(op.va + i - 1)
      BY <2>1 DEF MapsTo, Paths, MappedBy
    <3> QED  BY <3>2 DEF ResolverInv, ReadsFollowTheTree
  <2> QED  BY <2>2, <2>3 DEF ResolverInv
<1> QED  BY <1>1, <1>2, <1>3, <1>4

\* For any radix tree, page size and fan-out, whatever is mapped and whatever can be
\* read: every word a page-wise read delivers comes from the frame the tree gives for
\* that word's own address (lagfx_task_read_virtual, exec_walk_resource).
THEOREM ReadsFollowTheTreeAlways == ResolverSpec => []ReadsFollowTheTree
<1>1. ResolverInv => ReadsFollowTheTree
  BY DEF ResolverInv
<1> QED  BY <1>1, ResolverInitial, ResolverStep, PTL DEF ResolverSpec

\* For any sizes of the scratch buffer and of command buffers, and any sequence of
\* calls and failing allocations: a command buffer never overruns the buffer it is
\* read into, and a reply stays in the buffer of its command.
THEOREM StaysInBuffersAlways == ResolverSpec => []StaysInBuffers
<1>1. ResolverInv => StaysInBuffers
  BY DEF ResolverInv
<1> QED  BY <1>1, ResolverInitial, ResolverStep, PTL DEF ResolverSpec

-----------------------------------------------------------------------------
(* What the scans of a descriptor keep. *)

\* The references kept after the first i bytes: each is the one of the first
\* candidate that the references before it do not cover, and while there is room
\* no candidate is missing.
RefsAt(d, cap, out, i) ==
    /\ out \in Seq(Nat) /\ Len(out) <= cap
    /\ \A k, l \in 1 .. Len(out) : out[k] = out[l] => k = l
    /\ \A k \in 1 .. Len(out) :
          \E j \in 1 .. i :
             /\ Candidate(d, j) /\ out[k] = d[j + 1]
             /\ \A m \in 1 .. (j - 1) : Candidate(d, m) =>
                   \E l \in 1 .. (k - 1) : out[l] = d[m + 1]
    /\ Len(out) < cap =>
          \A j \in 1 .. i : Candidate(d, j) => \E k \in 1 .. Len(out) : out[k] = d[j + 1]

LEMMA TakeRefType ==
    ASSUME NEW d \in Seq(Nat), NEW cap \in Nat, NEW out \in Seq(Nat), NEW i \in 1 .. Len(d)
    PROVE  TakeRef(d, cap, out, i) \in Seq(Nat)
<1>1. CASE Candidate(d, i)
  <2>1. d[i + 1] \in Nat
    BY <1>1 DEF Candidate
  <2>2. Append(out, d[i + 1]) \in Seq(Nat)
    BY <2>1
  <2> QED  BY <2>2 DEF TakeRef
<1> QED  BY <1>1 DEF TakeRef

LEMMA TakeRefKeeps ==
    ASSUME NEW d \in Seq(Nat), NEW cap \in Nat, NEW out, NEW i \in 1 .. Len(d),
           RefsAt(d, cap, out, i - 1)
    PROVE  RefsAt(d, cap, TakeRef(d, cap, out, i), i)
<1>0. out \in Seq(Nat) /\ Len(out) \in Nat /\ i \in Nat
  BY DEF RefsAt
<1>a. \A k, l \in 1 .. Len(out) : out[k] = out[l] => k = l
  BY DEF RefsAt
<1>1. CASE Len(out) < cap /\ Candidate(d, i) /\ ~Contains(out, d[i + 1])
  <2> DEFINE t == Append(out, d[i + 1])
  <2>1. TakeRef(d, cap, out, i) = t
    BY <1>1 DEF TakeRef
  <2>2. d[i + 1] \in Nat
    BY <1>1 DEF Candidate
  <2>3. t \in Seq(Nat) /\ Len(t) = Len(out) + 1 /\ t[Len(out) + 1] = d[i + 1]
    BY <1>0, <2>2
  <2>a. \A k \in 1 .. Len(out) : t[k] = out[k]
    BY <1>0, <2>2
  <2>b. \A k \in 1 .. Len(t) : k \in 1 .. Len(out) \/ k = Len(out) + 1
    <3> HIDE DEF t
    <3> QED  BY <1>0, <2>3
  <2> HIDE DEF t
  <2>4. \A k \in 1 .. Len(out) : out[k] # d[i + 1]
    BY <1>1 DEF Contains
  <2>5. ASSUME NEW k \in 1 .. Len(t), NEW l \in 1 .. Len(t), t[k] = t[l] PROVE k = l
    BY <1>a, <2>3, <2>a, <2>b, <2>4, <2>5
  <2>6. ASSUME NEW k \in 1 .. Len(t)
        PROVE  \E j \in 1 .. i :
                  /\ Candidate(d, j) /\ t[k] = d[j + 1]
                  /\ \A m \in 1 .. (j - 1) : Candidate(d, m) =>
                        \E l \in 1 .. (k - 1) : t[l] = d[m + 1]
    <3>1. CASE k \in 1 .. Len(out)
      <4>1. PICK j \in 1 .. (i - 1) :
               /\ Candidate(d, j) /\ out[k] = d[j + 1]
               /\ \A m \in 1 .. (j - 1) : Candidate(d, m) =>
                     \E l \in 1 .. (k - 1) : out[l] = d[m + 1]
        BY <3>1 DEF RefsAt
      <4>2. j \in 1 .. i
        BY <1>0
      <4>5. t[k] = d[j + 1]
        BY <2>a, <3>1, <4>1
      <4>3. \A l \in 1 .. (k - 1) : t[l] = out[l]
        <5>1. \A l \in 1 .. (k - 1) : l \in 1 .. Len(out)
          BY <1>0, <3>1
        <5> QED  BY <2>a, <5>1
      <4>4. \A m \in 1 .. (j - 1) : Candidate(d, m) => \E l \in 1 .. (k - 1) : t[l] = d[m + 1]
        BY <4>1, <4>3
      <4> QED  BY <4>1, <4>2, <4>4, <4>5
    <3>2. CASE k = Len(out) + 1
      <4>1. \A m \in 1 .. (i - 1) : Candidate(d, m) => \E l \in 1 .. Len(out) : t[l] = d[m + 1]
        BY <1>1, <2>a DEF RefsAt
      <4>2. k - 1 = Len(out) /\ i \in 1 .. i
        BY <1>0, <3>2
      <4> QED  BY <1>1, <2>3, <3>2, <4>1, <4>2
    <3> QED  BY <2>b, <3>1, <3>2
  <2>7. ASSUME NEW j \in 1 .. i, Candidate(d, j)
        PROVE  \E k \in 1 .. Len(t) : t[k] = d[j + 1]
    <3>1. CASE j = i
      <4>1. Len(out) + 1 \in 1 .. Len(t)
        BY <1>0, <2>3
      <4> QED  BY <2>3, <3>1, <4>1
    <3>2. CASE j \in 1 .. (i - 1)
      <4>1. PICK k \in 1 .. Len(out) : out[k] = d[j + 1]
        BY <1>1, <2>7, <3>2 DEF RefsAt
      <4>2. k \in 1 .. Len(t)
        BY <1>0, <2>3
      <4>3. t[k] = d[j + 1]
        BY <2>a, <4>1
      <4> QED  BY <4>2, <4>3
    <3> QED  BY <3>1, <3>2
  <2>8. Len(t) <= cap
    BY <1>0, <1>1, <2>3
  <2> QED  BY <2>1, <2>3, <2>5, <2>6, <2>7, <2>8 DEF RefsAt
<1>2. CASE ~(Len(out) < cap /\ Candidate(d, i) /\ ~Contains(out, d[i + 1]))
  <2>1. TakeRef(d, cap, out, i) = out
    BY <1>2 DEF TakeRef
  <2>2. \A j \in 1 .. (i - 1) : j \in 1 .. i
    OBVIOUS
  <2>3. ASSUME Len(out) < cap, NEW j \in 1 .. i, Candidate(d, j)
        PROVE  \E k \in 1 .. Len(out) : out[k] = d[j + 1]
    <3>1. CASE j = i
      BY <1>2, <2>3, <3>1 DEF Contains
    <3>2. CASE j \in 1 .. (i - 1)
      BY <2>3, <3>2 DEF RefsAt
    <3> QED  BY <3>1, <3>2
  <2>4. ASSUME NEW k \in 1 .. Len(out)
        PROVE  \E j \in 1 .. i :
                  /\ Candidate(d, j) /\ out[k] = d[j + 1]
                  /\ \A m \in 1 .. (j - 1) : Candidate(d, m) =>
                        \E l \in 1 .. (k - 1) : out[l] = d[m + 1]
    BY <2>2, <2>4 DEF RefsAt
  <2>5. RefsAt(d, cap, out, i)
    BY <1>a, <2>3, <2>4 DEF RefsAt
  <2> QED  BY <2>1, <2>5
<1> QED  BY <1>1, <1>2

LEMMA RefsScanned ==
    ASSUME NEW d \in Seq(Nat), NEW cap \in Nat
    PROVE  RefsAt(d, cap, scan_descriptor_function_refs(d, cap), Len(d))
<1> DEFINE n == Len(d)
           S == Seq(Nat)
           F == [i \in 1 .. n |-> [x \in S |-> TakeRef(d, cap, x, i)]]
<1>0. n \in Nat
  OBVIOUS
<1>1. F \in StepsOn(n, S)
  <2> HIDE DEF S
  <2> QED  BY TakeRefType DEF StepsOn, S
<1>2. <<>> \in S
  OBVIOUS
<1>3. PICK f : Iterates(f, n, S, <<>>, F)
  <2> HIDE DEF F, S, n
  <2> QED  BY <1>0, <1>1, <1>2, Iteration
<1>4. f = [i \in 0 .. n |-> IF i = 0 THEN <<>> ELSE TakeRef(d, cap, f[i - 1], i)]
  <2>1. ASSUME NEW i \in 1 .. n PROVE f[i] = TakeRef(d, cap, f[i - 1], i)
    <3> HIDE DEF S
    <3>1. f[i - 1] \in S
      BY <1>3 DEF Iterates
    <3>2. F[i][f[i - 1]] = TakeRef(d, cap, f[i - 1], i)
      BY <3>1
    <3> QED  BY <1>3, <3>2 DEF Iterates
  <2> HIDE DEF S, F
  <2> QED  BY <1>3, <2>1 DEF Iterates
<1> DEFINE r == CHOOSE g : g = [i \in 0 .. n |-> IF i = 0 THEN <<>> ELSE TakeRef(d, cap, g[i - 1], i)]
<1>5. r = [i \in 0 .. n |-> IF i = 0 THEN <<>> ELSE TakeRef(d, cap, r[i - 1], i)]
  <2> HIDE DEF F, S
  <2> QED  BY <1>4, Zenon
<1>6. scan_descriptor_function_refs(d, cap) = r[n]
  BY Zenon DEF scan_descriptor_function_refs
<1> DEFINE P == {i \in 0 .. n : RefsAt(d, cap, r[i], i)}
<1> HIDE DEF r, F, S
<1>7. 0 \in P
  <2>1. r[0] = <<>> /\ 0 \in 0 .. n
    BY <1>0, <1>5
  <2>2. RefsAt(d, cap, <<>>, 0)
    BY DEF RefsAt
  <2> QED  BY <2>1, <2>2
<1>8. ASSUME NEW k \in 1 .. n, k - 1 \in P PROVE k \in P
  <2>0. k \in 0 .. n /\ k # 0
    BY <1>0
  <2>1. r[k] = TakeRef(d, cap, r[k - 1], k)
    BY <1>5, <2>0, Zenon
  <2>2. RefsAt(d, cap, r[k - 1], k - 1)
    BY <1>8
  <2> QED  BY <2>0, <2>1, <2>2, TakeRefKeeps
<1>9. n \in P
  <2>1. n \in 0 .. n
    BY <1>0
  <2> HIDE DEF P, n
  <2> QED  BY <1>0, <1>7, <1>8, <2>1, RangeInduction, Zenon
<1> QED  BY <1>6, <1>9

\* The first two references are the first two of the list of the same bytes.
LEMMA PairOfList ==
    ASSUME NEW d \in Seq(Nat)
    PROVE  LET list == scan_descriptor_function_refs(d, RefCap)
               pair == FirstTwo(d)
           IN  /\ IsInjective(list)
               /\ pair.vertex = (IF list = <<>> THEN 0 ELSE list[1])
               /\ pair.fragment = (IF Len(list) < 2 THEN 0 ELSE list[2])
<1> DEFINE list == scan_descriptor_function_refs(d, RefCap)
           at == {i \in 1 .. Len(d) : Candidate(d, i)}
           v == {i \in at : \A j \in at : i <= j}
           other == {i \in at : \E k \in v : k < i /\ d[i + 1] # d[k + 1]}
           f == {i \in other : \A j \in other : i <= j}
           vx == IF v = {} THEN 0 ELSE d[(CHOOSE i \in v : TRUE) + 1]
           fx == IF f = {} THEN 0 ELSE d[(CHOOSE i \in f : TRUE) + 1]
<1>1. FirstTwo(d) = [vertex |-> vx, fragment |-> fx]
  BY Zenon DEF FirstTwo
<1> SUFFICES /\ IsInjective(list)
             /\ vx = (IF list = <<>> THEN 0 ELSE list[1])
             /\ fx = (IF Len(list) < 2 THEN 0 ELSE list[2])
  <2> HIDE DEF list, vx, fx
  <2> QED  BY <1>1 DEF list
<1>2. RefCap \in Nat /\ RefCap >= 2
  BY ResolverAssumption DEF ResolverAssumption
<1>3. RefsAt(d, RefCap, list, Len(d))
  BY <1>2, RefsScanned
<1> HIDE DEF list
<1>4. list \in Seq(Nat) /\ Len(list) \in Nat /\ DOMAIN list = 1 .. Len(list)
  BY <1>3 DEF RefsAt
<1>5. IsInjective(list)
  BY <1>3, <1>4 DEF RefsAt, IsInjective
<1>6. CASE Len(list) = 0
  <2>1. at = {}
    BY <1>2, <1>3, <1>6 DEF RefsAt
  <2>2. v = {} /\ other = {}
    BY <2>1
  <2>3. vx = 0 /\ fx = 0
    BY <2>2
  <2>4. list = <<>> /\ Len(list) < 2
    BY <1>4, <1>6
  <2> HIDE DEF vx, fx
  <2> QED  BY <1>5, <2>3, <2>4
<1>7. CASE Len(list) >= 1
  <2>1. PICK j \in 1 .. Len(d) :
           /\ Candidate(d, j) /\ list[1] = d[j + 1]
           /\ \A m \in 1 .. (j - 1) : Candidate(d, m) =>
                 \E l \in 1 .. (1 - 1) : list[l] = d[m + 1]
    <3>1. 1 \in 1 .. Len(list)
      BY <1>4, <1>7
    <3> QED  BY <1>3, <3>1 DEF RefsAt
  <2>2. \A m \in 1 .. (j - 1) : ~Candidate(d, m)
    BY <2>1
  <2>3. v = {j}
    BY <2>1, <2>2
  <2>4. vx = list[1]
    <3>1. (CHOOSE i \in {j} : TRUE) = j
      OBVIOUS
    <3> QED  BY <2>1, <2>3, <3>1
  <2>5. list # <<>>
    BY <1>7
  <2>6. other = {i \in at : j < i /\ d[i + 1] # d[j + 1]}
    BY <2>3
  <2>7. CASE Len(list) = 1
    <3>1. \A i \in at : d[i + 1] = list[1]
      BY <1>2, <1>3, <2>7 DEF RefsAt
    <3>2. other = {}
      BY <2>1, <2>6, <3>1
    <3>3. fx = 0
      BY <3>2
    <3> HIDE DEF vx, fx
    <3> QED  BY <1>5, <2>4, <2>5, <2>7, <3>3
  <2>8. CASE Len(list) >= 2
    <3>0. 1 \in 1 .. Len(list) /\ 2 \in 1 .. Len(list)
      BY <1>4, <2>8
    <3>1. PICK i \in 1 .. Len(d) :
             /\ Candidate(d, i) /\ list[2] = d[i + 1]
             /\ \A m \in 1 .. (i - 1) : Candidate(d, m) =>
                   \E l \in 1 .. (2 - 1) : list[l] = d[m + 1]
      BY <1>3, <3>0 DEF RefsAt
    <3>2. \A m \in 1 .. (i - 1) : Candidate(d, m) => d[m + 1] = list[1]
      BY <3>1
    <3>3. list[1] # list[2]
      BY <1>3, <3>0 DEF RefsAt
    <3>4. j < i
      BY <2>1, <2>2, <3>1, <3>3
    <3>5. i \in other
      BY <2>1, <2>6, <3>1, <3>3, <3>4
    <3>6. ASSUME NEW m \in other PROVE i <= m
      <4>1. m \in 1 .. Len(d) /\ Candidate(d, m) /\ d[m + 1] # list[1]
        BY <2>1, <2>6
      <4>2. ~(m \in 1 .. (i - 1))
        BY <3>2, <4>1
      <4> QED  BY <4>1, <4>2
    <3>7. f = {i}
      <4> HIDE DEF other
      <4>1. other \subseteq Nat
        BY DEF other
      <4>2. i \in Nat
        OBVIOUS
      <4>3. \A m \in f : m = i
        BY <3>5, <3>6, <4>1, <4>2
      <4> QED  BY <3>5, <3>6, <4>3
    <3>8. fx = list[2]
      <4>1. (CHOOSE m \in {i} : TRUE) = i
        OBVIOUS
      <4> QED  BY <3>1, <3>7, <4>1
    <3>9. ~(Len(list) < 2)
      BY <1>4, <2>8
    <3> HIDE DEF vx, fx
    <3> QED  BY <1>5, <2>4, <2>5, <3>8, <3>9
  <2>9. Len(list) = 1 \/ Len(list) >= 2
    BY <1>4, <1>7
  <2> QED  BY <2>7, <2>8, <2>9, Zenon
<1>8. Len(list) = 0 \/ Len(list) >= 1
  BY <1>4
<1> QED  BY <1>6, <1>7, <1>8, Zenon

\* The candidates of the first n bytes.
LEMMA PrefixCandidates ==
    ASSUME NEW d \in Seq(Nat), NEW n \in 0 .. Len(d)
    PROVE  LET w == SubSeq(d, 1, n)
           IN  /\ w \in Seq(Nat) /\ Len(w) = n
               /\ \A i \in 1 .. n : /\ Candidate(w, i) <=> i < n /\ Candidate(d, i)
                                    /\ Candidate(w, i) => /\ w[i + 1] = d[i + 1] /\ d[i + 1] # 0
                                                          /\ i < n
<1> DEFINE w == SubSeq(d, 1, n)
<1>1. w \in Seq(Nat) /\ Len(w) = n /\ \A i \in 1 .. n : w[i] = d[i]
  OBVIOUS
<1> HIDE DEF w
<1>2. ASSUME NEW i \in 1 .. n
      PROVE  /\ Candidate(w, i) <=> i < n /\ Candidate(d, i)
             /\ Candidate(w, i) => w[i + 1] = d[i + 1] /\ d[i + 1] # 0 /\ i < n
  <2>1. CASE i < n
    <3>1. i + 1 \in 1 .. n /\ i < Len(d) /\ i < Len(w)
      BY <1>1, <2>1
    <3>2. w[i] = d[i] /\ w[i + 1] = d[i + 1]
      BY <1>1, <3>1
    <3> QED  BY <2>1, <3>1, <3>2 DEF Candidate
  <2>2. CASE ~(i < n)
    BY <1>1, <2>2 DEF Candidate
  <2> QED  BY <2>1, <2>2
<1> QED  BY <1>1, <1>2 DEF w

\* What a list and a pair have of the bytes d, for lists scanned up to limit and pairs
\* up to win: the parts of RefLookups.
LEMMA ListOfPrefix ==
    ASSUME NEW d \in Seq(Nat), NEW n \in 0 .. Len(d)
    PROVE  LET list == scan_descriptor_function_refs(SubSeq(d, 1, n), RefCap)
               C == {i \in 1 .. (n - 1) : Candidate(d, i)}
           IN  /\ IsInjective(list) /\ list \in Seq(Nat)
               /\ \A k \in 1 .. Len(list) :
                     \E j \in C : /\ list[k] = d[j + 1]
                                  /\ \A m \in C : m < j => \E l \in 1 .. (k - 1) : list[l] = d[m + 1]
               /\ Len(list) < RefCap =>
                     \A j \in C : \E k \in 1 .. Len(list) : list[k] = d[j + 1]
<1> DEFINE w == SubSeq(d, 1, n)
           list == scan_descriptor_function_refs(w, RefCap)
           C == {i \in 1 .. (n - 1) : Candidate(d, i)}
<1>1. /\ w \in Seq(Nat) /\ Len(w) = n
      /\ \A i \in 1 .. n : /\ Candidate(w, i) <=> i < n /\ Candidate(d, i)
                           /\ Candidate(w, i) => /\ w[i + 1] = d[i + 1] /\ d[i + 1] # 0
                                                 /\ i < n
  BY PrefixCandidates
<1>2. RefCap \in Nat
  BY ResolverAssumption DEF ResolverAssumption
<1> HIDE DEF w
<1>3. RefsAt(w, RefCap, list, n)
  BY <1>1, <1>2, RefsScanned
<1> HIDE DEF list
<1>4. list \in Seq(Nat) /\ DOMAIN list = 1 .. Len(list)
  BY <1>3 DEF RefsAt
<1>5. IsInjective(list)
  BY <1>3, <1>4 DEF RefsAt, IsInjective
<1>6. \A j : j \in C <=> j \in 1 .. n /\ Candidate(w, j)
  BY <1>1
<1>7. \A j \in C : w[j + 1] = d[j + 1] /\ j \in Int
  BY <1>1, <1>6
<1> HIDE DEF C
<1>8. ASSUME NEW k \in 1 .. Len(list)
      PROVE  \E j \in C : /\ list[k] = d[j + 1]
                          /\ \A m \in C : m < j => \E l \in 1 .. (k - 1) : list[l] = d[m + 1]
  <2>1. PICK j \in 1 .. n :
           /\ Candidate(w, j) /\ list[k] = w[j + 1]
           /\ \A m \in 1 .. (j - 1) : Candidate(w, m) =>
                 \E l \in 1 .. (k - 1) : list[l] = w[m + 1]
    BY <1>3 DEF RefsAt
  <2>2. j \in C /\ list[k] = d[j + 1]
    BY <1>6, <1>7, <2>1
  <2>3. ASSUME NEW m \in C, m < j PROVE \E l \in 1 .. (k - 1) : list[l] = d[m + 1]
    <3>1. m \in 1 .. n /\ Candidate(w, m) /\ w[m + 1] = d[m + 1]
      BY <1>6, <1>7
    <3>2. m \in 1 .. (j - 1)
      BY <2>3, <3>1
    <3> QED  BY <2>1, <3>1, <3>2
  <2> QED  BY <2>2, <2>3
<1>9. ASSUME Len(list) < RefCap, NEW j \in C
      PROVE  \E k \in 1 .. Len(list) : list[k] = d[j + 1]
  BY <1>3, <1>6, <1>7, <1>9 DEF RefsAt
<1> QED  BY <1>4, <1>5, <1>8, <1>9 DEF w, list, C

LEMMA RefLookupsOf ==
    ASSUME NEW total \in 0 .. (Len(desc) + 1), desc \in Seq(Nat)
    PROVE  LET list == lookup_pipeline_function_ref_list(desc, total)
               limit == ScanLimit(desc, total)
               pair == lookup_pipeline_function_refs(desc)
           IN  /\ IsInjective(list)
               /\ Len(list) < RefCap =>
                     {list[k] : k \in 1 .. Len(list)} = RefsWithin(limit)
               /\ pair.vertex = 0 <=> RefsWithin(PairWindow) = {}
               /\ pair.fragment = 0 <=> RefsWithin(PairWindow) \subseteq {pair.vertex}
               /\ limit >= PairWindow =>
                     /\ pair.vertex # 0 => Len(list) >= 1 /\ list[1] = pair.vertex
                     /\ pair.fragment # 0 => Len(list) >= 2 /\ list[2] = pair.fragment
<1> DEFINE d == desc
           limit == ScanLimit(d, total)
           win == IF Len(d) < PairWindow THEN Len(d) ELSE PairWindow
           list == scan_descriptor_function_refs(SubSeq(d, 1, limit), RefCap)
           near == scan_descriptor_function_refs(SubSeq(d, 1, win), RefCap)
           pair == FirstTwo(SubSeq(d, 1, win))
           C == {i \in 1 .. (limit - 1) : Candidate(d, i)}
           N == {i \in 1 .. (win - 1) : Candidate(d, i)}
<1>1. /\ RefCap \in Nat /\ RefCap >= 2 /\ PairWindow \in Nat /\ d \in Seq(Nat)
      /\ win \in 0 .. Len(d) /\ limit \in 0 .. Len(d)
  BY ResolverAssumption DEF ResolverAssumption, ScanLimit
<1>2. /\ list = lookup_pipeline_function_ref_list(d, total)
      /\ pair = lookup_pipeline_function_refs(d)
  BY DEF lookup_pipeline_function_ref_list, lookup_pipeline_function_refs
<1>3. /\ IsInjective(list) /\ list \in Seq(Nat)
      /\ \A k \in 1 .. Len(list) :
            \E j \in C : /\ list[k] = d[j + 1]
                         /\ \A m \in C : m < j => \E l \in 1 .. (k - 1) : list[l] = d[m + 1]
      /\ Len(list) < RefCap => \A j \in C : \E k \in 1 .. Len(list) : list[k] = d[j + 1]
  <2> HIDE DEF d, limit
  <2> QED  BY <1>1, ListOfPrefix
<1>4. /\ IsInjective(near) /\ near \in Seq(Nat)
      /\ \A k \in 1 .. Len(near) :
            \E j \in N : /\ near[k] = d[j + 1]
                         /\ \A m \in N : m < j => \E l \in 1 .. (k - 1) : near[l] = d[m + 1]
      /\ Len(near) < RefCap => \A j \in N : \E k \in 1 .. Len(near) : near[k] = d[j + 1]
  <2> HIDE DEF d, win
  <2> QED  BY <1>1, ListOfPrefix
<1>5. /\ pair.vertex = (IF near = <<>> THEN 0 ELSE near[1])
      /\ pair.fragment = (IF Len(near) < 2 THEN 0 ELSE near[2])
  <2>1. SubSeq(d, 1, win) \in Seq(Nat)
    BY <1>1
  <2> HIDE DEF d, win
  <2> QED  BY <2>1, PairOfList
<1>6. /\ RefsWithin(limit) = {d[i + 1] : i \in C}
      /\ RefsWithin(PairWindow) = {d[i + 1] : i \in N}
  <2>1. {i \in 1 .. (limit - 1) : i < Len(desc) /\ Candidate(desc, i)} = C
    BY <1>1
  <2>2. {i \in 1 .. (PairWindow - 1) : i < Len(desc) /\ Candidate(desc, i)} = N
    BY <1>1
  <2> QED  BY <2>1, <2>2 DEF RefsWithin
<1>7. /\ \A i \in C : d[i + 1] # 0 /\ i \in Nat
      /\ \A i \in N : d[i + 1] # 0 /\ i \in Nat
  BY <1>1 DEF Candidate
<1>8. limit >= PairWindow => \A j \in N : j \in C /\ \A m \in C : m < j => m \in N
  BY <1>1
<1> HIDE DEF list, near, pair, C, N, limit, win, d
<1>9. Len(list) \in Nat /\ Len(near) \in Nat /\ DOMAIN list = 1 .. Len(list)
      /\ DOMAIN near = 1 .. Len(near)
  BY <1>3, <1>4
<1>10. \A k, l \in 1 .. Len(near) : near[k] = near[l] => k = l
  BY <1>4, <1>9 DEF IsInjective
<1>11. \A k, l \in 1 .. Len(list) : list[k] = list[l] => k = l
  BY <1>3, <1>9 DEF IsInjective
<1>12. Len(list) < RefCap => {list[k] : k \in 1 .. Len(list)} = RefsWithin(limit)
  <2> SUFFICES ASSUME Len(list) < RefCap
               PROVE  {list[k] : k \in 1 .. Len(list)} = {d[i + 1] : i \in C}
    BY <1>6
  <2>1. \A k \in 1 .. Len(list) : list[k] \in {d[i + 1] : i \in C}
    BY <1>3
  <2>2. \A i \in C : d[i + 1] \in {list[k] : k \in 1 .. Len(list)}
    BY <1>3
  <2> QED  BY <2>1, <2>2
<1>13. near = <<>> <=> Len(near) = 0
  BY <1>4
<1>14. pair.vertex = 0 <=> RefsWithin(PairWindow) = {}
  <2>1. CASE Len(near) = 0
    <3>1. N = {}
      BY <1>1, <1>4, <2>1
    <3> QED  BY <1>5, <1>6, <1>13, <2>1, <3>1
  <2>2. CASE Len(near) # 0
    <3>1. 1 \in 1 .. Len(near)
      BY <1>9, <2>2
    <3>2. PICK j \in N : near[1] = d[j + 1]
      BY <1>4, <3>1
    <3>3. pair.vertex = d[j + 1] /\ d[j + 1] # 0
      BY <1>5, <1>7, <1>13, <2>2, <3>2
    <3> QED  BY <1>6, <3>3
  <2> QED  BY <2>1, <2>2
<1>15. pair.fragment = 0 <=> RefsWithin(PairWindow) \subseteq {pair.vertex}
  <2>1. CASE Len(near) = 0
    <3>1. N = {}
      BY <1>1, <1>4, <2>1
    <3>2. pair.fragment = 0
      BY <1>5, <2>1
    <3> QED  BY <1>6, <3>1, <3>2
  <2>2. CASE Len(near) = 1
    <3>1. \A j \in N : d[j + 1] = near[1]
      BY <1>1, <1>4, <2>2
    <3>2. pair.fragment = 0 /\ pair.vertex = near[1]
      BY <1>5, <1>13, <2>2
    <3> QED  BY <1>6, <3>1, <3>2
  <2>3. CASE Len(near) >= 2
    <3>1. 1 \in 1 .. Len(near) /\ 2 \in 1 .. Len(near)
      BY <1>9, <2>3
    <3>2. PICK j \in N : near[2] = d[j + 1]
      BY <1>4, <3>1
    <3>3. near[2] # near[1]
      BY <1>10, <3>1
    <3>4. pair.fragment = near[2] /\ pair.vertex = near[1]
      BY <1>5, <1>9, <1>13, <2>3
    <3> QED  BY <1>6, <1>7, <3>2, <3>3, <3>4
  <2>4. Len(near) = 0 \/ Len(near) = 1 \/ Len(near) >= 2
    BY <1>9
  <2> QED  BY <2>1, <2>2, <2>3, <2>4
<1>16. ASSUME limit >= PairWindow, pair.vertex # 0
       PROVE  Len(list) >= 1 /\ list[1] = pair.vertex /\ pair.vertex = near[1] /\ Len(near) >= 1
  <2>1. Len(near) >= 1 /\ pair.vertex = near[1]
    BY <1>5, <1>9, <1>13, <1>16
  <2>2. 1 \in 1 .. Len(near)
    BY <1>9, <2>1
  <2>3. PICK j \in N : /\ near[1] = d[j + 1]
                       /\ \A m \in N : m < j => \E l \in 1 .. (1 - 1) : near[l] = d[m + 1]
    BY <1>4, <2>2
  <2>4. \A m \in N : ~(m < j)
    BY <2>3
  <2>5. j \in C /\ \A m \in C : ~(m < j)
    BY <1>8, <1>16, <2>4
  <2>6. Len(list) >= 1
    <3>1. CASE Len(list) = 0
      BY <1>1, <1>3, <2>5, <3>1
    <3> QED  BY <1>9, <3>1
  <2>7. 1 \in 1 .. Len(list)
    BY <1>9, <2>6
  <2>8. PICK i \in C : /\ list[1] = d[i + 1]
                       /\ \A m \in C : m < i => \E l \in 1 .. (1 - 1) : list[l] = d[m + 1]
    BY <1>3, <2>7
  <2>9. ~(j < i) /\ ~(i < j)
    BY <2>5, <2>8
  <2>10. i = j
    BY <1>7, <2>9
  <2> QED  BY <2>1, <2>3, <2>6, <2>8, <2>10
<1>17. ASSUME limit >= PairWindow, pair.fragment # 0
       PROVE  Len(list) >= 2 /\ list[2] = pair.fragment
  <2>1. Len(near) >= 2 /\ pair.fragment = near[2]
    BY <1>5, <1>9, <1>17
  <2>2. 1 \in 1 .. Len(near) /\ 2 \in 1 .. Len(near)
    BY <1>9, <2>1
  <2>3. pair.vertex # 0
    <3>1. PICK j \in N : near[1] = d[j + 1]
      BY <1>4, <2>2
    <3> QED  BY <1>5, <1>7, <1>9, <1>13, <2>1, <3>1
  <2>4. Len(list) >= 1 /\ list[1] = near[1]
    BY <1>16, <1>17, <2>3
  <2>5. PICK j \in N : /\ near[2] = d[j + 1]
                       /\ \A m \in N : m < j => \E l \in 1 .. (2 - 1) : near[l] = d[m + 1]
    BY <1>4, <2>2
  <2>6. \A m \in N : m < j => d[m + 1] = near[1]
    BY <2>5
  <2>7. near[1] # near[2]
    BY <1>10, <2>2
  <2>8. j \in C /\ \A m \in C : m < j => d[m + 1] = near[1]
    BY <1>8, <1>17, <2>6
  <2>9. Len(list) >= 2
    <3>1. CASE Len(list) = 1
      <4>1. \A i \in C : d[i + 1] = list[1]
        BY <1>1, <1>3, <3>1
      <4> QED  BY <2>4, <2>5, <2>7, <2>8, <4>1
    <3> QED  BY <1>9, <2>4, <3>1
  <2>10. 1 \in 1 .. Len(list) /\ 2 \in 1 .. Len(list)
    BY <1>9, <2>9
  <2>11. PICK i \in C : /\ list[2] = d[i + 1]
                        /\ \A m \in C : m < i => \E l \in 1 .. (2 - 1) : list[l] = d[m + 1]
    BY <1>3, <2>10
  <2>12. \A m \in C : m < i => d[m + 1] = list[1]
    BY <2>11
  <2>13. list[1] # list[2]
    BY <1>11, <2>10
  <2>14. ~(j < i) /\ ~(i < j)
    BY <2>4, <2>5, <2>7, <2>8, <2>11, <2>12, <2>13
  <2>15. i = j
    BY <1>7, <2>14
  <2> QED  BY <2>1, <2>5, <2>9, <2>11, <2>15
<1> QED  BY <1>2, <1>3, <1>12, <1>14, <1>15, <1>16, <1>17 DEF d, limit

-----------------------------------------------------------------------------
(* Vertex attributes. *)

AttrType == [fmt : Nat, off : Nat, buf : Nat]

\* The attributes kept of the first i entries: each the first of its offset, and
\* while there is room none is missing.
AttrsAt(es, out, i) ==
    /\ out \in Seq(AttrType) /\ Len(out) <= AttrCap
    /\ \A k, l \in 1 .. Len(out) : out[k].off = out[l].off => k = l
    /\ \A k \in 1 .. Len(out) :
          \E j \in 1 .. i :
             /\ ValidAttr(es[j]) /\ out[k] = es[j]
             /\ \A m \in 1 .. (j - 1) : ValidAttr(es[m]) => es[m].off # es[j].off
    /\ Len(out) < AttrCap =>
          \A j \in 1 .. i : ValidAttr(es[j]) => \E k \in 1 .. Len(out) : out[k].off = es[j].off

LEMMA TakeAttrType ==
    ASSUME NEW es \in Seq(AttrType), NEW out \in Seq(AttrType), NEW i \in 1 .. Len(es)
    PROVE  TakeAttr(es, out, i) \in Seq(AttrType)
<1>1. es[i] \in AttrType
  OBVIOUS
<1>2. Append(out, es[i]) \in Seq(AttrType)
  BY <1>1
<1> QED  BY <1>2 DEF TakeAttr

LEMMA TakeAttrKeeps ==
    ASSUME NEW es \in Seq(AttrType), NEW out, NEW i \in 1 .. Len(es), AttrsAt(es, out, i - 1)
    PROVE  AttrsAt(es, TakeAttr(es, out, i), i)
<1>0. out \in Seq(AttrType) /\ Len(out) \in Nat /\ i \in Nat /\ AttrCap \in Nat /\ es[i] \in AttrType
  BY ResolverAssumption DEF AttrsAt, ResolverAssumption
<1>a. \A k, l \in 1 .. Len(out) : out[k].off = out[l].off => k = l
  BY DEF AttrsAt
<1>b. ASSUME NEW k \in 1 .. Len(out)
      PROVE  \E j \in 1 .. i :
                /\ ValidAttr(es[j]) /\ out[k] = es[j]
                /\ \A m \in 1 .. (j - 1) : ValidAttr(es[m]) => es[m].off # es[j].off
  <2>1. \A j \in 1 .. (i - 1) : j \in 1 .. i
    BY <1>0
  <2> QED  BY <1>b, <2>1 DEF AttrsAt
<1>c. Len(out) < AttrCap =>
        \A j \in 1 .. (i - 1) : ValidAttr(es[j]) => \E k \in 1 .. Len(out) : out[k].off = es[j].off
  BY DEF AttrsAt
<1> DEFINE Room == ValidAttr(es[i]) /\ Len(out) < AttrCap /\ \A k \in 1 .. Len(out) : out[k].off # es[i].off
<1>1. CASE Room
  <2> DEFINE t == Append(out, es[i])
  <2>1. TakeAttr(es, out, i) = t
    BY <1>1 DEF TakeAttr
  <2>2. t \in Seq(AttrType) /\ Len(t) = Len(out) + 1 /\ t[Len(out) + 1] = es[i]
    BY <1>0
  <2>3. \A k \in 1 .. Len(out) : t[k] = out[k]
    BY <1>0
  <2> HIDE DEF t
  <2>4. \A k \in 1 .. Len(t) : k \in 1 .. Len(out) \/ k = Len(out) + 1
    BY <1>0, <2>2
  <2>5. \A k, l \in 1 .. Len(t) : t[k].off = t[l].off => k = l
    BY <1>1, <1>a, <2>2, <2>3, <2>4
  <2>6. ASSUME NEW k \in 1 .. Len(t)
        PROVE  \E j \in 1 .. i :
                  /\ ValidAttr(es[j]) /\ t[k] = es[j]
                  /\ \A m \in 1 .. (j - 1) : ValidAttr(es[m]) => es[m].off # es[j].off
    <3>1. CASE k \in 1 .. Len(out)
      BY <1>b, <2>3, <3>1
    <3>2. CASE k = Len(out) + 1
      <4>1. \A m \in 1 .. (i - 1) : ValidAttr(es[m]) => es[m].off # es[i].off
        BY <1>1, <1>c
      <4>2. i \in 1 .. i
        BY <1>0
      <4> QED  BY <1>1, <2>2, <3>2, <4>1, <4>2
    <3> QED  BY <2>4, <3>1, <3>2
  <2>7. ASSUME NEW j \in 1 .. i, ValidAttr(es[j])
        PROVE  \E k \in 1 .. Len(t) : t[k].off = es[j].off
    <3>1. CASE j = i
      <4>1. Len(out) + 1 \in 1 .. Len(t)
        BY <1>0, <2>2
      <4> QED  BY <2>2, <3>1, <4>1
    <3>2. CASE j \in 1 .. (i - 1)
      <4>1. PICK k \in 1 .. Len(out) : out[k].off = es[j].off
        BY <1>1, <1>c, <2>7, <3>2
      <4>2. k \in 1 .. Len(t)
        BY <1>0, <2>2
      <4> QED  BY <2>3, <4>1, <4>2
    <3> QED  BY <1>0, <3>1, <3>2
  <2>8. Len(t) <= AttrCap
    BY <1>0, <1>1, <2>2
  <2>9. AttrsAt(es, t, i)
    BY <2>2, <2>5, <2>6, <2>7, <2>8 DEF AttrsAt
  <2> QED  BY <2>1, <2>9
<1>2. CASE ~Room
  <2>1. TakeAttr(es, out, i) = out
    BY <1>2 DEF TakeAttr
  <2>2. ASSUME Len(out) < AttrCap, NEW j \in 1 .. i, ValidAttr(es[j])
        PROVE  \E k \in 1 .. Len(out) : out[k].off = es[j].off
    <3>1. CASE j = i
      BY <1>2, <2>2, <3>1
    <3>2. CASE j \in 1 .. (i - 1)
      BY <1>c, <2>2, <3>2
    <3> QED  BY <1>0, <3>1, <3>2
  <2>3. Len(out) <= AttrCap
    BY DEF AttrsAt
  <2>4. AttrsAt(es, out, i)
    BY <1>0, <1>a, <1>b, <2>2, <2>3 DEF AttrsAt
  <2> QED  BY <2>1, <2>4
<1> QED  BY <1>1, <1>2

LEMMA AttrsCollected ==
    ASSUME NEW es \in Seq(AttrType)
    PROVE  AttrsAt(es, CollectAttrs(es), Len(es))
<1> DEFINE n == Len(es)
           S == Seq(AttrType)
           F == [i \in 1 .. n |-> [x \in S |-> TakeAttr(es, x, i)]]
<1>0. n \in Nat /\ AttrCap \in Nat
  BY ResolverAssumption DEF ResolverAssumption
<1>1. F \in StepsOn(n, S)
  <2> HIDE DEF S
  <2> QED  BY TakeAttrType DEF StepsOn, S
<1>2. <<>> \in S
  OBVIOUS
<1>3. PICK f : Iterates(f, n, S, <<>>, F)
  <2> HIDE DEF F, S, n
  <2> QED  BY <1>0, <1>1, <1>2, Iteration
<1>4. f = [i \in 0 .. n |-> IF i = 0 THEN <<>> ELSE TakeAttr(es, f[i - 1], i)]
  <2>1. ASSUME NEW i \in 1 .. n PROVE f[i] = TakeAttr(es, f[i - 1], i)
    <3> HIDE DEF S
    <3>1. f[i - 1] \in S
      BY <1>3 DEF Iterates
    <3>2. F[i][f[i - 1]] = TakeAttr(es, f[i - 1], i)
      BY <3>1
    <3> QED  BY <1>3, <3>2 DEF Iterates
  <2> HIDE DEF S, F
  <2> QED  BY <1>3, <2>1 DEF Iterates
<1> DEFINE r == CHOOSE g : g = [i \in 0 .. n |-> IF i = 0 THEN <<>> ELSE TakeAttr(es, g[i - 1], i)]
<1>5. r = [i \in 0 .. n |-> IF i = 0 THEN <<>> ELSE TakeAttr(es, r[i - 1], i)]
  <2> HIDE DEF F, S
  <2> QED  BY <1>4, Zenon
<1>6. CollectAttrs(es) = r[n]
  BY Zenon DEF CollectAttrs
<1> DEFINE P == {i \in 0 .. n : AttrsAt(es, r[i], i)}
<1> HIDE DEF r, F, S
<1>7. 0 \in P
  <2>1. r[0] = <<>> /\ 0 \in 0 .. n
    BY <1>0, <1>5
  <2>2. AttrsAt(es, <<>>, 0)
    BY <1>0 DEF AttrsAt
  <2> QED  BY <2>1, <2>2
<1>8. ASSUME NEW k \in 1 .. n, k - 1 \in P PROVE k \in P
  <2>0. k \in 0 .. n /\ k # 0
    BY <1>0
  <2>1. r[k] = TakeAttr(es, r[k - 1], k)
    BY <1>5, <2>0, Zenon
  <2>2. AttrsAt(es, r[k - 1], k - 1)
    BY <1>8
  <2> QED  BY <2>0, <2>1, <2>2, TakeAttrKeeps
<1>9. n \in P
  <2>1. n \in 0 .. n
    BY <1>0
  <2> HIDE DEF P, n
  <2> QED  BY <1>0, <1>7, <1>8, <2>1, RangeInduction, Zenon
<1> QED  BY <1>6, <1>9

\* A set of positions that has with one all before it is an initial range.
LEMMA InitialRange ==
    ASSUME NEW n \in Nat, NEW D \in SUBSET (1 .. n), \A j \in D : \A i \in 1 .. j : i \in D
    PROVE  \E c \in 0 .. n : D = 1 .. c /\ Cardinality(D) = c
<1> DEFINE P == {k \in 0 .. n : \E c \in 0 .. k : \A i \in 1 .. k : i \in D <=> i <= c}
<1>1. 0 \in P
  OBVIOUS
<1>2. ASSUME NEW k \in 1 .. n, k - 1 \in P PROVE k \in P
  <2>1. PICK c \in 0 .. (k - 1) : \A i \in 1 .. (k - 1) : i \in D <=> i <= c
    BY <1>2
  <2>2. CASE k \in D
    <3>1. \A i \in 1 .. k : i \in D <=> i <= k
      BY <2>2
    <3> QED  BY <3>1
  <2>3. CASE k \notin D
    <3>1. \A i \in 1 .. k : i \in 1 .. (k - 1) \/ i = k
      OBVIOUS
    <3>2. \A i \in 1 .. k : i \in D <=> i <= c
      BY <2>1, <2>3, <3>1
    <3>3. c \in 0 .. k
      OBVIOUS
    <3> QED  BY <3>2, <3>3
  <2> QED  BY <2>2, <2>3
<1>3. n \in P
  <2>1. n \in 0 .. n
    OBVIOUS
  <2> HIDE DEF P
  <2> QED  BY <1>1, <1>2, <2>1, RangeInduction, Zenon
<1>4. PICK c \in 0 .. n : \A i \in 1 .. n : i \in D <=> i <= c
  BY <1>3
<1>5. D = 1 .. c
  <2>1. ASSUME NEW i \in D PROVE i \in 1 .. c
    <3>1. i \in 1 .. n
      OBVIOUS
    <3> QED  BY <1>4, <3>1
  <2>2. ASSUME NEW i \in 1 .. c PROVE i \in D
    <3>1. i \in 1 .. n /\ i <= c
      OBVIOUS
    <3> QED  BY <1>4, <3>1
  <2> QED  BY <2>1, <2>2, Zenon
<1>6. Cardinality(1 .. c) = c
  BY FS_Interval
<1> QED  BY <1>5, <1>6

\* What an insertion of e after the first c elements leaves at each place.
HasInserted(t, s, c, e, A) ==
    /\ t \in Seq(A) /\ Len(t) = Len(s) + 1
    /\ \A k \in 1 .. c : t[k] = s[k]
    /\ t[c + 1] = e
    /\ \A k \in (c + 2) .. (Len(s) + 1) : t[k] = s[k - 1]

LEMMA Inserted ==
    ASSUME NEW A, NEW s \in Seq(A), NEW e \in A, NEW c \in 0 .. Len(s)
    PROVE  HasInserted(InsertAt(s, c + 1, e), s, c, e, A)
<1> DEFINE a == SubSeq(s, 1, c)
           b == SubSeq(s, c + 1, Len(s))
<1>1. InsertAt(s, c + 1, e) = a \o <<e>> \o b
  BY (c + 1) - 1 = c DEF InsertAt
<1>2. a \in Seq(A) /\ Len(a) = c /\ \A k \in 1 .. c : a[k] = s[k]
  OBVIOUS
<1>3. b \in Seq(A) /\ Len(b) = Len(s) - c /\ \A k \in 1 .. (Len(s) - c) : b[k] = s[c + k]
  OBVIOUS
<1>4. <<e>> \in Seq(A) /\ Len(<<e>>) = 1 /\ <<e>>[1] = e
  OBVIOUS
<1> HIDE DEF a, b
<1> DEFINE m == a \o <<e>>
<1>5. m \in Seq(A) /\ Len(m) = c + 1 /\ m[c + 1] = e /\ \A k \in 1 .. c : m[k] = s[k]
  BY <1>2, <1>4
<1> HIDE DEF m
<1> DEFINE t == m \o b
<1>6. t \in Seq(A) /\ Len(t) = Len(s) + 1
  BY <1>3, <1>5
<1>7. \A k \in 1 .. c : t[k] = s[k]
  BY <1>3, <1>5
<1>8. t[c + 1] = e
  BY <1>3, <1>5
<1>9. ASSUME NEW k \in (c + 2) .. (Len(s) + 1) PROVE t[k] = s[k - 1]
  <2>1. k - (c + 1) \in 1 .. (Len(s) - c) /\ c + (k - (c + 1)) = k - 1
    OBVIOUS
  <2>2. t[k] = b[k - (c + 1)]
    BY <1>3, <1>5
  <2> QED  BY <1>3, <2>1, <2>2
<1> HIDE DEF t
<1>10. InsertAt(s, c + 1, e) = t
  BY <1>1 DEF t, m
<1> QED  BY <1>6, <1>7, <1>8, <1>9, <1>10 DEF HasInserted

\* The first k attributes, sorted.
SortedAt(kept, out, k) ==
    /\ out \in Seq(AttrType) /\ Len(out) = k
    /\ \A a, b \in 1 .. k : a < b => out[a].off < out[b].off
    /\ \A a \in 1 .. k : \E b \in 1 .. k : out[a] = kept[b]
    /\ \A b \in 1 .. k : \E a \in 1 .. k : out[a] = kept[b]

LEMMA InsertAttrType ==
    ASSUME NEW out \in Seq(AttrType), NEW a \in AttrType
    PROVE  InsertAttr(out, a) \in Seq(AttrType)
<1> DEFINE D == {j \in 1 .. Len(out) : out[j].off <= a.off}
<1>1. Cardinality(D) \in 0 .. Len(out)
  <2>0. Len(out) \in Nat
    OBVIOUS
  <2>1. IsFiniteSet(1 .. Len(out)) /\ Cardinality(1 .. Len(out)) = Len(out)
    <3> DEFINE n == Len(out)
    <3> HIDE DEF n
    <3>0. n \in Nat /\ 1 \in Int
      BY <2>0 DEF n
    <3>1. IsFiniteSet(1 .. n) /\ Cardinality(1 .. n) = n
      BY <3>0, FS_Interval
    <3> QED  BY <3>1 DEF n
  <2>2. D \in SUBSET (1 .. Len(out))
    OBVIOUS
  <2> HIDE DEF D
  <2>3. IsFiniteSet(D) /\ Cardinality(D) <= Len(out)
    BY <2>1, <2>2, FS_Subset
  <2>4. Cardinality(D) \in Nat
    BY <2>3, FS_CardinalityType
  <2> QED  BY <2>3, <2>4
<1> HIDE DEF D
<1>2. InsertAt(out, Cardinality(D) + 1, a) \in Seq(AttrType)
  BY <1>1, Inserted DEF HasInserted
<1> QED  BY <1>2 DEF InsertAttr, D

LEMMA InsertAttrKeeps ==
    ASSUME NEW kept \in Seq(AttrType), NEW k \in 1 .. Len(kept), NEW out,
           SortedAt(kept, out, k - 1),
           \A b \in 1 .. (k - 1) : kept[b].off # kept[k].off
    PROVE  SortedAt(kept, InsertAttr(out, kept[k]), k)
<1> DEFINE e == kept[k]
           D == {j \in 1 .. Len(out) : out[j].off <= e.off}
<1>0. out \in Seq(AttrType) /\ Len(out) = k - 1 /\ k \in Nat /\ Len(out) \in Nat
  BY DEF SortedAt
<1>c. e \in AttrType /\ e.off \in Nat
  <2>1. e \in AttrType
    OBVIOUS
  <2> QED  BY <2>1 DEF AttrType
<1>1. \A a \in 1 .. Len(out) : out[a].off \in Nat
  <2>1. \A a \in 1 .. Len(out) : out[a] \in AttrType
    BY <1>0
  <2> QED  BY <2>1 DEF AttrType
<1>2. \A a, b \in 1 .. Len(out) : a < b => out[a].off < out[b].off
  BY <1>0 DEF SortedAt
<1>3. \A a \in 1 .. Len(out) : \E b \in 1 .. (k - 1) : out[a] = kept[b]
  BY <1>0 DEF SortedAt
<1>4. \A b \in 1 .. (k - 1) : \E a \in 1 .. Len(out) : out[a] = kept[b]
  BY <1>0 DEF SortedAt
<1>5. \A a \in 1 .. Len(out) : out[a].off # e.off
  BY <1>3
<1> HIDE DEF e
<1>6. PICK c \in 0 .. Len(out) : D = 1 .. c /\ Cardinality(D) = c
  <2>1. ASSUME NEW j \in D, NEW i \in 1 .. j PROVE i \in D
    <3>1. j \in 1 .. Len(out) /\ i \in 1 .. Len(out) /\ (i = j \/ i < j)
      BY <1>0
    <3>2. out[i].off = out[j].off \/ out[i].off < out[j].off
      BY <1>2, <3>1
    <3>3. out[i].off \in Nat /\ out[j].off \in Nat /\ out[j].off <= e.off
      BY <1>1, <3>1
    <3>4. out[i].off <= e.off
      BY <1>c, <3>2, <3>3
    <3> QED  BY <3>1, <3>4
  <2>2. D \in SUBSET (1 .. Len(out))
    OBVIOUS
  <2> HIDE DEF D
  <2> QED  BY <1>0, <2>1, <2>2, InitialRange
<1>7. \A j \in 1 .. c : out[j].off < e.off
  <2> SUFFICES ASSUME NEW j \in 1 .. c PROVE out[j].off < e.off
    OBVIOUS
  <2>1. j \in 1 .. Len(out) /\ out[j].off <= e.off
    BY <1>6
  <2> QED  BY <1>c, <1>1, <1>5, <2>1
<1>8. \A j \in (c + 1) .. Len(out) : e.off < out[j].off
  <2> SUFFICES ASSUME NEW j \in (c + 1) .. Len(out) PROVE e.off < out[j].off
    OBVIOUS
  <2>1. j \in 1 .. Len(out) /\ j \notin 1 .. c
    BY <1>0
  <2>2. ~(out[j].off <= e.off)
    BY <1>6, <2>1
  <2> QED  BY <1>c, <1>1, <2>1, <2>2
<1> DEFINE t == InsertAt(out, c + 1, e)
<1>9. InsertAttr(out, kept[k]) = t
  BY <1>6 DEF InsertAttr, e
<1> HIDE DEF D
<1>d. /\ t \in Seq(AttrType) /\ Len(t) = Len(out) + 1
      /\ \A j \in 1 .. c : t[j] = out[j]
      /\ t[c + 1] = e
      /\ \A j \in (c + 2) .. (Len(out) + 1) : t[j] = out[j - 1]
  <2>1. out \in Seq(AttrType) /\ e \in AttrType
    BY <1>0, <1>c
  <2>2. c \in 0 .. Len(out)
    OBVIOUS
  <2>3. HasInserted(t, out, c, e, AttrType)
    BY <2>1, <2>2, Inserted
  <2> HIDE DEF t
  <2> QED  BY <2>3 DEF HasInserted
<1> HIDE DEF t
<1>10. t \in Seq(AttrType) /\ Len(t) = k
  BY <1>0, <1>d
<1>11. \A j \in 1 .. c : t[j] = out[j]
  BY <1>d
<1>12. t[c + 1] = e
  BY <1>d
<1>13. \A j \in (c + 2) .. k : t[j] = out[j - 1]
  <2>1. Len(out) + 1 = k
    BY <1>0
  <2> QED  BY <1>d, <2>1
<1>14. \A j \in 1 .. k : j \in 1 .. c \/ j = c + 1 \/ j \in (c + 2) .. k
  BY <1>0
<1>a. \A j \in (c + 2) .. k : j - 1 \in 1 .. Len(out) /\ j - 1 \in (c + 1) .. Len(out)
  BY <1>0
<1>b. \A j \in 1 .. c : j \in 1 .. Len(out) /\ j \in 1 .. k
  BY <1>0
<1>15. ASSUME NEW a \in 1 .. k, NEW b \in 1 .. k, a < b PROVE t[a].off < t[b].off
  <2>1. CASE a \in 1 .. c /\ b \in 1 .. c
    BY <1>2, <1>11, <1>15, <1>b, <2>1
  <2>2. CASE a \in 1 .. c /\ b = c + 1
    BY <1>7, <1>11, <1>12, <2>2
  <2>3. CASE a \in 1 .. c /\ b \in (c + 2) .. k
    <3>1. a \in 1 .. Len(out) /\ b - 1 \in 1 .. Len(out) /\ a < b - 1
      BY <1>a, <1>b, <2>3
    <3> QED  BY <1>2, <1>11, <1>13, <2>3, <3>1
  <2>4. CASE a = c + 1 /\ b \in (c + 2) .. k
    BY <1>8, <1>12, <1>13, <1>a, <2>4
  <2>5. CASE a \in (c + 2) .. k /\ b \in (c + 2) .. k
    <3>1. a - 1 \in 1 .. Len(out) /\ b - 1 \in 1 .. Len(out) /\ a - 1 < b - 1
      BY <1>15, <1>a, <2>5
    <3> QED  BY <1>2, <1>13, <2>5, <3>1
  <2>6. ~(a \in (c + 2) .. k /\ (b \in 1 .. c \/ b = c + 1)) /\ ~(a = c + 1 /\ (b \in 1 .. c \/ b = c + 1))
    BY <1>15
  <2> QED  BY <1>14, <2>1, <2>2, <2>3, <2>4, <2>5, <2>6
<1>16. ASSUME NEW a \in 1 .. k PROVE \E b \in 1 .. k : t[a] = kept[b]
  <2>1. CASE a \in 1 .. c \/ a \in (c + 2) .. k
    <3>1. \E j \in 1 .. Len(out) : t[a] = out[j]
      BY <1>11, <1>13, <1>a, <1>b, <2>1
    <3>2. PICK b \in 1 .. (k - 1) : t[a] = kept[b]
      BY <1>3, <3>1
    <3>3. b \in 1 .. k
      BY <1>0
    <3> QED  BY <3>2, <3>3
  <2>2. CASE a = c + 1
    <3>1. k \in 1 .. k
      BY <1>0
    <3> QED  BY <1>12, <2>2, <3>1 DEF e
  <2> QED  BY <1>14, <2>1, <2>2
<1>17. ASSUME NEW b \in 1 .. k PROVE \E a \in 1 .. k : t[a] = kept[b]
  <2>1. CASE b = k
    <3>1. c + 1 \in 1 .. k
      BY <1>0
    <3> QED  BY <1>12, <2>1, <3>1 DEF e
  <2>2. CASE b \in 1 .. (k - 1)
    <3>1. PICK a \in 1 .. Len(out) : out[a] = kept[b]
      BY <1>4, <2>2
    <3>2. CASE a \in 1 .. c
      BY <1>11, <1>b, <3>1, <3>2
    <3>3. CASE a \in (c + 1) .. Len(out)
      <4>1. a + 1 \in (c + 2) .. k /\ a + 1 \in 1 .. k /\ (a + 1) - 1 = a
        BY <1>0, <3>3
      <4> QED  BY <1>13, <3>1, <4>1
    <3>4. a \in 1 .. c \/ a \in (c + 1) .. Len(out)
      BY <1>0
    <3> QED  BY <3>2, <3>3, <3>4
  <2>3. b = k \/ b \in 1 .. (k - 1)
    BY <1>0
  <2> QED  BY <2>1, <2>2, <2>3
<1>18. SortedAt(kept, t, k)
  BY <1>10, <1>15, <1>16, <1>17 DEF SortedAt
<1> QED  BY <1>9, <1>18

LEMMA AttrsSorted ==
    ASSUME NEW es \in Seq(AttrType)
    PROVE  SortedAt(CollectAttrs(es), parse_pso_vertex_attrs(es), Len(CollectAttrs(es)))
<1> DEFINE kept == CollectAttrs(es)
           n == Len(kept)
           S == Seq(AttrType)
           F == [i \in 1 .. n |-> [x \in S |-> InsertAttr(x, kept[i])]]
<1>a. AttrsAt(es, kept, Len(es))
  BY AttrsCollected
<1> HIDE DEF kept
<1>0. kept \in Seq(AttrType) /\ n \in Nat
  BY <1>a DEF AttrsAt
<1>b. \A k, l \in 1 .. n : kept[k].off = kept[l].off => k = l
  BY <1>a DEF AttrsAt
<1>1. F \in StepsOn(n, S)
  <2>1. \A i \in 1 .. n : kept[i] \in AttrType
    BY <1>0
  <2> HIDE DEF S, n
  <2> QED  BY <2>1, InsertAttrType DEF StepsOn, S
<1>2. <<>> \in S
  OBVIOUS
<1>3. PICK f : Iterates(f, n, S, <<>>, F)
  <2> HIDE DEF F, S, n
  <2> QED  BY <1>0, <1>1, <1>2, Iteration
<1>4. f = [i \in 0 .. n |-> IF i = 0 THEN <<>> ELSE InsertAttr(f[i - 1], kept[i])]
  <2>1. ASSUME NEW i \in 1 .. n PROVE f[i] = InsertAttr(f[i - 1], kept[i])
    <3> HIDE DEF S
    <3>1. f[i - 1] \in S
      BY <1>3 DEF Iterates
    <3>2. F[i][f[i - 1]] = InsertAttr(f[i - 1], kept[i])
      BY <3>1
    <3> QED  BY <1>3, <3>2 DEF Iterates
  <2> HIDE DEF S, F
  <2> QED  BY <1>3, <2>1 DEF Iterates
<1> DEFINE r == CHOOSE g : g = [i \in 0 .. n |-> IF i = 0 THEN <<>> ELSE InsertAttr(g[i - 1], kept[i])]
<1>5. r = [i \in 0 .. n |-> IF i = 0 THEN <<>> ELSE InsertAttr(r[i - 1], kept[i])]
  <2> HIDE DEF F, S
  <2> QED  BY <1>4, Zenon
<1>6. parse_pso_vertex_attrs(es) = r[n]
  BY Zenon DEF parse_pso_vertex_attrs, kept
<1> DEFINE P == {i \in 0 .. n : SortedAt(kept, r[i], i)}
<1> HIDE DEF r, F, S
<1>7. 0 \in P
  <2>1. r[0] = <<>> /\ 0 \in 0 .. n
    BY <1>0, <1>5
  <2>2. SortedAt(kept, <<>>, 0)
    BY DEF SortedAt
  <2> QED  BY <2>1, <2>2
<1>8. ASSUME NEW k \in 1 .. n, k - 1 \in P PROVE k \in P
  <2>0. k \in 0 .. n /\ k # 0
    BY <1>0
  <2>1. r[k] = InsertAttr(r[k - 1], kept[k])
    BY <1>5, <2>0, Zenon
  <2>2. SortedAt(kept, r[k - 1], k - 1)
    BY <1>8
  <2>4. k \in 1 .. n
    OBVIOUS
  <2>3. \A b \in 1 .. (k - 1) : kept[b].off # kept[k].off
    <3>1. \A b \in 1 .. (k - 1) : b \in 1 .. n /\ b # k
      BY <1>0
    <3> QED  BY <1>b, <2>4, <3>1
  <2> QED  BY <1>0, <2>0, <2>1, <2>2, <2>3, <2>4, InsertAttrKeeps
<1>9. n \in P
  <2>1. n \in 0 .. n
    BY <1>0
  <2> HIDE DEF P, n
  <2> QED  BY <1>0, <1>7, <1>8, <2>1, RangeInduction, Zenon
<1> QED  BY <1>6, <1>9 DEF kept

LEMMA AttrsInOrder ==
    ASSUME NEW es \in Seq(AttrType)
    PROVE  LET out == parse_pso_vertex_attrs(es)
           IN  /\ \A k \in 1 .. (Len(out) - 1) : out[k].off < out[k + 1].off
               /\ \A k \in 1 .. Len(out) :
                     LET same == {i \in 1 .. Len(es) : ValidAttr(es[i]) /\ es[i].off = out[k].off}
                     IN  out[k] = es[CHOOSE i \in same : \A j \in same : i <= j]
               /\ Len(out) < AttrCap =>
                     {out[k].off : k \in 1 .. Len(out)} =
                         {es[i].off : i \in {i \in 1 .. Len(es) : ValidAttr(es[i])}}
<1> DEFINE out == parse_pso_vertex_attrs(es)
           kept == CollectAttrs(es)
<1>1. AttrsAt(es, kept, Len(es))
  BY AttrsCollected
<1>2. SortedAt(kept, out, Len(kept))
  BY AttrsSorted
<1> HIDE DEF out, kept
<1>3. out \in Seq(AttrType) /\ Len(out) = Len(kept) /\ Len(out) \in Nat
  <2>1. out \in Seq(AttrType) /\ Len(out) = Len(kept)
    BY <1>2 DEF SortedAt
  <2> QED  BY <2>1
<1>4. ASSUME NEW k \in 1 .. (Len(out) - 1) PROVE out[k].off < out[k + 1].off
  <2>1. k \in 1 .. Len(kept) /\ k + 1 \in 1 .. Len(kept) /\ k < k + 1
    BY <1>3
  <2> QED  BY <1>2, <2>1 DEF SortedAt
<1>5. ASSUME NEW k \in 1 .. Len(out)
      PROVE  LET same == {i \in 1 .. Len(es) : ValidAttr(es[i]) /\ es[i].off = out[k].off}
             IN  out[k] = es[CHOOSE i \in same : \A j \in same : i <= j]
  <2> DEFINE same == {i \in 1 .. Len(es) : ValidAttr(es[i]) /\ es[i].off = out[k].off}
  <2>1. PICK b \in 1 .. Len(kept) : out[k] = kept[b]
    BY <1>2, <1>3 DEF SortedAt
  <2>2. PICK j \in 1 .. Len(es) :
           /\ ValidAttr(es[j]) /\ kept[b] = es[j]
           /\ \A m \in 1 .. (j - 1) : ValidAttr(es[m]) => es[m].off # es[j].off
    BY <1>1 DEF AttrsAt
  <2>3. j \in same
    BY <2>1, <2>2
  <2>4. ASSUME NEW m \in same PROVE j <= m
    <3>1. m \in 1 .. Len(es) /\ ~(m \in 1 .. (j - 1))
      BY <2>1, <2>2
    <3> QED  BY <3>1
  <2>5. same \subseteq Nat
    OBVIOUS
  <2> HIDE DEF same
  <2>6. \A i \in same : (\A m \in same : i <= m) => i = j
    BY <2>3, <2>4, <2>5
  <2>7. (CHOOSE i \in same : \A m \in same : i <= m) = j
    BY <2>3, <2>4, <2>6
  <2> QED  BY <2>1, <2>2, <2>7 DEF same
<1>6. ASSUME Len(out) < AttrCap
      PROVE  {out[k].off : k \in 1 .. Len(out)} =
                 {es[i].off : i \in {i \in 1 .. Len(es) : ValidAttr(es[i])}}
  <2>1. ASSUME NEW k \in 1 .. Len(out)
        PROVE  \E i \in 1 .. Len(es) : ValidAttr(es[i]) /\ es[i].off = out[k].off
    <3>1. PICK b \in 1 .. Len(kept) : out[k] = kept[b]
      BY <1>2, <1>3 DEF SortedAt
    <3>2. PICK i \in 1 .. Len(es) : ValidAttr(es[i]) /\ kept[b] = es[i]
      BY <1>1 DEF AttrsAt
    <3> QED  BY <3>1, <3>2
  <2>2. ASSUME NEW i \in 1 .. Len(es), ValidAttr(es[i])
        PROVE  \E k \in 1 .. Len(out) : out[k].off = es[i].off
    <3>1. PICK b \in 1 .. Len(kept) : kept[b].off = es[i].off
      BY <1>1, <1>3, <1>6, <2>2 DEF AttrsAt
    <3>2. \E k \in 1 .. Len(out) : out[k] = kept[b]
      BY <1>2, <1>3 DEF SortedAt
    <3> QED  BY <3>1, <3>2
  <2> DEFINE X == {out[k].off : k \in 1 .. Len(out)}
             Y == {es[i].off : i \in {i \in 1 .. Len(es) : ValidAttr(es[i])}}
  <2>3. ASSUME NEW x \in X PROVE x \in Y
    <3>1. PICK k \in 1 .. Len(out) : x = out[k].off
      OBVIOUS
    <3>2. PICK i \in 1 .. Len(es) : ValidAttr(es[i]) /\ es[i].off = out[k].off
      BY <2>1
    <3> QED  BY <3>1, <3>2
  <2>4. ASSUME NEW x \in Y PROVE x \in X
    <3>1. PICK i \in 1 .. Len(es) : ValidAttr(es[i]) /\ x = es[i].off
      OBVIOUS
    <3>2. PICK k \in 1 .. Len(out) : out[k].off = es[i].off
      BY <2>2, <3>1
    <3> QED  BY <3>1, <3>2
  <2> HIDE DEF X, Y
  <2>5. X = Y
    BY <2>3, <2>4
  <2> QED  BY <2>5 DEF X, Y
<1> QED  BY <1>4, <1>5, <1>6 DEF out

-----------------------------------------------------------------------------
(* The vertex stride. *)

FieldType == [val : Nat, tag : Nat]

\* The candidates among the first i fields.
CandidatesAt(fs, out, i) ==
    /\ out \in Seq(Nat)
    /\ \A k \in 1 .. Len(out) : \E j \in 1 .. i : StrideField(fs[j]) /\ out[k] = fs[j].val
    /\ \A j \in 1 .. i : StrideField(fs[j]) => \E k \in 1 .. Len(out) : out[k] = fs[j].val

LEMMA TakeStrideType ==
    ASSUME NEW fs \in Seq(FieldType), NEW out \in Seq(Nat), NEW i \in 1 .. Len(fs)
    PROVE  TakeStride(fs, out, i) \in Seq(Nat)
<1>1. fs[i] \in FieldType
  OBVIOUS
<1>2. fs[i].val \in Nat
  BY <1>1 DEF FieldType
<1>3. Append(out, fs[i].val) \in Seq(Nat)
  BY <1>2
<1> QED  BY <1>3 DEF TakeStride

LEMMA TakeStrideKeeps ==
    ASSUME NEW fs \in Seq(FieldType), NEW out, NEW i \in 1 .. Len(fs),
           CandidatesAt(fs, out, i - 1)
    PROVE  CandidatesAt(fs, TakeStride(fs, out, i), i)
<1>0. out \in Seq(Nat) /\ Len(out) \in Nat /\ i \in Nat
  BY DEF CandidatesAt
<1>a. \A j \in 1 .. (i - 1) : j \in 1 .. i
  BY <1>0
<1>b. \A k \in 1 .. Len(out) : \E j \in 1 .. i : StrideField(fs[j]) /\ out[k] = fs[j].val
  BY <1>a DEF CandidatesAt
<1>c. \A j \in 1 .. i : j = i \/ j \in 1 .. (i - 1)
  BY <1>0
<1>d. \A j \in 1 .. (i - 1) : StrideField(fs[j]) => \E k \in 1 .. Len(out) : out[k] = fs[j].val
  BY DEF CandidatesAt
<1>e. i \in 1 .. i
  BY <1>0
<1>1. CASE StrideField(fs[i]) /\ ~Contains(out, fs[i].val)
  <2> DEFINE t == Append(out, fs[i].val)
  <2>1. TakeStride(fs, out, i) = t
    BY <1>1 DEF TakeStride
  <2>2. fs[i].val \in Nat
    <3>1. fs[i] \in FieldType
      OBVIOUS
    <3> QED  BY <3>1 DEF FieldType
  <2>3. t \in Seq(Nat) /\ Len(t) = Len(out) + 1 /\ t[Len(out) + 1] = fs[i].val
    BY <1>0, <2>2
  <2>4. \A k \in 1 .. Len(out) : t[k] = out[k]
    BY <1>0, <2>2
  <2> HIDE DEF t
  <2>5. \A k \in 1 .. Len(t) : k \in 1 .. Len(out) \/ k = Len(out) + 1
    BY <1>0, <2>3
  <2>6. \A k \in 1 .. Len(out) : k \in 1 .. Len(t)
    BY <1>0, <2>3
  <2>7. Len(out) + 1 \in 1 .. Len(t)
    BY <1>0, <2>3
  <2>8. \A k \in 1 .. Len(t) : \E j \in 1 .. i : StrideField(fs[j]) /\ t[k] = fs[j].val
    BY <1>1, <1>b, <1>e, <2>3, <2>4, <2>5
  <2>9. \A j \in 1 .. i : StrideField(fs[j]) => \E k \in 1 .. Len(t) : t[k] = fs[j].val
    BY <1>c, <1>d, <2>3, <2>4, <2>6, <2>7
  <2>10. CandidatesAt(fs, t, i)
    BY <2>3, <2>8, <2>9 DEF CandidatesAt
  <2> QED  BY <2>1, <2>10
<1>2. CASE ~(StrideField(fs[i]) /\ ~Contains(out, fs[i].val))
  <2>1. TakeStride(fs, out, i) = out
    BY <1>2 DEF TakeStride
  <2>2. \A j \in 1 .. i : StrideField(fs[j]) => \E k \in 1 .. Len(out) : out[k] = fs[j].val
    BY <1>2, <1>c, <1>d DEF Contains
  <2>3. CandidatesAt(fs, out, i)
    BY <1>0, <1>b, <2>2 DEF CandidatesAt
  <2> QED  BY <2>1, <2>3
<1> QED  BY <1>1, <1>2

LEMMA StridesCollected ==
    ASSUME NEW fs \in Seq(FieldType)
    PROVE  CandidatesAt(fs, StrideCandidates(fs), Len(fs))
<1> DEFINE n == Len(fs)
           S == Seq(Nat)
           F == [i \in 1 .. n |-> [x \in S |-> TakeStride(fs, x, i)]]
<1>0. n \in Nat
  OBVIOUS
<1>1. F \in StepsOn(n, S)
  <2> HIDE DEF S
  <2> QED  BY TakeStrideType DEF StepsOn, S
<1>2. <<>> \in S
  OBVIOUS
<1>3. PICK f : Iterates(f, n, S, <<>>, F)
  <2> HIDE DEF F, S, n
  <2> QED  BY <1>0, <1>1, <1>2, Iteration
<1>4. f = [i \in 0 .. n |-> IF i = 0 THEN <<>> ELSE TakeStride(fs, f[i - 1], i)]
  <2>1. ASSUME NEW i \in 1 .. n PROVE f[i] = TakeStride(fs, f[i - 1], i)
    <3> HIDE DEF S
    <3>1. f[i - 1] \in S
      BY <1>3 DEF Iterates
    <3>2. F[i][f[i - 1]] = TakeStride(fs, f[i - 1], i)
      BY <3>1
    <3> QED  BY <1>3, <3>2 DEF Iterates
  <2> HIDE DEF S, F
  <2> QED  BY <1>3, <2>1 DEF Iterates
<1> DEFINE r == CHOOSE g : g = [i \in 0 .. n |-> IF i = 0 THEN <<>> ELSE TakeStride(fs, g[i - 1], i)]
<1>5. r = [i \in 0 .. n |-> IF i = 0 THEN <<>> ELSE TakeStride(fs, r[i - 1], i)]
  <2> HIDE DEF F, S
  <2> QED  BY <1>4, Zenon
<1>6. StrideCandidates(fs) = r[n]
  BY Zenon DEF StrideCandidates
<1> DEFINE P == {i \in 0 .. n : CandidatesAt(fs, r[i], i)}
<1> HIDE DEF r, F, S
<1>7. 0 \in P
  <2>1. r[0] = <<>> /\ 0 \in 0 .. n
    BY <1>0, <1>5
  <2>2. CandidatesAt(fs, <<>>, 0)
    BY DEF CandidatesAt
  <2> QED  BY <2>1, <2>2
<1>8. ASSUME NEW k \in 1 .. n, k - 1 \in P PROVE k \in P
  <2>0. k \in 0 .. n /\ k # 0
    BY <1>0
  <2>1. r[k] = TakeStride(fs, r[k - 1], k)
    BY <1>5, <2>0, Zenon
  <2>2. CandidatesAt(fs, r[k - 1], k - 1)
    BY <1>8
  <2> QED  BY <2>0, <2>1, <2>2, TakeStrideKeeps
<1>9. n \in P
  <2>1. n \in 0 .. n
    BY <1>0
  <2> HIDE DEF P, n
  <2> QED  BY <1>0, <1>7, <1>8, <2>1, RangeInduction, Zenon
<1> QED  BY <1>6, <1>9

LEMMA HitsType ==
    ASSUME NEW fs \in Seq(FieldType), NEW v
    PROVE  Hits(fs, v) \in Nat
<1> DEFINE D == {i \in 1 .. Len(fs) : StrideField(fs[i]) /\ fs[i].val = v}
<1>1. Len(fs) \in Nat /\ D \in SUBSET (1 .. Len(fs))
  OBVIOUS
<1> HIDE DEF D
<1>2. IsFiniteSet(1 .. Len(fs))
  BY <1>1, FS_Interval
<1>3. IsFiniteSet(D)
  BY <1>1, <1>2, FS_Subset
<1>4. Cardinality(D) \in Nat
  BY <1>3, FS_CardinalityType
<1> QED  BY <1>4 DEF Hits, D

\* The best of the first k candidates.
BestAt(fs, c, b, k) ==
    /\ k = 0 => b = 0
    /\ k > 0 => \E l \in 1 .. k : b = c[l]
    /\ \A l \in 1 .. k : \/ c[l] = b \/ Hits(fs, c[l]) < Hits(fs, b)
                         \/ Hits(fs, c[l]) = Hits(fs, b) /\ c[l] < b

\* Who is beaten by one that is beaten in turn is beaten.
LEMMA Beaten ==
    ASSUME NEW x \in Nat, NEW u \in Nat, NEW g \in Nat, NEW b \in Nat, NEW h \in Nat, NEW v \in Nat,
           (u = b /\ x = g) \/ x < g \/ (x = g /\ u < b),
           h > g \/ (h = g /\ v > b)
    PROVE  u = v \/ x < h \/ (x = h /\ u < v)
  OBVIOUS

LEMMA BetterKeeps ==
    ASSUME NEW fs \in Seq(FieldType), NEW c \in Seq(Nat), NEW k \in 1 .. Len(c), NEW b \in Nat,
           \A l \in 1 .. Len(c) : c[l] > 0,
           BestAt(fs, c, b, k - 1)
    PROVE  BestAt(fs, c, BetterStride(fs, c[k], b), k)
<1>0. k \in Nat /\ c[k] \in Nat /\ c[k] > 0 /\ k > 0 /\ k \in 1 .. k
  OBVIOUS
<1>a. \A l \in 1 .. k : l = k \/ l \in 1 .. (k - 1)
  BY <1>0
<1>b. \A l \in 1 .. k : c[l] \in Nat
  <2>1. \A l \in 1 .. k : l \in 1 .. Len(c)
    OBVIOUS
  <2> QED  BY <2>1
<1>c. \A l \in 1 .. (k - 1) : \/ c[l] = b \/ Hits(fs, c[l]) < Hits(fs, b)
                              \/ Hits(fs, c[l]) = Hits(fs, b) /\ c[l] < b
  BY DEF BestAt
<1> DEFINE h == Hits(fs, c[k])
           g == Hits(fs, b)
<1>1. h \in Nat /\ g \in Nat /\ \A l \in 1 .. k : Hits(fs, c[l]) \in Nat
  BY HitsType
<1> HIDE DEF h, g
<1>2. CASE k = 1
  <2>1. b = 0
    BY <1>2 DEF BestAt
  <2>2. BetterStride(fs, c[k], b) = c[k]
    <3>1. h - 0 > 0 \/ (h - 0 = 0 /\ c[k] > b)
      BY <1>0, <1>1, <2>1
    <3> QED  BY <2>1, <3>1 DEF BetterStride, h
  <2>3. \A l \in 1 .. k : l = k
    BY <1>2
  <2>4. BestAt(fs, c, c[k], k)
    <3>1. ~(k = 0) /\ k > 0
      BY <1>0
    <3>2. \A l \in 1 .. k : c[l] = c[k]
      BY <2>3
    <3>3. \E l \in 1 .. k : c[k] = c[l]
      BY <1>0
    <3> QED  BY <3>1, <3>2, <3>3, Zenon DEF BestAt
  <2> QED  BY <2>2, <2>4
<1>3. CASE k > 1
  <2>1. PICK m \in 1 .. (k - 1) : b = c[m]
    <3>1. k - 1 > 0
      BY <1>0, <1>3
    <3> QED  BY <3>1 DEF BestAt
  <2>2. m \in 1 .. Len(c) /\ m \in 1 .. k
    BY <1>0
  <2>3. b # 0
    BY <2>1, <2>2
  <2>4. BetterStride(fs, c[k], b) = IF h - g > 0 \/ (h - g = 0 /\ c[k] > b) THEN c[k] ELSE b
    BY <2>3 DEF BetterStride, h, g
  <2>5. CASE h > g \/ (h = g /\ c[k] > b)
    <3>1. BetterStride(fs, c[k], b) = c[k]
      BY <1>1, <2>4, <2>5
    <3>2. ASSUME NEW l \in 1 .. k
          PROVE  \/ c[l] = c[k] \/ Hits(fs, c[l]) < h
                 \/ Hits(fs, c[l]) = h /\ c[l] < c[k]
      <4>1. CASE l \in 1 .. (k - 1)
        <5> DEFINE x == Hits(fs, c[l])
                   u == c[l]
                   v == c[k]
        <5>1. u = b \/ x < g \/ (x = g /\ u < b)
          BY <1>c, <4>1 DEF g
        <5>2. u = b => x = g
          BY DEF g
        <5>3. x \in Nat /\ u \in Nat
          BY <1>1, <1>b
        <5>4. v \in Nat /\ g \in Nat /\ h \in Nat /\ (h > g \/ (h = g /\ v > b))
          BY <1>0, <1>1, <2>5
        <5> HIDE DEF x, u, v
        <5>5. u = v \/ x < h \/ (x = h /\ u < v)
          BY <5>1, <5>2, <5>3, <5>4, Beaten
        <5> QED  BY <5>5 DEF x, u, v
      <4> QED  BY <1>a, <4>1
    <3>3. BestAt(fs, c, c[k], k)
      BY <1>0, <3>2 DEF BestAt, h
    <3> QED  BY <3>1, <3>3
  <2>6. CASE ~(h > g \/ (h = g /\ c[k] > b))
    <3>1. BetterStride(fs, c[k], b) = b
      BY <1>1, <2>4, <2>6
    <3>2. c[k] = b \/ h < g \/ (h = g /\ c[k] < b)
      BY <1>0, <1>1, <2>6
    <3>3. \A l \in 1 .. k : \/ c[l] = b \/ Hits(fs, c[l]) < g
                            \/ Hits(fs, c[l]) = g /\ c[l] < b
      BY <1>a, <1>c, <3>2 DEF h, g
    <3>4. BestAt(fs, c, b, k)
      BY <1>0, <2>1, <2>2, <3>3 DEF BestAt, g
    <3> QED  BY <3>1, <3>4
  <2> QED  BY <2>5, <2>6
<1> QED  BY <1>0, <1>2, <1>3

LEMMA BestStride ==
    ASSUME NEW fs \in Seq(FieldType),
           NEW c, c = StrideCandidates(fs), c \in Seq(Nat), \A l \in 1 .. Len(c) : c[l] > 0
    PROVE  BestAt(fs, c, parse_pso_vertex_stride(fs), Len(c))
<1> DEFINE n == Len(c)
           F == [i \in 1 .. n |-> [x \in Nat |-> BetterStride(fs, c[i], x)]]
<1>0. n \in Nat
  OBVIOUS
<1>a. ASSUME NEW i \in 1 .. n, NEW x \in Nat PROVE BetterStride(fs, c[i], x) \in Nat
  <2>1. c[i] \in Nat
    OBVIOUS
  <2> QED  BY <2>1 DEF BetterStride
<1>1. F \in StepsOn(n, Nat)
  BY <1>a DEF StepsOn
<1>3. PICK f : Iterates(f, n, Nat, 0, F)
  <2> HIDE DEF F, n
  <2> QED  BY <1>0, <1>1, Iteration
<1>4. f = [i \in 0 .. n |-> IF i = 0 THEN 0 ELSE BetterStride(fs, c[i], f[i - 1])]
  <2>1. ASSUME NEW i \in 1 .. n PROVE f[i] = BetterStride(fs, c[i], f[i - 1])
    <3>1. f[i - 1] \in Nat
      <4>1. i - 1 \in 0 .. n
        BY <1>0
      <4> HIDE DEF F, n
      <4> QED  BY <1>3, <4>1 DEF Iterates
    <3>2. F[i][f[i - 1]] = BetterStride(fs, c[i], f[i - 1])
      BY <3>1
    <3> QED  BY <1>3, <3>2 DEF Iterates
  <2> HIDE DEF F, n
  <2> QED  BY <1>3, <2>1 DEF Iterates
<1> DEFINE r == CHOOSE g : g = [i \in 0 .. n |-> IF i = 0 THEN 0 ELSE BetterStride(fs, c[i], g[i - 1])]
<1>5. r = [i \in 0 .. n |-> IF i = 0 THEN 0 ELSE BetterStride(fs, c[i], r[i - 1])]
  <2> HIDE DEF F
  <2> QED  BY <1>4, Zenon
<1>6. parse_pso_vertex_stride(fs) = r[n]
  BY Zenon DEF parse_pso_vertex_stride
<1> DEFINE P == {i \in 0 .. n : r[i] \in Nat /\ BestAt(fs, c, r[i], i)}
<1> HIDE DEF r, F
<1>7. 0 \in P
  <2>1. r[0] = 0 /\ 0 \in 0 .. n
    BY <1>0, <1>5
  <2>2. BestAt(fs, c, 0, 0)
    BY DEF BestAt
  <2> QED  BY <2>1, <2>2
<1>8. ASSUME NEW k \in 1 .. n, k - 1 \in P PROVE k \in P
  <2>0. k \in 0 .. n /\ k # 0
    BY <1>0
  <2>1. r[k] = BetterStride(fs, c[k], r[k - 1])
    BY <1>5, <2>0, Zenon
  <2>2. r[k - 1] \in Nat /\ BestAt(fs, c, r[k - 1], k - 1)
    BY <1>8
  <2>3. BestAt(fs, c, r[k], k)
    BY <2>1, <2>2, BetterKeeps
  <2>4. r[k] \in Nat
    BY <1>a, <2>1, <2>2
  <2> QED  BY <2>0, <2>3, <2>4
<1>9. n \in P
  <2>1. n \in 0 .. n
    BY <1>0
  <2> HIDE DEF P, n
  <2> QED  BY <1>0, <1>7, <1>8, <2>1, RangeInduction, Zenon
<1> QED  BY <1>6, <1>9

LEMMA StrideMode ==
    ASSUME NEW fs \in Seq(FieldType)
    PROVE  LET s == parse_pso_vertex_stride(fs)
               c == {fs[i].val : i \in {i \in 1 .. Len(fs) : StrideField(fs[i])}}
           IN  IF c = {} THEN s = 0
               ELSE /\ s \in c
                    /\ \A v \in c \ {s} : \/ Hits(fs, v) < Hits(fs, s)
                                          \/ Hits(fs, v) = Hits(fs, s) /\ v < s
<1> DEFINE s == parse_pso_vertex_stride(fs)
           V == {fs[i].val : i \in {i \in 1 .. Len(fs) : StrideField(fs[i])}}
           c == StrideCandidates(fs)
<1>1. CandidatesAt(fs, c, Len(fs))
  BY StridesCollected
<1> HIDE DEF c
<1>2. c \in Seq(Nat) /\ Len(c) \in Nat
  BY <1>1 DEF CandidatesAt
<1>3. \A l \in 1 .. Len(c) : c[l] \in V /\ c[l] > 0
  <2> SUFFICES ASSUME NEW l \in 1 .. Len(c) PROVE c[l] \in V /\ c[l] > 0
    OBVIOUS
  <2>1. PICK j \in 1 .. Len(fs) : StrideField(fs[j]) /\ c[l] = fs[j].val
    BY <1>1 DEF CandidatesAt
  <2>2. c[l] \in Nat
    BY <1>2
  <2>3. fs[j].val >= 8
    BY <2>1 DEF StrideField
  <2> QED  BY <2>1, <2>2, <2>3
<1>4. ASSUME NEW v \in V PROVE \E l \in 1 .. Len(c) : v = c[l]
  <2>1. PICK j \in 1 .. Len(fs) : StrideField(fs[j]) /\ v = fs[j].val
    OBVIOUS
  <2> QED  BY <1>1, <2>1 DEF CandidatesAt
<1>5. BestAt(fs, c, s, Len(c))
  BY <1>2, <1>3, BestStride DEF c
<1> HIDE DEF V, s
<1>6. CASE V = {}
  <2>1. Len(c) = 0
    BY <1>2, <1>3, <1>6
  <2> QED  BY <1>5, <1>6, <2>1 DEF BestAt, V, s
<1>7. CASE V # {}
  <2>1. Len(c) > 0
    BY <1>2, <1>4, <1>7
  <2>2. s \in V
    BY <1>3, <1>5, <2>1 DEF BestAt
  <2>3. \A v \in V \ {s} : \/ Hits(fs, v) < Hits(fs, s)
                           \/ Hits(fs, v) = Hits(fs, s) /\ v < s
    BY <1>4, <1>5 DEF BestAt
  <2> QED  BY <1>7, <2>2, <2>3 DEF V, s
<1> QED  BY <1>6, <1>7

\* What a descriptor is does not change.
Descriptors ==
    desc \in Seq(Nat) /\ attrs \in Seq(AttrType) /\ strides \in Seq(FieldType)

\* For descriptors of any length and content, any window and any room for references
\* and attributes: the list of function references is complete and takes no function
\* for two stages, the older pair is what it starts with as far as its window reaches,
\* attributes come out in strict order of offset, each the first of its offset,
\* and the stride is one no other candidate beats (object_resolver.c).
THEOREM DescriptorScansAlways == ResolverSpec => []DescriptorScans
<1>1. ResolverInit => Descriptors
  <2>1. /\ Descs \subseteq Seq(Nat) /\ Attrs \subseteq Seq(AttrType)
        /\ Strides \subseteq Seq(FieldType)
    BY ResolverAssumption DEF ResolverAssumption, AttrType, FieldType
  <2>2. <<>> \in Seq(Nat) /\ <<>> \in Seq(AttrType) /\ <<>> \in Seq(FieldType)
    OBVIOUS
  <2> QED  BY <2>1, <2>2 DEF ResolverInit, Descriptors
<1>2. Descriptors /\ [ResolverNext]_resolverVars => Descriptors'
  BY DEF Descriptors, ResolverNext, resolverVars, inputVars
<1>3. Descriptors => DescriptorScans
  <2> SUFFICES ASSUME Descriptors PROVE DescriptorScans
    OBVIOUS
  <2>1. RefLookups
    BY RefLookupsOf, Zenon DEF RefLookups, Descriptors
  <2>2. AttrsOrdered
    BY AttrsInOrder, Zenon DEF AttrsOrdered, Descriptors
  <2>3. StrideIsMode
    BY StrideMode, Zenon DEF StrideIsMode, Descriptors
  <2> QED  BY <2>1, <2>2, <2>3 DEF DescriptorScans
<1> QED  BY <1>1, <1>2, <1>3, PTL DEF ResolverSpec

=============================================================================
