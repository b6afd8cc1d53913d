--------------------------- MODULE CommandBuffers ---------------------------
(***************************************************************************)
(* CmdExecIndirect2 (exec_cmdbuf.c): every resource of the command is a    *)
(* command buffer, read from guest memory and walked as a sequence of      *)
(* encoder segments, each a sequence of inner commands.  Nothing in guest  *)
(* memory is trusted: every size is checked against the bytes that were    *)
(* read, and a walk stops at the first size that does not fit.             *)
(*                                                                         *)
(* Lengths are in 32-bit words.  A word of guest memory gets its value     *)
(* when it is read for the first time and keeps it, so one behaviour is    *)
(* the walk of one buffer.  GuestMemory has the reading of the buffer; all *)
(* that counts here is how much of it arrived.                             *)
(***************************************************************************)
EXTENDS InnerOps

CONSTANTS
    MaxWords,   \* bound: length of a command buffer
    Words,      \* bound: values of header words
    MaxRes      \* bound: resources of a command

ASSUME WalkAssumption == MaxWords \in Nat /\ MaxRes \in Nat /\ Words \subseteq Nat

VARIABLES
    pc,     \* "resource", "locate", "segment", "command" or "done"
    todo,   \* resources not yet walked
    mem,    \* the words known so far
    len,    \* to_read: words of the buffer that arrived
    off,    \* offset of the segment
    cmd,    \* offset of the inner command
    segs,   \* history: segments entered, in order
    log     \* history: inner commands dispatched, in order

walkVars == <<pc, todo, mem, len, off, cmd, segs, log>>

Unread == -1
Encoders == {0, 1, 2, 4}   \* 5 is a marker without commands
Marker == 5

\* The contents of the words at o and o + 1, chosen when they are first read.
Reading(o, a, b) ==
    /\ o + 1 < len
    /\ mem[o] \in {Unread, a} /\ mem[o + 1] \in {Unread, b}
    /\ mem' = [mem EXCEPT ![o] = a, ![o + 1] = b]

WalkInit ==
    /\ pc = "resource" /\ todo \in 0 .. MaxRes
    /\ mem = [i \in 0 .. (MaxWords - 1) |-> Unread]
    /\ len = 0 /\ off = 0 /\ cmd = 0 /\ segs = <<>> /\ log = <<>>

\* The resource loop of lagfx_compute_exec_cmdbuf.  n words of the next buffer
\* arrive; none when its length is refused or the first page cannot be read.
NextResource(n) ==
    /\ pc = "resource" /\ todo > 0
    /\ todo' = todo - 1 /\ len' = n
    /\ mem' = [i \in 0 .. (MaxWords - 1) |-> Unread]
    /\ off' = 0 /\ cmd' = 0 /\ segs' = <<>> /\ log' = <<>>
    /\ pc' = IF n = 0 THEN "resource" ELSE "locate"

\* The loop ends; the stamp of the command is completed (see Stamps).
ExecDone ==
    /\ pc = "resource" /\ todo = 0
    /\ pc' = "done"
    /\ UNCHANGED <<todo, mem, len, off, cmd, segs, log>>

\* A header locate_segment_header accepts.
Plausible(size, type, o) == size # 0 /\ size <= len - o /\ type \in Encoders \cup {Marker}

\* locate_segment_header: the first segment starts at offset 0, or behind a
\* prefix of eight bytes; otherwise the buffer is skipped.
Locate ==
    /\ pc = "locate"
    /\ \/ \E size, type \in Words :
             /\ Reading(off, size, type)
             /\ IF Plausible(size, type, off) THEN pc' = "segment" /\ UNCHANGED off
                ELSE IF off = 0 THEN off' = 2 /\ UNCHANGED pc
                ELSE pc' = "resource" /\ UNCHANGED off
       \/ /\ off + 1 >= len
          /\ pc' = "resource" /\ UNCHANGED <<mem, off>>
    /\ UNCHANGED <<todo, len, cmd, segs, log>>

\* segment_size > to_read - off
SegmentFits(size, o) == size >= 2 /\ size <= len - o

\* A marker takes sixteen bytes, whatever size it states.
MarkerWordsNone == 0

MarkerWords == 4

\* One iteration of the segment loop: a marker is skipped when another
\* header can follow it, a segment of an unknown kind or size ends the walk.
Segment ==
    /\ pc = "segment"
    /\ \/ \E size, type \in Words :
             /\ Reading(off, size, type)
             /\ IF type = Marker
                THEN /\ IF off + 6 > len THEN pc' = "resource" /\ UNCHANGED off
                        ELSE off' = off + MarkerWords /\ UNCHANGED pc
                     /\ UNCHANGED <<cmd, segs>>
                ELSE IF type \notin Encoders \/ ~SegmentFits(size, off)
                THEN pc' = "resource" /\ UNCHANGED <<off, cmd, segs>>
                ELSE /\ pc' = "command" /\ cmd' = off + 2 /\ UNCHANGED off
                     /\ segs' = Append(segs, [off |-> off, size |-> size, enc |-> type])
       \/ /\ off + 1 >= len
          /\ pc' = "resource" /\ UNCHANGED <<mem, off, cmd, segs>>
    /\ UNCHANGED <<todo, len, log>>

SegEnd == off + segs[Len(segs)].size

\* The walk goes on behind the segment.
NextSegment == pc' = "segment" /\ off' = SegEnd

\* total_len < 8 || total_len > segment_len - off
CommandFitsBuffer(total) == total >= 2 /\ total <= len - cmd

CommandFits(total) == total >= 2 /\ total <= SegEnd - cmd

\* One iteration of inner_walk_segment.  The encoder kind of the segment selects
\* the dispatcher, which gets the body of the command.
Command ==
    /\ pc = "command"
    /\ \/ \E op, total \in Words :
             /\ cmd + 2 <= SegEnd
             /\ Reading(cmd, op, total)
             /\ IF CommandFits(total)
                THEN /\ log' = Append(log, [enc |-> segs[Len(segs)].enc, op |-> op,
                                            off |-> cmd, end |-> cmd + total])
                     /\ cmd' = cmd + total
                     /\ UNCHANGED <<pc, off>>
                ELSE NextSegment /\ UNCHANGED <<cmd, log>>
       \/ /\ cmd + 2 > SegEnd
          /\ NextSegment /\ UNCHANGED <<mem, cmd, log>>
    /\ UNCHANGED <<todo, len, segs>>

WalkNext ==
    \/ \E n \in 0 .. MaxWords : NextResource(n)
    \/ ExecDone
    \/ Locate
    \/ Segment
    \/ Command

WalkSpec == WalkInit /\ [][WalkNext]_walkVars /\ WF_walkVars(WalkNext)

-----------------------------------------------------------------------------

\* Whatever a command buffer holds, each dispatched command lies between the end
\* of its predecessor and the end of its own segment, and the segments are inside
\* the words that arrived: no handler is given bytes that were not read, or bytes
\* of a neighbour.  A command that does not fit costs the rest of its own segment
\* only: the walk goes on at the end the segment's header gives, past any markers
\* (exec_walk_resource, inner_walk_segment).
CommandsInside ==
    /\ \A i \in 1 .. Len(segs) : segs[i].off + segs[i].size <= len
    /\ \A i \in 1 .. Len(log) :
          \E s \in 1 .. Len(segs) :
             /\ log[i].enc = segs[s].enc
             /\ segs[s].off + 2 <= log[i].off
             /\ log[i].end <= segs[s].off + segs[s].size
    /\ \A i \in 1 .. (Len(log) - 1) : log[i].end <= log[i + 1].off
    /\ \A i \in 1 .. (Len(segs) - 1) :
          LET end == segs[i].off + segs[i].size
              gap == segs[i + 1].off - end
          IN  /\ gap >= 0 /\ gap % 4 = 0
              /\ \A k \in 0 .. (gap \div 4 - 1) : mem[end + 4 * k + 1] = Marker

\* Every handler reads only words of the body it was given, at every length a
\* body can have and with any element count in it (render_inner_ops.c,
\* blit_inner_ops.c).
HandlersStayInBody ==
    pc = "done" /\ len = 0 =>
        \A enc \in {2, 4} : \A op \in DOMAIN EncoderOps(enc) :
            \A n \in {0, 1, 2, 3, 5, 8, 13, 22, 146} : \A count \in 0 .. 6 :
                ReadsOf(EncoderOps(enc)[op], n, count) <= n

\* So no handler reads a word that is not its own command's.
ReadsInside == CommandsInside /\ HandlersStayInBody

\* The command is finished after finitely many steps, whatever the guest wrote.
WalkEnds == <>(pc = "done")
=============================================================================
