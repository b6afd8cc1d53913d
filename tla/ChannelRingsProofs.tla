------------------------- MODULE ChannelRingsProofs -------------------------
(***************************************************************************)
(* Proofs about ChannelRings: commands are dispatched exactly once and in  *)
(* order, and every channel implements a command stream.                   *)
(*                                                                         *)
(* The cursors are 32-bit numbers; the argument follows the byte positions *)
(* they stand for, which never wrap.  A cursor stands for the end of one   *)
(* command, and since the guest keeps all it has not seen consumed within  *)
(* one ring, which is shorter than the range of a cursor, the cursor tells *)
(* which.  Within one ring no two positions share a byte of memory, so a   *)
(* command is intact until the guest has seen it consumed.                 *)
(***************************************************************************)
EXTENDS ChannelRings, TLAPS

\* The position behind command n of a channel's log.
Pos(lg, n) == IF n = 0 THEN FirstByte ELSE lg[n].start + lg[n].len

Entry == [start : Nat, len : Lens]
LogOK(lg) ==
    /\ lg \in Seq(Entry)
    /\ \A n \in 1 .. Len(lg) : lg[n].start = Pos(lg, n - 1)
    /\ \A m, n \in 0 .. Len(lg) : m < n => Pos(lg, m) < Pos(lg, n)

\* A cursor that stands behind command n, with what follows within one ring.
Stands(lg, x, n) ==
    /\ n \in 0 .. Len(lg) /\ x = Pos(lg, n) % CursorMod
    /\ Pos(lg, Len(lg)) - Pos(lg, n) <= RingSize

\* The commands behind n lie in memory as they were written.
Stored(m, lg, n) ==
    \A i \in (n + 1) .. Len(lg) : \A k \in 0 .. (lg[i].len - 1) :
        m[lagfx_ring_resolve_data_gpa(lg[i].start + k)] = <<i, k>>

\* Acked, Submitted and Delivered as functions of the state of one channel.
AckedOf(lg, x) ==
    LET at == {n \in 0 .. Len(lg) : Pos(lg, n) % CursorMod = x}
    IN  IF at = {} THEN -1 ELSE CHOOSE n \in at : \A m \in at : m <= n
SubmittedOf(lg, d, t) == Len(lg) - (IF d.wp = t THEN 0 ELSE 1)
DeliveredOf(ex) == IF ex = <<>> THEN 0 ELSE ex[Len(ex)]

MemShape(m) == m = [x \in 0 .. (PhysSize - 1) |-> m[x]]

\* The log and the memory after a command of length len was written.
Grown(lg, len) == Append(lg, [start |-> Pos(lg, Len(lg)), len |-> len])
Place(lg, len) ==
    [k \in 0 .. (len - 1) |->
        lagfx_ring_resolve_data_gpa((Pos(lg, Len(lg)) % CursorMod) + k)]
Filled(m, lg, len) ==
    [x \in DOMAIN m |->
        IF \E k \in DOMAIN Place(lg, len) : Place(lg, len)[k] = x
        THEN <<Len(lg) + 1, CHOOSE k \in DOMAIN Place(lg, len) : Place(lg, len)[k] = x>>
        ELSE m[x]]

\* A ring with log lg, memory m, descriptor d, guest position t and dispatches ex.
RingOK(lg, m, d, t, ex) ==
    /\ LogOK(lg) /\ Len(lg) <= MaxCmds
    /\ MemShape(m)
    /\ t = Pos(lg, Len(lg)) % CursorMod
    /\ d = [wp |-> d.wp, rp |-> d.rp]
    /\ SubmittedOf(lg, d, t) \in 0 .. Len(lg)
    /\ d.wp = Pos(lg, SubmittedOf(lg, d, t)) % CursorMod
    /\ Stands(lg, d.rp, AckedOf(lg, d.rp))
    /\ Stored(m, lg, AckedOf(lg, d.rp))
    /\ ex \in Seq(Nat)
    /\ AckedOf(lg, d.rp) <= DeliveredOf(ex) /\ DeliveredOf(ex) <= SubmittedOf(lg, d, t)

\* A drain with cursor x and copy y of the write cursor that stands behind command n.
AtOK(lg, d, t, x, y, n) ==
    /\ n \in AckedOf(lg, d.rp) .. SubmittedOf(lg, d, t)
    /\ x = Pos(lg, n) % CursorMod
    /\ \E w \in n .. SubmittedOf(lg, d, t) : y = Pos(lg, w) % CursorMod

RingInv(c) == RingOK(log[c], mem[c], desc[c], tail[c], executed[c])
At(n) == AtOK(log[chan], desc[chan], tail[chan], rp, write_ptr, n)

\* The command behind which the drain stands between two commands.
Reached == IF cmds = 0 THEN Acked(chan) ELSE Delivered(chan)

DrainInv ==
    /\ chan \in Chans /\ cmds \in Nat
    /\ dpc \in {"idle", "desc", "header", "body", "exec", "complete", "publish"}
    /\ dpc = "desc" => cmds = 0
    /\ dpc \in {"header", "body", "publish"} => At(Reached)
    /\ dpc = "body" =>
          /\ cmd.index = Reached + 1 /\ cmd.length = log[chan][Reached + 1].len
          /\ rp # write_ptr
    /\ dpc \in {"exec", "complete"} =>
          /\ At(Delivered(chan) - 1)
          /\ cmd.index = Delivered(chan) /\ cmd.length = log[chan][Delivered(chan)].len
          /\ rp # write_ptr

\* Without a lost publication what was dispatched is the sequence of commands, and
\* the published cursor stands behind the last of them outside of a drain.
InDrain(c) == chan = c /\ (dpc \in {"exec", "complete"} \/
                             (dpc \in {"header", "body", "publish"} /\ cmds > 0))
LostInv ==
    /\ lost \in Nat /\ (lost > 0 => "publish" \in Faults)
    /\ lost = 0 => \A c \in Chans :
                      /\ \A k \in 1 .. Len(executed[c]) : executed[c][k] = k
                      /\ ~InDrain(c) => Delivered(c) = Acked(c)

Shape ==
    /\ log = [c \in Chans |-> log[c]] /\ mem = [c \in Chans |-> mem[c]]
    /\ desc = [c \in Chans |-> desc[c]] /\ tail = [c \in Chans |-> tail[c]]
    /\ executed = [c \in Chans |-> executed[c]]

StreamInv == Shape /\ (\A c \in Chans : RingInv(c)) /\ DrainInv /\ LostInv

-----------------------------------------------------------------------------
(* Remainders. *)

LEMMA Division ==
    ASSUME NEW a \in Int, NEW m \in Nat \ {0}
    PROVE  /\ a % m \in 0 .. (m - 1) /\ a \div m \in Int
           /\ a = m * (a \div m) + (a % m)
OBVIOUS

LEMMA Multiple ==
    ASSUME NEW d \in Int, NEW m \in Nat, d >= 1 PROVE d * m >= m
OBVIOUS

\* Quotient and remainder are determined.
LEMMA DivisionUnique ==
    ASSUME NEW m \in Nat \ {0}, NEW p \in Int, NEW q \in Int,
           NEW x \in 0 .. (m - 1), NEW y \in 0 .. (m - 1), p * m + x = q * m + y
    PROVE  p = q /\ x = y
<1> DEFINE e == p - q
<1>1. e \in Int /\ e * m = y - x
  OBVIOUS
<1>2. CASE e >= 1
  <2>1. e * m >= m
    BY <1>1, <1>2, Multiple
  <2> HIDE DEF e
  <2> QED  BY <1>1, <2>1
<1>3. CASE e <= -1
  <2>1. (0 - e) * m >= m
    BY <1>1, <1>3, Multiple
  <2>2. (0 - e) * m = x - y
    BY <1>1
  <2> HIDE DEF e
  <2> QED  BY <2>1, <2>2
<1>4. CASE e = 0
  BY <1>1, <1>4
<1> QED  BY <1>1, <1>2, <1>3, <1>4

LEMMA Remainder ==
    ASSUME NEW m \in Nat \ {0}, NEW a \in Int, NEW q \in Int, NEW x \in 0 .. (m - 1),
           a = q * m + x
    PROVE  a % m = x
<1> DEFINE d == a \div m
           y == a % m
<1>1. y \in 0 .. (m - 1) /\ d \in Int /\ a = m * d + y
  BY Division
<1> HIDE DEF d, y
<1>2. q * m + x = d * m + y
  BY <1>1
<1>3. x = y
  BY <1>1, <1>2, DivisionUnique, ZenonT(30)
<1> QED  BY <1>3 DEF y

\* Numbers less than a modulus apart are told apart by their remainders.
LEMMA SameRemainder ==
    ASSUME NEW m \in Nat \ {0}, NEW a \in Int, NEW b \in Int, a <= b, b - a < m,
           a % m = b % m
    PROVE  a = b
<1> DEFINE q == a \div m
           x == a % m
<1>1. x \in 0 .. (m - 1) /\ q \in Int /\ a = q * m + x
  BY Division
<1>2. (b - a) % m = 0
  <2> DEFINE r == b \div m
  <2>1. r \in Int /\ b = r * m + x
    BY Division
  <2> HIDE DEF q, r, x
  <2>2. b - a = (r - q) * m + 0
    BY <1>1, <2>1
  <2> QED  BY <1>1, <2>1, <2>2, Remainder
<1>3. (b - a) % m = b - a
  <2>1. b - a = 0 * m + (b - a)
    OBVIOUS
  <2> QED  BY <2>1, Remainder
<1> QED  BY <1>2, <1>3

\* The remainder of a sum or difference, from the remainder of one part.
LEMMA SumRemainder ==
    ASSUME NEW m \in Nat \ {0}, NEW a \in Int, NEW k \in Int
    PROVE  ((a % m) + k) % m = (a + k) % m
<1> DEFINE q == a \div m
           x == a % m
           z == x + k
           d == z \div m
           y == z % m
<1>1. x \in 0 .. (m - 1) /\ q \in Int /\ a = q * m + x
  BY Division
<1>2. z \in Int /\ z = x + k
  BY <1>1
<1> HIDE DEF z
<1>3. y \in 0 .. (m - 1) /\ d \in Int /\ z = d * m + y
  BY <1>2, Division
<1> HIDE DEF q, x, d, y
<1>4. a + k = (q + d) * m + y /\ a + k \in Int /\ q + d \in Int
  BY <1>1, <1>2, <1>3
<1>5. (a + k) % m = y
  BY <1>3, <1>4, Remainder
<1> QED  BY <1>5 DEF y, x, z

LEMMA ShiftedRemainder ==
    ASSUME NEW n \in Nat \ {0}, NEW a \in Int, NEW q \in Int
    PROVE  (a + q * n) % n = a % n
<1> DEFINE d == a \div n
           y == a % n
<1>1. y \in 0 .. (n - 1) /\ d \in Int /\ a = d * n + y
  BY Division
<1> HIDE DEF d, y
<1>2. a + q * n = (d + q) * n + y /\ a + q * n \in Int /\ d + q \in Int
  BY <1>1
<1> DEFINE z == a + q * n
<1> HIDE DEF z
<1>3. z = (d + q) * n + y /\ z \in Int
  BY <1>2 DEF z
<1>4. z % n = y
  BY <1>1, <1>2, <1>3, Remainder
<1> QED  BY <1>4 DEF z, y

\* Reducing by a multiple of the modulus first changes nothing.
LEMMA NestedRemainder ==
    ASSUME NEW m \in Nat \ {0}, NEW n \in Nat \ {0}, m % n = 0, NEW a \in Int, NEW k \in Int
    PROVE  ((a % m) + k) % n = (a + k) % n
<1> DEFINE q == a \div m
           x == a % m
           t == m \div n
<1>1. x \in 0 .. (m - 1) /\ q \in Int /\ a = q * m + x
  BY Division
<1>2. t \in Int /\ m = t * n
  BY Division
<1> HIDE DEF q, x, t
<1>3. x + k \in Int /\ q * t \in Int /\ a + k = (x + k) + (q * t) * n
  <2>1. q * m = (q * t) * n
    BY <1>1, <1>2
  <2> QED  BY <1>1, <1>2, <2>1
<1>4. ((x + k) + (q * t) * n) % n = (x + k) % n
  BY <1>3, ShiftedRemainder
<1>5. (a + k) % n = (x + k) % n
  BY <1>3, <1>4
<1> QED  BY <1>5 DEF x

-----------------------------------------------------------------------------
(* Where a byte of the ring lies. *)

\* An address is an offset in the page that a page of the ring maps to.
LEMMA Address ==
    ASSUME NEW x \in Nat
    PROVE  \E p \in DOMAIN PageMap, y \in 0 .. (PageSize - 1) :
              /\ x % RingSize = p * PageSize + y
              /\ lagfx_ring_resolve_data_gpa(x) = PageMap[p] * PageSize + y
<1> DEFINE off == x % RingSize
           p == off \div PageSize
           y == off % PageSize
           n == RingSize \div PageSize
<1>1. off \in 0 .. (RingSize - 1)
  BY RingsAssumption, Division
<1>2. p \in Int /\ y \in 0 .. (PageSize - 1) /\ off = p * PageSize + y
  <2> HIDE DEF off
  <2> QED  BY <1>1, RingsAssumption, Division
<1>3. lagfx_ring_resolve_data_gpa(x) = PageMap[p] * PageSize + y
  BY DEF lagfx_ring_resolve_data_gpa
<1>4. n \in Int /\ RingSize = n * PageSize
  BY RingsAssumption, Division
<1>5. p \in 0 .. (n - 1)
  <2> HIDE DEF off, p, y, n
  <2>1. p >= 0
    <3> SUFFICES ASSUME p <= -1 PROVE FALSE
      BY <1>2
    <3>1. (0 - p) * PageSize >= PageSize
      BY <1>2, RingsAssumption, Multiple
    <3> QED  BY <1>1, <1>2, <3>1, RingsAssumption
  <2>2. p < n
    <3> SUFFICES ASSUME p - n >= 0 PROVE FALSE
      BY <1>2, <1>4
    <3>1. (p - n + 1) * PageSize >= PageSize
      BY <1>2, <1>4, RingsAssumption, Multiple
    <3> QED  BY <1>1, <1>2, <1>4, <3>1, RingsAssumption
  <2> QED  BY <1>2, <1>4, <2>1, <2>2
<1>6. p \in DOMAIN PageMap
  <2> HIDE DEF p
  <2> QED  BY <1>5, PagesAssumption
<1> HIDE DEF p, y
<1> QED  BY <1>2, <1>3, <1>6

\* It lies in the memory of the ring, and the reduction of a cursor does not change it.
LEMMA PageNumbers == \A p \in DOMAIN PageMap : PageMap[p] \in Nat
BY PagesAssumption, Zenon

LEMMA AddressInside ==
    ASSUME NEW x \in Nat PROVE lagfx_ring_resolve_data_gpa(x) \in 0 .. (PhysSize - 1)
<1>1. PICK p \in DOMAIN PageMap, y \in 0 .. (PageSize - 1) :
         lagfx_ring_resolve_data_gpa(x) = PageMap[p] * PageSize + y
  BY Address
<1>2. PageMap[p] \in Nat /\ (PageMap[p] + 1) * PageSize <= PhysSize
  BY PagesAssumption
<1>3. PageMap[p] * PageSize \in Nat
  BY <1>2, RingsAssumption
<1> QED  BY <1>1, <1>2, <1>3, PagesAssumption, RingsAssumption

LEMMA AddressReduced ==
    ASSUME NEW x \in Nat, NEW k \in Nat
    PROVE  lagfx_ring_resolve_data_gpa((x % CursorMod) + k) = lagfx_ring_resolve_data_gpa(x + k)
<1>1. /\ CursorMod \in Nat \ {0} /\ RingSize \in Nat \ {0} /\ CursorMod % RingSize = 0
      /\ x \in Int /\ k \in Int
  BY RingsAssumption
<1>2. ((x % CursorMod) + k) % RingSize = (x + k) % RingSize
  BY <1>1, NestedRemainder, Zenon
<1> QED  BY <1>2 DEF lagfx_ring_resolve_data_gpa

\* Positions within one ring do not share a byte.
LEMMA AddressesApart ==
    ASSUME NEW x \in Nat, NEW y \in Nat, x <= y, y - x < RingSize,
           lagfx_ring_resolve_data_gpa(x) = lagfx_ring_resolve_data_gpa(y)
    PROVE  x = y
<1>1. PICK p \in DOMAIN PageMap, a \in 0 .. (PageSize - 1) :
         /\ x % RingSize = p * PageSize + a
         /\ lagfx_ring_resolve_data_gpa(x) = PageMap[p] * PageSize + a
  BY Address
<1>2. PICK q \in DOMAIN PageMap, b \in 0 .. (PageSize - 1) :
         /\ y % RingSize = q * PageSize + b
         /\ lagfx_ring_resolve_data_gpa(y) = PageMap[q] * PageSize + b
  BY Address
<1>3. PageMap[p] \in Int /\ PageMap[q] \in Int /\ PageSize \in Nat \ {0}
  BY PageNumbers, RingsAssumption
<1>4. PageMap[p] = PageMap[q] /\ a = b
  <2> DEFINE P == PageMap[p]
             Q == PageMap[q]
  <2>1. P \in Int /\ Q \in Int /\ P * PageSize + a = Q * PageSize + b
    BY <1>1, <1>2, <1>3
  <2> HIDE DEF P, Q
  <2>2. P = Q /\ a = b
    BY <1>3, <2>1, DivisionUnique
  <2> QED  BY <2>2 DEF P, Q
<1>5. p = q
  BY <1>4, PagesAssumption
<1>6. x % RingSize = y % RingSize
  BY <1>1, <1>2, <1>4, <1>5
<1>7. RingSize \in Nat \ {0} /\ x \in Int /\ y \in Int
  BY RingsAssumption
<1> QED  BY <1>6, <1>7, SameRemainder, Zenon

-----------------------------------------------------------------------------
(* The log. *)

LEMMA CursorModNat == CursorMod \in Nat \ {0} /\ RingSize \in Nat \ {0} /\ RingSize < CursorMod
BY RingsAssumption

LEMMA LengthsNat == \A len \in Lens : len \in Nat \ {0} /\ len >= Hdr /\ len <= RingSize
BY RingsAssumption

LEMMA PosNat ==
    ASSUME NEW lg, LogOK(lg), NEW n \in 0 .. Len(lg)
    PROVE  Pos(lg, n) \in Nat
<1>1. CASE n = 0
  BY <1>1, RingsAssumption DEF Pos
<1>2. CASE n # 0
  <2>1. lg[n] \in Entry
    BY <1>2 DEF LogOK
  <2>2. lg[n].start \in Nat /\ lg[n].len \in Nat
    BY <2>1, LengthsNat DEF Entry
  <2> QED  BY <1>2, <2>2 DEF Pos
<1> QED  BY <1>1, <1>2

\* Cursors that stand for commands of one window are equal only for one command.
LEMMA PosApart ==
    ASSUME NEW lg, LogOK(lg), NEW a \in 0 .. Len(lg), Pos(lg, Len(lg)) - Pos(lg, a) <= RingSize,
           NEW m \in a .. Len(lg), NEW n \in a .. Len(lg),
           Pos(lg, m) % CursorMod = Pos(lg, n) % CursorMod
    PROVE  m = n
<1>1. ASSUME NEW i \in a .. Len(lg), NEW j \in a .. Len(lg), i < j,
             Pos(lg, i) % CursorMod = Pos(lg, j) % CursorMod
      PROVE  FALSE
  <2>1. i \in 0 .. Len(lg) /\ j \in 0 .. Len(lg) /\ Len(lg) \in 0 .. Len(lg)
    BY DEF LogOK
  <2>2. /\ Pos(lg, i) \in Int /\ Pos(lg, j) \in Int
        /\ Pos(lg, a) \in Int /\ Pos(lg, Len(lg)) \in Int
    BY <2>1, PosNat
  <2>3. Pos(lg, a) <= Pos(lg, i) /\ Pos(lg, i) < Pos(lg, j) /\ Pos(lg, j) <= Pos(lg, Len(lg))
    <3>1. (a = i \/ a < i) /\ (j = Len(lg) \/ j < Len(lg)) /\ i < j
      BY <1>1, <2>1
    <3>2. \A p, q \in 0 .. Len(lg) : p < q => Pos(lg, p) < Pos(lg, q)
      BY DEF LogOK
    <3> QED  BY <2>1, <2>2, <3>1, <3>2
  <2>4. Pos(lg, i) <= Pos(lg, j) /\ Pos(lg, j) - Pos(lg, i) < CursorMod
    BY <2>2, <2>3, CursorModNat
  <2>5. Pos(lg, i) = Pos(lg, j)
    BY <1>1, <2>2, <2>4, CursorModNat, SameRemainder, Zenon
  <2> QED  BY <2>2, <2>3, <2>5
<1>2. m \in Int /\ n \in Int
  OBVIOUS
<1> QED  BY <1>1, <1>2

\* The command a published cursor stands for is the one Acked finds.
LEMMA AckedIs ==
    ASSUME NEW lg, LogOK(lg), NEW x, NEW a, Stands(lg, x, a)
    PROVE  AckedOf(lg, x) = a
<1> DEFINE at == {n \in 0 .. Len(lg) : Pos(lg, n) % CursorMod = x}
<1>1. a \in at /\ a \in 0 .. Len(lg) /\ Len(lg) \in Nat
  BY DEF Stands, LogOK
<1>2. \A m \in at : m <= a
  <2> SUFFICES ASSUME NEW m \in at, m > a PROVE FALSE
    BY <1>1
  <2>1. m \in a .. Len(lg) /\ a \in a .. Len(lg) /\ Pos(lg, m) % CursorMod = Pos(lg, a) % CursorMod
    BY <1>1
  <2>2. m = a
    BY <1>1, <2>1, PosApart DEF Stands
  <2> QED  BY <1>1, <2>2
<1>3. \A n \in at : (\A m \in at : m <= n) => n = a
  BY <1>1, <1>2
<1> HIDE DEF at
<1>4. (CHOOSE n \in at : \A m \in at : m <= n) = a
  BY <1>1, <1>2, <1>3
<1> QED  BY <1>1, <1>4 DEF AckedOf, at

LEMMA LogGrows ==
    ASSUME NEW lg, LogOK(lg), NEW len \in Lens
    PROVE  /\ LogOK(Grown(lg, len)) /\ Len(Grown(lg, len)) = Len(lg) + 1
           /\ \A n \in 1 .. Len(lg) : Grown(lg, len)[n] = lg[n]
           /\ Grown(lg, len)[Len(lg) + 1] = [start |-> Pos(lg, Len(lg)), len |-> len]
           /\ \A n \in 0 .. Len(lg) : Pos(Grown(lg, len), n) = Pos(lg, n)
           /\ Pos(Grown(lg, len), Len(lg) + 1) = Pos(lg, Len(lg)) + len
<1> DEFINE e == [start |-> Pos(lg, Len(lg)), len |-> len]
           n0 == Len(lg)
           lg2 == Grown(lg, len)
<1>1. n0 \in Nat /\ Pos(lg, n0) \in Nat /\ len \in Nat \ {0}
  BY PosNat, LengthsNat DEF LogOK
<1>2. e \in Entry /\ e.start = Pos(lg, n0) /\ e.len = len
  BY <1>1 DEF Entry
<1> HIDE DEF e
<1>3. /\ lg2 \in Seq(Entry) /\ Len(lg2) = n0 + 1 /\ lg2[n0 + 1] = e
      /\ \A n \in 1 .. n0 : lg2[n] = lg[n]
  BY <1>2 DEF LogOK, e, Grown
<1> HIDE DEF lg2
<1>4. \A n \in 0 .. n0 : Pos(lg2, n) = Pos(lg, n)
  BY <1>1, <1>3 DEF Pos
<1>5. Pos(lg2, n0 + 1) = Pos(lg, n0) + len
  BY <1>1, <1>2, <1>3 DEF Pos
<1>6. \A n \in 1 .. Len(lg2) : lg2[n].start = Pos(lg2, n - 1)
  <2> SUFFICES ASSUME NEW n \in 1 .. Len(lg2) PROVE lg2[n].start = Pos(lg2, n - 1)
    OBVIOUS
  <2>1. CASE n \in 1 .. n0
    BY <1>1, <1>3, <1>4, <2>1 DEF LogOK
  <2>2. CASE n = n0 + 1
    BY <1>1, <1>2, <1>3, <1>4, <2>2
  <2> QED  BY <1>1, <1>3, <2>1, <2>2
<1>7. \A m, n \in 0 .. Len(lg2) : m < n => Pos(lg2, m) < Pos(lg2, n)
  <2> SUFFICES ASSUME NEW m \in 0 .. Len(lg2), NEW n \in 0 .. Len(lg2), m < n
               PROVE  Pos(lg2, m) < Pos(lg2, n)
    OBVIOUS
  <2>1. CASE n \in 0 .. n0
    BY <1>1, <1>3, <1>4, <2>1 DEF LogOK
  <2>2. CASE n = n0 + 1
    <3>1. m \in 0 .. n0 /\ Pos(lg, m) \in Nat
      BY <1>1, <1>3, <2>2, PosNat
    <3>2. Pos(lg, m) <= Pos(lg, n0)
      BY <1>1, <3>1 DEF LogOK
    <3> QED  BY <1>1, <1>4, <1>5, <2>2, <3>1, <3>2
  <2> QED  BY <1>1, <1>3, <2>1, <2>2
<1>8. LogOK(lg2)
  BY <1>3, <1>6, <1>7 DEF LogOK
<1> QED  BY <1>3, <1>4, <1>5, <1>8 DEF e, lg2

-----------------------------------------------------------------------------
(* The operations on one ring. *)

\* Where a command of the window lies.
LEMMA CommandInWindow ==
    ASSUME NEW lg, LogOK(lg), NEW a \in 0 .. Len(lg), NEW i \in (a + 1) .. Len(lg)
    PROVE  /\ lg[i].start \in Nat /\ lg[i].len \in Lens /\ lg[i].start = Pos(lg, i - 1)
           /\ Pos(lg, a) <= lg[i].start
           /\ lg[i].start + lg[i].len = Pos(lg, i) /\ Pos(lg, i) <= Pos(lg, Len(lg))
<1>1. /\ Len(lg) \in Nat /\ i - 1 \in 0 .. Len(lg) /\ i \in 0 .. Len(lg) /\ i \in 1 .. Len(lg)
      /\ Len(lg) \in 0 .. Len(lg)
  BY DEF LogOK
<1>2. lg[i] \in Entry /\ lg[i].start = Pos(lg, i - 1)
  BY <1>1 DEF LogOK
<1>3. lg[i].len \in Lens /\ lg[i].start \in Nat
  BY <1>2 DEF Entry
<1>4. Pos(lg, i) = lg[i].start + lg[i].len
  BY <1>1 DEF Pos
<1>5. /\ Pos(lg, i - 1) \in Nat /\ Pos(lg, i) \in Nat
      /\ Pos(lg, a) \in Nat /\ Pos(lg, Len(lg)) \in Nat
  BY <1>1, PosNat
<1>6. Pos(lg, a) <= Pos(lg, i - 1) /\ Pos(lg, i) <= Pos(lg, Len(lg))
  <2>1. (a = i - 1 \/ a < i - 1) /\ (i = Len(lg) \/ i < Len(lg))
    BY <1>1
  <2> QED  BY <1>1, <1>5, <2>1 DEF LogOK
<1> QED  BY <1>2, <1>3, <1>4, <1>6

\* The bytes of a new command are apart from one another and from those of the window.
LEMMA NewBytesApart ==
    ASSUME NEW P \in Nat, NEW B \in Nat, NEW len \in Lens, P + len - B <= RingSize, B <= P,
           NEW h \in 0 .. (len - 1)
    PROVE  /\ \A x \in B .. (P - 1) :
                 lagfx_ring_resolve_data_gpa(x) # lagfx_ring_resolve_data_gpa(P + h)
           /\ \A k \in 0 .. (len - 1) :
                 lagfx_ring_resolve_data_gpa(P + k) = lagfx_ring_resolve_data_gpa(P + h) => k = h
<1>1. len \in Nat \ {0} /\ RingSize \in Nat /\ len <= RingSize
  BY LengthsNat, CursorModNat
<1>2. ASSUME NEW x \in B .. (P - 1),
             lagfx_ring_resolve_data_gpa(x) = lagfx_ring_resolve_data_gpa(P + h)
      PROVE  FALSE
  <2>1. x \in Nat /\ P + h \in Nat /\ x <= P + h /\ P + h - x < RingSize /\ x # P + h
    BY <1>1
  <2> QED  BY <1>2, <2>1, AddressesApart
<1>3. ASSUME NEW k \in 0 .. (len - 1),
             lagfx_ring_resolve_data_gpa(P + k) = lagfx_ring_resolve_data_gpa(P + h)
      PROVE  k = h
  <2>1. /\ P + k \in Nat /\ P + h \in Nat
        /\ P + k - (P + h) < RingSize /\ P + h - (P + k) < RingSize
    BY <1>1
  <2>2. CASE P + k <= P + h
    <3>1. P + k = P + h
      BY <1>3, <2>1, <2>2, AddressesApart
    <3> QED  BY <3>1
  <2>3. CASE P + h <= P + k
    <3>1. P + k = P + h
      BY <1>3, <2>1, <2>3, AddressesApart
    <3> QED  BY <3>1
  <2> QED  BY <2>1, <2>2, <2>3
<1> QED  BY <1>2, <1>3

\* What is written behind the log leaves the commands of the window alone.
LEMMA FilledBytes ==
    ASSUME NEW lg, LogOK(lg), NEW a \in 0 .. Len(lg), NEW len \in Lens,
           Pos(lg, Len(lg)) + len - Pos(lg, a) <= RingSize, NEW m, MemShape(m)
    PROVE  /\ \A x \in Pos(lg, a) .. (Pos(lg, Len(lg)) - 1) :
                 Filled(m, lg, len)[lagfx_ring_resolve_data_gpa(x)]
                     = m[lagfx_ring_resolve_data_gpa(x)]
           /\ \A k \in 0 .. (len - 1) :
                 Filled(m, lg, len)[lagfx_ring_resolve_data_gpa(Pos(lg, Len(lg)) + k)]
                     = <<Len(lg) + 1, k>>
           /\ MemShape(Filled(m, lg, len))
<1> DEFINE P == Pos(lg, Len(lg))
           B == Pos(lg, a)
           place == Place(lg, len)
           m2 == Filled(m, lg, len)
<1>1. P \in Nat /\ B \in Nat /\ B <= P
  <2>1. Len(lg) \in 0 .. Len(lg) /\ (a = Len(lg) \/ a < Len(lg))
    BY DEF LogOK
  <2> QED  BY <2>1, PosNat DEF LogOK
<1>2. DOMAIN place = 0 .. (len - 1)
  BY DEF Place
<1>3. \A k \in 0 .. (len - 1) : place[k] = lagfx_ring_resolve_data_gpa(P + k)
  <2> SUFFICES ASSUME NEW k \in 0 .. (len - 1)
               PROVE  place[k] = lagfx_ring_resolve_data_gpa(P + k)
    OBVIOUS
  <2>1. place[k] = lagfx_ring_resolve_data_gpa((P % CursorMod) + k)
    BY DEF Place
  <2>2. k \in Nat
    OBVIOUS
  <2> HIDE DEF P, place
  <2> QED  BY <1>1, <2>1, <2>2, AddressReduced
<1>4. /\ DOMAIN m2 = 0 .. (PhysSize - 1)
      /\ \A x \in 0 .. (PhysSize - 1) :
            m2[x] = IF \E k \in DOMAIN place : place[k] = x
                    THEN <<Len(lg) + 1, CHOOSE k \in DOMAIN place : place[k] = x>>
                    ELSE m[x]
  BY DEF Filled, MemShape
<1>5. MemShape(m2)
  BY DEF Filled, MemShape
<1> HIDE DEF P, B, place, m2
<1>6. P + len - B <= RingSize
  BY DEF P, B
<1>7. ASSUME NEW x \in B .. (P - 1)
      PROVE  m2[lagfx_ring_resolve_data_gpa(x)] = m[lagfx_ring_resolve_data_gpa(x)]
  <2>1. lagfx_ring_resolve_data_gpa(x) \in 0 .. (PhysSize - 1)
    BY <1>1, AddressInside, SMTT(30)
  <2>2. \A k \in DOMAIN place : place[k] # lagfx_ring_resolve_data_gpa(x)
    BY <1>1, <1>2, <1>3, <1>6, NewBytesApart
  <2> QED  BY <1>4, <2>1, <2>2
<1>8. ASSUME NEW k \in 0 .. (len - 1)
      PROVE  m2[lagfx_ring_resolve_data_gpa(P + k)] = <<Len(lg) + 1, k>>
  <2> DEFINE g == lagfx_ring_resolve_data_gpa(P + k)
  <2>1. g \in 0 .. (PhysSize - 1)
    <3>1. P + k \in Nat
      BY <1>1
    <3> QED  BY <3>1, AddressInside
  <2>2. \A h \in DOMAIN place : place[h] = g => h = k
    BY <1>1, <1>2, <1>3, <1>6, NewBytesApart
  <2>3. k \in DOMAIN place /\ place[k] = g
    BY <1>2, <1>3
  <2> HIDE DEF g
  <2>4. (CHOOSE h \in DOMAIN place : place[h] = g) = k
    BY <2>2, <2>3
  <2> QED  BY <1>4, <2>1, <2>3, <2>4 DEF g
<1> QED  BY <1>5, <1>7, <1>8 DEF P, B, m2

LEMMA StoredGrows ==
    ASSUME NEW lg, LogOK(lg), NEW a \in 0 .. Len(lg), NEW len \in Lens,
           Pos(lg, Len(lg)) + len - Pos(lg, a) <= RingSize,
           NEW m, MemShape(m), Stored(m, lg, a)
    PROVE  Stored(Filled(m, lg, len), Grown(lg, len), a)
<1> DEFINE n0 == Len(lg)
           P == Pos(lg, n0)
           m2 == Filled(m, lg, len)
           lg2 == Grown(lg, len)
<1>1. n0 \in Nat /\ len \in Nat
  BY LengthsNat DEF LogOK
<1>2. /\ Len(lg2) = n0 + 1 /\ \A n \in 1 .. n0 : lg2[n] = lg[n]
      /\ lg2[n0 + 1] = [start |-> P, len |-> len]
  BY LogGrows
<1>3. /\ \A x \in Pos(lg, a) .. (P - 1) :
            m2[lagfx_ring_resolve_data_gpa(x)] = m[lagfx_ring_resolve_data_gpa(x)]
      /\ \A k \in 0 .. (len - 1) : m2[lagfx_ring_resolve_data_gpa(P + k)] = <<n0 + 1, k>>
  BY FilledBytes
<1>4. P \in Nat /\ Pos(lg, a) \in Nat
  BY <1>1, PosNat
<1> HIDE DEF m2, lg2, P
<1> SUFFICES ASSUME NEW i \in (a + 1) .. (n0 + 1), NEW k \in 0 .. (lg2[i].len - 1)
             PROVE  m2[lagfx_ring_resolve_data_gpa(lg2[i].start + k)] = <<i, k>>
  BY <1>2 DEF Stored, m2, lg2
<1>5. CASE i \in (a + 1) .. n0
  <2>1. lg2[i] = lg[i]
    BY <1>1, <1>2, <1>5
  <2>2. /\ lg[i].start \in Nat /\ lg[i].len \in Nat
        /\ Pos(lg, a) <= lg[i].start /\ lg[i].start + lg[i].len <= P
    BY <1>5, CommandInWindow, LengthsNat DEF P
  <2>3. k \in 0 .. (lg[i].len - 1)
    BY <2>1
  <2>4. lg[i].start + k \in Pos(lg, a) .. (P - 1)
    <3> DEFINE x == lg[i].start
               l == lg[i].len
               b == Pos(lg, a)
    <3>1. x \in Nat /\ l \in Nat /\ b \in Nat /\ P \in Nat /\ b <= x /\ x + l <= P
      BY <1>4, <2>2
    <3>2. k \in 0 .. (l - 1)
      BY <2>3
    <3> HIDE DEF x, l, b
    <3>3. x + k \in b .. (P - 1)
      BY <3>1, <3>2
    <3> QED  BY <3>3 DEF x, b
  <2> QED  BY <1>3, <1>5, <2>1, <2>3, <2>4 DEF Stored
<1>6. CASE i = n0 + 1
  BY <1>2, <1>3, <1>6
<1> QED  BY <1>1, <1>5, <1>6

\* The distance of two cursors is that of the positions they stand for.
LEMMA CursorDistance ==
    ASSUME NEW m \in Nat \ {0}, NEW a \in Int, NEW b \in Int, a <= b, b - a < m
    PROVE  ((b % m) - (a % m)) % m = b - a
<1> DEFINE q == a \div m
           x == a % m
           r == b \div m
           y == b % m
<1>1. /\ x \in 0 .. (m - 1) /\ q \in Int /\ a = q * m + x
      /\ y \in 0 .. (m - 1) /\ r \in Int /\ b = r * m + y
  BY Division
<1> HIDE DEF q, x, r, y
<1>2. y - x \in Int /\ q - r \in Int /\ y - x = (q - r) * m + (b - a) /\ b - a \in 0 .. (m - 1)
  BY <1>1
<1>3. (y - x) % m = b - a
  BY <1>2, Remainder
<1> QED  BY <1>3 DEF x, y

\* What RingOK says in numbers.
LEMMA RingNumbers ==
    ASSUME NEW lg, NEW m, NEW d, NEW t, NEW ex, RingOK(lg, m, d, t, ex)
    PROVE  /\ LogOK(lg) /\ Len(lg) \in Nat
           /\ AckedOf(lg, d.rp) \in 0 .. Len(lg)
           /\ d.rp = Pos(lg, AckedOf(lg, d.rp)) % CursorMod
           /\ Pos(lg, Len(lg)) - Pos(lg, AckedOf(lg, d.rp)) <= RingSize
           /\ SubmittedOf(lg, d, t) \in 0 .. Len(lg)
           /\ DeliveredOf(ex) \in AckedOf(lg, d.rp) .. SubmittedOf(lg, d, t)
<1>1. LogOK(lg) /\ Len(lg) \in Nat
  BY DEF RingOK, LogOK
<1>2. Stands(lg, d.rp, AckedOf(lg, d.rp)) /\ SubmittedOf(lg, d, t) \in 0 .. Len(lg)
  BY DEF RingOK
<1>3. AckedOf(lg, d.rp) \in 0 .. Len(lg)
  BY <1>2 DEF Stands
<1>4. DeliveredOf(ex) \in Int
  <2>1. ex \in Seq(Nat)
    BY DEF RingOK
  <2>2. CASE ex = <<>>
    BY <2>2 DEF DeliveredOf
  <2>3. CASE ex # <<>>
    <3>1. ex[Len(ex)] \in Nat
      BY <2>1, <2>3
    <3> QED  BY <2>3, <3>1 DEF DeliveredOf
  <2> QED  BY <2>2, <2>3
<1>5. DeliveredOf(ex) \in AckedOf(lg, d.rp) .. SubmittedOf(lg, d, t)
  BY <1>1, <1>2, <1>3, <1>4 DEF RingOK
<1> QED  BY <1>1, <1>2, <1>3, <1>5 DEF Stands

\* Writing a command behind the log, where the published cursor leaves room.
LEMMA RingWrite ==
    ASSUME NEW lg, NEW m, NEW d, NEW t, NEW ex, RingOK(lg, m, d, t, ex), NEW len \in Lens,
           Len(lg) + 1 <= MaxCmds, d.wp = t, len <= RingSize - ((t - d.rp) % CursorMod)
    PROVE  /\ RingOK(Grown(lg, len), Filled(m, lg, len), d, (t + len) % CursorMod, ex)
           /\ AckedOf(Grown(lg, len), d.rp) = AckedOf(lg, d.rp)
           /\ SubmittedOf(Grown(lg, len), d, (t + len) % CursorMod) = SubmittedOf(lg, d, t)
<1> DEFINE a == AckedOf(lg, d.rp)
           n0 == Len(lg)
           P == Pos(lg, n0)
           B == Pos(lg, a)
           lg2 == Grown(lg, len)
           t2 == (t + len) % CursorMod
<1>1. /\ LogOK(lg) /\ n0 \in Nat /\ a \in 0 .. n0 /\ n0 \in 0 .. n0
      /\ d.rp = B % CursorMod /\ P - B <= RingSize
  BY RingNumbers
<1>2. t = P % CursorMod
  BY DEF RingOK
<1>3. P \in Nat /\ B \in Nat /\ len \in Nat
  BY <1>1, PosNat, LengthsNat
<1>4. B <= P
  BY <1>1, <1>3 DEF LogOK
<1>5. /\ LogOK(lg2) /\ Len(lg2) = n0 + 1
      /\ \A n \in 0 .. n0 : Pos(lg2, n) = Pos(lg, n)
      /\ Pos(lg2, n0 + 1) = P + len
  BY <1>1, LogGrows
<1> HIDE DEF a, n0, P, B, lg2
<1>6. P + len - B <= RingSize
  <2>1. B <= P /\ P - B < CursorMod /\ P \in Int /\ B \in Int
    BY <1>1, <1>3, <1>4, CursorModNat
  <2>2. ((P % CursorMod) - (B % CursorMod)) % CursorMod = P - B
    BY <2>1, CursorDistance, CursorModNat, Zenon
  <2> QED  BY <1>1, <1>2, <1>3, <2>1, <2>2, CursorModNat
<1>7. t2 = Pos(lg2, n0 + 1) % CursorMod
  <2>1. P \in Int /\ len \in Int /\ CursorMod \in Nat \ {0}
    BY <1>3, CursorModNat
  <2>2. ((P % CursorMod) + len) % CursorMod = (P + len) % CursorMod
    BY <2>1, SumRemainder, Zenon
  <2> QED  BY <1>2, <1>5, <2>2
<1> HIDE DEF t2
<1>8. Stands(lg2, d.rp, a)
  <2>1. Pos(lg2, a) = B /\ Pos(lg2, Len(lg2)) = P + len /\ a \in 0 .. Len(lg2)
    BY <1>1, <1>5 DEF B
  <2> QED  BY <1>1, <1>3, <1>6, <2>1 DEF Stands
<1>9. AckedOf(lg2, d.rp) = a
  BY <1>5, <1>8, AckedIs
<1>10. d.wp # t2
  <2> SUFFICES ASSUME d.wp = t2 PROVE FALSE
    OBVIOUS
  <2>1. Pos(lg2, n0) % CursorMod = Pos(lg2, n0 + 1) % CursorMod
    BY <1>1, <1>2, <1>5, <1>7 DEF P
  <2>2. /\ a \in 0 .. Len(lg2) /\ n0 \in a .. Len(lg2) /\ n0 + 1 \in a .. Len(lg2)
        /\ Pos(lg2, Len(lg2)) - Pos(lg2, a) <= RingSize
    BY <1>1, <1>5, <1>8 DEF Stands
  <2>3. n0 = n0 + 1
    BY <1>5, <2>1, <2>2, PosApart
  <2> QED  BY <1>1, <2>3
<1>11. SubmittedOf(lg2, d, t2) = n0 /\ SubmittedOf(lg, d, t) = n0
  BY <1>1, <1>5, <1>10 DEF SubmittedOf, n0
<1>12. Stored(Filled(m, lg, len), lg2, a) /\ MemShape(Filled(m, lg, len))
  <2>1. MemShape(m) /\ Stored(m, lg, a)
    BY DEF RingOK, a
  <2>2. a \in 0 .. Len(lg) /\ Pos(lg, Len(lg)) + len - Pos(lg, a) <= RingSize
    BY <1>1, <1>6 DEF n0, P, B
  <2> QED  BY <1>1, <2>1, <2>2, StoredGrows, FilledBytes DEF lg2
<1>13. d.wp = Pos(lg2, n0) % CursorMod
  BY <1>1, <1>2, <1>5 DEF P
<1>14. d = [wp |-> d.wp, rp |-> d.rp] /\ ex \in Seq(Nat) /\ a <= DeliveredOf(ex) /\ DeliveredOf(ex) <= n0
  BY <1>11 DEF RingOK, a
<1>15. Len(lg2) <= MaxCmds /\ n0 \in 0 .. Len(lg2)
  BY <1>1, <1>5 DEF n0
<1>16. RingOK(lg2, Filled(m, lg, len), d, t2, ex)
  BY <1>5, <1>7, <1>8, <1>9, <1>11, <1>12, <1>13, <1>14, <1>15 DEF RingOK
<1> QED  BY <1>9, <1>11, <1>16 DEF lg2, t2, a

\* Moving the write cursor makes the last command visible.
LEMMA RingPublish ==
    ASSUME NEW lg, NEW m, NEW d, NEW t, NEW ex, RingOK(lg, m, d, t, ex), d.wp # t,
           NEW e, e = [wp |-> t, rp |-> d.rp]
    PROVE  /\ RingOK(lg, m, e, t, ex)
           /\ SubmittedOf(lg, e, t) = SubmittedOf(lg, d, t) + 1
<1>1. Len(lg) \in Nat
  BY RingNumbers
<1>2. SubmittedOf(lg, e, t) = Len(lg) /\ SubmittedOf(lg, d, t) = Len(lg) - 1
  BY <1>1 DEF SubmittedOf
<1>3. e.rp = d.rp /\ e.wp = t
  OBVIOUS
<1>4. DeliveredOf(ex) \in AckedOf(lg, d.rp) .. SubmittedOf(lg, d, t) /\ AckedOf(lg, d.rp) \in Nat
  BY RingNumbers
<1>5. AckedOf(lg, d.rp) <= DeliveredOf(ex) /\ DeliveredOf(ex) <= Len(lg)
  BY <1>1, <1>2, <1>4
<1>6. Len(lg) \in 0 .. Len(lg)
  BY <1>1
<1> QED  BY <1>1, <1>2, <1>3, <1>5, <1>6 DEF RingOK

\* Publishing the cursor behind a dispatched command acknowledges that command.
LEMMA RingAck ==
    ASSUME NEW lg, NEW m, NEW d, NEW t, NEW ex, RingOK(lg, m, d, t, ex),
           NEW r \in AckedOf(lg, d.rp) .. DeliveredOf(ex),
           NEW e, e = [wp |-> d.wp, rp |-> Pos(lg, r) % CursorMod]
    PROVE  /\ RingOK(lg, m, e, t, ex) /\ AckedOf(lg, e.rp) = r
           /\ SubmittedOf(lg, e, t) = SubmittedOf(lg, d, t)
<1> DEFINE a == AckedOf(lg, d.rp)
<1>1. /\ LogOK(lg) /\ Len(lg) \in Nat /\ a \in 0 .. Len(lg)
      /\ Pos(lg, Len(lg)) - Pos(lg, a) <= RingSize
      /\ SubmittedOf(lg, d, t) \in 0 .. Len(lg)
      /\ DeliveredOf(ex) \in a .. SubmittedOf(lg, d, t)
  BY RingNumbers
<1>2. SubmittedOf(lg, e, t) = SubmittedOf(lg, d, t) /\ e.wp = d.wp
  BY DEF SubmittedOf
<1> HIDE DEF a
<1>3. r \in a .. Len(lg) /\ r \in 0 .. Len(lg) /\ r <= DeliveredOf(ex) /\ r \in Int
  BY <1>1 DEF a
<1>4. Pos(lg, a) <= Pos(lg, r) /\ Pos(lg, a) \in Nat /\ Pos(lg, r) \in Nat /\ Pos(lg, Len(lg)) \in Nat
  <2>1. a = r \/ a < r
    BY <1>1, <1>3
  <2>2. Pos(lg, a) \in Nat /\ Pos(lg, r) \in Nat /\ Pos(lg, Len(lg)) \in Nat
    BY <1>1, <1>3, PosNat
  <2> QED  BY <1>1, <1>3, <2>1, <2>2 DEF LogOK
<1>5. Stands(lg, e.rp, r)
  <2>1. e.rp = Pos(lg, r) % CursorMod
    OBVIOUS
  <2>2. Pos(lg, Len(lg)) - Pos(lg, r) <= RingSize
    BY <1>1, <1>4, CursorModNat
  <2> QED  BY <1>3, <2>1, <2>2 DEF Stands
<1>6. AckedOf(lg, e.rp) = r
  BY <1>1, <1>5, AckedIs
<1>7. Stored(m, lg, r)
  <2>1. Stored(m, lg, a)
    BY DEF RingOK, a
  <2>2. \A i \in (r + 1) .. Len(lg) : i \in (a + 1) .. Len(lg)
    BY <1>1, <1>3
  <2> QED  BY <2>1, <2>2 DEF Stored
<1> QED  BY <1>2, <1>3, <1>5, <1>6, <1>7 DEF RingOK

\* Dispatching a visible command that is not acknowledged.
LEMMA RingDeliver ==
    ASSUME NEW lg, NEW m, NEW d, NEW t, NEW ex, RingOK(lg, m, d, t, ex),
           NEW i \in (AckedOf(lg, d.rp) + 1) .. SubmittedOf(lg, d, t)
    PROVE  RingOK(lg, m, d, t, Append(ex, i)) /\ DeliveredOf(Append(ex, i)) = i
<1>1. AckedOf(lg, d.rp) \in Nat /\ SubmittedOf(lg, d, t) \in Nat
  BY RingNumbers
<1>2. i \in Nat /\ AckedOf(lg, d.rp) <= i /\ i <= SubmittedOf(lg, d, t) /\ ex \in Seq(Nat)
  BY <1>1 DEF RingOK
<1>3. Append(ex, i) \in Seq(Nat) /\ Append(ex, i) # <<>>
      /\ Append(ex, i)[Len(Append(ex, i))] = i
  BY <1>2
<1>4. DeliveredOf(Append(ex, i)) = i
  BY <1>3 DEF DeliveredOf
<1> HIDE DEF DeliveredOf
<1> QED  BY <1>2, <1>3, <1>4 DEF RingOK

\* A drain that is not at its end stands in front of a visible command, whose
\* bytes it reads.
LEMMA RingRead ==
    ASSUME NEW lg, NEW m, NEW d, NEW t, NEW ex, RingOK(lg, m, d, t, ex),
           NEW x, NEW y, NEW n, AtOK(lg, d, t, x, y, n), x # y
    PROVE  /\ n \in Nat /\ n + 1 \in (AckedOf(lg, d.rp) + 1) .. SubmittedOf(lg, d, t)
           /\ n + 1 \in 1 .. Len(lg) /\ lg[n + 1].len \in Lens
           /\ \A k \in 0 .. (lg[n + 1].len - 1) :
                 m[lagfx_ring_resolve_data_gpa(x + k)] = <<n + 1, k>>
           /\ AtOK(lg, d, t, (x + lg[n + 1].len) % CursorMod, y, n + 1)
<1> DEFINE a == AckedOf(lg, d.rp)
           s == SubmittedOf(lg, d, t)
           l == lg[n + 1].len
<1>1. LogOK(lg) /\ Len(lg) \in Nat /\ a \in 0 .. Len(lg) /\ s \in 0 .. Len(lg)
  BY RingNumbers
<1>2. n \in a .. s /\ x = Pos(lg, n) % CursorMod
  BY DEF AtOK
<1>3. PICK w \in n .. s : y = Pos(lg, w) % CursorMod
  BY DEF AtOK
<1> HIDE DEF a, s
<1>4. w # n /\ w \in Int /\ n \in Int
  BY <1>1, <1>2, <1>3
<1>5. /\ n \in Nat /\ n + 1 \in (a + 1) .. s /\ n + 1 \in (a + 1) .. Len(lg)
      /\ n + 1 \in 1 .. Len(lg) /\ w \in (n + 1) .. s /\ n \in 0 .. Len(lg)
      /\ (n + 1) - 1 = n
  BY <1>1, <1>2, <1>3, <1>4
<1>6. /\ lg[n + 1].start = Pos(lg, n) /\ l \in Lens
      /\ lg[n + 1].start + l = Pos(lg, n + 1)
  BY <1>1, <1>5, CommandInWindow
<1>7. Pos(lg, n) \in Nat /\ l \in Nat
  BY <1>1, <1>5, <1>6, PosNat, LengthsNat
<1> HIDE DEF l
<1>8. ASSUME NEW k \in 0 .. (l - 1)
      PROVE  m[lagfx_ring_resolve_data_gpa(x + k)] = <<n + 1, k>>
  <2>1. lagfx_ring_resolve_data_gpa(x + k) = lagfx_ring_resolve_data_gpa(Pos(lg, n) + k)
    <3>1. k \in Nat
      BY <1>7
    <3> QED  BY <1>2, <1>7, <3>1, AddressReduced
  <2>2. Stored(m, lg, a)
    BY DEF RingOK, a
  <2>3. m[lagfx_ring_resolve_data_gpa(lg[n + 1].start + k)] = <<n + 1, k>>
    BY <1>5, <2>2 DEF Stored, l
  <2> QED  BY <1>6, <2>1, <2>3
<1>9. (x + l) % CursorMod = Pos(lg, n + 1) % CursorMod
  <2>1. Pos(lg, n) \in Int /\ l \in Int /\ CursorMod \in Nat \ {0}
    BY <1>7, CursorModNat
  <2>2. ((Pos(lg, n) % CursorMod) + l) % CursorMod = (Pos(lg, n) + l) % CursorMod
    BY <2>1, SumRemainder, Zenon
  <2> QED  BY <1>2, <1>6, <2>2
<1>10. n + 1 \in a .. s
  BY <1>1, <1>5
<1>11. AtOK(lg, d, t, (x + l) % CursorMod, y, n + 1)
  BY <1>3, <1>5, <1>9, <1>10 DEF AtOK, a, s
<1> QED  BY <1>5, <1>6, <1>8, <1>11 DEF a, s, l

\* A drain keeps its place when commands are added or made visible.
LEMMA PlaceKept ==
    ASSUME NEW lg, NEW d, NEW t, NEW x, NEW y, NEW n, AtOK(lg, d, t, x, y, n),
           NEW lg2, NEW d2, NEW t2, AckedOf(lg2, d2.rp) = AckedOf(lg, d.rp),
           AckedOf(lg, d.rp) \in Nat, SubmittedOf(lg, d, t) \in 0 .. Len(lg), Len(lg) \in Nat,
           SubmittedOf(lg2, d2, t2) \in Nat, SubmittedOf(lg, d, t) <= SubmittedOf(lg2, d2, t2),
           \A k \in 1 .. Len(lg) : lg2[k] = lg[k]
    PROVE  AtOK(lg2, d2, t2, x, y, n)
<1> DEFINE a == AckedOf(lg, d.rp)
           s == SubmittedOf(lg, d, t)
           s2 == SubmittedOf(lg2, d2, t2)
<1>1. n \in a .. s /\ x = Pos(lg, n) % CursorMod
  BY DEF AtOK
<1>2. PICK w \in n .. s : y = Pos(lg, w) % CursorMod
  BY DEF AtOK
<1>3. a \in Nat /\ s \in 0 .. Len(lg) /\ s2 \in Nat /\ s <= s2 /\ a = AckedOf(lg2, d2.rp)
  OBVIOUS
<1> HIDE DEF a, s, s2
<1>4. n \in a .. s2 /\ w \in n .. s2 /\ n \in 0 .. Len(lg) /\ w \in 0 .. Len(lg)
  BY <1>1, <1>2, <1>3
<1>5. Pos(lg2, n) = Pos(lg, n) /\ Pos(lg2, w) = Pos(lg, w)
  BY <1>4 DEF Pos
<1> QED  BY <1>1, <1>2, <1>3, <1>4, <1>5 DEF AtOK, s2

-----------------------------------------------------------------------------
(* The steps. *)

\* The three numbers of a channel, and its invariant, from the state of its ring.
LEMMA ChannelState ==
    ASSUME NEW c
    PROVE  /\ Acked(c) = AckedOf(log[c], desc[c].rp)
           /\ Acked(c)' = AckedOf(log'[c], desc'[c].rp)
           /\ Submitted(c) = SubmittedOf(log[c], desc[c], tail[c])
           /\ Submitted(c)' = SubmittedOf(log'[c], desc'[c], tail'[c])
           /\ Delivered(c) = DeliveredOf(executed[c])
           /\ Delivered(c)' = DeliveredOf(executed'[c])
BY DEF Acked, End, AckedOf, Pos, Submitted, SubmittedOf, Delivered, DeliveredOf

LEMMA ChannelNumbers ==
    ASSUME StreamInv, NEW c \in Chans
    PROVE  /\ RingOK(log[c], mem[c], desc[c], tail[c], executed[c])
           /\ Len(log[c]) \in Nat /\ Acked(c) \in Nat /\ Delivered(c) \in Nat
           /\ Submitted(c) \in 0 .. Len(log[c])
           /\ Acked(c) <= Delivered(c) /\ Delivered(c) <= Submitted(c)
<1>1. RingOK(log[c], mem[c], desc[c], tail[c], executed[c])
  BY DEF StreamInv, RingInv
<1>2. /\ Len(log[c]) \in Nat /\ Acked(c) \in 0 .. Len(log[c])
      /\ Submitted(c) \in 0 .. Len(log[c]) /\ Delivered(c) \in Acked(c) .. Submitted(c)
  BY <1>1, RingNumbers, ChannelState
<1> QED  BY <1>1, <1>2

\* The state of the stream a step leaves alone.
Steady(c) ==
    Submitted(c)' = Submitted(c) /\ Delivered(c)' = Delivered(c) /\ Acked(c)' = Acked(c)

\* What a step of the guest, or one outside the rings, must not disturb.
LEMMA DrainKept ==
    ASSUME StreamInv, UNCHANGED <<dpc, drainVars, lost, executed>>,
           \A c \in Chans :
              /\ Acked(c)' = Acked(c) /\ Submitted(c)' \in Nat /\ Submitted(c) <= Submitted(c)'
              /\ \A k \in 1 .. Len(log[c]) : log'[c][k] = log[c][k]
    PROVE  DrainInv' /\ LostInv'
<1>1. chan \in Chans /\ UNCHANGED <<chan, write_ptr, rp, cmds, cmd, dpc, lost>>
  BY DEF StreamInv, DrainInv, drainVars
<1>2. \A c \in Chans : Delivered(c)' = Delivered(c) /\ executed'[c] = executed[c]
  BY DEF Delivered
<1>3. Reached' = Reached
  BY <1>1, <1>2 DEF Reached
<1>4. /\ Acked(chan) \in Nat /\ Delivered(chan) \in Nat
      /\ Submitted(chan) \in 0 .. Len(log[chan]) /\ Len(log[chan]) \in Nat
  BY <1>1, ChannelNumbers
<1>5. ASSUME NEW n, AtOK(log[chan], desc[chan], tail[chan], rp, write_ptr, n)
      PROVE  AtOK(log'[chan], desc'[chan], tail'[chan], rp, write_ptr, n)
  BY <1>1, <1>4, <1>5, PlaceKept, ChannelState
<1>6. ASSUME NEW n, AtOK(log[chan], desc[chan], tail[chan], rp, write_ptr, n), rp # write_ptr
      PROVE  log'[chan][n + 1] = log[chan][n + 1]
  <2>1. n + 1 \in 1 .. Len(log[chan])
    BY <1>1, <1>6, ChannelNumbers, RingRead
  <2> QED  BY <1>1, <2>1
<1>7. PICK r \in Nat : r = Reached
  BY <1>1, <1>4 DEF StreamInv, DrainInv, Reached
<1>8. PICK f \in Nat : f = Delivered(chan)
  BY <1>4
<1>9. At(Reached) => At(Reached)'
  BY <1>1, <1>3, <1>5, <1>7 DEF At
<1>10. At(Delivered(chan) - 1) => At(Delivered(chan) - 1)'
  <2>1. Delivered(chan)' = f
    BY <1>1, <1>2, <1>8
  <2> QED  BY <1>1, <1>5, <1>8, <2>1 DEF At
<1>11. At(r) /\ rp # write_ptr => log'[chan][r + 1] = log[chan][r + 1]
  BY <1>6 DEF At
<1>12. At(f - 1) /\ rp # write_ptr => log'[chan][f] = log[chan][f]
  <2>1. (f - 1) + 1 = f
    OBVIOUS
  <2> QED  BY <1>6, <2>1 DEF At
<1>13. DrainInv'
  BY <1>1, <1>2, <1>3, <1>7, <1>8, <1>9, <1>10, <1>11, <1>12 DEF StreamInv, DrainInv
<1>14. LostInv'
  BY <1>1, <1>2 DEF StreamInv, LostInv, InDrain
<1> QED  BY <1>13, <1>14

\* The steps of the abstract stream, from what happens to the three numbers.
LEMMA StreamStays ==
    ASSUME \A c \in Chans : Steady(c)
    PROVE  UNCHANGED Stream!streamVars
<1>1. /\ \A c \in Chans : Submitted(c)' = Submitted(c)
      /\ \A c \in Chans : Delivered(c)' = Delivered(c)
      /\ \A c \in Chans : Acked(c)' = Acked(c)
  BY DEF Steady
<1>2. [c \in Chans |-> Submitted(c)]' = [c \in Chans |-> Submitted(c)]
  BY <1>1
<1>3. [c \in Chans |-> Delivered(c)]' = [c \in Chans |-> Delivered(c)]
  BY <1>1
<1>4. [c \in Chans |-> Acked(c)]' = [c \in Chans |-> Acked(c)]
  BY <1>1
<1> QED  BY <1>2, <1>3, <1>4 DEF Stream!streamVars

\* A step that moves one number of one channel only.
LEMMA StreamMoves ==
    ASSUME NEW c \in Chans, \A b \in Chans \ {c} : Steady(b)
    PROVE  /\ ( /\ Submitted(c) < MaxCmds /\ Submitted(c)' = Submitted(c) + 1
                /\ Delivered(c)' = Delivered(c) /\ Acked(c)' = Acked(c)
                => Stream!Next )
           /\ ( /\ Delivered(c) < Submitted(c) /\ Delivered(c)' = Delivered(c) + 1
                /\ Submitted(c)' = Submitted(c) /\ Acked(c)' = Acked(c)
                => Stream!Next )
           /\ ( /\ "publish" \in Faults /\ Acked(c) < Delivered(c)
                /\ Delivered(c)' = Acked(c) + 1
                /\ Submitted(c)' = Submitted(c) /\ Acked(c)' = Acked(c)
                => Stream!Next )
           /\ ( /\ Acked(c)' = Delivered(c)
                /\ Submitted(c)' = Submitted(c) /\ Delivered(c)' = Delivered(c)
                => Stream!Next )
<1> DEFINE S == [b \in Chans |-> Submitted(b)]
           D == [b \in Chans |-> Delivered(b)]
           A == [b \in Chans |-> Acked(b)]
<1>1. \A b \in Chans \ {c} : /\ Submitted(b)' = Submitted(b) /\ Delivered(b)' = Delivered(b)
                             /\ Acked(b)' = Acked(b)
  BY DEF Steady
<1>2. ASSUME Submitted(c) < MaxCmds, Submitted(c)' = Submitted(c) + 1,
             Delivered(c)' = Delivered(c), Acked(c)' = Acked(c)
      PROVE  Stream!Next
  <2>1. S' = [S EXCEPT ![c] = @ + 1] /\ D' = D /\ A' = A
    BY <1>1, <1>2
  <2>2. Stream!Submit(c)
    BY <1>2, <2>1 DEF Stream!Submit
  <2> QED  BY <2>2 DEF Stream!Next
<1>3. ASSUME Delivered(c) < Submitted(c), Delivered(c)' = Delivered(c) + 1,
             Submitted(c)' = Submitted(c), Acked(c)' = Acked(c)
      PROVE  Stream!Next
  <2>1. D' = [D EXCEPT ![c] = @ + 1] /\ S' = S /\ A' = A
    BY <1>1, <1>3
  <2>2. Stream!Deliver(c)
    BY <1>3, <2>1 DEF Stream!Deliver
  <2> QED  BY <2>2 DEF Stream!Next
<1>4. ASSUME "publish" \in Faults, Acked(c) < Delivered(c), Delivered(c)' = Acked(c) + 1,
             Submitted(c)' = Submitted(c), Acked(c)' = Acked(c)
      PROVE  Stream!Next
  <2>1. D' = [D EXCEPT ![c] = A[c] + 1] /\ S' = S /\ A' = A
    BY <1>1, <1>4
  <2>2. Stream!Redeliver(c)
    BY <1>4, <2>1 DEF Stream!Redeliver
  <2> QED  BY <2>2 DEF Stream!Next
<1>5. ASSUME Acked(c)' = Delivered(c), Submitted(c)' = Submitted(c),
             Delivered(c)' = Delivered(c)
      PROVE  Stream!Next
  <2>1. A' = [A EXCEPT ![c] = D[c]] /\ S' = S /\ D' = D
    BY <1>1, <1>5
  <2>2. Stream!Acknowledge(c)
    BY <2>1 DEF Stream!Acknowledge
  <2> QED  BY <2>2 DEF Stream!Next
<1> QED  BY <1>2, <1>3, <1>4, <1>5

\* Steps that leave the rings alone leave the streams alone.
LEMMA RingsKept ==
    ASSUME StreamInv, UNCHANGED <<log, mem, desc, tail, executed>>
    PROVE  /\ Shape' /\ (\A c \in Chans : RingInv(c)')
           /\ \A c \in Chans : Steady(c)
           /\ UNCHANGED Stream!streamVars
<1>1. \A c \in Chans : Steady(c)
  BY DEF Steady, Submitted, Delivered, Acked, End
<1>2. Shape' /\ \A c \in Chans : RingInv(c)'
  BY DEF StreamInv, Shape, RingInv
<1> QED  BY <1>1, <1>2, StreamStays

\* The guest writes a command.
LEMMA WriteStep ==
    ASSUME StreamInv, NEW c \in Chans, NEW len \in Lens, WriteCommand(c, len)
    PROVE  StreamInv' /\ UNCHANGED Stream!streamVars
<1> DEFINE lg == log[c]
           lg2 == Grown(lg, len)
<1>1. RingOK(log[c], mem[c], desc[c], tail[c], executed[c]) /\ LogOK(log[c])
      /\ tail[c] = Pos(lg, Len(lg)) % CursorMod /\ Len(lg) \in Nat
  BY ChannelNumbers DEF RingOK
<1>2. Shape
  BY DEF StreamInv
<1>3. log' = [log EXCEPT ![c] = lg2]
  <2>1. (IF Len(lg) + 1 = 1 THEN FirstByte
         ELSE lg[Len(lg) + 1 - 1].start + lg[Len(lg) + 1 - 1].len) = Pos(lg, Len(lg))
    BY <1>1 DEF Pos
  <2>2. log' = [log EXCEPT ![c] =
                  Append(lg, [start |-> IF Len(lg) + 1 = 1 THEN FirstByte
                                        ELSE lg[Len(lg) + 1 - 1].start
                                             + lg[Len(lg) + 1 - 1].len,
                              len |-> len])]
    BY DEF WriteCommand
  <2> QED  BY <2>1, <2>2 DEF Grown
<1>4. mem' = [mem EXCEPT ![c] = Filled(mem[c], lg, len)]
  BY <1>1 DEF WriteCommand, Filled, Place
<1>5. /\ tail' = [tail EXCEPT ![c] = (tail[c] + len) % CursorMod]
      /\ UNCHANGED <<desc, dpc, drainVars, lost, executed>>
  BY DEF WriteCommand, verdicts
<1>6. /\ log'[c] = lg2 /\ mem'[c] = Filled(mem[c], lg, len)
      /\ tail'[c] = (tail[c] + len) % CursorMod
      /\ \A b \in Chans \ {c} : log'[b] = log[b] /\ mem'[b] = mem[b] /\ tail'[b] = tail[b]
      /\ Shape'
  BY <1>2, <1>3, <1>4, <1>5 DEF Shape
<1>7. /\ RingOK(log'[c], mem'[c], desc'[c], tail'[c], executed'[c])
      /\ AckedOf(log'[c], desc'[c].rp) = AckedOf(log[c], desc[c].rp)
      /\ SubmittedOf(log'[c], desc'[c], tail'[c]) = SubmittedOf(log[c], desc[c], tail[c])
  <2>1. /\ Len(log[c]) + 1 <= MaxCmds /\ desc[c].wp = tail[c]
        /\ len <= RingSize - ((tail[c] - desc[c].rp) % CursorMod)
    BY DEF WriteCommand
  <2>2. /\ RingOK(lg2, Filled(mem[c], lg, len), desc[c], (tail[c] + len) % CursorMod, executed[c])
        /\ AckedOf(lg2, desc[c].rp) = AckedOf(lg, desc[c].rp)
        /\ SubmittedOf(lg2, desc[c], (tail[c] + len) % CursorMod)
             = SubmittedOf(lg, desc[c], tail[c])
    BY <1>1, <2>1, RingWrite
  <2> QED  BY <1>5, <1>6, <2>2
<1>8. \A b \in Chans : RingInv(b)' /\ Steady(b)
  <2> SUFFICES ASSUME NEW b \in Chans PROVE RingInv(b)' /\ Steady(b)
    OBVIOUS
  <2>1. CASE b = c
    BY <1>5, <1>7, <2>1, ChannelState DEF RingInv, Steady
  <2>2. CASE b # c
    <3>1. log'[b] = log[b] /\ mem'[b] = mem[b] /\ tail'[b] = tail[b] /\ UNCHANGED <<desc, executed>>
      BY <1>5, <1>6, <2>2
    <3> QED  BY <3>1, ChannelState DEF StreamInv, RingInv, Steady
  <2> QED  BY <2>1, <2>2
<1>9. \A b \in Chans : \A k \in 1 .. Len(log[b]) : log'[b][k] = log[b][k]
  <2>1. \A k \in 1 .. Len(lg) : lg2[k] = lg[k]
    BY <1>1, LogGrows
  <2> QED  BY <1>6, <2>1
<1>10. DrainInv' /\ LostInv'
  <2>1. \A b \in Chans : /\ Acked(b)' = Acked(b) /\ Submitted(b)' \in Nat
                         /\ Submitted(b) <= Submitted(b)'
    BY <1>8, ChannelNumbers DEF Steady
  <2> QED  BY <1>5, <1>9, <2>1, DrainKept
<1> QED  BY <1>6, <1>8, <1>10, StreamStays DEF StreamInv

\* The guest moves its write cursor.
LEMMA PublishStep ==
    ASSUME StreamInv, NEW c \in Chans, PublishCommand(c)
    PROVE  StreamInv' /\ Stream!Next
<1>1. RingOK(log[c], mem[c], desc[c], tail[c], executed[c]) /\ desc[c].wp # tail[c]
      /\ desc[c] = [wp |-> desc[c].wp, rp |-> desc[c].rp] /\ Len(log[c]) <= MaxCmds
  BY ChannelNumbers DEF RingOK, PublishCommand
<1>2. Shape
  BY DEF StreamInv
<1>3. /\ desc' = [desc EXCEPT ![c].wp = tail[c]]
      /\ UNCHANGED <<log, mem, tail, dpc, drainVars, lost, executed>>
  BY DEF PublishCommand, producer, verdicts
<1>4. /\ desc'[c] = [wp |-> tail[c], rp |-> desc[c].rp] /\ Shape'
      /\ \A b \in Chans \ {c} : desc'[b] = desc[b]
  BY <1>1, <1>2, <1>3 DEF Shape
<1>5. /\ RingOK(log[c], mem[c], desc'[c], tail[c], executed[c])
      /\ SubmittedOf(log[c], desc'[c], tail[c]) = SubmittedOf(log[c], desc[c], tail[c]) + 1
  BY <1>1, <1>4, RingPublish
<1>6. \A b \in Chans : RingInv(b)'
  <2> SUFFICES ASSUME NEW b \in Chans PROVE RingInv(b)'
    OBVIOUS
  <2>1. CASE b = c
    BY <1>3, <1>5, <2>1 DEF RingInv
  <2>2. CASE b # c
    BY <1>3, <1>4, <2>2 DEF StreamInv, RingInv
  <2> QED  BY <2>1, <2>2
<1>7. Submitted(c)' = Submitted(c) + 1 /\ Delivered(c)' = Delivered(c) /\ Acked(c)' = Acked(c)
  <2>1. desc'[c].rp = desc[c].rp
    BY <1>4
  <2> QED  BY <1>3, <1>5, <2>1, ChannelState
<1>8. \A b \in Chans \ {c} : Steady(b)
  <2> SUFFICES ASSUME NEW b \in Chans \ {c} PROVE Steady(b)
    OBVIOUS
  <2> QED  BY <1>3, <1>4, ChannelState DEF Steady
<1>9. DrainInv' /\ LostInv'
  <2>1. \A b \in Chans : /\ Acked(b)' = Acked(b) /\ Submitted(b)' \in Nat
                         /\ Submitted(b) <= Submitted(b)'
    <3> SUFFICES ASSUME NEW b \in Chans
                 PROVE  /\ Acked(b)' = Acked(b) /\ Submitted(b)' \in Nat
                        /\ Submitted(b) <= Submitted(b)'
      OBVIOUS
    <3>1. Submitted(b) \in Nat
      BY ChannelNumbers
    <3>2. CASE b = c
      BY <1>7, <3>1, <3>2
    <3>3. CASE b # c
      BY <1>8, <3>1, <3>3 DEF Steady
    <3> QED  BY <3>2, <3>3
  <2> QED  BY <1>3, <2>1, DrainKept
<1>10. Submitted(c) < MaxCmds
  <2>1. Submitted(c) = Len(log[c]) - 1 /\ Len(log[c]) \in Nat
    BY <1>1, ChannelNumbers DEF Submitted
  <2> QED  BY <1>1, <2>1, RingsAssumption
<1> QED  BY <1>4, <1>6, <1>7, <1>8, <1>9, <1>10, StreamMoves DEF StreamInv

\* The doorbell, stamp completion and the stamp page do not touch the rings.
LEMMA OtherStep ==
    ASSUME StreamInv,
           UNCHANGED <<log, mem, desc, tail, executed, dpc, drainVars, lost>>
    PROVE  StreamInv' /\ UNCHANGED Stream!streamVars
<1>1. /\ Shape' /\ (\A c \in Chans : RingInv(c)' /\ Steady(c))
      /\ UNCHANGED Stream!streamVars
  BY RingsKept
<1>2. \A b \in Chans : /\ Acked(b)' = Acked(b) /\ Submitted(b)' \in Nat
                       /\ Submitted(b) <= Submitted(b)'
  BY <1>1, ChannelNumbers DEF Steady
<1>3. DrainInv' /\ LostInv'
  BY <1>2, DrainKept
<1> QED  BY <1>1, <1>3 DEF StreamInv

\* A doorbell starts a drain.
LEMMA DispatchStep ==
    ASSUME StreamInv, NEW c \in Chans, channel_door_dispatch(c)
    PROVE  StreamInv' /\ UNCHANGED Stream!streamVars
<1>1. /\ dpc = "idle" /\ dpc' = "desc" /\ chan' = c /\ cmds' = 0
      /\ UNCHANGED <<log, mem, desc, tail, executed, lost>>
  BY DEF channel_door_dispatch, DrainGoto, producer, verdicts
<1>2. /\ Shape' /\ (\A b \in Chans : RingInv(b)' /\ Steady(b))
      /\ UNCHANGED Stream!streamVars
  BY <1>1, RingsKept
<1>3. DrainInv'
  BY <1>1 DEF DrainInv
<1>4. LostInv'
  BY <1>1, <1>2 DEF StreamInv, LostInv, InDrain, Steady
<1> QED  BY <1>2, <1>3, <1>4 DEF StreamInv

\* The drain copies the cursors: it stands behind the acknowledged command.
LEMMA DescriptorStep ==
    ASSUME StreamInv, lagfx_ring_fifo_descriptor_read
    PROVE  StreamInv' /\ UNCHANGED Stream!streamVars
<1>1. /\ dpc = "desc" /\ cmds = 0 /\ chan \in Chans
      /\ UNCHANGED <<log, mem, desc, tail, executed, lost, chan, cmds>>
  BY DEF lagfx_ring_fifo_descriptor_read, producer, StreamInv, DrainInv
<1>2. \/ dpc' = "idle"
      \/ dpc' = "header" /\ write_ptr' = desc[chan].wp /\ rp' = desc[chan].rp
  BY DEF lagfx_ring_fifo_descriptor_read, DrainGoto
<1>3. /\ Shape' /\ (\A b \in Chans : RingInv(b)' /\ Steady(b))
      /\ UNCHANGED Stream!streamVars
  BY <1>1, RingsKept
<1>4. DrainInv'
  <2>1. CASE dpc' = "idle"
    BY <1>1, <2>1 DEF DrainInv
  <2>2. CASE dpc' = "header" /\ write_ptr' = desc[chan].wp /\ rp' = desc[chan].rp
    <3>1. Reached' = Acked(chan)
      BY <1>1, <1>3 DEF Reached, Steady
    <3>2. RingOK(log[chan], mem[chan], desc[chan], tail[chan], executed[chan])
      BY <1>1, ChannelNumbers
    <3>3. /\ Acked(chan) \in Nat /\ Submitted(chan) \in Nat /\ Acked(chan) <= Submitted(chan)
          /\ Acked(chan) = AckedOf(log[chan], desc[chan].rp)
          /\ Submitted(chan) = SubmittedOf(log[chan], desc[chan], tail[chan])
      BY <1>1, ChannelNumbers, ChannelState
    <3>4. /\ desc[chan].rp = Pos(log[chan], Acked(chan)) % CursorMod
          /\ desc[chan].wp = Pos(log[chan], Submitted(chan)) % CursorMod
      BY <3>2, <3>3 DEF RingOK, Stands
    <3>5. /\ Acked(chan) \in Acked(chan) .. Submitted(chan)
          /\ Submitted(chan) \in Acked(chan) .. Submitted(chan)
      BY <3>3
    <3>6. AtOK(log[chan], desc[chan], tail[chan], desc[chan].rp, desc[chan].wp, Acked(chan))
      BY <3>3, <3>4, <3>5 DEF AtOK
    <3>7. At(Reached)'
      BY <1>1, <2>2, <3>1, <3>6 DEF At
    <3> QED  BY <1>1, <2>2, <3>7 DEF StreamInv, DrainInv
  <2> QED  BY <1>2, <2>1, <2>2
<1>5. LostInv'
  BY <1>1, <1>2, <1>3 DEF StreamInv, LostInv, InDrain, Steady
<1> QED  BY <1>3, <1>4, <1>5 DEF StreamInv

\* The header the drain reads is that of the next command.
LEMMA HeaderStep ==
    ASSUME StreamInv, read_header
    PROVE  StreamInv' /\ UNCHANGED Stream!streamVars
<1>1. /\ dpc = "header" /\ chan \in Chans /\ At(Reached)
      /\ UNCHANGED <<log, mem, desc, tail, executed, lost, chan, write_ptr, rp, cmds>>
  BY DEF read_header, producer, StreamInv, DrainInv
<1>2. PICK hdr \in Decoded(chan, lagfx_ring_read_bytes(chan, rp, Hdr)) :
         \/ dpc' = "publish"
         \/ dpc' = "body" /\ rp # write_ptr /\ cmd' = hdr
  BY DEF read_header, DrainGoto
<1>3. /\ Shape' /\ (\A b \in Chans : RingInv(b)' /\ Steady(b))
      /\ UNCHANGED Stream!streamVars
  BY <1>1, RingsKept
<1>4. Reached' = Reached
  BY <1>1, <1>3 DEF Reached, Steady
<1>5. At(Reached)'
  BY <1>1, <1>4 DEF At
<1>6. ASSUME rp # write_ptr
      PROVE  hdr.index = Reached + 1 /\ hdr.length = log[chan][Reached + 1].len
  <2> DEFINE i == Reached + 1
             bytes == lagfx_ring_read_bytes(chan, rp, Hdr)
  <2>1. /\ RingOK(log[chan], mem[chan], desc[chan], tail[chan], executed[chan])
        /\ AtOK(log[chan], desc[chan], tail[chan], rp, write_ptr, Reached)
    BY <1>1, ChannelNumbers DEF At
  <2>2. /\ Reached \in Nat /\ log[chan][i].len \in Lens
        /\ \A k \in 0 .. (log[chan][i].len - 1) :
              mem[chan][lagfx_ring_resolve_data_gpa(rp + k)] = <<i, k>>
    BY <1>6, <2>1, RingRead
  <2>3. log[chan][i].len \in Nat /\ log[chan][i].len >= Hdr /\ Hdr \in Nat \ {0}
    BY <2>2, LengthsNat, RingsAssumption
  <2> HIDE DEF i
  <2>4. \A k \in 0 .. (Hdr - 1) : k \in 0 .. (log[chan][i].len - 1)
    BY <2>3
  <2>5. DOMAIN bytes = 0 .. (Hdr - 1) /\ \A k \in 0 .. (Hdr - 1) : bytes[k] = <<i, k>>
    BY <2>2, <2>4 DEF lagfx_ring_read_bytes
  <2> HIDE DEF bytes
  <2>6. 0 \in 0 .. (Hdr - 1) /\ i # 0
    BY <2>2, <2>3 DEF i
  <2>7. bytes[0][1] = i /\ Intact(bytes, i)
    BY <2>5, <2>6 DEF Intact
  <2>8. Decoded(chan, bytes) = {[index |-> i, length |-> log[chan][i].len]}
    BY <2>6, <2>7 DEF Decoded
  <2>9. hdr = [index |-> i, length |-> log[chan][i].len]
    BY <2>8 DEF bytes
  <2> QED  BY <2>9 DEF i
<1>7. DrainInv'
  <2>1. CASE dpc' = "publish"
    BY <1>1, <1>5, <2>1 DEF StreamInv, DrainInv
  <2>2. CASE dpc' = "body" /\ rp # write_ptr /\ cmd' = hdr
    <3>1. cmd'.index = Reached' + 1 /\ cmd'.length = log'[chan'][Reached' + 1].len
      BY <1>1, <1>4, <1>6, <2>2
    <3> QED  BY <1>1, <1>5, <2>2, <3>1 DEF StreamInv, DrainInv
  <2> QED  BY <1>2, <2>1, <2>2
<1>8. LostInv'
  BY <1>1, <1>2, <1>3 DEF StreamInv, LostInv, InDrain, Steady
<1> QED  BY <1>3, <1>7, <1>8 DEF StreamInv

\* Without a lost publication the dispatch counter is the number of dispatches, and
\* a drain stands behind the last command dispatched.
LEMMA InStep ==
    ASSUME StreamInv, lost = 0, NEW c \in Chans
    PROVE  /\ Delivered(c) = Len(executed[c]) /\ executed[c] \in Seq(Nat)
           /\ c = chan /\ dpc \in {"header", "body", "publish"} => Reached = Delivered(c)
<1>1. executed[c] \in Seq(Nat) /\ \A k \in 1 .. Len(executed[c]) : executed[c][k] = k
  BY ChannelNumbers DEF RingOK, StreamInv, LostInv
<1>2. Delivered(c) = Len(executed[c])
  <2>1. CASE executed[c] = <<>>
    BY <2>1 DEF Delivered
  <2>2. CASE executed[c] # <<>>
    <3>1. Len(executed[c]) \in 1 .. Len(executed[c])
      BY <1>1, <2>2
    <3> QED  BY <1>1, <2>2, <3>1 DEF Delivered
  <2> QED  BY <2>1, <2>2
<1>3. ASSUME c = chan, dpc \in {"header", "body", "publish"} PROVE Reached = Delivered(c)
  <2>1. CASE cmds = 0
    <3>1. ~InDrain(c)
      BY <1>3, <2>1 DEF InDrain
    <3> QED  BY <1>3, <2>1, <3>1 DEF StreamInv, LostInv, Reached
  <2>2. CASE cmds # 0
    BY <1>3, <2>2 DEF Reached
  <2> QED  BY <2>1, <2>2
<1> QED  BY <1>1, <1>2, <1>3

\* The body is read intact and dispatched, or the drain gives up.
LEMMA BodyStep ==
    ASSUME StreamInv, read_body_and_dispatch
    PROVE  StreamInv' /\ [Stream!Next]_(Stream!streamVars)
<1>1. /\ dpc = "body" /\ chan \in Chans /\ At(Reached) /\ rp # write_ptr
      /\ cmd.index = Reached + 1 /\ cmd.length = log[chan][Reached + 1].len
      /\ UNCHANGED <<log, mem, desc, tail, lost, chan, write_ptr, rp, cmds, cmd>>
  BY DEF read_body_and_dispatch, producer, drainVars, StreamInv, DrainInv
<1>2. CASE dpc' = "publish" /\ UNCHANGED executed
  <2>1. /\ Shape' /\ (\A b \in Chans : RingInv(b)' /\ Steady(b))
        /\ UNCHANGED Stream!streamVars
    BY <1>1, <1>2, RingsKept
  <2>2. Reached' = Reached
    BY <1>1, <2>1 DEF Reached, Steady
  <2>3. DrainInv'
    BY <1>1, <1>2, <2>2 DEF StreamInv, DrainInv, At
  <2>4. LostInv'
    BY <1>1, <1>2, <2>1 DEF StreamInv, LostInv, InDrain, Steady
  <2> QED  BY <2>1, <2>3, <2>4 DEF StreamInv
<1>3. CASE /\ dpc' \in {"exec", "complete"}
           /\ executed' = [executed EXCEPT ![chan] =
                 Append(@, IF Intact(lagfx_ring_read_bytes(chan, rp, cmd.length), cmd.index)
                           THEN cmd.index ELSE 0)]
  <2> DEFINE i == Reached + 1
  <2>1. /\ RingOK(log[chan], mem[chan], desc[chan], tail[chan], executed[chan])
        /\ AtOK(log[chan], desc[chan], tail[chan], rp, write_ptr, Reached)
    BY <1>1, ChannelNumbers DEF At
  <2>2. /\ Reached \in Nat
        /\ i \in (AckedOf(log[chan], desc[chan].rp) + 1)
                   .. SubmittedOf(log[chan], desc[chan], tail[chan])
        /\ \A k \in 0 .. (log[chan][i].len - 1) :
              mem[chan][lagfx_ring_resolve_data_gpa(rp + k)] = <<i, k>>
    BY <1>1, <2>1, RingRead
  <2>3. i \in (Acked(chan) + 1) .. Submitted(chan)
    BY <2>2, ChannelState
  <2>4. Intact(lagfx_ring_read_bytes(chan, rp, cmd.length), cmd.index)
    BY <1>1, <2>2 DEF Intact, lagfx_ring_read_bytes
  <2>5. executed' = [executed EXCEPT ![chan] = Append(executed[chan], i)]
    BY <1>1, <1>3, <2>4
  <2> HIDE DEF i
  <2>6. /\ Shape' /\ executed'[chan] = Append(executed[chan], i)
        /\ \A b \in Chans \ {chan} : executed'[b] = executed[b]
    BY <1>1, <2>5 DEF StreamInv, Shape
  <2>7. /\ RingOK(log[chan], mem[chan], desc[chan], tail[chan], executed'[chan])
        /\ DeliveredOf(executed'[chan]) = i
    BY <2>1, <2>2, <2>6, RingDeliver DEF i
  <2>8. \A b \in Chans : RingInv(b)'
    <3> SUFFICES ASSUME NEW b \in Chans PROVE RingInv(b)'
      OBVIOUS
    <3>1. CASE b = chan
      BY <1>1, <2>7, <3>1 DEF RingInv
    <3>2. CASE b # chan
      BY <1>1, <2>6, <3>2 DEF StreamInv, RingInv
    <3> QED  BY <3>1, <3>2
  <2>9. /\ Delivered(chan)' = i /\ Submitted(chan)' = Submitted(chan)
        /\ Acked(chan)' = Acked(chan)
    BY <1>1, <2>7, ChannelState
  <2>10. \A b \in Chans \ {chan} : Steady(b)
    <3> SUFFICES ASSUME NEW b \in Chans \ {chan} PROVE Steady(b)
      OBVIOUS
    <3> QED  BY <1>1, <2>6, ChannelState DEF Steady
  <2>11. DrainInv'
    <3>1. i - 1 = Reached /\ i \in Nat
      BY <2>2 DEF i
    <3>2. AtOK(log'[chan'], desc'[chan'], tail'[chan'], rp', write_ptr', i - 1)
      BY <1>1, <2>1, <3>1
    <3>3. At(Delivered(chan) - 1)'
      BY <1>1, <2>9, <3>2 DEF At
    <3>4. /\ cmd'.index = Delivered(chan)'
          /\ cmd'.length = log'[chan'][Delivered(chan)'].len
      BY <1>1, <2>9 DEF i
    <3> QED  BY <1>1, <1>3, <3>3, <3>4 DEF StreamInv, DrainInv
  <2>12. LostInv'
    <3>1. lost' \in Nat /\ (lost' > 0 => "publish" \in Faults)
      BY <1>1 DEF StreamInv, LostInv
    <3>2. ASSUME lost = 0, NEW b \in Chans
          PROVE  /\ \A k \in 1 .. Len(executed'[b]) : executed'[b][k] = k
                 /\ ~InDrain(b)' => Delivered(b)' = Acked(b)'
      <4>1. CASE b = chan
        <5>1. /\ executed[b] \in Seq(Nat) /\ i = Len(executed[b]) + 1 /\ i \in Nat
              /\ \A k \in 1 .. Len(executed[b]) : executed[b][k] = k
          BY <1>1, <2>2, <3>2, <4>1, InStep DEF i, StreamInv, LostInv
        <5>2. \A k \in 1 .. Len(executed'[b]) : executed'[b][k] = k
          BY <2>6, <4>1, <5>1
        <5>3. InDrain(b)'
          BY <1>1, <1>3, <4>1 DEF InDrain
        <5> QED  BY <5>2, <5>3
      <4>2. CASE b # chan
        <5>1. ~InDrain(b)
          BY <4>2 DEF InDrain
        <5> QED  BY <2>6, <2>10, <3>2, <4>2, <5>1 DEF StreamInv, LostInv, Steady
      <4> QED  BY <4>1, <4>2
    <3> QED  BY <1>1, <3>1, <3>2 DEF LostInv
  <2>13. Stream!Next
    <3>1. Acked(chan) \in Nat /\ Delivered(chan) \in Nat /\ Submitted(chan) \in Nat
          /\ Acked(chan) <= Delivered(chan)
      BY <1>1, ChannelNumbers
    <3>2. CASE i = Delivered(chan) + 1
      <4>1. Delivered(chan) < Submitted(chan)
        BY <2>3, <3>1, <3>2
      <4> QED  BY <1>1, <2>9, <2>10, <3>2, <4>1, StreamMoves
    <3>3. CASE i # Delivered(chan) + 1
      <4>1. i = Acked(chan) + 1
        BY <3>3 DEF Reached, i
      <4>2. Acked(chan) < Delivered(chan)
        BY <3>1, <3>3, <4>1
      <4>3. "publish" \in Faults
        <5>1. lost # 0
          BY <1>1, <3>3, InStep DEF i
        <5> QED  BY <5>1 DEF StreamInv, LostInv
      <4> QED  BY <1>1, <2>9, <2>10, <4>1, <4>2, <4>3, StreamMoves
    <3> QED  BY <3>2, <3>3
  <2> QED  BY <2>6, <2>8, <2>11, <2>12, <2>13 DEF StreamInv
<1> QED  BY <1>2, <1>3 DEF read_body_and_dispatch, DrainGoto

\* CmdExecIndirect2 returns to the drain.
LEMMA ExecStep ==
    ASSUME StreamInv, complete_after_exec
    PROVE  StreamInv' /\ UNCHANGED Stream!streamVars
<1>1. /\ dpc = "exec" /\ dpc' = "complete"
      /\ UNCHANGED <<log, mem, desc, tail, executed, lost, chan, write_ptr, rp, cmds, cmd>>
  BY DEF complete_after_exec, DrainGoto, producer, drainVars, verdicts
<1>2. /\ Shape' /\ (\A b \in Chans : RingInv(b)' /\ Steady(b))
      /\ UNCHANGED Stream!streamVars
  BY <1>1, RingsKept
<1>3. Delivered(chan)' = Delivered(chan)
  BY <1>1 DEF Delivered
<1>4. DrainInv'
  BY <1>1, <1>3 DEF StreamInv, DrainInv, At
<1>5. LostInv'
  BY <1>1, <1>2 DEF StreamInv, LostInv, InDrain, Steady
<1> QED  BY <1>2, <1>4, <1>5 DEF StreamInv

\* The drain goes on behind the command it dispatched.
LEMMA AdvanceStep ==
    ASSUME StreamInv, advance_read_ptr
    PROVE  StreamInv' /\ UNCHANGED Stream!streamVars
<1>1. /\ dpc = "complete" /\ dpc' = "header" /\ chan \in Chans /\ rp # write_ptr
      /\ At(Delivered(chan) - 1) /\ cmd.length = log[chan][Delivered(chan)].len
      /\ rp' = (rp + cmd.length) % CursorMod /\ cmds \in Nat /\ cmds' = cmds + 1
      /\ UNCHANGED <<log, mem, desc, tail, executed, lost, chan, write_ptr, cmd>>
  BY DEF advance_read_ptr, AdvanceTo, DrainGoto, producer, verdicts, StreamInv, DrainInv
<1>2. /\ Shape' /\ (\A b \in Chans : RingInv(b)' /\ Steady(b))
      /\ UNCHANGED Stream!streamVars
  BY <1>1, RingsKept
<1>3. Reached' = Delivered(chan) /\ cmds' > 0
  BY <1>1, <1>2 DEF Reached, Steady
<1>4. At(Reached)'
  <2> DEFINE n == Delivered(chan) - 1
  <2>1. n + 1 = Delivered(chan)
    BY <1>1, ChannelNumbers
  <2>2. /\ RingOK(log[chan], mem[chan], desc[chan], tail[chan], executed[chan])
        /\ AtOK(log[chan], desc[chan], tail[chan], rp, write_ptr, n)
    BY <1>1, ChannelNumbers DEF At
  <2>3. AtOK(log[chan], desc[chan], tail[chan],
             (rp + log[chan][n + 1].len) % CursorMod, write_ptr, n + 1)
    BY <1>1, <2>2, RingRead
  <2>4. AtOK(log[chan], desc[chan], tail[chan], rp', write_ptr, Delivered(chan))
    BY <1>1, <2>1, <2>3
  <2> QED  BY <1>1, <1>3, <2>4 DEF At
<1>5. DrainInv'
  BY <1>1, <1>4 DEF DrainInv
<1>6. LostInv'
  BY <1>1, <1>2, <1>3 DEF StreamInv, LostInv, InDrain, Steady
<1> QED  BY <1>2, <1>5, <1>6 DEF StreamInv

\* The drain publishes its cursor, or the publication is lost.
LEMMA AcknowledgeStep ==
    ASSUME StreamInv, lagfx_ring_publish_read_ptr
    PROVE  StreamInv' /\ [Stream!Next]_(Stream!streamVars)
<1>1. /\ dpc = "publish" /\ dpc' = "idle" /\ chan \in Chans /\ At(Reached)
      /\ UNCHANGED <<log, mem, tail, executed, chan, cmds>>
  BY DEF lagfx_ring_publish_read_ptr, DrainGoto, producer, drainVars, StreamInv, DrainInv
<1>2. DrainInv'
  BY <1>1 DEF StreamInv, DrainInv
<1>3. CASE UNCHANGED desc /\ "publish" \in Faults /\ lost' = lost + 1
  <2>1. /\ Shape' /\ (\A b \in Chans : RingInv(b)') /\ UNCHANGED Stream!streamVars
    BY <1>1, <1>3, RingsKept
  <2>2. LostInv'
    BY <1>3 DEF StreamInv, LostInv
  <2> QED  BY <1>2, <2>1, <2>2 DEF StreamInv
<1>4. CASE desc' = [desc EXCEPT ![chan].rp = rp] /\ UNCHANGED lost
  <2>1. /\ RingOK(log[chan], mem[chan], desc[chan], tail[chan], executed[chan])
        /\ desc[chan] = [wp |-> desc[chan].wp, rp |-> desc[chan].rp]
    BY <1>1, ChannelNumbers DEF RingOK
  <2>2. Reached \in Acked(chan) .. Delivered(chan) /\ rp = Pos(log[chan], Reached) % CursorMod
    <3>1. /\ Acked(chan) \in Nat /\ Delivered(chan) \in Nat /\ Acked(chan) <= Delivered(chan)
          /\ (Reached = Acked(chan) \/ Reached = Delivered(chan))
      BY <1>1, ChannelNumbers DEF Reached
    <3> QED  BY <1>1, <3>1 DEF At, AtOK
  <2>3. /\ desc'[chan] = [wp |-> desc[chan].wp, rp |-> rp] /\ Shape'
        /\ \A b \in Chans \ {chan} : desc'[b] = desc[b]
    BY <1>1, <1>4, <2>1 DEF StreamInv, Shape
  <2>4. /\ RingOK(log[chan], mem[chan], desc'[chan], tail[chan], executed[chan])
        /\ AckedOf(log[chan], desc'[chan].rp) = Reached
        /\ SubmittedOf(log[chan], desc'[chan], tail[chan])
             = SubmittedOf(log[chan], desc[chan], tail[chan])
    BY <2>1, <2>2, <2>3, RingAck, ChannelState
  <2>5. \A b \in Chans : RingInv(b)'
    <3> SUFFICES ASSUME NEW b \in Chans PROVE RingInv(b)'
      OBVIOUS
    <3>1. CASE b = chan
      BY <1>1, <2>4, <3>1 DEF RingInv
    <3>2. CASE b # chan
      BY <1>1, <2>3, <3>2 DEF StreamInv, RingInv
    <3> QED  BY <3>1, <3>2
  <2>6. /\ Acked(chan)' = Reached /\ Submitted(chan)' = Submitted(chan)
        /\ Delivered(chan)' = Delivered(chan)
    BY <1>1, <2>4, ChannelState
  <2>7. \A b \in Chans \ {chan} : Steady(b)
    <3> SUFFICES ASSUME NEW b \in Chans \ {chan} PROVE Steady(b)
      OBVIOUS
    <3> QED  BY <1>1, <2>3, ChannelState DEF Steady
  <2>8. LostInv'
    <3>1. lost' \in Nat /\ (lost' > 0 => "publish" \in Faults)
      BY <1>4 DEF StreamInv, LostInv
    <3>2. ASSUME lost = 0, NEW b \in Chans
          PROVE  /\ \A k \in 1 .. Len(executed'[b]) : executed'[b][k] = k
                 /\ Delivered(b)' = Acked(b)'
      <4>1. \A k \in 1 .. Len(executed'[b]) : executed'[b][k] = k
        BY <1>1, <3>2 DEF StreamInv, LostInv
      <4>2. CASE b = chan
        BY <1>1, <2>6, <3>2, <4>1, <4>2, InStep
      <4>3. CASE b # chan
        <5>1. ~InDrain(b)
          BY <4>3 DEF InDrain
        <5> QED  BY <2>7, <3>2, <4>1, <4>3, <5>1 DEF StreamInv, LostInv, Steady
      <4> QED  BY <4>2, <4>3
    <3> QED  BY <1>4, <3>1, <3>2 DEF LostInv
  <2>9. [Stream!Next]_(Stream!streamVars)
    <3>1. CASE Reached = Delivered(chan)
      BY <1>1, <2>6, <2>7, <3>1, StreamMoves
    <3>2. CASE Reached # Delivered(chan)
      <4>1. Reached = Acked(chan)
        BY <3>2 DEF Reached
      <4>2. Steady(chan)
        BY <2>6, <4>1 DEF Steady
      <4> QED  BY <2>7, <4>2, StreamStays
    <3> QED  BY <3>1, <3>2
  <2> QED  BY <1>2, <2>3, <2>5, <2>8, <2>9 DEF StreamInv
<1> QED  BY <1>3, <1>4 DEF lagfx_ring_publish_read_ptr

-----------------------------------------------------------------------------
(* The theorems. *)

\* An idle ring is empty and stands at its first byte.
LEMMA StreamInit == Init => StreamInv /\ Stream!Init
<1> SUFFICES ASSUME Init PROVE StreamInv /\ Stream!Init
  OBVIOUS
<1>1. /\ log = [c \in Chans |-> <<>>] /\ executed = [c \in Chans |-> <<>>]
      /\ mem = [c \in Chans |-> [a \in 0 .. (PhysSize - 1) |-> Empty]]
      /\ desc = [c \in Chans |-> [wp |-> FirstByte, rp |-> FirstByte]]
      /\ tail = [c \in Chans |-> FirstByte]
      /\ dpc = "idle" /\ chan \in Chans /\ cmds = 0 /\ lost = 0
  BY DEF Init
<1>2. LogOK(<<>>) /\ Pos(<<>>, 0) = FirstByte
  BY DEF LogOK, Pos
<1>3. FirstByte % CursorMod = FirstByte
  <2>1. FirstByte \in Int /\ FirstByte \in 0 .. (CursorMod - 1) /\ FirstByte = 0 * CursorMod + FirstByte
    BY RingsAssumption
  <2> QED  BY <2>1, CursorModNat, Remainder
<1>4. Stands(<<>>, FirstByte, 0)
  BY <1>2, <1>3, CursorModNat, RingsAssumption DEF Stands
<1>5. AckedOf(<<>>, FirstByte) = 0
  BY <1>2, <1>4, AckedIs
<1>6. ASSUME NEW c \in Chans
      PROVE  RingInv(c) /\ Acked(c) = 0 /\ Submitted(c) = 0 /\ Delivered(c) = 0
  <2>1. /\ log[c] = <<>> /\ executed[c] = <<>> /\ tail[c] = FirstByte
        /\ desc[c] = [wp |-> FirstByte, rp |-> FirstByte]
        /\ desc[c].wp = FirstByte /\ desc[c].rp = FirstByte
        /\ mem[c] = [a \in 0 .. (PhysSize - 1) |-> Empty]
    BY <1>1
  <2>2. MemShape(mem[c])
    BY <2>1 DEF MemShape
  <2>3. SubmittedOf(log[c], desc[c], tail[c]) = 0 /\ DeliveredOf(executed[c]) = 0
    BY <2>1 DEF SubmittedOf, DeliveredOf
  <2>4. Stored(mem[c], <<>>, 0)
    BY DEF Stored
  <2>5. Len(<<>>) = 0 /\ 0 <= MaxCmds /\ <<>> \in Seq(Nat)
    BY RingsAssumption
  <2>6. RingInv(c)
    BY <1>2, <1>3, <1>4, <1>5, <2>1, <2>2, <2>3, <2>4, <2>5 DEF RingInv, RingOK
  <2> QED  BY <1>5, <2>1, <2>3, <2>6, ChannelState
<1>7. Shape
  BY <1>1 DEF Shape
<1>8. DrainInv
  BY <1>1 DEF DrainInv
<1>9. LostInv
  BY <1>1, <1>6 DEF LostInv
<1>10. Stream!Init
  BY <1>6 DEF Stream!Init
<1> QED  BY <1>6, <1>7, <1>8, <1>9, <1>10 DEF StreamInv

\* Every step keeps the invariant and is a step of the streams, or leaves them alone.
LEMMA StreamStep ==
    ASSUME StreamInv, [Next]_vars
    PROVE  StreamInv' /\ [Stream!Next]_(Stream!streamVars)
<1>1. ASSUME NEW c \in Chans, NEW len \in Lens, WriteCommand(c, len)
      PROVE  StreamInv' /\ [Stream!Next]_(Stream!streamVars)
  BY <1>1, WriteStep
<1>2. ASSUME NEW c \in Chans, PublishCommand(c)
      PROVE  StreamInv' /\ [Stream!Next]_(Stream!streamVars)
  BY <1>2, PublishStep
<1>3. ASSUME NEW c \in Chans, RingDoorbell(c)
      PROVE  StreamInv' /\ [Stream!Next]_(Stream!streamVars)
  BY <1>3, OtherStep DEF RingDoorbell, producer, verdicts
<1>4. ASSUME NEW c \in Chans, channel_door_dispatch(c)
      PROVE  StreamInv' /\ [Stream!Next]_(Stream!streamVars)
  BY <1>4, DispatchStep
<1>5. CASE Drain
  BY <1>5, DescriptorStep, HeaderStep, BodyStep, ExecStep, AdvanceStep, AcknowledgeStep
     DEF Drain
<1>6. CASE CompleteStamp
  BY <1>6, OtherStep DEF CompleteStamp, ringVars, drainVars
<1>7. CASE StampPage
  BY <1>7, OtherStep DEF StampPage, ringVars, drainVars
<1>8. CASE UNCHANGED vars
  BY <1>8, OtherStep DEF vars, ringVars, drainVars
<1> QED  BY <1>1, <1>2, <1>3, <1>4, <1>5, <1>6, <1>7, <1>8 DEF Next

\* What the rings keep: every command the guest has not seen consumed lies intact in
\* guest memory, and the cursors of guest, descriptor and drain stand for commands.
THEOREM RingsSound == Spec => []StreamInv
<1>1. Init => StreamInv
  BY StreamInit
<1>2. StreamInv /\ [Next]_vars => StreamInv'
  BY StreamStep
<1> QED  BY <1>1, <1>2, PTL DEF Spec

\* ExactlyOnce for every ring size, page table, command length and first cursor: as
\* long as no publication of read_ptr is lost, the n-th dispatch on a channel is its
\* n-th command, read back as the guest wrote it.
THEOREM ExactlyOnceAlways == Spec => []ExactlyOnce
<1>1. StreamInv => ExactlyOnce
  <2> SUFFICES ASSUME StreamInv, lost = 0, NEW c \in Chans, NEW k \in DOMAIN executed[c]
               PROVE  executed[c][k] = k
    BY DEF ExactlyOnce
  <2>1. executed[c] \in Seq(Nat)
    BY InStep
  <2>2. k \in 1 .. Len(executed[c])
    BY <2>1
  <2> QED  BY <2>2 DEF StreamInv, LostInv
<1> QED  BY <1>1, RingsSound, PTL

\* ImplementsStream: every channel is a command stream, in order and without gaps,
\* with redelivery from the published read_ptr only after a lost publication.
THEOREM RingsImplementStream == Spec => ImplementsStream
<1>1. Init => Stream!Init
  BY StreamInit
<1>2. StreamInv /\ [Next]_vars => [Stream!Next]_(Stream!streamVars)
  BY StreamStep
<1> QED  BY <1>1, <1>2, RingsSound, PTL DEF Spec, ImplementsStream, Stream!Spec
=============================================================================
