-------------------------- MODULE TaskMemoryProofs --------------------------
(***************************************************************************)
(* For any size of the reservation, any host memory, any failing system    *)
(* calls and any mappings of other threads: a task's range stays its own   *)
(* between calls, and a call keeps to the range it is given.               *)
(***************************************************************************)
EXTENDS TaskMemory, SequenceTheorems, TLAPS

\* What the proofs need of the types.
Tables ==
    /\ at \in [Space -> Mapping]
    /\ call \in [off : Space, host : Int, len : 0 .. MaxLen, ro : BOOLEAN]
    /\ todo \in Seq([host : Int, len : 0 .. MaxLen])

\* The steps of a map that passed the checks.
Working == {"munmap", "mremap", "mprotect", "restore", "memfd", "copy"}

InBounds ==
    /\ pc # "idle" => live
    /\ pc \in Working => u64(call.off + call.len) <= Size

\* What the call has put in its range when it comes to change the protection.
Placed ==
    /\ pc = "mprotect" => \A p \in Span : at[p].kind = "alias"
    /\ pc = "copy" => \A p \in Span : at[p].kind = "memfd"

\* A page of the memfd backs the page of the range with its number, if any.
OwnPage ==
    \A p \in Space : at[p].kind = "memfd" => at[p].page = p /\ p \in Pages

\* ReservationHeld, with the hole a call has made and not yet filled.
Holes ==
    live => \A p \in Pages :
               at[p].kind \in Gone =>
                   p \in punctured \/ (pc \in {"mremap", "restore"} /\ p \in Span)

MemoryInv == Tables /\ InBounds /\ Placed /\ OwnPage /\ Holes

\* The three ways a step changes the table, page by page.
LEMMA FillFacts ==
    ASSUME at \in [Space -> Mapping], NEW S, NEW m \in Mapping, at' = Fill(S, m)
    PROVE  /\ at' \in [Space -> Mapping]
           /\ \A p \in Space : p \in S => at'[p] = m
           /\ \A p \in Space : p \notin S => at'[p] = at[p]
BY DEF Fill

LEMMA PlaceFacts ==
    ASSUME at \in [Space -> Mapping], NEW k \in Kinds, NEW first,
           \A p \in Span : first + Index(p, call.off) \in Nat,
           at' = Place(k, first)
    PROVE  /\ at' \in [Space -> Mapping]
           /\ \A p \in Span : /\ at'[p].kind = k
                              /\ at'[p].page = first + Index(p, call.off)
           /\ \A p \in Space : p \notin Span => at'[p] = at[p]
<1>1. \A p \in Span :
         [kind |-> k, page |-> first + Index(p, call.off), rw |-> TRUE] \in Mapping
  BY DEF Mapping
<1>2. \A p \in Space : p \notin Span => at'[p] = at[p]
  BY DEF Place
<1>3. \A p \in Span :
         at'[p] = [kind |-> k, page |-> first + Index(p, call.off), rw |-> TRUE]
  BY DEF Place, Span, Run
<1>4. at' \in [Space -> Mapping]
  BY <1>1 DEF Place
<1>5. ASSUME NEW p \in Span
      PROVE  at'[p].kind = k /\ at'[p].page = first + Index(p, call.off)
  <2>1. at'[p] = [kind |-> k, page |-> first + Index(p, call.off), rw |-> TRUE]
    BY <1>3
  <2> QED  BY <2>1
<1> QED  BY <1>2, <1>4, <1>5

LEMMA ProtectFacts ==
    ASSUME at \in [Space -> Mapping], call.ro \in BOOLEAN, at' = Protect
    PROVE  /\ at' \in [Space -> Mapping]
           /\ \A p \in Space : /\ at'[p].kind = at[p].kind
                                   /\ at'[p].page = at[p].page
           /\ \A p \in Space : p \notin Span => at'[p] = at[p]
<1>1. \A p \in Space :
         /\ [at[p] EXCEPT !.rw = ~call.ro] \in Mapping
         /\ [at[p] EXCEPT !.rw = ~call.ro].kind = at[p].kind
         /\ [at[p] EXCEPT !.rw = ~call.ro].page = at[p].page
  BY DEF Mapping
<1> QED  BY <1>1 DEF Protect

LEMMA PlainMapping == \A k \in Kinds : Plain(k) \in Mapping /\ Plain(k).kind = k
BY DEF Plain, Mapping

LEMMA CreateStep ==
    ASSUME MemoryInv, lagfx_task_create PROVE MemoryInv'
<1>1. /\ pc = "idle" /\ pc' = "idle" /\ live'
      /\ UNCHANGED <<call, todo>>
  BY DEF MemoryInv, InBounds, lagfx_task_create
<1>2. Other \in Mapping /\ Reserved \in Mapping
  BY PlainMapping DEF Other, Reserved, Kinds
<1>3. Other.kind = "other" /\ Reserved.kind = "reserved"
  BY PlainMapping DEF Other, Reserved, Kinds
<1>4. at' \in [Space -> Mapping]
  BY <1>2 DEF lagfx_task_create
<1>5. \A p \in Space : at'[p].kind # "memfd"
  BY <1>3 DEF lagfx_task_create
<1>6. \A p \in Pages : at'[p].kind = "reserved"
  BY <1>3, MemoryAssumption DEF lagfx_task_create, Pages, Space, Wrap
<1>7. Tables' /\ InBounds' /\ Placed' /\ OwnPage'
  BY <1>1, <1>4, <1>5 DEF MemoryInv, Tables, InBounds, Placed, OwnPage, Working
<1>8. Holes'
  BY <1>6 DEF Holes, Gone
<1> QED  BY <1>7, <1>8 DEF MemoryInv

LEMMA DestroyStep ==
    ASSUME MemoryInv, lagfx_task_destroy PROVE MemoryInv'
<1>1. /\ pc = "idle" /\ pc' = "idle" /\ ~live'
      /\ UNCHANGED <<call, todo>>
  BY DEF lagfx_task_destroy
<1>2. Free \in Mapping /\ Free.kind = "free"
  BY PlainMapping DEF Free, Kinds
<1>3. /\ at' \in [Space -> Mapping]
      /\ \A p \in Space : p \in Pages => at'[p] = Free
      /\ \A p \in Space : p \notin Pages => at'[p] = at[p]
  BY <1>2, FillFacts DEF MemoryInv, Tables, lagfx_task_destroy
<1>4. Tables' /\ InBounds' /\ Placed' /\ Holes'
  BY <1>1, <1>3 DEF MemoryInv, Tables, InBounds, Placed, Holes, Working
<1>5. OwnPage'
  BY <1>2, <1>3 DEF MemoryInv, OwnPage
<1> QED  BY <1>4, <1>5 DEF MemoryInv

LEMMA UnmapStep ==
    ASSUME MemoryInv, NEW off, NEW len, lagfx_task_unmap(off, len) PROVE MemoryInv'
<1> DEFINE S == Run(off, len)
<1>1. /\ pc = "idle" /\ pc' = "idle" /\ live /\ live'
      /\ punctured' = punctured \ S
      /\ UNCHANGED <<call, todo>>
  BY DEF lagfx_task_unmap
<1>2. Reserved \in Mapping /\ Reserved.kind = "reserved"
  BY PlainMapping DEF Reserved, Kinds
<1>3. at' = Fill(S, Reserved)
  BY DEF lagfx_task_unmap
<1> HIDE DEF S
<1>4. /\ at' \in [Space -> Mapping]
      /\ \A p \in Space : p \in S => at'[p] = Reserved
      /\ \A p \in Space : p \notin S => at'[p] = at[p]
  BY <1>2, <1>3, FillFacts DEF MemoryInv, Tables
<1>5. Tables' /\ InBounds' /\ Placed'
  BY <1>1, <1>4 DEF MemoryInv, Tables, InBounds, Placed, Working
<1>6. OwnPage'
  BY <1>2, <1>4 DEF MemoryInv, OwnPage
<1>7. Holes'
  <2>1. \A p \in Pages : p \in Space
    BY MemoryAssumption DEF Pages, Space, Wrap
  <2> QED  BY <1>1, <1>2, <1>4, <2>1 DEF MemoryInv, Holes, Gone
<1> QED  BY <1>5, <1>6, <1>7 DEF MemoryInv

LEMMA CommandStep ==
    ASSUME MemoryInv, NEW off \in Space, NEW n \in Nat, NEW ranges \in [1 .. n -> Ranges],
           NEW ro \in BOOLEAN, lagfx_memory_map_memory2(off, ranges, ro)
    PROVE  MemoryInv'
<1>1. /\ pc' = "enter" /\ pc = "idle" /\ live
      /\ UNCHANGED <<live, at, punctured>>
  BY DEF lagfx_memory_map_memory2
<1>2. Ranges \subseteq [host : Int, len : 0 .. MaxLen]
  BY MemoryAssumption DEF Ranges, HostPages, None
<1>3. ranges \in Seq([host : Int, len : 0 .. MaxLen]) /\ ranges # <<>>
  <2>1. ranges \in [1 .. n -> [host : Int, len : 0 .. MaxLen]]
    BY <1>2
  <2>2. ranges # <<>>
    BY DEF lagfx_memory_map_memory2
  <2> DEFINE R == [host : Int, len : 0 .. MaxLen]
  <2> HIDE DEF R
  <2>3. ranges \in [1 .. n -> R]
    BY <2>1 DEF R
  <2>4. ranges \in UNION {[1 .. m -> R] : m \in Nat}
    BY <2>3, Zenon
  <2>5. ranges \in Seq(R)
    BY <2>4, SeqDef, Zenon
  <2> QED  BY <2>2, <2>5 DEF R
<1>4. Tables'
  <2>1. Tail(ranges) \in Seq([host : Int, len : 0 .. MaxLen])
        /\ Head(ranges) \in [host : Int, len : 0 .. MaxLen]
    BY <1>3, HeadTailProperties
  <2>2. call' \in [off : Space, host : Int, len : 0 .. MaxLen, ro : BOOLEAN]
    BY <2>1 DEF lagfx_memory_map_memory2
  <2> QED  BY <1>1, <2>1, <2>2 DEF MemoryInv, Tables, lagfx_memory_map_memory2
<1>5. InBounds' /\ Placed' /\ OwnPage' /\ Holes'
  BY <1>1 DEF MemoryInv, InBounds, Placed, OwnPage, Holes, Working
<1> QED  BY <1>4, <1>5 DEF MemoryInv

LEMMA EnterStep ==
    ASSUME MemoryInv, lagfx_task_map_host_memory PROVE MemoryInv'
<1>1. /\ pc = "enter" /\ UNCHANGED <<live, at, call, todo, punctured>>
      /\ pc' \in {"done", "memfd", "munmap"}
      /\ pc' # "done" => u64(call.off + call.len) <= Size
  BY DEF lagfx_task_map_host_memory, Return, Goto, in_range
<1>2. Span' = Span
  BY <1>1 DEF Span, Run
<1> QED
  BY <1>1, <1>2 DEF MemoryInv, Tables, InBounds, Placed, OwnPage, Holes, Working

LEMMA PunchStep ==
    ASSUME MemoryInv, punch_hole PROVE MemoryInv'
<1>1. UNCHANGED <<live, call, todo, punctured>> /\ Span' = Span
  BY DEF punch_hole, Span, Run
<1>2. CASE at' = Fill(Span, Free) /\ Goto("mremap")
  <2>1. Free \in Mapping /\ Free.kind = "free"
    BY PlainMapping DEF Free, Kinds
  <2>2. at \in [Space -> Mapping]
    BY DEF MemoryInv, Tables
  <2>3. /\ at' \in [Space -> Mapping]
        /\ \A p \in Space : p \in Span => at'[p] = Free
        /\ \A p \in Space : p \notin Span => at'[p] = at[p]
    BY <1>2, <2>1, <2>2, FillFacts
  <2>4. pc = "munmap" /\ pc' = "mremap"
    BY <1>2 DEF Goto, punch_hole
  <2>5. Tables' /\ InBounds' /\ Placed'
    BY <1>1, <2>3, <2>4 DEF MemoryInv, Tables, InBounds, Placed, Working
  <2>6. OwnPage'
    BY <2>1, <2>3 DEF MemoryInv, OwnPage
  <2>7. Holes'
    BY <1>1, <2>3, <2>4, MemoryAssumption DEF MemoryInv, Holes, Pages, Space, Wrap
  <2> QED  BY <2>5, <2>6, <2>7 DEF MemoryInv
<1>3. CASE Return(FALSE) /\ UNCHANGED at
  BY <1>1, <1>3 DEF MemoryInv, Tables, InBounds, Placed, OwnPage, Holes, Return, Working,
     punch_hole
<1> QED  BY <1>2, <1>3 DEF punch_hole

LEMMA AliasStep ==
    ASSUME MemoryInv, alias_host PROVE MemoryInv'
<1>1. UNCHANGED <<live, call, todo>> /\ Span' = Span /\ pc = "mremap"
  BY DEF alias_host, Span, Run
<1>2. CASE /\ call.host .. (call.host + call.len - 1) \subseteq Shared
           /\ at' = Place("alias", call.host)
           /\ Goto("mprotect")
           /\ punctured' = punctured \ Span
  <2>1. \A p \in Span : call.host + Index(p, call.off) \in Nat
    <3>1. \A p \in Span : call.host + Index(p, call.off) \in
                              call.host .. (call.host + call.len - 1)
      BY MemoryAssumption DEF MemoryInv, Tables, Span, Run, Index, Space, Wrap
    <3> QED  BY <1>2, <3>1, MemoryAssumption
  <2>2. /\ at' \in [Space -> Mapping]
        /\ \A p \in Span : at'[p].kind = "alias"
        /\ \A p \in Space : p \notin Span => at'[p] = at[p]
    BY <1>2, <2>1, PlaceFacts DEF MemoryInv, Tables, Kinds
  <2>3. pc' = "mprotect"
    BY <1>2 DEF Goto
  <2>4. Tables' /\ InBounds' /\ Placed'
    BY <1>1, <2>2, <2>3 DEF MemoryInv, Tables, InBounds, Placed, Working
  <2>5. OwnPage'
    BY <2>2 DEF MemoryInv, OwnPage
  <2>6. Holes'
    <3>1. \A p \in Pages : p \in Space
      BY MemoryAssumption DEF Pages, Space, Wrap
    <3> QED  BY <1>1, <1>2, <2>2, <3>1 DEF MemoryInv, Holes, Gone
  <2> QED  BY <2>4, <2>5, <2>6 DEF MemoryInv
<1>3. CASE Goto("restore") /\ UNCHANGED <<at, punctured>>
  BY <1>1, <1>3 DEF MemoryInv, Tables, InBounds, Placed, OwnPage, Holes, Goto, Working
<1> QED  BY <1>2, <1>3 DEF alias_host

LEMMA ProtectStep ==
    ASSUME MemoryInv, protect_alias PROVE MemoryInv'
<1>1. /\ UNCHANGED <<live, call, todo, punctured>> /\ Span' = Span
      /\ pc = "mprotect" /\ pc' = "done"
  BY DEF protect_alias, Span, Run, Return
<1>2. /\ at' \in [Space -> Mapping]
      /\ \A p \in Space : /\ at'[p].kind = at[p].kind
                              /\ at'[p].page = at[p].page
  <2>1. CASE at' = Protect
    BY <2>1, ProtectFacts DEF MemoryInv, Tables
  <2>2. CASE UNCHANGED at
    BY <2>2 DEF MemoryInv, Tables
  <2> QED  BY <2>1, <2>2 DEF protect_alias
<1>3. Tables' /\ InBounds' /\ Placed' /\ OwnPage'
  BY <1>1, <1>2 DEF MemoryInv, Tables, InBounds, Placed, OwnPage, Working
<1>4. Holes'
  <2>1. \A p \in Pages : p \in Space
    BY MemoryAssumption DEF Pages, Space, Wrap
  <2> QED  BY <1>1, <1>2, <2>1 DEF MemoryInv, Holes
<1> QED  BY <1>3, <1>4 DEF MemoryInv

LEMMA RestoreStep ==
    ASSUME MemoryInv, restore_reservation PROVE MemoryInv'
<1>1. UNCHANGED <<live, call, todo>> /\ Span' = Span /\ pc = "restore"
  BY DEF restore_reservation, Span, Run
<1>2. \A p \in Pages : p \in Space
  BY MemoryAssumption DEF Pages, Space, Wrap
<1>3. CASE /\ at' = Fill(Span, Reserved)
           /\ punctured' = punctured \ Span
           /\ Goto("memfd")
  <2>1. Reserved \in Mapping /\ Reserved.kind = "reserved"
    BY PlainMapping DEF Reserved, Kinds
  <2>2. /\ at' \in [Space -> Mapping]
        /\ \A p \in Space : p \in Span => at'[p] = Reserved
        /\ \A p \in Space : p \notin Span => at'[p] = at[p]
    BY <1>3, <2>1, FillFacts DEF MemoryInv, Tables
  <2>3. pc' = "memfd"
    BY <1>3 DEF Goto
  <2>4. Tables' /\ InBounds' /\ Placed'
    BY <1>1, <2>2, <2>3 DEF MemoryInv, Tables, InBounds, Placed, Working
  <2>5. OwnPage'
    BY <2>1, <2>2 DEF MemoryInv, OwnPage
  <2>6. Holes'
    BY <1>1, <1>2, <1>3, <2>1, <2>2 DEF MemoryInv, Holes, Gone
  <2> QED  BY <2>4, <2>5, <2>6 DEF MemoryInv
<1>4. CASE punctured' = punctured \cup Span /\ Return(FALSE) /\ UNCHANGED at
  BY <1>1, <1>4 DEF MemoryInv, Tables, InBounds, Placed, OwnPage, Holes, Return, Working
<1> QED  BY <1>3, <1>4 DEF restore_reservation

LEMMA MemfdStep ==
    ASSUME MemoryInv, map_memfd PROVE MemoryInv'
<1>1. UNCHANGED <<live, call, todo>> /\ Span' = Span /\ pc = "memfd"
  BY DEF map_memfd, Span, Run
<1>2. CASE Return(FALSE) /\ UNCHANGED <<at, punctured>>
  BY <1>1, <1>2 DEF MemoryInv, Tables, InBounds, Placed, OwnPage, Holes, Return, Working
<1>3. CASE /\ at' = Place("memfd", call.off) /\ call.off < Half
           /\ punctured' = punctured \ Span
           /\ Goto("copy")
  <2>1. \A p \in Span : call.off + Index(p, call.off) = p /\ p \in Nat /\ p \in Pages
    <3>1. call.off + call.len <= Size
      BY <1>1, <1>3, MemoryAssumption
         DEF MemoryInv, Tables, InBounds, Working, Space, Wrap, u64
    <3> QED  BY <3>1, MemoryAssumption
                DEF MemoryInv, Tables, Span, Run, Index, Space, Wrap, Pages
  <2>2. /\ at' \in [Space -> Mapping]
        /\ \A p \in Span : /\ at'[p].kind = "memfd"
                           /\ at'[p].page = call.off + Index(p, call.off)
        /\ \A p \in Space : p \notin Span => at'[p] = at[p]
    BY <1>3, <2>1, PlaceFacts DEF MemoryInv, Tables, Kinds
  <2>3. pc' = "copy"
    BY <1>3 DEF Goto
  <2>4. Tables' /\ InBounds' /\ Placed'
    BY <1>1, <2>2, <2>3 DEF MemoryInv, Tables, InBounds, Placed, Working
  <2>5. OwnPage'
    BY <2>1, <2>2 DEF MemoryInv, OwnPage
  <2>6. Holes'
    <3>1. \A p \in Pages : p \in Space
      BY MemoryAssumption DEF Pages, Space, Wrap
    <3> QED  BY <1>1, <1>3, <2>2, <3>1 DEF MemoryInv, Holes, Gone
  <2> QED  BY <2>4, <2>5, <2>6 DEF MemoryInv
<1> QED  BY <1>2, <1>3 DEF map_memfd, memfd_offset

LEMMA CopyStep ==
    ASSUME MemoryInv, copy_contents PROVE MemoryInv'
<1>1. /\ UNCHANGED <<live, call, todo, punctured>> /\ Span' = Span
      /\ pc = "copy" /\ pc' = "done"
  BY DEF copy_contents, Span, Run, Return
<1>2. /\ at' \in [Space -> Mapping]
      /\ \A p \in Space : /\ at'[p].kind = at[p].kind
                              /\ at'[p].page = at[p].page
  <2>1. CASE at' = Protect
    BY <2>1, ProtectFacts DEF MemoryInv, Tables
  <2>2. CASE UNCHANGED at
    BY <2>2 DEF MemoryInv, Tables
  <2> QED  BY <2>1, <2>2 DEF copy_contents
<1>3. Tables' /\ InBounds' /\ Placed' /\ OwnPage'
  BY <1>1, <1>2 DEF MemoryInv, Tables, InBounds, Placed, OwnPage, Working
<1>4. Holes'
  <2>1. \A p \in Pages : p \in Space
    BY MemoryAssumption DEF Pages, Space, Wrap
  <2> QED  BY <1>1, <1>2, <2>1 DEF MemoryInv, Holes
<1> QED  BY <1>3, <1>4 DEF MemoryInv

LEMMA NextRangeStep ==
    ASSUME MemoryInv, next_range PROVE MemoryInv'
<1>1. /\ UNCHANGED <<live, at, punctured>>
      /\ pc = "done" /\ pc' \in {"enter", "idle"}
  BY DEF next_range
<1>2. call' \in [off : Space, host : Int, len : 0 .. MaxLen, ro : BOOLEAN]
      /\ todo' \in Seq([host : Int, len : 0 .. MaxLen])
  <2>1. CASE ret /\ todo # <<>>
    <3>1. /\ Head(todo) \in [host : Int, len : 0 .. MaxLen]
          /\ Tail(todo) \in Seq([host : Int, len : 0 .. MaxLen])
      BY <2>1, HeadTailProperties DEF MemoryInv, Tables
    <3>2. u64(call.off + call.len) \in Space /\ call.ro \in BOOLEAN
      BY MemoryAssumption DEF MemoryInv, Tables, u64, Space, Wrap
    <3>3. /\ call' = [off |-> u64(call.off + call.len), host |-> Head(todo).host,
                      len |-> Head(todo).len, ro |-> call.ro]
          /\ todo' = Tail(todo)
      BY <2>1, Zenon DEF next_range
    <3>4. Head(todo).host \in Int /\ Head(todo).len \in 0 .. MaxLen
      BY <3>1
    <3>5. call' \in [off : Space, host : Int, len : 0 .. MaxLen, ro : BOOLEAN]
      BY <3>2, <3>3, <3>4
    <3> QED  BY <3>1, <3>3, <3>5
  <2>2. CASE ~(ret /\ todo # <<>>)
    <3>1. NoCall \in [off : Space, host : Int, len : 0 .. MaxLen, ro : BOOLEAN]
      BY MemoryAssumption DEF NoCall, None, Space, Wrap
    <3> QED  BY <2>2, <3>1, EmptySeq DEF next_range
  <2> QED  BY <2>1, <2>2
<1>3. pc # "idle" /\ live
  BY <1>1 DEF MemoryInv, InBounds
<1> QED
  BY <1>1, <1>2, <1>3 DEF MemoryInv, Tables, InBounds, Placed, OwnPage, Holes, Working

\* Mappings of other threads take and leave holes.
LEMMA OtherStep ==
    ASSUME MemoryInv, NEW q \in Pages, OtherMaps(q) PROVE MemoryInv'
<1>1. UNCHANGED <<live, call, todo, punctured, pc>> /\ Span' = Span
  BY DEF OtherMaps, Span, Run
<1>2. /\ Free \in Mapping /\ Free.kind = "free"
      /\ Other \in Mapping /\ Other.kind = "other"
  BY PlainMapping DEF Free, Other, Kinds
<1>3. /\ at' \in [Space -> Mapping]
      /\ at[q].kind \in Gone /\ at'[q].kind \in Gone
      /\ \A p \in Space \ {q} : at'[p] = at[p]
  BY <1>2, MemoryAssumption DEF MemoryInv, Tables, OtherMaps, Gone, Pages, Space, Wrap
<1>4. Tables' /\ InBounds'
  BY <1>1, <1>3 DEF MemoryInv, Tables, InBounds
<1>5. Placed'
  <2>1. Span \subseteq Space
    BY DEF Span, Run
  <2> QED  BY <1>1, <1>3, <2>1 DEF MemoryInv, Placed, Gone
<1>6. OwnPage'
  BY <1>3 DEF MemoryInv, OwnPage, Gone
<1>7. Holes'
  <2>1. \A p \in Pages : p \in Space
    BY MemoryAssumption DEF Pages, Space, Wrap
  <2> QED  BY <1>1, <1>3, <2>1 DEF MemoryInv, Holes
<1> QED  BY <1>4, <1>5, <1>6, <1>7 DEF MemoryInv

\* Writes to memory and stuttering change nothing the invariant is about.
LEMMA FrameStep ==
    ASSUME MemoryInv, UNCHANGED <<live, at, pc, call, todo, punctured>> PROVE MemoryInv'
BY DEF MemoryInv, Tables, InBounds, Placed, OwnPage, Holes, Span

LEMMA MapStepInv ==
    ASSUME MemoryInv, MapStep PROVE MemoryInv'
BY EnterStep, PunchStep, AliasStep, ProtectStep, RestoreStep, MemfdStep, CopyStep,
   NextRangeStep DEF MapStep

LEMMA MemoryInvariant == MemorySpec => []MemoryInv
<1>1. MemoryInit => MemoryInv
  <2> SUFFICES ASSUME MemoryInit PROVE MemoryInv
    OBVIOUS
  <2>1. Free \in Mapping /\ Free.kind = "free"
    BY PlainMapping DEF Free, Kinds
  <2>2. /\ at \in [Space -> Mapping]
        /\ \A p \in Space : at[p].kind = "free"
    BY <2>1 DEF MemoryInit
  <2>3. todo \in Seq([host : Int, len : 0 .. MaxLen])
    BY EmptySeq DEF MemoryInit
  <2>4. call \in [off : Space, host : Int, len : 0 .. MaxLen, ro : BOOLEAN]
    BY MemoryAssumption DEF MemoryInit, NoCall, None, Space, Wrap
  <2> QED  BY <2>2, <2>3, <2>4 DEF MemoryInit, MemoryInv, Tables, InBounds, Placed,
              OwnPage, Holes, Working
<1>2. MemoryInv /\ [MemoryNext]_memoryVars => MemoryInv'
  <2> SUFFICES ASSUME MemoryInv, [MemoryNext]_memoryVars PROVE MemoryInv'
    OBVIOUS
  <2>1. CASE lagfx_task_create
    BY <2>1, CreateStep
  <2>2. CASE lagfx_task_destroy
    BY <2>2, DestroyStep
  <2>3. CASE UnmapCommand
    BY <2>3, UnmapStep DEF UnmapCommand
  <2>4. ASSUME NEW off \in Offsets, NEW n \in 1 .. MaxRanges, NEW ro \in BOOLEAN,
               NEW ranges \in [1 .. n -> Ranges],
               lagfx_memory_map_memory2(off, ranges, ro)
        PROVE  MemoryInv'
    <3>1. off \in Space /\ n \in Nat
      BY MemoryAssumption DEF Space, Wrap
    <3> QED  BY <2>4, <3>1, CommandStep
  <2>5. CASE MapStep
    BY <2>5, MapStepInv
  <2>6. CASE \E p \in Pages : OtherMaps(p)
    BY <2>6, OtherStep
  <2>7. CASE \E h \in HostPages, d \in Data : HostWrites(h, d)
    BY <2>7, FrameStep DEF HostWrites
  <2>8. CASE \E p \in Pages, d \in Data : TaskWrites(p, d)
    BY <2>8, FrameStep DEF TaskWrites
  <2>9. CASE UNCHANGED memoryVars
    BY <2>9, FrameStep DEF memoryVars
  <2> QED  BY <2>1, <2>2, <2>3, <2>4, <2>5, <2>6, <2>7, <2>8, <2>9 DEF MemoryNext
<1> QED  BY <1>1, <1>2, PTL DEF MemorySpec

-----------------------------------------------------------------------------

\* Whatever fails and whoever else maps memory, between calls a task's range has
\* no hole and no foreign page but those a failed restore left.
THEOREM RangeStaysReserved == MemorySpec => []ReservationHeld
<1>1. MemoryInv => ReservationHeld
  BY DEF MemoryInv, Holes, ReservationHeld
<1> QED  BY <1>1, MemoryInvariant, PTL

\* The memfd pages a copy writes are those of its own range.
LEMMA CopyKeepsOthers ==
    ASSUME MemoryInv, copy_contents, NEW p \in Space, p \notin Span,
           at[p].kind = "memfd"
    PROVE  file'[at[p].page] = file[at[p].page]
<1>1. at[p].page = p /\ p \in Pages
  BY DEF MemoryInv, OwnPage
<1>2. pc = "copy"
  BY DEF copy_contents
<1>3. \A q \in Span : at[q].page = q
  BY <1>2 DEF MemoryInv, OwnPage, Placed, Span, Run
<1>4. {q \in Span : at[q].page = p} = {}
  BY <1>3
<1>5. CASE call.host = None
  BY <1>5 DEF copy_contents
<1>6. CASE call.host # None
  BY <1>1, <1>4, <1>6 DEF copy_contents
<1> QED  BY <1>1, <1>5, <1>6

LEMMA StepKeepsOthers ==
    ASSUME MemoryInv, MemoryNext, NEW p \in Space, p \notin Span,
           pc \notin {"idle", "done"}, at[p].kind \notin Gone \/ p \notin Pages
    PROVE  Shown(p)' = Shown(p)
<1>1. live
  BY DEF MemoryInv, InBounds
<1>2. SUFFICES /\ at'[p] = at[p]
               /\ at[p].kind = "memfd" => file'[at[p].page] = file[at[p].page]
  BY DEF Shown
<1>3. at \in [Space -> Mapping] /\ call.ro \in BOOLEAN
  BY DEF MemoryInv, Tables
<1>4. CASE UNCHANGED <<at, file>>
  BY <1>4
<1>5. CASE punch_hole \/ restore_reservation
  <2>1. UNCHANGED file
    BY <1>5 DEF punch_hole, restore_reservation
  <2>2. Free \in Mapping /\ Reserved \in Mapping
    BY PlainMapping DEF Free, Reserved, Kinds
  <2>3. at' = Fill(Span, Free) \/ at' = Fill(Span, Reserved) \/ UNCHANGED at
    BY <1>5 DEF punch_hole, restore_reservation
  <2> QED  BY <1>3, <2>1, <2>2, <2>3, FillFacts
<1>6. CASE alias_host \/ map_memfd
  <2>1. UNCHANGED file
    BY <1>6 DEF alias_host, map_memfd
  <2>2. at' = Place("alias", call.host) \/ at' = Place("memfd", memfd_offset)
        \/ UNCHANGED at
    BY <1>6 DEF alias_host, map_memfd
  <2>3. at'[p] = at[p]
    BY <2>2 DEF Place
  <2> QED  BY <2>1, <2>3
<1>7. CASE protect_alias \/ copy_contents
  <2>1. at' = Protect \/ UNCHANGED at
    BY <1>7 DEF protect_alias, copy_contents
  <2>2. at'[p] = at[p]
    BY <1>3, <2>1, ProtectFacts
  <2>3. CASE protect_alias
    BY <2>2, <2>3 DEF protect_alias
  <2>4. CASE copy_contents
    BY <2>2, <2>4, CopyKeepsOthers
  <2> QED  BY <1>7, <2>3, <2>4
<1>8. CASE \E q \in Pages : OtherMaps(q)
  <2>1. PICK q \in Pages : OtherMaps(q)
    BY <1>8
  <2>2. at[q].kind \in Gone
    BY <2>1 DEF OtherMaps, Gone
  <2>3. p # q
    BY <2>2
  <2>4. at'[p] = at[p] /\ UNCHANGED file
    BY <1>3, <2>1, <2>3 DEF OtherMaps
  <2> QED  BY <2>4
<1>9. CASE MapStep
  BY <1>4, <1>5, <1>6, <1>7, <1>9
     DEF MapStep, lagfx_task_map_host_memory, next_range
<1>10. CASE \E h \in HostPages, d \in Data : HostWrites(h, d)
  BY <1>4, <1>10 DEF HostWrites
<1> QED
  BY <1>1, <1>8, <1>9, <1>10
     DEF MemoryNext, lagfx_task_create, lagfx_task_destroy, UnmapCommand,
         lagfx_task_unmap, lagfx_memory_map_memory2, TaskWrites

\* A call whose check did not wrap lies inside the reservation; before its checks it
\* has changed nothing.
LEMMA AroundUntouched ==
    ASSUME MemoryInv, MemoryNext, NEW p \in Space, p \notin Pages, ~Wrapped,
           pc \notin {"idle", "done"}
    PROVE  Shown(p)' = Shown(p)
<1>1. CASE p \notin Span
  BY <1>1, StepKeepsOthers
<1>2. CASE p \in Span
  <2>1. pc \notin Working
    <3> SUFFICES ASSUME pc \in Working PROVE FALSE
      OBVIOUS
    <3>1. /\ u64(call.off + call.len) <= Size
          /\ call \in [off : Space, host : Int, len : 0 .. MaxLen, ro : BOOLEAN]
      BY DEF MemoryInv, InBounds, Tables
    <3>2. call.off + call.len <= Size
      BY <3>1, MemoryAssumption DEF Wrapped, u64, Space, Wrap
    <3> QED  BY <1>2, <3>1, <3>2, MemoryAssumption DEF Span, Run, Index, Space, Wrap, Pages
  <2>2. /\ ~punch_hole /\ ~alias_host /\ ~protect_alias /\ ~restore_reservation
        /\ ~map_memfd /\ ~copy_contents /\ ~next_range
    BY <2>1 DEF Working, punch_hole, alias_host, protect_alias, restore_reservation,
       map_memfd, copy_contents, next_range
  <2>3. live
    BY DEF MemoryInv, InBounds
  <2>4. at'[p] = at[p] /\ file' = file
    <3>1. CASE \E q \in Pages : OtherMaps(q)
      BY <3>1 DEF OtherMaps, MemoryInv, Tables
    <3>2. CASE lagfx_task_map_host_memory \/ \E h \in HostPages, d \in Data : HostWrites(h, d)
      BY <3>2 DEF lagfx_task_map_host_memory, HostWrites
    <3> QED
      BY <2>2, <2>3, <3>1, <3>2
         DEF MemoryNext, MapStep, lagfx_task_create, lagfx_task_destroy, UnmapCommand,
             lagfx_task_unmap, lagfx_memory_map_memory2, TaskWrites
  <2> QED  BY <2>4 DEF Shown
<1> QED  BY <1>1, <1>2

\* A map call keeps to its range: pages outside it keep mapping and contents,
\* although every copied range lives in one memfd, and what lies around the
\* reservation is safe unless the sum of offset and length wrapped.
THEOREM MapKeepsToItsRange == MemorySpec => OutsideUntouched
<1> DEFINE Untouched ==
       \A p \in Space :
          /\ pc \notin {"idle", "done"}
          /\ p \notin Span \/ (p \notin Pages /\ ~Wrapped)
          /\ at[p].kind \notin Gone \/ p \notin Pages
          => Shown(p)' = Shown(p)
<1>1. MemoryInv /\ [MemoryNext]_memoryVars => [Untouched]_memoryVars
  BY StepKeepsOthers, AroundUntouched
<1>2. OutsideUntouched <=> [][Untouched]_memoryVars
  BY DEF OutsideUntouched
<1> QED  BY <1>1, <1>2, MemoryInvariant, PTL DEF MemorySpec

=============================================================================
