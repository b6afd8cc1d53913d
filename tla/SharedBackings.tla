--------------------------- MODULE SharedBackings ---------------------------
(***************************************************************************)
(* What reference counting of IOSurface backings promises, without the     *)
(* registry's array, the draw path or the task table.                      *)
(*                                                                         *)
(* A key is a registry key (ref, task); it owns at most one backing.  A    *)
(* backing is alive while its count is positive.  The count was meant to   *)
(* be the number of owners; three operations of the code drop an owner     *)
(* without releasing, so it is that number plus the references lost.       *)
(***************************************************************************)
EXTENDS Integers, FiniteSets

CONSTANTS
    Keys,     \* registry keys, finitely many
    Backings,
    NoBacking \* not a backing: the NULL handle

VARIABLES
    owner, \* host_handle per key; NoBacking when NULL or not registered
    refs,  \* ios->refcount; 0 when the backing does not exist
    lost   \* history: references no entry holds and nobody will release

backingVars == <<owner, refs, lost>>

BackingsTypeOK ==
    /\ owner \in [Keys -> Backings \cup {NoBacking}]
    /\ refs \in [Backings -> Nat]
    /\ lost \in [Backings -> Nat]

BackingsInit ==
    /\ owner = [k \in Keys |-> NoBacking]
    /\ refs = [b \in Backings |-> 0]
    /\ lost = [b \in Backings |-> 0]

Holders(b) == {k \in Keys : owner[k] = b}

\* CmdCreateIOSurfaceBacking2: k gets a new backing and releases its old one.
Replace(k, b) ==
    /\ refs[b] = 0
    /\ lost' = lost
    /\ refs' = [c \in Backings |-> IF c = b THEN 1
                                   ELSE IF c = owner[k] THEN refs[c] - 1
                                   ELSE refs[c]]
    /\ owner' = [owner EXCEPT ![k] = b]

\* texture_realize and the per-pass target: k gets a new backing; a backing it
\* had is not released.
Overwrite(k, b) ==
    /\ refs[b] = 0
    /\ refs' = [refs EXCEPT ![b] = 1]
    /\ lost' = [c \in Backings |-> IF c = owner[k] THEN lost[c] + 1 ELSE lost[c]]
    /\ owner' = [owner EXCEPT ![k] = b]

\* CmdImportIOSurfaceMachPort: k shares a backing b that some key owns, which
\* is retained (or gets none, like the entry it imports); a backing k had is not
\* released.
Alias(k, b) ==
    /\ refs' = [c \in Backings |-> IF c = b THEN refs[c] + 1 ELSE refs[c]]
    /\ b # NoBacking => Holders(b) # {}
    /\ lost' = [c \in Backings |-> IF c = owner[k] THEN lost[c] + 1 ELSE lost[c]]
    /\ owner' = [owner EXCEPT ![k] = b]

\* CmdDeleteIOSurfaceBacking2 and CmdUnmapIOSurface.
Release(k) ==
    /\ lost' = lost
    /\ refs' = [c \in Backings |-> IF c = owner[k] THEN refs[c] - 1 ELSE refs[c]]
    /\ owner' = [owner EXCEPT ![k] = NoBacking]

\* CmdDeleteTask: the entries of one task vanish, nothing is released.
Forget(K) ==
    /\ refs' = refs
    /\ lost' = [c \in Backings |-> lost[c] + Cardinality(Holders(c) \cap K)]
    /\ owner' = [k \in Keys |-> IF k \in K THEN NoBacking ELSE owner[k]]

BackingsNext ==
    \/ \E k \in Keys, b \in Backings : Replace(k, b) \/ Overwrite(k, b)
    \/ \E k \in Keys, b \in Backings \cup {NoBacking} : Alias(k, b)
    \/ \E k \in Keys : Release(k)
    \/ \E K \in SUBSET Keys : Forget(K)

BackingsSpec == BackingsInit /\ [][BackingsNext]_backingVars

-----------------------------------------------------------------------------

\* The count of a backing is the number of registry entries that share it plus
\* the references lost (vulkan/iosurface.h: retain on import, release on delete
\* and unmap).
RefcountExact ==
    \A b \in Backings : refs[b] = Cardinality(Holders(b)) + lost[b]

\* "Delete/Unmap on either entry must not free a backing the other entry is
\* still using" (vulkan/iosurface.h:34): every backing an entry names exists.
NoDanglingHandle ==
    \A k \in Keys : owner[k] # NoBacking => refs[owner[k]] > 0

=============================================================================
