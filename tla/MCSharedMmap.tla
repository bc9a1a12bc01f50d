---------------------------- MODULE MCSharedMmap -----------------------------
(***************************************************************************)
(* Two objects at a time, of the caller or on the heap, and two handles.   *)
(* One file of two pages and a bit, two descriptors, and room for two      *)
(* mappings and one more while a mapping is replaced.                      *)
(***************************************************************************)
EXTENDS SharedMmap, TLC

SmallSize == [f \in Files |-> 9]

TwoFds == 3 .. 4

ThreeBases == {16, 32, 48}

\* Two bytes across a page, the rest of the file, and more than there is.
SmallRequests ==
  {[offset |-> 3, length |-> 2], [offset |-> 5, length |-> 0], [offset |-> 8, length |-> 2]}

Interchangeable ==
  Permutations(Objects \ Heap) \cup Permutations(Heap) \cup Permutations(Shared)

(***************************************************************************)
(* The bounds.  While there are handles, all map the rest of the file; one *)
(* descriptor is the caller's or nobody's; and once writes were left to    *)
(* the system there is no more to see of them.                             *)
(***************************************************************************)
Bounds ==
  /\ Cardinality(living) <= 2
  /\ Cardinality(user \cup os.lost) <= 1
  /\ ~ os.pending
  /\ shared # {} => \A o \in Opens : mmap[o].length # 2
=============================================================================
