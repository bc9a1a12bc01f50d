----------------------------- MODULE SharedMmap ------------------------------
(***************************************************************************)
(* mio's basic_shared_mmap: handles that share basic_mmap objects on the   *)
(* heap.  The last handle of an object destroys it, as std::shared_ptr     *)
(* does.  A shared_ptr that a caller gets from a handle, or makes a handle *)
(* of, counts as a handle too: getting it is a copy, giving it a move.     *)
(***************************************************************************)
EXTENDS BasicMmap

CONSTANTS
  Shared,       \* the handles
  Heap,         \* the objects that are created by make_shared
  NoImpl        \* the pimpl_ of a handle without an object

ASSUME HeapAssumption == Heap \subseteq Objects /\ NoImpl \notin Heap

VARIABLES
  shared,       \* the handles that exist
  pimpl         \* the object of each

handles == <<shared, pimpl>>
allvars == <<living, mmap, os, user, failed, shared, pimpl>>

SharedTypeOK ==
  /\ TypeOK
  /\ shared \subseteq Shared
  /\ pimpl \in [Shared -> Heap \cup {NoImpl}]

SharedInit == Init /\ shared = {} /\ pimpl = [t \in Shared |-> NoImpl]

(***************************************************************************)
(* The handles become p, the objects m and the system s; an object that no *)
(* handle has any more is destroyed.                                       *)
(***************************************************************************)
Unreferenced(p, exist) == {h \in Heap \cap exist : \A t \in Shared : p[t] # h}

Rebind(p, exist, m, s) ==
  LET gone == Unreferenced(p, exist) IN
  /\ pimpl' = p
  /\ living' = exist \ gone
  /\ mmap' = [o \in Objects |-> IF o \in gone THEN Unset(FALSE) ELSE m[o]]
  /\ os' = IF gone = {} THEN s ELSE Destructed(s, m[CHOOSE h \in gone : TRUE])
  /\ failed' = FALSE
  /\ UNCHANGED user

Repoint(t, impl) == Rebind([pimpl EXCEPT ![t] = impl], living, mmap, os)

(***************************************************************************)
(* make_shared moves the object o to the heap, then t lets go of its own.  *)
(***************************************************************************)
CopiedToHeap(o, h) == [mmap EXCEPT ![h] = mmap[o]]     \* mutant

MovedToHeap(o, h) ==
  [mmap EXCEPT ![h] = mmap[o], ![o] = Unset(mmap[o].is_handle_internal)]

Take(t, o) ==
  /\ o \in living \ Heap
  /\ \E h \in Heap \ living :
       Rebind([pimpl EXCEPT ![t] = h], living \cup {h}, MovedToHeap(o, h), os)

MapNew(t, res) ==
  /\ IF res.failed
     THEN UNCHANGED <<living, mmap, pimpl>>
     ELSE \E h \in Heap \ living :
            /\ pimpl' = [pimpl EXCEPT ![t] = h]
            /\ living' = living \cup {h}
            /\ mmap' = [mmap EXCEPT ![h] = res.mmap]
  /\ os' = res.os
  /\ failed' = res.failed
  /\ UNCHANGED user

(***************************************************************************)
(* Constructors: without a mapping, of a mapping object, of another handle *)
(* by copy and by move, and of a new mapping, which throws if map fails.   *)
(***************************************************************************)
Constructed(t) == t \notin shared /\ shared' = shared \cup {t}

SharedConstruct(t) == Constructed(t) /\ Repoint(t, NoImpl)

ConstructFrom(t, o) == Constructed(t) /\ Take(t, o)

CopyConstruct(t, u) == u \in shared /\ Constructed(t) /\ Repoint(t, pimpl[u])

SharedMoveConstruct(t, u) ==
  /\ u \in shared /\ Constructed(t)
  /\ Rebind([pimpl EXCEPT ![t] = pimpl[u], ![u] = NoImpl], living, mmap, os)

SharedConstructMapped(t) ==
  /\ t \notin shared
  /\ \E res \in MapResults(os, Unset(FALSE)) :
       MapNew(t, res) /\ shared' = IF res.failed THEN shared ELSE shared \cup {t}

(***************************************************************************)
(* Assignments, swap and the destructor.                                   *)
(***************************************************************************)
AssignFrom(t, o) == t \in shared /\ Take(t, o) /\ UNCHANGED shared

CopyAssign(t, u) == {t, u} \subseteq shared /\ Repoint(t, pimpl[u]) /\ UNCHANGED shared

SharedMoveAssign(t, u) ==
  /\ {t, u} \subseteq shared /\ t # u
  /\ Rebind([pimpl EXCEPT ![t] = pimpl[u], ![u] = NoImpl], living, mmap, os)
  /\ UNCHANGED shared

SharedSwap(t, u) ==
  /\ {t, u} \subseteq shared
  /\ Rebind([pimpl EXCEPT ![t] = pimpl[u], ![u] = pimpl[t]], living, mmap, os)
  /\ UNCHANGED shared

SharedDestroy(t) == t \in shared /\ Repoint(t, NoImpl) /\ shared' = shared \ {t}

(***************************************************************************)
(* map, unmap and sync go to the object, if there is one.                  *)
(***************************************************************************)
map_impl(t) ==
  /\ t \in shared
  /\ IF pimpl[t] = NoImpl
     THEN \E garbage \in BOOLEAN :
            \E res \in MapResults(os, Unset(garbage)) : MapNew(t, res)
     ELSE Map(pimpl[t]) /\ UNCHANGED pimpl
  /\ UNCHANGED shared

SharedUnmap(t) ==
  t \in shared /\ pimpl[t] # NoImpl /\ Unmap(pimpl[t]) /\ UNCHANGED handles

SharedSync(t) ==
  t \in shared /\ pimpl[t] # NoImpl /\ Sync(pimpl[t]) /\ UNCHANGED handles

SharedWrite(t) ==
  t \in shared /\ pimpl[t] # NoImpl /\ Write(pimpl[t]) /\ UNCHANGED handles

OnHandle(t) ==
  \/ SharedConstruct(t) \/ SharedConstructMapped(t)
  \/ map_impl(t) \/ SharedUnmap(t) \/ SharedSync(t) \/ SharedDestroy(t)
  \/ SharedWrite(t)
  \/ \E o \in Objects \ Heap : ConstructFrom(t, o) \/ AssignFrom(t, o)
  \/ \E u \in Shared :
       \/ CopyConstruct(t, u) \/ SharedMoveConstruct(t, u)
       \/ CopyAssign(t, u) \/ SharedMoveAssign(t, u) \/ SharedSwap(t, u)

SharedNext ==
  \/ \E t \in Shared : OnHandle(t)
  \/ OnObjects(Objects \ Heap) /\ UNCHANGED handles
  \/ Environment /\ UNCHANGED handles

SharedSpec == SharedInit /\ [][SharedNext]_allvars

-----------------------------------------------------------------------------
SharedView(t) == IF pimpl[t] = NoImpl THEN NoView ELSE ViewOf(os, mmap[pimpl[t]])

(***************************************************************************)
(* What a handle views changes when it is rebound itself, or when a handle *)
(* that shares its object maps or unmaps; never because another one lets   *)
(* go of the object, takes another mapping, or is moved or destroyed.      *)
(***************************************************************************)
SharersKeepView ==
  [][\A t \in shared \cap shared' :
       pimpl'[t] = pimpl[t] /\ SharedView(t)' # SharedView(t) =>
         /\ pimpl' = pimpl
         /\ mmap'[pimpl[t]] # mmap[pimpl[t]]
         /\ \A o \in living \ {pimpl[t]} : mmap'[o] = mmap[o]]_allvars
=============================================================================
