------------------------------ MODULE BasicMmap ------------------------------
(***************************************************************************)
(* mio's basic_mmap: objects that open a file or are given a descriptor,   *)
(* map a part of it, hand the mapping on and release it.  The caller of    *)
(* the library creates, moves and destroys objects as it likes, opens and  *)
(* closes descriptors of its own, and writes to what it mapped.  The       *)
(* handle that it gives to map is one of its own, or invalid.              *)
(*                                                                         *)
(* A call that maps can fail in several places, and which free address the *)
(* system maps at is open, so it is given as the set of its results.       *)
(***************************************************************************)
EXTENDS MemoryMap

CONSTANTS
  Objects,        \* the objects of a caller
  Requests,       \* the offsets and lengths it asks for
  AccessMode      \* "read" or "write", the template parameter

ASSUME RequestsAssumption ==
  /\ Requests \subseteq [offset : 0 .. SizeLimit - 1, length : 0 .. SizeLimit - 1]
  /\ \A r \in Requests : r.offset + r.length < SizeLimit
  /\ AccessMode \in {"read", "write"}

VARIABLES
  living,         \* the objects that exist
  mmap,           \* the fields of each object
  os,             \* the operating system
  user,           \* the descriptors that the caller opened
  failed          \* whether the last call reported an error

vars == <<living, mmap, os, user, failed>>

TypeOK ==
  /\ living \subseteq Objects
  /\ mmap \in [Objects -> Object]
  /\ os.fds \in [Fds -> Files \cup {NoFile}]
  /\ \A b \in Bases : os.regions[b] \in Region
  /\ os.dirty \subseteq Live(os)
  /\ os.lost \subseteq OpenFds(os)
  /\ os.pending \in BOOLEAN
  /\ user \subseteq Fds
  /\ failed \in BOOLEAN

Init ==
  /\ living = {}
  /\ mmap = [o \in Objects |-> Unset(FALSE)]
  /\ os = Fresh
  /\ user = {}
  /\ failed = FALSE

(***************************************************************************)
(* sync, unmap and the destructor as functions of the system.              *)
(***************************************************************************)
SyncAccepts(s, o) ==
  /\ is_open(o)
  /\ o.data # nullptr => MsyncAccepts(s, get_mapping_start(o), o.mapped_length)

Synced(s, o) ==
  IF is_open(o) /\ o.data # nullptr
  THEN Msynced(s, get_mapping_start(o), o.mapped_length) ELSE s

ConditionallySynced(s, o) == IF AccessMode = "write" THEN Synced(s, o) ELSE s

CloseAny(s, o) == Closed(s, o.file_handle)    \* mutant

CloseInternal(s, o) ==
  IF o.is_handle_internal THEN Closed(s, o.file_handle) ELSE s

Released(s, o) ==
  IF is_open(o)
  THEN CloseInternal(IF o.data # nullptr
                     THEN Unmapped(s, get_mapping_start(o), o.mapped_length)
                     ELSE s, o)
  ELSE s

ResetToZero(o) ==                             \* mutant
  [Unset(o.is_handle_internal) EXCEPT !.file_handle = 0]

Reset(o) == IF is_open(o) THEN Unset(o.is_handle_internal) ELSE o

UnmappedThenSynced(s, o) ==                   \* mutant
  ConditionallySynced(Released(s, o), Reset(o))

Destructed(s, o) == Released(ConditionallySynced(s, o), o)

(***************************************************************************)
(* The results of map, called on an object with fields o: for a            *)
(* descriptor, and for a path, where NoFile stands for an empty one.       *)
(***************************************************************************)
Result(s, o, fails) == [os |-> s, mmap |-> o, failed |-> fails]

SizeOf(s, handle) == FileSize[s.fds[handle]]

CanMap(s, handle, r) ==
  /\ handle \in OpenFds(s)
  /\ Accepts(SizeOf(s, handle), r)
  /\ MmapAccepts(make_offset_page_aligned(r.offset),
                 LengthToMap(r.offset, LengthOf(SizeOf(s, handle), r)))

memory_map(s, base, handle, ctx, offset) ==
  Mapped(s, base, handle, make_offset_page_aligned(offset), ctx.mapped_length)

Established(s, o, base, handle, r) ==
  LET ctx == mmap_context(base, r.offset, LengthOf(SizeOf(s, handle), r)) IN
  Result(Released(memory_map(s, base, handle, ctx, r.offset), o),
         [data |-> ctx.data, length |-> ctx.length, mapped_length |-> ctx.mapped_length,
          file_handle |-> handle, is_handle_internal |-> FALSE],
         FALSE)

BasesFor(s, handle, r) ==
  IF CanMap(s, handle, r)
  THEN FreeBases(s, LengthToMap(r.offset, LengthOf(SizeOf(s, handle), r)))
  ELSE {}

UnmapFirst(s, o, handle, r) ==                \* mutant
  {Result(Released(s, o), Reset(o), TRUE)} \cup
  {Established(s, o, base, handle, r) : base \in BasesFor(s, handle, r)}

MapHandle(s, o, handle, r) ==
  {Result(s, o, TRUE)} \cup
  {Established(s, o, base, handle, r) : base \in BasesFor(s, handle, r)}

MakeInternal(res, handle) ==
  IF res.failed
  THEN [res EXCEPT !.os.lost = @ \cup {handle}]
  ELSE [res EXCEPT !.mmap.is_handle_internal = TRUE]

OpensPath(s, path) == path # NoFile /\ CanOpen(s)

MapPath(s, o, path, r) ==
  {Result(s, o, TRUE)} \cup
  IF OpensPath(s, path)
  THEN {MakeInternal(res, LowestFree(s)) :
          res \in MapHandle(Opened(s, path), o, LowestFree(s), r)}
  ELSE {}

MapResults(s, o) ==
  (UNION {MapPath(s, o, path, r) : path \in Files \cup {NoFile}, r \in Requests}) \cup
  (UNION {MapHandle(s, o, handle, r) : handle \in user \cup {invalid_handle}, r \in Requests})

(***************************************************************************)
(* The calls.  A default constructor leaves is_handle_internal_ as it is   *)
(* in memory; a constructor that maps throws when map reports an error.    *)
(***************************************************************************)
DefaultConstruct(o) ==
  /\ o \notin living
  /\ \E garbage \in BOOLEAN : mmap' = [mmap EXCEPT ![o] = Unset(garbage)]
  /\ living' = living \cup {o}
  /\ failed' = FALSE
  /\ UNCHANGED <<os, user>>

ConstructMapped(o) ==
  /\ o \notin living
  /\ \E res \in MapResults(os, Unset(FALSE)) :
       /\ IF res.failed
          THEN UNCHANGED <<living, mmap>>
          ELSE living' = living \cup {o} /\ mmap' = [mmap EXCEPT ![o] = res.mmap]
       /\ os' = res.os
       /\ failed' = res.failed
  /\ UNCHANGED user

make_mmap(o) ==
  /\ o \notin living
  /\ \E garbage \in BOOLEAN : \E res \in MapResults(os, Unset(garbage)) :
       /\ mmap' = [mmap EXCEPT ![o] = res.mmap]
       /\ os' = res.os
       /\ failed' = res.failed
  /\ living' = living \cup {o}
  /\ UNCHANGED user

Map(o) ==
  /\ o \in living
  /\ \E res \in MapResults(os, mmap[o]) :
       /\ mmap' = [mmap EXCEPT ![o] = res.mmap]
       /\ os' = res.os
       /\ failed' = res.failed
  /\ UNCHANGED <<living, user>>

Unmap(o) ==
  /\ o \in living
  /\ os' = Released(os, mmap[o])
  /\ mmap' = [mmap EXCEPT ![o] = Reset(@)]
  /\ failed' = FALSE
  /\ UNCHANGED <<living, user>>

Sync(o) ==
  /\ AccessMode = "write" /\ o \in living
  /\ os' = Synced(os, mmap[o])
  /\ failed' \in {~ SyncAccepts(os, mmap[o]), TRUE}
  /\ UNCHANGED <<living, mmap, user>>

MoveConstruct(o, other) ==
  /\ o \notin living /\ other \in living
  /\ mmap' = [mmap EXCEPT ![o] = mmap[other],
                          ![other] = Unset(mmap[other].is_handle_internal)]
  /\ living' = living \cup {o}
  /\ failed' = FALSE
  /\ UNCHANGED <<os, user>>

MoveAssign(o, other) ==
  /\ {o, other} \subseteq living
  /\ IF o = other THEN UNCHANGED <<mmap, os>> ELSE
     /\ os' = Released(os, mmap[o])
     /\ mmap' = [mmap EXCEPT ![o] = mmap[other], ![other] = Unset(FALSE)]
  /\ failed' = FALSE
  /\ UNCHANGED <<living, user>>

Swap(o, other) ==
  /\ {o, other} \subseteq living
  /\ mmap' = [mmap EXCEPT ![o] = mmap[other], ![other] = mmap[o]]
  /\ failed' = FALSE
  /\ UNCHANGED <<living, os, user>>

Destroy(o) ==
  /\ o \in living
  /\ os' = Destructed(os, mmap[o])
  /\ mmap' = [mmap EXCEPT ![o] = Unset(FALSE)]
  /\ living' = living \ {o}
  /\ failed' = FALSE
  /\ UNCHANGED user

(***************************************************************************)
(* The caller's own descriptors, and its writes to a mapping.              *)
(***************************************************************************)
Holding(a) ==
  {b \in Live(os) : b <= a /\ a < b + WholePages(os.regions[b].length)}

Write(o) ==
  /\ AccessMode = "write" /\ o \in living /\ is_mapped(mmap[o]) /\ ~ empty(mmap[o])
  /\ os' = [os EXCEPT !.dirty = @ \cup Holding(begin(mmap[o]))]
  /\ UNCHANGED <<living, mmap, user, failed>>

UserOpens(file) ==
  /\ CanOpen(os)
  /\ os' = Opened(os, file)
  /\ user' = user \cup {LowestFree(os)}
  /\ UNCHANGED <<living, mmap, failed>>

UserCloses(handle) ==
  /\ os' = Closed(os, handle)
  /\ user' = user \ {handle}
  /\ UNCHANGED <<living, mmap, failed>>

Environment ==
  \/ \E file \in Files : UserOpens(file)
  \/ \E handle \in user : UserCloses(handle)

OnOne(o) ==
  \/ DefaultConstruct(o) \/ ConstructMapped(o) \/ make_mmap(o)
  \/ Map(o) \/ Unmap(o) \/ Sync(o) \/ Destroy(o) \/ Write(o)

OnTwo(o, other) == MoveConstruct(o, other) \/ MoveAssign(o, other) \/ Swap(o, other)

OnObjects(S) == \E o \in S : OnOne(o) \/ \E other \in S : OnTwo(o, other)

Next == OnObjects(Objects) \/ Environment

Spec == Init /\ [][Next]_vars

-----------------------------------------------------------------------------
(***************************************************************************)
(* What an object views, and the views that are as the library promises.   *)
(***************************************************************************)
NoView == [file |-> NoFile, offset |-> 0, length |-> 0]

Dangling == [NoView EXCEPT !.length = 1]

InMapping(s, o) ==
  LET start == get_mapping_start(o) IN
  /\ start \in Bases
  /\ s.regions[start].file # NoFile
  /\ s.regions[start].length = o.mapped_length
  /\ end(o) <= start + o.mapped_length

ViewOf(s, o) ==
  IF ~ is_open(o) THEN NoView
  ELSE IF ~ InMapping(s, o) THEN Dangling
  ELSE LET start == get_mapping_start(o)
           region == s.regions[start] IN
       [file |-> region.file, offset |-> region.offset + (begin(o) - start), length |-> o.length]

Opens == {o \in living : is_open(mmap[o])}

Internal == {o \in Opens : mmap[o].is_handle_internal}

(***************************************************************************)
(* Every region that the system has mapped belongs to exactly one object,  *)
(* which knows all of it, and an object that is open has its bytes within  *)
(* such a region: nothing is unmapped twice, too early or not at all,      *)
(* however mappings are moved, swapped, replaced and destroyed.            *)
(***************************************************************************)
MappingsOwned ==
  /\ Live(os) = {get_mapping_start(mmap[o]) : o \in Opens}
  /\ \A o \in Opens : InMapping(os, mmap[o])
  /\ \A a, b \in Opens : get_mapping_start(mmap[a]) = get_mapping_start(mmap[b]) => a = b

(***************************************************************************)
(* Every open descriptor is to be closed by exactly one party: the caller, *)
(* the one object that opened it, or nobody, if map failed after it opened *)
(* the file.  So the library closes no descriptor that is the caller's, or *)
(* that was closed before and has since become another file's.             *)
(***************************************************************************)
HandlesOwned ==
  LET internal == {mmap[o].file_handle : o \in Internal} IN
  /\ OpenFds(os) = user \cup internal \cup os.lost
  /\ user \cap internal = {} /\ user \cap os.lost = {} /\ internal \cap os.lost = {}
  /\ \A a, b \in Internal : mmap[a].file_handle = mmap[b].file_handle => a = b

(***************************************************************************)
(* The operators == and < of basic_mmap order all objects: of two of them  *)
(* one is less, except where both hold nothing.                            *)
(***************************************************************************)
OrdersObjects ==
  \A a, b \in living : a # b =>
    /\ Equal(mmap[a], mmap[b]) <=> a \notin Opens /\ b \notin Opens
    /\ Less(mmap[a], mmap[b]) <=> Greater(mmap[b], mmap[a])
    /\ Equal(mmap[a], mmap[b]) \/ Less(mmap[a], mmap[b]) \/ Less(mmap[b], mmap[a])

(***************************************************************************)
(* A call of map that fails leaves every object, and every region, as it   *)
(* was (mio.hpp, the strong guarantee stated in map).                      *)
(***************************************************************************)
FailedCallKeepsMappings ==
  [][failed' =>
       /\ \A o \in living : mmap'[o] = mmap[o]
       /\ os'.regions = os.regions]_vars

(***************************************************************************)
(* unmap, map and a move assignment may leave writes to the system, but no *)
(* destructor does before it tried to sync them.                           *)
(***************************************************************************)
DestructionSyncs ==
  [][os'.pending /\ ~ os.pending => living \subseteq living']_vars

(***************************************************************************)
(* A handle that map opened is closed when the object destructs (mio.hpp,  *)
(* the comment of map).                                                    *)
(***************************************************************************)
NoHandleLost == living = {} => OpenFds(os) = user

(***************************************************************************)
(* The objects, the system and the arithmetic together give each object    *)
(* the view of a range of a file that MappedViews promises.                *)
(***************************************************************************)
MV == INSTANCE MappedViews WITH view <- [o \in Objects |-> ViewOf(os, mmap[o])]

ImplementsMappedViews == MV!Spec
=============================================================================
