-------------------------- MODULE MemoryMap_proofs ---------------------------
(***************************************************************************)
(* mio: what the arithmetic of MemoryMap gives for every file, request,    *)
(* page size and width of a size_t, and what follows from it about any     *)
(* number of objects and handles that map, move and release regions.       *)
(***************************************************************************)
EXTENDS SharedMmap, FiniteSetTheorems, WellFoundedInduction, TLAPS

Sizes == 0 .. SizeLimit - 1

(***************************************************************************)
(* Arithmetic of size_t, one overflow at a time.                           *)
(***************************************************************************)
LEMMA WrapKeeps ==
  ASSUME NEW n \in Sizes
  PROVE  Wrap(n) = n
BY SizeAssumption DEF Wrap, Sizes

LEMMA WrapAbove ==
  ASSUME NEW n \in Int, SizeLimit <= n, n < 2 * SizeLimit
  PROVE  Wrap(n) = n - SizeLimit
BY SizeAssumption DEF Wrap

LEMMA WrapBelow ==
  ASSUME NEW n \in Int, -SizeLimit <= n, n < 0
  PROVE  Wrap(n) = n + SizeLimit
BY SizeAssumption DEF Wrap

(***************************************************************************)
(* A sum less one of its terms is the other one, whether or not the sum    *)
(* overflowed and the difference did so again.                             *)
(***************************************************************************)
LEMMA SumLessTerm ==
  ASSUME NEW d \in Sizes, NEW l \in Sizes
  PROVE  Wrap(Wrap(d + l) - l) = d
<1>1. SizeLimit \in Nat \ {0}
  BY SizeAssumption
<1>2. CASE d + l < SizeLimit
  <2>1. Wrap(d + l) = d + l
    BY <1>1, <1>2, WrapKeeps DEF Sizes
  <2>2. QED
    BY <1>1, <2>1, WrapKeeps DEF Sizes
<1>3. CASE SizeLimit <= d + l
  <2>1. Wrap(d + l) = d + l - SizeLimit
    BY <1>1, <1>3, WrapAbove DEF Sizes
  <2>2. d - SizeLimit \in Int /\ -SizeLimit <= d - SizeLimit /\ d - SizeLimit < 0
    BY <1>1 DEF Sizes
  <2>3. Wrap(d - SizeLimit) = d
    BY <1>1, <2>2, WrapBelow DEF Sizes
  <2>4. QED
    BY <1>1, <2>1, <2>3 DEF Sizes
<1>4. QED
  BY <1>1, <1>2, <1>3 DEF Sizes

LEMMA Aligned ==
  ASSUME NEW offset \in Nat
  PROVE  /\ make_offset_page_aligned(offset) \in Nat
         /\ make_offset_page_aligned(offset) <= offset
         /\ offset < make_offset_page_aligned(offset) + PageSize
         /\ make_offset_page_aligned(offset) % PageSize = 0
BY SizeAssumption DEF make_offset_page_aligned

(***************************************************************************)
(* basic_mmap keeps the address of the first byte asked for and two        *)
(* lengths, but not the start of the region: get_mapping_start, which sync *)
(* and unmap rely on, finds it again, for every request, even one whose    *)
(* sum of offset and length overflows.                                     *)
(***************************************************************************)
THEOREM MappingStartRecovered ==
  ASSUME NEW base \in Nat \ {0}, NEW offset \in Sizes, NEW length \in Sizes, NEW o,
         o.data = mmap_context(base, offset, length).data,
         o.length = mmap_context(base, offset, length).length,
         o.mapped_length = mmap_context(base, offset, length).mapped_length
  PROVE  get_mapping_start(o) = base
<1> DEFINE aligned == make_offset_page_aligned(offset)
           d == offset - aligned
<1>1. offset \in Nat /\ SizeLimit \in Nat \ {0}
  BY SizeAssumption DEF Sizes
<1>2. aligned \in Nat /\ aligned <= offset
  BY <1>1, Aligned
<1> HIDE DEF aligned
<1>3. d \in Sizes
  BY <1>1, <1>2 DEF Sizes
<1>4. o.data = base + d /\ o.length = length /\ o.mapped_length = Wrap(d + length)
  BY DEF mmap_context, LengthToMap, aligned
<1>5. mapping_offset(o) = d
  BY <1>3, <1>4, SumLessTerm DEF mapping_offset
<1>6. o.data # nullptr
  BY <1>3, <1>4 DEF nullptr, Sizes
<1>7. QED
  BY <1>3, <1>4, <1>5, <1>6 DEF get_mapping_start, Sizes

(***************************************************************************)
(* A request that map accepts is met: the bytes are within the file, begin *)
(* at its offset, lie within the region that is mapped, and are as many as *)
(* were asked for, which is all from the offset on for map_entire_file.    *)
(***************************************************************************)
THEOREM RequestMet ==
  ASSUME NEW fileSize \in Sizes, NEW r \in [offset : Sizes, length : Sizes],
         r.offset + r.length < SizeLimit, Accepts(fileSize, r),
         NEW base \in Nat,
         NEW length, length = LengthOf(fileSize, r),
         NEW ctx, ctx = mmap_context(base, r.offset, length)
  PROVE  /\ length \in Sizes /\ r.offset + length <= fileSize
         /\ r.length # map_entire_file => length = r.length
         /\ r.length = map_entire_file => r.offset + length = fileSize
         /\ ctx.length = length
         /\ make_offset_page_aligned(r.offset) + (ctx.data - base) = r.offset
         /\ base <= ctx.data /\ ctx.data + ctx.length = base + ctx.mapped_length
<1> DEFINE aligned == make_offset_page_aligned(r.offset)
           d == r.offset - aligned
<1>1. SizeLimit \in Nat \ {0} /\ r.offset \in Sizes /\ r.length \in Sizes
  BY SizeAssumption
<1>2. r.offset + r.length <= fileSize
  <2>1. r.offset + r.length \in Sizes
    BY <1>1 DEF Sizes
  <2>2. QED
    BY <2>1, WrapKeeps DEF Accepts
<1>3. /\ length \in Sizes /\ r.offset + length <= fileSize
      /\ r.length # map_entire_file => length = r.length
      /\ r.length = map_entire_file => r.offset + length = fileSize
  BY <1>1, <1>2 DEF LengthOf, Sizes, map_entire_file
<1>4. aligned \in Nat /\ aligned <= r.offset
  BY <1>1, Aligned DEF Sizes
<1> HIDE DEF aligned
<1>5. d + length \in Sizes
  BY <1>1, <1>3, <1>4 DEF Sizes
<1>6. /\ ctx.data = base + d
      /\ ctx.length = length
      /\ ctx.mapped_length = d + length
  BY <1>5, WrapKeeps DEF mmap_context, LengthToMap, aligned
<1>7. aligned + (ctx.data - base) = r.offset
  BY <1>1, <1>4, <1>6 DEF Sizes
<1>8. base <= ctx.data /\ ctx.data + ctx.length = base + ctx.mapped_length
  BY <1>1, <1>3, <1>4, <1>6 DEF Sizes
<1>9. QED
  BY <1>3, <1>6, <1>7, <1>8 DEF aligned
-----------------------------------------------------------------------------
(***************************************************************************)
(* The invariant of objects, system and caller.  It is about any system s, *)
(* any fields m of the objects and any descriptors U of the caller, so     *)
(* that what a call does in between can be followed as well.               *)
(***************************************************************************)
System ==
  [fds : [Fds -> Files \cup {NoFile}], regions : [Bases -> Region],
   dirty : SUBSET Bases, pending : BOOLEAN, lost : SUBSET Fds]

Holders(m) == {o \in Objects : is_open(m[o])}

Owners(m) == {o \in Holders(m) : m[o].is_handle_internal}

(***************************************************************************)
(* The fields of an object that is open tell all about the region at b,    *)
(* which is within its file; the first byte is in the first page of it.    *)
(***************************************************************************)
Backed(s, o, b) ==
  /\ get_mapping_start(o) = b /\ o.data # nullptr
  /\ b \in Live(s)
  /\ s.regions[b].length = o.mapped_length /\ 0 < o.mapped_length
  /\ b <= o.data /\ o.data < b + PageSize
  /\ o.data + o.length = b + o.mapped_length
  /\ s.regions[b].offset + o.mapped_length <= FileSize[s.regions[b].file]

Apart(s) ==
  \A a, b \in Live(s) :
    a # b => ~ Overlap(a, s.regions[a].length, b, s.regions[b].length)

RegionsOwned(s, m) ==
  /\ Apart(s)
  /\ \A o \in Holders(m) : Backed(s, m[o], get_mapping_start(m[o]))
  /\ \A b \in Live(s) : \E o \in Holders(m) : get_mapping_start(m[o]) = b
  /\ \A o, x \in Holders(m) : get_mapping_start(m[o]) = get_mapping_start(m[x]) => o = x
  /\ \A o \in Objects \ Holders(m) : m[o] = Unset(m[o].is_handle_internal)

DescriptorsOwned(s, m, U) ==
  /\ U \subseteq OpenFds(s) /\ s.lost \subseteq OpenFds(s) /\ U \cap s.lost = {}
  /\ \A o \in Owners(m) : m[o].file_handle \in OpenFds(s) \ (U \cup s.lost)
  /\ \A d \in OpenFds(s) \ (U \cup s.lost) : \E o \in Owners(m) : m[o].file_handle = d
  /\ \A o, x \in Owners(m) : m[o].file_handle = m[x].file_handle => o = x

Sound(s, m, U) ==
  /\ s \in System /\ s.dirty \subseteq Live(s)
  /\ m \in [Objects -> Object]
  /\ RegionsOwned(s, m)
  /\ DescriptorsOwned(s, m, U)

-----------------------------------------------------------------------------
(***************************************************************************)
(* Whole pages, and the lowest of the free descriptors.                    *)
(***************************************************************************)
LEMMA WholePagesBound ==
  ASSUME NEW l \in Nat, 0 < l
  PROVE  WholePages(l) \in Nat /\ l <= WholePages(l) /\ PageSize <= WholePages(l)
<1>1. PICK P : P = PageSize
  OBVIOUS
<1>2. PICK q : q = (l + P - 1) \div P
  OBVIOUS
<1>3. P \in Nat \ {0}
  BY <1>1, SizeAssumption
<1>4. q \in Nat /\ q * P \in Nat /\ (l + P - 1) < q * P + P
  BY <1>2, <1>3
<1>5. q # 0
  BY <1>3, <1>4
<1>6. P <= q * P
  BY <1>3, <1>4, <1>5
<1>7. WholePages(l) = q * P
  BY <1>1, <1>2 DEF WholePages
<1>8. l <= q * P
  BY <1>3, <1>4
<1> QED
  BY <1>1, <1>4, <1>6, <1>7, <1>8

LEMMA LowestFreeIsFree ==
  ASSUME NEW s, CanOpen(s)
  PROVE  LowestFree(s) \in Fds \ OpenFds(s)
<1> DEFINE T == Fds \ OpenFds(s)
<1>1. T \subseteq Nat /\ T # {}
  BY DescriptorsAssumption DEF CanOpen, OpenFds
<1> HIDE DEF T
<1>2. PICK k \in T : TRUE
  BY <1>1
<1> DEFINE I == 0 .. k
           Below == {x \in SUBSET I : \E n \in T : n <= k /\ x = 0 .. n}
<1>3. IsWellFoundedOn(StrictSubsetOrdering(I), SUBSET I)
  <2>1. IsFiniteSet(I)
    BY <1>1, FS_Interval
  <2> QED
    BY <2>1, FS_FiniteSubsetsOfFinite, FS_StrictSubsetOrderingWellFounded, Zenon
<1>4. Below \subseteq SUBSET I /\ 0 .. k \in Below
  BY <1>1, <1>2
<1>5. PICK x \in Below : \A y \in Below : ~ (<<y, x>> \in StrictSubsetOrdering(I))
  <2> HIDE DEF Below, I
  <2> QED
    BY <1>3, <1>4, WFMin, Zenon
<1>6. PICK n \in T : n <= k /\ x = 0 .. n
  OBVIOUS
<1>7. ASSUME NEW j \in T, j < n PROVE FALSE
  <2>1. 0 .. j \in Below /\ 0 .. j \subseteq x /\ 0 .. j # x
    <3>1. j \in Nat /\ n \in Nat /\ k \in Nat
      BY <1>1
    <3>2. n \in 0 .. n /\ n \notin 0 .. j
      BY <1>7, <3>1
    <3> QED
      BY <1>6, <1>7, <3>1, <3>2
  <2> QED
    BY <1>4, <1>5, <2>1 DEF StrictSubsetOrdering
<1>8. \E y \in T : \A j \in T : y <= j
  BY <1>1, <1>6, <1>7
<1> QED
  BY <1>8 DEF LowestFree, Min, T

-----------------------------------------------------------------------------
(***************************************************************************)
(* The inductive invariants of BasicMmap and of SharedMmap.  An object     *)
(* that does not exist holds nothing, one on the heap exists as long as    *)
(* handles have it, and nothing is written to a mapping for reading.       *)
(***************************************************************************)
Basic ==
  /\ Sound(os, mmap, user)
  /\ living \subseteq Objects /\ Holders(mmap) \subseteq living
  /\ AccessMode = "read" => os.dirty = {}
  /\ failed \in BOOLEAN

Referenced ==
  /\ shared \subseteq Shared
  /\ pimpl \in [Shared -> Heap \cup {NoImpl}]
  /\ \A t \in Shared : pimpl[t] # NoImpl => t \in shared /\ pimpl[t] \in living
  /\ \A h \in Heap \cap living : \E t \in Shared : pimpl[t] = h

IInv == Basic /\ Referenced
-----------------------------------------------------------------------------
(***************************************************************************)
(* unmap of an object that is open takes its region from the system, that  *)
(* one only, and closes its descriptor if it is the object's own.          *)
(***************************************************************************)
ReleasedTo(s, o, b, t) ==
  /\ t \in System
  /\ t.fds = IF o.is_handle_internal THEN [s.fds EXCEPT ![o.file_handle] = NoFile] ELSE s.fds
  /\ t.regions = [s.regions EXCEPT ![b] = NoRegion]
  /\ t.dirty = s.dirty \ {b}
  /\ t.pending = (s.pending \/ b \in s.dirty)
  /\ t.lost = s.lost

LEMMA LiveRegion ==
  ASSUME NEW s \in System, NEW b \in Live(s)
  PROVE  /\ b \in Bases /\ b \in Nat \ {0} /\ b % PageSize = 0
         /\ s.regions[b] \in Region /\ s.regions[b].file \in Files
         /\ s.regions[b].length \in Nat /\ s.regions[b].offset \in Nat
BY DescriptorsAssumption DEF System, Live, Region

LEMMA OnlyItsRegion ==
  ASSUME NEW s \in System, NEW b \in Live(s), 0 < s.regions[b].length,
         \A c \in Live(s) : c # b => ~ Overlap(b, s.regions[b].length, c, s.regions[c].length)
  PROVE  InRange(s, b, s.regions[b].length) = {b}
<1>1. b \in Nat /\ s.regions[b].length \in Nat
  BY LiveRegion
<1>2. Overlap(b, s.regions[b].length, b, s.regions[b].length)
  <2>1. PICK l : l = s.regions[b].length
    OBVIOUS
  <2>2. l \in Nat /\ 0 < l
    BY <1>1, <2>1
  <2>3. PICK w : w = WholePages(l)
    OBVIOUS
  <2>4. w \in Nat /\ 0 < w
    BY <2>2, <2>3, WholePagesBound
  <2> QED
    BY <1>1, <2>1, <2>3, <2>4 DEF Overlap
<1> QED
  BY <1>2 DEF InRange

LEMMA ReleasedIs ==
  ASSUME NEW s \in System, NEW o \in Object, is_open(o),
         NEW b, Backed(s, o, b),
         \A c \in Live(s) : c # b => ~ Overlap(b, s.regions[b].length, c, s.regions[c].length)
  PROVE  ReleasedTo(s, o, b, Released(s, o))
<1>1. b \in Live(s) /\ b = get_mapping_start(o) /\ o.data # nullptr
      /\ s.regions[b].length = o.mapped_length /\ 0 < o.mapped_length
  BY DEF Backed
<1>2. InRange(s, b, o.mapped_length) = {b}
  BY <1>1, OnlyItsRegion
<1>3. b % PageSize = 0 /\ o.mapped_length # 0
  BY <1>1, LiveRegion DEF Object
<1> DEFINE u == Unmapped(s, b, o.mapped_length)
<1>4. PICK Q : Q = (s.pending \/ s.dirty \cap {b} # {})
  OBVIOUS
<1>5. Q \in BOOLEAN /\ Q = (s.pending \/ b \in s.dirty)
  <2>1. (s.dirty \cap {b} # {}) <=> b \in s.dirty
    OBVIOUS
  <2>2. s.pending \in BOOLEAN
    BY DEF System
  <2> QED
    BY <1>4, <2>1, <2>2, Zenon
<1>6. /\ u \in System
      /\ u.fds = s.fds /\ u.lost = s.lost
      /\ u.regions = [s.regions EXCEPT ![b] = NoRegion]
      /\ u.dirty = s.dirty \ {b}
      /\ u.pending = Q
  <2>1. u = [s EXCEPT !.regions = [c \in Bases |-> IF c \in {b} THEN NoRegion ELSE @[c]],
                      !.dirty = @ \ {b},
                      !.pending = @ \/ s.dirty \cap {b} # {}]
    BY <1>2, <1>3 DEF Unmapped
  <2>2. PICK R : R = [c \in Bases |-> IF c \in {b} THEN NoRegion ELSE s.regions[c]]
    OBVIOUS
  <2>3. u = [s EXCEPT !.regions = R, !.dirty = s.dirty \ {b}, !.pending = Q]
    BY <1>4, <2>1, <2>2, Zenon
  <2>4. R \in [Bases -> Region] /\ R = [s.regions EXCEPT ![b] = NoRegion]
    BY <2>2 DEF System, NoRegion, Region
  <2> HIDE DEF u
  <2> QED
    BY <1>5, <2>3, <2>4 DEF System
<1>7. Released(s, o) = CloseInternal(u, o)
  BY <1>1 DEF Released
<1> HIDE DEF u
<1>8. CASE ~ o.is_handle_internal
  BY <1>5, <1>6, <1>7, <1>8, Zenon DEF CloseInternal, ReleasedTo
<1>9. CASE o.is_handle_internal
  <2>1. Released(s, o) = [u EXCEPT !.fds[o.file_handle] = NoFile]
    BY <1>7, <1>9 DEF CloseInternal, Closed
  <2>2. /\ [u EXCEPT !.fds[o.file_handle] = NoFile] \in System
        /\ [u EXCEPT !.fds[o.file_handle] = NoFile].pending = u.pending
    BY <1>6 DEF System
  <2>3. /\ [u EXCEPT !.fds[o.file_handle] = NoFile].fds = [u.fds EXCEPT ![o.file_handle] = NoFile]
        /\ [u EXCEPT !.fds[o.file_handle] = NoFile].regions = u.regions
        /\ [u EXCEPT !.fds[o.file_handle] = NoFile].dirty = u.dirty
        /\ [u EXCEPT !.fds[o.file_handle] = NoFile].lost = u.lost
    BY <1>6 DEF System
  <2> QED
    BY <1>5, <1>6, <1>9, <2>1, <2>2, <2>3, Zenon DEF ReleasedTo
<1> QED
  BY <1>8, <1>9
-----------------------------------------------------------------------------
(***************************************************************************)
(* Each change of objects and system that a call is made of keeps them     *)
(* sound.                                                                  *)
(***************************************************************************)
LEMMA UnsetIs ==
  ASSUME NEW g \in BOOLEAN
  PROVE  /\ Unset(g) \in Object /\ ~ is_open(Unset(g))
         /\ Unset(g).is_handle_internal = g
BY DEF Unset, Object, is_open, invalid_handle, nullptr

LEMMA ObjectsReplaced ==
  ASSUME NEW m \in [Objects -> Object], NEW o \in Objects, NEW new \in Object,
         NEW n, n = [m EXCEPT ![o] = new]
  PROVE  /\ n \in [Objects -> Object] /\ n[o] = new
         /\ \A x \in Objects \ {o} : n[x] = m[x]
         /\ ~ is_open(new) => Holders(n) = Holders(m) \ {o} /\ Owners(n) = Owners(m) \ {o}
         /\ is_open(new) => Holders(n) = Holders(m) \cup {o}
         /\ is_open(new) /\ ~ new.is_handle_internal => Owners(n) = Owners(m) \ {o}
BY DEF Holders, Owners

LEMMA BackedKept ==
  ASSUME NEW s, NEW t, NEW o, NEW b, Backed(s, o, b), t.regions[b] = s.regions[b]
  PROVE  Backed(t, o, b)
BY DEF Backed, Live

LEMMA SoundReleased ==
  ASSUME NEW s, NEW m, NEW U, Sound(s, m, U), NEW o \in Holders(m), NEW g \in BOOLEAN,
         NEW n, n = [m EXCEPT ![o] = Unset(g)],
         NEW t, ReleasedTo(s, m[o], get_mapping_start(m[o]), t)
  PROVE  Sound(t, n, U)
<1> DEFINE b == get_mapping_start(m[o])
<1>1. /\ s \in System /\ s.dirty \subseteq Live(s) /\ m \in [Objects -> Object]
      /\ o \in Objects /\ is_open(m[o])
  BY DEF Sound, Holders
<1>2. /\ n \in [Objects -> Object] /\ n[o] = Unset(g)
      /\ \A x \in Objects \ {o} : n[x] = m[x]
      /\ Holders(n) = Holders(m) \ {o} /\ Owners(n) = Owners(m) \ {o}
  <2>1. Unset(g) \in Object /\ ~ is_open(Unset(g))
    BY UnsetIs
  <2> HIDE DEF b
  <2> QED
    BY <1>1, <2>1 DEF Holders, Owners
<1>3. /\ Backed(s, m[o], b) /\ b \in Live(s) /\ b \in Bases
  BY DEF Sound, RegionsOwned, Backed, Live
<1>4. t \in System /\ t.regions = [s.regions EXCEPT ![b] = NoRegion]
      /\ t.dirty = s.dirty \ {b} /\ t.lost = s.lost
  BY DEF ReleasedTo
<1>5. /\ Live(t) = Live(s) \ {b}
      /\ \A c \in Bases \ {b} : t.regions[c] = s.regions[c]
  BY <1>1, <1>3, <1>4 DEF System, Live, NoRegion
<1> HIDE DEF b
<1>6. RegionsOwned(t, n)
  <2>1. Apart(t)
    BY <1>5 DEF Sound, RegionsOwned, Apart, Live
  <2>2. \A x \in Holders(n) : Backed(t, n[x], get_mapping_start(n[x]))
    <3>1. TAKE x \in Holders(n)
    <3>2. x \in Holders(m) /\ x \in Objects /\ x # o /\ n[x] = m[x]
      BY <1>2 DEF Holders
    <3>3. Backed(s, m[x], get_mapping_start(m[x])) /\ get_mapping_start(m[x]) # b
      BY <1>1, <3>2 DEF Sound, RegionsOwned, b
    <3>4. t.regions[get_mapping_start(m[x])] = s.regions[get_mapping_start(m[x])]
      BY <1>5, <3>3 DEF Backed, Live
    <3> QED
      BY <3>2, <3>3, <3>4, BackedKept
  <2>3. \A c \in Live(t) : \E x \in Holders(n) : get_mapping_start(n[x]) = c
    BY <1>2, <1>5 DEF Sound, RegionsOwned, b, Holders
  <2>4. \A x, y \in Holders(n) : get_mapping_start(n[x]) = get_mapping_start(n[y]) => x = y
    BY <1>2 DEF Sound, RegionsOwned, Holders
  <2>5. \A x \in Objects \ Holders(n) : n[x] = Unset(n[x].is_handle_internal)
    BY <1>2, UnsetIs DEF Sound, RegionsOwned
  <2> QED
    BY <2>1, <2>2, <2>3, <2>4, <2>5 DEF RegionsOwned
<1>7. DescriptorsOwned(t, n, U)
  <2>1. /\ m[o].file_handle \in Fds
        /\ Owners(m) \subseteq Objects
        /\ \A x \in Owners(n) : n[x] = m[x]
    BY <1>1, <1>2 DEF Object, is_open, Holders, Owners
  <2>2. CASE ~ m[o].is_handle_internal
    <3>1. t.fds = s.fds /\ o \notin Owners(m)
      BY <2>2 DEF ReleasedTo, Owners
    <3>2. OpenFds(t) = OpenFds(s) /\ Owners(n) = Owners(m)
      BY <1>2, <3>1 DEF OpenFds
    <3>3. \A x \in Owners(m) : n[x] = m[x]
      BY <2>1, <3>2
    <3>4. DescriptorsOwned(s, m, U) /\ t.lost = s.lost
      BY <1>4 DEF Sound
    <3>6. \A d \in OpenFds(t) \ (U \cup t.lost) : \E x \in Owners(n) : n[x].file_handle = d
      BY <3>2, <3>3, <3>4 DEF DescriptorsOwned
    <3>7. \A x \in Owners(n) : n[x].file_handle \in OpenFds(t) \ (U \cup t.lost)
      BY <3>2, <3>3, <3>4 DEF DescriptorsOwned
    <3>8. \A x, y \in Owners(n) : n[x].file_handle = n[y].file_handle => x = y
      BY <3>2, <3>3, <3>4 DEF DescriptorsOwned
    <3> QED
      BY <3>2, <3>4, <3>6, <3>7, <3>8 DEF DescriptorsOwned
  <2>3. CASE m[o].is_handle_internal
    <3>1. o \in Owners(m) /\ t.fds = [s.fds EXCEPT ![m[o].file_handle] = NoFile]
      BY <2>3 DEF ReleasedTo, Owners
    <3>2. OpenFds(t) = OpenFds(s) \ {m[o].file_handle}
      BY <1>1, <2>1, <3>1 DEF OpenFds, System
    <3>3. DescriptorsOwned(s, m, U)
      BY DEF Sound
    <3>4. \A d \in OpenFds(t) \ (U \cup t.lost) : \E x \in Owners(n) : n[x].file_handle = d
      BY <1>2, <1>4, <2>1, <3>1, <3>2, <3>3 DEF DescriptorsOwned
    <3>5. \A x \in Owners(n) : n[x].file_handle \in OpenFds(t) \ (U \cup t.lost)
      BY <1>2, <1>4, <2>1, <3>1, <3>2, <3>3 DEF DescriptorsOwned
    <3>6. \A x, y \in Owners(n) : n[x].file_handle = n[y].file_handle => x = y
      BY <1>2, <2>1, <3>3 DEF DescriptorsOwned
    <3>7. /\ U \subseteq OpenFds(t) /\ t.lost \subseteq OpenFds(t) /\ U \cap t.lost = {}
      BY <1>4, <3>1, <3>2, <3>3 DEF DescriptorsOwned
    <3> QED
      BY <3>4, <3>5, <3>6, <3>7 DEF DescriptorsOwned
  <2> QED
    BY <2>2, <2>3
<1> QED
  BY <1>1, <1>2, <1>4, <1>5, <1>6, <1>7 DEF Sound

LEMMA SoundUnset ==
  ASSUME NEW s, NEW m, NEW U, Sound(s, m, U), NEW o \in Objects \ Holders(m),
         NEW g \in BOOLEAN, NEW n, n = [m EXCEPT ![o] = Unset(g)]
  PROVE  Sound(s, n, U) /\ Holders(n) = Holders(m)
<1>1. /\ m \in [Objects -> Object]
  BY DEF Sound
<1>2. /\ n \in [Objects -> Object] /\ n[o] = Unset(g)
      /\ \A x \in Objects \ {o} : n[x] = m[x]
      /\ Holders(n) = Holders(m) /\ Owners(n) = Owners(m)
      /\ Holders(m) \subseteq Objects \ {o} /\ Owners(m) \subseteq Holders(m)
  BY <1>1, UnsetIs, ObjectsReplaced DEF Holders, Owners
<1>3. RegionsOwned(s, n)
  BY <1>2, UnsetIs DEF Sound, RegionsOwned
<1>4. DescriptorsOwned(s, n, U)
  BY ZenonT(30), <1>2 DEF Sound, DescriptorsOwned
<1> QED
  BY <1>2, <1>3, <1>4 DEF Sound

LEMMA SoundSwapped ==
  ASSUME NEW s, NEW m, NEW U, Sound(s, m, U), NEW o \in Objects, NEW x \in Objects,
         NEW n, n = [m EXCEPT ![o] = m[x], ![x] = m[o]]
  PROVE  /\ Sound(s, n, U)
         /\ Holders(n) = {y \in Objects : is_open(m[IF y = o THEN x ELSE IF y = x THEN o ELSE y])}
<1> DEFINE f(y) == IF y = o THEN x ELSE IF y = x THEN o ELSE y
<1>1. /\ m \in [Objects -> Object]
  BY DEF Sound
<1>2. /\ n \in [Objects -> Object]
      /\ \A y \in Objects : n[y] = m[f(y)] /\ f(y) \in Objects /\ f(f(y)) = y
  BY <1>1
<1> HIDE DEF f
<1>3. /\ \A y \in Objects : y \in Holders(n) <=> f(y) \in Holders(m)
      /\ \A y \in Objects : y \in Owners(n) <=> f(y) \in Owners(m)
  BY <1>2 DEF Holders, Owners
<1>4. /\ Holders(m) \subseteq Objects /\ Owners(m) \subseteq Objects
      /\ Holders(n) \subseteq Objects /\ Owners(n) \subseteq Objects
  BY DEF Holders, Owners
<1>5. RegionsOwned(s, n)
  <2>1. RegionsOwned(s, m)
    BY DEF Sound
  <2>2. \A y \in Holders(n) : Backed(s, n[y], get_mapping_start(n[y]))
    BY <1>2, <1>3, <1>4, <2>1 DEF RegionsOwned
  <2>3. \A b \in Live(s) : \E y \in Holders(n) : get_mapping_start(n[y]) = b
    <3>1. TAKE b \in Live(s)
    <3>2. PICK y \in Holders(m) : get_mapping_start(m[y]) = b
      BY <2>1 DEF RegionsOwned
    <3>3. f(y) \in Holders(n) /\ n[f(y)] = m[y]
      BY <1>2, <1>3, <1>4, <3>2
    <3> QED
      BY <3>2, <3>3
  <2>4. \A y, z \in Holders(n) : get_mapping_start(n[y]) = get_mapping_start(n[z]) => y = z
    <3>1. TAKE y, z \in Holders(n)
    <3>2. HAVE get_mapping_start(n[y]) = get_mapping_start(n[z])
    <3>3. f(y) \in Holders(m) /\ f(z) \in Holders(m) /\ y \in Objects /\ z \in Objects
      BY <1>3, <1>4
    <3>4. f(y) = f(z)
      BY <1>2, <2>1, <3>2, <3>3 DEF RegionsOwned
    <3> QED
      BY <1>2, <3>3, <3>4
  <2>5. \A y \in Objects \ Holders(n) : n[y] = Unset(n[y].is_handle_internal)
    BY <1>2, <1>3, <2>1 DEF RegionsOwned
  <2> QED
    BY <2>1, <2>2, <2>3, <2>4, <2>5 DEF RegionsOwned
<1>6. DescriptorsOwned(s, n, U)
  <2>1. DescriptorsOwned(s, m, U)
    BY DEF Sound
  <2>2. \A y \in Owners(n) : n[y].file_handle \in OpenFds(s) \ (U \cup s.lost)
    BY <1>2, <1>3, <1>4, <2>1 DEF DescriptorsOwned
  <2>3. \A d \in OpenFds(s) \ (U \cup s.lost) : \E y \in Owners(n) : n[y].file_handle = d
    <3>1. TAKE d \in OpenFds(s) \ (U \cup s.lost)
    <3>2. PICK y \in Owners(m) : m[y].file_handle = d
      BY <2>1 DEF DescriptorsOwned
    <3>3. f(y) \in Owners(n) /\ n[f(y)] = m[y]
      BY ZenonT(30), <1>2, <1>3, <1>4, <3>2
    <3> QED
      BY <3>2, <3>3
  <2>4. \A y, z \in Owners(n) : n[y].file_handle = n[z].file_handle => y = z
    <3>1. TAKE y, z \in Owners(n)
    <3>2. HAVE n[y].file_handle = n[z].file_handle
    <3>3. f(y) \in Owners(m) /\ f(z) \in Owners(m) /\ y \in Objects /\ z \in Objects
      BY <1>3, <1>4
    <3>4. f(y) = f(z)
      BY <1>2, <2>1, <3>2, <3>3 DEF DescriptorsOwned
    <3> QED
      BY <1>2, <3>3, <3>4
  <2> QED
    BY <2>1, <2>2, <2>3, <2>4 DEF DescriptorsOwned
<1>7. Holders(n) = {y \in Objects : is_open(m[f(y)])}
  BY <1>2 DEF Holders
<1> QED
  BY <1>1, <1>2, <1>5, <1>6, <1>7 DEF Sound, f
LEMMA SameRegions ==
  ASSUME NEW s, NEW t, t.regions = s.regions, NEW m
  PROVE  Live(t) = Live(s) /\ (RegionsOwned(s, m) => RegionsOwned(t, m))
BY DEF Live, RegionsOwned, Apart, Backed

LEMMA SoundMapped ==
  ASSUME NEW s, NEW m, NEW U, Sound(s, m, U), NEW o \in Objects \ Holders(m),
         NEW new \in Object, is_open(new), ~ new.is_handle_internal,
         NEW n, n = [m EXCEPT ![o] = new],
         NEW b \in Bases \ Live(s), NEW region \in Region,
         \A c \in Live(s) : ~ Overlap(b, region.length, c, s.regions[c].length),
         NEW t \in System, t.fds = s.fds, t.lost = s.lost, t.dirty = s.dirty,
         t.regions = [s.regions EXCEPT ![b] = region],
         Backed(t, new, b)
  PROVE  Sound(t, n, U)
<1>1. /\ s \in System /\ s.dirty \subseteq Live(s) /\ m \in [Objects -> Object]
      /\ RegionsOwned(s, m) /\ DescriptorsOwned(s, m, U)
  BY DEF Sound
<1>2. /\ n \in [Objects -> Object] /\ n[o] = new
      /\ \A x \in Objects \ {o} : n[x] = m[x]
      /\ Holders(n) = Holders(m) \cup {o} /\ Owners(n) = Owners(m)
      /\ Holders(m) \subseteq Objects \ {o} /\ Owners(m) \subseteq Objects \ {o}
  BY <1>1 DEF Holders, Owners
<1>3. /\ t.regions[b] = region /\ \A c \in Bases \ {b} : t.regions[c] = s.regions[c]
  BY <1>1 DEF System
<1>4. Live(t) = Live(s) \cup {b} /\ Live(s) \subseteq Bases \ {b}
  BY <1>3 DEF Backed, Live
<1>5. get_mapping_start(new) = b
  BY DEF Backed
<1>6. \A x \in Holders(m) : /\ get_mapping_start(m[x]) \in Live(s)
                            /\ Backed(s, m[x], get_mapping_start(m[x]))
  BY <1>1 DEF RegionsOwned, Backed
<1>7. RegionsOwned(t, n)
  <2>1. Apart(t)
    <3>1. \A c \in Live(s) : ~ Overlap(c, s.regions[c].length, b, region.length)
      BY DEF Overlap
    <3> QED
      BY <1>1, <1>3, <1>4, <3>1 DEF RegionsOwned, Apart
  <2>2. \A x \in Holders(n) : Backed(t, n[x], get_mapping_start(n[x]))
    <3>1. TAKE x \in Holders(n)
    <3>2. CASE x = o
      BY <1>2, <1>5, <3>2
    <3>3. CASE x # o
      <4>1. x \in Holders(m) /\ n[x] = m[x]
        BY <1>2, <3>3
      <4>2. t.regions[get_mapping_start(m[x])] = s.regions[get_mapping_start(m[x])]
        BY <1>3, <1>4, <1>6, <4>1
      <4> QED
        BY <1>6, <4>1, <4>2, BackedKept
    <3> QED
      BY <3>2, <3>3
  <2>3. \A c \in Live(t) : \E x \in Holders(n) : get_mapping_start(n[x]) = c
    <3>1. TAKE c \in Live(t)
    <3>2. CASE c = b
      BY <1>2, <1>5, <3>2
    <3>3. CASE c # b
      <4>1. PICK x \in Holders(m) : get_mapping_start(m[x]) = c
        BY <1>1, <1>4, <3>3 DEF RegionsOwned
      <4> QED
        BY <1>2, <4>1
    <3> QED
      BY <3>2, <3>3
  <2>4. \A x, y \in Holders(n) : get_mapping_start(n[x]) = get_mapping_start(n[y]) => x = y
    BY <1>1, <1>2, <1>4, <1>5, <1>6 DEF RegionsOwned
  <2>5. \A x \in Objects \ Holders(n) : n[x] = Unset(n[x].is_handle_internal)
    BY <1>1, <1>2 DEF RegionsOwned
  <2> QED
    BY <2>1, <2>2, <2>3, <2>4, <2>5 DEF RegionsOwned
<1>8. DescriptorsOwned(t, n, U)
  <2>1. OpenFds(t) = OpenFds(s) /\ \A x \in Owners(m) : n[x] = m[x]
    BY <1>2 DEF OpenFds
  <2>2. \A x \in Owners(n) : n[x].file_handle \in OpenFds(t) \ (U \cup t.lost)
    BY <1>1, <1>2, <2>1 DEF DescriptorsOwned
  <2>3. \A d \in OpenFds(t) \ (U \cup t.lost) : \E x \in Owners(n) : n[x].file_handle = d
    BY <1>1, <1>2, <2>1 DEF DescriptorsOwned
  <2>4. \A x, y \in Owners(n) : n[x].file_handle = n[y].file_handle => x = y
    BY <1>1, <1>2, <2>1 DEF DescriptorsOwned
  <2> QED
    BY <1>1, <2>1, <2>2, <2>3, <2>4 DEF DescriptorsOwned
<1> QED
  BY <1>1, <1>2, <1>4, <1>7, <1>8 DEF Sound

LEMMA SoundDirtied ==
  ASSUME NEW s, NEW m, NEW U, Sound(s, m, U), NEW D \in SUBSET Live(s),
         NEW t, t = [s EXCEPT !.dirty = D]
  PROVE  /\ Sound(t, m, U) /\ Live(t) = Live(s)
         /\ t.fds = s.fds /\ t.regions = s.regions /\ t.dirty = D
         /\ t.pending = s.pending /\ t.lost = s.lost
<1>1. s \in System /\ D \subseteq Bases
  BY DEF Sound, Live
<1>2. /\ t \in System /\ t.fds = s.fds /\ t.regions = s.regions /\ t.dirty = D
      /\ t.pending = s.pending /\ t.lost = s.lost
  BY <1>1 DEF System
<1>3. Live(t) = Live(s) /\ RegionsOwned(t, m)
  BY <1>2, SameRegions DEF Sound
<1>4. OpenFds(t) = OpenFds(s)
  BY <1>2 DEF OpenFds
<1>5. DescriptorsOwned(t, m, U)
  BY <1>2, <1>4 DEF Sound, DescriptorsOwned
<1> QED
  BY <1>2, <1>3, <1>5 DEF Sound

(***************************************************************************)
(* Descriptors are opened by the caller, or by map for the moment until it *)
(* gives them to an object or loses them; then they are not the caller's.  *)
(***************************************************************************)
LEMMA SoundOpened ==
  ASSUME NEW s, NEW m, NEW U, Sound(s, m, U), CanOpen(s), NEW file \in Files,
         NEW t, t = Opened(s, file)
  PROVE  /\ Sound(t, m, U \cup {LowestFree(s)})
         /\ LowestFree(s) \in Fds /\ LowestFree(s) \notin U
         /\ t.regions = s.regions /\ t.dirty = s.dirty /\ t.pending = s.pending
<1> DEFINE d == LowestFree(s)
<1>1. d \in Fds /\ d \notin OpenFds(s)
  BY LowestFreeIsFree
<1>2. s \in System /\ t = [s EXCEPT !.fds[d] = file]
  BY DEF Sound, Opened
<1> HIDE DEF d
<1>3. /\ t \in System /\ t.fds = [s.fds EXCEPT ![d] = file]
      /\ t.regions = s.regions /\ t.dirty = s.dirty
      /\ t.pending = s.pending /\ t.lost = s.lost
  BY <1>1, <1>2 DEF System
<1>4. Live(t) = Live(s) /\ RegionsOwned(t, m)
  BY <1>3, SameRegions DEF Sound
<1>5. OpenFds(t) = OpenFds(s) \cup {d}
  BY <1>1, <1>2, <1>3, FilesAssumption DEF OpenFds, System
<1>6. d \notin U /\ DescriptorsOwned(t, m, U \cup {d})
  BY <1>1, <1>3, <1>5 DEF Sound, DescriptorsOwned
<1>7. Sound(t, m, U \cup {d})
  BY <1>3, <1>4, <1>6 DEF Sound
<1> QED
  BY <1>1, <1>3, <1>6, <1>7 DEF d

LEMMA SoundClosed ==
  ASSUME NEW s, NEW m, NEW U, Sound(s, m, U), NEW d \in U, NEW t, t = Closed(s, d)
  PROVE  /\ Sound(t, m, U \ {d})
         /\ t.regions = s.regions /\ t.dirty = s.dirty /\ t.pending = s.pending
<1>1. s \in System /\ d \in OpenFds(s) /\ d \in Fds
  BY DEF Sound, DescriptorsOwned, OpenFds
<1>2. /\ t \in System /\ t.fds = [s.fds EXCEPT ![d] = NoFile]
      /\ t.regions = s.regions /\ t.dirty = s.dirty
      /\ t.pending = s.pending /\ t.lost = s.lost
  BY <1>1 DEF System, Closed
<1>3. Live(t) = Live(s) /\ RegionsOwned(t, m)
  BY <1>2, SameRegions DEF Sound
<1>4. OpenFds(t) = OpenFds(s) \ {d}
  BY <1>1, <1>2 DEF OpenFds, System
<1>5. DescriptorsOwned(t, m, U \ {d})
  BY <1>1, <1>2, <1>4 DEF Sound, DescriptorsOwned
<1> QED
  BY <1>2, <1>3, <1>5 DEF Sound

LEMMA SoundLost ==
  ASSUME NEW s, NEW m, NEW U, Sound(s, m, U), NEW d \in U,
         NEW t, t = [s EXCEPT !.lost = @ \cup {d}]
  PROVE  /\ Sound(t, m, U \ {d})
         /\ t.regions = s.regions /\ t.dirty = s.dirty /\ t.pending = s.pending
<1>1. s \in System /\ d \in OpenFds(s) /\ d \in Fds
  BY DEF Sound, DescriptorsOwned, OpenFds
<1>2. /\ t \in System /\ t.fds = s.fds
      /\ t.regions = s.regions /\ t.dirty = s.dirty
      /\ t.pending = s.pending /\ t.lost = s.lost \cup {d}
  BY <1>1 DEF System
<1>3. Live(t) = Live(s) /\ RegionsOwned(t, m)
  BY <1>2, SameRegions DEF Sound
<1>4. OpenFds(t) = OpenFds(s)
  BY <1>2 DEF OpenFds
<1>5. (U \ {d}) \cup t.lost = U \cup s.lost
  BY <1>2
<1>6. DescriptorsOwned(t, m, U \ {d})
  BY <1>1, <1>2, <1>4, <1>5 DEF Sound, DescriptorsOwned
<1> QED
  BY <1>2, <1>3, <1>6 DEF Sound

LEMMA SoundInternal ==
  ASSUME NEW s, NEW m, NEW U, Sound(s, m, U), NEW d \in U, NEW o \in Holders(m),
         m[o].file_handle = d, ~ m[o].is_handle_internal,
         NEW n, n = [m EXCEPT ![o].is_handle_internal = TRUE]
  PROVE  Sound(s, n, U \ {d})
<1>1. /\ m \in [Objects -> Object] /\ RegionsOwned(s, m) /\ DescriptorsOwned(s, m, U)
      /\ o \in Objects /\ is_open(m[o])
  BY DEF Sound, Holders
<1>2. PICK new : new = [m[o] EXCEPT !.is_handle_internal = TRUE]
  OBVIOUS
<1>3. /\ new \in Object /\ new.data = m[o].data /\ new.length = m[o].length
      /\ new.mapped_length = m[o].mapped_length /\ new.file_handle = m[o].file_handle
      /\ new.is_handle_internal = TRUE
  BY <1>1, <1>2 DEF Object
<1>4. /\ n \in [Objects -> Object] /\ n[o] = new
      /\ \A x \in Objects \ {o} : n[x] = m[x]
  BY <1>1, <1>2, <1>3
<1>5. \A x \in Objects : /\ get_mapping_start(n[x]) = get_mapping_start(m[x])
                         /\ is_open(n[x]) = is_open(m[x])
                         /\ \A b : Backed(s, m[x], b) => Backed(s, n[x], b)
  BY <1>3, <1>4 DEF get_mapping_start, mapping_offset, is_open, Backed
<1>6. /\ Holders(n) = Holders(m) /\ Holders(m) \subseteq Objects
      /\ Owners(n) = Owners(m) \cup {o} /\ o \notin Owners(m)
  BY <1>1, <1>3, <1>4, <1>5 DEF Holders, Owners
<1>7. RegionsOwned(s, n)
  <2>1. \A x \in Holders(n) : Backed(s, n[x], get_mapping_start(n[x]))
    BY <1>1, <1>5, <1>6 DEF RegionsOwned
  <2>2. \A c \in Live(s) : \E x \in Holders(n) : get_mapping_start(n[x]) = c
    BY <1>1, <1>5, <1>6 DEF RegionsOwned
  <2>3. \A x, y \in Holders(n) : get_mapping_start(n[x]) = get_mapping_start(n[y]) => x = y
    BY <1>1, <1>5, <1>6 DEF RegionsOwned
  <2>4. \A x \in Objects \ Holders(n) : n[x] = Unset(n[x].is_handle_internal)
    BY <1>1, <1>4, <1>6 DEF RegionsOwned
  <2> QED
    BY <1>1, <2>1, <2>2, <2>3, <2>4 DEF RegionsOwned
<1>8. DescriptorsOwned(s, n, U \ {d})
  <2>1. /\ \A x \in Owners(m) : n[x] = m[x] /\ m[x].file_handle # d
        /\ n[o].file_handle = d /\ d \in OpenFds(s) /\ d \notin s.lost
    BY <1>1, <1>3, <1>4, <1>6 DEF DescriptorsOwned, Owners, Holders
  <2>2. \A x \in Owners(n) : n[x].file_handle \in OpenFds(s) \ ((U \ {d}) \cup s.lost)
    BY <1>1, <1>6, <2>1 DEF DescriptorsOwned
  <2>3. \A e \in OpenFds(s) \ ((U \ {d}) \cup s.lost) : \E x \in Owners(n) : n[x].file_handle = e
    <3>1. TAKE e \in OpenFds(s) \ ((U \ {d}) \cup s.lost)
    <3>2. CASE e = d
      BY <1>6, <2>1, <3>2
    <3>3. CASE e # d
      <4>1. PICK x \in Owners(m) : m[x].file_handle = e
        BY <1>1, <3>3 DEF DescriptorsOwned
      <4> QED
        BY <1>6, <2>1, <4>1
    <3> QED
      BY <3>2, <3>3
  <2>4. \A x, y \in Owners(n) : n[x].file_handle = n[y].file_handle => x = y
    BY <1>1, <1>6, <2>1 DEF DescriptorsOwned
  <2> QED
    BY <1>1, <2>2, <2>3, <2>4 DEF DescriptorsOwned
<1> QED
  BY <1>1, <1>4, <1>7, <1>8 DEF Sound
-----------------------------------------------------------------------------
(***************************************************************************)
(* What map does to the regions: those of the other objects stay.          *)
(***************************************************************************)
OthersKept(s, m, o, t) ==
  \A x \in Holders(m) \ {o} :
    t.regions[get_mapping_start(m[x])] = s.regions[get_mapping_start(m[x])]

MappedObject(ctx, handle) ==
  [data |-> ctx.data, length |-> ctx.length, mapped_length |-> ctx.mapped_length,
   file_handle |-> handle, is_handle_internal |-> FALSE]

LEMMA NewObjectBacked ==
  ASSUME NEW s \in System, NEW handle \in OpenFds(s), NEW r \in Requests,
         CanMap(s, handle, r), NEW base \in Bases,
         NEW ctx, ctx = mmap_context(base, r.offset, LengthOf(SizeOf(s, handle), r)),
         NEW region, region = [file |-> s.fds[handle],
                               offset |-> make_offset_page_aligned(r.offset),
                               length |-> ctx.mapped_length],
         NEW t, t.regions[base] = region
  PROVE  /\ MappedObject(ctx, handle) \in Object /\ is_open(MappedObject(ctx, handle))
         /\ region \in Region /\ region.file \in Files
         /\ ctx.mapped_length = LengthToMap(r.offset, LengthOf(SizeOf(s, handle), r))
         /\ ctx.mapped_length \in Nat /\ 0 < ctx.mapped_length
         /\ Backed(t, MappedObject(ctx, handle), base)
<1>1. PICK size : size = SizeOf(s, handle)
  OBVIOUS
<1>2. PICK length : length = LengthOf(size, r)
  OBVIOUS
<1>3. /\ handle \in Fds /\ handle \in Nat /\ s.fds[handle] \in Files
      /\ size \in Sizes /\ FileSize[s.fds[handle]] = size
  BY <1>1, FilesAssumption, DescriptorsAssumption DEF OpenFds, System, SizeOf, Sizes
<1>4. /\ r \in [offset : Sizes, length : Sizes] /\ r.offset + r.length < SizeLimit
      /\ r.offset \in Sizes /\ r.offset \in Nat
  BY RequestsAssumption DEF Sizes
<1>5. Accepts(size, r) /\ MmapAccepts(make_offset_page_aligned(r.offset), LengthToMap(r.offset, length))
  BY <1>1, <1>2 DEF CanMap
<1>6. base \in Nat \ {0} /\ base \in Nat
  BY DescriptorsAssumption
<1>7. ctx = mmap_context(base, r.offset, length)
  BY <1>1, <1>2
<1>8. /\ length \in Sizes /\ r.offset + length <= size
      /\ ctx.length = length
      /\ make_offset_page_aligned(r.offset) + (ctx.data - base) = r.offset
      /\ base <= ctx.data /\ ctx.data + ctx.length = base + ctx.mapped_length
  BY <1>2, <1>3, <1>4, <1>5, <1>6, <1>7, RequestMet
<1>9. /\ ctx.data = base + (r.offset - make_offset_page_aligned(r.offset))
      /\ ctx.mapped_length = LengthToMap(r.offset, length)
  BY <1>7 DEF mmap_context
<1>10. PICK a : a = make_offset_page_aligned(r.offset)
  OBVIOUS
<1>11. a \in Nat /\ a <= r.offset /\ r.offset < a + PageSize
  BY <1>4, <1>10, Aligned
<1>12. PICK off, P, data, ml : /\ off = r.offset /\ P = PageSize /\ data = ctx.data
                              /\ ml = ctx.mapped_length
  OBVIOUS
<1>13. /\ data \in Nat /\ data = base + (off - a) /\ base <= data /\ data < base + P
       /\ ml \in Nat /\ ml # 0 /\ length \in Nat /\ data + length = base + ml
       /\ a + ml = off + length /\ off + length <= size
  <2>1. /\ off \in Nat /\ P \in Nat /\ a \in Nat /\ length \in Nat /\ base \in Nat
        /\ a <= off /\ off < a + P /\ data = base + (off - a)
    BY <1>4, <1>6, <1>8, <1>9, <1>10, <1>11, <1>12, SizeAssumption DEF Sizes
  <2>2. data + length = base + ml /\ ml = LengthToMap(r.offset, length)
    BY <1>8, <1>9, <1>12
  <2>3. ml \in Nat
    <3>1. \A x \in Int : Wrap(x) \in Nat
      BY SizeAssumption DEF Wrap
    <3> QED
      BY <1>4, <1>10, <1>11, <2>1, <2>2, <3>1 DEF LengthToMap
  <2>4. ml # 0
    BY <1>5, <2>2 DEF MmapAccepts
  <2> QED
    BY <1>8, <1>12, <2>1, <2>2, <2>3, <2>4
<1>14. PICK new : new = MappedObject(ctx, handle)
  OBVIOUS
<1>15. /\ new.data = data /\ new.length = length /\ new.mapped_length = ml
       /\ new.file_handle = handle /\ new.is_handle_internal = FALSE
       /\ new \in Object
  <2>1. new = [data |-> data, length |-> length, mapped_length |-> ml,
               file_handle |-> handle, is_handle_internal |-> FALSE]
    BY <1>8, <1>12, <1>14 DEF MappedObject
  <2> QED
    BY <1>3, <1>13, <2>1 DEF Object
<1>16. get_mapping_start(new) = base
  BY <1>4, <1>6, <1>7, <1>8, <1>12, <1>15, MappingStartRecovered
<1>17. is_open(new) /\ new.data # nullptr
  BY <1>3, <1>6, <1>13, <1>15 DEF is_open, invalid_handle, nullptr
<1>18. /\ region.file = s.fds[handle] /\ region.offset = a /\ region.length = ml
       /\ region \in Region /\ region.file \in Files
  BY <1>3, <1>10, <1>11, <1>12, <1>13 DEF Region
<1>19. region.file # NoFile
  BY <1>18, FilesAssumption
<1>20. base \in Live(t)
  BY <1>19 DEF Live
<1>21. Backed(t, new, base)
  BY <1>3, <1>12, <1>13, <1>15, <1>16, <1>17, <1>18, <1>20 DEF Backed
<1>22. 0 < ml
  BY <1>13
<1> QED
  BY <1>1, <1>2, <1>9, <1>12, <1>13, <1>14, <1>15, <1>17, <1>18, <1>21, <1>22

LEMMA EstablishedSound ==
  ASSUME NEW s, NEW m, NEW U, Sound(s, m, U), NEW o \in Objects,
         NEW handle \in OpenFds(s), NEW r \in Requests, NEW base \in BasesFor(s, handle, r),
         NEW res, res = Established(s, m[o], base, handle, r),
         NEW n, n = [m EXCEPT ![o] = res.mmap]
  PROVE  /\ Sound(res.os, n, U) /\ OthersKept(s, m, o, res.os)
         /\ res.os.dirty \subseteq s.dirty /\ res.os.lost = s.lost
         /\ res \in [os : System, mmap : Object, failed : BOOLEAN]
         /\ ~ res.failed /\ is_open(res.mmap)
         /\ res.mmap.file_handle = handle /\ ~ res.mmap.is_handle_internal
         /\ get_mapping_start(res.mmap) \notin Live(s)
<1>1. /\ s \in System /\ s.dirty \subseteq Live(s) /\ m \in [Objects -> Object]
      /\ RegionsOwned(s, m) /\ Apart(s) /\ m[o] \in Object
  BY DEF Sound, RegionsOwned
<1>2. PICK ctx : ctx = mmap_context(base, r.offset, LengthOf(SizeOf(s, handle), r))
  OBVIOUS
<1>3. PICK region : region = [file |-> s.fds[handle],
                              offset |-> make_offset_page_aligned(r.offset),
                              length |-> ctx.mapped_length]
  OBVIOUS
<1>4. PICK new : new = MappedObject(ctx, handle)
  OBVIOUS
<1>5. PICK v : v = [s EXCEPT !.regions[base] = region]
  OBVIOUS
<1>6. res = [os |-> Released(v, m[o]), mmap |-> new, failed |-> FALSE]
  BY <1>2, <1>3, <1>4, <1>5
  DEF Established, Result, memory_map, Mapped, MappedObject
<1>7. /\ CanMap(s, handle, r) /\ base \in Bases
      /\ base \in FreeBases(s, LengthToMap(r.offset, LengthOf(SizeOf(s, handle), r)))
  BY DEF BasesFor, FreeBases
<1>8. \A t : t.regions[base] = region =>
        /\ new \in Object /\ is_open(new) /\ Backed(t, new, base)
        /\ region \in Region /\ region.file \in Files
        /\ ctx.mapped_length = LengthToMap(r.offset, LengthOf(SizeOf(s, handle), r))
        /\ ctx.mapped_length \in Nat /\ 0 < ctx.mapped_length
  BY <1>1, <1>2, <1>3, <1>4, <1>7, NewObjectBacked
<1>9. PICK ml : ml = region.length /\ ml = ctx.mapped_length
  BY <1>3
<1>10. /\ new \in Object /\ is_open(new) /\ region \in Region /\ region.file \in Files
       /\ ml = LengthToMap(r.offset, LengthOf(SizeOf(s, handle), r))
       /\ ml \in Nat /\ 0 < ml
  <2>1. [regions |-> [c \in {base} |-> region]].regions[base] = region
    OBVIOUS
  <2> QED
    BY <1>8, <1>9, <2>1
<1>11. /\ new.file_handle = handle /\ new.is_handle_internal = FALSE
  BY <1>4 DEF MappedObject
<1>12. \A c \in Live(s) : ~ Overlap(base, ml, c, s.regions[c].length)
  BY <1>7, <1>10 DEF FreeBases
<1>13. \A c \in Live(s) : ~ Overlap(c, s.regions[c].length, base, ml)
  BY <1>12 DEF Overlap
<1>14. base \notin Live(s)
  <2>1. SUFFICES ASSUME base \in Live(s) PROVE FALSE
    OBVIOUS
  <2>2. PICK x \in Holders(m) : get_mapping_start(m[x]) = base
    BY <1>1, <2>1 DEF RegionsOwned
  <2>3. Backed(s, m[x], base)
    BY <1>1, <2>2 DEF RegionsOwned
  <2>4. PICK l : l = s.regions[base].length
    OBVIOUS
  <2>5. l \in Nat /\ 0 < l /\ base \in Nat
    BY <1>1, <2>1, <2>3, <2>4, LiveRegion DEF Backed
  <2>6. PICK w, z : w = WholePages(l) /\ z = WholePages(ml)
    OBVIOUS
  <2>7. w \in Nat /\ 0 < w /\ z \in Nat /\ 0 < z
    BY <1>10, <2>5, <2>6, WholePagesBound
  <2> QED
    BY <1>12, <2>1, <2>4, <2>5, <2>6, <2>7 DEF Overlap
<1>15. /\ v \in System /\ v.fds = s.fds /\ v.dirty = s.dirty /\ v.lost = s.lost
       /\ v.pending = s.pending /\ v.regions = [s.regions EXCEPT ![base] = region]
  BY <1>1, <1>5, <1>7, <1>10 DEF System
<1>16. /\ v.regions[base] = region
       /\ \A c \in Live(s) : c # base /\ v.regions[c] = s.regions[c] /\ c \in Bases
  BY <1>1, <1>7, <1>14, <1>15 DEF System, Live
<1>17. Live(v) = Live(s) \cup {base}
  <2>1. region.file # NoFile
    BY <1>10, FilesAssumption
  <2> QED
    BY <1>1, <1>7, <1>15, <2>1 DEF Live, System
<1>18. res.os = Released(v, m[o]) /\ res.mmap = new /\ res.failed = FALSE
       /\ n = [m EXCEPT ![o] = new]
  BY <1>6
<1>s. get_mapping_start(res.mmap) \notin Live(s)
  BY <1>8, <1>14, <1>16, <1>18 DEF Backed
<1>19. CASE o \notin Holders(m)
  <2>1. res.os = v
    BY <1>18, <1>19 DEF Released, Holders
  <2>2. Backed(v, new, base)
    BY <1>8, <1>16
  <2>3. Sound(v, n, U)
    <3>1. o \in Objects \ Holders(m) /\ base \in Bases \ Live(s)
      BY <1>7, <1>14, <1>19
    <3>2. /\ new \in Object /\ is_open(new) /\ ~ new.is_handle_internal
          /\ n = [m EXCEPT ![o] = new] /\ region \in Region
      BY <1>10, <1>11, <1>18
    <3>3. \A c \in Live(s) : ~ Overlap(base, region.length, c, s.regions[c].length)
      BY <1>9, <1>12
    <3>4. /\ v \in System /\ v.fds = s.fds /\ v.lost = s.lost /\ v.dirty = s.dirty
          /\ v.regions = [s.regions EXCEPT ![base] = region]
      BY <1>15
    <3> QED
      BY <2>2, <3>1, <3>2, <3>3, <3>4, SoundMapped
  <2>4. OthersKept(s, m, o, v)
    BY <1>1, <1>16 DEF OthersKept, RegionsOwned, Backed
  <2> QED
    BY <1>6, <1>10, <1>11, <1>15, <1>18, <1>s, <2>1, <2>3, <2>4
<1>20. CASE o \in Holders(m)
  <2>1. PICK b : b = get_mapping_start(m[o])
    OBVIOUS
  <2>2. Backed(s, m[o], b) /\ b \in Live(s) /\ is_open(m[o])
    BY <1>1, <1>20, <2>1 DEF RegionsOwned, Backed, Holders
  <2>3. Backed(v, m[o], b)
    BY <1>16, <2>2, BackedKept
  <2>4. \A c \in Live(v) : c # b => ~ Overlap(b, v.regions[b].length, c, v.regions[c].length)
    BY <1>1, <1>9, <1>13, <1>16, <1>17, <2>2 DEF Apart
  <2>5. ReleasedTo(v, m[o], b, res.os)
    <3>1. v \in System /\ m[o] \in Object /\ is_open(m[o])
      BY <1>1, <1>15, <2>2
    <3>2. ReleasedTo(v, m[o], b, Released(v, m[o]))
      BY <2>3, <2>4, <3>1, ReleasedIs
    <3> QED
      BY <1>18, <3>2
  <2>6. PICK u : u = Released(s, m[o])
    OBVIOUS
  <2>7. ReleasedTo(s, m[o], b, u)
    <3>1. \A c \in Live(s) : c # b => ~ Overlap(b, s.regions[b].length, c, s.regions[c].length)
      BY <1>1, <2>2 DEF Apart
    <3> QED
      BY <1>1, <2>2, <2>6, <3>1, ReleasedIs
  <2>8. PICK n1 : n1 = [m EXCEPT ![o] = Unset(FALSE)]
    OBVIOUS
  <2>9. Sound(u, n1, U)
    BY <1>20, <2>1, <2>7, <2>8, SoundReleased
  <2>10. n = [n1 EXCEPT ![o] = new] /\ n1 \in [Objects -> Object] /\ o \in Objects \ Holders(n1)
    <3>1. Unset(FALSE) \in Object /\ ~ is_open(Unset(FALSE))
      BY UnsetIs
    <3> QED
      BY <1>1, <1>10, <1>18, <2>8, <3>1 DEF Holders
  <2>11. /\ res.os \in System /\ res.os.fds = u.fds /\ res.os.lost = u.lost
         /\ res.os.dirty = u.dirty
    BY <1>15, <2>5, <2>7 DEF ReleasedTo
  <2>12. /\ res.os.regions = [u.regions EXCEPT ![base] = region]
    <3>1. res.os.regions = [v.regions EXCEPT ![b] = NoRegion]
      BY <2>5 DEF ReleasedTo
    <3>2. u.regions = [s.regions EXCEPT ![b] = NoRegion]
      BY <2>7 DEF ReleasedTo
    <3> QED
      BY <1>1, <1>15, <1>16, <2>2, <3>1, <3>2 DEF System
  <2>13. /\ Live(u) = Live(s) \ {b} /\ \A c \in Live(u) : u.regions[c] = s.regions[c]
    <3>1. u.regions = [s.regions EXCEPT ![b] = NoRegion]
      BY <2>7 DEF ReleasedTo
    <3> QED
      BY <1>1, <2>2, <3>1 DEF Live, System, NoRegion
  <2>14. res.os.regions[base] = region
    BY <1>7, <2>9, <2>12 DEF Sound, System
  <2>15. Backed(res.os, new, base)
    BY <1>8, <2>14
  <2>16. Sound(res.os, n, U)
    <3>1. base \in Bases \ Live(u)
      BY <1>7, <1>14, <2>13
    <3>2. \A c \in Live(u) : ~ Overlap(base, region.length, c, u.regions[c].length)
      BY <1>9, <1>12, <2>13
    <3>3. /\ new \in Object /\ is_open(new) /\ ~ new.is_handle_internal
          /\ region \in Region /\ o \in Objects \ Holders(n1) /\ n = [n1 EXCEPT ![o] = new]
      BY <1>10, <1>11, <2>10
    <3>4. PICK w : w = res.os
      OBVIOUS
    <3>5. /\ w \in System /\ w.fds = u.fds /\ w.lost = u.lost /\ w.dirty = u.dirty
          /\ w.regions = [u.regions EXCEPT ![base] = region] /\ Backed(w, new, base)
      BY <2>11, <2>12, <2>15, <3>4
    <3>6. Sound(w, n, U)
      BY ZenonT(30), <2>9, <3>1, <3>2, <3>3, <3>5, SoundMapped
    <3> QED
      BY <3>4, <3>6
  <2>17. OthersKept(s, m, o, res.os)
    <3>1. \A c \in Live(s) \ {b} : res.os.regions[c] = s.regions[c]
      <4>1. res.os.regions = [v.regions EXCEPT ![b] = NoRegion]
        BY <2>5 DEF ReleasedTo
      <4> QED
        BY <1>15, <1>16, <4>1 DEF System
    <3>2. \A x \in Holders(m) \ {o} : get_mapping_start(m[x]) \in Live(s) \ {b}
      BY <1>1, <1>20, <2>1 DEF RegionsOwned, Backed
    <3> QED
      BY <3>1, <3>2 DEF OthersKept
  <2>18. res.os.dirty \subseteq s.dirty /\ res.os.lost = s.lost
    BY <1>15, <2>5 DEF ReleasedTo
  <2> QED
    BY <1>6, <1>10, <1>11, <1>18, <1>s, <2>11, <2>16, <2>17, <2>18
<1> QED
  BY <1>19, <1>20

HandleOutcome(s, m, o, U, handle, res) ==
  /\ Sound(res.os, [m EXCEPT ![o] = res.mmap], U) /\ OthersKept(s, m, o, res.os)
  /\ res.os.dirty \subseteq s.dirty
  /\ res \in [os : System, mmap : Object, failed : BOOLEAN]
  /\ res.failed => res.os = s /\ res.mmap = m[o]
  /\ ~ res.failed => /\ handle \in OpenFds(s) /\ is_open(res.mmap)
                     /\ res.mmap.file_handle = handle
                     /\ ~ res.mmap.is_handle_internal
                     /\ get_mapping_start(res.mmap) \notin Live(s)

LEMMA MapHandleSound ==
  ASSUME NEW s, NEW m, NEW U, Sound(s, m, U), NEW o \in Objects,
         NEW handle, NEW r \in Requests, NEW res \in MapHandle(s, m[o], handle, r)
  PROVE  HandleOutcome(s, m, o, U, handle, res)
<1> DEFINE n == [m EXCEPT ![o] = res.mmap]
<1>1. s \in System /\ m \in [Objects -> Object] /\ m[o] \in Object
  BY DEF Sound
<1>2. CASE res = Result(s, m[o], TRUE)
  <2>1. res = [os |-> s, mmap |-> m[o], failed |-> TRUE]
    BY <1>2 DEF Result
  <2>2. n = m
    BY <1>1, <2>1
  <2> QED
    BY <1>1, <2>1, <2>2 DEF OthersKept, HandleOutcome
<1>3. CASE \E base \in BasesFor(s, handle, r) : res = Established(s, m[o], base, handle, r)
  <2>1. PICK base \in BasesFor(s, handle, r) : res = Established(s, m[o], base, handle, r)
    BY <1>3
  <2>2. handle \in OpenFds(s)
    BY DEF BasesFor, CanMap
  <2>3. HandleOutcome(s, m, o, U, handle, res)
    <3>0. PICK k : k = n
      OBVIOUS
    <3>1. Sound(res.os, k, U) /\ OthersKept(s, m, o, res.os)
      BY <2>1, <2>2, <3>0, EstablishedSound
    <3>2. res.os.dirty \subseteq s.dirty /\ res.os.lost = s.lost
      BY <2>1, <2>2, <3>0, EstablishedSound
    <3>3. ~ res.failed /\ is_open(res.mmap)
      BY <2>1, <2>2, <3>0, EstablishedSound
    <3>4. /\ res.mmap.file_handle = handle /\ ~ res.mmap.is_handle_internal
          /\ get_mapping_start(res.mmap) \notin Live(s)
      BY <2>1, <2>2, <3>0, EstablishedSound
    <3>5. res \in [os : System, mmap : Object, failed : BOOLEAN]
      BY <2>1, <2>2, <3>0, EstablishedSound
    <3> QED
      BY <2>2, <3>0, <3>1, <3>2, <3>3, <3>4, <3>5 DEF HandleOutcome
  <2> QED
    BY <2>2, <2>3
<1> QED
  BY <1>2, <1>3 DEF MapHandle

(***************************************************************************)
(* Whatever map does, objects and system stay sound, the other objects     *)
(* keep their regions, and if it fails so does its own.                    *)
(***************************************************************************)
MapOutcome(s, m, o, U, res) ==
  /\ Sound(res.os, [m EXCEPT ![o] = res.mmap], U)
  /\ OthersKept(s, m, o, res.os)
  /\ res.os.dirty \subseteq s.dirty
  /\ res.mmap \in Object /\ res.failed \in BOOLEAN
  /\ res.failed => res.mmap = m[o] /\ res.os.regions = s.regions
  /\ ~ res.failed => is_open(res.mmap) /\ get_mapping_start(res.mmap) \notin Live(s)

LEMMA MapPathSound ==
  ASSUME NEW s, NEW m, NEW U, Sound(s, m, U), NEW o \in Objects,
         NEW path \in Files \cup {NoFile}, NEW r \in Requests,
         NEW res \in MapPath(s, m[o], path, r)
  PROVE  MapOutcome(s, m, o, U, res)
<1>1. s \in System /\ m \in [Objects -> Object] /\ m[o] \in Object
  BY DEF Sound
<1>2. CASE res = Result(s, m[o], TRUE)
  <2>1. res = [os |-> s, mmap |-> m[o], failed |-> TRUE]
    BY <1>2 DEF Result
  <2>2. [m EXCEPT ![o] = res.mmap] = m
    BY <1>1, <2>1
  <2> QED
    BY <1>1, <2>1, <2>2 DEF OthersKept, MapOutcome
<1>3. CASE /\ OpensPath(s, path)
           /\ \E x \in MapHandle(Opened(s, path), m[o], LowestFree(s), r) :
                res = MakeInternal(x, LowestFree(s))
  <2>1. PICK x \in MapHandle(Opened(s, path), m[o], LowestFree(s), r) :
          res = MakeInternal(x, LowestFree(s))
    BY <1>3
  <2>2. PICK d, t, V : d = LowestFree(s) /\ t = Opened(s, path) /\ V = U \cup {d}
    OBVIOUS
  <2>3. /\ Sound(t, m, V) /\ d \in Fds /\ d \notin U /\ d \in V /\ V \ {d} = U
        /\ t.regions = s.regions /\ t.dirty = s.dirty
    <3>1. CanOpen(s) /\ path \in Files
      BY <1>3 DEF OpensPath
    <3>2. /\ Sound(t, m, V) /\ d \in Fds /\ d \notin U
          /\ t.regions = s.regions /\ t.dirty = s.dirty
      BY <2>2, <3>1, SoundOpened
    <3> QED
      BY <2>2, <3>2
  <2>4. PICK n : n = [m EXCEPT ![o] = x.mmap]
    OBVIOUS
  <2>5. /\ Sound(x.os, n, V) /\ OthersKept(t, m, o, x.os)
        /\ x.os.dirty \subseteq t.dirty
        /\ x \in [os : System, mmap : Object, failed : BOOLEAN]
        /\ x.failed => x.os = t /\ x.mmap = m[o]
        /\ ~ x.failed => /\ is_open(x.mmap)
                         /\ x.mmap.file_handle = d
                         /\ ~ x.mmap.is_handle_internal
                         /\ get_mapping_start(x.mmap) \notin Live(t)
    <3>1. x \in MapHandle(t, m[o], d, r)
      BY <2>2
    <3>2. HandleOutcome(t, m, o, V, d, x)
      BY <2>3, <3>1, MapHandleSound
    <3> QED
      BY <2>4, <3>2 DEF HandleOutcome
  <2>6. PICK xs, xm : xs = x.os /\ xm = x.mmap
    OBVIOUS
  <2>7. CASE x.failed
    <3>1. PICK u : u = [xs EXCEPT !.lost = @ \cup {d}]
      OBVIOUS
    <3>2. res = [x EXCEPT !.os.lost = @ \cup {d}]
      BY <2>1, <2>2, <2>7 DEF MakeInternal
    <3>3. res.os = u /\ res.mmap = m[o] /\ res.failed = TRUE
      BY <2>5, <2>6, <2>7, <3>1, <3>2
    <3>4. xs = t
      BY <2>5, <2>6, <2>7
    <3>5. Sound(u, m, U) /\ u.regions = t.regions /\ u.dirty = t.dirty
      BY <2>3, <3>1, <3>4, SoundLost
    <3>6. [m EXCEPT ![o] = res.mmap] = m
      BY <1>1, <3>3
    <3> QED
      BY <1>1, <2>3, <3>3, <3>5, <3>6 DEF MapOutcome, OthersKept
  <2>8. CASE ~ x.failed
    <3>1. res = [x EXCEPT !.mmap.is_handle_internal = TRUE]
      BY <2>1, <2>8 DEF MakeInternal
    <3>2. PICK new : new = [xm EXCEPT !.is_handle_internal = TRUE]
      OBVIOUS
    <3>3. res.os = xs /\ res.mmap = new /\ res.failed = FALSE
      BY <2>5, <2>6, <2>8, <3>1, <3>2
    <3>4. new \in Object /\ is_open(new) /\ xm \in Object
      BY <2>5, <2>6, <2>8, <3>2 DEF Object, is_open
    <3>5. /\ n \in [Objects -> Object] /\ n[o] = xm /\ o \in Holders(n)
      BY <1>1, <2>4, <2>5, <2>6, <2>8, <3>4 DEF Holders
    <3>6. PICK k : k = [n EXCEPT ![o].is_handle_internal = TRUE]
      OBVIOUS
    <3>7. k = [m EXCEPT ![o] = new]
      BY <1>1, <2>4, <2>6, <3>2, <3>5, <3>6
    <3>8. Sound(xs, k, U)
      <4>1. Sound(xs, n, V)
        BY <2>5, <2>6
      <4>2. n[o].file_handle = d /\ ~ n[o].is_handle_internal
        BY <2>5, <2>6, <2>8, <3>5
      <4> QED
        BY <2>3, <3>5, <3>6, <4>1, <4>2, SoundInternal
    <3>9. OthersKept(s, m, o, xs)
      BY <2>3, <2>5, <2>6 DEF OthersKept
    <3>10. get_mapping_start(new) \notin Live(s)
      <4>1. get_mapping_start(new) = get_mapping_start(xm)
        BY <3>2, <3>4 DEF get_mapping_start, mapping_offset, Object
      <4>2. Live(s) = Live(t)
        BY <2>3, SameRegions
      <4> QED
        BY <2>5, <2>6, <2>8, <4>1, <4>2
    <3> QED
      BY <2>3, <2>5, <2>6, <3>3, <3>4, <3>7, <3>8, <3>9, <3>10 DEF MapOutcome
  <2> QED
    BY <2>5, <2>7, <2>8
<1> QED
  BY <1>2, <1>3 DEF MapPath

LEMMA MapSound ==
  ASSUME NEW s, NEW m, Sound(s, m, user), NEW o \in Objects,
         NEW res \in MapResults(s, m[o])
  PROVE  MapOutcome(s, m, o, user, res)
<1>1. CASE \E path \in Files \cup {NoFile}, r \in Requests : res \in MapPath(s, m[o], path, r)
  BY <1>1, MapPathSound
<1>2. CASE \E handle \in user \cup {invalid_handle}, r \in Requests :
             res \in MapHandle(s, m[o], handle, r)
  <2>1. PICK handle \in user \cup {invalid_handle}, r \in Requests :
          res \in MapHandle(s, m[o], handle, r)
    BY <1>2
  <2>2. HandleOutcome(s, m, o, user, handle, res)
    BY <2>1, MapHandleSound
  <2> QED
    BY <2>2 DEF MapOutcome, HandleOutcome
<1> QED
  BY <1>1, <1>2 DEF MapResults

(***************************************************************************)
(* A call of map that fails does no more to the system than to lose a      *)
(* descriptor, whatever the fields of the object are.                      *)
(***************************************************************************)
LEMMA FailedHandle ==
  ASSUME NEW s, NEW o, NEW handle, NEW r, NEW res \in MapHandle(s, o, handle, r), res.failed
  PROVE  res = [os |-> s, mmap |-> o, failed |-> TRUE]
<1>1. \A base : ~ Established(s, o, base, handle, r).failed
  BY DEF Established, Result
<1> QED
  BY <1>1 DEF MapHandle, Result

LEMMA FailedMapSound ==
  ASSUME NEW s, NEW m, Sound(s, m, user), NEW o, NEW res \in MapResults(s, o), res.failed
  PROVE  /\ Sound(res.os, m, user) /\ res.os.regions = s.regions
         /\ res.os.dirty = s.dirty /\ res.failed \in BOOLEAN
<1>1. CASE res = [os |-> s, mmap |-> o, failed |-> TRUE]
  BY <1>1
<1>2. ASSUME NEW path \in Files, CanOpen(s),
             res = [os |-> [Opened(s, path) EXCEPT !.lost = @ \cup {LowestFree(s)}],
                    mmap |-> o, failed |-> TRUE]
      PROVE  /\ Sound(res.os, m, user) /\ res.os.regions = s.regions
             /\ res.os.dirty = s.dirty /\ res.failed \in BOOLEAN
  <2>1. PICK d, t, V : d = LowestFree(s) /\ t = Opened(s, path) /\ V = user \cup {d}
    OBVIOUS
  <2>2. /\ Sound(t, m, V) /\ d \notin user
        /\ t.regions = s.regions /\ t.dirty = s.dirty
    BY <1>2, <2>1, SoundOpened
  <2>3. d \in V /\ V \ {d} = user
    BY <2>1, <2>2
  <2>4. PICK u : u = [t EXCEPT !.lost = @ \cup {d}]
    OBVIOUS
  <2>5. Sound(u, m, V \ {d})
    BY <2>2, <2>3, <2>4, SoundLost
  <2>6. u.regions = t.regions /\ u.dirty = t.dirty
    BY <2>2, <2>3, <2>4, SoundLost
  <2>7. res.os = u /\ res.failed = TRUE
    BY <1>2, <2>1, <2>4
  <2> QED
    BY <2>2, <2>3, <2>5, <2>6, <2>7
<1>3. CASE \E path \in Files \cup {NoFile}, r \in Requests : res \in MapPath(s, o, path, r)
  <2>1. PICK path \in Files \cup {NoFile}, r \in Requests : res \in MapPath(s, o, path, r)
    BY <1>3
  <2>2. CASE res = Result(s, o, TRUE)
    BY <1>1, <2>2 DEF Result
  <2>3. CASE /\ OpensPath(s, path)
             /\ \E x \in MapHandle(Opened(s, path), o, LowestFree(s), r) :
                  res = MakeInternal(x, LowestFree(s))
    <3>1. PICK x \in MapHandle(Opened(s, path), o, LowestFree(s), r) :
            res = MakeInternal(x, LowestFree(s))
      BY <2>3
    <3>2. x.failed
      <4>1. SUFFICES ASSUME ~ x.failed PROVE FALSE
        OBVIOUS
      <4>2. res = [x EXCEPT !.mmap.is_handle_internal = TRUE]
        BY <3>1, <4>1 DEF MakeInternal
      <4>3. x = Result(Opened(s, path), o, TRUE) \/ \E base : x = Established(Opened(s, path), o, base, LowestFree(s), r)
        BY DEF MapHandle
      <4>4. res.failed = x.failed
        BY <4>2, <4>3 DEF Established, Result
      <4> QED
        BY <4>1, <4>4
    <3>3. x = [os |-> Opened(s, path), mmap |-> o, failed |-> TRUE]
      BY <3>2, FailedHandle
    <3>4. res = [x EXCEPT !.os.lost = @ \cup {LowestFree(s)}]
      BY <3>1, <3>2 DEF MakeInternal
    <3>5. path \in Files /\ CanOpen(s)
      BY <2>3 DEF OpensPath
    <3>6. res = [os |-> [Opened(s, path) EXCEPT !.lost = @ \cup {LowestFree(s)}],
                 mmap |-> o, failed |-> TRUE]
      BY <3>3, <3>4
    <3> QED
      BY <1>2, <3>5, <3>6
  <2> QED
    BY <2>1, <2>2, <2>3 DEF MapPath
<1>4. CASE \E handle \in user \cup {invalid_handle}, r \in Requests :
             res \in MapHandle(s, o, handle, r)
  BY <1>1, <1>4, FailedHandle
<1> QED
  BY <1>3, <1>4 DEF MapResults
-----------------------------------------------------------------------------
(***************************************************************************)
(* unmap, sync and the destructor, for an object that is open or not.      *)
(***************************************************************************)
LEMMA ReleaseSound ==
  ASSUME NEW s, NEW m, NEW U, Sound(s, m, U), NEW o \in Objects, NEW g \in BOOLEAN,
         NEW n, n = [m EXCEPT ![o] = Unset(g)],
         NEW t, t = Released(s, m[o])
  PROVE  /\ Sound(t, n, U) /\ Holders(n) = Holders(m) \ {o}
         /\ OthersKept(s, m, o, t) /\ t.dirty \subseteq s.dirty
         /\ t.pending => \/ s.pending
                         \/ o \in Holders(m) /\ get_mapping_start(m[o]) \in s.dirty
<1>1. /\ s \in System /\ m \in [Objects -> Object] /\ RegionsOwned(s, m)
  BY DEF Sound
<1>2. CASE o \notin Holders(m)
  <2>1. t = s
    BY <1>2 DEF Released, Holders
  <2>2. Sound(s, n, U) /\ Holders(n) = Holders(m)
    <3>1. o \in Objects \ Holders(m)
      BY <1>2
    <3>2. Sound(s, n, U)
      BY <3>1, SoundUnset
    <3>3. Holders(n) = Holders(m)
      BY <1>1, <3>1, UnsetIs DEF Holders
    <3> QED
      BY <3>2, <3>3
  <2> QED
    BY <1>2, <2>1, <2>2 DEF OthersKept
<1>3. CASE o \in Holders(m)
  <2>1. PICK b : b = get_mapping_start(m[o])
    OBVIOUS
  <2>2. /\ Backed(s, m[o], b) /\ b \in Live(s) /\ is_open(m[o])
        /\ m[o] \in Object /\ Apart(s)
    BY <1>1, <1>3, <2>1 DEF RegionsOwned, Backed, Holders
  <2>3. \A c \in Live(s) : c # b => ~ Overlap(b, s.regions[b].length, c, s.regions[c].length)
    BY <2>2 DEF Apart
  <2>4. ReleasedTo(s, m[o], b, t)
    BY <1>1, <2>2, <2>3, ReleasedIs
  <2>5. Sound(t, n, U)
    BY <1>3, <2>1, <2>4, SoundReleased
  <2>6. Holders(n) = Holders(m) \ {o}
    BY <1>1, UnsetIs DEF Holders
  <2>7. OthersKept(s, m, o, t)
    <3>1. \A x \in Holders(m) \ {o} : get_mapping_start(m[x]) \in Live(s) \ {b}
      BY <1>1, <1>3, <2>1 DEF RegionsOwned, Backed
    <3>2. \A c \in Live(s) \ {b} : t.regions[c] = s.regions[c]
      BY <1>1, <2>4 DEF ReleasedTo, System, Live
    <3> QED
      BY <3>1, <3>2 DEF OthersKept
  <2>8. t.dirty \subseteq s.dirty /\ (t.pending => s.pending \/ b \in s.dirty)
    BY <2>4 DEF ReleasedTo
  <2> QED
    BY <1>3, <2>1, <2>5, <2>6, <2>7, <2>8
<1> QED
  BY <1>2, <1>3

LEMMA SyncSound ==
  ASSUME NEW s, NEW m, NEW U, Sound(s, m, U), NEW o \in Objects,
         NEW t, t = Synced(s, m[o])
  PROVE  /\ Sound(t, m, U) /\ t.regions = s.regions /\ t.pending = s.pending
         /\ t.dirty \subseteq s.dirty
         /\ o \in Holders(m) => get_mapping_start(m[o]) \notin t.dirty
<1>1. /\ s \in System /\ m \in [Objects -> Object] /\ RegionsOwned(s, m)
      /\ s.dirty \subseteq Live(s)
  BY DEF Sound
<1>2. CASE o \notin Holders(m)
  <2>1. t = s
    BY <1>2 DEF Synced, Holders
  <2> QED
    BY <1>2, <2>1
<1>3. CASE o \in Holders(m)
  <2>1. PICK b : b = get_mapping_start(m[o])
    OBVIOUS
  <2>2. /\ Backed(s, m[o], b) /\ b \in Live(s) /\ is_open(m[o]) /\ m[o].data # nullptr
        /\ s.regions[b].length = m[o].mapped_length /\ 0 < s.regions[b].length /\ Apart(s)
    BY <1>1, <1>3, <2>1 DEF RegionsOwned, Backed, Holders
  <2>3. InRange(s, b, m[o].mapped_length) = {b}
    <3>1. \A c \in Live(s) : c # b => ~ Overlap(b, s.regions[b].length, c, s.regions[c].length)
      BY <2>2 DEF Apart
    <3> QED
      BY <1>1, <2>2, <3>1, OnlyItsRegion
  <2>4. b % PageSize = 0
    BY <1>1, <2>2, LiveRegion
  <2>5. t = [s EXCEPT !.dirty = s.dirty \ {b}]
    BY <2>1, <2>2, <2>3, <2>4 DEF Synced, Msynced, MsyncAccepts
  <2>6. s.dirty \ {b} \in SUBSET Live(s)
    BY <1>1
  <2> QED
    BY <2>1, <2>5, <2>6, SoundDirtied
<1> QED
  BY <1>2, <1>3

LEMMA DestructSound ==
  ASSUME NEW s, NEW m, NEW U, Sound(s, m, U), NEW o \in Objects,
         AccessMode = "read" => s.dirty = {},
         NEW n, n = [m EXCEPT ![o] = Unset(FALSE)],
         NEW t, t = Destructed(s, m[o])
  PROVE  /\ Sound(t, n, U) /\ Holders(n) = Holders(m) \ {o}
         /\ OthersKept(s, m, o, t) /\ t.dirty \subseteq s.dirty
         /\ t.pending => s.pending
<1>1. PICK u : u = ConditionallySynced(s, m[o])
  OBVIOUS
<1>2. /\ Sound(u, m, U) /\ u.regions = s.regions /\ u.pending = s.pending
      /\ u.dirty \subseteq s.dirty
      /\ o \in Holders(m) => get_mapping_start(m[o]) \notin u.dirty
  <2>1. CASE AccessMode = "write"
    BY <1>1, <2>1, SyncSound DEF ConditionallySynced
  <2>2. CASE AccessMode # "write"
    <3>1. u = s /\ s.dirty = {}
      BY <1>1, <2>2, RequestsAssumption DEF ConditionallySynced
    <3> QED
      BY <3>1
  <2> QED
    BY <2>1, <2>2
<1>3. t = Released(u, m[o])
  BY <1>1 DEF Destructed
<1>4. /\ Sound(t, n, U) /\ Holders(n) = Holders(m) \ {o}
      /\ OthersKept(u, m, o, t) /\ t.dirty \subseteq u.dirty
      /\ t.pending => \/ u.pending
                      \/ o \in Holders(m) /\ get_mapping_start(m[o]) \in u.dirty
  <2>1. Sound(t, n, U) /\ Holders(n) = Holders(m) \ {o}
    BY ZenonT(30), <1>2, <1>3, ReleaseSound
  <2>2. OthersKept(u, m, o, t) /\ t.dirty \subseteq u.dirty
    BY <1>2, <1>3, ReleaseSound
  <2>3. t.pending => \/ u.pending
                     \/ o \in Holders(m) /\ get_mapping_start(m[o]) \in u.dirty
    BY <1>2, <1>3, ReleaseSound
  <2> QED
    BY <2>1, <2>2, <2>3
<1>5. OthersKept(s, m, o, t)
  BY <1>2, <1>4 DEF OthersKept
<1> QED
  BY <1>2, <1>4, <1>5

-----------------------------------------------------------------------------
(***************************************************************************)
(* The views of objects: nothing or a range of a file, which depends on    *)
(* the fields and on the region of the object alone.                       *)
(***************************************************************************)
LEMMA SoundViews ==
  ASSUME NEW s, NEW m, NEW U, Sound(s, m, U), NEW x \in Objects
  PROVE  /\ x \notin Holders(m) => ViewOf(s, m[x]) = NoView
         /\ x \in Holders(m) =>
              /\ InMapping(s, m[x])
              /\ ViewOf(s, m[x]).file \in Files
              /\ ViewOf(s, m[x]).offset + ViewOf(s, m[x]).length
                   <= FileSize[ViewOf(s, m[x]).file]
<1>1. /\ s \in System /\ m \in [Objects -> Object] /\ RegionsOwned(s, m) /\ m[x] \in Object
  BY DEF Sound
<1>2. CASE x \notin Holders(m)
  BY <1>2 DEF Holders, ViewOf
<1>3. CASE x \in Holders(m)
  <2>1. PICK b : b = get_mapping_start(m[x])
    OBVIOUS
  <2>2. Backed(s, m[x], b) /\ is_open(m[x])
    BY <1>1, <1>3, <2>1 DEF RegionsOwned, Holders
  <2>3. /\ b \in Live(s) /\ b \in Bases /\ b \in Nat
        /\ s.regions[b].file # NoFile /\ s.regions[b].file \in Files
        /\ s.regions[b].length \in Nat /\ s.regions[b].offset \in Nat
    BY <1>1, <2>2, LiveRegion DEF Backed, Live
  <2>4. PICK data, len, ml, off : /\ data = m[x].data /\ len = m[x].length
                                  /\ ml = m[x].mapped_length /\ off = s.regions[b].offset
    OBVIOUS
  <2>5. /\ data \in Nat /\ len \in Nat /\ ml \in Nat /\ off \in Nat
        /\ data + len = b + ml /\ b <= data
        /\ off + ml <= FileSize[s.regions[b].file]
        /\ s.regions[b].length = ml
    BY <1>1, <2>2, <2>3, <2>4 DEF Backed, Object
  <2>6. InMapping(s, m[x])
    BY <2>1, <2>3, <2>4, <2>5 DEF InMapping, end
  <2>7. ViewOf(s, m[x]) = [file |-> s.regions[b].file, offset |-> off + (data - b), length |-> len]
    BY <2>1, <2>2, <2>4, <2>6 DEF ViewOf, begin
  <2>8. (off + (data - b)) + len <= FileSize[s.regions[b].file]
    <3>1. FileSize[s.regions[b].file] \in Nat
      BY <2>3, FilesAssumption, SizeAssumption
    <3> QED
      BY <2>3, <2>5, <3>1
  <2> QED
    BY <1>3, <2>3, <2>6, <2>7, <2>8
<1> QED
  BY <1>2, <1>3

LEMMA ViewKept ==
  ASSUME NEW s, NEW m, NEW U, Sound(s, m, U), NEW x \in Objects, NEW t,
         x \in Holders(m) =>
           t.regions[get_mapping_start(m[x])] = s.regions[get_mapping_start(m[x])]
  PROVE  ViewOf(t, m[x]) = ViewOf(s, m[x])
<1>1. CASE x \notin Holders(m)
  BY <1>1 DEF Holders, ViewOf
<1>2. CASE x \in Holders(m)
  BY <1>2 DEF ViewOf, InMapping
<1> QED
  BY <1>1, <1>2
-----------------------------------------------------------------------------
(***************************************************************************)
(* What every step does, of objects, of handles or of the caller: the      *)
(* invariant holds again, an object that keeps its fields keeps its view,  *)
(* and the step is one that MappedViews allows.                            *)
(***************************************************************************)
ViewsFollow ==
  \A x \in Objects : mmap'[x] = mmap[x] => ViewOf(os', mmap'[x]) = ViewOf(os, mmap[x])

KeepsWhenFailed ==
  failed' => (\A o \in living : mmap'[o] = mmap[o]) /\ os'.regions = os.regions

SyncsWhenDestroyed == os'.pending /\ ~ os.pending => living \subseteq living'

Proper ==
  /\ Basic' /\ ViewsFollow /\ KeepsWhenFailed /\ SyncsWhenDestroyed
  /\ [MV!Next]_(MV!vars)

LEMMA BasicTypes ==
  ASSUME Basic
  PROVE  /\ Sound(os, mmap, user)
         /\ os \in System /\ mmap \in [Objects -> Object] /\ os.dirty \subseteq Live(os)
         /\ RegionsOwned(os, mmap) /\ DescriptorsOwned(os, mmap, user)
         /\ living \subseteq Objects /\ Holders(mmap) \subseteq living
         /\ \A x \in Objects : mmap[x].is_handle_internal \in BOOLEAN
BY DEF Basic, Sound, Object

LEMMA FieldsAndViews ==
  ASSUME Basic,
         \A x \in Holders(mmap) : mmap'[x] = mmap[x] =>
           os'.regions[get_mapping_start(mmap[x])] = os.regions[get_mapping_start(mmap[x])]
  PROVE  ViewsFollow
<1> SUFFICES ASSUME NEW x \in Objects, mmap'[x] = mmap[x]
             PROVE  ViewOf(os', mmap'[x]) = ViewOf(os, mmap[x])
  BY DEF ViewsFollow
<1>1. PICK t : t = os'
  OBVIOUS
<1>2. x \in Holders(mmap) =>
        t.regions[get_mapping_start(mmap[x])] = os.regions[get_mapping_start(mmap[x])]
  BY <1>1
<1>3. ViewOf(t, mmap[x]) = ViewOf(os, mmap[x])
  BY <1>2, BasicTypes, ViewKept
<1> QED
  BY <1>1, <1>3

LEMMA ViewsAllowed ==
  ASSUME Sound(os', mmap', user')
  PROVE  /\ \A x \in Objects : MV!MayView(x)
         /\ \A x \in Objects \ Holders(mmap') : ViewOf(os', mmap'[x]) = NoView
<1>1. PICK s, m, U : s = os' /\ m = mmap' /\ U = user'
  OBVIOUS
<1>2. Sound(s, m, U)
  BY <1>1
<1>3. \A x \in Objects :
        \/ ViewOf(s, m[x]) = NoView
        \/ /\ ViewOf(s, m[x]).file \in Files
           /\ ViewOf(s, m[x]).offset + ViewOf(s, m[x]).length <= FileSize[ViewOf(s, m[x]).file]
  BY <1>2, SoundViews
<1>4. \A x \in Objects \ Holders(m) : ViewOf(s, m[x]) = NoView
  BY <1>2, SoundViews
<1>5. \A x \in Objects : MV!MayView(x)
  BY <1>1, <1>3 DEF MV!MayView, MV!InFile
<1> QED
  BY <1>1, <1>4, <1>5

(***************************************************************************)
(* Steps that change the fields of no object, or of one.                   *)
(***************************************************************************)
LEMMA StillProper ==
  ASSUME Basic, UNCHANGED <<living, mmap>>, Sound(os', mmap', user'),
         os'.regions = os.regions, AccessMode = "read" => os'.dirty = {},
         failed' \in BOOLEAN
  PROVE  Proper
<1>1. ViewsFollow
  BY FieldsAndViews
<1>2. Basic'
  BY DEF Basic
<1>3. UNCHANGED MV!vars
  BY <1>1 DEF ViewsFollow, MV!vars
<1> QED
  BY <1>1, <1>2, <1>3 DEF Proper, KeepsWhenFailed, SyncsWhenDestroyed

LEMMA OneProper ==
  ASSUME Basic, NEW o \in Objects, NEW new,
         mmap' = [mmap EXCEPT ![o] = new], living' = living \cup {o},
         Sound(os', mmap', user'), OthersKept(os, mmap, o, os'),
         AccessMode = "read" => os'.dirty = {},
         failed' \in BOOLEAN,
         failed' => os'.regions = os.regions /\ (o \in living => new = mmap[o]),
         o \in Holders(mmap) /\ new = mmap[o] =>
           os'.regions[get_mapping_start(mmap[o])] = os.regions[get_mapping_start(mmap[o])]
  PROVE  Proper
<1>1. /\ mmap \in [Objects -> Object] /\ Holders(mmap) \subseteq living /\ living \subseteq Objects
  BY BasicTypes
<1>2. mmap'[o] = new /\ \A x \in Objects \ {o} : mmap'[x] = mmap[x]
  BY <1>1
<1>3. ViewsFollow
  BY <1>1, <1>2, FieldsAndViews DEF OthersKept
<1>4. Basic'
  <2>1. Holders(mmap') \subseteq living'
    BY <1>1, <1>2 DEF Holders
  <2> QED
    BY <1>1, <2>1 DEF Basic
<1>5. KeepsWhenFailed /\ SyncsWhenDestroyed
  BY <1>1, <1>2 DEF KeepsWhenFailed, SyncsWhenDestroyed
<1>6. MV!Next
  <2>1. MV!MayView(o)
    BY ViewsAllowed
  <2>2. MV!OthersKeep({o})
    BY <1>2, <1>3 DEF MV!OthersKeep, ViewsFollow
  <2>3. CASE o \in living
    <3>1. MV!Establish(o)
      BY <1>1, <2>1, <2>2, <2>3 DEF MV!Establish
    <3> QED
      BY <3>1 DEF MV!Next
  <2>4. CASE o \notin living
    <3>1. MV!Create(o)
      BY <2>1, <2>2, <2>4 DEF MV!Create
    <3> QED
      BY <3>1 DEF MV!Next
  <2> QED
    BY <2>3, <2>4
<1> QED
  BY <1>3, <1>4, <1>5, <1>6 DEF Proper

LEMMA NotThereNotHolder ==
  ASSUME Basic, NEW o \in Objects \ living
  PROVE  /\ o \in Objects \ Holders(mmap)
         /\ mmap[o] = Unset(mmap[o].is_handle_internal)
BY BasicTypes DEF RegionsOwned

LEMMA NewMapSound ==
  ASSUME Basic, NEW o \in Objects \ living, NEW g \in BOOLEAN,
         NEW res \in MapResults(os, Unset(g))
  PROVE  /\ Sound(res.os, [mmap EXCEPT ![o] = res.mmap], user)
         /\ OthersKept(os, mmap, o, res.os)
         /\ res.os.dirty \subseteq os.dirty
         /\ res.failed \in BOOLEAN
         /\ res.failed => res.os.regions = os.regions
<1>1. /\ mmap \in [Objects -> Object] /\ o \in Objects \ Holders(mmap)
      /\ mmap[o] = Unset(mmap[o].is_handle_internal) /\ mmap[o].is_handle_internal \in BOOLEAN
  BY BasicTypes, NotThereNotHolder
<1>2. PICK m : m = [mmap EXCEPT ![o] = Unset(g)]
  OBVIOUS
<1>3. m[o] = Unset(g) /\ m \in [Objects -> Object]
  BY <1>1, <1>2, UnsetIs
<1>4. Sound(os, m, user)
  BY <1>1, <1>2, BasicTypes, SoundUnset
<1>5. Holders(m) = Holders(mmap) /\ \A x \in Holders(mmap) : m[x] = mmap[x]
  BY <1>1, <1>2, UnsetIs DEF Holders
<1>6. MapOutcome(os, m, o, user, res)
  BY <1>3, <1>4, MapSound
<1>7. [m EXCEPT ![o] = res.mmap] = [mmap EXCEPT ![o] = res.mmap]
  BY <1>1, <1>2
<1>8. OthersKept(os, mmap, o, res.os)
  BY <1>5, <1>6 DEF MapOutcome, OthersKept
<1> QED
  BY <1>6, <1>7, <1>8 DEF MapOutcome

LEMMA DefaultConstructProper ==
  ASSUME Basic, NEW o \in Objects, DefaultConstruct(o)
  PROVE  Proper
<1>1. PICK g \in BOOLEAN : mmap' = [mmap EXCEPT ![o] = Unset(g)]
  BY DEF DefaultConstruct
<1>2. /\ o \notin living /\ living' = living \cup {o} /\ failed' = FALSE
      /\ UNCHANGED <<os, user>>
  BY DEF DefaultConstruct
<1>3. o \in Objects \ Holders(mmap)
  BY <1>2, NotThereNotHolder
<1>4. PICK n : n = mmap'
  OBVIOUS
<1>5. Sound(os, n, user)
  BY <1>1, <1>3, <1>4, BasicTypes, SoundUnset
<1>6. Sound(os', mmap', user')
  BY <1>2, <1>4, <1>5
<1>7. OthersKept(os, mmap, o, os')
  BY <1>2 DEF OthersKept
<1>8. AccessMode = "read" => os'.dirty = {}
  BY <1>2 DEF Basic
<1> QED
  BY <1>1, <1>2, <1>3, <1>6, <1>7, <1>8, OneProper

(***************************************************************************)
(* A new object that maps: the constructor keeps it only if map succeeds.  *)
(***************************************************************************)
LEMMA NewMappedProper ==
  ASSUME Basic, NEW o \in Objects \ living, NEW g \in BOOLEAN,
         NEW res \in MapResults(os, Unset(g)),
         mmap' = [mmap EXCEPT ![o] = res.mmap], living' = living \cup {o},
         os' = res.os, failed' = res.failed, UNCHANGED user
  PROVE  Proper
<1>1. /\ Sound(res.os, [mmap EXCEPT ![o] = res.mmap], user)
      /\ OthersKept(os, mmap, o, res.os) /\ res.os.dirty \subseteq os.dirty
      /\ res.failed \in BOOLEAN /\ (res.failed => res.os.regions = os.regions)
  BY NewMapSound
<1>2. Sound(os', mmap', user') /\ OthersKept(os, mmap, o, os')
  BY <1>1
<1>3. AccessMode = "read" => os'.dirty = {}
  BY <1>1 DEF Basic
<1>4. PICK new : new = res.mmap
  OBVIOUS
<1>5. /\ mmap' = [mmap EXCEPT ![o] = new] /\ failed' \in BOOLEAN
      /\ failed' => os'.regions = os.regions
  BY <1>1, <1>4
<1>6. o \in Objects /\ o \notin living /\ o \notin Holders(mmap)
  BY NotThereNotHolder
<1> QED
  BY <1>2, <1>3, <1>5, <1>6, OneProper

LEMMA FailedMapProper ==
  ASSUME Basic, NEW g \in BOOLEAN, NEW res \in MapResults(os, Unset(g)), res.failed,
         UNCHANGED <<living, mmap, user>>, os' = res.os, failed' = res.failed
  PROVE  Proper
<1>1. /\ Sound(res.os, mmap, user) /\ res.os.regions = os.regions
      /\ res.os.dirty = os.dirty /\ res.failed \in BOOLEAN
  BY BasicTypes, FailedMapSound
<1>2. Sound(os', mmap', user') /\ os'.regions = os.regions /\ failed' \in BOOLEAN
  BY <1>1
<1>3. AccessMode = "read" => os'.dirty = {}
  BY <1>1 DEF Basic
<1> QED
  BY <1>2, <1>3, StillProper

LEMMA ConstructMappedProper ==
  ASSUME Basic, NEW o \in Objects, ConstructMapped(o)
  PROVE  Proper
<1>1. PICK res \in MapResults(os, Unset(FALSE)) :
        /\ IF res.failed
           THEN UNCHANGED <<living, mmap>>
           ELSE living' = living \cup {o} /\ mmap' = [mmap EXCEPT ![o] = res.mmap]
        /\ os' = res.os
        /\ failed' = res.failed
  BY DEF ConstructMapped
<1>2. o \in Objects \ living /\ UNCHANGED user
  BY DEF ConstructMapped
<1>3. CASE res.failed
  BY <1>1, <1>2, <1>3, FailedMapProper
<1>4. CASE ~ res.failed
  BY <1>1, <1>2, <1>4, NewMappedProper
<1> QED
  BY <1>3, <1>4

LEMMA make_mmapProper ==
  ASSUME Basic, NEW o \in Objects, make_mmap(o)
  PROVE  Proper
<1>1. PICK g \in BOOLEAN : \E res \in MapResults(os, Unset(g)) :
        /\ mmap' = [mmap EXCEPT ![o] = res.mmap]
        /\ os' = res.os
        /\ failed' = res.failed
  BY DEF make_mmap
<1>2. o \in Objects \ living /\ living' = living \cup {o} /\ UNCHANGED user
  BY DEF make_mmap
<1> QED
  BY <1>1, <1>2, NewMappedProper

LEMMA MapProper ==
  ASSUME Basic, NEW o \in Objects, Map(o)
  PROVE  Proper
<1>1. PICK res \in MapResults(os, mmap[o]) :
        /\ mmap' = [mmap EXCEPT ![o] = res.mmap]
        /\ os' = res.os
        /\ failed' = res.failed
  BY DEF Map
<1>2. o \in living /\ UNCHANGED <<living, user>>
  BY DEF Map
<1>3. MapOutcome(os, mmap, o, user, res)
  BY BasicTypes, MapSound
<1>4. Sound(os', mmap', user') /\ OthersKept(os, mmap, o, os')
  BY <1>1, <1>2, <1>3 DEF MapOutcome
<1>5. AccessMode = "read" => os'.dirty = {}
  BY <1>1, <1>3 DEF Basic, MapOutcome
<1>6. PICK new : new = res.mmap
  OBVIOUS
<1>7. /\ mmap' = [mmap EXCEPT ![o] = new] /\ failed' \in BOOLEAN
      /\ failed' => os'.regions = os.regions /\ new = mmap[o]
      /\ ~ failed' => get_mapping_start(new) \notin Live(os)
  BY <1>1, <1>3, <1>6 DEF MapOutcome
<1>8. o \in Holders(mmap) => get_mapping_start(mmap[o]) \in Live(os)
  BY BasicTypes DEF RegionsOwned, Backed
<1>9. living' = living \cup {o}
  BY <1>2
<1>10. o \in Holders(mmap) /\ new = mmap[o] =>
         os'.regions[get_mapping_start(mmap[o])] = os.regions[get_mapping_start(mmap[o])]
  BY <1>7, <1>8
<1> QED
  BY <1>4, <1>5, <1>7, <1>9, <1>10, OneProper

LEMMA UnmapProper ==
  ASSUME Basic, NEW o \in Objects, Unmap(o)
  PROVE  Proper
<1>1. /\ o \in living /\ os' = Released(os, mmap[o]) /\ failed' = FALSE
      /\ mmap' = [mmap EXCEPT ![o] = Reset(mmap[o])] /\ UNCHANGED <<living, user>>
  BY BasicTypes DEF Unmap
<1>2. PICK g \in BOOLEAN : g = mmap[o].is_handle_internal
  BY BasicTypes
<1>3. Reset(mmap[o]) = Unset(g)
  <2>1. CASE o \in Holders(mmap)
    BY <1>2, <2>1 DEF Reset, Holders
  <2>2. CASE o \notin Holders(mmap)
    <3>1. mmap[o] = Unset(g)
      BY <1>2, <2>2, BasicTypes DEF RegionsOwned
    <3> QED
      BY <2>2, <3>1 DEF Reset, Holders
  <2> QED
    BY <2>1, <2>2
<1>4. PICK n, t : n = mmap' /\ t = os'
  OBVIOUS
<1>5. n = [mmap EXCEPT ![o] = Unset(g)] /\ t = Released(os, mmap[o])
  BY <1>1, <1>3, <1>4
<1>6. Sound(t, n, user)
  BY <1>5, BasicTypes, ReleaseSound
<1>7. OthersKept(os, mmap, o, t) /\ t.dirty \subseteq os.dirty
  BY <1>5, BasicTypes, ReleaseSound
<1>8. Sound(os', mmap', user') /\ OthersKept(os, mmap, o, os')
  BY <1>1, <1>4, <1>6, <1>7
<1>9. AccessMode = "read" => os'.dirty = {}
  BY <1>4, <1>7 DEF Basic
<1>10. PICK new : new = Unset(g)
  OBVIOUS
<1>11. mmap' = [mmap EXCEPT ![o] = new] /\ ~ is_open(new) /\ living' = living \cup {o}
  BY <1>1, <1>3, <1>10, UnsetIs
<1>12. ~ (o \in Holders(mmap) /\ new = mmap[o])
  BY <1>11 DEF Holders
<1> QED
  BY <1>1, <1>8, <1>9, <1>11, <1>12, OneProper

LEMMA SyncProper ==
  ASSUME Basic, NEW o \in Objects, Sync(o)
  PROVE  Proper
<1>1. /\ os' = Synced(os, mmap[o]) /\ UNCHANGED <<living, mmap, user>>
      /\ failed' \in BOOLEAN
  BY DEF Sync, SyncAccepts
<1>2. PICK t : t = os'
  OBVIOUS
<1>3. Sound(t, mmap, user) /\ t.regions = os.regions /\ t.dirty \subseteq os.dirty
  BY <1>1, <1>2, BasicTypes, SyncSound
<1>4. Sound(os', mmap', user') /\ os'.regions = os.regions
  BY <1>1, <1>2, <1>3
<1>5. AccessMode = "read" => os'.dirty = {}
  BY <1>2, <1>3 DEF Basic
<1> QED
  BY <1>1, <1>4, <1>5, StillProper

LEMMA WriteProper ==
  ASSUME Basic, NEW o \in Objects, Write(o)
  PROVE  Proper
<1>1. PICK D : D = os.dirty \cup Holding(begin(mmap[o]))
  OBVIOUS
<1>2. os' = [os EXCEPT !.dirty = D] /\ UNCHANGED <<living, mmap, user, failed>>
      /\ AccessMode = "write"
  BY <1>1 DEF Write
<1>3. D \in SUBSET Live(os)
  BY <1>1, BasicTypes DEF Holding
<1>4. PICK t : t = os'
  OBVIOUS
<1>5. Sound(t, mmap, user) /\ t.regions = os.regions
  <2>1. t = [os EXCEPT !.dirty = D]
    BY <1>2, <1>4
  <2>2. Sound(os, mmap, user)
    BY BasicTypes
  <2>3. Sound(t, mmap, user)
    BY <1>3, <2>1, <2>2, SoundDirtied
  <2>4. t.regions = os.regions
    BY <2>1, BasicTypes DEF System
  <2> QED
    BY <2>3, <2>4
<1>6. Sound(os', mmap', user') /\ os'.regions = os.regions /\ AccessMode # "read"
      /\ failed' \in BOOLEAN
  BY <1>2, <1>4, <1>5 DEF Basic
<1> QED
  BY <1>2, <1>6, StillProper
-----------------------------------------------------------------------------
(***************************************************************************)
(* Steps in which an object takes the fields of another one.               *)
(***************************************************************************)
LEMMA MoveSound ==
  ASSUME NEW s, NEW m, NEW U, Sound(s, m, U), NEW o \in Objects, NEW x \in Objects, o # x,
         o \notin Holders(m), NEW g \in BOOLEAN,
         NEW n, n = [m EXCEPT ![o] = m[x], ![x] = Unset(g)]
  PROVE  Sound(s, n, U)
<1>1. m \in [Objects -> Object]
  BY DEF Sound
<1>2. PICK k : k = [m EXCEPT ![o] = m[x], ![x] = m[o]]
  OBVIOUS
<1>3. Sound(s, k, U)
  BY <1>2, SoundSwapped
<1>4. x \in Objects \ Holders(k)
  BY <1>1, <1>2 DEF Holders
<1>5. n = [k EXCEPT ![x] = Unset(g)]
  BY <1>1, <1>2
<1> QED
  BY <1>3, <1>4, <1>5, SoundUnset

LEMMA MovedFields ==
  ASSUME NEW m \in [Objects -> Object], NEW o \in Objects, NEW x \in Objects, o # x,
         NEW g \in BOOLEAN, NEW n, n = [m EXCEPT ![o] = m[x], ![x] = Unset(g)]
  PROVE  /\ n[o] = m[x] /\ n[x] = Unset(g)
         /\ \A y \in Objects \ {o, x} : n[y] = m[y]
         /\ x \notin Holders(n)
BY UnsetIs DEF Holders

LEMMA ViewTransfers ==
  ASSUME Basic, Sound(os', mmap', user'), ViewsFollow,
         NEW o \in Objects, NEW x \in living, o # x,
         mmap'[o] = mmap[x], x \notin Holders(mmap'),
         \A y \in Objects \ {o, x} : mmap'[y] = mmap[y],
         x \in Holders(mmap) =>
           os'.regions[get_mapping_start(mmap[x])] = os.regions[get_mapping_start(mmap[x])],
         living' = living \cup {o}
  PROVE  MV!Next
<1>1. living \subseteq Objects /\ Sound(os, mmap, user)
  BY BasicTypes
<1>2. ViewOf(os', mmap'[o]) = ViewOf(os, mmap[x])
  <2>1. PICK t : t = os'
    OBVIOUS
  <2>2. ViewOf(t, mmap[x]) = ViewOf(os, mmap[x])
    BY <1>1, <2>1, ViewKept
  <2> QED
    BY <2>1, <2>2
<1>3. ViewOf(os', mmap'[x]) = NoView
  BY <1>1, ViewsAllowed
<1>4. \A y \in Objects \ {o, x} : ViewOf(os', mmap'[y]) = ViewOf(os, mmap[y])
  BY DEF ViewsFollow
<1>5. MV!Transfer(o, x, {})
  BY <1>1, <1>2, <1>3, <1>4 DEF MV!Transfer, MV!OthersKeep
<1> QED
  BY <1>1, <1>5 DEF MV!Next

LEMMA MoveConstructProper ==
  ASSUME Basic, NEW o \in Objects, NEW other \in Objects, MoveConstruct(o, other)
  PROVE  Proper
<1>1. PICK g \in BOOLEAN : g = mmap[other].is_handle_internal
  BY BasicTypes
<1>2. /\ o \notin living /\ other \in living /\ o # other
      /\ mmap' = [mmap EXCEPT ![o] = mmap[other], ![other] = Unset(g)]
      /\ living' = living \cup {o} /\ failed' = FALSE
      /\ UNCHANGED <<os, user>>
  BY <1>1 DEF MoveConstruct
<1>3. mmap \in [Objects -> Object] /\ o \notin Holders(mmap) /\ Sound(os, mmap, user)
      /\ Holders(mmap) \subseteq living /\ living \subseteq Objects
  BY <1>2, BasicTypes
<1>4. PICK n : n = mmap'
  OBVIOUS
<1>5. n = [mmap EXCEPT ![o] = mmap[other], ![other] = Unset(g)]
  BY <1>2, <1>4
<1>6. Sound(os, n, user)
  BY <1>2, <1>3, <1>5, MoveSound
<1>7. /\ n[o] = mmap[other] /\ n[other] = Unset(g)
      /\ \A y \in Objects \ {o, other} : n[y] = mmap[y]
      /\ other \notin Holders(n)
  BY <1>2, <1>3, <1>5, UnsetIs DEF Holders
<1>8. Sound(os', mmap', user')
  BY <1>2, <1>4, <1>6
<1>9. ViewsFollow
  BY <1>2, FieldsAndViews
<1>10. MV!Next
  BY <1>2, <1>4, <1>7, <1>8, <1>9, ViewTransfers
<1>11. Basic'
  <2>1. Holders(mmap') \subseteq living'
    BY <1>2, <1>3, <1>4, <1>7 DEF Holders
  <2> QED
    BY <1>2, <1>3, <1>8, <2>1 DEF Basic
<1> QED
  BY <1>2, <1>9, <1>10, <1>11 DEF Proper, KeepsWhenFailed, SyncsWhenDestroyed

LEMMA MoveAssignProper ==
  ASSUME Basic, NEW o \in Objects, NEW other \in Objects, MoveAssign(o, other)
  PROVE  Proper
<1>1. /\ o \in living /\ other \in living /\ failed' = FALSE /\ UNCHANGED <<living, user>>
  BY DEF MoveAssign
<1>2. mmap \in [Objects -> Object] /\ Sound(os, mmap, user)
      /\ Holders(mmap) \subseteq living /\ living \subseteq Objects
      /\ RegionsOwned(os, mmap)
  BY BasicTypes
<1>3. CASE o = other
  <2>1. UNCHANGED <<mmap, os>>
    BY <1>3 DEF MoveAssign
  <2>2. Sound(os', mmap', user') /\ (AccessMode = "read" => os'.dirty = {})
    BY <1>1, <1>2, <2>1 DEF Basic
  <2> QED
    BY <1>1, <2>1, <2>2, StillProper
<1>4. CASE o # other
  <2>1. /\ os' = Released(os, mmap[o])
        /\ mmap' = [mmap EXCEPT ![o] = mmap[other], ![other] = Unset(FALSE)]
    BY <1>4 DEF MoveAssign
  <2>2. PICK m, t, n : /\ m = [mmap EXCEPT ![o] = Unset(FALSE)]
                       /\ t = os' /\ n = mmap'
    OBVIOUS
  <2>3. t = Released(os, mmap[o])
    BY <2>1, <2>2
  <2>4. Sound(t, m, user)
    BY <1>2, <2>2, <2>3, ReleaseSound
  <2>5. OthersKept(os, mmap, o, t) /\ t.dirty \subseteq os.dirty
    BY <1>2, <2>2, <2>3, ReleaseSound
  <2>6. m \in [Objects -> Object] /\ o \notin Holders(m) /\ m[other] = mmap[other]
        /\ n = [m EXCEPT ![o] = m[other], ![other] = Unset(FALSE)]
    BY <1>2, <1>4, <2>1, <2>2, UnsetIs DEF Holders
  <2>7. Sound(t, n, user)
    BY <1>4, <2>4, <2>6, MoveSound
  <2>8. /\ n[o] = mmap[other] /\ n[other] = Unset(FALSE)
        /\ \A y \in Objects \ {o, other} : n[y] = mmap[y]
        /\ other \notin Holders(n)
    <3>1. n = [mmap EXCEPT ![o] = mmap[other], ![other] = Unset(FALSE)]
      BY <2>1, <2>2
    <3> QED
      BY <1>2, <1>4, <3>1, MovedFields
  <2>9. Sound(os', mmap', user') /\ OthersKept(os, mmap, o, os')
        /\ (AccessMode = "read" => os'.dirty = {})
    BY <1>1, <2>2, <2>5, <2>7 DEF Basic
  <2>10. o \in Holders(mmap) => mmap'[o] # mmap[o]
    <3>1. SUFFICES ASSUME o \in Holders(mmap), mmap[other] = mmap[o] PROVE FALSE
      BY <2>2, <2>8
    <3>2. other \in Holders(mmap)
      BY <3>1 DEF Holders
    <3> QED
      BY <1>2, <1>4, <3>1, <3>2 DEF RegionsOwned
  <2>11. ViewsFollow
    BY <2>9, <2>10, FieldsAndViews DEF OthersKept
  <2>12. living' = living \cup {o}
    BY <1>1
  <2>13. other \in Holders(mmap) =>
           os'.regions[get_mapping_start(mmap[other])] = os.regions[get_mapping_start(mmap[other])]
    BY <1>4, <2>9 DEF OthersKept
  <2>14. MV!Next
    BY <1>1, <1>4, <2>2, <2>8, <2>9, <2>11, <2>12, <2>13, ViewTransfers
  <2>15. Basic'
    <3>1. Holders(mmap') \subseteq living'
      BY <1>1, <1>2, <2>2, <2>8 DEF Holders
    <3> QED
      BY <1>1, <1>2, <2>9, <3>1 DEF Basic
  <2> QED
    BY <1>1, <2>11, <2>14, <2>15 DEF Proper, KeepsWhenFailed, SyncsWhenDestroyed
<1> QED
  BY <1>3, <1>4

LEMMA SwapProper ==
  ASSUME Basic, NEW o \in Objects, NEW other \in Objects, Swap(o, other)
  PROVE  Proper
<1>1. /\ o \in living /\ other \in living /\ failed' = FALSE /\ UNCHANGED <<living, os, user>>
      /\ mmap' = [mmap EXCEPT ![o] = mmap[other], ![other] = mmap[o]]
  BY DEF Swap
<1>2. mmap \in [Objects -> Object] /\ Sound(os, mmap, user)
      /\ Holders(mmap) \subseteq living /\ living \subseteq Objects
  BY BasicTypes
<1>3. PICK n : n = mmap'
  OBVIOUS
<1>4. n = [mmap EXCEPT ![o] = mmap[other], ![other] = mmap[o]]
  BY <1>1, <1>3
<1>5. Sound(os, n, user)
  BY <1>2, <1>4, SoundSwapped
<1>6. /\ mmap'[o] = mmap[other] /\ mmap'[other] = mmap[o]
      /\ \A y \in Objects \ {o, other} : mmap'[y] = mmap[y]
  BY <1>1, <1>2
<1>7. Sound(os', mmap', user')
  BY <1>1, <1>3, <1>5
<1>8. ViewsFollow
  BY <1>1, FieldsAndViews
<1>9. MV!Exchange(o, other)
  BY <1>1, <1>2, <1>6, <1>8 DEF MV!Exchange, MV!OthersKeep, ViewsFollow
<1>10. MV!Next
  BY <1>9 DEF MV!Next
<1>11. Basic'
  <2>1. Holders(mmap') \subseteq living'
    BY <1>1, <1>2, <1>6 DEF Holders
  <2> QED
    BY <1>1, <1>2, <1>7, <2>1 DEF Basic
<1> QED
  BY <1>1, <1>8, <1>10, <1>11 DEF Proper, KeepsWhenFailed, SyncsWhenDestroyed

LEMMA DestroyProper ==
  ASSUME Basic, NEW o \in Objects, Destroy(o)
  PROVE  Proper
<1>1. /\ o \in living /\ failed' = FALSE /\ UNCHANGED user
      /\ os' = Destructed(os, mmap[o]) /\ living' = living \ {o}
      /\ mmap' = [mmap EXCEPT ![o] = Unset(FALSE)]
  BY DEF Destroy
<1>2. mmap \in [Objects -> Object] /\ Sound(os, mmap, user)
      /\ Holders(mmap) \subseteq living /\ living \subseteq Objects
      /\ (AccessMode = "read" => os.dirty = {})
  BY BasicTypes DEF Basic
<1>3. PICK n, t : n = mmap' /\ t = os'
  OBVIOUS
<1>4. n = [mmap EXCEPT ![o] = Unset(FALSE)] /\ t = Destructed(os, mmap[o])
  BY <1>1, <1>3
<1>5. Sound(t, n, user)
  BY <1>2, <1>4, DestructSound
<1>6. OthersKept(os, mmap, o, t) /\ t.dirty \subseteq os.dirty /\ (t.pending => os.pending)
  BY <1>2, <1>4, DestructSound
<1>7. /\ ~ is_open(mmap'[o]) /\ \A y \in Objects \ {o} : mmap'[y] = mmap[y]
      /\ o \notin Holders(mmap')
  BY <1>1, <1>2, UnsetIs DEF Holders
<1>8. Sound(os', mmap', user') /\ OthersKept(os, mmap, o, os')
      /\ (AccessMode = "read" => os'.dirty = {})
  BY <1>1, <1>2, <1>3, <1>5, <1>6
<1>9. ViewsFollow
  BY <1>7, <1>8, FieldsAndViews DEF OthersKept, Holders
<1>10. MV!Destroy(o)
  <2>1. ViewOf(os', mmap'[o]) = NoView
    BY <1>7, <1>8, ViewsAllowed
  <2> QED
    BY <1>1, <1>7, <1>9, <2>1 DEF MV!Destroy, MV!OthersKeep, ViewsFollow
<1>11. MV!Next
  BY <1>10 DEF MV!Next
<1>12. Basic'
  <2>1. Holders(mmap') \subseteq living'
    BY <1>1, <1>2, <1>7 DEF Holders
  <2> QED
    BY <1>1, <1>2, <1>8, <2>1 DEF Basic
<1>13. SyncsWhenDestroyed
  BY <1>3, <1>6 DEF SyncsWhenDestroyed
<1> QED
  BY <1>1, <1>9, <1>11, <1>12, <1>13 DEF Proper, KeepsWhenFailed

(***************************************************************************)
(* The caller's own descriptors.                                           *)
(***************************************************************************)
LEMMA EnvironmentProper ==
  ASSUME Basic, Environment
  PROVE  Proper
<1>1. UNCHANGED <<living, mmap, failed>> /\ Sound(os, mmap, user) /\ failed' \in BOOLEAN
      /\ (AccessMode = "read" => os.dirty = {})
  BY BasicTypes DEF Environment, UserOpens, UserCloses, Basic
<1>2. PICK t, V : t = os' /\ V = user'
  OBVIOUS
<1>3. Sound(t, mmap, V) /\ t.regions = os.regions /\ t.dirty = os.dirty
  <2>1. CASE \E file \in Files : UserOpens(file)
    <3>1. PICK file \in Files : UserOpens(file)
      BY <2>1
    <3>2. CanOpen(os) /\ t = Opened(os, file) /\ V = user \cup {LowestFree(os)}
      BY <1>2, <3>1 DEF UserOpens
    <3>3. Sound(t, mmap, user \cup {LowestFree(os)})
      BY <1>1, <3>2, SoundOpened
    <3>4. t.regions = os.regions /\ t.dirty = os.dirty
      BY <1>1, <3>2, SoundOpened
    <3> QED
      BY <3>2, <3>3, <3>4
  <2>2. CASE \E handle \in user : UserCloses(handle)
    <3>1. PICK handle \in user : UserCloses(handle)
      BY <2>2
    <3>2. t = Closed(os, handle) /\ V = user \ {handle}
      BY <1>2, <3>1 DEF UserCloses
    <3>3. Sound(t, mmap, user \ {handle})
      BY <1>1, <3>2, SoundClosed
    <3>4. t.regions = os.regions /\ t.dirty = os.dirty
      BY <1>1, <3>2, SoundClosed
    <3> QED
      BY <3>2, <3>3, <3>4
  <2> QED
    BY <2>1, <2>2 DEF Environment
<1>4. Sound(os', mmap', user') /\ os'.regions = os.regions
      /\ (AccessMode = "read" => os'.dirty = {})
  BY <1>1, <1>2, <1>3
<1> QED
  BY <1>1, <1>4, StillProper

(***************************************************************************)
(* Every step of the objects in S and of the caller, who leave others be.  *)
(***************************************************************************)
LEMMA OnObjectsProper ==
  ASSUME Basic, NEW S \in SUBSET Objects, OnObjects(S)
  PROVE  Proper /\ \A x \in Objects \ S : mmap'[x] = mmap[x] /\ (x \in living' <=> x \in living)
<1>1. PICK o \in S : OnOne(o) \/ \E other \in S : OnTwo(o, other)
  BY DEF OnObjects
<1>2. mmap \in [Objects -> Object] /\ o \in Objects
  BY BasicTypes
<1>3. CASE OnOne(o)
  <2>1. Proper
    BY <1>2, <1>3, DefaultConstructProper, ConstructMappedProper, make_mmapProper, MapProper,
       UnmapProper, SyncProper, DestroyProper, WriteProper DEF OnOne
  <2>2. \A x \in Objects \ {o} : mmap'[x] = mmap[x]
    BY <1>2, <1>3
    DEF OnOne, DefaultConstruct, ConstructMapped, make_mmap, Map, Unmap, Sync, Destroy, Write
  <2>3. living' \in {living, living \cup {o}, living \ {o}}
    BY <1>2, <1>3
    DEF OnOne, DefaultConstruct, ConstructMapped, make_mmap, Map, Unmap, Sync, Destroy, Write
  <2> QED
    BY <2>1, <2>2, <2>3
<1>4. CASE \E other \in S : OnTwo(o, other)
  <2>1. PICK other \in S : OnTwo(o, other)
    BY <1>4
  <2>2. Proper
    BY <1>2, <2>1, MoveConstructProper, MoveAssignProper, SwapProper DEF OnTwo
  <2>3. \A x \in Objects \ {o, other} : mmap'[x] = mmap[x]
    BY <1>2, <2>1 DEF OnTwo, MoveConstruct, MoveAssign, Swap
  <2>4. living' \in {living, living \cup {o}}
    BY <1>2, <2>1 DEF OnTwo, MoveConstruct, MoveAssign, Swap
  <2> QED
    BY <2>2, <2>3, <2>4
<1> QED
  BY <1>1, <1>3, <1>4
-----------------------------------------------------------------------------
(***************************************************************************)
(* Handles.  Rebinding destroys at most one object, which none of the      *)
(* handles has any more; it syncs that object first, and the other objects *)
(* keep the fields and the views that they have in m.                      *)
(***************************************************************************)
RebindOutcome(gone, exist, m) ==
  /\ Basic' /\ ~ failed'
  /\ living' = exist \ gone
  /\ os'.pending => os.pending
  /\ \A x \in gone : mmap'[x] = Unset(FALSE) /\ ViewOf(os', mmap'[x]) = NoView
  /\ \A x \in Objects \ gone : mmap'[x] = m[x] /\ ViewOf(os', mmap'[x]) = ViewOf(os, m[x])

LEMMA RebindSound ==
  ASSUME NEW p, NEW exist, NEW m, NEW old,
         Sound(os, m, user), exist \subseteq Objects, Holders(m) \subseteq exist,
         AccessMode = "read" => os.dirty = {},
         Unreferenced(p, exist) \subseteq {old}, Rebind(p, exist, m, os)
  PROVE  RebindOutcome(Unreferenced(p, exist), exist, m)
<1>1. PICK gone : gone = Unreferenced(p, exist)
  OBVIOUS
<1>2. /\ living' = exist \ gone
      /\ mmap' = [o \in Objects |-> IF o \in gone THEN Unset(FALSE) ELSE m[o]]
      /\ os' = IF gone = {} THEN os ELSE Destructed(os, m[CHOOSE h \in gone : TRUE])
      /\ failed' = FALSE /\ UNCHANGED user
  BY <1>1 DEF Rebind
<1>3. gone \subseteq {old} /\ gone \subseteq exist /\ m \in [Objects -> Object]
  BY <1>1 DEF Unreferenced, Sound
<1>4. CASE gone = {}
  <2>1. mmap' = m /\ os' = os
    BY <1>2, <1>3, <1>4
  <2>2. Basic'
    BY <1>2, <1>4, <2>1 DEF Basic
  <2> QED
    BY <1>1, <1>2, <1>4, <2>1, <2>2 DEF RebindOutcome
<1>5. CASE gone = {old}
  <2>1. old \in Objects /\ (CHOOSE h \in gone : TRUE) = old
    BY <1>3, <1>5
  <2>2. PICK n, t : n = mmap' /\ t = os'
    OBVIOUS
  <2>3. n = [m EXCEPT ![old] = Unset(FALSE)] /\ t = Destructed(os, m[old])
    BY <1>2, <1>3, <1>5, <2>1, <2>2
  <2>a. Sound(os, m, user) /\ (AccessMode = "read" => os.dirty = {}) /\ old \in Objects
    BY <2>1
  <2>4. Sound(t, n, user) /\ Holders(n) = Holders(m) \ {old}
    <3>1. Sound(t, n, user)
      BY <2>3, <2>a, DestructSound
    <3>2. Holders(n) = Holders(m) \ {old}
      BY <1>3, <2>1, <2>3, UnsetIs DEF Holders
    <3> QED
      BY <3>1, <3>2
  <2>5. OthersKept(os, m, old, t) /\ t.dirty \subseteq os.dirty /\ (t.pending => os.pending)
    BY <2>3, <2>a, DestructSound
  <2>6. n[old] = Unset(FALSE) /\ \A x \in Objects \ {old} : n[x] = m[x]
    BY <1>3, <2>1, <2>3
  <2>7. ViewOf(t, n[old]) = NoView
    BY <2>6, UnsetIs DEF ViewOf
  <2>8. \A x \in Objects \ {old} : ViewOf(t, m[x]) = ViewOf(os, m[x])
    BY <2>5, ViewKept DEF OthersKept
  <2>9. Sound(os', mmap', user') /\ Holders(mmap') \subseteq living'
        /\ (AccessMode = "read" => os'.dirty = {})
    BY <1>2, <1>5, <2>2, <2>4, <2>5
  <2>10. Basic'
    BY <1>2, <2>9 DEF Basic
  <2> QED
    BY <1>1, <1>2, <1>5, <2>2, <2>5, <2>6, <2>7, <2>8, <2>10 DEF RebindOutcome
<1> QED
  BY <1>3, <1>4, <1>5

LEMMA RebindReferenced ==
  ASSUME NEW p \in [Shared -> Heap \cup {NoImpl}], NEW exist, NEW m, NEW s,
         Rebind(p, exist, m, s), shared' \subseteq Shared,
         \A t \in Shared : p[t] # NoImpl => t \in shared' /\ p[t] \in exist
  PROVE  Referenced'
<1>1. pimpl' = p /\ living' = exist \ Unreferenced(p, exist)
  BY DEF Rebind
<1>2. \A t \in Shared : p[t] \notin Unreferenced(p, exist)
  BY DEF Unreferenced
<1>3. \A h \in Heap \cap living' : \E t \in Shared : p[t] = h
  BY <1>1 DEF Unreferenced
<1> QED
  BY <1>1, <1>2, <1>3 DEF Referenced

(***************************************************************************)
(* What a step with handles does: what every step does, and a handle that  *)
(* keeps its object sees the fields change only by a call on that object.  *)
(***************************************************************************)
SharersFollow ==
  \A t \in shared \cap shared' :
    pimpl'[t] = pimpl[t] /\ pimpl[t] # NoImpl /\ mmap'[pimpl[t]] # mmap[pimpl[t]] =>
      /\ pimpl' = pimpl
      /\ \A o \in living \ {pimpl[t]} : mmap'[o] = mmap[o]

SharedProper == Proper /\ Referenced' /\ SharersFollow

LEMMA RebindViews ==
  ASSUME NEW gone, NEW exist, NEW m, RebindOutcome(gone, exist, m)
  PROVE  ViewsFollow /\ KeepsWhenFailed /\ SyncsWhenDestroyed
<1>1. ASSUME NEW x \in Objects, mmap'[x] = mmap[x]
      PROVE  ViewOf(os', mmap'[x]) = ViewOf(os, mmap[x])
  <2>1. CASE x \in gone
    BY <1>1, <2>1, UnsetIs DEF RebindOutcome, ViewOf
  <2>2. CASE x \notin gone
    BY <1>1, <2>2 DEF RebindOutcome
  <2> QED
    BY <2>1, <2>2
<1> QED
  BY <1>1 DEF RebindOutcome, ViewsFollow, KeepsWhenFailed, SyncsWhenDestroyed

LEMMA RepointProper ==
  ASSUME IInv, NEW p \in [Shared -> Heap \cup {NoImpl}], NEW old,
         Rebind(p, living, mmap, os), shared' \subseteq Shared,
         \A t \in Shared : p[t] # NoImpl => t \in shared' /\ p[t] \in living,
         \A t \in Shared : pimpl[t] # old => \E u \in Shared : p[u] = pimpl[t]
  PROVE  SharedProper
<1>1. PICK gone : gone = Unreferenced(p, living)
  OBVIOUS
<1>2. gone \subseteq {old}
  BY <1>1 DEF IInv, Referenced, Unreferenced
<1>3. Sound(os, mmap, user) /\ living \subseteq Objects /\ Holders(mmap) \subseteq living
      /\ (AccessMode = "read" => os.dirty = {})
  BY DEF IInv, Basic
<1>4. RebindOutcome(gone, living, mmap)
  BY <1>1, <1>2, <1>3, RebindSound
<1>5. Referenced'
  BY RebindReferenced
<1>6. ViewsFollow /\ KeepsWhenFailed /\ SyncsWhenDestroyed
  BY <1>4, RebindViews
<1>7. SharersFollow
  <2>1. \A t \in Shared : p[t] # NoImpl => p[t] \in Objects \ gone
    BY <1>1, <1>3, HeapAssumption DEF Unreferenced
  <2>2. shared \subseteq Shared /\ pimpl' = p
    BY DEF IInv, Referenced, Rebind
  <2> QED
    BY <1>4, <2>1, <2>2 DEF RebindOutcome, SharersFollow
<1>8. [MV!Next]_(MV!vars)
  <2>1. CASE gone = {}
    <3>1. UNCHANGED MV!vars
      BY <1>4, <2>1 DEF RebindOutcome, MV!vars
    <3> QED
      BY <3>1
  <2>2. CASE gone = {old}
    <3>1. old \in living /\ old \in Objects
      BY <1>1, <1>3, <2>2 DEF Unreferenced
    <3>2. MV!Destroy(old)
      BY <1>4, <2>2, <3>1 DEF RebindOutcome, MV!Destroy, MV!OthersKeep
    <3> QED
      BY <3>1, <3>2 DEF MV!Next
  <2> QED
    BY <1>2, <2>1, <2>2
<1> QED
  BY <1>4, <1>5, <1>6, <1>7, <1>8 DEF SharedProper, Proper, RebindOutcome
(***************************************************************************)
(* Handles that let go of an object, share one, or take another one's.     *)
(***************************************************************************)
LEMMA HandleTypes ==
  ASSUME IInv
  PROVE  /\ Basic /\ shared \subseteq Shared /\ pimpl \in [Shared -> Heap \cup {NoImpl}]
         /\ \A t \in Shared : pimpl[t] # NoImpl =>
              t \in shared /\ pimpl[t] \in living /\ pimpl[t] \in Heap
         /\ Heap \subseteq Objects /\ NoImpl \notin Heap
BY HeapAssumption DEF IInv, Referenced

LEMMA RepointedProper ==
  ASSUME IInv, NEW t \in Shared, NEW impl \in (Heap \cap living) \cup {NoImpl},
         Repoint(t, impl), shared' \subseteq Shared, shared \ {t} \subseteq shared',
         impl # NoImpl => t \in shared'
  PROVE  SharedProper
<1>1. PICK p : p = [pimpl EXCEPT ![t] = impl]
  OBVIOUS
<1>2. p \in [Shared -> Heap \cup {NoImpl}] /\ p[t] = impl
      /\ \A w \in Shared \ {t} : p[w] = pimpl[w]
  BY <1>1, HandleTypes
<1>3. Rebind(p, living, mmap, os)
  BY <1>1 DEF Repoint
<1>4. \A w \in Shared : p[w] # NoImpl => w \in shared' /\ p[w] \in living
  BY <1>2, HandleTypes
<1>5. \A w \in Shared : pimpl[w] # pimpl[t] => \E u \in Shared : p[u] = pimpl[w]
  BY <1>2
<1> QED
  BY <1>2, <1>3, <1>4, <1>5, RepointProper

LEMMA MovedProper ==
  ASSUME IInv, NEW t \in Shared, NEW u \in shared, t # u,
         Rebind([pimpl EXCEPT ![t] = pimpl[u], ![u] = NoImpl], living, mmap, os),
         shared' \subseteq Shared, shared \cup {t} \subseteq shared'
  PROVE  SharedProper
<1>1. PICK p : p = [pimpl EXCEPT ![t] = pimpl[u], ![u] = NoImpl]
  OBVIOUS
<1>2. p \in [Shared -> Heap \cup {NoImpl}] /\ p[t] = pimpl[u] /\ p[u] = NoImpl
      /\ \A w \in Shared \ {t, u} : p[w] = pimpl[w]
  BY <1>1, HandleTypes
<1>3. Rebind(p, living, mmap, os)
  BY <1>1
<1>4. \A w \in Shared : p[w] # NoImpl => w \in shared' /\ p[w] \in living
  BY <1>2, HandleTypes
<1>5. \A w \in Shared : pimpl[w] # pimpl[t] => \E v \in Shared : p[v] = pimpl[w]
  BY <1>2
<1> QED
  BY <1>2, <1>3, <1>4, <1>5, RepointProper

LEMMA SharedSwapProper ==
  ASSUME IInv, NEW t \in Shared, NEW u \in Shared, SharedSwap(t, u)
  PROVE  SharedProper
<1>1. PICK p : p = [pimpl EXCEPT ![t] = pimpl[u], ![u] = pimpl[t]]
  OBVIOUS
<1>2. p \in [Shared -> Heap \cup {NoImpl}] /\ p[t] = pimpl[u] /\ p[u] = pimpl[t]
      /\ \A w \in Shared \ {t, u} : p[w] = pimpl[w]
  BY <1>1, HandleTypes
<1>3. Rebind(p, living, mmap, os) /\ shared' = shared /\ {t, u} \subseteq shared
  BY <1>1 DEF SharedSwap
<1>4. \A w \in Shared : p[w] # NoImpl => w \in shared' /\ p[w] \in living
  BY <1>2, <1>3, HandleTypes
<1>5. \A w \in Shared : \E v \in Shared : p[v] = pimpl[w]
  BY <1>2
<1>6. shared' \subseteq Shared
  BY <1>3, HandleTypes
<1> QED
  BY <1>2, <1>3, <1>4, <1>5, <1>6, RepointProper

(***************************************************************************)
(* An object that is moved to the heap.                                    *)
(***************************************************************************)
LEMMA TakeProper ==
  ASSUME IInv, NEW t \in Shared, NEW o \in Objects \ Heap, Take(t, o),
         shared' \subseteq Shared, shared \cup {t} \subseteq shared'
  PROVE  SharedProper
<1>1. PICK h \in Heap \ living :
        Rebind([pimpl EXCEPT ![t] = h], living \cup {h}, MovedToHeap(o, h), os)
  BY DEF Take
<1>2. PICK p : p = [pimpl EXCEPT ![t] = h]
  OBVIOUS
<1>3. PICK m : m = MovedToHeap(o, h)
  OBVIOUS
<1>4. PICK gone : gone = Unreferenced(p, living \cup {h})
  OBVIOUS
<1>5. /\ o \in living /\ o # h /\ h \in Objects /\ h \notin living
  BY <1>1, HandleTypes DEF Take
<1>6. /\ Sound(os, mmap, user) /\ mmap \in [Objects -> Object]
      /\ Holders(mmap) \subseteq living /\ living \subseteq Objects
      /\ (AccessMode = "read" => os.dirty = {})
  BY HandleTypes, BasicTypes DEF Basic
<1>7. PICK g \in BOOLEAN : g = mmap[o].is_handle_internal
  BY <1>5, <1>6, HandleTypes, BasicTypes
<1>8. m = [mmap EXCEPT ![h] = mmap[o], ![o] = Unset(g)]
  BY <1>3, <1>7 DEF MovedToHeap
<1>9. /\ m[h] = mmap[o] /\ m[o] = Unset(g)
      /\ \A y \in Objects \ {h, o} : m[y] = mmap[y]
  BY <1>5, <1>6, <1>8
<1>10. Sound(os, m, user)
  <2>1. h \notin Holders(mmap)
    BY <1>5, <1>6
  <2> QED
    BY <1>5, <1>6, <1>8, <2>1, MoveSound
<1>11. Holders(m) \subseteq living \cup {h} /\ living \cup {h} \subseteq Objects
  BY <1>5, <1>6, <1>9 DEF Holders
<1>12. p \in [Shared -> Heap \cup {NoImpl}] /\ p[t] = h
       /\ \A w \in Shared \ {t} : p[w] = pimpl[w]
  BY <1>1, <1>2, HandleTypes
<1>13. gone \subseteq {pimpl[t]} /\ gone \subseteq living \ {h, o}
  BY <1>1, <1>4, <1>5, <1>12 DEF IInv, Referenced, Unreferenced
<1>14. RebindOutcome(gone, living \cup {h}, m)
  BY <1>1, <1>2, <1>3, <1>4, <1>6, <1>10, <1>11, <1>13, RebindSound
<1>15. Referenced'
  <2>1. \A w \in Shared : p[w] # NoImpl => w \in shared' /\ p[w] \in living \cup {h}
    BY <1>12, HandleTypes
  <2> QED
    BY <1>1, <1>2, <1>12, <2>1, RebindReferenced
<1>16. ViewsFollow /\ KeepsWhenFailed /\ SyncsWhenDestroyed
  BY <1>14, RebindViews
<1>17. SharersFollow
  <2>1. pimpl' = p
    BY <1>1, <1>2 DEF Rebind
  <2>2. \A w \in Shared : p[w] # NoImpl => p[w] \in Heap \ gone
    BY <1>4, <1>12 DEF Unreferenced
  <2>3. ASSUME NEW w \in Shared, p[w] = pimpl[w], pimpl[w] # NoImpl
        PROVE  mmap'[pimpl[w]] = mmap[pimpl[w]]
    <3>1. pimpl[w] \in Objects \ gone /\ pimpl[w] # h /\ pimpl[w] # o
      BY <1>5, <2>2, <2>3, HandleTypes
    <3> QED
      BY <1>9, <1>14, <3>1 DEF RebindOutcome
  <2> QED
    BY <2>1, <2>3, HandleTypes DEF SharersFollow
<1>18. MV!Next
  <2>1. \A x \in Objects \ {h, o} : ViewOf(os, m[x]) = ViewOf(os, mmap[x])
    BY <1>9
  <2>2. ViewOf(os, m[h]) = ViewOf(os, mmap[o]) /\ ViewOf(os, m[o]) = NoView
    BY <1>9, UnsetIs DEF ViewOf
  <2>3. MV!Transfer(h, o, gone)
    BY <1>5, <1>6, <1>13, <1>14, <2>1, <2>2 DEF RebindOutcome, MV!Transfer, MV!OthersKeep
  <2>4. gone \in SUBSET (living \ living')
    BY <1>13, <1>14 DEF RebindOutcome
  <2> QED
    BY <1>5, <1>6, <2>3, <2>4 DEF MV!Next
<1> QED
  BY <1>14, <1>15, <1>16, <1>17, <1>18 DEF SharedProper, Proper, RebindOutcome

(***************************************************************************)
(* A handle that maps a new object, and calls that go to the object.       *)
(***************************************************************************)
LEMMA MapNewProper ==
  ASSUME IInv, NEW t \in Shared, pimpl[t] = NoImpl, NEW g \in BOOLEAN,
         NEW res \in MapResults(os, Unset(g)), MapNew(t, res),
         shared' \subseteq Shared, shared \subseteq shared', ~ res.failed => t \in shared'
  PROVE  SharedProper
<1>1. Basic /\ os' = res.os /\ failed' = res.failed /\ UNCHANGED user
  BY HandleTypes DEF MapNew
<1>2. CASE res.failed
  <2>1. UNCHANGED <<living, mmap, pimpl>>
    BY <1>2 DEF MapNew
  <2>2. Proper
    BY <1>1, <1>2, <2>1, FailedMapProper
  <2>3. Referenced'
    BY <2>1 DEF IInv, Referenced
  <2>4. SharersFollow
    BY <2>1 DEF SharersFollow
  <2> QED
    BY <2>2, <2>3, <2>4 DEF SharedProper
<1>3. CASE ~ res.failed
  <2>1. PICK h \in Heap \ living :
          /\ pimpl' = [pimpl EXCEPT ![t] = h]
          /\ living' = living \cup {h}
          /\ mmap' = [mmap EXCEPT ![h] = res.mmap]
    BY <1>3 DEF MapNew
  <2>2. h \in Objects \ living /\ mmap \in [Objects -> Object]
    BY <1>1, <2>1, HandleTypes, BasicTypes
  <2>3. Proper
    BY <1>1, <2>1, <2>2, NewMappedProper
  <2>4. /\ pimpl' \in [Shared -> Heap \cup {NoImpl}] /\ pimpl'[t] = h
        /\ \A w \in Shared \ {t} : pimpl'[w] = pimpl[w]
    BY <2>1, HandleTypes
  <2>5. Referenced'
    <3>1. \A w \in Shared : pimpl'[w] # NoImpl => w \in shared' /\ pimpl'[w] \in living'
      BY <1>3, <2>1, <2>4, HandleTypes
    <3>2. \A x \in Heap \cap living' : \E w \in Shared : pimpl'[w] = x
      BY <2>1, <2>4, HandleTypes DEF IInv, Referenced
    <3> QED
      BY <2>4, <3>1, <3>2 DEF Referenced
  <2>6. SharersFollow
    <3>1. \A w \in Shared : pimpl[w] # NoImpl => mmap'[pimpl[w]] = mmap[pimpl[w]]
      BY <2>1, <2>2, HandleTypes
    <3> QED
      BY <3>1, HandleTypes DEF SharersFollow
  <2> QED
    BY <2>3, <2>5, <2>6 DEF SharedProper
<1> QED
  BY <1>2, <1>3

LEMMA ForwardedProper ==
  ASSUME IInv, NEW t \in Shared, pimpl[t] # NoImpl, UNCHANGED handles,
         \/ Map(pimpl[t]) \/ Unmap(pimpl[t]) \/ Sync(pimpl[t]) \/ Write(pimpl[t])
  PROVE  SharedProper
<1>1. Basic /\ pimpl[t] \in Objects /\ mmap \in [Objects -> Object]
      /\ UNCHANGED <<shared, pimpl>> /\ living \subseteq Objects
  BY HandleTypes, BasicTypes DEF handles
<1>2. Proper
  BY <1>1, MapProper, UnmapProper, SyncProper, WriteProper
<1>3. UNCHANGED living /\ \A x \in Objects \ {pimpl[t]} : mmap'[x] = mmap[x]
  BY <1>1 DEF Map, Unmap, Sync, Write
<1>4. Referenced'
  BY <1>1, <1>3 DEF IInv, Referenced
<1>5. SharersFollow
  BY <1>1, <1>3, HandleTypes DEF SharersFollow
<1> QED
  BY <1>2, <1>4, <1>5 DEF SharedProper
LEMMA OnHandleProper ==
  ASSUME IInv, NEW t \in Shared, OnHandle(t)
  PROVE  SharedProper
<1>1. ASSUME SharedConstruct(t) PROVE SharedProper
  BY <1>1, HandleTypes, RepointedProper DEF SharedConstruct, Constructed
<1>2. ASSUME SharedConstructMapped(t) PROVE SharedProper
  <2>1. PICK res \in MapResults(os, Unset(FALSE)) :
          MapNew(t, res) /\ shared' = IF res.failed THEN shared ELSE shared \cup {t}
    BY <1>2 DEF SharedConstructMapped
  <2>2. t \notin shared /\ pimpl[t] = NoImpl /\ shared \subseteq Shared
    BY <1>2, HandleTypes DEF SharedConstructMapped
  <2>3. shared' \subseteq Shared /\ shared \subseteq shared' /\ (~ res.failed => t \in shared')
    BY <2>1, <2>2
  <2> QED
    BY <2>1, <2>2, <2>3, MapNewProper
<1>3. ASSUME map_impl(t) PROVE SharedProper
  <2>1. t \in shared /\ shared' = shared /\ shared \subseteq Shared
    BY <1>3, HandleTypes DEF map_impl
  <2>2. CASE pimpl[t] = NoImpl
    <3>1. PICK g \in BOOLEAN : \E res \in MapResults(os, Unset(g)) : MapNew(t, res)
      BY <1>3, <2>2 DEF map_impl
    <3> QED
      BY <2>1, <2>2, <3>1, MapNewProper
  <2>3. CASE pimpl[t] # NoImpl
    BY <1>3, <2>1, <2>3, ForwardedProper DEF map_impl, handles
  <2> QED
    BY <2>2, <2>3
<1>4. ASSUME SharedUnmap(t) \/ SharedSync(t) \/ SharedWrite(t) PROVE SharedProper
  BY <1>4, ForwardedProper DEF SharedUnmap, SharedSync, SharedWrite
<1>5. ASSUME SharedDestroy(t) PROVE SharedProper
  BY <1>5, HandleTypes, RepointedProper DEF SharedDestroy
<1>6. ASSUME NEW o \in Objects \ Heap, ConstructFrom(t, o) \/ AssignFrom(t, o)
      PROVE  SharedProper
  <2>1. Take(t, o) /\ shared' \subseteq Shared /\ shared \cup {t} \subseteq shared'
    BY <1>6, HandleTypes DEF ConstructFrom, AssignFrom, Constructed
  <2> QED
    BY <2>1, TakeProper
<1>7. ASSUME NEW u \in Shared, CopyConstruct(t, u) \/ CopyAssign(t, u)
      PROVE  SharedProper
  <2>1. /\ Repoint(t, pimpl[u]) /\ u \in shared /\ t \in shared'
        /\ shared' \subseteq Shared /\ shared \subseteq shared'
    BY <1>7, HandleTypes DEF CopyConstruct, CopyAssign, Constructed
  <2>2. pimpl[u] \in (Heap \cap living) \cup {NoImpl}
    BY HandleTypes
  <2> QED
    BY <2>1, <2>2, RepointedProper
<1>8. ASSUME NEW u \in Shared, SharedMoveConstruct(t, u) \/ SharedMoveAssign(t, u)
      PROVE  SharedProper
  <2>1. /\ Rebind([pimpl EXCEPT ![t] = pimpl[u], ![u] = NoImpl], living, mmap, os)
        /\ u \in shared /\ t # u
        /\ shared' \subseteq Shared /\ shared \cup {t} \subseteq shared'
    BY <1>8, HandleTypes DEF SharedMoveConstruct, SharedMoveAssign, Constructed
  <2> QED
    BY <2>1, MovedProper
<1> QED
  BY <1>1, <1>2, <1>3, <1>4, <1>5, <1>6, <1>7, <1>8, SharedSwapProper DEF OnHandle

(***************************************************************************)
(* Every step, and the initial state.                                      *)
(***************************************************************************)
LEMMA NextProper ==
  ASSUME IInv, SharedNext
  PROVE  SharedProper
<1>1. CASE \E t \in Shared : OnHandle(t)
  BY <1>1, OnHandleProper
<1>2. CASE OnObjects(Objects \ Heap) /\ UNCHANGED handles
  <2>1. PICK S \in SUBSET Objects : S = Objects \ Heap
    OBVIOUS
  <2>2. /\ Proper
        /\ \A x \in Objects \ S : mmap'[x] = mmap[x] /\ (x \in living' <=> x \in living)
    BY <1>2, <2>1, HandleTypes, OnObjectsProper
  <2>3. UNCHANGED <<shared, pimpl>> /\ \A x \in Heap : x \in Objects \ S
    BY <1>2, <2>1, HandleTypes DEF handles
  <2>4. Referenced'
    BY <2>2, <2>3 DEF IInv, Referenced
  <2>5. SharersFollow
    BY <2>2, <2>3, HandleTypes DEF SharersFollow
  <2> QED
    BY <2>2, <2>4, <2>5 DEF SharedProper
<1>3. CASE Environment /\ UNCHANGED handles
  <2>1. Proper
    BY <1>3, HandleTypes, EnvironmentProper
  <2>2. UNCHANGED <<living, mmap, shared, pimpl>>
    BY <1>3 DEF Environment, UserOpens, UserCloses, handles
  <2>3. Referenced' /\ SharersFollow
    BY <2>2 DEF IInv, Referenced, SharersFollow
  <2> QED
    BY <2>1, <2>3 DEF SharedProper
<1> QED
  BY <1>1, <1>2, <1>3 DEF SharedNext

LEMMA StepProper ==
  ASSUME IInv, [SharedNext]_allvars
  PROVE  SharedProper
<1>1. CASE SharedNext
  BY <1>1, NextProper
<1>2. CASE UNCHANGED allvars
  <2>1. UNCHANGED <<living, mmap, os, user, failed, shared, pimpl>>
    BY <1>2 DEF allvars
  <2>2. Sound(os', mmap', user') /\ (AccessMode = "read" => os'.dirty = {})
        /\ failed' \in BOOLEAN
    BY <2>1, HandleTypes DEF Basic
  <2>3. Proper
    BY <2>1, <2>2, HandleTypes, StillProper
  <2>4. Referenced' /\ SharersFollow
    BY <2>1 DEF IInv, Referenced, SharersFollow
  <2> QED
    BY <2>3, <2>4 DEF SharedProper
<1> QED
  BY <1>1, <1>2

LEMMA InitSound ==
  ASSUME SharedInit
  PROVE  IInv /\ MV!Init
<1>1. /\ living = {} /\ mmap = [o \in Objects |-> Unset(FALSE)] /\ os = Fresh
      /\ user = {} /\ failed = FALSE
      /\ shared = {} /\ pimpl = [t \in Shared |-> NoImpl]
  BY DEF SharedInit, Init
<1>2. Unset(FALSE) \in Object /\ ~ is_open(Unset(FALSE)) /\ ~ Unset(FALSE).is_handle_internal
  BY UnsetIs
<1>3. mmap \in [Objects -> Object] /\ Holders(mmap) = {} /\ Owners(mmap) = {}
  BY <1>1, <1>2 DEF Holders, Owners
<1>4. NoRegion \in Region
  BY DEF NoRegion, Region
<1>5. os \in System /\ Live(os) = {} /\ OpenFds(os) = {} /\ os.dirty = {} /\ os.lost = {}
  BY <1>1, <1>4 DEF Fresh, System, Live, OpenFds, NoRegion
<1>6. RegionsOwned(os, mmap)
  <2>1. Unset(FALSE).is_handle_internal = FALSE
    BY UnsetIs
  <2>2. \A o \in Objects : mmap[o] = Unset(mmap[o].is_handle_internal)
    BY <1>1, <2>1
  <2> QED
    BY <1>3, <1>5, <2>2 DEF RegionsOwned, Apart
<1>7. DescriptorsOwned(os, mmap, user)
  BY <1>1, <1>3, <1>5 DEF DescriptorsOwned
<1>8. Basic
  BY <1>1, <1>3, <1>5, <1>6, <1>7 DEF Basic, Sound
<1>9. Referenced
  BY <1>1 DEF Referenced
<1>10. MV!Init
  BY <1>1, <1>2 DEF MV!Init, ViewOf
<1> QED
  BY <1>8, <1>9, <1>10 DEF IInv
-----------------------------------------------------------------------------
(***************************************************************************)
(* SharedMmap: the invariant that the other theorems rest on.  Whatever    *)
(* handles, objects and their caller do, each region belongs to one object *)
(* whose fields tell all of it, each descriptor has one party to close it, *)
(* and an object on the heap exists just as long as a handle has it.       *)
(***************************************************************************)
THEOREM Invariance == SharedSpec => []IInv
<1>1. SharedInit => IInv
  BY InitSound
<1>2. IInv /\ [SharedNext]_allvars => IInv'
  <2>1. SharedProper => IInv'
    BY DEF SharedProper, Proper, IInv
  <2> QED
    BY <2>1, StepProper
<1> QED
  BY <1>1, <1>2, PTL DEF SharedSpec

(***************************************************************************)
(* The state of the objects, of the system and of the handles has the form *)
(* that SharedMmap gives it, and only mapped regions are written to.       *)
(***************************************************************************)
THEOREM TypeCorrect == SharedSpec => []SharedTypeOK
<1>1. IInv => SharedTypeOK
  <2> SUFFICES ASSUME IInv PROVE SharedTypeOK
    OBVIOUS
  <2>2. TypeOK
    BY HandleTypes, BasicTypes
    DEF Basic, System, DescriptorsOwned, TypeOK, OpenFds
  <2> QED
    BY <2>2, HandleTypes DEF SharedTypeOK
<1> QED
  BY <1>1, Invariance, PTL

(***************************************************************************)
(* No mapping leaks, is unmapped twice or too early: the regions that are  *)
(* mapped are those of the open objects, each of which has one to itself.  *)
(***************************************************************************)
THEOREM MappingsAreOwned == SharedSpec => []MappingsOwned
<1>1. IInv => MappingsOwned
  <2> SUFFICES ASSUME IInv PROVE MappingsOwned
    OBVIOUS
  <2>2. Opens = Holders(mmap)
    BY HandleTypes, BasicTypes DEF Opens, Holders
  <2>3. \A o \in Opens : InMapping(os, mmap[o])
    BY <2>2, HandleTypes, BasicTypes, SoundViews DEF Holders
  <2>4. Live(os) = {get_mapping_start(mmap[o]) : o \in Opens}
    BY <2>2, HandleTypes, BasicTypes DEF RegionsOwned, Backed
  <2> QED
    BY <2>2, <2>3, <2>4, HandleTypes, BasicTypes DEF MappingsOwned, RegionsOwned
<1> QED
  BY <1>1, Invariance, PTL

(***************************************************************************)
(* No descriptor is closed twice, and none of the caller's by the library. *)
(***************************************************************************)
THEOREM HandlesAreOwned == SharedSpec => []HandlesOwned
<1>1. IInv => HandlesOwned
  <2> SUFFICES ASSUME IInv PROVE HandlesOwned
    OBVIOUS
  <2>2. Internal = Owners(mmap)
    BY HandleTypes, BasicTypes DEF Opens, Internal, Holders, Owners
  <2> QED
    BY <2>2, HandleTypes, BasicTypes DEF HandlesOwned, DescriptorsOwned
<1> QED
  BY <1>1, Invariance, PTL
(***************************************************************************)
(* Two open objects never begin at one address: their regions take whole   *)
(* pages that are apart, and each begins in the first page of its own.     *)
(***************************************************************************)
LEMMA DataApart ==
  ASSUME NEW s, NEW m, NEW U, Sound(s, m, U),
         NEW a \in Holders(m), NEW b \in Holders(m), a # b
  PROVE  m[a].data # m[b].data
<1>1. /\ s \in System /\ m \in [Objects -> Object] /\ RegionsOwned(s, m)
  BY DEF Sound
<1>2. PICK x, y : x = get_mapping_start(m[a]) /\ y = get_mapping_start(m[b])
  OBVIOUS
<1>3. Backed(s, m[a], x) /\ Backed(s, m[b], y) /\ x # y
  BY <1>1, <1>2 DEF RegionsOwned
<1>4. PICK k, l : k = s.regions[x].length /\ l = s.regions[y].length
  OBVIOUS
<1>5. /\ x \in Live(s) /\ y \in Live(s) /\ 0 < k /\ 0 < l
      /\ x <= m[a].data /\ m[a].data < x + PageSize
      /\ y <= m[b].data /\ m[b].data < y + PageSize
  BY <1>3, <1>4 DEF Backed
<1>6. x \in Nat /\ y \in Nat /\ k \in Nat /\ l \in Nat /\ m[a].data \in Nat
  BY <1>1, <1>4, <1>5, LiveRegion DEF Holders, Object
<1>7. ~ Overlap(x, k, y, l)
  BY <1>1, <1>3, <1>4, <1>5 DEF RegionsOwned, Apart
<1>8. /\ WholePages(k) \in Nat /\ PageSize <= WholePages(k)
      /\ WholePages(l) \in Nat /\ PageSize <= WholePages(l)
  BY <1>5, <1>6, WholePagesBound
<1>9. y + WholePages(l) <= x \/ x + WholePages(k) <= y
  BY <1>6, <1>7, <1>8 DEF Overlap
<1>10. PageSize \in Nat
  BY SizeAssumption
<1> QED
  BY <1>5, <1>6, <1>8, <1>9, <1>10

(***************************************************************************)
(* The operators == and < tell any two objects apart that are not both     *)
(* empty, and order them.                                                  *)
(***************************************************************************)
THEOREM ObjectsAreOrdered == SharedSpec => []OrdersObjects
<1>1. IInv => OrdersObjects
  <2> SUFFICES ASSUME IInv, NEW a \in living, NEW b \in living, a # b
               PROVE  /\ Equal(mmap[a], mmap[b]) <=> a \notin Opens /\ b \notin Opens
                      /\ Less(mmap[a], mmap[b]) <=> Greater(mmap[b], mmap[a])
                      /\ \/ Equal(mmap[a], mmap[b]) \/ Less(mmap[a], mmap[b])
                         \/ Less(mmap[b], mmap[a])
    BY DEF OrdersObjects
  <2>1. /\ Sound(os, mmap, user) /\ RegionsOwned(os, mmap)
        /\ mmap \in [Objects -> Object] /\ a \in Objects /\ b \in Objects
    BY HandleTypes, BasicTypes
  <2>2. PICK p, q, k, l : /\ p = mmap[a].data /\ q = mmap[b].data
                          /\ k = mmap[a].length /\ l = mmap[b].length
    OBVIOUS
  <2>3. p \in Nat /\ q \in Nat /\ k \in Nat /\ l \in Nat
    BY <2>1, <2>2 DEF Object
  <2>4. \A x \in {a, b} : x \in Opens <=> x \in Holders(mmap)
    BY <2>1 DEF Opens, Holders
  <2>5. \A x \in {a, b} : x \notin Opens => mmap[x].data = 0 /\ mmap[x].length = 0
    BY <2>1, <2>4 DEF RegionsOwned, Unset, nullptr
  <2>6. \A x \in {a, b} : x \in Opens => mmap[x].data # 0
    BY <2>1, <2>4 DEF RegionsOwned, Backed, nullptr
  <2>7. a \in Opens /\ b \in Opens => p # q
    BY <2>1, <2>2, <2>4, DataApart
  <2>8. (p = q /\ k = l) <=> a \notin Opens /\ b \notin Opens
    BY <2>2, <2>5, <2>6, <2>7
  <2>9. Equal(mmap[a], mmap[b]) <=> p = q /\ k = l
    BY <2>2 DEF Equal
  <2>10. Less(mmap[a], mmap[b]) <=> IF p = q THEN k < l ELSE p < q
    BY <2>2 DEF Less
  <2>11. Less(mmap[b], mmap[a]) <=> IF q = p THEN l < k ELSE q < p
    BY <2>2 DEF Less
  <2>12. Greater(mmap[b], mmap[a]) <=> IF q = p THEN l > k ELSE q > p
    BY <2>2 DEF Greater
  <2> QED
    BY <2>3, <2>8, <2>9, <2>10, <2>11, <2>12
<1> QED
  BY <1>1, Invariance, PTL

(***************************************************************************)
(* A call that fails leaves each object and each region as it was.         *)
(***************************************************************************)
THEOREM FailureKeepsMappings == SharedSpec => FailedCallKeepsMappings
<1>1. IInv /\ [SharedNext]_allvars =>
        [failed' => (\A o \in living : mmap'[o] = mmap[o]) /\ os'.regions = os.regions]_vars
  BY StepProper DEF SharedProper, Proper, KeepsWhenFailed
<1> QED
  BY <1>1, Invariance, PTL DEF SharedSpec, FailedCallKeepsMappings

(***************************************************************************)
(* A step that destroys an object, by its destructor or with its last      *)
(* handle, leaves no bytes for the system to write some time.              *)
(***************************************************************************)
THEOREM DestructionAlwaysSyncs == SharedSpec => DestructionSyncs
<1>1. IInv /\ [SharedNext]_allvars =>
        [os'.pending /\ ~ os.pending => living \subseteq living']_vars
  BY StepProper DEF SharedProper, Proper, SyncsWhenDestroyed
<1> QED
  BY <1>1, Invariance, PTL DEF SharedSpec, DestructionSyncs

(***************************************************************************)
(* A handle that keeps its object keeps its view, unless a handle of that  *)
(* object maps or unmaps; no call on another object changes it.            *)
(***************************************************************************)
THEOREM SharersAlwaysKeepView == SharedSpec => SharersKeepView
<1>1. IInv /\ [SharedNext]_allvars =>
        [\A t \in shared \cap shared' :
           pimpl'[t] = pimpl[t] /\ SharedView(t)' # SharedView(t) =>
             /\ pimpl' = pimpl
             /\ mmap'[pimpl[t]] # mmap[pimpl[t]]
             /\ \A o \in living \ {pimpl[t]} : mmap'[o] = mmap[o]]_allvars
  <2> SUFFICES ASSUME IInv, [SharedNext]_allvars,
                      NEW t \in shared \cap shared',
                      pimpl'[t] = pimpl[t], SharedView(t)' # SharedView(t)
               PROVE  /\ pimpl' = pimpl
                      /\ mmap'[pimpl[t]] # mmap[pimpl[t]]
                      /\ \A o \in living \ {pimpl[t]} : mmap'[o] = mmap[o]
    OBVIOUS
  <2>1. ViewsFollow /\ SharersFollow
    BY StepProper DEF SharedProper, Proper
  <2>2. pimpl[t] # NoImpl
    BY DEF SharedView
  <2>3. ViewOf(os', mmap'[pimpl[t]]) # ViewOf(os, mmap[pimpl[t]])
    BY <2>2 DEF SharedView
  <2>4. pimpl[t] \in Objects
    BY <2>2, HandleTypes
  <2>5. mmap'[pimpl[t]] # mmap[pimpl[t]]
    BY <2>1, <2>3, <2>4 DEF ViewsFollow
  <2> QED
    BY <2>1, <2>2, <2>5 DEF SharersFollow
<1> QED
  BY <1>1, Invariance, PTL DEF SharedSpec, SharersKeepView

(***************************************************************************)
(* The library keeps its promise: what objects and handles do, with the    *)
(* system and the arithmetic, is a behaviour that MappedViews allows.      *)
(***************************************************************************)
THEOREM Refinement == SharedSpec => ImplementsMappedViews
<1>1. SharedInit => MV!Init
  BY InitSound
<1>2. IInv /\ [SharedNext]_allvars => [MV!Next]_(MV!vars)
  BY StepProper DEF SharedProper, Proper
<1> QED
  BY <1>1, <1>2, Invariance, PTL DEF SharedSpec, ImplementsMappedViews, MV!Spec
=============================================================================
