-------------------------------- MODULE Posix --------------------------------
(***************************************************************************)
(* What the mio library uses of the operating system: the descriptors of   *)
(* open files, the regions of memory that files are mapped to, and what    *)
(* was written to such a region but not yet to the disk.  An operator is a *)
(* system call: it takes the state of the system and returns the next one. *)
(***************************************************************************)
EXTENDS Integers, FiniteSetsExt

CONSTANTS
  Files,        \* the files there are
  FileSize,     \* their sizes
  NoFile,       \* the value of a descriptor that is not open
  Fds,          \* the descriptors a process can have
  Bases,        \* the addresses at which the system maps a region
  PageSize,     \* the size of a page of memory
  SizeLimit     \* one more than the largest value of a size_t

ASSUME SizeAssumption ==
  /\ PageSize \in Nat \ {0}
  /\ SizeLimit \in Nat \ {0}

ASSUME FilesAssumption ==
  /\ NoFile \notin Files
  /\ FileSize \in [Files -> 0 .. SizeLimit - 1]

ASSUME DescriptorsAssumption ==
  /\ Fds \subseteq Nat
  /\ Bases \subseteq Nat \ {0}
  /\ \A b \in Bases : b % PageSize = 0

(***************************************************************************)
(* A state of the system: the file of each descriptor, the region at each  *)
(* address, which regions were written to since their last msync, whether  *)
(* such a region was ever unmapped, so that its bytes are left for the     *)
(* system to write some time later, and the descriptors nobody can close.  *)
(***************************************************************************)
NoRegion == [file |-> NoFile, offset |-> 0, length |-> 0]

Region == [file : Files \cup {NoFile}, offset : Nat, length : Nat]

Fresh ==
  [fds |-> [d \in Fds |-> NoFile], regions |-> [b \in Bases |-> NoRegion],
   dirty |-> {}, pending |-> FALSE, lost |-> {}]

OpenFds(s) == {d \in Fds : s.fds[d] # NoFile}

Live(s) == {b \in Bases : s.regions[b].file # NoFile}

CanOpen(s) == OpenFds(s) # Fds

LowestFree(s) == Min(Fds \ OpenFds(s))

Opened(s, file) == [s EXCEPT !.fds[LowestFree(s)] = file]

Closed(s, fd) == [s EXCEPT !.fds[fd] = NoFile]

(***************************************************************************)
(* The bytes of whole pages that length bytes at an address take.          *)
(***************************************************************************)
WholePages(length) == ((length + PageSize - 1) \div PageSize) * PageSize

Overlap(a, lengthA, b, lengthB) ==
  a < b + WholePages(lengthB) /\ b < a + WholePages(lengthA)

(***************************************************************************)
(* mmap takes any free range; it refuses a length of zero and an offset    *)
(* that is not at a page or, as an off_t, is negative.                     *)
(***************************************************************************)
MmapAccepts(offset, length) ==
  /\ length # 0
  /\ offset % PageSize = 0
  /\ offset < SizeLimit \div 2

FreeBases(s, length) ==
  {b \in Bases : \A c \in Live(s) : ~ Overlap(b, length, c, s.regions[c].length)}

Mapped(s, base, fd, offset, length) ==
  [s EXCEPT !.regions[base] =
    [file |-> s.fds[fd], offset |-> offset, length |-> length]]

(***************************************************************************)
(* munmap and msync take an address and a length and reach every page in   *)
(* that range.                                                             *)
(***************************************************************************)
InRange(s, address, length) ==
  {b \in Live(s) : Overlap(address, length, b, s.regions[b].length)}

Unmapped(s, address, length) ==
  IF address % PageSize # 0 \/ length = 0 THEN s ELSE
  LET gone == InRange(s, address, length) IN
  [s EXCEPT !.regions = [b \in Bases |-> IF b \in gone THEN NoRegion ELSE @[b]],
            !.dirty = @ \ gone,
            !.pending = @ \/ s.dirty \cap gone # {}]

MsyncAccepts(s, address, length) ==
  address % PageSize = 0 /\ InRange(s, address, length) # {}

Msynced(s, address, length) ==
  IF MsyncAccepts(s, address, length)
  THEN [s EXCEPT !.dirty = @ \ InRange(s, address, length)]
  ELSE s
=============================================================================
