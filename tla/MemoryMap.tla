------------------------------ MODULE MemoryMap ------------------------------
(***************************************************************************)
(* mio: the arithmetic between a request of a caller, bytes of a file from *)
(* an offset on, and the pages that are mapped for it, and what an object  *)
(* of basic_mmap says of the region it holds.                              *)
(***************************************************************************)
EXTENDS Posix

map_entire_file == 0
invalid_handle == -1
nullptr == 0

Wrap(n) == n % SizeLimit    \* arithmetic of size_t

make_offset_page_aligned(offset) == (offset \div PageSize) * PageSize

(***************************************************************************)
(* The check of map against the size of the file, and the length it maps.  *)
(***************************************************************************)
Accepts(fileSize, r) == Wrap(r.offset + r.length) <= fileSize

WholeFile(fileSize, r) ==                  \* mutant
  IF r.length = map_entire_file THEN fileSize ELSE r.length

LengthOf(fileSize, r) ==
  IF r.length = map_entire_file THEN fileSize - r.offset ELSE r.length

LengthToMap(offset, length) ==
  Wrap(offset - make_offset_page_aligned(offset) + length)

mmap_context(base, offset, length) ==
  [data |-> base + (offset - make_offset_page_aligned(offset)),
   length |-> length,
   mapped_length |-> LengthToMap(offset, length)]

(***************************************************************************)
(* The fields of a basic_mmap.  Nothing initialises is_handle_internal_.   *)
(***************************************************************************)
Object ==
  [data : Nat, length : Nat, mapped_length : Nat,
   file_handle : Fds \cup {invalid_handle}, is_handle_internal : BOOLEAN]

Unset(internal) ==
  [data |-> nullptr, length |-> 0, mapped_length |-> 0,
   file_handle |-> invalid_handle, is_handle_internal |-> internal]

is_open(o) == o.file_handle # invalid_handle

is_mapped(o) == is_open(o)

empty(o) == o.length = 0

mapping_offset(o) == Wrap(o.mapped_length - o.length)

get_mapping_start(o) ==
  IF o.data = nullptr THEN nullptr ELSE o.data - mapping_offset(o)

begin(o) == o.data

end(o) == o.data + o.length

(***************************************************************************)
(* Objects compare by address, then by size.                               *)
(***************************************************************************)
EqualSize(a, b) == a.length = b.length     \* mutant

Equal(a, b) == a.data = b.data /\ a.length = b.length

Less(a, b) == IF a.data = b.data THEN a.length < b.length ELSE a.data < b.data

Greater(a, b) == IF a.data = b.data THEN a.length > b.length ELSE a.data > b.data
=============================================================================
