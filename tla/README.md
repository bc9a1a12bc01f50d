# Verification of igors-1brc

The repository answers the one billion row challenge six times over: in C++, Go,
Java, C#, Python and Rust. Each program reads a file of rows `name;temperature`,
one per line, and prints for every name the minimum, average and maximum of its
temperatures. All six promise the same thing; they differ in how they cut the
file into chunks, share it between threads, goroutines or processes, and bring
the partial results together. That is where they can go wrong, and that is what
this project models.

## Inventory

### C++ program (`cpp/CppBrc`)

*State.* `main` holds the mapping of the file, the number of cores, the vector
of chunks (start, end, and a shared pointer to the map of the chunk's thread),
the threads and the result. `splitFile` has an iterator, `filePos` and
`currentChunkSize`. Each thread has an iterator and a map of its own.

*Operations.* `main` maps the file, calls `splitFile`, starts `threadProc` per
chunk, joins the threads in order, merges each map (`mergeFromThread`,
`Temperature::merge`), unmaps the file and prints.

*Interaction.* Shared memory. The threads read the mapping and write only
`chunkResult` of their chunk, which `main` reads after joining.

*Hard.* The arithmetic of `splitFile`; scans bounded only by a byte they must
meet (a newline, or the zeros after the file in its last page); the order of
join, merge and unmap; ignored errors.

*Correct means.* The chunks tile the file at row boundaries, there are no more
of them than cores, nothing outside the mapping is read, no thread outlives the
mapping, every row is counted once.

### Go program (`golang`)

*State.* A channel of batches of lines, a `sync.Pool` of pointers to batches, a
`WaitGroup`, the result map; the reader has a batch and an index, the processor
a batch and a position in it.

*Operations.* `fileReader` fills batches and sends them, `fileProcessor`
receives them, adds their lines, blanks them and puts them into the pool.

*Interaction.* Two goroutines and `main`, over channel, pool and WaitGroup.

*Hard.* Batches are recycled while others travel through the channel; a batch
that is not full is recognised by its first blank line; the reader reports
itself done before it starts; the channel can be full or empty.

*Correct means.* A batch has one owner at a time, no stale line is added again,
`main` prints a finished result, both goroutines end.

### Java program (`java`)

`BrcRunner` cuts the file into `FileChunk`s with a `RandomAccessFile`, one thread
per chunk maps its part and fills a map, `BrcRunner` joins and merges. Hard: the
length of a chunk leaves out the newline it ends at while `run` adds a row only
when it meets its newline; exceptions of a thread are printed and its partial
result is merged; `clearBuffer` clears one byte; the thread's `Temperature` object
becomes the global one. Correct means what it means for C++.

### C# program (`csharp`)

`SplitIntoChunks` walks a pointer over a mapping, `ThreadRunner` fills a dictionary
per part, `Main` joins and merges. Hard: the lengths as in Java; `offset`, which
sums over all parts and shortens the last; the byte skipped after a newline;
`Stat`s that start as zeros; the hash of short names. Correct means what it means for C++,
and that the last part is neither cut short nor reaches beyond the mapping.

### Python program (`python`)

`main` scans for chunk ends and starts a process per chunk as it finds it; the
processes put their dictionaries into a bounded managed queue; `main` joins each
process and takes one answer. Hard: the lengths as in Java; `offset`; join before
get on a bounded queue; a process that fails and leaves no answer; answers in any order.
Correct means that every row is counted once in whatever order the answers
come, no process waits for room in the queue, and no partial answer is printed.

### Rust program (`rust`)

One loop over a mapping, byte by byte, with a 40 byte line buffer. Hard: the end
of the file is recognised by a zero byte. Correct means that the buffer holds the
current row only and every row, the last included, is counted once.

### Mapping library (`cpp/CppBrc/include/mio/mio.hpp`)

*State.* A `basic_mmap` keeps the address of the first byte asked for, the length
asked for and the length mapped, a file handle and the flag `is_handle_internal_`; the
start of the region it computes back from these. A `basic_shared_mmap` keeps a
`std::shared_ptr` to a `basic_mmap` on the heap. Behind both are the descriptors and the
regions of the operating system, which a caller's own files share.

*Operations.* Construct, with or without a mapping; `map` by path or handle; `unmap`;
`sync`; move, swap, destroy; for the shared form also copy, and taking over an object.

*Interaction.* The C++ program maps its file with `make_mmap_source` and unmaps it before
it prints; several objects and handles interact through descriptors and regions only.

*Hard.* A call fails at any of several points; a mapping is replaced by a new one; a
descriptor that is closed is given out again for another file; the flag is not
initialised; the arithmetic of pages and the overflow of size_t.

*Correct means.* Every region and every descriptor is released once, by its owner; an
object views the part of the file it asked for; a failed call changes nothing; a
handle keeps its view whatever the other handles do.

`PROJECT.json` lists the hazards of all the programs, each at its line.

## Modules

| Module | What it is |
|---|---|
| `Measurements` | The file: its size, its newlines, what each row says. A row is named by its end. |
| `Temperature` | The statistics of a station (`add`, `merge`) and the maps of them, shared by the programs; each gives its own initial minimum and maximum. |
| `Tally` | What the answer is: each station's minimum, maximum, sum and count over a set of rows. |
| `Brc` | What every program promises: rows are absorbed, each once, in any order and grouping, and an answer is printed only when all are, with the statistics of all of them; otherwise the program gives up without an answer. It does one or the other in the end. |
| `CppBrc` | The C++ program. |
| `Pages` | The size of a page. |
| `FileMapping` | A file mapped into memory: the zeros to the end of its last page, and scans that end at a newline or a zero. |
| `GoBrc` | The Go program. |
| `JavaBrc` | The Java program. |
| `CSharpBrc` | The C# program. |
| `PythonBrc` | The Python program. |
| `RustBrc` | The Rust program. |
| `SmallFiles` | The files the runs consider, by layout, stations and temperatures. |
| `RowText` | The rows of a file as bytes, and `customFloatParse`, the same algorithm in C++, Go, Java, C# and Rust. |
| `CppRows` | `threadProc` of the C++ program down to the bytes: the searches for the delimiter and the newline, and the number. |
| `JavaLines` | `FileChunk.run` of the Java program down to the bytes of its buffer. |
| `Posix` | What mio uses of the operating system: `open`, `close`, `mmap`, `munmap`, `msync`. |
| `MemoryMap` | mio: pages, offsets and lengths, and the fields of an object. |
| `MappedViews` | What mio promises: an object views a range of a file or nothing; views come into being by mapping, move with their objects, and are never at two of them. |
| `BasicMmap` | `basic_mmap`: objects, their calls and their caller; implements `MappedViews`. |
| `SharedMmap` | `basic_shared_mmap`: handles that share objects, over `BasicMmap`; implements `MappedViews`. |
| `MC...` | Each module on a small instance. |
| `BrcLemmas` | What the proofs share: arithmetic of chunks, sums over sets of rows, the tables of `Temperature`, the parser, where the rows of a text are. |
| `CppBrc_proofs`, `GoBrc_proofs`, `JavaBrc_proofs`, `CSharpBrc_proofs`, `PythonBrc_proofs`, `RustBrc_proofs` | Theorems about each program. |
| `MemoryMap_proofs` | Theorems about mio: its arithmetic, its objects and its handles. |

The programs' modules extend `Measurements` and take their maps from `Temperature` by
INSTANCE; those that map the file extend `FileMapping`. `CppBrc`, `GoBrc` and `RustBrc`
state with an instance of `Brc` that they implement it; `JavaBrc`, `CSharpBrc` and
`PythonBrc`, which do not, compare what they print with the `Tally` of the rows they do
count. `Tally` knows nothing of `add` and `merge`: it takes the minimum of a set, and a sum.

### How the models correspond to the code

*Data.* In the programs' modules a row has a station and a temperature in tenths of a
degree; `CppRows` and `JavaLines` take the bytes. There a byte is its distance from '0',
which is what the parsers calculate with. The rounding of float and double, and the
wording of the output, are not modelled. Where rows begin and end is kept to the byte for
all programs that cut the file; the Go program reads through a buffered reader and does
not depend on it.

*CppRows.* `position` is the thread's `iter`, `textEnd` the end of its chunk.
`ReadRowBytes` is one turn of the loop in `threadProc`, `BreakAfterDelimiter` its early
end at a zero behind the delimiter, and `SearchRunsOff` a search that meets nothing until
the mapping ends. The file is cut at any byte of its last row, or not at all.

*JavaLines.* `EndOfLine` is a turn of the loop in `run` at a newline, with `procLine` and
`clearBuffer`; `Collect` a turn at any other byte; `BufferFull` the exception for which there
is no room in the buffer.

*BasicMmap.* `mmap` holds the fields of every object, `living` says which exist, `os` is the
system, `user` the caller's descriptors, `failed` whether the last call reported an error.
An action is a call of the library, or a step of its caller (`UserOpens`, `UserCloses`,
`Write`). `map` opens, asks for the size, maps, releases the old mapping and sets the flag
in one call, so it is one action; what can fail on the way, and where the system maps,
makes the set `MapResults` of its outcomes, and each action that maps takes one of them.
`Unset(garbage)` is a default-constructed object, whose flag is whatever was in memory.
A descriptor that `map` opened and did not close is in `os.lost`; `os.pending` records that
bytes were left unsynced when they were unmapped. The handle given to `map` is the
caller's own or invalid.

*SharedMmap.* The objects in `Heap` are those of `make_shared`; `pimpl` gives each handle's.
`Rebind` is what any change of a `shared_ptr` does: the object nobody refers to any more is
destroyed. Taking an object over moves it to the heap, then lets go of the old one.
A `std::shared_ptr` that a caller gets from a handle counts as a handle.

*CppBrc.* Offsets stand for iterators. `CutChunk` is one turn of the loop in
`splitFile`, with the scan for the chunk's end, the two early ends and the cut of
the chunk size; `ScanRunsOff` is the turn whose scan leaves the mapping.
`StartThread` and `JoinAndMerge` are one turn each of the two loops in `main`.
`ReadRow(i)` is one turn of the loop in `threadProc` on thread i, `Publish(i)` its
end. The bytes after the file in its last page are zero, and beyond that page
anything may happen: the model stops in state "undefined", which the refinement
counts as giving up. `hardware_concurrency` may return 0. Reads of unmapped memory
and the merge of a null pointer are the two ways into "undefined".

*GoBrc.* The heap of batches is explicit: arrays of strings, slice variables that
hold an array, pointers to slice variables in the pool. `Receive` gives each turn of
the processor's loop a variable of its own, the semantics of Go 1.22, the version
`golang/README.md:1` names. `GetPooled` and `GetNew` are both always possible, since a
`sync.Pool` may drop what it holds at any time. An error in the middle of the file
looks like its end to `fileReader`, so the file of the model is the part that can be
read.

*JavaBrc.* Offsets stand for the file pointer. `CutChunk` and `LastChunk` are the two
outcomes of a turn of the loop in `main`: the scan meets a newline, or the end of the
file. Threads share nothing until they are joined, so that the whole of `run` is one
action, `Run`; `MapFails` is the run that cannot open or map the file. A row longer than
the 40 bytes of the buffer is an exception, which ends the thread with the rows it has
and does not reach `main`. The command line without a file, the wait for a profiler and
an interrupted `join`, which nothing brings about, are left out.

*PythonBrc.* The processes start while `main` still looks for the next chunk, and each
is two actions, `ProcessChunk` and `Put`, because `put` may have to wait. `JoinAndGet` is a
turn of main's last loop: it waits for the next process to end, then for the queue to
hold something, and takes what has been there longest. `Fail` is a process that dies of
an exception before it puts anything. The branch of the loop that tests at a newline
whether the chunk goes past the end of the file is dead, and left out. Integers have no
width: the program is modelled as `python/README.md:7` runs it, by `python3 onebrc.py`.

*CSharpBrc.* `CutPart` and `LastPart` are the two outcomes of the scan in `SplitIntoChunks`,
a newline or the zero after the file; `ptr` is where a scan begins, which for every part
but the first is one byte further than its share, because the loop increments the
pointer after a newline too. `ThreadRunner(i)` is the whole run of a thread;
`ThreadThrows(i)` is the exception of a span with a negative length, which ends the
process. A dictionary is keyed by station and, for stations whose name has two bytes, by
the character that `Key.GetHashCode` reads beyond the delimiter; names of one byte, whose
hash takes in two such characters, are left out. An entry starts as the zeros of
`GetValueRefOrAddDefault`. A length beyond `int.MaxValue` ends the model in "undefined",
as a read beyond the mapping does. The test at a newline for going past the end of the
file never holds, and is left out.

*RustBrc.* Every turn of the loop is an action: `Newline`, `LastRow` (a zero after a row),
`EndOfFile` (a zero after a newline), `Store`, `BufferFull`, `LeavesMapping`. An empty file
is mapped as one that has no byte to read.

## Runs

**cpp** (`MCCppBrc.cfg`). All files of up to 10 bytes without blank lines, with and
without a last newline, with every assignment of two stations to the rows (the
first row's is fixed, the stations being interchangeable), 0 to 3 cores, pages of 6
bytes, the small-file rule at 4 bytes. Ten bytes are the fewest with which three
chunks are full, so that the size is cut down on the last one; pages of 6 give every
distance between the end of the file and the end of its page, 0 to 5, which is below,
at and above the number of cores. Shown:

- `ChunksTile`, `OneThreadPerCore`, `NoSizeWrap`: the arithmetic of `splitFile`. That
  the rounded sizes never leave a rest for one chunk too many is not obvious from
  the code: it holds because the newlines the chunk size does not count make up for
  what rounding loses.
- `UndefinedOnlyAtPageEdge`: exactly which files lead out of the mapping: a last row
  without a newline, or a last page with fewer spare bytes than cores. The real data
  end with a newline; a page has 4096 bytes, so that a file is at risk only if its
  size modulo 4096 happens to be 0 or within the number of cores below 4096.
- `NoThreadOutlivesMapping`, `ImplementsBrc`: joins, merges, the answer and the end of
  the program, for all interleavings of main and the threads. `Brc` promises the end, so
  there is no property of its own for it.

**golang** (`MCGoBrc.cfg`). Files of up to 6 rows, with and without a rest after the
last newline, batches of 2 lines, a channel that holds one batch. The reader can wait
for room, the processor for batches, batches come back from the pool (in the third
batch, in either order), and the last batch is empty or half filled. Shown:

- `OneOwner`, `NoStaleLines`: recycling is safe. The former fails with the loop
  variable of Go before 1.22, the latter if clearing missed a line.
- `ImplementsBrc` for the file up to its last newline: a last row without a newline is
  dropped by `fileReader`, and the refinement says so by taking `Readable(file)` for the
  file. With it, the early `Done` of the reader does no harm, because the processor's
  depends on the closed channel, and neither goroutine waits for ever for the other.

**java** (`MCJavaBrc.cfg`). The files of run cpp and the empty one, 1 to 3 cores, the
small-file rule at 4 bytes, a buffer of 4 bytes, so that rows fit into it and do not, and
mappings of up to 9 bytes, so that a chunk may be too long. Shown:

- `ChunksFollow`, `OneThreadPerCore`: the chunks cover the file but for one newline between
  any two, and there is at most one per core.
- `PrintsAllButLostRows`: exactly which rows are missing from the answer when no thread
  fails: the last one of each chunk but the last, and a last row without a newline.
- `Terminates`: `main` is never left waiting, whatever a thread dies of.

**java_rows** (`MCJavaBrc_rows.cfg`) is the counterexample to `CountsEveryRow`, the
challenge's answer for files that end with a newline: two chunks lose one row. The Python
and C# programs lose such rows too, and others where `offset` reaches into the last chunk,
as their `PrintsAllButLostRows` says.

**python** (`MCPythonBrc.cfg`). The same kinds of files of up to 11 bytes, 1 to 4 cores, the
small-file rule at 9 bytes. In a real file above 1 MiB rows are far shorter than chunks;
the small files include those in which they are not. Eleven bytes and four cores are the
fewest with which `offset` leaves the last chunk a negative length, so that its end is
before its start: the property must not take that end for the end of what is counted,
as it did before its proof was tried. Shown:

- `ChunksFollow`, and `LastChunkComplete`: `offset`, which sums over all chunks and is
  subtracted from the last, takes no row from it unless it reaches a whole share.
- `QueueHasRoom`: there are never more processes than places in the queue, so that
  joining them before emptying it is safe. One place less and `main` waits for ever.
- `PrintsAllButLostRows`: exactly what is printed, in whatever order the answers come: the
  rows up to `LastEnd`, the end of the last chunk or its start if its length is negative,
  but for the last row of each other chunk.
- `NoPartialAnswer`, `EndsUnlessProcessFails`: a process that fails costs the answer and
  the end of the program, and nothing else does.

A small file is given to two processes, where the comment at `python/onebrc.py:100` says
"just use one core": `MostCores` is 2 below 1 MiB.

**csharp** (`MCCSharpBrc.cfg`). Files of up to 13 bytes whose rows have at least two bytes
(a real row has at least five), 1 to 3 cores, pages of 10 bytes, one station with a short
name, an int that holds 12. Thirteen bytes are needed because each scan steps over a
byte: below 12, three parts always exceed a share. Shown:

- `PartsFollow`: the parts follow one another, and are at most as many as the cores.
- `LastPartComplete`, `ThreadsStayInMapping`: `offset` takes no row from the last part unless
  it reaches a whole share, and what is left of the part is mapped, although it may go
  past the end of the file.
- `UndefinedOnlyAtPageEdge`: the scan for the last part begins beyond the end of the file,
  by as much as the other parts exceed their share. It leaves the mapping only if fewer
  bytes than that are left in the last page. With 24 parts that is a few hundred of 4096
  bytes, not the 24 of the C++ program.
- `PrintsAllButLostRows`: exactly what is printed: all rows but the last one of each part
  but the last, with a zero among the temperatures of every station, and stations with
  short names divided by the first character of the temperature.
- `Terminates`.

**csharp_min** is the counterexample to `MinimumIsMeasured`: a station whose temperatures
are all positive has minimum 0.

**rust** (`MCRustBrc.cfg`). The files of run java, pages of 5 bytes, a buffer of 4, so that
rows fit into it and do not. Shown: `BufferIsRow`, nothing of a row stays in the buffer;
`GivesUpOnlyFor`, only a row that is too long, a file that fills its last page or a failing
map costs the answer; and `ImplementsBrc`, with the whole of `Rows(file)`: this program
counts a last row without a newline.

**cpp_rows** (`MCCppRows.cfg`). Every temperature from -99.9 to 99.9 in a file of one row,
and files of up to three rows with names of one and two letters, cut at every byte of the
last row; pages of 4 bytes, so that files end at and within a page. Shown:

- `AddsRowsWritten`: a thread ends, and has added the rows the file was written from, name
  and temperature, all but one that is cut; so the parser undoes the decimal notation for
  every value of the data set, and never takes a byte of the next row for a digit.
- `LeavesMappingOnlyIfCut`: the searches without an end leave the mapping for a cut row only,
  and not where the cut is right behind the delimiter and the page has a zero left.

**java_lines** (`MCJavaLines.cfg`). All chunks of two and three lines out of blank lines,
rows of every shape, one that fills the buffer of 9 bytes and one that does not fit.
`AddsRowsOfLines`: `clearBuffer` clears one byte, and that is enough: the delimiter that is
found first is the current row's, its number ends before what is left behind it, and the
one byte tells a blank line. Without it a blank line would bring the last row back.

**mio** (`MCSharedMmap.cfg`). Two mapping objects at a time, the caller's or on the heap, and
two handles; a file of 9 bytes in pages of 4, requests for bytes across a page edge, for
the rest of the file and for more than there is; two descriptors, so that a closed one is
reused at once; three places in memory, so that a mapping can be replaced while both
objects have one. Three bounds are constraints: with handles in use all views are the rest
of the file; at most one descriptor is the caller's or lost; after writes were left
unsynced there is no next step. They leave out only repetition: a second lost
descriptor behaves as the first, and a region that was left unsynced is gone like any other.
Shown:

- `MappingsOwned`, `HandlesOwned`: each region belongs to one object and each descriptor to
  the caller, to one object or to nobody (lost); nothing is released twice or too early. The
  uninitialised flag does no harm: `unmap` returns before it reads the flag of an object
  that is not open, and every `map` that opens one sets it.
- `OrdersObjects`: `==`, `<` and `>` agree on all objects.
- `FailedCallKeepsMappings`: the strong guarantee that `map` states.
- `DestructionSyncs`: `unmap`, `map` and move assignment can drop unsynced writes to the
  system; the destructor always tries to sync first.
- `SharersKeepView`: a handle's view changes only by its own calls or by `map` and `unmap` of
  a handle it shares its object with.
- `ImplementsMappedViews`: the refinement of `MappedViews`, with the view of an object computed
  from its fields and the regions of the system.

**mio_lost** (`MCBasicMmap_lost.cfg`) is the counterexample to `NoHandleLost`: `map` by path opens
the file, the inner `map` fails, and nobody closes it.

Two limits of mio are not runs. A request whose offset and length overflow a size_t passes
the check of `map` and gets fewer bytes than the object then says it has; such requests
are left out (`RequestsAssumption`), since no caller makes them. And an object that is told
to map again by the handle it returns itself closes that handle, and keeps it; callers
of the model give handles of their own. `mapped_length`, of which a comment says it is a
multiple of the page size, is the length up to the last byte asked for (`RequestMet`).

All runs of the programs switch the deadlock check off, because the programs end, and the
Python program may wait for ever. The caller of mio never ends, and its runs check for
deadlock.

*Fairness.* Weak fairness of main and of every thread (C++, Java, C#), goroutine (Go) or
process (Python): the operating system, the virtual machine and the Go scheduler run
whatever can run. Nothing else is assumed; whether a process fails is left open. The
Rust program is sequential: its next step is taken, as is that of the one thread in
`CppRows`. The specifications of mio state safety only: a caller need not call.
The C++ specification states it for `MaxCores` threads, the most there are by
`OneThreadPerCore`.

## Proofs

The theorems hold for every set of files, rows, stations and temperatures, every number of
cores and every size (page, buffer, batch, channel, `size_t`), and for every number of
objects, handles and descriptors of mio. They rest on the assumptions the modules name:
files are well formed and have no blank line; temperatures are from -99.9 to 99.9; pages,
buffers, batches and numbers of cores are not zero; `Absent` is not a statistic; for mio,
that the size of a file fits into a `size_t`, and that no request's offset and length
overflow together (`MappingStartRecovered` does without that); for the texts, that names, of
any length, have any bytes but a semicolon, a newline or a zero. TLC evaluates the
assumptions in every run, and has checked the inductive invariants on the runs' instances.
Hardly any invariant of the runs is inductive alone: what has to be added to it is the
content of each proof, and follows per module.

That a program ends is liveness, and needs fairness, but two parts of it do not. The
theorems `EveryStepLeavesLess`, one for each program, give a natural number, `Left`, that
every step lowers, so that no run goes on for ever, and there is no cycle of states that
fairness would have to break. For Go and Python, whose actors wait for one another in more
than one way, a second theorem says that they never all wait. What remains is that a step
which can be taken is taken: the fairness above. TLC has checked `Left` on the instances.

**BrcLemmas** has what several programs need.

- Arithmetic: `DivBounds`, `TimesMonotonic`, `ChunkOfByte` (of chunks that follow one
  another, one contains a given byte).
- The tables. `Held(f, R, min, max)` is the table that a program with initial values min
  and max has after adding the rows R. Adding one more row gives `Held` of one row more
  (`HeldRow`), merging the tables of disjoint sets that of their union (`HeldUnion`), and if
  the initial values are beyond every temperature `Held` is the `Tally` of R (`HeldIsTally`).
  Sums over sets are the difficulty: the fold is a recursive function on the subsets of
  a set, and that it exists, and gives the same in every order, is shown by taking a
  smallest subset for which it fails.
- `ParseUndoesDecimal`: `customFloatParse`, as five of the programs have it, returns every
  temperature from -99.9 to 99.9 whose decimal notation it is given, wherever that is and
  whatever stands around it.
- Texts. A file is the concatenation of its rows, a fold over their list. That fold is a
  recursive function too, and is treated like the sums: as any solution of its equation,
  of which `TextLayout` says by a smallest counterexample where in the concatenation each
  sequence of the list lies. `TextShape` applies this to the digits, the name and the
  newline of a row, and `RowFound` reads a row back: from its start on the first semicolon
  ends its name, and `customFloatParse` gives its temperature.

**CppBrc_proofs**: the six invariants of run cpp, and the refinement of `Brc`. `IInv` adds
to the invariants

- `Splitting`: within `splitFile`, `iter = filePos + number of chunks`; the chunks cut so
  far take up at least `chunkSize + 1` bytes each; the current size is either the full
  one or reaches from `filePos` exactly to the end of the file;
- `EndsAtNewlines`, `ChunksMapped`: where chunks end;
- `Begun`, `ThreadsMatchChunks`: which threads there are, and that one that has ended
  left its map.

Two arguments carry the proof. First, n chunk sizes and n newlines are more than the
file (`ChunkSizeBounds`): 2n·c > 2·size − n for the rounded size c, hence n·(c + 1) > size,
and as long as the chunks cut so far fit into the file there are fewer than n of them
(`RoomForOneMore`). Second, a scan starts at most at `size` plus the number of chunks
before it; so after the size has been cut down it starts at or after the end of the
file and its chunk is the last, and it can leave the mapping only if the page has
fewer spare bytes than that.

`MapsHoldTheirRows` says of all interleavings that the map of a thread is that of the rows
it has passed, and that of `main` what the joined chunks contain. With it every step of
the program is one of `Brc` or none (`Refinement`): a join absorbs the rows of a chunk, no
row is in two chunks (`ChunksApart`), a thread that has ended has read all of its rows,
since no row is blank (`EndedReadAll`), and every row is in a chunk (`AllMerged`).

The last part is about `CppRows`: the same loop down to the bytes. `RowsInv`
says that the thread is at the start of a row, or at the end, and has added the rows before
it. A row that is whole is found and added (`WholeRowRead`); of the last row, cut at any
byte, it is shown which searches pass the end of the mapping, and that it adds no row
(`CutRowNotRead`). Hence `LeavesMappingOnlyIfCut`, and `AddsRowsInOrder`: what is added
are the rows written, in order, and all but the cut one when the thread stops.

The number that falls is a sum: four for each byte that is not cut into a chunk, since a
chunk is at least one byte and costs the start of a thread, its map and its join; one for
each row that no thread has read. The latter needs `Holds`: the thread whose chunk a row is
in, by `ChunksApart` the only one, has not passed it (`RowReadOnce`). For the byte loop of
`CppRows`, `EveryReadLeavesLess` says that each row and each search ends further in the
mapping than it began.

**JavaBrc_proofs**: `ChunksFollow`, `OneThreadPerCore`, `PrintsAllButLostRows`. `IInv` adds
`Cutting` (n chunks and their newlines take up n · (share + 1) bytes or more, so that there
is no room for more chunks than cores), `InOrder` (chunks do not overlap) and
`ThreadsMatchChunks`, `DoneHasRows`, `ResultHasRows` (whose rows each map holds).

`AddsRowsOfLines` is about `JavaLines`, with a buffer of any size. `LinesInv`
says that the buffer begins with the bytes read of the current line and that what has been
added are the rows of the lines before; whatever earlier, longer lines have left behind
it, the semicolon found is that of the line (`LineGivesRow`).

`EveryStepLeavesLess` rests on the scan of a chunk beginning at its start or behind it: a
chunk that ends at a newline takes at least that byte, and only the last may be empty.

**PythonBrc_proofs**: all safety properties of run python. `IInv` adds `Cutting` (`offset`,
shares and newlines make up exactly the bytes before the next chunk), `OneProcessPerCore`,
`InOrder` (only the last chunk may have a negative length), `DictsHaveRows`, and `Answers`:
there is a one-to-one order of processes that have ended, of which `main` has merged
the first answers and the queue holds the others. From it follow that the queue has
room (places in the order are taken by ended processes, and one is still running), that
no answer is printed for a process that left none, and, because the order is
one-to-one, whose rows are printed, whatever the order is.

`WaitsOnlyIfProcessFailed`: until the program ends, main or a process can go on, unless a
process has failed. The danger is `get` on an empty queue with all processes ended. By
`AnswersKept`, as many processes have ended as answers have been taken or are in the
queue, so that `main` finds one for each process it joins. A failed process breaks the
promise: then `main` may wait for ever, as `EndsUnlessProcessFails` leaves it.

**CSharpBrc_proofs**: all safety properties of run csharp. `IInv` adds `Cutting`, `InOrder`,
`ThreadsMatchParts`, `DoneHasRows`, `ResultHasRows`. The point of `Cutting` is that after n
parts the next one starts at n · share + n − 1 + `offset`, and that `offset` is n or more,
one for the byte that each scan steps over. Hence the parts are at most as many as the
cores, and the scan for the last part is beyond the end of the file by no more than
`UndefinedOnlyAtPageEdge` says. `EveryStepLeavesLess` is as for Java; a scan begins behind
the start of its part, by its share and the byte it steps over.

**RustBrc_proofs**: `BufferIsRow`, `GivesUpOnlyFor` and the refinement of `Brc`. `IInv` adds
`InRow` (no newline is among the bytes in the buffer, and the position has not passed the
zero after the file), `HoldsRows` (the map is that of the rows before the position) and
`ReadsAll` (the loop ends behind the last row). `EveryStepLeavesLess` counts the bytes the
position has not passed.

**GoBrc_proofs**: `OneOwner`, `NoStaleLines` and the refinement of `Brc` for the rows up to the
last newline. `IInv` adds `Control` (what each goroutine holds and knows), `Batches` (a line
that has been read is in one place of one array; blanks come after lines; a batch is blank
before it goes to the pool) and `ResultHasRows` (the result holds the rows that have been
read and do not wait in a batch).

In `Left` (`EveryStepLeavesLess`) the weight of an unread line pays for the batch it may
start, and that of a batch for adding its lines and putting it back, so that batches that
go round in the pool do not matter. `NobodyWaitsForEver`: until the program ends some
goroutine, or main, can go on; a full channel has a processor that receives, an empty one
a reader that sends or has closed it.

**MemoryMap_proofs**: all properties of run mio, the refinement of `MappedViews` included.

- `MappingStartRecovered`: the start of a region, which no field keeps, is found again from
  the address and the two lengths, even if the sum of offset and length overflows. The
  argument is `SumLessTerm`: in modular arithmetic a sum less one of its terms is the other
  one.
- `RequestMet`: a request that `map` accepts, and that does not overflow, gets its bytes,
  within the file and within the region.
- `IInv` is about the fields: `RegionsOwned` says that the fields of an open object tell
  the region that it was given, its length and the place in the file (`Backed`), that
  regions do not overlap and each has one object, and that an object which is not open
  has its default values but for the flag; `DescriptorsOwned` that each open descriptor is
  the caller's, lost, or that of the one object whose flag is set; `Referenced` that an
  object on the heap exists exactly as long as a handle has it.
- Each outcome of `map`, and unmapping, moving, swapping and destroying, is a lemma about
  these; the three action properties follow from one lemma about the step (`StepProper`).

Only model-checked:

- `Terminates`, `EndsUnlessProcessFails`, and that a program comes to an end, which is the
  rest of `ImplementsBrc`: the `Refinement` theorems give its initial states and steps, and
  the `EveryStepLeavesLess` theorems that its runs are finite. Liveness under fairness, and
  ENABLED, are out of the prover's reach.
- That the thread of `CppRows` comes to an end, which is the rest of `AddsRowsWritten`:
  `AddsRowsInOrder` is its safety half, and `EveryReadLeavesLess` bounds its steps.
- The counterexamples, which need none.

## Not modelled

- The Windows branches of mio, the conversion of path strings and its traits, reverse
  iterators, the comparison of handles, and the second copy of the page size header
  that the single file contains: they hold no state of their own on the system the
  programs are built for.
- The C++ helpers `getIndexOfToken` and `makeString` and Rust's `thread_data.rs`, which
  nothing uses; the averages and the wording of the output; the rounding of float and
  double, which TLC has no arithmetic for.
- The memory a Go channel of ten million batches may take: the model bounds the channel.
- Build files, the Go test, which only runs the program, and the Python launcher.

## Plan

1. All six programs and their runs, the row bytes of C++ and Java, mio with its handles
   (done).
2. Theorems: every safety invariant and action property of the runs, those about bytes
   included, and the safety half of all refinements (done); the parser and the texts (done);
   that no program goes on for ever, and that in Go and Python nobody waits for ever but for
   a process that failed (done).
3. The buffer of the Rust program and the keys of C# down to the bytes.
