# Smart2Raw in TLA+

Smart2Raw keeps a column of integers in the narrowest of eight fixed widths. The
program is one header, `include/smart2raw.h`; the ports, tools, web build and
bindings read and write its files or call it. This directory holds TLA+ modules of
the header's state machine, the TLC configurations that check them, and theorems
about them that TLAPS proves for every value of the constants.

The library is single-threaded and has no scheduler. What is hard in it is the
*order of calls*: some forty functions share one structure whose fields must agree
(class, capacity, bytes, flags, summary, epoch), every one of them may be called
after any other, and the allocator may refuse in the middle. So the models
interleave calls and allocation failures. Of the library nothing is obliged to happen,
and its models have no fairness. The one component with something that must come to an
end is the engine of the browser page, whose analysis is a long call (`Probe`).

## Inventory

| Component | State it keeps | Operations | Interacts with | Must be true |
|---|---|---|---|---|
| Pool core (lines 303-900, 1358-1548, 1841-1901) | `S2RPool`: data, count, capacity, byte_cap, size, flags | init, free, reserve, shrink, push family, set, remove, clear, scalar writes, copy, map open and close | allocator, every other layer | elements within the block, one owner per block, no truncation where none is announced |
| Adaptive width (713-899, 2671-2694, 2874-2937) | the class of a pool | adaptive pushes, promote, demote, fit | pool core | values survive class changes, the class is the smallest |
| Recorded facts (299-300, 2401-2448, 3038-3092) | SORTED and SUMMARY flags, smin, smax, ssum, epoch | mark, summarize, sort, deduplicate; every write drops or updates | predicates, index | a recorded fact is true of the data now |
| Cumulative index (2450-2561) | `S2RIndex`: table, epoch, class | build, free, three queries | pool epoch | refuses or answers for the present pool |
| Predicates (1132-1317, 2291-2398, 2565-2664) | none | plain and fast counts and sums | facts, kernels | fast equals plain |
| Deferred arithmetic (2700-2861) | `S2RDeferred`, signed form | begin, add, mul, commit | promote | commit equals the eager operations or refuses |
| Tracked pool (2940-2961) | running minimum and maximum | init, push, range | pool core | the range returned is the column's |
| Group-by, histogram (2969-2989, 3096-3134) | none | passes over pools | pool core | counts partition the column |
| Blocked columns (3136-3945) | frame per block: base, span, sum, stride | build, plan, get, queries, file formats 2 and 3 | range kernel, files | decoded value equals the stored one, block answers equal scans |
| Affine columns, planner (3945-4305) | stride, base, quotients | build, plan, queries | blocked columns | as above |
| Serialization (1598-1828) | files | save, load, portable forms, checksum | pool core, ports | load of a saved file is the pool; a torn file is refused |
| Vector kernels (1904-2156, 2206-2287) | none | sums and counts by lane | predicates | equal to the scalar loop |
| Ports (Go, JavaScript, Python) | own column types | readers and writers | files | agree on every fixture |
| Binding, tools | none | wrap calls, convert and verify files | serialization | what is called intact can be read |
| Web build, runtime (`web/src/s2r_rt.c`) | heap free list, in-memory files | malloc family, stdio subset, sort | everything, in the browser | blocks do not overlap; a file is what was last written |
| Web build, engine (`web/src/s2r_probe.c`) | the column, four structures built of it, the choice between them, the report | input, analysis, queries by each path | everything above | paths agree; nothing is left over from the column before; the report is true; an analysis ends |
| Benchmarks, examples, notebooks, tests | none | call the library | | |

The hazards are listed in `PROJECT.json` with the line at which each one bites.

## Modules

`PoolOps` translates each function of the flat pool into an operator from the
structure before the call (and the answers of the allocator) to the structure after
it. Widths are parameters: `K` classes, class `c` holding `2 * Half[c]` raw values
in `ElemBytes[c]` bytes, the largest class in the role of `uint64_t`. A raw value
is a number below `2 * Half[c]`; the casts `(uintN_t)` and `(intN_t)` are `Raw` and
`AsSigned`, so narrowing wraps and sign extension is written where the code does
it. `buf` records what the data pointer refers to (nothing, a heap block, a
mapping), and `heap` counts the blocks allocated for the pool and not freed: that
is the only variable the code does not have.

| Module | What it is |
|---|---|
| `PoolOps` | the functions as operators; assumptions about widths and memory |
| `Pool` | one pool over its life: an action per C function, named after it |
| `MCPool` | instance for TLC |
| `AskedSizes` | `Pool` with the assumption that no one asks for a size near `SIZE_MAX` |
| `ByteWords` | the bytes of a word and the word of some bytes, for both kinds of files |
| `PoolFacts` | lemmas about each function of `PoolOps`: types and bounds; what it does to the fields and the values read; which recorded facts it keeps true; and about the bytes of words |
| `PoolProofs` | theorems about `Pool` and `IndexedPool` |
| `IndexOps` | `S2RIndex`: build, validity and queries, as operators over `PoolOps` |
| `IndexedPool`, `MCIndexedPool` | a pool with an index built over it (composition of the two) |
| `QueryOps` | the predicate family: plain scans, kernel, bisection, fast paths, as operators |
| `GroupOps` | counts per byte and the number of different values, as operators |
| `PoolQueries`, `MCPoolQueries` | every query of the two on every pool of `Pool` |
| `QueryProofs` | theorems about `PoolQueries`: every fast query is its scan |
| `IntColumn` | abstract specification: a column of integers, without widths |
| `AdaptiveColumn` | the pool behind its adaptive interface; implements `IntColumn` |
| `TrackedColumn`, `MCTrackedColumn` | `AdaptiveColumn`, alone or inside an `S2RTracked` |
| `ColumnProofs` | theorems about the two: the refinement, the fit, the range |
| `ExactArithmetic` | abstract specification: a column of integers under additions and multiplications, without widths |
| `LazyCarry`, `MCLazyCarry` | the `_safe` operations and the deferred sessions, over `PoolOps`; implements `ExactArithmetic` |
| `LazyProofs` | theorems about `LazyCarry`: the refinement, and a session against the eager calls |
| `StoredFile`, `MCStoredFile` | a column and its files: two writers, three readers, crashes and damage, over `PoolOps` |
| `FileProofs` | theorems about `StoredFile` |
| `PortFiles` | the readers and writers of the ports and `s2r_verify`, over the files of `StoredFile` |
| `Blocked` | block-wise columns: build, access, sums, predicates, as operators over `PoolOps` |
| `BlockFile` | the image of a block-wise file, and what the loader makes of an image; extends `Blocked` |
| `Affine` | affine columns, as operators; extends `Blocked`, whose rounding and step they share |
| `BlockPlan` | the cost model of blocks, the choice of a block and the advice; extends `Affine` |
| `FramedColumn`, `MCFramedColumn` | an array, the block-wise or affine column built of it, and its file: composes the four |
| `FrameProofs` | theorems about `FramedColumn`: values, payload, zone map and files of block-wise columns |
| `WebHeap`, `MCWebHeap` | the allocator of the browser build |
| `HeapProofs` | proofs about it |
| `WebFiles` | its in-memory files, over the images of `BlockFile` |
| `Probe`, `MCProbe` | the engine of the page: composes `WebFiles`, `BlockPlan`, `IndexOps` and `QueryOps` |

State of `Pool`: `pool` is the structure, `owner` says who has to release it
(`s2r_pool_free` or `s2r_map_close`). Actions follow the code's order: `Push` bumps
the epoch, updates order and summary with the *argument*, then tries to grow, then
narrows and stores, and a refused growth returns with the first part done, as the
C function does. Preconditions the code asserts (no write through a read-only
pool, an index in range) are guards. Functions that return a pointer, print, or
only read are not actions.

The constant `Careful` selects the caller. With `Careful = FALSE` every call is
made on every live pool. With `TRUE` the caller avoids the calls after which the
recorded facts or the ownership are no longer right in the code as it is:

- a subtraction, bitwise operation or fill while a fact is recorded;
- an unchecked push of a value the class does not represent while a fact is recorded,
  and going on with a summary after a push that ran out of memory;
- removal of the last element, or deduplication of a single-valued column, while a
  summary is recorded;
- copying a pool with a summary, or a mapped one;
- changing the class of a mapped pool, and demoting a signed one.

In `StoredFile` a careful caller gives `s2r_load` only undamaged files that carry no
flags but SIGNED and SORTED; in `LazyCarry` it opens sessions of the pool's own
signedness; in `FramedColumn` it stays outside the block sizes (the guard of
`s2r_blocked_build`), windows and plans for which the arithmetic is not right
(`BlocksRoundUp`, `RoundsUp`, `OneSign`, `PlanTrusted`, and `CountRounds` for a
damaged file); in `Probe` it asks for windows with the lower end first.

Each guard marked `Careful` in `Pool` is one of these. The list is itself a result:
`NoLeak`, `SignAgrees`, `OrderTrue` and `SummaryTrue` hold with it.

### Where the code and its words part

Three statements of the header have a `claim_` run that breaks them: that an index
refuses after every write (`claim_index`), that a signed window sum of a block-wise
column is a window sum (`claim_signedsum`), and that deferred arithmetic does not wrap
(`claim_stale`: a commit wraps elements pushed since its session began). The others lie
behind a `Careful` guard, an assumption or a restricted property; no property listed
with them would catch them going wrong, and `PROJECT.json` says so beside each hazard.
Setting `Careful` to `FALSE` in the run's configuration, or dropping the restriction,
shows a history.

| What happens | Where | Restriction |
|---|---|---|
| a subtraction, bitwise operation, `s2r_not` or fill leaves SORTED standing, of which :299 says "cleared by every write" | 1371, 1422-1468, 1534 | `Careful` in `Pool` (`OrderTrue`, `SummaryTrue`) |
| a capacity whose bytes come within one alignment unit of `SIZE_MAX` rounds to an empty block, and the call succeeds: `s2r_pool_init(p, S2R_8, SIZE_MAX)` | 406, 514, 552 | `AskedAssumption` in `AskedSizes` (`BufferSound`; `CapArgs = {35}` in `MCPool.cfg` breaks it); the length of an array in `AdaptiveColumn`, `LazyCarry`, `StoredFile` likewise. A count announced in a file (1812) cannot get there: the payload has to follow |
| a block size within the length of the array of `SIZE_MAX`: the number of blocks wraps to none, and the column is built without its elements | 3326 | `Careful` in `FramedColumn` (`ZoneMapTrue`; `BlockSizes = {255}` breaks it) |
| different values of a mapped column of 32 or 64 bits cannot be counted: the sorted copy stays READONLY and `s2r_sort` refuses it, where :3094 says they are counted "without modifying the original pool" | 1530, 3116 | the counts in `UnsignedExact` are right when they answer |
| a window's lower end within one stride of the top of the word is rounded up to nothing: {0, 2^64-1} answers 2 to `count_range(2, 2^64-1)`; the affine window rounds alike | 3634 | `BlocksRoundUp`, `RoundsUp` in `FramedColumn` (`BlockedPredicates`, `AffineExact`) |
| the number of blocks a loader works out wraps for a count near the top of the word, and a header with such a count and no blocks is accepted | 3839 | `CountRounds` in `FramedColumn` (`BlockFileReadable`) |
| bytes between blocks are never written, and get into the file: the same column can have two images, where :3748 says "the bytes are identical on any host" | 3776 | `pad` in `BlockFile`; none of the properties speaks of it |
| the index of the page takes bounds of an unsigned column as int64_t, and answers where the other paths find an empty window (lower end above 2^63, say -5); the page calls a disagreement "um defeito" (`web/page/template.html` 562) | `s2r_probe.c` 331 | `Careful` in `Probe` (`PathsAgree`) |
| a save that was refused memory leaves the earlier column's file, or a torn one, under the page's one name; the page and the Windows front end differ in how they notice | `s2r_probe.c` 264 | `report.saved` in `FileOfLastSave` |
| a constant affine column has 0 bytes and is never the recommended form | `s2r_probe.c` 242 | `~g_aff.is_const` in `ReportTrue` |
| the Go port's `IsSorted`, `SumInt64` and `NUnique` fail on an unsigned column with a value above the signed maximum | `smart2raw.go` 308-317 | not modelled |
| `s2r convert` ignores what the safe operations answer | `s2r_convert.c` | not modelled |
| a push of a value wider than the class enters it in the summary before narrowing it; so does a push refused for want of memory | 652 | `Careful` in `Pool` (`SummaryTrue`) |
| a copy keeps the SUMMARY flag and has zeros for a summary | 1525 | the same |
| a class change moves a mapped pool to a heap block that `s2r_map_close` does not free | 772, 1896 | the same (`NoLeak`) |
| `s2r_demote`, which has no signed case, leaves a signed pool with a positive size and the SIGNED flag; saved, it is refused by the portable load | 846, 1761 | the same (`SignAgrees`); `agrees` in `SavedCanBeLoaded` |
| a checked push on a signed pool accepts values above the signed maximum and stores them as negative | 719 | none of the properties speaks of it |
| a chain is committed to whatever the pool holds by then: u8 {3}, begin, add 250, push 10, commit answers success and 10 has become 4 | 2750 | elements inside the range at begin (`NeverWraps`); `claim_stale` shows it |
| a deferred session of the unsigned kind on a signed pool commits wrapped values and answers success | 2738 | `Careful` in `LazyCarry` (`NeverWraps`) |
| the v3.2 format carries READONLY, EXTERNAL and SUMMARY (whose values are not in the file) to whoever loads the file | 1631, 1647 | `Careful` in `StoredFile` (`OwnershipStaysHome`, `FactsStayTrue`) |
| the planner takes the step of a constant cell for 1, and orders signed minima as words: it misprices such blocks | 4153, 4166 | `PlanTrusted` in `FramedColumn` (`PlanExact`) |
| an affine column is filled by `s2r_set` while its pool counts none, against the assertion in `s2r_set` | 4021, 623 | assertions are not modelled |
| a size within two alignment units of the top of the browser's words gets the smallest chunk: only the first sum of the rounding is looked at | `s2r_rt.c` 98 | `Representable` in `BlocksApart` |
| a growth refused by the browser leaves the last free chunk off the free list, and the next drop of that chunk (a neighbour freed, or another growth tried) sets the head of the list to nothing: two refusals in a row lose every free chunk | `s2r_rt.c` 95, 148 | `~refused` in `FreeListTrue` |

### Deferred arithmetic

`d` is the session (`S2RDeferred` or `S2RDeferredSigned`): the operations, and the
range `ends` that the column would have after them, with `overflow`. `call` and `ret`
are observers of the last operation. A chain is applied by the same scalar loops the
safe operations use, so the properties compare two code paths, and both with integers:
`NeverWraps` is the specification of `ExactArithmetic` under the mapping that reads the
values out of the pool: a safe call is exact or refused; a commit is exact on every
element that lies in the range its session began with, whatever else was pushed or
removed meanwhile, or refused. Of an element pushed from outside that range the code
makes nothing true, and `CommitsExactly`, which asks it of every element, is broken by
`claim_stale`. `DeferredAsEager` compares a commit with the safe calls one by
one. The class a commit ends in may be narrower than theirs, because the safe calls
widen for every intermediate result: hence "no wider".

### Files

A file is the image being written and how many of its items have reached it (`disk`).
A save opens (and truncates) in one step, the items arrive one by one, the program can
die or a write can fail at each of them, and closing can lose what was not yet written
while the save still answers success: the code does not look at what `fclose` says.
Loads are one step, because nothing else runs. `saved` remembers the column last begun
to be saved; `damage` says which files were altered at rest, once each. The two readers of the portable format check the length each in its own way, and the
model keeps them apart: `LoaderAccepts` reads header, payload and checksum and then
expects the end of the file; `MapAccepts` has the length of the file first and compares
it with the announced one, computed in a `size_t`. That they accept the same files
(`ReadersAgree`) rests on what each tests before: the count by division, and the
checksum, which is that of the bytes it is found behind. A mapping is had for files
up to `Memory` bytes of payload. The checksum is
modelled as injective (an altered payload or checksum item is noticed); it covers the
payload only, so the header items can be altered unnoticed where the code does not
check them. `Same` compares class and values. A mapped column saved onto its own file
truncates the bytes it reads, and the program dies there.

The payload is bytes: `ByteOf` takes a word apart and `WordOf` puts it together, least
significant byte first, a byte counting for what `Place` says. `FileAssumption` has
every class be as wide as its bytes (`Pow(c) = Place(ElemBytes[c])`), which makes the
two inverse on the words of the class.

### Block-wise and affine columns

`arr` is the caller's array and `blk` or `aff` the column built of it; one form exists at
a time. The payload is a function from addresses to stored elements, so a delta is
found only where, and as wide as, it was written. Bases, sums, spans, offsets and
strides are narrowed to one class each and read back as the code does. The number of
blocks (`BlockCount`) is computed in the word, where it wraps for a block size near the
top; a careful caller's block size and length add up without wrapping. The flat
column's kernels, over a view of one block, are taken as plain scans: that kernel and
scan agree is what `UnsignedExact` says of `PoolQueries`.

Predicates of a block-wise column are stated for unsigned arrays: the code has no
signed form of them but the window sum. The extremes likewise.

### Block-wise files

`file` is the image of the block-wise column last saved and how much of it arrived;
death in a save and what `fclose` loses are the same to a reader, so a save writes any
prefix in one step. `Damage` then either rewrites the four numbers of the header, which
are outside the checksum, all at once, or alters one other place or the length.
`BlockFileFaithful` is about the second: the saved column or nothing.
`BlockFileReadable` is about the first, where the loader has no checksum to go by and
has to check the header against itself and against the file: what it accepts need not
be the column saved, but every element of it has to have a block, and its delta has to
lie in the payload. The payload is taken byte for byte in the image; the gaps hold
whatever the allocator left (`pad`). A column that comes back from a sound file is
`built` again, and all the properties of a built column apply to it.

### Tracked columns

`t` is the structure but for its pool, or `Plain` for a pool by itself, so that one run
serves both. Nothing in the library sets the dirty flag: the caller who changes the
pool inside does ("remocao pode ter invalidado os extremos"), and `Around` is such a
caller. `RangeTrue` then needs the push to update the range only when it succeeded, and
the rescan to clear the flag only when there was something to scan.

### Ports

A port has the whole file in memory and returns a class and integers. The three readers
differ in how they check the length: Go divides the bytes that are there, Python
multiplies without bound, JavaScript in doubles after refusing counts above 2^53 - 1
(`MaxSafeInteger`), C in `size_t` after a division. `Altered` therefore has the counts
whose product with the element size wraps to the right number (`SizeT`). `PortsAgree`
compares each with the C reader on every file the run reaches, and is proved of every
file a port can have in memory (`PortAssumption`).

### The engine of the page

`Probe` has one action per section of `s2r_probe_run`, and one per write, iteration and
reallocation in the file layer. `section` is where the call is; nothing else runs until
it is `"idle"` again, and the properties of state look there. A structure that is not
there is its zeroed value. Every allocation may be refused, `MaxRefusals` of them in one
analysis. `told` is the column the report is about, `kept` the one last written out.
The input buffer may be changed and asked about without an analysis, as the page can.

Fairness: `WF_section(Leaves)` says that a section, once entered, is left; each is
straight-line code or loops counted by the column or the blocks. `WF_vars(Growing)` says
that the loop of `fwrite` takes its iterations. Nothing is presumed of their number, so
`AnalysisEnds` has to get it from the arithmetic (`Growth`, in the 32 bits of the
browser): growth is by at least `FirstCap`, and a write that does not fit below the
address space is not reached, because body, column and payload share that space. No
fairness is put on the caller: no analysis need ever begin. The two are stated apart
because one formula over all actions would have TLC search the successors of the heavy
sections again for each ENABLED.

### Browser heap

`heap` holds the chunks by the address of their header, the end of memory, the free
list and the sentinel. `held` (what the program asked for and has not freed) and
`refused` (whether the system has ever refused to grow) are observers. Addresses are
numbers of bytes; header, alignment, page and address space are constants.

## Runs

| Run | Shows | Bounds |
|---|---|---|
| `pool_any` | `TypeOK`, `BufferSound`, `ClassChangeKeepsValues` for every order of calls | two classes (1 and 2 bits), columns of 3 elements, blocks of up to 6 bytes in a `size_t` of 36 values, capacities up to one whose bytes are beyond it, at most one leaked block |
| `index` | `IndexExact`: the index refuses or is right for the present pool | columns of 2, an epoch of 4 values so that it goes round |
| `careful` | `NoLeak`, `SignAgrees`, `OrderTrue`, `SummaryTrue` for careful callers; `UnsignedExact`, `SignedExact`: on every pool they reach, every fast query equals the scan, for every window of the word; and what is counted of different values is right | the same, with every word as argument; bisection from 2 bytes on, bitmaps for the first class only |
| `column` | `ImplementsColumn`, `HealingIsComplete`, `RangeTrue` | three classes (1, 2, 3 bits), columns of 3; structures made with no capacity (`TrackedCaps`) |
| `lazy` | `NeverWraps`, `DeferredAsEager`: arithmetic on columns is arithmetic on integers or is refused, for what a session began with | columns of 2 over three classes (1, 2, 3 bits), sessions of 2 operations by 0, 3 and 7, signed and unsigned; other writes between begin and commit, for sessions of one operation |
| `heap` | `BoundaryTags`, `BlocksApart`, `Coalesced`, `FreeListTrue` under every order of calls and refusals | an alignment of 2, pages of 8 and an address space of 40 bytes; three blocks held; sizes around the split, the page and the end of the address space, where each of the two sums of the rounding wraps |
| `file` | what readers give back: `LoadsWhatWasSaved`, `SavedCanBeLoaded`, `ReadersAgree`, `OwnershipStaysHome`, `FactsStayTrue`; that all implementations do alike: `PortsAgree` | two files, columns of up to two elements of one and two bytes, one damage; a `size_t` of 66 values, mappings of up to 14 bytes and safe integers up to 6, so that announced lengths wrap and counts go beyond both; the second file is there to save to from a column mapped from the first, and damage is looked at with one file |
| `frames` | `BlockedKeepsValues`, `PayloadApart`, `ZoneMapTrue`, `BlockedPredicates`, `SignedWindowSums`, `AffineExact`, `PlanExact`, `AdviceHonest`, `BlockFileFaithful`, `BlockFileReadable` | arrays of up to 4 values over 5 values of each sign, and longer ones put together from two triples; three classes (2, 4 and 8 bits), blocks of 1 to 3, plan cells of 2 and three candidates; files of a few chosen arrays, one damage |
| `probe` | `PathsAgree`, `ReportTrue`, `FileOfLastSave`, `AnalysisEnds` over analyses one after another | three columns of three or four values (narrow; constant; the whole width, with steps and two values apart in their highest digit), cut to `Lengths`; one refused allocation in an analysis; a first capacity of 9 items, so that the file grows while it is written, in an address space of 128 |
| `claim_index` | an index answers for a column that has lost its last element | as `index`, any caller |
| `claim_signedsum` | signed bounds of a window sum are compared as words | as `frames`, any caller |
| `claim_stale` | a commit wraps an element pushed since its session began | as `lazy` |

Why the bounds are enough to be interesting: with an alignment of 2, elements of 1
and 2 bytes and an initial capacity of 2, a block has slack after rounding, growth
by 3/2 takes the `cap + 1` branch, an allocation can fail
for want of memory as well as by refusal, and a class change alters the capacity of
a block. Class 1 has values that are negative when signed, so sign extension and
its absence differ. The third class in `column` lets a push skip a class. Columns of
three elements have a first, a middle and a last, sortings with and without
duplicates, and a second growth. `EpochMod = 1` in the runs that do not look at the
epoch removes it from the state; `index` looks at it and runs with 4.

In `lazy` a view leaves the two observers out of the state: they describe the last
step, the action properties look at steps (TLC evaluates those on every transition,
also one into a state seen before), and no action reads them.

In `frames` the payload has blocks of width 0, 1, 2 and 4 bytes; a delta wider than
two bits needs a block of three values, since the offsets of two values have their
difference as common step and leave an index span of 1. Bisection starts at three
bytes, so that it and the kernel both answer. The arrays of triples have two blocks
whose steps, signs and widths differ.

In `heap` one size wraps in the first sum of `rt_roundup` and is refused (39), one in the
second (37), within two alignment units of the end of the address space, and gets a
small chunk. `BlocksApart` promises bytes to the sizes that are `Representable` with
their header, and the rest of the properties hold for all.

In `IndexExact` the 32-bit epoch is allowed less than one full turn (`age`): after
exactly 2^32 writes an old index looks current, which the code accepts.

The next-state relations never stop (a released pool can be created again, a live
one can be released), so deadlock is checked.

## Proofs

The theorems hold for every number of classes, every width, alignment, memory bound,
size of the address space and set of arguments that the assumptions named beside the
constants allow; 8, 16, 32 and 64 bits are one instance. `ClassAssumption` says that
each class is at least twice as wide as the one before; `WidthAssumption` that it is a
whole number of times as wide, which is what makes a word narrowed twice read as if it
had been narrowed once. Sizes are computed modulo `SizeMax + 1`: `AddressAssumption` says
that memory is a small part of the address space, so that what grows out of a block that
was had cannot wrap, and `AskedAssumption` (`AskedSizes`) that no caller asks for a size
in the last alignment unit, where the rounding does wrap. `RoomAssumption` has an array,
with a delta and a block of its own for each element, fit in memory, and the planner's
own block sizes add up with its length.

| Module | Theorem | For | What it says |
|---|---|---|---|
| `PoolProofs` | `TypeCorrect`, `ElementsWithinBlock` | every caller clear of `SIZE_MAX` (`AskedSizes`) | `TypeOK`, `BufferSound` |
| | `ValuesSurviveClassChange` | the same | `ClassChangeKeepsValues`, a property of steps |
| | `BlockReleasedOnce`, `SignsAgree`, `OrderIsTrue`, `SummaryIsTrue` | careful callers | `NoLeak`, `SignAgrees`, `OrderTrue`, `SummaryTrue` |
| | `IndexNeverStale` | careful callers | `IndexExact` |
| `QueryProofs` | `UnsignedQueriesExact`, `SignedQueriesExact` | careful callers | `UnsignedExact`, `SignedExact` |
| `ColumnProofs` | `AdaptiveIsColumn`, `TrackedIsColumn` | every caller | `AdaptiveColumn` and `TrackedColumn` implement `IntColumn` |
| | `FitIsLeast`, `RangeIsTrue` | every caller | `HealingIsComplete`, `RangeTrue` |
| `LazyProofs` | `ArithmeticIsExact` | careful callers | `NeverWraps`: `LazyCarry` implements `ExactArithmetic` |
| | `DeferringIsSafe` | careful callers | `DeferredAsEager` |
| `FileProofs` | `BlocksStayHome`, `FactsReadBackTrue`, `ReadersAcceptTheSame`, `SavedIsReadable` | careful callers | `OwnershipStaysHome`, `FactsStayTrue`, `ReadersAgree`, `SavedCanBeLoaded` |
| | `ReadsWhatWasSaved`, `PortsReadTheSame` | careful callers, one damage | `LoadsWhatWasSaved`, `PortsAgree` |
| `FrameProofs` | `BlockedKeepsValuesHolds`, `PayloadApartHolds`, `ZoneMapTrueHolds` | careful callers | `BlockedKeepsValues`, `PayloadApart`, `ZoneMapTrue` |
| | `BlockFileFaithfulHolds`, `BlockFileReadableHolds` | careful callers | `BlockFileFaithful`, `BlockFileReadable` |
| | `BlockedPredicatesHolds`, `SignedWindowSumsHolds` | careful callers | `BlockedPredicates`, `SignedWindowSums` |
| | `FrameInvHolds` | careful callers | `FrameInv`, the invariant below |
| `HeapProofs` | `HeapStaysTyped`, `TagsLeadThrough`, `BlocksStayApart`, `NeighboursAreJoined`, `NothingFreedIsLost` | every caller that frees what it holds | the five properties of `heap` |

The argument has three layers.

*What a function does.* Per function of `PoolOps` three lemmas in `PoolFacts`. The first:
from a pool in use (`InUse`: well typed, elements within the block) it makes one in use.
The second: which fields it changes, and what the elements read as afterwards. The third:
which records it keeps. `Honest(p)` collects what a
pool may say of itself: it has one block or borrows one, its signs agree, SORTED and
SUMMARY are true of its elements, and each function is shown to keep a pool honest
or `Truthful` (`Honest` without the signs, which demoting a signed pool spoils) under
what the guards give.

*The inductive invariants.* None of the properties is inductive alone.

- `TypeOK` needs the class to be one of the classes, which is known of a live pool
  only, and `BufferSound` needs the types: `Inv` is the two together.
- `NoLeak`, `SignAgrees`, `OrderTrue` and `SummaryTrue` need one another: a class change
  keeps the order only if the signs agree, and the summary only if no value changes.
  `CarefulInv` is `Inv`, `Honest(pool)`, that a mapped pool borrows its block, and that
  nothing is allocated without a live pool.
- The adaptive interface needs no `Careful`: `Clean` says `Honest` and that only SIGNED
  and SORTED are ever recorded. `TrackedInv` adds that the pool of an `S2RTracked` is
  unsigned and that the range it keeps, unless dirty, is that of the elements.
- `IndexInv` says that the pool's epoch is the index's, `age` bumps on, and that with no
  bump since the table holds the counts of the pool as it is. Each call is shown
  `Noticed`: it leaves every count alone or moves the epoch on, and not by a whole turn.
  Together with the bound on `age` in `IndexExact` this is enough. It is also why the
  theorem asks for more than two epochs (a call may bump twice) and for fewer elements
  in the pool than there are epochs: `s2r_transform` bumps the epoch once per element,
  so that on exactly 2^32 elements one call would bring it back. The run `index` keeps
  both.
- `LazyInv` says that the pool is `Clean`, that no unsigned session is open on a signed
  pool, and of the session (`SessionOk`) that its running bounds are the images of the
  ends it began with, and that these, after every prefix of the chain, were within 64
  bits. A product by a negative number turns the ends round, so what is kept is that the
  image of a value lies `Between` those of the ends; hence all values of the range pass
  every test the eager calls make. The scalar loops work on words of the class: each
  word is shown `Congruent` to the exact result, and the two are the same once the
  class holds it (`Standing`, `StandingBecomes`). The tests themselves are lemmas:
  `SignedTest`, and `DivisionTest` for the unsigned product, where `s > MAX / a` is
  exact. A call that has to widen is refused only if memory is short or the block of a
  column of that length would be larger than any can be (`TooLong`), which no request for
  more memory cures and `DeferredAsEager` leaves out.
- `DiskInv` says of every file which column its image is of, that no more of it is there
  than was written, and that a damaged image differs from the saved one in one place;
  and of the pool, by owner, what `Truthful` says. Loading is right because
  `WordOf` of the bytes of a word is that word (`Place` of all bytes is the width of the
  class), and a changed byte is noticed because `Encoded` is injective.
  `ReadsWhatWasSaved` asks for at most one damage (`MaxDamage <= 1`): a payload and a
  checksum altered together can agree with each other.
- `PortInv` adds what the ports need of a file they have in memory: its payload can be
  counted in a `size_t` and in JavaScript's integers (`PortAssumption`, asked of the
  columns that are built, and kept since from there a column is only narrowed, saved and
  read back), and a file cut short is not altered as well, which is again
  `MaxDamage <= 1`. The counts a header *announces* are not bounded: that a count beyond
  either limit is refused by every reader, each by its own test, is `SameAcceptance`.
  Each port is then shown to be one reader, `PortRead`, and that reader to answer
  as `s2r_load_portable` and `s2r_map_open` do.
- `HeapInv` says that the heap is `Fresh` (not one call has got memory) or `Heaped`, that the callers
  hold exactly the chunks in use, and that unless a growth was refused the list is
  `Complete`. `Heaped` is `Tags` (sizes lead from chunk to chunk, and back by `prevsz`),
  `Calm` (no free neighbours) and `Links` (both links of a chunk lead to free chunks
  that lead back). Two of these are broken inside a call. `free()` joins chunks before it
  rewrites the tag after them: `Tags(h, d)` leaves out the one tag, at `d`. And the chunk it
  frees is not on the list yet: `Loose` is `Heaped` but for that chunk. `Links` alone does not
  put a free chunk on the list, since two chunks could lead to each other:
  `Complete` gives each a rank that grows along the list (`Reached`), which makes
  the walk of `ListOrder` pass all of them and end within as many steps as there are
  chunks. `HeapAssumption` asks that the address space hold the first chunk and one
  growth of the heap (three alignment units and two pages); 4 GiB in the browser.
- `FrameInv` says of a block-wise column that it `Represents` the array: as many
  blocks as cutting it gives, and each, read back from the classes its parts were
  narrowed to, is the frame of its piece of the array. Neither the values nor the zone map
  follow from less: that a delta fits the class its block was given rests on base and
  stride being those of that very piece. The payload grows by whole blocks of deltas,
  each aligned upwards, so its parts lie apart (`PayloadApart`), and `RoomAssumption`
  keeps the arithmetic from wrapping, for the caller's block sizes with the guard of
  `s2r_blocked_build`. The planner's block is one of its candidates and hence positive.
  Of the file `FrameInv` says which image it holds (`FileInv`): that of a column that was
  built, as much of it as was written; altered in one place; longer by a byte; or with
  its four numbers rewritten. An image is read back as it was written number by number
  (`ByteAssumption`: a class is as wide as its bytes). An altered class of the bookkeeping
  announces a length the file does not have, and an altered byte contradicts the
  checksum. That an accepted
  column can be read follows from the loader's tests alone, whatever the four numbers
  say, if rounding up the number of blocks does not wrap (`CountRounds`).

*What a query answers.* `CarefulInv` says that the records a query trusts are true;
the rest of `QueryProofs` is that each shortcut, given true records, is the scan.
Bisection: the elements below a bound in an ordered column are its first `c`
(`DownClosed`), and the only function that satisfies the halving equation from there is
the one that ends at `c` (`HalvingIs`). The kernel: one wrapping subtraction keeps
exactly the words of the window (`WindowMod`), also of sign-extended values and
windows clamped to the class. Sums: offsets plus the low end times the count, modulo
the word (`SumShifted`, `KernelSum`). Different values: a sorted rearrangement of
every finite column exists (`AllSortable`), so the `CHOOSE` of the model is one, and
its changes of word are as many as its words (`ChangesCount`). Induction is done by hand
in these lemmas: a least width for which the claim fails, or the set of lengths for
which it holds.

Windows of a block-wise column: within a block the values are base plus stride times
index, so a window of values is a window of indices, its ends quotients rounded up and
down (`QuotientBounds`), and nothing wraps because the words of a block lie in the order
of their values, all moved by nothing or all by one turn. The counts and sums of the
blocks then add up, block by block, to those of the array, and bisection in a block is
again `HalvingIs`.

*The temporal step.* Initial states and steps, one lemma per group of actions, then
`PTL`. For the refinements, that the initial state is an initial state of `IntColumn`
and every step one of its steps or a stutter; a step that moves elements without
changing them (`s2r_sort`) is one in which `IntColumn!Rearranges` holds: the same
values, each as often.

Only model-checked, and why:

- of `frames`: `AffineExact` (detection by a gcd that is defined by recursion over the
  array, and closed forms over it), `PlanExact` and `AdviceHonest` (the planner's walk
  over every merge of cells, which would have to be shown to find the gcd of a block).
- `PathsAgree`, `ReportTrue`, `FileOfLastSave` of `probe`, which rest on those of `frames`. `AnalysisEnds` is liveness
  under fairness, out of the prover's reach.

## Not modelled, and why

- Use of a structure whose creation failed (a failed affine build keeps its count),
  and writes through the pointers of `s2r_as_u8` and its kin: the library does not
  see them.
- Files: big-endian hosts, and the magic of the format before v3.2.
- Of the in-memory files: other names than the page's one (so the eight slots), and
  the functions of stdio apart from their results to the library's readers. The heap
  under them is `WebHeap`, which `Probe` sees only as allocations that may be refused.
- The group sum over two pools: one loop, its own specification.
- Of the ports: their pools in memory. Of the tools: text input and output, options,
  `s2r_convert`, the Windows front end of the engine.
- Of the report: the sizes of the classical encodings it is compared with, which are
  formulas, and what is copied from a structure into it.
- Aligned allocation in the browser: a call of `malloc`.
- The vector kernels, the Python binding, benchmarks: see the inventory.
- Invalid sizes handed to `s2r_pool_init`, null pointers: refused at the first line.

## Plan

Done: the flat pool with its facts, index, queries and counts; the adaptive and the
tracked column, the first as a refinement; deferred arithmetic; files and the ports
that read them; block-wise and affine columns with the planner and the block-wise file;
the browser heap, its files and the engine of the page. Proved: the flat pool, its
queries and counts, the adaptive and the tracked column, the index, deferred arithmetic, the files, the ports
that read them, the browser heap, and of the block-wise columns the values, the payload, the zone
map, the predicates and the file. What is left is proofs:

1. `AffineExact` of `FramedColumn`, then `PlanExact`.
2. `FileOfLastSave` and `PathsAgree` of `Probe`.
