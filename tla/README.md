# A TLA+ specification of CHERI-GC

CHERI-GC is a conservative, generational, copying garbage collector for C
programs on the CHERI processor. Pointers are tagged 32-byte capabilities with
bounds, so a scan of memory knows what is a pointer; what it cannot know is
whether the program still uses one. This directory models the collector, its
bitmap, its allocator, the growth of its heap, its initialisation, its table of
tracked allocations and the ML interpreter that comes with it, checks them with
TLC and proves most of what they check with TLAPS. Paths below are relative to the repository.

The configuration is the default one of `src/inc/gc_config.h`: `GC_DEBUG` off (so
`GC_assert` is empty), `GC_GENERATIONAL`, `GC_USE_BITMAP`, the manual write
barrier with a remembered set, both heaps allowed to grow, watermark one half.
GCDebug alone is about a build with `GC_DEBUG_TRACK_ALLOCATIONS`.

## Inventory

| part | state it keeps | operations | correct when |
|---|---|---|---|
| collector (`gc_collect.c`) | per region: tospace, fromspace, free, scan, bitmaps | `GC_collect`, `GC_major_collect`, `GC_gen_promote`, `GC_copy_*`, `GC_minor_free` | the reachable graph is unchanged, sharing included; nothing reachable is freed; copies fit; collections end |
| allocator (`gc_malloc.c`) | the young region's free pointer | `GC_malloc` | objects do not overlap; a failing allocation grows, collects, grows again, then reports |
| write barrier, remembered set (`gc_low.h`, `gc_remset.c`) | addresses of old words | `GC_STORE_CAP`, `GC_remembered_set_add`, `_clr` | every old word with a young pointer is in the set; no address in it is stale |
| `GC_memcpy` (`gc_memcpy.c`) | none | copy with tags | keeps tags and goes through the barrier |
| bitmap (`gc_bitmap.c`) | size, used, bits | init, grow, allocate, clr, find, get_container | look-ups agree with the objects that were placed |
| growth (`gc_low.c`, rebase in `gc_collect.c`) | allocation table, the spaces' blocks | `GC_low_realloc`, `GC_grow`, `GC_region_rebase` | pointers follow a space that moves, others do not; a failure leaves the region usable |
| initialisation (`gc_init.c`) | `GC_state` | `GC_init`, `GC_reset` | regions are consistent from the start and after a reset, and nothing of a failed `GC_init` is mixed with a later one |
| debug bookkeeping (`gc_debug.c`) | hash table of allocations | just_allocated, track, just_copied, marking, rebasing | the entries are the objects of the heap; the sweep overwrites no live object (not built by default) |
| signal emulation (`sigemulate.c`) | saved registers | decode and emulate a store | not built by default; not modelled |
| timing (`gc_time.c`) | none | read the clock | not modelled |
| ML interpreter (`ml/`) | token, expression, environments, activations of `eval` | lex, parse, evaluate | expressions are the grammar's; evaluation is call-by-value with lexical scope; errors are reported |

How they interact: the program calls `GC_malloc`, `GC_STORE_CAP`, `GC_memcpy`
and `GC_collect`. There is one thread: while the library runs, the program is
stopped, with its registers saved where the collector scans them. `GC_malloc`
calls `GC_grow` and `GC_collect_region`; the collection of the young region is a
promotion into the old one, which may in turn collect and grow the old region.
All of them share the two `GC_region` structures, and the bitmaps run in parallel
with the free pointers.

What is hard here is not concurrency but the order of calls: stale tags and
forwarding addresses in memory that is reused without being cleared,
conservative roots, pointers between the generations, interior pointers, and a
heap that moves. The hazards in `PROJECT.json` list the places.

## Modules

- **GCBitmap** - the operations of `gc_bitmap.c` as operators on a record
  `[size, used, map]`; `map` is the set of the positions of the 1 bits. The rounding
  of the size to bytes is kept, since growth copies bytes.
- **GCBitmapObjects** - a bitmap through its life (place, clear, grow), with the
  set of placed objects as a history variable; properties of the look-ups.
- **GCBitmapProofs** - their proofs.
- **GCCollect** - the collector with the program that uses it. Memory is an array of
  words; a word holds a capability `[base, len, fwd]` or `Null` (no tag). `root` is the
  stack, the registers and the static data, in the order in which they are
  scanned. One action per call of the program, one per location that the
  collector visits.
- **GCCollectProofs**, **GCSharingProofs**, **GCGraphProofs** - proofs about it, each on
  top of the one before: types and bitmaps, what is copied where, what pointers mean.
- **MCCollect**, **MCCollectBounded** - instances for TLC, the second with programs
  of bounded length.
- **ProgramHeap** - what the program is promised: objects with fields and no addresses,
  which live while they can be reached. **GCCollectView** - GCCollect as the program sees
  it, and the refinement of ProgramHeap; **MCCollectView** - its instance, with programs of
  bounded length; **GCViewProofs** - the proof of the refinement.
- **GCGrow** - one region that grows, with malloc's blocks and the table behind
  `GC_low_realloc`; **MCGrow** - its instances; **GCGrowProofs** - its proofs.
- **GCInit** - `GC_init2`, the allocation table with its limit, the array of the remembered
  set, and the reallocations of `GC_grow`; **MCInit** - its instance. **RememberedSet** - the
  list of addresses that the array implements. **GCInitProofs** - the proofs about both.
- **GCDebug** - the table of allocated objects of `gc_debug.c`, driven by an abstract
  heap; **MCDebug** - its instance; **GCDebugProofs** - its proofs.
- **MLParse** - lexer and parser as operators; **MLGrammar** - the reading of a program
  that the grammar of `ml.c` has, as a reference; **MLInterp** - `main` and `eval` as a state
  machine; **MLSemantics** - reduction by substitution, which MLInterp implements;
  **MCInterp** - the programs for TLC.

### From the code to GCCollect

| code | model |
|---|---|
| `region->free - tospace` (young, old) | `yfree`, `ofree`, in words |
| `region->scan` of the old region | `oscan` |
| `tospace`/`fromspace` of the old region | semispaces 0 and 1; `to` says which is the tospace |
| `tospace_bitmap`, `fromspace_bitmap` | `ybitmap`, `tobitmap`, `frombitmap` |
| `remset->roots` | `remset` |
| `GC_malloc2`, `GC_malloc_region` | `GC_malloc`, or `MallocCollect` ... `MallocRetry` |
| `GC_STORE_CAP`, `GC_memcpy` | `Store`, `GC_memcpy` then `MemcpyWord` for each word |
| `GC_collect2`, `GC_collect_region`, `GC_gen_promote` | `GC_collect2`, `GC_collect_region`, `PromotionDone`, `MajorDone` |
| `GC_copy_roots`, `_remembered_set`, `_children`, `_child`, `_object` | the actions and operators of these names |
| `GC_minor_free`, `GC_reset` | the actions of these names |
| `GC_fatalf` in `GC_cap_memcpy` | `GC_fatalf`, which ends the program |

`known` and `kroot` record which words the program has initialised and may rely on.
They matter because the collector sees more than that: words that were never
written hold what was there before, and a dead variable's bits stay on the
stack. `snap`, `sroot` and `orig` record, during a collection, memory as it was and
which word each copied word is a copy of. No step depends on these history
variables except through what a correct program may do.

Abstractions: untagged data is `Null`. Permissions other than the forwarding one
are left out. A word is `WordBytes` bytes, 1 or 2 for TLC instead of 32. `GC_memcpy`
copies whole words. Neither region can grow in GCCollect: both are taken to be at
their maximum size, where `GC_grow` returns 0 at once; GCGrow has the growth. The
program does not write pointers by other means than `GC_STORE_CAP` and `GC_memcpy`
(which the library's documentation demands). In the passing runs `GC_memcpy`'s
first source word has been initialised (see the latent forwarding addresses below).

### From GCCollect to ProgramHeap

ProgramHeap has the operations of the program on objects that never move: assign, allocate,
derive an interior pointer, load, store, copy, free. Objects are numbered in the order in
which they are allocated; a field is named by its object and its index. A pointer has an object, a
field, a position within that field (`part`), and the number of fields that its bounds take up (`len`);
how many bytes they have is not promised, since a collection may change that (see the
findings), so `Derive` allows every number of bytes that takes up `len` fields. A value of
which the program knows nothing is `Unknown`. `Collect(S)` takes the fields in `S` away, provided
that no root and no other field leads to them.

GCCollectView adds three history variables. `name` gives each word the name of its field:
`GC_malloc` names the words of a new object, numbered by `count`, and at the end of a collection
each copy gets the name of the word it is a copy of. `seen` is what the program sees, under these
names, of its roots and of the heap; it is renewed whenever the program runs, or `GC_malloc` goes
on after a collection, and stays as it was while a collection or a `GC_memcpy` is at work. The
variables restrict no step. `ImplementsProgramHeap` says that `seen` and `count` change as
ProgramHeap's steps do, and that what a collection changes is a `Collect`.

### From the code to GCGrow

`tospace`, `fromspace`, `free`, `bitmap`, `frombitmap` are the fields of the region;
`table` is `GC_alloc_table`, `live` are malloc's blocks. `GC_grow` is taken in the steps
that call malloc: `GrowFromspace`, `GrowTospace`, `FinishGrow` (new capabilities,
bitmaps, free pointer, `GC_region_rebase`). The callers are `MallocGrow`,
`MallocCollect`, `MallocRetry`, `MallocEnd` for the young region and `PromoteGrow` for
the old one. `Cells` are the words outside of the region that are rebased: roots and
remembered words. `means` and `hmeans` are history variables: the word of the region
that each pointer stands for.

malloc returns any of the `Places` where the block fits and NULL if there is
none, so memory runs out and fragments. The second attempt after a failed
doubling is not modelled further than its beginning: `GC_low_realloc` cannot find the
address any more and ends the program (`pc = "no_entry"`; see the findings). That the
code shrinks the fromspace before it is left out, since the program ends right after. A malloc
that fails and then succeeds for the same size is not modelled here: the growth of a
fromspace that failed would be followed by that of the tospace. In GCInit malloc may fail at any call.
The collection in the middle of `GC_malloc_region` is abstracted to its two outcomes,
the region emptied or left alone; the collection of the old region to the case
that every object survives in its order. The memory of the bitmaps is in GCInit; here
its growth may fail.

### From the code to GCInit

`field` has the eleven pointers of `GC_state` to blocks of the library: spaces, bitmaps
and their maps, the remembered set and its array. `GC_init2` allocates them in order,
one step each (`InitField`); malloc may return NULL at any of them, and `FinishInit` stands
for the system calls that find the stack and the static data, which may fail as
well (`GC_get_static_bottom` installs its signal handler and restores the program's
within that step). A call that fails leaves its blocks and their entries behind; the
program may call `GC_init` again, or go on and end in `NotInitialized`. `live` are malloc's
blocks with lengths and contents, `table` is `GC_alloc_table`. `AddFound`, `AddAppend` and
`AddGrow` are the three ways through `GC_remembered_set_add`. `GC_grow` is reduced to its
reallocations, without a maximal size: each failure then ends the program, one way or
another, as GCGrow shows in detail. Which address malloc returns matters only up to
renaming: that of any freed block or the first one that was never used.

### From the code to the ML modules

`lex` and the `parse` functions are operators from a state (token and position) to an
expression and a state; `Exit` is `exit(1)`. `PARSE_OP_DEFINE` is one operator with the
level of precedence as a parameter. In MLInterp `eval`'s activations are the frames of
`stack`; an action starts the evaluation of an expression (`EvalIf`, `EvalOp`, ...) or goes on
after a nested call has returned (`ReturnCond`, `ReturnLeft`, `ReturnRight`). `OutOfMemory` is a
failing `ml_malloc` at every place that calls it. `Term`, the refinement mapping, reads a
state back as a closed term: environments are substituted and the frames are put
around it. The collector's part is left out: by ProgramHeap the interpreter's objects
stay what they are. Numbers have `Width` bits, 6 for TLC, so that they overflow, and
the expression is evaluated `Repeats` times, 2 for TLC, so that a second evaluation
follows a first.

### From the code to GCDebug

`tbl` is `GC_debug_tbl`: a sequence of entries for each bucket, in which an invalid
entry's slot is used again. The hash is a constant operator; the instance has two
buckets and collisions. The heap is abstract: `objs` are the objects with their
places, and the actions are the calls that reach the table. `GC_debug_just_allocated`
is the end of `GC_malloc_region`; `BeginPromote`, `CopyYoung`, `EndCopyYoung`, `EndPromote` are
a collection of the young region, with `BeginMajor`, `CopyOld`, `EndMajor` (any number of
times) and `GrowOld` inside of it; which objects are copied, and in which order, is open.
The conditions on sizes that lead to a major collection or to growth are left out, so
that both can happen at any time they could. The loop of
`GC_debug_rebase_allocation_entries` is taken slot by slot (`RebaseSlot`, `RebaseBucket`),
since it changes the table it scans; the other loops change each entry where it
stands. `GrowYoung` and `GrowOld` stand for `GC_grow` with its pointers already rebased;
its failures are in GCGrow. An object may be reached by a shorter capability than it
was allocated with; `GC_debug_just_copied` then finds no entry and ends the program
(`pc = "fatal"`).

## Runs

| run | bounds | shows |
|---|---|---|
| `bitmap_objects` | 5 to 11 entries, objects of 0 to 3 | `FindsObjects`, `FindsContainers`, `NoGaps`: look-ups agree with the objects, across the byte boundary at 8; `StrayBits`: where the bits of empty objects are left |
| `collect_graph` | 2 young words, 2+2 old, 2 roots, all programs of load, store, clear, malloc, collect, major_collect | `GraphPreserved`, `SharingPreserved`, `NoDangling`, `RememberedSetComplete` |
| `collect_free` | same heap; store, malloc, collect, minor_free, reset | `CopyFits`, `ForwardingSound`, `RemsetNotStale`, `NoDangling` with a remembered set that outlives its objects |
| `collect_bytes` | same heap, 2 bytes to a word, sizes 1 and 3, offsets 1 and 2; forget, derive, store, memcpy, malloc, collect | `CopyFits`, `ForwardingSound`, `GraphPreserved`, `NoDangling` with rounding, interior pointers and garbage that is taken for live; `TypeOK`, `BitmapMatchesFree` |
| `collect_refines` | 2 young words, 4+4 old, programs of 5 operations of all kinds | `ImplementsProgramHeap`; `CollectionEnds`, under fairness; `NoDangling`, `RememberedSetComplete` over several promotions and major collections |
| `grow` | the young region growing from 1 word to 2 and 3, or the old one from 1 word until memory runs out; 13 words of memory, 2 cells | `RegionConsistent`, `RegionBacked`, `PointersFollow`, `PlacesFit` |
| `memory` | 14 blocks and 14 entries for the 11 of one initialisation; an array that doubles from 1 to 2 and 4; regions growing from 1 word to 9 | `StateBacked`, `TableExact`, `FullOnlyAfterFailure`, `ImplementsRememberedSet` |
| `ml` | all sequences of up to 5 of 8 lexemes and up to 7 of 4 with conditionals, 325 applications of curried functions, 13 longer programs | `ParseComplete`, `ParseSound`, `ImplementsSemantics` |
| `debug_table` | 2 buckets, 2 entries in use at a time, spaces of 2 words that grow to 3, 17 words of memory | `TableComplete`, `ShadowExact`, `SweepHarmless` |

Why the bounds are enough to meet the cases: two young words hold an object
that points to another, or to itself, or one object with an interior pointer; two
roots give aliasing and an object that is reachable twice; the old generation is
filled by one or two promotions, so that the watermark, the major collection
and the refusal of a promotion all happen within a few operations. The
exhaustive runs have no bound on the length of the program. In `memory` up to three blocks
can be left over from failed calls before one succeeds, so the table is full right
after some initialisations, and one or more free blocks let malloc return an
address again. In `ml` the short programs have every pair of
neighbouring operators and every place where a program may break off; the curried
functions have every way in which two variables of the same name can meet. `VIEW`s leave out words
that are overwritten before they can be read. Every property has a mutant in
`PROJECT.json`: a plausible defect of one mapped definition under which the run
fails.

Deadlock is checked except in `collect_bytes`, where a pointer into the middle of a
word ends the program in `GC_fatalf`, in `grow`, where memory runs
out and the program ends, in `memory` for the same reason, in `debug_table`, where
`GC_debug_just_copied` can end it, and in `ml`, where a program ends.

Fairness: `collect_refines` assumes weak fairness of the library's steps only. There is one
thread of control and the program has handed it over; nothing else can run until the call
returns. The program itself may stop at any time.

### Findings

Three runs have a counterexample. Each checks what a comment of the repository says.

- `finding_interior`: an interior pointer that is not 32-byte aligned is not
  adjusted to the start of its object (the code subtracts whole words), and the
  collection ends the program. The run has one object of two words of 2 bytes and a pointer
  to its byte 3, which the adjustment moves to byte 1. In an object of one word the
  adjustment is not even reached: the look-up divides the position and rounds the length
  up (`gc_bitmap.h:69-72`), takes a pointer to byte 1 for the object itself, and the copy
  fails in the same way. In both cases `GC_copy_object` first loads a capability from the misaligned
  address (`gc_collect.c:244`), which traps on the hardware; either way the program ends, and
  `GC_fatalf` in GCCollect stands for both.
- `finding_refused`: `GC_gen_promote` gives up where its documentation says that it
  collects the older generation; a program that holds nothing can then be
  without memory forever. (`gc_config.h:86-88` says that the old heap grows before a
  promotion; that code is commented out, too.)
- `finding_second_attempt`: when doubling fails, `GC_grow`'s second attempt cannot
  succeed, since the first one has removed the block's address from the table. The trace is
  about the tospace (`gc_low.c:410-428`); the fromspace has the same two attempts.

What the models had to follow the code in, without a run of its own:

- Forwarding addresses survive in all but the first word of a new object
  (`gc_malloc.c:210` clears only that). They do no harm until `GC_memcpy` moves one,
  from memory the program has not written, to the first word of an object. The
  constant `CopiesUninitialised`, FALSE in all runs, allows such programs:
  `ForwardingSound` then fails, with 3 young and 3+3 old words of 1 byte, 2 roots, sizes 1
  to 3, offset 1 and the operations memcpy, store, malloc, derive, collect.
- `GC_add_to_alloc_list` tests for a full table before it knows whether it needs an
  entry: with 500 entries every later growth ends the program (`gc_low.c:21`).
  `FullOnlyAfterFailure` shows that it takes failed calls of `GC_init` to get there.
- The lexer takes any `>` or `:` right after a symbol into that symbol
  (`ml/lex.c:174-183`), so `(x)>1` is rejected where `(x) > 1` is accepted, and the
  grammar's "n is an integer" (`ml/ml.c:137`) means a natural number. Whatever follows the
  first expression is ignored: `1 )` is evaluated to 1. `ParseComplete` and `ParseSound` are
  about the tokens that the lexer makes, and `ParseSound` about those the parser consumed.
- `then`, `else`, `if` and `fn` can be names where a name must follow; `ParseSound` leaves
  expressions with such names out.
- `lex` does not test what `ml_malloc` returned for the token (`ml/lex.c:97`), as all the
  other callers do (status `"trap"` in MLInterp).

- The forwarding address has the length of the pointer that was visited first, so a
  collection can change the length of another pointer to the same object
  (`test/test.c:202` expects that it does not). `GraphPreserved` therefore compares
  lengths in words.
- `GC_malloc(0)` sets the bit of the next entry without using it, and in a full
  region one past the last entry: in the byte behind the map if the size is a multiple of
  8. `TypeOK` of GCBitmapObjects allows for that index and no other. `StrayBits` says where
  such bits are after clearing and growing, and that `FindsObjects` holds in spite of
  them is what it is for. GCCollect has no objects of size 0; the bits of its bitmaps are all
  within the map (`Bitmaps`).
- `GC_grow` returns whether it grew by the whole hint. When the maximum cuts the growth
  short, `GC_malloc_region` takes this for failure although the object may fit
  (`gc_malloc.c:168` asserts otherwise). `PlacesFit` is the other direction, and holds.
- `GC_debug_just_allocated` means to end the program when the new object's base has a
  valid entry already, but its `break` leaves only the inner loop of
  `GC_DEBUG_HASH_TABLE_FOR_EACH_VALID`, which then sets the result to NULL
  (`gc_debug.c:496`, `514`): the test never fires. After `GC_reset`, which does not
  touch the table, one base can have two entries, of which the older is found
  first. `ShadowExact` is therefore about programs that reset nothing; `TableComplete`
  and `SweepHarmless` hold for all.
- When not even the hint can be allocated, `GC_grow` does not return 0 but goes on
  with a tospace at NULL (`pc = "null_read"` in GCGrow).

## Proofs

All theorems hold for every value of the constants that satisfies the modules'
named assumptions: natural numbers, positive where a size is meant, `Null` not a
capability, `Null`, `Unknown` and the pointers of ProgramHeap different from each other, and a hash that
is below the number of buckets.

**GCBitmapProofs.** `TypeTheorem`, `StrayBitsTheorem`, `FindTheorem`, `ContainerTheorem` and
`NoGapsTheorem` are `Spec => []P` for `TypeOK`, `StrayBits`, `FindsObjects`, `FindsContainers` and
`NoGaps`. The look-ups are not inductive: whether a bit after the start of an object is 0 depends
on where the next object begins. The inductive invariant adds that a 1 below `used` is the start of
an object (`BitsInv`); that no bit above `used` is set that the bytes of the map hold (`StrayBits`;
the bit at `used` may be, after an object of length 0); that each object starts at a 1, has no
other inside, and ends at `used` or before the next 1 (`ObjectsInv`); and `NoGaps`. There is one
lemma per action; the one on growth needs that rounding up to bytes keeps all bits in use.

**GCCollectProofs.** `TypeCorrect`, `BitmapCorrect` and `RemsetCorrect`: `Spec => []P` for `TypeOK`,
`BitmapMatchesFree` and `RemsetNotStale`. They share the invariant `IInv`: the type invariant,
`BitmapMatchesFree`, that the remembered set is a sequence of addresses in the present tospace,
and `ControlInv`, which ties `pc` to `stage`, `index`, `copying`, `request` and the remembered set: a
GC_malloc that tries again asks for at least one byte, so its bit is in the map, and a major
collection runs only with an empty set, since the promotion before it has emptied it. `TypeOK`
is not inductive without it: that a visited address is a word needs to know at which `pc`
which index is valid. One lemma per action, then the combination.

**GCSharingProofs.** `SharingTheorem` (`SharingPreserved`) and `CopyFitsTheorem` (`CopyFits`), with
no condition on the program. `CopyFits` is about a test that the collector does not make: nothing
compares the free pointer with the end of the tospace while objects are copied. What makes it true
is that no word is copied twice, so `SInv` counts: it adds to `IInv` that no word is in the tospace
twice, that none is both there and pending (in the space that is evacuated, in an object with
no forwarding address yet), and that `ofree` plus the number of pending words is at most the
size of the space. An object that is copied moves from the one side to the other. That a
promotion begins with enough room is the code's test; that a major collection does, is that
both spaces have the same size.

**GCGraphProofs.** `ForwardingTheorem`, `GraphTheorem`, `DanglingTheorem` and `BarrierTheorem`
(`ForwardingSound`, `GraphPreserved`, `NoDangling`, `RememberedSetComplete`). None is inductive and
none follows without the others: that a pointer is updated to the right copy depends on the
forwarding address, that a forwarding address is one depends on no other word with the tag and
the permission bit getting to the start of an object, and that all pointers are found depends on the
remembered set. `GraphInv` says it of all words at once:

- a word that the program may rely on, in a root or in the heap, is `Null` or a capability within
  an object of the tospace or of the space that is evacuated, and means what it meant when the
  collection began (`RootInv`, `ToInv`, `SrcInv`);
- one that still points into the space that is evacuated is in a root, or a word that the
  scan pointer has not passed, or a remembered address, that the collector has yet to visit;
- the first word of an object holds a forwarding address only if the object has been copied to
  where it says, word by word (`ForwardInv`);
- a remembered address beyond the words in use, which `GC_reset` leaves behind, is that of a zero
  word (`RememberedInv`); the arguments of `GC_memcpy` lie within objects that do not overlap
  (`MemcpyInv`).

TLC checked `GraphInv` on the three exhaustive runs of the collector before it was proved. The
theorems have the hypothesis `~CopiesUninitialised`: the program does not pass `GC_memcpy` an
object whose first word it never wrote. Without it they are false (see the findings): the word may
be a forwarding address that an earlier collection has left.

**GCViewProofs.** `HeapTheorem`: `SeenSpec => ImplementsProgramHeap`, under the same hypothesis. The
mapping is the value of `seen`, so the proof has to say what `seen` is at each point, in
terms of memory (`SeenInv`):

- while the program runs, each field of an allocated word that the program may rely on has the
  pointer that the word holds, in names (`Shows`);
- during a collection, the field of a word, of the original as well as of its copy, has what the
  word held when the collection began (`Showed`, which uses `snap` and `orig`);
- during a `GC_memcpy`, this holds of all but the words that are copied to; the first `index` of
  those already hold what the source holds, the others nothing (`ShowsCopying`).

`NameInv` is about the names: words that are not copies of the same word have different names, and
the words of each object, in both spaces, are numbered from 0, so that the fields within a pointer's bounds
are the words within its bounds. The invariant is `VInv`: these two with `SInv` and `GraphInv`,
whose conjuncts do the work at the end of a collection. There `RootInv` and
`ToInv` say that every pointer left is to the copy of what it pointed to, so that nothing the program
sees has changed, and that it points into the tospace, so that what is gone was not reachable; no two words
of the tospace are copies of the same one (`CopyInv`), so the copies can take the names over. One
lemma per action shows that it preserves `NameInv` and `SeenInv` and is a step of ProgramHeap or
none (`HeapStep`): the last word of a `GC_memcpy` is `Copy`, `GC_minor_free` and `GC_reset`
are `Free`, the end of a collection is `Collect`, `MallocRetry` is `Alloc` or the assignment of
`Null`, and every other step of the library is none. TLC
checked `NameInv` and `SeenInv` on instances with 1 and 2 bytes to a word first.

**GCGrowProofs.** `RegionCorrect`, `BackingCorrect`, `PointersCorrect` and `PlacementCorrect`
(`RegionConsistent`, `RegionBacked`, `PointersFollow`, `PlacesFit`). `IInv` is `Core` in every state but
those in which the program has ended. In the middle of `GC_grow` the region's fields still
describe the old spaces while the words are already in the new block: `Core` says for each `pc`
which block is whose (`ToBlock`, `FromBlock`), that malloc's blocks are apart, that the table has each at most
once, and that each pointer, followed from where the words are now, denotes what the program
means by it. One conjunct is there for the code's test `<=` at the end of the space: no
other object begins at the end of a space, since the block has a word of padding.

**GCInitProofs.** `TableCorrect`, `StateCorrect` and `NoSpuriousLimit` (`TableExact`, `StateBacked`,
`FullOnlyAfterFailure`), and `RememberedSetImplemented`: `Spec => ImplementsRememberedSet`, the
refinement, step by step. `IInv` adds the states within `GC_init2` and `GC_grow`: which fields have
been reached and how long their blocks are by then, and how many entries the table has as
long as no call has failed. The refinement needs that the slots in use hold addresses that were
added, also while the array moves.

**GCDebugProofs.** `CompleteTheorem`, `SweepTheorem` and `ShadowTheorem` (`TableComplete`,
`SweepHarmless`, `ShadowExact`). The proofs see the table through its valid slots and their
entries: lemmas say what adding, moving, marking and sweeping entries do to those, with a bucket
of any length and slots that are used again. The only thing assumed of the hash is that it is below
the size of the table for what lies in memory. Where the heap and the table differ in the middle of
a collection or a rebasing, `Core` says how:

- the spaces are apart with the word of padding behind each (`SpacesOK`), without which the sweep and
  the rebasing, whose tests count the end of a space as inside, would take an entry of
  another; objects lie in what is in use of them and apart from each other (`ObjectsOK`), and what
  may still be copied fits (`RoomOK`);
- a valid entry is in the bucket of its base and length and lies in a space. A major collection has marked
  none that is still in the fromspace. While a space is rebased, an entry that lies where it was
  is ahead of the loop's cursor and not yet rebased: this is the comment "we're only adding
  entries we won't want to scan again" (`EntriesOK`);
- `Place` is where the object of an entry is by now, which is not the entry's base if the entry is
  still to be rebased. Every object has an entry of its place and length (`CompleteOK`);
- as long as nothing was reset, every entry is that of an object, or of a young one that was not
  promoted and is unmarked; no two have the same place or site (`ShadowOK`).

TLC checked it on the instance of `debug_table` first.

Only model-checked: `ParseComplete`, `ParseSound` and `ImplementsSemantics`, whose definitions
need RECURSIVE operators, and an induction over programs; `CollectionEnds`, since liveness under
fairness is outside of the prover's reach. The findings are counterexamples.

## Not modelled

- The signal emulation (`sigemulate.c`): a MIPS decoder run from a signal handler for the
  ephemeral write barrier, which the default build leaves out; so `GC_set_wb_type`.
- The debug printers, and the checks of the heap, which change nothing; timing.
- Tests and benchmarks, which are clients.
- Of the interpreter: `lex_read_file`, which nothing calls; the printing of
  expressions and values; `gc_cheri_grow_heap`, which sets the heap's sizes for the
  benchmark with two calls of `GC_grow`. (For numbers below 256 it sets
  the maximum to 26240 bytes, less than the 65536 that the young region has; `GC_grow`
  returns 0 and the interpreter exits.) Programs that
  recurse through a fixed-point combinator are too deep for TLC.
- Permission bits other than the forwarding one.

## Plan

Done: the inventory; all modules above with their runs; the proofs of the section above.

Left: *GCPolicy*, sizes only: promotions, watermark and growth of both generations, for the
claim at `gc_collect.c:615-618` that the next promotion cannot fail.
