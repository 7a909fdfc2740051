------------------------------- MODULE GCGrow -------------------------------
(***************************************************************************)
(* A region that grows: GC_grow with the reallocations it makes, the       *)
(* allocation table behind GC_low_realloc, the rebasing of the pointers    *)
(* into a tospace that has moved, and the callers: GC_malloc_region for    *)
(* the young region, the end of GC_gen_promote for the old one.            *)
(*                                                                         *)
(* Addresses and sizes are in words; address 0 is NULL.  malloc puts a     *)
(* block at any of the Places where it fits, and fails when there is none. *)
(* It returns aligned addresses (GC_cap_memcpy ends the program otherwise), *)
(* so the aligned base of a space is the start of its block.  What was in  *)
(* the words of a block before is still there, tags included.              *)
(***************************************************************************)
EXTENDS Integers, Sequences, FiniteSets, Functions, GCBitmap

CONSTANTS
    Regions,        \* the regions to start from: is it the young one?
    InitialWords,   \* initial size of the region's space(s)
    YoungMaxBefore, \* GC_THREAD_LOCAL_HEAP_MAX_SIZE_BEFORE_COLLECTION, 0: no limit
    YoungMax,       \* GC_THREAD_LOCAL_HEAP_MAX_SIZE, 0: no limit
    OldMax,         \* GC_OLD_GENERATION_SEMISPACE_MAX_SIZE, 0: no limit
    Sizes,          \* sizes, in words, of the objects that are placed
    Cells,          \* roots and remembered words, which hold pointers
    Memory,         \* number of words that malloc has
    Places          \* where malloc may put a block

NULL == 0

ASSUME GrowAssumption ==
    /\ Regions \subseteq BOOLEAN
    /\ InitialWords \in Nat \ {0} /\ Memory \in Nat
    /\ YoungMaxBefore \in Nat /\ YoungMax \in Nat /\ OldMax \in Nat
    /\ Sizes \subseteq Nat \ {0}
    /\ Places \subseteq 1 .. Memory

Addresses == 1 .. Memory

(* Defect: the block of a space is no larger than the space.               *)
PaddingOmitted == 0

(* The 32 bytes that every space's block has more than the space.          *)
Padding == 1

(* What a pointer stands for: a word of the region, by its distance from   *)
(* the start, something elsewhere, or nothing.                             *)
Nothing == -1
Elsewhere == -2
Meanings == Nat \cup {Nothing, Elsewhere}

VARIABLES
    live,       \* malloc's blocks that are in use: records [ptr, len]
    table,      \* the entries of GC_alloc_table for the spaces
    mem,        \* the words: NULL for untagged data, or a pointer's base
    cell,       \* the pointers outside of the region
    young,      \* region->older_region # NULL; only the old one has a fromspace
    tospace,    \* region->tospace: [base, len]
    fromspace,  \* region->fromspace
    free,       \* region->free: [base, len]
    bitmap,     \* region->tospace_bitmap
    frombitmap, \* region->fromspace_bitmap
    pc,
    grow,       \* the arguments and locals of GC_grow
    request,    \* sz of the GC_malloc_region that is waiting
    tooSmall,   \* too_small, and !GC_grow(...)
    \* History variables:
    means,      \* what each cell stands for
    hmeans      \* what each word of the region stands for

region == <<young, tospace, fromspace, free, bitmap, frombitmap>>
heap == <<live, table, mem>>
history == <<means, hmeans>>
vars == <<heap, cell, region, pc, grow, request, tooSmall, history>>

Maximum(a, b) == IF a > b THEN a ELSE b
Minimum(a, b) == IF a < b THEN a ELSE b

Extent(block) == block.ptr .. (block.ptr + block.len - 1)

(* Where malloc(n) can put a block; NULL if nowhere.                       *)
Malloc(n) ==
    LET fit == {p \in Places :
                   /\ p .. (p + n - 1) \subseteq Addresses
                   /\ \A b \in live : Extent(b) \cap (p .. (p + n - 1)) = {}} IN
    IF fit = {} THEN {NULL} ELSE fit

Used == free.base - tospace.base

NoGrow == [hint |-> 0, old |-> 0, new |-> 0, from |-> NULL, to |-> NULL,
           back |-> "run"]

(* The block of a space of n words.                                        *)
BlockOf(p, n) == [ptr |-> p, len |-> n + Padding]

(* GC_init_young_region or GC_init_old_region; one object of the other     *)
(* generation, in a block of its own, to which one of the cells points.    *)
Init ==
    \E t, f, x \in Places, c0 \in Cells, y \in Regions :
        LET spaces == IF y THEN <<t>> ELSE <<t, f>>
            entries == [i \in DOMAIN spaces |-> BlockOf(spaces[i], InitialWords)]
            blocks == Range(entries) \cup {[ptr |-> x, len |-> 1]} IN
        /\ y => f = t
        /\ Cardinality(blocks) = Len(spaces) + 1
        /\ \A a, b \in blocks : a # b => Extent(a) \cap Extent(b) = {}
        /\ \A b \in blocks : Extent(b) \subseteq Addresses
        /\ young = y
        /\ live = blocks
        /\ table = entries
        /\ mem = [a \in Addresses |-> NULL]
        /\ cell = [c \in Cells |-> IF c = c0 THEN x ELSE NULL]
        /\ means = [c \in Cells |-> IF c = c0 THEN Elsewhere ELSE Nothing]
        /\ tospace = [base |-> t, len |-> InitialWords]
        /\ fromspace = IF y THEN [base |-> NULL, len |-> 0]
                       ELSE [base |-> f, len |-> InitialWords]
        /\ free = tospace
        /\ bitmap = GC_init_bitmap(InitialWords)
        /\ frombitmap = GC_init_bitmap(IF y THEN 0 ELSE InitialWords)
        /\ pc = "run" /\ grow = NoGrow /\ request = 0 /\ tooSmall = FALSE
        /\ hmeans = [w \in 0 .. Memory |-> Nothing]

-----------------------------------------------------------------------------
(* The program, as far as it matters here: it makes pointers into the      *)
(* objects of the region and stores pointers into them.                    *)

Point(c, w) ==
    /\ pc = "run" /\ w < Used
    /\ cell' = [cell EXCEPT ![c] = tospace.base + w]
    /\ means' = [means EXCEPT ![c] = w]
    /\ UNCHANGED <<heap, region, pc, grow, request, tooSmall, hmeans>>

Store(w, c) ==
    /\ pc = "run" /\ w < Used
    /\ mem' = [mem EXCEPT ![tospace.base + w] = cell[c]]
    /\ hmeans' = [hmeans EXCEPT ![w] = means[c]]
    /\ UNCHANGED <<live, table, cell, region, pc, grow, request, tooSmall, means>>

-----------------------------------------------------------------------------
(* GC_low_realloc2.                                                        *)

Entries(ptr) == {i \in 1 .. Len(table) : table[i].ptr = ptr}

(* f after n words were copied from s to d.                                *)
CopyWords(f, s, d, n) ==
    [a \in Addresses |-> IF a \in d .. (d + n - 1) THEN f[s + (a - d)] ELSE f[a]]

(* Defect: the table keeps the length that the block had before.           *)
NewEntryKeepsLength(old, p, n) == [ptr |-> p, len |-> old.len]

(* GC_add_to_alloc_list(p, n, ptr) overwrites the entry of ptr, even when  *)
(* p is NULL because malloc failed.                                        *)
NewEntry(old, p, n) == [ptr |-> p, len |-> n]

(* The reallocation of ptr to n words, where malloc gave p.                *)
GC_low_realloc(ptr, n, p) ==
    LET i == CHOOSE j \in Entries(ptr) : TRUE IN
    /\ table' = [table EXCEPT ![i] = NewEntry(table[i], p, n)]
    /\ live' = IF p = NULL THEN live
               ELSE {b \in live : b.ptr # ptr} \cup {[ptr |-> p, len |-> n]}
    /\ mem' = IF p = NULL THEN mem ELSE CopyWords(mem, ptr, p, table[i].len)

-----------------------------------------------------------------------------
(* GC_grow.                                                                *)

(* min(max(double, hint), max).                                            *)
NewSize(old, hint, max) ==
    LET wanted == Maximum(2 * old, old + hint) IN
    IF max = 0 THEN wanted ELSE Minimum(wanted, max)

(* The call GC_grow(region, hint, max).                                    *)
GC_grow(hint, max, back) ==
    \/ /\ max # 0 /\ tospace.len >= max
       /\ pc' = back /\ tooSmall' = TRUE
       /\ UNCHANGED grow
    \/ /\ max = 0 \/ tospace.len < max
       /\ grow' = [hint |-> hint, old |-> tospace.len,
                   new |-> NewSize(tospace.len, hint, max),
                   from |-> NULL, to |-> NULL, back |-> back]
       /\ pc' = IF young THEN "tospace" ELSE "fromspace"
       /\ UNCHANGED tooSmall

(* Doubling is more than what is required: GC_grow tries again with that.  *)
(* The failed attempt has put NULL in the place of the address in the      *)
(* table, so that GC_low_realloc ends the program: "Could not find entry". *)
CanRetry == grow.new > grow.old + grow.hint

(* GC_grow's use of GC_low_realloc.                                        *)
GrowFromspace ==
    /\ pc = "fromspace"
    /\ \E p \in Malloc(grow.new + Padding) :
          /\ GC_low_realloc(fromspace.base, grow.new + Padding, p)
          /\ grow' = [grow EXCEPT !.from = p]
          /\ pc' = IF p = NULL /\ CanRetry THEN "no_entry" ELSE "tospace"
    /\ UNCHANGED <<cell, region, request, tooSmall, history>>

(* A tospace that is NULL is rebased as well: the read of address 0 ends   *)
(* the program.                                                            *)
GrowTospace ==
    /\ pc = "tospace"
    /\ \E p \in Malloc(grow.new + Padding) :
          /\ GC_low_realloc(tospace.base, grow.new + Padding, p)
          /\ grow' = [grow EXCEPT !.to = p]
          /\ pc' = CASE p # NULL -> "finish"
                     [] p = NULL /\ CanRetry -> "no_entry"
                     [] OTHER -> "null_read"
    /\ UNCHANGED <<cell, region, request, tooSmall, history>>

(* There is no memory for the larger bitmap (which has memory of its own). *)
GC_fatalf ==
    /\ pc = "finish" /\ pc' = "fatal"
    /\ UNCHANGED <<heap, cell, region, grow, request, tooSmall, history>>

(* Defect: pointers are not changed.                                       *)
RebasedNot(v, old, size, new) == v

(* GC_rebase on one word.  The end of the old space counts as inside.      *)
Rebased(v, old, size, new) ==
    IF v # NULL /\ old <= v /\ v <= old + size THEN v - old + new ELSE v

(* GC_region_rebase: the stack, the registers, the static data and the     *)
(* remembered words (Cells), and all of the new space.                     *)
GC_region_rebase(oldBase, oldSize, newBase, newSize) ==
    /\ cell' = [c \in Cells |-> Rebased(cell[c], oldBase, oldSize, newBase)]
    /\ mem' = [a \in Addresses |->
                  IF a \in newBase .. (newBase + newSize - 1)
                  THEN Rebased(mem[a], oldBase, oldSize, newBase) ELSE mem[a]]

(* Defect: the free pointer still ends where the old space did.            *)
GrownFreeKeepsLength ==
    [base |-> free.base - tospace.base + grow.to, len |-> free.len]

(* The free pointer in the new space, extended by what was gained.         *)
GrownFree ==
    [base |-> free.base - tospace.base + grow.to,
     len |-> free.len + grow.new - grow.old]

(* Defect: any growth counts as enough.                                    *)
GrewAtAll == grow.new > grow.old

(* What GC_grow returns.                                                   *)
GrewEnough == grow.new >= grow.old + grow.hint

(* The rest of GC_grow: the new spaces, the bitmaps, the free pointer, and *)
(* GC_region_rebase.  malloc never returns the address of a block that is  *)
(* still in use, so the tospace has moved.                                 *)
FinishGrow ==
    /\ pc = "finish"
    /\ fromspace' = [base |-> grow.from, len |-> grow.new]
    /\ tospace' = [base |-> grow.to, len |-> grow.new]
    /\ bitmap' = GC_grow_bitmap(bitmap, grow.new)
    /\ frombitmap' = IF young THEN frombitmap
                     ELSE GC_grow_bitmap(frombitmap, grow.new)
    /\ free' = GrownFree
    /\ GC_region_rebase(tospace.base, grow.old, grow.to, grow.new)
    /\ tooSmall' = ~GrewEnough
    /\ pc' = grow.back /\ grow' = NoGrow
    /\ UNCHANGED <<young, live, table, request, history>>

-----------------------------------------------------------------------------
(* The callers.                                                            *)

(* Place an object at the free pointer: the end of GC_malloc_region, or    *)
(* GC_copy_object for the old region.                                      *)
Place(n) ==
    /\ free' = [base |-> free.base + n, len |-> free.len - n]
    /\ bitmap' = GC_bitmap_allocate(bitmap, n)
    /\ mem' = [mem EXCEPT ![free.base] = NULL]
    /\ hmeans' = [w \in DOMAIN hmeans |->
                     IF w \in Used .. (Used + n - 1) THEN Nothing ELSE hmeans[w]]
    /\ request' = 0 /\ tooSmall' = FALSE
    /\ UNCHANGED <<live, table, cell, young, tospace, fromspace, frombitmap, grow, means>>

(* GC_malloc_region(sz) when sz fits.  (The old region: GC_copy_object.)   *)
GC_malloc(sz) ==
    /\ pc = "run" /\ sz <= free.len
    /\ Place(sz)
    /\ UNCHANGED pc

(* GC_malloc_region(sz) when sz does not fit: grow before collecting.      *)
MallocGrow(sz) ==
    /\ young /\ pc = "run" /\ sz > free.len
    /\ request' = sz
    /\ GC_grow(sz, YoungMaxBefore, "grown_before")
    /\ UNCHANGED <<heap, cell, region, history>>

(* No growth was enough, so GC_collect_region is called.  It empties the   *)
(* region, and its objects and the pointers to them are in the old one     *)
(* then, or it leaves all as it is when the old one has too little room.   *)
MallocCollect ==
    /\ pc = "grown_before" /\ tooSmall
    /\ \/ UNCHANGED <<cell, free, bitmap, history>>
       \/ /\ free' = tospace
          /\ bitmap' = GC_bitmap_clr(bitmap)
          /\ cell' = [c \in Cells |-> IF means[c] = Elsewhere THEN cell[c] ELSE NULL]
          /\ means' = [c \in Cells |->
                          IF means[c] = Elsewhere THEN Elsewhere ELSE Nothing]
          /\ hmeans' = [w \in DOMAIN hmeans |-> Nothing]
    /\ pc' = "collected"
    /\ UNCHANGED <<heap, young, tospace, fromspace, frombitmap, grow, request, tooSmall>>

(* After the collection: place the object, or grow once more.              *)
MallocRetry ==
    /\ pc = "collected"
    /\ \/ request <= free.len /\ Place(request) /\ pc' = "run"
       \/ /\ request > free.len
          /\ GC_grow(request, YoungMax, "grown_after")
          /\ UNCHANGED <<heap, cell, region, request, history>>

(* The end: GC_malloc_region believes what GC_grow returned.               *)
MallocEnd ==
    /\ \/ /\ pc \in {"grown_before", "grown_after"} /\ ~tooSmall
          /\ Place(request)
       \/ /\ pc = "grown_after" /\ tooSmall
          /\ request' = 0 /\ tooSmall' = FALSE
          /\ UNCHANGED <<heap, cell, region, grow, history>>
    /\ pc' = "run"

(* A collection of the old region: the spaces and the bitmaps change their *)
(* places, and the objects are copied.  Here all of them are reachable,    *)
(* and are found in the order in which they lie (GCCollect has the rest).  *)
GC_collect_region ==
    LET Forwarded(v) ==
            IF tospace.base <= v /\ v < free.base
            THEN v - tospace.base + fromspace.base ELSE v
        copied == CopyWords(mem, tospace.base, fromspace.base, Used) IN
    /\ ~young /\ pc = "run"
    /\ tospace' = fromspace /\ fromspace' = tospace
    /\ bitmap' = [GC_bitmap_clr(frombitmap) EXCEPT !.used = bitmap.used,
                                                   !.map = bitmap.map]
    /\ frombitmap' = bitmap
    /\ free' = [base |-> fromspace.base + Used, len |-> fromspace.len - Used]
    /\ cell' = [c \in Cells |-> Forwarded(cell[c])]
    /\ mem' = [a \in Addresses |->
                  IF a \in fromspace.base .. (fromspace.base + Used - 1)
                  THEN Forwarded(copied[a]) ELSE mem[a]]
    /\ UNCHANGED <<young, live, table, pc, grow, request, tooSmall, history>>

(* The end of GC_gen_promote: the old region is still above the watermark  *)
(* (one half) after it was collected.                                      *)
PromoteGrow ==
    /\ ~young /\ pc = "run" /\ 2 * free.len < tospace.len
    /\ GC_grow(free.len, OldMax, "run")
    /\ UNCHANGED <<heap, cell, region, request, history>>

Next ==
    \/ \E c \in Cells, w \in 0 .. Memory : Point(c, w) \/ Store(w, c)
    \/ \E sz \in Sizes : GC_malloc(sz) \/ MallocGrow(sz)
    \/ GC_collect_region \/ PromoteGrow
    \/ GrowFromspace \/ GrowTospace \/ FinishGrow \/ GC_fatalf
    \/ MallocCollect \/ MallocRetry \/ MallocEnd

Spec == Init /\ [][Next]_vars

-----------------------------------------------------------------------------
(* Properties.                                                             *)

Settled == pc \in {"run", "grown_before", "grown_after", "collected"}

Spaces == {tospace} \cup (IF young THEN {} ELSE {fromspace})

(* The region's capabilities fit together after every growth: the free     *)
(* pointer is in the tospace and reaches to its end, and the bitmaps have  *)
(* an entry for each word and as many in use as the free pointer passed    *)
(* (gc_low.c:452-468, 492).                                                *)
RegionConsistent ==
    Settled =>
        /\ free.base + free.len = tospace.base + tospace.len
        /\ Used \in 0 .. tospace.len
        /\ bitmap.size = tospace.len /\ bitmap.used = Used
        /\ ~young => frombitmap.size = fromspace.len

(* Each space of the region has a block that malloc has not taken back,    *)
(* apart from the other's, and the table has its length, which is what the *)
(* next GC_low_realloc copies.                                             *)
RegionBacked ==
    Settled =>
        /\ \A space \in Spaces :
              /\ BlockOf(space.base, space.len) \in live
              /\ \E i \in DOMAIN table : table[i] = BlockOf(space.base, space.len)
        /\ ~young => tospace.base # fromspace.base

Denotes(v, m) ==
    CASE m = Nothing -> TRUE
      [] m = Elsewhere -> v # NULL /\ \E b \in live : b.len = 1 /\ b.ptr = v
      [] OTHER -> v = tospace.base + m

(* When the tospace moves, every pointer into it, wherever it is, follows; *)
(* a pointer to anything else is left alone (GC_region_rebase).            *)
PointersFollow ==
    Settled =>
        /\ \A c \in Cells : Denotes(cell[c], means[c])
        /\ \A w \in 0 .. (Used - 1) : Denotes(mem[tospace.base + w], hmeans[w])

(* GC_malloc_region places an object only where there is room for it.      *)
PlacesFit ==
    pc \in {"grown_before", "grown_after"} /\ ~tooSmall => request <= free.len

-----------------------------------------------------------------------------
(* What comments and assertions say, and the code does not do.             *)

(* "doubling failed; try allocating only what is required"                 *)
(* (gc_low.c:396, 417): the program ends there instead.                    *)
SecondAttemptPossible == pc # "no_entry"
=============================================================================
