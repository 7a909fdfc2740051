------------------------------- MODULE GCInit -------------------------------
(***************************************************************************)
(* The memory of the library itself: GC_init2, which allocates the blocks  *)
(* of the two regions and may fail at each of them and be called again;    *)
(* the allocation table, in which GC_low_realloc looks a block up by its   *)
(* address; the array of the remembered set, which doubles; and the        *)
(* growth of the regions, as far as it reallocates (GCGrow has the rest).  *)
(*                                                                         *)
(* Lengths are in bytes.  Address 0 is NULL.  What matters of an address   *)
(* is which block has it, and that malloc gives the address of a freed     *)
(* block to a later one.                                                   *)
(***************************************************************************)
EXTENDS Integers, Sequences, FiniteSets, FiniteSetsExt, Functions

CONSTANTS
    YoungWords,     \* GC_THREAD_LOCAL_HEAP_SIZE, in words of 32 bytes
    OldWords,       \* GC_OLD_GENERATION_SEMISPACE_SIZE
    Sizes,          \* the sizes, in words, to which a region may grow
    RemsetSize,     \* the initial size of the remembered set's array, 1024
    MaxEntries,     \* GC_MAX_ALLOC_ENTRY
    Blocks,         \* the number of blocks that malloc has
    Words,          \* the addresses that the write barrier adds
    Garbage         \* what malloc's blocks hold

NULL == 0

(* The fields of GC_state that point to a block, in the order in which     *)
(* GC_init2 allocates them.                                                *)
OldFields == <<"old.tospace", "old.fromspace", "old.tospace_bitmap",
               "old.tospace_map", "old.fromspace_bitmap", "old.fromspace_map">>
YoungFields == <<"young.tospace", "young.tospace_bitmap", "young.tospace_map",
                 "young.remset", "young.roots">>
InitOrder == OldFields \o YoungFields
Fields == Range(InitOrder)

Spaces == {"old.tospace", "old.fromspace", "young.tospace"}
Maps == {"old.tospace_map", "old.fromspace_map", "young.tospace_map"}

RegionOf(f) == IF f \in Range(OldFields) THEN "old" ELSE "young"

(* What GC_grow reallocates, in this order.                                *)
GrowOrder == [old |-> <<"old.fromspace", "old.tospace", "old.tospace_map",
                        "old.fromspace_map">>,
              young |-> <<"young.tospace", "young.tospace_map">>]

PointerBytes == 8
StructBytes == 24   \* sizeof(struct GC_bitmap), sizeof(struct GC_remembered_set)

(* The table has room for what one call of GC_init2 allocates, and one     *)
(* entry more.                                                             *)
ASSUME InitAssumption ==
    /\ YoungWords \in Nat \ {0} /\ OldWords \in Nat \ {0} /\ Sizes \subseteq Nat
    /\ RemsetSize \in Nat \ {0}
    /\ MaxEntries \in Nat /\ MaxEntries > Len(InitOrder)
    /\ Blocks \in Nat
    /\ NULL \notin Words /\ Garbage \notin Words \cup {NULL}

VARIABLES
    live,           \* malloc's blocks that are in use: address -> [len, data]
    table,          \* GC_alloc_table, up to GC_alloc_index: [ptr, len]
    field,          \* the pointers of GC_state
    words,          \* the sizes of the two regions
    remset,         \* the remembered set's nroots and size
    initialized,    \* GC_state.initialized
    pc,
    todo,           \* the fields that are still to be (re)allocated
    goal,           \* GC_grow: the region, and new_size
    failed          \* history: has a call of GC_init2 returned an error?

memory == <<live, table>>
vars == <<memory, field, words, remset, initialized, pc, todo, goal, failed>>

NoGoal == [region |-> "young", words |-> 0]

Init ==
    /\ live = <<>> /\ table = <<>>
    /\ field = [f \in Fields |-> NULL]
    /\ words = [old |-> OldWords, young |-> YoungWords]
    /\ remset = [nroots |-> 0, size |-> 0]
    /\ initialized = FALSE
    /\ pc = "run" /\ todo = <<>> /\ goal = NoGoal /\ failed = FALSE

-----------------------------------------------------------------------------
(* malloc and the allocation table.                                        *)

(* What malloc may return: NULL, the address of a block that was freed, or *)
(* an address that it has not used yet (any of them: the first).           *)
Malloc ==
    LET used == DOMAIN live
        top == IF used = {} THEN 0 ELSE Max(used) IN
    {NULL} \cup {p \in 1 .. Blocks : p \notin used /\ p <= top + 1}

Block(n) == [len |-> n, data |-> [i \in 1 .. (n \div PointerBytes) |-> Garbage]]

WithBlock(m, p, block) == [q \in DOMAIN m \cup {p} |-> IF q = p THEN block ELSE m[q]]

Entry(p, n) == [ptr |-> p, len |-> n]

Entries(ptr) == {i \in DOMAIN table : table[i].ptr = ptr}

(* "Too many allocation entries!": GC_add_to_alloc_list ends the program,  *)
(* whatever it was called for.                                             *)
Full == Len(table) = MaxEntries

(* GC_low_malloc(n) when malloc returns p.  A block for which there is no  *)
(* memory has no entry.                                                    *)
GC_low_malloc(n, p) ==
    /\ live' = IF p = NULL THEN live ELSE WithBlock(live, p, Block(n))
    /\ table' = IF p = NULL \/ Full THEN table ELSE Append(table, Entry(p, n))

(* Defect: the reallocated block gets an entry of its own.                 *)
GC_add_to_alloc_listAppended(p, n, i) == Append(table, Entry(p, n))

(* Defect: the entry keeps the length that the block had before.           *)
GC_add_to_alloc_listKeepsLength(p, n, i) == [table EXCEPT ![i].ptr = p]

(* GC_add_to_alloc_list(p, n, ptr) for the ptr of the i-th entry, which it *)
(* overwrites even when p is NULL.                                         *)
GC_add_to_alloc_list(p, n, i) == [table EXCEPT ![i] = Entry(p, n)]

(* Defect: the larger block is empty.                                      *)
CopiedNothing(old, len, n) == Block(n).data

(* memcpy of the len bytes of the block old into one of n bytes.           *)
Copied(old, len, n) ==
    [k \in 1 .. (n \div PointerBytes) |->
        IF k <= len \div PointerBytes THEN old.data[k] ELSE Garbage]

(* GC_low_realloc(ptr, n) when malloc returns p, for a ptr that the table  *)
(* has: the blocks and the table then.  (If the table is full the program  *)
(* ends, and it does not matter what they are.)                            *)
GC_low_realloc(ptr, n, p) ==
    LET i == Min(Entries(ptr))
        block == [len |-> n, data |-> Copied(live[ptr], table[i].len, n)] IN
    [live |-> IF p = NULL \/ Full THEN live
              ELSE WithBlock(Restrict(live, DOMAIN live \ {ptr}), p, block),
     table |-> IF Full THEN table ELSE GC_add_to_alloc_list(p, n, i)]

(* How the program ends in the reallocation of ptr, if it does.  No caller *)
(* goes on without the memory: GC_remembered_set_add and a GC_grow whose   *)
(* bitmap cannot grow call GC_fatalf, and GC_grow for a space either tries *)
(* again, and does not find the entry, or uses the NULL.                   *)
AfterRealloc(ptr, p, otherwise) ==
    CASE Entries(ptr) = {} -> "no_entry"
      [] Entries(ptr) # {} /\ Full -> "too_many_entries"
      [] Entries(ptr) # {} /\ ~Full /\ p = NULL -> "no_memory"
      [] OTHER -> otherwise

-----------------------------------------------------------------------------
(* GC_init2.                                                               *)

(* GC_BITMAP_BITS_TO_BYTES.                                                *)
MapBytes(n) == (n + 7) \div 8

(* The length of the block of field f in a region of n words.              *)
Length(f, n) ==
    CASE f \in Spaces -> 32 * n + 32
      [] f \in Maps -> MapBytes(n)
      [] f = "young.roots" -> RemsetSize * PointerBytes
      [] OTHER -> StructBytes

(* GC_init_constructor before main(), and every GC_init() of the program.  *)
(* It does nothing once a call has succeeded.                              *)
GC_init2 ==
    /\ pc = "run" /\ ~initialized
    /\ pc' = "init" /\ todo' = InitOrder
    /\ words' = [old |-> OldWords, young |-> YoungWords]
    /\ UNCHANGED <<memory, field, remset, initialized, goal, failed>>

(* Defect: a failure is not noticed, except by GC_remembered_set_init.     *)
AfterMallocUnchecked(f, p) ==
    CASE Full -> "too_many_entries"
      [] ~Full /\ p = NULL /\ f = "young.roots" -> "no_memory"
      [] OTHER -> "init"

(* After the allocation for f: GC_init2 returns 1 if there is no memory    *)
(* for it, but GC_remembered_set_init ends the program.                    *)
AfterMalloc(f, p) ==
    CASE Full -> "too_many_entries"
      [] ~Full /\ p = NULL /\ f = "young.roots" -> "no_memory"
      [] ~Full /\ p = NULL /\ f # "young.roots" -> "run"
      [] OTHER -> "init"

(* One of the allocations of GC_init_old_region and GC_init_young_region,  *)
(* with GC_init_bitmap and GC_remembered_set_init.  The field of a space   *)
(* is not set if there is no memory, the others are NULL then.             *)
InitField ==
    /\ pc = "init" /\ todo # <<>>
    /\ \E p \in Malloc :
          LET f == Head(todo) IN
          /\ GC_low_malloc(Length(f, words[RegionOf(f)]), p)
          /\ field' = IF p = NULL /\ f \in Spaces THEN field
                      ELSE [field EXCEPT ![f] = p]
          /\ remset' = IF f = "young.roots" THEN [nroots |-> 0, size |-> RemsetSize]
                       ELSE remset
          /\ pc' = AfterMalloc(f, p)
    /\ todo' = IF pc' = "init" THEN Tail(todo) ELSE <<>>
    /\ failed' = (failed \/ pc' = "run")
    /\ UNCHANGED <<words, initialized, goal>>

(* GC_get_stack_bottom and GC_get_static_bottom, whose system calls may    *)
(* fail.  GC_state.initialized is set when nothing did.                    *)
FinishInit ==
    /\ pc = "init" /\ todo = <<>>
    /\ pc' = "run"
    /\ \/ initialized' = TRUE /\ UNCHANGED failed
       \/ failed' = TRUE /\ UNCHANGED initialized
    /\ UNCHANGED <<memory, field, words, remset, todo, goal>>

(* A program that did not look at what GC_init returned: GC_malloc and     *)
(* GC_collect call GC_fatalf.                                              *)
NotInitialized ==
    /\ pc = "run" /\ ~initialized
    /\ pc' = "not_initialized"
    /\ UNCHANGED <<memory, field, words, remset, initialized, todo, goal, failed>>

-----------------------------------------------------------------------------
(* GC_remembered_set_add and GC_remembered_set_clr, on GC_state's set.     *)

Roots == live[field["young.roots"]].data

(* Where GC_remembered_set_add stops looking: x, or an empty slot.         *)
Hits(x) == {i \in 1 .. remset.nroots : Roots[i] \in {x, NULL}}

WithRoot(m, p, i, x) ==
    [m EXCEPT ![p] = [len |-> m[p].len, data |-> [m[p].data EXCEPT ![i] = x]]]

(* x is there already, or takes the place of a NULL.                       *)
AddFound(x) ==
    /\ pc = "run" /\ initialized /\ Hits(x) # {}
    /\ live' = WithRoot(live, field["young.roots"], Min(Hits(x)), x)
    /\ UNCHANGED <<table, field, words, remset, initialized, pc, todo, goal, failed>>

HasSlot == remset.nroots + 1 <= remset.size

AddAppend(x) ==
    /\ pc = "run" /\ initialized /\ Hits(x) = {} /\ HasSlot
    /\ remset' = [remset EXCEPT !.nroots = @ + 1]
    /\ live' = WithRoot(live, field["young.roots"], remset'.nroots, x)
    /\ UNCHANGED <<table, field, words, initialized, pc, todo, goal, failed>>

(* The array is full: it is doubled first.                                 *)
AddGrow(x) ==
    LET ptr == field["young.roots"]
        size == IF remset.size = 0 THEN 1 ELSE 2 * remset.size IN
    /\ pc = "run" /\ initialized /\ Hits(x) = {} /\ ~HasSlot
    /\ \E p \in Malloc :
          LET next == GC_low_realloc(ptr, size * PointerBytes, p) IN
          /\ pc' = AfterRealloc(ptr, p, "run")
          /\ \/ /\ pc' = "run"
                /\ remset' = [nroots |-> remset.nroots + 1, size |-> size]
                /\ field' = [field EXCEPT !["young.roots"] = p]
                /\ live' = WithRoot(next.live, p, remset'.nroots, x)
                /\ table' = next.table
             \/ pc' # "run" /\ UNCHANGED <<memory, field, remset>>
    /\ UNCHANGED <<words, initialized, todo, goal, failed>>

(* GC_gen_promote has copied what the set led to.                          *)
GC_remembered_set_clr ==
    /\ pc = "run" /\ initialized
    /\ remset' = [remset EXCEPT !.nroots = 0]
    /\ UNCHANGED <<memory, field, words, initialized, pc, todo, goal, failed>>

-----------------------------------------------------------------------------
(* GC_grow for a region without a maximal size: it at least doubles.       *)

GC_grow(r, n) ==
    /\ pc = "run" /\ initialized /\ n >= 2 * words[r]
    /\ pc' = "grow" /\ todo' = GrowOrder[r]
    /\ goal' = [region |-> r, words |-> n]
    /\ UNCHANGED <<memory, field, words, remset, initialized, failed>>

GrowField ==
    LET f == Head(todo) ptr == field[f] IN
    /\ pc = "grow" /\ todo # <<>>
    /\ \E p \in Malloc :
          LET next == GC_low_realloc(ptr, Length(f, goal.words), p) IN
          /\ pc' = AfterRealloc(ptr, p, "grow")
          /\ \/ /\ pc' = "grow"
                /\ live' = next.live /\ table' = next.table
                /\ field' = [field EXCEPT ![f] = p]
                /\ todo' = Tail(todo)
             \/ pc' # "grow" /\ UNCHANGED <<memory, field, todo>>
    /\ UNCHANGED <<words, remset, initialized, goal, failed>>

FinishGrow ==
    /\ pc = "grow" /\ todo = <<>>
    /\ words' = [words EXCEPT ![goal.region] = goal.words]
    /\ pc' = "run" /\ goal' = NoGoal
    /\ UNCHANGED <<memory, field, remset, initialized, todo, failed>>

Next ==
    \/ GC_init2 \/ InitField \/ FinishInit \/ NotInitialized
    \/ \E x \in Words : AddFound(x) \/ AddAppend(x) \/ AddGrow(x)
    \/ GC_remembered_set_clr
    \/ \E r \in {"old", "young"}, n \in Sizes : GC_grow(r, n)
    \/ GrowField \/ FinishGrow

Spec == Init /\ [][Next]_vars

-----------------------------------------------------------------------------
(* Properties.                                                             *)

Required(f) ==
    IF f = "young.roots" THEN remset.size * PointerBytes
    ELSE Length(f, words[RegionOf(f)])

(* Whatever failed before, and however the regions and the array have      *)
(* grown since: while GC_state.initialized is set each pointer of GC_state *)
(* has a block of its own that malloc has not taken back, as long as the   *)
(* size next to the pointer says (gc_init.c:22-294, gc_remset.c:42-53).    *)
StateBacked ==
    pc = "run" /\ initialized =>
        /\ \A f \in Fields : field[f] \in DOMAIN live
                             /\ live[field[f]].len = Required(f)
        /\ \A f, g \in Fields : field[f] = field[g] => f = g

(* The table is what GC_low_realloc trusts when it looks for an address    *)
(* and copies len bytes: it has each of malloc's blocks once, with its     *)
(* length, and none that was freed, although malloc uses the addresses of  *)
(* freed blocks again (gc_low.c:25-76, 106-135).                           *)
TableExact ==
    pc \in {"run", "init", "grow"} =>
        /\ \A i, j \in DOMAIN table : table[i].ptr = table[j].ptr => i = j
        /\ {table[i] : i \in DOMAIN table} = {Entry(p, live[p].len) : p \in DOMAIN live}

(* No number of growths fills the table: the program ends with "Too many   *)
(* allocation entries!" only if GC_init2 failed before, left its blocks    *)
(* behind and was called again (gc_low.c:21).                              *)
FullOnlyAfterFailure == pc = "too_many_entries" => failed

(* The array, as far as it is in use, is the list of the addresses that    *)
(* were added since the last collection: none is lost or doubled when the  *)
(* array moves, and none is written where the array has no slot.           *)
Remembered == IF remset.nroots = 0 THEN <<>> ELSE SubSeq(Roots, 1, remset.nroots)

Set == INSTANCE RememberedSet WITH remset <- Remembered

ImplementsRememberedSet == Set!Spec
=============================================================================
