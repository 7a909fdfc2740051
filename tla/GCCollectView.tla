---------------------------- MODULE GCCollectView ----------------------------
(***************************************************************************)
(* GCCollect implements ProgramHeap.                                       *)
(*                                                                         *)
(* Three history variables give the words of memory names that stay the    *)
(* same when their objects are moved, and record what the program sees     *)
(* under these names.  While a collection or a GC_memcpy runs, the program *)
(* sees nothing.                                                           *)
(***************************************************************************)
EXTENDS GCCollect

CONSTANT Unknown     \* what the program sees of a word it may not rely on

Pointers == [obj : Nat, off : Nat, part : Nat, len : Nat]

ASSUME ViewAssumption ==
    Null \notin Pointers /\ Unknown \notin Pointers /\ Null # Unknown

VARIABLES
    name,       \* of each word, when the program last saw it: the number of
                \* its object and its index there
    count,      \* the number of objects allocated so far
    seen        \* the roots and the heap as the program last saw them

Heap == INSTANCE ProgramHeap
            WITH root <- seen.root, heap <- seen.heap, Lengths <- 1 .. YoungWords

seenVars == <<vars, name, count, seen>>

(* What the program would see of a pointer to freed memory.                *)
Dangling == Heap!Pointer(0, 0, 0, 0)

(* What the program sees of a word that holds cap.                         *)
Value(isKnown, cap) ==
    IF ~isKnown THEN Unknown
    ELSE IF cap = Null THEN Null
    ELSE IF ~ValidPointer(cap) THEN Dangling
    ELSE Heap!Pointer(name[WordOf(cap)][1], name[WordOf(cap)][2],
                      cap.base % WordBytes, AlignWords(cap.len))

Names == {name[w] : w \in AllocatedWords}
WordNamed(f) == CHOOSE w \in AllocatedWords : name[w] = f

Sight ==
    [root |-> [r \in Roots |-> Value(kroot[r], root[r])],
     heap |-> [f \in Names |-> Value(known[WordNamed(f)], mem[WordNamed(f)])]]

SeenInit ==
    /\ Init
    /\ name = [w \in Words |-> <<0, 0>>] /\ count = 0
    /\ seen = Sight

(* GC_malloc has taken words off the free space: a new object.             *)
NameObject ==
    /\ yfree' > yfree
    /\ count' = count + 1
    /\ name' = [w \in Words |->
                   IF w \in (YoungBase + yfree) .. (YoungBase + yfree' - 1)
                   THEN <<count + 1, w - (YoungBase + yfree)>> ELSE name[w]]

(* At the end of a collection, the copies get the names of the originals.  *)
KeepNames ==
    /\ yfree' <= yfree
    /\ UNCHANGED count
    /\ name' = IF stage # "none" /\ stage' = "none"
               THEN [w \in Words |-> name[orig[w]]] ELSE name

(* GC_malloc, too, sees the heap between a collection and its second       *)
(* attempt.                                                                *)
Observe ==
    /\ NameObject \/ KeepNames
    /\ seen' = IF pc' \in {"run", "retry"} THEN Sight' ELSE seen

SeenNext == Next /\ Observe

SeenSpec == SeenInit /\ [][SeenNext]_seenVars

(* The program cannot tell that its objects are moved: every operation     *)
(* does to what it sees what it does in ProgramHeap, GC_malloc too when    *)
(* GC_malloc_region collects, and a collection (GC_collect_region) only    *)
(* takes away what the program cannot reach.                               *)
ImplementsProgramHeap ==
    /\ Heap!Spec
    /\ [][stage # "none" => \E S \in SUBSET DOMAIN seen.heap : Heap!Collect(S)]_seen
=============================================================================
