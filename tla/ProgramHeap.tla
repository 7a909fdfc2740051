----------------------------- MODULE ProgramHeap -----------------------------
(***************************************************************************)
(* What the library promises to a program: a heap of objects with fields,  *)
(* which live for as long as the program can reach them.  There are no     *)
(* addresses and no generations, and nothing ever moves.                   *)
(*                                                                         *)
(* Objects are numbered in the order in which they are allocated.  A field *)
(* has the size of a capability; its name is <<object, index>>.  A root or *)
(* a field holds Null, a pointer, or Unknown: nothing that the program may *)
(* rely on.  A pointer points to the byte `part' of field off of an        *)
(* object, and its bounds take up len fields.  How many bytes they have,   *)
(* the library does not promise: pointers to the same object may all get   *)
(* the length of one of them.                                              *)
(***************************************************************************)
EXTENDS Integers

CONSTANTS
    NRoots,         \* number of roots
    Lengths,        \* numbers of fields
    Offsets,        \* distances, in bytes, of interior pointers
    WordBytes,      \* size of a field
    Null,
    Unknown

VARIABLES
    root,           \* the values of the roots
    heap,           \* the values of the fields
    count           \* the number of objects allocated so far

vars == <<root, heap, count>>

Roots == 1 .. NRoots

Pointer(obj, off, part, len) ==
    [obj |-> obj, off |-> off, part |-> part, len |-> len]

IsPointer(v) == v # Null /\ v # Unknown

(* Field k, counted from 0, of what pointer p points to, and all of them.  *)
Field(p, k) == <<p.obj, p.off + k>>
Fields(p) == {Field(p, k) : k \in 0 .. (p.len - 1)}

(* The pointer points to n whole fields at least.                          *)
PointsTo(p, n) == IsPointer(p) /\ p.part = 0 /\ n <= p.len

(* The number of fields that n bytes take up.                              *)
FieldsOf(n) == (n + (WordBytes - 1)) \div WordBytes

-----------------------------------------------------------------------------
Init ==
    /\ root = [r \in Roots |-> Null]
    /\ heap = [f \in {} |-> Unknown]
    /\ count = 0

Assign(r, v) ==
    /\ root' = [root EXCEPT ![r] = v]
    /\ UNCHANGED <<heap, count>>

(* The fields of a new object may hold anything.                           *)
Alloc(r, n) ==
    /\ count' = count + 1
    /\ root' = [root EXCEPT ![r] = Pointer(count', 0, 0, n)]
    /\ heap' = [f \in DOMAIN heap \cup ({count'} \X (0 .. (n - 1))) |->
                   IF f \in DOMAIN heap THEN heap[f] ELSE Unknown]

(* A pointer offset bytes further into the same object.                    *)
Derive(r, r2, offset) ==
    LET p == root[r]
        at == p.part + offset IN
    /\ IsPointer(p)
    /\ \E bytes \in 1 .. (WordBytes * p.len) :
          LET q == Pointer(p.obj, p.off + at \div WordBytes, at % WordBytes,
                           FieldsOf(bytes - offset)) IN
          /\ FieldsOf(bytes) = p.len /\ offset < bytes
          /\ Fields(q) \subseteq DOMAIN heap
          /\ Assign(r2, q)

Load(r, k, r2) ==
    /\ PointsTo(root[r], k + 1)
    /\ heap[Field(root[r], k)] # Unknown
    /\ Assign(r2, heap[Field(root[r], k)])

Store(r, k, v) ==
    /\ PointsTo(root[r], k + 1) /\ v # Unknown
    /\ heap' = [heap EXCEPT ![Field(root[r], k)] = v]
    /\ UNCHANGED <<root, count>>

(* The n fields at root r are copied to those at r2, unknown ones as well. *)
Copy(r2, r, n) ==
    LET s == root[r]
        d == root[r2] IN
    /\ PointsTo(s, n) /\ PointsTo(d, n)
    /\ heap' = [f \in DOMAIN heap |->
                   IF \E k \in 0 .. (n - 1) : f = Field(d, k)
                   THEN heap[Field(s, f[2] - d.off)] ELSE heap[f]]
    /\ UNCHANGED <<root, count>>

(* The program gives up the fields in S, and with them its pointers there. *)
Free(S) ==
    LET Lose(v) == IF IsPointer(v) /\ Fields(v) \cap S # {} THEN Unknown ELSE v IN
    /\ root' = [r \in Roots |-> Lose(root[r])]
    /\ heap' = [f \in DOMAIN heap \ S |-> Lose(heap[f])]
    /\ UNCHANGED count

(* The fields in S are gone.  No root and no other field leads to them.    *)
Collect(S) ==
    /\ \A r \in Roots : IsPointer(root[r]) => Fields(root[r]) \cap S = {}
    /\ \A f \in DOMAIN heap \ S : IsPointer(heap[f]) => Fields(heap[f]) \cap S = {}
    /\ heap' = [f \in DOMAIN heap \ S |-> heap[f]]
    /\ UNCHANGED <<root, count>>

Next ==
    \/ \E r \in Roots :
          \/ Assign(r, Null)                \* also a GC_malloc that fails
          \/ Assign(r, Unknown)
          \/ \E n \in Lengths : Alloc(r, n)
          \/ \E r2 \in Roots, offset \in Offsets : Derive(r, r2, offset)
          \/ \E r2 \in Roots, n \in Lengths : Load(r, n - 1, r2) \/ Copy(r2, r, n)
          \/ \E n \in Lengths :
                \/ Store(r, n - 1, Null)
                \/ \E y \in Roots : Store(r, n - 1, root[y])
    \/ \E S \in SUBSET DOMAIN heap : Free(S) \/ Collect(S)

Spec == Init /\ [][Next]_vars
=============================================================================
