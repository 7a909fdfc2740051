--------------------------- MODULE GCBitmapObjects ---------------------------
(***************************************************************************)
(* One bitmap of a region through its life: objects are placed one after   *)
(* the other, the bitmap is cleared when its space is emptied, and it      *)
(* grows with the space.  `objects' is a history variable: the objects     *)
(* that were placed since the last clear.  What GC_bitmap_find and         *)
(* GC_bitmap_get_container answer from the bits is compared with it.       *)
(***************************************************************************)
EXTENDS GCBitmap

CONSTANTS
    InitialSize,    \* entries of the bitmap at the start
    MaxSize,        \* largest number of entries that it grows to
    Lengths         \* lengths of objects, in entries; 0 for GC_malloc(0)

ASSUME SizesAssumption ==
    /\ InitialSize \in Nat /\ MaxSize \in Nat
    /\ Lengths \subseteq Nat

VARIABLES
    bitmap,
    objects     \* the objects [start, len] that occupy entries

vars == <<bitmap, objects>>

Init == bitmap = GC_init_bitmap(InitialSize) /\ objects = {}

(* An object of length 0 occupies no entry, but its bit is set all the     *)
(* same.                                                                   *)
Place(len) ==
    /\ bitmap.used + len <= bitmap.size
    /\ bitmap' = GC_bitmap_allocate(bitmap, len)
    /\ objects' = IF len = 0 THEN objects
                  ELSE objects \cup {[start |-> bitmap.used, len |-> len]}

Empty ==
    /\ bitmap' = GC_bitmap_clr(bitmap)
    /\ objects' = {}

Grow(newSize) ==
    /\ bitmap.size < newSize
    /\ bitmap' = GC_grow_bitmap(bitmap, newSize)
    /\ UNCHANGED objects

Next ==
    \/ \E len \in Lengths : Place(len)
    \/ Empty
    \/ \E newSize \in 0 .. MaxSize : Grow(newSize)

Spec == Init /\ [][Next]_vars

-----------------------------------------------------------------------------
(* The bitmap and the history of it have their types (struct GC_bitmap).   *)
(* The entries of the map are 0 .. size - 1; GC_bitmap_allocate may set    *)
(* one index more, but none beyond (see StrayBits).                        *)
TypeOK ==
    /\ bitmap \in [size : Nat, used : Nat, map : SUBSET Nat]
    /\ bitmap.used <= bitmap.size
    /\ bitmap.map \subseteq 0 .. bitmap.size
    /\ objects \subseteq [start : Nat, len : Nat \ {0}]

(* GC_malloc(0) sets a bit that is no object's, and GC_bitmap_allocate     *)
(* does not test whether the map has it.  Such a bit lies at `used', where *)
(* the next object will start; the one exception is a bit in the byte      *)
(* behind a map whose bytes are all entries, which clearing does not reach *)
(* and which stays behind `used'.  Clearing and growing leave no other, so *)
(* that no object that is placed later has a 1 inside it.                  *)
StrayBits ==
    \A q \in bitmap.map : q > bitmap.used =>
        q = bitmap.size /\ q \notin BitsOfBytes(bitmap.size)

(* GC_bitmap_find finds the objects that were placed, at their start and   *)
(* with their length, and finds nothing else: neither a part of an object, *)
(* nor two objects for one, nor anything that was there before the bitmap  *)
(* was last cleared.                                                       *)
FindsObjects ==
    \A pos, len \in 0 .. bitmap.size :
        GC_bitmap_find(bitmap, pos, len)
            <=> [start |-> pos, len |-> len] \in objects

(* GC_bitmap_get_container answers with the object that an entry belongs   *)
(* to, for every entry in use, and with no other (gc_bitmap.h:40).         *)
FindsContainers ==
    \A pos \in 0 .. (bitmap.used - 1), start, len \in 0 .. bitmap.used :
        IsContainer(bitmap, pos, start, len)
            <=> /\ [start |-> start, len |-> len] \in objects
                /\ start <= pos /\ pos < start + len

(* Every entry in use belongs to an object, so that the walk down of       *)
(* GC_bitmap_get_container ends at a 1.                                    *)
NoGaps ==
    \A pos \in 0 .. (bitmap.used - 1) :
        \E o \in objects : o.start <= pos /\ pos < o.start + o.len
=============================================================================
