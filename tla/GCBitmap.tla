------------------------------ MODULE GCBitmap ------------------------------
(***************************************************************************)
(* The allocation bitmap of src/gc_bitmap.c, as operators on a record      *)
(*                                                                         *)
(*    [size |-> entries, used |-> entries, map |-> set of indices at 1].   *)
(*                                                                         *)
(* One entry stands for one capability-sized word of a space.  The bit of  *)
(* an entry is 1 exactly where an object starts, so an object reaches from *)
(* its 1 up to the next 1 or up to `used'.  The bytes of the map are       *)
(* abstracted to the set of the indices that are 1; where the number of    *)
(* bytes matters (clearing, growing) BITS_TO_BYTES is kept.                *)
(***************************************************************************)
EXTENDS Integers

BitsPerByte == 8

BITS_TO_BYTES(size) == (size + (BitsPerByte - 1)) \div BitsPerByte

(* The indices that the bytes of a map of `size' entries hold.             *)
BitsOfBytes(size) == 0 .. (BitsPerByte * BITS_TO_BYTES(size) - 1)

Bitmaps(size) ==
    [size : {size}, used : 0 .. size, map : SUBSET (0 .. (size - 1))]

(* Defect: `used' is not reset.                                            *)
GC_bitmap_clrKeepsUsed(bm) == [bm EXCEPT !.map = @ \ BitsOfBytes(bm.size)]

(* Defect: the bytes are counted rounding down.                            *)
GC_bitmap_clrRoundsDown(bm) ==
    [size |-> bm.size, used |-> 0,
     map |-> bm.map \ (0 .. (BitsPerByte * (bm.size \div BitsPerByte) - 1))]

GC_bitmap_clr(bm) ==
    [size |-> bm.size, used |-> 0, map |-> bm.map \ BitsOfBytes(bm.size)]

GC_init_bitmap(size) == [size |-> size, used |-> 0, map |-> {}]

(* Defect: the old bytes are counted rounding down.                        *)
GC_grow_bitmapRoundsDown(bm, newSize) ==
    [size |-> newSize,
     used |-> bm.used,
     map |-> bm.map \ (BitsOfBytes(newSize)
                         \ (0 .. (BitsPerByte * (bm.size \div BitsPerByte) - 1)))]

(* The bytes behind the old ones are zeroed, the old ones are copied.      *)
GC_grow_bitmap(bm, newSize) ==
    [size |-> newSize,
     used |-> bm.used,
     map |-> bm.map \ (BitsOfBytes(newSize) \ BitsOfBytes(bm.size))]

(* Defect: the length counts one entry more.                               *)
GC_bitmap_allocateOffByOne(bm, len) ==
    [size |-> bm.size, used |-> bm.used + len + 1, map |-> bm.map \cup {bm.used}]

GC_bitmap_allocate(bm, len) ==
    [size |-> bm.size, used |-> bm.used + len, map |-> bm.map \cup {bm.used}]

(* Is there an object that starts at pos and is exactly len entries long?  *)
GC_bitmap_find(bm, pos, len) ==
    /\ len > 0
    /\ pos + len <= bm.used
    /\ pos \in bm.map
    /\ pos + len # bm.used => pos + len \in bm.map
    /\ \A i \in 1 .. (len - 1) : pos + i \notin bm.map

(* Defect: the walk up does not stop at the next object.                   *)
IsContainerToEnd(bm, pos, start, len) ==
    /\ pos < bm.used
    /\ start \in bm.map /\ start <= pos
    /\ \A q \in bm.map : ~(start < q /\ q <= pos)
    /\ start + len = bm.used

(* GC_bitmap_get_container walks down from pos to a 1, then up from there  *)
(* to the next 1 or to `used'.  It fails when pos is not in use or when    *)
(* there is no 1 at or below it.                                           *)
IsContainer(bm, pos, start, len) ==
    /\ pos < bm.used
    /\ start \in bm.map /\ start <= pos
    /\ \A q \in bm.map : ~(start < q /\ q <= pos)
    /\ len >= 1 /\ start + len <= bm.used
    /\ start + len # bm.used => start + len \in bm.map
    /\ \A q \in bm.map : ~(start < q /\ q < start + len)

HasContainer(bm, pos) ==
    \E start \in bm.map, len \in 1 .. bm.used : IsContainer(bm, pos, start, len)

ContainerStart(bm, pos) ==
    CHOOSE start \in bm.map :
        \E len \in 1 .. bm.used : IsContainer(bm, pos, start, len)

ContainerLen(bm, pos) ==
    CHOOSE len \in 1 .. bm.used :
        IsContainer(bm, pos, ContainerStart(bm, pos), len)
=============================================================================
