---------------------------- MODULE GCBitmapProofs ----------------------------
(***************************************************************************)
(* GC_bitmap_find and GC_bitmap_get_container answer correctly for bitmaps *)
(* of every size and objects of every length.                              *)
(***************************************************************************)
EXTENDS GCBitmapObjects, TLAPS

(* The bits in use are exactly the starts of the objects.                  *)
BitsInv ==
    \A q \in bitmap.map :
        q < bitmap.used => \E o \in objects : o.start = q

(* Each object starts at a 1 and ends before the next one or at `used'.    *)
ObjectsInv ==
    \A o \in objects :
        /\ o.start \in bitmap.map
        /\ o.start + o.len <= bitmap.used
        /\ o.start + o.len # bitmap.used => o.start + o.len \in bitmap.map
        /\ \A q \in bitmap.map : ~(o.start < q /\ q < o.start + o.len)

IInv == TypeOK /\ BitsInv /\ StrayBits /\ ObjectsInv /\ NoGaps

-----------------------------------------------------------------------------
(* The bytes of a map hold its entries.                                    *)
LEMMA BytesHoldEntries ==
    ASSUME NEW size \in Nat
    PROVE  /\ BITS_TO_BYTES(size) \in Nat
           /\ 0 .. (size - 1) \subseteq BitsOfBytes(size)
           /\ BitsOfBytes(size) \subseteq Nat
BY DEF BITS_TO_BYTES, BitsOfBytes, BitsPerByte

LEMMA InitIInv == Init => IInv
BY SizesAssumption
   DEF Init, GC_init_bitmap, IInv, TypeOK, BitsInv, StrayBits, ObjectsInv, NoGaps

(* Placing an object behind the others.                                    *)
LEMMA PlaceStep ==
    ASSUME IInv, NEW len \in Nat, Place(len)
    PROVE  IInv'
<1>1. /\ TypeOK /\ BitsInv /\ StrayBits /\ ObjectsInv /\ NoGaps
  BY DEF IInv
<1>2. /\ bitmap' = [size |-> bitmap.size, used |-> bitmap.used + len,
                    map |-> bitmap.map \cup {bitmap.used}]
      /\ bitmap.used + len <= bitmap.size
  BY DEF Place, GC_bitmap_allocate
<1>3. /\ bitmap'.size = bitmap.size /\ bitmap'.used = bitmap.used + len
      /\ bitmap'.map = bitmap.map \cup {bitmap.used}
      /\ bitmap.size \in Nat /\ bitmap.used \in Nat /\ bitmap.map \subseteq Nat
      /\ bitmap.map \subseteq 0 .. bitmap.size
      /\ objects \subseteq [start : Nat, len : Nat \ {0}]
  BY <1>1, <1>2 DEF TypeOK
<1> DEFINE new == [start |-> bitmap.used, len |-> len]
<1>4. CASE len = 0
  <2>1. objects' = objects /\ bitmap'.used = bitmap.used
    BY <1>3, <1>4 DEF Place
  <2>2. TypeOK'
    BY <1>1, <1>2, <1>3, <2>1 DEF TypeOK
  <2>3. BitsInv' /\ StrayBits'
    BY <1>1, <1>3, <2>1 DEF BitsInv, StrayBits
  <2>4. ObjectsInv'
    BY <1>1, <1>3, <2>1 DEF ObjectsInv
  <2>5. NoGaps'
    BY <1>1, <1>3, <2>1 DEF NoGaps
  <2> QED BY <2>2, <2>3, <2>4, <2>5 DEF IInv
<1>5. CASE len # 0
  <2>1. objects' = objects \cup {new}
    BY <1>5 DEF Place
  <2>2. new \in [start : Nat, len : Nat \ {0}]
    BY <1>3, <1>5
  <2>3. TypeOK'
    BY <1>2, <1>3, <2>1, <2>2 DEF TypeOK
  <2>4. BitsInv'
    <3>1. ASSUME NEW q \in bitmap'.map, q < bitmap'.used
          PROVE  \E o \in objects' : o.start = q
      <4>1. CASE q = bitmap.used
        <5>1. new \in objects' /\ new.start = q
          BY <2>1, <4>1
        <5> QED BY <5>1
      <4>2. CASE q # bitmap.used
        <5>1. q \in bitmap.map /\ ~(q > bitmap.used)
          BY <1>1, <1>2, <1>3, <3>1, <4>2 DEF StrayBits
        <5>2. q < bitmap.used
          BY <1>3, <4>2, <5>1
        <5> QED BY <1>1, <2>1, <5>1, <5>2 DEF BitsInv
      <4> QED BY <4>1, <4>2
    <3> QED BY <3>1 DEF BitsInv
  <2>5. StrayBits'
    <3>1. ASSUME NEW q \in bitmap'.map, q > bitmap'.used
          PROVE  q \in bitmap.map /\ q > bitmap.used
      BY <1>3, <3>1
    <3> QED BY <1>1, <1>3, <3>1 DEF StrayBits
  <2>6. ObjectsInv'
    <3>1. ASSUME NEW o \in objects
          PROVE  /\ o.start \in bitmap'.map
                 /\ o.start + o.len <= bitmap'.used
                 /\ o.start + o.len # bitmap'.used
                       => o.start + o.len \in bitmap'.map
                 /\ \A q \in bitmap'.map : ~(o.start < q /\ q < o.start + o.len)
      BY <1>1, <1>3, <3>1 DEF ObjectsInv
    <3>2. \A q \in bitmap'.map : ~(new.start < q /\ q < new.start + new.len)
      BY <1>1, <1>2, <1>3 DEF StrayBits
    <3>3. new.start \in bitmap'.map /\ new.start + new.len = bitmap'.used
      BY <1>3
    <3> QED BY <1>3, <2>1, <3>1, <3>2, <3>3 DEF ObjectsInv
  <2>7. NoGaps'
    <3>1. ASSUME NEW pos \in 0 .. (bitmap'.used - 1)
          PROVE  \E o \in objects' : o.start <= pos /\ pos < o.start + o.len
      <4>1. CASE pos < bitmap.used
        <5>1. pos \in 0 .. (bitmap.used - 1)
          BY <1>3, <3>1, <4>1
        <5> QED BY <1>1, <2>1, <5>1 DEF NoGaps
      <4>2. CASE ~(pos < bitmap.used)
        <5>1. new \in objects' /\ new.start = bitmap.used /\ new.len = len
          BY <2>1
        <5>2. bitmap.used <= pos /\ pos < bitmap.used + len
          BY <1>3, <3>1, <4>2
        <5> QED BY <5>1, <5>2
      <4> QED BY <4>1, <4>2
    <3> QED BY <3>1 DEF NoGaps
  <2> QED BY <2>3, <2>4, <2>5, <2>6, <2>7 DEF IInv
<1> QED BY <1>4, <1>5

(* Clearing the bitmap.                                                    *)
LEMMA EmptyStep ==
    ASSUME IInv, Empty
    PROVE  IInv'
<1>1. TypeOK /\ BitsInv /\ StrayBits
  BY DEF IInv
<1>2. /\ bitmap' = [size |-> bitmap.size, used |-> 0,
                    map |-> bitmap.map \ BitsOfBytes(bitmap.size)]
      /\ objects' = {}
  BY DEF Empty, GC_bitmap_clr
<1>3. /\ bitmap'.size = bitmap.size /\ bitmap'.used = 0
      /\ bitmap'.map = bitmap.map \ BitsOfBytes(bitmap.size)
      /\ bitmap.size \in Nat /\ bitmap.used \in Nat /\ bitmap.map \subseteq Nat
      /\ bitmap.used <= bitmap.size /\ bitmap.map \subseteq 0 .. bitmap.size
  BY <1>1, <1>2 DEF TypeOK
<1>4. TypeOK'
  BY <1>2, <1>3 DEF TypeOK
<1>5. BitsInv' /\ StrayBits'
  <2>1. ASSUME NEW q \in bitmap.map, q \notin BitsOfBytes(bitmap.size)
        PROVE  q = bitmap.size
    <3>1. q \in Nat /\ ~(q < bitmap.size)
      BY <1>3, <2>1, BytesHoldEntries
    <3> QED BY <1>1, <1>3, <2>1, <3>1 DEF TypeOK
  <2> QED BY <1>3, <2>1 DEF BitsInv, StrayBits
<1>6. ObjectsInv' /\ NoGaps'
  BY <1>2, <1>3 DEF ObjectsInv, NoGaps
<1> QED BY <1>4, <1>5, <1>6 DEF IInv

(* Growing the bitmap keeps the bits of all entries in use.                *)
LEMMA GrowStep ==
    ASSUME IInv, NEW newSize \in Nat, Grow(newSize)
    PROVE  IInv'
<1>1. TypeOK /\ BitsInv /\ StrayBits /\ ObjectsInv /\ NoGaps
  BY DEF IInv
<1> DEFINE kept == bitmap.map \ (BitsOfBytes(newSize) \ BitsOfBytes(bitmap.size))
<1>2. /\ bitmap' = [size |-> newSize, used |-> bitmap.used, map |-> kept]
      /\ objects' = objects /\ bitmap.size < newSize
  BY DEF Grow, GC_grow_bitmap
<1>3. /\ bitmap'.size = newSize /\ bitmap'.used = bitmap.used
      /\ bitmap'.map = kept
      /\ bitmap.size \in Nat /\ bitmap.used \in Nat /\ bitmap.map \subseteq Nat
      /\ bitmap.used <= bitmap.size /\ kept \subseteq bitmap.map
      /\ bitmap.map \subseteq 0 .. bitmap.size
      /\ objects \subseteq [start : Nat, len : Nat \ {0}]
  BY <1>1, <1>2 DEF TypeOK
<1>4. \A q \in bitmap.map : q < bitmap.used => q \in kept
  <2>1. ASSUME NEW q \in bitmap.map, q < bitmap.used
        PROVE  q \in BitsOfBytes(bitmap.size)
    BY <1>3, <2>1, BytesHoldEntries
  <2> QED BY <2>1
<1>5. \A q \in kept : ~(q > bitmap.used)
  <2>1. ASSUME NEW q \in kept, q > bitmap.used
        PROVE  FALSE
    <3>1. q = bitmap.size /\ q \notin BitsOfBytes(bitmap.size)
      BY <1>1, <1>3, <2>1 DEF StrayBits
    <3>2. q \in BitsOfBytes(newSize)
      BY <1>2, <1>3, <3>1, BytesHoldEntries
    <3> QED BY <2>1, <3>1, <3>2
  <2> QED BY <2>1
<1> HIDE DEF kept
<1>6. TypeOK'
  BY <1>2, <1>3 DEF TypeOK
<1>7. BitsInv' /\ StrayBits'
  BY <1>1, <1>2, <1>3, <1>5 DEF BitsInv, StrayBits
<1>8. ObjectsInv'
  BY <1>1, <1>2, <1>3, <1>4 DEF ObjectsInv
<1>9. NoGaps'
  BY <1>1, <1>2, <1>3 DEF NoGaps
<1> QED BY <1>6, <1>7, <1>8, <1>9 DEF IInv

LEMMA AlwaysIInv == Spec => []IInv
<1>1. IInv /\ [Next]_vars => IInv'
  <2> SUFFICES ASSUME IInv, [Next]_vars PROVE IInv'
    OBVIOUS
  <2>1. ASSUME NEW len \in Lengths, Place(len) PROVE IInv'
    BY <2>1, PlaceStep, SizesAssumption
  <2>2. ASSUME NEW newSize \in 0 .. MaxSize, Grow(newSize) PROVE IInv'
    BY <2>2, GrowStep, SizesAssumption
  <2>3. CASE UNCHANGED vars
    BY <2>3 DEF vars, IInv, TypeOK, BitsInv, StrayBits, ObjectsInv, NoGaps
  <2> QED BY <2>1, <2>2, <2>3, EmptyStep DEF Next
<1> QED BY <1>1, InitIInv, PTL DEF Spec

-----------------------------------------------------------------------------
(* What the invariant says of the answers.                                 *)

(* GC_bitmap_find finds exactly the objects.                               *)
LEMMA FindCorrect == IInv => FindsObjects
<1> SUFFICES ASSUME IInv, NEW pos \in 0 .. bitmap.size, NEW len \in 0 .. bitmap.size
             PROVE  GC_bitmap_find(bitmap, pos, len)
                      <=> [start |-> pos, len |-> len] \in objects
  BY DEF FindsObjects
<1>1. /\ TypeOK /\ BitsInv /\ ObjectsInv
      /\ bitmap.size \in Nat /\ bitmap.used \in Nat /\ bitmap.map \subseteq Nat
      /\ pos \in Nat /\ len \in Nat
      /\ objects \subseteq [start : Nat, len : Nat \ {0}]
  BY DEF IInv, TypeOK
<1>2. ASSUME GC_bitmap_find(bitmap, pos, len)
      PROVE  [start |-> pos, len |-> len] \in objects
  <2>1. /\ len > 0 /\ pos + len <= bitmap.used /\ pos \in bitmap.map
        /\ pos + len # bitmap.used => pos + len \in bitmap.map
        /\ \A i \in 1 .. (len - 1) : pos + i \notin bitmap.map
    BY <1>2 DEF GC_bitmap_find
  <2>2. PICK o \in objects : o.start = pos
    BY <1>1, <2>1 DEF BitsInv
  <2>3. /\ o.len \in Nat \ {0} /\ pos + o.len <= bitmap.used
        /\ pos + o.len # bitmap.used => pos + o.len \in bitmap.map
        /\ \A q \in bitmap.map : ~(pos < q /\ q < pos + o.len)
    BY <1>1, <2>2 DEF ObjectsInv
  <2>4. ~(o.len < len)
    <3>1. SUFFICES ASSUME o.len < len PROVE FALSE
      OBVIOUS
    <3>2. o.len \in 1 .. (len - 1) /\ pos + o.len \in bitmap.map
      BY <1>1, <2>1, <2>3, <3>1
    <3> QED BY <2>1, <3>2
  <2>5. ~(o.len > len)
    BY <1>1, <2>1, <2>3
  <2>6. o.len = len
    BY <1>1, <2>3, <2>4, <2>5
  <2>7. o = [start |-> pos, len |-> len]
    BY <1>1, <2>2, <2>6
  <2> QED BY <2>2, <2>7
<1>3. ASSUME [start |-> pos, len |-> len] \in objects
      PROVE  GC_bitmap_find(bitmap, pos, len)
  <2> DEFINE o == [start |-> pos, len |-> len]
  <2>1. /\ o.start = pos /\ o.len = len /\ len > 0
        /\ pos \in bitmap.map /\ pos + len <= bitmap.used
        /\ pos + len # bitmap.used => pos + len \in bitmap.map
        /\ \A q \in bitmap.map : ~(pos < q /\ q < pos + len)
    BY <1>1, <1>3 DEF ObjectsInv
  <2> QED BY <1>1, <2>1 DEF GC_bitmap_find
<1> QED BY <1>2, <1>3

(* GC_bitmap_get_container answers with exactly the object around pos.     *)
LEMMA ContainerCorrect == IInv => FindsContainers
<1> SUFFICES ASSUME IInv, NEW pos \in 0 .. (bitmap.used - 1),
                    NEW start \in 0 .. bitmap.used, NEW len \in 0 .. bitmap.used
             PROVE  IsContainer(bitmap, pos, start, len)
                      <=> /\ [start |-> start, len |-> len] \in objects
                          /\ start <= pos /\ pos < start + len
  BY DEF FindsContainers
<1>1. /\ BitsInv /\ ObjectsInv
      /\ bitmap.size \in Nat /\ bitmap.used \in Nat /\ bitmap.map \subseteq Nat
      /\ pos \in Nat /\ start \in Nat /\ len \in Nat /\ pos < bitmap.used
      /\ objects \subseteq [start : Nat, len : Nat \ {0}]
  BY DEF IInv, TypeOK
<1>2. ASSUME IsContainer(bitmap, pos, start, len)
      PROVE  /\ [start |-> start, len |-> len] \in objects
             /\ start <= pos /\ pos < start + len
  <2>1. /\ start \in bitmap.map /\ start <= pos
        /\ \A q \in bitmap.map : ~(start < q /\ q <= pos)
        /\ len >= 1 /\ start + len <= bitmap.used
        /\ start + len # bitmap.used => start + len \in bitmap.map
        /\ \A q \in bitmap.map : ~(start < q /\ q < start + len)
    BY <1>2 DEF IsContainer
  <2>2. PICK o \in objects : o.start = start
    BY <1>1, <2>1 DEF BitsInv
  <2>3. /\ o.len \in Nat \ {0} /\ start + o.len <= bitmap.used
        /\ start + o.len # bitmap.used => start + o.len \in bitmap.map
        /\ \A q \in bitmap.map : ~(start < q /\ q < start + o.len)
    BY <1>1, <2>2 DEF ObjectsInv
  <2>4. o.len = len
    BY <1>1, <2>1, <2>3
  <2>5. o = [start |-> start, len |-> len]
    BY <1>1, <2>2, <2>4
  <2>6. pos < start + len
    BY <1>1, <2>1
  <2> QED BY <2>1, <2>2, <2>5, <2>6
<1>3. ASSUME [start |-> start, len |-> len] \in objects,
             start <= pos, pos < start + len
      PROVE  IsContainer(bitmap, pos, start, len)
  <2> DEFINE o == [start |-> start, len |-> len]
  <2>1. /\ o.start = start /\ o.len = len /\ len >= 1
        /\ start \in bitmap.map /\ start + len <= bitmap.used
        /\ start + len # bitmap.used => start + len \in bitmap.map
        /\ \A q \in bitmap.map : ~(start < q /\ q < start + len)
    BY <1>1, <1>3 DEF ObjectsInv
  <2> QED BY <1>1, <1>3, <2>1 DEF IsContainer
<1> QED BY <1>2, <1>3

(* For bitmaps of every size, the entries in use stay within the size, no  *)
(* bit is set beyond index `size', one past the last entry, and the        *)
(* objects are not empty (struct GC_bitmap, GC_bitmap_allocate).           *)
THEOREM TypeTheorem == Spec => []TypeOK
<1>1. IInv => TypeOK
  BY DEF IInv
<1> QED BY <1>1, AlwaysIInv, PTL

(* For bitmaps of every size, the bit that GC_malloc(0) sets stays where   *)
(* the next object starts, or in the byte behind the map; GC_bitmap_clr    *)
(* and GC_grow_bitmap leave no other bit behind the entries in use.        *)
THEOREM StrayBitsTheorem == Spec => []StrayBits
<1>1. IInv => StrayBits
  BY DEF IInv
<1> QED BY <1>1, AlwaysIInv, PTL

(* For bitmaps of every size, GC_bitmap_find finds exactly the objects     *)
(* that were placed since the bitmap was last cleared.                     *)
THEOREM FindTheorem == Spec => []FindsObjects
BY FindCorrect, AlwaysIInv, PTL

(* For bitmaps of every size, GC_bitmap_get_container answers with the     *)
(* object that an entry belongs to, and with no other.                     *)
THEOREM ContainerTheorem == Spec => []FindsContainers
BY ContainerCorrect, AlwaysIInv, PTL

(* For bitmaps of every size, each entry in use belongs to an object, so   *)
(* that the walk down of GC_bitmap_get_container ends at a 1.              *)
THEOREM NoGapsTheorem == Spec => []NoGaps
<1>1. IInv => NoGaps
  BY DEF IInv
<1> QED BY <1>1, AlwaysIInv, PTL
=============================================================================
