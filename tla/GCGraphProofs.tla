---------------------------- MODULE GCGraphProofs ----------------------------
(***************************************************************************)
(* A collection preserves the object graph that the program can reach, and *)
(* leaves no pointer behind that dangles; the write barrier records every  *)
(* pointer from the old generation to the young one.  The theorems are for *)
(* programs that do not hand GC_memcpy an object whose first word they     *)
(* never wrote (CopiesUninitialised = FALSE): with such a copy the first   *)
(* word of an object may be taken for a forwarding address.                *)
(***************************************************************************)
EXTENDS GCSharingProofs

-----------------------------------------------------------------------------
(* The invariant.                                                          *)

(* The space that is evacuated; outside a collection the one that will be  *)
(* evacuated next, which is the young space.                               *)
SrcBase == IF stage \in {"none", "promote"} THEN YoungBase ELSE OldBase(1 - to)
SrcBitmap == IF stage \in {"none", "promote"} THEN ybitmap ELSE frombitmap
SrcUsed == SrcBase .. (SrcBase + SrcBitmap.used - 1)

(* The first word behind what cap gives access to.                         *)
EndOf(cap) == AlignWords(cap.base + cap.len)

(* cap points into an object of the space at word b with the bitmap bm,    *)
(* and stays within the bounds of the object.                              *)
Within(cap, bm, b) ==
    /\ cap \in Cap /\ ~cap.fwd /\ cap.len > 0
    /\ \E p \in bm.map, n \in 1 .. bm.used :
          IsObject(bm, p, n) /\ b + p <= WordOf(cap) /\ EndOf(cap) <= b + p + n

InSrc(cap) == Within(cap, SrcBitmap, SrcBase)
InTo(cap) == Within(cap, tobitmap, ToBase)

(* What a word that the program may rely on can hold.                      *)
Sound(v) == v = Null \/ InSrc(v) \/ InTo(v)

IsFwd(w) == mem[w] # Null /\ mem[w].fwd

BitBelow(bm) == \A q \in bm.map : q < bm.used

(* The state of the regions and of the request that collections preserve.  *)
RegionInv ==
    /\ BitBelow(ybitmap) /\ BitBelow(tobitmap) /\ BitBelow(frombitmap)
    /\ stage \in {"force", "watermark"} => yfree = 0
    /\ stage = "none" => oscan = ofree
    /\ request = NoRequest \/ request.size > 0
    /\ pc = "retry" => request # NoRequest

(* c stands for the value v that the program had when the collection       *)
(* began, where o gives the word that a word is a copy of.                 *)
Means(c, v, o) ==
    IF v = Null THEN c = Null
    ELSE /\ c # Null /\ ~c.fwd
         /\ o[WordOf(c)] = WordOf(v)
         /\ c.base % WordBytes = v.base % WordBytes
         /\ AlignWords(c.len) = AlignWords(v.len)

(* c is sound and, during a collection, stands for v.                      *)
Good(c, v) == Sound(c) /\ (stage # "none" => Means(c, v, orig))

(* The roots: a collection has moved those that it has visited.            *)
RootInv ==
    \A r \in Roots :
        /\ root[r] # Null => ~root[r].fwd
        /\ kroot[r] => Good(root[r], sroot[r])
        /\ kroot[r] /\ InSrc(root[r]) =>
              stage = "none" \/ pc = "fatal" \/ (pc = "roots" /\ index <= r)

(* The collector has still to look at word w.                              *)
Unscanned(w) ==
    \/ ToBase + oscan <= w
    \/ \E i \in DOMAIN remset : remset[i] = w /\ (pc = "remset" => index <= i)

(* The words of the tospace.                                               *)
ToInv ==
    \A w \in ToUsed :
        known[w] => /\ Good(mem[w], snap[orig[w]])
                    /\ InSrc(mem[w]) => Unscanned(w)

(* The words of the other space: they are as they were, except that the    *)
(* first word of an object may hold a forwarding address.                  *)
SrcInv ==
    \A w \in SrcUsed :
        known[w] => \/ Good(mem[w], snap[orig[w]])
                    \/ w - SrcBase \in SrcBitmap.map /\ IsFwd(w)

(* The object at p of the space that is evacuated, n words long, is now at *)
(* position q of the tospace.                                              *)
CopiedAs(p, q, n) ==
    /\ IsObject(SrcBitmap, p, n) /\ IsObject(tobitmap, q, n)
    /\ mem[SrcBase + p].base = (ToBase + q) * WordBytes
    /\ AlignWords(mem[SrcBase + p].len) = n
    /\ \A i \in 0 .. (n - 1) : orig[ToBase + q + i] = orig[SrcBase + p + i]

(* The first word of an object is a forwarding address only of its copy.   *)
ForwardInv ==
    /\ \A p \in tobitmap.map : ~IsFwd(ToBase + p)
    /\ \A p \in SrcBitmap.map : IsFwd(SrcBase + p) =>
          /\ stage # "none"
          /\ \E q \in tobitmap.map, n \in 1 .. tobitmap.used : CopiedAs(p, q, n)

(* An address in the remembered set that GC_reset has made stale is that   *)
(* of a word that is still zero.                                           *)
RememberedInv ==
    \A i \in DOMAIN remset :
        remset[i] < ToBase + ofree \/ mem[remset[i]] = Null

(* The n words at w lie in one object.                                     *)
InObject(w, n) ==
    \/ \E p \in SrcBitmap.map, k \in 1 .. SrcBitmap.used :
          IsObject(SrcBitmap, p, k) /\ SrcBase + p <= w /\ w + n <= SrcBase + p + k
    \/ \E p \in tobitmap.map, k \in 1 .. tobitmap.used :
          IsObject(tobitmap, p, k) /\ ToBase + p <= w /\ w + n <= ToBase + p + k

(* The arguments of the GC_memcpy that is being executed.                  *)
MemcpyInv ==
    pc = "memcpy" =>
        /\ InObject(copying.src, copying.words) /\ InObject(copying.dest, copying.words)
        /\ \A i, j \in 0 .. (copying.words - 1) : copying.src + i # copying.dest + j
        /\ known[copying.src]
        /\ \A i \in 0 .. (copying.words - 1) :
              known[copying.dest + i] = known[copying.src + i]

GraphInv ==
    /\ RegionInv /\ RootInv /\ ToInv /\ SrcInv /\ ForwardInv
    /\ RememberedInv /\ MemcpyInv
-----------------------------------------------------------------------------
(* Words and bytes.                                                        *)

LEMMA DivExact ==
    ASSUME NEW a \in Nat, NEW b \in Nat \ {0}, a % b = 0
    PROVE  a = (a \div b) * b
OBVIOUS

LEMMA AlignFacts ==
    ASSUME NEW n \in Nat
    PROVE  /\ AlignWords(n) \in Nat
           /\ n <= WordBytes * AlignWords(n)
           /\ n > 0 => AlignWords(n) >= 1
           /\ \A k \in Nat : n <= WordBytes * k => AlignWords(n) <= k
<1>1. PICK a : a = n + (WordBytes - 1)
  OBVIOUS
<1>2. WordBytes \in Nat \ {0} /\ a \in Nat
  BY <1>1, ConstantsAssumption
<1>3. PICK q : q = a \div WordBytes
  OBVIOUS
<1>4. q \in Nat /\ WordBytes * q <= a /\ a < WordBytes * q + WordBytes
  BY <1>2, <1>3, DivFacts
<1>5. AlignWords(n) = q
  BY <1>1, <1>3 DEF AlignWords
<1>6. n <= WordBytes * q
  BY <1>1, <1>2, <1>4
<1>7. n > 0 => q >= 1
  BY <1>2, <1>4, <1>6
<1>8. ASSUME NEW k \in Nat, n <= WordBytes * k PROVE q <= k
  <2>1. WordBytes * q < WordBytes * (k + 1)
    BY <1>1, <1>2, <1>4, <1>8
  <2> QED
    BY <1>2, <1>4, <2>1
<1> QED
  BY <1>4, <1>5, <1>6, <1>7, <1>8

LEMMA AlignShift ==
    ASSUME NEW k \in Nat, NEW n \in Nat
    PROVE  AlignWords(k * WordBytes + n) = k + AlignWords(n)
<1>1. PICK a, i : a = k * WordBytes + n + (WordBytes - 1) /\ i = k
  OBVIOUS
<1>2. WordBytes \in Nat \ {0} /\ a \in Nat /\ a - WordBytes * k = n + (WordBytes - 1)
  BY <1>1, ConstantsAssumption
<1>3. (a - WordBytes * k) \div WordBytes = (a \div WordBytes) - k
  BY <1>2, DivShift
<1>4. a \div WordBytes \in Nat
  BY <1>2, DivFacts
<1>5. AlignWords(k * WordBytes + n) = a \div WordBytes
  BY <1>1 DEF AlignWords
<1>6. AlignWords(n) = (a \div WordBytes) - k
  BY <1>2, <1>3 DEF AlignWords
<1> QED
  BY <1>4, <1>5, <1>6

(* The words that a capability gives access to.                            *)
LEMMA CapFacts ==
    ASSUME NEW cap \in Cap
    PROVE  /\ cap.base \in Nat /\ cap.len \in Nat /\ cap.fwd \in BOOLEAN
           /\ WordOf(cap) \in Nat /\ EndOf(cap) \in Nat
           /\ WordBytes * WordOf(cap) <= cap.base
           /\ cap.base < WordBytes * WordOf(cap) + WordBytes
           /\ WordOf(cap) + AlignWords(cap.len) <= EndOf(cap)
           /\ cap.len > 0 => WordOf(cap) < EndOf(cap)
           /\ cap.base % WordBytes = 0 =>
                 /\ cap.base = WordOf(cap) * WordBytes
                 /\ EndOf(cap) = WordOf(cap) + AlignWords(cap.len)
<1>1. /\ cap.base \in Nat /\ cap.len \in Nat /\ cap.fwd \in BOOLEAN
      /\ WordBytes \in Nat \ {0}
  BY ConstantsAssumption DEF Cap
<1>2. PICK q : q = WordOf(cap)
  OBVIOUS
<1>3. q \in Nat /\ WordBytes * q <= cap.base /\ cap.base < WordBytes * q + WordBytes
  BY <1>1, <1>2, DivFacts DEF WordOf
<1>4. PICK e : e = EndOf(cap)
  OBVIOUS
<1>5. e \in Nat /\ cap.base + cap.len <= WordBytes * e
  BY <1>1, <1>4, AlignFacts DEF EndOf
<1>6. q + AlignWords(cap.len) <= e
  <2>1. cap.len <= WordBytes * (e - q)
    BY <1>1, <1>3, <1>5
  <2>2. e - q \in Nat
    <3>1. WordBytes * q <= WordBytes * e
      BY <1>1, <1>3, <1>5
    <3> QED
      BY <1>1, <1>3, <1>5, <3>1
  <2>3. AlignWords(cap.len) \in Nat /\ AlignWords(cap.len) <= e - q
    BY <1>1, <2>1, <2>2, AlignFacts
  <2> QED
    BY <1>3, <1>5, <2>2, <2>3
<1>7. cap.len > 0 => q < e
  <2>1. AlignWords(cap.len) \in Nat /\ (cap.len > 0 => AlignWords(cap.len) >= 1)
    BY <1>1, AlignFacts
  <2> QED
    BY <1>3, <1>5, <1>6, <2>1
<1>8. ASSUME cap.base % WordBytes = 0
      PROVE  cap.base = q * WordBytes /\ e = q + AlignWords(cap.len)
  <2>1. cap.base = (cap.base \div WordBytes) * WordBytes
    BY <1>1, <1>8, DivExact
  <2>2. cap.base = q * WordBytes
    BY <1>2, <2>1 DEF WordOf
  <2>3. AlignWords(q * WordBytes + cap.len) = q + AlignWords(cap.len)
    BY <1>1, <1>3, AlignShift
  <2> QED
    BY <1>4, <2>2, <2>3 DEF EndOf
<1> QED
  BY <1>1, <1>2, <1>3, <1>4, <1>5, <1>6, <1>7, <1>8

(* A capability whose base is a whole word.                                *)
LEMMA AlignedCap ==
    ASSUME NEW cap \in Cap, NEW w \in Nat, cap.base = w * WordBytes
    PROVE  /\ WordOf(cap) = w /\ cap.base % WordBytes = 0
           /\ EndOf(cap) = w + AlignWords(cap.len)
<1>1. WordBytes \in Nat \ {0} /\ cap.len \in Nat
  BY ConstantsAssumption DEF Cap
<1>2. (w * WordBytes) \div WordBytes = w /\ (w * WordBytes) % WordBytes = 0
  BY <1>1
<1> QED
  BY <1>1, <1>2, AlignShift DEF WordOf, EndOf

(* GC_IN in words.                                                         *)
LEMMA InWords ==
    ASSUME NEW cap \in Cap, NEW b \in Nat, NEW n \in Nat
    PROVE  GC_IN(cap, b, n) <=> b <= WordOf(cap) /\ WordOf(cap) < b + n
<1>1. PICK q : q = WordOf(cap)
  OBVIOUS
<1>2. /\ q \in Nat /\ cap.base \in Nat /\ WordBytes \in Nat \ {0} /\ cap # Null
      /\ WordBytes * q <= cap.base /\ cap.base < WordBytes * q + WordBytes
  BY <1>1, CapFacts, ConstantsAssumption, NullAssumption
<1>3. b * WordBytes <= cap.base <=> b <= q
  <2>1. ASSUME b * WordBytes <= cap.base PROVE b <= q
    <3>1. b * WordBytes < WordBytes * (q + 1)
      BY <1>2, <2>1
    <3> QED
      BY <1>2, <3>1
  <2>2. ASSUME b <= q PROVE b * WordBytes <= cap.base
    <3>1. b * WordBytes <= WordBytes * q
      BY <1>2, <2>2
    <3> QED
      BY <1>2, <3>1
  <2> QED
    BY <2>1, <2>2
<1>4. cap.base < (b + n) * WordBytes <=> q < b + n
  <2>1. ASSUME cap.base < (b + n) * WordBytes PROVE q < b + n
    <3>1. WordBytes * q < (b + n) * WordBytes
      BY <1>2, <2>1
    <3> QED
      BY <1>2, <3>1
  <2>2. ASSUME q < b + n PROVE cap.base < (b + n) * WordBytes
    <3>1. WordBytes * (q + 1) <= (b + n) * WordBytes
      BY <1>2, <2>2
    <3> QED
      BY <1>2, <3>1
  <2> QED
    BY <2>1, <2>2
<1> QED
  BY <1>1, <1>2, <1>3, <1>4 DEF GC_IN

(* The words of a space, split at its free pointer, and those behind it.   *)
LEMMA SplitRange ==
    ASSUME NEW b \in Nat, NEW m \in Nat, NEW n \in Nat, NEW w \in b .. (b + n - 1)
    PROVE  w \in b .. (b + m - 1) \/ w \in (b + m) .. (b + n - 1)
OBVIOUS

LEMMA ApartBelow ==
    ASSUME NEW b \in Nat, NEW size \in Nat, NEW used \in Nat, used <= size,
           NEW b2 \in Nat, b + size <= b2
    PROVE  b + used <= b2
OBVIOUS

LEMMA BehindRange ==
    ASSUME NEW b \in Nat, NEW m \in Nat, NEW n \in Nat, NEW k \in Nat, k <= m,
           NEW w \in (b + m) .. (b + n - 1)
    PROVE  b + k <= w
OBVIOUS

LEMMA InRange ==
    ASSUME NEW b \in Nat, NEW k \in Nat, NEW m \in Nat, NEW size \in Nat, m <= size,
           NEW w \in Nat, b + k <= w, w <= b + m - 1
    PROVE  w \in b .. (b + size - 1)
OBVIOUS
-----------------------------------------------------------------------------
(* Spaces and objects.                                                     *)

(* The two spaces that hold what the program may rely on.                  *)
LEMMA SrcBounds ==
    ASSUME TypeOK, BitmapMatchesFree
    PROVE  /\ SrcBase \in Nat /\ SrcBitmap.used \in Nat /\ SrcBitmap.map \subseteq Nat
           /\ ToBase \in Nat /\ OldWords \in Nat /\ ofree \in 0 .. OldWords
           /\ tobitmap.used = ofree /\ tobitmap.map \subseteq Nat
           /\ \A w \in SrcUsed : w \in Words
           /\ \A w \in ToUsed : w \in Words
           /\ \A w \in Words : w \in Nat
           /\ SrcBase + SrcBitmap.used <= ToBase \/ ToBase + OldWords <= SrcBase
           /\ \A w \in SrcUsed : w \notin ToUsed
<1>1. /\ ToBase \in Nat /\ OldWords \in Nat /\ ofree \in 0 .. OldWords /\ to \in {0, 1}
      /\ \A w \in ToBase .. (ToBase + OldWords - 1) : w \in Words
      /\ \A w \in Words : w \in Nat
  BY Bounds
<1>2. tobitmap.used = ofree /\ tobitmap.map \subseteq Nat
  BY <1>1 DEF TypeOK, Bitmaps, BitmapMatchesFree
<1>3. \A w \in ToUsed : w \in Words
  BY <1>1 DEF ToUsed
<1>4. /\ SrcBase \in Nat /\ SrcBitmap.used \in Nat /\ SrcBitmap.map \subseteq Nat
      /\ \A w \in SrcUsed : w \in Words
      /\ SrcBase + SrcBitmap.used <= ToBase \/ ToBase + OldWords <= SrcBase
  <2>1. CASE stage \in {"none", "promote"}
    <3>1. SrcBase = 0 /\ SrcBitmap = ybitmap
      BY <2>1 DEF SrcBase, SrcBitmap, YoungBase
    <3>2. /\ ybitmap.used \in 0 .. YoungWords /\ ybitmap.map \subseteq Nat
          /\ YoungWords \in Nat
      BY ConstantsAssumption DEF TypeOK, Bitmaps
    <3>3. \A w \in 0 .. (YoungWords - 1) : w \in Words
      BY <3>2, SpacesInMemory DEF YoungSpace, YoungBase
    <3>4. ToBase > YoungWords
      <4>1. CASE to = 0
        BY <1>1, <3>2, <4>1 DEF ToBase, OldBase
      <4>2. CASE to = 1
        BY <1>1, <3>2, <4>2 DEF ToBase, OldBase
      <4> QED
        BY <1>1, <4>1, <4>2
    <3>5. \A w \in SrcUsed : w \in Words
      BY <3>1, <3>2, <3>3 DEF SrcUsed
    <3> QED
      BY <1>1, <3>1, <3>2, <3>4, <3>5
  <2>2. CASE stage \notin {"none", "promote"}
    <3>1. /\ SrcBase = FromBase /\ SrcBitmap = FromBitmap /\ FromWords = OldWords
      BY <2>2 DEF SrcBase, SrcBitmap, FromBase, FromBitmap, FromWords
    <3>2. /\ FromBase \in Nat /\ FromWords \in Nat
          /\ FromBitmap.used \in 0 .. FromWords /\ FromBitmap.map \subseteq Nat
          /\ \A f \in FromBase .. (FromBase + FromWords - 1) : f \in Words
      BY Bounds
    <3>3. FromBase + FromWords <= ToBase \/ ToBase + OldWords <= FromBase
      BY SpacesApart
    <3>4. \A w \in SrcUsed : w \in Words
      BY <3>1, <3>2 DEF SrcUsed
    <3> QED
      BY <1>1, <3>1, <3>2, <3>3, <3>4
  <2> QED
    BY <2>1, <2>2
<1>5. \A w \in SrcUsed : w \notin ToUsed
  BY <1>1, <1>4 DEF SrcUsed, ToUsed
<1> QED
  BY <1>1, <1>2, <1>3, <1>4, <1>5

(* While objects are copied they come out of the fromspace.                *)
LEMMA SrcIsFrom ==
    ASSUME TypeOK, stage # "none"
    PROVE  SrcBase = FromBase /\ SrcBitmap = FromBitmap /\ SrcUsed = FromUsed
BY DEF SrcBase, SrcBitmap, SrcUsed, FromBase, FromBitmap, FromUsed

(* What GC_bitmap_allocate does to the objects of a bitmap.                *)
LEMMA ObjectsGrow ==
    ASSUME NEW bm, bm.map \subseteq Nat, bm.used \in Nat, BitBelow(bm),
           NEW n \in Nat \ {0}
    PROVE  /\ \A p, k : IsObject(bm, p, k) => IsObject(GC_bitmap_allocate(bm, n), p, k)
           /\ IsObject(GC_bitmap_allocate(bm, n), bm.used, n)
           /\ BitBelow(GC_bitmap_allocate(bm, n))
<1>1. PICK new : new = GC_bitmap_allocate(bm, n)
  OBVIOUS
<1>2. new.used = bm.used + n /\ new.map = bm.map \cup {bm.used}
  BY <1>1 DEF GC_bitmap_allocate
<1>3. ASSUME NEW p, NEW k, IsObject(bm, p, k) PROVE IsObject(new, p, k)
  <2>1. p \in Nat /\ k \in Nat \ {0} /\ p + k <= bm.used /\ p \in new.map
    BY <1>2, <1>3 DEF IsObject
  <2>2. p + k <= new.used /\ p + k # new.used
    BY <1>2, <2>1
  <2>3. p + k \in new.map
    BY <1>2, <1>3, <2>1 DEF IsObject
  <2>4. \A q \in new.map : ~(p < q /\ q < p + k)
    BY <1>2, <1>3, <2>1 DEF IsObject
  <2> QED
    BY <2>1, <2>2, <2>3, <2>4 DEF IsObject
<1>4. IsObject(new, bm.used, n)
  <2>1. \A q \in new.map : q <= bm.used /\ q \in Nat
    BY <1>2 DEF BitBelow
  <2> QED
    BY <1>2, <2>1 DEF IsObject
<1>5. BitBelow(new)
  BY <1>2 DEF BitBelow
<1> QED
  BY <1>1, <1>3, <1>4, <1>5

LEMMA WithinGrows ==
    ASSUME NEW bm, bm.map \subseteq Nat, bm.used \in Nat, NEW new, new.used \in Nat,
           new.map \subseteq Nat,
           \A p, k : IsObject(bm, p, k) => IsObject(new, p, k),
           NEW cap, NEW b, Within(cap, bm, b)
    PROVE  Within(cap, new, b)
<1>1. PICK p \in bm.map, n \in 1 .. bm.used :
         IsObject(bm, p, n) /\ b + p <= WordOf(cap) /\ EndOf(cap) <= b + p + n
  BY DEF Within
<1>2. IsObject(new, p, n)
  BY <1>1
<1>3. p \in new.map /\ n \in 1 .. new.used
  BY <1>2 DEF IsObject
<1> QED
  BY <1>1, <1>2, <1>3 DEF Within

LEMMA WithinFacts ==
    ASSUME NEW bm, bm.map \subseteq Nat, bm.used \in Nat, NEW b \in Nat,
           NEW cap, Within(cap, bm, b)
    PROVE  /\ cap \in Cap /\ cap # Null /\ ~cap.fwd
           /\ WordOf(cap) \in b .. (b + bm.used - 1)
<1>1. PICK p \in bm.map, n \in 1 .. bm.used :
         IsObject(bm, p, n) /\ b + p <= WordOf(cap) /\ EndOf(cap) <= b + p + n
  BY DEF Within
<1>2. cap \in Cap /\ cap.len > 0 /\ ~cap.fwd
  BY DEF Within
<1>3. WordOf(cap) \in Nat /\ EndOf(cap) \in Nat /\ WordOf(cap) < EndOf(cap)
  BY <1>2, CapFacts
<1>4. p \in Nat /\ n \in Nat /\ p + n <= bm.used
  BY <1>1 DEF IsObject
<1> QED
  BY <1>1, <1>2, <1>3, <1>4, NullAssumption

(* The container of a position within an object is that object.            *)
LEMMA ContainerOf ==
    ASSUME NEW bm, bm.map \subseteq Nat, bm.used \in Nat,
           NEW p, NEW n, IsObject(bm, p, n), NEW pos \in p .. (p + n - 1)
    PROVE  /\ HasContainer(bm, pos)
           /\ ContainerStart(bm, pos) = p /\ ContainerLen(bm, pos) = n
<1>1. p \in Nat /\ n \in 1 .. bm.used /\ pos \in Nat /\ p + n <= bm.used /\ p \in bm.map
  BY DEF IsObject
<1>2. IsContainer(bm, pos, p, n)
  BY <1>1 DEF IsObject, IsContainer
<1>3. ASSUME NEW s \in bm.map, NEW l \in 1 .. bm.used, IsContainer(bm, pos, s, l)
      PROVE  s = p /\ l = n
  <2>1. s = p
    BY <1>1, <1>3 DEF IsContainer, IsObject
  <2>2. ~(l < n) /\ ~(n < l)
    BY <1>1, <1>3, <2>1 DEF IsContainer, IsObject
  <2> QED
    BY <1>1, <2>1, <2>2
<1>4. HasContainer(bm, pos)
  BY <1>1, <1>2 DEF HasContainer
<1>5. ContainerStart(bm, pos) = p
  <2>1. \E s \in bm.map : \E l \in 1 .. bm.used : IsContainer(bm, pos, s, l)
    BY <1>1, <1>2
  <2>2. /\ ContainerStart(bm, pos) \in bm.map
        /\ \E l \in 1 .. bm.used : IsContainer(bm, pos, ContainerStart(bm, pos), l)
    BY <2>1 DEF ContainerStart
  <2> QED
    BY <1>3, <2>2
<1>6. ContainerLen(bm, pos) = n
  <2>1. \E l \in 1 .. bm.used : IsContainer(bm, pos, ContainerStart(bm, pos), l)
    BY <1>1, <1>2, <1>5
  <2>2. /\ ContainerLen(bm, pos) \in 1 .. bm.used
        /\ IsContainer(bm, pos, ContainerStart(bm, pos), ContainerLen(bm, pos))
    BY <2>1 DEF ContainerLen
  <2> QED
    BY <1>1, <1>3, <1>5, <2>2
<1> QED
  BY <1>4, <1>5, <1>6
-----------------------------------------------------------------------------
(* What the collector makes of a pointer that the program may rely on.     *)

(* A pointer into the tospace is left alone.                               *)
LEMMA ToSkipped ==
    ASSUME TypeOK, BitmapMatchesFree, NEW cap, InTo(cap)
    PROVE  Skipped(cap) /\ ~InSrc(cap)
<1>1. /\ ToBase \in Nat /\ OldWords \in Nat /\ ofree \in 0 .. OldWords
      /\ tobitmap.used = ofree /\ tobitmap.map \subseteq Nat
      /\ SrcBase \in Nat /\ SrcBitmap.used \in Nat /\ SrcBitmap.map \subseteq Nat
      /\ \A w \in SrcUsed : w \notin ToUsed
  BY SrcBounds
<1>2. cap \in Cap /\ WordOf(cap) \in ToUsed
  BY <1>1, WithinFacts DEF InTo, ToUsed
<1>3. ~InSrc(cap)
  <2> SUFFICES ASSUME InSrc(cap) PROVE FALSE
    OBVIOUS
  <2>1. WordOf(cap) \in SrcUsed
    BY <1>1, WithinFacts DEF InSrc, SrcUsed
  <2> QED
    BY <1>1, <1>2, <2>1
<1>4. ~GC_IN(cap, FromBase, FromWords)
  <2>1. FromBase \in Nat /\ FromWords \in Nat
    BY Bounds
  <2>2. FromBase + FromWords <= ToBase \/ ToBase + OldWords <= FromBase
    BY SpacesApart
  <2>3. ~(FromBase <= WordOf(cap) /\ WordOf(cap) < FromBase + FromWords)
    BY <1>1, <1>2, <2>1, <2>2 DEF ToUsed
  <2> QED
    BY <1>2, <2>1, <2>3, InWords
<1> QED
  BY <1>3, <1>4 DEF Skipped, InFromspace

(* A pointer into the fromspace is not, also when it is an interior one.   *)
LEMMA SrcNotSkipped ==
    ASSUME TypeOK, BitmapMatchesFree, stage # "none", NEW cap, InSrc(cap)
    PROVE  ~Skipped(cap)
<1>1. /\ FromBase \in Nat /\ FromWords \in Nat
      /\ FromBitmap.used \in 0 .. FromWords /\ FromBitmap.map \subseteq Nat
  BY Bounds
<1>2. PICK p \in FromBitmap.map, n \in 1 .. FromBitmap.used :
         /\ IsObject(FromBitmap, p, n) /\ FromBase + p <= WordOf(cap)
         /\ EndOf(cap) <= FromBase + p + n
  BY SrcIsFrom DEF InSrc, Within
<1>3. cap \in Cap /\ cap.len > 0
  BY DEF InSrc, Within
<1>4. /\ WordOf(cap) \in Nat /\ EndOf(cap) \in Nat /\ WordOf(cap) < EndOf(cap)
      /\ WordOf(cap) + AlignWords(cap.len) <= EndOf(cap) /\ cap.len \in Nat
  BY <1>3, CapFacts
<1>5. p \in Nat /\ n \in Nat \ {0} /\ p + n <= FromBitmap.used
  BY <1>1, <1>2 DEF IsObject
<1>6. InFromspace(cap)
  <2>1. FromBase <= WordOf(cap) /\ WordOf(cap) < FromBase + FromWords
    BY <1>1, <1>2, <1>4, <1>5
  <2> QED
    BY <1>1, <1>3, <2>1, InWords DEF InFromspace
<1>7. PICK pos : pos = PosInFromspace(cap)
  OBVIOUS
<1>8. pos = WordOf(cap) - FromBase /\ pos \in p .. (p + n - 1)
  BY <1>1, <1>2, <1>4, <1>5, <1>7 DEF PosInFromspace
<1>9. /\ HasContainer(FromBitmap, pos)
      /\ ContainerStart(FromBitmap, pos) = p /\ ContainerLen(FromBitmap, pos) = n
  BY <1>1, <1>2, <1>8, ContainerOf
<1>10. cap.len <= WordBytes * n - WordBytes * (pos - p)
  <2>1. PICK a : a = AlignWords(cap.len)
    OBVIOUS
  <2>2. a \in Nat /\ cap.len <= WordBytes * a /\ a <= n - (pos - p)
    BY <1>1, <1>2, <1>4, <1>5, <1>8, <2>1, AlignFacts
  <2>3. WordBytes * a <= WordBytes * (n - (pos - p))
    BY <1>5, <1>8, <2>2, ConstantsAssumption
  <2> QED
    BY <1>4, <1>5, <1>8, <2>2, <2>3, ConstantsAssumption
<1>11. cap.len <= ContainerBytes(cap) - WordBytes * Relbase(cap)
  BY <1>7, <1>9, <1>10 DEF ContainerBytes, Relbase
<1> QED
  BY <1>6, <1>7, <1>9, <1>11 DEF Skipped, IsInterior

(* It is the object that the pointer points into that is visited.          *)
LEMMA SrcPointer ==
    ASSUME TypeOK, BitmapMatchesFree, stage # "none", NEW cap, InSrc(cap),
           NEW p \in Nat, NEW n \in Nat, Visits(cap, p, n)
    PROVE  /\ FromBase + p <= WordOf(cap) /\ EndOf(cap) <= FromBase + p + n
           /\ IsExact(cap) => WordOf(cap) = FromBase + p /\ AlignWords(cap.len) = n
           /\ ~IsExact(cap) => Relbase(cap) = WordOf(cap) - (FromBase + p)
<1>1. /\ FromBase \in Nat /\ FromWords \in Nat
      /\ FromBitmap.used \in 0 .. FromWords /\ FromBitmap.map \subseteq Nat
  BY Bounds
<1>2. PICK p0 \in FromBitmap.map, n0 \in 1 .. FromBitmap.used :
         /\ IsObject(FromBitmap, p0, n0) /\ FromBase + p0 <= WordOf(cap)
         /\ EndOf(cap) <= FromBase + p0 + n0
  BY SrcIsFrom DEF InSrc, Within
<1>3. cap \in Cap /\ cap.len > 0
  BY DEF InSrc, Within
<1>4. /\ WordOf(cap) \in Nat /\ EndOf(cap) \in Nat /\ WordOf(cap) < EndOf(cap)
      /\ cap.base \in Nat /\ WordBytes * WordOf(cap) <= cap.base
  BY <1>3, CapFacts
<1>5. p0 \in Nat /\ n0 \in Nat \ {0} /\ p0 + n0 <= FromBitmap.used
  BY <1>1, <1>2 DEF IsObject
<1>6. PICK pos : pos = PosInFromspace(cap)
  OBVIOUS
<1>7. pos = WordOf(cap) - FromBase /\ pos \in p0 .. (p0 + n0 - 1)
  BY <1>1, <1>2, <1>4, <1>5, <1>6 DEF PosInFromspace
<1>8. /\ WordOf(ObjectCap(cap)) = FromBase + p /\ AlignWords(ObjectCap(cap).len) = n
      /\ IsObject(FromBitmap, p, n)
  BY DEF Visits
<1>9. CASE IsExact(cap)
  <2>1. WordOf(cap) = FromBase + p /\ AlignWords(cap.len) = n
    BY <1>8, <1>9 DEF ObjectCap
  <2>2. p = pos
    BY <1>1, <1>4, <1>7, <2>1
  <2>3. p = p0 /\ n = n0
    BY <1>1, <1>2, <1>5, <1>7, <1>8, <2>2, ObjectsApart DEF IsObject
  <2> QED
    BY <1>2, <1>9, <2>1, <2>3
<1>10. CASE ~IsExact(cap)
  <2>1. ContainerStart(FromBitmap, pos) = p0 /\ ContainerLen(FromBitmap, pos) = n0
    BY <1>1, <1>2, <1>7, ContainerOf
  <2>2. Relbase(cap) = pos - p0 /\ ContainerBytes(cap) = WordBytes * n0
    BY <1>6, <2>1 DEF Relbase, ContainerBytes
  <2>3. ObjectCap(cap) = [base |-> cap.base - WordBytes * (pos - p0),
                          len |-> WordBytes * n0, fwd |-> cap.fwd]
    BY <1>10, <2>2 DEF ObjectCap, GC_setbaselen
  <2>4. n = n0
    BY <1>5, <1>8, <2>3, AlignWhole
  <2>5. (cap.base - WordBytes * (pos - p0)) \div WordBytes
          = (cap.base \div WordBytes) - (pos - p0)
    <3>1. pos - p0 \in Nat /\ pos - p0 <= WordOf(cap)
      BY <1>1, <1>4, <1>5, <1>7
    <3>2. WordBytes * (pos - p0) <= WordBytes * WordOf(cap)
      BY <1>4, <3>1, ConstantsAssumption
    <3>3. WordBytes * (pos - p0) <= cap.base
      BY <1>4, <3>1, <3>2, ConstantsAssumption
    <3>4. cap.base - WordBytes * (pos - p0) >= 0 /\ pos - p0 \in Int
      BY <1>4, <3>1, <3>3, ConstantsAssumption
    <3> QED
      BY <1>4, <3>4, DivShift, ConstantsAssumption
  <2>6. WordOf(ObjectCap(cap)) = WordOf(cap) - (pos - p0)
    BY <2>3, <2>5 DEF WordOf
  <2>7. p = p0
    BY <1>1, <1>4, <1>5, <1>7, <1>8, <2>6
  <2> QED
    BY <1>1, <1>2, <1>4, <1>7, <1>10, <2>2, <2>4, <2>7
<1> QED
  BY <1>9, <1>10
-----------------------------------------------------------------------------
(* What the copying of one object does to the graph.                       *)

(* c names the copy, at position q of the tospace, of the object at p.     *)
CopyAt(c, p, q, n) ==
    /\ IsObject(tobitmap', q, n)
    /\ c \in Cap /\ ~c.fwd /\ c.base = (ToBase + q) * WordBytes /\ AlignWords(c.len) = n
    /\ \A i \in 0 .. (n - 1) : orig'[ToBase + q + i] = orig[FromBase + p + i]

LEMMA CopyResult ==
    ASSUME IInv, RegionInv, ForwardInv, stage # "none",
           NEW cap \in Cap \cup {Null}, CanMove(cap), GC_copy_object(ObjectCap(cap)),
           NEW p \in Nat, NEW n \in 1 .. FromWords, Visits(cap, p, n)
    PROVE  \E q \in Nat : CopyAt(CopyOf(ObjectCap(cap)), p, q, n)
<1>1. TypeOK /\ BitmapMatchesFree
  BY DEF IInv
<1>2. /\ FromBase \in Nat /\ FromWords \in Nat /\ FromBitmap.used \in 0 .. FromWords
      /\ FromBitmap.map \subseteq Nat /\ ofree \in Nat /\ ToBase \in Nat
      /\ \A f \in FromBase .. (FromBase + FromWords - 1) : f \in Words
  BY <1>1, Bounds
<1>3. PICK obj, m : obj = ObjectCap(cap) /\ m = CopiedMem(obj)
  OBVIOUS
<1>4. /\ IsObject(FromBitmap, p, n) /\ WordOf(obj) = FromBase + p
      /\ AlignWords(obj.len) = n /\ IsForwarded(obj) = Forwarded(p)
  BY <1>3 DEF Visits, IsForwarded, Forwarded
<1>5. Returns(p, m) \/ Copies(p, n, obj.len, m)
  BY <1>1, <1>3, CopyObject
<1>6. CopyOf(obj) \in Cap
  BY <1>1, <1>3, CopyTypes
<1>7. CASE Returns(p, m)
  <2>1. Forwarded(p) /\ tobitmap' = tobitmap /\ orig' = orig
    BY <1>7 DEF Returns
  <2>2. p \in SrcBitmap.map /\ IsFwd(SrcBase + p)
    BY <1>1, <1>4, <2>1, SrcIsFrom DEF IsObject, Forwarded, IsFwd
  <2>3. PICK q \in tobitmap.map, k \in 1 .. tobitmap.used : CopiedAs(p, q, k)
    BY <2>2 DEF ForwardInv
  <2>4. PICK c : c = mem[FromBase + p]
    OBVIOUS
  <2>5. /\ IsObject(FromBitmap, p, k) /\ IsObject(tobitmap, q, k)
        /\ c.base = (ToBase + q) * WordBytes /\ AlignWords(c.len) = k
        /\ \A i \in 0 .. (k - 1) : orig[ToBase + q + i] = orig[FromBase + p + i]
    BY <1>1, <2>3, <2>4, SrcIsFrom DEF CopiedAs
  <2>6. k = n
    BY <1>2, <1>4, <2>5, ObjectsApart DEF IsObject
  <2>7. c \in Cap
    <3>1. FromBase + p \in Words
      BY <1>2, <1>4 DEF IsObject
    <3> QED
      BY <1>1, <2>1, <2>4, <3>1 DEF TypeOK, Forwarded
  <2>8. CopyOf(obj) = [c EXCEPT !.fwd = FALSE]
    BY <1>4, <2>1, <2>4 DEF CopyOf
  <2>9. /\ ~CopyOf(obj).fwd /\ CopyOf(obj).base = c.base /\ CopyOf(obj).len = c.len
    BY <2>7, <2>8 DEF Cap
  <2>10. q \in Nat
    BY <1>1, SrcBounds
  <2> QED
    BY <1>3, <1>6, <2>1, <2>5, <2>6, <2>9, <2>10 DEF CopyAt
<1>8. CASE Copies(p, n, obj.len, m)
  <2>1. /\ ~Forwarded(p) /\ tobitmap' = GC_bitmap_allocate(tobitmap, n)
        /\ \A i \in 0 .. (n - 1) : orig'[ToBase + ofree + i] = orig[FromBase + p + i]
    BY <1>8 DEF Copies, CopiedTo
  <2>2. IsObject(tobitmap', ofree, n)
    <3>1. tobitmap.used = ofree /\ tobitmap.map \subseteq Nat
      BY <1>1, SrcBounds
    <3>2. BitBelow(tobitmap) /\ n \in Nat \ {0}
      BY <1>2 DEF RegionInv
    <3> QED
      BY <1>2, <2>1, <3>1, <3>2, ObjectsGrow
  <2>3. CopyOf(obj) = [base |-> (ToBase + ofree) * WordBytes, len |-> obj.len, fwd |-> FALSE]
    BY <1>4, <2>1 DEF CopyOf
  <2>4. /\ CopyOf(obj).base = (ToBase + ofree) * WordBytes
        /\ CopyOf(obj).len = obj.len /\ ~CopyOf(obj).fwd
    BY <2>3
  <2>5. CopyAt(CopyOf(obj), p, ofree, n)
    BY <1>4, <1>6, <2>1, <2>2, <2>4 DEF CopyAt
  <2> QED
    BY <1>2, <1>3, <2>5
<1> QED
  BY <1>5, <1>7, <1>8

(* A pointer that has been moved.                                          *)
LEMMA MovedPointer ==
    ASSUME IInv, stage # "none",
           NEW cap \in Cap \cup {Null}, CanMove(cap), InSrc(cap),
           tobitmap'.map \subseteq Nat, tobitmap'.used \in Nat,
           NEW p \in Nat, NEW n \in 1 .. FromWords, Visits(cap, p, n),
           NEW q \in Nat, CopyAt(CopyOf(ObjectCap(cap)), p, q, n),
           NEW u, u = Moved(cap)
    PROVE  /\ Within(u, tobitmap', ToBase)
           /\ orig'[WordOf(u)] = orig[WordOf(cap)]
           /\ u.base % WordBytes = cap.base % WordBytes
           /\ AlignWords(u.len) = AlignWords(cap.len)
<1>1. TypeOK /\ BitmapMatchesFree
  BY DEF IInv
<1>2. /\ FromBase \in Nat /\ FromWords \in Nat /\ ToBase \in Nat /\ n \in Nat \ {0}
      /\ WordBytes \in Nat \ {0}
  BY <1>1, Bounds, ConstantsAssumption
<1>3. PICK obj, c : obj = ObjectCap(cap) /\ c = CopyOf(obj)
  OBVIOUS
<1>4. cap \in Cap /\ obj \in Cap /\ obj.base % WordBytes = 0
  BY <1>1, <1>3, ObjectInFromspace DEF CanMove, IsMisaligned
<1>5. /\ IsObject(tobitmap', q, n)
      /\ c \in Cap /\ ~c.fwd /\ c.base = (ToBase + q) * WordBytes /\ AlignWords(c.len) = n
      /\ \A i \in 0 .. (n - 1) : orig'[ToBase + q + i] = orig[FromBase + p + i]
  BY <1>3 DEF CopyAt
<1>6. /\ FromBase + p <= WordOf(cap) /\ EndOf(cap) <= FromBase + p + n
      /\ IsExact(cap) => WordOf(cap) = FromBase + p /\ AlignWords(cap.len) = n
      /\ ~IsExact(cap) => Relbase(cap) = WordOf(cap) - (FromBase + p)
  BY <1>1, <1>2, SrcPointer
<1>7. q \in tobitmap'.map /\ n \in 1 .. tobitmap'.used
  BY <1>2, <1>5 DEF IsObject
<1>8. CASE IsExact(cap)
  <2>1. u = c /\ obj = cap
    BY <1>3, <1>8 DEF Moved, ObjectCap
  <2>2. /\ WordOf(c) = ToBase + q /\ c.base % WordBytes = 0
        /\ EndOf(c) = ToBase + q + n
    BY <1>2, <1>5, AlignedCap
  <2>3. c.len > 0
    <3>1. AlignWords(0) = 0
      BY <1>2 DEF AlignWords
    <3> QED
      BY <1>2, <1>5, <3>1, CapFacts
  <2>4. Within(c, tobitmap', ToBase)
    BY <1>2, <1>5, <1>7, <2>2, <2>3 DEF Within
  <2>5. orig'[ToBase + q] = orig[FromBase + p]
    BY <1>2, <1>5
  <2> QED
    BY <1>4, <1>5, <1>6, <1>8, <2>1, <2>2, <2>4, <2>5
<1>9. CASE ~IsExact(cap)
  <2>1. PICK rel : rel = Relbase(cap)
    OBVIOUS
  <2>2. WordOf(cap) \in Nat /\ EndOf(cap) \in Nat /\ WordOf(cap) < EndOf(cap) /\ cap.len > 0
        /\ cap.len \in Nat /\ cap.base \in Nat
    BY <1>4, CapFacts DEF InSrc, Within
  <2>3. rel = WordOf(cap) - (FromBase + p) /\ rel \in 0 .. (n - 1)
    BY <1>2, <1>6, <1>9, <2>1, <2>2
  <2>4. /\ u.base = c.base + WordBytes * rel /\ u.len = cap.len /\ u.fwd = c.fwd
        /\ u = [base |-> c.base + WordBytes * rel, len |-> cap.len, fwd |-> c.fwd]
    BY <1>3, <1>9, <2>1 DEF Moved, GC_setbaselen
  <2>5. u.base = (ToBase + q + rel) * WordBytes
    BY <1>2, <1>5, <2>3, <2>4
  <2>6. u \in Cap
    <3>1. c.base + WordBytes * rel \in Nat /\ c.fwd \in BOOLEAN
      BY <1>2, <1>5, <2>3 DEF Cap
    <3> QED
      BY <2>2, <2>4, <3>1 DEF Cap
  <2>7. /\ WordOf(u) = ToBase + q + rel /\ u.base % WordBytes = 0
        /\ EndOf(u) = ToBase + q + rel + AlignWords(cap.len)
    BY <1>2, <2>3, <2>4, <2>5, <2>6, AlignedCap
  <2>8. cap.base % WordBytes = 0 /\ EndOf(cap) = WordOf(cap) + AlignWords(cap.len)
    <3>1. obj.base = cap.base - WordBytes * rel /\ obj.base \in Nat
      BY <1>3, <1>4, <1>9, <2>1, CapFacts DEF ObjectCap, GC_setbaselen
    <3>2. PICK x : x = obj.base \div WordBytes
      OBVIOUS
    <3>3. x \in Nat /\ obj.base = x * WordBytes
      BY <1>2, <1>4, <3>1, <3>2, DivExact, DivFacts
    <3>4. cap.base = (x + rel) * WordBytes /\ x + rel \in Nat
      BY <1>2, <2>2, <2>3, <3>1, <3>3
    <3>5. cap.base % WordBytes = 0
      BY <1>4, <3>4, AlignedCap
    <3> QED
      BY <1>4, <3>5, CapFacts
  <2>9. Within(u, tobitmap', ToBase)
    <3>1. AlignWords(cap.len) \in Nat
      BY <2>2, AlignFacts
    <3>2. EndOf(u) <= ToBase + q + n /\ ToBase + q <= WordOf(u)
      BY <1>2, <1>6, <2>2, <2>3, <2>7, <2>8, <3>1
    <3> QED
      BY <1>5, <1>7, <2>2, <2>4, <2>6, <3>2 DEF Within
  <2>10. orig'[ToBase + q + rel] = orig[WordOf(cap)]
    <3>1. FromBase + p + rel = WordOf(cap)
      BY <1>2, <2>2, <2>3
    <3> QED
      BY <1>5, <2>3, <3>1
  <2> QED
    BY <2>4, <2>7, <2>8, <2>9, <2>10
<1> QED
  BY <1>8, <1>9
(* The step after which the word f of the fromspace holds the address of   *)
(* its object's copy.                                                      *)
NowCopied(f) ==
    /\ f - SrcBase \in SrcBitmap.map
    /\ mem'[f] # Null /\ mem'[f].fwd
    /\ \E q \in tobitmap'.map, n \in 1 .. tobitmap'.used :
          /\ IsObject(SrcBitmap, f - SrcBase, n) /\ IsObject(tobitmap', q, n)
          /\ mem'[f].base = (ToBase + q) * WordBytes /\ AlignWords(mem'[f].len) = n
          /\ \A i \in 0 .. (n - 1) : orig'[ToBase + q + i] = orig'[f + i]

(* The step after which the word w of the tospace is a copy of f.          *)
NowCopy(w, f) ==
    /\ orig'[w] = orig[f] /\ known'[w] = known[f] /\ mem'[w] = mem[f]
    /\ f - SrcBase \in SrcBitmap.map => ~IsFwd(f)

(* Objects are added to the tospace; only the words X of those that it had *)
(* may change, and in the fromspace only the first word of an object.      *)
Effect(X) ==
    /\ ofree' \in 0 .. OldWords /\ ofree <= ofree' /\ tobitmap'.used = ofree'
    /\ tobitmap'.map \subseteq Nat /\ BitBelow(tobitmap')
    /\ \A p, k : IsObject(tobitmap, p, k) => IsObject(tobitmap', p, k)
    /\ \A w \in ToUsed \cup SrcUsed : orig'[w] = orig[w] /\ known'[w] = known[w]
    /\ \A w \in ToUsed \ X : mem'[w] = mem[w]
    /\ \A w \in (ToBase + ofree) .. (ToBase + ofree' - 1) : \E f \in SrcUsed : NowCopy(w, f)
    /\ \A w \in OldSpace(to) : ToBase + ofree' <= w => mem'[w] = mem[w]
    /\ \A q \in tobitmap'.map :
          \/ q \in tobitmap.map
          \/ q = ofree /\ ~(mem'[ToBase + q] # Null /\ mem'[ToBase + q].fwd)
    /\ \A f \in SrcUsed : mem'[f] = mem[f] \/ NowCopied(f)

LEMMA CopyEffect ==
    ASSUME IInv, RegionInv, stage # "none", SameSpaces,
           NEW cap \in Cap \cup {Null}, CanMove(cap), GC_copy_object(ObjectCap(cap)),
           NEW X \in SUBSET ToUsed,
           \A w \in Words : w \notin X => mem'[w] = CopiedMem(ObjectCap(cap))[w]
    PROVE  Effect(X)
<1>1. TypeOK /\ BitmapMatchesFree
  BY DEF IInv
<1>2. /\ SrcBase \in Nat /\ SrcBitmap.used \in Nat /\ SrcBitmap.map \subseteq Nat
      /\ ToBase \in Nat /\ OldWords \in Nat /\ ofree \in 0 .. OldWords
      /\ tobitmap.used = ofree /\ tobitmap.map \subseteq Nat
      /\ \A w \in SrcUsed : w \in Words
      /\ \A w \in ToUsed : w \in Words
      /\ \A w \in Words : w \in Nat
      /\ SrcBase + SrcBitmap.used <= ToBase \/ ToBase + OldWords <= SrcBase
      /\ \A w \in SrcUsed : w \notin ToUsed
  BY <1>1, SrcBounds
<1>3. SrcBase = FromBase /\ SrcBitmap = FromBitmap
  BY <1>1, SrcIsFrom
<1>4. OldSpace(to) = ToBase .. (ToBase + OldWords - 1) /\ \A w \in OldSpace(to) : w \in Words
  BY <1>1, Bounds
<1>5. PICK p \in Nat, n \in 1 .. FromWords : Visits(cap, p, n)
  BY <1>1, VisitedObject DEF CanMove
<1>6. PICK l, m : /\ l = ObjectCap(cap).len /\ m = CopiedMem(ObjectCap(cap))
  OBVIOUS
<1>7. /\ IsObject(SrcBitmap, p, n) /\ AlignWords(l) = n
      /\ n \in Nat \ {0} /\ p + n <= SrcBitmap.used /\ p \in SrcBitmap.map
  BY <1>3, <1>5, <1>6 DEF Visits, IsObject
<1>8. \A w \in Words : w \notin X => mem'[w] = m[w]
  BY <1>6
<1>9. BitBelow(tobitmap)
  BY DEF RegionInv
<1>10. CASE Returns(p, m)
  <2>1. /\ m = mem /\ ofree' = ofree /\ tobitmap' = tobitmap
        /\ known' = known /\ orig' = orig
    BY <1>10 DEF Returns
  <2>2. (ToBase + ofree) .. (ToBase + ofree' - 1) = {}
    BY <1>2, <2>1
  <2>3. ASSUME NEW w \in OldSpace(to), ToBase + ofree' <= w PROVE mem'[w] = mem[w]
    <3>1. w \notin ToUsed /\ w \in Words
      BY <1>2, <1>4, <2>1, <2>3 DEF ToUsed
    <3> QED
      BY <1>8, <2>1, <3>1
  <2>4. \A f \in SrcUsed : mem'[f] = mem[f]
    BY <1>2, <1>8, <2>1
  <2>5. \A w \in ToUsed \ X : mem'[w] = mem[w]
    BY <1>2, <1>8, <2>1
  <2> QED
    BY <1>2, <1>9, <2>1, <2>2, <2>3, <2>4, <2>5 DEF Effect
<1>11. CASE Copies(p, n, l, m)
  <2>1. /\ ~Forwarded(p) /\ ofree + n <= OldWords /\ ofree' = ofree + n
        /\ tobitmap' = GC_bitmap_allocate(tobitmap, n)
        /\ \A i \in 0 .. (n - 1) : orig'[ToBase + ofree + i] = orig[FromBase + p + i]
        /\ \A w \in Words : w < ToBase + ofree \/ ToBase + ofree + n <= w => orig'[w] = orig[w]
        /\ \A i \in 0 .. (n - 1) : known'[ToBase + ofree + i] = known[FromBase + p + i]
        /\ \A w \in Words : w < ToBase + ofree \/ ToBase + ofree + n <= w => known'[w] = known[w]
        /\ m[FromBase + p] \in Cap /\ m[FromBase + p].fwd
        /\ m[FromBase + p].base = (ToBase + ofree) * WordBytes /\ m[FromBase + p].len = l
        /\ \A i \in 0 .. (n - 1) : m[ToBase + ofree + i] = mem[FromBase + p + i]
        /\ \A w \in Words : w # FromBase + p /\ (w < ToBase + ofree \/ ToBase + ofree + n <= w)
              => m[w] = mem[w]
    BY <1>11 DEF Copies, CopiedTo, MemCopied
  <2>2. /\ IsObject(tobitmap', ofree, n) /\ BitBelow(tobitmap')
        /\ \A q, k : IsObject(tobitmap, q, k) => IsObject(tobitmap', q, k)
        /\ tobitmap'.used = ofree' /\ tobitmap'.map = tobitmap.map \cup {ofree}
    <3>1. tobitmap'.used = ofree' /\ tobitmap'.map = tobitmap.map \cup {ofree}
      BY <1>2, <2>1 DEF GC_bitmap_allocate
    <3> QED
      BY <1>2, <1>7, <1>9, <2>1, <3>1, ObjectsGrow
  <2>3. \A w \in ToUsed \cup SrcUsed :
           w \in Words /\ (w < ToBase + ofree \/ ToBase + ofree + n <= w)
    BY <1>2, <1>7, <2>1 DEF ToUsed, SrcUsed
  <2>4. \A w \in ToUsed \cup SrcUsed : orig'[w] = orig[w] /\ known'[w] = known[w]
    BY <2>1, <2>3
  <2>5. SrcBase + p \in SrcUsed
    BY <1>2, <1>7 DEF SrcUsed
  <2>6. ASSUME NEW w \in ToUsed \ X PROVE mem'[w] = mem[w]
    <3>1. w \in Words /\ w # FromBase + p /\ (w < ToBase + ofree \/ ToBase + ofree + n <= w)
      BY <1>2, <1>3, <2>3, <2>5
    <3> QED
      BY <1>8, <2>1, <3>1
  <2>7. ASSUME NEW w \in (ToBase + ofree) .. (ToBase + ofree' - 1)
        PROVE  \E f \in SrcUsed : NowCopy(w, f)
    <3>1. PICK i, f : i = w - (ToBase + ofree) /\ f = SrcBase + p + i
      OBVIOUS
    <3>2. i \in 0 .. (n - 1) /\ w = ToBase + ofree + i /\ f \in SrcUsed
      BY <1>2, <1>7, <2>1, <2>7, <3>1 DEF SrcUsed
    <3>3. w \in Words /\ w \notin X
      <4>1. w \in Nat /\ ToBase + ofree <= w /\ w <= ToBase + (ofree + n) - 1
        BY <1>2, <1>7, <2>1, <2>7
      <4>2. w \notin ToUsed
        BY <1>2, <4>1 DEF ToUsed
      <4>3. w \in OldSpace(to)
        <5>1. ToBase \in Nat /\ OldWords \in Nat /\ ofree + n <= OldWords /\ ofree + n \in Nat
              /\ OldSpace(to) = ToBase .. (ToBase + OldWords - 1)
          BY <1>2, <1>4, <1>7, <2>1
        <5>2. ofree \in Nat
          BY <1>2
        <5>3. w \in ToBase .. (ToBase + OldWords - 1)
          BY <4>1, <5>1, <5>2, InRange
        <5> QED
          BY <5>1, <5>3
      <4> QED
        BY <1>4, <4>2, <4>3
    <3>4. orig'[w] = orig[f] /\ known'[w] = known[f] /\ mem'[w] = mem[f]
      BY <1>3, <1>8, <2>1, <3>1, <3>2, <3>3
    <3>5. f - SrcBase \in SrcBitmap.map => ~IsFwd(f)
      <4>1. f - SrcBase = p + i
        BY <1>2, <3>1, <3>2
      <4>2. CASE i = 0
        BY <1>2, <1>3, <2>1, <3>1, <4>2 DEF Forwarded, IsFwd
      <4>3. CASE i # 0
        <5>1. p < p + i /\ p + i < p + n
          BY <1>2, <1>7, <3>2, <4>3
        <5> QED
          BY <1>7, <4>1, <5>1 DEF IsObject
      <4> QED
        BY <4>2, <4>3
    <3> QED
      BY <3>2, <3>4, <3>5 DEF NowCopy
  <2>8. ASSUME NEW w \in OldSpace(to), ToBase + ofree' <= w PROVE mem'[w] = mem[w]
    <3>1. w \notin ToUsed /\ w \in Words /\ ToBase + ofree + n <= w
      BY <1>2, <1>4, <1>7, <2>1, <2>8 DEF ToUsed
    <3>2. w # FromBase + p
      BY <1>2, <1>3, <1>4, <1>7
    <3> QED
      BY <1>8, <2>1, <3>1, <3>2
  <2>9. ~(mem'[ToBase + ofree] # Null /\ mem'[ToBase + ofree].fwd)
    <3>1. ToBase + ofree \in OldSpace(to) /\ ToBase + ofree \notin ToUsed
      BY <1>2, <1>4, <1>7, <2>1 DEF ToUsed
    <3>2. mem'[ToBase + ofree] = m[ToBase + ofree]
      BY <1>4, <1>8, <3>1
    <3>3. m[ToBase + ofree + 0] = mem[FromBase + p + 0]
      BY <1>7, <2>1
    <3>4. m[ToBase + ofree] = mem[FromBase + p]
      BY <1>2, <1>3, <3>3
    <3> QED
      BY <2>1, <3>2, <3>4 DEF Forwarded
  <2>10. ASSUME NEW f \in SrcUsed PROVE mem'[f] = mem[f] \/ NowCopied(f)
    <3>1. f \in Words /\ mem'[f] = m[f] /\ (f < ToBase + ofree \/ ToBase + ofree + n <= f)
      BY <1>2, <1>8, <2>3
    <3>2. CASE f # FromBase + p
      BY <2>1, <3>1, <3>2
    <3>3. CASE f = FromBase + p
      <4>1. f - SrcBase = p
        BY <1>2, <1>3, <1>7, <3>3
      <4>2. /\ mem'[f] # Null /\ mem'[f].fwd
            /\ mem'[f].base = (ToBase + ofree) * WordBytes /\ AlignWords(mem'[f].len) = n
        BY <1>7, <2>1, <3>1, <3>3, NullAssumption
      <4>3. ofree \in tobitmap'.map /\ n \in 1 .. tobitmap'.used
        BY <1>2, <1>7, <2>1, <2>2
      <4>4. ASSUME NEW i \in 0 .. (n - 1) PROVE orig'[ToBase + ofree + i] = orig'[f + i]
        <5>1. f + i \in SrcUsed
          BY <1>2, <1>3, <1>7, <3>3 DEF SrcUsed
        <5> QED
          BY <2>1, <2>4, <3>3, <5>1
      <4> QED
        BY <1>7, <2>2, <4>1, <4>2, <4>3, <4>4 DEF NowCopied
    <3> QED
      BY <3>2, <3>3
  <2>11. ofree' \in 0 .. OldWords /\ ofree <= ofree' /\ tobitmap'.map \subseteq Nat
    BY <1>2, <1>7, <2>1, <2>2
  <2>12. \A q \in tobitmap'.map :
            \/ q \in tobitmap.map
            \/ q = ofree /\ ~(mem'[ToBase + q] # Null /\ mem'[ToBase + q].fwd)
    BY <2>2, <2>9
  <2> QED
    BY <2>2, <2>4, <2>6, <2>7, <2>8, <2>10, <2>11, <2>12 DEF Effect
<1>12. Returns(p, m) \/ Copies(p, n, l, m)
  BY <1>1, <1>5, <1>6, CopyObject
<1> QED
  BY <1>10, <1>11, <1>12
-----------------------------------------------------------------------------
(* What the copying of one object preserves.                               *)

LEMMA SrcKept ==
    ASSUME SameSpaces
    PROVE  /\ SrcBase' = SrcBase /\ SrcBitmap' = SrcBitmap /\ SrcUsed' = SrcUsed
           /\ ToBase' = ToBase /\ stage' = stage /\ OldSpace(to') = OldSpace(to)
BY DEF SameSpaces, SrcBase, SrcBitmap, SrcUsed, ToBase, OldSpace, OldBase

(* A capability that points into one space does not point into another.    *)
LEMMA WithinApart ==
    ASSUME NEW bm, bm.map \subseteq Nat, bm.used \in Nat, NEW b \in Nat,
           NEW bm2, bm2.map \subseteq Nat, bm2.used \in Nat, NEW b2 \in Nat,
           b + bm.used <= b2 \/ b2 + bm2.used <= b,
           NEW cap, Within(cap, bm, b)
    PROVE  ~Within(cap, bm2, b2)
<1>1. WordOf(cap) \in b .. (b + bm.used - 1)
  BY WithinFacts
<1> SUFFICES ASSUME Within(cap, bm2, b2) PROVE FALSE
  OBVIOUS
<1>2. WordOf(cap) \in b2 .. (b2 + bm2.used - 1)
  BY WithinFacts
<1> QED
  BY <1>1, <1>2

(* A pointer that is not touched stays good.                               *)
LEMMA Carried ==
    ASSUME TypeOK, BitmapMatchesFree, SameSpaces, NEW X, Effect(X), NEW c, NEW v, Good(c, v)
    PROVE  Good(c, v)' /\ (InSrc(c)' => InSrc(c))
<1>1. /\ SrcBase \in Nat /\ SrcBitmap.used \in Nat /\ SrcBitmap.map \subseteq Nat
      /\ ToBase \in Nat /\ ofree \in Nat
      /\ tobitmap.used = ofree /\ tobitmap.map \subseteq Nat
  BY SrcBounds
<1>2. /\ ofree' \in 0 .. OldWords /\ tobitmap'.used = ofree' /\ tobitmap'.map \subseteq Nat
      /\ \A p, k : IsObject(tobitmap, p, k) => IsObject(tobitmap', p, k)
      /\ \A w \in ToUsed \cup SrcUsed : orig'[w] = orig[w]
  BY DEF Effect
<1>3. InSrc(c)' = InSrc(c)
  BY SrcKept DEF InSrc
<1>4. InTo(c) => InTo(c)'
  BY <1>1, <1>2, SrcKept, WithinGrows DEF InTo
<1>5. Sound(c) /\ (stage # "none" => Means(c, v, orig))
  BY DEF Good
<1>6. Sound(c)'
  BY <1>3, <1>4, <1>5 DEF Sound
<1>7. c # Null => WordOf(c) \in ToUsed \cup SrcUsed
  BY <1>1, <1>5, WithinFacts DEF Sound, InSrc, InTo, ToUsed, SrcUsed
<1>8. Means(c, v, orig) => Means(c, v, orig')
  BY <1>2, <1>7 DEF Means
<1>9. stage' # "none" => Means(c, v, orig')
  BY <1>5, <1>8, SrcKept
<1> QED
  BY <1>3, <1>6, <1>9 DEF Good

(* The copying of an object for a pointer, found at the words X, that      *)
(* becomes u.                                                              *)
LEMMA EffectKeeps ==
    ASSUME IInv, GraphInv, stage # "none", SameSpaces, NEW X \in SUBSET ToUsed, Effect(X),
           UNCHANGED <<snap, yfree, request>>, pc' \notin {"memcpy", "retry"},
           remset' = remset \/ remset' = <<>>,
           oscan' \in Nat, oscan' <= ofree,
           NEW u \in Cap, ~u.fwd, \A w \in X : mem'[w] = u,
           \A w \in X : known[w] => /\ Within(u, tobitmap', ToBase)
                                    /\ Means(u, snap[orig[w]], orig'),
           \A w \in ToUsed \ X :
              known[w] /\ InSrc(mem[w]) /\ Unscanned(w) => Unscanned(w)'
    PROVE  RegionInv' /\ ToInv' /\ SrcInv' /\ ForwardInv' /\ RememberedInv' /\ MemcpyInv'
<1>1. /\ TypeOK /\ BitmapMatchesFree /\ remset \in Seq(OldSpace(to))
      /\ RegionInv /\ ToInv /\ SrcInv /\ ForwardInv /\ RememberedInv
  BY DEF IInv, GraphInv
<1>2. /\ SrcBase \in Nat /\ SrcBitmap.used \in Nat /\ SrcBitmap.map \subseteq Nat
      /\ ToBase \in Nat /\ OldWords \in Nat /\ ofree \in 0 .. OldWords
      /\ tobitmap.used = ofree /\ tobitmap.map \subseteq Nat
      /\ SrcBase + SrcBitmap.used <= ToBase \/ ToBase + OldWords <= SrcBase
      /\ \A w \in SrcUsed : w \in Words
      /\ \A w \in ToUsed : w \in Words
      /\ \A w \in SrcUsed : w \notin ToUsed
  BY <1>1, SrcBounds
<1>3. /\ SrcBase' = SrcBase /\ SrcBitmap' = SrcBitmap /\ SrcUsed' = SrcUsed
      /\ ToBase' = ToBase /\ stage' = stage /\ OldSpace(to') = OldSpace(to)
  BY SrcKept
<1>4. /\ ofree' \in 0 .. OldWords /\ ofree <= ofree' /\ tobitmap'.used = ofree'
      /\ tobitmap'.map \subseteq Nat /\ BitBelow(tobitmap')
      /\ \A p, k : IsObject(tobitmap, p, k) => IsObject(tobitmap', p, k)
      /\ \A w \in ToUsed \cup SrcUsed : orig'[w] = orig[w] /\ known'[w] = known[w]
      /\ \A w \in ToUsed \ X : mem'[w] = mem[w]
      /\ \A w \in (ToBase + ofree) .. (ToBase + ofree' - 1) : \E f \in SrcUsed : NowCopy(w, f)
      /\ \A w \in OldSpace(to) : ToBase + ofree' <= w => mem'[w] = mem[w]
      /\ \A q \in tobitmap'.map :
            \/ q \in tobitmap.map
            \/ q = ofree /\ ~(mem'[ToBase + q] # Null /\ mem'[ToBase + q].fwd)
      /\ \A f \in SrcUsed : mem'[f] = mem[f] \/ NowCopied(f)
  BY DEF Effect
<1>5. snap' = snap
  OBVIOUS
<1>6. RegionInv'
  <2>1. BitBelow(ybitmap)' /\ BitBelow(frombitmap)'
    BY <1>1 DEF RegionInv, SameSpaces, BitBelow
  <2> QED
    BY <1>1, <1>3, <1>4, <2>1 DEF RegionInv
<1>7. ASSUME NEW w \in ToUsed', known'[w]
      PROVE  Good(mem[w], snap[orig[w]])' /\ (InSrc(mem[w])' => Unscanned(w)')
  <2>1. w \in ToUsed \/ w \in (ToBase + ofree) .. (ToBase + ofree' - 1)
    <3>1. w \in ToBase .. (ToBase + ofree' - 1)
      BY <1>3 DEF ToUsed
    <3>2. ToBase \in Nat /\ ofree \in Nat /\ ofree' \in Nat
      BY <1>2, <1>4
    <3>3. \/ w \in ToBase .. (ToBase + ofree - 1)
          \/ w \in (ToBase + ofree) .. (ToBase + ofree' - 1)
      BY <3>1, <3>2, SplitRange
    <3> QED
      BY <3>3 DEF ToUsed
  <2>2. PICK c, v : c = mem'[w] /\ v = snap'[orig'[w]]
    OBVIOUS
  <2>3. CASE w \in X
    <3>1. /\ c = u /\ v = snap[orig[w]] /\ known[w]
      BY <1>4, <1>5, <1>7, <2>2, <2>3
    <3>2. Within(c, tobitmap', ToBase') /\ Means(c, v, orig')
      BY <1>3, <2>3, <3>1
    <3>3. ~Within(c, SrcBitmap', SrcBase')
      <4>1. ToBase + tobitmap'.used <= SrcBase \/ SrcBase + SrcBitmap.used <= ToBase
        <5>1. /\ ToBase \in Nat /\ SrcBase \in Nat /\ OldWords \in Nat
              /\ tobitmap'.used \in Nat /\ tobitmap'.used <= OldWords
              /\ SrcBase + SrcBitmap.used <= ToBase \/ ToBase + OldWords <= SrcBase
          BY <1>2, <1>4
        <5> QED
          BY <5>1, ApartBelow
      <4>2. Within(c, tobitmap', ToBase)
        BY <1>3, <3>2
      <4>3. tobitmap'.used \in Nat /\ tobitmap'.map \subseteq Nat
        BY <1>4
      <4>4. ~Within(c, SrcBitmap, SrcBase)
        BY <1>2, <4>1, <4>2, <4>3, WithinApart
      <4> QED
        BY <1>3, <4>4
    <3> QED
      BY <2>2, <3>2, <3>3 DEF Good, Sound, InTo, InSrc
  <2>4. CASE w \in ToUsed \ X
    <3>1. /\ c = mem[w] /\ v = snap[orig[w]] /\ known[w]
      BY <1>4, <1>5, <1>7, <2>2, <2>4
    <3>2. Good(c, v) /\ (InSrc(c) => Unscanned(w))
      BY <1>1, <2>4, <3>1 DEF ToInv
    <3>3. Good(c, v)' /\ (InSrc(c)' => InSrc(c))
      BY <1>1, <3>2, Carried
    <3>4. InSrc(c)' => Unscanned(w)'
      BY <2>4, <3>1, <3>2, <3>3
    <3> QED
      BY <2>2, <3>3, <3>4 DEF Good, Sound, InTo, InSrc
  <2>5. CASE w \in (ToBase + ofree) .. (ToBase + ofree' - 1)
    <3>1. PICK f \in SrcUsed : NowCopy(w, f)
      BY <1>4, <2>5
    <3>2. /\ c = mem[f] /\ v = snap[orig[f]] /\ known[f]
          /\ f - SrcBase \in SrcBitmap.map => ~IsFwd(f)
      BY <1>5, <1>7, <2>2, <3>1 DEF NowCopy
    <3>3. Good(c, v)
      BY <1>1, <3>1, <3>2 DEF SrcInv
    <3>4. Good(c, v)'
      BY <1>1, <3>3, Carried
    <3>5. Unscanned(w)'
      <4>1. ToBase + oscan' <= w
        <5>1. ToBase \in Nat /\ ofree \in Nat /\ ofree' \in Nat
          BY <1>2, <1>4
        <5> QED
          BY <2>5, <5>1, BehindRange
      <4> QED
        BY <1>3, <4>1 DEF Unscanned
    <3> QED
      BY <2>2, <3>4, <3>5 DEF Good, Sound, InTo, InSrc
  <2> QED
    BY <2>1, <2>3, <2>4, <2>5
<1>8. ToInv'
  BY <1>7 DEF ToInv
<1>9. ASSUME NEW f \in SrcUsed, known'[f]
      PROVE  Good(mem[f], snap[orig[f]])' \/ (f - SrcBase \in SrcBitmap.map /\ IsFwd(f)')
  <2>1. known[f] /\ orig'[f] = orig[f]
    BY <1>4, <1>9
  <2>2. CASE mem'[f] = mem[f]
    <3>1. PICK c, v : c = mem[f] /\ v = snap[orig[f]]
      OBVIOUS
    <3>2. Good(c, v) \/ (f - SrcBase \in SrcBitmap.map /\ IsFwd(f))
      BY <1>1, <2>1, <3>1 DEF SrcInv
    <3>3. Good(c, v) => Good(c, v)'
      BY <1>1, Carried
    <3>4. c = mem'[f] /\ v = snap'[orig'[f]]
      BY <1>5, <2>1, <2>2, <3>1
    <3> QED
      BY <2>2, <3>2, <3>3, <3>4 DEF Good, Sound, InTo, InSrc, IsFwd
  <2>3. CASE NowCopied(f)
    BY <2>3 DEF NowCopied, IsFwd
  <2> QED
    BY <1>4, <2>2, <2>3
<1>10. SrcInv'
  BY <1>3, <1>9 DEF SrcInv
<1>11. ASSUME NEW q \in tobitmap'.map PROVE ~(mem'[ToBase + q] # Null /\ mem'[ToBase + q].fwd)
  <2>1. CASE q \in tobitmap.map
    <3>1. ToBase + q \in ToUsed
      BY <1>1, <1>2, <2>1 DEF RegionInv, BitBelow, ToUsed
    <3>2. ~IsFwd(ToBase + q)
      BY <1>1, <2>1 DEF ForwardInv
    <3> QED
      BY <1>4, <3>1, <3>2 DEF IsFwd
  <2> QED
    BY <1>4, <2>1
<1>12. ASSUME NEW p \in SrcBitmap.map, IsFwd(SrcBase + p)'
       PROVE  \E q \in tobitmap'.map, n \in 1 .. tobitmap'.used : CopiedAs(p, q, n)'
  <2>1. PICK f : f = SrcBase + p
    OBVIOUS
  <2>2. f \in SrcUsed /\ f - SrcBase = p
    <3>1. BitBelow(SrcBitmap)
      BY <1>1 DEF RegionInv, SrcBitmap
    <3> QED
      BY <1>2, <2>1, <3>1 DEF BitBelow, SrcUsed
  <2>3. CASE mem'[f] = mem[f]
    <3>1. IsFwd(f)
      BY <1>3, <1>12, <2>1, <2>3 DEF IsFwd
    <3>2. PICK q \in tobitmap.map, n \in 1 .. tobitmap.used : CopiedAs(p, q, n)
      BY <1>1, <2>1, <3>1 DEF ForwardInv
    <3>3. /\ IsObject(SrcBitmap, p, n) /\ IsObject(tobitmap, q, n)
          /\ mem[f].base = (ToBase + q) * WordBytes /\ AlignWords(mem[f].len) = n
          /\ \A i \in 0 .. (n - 1) : orig[ToBase + q + i] = orig[f + i]
      BY <2>1, <3>2 DEF CopiedAs
    <3>4. IsObject(tobitmap', q, n) /\ q \in tobitmap'.map /\ n \in 1 .. tobitmap'.used
      <4>1. IsObject(tobitmap', q, n)
        BY <1>4, <3>3
      <4> QED
        BY <1>4, <4>1 DEF IsObject
    <3>5. ASSUME NEW i \in 0 .. (n - 1) PROVE orig'[ToBase + q + i] = orig'[f + i]
      <4>0. /\ q \in Nat /\ n \in Nat /\ q + n <= ofree /\ p + n <= SrcBitmap.used
            /\ p \in Nat /\ i \in Nat /\ i <= n - 1
        BY <1>2, <3>3, <3>5 DEF IsObject
      <4>1. ToBase + q + i \in ToUsed
        BY <1>2, <4>0 DEF ToUsed
      <4>2. f + i \in SrcUsed
        BY <1>2, <2>1, <4>0 DEF SrcUsed
      <4> QED
        BY <1>4, <3>3, <4>1, <4>2
    <3>6. CopiedAs(p, q, n)'
      BY <1>3, <2>1, <2>3, <3>3, <3>4, <3>5 DEF CopiedAs
    <3> QED
      BY <3>4, <3>6
  <2>4. CASE NowCopied(f)
    <3>1. PICK q \in tobitmap'.map, n \in 1 .. tobitmap'.used :
             /\ IsObject(SrcBitmap, f - SrcBase, n) /\ IsObject(tobitmap', q, n)
             /\ mem'[f].base = (ToBase + q) * WordBytes /\ AlignWords(mem'[f].len) = n
             /\ \A i \in 0 .. (n - 1) : orig'[ToBase + q + i] = orig'[f + i]
      BY <2>4 DEF NowCopied
    <3>2. CopiedAs(p, q, n)'
      BY <1>3, <2>1, <2>2, <3>1 DEF CopiedAs
    <3> QED
      BY <3>1, <3>2
  <2> QED
    BY <1>4, <2>2, <2>3, <2>4
<1>13. ForwardInv'
  BY <1>3, <1>11, <1>12 DEF ForwardInv, IsFwd
<1>14. RememberedInv'
  <2> SUFFICES ASSUME NEW i \in DOMAIN remset, remset' = remset,
                      ~(remset[i] < ToBase + ofree')
               PROVE  mem'[remset[i]] = Null
    BY <1>3 DEF RememberedInv
  <2>1. remset[i] \in OldSpace(to)
    BY <1>1
  <2>2. OldSpace(to) = ToBase .. (ToBase + OldWords - 1)
    BY <1>1, Bounds
  <2>3. ToBase + ofree' <= remset[i] /\ ~(remset[i] < ToBase + ofree)
    BY <1>2, <1>4, <2>1, <2>2
  <2> QED
    BY <1>1, <1>4, <2>1, <2>3 DEF RememberedInv
<1>15. MemcpyInv'
  BY DEF MemcpyInv
<1> QED
  BY <1>6, <1>8, <1>10, <1>13, <1>14, <1>15
(* The collector leaves a word alone.                                      *)
LEMMA SkipEffect ==
    ASSUME TypeOK, BitmapMatchesFree, RegionInv,
           UNCHANGED <<mem, ofree, tobitmap, known, orig>>
    PROVE  Effect({})
<1>1. /\ ToBase \in Nat /\ OldWords \in Nat /\ ofree \in 0 .. OldWords
      /\ tobitmap.used = ofree /\ tobitmap.map \subseteq Nat
  BY SrcBounds
<1>2. (ToBase + ofree) .. (ToBase + ofree - 1) = {}
  BY <1>1
<1> QED
  BY <1>1, <1>2 DEF Effect, RegionInv

(* What the program may rely on is sound after the collector has moved it. *)
LEMMA MovedGood ==
    ASSUME IInv, RegionInv, ForwardInv, stage # "none",
           NEW cap \in Cap \cup {Null}, CanMove(cap), GC_copy_object(ObjectCap(cap)),
           NEW X, Effect(X), NEW u, u = Moved(cap)
    PROVE  /\ u \in Cap /\ ~u.fwd
           /\ \A v : Good(cap, v) => Within(u, tobitmap', ToBase) /\ Means(u, v, orig')
<1>1. TypeOK /\ BitmapMatchesFree
  BY DEF IInv
<1>2. PICK p \in Nat, n \in 1 .. FromWords : Visits(cap, p, n)
  BY <1>1, VisitedObject DEF CanMove
<1>3. PICK q \in Nat : CopyAt(CopyOf(ObjectCap(cap)), p, q, n)
  BY <1>2, CopyResult
<1>4. u \in Cap
  BY <1>1, CopyTypes
<1>5. ~u.fwd
  <2>1. ~CopyOf(ObjectCap(cap)).fwd
    BY <1>3 DEF CopyAt
  <2> QED
    BY <2>1 DEF Moved, GC_setbaselen
<1>6. ASSUME NEW v, Good(cap, v)
      PROVE  Within(u, tobitmap', ToBase) /\ Means(u, v, orig')
  <2>1. cap # Null
    BY DEF CanMove, Skipped, InFromspace, GC_IN
  <2>2. ~InTo(cap)
    BY <1>1, ToSkipped DEF CanMove
  <2>3. InSrc(cap)
    BY <1>6, <2>1, <2>2 DEF Good, Sound
  <2>4. tobitmap'.map \subseteq Nat /\ tobitmap'.used \in Nat
    BY DEF Effect
  <2>5. /\ Within(u, tobitmap', ToBase)
        /\ orig'[WordOf(u)] = orig[WordOf(cap)]
        /\ u.base % WordBytes = cap.base % WordBytes
        /\ AlignWords(u.len) = AlignWords(cap.len)
    BY <1>2, <1>3, <2>3, <2>4, MovedPointer
  <2>6. Means(cap, v, orig)
    BY <1>6 DEF Good
  <2>7. u # Null
    BY <1>4, NullAssumption
  <2> QED
    BY <1>5, <2>1, <2>5, <2>6, <2>7 DEF Means
<1> QED
  BY <1>4, <1>5, <1>6

(* An iteration of GC_copy_roots.                                          *)
LEMMA RootsGraph ==
    ASSUME IInv, GraphInv, GC_copy_roots
    PROVE  GraphInv'
<1>1. /\ TypeOK /\ BitmapMatchesFree /\ stage # "none" /\ index \in Roots
      /\ RegionInv /\ RootInv /\ ForwardInv
      /\ root \in [Roots -> Cap \cup {Null}] /\ kroot \in [Roots -> BOOLEAN]
      /\ oscan \in Nat /\ oscan <= ofree
  BY DEF IInv, ControlInv, GC_copy_roots, GraphInv, TypeOK
<1>2. SameSpaces
  BY DEF SameSpaces, GC_copy_roots
<1>3. /\ UNCHANGED <<yfree, request, remset, oscan, snap, sroot, kroot>>
      /\ pc = "roots" /\ pc' \in {"roots", "remset", "children"}
      /\ \/ index < NRoots /\ index' = index + 1 /\ pc' = "roots"
         \/ index = NRoots /\ index' = 1
  BY DEF GC_copy_roots
<1>4. PICK cap : cap = root[index]
  OBVIOUS
<1>5. cap \in Cap \cup {Null}
  BY <1>1, <1>4
<1>6. /\ Effect({})
      /\ \E u \in Cap :
            /\ ~u.fwd
            /\ \/ Skipped(cap) /\ root' = root
               \/ /\ CanMove(cap) /\ root' = [root EXCEPT ![index] = u]
                  /\ \A v : Good(cap, v) => Within(u, tobitmap', ToBase) /\ Means(u, v, orig')
  <2>1. CASE Skipped(root[index]) /\ UNCHANGED <<mem, root, ofree, tobitmap, known, orig>>
    <3>1. [base |-> 0, len |-> 0, fwd |-> FALSE] \in Cap
      BY DEF Cap
    <3>2. Effect({})
      BY <1>1, <2>1, SkipEffect
    <3> QED
      BY <1>4, <2>1, <3>1, <3>2
  <2>2. CASE /\ CanMove(root[index])
             /\ root' = [root EXCEPT ![index] = Moved(root[index])]
             /\ mem' = CopiedMem(ObjectCap(root[index]))
             /\ GC_copy_object(ObjectCap(root[index]))
    <3>1. Effect({})
      BY <1>1, <1>2, <1>4, <1>5, <2>2, CopyEffect
    <3>2. PICK u : u = Moved(cap)
      OBVIOUS
    <3>3. /\ u \in Cap /\ ~u.fwd
          /\ \A v : Good(cap, v) => Within(u, tobitmap', ToBase) /\ Means(u, v, orig')
      BY <1>1, <1>4, <1>5, <2>2, <3>1, <3>2, MovedGood
    <3> QED
      BY <1>4, <2>2, <3>1, <3>2, <3>3
  <2> QED
    BY <2>1, <2>2 DEF GC_copy_roots
<1>7. PICK u \in Cap :
         /\ ~u.fwd
         /\ \/ Skipped(cap) /\ root' = root
            \/ /\ CanMove(cap) /\ root' = [root EXCEPT ![index] = u]
               /\ \A v : Good(cap, v) => Within(u, tobitmap', ToBase) /\ Means(u, v, orig')
  BY <1>6
<1>8. /\ RegionInv' /\ ToInv' /\ SrcInv' /\ ForwardInv' /\ RememberedInv' /\ MemcpyInv'
  <2>1. ASSUME NEW w \in ToUsed, Unscanned(w) PROVE Unscanned(w)'
    <3>1. ToBase' = ToBase
      BY <1>2, SrcKept
    <3>2. CASE ToBase + oscan <= w
      BY <1>3, <3>1, <3>2 DEF Unscanned
    <3>3. CASE ~(ToBase + oscan <= w)
      <4>1. PICK i \in DOMAIN remset : remset[i] = w
        BY <2>1, <3>3 DEF Unscanned
      <4>2. i \in Nat /\ 1 <= i
        BY <4>1 DEF IInv
      <4>3. pc' = "remset" => index' <= i
        BY <1>3, <4>2
      <4> QED
        BY <1>3, <4>1, <4>3 DEF Unscanned
    <3> QED
      BY <3>2, <3>3
  <2>2. /\ pc' \notin {"memcpy", "retry"} /\ oscan' \in Nat /\ oscan' <= ofree
        /\ remset' = remset
    BY <1>1, <1>3
  <2> QED
    BY <1>1, <1>2, <1>3, <1>6, <1>7, <2>1, <2>2, EffectKeeps
<1>9. ASSUME NEW r \in Roots
      PROVE  /\ root'[r] # Null => ~root'[r].fwd
             /\ kroot'[r] => Good(root[r], sroot[r])'
             /\ kroot'[r] /\ InSrc(root[r])' => pc' = "roots" /\ index' <= r
  <2>1. PICK c, v : c = root'[r] /\ v = sroot[r]
    OBVIOUS
  <2>2. SrcBase' = SrcBase /\ SrcBitmap' = SrcBitmap /\ ToBase' = ToBase
    BY <1>2, SrcKept
  <2>3. CASE root'[r] = root[r] /\ (r = index => Skipped(cap))
    <3>1. /\ c = root[r] /\ (c # Null => ~c.fwd)
          /\ kroot[r] => Good(c, v)
          /\ kroot[r] /\ InSrc(c) => index <= r
      BY <1>1, <1>3, <2>1, <2>3 DEF RootInv
    <3>2. kroot[r] => Good(c, v)' /\ (InSrc(c)' => InSrc(c))
      BY <1>1, <1>2, <1>6, <3>1, Carried
    <3>3. kroot[r] /\ InSrc(c) => r # index
      <4>1. r = index => Skipped(c)
        BY <1>4, <2>3, <3>1
      <4> QED
        BY <1>1, <4>1, SrcNotSkipped
    <3>4. kroot[r] /\ InSrc(c)' => index < r
      <4>1. r \in Nat /\ index \in Nat
        BY <1>1 DEF Roots
      <4> QED
        BY <3>1, <3>2, <3>3, <4>1
    <3>5. kroot[r] /\ InSrc(c)' => pc' = "roots" /\ index' <= r
      <4>1. r \in 1 .. NRoots /\ index \in 1 .. NRoots /\ NRoots \in Nat
        BY <1>1, ConstantsAssumption DEF Roots
      <4> QED
        BY <1>3, <3>4, <4>1
    <3> QED
      BY <1>3, <2>1, <3>1, <3>2, <3>5 DEF Good, Sound, InTo, InSrc
  <2>4. CASE r = index /\ CanMove(cap) /\ c = u
    <3>1. kroot[r] => Good(cap, v)
      BY <1>1, <1>4, <2>1, <2>4 DEF RootInv
    <3>2. kroot[r] => Within(u, tobitmap', ToBase) /\ Means(u, v, orig')
      BY <1>7, <2>4, <3>1 DEF CanMove
    <3>3. kroot[r] => ~InSrc(u)'
      <4>1. /\ SrcBase \in Nat /\ SrcBitmap.used \in Nat /\ SrcBitmap.map \subseteq Nat
            /\ ToBase \in Nat /\ OldWords \in Nat
            /\ SrcBase + SrcBitmap.used <= ToBase \/ ToBase + OldWords <= SrcBase
        BY <1>1, SrcBounds
      <4>2. /\ tobitmap'.used \in 0 .. OldWords /\ tobitmap'.map \subseteq Nat
        BY <1>6 DEF Effect
      <4>3. ToBase + tobitmap'.used <= SrcBase \/ SrcBase + SrcBitmap.used <= ToBase
        BY <4>1, <4>2
      <4>4. kroot[r] => ~Within(u, SrcBitmap, SrcBase)
        BY <3>2, <4>1, <4>2, <4>3, WithinApart
      <4> QED
        BY <2>2, <4>4 DEF InSrc
    <3>4. kroot[r] => Good(u, v)'
      BY <2>2, <3>2 DEF Good, Sound, InTo
    <3> QED
      BY <1>3, <1>7, <2>1, <2>4, <3>3, <3>4 DEF Good, Sound, InTo, InSrc
  <2>5. \/ root'[r] = root[r] /\ (r = index => Skipped(cap))
        \/ r = index /\ CanMove(cap) /\ c = u
    BY <1>1, <1>7, <2>1
  <2> QED
    BY <2>3, <2>4, <2>5
<1>10. RootInv'
  BY <1>9 DEF RootInv
<1> QED
  BY <1>8, <1>10 DEF GraphInv
(* GC_copy_child on a word x of the tospace.                               *)
LEMMA ChildGraph ==
    ASSUME IInv, GraphInv, stage # "none", SameSpaces, pc \in {"remset", "children"},
           NEW x \in OldSpace(to), GC_copy_child(x), mem[x] = Null \/ x \in ToUsed,
           UNCHANGED <<root, kroot, sroot, snap, yfree, request, pc, remset>>,
           oscan' \in Nat, oscan' <= ofree,
           \A w \in ToUsed : w # x /\ Unscanned(w) => Unscanned(w)'
    PROVE  GraphInv'
<1>1. /\ TypeOK /\ BitmapMatchesFree /\ RegionInv /\ RootInv /\ ForwardInv /\ ToInv
  BY DEF IInv, GraphInv
<1>2. /\ x \in Words /\ mem[x] \in Cap \cup {Null}
  BY <1>1, Bounds DEF TypeOK
<1>3. pc' \notin {"memcpy", "retry"} /\ UNCHANGED <<snap, yfree, request>> /\ remset' = remset
  OBVIOUS
<1>4. \E X \in SUBSET ToUsed :
         /\ Effect(X)
         /\ RegionInv' /\ ToInv' /\ SrcInv' /\ ForwardInv' /\ RememberedInv' /\ MemcpyInv'
  <2>1. CASE Skipped(mem[x]) /\ UNCHANGED <<mem, ofree, tobitmap, known, orig>>
    <3>1. PICK u : u = [base |-> 0, len |-> 0, fwd |-> FALSE]
      OBVIOUS
    <3>2. u \in Cap /\ ~u.fwd
      BY <3>1 DEF Cap
    <3>3. Effect({})
      BY <1>1, <2>1, SkipEffect
    <3>4. ~InSrc(mem[x])
      BY <1>1, <2>1, SrcNotSkipped
    <3>5. \A w \in ToUsed \ {} : known[w] /\ InSrc(mem[w]) /\ Unscanned(w) => Unscanned(w)'
      BY <3>4
    <3>6. {} \in SUBSET ToUsed
      OBVIOUS
    <3> QED
      BY <1>3, <3>2, <3>3, <3>5, <3>6, EffectKeeps
  <2>2. CASE /\ CanMove(mem[x])
             /\ mem' = [CopiedMem(ObjectCap(mem[x])) EXCEPT ![x] = Moved(mem[x])]
             /\ GC_copy_object(ObjectCap(mem[x]))
    <3>1. x \in ToUsed
      BY <2>2 DEF CanMove, Skipped, InFromspace, GC_IN
    <3>2. PICK cap, u : cap = mem[x] /\ u = Moved(cap)
      OBVIOUS
    <3>3. PICK m : m = CopiedMem(ObjectCap(cap))
      OBVIOUS
    <3>4. m \in [Words -> Cap \cup {Null}] /\ mem' = [m EXCEPT ![x] = u]
      BY <1>1, <1>2, <2>2, <3>2, <3>3, CopyTypes
    <3>5. /\ mem'[x] = u /\ \A w \in Words : w \notin {x} => mem'[w] = m[w]
      BY <1>2, <3>4
    <3>6. {x} \in SUBSET ToUsed
      BY <3>1
    <3>7. Effect({x})
      BY <1>1, <1>2, <2>2, <3>2, <3>3, <3>5, <3>6, CopyEffect
    <3>8. /\ u \in Cap /\ ~u.fwd
          /\ \A v : Good(cap, v) => Within(u, tobitmap', ToBase) /\ Means(u, v, orig')
      BY <1>1, <1>2, <2>2, <3>2, <3>7, MovedGood
    <3>9. \A w \in {x} : mem'[w] = u
      BY <3>5
    <3>10. \A w \in {x} : known[w] => /\ Within(u, tobitmap', ToBase)
                                      /\ Means(u, snap[orig[w]], orig')
      BY <1>1, <3>1, <3>2, <3>8 DEF ToInv
    <3>11. \A w \in ToUsed \ {x} : known[w] /\ InSrc(mem[w]) /\ Unscanned(w) => Unscanned(w)'
      OBVIOUS
    <3> QED
      BY <1>3, <3>6, <3>7, <3>8, <3>9, <3>10, <3>11, EffectKeeps
  <2> QED
    BY <2>1, <2>2 DEF GC_copy_child
<1>5. PICK X \in SUBSET ToUsed :
         /\ Effect(X)
         /\ RegionInv' /\ ToInv' /\ SrcInv' /\ ForwardInv' /\ RememberedInv' /\ MemcpyInv'
  BY <1>4
<1>6. ASSUME NEW r \in Roots
      PROVE  /\ root'[r] # Null => ~root'[r].fwd
             /\ kroot'[r] => Good(root[r], sroot[r])'
             /\ ~(kroot'[r] /\ InSrc(root[r])')
  <2>1. PICK c, v : c = root[r] /\ v = sroot[r]
    OBVIOUS
  <2>2. (c # Null => ~c.fwd) /\ (kroot[r] => Good(c, v)) /\ ~(kroot[r] /\ InSrc(c))
    BY <1>1, <2>1 DEF RootInv
  <2>3. kroot[r] => Good(c, v)' /\ (InSrc(c)' => InSrc(c))
    BY <1>1, <1>5, <2>2, Carried
  <2>4. c = root'[r] /\ v = sroot'[r]
    BY <2>1
  <2> QED
    BY <2>2, <2>3, <2>4 DEF Good, Sound, InTo, InSrc
<1>7. RootInv'
  BY <1>6 DEF RootInv
<1> QED
  BY <1>5, <1>7 DEF GraphInv

(* An iteration of GC_copy_remembered_set, and its end.                    *)
LEMMA RemsetGraph ==
    ASSUME IInv, GraphInv, GC_copy_remembered_set
    PROVE  GraphInv'
<1>1. /\ TypeOK /\ BitmapMatchesFree /\ stage # "none" /\ index \in Nat /\ index >= 1
      /\ pc = "remset" /\ remset \in Seq(OldSpace(to)) /\ oscan \in Nat /\ oscan <= ofree
      /\ RegionInv /\ RememberedInv /\ RootInv
  BY DEF IInv, ControlInv, TypeOK, GC_copy_remembered_set, GraphInv
<1>2. SameSpaces /\ UNCHANGED <<root, kroot, sroot, snap, yfree, request, oscan>>
  BY DEF SameSpaces, GC_copy_remembered_set
<1>3. ToBase' = ToBase
  BY <1>2, SrcKept
<1>4. CASE /\ index <= Len(remset) /\ GC_copy_child(remset[index])
           /\ index' = index + 1 /\ UNCHANGED <<remset, pc>>
  <2>1. PICK x : x = remset[index]
    OBVIOUS
  <2>2. x \in OldSpace(to) /\ index \in DOMAIN remset
    BY <1>1, <1>4, <2>1
  <2>3. mem[x] = Null \/ x \in ToUsed
    <3>1. OldSpace(to) = ToBase .. (ToBase + OldWords - 1) /\ ToBase \in Nat /\ ofree \in Nat
      BY <1>1, Bounds
    <3>2. x < ToBase + ofree \/ mem[x] = Null
      BY <1>1, <2>1, <2>2 DEF RememberedInv
    <3> QED
      BY <2>2, <3>1, <3>2 DEF ToUsed
  <2>4. ASSUME NEW w \in ToUsed, w # x, Unscanned(w) PROVE Unscanned(w)'
    <3>1. CASE ToBase + oscan <= w
      BY <1>2, <1>3, <3>1 DEF Unscanned
    <3>2. CASE ~(ToBase + oscan <= w)
      <4>1. PICK i \in DOMAIN remset : remset[i] = w /\ index <= i
        BY <1>1, <2>4, <3>2 DEF Unscanned
      <4>2. i \in Nat /\ i # index
        BY <1>1, <2>1, <2>4, <4>1
      <4>3. index' <= i
        BY <1>1, <1>4, <4>1, <4>2
      <4> QED
        BY <1>4, <4>1, <4>3 DEF Unscanned
    <3> QED
      BY <3>1, <3>2
  <2> QED
    BY <1>1, <1>2, <1>4, <2>1, <2>2, <2>3, <2>4, ChildGraph
<1>5. CASE /\ index > Len(remset)
           /\ remset' = <<>> /\ index' = 1 /\ pc' = "children"
           /\ UNCHANGED <<mem, ofree, tobitmap, known, orig>>
  <2>1. Effect({})
    BY <1>1, <1>5, SkipEffect
  <2>2. PICK u : u = [base |-> 0, len |-> 0, fwd |-> FALSE]
    OBVIOUS
  <2>3. u \in Cap /\ ~u.fwd
    BY <2>2 DEF Cap
  <2>4. ASSUME NEW w \in ToUsed, Unscanned(w) PROVE Unscanned(w)'
    <3>1. ASSUME NEW i \in DOMAIN remset PROVE ~(index <= i)
      BY <1>1, <1>5
    <3>2. ToBase + oscan <= w
      BY <1>1, <2>4, <3>1 DEF Unscanned
    <3> QED
      BY <1>2, <1>3, <3>2 DEF Unscanned
  <2>5. RegionInv' /\ ToInv' /\ SrcInv' /\ ForwardInv' /\ RememberedInv' /\ MemcpyInv'
    <3>1. /\ pc' \notin {"memcpy", "retry"} /\ oscan' \in Nat /\ oscan' <= ofree
          /\ UNCHANGED <<snap, yfree, request>>
      BY <1>1, <1>2, <1>5
    <3>2. \A w \in ToUsed \ {} : known[w] /\ InSrc(mem[w]) /\ Unscanned(w) => Unscanned(w)'
      BY <2>4
    <3>3. {} \in SUBSET ToUsed
      OBVIOUS
    <3> QED
      BY <1>1, <1>2, <1>5, <2>1, <2>3, <3>1, <3>2, <3>3, EffectKeeps
  <2>6. RootInv'
    <3>1. SrcBase' = SrcBase /\ SrcBitmap' = SrcBitmap /\ stage' = stage
      BY <1>2, SrcKept
    <3> QED
      BY <1>1, <1>2, <1>3, <1>5, <3>1 DEF RootInv, Good, Sound, InTo, InSrc
  <2> QED
    BY <2>5, <2>6 DEF GraphInv
<1> QED
  BY <1>4, <1>5 DEF GC_copy_remembered_set

(* An iteration of GC_copy_children.                                       *)
LEMMA ChildrenGraph ==
    ASSUME IInv, GraphInv, GC_copy_children
    PROVE  GraphInv'
<1>1. /\ TypeOK /\ BitmapMatchesFree /\ stage # "none" /\ pc = "children"
      /\ oscan \in Nat /\ ofree \in Nat /\ oscan < ofree /\ oscan' = oscan + 1
  BY ConstantsAssumption DEF IInv, ControlInv, TypeOK, GC_copy_children
<1>2. /\ SameSpaces
      /\ UNCHANGED <<root, kroot, sroot, snap, yfree, request, pc, index, remset>>
  BY DEF SameSpaces, GC_copy_children, ctlVars
<1>3. ToBase' = ToBase
  BY <1>2, SrcKept
<1>4. /\ ToBase \in Nat /\ OldWords \in Nat /\ ofree <= OldWords
      /\ OldSpace(to) = ToBase .. (ToBase + OldWords - 1)
  BY <1>1, Bounds
<1>5. PICK x : x = ToBase + oscan
  OBVIOUS
<1>6. x \in OldSpace(to) /\ x \in ToUsed
  BY <1>1, <1>4, <1>5 DEF ToUsed
<1>7. GC_copy_child(x)
  BY <1>5 DEF GC_copy_children
<1>8. ASSUME NEW w \in ToUsed, w # x, Unscanned(w) PROVE Unscanned(w)'
  <2>1. CASE ToBase + oscan <= w
    <3>1. w \in Int
      BY <1>1, <1>4 DEF ToUsed
    <3>2. ToBase + (oscan + 1) <= w
      BY <1>1, <1>4, <1>5, <1>8, <2>1, <3>1
    <3> QED
      BY <1>1, <1>3, <3>2 DEF Unscanned
  <2>2. CASE ~(ToBase + oscan <= w)
    BY <1>2, <1>8, <2>2 DEF Unscanned
  <2> QED
    BY <2>1, <2>2
<1>9. oscan' \in Nat /\ oscan' <= ofree
  BY <1>1
<1> QED
  BY <1>1, <1>2, <1>6, <1>7, <1>8, <1>9, ChildGraph
-----------------------------------------------------------------------------
(* The beginning and the end of a copy.                                    *)

(* A cleared bitmap has no objects.                                        *)
LEMMA ClrEmpty ==
    ASSUME NEW size \in Nat, NEW bm \in Bitmaps(size), BitBelow(bm)
    PROVE  GC_bitmap_clr(bm).map = {} /\ GC_bitmap_clr(bm).used = 0
<1>1. bm.size = size /\ bm.used \in 0 .. size /\ bm.map \subseteq 0 .. size
  BY DEF Bitmaps
<1>2. PICK q : q = (size + 7) \div 8
  OBVIOUS
<1>3. q \in Nat /\ size <= 8 * q
  BY <1>2
<1>4. BitsOfBytes(bm.size) = 0 .. (8 * q - 1)
  BY <1>1, <1>2 DEF BitsOfBytes, BITS_TO_BYTES, BitsPerByte
<1>5. bm.map \subseteq 0 .. (8 * q - 1)
  BY <1>1, <1>3 DEF BitBelow
<1> QED
  BY <1>4, <1>5 DEF GC_bitmap_clr

LEMMA NoObjects ==
    ASSUME NEW bm, bm.map = {}
    PROVE  BitBelow(bm) /\ \A cap, b : ~Within(cap, bm, b)
BY DEF BitBelow, Within

(* A value stands for itself when the collection begins.                   *)
LEMMA MeansSelf ==
    ASSUME TypeOK, BitmapMatchesFree, NEW c, Sound(c)
    PROVE  Means(c, c, [w \in Words |-> w])
<1>1. /\ SrcBase \in Nat /\ SrcBitmap.used \in Nat /\ SrcBitmap.map \subseteq Nat
      /\ ToBase \in Nat /\ ofree \in Nat
      /\ tobitmap.used = ofree /\ tobitmap.map \subseteq Nat
      /\ \A w \in SrcUsed : w \in Words
      /\ \A w \in ToUsed : w \in Words
  BY SrcBounds
<1>2. CASE c = Null
  BY <1>2 DEF Means
<1>3. CASE c # Null
  <2>1. WordOf(c) \in Words /\ ~c.fwd
    BY <1>1, <1>3, WithinFacts DEF Sound, InSrc, InTo, SrcUsed, ToUsed
  <2> QED
    BY <1>3, <2>1 DEF Means
<1> QED
  BY <1>2, <1>3

LEMMA PromotionGraph ==
    ASSUME IInv, GraphInv, NEW forced \in BOOLEAN, NEW back \in {"run", "retry"},
           pc = "run", GC_collect_region(forced, back),
           request' = NoRequest \/ request'.size > 0,
           back = "retry" => request' # NoRequest
    PROVE  GraphInv'
<1>1. /\ TypeOK /\ BitmapMatchesFree /\ stage = "none"
      /\ RegionInv /\ RootInv /\ ToInv /\ SrcInv /\ ForwardInv /\ RememberedInv
  BY DEF IInv, ControlInv, GraphInv
<1>2. UNCHANGED <<mem, root, yfree, ybitmap, to, ofree, tobitmap, frombitmap, remset,
                  known, kroot>>
  BY DEF GC_collect_region
<1>3. /\ stage' \in {"none", "promote"} /\ oscan' = oscan
      /\ \/ pc' = "roots" /\ index' = 1
         \/ pc' = back /\ stage' = "none"
      /\ stage' # "none" => /\ snap' = mem /\ sroot' = root
                            /\ orig' = [w \in Words |-> w]
  <2>1. CASE BeginPromotion(forced) /\ pc' = "roots"
    <3>1. /\ stage' = "promote" /\ index' = 1 /\ oscan' = ofree /\ snap' = mem
          /\ sroot' = root /\ orig' = [w \in Words |-> w]
      BY <2>1 DEF BeginPromotion
    <3>2. oscan = ofree
      BY <1>1 DEF RegionInv
    <3> QED
      BY <2>1, <3>1, <3>2
  <2>2. CASE Refuse /\ pc' = back
    BY <1>1, <2>2 DEF Refuse
  <2> QED
    BY <2>1, <2>2 DEF GC_collect_region
<1>4. /\ SrcBase' = SrcBase /\ SrcBitmap' = SrcBitmap /\ SrcUsed' = SrcUsed
      /\ ToBase' = ToBase /\ ToUsed' = ToUsed
  BY <1>1, <1>2, <1>3 DEF SrcBase, SrcBitmap, SrcUsed, ToBase, ToUsed
<1>5. ASSUME NEW c, Sound(c)
      PROVE  Sound(c)' /\ (InSrc(c)' => InSrc(c)) /\ (stage' # "none" => Means(c, c, orig'))
  <2>1. stage' # "none" => Means(c, c, orig')
    BY <1>1, <1>3, <1>5, MeansSelf
  <2> QED
    BY <1>2, <1>4, <1>5, <2>1 DEF Sound, InSrc, InTo
<1>6. RegionInv'
  BY <1>1, <1>2, <1>3 DEF RegionInv, BitBelow
<1>7. RootInv'
  <2> SUFFICES ASSUME NEW r \in Roots
               PROVE  /\ root'[r] # Null => ~root'[r].fwd
                      /\ kroot'[r] => Good(root[r], sroot[r])'
                      /\ kroot'[r] /\ InSrc(root[r])' =>
                            stage' = "none" \/ (pc' = "roots" /\ index' <= r)
    BY DEF RootInv
  <2>1. PICK c : c = root[r]
    OBVIOUS
  <2>2. (c # Null => ~c.fwd) /\ (kroot[r] => Sound(c))
    BY <1>1, <2>1 DEF RootInv, Good
  <2>3. root'[r] = c /\ (stage' # "none" => sroot'[r] = c) /\ kroot'[r] = kroot[r]
    BY <1>2, <1>3, <2>1
  <2>4. kroot[r] => Good(root[r], sroot[r])'
    BY <1>5, <2>2, <2>3 DEF Good, Sound, InSrc, InTo
  <2>5. 1 <= r
    BY DEF Roots
  <2> QED
    BY <1>3, <2>2, <2>3, <2>4, <2>5
<1>8. ToInv'
  <2> SUFFICES ASSUME NEW w \in ToUsed, known[w]
               PROVE  Good(mem[w], snap[orig[w]])' /\ (InSrc(mem[w])' => Unscanned(w)')
    BY <1>2, <1>4 DEF ToInv
  <2>1. PICK c : c = mem[w]
    OBVIOUS
  <2>2. Sound(c) /\ (InSrc(c) => Unscanned(w)) /\ w \in Words
    BY <1>1, <2>1, SrcBounds DEF ToInv, Good
  <2>3. mem'[w] = c /\ (stage' # "none" => snap'[orig'[w]] = c)
    BY <1>2, <1>3, <2>1, <2>2
  <2>4. Unscanned(w) => Unscanned(w)'
    BY <1>2, <1>3, <1>4 DEF Unscanned
  <2> QED
    BY <1>5, <2>2, <2>3, <2>4 DEF Good, Sound, InSrc, InTo
<1>9. \A p \in SrcBitmap.map : ~IsFwd(SrcBase + p)
  BY <1>1 DEF ForwardInv
<1>10. SrcInv'
  <2> SUFFICES ASSUME NEW w \in SrcUsed, known[w]
               PROVE  Good(mem[w], snap[orig[w]])'
    BY <1>2, <1>4 DEF SrcInv
  <2>1. PICK c : c = mem[w]
    OBVIOUS
  <2>2. w \in Words
    BY <1>1, SrcBounds
  <2>3. Sound(c)
    <3>1. SrcBase \in Nat /\ w \in Nat /\ SrcBase + (w - SrcBase) = w
      BY <1>1, <2>2, SrcBounds
    <3>2. ~(w - SrcBase \in SrcBitmap.map /\ IsFwd(w))
      BY <1>9, <3>1
    <3> QED
      BY <1>1, <2>1, <3>2 DEF SrcInv, Good
  <2>4. mem'[w] = c /\ (stage' # "none" => snap'[orig'[w]] = c)
    BY <1>2, <1>3, <2>1, <2>2
  <2> QED
    BY <1>5, <2>3, <2>4 DEF Good, Sound, InSrc, InTo
<1>11. ForwardInv'
  BY <1>1, <1>2, <1>4, <1>9 DEF ForwardInv, IsFwd
<1>12. RememberedInv'
  BY <1>1, <1>2, <1>4 DEF RememberedInv
<1>13. MemcpyInv'
  BY <1>3 DEF MemcpyInv
<1> QED
  BY <1>6, <1>7, <1>8, <1>10, <1>11, <1>12, <1>13 DEF GraphInv

(* The end of a copy: everything that the program may rely on is in the    *)
(* tospace, which is the fromspace of the next collection, if there is one.*)
LEMMA CopyEndGraph ==
    ASSUME IInv, GraphInv, IInv', CopyDone, yfree' = 0, ybitmap'.map = {},
           UNCHANGED <<mem, root, remset, request, kroot>>,
           EndCollection \/ \E why \in {"force", "watermark"} : BeginMajor(why)
    PROVE  GraphInv'
<1>1. /\ TypeOK /\ BitmapMatchesFree /\ stage # "none" /\ remset = <<>>
      /\ oscan = ofree /\ pc = "children" /\ to \in {0, 1}
      /\ RegionInv /\ RootInv /\ ToInv /\ SrcInv /\ ForwardInv /\ RememberedInv
  BY DEF IInv, ControlInv, GraphInv, CopyDone, TypeOK
<1>2. /\ ToBase \in Nat /\ ofree \in Nat /\ tobitmap.used = ofree
  BY <1>1, SrcBounds
<1>3. ASSUME NEW r \in Roots, kroot[r]
      PROVE  (root[r] = Null \/ InTo(root[r])) /\ Means(root[r], sroot[r], orig)
  BY <1>1, <1>3 DEF RootInv, Good, Sound
<1>4. ASSUME NEW w \in ToUsed, known[w]
      PROVE  (mem[w] = Null \/ InTo(mem[w])) /\ Means(mem[w], snap[orig[w]], orig)
  <2>1. ~Unscanned(w)
    BY <1>1, <1>2 DEF Unscanned, ToUsed
  <2> QED
    BY <1>1, <1>4, <2>1 DEF ToInv, Good, Sound
<1>5. ASSUME NEW r \in Roots PROVE root[r] # Null => ~root[r].fwd
  BY <1>1 DEF RootInv
<1>6. \A p \in tobitmap.map : ~IsFwd(ToBase + p)
  BY <1>1 DEF ForwardInv
<1>7. ybitmap'.used = 0 /\ BitBelow(ybitmap')
  BY NoObjects DEF IInv, BitmapMatchesFree
<1>8. CASE EndCollection
  <2>1. /\ stage' = "none" /\ pc' = IF request = NoRequest THEN "run" ELSE "retry"
        /\ UNCHANGED <<to, ofree, oscan, tobitmap, frombitmap>>
        /\ known' = [w \in Words |-> w \in ToBase .. (ToBase + ofree - 1) /\ known[w]]
    BY <1>8 DEF EndCollection
  <2>2. /\ SrcBitmap' = ybitmap' /\ SrcBase' = YoungBase /\ SrcUsed' = {}
        /\ ToBase' = ToBase /\ ToUsed' = ToUsed
    BY <1>7, <2>1 DEF SrcBase, SrcBitmap, SrcUsed, YoungBase, ToBase, ToUsed
  <2>3. \A c : ~InSrc(c)'
    BY <2>2, NoObjects DEF InSrc
  <2>4. \A c : InTo(c)' = InTo(c)
    BY <2>1, <2>2 DEF InTo
  <2>5. RegionInv'
    BY <1>1, <1>7, <2>1 DEF RegionInv, BitBelow
  <2>6. RootInv'
    <3> SUFFICES ASSUME NEW r \in Roots
                 PROVE  (root'[r] # Null => ~root'[r].fwd) /\ (kroot'[r] => Sound(root[r])')
      BY <2>1 DEF RootInv, Good
    <3>1. kroot[r] => root[r] = Null \/ InTo(root[r])
      BY <1>3
    <3>2. kroot[r] => Sound(root[r])'
      BY <2>1, <2>2, <3>1 DEF Sound, InTo
    <3> QED
      BY <1>5, <3>2
  <2>7. ToInv'
    <3> SUFFICES ASSUME NEW w \in ToUsed, known'[w]
                 PROVE  Sound(mem[w])' /\ ~InSrc(mem[w])'
      BY <2>1, <2>2 DEF ToInv, Good
    <3>1. known[w]
      <4>1. w \in Words
        BY <1>1, SrcBounds
      <4> QED
        BY <2>1, <4>1
    <3>2. mem[w] = Null \/ InTo(mem[w])
      BY <1>4, <3>1
    <3>3. Sound(mem[w])'
      BY <2>1, <2>2, <3>2 DEF Sound, InTo
    <3>4. ~InSrc(mem[w])'
      BY <2>2, NoObjects DEF InSrc
    <3> QED
      BY <3>3, <3>4
  <2>8. SrcInv' /\ ForwardInv'
    BY <1>6, <2>1, <2>2 DEF SrcInv, ForwardInv, IsFwd
  <2>9. RememberedInv' /\ MemcpyInv'
    BY <1>1, <2>1 DEF RememberedInv, MemcpyInv
  <2> QED
    BY <2>5, <2>6, <2>7, <2>8, <2>9 DEF GraphInv
<1>9. ASSUME NEW why \in {"force", "watermark"}, BeginMajor(why)
      PROVE  GraphInv'
  <2>1. /\ stage' = why /\ pc' = "roots" /\ index' = 1
        /\ to' = 1 - to /\ ofree' = 0 /\ oscan' = 0
        /\ frombitmap' = tobitmap /\ tobitmap' = GC_bitmap_clr(frombitmap)
        /\ UNCHANGED <<known, snap, sroot, orig>>
    BY <1>9 DEF BeginMajor
  <2>2. tobitmap'.map = {} /\ BitBelow(tobitmap')
    <3>1. frombitmap \in Bitmaps(OldWords) /\ OldWords \in Nat /\ BitBelow(frombitmap)
      BY <1>1, ConstantsAssumption DEF TypeOK, RegionInv
    <3> QED
      BY <2>1, <3>1, ClrEmpty, NoObjects
  <2>3. SrcBitmap' = tobitmap /\ SrcBase' = ToBase /\ SrcUsed' = ToUsed /\ ToUsed' = {}
    <3>1. 1 - (1 - to) = to /\ 1 - to \in {0, 1}
      BY <1>1
    <3>2. SrcBitmap' = tobitmap /\ SrcBase' = ToBase
      BY <2>1, <3>1 DEF SrcBitmap, SrcBase, ToBase
    <3>3. ToBase' \in Nat
      BY <2>1, <3>1, SpacesInMemory DEF ToBase
    <3> QED
      BY <1>2, <2>1, <3>2, <3>3 DEF SrcUsed, ToUsed
  <2>4. RegionInv'
    BY <1>1, <1>7, <2>1, <2>2 DEF RegionInv, BitBelow
  <2>5. ASSUME NEW c, NEW v, c = Null \/ InTo(c), Means(c, v, orig) PROVE Good(c, v)'
    BY <2>1, <2>3, <2>5 DEF Good, Sound, InTo, InSrc
  <2>6. RootInv'
    <3> SUFFICES ASSUME NEW r \in Roots
                 PROVE  /\ root'[r] # Null => ~root'[r].fwd
                        /\ kroot'[r] => Good(root[r], sroot[r])'
                        /\ index' <= r
      BY <2>1 DEF RootInv
    <3>1. PICK c, v : c = root[r] /\ v = sroot[r]
      OBVIOUS
    <3>2. kroot[r] => Good(c, v)'
      BY <1>3, <2>5, <3>1
    <3>3. c = root'[r] /\ v = sroot'[r]
      BY <2>1, <3>1
    <3>4. index' <= r
      BY <2>1 DEF Roots
    <3> QED
      BY <1>5, <3>1, <3>2, <3>3, <3>4 DEF Good, Sound, InTo, InSrc
  <2>7. SrcInv'
    <3> SUFFICES ASSUME NEW w \in ToUsed, known[w] PROVE Good(mem[w], snap[orig[w]])'
      BY <2>1, <2>3 DEF SrcInv
    <3>1. PICK c, v : c = mem[w] /\ v = snap[orig[w]]
      OBVIOUS
    <3>2. Good(c, v)'
      BY <1>4, <2>5, <3>1
    <3>3. c = mem'[w] /\ v = snap'[orig'[w]]
      BY <2>1, <3>1
    <3> QED
      BY <3>2, <3>3 DEF Good, Sound, InTo, InSrc
  <2>8. ToInv' /\ ForwardInv'
    BY <1>6, <2>2, <2>3 DEF ToInv, ForwardInv, IsFwd
  <2>9. RememberedInv' /\ MemcpyInv'
    BY <1>1, <2>1 DEF RememberedInv, MemcpyInv
  <2> QED
    BY <2>4, <2>6, <2>7, <2>8, <2>9 DEF GraphInv
<1> QED
  BY <1>8, <1>9

LEMMA DoneGraph ==
    ASSUME IInv, GraphInv, IInv', PromotionDone \/ MajorDone
    PROVE  GraphInv'
<1>1. /\ CopyDone /\ UNCHANGED <<mem, root, remset, request, kroot>>
      /\ EndCollection \/ \E why \in {"force", "watermark"} : BeginMajor(why)
  BY DEF PromotionDone, MajorDone
<1>2. /\ ybitmap \in Bitmaps(YoungWords) /\ YoungWords \in Nat /\ ybitmap.used = yfree
      /\ BitBelow(ybitmap) /\ ybitmap.map \subseteq Nat
  <2>1. ybitmap \in Bitmaps(YoungWords) /\ YoungWords \in Nat /\ ybitmap.used = yfree
    BY ConstantsAssumption DEF IInv, TypeOK, BitmapMatchesFree
  <2>2. ybitmap.map \subseteq Nat
    BY <2>1 DEF Bitmaps
  <2> QED
    BY <2>1, <2>2 DEF GraphInv, RegionInv
<1>3. CASE PromotionDone
  <2>1. yfree' = 0 /\ ybitmap' = GC_bitmap_clr(ybitmap)
    BY <1>3 DEF PromotionDone
  <2> QED
    BY <1>1, <1>2, <2>1, ClrEmpty, CopyEndGraph
<1>4. CASE MajorDone
  <2>1. yfree' = yfree /\ ybitmap' = ybitmap /\ yfree = 0
    BY <1>4 DEF MajorDone, GraphInv, RegionInv
  <2>2. ybitmap.map = {}
    BY <1>2, <2>1 DEF BitBelow
  <2> QED
    BY <1>1, <2>1, <2>2, CopyEndGraph
<1> QED
  BY <1>3, <1>4
-----------------------------------------------------------------------------
(* The steps of the program.                                               *)

(* Between two collections a value is good when it is sound, and soundness *)
(* depends on the regions only.                                            *)
LEMMA MutatorFrame ==
    ASSUME stage = "none", UNCHANGED <<gcVars, stage>>
    PROVE  /\ SrcBase' = SrcBase /\ SrcBitmap' = SrcBitmap /\ SrcUsed' = SrcUsed
           /\ ToBase' = ToBase /\ ToUsed' = ToUsed
           /\ \A c : /\ InSrc(c)' = InSrc(c)
                     /\ Sound(c) => Sound(c)'
<1>1. UNCHANGED <<ybitmap, frombitmap, tobitmap, to, ofree, stage>>
  BY DEF gcVars
<1>2. /\ SrcBase' = SrcBase /\ SrcBitmap' = SrcBitmap /\ SrcUsed' = SrcUsed
      /\ ToBase' = ToBase /\ ToUsed' = ToUsed
  BY <1>1 DEF SrcBase, SrcBitmap, SrcUsed, ToBase, ToUsed
<1> QED
  BY <1>1, <1>2 DEF Sound, InSrc, InTo

(* A step that puts at most NULL into words of the heap.                   *)
LEMMA StillGraph ==
    ASSUME IInv, GraphInv, stage = "none", UNCHANGED <<gcVars, stage, remset>>,
           pc \in {"run", "retry", "memcpy"}, pc' \in {"run", "memcpy"},
           request' = request \/ request' = NoRequest,
           \A w \in Words : \/ mem'[w] = mem[w] /\ (known'[w] => known[w])
                            \/ mem'[w] = Null,
           \A r \in Roots : /\ root'[r] # Null => ~root'[r].fwd
                            /\ kroot'[r] => Sound(root'[r])
    PROVE  RegionInv' /\ RootInv' /\ ToInv' /\ SrcInv' /\ ForwardInv' /\ RememberedInv'
<1>1. /\ TypeOK /\ BitmapMatchesFree /\ remset \in Seq(OldSpace(to))
      /\ RegionInv /\ ToInv /\ SrcInv /\ ForwardInv /\ RememberedInv /\ stage' = "none"
  BY DEF IInv, GraphInv
<1>2. /\ SrcBase' = SrcBase /\ SrcBitmap' = SrcBitmap /\ SrcUsed' = SrcUsed
      /\ ToBase' = ToBase /\ ToUsed' = ToUsed
      /\ \A c : InSrc(c)' = InSrc(c) /\ (Sound(c) => Sound(c)')
  BY MutatorFrame
<1>3. UNCHANGED <<yfree, ybitmap, to, ofree, oscan, tobitmap, frombitmap>>
  BY DEF gcVars
<1>4. /\ SrcBase \in Nat /\ SrcBitmap.map \subseteq Nat /\ ToBase \in Nat
      /\ tobitmap.map \subseteq Nat /\ OldSpace(to) \subseteq Words
      /\ \A w \in SrcUsed : w \in Words
      /\ \A w \in ToUsed : w \in Words
  BY <1>1, SrcBounds, SpacesInMemory DEF TypeOK
<1>5. RegionInv'
  BY <1>1, <1>3 DEF RegionInv, BitBelow
<1>6. RootInv'
  <2> SUFFICES ASSUME NEW r \in Roots
               PROVE  /\ root'[r] # Null => ~root'[r].fwd
                      /\ kroot'[r] => Sound(root[r])'
    BY <1>1 DEF RootInv, Good
  <2>1. PICK c : c = root'[r]
    OBVIOUS
  <2>2. kroot'[r] => Sound(c)'
    BY <1>2, <2>1
  <2> QED
    BY <2>1, <2>2 DEF Sound, InSrc, InTo
<1>7. ASSUME NEW w \in Words, known'[w] PROVE (mem'[w] = mem[w] /\ known[w]) \/ mem'[w] = Null
  BY <1>7
<1>8. ToInv'
  <2> SUFFICES ASSUME NEW w \in ToUsed, known'[w]
               PROVE  Sound(mem[w])' /\ (InSrc(mem[w])' => Unscanned(w)')
    BY <1>1, <1>2 DEF ToInv, Good
  <2>1. w \in Words
    BY <1>4
  <2>2. CASE mem'[w] = Null
    BY <2>2, NullAssumption DEF Sound, InSrc, Within
  <2>3. CASE mem'[w] = mem[w] /\ known[w]
    <3>1. PICK c : c = mem[w]
      OBVIOUS
    <3>2. Sound(c) /\ (InSrc(c) => Unscanned(w))
      BY <1>1, <2>3, <3>1 DEF ToInv, Good
    <3>3. Unscanned(w) => Unscanned(w)'
      BY <1>2, <1>3 DEF Unscanned
    <3>4. Sound(c)' /\ (InSrc(c)' => Unscanned(w)')
      BY <1>2, <3>2, <3>3
    <3> QED
      BY <2>3, <3>1, <3>4 DEF Sound, InSrc, InTo
  <2> QED
    BY <1>7, <2>1, <2>2, <2>3
<1>9. SrcInv'
  <2> SUFFICES ASSUME NEW w \in SrcUsed, known'[w]
               PROVE  Sound(mem[w])' \/ (w - SrcBase \in SrcBitmap.map /\ IsFwd(w)')
    BY <1>1, <1>2 DEF SrcInv, Good
  <2>1. w \in Words
    BY <1>4
  <2>2. CASE mem'[w] = Null
    BY <2>2 DEF Sound
  <2>3. CASE mem'[w] = mem[w] /\ known[w]
    <3>1. PICK c : c = mem[w]
      OBVIOUS
    <3>2. Sound(c) \/ (w - SrcBase \in SrcBitmap.map /\ IsFwd(w))
      BY <1>1, <2>3, <3>1 DEF SrcInv, Good
    <3>3. Sound(c) => Sound(c)'
      BY <1>2
    <3>4. IsFwd(w) => IsFwd(w)'
      BY <2>3 DEF IsFwd
    <3> QED
      BY <2>3, <3>1, <3>2, <3>3, <3>4 DEF Sound, InSrc, InTo
  <2> QED
    BY <1>7, <2>1, <2>2, <2>3
<1>10. ForwardInv'
  <2>1. ASSUME NEW w \in Words, IsFwd(w)' PROVE IsFwd(w)
    BY <2>1 DEF IsFwd
  <2>2. ASSUME NEW p \in tobitmap.map PROVE ~IsFwd(ToBase + p)'
    <3>1. ToBase + p \in Words /\ ~IsFwd(ToBase + p)
      <4>1. p < ofree /\ p \in Nat
        BY <1>1, <1>4 DEF RegionInv, BitBelow, BitmapMatchesFree
      <4>2. ToBase + p \in ToUsed
        BY <1>1, <1>4, <4>1, SrcBounds DEF ToUsed
      <4> QED
        BY <1>1, <1>4, <4>2 DEF ForwardInv
    <3> QED
      BY <1>2, <2>1, <3>1 DEF IsFwd
  <2>3. ASSUME NEW p \in SrcBitmap.map PROVE ~IsFwd(SrcBase + p)'
    <3>1. SrcBase + p \in Words /\ ~IsFwd(SrcBase + p)
      <4>1. BitBelow(SrcBitmap)
        BY <1>1 DEF RegionInv, SrcBitmap
      <4>2. p < SrcBitmap.used /\ p \in Nat /\ SrcBitmap.used \in Nat
        BY <1>1, <1>4, <4>1, SrcBounds DEF BitBelow
      <4>3. SrcBase + p \in SrcUsed
        BY <1>4, <4>2 DEF SrcUsed
      <4> QED
        BY <1>1, <1>4, <4>3 DEF ForwardInv
    <3> QED
      BY <1>2, <2>1, <3>1 DEF IsFwd
  <2> QED
    BY <1>2, <1>3, <2>2, <2>3 DEF ForwardInv, IsFwd
<1>11. RememberedInv'
  <2> SUFFICES ASSUME NEW i \in DOMAIN remset
               PROVE  remset[i] < ToBase + ofree \/ mem'[remset[i]] = Null
    BY <1>2, <1>3 DEF RememberedInv
  <2>1. remset[i] \in Words
    BY <1>1, <1>4
  <2> QED
    BY <1>1, <2>1 DEF RememberedInv
<1> QED
  BY <1>5, <1>6, <1>8, <1>9, <1>10, <1>11

(* A word that the program may rely on holds a sound value.                *)
LEMMA KnownSound ==
    ASSUME IInv, GraphInv, stage = "none", NEW w \in SrcUsed \cup ToUsed, known[w]
    PROVE  Sound(mem[w])
<1>1. TypeOK /\ BitmapMatchesFree /\ ToInv /\ SrcInv /\ ForwardInv
  BY DEF IInv, GraphInv
<1>2. CASE w \in ToUsed
  BY <1>1, <1>2 DEF ToInv, Good
<1>3. CASE w \in SrcUsed
  <2>1. SrcBase \in Nat /\ w \in Nat
    BY <1>1, <1>3, SrcBounds
  <2>2. SrcBase + (w - SrcBase) = w
    BY <2>1
  <2>3. ~(w - SrcBase \in SrcBitmap.map /\ IsFwd(w))
    BY <1>1, <2>2 DEF ForwardInv
  <2> QED
    BY <1>1, <1>3, <2>3 DEF SrcInv, Good
<1> QED
  BY <1>2, <1>3

(* The program's accesses stay within one object.                          *)
LEMMA AccessInObject ==
    ASSUME IInv, GraphInv, stage = "none", NEW r \in Roots, Usable(r),
           NEW k \in Nat, InBounds(r, k)
    PROVE  /\ InObject(WordOf(root[r]), k + 1)
           /\ WordOf(root[r]) \in Nat
<1>1. PICK c : c = root[r]
  OBVIOUS
<1>2. c # Null /\ (InSrc(c) \/ InTo(c))
  BY <1>1 DEF Usable, GraphInv, RootInv, Good, Sound
<1>3. c \in Cap
  BY <1>2 DEF InSrc, InTo, Within
<1>4. c.base % WordBytes = 0 /\ (k + 1) * WordBytes <= c.len
  BY <1>1 DEF InBounds
<1>5. /\ WordOf(c) \in Nat /\ EndOf(c) \in Nat /\ c.len \in Nat
      /\ EndOf(c) = WordOf(c) + AlignWords(c.len)
  BY <1>3, <1>4, CapFacts
<1>6. k + 1 <= AlignWords(c.len)
  <2>1. PICK a : a = AlignWords(c.len)
    OBVIOUS
  <2>2. a \in Nat /\ c.len <= WordBytes * a /\ WordBytes \in Nat \ {0}
    BY <1>5, <2>1, AlignFacts, ConstantsAssumption
  <2>3. (k + 1) * WordBytes <= WordBytes * a
    BY <1>4, <1>5, <2>2
  <2> QED
    BY <2>1, <2>2, <2>3
<1>7. WordOf(c) + (k + 1) <= EndOf(c) /\ AlignWords(c.len) \in Nat
  BY <1>5, <1>6, AlignFacts
<1>8. ASSUME NEW bm, bm.map \subseteq Nat, bm.used \in Nat, NEW b \in Nat, Within(c, bm, b)
      PROVE  \E p \in bm.map, n \in 1 .. bm.used :
                IsObject(bm, p, n) /\ b + p <= WordOf(c) /\ WordOf(c) + (k + 1) <= b + p + n
  <2>1. PICK p \in bm.map, n \in 1 .. bm.used :
           IsObject(bm, p, n) /\ b + p <= WordOf(c) /\ EndOf(c) <= b + p + n
    BY <1>8 DEF Within
  <2>2. WordOf(c) + (k + 1) <= b + p + n
    BY <1>5, <1>7, <1>8, <2>1
  <2> QED
    BY <2>1, <2>2
<1>9. /\ SrcBase \in Nat /\ SrcBitmap.used \in Nat /\ SrcBitmap.map \subseteq Nat
      /\ ToBase \in Nat /\ tobitmap.used \in Nat /\ tobitmap.map \subseteq Nat
  BY SrcBounds DEF IInv
<1>10. InObject(WordOf(c), k + 1)
  BY <1>2, <1>8, <1>9 DEF InSrc, InTo, InObject
<1> QED
  BY <1>1, <1>5, <1>10

(* The words of an object are in use, and only the first one starts it.    *)
LEMMA InObjectWords ==
    ASSUME TypeOK, BitmapMatchesFree, RegionInv,
           NEW w \in Nat, NEW n \in Nat, InObject(w, n), NEW i \in 0 .. (n - 1)
    PROVE  /\ w + i \in SrcUsed \cup ToUsed /\ w + i \in Words
           /\ i > 0 => /\ \A p \in SrcBitmap.map : w + i # SrcBase + p
                       /\ \A p \in tobitmap.map : w + i # ToBase + p
<1>1. /\ SrcBase \in Nat /\ SrcBitmap.used \in Nat /\ SrcBitmap.map \subseteq Nat
      /\ ToBase \in Nat /\ ofree \in Nat /\ tobitmap.used = ofree /\ tobitmap.map \subseteq Nat
      /\ \A x \in SrcUsed : x \in Words
      /\ \A x \in ToUsed : x \in Words
      /\ \A x \in SrcUsed : x \notin ToUsed
  BY SrcBounds
<1>2. /\ \A p \in SrcBitmap.map : SrcBase + p \in SrcUsed
      /\ \A p \in tobitmap.map : ToBase + p \in ToUsed
  <2>1. BitBelow(SrcBitmap) /\ BitBelow(tobitmap)
    BY DEF RegionInv, SrcBitmap
  <2> QED
    BY <1>1, <2>1 DEF BitBelow, SrcUsed, ToUsed
<1>3. ASSUME NEW bm, bm.map \subseteq Nat, bm.used \in Nat, NEW b \in Nat,
             NEW p \in bm.map, NEW k \in 1 .. bm.used,
             IsObject(bm, p, k), b + p <= w, w + n <= b + p + k
      PROVE  /\ w + i \in b .. (b + bm.used - 1)
             /\ i > 0 => \A q \in bm.map : w + i # b + q
  <2>1. p \in Nat /\ k \in Nat /\ p + k <= bm.used /\ \A q \in bm.map : ~(p < q /\ q < p + k)
    BY <1>3 DEF IsObject
  <2>2. b + p <= w + i /\ w + i < b + p + k /\ (i > 0 => b + p < w + i)
    BY <1>3, <2>1
  <2>3. ASSUME i > 0, NEW q \in bm.map, w + i = b + q PROVE FALSE
    <3>1. q \in Nat /\ p < q /\ q < p + k
      BY <1>3, <2>1, <2>2, <2>3
    <3> QED
      BY <2>1, <3>1
  <2> QED
    BY <1>3, <2>1, <2>2, <2>3
<1>4. CASE \E p \in SrcBitmap.map, k \in 1 .. SrcBitmap.used :
              IsObject(SrcBitmap, p, k) /\ SrcBase + p <= w /\ w + n <= SrcBase + p + k
  <2>1. w + i \in SrcUsed /\ (i > 0 => \A q \in SrcBitmap.map : w + i # SrcBase + q)
    BY <1>1, <1>3, <1>4 DEF SrcUsed
  <2>2. \A p \in tobitmap.map : w + i # ToBase + p
    BY <1>1, <1>2, <2>1
  <2> QED
    BY <1>1, <2>1, <2>2
<1>5. CASE \E p \in tobitmap.map, k \in 1 .. tobitmap.used :
              IsObject(tobitmap, p, k) /\ ToBase + p <= w /\ w + n <= ToBase + p + k
  <2>1. w + i \in ToUsed /\ (i > 0 => \A q \in tobitmap.map : w + i # ToBase + q)
    BY <1>1, <1>3, <1>5 DEF ToUsed
  <2>2. \A p \in SrcBitmap.map : w + i # SrcBase + p
    BY <1>1, <1>2, <2>1
  <2> QED
    BY <1>1, <2>1, <2>2
<1> QED
  BY <1>4, <1>5 DEF InObject

(* An interior pointer stays within the bounds of what it was made from.   *)
LEMMA DerivedSound ==
    ASSUME TypeOK, BitmapMatchesFree,
           NEW c, c # Null, Sound(c), NEW offset \in Nat, offset < c.len
    PROVE  Sound(GC_setbaselen(c, c.base + offset, c.len - offset))
<1>1. PICK d : d = GC_setbaselen(c, c.base + offset, c.len - offset)
  OBVIOUS
<1>2. c \in Cap /\ ~c.fwd
  BY DEF Sound, InSrc, InTo, Within
<1>3. c.base \in Nat /\ c.len \in Nat
  BY <1>2 DEF Cap
<1>4. /\ d \in Cap /\ ~d.fwd /\ d.len > 0
      /\ d.base = c.base + offset /\ d.base + d.len = c.base + c.len
  BY <1>1, <1>2, <1>3 DEF GC_setbaselen, Cap
<1>5. EndOf(d) = EndOf(c)
  BY <1>4 DEF EndOf
<1>6. WordOf(c) <= WordOf(d) /\ WordOf(c) \in Nat /\ WordOf(d) \in Nat
  <2>1. PICK x, y : x = WordOf(c) /\ y = WordOf(d)
    OBVIOUS
  <2>2. /\ x \in Nat /\ y \in Nat /\ WordBytes \in Nat \ {0}
        /\ WordBytes * x <= c.base /\ d.base < WordBytes * y + WordBytes
    BY <1>2, <1>4, <2>1, CapFacts, ConstantsAssumption
  <2>3. WordBytes * x < WordBytes * (y + 1)
    BY <1>3, <1>4, <2>2
  <2>4. x <= y
    BY <2>2, <2>3
  <2> QED
    BY <2>1, <2>2, <2>4
<1>7. ASSUME NEW bm, bm.map \subseteq Nat, NEW b \in Nat, Within(c, bm, b) PROVE Within(d, bm, b)
  <2>1. PICK p \in bm.map, n \in 1 .. bm.used :
           IsObject(bm, p, n) /\ b + p <= WordOf(c) /\ EndOf(c) <= b + p + n
    BY <1>7 DEF Within
  <2>2. b + p <= WordOf(d) /\ EndOf(d) <= b + p + n
    BY <1>5, <1>6, <1>7, <2>1
  <2> QED
    BY <1>4, <2>1, <2>2 DEF Within
<1> QED
  BY <1>1, <1>7, SrcBounds DEF Sound, InSrc, InTo

(* The program loads, forgets and computes pointers.                       *)
LEMMA ProgramGraph ==
    ASSUME IInv, GraphInv,
           NEW r \in Roots, NEW r2 \in Roots, NEW k \in Nat, NEW offset \in Nat,
           Clear(r) \/ Forget(r) \/ Derive(r, r2, offset) \/ Load(r, k, r2)
    PROVE  GraphInv'
<1>1. /\ TypeOK /\ BitmapMatchesFree /\ RootInv /\ RegionInv
      /\ root \in [Roots -> Cap \cup {Null}] /\ kroot \in [Roots -> BOOLEAN]
  BY DEF IInv, GraphInv, TypeOK
<1>2. /\ pc = "run" /\ UNCHANGED <<mem, gcVars, remset, ctlVars, known, histVars>>
  BY DEF Clear, Forget, Derive, Load, Usable
<1>3. stage = "none"
  BY <1>2 DEF IInv, ControlInv
<1>4. ASSUME NEW q \in Roots PROVE (root[q] # Null => ~root[q].fwd) /\ (kroot[q] => Sound(root[q]))
  BY <1>1 DEF RootInv, Good
<1>5. ASSUME NEW x \in Roots, NEW c, SetRoot(x, c), Sound(c)
      PROVE  \A q \in Roots : /\ root'[q] # Null => ~root'[q].fwd
                              /\ kroot'[q] => Sound(root'[q])
  <2>1. root' = [root EXCEPT ![x] = c] /\ kroot' = [kroot EXCEPT ![x] = TRUE]
    BY <1>5 DEF SetRoot
  <2>2. c # Null => ~c.fwd
    BY <1>5 DEF Sound, InSrc, InTo, Within
  <2> SUFFICES ASSUME NEW q \in Roots
               PROVE  (root'[q] # Null => ~root'[q].fwd) /\ (kroot'[q] => Sound(root'[q]))
    OBVIOUS
  <2>3. CASE q = x
    <3>1. root'[q] = c
      BY <1>1, <2>1, <2>3
    <3> QED
      BY <1>5, <2>2, <3>1
  <2>4. CASE q # x
    <3>1. root'[q] = root[q] /\ kroot'[q] = kroot[q]
      BY <1>1, <2>1, <2>4
    <3> QED
      BY <1>4, <3>1
  <2> QED
    BY <2>3, <2>4
<1>6. \A q \in Roots : /\ root'[q] # Null => ~root'[q].fwd
                       /\ kroot'[q] => Sound(root'[q])
  <2>1. CASE Clear(r)
    BY <1>5, <2>1 DEF Clear, Sound
  <2>2. CASE Forget(r)
    <3>1. root' = root /\ kroot' = [kroot EXCEPT ![r] = FALSE]
      BY <2>2 DEF Forget
    <3>2. \A q \in Roots : kroot'[q] => kroot[q]
      BY <1>1, <3>1
    <3> QED
      BY <1>4, <3>1, <3>2
  <2>3. CASE Derive(r, r2, offset)
    <3>1. /\ kroot[r] /\ root[r] # Null /\ offset < root[r].len
          /\ SetRoot(r2, GC_setbaselen(root[r], root[r].base + offset, root[r].len - offset))
      BY <2>3 DEF Derive, Usable
    <3>2. Sound(GC_setbaselen(root[r], root[r].base + offset, root[r].len - offset))
      BY <1>1, <1>4, <3>1, DerivedSound
    <3> QED
      BY <1>5, <3>1, <3>2
  <2>4. CASE Load(r, k, r2)
    <3>1. /\ Usable(r) /\ InBounds(r, k) /\ known[WordOf(root[r]) + k]
          /\ SetRoot(r2, mem[WordOf(root[r]) + k])
      BY <2>4 DEF Load
    <3>2. InObject(WordOf(root[r]), k + 1) /\ WordOf(root[r]) \in Nat
      BY <1>3, <3>1, AccessInObject
    <3>3. k + 1 \in Nat /\ k \in 0 .. (k + 1 - 1)
      OBVIOUS
    <3>4. WordOf(root[r]) + k \in SrcUsed \cup ToUsed
      BY <1>1, <3>2, <3>3, InObjectWords
    <3>5. Sound(mem[WordOf(root[r]) + k])
      BY <1>3, <3>1, <3>4, KnownSound
    <3> QED
      BY <1>5, <3>1, <3>5
  <2> QED
    BY <2>1, <2>2, <2>3, <2>4
<1>7. /\ pc' = "run" /\ UNCHANGED <<gcVars, stage, remset>> /\ request' = request
      /\ \A w \in Words : mem'[w] = mem[w] /\ (known'[w] => known[w])
  BY <1>2 DEF ctlVars
<1>8. RegionInv' /\ RootInv' /\ ToInv' /\ SrcInv' /\ ForwardInv' /\ RememberedInv'
  BY <1>2, <1>3, <1>6, <1>7, StillGraph
<1>9. MemcpyInv'
  BY <1>7 DEF MemcpyInv
<1> QED
  BY <1>8, <1>9 DEF GraphInv

(* GC_handle_oy_store: the addresses that were remembered still are, and   *)
(* that of the word is, when it is an old word that holds a young pointer. *)
LEMMA BarrierFacts ==
    ASSUME remset \in Seq(OldSpace(to)), NEW x, NEW cap
    PROVE  /\ \A i \in DOMAIN remset :
                 i \in DOMAIN Barrier(remset, x, cap) /\ Barrier(remset, x, cap)[i] = remset[i]
           /\ \A i \in DOMAIN Barrier(remset, x, cap) :
                 \/ Barrier(remset, x, cap)[i] = x
                 \/ i \in DOMAIN remset /\ Barrier(remset, x, cap)[i] = remset[i]
           /\ x \in OldSpace(to) /\ IsYoung(cap) =>
                 \E i \in DOMAIN Barrier(remset, x, cap) : Barrier(remset, x, cap)[i] = x
<1>1. PICK b : b = Barrier(remset, x, cap)
  OBVIOUS
<1>2. CASE b = Append(remset, x) /\ x \in OldSpace(to)
  <2>1. /\ DOMAIN remset = 1 .. Len(remset) /\ Len(remset) \in Nat
        /\ DOMAIN b = 1 .. (Len(remset) + 1) /\ b[Len(remset) + 1] = x
        /\ \A i \in 1 .. Len(remset) : b[i] = remset[i]
    BY <1>2
  <2>2. \A i \in 1 .. (Len(remset) + 1) : i = Len(remset) + 1 \/ i \in 1 .. Len(remset)
    BY <2>1
  <2>3. Len(remset) + 1 \in DOMAIN b
    BY <2>1
  <2> QED
    BY <1>1, <2>1, <2>2, <2>3
<1>3. CASE /\ b = remset
           /\ x \in OldSpace(to) /\ IsYoung(cap) => \E i \in DOMAIN remset : remset[i] = x
  BY <1>1, <1>3
<1> QED
  BY <1>1, <1>2, <1>3 DEF Barrier, GC_remembered_set_add

(* A store with GC_STORE_CAP.                                              *)
LEMMA WriteGraph ==
    ASSUME IInv, GraphInv, stage = "none", pc \in {"run", "memcpy"}, pc' \in {"run", "memcpy"},
           UNCHANGED <<root, kroot, gcVars, stage, request>>,
           NEW x \in SrcUsed \cup ToUsed, NEW cap, remset' = Barrier(remset, x, cap),
           mem' = [mem EXCEPT ![x] = cap],
           \A w \in Words : w # x => known'[w] = known[w],
           known'[x] => Sound(cap),
           \/ cap = Null
           \/ ~cap.fwd
           \/ /\ \A p \in SrcBitmap.map : x # SrcBase + p
              /\ \A p \in tobitmap.map : x # ToBase + p
    PROVE  RegionInv' /\ RootInv' /\ ToInv' /\ SrcInv' /\ ForwardInv' /\ RememberedInv'
<1>1. /\ TypeOK /\ BitmapMatchesFree /\ remset \in Seq(OldSpace(to)) /\ RootInv
      /\ RegionInv /\ ToInv /\ SrcInv /\ ForwardInv /\ RememberedInv /\ stage' = "none"
      /\ mem \in [Words -> Cap \cup {Null}]
  BY DEF IInv, GraphInv, TypeOK
<1>2. /\ SrcBase' = SrcBase /\ SrcBitmap' = SrcBitmap /\ SrcUsed' = SrcUsed
      /\ ToBase' = ToBase /\ ToUsed' = ToUsed
      /\ \A c : InSrc(c)' = InSrc(c) /\ (Sound(c) => Sound(c)')
  BY MutatorFrame
<1>3. UNCHANGED <<yfree, ybitmap, to, ofree, oscan, tobitmap, frombitmap>>
  BY DEF gcVars
<1>4. /\ SrcBase \in Nat /\ SrcBitmap.map \subseteq Nat /\ ToBase \in Nat
      /\ ofree \in 0 .. OldWords /\ OldWords \in Nat /\ tobitmap.used = ofree
      /\ tobitmap.map \subseteq Nat /\ OldSpace(to) \subseteq Words
      /\ SrcBitmap.used \in Nat
      /\ \A w \in SrcUsed : w \in Words
      /\ \A w \in ToUsed : w \in Words
      /\ OldSpace(to) = ToBase .. (ToBase + OldWords - 1)
  BY <1>1, SrcBounds, SpacesInMemory, Bounds DEF TypeOK
<1>5. x \in Words /\ mem'[x] = cap /\ \A w \in Words : w # x => mem'[w] = mem[w]
  BY <1>1, <1>4
<1>6. /\ \A i \in DOMAIN remset : i \in DOMAIN remset' /\ remset'[i] = remset[i]
      /\ \A i \in DOMAIN remset' : \/ remset'[i] = x
                                   \/ i \in DOMAIN remset /\ remset'[i] = remset[i]
      /\ x \in OldSpace(to) /\ IsYoung(cap) => \E i \in DOMAIN remset' : remset'[i] = x
  BY <1>1, BarrierFacts
<1>7. RegionInv'
  BY <1>1, <1>3 DEF RegionInv, BitBelow
<1>8. RootInv'
  <2> SUFFICES ASSUME NEW r \in Roots
               PROVE  /\ root'[r] # Null => ~root'[r].fwd
                      /\ kroot'[r] => Sound(root[r])'
    BY <1>1 DEF RootInv, Good
  <2>1. PICK c : c = root[r]
    OBVIOUS
  <2>2. (c # Null => ~c.fwd) /\ (kroot[r] => Sound(c))
    BY <1>1, <2>1 DEF RootInv, Good
  <2>3. kroot[r] => Sound(c)'
    BY <1>2, <2>2
  <2> QED
    BY <2>1, <2>2, <2>3 DEF Sound, InSrc, InTo
<1>9. ToInv'
  <2> SUFFICES ASSUME NEW w \in ToUsed, known'[w]
               PROVE  Sound(mem[w])' /\ (InSrc(mem[w])' => Unscanned(w)')
    BY <1>1, <1>2 DEF ToInv, Good
  <2>1. CASE w = x
    <3>1. Sound(cap)
      BY <2>1
    <3>2. ASSUME InSrc(cap) PROVE Unscanned(w)'
      <4>1. IsYoung(cap)
        <5>1. SrcBase = YoungBase /\ SrcBitmap = ybitmap
          BY DEF SrcBase, SrcBitmap
        <5>2. /\ YoungBase \in Nat /\ ybitmap.used \in 0 .. YoungWords /\ YoungWords \in Nat
          BY <1>1, ConstantsAssumption DEF YoungBase, TypeOK, Bitmaps
        <5>3. cap \in Cap /\ WordOf(cap) \in YoungBase .. (YoungBase + ybitmap.used - 1)
          BY <1>4, <3>2, <5>1, WithinFacts DEF InSrc
        <5>4. YoungBase <= WordOf(cap) /\ WordOf(cap) < YoungBase + YoungWords
          BY <5>2, <5>3
        <5> QED
          BY <5>2, <5>3, <5>4, InWords DEF IsYoung
      <4>2. x \in OldSpace(to)
        BY <1>4, <2>1 DEF ToUsed
      <4>3. pc' # "remset"
        OBVIOUS
      <4> QED
        BY <1>6, <2>1, <4>1, <4>2, <4>3 DEF Unscanned
    <3>3. Sound(cap)' /\ (InSrc(cap)' => Unscanned(w)')
      BY <1>2, <3>1, <3>2
    <3> QED
      BY <1>5, <2>1, <3>3 DEF Sound, InSrc, InTo
  <2>2. CASE w # x
    <3>1. PICK c : c = mem[w]
      OBVIOUS
    <3>2. w \in Words /\ known[w] /\ mem'[w] = c
      BY <1>4, <1>5, <2>2, <3>1
    <3>3. Sound(c) /\ (InSrc(c) => Unscanned(w))
      BY <1>1, <3>1, <3>2 DEF ToInv, Good
    <3>4. Unscanned(w) => Unscanned(w)'
      BY <1>2, <1>3, <1>6 DEF Unscanned
    <3>5. Sound(c)' /\ (InSrc(c)' => Unscanned(w)')
      BY <1>2, <3>3, <3>4
    <3> QED
      BY <3>2, <3>5 DEF Sound, InSrc, InTo
  <2> QED
    BY <2>1, <2>2
<1>10. SrcInv'
  <2> SUFFICES ASSUME NEW w \in SrcUsed, known'[w] PROVE Sound(mem[w])'
    BY <1>1, <1>2 DEF SrcInv, Good
  <2>1. PICK c : c = mem'[w]
    OBVIOUS
  <2>2. Sound(c)
    <3>1. CASE w = x
      BY <1>5, <2>1, <3>1
    <3>2. CASE w # x
      <4>1. w \in Words /\ known[w] /\ c = mem[w]
        BY <1>4, <1>5, <2>1, <3>2
      <4> QED
        BY <4>1, KnownSound
    <3> QED
      BY <3>1, <3>2
  <2>3. Sound(c)'
    BY <1>2, <2>2
  <2> QED
    BY <2>1, <2>3 DEF Sound, InSrc, InTo
<1>11. ForwardInv'
  <2>1. ASSUME NEW w \in Words, ~IsFwd(w),
               (\E p \in SrcBitmap.map : w = SrcBase + p) \/ (\E p \in tobitmap.map : w = ToBase + p)
        PROVE  ~IsFwd(w)'
    <3>1. CASE w = x
      BY <1>5, <2>1, <3>1 DEF IsFwd
    <3>2. CASE w # x
      BY <1>5, <2>1, <3>2 DEF IsFwd
    <3> QED
      BY <3>1, <3>2
  <2>2. ASSUME NEW p \in tobitmap.map PROVE ~IsFwd(ToBase + p)'
    <3>1. PICK w : w = ToBase + p
      OBVIOUS
    <3>2. w \in Words /\ ~IsFwd(w)
      <4>1. p < ofree /\ p \in Nat
        BY <1>1, <1>4 DEF RegionInv, BitBelow
      <4>2. w \in ToUsed
        BY <1>4, <3>1, <4>1 DEF ToUsed
      <4> QED
        BY <1>1, <1>4, <3>1, <4>2 DEF ForwardInv
    <3>3. ~IsFwd(w)'
      BY <2>1, <3>1, <3>2
    <3> QED
      BY <1>2, <3>1, <3>3 DEF IsFwd
  <2>3. ASSUME NEW p \in SrcBitmap.map PROVE ~IsFwd(SrcBase + p)'
    <3>1. PICK w : w = SrcBase + p
      OBVIOUS
    <3>2. w \in Words /\ ~IsFwd(w)
      <4>1. BitBelow(SrcBitmap)
        BY <1>1 DEF RegionInv, SrcBitmap
      <4>2. p < SrcBitmap.used /\ p \in Nat
        BY <1>4, <4>1 DEF BitBelow
      <4>3. w \in SrcUsed
        BY <1>4, <3>1, <4>2 DEF SrcUsed
      <4> QED
        BY <1>1, <1>4, <3>1, <4>3 DEF ForwardInv
    <3>3. ~IsFwd(w)'
      BY <2>1, <3>1, <3>2
    <3> QED
      BY <1>2, <3>1, <3>3 DEF IsFwd
  <2> QED
    BY <1>2, <1>3, <2>2, <2>3 DEF ForwardInv, IsFwd
<1>12. RememberedInv'
  <2> SUFFICES ASSUME NEW i \in DOMAIN remset'
               PROVE  remset'[i] < ToBase + ofree \/ mem'[remset'[i]] = Null
    BY <1>2, <1>3 DEF RememberedInv
  <2>1. CASE remset'[i] = x
    <3>1. CASE x \in ToUsed
      BY <1>4, <2>1, <3>1 DEF ToUsed
    <3>2. CASE x \notin ToUsed
      <4>1. x \in SrcUsed
        BY <3>2
      <4>2. x < ToBase
        <5>1. SrcBase = 0 /\ SrcBitmap.used <= YoungWords /\ YoungWords \in Nat
          BY <1>1, ConstantsAssumption DEF SrcBase, SrcBitmap, YoungBase, TypeOK, Bitmaps
        <5>2. ToBase > YoungWords
          <6>1. to \in {0, 1} /\ YoungWords \in Nat /\ OldWords \in Nat
            BY <1>1, ConstantsAssumption DEF TypeOK
          <6>2. CASE to = 0
            BY <6>1, <6>2 DEF ToBase, OldBase
          <6>3. CASE to = 1
            BY <6>1, <6>3 DEF ToBase, OldBase
          <6> QED
            BY <6>1, <6>2, <6>3
        <5> QED
          BY <1>4, <4>1, <5>1, <5>2 DEF SrcUsed
      <4> QED
        BY <1>4, <1>5, <2>1, <4>1, <4>2 DEF SrcUsed
    <3> QED
      BY <3>1, <3>2
  <2>2. CASE remset'[i] # x
    <3>1. i \in DOMAIN remset /\ remset'[i] = remset[i]
      BY <1>6, <2>2
    <3>2. remset[i] \in Words
      BY <1>1, <1>4, <3>1
    <3> QED
      BY <1>1, <1>5, <2>2, <3>1, <3>2 DEF RememberedInv
  <2> QED
    BY <2>1, <2>2
<1> QED
  BY <1>7, <1>8, <1>9, <1>10, <1>11, <1>12

LEMMA StoreGraph ==
    ASSUME IInv, GraphInv, NEW r \in Roots, NEW k \in Nat, Store(r, k)
    PROVE  GraphInv'
<1>1. /\ TypeOK /\ BitmapMatchesFree /\ RegionInv /\ RootInv /\ known \in [Words -> BOOLEAN]
  BY DEF IInv, GraphInv, TypeOK
<1>2. PICK cap : GC_STORE_CAP(r, k, cap) /\ (cap = Null \/ \E y \in Roots : kroot[y] /\ cap = root[y])
  BY DEF Store
<1>3. pc = "run" /\ Usable(r) /\ InBounds(r, k)
  BY <1>2 DEF GC_STORE_CAP, Usable
<1>4. stage = "none"
  BY <1>3 DEF IInv, ControlInv
<1>5. Sound(cap)
  BY <1>1, <1>2 DEF RootInv, Good, Sound
<1>6. PICK x : x = WordOf(root[r]) + k
  OBVIOUS
<1>7. x \in SrcUsed \cup ToUsed
  <2>1. InObject(WordOf(root[r]), k + 1) /\ WordOf(root[r]) \in Nat
    BY <1>3, <1>4, AccessInObject
  <2>2. k + 1 \in Nat /\ k \in 0 .. (k + 1 - 1)
    OBVIOUS
  <2> QED
    BY <1>1, <1>6, <2>1, <2>2, InObjectWords
<1>8. /\ remset' = Barrier(remset, x, cap) /\ mem' = [mem EXCEPT ![x] = cap]
      /\ known' = [known EXCEPT ![x] = TRUE]
      /\ UNCHANGED <<root, gcVars, ctlVars, kroot, histVars>>
  BY <1>2, <1>6 DEF GC_STORE_CAP
<1>9. \A w \in Words : w # x => known'[w] = known[w]
  BY <1>1, <1>8
<1>10. cap = Null \/ ~cap.fwd
  BY <1>5 DEF Sound, InSrc, InTo, Within
<1>11. pc' = "run" /\ stage' = stage /\ request' = request
  BY <1>3, <1>8 DEF ctlVars
<1>12. RegionInv' /\ RootInv' /\ ToInv' /\ SrcInv' /\ ForwardInv' /\ RememberedInv'
  BY <1>3, <1>4, <1>5, <1>7, <1>8, <1>9, <1>10, <1>11, WriteGraph
<1>13. MemcpyInv'
  BY <1>11 DEF MemcpyInv
<1> QED
  BY <1>12, <1>13 DEF GraphInv

LEMMA InObjectKept ==
    ASSUME stage = "none", UNCHANGED <<gcVars, stage>>, NEW w, NEW n, InObject(w, n)
    PROVE  InObject(w, n)'
<1>1. UNCHANGED tobitmap
  BY DEF gcVars
<1>2. SrcBase' = SrcBase /\ SrcBitmap' = SrcBitmap /\ ToBase' = ToBase
  BY MutatorFrame
<1> QED
  BY <1>1, <1>2 DEF InObject

(* GC_memcpy's first part takes the tags off the words of the destination. *)
LEMMA MemcpyBeginGraph ==
    ASSUME IInv, GraphInv, ~CopiesUninitialised,
           NEW r \in Roots, NEW r2 \in Roots, NEW n \in Nat \ {0}, GC_memcpy(r2, r, n)
    PROVE  GraphInv'
<1>1. /\ TypeOK /\ BitmapMatchesFree /\ RegionInv /\ RootInv
  BY DEF IInv, GraphInv
<1>2. PICK s, d : s = WordOf(root[r]) /\ d = WordOf(root[r2])
  OBVIOUS
<1>3. /\ Usable(r) /\ InBounds(r, n - 1) /\ Usable(r2) /\ InBounds(r2, n - 1)
      /\ (s .. (s + n - 1)) \cap (d .. (d + n - 1)) = {} /\ known[s]
      /\ mem' = [w \in Words |-> IF w \in d .. (d + n - 1) THEN Null ELSE mem[w]]
      /\ known' = CopyWords(known, s, d, n)
      /\ copying' = [src |-> s, dest |-> d, words |-> n]
      /\ pc' = "memcpy"
      /\ UNCHANGED <<root, gcVars, remset, stage, request, kroot>>
  BY <1>2 DEF GC_memcpy
<1>4. pc = "run" /\ stage = "none"
  BY <1>3 DEF Usable, IInv, ControlInv
<1>5. InObject(s, n) /\ s \in Nat /\ InObject(d, n) /\ d \in Nat
  <2>1. n - 1 \in Nat /\ (n - 1) + 1 = n
    OBVIOUS
  <2> QED
    BY <1>2, <1>3, <1>4, <2>1, AccessInObject
<1>6. ASSUME NEW i \in 0 .. (n - 1)
      PROVE  s + i \in Words /\ d + i \in Words
  BY <1>1, <1>5, InObjectWords
<1>7. ASSUME NEW i \in 0 .. (n - 1), NEW j \in 0 .. (n - 1) PROVE s + i # d + j
  <2>1. s + i \in s .. (s + n - 1) /\ d + j \in d .. (d + n - 1)
    BY <1>5
  <2> QED
    BY <1>3, <2>1
<1>8. \A w \in Words : \/ mem'[w] = mem[w] /\ (known'[w] => known[w])
                       \/ mem'[w] = Null
  BY <1>3 DEF CopyWords
<1>9. \A q \in Roots : /\ root'[q] # Null => ~root'[q].fwd
                       /\ kroot'[q] => Sound(root'[q])
  BY <1>1, <1>3, <1>4 DEF RootInv, Good
<1>10. RegionInv' /\ RootInv' /\ ToInv' /\ SrcInv' /\ ForwardInv' /\ RememberedInv'
  BY <1>3, <1>4, <1>8, <1>9, StillGraph
<1>11. MemcpyInv'
  <2>1. ASSUME NEW i \in 0 .. (n - 1)
        PROVE  known'[s + i] = known[s + i] /\ known'[d + i] = known[s + i]
    <3>1. s + i \notin d .. (d + n - 1)
      <4>1. s + i \in s .. (s + n - 1)
        BY <1>5
      <4> QED
        BY <1>3, <4>1
    <3>2. d + i \in d .. (d + n - 1) /\ s + ((d + i) - d) = s + i
      BY <1>5
    <3> QED
      BY <1>3, <1>6, <3>1, <3>2 DEF CopyWords
  <2>2. known'[s]
    <3>1. 0 \in 0 .. (n - 1) /\ s + 0 = s
      BY <1>5
    <3> QED
      BY <1>3, <2>1, <3>1
  <2>3. InObject(s, n)' /\ InObject(d, n)'
    BY <1>3, <1>4, <1>5, InObjectKept
  <2>4. copying'.src = s /\ copying'.dest = d /\ copying'.words = n
    BY <1>3
  <2>5. \A i, j \in 0 .. (n - 1) : s + i # d + j
    BY <1>7
  <2>6. InObject(copying.src, copying.words)' /\ InObject(copying.dest, copying.words)'
    BY <2>3, <2>4 DEF InObject
  <2> QED
    BY <2>1, <2>2, <2>4, <2>5, <2>6 DEF MemcpyInv
<1> QED
  BY <1>10, <1>11 DEF GraphInv

(* An iteration of GC_memcpy's loop: the first word of an object is copied *)
(* onto the first word of another only from one that the program wrote.    *)
LEMMA MemcpyWordGraph ==
    ASSUME IInv, GraphInv, MemcpyWord
    PROVE  GraphInv'
<1>1. /\ TypeOK /\ BitmapMatchesFree /\ RegionInv /\ RootInv /\ MemcpyInv
      /\ pc = "memcpy" /\ stage = "none" /\ index \in Nat
      /\ copying.src \in Nat /\ copying.dest \in Nat /\ copying.words \in Nat
      /\ index < copying.words
  <2>1. TypeOK /\ ControlInv /\ pc = "memcpy"
    BY DEF IInv, MemcpyWord
  <2>2. \A w \in Words : w \in Nat
    BY <2>1, Bounds
  <2> QED
    BY <2>1, <2>2 DEF IInv, GraphInv, ControlInv, TypeOK
<1>2. PICK s, d, n : s = copying.src /\ d = copying.dest /\ n = copying.words
  OBVIOUS
<1>3. /\ s \in Nat /\ d \in Nat /\ n \in Nat /\ index \in 0 .. (n - 1)
      /\ InObject(s, n) /\ InObject(d, n) /\ known[s]
      /\ \A i \in 0 .. (n - 1) : known[d + i] = known[s + i]
  BY <1>1, <1>2 DEF MemcpyInv
<1>4. PICK x, y, cap : x = d + index /\ y = s + index /\ cap = mem[y]
  OBVIOUS
<1>5. /\ x \in SrcUsed \cup ToUsed /\ y \in SrcUsed \cup ToUsed /\ x \in Words
      /\ index > 0 => /\ \A p \in SrcBitmap.map : x # SrcBase + p
                      /\ \A p \in tobitmap.map : x # ToBase + p
  BY <1>1, <1>3, <1>4, InObjectWords
<1>6. known[x] = known[y]
  BY <1>3, <1>4
<1>7. known[y] => Sound(cap)
  BY <1>1, <1>4, <1>5, KnownSound
<1>8. /\ \/ cap # Null /\ remset' = Barrier(remset, x, cap) /\ mem' = [mem EXCEPT ![x] = cap]
         \/ UNCHANGED <<remset, mem>>
      /\ \/ UNCHANGED <<pc, copying>>
         \/ pc' = "run"
      /\ UNCHANGED <<root, gcVars, stage, request, known, kroot>>
  BY <1>2, <1>4 DEF MemcpyWord
<1>9. pc' \in {"run", "memcpy"}
  BY <1>1, <1>8
<1>10. RegionInv' /\ RootInv' /\ ToInv' /\ SrcInv' /\ ForwardInv' /\ RememberedInv'
  <2>1. CASE cap # Null /\ remset' = Barrier(remset, x, cap) /\ mem' = [mem EXCEPT ![x] = cap]
    <3>1. \/ cap = Null
          \/ ~cap.fwd
          \/ /\ \A p \in SrcBitmap.map : x # SrcBase + p
             /\ \A p \in tobitmap.map : x # ToBase + p
      <4>1. CASE index > 0
        BY <1>5, <4>1
      <4>2. CASE index = 0
        <5>1. y = s
          BY <1>3, <1>4, <4>2
        <5> QED
          BY <1>3, <1>7, <5>1 DEF Sound, InSrc, InTo, Within
      <4> QED
        BY <1>3, <4>1, <4>2
    <3>2. /\ \A w \in Words : w # x => known'[w] = known[w]
          /\ known'[x] => Sound(cap)
      BY <1>6, <1>7, <1>8
    <3>3. UNCHANGED <<root, kroot, gcVars, stage, request>> /\ pc \in {"run", "memcpy"}
      BY <1>1, <1>8
    <3> QED
      BY <1>1, <1>5, <1>9, <2>1, <3>1, <3>2, <3>3, WriteGraph
  <2>2. CASE UNCHANGED <<remset, mem>>
    <3>1. \A w \in Words : mem'[w] = mem[w] /\ (known'[w] => known[w])
      BY <1>8, <2>2
    <3>2. \A q \in Roots : /\ root'[q] # Null => ~root'[q].fwd
                           /\ kroot'[q] => Sound(root'[q])
      BY <1>1, <1>8 DEF RootInv, Good
    <3>3. UNCHANGED <<gcVars, stage, remset>> /\ pc \in {"run", "retry", "memcpy"}
          /\ request' = request
      BY <1>1, <1>8, <2>2
    <3> QED
      BY <1>1, <1>9, <3>1, <3>2, <3>3, StillGraph
  <2> QED
    BY <1>8, <2>1, <2>2
<1>11. MemcpyInv'
  <2>1. CASE pc' = "run"
    BY <2>1 DEF MemcpyInv
  <2>2. CASE UNCHANGED <<pc, copying>>
    <3>1. InObject(s, n)' /\ InObject(d, n)'
      BY <1>1, <1>3, <1>8, InObjectKept
    <3>2. InObject(copying.src, copying.words)' /\ InObject(copying.dest, copying.words)'
      BY <1>2, <2>2, <3>1 DEF InObject
    <3> QED
      BY <1>1, <1>8, <2>2, <3>2 DEF MemcpyInv
  <2> QED
    BY <1>8, <2>1, <2>2
<1> QED
  BY <1>10, <1>11 DEF GraphInv

(* GC_malloc puts a new object behind those of the young space.            *)
LEMMA AllocateGraph ==
    ASSUME IInv, GraphInv, stage = "none", NEW r \in Roots, NEW size \in Nat \ {0},
           Fits(size), Allocate(r, size), pc \in {"run", "retry"}, pc' = "run",
           UNCHANGED <<remset, stage>>, request' = request \/ request' = NoRequest
    PROVE  GraphInv'
<1>1. /\ TypeOK /\ BitmapMatchesFree /\ RegionInv /\ RootInv /\ ToInv /\ SrcInv
      /\ ForwardInv /\ RememberedInv /\ remset \in Seq(OldSpace(to)) /\ stage' = "none"
      /\ mem \in [Words -> Cap \cup {Null}] /\ root \in [Roots -> Cap \cup {Null}]
      /\ kroot \in [Roots -> BOOLEAN]
  BY DEF IInv, GraphInv, TypeOK
<1>2. PICK n, new, c0 : /\ n = AlignWords(size) /\ new = GC_bitmap_allocate(ybitmap, n)
                        /\ c0 = [base |-> yfree * WordBytes, len |-> size, fwd |-> FALSE]
  OBVIOUS
<1>3. /\ n \in Nat \ {0} /\ n <= YoungWords - yfree /\ yfree \in Nat /\ YoungWords \in Nat
      /\ ybitmap.used = yfree /\ ybitmap.map \subseteq Nat /\ BitBelow(ybitmap)
      /\ SrcBase = 0 /\ SrcBitmap = ybitmap
  <2>1. n \in Nat /\ (size > 0 => n >= 1)
    BY <1>2, AlignFacts
  <2>2. n <= YoungWords - yfree
    BY <1>2 DEF Fits
  <2> QED
    BY <1>1, <2>1, <2>2, ConstantsAssumption
       DEF TypeOK, Bitmaps, BitmapMatchesFree, RegionInv, SrcBase, SrcBitmap, YoungBase
<1>4. /\ root' = [root EXCEPT ![r] = c0] /\ kroot' = [kroot EXCEPT ![r] = TRUE]
      /\ ybitmap' = new /\ mem' = [mem EXCEPT ![yfree] = Null]
      /\ known' = [w \in Words |->
                     IF w \in yfree .. (yfree + n - 1) THEN FALSE ELSE known[w]]
      /\ UNCHANGED <<to, ofree, oscan, tobitmap, frombitmap>>
  <2>1. YoungBase + yfree = yfree
    BY <1>3 DEF YoungBase
  <2> QED
    BY <1>2, <2>1 DEF Allocate, SetRoot
<1>5. new.used = yfree + n /\ new.map = ybitmap.map \cup {yfree} /\ new.map \subseteq Nat
  BY <1>2, <1>3 DEF GC_bitmap_allocate
<1>6. /\ SrcBase' = 0 /\ SrcBitmap' = new /\ ToBase' = ToBase /\ ToUsed' = ToUsed
      /\ SrcUsed' = 0 .. (yfree + n - 1) /\ SrcUsed = 0 .. (yfree - 1)
  BY <1>1, <1>3, <1>4, <1>5 DEF SrcBase, SrcBitmap, SrcUsed, ToBase, ToUsed, YoungBase
<1>7. /\ ToBase \in Nat /\ ofree \in Nat /\ tobitmap.used = ofree /\ tobitmap.map \subseteq Nat
      /\ \A w \in ToUsed : w \in Words
      /\ ToBase > YoungWords
      /\ \A w \in 0 .. (YoungWords - 1) : w \in Words
      /\ OldSpace(to) \subseteq Words
  <2>1. ToBase > YoungWords
    <3>1. to \in {0, 1} /\ YoungWords \in Nat /\ OldWords \in Nat
      BY <1>1, ConstantsAssumption DEF TypeOK
    <3>2. CASE to = 0
      BY <3>1, <3>2 DEF ToBase, OldBase
    <3>3. CASE to = 1
      BY <3>1, <3>3 DEF ToBase, OldBase
    <3> QED
      BY <3>1, <3>2, <3>3
  <2>2. \A w \in 0 .. (YoungWords - 1) : w \in Words
    BY <1>3, SpacesInMemory DEF YoungSpace, YoungBase
  <2>3. OldSpace(to) \subseteq Words
    BY <1>1, SpacesInMemory DEF TypeOK
  <2> QED
    BY <1>1, <2>1, <2>2, <2>3, SrcBounds
<1>8. /\ \A p, k : IsObject(ybitmap, p, k) => IsObject(new, p, k)
      /\ IsObject(new, yfree, n) /\ BitBelow(new)
  BY <1>2, <1>3, ObjectsGrow
<1>9. ASSUME NEW c, Sound(c)
      PROVE  Sound(c)' /\ (InSrc(c)' => InSrc(c))
  <2>1. CASE c = Null
    BY <2>1, NullAssumption DEF Sound, InSrc, Within
  <2>2. CASE InSrc(c)
    <3>1. Within(c, ybitmap, 0)
      BY <1>3, <2>2 DEF InSrc
    <3>2. new.used \in Nat
      BY <1>3, <1>5
    <3>3. Within(c, new, 0)
      BY <1>3, <1>5, <1>8, <3>1, <3>2, WithinGrows
    <3> QED
      BY <1>6, <2>2, <3>3 DEF Sound, InSrc
  <2>3. CASE InTo(c)
    <3>1. Within(c, tobitmap, ToBase)
      BY <2>3 DEF InTo
    <3>2. new.used \in Nat /\ 0 + new.used <= ToBase
      BY <1>3, <1>5, <1>7
    <3>3. ~Within(c, new, 0)
      BY <1>5, <1>7, <3>1, <3>2, WithinApart
    <3> QED
      BY <1>4, <1>6, <2>3, <3>3 DEF Sound, InSrc, InTo
  <2> QED
    BY <1>9, <2>1, <2>2, <2>3 DEF Sound
<1>10. Within(c0, new, 0)
  <2>1. c0 \in Cap /\ c0.len = size /\ ~c0.fwd /\ c0.base = yfree * WordBytes
    BY <1>2, <1>3, ConstantsAssumption DEF Cap
  <2>2. WordOf(c0) = yfree /\ EndOf(c0) = yfree + n
    BY <1>2, <1>3, <2>1, AlignedCap
  <2>3. yfree \in new.map /\ n \in 1 .. new.used
    BY <1>3, <1>5
  <2>4. 0 + yfree <= WordOf(c0) /\ EndOf(c0) <= 0 + yfree + n
    BY <1>3, <2>2
  <2> QED
    BY <1>8, <2>1, <2>3, <2>4 DEF Within
<1>11. RegionInv'
  BY <1>1, <1>4, <1>8 DEF RegionInv, BitBelow
<1>12. RootInv'
  <2> SUFFICES ASSUME NEW q \in Roots
               PROVE  /\ root'[q] # Null => ~root'[q].fwd
                      /\ kroot'[q] => Sound(root[q])'
    BY <1>1 DEF RootInv, Good
  <2>1. CASE q = r
    <3>1. root'[q] = c0 /\ ~c0.fwd
      BY <1>1, <1>2, <1>4, <2>1
    <3>2. InSrc(root[q])'
      BY <1>6, <1>10, <3>1 DEF InSrc
    <3> QED
      BY <3>1, <3>2 DEF Sound
  <2>2. CASE q # r
    <3>1. PICK c : c = root[q]
      OBVIOUS
    <3>2. root'[q] = c /\ kroot'[q] = kroot[q]
      BY <1>1, <1>4, <2>2, <3>1
    <3>3. (c # Null => ~c.fwd) /\ (kroot[q] => Sound(c))
      BY <1>1, <3>1 DEF RootInv, Good
    <3>4. kroot[q] => Sound(c)'
      BY <1>9, <3>3
    <3> QED
      BY <3>2, <3>3, <3>4 DEF Sound, InSrc, InTo
  <2> QED
    BY <2>1, <2>2
<1>13. \A w \in Words : mem'[w] = mem[w] \/ mem'[w] = Null
  BY <1>1, <1>4
<1>14. ToInv'
  <2> SUFFICES ASSUME NEW w \in ToUsed, known'[w]
               PROVE  Sound(mem[w])' /\ (InSrc(mem[w])' => Unscanned(w)')
    BY <1>1, <1>6 DEF ToInv, Good
  <2>1. PICK c : c = mem[w]
    OBVIOUS
  <2>2. w \in Words /\ w > YoungWords
    BY <1>3, <1>7 DEF ToUsed
  <2>3. known[w] /\ mem'[w] = c
    BY <1>1, <1>3, <1>4, <2>1, <2>2
  <2>4. Sound(c) /\ (InSrc(c) => Unscanned(w))
    BY <1>1, <2>1, <2>3 DEF ToInv, Good
  <2>5. Unscanned(w) => Unscanned(w)'
    BY <1>4, <1>6 DEF Unscanned
  <2>6. Sound(c)' /\ (InSrc(c)' => Unscanned(w)')
    BY <1>9, <2>4, <2>5
  <2> QED
    BY <2>3, <2>6 DEF Sound, InSrc, InTo
<1>15. SrcInv'
  <2> SUFFICES ASSUME NEW w \in 0 .. (yfree + n - 1), known'[w] PROVE Sound(mem[w])'
    BY <1>1, <1>6 DEF SrcInv, Good
  <2>1. PICK c : c = mem[w]
    OBVIOUS
  <2>2. w \in Words /\ w \in Nat
    BY <1>3, <1>7
  <2>3. known[w] /\ w \notin yfree .. (yfree + n - 1)
    BY <1>4, <2>2
  <2>4. w \in 0 .. (yfree - 1)
    BY <1>3, <2>2, <2>3
  <2>5. mem'[w] = c
    BY <1>1, <1>3, <1>4, <2>1, <2>2, <2>4
  <2>6. Sound(c)
    BY <1>6, <2>1, <2>3, <2>4, KnownSound
  <2>7. Sound(c)'
    BY <1>9, <2>6
  <2> QED
    BY <2>5, <2>7 DEF Sound, InSrc, InTo
<1>16. ForwardInv'
  <2>1. ASSUME NEW w \in Words, ~IsFwd(w) PROVE ~IsFwd(w)'
    BY <1>13, <2>1 DEF IsFwd
  <2>2. ASSUME NEW p \in tobitmap.map PROVE ~IsFwd(ToBase + p)'
    <3>1. PICK w : w = ToBase + p
      OBVIOUS
    <3>2. p < ofree /\ p \in Nat
      BY <1>1, <1>7 DEF RegionInv, BitBelow
    <3>3. w \in ToUsed
      BY <1>7, <3>1, <3>2 DEF ToUsed
    <3>4. w \in Words /\ ~IsFwd(w)
      BY <1>1, <1>7, <3>1, <3>3 DEF ForwardInv
    <3> QED
      BY <1>6, <2>1, <3>1, <3>4 DEF IsFwd
  <2>3. ASSUME NEW p \in new.map PROVE ~IsFwd(0 + p)'
    <3>1. p \in Nat /\ p < yfree + n /\ 0 + p = p
      BY <1>5, <1>8, <2>3 DEF BitBelow
    <3>2. p \in Words
      BY <1>3, <1>7, <3>1
    <3>3. CASE p = yfree
      BY <1>1, <1>4, <3>1, <3>2, <3>3 DEF IsFwd
    <3>4. CASE p \in ybitmap.map
      <4>1. ~IsFwd(SrcBase + p)
        BY <1>1, <1>3, <3>4 DEF ForwardInv
      <4>2. ~IsFwd(p)
        BY <1>3, <3>1, <4>1
      <4> QED
        BY <2>1, <3>1, <3>2, <4>2 DEF IsFwd
    <3> QED
      BY <1>5, <3>3, <3>4
  <2> QED
    BY <1>4, <1>6, <2>2, <2>3 DEF ForwardInv, IsFwd
<1>17. RememberedInv'
  <2> SUFFICES ASSUME NEW i \in DOMAIN remset
               PROVE  remset[i] < ToBase + ofree \/ mem'[remset[i]] = Null
    BY <1>4, <1>6 DEF RememberedInv
  <2>1. remset[i] \in Words
    BY <1>1, <1>7
  <2> QED
    BY <1>1, <1>13, <2>1 DEF RememberedInv
<1>18. MemcpyInv'
  BY DEF MemcpyInv
<1> QED
  BY <1>11, <1>12, <1>14, <1>15, <1>16, <1>17, <1>18 DEF GraphInv

LEMMA MallocGraph ==
    ASSUME IInv, GraphInv, NEW r \in Roots, NEW size \in Sizes, GC_malloc(r, size)
    PROVE  GraphInv'
<1>1. size \in Nat \ {0}
  BY ConstantsAssumption
<1>2. /\ pc = "run" /\ Fits(size) /\ Allocate(r, size)
      /\ pc' = "run" /\ UNCHANGED <<remset, stage>> /\ request' = request
  BY DEF GC_malloc, ctlVars
<1>3. stage = "none"
  BY <1>2 DEF IInv, ControlInv
<1> QED
  BY <1>1, <1>2, <1>3, AllocateGraph

LEMMA MallocRetryGraph ==
    ASSUME IInv, GraphInv, MallocRetry
    PROVE  GraphInv'
<1>1. /\ TypeOK /\ RegionInv /\ RootInv /\ pc = "retry" /\ stage = "none"
      /\ root \in [Roots -> Cap \cup {Null}] /\ kroot \in [Roots -> BOOLEAN]
  BY DEF MallocRetry, IInv, ControlInv, GraphInv, TypeOK
<1>2. request.root \in Roots /\ request.size \in Nat \ {0}
  <2>1. request.root \in Roots /\ request.size \in Nat
    BY <1>1 DEF TypeOK, Requests
  <2>2. request.size > 0
    BY <1>1 DEF RegionInv
  <2> QED
    BY <2>1, <2>2
<1>3. pc' = "run" /\ request' = NoRequest /\ UNCHANGED <<remset, stage>>
  BY DEF MallocRetry
<1>4. CASE Fits(request.size) /\ Allocate(request.root, request.size)
  BY <1>1, <1>2, <1>3, <1>4, AllocateGraph
<1>5. CASE SetRoot(request.root, Null) /\ UNCHANGED <<mem, gcVars, known>>
  <2>1. \A q \in Roots : /\ root'[q] # Null => ~root'[q].fwd
                         /\ kroot'[q] => Sound(root'[q])
    <3> SUFFICES ASSUME NEW q \in Roots
                 PROVE  (root'[q] # Null => ~root'[q].fwd) /\ (kroot'[q] => Sound(root'[q]))
      OBVIOUS
    <3>1. CASE q = request.root
      BY <1>1, <1>5, <3>1 DEF SetRoot, Sound
    <3>2. CASE q # request.root
      <4>1. root'[q] = root[q] /\ kroot'[q] = kroot[q]
        BY <1>1, <1>5, <3>2 DEF SetRoot
      <4> QED
        BY <1>1, <4>1 DEF RootInv, Good
    <3> QED
      BY <3>1, <3>2
  <2>2. RegionInv' /\ RootInv' /\ ToInv' /\ SrcInv' /\ ForwardInv' /\ RememberedInv'
    <3>1. \A w \in Words : mem'[w] = mem[w] /\ (known'[w] => known[w])
      BY <1>5
    <3>2. UNCHANGED <<gcVars, stage, remset>>
      BY <1>3, <1>5
    <3> QED
      BY <1>1, <1>3, <2>1, <3>1, <3>2, StillGraph
  <2>3. MemcpyInv'
    BY <1>3 DEF MemcpyInv
  <2> QED
    BY <2>2, <2>3 DEF GraphInv
<1> QED
  BY <1>4, <1>5 DEF MallocRetry

(* GC_minor_free and GC_reset: the program no longer relies on pointers    *)
(* into what was freed.                                                    *)
LEMMA FreeGraph ==
    ASSUME IInv, GraphInv, GC_minor_free \/ GC_reset
    PROVE  GraphInv'
<1>1. /\ TypeOK /\ BitmapMatchesFree /\ RegionInv /\ RootInv /\ ToInv /\ SrcInv
      /\ ForwardInv /\ RememberedInv /\ remset \in Seq(OldSpace(to)) /\ to \in {0, 1}
      /\ pc = "run" /\ known \in [Words -> BOOLEAN] /\ kroot \in [Roots -> BOOLEAN]
  BY DEF IInv, GraphInv, TypeOK, GC_minor_free, GC_reset
<1>2. stage = "none"
  BY <1>1 DEF IInv, ControlInv
<1>3. UNCHANGED <<root, to, frombitmap, remset, pc, stage, request>>
  BY DEF GC_minor_free, GC_reset, ctlVars
<1>4. /\ yfree' = 0 /\ ybitmap'.map = {} /\ ybitmap'.used = 0
  <2>1. yfree' = 0 /\ ybitmap' = GC_bitmap_clr(ybitmap)
    BY DEF GC_minor_free, GC_reset
  <2>2. YoungWords \in Nat /\ ybitmap \in Bitmaps(YoungWords) /\ BitBelow(ybitmap)
    BY <1>1, ConstantsAssumption DEF TypeOK, RegionInv
  <2> QED
    BY <2>1, <2>2, ClrEmpty
<1>5. PICK F : /\ YoungSpace \subseteq F /\ mem' = Zeroed(F) /\ Forgotten(F)
               /\ \/ UNCHANGED <<ofree, oscan, tobitmap>>
                  \/ /\ OldSpace(to) \subseteq F /\ ofree' = 0 /\ oscan' = 0
                     /\ tobitmap' = GC_bitmap_clr(tobitmap)
  BY DEF GC_minor_free, GC_reset
<1>6. \/ UNCHANGED <<ofree, oscan, tobitmap>>
      \/ /\ OldSpace(to) \subseteq F /\ ofree' = 0 /\ oscan' = 0 /\ tobitmap'.map = {}
  <2>1. OldWords \in Nat /\ tobitmap \in Bitmaps(OldWords) /\ BitBelow(tobitmap)
    BY <1>1, ConstantsAssumption DEF TypeOK, RegionInv
  <2> QED
    BY <1>5, <2>1, ClrEmpty
<1>7. /\ ToBase \in Nat /\ ofree \in 0 .. OldWords /\ OldWords \in Nat
      /\ tobitmap.used = ofree /\ tobitmap.map \subseteq Nat
      /\ SrcBase \in Nat /\ SrcBitmap.used \in Nat /\ SrcBitmap.map \subseteq Nat
      /\ OldSpace(to) = ToBase .. (ToBase + OldWords - 1) /\ OldSpace(to) \subseteq Words
      /\ \A w \in ToUsed : w \in Words
      /\ \A w \in SrcUsed : w \in F
  <2>1. SrcBase = 0 /\ SrcBitmap.used \in 0 .. YoungWords /\ YoungWords \in Nat
    BY <1>1, <1>2, ConstantsAssumption DEF SrcBase, SrcBitmap, YoungBase, TypeOK, Bitmaps
  <2>2. \A w \in SrcUsed : w \in F
    BY <1>5, <2>1 DEF SrcUsed, YoungSpace, YoungBase
  <2> QED
    BY <1>1, <2>2, SrcBounds, Bounds, SpacesInMemory
<1>8. /\ SrcBase' = YoungBase /\ SrcBitmap' = ybitmap' /\ SrcUsed' = {} /\ ToBase' = ToBase
  BY <1>2, <1>3, <1>4 DEF SrcBase, SrcBitmap, SrcUsed, ToBase, YoungBase
<1>9. \A w \in Words : /\ mem'[w] = mem[w] \/ mem'[w] = Null
                       /\ w \in F => mem'[w] = Null
                       /\ known'[w] => /\ known[w] /\ mem'[w] = mem[w]
                                       /\ mem[w] = Null \/ WordOf(mem[w]) \notin F
  BY <1>1, <1>5 DEF Zeroed, Forgotten, StillKnown
<1>10. \A r \in Roots : kroot'[r] => kroot[r] /\ (root[r] = Null \/ WordOf(root[r]) \notin F)
  BY <1>1, <1>5 DEF Forgotten, StillKnown
<1>11. \A c : ~InSrc(c)'
  BY <1>4, <1>8, NoObjects DEF InSrc
<1>12. ASSUME NEW c, Sound(c), c = Null \/ WordOf(c) \notin F PROVE Sound(c)'
  <2>1. CASE c = Null
    BY <2>1 DEF Sound
  <2>2. CASE c # Null
    <3>1. ~InSrc(c)
      <4> SUFFICES ASSUME InSrc(c) PROVE FALSE
        OBVIOUS
      <4>1. WordOf(c) \in SrcUsed
        BY <1>7, WithinFacts DEF InSrc, SrcUsed
      <4> QED
        BY <1>7, <1>12, <2>2, <4>1
    <3>2. InTo(c)
      BY <1>12, <2>2, <3>1 DEF Sound
    <3>3. WordOf(c) \in OldSpace(to)
      <4>1. WordOf(c) \in ToBase .. (ToBase + ofree - 1)
        BY <1>7, <3>2, WithinFacts DEF InTo
      <4> QED
        BY <1>7, <4>1
    <3>4. tobitmap' = tobitmap
      BY <1>6, <1>12, <2>2, <3>3
    <3> QED
      BY <1>8, <3>2, <3>4 DEF Sound, InTo
  <2> QED
    BY <2>1, <2>2
<1>13. RegionInv'
  BY <1>1, <1>3, <1>4, <1>6 DEF RegionInv, BitBelow
<1>14. RootInv'
  <2> SUFFICES ASSUME NEW r \in Roots
               PROVE  (root'[r] # Null => ~root'[r].fwd) /\ (kroot'[r] => Sound(root[r])')
    BY <1>2, <1>3 DEF RootInv, Good
  <2>1. PICK c : c = root[r]
    OBVIOUS
  <2>2. (c # Null => ~c.fwd) /\ (kroot[r] => Sound(c))
    BY <1>1, <1>2, <2>1 DEF RootInv, Good
  <2>3. kroot'[r] => Sound(c)'
    BY <1>10, <1>12, <2>1, <2>2
  <2>4. root'[r] = c
    BY <1>3, <2>1
  <2> QED
    BY <2>2, <2>3, <2>4 DEF Sound, InSrc, InTo
<1>15. ToUsed' \subseteq ToUsed
  BY <1>6, <1>7, <1>8 DEF ToUsed
<1>16. ToInv'
  <2> SUFFICES ASSUME NEW w \in ToUsed, known'[w] PROVE Sound(mem[w])' /\ ~InSrc(mem[w])'
    BY <1>2, <1>3, <1>15 DEF ToInv, Good
  <2>1. PICK c : c = mem[w]
    OBVIOUS
  <2>2. w \in Words /\ known[w] /\ mem'[w] = c /\ (c = Null \/ WordOf(c) \notin F)
    BY <1>7, <1>9, <2>1
  <2>3. Sound(c)
    BY <1>1, <1>2, <2>1, <2>2 DEF ToInv, Good
  <2>4. Sound(c)' /\ ~InSrc(c)'
    BY <1>11, <1>12, <2>2, <2>3
  <2> QED
    BY <2>2, <2>4 DEF Sound, InSrc, InTo
<1>17. SrcInv'
  BY <1>8 DEF SrcInv
<1>18. ForwardInv'
  <2> SUFFICES ASSUME NEW p \in tobitmap'.map PROVE ~IsFwd(ToBase + p)'
    BY <1>4, <1>8 DEF ForwardInv
  <2>1. p \in tobitmap.map
    BY <1>6
  <2>2. PICK w : w = ToBase + p
    OBVIOUS
  <2>3. p < ofree /\ p \in Nat
    BY <1>1, <1>7, <2>1 DEF RegionInv, BitBelow
  <2>4. w \in ToUsed
    BY <1>7, <2>2, <2>3 DEF ToUsed
  <2>5. w \in Words /\ ~IsFwd(w)
    BY <1>1, <1>7, <2>1, <2>2, <2>4 DEF ForwardInv
  <2> QED
    BY <1>8, <1>9, <2>2, <2>5 DEF IsFwd
<1>19. RememberedInv'
  <2> SUFFICES ASSUME NEW i \in DOMAIN remset
               PROVE  remset[i] < ToBase + ofree' \/ mem'[remset[i]] = Null
    BY <1>3, <1>8 DEF RememberedInv
  <2>1. remset[i] \in OldSpace(to) /\ remset[i] \in Words
    BY <1>1, <1>7
  <2> QED
    BY <1>1, <1>6, <1>9, <2>1 DEF RememberedInv
<1>20. MemcpyInv'
  BY <1>1, <1>3 DEF MemcpyInv
<1> QED
  BY <1>13, <1>14, <1>16, <1>17, <1>18, <1>19, <1>20 DEF GraphInv

(* A step that changes nothing but perhaps ends the program.               *)
LEMMA FrozenGraph ==
    ASSUME GraphInv, UNCHANGED <<mem, root, gcVars, remset, stage, index, request,
                                 copying, known, kroot, histVars>>,
           pc' = pc \/ pc' = "fatal"
    PROVE  GraphInv'
<1>1. /\ UNCHANGED <<mem, root, yfree, ybitmap, to, ofree, oscan, tobitmap, frombitmap>>
      /\ UNCHANGED <<remset, stage, index, request, copying, known, kroot>>
      /\ UNCHANGED <<snap, sroot, orig>>
  BY DEF gcVars, histVars
<1>2. /\ SrcBase' = SrcBase /\ SrcBitmap' = SrcBitmap /\ SrcUsed' = SrcUsed
      /\ ToBase' = ToBase /\ ToUsed' = ToUsed
  BY <1>1 DEF SrcBase, SrcBitmap, SrcUsed, ToBase, ToUsed
<1>3. RegionInv'
  BY <1>1 DEF GraphInv, RegionInv, BitBelow
<1>4. RootInv'
  BY <1>1, <1>2 DEF GraphInv, RootInv, Good, Sound, InSrc, InTo
<1>5. ToInv'
  BY <1>1, <1>2 DEF GraphInv, ToInv, Good, Sound, InSrc, InTo, Unscanned
<1>6. SrcInv'
  BY <1>1, <1>2 DEF GraphInv, SrcInv, Good, Sound, InSrc, InTo, IsFwd
<1>7. ForwardInv'
  BY <1>1, <1>2 DEF GraphInv, ForwardInv, IsFwd, CopiedAs
<1>8. RememberedInv'
  BY <1>1, <1>2 DEF GraphInv, RememberedInv
<1>9. MemcpyInv'
  BY <1>1, <1>2 DEF GraphInv, MemcpyInv, InObject
<1> QED
  BY <1>3, <1>4, <1>5, <1>6, <1>7, <1>8, <1>9 DEF GraphInv
-----------------------------------------------------------------------------
(* The invariant.                                                          *)

LEMMA InitGraph == Init => GraphInv
<1> SUFFICES ASSUME Init PROVE GraphInv
  OBVIOUS
<1>1. /\ ybitmap.map = {} /\ tobitmap.map = {} /\ frombitmap.map = {} /\ ybitmap.used = 0
      /\ stage = "none" /\ ofree = 0 /\ oscan = 0 /\ pc = "run" /\ request = NoRequest
      /\ remset = <<>>
  BY DEF Init, GC_init_bitmap
<1>2. SrcUsed = {} /\ ToUsed = {} /\ SrcBitmap = ybitmap
  <2>1. to = 0 /\ ToBase \in Nat
    BY SpacesInMemory DEF Init, ToBase
  <2> QED
    BY <1>1, <2>1 DEF SrcUsed, SrcBase, SrcBitmap, ToUsed, YoungBase
<1>3. RegionInv
  BY <1>1 DEF RegionInv, BitBelow
<1>4. RootInv
  <2>1. \A r \in Roots : root[r] = Null
    BY DEF Init
  <2> QED
    BY <1>1, <2>1 DEF RootInv, Good, Sound
<1>5. ToInv /\ SrcInv /\ ForwardInv
  BY <1>1, <1>2 DEF ToInv, SrcInv, ForwardInv
<1>6. RememberedInv /\ MemcpyInv
  BY <1>1 DEF RememberedInv, MemcpyInv
<1> QED
  BY <1>3, <1>4, <1>5, <1>6 DEF GraphInv

(* Every step preserves the invariant, when GC_memcpy is not given an      *)
(* object whose first word was never written.                              *)
LEMMA NextGraph ==
    ASSUME ~CopiesUninitialised
    PROVE  IInv /\ GraphInv /\ [Next]_vars => (IInv /\ GraphInv)'
<1> SUFFICES ASSUME IInv, GraphInv, [Next]_vars PROVE (IInv /\ GraphInv)'
  OBVIOUS
<1>1. IInv'
  BY NextIInv
<1>2. CASE Mutator
  <2>1. ASSUME NEW r \in Roots, Clear(r) \/ Forget(r) PROVE GraphInv'
    <3>1. 0 \in Nat
      OBVIOUS
    <3> QED
      BY <2>1, <3>1, ProgramGraph
  <2>2. ASSUME NEW r \in Roots, NEW r2 \in Roots, NEW offset \in Offsets, Derive(r, r2, offset)
        PROVE  GraphInv'
    <3>1. 0 \in Nat /\ offset \in Nat
      BY ConstantsAssumption
    <3> QED
      BY <2>2, <3>1, ProgramGraph
  <2>3. ASSUME NEW r \in Roots, NEW r2 \in Roots, NEW k \in 0 .. (YoungWords - 1), Load(r, k, r2)
        PROVE  GraphInv'
    <3>1. k \in Nat /\ 0 \in Nat
      OBVIOUS
    <3> QED
      BY <2>3, <3>1, ProgramGraph
  <2>4. ASSUME NEW r \in Roots, NEW k \in 0 .. (YoungWords - 1), Store(r, k) PROVE GraphInv'
    <3>1. k \in Nat
      OBVIOUS
    <3> QED
      BY <2>4, <3>1, StoreGraph
  <2>5. ASSUME NEW r \in Roots, NEW r2 \in Roots, NEW n \in 1 .. YoungWords, GC_memcpy(r2, r, n)
        PROVE  GraphInv'
    <3>1. n \in Nat \ {0}
      OBVIOUS
    <3> QED
      BY <2>5, <3>1, MemcpyBeginGraph
  <2>6. ASSUME NEW r \in Roots, NEW size \in Sizes, GC_malloc(r, size) PROVE GraphInv'
    BY <2>6, MallocGraph
  <2>7. ASSUME NEW r \in Roots, NEW size \in Sizes, MallocCollect(r, size) PROVE GraphInv'
    <3>1. pc = "run" /\ GC_collect_region(FALSE, "retry") /\ request' = [root |-> r, size |-> size]
      BY <2>7 DEF MallocCollect
    <3>2. size \in Nat \ {0}
      BY ConstantsAssumption
    <3>3. request'.size > 0 /\ request' # NoRequest
      BY <3>1, <3>2 DEF NoRequest
    <3>4. FALSE \in BOOLEAN /\ "retry" \in {"run", "retry"}
      OBVIOUS
    <3> QED
      BY <3>1, <3>3, <3>4, PromotionGraph
  <2>8. ASSUME NEW forced \in BOOLEAN, GC_collect2(forced) PROVE GraphInv'
    <3>1. pc = "run" /\ GC_collect_region(forced, "run") /\ request' = request
      BY <2>8 DEF GC_collect2
    <3>2. request' = NoRequest \/ request'.size > 0
      BY <3>1 DEF GraphInv, RegionInv
    <3>3. "run" \in {"run", "retry"} /\ "run" # "retry"
      OBVIOUS
    <3> QED
      BY <3>1, <3>2, <3>3, PromotionGraph
  <2>9. CASE GC_minor_free \/ GC_reset
    BY <1>1, <2>9, FreeGraph
  <2> QED
    BY <1>1, <1>2, <2>1, <2>2, <2>3, <2>4, <2>5, <2>6, <2>7, <2>8, <2>9 DEF Mutator
<1>3. CASE Library
  <2>1. CASE MemcpyWord
    BY <1>1, <2>1, MemcpyWordGraph
  <2>2. CASE GC_copy_roots
    BY <1>1, <2>2, RootsGraph
  <2>3. CASE GC_copy_remembered_set
    BY <1>1, <2>3, RemsetGraph
  <2>4. CASE GC_copy_children
    BY <1>1, <2>4, ChildrenGraph
  <2>5. CASE PromotionDone \/ MajorDone
    BY <1>1, <2>5, DoneGraph
  <2>6. CASE MallocRetry
    BY <1>1, <2>6, MallocRetryGraph
  <2>7. CASE GC_fatalf
    BY <1>1, <2>7, FrozenGraph DEF GC_fatalf
  <2> QED
    BY <1>3, <2>1, <2>2, <2>3, <2>4, <2>5, <2>6, <2>7 DEF Library
<1>4. CASE UNCHANGED vars
  BY <1>1, <1>4, FrozenGraph DEF vars, ctlVars
<1> QED
  BY <1>2, <1>3, <1>4 DEF Next

LEMMA AlwaysGraph ==
    ASSUME ~CopiesUninitialised
    PROVE  Spec => [](IInv /\ GraphInv)
<1>1. IInv /\ GraphInv /\ [Next]_vars => (IInv /\ GraphInv)'
  BY NextGraph
<1> QED
  BY <1>1, InitIInv, InitGraph, PTL DEF Spec
-----------------------------------------------------------------------------
(* The theorems.                                                           *)

(* A word of the fromspace that is taken for a forwarding address is one:  *)
(* it names the copy of the object it stands in (gc_collect.c:247-255).    *)
THEOREM ForwardingTheorem ==
    ASSUME ~CopiesUninitialised
    PROVE  Spec => []ForwardingSound
<1>1. IInv /\ GraphInv => ForwardingSound
  <2> SUFFICES ASSUME IInv, GraphInv, stage # "none", NEW p \in FromBitmap.map,
                      p < FromBitmap.used, IsFwd(FromBase + p)
               PROVE  LET c == mem[FromBase + p] IN
                      /\ GC_IN(c, ToBase, ofree)
                      /\ WordOf(c) - ToBase \in tobitmap.map
                      /\ orig[WordOf(c)] = orig[FromBase + p]
    BY DEF ForwardingSound, IsFwd
  <2>1. TypeOK /\ BitmapMatchesFree /\ ForwardInv
    BY DEF IInv, GraphInv
  <2>2. SrcBase = FromBase /\ SrcBitmap = FromBitmap
    BY <2>1, SrcIsFrom
  <2>3. /\ FromBase \in Nat /\ FromBitmap.used \in 0 .. FromWords /\ FromWords \in Nat
        /\ FromBitmap.map \subseteq Nat /\ ToBase \in Nat /\ ofree \in Nat
        /\ tobitmap.used = ofree /\ tobitmap.map \subseteq Nat
        /\ \A f \in FromBase .. (FromBase + FromWords - 1) : f \in Words
    BY <2>1, Bounds, SrcBounds
  <2>4. PICK q \in tobitmap.map, n \in 1 .. tobitmap.used : CopiedAs(p, q, n)
    BY <2>1, <2>2 DEF ForwardInv
  <2>5. PICK c : c = mem[FromBase + p]
    OBVIOUS
  <2>6. c \in Cap
    <3>1. FromBase + p \in Words
      BY <2>3
    <3> QED
      BY <2>1, <2>5, <3>1 DEF TypeOK, IsFwd
  <2>7. /\ IsObject(tobitmap, q, n) /\ c.base = (ToBase + q) * WordBytes
        /\ \A i \in 0 .. (n - 1) : orig[ToBase + q + i] = orig[FromBase + p + i]
    BY <2>2, <2>4, <2>5 DEF CopiedAs
  <2>8. q \in Nat /\ n \in Nat \ {0} /\ q + n <= ofree /\ p \in Nat
    BY <2>3, <2>7 DEF IsObject
  <2>9. WordOf(c) = ToBase + q
    BY <2>3, <2>6, <2>7, <2>8, AlignedCap
  <2>10. GC_IN(c, ToBase, ofree)
    BY <2>3, <2>6, <2>8, <2>9, InWords
  <2>11. WordOf(c) - ToBase = q
    BY <2>3, <2>8, <2>9
  <2>12. orig[ToBase + q] = orig[FromBase + p]
    <3>1. 0 \in 0 .. (n - 1) /\ ToBase + q + 0 = ToBase + q /\ FromBase + p + 0 = FromBase + p
      BY <2>3, <2>8
    <3> QED
      BY <2>7, <3>1
  <2> QED
    BY <2>4, <2>5, <2>9, <2>10, <2>11, <2>12
<1>2. Spec => [](IInv /\ GraphInv)
  BY AlwaysGraph
<1> QED
  BY <1>1, <1>2, PTL

(* During a collection every root and every copied word that the program   *)
(* may rely on stands for what it stood for when the collection began.     *)
THEOREM GraphTheorem ==
    ASSUME ~CopiesUninitialised
    PROVE  Spec => []GraphPreserved
<1>1. IInv /\ GraphInv => GraphPreserved
  BY DEF GraphInv, RootInv, ToInv, Good, Means, GraphPreserved, SameMeaning, ToUsed
<1>2. Spec => [](IInv /\ GraphInv)
  BY AlwaysGraph
<1> QED
  BY <1>1, <1>2, PTL

(* A sound pointer into a space lies inside an object of its bitmap.       *)
LEMMA WithinPointsInto ==
    ASSUME NEW bm, bm.map \subseteq Nat, bm.used \in Nat, NEW b \in Nat,
           NEW size \in Nat, bm.used <= size, NEW cap, Within(cap, bm, b)
    PROVE  PointsInto(cap, bm, b, size)
<1>1. PICK p \in bm.map, n \in 1 .. bm.used :
         IsObject(bm, p, n) /\ b + p <= WordOf(cap) /\ EndOf(cap) <= b + p + n
  BY DEF Within
<1>2. cap \in Cap /\ cap.len > 0
  BY DEF Within
<1>3. /\ WordOf(cap) \in Nat /\ EndOf(cap) \in Nat /\ WordOf(cap) < EndOf(cap)
      /\ WordOf(cap) + AlignWords(cap.len) <= EndOf(cap) /\ AlignWords(cap.len) \in Nat
  BY <1>2, CapFacts, AlignFacts
<1>4. p \in Nat /\ n \in Nat \ {0} /\ p + n <= bm.used
  BY <1>1 DEF IsObject
<1>5. PICK pos : pos = WordOf(cap) - b
  OBVIOUS
<1>6. pos \in p .. (p + n - 1)
  BY <1>1, <1>3, <1>4, <1>5
<1>7. HasContainer(bm, pos) /\ ContainerStart(bm, pos) = p /\ ContainerLen(bm, pos) = n
  BY <1>1, <1>6, ContainerOf
<1>8. GC_IN(cap, b, size)
  <2>1. b <= WordOf(cap) /\ WordOf(cap) < b + size
    BY <1>1, <1>3, <1>4
  <2> QED
    BY <1>2, <2>1, InWords
<1>9. pos - p + AlignWords(cap.len) <= n
  BY <1>1, <1>3, <1>4, <1>5, <1>6
<1> QED
  BY <1>5, <1>7, <1>8, <1>9 DEF PointsInto

(* Nothing that the program can still use has been freed or moved away     *)
(* under it: outside a collection its pointers point into allocated        *)
(* objects and stay within their bounds.                                   *)
THEOREM DanglingTheorem ==
    ASSUME ~CopiesUninitialised
    PROVE  Spec => []NoDangling
<1>1. IInv /\ GraphInv => NoDangling
  <2> SUFFICES ASSUME IInv, GraphInv, pc = "run" PROVE NoDangling
    BY DEF NoDangling
  <2>1. TypeOK /\ BitmapMatchesFree /\ RootInv /\ stage = "none"
    BY DEF IInv, ControlInv, GraphInv
  <2>2. /\ SrcBase = YoungBase /\ SrcBitmap = ybitmap /\ YoungBase = 0
        /\ ybitmap.used = yfree /\ yfree \in 0 .. YoungWords /\ YoungWords \in Nat
    BY <2>1, ConstantsAssumption DEF SrcBase, SrcBitmap, YoungBase, BitmapMatchesFree, TypeOK
  <2>3. /\ SrcBitmap.used \in Nat /\ SrcBitmap.map \subseteq Nat
        /\ ToBase \in Nat /\ OldWords \in Nat /\ ofree \in 0 .. OldWords
        /\ tobitmap.used = ofree /\ tobitmap.map \subseteq Nat
    BY <2>1, SrcBounds
  <2>4. ASSUME NEW c, Sound(c), c # Null PROVE ValidPointer(c)
    <3>1. CASE InSrc(c)
      <4>1. Within(c, ybitmap, YoungBase) /\ YoungBase \in Nat
        BY <2>2, <3>1 DEF InSrc
      <4>2. ybitmap.used <= YoungWords /\ ybitmap.used \in Nat /\ ybitmap.map \subseteq Nat
        BY <2>2, <2>3
      <4> QED
        BY <2>2, <4>1, <4>2, WithinPointsInto DEF ValidPointer
    <3>2. CASE InTo(c)
      <4>1. Within(c, tobitmap, ToBase) /\ tobitmap.used <= OldWords /\ tobitmap.used \in Nat
        BY <2>3, <3>2 DEF InTo
      <4> QED
        BY <2>3, <4>1, WithinPointsInto DEF ValidPointer
    <3> QED
      BY <2>4, <3>1, <3>2 DEF Sound
  <2>5. ASSUME NEW r \in Roots, kroot[r], root[r] # Null PROVE ValidPointer(root[r])
    BY <2>1, <2>4, <2>5 DEF RootInv, Good
  <2>6. ASSUME NEW w \in AllocatedWords, known[w], mem[w] # Null PROVE ValidPointer(mem[w])
    <3>1. w \in SrcUsed \cup ToUsed
      BY <2>2 DEF AllocatedWords, SrcUsed, ToUsed
    <3> QED
      BY <2>1, <2>4, <2>6, <3>1, KnownSound
  <2> QED
    BY <2>5, <2>6 DEF NoDangling
<1>2. Spec => [](IInv /\ GraphInv)
  BY AlwaysGraph
<1> QED
  BY <1>1, <1>2, PTL

(* The remembered set has every word of the old generation that holds a    *)
(* pointer into the young one, whatever stores, copies of memory and       *)
(* collections came before.                                                *)
THEOREM BarrierTheorem ==
    ASSUME ~CopiesUninitialised
    PROVE  Spec => []RememberedSetComplete
<1>1. IInv /\ GraphInv => RememberedSetComplete
  <2> SUFFICES ASSUME IInv, GraphInv, pc = "run", NEW w \in ToUsed, known[w], IsYoung(mem[w])
               PROVE  \E i \in DOMAIN remset : remset[i] = w
    BY DEF RememberedSetComplete, ToUsed
  <2>1. TypeOK /\ BitmapMatchesFree /\ ToInv /\ RegionInv /\ stage = "none"
    BY DEF IInv, ControlInv, GraphInv
  <2>2. /\ ToBase \in Nat /\ OldWords \in Nat /\ ofree \in 0 .. OldWords
        /\ tobitmap.used = ofree /\ tobitmap.map \subseteq Nat /\ oscan = ofree
    BY <2>1, SrcBounds DEF RegionInv
  <2>3. PICK c : c = mem[w]
    OBVIOUS
  <2>4. c # Null /\ Sound(c) /\ (InSrc(c) => Unscanned(w))
    BY <2>1, <2>3 DEF ToInv, Good, IsYoung, GC_IN
  <2>5. ~InTo(c)
    <3> SUFFICES ASSUME InTo(c) PROVE FALSE
      OBVIOUS
    <3>1. c \in Cap /\ WordOf(c) \in ToBase .. (ToBase + tobitmap.used - 1)
      BY <2>2, WithinFacts DEF InTo
    <3>2. YoungBase = 0 /\ YoungWords \in Nat
      BY ConstantsAssumption DEF YoungBase
    <3>3. WordOf(c) < YoungBase + YoungWords
      BY <2>3, <3>1, <3>2, InWords DEF IsYoung
    <3>4. ToBase > YoungWords
      <4>1. to \in {0, 1} /\ YoungWords \in Nat /\ OldWords \in Nat
        BY <2>1, ConstantsAssumption DEF TypeOK
      <4>2. CASE to = 0
        BY <4>1, <4>2 DEF ToBase, OldBase
      <4>3. CASE to = 1
        BY <4>1, <4>3 DEF ToBase, OldBase
      <4> QED
        BY <4>1, <4>2, <4>3
    <3> QED
      BY <2>2, <3>1, <3>2, <3>3, <3>4
  <2>6. Unscanned(w)
    BY <2>4, <2>5 DEF Sound
  <2>7. ~(ToBase + oscan <= w)
    BY <2>2 DEF ToUsed
  <2> QED
    BY <2>6, <2>7 DEF Unscanned
<1>2. Spec => [](IInv /\ GraphInv)
  BY AlwaysGraph
<1> QED
  BY <1>1, <1>2, PTL
=============================================================================
