--------------------------- MODULE GCSharingProofs ---------------------------
(***************************************************************************)
(* The collector copies each object at most once: two pointers to one      *)
(* object still share it afterwards, and the copies fit into the tospace.  *)
(* Both hold whatever garbage the collector takes for pointers, so nothing *)
(* is assumed of what the words hold.                                      *)
(***************************************************************************)
EXTENDS GCCollectProofs, FiniteSetTheorems

-----------------------------------------------------------------------------
(* The invariant.                                                          *)

(* The bitmap bm has an object at position p, n words long.                *)
IsObject(bm, p, n) ==
    /\ p \in bm.map /\ n \in Nat \ {0}
    /\ p + n <= bm.used
    /\ p + n # bm.used => p + n \in bm.map
    /\ \A q \in bm.map : ~(p < q /\ q < p + n)

(* The words in use in the tospace and in the space that is evacuated.     *)
ToUsed == ToBase .. (ToBase + ofree - 1)
FromUsed == FromBase .. (FromBase + FromBitmap.used - 1)

FromObject(p, n) == (FromBase + p) .. (FromBase + p + n - 1)

(* The object at position p of the fromspace has been copied, or looks as  *)
(* if it had.                                                              *)
Forwarded(p) == mem[FromBase + p] # Null /\ mem[FromBase + p].fwd

(* The words of the fromspace that may still have to be copied.            *)
Pending ==
    {f \in FromUsed :
        \E p \in FromBitmap.map, n \in 1 .. FromWords :
            IsObject(FromBitmap, p, n) /\ ~Forwarded(p) /\ f \in FromObject(p, n)}

Injective(S) == \A v, w \in S : orig[v] = orig[w] => v = w

(* No word is in the tospace twice, none is there and pending as well, and *)
(* there is room for all that is pending.                                  *)
CopyInv ==
    /\ stage = "none" => orig = [w \in Words |-> w]
    /\ stage # "none" =>
          /\ Injective(ToUsed)
          /\ Injective(FromUsed)
          /\ \A w \in ToUsed, f \in Pending : orig[w] # orig[f]
          /\ ofree + Cardinality(Pending) <= OldWords

SInv == IInv /\ CopyInv
-----------------------------------------------------------------------------
(* Objects and spaces.                                                     *)

(* Two objects of a bitmap are the same or apart.                          *)
LEMMA ObjectsApart ==
    ASSUME NEW bm, bm.map \subseteq Nat, bm.used \in Nat,
           NEW p, NEW n, IsObject(bm, p, n),
           NEW q, NEW m, IsObject(bm, q, m)
    PROVE  \/ p = q /\ n = m
           \/ p + n <= q
           \/ q + m <= p
<1>1. p \in Nat /\ q \in Nat /\ n \in Nat \ {0} /\ m \in Nat \ {0}
  BY DEF IsObject
<1>2. CASE p = q
  <2>1. ~(n < m)
    BY <1>1, <1>2 DEF IsObject
  <2>2. ~(m < n)
    BY <1>1, <1>2 DEF IsObject
  <2> QED
    BY <1>1, <1>2, <2>1, <2>2
<1>3. CASE p < q
  BY <1>1, <1>3 DEF IsObject
<1>4. CASE q < p
  BY <1>1, <1>4 DEF IsObject
<1> QED
  BY <1>1, <1>2, <1>3, <1>4

(* The two spaces between which objects are copied are apart.              *)
LEMMA SpacesApart ==
    ASSUME TypeOK
    PROVE  FromBase + FromWords <= ToBase \/ ToBase + OldWords <= FromBase
<1>1. OldWords \in Nat /\ YoungWords \in Nat /\ to \in {0, 1}
  BY ConstantsAssumption DEF TypeOK
<1>2. CASE stage = "promote"
  BY <1>1, <1>2 DEF FromBase, FromWords, ToBase, OldBase, YoungBase
<1>3. CASE stage # "promote" /\ to = 0
  BY <1>1, <1>3 DEF FromBase, FromWords, ToBase, OldBase
<1>4. CASE stage # "promote" /\ to = 1
  BY <1>1, <1>4 DEF FromBase, FromWords, ToBase, OldBase
<1> QED
  BY <1>1, <1>2, <1>3, <1>4

(* All the bounds that the proofs below need of the two spaces.            *)
LEMMA Bounds ==
    ASSUME TypeOK
    PROVE  /\ FromBase \in Nat /\ FromWords \in Nat /\ ToBase \in Nat
           /\ FromBitmap.used \in 0 .. FromWords /\ FromBitmap.map \subseteq Nat
           /\ OldWords \in Nat /\ ofree \in 0 .. OldWords /\ to \in {0, 1}
           /\ \A f \in FromBase .. (FromBase + FromWords - 1) : f \in Words
           /\ \A w \in ToBase .. (ToBase + OldWords - 1) : w \in Words
           /\ \A w \in Words : w \in Nat
           /\ OldSpace(to) = ToBase .. (ToBase + OldWords - 1)
<1>1. /\ FromBase \in Nat /\ FromWords \in Nat /\ ToBase \in Nat
      /\ FromBase .. (FromBase + FromWords - 1) \subseteq Words
      /\ FromBitmap \in Bitmaps(FromWords)
  BY FromspaceInMemory
<1>2. FromBitmap.used \in 0 .. FromWords /\ FromBitmap.map \subseteq Nat
  BY <1>1 DEF Bitmaps
<1>3. to \in {0, 1} /\ OldSpace(to) \subseteq Words
  BY SpacesInMemory DEF TypeOK
<1>4. \A w \in Words : w \in Nat
  BY ConstantsAssumption DEF Words
<1>5. OldWords \in Nat /\ ofree \in 0 .. OldWords
  BY ConstantsAssumption DEF TypeOK
<1> QED
  BY <1>1, <1>2, <1>3, <1>4, <1>5 DEF OldSpace, ToBase

-----------------------------------------------------------------------------
(* What the copying of one object does.                                    *)

(* The object that GC_copy_object is called with for the visited cap.      *)
Visits(cap, p, n) ==
    /\ IsObject(FromBitmap, p, n)
    /\ WordOf(ObjectCap(cap)) = FromBase + p
    /\ AlignWords(ObjectCap(cap).len) = n

(* It is a whole object of the fromspace, also for an interior pointer.    *)
LEMMA VisitedObject ==
    ASSUME TypeOK, NEW cap \in Cap \cup {Null}, ~Skipped(cap)
    PROVE  \E p \in Nat, n \in 1 .. FromWords : Visits(cap, p, n)
<1>1. PICK pos, obj : pos = PosInFromspace(cap) /\ obj = ObjectCap(cap)
  OBVIOUS
<1>2. /\ cap \in Cap /\ obj \in Cap /\ WordOf(obj) >= FromBase
      /\ AlignWords(obj.len) \in Nat \ {0}
      /\ IsExact(cap) \/ IsInterior(cap)
  BY <1>1, ObjectInFromspace DEF Skipped
<1>3. /\ FromBase \in Nat /\ FromWords \in Nat
      /\ FromBitmap.used \in 0 .. FromWords /\ FromBitmap.map \subseteq Nat
  BY Bounds
<1>4. WordOf(cap) \in Nat /\ WordOf(obj) \in Nat
  BY <1>2, WordNat
<1>5. PICK p, n : p = WordOf(obj) - FromBase /\ n = AlignWords(obj.len)
  OBVIOUS
<1>6. p \in Nat /\ n \in Nat \ {0} /\ WordOf(obj) = FromBase + p
  BY <1>2, <1>3, <1>4, <1>5
<1>7. IsObject(FromBitmap, p, n)
  <2>1. CASE IsExact(cap)
    <3>1. obj = cap /\ pos = p
      BY <1>1, <1>5, <2>1 DEF ObjectCap, PosInFromspace
    <3>2. /\ p + n <= FromBitmap.used /\ p \in FromBitmap.map
          /\ p + n # FromBitmap.used => p + n \in FromBitmap.map
          /\ \A i \in 1 .. (n - 1) : p + i \notin FromBitmap.map
      BY <1>1, <1>5, <2>1, <3>1 DEF IsExact, GC_bitmap_find
    <3>3. ASSUME NEW q \in FromBitmap.map, p < q, q < p + n PROVE FALSE
      <4>1. q - p \in 1 .. (n - 1) /\ p + (q - p) = q
        BY <1>3, <1>6, <3>3
      <4> QED
        BY <3>2, <4>1
    <3> QED
      BY <1>6, <3>2, <3>3 DEF IsObject
  <2>2. CASE ~IsExact(cap)
    <3>1. PICK start, len : /\ start = ContainerStart(FromBitmap, pos)
                            /\ len = ContainerLen(FromBitmap, pos)
      OBVIOUS
    <3>2. HasContainer(FromBitmap, pos)
      BY <1>1, <1>2, <2>2 DEF IsInterior
    <3>3. /\ start \in FromBitmap.map
          /\ \E l \in 1 .. FromBitmap.used : IsContainer(FromBitmap, pos, start, l)
      BY <3>1, <3>2 DEF HasContainer, ContainerStart
    <3>4. len \in 1 .. FromBitmap.used /\ IsContainer(FromBitmap, pos, start, len)
      BY <3>1, <3>3 DEF ContainerLen
    <3>5. IsObject(FromBitmap, start, len)
      BY <1>3, <3>3, <3>4 DEF IsContainer, IsObject
    <3>6. start \in Nat /\ len \in Nat /\ start <= pos
      BY <1>3, <3>3, <3>4 DEF IsContainer
    <3>7. pos = WordOf(cap) - FromBase
      BY <1>1 DEF PosInFromspace
    <3>8. Relbase(cap) = pos - start /\ ContainerBytes(cap) = WordBytes * len
      BY <1>1, <3>1 DEF Relbase, ContainerBytes
    <3>9. obj = [base |-> cap.base - WordBytes * (pos - start),
                 len |-> WordBytes * len, fwd |-> cap.fwd]
      BY <1>1, <2>2, <3>8 DEF ObjectCap, GC_setbaselen
    <3>10. n = len
      BY <1>5, <3>6, <3>9, AlignWhole
    <3>11. p = start
      <4>1. cap.base \in Nat /\ obj.base \in Nat /\ obj.base = cap.base - WordBytes * (pos - start)
        BY <1>2, <3>9 DEF Cap
      <4>2. cap.base - WordBytes * (pos - start) >= 0 /\ pos - start \in Int
        BY <1>3, <1>4, <3>6, <3>7, <4>1
      <4>3. (cap.base - WordBytes * (pos - start)) \div WordBytes
              = (cap.base \div WordBytes) - (pos - start)
        BY <4>1, <4>2, DivShift, ConstantsAssumption
      <4>4. WordOf(obj) = WordOf(cap) - (pos - start)
        BY <4>1, <4>3 DEF WordOf
      <4> QED
        BY <1>3, <1>4, <1>5, <3>6, <3>7, <4>4
    <3> QED
      BY <3>5, <3>10, <3>11
  <2> QED
    BY <2>1, <2>2
<1>8. n \in 1 .. FromWords
  BY <1>3, <1>6, <1>7 DEF IsObject
<1> QED
  BY <1>1, <1>5, <1>6, <1>7, <1>8 DEF Visits

(* g is f after the words of an object were copied to the free pointer.    *)
CopiedTo(f, g, p, n) ==
    /\ \A i \in 0 .. (n - 1) : g[ToBase + ofree + i] = f[FromBase + p + i]
    /\ \A w \in Words : w < ToBase + ofree \/ ToBase + ofree + n <= w => g[w] = f[w]

LEMMA CopyWordsFacts ==
    ASSUME TypeOK, NEW f, NEW p \in Nat, NEW n \in Nat, ofree + n <= OldWords
    PROVE  CopiedTo(f, CopyWords(f, FromBase + p, ToBase + ofree, n), p, n)
<1>1. PICK s, d, g : /\ s = FromBase + p /\ d = ToBase + ofree
                     /\ g = CopyWords(f, s, d, n)
  OBVIOUS
<1>2. /\ s \in Nat /\ d \in Nat /\ \A w \in Words : w \in Nat
      /\ \A w \in d .. (d + n - 1) : w \in Words
  <2>1. /\ FromBase \in Nat /\ ToBase \in Nat /\ ofree \in Nat /\ OldWords \in Nat
        /\ \A w \in Words : w \in Nat
        /\ \A w \in ToBase .. (ToBase + OldWords - 1) : w \in Words
    BY Bounds
  <2>2. d .. (d + n - 1) \subseteq ToBase .. (ToBase + OldWords - 1)
    BY <1>1, <2>1
  <2> QED
    BY <1>1, <2>1, <2>2
<1>3. \A w \in Words : g[w] = IF w \in d .. (d + n - 1) THEN f[s + (w - d)] ELSE f[w]
  BY <1>1 DEF CopyWords
<1>4. ASSUME NEW i \in 0 .. (n - 1) PROVE g[d + i] = f[s + i]
  <2>1. PICK w : w = d + i
    OBVIOUS
  <2>2. w \in d .. (d + n - 1) /\ w - d = i
    BY <1>2, <2>1
  <2> QED
    BY <1>2, <1>3, <2>1, <2>2
<1>5. \A w \in Words : w < d \/ d + n <= w => g[w] = f[w]
  BY <1>2, <1>3
<1> QED
  BY <1>1, <1>4, <1>5 DEF CopiedTo

(* m is the memory after the object was copied, with the forwarding        *)
(* address in its first word.                                              *)
MemCopied(m, p, n, l) ==
    /\ m \in [Words -> Cap \cup {Null}]
    /\ m[FromBase + p] \in Cap /\ m[FromBase + p].fwd
    /\ m[FromBase + p].base = (ToBase + ofree) * WordBytes /\ m[FromBase + p].len = l
    /\ \A i \in 0 .. (n - 1) : m[ToBase + ofree + i] = mem[FromBase + p + i]
    /\ \A w \in Words : w # FromBase + p /\ (w < ToBase + ofree \/ ToBase + ofree + n <= w)
          => m[w] = mem[w]

(* The object at p has been copied before, or it is copied now.            *)
Returns(p, m) ==
    /\ Forwarded(p) /\ m = mem
    /\ UNCHANGED <<ofree, tobitmap, known, orig>>

Copies(p, n, l, m) ==
    /\ ~Forwarded(p) /\ ofree + n <= OldWords
    /\ ofree' = ofree + n /\ tobitmap' = GC_bitmap_allocate(tobitmap, n)
    /\ CopiedTo(orig, orig', p, n) /\ CopiedTo(known, known', p, n)
    /\ MemCopied(m, p, n, l)

LEMMA CopyObject ==
    ASSUME TypeOK, NEW cap \in Cap \cup {Null}, CanMove(cap),
           GC_copy_object(ObjectCap(cap)),
           NEW p \in Nat, NEW n \in 1 .. FromWords, Visits(cap, p, n)
    PROVE  \/ Returns(p, CopiedMem(ObjectCap(cap)))
           \/ Copies(p, n, ObjectCap(cap).len, CopiedMem(ObjectCap(cap)))
<1>1. PICK obj, m : obj = ObjectCap(cap) /\ m = CopiedMem(obj)
  OBVIOUS
<1>2. /\ WordOf(obj) = FromBase + p /\ AlignWords(obj.len) = n
      /\ IsForwarded(obj) = Forwarded(p) /\ IsObject(FromBitmap, p, n)
  BY <1>1 DEF Visits, IsForwarded, Forwarded
<1>3. CASE Forwarded(p)
  <2>1. m = mem /\ UNCHANGED <<ofree, tobitmap, known, orig>>
    BY <1>1, <1>2, <1>3 DEF CopiedMem, GC_copy_object
  <2> QED
    BY <1>1, <1>3, <2>1 DEF Returns
<1>4. CASE ~Forwarded(p)
  <2>1. /\ n \in Nat \ {0} /\ ofree \in Nat /\ OldWords \in Nat /\ ToBase \in Nat
        /\ FromBase \in Nat /\ FromWords \in Nat /\ p + n <= FromWords
    BY <1>2, Bounds DEF IsObject
  <2>2. ofree + n <= OldWords
    BY <1>1, <1>2, <1>4, <2>1 DEF CanMove, HasRoom
  <2>3. /\ ofree' = ofree + n /\ tobitmap' = GC_bitmap_allocate(tobitmap, n)
        /\ orig' = CopyWords(orig, FromBase + p, ToBase + ofree, n)
        /\ known' = CopyWords(known, FromBase + p, ToBase + ofree, n)
    BY <1>1, <1>2, <1>4 DEF GC_copy_object
  <2>4. CopiedTo(orig, orig', p, n) /\ CopiedTo(known, known', p, n)
    BY <2>1, <2>2, <2>3, CopyWordsFacts
  <2>5. PICK fwd, c : /\ fwd = [CopyOf(obj) EXCEPT !.fwd = TRUE]
                      /\ c = CopyWords(mem, FromBase + p, ToBase + ofree, n)
    OBVIOUS
  <2>6. m = [c EXCEPT ![FromBase + p] = fwd]
    BY <1>1, <1>2, <1>4, <2>5 DEF CopiedMem
  <2>7. /\ fwd \in Cap /\ fwd.fwd
         /\ fwd.base = (ToBase + ofree) * WordBytes /\ fwd.len = obj.len
    <3>1. CopyOf(obj) \in Cap
      BY <1>1, CopyTypes
    <3>2. CopyOf(obj).base = (ToBase + ofree) * WordBytes /\ CopyOf(obj).len = obj.len
      BY <1>2, <1>4 DEF CopyOf
    <3> QED
      BY <2>5, <3>1, <3>2 DEF Cap
  <2>8. CopiedTo(mem, c, p, n)
    BY <2>1, <2>2, <2>5, CopyWordsFacts
  <2>9. m \in [Words -> Cap \cup {Null}]
    BY <1>1, CopyTypes
  <2>10. DOMAIN c = Words
    BY <2>5 DEF CopyWords
  <2>11. FromBase + p \in Words
    BY <2>1, Bounds
  <2>12. FromBase + p < ToBase + ofree \/ ToBase + ofree + n <= FromBase + p
    BY <2>1, <2>2, SpacesApart
  <2>13. m[FromBase + p] = fwd
    BY <2>6, <2>10, <2>11
  <2>14. \A w \in Words : w # FromBase + p => m[w] = c[w]
    BY <2>6, <2>10
  <2>15. ASSUME NEW i \in 0 .. (n - 1) PROVE m[ToBase + ofree + i] = mem[FromBase + p + i]
    <3>1. PICK w : w = ToBase + ofree + i
      OBVIOUS
    <3>2. w \in Words /\ w # FromBase + p
      BY <2>1, <2>2, <2>12, <3>1, Bounds
    <3> QED
      BY <2>8, <2>14, <3>1, <3>2 DEF CopiedTo
  <2>16. MemCopied(m, p, n, obj.len)
    BY <2>8, <2>9, <2>13, <2>14, <2>15, <2>7 DEF MemCopied, CopiedTo
  <2> QED
    BY <1>1, <1>4, <2>2, <2>3, <2>4, <2>16 DEF Copies
<1> QED
  BY <1>3, <1>4
-----------------------------------------------------------------------------
(* The steps of a copy.                                                    *)

(* The spaces do not change while objects are copied.                      *)
SameSpaces == UNCHANGED <<stage, to, ybitmap, frombitmap>>

LEMMA FromspaceKept ==
    ASSUME SameSpaces
    PROVE  /\ FromBase' = FromBase /\ FromWords' = FromWords
           /\ FromBitmap' = FromBitmap /\ ToBase' = ToBase
           /\ \A p, n : IsObject(FromBitmap, p, n)' = IsObject(FromBitmap, p, n)
           /\ \A p, n : FromObject(p, n)' = FromObject(p, n)
           /\ FromUsed' = FromUsed
BY DEF SameSpaces, FromBase, FromWords, FromBitmap, ToBase, IsObject, FromObject, FromUsed

(* A part of a space is finite.                                            *)
LEMMA PartFinite ==
    ASSUME NEW b \in Nat, NEW u \in Nat, NEW S \in SUBSET (b .. (b + u - 1))
    PROVE  /\ IsFiniteSet(S) /\ Cardinality(S) \in Nat
           /\ Cardinality(S) <= u
<1>1. b \in Int /\ b + u - 1 \in Int
  OBVIOUS
<1>2. /\ IsFiniteSet(b .. (b + u - 1))
      /\ Cardinality(b .. (b + u - 1)) = IF b > b + u - 1 THEN 0 ELSE (b + u - 1) - b + 1
  BY <1>1, FS_Interval
<1>3. IsFiniteSet(S) /\ Cardinality(S) <= Cardinality(b .. (b + u - 1))
  BY <1>2, FS_Subset
<1> QED
  BY <1>2, <1>3, FS_CardinalityType

LEMMA PendingFinite ==
    ASSUME TypeOK
    PROVE  IsFiniteSet(Pending) /\ Cardinality(Pending) \in Nat
<1>1. FromBase \in Nat /\ FromBitmap.used \in Nat
  BY Bounds
<1>2. Pending \in SUBSET (FromBase .. (FromBase + FromBitmap.used - 1))
  BY DEF Pending, FromUsed
<1> QED
  BY <1>1, <1>2, PartFinite

(* Each word of an object that has not been copied is pending.             *)
LEMMA ObjectPending ==
    ASSUME TypeOK, NEW p, NEW n, IsObject(FromBitmap, p, n), ~Forwarded(p)
    PROVE  FromObject(p, n) \subseteq Pending
<1>1. /\ FromBase \in Nat /\ FromWords \in Nat /\ FromBitmap.used \in 0 .. FromWords
      /\ p \in Nat /\ n \in Nat \ {0} /\ p + n <= FromBitmap.used
  BY Bounds DEF IsObject
<1>2. n \in 1 .. FromWords /\ p \in FromBitmap.map
  BY <1>1 DEF IsObject
<1>3. FromObject(p, n) \subseteq FromUsed
  BY <1>1 DEF FromObject, FromUsed
<1> QED
  BY <1>2, <1>3 DEF Pending

LEMMA ObjectFits ==
    ASSUME TypeOK, CopyInv, stage # "none",
           NEW p, NEW n, IsObject(FromBitmap, p, n), ~Forwarded(p)
    PROVE  n <= OldWords - ofree
<1>1. /\ FromBase \in Nat /\ ofree \in Nat /\ OldWords \in Nat /\ p \in Nat /\ n \in Nat \ {0}
  BY Bounds DEF IsObject
<1>2. FromObject(p, n) \in SUBSET Pending
  BY ObjectPending
<1>3. IsFiniteSet(Pending) /\ Cardinality(Pending) \in Nat
  BY PendingFinite
<1>4. Cardinality(FromObject(p, n)) = n
  <2>1. FromBase + p \in Int /\ FromBase + p + n - 1 \in Int
    BY <1>1
  <2>2. Cardinality(FromObject(p, n))
          = IF FromBase + p > FromBase + p + n - 1 THEN 0 ELSE (FromBase + p + n - 1) - (FromBase + p) + 1
    BY <2>1, FS_Interval DEF FromObject
  <2> QED
    BY <1>1, <2>2
<1>5. n <= Cardinality(Pending)
  BY <1>2, <1>3, <1>4, FS_Subset
<1> QED
  BY <1>1, <1>3, <1>5 DEF CopyInv

(* One object was copied, or was copied before; memory changes in the      *)
(* fromspace only where the forwarding address is left.                    *)
LEMMA CopyInvStep ==
    ASSUME TypeOK, CopyInv, stage # "none", SameSpaces,
           NEW p, NEW n, NEW l, NEW m, IsObject(FromBitmap, p, n),
           Returns(p, m) \/ Copies(p, n, l, m),
           \A f \in FromBase .. (FromBase + FromWords - 1) : mem'[f] = m[f]
    PROVE  CopyInv'
<1>1. /\ FromBase \in Nat /\ FromWords \in Nat /\ ToBase \in Nat
      /\ FromBitmap.used \in 0 .. FromWords /\ FromBitmap.map \subseteq Nat
      /\ OldWords \in Nat /\ ofree \in 0 .. OldWords
      /\ \A f \in FromBase .. (FromBase + FromWords - 1) : f \in Words
      /\ \A w \in ToBase .. (ToBase + OldWords - 1) : w \in Words
      /\ \A w \in Words : w \in Nat
  BY Bounds
<1>2. p \in Nat /\ n \in Nat \ {0} /\ p + n <= FromBitmap.used
  BY <1>1 DEF IsObject
<1>3. /\ Injective(ToUsed) /\ Injective(FromUsed)
      /\ \A w \in ToUsed, f \in Pending : orig[w] # orig[f]
      /\ ofree + Cardinality(Pending) <= OldWords
  BY DEF CopyInv
<1>4. stage' # "none"
  BY DEF SameSpaces
<1>5. \A q \in FromBitmap.map : q < FromBitmap.used => FromBase + q \in FromBase .. (FromBase + FromWords - 1)
  BY <1>1
<1>6. CASE Returns(p, m)
  <2>1. m = mem /\ ofree' = ofree /\ orig' = orig
    BY <1>6 DEF Returns
  <2>2. \A q \in FromBitmap.map : q < FromBitmap.used => Forwarded(q)' = Forwarded(q)
    BY <1>5, <2>1, FromspaceKept DEF Forwarded
  <2>3. \A q, k : IsObject(FromBitmap, q, k) => q \in FromBitmap.map /\ q < FromBitmap.used
    BY <1>1 DEF IsObject
  <2>4. Pending' = Pending
    BY <2>2, <2>3, FromspaceKept DEF Pending
  <2>5. ToUsed' = ToUsed /\ FromUsed' = FromUsed
    BY <2>1, FromspaceKept DEF ToUsed
  <2> QED
    BY <1>3, <1>4, <2>1, <2>4, <2>5 DEF CopyInv, Injective
<1>7. CASE Copies(p, n, l, m)
  <2>1. /\ ~Forwarded(p) /\ ofree' = ofree + n /\ ofree + n <= OldWords
        /\ \A i \in 0 .. (n - 1) : orig'[ToBase + ofree + i] = orig[FromBase + p + i]
        /\ \A w \in Words : w < ToBase + ofree \/ ToBase + ofree + n <= w => orig'[w] = orig[w]
        /\ m[FromBase + p] \in Cap /\ m[FromBase + p].fwd
        /\ \A w \in Words : w # FromBase + p /\ (w < ToBase + ofree \/ ToBase + ofree + n <= w)
              => m[w] = mem[w]
    BY <1>7 DEF Copies, CopiedTo, MemCopied
  <2>2. \A f \in FromBase .. (FromBase + FromWords - 1) :
           f \in Words /\ (f < ToBase + ofree \/ ToBase + ofree + n <= f)
    BY <1>1, <1>2, <2>1, SpacesApart
  <2>3. \A f \in FromUsed : orig'[f] = orig[f]
    BY <1>1, <2>1, <2>2 DEF FromUsed
  <2>4. \A w \in ToUsed : orig'[w] = orig[w]
    BY <1>1, <2>1 DEF ToUsed
  <2>5. /\ FromObject(p, n) \subseteq Pending /\ FromObject(p, n) \subseteq FromUsed
    <3>1. FromObject(p, n) \subseteq Pending
      BY <2>1, ObjectPending
    <3>2. Pending \subseteq FromUsed
      BY DEF Pending
    <3> QED
      BY <3>1, <3>2
  <2>6. \A w \in ToUsed' :
           \/ w \in ToUsed
           \/ \E i \in 0 .. (n - 1) : /\ w = ToBase + ofree + i
                                      /\ FromBase + p + i \in FromObject(p, n)
                                      /\ orig'[w] = orig[FromBase + p + i]
    <3> TAKE w \in ToUsed'
    <3>1. w \in ToBase .. (ToBase + (ofree + n) - 1)
      BY <2>1, FromspaceKept DEF ToUsed
    <3>2. CASE w < ToBase + ofree
      BY <1>1, <3>1, <3>2 DEF ToUsed
    <3>3. CASE ~(w < ToBase + ofree)
      <4>1. PICK i : i = w - (ToBase + ofree)
        OBVIOUS
      <4>2. /\ i \in 0 .. (n - 1) /\ w = ToBase + ofree + i
            /\ FromBase + p + i \in FromObject(p, n)
        BY <1>1, <1>2, <3>1, <3>3, <4>1 DEF FromObject
      <4> QED
        BY <2>1, <4>2
    <3> QED
      BY <3>2, <3>3
  <2>7. Injective(FromUsed)'
    BY <1>3, <2>3, FromspaceKept DEF Injective
  <2>8. Injective(ToUsed)'
    <3> SUFFICES ASSUME NEW v \in ToUsed', NEW w \in ToUsed', orig'[v] = orig'[w] PROVE v = w
      BY DEF Injective
    <3>1. CASE v \in ToUsed /\ w \in ToUsed
      BY <1>3, <2>4, <3>1 DEF Injective
    <3>2. CASE v \in ToUsed /\ w \notin ToUsed
      BY <1>3, <2>4, <2>5, <2>6, <3>2
    <3>3. CASE v \notin ToUsed /\ w \in ToUsed
      BY <1>3, <2>4, <2>5, <2>6, <3>3
    <3>4. CASE v \notin ToUsed /\ w \notin ToUsed
      <4>1. PICK i \in 0 .. (n - 1) : /\ v = ToBase + ofree + i
                                      /\ FromBase + p + i \in FromObject(p, n)
                                      /\ orig'[v] = orig[FromBase + p + i]
        BY <2>6, <3>4
      <4>2. PICK j \in 0 .. (n - 1) : /\ w = ToBase + ofree + j
                                      /\ FromBase + p + j \in FromObject(p, n)
                                      /\ orig'[w] = orig[FromBase + p + j]
        BY <2>6, <3>4
      <4>3. FromBase + p + i = FromBase + p + j
        BY <1>3, <2>5, <4>1, <4>2 DEF Injective
      <4>4. i = j
        BY <1>1, <1>2, <4>3
      <4> QED
        BY <4>1, <4>2, <4>4
    <3> QED
      BY <3>1, <3>2, <3>3, <3>4
  <2>9. Pending' \subseteq Pending \ FromObject(p, n)
    <3> SUFFICES ASSUME NEW f \in Pending' PROVE f \in Pending \ FromObject(p, n)
      OBVIOUS
    <3>1. PICK q \in FromBitmap.map, k \in 1 .. FromWords :
             IsObject(FromBitmap, q, k) /\ ~Forwarded(q)' /\ f \in FromObject(q, k)
      BY FromspaceKept DEF Pending
    <3>2. f \in FromUsed
      BY FromspaceKept DEF Pending
    <3>3. /\ q \in Nat /\ k \in Nat \ {0} /\ q < FromBitmap.used
          /\ FromBase + q \in FromBase .. (FromBase + FromWords - 1)
      BY <1>1, <1>5, <3>1 DEF IsObject
    <3>4. mem'[FromBase + q] = m[FromBase + q]
      BY <3>3
    <3>5. q # p
      <4> SUFFICES ASSUME q = p PROVE FALSE
        OBVIOUS
      <4>1. mem'[FromBase + p] \in Cap /\ mem'[FromBase + p].fwd
        BY <2>1, <3>4
      <4>2. Forwarded(p)'
        BY <4>1, FromspaceKept, NullAssumption DEF Forwarded
      <4> QED
        BY <3>1, <4>2
    <3>6. ~Forwarded(q)
      <4>0. PICK g : g = FromBase + q
        OBVIOUS
      <4>1. /\ g \in Words /\ g # FromBase + p
            /\ g < ToBase + ofree \/ ToBase + ofree + n <= g
        <5>1. g \in FromBase .. (FromBase + FromWords - 1)
          BY <3>3, <4>0
        <5>2. g # FromBase + p
          BY <1>1, <1>2, <3>3, <3>5, <4>0
        <5> QED
          BY <2>2, <5>1, <5>2
      <4>2. m[FromBase + q] = mem[FromBase + q]
        BY <2>1, <4>0, <4>1
      <4>3. mem'[FromBase + q] = mem[FromBase + q]
        BY <3>4, <4>2
      <4> QED
        BY <3>1, <4>3, FromspaceKept DEF Forwarded
    <3>7. f \in Pending
      BY <3>1, <3>2, <3>6 DEF Pending
    <3>8. f \notin FromObject(p, n)
      <4>1. p + n <= q \/ q + k <= p
        BY <1>1, <3>1, <3>5, ObjectsApart
      <4> QED
        BY <1>1, <1>2, <3>1, <3>3, <4>1 DEF FromObject
    <3> QED
      BY <3>7, <3>8
  <2>10. ASSUME NEW w \in ToUsed', NEW f \in Pending' PROVE orig'[w] # orig'[f]
    <3>1. f \in Pending /\ f \notin FromObject(p, n) /\ f \in FromUsed /\ orig'[f] = orig[f]
      BY <2>3, <2>9 DEF Pending
    <3>2. CASE w \in ToUsed
      BY <1>3, <2>4, <3>1, <3>2
    <3>3. CASE w \notin ToUsed
      BY <1>3, <2>5, <2>6, <3>1, <3>3 DEF Injective
    <3> QED
      BY <3>2, <3>3
  <2>11. ofree' + Cardinality(Pending') <= OldWords
    <3>1. IsFiniteSet(Pending) /\ Cardinality(Pending) \in Nat
      BY PendingFinite
    <3>2. Cardinality(FromObject(p, n)) = n
      <4>1. FromBase + p \in Int /\ FromBase + p + n - 1 \in Int
        BY <1>1, <1>2
      <4>2. Cardinality(FromObject(p, n))
              = IF FromBase + p > FromBase + p + n - 1 THEN 0 ELSE (FromBase + p + n - 1) - (FromBase + p) + 1
        BY <4>1, FS_Interval DEF FromObject
      <4> QED
        BY <1>1, <1>2, <4>2
    <3>3. Pending \cap FromObject(p, n) = FromObject(p, n)
      BY <2>5
    <3>4. /\ IsFiniteSet(Pending \ FromObject(p, n))
          /\ Cardinality(Pending \ FromObject(p, n)) = Cardinality(Pending) - n
      <4>1. /\ IsFiniteSet(Pending \ FromObject(p, n))
            /\ Cardinality(Pending \ FromObject(p, n))
                  = Cardinality(Pending) - Cardinality(Pending \cap FromObject(p, n))
        BY <3>1, FS_Difference
      <4> QED
        BY <3>2, <3>3, <4>1
    <3>5. Pending' \in SUBSET (Pending \ FromObject(p, n))
      BY <2>9
    <3>6. IsFiniteSet(Pending') /\ Cardinality(Pending') <= Cardinality(Pending) - n
      BY <3>4, <3>5, FS_Subset
    <3>7. Cardinality(Pending') \in Nat
      BY <3>6, FS_CardinalityType
    <3> QED
      BY <1>1, <1>2, <1>3, <2>1, <3>1, <3>6, <3>7
  <2> QED
    BY <1>4, <2>7, <2>8, <2>10, <2>11 DEF CopyInv
<1> QED
  BY <1>6, <1>7
(* Nothing that the invariant is about changes.                            *)
LEMMA CopyInvKept ==
    ASSUME CopyInv, SameSpaces, UNCHANGED <<mem, ofree, orig>>
    PROVE  CopyInv'
<1>1. Pending' = Pending
  BY FromspaceKept DEF Pending, Forwarded
<1>2. ToUsed' = ToUsed /\ FromUsed' = FromUsed
  BY FromspaceKept DEF ToUsed
<1> QED
  BY <1>1, <1>2 DEF CopyInv, Injective, SameSpaces

(* The collector visits cap, wherever it found it.                         *)
LEMMA VisitKeeps ==
    ASSUME TypeOK, CopyInv, stage # "none", SameSpaces,
           NEW cap \in Cap \cup {Null}, CanMove(cap), GC_copy_object(ObjectCap(cap)),
           \A f \in FromBase .. (FromBase + FromWords - 1) :
              mem'[f] = CopiedMem(ObjectCap(cap))[f]
    PROVE  CopyInv'
<1>1. ~Skipped(cap)
  BY DEF CanMove
<1>2. PICK p \in Nat, n \in 1 .. FromWords : Visits(cap, p, n)
  BY <1>1, VisitedObject
<1>3. IsObject(FromBitmap, p, n)
  BY <1>2 DEF Visits
<1>4. PICK l, m : l = ObjectCap(cap).len /\ m = CopiedMem(ObjectCap(cap))
  OBVIOUS
<1>5. Returns(p, m) \/ Copies(p, n, l, m)
  BY <1>2, <1>4, CopyObject
<1>6. \A f \in FromBase .. (FromBase + FromWords - 1) : mem'[f] = m[f]
  BY <1>4
<1> QED
  BY <1>3, <1>5, <1>6, CopyInvStep

(* GC_copy_child on a word x of the tospace.                               *)
LEMMA ChildKeeps ==
    ASSUME TypeOK, CopyInv, stage # "none", SameSpaces,
           NEW x \in OldSpace(to), GC_copy_child(x)
    PROVE  CopyInv'
<1>1. /\ FromBase \in Nat /\ FromWords \in Nat /\ ToBase \in Nat /\ OldWords \in Nat
      /\ x \in ToBase .. (ToBase + OldWords - 1) /\ x \in Words
      /\ \A f \in FromBase .. (FromBase + FromWords - 1) : f \in Words
  BY Bounds
<1>2. mem[x] \in Cap \cup {Null}
  BY <1>1 DEF TypeOK
<1>3. CASE UNCHANGED <<mem, ofree, tobitmap, known, orig>>
  BY <1>3, CopyInvKept
<1>4. CASE /\ CanMove(mem[x])
           /\ mem' = [CopiedMem(ObjectCap(mem[x])) EXCEPT ![x] = Moved(mem[x])]
           /\ GC_copy_object(ObjectCap(mem[x]))
  <2>1. x \notin FromBase .. (FromBase + FromWords - 1)
    BY <1>1, SpacesApart
  <2>2. CopiedMem(ObjectCap(mem[x])) \in [Words -> Cap \cup {Null}]
    BY <1>2, <1>4, CopyTypes
  <2>3. PICK m, v : m = CopiedMem(ObjectCap(mem[x])) /\ v = Moved(mem[x])
    OBVIOUS
  <2>4. mem' = [m EXCEPT ![x] = v]
    BY <1>4, <2>3
  <2>5. \A f \in FromBase .. (FromBase + FromWords - 1) : mem'[f] = m[f]
    BY <1>1, <2>1, <2>2, <2>3, <2>4
  <2> QED
    BY <1>2, <1>4, <2>3, <2>5, VisitKeeps
<1> QED
  BY <1>3, <1>4 DEF GC_copy_child

LEMMA RootsKeep ==
    ASSUME IInv, CopyInv, GC_copy_roots
    PROVE  CopyInv'
<1>1. /\ TypeOK /\ stage # "none" /\ index \in Roots
      /\ root[index] \in Cap \cup {Null}
  BY DEF IInv, ControlInv, TypeOK, GC_copy_roots
<1>2. SameSpaces
  BY DEF SameSpaces, GC_copy_roots
<1>3. CASE UNCHANGED <<mem, root, ofree, tobitmap, known, orig>>
  BY <1>2, <1>3, CopyInvKept
<1>4. CASE /\ CanMove(root[index]) /\ mem' = CopiedMem(ObjectCap(root[index]))
           /\ GC_copy_object(ObjectCap(root[index]))
  BY <1>1, <1>2, <1>4, VisitKeeps
<1> QED
  BY <1>3, <1>4 DEF GC_copy_roots

LEMMA RemsetKeeps ==
    ASSUME IInv, CopyInv, GC_copy_remembered_set
    PROVE  CopyInv'
<1>1. /\ TypeOK /\ stage # "none" /\ index \in Nat /\ index >= 1
      /\ remset \in Seq(OldSpace(to))
  BY DEF IInv, ControlInv, TypeOK, GC_copy_remembered_set
<1>2. SameSpaces
  BY DEF SameSpaces, GC_copy_remembered_set
<1>3. CASE index <= Len(remset) /\ GC_copy_child(remset[index])
  <2>1. remset[index] \in OldSpace(to)
    BY <1>1, <1>3
  <2> QED
    BY <1>1, <1>2, <1>3, <2>1, ChildKeeps
<1>4. CASE UNCHANGED <<mem, ofree, tobitmap, known, orig>>
  BY <1>2, <1>4, CopyInvKept
<1> QED
  BY <1>3, <1>4 DEF GC_copy_remembered_set

LEMMA ChildrenKeep ==
    ASSUME IInv, CopyInv, GC_copy_children
    PROVE  CopyInv'
<1>1. TypeOK /\ stage # "none"
  BY DEF IInv, ControlInv, GC_copy_children
<1>2. SameSpaces
  BY DEF SameSpaces, GC_copy_children, ctlVars
<1>3. ToBase + oscan \in OldSpace(to)
  <2>1. oscan \in 0 .. ofree /\ oscan < ofree
    BY <1>1 DEF TypeOK, GC_copy_children
  <2> QED
    BY <1>1, <2>1, Bounds
<1>4. GC_copy_child(ToBase + oscan)
  BY DEF GC_copy_children
<1> QED
  BY <1>1, <1>2, <1>3, <1>4, ChildKeeps

-----------------------------------------------------------------------------
(* The beginning and the end of a copy.                                    *)

(* Everything that is in use in the young space may become pending, and    *)
(* the estimate of GC_gen_promote counts all of it.                        *)
LEMMA PromotionKeeps ==
    ASSUME IInv, CopyInv, NEW forced \in BOOLEAN, NEW back \in {"run", "retry"},
           pc = "run", GC_collect_region(forced, back)
    PROVE  CopyInv'
<1>1. TypeOK /\ stage = "none" /\ yfree = ybitmap.used
  BY DEF IInv, ControlInv, BitmapMatchesFree
<1>2. UNCHANGED <<mem, to, yfree, ybitmap, ofree, tobitmap, frombitmap>>
  BY DEF GC_collect_region
<1>3. CASE Refuse
  BY <1>2, <1>3, CopyInvKept DEF Refuse, SameSpaces
<1>4. CASE PromotionFits /\ BeginPromotion(forced)
  <2>1. stage' = "promote" /\ orig' = [w \in Words |-> w]
    BY <1>4 DEF BeginPromotion
  <2>2. /\ FromBase' = YoungBase /\ FromWords' = YoungWords
        /\ FromBitmap' = ybitmap' /\ ToBase' = ToBase
    BY <1>2, <2>1 DEF FromBase, FromWords, FromBitmap, ToBase
  <2>3. /\ FromUsed' = 0 .. (yfree - 1) /\ ToUsed' = ToBase .. (ToBase + ofree - 1)
        /\ yfree \in 0 .. YoungWords /\ YoungWords \in Nat
    BY <1>1, <1>2, <2>2, ConstantsAssumption DEF FromUsed, ToUsed, YoungBase, TypeOK
  <2>4. /\ ToBase \in Nat /\ ToBase > YoungWords /\ ofree \in Nat
        /\ \A w \in ToBase .. (ToBase + ofree - 1) : w \in Words
        /\ \A w \in 0 .. (yfree - 1) : w \in Words
    <3>1. ToBase > YoungWords
      <4>1. to \in {0, 1} /\ YoungWords \in Nat /\ OldWords \in Nat
        BY <1>1, ConstantsAssumption DEF TypeOK
      <4>2. CASE to = 0
        BY <4>1, <4>2 DEF ToBase, OldBase
      <4>3. CASE to = 1
        BY <4>1, <4>3 DEF ToBase, OldBase
      <4> QED
        BY <4>1, <4>2, <4>3
    <3>2. YoungSpace \subseteq Words
      BY SpacesInMemory
    <3>3. \A w \in 0 .. (yfree - 1) : w \in Words
      BY <2>3, <3>2 DEF YoungSpace, YoungBase
    <3>4. /\ ToBase \in Nat /\ ofree \in 0 .. OldWords /\ OldWords \in Nat
          /\ \A w \in ToBase .. (ToBase + OldWords - 1) : w \in Words
      BY <1>1, Bounds
    <3> QED
      BY <3>1, <3>3, <3>4
  <2>5. Injective(ToUsed)' /\ Injective(FromUsed)'
    BY <2>1, <2>3, <2>4 DEF Injective
  <2>6. Pending' \subseteq FromUsed'
    BY DEF Pending
  <2>7. ASSUME NEW w \in ToUsed', NEW f \in FromUsed' PROVE w # f
    BY <2>3, <2>4
  <2>8. ASSUME NEW w \in ToUsed', NEW f \in Pending' PROVE orig'[w] # orig'[f]
    BY <2>1, <2>3, <2>4, <2>6, <2>7
  <2>9. ofree' + Cardinality(Pending') <= OldWords
    <3>1. Cardinality(Pending') \in Nat /\ Cardinality(Pending') <= yfree
      <4>1. 0 + yfree - 1 = yfree - 1 /\ 0 \in Nat /\ yfree \in Nat
        BY <2>3
      <4>2. Pending' \in SUBSET (0 .. (0 + yfree - 1))
        BY <2>3, <2>6, <4>1
      <4> QED
        BY <4>1, <4>2, PartFinite
    <3>2. OldWords - ofree >= yfree /\ yfree \in Nat /\ ofree \in Nat /\ OldWords \in Nat
      BY <1>1, <1>4, ConstantsAssumption DEF PromotionFits, TypeOK
    <3> QED
      BY <1>1, <1>2, <2>2, <3>1, <3>2
  <2> QED
    BY <2>1, <2>5, <2>8, <2>9 DEF CopyInv
<1> QED
  BY <1>3, <1>4 DEF GC_collect_region

(* The tospace of a finished copy is the fromspace of the next one.        *)
LEMMA CopyEndKeeps ==
    ASSUME IInv, CopyInv, IInv', CopyDone,
           EndCollection \/ \E why \in {"force", "watermark"} : BeginMajor(why)
    PROVE  CopyInv'
<1>1. CASE EndCollection
  BY <1>1 DEF EndCollection, CopyInv
<1>2. ASSUME NEW why \in {"force", "watermark"}, BeginMajor(why)
      PROVE  CopyInv'
  <2>1. /\ stage' = why /\ to' = 1 - to /\ ofree' = 0
        /\ frombitmap' = tobitmap /\ orig' = orig
    BY <1>2 DEF BeginMajor
  <2>2. TypeOK' /\ TypeOK /\ stage # "none" /\ tobitmap.used = ofree
    BY DEF IInv, ControlInv, CopyDone, BitmapMatchesFree
  <2>3. to \in {0, 1}
    BY <2>2 DEF TypeOK
  <2>4. /\ FromBase' = ToBase /\ FromBitmap' = tobitmap
        /\ ToBase' = OldBase(1 - to)
    <3>1. 1 - (1 - to) = to
      BY <2>3
    <3> QED
      BY <2>1, <3>1 DEF FromBase, FromBitmap, ToBase, OldBase
  <2>5. FromUsed' = ToUsed /\ ToUsed' = {}
    <3>1. OldBase(1 - to) \in Nat
      BY <2>3, SpacesInMemory
    <3> QED
      BY <2>1, <2>2, <2>4, <3>1 DEF FromUsed, ToUsed
  <2>6. Injective(ToUsed)
    BY <2>2 DEF CopyInv
  <2>7. Injective(ToUsed)' /\ Injective(FromUsed)'
    BY <2>1, <2>5, <2>6 DEF Injective
  <2>8. ofree' + Cardinality(Pending') <= OldWords
    <3>1. Cardinality(Pending') \in Nat /\ Cardinality(Pending') <= ofree
      <4>1. Pending' \in SUBSET (ToBase .. (ToBase + ofree - 1))
        BY <2>5 DEF Pending, ToUsed
      <4>2. ToBase \in Nat /\ ofree \in Nat
        BY <2>2, Bounds
      <4> QED
        BY <4>1, <4>2, PartFinite
    <3>2. ofree \in 0 .. OldWords /\ OldWords \in Nat
      BY <2>2, ConstantsAssumption DEF TypeOK
    <3> QED
      BY <2>1, <2>2, <2>4, <3>1, <3>2
  <2> QED
    BY <2>1, <2>5, <2>7, <2>8 DEF CopyInv
<1> QED
  BY <1>1, <1>2

(* Outside a collection nothing but the stage and the history matters.     *)
LEMMA ProgramKeeps ==
    ASSUME CopyInv, stage = "none", UNCHANGED <<stage, orig>>
    PROVE  CopyInv'
BY DEF CopyInv

LEMMA NextSInv == SInv /\ [Next]_vars => SInv'
<1> SUFFICES ASSUME SInv, [Next]_vars PROVE SInv'
  OBVIOUS
<1>1. IInv /\ CopyInv /\ IInv'
  BY NextIInv DEF SInv
<1>2. CASE Mutator
  <2>1. pc = "run" => stage = "none"
    BY <1>1 DEF IInv, ControlInv
  <2>2. ASSUME NEW forced \in BOOLEAN, NEW back \in {"run", "retry"}, pc = "run",
               GC_collect_region(forced, back)
        PROVE  CopyInv'
    BY <1>1, <2>2, PromotionKeeps
  <2>3. \/ \E forced \in BOOLEAN, back \in {"run", "retry"} :
              pc = "run" /\ GC_collect_region(forced, back)
        \/ pc = "run" /\ UNCHANGED <<stage, orig>>
    <3>1. ASSUME \/ \E r \in Roots, size \in Sizes : MallocCollect(r, size)
                 \/ GC_collect2(FALSE) \/ GC_collect2(TRUE)
          PROVE  \E forced \in BOOLEAN, back \in {"run", "retry"} :
                    pc = "run" /\ GC_collect_region(forced, back)
      BY <3>1 DEF MallocCollect, GC_collect2
    <3>2. ASSUME NEW r \in Roots, NEW r2 \in Roots, NEW k, NEW offset,
                 \/ Clear(r) \/ Forget(r) \/ Derive(r, r2, offset) \/ Load(r, k, r2)
                 \/ Store(r, k) \/ GC_memcpy(r2, r, k)
          PROVE  pc = "run" /\ UNCHANGED <<stage, orig>>
      BY <3>2 DEF Clear, Forget, Derive, Load, Store, GC_STORE_CAP, GC_memcpy, Usable,
                  ctlVars, histVars
    <3>3. ASSUME \/ \E r \in Roots, size \in Sizes : GC_malloc(r, size)
                 \/ GC_minor_free \/ GC_reset
          PROVE  pc = "run" /\ UNCHANGED <<stage, orig>>
      BY <3>3 DEF GC_malloc, GC_minor_free, GC_reset, ctlVars, histVars
    <3> QED
      BY <1>2, <3>1, <3>2, <3>3 DEF Mutator
  <2> QED
    BY <1>1, <2>1, <2>2, <2>3, ProgramKeeps DEF SInv
<1>3. CASE Library
  <2>1. ASSUME MemcpyWord \/ MallocRetry PROVE CopyInv'
    <3>1. stage = "none" /\ UNCHANGED <<stage, orig>>
      BY <1>1, <2>1 DEF IInv, ControlInv, MemcpyWord, MallocRetry, histVars
    <3> QED
      BY <1>1, <3>1, ProgramKeeps
  <2>2. ASSUME PromotionDone \/ MajorDone PROVE CopyInv'
    <3>1. /\ CopyDone
          /\ EndCollection \/ \E why \in {"force", "watermark"} : BeginMajor(why)
      BY <2>2 DEF PromotionDone, MajorDone
    <3> QED
      BY <1>1, <3>1, CopyEndKeeps
  <2>3. ASSUME GC_fatalf PROVE CopyInv'
    <3>1. SameSpaces /\ UNCHANGED <<mem, ofree, orig>>
      BY <2>3 DEF GC_fatalf, SameSpaces, gcVars, histVars
    <3> QED
      BY <1>1, <3>1, CopyInvKept
  <2> QED
    BY <1>1, <1>3, <2>1, <2>2, <2>3, RootsKeep, RemsetKeeps, ChildrenKeep DEF Library, SInv
<1>4. CASE UNCHANGED vars
  <2>1. SameSpaces /\ UNCHANGED <<mem, ofree, orig>>
    BY <1>4 DEF SameSpaces, vars, gcVars, ctlVars, histVars
  <2> QED
    BY <1>1, <2>1, CopyInvKept DEF SInv
<1> QED
  BY <1>2, <1>3, <1>4 DEF Next

LEMMA AlwaysSInv == Spec => []SInv
<1>1. Init => SInv
  BY InitIInv DEF SInv, Init, CopyInv
<1> QED
  BY <1>1, NextSInv, PTL DEF Spec

(* No word is in the tospace twice, so two pointers to one object still    *)
(* point to one object after a collection.                                 *)
THEOREM SharingTheorem == Spec => []SharingPreserved
<1>1. SInv => SharingPreserved
  <2> SUFFICES ASSUME SInv PROVE SharingPreserved
    OBVIOUS
  <2>1. TypeOK
    BY DEF SInv, IInv
  <2>2. ToUsed \subseteq Words
    BY <2>1, Bounds DEF ToUsed
  <2>3. Injective(ToUsed)
    BY <2>2 DEF SInv, CopyInv, Injective
  <2> QED
    BY <2>3 DEF SharingPreserved, ToUsed, Injective
<1> QED
  BY <1>1, AlwaysSInv, PTL

(* The tospace has room for each object that GC_copy_object is asked to    *)
(* copy: its assertion at gc_collect.c:263 holds.                          *)
THEOREM CopyFitsTheorem == Spec => []CopyFits
<1>1. SInv => CopyFits
  <2> SUFFICES ASSUME SInv, ~Skipped(Visited), ~IsForwarded(ObjectCap(Visited))
               PROVE  AlignWords(ObjectCap(Visited).len) <= OldWords - ofree
    BY DEF CopyFits, HasRoom
  <2>1. TypeOK /\ ControlInv /\ CopyInv /\ remset \in Seq(OldSpace(to))
    BY DEF SInv, IInv
  <2>2. Visited # Null
    BY DEF Skipped, InFromspace, GC_IN
  <2>3. stage # "none"
    BY <2>1, <2>2 DEF Visited, ControlInv
  <2>4. Visited \in Cap \cup {Null}
    <3>1. CASE pc = "roots"
      BY <2>1, <3>1 DEF Visited, ControlInv, TypeOK
    <3>2. CASE pc = "remset" /\ index <= Len(remset)
      <4>1. index \in Nat /\ index >= 1 /\ remset \in Seq(Words)
        BY <2>1, <3>2 DEF ControlInv, TypeOK
      <4>2. remset[index] \in Words
        BY <3>2, <4>1
      <4> QED
        BY <2>1, <3>2, <4>2 DEF Visited, TypeOK
    <3>3. CASE pc = "children" /\ oscan < ofree
      <4>1. oscan \in 0 .. ofree
        BY <2>1 DEF TypeOK
      <4>2. /\ ToBase \in Nat /\ ofree \in 0 .. OldWords /\ OldWords \in Nat
            /\ \A w \in ToBase .. (ToBase + OldWords - 1) : w \in Words
        BY <2>1, Bounds
      <4>3. ToBase + oscan \in ToBase .. (ToBase + OldWords - 1)
        BY <3>3, <4>1, <4>2
      <4> QED
        BY <2>1, <3>3, <4>2, <4>3 DEF Visited, TypeOK
    <3> QED
      BY <2>2, <3>1, <3>2, <3>3 DEF Visited
  <2>5. PICK p \in Nat, n \in 1 .. FromWords : Visits(Visited, p, n)
    BY <2>1, <2>4, VisitedObject
  <2>6. IsObject(FromBitmap, p, n) /\ ~Forwarded(p) /\ AlignWords(ObjectCap(Visited).len) = n
    BY <2>5 DEF Visits, IsForwarded, Forwarded
  <2> QED
    BY <2>1, <2>3, <2>6, ObjectFits
<1> QED
  BY <1>1, AlwaysSInv, PTL
=============================================================================
