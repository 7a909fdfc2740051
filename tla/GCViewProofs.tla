---------------------------- MODULE GCViewProofs ----------------------------
(***************************************************************************)
(* GCCollect implements ProgramHeap: the refinement, step by step, for     *)
(* programs that do not hand GC_memcpy an object whose first word they     *)
(* never wrote.                                                            *)
(***************************************************************************)
EXTENDS GCCollectView, GCGraphProofs

-----------------------------------------------------------------------------
(* The invariant.                                                          *)

(* The name that a word will have when the program sees it again.          *)
Name(w) == name[orig[w]]

(* The words of the two spaces that hold what the program may rely on.     *)
Live == ToUsed \cup SrcUsed

(* The words of each object are numbered from 0.                           *)
Numbered(nm, og, bm, b) ==
    \A p \in bm.map, n \in 1 .. bm.used :
        IsObject(bm, p, n) =>
            \A i \in 0 .. (n - 1) : nm[og[b + p + i]] = <<nm[og[b + p]][1], i>>

(* Names of words that are not copies of the same word are different.      *)
NameInv ==
    /\ name \in [Words -> Nat \X Nat] /\ count \in Nat
    /\ \A w \in Live : Name(w)[1] <= count
    /\ \A v, w \in Live : Name(v) = Name(w) => orig[v] = orig[w]
    /\ Numbered(name, orig, tobitmap, ToBase)
    /\ Numbered(name, orig, SrcBitmap, SrcBase)

(* What the program sees of a word that it may rely on and that holds v.   *)
Meant(nm, v) ==
    IF v = Null THEN Null
    ELSE Heap!Pointer(nm[WordOf(v)][1], nm[WordOf(v)][2],
                      v.base % WordBytes, AlignWords(v.len))

(* What it sees of roots that hold rt, and of the words W of a memory m.   *)
RootsShown(nm, kr, rt) ==
    [r \in Roots |-> IF kr[r] THEN Meant(nm, rt[r]) ELSE Unknown]

HeapShown(h, nm, W, kn, m) ==
    /\ h = [f \in {nm[w] : w \in W} |-> h[f]]
    /\ \A w \in W : h[nm[w]] = IF kn[w] THEN Meant(nm, m[w]) ELSE Unknown

Shows ==
    /\ seen.root = RootsShown(name, kroot, root)
    /\ HeapShown(seen.heap, name, Live, known, mem)

(* During a collection: what it saw when that began.                       *)
Showed ==
    /\ seen.root = RootsShown(name, kroot, sroot)
    /\ seen.heap = [f \in DOMAIN seen.heap |-> seen.heap[f]]
    /\ \A w \in Live :
          /\ Name(w) \in DOMAIN seen.heap
          /\ seen.heap[Name(w)] = IF known[w] THEN Meant(name, snap[orig[w]]) ELSE Unknown

(* During a GC_memcpy: everything but the words that are copied to.        *)
Access(r, w, n) ==
    /\ kroot[r] /\ root[r] # Null /\ WordOf(root[r]) = w
    /\ root[r].base % WordBytes = 0 /\ n <= AlignWords(root[r].len)

Target == copying.dest .. (copying.dest + copying.words - 1)

ShowsCopying ==
    /\ seen.root = RootsShown(name, kroot, root)
    /\ seen.heap = [f \in {name[w] : w \in Live} |-> seen.heap[f]]
    /\ \A w \in Live \ Target :
          seen.heap[name[w]] = IF known[w] THEN Meant(name, mem[w]) ELSE Unknown
    /\ copying.words \in 1 .. YoungWords
    /\ \E r \in Roots : Access(r, copying.src, copying.words)
    /\ \E r \in Roots : Access(r, copying.dest, copying.words)
    /\ \A i \in 0 .. (copying.words - 1) :
          mem[copying.dest + i] = IF i < index THEN mem[copying.src + i] ELSE Null

SeenInv ==
    /\ pc \in {"run", "retry"} => Shows
    /\ pc = "memcpy" => ShowsCopying
    /\ stage # "none" => Showed

(* The inductive invariant.                                                *)
VInv == SInv /\ GraphInv /\ NameInv /\ SeenInv

-----------------------------------------------------------------------------
(* Words, names and pointers.                                              *)

LEMMA LiveFacts ==
    ASSUME IInv
    PROVE  /\ Live \subseteq Words /\ ToUsed \subseteq Live /\ SrcUsed \subseteq Live
           /\ Words \subseteq Nat
           /\ \A w \in SrcUsed : w \notin ToUsed
BY SrcBounds DEF IInv, Live

(* Outside a collection.                                                   *)
LEMMA NoneFacts ==
    ASSUME SInv, stage = "none"
    PROVE  /\ SrcBase = YoungBase /\ SrcBitmap = ybitmap /\ SrcBitmap.used = yfree
           /\ AllocatedWords = Live
           /\ \A w \in Words : orig[w] = w /\ Name(w) = name[w]
<1>1. SrcBase = YoungBase /\ SrcBitmap = ybitmap /\ SrcBitmap.used = yfree
  BY DEF SInv, IInv, BitmapMatchesFree, SrcBase, SrcBitmap
<1>2. AllocatedWords = Live
  BY <1>1 DEF AllocatedWords, Live, ToUsed, SrcUsed
<1>3. \A w \in Words : orig[w] = w /\ Name(w) = name[w]
  BY DEF SInv, CopyInv, Name
<1> QED BY <1>1, <1>2, <1>3

(* A pointer that the program may rely on points to a live word.           *)
LEMMA SoundFacts ==
    ASSUME IInv, NEW c, Sound(c), c # Null
    PROVE  /\ c \in Cap /\ WordOf(c) \in Live /\ WordOf(c) \in Words
           /\ AlignWords(c.len) \in Nat \ {0}
           /\ WordOf(c) \in Nat /\ EndOf(c) \in Nat
           /\ WordOf(c) + AlignWords(c.len) <= EndOf(c)
           /\ InSrc(c) => WordOf(c) \in SrcUsed
           /\ InTo(c) => WordOf(c) \in ToUsed
           /\ c.len \in Nat \ {0} /\ c.base \in Nat
<1>1. TypeOK /\ BitmapMatchesFree
  BY DEF IInv
<1>2. /\ InSrc(c) => c \in Cap /\ WordOf(c) \in SrcUsed /\ c.len > 0
      /\ InTo(c) => c \in Cap /\ WordOf(c) \in ToUsed /\ c.len > 0
  BY <1>1, SrcBounds, WithinFacts DEF InSrc, InTo, SrcUsed, ToUsed, Within
<1>3. c \in Cap /\ WordOf(c) \in Live /\ c.len > 0
  BY <1>2 DEF Sound, Live
<1>4. AlignWords(c.len) \in Nat \ {0}
  BY <1>3, CapFacts, AlignFacts
<1> QED BY <1>2, <1>3, <1>4, CapFacts, LiveFacts

(* None of them dangles.                                                   *)
LEMMA SoundValid ==
    ASSUME IInv, stage = "none", NEW c, Sound(c), c # Null
    PROVE  ValidPointer(c)
<1>1. TypeOK /\ BitmapMatchesFree
  BY DEF IInv
<1>2. /\ SrcBase = YoungBase /\ SrcBitmap = ybitmap /\ ybitmap.used <= YoungWords
      /\ YoungWords \in Nat /\ OldWords \in Nat /\ tobitmap.used <= OldWords
  BY <1>1, ConstantsAssumption, SrcBounds DEF SrcBase, SrcBitmap, TypeOK, BitmapMatchesFree
<1>3. CASE InSrc(c)
  BY <1>1, <1>2, <1>3, SrcBounds, WithinPointsInto DEF InSrc, ValidPointer
<1>4. CASE InTo(c)
  BY <1>1, <1>2, <1>4, SrcBounds, WithinPointsInto DEF InTo, ValidPointer
<1> QED BY <1>3, <1>4 DEF Sound

(* The words that a pointer gives access to have consecutive names.        *)
LEMMA WithinNames ==
    ASSUME NEW bm, bm.map \subseteq Nat, bm.used \in Nat, NEW b \in Nat,
           Numbered(name, orig, bm, b), NEW c, Within(c, bm, b),
           NEW k \in Nat, k < EndOf(c) - WordOf(c)
    PROVE  /\ WordOf(c) + k \in b .. (b + bm.used - 1)
           /\ Name(WordOf(c) + k)
                = <<Name(WordOf(c))[1], Name(WordOf(c))[2] + k>>
<1>1. PICK p \in bm.map, n \in 1 .. bm.used :
          IsObject(bm, p, n) /\ b + p <= WordOf(c) /\ EndOf(c) <= b + p + n
  BY DEF Within
<1>2. c \in Cap /\ WordOf(c) \in Nat /\ EndOf(c) \in Nat
  BY CapFacts DEF Within
<1>3. p \in Nat /\ n \in Nat /\ p + n <= bm.used
  BY <1>1 DEF IsObject
<1>4. WordOf(c) - (b + p) \in 0 .. (n - 1) /\ WordOf(c) - (b + p) + k \in 0 .. (n - 1)
  BY <1>1, <1>2, <1>3
<1>5. \A i \in 0 .. (n - 1) : Name(b + p + i) = <<Name(b + p)[1], i>>
  BY <1>1 DEF Numbered, Name
<1> DEFINE j == WordOf(c) - (b + p)
<1>6. b + p + j = WordOf(c) /\ b + p + (j + k) = WordOf(c) + k
  BY <1>2, <1>3
<1>7. Name(WordOf(c)) = <<Name(b + p)[1], j>>
  BY <1>4, <1>5, <1>6
<1>8. Name(WordOf(c) + k) = <<Name(b + p)[1], j + k>>
  BY <1>4, <1>5, <1>6
<1>9. Name(WordOf(c))[1] = Name(b + p)[1] /\ Name(WordOf(c))[2] = j
  BY <1>7
<1>10. WordOf(c) + k \in b .. (b + bm.used - 1)
  BY <1>1, <1>2, <1>3
<1> QED BY <1>8, <1>9, <1>10

LEMMA SoundNames ==
    ASSUME IInv, NameInv, NEW c, Sound(c), c # Null,
           NEW k \in Nat, k < EndOf(c) - WordOf(c)
    PROVE  /\ WordOf(c) + k \in Live
           /\ InSrc(c) => WordOf(c) + k \in SrcUsed
           /\ InTo(c) => WordOf(c) + k \in ToUsed
           /\ Name(WordOf(c) + k) = <<Name(WordOf(c))[1], Name(WordOf(c))[2] + k>>
<1>1. TypeOK /\ BitmapMatchesFree
  BY DEF IInv
<1>2. InSrc(c) => /\ WordOf(c) + k \in SrcUsed
                  /\ Name(WordOf(c) + k) = <<Name(WordOf(c))[1], Name(WordOf(c))[2] + k>>
  BY <1>1, SrcBounds, WithinNames DEF InSrc, SrcUsed, NameInv
<1>3. InTo(c) => /\ WordOf(c) + k \in ToUsed
                 /\ Name(WordOf(c) + k) = <<Name(WordOf(c))[1], Name(WordOf(c))[2] + k>>
  BY <1>1, SrcBounds, WithinNames DEF InTo, ToUsed, NameInv
<1> QED BY <1>2, <1>3 DEF Sound, Live

LEMMA PairParts ==
    ASSUME NEW x \in Nat \X Nat
    PROVE  x[1] \in Nat /\ x[2] \in Nat /\ x = <<x[1], x[2]>>
OBVIOUS

(* What the program sees of a pointer that it may rely on.                 *)
LEMMA MeantPointer ==
    ASSUME NEW nm \in [Words -> Nat \X Nat], NEW c \in Cap, WordOf(c) \in Words
    PROVE  /\ Meant(nm, c) \in Pointers
           /\ Meant(nm, c).obj = nm[WordOf(c)][1]
           /\ Meant(nm, c).off = nm[WordOf(c)][2]
           /\ Meant(nm, c).part = c.base % WordBytes
           /\ Meant(nm, c).len = AlignWords(c.len)
<1>1. c # Null /\ c.base \in Nat /\ c.len \in Nat
  BY NullAssumption DEF Cap
<1>2. nm[WordOf(c)][1] \in Nat /\ nm[WordOf(c)][2] \in Nat
  BY PairParts
<1>3. c.base % WordBytes \in Nat /\ AlignWords(c.len) \in Nat
  BY <1>1, ConstantsAssumption, AlignFacts
<1>4. Meant(nm, c) = Heap!Pointer(nm[WordOf(c)][1], nm[WordOf(c)][2],
                                        c.base % WordBytes, AlignWords(c.len))
  BY <1>1 DEF Meant
<1> DEFINE a == nm[WordOf(c)][1]
           b == nm[WordOf(c)][2]
           part == c.base % WordBytes
           len == AlignWords(c.len)
           p == Meant(nm, c)
<1>5. /\ a \in Nat /\ b \in Nat /\ part \in Nat /\ len \in Nat
      /\ p = Heap!Pointer(a, b, part, len)
  BY <1>2, <1>3, <1>4
<1> HIDE DEF a, b, part, len, p
<1>6. /\ p \in Pointers
      /\ p.obj = a /\ p.off = b /\ p.part = part /\ p.len = len
  BY <1>5 DEF Heap!Pointer, Pointers
<1> QED BY <1>6 DEF a, b, part, len, p

(* Pointers are told from the other values.                                *)
LEMMA Values ==
    /\ \A nm : Meant(nm, Null) = Null
    /\ \A p \in Pointers : p # Null /\ p # Unknown /\ Null # Unknown
BY ViewAssumption DEF Meant

(* The fields of a pointer are those of the words that it gives access to. *)
PointerFields(c) ==
    LET p == Meant(name, c) IN
    /\ p \in Pointers
    /\ p.part = c.base % WordBytes /\ p.len = AlignWords(c.len)
    /\ p.obj = name[WordOf(c)][1] /\ p.off = name[WordOf(c)][2] /\ p.off \in Nat
    /\ \A k \in 0 .. (AlignWords(c.len) - 1) :
          /\ Heap!Field(p, k) = name[WordOf(c) + k]
          /\ WordOf(c) + k \in Live
    /\ \A f \in Heap!Fields(p) : \E w \in Live : f = name[w]
    /\ InSrc(c) => \A f \in Heap!Fields(p) : \E w \in SrcUsed : f = name[w]
    /\ InTo(c) => \A f \in Heap!Fields(p) : \E w \in ToUsed : f = name[w]
    /\ name[WordOf(c)] \in Heap!Fields(p)

LEMMA FieldNames ==
    ASSUME SInv, NameInv, stage = "none", NEW c, Sound(c), c # Null
    PROVE  PointerFields(c)
<1> DEFINE p == Meant(name, c)
<1>1. IInv
  BY DEF SInv
<1>2. /\ c \in Cap /\ WordOf(c) \in Words /\ WordOf(c) \in Nat /\ EndOf(c) \in Nat
      /\ AlignWords(c.len) \in Nat \ {0} /\ WordOf(c) + AlignWords(c.len) <= EndOf(c)
  BY <1>1, SoundFacts
<1>3. name \in [Words -> Nat \X Nat]
  BY DEF NameInv
<1>4. /\ p \in Pointers /\ p.part = c.base % WordBytes /\ p.len = AlignWords(c.len)
      /\ p.obj = name[WordOf(c)][1] /\ p.off = name[WordOf(c)][2]
  BY <1>2, <1>3, MeantPointer
<1>6. p.off \in Nat /\ name[WordOf(c)] = <<p.obj, p.off + 0>>
  <2>1. p.off \in Nat /\ name[WordOf(c)] = <<p.obj, p.off>>
    BY <1>2, <1>3, <1>4, PairParts
  <2>2. p.off + 0 = p.off
    BY <2>1
  <2> QED BY <2>1, <2>2
<1>7. ASSUME NEW k \in 0 .. (AlignWords(c.len) - 1)
      PROVE  /\ Heap!Field(p, k) = name[WordOf(c) + k] /\ WordOf(c) + k \in Live
             /\ InSrc(c) => WordOf(c) + k \in SrcUsed
             /\ InTo(c) => WordOf(c) + k \in ToUsed
  <2>1. k \in Nat /\ k < EndOf(c) - WordOf(c)
    BY <1>2
  <2>2. /\ WordOf(c) + k \in Live
        /\ InSrc(c) => WordOf(c) + k \in SrcUsed
        /\ InTo(c) => WordOf(c) + k \in ToUsed
        /\ Name(WordOf(c) + k) = <<Name(WordOf(c))[1], Name(WordOf(c))[2] + k>>
    BY <1>1, <2>1, SoundNames
  <2>3. WordOf(c) + k \in Words
    BY <1>1, <2>2, LiveFacts
  <2>4. Name(WordOf(c) + k) = name[WordOf(c) + k] /\ Name(WordOf(c)) = name[WordOf(c)]
    BY <1>2, <2>3, NoneFacts
  <2>5. Heap!Field(p, k) = <<p.obj, p.off + k>>
    BY DEF Heap!Field
  <2> QED BY <1>4, <2>2, <2>4, <2>5
<1> HIDE DEF p
<1>8. \A f \in Heap!Fields(p) : \E k \in 0 .. (AlignWords(c.len) - 1) : f = Heap!Field(p, k)
  BY <1>4 DEF Heap!Fields
<1>9. name[WordOf(c)] \in Heap!Fields(p)
  BY <1>2, <1>4, <1>6 DEF Heap!Fields, Heap!Field
<1> QED BY <1>4, <1>6, <1>7, <1>8, <1>9 DEF PointerFields, p

-----------------------------------------------------------------------------
(* What the program sees.                                                  *)

(* A function is known by its domain and its values.                       *)
LEMMA SameFunction ==
    ASSUME NEW g, NEW h, NEW D, g = [f \in D |-> g[f]], h = [f \in D |-> h[f]],
           \A f \in D : g[f] = h[f]
    PROVE  g = h
<1>1. [f \in D |-> g[f]] = [f \in D |-> h[f]]
  OBVIOUS
<1> QED BY <1>1

LEMMA SightShows ==
    ASSUME SInv, GraphInv, NameInv, stage = "none", seen = Sight
    PROVE  Shows
<1>1. IInv /\ TypeOK
  BY DEF SInv, IInv
<1>2. /\ AllocatedWords = Live /\ Live \subseteq Words
      /\ \A w \in Words : orig[w] = w /\ Name(w) = name[w]
  BY <1>1, NoneFacts, LiveFacts
<1>3. ASSUME NEW k \in BOOLEAN, NEW c, k => Sound(c)
      PROVE  Value(k, c) = IF k THEN Meant(name, c) ELSE Unknown
  BY <1>1, <1>3, SoundValid DEF Value, Meant
<1>5. ASSUME NEW r \in Roots
      PROVE  Value(kroot[r], root[r]) = IF kroot[r] THEN Meant(name, root[r]) ELSE Unknown
  <2>1. kroot[r] \in BOOLEAN
    BY <1>1 DEF TypeOK
  <2>2. kroot[r] => Sound(root[r])
    BY DEF GraphInv, RootInv, Good
  <2> QED BY <2>1, <2>2, <1>3
<1>6. ASSUME NEW w \in Live
      PROVE  Value(known[w], mem[w]) = IF known[w] THEN Meant(name, mem[w]) ELSE Unknown
  <2>1. known[w] \in BOOLEAN
    BY <1>1, <1>2 DEF TypeOK
  <2>2. known[w] => Sound(mem[w])
    BY <1>1, KnownSound DEF Live
  <2> QED BY <2>1, <2>2, <1>3
<1>7. seen.root = [r \in Roots |-> Value(kroot[r], root[r])]
  BY DEF Sight
<1>8. seen.heap = [f \in Names |-> Value(known[WordNamed(f)], mem[WordNamed(f)])]
  BY DEF Sight
<1>9. Names = {name[w] : w \in Live}
  BY <1>2 DEF Names
<1>10. seen.root = RootsShown(name, kroot, root)
  BY <1>5, <1>7 DEF RootsShown
<1>11. seen.heap = [f \in {name[w] : w \in Live} |-> seen.heap[f]]
  BY <1>8, <1>9
<1>12. ASSUME NEW w \in Live
       PROVE  seen.heap[name[w]] = IF known[w] THEN Meant(name, mem[w]) ELSE Unknown
  <2>1. name[w] \in Names
    BY <1>9
  <2>2. WordNamed(name[w]) = w
    <3>1. WordNamed(name[w]) \in Live /\ name[WordNamed(name[w])] = name[w]
      BY <1>2 DEF WordNamed
    <3> HIDE DEF WordNamed
    <3>2. Name(WordNamed(name[w])) = Name(w) => orig[WordNamed(name[w])] = orig[w]
      BY <3>1 DEF NameInv
    <3> QED BY <1>2, <3>1, <3>2
  <2>3. seen.heap[name[w]] = Value(known[WordNamed(name[w])], mem[WordNamed(name[w])])
    BY <1>8, <2>1
  <2> QED BY <2>2, <2>3, <1>6
<1> QED BY <1>10, <1>11, <1>12 DEF Shows, HeapShown

-----------------------------------------------------------------------------
(* One step.                                                               *)

(* What a step has to be in ProgramHeap.                                   *)
HeapStep ==
    /\ [Heap!Next]_(Heap!vars)
    /\ stage # "none" => seen' = seen \/ \E S \in SUBSET DOMAIN seen.heap : Heap!Collect(S)

(* When the program sees the heap, it sees what there is.                  *)
LEMMA SeesAgain ==
    ASSUME Observe, SInv', GraphInv', NameInv', pc' \in {"run", "retry"}
    PROVE  Shows' /\ SeenInv'
<1>1. (SInv /\ GraphInv /\ NameInv /\ stage = "none" /\ seen = Sight => Shows)'
  BY SightShows, PTL
<1>2. stage' = "none"
  BY DEF SInv, IInv, ControlInv
<1>3. seen' = Sight'
  BY DEF Observe
<1>4. Shows'
  BY <1>1, <1>2, <1>3
<1> QED BY <1>2, <1>4 DEF SeenInv

(* Names are given by GC_malloc and at the end of a collection only.       *)
LEMMA NamesStay ==
    ASSUME IInv, Observe, yfree' \in Nat, yfree' <= yfree,
           stage = "none" \/ stage' # "none"
    PROVE  UNCHANGED <<name, count>>
BY DEF IInv, TypeOK, Observe, NameObject, KeepNames

LEMMA NamesKept ==
    ASSUME NameInv, UNCHANGED <<gcVars, stage, orig, name, count>>
    PROVE  NameInv' /\ Live' = Live
<1>1. /\ Live' = Live /\ tobitmap' = tobitmap /\ ToBase' = ToBase
      /\ SrcBitmap' = SrcBitmap /\ SrcBase' = SrcBase
  BY DEF gcVars, Live, ToUsed, SrcUsed, SrcBase, SrcBitmap, ToBase
<1>2. \A w : Name(w)' = Name(w)
  BY DEF Name
<1> QED BY <1>1, <1>2 DEF NameInv

(* While the program sees nothing, nothing happens.                        *)
LEMMA HeapStutters ==
    ASSUME seen' = seen, count' = count
    PROVE  HeapStep
BY DEF HeapStep, Heap!vars

(* Two heaps that show the same words are the same.                        *)
LEMMA HeapKept ==
    ASSUME Shows, Shows', name' = name, Live' = Live,
           \A w \in Live : known'[w] = known[w] /\ mem'[w] = mem[w]
    PROVE  seen'.heap = seen.heap
<1> DEFINE D == {name[w] : w \in Live}
<1>1. /\ seen.heap = [f \in D |-> seen.heap[f]] /\ seen'.heap = [f \in D |-> seen'.heap[f]]
      /\ \A w \in Live : seen.heap[name[w]] = seen'.heap[name[w]]
  BY DEF Shows, HeapShown
<1> QED BY <1>1, SameFunction

LEMMA RootsKept ==
    ASSUME Shows, Shows', name' = name, root' = root, kroot' = kroot
    PROVE  seen'.root = seen.root
BY DEF Shows, RootsShown

(* One root gets a new value.                                              *)
LEMMA RootSet ==
    ASSUME Shows, Shows', name' = name, NEW r \in Roots,
           \A x \in Roots : x # r => root'[x] = root[x] /\ kroot'[x] = kroot[x],
           NEW v, v = IF kroot'[r] THEN Meant(name, root'[r]) ELSE Unknown
    PROVE  seen'.root = [seen.root EXCEPT ![r] = v]
BY DEF Shows, RootsShown

(* The program sets a root.                                                *)
LEMMA AssignStep ==
    ASSUME Shows, Shows', UNCHANGED <<name, count>>, Live' = Live,
           UNCHANGED <<known, mem>>, NEW r \in Roots,
           \A x \in Roots : x # r => root'[x] = root[x] /\ kroot'[x] = kroot[x],
           NEW v, v = IF kroot'[r] THEN Meant(name, root'[r]) ELSE Unknown
    PROVE  Heap!Assign(r, v)
<1>1. seen'.heap = seen.heap
  BY HeapKept
<1>2. seen'.root = [seen.root EXCEPT ![r] = v]
  BY RootSet
<1> QED BY <1>1, <1>2 DEF Heap!Assign

LEMMA HeapNext ==
    ASSUME stage = "none", Heap!Next
    PROVE  HeapStep
BY DEF HeapStep

(* A step of the program that leaves the regions alone.                    *)
LEMMA RunStep ==
    ASSUME VInv, SInv', GraphInv', Observe, pc \in {"run", "retry"},
           pc' \in {"run", "retry"}, UNCHANGED <<gcVars, stage, orig>>
    PROVE  /\ IInv /\ TypeOK /\ stage = "none" /\ Shows /\ Shows'
           /\ UNCHANGED <<name, count>> /\ Live' = Live
           /\ NameInv' /\ SeenInv'
<1>1. IInv /\ TypeOK /\ NameInv /\ stage = "none" /\ Shows
  BY DEF VInv, SeenInv, SInv, IInv, ControlInv
<1>2. yfree' = yfree /\ yfree \in Nat
  BY <1>1 DEF gcVars, TypeOK
<1>3. UNCHANGED <<name, count>>
  BY <1>1, <1>2, NamesStay
<1>4. NameInv' /\ Live' = Live
  BY <1>1, <1>3, NamesKept
<1>5. Shows' /\ SeenInv'
  BY <1>4, SeesAgain
<1> QED BY <1>1, <1>3, <1>4, <1>5

(* r = NULL; and the end of the lifetime of a variable.                    *)
LEMMA ClearView ==
    ASSUME VInv, SInv', GraphInv', Observe, NEW r \in Roots, Clear(r) \/ Forget(r)
    PROVE  NameInv' /\ SeenInv' /\ HeapStep
<1>1. pc = "run" /\ pc' = "run" /\ UNCHANGED <<gcVars, stage, orig, mem, known>>
  BY DEF Clear, Forget, Usable, ctlVars, histVars
<1>2. /\ IInv /\ TypeOK /\ stage = "none" /\ Shows /\ Shows'
      /\ UNCHANGED <<name, count>> /\ Live' = Live
      /\ NameInv' /\ SeenInv'
  BY <1>1, RunStep
<1>3. /\ \A x \in Roots : x # r => root'[x] = root[x] /\ kroot'[x] = kroot[x]
      /\ \/ kroot'[r] /\ root'[r] = Null
         \/ ~kroot'[r]
  BY <1>2 DEF Clear, Forget, SetRoot, TypeOK
<1>4. CASE kroot'[r] /\ root'[r] = Null
  <2>1. Heap!Assign(r, Null)
    BY <1>1, <1>2, <1>3, <1>4, AssignStep, Values
  <2> QED BY <1>2, <2>1, HeapNext DEF Heap!Next, Heap!Roots, Roots
<1>5. CASE ~kroot'[r]
  <2>1. Heap!Assign(r, Unknown)
    BY <1>1, <1>2, <1>3, <1>5, AssignStep
  <2> QED BY <1>2, <2>1, HeapNext DEF Heap!Next, Heap!Roots, Roots
<1> QED BY <1>3, <1>4, <1>5

(* What the program sees of a root that it may use.                        *)
LEMMA UsableRoot ==
    ASSUME VInv, pc \in {"run", "memcpy"}, NEW r \in Roots, kroot[r], root[r] # Null
    PROVE  /\ Sound(root[r]) /\ seen.root[r] = Meant(name, root[r])
           /\ PointerFields(root[r])
<1>1. SInv /\ NameInv /\ stage = "none"
  BY DEF VInv, SInv, IInv, ControlInv
<1>2. Sound(root[r])
  BY DEF VInv, GraphInv, RootInv, Good
<1>3. seen.root = RootsShown(name, kroot, root)
  BY DEF VInv, SeenInv, Shows, ShowsCopying
<1>4. seen.root[r] = Meant(name, root[r])
  BY <1>3 DEF RootsShown
<1> QED BY <1>1, <1>2, <1>4, FieldNames

(* Quotients and remainders of an address that is moved up.                *)
LEMMA DivMod ==
    ASSUME NEW a \in Nat, NEW b \in Nat \ {0}
    PROVE  a = b * (a \div b) + (a % b) /\ a \div b \in Nat /\ a % b \in Nat
OBVIOUS

LEMMA DivModShift ==
    ASSUME NEW a \in Nat, NEW d \in Nat, NEW b \in Nat \ {0}
    PROVE  /\ (a + d) \div b = a \div b + ((a % b) + d) \div b
           /\ (a + d) % b = ((a % b) + d) % b
           /\ ((a % b) + d) \div b \in Nat
<1> DEFINE q == a \div b
           m == a % b
           x == a + d
           y == m + d
<1>1. a = b * q + m /\ q \in Nat /\ m \in Nat
  BY DivMod
<1>2. x \in Nat /\ y \in Nat /\ x - b * q = y
  <2> HIDE DEF q, m
  <2> QED BY <1>1
<1> HIDE DEF q, m, x, y
<1>3. y \div b = x \div b - q
  <2>1. x \in Nat /\ q \in Int /\ x - b * q >= 0
    BY <1>1, <1>2
  <2>2. (x - b * q) \div b = (x \div b) - q
    BY <2>1, DivShift
  <2> QED BY <1>2, <2>2
<1>4. x = b * (x \div b) + (x % b) /\ x \div b \in Nat /\ x % b \in Nat
  BY <1>2, DivMod
<1>5. y = b * (y \div b) + (y % b) /\ y \div b \in Nat /\ y % b \in Nat
  BY <1>2, DivMod
<1>6. x \div b = q + y \div b
  BY <1>1, <1>3, <1>4, <1>5
<1>7. b * (x \div b) = b * q + b * (y \div b)
  BY <1>1, <1>5, <1>6
<1> DEFINE bx == b * (x \div b)
           by == b * (y \div b)
           bq == b * q
<1>8. bx \in Nat /\ by \in Nat /\ bq \in Nat
  BY <1>1, <1>4, <1>5
<1>9. bx = bq + by /\ x = bx + (x % b) /\ y = by + (y % b) /\ x - bq = y
  BY <1>2, <1>4, <1>5, <1>7
<1> HIDE DEF bx, by, bq
<1>10. x % b = y % b
  BY <1>2, <1>4, <1>5, <1>8, <1>9
<1> QED BY <1>5, <1>6, <1>10 DEF q, m, x, y

(* r2 = r + offset;                                                        *)
LEMMA DeriveView ==
    ASSUME VInv, SInv', GraphInv', Observe, NEW r \in Roots, NEW r2 \in Roots,
           NEW offset \in Offsets, Derive(r, r2, offset)
    PROVE  NameInv' /\ SeenInv' /\ HeapStep
<1>1. pc = "run" /\ pc' = "run" /\ UNCHANGED <<gcVars, stage, orig, mem, known>>
  BY DEF Derive, Usable, ctlVars, histVars
<1>2. /\ IInv /\ TypeOK /\ stage = "none" /\ Shows /\ Shows'
      /\ UNCHANGED <<name, count>> /\ Live' = Live
      /\ NameInv' /\ SeenInv'
  BY <1>1, RunStep
<1> DEFINE c == root[r]
           d == GC_setbaselen(c, c.base + offset, c.len - offset)
           p == Meant(name, c)
           q == Meant(name, d)
<1>3. offset \in Nat /\ WordBytes \in Nat \ {0}
  BY ConstantsAssumption
<1>4. /\ kroot[r] /\ c # Null /\ Sound(c) /\ seen.root[r] = p /\ PointerFields(c)
      /\ offset < c.len
  BY UsableRoot DEF Derive, Usable
<1>5. /\ \A x \in Roots : x # r2 => root'[x] = root[x] /\ kroot'[x] = kroot[x]
      /\ kroot'[r2] /\ root'[r2] = d
  BY <1>2 DEF Derive, SetRoot, TypeOK
<1>6. Heap!Assign(r2, q)
  BY <1>1, <1>2, <1>5, AssignStep
<1>7. Sound(d) /\ d # Null
  <2>1. Sound(d)
    BY <1>2, <1>3, <1>4, DerivedSound DEF IInv
  <2>2. d \in Cap
    BY <1>2, <1>3, <1>4, SoundFacts DEF GC_setbaselen, Cap
  <2> QED BY <2>1, <2>2, NullAssumption
<1>8. PointerFields(d)
  BY <1>2, <1>7, FieldNames DEF VInv
<1>9. /\ d.base = c.base + offset /\ d.len = c.len - offset
      /\ c.base \in Nat /\ c.len \in Nat /\ d.len \in Nat /\ c \in Cap
  BY <1>2, <1>3, <1>4, SoundFacts DEF GC_setbaselen
<1> DEFINE at == p.part + offset
<1>10. /\ p \in Pointers /\ p.part = c.base % WordBytes /\ p.len = AlignWords(c.len)
       /\ p.obj = name[WordOf(c)][1] /\ p.off = name[WordOf(c)][2] /\ p.off \in Nat
  BY <1>4 DEF PointerFields
<1>11. q = Heap!Pointer(p.obj, p.off + at \div WordBytes, at % WordBytes,
                        Heap!FieldsOf(c.len - offset))
  <2>1. /\ q = Heap!Pointer(name[WordOf(d)][1], name[WordOf(d)][2],
                            d.base % WordBytes, AlignWords(d.len))
    BY <1>7 DEF Meant
  <2>2. AlignWords(d.len) = Heap!FieldsOf(c.len - offset)
    BY <1>9 DEF AlignWords, Heap!FieldsOf
  <2>3. d.base % WordBytes = at % WordBytes
    BY <1>3, <1>9, <1>10, DivModShift
  <2>4. WordOf(d) = WordOf(c) + at \div WordBytes /\ at \div WordBytes \in Nat
    <3>1. /\ (c.base + offset) \div WordBytes
                = c.base \div WordBytes + ((c.base % WordBytes) + offset) \div WordBytes
          /\ ((c.base % WordBytes) + offset) \div WordBytes \in Nat
      BY <1>3, <1>9, DivModShift
    <3>2. at = (c.base % WordBytes) + offset
      BY <1>10
    <3> QED BY <1>9, <3>1, <3>2 DEF WordOf
  <2>5. name[WordOf(d)] = <<p.obj, p.off + at \div WordBytes>>
    <3> DEFINE k == at \div WordBytes
    <3>1. WordOf(d) < EndOf(d) /\ EndOf(d) = EndOf(c)
      <4>1. d \in Cap /\ d.len > 0
        BY <1>2, <1>7, SoundFacts
      <4>2. d.base + d.len = c.base + c.len
        BY <1>3, <1>9
      <4> QED BY <4>1, <4>2, CapFacts DEF EndOf
    <3>2. k \in Nat /\ k < EndOf(c) - WordOf(c)
      BY <1>9, <2>4, <3>1, CapFacts
    <3>3. Name(WordOf(c) + k) = <<Name(WordOf(c))[1], Name(WordOf(c))[2] + k>>
      BY <1>2, <1>4, <3>2, SoundNames DEF VInv
    <3>4. WordOf(c) \in Words /\ WordOf(d) \in Words
      BY <1>2, <1>4, <1>7, SoundFacts
    <3>5. Name(WordOf(c)) = name[WordOf(c)] /\ Name(WordOf(d)) = name[WordOf(d)]
      BY <1>2, <3>4, NoneFacts DEF VInv
    <3> QED BY <1>10, <2>4, <3>3, <3>5
  <2>6. name[WordOf(d)][1] = p.obj /\ name[WordOf(d)][2] = p.off + at \div WordBytes
    BY <2>5
  <2> QED BY <2>1, <2>2, <2>3, <2>6
<1>12. Heap!FieldsOf(c.len) = p.len /\ c.len \in 1 .. (WordBytes * p.len)
  BY <1>3, <1>4, <1>9, <1>10, AlignFacts DEF AlignWords, Heap!FieldsOf
<1>13. Heap!Fields(q) \subseteq DOMAIN seen.heap
  <2>1. DOMAIN seen.heap = {name[w] : w \in Live}
    BY <1>2 DEF Shows, HeapShown
  <2> QED BY <1>8, <2>1 DEF PointerFields
<1>14. Heap!IsPointer(p)
  BY <1>10, Values DEF Heap!IsPointer
<1> HIDE DEF p, q, c, d
<1>15. Heap!Derive(r, r2, offset)
  BY <1>4, <1>6, <1>11, <1>12, <1>13, <1>14 DEF Heap!Derive
<1> QED BY <1>2, <1>15, HeapNext DEF Heap!Next, Heap!Roots, Roots

(* The program's accesses, in fields.                                      *)
LEMMA BoundsAccess ==
    ASSUME VInv, NEW r \in Roots, Usable(r), NEW k \in Nat, InBounds(r, k)
    PROVE  Access(r, WordOf(root[r]), k + 1)
<1>1. IInv /\ pc = "run" /\ kroot[r] /\ root[r] # Null
  BY DEF VInv, SInv, Usable
<1>2. Sound(root[r])
  BY <1>1 DEF VInv, GraphInv, RootInv, Good
<1>3. root[r].len \in Nat
  BY <1>1, <1>2, SoundFacts
<1>4. /\ AlignWords(root[r].len) \in Nat /\ root[r].len <= WordBytes * AlignWords(root[r].len)
      /\ WordBytes \in Nat \ {0}
  BY <1>3, AlignFacts, ConstantsAssumption
<1>5. (k + 1) * WordBytes <= WordBytes * AlignWords(root[r].len)
  BY <1>3, <1>4 DEF InBounds
<1>6. k + 1 <= AlignWords(root[r].len)
  <2>1. ASSUME NEW m \in Nat, NEW b \in Nat \ {0}, (k + 1) * b <= b * m PROVE k + 1 <= m
    BY <2>1
  <2> QED BY <1>4, <1>5, <2>1
<1> QED BY <1>1, <1>6 DEF Access, InBounds

LEMMA AccessFields ==
    ASSUME VInv, pc \in {"run", "memcpy"}, NEW r \in Roots, NEW w, NEW n \in Nat,
           Access(r, w, n)
    PROVE  /\ Heap!PointsTo(seen.root[r], n) /\ seen.root[r].off \in Nat
           /\ \A k \in 0 .. (n - 1) :
                 /\ Heap!Field(seen.root[r], k) = name[w + k]
                 /\ w + k \in Live
<1> DEFINE p == seen.root[r]
<1>1. /\ p = Meant(name, root[r]) /\ Sound(root[r]) /\ root[r] # Null
      /\ PointerFields(root[r])
  BY UsableRoot DEF Access
<1>2. AlignWords(root[r].len) \in Nat
  BY <1>1, SoundFacts DEF VInv, SInv
<1> HIDE DEF p
<1>3. /\ p \in Pointers /\ p.part = 0 /\ n <= p.len /\ p.off \in Nat
      /\ \A k \in 0 .. (n - 1) : Heap!Field(p, k) = name[w + k] /\ w + k \in Live
  BY <1>1, <1>2 DEF PointerFields, Access
<1>4. Heap!PointsTo(p, n)
  BY <1>3, Values DEF Heap!PointsTo, Heap!IsPointer
<1> QED BY <1>3, <1>4 DEF p

(* Outside a collection, different words have different names.             *)
LEMMA NamesDiffer ==
    ASSUME SInv, NameInv, stage = "none", NEW v \in Live, NEW w \in Live, name[v] = name[w]
    PROVE  v = w
BY NoneFacts, LiveFacts DEF NameInv, SInv

(* r2 = r[k];                                                              *)
LEMMA LoadView ==
    ASSUME VInv, SInv', GraphInv', Observe, NEW r \in Roots, NEW r2 \in Roots,
           NEW k \in 0 .. (YoungWords - 1), Load(r, k, r2)
    PROVE  NameInv' /\ SeenInv' /\ HeapStep
<1>1. pc = "run" /\ pc' = "run" /\ UNCHANGED <<gcVars, stage, orig, mem, known>>
  BY DEF Load, Usable, ctlVars, histVars
<1>2. /\ IInv /\ TypeOK /\ stage = "none" /\ Shows /\ Shows'
      /\ UNCHANGED <<name, count>> /\ Live' = Live
      /\ NameInv' /\ SeenInv'
  BY <1>1, RunStep
<1> DEFINE x == WordOf(root[r]) + k
           v == Meant(name, mem[x])
<1>3. k \in Nat /\ k + 1 \in Nat /\ k + 1 \in 1 .. YoungWords
  BY ConstantsAssumption
<1>4. /\ Heap!PointsTo(seen.root[r], k + 1)
      /\ Heap!Field(seen.root[r], k) = name[x] /\ x \in Live
  <2>1. Access(r, WordOf(root[r]), k + 1)
    BY <1>3, BoundsAccess DEF Load
  <2>2. k \in 0 .. ((k + 1) - 1)
    BY <1>3
  <2> QED BY <1>1, <1>3, <2>1, <2>2, AccessFields
<1>5. known[x]
  BY DEF Load
<1>6. seen.heap[name[x]] = v
  BY <1>2, <1>4, <1>5 DEF Shows, HeapShown
<1>7. v # Unknown
  <2>1. Sound(mem[x])
    BY <1>2, <1>4, <1>5, KnownSound DEF VInv, Live
  <2>2. CASE mem[x] = Null
    BY <2>2, Values, ViewAssumption
  <2>3. CASE mem[x] # Null
    BY <1>2, <2>1, <2>3, FieldNames, Values DEF VInv, PointerFields
  <2> QED BY <2>2, <2>3
<1>8. /\ \A y \in Roots : y # r2 => root'[y] = root[y] /\ kroot'[y] = kroot[y]
      /\ kroot'[r2] /\ root'[r2] = mem[x]
  BY <1>2 DEF Load, SetRoot, TypeOK
<1>9. Heap!Assign(r2, v)
  BY <1>1, <1>2, <1>8, AssignStep
<1> HIDE DEF x, v
<1>10. Heap!Load(r, k, r2)
  BY <1>4, <1>6, <1>7, <1>9 DEF Heap!Load
<1>11. \E n \in 1 .. YoungWords : Heap!Load(r, n - 1, r2)
  <2>1. (k + 1) - 1 = k
    BY <1>3
  <2> QED BY <1>3, <1>10, <2>1
<1> QED BY <1>2, <1>11, HeapNext DEF Heap!Next, Heap!Roots, Roots

(* GC_STORE_CAP.                                                           *)
LEMMA StoreView ==
    ASSUME VInv, SInv', GraphInv', Observe, NEW r \in Roots,
           NEW k \in 0 .. (YoungWords - 1), Store(r, k)
    PROVE  NameInv' /\ SeenInv' /\ HeapStep
<1> DEFINE x == WordOf(root[r]) + k
<1>0. PICK c : /\ GC_STORE_CAP(r, k, c)
               /\ c = Null \/ \E y \in Roots : kroot[y] /\ c = root[y]
  BY DEF Store
<1>1. /\ pc = "run" /\ pc' = "run" /\ UNCHANGED <<gcVars, stage, orig, root, kroot>>
      /\ Usable(r) /\ InBounds(r, k)
      /\ mem' = [mem EXCEPT ![x] = c] /\ known' = [known EXCEPT ![x] = TRUE]
  BY <1>0 DEF GC_STORE_CAP, Usable, ctlVars, histVars
<1>2. /\ IInv /\ TypeOK /\ stage = "none" /\ Shows /\ Shows'
      /\ UNCHANGED <<name, count>> /\ Live' = Live
      /\ NameInv' /\ SeenInv'
  BY <1>1, RunStep
<1> DEFINE v == Meant(name, c)
<1>3. k \in Nat /\ k + 1 \in Nat /\ k + 1 \in 1 .. YoungWords
  BY ConstantsAssumption
<1>4. /\ Heap!PointsTo(seen.root[r], k + 1)
      /\ Heap!Field(seen.root[r], k) = name[x] /\ x \in Live
  <2>1. Access(r, WordOf(root[r]), k + 1)
    BY <1>1, <1>3, BoundsAccess
  <2>2. k \in 0 .. ((k + 1) - 1)
    BY <1>3
  <2> QED BY <1>1, <1>3, <2>1, <2>2, AccessFields
<1>5. /\ v # Unknown
      /\ v = Null \/ \E y \in Roots : v = seen.root[y]
  <2>1. CASE c = Null
    BY <2>1, Values, ViewAssumption
  <2>2. CASE c # Null
    <3>1. PICK y \in Roots : kroot[y] /\ c = root[y]
      BY <1>0, <2>2
    <3>2. seen.root[y] = v /\ PointerFields(c)
      BY <1>1, <2>2, <3>1, UsableRoot
    <3> QED BY <3>2, Values DEF PointerFields
  <2> QED BY <2>1, <2>2
<1>6. Live \subseteq Words /\ mem \in [Words -> Cap \cup {Null}] /\ known \in [Words -> BOOLEAN]
  BY <1>2, LiveFacts DEF TypeOK
<1> HIDE DEF x, v
<1>7. seen'.heap = [seen.heap EXCEPT ![name[x]] = v]
  <2> DEFINE D == {name[w] : w \in Live}
             g == [seen.heap EXCEPT ![name[x]] = v]
  <2>1. /\ seen.heap = [f \in D |-> seen.heap[f]]
        /\ seen'.heap = [f \in D |-> seen'.heap[f]]
    BY <1>2 DEF Shows, HeapShown
  <2>2. g = [f \in D |-> g[f]] /\ \A f \in D : g[f] = IF f = name[x] THEN v ELSE seen.heap[f]
    <3> HIDE DEF D
    <3> QED BY <2>1
  <2>3. ASSUME NEW w \in Live PROVE seen'.heap[name[w]] = g[name[w]]
    <3>1. seen'.heap[name[w]] = IF known'[w] THEN Meant(name, mem'[w]) ELSE Unknown
      BY <1>2 DEF Shows, HeapShown
    <3>2. CASE w = x
      BY <1>1, <1>6, <2>2, <3>1, <3>2 DEF v
    <3>3. CASE w # x
      <4>1. name[w] # name[x]
        BY <1>2, <1>4, <3>3, NamesDiffer DEF VInv
      <4>2. seen.heap[name[w]] = IF known[w] THEN Meant(name, mem[w]) ELSE Unknown
        BY <1>2 DEF Shows, HeapShown
      <4> QED BY <1>1, <1>6, <2>2, <3>1, <3>3, <4>1, <4>2
    <3> QED BY <3>2, <3>3
  <2> QED BY <2>1, <2>2, <2>3, SameFunction
<1>8. seen'.root = seen.root
  BY <1>1, <1>2, RootsKept
<1>9. Heap!Store(r, k, v)
  BY <1>2, <1>4, <1>5, <1>7, <1>8 DEF Heap!Store
<1>10. \E n \in 1 .. YoungWords : \/ Heap!Store(r, n - 1, Null)
                                  \/ \E y \in Roots : Heap!Store(r, n - 1, seen.root[y])
  <2>1. (k + 1) - 1 = k
    BY <1>3
  <2> QED BY <1>3, <1>5, <1>9, <2>1
<1> QED BY <1>2, <1>10, HeapNext DEF Heap!Next, Heap!Roots, Roots

(* The beginning of GC_memcpy: the program has not seen the heap since.    *)
LEMMA MemcpyBeginView ==
    ASSUME VInv, SInv', GraphInv', Observe, NEW r \in Roots, NEW r2 \in Roots,
           NEW n \in 1 .. YoungWords, GC_memcpy(r2, r, n)
    PROVE  NameInv' /\ SeenInv' /\ HeapStep
<1> DEFINE s == WordOf(root[r])
           d == WordOf(root[r2])
<1>1. /\ pc = "run" /\ pc' = "memcpy" /\ UNCHANGED <<gcVars, stage, orig, root, kroot>>
      /\ Usable(r) /\ InBounds(r, n - 1) /\ Usable(r2) /\ InBounds(r2, n - 1)
      /\ mem' = [w \in Words |-> IF w \in d .. (d + n - 1) THEN Null ELSE mem[w]]
      /\ known' = CopyWords(known, s, d, n)
      /\ copying' = [src |-> s, dest |-> d, words |-> n] /\ index' = 0
  BY DEF GC_memcpy, Usable, histVars
<1>2. IInv /\ TypeOK /\ NameInv /\ stage = "none" /\ stage' = "none" /\ Shows
  BY <1>1 DEF VInv, SeenInv, SInv, IInv, ControlInv
<1>3. UNCHANGED <<name, count>>
  BY <1>1, <1>2, NamesStay DEF gcVars, TypeOK
<1>4. NameInv' /\ Live' = Live
  BY <1>1, <1>2, <1>3, NamesKept
<1>5. seen' = seen
  BY <1>1 DEF Observe
<1>6. n - 1 \in Nat /\ (n - 1) + 1 = n /\ n \in Nat
  BY ConstantsAssumption
<1>7. Access(r, s, n) /\ Access(r2, d, n)
  BY <1>1, <1>6, BoundsAccess
<1>9. \A k \in 0 .. (n - 1) : d + k \in Live
  BY <1>1, <1>6, <1>7, AccessFields
<1>10. d \in Nat
  <2>1. 0 \in 0 .. (n - 1)
    BY <1>6
  <2>2. Sound(root[r2]) /\ root[r2] # Null
    BY <1>1, UsableRoot DEF Usable
  <2> QED BY <1>2, <2>2, SoundFacts
<1> HIDE DEF s, d
<1>11. copying'.src = s /\ copying'.dest = d /\ copying'.words = n
  BY <1>1
<1>12. Target' = d .. (d + n - 1)
  BY <1>11 DEF Target
<1>13. Live \subseteq Words
  BY <1>2, LiveFacts
<1>14. \A w \in Live \ Target' : mem'[w] = mem[w] /\ known'[w] = known[w]
  BY <1>1, <1>12, <1>13 DEF CopyWords
<1>15. ASSUME NEW i \in 0 .. (n - 1) PROVE mem'[d + i] = Null
  BY <1>1, <1>6, <1>9, <1>10, <1>13
<1>16. seen'.root = RootsShown(name', kroot', root')
  BY <1>1, <1>2, <1>3, <1>5 DEF Shows
<1>17. seen'.heap = [f \in {name'[w] : w \in Live'} |-> seen'.heap[f]]
  BY <1>2, <1>3, <1>4, <1>5 DEF Shows, HeapShown
<1>18. \A w \in Live' \ Target' :
          seen'.heap[name'[w]] = IF known'[w] THEN Meant(name', mem'[w]) ELSE Unknown
  BY <1>2, <1>3, <1>4, <1>5, <1>14 DEF Shows, HeapShown
<1>19. /\ \E x \in Roots : Access(x, copying.src, copying.words)'
       /\ \E x \in Roots : Access(x, copying.dest, copying.words)'
  BY <1>1, <1>7, <1>11 DEF Access
<1>20. \A i \in 0 .. (copying'.words - 1) :
          mem'[copying'.dest + i] = IF i < index' THEN mem'[copying'.src + i] ELSE Null
  BY <1>1, <1>6, <1>11, <1>15
<1>21. ShowsCopying'
  BY <1>11, <1>16, <1>17, <1>18, <1>19, <1>20 DEF ShowsCopying
<1>22. SeenInv'
  BY <1>1, <1>2, <1>21 DEF SeenInv
<1> QED BY <1>3, <1>4, <1>5, <1>22, HeapStutters

(* An iteration of GC_memcpy makes one more word of the destination what   *)
(* that of the source is.                                                  *)
LEMMA MemcpyWordFacts ==
    ASSUME VInv, MemcpyWord
    PROVE  /\ \A w \in Live : w \notin Target => mem'[w] = mem[w]
           /\ \A i \in 0 .. (copying.words - 1) :
                 /\ mem'[copying.dest + i]
                      = IF i < index + 1 THEN mem[copying.src + i] ELSE Null
                 /\ mem'[copying.src + i] = mem[copying.src + i]
                 /\ copying.src + i \in Live /\ copying.src + i \notin Target
                 /\ copying.dest + i \in Live
                 /\ known[copying.dest + i] = known[copying.src + i]
           /\ index \in 0 .. (copying.words - 1)
           /\ copying.src \in Nat /\ copying.dest \in Nat /\ copying.words \in Nat
<1> DEFINE s == copying.src
           d == copying.dest
           n == copying.words
           x == d + index
<1>1. pc = "memcpy"
  BY DEF MemcpyWord
<1>2. IInv /\ TypeOK /\ ShowsCopying /\ MemcpyInv
  BY <1>1 DEF VInv, SInv, IInv, SeenInv, GraphInv
<1>3. s \in Nat /\ d \in Nat /\ n \in Nat /\ index \in Nat /\ index < n
  BY <1>1, <1>2, LiveFacts DEF TypeOK, IInv, ControlInv
<1>4. /\ \A i \in 0 .. (n - 1) : s + i \in Live /\ d + i \in Live
  BY <1>1, <1>2, <1>3, AccessFields DEF ShowsCopying
<1>5. Live \subseteq Words /\ mem \in [Words -> Cap \cup {Null}]
  BY <1>2, LiveFacts DEF TypeOK
<1>6. /\ \A i, j \in 0 .. (n - 1) : s + i # d + j
      /\ \A i \in 0 .. (n - 1) : known[d + i] = known[s + i]
      /\ \A i \in 0 .. (n - 1) : mem[d + i] = IF i < index THEN mem[s + i] ELSE Null
  BY <1>1, <1>2 DEF MemcpyInv, ShowsCopying
<1>7. x \in Words /\ index \in 0 .. (n - 1)
  BY <1>3, <1>4, <1>5
<1>8. /\ mem[x] = Null
      /\ \/ mem' = [mem EXCEPT ![x] = mem[s + index]]
         \/ mem[s + index] = Null /\ mem' = mem
  <2>1. mem[x] = Null
    BY <1>3, <1>6, <1>7
  <2> QED BY <2>1 DEF MemcpyWord
<1>9. \A w \in Words : mem'[w] = IF w = x THEN mem[s + index] ELSE mem[w]
  BY <1>5, <1>7, <1>8
<1> HIDE DEF s, d, n, x
<1>10. ASSUME NEW i \in 0 .. (n - 1)
       PROVE  mem'[d + i] = IF i < index + 1 THEN mem[s + i] ELSE Null
  <2>1. d + i \in Words /\ (d + i = x <=> i = index)
    BY <1>3, <1>4, <1>5 DEF x
  <2>2. CASE i = index
    BY <1>3, <1>9, <2>1, <2>2
  <2>3. CASE i # index
    <3>1. mem'[d + i] = mem[d + i] /\ (i < index + 1 <=> i < index)
      BY <1>3, <1>9, <2>1, <2>3
    <3> QED BY <1>6, <3>1
  <2> QED BY <2>2, <2>3
<1>11. ASSUME NEW i \in 0 .. (n - 1) PROVE mem'[s + i] = mem[s + i]
  <2>1. s + i # x /\ s + i \in Words
    BY <1>4, <1>5, <1>6, <1>7 DEF x
  <2> QED BY <1>9, <2>1
<1>12. Target = d .. (d + n - 1)
  BY DEF Target, d, n
<1>13. \A w \in Live : w \notin Target => mem'[w] = mem[w]
  BY <1>3, <1>5, <1>9, <1>12 DEF x
<1>14. ASSUME NEW i \in 0 .. (n - 1), s + i \in Target PROVE FALSE
  <2>1. (s + i) - d \in 0 .. (n - 1) /\ d + ((s + i) - d) = s + i
    BY <1>3, <1>12, <1>14
  <2> QED BY <1>6, <2>1
<1> QED BY <1>3, <1>4, <1>6, <1>7, <1>10, <1>11, <1>13, <1>14 DEF s, d, n

(* An iteration of GC_memcpy.  With the last one the program sees that all *)
(* the fields were copied.                                                 *)
LEMMA MemcpyMoreView ==
    ASSUME VInv, SInv', GraphInv', Observe, MemcpyWord, pc' = "memcpy"
    PROVE  NameInv' /\ SeenInv' /\ HeapStep
<1>1. /\ pc = "memcpy" /\ UNCHANGED <<gcVars, stage, orig, root, kroot, known, copying>>
      /\ index' = index + 1
  BY DEF MemcpyWord, histVars
<1>2. IInv /\ TypeOK /\ NameInv /\ stage = "none" /\ stage' = "none" /\ ShowsCopying
  BY <1>1 DEF VInv, SeenInv, SInv, IInv, ControlInv
<1>3. UNCHANGED <<name, count>>
  BY <1>1, <1>2, NamesStay DEF gcVars, TypeOK
<1>4. NameInv' /\ Live' = Live
  BY <1>1, <1>2, <1>3, NamesKept
<1>5. seen' = seen
  BY DEF Observe
<1>6. /\ \A w \in Live : w \notin Target => mem'[w] = mem[w]
      /\ \A i \in 0 .. (copying.words - 1) :
            /\ mem'[copying.dest + i] = IF i < index + 1 THEN mem[copying.src + i] ELSE Null
            /\ mem'[copying.src + i] = mem[copying.src + i]
  BY MemcpyWordFacts
<1>7. Target' = Target
  BY <1>1 DEF Target
<1>8. seen'.root = RootsShown(name', kroot', root')
  BY <1>1, <1>2, <1>3, <1>5 DEF ShowsCopying
<1>9. seen'.heap = [f \in {name'[w] : w \in Live'} |-> seen'.heap[f]]
  BY <1>2, <1>3, <1>4, <1>5 DEF ShowsCopying
<1>10. \A w \in Live' \ Target' :
          seen'.heap[name'[w]] = IF known'[w] THEN Meant(name', mem'[w]) ELSE Unknown
  BY <1>1, <1>2, <1>3, <1>4, <1>5, <1>6, <1>7 DEF ShowsCopying
<1>11. /\ copying'.words \in 1 .. YoungWords
       /\ \E x \in Roots : Access(x, copying.src, copying.words)'
       /\ \E x \in Roots : Access(x, copying.dest, copying.words)'
  BY <1>1, <1>2 DEF ShowsCopying, Access
<1>12. \A i \in 0 .. (copying'.words - 1) :
          mem'[copying'.dest + i] = IF i < index' THEN mem'[copying'.src + i] ELSE Null
  BY <1>1, <1>6
<1>13. ShowsCopying'
  BY <1>8, <1>9, <1>10, <1>11, <1>12 DEF ShowsCopying
<1>14. SeenInv'
  BY <1>2, <1>13 DEF SeenInv
<1> QED BY <1>3, <1>4, <1>5, <1>14, HeapStutters

LEMMA MemcpyLastView ==
    ASSUME VInv, SInv', GraphInv', Observe, MemcpyWord, pc' # "memcpy"
    PROVE  NameInv' /\ SeenInv' /\ HeapStep
<1>1. /\ pc = "memcpy" /\ UNCHANGED <<gcVars, stage, orig, root, kroot, known>>
      /\ index + 1 >= copying.words /\ pc' = "run"
  BY DEF MemcpyWord, histVars
<1>2. IInv /\ TypeOK /\ NameInv /\ SInv /\ stage = "none" /\ stage' = "none" /\ ShowsCopying
  BY <1>1 DEF VInv, SeenInv, SInv, IInv, ControlInv
<1>3. UNCHANGED <<name, count>>
  BY <1>1, <1>2, NamesStay DEF gcVars, TypeOK
<1>4. NameInv' /\ Live' = Live
  BY <1>1, <1>2, <1>3, NamesKept
<1>5. Shows' /\ SeenInv'
  BY <1>1, <1>4, SeesAgain
<1> DEFINE s == copying.src
           d == copying.dest
           n == copying.words
<1>6. /\ \A w \in Live : w \notin Target => mem'[w] = mem[w]
      /\ \A i \in 0 .. (n - 1) :
            /\ mem'[d + i] = IF i < index + 1 THEN mem[s + i] ELSE Null
            /\ s + i \in Live /\ s + i \notin Target /\ d + i \in Live
            /\ known[d + i] = known[s + i]
      /\ index \in 0 .. (n - 1) /\ s \in Nat /\ d \in Nat /\ n \in Nat
  BY MemcpyWordFacts
<1>7. PICK r \in Roots : Access(r, s, n)
  BY <1>2 DEF ShowsCopying
<1>8. PICK r2 \in Roots : Access(r2, d, n)
  BY <1>2 DEF ShowsCopying
<1> DEFINE p == seen.root[r]
           q == seen.root[r2]
<1>9. /\ Heap!PointsTo(p, n) /\ p.off \in Nat
      /\ \A k \in 0 .. (n - 1) : Heap!Field(p, k) = name[s + k]
  BY <1>1, <1>6, <1>7, AccessFields
<1>10. /\ Heap!PointsTo(q, n) /\ q.off \in Nat
       /\ \A k \in 0 .. (n - 1) : Heap!Field(q, k) = name[d + k]
  BY <1>1, <1>6, <1>8, AccessFields
<1>11. n \in 1 .. YoungWords /\ Target = d .. (d + n - 1)
  BY <1>2 DEF ShowsCopying, Target
<1>12. seen'.root = seen.root
  BY <1>1, <1>2, <1>3, <1>5 DEF Shows, ShowsCopying
<1> HIDE DEF s, d, n, p, q
<1> DEFINE D == {name[w] : w \in Live}
           g == [f \in D |-> IF \E k \in 0 .. (n - 1) : f = Heap!Field(q, k)
                             THEN seen.heap[Heap!Field(p, f[2] - q.off)] ELSE seen.heap[f]]
<1>13. seen.heap = [f \in D |-> seen.heap[f]] /\ seen'.heap = [f \in D |-> seen'.heap[f]]
  BY <1>2, <1>3, <1>4, <1>5 DEF Shows, HeapShown, ShowsCopying
<1>14. DOMAIN seen.heap = D
  BY <1>13
<1>15. ASSUME NEW w \in Live PROVE seen'.heap[name[w]] = g[name[w]]
  <2>1. seen'.heap[name[w]] = IF known[w] THEN Meant(name, mem'[w]) ELSE Unknown
    BY <1>1, <1>3, <1>4, <1>5 DEF Shows, HeapShown
  <2>2. CASE w \in Target
    <3> DEFINE k == w - d
    <3>1. k \in 0 .. (n - 1) /\ d + k = w
      BY <1>6, <1>11, <2>2
    <3>2. name[w] = Heap!Field(q, k)
      BY <1>10, <3>1
    <3>3. name[w][2] - q.off = k
      <4>1. Heap!Field(q, k) = <<q.obj, q.off + k>>
        BY DEF Heap!Field
      <4>2. name[w][2] = q.off + k
        BY <3>2, <4>1
      <4> QED BY <1>10, <3>1, <4>2
    <3>4. g[name[w]] = seen.heap[name[s + k]]
      <4>1. g[name[w]] = seen.heap[Heap!Field(p, name[w][2] - q.off)]
        BY <3>1, <3>2
      <4> QED BY <1>9, <3>1, <3>3, <4>1
    <3>5. seen.heap[name[s + k]] = IF known[s + k] THEN Meant(name, mem[s + k]) ELSE Unknown
      BY <1>2, <1>6, <3>1 DEF ShowsCopying
    <3>6. mem'[w] = mem[s + k] /\ known[w] = known[s + k]
      <4>1. k < index + 1
        BY <1>1, <1>6, <3>1 DEF n
      <4> QED BY <1>6, <3>1, <4>1
    <3> QED BY <2>1, <3>4, <3>5, <3>6
  <2>3. CASE w \notin Target
    <3>1. ASSUME NEW k \in 0 .. (n - 1), name[w] = Heap!Field(q, k) PROVE FALSE
      <4>1. name[w] = name[d + k]
        BY <1>10, <3>1
      <4>2. d + k \in Live /\ d + k \in Target
        BY <1>6, <1>11
      <4> QED BY <1>2, <2>3, <4>1, <4>2, NamesDiffer
    <3>2. g[name[w]] = seen.heap[name[w]]
      BY <3>1
    <3>3. seen.heap[name[w]] = IF known[w] THEN Meant(name, mem[w]) ELSE Unknown
      BY <1>2, <2>3 DEF ShowsCopying
    <3> QED BY <1>6, <2>1, <2>3, <3>2, <3>3
  <2> QED BY <2>2, <2>3
<1>16. seen'.heap = g
  <2>1. g = [f \in D |-> g[f]] /\ \A f \in D : seen'.heap[f] = g[f]
    BY <1>15
  <2> HIDE DEF g, D
  <2> QED BY <1>13, <2>1, SameFunction
<1>17. Heap!Copy(r2, r, n)
  BY <1>3, <1>9, <1>10, <1>12, <1>14, <1>16 DEF Heap!Copy, p, q
<1> QED BY <1>2, <1>4, <1>5, <1>11, <1>17, HeapNext DEF Heap!Next, Heap!Roots, Roots

-----------------------------------------------------------------------------
(* GC_malloc.                                                              *)

(* GC_bitmap_allocate adds one object.                                     *)
LEMMA ObjectsBack ==
    ASSUME NEW bm, bm.map \subseteq Nat, bm.used \in Nat, BitBelow(bm),
           NEW n \in Nat \ {0}, NEW p, NEW k, IsObject(GC_bitmap_allocate(bm, n), p, k)
    PROVE  IsObject(bm, p, k) \/ (p = bm.used /\ k = n)
<1> DEFINE new == GC_bitmap_allocate(bm, n)
<1>1. new.map = bm.map \cup {bm.used} /\ new.used = bm.used + n
  BY DEF GC_bitmap_allocate
<1> HIDE DEF new
<1>2. /\ p \in new.map /\ k \in Nat \ {0} /\ p + k <= new.used
      /\ p + k # new.used => p + k \in new.map
      /\ \A q \in new.map : ~(p < q /\ q < p + k)
  BY DEF IsObject, new
<1>3. CASE p = bm.used
  <2>1. p + k \notin new.map
    BY <1>1, <1>2, <1>3 DEF BitBelow
  <2> QED BY <1>1, <1>2, <1>3, <2>1
<1>4. CASE p # bm.used
  <2>1. p \in bm.map /\ p \in Nat /\ p < bm.used
    BY <1>1, <1>2, <1>4 DEF BitBelow
  <2>2. p + k <= bm.used
    BY <1>1, <1>2, <2>1
  <2>3. p + k # bm.used => p + k \in bm.map
    BY <1>1, <1>2, <2>1, <2>2
  <2> QED BY <1>1, <1>2, <2>1, <2>2, <2>3 DEF IsObject
<1> QED BY <1>3, <1>4

(* The objects stay numbered as long as the names of their words do not    *)
(* change, and with a new one that is numbered.                            *)
LEMMA NumberedKept ==
    ASSUME NEW bm, bm.map \subseteq Nat, bm.used \in Nat, NEW b \in Nat,
           NEW nm, NEW og, NEW nm2, NEW og2, Numbered(nm, og, bm, b),
           \A w \in b .. (b + bm.used - 1) : nm2[og2[w]] = nm[og[w]]
    PROVE  Numbered(nm2, og2, bm, b)
<1>1. ASSUME NEW p \in bm.map, NEW k \in 1 .. bm.used, IsObject(bm, p, k),
             NEW i \in 0 .. (k - 1)
      PROVE  nm2[og2[b + p + i]] = <<nm2[og2[b + p]][1], i>>
  <2>1. p \in Nat /\ p + k <= bm.used
    BY <1>1 DEF IsObject
  <2>2. b + p + i \in b .. (b + bm.used - 1) /\ b + p \in b .. (b + bm.used - 1)
    BY <2>1
  <2>3. nm[og[b + p + i]] = <<nm[og[b + p]][1], i>>
    BY <1>1 DEF Numbered
  <2> QED BY <2>2, <2>3
<1> QED BY <1>1 DEF Numbered

LEMMA NumberedGrows ==
    ASSUME NEW bm, bm.map \subseteq Nat, bm.used \in Nat, BitBelow(bm),
           NEW n \in Nat \ {0}, NEW b \in Nat,
           NEW nm, NEW og, NEW nm2, NEW og2, Numbered(nm, og, bm, b),
           \A w \in b .. (b + bm.used - 1) : nm2[og2[w]] = nm[og[w]],
           \A i \in 0 .. (n - 1) :
              nm2[og2[b + bm.used + i]] = <<nm2[og2[b + bm.used]][1], i>>
    PROVE  Numbered(nm2, og2, GC_bitmap_allocate(bm, n), b)
<1> DEFINE new == GC_bitmap_allocate(bm, n)
<1>1. Numbered(nm2, og2, bm, b)
  BY NumberedKept
<1>2. ASSUME NEW p \in new.map, NEW k \in 1 .. new.used, IsObject(new, p, k),
             NEW i \in 0 .. (k - 1)
      PROVE  nm2[og2[b + p + i]] = <<nm2[og2[b + p]][1], i>>
  <2>1. CASE p = bm.used /\ k = n
    BY <2>1
  <2>2. CASE IsObject(bm, p, k)
    <3>1. p \in bm.map /\ p \in Nat /\ k \in 1 .. bm.used
      BY <2>2 DEF IsObject
    <3> QED BY <1>1, <2>2, <3>1 DEF Numbered
  <2> QED BY <1>2, <2>1, <2>2, ObjectsBack
<1> HIDE DEF new
<1>3. Numbered(nm2, og2, new, b)
  BY <1>2 DEF Numbered
<1> QED BY <1>3 DEF new

(* The words that GC_malloc takes, and their names.                        *)
Taken(n) == (YoungBase + yfree) .. (YoungBase + yfree + n - 1)

LEMMA AllocateNames ==
    ASSUME VInv, SInv', Observe, stage = "none", UNCHANGED <<stage, orig>>,
           NEW n \in Nat \ {0}, yfree' = yfree + n,
           ybitmap' = GC_bitmap_allocate(ybitmap, n),
           UNCHANGED <<to, ofree, tobitmap>>
    PROVE  /\ NameInv' /\ count' = count + 1
           /\ Live' = Live \cup Taken(n) /\ \A w \in Live : w \notin Taken(n)
           /\ \A w \in Live : name'[w] = name[w]
           /\ \A i \in 0 .. (n - 1) : /\ YoungBase + yfree + i \in Taken(n)
                                      /\ name'[YoungBase + yfree + i] = <<count + 1, i>>
           /\ Taken(n) \subseteq Words
<1>1. IInv /\ TypeOK /\ NameInv /\ SInv /\ RegionInv /\ BitmapMatchesFree
  BY DEF VInv, SInv, IInv, GraphInv
<1>2. IInv' /\ TypeOK'
  BY DEF SInv, IInv
<1>3. yfree \in Nat /\ yfree' \in 0 .. YoungWords /\ count \in Nat
  BY <1>1, <1>2 DEF TypeOK, NameInv
<1>4. /\ count' = count + 1
      /\ name' = [w \in Words |-> IF w \in Taken(n)
                                  THEN <<count + 1, w - (YoungBase + yfree)>> ELSE name[w]]
  <2>1. NameObject
    BY <1>3 DEF Observe, KeepNames
  <2>2. YoungBase + yfree' - 1 = YoungBase + yfree + n - 1
    BY <1>3 DEF YoungBase
  <2> QED BY <2>1, <2>2 DEF NameObject, Taken
<1>5. /\ SrcBase = YoungBase /\ SrcBitmap = ybitmap /\ ybitmap.used = yfree
      /\ AllocatedWords = Live
      /\ \A w \in Words : orig[w] = w /\ Name(w) = name[w]
  BY <1>1, NoneFacts
<1>6. /\ SrcBase' = YoungBase /\ SrcBitmap' = ybitmap' /\ ybitmap'.used = yfree'
      /\ \A w \in Words : orig'[w] = w /\ Name(w)' = name'[w]
  BY <1>1, <1>5 DEF SrcBase, SrcBitmap, Name, GC_bitmap_allocate, YoungBase
<1>7. ToUsed' = ToUsed /\ ToBase' = ToBase
  BY DEF ToUsed, ToBase
<1>8. SrcUsed = YoungBase .. (YoungBase + yfree - 1) /\ SrcUsed' = SrcUsed \cup Taken(n)
  <2>1. SrcUsed = YoungBase .. (YoungBase + yfree - 1)
    BY <1>5 DEF SrcUsed
  <2>2. SrcUsed' = YoungBase .. (YoungBase + yfree' - 1)
    BY <1>6 DEF SrcUsed
  <2> QED BY <1>3, <2>1, <2>2 DEF Taken, YoungBase
<1>9. Live' = Live \cup Taken(n)
  BY <1>7, <1>8 DEF Live
<1>10. /\ Live' \subseteq Words /\ Live \subseteq Words
       /\ \A w \in SrcUsed' : w \notin ToUsed'
  <2>1. (IInv => Live \subseteq Words /\ \A w \in SrcUsed : w \notin ToUsed)'
    BY LiveFacts, PTL
  <2> QED BY <1>1, <1>2, <2>1, LiveFacts
<1>11. \A w \in Live : w \notin Taken(n)
  <2>1. \A w \in SrcUsed : w \notin Taken(n)
    BY <1>3, <1>8 DEF Taken, YoungBase
  <2>2. \A w \in ToUsed : w \notin Taken(n)
    BY <1>7, <1>8, <1>10
  <2> QED BY <2>1, <2>2 DEF Live
<1>12. \A w \in Live : name'[w] = name[w]
  BY <1>4, <1>10, <1>11
<1>13. ASSUME NEW i \in 0 .. (n - 1)
       PROVE  /\ YoungBase + yfree + i \in Taken(n)
              /\ name'[YoungBase + yfree + i] = <<count + 1, i>>
  <2>1. YoungBase + yfree + i \in Taken(n) /\ (YoungBase + yfree + i) - (YoungBase + yfree) = i
    BY <1>3 DEF Taken, YoungBase
  <2> QED BY <1>4, <1>9, <1>10, <2>1
<1>14. ASSUME NEW w \in Taken(n)
       PROVE  /\ w \in Words /\ w \in Nat
              /\ name'[w] = <<count + 1, w - (YoungBase + yfree)>>
              /\ w - (YoungBase + yfree) \in 0 .. (n - 1)
  BY <1>1, <1>3, <1>4, <1>9, <1>10, LiveFacts DEF Taken, YoungBase
<1>15. name' \in [Words -> Nat \X Nat]
  <2>1. \A w \in Words : name'[w] \in Nat \X Nat
    <3> SUFFICES ASSUME NEW w \in Words PROVE name'[w] \in Nat \X Nat
      OBVIOUS
    <3>1. CASE w \in Taken(n)
      <4> DEFINE k == w - (YoungBase + yfree)
      <4>1. k \in Nat /\ count + 1 \in Nat /\ name'[w] = <<count + 1, k>>
        BY <1>3, <1>14, <3>1
      <4> HIDE DEF k
      <4> QED BY <4>1
    <3>2. CASE w \notin Taken(n)
      BY <1>1, <1>4, <3>2 DEF NameInv
    <3> QED BY <3>1, <3>2
  <2> QED BY <1>4, <2>1
<1>16. ASSUME NEW w \in Live PROVE name[w][1] \in Nat /\ name[w][1] <= count
  BY <1>1, <1>5, <1>10, PairParts DEF NameInv
<1>17. ASSUME NEW w \in Live' PROVE Name(w)'[1] <= count'
  <2>1. CASE w \in Live
    BY <1>3, <1>4, <1>6, <1>10, <1>12, <1>16, <2>1
  <2>2. CASE w \in Taken(n)
    <3>1. Name(w)' = name'[w] /\ name'[w] = <<count + 1, w - (YoungBase + yfree)>>
      BY <1>6, <1>14, <2>2
    <3>2. Name(w)'[1] = count + 1
      BY <3>1
    <3> QED BY <1>3, <1>4, <3>2
  <2> QED BY <1>9, <2>1, <2>2
<1>18. ASSUME NEW v \in Live', NEW w \in Live', Name(v)' = Name(w)' PROVE orig'[v] = orig'[w]
  <2>1. name'[v] = name'[w] /\ v \in Words /\ w \in Words
    BY <1>6, <1>10, <1>18
  <2>2. CASE v \in Live /\ w \in Live
    BY <1>1, <1>5, <1>12, <2>1, <2>2 DEF NameInv
  <2>3. CASE v \in Taken(n) /\ w \in Taken(n)
    <3>1. v - (YoungBase + yfree) = w - (YoungBase + yfree)
      BY <1>14, <2>1, <2>3
    <3>2. v = w
      BY <1>3, <1>14, <2>3, <3>1 DEF YoungBase
    <3> QED BY <3>2
  <2>4. ASSUME NEW x \in Live, NEW y \in Taken(n) PROVE name'[x] # name'[y]
    <3>1. name'[x][1] <= count /\ name'[x][1] \in Nat /\ name'[y][1] = count + 1
      BY <1>12, <1>14, <1>16
    <3> QED BY <1>3, <3>1
  <2> QED BY <1>9, <2>1, <2>2, <2>3, <2>4
<1>19. Numbered(name', orig', tobitmap', ToBase')
  <2>1. \A w \in ToUsed : name'[orig'[w]] = name[orig[w]]
    BY <1>5, <1>6, <1>10, <1>12 DEF Live
  <2>2. \A w \in ToBase .. (ToBase + tobitmap.used - 1) : name'[orig'[w]] = name[orig[w]]
    BY <1>1, <2>1 DEF ToUsed, BitmapMatchesFree
  <2>3. Numbered(name', orig', tobitmap, ToBase)
    BY <1>1, <2>2, SrcBounds, NumberedKept DEF NameInv
  <2> QED BY <1>7, <2>3
<1>20. Numbered(name', orig', SrcBitmap', SrcBase')
  <2>1. /\ ybitmap.map \subseteq Nat /\ ybitmap.used \in Nat /\ BitBelow(ybitmap)
        /\ YoungBase \in Nat
    BY <1>1, <1>3, <1>5, SrcBounds DEF RegionInv
  <2>2. Numbered(name, orig, ybitmap, YoungBase)
    BY <1>1, <1>5 DEF NameInv
  <2>3. \A w \in YoungBase .. (YoungBase + ybitmap.used - 1) : name'[orig'[w]] = name[orig[w]]
    BY <1>5, <1>6, <1>8, <1>10, <1>12 DEF Live
  <2>4. \A i \in 0 .. (n - 1) : name'[orig'[YoungBase + yfree + i]] = <<count + 1, i>>
    BY <1>6, <1>13, <1>14
  <2>5. name'[orig'[YoungBase + yfree]][1] = count + 1
    <3>1. YoungBase + yfree + 0 = YoungBase + yfree /\ 0 \in 0 .. (n - 1)
      BY <1>3 DEF YoungBase
    <3>2. name'[orig'[YoungBase + yfree]] = <<count + 1, 0>>
      BY <2>4, <3>1
    <3> QED BY <3>2
  <2>6. Numbered(name', orig', GC_bitmap_allocate(ybitmap, n), YoungBase)
    BY <1>5, <2>1, <2>2, <2>3, <2>4, <2>5, NumberedGrows
  <2> QED BY <1>6, <2>6
<1>21. NameInv'
  BY <1>3, <1>4, <1>15, <1>17, <1>18, <1>19, <1>20 DEF NameInv
<1> QED BY <1>4, <1>9, <1>10, <1>11, <1>12, <1>13, <1>21

(* GC_malloc with room for the object, at once or after a collection.      *)
LEMMA AllocateView ==
    ASSUME VInv, SInv', GraphInv', Observe, pc \in {"run", "retry"}, pc' = "run",
           UNCHANGED <<stage, orig>>, NEW r \in Roots, NEW size \in Nat \ {0},
           Fits(size), Allocate(r, size)
    PROVE  NameInv' /\ SeenInv' /\ HeapStep
<1> DEFINE n == AlignWords(size)
           first == YoungBase + yfree
           c == [base |-> first * WordBytes, len |-> size, fwd |-> FALSE]
<1>1. IInv /\ TypeOK /\ SInv /\ stage = "none" /\ Shows /\ NameInv /\ BitmapMatchesFree
  BY DEF VInv, SeenInv, SInv, IInv, ControlInv
<1>2. /\ \A x \in Roots : x # r => root'[x] = root[x] /\ kroot'[x] = kroot[x]
      /\ kroot'[r] /\ root'[r] = c
      /\ yfree' = yfree + n /\ ybitmap' = GC_bitmap_allocate(ybitmap, n)
      /\ mem' = [mem EXCEPT ![first] = Null]
      /\ known' = [w \in Words |-> IF w \in first .. (first + n - 1) THEN FALSE ELSE known[w]]
      /\ UNCHANGED <<to, ofree, tobitmap>>
  BY <1>1 DEF Allocate, SetRoot, TypeOK
<1>3. n \in Nat \ {0} /\ yfree \in Nat /\ first \in Nat /\ WordBytes \in Nat \ {0}
  BY <1>1, AlignFacts, ConstantsAssumption DEF TypeOK, YoungBase
<1>4. n \in 1 .. YoungWords
  BY <1>1, <1>3, ConstantsAssumption DEF Fits, TypeOK
<1>5. /\ NameInv' /\ count' = count + 1
      /\ Live' = Live \cup Taken(n) /\ \A w \in Live : w \notin Taken(n)
      /\ \A w \in Live : name'[w] = name[w]
      /\ \A i \in 0 .. (n - 1) : first + i \in Taken(n) /\ name'[first + i] = <<count + 1, i>>
      /\ Taken(n) \subseteq Words
  BY <1>1, <1>2, <1>3, AllocateNames
<1>6. Shows' /\ SeenInv'
  BY <1>5, SeesAgain
<1>7. Taken(n) = first .. (first + n - 1) /\ first \in Taken(n)
  BY <1>3 DEF Taken
<1>8. c \in Cap /\ c # Null
  <2>1. first * WordBytes \in Nat
    BY <1>3
  <2>2. c \in Cap
    BY <2>1 DEF Cap
  <2> QED BY <2>2, NullAssumption
<1>9. c.base = first * WordBytes /\ c.len = size
  OBVIOUS
<1> HIDE DEF c, n, first
<1>10. WordOf(c) = first /\ c.base % WordBytes = 0
  BY <1>3, <1>8, <1>9, AlignedCap
<1>11. Meant(name', c) = Heap!Pointer(count + 1, 0, 0, n)
  <2>1. 0 \in 0 .. (n - 1) /\ first + 0 = first
    BY <1>3
  <2>2. name'[first] = <<count + 1, 0>>
    BY <1>5, <2>1
  <2>3. name'[first][1] = count + 1 /\ name'[first][2] = 0
    BY <2>2
  <2> QED BY <1>8, <1>9, <1>10, <2>3 DEF Meant, n
<1>12. Live \subseteq Words /\ mem \in [Words -> Cap \cup {Null}] /\ known \in [Words -> BOOLEAN]
  BY <1>1, LiveFacts DEF TypeOK
<1>13. ASSUME NEW v, Sound(v) PROVE Meant(name', v) = Meant(name, v)
  <2>1. CASE v = Null
    BY <2>1, Values
  <2>2. CASE v # Null
    <3>1. WordOf(v) \in Live
      BY <1>1, <1>13, <2>2, SoundFacts
    <3> QED BY <1>5, <2>2, <3>1 DEF Meant
  <2> QED BY <2>1, <2>2
<1>14. seen'.root = [seen.root EXCEPT ![r] = Heap!Pointer(count + 1, 0, 0, n)]
  <2>1. /\ seen.root = [x \in Roots |-> IF kroot[x] THEN Meant(name, root[x]) ELSE Unknown]
        /\ seen'.root = [x \in Roots |-> IF kroot'[x] THEN Meant(name', root'[x]) ELSE Unknown]
    BY <1>1, <1>6 DEF Shows, RootsShown
  <2>2. \A x \in Roots : kroot[x] => Sound(root[x])
    BY DEF VInv, GraphInv, RootInv, Good
  <2>3. \A x \in Roots : x # r => seen'.root[x] = seen.root[x]
    BY <1>2, <1>13, <2>1, <2>2
  <2>4. seen'.root[r] = Heap!Pointer(count + 1, 0, 0, n)
    BY <1>2, <1>11, <2>1
  <2> QED BY <2>1, <2>3, <2>4
<1> DEFINE D == {name[w] : w \in Live}
           E == {count'} \X (0 .. (n - 1))
           g == [f \in D \cup E |-> IF f \in D THEN seen.heap[f] ELSE Unknown]
<1>15. DOMAIN seen.heap = D
  BY <1>1 DEF Shows, HeapShown
<1>16. ASSUME NEW w \in Live
       PROVE  /\ name[w] \notin E /\ name'[w] = name[w]
              /\ seen'.heap[name[w]] = seen.heap[name[w]]
  <2>1. name[w] \notin E
    <3>1. Name(w) = name[w] /\ name[w] \in Nat \X Nat /\ w \in Words
      BY <1>1, <1>12, NoneFacts DEF NameInv
    <3>2. name[w][1] \in Nat /\ name[w][1] <= count /\ count \in Nat
      BY <1>1, <3>1, PairParts DEF NameInv
    <3>3. name[w][1] # count'
      BY <1>5, <3>2
    <3> QED BY <3>3
  <2>2. w \notin first .. (first + n - 1) /\ w # first /\ w \in Words
    BY <1>5, <1>7, <1>12
  <2>3. known'[w] = known[w] /\ mem'[w] = mem[w]
    BY <1>2, <1>12, <2>2
  <2>4. known[w] => Sound(mem[w])
    BY <1>1, KnownSound DEF VInv, Live
  <2>5. seen'.heap[name[w]] = IF known[w] THEN Meant(name', mem[w]) ELSE Unknown
    BY <1>5, <1>6, <2>3 DEF Shows, HeapShown
  <2>6. seen.heap[name[w]] = IF known[w] THEN Meant(name, mem[w]) ELSE Unknown
    BY <1>1 DEF Shows, HeapShown
  <2> QED BY <1>5, <1>13, <2>1, <2>4, <2>5, <2>6
<1>17. ASSUME NEW w \in Taken(n) PROVE name'[w] \in E /\ seen'.heap[name'[w]] = Unknown
  <2>1. w - first \in 0 .. (n - 1) /\ first + (w - first) = w
    BY <1>3, <1>7
  <2>2. name'[w] = <<count + 1, w - first>>
    BY <1>5, <2>1
  <2>3. ~known'[w]
    BY <1>2, <1>5, <1>7
  <2>4. seen'.heap[name'[w]] = Unknown
    BY <1>5, <1>6, <2>3 DEF Shows, HeapShown
  <2> QED BY <1>5, <2>1, <2>2, <2>4
<1>18. {name'[w] : w \in Live'} = D \cup E
  <2>1. ASSUME NEW w \in Live' PROVE name'[w] \in D \cup E
    BY <1>5, <1>16, <1>17
  <2>2. ASSUME NEW f \in D PROVE \E w \in Live' : f = name'[w]
    BY <1>5, <1>16
  <2>3. ASSUME NEW f \in E PROVE \E w \in Live' : f = name'[w]
    <3>1. PICK i \in 0 .. (n - 1) : f = <<count + 1, i>>
      BY <1>5
    <3> QED BY <1>5, <3>1
  <2> HIDE DEF D, E
  <2> QED BY <2>1, <2>2, <2>3
<1>19. seen'.heap = [f \in D \cup E |-> seen'.heap[f]]
  BY <1>6, <1>18 DEF Shows, HeapShown
<1>20. ASSUME NEW f \in D \cup E PROVE seen'.heap[f] = IF f \in D THEN seen.heap[f] ELSE Unknown
  <2>1. CASE f \in D
    BY <1>16, <2>1
  <2>2. CASE f \notin D
    <3>1. PICK w \in Live' : f = name'[w]
      BY <1>18
    <3>2. w \in Taken(n)
      BY <1>5, <1>16, <2>2, <3>1
    <3> QED BY <1>17, <2>2, <3>1, <3>2
  <2> QED BY <2>1, <2>2
<1>21. seen'.heap = g
  <2> HIDE DEF D, E
  <2> QED BY <1>19, <1>20
<1>22. Heap!Alloc(r, n)
  <2> HIDE DEF D
  <2> QED BY <1>5, <1>14, <1>15, <1>21 DEF Heap!Alloc
<1> QED BY <1>1, <1>4, <1>5, <1>6, <1>22, HeapNext DEF Heap!Next, Heap!Roots, Roots

LEMMA MallocView ==
    ASSUME VInv, SInv', GraphInv', Observe, NEW r \in Roots, NEW size \in Sizes,
           GC_malloc(r, size)
    PROVE  NameInv' /\ SeenInv' /\ HeapStep
<1>1. size \in Nat \ {0}
  BY ConstantsAssumption
<1>2. pc = "run" /\ pc' = "run" /\ UNCHANGED <<stage, orig>> /\ Fits(size) /\ Allocate(r, size)
  BY DEF GC_malloc, ctlVars, histVars
<1> QED BY <1>1, <1>2, AllocateView

(* The second attempt: GC_malloc returns a new object or NULL.             *)
LEMMA MallocRetryView ==
    ASSUME VInv, SInv', GraphInv', Observe, MallocRetry
    PROVE  NameInv' /\ SeenInv' /\ HeapStep
<1>1. pc = "retry" /\ pc' = "run" /\ UNCHANGED <<stage, orig>>
  BY DEF MallocRetry, histVars
<1>2. IInv /\ TypeOK /\ request.root \in Roots /\ request.size \in Nat \ {0}
  <2>1. IInv /\ TypeOK /\ RegionInv
    BY DEF VInv, SInv, IInv, GraphInv
  <2>2. request.size > 0
    BY <1>1, <2>1 DEF RegionInv
  <2> QED BY <2>1, <2>2 DEF TypeOK, Requests
<1>3. CASE Fits(request.size) /\ Allocate(request.root, request.size)
  BY <1>1, <1>2, <1>3, AllocateView
<1>4. CASE SetRoot(request.root, Null) /\ UNCHANGED <<mem, gcVars, known>>
  <2>1. /\ stage = "none" /\ Shows /\ Shows'
        /\ UNCHANGED <<name, count>> /\ Live' = Live
        /\ NameInv' /\ SeenInv'
    BY <1>1, <1>4, RunStep
  <2> DEFINE r == request.root
  <2>2. /\ \A x \in Roots : x # r => root'[x] = root[x] /\ kroot'[x] = kroot[x]
        /\ kroot'[r] /\ root'[r] = Null
    BY <1>2, <1>4 DEF SetRoot, TypeOK
  <2>3. r \in Roots
    BY <1>2
  <2> HIDE DEF r
  <2>4. Heap!Assign(r, Null)
    BY <1>4, <2>1, <2>2, <2>3, AssignStep, Values
  <2> QED BY <2>1, <2>3, <2>4, HeapNext DEF Heap!Next, Heap!Roots, Roots
<1> QED BY <1>3, <1>4 DEF MallocRetry

-----------------------------------------------------------------------------
(* GC_minor_free and GC_reset.                                             *)

(* The program loses its pointers to the words F that are freed.           *)
LEMMA LosesPointer ==
    ASSUME SInv, NameInv, stage = "none", NEW F, SrcUsed \subseteq F,
           ToUsed \subseteq F \/ \A w \in ToUsed : w \notin F,
           NEW v, Sound(v), v # Null
    PROVE  /\ Meant(name, v) \in Pointers
           /\ (\E f \in Heap!Fields(Meant(name, v)) : f \in {name[w] : w \in Live \cap F})
                 <=> WordOf(v) \in F
<1> DEFINE z == Meant(name, v)
           S == {name[w] : w \in Live \cap F}
<1>1. PointerFields(v)
  BY FieldNames
<1>2. /\ WordOf(v) \in Live
      /\ InSrc(v) => WordOf(v) \in SrcUsed
      /\ InTo(v) => WordOf(v) \in ToUsed
  BY SoundFacts DEF SInv
<1>3. ASSUME WordOf(v) \in F PROVE \E f \in Heap!Fields(z) : f \in S
  BY <1>1, <1>2, <1>3 DEF PointerFields
<1>4. ASSUME WordOf(v) \notin F, NEW f \in Heap!Fields(z), f \in S PROVE FALSE
  <2>1. InTo(v) /\ \A w \in ToUsed : w \notin F
    BY <1>2, <1>4 DEF Sound
  <2>2. PICK w \in ToUsed : f = name[w]
    BY <1>1, <1>4, <2>1 DEF PointerFields
  <2>3. PICK u \in Live : f = name[u] /\ u \in F
    BY <1>4
  <2>4. w = u
    BY <2>2, <2>3, NamesDiffer DEF Live
  <2> QED BY <2>1, <2>3, <2>4
<1> QED BY <1>1, <1>3, <1>4 DEF PointerFields

LEMMA NumberedEmpty ==
    ASSUME NEW bm, bm.map = {}, NEW nm, NEW og, NEW b
    PROVE  Numbered(nm, og, bm, b)
BY DEF Numbered

(* What is freed: the young space, and the old one unless it is kept.      *)
LEMMA FreeFacts ==
    ASSUME VInv, SInv', Observe, GC_minor_free \/ GC_reset
    PROVE  /\ NameInv' /\ UNCHANGED <<name, count>>
           /\ \E F : /\ SrcUsed \subseteq F
                     /\ ToUsed \subseteq F \/ \A w \in ToUsed : w \notin F
                     /\ Live' = Live \ F
                     /\ mem' = Zeroed(F) /\ Forgotten(F)
<1>1. IInv /\ TypeOK /\ SInv /\ NameInv /\ RegionInv /\ BitmapMatchesFree
  BY DEF VInv, SInv, IInv, GraphInv
<1>2. /\ pc = "run" /\ UNCHANGED <<stage, orig, to>>
      /\ yfree' = 0 /\ ybitmap' = GC_bitmap_clr(ybitmap)
  BY DEF GC_minor_free, GC_reset, ctlVars, histVars
<1>3. stage = "none" /\ yfree \in Nat
  BY <1>1, <1>2 DEF IInv, ControlInv, TypeOK
<1>4. UNCHANGED <<name, count>>
  BY <1>1, <1>2, <1>3, NamesStay
<1>5. ybitmap'.map = {} /\ ybitmap'.used = 0
  BY <1>1, <1>2, ClrEmpty, ConstantsAssumption DEF RegionInv, TypeOK
<1>6. /\ SrcBase = YoungBase /\ SrcBitmap = ybitmap /\ SrcBitmap.used = yfree
  BY <1>1, <1>3, NoneFacts
<1>7. SrcUsed \subseteq YoungSpace
  BY <1>1, <1>6, ConstantsAssumption DEF SrcUsed, YoungSpace, YoungBase, TypeOK
<1>8. SrcBitmap' = ybitmap' /\ SrcBase' = YoungBase /\ SrcUsed' = {}
  <2>1. SrcBitmap' = ybitmap' /\ SrcBase' = YoungBase
    BY <1>2, <1>3 DEF SrcBase, SrcBitmap, YoungBase
  <2> QED BY <1>5, <2>1 DEF SrcUsed, YoungBase
<1>9. ToBase' = ToBase /\ ToBase \in Nat /\ ofree \in 0 .. OldWords /\ OldWords \in Nat
      /\ OldSpace(to) = ToBase .. (ToBase + OldWords - 1) /\ YoungWords + 1 <= ToBase
  <2>1. to \in {0, 1} /\ OldWords \in Nat /\ YoungWords \in Nat
    BY <1>1, ConstantsAssumption DEF TypeOK
  <2>2. YoungWords + 1 <= ToBase
    <3>1. CASE to = 0
      BY <2>1, <3>1 DEF ToBase, OldBase
    <3>2. CASE to = 1
      BY <2>1, <3>2 DEF ToBase, OldBase
    <3> QED BY <2>1, <3>1, <3>2
  <2>3. ToBase' = ToBase
    BY <1>2 DEF ToBase
  <2> QED BY <1>1, <2>1, <2>2, <2>3, SrcBounds, Bounds
<1>10. /\ \A w \in ToUsed : w \notin YoungSpace
       /\ ToUsed \subseteq OldSpace(to)
  BY <1>9, ConstantsAssumption DEF ToUsed, YoungSpace, YoungBase
<1>11. \E F : /\ SrcUsed \subseteq F
              /\ ToUsed \subseteq F \/ \A w \in ToUsed : w \notin F
              /\ ToUsed' = ToUsed \ F /\ mem' = Zeroed(F) /\ Forgotten(F)
              /\ \/ tobitmap' = tobitmap
                 \/ tobitmap'.map = {}
  <2>1. CASE GC_minor_free
    <3>1. UNCHANGED <<ofree, tobitmap>> /\ mem' = Zeroed(YoungSpace) /\ Forgotten(YoungSpace)
      BY <2>1 DEF GC_minor_free
    <3>2. ToUsed' = ToUsed
      BY <1>9, <3>1 DEF ToUsed
    <3> QED BY <1>7, <1>10, <3>1, <3>2
  <2>2. CASE GC_reset
    <3> DEFINE F == YoungSpace \cup OldSpace(to)
    <3>1. ofree' = 0 /\ tobitmap' = GC_bitmap_clr(tobitmap) /\ mem' = Zeroed(F) /\ Forgotten(F)
      BY <2>2 DEF GC_reset
    <3>2. ToUsed' = {}
      BY <1>9, <3>1 DEF ToUsed
    <3>3. tobitmap'.map = {}
      BY <1>1, <3>1, ClrEmpty, ConstantsAssumption DEF RegionInv, TypeOK
    <3> QED BY <1>7, <1>10, <3>1, <3>2, <3>3
  <2> QED BY <2>1, <2>2
<1>12. PICK F : /\ SrcUsed \subseteq F
                /\ ToUsed \subseteq F \/ \A w \in ToUsed : w \notin F
                /\ ToUsed' = ToUsed \ F /\ mem' = Zeroed(F) /\ Forgotten(F)
                /\ \/ tobitmap' = tobitmap
                   \/ tobitmap'.map = {}
  BY <1>11
<1>13. Live' = Live \ F
  BY <1>8, <1>12 DEF Live
<1>14. Numbered(name', orig', tobitmap', ToBase')
  BY <1>1, <1>2, <1>4, <1>9, <1>12, NumberedEmpty DEF NameInv
<1>15. Numbered(name', orig', SrcBitmap', SrcBase')
  BY <1>5, <1>8, NumberedEmpty
<1>16. NameInv'
  BY <1>1, <1>2, <1>4, <1>13, <1>14, <1>15 DEF NameInv, Name
<1> QED BY <1>4, <1>12, <1>13, <1>16

LEMMA FreeView ==
    ASSUME VInv, SInv', GraphInv', Observe, GC_minor_free \/ GC_reset
    PROVE  NameInv' /\ SeenInv' /\ HeapStep
<1>1. pc = "run" /\ pc' = "run" /\ root' = root
  BY DEF GC_minor_free, GC_reset, ctlVars
<1>2. IInv /\ TypeOK /\ SInv /\ NameInv /\ stage = "none" /\ Shows
  BY <1>1 DEF VInv, SeenInv, SInv, IInv, ControlInv
<1>3. NameInv' /\ UNCHANGED <<name, count>>
  BY FreeFacts
<1>4. PICK F : /\ SrcUsed \subseteq F
               /\ ToUsed \subseteq F \/ \A w \in ToUsed : w \notin F
               /\ Live' = Live \ F
               /\ mem' = Zeroed(F) /\ Forgotten(F)
  BY FreeFacts
<1>5. Shows' /\ SeenInv'
  BY <1>1, <1>3, SeesAgain
<1> DEFINE S == {name[w] : w \in Live \cap F}
           D == {name[w] : w \in Live}
           Lose(v) == IF Heap!IsPointer(v) /\ Heap!Fields(v) \cap S # {} THEN Unknown ELSE v
<1>6. Live \subseteq Words
  BY <1>2, LiveFacts
<1>7. ASSUME NEW v, Sound(v)
      PROVE  Lose(Meant(name, v))
               = IF v = Null \/ WordOf(v) \notin F THEN Meant(name, v) ELSE Unknown
  <2>1. CASE v = Null
    BY <2>1, Values DEF Heap!IsPointer
  <2>2. CASE v # Null
    <3> DEFINE z == Meant(name, v)
    <3>1. z \in Pointers /\ ((\E f \in Heap!Fields(z) : f \in S) <=> WordOf(v) \in F)
      BY <1>2, <1>4, <1>7, <2>2, LosesPointer
    <3> HIDE DEF z, S
    <3>2. Heap!IsPointer(z)
      BY <3>1, Values DEF Heap!IsPointer
    <3>3. Heap!Fields(z) \cap S # {} <=> WordOf(v) \in F
      BY <3>1
    <3>4. Lose(z) = IF v = Null \/ WordOf(v) \notin F THEN z ELSE Unknown
      BY <2>2, <3>2, <3>3
    <3> QED BY <3>4 DEF z
  <2> QED BY <2>1, <2>2
<1>8. Lose(Unknown) = Unknown
  OBVIOUS
<1> HIDE DEF Lose
<1>9. ASSUME NEW r \in Roots PROVE seen'.root[r] = Lose(seen.root[r])
  <2>1. kroot[r] \in BOOLEAN /\ kroot \in [Roots -> BOOLEAN]
    BY <1>2 DEF TypeOK
  <2>2. kroot[r] => Sound(root[r])
    BY DEF VInv, GraphInv, RootInv, Good
  <2>3. seen.root[r] = IF kroot[r] THEN Meant(name, root[r]) ELSE Unknown
    BY <1>2 DEF Shows, RootsShown
  <2>4. seen'.root[r] = IF kroot'[r] THEN Meant(name, root[r]) ELSE Unknown
    BY <1>1, <1>3, <1>5 DEF Shows, RootsShown
  <2>5. kroot'[r] = (kroot[r] /\ (root[r] = Null \/ WordOf(root[r]) \notin F))
    BY <1>4, <2>1 DEF Forgotten, StillKnown
  <2> QED BY <1>7, <1>8, <2>2, <2>3, <2>4, <2>5
<1>10. ASSUME NEW w \in Live, w \notin F PROVE seen'.heap[name[w]] = Lose(seen.heap[name[w]])
  <2>1. known[w] \in BOOLEAN /\ known \in [Words -> BOOLEAN] /\ w \in Words
    BY <1>2, <1>6 DEF TypeOK
  <2>2. known[w] => Sound(mem[w])
    BY <1>2, KnownSound DEF VInv, Live
  <2>3. seen.heap[name[w]] = IF known[w] THEN Meant(name, mem[w]) ELSE Unknown
    BY <1>2 DEF Shows, HeapShown
  <2>4. mem'[w] = mem[w]
    BY <1>4, <1>10, <2>1 DEF Zeroed
  <2>5. seen'.heap[name[w]] = IF known'[w] THEN Meant(name, mem[w]) ELSE Unknown
    BY <1>3, <1>4, <1>5, <1>10, <2>4 DEF Shows, HeapShown
  <2>6. known'[w] = (known[w] /\ (mem[w] = Null \/ WordOf(mem[w]) \notin F))
    BY <1>4, <1>10, <2>1 DEF Forgotten, StillKnown
  <2> QED BY <1>7, <1>8, <2>2, <2>3, <2>5, <2>6
<1>11. DOMAIN seen.heap = D
  BY <1>2 DEF Shows, HeapShown
<1>12. {name[w] : w \in Live \ F} = D \ S
  <2>1. ASSUME NEW w \in Live, w \notin F PROVE name[w] \in D \ S
    BY <1>2, <2>1, NamesDiffer
  <2>2. ASSUME NEW f \in D \ S PROVE \E w \in Live \ F : f = name[w]
    OBVIOUS
  <2> HIDE DEF S, D
  <2> QED BY <2>1, <2>2
<1>13. seen'.heap = [f \in D \ S |-> seen'.heap[f]]
  BY <1>3, <1>4, <1>5, <1>12 DEF Shows, HeapShown
<1>14. \A f \in D \ S : seen'.heap[f] = Lose(seen.heap[f])
  BY <1>12, <1>10
<1>15. S \in SUBSET DOMAIN seen.heap
  BY <1>11
<1>16. seen'.root = [r \in Roots |-> seen'.root[r]]
  BY <1>5 DEF Shows, RootsShown
<1>17. /\ seen'.root = [r \in Roots |-> Lose(seen.root[r])]
       /\ seen'.heap = [f \in D \ S |-> Lose(seen.heap[f])]
  <2> HIDE DEF S, D
  <2> QED BY <1>13, <1>14, <1>16, <1>9
<1>18. Heap!Free(S)
  <2> HIDE DEF S, D
  <2> QED BY <1>3, <1>11, <1>17 DEF Heap!Free, Heap!Roots, Roots, Lose
<1> QED BY <1>2, <1>3, <1>5, <1>15, <1>18, HeapNext DEF Heap!Next

-----------------------------------------------------------------------------
(* Collections.                                                            *)

(* GC_collect_region begins, or refuses; the program's values stand for    *)
(* themselves.                                                             *)
LEMMA PromotionView ==
    ASSUME VInv, SInv', GraphInv', Observe, NEW forced \in BOOLEAN,
           NEW back \in {"run", "retry"}, pc = "run", GC_collect_region(forced, back)
    PROVE  NameInv' /\ SeenInv' /\ HeapStep
<1>1. IInv /\ TypeOK /\ SInv /\ NameInv /\ stage = "none" /\ Shows
  BY DEF VInv, SeenInv, SInv, IInv, ControlInv
<1>2. UNCHANGED <<mem, root, yfree, ybitmap, to, ofree, tobitmap, frombitmap, known, kroot>>
  BY DEF GC_collect_region
<1>3. UNCHANGED <<name, count>>
  BY <1>1, <1>2, NamesStay DEF TypeOK
<1>4. stage' \in {"none", "promote"} /\ \A w \in Words : orig'[w] = orig[w]
  BY <1>1, NoneFacts DEF GC_collect_region, BeginPromotion, Refuse
<1>5. /\ SrcBase' = SrcBase /\ SrcBitmap' = SrcBitmap /\ ToBase' = ToBase
      /\ SrcUsed' = SrcUsed /\ ToUsed' = ToUsed /\ Live' = Live
  BY <1>1, <1>2, <1>4 DEF SrcBase, SrcBitmap, ToBase, SrcUsed, ToUsed, Live
<1>6. Live \subseteq Words /\ \A w \in Words : orig[w] = w
  BY <1>1, LiveFacts, NoneFacts
<1>7. NameInv'
  <2>1. Numbered(name', orig', tobitmap', ToBase')
    <3>1. \A w \in ToBase .. (ToBase + tobitmap.used - 1) : name'[orig'[w]] = name[orig[w]]
      BY <1>1, <1>3, <1>4, <1>6 DEF Live, ToUsed, IInv, BitmapMatchesFree
    <3>2. /\ tobitmap.map \subseteq Nat /\ tobitmap.used \in Nat /\ ToBase \in Nat
          /\ Numbered(name, orig, tobitmap, ToBase)
      BY <1>1, SrcBounds DEF NameInv, IInv
    <3>3. Numbered(name', orig', tobitmap, ToBase)
      BY <3>1, <3>2, NumberedKept
    <3> QED BY <1>2, <1>5, <3>3
  <2>2. Numbered(name', orig', SrcBitmap', SrcBase')
    <3>1. \A w \in SrcBase .. (SrcBase + SrcBitmap.used - 1) : name'[orig'[w]] = name[orig[w]]
      BY <1>1, <1>3, <1>4, <1>6 DEF Live, SrcUsed
    <3>2. /\ SrcBitmap.map \subseteq Nat /\ SrcBitmap.used \in Nat /\ SrcBase \in Nat
          /\ Numbered(name, orig, SrcBitmap, SrcBase)
      BY <1>1, SrcBounds DEF NameInv, IInv
    <3>3. Numbered(name', orig', SrcBitmap, SrcBase)
      BY <3>1, <3>2, NumberedKept
    <3> QED BY <1>5, <3>3
  <2> QED BY <1>1, <1>3, <1>4, <1>5, <1>6, <2>1, <2>2 DEF NameInv, Name
<1>8. CASE BeginPromotion(forced) /\ pc' = "roots"
  <2>1. sroot' = root /\ snap' = mem /\ stage' = "promote" /\ seen' = seen
    BY <1>8 DEF BeginPromotion, Observe
  <2>2. seen'.root = RootsShown(name', kroot', sroot')
    BY <1>1, <1>2, <1>3, <2>1 DEF Shows
  <2>3. /\ seen.heap = [f \in {name[w] : w \in Live} |-> seen.heap[f]]
        /\ \A w \in Live :
              seen.heap[name[w]] = IF known[w] THEN Meant(name, mem[w]) ELSE Unknown
    BY <1>1 DEF Shows, HeapShown
  <2>4. DOMAIN seen.heap = {name[w] : w \in Live}
    BY <2>3
  <2>5. seen'.heap = [f \in DOMAIN seen'.heap |-> seen'.heap[f]]
    BY <2>1, <2>3, <2>4
  <2>6. ASSUME NEW w \in Live'
        PROVE  /\ Name(w)' \in DOMAIN seen'.heap
               /\ seen'.heap[Name(w)']
                    = IF known'[w] THEN Meant(name', snap'[orig'[w]]) ELSE Unknown
    <3>1. Name(w)' = name[w] /\ orig'[w] = w /\ w \in Live
      BY <1>3, <1>4, <1>5, <1>6 DEF Name
    <3> QED BY <1>2, <1>3, <2>1, <2>3, <2>4, <3>1
  <2>7. Showed'
    BY <2>2, <2>5, <2>6 DEF Showed
  <2>8. SeenInv'
    BY <1>8, <2>7 DEF SeenInv
  <2> QED BY <1>3, <1>7, <2>1, <2>8, HeapStutters
<1>9. CASE Refuse /\ pc' = back
  <2>1. Shows' /\ SeenInv'
    BY <1>7, <1>9, SeesAgain
  <2>2. seen'.heap = seen.heap
    BY <1>1, <1>2, <1>3, <1>5, <2>1, HeapKept
  <2>3. seen'.root = seen.root
    BY <1>1, <1>2, <1>3, <2>1, RootsKept
  <2>4. HeapStep
    BY <1>1, <1>3, <2>2, <2>3 DEF HeapStep, Heap!vars
  <2> QED BY <1>7, <2>1, <2>4
<1> QED BY <1>8, <1>9 DEF GC_collect_region

(* What the copying of objects keeps of the names and of what was seen.    *)
LEMMA EffectShowed ==
    ASSUME VInv, stage # "none", SameSpaces, NEW X, Effect(X),
           UNCHANGED <<name, count, seen, snap, sroot, kroot>>
    PROVE  /\ Showed'
           /\ \A w \in Live' : Name(w)'[1] <= count'
           /\ \A v, w \in Live' : Name(v)' = Name(w)' => orig'[v] = orig'[w]
<1>1. IInv /\ TypeOK /\ NameInv /\ Showed /\ BitmapMatchesFree
  BY DEF VInv, SeenInv, SInv, IInv
<1>2. SrcUsed' = SrcUsed /\ ToBase' = ToBase
  BY SrcKept
<1>3. /\ ToBase \in Nat /\ ofree \in Nat /\ ofree' \in Nat /\ ofree <= ofree'
      /\ \A w \in ToUsed \cup SrcUsed : orig'[w] = orig[w] /\ known'[w] = known[w]
      /\ \A w \in (ToBase + ofree) .. (ToBase + ofree' - 1) : \E f \in SrcUsed : NowCopy(w, f)
  BY <1>1, SrcBounds DEF Effect
<1>4. ASSUME NEW w \in Live'
      PROVE  \E f \in Live : orig'[w] = orig[f] /\ known'[w] = known[f]
  <2>1. CASE w \in Live
    BY <1>3, <2>1 DEF Live
  <2>2. CASE w \notin Live
    <3>1. w \in ToBase .. (ToBase + ofree' - 1) /\ w \notin ToBase .. (ToBase + ofree - 1)
      BY <1>2, <2>2 DEF Live, ToUsed
    <3>2. w \in (ToBase + ofree) .. (ToBase + ofree' - 1)
      BY <1>3, <3>1
    <3> QED BY <1>3, <3>2 DEF NowCopy, Live
  <2> QED BY <2>1, <2>2
<1>5. ASSUME NEW w \in Live'
      PROVE  \E f \in Live : /\ orig'[w] = orig[f] /\ known'[w] = known[f]
                             /\ Name(w)' = Name(f)
  BY <1>4 DEF Name
<1>6. \A w \in Live' : Name(w)'[1] <= count'
  BY <1>1, <1>5 DEF NameInv
<1>7. ASSUME NEW v \in Live', NEW w \in Live', Name(v)' = Name(w)' PROVE orig'[v] = orig'[w]
  BY <1>1, <1>5, <1>7 DEF NameInv
<1>8. seen'.root = RootsShown(name', kroot', sroot')
  BY <1>1 DEF Showed
<1>9. seen'.heap = [f \in DOMAIN seen'.heap |-> seen'.heap[f]]
  BY <1>1 DEF Showed
<1>10. ASSUME NEW w \in Live'
       PROVE  /\ Name(w)' \in DOMAIN seen'.heap
              /\ seen'.heap[Name(w)']
                   = IF known'[w] THEN Meant(name', snap'[orig'[w]]) ELSE Unknown
  <2>1. PICK f \in Live : /\ orig'[w] = orig[f] /\ known'[w] = known[f]
                          /\ Name(w)' = Name(f)
    BY <1>5
  <2>2. /\ Name(f) \in DOMAIN seen.heap
        /\ seen.heap[Name(f)] = IF known[f] THEN Meant(name, snap[orig[f]]) ELSE Unknown
    BY <1>1 DEF Showed
  <2> QED BY <2>1, <2>2
<1>11. Showed'
  BY <1>8, <1>9, <1>10 DEF Showed
<1> QED BY <1>6, <1>7, <1>11


(* The copy of an object is numbered the way the object is.                *)
LEMMA CopyNumbered ==
    ASSUME VInv, stage # "none", NEW cap \in Cap \cup {Null}, CanMove(cap),
           GC_copy_object(ObjectCap(cap))
    PROVE  Numbered(name, orig', tobitmap', ToBase)
<1>1. IInv /\ TypeOK /\ NameInv /\ RegionInv /\ BitmapMatchesFree
  BY DEF VInv, SInv, IInv, GraphInv
<1>2. PICK p \in Nat, n \in 1 .. FromWords : Visits(cap, p, n)
  BY <1>1, VisitedObject DEF CanMove
<1>3. PICK l, m : l = ObjectCap(cap).len /\ m = CopiedMem(ObjectCap(cap))
  OBVIOUS
<1>4. Returns(p, m) \/ Copies(p, n, l, m)
  BY <1>1, <1>2, <1>3, CopyObject
<1>5. /\ tobitmap.map \subseteq Nat /\ tobitmap.used = ofree /\ ofree \in Nat /\ ToBase \in Nat
      /\ BitBelow(tobitmap) /\ Numbered(name, orig, tobitmap, ToBase)
      /\ SrcBase \in Nat /\ SrcBitmap.map \subseteq Nat /\ SrcBitmap.used \in Nat
      /\ \A w \in ToUsed : w \in Words
  BY <1>1, SrcBounds DEF NameInv, RegionInv
<1>6. CASE Returns(p, m)
  BY <1>5, <1>6 DEF Returns
<1>7. CASE Copies(p, n, l, m)
  <2>1. /\ tobitmap' = GC_bitmap_allocate(tobitmap, n)
        /\ \A i \in 0 .. (n - 1) : orig'[ToBase + ofree + i] = orig[FromBase + p + i]
        /\ \A w \in Words : w < ToBase + ofree \/ ToBase + ofree + n <= w => orig'[w] = orig[w]
    BY <1>7 DEF Copies, CopiedTo
  <2>2. /\ IsObject(SrcBitmap, p, n) /\ SrcBase = FromBase /\ n \in Nat \ {0}
        /\ p \in SrcBitmap.map /\ n \in 1 .. SrcBitmap.used
    <3>1. IsObject(SrcBitmap, p, n) /\ SrcBase = FromBase
      BY <1>1, <1>2, SrcIsFrom DEF Visits
    <3> QED BY <1>5, <3>1 DEF IsObject
  <2>3. \A i \in 0 .. (n - 1) : name[orig[FromBase + p + i]] = <<name[orig[FromBase + p]][1], i>>
    BY <1>1, <2>2 DEF NameInv, Numbered
  <2>4. \A w \in ToBase .. (ToBase + tobitmap.used - 1) : name[orig'[w]] = name[orig[w]]
    <3> SUFFICES ASSUME NEW w \in ToBase .. (ToBase + tobitmap.used - 1)
                 PROVE  orig'[w] = orig[w]
      OBVIOUS
    <3>1. w \in ToUsed /\ w < ToBase + ofree
      BY <1>5 DEF ToUsed
    <3> QED BY <1>5, <2>1, <3>1
  <2>5. orig'[ToBase + ofree] = orig[FromBase + p]
    <3>1. /\ 0 \in 0 .. (n - 1) /\ ToBase + ofree + 0 = ToBase + ofree
          /\ FromBase + p + 0 = FromBase + p
      BY <1>5, <2>2
    <3> QED BY <2>1, <3>1
  <2>6. \A i \in 0 .. (n - 1) :
           name[orig'[ToBase + tobitmap.used + i]]
             = <<name[orig'[ToBase + tobitmap.used]][1], i>>
    BY <1>5, <2>1, <2>3, <2>5
  <2>7. Numbered(name, orig', GC_bitmap_allocate(tobitmap, n), ToBase)
    BY <1>5, <2>2, <2>4, <2>6, NumberedGrows
  <2> QED BY <2>1, <2>7
<1> QED BY <1>4, <1>6, <1>7

(* The collector visits a word.                                            *)
LEMMA VisitView ==
    ASSUME VInv, stage # "none", SameSpaces, NEW X, Effect(X), Observe, yfree' = yfree,
           pc' \notin {"run", "retry", "memcpy"}, UNCHANGED <<snap, sroot, kroot>>,
           Numbered(name, orig', tobitmap', ToBase)
    PROVE  NameInv' /\ SeenInv' /\ HeapStep
<1>1. IInv /\ TypeOK /\ NameInv /\ BitmapMatchesFree
  BY DEF VInv, SInv, IInv
<1>2. /\ SrcBase' = SrcBase /\ SrcBitmap' = SrcBitmap /\ SrcUsed' = SrcUsed
      /\ ToBase' = ToBase /\ stage' = stage
  BY SrcKept
<1>3. UNCHANGED <<name, count>>
  BY <1>1, <1>2, NamesStay DEF TypeOK
<1>4. seen' = seen
  BY DEF Observe
<1>5. /\ Showed'
      /\ \A w \in Live' : Name(w)'[1] <= count'
      /\ \A v, w \in Live' : Name(v)' = Name(w)' => orig'[v] = orig'[w]
  BY <1>3, <1>4, EffectShowed
<1>6. Numbered(name, orig', SrcBitmap, SrcBase)
  <2>1. /\ SrcBitmap.map \subseteq Nat /\ SrcBitmap.used \in Nat /\ SrcBase \in Nat
        /\ Numbered(name, orig, SrcBitmap, SrcBase)
    BY <1>1, SrcBounds DEF NameInv
  <2>2. \A w \in SrcBase .. (SrcBase + SrcBitmap.used - 1) : name[orig'[w]] = name[orig[w]]
    BY DEF Effect, SrcUsed
  <2> QED BY <2>1, <2>2, NumberedKept
<1>7. NameInv'
  BY <1>1, <1>2, <1>3, <1>5, <1>6 DEF NameInv
<1>8. SeenInv'
  BY <1>5 DEF SeenInv
<1> QED BY <1>3, <1>4, <1>7, <1>8, HeapStutters

(* GC_copy_child on a word x.                                              *)
LEMMA ChildView ==
    ASSUME VInv, stage # "none", SameSpaces, NEW x \in OldSpace(to), GC_copy_child(x),
           mem[x] = Null \/ x \in ToUsed, Observe, yfree' = yfree,
           pc' \notin {"run", "retry", "memcpy"}, UNCHANGED <<snap, sroot, kroot>>
    PROVE  NameInv' /\ SeenInv' /\ HeapStep
<1>1. IInv /\ TypeOK /\ NameInv /\ RegionInv /\ BitmapMatchesFree
  BY DEF VInv, SInv, IInv, GraphInv
<1>2. x \in Words /\ mem[x] \in Cap \cup {Null}
  BY <1>1, Bounds DEF TypeOK
<1>3. CASE Skipped(mem[x]) /\ UNCHANGED <<mem, ofree, tobitmap, known, orig>>
  <2>1. Effect({})
    BY <1>1, <1>3, SkipEffect
  <2>2. Numbered(name, orig', tobitmap', ToBase)
    BY <1>1, <1>3 DEF NameInv
  <2> QED BY <2>1, <2>2, VisitView
<1>4. CASE /\ CanMove(mem[x])
           /\ mem' = [CopiedMem(ObjectCap(mem[x])) EXCEPT ![x] = Moved(mem[x])]
           /\ GC_copy_object(ObjectCap(mem[x]))
  <2>1. {x} \in SUBSET ToUsed
    BY <1>4 DEF CanMove, Skipped, InFromspace, GC_IN
  <2>2. PICK cap, u : cap = mem[x] /\ u = Moved(cap)
    OBVIOUS
  <2>3. PICK m : m = CopiedMem(ObjectCap(cap))
    OBVIOUS
  <2>4. m \in [Words -> Cap \cup {Null}] /\ mem' = [m EXCEPT ![x] = u]
    BY <1>1, <1>2, <1>4, <2>2, <2>3, CopyTypes
  <2>5. \A w \in Words : w \notin {x} => mem'[w] = m[w]
    BY <1>2, <2>4
  <2>6. Effect({x})
    BY <1>1, <1>2, <1>4, <2>1, <2>2, <2>3, <2>5, CopyEffect
  <2>7. Numbered(name, orig', tobitmap', ToBase)
    BY <1>2, <1>4, CopyNumbered
  <2> QED BY <2>6, <2>7, VisitView
<1> QED BY <1>3, <1>4 DEF GC_copy_child

LEMMA RootsView ==
    ASSUME VInv, SInv', GraphInv', Observe, GC_copy_roots
    PROVE  NameInv' /\ SeenInv' /\ HeapStep
<1>1. /\ IInv /\ TypeOK /\ BitmapMatchesFree /\ NameInv /\ RegionInv
      /\ stage # "none" /\ index \in Roots /\ root \in [Roots -> Cap \cup {Null}]
  BY DEF VInv, SInv, IInv, ControlInv, GraphInv, TypeOK, GC_copy_roots
<1>2. /\ SameSpaces /\ UNCHANGED <<snap, sroot, kroot, yfree>>
      /\ pc' \in {"roots", "remset", "children"}
  BY DEF SameSpaces, GC_copy_roots
<1>3. PICK cap \in Cap \cup {Null} : cap = root[index]
  BY <1>1
<1>4. Effect({}) /\ Numbered(name, orig', tobitmap', ToBase)
  <2>1. CASE Skipped(cap) /\ UNCHANGED <<mem, root, ofree, tobitmap, known, orig>>
    BY <1>1, <2>1, SkipEffect DEF NameInv
  <2>2. CASE CanMove(cap) /\ mem' = CopiedMem(ObjectCap(cap)) /\ GC_copy_object(ObjectCap(cap))
    <3>1. Effect({})
      BY <1>1, <1>2, <2>2, CopyEffect
    <3> QED BY <1>1, <2>2, <3>1, CopyNumbered
  <2> QED BY <1>3, <2>1, <2>2 DEF GC_copy_roots
<1> QED BY <1>1, <1>2, <1>4, VisitView

LEMMA RemsetView ==
    ASSUME VInv, SInv', GraphInv', Observe, GC_copy_remembered_set
    PROVE  NameInv' /\ SeenInv' /\ HeapStep
<1>1. /\ IInv /\ TypeOK /\ BitmapMatchesFree /\ NameInv /\ RegionInv /\ RememberedInv
      /\ stage # "none" /\ index \in Nat /\ index >= 1 /\ remset \in Seq(OldSpace(to))
  BY DEF VInv, SInv, IInv, ControlInv, GraphInv, TypeOK, GC_copy_remembered_set
<1>2. /\ SameSpaces /\ UNCHANGED <<snap, sroot, kroot, yfree>>
      /\ pc' \in {"remset", "children"}
  BY DEF SameSpaces, GC_copy_remembered_set
<1>3. CASE index <= Len(remset) /\ GC_copy_child(remset[index])
  <2>1. PICK x : x = remset[index]
    OBVIOUS
  <2>2. x \in OldSpace(to) /\ index \in DOMAIN remset
    BY <1>1, <1>3, <2>1
  <2>3. mem[x] = Null \/ x \in ToUsed
    <3>1. OldSpace(to) = ToBase .. (ToBase + OldWords - 1) /\ ToBase \in Nat /\ ofree \in Nat
      BY <1>1, Bounds
    <3>2. x < ToBase + ofree \/ mem[x] = Null
      BY <1>1, <2>1, <2>2 DEF RememberedInv
    <3> QED BY <2>2, <3>1, <3>2 DEF ToUsed
  <2> QED BY <1>1, <1>2, <1>3, <2>1, <2>2, <2>3, ChildView
<1>4. CASE UNCHANGED <<mem, ofree, tobitmap, known, orig>>
  <2>1. Effect({}) /\ Numbered(name, orig', tobitmap', ToBase)
    BY <1>1, <1>4, SkipEffect DEF NameInv
  <2> QED BY <1>1, <1>2, <2>1, VisitView
<1> QED BY <1>3, <1>4 DEF GC_copy_remembered_set

LEMMA ChildrenView ==
    ASSUME VInv, SInv', GraphInv', Observe, GC_copy_children
    PROVE  NameInv' /\ SeenInv' /\ HeapStep
<1>1. /\ IInv /\ TypeOK /\ BitmapMatchesFree /\ stage # "none" /\ pc = "children"
      /\ oscan \in Nat /\ oscan < ofree /\ ofree \in Nat
  BY ConstantsAssumption DEF VInv, SInv, IInv, ControlInv, TypeOK, GC_copy_children
<1>2. SameSpaces /\ UNCHANGED <<snap, sroot, kroot, yfree, pc>>
  BY DEF SameSpaces, GC_copy_children, ctlVars
<1>3. /\ ToBase \in Nat /\ OldWords \in Nat /\ ofree <= OldWords
      /\ OldSpace(to) = ToBase .. (ToBase + OldWords - 1)
  BY <1>1, Bounds
<1>4. PICK x : x = ToBase + oscan
  OBVIOUS
<1>5. x \in OldSpace(to) /\ x \in ToUsed
  BY <1>1, <1>3, <1>4 DEF ToUsed
<1>6. GC_copy_child(x)
  BY <1>4 DEF GC_copy_children
<1> QED BY <1>1, <1>2, <1>5, <1>6, ChildView

(* GC_cap_memcpy ends the program.                                         *)
LEMMA FatalView ==
    ASSUME VInv, SInv', GraphInv', Observe, GC_fatalf
    PROVE  NameInv' /\ SeenInv' /\ HeapStep
<1>1. IInv /\ TypeOK /\ NameInv /\ BitmapMatchesFree
  BY DEF VInv, SInv, IInv
<1>2. stage # "none"
  <2>1. Visited # Null
    BY DEF GC_fatalf, IsMisaligned, Skipped, InFromspace, GC_IN
  <2>2. pc \in {"roots", "remset", "children"}
    BY <2>1 DEF Visited
  <2> QED BY <1>1, <2>2 DEF IInv, ControlInv
<1>3. /\ UNCHANGED <<gcVars, stage, orig, mem, known, kroot, snap, sroot>> /\ pc' = "fatal"
  BY DEF GC_fatalf, histVars
<1>4. yfree' = yfree /\ yfree \in Nat
  BY <1>1, <1>3 DEF gcVars, TypeOK
<1>5. UNCHANGED <<name, count>> /\ seen' = seen
  BY <1>1, <1>2, <1>3, <1>4, NamesStay DEF Observe
<1>6. NameInv' /\ Live' = Live
  BY <1>1, <1>3, <1>5, NamesKept
<1>7. Showed
  BY <1>2 DEF VInv, SeenInv
<1>8. Showed'
  BY <1>3, <1>5, <1>6, <1>7 DEF Showed, Name
<1>9. SeenInv'
  BY <1>3, <1>8 DEF SeenInv
<1> QED BY <1>5, <1>6, <1>9, HeapStutters

-----------------------------------------------------------------------------
(* The end of a copy.                                                      *)

LEMMA EmptyRange == ASSUME NEW b \in Nat PROVE b .. (b + 0 - 1) = {}
OBVIOUS

(* A major collection begins: what is in the tospace is what there is.     *)
LEMMA BeginMajorView ==
    ASSUME VInv, Observe, CopyDone, NEW why \in {"force", "watermark"}, BeginMajor(why),
           yfree' \in Nat, yfree' <= yfree, UNCHANGED kroot
    PROVE  NameInv' /\ SeenInv' /\ HeapStep
<1>1. IInv /\ TypeOK /\ NameInv /\ BitmapMatchesFree /\ RegionInv /\ stage # "none" /\ to \in {0, 1}
  BY DEF VInv, SInv, IInv, GraphInv, ControlInv, CopyDone, TypeOK
<1>2. /\ stage' = why /\ pc' = "roots" /\ to' = 1 - to /\ ofree' = 0
      /\ frombitmap' = tobitmap /\ tobitmap' = GC_bitmap_clr(frombitmap)
      /\ UNCHANGED <<known, snap, sroot, orig>>
  BY DEF BeginMajor
<1>3. UNCHANGED <<name, count>> /\ seen' = seen
  BY <1>1, <1>2, NamesStay DEF Observe
<1>4. tobitmap'.map = {}
  BY <1>1, <1>2, ClrEmpty, ConstantsAssumption DEF RegionInv, TypeOK
<1>5. SrcBitmap' = tobitmap /\ SrcBase' = ToBase /\ Live' = ToUsed
  <2>1. 1 - (1 - to) = to /\ 1 - to \in {0, 1}
    BY <1>1
  <2>2. SrcBitmap' = tobitmap /\ SrcBase' = ToBase
    BY <1>2, <2>1 DEF SrcBitmap, SrcBase, ToBase
  <2>3. ToBase' \in Nat
    BY <1>2, <2>1, SpacesInMemory DEF ToBase
  <2>4. SrcUsed' = ToUsed
    BY <1>1, <2>2 DEF SrcUsed, ToUsed, BitmapMatchesFree
  <2>5. ToUsed' = {}
    <3>1. PICK b \in Nat : b = ToBase'
      BY <2>3
    <3>2. ToUsed' = b .. (b + 0 - 1)
      BY <1>2, <3>1 DEF ToUsed
    <3> QED BY <3>2, EmptyRange
  <2> QED BY <2>2, <2>4, <2>5 DEF Live
<1>6. Numbered(name', orig', tobitmap', ToBase')
  BY <1>4, NumberedEmpty
<1>7. NameInv'
  BY <1>1, <1>2, <1>3, <1>5, <1>6 DEF NameInv, Name, Live
<1>8. Showed
  BY <1>1 DEF VInv, SeenInv
<1>9. Showed'
  BY <1>2, <1>3, <1>5, <1>8 DEF Showed, Name, Live
<1>10. SeenInv'
  BY <1>2, <1>9 DEF SeenInv
<1> QED BY <1>3, <1>7, <1>10, HeapStutters

(* At the end of the collection the copies take the names over.            *)
LEMMA EndNames ==
    ASSUME VInv, Observe, CopyDone, EndCollection, yfree' = 0, ybitmap'.map = {},
           ybitmap'.used = 0
    PROVE  /\ NameInv' /\ count' = count /\ Live' = ToUsed /\ ToUsed' = ToUsed
           /\ \A w \in ToUsed : name'[w] = Name(w) /\ known'[w] = known[w] /\ w \in Words
<1>1. /\ IInv /\ TypeOK /\ NameInv /\ BitmapMatchesFree /\ stage # "none" /\ CopyInv
      /\ yfree \in Nat
  BY DEF VInv, SInv, IInv, GraphInv, ControlInv, CopyDone, TypeOK
<1>2. /\ stage' = "none" /\ UNCHANGED <<to, ofree, tobitmap>>
      /\ known' = [w \in Words |-> w \in ToUsed /\ known[w]]
      /\ orig' = [w \in Words |-> w]
  BY DEF EndCollection, ToUsed
<1>3. count' = count /\ name' = [w \in Words |-> name[orig[w]]]
  BY <1>1, <1>2 DEF Observe, NameObject, KeepNames
<1>4. /\ tobitmap.map \subseteq Nat /\ tobitmap.used \in Nat /\ tobitmap.used = ofree
      /\ ToBase \in Nat /\ \A w \in ToUsed : w \in Words
  BY <1>1, SrcBounds
<1>5. /\ SrcBitmap' = ybitmap' /\ SrcUsed' = {}
      /\ ToBase' = ToBase /\ ToUsed' = ToUsed
  BY <1>2 DEF SrcBase, SrcBitmap, SrcUsed, YoungBase, ToBase, ToUsed
<1>6. Live' = ToUsed
  BY <1>5 DEF Live
<1>7. ASSUME NEW w \in ToUsed
      PROVE  name'[w] = Name(w) /\ known'[w] = known[w] /\ w \in Words /\ orig'[w] = w
  <2>1. w \in Words /\ known[w] \in BOOLEAN
    BY <1>1, <1>4 DEF TypeOK
  <2> QED BY <1>2, <1>3, <2>1 DEF Name
<1>8. \A w \in ToUsed : Name(w)' = Name(w)
  BY <1>7 DEF Name
<1>9. name' \in [Words -> Nat \X Nat]
  BY <1>1, <1>3 DEF NameInv, TypeOK
<1>10. \A w \in Live' : Name(w)'[1] <= count'
  BY <1>1, <1>3, <1>6, <1>8 DEF NameInv, Live
<1>11. ASSUME NEW v \in Live', NEW w \in Live', Name(v)' = Name(w)' PROVE orig'[v] = orig'[w]
  <2>1. v \in ToUsed /\ w \in ToUsed /\ Name(v) = Name(w)
    BY <1>6, <1>8, <1>11
  <2>2. orig[v] = orig[w]
    BY <1>1, <2>1 DEF NameInv, Live
  <2>3. v = w
    BY <1>1, <2>1, <2>2 DEF CopyInv, Injective
  <2> QED BY <2>3
<1>12. Numbered(name', orig', tobitmap', ToBase')
  <2>1. \A w \in ToBase .. (ToBase + tobitmap.used - 1) : name'[orig'[w]] = name[orig[w]]
    BY <1>4, <1>7 DEF ToUsed, Name
  <2>2. Numbered(name, orig, tobitmap, ToBase)
    BY <1>1 DEF NameInv
  <2>3. Numbered(name', orig', tobitmap, ToBase)
    BY <1>4, <2>1, <2>2, NumberedKept
  <2> QED BY <1>2, <1>5, <2>3
<1>13. Numbered(name', orig', SrcBitmap', SrcBase')
  BY <1>5, NumberedEmpty
<1>14. NameInv'
  BY <1>1, <1>3, <1>9, <1>10, <1>11, <1>12, <1>13 DEF NameInv
<1> QED BY <1>3, <1>5, <1>6, <1>7, <1>14

(* What the program sees of a pointer to an object that has moved.         *)
LEMMA MeantAgain ==
    ASSUME IInv, \A w \in ToUsed : name'[w] = Name(w),
           NEW c, c = Null \/ InTo(c), NEW v, Means(c, v, orig)
    PROVE  Meant(name', c) = Meant(name, v)
<1>1. CASE v = Null
  BY <1>1 DEF Means, Meant
<1>2. CASE v # Null
  <2>1. /\ c # Null /\ orig[WordOf(c)] = WordOf(v) /\ AlignWords(c.len) = AlignWords(v.len)
        /\ c.base % WordBytes = v.base % WordBytes
    BY <1>2 DEF Means
  <2>2. WordOf(c) \in ToUsed
    BY <2>1, SoundFacts DEF Sound
  <2>3. name'[WordOf(c)] = name[WordOf(v)]
    BY <2>1, <2>2 DEF Name
  <2> QED BY <1>2, <2>1, <2>3 DEF Meant
<1> QED BY <1>1, <1>2

(* What the program can reach is there.                                    *)
Closed ==
    /\ \A r \in Roots : Heap!IsPointer(seen.root[r]) =>
          \A f \in Heap!Fields(seen.root[r]) : f \in DOMAIN seen.heap
    /\ \A g \in DOMAIN seen.heap : Heap!IsPointer(seen.heap[g]) =>
          \A f \in Heap!Fields(seen.heap[g]) : f \in DOMAIN seen.heap

LEMMA ShowsClosed ==
    ASSUME SInv, GraphInv, NameInv, stage = "none", Shows
    PROVE  Closed
<1> DEFINE D == {name[w] : w \in Live}
<1>1. /\ DOMAIN seen.heap = D
      /\ \A w \in Live : seen.heap[name[w]] = IF known[w] THEN Meant(name, mem[w]) ELSE Unknown
      /\ \A r \in Roots : seen.root[r] = IF kroot[r] THEN Meant(name, root[r]) ELSE Unknown
  BY DEF Shows, HeapShown, RootsShown
<1>2. ASSUME NEW c, Sound(c), Heap!IsPointer(Meant(name, c)), NEW f \in Heap!Fields(Meant(name, c))
      PROVE  f \in D
  <2>1. c # Null
    BY <1>2, Values DEF Heap!IsPointer
  <2>2. PointerFields(c)
    BY <1>2, <2>1, FieldNames
  <2> QED BY <1>2, <2>2 DEF PointerFields
<1> HIDE DEF D
<1>3. ASSUME NEW r \in Roots, Heap!IsPointer(seen.root[r]), NEW f \in Heap!Fields(seen.root[r])
      PROVE  f \in DOMAIN seen.heap
  <2>1. kroot[r] /\ seen.root[r] = Meant(name, root[r])
    BY <1>1, <1>3 DEF Heap!IsPointer
  <2>2. Sound(root[r])
    BY <2>1 DEF GraphInv, RootInv, Good
  <2> QED BY <1>1, <1>2, <1>3, <2>1, <2>2
<1>4. ASSUME NEW g \in DOMAIN seen.heap, Heap!IsPointer(seen.heap[g]),
             NEW f \in Heap!Fields(seen.heap[g])
      PROVE  f \in DOMAIN seen.heap
  <2>1. PICK w \in Live : g = name[w]
    BY <1>1 DEF D
  <2>2. known[w] /\ seen.heap[g] = Meant(name, mem[w])
    BY <1>1, <1>4, <2>1 DEF Heap!IsPointer
  <2>3. Sound(mem[w])
    BY <2>2, KnownSound DEF Live, SInv
  <2> QED BY <1>1, <1>2, <1>4, <2>2, <2>3
<1> QED BY <1>3, <1>4 DEF Closed

(* The program sees again what it saw before, but for what it cannot reach.*)
LEMMA EndView ==
    ASSUME VInv, SInv', GraphInv', Observe, CopyDone, EndCollection, yfree' = 0,
           ybitmap'.map = {}, ybitmap'.used = 0, UNCHANGED <<mem, root, kroot>>
    PROVE  NameInv' /\ SeenInv' /\ HeapStep
<1>1. /\ IInv /\ TypeOK /\ stage # "none" /\ oscan = ofree /\ pc = "children" /\ remset = <<>>
      /\ RootInv /\ ToInv /\ Showed /\ ToBase \in Nat /\ ofree \in Nat
  <2>1. IInv /\ TypeOK /\ BitmapMatchesFree
    BY DEF VInv, SInv, IInv
  <2>2. stage # "none" /\ oscan = ofree /\ pc = "children" /\ remset = <<>>
    BY <2>1 DEF IInv, ControlInv, CopyDone
  <2>3. RootInv /\ ToInv /\ Showed
    BY <2>2 DEF VInv, GraphInv, SeenInv
  <2> QED BY <2>1, <2>2, <2>3, SrcBounds
<1>2. /\ NameInv' /\ count' = count /\ Live' = ToUsed /\ ToUsed' = ToUsed
      /\ \A w \in ToUsed : name'[w] = Name(w) /\ known'[w] = known[w] /\ w \in Words
  BY EndNames
<1>3. pc' \in {"run", "retry"} /\ stage' = "none"
  BY DEF EndCollection
<1>4. Shows' /\ SeenInv'
  BY <1>2, <1>3, SeesAgain
<1>5. Closed'
  <2>1. (SInv /\ GraphInv /\ NameInv /\ stage = "none" /\ Shows => Closed)'
    BY ShowsClosed, PTL
  <2> QED BY <1>2, <1>3, <1>4, <2>1
<1>6. ASSUME NEW r \in Roots, kroot[r]
      PROVE  Meant(name', root[r]) = Meant(name, sroot[r])
  <2>1. (root[r] = Null \/ InTo(root[r])) /\ Means(root[r], sroot[r], orig)
    BY <1>1, <1>6 DEF RootInv, Good, Sound
  <2> QED BY <1>1, <1>2, <2>1, MeantAgain
<1>7. ASSUME NEW w \in ToUsed, known[w]
      PROVE  Meant(name', mem[w]) = Meant(name, snap[orig[w]])
  <2>1. ~Unscanned(w)
    BY <1>1 DEF Unscanned, ToUsed
  <2>2. (mem[w] = Null \/ InTo(mem[w])) /\ Means(mem[w], snap[orig[w]], orig)
    BY <1>1, <1>7, <2>1 DEF ToInv, Good, Sound
  <2> QED BY <1>1, <1>2, <2>2, MeantAgain
<1>8. seen'.root = seen.root
  <2>1. seen.root = [r \in Roots |-> IF kroot[r] THEN Meant(name, sroot[r]) ELSE Unknown]
    BY <1>1 DEF Showed, RootsShown
  <2>2. seen'.root = [r \in Roots |-> IF kroot[r] THEN Meant(name', root[r]) ELSE Unknown]
    BY <1>4 DEF Shows, RootsShown
  <2> QED BY <1>6, <2>1, <2>2
<1> DEFINE K == {Name(w) : w \in ToUsed}
           S == DOMAIN seen.heap \ K
<1>9. /\ \A w \in ToUsed : Name(w) \in DOMAIN seen.heap /\ Name(w) \in K
      /\ \A w \in ToUsed : seen.heap[Name(w)]
                             = IF known[w] THEN Meant(name, snap[orig[w]]) ELSE Unknown
  BY <1>1 DEF Showed, Live
<1>10. {name'[w] : w \in ToUsed} = K
  BY <1>2
<1>11. seen'.heap = [f \in K |-> seen'.heap[f]]
  BY <1>2, <1>4, <1>10 DEF Shows, HeapShown
<1>12. ASSUME NEW w \in ToUsed PROVE seen'.heap[Name(w)] = seen.heap[Name(w)]
  <2>1. seen'.heap[name'[w]] = IF known'[w] THEN Meant(name', mem'[w]) ELSE Unknown
    BY <1>2, <1>4 DEF Shows, HeapShown
  <2>2. seen'.heap[Name(w)] = IF known[w] THEN Meant(name', mem[w]) ELSE Unknown
    BY <1>2, <2>1
  <2> QED BY <1>7, <1>9, <2>2
<1>13. \A f \in K : f \in DOMAIN seen.heap /\ seen'.heap[f] = seen.heap[f]
  BY <1>9, <1>12
<1> HIDE DEF K
<1>14. DOMAIN seen.heap \ S = K
  BY <1>13
<1>15. DOMAIN seen'.heap = K
  BY <1>11
<1>16. seen'.heap = [f \in K |-> seen.heap[f]]
  BY <1>11, <1>13
<1>17. ASSUME NEW r \in Roots, Heap!IsPointer(seen.root[r])
       PROVE  Heap!Fields(seen.root[r]) \cap S = {}
  <2>1. \A f \in Heap!Fields(seen.root[r]) : f \in K
    BY <1>5, <1>8, <1>15, <1>17 DEF Closed
  <2> QED BY <2>1
<1>18. ASSUME NEW g \in K, Heap!IsPointer(seen.heap[g])
       PROVE  Heap!Fields(seen.heap[g]) \cap S = {}
  <2>1. g \in DOMAIN seen'.heap /\ seen'.heap[g] = seen.heap[g]
    BY <1>13, <1>15
  <2>2. \A f \in Heap!Fields(seen.heap[g]) : f \in K
    BY <1>5, <1>15, <1>18, <2>1 DEF Closed
  <2> QED BY <2>2
<1>19. S \in SUBSET DOMAIN seen.heap
  OBVIOUS
<1> HIDE DEF S
<1>20. Heap!Collect(S)
  BY <1>2, <1>8, <1>14, <1>16, <1>17, <1>18 DEF Heap!Collect, Heap!Roots, Roots
<1>21. Heap!Next
  BY <1>19, <1>20 DEF Heap!Next
<1>22. HeapStep
  BY <1>19, <1>20, <1>21 DEF HeapStep
<1> QED BY <1>2, <1>4, <1>22

(* The rest of GC_gen_promote, and the end of a major collection.          *)
LEMMA DoneView ==
    ASSUME VInv, SInv', GraphInv', Observe, PromotionDone \/ MajorDone
    PROVE  NameInv' /\ SeenInv' /\ HeapStep
<1>1. /\ CopyDone /\ UNCHANGED <<mem, root, kroot>>
      /\ EndCollection \/ \E why \in {"force", "watermark"} : BeginMajor(why)
  BY DEF PromotionDone, MajorDone
<1>2. /\ ybitmap \in Bitmaps(YoungWords) /\ YoungWords \in Nat /\ ybitmap.used = yfree
      /\ yfree \in Nat /\ BitBelow(ybitmap) /\ ybitmap.map \subseteq Nat /\ RegionInv
  <2>1. ybitmap \in Bitmaps(YoungWords) /\ YoungWords \in Nat /\ ybitmap.used = yfree
        /\ yfree \in Nat
    BY ConstantsAssumption DEF VInv, SInv, IInv, TypeOK, BitmapMatchesFree
  <2>2. ybitmap.map \subseteq Nat
    BY <2>1 DEF Bitmaps
  <2> QED BY <2>1, <2>2 DEF VInv, GraphInv, RegionInv
<1>3. yfree' = 0 /\ ybitmap'.map = {} /\ ybitmap'.used = 0
  <2>1. CASE PromotionDone
    <3>1. yfree' = 0 /\ ybitmap' = GC_bitmap_clr(ybitmap)
      BY <2>1 DEF PromotionDone
    <3> QED BY <1>2, <3>1, ClrEmpty
  <2>2. CASE MajorDone
    <3>1. yfree' = yfree /\ ybitmap' = ybitmap /\ yfree = 0
      BY <1>2, <2>2 DEF MajorDone, RegionInv
    <3> QED BY <1>2, <3>1 DEF BitBelow
  <2> QED BY <2>1, <2>2
<1>4. CASE EndCollection
  BY <1>1, <1>3, <1>4, EndView
<1>5. ASSUME NEW why \in {"force", "watermark"}, BeginMajor(why)
      PROVE  NameInv' /\ SeenInv' /\ HeapStep
  <2>1. yfree' \in Nat /\ yfree' <= yfree /\ UNCHANGED kroot
    BY <1>1, <1>2, <1>3
  <2> QED BY <1>1, <1>5, <2>1, BeginMajorView
<1> QED BY <1>1, <1>4, <1>5

-----------------------------------------------------------------------------
(* The refinement.                                                         *)

LEMMA InitView ==
    ASSUME SeenInit
    PROVE  VInv /\ Heap!Init
<1>1. /\ Init /\ stage = "none" /\ pc = "run" /\ seen = Sight
      /\ name = [w \in Words |-> <<0, 0>>] /\ count = 0
  BY DEF SeenInit, Init
<1>2. SInv /\ GraphInv /\ IInv
  BY <1>1, InitIInv, InitGraph DEF SInv, CopyInv, Init
<1>3. /\ ybitmap.map = {} /\ ybitmap.used = 0 /\ tobitmap.map = {} /\ ofree = 0
      /\ SrcBitmap = ybitmap
  BY <1>1 DEF Init, GC_init_bitmap, SrcBitmap
<1>4. Live = {}
  <2>1. SrcBase = 0 /\ to = 0
    BY <1>1 DEF Init, SrcBase, YoungBase
  <2>2. ToBase \in Nat
    BY <2>1, SpacesInMemory DEF ToBase
  <2>3. SrcUsed = {} /\ ToUsed = {}
    BY <1>3, <2>1, <2>2 DEF SrcUsed, ToUsed
  <2> QED BY <2>3 DEF Live
<1>5. Numbered(name, orig, tobitmap, ToBase) /\ Numbered(name, orig, SrcBitmap, SrcBase)
  BY <1>3, NumberedEmpty
<1>6. NameInv
  BY <1>1, <1>4, <1>5 DEF NameInv
<1>7. Shows
  BY <1>1, <1>2, <1>6, SightShows
<1>8. VInv
  BY <1>1, <1>2, <1>6, <1>7 DEF VInv, SeenInv
<1>9. seen.root = [r \in Roots |-> Null]
  <2>1. kroot = [r \in Roots |-> TRUE] /\ root = [r \in Roots |-> Null]
    BY <1>1 DEF Init
  <2>2. seen.root = [r \in Roots |-> IF kroot[r] THEN Meant(name, root[r]) ELSE Unknown]
    BY <1>7 DEF Shows, RootsShown
  <2> QED BY <2>1, <2>2, Values
<1>10. seen.heap = [f \in {} |-> Unknown]
  <2>1. seen.heap = [f \in {name[w] : w \in Live} |-> seen.heap[f]]
    BY <1>7 DEF Shows, HeapShown
  <2>2. {name[w] : w \in Live} = {}
    BY <1>4
  <2>3. [f \in {} |-> seen.heap[f]] = [f \in {} |-> Unknown]
    OBVIOUS
  <2> QED BY <2>1, <2>2, <2>3
<1> QED BY <1>1, <1>8, <1>9, <1>10 DEF Heap!Init, Heap!Roots, Roots

(* Nothing happens.                                                        *)
LEMMA StillView ==
    ASSUME VInv, UNCHANGED seenVars
    PROVE  NameInv' /\ SeenInv' /\ HeapStep
<1>1. /\ UNCHANGED <<gcVars, stage, orig, name, count, seen, pc, kroot, root, known, mem>>
      /\ UNCHANGED <<sroot, snap, copying, index>>
  BY DEF seenVars, vars, ctlVars, histVars
<1>2. NameInv' /\ Live' = Live
  BY <1>1, NamesKept DEF VInv
<1>3. SeenInv
  BY DEF VInv
<1>4. Shows => Shows'
  BY <1>1, <1>2 DEF Shows
<1>5. Showed => Showed'
  BY <1>1, <1>2 DEF Showed, Name
<1>6. ShowsCopying => ShowsCopying'
  BY <1>1, <1>2 DEF ShowsCopying, Access, Target
<1>7. SeenInv'
  BY <1>1, <1>3, <1>4, <1>5, <1>6 DEF SeenInv
<1> QED BY <1>1, <1>2, <1>7, HeapStutters

(* Every step preserves the invariant, and is a step of ProgramHeap or     *)
(* none.                                                                   *)
LEMMA NextView ==
    ASSUME ~CopiesUninitialised
    PROVE  VInv /\ [SeenNext]_seenVars => VInv' /\ HeapStep
<1> SUFFICES ASSUME VInv, [SeenNext]_seenVars PROVE VInv' /\ HeapStep
  OBVIOUS
<1>1. [Next]_vars
  BY DEF SeenNext, seenVars
<1>2. SInv' /\ GraphInv'
  <2>1. SInv /\ IInv /\ GraphInv
    BY DEF VInv, SInv
  <2> QED BY <1>1, <2>1, NextSInv, NextGraph
<1>3. NameInv' /\ SeenInv' /\ HeapStep
  <2>1. CASE Mutator /\ Observe
    <3>1. ASSUME NEW r \in Roots, Clear(r) \/ Forget(r)
          PROVE  NameInv' /\ SeenInv' /\ HeapStep
      BY <1>2, <2>1, <3>1, ClearView
    <3>2. ASSUME NEW r \in Roots, NEW r2 \in Roots, NEW offset \in Offsets,
                 Derive(r, r2, offset)
          PROVE  NameInv' /\ SeenInv' /\ HeapStep
      BY <1>2, <2>1, <3>2, DeriveView
    <3>3. ASSUME NEW r \in Roots, NEW r2 \in Roots, NEW k \in 0 .. (YoungWords - 1),
                 Load(r, k, r2)
          PROVE  NameInv' /\ SeenInv' /\ HeapStep
      BY <1>2, <2>1, <3>3, LoadView
    <3>4. ASSUME NEW r \in Roots, NEW k \in 0 .. (YoungWords - 1), Store(r, k)
          PROVE  NameInv' /\ SeenInv' /\ HeapStep
      BY <1>2, <2>1, <3>4, StoreView
    <3>5. ASSUME NEW r \in Roots, NEW r2 \in Roots, NEW n \in 1 .. YoungWords,
                 GC_memcpy(r2, r, n)
          PROVE  NameInv' /\ SeenInv' /\ HeapStep
      BY <1>2, <2>1, <3>5, MemcpyBeginView
    <3>6. ASSUME NEW r \in Roots, NEW size \in Sizes, GC_malloc(r, size)
          PROVE  NameInv' /\ SeenInv' /\ HeapStep
      BY <1>2, <2>1, <3>6, MallocView
    <3>7. ASSUME NEW r \in Roots, NEW size \in Sizes, MallocCollect(r, size)
          PROVE  NameInv' /\ SeenInv' /\ HeapStep
      <4>1. pc = "run" /\ GC_collect_region(FALSE, "retry")
        BY <3>7 DEF MallocCollect
      <4>2. FALSE \in BOOLEAN /\ "retry" \in {"run", "retry"}
        OBVIOUS
      <4> QED BY <1>2, <2>1, <4>1, <4>2, PromotionView
    <3>8. ASSUME NEW forced \in BOOLEAN, GC_collect2(forced)
          PROVE  NameInv' /\ SeenInv' /\ HeapStep
      <4>1. pc = "run" /\ GC_collect_region(forced, "run")
        BY <3>8 DEF GC_collect2
      <4>2. "run" \in {"run", "retry"}
        OBVIOUS
      <4> QED BY <1>2, <2>1, <4>1, <4>2, PromotionView
    <3>9. CASE GC_minor_free \/ GC_reset
      BY <1>2, <2>1, <3>9, FreeView
    <3> QED
      BY <2>1, <3>1, <3>2, <3>3, <3>4, <3>5, <3>6, <3>7, <3>8, <3>9 DEF Mutator
  <2>2. CASE Library /\ Observe
    <3>1. CASE MemcpyWord
      BY <1>2, <2>2, <3>1, MemcpyMoreView, MemcpyLastView
    <3>2. CASE GC_copy_roots
      BY <1>2, <2>2, <3>2, RootsView
    <3>3. CASE GC_copy_remembered_set
      BY <1>2, <2>2, <3>3, RemsetView
    <3>4. CASE GC_copy_children
      BY <1>2, <2>2, <3>4, ChildrenView
    <3>5. CASE PromotionDone \/ MajorDone
      BY <1>2, <2>2, <3>5, DoneView
    <3>6. CASE MallocRetry
      BY <1>2, <2>2, <3>6, MallocRetryView
    <3>7. CASE GC_fatalf
      BY <1>2, <2>2, <3>7, FatalView
    <3> QED
      BY <2>2, <3>1, <3>2, <3>3, <3>4, <3>5, <3>6, <3>7 DEF Library
  <2>3. CASE UNCHANGED seenVars
    BY <2>3, StillView
  <2> QED BY <2>1, <2>2, <2>3 DEF SeenNext, Next
<1> QED BY <1>2, <1>3 DEF VInv

(* The program cannot tell that its objects are moved                      *)
(* (gc_collect.c:25-216): for heaps of every size and any number of roots, *)
(* each operation does to what the program sees what it does in            *)
(* ProgramHeap, and a collection takes away only what the program cannot   *)
(* reach.                                                                  *)
THEOREM HeapTheorem ==
    ASSUME ~CopiesUninitialised
    PROVE  SeenSpec => ImplementsProgramHeap
<1>1. SeenInit => VInv /\ Heap!Init
  BY InitView
<1>2. VInv /\ [SeenNext]_seenVars => VInv' /\ HeapStep
  BY NextView
<1>3. HeapStep => /\ [Heap!Next]_(Heap!vars)
                  /\ [stage # "none" => \E S \in SUBSET DOMAIN seen.heap : Heap!Collect(S)]_seen
  BY DEF HeapStep
<1> QED BY <1>1, <1>2, <1>3, PTL DEF SeenSpec, ImplementsProgramHeap, Heap!Spec
=============================================================================
