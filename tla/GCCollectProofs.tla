--------------------------- MODULE GCCollectProofs ---------------------------
(***************************************************************************)
(* Theorems about the collector, for every size of the spaces, every       *)
(* number of roots and every program.                                      *)
(***************************************************************************)
EXTENDS GCCollect, TLAPS

(* Where the program counter, the stage and the loop counters can be       *)
(* together.  GC_copy_region runs in the order roots, remembered set,      *)
(* children, and the remembered set is empty from the third part on.       *)
ControlInv ==
    /\ pc \in {"run", "memcpy", "retry"} => stage = "none"
    /\ pc = "roots" => stage # "none" /\ index \in Roots
    /\ pc = "remset" => stage = "promote" /\ index >= 1
    /\ pc = "children" => stage # "none" /\ remset = <<>>
    /\ stage \in {"force", "watermark"} => remset = <<>>
    /\ request = NoRequest \/ request.size > 0
    /\ pc = "retry" => request # NoRequest
    /\ pc = "memcpy" =>
          /\ index < copying.words
          /\ copying.src + copying.words - 1 \in Words

(* The inductive invariant.                                                *)
IInv ==
    /\ TypeOK
    /\ BitmapMatchesFree
    /\ remset \in Seq(OldSpace(to))
    /\ ControlInv

-----------------------------------------------------------------------------
(* Arithmetic of words and bytes.                                          *)

(* The quotient of a natural number is a natural number, and it is the     *)
(* number of whole words below an address.                                 *)
LEMMA DivFacts ==
    ASSUME NEW a \in Nat, NEW b \in Nat \ {0}
    PROVE  /\ a \div b \in Nat
           /\ b * (a \div b) <= a
           /\ a < b * (a \div b) + b
OBVIOUS

(* Moving an address down by whole words moves its word by as many.        *)
LEMMA DivShift ==
    ASSUME NEW a \in Nat, NEW b \in Nat \ {0}, NEW k \in Int, a - b * k >= 0
    PROVE  (a - b * k) \div b = (a \div b) - k
OBVIOUS

(* GC_ALIGN_32 leaves a whole number of words as it is.                    *)
LEMMA AlignWhole ==
    ASSUME NEW k \in Nat
    PROVE  AlignWords(WordBytes * k) = k
BY ConstantsAssumption DEF AlignWords

(* Sizes and addresses in bytes give natural numbers of words, and an      *)
(* object that is not empty has a word.                                    *)
LEMMA WordNat ==
    /\ \A n \in Nat : AlignWords(n) \in Nat
    /\ \A n \in Nat \ {0} : AlignWords(n) \in Nat \ {0}
    /\ \A cap \in Cap : WordOf(cap) \in Nat
<1>1. ASSUME NEW n \in Nat PROVE AlignWords(n) \in Nat
  <2>1. n + (WordBytes - 1) \in Nat
    BY ConstantsAssumption
  <2> QED BY <2>1, DivFacts, ConstantsAssumption DEF AlignWords
<1>2. ASSUME NEW cap \in Cap PROVE WordOf(cap) \in Nat
  <2>1. cap.base \in Nat
    BY DEF Cap
  <2> QED BY <2>1, DivFacts, ConstantsAssumption DEF WordOf
<1>3. ASSUME NEW n \in Nat \ {0} PROVE AlignWords(n) # 0
  <2>1. n + (WordBytes - 1) \in Nat /\ n + (WordBytes - 1) >= WordBytes
    BY ConstantsAssumption
  <2>2. n + (WordBytes - 1) < WordBytes * AlignWords(n) + WordBytes
    BY <2>1, DivFacts, ConstantsAssumption DEF AlignWords
  <2> QED BY <2>1, <2>2, ConstantsAssumption
<1> QED BY <1>1, <1>2, <1>3

(* The spaces lie in memory.                                               *)
LEMMA SpacesInMemory ==
    /\ YoungSpace \subseteq Words
    /\ \A space \in {0, 1} : /\ OldBase(space) \in Nat
                             /\ OldSpace(space) \subseteq Words
BY ConstantsAssumption DEF YoungSpace, YoungBase, Words, OldBase, OldSpace

(* So does the space that is being evacuated, and its bitmap covers it.    *)
LEMMA FromspaceInMemory ==
    ASSUME TypeOK
    PROVE  /\ FromBase \in Nat
           /\ FromWords \in Nat
           /\ FromBase .. (FromBase + FromWords - 1) \subseteq Words
           /\ FromBitmap \in Bitmaps(FromWords)
           /\ ToBase \in Nat
<1>1. CASE stage = "promote"
  BY <1>1, SpacesInMemory, ConstantsAssumption
     DEF TypeOK, FromBase, FromWords, FromBitmap, YoungSpace, YoungBase, ToBase
<1>2. CASE stage # "promote"
  <2>1. 1 - to \in {0, 1}
    BY DEF TypeOK
  <2> QED BY <1>2, <2>1, SpacesInMemory, ConstantsAssumption
          DEF TypeOK, FromBase, FromWords, FromBitmap, OldSpace, ToBase
<1> QED BY <1>1, <1>2

-----------------------------------------------------------------------------
(* Copying one object.                                                     *)

(* What the collector copies for a capability that it does not skip is an  *)
(* object that lies in the fromspace as a whole.                           *)
LEMMA ObjectInFromspace ==
    ASSUME TypeOK, NEW cap \in Cap \cup {Null}, ~Skipped(cap)
    PROVE  /\ cap \in Cap
           /\ ObjectCap(cap) \in Cap
           /\ WordOf(ObjectCap(cap)) >= FromBase
           /\ WordOf(ObjectCap(cap)) + AlignWords(ObjectCap(cap).len)
                 <= FromBase + FromWords
           /\ AlignWords(ObjectCap(cap).len) \in Nat \ {0}
           /\ ~IsExact(cap) => Relbase(cap) \in Nat
<1> DEFINE p == PosInFromspace(cap)
           obj == ObjectCap(cap)
<1>1. /\ cap \in Cap /\ cap.base \in Nat /\ cap.len \in Nat
      /\ FromBase * WordBytes <= cap.base
      /\ IsExact(cap) \/ IsInterior(cap)
  BY DEF Skipped, InFromspace, GC_IN, Cap
<1>2. /\ FromBase \in Nat /\ FromWords \in Nat
      /\ FromBitmap.used \in 0 .. FromWords
      /\ FromBitmap.map \subseteq 0 .. FromWords
  BY FromspaceInMemory DEF Bitmaps
<1>3. WordOf(cap) \in Nat /\ WordOf(cap) >= FromBase /\ p \in Nat
  <2>1. /\ WordOf(cap) \in Nat
        /\ cap.base < WordBytes * WordOf(cap) + WordBytes
    BY <1>1, DivFacts, ConstantsAssumption DEF WordOf
  <2>2. FromBase * WordBytes < WordBytes * (WordOf(cap) + 1)
    BY <2>1, <1>1, <1>2, ConstantsAssumption
  <2>3. FromBase < WordOf(cap) + 1
    BY <2>1, <2>2, <1>2, ConstantsAssumption
  <2> QED BY <2>1, <2>3, <1>2 DEF PosInFromspace
<1>4. CASE IsExact(cap)
  <2>1. obj = cap
    BY <1>4 DEF ObjectCap
  <2>2. /\ AlignWords(cap.len) > 0
        /\ p + AlignWords(cap.len) <= FromBitmap.used
    BY <1>4 DEF IsExact, GC_bitmap_find
  <2>3. AlignWords(cap.len) \in Nat
    BY <1>1, WordNat
  <2> QED BY <1>1, <1>2, <1>3, <1>4, <2>1, <2>2, <2>3 DEF PosInFromspace
<1>5. CASE ~IsExact(cap)
  <2> DEFINE start == ContainerStart(FromBitmap, p)
             len == ContainerLen(FromBitmap, p)
  <2>1. HasContainer(FromBitmap, p)
    BY <1>1, <1>5 DEF IsInterior
  <2>2. /\ start \in FromBitmap.map
        /\ \E l \in 1 .. FromBitmap.used : IsContainer(FromBitmap, p, start, l)
    BY <2>1 DEF HasContainer, ContainerStart
  <2>3. /\ len \in 1 .. FromBitmap.used
        /\ IsContainer(FromBitmap, p, start, len)
    BY <2>2 DEF ContainerLen
  <2>4. /\ start \in Nat /\ start <= p /\ len \in Nat \ {0}
        /\ start + len <= FromBitmap.used
    BY <1>2, <2>2, <2>3 DEF IsContainer
  <2>5. Relbase(cap) = p - start /\ Relbase(cap) \in Nat
    BY <1>3, <2>4 DEF Relbase
  <2>6. ContainerBytes(cap) = WordBytes * len /\ ContainerBytes(cap) \in Nat
    BY <2>4, ConstantsAssumption DEF ContainerBytes
  <2>7. obj = [base |-> cap.base - WordBytes * Relbase(cap),
               len |-> WordBytes * len, fwd |-> cap.fwd]
    BY <1>5, <2>6 DEF ObjectCap, GC_setbaselen
  <2>8. cap.base - WordBytes * Relbase(cap) >= 0
    <3>1. WordBytes * WordOf(cap) <= cap.base
      BY <1>1, DivFacts, ConstantsAssumption DEF WordOf
    <3>2. Relbase(cap) <= WordOf(cap)
      BY <1>2, <1>3, <2>4, <2>5 DEF PosInFromspace
    <3>3. WordBytes * Relbase(cap) <= WordBytes * WordOf(cap)
      BY <3>2, <1>3, <2>5, ConstantsAssumption
    <3>4. WordBytes * Relbase(cap) \in Nat /\ WordBytes * WordOf(cap) \in Nat
      BY <1>3, <2>5, ConstantsAssumption
    <3> QED BY <1>1, <3>1, <3>3, <3>4
  <2>9. obj \in Cap
    BY <1>1, <2>5, <2>6, <2>7, <2>8, ConstantsAssumption DEF Cap
  <2>10. WordOf(obj) = WordOf(cap) - Relbase(cap)
    <3>1. obj.base = cap.base - WordBytes * Relbase(cap)
      BY <2>7
    <3>2. (cap.base - WordBytes * Relbase(cap)) \div WordBytes
             = (cap.base \div WordBytes) - Relbase(cap)
      <4>1. Relbase(cap) \in Int
        BY <2>5
      <4> QED BY <1>1, <2>8, <4>1, DivShift, ConstantsAssumption
    <3> QED BY <3>1, <3>2 DEF WordOf
  <2>11. AlignWords(obj.len) = len
    BY <2>4, <2>7, AlignWhole
  <2> QED BY <1>1, <1>2, <1>3, <1>5, <2>4, <2>5, <2>9, <2>10, <2>11
          DEF PosInFromspace
<1> QED BY <1>4, <1>5

(* Copying words within memory keeps the type of an array.                 *)
LEMMA CopyWordsType ==
    ASSUME NEW S, NEW f \in [Words -> S], NEW s \in Nat, NEW d \in Nat,
           NEW n \in Nat, s .. (s + n - 1) \subseteq Words
    PROVE  CopyWords(f, s, d, n) \in [Words -> S]
<1>1. ASSUME NEW w \in Words, w \in d .. (d + n - 1)
      PROVE  s + (w - d) \in Words
  BY <1>1 DEF Words
<1> QED BY <1>1 DEF CopyWords

(* The object that is copied lies in memory.                               *)
LEMMA ObjectInMemory ==
    ASSUME TypeOK, NEW cap \in Cap \cup {Null}, ~Skipped(cap)
    PROVE  /\ WordOf(ObjectCap(cap)) \in Words
           /\ WordOf(ObjectCap(cap)) \in Nat
           /\ WordOf(ObjectCap(cap))
                .. (WordOf(ObjectCap(cap)) + AlignWords(ObjectCap(cap).len) - 1)
                  \subseteq Words
<1> DEFINE s == WordOf(ObjectCap(cap))
           n == AlignWords(ObjectCap(cap).len)
<1>1. /\ s >= FromBase /\ s + n <= FromBase + FromWords
      /\ n \in Nat \ {0} /\ ObjectCap(cap) \in Cap
  BY ObjectInFromspace
<1>2. s \in Nat
  BY <1>1, WordNat
<1>3. /\ FromBase \in Nat /\ FromWords \in Nat
      /\ FromBase .. (FromBase + FromWords - 1) \subseteq Words
  BY FromspaceInMemory
<1>4. s .. (s + n - 1) \subseteq FromBase .. (FromBase + FromWords - 1)
  <2> HIDE DEF s, n
  <2> QED BY <1>1, <1>2, <1>3
<1>5. s \in s .. (s + n - 1)
  <2> HIDE DEF s, n
  <2> QED BY <1>1, <1>2
<1> QED BY <1>2, <1>3, <1>4, <1>5

(* What GC_copy_object returns and what is stored are capabilities.        *)
LEMMA CopyTypes ==
    ASSUME TypeOK, NEW cap \in Cap \cup {Null}, CanMove(cap)
    PROVE  /\ CopyOf(ObjectCap(cap)) \in Cap
           /\ Moved(cap) \in Cap
           /\ CopiedMem(ObjectCap(cap)) \in [Words -> Cap \cup {Null}]
<1> DEFINE obj == ObjectCap(cap)
<1>1. /\ cap \in Cap /\ obj \in Cap
      /\ AlignWords(obj.len) \in Nat \ {0}
      /\ ~IsExact(cap) => Relbase(cap) \in Nat
  BY ObjectInFromspace DEF CanMove
<1>2. /\ WordOf(obj) \in Words /\ WordOf(obj) \in Nat
      /\ WordOf(obj) .. (WordOf(obj) + AlignWords(obj.len) - 1) \subseteq Words
  BY ObjectInMemory DEF CanMove
<1>3. ToBase \in Nat /\ ofree \in Nat
  BY FromspaceInMemory, ConstantsAssumption DEF TypeOK
<1>4. CopyOf(obj) \in Cap
  <2>1. CASE IsForwarded(obj)
    <3>1. mem[WordOf(obj)] \in Cap
      BY <1>2, <2>1 DEF TypeOK, IsForwarded
    <3> QED BY <2>1, <3>1 DEF CopyOf, Cap
  <2>2. CASE ~IsForwarded(obj)
    <3>1. (ToBase + ofree) * WordBytes \in Nat /\ obj.len \in Nat
      BY <1>1, <1>3, ConstantsAssumption DEF Cap
    <3> QED BY <2>2, <3>1 DEF CopyOf, Cap
  <2> QED BY <2>1, <2>2
<1>5. Moved(cap) \in Cap
  <2>1. CASE IsExact(cap)
    BY <1>4, <2>1 DEF Moved
  <2>2. CASE ~IsExact(cap)
    <3>1. /\ CopyOf(obj).base + WordBytes * Relbase(cap) \in Nat
          /\ cap.len \in Nat /\ CopyOf(obj).fwd \in BOOLEAN
      BY <1>1, <1>4, <2>2, ConstantsAssumption DEF Cap
    <3> QED BY <2>2, <3>1 DEF Moved, GC_setbaselen, Cap
  <2> QED BY <2>1, <2>2
<1>6. CopiedMem(obj) \in [Words -> Cap \cup {Null}]
  <2>1. mem \in [Words -> Cap \cup {Null}]
    BY DEF TypeOK
  <2>2. CopyWords(mem, WordOf(obj), ToBase + ofree, AlignWords(obj.len))
           \in [Words -> Cap \cup {Null}]
    <3>1. ToBase + ofree \in Nat
      BY <1>3
    <3> QED BY <1>1, <1>2, <2>1, <3>1, CopyWordsType
  <2>3. [CopyOf(obj) EXCEPT !.fwd = TRUE] \in Cap
    BY <1>4 DEF Cap
  <2> QED BY <2>1, <2>2, <2>3 DEF CopiedMem
<1> QED BY <1>4, <1>5, <1>6

(* GC_copy_object keeps the free pointer in the tospace and the bitmap in  *)
(* step with it.                                                           *)
CopyPost ==
    /\ ofree' \in ofree .. OldWords
    /\ tobitmap' \in Bitmaps(OldWords) /\ tobitmap'.used = ofree'
    /\ known' \in [Words -> BOOLEAN] /\ orig' \in [Words -> Words]

LEMMA CopyObjectStep ==
    ASSUME TypeOK, BitmapMatchesFree, NEW cap \in Cap \cup {Null},
           CanMove(cap), GC_copy_object(ObjectCap(cap))
    PROVE  CopyPost
<1> DEFINE obj == ObjectCap(cap)
           s == WordOf(obj)
           d == ToBase + ofree
           n == AlignWords(obj.len)
<1>1. n \in Nat \ {0}
  BY ObjectInFromspace DEF CanMove
<1>2. s \in Nat /\ s .. (s + n - 1) \subseteq Words
  BY ObjectInMemory DEF CanMove
<1>3. /\ ofree \in 0 .. OldWords /\ OldWords \in Nat /\ d \in Nat
      /\ tobitmap \in Bitmaps(OldWords) /\ tobitmap.used = ofree
      /\ known \in [Words -> BOOLEAN] /\ orig \in [Words -> Words]
  BY FromspaceInMemory, ConstantsAssumption DEF TypeOK, BitmapMatchesFree
<1>4. CASE IsForwarded(obj) /\ UNCHANGED <<ofree, tobitmap, known, orig>>
  BY <1>3, <1>4 DEF CopyPost
<1>5. CASE /\ ~IsForwarded(obj)
           /\ known' = CopyWords(known, s, d, n)
           /\ orig' = CopyWords(orig, s, d, n)
           /\ ofree' = ofree + n
           /\ tobitmap' = GC_bitmap_allocate(tobitmap, n)
  <2> HIDE DEF s, d, n
  <2>1. n <= OldWords - ofree
    BY <1>5 DEF CanMove, HasRoom, n
  <2>2. known' \in [Words -> BOOLEAN] /\ orig' \in [Words -> Words]
    BY <1>1, <1>2, <1>3, <1>5, CopyWordsType
  <2>3. ofree' \in ofree .. OldWords
    BY <1>1, <1>3, <1>5, <2>1
  <2>4. tobitmap' \in Bitmaps(OldWords) /\ tobitmap'.used = ofree'
    BY <1>1, <1>3, <1>5, <2>1 DEF GC_bitmap_allocate, Bitmaps
  <2> QED BY <2>2, <2>3, <2>4 DEF CopyPost
<1> QED BY <1>4, <1>5 DEF GC_copy_object

(* The same for GC_copy_child on a word of the memory.                     *)
LEMMA CopyChildStep ==
    ASSUME TypeOK, BitmapMatchesFree, NEW w \in Words, GC_copy_child(w)
    PROVE  CopyPost /\ mem' \in [Words -> Cap \cup {Null}]
<1>1. mem[w] \in Cap \cup {Null}
  BY DEF TypeOK
<1>2. CASE Skipped(mem[w]) /\ UNCHANGED <<mem, ofree, tobitmap, known, orig>>
  BY <1>2, ConstantsAssumption DEF TypeOK, BitmapMatchesFree, CopyPost
<1>3. CASE /\ CanMove(mem[w])
           /\ mem' = [CopiedMem(ObjectCap(mem[w])) EXCEPT ![w] = Moved(mem[w])]
           /\ GC_copy_object(ObjectCap(mem[w]))
  <2>1. CopyPost
    BY <1>1, <1>3, CopyObjectStep
  <2>2. /\ Moved(mem[w]) \in Cap
        /\ CopiedMem(ObjectCap(mem[w])) \in [Words -> Cap \cup {Null}]
    BY <1>1, <1>3, CopyTypes
  <2> QED BY <1>3, <2>1, <2>2
<1> QED BY <1>2, <1>3 DEF GC_copy_child

-----------------------------------------------------------------------------
(* The invariant.                                                          *)

LEMMA InitIInv == Init => IInv
<1> SUFFICES ASSUME Init PROVE IInv
  OBVIOUS
<1>1. /\ GC_init_bitmap(YoungWords) \in Bitmaps(YoungWords)
      /\ GC_init_bitmap(OldWords) \in Bitmaps(OldWords)
      /\ GC_init_bitmap(YoungWords).used = 0
      /\ GC_init_bitmap(OldWords).used = 0
  BY ConstantsAssumption DEF GC_init_bitmap, Bitmaps
<1>2. NoRequest \in Requests /\ 0 \in Words
  BY ConstantsAssumption DEF NoRequest, Requests, Roots, Words
<1>3. TypeOK
  BY <1>1, <1>2, ConstantsAssumption
     DEF Init, TypeOK, Pcs, Stages, NoCopying
<1>4. BitmapMatchesFree
  BY <1>1 DEF Init, BitmapMatchesFree
<1>5. ControlInv /\ remset \in Seq(OldSpace(to))
  BY DEF Init, ControlInv
<1> QED BY <1>3, <1>4, <1>5 DEF IInv

(* The write barrier remembers words of the old generation only.           *)
LEMMA BarrierType ==
    ASSUME NEW x, NEW cap, remset \in Seq(OldSpace(to))
    PROVE  Barrier(remset, x, cap) \in Seq(OldSpace(to))
BY DEF Barrier, GC_remembered_set_add

LEMMA RemsetType ==
    ASSUME TypeOK, NEW set \in Seq(OldSpace(to))
    PROVE  set \in Seq(Words)
BY SpacesInMemory DEF TypeOK

(* The program's own steps.                                                *)
LEMMA ProgramStep ==
    ASSUME IInv,
           NEW r \in Roots, NEW r2 \in Roots, NEW k \in Nat,
           NEW offset \in Nat,
           Clear(r) \/ Forget(r) \/ Derive(r, r2, offset) \/ Load(r, k, r2)
    PROVE  IInv'
<1>1. /\ TypeOK /\ ControlInv /\ BitmapMatchesFree
      /\ remset \in Seq(OldSpace(to))
  BY DEF IInv
<1>2. /\ root' \in [Roots -> Cap \cup {Null}]
      /\ kroot' \in [Roots -> BOOLEAN]
  <2>1. CASE Clear(r)
    BY <1>1, <2>1 DEF Clear, SetRoot, TypeOK
  <2>2. CASE Forget(r)
    BY <1>1, <2>2 DEF Forget, TypeOK
  <2>3. CASE Derive(r, r2, offset)
    <3>1. /\ root[r] \in Cap /\ offset < root[r].len
      BY <1>1, <2>3 DEF Derive, Usable, TypeOK
    <3>2. GC_setbaselen(root[r], root[r].base + offset, root[r].len - offset)
             \in Cap
      BY <3>1 DEF GC_setbaselen, Cap
    <3> QED BY <1>1, <2>3, <3>2 DEF Derive, SetRoot, TypeOK
  <2>4. CASE Load(r, k, r2)
    <3>1. mem[WordOf(root[r]) + k] \in Cap \cup {Null}
      BY <1>1, <2>4 DEF Load, InBounds, TypeOK
    <3> QED BY <1>1, <2>4, <3>1 DEF Load, SetRoot, TypeOK
  <2> QED BY <2>1, <2>2, <2>3, <2>4
<1>3. UNCHANGED <<mem, gcVars, remset, ctlVars, known, histVars>>
  BY DEF Clear, Forget, Derive, Load
<1>4. TypeOK'
  BY <1>1, <1>2, <1>3 DEF TypeOK, gcVars, ctlVars, histVars
<1>5. BitmapMatchesFree' /\ remset' \in Seq(OldSpace(to'))
  BY <1>1, <1>3 DEF BitmapMatchesFree, gcVars
<1>6. ControlInv'
  BY <1>1, <1>3 DEF ControlInv, ctlVars
<1> QED BY <1>4, <1>5, <1>6 DEF IInv, OldSpace, OldBase

(* GC_STORE_CAP.                                                           *)
LEMMA StoreStep ==
    ASSUME IInv, NEW r \in Roots, NEW k \in Nat, Store(r, k)
    PROVE  IInv'
<1>1. /\ TypeOK /\ ControlInv /\ BitmapMatchesFree
      /\ remset \in Seq(OldSpace(to))
  BY DEF IInv
<1>2. PICK cap \in Cap \cup {Null} : GC_STORE_CAP(r, k, cap)
  BY <1>1 DEF Store, TypeOK
<1>3. /\ pc = "run" /\ stage = "none"
      /\ remset' = Barrier(remset, WordOf(root[r]) + k, cap)
      /\ mem' = [mem EXCEPT ![WordOf(root[r]) + k] = cap]
      /\ known' = [known EXCEPT ![WordOf(root[r]) + k] = TRUE]
      /\ UNCHANGED <<root, gcVars, ctlVars, kroot, histVars>>
  BY <1>1, <1>2 DEF GC_STORE_CAP, Usable, ControlInv
<1>4. remset' \in Seq(OldSpace(to)) /\ remset' \in Seq(Words)
  BY <1>1, <1>3, BarrierType, RemsetType
<1>5. TypeOK'
  BY <1>1, <1>3, <1>4 DEF TypeOK, gcVars, ctlVars, histVars
<1>6. BitmapMatchesFree' /\ remset' \in Seq(OldSpace(to'))
  BY <1>1, <1>3, <1>4 DEF BitmapMatchesFree, gcVars
<1>7. ControlInv'
  BY <1>1, <1>3 DEF ControlInv, ctlVars
<1> QED BY <1>5, <1>6, <1>7 DEF IInv, OldSpace, OldBase

(* The beginning of GC_memcpy.                                             *)
LEMMA MemcpyBeginStep ==
    ASSUME IInv, NEW r \in Roots, NEW r2 \in Roots, NEW n \in Nat \ {0},
           GC_memcpy(r2, r, n)
    PROVE  IInv'
<1> DEFINE s == WordOf(root[r])
           d == WordOf(root[r2])
<1>1. /\ TypeOK /\ ControlInv /\ BitmapMatchesFree
      /\ remset \in Seq(OldSpace(to))
  BY DEF IInv
<1>2. /\ pc = "run" /\ stage = "none"
      /\ root[r] \in Cap /\ root[r2] \in Cap
      /\ s + (n - 1) \in Words /\ d + (n - 1) \in Words
  BY <1>1 DEF GC_memcpy, Usable, InBounds, ControlInv, TypeOK
<1>3. s \in Nat /\ d \in Nat
  BY <1>2, WordNat
<1>4. s \in Words /\ d \in Words /\ s .. (s + n - 1) \subseteq Words
  <2> HIDE DEF s, d
  <2> QED BY <1>2, <1>3, ConstantsAssumption DEF Words
<1>5. mem' \in [Words -> Cap \cup {Null}]
  BY <1>1 DEF GC_memcpy, TypeOK
<1>6. known' \in [Words -> BOOLEAN]
  BY <1>1, <1>3, <1>4, CopyWordsType DEF GC_memcpy, TypeOK
<1>7. /\ copying' = [src |-> s, dest |-> d, words |-> n]
      /\ pc' = "memcpy" /\ index' = 0
      /\ UNCHANGED <<root, gcVars, remset, stage, force, request, kroot,
                     histVars>>
  BY DEF GC_memcpy
<1>8. copying' \in [src : Words, dest : Words, words : Nat]
  <2> HIDE DEF s, d
  <2> QED BY <1>4, <1>7
<1>9. TypeOK'
  <2> HIDE DEF s, d
  <2> QED BY <1>1, <1>5, <1>6, <1>7, <1>8
          DEF TypeOK, gcVars, histVars, Pcs
<1>10. BitmapMatchesFree' /\ remset' \in Seq(OldSpace(to'))
  BY <1>1, <1>7 DEF BitmapMatchesFree, gcVars
<1>11. ControlInv'
  <2>1. s + n - 1 \in Words
    <3> HIDE DEF s
    <3> QED BY <1>2, <1>3
  <2>2. copying'.words = n /\ copying'.src = s
    BY <1>7
  <2>3. index' < copying'.words /\ copying'.src + copying'.words - 1 \in Words
    <3> HIDE DEF s
    <3> QED BY <1>7, <2>1, <2>2
  <2> QED BY <1>1, <1>2, <1>7, <2>3 DEF ControlInv
<1> QED BY <1>9, <1>10, <1>11 DEF IInv, OldSpace, OldBase

(* An iteration of GC_memcpy.                                              *)
LEMMA MemcpyWordStep ==
    ASSUME IInv, MemcpyWord
    PROVE  IInv'
<1> DEFINE x == copying.dest + index
           cap == mem[copying.src + index]
<1>1. /\ TypeOK /\ ControlInv /\ BitmapMatchesFree
      /\ remset \in Seq(OldSpace(to))
  BY DEF IInv
<1>2. /\ pc = "memcpy" /\ stage = "none"
      /\ index < copying.words
      /\ copying.src + copying.words - 1 \in Words
      /\ UNCHANGED <<root, gcVars, stage, force, request, known, kroot,
                     histVars>>
  BY <1>1 DEF MemcpyWord, ControlInv
<1>3. cap \in Cap \cup {Null}
  <2>1. copying.src + index \in Words
    <3>1. /\ copying.src \in Words /\ copying.words \in Nat /\ index \in Nat
      BY <1>1 DEF TypeOK
    <3> QED BY <1>2, <3>1, ConstantsAssumption DEF Words
  <2> QED BY <1>1, <2>1 DEF TypeOK
<1>4. /\ remset' = Barrier(remset, x, cap) \/ remset' = remset
      /\ mem' = [mem EXCEPT ![x] = cap] \/ mem' = mem
      /\ \/ /\ index + 1 < copying.words
            /\ index' = index + 1 /\ pc' = pc /\ copying' = copying
         \/ index' = 0 /\ pc' = "run" /\ copying' = NoCopying
  BY DEF MemcpyWord
<1>5. remset' \in Seq(OldSpace(to)) /\ remset' \in Seq(Words)
  BY <1>1, <1>4, BarrierType, RemsetType
<1>6. mem' \in [Words -> Cap \cup {Null}]
  <2> HIDE DEF cap, x
  <2> QED BY <1>1, <1>3, <1>4 DEF TypeOK
<1>7. index' \in Nat /\ copying' \in [src : Words, dest : Words, words : Nat]
  <2>1. NoCopying \in [src : Words, dest : Words, words : Nat]
    BY ConstantsAssumption DEF NoCopying, Words
  <2> QED BY <1>1, <1>4, <2>1 DEF TypeOK
<1>8. TypeOK'
  BY <1>1, <1>2, <1>4, <1>5, <1>6, <1>7 DEF TypeOK, gcVars, histVars, Pcs
<1>9. BitmapMatchesFree' /\ remset' \in Seq(OldSpace(to'))
  BY <1>1, <1>2, <1>5 DEF BitmapMatchesFree, gcVars
<1>10. ControlInv'
  BY <1>1, <1>2, <1>4 DEF ControlInv
<1> QED BY <1>8, <1>9, <1>10 DEF IInv, OldSpace, OldBase

(* Placing an object at the free pointer of the young generation.          *)
LEMMA AllocateTypes ==
    ASSUME TypeOK, BitmapMatchesFree,
           NEW r \in Roots, NEW size \in Nat \ {0}, Fits(size),
           Allocate(r, size)
    PROVE  /\ root' \in [Roots -> Cap \cup {Null}]
           /\ kroot' \in [Roots -> BOOLEAN]
           /\ yfree' \in 0 .. YoungWords
           /\ ybitmap' \in Bitmaps(YoungWords) /\ ybitmap'.used = yfree'
           /\ mem' \in [Words -> Cap \cup {Null}]
           /\ known' \in [Words -> BOOLEAN]
           /\ UNCHANGED <<to, ofree, oscan, tobitmap, frombitmap>>
<1> DEFINE first == YoungBase + yfree
           n == AlignWords(size)
<1>1. n \in Nat \ {0}
  BY WordNat
<1>2. /\ n <= YoungWords - yfree /\ yfree \in 0 .. YoungWords
      /\ YoungWords \in Nat /\ ybitmap.used = yfree
      /\ ybitmap \in Bitmaps(YoungWords)
  BY ConstantsAssumption DEF Fits, TypeOK, BitmapMatchesFree
<1>3. /\ SetRoot(r, [base |-> first * WordBytes, len |-> size, fwd |-> FALSE])
      /\ yfree' = yfree + n
      /\ ybitmap' = GC_bitmap_allocate(ybitmap, n)
      /\ mem' = [mem EXCEPT ![first] = Null]
      /\ known' = [w \in Words |->
                      IF w \in first .. (first + n - 1) THEN FALSE ELSE known[w]]
      /\ UNCHANGED <<to, ofree, oscan, tobitmap, frombitmap>>
  BY DEF Allocate
<1>4. [base |-> first * WordBytes, len |-> size, fwd |-> FALSE] \in Cap
  BY <1>2, ConstantsAssumption DEF Cap, YoungBase
<1>5. root' \in [Roots -> Cap \cup {Null}] /\ kroot' \in [Roots -> BOOLEAN]
  BY <1>3, <1>4 DEF SetRoot, TypeOK
<1>6. /\ yfree' \in 0 .. YoungWords
      /\ ybitmap' \in Bitmaps(YoungWords) /\ ybitmap'.used = yfree'
  <2> HIDE DEF n
  <2> QED BY <1>1, <1>2, <1>3 DEF GC_bitmap_allocate, Bitmaps
<1>7. mem' \in [Words -> Cap \cup {Null}] /\ known' \in [Words -> BOOLEAN]
  BY <1>3 DEF TypeOK
<1> QED BY <1>3, <1>5, <1>6, <1>7

(* GC_malloc, with and without a collection before it.                     *)
LEMMA MallocStep ==
    ASSUME IInv, NEW r \in Roots, NEW size \in Sizes, GC_malloc(r, size)
    PROVE  IInv'
<1>1. /\ TypeOK /\ ControlInv /\ BitmapMatchesFree
      /\ remset \in Seq(OldSpace(to))
  BY DEF IInv
<1>2. size \in Nat \ {0} /\ Fits(size) /\ Allocate(r, size)
  BY ConstantsAssumption DEF GC_malloc
<1>3. UNCHANGED <<remset, ctlVars, histVars>>
  BY DEF GC_malloc
<1>4. TypeOK' /\ BitmapMatchesFree' /\ remset' \in Seq(OldSpace(to'))
  BY <1>1, <1>2, <1>3, AllocateTypes
     DEF TypeOK, BitmapMatchesFree, ctlVars, histVars
<1>5. ControlInv'
  BY <1>1, <1>3 DEF ControlInv, ctlVars
<1> QED BY <1>4, <1>5 DEF IInv, OldSpace, OldBase

LEMMA MallocRetryStep ==
    ASSUME IInv, MallocRetry
    PROVE  IInv'
<1>1. /\ TypeOK /\ ControlInv /\ BitmapMatchesFree
      /\ remset \in Seq(OldSpace(to))
  BY DEF IInv
<1>2. /\ request.root \in Roots /\ request.size \in Nat \ {0}
      /\ NoRequest \in Requests
  <2>1. request.size > 0
    BY <1>1 DEF ControlInv, MallocRetry
  <2> QED BY <1>1, <2>1, ConstantsAssumption
          DEF TypeOK, Requests, NoRequest, Roots
<1>3. /\ pc = "retry" /\ pc' = "run" /\ request' = NoRequest
      /\ UNCHANGED <<remset, stage, index, force, copying, histVars>>
  BY DEF MallocRetry
<1>4. /\ root' \in [Roots -> Cap \cup {Null}]
      /\ kroot' \in [Roots -> BOOLEAN]
      /\ yfree' \in 0 .. YoungWords
      /\ ybitmap' \in Bitmaps(YoungWords) /\ ybitmap'.used = yfree'
      /\ mem' \in [Words -> Cap \cup {Null}]
      /\ known' \in [Words -> BOOLEAN]
      /\ UNCHANGED <<to, ofree, oscan, tobitmap, frombitmap>>
  <2>1. CASE Fits(request.size) /\ Allocate(request.root, request.size)
    BY <1>1, <1>2, <2>1, AllocateTypes
  <2>2. CASE SetRoot(request.root, Null) /\ UNCHANGED <<mem, gcVars, known>>
    BY <1>1, <1>2, <2>2 DEF SetRoot, TypeOK, BitmapMatchesFree, gcVars
  <2> QED BY <2>1, <2>2 DEF MallocRetry
<1>5. TypeOK' /\ BitmapMatchesFree' /\ remset' \in Seq(OldSpace(to'))
  BY <1>1, <1>2, <1>3, <1>4 DEF TypeOK, BitmapMatchesFree, histVars, Pcs
<1>6. ControlInv'
  BY <1>1, <1>3 DEF ControlInv
<1> QED BY <1>5, <1>6 DEF IInv, OldSpace, OldBase

(* GC_collect, GC_major_collect and the collection within GC_malloc.       *)
LEMMA CollectStep ==
    ASSUME IInv, NEW forced \in BOOLEAN, NEW back \in {"run", "retry"},
           pc = "run", request' \in Requests, GC_collect_region(forced, back),
           request' = NoRequest \/ request'.size > 0,
           back = "retry" => request' # NoRequest
    PROVE  IInv'
<1>1. /\ TypeOK /\ ControlInv /\ BitmapMatchesFree
      /\ remset \in Seq(OldSpace(to)) /\ stage = "none"
  BY DEF IInv, ControlInv
<1>2. UNCHANGED <<mem, root, yfree, ybitmap, to, ofree, tobitmap,
                  frombitmap, remset, copying, known, kroot>>
  BY DEF GC_collect_region
<1>3. /\ stage' \in {"none", "promote"} /\ index' \in Nat /\ force' \in BOOLEAN
      /\ oscan' \in 0 .. ofree
      /\ snap' \in [Words -> Cap \cup {Null}]
      /\ sroot' \in [Roots -> Cap \cup {Null}]
      /\ orig' \in [Words -> Words]
      /\ \/ pc' = "roots" /\ index' = 1 /\ stage' = "promote"
         \/ pc' = back /\ stage' = "none"
  <2>1. CASE BeginPromotion(forced) /\ pc' = "roots"
    BY <1>1, <2>1, ConstantsAssumption DEF BeginPromotion, TypeOK
  <2>2. CASE Refuse /\ pc' = back
    BY <1>1, <2>2 DEF Refuse, TypeOK
  <2> QED BY <2>1, <2>2 DEF GC_collect_region
<1>4. TypeOK'
  BY <1>1, <1>2, <1>3 DEF TypeOK, Pcs, Stages
<1>5. BitmapMatchesFree' /\ remset' \in Seq(OldSpace(to'))
  BY <1>1, <1>2 DEF BitmapMatchesFree
<1>6. ControlInv'
  <2>1. 1 \in Roots
    BY ConstantsAssumption DEF Roots
  <2> QED BY <1>1, <1>2, <1>3, <2>1 DEF ControlInv
<1> QED BY <1>4, <1>5, <1>6 DEF IInv, OldSpace, OldBase

(* An iteration of GC_copy_roots.                                          *)
LEMMA RootsStep ==
    ASSUME IInv, GC_copy_roots
    PROVE  IInv'
<1>1. /\ TypeOK /\ ControlInv /\ BitmapMatchesFree
      /\ remset \in Seq(OldSpace(to))
  BY DEF IInv
<1>2. /\ pc = "roots" /\ index \in Roots
      /\ root[index] \in Cap \cup {Null}
      /\ UNCHANGED <<yfree, ybitmap, to, oscan, frombitmap, remset,
                     stage, force, request, copying, kroot, snap, sroot>>
  BY <1>1 DEF GC_copy_roots, ControlInv, TypeOK
<1>3. /\ CopyPost
      /\ mem' \in [Words -> Cap \cup {Null}]
      /\ root' \in [Roots -> Cap \cup {Null}]
  <2>1. CASE UNCHANGED <<mem, root, ofree, tobitmap, known, orig>>
    BY <1>1, <2>1, ConstantsAssumption DEF CopyPost, TypeOK, BitmapMatchesFree
  <2>2. CASE /\ CanMove(root[index])
             /\ root' = [root EXCEPT ![index] = Moved(root[index])]
             /\ mem' = CopiedMem(ObjectCap(root[index]))
             /\ GC_copy_object(ObjectCap(root[index]))
    <3>1. CopyPost
      BY <1>1, <1>2, <2>2, CopyObjectStep
    <3>2. /\ Moved(root[index]) \in Cap
          /\ CopiedMem(ObjectCap(root[index])) \in [Words -> Cap \cup {Null}]
      BY <1>1, <1>2, <2>2, CopyTypes
    <3> QED BY <1>1, <2>2, <3>1, <3>2 DEF TypeOK
  <2> QED BY <2>1, <2>2 DEF GC_copy_roots
<1>4. \/ index < NRoots /\ index' = index + 1 /\ pc' = pc
      \/ /\ index' = 1
         /\ pc' = IF stage = "promote" THEN "remset" ELSE "children"
  BY DEF GC_copy_roots
<1>5. TypeOK' /\ BitmapMatchesFree' /\ remset' \in Seq(OldSpace(to'))
  <2>1. oscan' \in 0 .. ofree'
    BY <1>1, <1>2, <1>3, ConstantsAssumption DEF TypeOK, CopyPost
  <2>2. ofree' \in 0 .. OldWords
    BY <1>1, <1>3, ConstantsAssumption DEF TypeOK, CopyPost
  <2> QED BY <1>1, <1>2, <1>3, <1>4, <2>1, <2>2
          DEF TypeOK, BitmapMatchesFree, CopyPost, Pcs, Roots
<1>6. ControlInv'
  <2>1. stage \in Stages
    BY <1>1 DEF TypeOK
  <2>2. pc' = "roots" => index' \in Roots
    BY <1>2, <1>4, ConstantsAssumption DEF Roots
  <2>3. pc' = "remset" => stage' = "promote" /\ index' >= 1
    BY <1>2, <1>4
  <2>4. pc' = "children" => stage' # "none" /\ remset' = <<>>
    <3>1. pc' = "children" => stage # "promote"
      BY <1>2, <1>4
    <3>2. stage # "none"
      BY <1>1, <1>2 DEF ControlInv
    <3> QED BY <1>1, <1>2, <2>1, <3>1, <3>2 DEF ControlInv, Stages
  <2> QED BY <1>1, <1>2, <1>4, <2>2, <2>3, <2>4 DEF ControlInv
<1> QED BY <1>5, <1>6 DEF IInv, OldSpace, OldBase

(* An iteration of GC_copy_remembered_set, and its end.                    *)
LEMMA RemsetStep ==
    ASSUME IInv, GC_copy_remembered_set
    PROVE  IInv'
<1>1. /\ TypeOK /\ ControlInv /\ BitmapMatchesFree
      /\ remset \in Seq(OldSpace(to))
  BY DEF IInv
<1>2. /\ pc = "remset" /\ stage = "promote" /\ index >= 1 /\ index \in Nat
      /\ UNCHANGED <<root, yfree, ybitmap, to, oscan, frombitmap,
                     stage, force, request, copying, kroot, snap, sroot>>
  BY <1>1 DEF GC_copy_remembered_set, ControlInv, TypeOK
<1>3. /\ CopyPost /\ mem' \in [Words -> Cap \cup {Null}]
      /\ \/ index' = index + 1 /\ UNCHANGED <<remset, pc>>
         \/ remset' = <<>> /\ index' = 1 /\ pc' = "children"
  <2>1. CASE /\ index <= Len(remset)
             /\ GC_copy_child(remset[index])
             /\ index' = index + 1
             /\ UNCHANGED <<remset, pc>>
    <3>1. remset \in Seq(Words)
      BY <1>1 DEF TypeOK
    <3>2. remset[index] \in Words
      BY <1>2, <2>1, <3>1
    <3> QED BY <1>1, <2>1, <3>2, CopyChildStep
  <2>2. CASE /\ remset' = <<>> /\ index' = 1 /\ pc' = "children"
             /\ UNCHANGED <<mem, ofree, tobitmap, known, orig>>
    BY <1>1, <2>2, ConstantsAssumption DEF CopyPost, TypeOK, BitmapMatchesFree
  <2> QED BY <2>1, <2>2 DEF GC_copy_remembered_set
<1>4. TypeOK' /\ BitmapMatchesFree' /\ remset' \in Seq(OldSpace(to'))
  <2>1. oscan' \in 0 .. ofree' /\ ofree' \in 0 .. OldWords
    BY <1>1, <1>2, <1>3, ConstantsAssumption DEF TypeOK, CopyPost
  <2>2. remset' \in Seq(OldSpace(to)) /\ remset' \in Seq(Words)
    <3>1. CASE remset' = remset
      BY <1>1, <3>1, RemsetType
    <3>2. CASE remset' = <<>>
      BY <3>2
    <3> QED BY <1>3, <3>1, <3>2
  <2> QED BY <1>1, <1>2, <1>3, <2>1, <2>2
          DEF TypeOK, BitmapMatchesFree, CopyPost, Pcs
<1>5. ControlInv'
  BY <1>1, <1>2, <1>3 DEF ControlInv
<1> QED BY <1>4, <1>5 DEF IInv, OldSpace, OldBase

(* An iteration of GC_copy_children.                                       *)
LEMMA ChildrenStep ==
    ASSUME IInv, GC_copy_children
    PROVE  IInv'
<1>1. /\ TypeOK /\ ControlInv /\ BitmapMatchesFree
      /\ remset \in Seq(OldSpace(to))
  BY DEF IInv
<1>2. /\ oscan < ofree /\ GC_copy_child(ToBase + oscan) /\ oscan' = oscan + 1
      /\ UNCHANGED <<root, yfree, ybitmap, to, frombitmap, remset,
                     ctlVars, kroot, snap, sroot>>
  BY DEF GC_copy_children
<1>3. ToBase + oscan \in Words
  <2>1. /\ to \in {0, 1} /\ oscan \in Nat /\ ofree \in Nat /\ ofree <= OldWords
    BY <1>1, ConstantsAssumption DEF TypeOK
  <2>2. OldBase(to) \in Nat /\ OldSpace(to) \subseteq Words
    BY <2>1, SpacesInMemory
  <2>3. OldBase(to) + oscan \in OldSpace(to)
    BY <1>2, <2>1, <2>2, ConstantsAssumption DEF OldSpace
  <2> QED BY <2>2, <2>3 DEF ToBase
<1>4. CopyPost /\ mem' \in [Words -> Cap \cup {Null}]
  BY <1>1, <1>2, <1>3, CopyChildStep
<1>5. TypeOK' /\ BitmapMatchesFree' /\ remset' \in Seq(OldSpace(to'))
  <2>1. oscan' \in 0 .. ofree' /\ ofree' \in 0 .. OldWords
    BY <1>1, <1>2, <1>4, ConstantsAssumption DEF TypeOK, CopyPost
  <2> QED BY <1>1, <1>2, <1>4, <2>1
          DEF TypeOK, BitmapMatchesFree, CopyPost, ctlVars
<1>6. ControlInv'
  BY <1>1, <1>2 DEF ControlInv, ctlVars
<1> QED BY <1>5, <1>6 DEF IInv, OldSpace, OldBase

(* The GC_fatalf of GC_cap_memcpy.                                         *)
LEMMA FatalStep ==
    ASSUME IInv, GC_fatalf
    PROVE  IInv'
<1>1. /\ pc' = "fatal"
      /\ UNCHANGED <<mem, root, gcVars, remset, stage, index, force, request,
                     copying, known, kroot, histVars>>
  BY DEF GC_fatalf
<1>2. TypeOK' /\ BitmapMatchesFree' /\ remset' \in Seq(OldSpace(to'))
  BY <1>1 DEF IInv, TypeOK, BitmapMatchesFree, gcVars, histVars, Pcs
<1>3. ControlInv'
  BY <1>1 DEF IInv, ControlInv
<1> QED BY <1>2, <1>3 DEF IInv, OldSpace, OldBase

(* A cleared bitmap is a bitmap.                                           *)
LEMMA ClrType ==
    ASSUME NEW size \in Nat, NEW bm \in Bitmaps(size)
    PROVE  GC_bitmap_clr(bm) \in Bitmaps(size) /\ GC_bitmap_clr(bm).used = 0
BY DEF GC_bitmap_clr, Bitmaps

(* The end of a copy: the next collection of the old generation, or the    *)
(* return to the program.                                                  *)
LEMMA CopyEndStep ==
    ASSUME IInv, CopyDone,
           yfree' \in 0 .. YoungWords, ybitmap' \in Bitmaps(YoungWords),
           ybitmap'.used = yfree',
           EndCollection \/ \E why \in {"force", "watermark"} : BeginMajor(why),
           UNCHANGED <<mem, root, remset, request, copying, kroot>>
    PROVE  IInv'
<1>1. /\ TypeOK /\ ControlInv /\ BitmapMatchesFree
      /\ remset = <<>>
  BY DEF IInv, ControlInv, CopyDone
<1>2. OldWords \in Nat /\ NRoots \in Nat \ {0}
  BY ConstantsAssumption
<1>3. CASE EndCollection
  <2>1. /\ stage' = "none" /\ index' = 0 /\ force' = FALSE
        /\ pc' = IF request = NoRequest THEN "run" ELSE "retry"
        /\ UNCHANGED <<to, ofree, oscan, tobitmap, frombitmap>>
    BY <1>3 DEF EndCollection
  <2>2. /\ known' \in [Words -> BOOLEAN]
        /\ snap' \in [Words -> Cap \cup {Null}]
        /\ sroot' \in [Roots -> Cap \cup {Null}]
        /\ orig' \in [Words -> Words]
    BY <1>1, <1>3 DEF EndCollection, TypeOK
  <2>3. TypeOK' /\ BitmapMatchesFree'
    BY <1>1, <2>1, <2>2 DEF TypeOK, BitmapMatchesFree, Pcs, Stages
  <2>4. ControlInv' /\ remset' \in Seq(OldSpace(to'))
    BY <1>1, <2>1 DEF ControlInv
  <2> QED BY <2>3, <2>4 DEF IInv, OldSpace, OldBase
<1>4. ASSUME NEW why \in {"force", "watermark"}, BeginMajor(why)
      PROVE  IInv'
  <2>1. /\ stage' = why /\ pc' = "roots" /\ index' = 1
        /\ to' = 1 - to /\ ofree' = 0 /\ oscan' = 0
        /\ frombitmap' = tobitmap
        /\ tobitmap' = GC_bitmap_clr(frombitmap)
        /\ UNCHANGED <<force, known, snap, sroot, orig>>
    BY <1>4 DEF BeginMajor
  <2>2. tobitmap' \in Bitmaps(OldWords) /\ tobitmap'.used = 0
    BY <1>1, <1>2, <2>1, ClrType DEF TypeOK
  <2>3. TypeOK' /\ BitmapMatchesFree'
    BY <1>1, <1>2, <2>1, <2>2 DEF TypeOK, BitmapMatchesFree, Pcs, Stages
  <2>4. ControlInv' /\ remset' \in Seq(OldSpace(to'))
    BY <1>1, <1>2, <2>1 DEF ControlInv, Roots
  <2> QED BY <2>3, <2>4 DEF IInv, OldSpace, OldBase
<1> QED BY <1>3, <1>4

LEMMA PromotionDoneStep ==
    ASSUME IInv, PromotionDone
    PROVE  IInv'
<1>1. /\ yfree' \in 0 .. YoungWords /\ ybitmap' \in Bitmaps(YoungWords)
      /\ ybitmap'.used = yfree'
  BY ClrType, ConstantsAssumption DEF PromotionDone, IInv, TypeOK
<1>2. /\ CopyDone
      /\ EndCollection \/ \E why \in {"force", "watermark"} : BeginMajor(why)
      /\ UNCHANGED <<mem, root, remset, request, copying, kroot>>
  BY DEF PromotionDone
<1> QED BY <1>1, <1>2, CopyEndStep

LEMMA MajorDoneStep ==
    ASSUME IInv, MajorDone
    PROVE  IInv'
<1>1. /\ yfree' \in 0 .. YoungWords /\ ybitmap' \in Bitmaps(YoungWords)
      /\ ybitmap'.used = yfree'
  BY DEF MajorDone, IInv, TypeOK, BitmapMatchesFree
<1>2. /\ CopyDone
      /\ EndCollection \/ \E why \in {"force", "watermark"} : BeginMajor(why)
      /\ UNCHANGED <<mem, root, remset, request, copying, kroot>>
  BY DEF MajorDone
<1> QED BY <1>1, <1>2, CopyEndStep

(* GC_minor_free and GC_reset.                                             *)
LEMMA FreeStep ==
    ASSUME IInv, GC_minor_free \/ GC_reset
    PROVE  IInv'
<1>1. /\ TypeOK /\ ControlInv /\ BitmapMatchesFree
      /\ remset \in Seq(OldSpace(to))
  BY DEF IInv
<1>2. /\ UNCHANGED <<root, to, frombitmap, remset, ctlVars, histVars>>
      /\ \/ UNCHANGED <<ofree, oscan, tobitmap>>
         \/ /\ ofree' = 0 /\ oscan' = 0
            /\ tobitmap' = GC_bitmap_clr(tobitmap)
      /\ yfree' = 0 /\ ybitmap' = GC_bitmap_clr(ybitmap)
  BY DEF GC_minor_free, GC_reset
<1>3. \E freed \in SUBSET Words : mem' = Zeroed(freed) /\ Forgotten(freed)
  <2>1. /\ YoungSpace \in SUBSET Words
        /\ YoungSpace \cup OldSpace(to) \in SUBSET Words
    BY <1>1, SpacesInMemory DEF TypeOK
  <2> QED BY <2>1 DEF GC_minor_free, GC_reset
<1>4. /\ mem' \in [Words -> Cap \cup {Null}]
      /\ known' \in [Words -> BOOLEAN] /\ kroot' \in [Roots -> BOOLEAN]
  <2>1. PICK freed \in SUBSET Words : mem' = Zeroed(freed) /\ Forgotten(freed)
    BY <1>3
  <2>2. mem' \in [Words -> Cap \cup {Null}]
    BY <1>1, <2>1 DEF Zeroed, TypeOK
  <2>3. known' \in [Words -> BOOLEAN] /\ kroot' \in [Roots -> BOOLEAN]
    BY <1>1, <2>1 DEF Forgotten, StillKnown, TypeOK
  <2> QED BY <2>2, <2>3
<1>5. /\ ybitmap' \in Bitmaps(YoungWords) /\ ybitmap'.used = 0
      /\ tobitmap' \in Bitmaps(OldWords) /\ tobitmap'.used = ofree'
      /\ ofree' \in 0 .. OldWords /\ oscan' \in 0 .. ofree'
      /\ yfree' \in 0 .. YoungWords
  BY <1>1, <1>2, ClrType, ConstantsAssumption DEF TypeOK, BitmapMatchesFree
<1>6. TypeOK' /\ BitmapMatchesFree' /\ remset' \in Seq(OldSpace(to'))
  BY <1>1, <1>2, <1>4, <1>5 DEF TypeOK, BitmapMatchesFree, ctlVars, histVars
<1>7. ControlInv'
  BY <1>1, <1>2 DEF ControlInv, ctlVars
<1> QED BY <1>6, <1>7 DEF IInv, OldSpace, OldBase

(* Every step of the program and of the library preserves the invariant.   *)
LEMMA NextIInv == IInv /\ [Next]_vars => IInv'
<1> SUFFICES ASSUME IInv, [Next]_vars PROVE IInv'
  OBVIOUS
<1>1. CASE Mutator
  <2>1. ASSUME NEW r \in Roots, Clear(r) PROVE IInv'
    BY <2>1, ProgramStep
  <2>2. ASSUME NEW r \in Roots, Forget(r) PROVE IInv'
    BY <2>2, ProgramStep
  <2>3. ASSUME NEW r \in Roots, NEW r2 \in Roots, NEW offset \in Offsets,
               Derive(r, r2, offset)
        PROVE  IInv'
    <3>1. offset \in Nat
      BY ConstantsAssumption
    <3> QED BY <2>3, <3>1, ProgramStep
  <2>4. ASSUME NEW r \in Roots, NEW r2 \in Roots,
               NEW k \in 0 .. (YoungWords - 1), Load(r, k, r2)
        PROVE  IInv'
    BY <2>4, ProgramStep
  <2>5. ASSUME NEW r \in Roots, NEW k \in 0 .. (YoungWords - 1), Store(r, k)
        PROVE  IInv'
    BY <2>5, StoreStep
  <2>6. ASSUME NEW r \in Roots, NEW r2 \in Roots, NEW n \in 1 .. YoungWords,
               GC_memcpy(r2, r, n)
        PROVE  IInv'
    BY <2>6, MemcpyBeginStep, ConstantsAssumption
  <2>7. ASSUME NEW r \in Roots, NEW size \in Sizes,
               GC_malloc(r, size) \/ MallocCollect(r, size)
        PROVE  IInv'
    <3>1. CASE GC_malloc(r, size)
      BY <3>1, MallocStep
    <3>2. CASE MallocCollect(r, size)
      <4>1. /\ pc = "run" /\ GC_collect_region(FALSE, "retry")
            /\ request' = [root |-> r, size |-> size]
        BY <3>2 DEF MallocCollect
      <4>2. size \in Nat \ {0}
        BY ConstantsAssumption
      <4>3. request' \in Requests /\ request'.size > 0 /\ request' # NoRequest
        BY <4>1, <4>2 DEF Requests, NoRequest
      <4> QED BY <4>1, <4>3, CollectStep
    <3> QED BY <2>7, <3>1, <3>2
  <2>8. ASSUME NEW forced \in BOOLEAN, GC_collect2(forced) PROVE IInv'
    <3>1. /\ pc = "run" /\ GC_collect_region(forced, "run")
          /\ request' \in Requests
          /\ request' = NoRequest \/ request'.size > 0
      BY <2>8 DEF GC_collect2, IInv, TypeOK, ControlInv
    <3> QED BY <3>1, CollectStep
  <2>9. ASSUME GC_minor_free \/ GC_reset PROVE IInv'
    BY <2>9, FreeStep
  <2> QED BY <1>1, <2>1, <2>2, <2>3, <2>4, <2>5, <2>6, <2>7, <2>8, <2>9
          DEF Mutator
<1>2. CASE Library
  BY <1>2, MemcpyWordStep, RootsStep, RemsetStep, ChildrenStep,
     PromotionDoneStep, MajorDoneStep, MallocRetryStep, FatalStep DEF Library
<1>3. CASE UNCHANGED vars
  BY <1>3 DEF IInv, TypeOK, BitmapMatchesFree, ControlInv, OldSpace, OldBase,
              vars, gcVars, ctlVars, histVars
<1> QED BY <1>1, <1>2, <1>3 DEF Next

LEMMA AlwaysIInv == Spec => []IInv
BY InitIInv, NextIInv, PTL DEF Spec

(* The free and scan pointers stay in their spaces, a remembered address   *)
(* is one of a heap word, and only whole objects in the fromspace are      *)
(* copied: every variable keeps its type in every program.                 *)
THEOREM TypeCorrect == Spec => []TypeOK
<1>1. IInv => TypeOK
  BY DEF IInv
<1> QED BY <1>1, AlwaysIInv, PTL

(* The allocation bitmaps count what the free pointers have passed.        *)
THEOREM BitmapCorrect == Spec => []BitmapMatchesFree
<1>1. IInv => BitmapMatchesFree
  BY DEF IInv
<1> QED BY <1>1, AlwaysIInv, PTL

(* The remembered set is never used after the old generation has moved.    *)
THEOREM RemsetCorrect == Spec => []RemsetNotStale
<1>1. IInv => RemsetNotStale
  BY DEF IInv, ControlInv, RemsetNotStale
<1> QED BY <1>1, AlwaysIInv, PTL
=============================================================================
