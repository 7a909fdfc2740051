------------------------------ MODULE GCCollect ------------------------------
(***************************************************************************)
(* The generational copying collector of CHERI-GC: GC_malloc, the write    *)
(* barrier GC_STORE_CAP, GC_memcpy, the collections started by             *)
(* GC_collect, GC_major_collect and a failing GC_malloc, GC_minor_free and *)
(* GC_reset, and the program that uses them.                               *)
(*                                                                         *)
(* Memory is an array of capability-sized words.  A word holds a tagged    *)
(* capability [base, len, fwd] (base and len in bytes; fwd: the forwarding *)
(* permission is cleared) or Null, which stands for all untagged data.     *)
(* The young generation has one space, the old generation two semispaces.  *)
(* Between the spaces lies one unused word, for the padding that each of   *)
(* the spaces' malloc blocks has.                                          *)
(*                                                                         *)
(* The program is stopped while the collector runs; the collector takes    *)
(* one step for each location that it visits.  Neither region can grow     *)
(* here: both are at the maximum size they are configured with, where      *)
(* GC_grow returns 0 without an effect (gc_low.c:353).                     *)
(***************************************************************************)
EXTENDS Integers, Sequences, FiniteSets, GCBitmap

CONSTANTS
    WordBytes,      \* sizeof(GC_cap_ptr): 32 in the code, scaled down for TLC
    YoungWords,     \* size of the young generation's space, in words
    OldWords,       \* size of each of the old generation's semispaces
    NRoots,         \* stack, register and static words that the collector scans
    Sizes,          \* the sizes, in bytes, that the program asks GC_malloc for
    Offsets,        \* the distances, in bytes, of interior pointers
    WatermarkNum,   \* GC_OLD_GENERATION_HIGH_WATERMARK, as a fraction
    WatermarkDen,
    Program,        \* the operations that the program makes use of
    CopiesUninitialised,  \* may GC_memcpy's first word be one never written?
    Null            \* an untagged word

Operations == {"clear", "forget", "derive", "load", "store", "memcpy",
               "malloc", "collect", "major_collect", "minor_free", "reset"}

ASSUME ConstantsAssumption ==
    /\ WordBytes \in Nat \ {0}
    /\ YoungWords \in Nat \ {0}
    /\ OldWords \in Nat \ {0}
    /\ NRoots \in Nat \ {0}
    /\ Sizes \subseteq Nat \ {0}
    /\ Offsets \subseteq Nat
    /\ WatermarkNum \in Nat /\ WatermarkDen \in Nat \ {0}
    /\ WatermarkNum <= WatermarkDen
    /\ Program \subseteq Operations
    /\ CopiesUninitialised \in BOOLEAN

Roots == 1 .. NRoots

YoungBase == 0
OldBase(space) == YoungWords + 1 + space * (OldWords + 1)
Words == 0 .. (YoungWords + 2 * OldWords + 1)

YoungSpace == YoungBase .. (YoungBase + YoungWords - 1)
OldSpace(space) == OldBase(space) .. (OldBase(space) + OldWords - 1)

Cap == [base : Nat, len : Nat, fwd : BOOLEAN]

ASSUME NullAssumption == Null \notin Cap

NoRequest == [root |-> 1, size |-> 0]
Requests == [root : Roots, size : Nat]

NoCopying == [src |-> 0, dest |-> 0, words |-> 0]

(* What the copying of objects is for: a promotion out of the young        *)
(* generation, the major collection that GC_major_collect forces after it, *)
(* the one that the high watermark triggers.                               *)
Stages == {"none", "promote", "force", "watermark"}

VARIABLES
    mem,        \* the words of the three spaces and of the gaps between them
    root,       \* the words scanned as roots, in the order they are scanned
    yfree,      \* words in use in the young space (region->free - tospace)
    ybitmap,    \* the young region's tospace_bitmap
    to,         \* which semispace is the old region's tospace
    ofree,      \* words in use in the old region's tospace
    oscan,      \* the old region's scan pointer, relative to its tospace
    tobitmap,   \* the old region's tospace_bitmap
    frombitmap, \* the old region's fromspace_bitmap
    remset,     \* the young region's remembered set: addresses of old words
    pc,         \* where the program or the collector is
    stage,      \* what the objects are being copied for
    index,      \* next root, or next element of the remembered set, to visit
    force,      \* force_major_collection
    request,    \* the GC_malloc that waits for the collection
    copying,    \* the words that GC_memcpy is copying
    \* History variables, which no step of the program depends on:
    known,      \* words whose value the program wrote and may rely on
    kroot,      \* the same for the roots
    snap,       \* mem when the collection began
    sroot,      \* root when the collection began
    orig        \* the word a word is a copy of

gcVars == <<yfree, ybitmap, to, ofree, oscan, tobitmap, frombitmap>>
ctlVars == <<pc, stage, index, force, request, copying>>
histVars == <<snap, sroot, orig>>
vars == <<mem, root, gcVars, remset, ctlVars, known, kroot, histVars>>

-----------------------------------------------------------------------------
(* Capabilities and spaces.                                                *)

(* GC_ALIGN_32(n)/32: the number of words that n bytes take.               *)
AlignWords(n) == (n + (WordBytes - 1)) \div WordBytes

WordOf(cap) == cap.base \div WordBytes

GC_setbaselen(cap, base, len) == [base |-> base, len |-> len, fwd |-> cap.fwd]

(* GC_IN(cap.base, the space of n words that starts at word b).            *)
GC_IN(cap, b, n) ==
    /\ cap # Null
    /\ b * WordBytes <= cap.base
    /\ cap.base < (b + n) * WordBytes

ToBase == OldBase(to)

(* GC_gen_promote puts the young region's space and bitmap in the place of *)
(* the old region's fromspace while it promotes.                           *)
FromBase == IF stage = "promote" THEN YoungBase ELSE OldBase(1 - to)
FromWords == IF stage = "promote" THEN YoungWords ELSE OldWords
FromBitmap == IF stage = "promote" THEN ybitmap ELSE frombitmap

InFromspace(cap) == GC_IN(cap, FromBase, FromWords)

IsYoung(cap) == GC_IN(cap, YoungBase, YoungWords)

AllocatedWords == (YoungBase .. (YoungBase + yfree - 1))
                  \cup (ToBase .. (ToBase + ofree - 1))

-----------------------------------------------------------------------------
Init ==
    /\ mem = [w \in Words |-> Null]
    /\ root = [r \in Roots |-> Null]
    /\ yfree = 0 /\ ybitmap = GC_init_bitmap(YoungWords)
    /\ to = 0 /\ ofree = 0 /\ oscan = 0
    /\ tobitmap = GC_init_bitmap(OldWords)
    /\ frombitmap = GC_init_bitmap(OldWords)
    /\ remset = <<>>
    /\ pc = "run" /\ stage = "none" /\ index = 0
    /\ force = FALSE /\ request = NoRequest /\ copying = NoCopying
    /\ known = [w \in Words |-> FALSE]
    /\ kroot = [r \in Roots |-> TRUE]
    /\ snap = [w \in Words |-> Null]
    /\ sroot = [r \in Roots |-> Null]
    /\ orig = [w \in Words |-> w]

-----------------------------------------------------------------------------
(* The program's own loads and stores.                                     *)

(* A root that the program may use as a pointer.                           *)
Usable(r) == pc = "run" /\ kroot[r] /\ root[r] # Null

(* Word k of what root r points to is inside the bounds of its capability, *)
(* and so in the memory that is modelled (NoDangling says where).          *)
InBounds(r, k) == /\ root[r].base % WordBytes = 0
                  /\ (k + 1) * WordBytes <= root[r].len
                  /\ WordOf(root[r]) + k \in Words

SetRoot(r, cap) ==
    /\ root' = [root EXCEPT ![r] = cap]
    /\ kroot' = [kroot EXCEPT ![r] = TRUE]

(* r = NULL;                                                               *)
Clear(r) ==
    /\ pc = "run" /\ root[r] # Null
    /\ SetRoot(r, Null)
    /\ UNCHANGED <<mem, gcVars, remset, ctlVars, known, histVars>>

(* The lifetime of the variable in word r of the stack or of a register    *)
(* ends; the bits stay, and the collector will still see them.             *)
Forget(r) ==
    /\ Usable(r)
    /\ kroot' = [kroot EXCEPT ![r] = FALSE]
    /\ UNCHANGED <<mem, root, gcVars, remset, ctlVars, known, histVars>>

(* r2 = r + offset: an interior pointer to the rest of what r points to.   *)
Derive(r, r2, offset) ==
    /\ Usable(r) /\ offset < root[r].len
    /\ SetRoot(r2, GC_setbaselen(root[r], root[r].base + offset,
                                          root[r].len - offset))
    /\ root'[r2] # root[r2] \/ ~kroot[r2]
    /\ UNCHANGED <<mem, gcVars, remset, ctlVars, known, histVars>>

(* r2 = r[k];                                                              *)
Load(r, k, r2) ==
    /\ Usable(r) /\ InBounds(r, k)
    /\ known[WordOf(root[r]) + k]
    /\ SetRoot(r2, mem[WordOf(root[r]) + k])
    /\ UNCHANGED <<mem, gcVars, remset, ctlVars, known, histVars>>

(* GC_remembered_set_add leaves out an address that is there already.      *)
GC_remembered_set_add(set, address) ==
    IF \E i \in DOMAIN set : set[i] = address
    THEN set
    ELSE Append(set, address)

(* Defect: the write barrier is left out.                                  *)
BarrierOmitted(set, x, cap) == set

(* GC_handle_oy_store for the store of cap into word x.                    *)
Barrier(set, x, cap) ==
    IF x \in OldSpace(to) /\ IsYoung(cap)
    THEN GC_remembered_set_add(set, x)
    ELSE set

(* GC_STORE_CAP(r[k], y), where y is a root or NULL.                       *)
GC_STORE_CAP(r, k, cap) ==
    LET x == WordOf(root[r]) + k IN
    /\ Usable(r) /\ InBounds(r, k)
    /\ remset' = Barrier(remset, x, cap)
    /\ mem' = [mem EXCEPT ![x] = cap]
    /\ known' = [known EXCEPT ![x] = TRUE]
    /\ UNCHANGED <<root, gcVars, ctlVars, kroot, histVars>>

Store(r, k) ==
    \/ GC_STORE_CAP(r, k, Null)
    \/ \E y \in Roots : kroot[y] /\ GC_STORE_CAP(r, k, root[y])

(* f after the n words at s were copied to d.                              *)
CopyWords(f, s, d, n) ==
    [w \in Words |-> IF w \in d .. (d + n - 1) THEN f[s + (w - d)] ELSE f[w]]

(* GC_memcpy(r2, r, n words): memcpy copies the data without the tags.     *)
(* memcpy forbids overlapping arguments.  Words the program never wrote    *)
(* may be copied with the others; whether the first one may be such a word *)
(* is up to CopiesUninitialised.                                           *)
GC_memcpy(r2, r, n) ==
    LET s == WordOf(root[r])
        d == WordOf(root[r2]) IN
    /\ Usable(r) /\ InBounds(r, n - 1)
    /\ Usable(r2) /\ InBounds(r2, n - 1)
    /\ (s .. (s + n - 1)) \cap (d .. (d + n - 1)) = {}
    /\ known[s] \/ CopiesUninitialised
    /\ mem' = [w \in Words |-> IF w \in d .. (d + n - 1) THEN Null ELSE mem[w]]
    /\ known' = CopyWords(known, s, d, n)
    /\ copying' = [src |-> s, dest |-> d, words |-> n]
    /\ pc' = "memcpy" /\ index' = 0
    /\ UNCHANGED <<root, gcVars, remset, stage, force, request, kroot,
                   histVars>>

(* One iteration of GC_memcpy's loop: a tagged word is stored again, with  *)
(* GC_STORE_CAP.                                                           *)
MemcpyWord ==
    LET x == copying.dest + index
        cap == mem[copying.src + index] IN
    /\ pc = "memcpy"
    /\ \/ /\ cap # Null
          /\ remset' = Barrier(remset, x, cap)
          /\ mem' = [mem EXCEPT ![x] = cap]
       \/ /\ cap = Null
          /\ UNCHANGED <<remset, mem>>
    /\ \/ /\ index + 1 < copying.words
          /\ index' = index + 1
          /\ UNCHANGED <<pc, copying>>
       \/ /\ index + 1 >= copying.words
          /\ index' = 0 /\ pc' = "run" /\ copying' = NoCopying
    /\ UNCHANGED <<root, gcVars, stage, force, request, known, kroot,
                   histVars>>

-----------------------------------------------------------------------------
(* GC_malloc.                                                              *)

(* Defect: one word too many is taken for free.                            *)
FitsOffByOne(size) == AlignWords(size) <= YoungWords - yfree + 1

Fits(size) == AlignWords(size) <= YoungWords - yfree

(* Defect: the first word is not untagged.                                 *)
AllocateKeepsTag(r, size) ==
    LET first == YoungBase + yfree
        n == AlignWords(size) IN
    /\ SetRoot(r, [base |-> first * WordBytes, len |-> size, fwd |-> FALSE])
    /\ yfree' = yfree + n
    /\ ybitmap' = GC_bitmap_allocate(ybitmap, n)
    /\ known' = [w \in Words |->
                    IF w \in first .. (first + n - 1) THEN FALSE ELSE known[w]]
    /\ UNCHANGED <<mem, to, ofree, oscan, tobitmap, frombitmap>>

(* Bump the free pointer, record the object in the bitmap, and overwrite   *)
(* the first byte of the object, which untags its first word.  The other   *)
(* words keep what the space held before.                                  *)
Allocate(r, size) ==
    LET first == YoungBase + yfree
        n == AlignWords(size) IN
    /\ SetRoot(r, [base |-> first * WordBytes, len |-> size, fwd |-> FALSE])
    /\ yfree' = yfree + n
    /\ ybitmap' = GC_bitmap_allocate(ybitmap, n)
    /\ mem' = [mem EXCEPT ![first] = Null]
    /\ known' = [w \in Words |->
                    IF w \in first .. (first + n - 1) THEN FALSE ELSE known[w]]
    /\ UNCHANGED <<to, ofree, oscan, tobitmap, frombitmap>>

(* r = GC_malloc(size) when there is room for it.                          *)
GC_malloc(r, size) ==
    /\ pc = "run" /\ Fits(size)
    /\ Allocate(r, size)
    /\ UNCHANGED <<remset, ctlVars, histVars>>

(* The rest of GC_malloc_region after it has collected.                    *)
MallocRetry ==
    /\ pc = "retry"
    /\ \/ /\ Fits(request.size)
          /\ Allocate(request.root, request.size)
       \/ /\ ~Fits(request.size)
          /\ SetRoot(request.root, Null)
          /\ UNCHANGED <<mem, gcVars, known>>
    /\ pc' = "run" /\ request' = NoRequest
    /\ UNCHANGED <<remset, stage, index, force, copying, histVars>>

-----------------------------------------------------------------------------
(* GC_collect_region on the young region, and GC_gen_promote.              *)

(* Defect: the estimate counts half of the young space as garbage.         *)
PromotionFitsOptimistic == OldWords - ofree >= yfree \div 2

(* The estimate of GC_gen_promote: everything in use in the young space    *)
(* has to fit into the free part of the old region's tospace.              *)
PromotionFits == OldWords - ofree >= yfree

Refuse == UNCHANGED <<oscan, stage, index, force, snap, sroot, orig>>

BeginPromotion(forced) ==
    /\ stage' = "promote" /\ index' = 1 /\ force' = forced
    /\ oscan' = ofree
    /\ snap' = mem /\ sroot' = root
    /\ orig' = [w \in Words |-> w]

(* GC_collect_region(young region, forced), called with `back' as the      *)
(* place to return to.                                                     *)
GC_collect_region(forced, back) ==
    /\ \/ /\ PromotionFits
          /\ BeginPromotion(forced)
          /\ pc' = "roots"
       \/ /\ ~PromotionFits
          /\ Refuse
          /\ pc' = back
    /\ UNCHANGED <<mem, root, yfree, ybitmap, to, ofree, tobitmap,
                   frombitmap, remset, copying, known, kroot>>

(* GC_collect() and GC_major_collect().                                    *)
GC_collect2(forced) ==
    /\ pc = "run"
    /\ GC_collect_region(forced, "run")
    /\ UNCHANGED request

(* r = GC_malloc(size) when there is no room for it.                       *)
MallocCollect(r, size) ==
    /\ pc = "run" /\ ~Fits(size)
    /\ request' = [root |-> r, size |-> size]
    /\ GC_collect_region(FALSE, "retry")

-----------------------------------------------------------------------------
(* Copying one object.                                                     *)

PosInFromspace(cap) == WordOf(cap) - FromBase

(* GC_IS_IN_FROMSPACE_BITMAP(cap).                                         *)
IsExact(cap) ==
    GC_bitmap_find(FromBitmap, PosInFromspace(cap), AlignWords(cap.len))

(* The distance in words of an interior pointer from the object's start.   *)
Relbase(cap) ==
    PosInFromspace(cap) - ContainerStart(FromBitmap, PosInFromspace(cap))

ContainerBytes(cap) ==
    WordBytes * ContainerLen(FromBitmap, PosInFromspace(cap))

IsInterior(cap) ==
    /\ ~IsExact(cap)
    /\ HasContainer(FromBitmap, PosInFromspace(cap))
    /\ cap.len <= ContainerBytes(cap) - WordBytes * Relbase(cap)

(* The collector leaves a word alone that does not point into an object of *)
(* the fromspace.                                                          *)
Skipped(cap) == ~(InFromspace(cap) /\ (IsExact(cap) \/ IsInterior(cap)))

(* The capability that is handed to GC_copy_object.                        *)
ObjectCap(cap) ==
    IF IsExact(cap) THEN cap
    ELSE GC_setbaselen(cap, cap.base - WordBytes * Relbase(cap),
                            ContainerBytes(cap))

IsForwarded(obj) == mem[WordOf(obj)] # Null /\ mem[WordOf(obj)].fwd

(* What GC_copy_object returns: the stripped forwarding address, or the    *)
(* copy that it is about to make at the free pointer.                      *)
CopyOf(obj) ==
    IF IsForwarded(obj)
    THEN [mem[WordOf(obj)] EXCEPT !.fwd = FALSE]
    ELSE [base |-> (ToBase + ofree) * WordBytes, len |-> obj.len, fwd |-> FALSE]

(* Defect: an interior pointer becomes a pointer to the object's start.    *)
MovedToStart(cap) == [CopyOf(ObjectCap(cap)) EXCEPT !.len = cap.len]

(* The new value of the visited word: an interior pointer keeps its        *)
(* distance from the start and its length.                                 *)
Moved(cap) ==
    LET copy == CopyOf(ObjectCap(cap)) IN
    IF IsExact(cap) THEN copy
    ELSE GC_setbaselen(copy, copy.base + WordBytes * Relbase(cap), cap.len)

(* Defect: no forwarding address is left behind.                           *)
CopiedMemUnforwarded(obj) ==
    IF IsForwarded(obj) THEN mem
    ELSE CopyWords(mem, WordOf(obj), ToBase + ofree, AlignWords(obj.len))

(* Defect: the forwarding address is written before the words are copied.  *)
CopiedMemForwardedEarly(obj) ==
    IF IsForwarded(obj) THEN mem
    ELSE CopyWords([mem EXCEPT ![WordOf(obj)] = [CopyOf(obj) EXCEPT !.fwd = TRUE]],
                   WordOf(obj), ToBase + ofree, AlignWords(obj.len))

(* GC_copy_object: copy the words, leave a forwarding address in the first *)
(* word of the original, bump the free pointer and record the copy.        *)
CopiedMem(obj) ==
    IF IsForwarded(obj) THEN mem
    ELSE [CopyWords(mem, WordOf(obj), ToBase + ofree, AlignWords(obj.len))
             EXCEPT ![WordOf(obj)] = [CopyOf(obj) EXCEPT !.fwd = TRUE]]

GC_copy_object(obj) ==
    LET s == WordOf(obj)
        d == ToBase + ofree
        n == AlignWords(obj.len) IN
    \/ /\ IsForwarded(obj)
       /\ UNCHANGED <<ofree, tobitmap, known, orig>>
    \/ /\ ~IsForwarded(obj)
       /\ known' = CopyWords(known, s, d, n)
       /\ orig' = CopyWords(orig, s, d, n)
       /\ ofree' = ofree + n
       /\ tobitmap' = GC_bitmap_allocate(tobitmap, n)

(* GC_cap_memcpy ends the program when an address is not word-aligned; so  *)
(* does the load of the forwarding address before it, on the hardware.     *)
IsMisaligned(cap) ==
    ~Skipped(cap) /\ ObjectCap(cap).base % WordBytes # 0

(* Past the end of the tospace the copy would have no defined outcome;     *)
(* CopyFits says that it never comes to that.                              *)
HasRoom(obj) == IsForwarded(obj) \/ AlignWords(obj.len) <= OldWords - ofree

CanMove(cap) ==
    ~Skipped(cap) /\ ~IsMisaligned(cap) /\ HasRoom(ObjectCap(cap))

(* The value that the collector looks at in the next step.                 *)
Visited ==
    CASE pc = "roots" -> root[index]
      [] pc = "remset" /\ index <= Len(remset) -> mem[remset[index]]
      [] pc = "children" /\ oscan < ofree -> mem[ToBase + oscan]
      [] OTHER -> Null

(* The program ends in the GC_fatalf of GC_cap_memcpy.                     *)
GC_fatalf ==
    /\ IsMisaligned(Visited) /\ pc' = "fatal"
    /\ UNCHANGED <<mem, root, gcVars, remset, stage, index, force, request,
                   copying, known, kroot, histVars>>

(* One iteration of GC_copy_roots.                                         *)
GC_copy_roots ==
    /\ pc = "roots"
    /\ \/ /\ Skipped(root[index])
          /\ UNCHANGED <<mem, root, ofree, tobitmap, known, orig>>
       \/ /\ CanMove(root[index])
          /\ root' = [root EXCEPT ![index] = Moved(root[index])]
          /\ mem' = CopiedMem(ObjectCap(root[index]))
          /\ GC_copy_object(ObjectCap(root[index]))
    /\ \/ index < NRoots /\ index' = index + 1 /\ pc' = pc
       \/ /\ index = NRoots /\ index' = 1
          /\ pc' = IF stage = "promote" THEN "remset" ELSE "children"
    /\ UNCHANGED <<yfree, ybitmap, to, oscan, frombitmap, remset,
                   stage, force, request, copying, kroot, snap, sroot>>

(* GC_copy_child on word x.                                                *)
GC_copy_child(x) ==
    \/ /\ Skipped(mem[x])
       /\ UNCHANGED <<mem, ofree, tobitmap, known, orig>>
    \/ /\ CanMove(mem[x])
       /\ mem' = [CopiedMem(ObjectCap(mem[x])) EXCEPT ![x] = Moved(mem[x])]
       /\ GC_copy_object(ObjectCap(mem[x]))

(* Defect: the remembered set is not emptied.                              *)
GC_copy_remembered_setKept ==
    /\ pc = "remset"
    /\ \/ /\ index <= Len(remset)
          /\ GC_copy_child(remset[index])
          /\ index' = index + 1
          /\ UNCHANGED pc
       \/ /\ index > Len(remset)
          /\ index' = 1 /\ pc' = "children"
          /\ UNCHANGED <<mem, ofree, tobitmap, known, orig>>
    /\ UNCHANGED <<root, yfree, ybitmap, to, oscan, frombitmap, remset,
                   stage, force, request, copying, kroot, snap, sroot>>

(* Defect: the remembered set is emptied but not visited.                  *)
GC_copy_remembered_setSkipped ==
    /\ pc = "remset"
    /\ remset' = <<>> /\ index' = 1 /\ pc' = "children"
    /\ UNCHANGED <<mem, root, gcVars, stage, force, request, copying, known,
                   kroot, histVars>>

(* One iteration of GC_copy_remembered_set, and its end.                   *)
GC_copy_remembered_set ==
    /\ pc = "remset"
    /\ \/ /\ index <= Len(remset)
          /\ GC_copy_child(remset[index])
          /\ index' = index + 1
          /\ UNCHANGED <<remset, pc>>
       \/ /\ index > Len(remset)
          /\ remset' = <<>> /\ index' = 1 /\ pc' = "children"
          /\ UNCHANGED <<mem, ofree, tobitmap, known, orig>>
    /\ UNCHANGED <<root, yfree, ybitmap, to, oscan, frombitmap,
                   stage, force, request, copying, kroot, snap, sroot>>

(* Defect: the scan pointer stays at a word that has no tag.               *)
GC_copy_childrenStays ==
    /\ pc = "children" /\ oscan < ofree
    /\ GC_copy_child(ToBase + oscan)
    /\ oscan' = IF mem[ToBase + oscan] = Null THEN oscan ELSE oscan + 1
    /\ UNCHANGED <<root, yfree, ybitmap, to, frombitmap, remset,
                   ctlVars, kroot, snap, sroot>>

(* One iteration of GC_copy_children.                                      *)
GC_copy_children ==
    /\ pc = "children" /\ oscan < ofree
    /\ GC_copy_child(ToBase + oscan)
    /\ oscan' = oscan + 1
    /\ UNCHANGED <<root, yfree, ybitmap, to, frombitmap, remset,
                   ctlVars, kroot, snap, sroot>>

-----------------------------------------------------------------------------
(* The end of a copy.                                                      *)

(* The old generation's free part is below what the watermark leaves.      *)
HitsWatermark ==
    (OldWords - ofree) * WordBytes
        < ((WatermarkDen - WatermarkNum) * (OldWords * WordBytes))
            \div WatermarkDen

(* Defect: the scan pointer is left at the end of the other space.         *)
BeginMajorKeepsScan(why) ==
    /\ stage' = why /\ pc' = "roots" /\ index' = 1
    /\ to' = 1 - to /\ ofree' = 0
    /\ frombitmap' = tobitmap
    /\ tobitmap' = GC_bitmap_clr(frombitmap)
    /\ UNCHANGED <<oscan, force, known, snap, sroot, orig>>

(* GC_collect_region on the old region: swap the spaces and the bitmaps.   *)
BeginMajor(why) ==
    /\ stage' = why /\ pc' = "roots" /\ index' = 1
    /\ to' = 1 - to /\ ofree' = 0 /\ oscan' = 0
    /\ frombitmap' = tobitmap
    /\ tobitmap' = GC_bitmap_clr(frombitmap)
    /\ UNCHANGED <<force, known, snap, sroot, orig>>

(* GC_collect_region returns to the program or to GC_malloc_region.        *)
EndCollection ==
    /\ stage' = "none" /\ index' = 0 /\ force' = FALSE
    /\ pc' = IF request = NoRequest THEN "run" ELSE "retry"
    /\ UNCHANGED <<to, ofree, oscan, tobitmap, frombitmap>>
    /\ known' = [w \in Words |->
                    w \in ToBase .. (ToBase + ofree - 1) /\ known[w]]
    /\ snap' = [w \in Words |-> Null]
    /\ sroot' = [r \in Roots |-> Null]
    /\ orig' = [w \in Words |-> w]

CopyDone == pc = "children" /\ oscan = ofree

(* The rest of GC_gen_promote: the young region is empty; GC_major_collect *)
(* or the watermark make the old region be collected.                      *)
PromotionDone ==
    /\ CopyDone /\ stage = "promote"
    /\ yfree' = 0 /\ ybitmap' = GC_bitmap_clr(ybitmap)
    /\ \/ force /\ BeginMajor("force")
       \/ ~force /\ HitsWatermark /\ BeginMajor("watermark")
       \/ ~force /\ ~HitsWatermark /\ EndCollection
    /\ UNCHANGED <<mem, root, remset, request, copying, kroot>>

(* A forced major collection is followed by the watermark's test as well.  *)
MajorDone ==
    /\ CopyDone /\ stage \in {"force", "watermark"}
    /\ \/ stage = "force" /\ HitsWatermark /\ BeginMajor("watermark")
       \/ ~(stage = "force" /\ HitsWatermark) /\ EndCollection
    /\ UNCHANGED <<mem, root, yfree, ybitmap, remset, request, copying, kroot>>

-----------------------------------------------------------------------------
(* GC_minor_free and GC_reset.                                             *)

(* The program may no longer rely on pointers into the freed words.        *)
StillKnown(k, value, freed) ==
    [x \in DOMAIN k |->
        k[x] /\ (value[x] = Null \/ WordOf(value[x]) \notin freed)]

(* GC_reset_region empties a space and zeroes it; the remembered set stays *)
(* as it is.                                                               *)
Zeroed(freed) == [w \in Words |-> IF w \in freed THEN Null ELSE mem[w]]

Forgotten(freed) ==
    /\ known' = [w \in Words |->
                    w \notin freed /\ StillKnown(known, mem, freed)[w]]
    /\ kroot' = StillKnown(kroot, root, freed)

GC_minor_free ==
    /\ pc = "run"
    /\ yfree' = 0 /\ ybitmap' = GC_bitmap_clr(ybitmap)
    /\ mem' = Zeroed(YoungSpace)
    /\ Forgotten(YoungSpace)
    /\ UNCHANGED <<root, to, ofree, oscan, tobitmap, frombitmap, remset,
                   ctlVars, histVars>>

GC_reset ==
    /\ pc = "run"
    /\ yfree' = 0 /\ ybitmap' = GC_bitmap_clr(ybitmap)
    /\ ofree' = 0 /\ oscan' = 0 /\ tobitmap' = GC_bitmap_clr(tobitmap)
    /\ mem' = Zeroed(YoungSpace \cup OldSpace(to))
    /\ Forgotten(YoungSpace \cup OldSpace(to))
    /\ UNCHANGED <<root, to, frombitmap, remset, ctlVars, histVars>>

-----------------------------------------------------------------------------
Mutator ==
    \/ "clear" \in Program /\ \E r \in Roots : Clear(r)
    \/ "forget" \in Program /\ \E r \in Roots : Forget(r)
    \/ /\ "derive" \in Program
       /\ \E r, r2 \in Roots, offset \in Offsets : Derive(r, r2, offset)
    \/ /\ "load" \in Program
       /\ \E r, r2 \in Roots, k \in 0 .. (YoungWords - 1) : Load(r, k, r2)
    \/ /\ "store" \in Program
       /\ \E r \in Roots, k \in 0 .. (YoungWords - 1) : Store(r, k)
    \/ /\ "memcpy" \in Program
       /\ \E r, r2 \in Roots, n \in 1 .. YoungWords : GC_memcpy(r2, r, n)
    \/ /\ "malloc" \in Program
       /\ \E r \in Roots, size \in Sizes :
             GC_malloc(r, size) \/ MallocCollect(r, size)
    \/ "collect" \in Program /\ GC_collect2(FALSE)
    \/ "major_collect" \in Program /\ GC_collect2(TRUE)
    \/ "minor_free" \in Program /\ GC_minor_free
    \/ "reset" \in Program /\ GC_reset

Library ==
    \/ MemcpyWord
    \/ GC_copy_roots
    \/ GC_copy_remembered_set
    \/ GC_copy_children
    \/ PromotionDone
    \/ MajorDone
    \/ MallocRetry
    \/ GC_fatalf

Next == Mutator \/ Library

Spec == Init /\ [][Next]_vars

(* A call of the library runs on: there is one thread of control, and the  *)
(* program has handed it over.                                             *)
FairSpec == Spec /\ WF_vars(Library)

-----------------------------------------------------------------------------
(* Properties.                                                             *)

Pcs == {"run", "memcpy", "retry", "roots", "remset", "children", "fatal"}

(* Every variable has its type: in particular the free and scan pointers   *)
(* stay inside their spaces and the remembered set holds addresses of      *)
(* words (gc_init.h:60, struct GC_region).                                 *)
TypeOK ==
    /\ mem \in [Words -> Cap \cup {Null}]
    /\ root \in [Roots -> Cap \cup {Null}]
    /\ yfree \in 0 .. YoungWords /\ ybitmap \in Bitmaps(YoungWords)
    /\ to \in {0, 1} /\ ofree \in 0 .. OldWords /\ oscan \in 0 .. ofree
    /\ tobitmap \in Bitmaps(OldWords) /\ frombitmap \in Bitmaps(OldWords)
    /\ remset \in Seq(Words)
    /\ pc \in Pcs /\ stage \in Stages /\ index \in Nat
    /\ force \in BOOLEAN /\ request \in Requests
    /\ copying \in [src : Words, dest : Words, words : Nat]
    /\ known \in [Words -> BOOLEAN] /\ kroot \in [Roots -> BOOLEAN]
    /\ snap \in [Words -> Cap \cup {Null}]
    /\ sroot \in [Roots -> Cap \cup {Null}]
    /\ orig \in [Words -> Words]

(* The bitmap of a region counts the words that its free pointer has       *)
(* passed: GC_bitmap_allocate sets the bit of the object that is being     *)
(* placed at the free pointer only because of that (gc_bitmap.h:25-26).    *)
BitmapMatchesFree == ybitmap.used = yfree /\ tobitmap.used = ofree

(* GC_copy_object never copies past the end of the tospace (the assertion  *)
(* at gc_collect.c:263): the estimate that GC_gen_promote makes, and the   *)
(* forwarding addresses that keep an object from being copied twice, are   *)
(* enough even when conservative roots and uninitialised words keep        *)
(* garbage alive.                                                          *)
CopyFits == ~Skipped(Visited) => HasRoom(ObjectCap(Visited))

(* While objects are copied, the first word of an object of the fromspace  *)
(* is taken for a forwarding address only when the object has been copied, *)
(* and it then names the copy (gc_collect.c:247-255).  A forwarding        *)
(* address left over from an earlier collection would break this.          *)
ForwardingSound ==
    stage # "none" =>
        \A p \in FromBitmap.map :
            LET c == mem[FromBase + p] IN
            p < FromBitmap.used /\ c # Null /\ c.fwd =>
                /\ GC_IN(c, ToBase, ofree)
                /\ WordOf(c) - ToBase \in tobitmap.map
                /\ orig[WordOf(c)] = orig[FromBase + p]

(* The value c stands for the value v that the program had when the        *)
(* collection began: the same word of the same object, with as many words  *)
(* left in its bounds.                                                     *)
SameMeaning(c, v) ==
    IF v = Null THEN c = Null
    ELSE /\ c # Null /\ ~c.fwd
         /\ orig[WordOf(c)] = WordOf(v)
         /\ c.base % WordBytes = v.base % WordBytes
         /\ AlignWords(c.len) = AlignWords(v.len)

(* A collection does not change what the program sees: each root, and each *)
(* word of an object in the tospace, that the program may rely on stands   *)
(* for what it stood for before (GC_copy_roots, GC_copy_child).            *)
GraphPreserved ==
    stage # "none" =>
        /\ \A r \in Roots : kroot[r] => SameMeaning(root[r], sroot[r])
        /\ \A w \in ToBase .. (ToBase + ofree - 1) :
              known[w] => SameMeaning(mem[w], snap[orig[w]])

(* Two pointers to one object still share it afterwards: no word is copied *)
(* twice within the tospace.                                               *)
SharingPreserved ==
    \A w1, w2 \in ToBase .. (ToBase + ofree - 1) :
        w1 # w2 => orig[w1] # orig[w2]

(* cap lies inside an object of a space that starts at word b.             *)
PointsInto(cap, bm, b, n) ==
    /\ GC_IN(cap, b, n)
    /\ HasContainer(bm, WordOf(cap) - b)
    /\ WordOf(cap) - b - ContainerStart(bm, WordOf(cap) - b)
          + AlignWords(cap.len) <= ContainerLen(bm, WordOf(cap) - b)

ValidPointer(cap) ==
    \/ PointsInto(cap, ybitmap, YoungBase, YoungWords)
    \/ PointsInto(cap, tobitmap, ToBase, OldWords)

(* Outside a collection every pointer that the program may rely on points  *)
(* into an allocated object and stays within its bounds: nothing that can  *)
(* be reached has been freed.                                              *)
NoDangling ==
    pc = "run" =>
        /\ \A r \in Roots :
              kroot[r] /\ root[r] # Null => ValidPointer(root[r])
        /\ \A w \in AllocatedWords :
              known[w] /\ mem[w] # Null => ValidPointer(mem[w])

(* The write barrier has recorded every word of the old generation that    *)
(* holds a pointer into the young one (GC_STORE_CAP, gc_low.h:198), since  *)
(* a promotion does not look at any other word of the old generation.      *)
RememberedSetComplete ==
    pc = "run" =>
        \A w \in ToBase .. (ToBase + ofree - 1) :
            known[w] /\ IsYoung(mem[w]) =>
                \E i \in DOMAIN remset : remset[i] = w

(* The remembered set holds addresses of the old generation's tospace,     *)
(* which are stale once that moves: it has been emptied by then.           *)
RemsetNotStale ==
    /\ stage \in {"force", "watermark"} => remset = <<>>
    /\ \A i \in DOMAIN remset : remset[i] \in OldSpace(to)

(* A collection that has begun ends, and GC_malloc returns.                *)
CollectionEnds == pc # "run" ~> pc = "run"

-----------------------------------------------------------------------------
(* What comments and tests of the repository say, and the code does not do. *)

(* An interior pointer is adjusted to the start of its object, and the     *)
(* object is copied (gc_collect.c:337-340).  The adjustment is by whole    *)
(* words, so that a pointer into the middle of a word still is not aligned *)
(* and GC_cap_memcpy ends the program.                                     *)
InteriorPointersSurvive == pc # "fatal"

(* GC_gen_promote collects the older generation if there is not enough     *)
(* space in it (gc_collect.h:69-71).  A GC_malloc of at most the size of   *)
(* the young generation would then succeed when nothing is reachable.      *)
GarbageIsReclaimed ==
    pc = "retry" /\ (\A r \in Roots : root[r] = Null)
        => Fits(request.size) \/ AlignWords(request.size) > YoungWords
=============================================================================
