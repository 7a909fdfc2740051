---------------------------- MODULE GCGrowProofs ----------------------------
(***************************************************************************)
(* The theorems about a region that grows.                                 *)
(***************************************************************************)
EXTENDS GCGrow, FiniteSetTheorems, TLAPS

-----------------------------------------------------------------------------
(* The inductive invariant.                                                *)

Growing == pc \in {"fromspace", "tospace", "finish"}
Active == Growing \/ Settled

(* The words in use have been copied already, but the region's pointers    *)
(* are still those of before.                                              *)
Start == IF pc = "finish" THEN grow.to ELSE tospace.base

RegionOK ==
    /\ young \in BOOLEAN
    /\ tospace \in [base : Nat \ {0}, len : Nat \ {0}]
    /\ free \in [base : Nat, len : Nat]
    /\ free.base + free.len = tospace.base + tospace.len
    /\ Used \in 0 .. tospace.len
    /\ bitmap.size = tospace.len /\ bitmap.used = Used
    /\ ~young => /\ fromspace \in [base : Nat \ {0}, len : Nat \ {0}]
                 /\ fromspace.len = tospace.len
                 /\ frombitmap.size = tospace.len

(* GC_grow's locals, and the request that it grows for.                    *)
GrowOK ==
    /\ request \in Nat /\ tooSmall \in BOOLEAN
    /\ Growing => /\ grow \in [hint : Nat, old : Nat, new : Nat, from : Nat, to : Nat,
                               back : {"run", "grown_before", "grown_after"}]
                  /\ grow.old = tospace.len /\ grow.new >= grow.old
                  /\ grow.back # "run" => grow.hint = request
    /\ pc = "fromspace" => ~young
    /\ PlacesFit

(* The blocks of the two spaces, whose fields change only when GC_grow is  *)
(* done.                                                                   *)
ToBlock ==
    IF pc = "finish" THEN BlockOf(grow.to, grow.new)
    ELSE BlockOf(tospace.base, tospace.len)

FromBlock ==
    IF pc \in {"tospace", "finish"} THEN BlockOf(grow.from, grow.new)
    ELSE BlockOf(fromspace.base, fromspace.len)

(* malloc's blocks are apart from each other.                              *)
Apart(a, b) == a.ptr + a.len <= b.ptr \/ b.ptr + b.len <= a.ptr

BlocksOK(l) ==
    /\ l \subseteq [ptr : Nat \ {0}, len : Nat \ {0}]
    /\ \A b \in l : b.ptr + b.len <= Memory + 1
    /\ \A a, b \in l : a # b => Apart(a, b)

(* Each entry is a block, and no two are the same.                         *)
TableOK(l, t) ==
    /\ t \in Seq([ptr : Nat, len : Nat])
    /\ \A i \in DOMAIN t : t[i] \in l
    /\ \A i, j \in DOMAIN t : t[i].ptr = t[j].ptr => i = j

HasBlock(l, t, b) == b \in l /\ \E i \in DOMAIN t : t[i] = b

(* The fromspace could not grow, and so the tospace cannot.                *)
NoRoom == pc = "tospace" /\ ~young /\ grow.from = NULL

BlocksBacked ==
    /\ BlocksOK(live)
    /\ ~NoRoom => /\ TableOK(live, table)
                  /\ HasBlock(live, table, ToBlock)
                  /\ ~young => /\ HasBlock(live, table, FromBlock)
                               /\ FromBlock.ptr # ToBlock.ptr
    /\ NoRoom => Malloc(grow.new + Padding) = {NULL}
    (* The object elsewhere is neither in the tospace nor at its end.      *)
    /\ \A b \in live : b.len = 1 => b.ptr < tospace.base
                                    \/ tospace.base + tospace.len < b.ptr

(* What a pointer can stand for now.                                       *)
Denotable == {Nothing, Elsewhere} \cup 0 .. (Used - 1)

PointersOK ==
    /\ mem \in [Addresses -> Nat] /\ cell \in [Cells -> Nat]
    /\ hmeans \in [0 .. Memory -> Meanings] /\ means \in [Cells -> Meanings]
    /\ \A c \in Cells : means[c] \in Denotable /\ Denotes(cell[c], means[c])
    /\ \A w \in 0 .. (Used - 1) :
          hmeans[w] \in Denotable /\ Denotes(mem[Start + w], hmeans[w])

Core == RegionOK /\ GrowOK /\ BlocksBacked /\ PointersOK

IInv == Active => Core

-----------------------------------------------------------------------------
(* malloc, the table and the copy.                                         *)

LEMMA ApartFromExtents ==
    ASSUME NEW a \in [ptr : Nat \ {0}, len : Nat \ {0}],
           NEW b \in [ptr : Nat \ {0}, len : Nat \ {0}],
           Extent(a) \cap Extent(b) = {}
    PROVE  Apart(a, b)
<1> SUFFICES ASSUME a.ptr + a.len > b.ptr, b.ptr + b.len > a.ptr PROVE FALSE
  BY DEF Apart
<1>1. CASE a.ptr <= b.ptr
  <2>1. b.ptr \in Extent(a) /\ b.ptr \in Extent(b)
    BY <1>1 DEF Extent
  <2> QED
    BY <2>1
<1>2. CASE b.ptr <= a.ptr
  <2>1. a.ptr \in Extent(a) /\ a.ptr \in Extent(b)
    BY <1>2 DEF Extent
  <2> QED
    BY <2>1
<1> QED
  BY <1>1, <1>2

(* A block that malloc returns is apart from those in use.                 *)
LEMMA MallocApart ==
    ASSUME BlocksOK(live), NEW n \in Nat \ {0}, NEW p \in Malloc(n), p # NULL
    PROVE  /\ [ptr |-> p, len |-> n] \in [ptr : Nat \ {0}, len : Nat \ {0}]
           /\ p + n <= Memory + 1
           /\ \A b \in live : Apart([ptr |-> p, len |-> n], b)
<1> DEFINE new == [ptr |-> p, len |-> n]
<1>1. /\ p \in Places /\ p .. (p + n - 1) \subseteq Addresses
      /\ \A b \in live : Extent(b) \cap (p .. (p + n - 1)) = {}
  BY DEF Malloc
<1>2. p \in Nat \ {0} /\ new \in [ptr : Nat \ {0}, len : Nat \ {0}]
  BY <1>1, GrowAssumption
<1>3. p + n <= Memory + 1
  <2>1. p + n - 1 \in p .. (p + n - 1)
    BY <1>2
  <2>2. p + n - 1 \in Addresses
    BY <1>1, <2>1
  <2> QED
    BY <1>2, <2>2, GrowAssumption DEF Addresses
<1>4. ASSUME NEW b \in live PROVE Apart(new, b)
  <2>1. Extent(new) \cap Extent(b) = {}
    BY <1>1 DEF Extent
  <2>2. b \in [ptr : Nat \ {0}, len : Nat \ {0}]
    BY DEF BlocksOK
  <2> QED
    BY <1>2, <2>1, <2>2, ApartFromExtents
<1> QED
  BY <1>2, <1>3, <1>4

LEMMA SamePointer ==
    ASSUME NEW l, BlocksOK(l), NEW a \in l, NEW b \in l, a.ptr = b.ptr
    PROVE  a = b
<1>1. /\ a.ptr \in Nat /\ a.len \in Nat \ {0} /\ b.ptr \in Nat /\ b.len \in Nat \ {0}
  BY DEF BlocksOK
<1> QED
  BY <1>1 DEF BlocksOK, Apart

(* What GC_low_realloc does to a block that the table has: it moves, with  *)
(* its entry, the other blocks and entries stay, and its words are copied. *)
LEMMA Realloc ==
    ASSUME BlocksOK(live), TableOK(live, table), NEW b, HasBlock(live, table, b),
           NEW n \in Nat \ {0}, NEW p \in Malloc(n), p # NULL,
           GC_low_realloc(b.ptr, n, p)
    PROVE  /\ BlocksOK(live') /\ TableOK(live', table')
           /\ HasBlock(live', table', [ptr |-> p, len |-> n])
           /\ \A o : o # b /\ HasBlock(live, table, o) => HasBlock(live', table', o)
           /\ \A o \in live : o # b => o \in live'
           /\ live' \subseteq live \cup {[ptr |-> p, len |-> n]}
           /\ mem' = CopyWords(mem, b.ptr, p, b.len)
<1> DEFINE new == [ptr |-> p, len |-> n]
<1>1. PICK i \in DOMAIN table : i \in 1 .. Len(table) /\ table[i] = b
  BY DEF HasBlock, TableOK
<1>2. Entries(b.ptr) = {i}
  BY <1>1 DEF Entries, TableOK
<1>3. /\ table' = [table EXCEPT ![i] = new]
      /\ live' = {o \in live : o.ptr # b.ptr} \cup {new}
      /\ mem' = CopyWords(mem, b.ptr, p, b.len)
  BY <1>1, <1>2 DEF GC_low_realloc, NewEntry
<1>4. b \in live /\ \A o \in live : o # b => o.ptr # b.ptr
  BY SamePointer DEF HasBlock
<1>5. /\ new \in [ptr : Nat \ {0}, len : Nat \ {0}] /\ p + n <= Memory + 1
      /\ \A o \in live : Apart(new, o)
  BY MallocApart
<1> HIDE DEF new
<1>6. live' = (live \ {b}) \cup {new}
  BY <1>3, <1>4
<1>7. BlocksOK(live')
  <2>1. live' \subseteq [ptr : Nat \ {0}, len : Nat \ {0}]
    BY <1>5, <1>6 DEF BlocksOK
  <2>2. \A o \in live' : o.ptr + o.len <= Memory + 1
    BY <1>5, <1>6 DEF BlocksOK, new
  <2>3. \A o, q \in live' : o # q => Apart(o, q)
    BY <1>5, <1>6 DEF BlocksOK, Apart
  <2> QED
    BY <2>1, <2>2, <2>3 DEF BlocksOK
<1>8. /\ table \in Seq([ptr : Nat, len : Nat])
      /\ table' \in Seq([ptr : Nat, len : Nat]) /\ DOMAIN table' = DOMAIN table
      /\ table'[i] = new /\ \A j \in DOMAIN table : j # i => table'[j] = table[j]
  <2> DEFINE R == [ptr : Nat, len : Nat]
  <2>1. table \in Seq(R) /\ new \in R
    BY <1>5 DEF TableOK
  <2> HIDE DEF R
  <2>2. /\ table' \in Seq(R) /\ DOMAIN table' = DOMAIN table
        /\ table'[i] = new /\ \A j \in DOMAIN table : j # i => table'[j] = table[j]
    BY <1>3, <2>1
  <2> QED
    BY <2>1, <2>2 DEF R
<1>9. \A j \in DOMAIN table : j # i => table[j].ptr # b.ptr /\ table[j] # b
  BY <1>1 DEF TableOK
<1>10. \A j \in DOMAIN table : table[j].ptr # p
  <2>1. \A o \in live : o.ptr # new.ptr
    <3> TAKE o \in live
    <3>1. o.ptr \in Nat /\ o.len \in Nat \ {0} /\ new.ptr \in Nat /\ new.len \in Nat \ {0}
      BY <1>5 DEF BlocksOK
    <3> QED
      BY <1>5, <3>1 DEF Apart
  <2> QED
    BY <2>1 DEF TableOK, new
<1>11. TableOK(live', table')
  <2>1. \A j \in DOMAIN table' : table'[j] \in live'
    BY <1>6, <1>8, <1>9 DEF TableOK
  <2>2. ASSUME NEW j \in DOMAIN table', NEW k \in DOMAIN table', table'[j].ptr = table'[k].ptr
        PROVE  j = k
    <3>1. new.ptr = p
      BY DEF new
    <3>2. CASE j # i /\ k # i
      BY <2>2, <3>2, <1>8 DEF TableOK
    <3>3. CASE j = i \/ k = i
      BY <2>2, <3>1, <3>3, <1>8, <1>10
    <3> QED
      BY <3>2, <3>3
  <2> QED
    BY <1>8, <2>1, <2>2 DEF TableOK
<1>12. HasBlock(live', table', new)
  BY <1>6, <1>8 DEF HasBlock
<1>13. ASSUME NEW o, o # b, HasBlock(live, table, o) PROVE HasBlock(live', table', o)
  <2>1. PICK j \in DOMAIN table : table[j] = o
    BY <1>13 DEF HasBlock
  <2>2. j # i
    BY <1>1, <1>13, <2>1
  <2> QED
    BY <1>6, <1>8, <1>13, <2>1, <2>2 DEF HasBlock
<1> QED
  BY <1>3, <1>6, <1>7, <1>11, <1>12, <1>13 DEF new
-----------------------------------------------------------------------------
(* One lemma for each action.                                              *)

(* A pointer stands for what it did while the tospace stays where it is.   *)
LEMMA DenotesKept ==
    ASSUME NEW v, NEW m, Denotes(v, m), tospace'.base = tospace.base,
           \A b \in live : b.len = 1 => b \in live'
    PROVE  Denotes(v, m)'
BY DEF Denotes

(* Nothing happens to the blocks before GC_grow reallocates.               *)
LEMMA StayBacked ==
    ASSUME Settled, BlocksBacked,
           \/ pc' \in {"run", "grown_before", "grown_after", "collected", "fromspace"}
           \/ pc' = "tospace" /\ young',
           live' = live, table' = table, young' = young,
           tospace' = tospace, fromspace' = fromspace
    PROVE  BlocksBacked'
<1>1. /\ ~NoRoom /\ ~NoRoom'
      /\ ToBlock = BlockOf(tospace.base, tospace.len) /\ ToBlock' = ToBlock
      /\ ~young => FromBlock' = FromBlock
  BY DEF Settled, NoRoom, ToBlock, FromBlock, BlockOf
<1> QED
  BY <1>1 DEF BlocksBacked

LEMMA PointersKept ==
    ASSUME Settled, RegionOK, PointersOK, pc' # "finish",
           UNCHANGED <<live, mem, cell, tospace, free, means, hmeans>>
    PROVE  PointersOK'
<1>1. Start' = Start /\ Used' = Used /\ Denotable' = Denotable
  BY DEF Settled, Start, Used, Denotable
<1>2. \A c \in Cells : Denotes(cell[c], means[c])'
  BY DenotesKept DEF PointersOK
<1>3. \A w \in 0 .. (Used - 1) : Denotes(mem[Start + w], hmeans[w])'
  BY DenotesKept, <1>1 DEF PointersOK
<1> QED
  BY <1>1, <1>2, <1>3 DEF PointersOK

(* GC_grow up to its first reallocation, or its early return.              *)
LEMMA StartGrow ==
    ASSUME Core, pc \in {"run", "collected"}, NEW hint \in Nat, NEW max \in Nat,
           NEW back \in {"run", "grown_before", "grown_after"},
           GC_grow(hint, max, back),
           request' \in Nat, back # "run" => request' = hint,
           UNCHANGED <<heap, cell, region, history>>
    PROVE  Core'
<1>1. /\ RegionOK' /\ Settled /\ RegionOK
      /\ UNCHANGED <<live, table, mem, cell, young, tospace, fromspace, free, bitmap, frombitmap, means, hmeans>>
  BY DEF RegionOK, Core, Settled, Used, heap, region, history
<1>2. CASE max # 0 /\ tospace.len >= max /\ pc' = back /\ tooSmall' = TRUE /\ UNCHANGED grow
  <2>1. GrowOK'
    BY <1>2 DEF GrowOK, Growing, PlacesFit
  <2>2. BlocksBacked'
    BY <1>1, <1>2, StayBacked DEF Core
  <2>3. PointersOK'
    BY <1>1, <1>2, PointersKept DEF Core
  <2> QED
    BY <1>1, <2>1, <2>2, <2>3 DEF Core
<1>3. CASE /\ max = 0 \/ tospace.len < max
           /\ grow' = [hint |-> hint, old |-> tospace.len,
                       new |-> NewSize(tospace.len, hint, max),
                       from |-> NULL, to |-> NULL, back |-> back]
           /\ pc' = IF young THEN "tospace" ELSE "fromspace"
           /\ UNCHANGED tooSmall
  <2>1. tospace.len \in Nat /\ NewSize(tospace.len, hint, max) \in Nat
        /\ NewSize(tospace.len, hint, max) >= tospace.len
    BY <1>1, <1>3 DEF RegionOK, NewSize, Maximum, Minimum
  <2>2. GrowOK'
    BY <1>1, <1>3, <2>1 DEF Core, GrowOK, Growing, PlacesFit, NULL, RegionOK
  <2>3. BlocksBacked'
    BY <1>1, <1>3, StayBacked DEF Core
  <2>4. PointersOK'
    BY <1>1, <1>3, PointersKept DEF Core
  <2> QED
    BY <1>1, <2>2, <2>3, <2>4 DEF Core
<1> QED
  BY <1>2, <1>3 DEF GC_grow

(* An object is placed where there is room for it.                         *)
LEMMA PlaceStep ==
    ASSUME Core, Settled, NEW n \in Nat, n <= free.len, Place(n), pc' = "run"
    PROVE  Core'
<1>1. /\ RegionOK /\ free' = [base |-> free.base + n, len |-> free.len - n]
      /\ UNCHANGED <<live, table, cell, young, tospace, fromspace, frombitmap, grow, means>>
      /\ Used' = Used + n
  BY DEF Core, Place, Used, RegionOK
<1>2. RegionOK'
  BY <1>1 DEF RegionOK, Used, Place, GC_bitmap_allocate
<1>3. GrowOK'
  BY DEF GrowOK, Growing, PlacesFit, Place
<1>4. BlocksBacked'
  BY <1>1, StayBacked DEF Core
<1>5. PointersOK'
  <2>1. /\ mem \in [Addresses -> Nat] /\ cell \in [Cells -> Nat]
        /\ hmeans \in [0 .. Memory -> Meanings] /\ means \in [Cells -> Meanings]
    BY DEF Core, PointersOK
  <2>2. Used \in Nat /\ Denotable \subseteq Denotable' /\ Start = tospace.base /\ Start' = Start
    BY <1>1 DEF RegionOK, Denotable, Settled, Start
  <2>3. mem' = [mem EXCEPT ![free.base] = NULL] /\ mem' \in [Addresses -> Nat]
    BY <2>1 DEF Place, NULL
  <2>4. /\ hmeans' = [w \in 0 .. Memory |->
                        IF w \in Used .. (Used + n - 1) THEN Nothing ELSE hmeans[w]]
        /\ hmeans' \in [0 .. Memory -> Meanings]
    BY <2>1 DEF Place, Meanings
  <2>5. \A c \in Cells : means'[c] \in Denotable' /\ Denotes(cell[c], means[c])'
    BY <1>1, <2>2, DenotesKept DEF Core, PointersOK
  <2>6. ASSUME NEW w \in 0 .. (Used' - 1)
        PROVE  hmeans'[w] \in Denotable' /\ Denotes(mem[Start + w], hmeans[w])'
    <3>1. w \in 0 .. Memory /\ Start + w \in Nat
      <4>1. ToBlock \in live /\ ToBlock = BlockOf(tospace.base, tospace.len)
        BY DEF Core, BlocksBacked, Settled, NoRoom, HasBlock, ToBlock
      <4>2. tospace.base + tospace.len + 1 <= Memory + 1
        BY <4>1, <1>1 DEF Core, BlocksBacked, BlocksOK, BlockOf, Padding, RegionOK
      <4> QED
        BY <4>2, <2>2, <1>1, <1>2, GrowAssumption DEF RegionOK
    <3>2. CASE w >= Used
      <4>1. hmeans'[w] = Nothing
        BY <1>1, <2>2, <2>4, <3>1, <3>2
      <4>2. Nothing \in Denotable' /\ \A v : Denotes(v, Nothing)'
        BY DEF Denotes, Denotable, Nothing, Elsewhere
      <4> QED
        BY <4>1, <4>2
    <3>3. CASE w < Used
      <4>1. hmeans'[w] = hmeans[w] /\ mem'[Start + w] = mem[Start + w]
        <5>1. Start + w # free.base
          BY <1>1, <2>2, <3>3 DEF Used, RegionOK
        <5>2. hmeans'[w] = hmeans[w]
          BY <2>2, <2>4, <3>1, <3>3
        <5>3. mem'[Start + w] = mem[Start + w]
          BY <2>1, <2>3, <5>1
        <5> QED
          BY <5>2, <5>3
      <4>2. hmeans[w] \in Denotable /\ Denotes(mem[Start + w], hmeans[w])
        BY <3>3, <2>2 DEF Core, PointersOK
      <4>3. Denotes(mem[Start + w], hmeans[w])'
        BY <1>1, <2>2, <4>1, <4>2, DenotesKept
      <4> QED
        BY <2>2, <4>1, <4>2, <4>3
    <3> QED
      BY <3>2, <3>3, <3>1, <2>2
  <2> QED
    BY <1>1, <2>1, <2>3, <2>4, <2>5, <2>6 DEF PointersOK
<1> QED
  BY <1>2, <1>3, <1>4, <1>5 DEF Core
(* The block of the tospace bounds the words in use.                       *)
LEMMA InMemory ==
    ASSUME Core, Settled
    PROVE  /\ HasBlock(live, table, BlockOf(tospace.base, tospace.len))
           /\ tospace.base + tospace.len <= Memory
           /\ ~young => /\ HasBlock(live, table, BlockOf(fromspace.base, fromspace.len))
                        /\ fromspace.base + fromspace.len <= Memory
                        /\ fromspace.base # tospace.base
<1>1. /\ ToBlock = BlockOf(tospace.base, tospace.len) /\ ~NoRoom
      /\ FromBlock = BlockOf(fromspace.base, fromspace.len)
  BY DEF Settled, ToBlock, FromBlock, NoRoom
<1>2. /\ HasBlock(live, table, ToBlock)
      /\ ~young => HasBlock(live, table, FromBlock) /\ FromBlock.ptr # ToBlock.ptr
  BY <1>1 DEF Core, BlocksBacked
<1>3. tospace.base + tospace.len <= Memory
  BY <1>1, <1>2, GrowAssumption DEF HasBlock, Core, BlocksBacked, BlocksOK, BlockOf, Padding, RegionOK
<1>4. ~young => fromspace.base + fromspace.len <= Memory
  BY <1>1, <1>2, GrowAssumption DEF HasBlock, Core, BlocksBacked, BlocksOK, BlockOf, Padding, RegionOK
<1> QED
  BY <1>1, <1>2, <1>3, <1>4 DEF BlockOf

LEMMA PointStep ==
    ASSUME Core, NEW c \in Cells, NEW w \in 0 .. Memory, Point(c, w)
    PROVE  Core'
<1>1. /\ Settled /\ RegionOK /\ pc' = "run" /\ w < Used
      /\ UNCHANGED <<live, table, mem, young, tospace, fromspace, free, bitmap, frombitmap, grow, request, tooSmall, hmeans>>
  BY DEF Core, Point, heap, region, Settled
<1>2. RegionOK'
  BY <1>1 DEF RegionOK, Used
<1>3. GrowOK'
  BY <1>1 DEF Core, GrowOK, Growing, PlacesFit
<1>4. BlocksBacked'
  BY <1>1, StayBacked DEF Core
<1>5. PointersOK'
  <2>1. Start' = Start /\ Used' = Used /\ Denotable' = Denotable /\ Used \in Nat /\ Memory \in Nat
    BY <1>1, GrowAssumption DEF Settled, Start, Used, Denotable, RegionOK
  <2>2. /\ mem \in [Addresses -> Nat] /\ cell \in [Cells -> Nat]
        /\ hmeans \in [0 .. Memory -> Meanings] /\ means \in [Cells -> Meanings]
    BY DEF Core, PointersOK
  <2>3. /\ cell' = [cell EXCEPT ![c] = tospace.base + w] /\ cell' \in [Cells -> Nat]
        /\ means' = [means EXCEPT ![c] = w] /\ means' \in [Cells -> Meanings]
    BY <1>1, <2>1, <2>2 DEF Point, RegionOK, Meanings
  <2>4. ASSUME NEW d \in Cells PROVE means'[d] \in Denotable' /\ Denotes(cell[d], means[d])'
    <3>1. CASE d = c
      <4>1. cell'[d] = tospace'.base + w /\ means'[d] = w /\ w \in 0 .. (Used' - 1)
        BY <1>1, <2>1, <2>2, <2>3, <3>1
      <4> QED
        BY <4>1 DEF Denotes, Denotable, Nothing, Elsewhere
    <3>2. CASE d # c
      <4>1. cell'[d] = cell[d] /\ means'[d] = means[d]
        BY <2>2, <2>3, <3>2
      <4> QED
        BY <1>1, <2>1, <4>1, DenotesKept DEF Core, PointersOK
    <3> QED
      BY <3>1, <3>2
  <2>5. \A x \in 0 .. (Used - 1) : Denotes(mem[Start + x], hmeans[x])'
    BY <1>1, <2>1, DenotesKept DEF Core, PointersOK
  <2>6. \A x \in 0 .. (Used - 1) : hmeans[x] \in Denotable
    BY DEF Core, PointersOK
  <2> QED
    BY <1>1, <2>1, <2>2, <2>3, <2>4, <2>5, <2>6 DEF PointersOK
<1> QED
  BY <1>2, <1>3, <1>4, <1>5 DEF Core

LEMMA StoreStep ==
    ASSUME Core, NEW c \in Cells, NEW w \in 0 .. Memory, Store(w, c)
    PROVE  Core'
<1>1. /\ Settled /\ RegionOK /\ pc' = "run" /\ w < Used /\ pc = "run"
      /\ UNCHANGED <<live, table, cell, young, tospace, fromspace, free, bitmap, frombitmap, grow, request, tooSmall, means>>
  BY DEF Core, Store, region, Settled
<1>2. RegionOK'
  BY <1>1 DEF RegionOK, Used
<1>3. GrowOK'
  BY <1>1 DEF Core, GrowOK, Growing, PlacesFit
<1>4. BlocksBacked'
  BY <1>1, StayBacked DEF Core
<1>5. PointersOK'
  <2>1. /\ Start = tospace.base /\ Start' = Start /\ Start \in Nat \ {0}
        /\ Used' = Used /\ Denotable' = Denotable /\ Used \in 0 .. tospace.len
        /\ tospace.len \in Nat
    BY <1>1 DEF Settled, Start, Used, Denotable, RegionOK
  <2>2. /\ mem \in [Addresses -> Nat] /\ cell \in [Cells -> Nat]
        /\ hmeans \in [0 .. Memory -> Meanings] /\ means \in [Cells -> Meanings]
    BY DEF Core, PointersOK
  <2>3. /\ mem' = [mem EXCEPT ![Start + w] = cell[c]] /\ mem' \in [Addresses -> Nat]
        /\ hmeans' = [hmeans EXCEPT ![w] = means[c]] /\ hmeans' \in [0 .. Memory -> Meanings]
    BY <1>1, <2>1, <2>2 DEF Store
  <2>4. tospace.base + tospace.len <= Memory
    BY <1>1, InMemory
  <2>5. \A d \in Cells : means[d] \in Denotable /\ Denotes(cell[d], means[d])'
    BY <1>1, <2>1, DenotesKept DEF Core, PointersOK
  <2>6. ASSUME NEW x \in 0 .. (Used - 1)
        PROVE  hmeans'[x] \in Denotable /\ Denotes(mem[Start + x], hmeans[x])'
    <3>0. x \in 0 .. Memory /\ Start + x \in Addresses
      BY <2>1, <2>4, GrowAssumption DEF Addresses
    <3>1. CASE x = w
      <4>1. mem'[Start + x] = cell[c] /\ hmeans'[x] = means[c]
        BY <2>2, <2>3, <3>0, <3>1
      <4>2. Denotes(cell[c], means[c]) /\ means[c] \in Denotable
        BY DEF Core, PointersOK
      <4> QED
        BY <1>1, <2>1, <4>1, <4>2, DenotesKept
    <3>2. CASE x # w
      <4>1. mem'[Start + x] = mem[Start + x] /\ hmeans'[x] = hmeans[x]
        BY <2>1, <2>2, <2>3, <3>0, <3>2
      <4>2. Denotes(mem[Start + x], hmeans[x]) /\ hmeans[x] \in Denotable
        BY DEF Core, PointersOK
      <4> QED
        BY <1>1, <2>1, <4>1, <4>2, DenotesKept
    <3> QED
      BY <3>1, <3>2
  <2> QED
    BY <1>1, <2>1, <2>2, <2>3, <2>5, <2>6 DEF PointersOK
<1> QED
  BY <1>2, <1>3, <1>4, <1>5 DEF Core

(* A collection of the young region, which empties it or does nothing.     *)
LEMMA CollectStep ==
    ASSUME Core, MallocCollect
    PROVE  Core'
<1>1. /\ Settled /\ RegionOK /\ pc' = "collected"
      /\ UNCHANGED <<live, table, mem, young, tospace, fromspace, frombitmap, grow, request, tooSmall>>
  BY DEF Core, MallocCollect, heap, Settled
<1>2. GrowOK'
  BY <1>1 DEF Core, GrowOK, Growing, PlacesFit
<1>3. BlocksBacked'
  BY <1>1, StayBacked DEF Core
<1>4. CASE UNCHANGED <<cell, free, bitmap, history>>
  <2>1. RegionOK'
    BY <1>1, <1>4 DEF RegionOK, Used
  <2>2. PointersOK'
    BY <1>1, <1>4, PointersKept DEF Core, history
  <2> QED
    BY <1>2, <1>3, <2>1, <2>2 DEF Core
<1>5. CASE /\ free' = tospace
           /\ bitmap' = GC_bitmap_clr(bitmap)
           /\ cell' = [c \in Cells |-> IF means[c] = Elsewhere THEN cell[c] ELSE NULL]
           /\ means' = [c \in Cells |->
                           IF means[c] = Elsewhere THEN Elsewhere ELSE Nothing]
           /\ hmeans' = [w \in DOMAIN hmeans |-> Nothing]
  <2>1. RegionOK' /\ Used' = 0
    BY <1>1, <1>5 DEF RegionOK, Used, GC_bitmap_clr
  <2>2. /\ mem \in [Addresses -> Nat] /\ cell \in [Cells -> Nat]
        /\ hmeans \in [0 .. Memory -> Meanings] /\ means \in [Cells -> Meanings]
    BY DEF Core, PointersOK
  <2>3. cell' \in [Cells -> Nat] /\ means' \in [Cells -> Meanings]
        /\ hmeans' \in [0 .. Memory -> Meanings]
    BY <1>5, <2>2 DEF NULL, Meanings
  <2>4. ASSUME NEW c \in Cells PROVE means'[c] \in Denotable' /\ Denotes(cell[c], means[c])'
    <3>1. CASE means[c] = Elsewhere
      <4>1. cell'[c] = cell[c] /\ means'[c] = means[c] /\ Denotes(cell[c], means[c])
        BY <1>5, <3>1 DEF Core, PointersOK
      <4> QED
        BY <1>1, <3>1, <4>1, DenotesKept DEF Denotable
    <3>2. CASE means[c] # Elsewhere
      <4>1. means'[c] = Nothing
        BY <1>5, <3>2
      <4>2. Nothing \in Denotable' /\ \A v : Denotes(v, Nothing)'
        BY DEF Denotes, Denotable, Nothing, Elsewhere
      <4> QED
        BY <4>1, <4>2
    <3> QED
      BY <3>1, <3>2
  <2>5. PointersOK'
    BY <1>1, <2>1, <2>2, <2>3, <2>4 DEF PointersOK
  <2> QED
    BY <1>2, <1>3, <2>1, <2>5 DEF Core
<1> QED
  BY <1>4, <1>5 DEF MallocCollect

(* The spaces of the old region change their places.                       *)
LEMMA CollectOldStep ==
    ASSUME Core, GC_collect_region
    PROVE  Core'
<1> DEFINE Forwarded(v) ==
        IF tospace.base <= v /\ v < free.base
        THEN v - tospace.base + fromspace.base ELSE v
<1>1. /\ Settled /\ RegionOK /\ pc = "run" /\ pc' = "run" /\ ~young /\ ~young'
      /\ tospace' = fromspace /\ fromspace' = tospace /\ frombitmap' = bitmap
      /\ bitmap' = [GC_bitmap_clr(frombitmap) EXCEPT !.used = bitmap.used, !.map = bitmap.map]
      /\ free' = [base |-> fromspace.base + Used, len |-> fromspace.len - Used]
      /\ UNCHANGED <<live, table, young, grow, request, tooSmall, means, hmeans>>
  BY DEF Core, GC_collect_region, Settled, history
<1>2. RegionOK' /\ Used' = Used
  <2>1. /\ tospace \in [base : Nat \ {0}, len : Nat \ {0}]
        /\ fromspace \in [base : Nat \ {0}, len : Nat \ {0}] /\ Used \in 0 .. fromspace.len
        /\ fromspace.len = tospace.len /\ bitmap.used = Used
        /\ bitmap.size = tospace.len /\ frombitmap.size = tospace.len
    BY <1>1 DEF RegionOK
  <2>2. Used' = Used
    BY <1>1, <2>1 DEF Used
  <2>3. bitmap'.size = tospace'.len /\ bitmap'.used = Used
    BY <1>1, <2>1 DEF GC_bitmap_clr
  <2>4. /\ free' \in [base : Nat, len : Nat]
        /\ free'.base + free'.len = tospace'.base + tospace'.len
    BY <1>1, <2>1
  <2> QED
    BY <1>1, <2>1, <2>2, <2>3, <2>4 DEF RegionOK
<1>3. GrowOK'
  BY <1>1 DEF Core, GrowOK, Growing, PlacesFit
<1>4. /\ BlocksBacked /\ BlocksOK(live) /\ TableOK(live, table)
      /\ HasBlock(live, table, BlockOf(tospace.base, tospace.len))
      /\ HasBlock(live, table, BlockOf(fromspace.base, fromspace.len))
      /\ fromspace.base # tospace.base
      /\ tospace.base + tospace.len <= Memory /\ fromspace.base + fromspace.len <= Memory
  <2>1. BlocksBacked /\ ~NoRoom
    BY <1>1 DEF Core, NoRoom
  <2> QED
    BY <1>1, <2>1, InMemory DEF BlocksBacked
<1>5. BlocksBacked'
  <2>1. /\ ToBlock' = BlockOf(fromspace.base, fromspace.len) /\ ~NoRoom'
        /\ FromBlock' = BlockOf(tospace.base, tospace.len)
    BY <1>1 DEF ToBlock, FromBlock, NoRoom, BlockOf
  <2>2. \A b \in live : b.len = 1 =>
           b.ptr < fromspace.base \/ fromspace.base + fromspace.len < b.ptr
    <3> SUFFICES ASSUME NEW b \in live, b.len = 1
                 PROVE  b.ptr < fromspace.base \/ fromspace.base + fromspace.len < b.ptr
      OBVIOUS
    <3> DEFINE f == BlockOf(fromspace.base, fromspace.len)
    <3>1. f \in live /\ f.ptr = fromspace.base /\ f.len = fromspace.len + 1
      BY <1>4 DEF HasBlock, BlockOf, Padding
    <3>2. fromspace.base \in Nat /\ fromspace.len \in Nat \ {0} /\ b.ptr \in Nat
      BY <1>1, <1>4 DEF RegionOK, BlocksOK
    <3>3. Apart(b, f)
      BY <1>4, <3>1, <3>2 DEF BlocksOK
    <3> QED
      BY <3>1, <3>2, <3>3 DEF Apart
  <2> QED
    BY <1>1, <1>4, <2>1, <2>2 DEF BlocksBacked, BlockOf
<1>6. PointersOK'
  <2>1. /\ mem \in [Addresses -> Nat] /\ cell \in [Cells -> Nat]
        /\ hmeans \in [0 .. Memory -> Meanings] /\ means \in [Cells -> Meanings]
    BY DEF Core, PointersOK
  <2>2. /\ Start = tospace.base /\ Start' = fromspace.base /\ Denotable' = Denotable
        /\ tospace.base \in Nat \ {0} /\ fromspace.base \in Nat \ {0}
        /\ Used \in 0 .. tospace.len /\ tospace.len \in Nat /\ fromspace.len = tospace.len
        /\ free.base = tospace.base + Used /\ Memory \in Nat
    BY <1>1, <1>2, GrowAssumption DEF Start, Denotable, RegionOK, Used
  <2>3. \A v \in Nat : Forwarded(v) \in Nat
    BY <2>2
  <2>4. ASSUME NEW v \in Nat, NEW m \in Denotable, Denotes(v, m), NEW u, u = Forwarded(v)
        PROVE  Denotes(u, m)'
    <3>1. CASE m = Nothing
      BY <3>1 DEF Denotes, Nothing, Elsewhere
    <3>2. CASE m = Elsewhere
      <4>1. PICK b \in live : v # NULL /\ b.len = 1 /\ b.ptr = v
        BY <2>4, <3>2 DEF Denotes, Nothing, Elsewhere
      <4>2. b.ptr < tospace.base \/ tospace.base + tospace.len < b.ptr
        BY <1>4, <4>1 DEF BlocksBacked
      <4>3. u = v
        BY <2>2, <2>4, <4>1, <4>2
      <4> QED
        BY <1>1, <3>2, <4>1, <4>3 DEF Denotes, Nothing, Elsewhere
    <3>3. CASE m \in 0 .. (Used - 1)
      <4>1. v = tospace.base + m
        BY <2>4, <3>3 DEF Denotes, Nothing, Elsewhere
      <4>2. u = fromspace.base + m
        BY <2>2, <2>4, <4>1, <3>3
      <4> QED
        BY <1>1, <3>3, <4>2 DEF Denotes, Nothing, Elsewhere
    <3> QED
      BY <3>1, <3>2, <3>3 DEF Denotable
  <2>5. /\ cell' = [c \in Cells |-> Forwarded(cell[c])]
        /\ mem' = [a \in Addresses |->
                     IF a \in fromspace.base .. (fromspace.base + Used - 1)
                     THEN Forwarded(CopyWords(mem, tospace.base, fromspace.base, Used)[a])
                     ELSE mem[a]]
    BY DEF GC_collect_region
  <2>6. \A a \in Addresses : a \in fromspace.base .. (fromspace.base + Used - 1) =>
           CopyWords(mem, tospace.base, fromspace.base, Used)[a]
              = mem[tospace.base + (a - fromspace.base)]
    BY DEF CopyWords
  <2>7. \A w \in 0 .. (Used - 1) :
           tospace.base + w \in Addresses /\ fromspace.base + w \in Addresses
    BY <1>4, <2>2 DEF Addresses
  <2>8. \A w \in 0 .. (Used - 1) : mem'[fromspace.base + w] = Forwarded(mem[tospace.base + w])
    <3> TAKE w \in 0 .. (Used - 1)
    <3> DEFINE a == fromspace.base + w
    <3>1. a \in Addresses /\ a \in fromspace.base .. (fromspace.base + Used - 1)
          /\ tospace.base + (a - fromspace.base) = tospace.base + w
      BY <2>2, <2>7
    <3> HIDE DEF a
    <3>2. mem'[a] = Forwarded(CopyWords(mem, tospace.base, fromspace.base, Used)[a])
      BY <2>5, <3>1
    <3>3. CopyWords(mem, tospace.base, fromspace.base, Used)[a] = mem[tospace.base + w]
      BY <2>6, <3>1
    <3> QED
      BY <3>2, <3>3 DEF a
  <2> HIDE DEF Forwarded
  <2>9. cell' \in [Cells -> Nat]
    BY <2>1, <2>3, <2>5
  <2>10. mem' \in [Addresses -> Nat]
    <3> SUFFICES ASSUME NEW a \in Addresses PROVE mem'[a] \in Nat
      BY <2>5
    <3>1. CASE a \in fromspace.base .. (fromspace.base + Used - 1)
      <4>1. a - fromspace.base \in 0 .. (Used - 1) /\ fromspace.base + (a - fromspace.base) = a
        BY <2>2, <3>1
      <4>2. mem'[a] = Forwarded(mem[tospace.base + (a - fromspace.base)])
        BY <2>8, <4>1
      <4> QED
        BY <2>1, <2>3, <2>7, <4>1, <4>2
    <3>2. CASE a \notin fromspace.base .. (fromspace.base + Used - 1)
      BY <2>1, <2>5, <3>2
    <3> QED
      BY <3>1, <3>2
  <2>11. \A c \in Cells : means'[c] \in Denotable' /\ Denotes(cell[c], means[c])'
    <3> TAKE c \in Cells
    <3>1. cell[c] \in Nat /\ means[c] \in Denotable /\ Denotes(cell[c], means[c])
      BY <2>1 DEF Core, PointersOK
    <3>2. cell'[c] = Forwarded(cell[c]) /\ means'[c] = means[c]
      BY <1>1, <2>5
    <3> QED
      BY <2>2, <2>4, <3>1, <3>2 DEF Denotes
  <2>12. \A w \in 0 .. (Used' - 1) :
            hmeans'[w] \in Denotable' /\ Denotes(mem[Start + w], hmeans[w])'
    <3> TAKE w \in 0 .. (Used' - 1)
    <3>1. /\ w \in 0 .. (Used - 1) /\ mem[tospace.base + w] \in Nat /\ hmeans[w] \in Denotable
          /\ Denotes(mem[tospace.base + w], hmeans[w])
      BY <1>2, <2>1, <2>2, <2>7 DEF Core, PointersOK
    <3>2. mem'[Start' + w] = Forwarded(mem[tospace.base + w]) /\ hmeans'[w] = hmeans[w]
      BY <1>1, <2>2, <2>8, <3>1
    <3> QED
      BY <2>2, <2>4, <3>1, <3>2 DEF Denotes
  <2> QED
    BY <1>1, <2>1, <2>9, <2>10, <2>11, <2>12 DEF PointersOK
<1> QED
  BY <1>2, <1>3, <1>5, <1>6 DEF Core
(* f2 has the words of block b at p, and f's outside of the n words there. *)
Copied(f, f2, b, p, n) ==
    /\ f2 \in [Addresses -> Nat]
    /\ \A w \in 0 .. (b.len - 1) : f2[p + w] = f[b.ptr + w]
    /\ \A a \in Addresses : a < p \/ p + n <= a => f2[a] = f[a]

(* The copy that GC_low_realloc makes stays in the new block.              *)
LEMMA CopyInBlock ==
    ASSUME NEW f \in [Addresses -> Nat], NEW b \in [ptr : Nat \ {0}, len : Nat \ {0}],
           b.ptr + b.len <= Memory + 1,
           NEW n \in Nat, b.len <= n, NEW p \in Nat \ {0}, p + n <= Memory + 1
    PROVE  Copied(f, CopyWords(f, b.ptr, p, b.len), b, p, n)
<1>1. PICK g : g = CopyWords(f, b.ptr, p, b.len)
  OBVIOUS
<1>2. g = [a \in Addresses |->
             IF a \in p .. (p + b.len - 1) THEN f[b.ptr + (a - p)] ELSE f[a]]
  BY <1>1 DEF CopyWords
<1>3. Memory \in Nat /\ b.ptr \in Nat \ {0} /\ b.len \in Nat \ {0}
  BY GrowAssumption
<1>4. \A a \in p .. (p + b.len - 1) : b.ptr + (a - p) \in Addresses
  <2> TAKE a \in p .. (p + b.len - 1)
  <2>1. PICK i : i = a - p
    OBVIOUS
  <2>2. i \in Nat /\ i < b.len
    BY <1>3, <2>1
  <2>3. b.ptr + i <= Memory
    BY <1>3, <2>2
  <2>4. b.ptr + i \in Nat /\ 1 <= b.ptr + i
    BY <1>3, <2>2
  <2>5. b.ptr + i \in Addresses
    BY <1>3, <2>3, <2>4 DEF Addresses
  <2> QED
    BY <2>1, <2>5
<1>5. g \in [Addresses -> Nat]
  BY <1>2, <1>4
<1>6. ASSUME NEW w \in 0 .. (b.len - 1) PROVE g[p + w] = f[b.ptr + w]
  <2> DEFINE a == p + w
  <2>1. /\ a \in Addresses /\ a \in p .. (p + b.len - 1)
        /\ b.ptr + (a - p) = b.ptr + w
    BY <1>3 DEF Addresses
  <2> HIDE DEF a
  <2>2. g[a] = f[b.ptr + w]
    BY <1>2, <2>1
  <2> QED
    BY <2>2 DEF a
<1>7. \A a \in Addresses : a < p \/ p + n <= a => g[a] = f[a]
  BY <1>2, <1>3 DEF Addresses
<1> QED
  BY <1>1, <1>5, <1>6, <1>7 DEF Copied

(* The block that GC_grow reallocates while there is room, and what it     *)
(* asks for.                                                               *)
LEMMA GrowSizes ==
    ASSUME Core, Growing
    PROVE  /\ grow.new \in Nat /\ grow.new + Padding \in Nat \ {0}
           /\ tospace.len + Padding <= grow.new + Padding
           /\ tospace.base \in Nat \ {0} /\ tospace.len \in Nat \ {0}
           /\ Used \in 0 .. tospace.len
           /\ \A p : [grow EXCEPT !.from = p].new = grow.new
           /\ \A p : [grow EXCEPT !.to = p].new = grow.new
           /\ \A p : [grow EXCEPT !.to = p].from = grow.from
           /\ \A p : [grow EXCEPT !.to = p].to = p
           /\ \A p : [grow EXCEPT !.from = p].from = p
BY DEF Core, GrowOK, RegionOK, Padding

(* The fromspace's block grows, or there is no room for it, and then none  *)
(* for the tospace's.                                                      *)
LEMMA FromspaceStep ==
    ASSUME Core, GrowFromspace, Active'
    PROVE  Core'
<1>1. PICK p \in Malloc(grow.new + Padding) :
          /\ GC_low_realloc(fromspace.base, grow.new + Padding, p)
          /\ grow' = [grow EXCEPT !.from = p]
          /\ pc' = IF p = NULL /\ CanRetry THEN "no_entry" ELSE "tospace"
  BY DEF GrowFromspace
<1>2. /\ pc = "fromspace" /\ Growing /\ ~young /\ RegionOK /\ GrowOK
      /\ pc' = "tospace" /\ Growing'
      /\ UNCHANGED <<cell, young, tospace, fromspace, free, bitmap, frombitmap, request, tooSmall, means, hmeans>>
  BY <1>1 DEF Core, GrowFromspace, Growing, GrowOK, Active, Settled, region, history
<1>3. PICK n : n = grow.new + Padding
  OBVIOUS
<1>4. /\ n \in Nat \ {0} /\ tospace.len + 1 <= n /\ n >= 2 /\ grow'.new = grow.new /\ grow'.from = p
      /\ tospace.base \in Nat \ {0} /\ tospace.len \in Nat \ {0} /\ Used \in 0 .. tospace.len
  BY <1>1, <1>2, <1>3, GrowSizes DEF Padding
<1>5. RegionOK'
  BY <1>2 DEF RegionOK, Used
<1>6. p \in Nat
  BY GrowAssumption DEF Malloc, NULL
<1>7. GrowOK'
  <2>1. grow' \in [hint : Nat, old : Nat, new : Nat, from : Nat, to : Nat,
                   back : {"run", "grown_before", "grown_after"}]
        /\ grow'.hint = grow.hint /\ grow'.old = grow.old /\ grow'.new = grow.new
        /\ grow'.back = grow.back
    BY <1>1, <1>2, <1>6 DEF GrowOK
  <2> QED
    BY <1>2, <2>1 DEF GrowOK, PlacesFit
<1>8. /\ Start = tospace.base /\ Start' = Start /\ Used' = Used /\ Denotable' = Denotable
  BY <1>2 DEF Start, Used, Denotable
<1>9. /\ BlocksOK(live) /\ TableOK(live, table) /\ HasBlock(live, table, ToBlock)
      /\ HasBlock(live, table, FromBlock) /\ FromBlock.ptr # ToBlock.ptr
      /\ ToBlock = BlockOf(tospace.base, tospace.len) /\ ToBlock' = ToBlock
      /\ FromBlock = BlockOf(fromspace.base, fromspace.len)
      /\ FromBlock' = [ptr |-> p, len |-> n]
      /\ \A b \in live : b.len = 1 => b.ptr < tospace.base \/ tospace.base + tospace.len < b.ptr
  BY <1>2, <1>3, <1>4 DEF Core, BlocksBacked, NoRoom, ToBlock, FromBlock, BlockOf
<1>10. CASE p = NULL
  <2>1. UNCHANGED <<live, mem>> /\ NoRoom'
    BY <1>1, <1>2, <1>4, <1>10 DEF GC_low_realloc, NoRoom
  <2>2. Malloc(n) = {NULL}
    BY <1>3, <1>10, GrowAssumption DEF Malloc, NULL
  <2>3. Malloc(grow.new + Padding)' = {NULL}
    BY <1>3, <1>4, <2>1, <2>2 DEF Malloc, Padding
  <2>4. BlocksBacked'
    BY <1>2, <1>9, <2>1, <2>3 DEF BlocksBacked
  <2>5. \A c \in Cells : means[c] \in Denotable /\ Denotes(cell[c], means[c])'
    BY <1>2, <2>1, DenotesKept DEF Core, PointersOK
  <2>6. \A w \in 0 .. (Used - 1) : hmeans[w] \in Denotable /\ Denotes(mem[Start + w], hmeans[w])'
    BY <1>2, <1>8, <2>1, DenotesKept DEF Core, PointersOK
  <2>7. /\ mem \in [Addresses -> Nat] /\ cell \in [Cells -> Nat]
        /\ hmeans \in [0 .. Memory -> Meanings] /\ means \in [Cells -> Meanings]
    BY DEF Core, PointersOK
  <2>8. PointersOK'
    BY <1>2, <1>8, <2>1, <2>5, <2>6, <2>7 DEF PointersOK
  <2> QED
    BY <1>5, <1>7, <2>4, <2>8 DEF Core
<1>11. CASE p # NULL
  <2>1. PICK b, new : b = FromBlock /\ new = [ptr |-> p, len |-> n]
    OBVIOUS
  <2>2. /\ b.ptr = fromspace.base /\ b.len = fromspace.len + 1 /\ b \in live
        /\ b \in [ptr : Nat \ {0}, len : Nat \ {0}] /\ b.ptr + b.len <= Memory + 1
        /\ fromspace.len = tospace.len
    BY <1>2, <1>9, <2>1 DEF BlocksOK, HasBlock, BlockOf, Padding, RegionOK
  <2>3. /\ BlocksOK(live') /\ TableOK(live', table') /\ HasBlock(live', table', new)
        /\ \A o : o # b /\ HasBlock(live, table, o) => HasBlock(live', table', o)
        /\ \A o \in live : o # b => o \in live'
        /\ live' \subseteq live \cup {new}
        /\ mem' = CopyWords(mem, b.ptr, p, b.len)
    <3>1. GC_low_realloc(b.ptr, n, p) /\ p \in Malloc(n) /\ HasBlock(live, table, b)
      BY <1>1, <1>3, <1>9, <2>1, <2>2
    <3> QED
      BY <1>4, <1>9, <1>11, <2>1, <3>1, Realloc
  <2>4. /\ new \in [ptr : Nat \ {0}, len : Nat \ {0}] /\ p + n <= Memory + 1
        /\ \A o \in live : Apart(new, o)
    BY <1>3, <1>4, <1>9, <1>11, <2>1, MallocApart
  <2>5. ToBlock \in live /\ ToBlock.ptr = tospace.base /\ ToBlock.len = tospace.len + 1
        /\ ToBlock # b
    BY <1>9, <2>1 DEF HasBlock, BlockOf, Padding
  <2>6. tospace.base + tospace.len + 1 <= p \/ p + n <= tospace.base
    BY <1>4, <2>1, <2>4, <2>5 DEF Apart
  <2>7. \A o \in live : o.len = 1 => o \in live'
    BY <1>4, <2>2, <2>3
  <2>8. BlocksBacked'
    <3>1. ~NoRoom'
      BY <1>4, <1>11 DEF NoRoom
    <3>2. HasBlock(live', table', ToBlock') /\ HasBlock(live', table', FromBlock')
      BY <1>9, <2>1, <2>3, <2>5
    <3>3. FromBlock'.ptr # ToBlock'.ptr
      BY <1>4, <1>6, <1>9, <2>5, <2>6
    <3>4. \A o \in live' : o.len = 1 => o.ptr < tospace'.base \/ tospace'.base + tospace'.len < o.ptr
      BY <1>2, <1>4, <1>9, <2>1, <2>3
    <3> QED
      BY <2>3, <3>1, <3>2, <3>3, <3>4 DEF BlocksBacked
  <2>9. PointersOK'
    <3>1. /\ mem \in [Addresses -> Nat] /\ cell \in [Cells -> Nat]
          /\ hmeans \in [0 .. Memory -> Meanings] /\ means \in [Cells -> Meanings]
      BY DEF Core, PointersOK
    <3>2. p \in Nat \ {0} /\ b.len <= n
      BY <1>4, <1>6, <1>11, <2>2 DEF NULL
    <3>3. /\ mem' \in [Addresses -> Nat]
          /\ \A a \in Addresses : a < p \/ p + n <= a => mem'[a] = mem[a]
      <4>1. Copied(mem, mem', b, p, n)
        BY <1>4, <2>2, <2>3, <2>4, <3>1, <3>2, CopyInBlock
      <4> QED
        BY <4>1 DEF Copied
    <3>4. \A c \in Cells : means[c] \in Denotable /\ Denotes(cell[c], means[c])'
      BY <1>2, <2>7, DenotesKept DEF Core, PointersOK
    <3>5. \A w \in 0 .. (Used - 1) : mem'[Start + w] = mem[Start + w]
      <4> TAKE w \in 0 .. (Used - 1)
      <4>1. Start + w \in Addresses
        <5>1. tospace.base + tospace.len + 1 <= Memory + 1
          BY <1>4, <1>9, <2>5 DEF BlocksOK
        <5> QED
          BY <1>4, <1>8, <5>1, GrowAssumption DEF Addresses
      <4>2. Start + w < p \/ p + n <= Start + w
        BY <1>4, <1>8, <2>6, <3>2
      <4> QED
        BY <3>3, <4>1, <4>2
    <3>6. \A w \in 0 .. (Used - 1) :
             hmeans[w] \in Denotable /\ Denotes(mem[Start + w], hmeans[w])'
      <4> TAKE w \in 0 .. (Used - 1)
      <4>1. hmeans[w] \in Denotable /\ Denotes(mem[Start + w], hmeans[w])
        BY DEF Core, PointersOK
      <4> QED
        BY <1>2, <1>8, <2>7, <3>5, <4>1, DenotesKept
    <3> QED
      BY <1>2, <1>8, <3>1, <3>3, <3>4, <3>6 DEF PointersOK
  <2> QED
    BY <1>5, <1>7, <2>8, <2>9 DEF Core
<1> QED
  BY <1>10, <1>11

(* The tospace's block grows; its words are copied, and the pointers are   *)
(* still those of before.                                                  *)
LEMMA TospaceStep ==
    ASSUME Core, GrowTospace, Active'
    PROVE  Core'
<1>1. PICK p \in Malloc(grow.new + Padding) :
          /\ GC_low_realloc(tospace.base, grow.new + Padding, p)
          /\ grow' = [grow EXCEPT !.to = p]
          /\ pc' = CASE p # NULL -> "finish"
                     [] p = NULL /\ CanRetry -> "no_entry"
                     [] OTHER -> "null_read"
  BY DEF GrowTospace
<1>2. /\ pc = "tospace" /\ Growing /\ RegionOK /\ GrowOK
      /\ UNCHANGED <<cell, young, tospace, fromspace, free, bitmap, frombitmap, request, tooSmall, means, hmeans>>
  BY <1>1 DEF Core, GrowTospace, Growing, region, history
<1>3. p # NULL /\ pc' = "finish" /\ Growing'
  BY <1>1 DEF Active, Growing, Settled
<1>4. PICK n : n = grow.new + Padding
  OBVIOUS
<1>5. /\ n \in Nat \ {0} /\ tospace.len + 1 <= n /\ n >= 2
      /\ grow'.new = grow.new /\ grow'.from = grow.from /\ grow'.to = p
      /\ tospace.base \in Nat \ {0} /\ tospace.len \in Nat \ {0} /\ Used \in 0 .. tospace.len
  BY <1>1, <1>2, <1>4, GrowSizes DEF Padding
<1>6. RegionOK'
  BY <1>2 DEF RegionOK, Used
<1>7. p \in Nat \ {0}
  BY <1>3, GrowAssumption DEF Malloc, NULL
<1>8. GrowOK'
  <2>1. grow' \in [hint : Nat, old : Nat, new : Nat, from : Nat, to : Nat,
                   back : {"run", "grown_before", "grown_after"}]
        /\ grow'.hint = grow.hint /\ grow'.old = grow.old /\ grow'.new = grow.new
        /\ grow'.back = grow.back
    BY <1>1, <1>2, <1>7 DEF GrowOK
  <2> QED
    BY <1>2, <1>3, <2>1 DEF GrowOK, PlacesFit
<1>9. /\ Start = tospace.base /\ Start' = p /\ Used' = Used /\ Denotable' = Denotable
  BY <1>2, <1>3, <1>5 DEF Start, Used, Denotable
<1>10. ~NoRoom
  BY <1>1, <1>3 DEF Core, BlocksBacked
<1>11. /\ BlocksOK(live) /\ TableOK(live, table) /\ HasBlock(live, table, ToBlock)
       /\ ~young => HasBlock(live, table, FromBlock) /\ FromBlock.ptr # ToBlock.ptr
       /\ ToBlock = BlockOf(tospace.base, tospace.len)
       /\ ToBlock' = [ptr |-> p, len |-> n]
       /\ FromBlock' = FromBlock
       /\ \A b \in live : b.len = 1 => b.ptr < tospace.base \/ tospace.base + tospace.len < b.ptr
  BY <1>2, <1>3, <1>4, <1>5, <1>10 DEF Core, BlocksBacked, ToBlock, FromBlock, BlockOf
<1>12. PICK b, new : b = ToBlock /\ new = [ptr |-> p, len |-> n]
  OBVIOUS
<1>13. /\ b.ptr = tospace.base /\ b.len = tospace.len + 1 /\ b \in live
       /\ b \in [ptr : Nat \ {0}, len : Nat \ {0}] /\ b.ptr + b.len <= Memory + 1
  BY <1>2, <1>11, <1>12 DEF BlocksOK, HasBlock, BlockOf, Padding
<1>14. /\ BlocksOK(live') /\ TableOK(live', table') /\ HasBlock(live', table', new)
       /\ \A o : o # b /\ HasBlock(live, table, o) => HasBlock(live', table', o)
       /\ \A o \in live : o # b => o \in live'
       /\ live' \subseteq live \cup {new}
       /\ mem' = CopyWords(mem, b.ptr, p, b.len)
  <2>1. GC_low_realloc(b.ptr, n, p) /\ p \in Malloc(n) /\ HasBlock(live, table, b)
    BY <1>1, <1>4, <1>11, <1>12, <1>13
  <2> QED
    BY <1>3, <1>5, <1>11, <1>12, <2>1, Realloc
<1>15. /\ new \in [ptr : Nat \ {0}, len : Nat \ {0}] /\ p + n <= Memory + 1
       /\ \A o \in live : Apart(new, o)
  BY <1>3, <1>4, <1>5, <1>11, <1>12, MallocApart
<1>16. \A o \in live : o.len = 1 => o \in live'
  BY <1>5, <1>13, <1>14
<1>17. BlocksBacked'
  <2>1. ~NoRoom'
    BY <1>3 DEF NoRoom
  <2>2. /\ HasBlock(live', table', ToBlock')
        /\ ~young => HasBlock(live', table', FromBlock')
    BY <1>11, <1>12, <1>14
  <2>3. ~young => FromBlock'.ptr # ToBlock'.ptr
    <3> SUFFICES ASSUME ~young PROVE FromBlock.ptr # p
      BY <1>11
    <3>1. FromBlock \in live /\ Apart(new, FromBlock)
      BY <1>11, <1>15 DEF HasBlock
    <3>2. FromBlock.ptr \in Nat /\ FromBlock.len \in Nat \ {0}
      BY <1>11, <3>1 DEF BlocksOK
    <3> QED
      BY <1>5, <1>7, <1>12, <3>1, <3>2 DEF Apart
  <2>4. \A o \in live' : o.len = 1 => o.ptr < tospace'.base \/ tospace'.base + tospace'.len < o.ptr
    BY <1>2, <1>5, <1>11, <1>12, <1>14
  <2> QED
    BY <1>2, <1>14, <2>1, <2>2, <2>3, <2>4 DEF BlocksBacked
<1>18. PointersOK'
  <2>1. /\ mem \in [Addresses -> Nat] /\ cell \in [Cells -> Nat]
        /\ hmeans \in [0 .. Memory -> Meanings] /\ means \in [Cells -> Meanings]
    BY DEF Core, PointersOK
  <2>2. b.len <= n
    BY <1>5, <1>13
  <2>3. /\ mem' \in [Addresses -> Nat]
        /\ \A w \in 0 .. (b.len - 1) : mem'[p + w] = mem[b.ptr + w]
    <3>1. Copied(mem, mem', b, p, n)
      BY <1>5, <1>7, <1>13, <1>14, <1>15, <2>1, <2>2, CopyInBlock
    <3> QED
      BY <3>1 DEF Copied
  <2>4. \A c \in Cells : means[c] \in Denotable /\ Denotes(cell[c], means[c])'
    BY <1>2, <1>16, DenotesKept DEF Core, PointersOK
  <2>5. \A w \in 0 .. (Used - 1) :
           hmeans[w] \in Denotable /\ Denotes(mem[Start + w], hmeans[w])'
    <3> TAKE w \in 0 .. (Used - 1)
    <3>1. hmeans[w] \in Denotable /\ Denotes(mem[Start + w], hmeans[w])
      BY DEF Core, PointersOK
    <3>2. w \in 0 .. (b.len - 1)
      BY <1>5, <1>13
    <3>3. mem'[Start' + w] = mem[Start + w]
      BY <1>9, <1>13, <2>3, <3>2
    <3> QED
      BY <1>2, <1>16, <3>1, <3>3, DenotesKept
  <2> QED
    BY <1>2, <1>9, <2>1, <2>3, <2>4, <2>5 DEF PointersOK
<1> QED
  BY <1>6, <1>8, <1>17, <1>18 DEF Core
(* GC_grow is done: the region has its new spaces, and every pointer into  *)
(* the old tospace points into the new one.                                *)
LEMMA FinishStep ==
    ASSUME Core, FinishGrow
    PROVE  Core'
<1> DEFINE Moved(v) == Rebased(v, tospace.base, grow.old, grow.to)
<1>1. /\ pc = "finish" /\ Growing /\ RegionOK /\ GrowOK
      /\ pc' = grow.back /\ tooSmall' = ~GrewEnough
      /\ fromspace' = [base |-> grow.from, len |-> grow.new]
      /\ tospace' = [base |-> grow.to, len |-> grow.new]
      /\ free' = GrownFree
      /\ UNCHANGED <<young, live, table, request, means, hmeans>>
  BY DEF Core, FinishGrow, Growing, history
<1>2. /\ grow.hint \in Nat /\ grow.old \in Nat /\ grow.new \in Nat /\ grow.from \in Nat /\ grow.to \in Nat
      /\ grow.back \in {"run", "grown_before", "grown_after"}
      /\ grow.old = tospace.len /\ grow.new >= grow.old
      /\ grow.back # "run" => grow.hint = request
      /\ tospace.base \in Nat \ {0} /\ tospace.len \in Nat \ {0} /\ Used \in 0 .. tospace.len
      /\ free.base \in Nat /\ free.len \in Nat
      /\ free.base + free.len = tospace.base + tospace.len
      /\ Memory \in Nat /\ request \in Nat
  BY <1>1, GrowAssumption DEF GrowOK, RegionOK
<1>3. /\ BlocksOK(live) /\ TableOK(live, table) /\ HasBlock(live, table, ToBlock)
      /\ ToBlock = BlockOf(grow.to, grow.new) /\ FromBlock = BlockOf(grow.from, grow.new)
      /\ ~young => HasBlock(live, table, FromBlock) /\ FromBlock.ptr # ToBlock.ptr
      /\ \A b \in live : b.len = 1 => b.ptr < tospace.base \/ tospace.base + tospace.len < b.ptr
  BY <1>1 DEF Core, BlocksBacked, NoRoom, ToBlock, FromBlock
<1>4. grow.to \in Nat \ {0} /\ grow.to + grow.new <= Memory
  BY <1>2, <1>3 DEF HasBlock, BlocksOK, BlockOf, Padding
<1>5. ~young => grow.from \in Nat \ {0}
  BY <1>3 DEF HasBlock, BlocksOK, BlockOf
<1>6. /\ Used' = Used
      /\ free'.len = free.len + grow.new - grow.old
      /\ free' \in [base : Nat, len : Nat]
      /\ free'.base + free'.len = tospace'.base + tospace'.len
  BY <1>1, <1>2 DEF Used, GrownFree
<1>7. RegionOK'
  <2>1. bitmap'.size = grow.new /\ bitmap'.used = Used
    BY <1>1 DEF FinishGrow, GC_grow_bitmap, RegionOK
  <2>2. ~young => frombitmap'.size = grow.new
    BY <1>1 DEF FinishGrow, GC_grow_bitmap
  <2>3. young \in BOOLEAN /\ grow.new \in Nat \ {0}
    BY <1>1, <1>2 DEF RegionOK
  <2> QED
    BY <1>1, <1>2, <1>4, <1>5, <1>6, <2>1, <2>2, <2>3 DEF RegionOK
<1>8. GrowOK'
  <2>1. ~Growing' /\ pc' # "fromspace"
    BY <1>1, <1>2 DEF Growing
  <2>2. tooSmall' \in BOOLEAN
    BY <1>1, <1>2 DEF GrewEnough
  <2>3. PlacesFit'
    <3> SUFFICES ASSUME pc' \in {"grown_before", "grown_after"}, ~tooSmall'
                 PROVE  request' <= free'.len
      BY DEF PlacesFit
    <3>1. grow.new >= grow.old + grow.hint
      BY <1>1, Zenon DEF GrewEnough
    <3> QED
      BY <1>1, <1>2, <1>6, <3>1
  <2> QED
    BY <1>1, <1>2, <2>1, <2>2, <2>3 DEF GrowOK
<1>9. BlocksBacked'
  <2>1. /\ ToBlock' = ToBlock /\ FromBlock' = FromBlock /\ ~NoRoom'
    BY <1>1, <1>2, <1>3 DEF ToBlock, FromBlock, NoRoom, BlockOf
  <2>2. \A b \in live : b.len = 1 => b.ptr < grow.to \/ grow.to + grow.new < b.ptr
    <3> SUFFICES ASSUME NEW b \in live, b.len = 1
                 PROVE  b.ptr < grow.to \/ grow.to + grow.new < b.ptr
      OBVIOUS
    <3>1. ToBlock \in live /\ ToBlock.ptr = grow.to /\ ToBlock.len = grow.new + 1
      BY <1>3 DEF HasBlock, BlockOf, Padding
    <3>2. grow.new + 1 # 1 /\ b.ptr \in Nat
      BY <1>2, <1>3 DEF BlocksOK
    <3>3. Apart(b, ToBlock)
      BY <1>3, <3>1, <3>2 DEF BlocksOK
    <3> QED
      BY <1>2, <3>1, <3>2, <3>3 DEF Apart
  <2> QED
    BY <1>1, <1>3, <2>1, <2>2 DEF BlocksBacked
<1>10. PointersOK'
  <2>1. /\ mem \in [Addresses -> Nat] /\ cell \in [Cells -> Nat]
        /\ hmeans \in [0 .. Memory -> Meanings] /\ means \in [Cells -> Meanings]
    BY DEF Core, PointersOK
  <2>2. Start = grow.to /\ Start' = grow.to /\ Denotable' = Denotable
    BY <1>1, <1>2, <1>6 DEF Start, Denotable
  <2>3. \A v \in Nat : Moved(v) \in Nat
    BY <1>2 DEF Rebased
  <2>4. ASSUME NEW v \in Nat, NEW m \in Denotable, Denotes(v, m), NEW u, u = Moved(v)
        PROVE  Denotes(u, m)'
    <3>1. CASE m = Nothing
      BY <3>1 DEF Denotes, Nothing, Elsewhere
    <3>2. CASE m = Elsewhere
      <4>1. PICK b \in live : v # NULL /\ b.len = 1 /\ b.ptr = v
        BY <2>4, <3>2 DEF Denotes, Nothing, Elsewhere
      <4>2. b.ptr < tospace.base \/ tospace.base + tospace.len < b.ptr
        BY <1>3, <4>1
      <4>3. u = v
        BY <1>2, <2>4, <4>1, <4>2 DEF Rebased
      <4> QED
        BY <1>1, <3>2, <4>1, <4>3 DEF Denotes, Nothing, Elsewhere
    <3>3. CASE m \in 0 .. (Used - 1)
      <4>1. v = tospace.base + m
        BY <2>4, <3>3 DEF Denotes, Nothing, Elsewhere
      <4>2. u = grow.to + m
        BY <1>2, <2>4, <4>1, <3>3 DEF Rebased, NULL
      <4> QED
        BY <1>1, <3>3, <4>2 DEF Denotes, Nothing, Elsewhere
    <3> QED
      BY <3>1, <3>2, <3>3 DEF Denotable
  <2>5. /\ cell' = [c \in Cells |-> Moved(cell[c])]
        /\ mem' = [a \in Addresses |->
                     IF a \in grow.to .. (grow.to + grow.new - 1) THEN Moved(mem[a]) ELSE mem[a]]
    BY DEF FinishGrow, GC_region_rebase
  <2> HIDE DEF Moved
  <2>6. cell' \in [Cells -> Nat] /\ mem' \in [Addresses -> Nat]
    BY <2>1, <2>3, <2>5
  <2>7. \A c \in Cells : means'[c] \in Denotable' /\ Denotes(cell[c], means[c])'
    <3> TAKE c \in Cells
    <3>1. cell[c] \in Nat /\ means[c] \in Denotable /\ Denotes(cell[c], means[c])
      BY <2>1 DEF Core, PointersOK
    <3>2. cell'[c] = Moved(cell[c]) /\ means'[c] = means[c]
      BY <1>1, <2>5
    <3> QED
      BY <2>2, <2>4, <3>1, <3>2 DEF Denotes
  <2>8. \A w \in 0 .. (Used' - 1) :
           hmeans'[w] \in Denotable' /\ Denotes(mem[Start + w], hmeans[w])'
    <3> TAKE w \in 0 .. (Used' - 1)
    <3>1. /\ grow.to + w \in Addresses /\ grow.to + w \in grow.to .. (grow.to + grow.new - 1)
      BY <1>2, <1>4, <1>6 DEF Addresses
    <3>2. /\ mem[grow.to + w] \in Nat /\ hmeans[w] \in Denotable
          /\ Denotes(mem[grow.to + w], hmeans[w])
      BY <1>6, <2>1, <2>2, <3>1 DEF Core, PointersOK
    <3>3. mem'[Start' + w] = Moved(mem[grow.to + w]) /\ hmeans'[w] = hmeans[w]
      BY <1>1, <2>2, <2>5, <3>1
    <3> QED
      BY <2>2, <2>4, <3>2, <3>3 DEF Denotes
  <2> QED
    BY <1>1, <2>1, <2>6, <2>7, <2>8 DEF PointersOK
<1> QED
  BY <1>7, <1>8, <1>9, <1>10 DEF Core

(* The callers of GC_grow.                                                 *)
LEMMA CallerStep ==
    ASSUME Core,
           \/ \E sz \in Sizes : GC_malloc(sz) \/ MallocGrow(sz)
           \/ PromoteGrow \/ MallocRetry \/ MallocEnd
    PROVE  Core'
<1>0. RegionOK /\ GrowOK
  BY DEF Core
<1>1. ASSUME NEW sz \in Sizes, GC_malloc(sz) PROVE Core'
  <2>1. sz \in Nat /\ sz <= free.len /\ Settled /\ Place(sz) /\ pc' = "run"
    BY <1>1, GrowAssumption DEF GC_malloc, Settled
  <2> QED
    BY <2>1, PlaceStep
<1>2. ASSUME NEW sz \in Sizes, MallocGrow(sz) PROVE Core'
  <2>1. /\ sz \in Nat /\ YoungMaxBefore \in Nat /\ pc = "run" /\ request' = sz
        /\ GC_grow(sz, YoungMaxBefore, "grown_before")
        /\ UNCHANGED <<heap, cell, region, history>>
    BY <1>2, GrowAssumption DEF MallocGrow
  <2> QED
    BY <2>1, StartGrow
<1>3. CASE PromoteGrow
  <2>1. /\ free.len \in Nat /\ OldMax \in Nat /\ pc = "run" /\ request' \in Nat
        /\ GC_grow(free.len, OldMax, "run")
        /\ UNCHANGED <<heap, cell, region, history>>
    BY <1>0, <1>3, GrowAssumption DEF PromoteGrow, RegionOK, GrowOK
  <2> QED
    BY <2>1, StartGrow
<1>4. CASE MallocRetry
  <2>1. CASE request <= free.len /\ Place(request) /\ pc' = "run"
    <3>1. request \in Nat /\ Settled
      BY <1>0, <1>4 DEF GrowOK, MallocRetry, Settled
    <3> QED
      BY <2>1, <3>1, PlaceStep
  <2>2. CASE /\ request > free.len
             /\ GC_grow(request, YoungMax, "grown_after")
             /\ UNCHANGED <<heap, cell, region, request, history>>
    <3>1. /\ request \in Nat /\ YoungMax \in Nat /\ pc = "collected" /\ request' = request
          /\ UNCHANGED <<heap, cell, region, history>>
      BY <1>0, <1>4, <2>2, GrowAssumption DEF GrowOK, MallocRetry
    <3> QED
      BY <2>2, <3>1, StartGrow
  <2> QED
    BY <1>4, <2>1, <2>2 DEF MallocRetry
<1>5. CASE MallocEnd
  <2>1. pc' = "run" /\ Settled /\ request \in Nat
    BY <1>0, <1>5 DEF MallocEnd, Settled, GrowOK
  <2>2. CASE pc \in {"grown_before", "grown_after"} /\ ~tooSmall /\ Place(request)
    <3>1. request <= free.len
      BY <1>0, <2>2 DEF GrowOK, PlacesFit
    <3> QED
      BY <2>1, <2>2, <3>1, PlaceStep
  <2>3. CASE /\ pc = "grown_after" /\ tooSmall /\ request' = 0 /\ tooSmall' = FALSE
             /\ UNCHANGED <<heap, cell, region, grow, history>>
    <3>1. /\ UNCHANGED <<live, table, mem, cell, young, tospace, fromspace, free, bitmap,
                         frombitmap, grow, means, hmeans>>
      BY <2>3 DEF heap, region, history
    <3>2. RegionOK'
      BY <1>0, <3>1 DEF RegionOK, Used
    <3>3. GrowOK'
      BY <2>1, <2>3 DEF GrowOK, Growing, PlacesFit
    <3>4. BlocksBacked'
      BY <2>1, <3>1, StayBacked DEF Core
    <3>5. PointersOK'
      BY <1>0, <2>1, <3>1, PointersKept DEF Core
    <3> QED
      BY <3>2, <3>3, <3>4, <3>5 DEF Core
  <2> QED
    BY <1>5, <2>2, <2>3 DEF MallocEnd
<1> QED
  BY <1>1, <1>2, <1>3, <1>4, <1>5

LEMMA ActiveBefore ==
    ASSUME Next, Active'
    PROVE  Active
BY DEF Next, Active, Growing, Settled, Point, Store, GC_malloc, MallocGrow, GC_collect_region,
       PromoteGrow, GrowFromspace, GrowTospace, FinishGrow, GC_fatalf, MallocCollect,
       MallocRetry, MallocEnd

LEMMA StutterStep ==
    ASSUME Core, UNCHANGED vars
    PROVE  Core'
<1>1. UNCHANGED <<live, table, mem, cell, young, tospace, fromspace, free, bitmap, frombitmap,
                  pc, grow, request, tooSmall, means, hmeans>>
  BY DEF vars, heap, region, history
<1>2. RegionOK'
  BY <1>1 DEF Core, RegionOK, Used
<1>3. GrowOK'
  BY <1>1 DEF Core, GrowOK, Growing, PlacesFit
<1>4. BlocksBacked'
  BY <1>1 DEF Core, BlocksBacked, NoRoom, ToBlock, FromBlock, Malloc
<1>5. PointersOK'
  BY <1>1 DEF Core, PointersOK, Denotes, Denotable, Used, Start
<1> QED
  BY <1>2, <1>3, <1>4, <1>5 DEF Core

LEMMA Step ==
    ASSUME IInv, [Next]_vars
    PROVE  IInv'
<1>1. CASE UNCHANGED vars
  <2>1. Active' = Active
    BY <1>1 DEF Active, Growing, Settled, vars
  <2> QED
    BY <1>1, <2>1, StutterStep DEF IInv
<1>2. CASE Next
  <2> SUFFICES ASSUME Active' PROVE Core'
    BY DEF IInv
  <2>1. Core
    BY <1>2, ActiveBefore DEF IInv
  <2>2. ASSUME NEW c \in Cells, NEW w \in 0 .. Memory, Point(c, w) \/ Store(w, c) PROVE Core'
    BY <2>1, <2>2, PointStep, StoreStep
  <2>3. CASE GC_fatalf
    BY <2>3 DEF GC_fatalf, Active, Growing, Settled
  <2> QED
    BY <1>2, <2>1, <2>2, <2>3, CallerStep, CollectOldStep, FromspaceStep, TospaceStep,
       FinishStep, CollectStep DEF Next
<1> QED
  BY <1>1, <1>2

(* The region as GC_init_young_region or GC_init_old_region leaves it.     *)
LEMMA InitialState ==
    ASSUME Init
    PROVE  IInv
<1>1. PICK t \in Places, f \in Places, x \in Places, c0 \in Cells, y \in Regions :
        LET spaces == IF y THEN <<t>> ELSE <<t, f>>
            entries == [i \in DOMAIN spaces |-> BlockOf(spaces[i], InitialWords)]
            blocks == Range(entries) \cup {[ptr |-> x, len |-> 1]} IN
        /\ y => f = t
        /\ Cardinality(blocks) = Len(spaces) + 1
        /\ \A a, b \in blocks : a # b => Extent(a) \cap Extent(b) = {}
        /\ \A b \in blocks : Extent(b) \subseteq Addresses
        /\ young = y
        /\ live = blocks
        /\ table = entries
        /\ mem = [a \in Addresses |-> NULL]
        /\ cell = [c \in Cells |-> IF c = c0 THEN x ELSE NULL]
        /\ means = [c \in Cells |-> IF c = c0 THEN Elsewhere ELSE Nothing]
        /\ tospace = [base |-> t, len |-> InitialWords]
        /\ fromspace = IF y THEN [base |-> NULL, len |-> 0]
                       ELSE [base |-> f, len |-> InitialWords]
        /\ free = tospace
        /\ bitmap = GC_init_bitmap(InitialWords)
        /\ frombitmap = GC_init_bitmap(IF y THEN 0 ELSE InitialWords)
        /\ pc = "run" /\ grow = NoGrow /\ request = 0 /\ tooSmall = FALSE
        /\ hmeans = [w \in 0 .. Memory |-> Nothing]
  BY DEF Init
<1>2. PICK bt, bf, bx, entries, blocks :
        /\ bt = BlockOf(t, InitialWords) /\ bf = BlockOf(f, InitialWords)
        /\ bx = [ptr |-> x, len |-> 1]
        /\ entries = table /\ blocks = live
  OBVIOUS
<1>3. /\ t \in Nat \ {0} /\ f \in Nat \ {0} /\ x \in Nat \ {0}
      /\ InitialWords \in Nat \ {0} /\ Memory \in Nat /\ y \in BOOLEAN
  BY GrowAssumption
<1>4. /\ {bt, bf, bx} \subseteq [ptr : Nat \ {0}, len : Nat \ {0}]
      /\ bt.ptr = t /\ bf.ptr = f /\ bx.ptr = x /\ bx.len = 1
      /\ bt.len = InitialWords + 1 /\ bf.len = InitialWords + 1
      /\ bt # bx /\ bf # bx
  BY <1>2, <1>3 DEF BlockOf, Padding
<1>5. /\ young = y /\ (y => f = t)
      /\ mem = [a \in Addresses |-> NULL]
      /\ cell = [c \in Cells |-> IF c = c0 THEN x ELSE NULL]
      /\ means = [c \in Cells |-> IF c = c0 THEN Elsewhere ELSE Nothing]
      /\ tospace = [base |-> t, len |-> InitialWords]
      /\ free = tospace
      /\ bitmap = GC_init_bitmap(InitialWords)
      /\ frombitmap = GC_init_bitmap(IF y THEN 0 ELSE InitialWords)
      /\ ~y => fromspace = [base |-> f, len |-> InitialWords]
      /\ pc = "run" /\ grow = NoGrow /\ request = 0 /\ tooSmall = FALSE
      /\ hmeans = [w \in 0 .. Memory |-> Nothing]
  BY <1>1
<1>6. /\ y => table = <<bt>>
      /\ ~y => table = <<bt, bf>>
  BY <1>1, <1>2
<1>7. /\ live = Range(table) \cup {bx}
      /\ \A a, b \in live : a # b => Extent(a) \cap Extent(b) = {}
      /\ \A b \in live : Extent(b) \subseteq Addresses
  BY <1>1, <1>2
<1>8. /\ y => live = {bt, bx}
      /\ ~y => live = {bt, bf, bx}
  BY <1>6, <1>7 DEF Range
<1>9. ~y => t # f
  <2> SUFFICES ASSUME ~y, t = f PROVE FALSE
    OBVIOUS
  <2>1. Cardinality(live) = Len(<<t, f>>) + 1
    BY <1>1
  <2>2. live = {bt} \cup {bx}
    BY <1>2, <1>8
  <2>3. IsFiniteSet({bt}) /\ Cardinality({bt}) = 1
    BY FS_Singleton
  <2>4. Cardinality({bt} \cup {bx}) = IF bx \in {bt} THEN 1 ELSE 1 + 1
    BY <2>3, FS_AddElement
  <2> QED
    BY <2>1, <2>2, <2>4
<1>10. RegionOK
  BY <1>3, <1>5 DEF RegionOK, Used, GC_init_bitmap
<1>11. GrowOK
  BY <1>5 DEF GrowOK, Growing, PlacesFit
<1>12. BlocksOK(live)
  <2>1. live \subseteq [ptr : Nat \ {0}, len : Nat \ {0}]
    BY <1>4, <1>8
  <2>2. ASSUME NEW b \in live PROVE b.ptr + b.len <= Memory + 1
    <3>1. b.ptr \in Nat \ {0} /\ b.len \in Nat \ {0}
      BY <2>1
    <3>2. b.ptr + b.len - 1 \in Extent(b)
      BY <3>1 DEF Extent
    <3>3. b.ptr + b.len - 1 \in Addresses
      BY <1>7, <3>2
    <3> QED
      BY <1>3, <3>1, <3>3 DEF Addresses
  <2>3. \A a, b \in live : a # b => Apart(a, b)
    BY <1>7, <2>1, ApartFromExtents
  <2> QED
    BY <2>1, <2>2, <2>3 DEF BlocksOK
<1>13. /\ ToBlock = bt /\ ~NoRoom
       /\ ~y => FromBlock = bf
  BY <1>2, <1>5 DEF ToBlock, FromBlock, NoRoom
<1>14. TableOK(live, table)
  <2> DEFINE R == [ptr : Nat, len : Nat]
  <2>1. bt \in R /\ bf \in R
    BY <1>4
  <2> HIDE DEF R
  <2>2. table \in Seq(R)
    <3>1. <<bt>> \in Seq(R)
      BY <2>1
    <3>2. <<bt, bf>> \in Seq(R)
      BY <2>1
    <3> QED
      BY <1>6, <3>1, <3>2, Zenon
  <2>3. \A i \in DOMAIN table : table[i] \in live
    BY <1>6, <1>8
  <2>4. \A i, j \in DOMAIN table : table[i].ptr = table[j].ptr => i = j
    BY <1>4, <1>6, <1>9
  <2> QED
    BY <2>2, <2>3, <2>4 DEF TableOK, R
<1>15. HasBlock(live, table, bt) /\ (~y => HasBlock(live, table, bf))
  <2>1. CASE y
    <3>1. 1 \in DOMAIN table /\ table[1] = bt
      BY <1>6, <2>1
    <3> QED
      BY <1>8, <2>1, <3>1 DEF HasBlock
  <2>2. CASE ~y
    <3>1. 1 \in DOMAIN table /\ table[1] = bt /\ 2 \in DOMAIN table /\ table[2] = bf
      BY <1>6, <2>2
    <3> QED
      BY <1>8, <2>2, <3>1 DEF HasBlock
  <2> QED
    BY <2>1, <2>2
<1>16. \A b \in live : b.len = 1 => b.ptr < tospace.base \/ tospace.base + tospace.len < b.ptr
  <2> SUFFICES ASSUME NEW b \in live, b.len = 1
               PROVE  b.ptr < t \/ t + InitialWords < b.ptr
    BY <1>5
  <2>1. b # bt /\ Apart(b, bt)
    BY <1>3, <1>4, <1>12, <1>15 DEF BlocksOK, HasBlock
  <2>2. b.ptr \in Nat
    BY <1>12 DEF BlocksOK
  <2> QED
    BY <1>3, <1>4, <2>1, <2>2 DEF Apart
<1>17. BlocksBacked
  BY <1>4, <1>5, <1>9, <1>12, <1>13, <1>14, <1>15, <1>16 DEF BlocksBacked
<1>18. PointersOK
  <2>1. Used = 0
    BY <1>3, <1>5 DEF Used
  <2>2. /\ mem \in [Addresses -> Nat] /\ cell \in [Cells -> Nat]
        /\ hmeans \in [0 .. Memory -> Meanings] /\ means \in [Cells -> Meanings]
    BY <1>3, <1>5 DEF NULL, Meanings
  <2>3. ASSUME NEW c \in Cells PROVE means[c] \in Denotable /\ Denotes(cell[c], means[c])
    <3>1. means[c] \in Denotable
      BY <1>5 DEF Denotable
    <3>2. CASE c = c0
      <4>1. cell[c] = x /\ means[c] = Elsewhere
        BY <1>5, <3>2
      <4>2. bx \in live
        BY <1>7
      <4>3. x # NULL /\ \E b \in live : b.len = 1 /\ b.ptr = x
        BY <1>3, <1>4, <4>2 DEF NULL
      <4> QED
        BY <3>1, <4>1, <4>3 DEF Denotes, Nothing, Elsewhere
    <3>3. CASE c # c0
      <4>1. means[c] = Nothing
        BY <1>5, <3>3
      <4> QED
        BY <3>1, <4>1 DEF Denotes, Nothing, Elsewhere
    <3> QED
      BY <3>2, <3>3
  <2> QED
    BY <2>1, <2>2, <2>3 DEF PointersOK
<1> QED
  BY <1>10, <1>11, <1>17, <1>18 DEF IInv, Core

-----------------------------------------------------------------------------
(* The theorems.                                                           *)

LEMMA Invariance == Spec => []IInv
<1>1. Init => IInv
  BY InitialState
<1>2. IInv /\ [Next]_vars => IInv'
  BY Step
<1> QED
  BY <1>1, <1>2, PTL DEF Spec

(* After every growth, and between them, the region's capabilities fit     *)
(* together: the free pointer reaches to the end of the tospace and the    *)
(* bitmaps agree with it (gc_low.c:452-468, 492), for every initial size,  *)
(* limit and sequence of requests.                                         *)
THEOREM RegionCorrect == Spec => []RegionConsistent
<1>1. IInv => RegionConsistent
  <2> SUFFICES ASSUME IInv, Settled PROVE RegionConsistent
    BY DEF RegionConsistent
  <2>1. RegionOK
    BY DEF IInv, Core, Active
  <2> QED
    BY <2>1 DEF RegionConsistent, RegionOK
<1> QED
  BY <1>1, Invariance, PTL

(* Each space has a block of its own that malloc has not taken back, and   *)
(* the table has that block's length: the next GC_low_realloc copies what  *)
(* it has to, wherever malloc put the blocks.                              *)
THEOREM BackingCorrect == Spec => []RegionBacked
<1>1. IInv => RegionBacked
  <2> SUFFICES ASSUME IInv, Settled PROVE RegionBacked
    BY DEF RegionBacked
  <2>1. Core
    BY DEF IInv, Active
  <2>2. /\ HasBlock(live, table, BlockOf(tospace.base, tospace.len))
        /\ ~young => /\ HasBlock(live, table, BlockOf(fromspace.base, fromspace.len))
                     /\ fromspace.base # tospace.base
    BY <2>1, InMemory
  <2> QED
    BY <2>2 DEF RegionBacked, Spaces, HasBlock
<1> QED
  BY <1>1, Invariance, PTL

(* GC_region_rebase moves every pointer into the tospace with it, whatever *)
(* the number of growths, and leaves the others alone: a pointer stands    *)
(* for the word that the program made it for.                              *)
THEOREM PointersCorrect == Spec => []PointersFollow
<1>1. IInv => PointersFollow
  <2> SUFFICES ASSUME IInv, Settled PROVE PointersFollow
    BY DEF PointersFollow
  <2>1. PointersOK /\ Start = tospace.base
    BY DEF IInv, Active, Core, Start, Settled
  <2> QED
    BY <2>1 DEF PointersFollow, PointersOK
<1> QED
  BY <1>1, Invariance, PTL

(* When GC_grow says that it has grown enough, the request fits:           *)
(* GC_malloc_region places no object past the end of the space.            *)
THEOREM PlacementCorrect == Spec => []PlacesFit
<1>1. IInv => PlacesFit
  BY DEF IInv, Active, Core, GrowOK, Settled, PlacesFit
<1> QED
  BY <1>1, Invariance, PTL
=============================================================================
