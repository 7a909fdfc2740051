---------------------------- MODULE GCInitProofs ----------------------------
(***************************************************************************)
(* The theorems about the library's own memory, for every size of the      *)
(* regions, of the remembered set, of the table and of malloc's memory:    *)
(* the allocation table is exact, the pointers of GC_state have the blocks *)
(* they should have, the table is not filled by growth, and the array of   *)
(* the remembered set implements RememberedSet.                            *)
(*                                                                         *)
(* IInv is the inductive invariant.  The parts that the properties do not  *)
(* mention are the states within GC_init2 and GC_grow: which fields have   *)
(* been reached, how long their blocks are, how many entries there are.    *)
(***************************************************************************)
EXTENDS GCInit, SequenceTheorems, WellFoundedInduction, TLAPS

-----------------------------------------------------------------------------
(* The inductive invariant.                                                *)

(* The program has not ended.                                              *)
Running == pc \in {"run", "init", "grow"}

Regions == {"old", "young"}

(* What a block of n bytes can hold.                                       *)
Contents(n) == [1 .. (n \div PointerBytes) -> Words \cup {NULL, Garbage}]

BlocksOK(l) ==
    /\ DOMAIN l \subseteq 1 .. Blocks
    /\ l = [p \in DOMAIN l |-> l[p]]
    /\ \A p \in DOMAIN l :
          /\ l[p].len \in Nat
          /\ l[p].data \in Contents(l[p].len)
          /\ l[p] = [len |-> l[p].len, data |-> l[p].data]

(* TableExact, for any blocks l and table t, without the sets of entries.  *)
Exact(l, t) ==
    /\ t \in Seq([ptr : 1 .. Blocks, len : Nat])
    /\ \A i \in DOMAIN t : t[i].ptr \in DOMAIN l /\ t[i].len = l[t[i].ptr].len
    /\ \A p \in DOMAIN l : \E i \in DOMAIN t : t[i].ptr = p
    /\ \A i, j \in DOMAIN t : t[i].ptr = t[j].ptr => i = j

Memory(l, t) == BlocksOK(l) /\ Exact(l, t)

(* The fields that GC_init2 or GC_grow has still to (re)allocate.          *)
Pending == {todo[i] : i \in DOMAIN todo}

ControlOK ==
    /\ field \in [Fields -> 0 .. Blocks]
    /\ words \in [Regions -> Nat]
    /\ remset \in [nroots : Nat, size : Nat]
    /\ initialized \in BOOLEAN /\ failed \in BOOLEAN
    /\ goal \in [region : Regions, words : Nat]
    /\ todo \in Seq(Fields)
    /\ pc = "run" => todo = <<>>
    /\ pc = "init" => ~initialized
    /\ pc = "grow" => /\ initialized
                      /\ Pending \subseteq Range(GrowOrder[goal.region])
                      /\ \A i, j \in DOMAIN todo : todo[i] = todo[j] => i = j

(* While GC_grow runs, the blocks that it has reallocated have their new   *)
(* length and the others still the old one.                                *)
Wanted(f) ==
    IF f = "young.roots" THEN remset.size * PointerBytes
    ELSE IF pc = "grow" /\ RegionOf(f) = goal.region /\ f \notin Pending
         THEN Length(f, goal.words)
    ELSE Length(f, words[RegionOf(f)])

(* The fields whose blocks are valid.  While GC_init2 runs they are those  *)
(* that it has got to; those before may be left over from a call that      *)
(* failed.                                                                 *)
Settled ==
    IF initialized THEN Fields
    ELSE IF pc = "init" THEN Fields \ Pending
    ELSE {}

FieldsBacked ==
    /\ \A f \in Settled : field[f] \in DOMAIN live /\ live[field[f]].len = Wanted(f)
    /\ \A f, g \in Settled : field[f] = field[g] => f = g

(* As long as no call of GC_init2 has failed, the table has an entry for   *)
(* each of the fields that have been reached, and no other.                *)
EntriesCounted ==
    failed \/ Len(table) = (IF pc = "init" THEN Len(InitOrder) - Len(todo)
                            ELSE IF initialized THEN Len(InitOrder)
                            ELSE 0)

(* The slots in use are in the array and hold addresses that were added.   *)
RootsOK ==
    /\ ~initialized => remset.nroots = 0
    /\ initialized => /\ remset.nroots <= remset.size
                      /\ \A i \in 1 .. remset.nroots : Roots[i] \in Words

Core == Memory(live, table) /\ ControlOK /\ FieldsBacked /\ EntriesCounted /\ RootsOK

IInv ==
    /\ Running => Core
    /\ FullOnlyAfterFailure

-----------------------------------------------------------------------------
(* The fields and their lengths.                                           *)

(* The fields, written out.                                                *)
Names == {"old.tospace", "old.fromspace", "old.tospace_bitmap",
          "old.tospace_map", "old.fromspace_bitmap", "old.fromspace_map",
          "young.tospace", "young.tospace_bitmap", "young.tospace_map",
          "young.remset", "young.roots"}

(* Fields, as a set of names, and its order.                               *)
LEMMA FieldNames == Fields = Names /\ InitOrder \in Seq(Names)
<1>1. DOMAIN InitOrder = 1 .. 11
  BY DEF InitOrder, OldFields, YoungFields
<1>2. 1 .. 11 = {1, 2, 3, 4, 5, 6, 7, 8, 9, 10, 11}
  OBVIOUS
<1>3. Fields = Names
  BY <1>1, <1>2 DEF Fields, Range, InitOrder, OldFields, YoungFields, Names
<1>4. OldFields \in Seq(Names)
  BY DEF OldFields, Names
<1>5. YoungFields \in Seq(Names)
  BY DEF YoungFields, Names
<1>6. InitOrder \in Seq(Names)
  BY <1>4, <1>5, ConcatProperties, Zenon DEF InitOrder
<1> QED
  BY <1>3, <1>6

(* The two lists of work are lists of fields, and GC_grow's has no field   *)
(* twice.                                                                  *)
LEMMA OrderFacts ==
    /\ InitOrder \in Seq(Fields)
    /\ "young.roots" \in Fields
    /\ \A r \in Regions : /\ GrowOrder[r] \in Seq(Fields)
                          /\ \A i, j \in DOMAIN GrowOrder[r] :
                                GrowOrder[r][i] = GrowOrder[r][j] => i = j
<1>1. GrowOrder["old"] \in Seq(Names) /\ GrowOrder["young"] \in Seq(Names)
  BY DEF GrowOrder, Names
<1>2. \A i, j \in DOMAIN GrowOrder["old"] :
         GrowOrder["old"][i] = GrowOrder["old"][j] => i = j
  BY DEF GrowOrder
<1>3. \A i, j \in DOMAIN GrowOrder["young"] :
         GrowOrder["young"][i] = GrowOrder["young"][j] => i = j
  BY DEF GrowOrder
<1>4. "young.roots" \in Names
  BY DEF Names
<1> QED
  BY <1>1, <1>2, <1>3, <1>4, FieldNames DEF Regions

(* GC_grow reallocates blocks of its own region, and never the array of    *)
(* the remembered set.                                                     *)
LEMMA RegionFacts ==
    /\ \A f : RegionOf(f) \in Regions
    /\ \A r \in Regions : \A f \in Range(GrowOrder[r]) : RegionOf(f) = r /\ f # "young.roots"
<1>1. Range(OldFields) = {"old.tospace", "old.fromspace", "old.tospace_bitmap",
                          "old.tospace_map", "old.fromspace_bitmap", "old.fromspace_map"}
  BY DEF Range, OldFields
<1>2. /\ Range(GrowOrder["old"]) = {"old.fromspace", "old.tospace", "old.tospace_map",
                                   "old.fromspace_map"}
      /\ Range(GrowOrder["young"]) = {"young.tospace", "young.tospace_map"}
  BY DEF Range, GrowOrder
<1> QED
  BY <1>1, <1>2 DEF RegionOf, Regions

(* The blocks of a region that GC_grow does not reallocate have a length   *)
(* that does not depend on the size of the region.                         *)
LEMMA LengthFacts ==
    /\ \A f \in Fields, n \in Nat : Length(f, n) \in Nat
    /\ \A r \in Regions, f \in Fields, m, n \in Nat :
          RegionOf(f) = r /\ f \notin Range(GrowOrder[r]) => Length(f, m) = Length(f, n)
<1>1. \A f \in Fields, n \in Nat : Length(f, n) \in Nat
  BY InitAssumption DEF Length, MapBytes, PointerBytes, StructBytes, Spaces, Maps
<1>2. Range(OldFields) = {"old.tospace", "old.fromspace", "old.tospace_bitmap",
                          "old.tospace_map", "old.fromspace_bitmap", "old.fromspace_map"}
  BY DEF Range, OldFields
<1>3. /\ Range(GrowOrder["old"]) = {"old.fromspace", "old.tospace", "old.tospace_map",
                                   "old.fromspace_map"}
      /\ Range(GrowOrder["young"]) = {"young.tospace", "young.tospace_map"}
  BY DEF Range, GrowOrder
<1>4. ASSUME NEW f, RegionOf(f) = "old", f \notin Range(GrowOrder["old"])
      PROVE  f \notin Spaces /\ f \notin Maps
  BY <1>2, <1>3, <1>4 DEF RegionOf, Spaces, Maps
<1>5. ASSUME NEW f, RegionOf(f) = "young", f \notin Range(GrowOrder["young"])
      PROVE  f \notin Spaces /\ f \notin Maps
  BY <1>2, <1>3, <1>5 DEF RegionOf, Spaces, Maps
<1>6. \A f, m, n : f \notin Spaces /\ f \notin Maps => Length(f, m) = Length(f, n)
  BY DEF Length
<1> QED
  BY <1>1, <1>4, <1>5, <1>6 DEF Regions

(* The head of the list of work is pending; the tail has all the rest.     *)
LEMMA RestOfTodo ==
    ASSUME todo \in Seq(Fields), todo # <<>>
    PROVE  /\ Head(todo) \in Fields /\ Head(todo) \in Pending
           /\ Tail(todo) \in Seq(Fields) /\ Len(Tail(todo)) = Len(todo) - 1
           /\ {Tail(todo)[i] : i \in DOMAIN Tail(todo)} \subseteq Pending
           /\ Pending \subseteq {Tail(todo)[i] : i \in DOMAIN Tail(todo)} \cup {Head(todo)}
           /\ \A i \in DOMAIN Tail(todo) : Tail(todo)[i] = todo[i + 1] /\ i + 1 \in DOMAIN todo
<1>1. /\ Len(todo) \in Nat /\ Len(todo) # 0 /\ DOMAIN todo = 1 .. Len(todo)
      /\ Head(todo) = todo[1] /\ 1 \in DOMAIN todo
      /\ todo \in [1 .. Len(todo) -> Fields]
  OBVIOUS
<1>2. /\ Tail(todo) \in Seq(Fields) /\ Len(Tail(todo)) = Len(todo) - 1
      /\ DOMAIN Tail(todo) = 1 .. Len(todo) - 1
      /\ \A i \in 1 .. Len(todo) - 1 : Tail(todo)[i] = todo[i + 1]
  BY <1>1
<1>3. \A i \in 1 .. Len(todo) : i = 1 \/ i - 1 \in 1 .. Len(todo) - 1
  BY <1>1
<1>4. \A i \in 1 .. Len(todo) : i = 1 \/ todo[i] = Tail(todo)[i - 1]
  BY <1>1, <1>2, <1>3
<1>5. {Tail(todo)[i] : i \in DOMAIN Tail(todo)} \subseteq Pending
  <2> SUFFICES ASSUME NEW i \in 1 .. Len(todo) - 1 PROVE Tail(todo)[i] \in Pending
    BY <1>2
  <2>1. i + 1 \in DOMAIN todo
    BY <1>1
  <2> QED
    BY <2>1, <1>2 DEF Pending
<1>6. Pending \subseteq {Tail(todo)[i] : i \in DOMAIN Tail(todo)} \cup {Head(todo)}
  <2> SUFFICES ASSUME NEW i \in 1 .. Len(todo), i # 1
               PROVE  todo[i] \in {Tail(todo)[j] : j \in DOMAIN Tail(todo)}
    BY <1>1 DEF Pending
  <2> QED
    BY <1>2, <1>3, <1>4
<1>7. \A i \in DOMAIN Tail(todo) : Tail(todo)[i] = todo[i + 1] /\ i + 1 \in DOMAIN todo
  BY <1>1, <1>2
<1>8. Head(todo) \in Fields /\ Head(todo) \in Pending
  BY <1>1 DEF Pending
<1> QED
  BY <1>2, <1>5, <1>6, <1>7, <1>8

-----------------------------------------------------------------------------
(* malloc and the table.                                                   *)

(* malloc returns no address that is in use.                               *)
LEMMA MallocFresh ==
    ASSUME NEW p \in Malloc, p # NULL
    PROVE  p \in 1 .. Blocks /\ p \notin DOMAIN live
BY DEF Malloc

(* A block from malloc is a block.                                         *)
LEMMA BlockOK ==
    ASSUME NEW n \in Nat
    PROVE  Block(n).len = n /\ Block(n).data \in Contents(n)
           /\ Block(n) = [len |-> Block(n).len, data |-> Block(n).data]
BY DEF Block, Contents

(* m is l with the block b at the address p.                               *)
Added(m, l, p, b) ==
    /\ BlocksOK(m)
    /\ DOMAIN m = DOMAIN l \cup {p}
    /\ m[p] = b
    /\ \A q \in DOMAIN l \ {p} : m[q] = l[q]

(* WithBlock adds the block that it is given, and nothing else changes.    *)
LEMMA WithBlockOK ==
    ASSUME NEW l, BlocksOK(l), NEW p \in 1 .. Blocks, NEW b, b.len \in Nat,
           b.data \in Contents(b.len), b = [len |-> b.len, data |-> b.data]
    PROVE  Added(WithBlock(l, p, b), l, p, b)
<1> DEFINE m == WithBlock(l, p, b)
<1>1. DOMAIN m = DOMAIN l \cup {p} /\ m[p] = b /\ \A q \in DOMAIN l \ {p} : m[q] = l[q]
  BY DEF WithBlock
<1>2. m = [q \in DOMAIN m |-> m[q]]
  BY DEF WithBlock
<1> HIDE DEF m
<1>3. BlocksOK(m)
  BY <1>1, <1>2 DEF BlocksOK
<1> QED
  BY <1>1, <1>3 DEF m, Added

(* A new block and its new entry keep the table exact.                     *)
LEMMA AddBlock ==
    ASSUME NEW l, NEW t, Memory(l, t), NEW n \in Nat,
           NEW p \in 1 .. Blocks, p \notin DOMAIN l
    PROVE  Memory(WithBlock(l, p, Block(n)), Append(t, Entry(p, n)))
<1> DEFINE m == WithBlock(l, p, Block(n))
           u == Append(t, Entry(p, n))
<1>1. /\ BlocksOK(m) /\ DOMAIN m = DOMAIN l \cup {p} /\ m[p].len = n
      /\ \A q \in DOMAIN l : m[q] = l[q]
  <2>1. Added(m, l, p, Block(n))
    BY BlockOK, WithBlockOK DEF Memory
  <2> QED
    BY <2>1, BlockOK DEF Added
<1>2. /\ u \in Seq([ptr : 1 .. Blocks, len : Nat])
      /\ Len(u) = Len(t) + 1 /\ u[Len(u)] = Entry(p, n)
      /\ \A i \in 1 .. Len(t) : u[i] = t[i]
      /\ DOMAIN t = 1 .. Len(t) /\ DOMAIN u = 1 .. Len(u) /\ Len(t) \in Nat
  BY DEF Memory, Exact, Entry
<1>3. Entry(p, n).ptr = p /\ Entry(p, n).len = n
  BY DEF Entry
<1>4. /\ \A i \in DOMAIN t : t[i].ptr \in DOMAIN l /\ t[i].len = l[t[i].ptr].len
      /\ \A q \in DOMAIN l : \E i \in DOMAIN t : t[i].ptr = q
      /\ \A i, j \in DOMAIN t : t[i].ptr = t[j].ptr => i = j
  BY DEF Memory, Exact
<1>5. \A i \in DOMAIN u : i \in DOMAIN t \/ i = Len(u)
  BY <1>2
<1> HIDE DEF m, u
<1>6. ASSUME NEW i \in DOMAIN u
      PROVE u[i].ptr \in DOMAIN m /\ u[i].len = m[u[i].ptr].len
  <2>1. CASE i \in DOMAIN t
    <3>1. u[i] = t[i]
      BY <2>1, <1>2
    <3>2. t[i].ptr \in DOMAIN l /\ t[i].len = l[t[i].ptr].len
      BY <2>1, <1>4
    <3> QED
      BY <3>1, <3>2, <1>1
  <2>2. CASE i = Len(u)
    BY <2>2, <1>1, <1>2, <1>3
  <2> QED
    BY <2>1, <2>2, <1>5
<1>7. ASSUME NEW q \in DOMAIN m PROVE \E i \in DOMAIN u : u[i].ptr = q
  <2>1. CASE q \in DOMAIN l
    <3>1. PICK i \in DOMAIN t : t[i].ptr = q
      BY <2>1, <1>4
    <3> QED
      BY <3>1, <1>2
  <2>2. CASE q = p
    <3>1. Len(u) \in DOMAIN u
      BY <1>2
    <3> QED
      BY <2>2, <3>1, <1>2, <1>3
  <2> QED
    BY <2>1, <2>2, <1>1
<1>8. ASSUME NEW i \in DOMAIN u, NEW j \in DOMAIN u, u[i].ptr = u[j].ptr
      PROVE  i = j
  <2>1. \A k \in DOMAIN t : u[k] = t[k]
    BY <1>2
  <2>2. \A k \in DOMAIN t : t[k].ptr # p
    BY <1>4
  <2>3. u[Len(u)].ptr = p
    BY <1>2, <1>3
  <2> QED
    BY <1>4, <1>5, <1>8, <2>1, <2>2, <2>3
<1> QED
  BY <1>1, <1>2, <1>6, <1>7, <1>8 DEF Memory, Exact, m, u

(* m is l after x was written to the i-th slot of the block at p.          *)
Written(m, l, p, i, x) ==
    /\ DOMAIN m = DOMAIN l
    /\ \A q \in DOMAIN l : m[q].len = l[q].len
    /\ \A q \in DOMAIN l \ {p} : m[q] = l[q]
    /\ m[p].data = [l[p].data EXCEPT ![i] = x]

(* A write to a slot of a block changes no length.                         *)
LEMMA WriteRoot ==
    ASSUME NEW l, NEW t, Memory(l, t), NEW p \in DOMAIN l,
           NEW i \in DOMAIN l[p].data, NEW x \in Words
    PROVE  Memory(WithRoot(l, p, i, x), t) /\ Written(WithRoot(l, p, i, x), l, p, i, x)
<1> DEFINE m == WithRoot(l, p, i, x)
           d == [l[p].data EXCEPT ![i] = x]
<1>1. l[p] = [len |-> l[p].len, data |-> l[p].data] /\ l[p].data \in Contents(l[p].len)
  BY DEF Memory, BlocksOK
<1>2. m = [l EXCEPT ![p] = [len |-> l[p].len, data |-> d]]
  BY DEF WithRoot
<1>3. d \in Contents(l[p].len)
  BY <1>1 DEF Contents
<1>4. /\ DOMAIN m = DOMAIN l /\ \A q \in DOMAIN l \ {p} : m[q] = l[q]
      /\ m[p] = [len |-> l[p].len, data |-> d]
      /\ m = [q \in DOMAIN m |-> m[q]]
  BY <1>2
<1>5. m[p].len = l[p].len /\ m[p].data = d
  BY <1>4
<1> HIDE DEF m, d
<1>6. BlocksOK(m)
  BY <1>3, <1>4, <1>5 DEF Memory, BlocksOK
<1>7. Exact(m, t)
  BY <1>4, <1>5 DEF Memory, Exact
<1> QED
  BY <1>4, <1>5, <1>6, <1>7 DEF m, d, Memory, Written

(* A set of numbers that is not empty has a least element, and Min is it.  *)
LEMMA MinOfNats ==
    ASSUME NEW S \in SUBSET Nat, S # {}
    PROVE  Min(S) \in S /\ \A y \in S : Min(S) <= y
<1> DEFINE R == {ss \in Nat \X Nat : ss[1] < ss[2]}
<1>1. IsWellFoundedOn(R, Nat)
  BY NatLessThanWellFounded DEF OpToRel
<1> HIDE DEF R
<1>2. \E x \in S : \A y \in S : ~(<<y, x>> \in R)
  BY <1>1, WFMin, Zenon
<1>3. \A x, y \in Nat : ~(<<y, x>> \in R) => x <= y
  BY DEF R
<1>4. \E x \in S : \A y \in S : x <= y
  BY <1>2, <1>3
<1> QED
  BY <1>4 DEF Min

(* GC_low_realloc finds exactly one entry for a block, with its length.    *)
LEMMA EntryFound ==
    ASSUME Memory(live, table), NEW ptr \in DOMAIN live
    PROVE  \E i \in DOMAIN table :
              Entries(ptr) = {i} /\ table[i].ptr = ptr /\ table[i].len = live[ptr].len
<1>1. PICK i \in DOMAIN table : table[i].ptr = ptr
  BY DEF Memory, Exact
<1>2. table[i].len = live[ptr].len
  BY <1>1 DEF Memory, Exact
<1>3. \A j \in DOMAIN table : table[j].ptr = ptr => j = i
  BY <1>1 DEF Memory, Exact
<1> QED
  BY <1>1, <1>2, <1>3 DEF Entries

(* l and t are the blocks and the table after the block at ptr has moved   *)
(* to p and has n bytes.                                                   *)
Reallocated(l, t, ptr, p, n) ==
    /\ Memory(l, t)
    /\ DOMAIN l = (DOMAIN live \ {ptr}) \cup {p}
    /\ l[p] = [len |-> n, data |-> Copied(live[ptr], live[ptr].len, n)]
    /\ \A q \in DOMAIN live \ {ptr} : l[q] = live[q]
    /\ Len(t) = Len(table)

(* GC_low_realloc moves the block and its entry and touches no other.      *)
LEMMA Realloc ==
    ASSUME Memory(live, table), NEW ptr \in DOMAIN live, NEW n \in Nat,
           NEW p \in Malloc, p # NULL, ~Full
    PROVE  Reallocated(GC_low_realloc(ptr, n, p).live,
                       GC_low_realloc(ptr, n, p).table, ptr, p, n)
<1> DEFINE next == GC_low_realloc(ptr, n, p)
           d == Copied(live[ptr], live[ptr].len, n)
<1>1. PICK i \in DOMAIN table :
         Entries(ptr) = {i} /\ table[i].ptr = ptr /\ table[i].len = live[ptr].len
  BY EntryFound
<1>2. table \in Seq([ptr : 1 .. Blocks, len : Nat])
  BY DEF Memory, Exact
<1>3. Min(Entries(ptr)) = i
  <2>1. i \in Nat
    BY <1>2
  <2> QED
    BY <1>1, <2>1 DEF Min
<1>4. /\ next.live = WithBlock(Restrict(live, DOMAIN live \ {ptr}), p, [len |-> n, data |-> d])
      /\ next.table = [table EXCEPT ![i] = Entry(p, n)]
  BY <1>1, <1>3 DEF GC_low_realloc, GC_add_to_alloc_list
<1>5. d \in Contents(n)
  <2>1. live[ptr].len \in Nat /\ live[ptr].data \in Contents(live[ptr].len)
    BY DEF Memory, BlocksOK
  <2> QED
    BY <2>1 DEF Contents, Copied, PointerBytes
<1>6. p \in 1 .. Blocks /\ p \notin DOMAIN live
  BY MallocFresh
<1>7. Entry(p, n) \in [ptr : 1 .. Blocks, len : Nat]
      /\ Entry(p, n).ptr = p /\ Entry(p, n).len = n
  BY <1>6 DEF Entry
<1> DEFINE m == next.live
           u == next.table
<1> HIDE DEF next, d
<1>8. /\ BlocksOK(m) /\ DOMAIN m = (DOMAIN live \ {ptr}) \cup {p}
      /\ m[p] = [len |-> n, data |-> d] /\ m[p].len = n
      /\ \A q \in DOMAIN live \ {ptr} : m[q] = live[q]
  <2> DEFINE k == Restrict(live, DOMAIN live \ {ptr})
             b == [len |-> n, data |-> d]
  <2>1. /\ BlocksOK(k) /\ DOMAIN k = DOMAIN live \ {ptr}
        /\ \A q \in DOMAIN k : k[q] = live[q]
    BY DEF Memory, BlocksOK, Restrict
  <2>2. b.len \in Nat /\ b.data \in Contents(b.len) /\ b = [len |-> b.len, data |-> b.data]
    BY <1>5
  <2>3. m = WithBlock(k, p, b)
    BY <1>4
  <2> HIDE DEF k, b, m
  <2>4. Added(m, k, p, b)
    BY <1>6, <2>1, <2>2, <2>3, WithBlockOK
  <2>5. /\ BlocksOK(m) /\ DOMAIN m = (DOMAIN live \ {ptr}) \cup {p} /\ m[p] = b
        /\ \A q \in DOMAIN live \ {ptr} : m[q] = live[q]
    BY <1>6, <2>1, <2>4 DEF Added
  <2> QED
    BY <2>5 DEF b
<1>9. /\ u \in Seq([ptr : 1 .. Blocks, len : Nat])
      /\ Len(u) = Len(table) /\ DOMAIN u = DOMAIN table
      /\ u[i] = Entry(p, n) /\ \A j \in DOMAIN table : j # i => u[j] = table[j]
  <2> DEFINE R == [ptr : 1 .. Blocks, len : Nat]
             e == Entry(p, n)
  <2>1. table \in Seq(R) /\ e \in R /\ u = [table EXCEPT ![i] = e]
    BY <1>2, <1>4, <1>7
  <2> HIDE DEF R, e, u
  <2>2. /\ u \in Seq(R) /\ Len(u) = Len(table) /\ DOMAIN u = DOMAIN table
        /\ u[i] = e /\ \A j \in DOMAIN table : j # i => u[j] = table[j]
    BY <2>1
  <2> QED
    BY <2>2 DEF R, e
<1> HIDE DEF m, u
<1>10. Exact(m, u)
  <2>1. /\ \A j \in DOMAIN table :
              table[j].ptr \in DOMAIN live /\ table[j].len = live[table[j].ptr].len
        /\ \A q \in DOMAIN live : \E j \in DOMAIN table : table[j].ptr = q
        /\ \A j, h \in DOMAIN table : table[j].ptr = table[h].ptr => j = h
    BY DEF Memory, Exact
  <2>2. u[i].ptr = p /\ u[i].len = n
    BY <1>7, <1>9
  <2>3. \A j \in DOMAIN table : j # i => table[j].ptr \in DOMAIN live \ {ptr}
    BY <1>1, <2>1
  <2>4. \A j \in DOMAIN table : table[j].ptr # p
    BY <1>6, <2>1
  <2>5. ASSUME NEW j \in DOMAIN u
        PROVE  u[j].ptr \in DOMAIN m /\ u[j].len = m[u[j].ptr].len
    <3>1. CASE j = i
      BY <3>1, <1>8, <2>2
    <3>2. CASE j # i
      <4>1. u[j] = table[j]
        BY <3>2, <1>9
      <4>2. table[j].ptr \in DOMAIN live \ {ptr} /\ table[j].len = live[table[j].ptr].len
        BY <3>2, <1>9, <2>1, <2>3
      <4> QED
        BY <4>1, <4>2, <1>8
    <3> QED
      BY <3>1, <3>2
  <2>6. ASSUME NEW q \in DOMAIN m PROVE \E j \in DOMAIN u : u[j].ptr = q
    <3>1. CASE q = p
      BY <3>1, <1>9, <2>2
    <3>2. CASE q # p
      <4>1. PICK j \in DOMAIN table : table[j].ptr = q
        BY <3>2, <1>8, <2>1
      <4>2. j # i
        BY <3>2, <4>1, <1>1, <1>8
      <4> QED
        BY <4>1, <4>2, <1>9
    <3> QED
      BY <3>1, <3>2
  <2>7. ASSUME NEW j \in DOMAIN u, NEW h \in DOMAIN u, u[j].ptr = u[h].ptr
        PROVE  j = h
    <3>1. j \in DOMAIN table /\ h \in DOMAIN table
      BY <1>9
    <3>2. CASE j # i /\ h # i
      <4>1. u[j] = table[j] /\ u[h] = table[h]
        BY <3>1, <3>2, <1>9
      <4> QED
        BY <2>1, <2>7, <3>1, <4>1
    <3>3. CASE j = i \/ h = i
      BY <2>7, <3>1, <3>3, <1>9, <2>2, <2>4
    <3> QED
      BY <3>2, <3>3
  <2> QED
    BY <1>9, <2>5, <2>6, <2>7 DEF Exact
<1> QED
  BY <1>8, <1>9, <1>10 DEF Memory, Reallocated, m, u, next, d

(* After a field's block has moved, the fields still have different ones.  *)
LEMMA MovedField ==
    ASSUME NEW f \in Fields, NEW p, p \notin DOMAIN live,
           field \in [Fields -> 0 .. Blocks],
           \A g \in Fields : field[g] \in DOMAIN live,
           \A g, h \in Fields : field[g] = field[h] => g = h,
           field' = [field EXCEPT ![f] = p]
    PROVE  /\ field'[f] = p
           /\ \A g \in Fields : g # f => /\ field'[g] = field[g]
                                         /\ field[g] \in DOMAIN live \ {field[f]}
           /\ \A g, h \in Fields : field'[g] = field'[h] => g = h
OBVIOUS

(* The array of the remembered set has as many slots as its size says.     *)
LEMMA RootsBlock ==
    ASSUME Core, initialized
    PROVE  /\ field["young.roots"] \in DOMAIN live
           /\ live[field["young.roots"]].len = remset.size * PointerBytes
           /\ DOMAIN Roots = 1 .. remset.size
           /\ remset.nroots \in Nat /\ remset.size \in Nat
<1>1. /\ field["young.roots"] \in DOMAIN live
      /\ live[field["young.roots"]].len = remset.size * PointerBytes
  BY OrderFacts DEF Core, FieldsBacked, Settled, Wanted
<1>2. remset.nroots \in Nat /\ remset.size \in Nat
  BY DEF Core, ControlOK
<1>3. (remset.size * PointerBytes) \div PointerBytes = remset.size
  BY <1>2 DEF PointerBytes
<1>4. Roots \in Contents(remset.size * PointerBytes)
  BY <1>1 DEF Core, Memory, BlocksOK, Roots
<1> QED
  BY <1>1, <1>2, <1>3, <1>4 DEF Contents

-----------------------------------------------------------------------------
(* The initial state, and the actions one by one.                          *)

LEMMA InitialState == Init => IInv
<1> SUFFICES ASSUME Init PROVE IInv
  OBVIOUS
<1> USE DEF Init
<1>1. Memory(live, table)
  BY DEF Memory, BlocksOK, Exact
<1>2. ControlOK
  <2>1. field \in [Fields -> 0 .. Blocks]
    BY InitAssumption DEF NULL
  <2>2. words \in [Regions -> Nat]
    BY InitAssumption DEF Regions
  <2>3. /\ remset \in [nroots : Nat, size : Nat]
        /\ initialized \in BOOLEAN /\ failed \in BOOLEAN
        /\ goal \in [region : Regions, words : Nat]
    BY DEF NoGoal, Regions
  <2> QED
    BY <2>1, <2>2, <2>3 DEF ControlOK
<1>3. FieldsBacked
  BY DEF FieldsBacked, Settled
<1>4. EntriesCounted /\ RootsOK
  BY DEF EntriesCounted, RootsOK
<1> QED
  BY <1>1, <1>2, <1>3, <1>4 DEF IInv, Core, FullOnlyAfterFailure

LEMMA GC_init2Step ==
    ASSUME IInv, GC_init2
    PROVE  IInv'
<1> USE DEF GC_init2, memory
<1>1. Core
  BY DEF IInv, Running
<1>2. Memory(live, table)'
  BY <1>1 DEF Core, Memory, BlocksOK, Exact
<1>3. ControlOK'
  BY <1>1, OrderFacts, InitAssumption DEF Core, ControlOK, Regions
<1>4. Settled' = {}
  BY OrderFacts DEF Settled, Pending, Fields, Range
<1>5. FieldsBacked'
  BY <1>4 DEF FieldsBacked
<1>6. EntriesCounted' /\ RootsOK'
  BY <1>1, OrderFacts DEF Core, EntriesCounted, RootsOK
<1> QED
  BY <1>2, <1>3, <1>5, <1>6 DEF IInv, Core, FullOnlyAfterFailure

LEMMA FinishInitStep ==
    ASSUME IInv, FinishInit
    PROVE  IInv'
<1> USE DEF FinishInit, memory
<1>1. Core
  BY DEF IInv, Running
<1>2. Memory(live, table)'
  BY <1>1 DEF Core
<1>3. ControlOK'
  BY <1>1 DEF Core, ControlOK
<1>4. FieldsBacked'
  <2>1. Settled = Fields
    BY <1>1 DEF Core, ControlOK, Settled, Pending
  <2>2. \A f \in Fields : Wanted(f)' = Wanted(f)
    BY DEF Wanted
  <2>3. Settled' \subseteq Fields
    BY DEF Settled
  <2> QED
    BY <1>1, <2>1, <2>2, <2>3 DEF Core, FieldsBacked
<1>5. EntriesCounted' /\ RootsOK'
  BY <1>1, OrderFacts DEF Core, ControlOK, EntriesCounted, RootsOK
<1> QED
  BY <1>2, <1>3, <1>4, <1>5 DEF IInv, Core, FullOnlyAfterFailure

LEMMA GC_remembered_set_clrStep ==
    ASSUME IInv, GC_remembered_set_clr
    PROVE  IInv'
<1> USE DEF GC_remembered_set_clr, memory
<1>1. Core
  BY DEF IInv, Running
<1>2. Memory(live, table)'
  BY <1>1 DEF Core
<1>3. ControlOK' /\ remset'.size = remset.size /\ remset'.nroots = 0
  BY <1>1 DEF Core, ControlOK
<1>4. FieldsBacked'
  <2>1. Settled' = Settled /\ \A f : Wanted(f)' = Wanted(f)
    BY <1>3 DEF Settled, Wanted, Pending
  <2> QED
    BY <1>1, <2>1 DEF Core, FieldsBacked
<1>5. EntriesCounted' /\ RootsOK'
  BY <1>1, <1>3 DEF Core, ControlOK, EntriesCounted, RootsOK
<1> QED
  BY <1>2, <1>3, <1>4, <1>5 DEF IInv, Core, FullOnlyAfterFailure

LEMMA GC_growStep ==
    ASSUME IInv, NEW r \in Regions, NEW n \in Sizes, GC_grow(r, n)
    PROVE  IInv'
<1> USE DEF GC_grow, memory
<1>1. Core
  BY DEF IInv, Running
<1>2. Memory(live, table)'
  BY <1>1 DEF Core
<1>3. Pending' = Range(GrowOrder[r])
  BY DEF Pending, Range
<1>4. ControlOK'
  BY <1>1, <1>3, OrderFacts, InitAssumption DEF Core, ControlOK
<1>5. FieldsBacked'
  <2>1. Settled' = Fields /\ Settled = Fields
    BY DEF Settled
  <2>2. ASSUME NEW f \in Fields PROVE Wanted(f)' = Wanted(f)
    <3>1. CASE RegionOf(f) = r /\ f \notin Range(GrowOrder[r])
      <4>1. Length(f, n) = Length(f, words[r])
        BY <1>1, <3>1, LengthFacts, InitAssumption DEF Core, ControlOK
      <4> QED
        BY <3>1, <4>1 DEF Wanted
    <3>2. CASE ~(RegionOf(f) = r /\ f \notin Range(GrowOrder[r]))
      BY <1>3, <3>2 DEF Wanted
    <3> QED
      BY <3>1, <3>2
  <2> QED
    BY <1>1, <2>1, <2>2 DEF Core, FieldsBacked
<1>6. EntriesCounted' /\ RootsOK'
  BY <1>1 DEF Core, ControlOK, EntriesCounted, RootsOK, Roots
<1> QED
  BY <1>2, <1>4, <1>5, <1>6 DEF IInv, Core, FullOnlyAfterFailure

LEMMA FinishGrowStep ==
    ASSUME IInv, FinishGrow
    PROVE  IInv'
<1> USE DEF FinishGrow, memory
<1>1. Core
  BY DEF IInv, Running
<1>2. Memory(live, table)'
  BY <1>1 DEF Core
<1>3. ControlOK'
  BY <1>1 DEF Core, ControlOK, NoGoal, Regions
<1>4. FieldsBacked'
  <2>1. Settled' = Fields /\ Settled = Fields
    BY <1>1 DEF Settled, Core, ControlOK
  <2>2. ASSUME NEW f \in Fields PROVE Wanted(f)' = Wanted(f)
    <3>1. RegionOf(f) \in Regions /\ f \notin Pending
      BY RegionFacts DEF Pending
    <3>2. words'[goal.region] = goal.words
          /\ \A s \in Regions : s # goal.region => words'[s] = words[s]
      BY <1>1 DEF Core, ControlOK
    <3> QED
      BY <3>1, <3>2 DEF Wanted
  <2> QED
    BY <1>1, <2>1, <2>2 DEF Core, FieldsBacked
<1>5. EntriesCounted' /\ RootsOK'
  BY <1>1 DEF Core, ControlOK, EntriesCounted, RootsOK, Roots
<1> QED
  BY <1>2, <1>3, <1>4, <1>5 DEF IInv, Core, FullOnlyAfterFailure

LEMMA InitFieldStep ==
    ASSUME IInv, InitField
    PROVE  IInv'
<1>0. PICK f, n : f = Head(todo) /\ n = Length(f, words[RegionOf(f)])
  OBVIOUS
<1>1. Core /\ pc = "init" /\ todo # <<>> /\ ~initialized
  BY DEF IInv, Running, InitField, Core, ControlOK
<1>2. PICK p \in Malloc :
         /\ GC_low_malloc(n, p)
         /\ field' = IF p = NULL /\ f \in Spaces THEN field ELSE [field EXCEPT ![f] = p]
         /\ remset' = IF f = "young.roots" THEN [nroots |-> 0, size |-> RemsetSize]
                      ELSE remset
         /\ pc' = AfterMalloc(f, p)
  BY <1>0 DEF InitField
<1>3. /\ todo' = IF pc' = "init" THEN Tail(todo) ELSE <<>>
      /\ failed' = (failed \/ pc' = "run")
      /\ UNCHANGED <<words, initialized, goal>>
  BY DEF InitField
<1>4. todo \in Seq(Fields) /\ Len(todo) \in Nat /\ f \in Fields
  BY <1>0, <1>1, RestOfTodo DEF Core, ControlOK
<1>5. n \in Nat
  BY <1>0, <1>1, <1>4, LengthFacts, RegionFacts DEF Core, ControlOK
<1>6. p \in 0 .. Blocks
  BY MallocFresh, InitAssumption DEF NULL
<1>7. CASE Full
  <2>1. pc' = "too_many_entries"
    BY <1>2, <1>7 DEF AfterMalloc
  <2>2. failed
    <3>1. Len(InitOrder) \in Nat
      BY OrderFacts
    <3> QED
      BY <1>1, <1>4, <1>7, <3>1, InitAssumption DEF Core, EntriesCounted, Full
  <2> QED
    BY <1>3, <2>1, <2>2 DEF IInv, Running, FullOnlyAfterFailure
<1>8. CASE ~Full /\ p = NULL /\ f = "young.roots"
  BY <1>2, <1>8 DEF AfterMalloc, IInv, Running, FullOnlyAfterFailure
<1>9. CASE ~Full /\ p = NULL /\ f # "young.roots"
  <2>1. pc' = "run" /\ failed' = TRUE /\ todo' = <<>> /\ remset' = remset
    BY <1>2, <1>3, <1>9 DEF AfterMalloc
  <2>2. Memory(live, table)'
    BY <1>1, <1>2, <1>9 DEF Core, GC_low_malloc
  <2>3. ControlOK'
    <3>1. field' \in [Fields -> 0 .. Blocks]
      BY <1>1, <1>2, <1>4, <1>6 DEF Core, ControlOK
    <3> QED
      BY <1>1, <1>3, <2>1, <3>1 DEF Core, ControlOK
  <2>4. FieldsBacked'
    BY <1>1, <1>3, <2>1 DEF FieldsBacked, Settled
  <2>5. EntriesCounted' /\ RootsOK'
    BY <1>1, <1>3, <2>1 DEF EntriesCounted, RootsOK, Core
  <2> QED
    BY <2>1, <2>2, <2>3, <2>4, <2>5 DEF IInv, Core, FullOnlyAfterFailure
<1>10. CASE ~Full /\ p # NULL
  <2>1. pc' = "init" /\ todo' = Tail(todo) /\ failed' = failed
    BY <1>1, <1>2, <1>3, <1>10 DEF AfterMalloc, Core, ControlOK
  <2>2. /\ live' = WithBlock(live, p, Block(n))
        /\ table' = Append(table, Entry(p, n))
        /\ field' = [field EXCEPT ![f] = p]
    BY <1>2, <1>10 DEF GC_low_malloc
  <2>3. p \in 1 .. Blocks /\ p \notin DOMAIN live
    BY <1>10, MallocFresh
  <2>4. Memory(live, table)'
    BY <1>1, <1>5, <2>2, <2>3, AddBlock DEF Core
  <2>5. ControlOK'
    <3>1. field' \in [Fields -> 0 .. Blocks]
      BY <1>1, <1>4, <1>6, <2>2 DEF Core, ControlOK
    <3>2. remset' \in [nroots : Nat, size : Nat]
      BY <1>1, <1>2, InitAssumption DEF Core, ControlOK
    <3>3. todo' \in Seq(Fields)
      BY <1>1, <1>4, <2>1, RestOfTodo
    <3> QED
      BY <1>1, <1>3, <2>1, <3>1, <3>2, <3>3 DEF Core, ControlOK
  <2>6. FieldsBacked'
    <3>1. Added(live', live, p, Block(n))
      BY <1>1, <1>5, <2>2, <2>3, BlockOK, WithBlockOK DEF Core, Memory
    <3>2. live'[p].len = n
      BY <1>5, <3>1, BlockOK DEF Added
    <3>3. Settled' \subseteq Settled \cup {f}
      <4>1. Pending \subseteq Pending' \cup {f}
        BY <1>0, <1>1, <1>4, <2>1, RestOfTodo DEF Pending
      <4> QED
        BY <1>1, <1>3, <2>1, <4>1 DEF Settled
    <3>4. f \notin Settled
      BY <1>0, <1>1, <1>4, RestOfTodo DEF Settled
    <3>5. field'[f] = p /\ Wanted(f)' = n
      <4>1. field'[f] = p
        BY <1>1, <1>4, <2>2 DEF Core, ControlOK
      <4>2. CASE f = "young.roots"
        <5>1. n = RemsetSize * PointerBytes
          BY <1>0, <4>2 DEF Length, Spaces, Maps
        <5>2. Wanted(f)' = RemsetSize * PointerBytes
          BY <4>2, <1>2 DEF Wanted
        <5> QED
          BY <4>1, <5>1, <5>2
      <4>3. CASE f # "young.roots"
        BY <1>0, <1>3, <2>1, <4>1, <4>3 DEF Wanted
      <4> QED
        BY <4>2, <4>3
    <3>6. ASSUME NEW g \in Settled
          PROVE  /\ field'[g] = field[g] /\ field[g] \in DOMAIN live
                 /\ live'[field[g]].len = live[field[g]].len
                 /\ Wanted(g)' = live[field[g]].len
      <4>1. g \in Fields /\ g # f
        BY <1>1, <3>4 DEF Settled
      <4>2. field'[g] = field[g]
        BY <1>1, <1>4, <2>2, <4>1 DEF Core, ControlOK
      <4>3. field[g] \in DOMAIN live /\ live[field[g]].len = Wanted(g)
        BY <1>1 DEF Core, FieldsBacked
      <4>4. live'[field[g]] = live[field[g]]
        BY <4>3, <2>3, <3>1 DEF Added
      <4>5. Wanted(g)' = Wanted(g)
        BY <1>1, <1>2, <1>3, <2>1, <4>1 DEF Wanted
      <4> QED
        BY <4>2, <4>3, <4>4, <4>5
    <3>7. ASSUME NEW g \in Settled'
          PROVE  field'[g] \in DOMAIN live' /\ live'[field'[g]].len = Wanted(g)'
      <4>1. CASE g = f
        BY <4>1, <3>1, <3>2, <3>5 DEF Added
      <4>2. CASE g # f
        <5>1. g \in Settled
          BY <4>2, <3>3
        <5>2. field[g] \in DOMAIN live'
          BY <5>1, <3>1, <3>6 DEF Added
        <5> QED
          BY <5>1, <5>2, <3>6
      <4> QED
        BY <4>1, <4>2
    <3>8. \A g, h \in Settled' : field'[g] = field'[h] => g = h
      BY <1>1, <2>3, <3>3, <3>5, <3>6 DEF Core, FieldsBacked
    <3> QED
      BY <3>7, <3>8 DEF FieldsBacked
  <2>7. EntriesCounted'
    <3>1. Len(table') = Len(table) + 1 /\ Len(table) \in Nat
      BY <1>1, <2>2 DEF Core, Memory, Exact
    <3>2. Len(todo') = Len(todo) - 1 /\ Len(InitOrder) \in Nat
      BY <1>1, <1>4, <2>1, RestOfTodo, OrderFacts
    <3> QED
      BY <1>1, <1>3, <1>4, <2>1, <3>1, <3>2 DEF Core, EntriesCounted
  <2>8. RootsOK'
    BY <1>1, <1>2, <1>3 DEF Core, RootsOK
  <2> QED
    BY <2>1, <2>4, <2>5, <2>6, <2>7, <2>8 DEF IInv, Core, FullOnlyAfterFailure
<1> QED
  BY <1>7, <1>8, <1>9, <1>10

(* A write to a slot of the array keeps everything but the slot.           *)
LEMMA RootWritten ==
    ASSUME Core, pc = "run", initialized, NEW x \in Words, NEW i \in 1 .. remset.size,
           live' = WithRoot(live, field["young.roots"], i, x),
           UNCHANGED <<table, field, words, initialized, pc, todo, goal, failed>>,
           remset' \in [nroots : Nat, size : Nat], remset'.size = remset.size
    PROVE  /\ (Memory(live, table) /\ ControlOK /\ FieldsBacked /\ EntriesCounted)'
           /\ Roots' = [Roots EXCEPT ![i] = x]
<1>1. Memory(live', table) /\ Written(live', live, field["young.roots"], i, x)
  <2>1. /\ field["young.roots"] \in DOMAIN live
        /\ i \in DOMAIN live[field["young.roots"]].data
    BY RootsBlock DEF Roots
  <2> QED
    BY <2>1, WriteRoot DEF Core
<1>2. ControlOK'
  BY DEF Core, ControlOK
<1>3. FieldsBacked'
  <2>1. Settled' = Settled /\ \A f : Wanted(f)' = Wanted(f)
    BY DEF Settled, Wanted
  <2> QED
    BY <1>1, <2>1 DEF Core, FieldsBacked, Written
<1>4. EntriesCounted'
  BY DEF Core, EntriesCounted
<1>5. Roots' = [Roots EXCEPT ![i] = x]
  BY <1>1 DEF Written, Roots
<1> QED
  BY <1>1, <1>2, <1>3, <1>4, <1>5

(* x is there already: no slot that is in use is NULL.                     *)
LEMMA FoundSlot ==
    ASSUME Core, initialized, NEW x \in Words, Hits(x) # {}
    PROVE  Min(Hits(x)) \in 1 .. remset.nroots /\ Roots[Min(Hits(x))] = x
<1>1. Hits(x) \in SUBSET Nat
  BY RootsBlock DEF Hits
<1>2. Min(Hits(x)) \in Hits(x)
  BY <1>1, MinOfNats
<1> QED
  BY <1>2, InitAssumption DEF Hits, Core, RootsOK, NULL

(* What a step does to the slots that are in use.                          *)
SameRoots ==
    /\ remset'.nroots = remset.nroots
    /\ \A i \in 1 .. remset.nroots : Roots'[i] = Roots[i]

Appended(x) ==
    /\ remset'.nroots = remset.nroots + 1
    /\ \A i \in 1 .. remset.nroots : Roots'[i] = Roots[i]
    /\ Roots'[remset.nroots + 1] = x

LEMMA AddFoundStep ==
    ASSUME IInv, NEW x \in Words, AddFound(x)
    PROVE  IInv' /\ SameRoots
<1>1. Core /\ pc = "run" /\ initialized /\ Hits(x) # {}
  BY DEF IInv, Running, AddFound
<1>2. PICK i : i = Min(Hits(x))
  OBVIOUS
<1>3. i \in 1 .. remset.nroots /\ remset.nroots <= remset.size
  BY <1>1, <1>2, FoundSlot DEF Core, RootsOK
<1>4. i \in 1 .. remset.size
  BY <1>1, <1>3, RootsBlock
<1>5. /\ (Memory(live, table) /\ ControlOK /\ FieldsBacked /\ EntriesCounted)'
      /\ Roots' = [Roots EXCEPT ![i] = x]
  BY <1>1, <1>2, <1>4, RootWritten DEF AddFound, Core, ControlOK
<1>6. RootsOK'
  BY <1>1, <1>5, RootsBlock DEF Core, RootsOK, AddFound
<1>7. SameRoots
  <2>1. Roots[i] = x /\ remset' = remset
    BY <1>1, <1>2, FoundSlot DEF AddFound
  <2> QED
    BY <1>1, <1>5, <2>1, RootsBlock DEF SameRoots, Core, RootsOK
<1> QED
  BY <1>1, <1>5, <1>6, <1>7 DEF IInv, Core, FullOnlyAfterFailure, AddFound

LEMMA AddAppendStep ==
    ASSUME IInv, NEW x \in Words, AddAppend(x)
    PROVE  IInv' /\ Appended(x)
<1>1. Core /\ pc = "run" /\ initialized
  BY DEF IInv, Running, AddAppend
<1>2. PICK i : i = remset.nroots + 1
  OBVIOUS
<1>3. /\ remset' \in [nroots : Nat, size : Nat]
      /\ remset'.nroots = i /\ remset'.size = remset.size
  BY <1>1, <1>2 DEF AddAppend, Core, ControlOK
<1>4. i \in 1 .. remset.size
  BY <1>1, <1>2, RootsBlock DEF AddAppend, HasSlot
<1>5. /\ (Memory(live, table) /\ ControlOK /\ FieldsBacked /\ EntriesCounted)'
      /\ Roots' = [Roots EXCEPT ![i] = x]
  BY <1>1, <1>3, <1>4, RootWritten DEF AddAppend
<1>6. RootsOK'
  BY <1>1, <1>2, <1>3, <1>4, <1>5, RootsBlock DEF Core, RootsOK, AddAppend
<1>7. Appended(x)
  BY <1>1, <1>2, <1>3, <1>4, <1>5, RootsBlock DEF Appended, Core, RootsOK
<1> QED
  BY <1>1, <1>5, <1>6, <1>7 DEF IInv, Core, FullOnlyAfterFailure, AddAppend

(* A block of GC_state has an entry, and only after a failure is there no  *)
(* room for another.                                                       *)
LEMMA ReallocOutcome ==
    ASSUME Core, pc # "init", initialized, NEW ptr \in DOMAIN live, NEW p, NEW otherwise
    PROVE  /\ AfterRealloc(ptr, p, otherwise) =
                 IF Full THEN "too_many_entries"
                 ELSE IF p = NULL THEN "no_memory" ELSE otherwise
           /\ Full => failed
<1>1. Entries(ptr) # {}
  BY EntryFound DEF Core
<1>2. Len(InitOrder) \in Nat
  BY OrderFacts
<1> QED
  BY <1>1, <1>2, InitAssumption DEF AfterRealloc, Core, EntriesCounted, Full

(* Once GC_state is initialized all its pointers have blocks.              *)
LEMMA StateFields ==
    ASSUME Core, initialized
    PROVE  /\ field \in [Fields -> 0 .. Blocks]
           /\ \A f \in Fields : field[f] \in DOMAIN live /\ live[field[f]].len = Wanted(f)
           /\ \A f, g \in Fields : field[f] = field[g] => f = g
BY DEF Core, ControlOK, FieldsBacked, Settled

LEMMA AddGrowStep ==
    ASSUME IInv, NEW x \in Words, AddGrow(x)
    PROVE  IInv' /\ (UNCHANGED <<live, field, remset>> \/ (Running' /\ Appended(x)))
<1>1. Core /\ pc = "run" /\ initialized /\ ~HasSlot
  BY DEF IInv, Running, AddGrow
<1>2. PICK ptr, size : /\ ptr = field["young.roots"]
                       /\ size = IF remset.size = 0 THEN 1 ELSE 2 * remset.size
  OBVIOUS
<1>3. PICK p \in Malloc :
         /\ pc' = AfterRealloc(ptr, p, "run")
         /\ \/ /\ pc' = "run"
               /\ remset' = [nroots |-> remset.nroots + 1, size |-> size]
               /\ field' = [field EXCEPT !["young.roots"] = p]
               /\ live' = WithRoot(GC_low_realloc(ptr, size * PointerBytes, p).live, p,
                                   remset'.nroots, x)
               /\ table' = GC_low_realloc(ptr, size * PointerBytes, p).table
            \/ pc' # "run" /\ UNCHANGED <<memory, field, remset>>
  BY <1>2 DEF AddGrow
<1>4. UNCHANGED <<words, initialized, todo, goal, failed>>
  BY DEF AddGrow
<1>5. ptr \in DOMAIN live /\ live[ptr].len = remset.size * PointerBytes
  BY <1>1, <1>2, RootsBlock
<1>6. /\ pc' = IF Full THEN "too_many_entries" ELSE IF p = NULL THEN "no_memory" ELSE "run"
      /\ Full => failed
  BY <1>1, <1>3, <1>5, ReallocOutcome
<1>7. CASE Full \/ p = NULL
  <2>1. ~Running' /\ (pc' = "too_many_entries" => failed)
    BY <1>6, <1>7 DEF Running
  <2>2. UNCHANGED <<live, field, remset>>
    BY <1>3, <2>1 DEF memory, Running
  <2>3. IInv'
    BY <1>4, <2>1 DEF IInv, FullOnlyAfterFailure
  <2> QED
    BY <2>2, <2>3
<1>8. CASE ~Full /\ p # NULL
  <2>1. PICK l, k : /\ l = GC_low_realloc(ptr, size * PointerBytes, p).live
                    /\ k = remset.nroots + 1
    OBVIOUS
  <2>2. /\ pc' = "run" /\ remset' = [nroots |-> k, size |-> size]
        /\ field' = [field EXCEPT !["young.roots"] = p]
        /\ live' = WithRoot(l, p, k, x)
    BY <1>3, <1>6, <1>8, <2>1
  <2>3. /\ remset.nroots \in Nat /\ remset.size \in Nat /\ remset.nroots = remset.size
        /\ size \in Nat /\ k \in 1 .. size
        /\ (size * PointerBytes) \div PointerBytes = size
        /\ (remset.size * PointerBytes) \div PointerBytes = remset.size
    <3>1. remset.nroots \in Nat /\ remset.size \in Nat
      BY <1>1, RootsBlock
    <3>2. remset.nroots = remset.size
      BY <1>1, <3>1 DEF Core, RootsOK, HasSlot
    <3>3. size \in Nat /\ k \in 1 .. size
      BY <1>2, <2>1, <3>1, <3>2
    <3>4. \A b \in Nat : (b * PointerBytes) \div PointerBytes = b
      BY DEF PointerBytes
    <3> QED
      BY <3>1, <3>2, <3>3, <3>4
  <2>4. Reallocated(l, table', ptr, p, size * PointerBytes)
    <3>1. size * PointerBytes \in Nat
      BY <2>3 DEF PointerBytes
    <3> QED
      BY <1>1, <1>3, <1>5, <1>6, <1>8, <2>1, <3>1, Realloc DEF Core
  <2>5. p \in 1 .. Blocks /\ p \notin DOMAIN live
    BY <1>8, MallocFresh
  <2>6. /\ l[p].len = size * PointerBytes
        /\ l[p].data = Copied(live[ptr], live[ptr].len, size * PointerBytes)
    BY <2>4 DEF Reallocated
  <2>7. /\ DOMAIN l[p].data = 1 .. size
        /\ \A i \in 1 .. remset.nroots : l[p].data[i] = Roots[i]
    BY <1>2, <1>5, <2>3, <2>6 DEF Copied, Roots
  <2>8. Memory(live', table') /\ Written(live', l, p, k, x)
    BY <2>2, <2>3, <2>4, <2>7, WriteRoot DEF Reallocated
  <2>9. ControlOK'
    <3>1. remset' \in [nroots : Nat, size : Nat]
      BY <2>2, <2>3
    <3>2. field' \in [Fields -> 0 .. Blocks]
      <4>1. p \in 0 .. Blocks /\ field \in [Fields -> 0 .. Blocks]
        BY <1>1, <2>5, StateFields, InitAssumption
      <4> QED
        BY <2>2, <4>1
    <3> QED
      BY <1>1, <1>4, <2>2, <3>1, <3>2 DEF Core, ControlOK
  <2>10. /\ field'["young.roots"] = p
         /\ \A g \in Fields : g # "young.roots" =>
               field'[g] = field[g] /\ field[g] \in DOMAIN live \ {ptr}
         /\ \A g, h \in Fields : field'[g] = field'[h] => g = h
    BY <1>1, <1>2, <2>2, <2>5, StateFields, MovedField, OrderFacts
  <2>11. FieldsBacked'
    <3>1. ASSUME NEW g \in Fields
          PROVE  field'[g] \in DOMAIN live' /\ live'[field'[g]].len = Wanted(g)'
      <4>1. CASE g = "young.roots"
        BY <4>1, <2>2, <2>4, <2>6, <2>8, <2>10 DEF Wanted, Written, Reallocated
      <4>2. CASE g # "young.roots"
        <5>1. Wanted(g)' = Wanted(g)
          BY <1>1, <1>4, <2>2, <4>2 DEF Wanted
        <5>2. live[field[g]].len = Wanted(g)
          BY <1>1, StateFields
        <5>3. field[g] \in DOMAIN l /\ l[field[g]] = live[field[g]]
          BY <4>2, <2>4, <2>10 DEF Reallocated
        <5> QED
          BY <4>2, <5>1, <5>2, <5>3, <2>8, <2>10 DEF Written
      <4> QED
        BY <4>1, <4>2
    <3>2. Settled' = Fields
      BY <1>1, <1>4 DEF Settled
    <3> QED
      BY <2>10, <3>1, <3>2 DEF FieldsBacked
  <2>12. EntriesCounted'
    BY <1>1, <1>4, <2>2, <2>4 DEF Core, EntriesCounted, Reallocated
  <2>13. RootsOK' /\ Appended(x)
    <3>1. Roots' = [l[p].data EXCEPT ![k] = x]
      BY <2>8, <2>10 DEF Roots, Written
    <3>2. Appended(x)
      BY <2>1, <2>2, <2>3, <2>7, <3>1 DEF Appended
    <3> QED
      BY <1>1, <1>4, <2>1, <2>2, <2>3, <3>2 DEF Core, RootsOK, Appended
  <2> QED
    BY <2>2, <2>8, <2>9, <2>11, <2>12, <2>13
       DEF IInv, Core, FullOnlyAfterFailure, Running
<1> QED
  BY <1>7, <1>8

LEMMA GrowFieldStep ==
    ASSUME IInv, GrowField
    PROVE  IInv' /\ (UNCHANGED <<live, field, remset>> \/ (Running' /\ SameRoots))
<1>1. Core /\ pc = "grow" /\ todo # <<>> /\ initialized
  BY DEF IInv, Running, GrowField, Core, ControlOK
<1>2. PICK f, ptr, n : f = Head(todo) /\ ptr = field[f] /\ n = Length(f, goal.words)
  OBVIOUS
<1>3. PICK p \in Malloc :
         /\ pc' = AfterRealloc(ptr, p, "grow")
         /\ \/ /\ pc' = "grow"
               /\ live' = GC_low_realloc(ptr, n, p).live
               /\ table' = GC_low_realloc(ptr, n, p).table
               /\ field' = [field EXCEPT ![f] = p]
               /\ todo' = Tail(todo)
            \/ pc' # "grow" /\ UNCHANGED <<memory, field, todo>>
  BY <1>2 DEF GrowField
<1>4. UNCHANGED <<words, remset, initialized, goal, failed>>
  BY DEF GrowField
<1>5. /\ todo \in Seq(Fields) /\ f \in Fields
      /\ RegionOf(f) = goal.region /\ f # "young.roots"
  <2>1. f \in Fields /\ f \in Pending
    BY <1>1, <1>2, RestOfTodo DEF Core, ControlOK
  <2>2. f \in Range(GrowOrder[goal.region]) /\ goal.region \in Regions
    BY <1>1, <2>1 DEF Core, ControlOK
  <2> QED
    BY <1>1, <2>1, <2>2, RegionFacts DEF Core, ControlOK
<1>6. ptr \in DOMAIN live
  BY <1>1, <1>2, <1>5, StateFields
<1>7. /\ pc' = IF Full THEN "too_many_entries" ELSE IF p = NULL THEN "no_memory" ELSE "grow"
      /\ Full => failed
  BY <1>1, <1>3, <1>6, ReallocOutcome
<1>8. CASE Full \/ p = NULL
  <2>1. ~Running' /\ (pc' = "too_many_entries" => failed)
    BY <1>7, <1>8 DEF Running
  <2>2. UNCHANGED <<live, field, remset>>
    BY <1>3, <1>4, <2>1 DEF memory, Running
  <2>3. IInv'
    BY <1>4, <2>1 DEF IInv, FullOnlyAfterFailure
  <2> QED
    BY <2>2, <2>3
<1>9. CASE ~Full /\ p # NULL
  <2>1. pc' = "grow" /\ field' = [field EXCEPT ![f] = p] /\ todo' = Tail(todo)
    BY <1>3, <1>7, <1>9
  <2>2. n \in Nat
    BY <1>1, <1>2, <1>5, LengthFacts DEF Core, ControlOK
  <2>3. Reallocated(live', table', ptr, p, n)
    BY <1>1, <1>3, <1>6, <1>7, <1>9, <2>2, Realloc DEF Core
  <2>4. p \in 1 .. Blocks /\ p \notin DOMAIN live
    BY <1>9, MallocFresh
  <2>5. /\ Pending' \subseteq Pending /\ Pending \subseteq Pending' \cup {f}
        /\ f \notin Pending'
        /\ \A i, j \in DOMAIN todo' : todo'[i] = todo'[j] => i = j
    <3>1. /\ todo' \in Seq(Fields)
          /\ Pending' \subseteq Pending /\ Pending \subseteq Pending' \cup {f}
          /\ \A i \in DOMAIN todo' : todo'[i] = todo[i + 1] /\ i + 1 \in DOMAIN todo
      BY <1>1, <1>2, <1>5, <2>1, RestOfTodo DEF Pending
    <3>2. \A i, j \in DOMAIN todo : todo[i] = todo[j] => i = j
      BY <1>1 DEF Core, ControlOK
    <3>3. todo[1] = f /\ 1 \in DOMAIN todo
      BY <1>1, <1>2, <1>5
    <3>4. \A i \in DOMAIN todo' : i \in Nat \ {0}
      BY <3>1
    <3>5. \A i \in DOMAIN todo' : todo'[i] # f
      BY <3>1, <3>2, <3>3, <3>4
    <3>6. \A i, j \in DOMAIN todo' : todo'[i] = todo'[j] => i = j
      BY <3>1, <3>2, <3>4
    <3> QED
      BY <3>1, <3>5, <3>6 DEF Pending
  <2>6. ControlOK'
    <3>1. field' \in [Fields -> 0 .. Blocks]
      <4>1. p \in 0 .. Blocks /\ field \in [Fields -> 0 .. Blocks]
        BY <1>1, <2>4, StateFields, InitAssumption
      <4> QED
        BY <2>1, <4>1
    <3>2. todo' \in Seq(Fields)
      BY <1>1, <1>5, <2>1, RestOfTodo
    <3> QED
      BY <1>1, <1>4, <2>1, <2>5, <3>1, <3>2 DEF Core, ControlOK
  <2>7. /\ field'[f] = p
        /\ \A g \in Fields : g # f => field'[g] = field[g] /\ field[g] \in DOMAIN live \ {ptr}
        /\ \A g, h \in Fields : field'[g] = field'[h] => g = h
    BY <1>1, <1>2, <1>5, <2>1, <2>4, StateFields, MovedField
  <2>8. FieldsBacked'
    <3>1. ASSUME NEW g \in Fields
          PROVE  field'[g] \in DOMAIN live' /\ live'[field'[g]].len = Wanted(g)'
      <4>1. CASE g = f
        <5>1. Wanted(g)' = n
          BY <4>1, <1>2, <1>4, <1>5, <2>1, <2>5 DEF Wanted
        <5>2. p \in DOMAIN live' /\ live'[p].len = n
          BY <2>3 DEF Reallocated
        <5> QED
          BY <4>1, <5>1, <5>2, <2>7
      <4>2. CASE g # f
        <5>1. Wanted(g)' = Wanted(g)
          BY <4>2, <1>1, <1>4, <2>1, <2>5 DEF Wanted
        <5>2. live[field[g]].len = Wanted(g)
          BY <1>1, StateFields
        <5>3. field[g] \in DOMAIN live' /\ live'[field[g]] = live[field[g]]
          BY <4>2, <2>3, <2>7 DEF Reallocated
        <5> QED
          BY <4>2, <5>1, <5>2, <5>3, <2>7
      <4> QED
        BY <4>1, <4>2
    <3>2. Settled' = Fields
      BY <1>1, <1>4 DEF Settled
    <3> QED
      BY <2>7, <3>1, <3>2 DEF FieldsBacked
  <2>9. EntriesCounted'
    BY <1>1, <1>4, <2>1, <2>3 DEF Core, EntriesCounted, Reallocated
  <2>10. RootsOK' /\ SameRoots
    <3>1. Roots' = Roots
      BY <1>5, <2>3, <2>7, OrderFacts DEF Roots, Reallocated
    <3> QED
      BY <1>1, <1>4, <3>1 DEF Core, RootsOK, SameRoots
  <2> QED
    BY <2>1, <2>3, <2>6, <2>8, <2>9, <2>10
       DEF IInv, Core, FullOnlyAfterFailure, Reallocated, Running
<1> QED
  BY <1>8, <1>9

-----------------------------------------------------------------------------
(* The theorems.                                                           *)

(* Each action keeps the invariant.                                        *)
LEMMA Inductive == IInv /\ [Next]_vars => IInv'
<1> SUFFICES ASSUME IInv, [Next]_vars PROVE IInv'
  OBVIOUS
<1>1. CASE GC_init2
  BY <1>1, GC_init2Step
<1>2. CASE InitField
  BY <1>2, InitFieldStep
<1>3. CASE FinishInit
  BY <1>3, FinishInitStep
<1>4. CASE NotInitialized
  BY <1>4 DEF NotInitialized, IInv, Running, FullOnlyAfterFailure
<1>5. ASSUME NEW x \in Words, AddFound(x) \/ AddAppend(x) \/ AddGrow(x) PROVE IInv'
  BY <1>5, AddFoundStep, AddAppendStep, AddGrowStep
<1>6. CASE GC_remembered_set_clr
  BY <1>6, GC_remembered_set_clrStep
<1>7. ASSUME NEW r \in {"old", "young"}, NEW n \in Sizes, GC_grow(r, n) PROVE IInv'
  BY <1>7, GC_growStep DEF Regions
<1>8. CASE GrowField
  BY <1>8, GrowFieldStep
<1>9. CASE FinishGrow
  BY <1>9, FinishGrowStep
<1>10. CASE UNCHANGED vars
  <2> USE <1>10 DEF vars, memory
  <2>1. Memory(live, table)' = Memory(live, table)
    OBVIOUS
  <2>2. ControlOK' = ControlOK
    BY DEF ControlOK, Pending
  <2>3. FieldsBacked' = FieldsBacked
    BY DEF FieldsBacked, Settled, Wanted, Pending
  <2>4. EntriesCounted' = EntriesCounted /\ RootsOK' = RootsOK
    BY DEF EntriesCounted, RootsOK, Roots
  <2> QED
    BY <2>1, <2>2, <2>3, <2>4 DEF IInv, Running, FullOnlyAfterFailure, Core
<1> QED
  BY <1>1, <1>2, <1>3, <1>4, <1>5, <1>6, <1>7, <1>8, <1>9, <1>10 DEF Next

(* The invariant holds in every reachable state.                           *)
LEMMA Invariance == Spec => []IInv
BY InitialState, Inductive, PTL DEF Spec

(* GC_low_realloc can trust the table: as long as the program runs it has  *)
(* each of malloc's blocks once, with its length, and no other, whatever   *)
(* calls of GC_init2 failed and however often blocks moved to addresses    *)
(* that others had before (gc_low.c:25-76, 106-135).                       *)
THEOREM TableCorrect == Spec => []TableExact
<1>1. IInv => TableExact
  <2> SUFFICES ASSUME IInv, Running PROVE TableExact
    BY DEF TableExact, Running
  <2>1. BlocksOK(live) /\ Exact(live, table)
    BY DEF IInv, Core, Memory
  <2>2. \A i, j \in DOMAIN table : table[i].ptr = table[j].ptr => i = j
    BY <2>1 DEF Exact
  <2>3. ASSUME NEW i \in DOMAIN table
        PROVE  table[i].ptr \in DOMAIN live
               /\ table[i] = Entry(table[i].ptr, live[table[i].ptr].len)
    <3>1. table[i] \in [ptr : 1 .. Blocks, len : Nat]
      <4> DEFINE R == [ptr : 1 .. Blocks, len : Nat]
      <4>1. table \in Seq(R)
        BY <2>1 DEF Exact
      <4> HIDE DEF R
      <4>2. table[i] \in R
        BY <4>1
      <4> QED
        BY <4>2 DEF R
    <3>2. table[i].ptr \in DOMAIN live /\ table[i].len = live[table[i].ptr].len
      BY <2>1 DEF Exact
    <3> QED
      BY <3>1, <3>2 DEF Entry
  <2>4. ASSUME NEW p \in DOMAIN live
        PROVE  \E i \in DOMAIN table : table[i] = Entry(p, live[p].len)
    BY <2>1, <2>3 DEF Exact
  <2> QED
    BY <2>2, <2>3, <2>4 DEF TableExact
<1> QED
  BY <1>1, Invariance, PTL

(* Once GC_init2 has succeeded, each pointer of GC_state has a block of    *)
(* its own, as long as the sizes in GC_state say, before and after every   *)
(* growth of a region or of the array (gc_init.c:22-294, gc_remset.c).     *)
THEOREM StateCorrect == Spec => []StateBacked
<1>1. IInv => StateBacked
  BY StateFields DEF IInv, Running, StateBacked, Required, Wanted
<1> QED
  BY <1>1, Invariance, PTL

(* The limit of GC_add_to_alloc_list is met only after a GC_init2 that     *)
(* failed: reallocation never uses up entries (gc_low.c:21-40).            *)
THEOREM NoSpuriousLimit == Spec => []FullOnlyAfterFailure
<1>1. IInv => FullOnlyAfterFailure
  BY DEF IInv
<1> QED
  BY <1>1, Invariance, PTL

-----------------------------------------------------------------------------
(* The refinement.                                                         *)

(* The list is the slots in use, in order.                                 *)
LEMMA RememberedSlots ==
    ASSUME Core, initialized
    PROVE  /\ Remembered \in Seq(Words) /\ Len(Remembered) = remset.nroots
           /\ \A i \in 1 .. remset.nroots : Remembered[i] = Roots[i]
<1>1. /\ DOMAIN Roots = 1 .. remset.size /\ remset.nroots \in Nat /\ remset.size \in Nat
      /\ remset.nroots <= remset.size
      /\ \A i \in 1 .. remset.nroots : Roots[i] \in Words
  BY RootsBlock DEF Core, RootsOK
<1>2. CASE remset.nroots = 0
  BY <1>2 DEF Remembered
<1>3. CASE remset.nroots # 0
  <2>1. Remembered = SubSeq(Roots, 1, remset.nroots)
    BY <1>3 DEF Remembered
  <2>2. SubSeq(Roots, 1, remset.nroots) = [i \in 1 .. remset.nroots |-> Roots[i]]
    BY <1>1, <1>3
  <2> QED
    BY <1>1, <2>1, <2>2
<1> QED
  BY <1>2, <1>3

(* If no slot in use changes, neither does the list.                       *)
LEMMA SameRemembered ==
    ASSUME Core, Core', initialized, initialized', SameRoots
    PROVE  Remembered' = Remembered
<1>1. /\ Remembered \in Seq(Words) /\ Len(Remembered) = remset.nroots
      /\ \A i \in 1 .. remset.nroots : Remembered[i] = Roots[i]
  BY RememberedSlots
<1>2. (/\ Remembered \in Seq(Words) /\ Len(Remembered) = remset.nroots
       /\ \A i \in 1 .. remset.nroots : Remembered[i] = Roots[i])'
  BY RememberedSlots, PTL
<1> QED
  BY <1>1, <1>2 DEF SameRoots

(* A new last slot is an Add of the list.                                  *)
LEMMA AppendedRemembered ==
    ASSUME Core, Core', initialized, initialized', NEW x \in Words, Appended(x), Hits(x) = {}
    PROVE  Set!Add(x)
<1>1. /\ Remembered \in Seq(Words) /\ Len(Remembered) = remset.nroots
      /\ \A i \in 1 .. remset.nroots : Remembered[i] = Roots[i]
  BY RememberedSlots
<1>2. (/\ Remembered \in Seq(Words) /\ Len(Remembered) = remset.nroots
       /\ \A i \in 1 .. remset.nroots : Remembered[i] = Roots[i])'
  BY RememberedSlots, PTL
<1>3. Remembered' = Append(Remembered, x)
  <2>1. /\ Append(Remembered, x) \in Seq(Words)
        /\ Len(Append(Remembered, x)) = remset'.nroots /\ remset'.nroots = remset.nroots + 1
        /\ \A i \in 1 .. remset.nroots : Append(Remembered, x)[i] = Remembered[i]
        /\ Append(Remembered, x)[remset.nroots + 1] = x
    BY <1>1 DEF Appended
  <2>2. remset.nroots \in Nat
    BY <1>1
  <2>3. ASSUME NEW i \in 1 .. remset'.nroots
        PROVE  Remembered'[i] = Append(Remembered, x)[i]
    <3>1. CASE i = remset.nroots + 1
      BY <3>1, <1>2, <2>1 DEF Appended
    <3>2. CASE i # remset.nroots + 1
      <4>1. i \in 1 .. remset.nroots
        BY <3>2, <2>1, <2>2
      <4> QED
        BY <4>1, <1>1, <1>2, <2>1 DEF Appended
    <3> QED
      BY <3>1, <3>2
  <2> QED
    BY <1>2, <2>1, <2>3
<1>4. ~\E i \in 1 .. Len(Remembered) : Remembered[i] = x
  BY <1>1 DEF Hits
<1> QED
  BY <1>3, <1>4 DEF Set!Add, Set!Contains

(* Each step is a step of RememberedSet, or leaves the list as it is.      *)
LEMMA RefinementStep ==
    IInv /\ IInv' /\ [Next]_vars
      => [Set!Clear \/ \E x \in Words : Set!Add(x)]_Remembered
<1> SUFFICES ASSUME IInv, IInv', [Next]_vars
             PROVE  \/ Set!Clear
                    \/ \E x \in Words : Set!Add(x)
                    \/ Remembered' = Remembered
  OBVIOUS
<1>1. CASE UNCHANGED <<live, field, remset>>
  BY <1>1 DEF Remembered, Roots
<1>2. CASE InitField
  <2>1. remset.nroots = 0
    BY <1>2 DEF InitField, IInv, Running, Core, ControlOK, RootsOK
  <2>2. remset'.nroots = 0
    BY <1>2, <2>1 DEF InitField
  <2> QED
    BY <2>1, <2>2 DEF Remembered
<1>3. ASSUME NEW x \in Words, AddFound(x) PROVE Remembered' = Remembered
  <2>1. SameRoots
    BY <1>3, AddFoundStep
  <2>2. Core /\ Core' /\ initialized /\ initialized'
    BY <1>3 DEF AddFound, IInv, Running
  <2> QED
    BY <2>1, <2>2, SameRemembered
<1>4. ASSUME NEW x \in Words, AddAppend(x) PROVE Set!Add(x)
  <2>1. Appended(x) /\ Hits(x) = {}
    BY <1>4, AddAppendStep DEF AddAppend
  <2>2. Core /\ Core' /\ initialized /\ initialized'
    BY <1>4 DEF AddAppend, IInv, Running
  <2> QED
    BY <2>1, <2>2, AppendedRemembered
<1>5. ASSUME NEW x \in Words, AddGrow(x), ~UNCHANGED <<live, field, remset>>
      PROVE  Set!Add(x)
  <2>1. Running' /\ Appended(x) /\ Hits(x) = {}
    BY <1>5, AddGrowStep DEF AddGrow
  <2>2. Core /\ Core' /\ initialized /\ initialized'
    BY <1>5, <2>1 DEF AddGrow, IInv, Running
  <2> QED
    BY <2>1, <2>2, AppendedRemembered
<1>6. CASE GC_remembered_set_clr
  <2>1. remset'.nroots = 0
    BY <1>6 DEF GC_remembered_set_clr, IInv, Running, Core, ControlOK
  <2> QED
    BY <2>1 DEF Remembered, Set!Clear
<1>7. CASE GrowField /\ ~UNCHANGED <<live, field, remset>>
  <2>1. Running' /\ SameRoots
    BY <1>7, GrowFieldStep
  <2>2. Core /\ Core' /\ initialized /\ initialized'
    BY <1>7, <2>1 DEF GrowField, IInv, Running, Core, ControlOK
  <2> QED
    BY <2>1, <2>2, SameRemembered
<1>8. CASE GC_init2 \/ FinishInit \/ NotInitialized \/ FinishGrow \/ UNCHANGED vars
  BY <1>1, <1>8 DEF GC_init2, FinishInit, NotInitialized, FinishGrow, vars, memory
<1>9. ASSUME NEW r \in {"old", "young"}, NEW n \in Sizes, GC_grow(r, n)
      PROVE  Remembered' = Remembered
  BY <1>1, <1>9 DEF GC_grow, memory, Remembered, Roots
<1> QED
  BY <1>1, <1>2, <1>3, <1>4, <1>5, <1>6, <1>7, <1>8, <1>9 DEF Next

(* The array with its size, its nroots and its reallocations behaves as    *)
(* the list of RememberedSet: GC_remembered_set_add adds an address once   *)
(* and loses none when the array doubles and moves, and nothing but        *)
(* GC_remembered_set_clr removes one (gc_remset.c:9-60).                   *)
THEOREM RememberedSetImplemented == Spec => ImplementsRememberedSet
<1>1. Init => Remembered = <<>>
  BY DEF Init, Remembered
<1> QED
  BY <1>1, Invariance, RefinementStep, PTL DEF Spec, ImplementsRememberedSet, Set!Spec
=============================================================================
