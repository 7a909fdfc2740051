--------------------------- MODULE GCDebugProofs ---------------------------
(***************************************************************************)
(* The theorems about the table of allocated objects, for tables, spaces   *)
(* and objects of any size: every object has its entry, a sweep overwrites *)
(* no object that was kept, and as long as nothing was reset the table is  *)
(* the shadow of the heap.                                                 *)
(*                                                                         *)
(* The proofs see the table through its valid slots and their entries.     *)
(* What the operations on the table do to those comes first.               *)
(***************************************************************************)
EXTENDS GCDebug, FiniteSetTheorems, SequenceTheorems, WellFoundedInduction, TLAPS

-----------------------------------------------------------------------------
(* The inductive invariant.                                                *)

Pcs == {"run", "promote", "promoted", "major", "rebase", "fatal"}

(* Two spaces are apart, with the word behind each of them.                *)
Apart(a, b) == End(a) < b.base \/ End(b) < a.base

Spaces == [base : Nat \ {0}, len : Nat]

SpacesOK ==
    /\ young \in Spaces /\ End(young) <= Memory
    /\ tospace \in Spaces /\ End(tospace) <= Memory
    /\ fromspace \in Spaces /\ End(fromspace) <= Memory
    /\ fromspace.len = tospace.len
    /\ yused \in 0 .. young.len /\ oused \in 0 .. tospace.len
    /\ Apart(young, tospace) /\ Apart(young, fromspace) /\ Apart(tospace, fromspace)

(* Where the space was that is being rebased.                              *)
OldSpace == [base |-> rebase.old, len |-> rebase.size]

ControlOK ==
    /\ pc \in Pcs
    /\ pc \in {"promoted", "major"} => yused = 0
    /\ pc = "rebase" =>
          /\ rebase \in [old : Nat \ {0}, size : Nat, new : Nat \ {0},
                         j : Nat, i : Nat \ {0}, back : {"run", "promoted"}]
          /\ Apart(OldSpace, young) /\ Apart(OldSpace, tospace)
          /\ Apart(OldSpace, fromspace)
          /\ rebase.back = "run" => rebase.new = young.base /\ rebase.size <= young.len
          /\ rebase.back = "promoted" =>
                rebase.new = tospace.base /\ rebase.size <= tospace.len /\ yused = 0

(* The len words at base lie in the first n words of a space.              *)
Within(base, len, space, n) == space.base <= base /\ base + len <= space.base + n

Inside(base, len, space) == Within(base, len, space, space.len)

Disjoint(o, p) == o.base + o.len <= p.base \/ p.base + p.len <= o.base

(* The objects lie in what is in use of the spaces, apart from each other. *)
ObjectsOK ==
    /\ objs \subseteq [base : Nat, len : Nat \ {0}, site : Sites]
    /\ \A o \in objs :
          \/ Within(o.base, o.len, young, yused)
          \/ Within(o.base, o.len, tospace, oused)
          \/ pc = "major" /\ Inside(o.base, o.len, fromspace)
    /\ \A o, p \in objs : o = p \/ Disjoint(o, p)

(* The words of the objects in a space.                                    *)
Occupied(space) ==
    UNION {Words(o.base, o.len) : o \in {p \in objs : InSpace(p, space)}}

(* What may still be copied fits into the tospace.                         *)
RoomOK ==
    /\ pc = "promote" => oused + Cardinality(Occupied(young)) <= tospace.len
    /\ pc = "major" => oused + Cardinality(Occupied(fromspace)) <= tospace.len

EntryType ==
    [base : Nat, len : Nat \ {0}, site : Sites, valid : BOOLEAN,
     tracking : BOOLEAN, marked : BOOLEAN, rebased : BOOLEAN]

(* Every valid entry is in the bucket where it is looked for.              *)
TableOK(t) ==
    /\ t \in [Buckets -> Seq(EntryType)]
    /\ \A s \in ValidSlots(t) : s[1] = Hash(Entry(t, s).base, Entry(t, s).len)

(* The loop of GC_debug_rebase_allocation_entries has yet to come to s.    *)
Ahead(s) == rebase.j < s[1] \/ (rebase.j = s[1] /\ rebase.i <= s[2])

(* An entry that is still to be moved.                                     *)
Waiting(v) == pc = "rebase" /\ Inside(v.base, v.len, OldSpace)

(* Where the object of an entry is by now.                                 *)
Place(v) == IF Waiting(v) THEN v.base - rebase.old + rebase.new ELSE v.base

(* Entries lie in the spaces.  A major collection has marked none that it  *)
(* has not moved, and a rebasing has still to visit those it has to move.  *)
EntriesOK ==
    \A s \in ValidSlots(tbl) :
        LET v == Entry(tbl, s) IN
        \/ Inside(v.base, v.len, young)
        \/ Inside(v.base, v.len, tospace)
        \/ pc = "major" /\ ~v.marked /\ Inside(v.base, v.len, fromspace)
        \/ Waiting(v) /\ ~v.rebased /\ Ahead(s)

(* Every object has an entry.                                              *)
CompleteOK ==
    \A o \in objs : \E s \in ValidSlots(tbl) :
        Place(Entry(tbl, s)) = o.base /\ Entry(tbl, s).len = o.len

(* The young objects have been promoted, or are gone.                      *)
Promoted == pc \in {"promoted", "major"} \/ (pc = "rebase" /\ rebase.back = "promoted")

(* Entry v is that of object o.                                            *)
EntryOf(v, o) == Place(v) = o.base /\ v.len = o.len /\ v.site = o.site

(* As long as nothing was reset, an entry is that of an object, or of one  *)
(* that was in the young space and was not promoted; no two entries are of *)
(* the same place, or site.                                                *)
Owned(v) ==
    \/ \E o \in objs : EntryOf(v, o)
    \/ Promoted /\ Inside(v.base, v.len, young)

Distinct(v, w) == Place(v) # Place(w) /\ v.site # w.site

ShadowOK ==
    ~wasReset =>
        /\ \A s \in ValidSlots(tbl) :
              LET v == Entry(tbl, s) IN
              /\ v.tracking <=> v.site \in tracked
              /\ Owned(v)
              /\ pc = "promote" \/ Promoted =>
                    (Inside(v.base, v.len, young) => ~v.marked)
        /\ \A s, u \in ValidSlots(tbl) :
              s # u => Distinct(Entry(tbl, s), Entry(tbl, u))

Core ==
    /\ SpacesOK /\ ControlOK /\ ObjectsOK /\ RoomOK
    /\ TableOK(tbl) /\ EntriesOK /\ CompleteOK /\ ShadowOK

IInv == IF pc = "fatal" THEN TableComplete ELSE Core

-----------------------------------------------------------------------------
(* The operations on the table.                                            *)

TableType == [Buckets -> Seq(EntryType)]

LEMMA SlotFacts ==
    ASSUME NEW t, NEW s
    PROVE  s \in Slots(t) <=> /\ s = <<s[1], s[2]>>
                              /\ s[1] \in Buckets /\ s[2] \in DOMAIN t[s[1]]
BY DEF Slots

(* A set of slots has a first one.                                         *)
LEMMA FirstFacts ==
    ASSUME NEW S, S # {}, S \subseteq Nat
    PROVE  First(S) \in S
<1> DEFINE R == {ss \in Nat \X Nat : ss[1] < ss[2]}
<1>1. IsWellFoundedOn(R, Nat)
  BY NatLessThanWellFounded DEF OpToRel
<1> HIDE DEF R
<1>2. \E x \in S : \A y \in S : ~(<<y, x>> \in R)
  BY <1>1, WFMin, Zenon
<1>3. \A x, y \in Nat : ~(<<y, x>> \in R) => x <= y
  BY DEF R
<1>4. \E x \in S : \A y \in S : x <= y
  BY <1>2, <1>3
<1> QED
  BY <1>4 DEF First

(* t with v in slot s.                                                     *)
Put(t, s, v) == [t EXCEPT ![s[1]] = [@ EXCEPT ![s[2]] = v]]

LEMMA PutFacts ==
    ASSUME NEW t \in TableType, NEW s \in Slots(t), NEW v \in EntryType
    PROVE  /\ Put(t, s, v) \in TableType
           /\ Slots(Put(t, s, v)) = Slots(t)
           /\ Entry(Put(t, s, v), s) = v
           /\ \A u \in Slots(t) : u # s => Entry(Put(t, s, v), u) = Entry(t, u)
<1>1. s = <<s[1], s[2]>> /\ s[1] \in Buckets /\ s[2] \in DOMAIN t[s[1]]
  BY SlotFacts
<1>2. t[s[1]] \in Seq(EntryType)
  BY <1>1 DEF TableType
<1> DEFINE q == [t[s[1]] EXCEPT ![s[2]] = v]
<1>3. q \in Seq(EntryType) /\ DOMAIN q = DOMAIN t[s[1]] /\ q[s[2]] = v
      /\ \A i \in DOMAIN q : i # s[2] => q[i] = t[s[1]][i]
  BY <1>1, <1>2
<1>4. Put(t, s, v) = [t EXCEPT ![s[1]] = q]
  BY DEF Put
<1> HIDE DEF q
<1>5. Put(t, s, v) \in TableType /\ Put(t, s, v)[s[1]] = q
      /\ \A j \in Buckets : j # s[1] => Put(t, s, v)[j] = t[j]
  BY <1>1, <1>3, <1>4 DEF TableType
<1>6. \A j \in Buckets : DOMAIN Put(t, s, v)[j] = DOMAIN t[j]
  BY <1>3, <1>5
<1>7. Slots(Put(t, s, v)) = Slots(t)
  BY <1>6 DEF Slots
<1>8. Entry(Put(t, s, v), s) = v
  BY <1>3, <1>5 DEF Entry
<1>9. ASSUME NEW u \in Slots(t), u # s
      PROVE  Entry(Put(t, s, v), u) = Entry(t, u)
  <2>1. u = <<u[1], u[2]>> /\ u[1] \in Buckets /\ u[2] \in DOMAIN t[u[1]]
    BY SlotFacts
  <2>2. u[1] # s[1] \/ u[2] # s[2]
    BY <2>1, <1>1, <1>9
  <2> QED
    BY <2>1, <2>2, <1>3, <1>5 DEF Entry
<1> QED
  BY <1>5, <1>7, <1>8, <1>9

(* t has got the new entry v, in a slot that had no valid one.             *)
Added(t, t2, v) ==
    \E n : /\ n \notin ValidSlots(t) /\ n \in ValidSlots(t2)
           /\ ValidSlots(t2) = ValidSlots(t) \cup {n}
           /\ Entry(t2, n) = v
           /\ \A s \in ValidSlots(t) : Entry(t2, s) = Entry(t, s)

LEMMA AddFacts ==
    ASSUME NEW t, TableOK(t), NEW v \in EntryType, v.valid = TRUE,
           Hash(v.base, v.len) \in Buckets
    PROVE  /\ TableOK(GC_debug_add_to_hash_table(t, v))
           /\ Added(t, GC_debug_add_to_hash_table(t, v), v)
<1> DEFINE h == Hash(v.base, v.len)
           unused == {i \in DOMAIN t[h] : ~t[h][i].valid}
           t2 == GC_debug_add_to_hash_table(t, v)
<1>t. t \in TableType /\ h \in Buckets /\ t[h] \in Seq(EntryType)
  BY DEF TableOK, TableType
<1>1. CASE unused = {}
  <2>1. t2 = [t EXCEPT ![h] = Append(t[h], v)]
    BY <1>1 DEF GC_debug_add_to_hash_table
  <2> DEFINE n == <<h, Len(t[h]) + 1>>
             q == Append(t[h], v)
  <2>2. q \in Seq(EntryType) /\ DOMAIN q = DOMAIN t[h] \cup {Len(t[h]) + 1}
        /\ Len(t[h]) + 1 \notin DOMAIN t[h] /\ q[Len(t[h]) + 1] = v
        /\ \A i \in DOMAIN t[h] : q[i] = t[h][i]
    BY <1>t
  <2>3. t2 \in TableType /\ t2[h] = q /\ \A j \in Buckets : j # h => t2[j] = t[j]
    BY <2>1, <2>2, <1>t DEF TableType
  <2> HIDE DEF t2, q, h
  <2>4. Slots(t2) = Slots(t) \cup {n} /\ n \notin Slots(t)
    BY <2>2, <2>3, <1>t DEF Slots
  <2>5. Entry(t2, n) = v
    BY <2>2, <2>3 DEF Entry
  <2>6. ASSUME NEW s \in Slots(t) PROVE Entry(t2, s) = Entry(t, s)
    <3>1. s[1] \in Buckets /\ s[2] \in DOMAIN t[s[1]]
      BY SlotFacts
    <3> QED
      BY <3>1, <2>2, <2>3 DEF Entry
  <2>7. ValidSlots(t2) = ValidSlots(t) \cup {n} /\ n \notin ValidSlots(t)
    BY <2>4, <2>5, <2>6 DEF ValidSlots
  <2>8. \A s \in ValidSlots(t) : Entry(t2, s) = Entry(t, s)
    BY <2>6 DEF ValidSlots
  <2>9. Added(t, t2, v)
    BY <2>7, <2>8, <2>5 DEF Added
  <2>10. n[1] = h
    OBVIOUS
  <2>11. TableOK(t2)
    BY <2>3, <2>7, <2>8, <2>5, <2>10 DEF TableOK, TableType, h
  <2> QED
    BY <2>9, <2>11 DEF t2
<1>2. CASE unused # {}
  <2>0. unused \subseteq Nat
    BY <1>t
  <2>1. First(unused) \in unused
    <3> HIDE DEF unused
    <3> QED
      BY <1>2, <2>0, FirstFacts
  <2> DEFINE n == <<h, First(unused)>>
  <2>2. n[1] = h /\ n[2] = First(unused) /\ n \in Slots(t) /\ ~Entry(t, n).valid
    BY <2>1, <1>t, SlotFacts DEF Entry
  <2>3. t2 = Put(t, n, v)
    BY <1>2, <2>2 DEF GC_debug_add_to_hash_table, Put
  <2> HIDE DEF t2, n, unused, h
  <2>4. t2 \in TableType /\ Slots(t2) = Slots(t) /\ Entry(t2, n) = v
        /\ \A u \in Slots(t) : u # n => Entry(t2, u) = Entry(t, u)
    BY <2>2, <2>3, <1>t, PutFacts
  <2>7. ValidSlots(t2) = ValidSlots(t) \cup {n} /\ n \notin ValidSlots(t)
    BY <2>2, <2>4 DEF ValidSlots
  <2>8. \A s \in ValidSlots(t) : Entry(t2, s) = Entry(t, s)
    BY <2>4, <2>7 DEF ValidSlots
  <2>9. Added(t, t2, v)
    BY <2>7, <2>8, <2>4 DEF Added
  <2>11. TableOK(t2)
    BY <2>2, <2>4, <2>7, <2>8 DEF TableOK, TableType, h
  <2> QED
    BY <2>9, <2>11 DEF t2
<1> QED
  BY <1>1, <1>2

(* The entry of slot s has become w, in a slot that is free or was s.      *)
MovedEntry(t, t2, s, w) ==
    \E n : /\ n \notin ValidSlots(t) \ {s} /\ n \in ValidSlots(t2)
           /\ ValidSlots(t2) = (ValidSlots(t) \ {s}) \cup {n}
           /\ Entry(t2, n) = w
           /\ \A u \in ValidSlots(t) \ {s} : Entry(t2, u) = Entry(t, u)

LEMMA MoveFacts ==
    ASSUME NEW t, TableOK(t), NEW s \in ValidSlots(t),
           NEW base \in Nat, NEW len \in Nat \ {0}, Hash(base, len) \in Buckets
    PROVE  LET t2 == GC_debug_move_allocation(t, s, base, len) IN
           /\ TableOK(t2)
           /\ MovedEntry(t, t2, s,
                  [Entry(t, s) EXCEPT !.base = base, !.len = len, !.marked = TRUE])
<1> DEFINE e == Entry(t, s)
           x == [e EXCEPT !.valid = FALSE, !.marked = TRUE]
           w == [e EXCEPT !.base = base, !.len = len, !.marked = TRUE]
           t1 == Put(t, s, x)
           t2 == GC_debug_move_allocation(t, s, base, len)
<1>1. t \in TableType /\ s \in Slots(t) /\ s[1] \in Buckets
      /\ s[2] \in DOMAIN t[s[1]] /\ t[s[1]] \in Seq(EntryType)
  BY SlotFacts DEF TableOK, TableType, ValidSlots
<1>2. e \in EntryType /\ e.valid = TRUE
  <2>1. e \in EntryType
    BY <1>1 DEF Entry
  <2>2. e.valid \in BOOLEAN
    BY <2>1 DEF EntryType
  <2>3. e.valid
    BY DEF ValidSlots
  <2> QED
    BY <2>1, <2>2, <2>3
<1>3. x \in EntryType /\ x.valid = FALSE
  BY <1>2 DEF EntryType
<1>4. w \in EntryType /\ w.valid = TRUE /\ w.base = base /\ w.len = len
  BY <1>2 DEF EntryType
<1>5. t1 = [t EXCEPT ![s[1]][s[2]].valid = FALSE, ![s[1]][s[2]].marked = TRUE]
  BY <1>1 DEF Put, Entry, TableType
<1>6. t2 = GC_debug_add_to_hash_table(t1, w)
  BY <1>5 DEF GC_debug_move_allocation
<1> HIDE DEF x, w, e, t1, t2
<1>7. /\ t1 \in TableType /\ Slots(t1) = Slots(t) /\ Entry(t1, s) = x
      /\ \A u \in Slots(t) : u # s => Entry(t1, u) = Entry(t, u)
  BY <1>1, <1>3, PutFacts DEF t1
<1>8. /\ ValidSlots(t1) = ValidSlots(t) \ {s}
      /\ \A u \in ValidSlots(t) \ {s} : Entry(t1, u) = Entry(t, u)
  BY <1>1, <1>3, <1>7 DEF ValidSlots
<1>9. TableOK(t1)
  BY <1>7, <1>8 DEF TableOK, TableType
<1>10. TableOK(t2) /\ Added(t1, t2, w)
  BY <1>9, <1>4, <1>6, AddFacts
<1>11. MovedEntry(t, t2, s, w)
  BY <1>8, <1>10 DEF Added, MovedEntry
<1> QED
  BY <1>10, <1>11 DEF t2, w, e

(* A table whose slots have the entries G.                                 *)
LEMMA MapFacts ==
    ASSUME NEW t \in TableType, NEW G \in [Slots(t) -> EntryType],
           NEW t2, t2 = [j \in Buckets |-> [i \in DOMAIN t[j] |-> G[<<j, i>>]]]
    PROVE  /\ t2 \in TableType
           /\ Slots(t2) = Slots(t)
           /\ \A s \in Slots(t) : Entry(t2, s) = G[s]
<1>1. ASSUME NEW j \in Buckets PROVE t2[j] \in Seq(EntryType) /\ DOMAIN t2[j] = DOMAIN t[j]
  <2>1. t[j] \in Seq(EntryType)
    BY DEF TableType
  <2>2. PICK n \in Nat : DOMAIN t[j] = 1 .. n
    BY <2>1
  <2>3. \A i \in 1 .. n : G[<<j, i>>] \in EntryType
    BY <2>2 DEF Slots
  <2>4. t2[j] = [i \in 1 .. n |-> G[<<j, i>>]]
    BY <2>2
  <2>5. t2[j] \in [1 .. n -> EntryType]
    BY <2>3, <2>4
  <2>6. Seq(EntryType) = UNION {[1 .. m -> EntryType] : m \in Nat}
    BY SeqDef
  <2>7. t2[j] \in Seq(EntryType)
    BY <2>5, <2>6
  <2> QED
    BY <2>2, <2>4, <2>7
<1>2. t2 \in TableType
  BY <1>1 DEF TableType
<1>3. Slots(t2) = Slots(t)
  BY <1>1 DEF Slots
<1>4. ASSUME NEW s \in Slots(t) PROVE Entry(t2, s) = G[s]
  <2>1. s = <<s[1], s[2]>> /\ s[1] \in Buckets /\ s[2] \in DOMAIN t[s[1]]
    BY SlotFacts
  <2> QED
    BY <2>1 DEF Entry
<1> QED
  BY <1>2, <1>3, <1>4

LEMMA EntryFacts ==
    ASSUME NEW t \in TableType, NEW s \in Slots(t)
    PROVE  Entry(t, s) \in EntryType
<1>1. s[1] \in Buckets /\ s[2] \in DOMAIN t[s[1]]
  BY SlotFacts
<1>2. t[s[1]] \in Seq(EntryType)
  BY <1>1 DEF TableType
<1> QED
  BY <1>1, <1>2 DEF Entry

LEMMA ValidFacts ==
    ASSUME NEW t, TableOK(t), NEW s \in ValidSlots(t)
    PROVE  /\ s \in Slots(t) /\ s[1] \in Buckets
           /\ Entry(t, s) \in EntryType /\ Entry(t, s).valid = TRUE
           /\ s[1] = Hash(Entry(t, s).base, Entry(t, s).len)
<1>1. s \in Slots(t) /\ Entry(t, s).valid
  BY DEF ValidSlots
<1>2. Entry(t, s) \in EntryType
  BY <1>1, EntryFacts DEF TableOK, TableType
<1>3. Entry(t, s).valid \in BOOLEAN
  BY <1>2 DEF EntryType
<1>4. s[1] \in Buckets
  BY <1>1, SlotFacts
<1> QED
  BY <1>1, <1>2, <1>3, <1>4 DEF TableOK

(* All valid entries have been changed, as f says, where they stand.       *)
Changed(t, t2, f) ==
    /\ ValidSlots(t2) = ValidSlots(t)
    /\ \A s \in ValidSlots(t) : Entry(t2, s) = f[s]

LEMMA BeginMarkingFacts ==
    ASSUME NEW t, TableOK(t)
    PROVE  /\ TableOK(GC_debug_begin_marking(t))
           /\ Changed(t, GC_debug_begin_marking(t),
                      [s \in ValidSlots(t) |-> [Entry(t, s) EXCEPT !.marked = FALSE]])
<1> DEFINE t2 == GC_debug_begin_marking(t)
           G == [s \in Slots(t) |-> IF Entry(t, s).valid
                                    THEN [Entry(t, s) EXCEPT !.marked = FALSE]
                                    ELSE Entry(t, s)]
<1>t. t \in TableType
  BY DEF TableOK, TableType
<1>1. \A s \in Slots(t) : Entry(t, s) \in EntryType
  BY <1>t, EntryFacts
<1>2. G \in [Slots(t) -> EntryType]
  <2>1. \A e \in EntryType : [e EXCEPT !.marked = FALSE] \in EntryType
    BY DEF EntryType
  <2> QED
    BY <1>1, <2>1
<1>3. t2 = [j \in Buckets |-> [i \in DOMAIN t[j] |-> G[<<j, i>>]]]
  <2>1. ASSUME NEW j \in Buckets, NEW i \in DOMAIN t[j]
        PROVE  G[<<j, i>>] = IF t[j][i].valid THEN [t[j][i] EXCEPT !.marked = FALSE]
                             ELSE t[j][i]
    <3>1. <<j, i>> \in Slots(t) /\ Entry(t, <<j, i>>) = t[j][i]
      BY DEF Slots, Entry
    <3> QED
      BY <3>1
  <2> HIDE DEF G
  <2> QED
    BY <2>1 DEF GC_debug_begin_marking, ForEachValid
<1> HIDE DEF t2
<1>4. /\ t2 \in TableType /\ Slots(t2) = Slots(t)
      /\ \A s \in Slots(t) : Entry(t2, s) = G[s]
  <2> HIDE DEF G
  <2> QED
    BY <1>t, <1>2, <1>3, MapFacts
<1>5. \A s \in ValidSlots(t) : /\ s \in Slots(t) /\ Entry(t, s).valid = TRUE
                               /\ Entry(t, s) \in EntryType
                               /\ s[1] = Hash(Entry(t, s).base, Entry(t, s).len)
  BY ValidFacts
<1>6. ASSUME NEW s \in ValidSlots(t)
      PROVE  /\ Entry(t2, s) = [Entry(t, s) EXCEPT !.marked = FALSE]
             /\ Entry(t2, s).valid = TRUE /\ Entry(t2, s).base = Entry(t, s).base
             /\ Entry(t2, s).len = Entry(t, s).len
  BY <1>4, <1>5 DEF EntryType
<1>7. ValidSlots(t2) = ValidSlots(t)
  BY <1>4, <1>6 DEF ValidSlots
<1> HIDE DEF G
<1> QED
  BY <1>4, <1>5, <1>6, <1>7 DEF TableOK, TableType, Changed, t2

LEMMA UnrebasedFacts ==
    ASSUME NEW t, TableOK(t),
           NEW t2, t2 = ForEachValid(t, LAMBDA v : [v EXCEPT !.rebased = FALSE])
    PROVE  /\ TableOK(t2)
           /\ Changed(t, t2,
                      [s \in ValidSlots(t) |-> [Entry(t, s) EXCEPT !.rebased = FALSE]])
<1> DEFINE G == [s \in Slots(t) |-> IF Entry(t, s).valid
                                    THEN [Entry(t, s) EXCEPT !.rebased = FALSE]
                                    ELSE Entry(t, s)]
<1>t. t \in TableType
  BY DEF TableOK, TableType
<1>1. \A s \in Slots(t) : Entry(t, s) \in EntryType
  BY <1>t, EntryFacts
<1>2. G \in [Slots(t) -> EntryType]
  <2>1. \A e \in EntryType : [e EXCEPT !.rebased = FALSE] \in EntryType
    BY DEF EntryType
  <2> QED
    BY <1>1, <2>1
<1>3. t2 = [j \in Buckets |-> [i \in DOMAIN t[j] |-> G[<<j, i>>]]]
  <2>1. ASSUME NEW j \in Buckets, NEW i \in DOMAIN t[j]
        PROVE  G[<<j, i>>] = IF t[j][i].valid THEN [t[j][i] EXCEPT !.rebased = FALSE]
                             ELSE t[j][i]
    <3>1. <<j, i>> \in Slots(t) /\ Entry(t, <<j, i>>) = t[j][i]
      BY DEF Slots, Entry
    <3> QED
      BY <3>1
  <2> HIDE DEF G
  <2> QED
    BY <2>1 DEF ForEachValid
<1>4. /\ t2 \in TableType /\ Slots(t2) = Slots(t)
      /\ \A s \in Slots(t) : Entry(t2, s) = G[s]
  <2> HIDE DEF G
  <2> QED
    BY <1>t, <1>2, <1>3, MapFacts
<1>5. \A s \in ValidSlots(t) : /\ s \in Slots(t) /\ Entry(t, s).valid = TRUE
                               /\ Entry(t, s) \in EntryType
                               /\ s[1] = Hash(Entry(t, s).base, Entry(t, s).len)
  BY ValidFacts
<1>6. ASSUME NEW s \in ValidSlots(t)
      PROVE  /\ Entry(t2, s) = [Entry(t, s) EXCEPT !.rebased = FALSE]
             /\ Entry(t2, s).valid = TRUE /\ Entry(t2, s).base = Entry(t, s).base
             /\ Entry(t2, s).len = Entry(t, s).len
  BY <1>4, <1>5 DEF EntryType
<1>7. ValidSlots(t2) = ValidSlots(t)
  BY <1>4, <1>6 DEF ValidSlots
<1> HIDE DEF G
<1> QED
  BY <1>4, <1>5, <1>6, <1>7 DEF TableOK, TableType, Changed

(* A sweep takes out the unmarked entries of the space.                    *)
LEMMA EndMarkingFacts ==
    ASSUME NEW t, TableOK(t), NEW space
    PROVE  LET t2 == GC_debug_end_marking(t, space) IN
           /\ TableOK(t2)
           /\ ValidSlots(t2) = {s \in ValidSlots(t) : ~Unmarked(Entry(t, s), space)}
           /\ \A s \in ValidSlots(t2) : Entry(t2, s) = Entry(t, s)
<1> DEFINE t2 == GC_debug_end_marking(t, space)
           G == [s \in Slots(t) |-> IF Entry(t, s).valid
                                    THEN [Entry(t, s) EXCEPT !.valid = ~Unmarked(Entry(t, s), space)]
                                    ELSE Entry(t, s)]
<1>t. t \in TableType
  BY DEF TableOK, TableType
<1>1. \A s \in Slots(t) : Entry(t, s) \in EntryType
  BY <1>t, EntryFacts
<1>u. \A v : Unmarked(v, space) \in BOOLEAN
  BY DEF Unmarked
<1>2. G \in [Slots(t) -> EntryType]
  <2>1. \A e \in EntryType, b \in BOOLEAN : [e EXCEPT !.valid = b] \in EntryType
    BY DEF EntryType
  <2> QED
    BY <1>1, <1>u, <2>1
<1>3. t2 = [j \in Buckets |-> [i \in DOMAIN t[j] |-> G[<<j, i>>]]]
  <2>1. ASSUME NEW j \in Buckets, NEW i \in DOMAIN t[j]
        PROVE  G[<<j, i>>] = IF t[j][i].valid
                             THEN [t[j][i] EXCEPT !.valid = ~Unmarked(t[j][i], space)]
                             ELSE t[j][i]
    <3>1. <<j, i>> \in Slots(t) /\ Entry(t, <<j, i>>) = t[j][i]
      BY DEF Slots, Entry
    <3> QED
      BY <3>1
  <2> HIDE DEF G
  <2> QED
    BY <2>1 DEF GC_debug_end_marking, ForEachValid
<1> HIDE DEF t2
<1>4. /\ t2 \in TableType /\ Slots(t2) = Slots(t)
      /\ \A s \in Slots(t) : Entry(t2, s) = G[s]
  <2> HIDE DEF G
  <2> QED
    BY <1>t, <1>2, <1>3, MapFacts
<1>5. \A s \in ValidSlots(t) : /\ s \in Slots(t) /\ Entry(t, s).valid = TRUE
                               /\ Entry(t, s) \in EntryType
                               /\ s[1] = Hash(Entry(t, s).base, Entry(t, s).len)
  BY ValidFacts
<1>6. ASSUME NEW s \in ValidSlots(t)
      PROVE  /\ Entry(t2, s).valid = ~Unmarked(Entry(t, s), space)
             /\ Entry(t2, s).valid => Entry(t2, s) = Entry(t, s)
  <2>1. Entry(t2, s) = [Entry(t, s) EXCEPT !.valid = ~Unmarked(Entry(t, s), space)]
    BY <1>4, <1>5
  <2>2. \A e \in EntryType, b \in BOOLEAN :
            /\ [e EXCEPT !.valid = b].valid = b
            /\ e.valid = TRUE /\ b => [e EXCEPT !.valid = b] = e
    BY DEF EntryType
  <2>3. PICK b \in BOOLEAN : b = ~Unmarked(Entry(t, s), space)
    BY <1>u
  <2>4. PICK e \in EntryType : e = Entry(t, s) /\ e.valid = TRUE
    BY <1>5
  <2>5. Entry(t2, s) = [e EXCEPT !.valid = b]
    BY <2>1, <2>3, <2>4
  <2>6. Entry(t2, s).valid = b /\ (b => Entry(t2, s) = e)
    BY <2>2, <2>4, <2>5
  <2> QED
    BY <2>3, <2>4, <2>6
<1>7. ASSUME NEW s \in Slots(t), s \notin ValidSlots(t) PROVE ~Entry(t2, s).valid
  BY <1>4, <1>7 DEF ValidSlots
<1>8. ValidSlots(t2) = {s \in ValidSlots(t) : ~Unmarked(Entry(t, s), space)}
  <2> HIDE DEF G
  <2>1. ValidSlots(t2) \subseteq Slots(t) /\ ValidSlots(t) \subseteq Slots(t)
    BY <1>4 DEF ValidSlots
  <2>2. \A s \in Slots(t) : s \in ValidSlots(t2) <=> Entry(t2, s).valid
    BY <1>4 DEF ValidSlots
  <2> QED
    BY <2>1, <2>2, <1>6, <1>7
<1>9. \A s \in ValidSlots(t2) : Entry(t2, s) = Entry(t, s)
  <2>1. \A s \in ValidSlots(t2) : Entry(t2, s).valid /\ s \in ValidSlots(t)
    BY <1>8 DEF ValidSlots
  <2> QED
    BY <2>1, <1>6
<1> HIDE DEF G
<1> QED
  BY <1>4, <1>5, <1>8, <1>9 DEF TableOK, TableType, t2

(* One entry has become v, where it stands.                                *)
LEMMA SetFacts ==
    ASSUME NEW t, TableOK(t), NEW s \in ValidSlots(t), NEW v \in EntryType, v.valid = TRUE,
           v.base = Entry(t, s).base, v.len = Entry(t, s).len
    PROVE  /\ TableOK(Put(t, s, v))
           /\ ValidSlots(Put(t, s, v)) = ValidSlots(t)
           /\ Entry(Put(t, s, v), s) = v
           /\ \A u \in ValidSlots(t) : u # s => Entry(Put(t, s, v), u) = Entry(t, u)
<1> DEFINE t2 == Put(t, s, v)
<1>1. t \in TableType /\ s \in Slots(t) /\ s[1] = Hash(Entry(t, s).base, Entry(t, s).len)
  BY ValidFacts DEF TableOK, TableType
<1>2. /\ t2 \in TableType /\ Slots(t2) = Slots(t) /\ Entry(t2, s) = v
      /\ \A u \in Slots(t) : u # s => Entry(t2, u) = Entry(t, u)
  BY <1>1, PutFacts
<1> HIDE DEF t2
<1>3. ValidSlots(t2) = ValidSlots(t)
  BY <1>1, <1>2 DEF ValidSlots
<1>4. \A u \in ValidSlots(t) : u # s => Entry(t2, u) = Entry(t, u)
  BY <1>2 DEF ValidSlots
<1> QED
  BY <1>1, <1>2, <1>3, <1>4 DEF TableOK, TableType, t2

(* What is looked for, and what is found.                                  *)
LEMMA FindFacts ==
    ASSUME NEW t, TableOK(t), NEW base, NEW len, Hash(base, len) \in Buckets,
           Matches(t, base, len) # {}
    PROVE  LET s == GC_debug_find_allocated(t, base, len) IN
           /\ s \in ValidSlots(t) /\ Entry(t, s).base = base /\ Entry(t, s).len = len
<1> DEFINE M == Matches(t, base, len)
           s == GC_debug_find_allocated(t, base, len)
<1>1. t[Hash(base, len)] \in Seq(EntryType)
  BY DEF TableOK
<1>2. M \subseteq Nat
  BY <1>1 DEF Matches
<1>3. First(M) \in M
  <2> HIDE DEF M
  <2> QED
    BY <1>2, FirstFacts DEF M
<1>4. s = <<Hash(base, len), First(M)>>
  BY DEF GC_debug_find_allocated
<1> HIDE DEF s
<1>5. s[1] = Hash(base, len) /\ s[2] = First(M)
  BY <1>4
<1>6. s \in Slots(t)
  BY <1>3, <1>4, <1>5, SlotFacts DEF Matches
<1> QED
  BY <1>3, <1>5, <1>6 DEF Matches, ValidSlots, Entry, s

LEMMA MatchFacts ==
    ASSUME NEW t, TableOK(t), NEW s \in ValidSlots(t)
    PROVE  Matches(t, Entry(t, s).base, Entry(t, s).len) # {}
<1>1. s \in Slots(t) /\ Entry(t, s).valid /\ s[1] = Hash(Entry(t, s).base, Entry(t, s).len)
  BY ValidFacts DEF ValidSlots
<1>2. s[2] \in DOMAIN t[s[1]]
  BY <1>1, SlotFacts
<1>3. s[2] \in Matches(t, Entry(t, s).base, Entry(t, s).len)
  BY <1>1, <1>2 DEF Matches, Entry
<1> QED
  BY <1>3

-----------------------------------------------------------------------------
(* What the invariant says of a place.                                     *)

(* The hash of a place that lies in a space is the number of a bucket.     *)
LEMMA HashFacts ==
    ASSUME NEW space \in Spaces, End(space) <= Memory,
           NEW base \in Nat, NEW len \in Nat \ {0}, Inside(base, len, space)
    PROVE  Hash(base, len) \in Buckets
<1>1. base \in 1 .. Memory /\ len \in 1 .. Memory
  BY DebugAssumption DEF Spaces, End, Inside, Within
<1> QED
  BY <1>1, DebugAssumption DEF Buckets

LEMMA CoreComplete ==
    ASSUME Core
    PROVE  TableComplete
<1> SUFFICES ASSUME pc # "rebase", NEW o \in objs
             PROVE  Matches(tbl, o.base, o.len) # {}
  BY DEF TableComplete
<1>1. PICK s \in ValidSlots(tbl) : Place(Entry(tbl, s)) = o.base /\ Entry(tbl, s).len = o.len
  BY DEF Core, CompleteOK
<1>2. Entry(tbl, s).base = o.base
  BY <1>1 DEF Place, Waiting
<1>3. TableOK(tbl)
  BY DEF Core
<1> QED
  BY <1>1, <1>2, <1>3, MatchFacts

-----------------------------------------------------------------------------
(* Allocation.                                                             *)

LEMMA AllocateStep ==
    ASSUME Core, NEW len \in Sizes, NEW site \in Sites, GC_debug_just_allocated(len, site)
    PROVE  Core' /\ pc' # "fatal"
<1>0. PICK base : base = young.base + yused
  OBVIOUS
<1> DEFINE v == GC_debug_value_from_cap(base, len, site)
           o == [base |-> base, len |-> len, site |-> site]
<1>1. /\ pc = "run" /\ pc' = "run" /\ yused + len <= young.len
      /\ \A s \in ValidSlots(tbl) : Entry(tbl, s).site # site
      /\ tbl' = GC_debug_add_to_hash_table(tbl, v)
      /\ objs' = objs \cup {o} /\ yused' = yused + len /\ tracked' = tracked \ {site}
      /\ young' = young /\ tospace' = tospace /\ fromspace' = fromspace
      /\ oused' = oused /\ rebase' = rebase /\ wasReset' = wasReset
  BY <1>0 DEF GC_debug_just_allocated, ValidEntries
<1>2. len \in Nat \ {0} /\ base \in Nat
  BY <1>0, DebugAssumption DEF Core, SpacesOK, Spaces
<1>3. SpacesOK' /\ ControlOK'
  BY <1>1, <1>2 DEF Core, SpacesOK, ControlOK, Spaces, Apart, End, OldSpace, Pcs
<1>4. Within(base, len, young, yused + len) /\ Inside(base, len, young)
  BY <1>0, <1>1, <1>2 DEF Within, Inside, Core, SpacesOK, Spaces
<1>5. Hash(base, len) \in Buckets
  BY <1>2, <1>4, HashFacts DEF Core, SpacesOK
<1>6. v \in EntryType /\ v.valid = TRUE /\ v.base = base /\ v.len = len
      /\ v.site = site /\ v.tracking = FALSE /\ v.marked = FALSE
  BY <1>2 DEF GC_debug_value_from_cap, EntryType
<1>7. o \in [base : Nat, len : Nat \ {0}, site : Sites]
      /\ o.base = base /\ o.len = len /\ o.site = site
  BY <1>2
<1>t. TableOK(tbl)
  BY DEF Core
<1> HIDE DEF v, o
<1>8. TableOK(tbl') /\ Added(tbl, tbl', v)
  BY <1>1, <1>5, <1>6, <1>t, AddFacts
<1>9. PICK n : /\ n \notin ValidSlots(tbl) /\ n \in ValidSlots(tbl')
               /\ ValidSlots(tbl') = ValidSlots(tbl) \cup {n}
               /\ Entry(tbl', n) = v
               /\ \A s \in ValidSlots(tbl) : Entry(tbl', s) = Entry(tbl, s)
  BY <1>8 DEF Added
<1>10. \A p \in objs : Disjoint(p, o) /\ Disjoint(o, p)
  <2> SUFFICES ASSUME NEW p \in objs
               PROVE  p.base + p.len <= base \/ base + len <= p.base
    BY <1>7 DEF Disjoint
  <2>1. \/ Within(p.base, p.len, young, yused)
        \/ Within(p.base, p.len, tospace, oused)
    BY <1>1 DEF Core, ObjectsOK
  <2>2. p.base \in Nat /\ p.len \in Nat
    BY DEF Core, ObjectsOK
  <2> QED
    BY <2>1, <2>2, <1>0, <1>1, <1>2 DEF Within, Core, SpacesOK, Spaces, Apart, End
<1>11. ObjectsOK'
  <2>1. objs' \subseteq [base : Nat, len : Nat \ {0}, site : Sites]
    BY <1>1, <1>7 DEF Core, ObjectsOK
  <2>2. \A p \in objs : \/ Within(p.base, p.len, young, yused')
                        \/ Within(p.base, p.len, tospace, oused)
    <3>1. \A p \in objs : p.base \in Nat /\ p.len \in Nat
      BY DEF Core, ObjectsOK
    <3> QED
      BY <3>1, <1>1, <1>2 DEF Core, ObjectsOK, Within, SpacesOK, Spaces
  <2>3. \A p, q \in objs' : p = q \/ Disjoint(p, q)
    BY <1>1, <1>10 DEF Core, ObjectsOK
  <2> QED
    BY <2>1, <2>2, <2>3, <1>1, <1>4, <1>7 DEF ObjectsOK
<1>12. RoomOK'
  BY <1>1 DEF RoomOK
<1>13. \A s \in ValidSlots(tbl) : Place(Entry(tbl, s)) = Entry(tbl, s).base
       /\ Place(Entry(tbl, s))' = Entry(tbl, s).base
  BY <1>1, <1>9 DEF Place, Waiting
<1>14. Place(Entry(tbl, n))' = base
  BY <1>1, <1>6, <1>9 DEF Place, Waiting
<1>15. EntriesOK'
  BY <1>1, <1>4, <1>6, <1>9 DEF Core, EntriesOK, Waiting
<1>16. CompleteOK'
  BY <1>1, <1>6, <1>7, <1>9, <1>13, <1>14 DEF Core, CompleteOK
<1>17. ShadowOK'
  <2> SUFFICES ASSUME ~wasReset PROVE ShadowOK'
    BY <1>1 DEF ShadowOK
  <2>1. ASSUME NEW s \in ValidSlots(tbl)
        PROVE  LET w == Entry(tbl, s) IN
               /\ w.tracking <=> w.site \in tracked'
               /\ Owned(w)'
               /\ w.site # site /\ w.base # base
    <3> DEFINE w == Entry(tbl, s)
    <3>1. w.tracking <=> w.site \in tracked
      BY DEF Core, ShadowOK
    <3>2. w.site # site
      BY <1>1
    <3>3. PICK p \in objs : EntryOf(w, p)
      BY <1>1 DEF Core, ShadowOK, Owned, Promoted
    <3>4. w.base = p.base /\ p \in objs' /\ EntryOf(w, p)'
      BY <1>1, <1>9, <3>3 DEF EntryOf, Place, Waiting
    <3>5. p.base # base
      <4>1. p.base \in Nat /\ p.len \in Nat \ {0} /\ Disjoint(p, o)
        BY <1>10 DEF Core, ObjectsOK
      <4> QED
        BY <4>1, <1>2, <1>7 DEF Disjoint
    <3> QED
      BY <3>1, <3>2, <3>4, <3>5, <1>1, <1>9 DEF Owned
  <2>2. EntryOf(Entry(tbl, n), o)' /\ o \in objs'
    BY <1>1, <1>6, <1>7, <1>9 DEF EntryOf, Place, Waiting
  <2>3. site \notin tracked'
    BY <1>1
  <2>4. ~Promoted' /\ pc' # "promote"
    BY <1>1 DEF Promoted
  <2>5. \A s \in ValidSlots(tbl') :
           (Entry(tbl', s).tracking <=> Entry(tbl', s).site \in tracked')
           /\ Owned(Entry(tbl, s))'
    BY <2>1, <2>2, <2>3, <1>6, <1>9 DEF Owned
  <2>6. \A s, u \in ValidSlots(tbl') :
            s # u => Distinct(Entry(tbl, s), Entry(tbl, u))'
    <3>1. \A s, u \in ValidSlots(tbl) : s # u =>
             Entry(tbl, s).base # Entry(tbl, u).base /\ Entry(tbl, s).site # Entry(tbl, u).site
      BY <1>13 DEF Core, ShadowOK, Distinct
    <3> QED
      BY <3>1, <2>1, <1>6, <1>9, <1>13, <1>14 DEF Distinct
  <2> QED
    BY <2>4, <2>5, <2>6 DEF ShadowOK
<1> QED
  BY <1>1, <1>3, <1>8, <1>11, <1>12, <1>15, <1>16, <1>17 DEF Core

LEMMA ObjectFacts ==
    ASSUME Core, NEW o \in objs
    PROVE  /\ o.base \in Nat /\ o.len \in Nat \ {0} /\ o.site \in Sites
           /\ o = [base |-> o.base, len |-> o.len, site |-> o.site]
           /\ Hash(o.base, o.len) \in Buckets
           /\ \A p \in objs : p.base = o.base => p = o
<1>1. /\ o.base \in Nat /\ o.len \in Nat \ {0} /\ o.site \in Sites
      /\ o = [base |-> o.base, len |-> o.len, site |-> o.site]
  BY DEF Core, ObjectsOK
<1>2. Hash(o.base, o.len) \in Buckets
  <2>1. \/ Inside(o.base, o.len, young)
        \/ Inside(o.base, o.len, tospace)
        \/ Inside(o.base, o.len, fromspace)
    BY <1>1 DEF Core, ObjectsOK, SpacesOK, Spaces, Within, Inside
  <2>2. /\ young \in Spaces /\ End(young) <= Memory
        /\ tospace \in Spaces /\ End(tospace) <= Memory
        /\ fromspace \in Spaces /\ End(fromspace) <= Memory
    BY DEF Core, SpacesOK
  <2> QED
    BY <1>1, <2>1, <2>2, HashFacts
<1>3. ASSUME NEW p \in objs, p.base = o.base PROVE p = o
  <2>1. p.base \in Nat /\ p.len \in Nat \ {0} /\ (p = o \/ Disjoint(p, o))
    BY DEF Core, ObjectsOK
  <2> QED
    BY <1>1, <1>3, <2>1 DEF Disjoint
<1> QED
  BY <1>1, <1>2, <1>3

(* Outside of a rebasing an entry stands for the place that it names.      *)
LEMMA PlaceFacts ==
    ASSUME pc # "rebase", NEW v
    PROVE  Place(v) = v.base /\ ~Waiting(v)
BY DEF Place, Waiting

LEMMA TrackStep ==
    ASSUME Core, NEW o \in objs, GC_debug_track_allocated(o)
    PROVE  Core' /\ pc' # "fatal"
<1>1. PICK s : s = GC_debug_find_allocated(tbl, o.base, o.len)
  OBVIOUS
<1>2. /\ pc = "run" /\ pc' = "run" /\ Matches(tbl, o.base, o.len) # {}
      /\ tbl' = [tbl EXCEPT ![s[1]][s[2]].tracking = TRUE]
      /\ tracked' = tracked \cup {o.site}
      /\ objs' = objs /\ young' = young /\ tospace' = tospace /\ fromspace' = fromspace
      /\ yused' = yused /\ oused' = oused /\ rebase' = rebase /\ wasReset' = wasReset
  BY <1>1 DEF GC_debug_track_allocated, heap
<1>t. TableOK(tbl)
  BY DEF Core
<1>3. s \in ValidSlots(tbl) /\ Entry(tbl, s).base = o.base /\ Entry(tbl, s).len = o.len
  BY <1>1, <1>2, <1>t, ObjectFacts, FindFacts
<1>4. PICK e : e = Entry(tbl, s)
  OBVIOUS
<1>5. e \in EntryType /\ e.valid = TRUE /\ s \in Slots(tbl) /\ tbl \in TableType
  BY <1>3, <1>4, <1>t, ValidFacts DEF TableOK, TableType
<1> DEFINE w == [e EXCEPT !.tracking = TRUE]
<1>6. w \in EntryType /\ w.valid = TRUE /\ w.base = e.base /\ w.len = e.len
      /\ w.site = e.site /\ w.tracking = TRUE /\ w.marked = e.marked
  BY <1>5 DEF EntryType
<1>7. tbl' = Put(tbl, s, w)
  <2>1. s[1] \in Buckets /\ s[2] \in DOMAIN tbl[s[1]]
    BY <1>5, SlotFacts
  <2> QED
    BY <1>2, <1>4, <1>5, <2>1 DEF Put, Entry, TableType
<1> HIDE DEF w
<1>8. /\ TableOK(tbl') /\ ValidSlots(tbl') = ValidSlots(tbl) /\ Entry(tbl', s) = w
      /\ \A u \in ValidSlots(tbl) : u # s => Entry(tbl', u) = Entry(tbl, u)
  BY <1>3, <1>4, <1>6, <1>7, <1>t, SetFacts
<1>9. SpacesOK' /\ ControlOK' /\ ObjectsOK' /\ RoomOK'
  BY <1>2 DEF Core, SpacesOK, ControlOK, ObjectsOK, RoomOK
<1>10. \A u \in ValidSlots(tbl) : Entry(tbl', u).base = Entry(tbl, u).base
         /\ Entry(tbl', u).len = Entry(tbl, u).len /\ Entry(tbl', u).site = Entry(tbl, u).site
  BY <1>4, <1>6, <1>8
<1>11. EntriesOK'
  BY <1>2, <1>8, <1>10 DEF Core, EntriesOK, Waiting
<1>p. \A u \in ValidSlots(tbl) : Place(Entry(tbl, u)) = Entry(tbl, u).base
        /\ Place(Entry(tbl, u))' = Entry(tbl, u).base
  BY <1>2, <1>10 DEF Place, Waiting
<1>12. CompleteOK'
  <2>1. ASSUME NEW p \in objs
        PROVE  \E u \in ValidSlots(tbl) :
                  Entry(tbl, u).base = p.base /\ Entry(tbl, u).len = p.len
    BY <1>p DEF Core, CompleteOK
  <2>2. objs' = objs
    BY <1>2
  <2> QED
    BY <2>1, <2>2, <1>8, <1>10, <1>p DEF CompleteOK
<1>13. ShadowOK'
  <2> SUFFICES ASSUME ~wasReset PROVE ShadowOK'
    BY <1>2 DEF ShadowOK
  <2>1. e.site = o.site
    <3>1. PICK p \in objs : EntryOf(e, p)
      BY <1>2, <1>3, <1>4 DEF Core, ShadowOK, Owned, Promoted
    <3>2. p.base = o.base
      BY <1>2, <1>3, <1>4, <3>1 DEF EntryOf, Place, Waiting
    <3>3. p = o
      BY <3>2, ObjectFacts
    <3> QED
      BY <3>1, <3>3 DEF EntryOf
  <2>2. \A u, x \in ValidSlots(tbl) :
           u # x => Distinct(Entry(tbl, u), Entry(tbl, x))
    BY DEF Core, ShadowOK
  <2>3. \A u, x \in ValidSlots(tbl') :
           u # x => Distinct(Entry(tbl, u), Entry(tbl, x))'
    BY <1>8, <1>10, <1>p, <2>2 DEF Distinct
  <2>4. ASSUME NEW u \in ValidSlots(tbl)
        PROVE  /\ Entry(tbl', u).tracking <=> Entry(tbl', u).site \in tracked'
               /\ Owned(Entry(tbl, u))'
    <3>0. Owned(Entry(tbl, u))'
      <4>1. Owned(Entry(tbl, u)) /\ ~Promoted
        BY <1>2 DEF Core, ShadowOK, Promoted
      <4>2. PICK p \in objs : EntryOf(Entry(tbl, u), p)
        BY <4>1 DEF Owned
      <4>3. EntryOf(Entry(tbl, u), p)'
        BY <4>2, <1>10, <1>p DEF EntryOf
      <4> QED
        BY <4>3, <1>2 DEF Owned
    <3>1. CASE u = s
      <4>1. Entry(tbl', u).tracking /\ Entry(tbl', u).site \in tracked'
        BY <3>1, <1>2, <1>6, <1>8, <2>1
      <4> QED
        BY <4>1, <3>0
    <3>2. CASE u # s
      <4>1. Entry(tbl, u).site # o.site
        BY <3>2, <2>1, <2>2, <1>3, <1>4 DEF Distinct
      <4>2. Entry(tbl, u).tracking <=> Entry(tbl, u).site \in tracked
        BY DEF Core, ShadowOK
      <4> QED
        BY <3>0, <3>2, <4>1, <4>2, <1>2, <1>8
    <3> QED
      BY <3>1, <3>2
  <2>5. ~Promoted' /\ pc' # "promote"
    BY <1>2 DEF Promoted
  <2> QED
    BY <2>3, <2>4, <2>5, <1>8 DEF ShadowOK
<1> QED
  BY <1>2, <1>8, <1>9, <1>11, <1>12, <1>13 DEF Core

LEMMA ResetStep ==
    ASSUME Core, GC_reset
    PROVE  Core' /\ pc' # "fatal"
<1>1. /\ pc = "run" /\ pc' = "run" /\ tbl' = tbl /\ objs' = {} /\ yused' = 0 /\ oused' = 0
      /\ young' = young /\ tospace' = tospace /\ fromspace' = fromspace
      /\ rebase' = rebase /\ wasReset' = TRUE
  BY DEF GC_reset
<1>2. SpacesOK' /\ ControlOK'
  BY <1>1 DEF Core, SpacesOK, ControlOK, Spaces
<1>3. ObjectsOK' /\ RoomOK' /\ CompleteOK' /\ ShadowOK'
  BY <1>1 DEF ObjectsOK, RoomOK, CompleteOK, ShadowOK
<1>4. EntriesOK'
  BY <1>1 DEF Core, EntriesOK, Waiting
<1> QED
  BY <1>1, <1>2, <1>3, <1>4 DEF Core

(* The objects that are in use of a space start in the space, and those of *)
(* other spaces do not.                                                    *)
LEMMA InSpaceFacts ==
    ASSUME Core, NEW o \in objs
    PROVE  /\ InSpace(o, young) <=> Within(o.base, o.len, young, yused)
           /\ pc # "major" => (InSpace(o, tospace) <=> ~InSpace(o, young))
           /\ InSpace(o, tospace) <=> Within(o.base, o.len, tospace, oused)
           /\ InSpace(o, fromspace) <=>
                 pc = "major" /\ Inside(o.base, o.len, fromspace)
<1>1. o.base \in Nat /\ o.len \in Nat \ {0}
  BY ObjectFacts
<1>2. \/ Within(o.base, o.len, young, yused)
      \/ Within(o.base, o.len, tospace, oused)
      \/ pc = "major" /\ Inside(o.base, o.len, fromspace)
  BY DEF Core, ObjectsOK
<1> QED
  BY <1>1, <1>2 DEF Core, SpacesOK, Spaces, Apart, End, InSpace, Words, Within, Inside

LEMMA MinorFreeStep ==
    ASSUME Core, GC_minor_free
    PROVE  Core' /\ pc' # "fatal"
<1>1. /\ pc = "run" /\ pc' = "run" /\ tbl' = tbl /\ yused' = 0 /\ oused' = oused
      /\ objs' = {o \in objs : ~InSpace(o, young)}
      /\ young' = young /\ tospace' = tospace /\ fromspace' = fromspace
      /\ rebase' = rebase /\ wasReset' = TRUE
  BY DEF GC_minor_free
<1>2. SpacesOK' /\ ControlOK'
  BY <1>1 DEF Core, SpacesOK, ControlOK, Spaces
<1>3. \A o \in objs' : o \in objs /\ Within(o.base, o.len, tospace, oused)
  BY <1>1, InSpaceFacts
<1>4. ObjectsOK'
  BY <1>1, <1>3 DEF Core, ObjectsOK
<1>5. RoomOK' /\ ShadowOK'
  BY <1>1 DEF RoomOK, ShadowOK
<1>6. EntriesOK' /\ CompleteOK'
  BY <1>1, <1>3 DEF Core, EntriesOK, CompleteOK, Place, Waiting
<1> QED
  BY <1>1, <1>2, <1>4, <1>5, <1>6 DEF Core

-----------------------------------------------------------------------------
(* Collection.                                                             *)

(* The words of the objects in the first n words of a space are at most n. *)
LEMMA OccupiedBound ==
    ASSUME Core, NEW space \in Spaces, NEW n \in Nat,
           \A o \in objs : InSpace(o, space) => Within(o.base, o.len, space, n)
    PROVE  IsFiniteSet(Occupied(space)) /\ Cardinality(Occupied(space)) <= n
<1> DEFINE W == space.base .. (space.base + n - 1)
<1>1. Occupied(space) \in SUBSET W
  <2> SUFFICES ASSUME NEW o \in objs, InSpace(o, space), NEW w \in Words(o.base, o.len)
               PROVE  w \in W
    BY DEF Occupied
  <2>1. o.base \in Nat /\ o.len \in Nat
    BY ObjectFacts
  <2> QED
    BY <2>1 DEF Within, Words, Spaces
<1>2. IsFiniteSet(W) /\ Cardinality(W) = n
  <2>1. PICK a, b \in Int : a = space.base /\ b = space.base + n - 1
    BY DEF Spaces
  <2>2. IsFiniteSet(a .. b) /\ Cardinality(a .. b) = IF a > b THEN 0 ELSE b - a + 1
    BY FS_Interval
  <2>3. n = IF a > b THEN 0 ELSE b - a + 1
    BY <2>1
  <2> QED
    BY <2>1, <2>2, <2>3
<1>3. IsFiniteSet(Occupied(space)) /\ Cardinality(Occupied(space)) <= Cardinality(W)
  BY <1>1, <1>2, FS_Subset
<1> QED
  BY <1>2, <1>3

(* A collection begins with all marks cleared.                             *)
LEMMA Cleared ==
    ASSUME Core, tbl' = GC_debug_begin_marking(tbl)
    PROVE  /\ TableOK(tbl') /\ ValidSlots(tbl') = ValidSlots(tbl)
           /\ \A s \in ValidSlots(tbl) :
                 LET v == Entry(tbl, s)
                     w == Entry(tbl', s) IN
                 /\ w.base = v.base /\ w.len = v.len /\ w.site = v.site
                 /\ w.tracking = v.tracking /\ w.marked = FALSE
<1>1. TableOK(tbl)
  BY DEF Core
<1>2. /\ TableOK(tbl') /\ ValidSlots(tbl') = ValidSlots(tbl)
      /\ \A s \in ValidSlots(tbl) :
            Entry(tbl', s) = [Entry(tbl, s) EXCEPT !.marked = FALSE]
  BY <1>1, BeginMarkingFacts DEF Changed
<1>3. \A s \in ValidSlots(tbl) : Entry(tbl, s) \in EntryType
  BY <1>1, ValidFacts
<1>4. \A v \in EntryType : LET w == [v EXCEPT !.marked = FALSE] IN
                 /\ w.base = v.base /\ w.len = v.len /\ w.site = v.site
                 /\ w.tracking = v.tracking /\ w.marked = FALSE
  BY DEF EntryType
<1> QED
  BY <1>2, <1>3, <1>4

LEMMA BeginPromoteStep ==
    ASSUME Core, BeginPromote
    PROVE  Core' /\ pc' # "fatal"
<1>1. /\ pc = "run" /\ tbl' = GC_debug_begin_marking(tbl)
      /\ pc' = (IF tospace.len - oused < yused THEN "run" ELSE "promote")
      /\ objs' = objs /\ young' = young /\ tospace' = tospace /\ fromspace' = fromspace
      /\ yused' = yused /\ oused' = oused /\ rebase' = rebase /\ wasReset' = wasReset
      /\ tracked' = tracked
  BY DEF BeginPromote, heap
<1>2. pc' \in {"run", "promote"}
  BY <1>1
<1>3. /\ TableOK(tbl') /\ ValidSlots(tbl') = ValidSlots(tbl)
      /\ \A s \in ValidSlots(tbl) :
            /\ Entry(tbl', s).base = Entry(tbl, s).base /\ Entry(tbl', s).len = Entry(tbl, s).len
            /\ Entry(tbl', s).site = Entry(tbl, s).site /\ Entry(tbl', s).marked = FALSE
            /\ Entry(tbl', s).tracking = Entry(tbl, s).tracking
            /\ Place(Entry(tbl, s)) = Entry(tbl, s).base
            /\ Place(Entry(tbl, s))' = Entry(tbl, s).base
  <2>1. \A s \in ValidSlots(tbl) : Place(Entry(tbl, s)) = Entry(tbl, s).base
            /\ Place(Entry(tbl, s))' = Entry(tbl', s).base
    BY <1>1 DEF Place, Waiting
  <2> QED
    BY <1>1, <2>1, Cleared
<1>4. /\ pc = "run" /\ objs' = objs /\ young' = young /\ tospace' = tospace
      /\ fromspace' = fromspace /\ yused' = yused /\ oused' = oused
      /\ rebase' = rebase /\ wasReset' = wasReset /\ tracked' = tracked
  BY <1>1
<1>5. SpacesOK' /\ ControlOK' /\ ObjectsOK'
  BY <1>2, <1>4 DEF Core, SpacesOK, ControlOK, ObjectsOK, Pcs
<1>6. RoomOK'
  <2>1. young \in Spaces /\ yused \in Nat /\ oused \in Nat /\ tospace.len \in Nat
    BY DEF Core, SpacesOK, Spaces
  <2>2. IsFiniteSet(Occupied(young)) /\ Cardinality(Occupied(young)) <= yused
    BY <2>1, InSpaceFacts, OccupiedBound
  <2>3. Cardinality(Occupied(young)) \in Nat
    BY <2>2, FS_CardinalityType
  <2>4. Occupied(young)' = Occupied(young)
    BY <1>4 DEF Occupied, InSpace
  <2>5. pc' = "promote" => oused + yused <= tospace.len
    BY <1>1, <2>1
  <2> QED
    BY <1>2, <1>4, <2>1, <2>2, <2>3, <2>4, <2>5 DEF RoomOK
<1>7. EntriesOK'
  BY <1>2, <1>3, <1>4 DEF Core, EntriesOK, Waiting
<1>8. CompleteOK'
  BY <1>3, <1>4 DEF Core, CompleteOK
<1>9. ShadowOK'
  <2> SUFFICES ASSUME ~wasReset PROVE ShadowOK'
    BY <1>4 DEF ShadowOK
  <2>1. ASSUME NEW s \in ValidSlots(tbl) PROVE Owned(Entry(tbl, s))'
    <3>1. PICK o \in objs : EntryOf(Entry(tbl, s), o)
      BY <1>4 DEF Core, ShadowOK, Owned, Promoted
    <3> QED
      BY <3>1, <1>3, <1>4 DEF Owned, EntryOf
  <2>2. \A s, u \in ValidSlots(tbl) : s # u => Distinct(Entry(tbl, s), Entry(tbl, u))'
    BY <1>3 DEF Core, ShadowOK, Distinct
  <2>3. \A s \in ValidSlots(tbl) : Entry(tbl', s).tracking <=> Entry(tbl', s).site \in tracked'
    BY <1>3, <1>4 DEF Core, ShadowOK
  <2> QED
    BY <1>3, <2>1, <2>2, <2>3 DEF ShadowOK
<1> QED
  BY <1>2, <1>3, <1>5, <1>6, <1>7, <1>8, <1>9 DEF Core

LEMMA EndCopyYoungStep ==
    ASSUME Core, EndCopyYoung
    PROVE  Core' /\ pc' # "fatal"
<1>1. /\ pc = "promote" /\ pc' = "promoted" /\ tbl' = tbl /\ yused' = 0 /\ oused' = oused
      /\ objs' = {o \in objs : ~InSpace(o, young)}
      /\ young' = young /\ tospace' = tospace /\ fromspace' = fromspace
      /\ rebase' = rebase /\ wasReset' = wasReset /\ tracked' = tracked
  BY DEF EndCopyYoung
<1>2. SpacesOK' /\ ControlOK'
  BY <1>1 DEF Core, SpacesOK, ControlOK, Spaces, Pcs
<1>3. \A o \in objs' : o \in objs /\ Within(o.base, o.len, tospace, oused)
  BY <1>1, InSpaceFacts
<1>4. ObjectsOK'
  BY <1>1, <1>3 DEF Core, ObjectsOK
<1>5. RoomOK'
  BY <1>1 DEF RoomOK
<1>6. EntriesOK' /\ CompleteOK'
  BY <1>1, <1>3 DEF Core, EntriesOK, CompleteOK, Place, Waiting
<1>7. ShadowOK'
  <2> SUFFICES ASSUME ~wasReset PROVE ShadowOK'
    BY <1>1 DEF ShadowOK
  <2>1. ASSUME NEW s \in ValidSlots(tbl) PROVE Owned(Entry(tbl, s))'
    <3>1. PICK o \in objs : EntryOf(Entry(tbl, s), o)
      BY <1>1 DEF Core, ShadowOK, Owned, Promoted
    <3>2. CASE ~InSpace(o, young)
      BY <3>1, <3>2, <1>1 DEF Owned, EntryOf, Place, Waiting
    <3>3. CASE InSpace(o, young)
      <4>1. Within(o.base, o.len, young, yused)
        BY <3>3, InSpaceFacts
      <4>2. Entry(tbl, s).base = o.base /\ Entry(tbl, s).len = o.len
        BY <3>1, <1>1 DEF EntryOf, Place, Waiting
      <4>3. Inside(o.base, o.len, young)
        BY <4>1, ObjectFacts DEF Within, Inside, Core, SpacesOK, Spaces
      <4> QED
        BY <4>2, <4>3, <1>1 DEF Owned, Promoted
    <3> QED
      BY <3>2, <3>3
  <2> QED
    BY <1>1, <2>1 DEF Core, ShadowOK, Distinct, Place, Waiting, Promoted
<1> QED
  BY <1>1, <1>2, <1>4, <1>5, <1>6, <1>7 DEF Core

LEMMA BeginMajorStep ==
    ASSUME Core, BeginMajor
    PROVE  Core' /\ pc' # "fatal"
<1>1. /\ pc = "promoted" /\ pc' = "major" /\ tbl' = GC_debug_begin_marking(tbl)
      /\ tospace' = fromspace /\ fromspace' = tospace /\ oused' = 0
      /\ objs' = objs /\ young' = young /\ yused' = yused
      /\ rebase' = rebase /\ wasReset' = wasReset /\ tracked' = tracked
  BY DEF BeginMajor
<1>2. yused = 0
  BY <1>1 DEF Core, ControlOK
<1>3. /\ TableOK(tbl') /\ ValidSlots(tbl') = ValidSlots(tbl)
      /\ \A s \in ValidSlots(tbl) :
            /\ Entry(tbl', s).base = Entry(tbl, s).base /\ Entry(tbl', s).len = Entry(tbl, s).len
            /\ Entry(tbl', s).site = Entry(tbl, s).site /\ Entry(tbl', s).marked = FALSE
            /\ Entry(tbl', s).tracking = Entry(tbl, s).tracking
            /\ Place(Entry(tbl, s)) = Entry(tbl, s).base
            /\ Place(Entry(tbl, s))' = Entry(tbl, s).base
  <2>1. \A s \in ValidSlots(tbl) : Place(Entry(tbl, s)) = Entry(tbl, s).base
            /\ Place(Entry(tbl, s))' = Entry(tbl', s).base
    BY <1>1 DEF Place, Waiting
  <2> QED
    BY <1>1, <2>1, Cleared
<1>4. /\ pc = "promoted" /\ pc' = "major"
      /\ tospace' = fromspace /\ fromspace' = tospace /\ oused' = 0
      /\ objs' = objs /\ young' = young /\ yused' = yused
      /\ rebase' = rebase /\ wasReset' = wasReset /\ tracked' = tracked
  BY <1>1
<1>5. SpacesOK' /\ ControlOK'
  BY <1>2, <1>4 DEF Core, SpacesOK, ControlOK, Spaces, Pcs, Apart
<1>6. \A o \in objs : Within(o.base, o.len, tospace, oused) /\ Inside(o.base, o.len, tospace)
  <2> SUFFICES ASSUME NEW o \in objs
               PROVE  Within(o.base, o.len, tospace, oused) /\ Inside(o.base, o.len, tospace)
    OBVIOUS
  <2>1. o.base \in Nat /\ o.len \in Nat \ {0}
    BY ObjectFacts
  <2>2. Within(o.base, o.len, young, yused) \/ Within(o.base, o.len, tospace, oused)
    BY <1>4 DEF Core, ObjectsOK
  <2> QED
    BY <1>2, <2>1, <2>2 DEF Within, Inside, Core, SpacesOK, Spaces
<1>7. ObjectsOK'
  BY <1>4, <1>6 DEF Core, ObjectsOK
<1>8. RoomOK'
  <2>1. tospace \in Spaces /\ oused \in Nat /\ tospace.len \in Nat
        /\ oused <= tospace.len /\ fromspace.len = tospace.len
    BY DEF Core, SpacesOK, Spaces
  <2>2. IsFiniteSet(Occupied(tospace)) /\ Cardinality(Occupied(tospace)) <= oused
    BY <2>1, <1>6, OccupiedBound
  <2>3. Cardinality(Occupied(tospace)) \in Nat
    BY <2>2, FS_CardinalityType
  <2>4. Occupied(fromspace)' = Occupied(tospace)
    BY <1>4 DEF Occupied, InSpace
  <2> QED
    BY <1>4, <2>1, <2>2, <2>3, <2>4 DEF RoomOK
<1>9. EntriesOK'
  BY <1>3, <1>4 DEF Core, EntriesOK, Waiting
<1>10. CompleteOK'
  <2> QED
    BY <1>3, <1>4 DEF Core, CompleteOK
<1>11. ShadowOK'
  <2> SUFFICES ASSUME ~wasReset PROVE ShadowOK'
    BY <1>4 DEF ShadowOK
  <2>1. ASSUME NEW s \in ValidSlots(tbl) PROVE Owned(Entry(tbl, s))'
    <3>1. CASE \E o \in objs : EntryOf(Entry(tbl, s), o)
      BY <3>1, <1>3, <1>4 DEF Owned, EntryOf
    <3>2. CASE Inside(Entry(tbl, s).base, Entry(tbl, s).len, young)
      BY <3>2, <1>3, <1>4 DEF Owned, Promoted
    <3> QED
      BY <3>1, <3>2 DEF Core, ShadowOK, Owned
  <2>2. \A s, u \in ValidSlots(tbl) : s # u => Distinct(Entry(tbl, s), Entry(tbl, u))'
    BY <1>3 DEF Core, ShadowOK, Distinct
  <2>3. \A s \in ValidSlots(tbl) : Entry(tbl', s).tracking <=> Entry(tbl', s).site \in tracked'
    BY <1>3, <1>4 DEF Core, ShadowOK
  <2> QED
    BY <1>3, <2>1, <2>2, <2>3 DEF ShadowOK
<1> QED
  BY <1>3, <1>4, <1>5, <1>7, <1>8, <1>9, <1>10, <1>11 DEF Core

(* The sweep of the space of a collection.                                 *)
LEMMA Swept ==
    ASSUME Core, NEW space, tbl' = GC_debug_end_marking(tbl, space)
    PROVE  /\ TableOK(tbl')
           /\ ValidSlots(tbl') = {s \in ValidSlots(tbl) : ~Unmarked(Entry(tbl, s), space)}
           /\ \A s \in ValidSlots(tbl') : s \in ValidSlots(tbl) /\ Entry(tbl', s) = Entry(tbl, s)
BY EndMarkingFacts DEF Core

LEMMA EndMajorStep ==
    ASSUME Core, EndMajor
    PROVE  Core' /\ pc' # "fatal"
<1>1. /\ pc = "major" /\ pc' = "promoted" /\ tbl' = GC_debug_end_marking(tbl, fromspace)
      /\ objs' = {o \in objs : ~InSpace(o, fromspace)}
      /\ young' = young /\ tospace' = tospace /\ fromspace' = fromspace
      /\ yused' = yused /\ oused' = oused
      /\ rebase' = rebase /\ wasReset' = wasReset /\ tracked' = tracked
  BY DEF EndMajor
<1>2. /\ TableOK(tbl')
      /\ ValidSlots(tbl') = {s \in ValidSlots(tbl) : ~Unmarked(Entry(tbl, s), fromspace)}
      /\ \A s \in ValidSlots(tbl') : s \in ValidSlots(tbl) /\ Entry(tbl', s) = Entry(tbl, s)
  BY <1>1, Swept
<1>3. /\ pc = "major" /\ pc' = "promoted"
      /\ objs' = {o \in objs : ~InSpace(o, fromspace)}
      /\ young' = young /\ tospace' = tospace /\ fromspace' = fromspace
      /\ yused' = yused /\ oused' = oused
      /\ rebase' = rebase /\ wasReset' = wasReset /\ tracked' = tracked
  BY <1>1
<1>4. SpacesOK' /\ ControlOK'
  BY <1>3 DEF Core, SpacesOK, ControlOK, Pcs
<1>5. \A o \in objs' : o \in objs /\ Within(o.base, o.len, tospace, oused)
  <2> SUFFICES ASSUME NEW o \in objs, ~InSpace(o, fromspace)
               PROVE  Within(o.base, o.len, tospace, oused)
    BY <1>3
  <2>1. o.base \in Nat /\ o.len \in Nat \ {0}
    BY ObjectFacts
  <2>2. Within(o.base, o.len, young, yused) \/ Within(o.base, o.len, tospace, oused)
    BY <1>3, InSpaceFacts DEF Core, ObjectsOK
  <2>3. yused = 0 /\ young.base \in Nat
    BY <1>3 DEF Core, ControlOK, SpacesOK, Spaces
  <2> QED
    BY <2>1, <2>2, <2>3 DEF Within
<1>6. ObjectsOK'
  BY <1>3, <1>5 DEF Core, ObjectsOK
<1>7. RoomOK'
  BY <1>3 DEF RoomOK
<1>8. \A s \in ValidSlots(tbl) : Place(Entry(tbl, s)) = Entry(tbl, s).base
  BY <1>3 DEF Place, Waiting
<1>9. \A s \in ValidSlots(tbl') : Place(Entry(tbl, s))' = Entry(tbl, s).base
  BY <1>2, <1>3 DEF Place, Waiting
<1>10. ASSUME NEW s \in ValidSlots(tbl'), NEW v, v = Entry(tbl, s)
       PROVE  Inside(v.base, v.len, young) \/ Inside(v.base, v.len, tospace)
  <2>1. ~Unmarked(v, fromspace) /\ s \in ValidSlots(tbl)
    BY <1>2, <1>10
  <2>2. v \in EntryType
    BY <2>1, <1>10, ValidFacts DEF Core
  <2>3. v.base \in Nat /\ v.len \in Nat
    BY <2>2 DEF EntryType
  <2>4. ~(~v.marked /\ Inside(v.base, v.len, fromspace))
    BY <2>1, <2>3 DEF Unmarked, Inside, Within, End, Core, SpacesOK, Spaces
  <2> QED
    BY <2>1, <2>4, <1>3, <1>10 DEF Core, EntriesOK, Waiting
<1>11. EntriesOK'
  BY <1>2, <1>3, <1>10 DEF EntriesOK
<1>12. CompleteOK'
  <2> SUFFICES ASSUME NEW o \in objs'
               PROVE  \E s \in ValidSlots(tbl') :
                          Entry(tbl, s).base = o.base /\ Entry(tbl, s).len = o.len
    BY <1>2, <1>9 DEF CompleteOK
  <2>1. PICK s \in ValidSlots(tbl) : Entry(tbl, s).base = o.base /\ Entry(tbl, s).len = o.len
    BY <1>5, <1>8 DEF Core, CompleteOK
  <2>2. o.base \in Nat /\ o.len \in Nat \ {0} /\ Within(o.base, o.len, tospace, oused)
    BY <1>5, ObjectFacts
  <2>3. ~(fromspace.base <= o.base /\ o.base <= End(fromspace))
    BY <2>2 DEF Within, Core, SpacesOK, Spaces, Apart, End
  <2> QED
    BY <2>1, <2>3, <1>2 DEF Unmarked
<1>13. ShadowOK'
  <2> SUFFICES ASSUME ~wasReset PROVE ShadowOK'
    BY <1>3 DEF ShadowOK
  <2>1. ASSUME NEW s \in ValidSlots(tbl') PROVE Owned(Entry(tbl, s))'
    <3>0. s \in ValidSlots(tbl) /\ Entry(tbl', s) = Entry(tbl, s)
      BY <1>2
    <3>1. CASE Inside(Entry(tbl, s).base, Entry(tbl, s).len, young)
      BY <3>0, <3>1, <1>3 DEF Owned, Promoted
    <3>2. CASE ~Inside(Entry(tbl, s).base, Entry(tbl, s).len, young)
      <4>1. PICK o \in objs : EntryOf(Entry(tbl, s), o)
        BY <3>0, <3>2 DEF Core, ShadowOK, Owned
      <4>2. Entry(tbl, s).base = o.base /\ Entry(tbl, s).len = o.len
        BY <3>0, <4>1, <1>8 DEF EntryOf
      <4>3. Inside(o.base, o.len, tospace)
        BY <4>2, <3>2, <1>10
      <4>4. o.base \in Nat /\ o.len \in Nat \ {0}
        BY ObjectFacts
      <4>5. ~InSpace(o, fromspace)
        BY <4>3, <4>4 DEF InSpace, Words, Inside, Within, Core, SpacesOK, Spaces, Apart, End
      <4>6. o \in objs'
        BY <4>5, <1>3
      <4> QED
        BY <3>0, <4>1, <4>2, <4>6, <1>9 DEF Owned, EntryOf
    <3> QED
      BY <3>1, <3>2
  <2>2. \A s, u \in ValidSlots(tbl') : s # u => Distinct(Entry(tbl, s), Entry(tbl, u))'
    BY <1>2, <1>8, <1>9 DEF Core, ShadowOK, Distinct
  <2>3. \A s \in ValidSlots(tbl') : Entry(tbl', s).tracking <=> Entry(tbl', s).site \in tracked'
    BY <1>2, <1>3 DEF Core, ShadowOK
  <2>4. \A s \in ValidSlots(tbl') :
           Inside(Entry(tbl', s).base, Entry(tbl', s).len, young') => ~Entry(tbl', s).marked
    BY <1>2, <1>3 DEF Core, ShadowOK, Promoted
  <2> QED
    BY <2>1, <2>2, <2>3, <2>4 DEF ShadowOK
<1> QED
  BY <1>2, <1>3, <1>4, <1>6, <1>7, <1>11, <1>12, <1>13 DEF Core

LEMMA EndPromoteStep ==
    ASSUME Core, EndPromote
    PROVE  Core' /\ pc' # "fatal"
<1>1. /\ pc = "promoted" /\ pc' = "run" /\ tbl' = GC_debug_end_marking(tbl, young)
      /\ objs' = objs /\ young' = young /\ tospace' = tospace /\ fromspace' = fromspace
      /\ yused' = yused /\ oused' = oused
      /\ rebase' = rebase /\ wasReset' = wasReset /\ tracked' = tracked
  BY DEF EndPromote, heap
<1>2. /\ TableOK(tbl')
      /\ ValidSlots(tbl') = {s \in ValidSlots(tbl) : ~Unmarked(Entry(tbl, s), young)}
      /\ \A s \in ValidSlots(tbl') : s \in ValidSlots(tbl) /\ Entry(tbl', s) = Entry(tbl, s)
  BY <1>1, Swept
<1>3. /\ pc = "promoted" /\ pc' = "run"
      /\ objs' = objs /\ young' = young /\ tospace' = tospace /\ fromspace' = fromspace
      /\ yused' = yused /\ oused' = oused
      /\ rebase' = rebase /\ wasReset' = wasReset /\ tracked' = tracked
  BY <1>1
<1>4. SpacesOK' /\ ControlOK'
  BY <1>3 DEF Core, SpacesOK, ControlOK, Pcs
<1>5. ObjectsOK' /\ RoomOK'
  BY <1>3 DEF Core, ObjectsOK, RoomOK
<1>8. \A s \in ValidSlots(tbl) : Place(Entry(tbl, s)) = Entry(tbl, s).base
  BY <1>3 DEF Place, Waiting
<1>9. \A s \in ValidSlots(tbl') : Place(Entry(tbl, s))' = Entry(tbl, s).base
  BY <1>2, <1>3 DEF Place, Waiting
<1>11. EntriesOK'
  BY <1>2, <1>3 DEF Core, EntriesOK, Waiting
<1>12. CompleteOK'
  <2> SUFFICES ASSUME NEW o \in objs
               PROVE  \E s \in ValidSlots(tbl') :
                          Entry(tbl, s).base = o.base /\ Entry(tbl, s).len = o.len
    BY <1>2, <1>3, <1>9 DEF CompleteOK
  <2>1. PICK s \in ValidSlots(tbl) : Entry(tbl, s).base = o.base /\ Entry(tbl, s).len = o.len
    BY <1>8 DEF Core, CompleteOK
  <2>2. o.base \in Nat /\ o.len \in Nat \ {0}
    BY ObjectFacts
  <2>3. Within(o.base, o.len, young, yused) \/ Within(o.base, o.len, tospace, oused)
    BY <1>3 DEF Core, ObjectsOK
  <2>4. yused = 0
    BY <1>3 DEF Core, ControlOK
  <2>5. ~(young.base <= o.base /\ o.base <= End(young))
    BY <2>2, <2>3, <2>4 DEF Within, Core, SpacesOK, Spaces, Apart, End
  <2> QED
    BY <2>1, <2>5, <1>2 DEF Unmarked
<1>13. ShadowOK'
  <2> SUFFICES ASSUME ~wasReset PROVE ShadowOK'
    BY <1>3 DEF ShadowOK
  <2>1. ASSUME NEW s \in ValidSlots(tbl') PROVE Owned(Entry(tbl, s))'
    <3>0. s \in ValidSlots(tbl) /\ Entry(tbl', s) = Entry(tbl, s)
          /\ ~Unmarked(Entry(tbl, s), young)
      BY <1>2
    <3>1. Entry(tbl, s) \in EntryType
      BY <3>0, ValidFacts DEF Core
    <3>2. Entry(tbl, s).base \in Nat /\ Entry(tbl, s).len \in Nat
      BY <3>1 DEF EntryType
    <3>3. ~(~Entry(tbl, s).marked /\ Inside(Entry(tbl, s).base, Entry(tbl, s).len, young))
      BY <3>0, <3>2 DEF Unmarked, Inside, Within, End, Core, SpacesOK, Spaces
    <3>4. PICK o \in objs : EntryOf(Entry(tbl, s), o)
      BY <3>0, <3>3, <1>3 DEF Core, ShadowOK, Owned, Promoted
    <3> QED
      BY <3>0, <3>4, <1>3, <1>8, <1>9 DEF Owned, EntryOf
  <2>2. \A s, u \in ValidSlots(tbl') : s # u => Distinct(Entry(tbl, s), Entry(tbl, u))'
    BY <1>2, <1>8, <1>9 DEF Core, ShadowOK, Distinct
  <2>3. \A s \in ValidSlots(tbl') : Entry(tbl', s).tracking <=> Entry(tbl', s).site \in tracked'
    BY <1>2, <1>3 DEF Core, ShadowOK
  <2>4. ~Promoted' /\ pc' # "promote"
    BY <1>3 DEF Promoted
  <2> QED
    BY <2>1, <2>2, <2>3, <2>4 DEF ShadowOK
<1> QED
  BY <1>2, <1>3, <1>4, <1>5, <1>11, <1>12, <1>13 DEF Core

(* The words that are still to be copied, when an object has been copied.  *)
LEMMA OccupiedLess ==
    ASSUME Core, NEW space \in Spaces, NEW n \in Nat,
           \A p \in objs : InSpace(p, space) => Within(p.base, p.len, space, n),
           NEW o \in objs, InSpace(o, space), NEW x, ~InSpace(x, space),
           objs' = (objs \ {o}) \cup {x}
    PROVE  /\ Cardinality(Occupied(space)) \in Nat /\ o.len <= Cardinality(Occupied(space))
           /\ Cardinality(Occupied(space))' = Cardinality(Occupied(space)) - o.len
<1> DEFINE S == Occupied(space)
           W == Words(o.base, o.len)
<1>1. o.base \in Nat /\ o.len \in Nat \ {0}
  BY ObjectFacts
<1>2. W \subseteq S
  BY DEF Occupied
<1>3. Occupied(space)' = UNION {Words(p.base, p.len) : p \in {q \in objs' : InSpace(q, space)}}
  BY DEF Occupied, InSpace
<1>4. {q \in objs' : InSpace(q, space)} = {q \in objs : InSpace(q, space)} \ {o}
  OBVIOUS
<1>5. \A p \in objs : p # o => Words(p.base, p.len) \cap W = {}
  <2> SUFFICES ASSUME NEW p \in objs, p # o PROVE Words(p.base, p.len) \cap W = {}
    OBVIOUS
  <2>1. p.base \in Nat /\ p.len \in Nat \ {0} /\ Disjoint(p, o)
    BY DEF Core, ObjectsOK
  <2> QED
    BY <1>1, <2>1 DEF Disjoint, Words
<1>6. Occupied(space)' = S \ W
  BY <1>3, <1>4, <1>5 DEF Occupied
<1>7. IsFiniteSet(S)
  BY OccupiedBound
<1>8. S \cap W = W
  BY <1>2
<1>9. Cardinality(W) = o.len
  <2>1. PICK a, b \in Int : a = o.base /\ b = o.base + o.len - 1
    BY <1>1
  <2>2. Cardinality(a .. b) = IF a > b THEN 0 ELSE b - a + 1
    BY FS_Interval
  <2>3. W = a .. b
    BY <2>1 DEF Words
  <2>4. o.len = IF a > b THEN 0 ELSE b - a + 1
    BY <1>1, <2>1
  <2> QED
    BY <2>2, <2>3, <2>4
<1>10. Cardinality(S) \in Nat
  BY <1>7, FS_CardinalityType
<1>11. Cardinality(S \ W) = Cardinality(S) - Cardinality(S \cap W)
  BY <1>7, FS_Difference
<1>12. Cardinality(W) <= Cardinality(S)
  BY <1>2, <1>7, FS_Subset
<1> QED
  BY <1>6, <1>8, <1>9, <1>10, <1>11, <1>12

(* An object of the space that is evacuated is copied.                     *)
LEMMA CopyStep ==
    ASSUME Core, NEW o \in objs, NEW len \in 1 .. o.len, NEW space,
           \/ pc = "promote" /\ space = young
           \/ pc = "major" /\ space = fromspace,
           GC_debug_just_copied(o, len, space)
    PROVE  IInv'
<1>o. o.base \in Nat /\ o.len \in Nat \ {0} /\ o.site \in Sites
  BY ObjectFacts
<1>l. len \in Nat \ {0} /\ len <= o.len
  BY <1>o
<1>t. TableOK(tbl)
  BY DEF Core
<1>0. PICK new : new = tospace.base + oused
  OBVIOUS
<1> DEFINE x == [o EXCEPT !.base = new, !.len = len]
           s == GC_debug_find_allocated(tbl, o.base, len)
<1>1. /\ InSpace(o, space)
      /\ young' = young /\ tospace' = tospace /\ fromspace' = fromspace /\ yused' = yused
      /\ rebase' = rebase /\ wasReset' = wasReset /\ tracked' = tracked
  BY DEF GC_debug_just_copied
<1>2. CASE Matches(tbl, o.base, len) = {}
  <2>1. pc' = "fatal" /\ tbl' = tbl /\ objs' = objs
    BY <1>2 DEF GC_debug_just_copied
  <2>2. TableComplete'
    BY <2>1, CoreComplete DEF TableComplete, Matches
  <2> QED
    BY <2>1, <2>2 DEF IInv
<1>3. CASE Matches(tbl, o.base, len) # {}
  <2>1. /\ tbl' = GC_debug_move_allocation(tbl, s, new, len)
        /\ objs' = (objs \ {o}) \cup {x}
        /\ oused' = oused + len /\ pc' = pc
    BY <1>0, <1>3 DEF GC_debug_just_copied
  <2>2. /\ space \in Spaces /\ End(space) <= Memory /\ space.len \in Nat
        /\ \A p \in objs : InSpace(p, space) => Within(p.base, p.len, space, space.len)
        /\ End(space) < tospace.base \/ End(tospace) < space.base
    <3>1. \A p \in objs : p.base \in Nat /\ p.len \in Nat
      BY ObjectFacts
    <3> QED
      BY <3>1, InSpaceFacts DEF Core, SpacesOK, Spaces, Apart, Within, Inside
  <2>3. Inside(o.base, o.len, space) /\ Inside(o.base, len, space)
    BY <1>1, <1>o, <1>l, <2>2 DEF Within, Inside, Spaces
  <2>4. /\ new \in Nat /\ tospace \in Spaces /\ tospace.len \in Nat /\ oused \in Nat
        /\ End(tospace) <= Memory
        /\ ~(space.base <= new /\ new <= End(space))
    BY <1>0, <2>2 DEF Core, SpacesOK, Spaces, End
  <2>5. /\ x \in [base : Nat, len : Nat \ {0}, site : Sites]
        /\ x.base = new /\ x.len = len /\ x.site = o.site
    <3>1. o \in [base : Nat, len : Nat \ {0}, site : Sites]
      BY DEF Core, ObjectsOK
    <3> QED
      BY <3>1, <1>l, <2>4
  <2> HIDE DEF x, s
  <2>6. ~InSpace(x, space)
    BY <2>2, <2>4, <2>5 DEF InSpace, Words, End, Spaces
  <2>7. /\ Cardinality(Occupied(space)) \in Nat /\ o.len <= Cardinality(Occupied(space))
        /\ Cardinality(Occupied(space))' = Cardinality(Occupied(space)) - o.len
    BY <1>1, <2>1, <2>2, <2>6, OccupiedLess
  <2>8. oused + Cardinality(Occupied(space)) <= tospace.len
    BY DEF Core, RoomOK
  <2>9. oused + len <= tospace.len
    BY <1>o, <1>l, <2>4, <2>7, <2>8
  <2>10. Within(new, len, tospace, oused + len) /\ Inside(new, len, tospace)
    BY <1>0, <1>l, <2>4, <2>9 DEF Within, Inside, Spaces
  <2>11. Hash(new, len) \in Buckets /\ Hash(o.base, len) \in Buckets
    BY <1>l, <1>o, <2>2, <2>3, <2>4, <2>10, HashFacts
  <2>12. s \in ValidSlots(tbl) /\ Entry(tbl, s).base = o.base /\ Entry(tbl, s).len = len
    BY <1>3, <1>t, <2>11, FindFacts DEF s
  <2>13. PICK e, s0 : e = Entry(tbl, s0) /\ s0 = s
    OBVIOUS
  <2>14. e \in EntryType
    BY <2>12, <2>13, <1>t, ValidFacts
  <2> DEFINE w == [e EXCEPT !.base = new, !.len = len, !.marked = TRUE]
  <2>15. w.base = new /\ w.len = len /\ w.site = e.site /\ w.tracking = e.tracking
    BY <2>14 DEF EntryType
  <2>16. TableOK(tbl') /\ MovedEntry(tbl, tbl', s0, w)
    BY <1>t, <1>l, <2>1, <2>4, <2>11, <2>12, <2>13, MoveFacts
  <2> HIDE DEF w
  <2>17. PICK n : /\ n \notin ValidSlots(tbl) \ {s0} /\ n \in ValidSlots(tbl')
                  /\ ValidSlots(tbl') = (ValidSlots(tbl) \ {s0}) \cup {n}
                  /\ Entry(tbl', n) = w
                  /\ \A u \in ValidSlots(tbl) \ {s0} : Entry(tbl', u) = Entry(tbl, u)
    BY <2>16 DEF MovedEntry
  <2>18. /\ objs' = (objs \ {o}) \cup {x} /\ oused' = oused + len /\ pc' = pc
         /\ s0 \in ValidSlots(tbl) /\ e = Entry(tbl, s0) /\ e.base = o.base /\ e.len = len
    BY <2>1, <2>12, <2>13
  <2>c. SpacesOK' /\ ControlOK'
    BY <1>1, <1>l, <2>4, <2>9, <2>18 DEF Core, SpacesOK, ControlOK, OldSpace
  <2>19. \A p \in objs : Disjoint(p, x) /\ Disjoint(x, p)
    <3> SUFFICES ASSUME NEW p \in objs
                 PROVE  p.base + p.len <= new \/ new + len <= p.base
      BY <2>5 DEF Disjoint
    <3>1. p.base \in Nat /\ p.len \in Nat
      BY ObjectFacts
    <3>2. \/ Within(p.base, p.len, young, yused)
          \/ Within(p.base, p.len, tospace, oused)
          \/ Inside(p.base, p.len, fromspace)
      BY DEF Core, ObjectsOK
    <3> QED
      BY <3>1, <3>2, <1>0, <1>l, <2>4, <2>10
         DEF Within, Inside, Core, SpacesOK, Spaces, Apart, End
  <2>20. ObjectsOK'
    <3>1. objs' \subseteq [base : Nat, len : Nat \ {0}, site : Sites]
      BY <2>18, <2>5 DEF Core, ObjectsOK
    <3>2. \A p \in objs : \/ Within(p.base, p.len, young, yused)
                          \/ Within(p.base, p.len, tospace, oused + len)
                          \/ pc = "major" /\ Inside(p.base, p.len, fromspace)
      <4>1. \A p \in objs : p.base \in Nat /\ p.len \in Nat
        BY ObjectFacts
      <4>2. tospace.base \in Nat
        BY <2>4 DEF Spaces
      <4> QED
        BY <4>1, <4>2, <1>l, <2>4 DEF Core, ObjectsOK, Within
    <3>3. \A p, q \in objs' : p = q \/ Disjoint(p, q)
      BY <2>18, <2>19 DEF Core, ObjectsOK
    <3> QED
      BY <3>1, <3>2, <3>3, <2>18, <2>5, <2>10, <1>1 DEF ObjectsOK
  <2>21. RoomOK'
    <3>1. /\ pc = "promote" => Occupied(young)' = Occupied(space)'
          /\ pc = "major" => Occupied(fromspace)' = Occupied(space)'
      BY <1>1 DEF Occupied, InSpace
    <3>2. oused' + Cardinality(Occupied(space))' <= tospace.len
      BY <1>o, <1>l, <2>4, <2>7, <2>8, <2>18
    <3> QED
      BY <3>1, <3>2, <1>1, <2>18 DEF RoomOK
  <2>22. pc # "rebase"
    OBVIOUS
  <2>23. /\ \A u \in ValidSlots(tbl) : Place(Entry(tbl, u)) = Entry(tbl, u).base
         /\ \A u \in ValidSlots(tbl) \ {s0} : Place(Entry(tbl, u))' = Entry(tbl, u).base
         /\ Place(Entry(tbl, n))' = new
    BY <2>15, <2>17, <2>18, <2>22 DEF Place, Waiting
  <2>24. EntriesOK'
    BY <1>1, <2>10, <2>15, <2>17, <2>18, <2>22 DEF Core, EntriesOK, Waiting
  <2>25. CompleteOK'
    <3>1. ASSUME NEW p \in objs, p # o
          PROVE  \E u \in ValidSlots(tbl) \ {s0} :
                    Entry(tbl, u).base = p.base /\ Entry(tbl, u).len = p.len
      <4>1. PICK u \in ValidSlots(tbl) : Entry(tbl, u).base = p.base /\ Entry(tbl, u).len = p.len
        BY <2>23 DEF Core, CompleteOK
      <4>2. p.base # o.base
        BY <3>1, ObjectFacts
      <4> QED
        BY <4>1, <4>2, <2>18
    <3> QED
      BY <3>1, <2>5, <2>15, <2>17, <2>18, <2>23 DEF CompleteOK
  <2>26. ShadowOK'
    <3> SUFFICES ASSUME ~wasReset PROVE ShadowOK'
      BY <1>1 DEF ShadowOK
    <3>p. Promoted' <=> Promoted
      BY <1>1, <2>18 DEF Promoted
    <3>y. young.base \in Nat /\ young.len \in Nat /\ (End(young) < tospace.base \/ End(tospace) < young.base)
      BY DEF Core, SpacesOK, Spaces, Apart
    <3>1. \A u, v \in ValidSlots(tbl) : u # v => Distinct(Entry(tbl, u), Entry(tbl, v))
      BY DEF Core, ShadowOK
    <3>2. EntryOf(e, o)
      <4>1. ~(Promoted /\ Inside(e.base, e.len, young))
        <5>1. CASE pc = "promote"
          BY <5>1 DEF Promoted
        <5>2. CASE pc = "major"
          BY <5>2, <1>o, <1>l, <2>3, <2>18
             DEF Inside, Within, Core, SpacesOK, Spaces, Apart, End
        <5> QED
          BY <5>1, <5>2
      <4>2. PICK p \in objs : EntryOf(e, p)
        BY <4>1, <2>18 DEF Core, ShadowOK, Owned
      <4>3. p.base = o.base
        BY <4>2, <2>18, <2>23 DEF EntryOf
      <4>4. p = o
        BY <4>3, ObjectFacts
      <4> QED
        BY <4>2, <4>4
    <3>3. ASSUME NEW u \in ValidSlots(tbl) \ {s0}
          PROVE  /\ Owned(Entry(tbl, u))'
                 /\ Entry(tbl, u).base # new /\ Entry(tbl, u).site # e.site
      <4>0. Distinct(Entry(tbl, u), e)
        BY <3>1, <2>18
      <4>1. CASE Promoted /\ Inside(Entry(tbl, u).base, Entry(tbl, u).len, young)
        <5>1. Entry(tbl, u) \in EntryType
          BY <1>t, ValidFacts
        <5>2. Entry(tbl, u).base \in Nat /\ Entry(tbl, u).len \in Nat
          BY <5>1 DEF EntryType
        <5>3. Entry(tbl, u).base # new
          BY <4>1, <5>2, <3>y, <1>l, <2>4, <2>10 DEF Inside, Within, End, Spaces
        <5>4. Owned(Entry(tbl, u))'
          BY <4>1, <3>p, <1>1, <2>17 DEF Owned
        <5> QED
          BY <4>0, <5>3, <5>4 DEF Distinct
      <4>2. CASE \E p \in objs : EntryOf(Entry(tbl, u), p)
        <5>1. PICK p \in objs : EntryOf(Entry(tbl, u), p)
          BY <4>2
        <5>2. Entry(tbl, u).base = p.base
          BY <5>1, <2>23 DEF EntryOf
        <5>3. p # o
          BY <4>0, <5>2, <2>18, <2>23 DEF Distinct
        <5>4. p.base # new
          <6>1. p.base \in Nat /\ p.len \in Nat \ {0} /\ Disjoint(p, x)
            BY <2>19, ObjectFacts
          <6> QED
            BY <6>1, <1>l, <2>4, <2>5 DEF Disjoint
        <5>5. Owned(Entry(tbl, u))'
          BY <5>1, <5>2, <5>3, <2>17, <2>18, <2>23 DEF Owned, EntryOf
        <5> QED
          BY <4>0, <5>2, <5>4, <5>5 DEF Distinct
      <4> QED
        BY <4>1, <4>2 DEF Core, ShadowOK, Owned
    <3>4. Owned(Entry(tbl, n))'
      BY <3>2, <2>5, <2>15, <2>17, <2>18, <2>23 DEF Owned, EntryOf
    <3>5. ~Inside(new, len, young)
      BY <3>y, <1>l, <2>4, <2>10 DEF Inside, Within, End, Spaces
    <3>6. \A u \in ValidSlots(tbl') : Owned(Entry(tbl, u))'
      BY <3>3, <3>4, <2>17
    <3>7. \A u, v \in ValidSlots(tbl') : u # v => Distinct(Entry(tbl, u), Entry(tbl, v))'
      <4>1. \A u, v \in ValidSlots(tbl) \ {s0} : u # v =>
               Entry(tbl, u).base # Entry(tbl, v).base /\ Entry(tbl, u).site # Entry(tbl, v).site
        BY <3>1, <2>23 DEF Distinct
      <4> QED
        BY <3>3, <4>1, <2>15, <2>17, <2>23 DEF Distinct
    <3>8. ASSUME NEW u \in ValidSlots(tbl')
          PROVE  /\ Entry(tbl', u).tracking <=> Entry(tbl', u).site \in tracked'
                 /\ pc' = "promote" \/ Promoted' =>
                       (Inside(Entry(tbl', u).base, Entry(tbl', u).len, young')
                            => ~Entry(tbl', u).marked)
      <4>1. CASE u = n
        BY <4>1, <3>5, <1>1, <2>15, <2>17, <2>18 DEF Core, ShadowOK
      <4>2. CASE u # n
        BY <4>2, <3>p, <1>1, <2>17, <2>18 DEF Core, ShadowOK
      <4> QED
        BY <4>1, <4>2
    <3> QED
      BY <3>6, <3>7, <3>8 DEF ShadowOK
  <2> QED
    BY <2>c, <2>16, <2>18, <2>20, <2>21, <2>24, <2>25, <2>26, <2>22 DEF IInv, Core
<1> QED
  BY <1>2, <1>3

-----------------------------------------------------------------------------
(* Growth.                                                                 *)

(* A block that fits is apart from the others.                             *)
LEMMA FitsFacts ==
    ASSUME NEW space, space.base \in Nat \ {0}, space.len \in Nat,
           NEW others, others \subseteq Spaces, Fits(space, others)
    PROVE  End(space) <= Memory /\ \A s \in others : Apart(s, space) /\ Apart(space, s)
<1>1. End(space) \in Block(space)
  BY DEF End, Block, Words
<1>2. End(space) <= Memory
  BY <1>1, DebugAssumption DEF Fits
<1>3. ASSUME NEW s \in others PROVE Apart(s, space)
  <2>1. s.base \in Nat /\ s.len \in Nat
    BY DEF Spaces
  <2>2. Block(s) \cap Block(space) = {}
    BY DEF Fits
  <2>3. ~(s.base \in Block(space)) /\ ~(space.base \in Block(s))
    <3>1. s.base \in Block(s) /\ space.base \in Block(space)
      BY <2>1 DEF Block, Words
    <3> QED
      BY <2>2, <3>1
  <2> QED
    BY <2>1, <2>3 DEF Block, Words, Apart, End
<1> QED
  BY <1>2, <1>3 DEF Apart

(* old has become new; oth is the other space that has objects.            *)
LEMMA BeginRebaseStep ==
    ASSUME Core, NEW old \in Spaces, NEW new \in Spaces, NEW oth \in Spaces,
           \/ /\ pc = "run" /\ old = young /\ oth = tospace
              /\ young' = new /\ tospace' = oth
           \/ /\ pc = "promoted" /\ old = tospace /\ oth = young
              /\ tospace' = new /\ young' = oth,
           SpacesOK', old.len <= new.len,
           Apart(old, new), Apart(old, oth), Apart(new, oth), Apart(old, fromspace'),
           BeginRebase(old, new)
    PROVE  Core' /\ pc' # "fatal"
<1>1. /\ objs' = {MovedFrom(o, old, new) : o \in objs}
      /\ tbl' = ForEachValid(tbl, LAMBDA v : [v EXCEPT !.rebased = FALSE])
      /\ rebase' = [old |-> old.base, size |-> old.len, new |-> new.base,
                    j |-> 0, i |-> 1, back |-> pc]
      /\ pc' = "rebase" /\ yused' = yused /\ oused' = oused
      /\ tracked' = tracked /\ wasReset' = wasReset
  BY DEF BeginRebase
<1>t. TableOK(tbl)
  BY DEF Core
<1>n. /\ old.base \in Nat \ {0} /\ old.len \in Nat /\ new.base \in Nat \ {0} /\ new.len \in Nat
      /\ oth.base \in Nat \ {0} /\ oth.len \in Nat
  BY DEF Spaces
<1>2. /\ TableOK(tbl') /\ ValidSlots(tbl') = ValidSlots(tbl)
      /\ \A s \in ValidSlots(tbl) :
            /\ Entry(tbl', s).base = Entry(tbl, s).base /\ Entry(tbl', s).len = Entry(tbl, s).len
            /\ Entry(tbl', s).site = Entry(tbl, s).site
            /\ Entry(tbl', s).tracking = Entry(tbl, s).tracking
            /\ Entry(tbl', s).marked = Entry(tbl, s).marked
            /\ Entry(tbl', s).rebased = FALSE
            /\ Entry(tbl, s).base \in Nat /\ Entry(tbl, s).len \in Nat \ {0}
  <2>1. /\ TableOK(tbl') /\ ValidSlots(tbl') = ValidSlots(tbl)
        /\ \A s \in ValidSlots(tbl) :
              Entry(tbl', s) = [Entry(tbl, s) EXCEPT !.rebased = FALSE]
    <3>1. PICK t2 : t2 = tbl'
      OBVIOUS
    <3>2. t2 = ForEachValid(tbl, LAMBDA v : [v EXCEPT !.rebased = FALSE])
      BY <3>1, <1>1
    <3>3. TableOK(t2) /\ Changed(tbl, t2, [s \in ValidSlots(tbl) |->
                                              [Entry(tbl, s) EXCEPT !.rebased = FALSE]])
      BY <3>2, <1>t, UnrebasedFacts
    <3> QED
      BY <3>1, <3>3 DEF Changed
  <2>2. \A s \in ValidSlots(tbl) : Entry(tbl, s) \in EntryType
    BY <1>t, ValidFacts
  <2>3. \A v \in EntryType : LET w == [v EXCEPT !.rebased = FALSE] IN
              /\ w.base = v.base /\ w.len = v.len /\ w.site = v.site
              /\ w.tracking = v.tracking /\ w.marked = v.marked /\ w.rebased = FALSE
              /\ v.base \in Nat /\ v.len \in Nat \ {0}
    BY DEF EntryType
  <2> QED
    BY <2>1, <2>2, <2>3
<1>3. /\ objs' = {MovedFrom(o, old, new) : o \in objs}
      /\ rebase'.old = old.base /\ rebase'.size = old.len /\ rebase'.new = new.base
      /\ rebase'.j = 0 /\ rebase'.i = 1 /\ rebase'.back = pc
      /\ pc' = "rebase" /\ yused' = yused /\ oused' = oused
      /\ tracked' = tracked /\ wasReset' = wasReset
      /\ OldSpace'.base = old.base /\ OldSpace'.len = old.len
  BY <1>1 DEF OldSpace
<1>4. ControlOK'
  <2>1. rebase' \in [old : Nat \ {0}, size : Nat, new : Nat \ {0},
                     j : Nat, i : Nat \ {0}, back : {"run", "promoted"}]
    BY <1>1, <1>n
  <2>2. Apart(OldSpace', young') /\ Apart(OldSpace', tospace') /\ Apart(OldSpace', fromspace')
    BY <1>3 DEF Apart, End
  <2>3. pc = "promoted" => yused = 0
    BY DEF Core, ControlOK
  <2> QED
    BY <2>1, <2>2, <2>3, <1>3 DEF ControlOK, Pcs
<1>5. PICK n \in Nat, m \in Nat :
         /\ pc = "run" => n = yused /\ m = oused
         /\ pc = "promoted" => n = oused /\ m = yused
         /\ n <= old.len /\ m <= oth.len
  BY DEF Core, SpacesOK
<1>6. ASSUME NEW o \in objs
      PROVE  /\ o.base \in Nat /\ o.len \in Nat \ {0} /\ o.site \in Sites
             /\ \/ InSpace(o, old) /\ Within(o.base, o.len, old, n)
                                   /\ Inside(o.base, o.len, old)
                \/ ~InSpace(o, old) /\ Within(o.base, o.len, oth, m)
                                    /\ Inside(o.base, o.len, oth)
  <2>1. o.base \in Nat /\ o.len \in Nat \ {0} /\ o.site \in Sites
    BY ObjectFacts
  <2>2. Within(o.base, o.len, old, n) \/ Within(o.base, o.len, oth, m)
    BY <1>5 DEF Core, ObjectsOK
  <2> QED
    BY <2>1, <2>2, <1>5, <1>n DEF Within, Inside, InSpace, Words, Apart, End
<1>7. ASSUME NEW o \in objs, NEW x, x = MovedFrom(o, old, new)
      PROVE  /\ x \in [base : Nat, len : Nat \ {0}, site : Sites]
             /\ x.len = o.len /\ x.site = o.site
             /\ InSpace(o, old) => /\ x.base = o.base - old.base + new.base
                                   /\ Within(x.base, x.len, new, n)
                                   /\ Inside(x.base, x.len, new)
             /\ ~InSpace(o, old) => x.base = o.base
  <2>1. o \in [base : Nat, len : Nat \ {0}, site : Sites]
    BY DEF Core, ObjectsOK
  <2>2. InSpace(o, old) => o.base - old.base + new.base \in Nat
    BY <1>n, <1>6 DEF Within
  <2>3. /\ x \in [base : Nat, len : Nat \ {0}, site : Sites]
        /\ x.len = o.len /\ x.site = o.site
        /\ InSpace(o, old) => x.base = o.base - old.base + new.base
        /\ ~InSpace(o, old) => x.base = o.base
    BY <1>7, <2>1, <2>2 DEF MovedFrom
  <2>4. InSpace(o, old) => Within(x.base, x.len, new, n) /\ Inside(x.base, x.len, new)
    BY <1>5, <1>6, <1>n, <2>3 DEF Within, Inside
  <2> QED
    BY <2>3, <2>4
<1>8. ObjectsOK'
  <2>1. objs' \subseteq [base : Nat, len : Nat \ {0}, site : Sites]
    BY <1>3, <1>7
  <2>2. ASSUME NEW x \in objs'
        PROVE  \/ Within(x.base, x.len, young', yused')
               \/ Within(x.base, x.len, tospace', oused')
    <3>1. PICK o \in objs : x = MovedFrom(o, old, new)
      BY <1>3
    <3>2. Within(x.base, x.len, new, n) \/ Within(x.base, x.len, oth, m)
      BY <3>1, <1>6, <1>7
    <3> QED
      BY <3>2, <1>3, <1>5
  <2>3. ASSUME NEW x \in objs', NEW y \in objs' PROVE x = y \/ Disjoint(x, y)
    <3>1. PICK o \in objs : x = MovedFrom(o, old, new)
      BY <1>3
    <3>2. PICK p \in objs : y = MovedFrom(p, old, new)
      BY <1>3
    <3>3. CASE o = p
      BY <3>1, <3>2, <3>3
    <3>4. CASE o # p
      <4>1. Disjoint(o, p)
        BY <3>4 DEF Core, ObjectsOK
      <4>2. CASE InSpace(o, old) /\ InSpace(p, old)
        BY <3>1, <3>2, <4>1, <4>2, <1>n, <1>6, <1>7 DEF Disjoint
      <4>3. CASE ~InSpace(o, old) /\ ~InSpace(p, old)
        BY <3>1, <3>2, <4>1, <4>3, <1>7 DEF Disjoint
      <4>4. CASE InSpace(o, old) /\ ~InSpace(p, old)
        BY <3>1, <3>2, <4>4, <1>n, <1>6, <1>7 DEF Disjoint, Inside, Within, Apart, End
      <4>5. CASE ~InSpace(o, old) /\ InSpace(p, old)
        BY <3>1, <3>2, <4>5, <1>n, <1>6, <1>7 DEF Disjoint, Inside, Within, Apart, End
      <4> QED
        BY <4>2, <4>3, <4>4, <4>5
    <3> QED
      BY <3>3, <3>4
  <2> QED
    BY <2>1, <2>2, <2>3 DEF ObjectsOK
<1>9. RoomOK'
  BY <1>3 DEF RoomOK
<1>10. ASSUME NEW s \in ValidSlots(tbl), NEW v, v = Entry(tbl, s)
       PROVE  /\ v.base \in Nat /\ v.len \in Nat \ {0}
              /\ Place(v) = v.base
              /\ \/ Inside(v.base, v.len, old) /\ ~Inside(v.base, v.len, oth)
                    /\ Waiting(Entry(tbl, s))'
                    /\ Place(Entry(tbl, s))' = v.base - old.base + new.base
                 \/ Inside(v.base, v.len, oth) /\ ~Inside(v.base, v.len, old)
                    /\ ~Waiting(Entry(tbl, s))' /\ Place(Entry(tbl, s))' = v.base
  <2>1. v.base \in Nat /\ v.len \in Nat \ {0} /\ Place(v) = v.base
    BY <1>2, <1>10 DEF Place, Waiting
  <2>2. Inside(v.base, v.len, old) \/ Inside(v.base, v.len, oth)
    BY <1>10 DEF Core, EntriesOK, Waiting
  <2>3. ~(Inside(v.base, v.len, old) /\ Inside(v.base, v.len, oth))
    BY <2>1, <1>n DEF Inside, Within, Apart, End
  <2>4. Waiting(Entry(tbl, s))' <=> Inside(v.base, v.len, old)
    BY <1>2, <1>3, <1>10 DEF Waiting, Inside, Within
  <2>5. Place(Entry(tbl, s))' = IF Waiting(Entry(tbl, s))' THEN v.base - old.base + new.base
                                ELSE v.base
    BY <1>2, <1>3, <1>10 DEF Place
  <2> QED
    BY <2>1, <2>2, <2>3, <2>4, <2>5
<1>11. EntriesOK'
  <2> SUFFICES ASSUME NEW s \in ValidSlots(tbl)
               PROVE  LET v == Entry(tbl', s) IN
                      \/ Inside(v.base, v.len, oth)
                      \/ Waiting(Entry(tbl, s))' /\ ~v.rebased /\ Ahead(s)'
    BY <1>2 DEF EntriesOK
  <2>1. Ahead(s)'
    <3>1. s[1] \in Buckets /\ s \in Slots(tbl) /\ tbl \in TableType
      BY <1>t, ValidFacts DEF TableOK, TableType
    <3>2. s[2] \in DOMAIN tbl[s[1]] /\ tbl[s[1]] \in Seq(EntryType)
      BY <3>1, SlotFacts DEF TableType
    <3>3. s[1] \in Nat /\ s[2] \in Nat \ {0}
      BY <3>1, <3>2, DebugAssumption DEF Buckets
    <3> QED
      BY <3>3, <1>3 DEF Ahead
  <2> QED
    BY <2>1, <1>2, <1>10
<1>12. CompleteOK'
  <2> SUFFICES ASSUME NEW x \in objs'
               PROVE  \E s \in ValidSlots(tbl) :
                         Place(Entry(tbl, s))' = x.base /\ Entry(tbl, s).len = x.len
    BY <1>2 DEF CompleteOK
  <2>1. PICK o \in objs : x = MovedFrom(o, old, new)
    BY <1>3
  <2>2. PICK s \in ValidSlots(tbl) : Entry(tbl, s).base = o.base /\ Entry(tbl, s).len = o.len
    BY <1>10 DEF Core, CompleteOK
  <2>3. Place(Entry(tbl, s))' = x.base
    BY <2>1, <2>2, <1>6, <1>7, <1>10
  <2> QED
    BY <2>1, <2>2, <2>3, <1>7
<1>13. ShadowOK'
  <2> SUFFICES ASSUME ~wasReset PROVE ShadowOK'
    BY <1>3 DEF ShadowOK
  <2>p. Promoted' <=> Promoted
    BY <1>3 DEF Promoted
  <2>1. ASSUME NEW s \in ValidSlots(tbl) PROVE Owned(Entry(tbl, s))'
    <3>1. CASE Promoted /\ Inside(Entry(tbl, s).base, Entry(tbl, s).len, young)
      <4>1. young' = young
        BY <3>1 DEF Promoted
      <4> QED
        BY <3>1, <4>1, <2>p, <1>2 DEF Owned
    <3>2. CASE \E o \in objs : EntryOf(Entry(tbl, s), o)
      <4>1. PICK o \in objs : EntryOf(Entry(tbl, s), o)
        BY <3>2
      <4>2. PICK x \in objs' : x = MovedFrom(o, old, new)
        BY <1>3
      <4>3. Entry(tbl, s).base = o.base /\ Entry(tbl, s).len = o.len
        BY <4>1, <1>10 DEF EntryOf
      <4>4. Place(Entry(tbl, s))' = x.base
        BY <4>2, <4>3, <1>6, <1>7, <1>10
      <4>5. EntryOf(Entry(tbl, s), x)'
        BY <4>1, <4>2, <4>4, <1>2, <1>7 DEF EntryOf
      <4> QED
        BY <4>5 DEF Owned
    <3> QED
      BY <3>1, <3>2 DEF Core, ShadowOK, Owned
  <2>2. ASSUME NEW s \in ValidSlots(tbl), NEW u \in ValidSlots(tbl), s # u
        PROVE  Distinct(Entry(tbl, s), Entry(tbl, u))'
    <3>1. Distinct(Entry(tbl, s), Entry(tbl, u))
      BY <2>2 DEF Core, ShadowOK
    <3>2. PICK v, w : v = Entry(tbl, s) /\ w = Entry(tbl, u)
      OBVIOUS
    <3>3. v.base # w.base /\ Entry(tbl', s).site # Entry(tbl', u).site
      BY <3>1, <3>2, <1>2, <1>10 DEF Distinct
    <3>4. PICK a, b : a = Place(Entry(tbl, s))' /\ b = Place(Entry(tbl, u))'
      OBVIOUS
    <3>5. /\ v.base \in Nat /\ v.len \in Nat \ {0}
          /\ \/ Inside(v.base, v.len, old) /\ a = v.base - old.base + new.base
             \/ Inside(v.base, v.len, oth) /\ a = v.base
      BY <3>2, <3>4, <1>10
    <3>6. /\ w.base \in Nat /\ w.len \in Nat \ {0}
          /\ \/ Inside(w.base, w.len, old) /\ b = w.base - old.base + new.base
             \/ Inside(w.base, w.len, oth) /\ b = w.base
      BY <3>2, <3>4, <1>10
    <3>7. a # b
      BY <3>3, <3>5, <3>6, <1>n DEF Inside, Within, Apart, End
    <3> QED
      BY <3>3, <3>4, <3>7 DEF Distinct
  <2>3. \A s \in ValidSlots(tbl) : Entry(tbl', s).tracking <=> Entry(tbl', s).site \in tracked'
    BY <1>2, <1>3 DEF Core, ShadowOK
  <2>4. ASSUME NEW s \in ValidSlots(tbl), Promoted',
               Inside(Entry(tbl', s).base, Entry(tbl', s).len, young')
        PROVE  ~Entry(tbl', s).marked
    <3>1. young' = young
      BY <2>4, <2>p DEF Promoted
    <3> QED
      BY <2>4, <3>1, <2>p, <1>2 DEF Core, ShadowOK
  <2> QED
    BY <1>2, <1>3, <2>1, <2>2, <2>3, <2>4 DEF ShadowOK
<1> QED
  BY <1>2, <1>3, <1>4, <1>8, <1>9, <1>11, <1>12, <1>13 DEF Core

LEMMA GrowYoungStep ==
    ASSUME Core, NEW len \in 1 .. MaxWords, GrowYoung(len)
    PROVE  Core' /\ pc' # "fatal"
<1>1. PICK p \in Places : /\ young' = [base |-> p, len |-> len]
                          /\ Fits(young', {young, tospace, fromspace})
  BY DEF GrowYoung
<1>2. /\ pc = "run" /\ len > young.len /\ BeginRebase(young, young')
      /\ tospace' = tospace /\ fromspace' = fromspace
  BY DEF GrowYoung
<1>3. yused' = yused /\ oused' = oused
  BY <1>2 DEF BeginRebase
<1>4. PICK y, old, oth : y = young' /\ old = young /\ oth = tospace
  OBVIOUS
<1>5. /\ y \in Spaces /\ y.base \in Nat \ {0} /\ y.len \in Nat /\ y.len = len
      /\ Fits(y, {young, tospace, fromspace})
  BY <1>1, <1>4, DebugAssumption DEF Spaces
<1>6. /\ young \in Spaces /\ tospace \in Spaces /\ fromspace \in Spaces
      /\ Apart(young, tospace) /\ Apart(young, fromspace)
      /\ young.len \in Nat /\ yused \in 0 .. young.len
  BY DEF Core, SpacesOK, Spaces
<1>7. /\ End(y) <= Memory /\ Apart(young, y) /\ Apart(y, tospace) /\ Apart(y, fromspace)
  BY <1>5, <1>6, FitsFacts
<1>8. yused \in 0 .. y.len /\ young.len <= y.len
  BY <1>2, <1>5, <1>6
<1>9. SpacesOK'
  BY <1>2, <1>3, <1>4, <1>5, <1>7, <1>8 DEF Core, SpacesOK
<1> QED
  BY <1>2, <1>4, <1>5, <1>6, <1>7, <1>8, <1>9, BeginRebaseStep

LEMMA GrowOldStep ==
    ASSUME Core, NEW len \in 1 .. MaxWords, GrowOld(len)
    PROVE  Core' /\ pc' # "fatal"
<1>1. PICK p, q \in Places :
         /\ fromspace' = [base |-> p, len |-> len]
         /\ tospace' = [base |-> q, len |-> len]
         /\ Fits(fromspace', {young, tospace, fromspace})
         /\ Fits(tospace', {young, tospace, fromspace'})
  BY DEF GrowOld
<1>2. /\ pc = "promoted" /\ len > tospace.len /\ BeginRebase(tospace, tospace')
      /\ young' = young
  BY DEF GrowOld
<1>3. yused' = yused /\ oused' = oused
  BY <1>2 DEF BeginRebase
<1>4. PICK f, t, old, oth : f = fromspace' /\ t = tospace' /\ old = tospace /\ oth = young
  OBVIOUS
<1>5. /\ f \in Spaces /\ f.base \in Nat \ {0} /\ f.len \in Nat /\ f.len = len
      /\ t \in Spaces /\ t.base \in Nat \ {0} /\ t.len \in Nat /\ t.len = len
      /\ Fits(f, {young, tospace, fromspace}) /\ Fits(t, {young, tospace, f})
  BY <1>1, <1>4, DebugAssumption DEF Spaces
<1>6. /\ young \in Spaces /\ tospace \in Spaces /\ fromspace \in Spaces
      /\ Apart(young, tospace)
      /\ tospace.len \in Nat /\ oused \in 0 .. tospace.len
  BY DEF Core, SpacesOK, Spaces
<1>7. End(f) <= Memory /\ Apart(young, f) /\ Apart(tospace, f)
  BY <1>5, <1>6, FitsFacts
<1>8. /\ End(t) <= Memory /\ Apart(young, t) /\ Apart(t, young) /\ Apart(tospace, t)
      /\ Apart(t, f)
  BY <1>5, <1>6, FitsFacts
<1>9. oused \in 0 .. t.len /\ tospace.len <= t.len
  BY <1>2, <1>5, <1>6
<1>10. SpacesOK'
  BY <1>2, <1>3, <1>4, <1>5, <1>7, <1>8, <1>9 DEF Core, SpacesOK
<1>11. Apart(tospace, young)
  BY <1>6 DEF Apart
<1> QED
  BY <1>2, <1>4, <1>5, <1>6, <1>7, <1>8, <1>9, <1>10, <1>11, BeginRebaseStep

(* What Core says of the state of a rebasing.                              *)
LEMMA RebaseFacts ==
    ASSUME Core, pc = "rebase"
    PROVE  /\ rebase \in [old : Nat \ {0}, size : Nat, new : Nat \ {0},
                          j : Nat, i : Nat \ {0}, back : {"run", "promoted"}]
           /\ rebase.old \in Nat /\ rebase.size \in Nat /\ rebase.new \in Nat
           /\ rebase.j \in Nat /\ rebase.i \in Nat \ {0}
           /\ \A s \in ValidSlots(tbl) :
                 /\ s = <<s[1], s[2]>> /\ s[1] \in Buckets /\ s[1] \in Nat
                 /\ s[2] \in 1 .. Len(tbl[s[1]])
                 /\ Entry(tbl, s) \in EntryType
<1>t. TableOK(tbl)
  BY DEF Core
<1>1. rebase \in [old : Nat \ {0}, size : Nat, new : Nat \ {0},
                  j : Nat, i : Nat \ {0}, back : {"run", "promoted"}]
  BY DEF Core, ControlOK
<1>2. ASSUME NEW s \in ValidSlots(tbl)
      PROVE  /\ s = <<s[1], s[2]>> /\ s[1] \in Buckets /\ s[1] \in Nat
             /\ s[2] \in 1 .. Len(tbl[s[1]])
             /\ Entry(tbl, s) \in EntryType
  <2>1. s \in Slots(tbl) /\ Entry(tbl, s) \in EntryType /\ s[1] \in Buckets
    BY <1>t, ValidFacts
  <2>2. s = <<s[1], s[2]>> /\ s[2] \in DOMAIN tbl[s[1]]
    BY <2>1, SlotFacts
  <2>3. tbl[s[1]] \in Seq(EntryType)
    BY <2>1, <1>t DEF TableOK
  <2> QED
    BY <2>1, <2>2, <2>3, DebugAssumption DEF Buckets
<1> QED
  BY <1>1, <1>2

(* The loop has gone on, past no entry that has to be moved.               *)
LEMMA CursorStep ==
    ASSUME Core, pc = "rebase", NEW j \in Nat, NEW i \in Nat \ {0},
           rebase' = [rebase EXCEPT !.j = j, !.i = i],
           \A s \in ValidSlots(tbl) :
               Waiting(Entry(tbl, s)) /\ Ahead(s) => j < s[1] \/ (j = s[1] /\ i <= s[2]),
           UNCHANGED <<tbl, heap, pc, tracked, wasReset>>
    PROVE  Core' /\ pc' # "fatal"
<1>1. /\ tbl' = tbl /\ objs' = objs /\ young' = young /\ tospace' = tospace
      /\ fromspace' = fromspace /\ yused' = yused /\ oused' = oused
      /\ pc' = "rebase" /\ tracked' = tracked /\ wasReset' = wasReset
  BY DEF heap
<1>2. /\ rebase' \in [old : Nat \ {0}, size : Nat, new : Nat \ {0},
                      j : Nat, i : Nat \ {0}, back : {"run", "promoted"}]
      /\ rebase'.old = rebase.old /\ rebase'.size = rebase.size /\ rebase'.new = rebase.new
      /\ rebase'.back = rebase.back /\ rebase'.j = j /\ rebase'.i = i
  BY RebaseFacts
<1>3. OldSpace' = OldSpace
  BY <1>2 DEF OldSpace
<1>4. SpacesOK' /\ ControlOK' /\ ObjectsOK' /\ RoomOK'
  BY <1>1, <1>2, <1>3 DEF Core, SpacesOK, ControlOK, ObjectsOK, RoomOK
<1>6. EntriesOK'
  BY <1>1, <1>2, <1>3 DEF Core, EntriesOK, Waiting, Ahead
<1>7. \A s \in ValidSlots(tbl) : Place(Entry(tbl, s))' = Place(Entry(tbl, s))
  BY <1>1, <1>2, <1>3 DEF Waiting, Place
<1>8. CompleteOK'
  BY <1>1, <1>7 DEF Core, CompleteOK
<1>9. Promoted' <=> Promoted
  BY <1>1, <1>2 DEF Promoted
<1>10. \A s \in ValidSlots(tbl) : Owned(Entry(tbl, s)) => Owned(Entry(tbl, s))'
  BY <1>1, <1>7, <1>9 DEF Owned, EntryOf
<1>11. \A s, u \in ValidSlots(tbl) :
          Distinct(Entry(tbl, s), Entry(tbl, u)) => Distinct(Entry(tbl, s), Entry(tbl, u))'
  BY <1>1, <1>7 DEF Distinct
<1>12. ShadowOK'
  BY <1>1, <1>9, <1>10, <1>11 DEF Core, ShadowOK
<1> QED
  BY <1>1, <1>4, <1>6, <1>8, <1>12 DEF Core

LEMMA RebaseBucketStep ==
    ASSUME Core, RebaseBucket
    PROVE  Core' /\ pc' # "fatal"
<1>1. /\ pc = "rebase" /\ rebase.j \in Buckets /\ rebase.i > Len(tbl[rebase.j])
      /\ UNCHANGED <<tbl, heap, pc, tracked, wasReset>>
  BY DEF RebaseBucket
<1>2. rebase.j + 1 \in Nat /\ 1 \in Nat \ {0}
  BY <1>1, RebaseFacts
<1>3. rebase' = [rebase EXCEPT !.j = rebase.j + 1, !.i = 1]
  BY DEF RebaseBucket
<1>4. ASSUME NEW s \in ValidSlots(tbl), Ahead(s) PROVE rebase.j + 1 < s[1] \/ (rebase.j + 1 = s[1] /\ 1 <= s[2])
  <2>1. /\ s[1] \in Nat /\ s[2] \in 1 .. Len(tbl[s[1]])
        /\ rebase.j \in Nat /\ rebase.i \in Nat /\ tbl[s[1]] \in Seq(EntryType)
    BY <1>1, RebaseFacts DEF Core, TableOK
  <2>2. rebase.j # s[1]
    BY <1>1, <1>4, <2>1 DEF Ahead
  <2> QED
    BY <1>4, <2>1, <2>2 DEF Ahead
<1>5. PICK j \in Nat : j = rebase.j + 1
  BY <1>2
<1> QED
  BY <1>1, <1>2, <1>3, <1>4, <1>5, CursorStep

LEMMA EndRebaseStep ==
    ASSUME Core, EndRebase
    PROVE  Core' /\ pc' # "fatal"
<1>1. /\ pc = "rebase" /\ rebase.j = TblSz /\ pc' = rebase.back
      /\ tbl' = tbl /\ objs' = objs /\ young' = young /\ tospace' = tospace
      /\ fromspace' = fromspace /\ yused' = yused /\ oused' = oused
      /\ tracked' = tracked /\ wasReset' = wasReset
  BY DEF EndRebase, heap
<1>2. rebase.back \in {"run", "promoted"} /\ (rebase.back = "promoted" => yused = 0)
  BY <1>1 DEF Core, ControlOK
<1>3. SpacesOK' /\ ControlOK' /\ RoomOK'
  BY <1>1, <1>2 DEF Core, SpacesOK, ControlOK, RoomOK, Pcs
<1>4. ObjectsOK'
  BY <1>1 DEF Core, ObjectsOK
<1>5. ASSUME NEW s \in ValidSlots(tbl)
      PROVE  /\ \/ Inside(Entry(tbl, s).base, Entry(tbl, s).len, young)
                \/ Inside(Entry(tbl, s).base, Entry(tbl, s).len, tospace)
             /\ Place(Entry(tbl, s)) = Entry(tbl, s).base
             /\ Place(Entry(tbl, s))' = Entry(tbl, s).base
  <2>1. s[1] \in Buckets
    BY <1>1, RebaseFacts
  <2>2. ~Ahead(s)
    BY <2>1, <1>1, DebugAssumption DEF Ahead, Buckets
  <2>3. \/ Inside(Entry(tbl, s).base, Entry(tbl, s).len, young)
        \/ Inside(Entry(tbl, s).base, Entry(tbl, s).len, tospace)
    BY <2>2, <1>1 DEF Core, EntriesOK
  <2>4. Entry(tbl, s).base \in Nat /\ Entry(tbl, s).len \in Nat \ {0}
    BY <1>1, RebaseFacts DEF EntryType
  <2>5. ~Waiting(Entry(tbl, s))
    <3>1. Apart(OldSpace, young) /\ Apart(OldSpace, tospace)
          /\ OldSpace.base \in Nat /\ OldSpace.len \in Nat
      BY <1>1, RebaseFacts DEF Core, ControlOK, OldSpace
    <3>2. young.base \in Nat /\ young.len \in Nat /\ tospace.base \in Nat /\ tospace.len \in Nat
      BY DEF Core, SpacesOK, Spaces
    <3> QED
      BY <2>3, <2>4, <3>1, <3>2 DEF Waiting, Inside, Within, Apart, End
  <2> QED
    BY <2>3, <2>5, <1>1, <1>2 DEF Place, Waiting
<1>6. EntriesOK'
  BY <1>1, <1>5 DEF EntriesOK
<1>7. CompleteOK'
  BY <1>1, <1>5 DEF Core, CompleteOK
<1>8. Promoted' <=> Promoted
  BY <1>1, <1>2 DEF Promoted
<1>9. pc' # "promote"
  BY <1>1, <1>2
<1>10. ShadowOK'
  <2>1. \A s \in ValidSlots(tbl) : Owned(Entry(tbl, s)) => Owned(Entry(tbl, s))'
    BY <1>1, <1>5, <1>8 DEF Owned, EntryOf
  <2>2. \A s, u \in ValidSlots(tbl) :
          Distinct(Entry(tbl, s), Entry(tbl, u)) => Distinct(Entry(tbl, s), Entry(tbl, u))'
    BY <1>1, <1>5 DEF Distinct
  <2> QED
    BY <2>1, <2>2, <1>1, <1>8, <1>9 DEF Core, ShadowOK
<1> QED
  BY <1>1, <1>2, <1>3, <1>4, <1>6, <1>7, <1>10 DEF Core

LEMMA RebaseSlotStep ==
    ASSUME Core, RebaseSlot
    PROVE  Core' /\ pc' # "fatal"
<1>1. PICK j, i, s0, e : j = rebase.j /\ i = rebase.i /\ s0 = <<j, i>> /\ e = tbl[j][i]
  OBVIOUS
<1>2. /\ pc = "rebase" /\ j \in Buckets /\ i <= Len(tbl[j])
      /\ tbl' = IF NeedsRebase(e)
                THEN GC_debug_move_allocation([tbl EXCEPT ![j][i].rebased = TRUE], s0,
                                              e.base - rebase.old + rebase.new, e.len)
                ELSE tbl
      /\ rebase' = [rebase EXCEPT !.i = i + 1]
      /\ UNCHANGED <<heap, pc, tracked, wasReset>>
  BY <1>1 DEF RebaseSlot
<1>t. TableOK(tbl) /\ tbl \in TableType
  BY DEF Core, TableOK, TableType
<1>r. /\ rebase \in [old : Nat \ {0}, size : Nat, new : Nat \ {0},
                     j : Nat, i : Nat \ {0}, back : {"run", "promoted"}]
      /\ rebase.old \in Nat /\ rebase.size \in Nat /\ rebase.new \in Nat
      /\ j \in Nat /\ i \in Nat \ {0}
      /\ OldSpace.base = rebase.old /\ OldSpace.len = rebase.size
  BY <1>1, <1>2, RebaseFacts DEF OldSpace
<1>3. /\ s0[1] = j /\ s0[2] = i /\ s0 \in Slots(tbl) /\ Entry(tbl, s0) = e /\ e \in EntryType
  <2>1. tbl[j] \in Seq(EntryType)
    BY <1>2, <1>t DEF TableType
  <2>2. s0[1] = j /\ s0[2] = i /\ s0 = <<s0[1], s0[2]>> /\ i \in DOMAIN tbl[j]
    BY <1>1, <1>2, <1>r, <2>1
  <2>3. s0 \in Slots(tbl)
    BY <1>2, <2>2, SlotFacts
  <2> QED
    BY <1>1, <1>t, <2>2, <2>3, EntryFacts DEF Entry
<1>4. \A s \in ValidSlots(tbl) : /\ s[1] \in Nat /\ s[2] \in Nat
                                 /\ s # s0 => s[1] # j \/ s[2] # i
  <2>1. \A s \in ValidSlots(tbl) : s = <<s[1], s[2]>> /\ s[1] \in Nat /\ s[2] \in Nat
    BY <1>2, RebaseFacts
  <2> QED
    BY <1>1, <2>1
<1>5. e.base \in Nat /\ e.len \in Nat \ {0} /\ e.rebased \in BOOLEAN /\ e.valid \in BOOLEAN
  BY <1>3 DEF EntryType
<1>6. ASSUME NEW s \in ValidSlots(tbl), s # s0, Ahead(s)
      PROVE  j < s[1] \/ (j = s[1] /\ i + 1 <= s[2])
  BY <1>1, <1>4, <1>6, <1>r DEF Ahead
<1>7. CASE ~NeedsRebase(e)
  <2>1. ASSUME NEW s \in ValidSlots(tbl), Waiting(Entry(tbl, s)), Ahead(s)
        PROVE  j < s[1] \/ (j = s[1] /\ i + 1 <= s[2])
    <3>1. CASE s # s0
      BY <3>1, <2>1, <1>6
    <3>2. CASE s = s0
      <4>1. e.valid /\ Inside(e.base, e.len, OldSpace)
        BY <3>2, <2>1, <1>3 DEF Waiting, ValidSlots
      <4>2. ~e.rebased
        <5>1. /\ ~Inside(e.base, e.len, young) /\ ~Inside(e.base, e.len, tospace)
          <6>1. Apart(OldSpace, young) /\ Apart(OldSpace, tospace)
            BY <1>2 DEF Core, ControlOK
          <6>2. /\ young.base \in Nat /\ young.len \in Nat
                /\ tospace.base \in Nat /\ tospace.len \in Nat
            BY DEF Core, SpacesOK, Spaces
          <6> QED
            BY <4>1, <6>1, <6>2, <1>5, <1>r DEF Inside, Within, Apart, End
        <5> QED
          BY <5>1, <3>2, <1>2, <1>3 DEF Core, EntriesOK
      <4>3. rebase.old <= e.base /\ e.base <= rebase.old + rebase.size
        BY <4>1, <1>5, <1>r DEF Inside, Within
      <4> QED
        BY <4>1, <4>2, <4>3, <1>7 DEF NeedsRebase
    <3> QED
      BY <3>1, <3>2
  <2>2. i + 1 \in Nat \ {0} /\ rebase' = [rebase EXCEPT !.j = j, !.i = i + 1]
    <3>1. rebase' = [rebase EXCEPT !.i = i + 1] /\ rebase.j = j
      BY <1>1, <1>2
    <3>2. [rebase EXCEPT !.j = j] = rebase
      BY <3>1, <1>r
    <3>3. [rebase EXCEPT !.j = j, !.i = i + 1] = [[rebase EXCEPT !.j = j] EXCEPT !.i = i + 1]
      OBVIOUS
    <3>4. i + 1 \in Nat \ {0}
      BY <1>r
    <3> QED
      BY <3>1, <3>2, <3>3, <3>4
  <2>3. PICK k \in Nat \ {0} : k = i + 1
    BY <2>2
  <2>4. UNCHANGED <<tbl, heap, pc, tracked, wasReset>>
    BY <1>2, <1>7
  <2> QED
    BY <1>2, <1>r, <2>1, <2>2, <2>3, <2>4, CursorStep
<1>8. CASE NeedsRebase(e)
  <2>1. e.valid /\ rebase.old <= e.base /\ e.base <= rebase.old + rebase.size
    BY <1>8 DEF NeedsRebase
  <2>2. s0 \in ValidSlots(tbl)
    BY <2>1, <1>3 DEF ValidSlots
  <2>n. /\ young \in Spaces /\ tospace \in Spaces
        /\ young.base \in Nat /\ young.len \in Nat /\ tospace.base \in Nat /\ tospace.len \in Nat
        /\ End(young) <= Memory /\ End(tospace) <= Memory
        /\ Apart(OldSpace, young) /\ Apart(OldSpace, tospace) /\ Apart(young, tospace)
    BY <1>2 DEF Core, SpacesOK, Spaces, ControlOK
  <2>3. Inside(e.base, e.len, OldSpace)
    <3>1. ~Inside(e.base, e.len, young) /\ ~Inside(e.base, e.len, tospace)
      BY <2>1, <2>n, <1>5, <1>r DEF Inside, Within, Apart, End
    <3> QED
      BY <3>1, <2>2, <1>2, <1>3 DEF Core, EntriesOK, Waiting
  <2>4. PICK new : new = e.base - rebase.old + rebase.new
    OBVIOUS
  <2>5. /\ new \in Nat
        /\ \/ rebase.back = "run" /\ Inside(new, e.len, young)
           \/ rebase.back = "promoted" /\ Inside(new, e.len, tospace)
    <3>1. rebase.back \in {"run", "promoted"}
      BY <1>r
    <3>2. CASE rebase.back = "run"
      <4>1. rebase.new = young.base /\ rebase.size <= young.len
        BY <3>2, <1>2 DEF Core, ControlOK
      <4> QED
        BY <3>2, <4>1, <2>3, <2>4, <2>n, <1>5, <1>r DEF Inside, Within
    <3>3. CASE rebase.back = "promoted"
      <4>1. rebase.new = tospace.base /\ rebase.size <= tospace.len
        BY <3>3, <1>2 DEF Core, ControlOK
      <4> QED
        BY <3>3, <4>1, <2>3, <2>4, <2>n, <1>5, <1>r DEF Inside, Within
    <3> QED
      BY <3>1, <3>2, <3>3
  <2>6. Hash(new, e.len) \in Buckets
    BY <2>5, <2>n, <1>5, HashFacts
  <2> DEFINE e1 == [e EXCEPT !.rebased = TRUE]
             t1 == Put(tbl, s0, e1)
             w == [e1 EXCEPT !.base = new, !.len = e.len, !.marked = TRUE]
  <2>7. e1 \in EntryType /\ e1.valid = TRUE /\ e1.base = e.base /\ e1.len = e.len
    BY <1>3, <1>5, <2>1 DEF EntryType
  <2>8. w.base = new /\ w.len = e.len /\ w.site = e.site /\ w.tracking = e.tracking
    BY <1>3 DEF EntryType
  <2>9. t1 = [tbl EXCEPT ![j][i].rebased = TRUE]
    <3>1. i \in DOMAIN tbl[j]
      BY <1>3, SlotFacts
    <3> QED
      BY <1>1, <1>2, <1>3, <1>t, <3>1 DEF Put, TableType
  <2>10. tbl' = GC_debug_move_allocation(t1, s0, new, e.len)
    BY <1>2, <1>8, <2>4, <2>9
  <2> HIDE DEF e1, t1
  <2>11. /\ TableOK(t1) /\ ValidSlots(t1) = ValidSlots(tbl) /\ Entry(t1, s0) = e1
         /\ \A u \in ValidSlots(tbl) : u # s0 => Entry(t1, u) = Entry(tbl, u)
    BY <1>3, <1>t, <2>2, <2>7, SetFacts DEF t1
  <2>12. TableOK(tbl') /\ MovedEntry(t1, tbl', s0, w)
    BY <1>5, <2>2, <2>5, <2>6, <2>10, <2>11, MoveFacts
  <2> HIDE DEF w
  <2>13. PICK n : /\ n \notin ValidSlots(tbl) \ {s0} /\ n \in ValidSlots(tbl')
                  /\ ValidSlots(tbl') = (ValidSlots(tbl) \ {s0}) \cup {n}
                  /\ Entry(tbl', n) = w
                  /\ \A u \in ValidSlots(tbl) \ {s0} : Entry(tbl', u) = Entry(tbl, u)
    BY <2>11, <2>12 DEF MovedEntry
  <2>14. /\ objs' = objs /\ young' = young /\ tospace' = tospace
         /\ fromspace' = fromspace /\ yused' = yused /\ oused' = oused
         /\ pc' = "rebase" /\ pc = "rebase" /\ tracked' = tracked /\ wasReset' = wasReset
    BY <1>2 DEF heap
  <2>15. /\ rebase' \in [old : Nat \ {0}, size : Nat, new : Nat \ {0},
                         j : Nat, i : Nat \ {0}, back : {"run", "promoted"}]
         /\ rebase'.old = rebase.old /\ rebase'.size = rebase.size /\ rebase'.new = rebase.new
         /\ rebase'.back = rebase.back /\ rebase'.j = j /\ rebase'.i = i + 1
    <3>1. PICK k \in Nat \ {0} : k = i + 1
      BY <1>r
    <3>2. rebase' = [rebase EXCEPT !.i = k] /\ rebase.j = j
      BY <1>1, <1>2, <3>1
    <3> QED
      BY <3>1, <3>2, <1>r
  <2>16. OldSpace' = OldSpace
    BY <2>15 DEF OldSpace
  <2>17. SpacesOK' /\ ControlOK' /\ ObjectsOK' /\ RoomOK'
    BY <2>14, <2>15, <2>16 DEF Core, SpacesOK, ControlOK, ObjectsOK, RoomOK
  <2>18. ~Inside(new, e.len, OldSpace)
    BY <2>5, <2>n, <1>5, <1>r DEF Inside, Within, Apart, End
  <2>19. /\ Place(e) = new
         /\ Place(Entry(tbl, n))' = new
         /\ \A u \in ValidSlots(tbl) \ {s0} :
               Place(Entry(tbl, u))' = Place(Entry(tbl, u))
    BY <2>3, <2>4, <2>8, <2>13, <2>14, <2>15, <2>16, <2>18 DEF Place, Waiting
  <2>20. EntriesOK'
    <3>1. ASSUME NEW u \in ValidSlots(tbl) \ {s0}
          PROVE  \/ Inside(Entry(tbl, u).base, Entry(tbl, u).len, young)
                 \/ Inside(Entry(tbl, u).base, Entry(tbl, u).len, tospace)
                 \/ /\ Inside(Entry(tbl, u).base, Entry(tbl, u).len, OldSpace)
                    /\ ~Entry(tbl, u).rebased /\ Ahead(u)'
      <4>1. Ahead(u) => Ahead(u)'
        BY <1>6, <2>15 DEF Ahead
      <4> QED
        BY <4>1, <2>14 DEF Core, EntriesOK, Waiting
    <3> QED
      BY <3>1, <2>5, <2>8, <2>13, <2>14, <2>16 DEF EntriesOK, Waiting
  <2>21. CompleteOK'
    <3>1. ASSUME NEW o \in objs
          PROVE  \E u \in ValidSlots(tbl') : Place(Entry(tbl, u))' = o.base
                                             /\ Entry(tbl', u).len = o.len
      <4>1. PICK u \in ValidSlots(tbl) : Place(Entry(tbl, u)) = o.base /\ Entry(tbl, u).len = o.len
        BY DEF Core, CompleteOK
      <4>2. CASE u = s0
        BY <4>1, <4>2, <1>3, <2>8, <2>13, <2>19
      <4>3. CASE u # s0
        BY <4>1, <4>3, <2>13, <2>19
      <4> QED
        BY <4>2, <4>3
    <3> QED
      BY <3>1, <2>14 DEF CompleteOK
  <2>22. ShadowOK'
    <3> SUFFICES ASSUME ~wasReset PROVE ShadowOK'
      BY <2>14 DEF ShadowOK
    <3>p. (Promoted' <=> Promoted) /\ (Promoted <=> rebase.back = "promoted")
      BY <2>14, <2>15 DEF Promoted
    <3>1. \A u, v \in ValidSlots(tbl) : u # v => Distinct(Entry(tbl, u), Entry(tbl, v))
      BY DEF Core, ShadowOK
    <3>2. \A u, v \in ValidSlots(tbl') : u # v => Distinct(Entry(tbl, u), Entry(tbl, v))'
      <4>1. \A u, v \in ValidSlots(tbl) \ {s0} : u # v =>
               /\ Place(Entry(tbl, u)) # Place(Entry(tbl, v))
               /\ Entry(tbl, u).site # Entry(tbl, v).site
        BY <3>1 DEF Distinct
      <4>2. \A u \in ValidSlots(tbl) \ {s0} :
               Place(Entry(tbl, u)) # new /\ Entry(tbl, u).site # e.site
        BY <3>1, <1>3, <2>2, <2>19 DEF Distinct
      <4> QED
        BY <4>1, <4>2, <2>8, <2>13, <2>19 DEF Distinct
    <3>3. ~Inside(e.base, e.len, young)
      BY <2>1, <2>n, <1>5, <1>r DEF Inside, Within, Apart, End
    <3>4. Owned(Entry(tbl, n))'
      <4>1. PICK o \in objs : EntryOf(e, o)
        BY <3>3, <1>3, <2>2 DEF Core, ShadowOK, Owned
      <4> QED
        BY <4>1, <2>8, <2>13, <2>14, <2>19 DEF Owned, EntryOf
    <3>5. ASSUME NEW u \in ValidSlots(tbl) \ {s0} PROVE Owned(Entry(tbl, u))'
      <4>1. Owned(Entry(tbl, u))
        BY DEF Core, ShadowOK
      <4> QED
        BY <4>1, <3>p, <2>13, <2>14, <2>19 DEF Owned, EntryOf
    <3>6. Promoted => ~Inside(new, e.len, young)
      BY <3>p, <2>5, <2>n, <1>5 DEF Inside, Within, Apart, End
    <3>7. ASSUME NEW u \in ValidSlots(tbl')
          PROVE  /\ Entry(tbl', u).tracking <=> Entry(tbl', u).site \in tracked'
                 /\ Owned(Entry(tbl, u))'
                 /\ Promoted' =>
                       (Inside(Entry(tbl', u).base, Entry(tbl', u).len, young')
                            => ~Entry(tbl', u).marked)
      <4>1. CASE u = n
        BY <4>1, <3>p, <3>4, <3>6, <1>3, <2>2, <2>8, <2>13, <2>14 DEF Core, ShadowOK
      <4>2. CASE u # n
        BY <4>2, <3>p, <3>5, <2>13, <2>14 DEF Core, ShadowOK
      <4> QED
        BY <4>1, <4>2
    <3> QED
      BY <3>2, <3>7, <2>14 DEF ShadowOK
  <2> QED
    BY <2>12, <2>14, <2>17, <2>20, <2>21, <2>22 DEF Core
<1> QED
  BY <1>7, <1>8

-----------------------------------------------------------------------------
(* The theorems.                                                           *)

LEMMA InitIInv == Init => IInv
<1> SUFFICES ASSUME Init PROVE Core /\ pc # "fatal"
  BY DEF IInv
<1>1. PICK y, t, f \in Places :
          /\ young = [base |-> y, len |-> YoungWords]
          /\ tospace = [base |-> t, len |-> OldWords]
          /\ fromspace = [base |-> f, len |-> OldWords]
          /\ Fits(young, {tospace, fromspace}) /\ Fits(tospace, {young, fromspace})
          /\ Fits(fromspace, {young, tospace})
  BY DEF Init
<1>2. /\ tbl = [j \in Buckets |-> << >>] /\ objs = {} /\ yused = 0 /\ oused = 0
      /\ pc = "run" /\ wasReset = FALSE
  BY DEF Init
<1>3. /\ young \in Spaces /\ tospace \in Spaces /\ fromspace \in Spaces
      /\ young.base \in Nat \ {0} /\ young.len \in Nat
      /\ tospace.base \in Nat \ {0} /\ tospace.len \in Nat
      /\ fromspace.base \in Nat \ {0} /\ fromspace.len \in Nat
      /\ fromspace.len = tospace.len
  BY <1>1, DebugAssumption DEF Spaces
<1>4. /\ End(young) <= Memory /\ Apart(young, tospace) /\ Apart(young, fromspace)
      /\ End(tospace) <= Memory /\ Apart(tospace, fromspace)
      /\ End(fromspace) <= Memory
  BY <1>1, <1>3, FitsFacts
<1>5. SpacesOK /\ ControlOK /\ ObjectsOK /\ RoomOK
  BY <1>2, <1>3, <1>4 DEF SpacesOK, ControlOK, ObjectsOK, RoomOK, Pcs
<1>6. ValidSlots(tbl) = {}
  BY <1>2 DEF ValidSlots, Slots
<1>7. tbl \in [Buckets -> Seq(EntryType)]
  BY <1>2
<1>8. TableOK(tbl) /\ EntriesOK /\ CompleteOK /\ ShadowOK
  BY <1>2, <1>6, <1>7 DEF TableOK, EntriesOK, CompleteOK, ShadowOK
<1> QED
  BY <1>2, <1>5, <1>8 DEF Core

LEMMA NextIInv == IInv /\ [Next]_vars => IInv'
<1> SUFFICES ASSUME IInv, [Next]_vars PROVE IInv'
  OBVIOUS
<1>1. CASE UNCHANGED vars
  BY <1>1 DEF vars, heap, IInv, TableComplete, Matches, Core, SpacesOK, ControlOK, OldSpace,
              ObjectsOK, RoomOK, Occupied, EntriesOK, CompleteOK, ShadowOK, Owned, EntryOf,
              Distinct, Promoted, Place, Waiting, Ahead
<1>2. CASE Next
  <2>1. pc # "fatal"
    BY <1>2 DEF Next, GC_debug_just_allocated, GC_debug_track_allocated, GC_reset,
                GC_minor_free, BeginPromote, EndCopyYoung, BeginMajor, EndMajor, EndPromote,
                CopyYoung, CopyOld, GrowYoung, GrowOld, RebaseSlot, RebaseBucket, EndRebase
  <2>2. Core
    BY <2>1 DEF IInv
  <2>3. ASSUME Core' /\ pc' # "fatal" PROVE IInv'
    BY <2>3 DEF IInv
  <2>4. ASSUME NEW len \in Sizes, NEW site \in Sites, GC_debug_just_allocated(len, site)
        PROVE  IInv'
    BY <2>2, <2>3, <2>4, AllocateStep
  <2>5. ASSUME NEW o \in objs, GC_debug_track_allocated(o) PROVE IInv'
    BY <2>2, <2>3, <2>5, TrackStep
  <2>6. CASE GC_reset
    BY <2>2, <2>3, <2>6, ResetStep
  <2>7. CASE GC_minor_free
    BY <2>2, <2>3, <2>7, MinorFreeStep
  <2>8. CASE BeginPromote
    BY <2>2, <2>3, <2>8, BeginPromoteStep
  <2>9. CASE EndCopyYoung
    BY <2>2, <2>3, <2>9, EndCopyYoungStep
  <2>10. CASE BeginMajor
    BY <2>2, <2>3, <2>10, BeginMajorStep
  <2>11. CASE EndMajor
    BY <2>2, <2>3, <2>11, EndMajorStep
  <2>12. CASE EndPromote
    BY <2>2, <2>3, <2>12, EndPromoteStep
  <2>13. ASSUME NEW o \in objs, NEW len \in 1 .. o.len, CopyYoung(o, len) PROVE IInv'
    <3>1. PICK space : space = young
      OBVIOUS
    <3>2. pc = "promote" /\ GC_debug_just_copied(o, len, space)
      BY <2>13, <3>1 DEF CopyYoung, GC_debug_just_copied
    <3> QED
      BY <2>2, <3>1, <3>2, CopyStep
  <2>14. ASSUME NEW o \in objs, NEW len \in 1 .. o.len, CopyOld(o, len) PROVE IInv'
    <3>1. PICK space : space = fromspace
      OBVIOUS
    <3>2. pc = "major" /\ GC_debug_just_copied(o, len, space)
      BY <2>14, <3>1 DEF CopyOld, GC_debug_just_copied
    <3> QED
      BY <2>2, <3>1, <3>2, CopyStep
  <2>15. ASSUME NEW len \in 1 .. MaxWords, GrowYoung(len) PROVE IInv'
    BY <2>2, <2>3, <2>15, GrowYoungStep
  <2>16. ASSUME NEW len \in 1 .. MaxWords, GrowOld(len) PROVE IInv'
    BY <2>2, <2>3, <2>16, GrowOldStep
  <2>17. CASE RebaseSlot
    BY <2>2, <2>3, <2>17, RebaseSlotStep
  <2>18. CASE RebaseBucket
    BY <2>2, <2>3, <2>18, RebaseBucketStep
  <2>19. CASE EndRebase
    BY <2>2, <2>3, <2>19, EndRebaseStep
  <2> QED
    BY <1>2, <2>4, <2>5, <2>6, <2>7, <2>8, <2>9, <2>10, <2>11, <2>12, <2>13, <2>14, <2>15,
       <2>16, <2>17, <2>18, <2>19 DEF Next
<1> QED
  BY <1>1, <1>2

LEMMA InvariantHolds == Spec => []IInv
BY InitIInv, NextIInv, PTL DEF Spec

(* Every object has an entry where GC_debug_find_allocated looks for it,   *)
(* through all copies, sweeps, rebasings and resets, for tables of any     *)
(* size and any hash: GC_debug_just_copied never fails for an object that  *)
(* is reached by its whole capability.                                     *)
THEOREM CompleteTheorem == Spec => []TableComplete
<1>1. IInv => TableComplete
  BY CoreComplete DEF IInv
<1> QED
  BY <1>1, InvariantHolds, PTL

(* What GC_debug_end_marking overwrites with a magic value belongs to no   *)
(* object that the collection has kept, even after GC_reset has left       *)
(* entries behind.                                                         *)
THEOREM SweepTheorem == Spec => []SweepHarmless
<1>1. IInv => SweepHarmless
  <2> SUFFICES ASSUME IInv, NEW space, pc \in {"major", "promoted"},
                      space = IF pc = "major" THEN fromspace ELSE young,
                      NEW s \in ValidSlots(tbl), NEW v, v = Entry(tbl, s), Unmarked(v, space),
                      NEW o \in objs, ~InSpace(o, space)
               PROVE  Words(v.base, v.len) \cap Words(o.base, o.len) = {}
    BY DEF SweepHarmless, ValidEntries
  <2>1. Core
    BY DEF IInv
  <2>2. v \in EntryType
    BY <2>1, ValidFacts DEF Core
  <2>3. v.base \in Nat /\ v.len \in Nat \ {0} /\ o.base \in Nat /\ o.len \in Nat \ {0}
    BY <2>1, <2>2, ObjectFacts DEF EntryType
  <2>4. /\ \/ Inside(v.base, v.len, young)
           \/ Inside(v.base, v.len, tospace)
           \/ Inside(v.base, v.len, fromspace)
        /\ pc # "major" => ~Inside(v.base, v.len, fromspace)
                           \/ Inside(v.base, v.len, young) \/ Inside(v.base, v.len, tospace)
    BY <2>1 DEF Core, EntriesOK, Waiting
  <2>5. Within(o.base, o.len, tospace, oused)
    <3>1. yused = 0 /\ young.base \in Nat
      BY <2>1 DEF Core, ControlOK, SpacesOK, Spaces
    <3>2. ~Within(o.base, o.len, young, yused)
      BY <3>1, <2>3 DEF Within
    <3> QED
      BY <3>2, <2>1, InSpaceFacts DEF Core, ObjectsOK
  <2>6. Inside(v.base, v.len, space)
    BY <2>1, <2>3, <2>4 DEF Unmarked, Inside, Within, Core, SpacesOK, Spaces, Apart, End
  <2>7. v.base + v.len <= o.base \/ o.base + o.len <= v.base
    BY <2>1, <2>3, <2>5, <2>6 DEF Inside, Within, Core, SpacesOK, Spaces, Apart, End
  <2> QED
    BY <2>3, <2>7 DEF Words
<1> QED
  BY <1>1, InvariantHolds, PTL

(* Between collections, and as long as nothing was reset, the valid        *)
(* entries are exactly the objects, each once, with its place of           *)
(* allocation and whether it is tracked: no copy, sweep or rebasing        *)
(* loses, doubles or confuses an entry.                                    *)
THEOREM ShadowTheorem == Spec => []ShadowExact
<1>1. IInv => ShadowExact
  <2> SUFFICES ASSUME Core, pc = "run", ~wasReset
               PROVE  ShadowExact
    BY DEF IInv, ShadowExact
  <2> DEFINE obj(s) == [base |-> Entry(tbl, s).base, len |-> Entry(tbl, s).len,
                        site |-> Entry(tbl, s).site]
             V == ValidSlots(tbl)
  <2>1. ASSUME NEW s \in V
        PROVE  /\ obj(s) \in objs
               /\ Entry(tbl, s).tracking = (Entry(tbl, s).site \in tracked)
    <3>1. Entry(tbl, s) \in EntryType
      BY ValidFacts DEF Core
    <3>2. Entry(tbl, s).tracking \in BOOLEAN
      BY <3>1 DEF EntryType
    <3>3. PICK o \in objs : EntryOf(Entry(tbl, s), o)
      BY DEF Core, ShadowOK, Owned, Promoted
    <3>4. obj(s) = [base |-> o.base, len |-> o.len, site |-> o.site]
      BY <3>3 DEF EntryOf, Place, Waiting
    <3>5. obj(s) = o
      BY <3>4, ObjectFacts
    <3>6. Entry(tbl, s).tracking <=> Entry(tbl, s).site \in tracked
      BY DEF Core, ShadowOK
    <3> QED
      BY <3>2, <3>5, <3>6
  <2>2. ASSUME NEW o \in objs
        PROVE  \E s \in V : obj(s) = o
    <3>1. PICK s \in V : Entry(tbl, s).base = o.base
      BY DEF Core, CompleteOK, Place, Waiting
    <3>2. obj(s) \in objs /\ obj(s).base = o.base
      BY <2>1, <3>1
    <3> QED
      BY <3>2, ObjectFacts
  <2>3. ASSUME NEW s \in V, NEW u \in V, s # u
        PROVE  obj(s) # obj(u)
    <3>1. Distinct(Entry(tbl, s), Entry(tbl, u))
      BY <2>3 DEF Core, ShadowOK
    <3> QED
      BY <3>1 DEF Distinct
  <2>4. {[base |-> v.base, len |-> v.len, site |-> v.site,
          tracking |-> v.tracking] : v \in ValidEntries(tbl)}
        = {[base |-> o.base, len |-> o.len, site |-> o.site,
            tracking |-> o.site \in tracked] : o \in objs}
    <3> DEFINE ofEntry(v) == [base |-> v.base, len |-> v.len, site |-> v.site,
                              tracking |-> v.tracking]
               ofObject(o) == [base |-> o.base, len |-> o.len, site |-> o.site,
                               tracking |-> o.site \in tracked]
    <3>1. ASSUME NEW s \in V
          PROVE  ofEntry(Entry(tbl, s)) = ofObject(obj(s))
      BY <2>1
    <3>2. \A v \in ValidEntries(tbl) : \E o \in objs : ofEntry(v) = ofObject(o)
      <4> HIDE DEF ofEntry, ofObject, obj
      <4> QED
        BY <2>1, <3>1, Zenon DEF ValidEntries
    <3>3. \A o \in objs : \E v \in ValidEntries(tbl) : ofEntry(v) = ofObject(o)
      <4> HIDE DEF ofEntry, ofObject, obj
      <4> QED
        BY <2>2, <3>1, Zenon DEF ValidEntries
    <3>4. {ofEntry(v) : v \in ValidEntries(tbl)} = {ofObject(o) : o \in objs}
      <4> HIDE DEF ofEntry, ofObject
      <4> QED
        BY <3>2, <3>3
    <3> QED
      BY <3>4
  <2>5. IsFiniteSet(objs)
    <3> DEFINE at == [o \in objs |-> o.base]
    <3>1. ASSUME NEW o \in objs PROVE o.base \in 0 .. Memory
      <4>1. o.base \in Nat /\ o.len \in Nat \ {0}
        BY ObjectFacts
      <4>2. Within(o.base, o.len, young, yused) \/ Within(o.base, o.len, tospace, oused)
        BY DEF Core, ObjectsOK
      <4>3. /\ young.base \in Nat /\ young.len \in Nat /\ yused \in 0 .. young.len
            /\ tospace.base \in Nat /\ tospace.len \in Nat /\ oused \in 0 .. tospace.len
            /\ End(young) <= Memory /\ End(tospace) <= Memory
        BY DEF Core, SpacesOK, Spaces
      <4> QED
        BY <4>1, <4>2, <4>3, DebugAssumption DEF Within, End
    <3>2. at \in [objs -> 0 .. Memory]
      BY <3>1
    <3>3. \A o, p \in objs : at[o] = at[p] => o = p
      BY ObjectFacts
    <3> HIDE DEF at
    <3>4. at \in Injection(objs, 0 .. Memory)
      BY <3>2, <3>3 DEF Injection, IsInjective
    <3>5. IsFiniteSet(0 .. Memory)
      BY FS_Interval, DebugAssumption
    <3> QED
      BY <3>4, <3>5, FS_Injection
  <2>6. Cardinality(V) = Cardinality(objs)
    <3> DEFINE owner == [s \in V |-> obj(s)]
    <3>1. owner \in [V -> objs]
      BY <2>1
    <3>2. \A s, u \in V : owner[s] = owner[u] => s = u
      BY <2>3
    <3>3. \A o \in objs : \E s \in V : owner[s] = o
      BY <2>2
    <3> HIDE DEF owner, V
    <3>4. owner \in Injection(V, objs) /\ owner \in Surjection(V, objs)
      BY <3>1, <3>2, <3>3 DEF Injection, Surjection, IsInjective
    <3> QED
      BY <3>4, <2>5, FS_Injection
  <2> QED
    BY <2>4, <2>6 DEF ShadowExact
<1> QED
  BY <1>1, InvariantHolds, PTL
=============================================================================
