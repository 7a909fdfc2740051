------------------------------- MODULE GCDebug -------------------------------
(***************************************************************************)
(* The table of allocated objects that a build with                        *)
(* GC_DEBUG_TRACK_ALLOCATIONS keeps beside the heap (gc_debug.c): an entry *)
(* is added when an object is allocated, follows the object when it is     *)
(* copied or its region is moved, and is swept when the object was not     *)
(* copied by a collection of its region.  The sweep also overwrites the    *)
(* memory of the object, so that a wrong entry destroys a live object.     *)
(*                                                                         *)
(* The heap is here what its calls tell the table: the regions' spaces,    *)
(* and the objects with their places.  Which objects a collection reaches, *)
(* in which order, is left open (GCCollect has it).  Addresses and lengths *)
(* are in words.                                                           *)
(***************************************************************************)
EXTENDS Integers, Sequences, FiniteSets

CONSTANTS
    TblSz,          \* GC_DEBUG_TBL_SZ
    Hash(_, _),     \* the hash of a base and a length, below TblSz
    Sites,          \* names for allocations (file and line), each in use once:
                    \* bounds the number of valid entries
    Sizes,          \* the lengths of objects
    YoungWords,     \* initial size of the young region
    OldWords,       \* initial size of each space of the old region
    MaxWords,       \* bound on the size of a space
    Memory,         \* number of words that malloc has
    Places          \* where malloc may put a block

ASSUME DebugAssumption ==
    /\ TblSz \in Nat \ {0}
    /\ Sizes \subseteq Nat \ {0}
    /\ YoungWords \in Nat /\ OldWords \in Nat
    /\ MaxWords \in Nat /\ Memory \in Nat /\ Places \subseteq 1 .. Memory
    /\ \A base, len \in 1 .. Memory : Hash(base, len) \in 0 .. (TblSz - 1)

Buckets == 0 .. (TblSz - 1)

VARIABLES
    tbl,        \* GC_debug_tbl: the entries of each bucket
    objs,       \* the objects: records [base, len, site]
    young,      \* the tospace of the young region: [base, len]
    tospace,    \* of the old region
    fromspace,  \* of the old region
    yused,      \* words in use of the young region
    oused,      \* words in use of the old region
    pc,
    rebase,     \* the arguments of GC_debug_rebase_allocation_entries, its
                \* cursor (bucket j, slot i), and where it returns to
    \* History variables:
    tracked,    \* the sites whose objects the program asked to track
    wasReset    \* GC_reset or GC_minor_free was called

heap == <<objs, young, tospace, fromspace, yused, oused>>
vars == <<tbl, heap, pc, rebase, tracked, wasReset>>

Words(base, len) == base .. (base + len - 1)
End(space) == space.base + space.len
InSpace(o, space) == o.base \in Words(space.base, space.len)

(* Defect: the block of a space is no larger than the space.               *)
BlockOmitsPadding(space) == Words(space.base, space.len)

(* The block of a space: 32 bytes (a word) more than the space.            *)
Block(space) == Words(space.base, space.len + 1)

(* Does a block for space fit beside those of others?                      *)
Fits(space, others) ==
    /\ Block(space) \subseteq 1 .. Memory
    /\ \A s \in others : Block(s) \cap Block(space) = {}

NoRebase == [old |-> 0, size |-> 0, new |-> 0, j |-> 0, i |-> 1, back |-> "run"]

Init ==
    /\ \E y, t, f \in Places :
          /\ young = [base |-> y, len |-> YoungWords]
          /\ tospace = [base |-> t, len |-> OldWords]
          /\ fromspace = [base |-> f, len |-> OldWords]
          /\ Fits(young, {tospace, fromspace}) /\ Fits(tospace, {young, fromspace})
          /\ Fits(fromspace, {young, tospace})
    /\ tbl = [j \in Buckets |-> << >>]
    /\ objs = {} /\ yused = 0 /\ oused = 0
    /\ pc = "run" /\ rebase = NoRebase
    /\ tracked = {} /\ wasReset = FALSE

-----------------------------------------------------------------------------
(* The table.                                                              *)

Slots(t) == UNION {{j} \X DOMAIN t[j] : j \in Buckets}
Entry(t, s) == t[s[1]][s[2]]
ValidSlots(t) == {s \in Slots(t) : Entry(t, s).valid}
ValidEntries(t) == {Entry(t, s) : s \in ValidSlots(t)}

(* f applied to every valid entry of the table, where it stands            *)
(* (GC_DEBUG_HASH_TABLE_FOR_EACH_VALID).                                   *)
ForEachValid(t, f(_)) ==
    [j \in Buckets |-> [i \in DOMAIN t[j] |->
        IF t[j][i].valid THEN f(t[j][i]) ELSE t[j][i]]]

(* A new entry.  The code leaves rebased uninitialised, and sets it in     *)
(* every valid entry before it reads it.                                   *)
GC_debug_value_from_cap(base, len, site) ==
    [base |-> base, len |-> len, site |-> site, valid |-> TRUE,
     tracking |-> FALSE, marked |-> FALSE, rebased |-> FALSE]

(* The first of a set of slots of one bucket.                              *)
First(ns) == CHOOSE i \in ns : \A k \in ns : i <= k

(* The slots of the bucket of (base, len) with a valid entry for it.       *)
Matches(t, base, len) ==
    {i \in DOMAIN t[Hash(base, len)] :
        LET v == t[Hash(base, len)][i] IN
        v.valid /\ v.base = base /\ v.len = len}

(* The slot that GC_debug_find_allocated finds.                            *)
GC_debug_find_allocated(t, base, len) ==
    <<Hash(base, len), First(Matches(t, base, len))>>

(* Defect: every entry is put into the same bucket.                        *)
AddToFirstBucket(t, v) == [t EXCEPT ![0] = Append(@, v)]

(* The first invalid slot of the bucket is used again, if there is one.    *)
GC_debug_add_to_hash_table(t, v) ==
    LET h == Hash(v.base, v.len)
        unused == {i \in DOMAIN t[h] : ~t[h][i].valid} IN
    IF unused = {} THEN [t EXCEPT ![h] = Append(@, v)]
    ELSE [t EXCEPT ![h][First(unused)] = v]

(* The old slot is given up first, so that the moved entry may get it.     *)
GC_debug_move_allocation(t, s, base, len) ==
    GC_debug_add_to_hash_table(
        [t EXCEPT ![s[1]][s[2]].valid = FALSE, ![s[1]][s[2]].marked = TRUE],
        [Entry(t, s) EXCEPT !.base = base, !.len = len, !.marked = TRUE])

GC_debug_begin_marking(t) ==
    ForEachValid(t, LAMBDA v : [v EXCEPT !.marked = FALSE])

(* The entries that GC_debug_end_marking sweeps.  An entry at the end of   *)
(* the space is swept too.                                                 *)
Unmarked(v, space) == ~v.marked /\ space.base <= v.base /\ v.base <= End(space)

(* Defect: the entries are found, and their memory overwritten, but they   *)
(* stay valid.                                                             *)
EndMarkingKeeps(t, space) == t

GC_debug_end_marking(t, space) ==
    ForEachValid(t, LAMBDA v : [v EXCEPT !.valid = ~Unmarked(v, space)])

-----------------------------------------------------------------------------
(* Allocation.                                                             *)

(* GC_malloc_region with enough room, which ends with                      *)
(* GC_debug_just_allocated.  That looks for a valid entry of the same base *)
(* to end the program, but its loop has set the result to NULL when it is  *)
(* tested, so the new entry is always added.                               *)
GC_debug_just_allocated(len, site) ==
    LET base == young.base + yused IN
    /\ pc = "run" /\ yused + len <= young.len
    /\ site \notin {v.site : v \in ValidEntries(tbl)}
    /\ tbl' = GC_debug_add_to_hash_table(tbl,
                  GC_debug_value_from_cap(base, len, site))
    /\ objs' = objs \cup {[base |-> base, len |-> len, site |-> site]}
    /\ yused' = yused + len
    /\ tracked' = tracked \ {site}
    /\ UNCHANGED <<young, tospace, fromspace, oused, pc, rebase, wasReset>>

(* The program's call, with the capability of an object.                   *)
GC_debug_track_allocated(o) ==
    /\ pc = "run" /\ Matches(tbl, o.base, o.len) # {}
    /\ LET s == GC_debug_find_allocated(tbl, o.base, o.len) IN
       tbl' = [tbl EXCEPT ![s[1]][s[2]].tracking = TRUE]
    /\ tracked' = tracked \cup {o.site}
    /\ UNCHANGED <<heap, pc, rebase, wasReset>>

(* GC_reset empties the regions; the table keeps its entries.              *)
GC_reset ==
    /\ pc = "run"
    /\ objs' = {} /\ yused' = 0 /\ oused' = 0
    /\ wasReset' = TRUE
    /\ UNCHANGED <<tbl, young, tospace, fromspace, pc, rebase, tracked>>

(* GC_minor_free does so for the young region.                             *)
GC_minor_free ==
    /\ pc = "run"
    /\ objs' = {o \in objs : ~InSpace(o, young)} /\ yused' = 0
    /\ wasReset' = TRUE
    /\ UNCHANGED <<tbl, young, tospace, fromspace, oused, pc, rebase, tracked>>

-----------------------------------------------------------------------------
(* Collection.                                                             *)

(* GC_copy_object for an object of a space, copied to the free part of the *)
(* old region's tospace.  The capability that was reached has the object's *)
(* base and len of its words; GC_debug_just_copied ends the program if the *)
(* table has no such entry.                                                *)
GC_debug_just_copied(o, len, space) ==
    LET new == tospace.base + oused IN
    /\ InSpace(o, space)
    /\ \/ /\ Matches(tbl, o.base, len) # {}
          /\ tbl' = GC_debug_move_allocation(tbl,
                        GC_debug_find_allocated(tbl, o.base, len), new, len)
          /\ objs' = (objs \ {o}) \cup {[o EXCEPT !.base = new, !.len = len]}
          /\ oused' = oused + len
          /\ UNCHANGED pc
       \/ /\ Matches(tbl, o.base, len) = {}
          /\ pc' = "fatal"
          /\ UNCHANGED <<tbl, objs, oused>>
    /\ UNCHANGED <<young, tospace, fromspace, yused, rebase, tracked, wasReset>>

(* GC_collect_region for the young region, up to the copying.  It returns  *)
(* at once, its marks cleared, if the old region has too little room.      *)
BeginPromote ==
    /\ pc = "run"
    /\ tbl' = GC_debug_begin_marking(tbl)
    /\ pc' = IF tospace.len - oused < yused THEN "run" ELSE "promote"
    /\ UNCHANGED <<heap, rebase, tracked, wasReset>>

CopyYoung(o, len) ==
    /\ pc = "promote"
    /\ GC_debug_just_copied(o, len, young)

(* No more objects are found: the young region is empty.                   *)
EndCopyYoung ==
    /\ pc = "promote"
    /\ objs' = {o \in objs : ~InSpace(o, young)}
    /\ yused' = 0
    /\ pc' = "promoted"
    /\ UNCHANGED <<tbl, young, tospace, fromspace, oused, rebase, tracked, wasReset>>

(* A collection of the old region within the promotion.                    *)
BeginMajor ==
    /\ pc = "promoted"
    /\ tbl' = GC_debug_begin_marking(tbl)
    /\ tospace' = fromspace /\ fromspace' = tospace
    /\ oused' = 0
    /\ pc' = "major"
    /\ UNCHANGED <<objs, young, yused, rebase, tracked, wasReset>>

CopyOld(o, len) ==
    /\ pc = "major"
    /\ GC_debug_just_copied(o, len, fromspace)

EndMajor ==
    /\ pc = "major"
    /\ objs' = {o \in objs : ~InSpace(o, fromspace)}
    /\ tbl' = GC_debug_end_marking(tbl, fromspace)
    /\ pc' = "promoted"
    /\ UNCHANGED <<young, tospace, fromspace, yused, oused, rebase, tracked, wasReset>>

(* The end of GC_collect_region for the young region.                      *)
EndPromote ==
    /\ pc = "promoted"
    /\ tbl' = GC_debug_end_marking(tbl, young)
    /\ pc' = "run"
    /\ UNCHANGED <<heap, rebase, tracked, wasReset>>

-----------------------------------------------------------------------------
(* Growth: GC_grow has moved a tospace and the pointers into it, and calls *)
(* GC_debug_rebase_allocation_entries.                                     *)

MovedFrom(o, old, new) ==
    IF InSpace(o, old) THEN [o EXCEPT !.base = @ - old.base + new.base] ELSE o

BeginRebase(old, new) ==
    /\ objs' = {MovedFrom(o, old, new) : o \in objs}
    /\ tbl' = ForEachValid(tbl, LAMBDA v : [v EXCEPT !.rebased = FALSE])
    /\ rebase' = [old |-> old.base, size |-> old.len, new |-> new.base,
                  j |-> 0, i |-> 1, back |-> pc]
    /\ pc' = "rebase"
    /\ UNCHANGED <<yused, oused, tracked, wasReset>>

(* GC_malloc_region grows the young region, before or after a collection.  *)
GrowYoung(len) ==
    /\ pc = "run" /\ len > young.len
    /\ \E p \in Places :
          /\ young' = [base |-> p, len |-> len]
          /\ Fits(young', {young, tospace, fromspace})
    /\ BeginRebase(young, young')
    /\ UNCHANGED <<tospace, fromspace>>

(* GC_gen_promote grows the old region: the fromspace, then the tospace.   *)
GrowOld(len) ==
    /\ pc = "promoted" /\ len > tospace.len
    /\ \E p, q \in Places :
          /\ fromspace' = [base |-> p, len |-> len]
          /\ tospace' = [base |-> q, len |-> len]
          /\ Fits(fromspace', {young, tospace, fromspace})
          /\ Fits(tospace', {young, tospace, fromspace'})
    /\ BeginRebase(tospace, tospace')
    /\ UNCHANGED young

(* An entry that is to be moved: the end of the old space counts as inside. *)
NeedsRebase(v) ==
    /\ v.valid /\ ~v.rebased
    /\ rebase.old <= v.base /\ v.base <= rebase.old + rebase.size

(* One iteration of the loop over the slots.  Moved entries are put into   *)
(* slots that the loop has passed, or will come to: "we're only adding     *)
(* entries we won't want to scan again".                                   *)
RebaseSlot ==
    LET j == rebase.j
        i == rebase.i IN
    /\ pc = "rebase" /\ j \in Buckets /\ i <= Len(tbl[j])
    /\ tbl' = IF NeedsRebase(tbl[j][i])
              THEN GC_debug_move_allocation(
                       [tbl EXCEPT ![j][i].rebased = TRUE], <<j, i>>,
                       tbl[j][i].base - rebase.old + rebase.new, tbl[j][i].len)
              ELSE tbl
    /\ rebase' = [rebase EXCEPT !.i = i + 1]
    /\ UNCHANGED <<heap, pc, tracked, wasReset>>

RebaseBucket ==
    /\ pc = "rebase" /\ rebase.j \in Buckets /\ rebase.i > Len(tbl[rebase.j])
    /\ rebase' = [rebase EXCEPT !.j = @ + 1, !.i = 1]
    /\ UNCHANGED <<tbl, heap, pc, tracked, wasReset>>

EndRebase ==
    /\ pc = "rebase" /\ rebase.j = TblSz
    /\ pc' = rebase.back /\ rebase' = NoRebase
    /\ UNCHANGED <<tbl, heap, tracked, wasReset>>

Next ==
    \/ \E len \in Sizes, site \in Sites : GC_debug_just_allocated(len, site)
    \/ \E o \in objs : GC_debug_track_allocated(o)
    \/ GC_reset \/ GC_minor_free
    \/ BeginPromote \/ EndCopyYoung \/ BeginMajor \/ EndMajor \/ EndPromote
    \/ \E o \in objs : \E len \in 1 .. o.len : CopyYoung(o, len) \/ CopyOld(o, len)
    \/ \E len \in 1 .. MaxWords : GrowYoung(len) \/ GrowOld(len)
    \/ RebaseSlot \/ RebaseBucket \/ EndRebase

Spec == Init /\ [][Next]_vars

-----------------------------------------------------------------------------
(* Properties.                                                             *)

(* Every object has an entry where GC_debug_find_allocated looks for it,   *)
(* through all copies, sweeps, rebasings and resets: a collection that     *)
(* reaches an object by its whole capability never ends the program with   *)
(* "invalid capability just copied" (gc_debug.c:595).                      *)
TableComplete ==
    pc # "rebase" => \A o \in objs : Matches(tbl, o.base, o.len) # {}

(* The table is the heap's shadow: between collections, and as long as     *)
(* nothing was reset, its valid entries are exactly the objects, each      *)
(* once, with the place where it was allocated, and whether it is tracked  *)
(* ("Internally the routines implement a mark-and-sweep of the hash        *)
(* table", gc_debug.h:166).                                                *)
ShadowExact ==
    pc = "run" /\ ~wasReset =>
        /\ {[base |-> v.base, len |-> v.len, site |-> v.site,
             tracking |-> v.tracking] : v \in ValidEntries(tbl)}
           = {[base |-> o.base, len |-> o.len, site |-> o.site,
               tracking |-> o.site \in tracked] : o \in objs}
        /\ Cardinality(ValidSlots(tbl)) = Cardinality(objs)

(* What GC_debug_end_marking overwrites with a magic value, for the space  *)
(* that is swept, belongs to no object that the collection has kept, even  *)
(* when GC_reset has left entries of objects that are long gone, and       *)
(* though an entry at the end of the space is swept (gc_debug.c:713).      *)
SweepHarmless ==
    LET space == IF pc = "major" THEN fromspace ELSE young
        kept == {o \in objs : ~InSpace(o, space)} IN
    pc \in {"major", "promoted"} =>
        \A v \in ValidEntries(tbl), o \in kept :
            Unmarked(v, space) => Words(v.base, v.len) \cap Words(o.base, o.len) = {}
=============================================================================
