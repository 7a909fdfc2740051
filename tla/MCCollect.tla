----------------------------- MODULE MCCollect -----------------------------
(***************************************************************************)
(* Small instances of GCCollect for TLC.                                   *)
(***************************************************************************)
EXTENDS GCCollect

(* Words of the old generation that are neither in use nor being           *)
(* evacuated, and the bitmap of a fromspace that is not, are overwritten   *)
(* before they are next read.  States that differ only in them have the    *)
(* same behaviours, and TLC need not tell them apart.                      *)
Readable ==
    YoungSpace \cup (ToBase .. (ToBase + ofree - 1))
    \cup (IF stage \in {"force", "watermark"} THEN OldSpace(1 - to) ELSE {})

View == <<[w \in Words |-> IF w \in Readable THEN mem[w] ELSE Null],
          root, yfree, ybitmap, to, ofree, oscan, tobitmap,
          IF stage \in {"force", "watermark"} THEN frombitmap ELSE {},
          remset, ctlVars, known, kroot, histVars>>
=============================================================================
