------------------------------ MODULE MCGrow ------------------------------
(***************************************************************************)
(* Small instances of GCGrow for TLC.                                      *)
(***************************************************************************)
EXTENDS GCGrow

(* Words that no object of the region has are overwritten, or ignored by   *)
(* the program, before they are read: states that differ only in them      *)
(* have the same behaviours, up to what such words hold.                   *)
Start == IF pc = "finish" THEN grow.to ELSE tospace.base
Readable == Start .. (Start + Used - 1)

View == <<live, table, [a \in Addresses |-> IF a \in Readable THEN mem[a] ELSE NULL],
          cell, region, pc, grow, request, tooSmall, history>>
=============================================================================
