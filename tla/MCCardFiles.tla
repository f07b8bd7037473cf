---------------------------- MODULE MCCardFiles ----------------------------
(* One file, two removals and two purges of it, one publication: every property is  *)
(* about one file at a time.                                                       *)
EXTENDS CardFiles

MCFile == {"f1"}
MCRemoval == {"r1", "r2"}
MCPurge == {"p1","p2"}
MCDecision == {"d1"}
=============================================================================
