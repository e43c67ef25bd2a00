---------------------------- MODULE MCMemoryArchive ----------------------------
(* Sets of threads for the run of MemoryArchive.                            *)
EXTENDS MemoryArchive, TLC

CONSTANTS c1, w

MCCallers == {c1}

(* lastRowid is overwritten by the next InsertMemory before anything reads  *)
(* it, unless a saver is about to: states that differ in it alone then have *)
(* the same futures.                                                        *)
RowidMatters == \E s \in Savers : pc[s] = "rowid"
Relevant ==
  <<phase, open, db, base, IF RowidMatters THEN lastRowid ELSE 0, savers, history>>
=============================================================================
