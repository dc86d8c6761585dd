------------------------------- MODULE MCBatch -------------------------------
(* Batch on every short query file over some kinds of lines.               *)
EXTENDS Batch

FilesOver(kinds) == UNION {[1 .. n -> kinds] : n \in 0 .. MaxLen}

MCAny == FilesOver({"query", "inline", "bad"})
MCMalformed == FilesOver({"query", "bad"})
MCNoTarget == FilesOver({"query", "no_target"})
=============================================================================
