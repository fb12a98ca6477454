----------------------------- MODULE MCBlkFlush -----------------------------
(* BlkFlush on small graphs: an entry block, an epilogue and a few others, *)
(* wired in every way the generators' calls allow.                         *)
EXTENDS BlkFlush

CONSTANTS entry, epilogue, m1

MCBlocks3 == {entry, epilogue, m1}
=============================================================================
