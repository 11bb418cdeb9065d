----------------------------- MODULE MCBlockBuf -----------------------------
(* Three processes sleep for buffers and one only tries.                     *)
EXTENDS BlockBuf

SeveralSleepers == 1 .. 3
=============================================================================
