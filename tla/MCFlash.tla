------------------------------- MODULE MCFlash -------------------------------
(* A chip of two sectors of one byte.  A write of both that would go on over   *)
(* the end of the chip, a read, an erasure, and a copy elsewhere.             *)
EXTENDS Flash

R(w, a, n) == [what |-> w, pos |-> a, count |-> n]

AllRequests == {R("write", 0, 3), R("read", 0, 2), R("erase sector", 1, 1),
                R("copy", 0, 1)}
=============================================================================
