----------------------------- MODULE MCReadWrite -----------------------------
(* Strings of one character and of none, a string without an end, and one at  *)
(* the end of the caller's memory, where the new vectors go.                  *)
EXTENDS Execve

\* NULs of the caller: strings at 2 (one character), 3 (empty), 11 (one).
Nuls == {3, 12}

Vector(b, s) == [base |-> b, pointers |-> s]

AllCalls == {[pathname |-> n, argv |-> Vector(5, a), envp |-> Vector(b, e)] :
    n \in {2, 11}, b \in {8, 13},
    a \in {<<>>, <<2>>, <<11>>, <<3, 11>>, <<5>>}, e \in {<<>>, <<3>>, <<2>>, <<6>>}}
=============================================================================
