------------------------------- MODULE MCSdCard -------------------------------
(* Two blocks of three bytes: requests within a block, over the boundary, of  *)
(* a whole block, and of a part of one block and the whole of the next.       *)
EXTENDS SdCard

Spans == {<<1, 1>>, <<2, 2>>, <<0, 3>>, <<1, 5>>}

AllRequests == {[write |-> w, pos |-> s[1], count |-> s[2]] :
                  w \in BOOLEAN, s \in Spans}
=============================================================================
