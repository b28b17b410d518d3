----------------------------- MODULE MCSubAgents -----------------------------
(* The Root asks for three children, the first of which asks for two more in *)
(* a pipeline and the last for one more in a batch.                          *)
EXTENDS SubAgents

CONSTANTS a, b, c, d, e, f, root

MCRequests ==
  [p \in Callers |-> IF p = Root THEN <<a, c, b>>
                     ELSE IF p = a THEN <<d, e>>
                     ELSE IF p = b THEN <<f>> ELSE <<>>]
=============================================================================
