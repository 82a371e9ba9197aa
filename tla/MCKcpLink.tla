------------------------------ MODULE MCKcpLink -----------------------------
(***************************************************************************)
(* Bounds for small instances of KcpLink.                                  *)
(***************************************************************************)
EXTENDS KcpLink

(* x at the client and y at the server. *)
At(x, y) == [e \in Peers |-> IF e = Client THEN x ELSE y]

At_1_1 == At(1, 1)
At_2_1 == At(2, 1)
At_2_2 == At(2, 2)
At_3_0 == At(3, 0)
At_5_0 == At(5, 0)
=============================================================================
