--------------------------- MODULE MCDirectController ---------------------------
(* Two controllers, one operation of each kind. *)
EXTENDS DirectController

KindByName == [op \in Operations |-> op]
=================================================================================
