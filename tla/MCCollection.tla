----------------------------- MODULE MCCollection -----------------------------
(* A campaign of two batches, and a third one that repeats a source. *)
EXTENDS Collection

CONSTANTS i1, i2, i3, b1, b2, b3

TwoAndOne == [b \in Batches |-> IF b = b1 THEN <<i1, i2>> ELSE IF b = b2 THEN <<i3>> ELSE <<i2>>]
Three == [b \in Batches |-> IF b = b1 THEN <<i1, i2, i3>> ELSE <<i2>>]
===============================================================================
