---------------------------- MODULE MCNativeRequests ----------------------------
(***************************************************************************)
(* Instances of NativeRequests: which operations the clients use.          *)
(***************************************************************************)
EXTENDS NativeRequests, TLC

Identities == Permutations(Requests)

\* An append is a generation whose result needs no decision.
AllButAppend == NATIVE_REQUEST_OPERATIONS \ {"append"}
=================================================================================
