---------------------------- MODULE MCDatumSocket ----------------------------
(* A small instance of DatumSocket: a few procs and sockets.                 *)
EXTENDS DatumSocket, TLC

SocketSymmetry == Permutations(Procs) \cup Permutations(Sockets)
=============================================================================
