------------------------------- MODULE MCPipe -------------------------------
(* TLC instances of Pipe. *)
EXTENDS Pipe, TLC

Symmetry == Permutations(Requests) \cup Permutations(Settings)
=============================================================================
