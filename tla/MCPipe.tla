------------------------------- MODULE MCPipe -------------------------------
(* Two processes and one pipe. *)
EXTENDS Pipe

CONSTANTS p1, p2
=============================================================================
