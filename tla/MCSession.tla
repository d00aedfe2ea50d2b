------------------------------ MODULE MCSession ------------------------------
(* Three pids: the program, and two for its children or other processes. *)
EXTENDS Session

MCPids == 1 .. 3
MCObjects == {"server", "tool"}
MCTransports == {"pipe", "socket"}
=============================================================================
