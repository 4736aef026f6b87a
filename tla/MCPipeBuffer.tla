---------------------------- MODULE MCPipeBuffer ----------------------------
(* Two byte values, buffers of two bytes, a pipe of five. *)
EXTENDS PipeBuffer
=============================================================================
