----------------------------- MODULE MCControl -----------------------------
(* Two agentd processes, two runtimes. *)
EXTENDS Control
=============================================================================
