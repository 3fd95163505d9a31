----------------------------- MODULE MCStartup -----------------------------
(* Startup with every state a program that has just been installed finds. *)
EXTENDS Startup
=============================================================================
