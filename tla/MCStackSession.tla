---------------------------- MODULE MCStackSession ----------------------------
(* Values for TLC: a session of two calls and three pieces of output.      *)
EXTENDS StackSession

MCBodies == {"supports", "adapter-error", "bad-result", "bad-json"}
=============================================================================
