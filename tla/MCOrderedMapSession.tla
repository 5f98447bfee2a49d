-------------------------- MODULE MCOrderedMapSession --------------------------
(* Values for TLC: a session of two calls and three pieces of output.      *)
EXTENDS OrderedMapSession

MCBodies == {"supports", "adapter-error", "bad-result", "bad-shape"}
=============================================================================
