-------------------------------- MODULE MCBuild -------------------------------
(* Build for TLC with one name, and nesting that is deep enough for an      *)
(* unsafe or a loop inside of another one; for the generator three blocks   *)
(* open at a time, so that a deferred expression has a block with a block in*)
(* it, and a defer stack of three places that four defers compete for.      *)
EXTENDS Build
=============================================================================
