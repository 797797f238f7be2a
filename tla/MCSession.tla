----------------------------- MODULE MCSession -----------------------------
(***************************************************************************)
(* A small instance of Session for TLC: a screen's request beside the      *)
(* upload loop, on both platforms.  Two tokens give a session and its      *)
(* successor, two launches one to be killed and one that restores.         *)
(***************************************************************************)
EXTENDS Session

MCFetches == {"fetch"}
MCPlatforms == {"web", "native"}
=============================================================================
