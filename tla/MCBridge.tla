------------------------------ MODULE MCBridge -------------------------------
(***************************************************************************)
(* Bridge, model-checked: up to three buffers and three runs.              *)
(***************************************************************************)
EXTENDS Bridge
=============================================================================
