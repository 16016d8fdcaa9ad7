----------------------------- MODULE MCPipeline ------------------------------
(***************************************************************************)
(* Pipeline with the two bridges of conf/rpi-pipeline.json; see the        *)
(* configurations for the number of buffers, controls and runs.            *)
(***************************************************************************)
EXTENDS Pipeline
=============================================================================
