-------------------------- MODULE MCPipelineReset --------------------------
(* Small instances of PipelineReset.                                        *)
EXTENDS PipelineReset, MCPipeline
=============================================================================
