------------------------ MODULE MCPipelineScheduler ------------------------
(* A small instance of PipelineScheduler: the values are in the .cfg file. *)
EXTENDS PipelineScheduler
=============================================================================
