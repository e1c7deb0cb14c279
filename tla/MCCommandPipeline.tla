--------------------------- MODULE MCCommandPipeline ---------------------------
(* CommandPipeline on a small instance: one command through POST /sync.    *)
EXTENDS CommandPipelineProofs

CONSTANTS s

OneSync == {s}
=============================================================================
