--------------------------- MODULE MCSamplePipeline ---------------------------
(* Two samples and a queue of one profile: while the first is queued or being *)
(* uploaded, the second can be in any other place, or be refused.            *)
EXTENDS SamplePipeline
=============================================================================
