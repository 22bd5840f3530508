------------------------ MODULE MCDiagnosisPipeline -------------------------
(* Small instances of DiagnosisPipeline for TLC.                           *)
EXTENDS DiagnosisPipeline
=============================================================================
