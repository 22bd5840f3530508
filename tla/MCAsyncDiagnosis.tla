-------------------------- MODULE MCAsyncDiagnosis --------------------------
(* Small instances of AsyncDiagnosis for TLC.                              *)
EXTENDS AsyncDiagnosis
=============================================================================
