--------------------------- MODULE MCExtractionRuns ---------------------------
(* Small instances of ExtractionRuns.  Processes are interchangeable, and so are *)
(* inputs and candidate ids, which the module only compares.                     *)
EXTENDS ExtractionRuns, TLC

Interchangeable == Permutations(Processes) \cup Permutations(Keys) \cup Permutations(BaseIds)
===============================================================================
