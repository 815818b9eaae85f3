----------------------------- MODULE MCRunBench -----------------------------
(* Small instances of RunBench: every combination of the options within    *)
(* the bounds is an initial state.                                         *)
EXTENDS RunBench
=============================================================================
