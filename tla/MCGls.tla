------------------------------- MODULE MCGls -------------------------------
(***************************************************************************)
(* Instances of Gls for TLC: what the program of each run calls.           *)
(***************************************************************************)
EXTENDS Gls

\* Storage, handlers and Reset, with label changes by runtime/pprof.
WithPprof   == {"Set", "Del", "AtExit", "Reset", "SetLabels"}
\* Storage that is unloaded and built up again, and user code that sets labels and restores
\* label-free contexts.
UnloadClear == {"Set", "Unload", "SetLabels", "ClearLabels"}
\* No label changes.
NoPprof     == {"Set", "Del", "AtExit", "Reset"}
\* The API calls the liveness runs make.
SetAtExit   == {"Set", "AtExit"}
SetAtExitResetPprof == {"Set", "AtExit", "Reset", "SetLabels"}
=============================================================================
