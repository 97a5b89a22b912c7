--------------------------- MODULE MCDiagnosticMaps ---------------------------
(* Instances of DiagnosticMaps for TLC.                                    *)
EXTENDS DiagnosticMaps

MCDiags == 1..5

=============================================================================
