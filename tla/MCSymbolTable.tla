---------------------------- MODULE MCSymbolTable ----------------------------
(* Instance of SymbolTable for TLC. *)
EXTENDS SymbolTable, TLC

CONSTANTS a, b, s1, s2, h1, h2

MCNames == {a, b}
MCSymbols == {s1, s2}
MCHandles == {h1, h2}

\* Tables are interchangeable: no step looks at which handle is which.
SymHandles == Permutations(MCHandles)

=============================================================================
