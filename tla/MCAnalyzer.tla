----------------------------- MODULE MCAnalyzer -----------------------------
(* Small instances of the analyzer service for TLC.                        *)
EXTENDS Analyzer, TLC

CONSTANTS a1, a2, m1, m2

TwoAnalyzers == {a1, a2}
OneAnalyzer == {a1}
OneMention == {m1}

NoFaults == {"ok"}

Symmetry == Permutations(TwoAnalyzers)
=============================================================================
