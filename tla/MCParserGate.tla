---------------------------- MODULE MCParserGate ----------------------------
(* Five readers for two slots: every discipline meets every other. *)
EXTENDS ParserGate

CONSTANTS p1, p2, s1, s2, d1

KindOf == [r \in Readers |-> CASE r \in {p1, p2} -> "pdf" [] r \in {s1, s2} -> "source" [] r = d1 -> "digest"]
=============================================================================
