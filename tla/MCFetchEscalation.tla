------------------------- MODULE MCFetchEscalation -------------------------
(* Two pages of one host cited by one question, and one of them by another question: *)
(* all for the resolution sources, or the first question's for gap-fill, which        *)
(* fetches one page and reads the other as a document.                               *)
EXTENDS FetchEscalation

CONSTANTS q1, q2, a, b, c, p1, p2, h1

Cites == [f \in Fetches |-> IF f \in {a, b} THEN q1 ELSE q2]
Lands == [f \in Fetches |-> IF f = b THEN p2 ELSE p1]
Serves == [p \in Pages |-> h1]
Named == [f \in Fetches |-> Serves[Lands[f]]]
Feeds == [h \in Hosts |-> h]
ScopeNamed == [p \in Policies |-> IF p = "resolution_source" THEN p ELSE "gap_fill_v2"]
GapFills == [f \in Fetches |-> CASE f = a -> "gap_fill_fetch"
                                [] f = b -> "gap_fill_document"
                                [] f = c -> "resolution_source"]
Begins == [p \in Policies |-> CASE p = "resolution_source" -> {6, 7}
                               [] p = "gap_fill_fetch" -> {6}
                               [] p = "gap_fill_document" -> {7}]
Asks == {[f \in Fetches |-> "resolution_source"], GapFills}
=============================================================================
