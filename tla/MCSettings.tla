----------------------------- MODULE MCSettings -----------------------------
EXTENDS Settings

Card(a, m, s, o) == [account |-> a, miiverse |-> m, spotpass |-> s, overrides |-> o]

\* A card with nothing on it, one of before the Miiverse and SpotPass items, one with a
\* SpotPass its pairing has lost, and two another version has written.
MCCards == {
    Card("none", "none", "none", "none"),
    Card("Pretendo", "none", "none", "none"),
    Card("Protarium", "Roseverse", "Roseverse", "off"),
    Card("unknown", "Juxt", "unknown", "on"),
    Card("Pretendo", "unknown", "Roseverse", "none")}
=============================================================================
