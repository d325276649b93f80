----------------------------- MODULE MCController -----------------------------
EXTENDS Controller, TLC
CONSTANTS c1, c2, c3
ThreeCalls == {c1, c2, c3}

\* The calls are interchangeable: what holds of one holds of each.
CallsAreAnswered == EveryCallAnswered(c1)
=============================================================================
