----------------------------- MODULE MCSources -----------------------------
\* Small instances of SourceRegistry for TLC.
EXTENDS SourceRegistry

CONSTANTS w1, w2, w3

\* Two results that name the same sources in opposite orders, one that begins in
\* the middle and closes a cycle of three, and one that repeats a name.
Crossing == {<<"a", "b">>, <<"b", "a">>, <<"b", "c", "a">>, <<"d", "d", "a">>}
=============================================================================
