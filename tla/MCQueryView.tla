---------------------------- MODULE MCQueryView -----------------------------
\* The lists and details with two filters, two texts and two pages.
EXTENDS QueryView

CONSTANTS f1, f2, none, x1, x2

MCFilter == {f1, f2}
MCText == {x1, x2}
=============================================================================
