------------------------- MODULE MCSessionLifecycle -------------------------
(***************************************************************************)
(* Small instances of SessionLifecycle.                                    *)
(***************************************************************************)
EXTENDS SessionLifecycle

CONSTANTS s1, s2, e1, e2, w1

\* Two windows in a row, and one that ends before it starts.
MCWindows == {[start |-> 0, end |-> 1], [start |-> 1, end |-> 2],
              [start |-> 1, end |-> 0]}
TwoWindows == {[start |-> 0, end |-> 1], [start |-> 0, end |-> 2]}
AllOperations == Operations
Unlimited == {NoLimit}
=============================================================================
