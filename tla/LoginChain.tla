------------------------------ MODULE LoginChain ------------------------------
(***************************************************************************)
(* What refresh-token rotation promises: every login is one chain of       *)
(* tokens, of which the last one at most can still be used.  A chain is    *)
(* continued by taking its token and giving out the next one, or it ends.  *)
(* ClientSession.tla shows that the requests of a browser's tabs, however  *)
(* they interleave, implement it.                                          *)
(***************************************************************************)
EXTENDS Naturals, Sequences

VARIABLES
    issued,  \* the refresh tokens in the order of their issue: the login of each
    live,    \* the tokens that can still be used
    renewing \* the logins whose token was taken and whose next one is not out

chainVars == <<issued, live, renewing>>

\* A login is known by its first token.
Start ==
    /\ issued' = Append(issued, Len(issued) + 1)
    /\ live' = live \cup {Len(issued) + 1}
    /\ UNCHANGED renewing

Take(r) ==
    /\ live' = live \ {r}
    /\ renewing' = renewing \cup {issued[r]}
    /\ UNCHANGED issued

Renew(l) ==
    /\ issued' = Append(issued, l)
    /\ live' = live \cup {Len(issued) + 1}
    /\ renewing' = renewing \ {l}

\* The next token is never given out.
Lose(l) ==
    /\ renewing' = renewing \ {l}
    /\ UNCHANGED <<issued, live>>

\* A logout ends one login, a change of password all of them.
End(R) ==
    /\ live' = live \ R
    /\ UNCHANGED <<issued, renewing>>

Init ==
    /\ issued = <<>>
    /\ live = {}
    /\ renewing = {}

Next ==
    \/ Start
    \/ \E r \in live : Take(r) \/ End({r})
    \/ End(live)
    \/ \E l \in renewing : Renew(l) \/ Lose(l)

Spec == Init /\ [][Next]_chainVars
=============================================================================
