--------------------------- MODULE MCClientSession ---------------------------
(***************************************************************************)
(* Small instances of ClientSession: the two web applications.             *)
(***************************************************************************)
EXTENDS ClientSession, TLC

CONSTANTS t1, t2, s1

\* components/auth/auth-provider.tsx calls initialize in both applications; in
\* the administrators' the layout and the login page do as well.
ParticipantInitializers == {"provider"}
AdminInitializers == {"provider", "layout"}

ParticipantKinds == {"plain", "save"}
AdminKinds == {"plain", "save", "save_captured"}

TabSymmetry == Permutations(Tab)

OneCall == {<<t1, 1>>}
OneCallEach == {<<t1, 1>>, <<t2, 1>>}
TwoCalls == {<<t1, 1>>, <<t1, 2>>}
=============================================================================
