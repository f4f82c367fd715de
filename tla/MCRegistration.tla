--------------------------- MODULE MCRegistration ---------------------------
(***************************************************************************)
(* Small instances of Registration.                                        *)
(***************************************************************************)
EXTENDS Registration, TLC

CONSTANTS s1, s2, e1, u1, u2, u3, c1, c2, c3, a1, a2, r1, r2, r3, r4

OneWindow == {[start |-> 0, end |-> 1]}
NoOperation == {}
SessionEdits == {"session_status", "session"}
LimitOrVenue == {1, NoLimit}
VenueOnly == {NoLimit}
OneSlot == {1}
OneOrTwo == {1, 2}
Two == {2}
NoChange == {}
Revocation == {"revoke"}
AllRoleChanges == {"assign", "revoke", "change"}
RequestSymmetry == Permutations(Clients) \cup Permutations(Users)
                      \cup Permutations(Staff)
=============================================================================
