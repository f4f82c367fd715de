-------------------------- MODULE AttendanceLedger --------------------------
(***************************************************************************)
(* What session registration promises, with every request a single step:   *)
(* who is admitted, how a registration may end, and that a check-in is     *)
(* final.  Registration.tla shows the locking transactions implement it.   *)
(***************************************************************************)
EXTENDS Naturals, FiniteSets

CONSTANTS
    Users,
    Sessions,
    Staff,   \* the organizer and the volunteers who check attendees in
    Nobody,  \* checked_in_by of a registration that is not checked in
    NoLimit

VARIABLES
    session,  \* session rows
    part,     \* status of each user's registration for each session, or "none"
    checkedBy \* who checked the registration in, or Nobody

ledgerVars == <<session, part, checkedBy>>

Keys == Users \X Sessions

\* Every registration but a cancelled one occupies a slot.
Active(s) == {u \in Users : part[<<u, s>>] \notin {"none", "cancelled"}}

Init ==
    /\ part = [k \in Keys |-> "none"]
    /\ checkedBy = [k \in Keys |-> Nobody]

\* A session admits a user while it is POSTED and, when it has a slot limit of
\* its own, while a slot is free.
Admit(k) ==
    /\ session[k[2]].status = "posted"
    /\ part[k] \notin {"registered", "attended"}
    /\ session[k[2]].slots # NoLimit
          => Cardinality(Active(k[2])) < session[k[2]].slots
    /\ part' = [part EXCEPT ![k] = "registered"]
    /\ UNCHANGED <<session, checkedBy>>

\* A registration is withdrawn, or the organizer marks how it ended.
Settle(k, to) ==
    /\ part[k] = "registered"
    /\ part' = [part EXCEPT ![k] = to]
    /\ UNCHANGED <<session, checkedBy>>

CheckIn(k, a) ==
    /\ part[k] = "registered"
    /\ checkedBy[k] = Nobody
    /\ part' = [part EXCEPT ![k] = "attended"]
    /\ checkedBy' = [checkedBy EXCEPT ![k] = a]
    /\ UNCHANGED session

\* Organizers and the clock change sessions, and leave registrations alone.
Reschedule == UNCHANGED <<part, checkedBy>>

Next ==
    \/ \E k \in Keys :
          \/ Admit(k)
          \/ \E to \in {"attended", "cancelled", "no_show"} : Settle(k, to)
          \/ \E a \in Staff : CheckIn(k, a)
    \/ Reschedule

Spec == Init /\ [][Next]_ledgerVars
=============================================================================
