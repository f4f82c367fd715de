---------------------------- MODULE Registration ----------------------------
(***************************************************************************)
(* Registration, withdrawal, organizer marking and check-in for the        *)
(* sessions of SessionLifecycle, as transactions that lock session rows,   *)
(* then registration rows, then the user's role assignments.  Session rows *)
(* change under the lifecycle's own steps, and role assignments under the  *)
(* administrators', which wait for rows that another transaction holds.    *)
(***************************************************************************)
EXTENDS SessionLifecycle, FiniteSets

CONSTANTS
    Users,
    Clients,    \* attendees' and staff's requests in flight
    Staff,      \* those whom the event lets check attendees in
    Nobody,     \* checked_in_by IS NULL
    Capacities, \* capacities the sessions' venue may be given
    RoleRows,   \* a user's rows of user_roles: at most so many at a time
    RoleChanges \* what administrators do to roles: assign, revoke, change

ASSUME RegistrationAssumption ==
    /\ IsFiniteSet(Users)
    /\ Capacities \subseteq Nat
    /\ NoOne \notin Clients
    /\ Nobody \notin Staff

VARIABLES
    part,        \* status of the row for each user and session, or "none"
    checkedBy,   \* its checked_in_by
    capacity,    \* the venue's capacity
    roles,       \* each user's active assignments, rows of user_roles
    sessionLock, \* the request that holds each session row, or NoOne
    partLock,    \* the request that holds each registration row, or NoOne
    roleLock,    \* the request that holds each role assignment, or NoOne
    req          \* what each request has read

locks == <<sessionLock, partLock, roleLock>>
attendanceVars == <<part, checkedBy, capacity, roles, locks, req>>
vars == <<lifecycleVars, attendanceVars>>

Ledger == INSTANCE AttendanceLedger WITH
    session <- session, part <- part, checkedBy <- checkedBy

Keys == Users \X Sessions
NoKey == <<>>
PartStatuses == {"registered", "attended", "cancelled", "no_show"}
AllowedParticipantTransitions(status) ==
    IF status = "registered" THEN {"attended", "no_show", "cancelled"} ELSE {}

\* Every registration but a cancelled one occupies a slot.
Active(s) == {u \in Users : part[<<u, s>>] \notin {"none", "cancelled"}}

Registering == {"check", "count", "write", "roles", "commit"}
RowHolding == {"roles", "commit", "withdraw", "mark", "arrive", "checkin"}

NoRequest == [pc |-> "idle", key |-> NoKey, seen |-> "none", inside |-> FALSE,
              limit |-> 0, count |-> 0, rows |-> {}, actor |-> Nobody]
Request == [pc : {"idle"} \cup Registering \cup RowHolding,
            key : Keys \cup {NoKey},
            seen : PartStatuses \cup {"none"},
            inside : BOOLEAN,
            limit : Nat,
            count : Nat,
            rows : SUBSET RoleRows,
            actor : Staff \cup {Nobody}]

RegistrationTypeOK ==
    /\ TypeOK
    /\ part \in [Keys -> PartStatuses \cup {"none"}]
    /\ checkedBy \in [Keys -> Staff \cup {Nobody}]
    /\ capacity \in Capacities
    /\ roles \in [Users -> SUBSET RoleRows]
    /\ sessionLock \in [Sessions -> Clients \cup {NoOne}]
    /\ partLock \in [Keys -> Clients \cup {NoOne}]
    /\ roleLock \in [Users \X RoleRows -> Clients \cup {NoOne}]
    /\ req \in [Clients -> Request]

\* An account is created with one role assignment, participant's.
RegistrationInit ==
    /\ Init
    /\ part = [k \in Keys |-> "none"]
    /\ checkedBy = [k \in Keys |-> Nobody]
    /\ capacity \in Capacities
    /\ roles \in [Users -> {{r} : r \in RoleRows}]
    /\ sessionLock = [s \in Sessions |-> NoOne]
    /\ partLock = [k \in Keys |-> NoOne]
    /\ roleLock = [a \in Users \X RoleRows |-> NoOne]
    /\ req = [c \in Clients |-> NoRequest]

-----------------------------------------------------------------------------
\* The end of a transaction, by COMMIT or ROLLBACK, frees every row it holds.

Release(c) ==
    /\ sessionLock' = [s \in Sessions |->
                          IF sessionLock[s] = c THEN NoOne ELSE sessionLock[s]]
    /\ partLock' = [k \in Keys |-> IF partLock[k] = c THEN NoOne ELSE partLock[k]]
    /\ roleLock' = [a \in Users \X RoleRows |->
                       IF roleLock[a] = c THEN NoOne ELSE roleLock[a]]
    /\ req' = [req EXCEPT ![c] = NoRequest]

-----------------------------------------------------------------------------
\* register_for_session

\* Mutant: the session row is read without FOR UPDATE.
RegLock_NoLock(c, k) ==
    /\ req[c].pc = "idle"
    /\ session[k[2]].status = "posted"
    /\ req' = [req EXCEPT ![c] = [NoRequest EXCEPT !.pc = "check", !.key = k]]
    /\ UNCHANGED <<lifecycleVars, part, checkedBy, capacity, roles, locks>>

RegLock(c, k) ==
    /\ req[c].pc = "idle"
    /\ sessionLock[k[2]] = NoOne
    /\ session[k[2]].status = "posted"
    /\ sessionLock' = [sessionLock EXCEPT ![k[2]] = c]
    /\ req' = [req EXCEPT ![c] = [NoRequest EXCEPT !.pc = "check", !.key = k]]
    /\ UNCHANGED <<lifecycleVars, part, checkedBy, capacity, roles, partLock, roleLock>>

\* Mutant: a session without max_slots does not fall back on its venue.
RegCheck_NoFallback(c) ==
    LET k == req[c].key IN
    /\ req[c].pc = "check"
    /\ part[k] \notin {"registered", "attended"}
    /\ req' = [req EXCEPT ![c].pc = "count",
                          ![c].seen = part[k],
                          ![c].limit = session[k[2]].slots]
    /\ UNCHANGED <<lifecycleVars, part, checkedBy, capacity, roles, locks>>

\* The user's own row and the slot limit are read without a lock.
RegCheck(c) ==
    LET k == req[c].key
        own == session[k[2]].slots IN
    /\ req[c].pc = "check"
    /\ part[k] \notin {"registered", "attended"}
    /\ req' = [req EXCEPT ![c].pc = "count",
                          ![c].seen = part[k],
                          ![c].limit = IF own = NoLimit THEN capacity ELSE own]
    /\ UNCHANGED <<lifecycleVars, part, checkedBy, capacity, roles, locks>>

\* Mutant: the session may hold one registration more than its limit.
RegCount_OffByOne(c) ==
    LET taken == Cardinality(Active(req[c].key[2])) IN
    /\ req[c].pc = "count"
    /\ taken <= req[c].limit
    /\ req' = [req EXCEPT ![c].pc = "write", ![c].count = taken]
    /\ UNCHANGED <<lifecycleVars, part, checkedBy, capacity, roles, locks>>

RegCount(c) ==
    LET taken == Cardinality(Active(req[c].key[2])) IN
    /\ req[c].pc = "count"
    /\ taken < req[c].limit
    /\ req' = [req EXCEPT ![c].pc = "write", ![c].count = taken]
    /\ UNCHANGED <<lifecycleVars, part, checkedBy, capacity, roles, locks>>

\* The existing row is locked and set to REGISTERED, or a new row is inserted:
\* the unique index (user_id, event_session_id) lets one of them in.  Then
\* _assign_rbac_participant_role looks for the user's active assignments.
RegWrite(c) ==
    LET k == req[c].key IN
    /\ req[c].pc = "write"
    /\ partLock[k] = NoOne
    /\ req[c].seen = "none" => part[k] = "none"
    /\ partLock' = [partLock EXCEPT ![k] = c]
    /\ req' = [req EXCEPT ![c].pc = "roles", ![c].rows = roles[k[1]]]
    /\ UNCHANGED <<lifecycleVars, part, checkedBy, capacity, roles, sessionLock,
                   roleLock>>

\* Mutant: the assignments are locked in whatever order they are found.
RegRoles_AnyOrder(c) ==
    LET Mine == {a \in {req[c].key[1]} \X req[c].rows : roleLock[a] = c}
        Others == ({req[c].key[1]} \X req[c].rows) \ Mine IN
    /\ req[c].pc = "roles"
    /\ \/ /\ Others = {}
          /\ req' = [req EXCEPT ![c].pc = "commit"]
          /\ UNCHANGED roleLock
       \/ \E a \in Others :
             /\ roleLock[a] = NoOne
             /\ roleLock' = [roleLock EXCEPT ![a] = c]
             /\ UNCHANGED req
    /\ UNCHANGED <<lifecycleVars, part, checkedBy, capacity, roles, sessionLock,
                   partLock>>

\* Mutant: the assignments are read without FOR UPDATE.
RegRoles_NoLock(c) ==
    /\ req[c].pc = "roles"
    /\ req' = [req EXCEPT ![c].pc = "commit"]
    /\ UNCHANGED <<lifecycleVars, part, checkedBy, capacity, roles, locks>>

\* The look-up is FOR UPDATE: it waits until the assignments it has found are
\* free or deleted.  Every transaction locks a user's assignments in the same
\* order, the latest first, so that they are locked together here.
RegRoles(c) ==
    LET found == {req[c].key[1]} \X req[c].rows IN
    /\ req[c].pc = "roles"
    /\ \A a \in found : roleLock[a] = NoOne
    /\ roleLock' = [a \in Users \X RoleRows |->
                       IF a \in found THEN c ELSE roleLock[a]]
    /\ req' = [req EXCEPT ![c].pc = "commit"]
    /\ UNCHANGED <<lifecycleVars, part, checkedBy, capacity, roles, sessionLock,
                   partLock>>

\* A user without assignments is given one.
RegCommit(c) ==
    LET k == req[c].key IN
    /\ req[c].pc = "commit"
    /\ part' = [part EXCEPT ![k] = "registered"]
    /\ \/ req[c].rows # {} /\ UNCHANGED roles
       \/ /\ req[c].rows = {}
          /\ \E r \in RoleRows \ roles[k[1]] :
                roles' = [roles EXCEPT ![k[1]] = @ \cup {r}]
    /\ Release(c)
    /\ UNCHANGED <<lifecycleVars, checkedBy, capacity>>

-----------------------------------------------------------------------------
\* The other requests lock the registration row first and judge by that read.

\* Mutant: the registration row is read without FOR UPDATE.
LockRow_NoLock(c, k, pc) ==
    /\ req[c].pc = "idle"
    /\ part[k] # "none"
    /\ req' = [req EXCEPT ![c] = [NoRequest EXCEPT !.pc = pc, !.key = k,
                  !.seen = part[k], !.inside = (checkedBy[k] # Nobody)]]
    /\ UNCHANGED <<lifecycleVars, part, checkedBy, capacity, roles, locks>>

LockRow(c, k, pc) ==
    /\ req[c].pc = "idle"
    /\ part[k] # "none"
    /\ partLock[k] = NoOne
    /\ partLock' = [partLock EXCEPT ![k] = c]
    /\ req' = [req EXCEPT ![c] = [NoRequest EXCEPT !.pc = pc, !.key = k,
                  !.seen = part[k], !.inside = (checkedBy[k] # Nobody)]]
    /\ UNCHANGED <<lifecycleVars, part, checkedBy, capacity, roles, sessionLock,
                   roleLock>>

\* withdraw_registration
WithdrawCommit(c) ==
    /\ req[c].pc = "withdraw"
    /\ ~req[c].inside
    /\ req[c].seen = "registered"
    /\ part' = [part EXCEPT ![req[c].key] = "cancelled"]
    /\ Release(c)
    /\ UNCHANGED <<lifecycleVars, checkedBy, capacity, roles>>

\* update_participant_status: ATTENDED set here leaves is_checked_in alone.
MarkCommit(c, to) ==
    /\ req[c].pc = "mark"
    /\ to \in AllowedParticipantTransitions(req[c].seen)
    /\ part' = [part EXCEPT ![req[c].key] = to]
    /\ Release(c)
    /\ UNCHANGED <<lifecycleVars, checkedBy, capacity, roles>>

\* check_in_participant: the session's status is read without a lock, and the
\* attendee is checked in later.
CheckInRead(c, a) ==
    /\ req[c].pc = "arrive"
    /\ session[req[c].key[2]].status \in {"posted", "started"}
    /\ ~req[c].inside
    /\ req[c].seen = "registered"
    /\ req' = [req EXCEPT ![c].pc = "checkin", ![c].actor = a]
    /\ UNCHANGED <<lifecycleVars, part, checkedBy, capacity, roles, locks>>

CheckInCommit(c) ==
    /\ req[c].pc = "checkin"
    /\ part' = [part EXCEPT ![req[c].key] = "attended"]
    /\ checkedBy' = [checkedBy EXCEPT ![req[c].key] = req[c].actor]
    /\ Release(c)
    /\ UNCHANGED <<lifecycleVars, capacity, roles>>

-----------------------------------------------------------------------------
\* The errors the handlers raise once they hold a row.
Refused(c) ==
    LET r == req[c] IN
    \/ r.pc = "check" /\ part[r.key] \in {"registered", "attended"}
    \/ r.pc = "count" /\ Cardinality(Active(r.key[2])) >= r.limit
    \/ r.pc = "write" /\ r.seen = "none" /\ part[r.key] # "none"
    \/ r.pc = "withdraw" /\ (r.inside \/ r.seen # "registered")
    \/ r.pc = "mark" /\ AllowedParticipantTransitions(r.seen) # PartStatuses
    \/ /\ r.pc = "arrive"
       /\ \/ session[r.key[2]].status \notin {"posted", "started"}
          \/ r.inside
          \/ r.seen # "registered"

Refuse(c) ==
    /\ Refused(c)
    /\ Release(c)
    /\ UNCHANGED <<lifecycleVars, part, checkedBy, capacity, roles>>

\* The process or its connection dies: the transaction is rolled back.
ConnectionLost(c) ==
    /\ req[c].pc # "idle"
    /\ Release(c)
    /\ UNCHANGED <<lifecycleVars, part, checkedBy, capacity, roles>>

\* update_venue writes the capacity without looking at registrations.
SetCapacity(n) ==
    /\ capacity' = n
    /\ UNCHANGED <<lifecycleVars, part, checkedBy, roles, locks, req>>

-----------------------------------------------------------------------------
\* Administrators' changes of a user's roles, each a transaction of its own.

\* Assignments that go are lost to the look-ups that wait for them, and those
\* that come are not seen by them.
Replace(u, old, new) ==
    /\ \A r \in old : roleLock[<<u, r>>] = NoOne
    /\ roles' = [roles EXCEPT ![u] = (@ \ old) \cup new]
    /\ req' = [c \in Clients |->
                  IF req[c].pc = "roles" /\ req[c].key[1] = u
                  THEN [req[c] EXCEPT !.rows = @ \ old] ELSE req[c]]
    /\ UNCHANGED <<lifecycleVars, part, checkedBy, capacity, locks>>

\* assign_role: one more, as long as the bound leaves a row to each request.
AssignRole(u) ==
    /\ "assign" \in RoleChanges
    /\ Cardinality(RoleRows \ roles[u]) > Cardinality(Clients)
    /\ \E r \in RoleRows \ roles[u] : Replace(u, {}, {r})

\* revoke_assignment
RevokeRole(u) ==
    /\ "revoke" \in RoleChanges
    /\ \E r \in roles[u] : Replace(u, {r}, {})

\* change_role locks the user's row, which waits for whoever has inserted a row
\* that refers to it, then all assignments, and puts one in their place.
ChangeRole(u) ==
    /\ "change" \in RoleChanges
    /\ \A c \in Clients :
          ~(req[c].pc \in {"roles", "commit"} /\ req[c].seen = "none"
               /\ req[c].key[1] = u)
    /\ \E r \in RoleRows \ roles[u] : Replace(u, roles[u], {r})

\* A lifecycle step that writes a session row waits for the row's holder.
LifecycleStep ==
    /\ Next
    /\ \A s \in Sessions : session'[s] # session[s] => sessionLock[s] = NoOne
    /\ UNCHANGED attendanceVars

-----------------------------------------------------------------------------
Arrive(c) ==
    \E k \in Keys :
        \/ RegLock(c, k)
        \/ \E pc \in {"withdraw", "mark", "arrive"} : LockRow(c, k, pc)

Proceed(c) ==
    \/ RegCheck(c)
    \/ RegCount(c)
    \/ RegCommit(c)
    \/ WithdrawCommit(c)
    \/ \E to \in PartStatuses : MarkCommit(c, to)
    \/ \E a \in Staff : CheckInRead(c, a)
    \/ CheckInCommit(c)
    \/ Refuse(c)

RegistrationNext ==
    \/ LifecycleStep
    \/ \E c \in Clients :
          \/ Arrive(c) \/ Proceed(c) \/ ConnectionLost(c)
          \/ RegWrite(c) \/ RegRoles(c)
    \/ \E n \in Capacities : SetCapacity(n)
    \/ \E u \in Users : AssignRole(u) \/ RevokeRole(u) \/ ChangeRole(u)

RegistrationSpec == RegistrationInit /\ [][RegistrationNext]_vars

-----------------------------------------------------------------------------
\* Properties

Admitted(k) == part[k] # "registered" /\ part'[k] = "registered"

\* However registrations, withdrawals, reschedulings and capacity changes
\* interleave, a registration never takes a session past the limit in force:
\* its own max_slots as it stands at the commit, and otherwise the venue
\* capacity that the request read (register_for_session).
AdmissionsWithinLimit ==
    [][\A k \in Keys : Admitted(k) =>
          LET taken == Cardinality(Active(k[2]))' IN
          IF session[k[2]].slots # NoLimit
          THEN taken <= session[k[2]].slots
          ELSE \E c \in Clients :
                  req[c].pc = "commit" /\ req[c].key = k /\ taken <= req[c].limit]_vars

\* Claim of event_participant_usecase.py (class docstring): "Locking the
\* session row also prevents a status-change race where a session transitions
\* to CANCELLED or ENDED between the status check and the insert."
AdmissionsWhilePosted ==
    [][\A k \in Keys : Admitted(k) => session[k[2]].status = "posted"]_vars

\* Claim of event_participant_usecase.py (class docstring): a cancellation, a
\* status update, a manual check-in and a scan "cannot interleave into an
\* impossible state": whoever is checked in counts as having attended.
CheckedInHasAttended ==
    \A k \in Keys : checkedBy[k] # Nobody => part[k] = "attended"

\* Whatever limits organizers and the venue set, and whenever they set them, a
\* session never holds more registrations than the largest of them allows
\* (register_for_session counts under the session's lock).
Limits == (SlotChoices \cup Capacities) \ {NoLimit}
OccupancyBounded ==
    \A s \in Sessions : \E n \in Limits : Cardinality(Active(s)) <= n

\* Requests that are each kept waiting by another of them would wait for ever.
\* None are: rows are locked in one order, sessions, registrations, roles, and a
\* user's roles in theirs (register_for_session, get_active_assignments_for_user).
\* Whoever waits to lock a first row holds none, so that nobody waits for it.
Awaited(c) ==
    (CASE req[c].pc = "write" -> {partLock[req[c].key]}
       [] req[c].pc = "roles" -> {roleLock[a] : a \in {req[c].key[1]} \X req[c].rows}
       [] OTHER -> {}) \ {NoOne, c}
NoCircleOfWaits ==
    \A C \in SUBSET Clients : C # {} => \E c \in C : Awaited(c) \cap C = {}

\* However revocations and registrations interleave, whoever is registered has a
\* role as the registration commits: the roles found stay locked until then, "so
\* a concurrent replacement cannot delete" them (get_active_assignments_for_user).
AdmittedHaveRole == [][\A k \in Keys : Admitted(k) => roles'[k[1]] # {}]_vars

\* Claim of event_participant_usecase.py (_assign_rbac_participant_role): the
\* role is assigned "only if they have no active role yet", so that "existing
\* roles (organizer, volunteer, etc.) are never overridden".
ExistingRolesStand ==
    [][\A k \in Keys : Admitted(k) /\ roles[k[1]] # {} =>
          roles'[k[1]] = roles[k[1]]]_vars

\* Two members of staff who check the same attendee in leave one record, the
\* first ("a single authoritative attendance timestamp").
FirstCheckInStands ==
    [][\A k \in Keys : checkedBy[k] # Nobody => checkedBy'[k] = checkedBy[k]]_vars

\* The locking transactions implement the one-step ledger.
ImplementsLedger == Ledger!Spec

\* A request that has started runs to its end as long as its process lives.
\* The locks on the registration row and on the roles can make it wait, and
\* PostgreSQL queues waiters, so that these steps are strongly fair.
ClientFairness ==
    \A c \in Clients :
        /\ WF_vars(Proceed(c))
        /\ SF_vars(RegWrite(c))
        /\ SF_vars(RegRoles(c))

FairRegistrationSpec == RegistrationSpec /\ ClientFairness

\* No request waits for ever for rows that others hold, whatever administrators
\* do to roles meanwhile: rows are always locked in one order.
RequestsFinish == \A c \in Clients : req[c].pc # "idle" ~> req[c].pc = "idle"

=============================================================================
