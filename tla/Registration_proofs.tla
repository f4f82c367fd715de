------------------------ MODULE Registration_proofs ------------------------
(***************************************************************************)
(* Session registration keeps its promises for any number of users,        *)
(* sessions, requests and slots: type correctness, the locking discipline, *)
(* the claims about admission and check-in that rest on it, and the        *)
(* refinement of AttendanceLedger.                                         *)
(***************************************************************************)
EXTENDS Registration, SessionLifecycle_proofs, FiniteSetTheorems

-----------------------------------------------------------------------------
\* The session rows' part of the system is the lifecycle by itself.

\* Seen through the event and session rows alone, registration is a behaviour
\* of the lifecycle: what is proved of it holds here.
LEMMA LifecycleSimulated == RegistrationSpec => Spec
<1>1. RegistrationInit => Init
  BY DEF RegistrationInit
<1>2. [RegistrationNext]_vars => [Next]_lifecycleVars
  BY DEF RegistrationNext, vars, LifecycleStep, Arrive, Proceed, RegLock, RegCheck,
         RegCount, RegWrite, RegRoles, RegCommit, LockRow, WithdrawCommit, MarkCommit,
         CheckInRead, CheckInCommit, Refuse, ConnectionLost, SetCapacity,
         AssignRole, RevokeRole, ChangeRole, Replace, lifecycleVars
<1>3. QED
  BY <1>1, <1>2, PTL DEF RegistrationSpec, Spec

-----------------------------------------------------------------------------
\* Types

\* count_active_participants counts a finite set of users.
LEMMA ActiveIsFinite ==
    ASSUME NEW s \in Sessions
    PROVE  /\ IsFiniteSet(Active(s)) /\ Cardinality(Active(s)) \in Nat
           /\ IsFiniteSet(Active(s)') /\ Cardinality(Active(s)') \in Nat
  <1>1. Active(s) \subseteq Users /\ Active(s)' \subseteq Users
    BY DEF Active
  <1>2. QED
    BY <1>1, RegistrationAssumption, FS_Subset, FS_CardinalityType

\* A client without a request is a well-typed one.
LEMMA NoRequestType == NoRequest \in Request
  BY DEF NoRequest, Request

\* The request records that the handlers' steps write are well typed.
LEMMA RequestUpdates ==
    ASSUME NEW q \in Request, NEW st \in PartStatuses \cup {"none"}, NEW n \in Nat
    PROVE  /\ [q EXCEPT !.pc = "count", !.seen = st, !.limit = n] \in Request
           /\ \A a \in Staff : [q EXCEPT !.pc = "checkin", !.actor = a] \in Request
           /\ [q EXCEPT !.pc = "write", !.count = n] \in Request
           /\ \A R \in SUBSET RoleRows : [q EXCEPT !.pc = "roles", !.rows = R] \in Request
           /\ [q EXCEPT !.pc = "commit"] \in Request
  <1>1. {"count", "checkin", "write", "roles", "commit"}
           \subseteq {"idle"} \cup Registering \cup RowHolding
    BY DEF Registering, RowHolding
  <1>2. QED
    BY <1>1 DEF Request

AttendanceTypes ==
    /\ part \in [Keys -> PartStatuses \cup {"none"}]
    /\ checkedBy \in [Keys -> Staff \cup {Nobody}]
    /\ capacity \in Capacities
    /\ roles \in [Users -> SUBSET RoleRows]
    /\ sessionLock \in [Sessions -> Clients \cup {NoOne}]
    /\ partLock \in [Keys -> Clients \cup {NoOne}]
    /\ roleLock \in [Users \X RoleRows -> Clients \cup {NoOne}]
    /\ req \in [Clients -> Request]

\* What a request holds: its pc says which rows, and those are its own.
Holds(c) ==
    /\ req[c].pc # "idle" => req[c].key \in Keys
    /\ req[c].pc \in Registering => sessionLock[req[c].key[2]] = c
    /\ req[c].pc \in RowHolding => partLock[req[c].key] = c

LocksHeld == \A c \in Clients : Holds(c)

\* Freeing the rows of one request leaves those of the others alone.
LEMMA ReleaseEffect ==
    ASSUME TypeOK, AttendanceTypes, LocksHeld, NEW c \in Clients, Release(c)
    PROVE  /\ sessionLock' \in [Sessions -> Clients \cup {NoOne}]
           /\ partLock' \in [Keys -> Clients \cup {NoOne}]
           /\ roleLock' \in [Users \X RoleRows -> Clients \cup {NoOne}]
           /\ req' \in [Clients -> Request]
           /\ LocksHeld'
           /\ req'[c].pc = "idle"
           /\ \A d \in Clients \ {c} : req'[d] = req[d]
  <1> USE DEF AttendanceTypes
  <1>1. /\ sessionLock' \in [Sessions -> Clients \cup {NoOne}]
        /\ partLock' \in [Keys -> Clients \cup {NoOne}]
        /\ roleLock' \in [Users \X RoleRows -> Clients \cup {NoOne}]
        /\ req' \in [Clients -> Request]
    BY NoRequestType DEF Release
  <1>2. req'[c].pc = "idle"
    BY DEF Release, NoRequest
  <1>3. \A d \in Clients \ {c} : req'[d] = req[d]
    BY DEF Release
  <1>4. ASSUME NEW d \in Clients \ {c}
        PROVE  Holds(d)'
    <2>1. \A s \in Sessions : sessionLock[s] = d => sessionLock'[s] = d
      BY DEF Release
    <2>2. \A k \in Keys : partLock[k] = d => partLock'[k] = d
      BY DEF Release
    <2>3. Holds(d) /\ req'[d] = req[d]
      BY <1>3 DEF LocksHeld
    <2>4. QED
      BY <2>1, <2>2, <2>3 DEF Holds, Keys, Registering, RowHolding
  <1>5. Holds(c)'
    BY <1>2 DEF Holds, Registering, RowHolding
  <1>6. QED
    BY <1>1, <1>2, <1>3, <1>4, <1>5 DEF LocksHeld

-----------------------------------------------------------------------------
\* What a request has read, and how much of it is still true.
AtRow == {"withdraw", "mark", "arrive", "checkin"}
Counted == {"write", "roles", "commit"}
Counting == {"count"} \cup Counted

Reads(c) ==
    LET r == req[c]  k == req[c].key IN
    /\ r.pc \in Registering => session[k[2]].status = "posted"
    /\ r.pc \in Counting =>
          /\ part[k] = r.seen
          /\ r.seen \notin {"registered", "attended"}
          /\ session[k[2]].slots # NoLimit => r.limit = session[k[2]].slots
    /\ r.pc \in Counted =>
          Cardinality(Active(k[2])) <= r.count /\ r.count < r.limit
    /\ r.pc \in AtRow => part[k] = r.seen /\ r.inside = (checkedBy[k] # Nobody)
    /\ r.pc = "checkin" => r.seen = "registered" /\ ~r.inside /\ r.actor \in Staff

RegistrationInv ==
    /\ TypeOK
    /\ AttendanceTypes
    /\ LocksHeld
    /\ \A c \in Clients : Reads(c)
    /\ CheckedInHasAttended

\* A request's reads survive the steps of others that leave the rows it has
\* locked, and the occupancy it has counted, no worse than it read them.
LEMMA ReadsStable ==
    ASSUME RegistrationInv, NEW d \in Clients, req'[d] = req[d],
           req[d].pc \in Registering => session'[req[d].key[2]] = session[req[d].key[2]],
           req[d].pc \in Counting \cup AtRow => part'[req[d].key] = part[req[d].key],
           req[d].pc \in AtRow => checkedBy'[req[d].key] = checkedBy[req[d].key],
           req[d].pc \in Counted =>
              Cardinality(Active(req[d].key[2])') <= Cardinality(Active(req[d].key[2]))
    PROVE  Reads(d)'
  <1> DEFINE r == req[d]
             k == r.key
  <1>1. r \in Request /\ (r.pc # "idle" => k \in Users \X Sessions)
    BY DEF RegistrationInv, AttendanceTypes, LocksHeld, Holds, Keys
  <1>2. Reads(d)
    BY DEF RegistrationInv
  <1>3. ASSUME r.pc \in Counted
        PROVE  Cardinality(Active(k[2])') <= r.count
    <2>1. k[2] \in Sessions
      BY <1>1, <1>3 DEF Counted
    <2>2. Cardinality(Active(k[2])) \in Nat /\ Cardinality(Active(k[2])') \in Nat
      BY <2>1, ActiveIsFinite
    <2>3. r.count \in Nat /\ Cardinality(Active(k[2])) <= r.count
      BY <1>1, <1>2, <1>3 DEF Reads, Request
    <2>4. QED
      BY <1>3, <2>2, <2>3
  <1>4. ASSUME r.pc \in Counted
        PROVE  Cardinality(Active(req[d].key[2]))' <= r.count
    BY <1>3, <1>4
  <1>5. QED
    BY <1>2, <1>4 DEF Reads, Registering, Counting, Counted, AtRow

\* Others' registrations cannot grow while one of a session's requests holds
\* the session row.
LEMMA SettlingShrinks ==
    ASSUME NEW k \in Keys, part \in [Keys -> PartStatuses \cup {"none"}],
           part[k] = "registered", NEW to, part' = [part EXCEPT ![k] = to],
           NEW s \in Sessions
    PROVE  Cardinality(Active(s)') <= Cardinality(Active(s))
  <1>1. Active(s)' \subseteq Active(s)
    BY DEF Active, Keys
  <1>2. QED
    BY <1>1, ActiveIsFinite, FS_Subset

-----------------------------------------------------------------------------
\* The invariant is kept by a step that reads or locks: it changes no row, takes
\* only free rows, and records in req[c] what is true.
LEMMA QuietStep ==
    ASSUME RegistrationInv, NEW c \in Clients, NEW r \in Request,
           req' = [req EXCEPT ![c] = r],
           UNCHANGED <<lifecycleVars, part, checkedBy, capacity, roles>>,
           sessionLock' \in [Sessions -> Clients \cup {NoOne}],
           partLock' \in [Keys -> Clients \cup {NoOne}],
           roleLock' \in [Users \X RoleRows -> Clients \cup {NoOne}],
           \A s \in Sessions : sessionLock[s] # NoOne => sessionLock'[s] = sessionLock[s],
           \A k \in Keys : partLock[k] # NoOne => partLock'[k] = partLock[k],
           Holds(c)', Reads(c)'
    PROVE  RegistrationInv'
  <1> USE DEF RegistrationInv
  <1>1. TypeOK'
    BY DEF TypeOK, lifecycleVars
  <1>2. AttendanceTypes'
    BY DEF AttendanceTypes
  <1>3. \A d \in Clients \ {c} : req'[d] = req[d]
    BY DEF AttendanceTypes
  <1>4. ASSUME NEW d \in Clients \ {c}
        PROVE  Holds(d)' /\ Reads(d)'
    <2>1. Holds(d)
      BY DEF LocksHeld
    <2>2. Holds(d)'
      BY <1>3, <2>1, RegistrationAssumption
         DEF Holds, Keys, Registering, RowHolding
    <2>3. \A s : Active(s)' = Active(s)
      BY DEF Active
    <2>4. ASSUME req[d].pc \in Counted
          PROVE  Cardinality(Active(req[d].key[2])') <= Cardinality(Active(req[d].key[2]))
      <3>1. req[d].key[2] \in Sessions
        BY <2>1, <2>4 DEF Holds, Keys, Counted
      <3>2. QED
        BY <2>3, <3>1, ActiveIsFinite
    <2>5. Reads(d)'
      BY <1>3, <2>4, ReadsStable DEF lifecycleVars
    <2>6. QED
      BY <2>2, <2>5
  <1>5. CheckedInHasAttended'
    BY DEF CheckedInHasAttended
  <1>6. QED
    BY <1>1, <1>2, <1>4, <1>5 DEF LocksHeld

\* The invariant is kept by the end of a transaction, if what it leaves behind
\* is no news to the transactions that hold a row it wrote.
LEMMA EndStep ==
    ASSUME RegistrationInv, NEW c \in Clients, Release(c),
           UNCHANGED <<lifecycleVars, capacity>>,
           part' \in [Keys -> PartStatuses \cup {"none"}],
           checkedBy' \in [Keys -> Staff \cup {Nobody}],
           roles' \in [Users -> SUBSET RoleRows],
           CheckedInHasAttended',
           \A d \in Clients \ {c} :
              /\ req[d].pc \in Counting \cup AtRow => part'[req[d].key] = part[req[d].key]
              /\ req[d].pc \in AtRow => checkedBy'[req[d].key] = checkedBy[req[d].key]
              /\ req[d].pc \in Counted =>
                    Cardinality(Active(req[d].key[2])') <= Cardinality(Active(req[d].key[2]))
    PROVE  RegistrationInv'
  <1> USE DEF RegistrationInv
  <1>1. TypeOK'
    BY DEF TypeOK, lifecycleVars
  <1>2. AttendanceTypes' /\ LocksHeld'
    BY ReleaseEffect DEF AttendanceTypes
  <1>3. ASSUME NEW d \in Clients \ {c}
        PROVE  Reads(d)'
    <2>1. req'[d] = req[d]
      BY ReleaseEffect
    <2>2. QED
      BY <2>1, ReadsStable DEF lifecycleVars
  <1>4. Reads(c)'
    BY ReleaseEffect DEF Reads, Registering, Counting, Counted, AtRow
  <1>5. QED
    BY <1>1, <1>2, <1>3, <1>4

-----------------------------------------------------------------------------
\* register_for_session, up to the commit
LEMMA RegisteringKeepsInv ==
    ASSUME RegistrationInv, NEW c \in Clients,
           \/ \E k \in Keys : RegLock(c, k)
           \/ RegCheck(c) \/ RegCount(c) \/ RegWrite(c) \/ RegRoles(c)
    PROVE  RegistrationInv'
  <1> USE DEF RegistrationInv, AttendanceTypes, locks
  <1>1. ASSUME NEW k \in Keys, RegLock(c, k)
        PROVE  RegistrationInv'
    <2> DEFINE r == [NoRequest EXCEPT !.pc = "check", !.key = k]
    <2>1. r \in Request /\ r.pc = "check" /\ r.key = k
      BY NoRequestType DEF Request, NoRequest, Registering
    <2>2. k[2] \in Sessions
      BY DEF Keys
    <2>3. req'[c] = r /\ sessionLock'[k[2]] = c /\ session' = session
      BY <1>1, <2>2 DEF RegLock, lifecycleVars
    <2>4. Holds(c)'
      BY <2>1, <2>3 DEF Holds, RowHolding
    <2>5. Reads(c)'
      BY <1>1, <2>1, <2>3 DEF RegLock, Reads, Counting, Counted, AtRow
    <2>6. QED
      BY <1>1, <2>1, <2>2, <2>4, <2>5, QuietStep DEF RegLock
  <1>2. ASSUME RegCheck(c)
        PROVE  RegistrationInv'
    <2> DEFINE k == req[c].key
               own == session[k[2]].slots
               limit == IF own = NoLimit THEN capacity ELSE own
               r == [req[c] EXCEPT !.pc = "count", !.seen = part[k], !.limit = limit]
    <2>1. k \in Keys /\ k[2] \in Sessions /\ sessionLock[k[2]] = c
      BY <1>2 DEF RegCheck, LocksHeld, Holds, Keys, Registering
    <2>2. own \in Nat \cup {NoLimit} /\ capacity \in Nat
      BY <2>1, LifecycleAssumption, RegistrationAssumption DEF TypeOK, SessionRow
    <2>3. r \in Request
      <3>1. limit \in Nat
        BY <2>2
      <3>2. req[c] \in Request /\ part[k] \in PartStatuses \cup {"none"}
        BY <2>1
      <3> HIDE DEF limit
      <3>3. QED
        BY <3>1, <3>2, RequestUpdates
    <2>4. /\ req' = [req EXCEPT ![c] = r]
          /\ UNCHANGED <<lifecycleVars, part, checkedBy, capacity, roles, locks>>
      BY <1>2 DEF RegCheck
    <2>5. Holds(c)'
      BY <2>1, <2>3, <2>4 DEF Holds, Request, RowHolding
    <2>6. /\ req'[c].pc = "count" /\ req'[c].key = k /\ req'[c].seen = part[k]
          /\ own # NoLimit => req'[c].limit = own
      BY <2>3, <2>4 DEF Request
    <2>7. session[k[2]].status = "posted" /\ part[k] \notin {"registered", "attended"}
      BY <1>2 DEF RegCheck, Reads, Registering
    <2>8. Reads(c)'
      BY <2>4, <2>6, <2>7 DEF Reads, AtRow, Counted, lifecycleVars
    <2>9. QED
      BY <2>3, <2>4, <2>5, <2>8, QuietStep
  <1>3. ASSUME RegCount(c)
        PROVE  RegistrationInv'
    <2> DEFINE k == req[c].key
               taken == Cardinality(Active(k[2]))
               r == [req[c] EXCEPT !.pc = "write", !.count = taken]
    <2>1. k \in Keys /\ k[2] \in Sessions /\ sessionLock[k[2]] = c
      BY <1>3 DEF RegCount, LocksHeld, Holds, Keys, Registering
    <2>2. taken \in Nat
      BY <2>1, ActiveIsFinite
    <2>3. r \in Request
      <3>1. req[c] \in Request
        OBVIOUS
      <3>2. "none" \in PartStatuses \cup {"none"}
        OBVIOUS
      <3> QED BY <2>2, <3>1, <3>2, RequestUpdates
    <2>4. /\ req' = [req EXCEPT ![c] = r]
          /\ UNCHANGED <<lifecycleVars, part, checkedBy, capacity, roles, locks>>
      BY <1>3 DEF RegCount
    <2>5. Holds(c)'
      BY <2>1, <2>3, <2>4 DEF Holds, Request, RowHolding
    <2>6. /\ req'[c].pc = "write" /\ req'[c].key = k /\ req'[c].seen = req[c].seen
          /\ req'[c].limit = req[c].limit /\ req'[c].count = taken
      BY <2>3, <2>4 DEF Request
    <2>7. Active(k[2])' = Active(k[2])
      BY <2>4 DEF Active
    <2>8. taken < req[c].limit /\ taken <= taken
      BY <1>3, <2>2 DEF RegCount
    <2>9. Reads(c) /\ req[c].pc = "count"
      BY <1>3 DEF RegCount
    <2>10. Reads(c)'
      BY <2>4, <2>6, <2>7, <2>8, <2>9 DEF Reads, AtRow, Counting, Counted, Registering, lifecycleVars
    <2>11. QED
      BY <2>3, <2>4, <2>5, <2>10, QuietStep
  <1>4. ASSUME RegWrite(c)
        PROVE  RegistrationInv'
    <2> DEFINE k == req[c].key
               r == [req[c] EXCEPT !.pc = "roles", !.rows = roles[k[1]]]
    <2>1. k \in Keys /\ k[2] \in Sessions /\ sessionLock[k[2]] = c
      BY <1>4 DEF RegWrite, LocksHeld, Holds, Keys, Registering
    <2>2. r \in Request
      <3>1. req[c] \in Request /\ roles[k[1]] \in SUBSET RoleRows
        BY <2>1 DEF Keys
      <3>2. "none" \in PartStatuses \cup {"none"} /\ 0 \in Nat
        OBVIOUS
      <3> QED BY <3>1, <3>2, RequestUpdates
    <2>3. /\ req' = [req EXCEPT ![c] = r]
          /\ partLock' = [partLock EXCEPT ![k] = c] /\ partLock[k] = NoOne
          /\ UNCHANGED <<lifecycleVars, part, checkedBy, capacity, roles, sessionLock,
                         roleLock>>
      BY <1>4 DEF RegWrite
    <2>4. /\ req'[c].pc = "roles" /\ req'[c].key = k /\ req'[c].seen = req[c].seen
          /\ req'[c].limit = req[c].limit /\ req'[c].count = req[c].count
      BY <2>2, <2>3 DEF Request
    <2>5. Holds(c)'
      BY <2>1, <2>3, <2>4 DEF Holds
    <2>6. Active(k[2])' = Active(k[2])
      BY <2>3 DEF Active
    <2>7. Reads(c) /\ req[c].pc = "write"
      BY <1>4 DEF RegWrite
    <2>8. Reads(c)'
      BY <2>3, <2>4, <2>6, <2>7 DEF Reads, AtRow, Counting, Counted, Registering, lifecycleVars
    <2>9. QED
      BY <2>1, <2>2, <2>3, <2>5, <2>8, QuietStep
  <1>5. ASSUME RegRoles(c)
        PROVE  RegistrationInv'
    <2> DEFINE k == req[c].key
               r == [req[c] EXCEPT !.pc = "commit"]
    <2>1. /\ k \in Keys /\ k[2] \in Sessions
          /\ sessionLock[k[2]] = c /\ partLock[k] = c
      BY <1>5 DEF RegRoles, LocksHeld, Holds, Keys, Registering, RowHolding
    <2>2. r \in Request
      <3>1. req[c] \in Request /\ "none" \in PartStatuses \cup {"none"} /\ 0 \in Nat
        OBVIOUS
      <3> QED BY <3>1, RequestUpdates
    <2>3. /\ req' = [req EXCEPT ![c] = r]
          /\ UNCHANGED <<lifecycleVars, part, checkedBy, capacity, roles, sessionLock,
                         partLock>>
          /\ roleLock' \in [Users \X RoleRows -> Clients \cup {NoOne}]
      BY <1>5 DEF RegRoles
    <2>4. /\ req'[c].pc = "commit" /\ req'[c].key = k /\ req'[c].seen = req[c].seen
          /\ req'[c].limit = req[c].limit /\ req'[c].count = req[c].count
      BY <2>2, <2>3 DEF Request
    <2>5. Holds(c)'
      BY <2>1, <2>3, <2>4 DEF Holds
    <2>6. Active(k[2])' = Active(k[2])
      BY <2>3 DEF Active
    <2>7. Reads(c) /\ req[c].pc = "roles"
      BY <1>5 DEF RegRoles
    <2>8. Reads(c)'
      BY <2>3, <2>4, <2>6, <2>7
         DEF Reads, AtRow, Counting, Counted, Registering, lifecycleVars
    <2>9. QED
      BY <2>2, <2>3, <2>5, <2>8, QuietStep
  <1>6. QED
    BY <1>1, <1>2, <1>3, <1>4, <1>5

\* The requests that lock a registration row, and the read before a check-in
LEMMA LockingKeepsInv ==
    ASSUME RegistrationInv, NEW c \in Clients,
           \/ \E k \in Keys, pc \in {"withdraw", "mark", "arrive"} : LockRow(c, k, pc)
           \/ \E a \in Staff : CheckInRead(c, a)
    PROVE  RegistrationInv'
  <1> USE DEF RegistrationInv, AttendanceTypes, locks
  <1>1. ASSUME NEW k \in Keys, NEW pc \in {"withdraw", "mark", "arrive"}, LockRow(c, k, pc)
        PROVE  RegistrationInv'
    <2> DEFINE r == [NoRequest EXCEPT !.pc = pc, !.key = k, !.seen = part[k],
                                      !.inside = (checkedBy[k] # Nobody)]
    <2>1. r \in Request
      BY NoRequestType DEF Request, RowHolding
    <2>2. r.pc = pc /\ r.key = k /\ r.seen = part[k] /\ r.inside = (checkedBy[k] # Nobody)
      BY DEF NoRequest
    <2>3. /\ req' = [req EXCEPT ![c] = r]
          /\ partLock' = [partLock EXCEPT ![k] = c] /\ partLock[k] = NoOne
          /\ UNCHANGED <<lifecycleVars, part, checkedBy, capacity, roles, sessionLock,
                         roleLock>>
      BY <1>1 DEF LockRow
    <2>4. req'[c] = r
      BY <2>3
    <2>5. Holds(c)'
      BY <2>2, <2>3, <2>4 DEF Holds, Registering, RowHolding
    <2>6. Reads(c)'
      BY <2>2, <2>3, <2>4 DEF Reads, Registering, Counting, Counted, AtRow
    <2>7. QED
      BY <2>1, <2>3, <2>5, <2>6, QuietStep
  <1>2. ASSUME NEW a \in Staff, CheckInRead(c, a)
        PROVE  RegistrationInv'
    <2> DEFINE r == [req[c] EXCEPT !.pc = "checkin", !.actor = a]
    <2>1. r \in Request
      BY RequestUpdates
    <2>2. /\ req' = [req EXCEPT ![c] = r]
          /\ UNCHANGED <<lifecycleVars, part, checkedBy, capacity, roles, locks>>
      BY <1>2 DEF CheckInRead
    <2>3. /\ req'[c].pc = "checkin" /\ req'[c].key = req[c].key /\ req'[c].actor = a
          /\ req'[c].seen = req[c].seen /\ req'[c].inside = req[c].inside
      BY <2>1, <2>2 DEF Request
    <2>4. Holds(c) /\ Reads(c) /\ req[c].pc = "arrive" /\ req[c].seen = "registered"
             /\ ~req[c].inside
      BY <1>2 DEF CheckInRead, LocksHeld
    <2>5. Holds(c)'
      BY <2>2, <2>3, <2>4 DEF Holds, Registering, RowHolding
    <2>6. Reads(c)'
      BY <2>2, <2>3, <2>4 DEF Reads, Registering, Counting, Counted, AtRow
    <2>7. QED
      BY <2>1, <2>2, <2>5, <2>6, QuietStep
  <1>3. QED
    BY <1>1, <1>2

-----------------------------------------------------------------------------
\* The commit of a registration adds one to a session that no other request has
\* counted, and writes a row that no other request holds.
LEMMA RegCommitKeepsInv ==
    ASSUME RegistrationInv, NEW c \in Clients, RegCommit(c)
    PROVE  RegistrationInv'
  <1> USE DEF RegistrationInv, AttendanceTypes, locks
  <1> DEFINE k == req[c].key
  <1>1. /\ k \in Keys /\ k[1] \in Users /\ k[2] \in Sessions /\ k = <<k[1], k[2]>>
        /\ sessionLock[k[2]] = c /\ partLock[k] = c
    BY DEF RegCommit, LocksHeld, Holds, Keys, Registering, RowHolding
  <1>2. /\ part' = [part EXCEPT ![k] = "registered"]
        /\ \/ UNCHANGED roles
           \/ \E r \in RoleRows : roles' = [roles EXCEPT ![k[1]] = @ \cup {r}]
        /\ Release(c) /\ UNCHANGED <<lifecycleVars, checkedBy, capacity>>
    BY DEF RegCommit
  <1>3. part' \in [Keys -> PartStatuses \cup {"none"}]
    BY <1>2 DEF PartStatuses
  <1>4. roles' \in [Users -> SUBSET RoleRows]
    BY <1>1, <1>2
  <1>5. part[k] \notin {"registered", "attended"}
    BY DEF RegCommit, Reads, Counting, Counted
  <1>6. CheckedInHasAttended'
    BY <1>1, <1>2, <1>5 DEF CheckedInHasAttended
  <1>7. ASSUME NEW d \in Clients \ {c}
        PROVE  /\ req[d].pc \in Counting \cup AtRow => part'[req[d].key] = part[req[d].key]
               /\ req[d].pc \in AtRow => checkedBy'[req[d].key] = checkedBy[req[d].key]
               /\ req[d].pc \in Counted =>
                     Cardinality(Active(req[d].key[2])') <= Cardinality(Active(req[d].key[2]))
    <2> DEFINE kd == req[d].key
    <2>1. Holds(d)
      BY DEF LocksHeld
    <2>2. req[d].pc \in Counting => kd[2] # k[2]
      BY <1>1, <2>1 DEF Holds, Counting, Counted, Registering
    <2>3. req[d].pc \in AtRow => kd # k
      BY <1>1, <2>1 DEF Holds, AtRow, RowHolding
    <2>4. req[d].pc \in Counting \cup AtRow => kd \in Keys /\ kd # k
      BY <2>1, <2>2, <2>3 DEF Holds, Counting, Counted, AtRow
    <2>5. req[d].pc \in Counting \cup AtRow => part'[kd] = part[kd]
      BY <1>2, <2>4
    <2>6. ASSUME req[d].pc \in Counted
          PROVE  Cardinality(Active(kd[2])') <= Cardinality(Active(kd[2]))
      <3>1. kd[2] \in Sessions /\ kd[2] # k[2]
        BY <2>2, <2>4, <2>6 DEF Counting, Counted, Keys
      <3>2. \A s \in Sessions \ {k[2]} : Active(s)' = Active(s)
        BY <1>1, <1>2 DEF Active, Keys
      <3>3. req'[d] = req[d]
        BY <1>2, ReleaseEffect
      <3>4. Cardinality(Active(kd[2])) \in Nat
        BY <3>1, ActiveIsFinite
      <3>5. QED
        BY <3>1, <3>2, <3>3, <3>4
    <2>7. QED
      BY <1>2, <2>5, <2>6
  <1>8. QED
    BY <1>2, <1>3, <1>4, <1>6, <1>7, EndStep

\* The end of a registered row - withdrawn, marked or checked in - is written by
\* the one request that holds it, and frees a slot or keeps it.
LEMMA SettlingKeepsInv ==
    ASSUME RegistrationInv, NEW c \in Clients,
           \/ WithdrawCommit(c) \/ CheckInCommit(c)
           \/ \E to \in PartStatuses : MarkCommit(c, to)
    PROVE  RegistrationInv'
  <1> USE DEF RegistrationInv, AttendanceTypes, locks
  <1> DEFINE k == req[c].key
  <1>1. /\ k \in Keys /\ partLock[k] = c /\ part[k] = "registered"
        /\ checkedBy[k] = Nobody
    <2>1. req[c].pc \in AtRow /\ req[c].pc \in RowHolding /\ req[c].pc # "idle"
      BY DEF WithdrawCommit, CheckInCommit, MarkCommit, AtRow, RowHolding
    <2>2. k \in Keys /\ partLock[k] = c /\ part[k] = req[c].seen
      BY <2>1 DEF LocksHeld, Holds, Reads
    <2>3. req[c].seen = "registered"
      BY DEF WithdrawCommit, CheckInCommit, MarkCommit, AllowedParticipantTransitions, Reads
    <2>4. checkedBy[k] = Nobody
      BY <2>2, <2>3 DEF CheckedInHasAttended
    <2>5. QED
      BY <2>2, <2>3, <2>4
  <1>2. PICK to \in {"cancelled", "attended", "no_show"} :
           part' = [part EXCEPT ![k] = to]
    BY DEF WithdrawCommit, CheckInCommit, MarkCommit, AllowedParticipantTransitions
  <1>3. PICK a \in Staff \cup {Nobody} :
           checkedBy' = [checkedBy EXCEPT ![k] = a] /\ (a # Nobody => to = "attended")
    <2>1. CASE CheckInCommit(c)
      <3>1. req[c].actor \in Staff
        BY <2>1 DEF CheckInCommit, Reads
      <3>2. to = "attended"
        BY <1>1, <1>2, <2>1 DEF CheckInCommit
      <3>3. QED
        BY <2>1, <3>1, <3>2 DEF CheckInCommit
    <2>2. CASE UNCHANGED checkedBy
      <3>1. checkedBy' = [checkedBy EXCEPT ![k] = Nobody]
        BY <1>1, <2>2
      <3>2. QED
        BY <3>1
    <2>3. QED
      BY <2>1, <2>2 DEF WithdrawCommit, MarkCommit
  <1>4. Release(c) /\ UNCHANGED <<lifecycleVars, capacity, roles>>
    BY DEF WithdrawCommit, CheckInCommit, MarkCommit
  <1>5. /\ part' \in [Keys -> PartStatuses \cup {"none"}]
        /\ checkedBy' \in [Keys -> Staff \cup {Nobody}]
        /\ roles' \in [Users -> SUBSET RoleRows]
    BY <1>2, <1>3, <1>4 DEF PartStatuses
  <1>6. CheckedInHasAttended'
    BY <1>1, <1>2, <1>3 DEF CheckedInHasAttended
  <1>7. ASSUME NEW d \in Clients \ {c}
        PROVE  /\ req[d].pc \in Counting \cup AtRow => part'[req[d].key] = part[req[d].key]
               /\ req[d].pc \in AtRow => checkedBy'[req[d].key] = checkedBy[req[d].key]
               /\ req[d].pc \in Counted =>
                     Cardinality(Active(req[d].key[2])') <= Cardinality(Active(req[d].key[2]))
    <2> DEFINE kd == req[d].key
    <2>1. Holds(d) /\ Reads(d)
      BY DEF LocksHeld
    <2>2. req[d].pc \in Counting => kd # k
      BY <1>1, <2>1 DEF Reads
    <2>3. req[d].pc \in AtRow => kd # k
      BY <1>1, <2>1 DEF Holds, AtRow, RowHolding
    <2>4. req[d].pc \in Counting \cup AtRow => kd \in Keys
      BY <2>1 DEF Holds, Counting, Counted, AtRow
    <2>5. req[d].pc \in Counted => kd[2] \in Sessions
      BY <2>4 DEF Counting, Counted, Keys
    <2>6. req[d].pc \in Counted =>
             Cardinality(Active(kd[2])') <= Cardinality(Active(kd[2]))
      <3>1. \A s \in Sessions : Cardinality(Active(s)') <= Cardinality(Active(s))
        BY <1>1, <1>2, SettlingShrinks
      <3>2. req'[d] = req[d]
        BY <1>4, ReleaseEffect
      <3>3. QED
        BY <2>5, <3>1, <3>2
    <2>7. QED
      BY <1>2, <1>3, <2>2, <2>3, <2>4, <2>6
  <1>8. QED
    BY <1>4, <1>5, <1>6, <1>7, EndStep

\* A request that is refused, or loses its connection, leaves every row alone.
LEMMA RollbackKeepsInv ==
    ASSUME RegistrationInv, NEW c \in Clients, Refuse(c) \/ ConnectionLost(c)
    PROVE  RegistrationInv'
  <1> USE DEF RegistrationInv, AttendanceTypes, locks
  <1>1. Release(c) /\ UNCHANGED <<lifecycleVars, part, checkedBy, capacity, roles>>
    BY DEF Refuse, ConnectionLost
  <1>2. CheckedInHasAttended'
    BY <1>1 DEF CheckedInHasAttended
  <1>3. ASSUME NEW d \in Clients \ {c}, req[d].pc \in Counted
        PROVE  Cardinality(Active(req[d].key[2])') <= Cardinality(Active(req[d].key[2]))
    <2>1. req[d].key[2] \in Sessions
      BY <1>3 DEF LocksHeld, Holds, Keys, Counted
    <2>2. \A s : Active(s)' = Active(s)
      BY <1>1 DEF Active
    <2>3. req'[d] = req[d]
      BY <1>1, ReleaseEffect
    <2>4. Cardinality(Active(req[d].key[2])) \in Nat
      BY <2>1, ActiveIsFinite
    <2>5. QED
      BY <2>2, <2>3, <2>4
  <1>4. QED
    BY <1>1, <1>2, <1>3, EndStep

\* Organizers, the clock and the venue change no registration, and no session
\* row that a registering request holds.
LEMMA LifecycleKeepsInv ==
    ASSUME RegistrationInv, TypeOK',
           LifecycleStep \/ (\E n \in Capacities : SetCapacity(n)) \/ UNCHANGED vars
    PROVE  RegistrationInv'
  <1> USE DEF RegistrationInv, AttendanceTypes, locks
  <1>1. /\ UNCHANGED <<part, checkedBy, roles, locks, req>>
        /\ capacity' \in Capacities
        /\ \A s \in Sessions : session'[s] # session[s] => sessionLock[s] = NoOne
    BY DEF LifecycleStep, SetCapacity, vars, attendanceVars, lifecycleVars
  <1>2. AttendanceTypes' /\ LocksHeld' /\ CheckedInHasAttended'
    BY <1>1 DEF LocksHeld, Holds, CheckedInHasAttended
  <1>3. ASSUME NEW d \in Clients
        PROVE  Reads(d)'
    <2>1. Holds(d)
      BY DEF LocksHeld
    <2>2. req[d].pc \in Registering => session'[req[d].key[2]] = session[req[d].key[2]]
      BY <1>1, <2>1, RegistrationAssumption DEF Holds, Keys, Registering
    <2>3. ASSUME req[d].pc \in Counted
          PROVE  Cardinality(Active(req[d].key[2])') <= Cardinality(Active(req[d].key[2]))
      <3>1. req[d].key[2] \in Sessions
        BY <2>1, <2>3 DEF Holds, Keys, Counted
      <3>2. Active(req[d].key[2])' = Active(req[d].key[2])
        BY <1>1 DEF Active
      <3>3. QED
        BY <3>1, <3>2, ActiveIsFinite
    <2>4. QED
      BY <1>1, <2>2, <2>3, ReadsStable
  <1>4. QED
    BY <1>2, <1>3

\* What a change of a user's roles leaves of a request: all but the assignments
\* that it has found.
ButRows(q) == <<q.pc, q.key, q.seen, q.inside, q.limit, q.count, q.actor>>

LEMMA ReplaceEffect ==
    ASSUME AttendanceTypes, NEW u \in Users,
           AssignRole(u) \/ RevokeRole(u) \/ ChangeRole(u)
    PROVE  /\ UNCHANGED <<lifecycleVars, part, checkedBy, capacity, locks>>
           /\ roles' \in [Users -> SUBSET RoleRows] /\ req' \in [Clients -> Request]
           /\ \A c \in Clients : ButRows(req'[c]) = ButRows(req[c])
  <1> USE DEF AttendanceTypes
  <1>1. PICK old \in SUBSET roles[u], new \in SUBSET RoleRows : Replace(u, old, new)
    BY DEF AssignRole, RevokeRole, ChangeRole
  <1>2. ASSUME NEW c \in Clients
        PROVE  req'[c] \in Request /\ ButRows(req'[c]) = ButRows(req[c])
    BY <1>1 DEF Replace, Request, ButRows
  <1>3. QED
    BY <1>1, <1>2 DEF Replace

\* Administrators' changes of roles touch nothing that a request holds or reads.
LEMMA RoleChangeKeepsInv ==
    ASSUME RegistrationInv, NEW u \in Users,
           AssignRole(u) \/ RevokeRole(u) \/ ChangeRole(u)
    PROVE  RegistrationInv'
  <1> USE DEF RegistrationInv
  <1>1. /\ UNCHANGED <<lifecycleVars, part, checkedBy, capacity, locks>>
        /\ roles' \in [Users -> SUBSET RoleRows] /\ req' \in [Clients -> Request]
        /\ \A c \in Clients : ButRows(req'[c]) = ButRows(req[c])
    BY ReplaceEffect
  <1>2. TypeOK' /\ AttendanceTypes' /\ CheckedInHasAttended'
    BY <1>1 DEF TypeOK, lifecycleVars, AttendanceTypes, locks, CheckedInHasAttended
  <1>3. ASSUME NEW c \in Clients
        PROVE  Holds(c)' /\ Reads(c)'
    <2>1. Holds(c) /\ Reads(c)
      BY DEF LocksHeld
    <2>2. Holds(c)'
      BY <1>1, <2>1 DEF Holds, ButRows, locks
    <2>3. \A s : Active(s)' = Active(s)
      BY <1>1 DEF Active
    <2>4. Reads(c)'
      BY <1>1, <2>1, <2>3 DEF Reads, ButRows, lifecycleVars
    <2>5. QED
      BY <2>2, <2>4
  <1>4. QED
    BY <1>2, <1>3 DEF LocksHeld

\* What every request holds and has read is true of the rows it will write.
THEOREM RegistrationInvariant == RegistrationSpec => []RegistrationInv
<1>1. RegistrationInit => RegistrationInv
  <2> SUFFICES ASSUME RegistrationInit PROVE RegistrationInv
    OBVIOUS
  <2>1. TypeOK
    BY LifecycleAssumption, NoEditType DEF RegistrationInit, Init, TypeOK
  <2>2. AttendanceTypes /\ CheckedInHasAttended
    BY NoRequestType DEF RegistrationInit, AttendanceTypes, CheckedInHasAttended
  <2>3. \A c \in Clients : req[c].pc = "idle"
    BY DEF RegistrationInit, NoRequest
  <2>4. LocksHeld /\ \A c \in Clients : Reads(c)
    BY <2>3 DEF LocksHeld, Holds, Reads, Registering, RowHolding, Counting, Counted, AtRow
  <2>5. QED
    BY <2>1, <2>2, <2>4 DEF RegistrationInv
<1>2. RegistrationInv /\ TypeOK' /\ [RegistrationNext]_vars => RegistrationInv'
  BY RegisteringKeepsInv, LockingKeepsInv, RegCommitKeepsInv, SettlingKeepsInv,
     RollbackKeepsInv, LifecycleKeepsInv, RoleChangeKeepsInv
     DEF RegistrationNext, Arrive, Proceed
<1>3. QED
  BY <1>1, <1>2, LifecycleSimulated, LifecycleTypeCorrect, PTL DEF RegistrationSpec

-----------------------------------------------------------------------------
\* The promises, from the invariant.

\* Registration's variables keep their types.
THEOREM RegistrationTypeCorrect == RegistrationSpec => []RegistrationTypeOK
<1>1. RegistrationInv => RegistrationTypeOK
  BY DEF RegistrationInv, AttendanceTypes, RegistrationTypeOK
<1>2. QED
  BY <1>1, RegistrationInvariant, PTL

\* Whoever is checked in counts as having attended (withdraw_registration,
\* update_participant_status, check_in_participant).
THEOREM CheckInsAreConsistent == RegistrationSpec => []CheckedInHasAttended
<1>1. RegistrationInv => CheckedInHasAttended
  BY DEF RegistrationInv
<1>2. QED
  BY <1>1, RegistrationInvariant, PTL

\* Registrations and check-ins change in four ways only.
LEMMA AttendanceChanges ==
    ASSUME RegistrationInv, [RegistrationNext]_vars
    PROVE  \/ UNCHANGED <<part, checkedBy>>
           \/ \E c \in Clients : RegCommit(c)
           \/ \E c \in Clients : /\ WithdrawCommit(c) \/ (\E to \in PartStatuses : MarkCommit(c, to))
                              /\ UNCHANGED <<session, checkedBy>>
           \/ \E c \in Clients : CheckInCommit(c)
  BY DEF RegistrationNext, vars, attendanceVars, lifecycleVars, LifecycleStep, Arrive,
         Proceed, RegLock, RegCheck, RegCount, RegWrite, RegRoles, LockRow,
         WithdrawCommit, MarkCommit, CheckInRead, Refuse, ConnectionLost, SetCapacity,
         AssignRole, RevokeRole, ChangeRole, Replace

\* A registration is admitted by the commit of a request that holds its session.
LEMMA AdmittedByCommit ==
    ASSUME RegistrationInv, [RegistrationNext]_vars, NEW k \in Keys, Admitted(k)
    PROVE  \E c \in Clients : RegCommit(c) /\ req[c].key = k
  <1> USE DEF RegistrationInv, AttendanceTypes, locks
  <1>1. ASSUME NEW c \in Clients,
               WithdrawCommit(c) \/ CheckInCommit(c) \/ (\E to \in PartStatuses : MarkCommit(c, to))
        PROVE  FALSE
    BY <1>1 DEF Admitted, WithdrawCommit, CheckInCommit, MarkCommit, AllowedParticipantTransitions
  <1>2. ASSUME NEW c \in Clients, RegCommit(c)
        PROVE  req[c].key = k
    BY <1>2 DEF Admitted, RegCommit
  <1>3. PICK c \in Clients : RegCommit(c)
    BY <1>1, AttendanceChanges DEF Admitted
  <1>4. QED
    BY <1>2, <1>3

\* A session cannot close between the check of its status and the insert
\* (register_for_session).
THEOREM OnlyPostedSessionsAdmit == RegistrationSpec => AdmissionsWhilePosted
<1>1. ASSUME RegistrationInv, [RegistrationNext]_vars, NEW k \in Keys, Admitted(k)
      PROVE  session[k[2]].status = "posted"
  <2>1. PICK c \in Clients : RegCommit(c) /\ req[c].key = k
    BY <1>1, AdmittedByCommit
  <2>2. QED
    BY <1>1, <2>1 DEF RegCommit, RegistrationInv, Reads, Registering
<1>2. RegistrationInv /\ [RegistrationNext]_vars
         => [\A k \in Keys : Admitted(k) => session[k[2]].status = "posted"]_vars
  BY <1>1
<1>3. QED
  BY <1>2, RegistrationInvariant, PTL DEF RegistrationSpec, AdmissionsWhilePosted

\* The commit of a registration leaves at most limit registrations, however many
\* requests race for the session.
LEMMA CommitWithinLimit ==
    ASSUME RegistrationInv, NEW c \in Clients, RegCommit(c), NEW s \in Sessions,
           s = req[c].key[2]
    PROVE  /\ Cardinality(Active(s)) < req[c].limit
           /\ Cardinality(Active(s)') <= req[c].limit
  <1> USE DEF RegistrationInv, AttendanceTypes, locks
  <1> DEFINE k == req[c].key
  <1>1. k \in Keys /\ k[1] \in Users /\ k = <<k[1], s>>
    BY DEF RegCommit, LocksHeld, Holds, Keys
  <1>2. /\ Cardinality(Active(s)) <= req[c].count /\ req[c].count < req[c].limit
        /\ req[c].count \in Nat /\ req[c].limit \in Nat
    BY DEF RegCommit, Reads, Request, Counted
  <1>3. Active(s)' \subseteq Active(s) \cup {k[1]}
    BY <1>1 DEF RegCommit, Active, Keys
  <1>4. /\ IsFiniteSet(Active(s) \cup {k[1]})
        /\ Cardinality(Active(s) \cup {k[1]}) <= Cardinality(Active(s)) + 1
    <2>1. IsFiniteSet(Active(s)) /\ Cardinality(Active(s)) \in Nat
      BY ActiveIsFinite
    <2>2. /\ IsFiniteSet(Active(s) \cup {k[1]})
          /\ Cardinality(Active(s) \cup {k[1]})
                = IF k[1] \in Active(s) THEN Cardinality(Active(s))
                  ELSE Cardinality(Active(s)) + 1
      BY <2>1, FS_AddElement
    <2>3. QED
      BY <2>1, <2>2
  <1>5. Cardinality(Active(s)') <= Cardinality(Active(s) \cup {k[1]})
    BY <1>3, <1>4, FS_Subset
  <1>6. /\ Cardinality(Active(s)) \in Nat /\ Cardinality(Active(s)') \in Nat
        /\ Cardinality(Active(s) \cup {k[1]}) \in Nat
    BY <1>4, ActiveIsFinite, FS_CardinalityType
  <1>7. QED
    BY <1>2, <1>4, <1>5, <1>6

\* No interleaving takes a session past the limit in force
\* (register_for_session).
THEOREM SlotsAreRespected == RegistrationSpec => AdmissionsWithinLimit
<1> DEFINE Within(k) ==
       LET taken == Cardinality(Active(k[2]))' IN
       IF session[k[2]].slots # NoLimit
       THEN taken <= session[k[2]].slots
       ELSE \E c \in Clients : req[c].pc = "commit" /\ req[c].key = k /\ taken <= req[c].limit
<1>1. ASSUME RegistrationInv, [RegistrationNext]_vars, NEW k \in Keys, Admitted(k)
      PROVE  Within(k)
  <2>1. PICK c \in Clients : RegCommit(c) /\ req[c].key = k
    BY <1>1, AdmittedByCommit
  <2>2. k[2] \in Sessions
    BY DEF Keys
  <2>3. Cardinality(Active(k[2]))' <= req[c].limit
    BY <1>1, <2>1, <2>2, CommitWithinLimit
  <2>4. session[k[2]].slots # NoLimit => req[c].limit = session[k[2]].slots
    BY <1>1, <2>1 DEF RegCommit, RegistrationInv, Reads, Counting, Counted
  <2>5. QED
    BY <2>1, <2>3, <2>4 DEF RegCommit
<1>2. RegistrationInv /\ [RegistrationNext]_vars
         => [\A k \in Keys : Admitted(k) => Within(k)]_vars
  BY <1>1
<1>3. QED
  BY <1>2, RegistrationInvariant, PTL DEF RegistrationSpec, AdmissionsWithinLimit

\* A check-in happens to a registration that is not checked in.
LEMMA CheckInIsFirst ==
    ASSUME RegistrationInv, NEW c \in Clients, CheckInCommit(c)
    PROVE  /\ req[c].key \in Keys /\ req[c].actor \in Staff
           /\ part[req[c].key] = "registered" /\ checkedBy[req[c].key] = Nobody
  <1>1. req[c].key \in Keys
    BY DEF CheckInCommit, RegistrationInv, LocksHeld, Holds
  <1>2. QED
    BY <1>1 DEF CheckInCommit, RegistrationInv, AttendanceTypes, Reads, AtRow

\* The first check-in of an attendee is the one on record
\* (check_in_participant).
THEOREM FirstCheckInIsKept == RegistrationSpec => FirstCheckInStands
<1>1. ASSUME RegistrationInv, [RegistrationNext]_vars, NEW k \in Keys, checkedBy[k] # Nobody
      PROVE  checkedBy'[k] = checkedBy[k]
  <2>1. ASSUME NEW c \in Clients, CheckInCommit(c)
        PROVE  checkedBy'[k] = checkedBy[k]
    BY <1>1, <2>1, CheckInIsFirst DEF CheckInCommit, RegistrationInv, AttendanceTypes
  <2>2. QED
    BY <1>1, <2>1, AttendanceChanges DEF RegCommit
<1>2. RegistrationInv /\ [RegistrationNext]_vars
         => [\A k \in Keys : checkedBy[k] # Nobody => checkedBy'[k] = checkedBy[k]]_vars
  BY <1>1
<1>3. QED
  BY <1>2, RegistrationInvariant, PTL DEF RegistrationSpec, FirstCheckInStands

-----------------------------------------------------------------------------
\* The ledger counts as this module does.
LEMMA LedgerCardinality ==
    ASSUME NEW S
    PROVE  Ledger!Cardinality(S) = Cardinality(S)
  BY DEF Ledger!Cardinality, Cardinality

\* Each transaction takes effect at its commit, as one step of the ledger.
THEOREM RegistrationImplementsLedger == RegistrationSpec => ImplementsLedger
<1>1. RegistrationInit => Ledger!Init
  BY DEF RegistrationInit, Ledger!Init, Ledger!Keys, Keys
<1>2. RegistrationInv /\ [RegistrationNext]_vars => [Ledger!Next]_(Ledger!ledgerVars)
  <2> SUFFICES ASSUME RegistrationInv, [RegistrationNext]_vars
               PROVE  Ledger!Next
    OBVIOUS
  <2> USE DEF RegistrationInv, AttendanceTypes
  <2>1. ASSUME NEW c \in Clients, RegCommit(c)
        PROVE  Ledger!Next
    <3> DEFINE k == req[c].key
    <3>1. k \in Keys /\ k[2] \in Sessions
      BY <2>1 DEF RegCommit, LocksHeld, Holds, Keys
    <3>2. session[k[2]].status = "posted" /\ part[k] \notin {"registered", "attended"}
      BY <2>1 DEF RegCommit, Reads, Counting, Counted, Registering
    <3>3. session[k[2]].slots # NoLimit => Cardinality(Active(k[2])) < session[k[2]].slots
      BY <2>1, <3>1, CommitWithinLimit DEF RegCommit, Reads, Counting, Counted
    <3>4. Ledger!Active(k[2]) = Active(k[2])
      BY DEF Ledger!Active, Active
    <3>5. part' = [part EXCEPT ![k] = "registered"] /\ UNCHANGED <<session, checkedBy>>
      BY <2>1 DEF RegCommit, lifecycleVars
    <3>6. Ledger!Admit(k)
      BY <3>2, <3>3, <3>4, <3>5, LedgerCardinality DEF Ledger!Admit
    <3>7. QED
      BY <3>1, <3>6 DEF Ledger!Next, Ledger!Keys, Keys
  <2>2. ASSUME NEW c \in Clients,
               WithdrawCommit(c) \/ (\E to \in PartStatuses : MarkCommit(c, to)),
               UNCHANGED <<session, checkedBy>>
        PROVE  Ledger!Next
    <3> DEFINE k == req[c].key
    <3>1. req[c].pc \in AtRow /\ req[c].pc # "idle" /\ req[c].seen = "registered"
      BY <2>2 DEF WithdrawCommit, MarkCommit, AllowedParticipantTransitions, AtRow
    <3>2. k \in Keys /\ part[k] = "registered"
      BY <3>1 DEF LocksHeld, Holds, Reads
    <3>3. PICK to \in {"attended", "cancelled", "no_show"} :
             part' = [part EXCEPT ![k] = to]
      BY <2>2 DEF WithdrawCommit, MarkCommit, AllowedParticipantTransitions
    <3>4. Ledger!Settle(k, to)
      BY <2>2, <3>2, <3>3 DEF Ledger!Settle
    <3>5. QED
      BY <3>2, <3>4 DEF Ledger!Next, Ledger!Keys, Keys
  <2>3. ASSUME NEW c \in Clients, CheckInCommit(c)
        PROVE  Ledger!Next
    <3>1. Ledger!CheckIn(req[c].key, req[c].actor)
      BY <2>3, CheckInIsFirst DEF CheckInCommit, lifecycleVars, Ledger!CheckIn
    <3>2. QED
      BY <2>3, <3>1, CheckInIsFirst DEF Ledger!Next, Ledger!Keys, Keys
  <2>4. CASE UNCHANGED <<part, checkedBy>>
    BY <2>4 DEF Ledger!Next, Ledger!Reschedule
  <2>5. QED
    BY <2>1, <2>2, <2>3, <2>4, AttendanceChanges
<1>3. QED
  BY <1>1, <1>2, RegistrationInvariant, PTL
     DEF RegistrationSpec, ImplementsLedger, Ledger!Spec

-----------------------------------------------------------------------------
\* Where the steps of a request lead.
OnlyOf(c) == \A d \in Clients \ {c} : req'[d] = req[d]
Locking(c) ==
    \/ \E k \in Keys : RegLock(c, k)
    \/ \E k \in Keys, pc \in {"withdraw", "mark", "arrive"} : LockRow(c, k, pc)
    \/ \E a \in Staff : CheckInRead(c, a)
Ending(c) ==
    \/ WithdrawCommit(c) \/ CheckInCommit(c)
    \/ \E to \in PartStatuses : MarkCommit(c, to)
    \/ Refuse(c) \/ ConnectionLost(c)

LEMMA WhereStepsLead ==
    ASSUME AttendanceTypes, NEW c \in Clients
    PROVE  /\ Locking(c) => OnlyOf(c) /\ req'[c].pc \notin Counting
           /\ RegCheck(c) => OnlyOf(c) /\ req'[c].pc = "count"
           /\ RegCount(c) => OnlyOf(c) /\ req'[c].pc = "write"
           /\ RegWrite(c) => OnlyOf(c) /\ req'[c].pc = "roles"
           /\ RegRoles(c) => OnlyOf(c) /\ req'[c].pc = "commit"
           /\ Ending(c) => OnlyOf(c) /\ req'[c].pc = "idle"
  <1> USE DEF AttendanceTypes
  <1>1. ASSUME NEW k \in Keys, RegLock(c, k) PROVE OnlyOf(c) /\ req'[c].pc = "check"
    BY <1>1 DEF RegLock, NoRequest, OnlyOf
  <1>2. ASSUME NEW k \in Keys, NEW pc \in {"withdraw", "mark", "arrive"}, LockRow(c, k, pc)
        PROVE  OnlyOf(c) /\ req'[c].pc = pc
    BY <1>2 DEF LockRow, NoRequest, OnlyOf
  <1>3. ASSUME NEW a \in Staff, CheckInRead(c, a) PROVE OnlyOf(c) /\ req'[c].pc = "checkin"
    BY <1>3 DEF CheckInRead, Request, OnlyOf
  <1>4. Locking(c) => OnlyOf(c) /\ req'[c].pc \notin Counting
    BY <1>1, <1>2, <1>3 DEF Locking, Counting, Counted
  <1>5. RegCheck(c) => OnlyOf(c) /\ req'[c].pc = "count"
    BY DEF RegCheck, Request, OnlyOf
  <1>6. RegCount(c) => OnlyOf(c) /\ req'[c].pc = "write"
    BY DEF RegCount, Request, OnlyOf
  <1>7. /\ RegWrite(c) => OnlyOf(c) /\ req'[c].pc = "roles"
        /\ RegRoles(c) => OnlyOf(c) /\ req'[c].pc = "commit"
    BY DEF RegWrite, RegRoles, Request, OnlyOf
  <1>8. Ending(c) => OnlyOf(c) /\ req'[c].pc = "idle"
    BY DEF Ending, WithdrawCommit, CheckInCommit, MarkCommit, Refuse, ConnectionLost,
           Release, NoRequest, OnlyOf
  <1>9. QED
    BY <1>4, <1>5, <1>6, <1>7, <1>8

-----------------------------------------------------------------------------
\* The largest limit bounds every session.

\* A transaction that ends without a registration admits nobody.
LEMMA OnlyCommitsAdmit ==
    ASSUME RegistrationInv, [RegistrationNext]_vars, NEW s \in Sessions,
           ~\E c \in Clients : RegCommit(c) /\ req[c].key[2] = s
    PROVE  Cardinality(Active(s)') <= Cardinality(Active(s))
  <1> USE DEF RegistrationInv, AttendanceTypes, locks
  <1>1. CASE part' = part
    <2>1. Active(s)' = Active(s)
      BY <1>1 DEF Active
    <2>2. QED
      BY <2>1, ActiveIsFinite
  <1>2. ASSUME NEW c \in Clients,
               WithdrawCommit(c) \/ CheckInCommit(c) \/ (\E to \in PartStatuses : MarkCommit(c, to))
        PROVE  Cardinality(Active(s)') <= Cardinality(Active(s))
    <2>1. req[c].pc \in AtRow /\ req[c].pc # "idle"
      BY <1>2 DEF WithdrawCommit, CheckInCommit, MarkCommit, AtRow
    <2>2. req[c].key \in Keys /\ part[req[c].key] = req[c].seen
      BY <2>1 DEF LocksHeld, Holds, Reads
    <2>3. part[req[c].key] = "registered"
      BY <1>2, <2>2 DEF WithdrawCommit, CheckInCommit, MarkCommit,
                        AllowedParticipantTransitions, Reads
    <2>4. \E to : part' = [part EXCEPT ![req[c].key] = to]
      BY <1>2 DEF WithdrawCommit, CheckInCommit, MarkCommit
    <2>5. QED
      BY <2>2, <2>3, <2>4, SettlingShrinks
  <1>3. ASSUME NEW c \in Clients, RegCommit(c)
        PROVE  Cardinality(Active(s)') <= Cardinality(Active(s))
    <2>1. req[c].key \in Keys /\ req[c].key[2] # s
      BY <1>3 DEF RegCommit, LocksHeld, Holds
    <2>2. Active(s)' = Active(s)
      BY <1>3, <2>1 DEF RegCommit, Active, Keys
    <2>3. QED
      BY <2>2, ActiveIsFinite
  <1>4. QED
    BY <1>1, <1>2, <1>3, AttendanceChanges

\* The limit a request goes by is one that somebody set.
LimitsRead ==
    \A c \in Clients : req[c].pc \in Counting => req[c].limit \in Limits

LEMMA LimitsReadKept ==
    ASSUME RegistrationInv, LimitsRead, [RegistrationNext]_vars
    PROVE  LimitsRead'
  <1> USE DEF RegistrationInv, AttendanceTypes, locks
  <1> SUFFICES ASSUME NEW d \in Clients, req'[d].pc \in Counting
               PROVE  req'[d].limit \in Limits
    BY DEF LimitsRead
  <1>1. CASE req'[d] = req[d]
    BY <1>1 DEF LimitsRead
  <1>2. CASE RegCheck(d)
    <2> DEFINE own == session[req[d].key[2]].slots
    <2>1. req[d].key[2] \in Sessions
      BY <1>2 DEF RegCheck, LocksHeld, Holds, Keys
    <2>2. own \in SlotChoices /\ capacity \in Capacities /\ capacity # NoLimit
      BY <2>1, LifecycleAssumption, RegistrationAssumption DEF TypeOK, SessionRow
    <2>3. req'[d].limit = IF own = NoLimit THEN capacity ELSE own
      BY <1>2 DEF RegCheck, Request
    <2>4. QED
      BY <2>2, <2>3 DEF Limits
  <1>3. CASE RegCount(d) \/ RegWrite(d) \/ RegRoles(d)
    <2>1. req[d].pc \in Counting /\ req'[d].limit = req[d].limit
      BY <1>3 DEF RegCount, RegWrite, RegRoles, Request, Counting, Counted
    <2>2. QED
      BY <2>1 DEF LimitsRead
  <1>4. ~Locking(d) /\ ~Ending(d) /\ ~RegCommit(d)
    BY WhereStepsLead DEF Counting, Counted, RegCommit, Release, NoRequest
  <1>5. ASSUME NEW c \in Clients \ {d},
               Arrive(c) \/ Proceed(c) \/ RegWrite(c) \/ RegRoles(c) \/ ConnectionLost(c)
        PROVE  req'[d] = req[d]
    <2>1. \/ Locking(c) \/ Ending(c) \/ RegCheck(c) \/ RegCount(c) \/ RegWrite(c)
          \/ RegRoles(c) \/ RegCommit(c)
      BY <1>5 DEF Arrive, Proceed, Locking, Ending
    <2>2. QED
      BY <2>1, WhereStepsLead DEF OnlyOf, RegCommit, Release
  <1>6. CASE LifecycleStep \/ (\E n \in Capacities : SetCapacity(n)) \/ UNCHANGED vars
    BY <1>1, <1>6 DEF LifecycleStep, SetCapacity, vars, attendanceVars
  <1>7. ASSUME Arrive(d) \/ Proceed(d) \/ RegWrite(d) \/ RegRoles(d) \/ ConnectionLost(d)
        PROVE  req'[d].limit \in Limits
    BY <1>2, <1>3, <1>4, <1>7 DEF Arrive, Proceed, Locking, Ending
  <1>8. ASSUME NEW u \in Users, AssignRole(u) \/ RevokeRole(u) \/ ChangeRole(u)
        PROVE  req'[d].limit \in Limits
    <2>1. ButRows(req'[d]) = ButRows(req[d])
      BY <1>8, ReplaceEffect
    <2>2. QED
      BY <2>1 DEF ButRows, LimitsRead
  <1>9. QED
    BY <1>1, <1>5, <1>6, <1>7, <1>8 DEF RegistrationNext

\* No session ever holds more registrations than the largest limit allows
\* (register_for_session).
THEOREM SessionsAreNotOverfull == RegistrationSpec => []OccupancyBounded
<1>1. RegistrationInit => LimitsRead /\ OccupancyBounded
  <2> SUFFICES ASSUME RegistrationInit PROVE LimitsRead /\ OccupancyBounded
    OBVIOUS
  <2>1. LimitsRead
    BY DEF RegistrationInit, LimitsRead, NoRequest, Counting, Counted
  <2>2. capacity \in Limits /\ capacity \in Nat
    BY LifecycleAssumption, RegistrationAssumption DEF RegistrationInit, Limits
  <2>3. ASSUME NEW s \in Sessions PROVE Cardinality(Active(s)) <= capacity
    <3>1. Active(s) = {}
      BY DEF RegistrationInit, Active, Keys
    <3>2. QED
      BY <2>2, <3>1, FS_EmptySet
  <2>4. QED
    BY <2>1, <2>2, <2>3 DEF OccupancyBounded
<1>2. RegistrationInv /\ LimitsRead /\ OccupancyBounded /\ [RegistrationNext]_vars
         => LimitsRead' /\ OccupancyBounded'
  <2> SUFFICES ASSUME RegistrationInv, LimitsRead, OccupancyBounded, [RegistrationNext]_vars,
                      NEW s \in Sessions
               PROVE  \E n \in Limits : Cardinality(Active(s)') <= n
    BY LimitsReadKept DEF OccupancyBounded
  <2>1. ASSUME NEW c \in Clients, RegCommit(c), req[c].key[2] = s
        PROVE  \E n \in Limits : Cardinality(Active(s)') <= n
    <3>1. req[c].limit \in Limits
      BY <2>1 DEF RegCommit, LimitsRead, Counting, Counted
    <3>2. QED
      BY <2>1, <3>1, CommitWithinLimit
  <2>2. CASE ~\E c \in Clients : RegCommit(c) /\ req[c].key[2] = s
    <3>1. PICK n \in Limits : Cardinality(Active(s)) <= n
      BY DEF OccupancyBounded
    <3>2. n \in Nat
      BY LifecycleAssumption, RegistrationAssumption DEF Limits
    <3>3. Cardinality(Active(s)) \in Nat /\ Cardinality(Active(s)') \in Nat
      BY ActiveIsFinite
    <3>4. QED
      BY <2>2, <3>1, <3>2, <3>3, OnlyCommitsAdmit
  <2>3. QED
    BY <2>1, <2>2
<1>3. QED
  BY <1>1, <1>2, RegistrationInvariant, PTL DEF RegistrationSpec

-----------------------------------------------------------------------------
\* Waits

\* Who holds a registration row has come past waiting for one, and may still wait
\* for role assignments; who holds those is at its commit and waits for nothing.
Stages ==
    /\ \A k \in Keys : partLock[k] # NoOne => req[partLock[k]].pc \in RowHolding
    /\ \A a \in Users \X RoleRows : roleLock[a] # NoOne => req[roleLock[a]].pc = "commit"

\* The stages stay, if the request that takes a step keeps to them.
LEMMA StagesKept ==
    ASSUME AttendanceTypes, Stages, NEW c \in Clients, OnlyOf(c),
           \A k \in Keys : partLock'[k] \in {partLock[k], NoOne, c},
           \A a \in Users \X RoleRows : roleLock'[a] \in {roleLock[a], NoOne, c},
           \A k \in Keys : partLock'[k] = c => req'[c].pc \in RowHolding,
           \A a \in Users \X RoleRows : roleLock'[a] = c => req'[c].pc = "commit"
    PROVE  Stages'
  <1>1. ASSUME NEW k \in Keys, partLock'[k] # NoOne
        PROVE  req'[partLock'[k]].pc \in RowHolding
    <2>1. CASE partLock'[k] = c
      BY <2>1
    <2>2. CASE partLock'[k] # c
      <3>1. partLock'[k] = partLock[k] /\ partLock[k] \in Clients \ {c}
        BY <1>1, <2>2 DEF AttendanceTypes
      <3>2. QED
        BY <1>1, <3>1 DEF OnlyOf, Stages
    <2>3. QED
      BY <2>1, <2>2
  <1>2. ASSUME NEW a \in Users \X RoleRows, roleLock'[a] # NoOne
        PROVE  req'[roleLock'[a]].pc = "commit"
    <2>1. CASE roleLock'[a] = c
      BY <2>1
    <2>2. CASE roleLock'[a] # c
      <3>1. roleLock'[a] = roleLock[a] /\ roleLock[a] \in Clients \ {c}
        BY <1>2, <2>2 DEF AttendanceTypes
      <3>2. QED
        BY <1>2, <3>1 DEF OnlyOf, Stages
    <2>3. QED
      BY <2>1, <2>2
  <1>3. QED
    BY <1>1, <1>2 DEF Stages

\* A request holds registration rows only while it is RowHolding, and role
\* assignments only before its commit.
LEMMA HeldInStage ==
    ASSUME Stages, NEW c \in Clients
    PROVE  /\ req[c].pc \notin RowHolding => \A k \in Keys : partLock[k] # c
           /\ req[c].pc # "commit" => \A a \in Users \X RoleRows : roleLock[a] # c
  BY RegistrationAssumption DEF Stages

LEMMA StagesInductive ==
    ASSUME RegistrationInv, Stages, [RegistrationNext]_vars
    PROVE  Stages'
  <1> USE DEF RegistrationInv, AttendanceTypes, locks
  <1>1. CASE LifecycleStep \/ (\E n \in Capacities : SetCapacity(n)) \/ UNCHANGED vars
    BY <1>1 DEF LifecycleStep, SetCapacity, vars, attendanceVars, Stages
  <1>2. ASSUME NEW u \in Users, AssignRole(u) \/ RevokeRole(u) \/ ChangeRole(u)
        PROVE  Stages'
    <2>1. /\ UNCHANGED locks
          /\ \A c \in Clients : req'[c].pc = req[c].pc
      BY <1>2, ReplaceEffect DEF ButRows
    <2>2. QED
      BY <2>1 DEF Stages
  <1>3. ASSUME NEW c \in Clients, Ending(c) \/ RegCommit(c)
        PROVE  Stages'
    <2>1. Release(c)
      BY <1>3 DEF Ending, RegCommit, WithdrawCommit, CheckInCommit, MarkCommit, Refuse,
                  ConnectionLost
    <2>2. /\ \A k \in Keys : partLock'[k] # c /\ partLock'[k] \in {partLock[k], NoOne}
          /\ \A a \in Users \X RoleRows :
                roleLock'[a] # c /\ roleLock'[a] \in {roleLock[a], NoOne}
          /\ OnlyOf(c)
      BY <2>1, RegistrationAssumption DEF Release, OnlyOf
    <2>3. QED
      BY <2>2, StagesKept
  <1>4. ASSUME NEW c \in Clients, RegCheck(c) \/ RegCount(c) \/ \E k \in Keys : RegLock(c, k)
        PROVE  Stages'
    <2>1. req[c].pc \notin RowHolding /\ req[c].pc # "commit"
      BY <1>4 DEF RegCheck, RegCount, RegLock, RowHolding
    <2>2. OnlyOf(c) /\ UNCHANGED <<partLock, roleLock>>
      BY <1>4 DEF RegCheck, RegCount, RegLock, OnlyOf
    <2>3. QED
      BY <2>1, <2>2, HeldInStage, StagesKept
  <1>5. ASSUME NEW c \in Clients, NEW k \in Keys, NEW pc \in {"withdraw", "mark", "arrive"},
               LockRow(c, k, pc)
        PROVE  Stages'
    <2>1. /\ req[c].pc = "idle" /\ req'[c].pc = pc
          /\ partLock' = [partLock EXCEPT ![k] = c] /\ UNCHANGED roleLock /\ OnlyOf(c)
      BY <1>5 DEF LockRow, NoRequest, OnlyOf
    <2>2. \A a \in Users \X RoleRows : roleLock[a] # c
      BY <2>1, HeldInStage
    <2>3. QED
      BY <2>1, <2>2, StagesKept DEF RowHolding
  <1>6. ASSUME NEW c \in Clients, NEW a \in Staff, CheckInRead(c, a)
        PROVE  Stages'
    <2>1. /\ req[c].pc = "arrive" /\ req'[c].pc = "checkin"
          /\ UNCHANGED <<partLock, roleLock>> /\ OnlyOf(c)
      BY <1>6 DEF CheckInRead, Request, OnlyOf
    <2>2. \A b \in Users \X RoleRows : roleLock[b] # c
      BY <2>1, HeldInStage
    <2>3. QED
      BY <2>1, <2>2, StagesKept DEF RowHolding
  <1>7. ASSUME NEW c \in Clients, RegWrite(c)
        PROVE  Stages'
    <2>1. /\ req[c].pc = "write" /\ req'[c].pc = "roles"
          /\ partLock' = [partLock EXCEPT ![req[c].key] = c]
          /\ UNCHANGED roleLock /\ OnlyOf(c)
      BY <1>7 DEF RegWrite, Request, OnlyOf
    <2>2. \A a \in Users \X RoleRows : roleLock[a] # c
      BY <2>1, HeldInStage
    <2>3. QED
      BY <2>1, <2>2, StagesKept DEF RowHolding
  <1>8. ASSUME NEW c \in Clients, RegRoles(c)
        PROVE  Stages'
    <2>1. /\ req'[c].pc = "commit" /\ UNCHANGED partLock /\ OnlyOf(c)
          /\ \A a \in Users \X RoleRows : roleLock'[a] \in {roleLock[a], c}
      BY <1>8 DEF RegRoles, Request, OnlyOf
    <2>2. QED
      BY <2>1, StagesKept DEF RowHolding
  <1>9. QED
    BY <1>1, <1>2, <1>3, <1>4, <1>5, <1>6, <1>7, <1>8
       DEF RegistrationNext, Arrive, Proceed, Ending

\* A request that others wait for waits for role assignments or not at all, and
\* one that holds those waits for nobody.
LEMMA AwaitedAreAhead ==
    ASSUME RegistrationInv, Stages, NEW c \in Clients, NEW d \in Awaited(c)
    PROVE  /\ d \in Clients
           /\ req[c].pc \in {"write", "roles"}
           /\ req[c].pc = "write" => req[d].pc \in RowHolding
           /\ req[c].pc = "roles" => req[d].pc = "commit"
  <1> USE DEF RegistrationInv, AttendanceTypes
  <1>1. CASE req[c].pc = "write"
    <2>1. req[c].key \in Keys /\ d = partLock[req[c].key] /\ d # NoOne
      BY <1>1 DEF Awaited, LocksHeld, Holds
    <2>2. QED
      BY <1>1, <2>1 DEF Stages
  <1>2. CASE req[c].pc = "roles"
    <2>1. req[c].key[1] \in Users /\ req[c].rows \subseteq RoleRows
      BY <1>2 DEF LocksHeld, Holds, Keys, Request
    <2>2. PICK a \in {req[c].key[1]} \X req[c].rows : d = roleLock[a] /\ d # NoOne
      BY <1>2 DEF Awaited
    <2>3. a \in Users \X RoleRows
      BY <2>1, <2>2
    <2>4. QED
      BY <1>2, <2>2, <2>3 DEF Stages
  <1>3. CASE req[c].pc \notin {"write", "roles"}
    BY <1>3 DEF Awaited
  <1>4. QED
    BY <1>1, <1>2, <1>3

\* No requests wait for each other in a circle, however many there are: each
\* waits for one that is further on (register_for_session).
THEOREM WaitsFormNoCircle == RegistrationSpec => []NoCircleOfWaits
<1>1. RegistrationInit => Stages
  BY DEF RegistrationInit, Stages
<1>2. RegistrationInv /\ Stages /\ [RegistrationNext]_vars => Stages'
  BY StagesInductive
<1>3. RegistrationInv /\ Stages => NoCircleOfWaits
  <2> SUFFICES ASSUME RegistrationInv, Stages, NEW C \in SUBSET Clients, C # {},
                      \A c \in C : Awaited(c) \cap C # {}
               PROVE  FALSE
    BY DEF NoCircleOfWaits
  <2>1. PICK c \in C : TRUE
    OBVIOUS
  <2>2. PICK d \in C : d \in Awaited(c)
    OBVIOUS
  <2>3. PICK e \in C : e \in Awaited(d)
    OBVIOUS
  <2>4. PICK f \in C : f \in Awaited(e)
    OBVIOUS
  <2>5. req[d].pc \in RowHolding
    BY <2>2, AwaitedAreAhead DEF RowHolding
  <2>6. req[e].pc = "commit"
    BY <2>3, <2>5, AwaitedAreAhead DEF RowHolding
  <2>7. QED
    BY <2>4, <2>6, AwaitedAreAhead
<1>4. QED
  BY <1>1, <1>2, <1>3, RegistrationInvariant, PTL DEF RegistrationSpec

-----------------------------------------------------------------------------
\* Roles

\* The assignments that a request has found are still there, or it has been told,
\* and at the commit they are locked.
RolesFound ==
    \A c \in Clients : LET u == req[c].key[1] IN
        /\ req[c].pc \in {"roles", "commit"} => req[c].rows \subseteq roles[u]
        /\ req[c].pc = "commit" => \A r \in req[c].rows : roleLock[<<u, r>>] = c

\* A step that takes no assignment away leaves what the other requests found.
LEMMA RolesFoundKept ==
    ASSUME RegistrationInv, RolesFound, NEW c \in Clients, OnlyOf(c),
           \A u \in Users : roles[u] \subseteq roles'[u],
           \A d \in Clients \ {c}, a \in Users \X RoleRows :
              roleLock[a] = d => roleLock'[a] = d,
           req'[c].pc \in {"roles", "commit"} =>
              req'[c].rows \subseteq roles'[req'[c].key[1]],
           req'[c].pc = "commit" =>
              \A r \in req'[c].rows : roleLock'[<<req'[c].key[1], r>>] = c
    PROVE  RolesFound'
  <1> USE DEF RegistrationInv, AttendanceTypes
  <1>1. ASSUME NEW d \in Clients \ {c}, req[d].pc \in {"roles", "commit"}
        PROVE  /\ req[d].rows \subseteq roles'[req[d].key[1]]
               /\ req[d].pc = "commit" =>
                     \A r \in req[d].rows : roleLock'[<<req[d].key[1], r>>] = d
    <2>1. req[d].key[1] \in Users /\ req[d].rows \subseteq RoleRows
      BY <1>1 DEF LocksHeld, Holds, Keys, Request
    <2>2. req[d].rows \subseteq roles[req[d].key[1]]
      BY <1>1 DEF RolesFound
    <2>3. req[d].pc = "commit" =>
             \A r \in req[d].rows : roleLock[<<req[d].key[1], r>>] = d
      BY DEF RolesFound
    <2>4. QED
      BY <2>1, <2>2, <2>3
  <1>2. QED
    BY <1>1 DEF RolesFound, OnlyOf

LEMMA RolesFoundInductive ==
    ASSUME RegistrationInv, RolesFound, [RegistrationNext]_vars
    PROVE  RolesFound'
  <1> USE DEF RegistrationInv, AttendanceTypes, locks
  <1>1. CASE LifecycleStep \/ (\E n \in Capacities : SetCapacity(n)) \/ UNCHANGED vars
    BY <1>1 DEF LifecycleStep, SetCapacity, vars, attendanceVars, RolesFound
  <1>2. ASSUME NEW u \in Users, NEW old \in SUBSET roles[u], NEW new, Replace(u, old, new)
        PROVE  RolesFound'
    <2> SUFFICES ASSUME NEW c \in Clients, req'[c].pc \in {"roles", "commit"}
                 PROVE  /\ req'[c].rows \subseteq roles'[req'[c].key[1]]
                        /\ req'[c].pc = "commit" =>
                              \A r \in req'[c].rows : roleLock'[<<req'[c].key[1], r>>] = c
      BY DEF RolesFound
    <2>1. /\ roles' = [roles EXCEPT ![u] = (@ \ old) \cup new] /\ roleLock' = roleLock
          /\ \A r \in old : roleLock[<<u, r>>] = NoOne
      BY <1>2 DEF Replace
    <2>2. req'[c] = IF req[c].pc = "roles" /\ req[c].key[1] = u
                    THEN [req[c] EXCEPT !.rows = @ \ old] ELSE req[c]
      BY <1>2 DEF Replace
    <2>3. req'[c].pc = req[c].pc /\ req'[c].key = req[c].key
      BY <2>2 DEF Request
    <2>4. /\ req[c].key[1] \in Users /\ req[c].rows \subseteq roles[req[c].key[1]]
          /\ req[c].pc = "commit" =>
                \A r \in req[c].rows : roleLock[<<req[c].key[1], r>>] = c
      BY <2>3 DEF RolesFound, LocksHeld, Holds, Keys
    <2>5. CASE req[c].key[1] # u
      BY <2>1, <2>2, <2>4, <2>5
    <2>6. CASE req[c].key[1] = u /\ req[c].pc = "roles"
      <3>1. req'[c].rows = req[c].rows \ old
        BY <2>2, <2>6 DEF Request
      <3>2. QED
        BY <2>1, <2>3, <2>4, <2>6, <3>1
    <2>7. CASE req[c].key[1] = u /\ req[c].pc = "commit"
      <3>1. req'[c] = req[c]
        BY <2>2, <2>7
      <3>2. \A r \in req[c].rows : r \notin old
        BY <2>1, <2>4, <2>7, RegistrationAssumption
      <3>3. QED
        BY <2>1, <2>4, <2>7, <3>1, <3>2
    <2>8. QED
      BY <2>3, <2>5, <2>6, <2>7
  <1>3. ASSUME NEW u \in Users, AssignRole(u) \/ RevokeRole(u) \/ ChangeRole(u)
        PROVE  RolesFound'
    <2>1. PICK old \in SUBSET roles[u], new \in SUBSET RoleRows : Replace(u, old, new)
      BY <1>3 DEF AssignRole, RevokeRole, ChangeRole
    <2>2. QED
      BY <1>2, <2>1
  <1>4. ASSUME NEW c \in Clients, Ending(c) \/ RegCommit(c)
        PROVE  RolesFound'
    <2>1. Release(c)
      BY <1>4 DEF Ending, RegCommit, WithdrawCommit, CheckInCommit, MarkCommit, Refuse,
                  ConnectionLost
    <2>2. /\ OnlyOf(c) /\ req'[c].pc = "idle"
          /\ \A d \in Clients \ {c}, a \in Users \X RoleRows :
                roleLock[a] = d => roleLock'[a] = d
      BY <2>1 DEF Release, OnlyOf, NoRequest
    <2>3. \A u \in Users : roles[u] \subseteq roles'[u]
      BY <1>4 DEF Ending, RegCommit, WithdrawCommit, CheckInCommit, MarkCommit, Refuse,
                  ConnectionLost
    <2>4. QED
      BY <2>2, <2>3, RolesFoundKept
  <1>5. ASSUME NEW c \in Clients, Locking(c) \/ RegCheck(c) \/ RegCount(c)
        PROVE  RolesFound'
    <2>1. OnlyOf(c) /\ req'[c].pc \notin {"roles", "commit"}
      BY <1>5, WhereStepsLead DEF Counting, Counted
    <2>2. UNCHANGED <<roles, roleLock>>
      BY <1>5 DEF Locking, RegLock, LockRow, CheckInRead, RegCheck, RegCount
    <2>3. QED
      BY <2>1, <2>2, RolesFoundKept
  <1>6. ASSUME NEW c \in Clients, RegWrite(c)
        PROVE  RolesFound'
    <2>1. /\ OnlyOf(c) /\ UNCHANGED <<roles, roleLock>> /\ req'[c].pc = "roles"
          /\ req'[c].rows = roles[req[c].key[1]] /\ req'[c].key = req[c].key
      BY <1>6 DEF RegWrite, Request, OnlyOf
    <2>2. QED
      BY <2>1, RolesFoundKept
  <1>7. ASSUME NEW c \in Clients, RegRoles(c)
        PROVE  RolesFound'
    <2>1. /\ OnlyOf(c) /\ roles' = roles /\ req'[c].pc = "commit"
          /\ req'[c].rows = req[c].rows /\ req'[c].key = req[c].key
      BY <1>7 DEF RegRoles, Request, OnlyOf
    <2>2. /\ req[c].key[1] \in Users /\ req[c].rows \subseteq RoleRows
          /\ req[c].rows \subseteq roles[req[c].key[1]]
      BY <1>7 DEF RegRoles, RolesFound, LocksHeld, Holds, Keys, Request
    <2>3. \A r \in req[c].rows : roleLock'[<<req[c].key[1], r>>] = c
      BY <1>7, <2>2 DEF RegRoles
    <2>4. \A d \in Clients \ {c}, a \in Users \X RoleRows :
             roleLock[a] = d => roleLock'[a] = d
      BY <1>7, RegistrationAssumption DEF RegRoles
    <2>5. QED
      BY <2>1, <2>2, <2>3, <2>4, RolesFoundKept
  <1>8. QED
    BY <1>1, <1>3, <1>4, <1>5, <1>6, <1>7
       DEF RegistrationNext, Arrive, Proceed, Locking, Ending

\* Whoever's registration commits has a role at that moment, whatever has been
\* revoked or replaced meanwhile (_assign_rbac_participant_role).
THEOREM AdmissionsLeaveARole == RegistrationSpec => AdmittedHaveRole
<1>1. RegistrationInit => RolesFound
  BY DEF RegistrationInit, RolesFound, NoRequest
<1>2. RegistrationInv /\ RolesFound /\ [RegistrationNext]_vars => RolesFound'
  BY RolesFoundInductive
<1>3. ASSUME RegistrationInv, RolesFound, [RegistrationNext]_vars, NEW k \in Keys, Admitted(k)
      PROVE  roles'[k[1]] # {}
  <2>1. PICK c \in Clients : RegCommit(c) /\ req[c].key = k
    BY <1>3, AdmittedByCommit
  <2>2. k[1] \in Users /\ req[c].rows \subseteq roles[k[1]]
    BY <1>3, <2>1 DEF RegCommit, RolesFound, Keys
  <2>3. QED
    BY <1>3, <2>1, <2>2 DEF RegCommit, RegistrationInv, AttendanceTypes
<1>4. RegistrationInv /\ RolesFound /\ [RegistrationNext]_vars
         => [\A k \in Keys : Admitted(k) => roles'[k[1]] # {}]_vars
  BY <1>3
<1>5. QED
  BY <1>1, <1>2, <1>4, RegistrationInvariant, PTL DEF RegistrationSpec, AdmittedHaveRole

-----------------------------------------------------------------------------
\* Attendees take nothing from the lifecycle: what it promises by itself it
\* keeps while sessions are being registered for (event_participant_usecase.py
\* only reads event and session rows).
THEOREM LifecycleKeepsItsPromises ==
    RegistrationSpec => /\ SessionWindowsChecked /\ EventStatusPath
                        /\ ClockNeverRunsAhead /\ CancellationsLast
  BY LifecycleSimulated, SessionWindowsAreChecked, EventStatusFollowsPath,
     JobsNeverRunAhead, CancelledSessionsLast, PTL
=============================================================================
