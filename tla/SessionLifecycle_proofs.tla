----------------------- MODULE SessionLifecycle_proofs -----------------------
(***************************************************************************)
(* Type correctness of the session lifecycle, and its two properties that  *)
(* rest on the lock of the event row: an organizer's request validates     *)
(* against the row it locks, and nobody changes that row before it commits *)
(***************************************************************************)
EXTENDS SessionLifecycle, TLAPS

\* An edit that reconciles a status keeps it among the six, and leaves one that
\* does not follow the clock alone (resolve_event_status_for_dates).
LEMMA ResolveForDatesType ==
    ASSUME NEW st \in Statuses, NEW w, NEW t
    PROVE  /\ ResolveForDates(st, w, t) \in Statuses
           /\ \/ ResolveForDates(st, w, t) = st
              \/ {st, ResolveForDates(st, w, t)} \subseteq DateReconciled
  BY DEF ResolveForDates, Statuses, DateReconciled

\* The cron job's passes keep the status, start it or end it, and touch only
\* statuses that follow the clock (bulk_update_session_statuses).
LEMMA AdvanceByClockType ==
    ASSUME NEW st, NEW w, NEW t
    PROVE  /\ AdvanceByClock(st, w, t) \in {st, "started", "ended"}
           /\ \/ AdvanceByClock(st, w, t) = st
              \/ {st, AdvanceByClock(st, w, t)} \subseteq DateReconciled
  BY DEF AdvanceByClock, StartPass, EndPass, DateReconciled

\* The transition maps of event_status_usecase.py lead from statuses to statuses.
LEMMA TransitionsType ==
    ASSUME NEW st \in Statuses
    PROVE  /\ AllowedEventTransitions[st] \subseteq Statuses
           /\ AllowedSessionTransitions[st] \subseteq Statuses
  BY DEF AllowedEventTransitions, AllowedSessionTransitions, Statuses

\* A request that is idle is an Edit.
LEMMA NoEditType == NoEdit \in Edit
  <1>1. AnyWindow \in Windows /\ AnySlots \in SlotChoices
    BY LifecycleAssumption DEF AnyWindow, AnySlots
  <1>2. QED
    BY <1>1 DEF NoEdit, Edit, Operations, Statuses

\* The lifecycle's variables keep their types.
THEOREM LifecycleTypeCorrect == Spec => []TypeOK
<1>1. Init => TypeOK
  BY LifecycleAssumption, NoEditType DEF Init, TypeOK
<1>2. TypeOK /\ [Next]_lifecycleVars => TypeOK'
  <2> SUFFICES ASSUME TypeOK, [Next]_lifecycleVars
               PROVE  TypeOK'
    OBVIOUS
  <2> USE DEF TypeOK
  <2>h. ASSUME NEW e \in Editors, NEW r \in Edit, Hold(e, r)
        PROVE  TypeOK'
    BY <2>h DEF Hold
  <2>1. ASSUME NEW e \in Editors, NEW to \in Statuses, LockForEventStatus(e, to)
        PROVE  TypeOK'
    <3>1. [NoEdit EXCEPT !.pc = "commit", !.op = "event_status", !.to = to] \in Edit
      BY NoEditType DEF Edit, Operations
    <3>2. QED
      BY <2>1, <2>h, <3>1 DEF LockForEventStatus
  <2>2. ASSUME NEW e \in Editors, NEW to \in Statuses, LockForSessionStatus(e, to)
        PROVE  TypeOK'
    <3>1. [NoEdit EXCEPT !.pc = "commit", !.op = "session_status",
                         !.sid = edit[e].sid, !.to = to] \in Edit
      BY NoEditType DEF Edit, Operations
    <3>2. QED
      BY <2>2, <2>h, <3>1 DEF LockForSessionStatus
  <2>3. ASSUME NEW e \in Editors, NEW w \in Windows, LockForMetadata(e, w)
        PROVE  TypeOK'
    <3>1. ResolveForDates(event.status, w, now) \in Statuses
      BY ResolveForDatesType DEF EventRow
    <3>2. [NoEdit EXCEPT !.pc = "commit", !.op = "metadata", !.window = w,
                         !.to = ResolveForDates(event.status, w, now)] \in Edit
      BY <3>1, NoEditType DEF Edit, Operations
    <3>3. QED
      BY <2>3, <2>h, <3>2 DEF LockForMetadata
  <2>4. ASSUME NEW e \in Editors, NEW s \in Sessions,
               NEW op \in {"session_status", "session"}, ReadSession(e, op, s)
        PROVE  TypeOK'
    <3>1. session[s].status \in Statuses
      BY <2>4 DEF ReadSession, Present, SessionRow
    <3>2. [NoEdit EXCEPT !.pc = "lock", !.op = op, !.sid = s,
                         !.old = session[s].status] \in Edit
      BY <3>1, NoEditType DEF Edit, Operations
    <3>3. QED
      BY <2>4, <3>2 DEF ReadSession
  <2>5. ASSUME NEW e \in Editors, NEW w \in Windows, NEW n \in SlotChoices,
               LockForSession(e, w, n)
        PROVE  TypeOK'
    <3>1. ResolveForDates(edit[e].old, w, now) \in Statuses
      BY ResolveForDatesType DEF Edit
    <3>2. Rescheduled(e, w, n) \in Edit
      BY <3>1, NoEditType DEF Rescheduled, Edit, Operations
    <3>3. QED
      BY <2>5, <2>h, <3>2 DEF LockForSession
  <2>6. ASSUME NEW e \in Editors, NEW s \in Sessions, NEW w \in Windows,
               NEW n \in SlotChoices, LockForCreate(e, s, w, n)
        PROVE  TypeOK'
    <3>1. [NoEdit EXCEPT !.pc = "commit", !.op = "create_session", !.sid = s,
                         !.to = "posted", !.window = w, !.slots = n] \in Edit
      BY NoEditType DEF Edit, Operations, Statuses
    <3>2. QED
      BY <2>6, <2>h, <3>1 DEF LockForCreate
  <2>f. ASSUME NEW e \in Editors, Finish(e)
        PROVE  /\ eventLock' \in Editors \cup {NoOne}
               /\ edit' \in [Editors -> Edit]
               /\ now' \in 0 .. MaxTime
               /\ sync' \in [Workers \X Jobs -> Nat \cup {NotRunning}]
    BY <2>f, NoEditType DEF Finish
  <2>7. ASSUME NEW e \in Editors, CommitEventStatus(e)
        PROVE  TypeOK'
    <3>1. event' \in EventRow
      BY <2>7 DEF CommitEventStatus, EventRow, Edit
    <3>2. QED
      BY <2>7, <2>f, <3>1 DEF CommitEventStatus
  <2>8. ASSUME NEW e \in Editors, CommitMetadata(e)
        PROVE  TypeOK'
    <3>1. event' \in EventRow
      BY <2>8 DEF CommitMetadata, EventRow, Edit
    <3>2. QED
      BY <2>8, <2>f, <3>1 DEF CommitMetadata
  <2>9. ASSUME NEW e \in Editors, CommitSessionStatus(e)
        PROVE  TypeOK'
    <3>1. session' \in [Sessions -> SessionRow]
      BY <2>9 DEF CommitSessionStatus, SessionRow, Edit
    <3>2. QED
      BY <2>9, <2>f, <3>1 DEF CommitSessionStatus
  <2>10. ASSUME NEW e \in Editors, CommitSession(e) \/ CommitCreate(e)
         PROVE  TypeOK'
    <3>1. session' \in [Sessions -> SessionRow]
      BY <2>10 DEF CommitSession, CommitCreate, SessionRow, Edit
    <3>2. QED
      BY <2>10, <2>f, <3>1 DEF CommitSession, CommitCreate
  <2>11. ASSUME NEW e \in Editors, Abandon(e)
         PROVE  TypeOK'
    BY <2>11, NoEditType DEF Abandon
  <2>12. ASSUME NEW w \in Workers, NEW job \in Jobs,
                BeginSync(w, job) \/ LoseSync(w, job)
         PROVE  TypeOK'
    BY <2>12, LifecycleAssumption DEF BeginSync, LoseSync
  <2>13. ASSUME NEW w \in Workers, SyncSessions(w)
         PROVE  TypeOK'
    <3>1. \A s \in Sessions : \A t :
             AdvanceByClock(session[s].status, session[s].window, t)
                \in Statuses \cup {"absent"}
      BY AdvanceByClockType DEF SessionRow, Statuses
    <3>2. session' \in [Sessions -> SessionRow]
      BY <2>13, <3>1 DEF SyncSessions, SessionRow
    <3>3. sync' \in [Workers \X Jobs -> Nat \cup {NotRunning}]
      BY <2>13 DEF SyncSessions
    <3>4. QED
      BY <2>13, <3>2, <3>3 DEF SyncSessions
  <2>14. ASSUME NEW w \in Workers, SyncEvents(w)
         PROVE  TypeOK'
    <3>1. \A t : AdvanceByClock(event.status, event.window, t) \in Statuses
      BY AdvanceByClockType DEF EventRow, Statuses
    <3>2. event' \in EventRow
      BY <2>14, <3>1 DEF SyncEvents, EventRow
    <3>3. sync' \in [Workers \X Jobs -> Nat \cup {NotRunning}]
      BY <2>14 DEF SyncEvents
    <3>4. QED
      BY <2>14, <3>2, <3>3 DEF SyncEvents
  <2>15. CASE Tick
    BY <2>15, LifecycleAssumption DEF Tick
  <2>16. CASE UNCHANGED lifecycleVars
    BY <2>16 DEF lifecycleVars
  <2>17. QED
    BY <2>1, <2>2, <2>3, <2>4, <2>5, <2>6, <2>7, <2>8, <2>9, <2>10, <2>11, <2>12,
       <2>13, <2>14, <2>15, <2>16 DEF Next, EditStep, SyncStep
<1>3. QED
  BY <1>1, <1>2, PTL DEF Spec

-----------------------------------------------------------------------------
\* What a request that holds the event row validated is still true of it.
Validated(e) ==
    edit[e].pc = "commit" =>
        /\ eventLock = e
        /\ edit[e].op \in {"session", "create_session"}
              => Inside(edit[e].window, event.window)
        /\ edit[e].op = "event_status"
              => edit[e].to \in AllowedEventTransitions[event.status]
        /\ edit[e].op = "metadata"
              => \/ edit[e].to = event.status
                 \/ {edit[e].to, event.status} \subseteq DateReconciled

ValidatedInv == TypeOK /\ \A e \in Editors : Validated(e)

\* A step that neither writes the event row nor touches the request of e
\* keeps what e validated.
LEMMA ValidatedStable ==
    ASSUME NEW e \in Editors, Validated(e), edit'[e] = edit[e], event' = event,
           eventLock' = eventLock \/ eventLock # e
    PROVE  Validated(e)'
  BY DEF Validated

\* Only the holder of the event row, or a cron job while nobody holds it,
\* writes the event row; so what a request validated holds until it commits.
LEMMA ValidatedStep ==
    ValidatedInv /\ [Next]_lifecycleVars => (\A e \in Editors : Validated(e))'
  <1> SUFFICES ASSUME ValidatedInv, [Next]_lifecycleVars, NEW f \in Editors
               PROVE  Validated(f)'
    BY DEF ValidatedInv
  <1> USE DEF ValidatedInv
  <1>t. NoOne \notin Editors /\ edit \in [Editors -> Edit] /\ event.status \in Statuses
    BY LifecycleAssumption DEF TypeOK, EventRow
  <1>n. NoEdit.pc # "commit"
    BY DEF NoEdit
  \* Nobody else is committing while the event row is free.
  <1>h. ASSUME NEW e \in Editors, NEW r, Hold(e, r), f # e
        PROVE  Validated(f)'
    BY <1>h, <1>t DEF Hold, Validated
  <1>f. ASSUME NEW e \in Editors, edit[e].pc = "commit", Finish(e)
        PROVE  Validated(f)'
    BY <1>f, <1>t, <1>n DEF Finish, Validated
  <1>1. ASSUME NEW e \in Editors, NEW to \in Statuses, LockForEventStatus(e, to)
        PROVE  Validated(f)'
    <2>1. CASE f # e
      BY <1>1, <1>h, <2>1 DEF LockForEventStatus
    <2>2. CASE f = e
      BY <1>1, <1>t, <2>2 DEF LockForEventStatus, Hold, Validated, NoEdit
    <2>3. QED
      BY <2>1, <2>2
  <1>2. ASSUME NEW e \in Editors, NEW to \in Statuses, LockForSessionStatus(e, to)
        PROVE  Validated(f)'
    <2>1. CASE f # e
      BY <1>2, <1>h, <2>1 DEF LockForSessionStatus
    <2>2. CASE f = e
      BY <1>2, <1>t, <2>2 DEF LockForSessionStatus, Hold, Validated, NoEdit
    <2>3. QED
      BY <2>1, <2>2
  <1>3. ASSUME NEW e \in Editors, NEW w \in Windows, LockForMetadata(e, w)
        PROVE  Validated(f)'
    <2>1. CASE f # e
      BY <1>3, <1>h, <2>1 DEF LockForMetadata
    <2>2. CASE f = e
      BY <1>3, <1>t, <2>2, ResolveForDatesType
         DEF LockForMetadata, Hold, Validated, NoEdit
    <2>3. QED
      BY <2>1, <2>2
  <1>4. ASSUME NEW e \in Editors, NEW s \in Sessions, NEW op, ReadSession(e, op, s)
        PROVE  Validated(f)'
    BY <1>4, <1>t DEF ReadSession, Validated, NoEdit
  <1>5. ASSUME NEW e \in Editors, NEW w \in Windows, NEW n \in SlotChoices,
               LockForSession(e, w, n)
        PROVE  Validated(f)'
    <2>1. CASE f # e
      BY <1>5, <1>h, <2>1 DEF LockForSession
    <2>2. CASE f = e
      BY <1>5, <1>t, <2>2 DEF LockForSession, Hold, Validated, Rescheduled, NoEdit
    <2>3. QED
      BY <2>1, <2>2
  <1>6. ASSUME NEW e \in Editors, NEW s \in Sessions, NEW w \in Windows,
               NEW n \in SlotChoices, LockForCreate(e, s, w, n)
        PROVE  Validated(f)'
    <2>1. CASE f # e
      BY <1>6, <1>h, <2>1 DEF LockForCreate
    <2>2. CASE f = e
      BY <1>6, <1>t, <2>2 DEF LockForCreate, Hold, Validated, NoEdit
    <2>3. QED
      BY <2>1, <2>2
  <1>7. ASSUME NEW e \in Editors,
               \/ CommitEventStatus(e) \/ CommitMetadata(e) \/ CommitSessionStatus(e)
               \/ CommitSession(e) \/ CommitCreate(e)
        PROVE  Validated(f)'
    BY <1>7, <1>f DEF CommitEventStatus, CommitMetadata, CommitSessionStatus,
                      CommitSession, CommitCreate, Committing
  <1>8. ASSUME NEW e \in Editors, Abandon(e)
        PROVE  Validated(f)'
    <2>1. CASE f # e
      BY <1>8, <1>t, <2>1 DEF Abandon, Validated
    <2>2. CASE f = e
      BY <1>8, <1>t, <1>n, <2>2 DEF Abandon, Validated
    <2>3. QED
      BY <2>1, <2>2
  <1>9. ASSUME NEW w \in Workers, SyncEvents(w)
        PROVE  Validated(f)'
    <2>1. CASE eventLock = NoOne
      BY <1>9, <1>t, <2>1 DEF SyncEvents, Validated
    <2>2. CASE eventLock # NoOne
      <3>1. event' = event
        BY <1>9, <2>2, <1>t DEF SyncEvents, TypeOK, EventRow
      <3>2. QED
        BY <1>9, <3>1, ValidatedStable DEF SyncEvents
    <2>3. QED
      BY <2>1, <2>2
  <1>10. CASE \/ Tick \/ UNCHANGED lifecycleVars
              \/ \E w \in Workers : SyncSessions(w)
              \/ \E w \in Workers, job \in Jobs : BeginSync(w, job) \/ LoseSync(w, job)
    BY <1>10, ValidatedStable
       DEF Tick, lifecycleVars, SyncSessions, BeginSync, LoseSync
  <1>11. QED
    BY <1>1, <1>2, <1>3, <1>4, <1>5, <1>6, <1>7, <1>8, <1>9, <1>10
       DEF Next, EditStep, SyncStep

\* What a request validated against the event row is true at its commit.
THEOREM ValidatedHolds == Spec => []ValidatedInv
<1>1. Init => \A e \in Editors : Validated(e)
  BY DEF Init, Validated, NoEdit
<1>2. QED
  BY <1>1, ValidatedStep, LifecycleTypeCorrect, PTL DEF Spec, ValidatedInv

\* A session is created or moved only inside the dates of its event
\* (create_event_session, update_event_session).
THEOREM SessionWindowsAreChecked == Spec => SessionWindowsChecked
<1>1. ASSUME ValidatedInv, [Next]_lifecycleVars, NEW s \in Sessions,
             session'[s].window # session[s].window
      PROVE  Inside(session'[s].window, event.window)
  <2> USE DEF ValidatedInv, TypeOK
  <2>1. ASSUME NEW e \in Editors, CommitSession(e) \/ CommitCreate(e)
        PROVE  Inside(session'[s].window, event.window)
    <3>1. Inside(edit[e].window, event.window)
      BY <1>1, <2>1 DEF CommitSession, CommitCreate, Committing, Validated
    <3>2. session'[s].window = edit[e].window
      BY <1>1, <2>1 DEF CommitSession, CommitCreate
    <3>3. QED
      BY <3>1, <3>2
  <2>2. ASSUME NEW e \in Editors, CommitSessionStatus(e)
        PROVE  FALSE
    BY <1>1, <2>2 DEF CommitSessionStatus, SessionRow
  <2>3. ASSUME NEW w \in Workers, SyncSessions(w)
        PROVE  FALSE
    BY <1>1, <2>3 DEF SyncSessions, SessionRow
  <2>4. session' # session
    BY <1>1
  <2>5. QED
    BY <1>1, <2>1, <2>2, <2>3, <2>4
       DEF Next, EditStep, SyncStep, LockForEventStatus, LockForSessionStatus,
           LockForMetadata, ReadSession, LockForSession, LockForCreate, Hold,
           CommitEventStatus, CommitMetadata, Abandon, BeginSync, LoseSync, SyncEvents, Tick,
           lifecycleVars
<1>2. ValidatedInv /\ [Next]_lifecycleVars
         => [\A s \in Sessions :
               session'[s].window # session[s].window
                  => Inside(session'[s].window, event.window)]_lifecycleVars
  BY <1>1
<1>3. QED
  BY <1>2, ValidatedHolds, PTL DEF Spec, SessionWindowsChecked

\* The event's status follows the transition map or the clock
\* (update_event_status, update_event_metadata, bulk_update_event_statuses).
THEOREM EventStatusFollowsPath == Spec => EventStatusPath
<1> DEFINE Path == \/ event'.status = event.status
                   \/ event'.status \in AllowedEventTransitions[event.status]
                   \/ event.status \in DateReconciled /\ event'.status \in DateReconciled
<1>1. ASSUME ValidatedInv, [Next]_lifecycleVars
      PROVE  Path
  <2> USE DEF ValidatedInv, TypeOK
  <2>1. ASSUME NEW e \in Editors, CommitEventStatus(e)
        PROVE  Path
    <3>1. event'.status = edit[e].to
      BY <2>1 DEF CommitEventStatus, EventRow
    <3>2. QED
      BY <1>1, <2>1, <3>1 DEF CommitEventStatus, Committing, Validated
  <2>2. ASSUME NEW e \in Editors, CommitMetadata(e)
        PROVE  Path
    <3>1. event'.status = edit[e].to
      BY <2>2 DEF CommitMetadata
    <3>2. QED
      BY <1>1, <2>2, <3>1 DEF CommitMetadata, Committing, Validated
  <2>3. ASSUME NEW w \in Workers, SyncEvents(w)
        PROVE  Path
    <3>1. event'.status = AdvanceByClock(event.status, event.window, sync[<<w, "events">>])
      BY <2>3 DEF SyncEvents, EventRow
    <3>2. QED
      BY <3>1, AdvanceByClockType
  <2>4. CASE event' = event
    BY <2>4
  <2>5. QED
    BY <1>1, <2>1, <2>2, <2>3, <2>4
       DEF Next, EditStep, SyncStep, LockForEventStatus, LockForSessionStatus,
           LockForMetadata, ReadSession, LockForSession, LockForCreate, Hold,
           CommitSessionStatus, CommitSession, CommitCreate, Abandon, BeginSync,
           LoseSync, SyncSessions, Tick, lifecycleVars
<1>2. ValidatedInv /\ [Next]_lifecycleVars => [Path]_lifecycleVars
  BY <1>1
<1>3. QED
  BY <1>2, ValidatedHolds, PTL DEF Spec, EventStatusPath

-----------------------------------------------------------------------------
\* The time a running job captured is in the past.
CapturedInv == \A j \in Workers \X Jobs : sync[j] \in 0 .. now \cup {NotRunning}

\* A cron pass moves a row only to "started" or "ended", each when it is due.
LEMMA AdvanceByClockTimely ==
    ASSUME NEW st, NEW w \in [start : Nat, end : Nat], NEW t \in Nat,
           AdvanceByClock(st, w, t) # st
    PROVE  \/ AdvanceByClock(st, w, t) = "started" /\ w.start <= t
           \/ AdvanceByClock(st, w, t) = "ended" /\ w.end <= t
  BY DEF AdvanceByClock, StartPass, EndPass

\* The clock never goes back, so a captured time stays in the past.
THEOREM CapturedHolds == Spec => [](TypeOK /\ CapturedInv)
<1>1. Init => CapturedInv
  BY DEF Init, CapturedInv
<1>2. TypeOK /\ CapturedInv /\ [Next]_lifecycleVars => CapturedInv'
  <2> SUFFICES ASSUME TypeOK, CapturedInv, [Next]_lifecycleVars
               PROVE  CapturedInv'
    OBVIOUS
  <2> USE DEF TypeOK, CapturedInv
  <2>1. ASSUME NEW w \in Workers, NEW job \in Jobs, BeginSync(w, job)
        PROVE  CapturedInv'
    BY <2>1, LifecycleAssumption DEF BeginSync
  <2>2. ASSUME NEW w \in Workers,
               \/ SyncSessions(w) \/ SyncEvents(w)
               \/ \E job \in Jobs : LoseSync(w, job)
        PROVE  CapturedInv'
    BY <2>2 DEF SyncSessions, SyncEvents, LoseSync
  <2>3. CASE Tick
    BY <2>3, LifecycleAssumption DEF Tick
  <2>4. CASE now' = now /\ sync' = sync
    BY <2>4
  <2>5. QED
    BY <2>1, <2>2, <2>3, <2>4
       DEF Next, EditStep, SyncStep, LockForEventStatus, LockForSessionStatus,
           LockForMetadata, ReadSession, LockForSession, LockForCreate, Hold,
           CommitEventStatus, CommitMetadata, CommitSessionStatus, CommitSession,
           CommitCreate, Finish, Abandon, lifecycleVars
<1>3. QED
  BY <1>1, <1>2, LifecycleTypeCorrect, PTL DEF Spec

\* A cron job neither starts nor ends a session before its time
\* (bulk_update_session_statuses).
THEOREM JobsNeverRunAhead == Spec => ClockNeverRunsAhead
<1> DEFINE Due(s) == \/ session'[s].status = "started" /\ session[s].window.start <= now
                     \/ session'[s].status = "ended" /\ session[s].window.end <= now
<1>1. ASSUME TypeOK, CapturedInv, [Next]_lifecycleVars,
             NEW v \in Workers, sync[<<v, "sessions">>] # sync'[<<v, "sessions">>],
             NEW s \in Sessions, session'[s].status # session[s].status
      PROVE  Due(s)
  <2> USE DEF TypeOK, CapturedInv
  <2>1. ASSUME NEW w \in Workers, SyncSessions(w)
        PROVE  Due(s)
    <3> DEFINE t == sync[<<w, "sessions">>]
    <3>1. t \in 0 .. now /\ now \in Nat
      BY <1>1, <2>1, LifecycleAssumption DEF SyncSessions, Jobs
    <3>2. session[s].window \in [start : Nat, end : Nat]
      BY <1>1, LifecycleAssumption DEF SessionRow
    <3>3. session'[s].status = AdvanceByClock(session[s].status, session[s].window, t)
      BY <1>1, <2>1 DEF SyncSessions, SessionRow
    <3>4. \/ session'[s].status = "started" /\ session[s].window.start <= t
          \/ session'[s].status = "ended" /\ session[s].window.end <= t
      BY <1>1, <3>1, <3>2, <3>3, AdvanceByClockTimely
    <3>5. session[s].window.start \in Nat /\ session[s].window.end \in Nat
      BY <3>2
    <3>6. QED
      BY <3>1, <3>4, <3>5
  <2>2. session' # session /\ sync' # sync
    BY <1>1
  <2>3. QED
    BY <1>1, <2>1, <2>2
       DEF Next, EditStep, SyncStep, LockForEventStatus, LockForSessionStatus,
           LockForMetadata, ReadSession, LockForSession, LockForCreate, Hold,
           CommitEventStatus, CommitMetadata, CommitSessionStatus, CommitSession,
           CommitCreate, Finish, Abandon, BeginSync, LoseSync, SyncEvents, Tick, lifecycleVars
<1>2. TypeOK /\ CapturedInv /\ [Next]_lifecycleVars
         => [(\E w \in Workers : sync[<<w, "sessions">>] # sync'[<<w, "sessions">>]) =>
                \A s \in Sessions : session'[s].status # session[s].status => Due(s)]_lifecycleVars
  BY <1>1
<1>3. QED
  BY <1>2, CapturedHolds, PTL DEF Spec, ClockNeverRunsAhead

-----------------------------------------------------------------------------
\* New dates leave a status alone that does not follow the clock, and no map of
\* transitions leads out of a cancelled session (event_status_usecase.py).
LEMMA CancelledStatusStays ==
    /\ \A w, t : ResolveForDates("cancelled", w, t) = "cancelled"
    /\ \A w, t : AdvanceByClock("cancelled", w, t) = "cancelled"
    /\ AllowedSessionTransitions["cancelled"] = {}
  BY DEF ResolveForDates, AdvanceByClock, StartPass, EndPass, DateReconciled,
         AllowedSessionTransitions, Statuses

\* What a request knows of a cancelled session stays true: it judges by what it
\* read, and whoever reads the session now reads that it is cancelled.
LEMMA KnowledgeLasts ==
    ASSUME TypeOK, [Next]_lifecycleVars, NEW s \in Sessions, CancelledForGood(s),
           NEW f \in Editors
    PROVE  KnowsCancelled(f, s)'
  <1> USE DEF TypeOK
  <1>t. edit \in [Editors -> Edit] /\ KnowsCancelled(f, s) /\ NoOne # s
    BY LifecycleAssumption DEF CancelledForGood
  <1>n. NoEdit.pc = "idle"
    BY DEF NoEdit
  <1>u. ASSUME edit'[f] = edit[f] PROVE KnowsCancelled(f, s)'
    BY <1>t, <1>u DEF KnowsCancelled
  <1>i. ASSUME edit'[f].pc = "idle" PROVE KnowsCancelled(f, s)'
    BY <1>i DEF KnowsCancelled
  <1>1. ASSUME NEW e \in Editors, NEW to \in Statuses, LockForSessionStatus(e, to)
        PROVE  KnowsCancelled(f, s)'
    <2>1. CASE f # e
      BY <1>1, <1>t, <1>u, <2>1 DEF LockForSessionStatus, Hold
    <2>2. CASE f = e /\ edit[e].sid # s
      BY <1>1, <1>t, <2>2 DEF LockForSessionStatus, Hold, KnowsCancelled, NoEdit
    <2>3. CASE f = e /\ edit[e].sid = s
      <3>1. edit[e].old = "cancelled"
        BY <1>1, <1>t, <2>3 DEF LockForSessionStatus, WaitsForEvent, KnowsCancelled
      <3>2. QED
        BY <1>1, <3>1, CancelledStatusStays DEF LockForSessionStatus
    <2>4. QED
      BY <2>1, <2>2, <2>3
  <1>2. ASSUME NEW e \in Editors, NEW w \in Windows, NEW n \in SlotChoices,
               LockForSession(e, w, n)
        PROVE  KnowsCancelled(f, s)'
    <2>1. CASE f # e
      BY <1>2, <1>t, <1>u, <2>1 DEF LockForSession, Hold
    <2>2. CASE f = e
      <3>1. edit'[e] = Rescheduled(e, w, n)
        BY <1>2, <1>t DEF LockForSession, Hold
      <3>2. edit[e].sid = s => edit[e].old = "cancelled"
        BY <1>2, <1>t, <2>2 DEF LockForSession, WaitsForEvent, KnowsCancelled
      <3>3. QED
        BY <2>2, <3>1, <3>2, CancelledStatusStays DEF Rescheduled, NoEdit, KnowsCancelled
    <2>3. QED
      BY <2>1, <2>2
  <1>3. ASSUME NEW e \in Editors, NEW z \in Sessions, NEW op, ReadSession(e, op, z)
        PROVE  KnowsCancelled(f, s)'
    <2>1. CASE f # e
      BY <1>3, <1>t, <1>u, <2>1 DEF ReadSession
    <2>2. CASE f = e
      BY <1>3, <1>t, <2>2 DEF ReadSession, NoEdit, KnowsCancelled, CancelledForGood
    <2>3. QED
      BY <2>1, <2>2
  <1>4. ASSUME NEW e \in Editors, NEW z \in Sessions, NEW w \in Windows,
               NEW n \in SlotChoices, LockForCreate(e, z, w, n)
        PROVE  KnowsCancelled(f, s)'
    <2>1. CASE f # e
      BY <1>4, <1>t, <1>u, <2>1 DEF LockForCreate, Hold
    <2>2. CASE f = e
      <3>1. z # s
        BY <1>4 DEF LockForCreate, Present, CancelledForGood
      <3>2. QED
        BY <1>4, <1>t, <2>2, <3>1 DEF LockForCreate, Hold, NoEdit, KnowsCancelled
    <2>3. QED
      BY <2>1, <2>2
  \* Requests on the event row name no session.
  <1>h. ASSUME NEW e \in Editors, NEW r, r.sid = NoOne, Hold(e, r)
        PROVE  KnowsCancelled(f, s)'
    BY <1>h, <1>t, <1>u DEF Hold, KnowsCancelled
  <1>5. ASSUME NEW e \in Editors,
               \/ \E to \in Statuses : LockForEventStatus(e, to)
               \/ \E w \in Windows : LockForMetadata(e, w)
        PROVE  KnowsCancelled(f, s)'
    <2>1. PICK r : r.sid = NoOne /\ Hold(e, r)
      BY <1>5, Zenon DEF LockForEventStatus, LockForMetadata, NoEdit
    <2>2. QED
      BY <1>h, <2>1
  <1>6. ASSUME NEW e \in Editors, edit' = [edit EXCEPT ![e] = NoEdit]
        PROVE  KnowsCancelled(f, s)'
    BY <1>6, <1>t, <1>n, <1>u, <1>i
  <1>7. CASE edit' = edit
    BY <1>7, <1>u
  <1>8. QED
    BY <1>1, <1>2, <1>3, <1>4, <1>5, <1>6, <1>7
       DEF Next, EditStep, SyncStep, CommitEventStatus, CommitMetadata,
           CommitSessionStatus, CommitSession, CommitCreate, Finish, Abandon,
           BeginSync, LoseSync, SyncSessions, SyncEvents, Tick, lifecycleVars

\* The steps that write session rows: a commit, which ends its request, and
\* the cron job.
LEMMA SessionWriters ==
    ASSUME [Next]_lifecycleVars, session' # session
    PROVE  \/ \E e \in Editors :
                 /\ CommitSessionStatus(e) \/ CommitSession(e) \/ CommitCreate(e)
                 /\ Finish(e)
           \/ \E w \in Workers : SyncSessions(w)
<1>1. CASE \E e \in Editors : EditStep(e)
  <2>1. PICK e \in Editors : EditStep(e)
    BY <1>1
  <2>2. CommitSessionStatus(e) \/ CommitSession(e) \/ CommitCreate(e)
    <3>1. ASSUME NEW r, Hold(e, r)
          PROVE  FALSE
      BY <3>1 DEF Hold
    <3>2. QED
      BY <2>1, <3>1, Zenon
         DEF EditStep, LockForEventStatus, LockForSessionStatus, LockForMetadata,
             ReadSession, LockForSession, LockForCreate, CommitEventStatus,
             CommitMetadata, Abandon
  <2>3. Finish(e)
    BY <2>2 DEF CommitSessionStatus, CommitSession, CommitCreate
  <2>4. QED
    BY <2>2, <2>3
<1>2. CASE \E w \in Workers : SyncStep(w)
  BY <1>2 DEF SyncStep, BeginSync, LoseSync, SyncEvents
<1>3. ~Tick /\ ~UNCHANGED lifecycleVars
  BY DEF Tick, lifecycleVars
<1>4. QED
  BY <1>1, <1>2, <1>3 DEF Next

\* A cancelled session that every request under way knows to be cancelled is
\* left so by whichever of them commits, and by the cron job.
LEMMA CancelledStays ==
    ASSUME TypeOK, [Next]_lifecycleVars, NEW s \in Sessions, CancelledForGood(s)
    PROVE  session'[s].status = "cancelled"
  <1> USE DEF TypeOK, CancelledForGood
  <1>1. ASSUME NEW e \in Editors, CommitSessionStatus(e)
        PROVE  session'[s].status = "cancelled"
    BY <1>1 DEF CommitSessionStatus, Committing, KnowsCancelled, SessionRow
  <1>2. ASSUME NEW e \in Editors, CommitSession(e) \/ CommitCreate(e)
        PROVE  session'[s].status = "cancelled"
    BY <1>2 DEF CommitSession, CommitCreate, Committing, KnowsCancelled
  <1>3. ASSUME NEW w \in Workers, SyncSessions(w)
        PROVE  session'[s].status = "cancelled"
    BY <1>3, CancelledStatusStays DEF SyncSessions, SessionRow
  <1>4. CASE session' = session
    BY <1>4
  <1>5. QED
    BY <1>1, <1>2, <1>3, <1>4, SessionWriters

\* A cancelled session is never brought back by a request that read it after
\* the cancellation (update_event_session_status, update_event_session).
THEOREM CancelledSessionsLast == Spec => CancellationsLast
<1>1. TypeOK /\ [Next]_lifecycleVars
         => [\A s \in Sessions : CancelledForGood(s) => CancelledForGood(s)']_lifecycleVars
  BY KnowledgeLasts, CancelledStays DEF CancelledForGood
<1>2. QED
  BY <1>1, LifecycleTypeCorrect, PTL DEF Spec, CancellationsLast

-----------------------------------------------------------------------------
\* With one request at a time nobody is left with an older reading.
AllCancelledForGood ==
    \A s \in Sessions : session[s].status = "cancelled" => CancelledForGood(s)

\* The commit that cancels a session ends the only request there is; the cron
\* job cancels none.
LEMMA AloneCancelsForGood ==
    ASSUME \A e, f \in Editors : e = f,
           TypeOK, AllCancelledForGood, [Next]_lifecycleVars
    PROVE  AllCancelledForGood'
  <1> SUFFICES ASSUME NEW s \in Sessions, session'[s].status = "cancelled"
               PROVE  CancelledForGood(s)'
    BY DEF AllCancelledForGood
  <1> USE DEF TypeOK
  <1>1. CASE session[s].status = "cancelled"
    <2>1. CancelledForGood(s)
      BY <1>1 DEF AllCancelledForGood
    <2>2. QED
      BY <2>1, KnowledgeLasts, CancelledStays DEF CancelledForGood
  <1>2. CASE session[s].status # "cancelled"
    <2>1. ASSUME NEW e \in Editors, Finish(e)
          PROVE  CancelledForGood(s)'
      BY <2>1 DEF Finish, NoEdit, CancelledForGood, KnowsCancelled
    <2>2. ASSUME NEW w \in Workers, SyncSessions(w)
          PROVE  FALSE
      <3>1. session'[s].status =
               AdvanceByClock(session[s].status, session[s].window,
                              sync[<<w, "sessions">>])
        BY <2>2 DEF SyncSessions, SessionRow
      <3>2. QED
        BY <1>2, <3>1, AdvanceByClockType
    <2>3. session' # session
      BY <1>2
    <2>4. QED
      BY <2>1, <2>2, <2>3, SessionWriters
  <1>3. QED
    BY <1>1, <1>2

\* It takes two requests at a time to bring a cancelled session back: the claim
\* that the code's locking does not keep (event_status_usecase.py, class
\* docstring) holds of requests served one after the other, whatever the cron
\* jobs of all the workers do meanwhile.
THEOREM CancelledStaysWithoutRace ==
    ASSUME \A e, f \in Editors : e = f
    PROVE  Spec => CancelledSessionsStayCancelled
<1>1. Init => AllCancelledForGood
  BY DEF Init, AllCancelledForGood, Present, CancelledForGood, KnowsCancelled, NoEdit
<1>2. TypeOK /\ AllCancelledForGood /\ [Next]_lifecycleVars => AllCancelledForGood'
  BY AloneCancelsForGood
<1>3. TypeOK /\ AllCancelledForGood /\ [Next]_lifecycleVars
         => [\A s \in Sessions : session[s].status = "cancelled"
                                   => session'[s].status = "cancelled"]_lifecycleVars
  BY CancelledStays DEF AllCancelledForGood
<1>4. QED
  BY <1>1, <1>2, <1>3, LifecycleTypeCorrect, PTL
     DEF Spec, CancelledSessionsStayCancelled

-----------------------------------------------------------------------------
\* The two ways a status follows the clock, an edit's (resolve_event_status_for_dates)
\* and the cron job's (bulk_update_session_statuses), agree: a row that an edit
\* put right, of whatever window, is put right again by a pass at any later
\* time - unless that pass is the first since before the window, and after
\* its end.  Such a row stays as it is: posted.
THEOREM JobsContinueEdits ==
    ASSUME NEW st \in DateReconciled,
           NEW w \in [start : Nat, end : Nat], ValidWindow(w),
           NEW t \in Nat, NEW u \in Nat, t <= u
    PROVE  LET edited == ResolveForDates(st, w, t)
               synced == AdvanceByClock(edited, w, u)
           IN  IF t < w.start /\ w.end <= u
               THEN synced = "posted"
               ELSE synced = ResolveForDates(st, w, u)
<1>1. CASE t < w.start
  BY <1>1 DEF ResolveForDates, AdvanceByClock, StartPass, EndPass, DateReconciled,
              ValidWindow
<1>2. CASE w.start <= t /\ t < w.end
  BY <1>2 DEF ResolveForDates, AdvanceByClock, StartPass, EndPass, DateReconciled,
              ValidWindow
<1>3. CASE w.end <= t
  BY <1>3 DEF ResolveForDates, AdvanceByClock, StartPass, EndPass, DateReconciled,
              ValidWindow
<1>4. QED
  BY <1>1, <1>2, <1>3

=============================================================================
