-------------------------- MODULE SessionLifecycle --------------------------
(***************************************************************************)
(* One event, its sessions, the organizers' requests that edit them and    *)
(* the cron jobs that advance their statuses with the clock.               *)
(*                                                                         *)
(* A request is a database transaction under READ COMMITTED.  It is cut    *)
(* into the steps between which other transactions may commit: a plain     *)
(* SELECT, the SELECT ... FOR UPDATE on the event row together with the    *)
(* validation that follows it, and the final write with its COMMIT.  A     *)
(* write is invisible to others until that commit, so it is part of it.    *)
(***************************************************************************)
EXTENDS Integers, EventStatus

CONSTANTS
    Sessions,    \* the event's session rows that are followed; it may have more
    Editors,     \* organizers' requests in flight
    Workers,     \* ARQ worker processes
    Windows,     \* [start, end] windows a request may carry, valid or not
    SlotChoices, \* max_slots a request may carry
    Issued,      \* the operations the editors of an instance issue: a bound
    NoLimit,     \* max_slots IS NULL
    MaxTime,     \* bound on the clock
    NoOne        \* the holder of a free lock

Operations == {"none", "event_status", "metadata", "session_status", "session",
               "create_session"}

ASSUME LifecycleAssumption ==
    /\ MaxTime \in Nat
    /\ Windows \subseteq [start : Nat, end : Nat] /\ Windows # {}
    /\ SlotChoices # {}
    /\ SlotChoices \subseteq Nat \cup {NoLimit}
    /\ NoLimit \notin Nat
    /\ NoOne \notin Editors \cup Sessions
    /\ Issued \subseteq Operations

VARIABLES
    now,       \* wall clock
    event,     \* the event row: status and window
    session,   \* session rows
    eventLock, \* the editor whose transaction holds the event row, or NoOne
    edit,      \* what each request in flight has read and is about to write
    sync       \* the `now` a running cron job captured, or NotRunning

lifecycleVars == <<now, event, session, eventLock, edit, sync>>

NotRunning == -1
Jobs == {"sessions", "events"}

EventRow == [status : Statuses, window : Windows]
SessionRow == [status : Statuses \cup {"absent"}, window : Windows,
               slots : SlotChoices]
Present(s) == session[s].status # "absent"

AnyWindow == CHOOSE w \in Windows : TRUE
AnySlots == CHOOSE n \in SlotChoices : TRUE
NoEdit == [pc |-> "idle", op |-> "none", sid |-> NoOne, old |-> "draft",
           to |-> "draft", window |-> AnyWindow, slots |-> AnySlots]
Edit == [pc : {"idle", "lock", "commit"}, op : Operations,
         sid : Sessions \cup {NoOne}, old : Statuses, to : Statuses,
         window : Windows, slots : SlotChoices]

TypeOK ==
    /\ now \in 0 .. MaxTime
    /\ event \in EventRow
    /\ session \in [Sessions -> SessionRow]
    /\ eventLock \in Editors \cup {NoOne}
    /\ edit \in [Editors -> Edit]
    /\ sync \in [Workers \X Jobs -> Nat \cup {NotRunning}]

\* create_event: the event starts as a draft, each of its sessions is POSTED
\* and lies inside it.
Init ==
    /\ now = 0
    /\ event \in {e \in EventRow : e.status = "draft" /\ ValidWindow(e.window)}
    /\ session \in [Sessions -> SessionRow]
    /\ \A s \in Sessions :
          IF Present(s)
          THEN /\ session[s].status = "posted"
               /\ ValidWindow(session[s].window)
               /\ Inside(session[s].window, event.window)
          ELSE session[s].window = AnyWindow /\ session[s].slots = AnySlots
    /\ eventLock = NoOne
    /\ edit = [e \in Editors |-> NoEdit]
    /\ sync = [j \in Workers \X Jobs |-> NotRunning]

-----------------------------------------------------------------------------
\* The steps every request is made of.

\* SELECT ... FOR UPDATE of the event row waits for its holder.  The request
\* then either keeps the lock until it commits, or fails and lets go at once.
Hold(e, request) ==
    /\ eventLock = NoOne
    /\ eventLock' = e
    /\ edit' = [edit EXCEPT ![e] = request]
    /\ UNCHANGED <<now, event, session, sync>>

Finish(e) ==
    /\ eventLock' = NoOne
    /\ edit' = [edit EXCEPT ![e] = NoEdit]
    /\ UNCHANGED <<now, sync>>

Idle(e, op) == edit[e].pc = "idle" /\ op \in Issued

Committing(e, op) == edit[e].pc = "commit" /\ edit[e].op = op

\* A request that has read its session row, without a lock, and next wants the
\* event row.  Its arguments matter only once they are checked, so they are
\* chosen there.
WaitsForEvent(e, op) == edit[e].pc = "lock" /\ edit[e].op = op

-----------------------------------------------------------------------------
\* update_event_status

\* Mutant: the event row is read without FOR UPDATE.
LockForEventStatus_NoLock(e, to) ==
    /\ Idle(e, "event_status")
    /\ to \in AllowedEventTransitions[event.status]
    /\ edit' = [edit EXCEPT ![e] =
                   [NoEdit EXCEPT !.pc = "commit", !.op = "event_status", !.to = to]]
    /\ UNCHANGED <<now, event, session, eventLock, sync>>

LockForEventStatus(e, to) ==
    /\ Idle(e, "event_status")
    /\ to \in AllowedEventTransitions[event.status]
    /\ Hold(e, [NoEdit EXCEPT !.pc = "commit", !.op = "event_status", !.to = to])

CommitEventStatus(e) ==
    /\ Committing(e, "event_status")
    /\ event' = [event EXCEPT !.status = edit[e].to]
    /\ UNCHANGED session
    /\ Finish(e)

-----------------------------------------------------------------------------
\* update_event_metadata: new dates are checked against each other only, and
\* decide a date-reconciled status anew.

LockForMetadata(e, w) ==
    /\ Idle(e, "metadata")
    /\ ValidWindow(w)
    /\ Hold(e, [NoEdit EXCEPT !.pc = "commit", !.op = "metadata", !.window = w,
                              !.to = ResolveForDates(event.status, w, now)])

CommitMetadata(e) ==
    /\ Committing(e, "metadata")
    /\ event' = [status |-> edit[e].to, window |-> edit[e].window]
    /\ UNCHANGED session
    /\ Finish(e)

-----------------------------------------------------------------------------
\* update_event_session_status and update_event_session both read the session
\* row BEFORE they lock the event row, and judge by what they read then.

ReadSession(e, op, s) ==
    /\ Idle(e, op)
    /\ Present(s)
    /\ edit' = [edit EXCEPT ![e] = [NoEdit EXCEPT !.pc = "lock", !.op = op,
                                        !.sid = s, !.old = session[s].status]]
    /\ UNCHANGED <<now, event, session, eventLock, sync>>

LockForSessionStatus(e, to) ==
    /\ WaitsForEvent(e, "session_status")
    /\ to \in AllowedSessionTransitions[edit[e].old]
    /\ Hold(e, [NoEdit EXCEPT !.pc = "commit", !.op = "session_status",
                              !.sid = edit[e].sid, !.to = to])

\* The row that update_event_session is about to write.
Rescheduled(e, w, n) ==
    [NoEdit EXCEPT !.pc = "commit", !.op = "session", !.sid = edit[e].sid,
                   !.to = ResolveForDates(edit[e].old, w, now),
                   !.window = w, !.slots = n]

\* Mutant: the event's dates are read without FOR UPDATE.
LockForSession_NoLock(e, w, n) ==
    /\ WaitsForEvent(e, "session")
    /\ ValidWindow(w)
    /\ Inside(w, event.window)
    /\ edit' = [edit EXCEPT ![e] = Rescheduled(e, w, n)]
    /\ UNCHANGED <<now, event, session, eventLock, sync>>

LockForSession(e, w, n) ==
    /\ WaitsForEvent(e, "session")
    /\ ValidWindow(w)
    /\ Inside(w, event.window)
    /\ Hold(e, Rescheduled(e, w, n))

CommitSessionStatus(e) ==
    /\ Committing(e, "session_status")
    /\ session' = [session EXCEPT ![edit[e].sid].status = edit[e].to]
    /\ UNCHANGED event
    /\ Finish(e)

CommitSession(e) ==
    /\ Committing(e, "session")
    /\ session' = [session EXCEPT ![edit[e].sid] =
                      [status |-> edit[e].to, window |-> edit[e].window,
                       slots |-> edit[e].slots]]
    /\ UNCHANGED event
    /\ Finish(e)

-----------------------------------------------------------------------------
\* create_event_session: the row is born POSTED, whatever the event's status.

\* Mutant: the column's default, which is not a status, is left in place.
LockForCreate_DefaultStatus(e, s, w, n) ==
    /\ Idle(e, "create_session")
    /\ ~Present(s)
    /\ ValidWindow(w)
    /\ Inside(w, event.window)
    /\ Hold(e, [NoEdit EXCEPT !.pc = "commit", !.op = "create_session", !.sid = s,
                              !.to = "scheduled", !.window = w, !.slots = n])

LockForCreate(e, s, w, n) ==
    /\ Idle(e, "create_session")
    /\ ~Present(s)
    /\ ValidWindow(w)
    /\ Inside(w, event.window)
    /\ Hold(e, [NoEdit EXCEPT !.pc = "commit", !.op = "create_session", !.sid = s,
                              !.to = "posted", !.window = w, !.slots = n])

CommitCreate(e) ==
    /\ Committing(e, "create_session")
    /\ session' = [session EXCEPT ![edit[e].sid] =
                      [status |-> edit[e].to, window |-> edit[e].window,
                       slots |-> edit[e].slots]]
    /\ UNCHANGED event
    /\ Finish(e)

-----------------------------------------------------------------------------
\* A request ends without effect: its validation fails, or its connection is
\* lost, and closing the database session rolls back and frees the event row.

Abandon(e) ==
    /\ edit[e].pc # "idle"
    /\ eventLock' = IF eventLock = e THEN NoOne ELSE eventLock
    /\ edit' = [edit EXCEPT ![e] = NoEdit]
    /\ UNCHANGED <<now, event, session, sync>>

-----------------------------------------------------------------------------
\* The cron jobs.  Each run captures `now`, then issues its two bulk UPDATEs
\* and commits them together.  They take no event lock for session rows; an
\* UPDATE of the event row waits for the transaction that holds it.

BeginSync(w, job) ==
    /\ sync[<<w, job>>] = NotRunning
    /\ sync' = [sync EXCEPT ![<<w, job>>] = now]
    /\ UNCHANGED <<now, event, session, eventLock, edit>>

SyncSessions(w) ==
    LET t == sync[<<w, "sessions">>] IN
    /\ t # NotRunning
    /\ session' = [s \in Sessions |-> [session[s] EXCEPT !.status =
                      AdvanceByClock(session[s].status, session[s].window, t)]]
    /\ sync' = [sync EXCEPT ![<<w, "sessions">>] = NotRunning]
    /\ UNCHANGED <<now, event, eventLock, edit>>

SyncEvents(w) ==
    LET t == sync[<<w, "events">>]
        advanced == AdvanceByClock(event.status, event.window, t) IN
    /\ t # NotRunning
    /\ advanced # event.status => eventLock = NoOne
    /\ event' = [event EXCEPT !.status = advanced]
    /\ sync' = [sync EXCEPT ![<<w, "events">>] = NotRunning]
    /\ UNCHANGED <<now, session, eventLock, edit>>

\* A run dies, or its audit record fails: its transaction is rolled back, and
\* the next minute starts another.
LoseSync(w, job) ==
    /\ sync[<<w, job>>] # NotRunning
    /\ sync' = [sync EXCEPT ![<<w, job>>] = NotRunning]
    /\ UNCHANGED <<now, event, session, eventLock, edit>>

Tick ==
    /\ now < MaxTime
    /\ now' = now + 1
    /\ UNCHANGED <<event, session, eventLock, edit, sync>>

-----------------------------------------------------------------------------
EditStep(e) ==
    \/ \E to \in Statuses : LockForEventStatus(e, to) \/ LockForSessionStatus(e, to)
    \/ \E w \in Windows : LockForMetadata(e, w)
    \/ \E s \in Sessions :
          ReadSession(e, "session_status", s) \/ ReadSession(e, "session", s)
    \/ \E w \in Windows, n \in SlotChoices :
          \/ LockForSession(e, w, n)
          \/ \E s \in Sessions : LockForCreate(e, s, w, n)
    \/ CommitEventStatus(e)
    \/ CommitMetadata(e)
    \/ CommitSessionStatus(e)
    \/ CommitSession(e)
    \/ CommitCreate(e)
    \/ Abandon(e)

SyncStep(w) ==
    \/ \E job \in Jobs : BeginSync(w, job) \/ LoseSync(w, job)
    \/ SyncSessions(w)
    \/ SyncEvents(w)

Next ==
    \/ \E e \in Editors : EditStep(e)
    \/ \E w \in Workers : SyncStep(w)
    \/ Tick

Spec == Init /\ [][Next]_lifecycleVars

-----------------------------------------------------------------------------
\* Properties

\* A session is created or rescheduled only inside the dates its event has at
\* that moment, whatever edits of the event run at the same time: the window
\* is checked against the locked event row (update_event_session,
\* create_event_session).
SessionWindowsChecked ==
    [][\A s \in Sessions :
          session'[s].window # session[s].window
              => Inside(session'[s].window, event.window)]_lifecycleVars

\* The event's status moves along the transition map, or between the three
\* date-reconciled statuses; two organizers' requests and the cron job
\* together cannot take it anywhere else (update_event_status).
EventStatusPath ==
    [][\/ event'.status = event.status
       \/ event'.status \in AllowedEventTransitions[event.status]
       \/ event.status \in DateReconciled /\ event'.status \in DateReconciled]_lifecycleVars

\* A cron job that works with a `now` it captured earlier, on rows that were
\* rescheduled meanwhile, still starts or ends no session before its time
\* (bulk_update_session_statuses).
ClockNeverRunsAhead ==
    [][(\E w \in Workers : sync[<<w, "sessions">>] # sync'[<<w, "sessions">>]) =>
          \A s \in Sessions : session'[s].status # session[s].status =>
             \/ session'[s].status = "started" /\ session[s].window.start <= now
             \/ session'[s].status = "ended" /\ session[s].window.end <= now]_lifecycleVars

\* Requests under way that know session s is cancelled: they read it so, or
\* rewrite it so.
KnowsCancelled(e, s) ==
    edit[e].sid = s =>
        /\ edit[e].pc = "lock" => edit[e].old = "cancelled"
        /\ edit[e].pc = "commit" => edit[e].to = "cancelled"

CancelledForGood(s) ==
    session[s].status = "cancelled" /\ \A e \in Editors : KnowsCancelled(e, s)

\* Only a request that read a session before it was cancelled can bring it
\* back: once those have ended, no organizer, new dates or cron job does
\* (update_event_session_status, update_event_session).
CancellationsLast ==
    [][\A s \in Sessions : CancelledForGood(s) => CancelledForGood(s)']_lifecycleVars

\* What the scheduler guarantees: a cron job that is due is started, and its
\* runs do not all fail.
CronFairness ==
    \A w \in Workers :
        /\ WF_lifecycleVars(BeginSync(w, "sessions"))
        /\ SF_lifecycleVars(SyncSessions(w))

FairSpec == Spec /\ CronFairness

\* A session that was started does not stay so for ever after its end: the
\* cron job ends it, or an organizer moves or closes it first
\* (sync_event_session_statuses_job).
StartedSessionsEnd ==
    \A s \in Sessions :
        (session[s].status = "started" /\ session[s].window.end <= now)
            ~> (session[s].status # "started" \/ session[s].window.end > now)

\* Claim of event_status_usecase.py (class docstring): locking the event row
\* "serialises concurrent transition attempts on the same event", so that a
\* session leaves a final status under no interleaving.
CancelledSessionsStayCancelled ==
    [][\A s \in Sessions :
          session[s].status = "cancelled" => session'[s].status = "cancelled"]_lifecycleVars

=============================================================================
