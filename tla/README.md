# Eventara in TLA+

Eventara runs events: organizers create events with sessions at venues, attendees register for
sessions and check in, volunteers help, accounts are created and deleted. The server
(`src/server`, FastAPI, SQLAlchemy over PostgreSQL, Redis, ARQ workers) holds all the state and
decides; two Next.js clients (`src/client` for administrators, `src/client-participant` for
attendees) keep copies of it in their tabs and show them. This directory models the parts of the
server where several requests, cron jobs and workers meet on the same rows or keys, and the parts
of the clients where requests, answers, timers and tabs meet on the same state.

Paths below are relative to `src/server/app` unless they begin with `src/`.

## 1. The system

| Component | State it keeps | Operations | What makes it correct |
|---|---|---|---|
| Events and sessions (`application/use_cases/event_usecase.py`, `event_status_usecase.py`) | `events`, `event_sessions`: status, start, end, `max_slots` | create, edit dates and slots, change a status | sessions are placed inside their event; statuses follow the transition maps |
| Status cron jobs (`infrastructure/messaging/jobs/event_status_jobs.py`) | none of their own; the `now` of a running job | start and end events and sessions by the clock, every minute | never ahead of the clock; nothing that is over stays open |
| Registration (`event_participant_usecase.py`) | `event_participants`: status, `is_checked_in`, `checked_in_by`; `user_roles` | register, withdraw, mark, check in (manually or by QR scan) | slot limits, admission only while posted, check-ins final and consistent, no deadlock |
| Venues and ratings (`venue_usecase.py`, `venue_rating_usecase.py`) | `venues` (capacity, `popularity_count`), suggestions, ratings | create, edit, approve, rate | capacity read by registration; count equals ratings |
| Account deletion (`account_settings_usecase.py`, `jobs/account_deletion_jobs.py`) | `users.deletion_requested_at`, `deletion_scheduled_for`, `status`; the deferred ARQ job | schedule, cancel by logging in, finalize | deleted only at the deadline in force; a deadline stands; deletion is final and happens |
| Authentication (`auth_usecase.py`, `core/security/token_service.py`) | refresh-token rows, lockout columns, OTP sessions in Redis | login, OTP, refresh, logout, password change | each login is one chain of refresh tokens, of which one at most can be used; OTP used once; lockout stands |
| Client sessions (`store/auth-store.ts`, `components/auth/auth-provider.tsx` of both clients) | tokens in the store of each tab and in localStorage, refreshes and requests in flight | initialize, refresh on a 401, log in, log out, store the token a form is answered with | a rotated token is never stored again; requests that wait for a refresh go on |
| Client data hooks (`hooks/` of both clients) | filter, text, page, `isLoading`, `error`, what is shown | load, filter, search, page, reload, act on a row | what is shown answers the query on the screen, never becomes older, and loading ends |
| Event volunteers, volunteers (`event_volunteer_usecase.py`, `volunteer_usecase.py`) | `event_volunteers`, applications, volunteer roles | apply, review, assign, withdraw | one open application, one assignment |
| Event feedback (`event_feedback_usecase.py`) | feedback rows | submit | one for each attendance |
| RBAC (`role_usecase.py`, `feature_usecase.py`) | roles, grants, `user_roles` | assign, remove, grant, delete | no duplicate assignment, no assignment to a deleted role |
| Dead-letter queue (`queue_usecase.py`) | ARQ results and queue in Redis, retry locks | list, retry, delete, purge | a dead job is enqueued again once, and is not lost |
| Event deletion (`event_deletion_usecase.py`) | cascades over events | delete an event or a session | guards judged by the row that is deleted |
| Profiles, users, mail, audit, analytics, storage, presentation, deployment | - | reads, single-row writes, I/O, markup | - |

**How they interact.** Every request runs in a database transaction of its own at READ COMMITTED,
serialized with others only by the rows it takes with `SELECT ... FOR UPDATE`. Edits of a session
lock the *event* row; registrations lock the *session* row, then the attendee's row, then the rows of the
attendee's roles, which administrators change; marking and check-in lock the attendee's row only.
Registration reads the venue's capacity without a lock. The cron jobs update events and sessions in bulk and take no lock but those of the UPDATE itself.
Deletion crosses three processes: the server commits the pending deletion, then enqueues the
deferred job in Redis; a worker runs it thirty days later; logins in between cancel it. The
dead-letter queue is a sequence of Redis commands with no transaction around them. A refresh is three
transactions (read, revoke, insert) and a client on each side of the network; the tabs of one browser
share only localStorage, which a page reads once. A hook's effect sends a request, and a later run of
the effect sends another without waiting for the first.

**What is hard.** Rows read before a lock and judged after it; two requests that lock different
rows; a job that works with an old `now`; the last slot; a job that is run again, late, never, or
for a request that was cancelled; a process that dies between two commits or commands; answers that
come in another order than their requests, or to a page that has changed or gone. `PROJECT.json` lists each
hazard at its line with the property that would catch it, or the reason that none does yet.

## 2. The modules

| Module | What it is |
|---|---|
| `EventStatus` | status values, the two transition maps, date reconciliation, one row under the cron passes: operators only |
| `SessionLifecycle` | one event, its sessions, organizers' requests and the cron jobs |
| `Registration` | EXTENDS `SessionLifecycle`: registrations, check-ins, slots, venue capacity and the attendees' roles |
| `AttendanceLedger` | abstract specification: what registration promises, every request one step |
| `AccountDeletion` | one account: deletion requests, logins, the deferred job and its worker |
| `LoginChain` | abstract specification: what refresh-token rotation promises |
| `ClientSession` | one user's tabs, their auth stores, forms and interceptor, and the server that rotates the tokens |
| `QueryView` | the hooks that load lists, details and reports, as one machine |
| `DeadLetterQueue` | dead jobs and the requests that retry, delete and purge them |
| `*_proofs` | the theorems about the module they are named after |
| `MC*` | the definitions that small instances need |

### SessionLifecycle

A request is a transaction cut where others may commit: a plain SELECT, the SELECT FOR UPDATE of the
event row with the validation that follows, the write with its COMMIT. An uncommitted write is
invisible, so it belongs to the commit.

| State | Code |
|---|---|
| `event`, `session` | rows of `events` and `event_sessions`; `"absent"` is a row not created yet. The event may have sessions that are not followed: nothing here counts them |
| `eventLock` | the transaction that holds the event row after `get_event_for_update` |
| `edit[e]` | local variables of a handler between its awaits: what it read (`old`), what it will write |
| `sync` | the `now` captured by a running cron job |

| Actions | Code |
|---|---|
| `LockForEventStatus`, `CommitEventStatus` | `update_event_status` |
| `LockForMetadata`, `CommitMetadata` | `update_event_metadata` |
| `ReadSession`, `LockForSessionStatus`, `CommitSessionStatus` | `update_event_session_status`: the session is read before the event is locked |
| `ReadSession`, `LockForSession`, `CommitSession` | `update_event_session`, likewise |
| `LockForCreate`, `CommitCreate` | `create_event_session` |
| `Abandon` | a failed validation or a lost connection: rollback |
| `BeginSync`, `SyncSessions`, `SyncEvents`, `LoseSync` | the two cron jobs, their bulk UPDATEs and their failure |

`create_event` is `Init`. Its sessions and the event's own dates are any that validation accepts.

Abstractions: an edit writes the whole row (the window is one value, and an edit that keeps a date
carries the same one); a request's arguments are chosen when they are checked; the two bulk UPDATEs
of a job and its COMMIT are one step for each table; roles and permissions, which only refuse, are
left out, as are texts and banners. Time is a small number of ticks, and many steps fit in a tick.

### Registration

| State | Code |
|---|---|
| `part`, `checkedBy` | `event_participants.status` and `checked_in_by` of each user and session |
| `capacity` | `venues.capacity` |
| `roles` | the active `user_roles` rows of each user; an account is created with one |
| `sessionLock`, `partLock`, `roleLock` | holders of session rows, registration rows and role assignments |
| `req[c]` | what a handler has read: the user's row, the limit, the count, the role assignments that the look-up waits for or has locked |

| Actions | Code |
|---|---|
| `RegLock`, `RegCheck`, `RegCount`, `RegWrite` | `register_for_session`, `_resolve_slot_limit` |
| `RegRoles`, `RegCommit` | `_assign_rbac_participant_role`: `get_active_assignments_for_user`, which is `FOR UPDATE`, and the assignment where it finds none |
| `LockRow` | `get_participant_for_update` of the other three requests |
| `WithdrawCommit` | `withdraw_registration` |
| `MarkCommit` | `update_participant_status` |
| `CheckInRead`, `CheckInCommit` | `check_in_participant` |
| `Refuse`, `ConnectionLost` | the handlers' errors; the death of a process; both roll back |
| `SetCapacity` | `update_venue` |
| `AssignRole`, `RevokeRole`, `ChangeRole` | `assign_role`, `revoke_assignment`, `change_role`: a role that is locked keeps the last two waiting, and one that is deleted is lost to the look-ups that wait for it |
| `LifecycleStep` | a step of `SessionLifecycle`; it waits for a session row that is locked |

Abstractions: the QR scan performs the writes of the manual check-in under more refusals and is not
an action of its own; minting QR tokens and the mails sent after the commit are left out. A look-up of
roles has found its rows when it begins to wait, as in PostgreSQL: it sees that one of them is deleted, and
not that another is inserted. It locks them in one step, since every transaction locks a user's rows in one
order (`ORDER BY assigned_at DESC`); the mutant `RegRoles_AnyOrder` takes them one by one. Administrators'
transactions are single steps. Of the key-share locks of foreign keys one is modelled: a new registration's
lock on its user's row holds off `change_role`; the others meet no `FOR UPDATE` of the modelled requests.
Which role a row names, the expiry of assignments and a platform without the role `participant` are left out;
the role that an approved volunteer is given is an `AssignRole`.

### AccountDeletion

`pending` is `deletion_requested_at`, or none; `deletion_scheduled_for` is always later by the grace
period. `req`, `login` are handlers in flight, `job[r]` the ARQ job whose id carries the window `r`;
`lost` (history) holds the requests whose server died before it enqueued their job.

| Actions | Code |
|---|---|
| `CheckRequest`, `Schedule`, `Conflict`, `Enqueue` | `request_self_service_deletion`, `request_admin_deletion`, `_schedule_deletion`, `schedule_account_deletion` |
| `RequestLost` | the server dies, or Redis refuses: the commit stays, the job is missing |
| `VerifyLogin`, `CancelDeletion`, `EndLogin` | `login_verify`, `cancel_pending_account_deletion` |
| `Finalize` | `finalize_account_deletion_job`, `finalize_account_deletion` |
| `StartJob`, `DropJob`, `FinishJob`, `BreakJob` | ARQ (external): a job's data lives for `_expires`, a stopped worker's job runs again up to `max_tries`, one that raises ends |

Abstraction: two requests that fall into one tick have the same `requested_at`, and so one job. In
the code they differ by microseconds; the coarse clock adds behaviours and removes none that the
properties tell apart.

### ClientSession

| State | Code |
|---|---|
| `issued`, `live` | refresh-token rows: the login each belongs to, and `is_active` |
| `disk`, `mem[t]` | the refresh token in localStorage and in the store of each tab |
| `ready[t]`, `toInit[t]` | `isInitialized`; the effects that have not called `initialize` yet |
| `flight[w]` | `tryRefresh` between its await and its answer, by tab and caller, with the server's progress on it |
| `call[c]` | an authenticated request: sent, or waiting for `refreshPromise`; `again` is `_retry`; `kept` the refresh token of its form's render |
| `exit[t]` | a logout or change of password under way |

| Actions | Code |
|---|---|
| `OpenPage`, `ClosePage`, `initialize` | rehydration by `persist`; closing; `initialize` as the effects of a page call it |
| `VerifyToken`, `RevokeToken`, `IssueToken` | `verify_refresh_token`, `RefreshTokenRepository.revoke`, `create_refresh_token`: a commit each |
| `BreakRefresh`, `DropAnswer` | lost requests and answers, a server that dies between two commits, a page that is gone |
| `SendCall`, `Succeed`, `Fail`, `Unauthorized`, `EndRefresh` | requests, the forms that store a token, the interceptor, the end of `tryRefresh` |
| `Login`, `StartLogout`, `RevokeLogin`, `RevokeAll`, `SignOut` | `login_verify`, the sign-out handlers, `logout`, `change_password` |

The two applications are one module with two parameters: who calls `initialize` and which pages wait
for it, and whether the password page clears the store. `Kinds` says what a request's caller does with
an access token it is answered with: nothing, store it with the refresh token of the store at that
moment (`save`), or with that of the render it was submitted from (`save_captured`, in the
administrator application). Access tokens and user fields move with the refresh token; whether an
access token has expired is a choice at each look, so every expiry that a clock allows is covered.

`LoginChain` is the promise behind it: a token is taken, and its successor is given out or lost.
`renewing`, its only variable that the code does not store, is mapped to the logins whose refresh
stands between `revoke` and `create_refresh_token`.

### QueryView

41 hooks of the two applications do the same thing with differences that decide whether it is right:
whether a late answer is dropped, when loading is shown, how page 1 comes back, how the search text is
delayed, what a reload does. Each hook is a record of those differences, named for the hook;
`Init` picks one, and the actions follow it.

| State | Code |
|---|---|
| `filter`, `text`, `page`, `typed`, `timer` | the hook's `useState` values and its debounce timer |
| `run`, `loads` | runs of the load effect, and requests whose answer was not handled; `cancelled` of a run is `n # run` |
| `view`, `loading`, `failed` | what is shown (the query it answers and the version of the data it has), `isLoading`, `error` |
| `busy`, `version`, `asked` | the row action under way; the data at the server, and its version when the effect last ran |

`Ask`, `Set` and `Send` are a handler with the render and the effects it causes, which React runs before
the next event; `Answer` and `Fail` are the code after the await; `Read` is the server's, `Commit` and
`Change` are what row actions and other users commit. Abstractions: a page number stands for a cursor
or an offset; subjects and filters are one value; a hook with two requests in one effect
is its list; what a hook looks up in the address is always there; `useEventParticipantAccess` answers an owner
without a request, which is modelled as far as it empties the view, and no property speaks of it.

### DeadLetterQueue

| State | Code |
|---|---|
| `job[j]` | the job of each ARQ identifier: queued, its result key (failed or succeeded), or how the key went |
| `copyOf`, `broken` | history: the dead job a job was enqueued again from, and the retries that broke off after that |
| `lock` | the keys `arq:dlq:retry-lock:*` |
| `request[r]` | a request between two Redis commands |

Every command of `retry_dead_job` is an action (`AcquireLock`, `ReadForRetry`, `EnqueueCopy`,
`RemoveRetried`, `ReleaseLock`), as are those of `delete_dead_job`; the scan of a purge, whose
reads change nothing, is joined with its one DEL, which takes any of the jobs that failed during the scan.
`RedisFails`, the lost answers (`heard = FALSE`) and `Crash` may come between any two of them. A worker's
running of a job is external, and `EnqueueJob` stands for whoever enqueues one.

## 3. What TLC checks

Passing runs. Each bound is a constant of the configuration.

| Run | Shows | Bounds, and why they are enough |
|---|---|---|
| `SessionLifecycle` | `SessionWindowsChecked`, `EventStatusPath`, `ClockNeverRunsAhead`, `CancellationsLast`, `StartedSessionsEnd` under the cron schedule, types | 2 requests of every kind, 1 worker, 1 session that exists or is still to be created, 3 windows (two in a row, one invalid), 3 instants. Two writers and a job are what a lost lock or a stale read takes; sessions do not interact with one another |
| `Registration` | `AdmissionsWithinLimit`, `AdmissionsWhilePosted`, `CheckedInHasAttended`, `FirstCheckInStands`, `OccupancyBounded`, `ImplementsLedger`, types | 3 users and 3 requests on 1 session, limits 1, 2 and none, an organizer who edits the session and its status. One slot too many takes two registrations and a limit; the third request withdraws, marks or checks in |
| `Registration_live` | `RequestsFinish`, `NoCircleOfWaits`, `AdmittedHaveRole` | 2 requests of one user for 2 sessions and administrators who assign, revoke and change roles, with 4 rows for them: a circle of waits takes two requests and two rows, and each request may insert one more |
| `AccountDeletion` | `DeletedWhenDue`, `DeadlineStands`, `DeletionIsFinal`, `PendingHasJob`, types | 2 requests, a login, a worker that fails and repeats, 3 instants with a grace period of 1: a request can be cancelled and made again before the first job is due |
| `ClientSession` | `OneTokenPerLogin`, `OldTokenDiscarded`, `LoginsEndForGood`, `ImplementsLoginChain`, types | the participant application, 2 tabs with 1 form request each, 2 tokens. Tabs meet in localStorage and in one chain; a second token is what makes the first one old. Pages are closed only when the server works on none of their refreshes; the next run drops that |
| `ClientSession_live` | `RequestsSettle`, `WaitersHaveRefresh` | 1 tab, 2 requests (one starts a refresh, the other waits for it), a closed page's refresh that the server goes on with |
| `QueryView` | `ViewIsCurrent`, `ViewNeverGoesBack`, `LoadingIsAnswered`, `LoadsEnd`, types | all hooks, 2 filters, 2 texts, 2 pages, 3 things users do: a filter changed during the reload that follows a row action takes three |
| `DeadLetterQueue` | `OneCopyUnlessBroken`, `RetriedJobsLiveOn`, `LocksAreReleased`, types | 2 requests, 1 job of the application and 2 copies: a second copy takes two retries and two identifiers |

The liveness runs use no symmetry. Deadlock is not checked where the system may stop: in
`AccountDeletion` the bounded clock and a deleted account, in `ClientSession` the bound on tokens, in
`QueryView` that on what users do leave nothing to do.
In the passing run of `AccountDeletion` the job's data outlives the grace period, so that jobs reach
the finalization that the properties are about; the code's own values, 2 days and 30 days, are the
order of the run `AccountDeletion_expired`. The theorems hold for every value.

Violation runs. Each checks one statement that a comment or a document makes, and TLC finds the
behaviour of the code that contradicts it.

| Run | Statement | What happens |
|---|---|---|
| `SessionLifecycle_cancelled` | locking the event row serialises transitions (`event_status_usecase.py`) | two requests read the session as POSTED before either has the lock; CANCELLED is committed, then STARTED |
| `Registration_roles` | the role is assigned "only if they have no active role yet" (`event_participant_usecase.py:259`) | the only role of a user is revoked while the user registers for two sessions; there is no row to lock, both registrations find none, and both assign the role |
| `AccountDeletion_expired` | ARQ finalizes after the grace period | the job's data expires after 2 days, and the job is due after 30 |
| `ClientSession_forms` | clients discard the old refresh token after a refresh (`auth_usecase.py`) | a form of the administrator application keeps the refresh token of its render; its request is answered 401, the token is rotated, and the form puts the old one back |

Four more disagreements were found while modelling and have no run, because each is a missing guard
that a reader sees at its line; `PROJECT.json` lists them under hazards:
`update_event_metadata` moves an event away from its sessions (`event_usecase.py:278`); a session that no
job saw inside its window stays posted for ever (`event_repository.py:566`); a no-show who registers again
is registered (`event_participant_usecase.py:186`, while the route calls NO_SHOW terminal); and a login that checked
the deletion deadline just in time is let in after it (`auth_usecase.py:456`). The claim that
`Registration_roles` refutes fails in a second way, with `RoleChanges = {"change"}`: a registration that waits
while `change_role` replaces the only assignment finds nothing when it goes on, since its query does not see
the new row, and assigns the participant role beside the new one. Two more concern the
dead-letter queue: with `SlowRetries = TRUE`, a retry slower than its lock's 30 seconds, `OneCopyUnlessBroken`
fails, since the `finally` block deletes a lock that is another's (how far it fails is a theorem, see below);
and a delete that has read a job as dead
answers "deleted" although a retry has just enqueued it again.

**Fairness.** ARQ starts each cron job every minute: `BeginSync` is weakly fair. A run may fail, and
may be lost again and again, but not for ever once it keeps being started: `SyncSessions` is strongly
fair. Organizers and attendees owe nothing. A handler whose process lives goes on: `Proceed` is weakly
fair. `RegWrite` and `RegRoles` may wait for rows of another request, and PostgreSQL queues those who wait for a
row: they are strongly fair. A server finishes a deletion request it has begun and a worker takes
jobs that are due: weakly fair. In a browser, requests are answered or time out, continuations run and timers
fire: `RefreshNext`, `EndRefresh`, the ends of a request, `Handle` and `Debounce` are weakly fair; nobody
need load a page, type or log in. A dead-letter request that is being served goes on, and Redis
drops a key whose time is up: `Serve` and `LockExpires` are weakly fair. No fairness is assumed for the clock,
lost connections or faults.

## 4. What is proved

All theorems hold for every number of sessions, users, requests, workers, slots and instants, from the
assumptions that the modules name: `LifecycleAssumption` (windows are pairs of naturals, there is one;
`NoLimit` is no number; nobody and no session is called `NoOne`), `RegistrationAssumption` (finitely many
users, capacities are naturals), `DeletionAssumption`, `SessionAssumption`, `QueryAssumption` and
`RetryAssumption`. Four theorems assume more, and say so: `OldTokensStayDiscarded`, `CancelledStaysWithoutRace`,
`RetryInvariant` with `OneCopyPerDeadJob`, and `SlowRetriesCopyOncePerRequest`.

Every invariant and action property of a passing run is a theorem.

- **Lifecycle.** Type correctness is inductive. `SessionWindowsChecked` and `EventStatusPath` speak of
  the commit, while the code validates earlier. `ValidatedInv` bridges the two: a request about to
  commit holds the event row, and what it validated is still true of that row, since only the holder, or a
  cron job while there is none, writes it. `ClockNeverRunsAhead` rests on `CapturedInv`: what a job
  captured is not in the future.

  A cancelled session can come back, as the run `SessionLifecycle_cancelled` shows. Two theorems say when.
  `CancelledSessionsLast`: only a request that read the session before the cancellation does it.
  `KnowsCancelled` says of a request that it is none of those; the state "cancelled, and every
  request knows" is closed under every step, because `ResolveForDates` and the transition map leave a
  status that was read as cancelled as it is (`CancelledStatusStays`). `CancelledStaysWithoutRace`: with one
  organizer's request at a time, and any number of workers, the violated statement holds.

  `JobsContinueEdits` compares the two places that compute a status from the clock: a pass at any later
  time leaves a row that an edit put right as an edit at that time would, but for one case, which it states
  exactly: the row was put right before its window began, and the next pass comes after its end; the row stays
  posted. That is the gap at `event_repository.py:566`, and the theorem says that there is no other.
- **Registration.** Seen through the lifecycle's variables every behaviour is one of `SessionLifecycle`
  (`LifecycleSimulated`), so its types come for free, and so do its promises (`LifecycleKeepsItsPromises`).
  `RegistrationInv` adds the locking discipline
  (`LocksHeld`: the step a handler is at says which rows it holds) and what the locks are for
  (`Reads`: the session is still posted, the user's row is as it was read, at most as many places are
  taken as were counted, and fewer than the limit). None of the claims is inductive without it:
  at the commit the code looks at nothing any more. One lemma for each kind of step keeps it. From it follow
  `AdmissionsWithinLimit`, `AdmissionsWhilePosted`, `CheckedInHasAttended`, `FirstCheckInStands` and
  the refinement `ImplementsLedger`: `RegCommit` is the ledger's `Admit`, withdrawing and marking
  are `Settle`, `CheckInCommit` is `CheckIn`, all else is `Reschedule` or a stutter.

  `WaitsFormNoCircle` is the safety core of `RequestsFinish`. `Stages` numbers how far a request is: it
  holds no row another may wait for, it holds its registration row and looks for roles, it holds these
  too. Whoever holds a registration row has come to the second stage and whoever holds a role to the third, and
  a request waits only for rows of a stage it has not come to, so that it waits for requests that are ahead
  of it (`AwaitedAreAhead`), and among any requests one that is furthest waits for none of the others.

  `AdmissionsLeaveARole` rests on `RolesFound`: the assignments a look-up waits for are all still there,
  since a revocation takes away from both, and at the commit the request holds their locks, which every
  revocation and change respects. The claim that it replaces, one assignment at most, is false
  (`Registration_roles`).

  `SessionsAreNotOverfull` adds that every limit a handler has read is one that was
  set once (`LimitsRead`); a limit lowered later does not undo registrations, so the bound is the largest of
  the limits, not the one in force.
- **Client sessions.** `SessionInv` says who can hold which token: only the newest token of a login is
  active, and none while a refresh has revoked one and not issued the next (`Chains`), and a token whose
  answer still travels is known to nobody else (`Undelivered`), so that a tab that stores it moves forward.
  `OneUsableToken`, `OldTokensStayDiscarded` and the refinement `SessionImplementsChain` follow; the second
  assumes that no form keeps the token of its render (`"save_captured" \notin Kinds`), which is what the
  run `ClientSession_forms` shows it needs. `LoginsStayEnded` is read off the refinement: no step of
  `LoginChain` gives a token to a login that has none and is not renewing. `NoWaitForNothing`, the safety
  core of `RequestsSettle`, needs no more than that every step that ends a refresh wakes those who wait.
- **Hooks.** `QueryInv` relates the runs of the effect to the data: one request of the last run at most is
  out, and while it is, the view is no newer than the run (`Ages`). `SettledViewIsCurrent` and
  `ViewOnlyGetsNewer` hold for every hook that drops late answers. `NoLoadingForNothing`, the safety core of
  `LoadsEnd`, holds for all of them.
- **Dead letters.** Seen by one job, a step is one of five moves (`Moves`: `Steady`, `Reads`, `Enqueues`,
  `Settles`, `Breaks`), and every invariant is proved against these. What needs no lock comes first: types,
  and that a job a retry removed has its copy (`NoRetryLosesItsJob`, since the code enqueues before it
  deletes), hold also where retries outlive their locks. `CopiesWithin(n)` counts: if at most `n` retries of a job
  are under way at a time, it has at most `n` copies more than retries that broke off, those under way that
  have not enqueued yet included. Where retries keep within the lock's 30 seconds (`~SlowRetries`), `n` is 1,
  because a retry holds its lock alone (`Exclusive`): `RetryInvariant`, `OneCopyPerDeadJob`. Where they do not, `n` is
  the number of requests served at a time: `SlowRetriesCopyOncePerRequest`, a bound that is reached.
  Both need the sets counted to be finite.
- **Account deletion.** The three UPDATEs are conditional, so three properties need no strengthening:
  `AccountChanges` says which steps may change the account, and how; each theorem reads off it.
  `PendingDeletionsHaveJobs` needs `JobsStartWhenDue` beside it: no worker takes up a job before its time,
  so that the job of the request in force is still queued whatever jobs of earlier requests have done. It holds up to
  the instant the deletion is due; that the code loses the job later is the run `AccountDeletion_expired`.

Only model-checked: the liveness properties `StartedSessionsEnd`, `RequestsFinish`, `RequestsSettle`, `LoadsEnd`
and `LocksAreReleased`, which need fairness and ENABLED, and the violated statements (of
`CancelledSessionsStayCancelled` and `OldTokenDiscarded` theorems say what they would take).


## 5. Not modelled, and the plan

| Next | Module | About |
|---|---|---|
| 1 | `VolunteerApplications` | applications, review, volunteers and volunteer roles: `FOR UPDATE` that finds no row locks none, so two first submissions both insert, after which `scalar_one_or_none` fails for that user; approval and the volunteer it creates in one commit; a role deleted under an approval |
| 2 | `EventVolunteers` | extends `SessionLifecycle` as `Registration` does: applications and assignments under the event's lock, removal against a status change; the abstract promise is that an application is made only while the event is open |
| 3 | feedback in `Registration` | a request that locks rows of both kinds, and what it does to `RequestsFinish` |
| 4 | `Rbac`, `LoginLockout`, `VenueRatings` | two assignments of one role, assignment against role deletion; a counter that two requests step; a counter beside its rows |
| 5 | `EventDeletion` | the guards and the cascade (see below) |
| 6 | `CheckInDesk` | the participant's QR code and the scanner page, which mint, show and consume a token that expires |

Event deletion is absent from the lifecycle for a reason of its own: `delete_event` and
`delete_event_session` call `db.begin()` on a session that `require_permission` has already queried in the
same request, which SQLAlchemy refuses, so no deletion takes effect as the server is built.

Not planned: the server's queries, analytics, dashboards, profiles and audit records (reads and single-row
writes), mail and object storage (I/O), deployment. Of the 84,500 lines of TypeScript nearly half
(`src/client*/api/*.gen.ts`) are generated from the server's OpenAPI document and hold types and one
call per route; most of the rest is markup, texts, validation and the local state of one form. What
can go wrong there over several steps, the session and the loading of data, is modelled and is a small part
of the lines: the definitions in `PROJECT.json` name only lines that they translate. Of the
client code that does have steps, left out are the alias check of the profile forms, uploads, the
countdown of the login code, and two loaders that apply whichever answer comes last
(`volunteer-roles-table.tsx:332`, `use-account-actions.ts:292`): they are in `QueryView` as hooks with `late`,
of which only `LoadsEnd` is claimed.
