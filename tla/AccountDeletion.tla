--------------------------- MODULE AccountDeletion ---------------------------
(***************************************************************************)
(* The deletion of one account: requests by the user and by administrators *)
(* schedule it, a login within the grace period cancels it, and a deferred *)
(* ARQ job finalizes it.  Each of the three writes is one conditional      *)
(* UPDATE, committed on its own; what surrounds it interleaves.            *)
(*                                                                         *)
(* A request is known by its deletion_requested_at, since                  *)
(* deletion_scheduled_for always follows it by the grace period.           *)
(***************************************************************************)
EXTENDS Integers

CONSTANTS
    Requests, \* deletion requests in flight, self-service and administrator
    Logins,   \* login_verify requests in flight
    Grace,    \* grace_period
    Expires,  \* _expires of the ARQ job
    MaxTries, \* max_tries of the worker
    MaxTime,  \* bound on the clock
    Faults    \* the faults of an instance: a subset of {"server", "worker"}

ASSUME DeletionAssumption ==
    /\ Grace \in Nat /\ Grace > 0
    /\ Expires \in Nat
    /\ MaxTries \in Nat
    /\ MaxTime \in Nat

VARIABLES
    now,     \* wall clock
    status,  \* status of the account
    pending, \* its deletion_requested_at, or NotPending
    req,     \* what each deletion request is at, and its requested_at
    login,   \* what each login is at
    job,     \* the ARQ job of each requested_at
    lost     \* history: the requests that died after the commit, before the job

vars == <<now, status, pending, req, login, job, lost>>

NotPending == -1
Times == 0 .. MaxTime
Due(r) == r + Grace

NoRequest == [pc |-> "idle", at |-> 0]
NoJob == [state |-> "absent", expires |-> 0, tries |-> 0]

TypeOK ==
    /\ now \in Times
    /\ status \in {"active", "deleted"}
    /\ pending \in Times \cup {NotPending}
    /\ req \in [Requests -> [pc : {"idle", "schedule", "enqueue"}, at : Times]]
    /\ login \in [Logins -> {"idle", "verified", "signed_in"}]
    /\ job \in [Times -> [state : {"absent", "queued", "running", "committed"},
                          expires : Nat, tries : 0 .. MaxTries]]
    /\ lost \subseteq Times

Init ==
    /\ now = 0
    /\ status = "active"
    /\ pending = NotPending
    /\ req = [c \in Requests |-> NoRequest]
    /\ login = [l \in Logins |-> "idle"]
    /\ job = [r \in Times |-> NoJob]
    /\ lost = {}

-----------------------------------------------------------------------------
\* request_self_service_deletion, request_admin_deletion: the account is read,
\* and requested_at is taken before the UPDATE that relies on neither.
CheckRequest(c) ==
    /\ req[c].pc = "idle"
    /\ status = "active"
    /\ pending = NotPending
    /\ req' = [req EXCEPT ![c] = [pc |-> "schedule", at |-> now]]
    /\ UNCHANGED <<now, status, pending, login, job, lost>>

\* Mutant: the UPDATE trusts the earlier read.
Schedule_Unconditional(c) ==
    /\ req[c].pc = "schedule"
    /\ pending' = req[c].at
    /\ req' = [req EXCEPT ![c].pc = "enqueue"]
    /\ UNCHANGED <<now, status, login, job, lost>>

\* Mutant: the two timestamps are swapped.
Schedule_Swapped(c) ==
    /\ req[c].pc = "schedule"
    /\ status = "active"
    /\ pending = NotPending
    /\ pending' = Due(req[c].at)
    /\ req' = [req EXCEPT ![c].pc = "enqueue"]
    /\ UNCHANGED <<now, status, login, job, lost>>

\* schedule_account_deletion
Schedule(c) ==
    /\ req[c].pc = "schedule"
    /\ status = "active"
    /\ pending = NotPending
    /\ pending' = req[c].at
    /\ req' = [req EXCEPT ![c].pc = "enqueue"]
    /\ UNCHANGED <<now, status, login, job, lost>>

\* The UPDATE matched no row.
Conflict(c) ==
    /\ req[c].pc = "schedule"
    /\ status # "active" \/ pending # NotPending
    /\ req' = [req EXCEPT ![c] = NoRequest]
    /\ UNCHANGED <<now, status, pending, login, job, lost>>

\* Mutant: one job identifier per account, without the requested_at.
Enqueue_PerAccount(c) ==
    /\ req[c].pc = "enqueue"
    /\ job' = IF \A r \in Times : job[r].state = "absent"
              THEN [job EXCEPT ![req[c].at] =
                       [state |-> "queued", expires |-> now + Expires, tries |-> 0]]
              ELSE job
    /\ req' = [req EXCEPT ![c] = NoRequest]
    /\ UNCHANGED <<now, status, pending, login, lost>>

\* _schedule_deletion's enqueue_job, after the commit: ARQ keeps the job it
\* already has under that id, and drops the job's data after _expires.
Enqueue(c) ==
    /\ req[c].pc = "enqueue"
    /\ job' = IF job[req[c].at].state = "absent"
              THEN [job EXCEPT ![req[c].at] =
                       [state |-> "queued", expires |-> now + Expires, tries |-> 0]]
              ELSE job
    /\ req' = [req EXCEPT ![c] = NoRequest]
    /\ UNCHANGED <<now, status, pending, login, lost>>

\* The server dies, or Redis refuses the job.
RequestLost(c) ==
    /\ "server" \in Faults
    /\ req[c].pc # "idle"
    /\ req' = [req EXCEPT ![c] = NoRequest]
    /\ lost' = IF req[c].pc = "enqueue" THEN lost \cup {req[c].at} ELSE lost
    /\ UNCHANGED <<now, status, pending, login, job>>

-----------------------------------------------------------------------------
\* login_verify: the account is read and its deadline checked, and the pending
\* deletion is cancelled later.

VerifyLogin(l) ==
    /\ login[l] = "idle"
    /\ status = "active"
    /\ pending # NotPending => Due(pending) > now
    /\ login' = [login EXCEPT ![l] = "verified"]
    /\ UNCHANGED <<now, status, pending, req, job, lost>>

\* cancel_pending_account_deletion, whose answer login_verify ignores.
CancelDeletion(l) ==
    /\ login[l] = "verified"
    /\ pending' = IF status = "active" /\ pending # NotPending /\ Due(pending) > now
                  THEN NotPending ELSE pending
    /\ login' = [login EXCEPT ![l] = "signed_in"]
    /\ UNCHANGED <<now, status, req, job, lost>>

EndLogin(l) ==
    /\ login[l] # "idle"
    /\ login[l] = "signed_in" \/ "server" \in Faults
    /\ login' = [login EXCEPT ![l] = "idle"]
    /\ UNCHANGED <<now, status, pending, req, job, lost>>

-----------------------------------------------------------------------------
\* The ARQ worker and finalize_account_deletion_job.

StartJob(r) ==
    /\ job[r].state = "queued"
    /\ Due(r) <= now
    /\ now < job[r].expires
    /\ job[r].tries < MaxTries
    /\ job' = [job EXCEPT ![r].state = "running", ![r].tries = @ + 1]
    /\ UNCHANGED <<now, status, pending, req, login, lost>>

\* A job that is due and whose data has expired, or that was tried too often,
\* leaves the queue.
DropJob(r) ==
    /\ job[r].state = "queued"
    /\ Due(r) <= now
    /\ job[r].expires <= now \/ job[r].tries >= MaxTries
    /\ job' = [job EXCEPT ![r] = NoJob]
    /\ UNCHANGED <<now, status, pending, req, login, lost>>

\* Mutant: any pending deletion is finalized, not the job's own.
Finalize_AnyWindow(r) ==
    /\ job[r].state = "running"
    /\ IF status = "active" /\ pending # NotPending
       THEN status' = "deleted" /\ pending' = NotPending
       ELSE UNCHANGED <<status, pending>>
    /\ job' = [job EXCEPT ![r].state = "committed"]
    /\ UNCHANGED <<now, req, login, lost>>

\* finalize_account_deletion: compare and swap on the job's own window.
Finalize(r) ==
    /\ job[r].state = "running"
    /\ IF status = "active" /\ pending = r /\ Due(r) <= now
       THEN status' = "deleted" /\ pending' = NotPending
       ELSE UNCHANGED <<status, pending>>
    /\ job' = [job EXCEPT ![r].state = "committed"]
    /\ UNCHANGED <<now, req, login, lost>>

FinishJob(r) ==
    /\ job[r].state = "committed"
    /\ job' = [job EXCEPT ![r] = NoJob]
    /\ UNCHANGED <<now, status, pending, req, login, lost>>

\* The worker is stopped in the middle of the job, which is run again, or the
\* UPDATE raises, which ends the job for good.
BreakJob(r) ==
    /\ "worker" \in Faults
    /\ \/ /\ job[r].state \in {"running", "committed"}
          /\ job' = [job EXCEPT ![r].state = "queued"]
       \/ /\ job[r].state = "running"
          /\ job' = [job EXCEPT ![r] = NoJob]
    /\ UNCHANGED <<now, status, pending, req, login, lost>>

Tick ==
    /\ now < MaxTime
    /\ now' = now + 1
    /\ UNCHANGED <<status, pending, req, login, job, lost>>

-----------------------------------------------------------------------------
RequestStep(c) ==
    CheckRequest(c) \/ Schedule(c) \/ Conflict(c) \/ Enqueue(c) \/ RequestLost(c)
LoginStep(l) == VerifyLogin(l) \/ CancelDeletion(l) \/ EndLogin(l)
WorkerStep(r) ==
    StartJob(r) \/ DropJob(r) \/ Finalize(r) \/ FinishJob(r) \/ BreakJob(r)

Next ==
    \/ \E c \in Requests : RequestStep(c)
    \/ \E l \in Logins : LoginStep(l)
    \/ \E r \in Times : WorkerStep(r)
    \/ Tick

Spec == Init /\ [][Next]_vars

-----------------------------------------------------------------------------
\* Properties

\* The account is deleted at the end of the grace period of the request that
\* is then in force: neither the job of a request that a login cancelled nor a
\* repeated run of a job deletes an account that was requested anew later
\* (finalize_account_deletion).
DeletedWhenDue ==
    [][status = "active" /\ status' = "deleted" =>
          pending # NotPending /\ Due(pending) <= now]_vars

\* Of two requests that both found the account undisturbed, one is scheduled:
\* a pending deletion is cancelled or carried out, never moved
\* (schedule_account_deletion).
DeadlineStands ==
    [][pending # NotPending => pending' \in {pending, NotPending}]_vars

\* A job that runs again finds nothing left to do, and a deleted account is
\* neither scheduled again nor restored by a login that was under way.
DeletionIsFinal ==
    [][status = "deleted" => status' = "deleted" /\ pending' = pending]_vars

\* A pending deletion keeps its job until it is due, although the job is only
\* enqueued after the commit, jobs of cancelled requests are left in the queue
\* and workers fail: only a server that dies between the two leaves it without
\* one (_schedule_deletion).
PendingHasJob ==
    pending # NotPending /\ now < Due(pending) =>
        \/ job[pending].state = "queued"
        \/ pending \in lost
        \/ \E c \in Requests : req[c] = [pc |-> "enqueue", at |-> pending]

\* A server finishes the requests it has begun and a worker takes up the jobs
\* that are due.
WorkerFairness ==
    /\ \A c \in Requests : WF_vars(Schedule(c)) /\ WF_vars(Enqueue(c))
    /\ \A r \in Times : WF_vars(StartJob(r)) /\ WF_vars(Finalize(r))

FairSpec == Spec /\ WorkerFairness

\* Claim of account_deletion_jobs.py: "ARQ executes the irreversible
\* finalization after the grace period elapses."
OverdueDeletionsEnd ==
    (pending # NotPending /\ Due(pending) <= now) ~> (pending = NotPending)

=============================================================================
