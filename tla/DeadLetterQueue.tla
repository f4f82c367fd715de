--------------------------- MODULE DeadLetterQueue ---------------------------
(***************************************************************************)
(* The dead-letter queue: jobs whose last try failed, kept by ARQ as       *)
(* result keys in Redis, and the administrators' requests that retry,      *)
(* delete or purge them (server/app/application/use_cases/queue_usecase.py *)
(* and the worker that runs the jobs).  A request is a sequence of Redis   *)
(* commands, each atomic, that interleave with those of the other          *)
(* requests; any of them may fail, and the server may stop between two.    *)
(* A retry enqueues the same call under a new job identifier: a copy.      *)
(***************************************************************************)
EXTENDS Naturals, FiniteSets

CONSTANTS
    Jobs,          \* job identifiers, the originals' and the copies'
    Requests,      \* the requests being served at one time
    NoJob,         \* the job was enqueued by the application, not by a retry
    MaxEnqueued,   \* bound: how many jobs the application enqueues
    SlowRetries    \* whether a retry may outlive its lock's 30 seconds

ASSUME RetryAssumption == /\ NoJob \notin Jobs
                          /\ MaxEnqueued \in Nat
                          /\ SlowRetries \in BOOLEAN

VARIABLES
    job,       \* where each identifier's job is: see Places
    copyOf,    \* the dead job that each job was enqueued again from
    lock,      \* the jobs with a key arq:dlq:retry-lock:{job}
    request,   \* each request's operation, job, keys to find and progress
    broken     \* how many retries of a job failed after enqueuing its copy

vars == <<job, copyOf, lock, request, broken>>

\* A result key holds "failed" or "succeeded"; it leaves Redis when its time
\* to live ends, by a delete or a purge ("gone"), or by the retry that
\* enqueued the job again ("retried").
Places == {"unused", "queued", "failed", "succeeded", "gone", "retried"}

Results == {"failed", "succeeded"}

\* The identifiers that list_dead_jobs has shown, now perhaps out of date.
Listed == {"failed", "gone", "retried"}

Idle == [kind |-> "none", job |-> NoJob, at |-> "idle",
         todo |-> {}]

TypeOK ==
    /\ job \in [Jobs -> Places]
    /\ copyOf \in [Jobs -> Jobs \cup {NoJob}]
    /\ lock \subseteq Jobs
    /\ request \in [Requests ->
           [kind : {"none", "retry", "delete", "purge"},
            job : Jobs \cup {NoJob},
            at : {"idle", "start", "read", "enqueued", "ending"},
            todo : SUBSET Jobs]]
    /\ broken \in [Jobs -> Nat]

Copies(j) == {c \in Jobs : copyOf[c] = j}

\* The retry r of job j is between its SET NX and its final DEL.
Retrying(r, j) == request[r].kind = "retry" /\ request[r].job = j

Init ==
    /\ job = [j \in Jobs |-> "unused"]
    /\ copyOf = [j \in Jobs |-> NoJob]
    /\ lock = {}
    /\ request = [r \in Requests |-> Idle]
    /\ broken = [j \in Jobs |-> 0]

-----------------------------------------------------------------------------
\* The application and the worker.

\* Identifiers are random and never used twice: which one is next is no matter.
Fresh(j) == /\ job[j] = "unused"
            /\ j = CHOOSE c \in Jobs : job[c] = "unused"

\* A use case enqueues a job.
EnqueueJob(j) ==
    /\ Fresh(j)
    /\ Cardinality({c \in Jobs : job[c] # "unused" /\ copyOf[c] = NoJob}) < MaxEnqueued
    /\ job' = [job EXCEPT ![j] = "queued"]
    /\ UNCHANGED <<copyOf, lock, request, broken>>

\* A bug: a job that failed once is put where no result can be read.
RunJob_Deferred(j) ==
    /\ job[j] = "queued"
    /\ job' = [job EXCEPT ![j] = "deferred"]
    /\ UNCHANGED <<copyOf, lock, request, broken>>

\* The worker runs a job; "failed" is its last try's failure.
RunJob(j) ==
    /\ job[j] = "queued"
    /\ \E result \in Results : job' = [job EXCEPT ![j] = result]
    /\ UNCHANGED <<copyOf, lock, request, broken>>

\* The result's keep_result time ends.
ResultExpires(j) ==
    /\ job[j] \in Results
    /\ job' = [job EXCEPT ![j] = "gone"]
    /\ UNCHANGED <<copyOf, lock, request, broken>>

-----------------------------------------------------------------------------
\* retry_dead_job

\* A bug: SET NX inside the try block, whose finally frees the other's lock.
AcquireLock_Inside(r, j) ==
    /\ request[r] = Idle
    /\ job[j] \in Listed
    /\ lock' = IF j \in lock THEN lock \ {j} ELSE lock \cup {j}
    /\ request' = IF j \in lock THEN request ELSE [request EXCEPT ![r] =
                      [Idle EXCEPT !.kind = "retry", !.job = j, !.at = "start"]]
    /\ UNCHANGED <<job, copyOf, broken>>

\* SET NX EX 30: refused with a conflict while another retry has the key.
AcquireLock(r, j) ==
    /\ request[r] = Idle
    /\ job[j] \in Listed
    /\ j \notin lock
    /\ lock' = lock \cup {j}
    /\ request' = [request EXCEPT ![r] =
                      [Idle EXCEPT !.kind = "retry", !.job = j, !.at = "start"]]
    /\ UNCHANGED <<job, copyOf, broken>>

\* A job that is not found, or not dead, is refused.
ReadForRetry(r) ==
    /\ request[r].kind = "retry" /\ request[r].at = "start"
    /\ request' = [request EXCEPT ![r].at =
                      IF job[request[r].job] = "failed" THEN "read" ELSE "ending"]
    /\ UNCHANGED <<job, copyOf, lock, broken>>

\* A bug: an enqueue that failed is taken for one that was done.
EnqueueCopy_Swallowed(r, c, heard) ==
    /\ request[r].kind = "retry" /\ request[r].at = "read"
    /\ Fresh(c)
    /\ job' = IF heard THEN [job EXCEPT ![c] = "queued"] ELSE job
    /\ copyOf' = IF heard THEN [copyOf EXCEPT ![c] = request[r].job] ELSE copyOf
    /\ request' = [request EXCEPT ![r].at = "enqueued"]
    /\ UNCHANGED <<lock, broken>>

\* enqueue_job under a new identifier.  Its answer may be lost, in which
\* case the retry fails although the copy is queued.
EnqueueCopy(r, c, heard) ==
    LET j == request[r].job IN
    /\ request[r].kind = "retry" /\ request[r].at = "read"
    /\ Fresh(c)
    /\ job' = [job EXCEPT ![c] = "queued"]
    /\ copyOf' = [copyOf EXCEPT ![c] = j]
    /\ request' = [request EXCEPT ![r].at =
                      IF heard THEN "enqueued" ELSE "ending"]
    /\ broken' = IF heard THEN broken ELSE [broken EXCEPT ![j] = @ + 1]
    /\ UNCHANGED lock

\* DEL of the result key, whether or not it is still there.
RemoveRetried(r) ==
    LET j == request[r].job IN
    /\ request[r].kind = "retry" /\ request[r].at = "enqueued"
    /\ job' = [job EXCEPT ![j] = IF @ \in Results THEN "retried" ELSE @]
    /\ request' = [request EXCEPT ![r].at = "ending"]
    /\ UNCHANGED <<copyOf, lock, broken>>

\* The finally block deletes the lock, whoever has set it, and answers; if
\* that DEL fails the lock stays until it expires.
ReleaseLock(r, heard) ==
    /\ request[r].kind = "retry" /\ request[r].at = "ending"
    /\ lock' = IF heard THEN lock \ {request[r].job} ELSE lock
    /\ request' = [request EXCEPT ![r] = Idle]
    /\ UNCHANGED <<job, copyOf, broken>>

\* A bug: SET NX without EX.
LockExpires_Never(j) == j \notin lock /\ j \in lock /\ UNCHANGED vars

\* The key's time to live ends.  Unless retries are slow, the request that
\* set it has ended by then.
LockExpires(j) ==
    /\ j \in lock
    /\ SlowRetries \/ ~\E r \in Requests : Retrying(r, j)
    /\ lock' = lock \ {j}
    /\ UNCHANGED <<job, copyOf, request, broken>>

-----------------------------------------------------------------------------
\* delete_dead_job and purge_dead_jobs

StartDelete(r, j) ==
    /\ request[r] = Idle
    /\ job[j] \in Listed
    /\ request' = [request EXCEPT ![r] =
                      [Idle EXCEPT !.kind = "delete", !.job = j, !.at = "start"]]
    /\ UNCHANGED <<job, copyOf, lock, broken>>

ReadForDelete(r) ==
    /\ request[r].kind = "delete" /\ request[r].at = "start"
    /\ request' = [request EXCEPT ![r] =
                      IF job[request[r].job] = "failed"
                      THEN [@ EXCEPT !.at = "read"] ELSE Idle]
    /\ UNCHANGED <<job, copyOf, lock, broken>>

\* DEL of the result key, which may be gone meanwhile.
RemoveDeleted(r) ==
    /\ request[r].kind = "delete" /\ request[r].at = "read"
    /\ job' = [job EXCEPT ![request[r].job] = IF @ \in Results THEN "gone" ELSE @]
    /\ request' = [request EXCEPT ![r] = Idle]
    /\ UNCHANGED <<copyOf, lock, broken>>

StartPurge(r) ==
    /\ request[r] = Idle
    /\ request' = [request EXCEPT ![r] =
                      [Idle EXCEPT !.kind = "purge", !.at = "start",
                                   !.todo = {j \in Jobs : job[j] = "failed"}]]
    /\ UNCHANGED <<job, copyOf, lock, broken>>

\* One DEL of the keys that the scan found: every job that was dead when it
\* began and, of those that failed since, the ones it happened to meet.  Its
\* reads change nothing, and a dead job's result never turns into another.
RemovePurged(r, met) ==
    /\ request[r].kind = "purge"
    /\ met \subseteq Jobs \ request[r].todo
    /\ \A j \in met : job[j] = "failed"
    /\ job' = [j \in Jobs |->
                  IF j \in request[r].todo \cup met /\ job[j] = "failed"
                  THEN "gone" ELSE job[j]]
    /\ request' = [request EXCEPT ![r] = Idle]
    /\ UNCHANGED <<copyOf, lock, broken>>

-----------------------------------------------------------------------------
\* Failures

\* A command fails: a retry goes to its finally block, the others answer.
RedisFails(r) ==
    /\ request[r].at \in {"start", "read", "enqueued"}
    /\ request' = [request EXCEPT ![r] =
                      IF @.kind = "retry" THEN [@ EXCEPT !.at = "ending"] ELSE Idle]
    /\ broken' = IF request[r].at = "enqueued"
                 THEN [broken EXCEPT ![request[r].job] = @ + 1] ELSE broken
    /\ UNCHANGED <<job, copyOf, lock>>

\* The server stops: nothing releases the lock.
Crash(r) ==
    /\ request[r] # Idle
    /\ request' = [request EXCEPT ![r] = Idle]
    /\ broken' = IF request[r].at = "enqueued"
                 THEN [broken EXCEPT ![request[r].job] = @ + 1] ELSE broken
    /\ UNCHANGED <<job, copyOf, lock>>

-----------------------------------------------------------------------------
Serve(r) ==
    \/ ReadForRetry(r)
    \/ \E c \in Jobs, heard \in BOOLEAN : EnqueueCopy(r, c, heard)
    \/ RemoveRetried(r)
    \/ \E heard \in BOOLEAN : ReleaseLock(r, heard)
    \/ ReadForDelete(r)
    \/ RemoveDeleted(r)
    \/ \E met \in SUBSET Jobs : RemovePurged(r, met)
    \/ RedisFails(r)

Next ==
    \/ \E j \in Jobs : EnqueueJob(j) \/ RunJob(j) \/ ResultExpires(j)
                          \/ LockExpires(j)
    \/ \E r \in Requests, j \in Jobs : AcquireLock(r, j) \/ StartDelete(r, j)
    \/ \E r \in Requests : StartPurge(r) \/ Serve(r) \/ Crash(r)

Spec == Init /\ [][Next]_vars

\* A request that is being served goes on; Redis drops keys whose time is up.
FairSpec ==
    /\ Spec
    /\ \A r \in Requests : WF_vars(Serve(r))
    /\ \A j \in Jobs : WF_vars(LockExpires(j))

-----------------------------------------------------------------------------
(***************************************************************************)
(* A dead job is enqueued again once: a second copy exists only for a      *)
(* retry that broke off between its copy and the removal of the dead job.  *)
(* It relates the lock, the order of the commands and every request in     *)
(* flight; the class says the lock is there "to prevent concurrent         *)
(* double-enqueue of the same failed job" (queue_usecase.py:151-152).      *)
(***************************************************************************)
OneCopyUnlessBroken ==
    \A j \in Jobs : Cardinality(Copies(j)) <= broken[j] + 1

(***************************************************************************)
(* No retry loses its job: a job the retry removed from the dead letters   *)
(* has a copy, wherever a request stopped, failed or lost an answer.       *)
(***************************************************************************)
RetriedJobsLiveOn ==
    \A j \in Jobs : job[j] = "retried" => Copies(j) # {}

(***************************************************************************)
(* A job whose retry crashed can be retried again: no lock stays for ever. *)
(***************************************************************************)
LocksAreReleased ==
    \A j \in Jobs : j \in lock ~> j \notin lock

=============================================================================
