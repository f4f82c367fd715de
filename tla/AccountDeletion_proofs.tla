------------------------ MODULE AccountDeletion_proofs ------------------------
(***************************************************************************)
(* What AccountDeletion guarantees for every number of requests, logins    *)
(* and faults, whatever the grace period and the job's expiry.             *)
(***************************************************************************)
EXTENDS AccountDeletion, TLAPS

\* The variables keep their types, so that requested_at and the expiry of a
\* job stay within the bounds of the model (account_settings_usecase.py).
THEOREM DeletionTypeCorrect == Spec => []TypeOK
<1>1. Init => TypeOK
  BY DeletionAssumption DEF Init, TypeOK, NoRequest, NoJob, Times, NotPending
<1>2. TypeOK /\ [Next]_vars => TypeOK'
  <2> SUFFICES ASSUME TypeOK, [Next]_vars PROVE TypeOK'
    OBVIOUS
  <2> USE DeletionAssumption DEF TypeOK, NotPending, Times
  <2>1. CASE UNCHANGED vars
    BY <2>1 DEF vars
  <2>2. ASSUME NEW c \in Requests, RequestStep(c) PROVE TypeOK'
    <3>1. CASE CheckRequest(c)
      BY <3>1 DEF CheckRequest
    <3>2. CASE Schedule(c)
      BY <3>2 DEF Schedule
    <3>3. CASE Conflict(c) \/ RequestLost(c)
      <4>1. /\ req' = [req EXCEPT ![c] = NoRequest]
            /\ UNCHANGED <<now, status, pending, login, job>>
            /\ lost' \subseteq Times
        BY <3>3 DEF Conflict, RequestLost
      <4>2. NoRequest \in [pc : {"idle", "schedule", "enqueue"}, at : Times]
        BY DEF NoRequest
      <4> QED BY <4>1, <4>2
    <3>4. CASE Enqueue(c)
      BY <3>4 DEF Enqueue, NoRequest
    <3> QED BY <2>2, <3>1, <3>2, <3>3, <3>4 DEF RequestStep
  <2>3. ASSUME NEW l \in Logins, LoginStep(l) PROVE TypeOK'
    BY <2>3 DEF LoginStep, VerifyLogin, CancelDeletion, EndLogin
  <2>4. ASSUME NEW r \in Times, WorkerStep(r) PROVE TypeOK'
    <3> DEFINE Job == [state : {"absent", "queued", "running", "committed"},
                       expires : Nat, tries : 0 .. MaxTries]
    <3>1. CASE StartJob(r)
      <4>1. job[r].tries + 1 \in 0 .. MaxTries
        BY <3>1 DEF StartJob
      <4>2. [job[r] EXCEPT !.state = "running", !.tries = @ + 1] \in Job
        BY <4>1
      <4>3. job' = [job EXCEPT ![r] = [job[r] EXCEPT !.state = "running", !.tries = @ + 1]]
        BY <3>1 DEF StartJob
      <4> QED BY <3>1, <4>2, <4>3 DEF StartJob
    <3>2. CASE Finalize(r)
      BY <3>2 DEF Finalize
    <3>3. CASE DropJob(r) \/ FinishJob(r) \/ BreakJob(r)
      <4>1. NoJob \in Job
        BY DEF NoJob
      <4>2. job[r] \in Job
        OBVIOUS
      <4>3. [job[r] EXCEPT !.state = "queued"] \in Job
        BY <4>2
      <4>4. PICK j \in Job : job' = [job EXCEPT ![r] = j]
        BY <3>3, <4>1, <4>3 DEF DropJob, FinishJob, BreakJob
      <4>5. UNCHANGED <<now, status, pending, req, login, lost>>
        BY <3>3 DEF DropJob, FinishJob, BreakJob
      <4> QED BY <4>4, <4>5
    <3> QED BY <2>4, <3>1, <3>2, <3>3 DEF WorkerStep
  <2>5. CASE Tick
    BY <2>5 DEF Tick
  <2> QED BY <2>1, <2>2, <2>3, <2>4, <2>5 DEF Next
<1> QED BY <1>1, <1>2, PTL DEF Spec

\* The steps that write the user row, and what each leaves there: everything
\* else a step does is invisible to the deletion columns.
LEMMA AccountChanges ==
    ASSUME TypeOK, [Next]_vars, <<status, pending>>' # <<status, pending>>
    PROVE /\ status = "active"
          /\ \/ /\ status' = "active"
                /\ pending = NotPending \/ pending' = NotPending
             \/ /\ pending # NotPending /\ Due(pending) <= now
                /\ status' = "deleted" /\ pending' = NotPending
<1>1. PICK step \in {"schedule", "cancel", "finalize"} :
         \/ step = "schedule" /\ \E c \in Requests : Schedule(c)
         \/ step = "cancel" /\ \E l \in Logins : CancelDeletion(l)
         \/ step = "finalize" /\ \E r \in Times : Finalize(r)
  BY DEF Next, vars, RequestStep, LoginStep, WorkerStep, CheckRequest, Conflict,
         Enqueue, RequestLost, VerifyLogin, EndLogin, StartJob, DropJob, FinishJob,
         BreakJob, Tick
<1>2. CASE \E c \in Requests : Schedule(c)
  BY <1>2 DEF Schedule
<1>3. CASE \E l \in Logins : CancelDeletion(l)
  BY <1>3 DEF CancelDeletion
<1>4. CASE \E r \in Times : Finalize(r)
  BY <1>4, DeletionAssumption DEF Finalize, Times, NotPending
<1> QED BY <1>1, <1>2, <1>3, <1>4

\* An account is deleted only when the request in force has run its whole grace
\* period (finalize_account_deletion).
THEOREM DeletionWaitsForDeadline == Spec => DeletedWhenDue
<1>1. TypeOK /\ [Next]_vars =>
        [status = "active" /\ status' = "deleted" =>
            pending # NotPending /\ Due(pending) <= now]_vars
  BY AccountChanges
<1> QED BY <1>1, DeletionTypeCorrect, PTL DEF Spec, DeletedWhenDue

\* Concurrent requests never move a deadline that was set
\* (schedule_account_deletion).
THEOREM DeadlineIsKept == Spec => DeadlineStands
<1>1. TypeOK /\ [Next]_vars =>
        [pending # NotPending => pending' \in {pending, NotPending}]_vars
  BY AccountChanges
<1> QED BY <1>1, DeletionTypeCorrect, PTL DEF Spec, DeadlineStands

\* No request, login or job touches the columns of a deleted account.
THEOREM DeletedForGood == Spec => DeletionIsFinal
<1>1. TypeOK /\ [Next]_vars =>
        [status = "deleted" => status' = "deleted" /\ pending' = pending]_vars
  BY AccountChanges
<1> QED BY <1>1, DeletionTypeCorrect, PTL DEF Spec, DeletionIsFinal

-----------------------------------------------------------------------------
\* A worker takes up a job only when it is due.
JobsStartWhenDue ==
    \A r \in Times : job[r].state \in {"running", "committed"} => Due(r) <= now

JobsInv == TypeOK /\ JobsStartWhenDue /\ PendingHasJob

\* The steps of requests leave a job for the deletion they schedule, or record
\* that they died before.
LEMMA RequestLeavesJob ==
    ASSUME JobsInv, NEW c \in Requests, RequestStep(c)
    PROVE  JobsStartWhenDue' /\ PendingHasJob'
<1> USE DEF JobsInv, TypeOK
<1>n. now' = now
  BY DEF RequestStep, CheckRequest, Schedule, Conflict, Enqueue, RequestLost
\* A request that is not about to enqueue a job was none the deletion relied on.
<1>r. ASSUME UNCHANGED <<pending, job>>, lost \subseteq lost',
             \A d \in Requests : d # c => req'[d] = req[d],
             req[c].pc = "enqueue" => req[c].at \in lost'
      PROVE  JobsStartWhenDue' /\ PendingHasJob'
  <2>1. ASSUME NEW d \in Requests, pending \notin lost',
               req[d] = [pc |-> "enqueue", at |-> pending]
        PROVE  req'[d] = req[d]
    BY <1>r, <2>1
  <2> QED BY <1>r, <1>n, <2>1 DEF JobsStartWhenDue, PendingHasJob, Due
<1>1. CASE CheckRequest(c)
  BY <1>1, <1>r DEF CheckRequest
<1>2. CASE Schedule(c)
  <2>1. req'[c] = [pc |-> "enqueue", at |-> pending'] /\ UNCHANGED <<job, now>>
    BY <1>2 DEF Schedule
  <2> QED BY <2>1 DEF JobsStartWhenDue, PendingHasJob, Due
<1>3. CASE Conflict(c)
  BY <1>3, <1>r DEF Conflict
<1>4. CASE RequestLost(c)
  BY <1>4, <1>r DEF RequestLost
<1>5. CASE Enqueue(c)
  <2>1. /\ UNCHANGED <<now, pending, lost>>
        /\ \A d \in Requests : d # c => req'[d] = req[d]
        /\ req[c].at \in Times
        /\ \A r \in Times : job'[r].state =
              IF r = req[c].at /\ job[r].state = "absent" THEN "queued" ELSE job[r].state
    BY <1>5 DEF Enqueue
  <2>2. JobsStartWhenDue'
    BY <2>1 DEF JobsStartWhenDue, Due
  <2>3. PendingHasJob'
    <3> SUFFICES ASSUME pending # NotPending, now < Due(pending)
                 PROVE  \/ job'[pending].state = "queued"
                        \/ pending \in lost
                        \/ \E d \in Requests :
                              req'[d] = [pc |-> "enqueue", at |-> pending]
      BY <2>1 DEF PendingHasJob, Due
    <3>1. pending \in Times
      BY DEF NotPending
    <3>2. CASE job[pending].state = "queued" \/ pending \in lost
      BY <2>1, <3>1, <3>2
    <3>3. ASSUME NEW d \in Requests, req[d] = [pc |-> "enqueue", at |-> pending]
          PROVE  \/ job'[pending].state = "queued"
                 \/ req'[d] = [pc |-> "enqueue", at |-> pending]
      <4>1. CASE d # c
        BY <2>1, <3>3, <4>1
      <4>2. CASE d = c
        <5>1. job[pending].state \in {"absent", "queued"}
          BY <3>1, DeletionAssumption DEF JobsStartWhenDue, Due, Times
        <5> QED BY <2>1, <3>1, <3>3, <4>2, <5>1
      <4> QED BY <4>1, <4>2
    <3> QED BY <3>2, <3>3 DEF PendingHasJob
  <2> QED BY <2>2, <2>3
<1> QED BY <1>1, <1>2, <1>3, <1>4, <1>5 DEF RequestStep

\* A job leaves the queue only when it is due, whatever happens to it then.
LEMMA WorkerTakesDueJobs ==
    ASSUME JobsInv, NEW r \in Times, WorkerStep(r)
    PROVE  JobsStartWhenDue' /\ PendingHasJob'
<1> USE DEF JobsInv, TypeOK
<1>1. /\ UNCHANGED <<now, req, lost>>
      /\ pending' \in {pending, NotPending}
      /\ \A q \in Times : q # r => job'[q] = job[q]
  BY DEF WorkerStep, StartJob, DropJob, Finalize, FinishJob, BreakJob
<1>2. Due(r) <= now
  BY DEF WorkerStep, StartJob, DropJob, Finalize, FinishJob, BreakJob, JobsStartWhenDue
<1>3. JobsStartWhenDue'
  BY <1>1, <1>2 DEF JobsStartWhenDue, Due
<1>4. PendingHasJob'
  <2> SUFFICES ASSUME pending' # NotPending, now < Due(pending')
               PROVE  \/ job'[pending'].state = "queued"
                      \/ pending' \in lost
                      \/ \E c \in Requests :
                            req[c] = [pc |-> "enqueue", at |-> pending']
    BY <1>1 DEF PendingHasJob, Due
  <2>1. pending' = pending /\ pending \in Times
    BY <1>1 DEF NotPending
  <2>2. pending # r
    BY <1>2, <2>1, DeletionAssumption DEF Due, Times
  <2> QED BY <1>1, <2>1, <2>2 DEF PendingHasJob
<1> QED BY <1>3, <1>4

\* Until it is due, a pending deletion has its job in the queue, or a request
\* that is about to put it there; a job is never taken out or held back by
\* those of other requests, nor by a worker's failures (_schedule_deletion).
THEOREM PendingDeletionsHaveJobs == Spec => []PendingHasJob
<1>1. Init => JobsStartWhenDue /\ PendingHasJob
  BY DEF Init, JobsStartWhenDue, PendingHasJob, NoJob
<1>2. JobsInv /\ [Next]_vars => JobsStartWhenDue' /\ PendingHasJob'
  <2> SUFFICES ASSUME JobsInv, [Next]_vars
               PROVE  JobsStartWhenDue' /\ PendingHasJob'
    OBVIOUS
  <2> USE DEF JobsInv
  <2>1. CASE \E c \in Requests : RequestStep(c)
    BY <2>1, RequestLeavesJob
  <2>2. CASE \E r \in Times : WorkerStep(r)
    BY <2>2, WorkerTakesDueJobs
  <2>3. ASSUME NEW l \in Logins, LoginStep(l)
        PROVE  JobsStartWhenDue' /\ PendingHasJob'
    BY <2>3 DEF LoginStep, VerifyLogin, CancelDeletion, EndLogin, JobsStartWhenDue,
                PendingHasJob, Due
  <2>4. CASE Tick
    BY <2>4, DeletionAssumption
       DEF Tick, JobsStartWhenDue, PendingHasJob, Due, TypeOK, Times, NotPending
  <2>5. CASE UNCHANGED vars
    BY <2>5 DEF vars, JobsStartWhenDue, PendingHasJob, Due
  <2> QED BY <2>1, <2>2, <2>3, <2>4, <2>5 DEF Next
<1> QED BY <1>1, <1>2, DeletionTypeCorrect, PTL DEF Spec, JobsInv
=============================================================================
