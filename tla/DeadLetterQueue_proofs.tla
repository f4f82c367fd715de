----------------------- MODULE DeadLetterQueue_proofs -----------------------
(***************************************************************************)
(* What retries guarantee for every number of jobs and requests: with the  *)
(* lock, as long as a retry ends before it expires, and without it.        *)
(*                                                                         *)
(* All of it is read off the moves that a step may make with one job: its  *)
(* copies, the retries that have read it as dead and those that have       *)
(* enqueued it.                                                            *)
(***************************************************************************)
EXTENDS DeadLetterQueue, FiniteSetTheorems, TLAPS

Retriers(j) == {r \in Requests : Retrying(r, j)}
Readers(j) == {r \in Requests : Retrying(r, j) /\ request[r].at = "read"}
Holders(j) == {r \in Requests : Retrying(r, j) /\ request[r].at = "enqueued"}

\* The job has not left the dead letters.
Kept(j) == job[j] \in {"unused", "queued", "failed"}

\* Nothing is done with the job but that a reader may give up.
Steady(j) ==
    /\ Copies(j)' = Copies(j) /\ broken'[j] = broken[j]
    /\ Readers(j)' \subseteq Readers(j) /\ Holders(j)' = Holders(j)
    /\ Kept(j)' => Kept(j)
    /\ job'[j] = "retried" => job[j] = "retried"

\* A retry reads the job as dead.
Reads(j, r) ==
    /\ job[j] = "failed" /\ job'[j] = "failed"
    /\ Copies(j)' = Copies(j) /\ broken'[j] = broken[j]
    /\ Readers(j)' = Readers(j) \cup {r} /\ Holders(j)' = Holders(j)

\* A retry that has read it enqueues it, and breaks off or does not.
Enqueues(j, r, c) ==
    /\ job'[j] = job[j]
    /\ Copies(j)' = Copies(j) \cup {c} /\ c \notin Copies(j)
    /\ r \in Readers(j) /\ Readers(j)' = Readers(j) \ {r}
    /\ \/ Holders(j)' = Holders(j) \cup {r} /\ broken'[j] = broken[j]
       \/ Holders(j)' = Holders(j) /\ broken'[j] = broken[j] + 1

\* A retry that has enqueued it takes it from the dead letters.
Settles(j) ==
    /\ Holders(j) # {} /\ ~Kept(j)'
    /\ Copies(j)' = Copies(j) /\ broken'[j] = broken[j] /\ Readers(j)' = Readers(j)

\* A retry that has enqueued it breaks off.
Breaks(j, r) ==
    /\ job'[j] = job[j] /\ Copies(j)' = Copies(j)
    /\ r \in Holders(j) /\ Holders(j)' = Holders(j) \ {r}
    /\ Readers(j)' = Readers(j) /\ broken'[j] = broken[j] + 1

Moves(j) ==
    \/ Steady(j) \/ Settles(j)
    \/ \E r \in Requests : Reads(j, r) \/ Breaks(j, r)
    \/ \E r \in Requests, c \in Jobs : Enqueues(j, r, c)

\* Only a retry enqueues; every retry, delete and idle request has its job.
Shapes ==
    \A r \in Requests :
        /\ request[r].at = "enqueued" => request[r].kind = "retry"
        /\ request[r].kind \in {"retry", "delete"} => request[r].job \in Jobs
        /\ request[r].at = "ending" => request[r].kind = "retry"
        /\ request[r].at = "idle" => request[r].kind = "none"
        /\ request[r].kind = "none" => request[r].at = "idle"

UnusedAreNoCopies == \A c \in Jobs : job[c] = "unused" => copyOf[c] = NoJob

\* Only a job that has been dead is retried.
RetriedWereDead ==
    \A r \in Requests, j \in Jobs : Retrying(r, j) => job[j] \in Listed

CopiesMade ==
    /\ RetriedJobsLiveOn
    /\ \A j \in Jobs : Holders(j) # {} => Copies(j) # {}

\* What holds whatever the locks do.
MadeInv ==
    TypeOK /\ Shapes /\ UnusedAreNoCopies /\ RetriedWereDead /\ CopiesMade

\* At most n retries of a job run at a time.
AtMost(n) ==
    \A j \in Jobs : IsFiniteSet(Retriers(j)) /\ Cardinality(Retriers(j)) <= n

\* While the job is among the dead, a copy that is not counted as broken has
\* its holder; in all, copies and those still to come are within n.
CopiesWithin(n) ==
    \A j \in Jobs :
        /\ Kept(j) => Cardinality(Copies(j)) <= broken[j] + Cardinality(Holders(j))
        /\ Cardinality(Copies(j)) + Cardinality(Readers(j)) <= broken[j] + n

\* A retry holds its job's lock, alone.
Exclusive ==
    \A r \in Requests, j \in Jobs : Retrying(r, j) =>
        /\ j \in lock
        /\ \A q \in Requests : Retrying(q, j) => q = r

RetryInv == MadeInv /\ Exclusive /\ CopiesWithin(1)

-----------------------------------------------------------------------------
\* Types and the shapes of requests.

LEMMA TypeStep ==
    ASSUME TypeOK, Shapes, [Next]_vars
    PROVE  TypeOK' /\ Shapes'
<1> USE RetryAssumption DEF TypeOK, Shapes
<1>1. ASSUME NEW j \in Jobs, EnqueueJob(j) PROVE TypeOK' /\ Shapes'
  BY <1>1 DEF EnqueueJob, Places
<1>2. ASSUME NEW j \in Jobs, RunJob(j) PROVE TypeOK' /\ Shapes'
  BY <1>2 DEF RunJob, Results, Places
<1>3. ASSUME NEW j \in Jobs, ResultExpires(j) PROVE TypeOK' /\ Shapes'
  BY <1>3 DEF ResultExpires, Places
<1>4. ASSUME NEW j \in Jobs, LockExpires(j) PROVE TypeOK' /\ Shapes'
  BY <1>4 DEF LockExpires
<1>5. ASSUME NEW r \in Requests, NEW j \in Jobs, AcquireLock(r, j)
      PROVE  TypeOK' /\ Shapes'
  BY <1>5 DEF AcquireLock, Idle
<1>6. ASSUME NEW r \in Requests, NEW j \in Jobs, StartDelete(r, j)
      PROVE  TypeOK' /\ Shapes'
  BY <1>6 DEF StartDelete, Idle
<1>7. ASSUME NEW r \in Requests, StartPurge(r) PROVE TypeOK' /\ Shapes'
  BY <1>7 DEF StartPurge, Idle
<1>8. ASSUME NEW r \in Requests, ReadForRetry(r) PROVE TypeOK' /\ Shapes'
  BY <1>8 DEF ReadForRetry
<1>9. ASSUME NEW r \in Requests, NEW c \in Jobs, NEW heard \in BOOLEAN,
             EnqueueCopy(r, c, heard)
      PROVE  TypeOK' /\ Shapes'
  <2>1. request[r].job \in Jobs
    BY <1>9 DEF EnqueueCopy
  <2>2. job' \in [Jobs -> Places] /\ copyOf' \in [Jobs -> Jobs \cup {NoJob}]
    BY <1>9, <2>1 DEF EnqueueCopy, Places
  <2>3. broken' \in [Jobs -> Nat] /\ lock' \subseteq Jobs
    BY <1>9, <2>1 DEF EnqueueCopy
  <2> QED BY <1>9, <2>2, <2>3 DEF EnqueueCopy
<1>10. ASSUME NEW r \in Requests, RemoveRetried(r) PROVE TypeOK' /\ Shapes'
  BY <1>10 DEF RemoveRetried, Places
<1>11. ASSUME NEW r \in Requests, NEW heard \in BOOLEAN, ReleaseLock(r, heard)
       PROVE  TypeOK' /\ Shapes'
  BY <1>11 DEF ReleaseLock, Idle
<1>12. ASSUME NEW r \in Requests, ReadForDelete(r) PROVE TypeOK' /\ Shapes'
  BY <1>12 DEF ReadForDelete, Idle
<1>13. ASSUME NEW r \in Requests, RemoveDeleted(r) PROVE TypeOK' /\ Shapes'
  BY <1>13 DEF RemoveDeleted, Idle, Places
<1>14. ASSUME NEW r \in Requests, NEW met \in SUBSET Jobs, RemovePurged(r, met)
       PROVE  TypeOK' /\ Shapes'
  BY <1>14 DEF RemovePurged, Idle, Places
<1>15. ASSUME NEW r \in Requests, RedisFails(r) PROVE TypeOK' /\ Shapes'
  BY <1>15 DEF RedisFails, Idle
<1>16. ASSUME NEW r \in Requests, Crash(r) PROVE TypeOK' /\ Shapes'
  BY <1>16 DEF Crash, Idle
<1>17. CASE UNCHANGED vars
  BY <1>17 DEF vars
<1> QED BY <1>1, <1>2, <1>3, <1>4, <1>5, <1>6, <1>7, <1>8, <1>9, <1>10, <1>11,
           <1>12, <1>13, <1>14, <1>15, <1>16, <1>17 DEF Next, Serve

-----------------------------------------------------------------------------
\* The moves of every step.

\* A step of the request r concerns the readers and holders of its jobs only.
LEMMA OtherJobs ==
    ASSUME NEW r \in Requests, NEW k \in Jobs,
           \A q \in Requests : q # r => request'[q] = request[q],
           ~Retrying(r, k), ~Retrying(r, k)'
    PROVE  Readers(k)' = Readers(k) /\ Holders(k)' = Holders(k)
  BY DEF Readers, Holders, Retrying

\* Steps of the application, the worker and Redis.
LEMMA JobMoves ==
    ASSUME MadeInv, NEW i \in Jobs,
           EnqueueJob(i) \/ RunJob(i) \/ ResultExpires(i) \/ LockExpires(i),
           NEW j \in Jobs
    PROVE  Steady(j)
<1> USE DEF MadeInv, TypeOK
<1>1. UNCHANGED <<copyOf, broken, request>>
  BY DEF EnqueueJob, RunJob, ResultExpires, LockExpires
<1>2. Copies(j)' = Copies(j) /\ Readers(j)' = Readers(j) /\ Holders(j)' = Holders(j)
  BY <1>1 DEF Copies, Readers, Holders, Retrying
<1>3. /\ Kept(j)' => Kept(j)
      /\ job'[j] = "retried" => job[j] = "retried"
  BY DEF EnqueueJob, Fresh, RunJob, ResultExpires, LockExpires, Results, Kept
<1> QED BY <1>1, <1>2, <1>3 DEF Steady

\* A request that has only begun has read nothing.
LEMMA BeginMoves ==
    ASSUME MadeInv, NEW r \in Requests, NEW i \in Jobs,
           AcquireLock(r, i) \/ StartDelete(r, i),
           NEW j \in Jobs
    PROVE  Steady(j)
<1> USE DEF MadeInv, TypeOK
<1>1. /\ UNCHANGED <<job, copyOf, broken>>
      /\ \A q \in Requests : q # r => request'[q] = request[q]
  BY DEF AcquireLock, StartDelete
<1>2. request'[r].at = "start"
  BY DEF AcquireLock, StartDelete, Idle
<1>3. request[r].at = "idle"
  BY DEF AcquireLock, StartDelete, Idle
<1>4. Readers(j)' = Readers(j) /\ Holders(j)' = Holders(j)
  BY <1>1, <1>2, <1>3 DEF Readers, Holders, Retrying
<1> QED BY <1>1, <1>4 DEF Steady, Copies, Kept

\* Deletes and purges touch no retry.
LEMMA DeleteMoves ==
    ASSUME MadeInv, NEW r \in Requests,
           \/ StartPurge(r) \/ ReadForDelete(r) \/ RemoveDeleted(r)
           \/ \E met \in SUBSET Jobs : RemovePurged(r, met),
           NEW j \in Jobs
    PROVE  Steady(j)
<1> USE DEF MadeInv, TypeOK, Shapes
<1> DEFINE Others == \A q \in Requests : q # r => request'[q] = request[q]
           Aside == ~Retrying(r, j) /\ ~Retrying(r, j)'
<1>1. ASSUME UNCHANGED <<copyOf, broken>>, Others, Aside,
             job'[j] = job[j] \/ job'[j] = "gone"
      PROVE  Steady(j)
  <2>1. Readers(j)' = Readers(j) /\ Holders(j)' = Holders(j)
    BY <1>1, OtherJobs
  <2> QED BY <1>1, <2>1 DEF Steady, Kept, Copies
<1>3. CASE StartPurge(r)
  <2>1. Others /\ Aside
    BY <1>3 DEF StartPurge, Idle, Retrying
  <2> QED BY <1>1, <1>3, <2>1 DEF StartPurge
<1>4. CASE ReadForDelete(r)
  <2>1. Others /\ Aside
    BY <1>4 DEF ReadForDelete, Idle, Retrying
  <2> QED BY <1>1, <1>4, <2>1 DEF ReadForDelete
<1>5. CASE RemoveDeleted(r)
  <2>1. Others /\ Aside
    BY <1>5 DEF RemoveDeleted, Idle, Retrying
  <2>2. job'[j] = job[j] \/ job'[j] = "gone"
    BY <1>5 DEF RemoveDeleted
  <2> QED BY <1>1, <1>5, <2>1, <2>2 DEF RemoveDeleted
<1>6. ASSUME NEW met \in SUBSET Jobs, RemovePurged(r, met) PROVE Steady(j)
  <2>1. Others /\ Aside
    BY <1>6 DEF RemovePurged, Idle, Retrying
  <2>2. job'[j] = job[j] \/ job'[j] = "gone"
    BY <1>6 DEF RemovePurged
  <2> QED BY <1>1, <1>6, <2>1, <2>2 DEF RemovePurged
<1> QED BY <1>3, <1>4, <1>5, <1>6

\* A retry's own steps.
LEMMA RetryMoves ==
    ASSUME MadeInv, NEW r \in Requests,
           \/ ReadForRetry(r) \/ RemoveRetried(r)
           \/ \E heard \in BOOLEAN : ReleaseLock(r, heard)
           \/ \E c \in Jobs, heard \in BOOLEAN : EnqueueCopy(r, c, heard),
           NEW j \in Jobs
    PROVE  Moves(j)
<1> USE DEF MadeInv, TypeOK, Shapes
<1> DEFINE Others == \A q \in Requests : q # r => request'[q] = request[q]
<1>1. ASSUME UNCHANGED <<job, copyOf, broken>>, Others,
             request[r].at \notin {"read", "enqueued"},
             request'[r].at \notin {"read", "enqueued"}
      PROVE  Steady(j)
  <2>1. Readers(j)' = Readers(j) /\ Holders(j)' = Holders(j)
    BY <1>1 DEF Readers, Holders, Retrying
  <2> QED BY <1>1, <2>1 DEF Steady, Copies, Kept
<1>3. ASSUME NEW heard \in BOOLEAN, ReleaseLock(r, heard) PROVE Steady(j)
  <2>1. request[r].at = "ending" /\ request'[r].at = "idle" /\ Others
    BY <1>3 DEF ReleaseLock, Idle
  <2> QED BY <1>1, <1>3, <2>1 DEF ReleaseLock
<1>a. ASSUME Others, ~Retrying(r, j), ~Retrying(r, j)', Copies(j)' = Copies(j),
             broken'[j] = broken[j], Kept(j)' => Kept(j),
             job'[j] = "retried" => job[j] = "retried"
      PROVE  Steady(j)
  <2>1. Readers(j)' = Readers(j) /\ Holders(j)' = Holders(j)
    BY <1>a, OtherJobs
  <2> QED BY <1>a, <2>1 DEF Steady
<1>4. ASSUME ReadForRetry(r), request[r].job # j PROVE Steady(j)
  BY <1>4, <1>a DEF ReadForRetry, Retrying, Copies, Kept
<1>b. ASSUME RemoveRetried(r), request[r].job # j PROVE Steady(j)
  BY <1>b, <1>a DEF RemoveRetried, Retrying, Copies, Kept
<1>c. ASSUME NEW c \in Jobs, NEW heard \in BOOLEAN, EnqueueCopy(r, c, heard),
             request[r].job # j
      PROVE  Steady(j)
  <2>1. copyOf[c] = NoJob /\ job[c] = "unused"
    BY <1>c DEF EnqueueCopy, Fresh, UnusedAreNoCopies
  <2>2. Copies(j)' = Copies(j)
    BY <1>c, <2>1, RetryAssumption DEF EnqueueCopy, Copies
  <2>3. /\ Kept(j)' => Kept(j)
        /\ job'[j] = "retried" => job[j] = "retried"
    BY <1>c, <2>1 DEF EnqueueCopy, Kept
  <2>4. Others /\ ~Retrying(r, j) /\ ~Retrying(r, j)' /\ broken'[j] = broken[j]
    BY <1>c DEF EnqueueCopy, Retrying
  <2> QED BY <1>a, <2>2, <2>3, <2>4
<1>5. ASSUME ReadForRetry(r), request[r].job = j PROVE Steady(j) \/ Reads(j, r)
  <2>o. Others
    BY <1>5 DEF ReadForRetry
  <2>1. /\ \A q \in Requests : Retrying(q, j)' <=> Retrying(q, j)
        /\ Retrying(r, j) /\ request[r].at = "start"
        /\ request'[r].at = IF job[j] = "failed" THEN "read" ELSE "ending"
    BY <2>o, <1>5 DEF ReadForRetry, Retrying
  <2>2. Holders(j)' = Holders(j)
    BY <2>1, <2>o DEF Holders
  <2>3. Readers(j)' = IF job[j] = "failed" THEN Readers(j) \cup {r} ELSE Readers(j)
    BY <2>1, <2>o DEF Readers
  <2> QED BY <1>5, <2>2, <2>3 DEF ReadForRetry, Steady, Reads, Copies, Kept
<1>6. ASSUME RemoveRetried(r), request[r].job = j PROVE Settles(j)
  <2>o. Others
    BY <1>6 DEF RemoveRetried
  <2>1. /\ \A q \in Requests : Retrying(q, j)' <=> Retrying(q, j)
        /\ Retrying(r, j) /\ request[r].at = "enqueued" /\ request'[r].at = "ending"
    BY <2>o, <1>6 DEF RemoveRetried, Retrying
  <2>2. Readers(j)' = Readers(j) /\ r \in Holders(j)
    BY <2>1, <2>o DEF Readers, Holders
  <2>3. ~Kept(j)'
    BY <1>6, <2>1 DEF RemoveRetried, RetriedWereDead, Listed, Results, Kept
  <2> QED BY <1>6, <2>2, <2>3 DEF RemoveRetried, Settles, Copies
<1>7. ASSUME NEW c \in Jobs, NEW heard \in BOOLEAN, EnqueueCopy(r, c, heard),
             request[r].job = j
      PROVE  Enqueues(j, r, c)
  <2>o. Others
    BY <1>7 DEF EnqueueCopy
  <2>1. /\ \A q \in Requests : Retrying(q, j)' <=> Retrying(q, j)
        /\ Retrying(r, j) /\ request[r].at = "read"
        /\ request'[r].at = IF heard THEN "enqueued" ELSE "ending"
    BY <2>o, <1>7 DEF EnqueueCopy, Retrying
  <2>2. r \in Readers(j) /\ Readers(j)' = Readers(j) \ {r}
    BY <2>1, <2>o DEF Readers
  <2>3. Holders(j)' = IF heard THEN Holders(j) \cup {r} ELSE Holders(j)
    BY <2>1, <2>o DEF Holders
  <2>4. job[c] = "unused" /\ copyOf[c] = NoJob
    BY <1>7 DEF EnqueueCopy, Fresh, UnusedAreNoCopies
  <2>5. Copies(j)' = Copies(j) \cup {c} /\ c \notin Copies(j)
    BY <1>7, <2>4, RetryAssumption DEF EnqueueCopy, Copies
  <2>6. job'[j] = job[j]
    BY <1>7, <2>1, <2>4 DEF EnqueueCopy, RetriedWereDead, Listed
  <2>7. broken'[j] = IF heard THEN broken[j] ELSE broken[j] + 1
    BY <1>7 DEF EnqueueCopy
  <2> QED BY <2>2, <2>3, <2>5, <2>6, <2>7 DEF Enqueues
<1> QED BY <1>3, <1>4, <1>b, <1>c, <1>5, <1>6, <1>7 DEF Moves

\* A request fails or is cut off.
LEMMA BreakMoves ==
    ASSUME MadeInv, NEW r \in Requests, RedisFails(r) \/ Crash(r), NEW j \in Jobs
    PROVE  Steady(j) \/ Breaks(j, r)
<1> USE DEF MadeInv, TypeOK, Shapes
<1>1. /\ UNCHANGED <<job, copyOf>>
      /\ \A q \in Requests : q # r => request'[q] = request[q]
      /\ broken' = IF request[r].at = "enqueued"
                   THEN [broken EXCEPT ![request[r].job] = @ + 1] ELSE broken
      /\ request'[r].at \notin {"read", "enqueued"}
  BY DEF RedisFails, Crash, Idle
<1>2. Copies(j)' = Copies(j)
  BY <1>1 DEF Copies
<1>3. Readers(j)' = Readers(j) \ {r} /\ Holders(j)' = Holders(j) \ {r}
  BY <1>1 DEF Readers, Holders, Retrying
<1>4. CASE r \in Holders(j)
  <2>1. request[r].at = "enqueued" /\ request[r].job = j
    BY <1>4 DEF Holders, Retrying
  <2>2. r \notin Readers(j)
    BY <2>1 DEF Readers
  <2> QED BY <1>1, <1>2, <1>3, <1>4, <2>1, <2>2 DEF Breaks
<1>5. CASE r \notin Holders(j)
  <2>1. broken'[j] = broken[j]
    BY <1>1, <1>5 DEF Holders, Retrying
  <2> QED BY <1>1, <1>2, <1>3, <1>5, <2>1 DEF Steady, Kept
<1> QED BY <1>4, <1>5

LEMMA EveryStepMoves ==
    ASSUME MadeInv, [Next]_vars, NEW j \in Jobs
    PROVE  Moves(j)
<1>1. CASE \E i \in Jobs : EnqueueJob(i) \/ RunJob(i) \/ ResultExpires(i)
                               \/ LockExpires(i)
  BY <1>1, JobMoves DEF Moves
<1>2. CASE \E r \in Requests, i \in Jobs : AcquireLock(r, i) \/ StartDelete(r, i)
  BY <1>2, BeginMoves DEF Moves
<1>3. ASSUME NEW r \in Requests, StartPurge(r) \/ Serve(r) \/ Crash(r)
      PROVE  Moves(j)
  <2>1. CASE \/ StartPurge(r) \/ ReadForDelete(r) \/ RemoveDeleted(r)
             \/ \E met \in SUBSET Jobs : RemovePurged(r, met)
    BY <2>1, DeleteMoves DEF Moves
  <2>2. CASE \/ ReadForRetry(r) \/ RemoveRetried(r)
             \/ \E heard \in BOOLEAN : ReleaseLock(r, heard)
             \/ \E c \in Jobs, heard \in BOOLEAN : EnqueueCopy(r, c, heard)
    BY <2>2, RetryMoves
  <2>3. CASE RedisFails(r) \/ Crash(r)
    BY <2>3, BreakMoves DEF Moves
  <2> QED BY <1>3, <2>1, <2>2, <2>3 DEF Serve
<1>4. CASE UNCHANGED vars
  BY <1>4 DEF vars, Moves, Steady, Copies, Readers, Holders, Retrying, Kept
<1> QED BY <1>1, <1>2, <1>3, <1>4 DEF Next

-----------------------------------------------------------------------------
\* What holds whatever the locks do.

LEMMA MadeInit == Init => MadeInv
<1> SUFFICES ASSUME Init PROVE MadeInv
  OBVIOUS
<1>1. TypeOK /\ Shapes
  BY RetryAssumption DEF Init, TypeOK, Shapes, Idle, Places
<1>2. \A j \in Jobs : Holders(j) = {} /\ \A r \in Requests : ~Retrying(r, j)
  BY DEF Init, Idle, Holders, Retrying
<1>3. CopiesMade
  BY <1>2 DEF CopiesMade, RetriedJobsLiveOn, Init
<1> QED BY <1>1, <1>2, <1>3 DEF MadeInv, RetriedWereDead, UnusedAreNoCopies, Init

\* The job of a retry stays among those that have been dead, and no identifier
\* is used twice.
LEMMA RetriersKept ==
    ASSUME MadeInv, [Next]_vars
    PROVE  /\ UnusedAreNoCopies'
           /\ RetriedWereDead'
<1> USE DEF MadeInv, TypeOK, Shapes
<1>1. ASSUME NEW j \in Jobs,
             EnqueueJob(j) \/ RunJob(j) \/ ResultExpires(j) \/ LockExpires(j)
      PROVE  UnusedAreNoCopies' /\ RetriedWereDead'
  <2>1. UNCHANGED <<copyOf, request>>
    BY <1>1 DEF EnqueueJob, RunJob, ResultExpires, LockExpires
  <2>2. \A k \in Jobs : /\ job'[k] = "unused" => job[k] = "unused"
                        /\ job[k] \in Listed => job'[k] \in Listed
    BY <1>1 DEF EnqueueJob, Fresh, RunJob, ResultExpires, LockExpires, Results, Listed
  <2> QED BY <2>1, <2>2 DEF UnusedAreNoCopies, RetriedWereDead, Retrying
<1>2. ASSUME NEW r \in Requests, NEW j \in Jobs, AcquireLock(r, j) \/ StartDelete(r, j)
      PROVE  UnusedAreNoCopies' /\ RetriedWereDead'
  <2>1. UNCHANGED <<job, copyOf>> /\ job[j] \in Listed
    BY <1>2 DEF AcquireLock, StartDelete
  <2>2. \A q \in Requests, k \in Jobs : Retrying(q, k)' => Retrying(q, k) \/ k = j
    <3>1. CASE AcquireLock(r, j)
      BY <3>1 DEF AcquireLock, Retrying, Idle
    <3>2. CASE StartDelete(r, j)
      BY <3>2 DEF StartDelete, Retrying, Idle
    <3> QED BY <1>2, <3>1, <3>2
  <2> QED BY <2>1, <2>2 DEF UnusedAreNoCopies, RetriedWereDead
<1>3. ASSUME NEW r \in Requests, StartPurge(r) \/ Serve(r) \/ Crash(r)
      PROVE  UnusedAreNoCopies' /\ RetriedWereDead'
  <2>1. \A q \in Requests, k \in Jobs : Retrying(q, k)' => Retrying(q, k)
    <3>1. CASE StartPurge(r)
      BY <3>1 DEF StartPurge, Retrying, Idle
    <3>2. CASE ReadForRetry(r)
      BY <3>2 DEF ReadForRetry, Retrying
    <3>3. CASE RemoveRetried(r)
      BY <3>3 DEF RemoveRetried, Retrying
    <3>4. CASE \E heard \in BOOLEAN : ReleaseLock(r, heard)
      BY <3>4 DEF ReleaseLock, Retrying, Idle
    <3>5. CASE \E c \in Jobs, heard \in BOOLEAN : EnqueueCopy(r, c, heard)
      BY <3>5 DEF EnqueueCopy, Retrying
    <3>6. CASE ReadForDelete(r)
      BY <3>6 DEF ReadForDelete, Retrying, Idle
    <3>7. CASE RemoveDeleted(r)
      BY <3>7 DEF RemoveDeleted, Retrying, Idle
    <3>8. CASE \E met \in SUBSET Jobs : RemovePurged(r, met)
      BY <3>8 DEF RemovePurged, Retrying, Idle
    <3>9. CASE RedisFails(r)
      BY <3>9 DEF RedisFails, Retrying, Idle
    <3>10. CASE Crash(r)
      BY <3>10 DEF Crash, Retrying, Idle
    <3> QED BY <1>3, <3>1, <3>2, <3>3, <3>4, <3>5, <3>6, <3>7, <3>8, <3>9, <3>10
            DEF Serve
  <2>2. \A k \in Jobs : /\ job[k] \in Listed => job'[k] \in Listed
                        /\ job'[k] = "unused" => job[k] = "unused" /\ copyOf'[k] = copyOf[k]
    <3>1. CASE RemoveRetried(r)
      BY <3>1 DEF RemoveRetried, Listed, Results
    <3>2. CASE \E c \in Jobs, heard \in BOOLEAN : EnqueueCopy(r, c, heard)
      BY <3>2 DEF EnqueueCopy, Fresh, Listed
    <3>3. CASE RemoveDeleted(r)
      BY <3>3 DEF RemoveDeleted, Listed, Results
    <3>4. CASE \E met \in SUBSET Jobs : RemovePurged(r, met)
      BY <3>4 DEF RemovePurged, Listed
    <3>5. CASE UNCHANGED <<job, copyOf>>
      BY <3>5
    <3> QED BY <1>3, <3>1, <3>2, <3>3, <3>4, <3>5
            DEF Serve, StartPurge, ReadForRetry, ReleaseLock, ReadForDelete,
                RedisFails, Crash
  <2> QED BY <2>1, <2>2 DEF UnusedAreNoCopies, RetriedWereDead
<1>4. CASE UNCHANGED vars
  BY <1>4 DEF vars, UnusedAreNoCopies, RetriedWereDead, Retrying
<1> QED BY <1>1, <1>2, <1>3, <1>4 DEF Next

LEMMA MadeStep ==
    ASSUME MadeInv, [Next]_vars
    PROVE  MadeInv'
<1>1. TypeOK' /\ Shapes'
  BY TypeStep DEF MadeInv
<1>2. ASSUME NEW j \in Jobs
      PROVE  /\ job'[j] = "retried" => (Copies(j) # {})'
             /\ (Holders(j) # {})' => (Copies(j) # {})'
  <2>1. /\ job[j] = "retried" => Copies(j) # {}
        /\ Holders(j) # {} => Copies(j) # {}
    BY DEF MadeInv, CopiesMade, RetriedJobsLiveOn
  <2>2. Moves(j)
    BY EveryStepMoves
  <2> QED BY <2>1, <2>2 DEF Moves, Steady, Reads, Enqueues, Settles, Breaks
<1>3. CopiesMade'
  BY <1>2 DEF CopiesMade, RetriedJobsLiveOn
<1> QED BY <1>1, <1>3, RetriersKept DEF MadeInv

\* No lock is needed for it: the copy comes first, the removal second.
LEMMA MadeInvariant == Spec => []MadeInv
<1>1. MadeInv /\ [Next]_vars => MadeInv'
  BY MadeStep
<1> QED BY <1>1, MadeInit, PTL DEF Spec

-----------------------------------------------------------------------------
\* Counting the copies.

\* The retries that have read a job and those that have enqueued it are two
\* groups of those that retry it.
LEMMA RetriersCounted ==
    ASSUME NEW S, IsFiniteSet(S), NEW R, NEW H, R \subseteq S, H \subseteq S,
           R \cap H = {}
    PROVE  /\ IsFiniteSet(R) /\ IsFiniteSet(H)
           /\ Cardinality(R) \in Nat /\ Cardinality(H) \in Nat
           /\ Cardinality(R) + Cardinality(H) <= Cardinality(S)
<1>1. IsFiniteSet(R) /\ IsFiniteSet(H)
  BY FS_Subset
<1>2. Cardinality(R \cup H) = Cardinality(R) + Cardinality(H) - Cardinality(R \cap H)
  BY <1>1, FS_Union
<1>3. Cardinality(R \cap H) = 0
  BY FS_EmptySet
<1>4. Cardinality(R \cup H) <= Cardinality(S)
  BY FS_Subset
<1>5. Cardinality(R) \in Nat /\ Cardinality(H) \in Nat
  BY <1>1, FS_CardinalityType
<1> QED BY <1>1, <1>2, <1>3, <1>4, <1>5

LEMMA ReadersFinite ==
    ASSUME NEW n, AtMost(n), NEW j \in Jobs
    PROVE  /\ IsFiniteSet(Readers(j)) /\ IsFiniteSet(Holders(j))
           /\ Cardinality(Readers(j)) \in Nat /\ Cardinality(Holders(j)) \in Nat
<1>1. /\ Readers(j) \subseteq Retriers(j) /\ Holders(j) \subseteq Retriers(j)
      /\ Readers(j) \cap Holders(j) = {} /\ IsFiniteSet(Retriers(j))
  BY DEF Readers, Holders, Retriers, AtMost
<1> QED BY <1>1, RetriersCounted

\* Where at most n retries of a job run at a time, its copies stay within n.
LEMMA CopiesStep ==
    ASSUME IsFiniteSet(Jobs), NEW n \in Nat, MadeInv, MadeInv',
           AtMost(n), AtMost(n)', CopiesWithin(n), [Next]_vars
    PROVE  CopiesWithin(n)'
<1> SUFFICES ASSUME NEW j \in Jobs
             PROVE  /\ Kept(j)' => Cardinality(Copies(j)')
                                     <= broken'[j] + Cardinality(Holders(j)')
                    /\ Cardinality(Copies(j)') + Cardinality(Readers(j)')
                          <= broken'[j] + n
  BY DEF CopiesWithin
<1>1. /\ IsFiniteSet(Readers(j)) /\ IsFiniteSet(Holders(j))
      /\ Cardinality(Readers(j)) \in Nat /\ Cardinality(Holders(j)) \in Nat
  BY ReadersFinite
<1>2. /\ Cardinality(Readers(j)') \in Nat /\ Cardinality(Holders(j)') \in Nat
      /\ Cardinality(Readers(j)') + Cardinality(Holders(j)') <= n
  <2>1. /\ Readers(j)' \subseteq Retriers(j)' /\ Holders(j)' \subseteq Retriers(j)'
        /\ Readers(j)' \cap Holders(j)' = {} /\ IsFiniteSet(Retriers(j)')
        /\ Cardinality(Retriers(j)') <= n
    BY DEF Readers, Holders, Retriers, AtMost
  <2>2. Cardinality(Retriers(j)') \in Nat
    BY <2>1, FS_CardinalityType
  <2>3. /\ Cardinality(Readers(j)') \in Nat /\ Cardinality(Holders(j)') \in Nat
        /\ Cardinality(Readers(j)') + Cardinality(Holders(j)')
              <= Cardinality(Retriers(j)')
    BY <2>1, RetriersCounted
  <2> QED BY <2>1, <2>2, <2>3
<1>3. IsFiniteSet(Copies(j)) /\ Cardinality(Copies(j)) \in Nat
  <2>1. Copies(j) \subseteq Jobs
    BY DEF Copies
  <2> QED BY <2>1, FS_Subset, FS_CardinalityType
<1>4. broken[j] \in Nat /\ broken'[j] \in Nat
  BY DEF MadeInv, TypeOK
<1>5. /\ Kept(j) => Cardinality(Copies(j)) <= broken[j] + Cardinality(Holders(j))
      /\ Cardinality(Copies(j)) + Cardinality(Readers(j)) <= broken[j] + n
  BY DEF CopiesWithin
<1>6. CASE Steady(j)
  <2>1. Cardinality(Readers(j)') <= Cardinality(Readers(j))
    BY <1>1, <1>6, FS_Subset DEF Steady
  <2> QED BY <2>1, <1>1, <1>2, <1>3, <1>4, <1>5, <1>6 DEF Steady
<1>7. CASE Settles(j)
  BY <1>1, <1>2, <1>3, <1>4, <1>5, <1>7 DEF Settles
<1>8. ASSUME NEW r \in Requests, Reads(j, r)
      PROVE  /\ Kept(j)' => Cardinality(Copies(j)')
                              <= broken'[j] + Cardinality(Holders(j)')
             /\ Cardinality(Copies(j)') + Cardinality(Readers(j)')
                   <= broken'[j] + n
  <2>1. Kept(j)
    BY <1>8 DEF Reads, Kept
  <2> QED BY <2>1, <1>1, <1>2, <1>3, <1>4, <1>5, <1>8 DEF Reads
<1>9. ASSUME NEW r \in Requests, NEW c \in Jobs, Enqueues(j, r, c)
      PROVE  /\ Kept(j)' => Cardinality(Copies(j)')
                              <= broken'[j] + Cardinality(Holders(j)')
             /\ Cardinality(Copies(j)') + Cardinality(Readers(j)')
                   <= broken'[j] + n
  <2>1. Cardinality(Copies(j)') = Cardinality(Copies(j)) + 1
    BY <1>3, <1>9, FS_AddElement DEF Enqueues
  <2>2. Cardinality(Readers(j)') = Cardinality(Readers(j)) - 1
    BY <1>1, <1>9, FS_RemoveElement DEF Enqueues
  <2>3. r \notin Holders(j)
    BY <1>9 DEF Enqueues, Readers, Holders
  <2>4. Cardinality(Holders(j) \cup {r}) = Cardinality(Holders(j)) + 1
    BY <1>1, <2>3, FS_AddElement
  <2>5. broken'[j] + Cardinality(Holders(j)') = broken[j] + Cardinality(Holders(j)) + 1
    BY <1>1, <1>4, <1>9, <2>4 DEF Enqueues
  <2>6. broken[j] <= broken'[j]
    BY <1>4, <1>9 DEF Enqueues
  <2>7. Kept(j)' => Kept(j)
    BY <1>9 DEF Enqueues, Kept
  <2> QED BY <1>1, <1>2, <1>3, <1>4, <1>5, <2>1, <2>2, <2>5, <2>6, <2>7
<1>10. ASSUME NEW r \in Requests, Breaks(j, r)
       PROVE  /\ Kept(j)' => Cardinality(Copies(j)')
                               <= broken'[j] + Cardinality(Holders(j)')
              /\ Cardinality(Copies(j)') + Cardinality(Readers(j)')
                    <= broken'[j] + n
  <2>1. Cardinality(Holders(j)') = Cardinality(Holders(j)) - 1
    BY <1>1, <1>10, FS_RemoveElement DEF Breaks
  <2>2. Kept(j)' => Kept(j)
    BY <1>10 DEF Breaks, Kept
  <2> QED BY <1>1, <1>2, <1>3, <1>4, <1>5, <1>10, <2>1, <2>2 DEF Breaks
<1> QED BY <1>6, <1>7, <1>8, <1>9, <1>10, EveryStepMoves DEF Moves

LEMMA CopiesAreWithin ==
    ASSUME IsFiniteSet(Jobs), NEW n \in Nat, MadeInv, AtMost(n), CopiesWithin(n),
           NEW j \in Jobs
    PROVE  Cardinality(Copies(j)) <= broken[j] + n
<1>1. broken[j] \in Nat
  BY DEF MadeInv, TypeOK
<1>2. Cardinality(Copies(j)) \in Nat
  <2>1. Copies(j) \subseteq Jobs
    BY DEF Copies
  <2> QED BY <2>1, FS_Subset, FS_CardinalityType
<1>3. Cardinality(Readers(j)) \in Nat
  BY ReadersFinite
<1> QED BY <1>1, <1>2, <1>3 DEF CopiesWithin

LEMMA CopiesInit ==
    ASSUME NEW n \in Nat, Init
    PROVE  CopiesWithin(n)
<1>1. ASSUME NEW j \in Jobs
      PROVE  Copies(j) = {} /\ Readers(j) = {} /\ Holders(j) = {} /\ broken[j] = 0
  BY RetryAssumption DEF Init, Copies, Readers, Holders, Retrying, Idle
<1>2. Cardinality({}) = 0
  BY FS_EmptySet
<1> QED BY <1>1, <1>2 DEF CopiesWithin

-----------------------------------------------------------------------------
\* The lock.

\* Where no retry outlives its lock, only the retry that has the lock frees it.
LEMMA ExclusiveStep ==
    ASSUME MadeInv, Exclusive, ~SlowRetries, [Next]_vars
    PROVE  Exclusive'
<1> USE DEF MadeInv, TypeOK, Shapes
\* Steps that free no lock and begin no retry.
<1>k. ASSUME lock' = lock,
             \A q \in Requests, k \in Jobs : Retrying(q, k)' => Retrying(q, k)
      PROVE  Exclusive'
  BY <1>k DEF Exclusive
<1>1. ASSUME NEW j \in Jobs, EnqueueJob(j) \/ RunJob(j) \/ ResultExpires(j)
      PROVE  Exclusive'
  BY <1>1, <1>k DEF EnqueueJob, RunJob, ResultExpires, Retrying
<1>2. ASSUME NEW j \in Jobs, LockExpires(j) PROVE Exclusive'
  BY <1>2 DEF LockExpires, Exclusive, Retrying
<1>3. ASSUME NEW r \in Requests, NEW j \in Jobs, AcquireLock(r, j) PROVE Exclusive'
  <2>1. \A q \in Requests : ~Retrying(q, j)
    BY <1>3 DEF AcquireLock, Exclusive
  <2>2. \A k \in Jobs : Retrying(r, k)' <=> k = j
    BY <1>3 DEF AcquireLock, Retrying, Idle
  <2>3. \A q \in Requests, k \in Jobs :
           q # r => (Retrying(q, k)' <=> Retrying(q, k))
    BY <1>3 DEF AcquireLock, Retrying
  <2>4. \A k \in Jobs : ~Retrying(r, k)
    <3>1. request[r] = Idle
      BY <1>3 DEF AcquireLock
    <3> QED BY <3>1 DEF Retrying, Idle
  <2>5. lock' = lock \cup {j}
    BY <1>3 DEF AcquireLock
  <2> QED BY <2>1, <2>2, <2>3, <2>4, <2>5 DEF Exclusive
<1>4. ASSUME NEW r \in Requests, NEW heard \in BOOLEAN, ReleaseLock(r, heard)
      PROVE  Exclusive'
  <2>1. PICK j \in Jobs : j = request[r].job
    BY <1>4 DEF ReleaseLock
  <2>2. Retrying(r, j) /\ lock \ {j} \subseteq lock'
    BY <1>4, <2>1 DEF ReleaseLock, Retrying
  <2>3. \A k \in Jobs : ~Retrying(r, k)'
    BY <1>4 DEF ReleaseLock, Retrying, Idle
  <2>4. \A q \in Requests, k \in Jobs :
           q # r => (Retrying(q, k)' <=> Retrying(q, k))
    BY <1>4 DEF ReleaseLock, Retrying
  <2> QED BY <2>2, <2>3, <2>4 DEF Exclusive
<1>5. ASSUME NEW r \in Requests, NEW j \in Jobs, StartDelete(r, j) PROVE Exclusive'
  BY <1>5, <1>k DEF StartDelete, Retrying, Idle
<1>6. ASSUME NEW r \in Requests, StartPurge(r) PROVE Exclusive'
  BY <1>6, <1>k DEF StartPurge, Retrying, Idle
<1>7. ASSUME NEW r \in Requests,
             \/ ReadForRetry(r) \/ RemoveRetried(r)
             \/ \E c \in Jobs, heard \in BOOLEAN : EnqueueCopy(r, c, heard)
      PROVE  Exclusive'
  BY <1>7, <1>k DEF ReadForRetry, RemoveRetried, EnqueueCopy, Retrying
<1>8. ASSUME NEW r \in Requests, ReadForDelete(r) \/ RemoveDeleted(r) PROVE Exclusive'
  BY <1>8, <1>k DEF ReadForDelete, RemoveDeleted, Retrying, Idle
<1>9. ASSUME NEW r \in Requests, NEW met \in SUBSET Jobs, RemovePurged(r, met)
      PROVE  Exclusive'
  BY <1>9, <1>k DEF RemovePurged, Retrying, Idle
<1>10. ASSUME NEW r \in Requests, RedisFails(r) PROVE Exclusive'
  BY <1>10, <1>k DEF RedisFails, Retrying, Idle
<1>11. ASSUME NEW r \in Requests, Crash(r) PROVE Exclusive'
  BY <1>11, <1>k DEF Crash, Retrying, Idle
<1>12. CASE UNCHANGED vars
  BY <1>12, <1>k DEF vars, Retrying
<1> QED BY <1>1, <1>2, <1>3, <1>4, <1>5, <1>6, <1>7, <1>8, <1>9, <1>10, <1>11, <1>12
        DEF Next, Serve

\* A lock that one retry holds alone leaves at most one retry of a job.
LEMMA ExclusiveMeansOne == Exclusive => AtMost(1)
<1> SUFFICES ASSUME Exclusive, NEW j \in Jobs
             PROVE  IsFiniteSet(Retriers(j)) /\ Cardinality(Retriers(j)) <= 1
  BY DEF AtMost
<1>1. CASE Retriers(j) = {}
  BY <1>1, FS_EmptySet
<1>2. CASE Retriers(j) # {}
  <2>1. PICK r \in Requests : Retrying(r, j)
    BY <1>2 DEF Retriers
  <2>2. Retriers(j) = {r}
    BY <2>1 DEF Retriers, Exclusive
  <2>3. IsFiniteSet({r}) /\ Cardinality({r}) = 1
    BY FS_Singleton
  <2> QED BY <2>2, <2>3
<1> QED BY <1>1, <1>2

-----------------------------------------------------------------------------
(***************************************************************************)
(* The queue, the locks and the requests keep their types, even where      *)
(* retries outlive their locks.                                            *)
(***************************************************************************)
THEOREM QueueTypeCorrect == Spec => []TypeOK
<1>1. MadeInv => TypeOK
  BY DEF MadeInv
<1> QED BY <1>1, MadeInvariant, PTL

(***************************************************************************)
(* A job that a retry removed has its copy, even where retries outlive     *)
(* their locks: enqueue first, delete second.                              *)
(***************************************************************************)
THEOREM NoRetryLosesItsJob == Spec => []RetriedJobsLiveOn
<1>1. MadeInv => RetriedJobsLiveOn
  BY DEF MadeInv, CopiesMade
<1> QED BY <1>1, MadeInvariant, PTL

(***************************************************************************)
(* The inductive invariant of retries that end before their lock expires.  *)
(***************************************************************************)
THEOREM RetryInvariant ==
    ASSUME IsFiniteSet(Jobs), ~SlowRetries
    PROVE  Spec => []RetryInv
<1>1. Init => RetryInv
  BY MadeInit, CopiesInit DEF RetryInv, Init, Exclusive, Retrying, Idle
<1>2. RetryInv /\ [Next]_vars => Exclusive'
  BY ExclusiveStep DEF RetryInv
<1>3. Exclusive' => AtMost(1)'
  BY ExclusiveMeansOne, PTL
<1>4. RetryInv /\ [Next]_vars => RetryInv'
  BY <1>2, <1>3, MadeStep, CopiesStep, ExclusiveMeansOne DEF RetryInv
<1> QED BY <1>1, <1>4, PTL DEF Spec

(***************************************************************************)
(* A dead job is enqueued again at most once, beyond once for each retry   *)
(* that broke off after its copy: retry_dead_job's SET NX lock and the     *)
(* order of its commands, against any number of requests.                  *)
(***************************************************************************)
THEOREM OneCopyPerDeadJob ==
    ASSUME IsFiniteSet(Jobs), ~SlowRetries
    PROVE  Spec => []OneCopyUnlessBroken
<1>1. RetryInv => OneCopyUnlessBroken
  BY CopiesAreWithin, ExclusiveMeansOne DEF RetryInv, OneCopyUnlessBroken
<1> QED BY <1>1, RetryInvariant, PTL

(***************************************************************************)
(* What is left of it where retries outlive their locks and delete those   *)
(* of others: a dead job has no more copies than requests are served at a  *)
(* time, beyond those of the retries that broke off.                       *)
(***************************************************************************)
THEOREM SlowRetriesCopyOncePerRequest ==
    ASSUME IsFiniteSet(Jobs), IsFiniteSet(Requests)
    PROVE  Spec => [](\A j \in Jobs :
                        Cardinality(Copies(j)) <= broken[j] + Cardinality(Requests))
<1> DEFINE n == Cardinality(Requests)
<1>1. n \in Nat
  BY FS_CardinalityType
<1>2. AtMost(n)
  <2>1. \A j \in Jobs : Retriers(j) \subseteq Requests
    BY DEF Retriers
  <2> QED BY <2>1, FS_Subset DEF AtMost
<1>3. AtMost(n)'
  <2>1. \A j \in Jobs : Retriers(j)' \subseteq Requests
    BY DEF Retriers
  <2> QED BY <2>1, FS_Subset DEF AtMost
<1> HIDE DEF n
<1>4. Init => MadeInv /\ CopiesWithin(n)
  BY <1>1, MadeInit, CopiesInit
<1>5. MadeInv /\ CopiesWithin(n) /\ [Next]_vars => (MadeInv /\ CopiesWithin(n))'
  BY <1>1, <1>2, <1>3, MadeStep, CopiesStep
<1>6. MadeInv /\ CopiesWithin(n)
         => \A j \in Jobs : Cardinality(Copies(j)) <= broken[j] + n
  BY <1>1, <1>2, CopiesAreWithin
<1>7. Spec => [](\A j \in Jobs : Cardinality(Copies(j)) <= broken[j] + n)
  BY <1>4, <1>5, <1>6, PTL DEF Spec
<1> QED BY <1>7, PTL DEF n

=============================================================================
