-------------------------- MODULE QueryView_proofs --------------------------
(***************************************************************************)
(* What the hooks of QueryView that drop late answers guarantee for every  *)
(* number of filters, texts, pages and edits.                              *)
(***************************************************************************)
EXTENDS QueryView, TLAPS

\* A run of the load effect has at most one request, a request of the last run
\* asks for the query on the screen, and what it has read is no older than
\* that run.
OneLoadPerRun == \A l, m \in loads : l.n = m.n => l = m

LoadsOfTheLastRun ==
    \A l \in loads :
        /\ l.n = run => l.query = Query /\ ~Skips(filter)
        /\ l.n = run /\ l.seen # Unread => l.seen >= asked

\* Nothing is newer than the data, and while the last run's request is out the
\* view is no newer than that run.
Ages ==
    /\ asked <= version
    /\ view # Blank => view.seen <= version
    /\ \A l \in loads : l.seen # Unread => l.seen <= version
    /\ ~hook.late /\ view # Blank /\ (\E l \in loads : l.n = run) => view.seen <= asked

QueryInv == TypeOK /\ OneLoadPerRun /\ LoadsOfTheLastRun /\ Ages /\ ViewIsCurrent

-----------------------------------------------------------------------------
Loads(n) == [n : 1 .. n, query : Queries, seen : Nat \cup {Unread}]

\* The part of the state the load effect and the answers change.
effect == <<query, run, loads, view, loading, failed, asked, version, hook>>
EffectInv ==
    /\ hook \in Hooks
    /\ filter \in FilterOf(hook) /\ text \in Text /\ page \in 1 .. MaxPage
    /\ run \in Nat
    /\ loads \subseteq Loads(run)
    /\ view \in [query : Queries, seen : Nat] \cup {Blank}
    /\ loading \in BOOLEAN /\ failed \in BOOLEAN
    /\ version \in Nat /\ asked \in Nat
    /\ OneLoadPerRun /\ LoadsOfTheLastRun /\ Ages /\ ViewIsCurrent

LEMMA EffectOfQueryInv == QueryInv => EffectInv
BY DEF QueryInv, EffectInv, TypeOK, Loads

LEMMA EffectUnchanged ==
    ASSUME EffectInv, UNCHANGED effect
    PROVE  EffectInv'
BY DEF EffectInv, effect, query, OneLoadPerRun, LoadsOfTheLastRun, Ages, ViewIsCurrent,
       Current, Query, FilterOf, Loads, Skips

\* Every hook that drops late answers shows that it loads and reports failures.
LEMMA HookFacts ==
    \A h \in Hooks : ~h.late => h.marks = "always" /\ h.errors = TRUE
<1> DEFINE Told(h) == ~h.late => h.marks = "always" /\ h.errors = TRUE
<1>1. Told(Plain) /\ Told(Paged) /\ Told(Acting)
  BY DEF Plain, Paged, Acting
<1>2. Told(useEvents) /\ Told(useVolunteers) /\ Told(usePotentialVolunteers)
      /\ Told(useVolunteerApplications)
  BY DEF useEvents, useVolunteers, usePotentialVolunteers, useVolunteerApplications,
         Paged, Acting, Plain
<1>3. Told(useAdminUserAccounts) /\ Told(useAuditLogs) /\ Told(useEventParticipants)
      /\ Told(useEventFeedback)
  BY DEF useAdminUserAccounts, useAuditLogs, useEventParticipants, useEventFeedback,
         Paged, Acting, Plain
<1>4. Told(useAppFeedback) /\ Told(useQueueManagement) /\ Told(useRoleCatalog)
      /\ Told(useFeatureCatalog) /\ Told(VolunteerRolesTable)
  BY DEF useAppFeedback, useQueueManagement, useRoleCatalog, useFeatureCatalog,
         VolunteerRolesTable, Paged, Acting, Plain
<1>5. Told(useVenuesOfAdmin) /\ Told(useLoginHistory) /\ Told(useVolunteerRoleList)
      /\ Told(useEvent) /\ Told(useVenue) /\ Told(useEventVolunteers)
  BY DEF useVenuesOfAdmin, useLoginHistory, useVolunteerRoleList, useEvent, useVenue,
         useEventVolunteers, Paged, Acting, Plain
<1>6. Told(useEventParticipantStats) /\ Told(useEventParticipantAccess)
      /\ Told(useAdminUserAccountDetail) /\ Told(loadSpecialPermissions)
      /\ Told(useDashboard)
  BY DEF useEventParticipantStats, useEventParticipantAccess,
         useAdminUserAccountDetail, loadSpecialPermissions, useDashboard, Paged,
         Acting, Plain
<1>7. Told(useFeedbackAnalytics) /\ Told(useUsersPerWeek)
      /\ Told(useHistoricalEventData) /\ Told(useEventPerformance)
      /\ Told(useOngoingEventData) /\ Told(useOngoingPerformance)
  BY DEF useFeedbackAnalytics, useUsersPerWeek, useHistoricalEventData,
         useEventPerformance, useOngoingEventData, useOngoingPerformance, Paged,
         Acting, Plain
<1>8. Told(useEventLogisticsOverview) /\ Told(useVolunteerLogistics)
      /\ Told(useRegistrationLogistics)
  BY DEF useEventLogisticsOverview, useVolunteerLogistics, useRegistrationLogistics,
         Paged, Acting, Plain
<1>9. Told(useEventsDirectory) /\ Told(useVenues) /\ Told(usePublicVenue)
  BY DEF useEventsDirectory, useVenues, usePublicVenue, Paged, Acting, Plain
<1>10. Told(useVenuePublicRatings) /\ Told(useEventDetail)
      /\ Told(useMyVolunteerStatus) /\ Told(useVolunteerRoles)
      /\ Told(useAttendedEvents)
  BY DEF useVenuePublicRatings, useEventDetail, useMyVolunteerStatus,
         useVolunteerRoles, useAttendedEvents, Paged, Acting, Plain
<1> SUFFICES \A h \in Hooks : Told(h)
  OBVIOUS
<1> HIDE DEF Told
<1> QED BY <1>2, <1>3, <1>4, <1>5, <1>6, <1>7, <1>8, <1>9, <1>10 DEF Hooks

LEMMA LoadType ==
    ASSUME NEW n \in Nat, NEW k \in Nat, 1 <= k, k <= n,
           NEW f \in Filter, NEW x \in Text, NEW p \in 1 .. MaxPage
    PROVE  /\ Load(k, f, x, p) \in Loads(n)
           /\ Load(k, f, x, p).n = k
           /\ Load(k, f, x, p).query = [filter |-> f, text |-> x, page |-> p]
           /\ Load(k, f, x, p).seen = Unread
BY DEF Load, Loads, Queries

-----------------------------------------------------------------------------
\* A run that asks for nothing.
LEMMA SkipKeeps ==
    ASSUME EffectInv, UNCHANGED <<hook, version>>,
           NEW x \in Text, NEW p \in 1 .. MaxPage,
           filter' \in FilterOf(hook), Skips(filter'), text' = x, page' = p,
           asked' = version, run' = run + 1, Skip
    PROVE  EffectInv'
<1>1. loads' = loads /\ \A l \in loads : l.n # run'
  BY DEF Skip, EffectInv, Loads
<1>2. view' \in {view, Blank} /\ loading' \in BOOLEAN /\ failed' \in BOOLEAN
  BY DEF Skip, EffectInv
<1>3. loads' \subseteq Loads(run')
  BY <1>1 DEF EffectInv, Loads
<1>4. OneLoadPerRun' /\ LoadsOfTheLastRun'
  BY <1>1 DEF EffectInv, OneLoadPerRun, LoadsOfTheLastRun
<1>5. Ages'
  BY <1>1, <1>2 DEF EffectInv, Ages, Loads
<1>6. ViewIsCurrent'
  BY DEF Skip, ViewIsCurrent
<1> QED BY <1>1, <1>2, <1>3, <1>4, <1>5, <1>6 DEF EffectInv, FilterOf

\* A run, or two, the last of which asks for the new query.
LEMMA SendKeeps ==
    ASSUME EffectInv, UNCHANGED <<hook, version>>,
           NEW f \in Filter, NEW x \in Text, NEW p \in 1 .. MaxPage, NEW q \in 1 .. MaxPage,
           filter' = f, text' = x, page' = p, asked' = version,
           NEW n \in {1, 2}, NEW changed \in BOOLEAN,
           NEW new, new = {Load(run + n, f, x, p)} \cup
                          (IF n = 2 THEN {Load(run + 1, f, x, q)} ELSE {}),
           Send(n, new, changed)
    PROVE  EffectInv'
<1>1. run' = run + n /\ run' \in Nat /\ loads' = loads \cup new
  BY DEF Send, EffectInv
<1>2. \A l \in new : /\ l \in Loads(run') /\ l.n > run /\ l.seen = Unread
                     /\ l.n = run' => l = Load(run + n, f, x, p)
  <2> DEFINE a == Load(run + n, f, x, p)
             b == Load(run + 1, f, x, q)
  <2>0. /\ run' \in Nat /\ run + n \in 1 .. run' /\ run + 1 \in 1 .. run'
        /\ run + n > run /\ run + 1 > run /\ (n = 2 => run + 1 # run')
    BY <1>1 DEF EffectInv
  <2>1. a \in Loads(run') /\ a.n = run + n /\ a.seen = Unread
    BY <2>0 DEF Load, Loads, Queries
  <2>2. b \in Loads(run') /\ b.n = run + 1 /\ b.seen = Unread
    BY <2>0 DEF Load, Loads, Queries
  <2>3. \A l \in new : l = a \/ (n = 2 /\ l = b)
    OBVIOUS
  <2> HIDE DEF a, b
  <2>4. \A l \in new : l \in Loads(run') /\ l.n > run /\ l.seen = Unread /\ (l.n = run' => l = a)
    BY <2>0, <2>1, <2>2, <2>3
  <2> QED BY <2>4 DEF a
<1>3. \A l \in loads : l.n <= run /\ l.n \in Nat /\ l \in Loads(run')
  BY <1>1 DEF EffectInv, Loads
<1>4. Load(run + n, f, x, p).query = Query' /\ ~Skips(f)
  BY <1>1, LoadType, QueryAssumption DEF EffectInv, Query, Skips
<1>5. OneLoadPerRun'
  <2>1. \A l, m \in new : l.n = m.n => l = m
    BY LoadType DEF EffectInv, Load
  <2> QED BY <1>1, <1>2, <1>3, <2>1 DEF EffectInv, OneLoadPerRun
<1>6. LoadsOfTheLastRun'
  BY <1>1, <1>2, <1>3, <1>4 DEF LoadsOfTheLastRun, EffectInv
<1>7. view' \in {view, Blank} /\ loading' \in BOOLEAN /\ failed' \in BOOLEAN
  BY DEF Send, EffectInv
<1>8. Ages'
  <2>1. \A l \in loads' : l.seen # Unread => l.seen <= version
    BY <1>1, <1>2 DEF EffectInv, Ages
  <2> QED BY <1>7, <2>1 DEF EffectInv, Ages
<1>9. ViewIsCurrent'
  <2>1. ~hook.late => loading'
    BY HookFacts DEF Send, Marks, EffectInv
  <2> QED BY <2>1, QueryAssumption DEF ViewIsCurrent, Skips
<1> QED
  BY <1>1, <1>2, <1>3, <1>5, <1>6, <1>7, <1>8, <1>9 DEF EffectInv, FilterOf

LEMMA AskKeeps ==
    ASSUME EffectInv, UNCHANGED <<hook, version>>,
           NEW f \in FilterOf(hook), NEW x \in Text, NEW p \in 1 .. MaxPage,
           NEW again \in BOOLEAN, Ask(f, x, p, again)
    PROVE  EffectInv'
<1> DEFINE changed == <<f, x, p>> # query
           reset   == again /\ p # 1 /\ <<f, x>> # <<filter, text>>
<1>1. filter' = f /\ text' = x /\ page' = (IF reset THEN 1 ELSE p) /\ asked' = version
  BY DEF Ask
<1>2. page' \in 1 .. MaxPage /\ 1 \in 1 .. MaxPage
  BY <1>1, QueryAssumption
<1>3. CASE Skips(f)
  BY <1>1, <1>2, <1>3, SkipKeeps DEF Ask
<1>4. CASE ~Skips(f)
  <2>1. f \in Filter
    BY <1>4 DEF FilterOf, Skips
  <2>2. CASE reset
    <3>1. Send(2, {Load(run + 1, f, x, p), Load(run + 2, f, x, 1)}, TRUE)
      BY <1>4, <2>2 DEF Ask
    <3>2. {Load(run + 1, f, x, p), Load(run + 2, f, x, 1)}
             = {Load(run + 2, f, x, 1)} \cup
               (IF 2 = 2 THEN {Load(run + 1, f, x, p)} ELSE {})
      OBVIOUS
    <3> HIDE DEF reset
    <3> QED BY <1>1, <1>2, <2>1, <2>2, <3>1, <3>2, SendKeeps
  <2>3. CASE ~reset
    <3>1. Send(1, {Load(run + 1, f, x, p)}, changed)
      BY <1>4, <2>3 DEF Ask
    <3>2. {Load(run + 1, f, x, p)}
             = {Load(run + 1, f, x, p)} \cup
               (IF 1 = 2 THEN {Load(run + 1, f, x, p)} ELSE {})
      OBVIOUS
    <3>3. changed \in BOOLEAN
      OBVIOUS
    <3> HIDE DEF reset, changed
    <3> QED BY <1>1, <2>1, <2>3, <3>1, <3>2, <3>3, SendKeeps
  <2> QED BY <2>2, <2>3
<1> QED BY <1>3, <1>4

LEMMA SetKeeps ==
    ASSUME EffectInv, UNCHANGED <<hook, version>>,
           NEW f \in FilterOf(hook), NEW x \in Text, NEW p \in 1 .. MaxPage,
           Set(f, x, p)
    PROVE  EffectInv'
<1>1. CASE <<f, x, p>> = query
  BY <1>1, EffectUnchanged DEF Set, effect
<1>2. CASE <<f, x, p>> # query
  BY <1>2, AskKeeps DEF Set
<1> QED BY <1>1, <1>2

LEMMA ReloadKeeps ==
    ASSUME EffectInv, UNCHANGED <<hook, version>>, Reload
    PROVE  EffectInv'
<1>1. filter \in FilterOf(hook) /\ text \in Text /\ page \in 1 .. MaxPage
      /\ 1 \in 1 .. MaxPage /\ (page > 1 => page - 1 \in 1 .. MaxPage)
  BY QueryAssumption DEF EffectInv
<1> QED BY <1>1, AskKeeps DEF Reload

\* The data grow newer.
LEMMA VersionKeeps ==
    ASSUME EffectInv, UNCHANGED <<hook, state, asked>>, version' = version + 1
    PROVE  EffectInv'
<1>1. UNCHANGED <<query, run, loads, view, loading, failed>>
  BY DEF state
<1>2. (OneLoadPerRun /\ LoadsOfTheLastRun /\ ViewIsCurrent)'
  BY <1>1 DEF EffectInv, query, OneLoadPerRun, LoadsOfTheLastRun, ViewIsCurrent, Current,
              Query, Skips
<1>3. Ages'
  BY <1>1 DEF EffectInv, Ages, Loads
<1> QED BY <1>1, <1>2, <1>3 DEF EffectInv, query, FilterOf, Loads

-----------------------------------------------------------------------------
LEMMA ReadKeeps ==
    ASSUME EffectInv, NEW l \in loads, Read(l)
    PROVE  EffectInv'
<1> DEFINE r == [l EXCEPT !.seen = version]
<1>1. r \in Loads(run) /\ r.n = l.n /\ r.query = l.query /\ r.seen = version
  BY DEF EffectInv, Loads
<1>2. loads' = (loads \ {l}) \cup {r}
      /\ UNCHANGED <<hook, query, run, view, loading, failed, version, asked>>
  BY DEF Read
<1>3. OneLoadPerRun'
  BY <1>1, <1>2 DEF EffectInv, OneLoadPerRun
<1>4. LoadsOfTheLastRun'
  BY <1>1, <1>2 DEF EffectInv, query, LoadsOfTheLastRun, Ages, Query, Skips
<1>5. Ages'
  <2>1. (\E m \in loads' : m.n = run') => \E m \in loads : m.n = run
    BY <1>1, <1>2
  <2>2. \A m \in loads' : m.seen # Unread => m.seen <= version
    <3>1. version <= version /\ \A m \in loads : m.seen # Unread => m.seen <= version
      BY DEF EffectInv, Ages
    <3> HIDE DEF r
    <3> QED BY <1>1, <1>2, <3>1
  <2> QED BY <1>2, <2>1, <2>2 DEF EffectInv, Ages
<1>6. ViewIsCurrent'
  BY <1>2 DEF EffectInv, query, ViewIsCurrent, Current, Query, Skips
<1> QED BY <1>1, <1>2, <1>3, <1>4, <1>5, <1>6 DEF EffectInv, query, FilterOf, Loads

\* A request is gone, whatever became of the view.
LEMMA HandledKeeps ==
    ASSUME EffectInv, NEW l \in loads, loads' = loads \ {l},
           UNCHANGED <<hook, query, run, version, asked>>,
           view' \in [query : Queries, seen : Nat] \cup {Blank},
           loading' \in BOOLEAN, failed' \in BOOLEAN,
           view' # Blank => view'.seen <= version,
           ViewIsCurrent',
           l.n = run \/ view' \in {view, Blank} \/ hook.late
    PROVE  EffectInv'
<1>1. OneLoadPerRun' /\ LoadsOfTheLastRun'
  BY DEF EffectInv, query, OneLoadPerRun, LoadsOfTheLastRun, Query, Skips
<1>2. l.n = run => ~\E m \in loads' : m.n = run'
  BY DEF EffectInv, OneLoadPerRun
<1>3. Ages'
  <2>1. ~hook.late /\ view' # Blank /\ (\E m \in loads' : m.n = run') => view'.seen <= asked
    BY <1>2 DEF EffectInv, Ages
  <2> QED BY <2>1 DEF EffectInv, Ages
<1> QED BY <1>1, <1>3 DEF EffectInv, query, FilterOf, Loads

LEMMA AnswerKeeps ==
    ASSUME EffectInv, NEW l \in loads, Answer(l)
    PROVE  EffectInv'
<1>1. loads' = loads \ {l} /\ UNCHANGED <<hook, query, run, version, asked>>
  BY DEF Answer
<1>2. l.query \in Queries /\ l.seen \in Nat /\ l.seen <= version
  BY DEF Answer, EffectInv, Loads, Ages
<1>3. CASE Heard(l)
  <2>1. view' = [query |-> l.query, seen |-> l.seen] /\ loading' = FALSE
        /\ failed' \in BOOLEAN
    BY <1>3 DEF Answer, EffectInv
  <2>2. view' # Blank
    <3>1. view' \in [query : [filter : Filter, text : Text, page : Nat], seen : Nat]
      BY <1>2, <2>1 DEF Queries
    <3> QED BY <3>1, QueryAssumption
  <2>3. ViewIsCurrent'
    <3>1. CASE hook.late
      BY <1>1, <3>1 DEF ViewIsCurrent
    <3>2. CASE l.n = run
      <4>1. l.query = Query /\ ~Skips(filter) /\ l.seen >= asked
        BY <3>2 DEF EffectInv, LoadsOfTheLastRun, Answer
      <4> QED BY <1>1, <2>1, <2>2, <4>1 DEF ViewIsCurrent, Current, query, Query, Skips
    <3> QED BY <1>3, <3>1, <3>2 DEF Heard
  <2> QED BY <1>1, <1>2, <1>3, <2>1, <2>3, HandledKeeps DEF Heard
<1>4. CASE ~Heard(l)
  <2>1. UNCHANGED <<view, loading, failed>>
    BY <1>4 DEF Answer
  <2>2. ViewIsCurrent'
    BY <1>1, <2>1 DEF EffectInv, ViewIsCurrent, Current, query, Query, Skips
  <2>3. view \in [query : Queries, seen : Nat] \cup {Blank}
        /\ (view # Blank => view.seen <= version)
        /\ loading \in BOOLEAN /\ failed \in BOOLEAN
    BY DEF EffectInv, Ages
  <2> QED BY <1>1, <2>1, <2>2, <2>3, HandledKeeps
<1> QED BY <1>3, <1>4

LEMMA FailKeeps ==
    ASSUME EffectInv, NEW l \in loads, Fail(l)
    PROVE  EffectInv'
<1>1. loads' = loads \ {l} /\ UNCHANGED <<hook, query, run, version, asked>>
  BY DEF Fail
<1>2. view' \in {view, Blank} /\ loading' \in BOOLEAN /\ failed' \in BOOLEAN
  BY DEF Fail, EffectInv
<1>3. ViewIsCurrent'
  <2>1. CASE Heard(l) /\ ~hook.late
    <3>1. failed' = TRUE
      BY <2>1, HookFacts DEF Fail, EffectInv
    <3> QED BY <1>1, <1>2, <3>1 DEF EffectInv, ViewIsCurrent, query, Skips
  <2>2. CASE ~Heard(l)
    BY <1>1, <2>2 DEF Fail, EffectInv, ViewIsCurrent, Current, query, Query, Skips
  <2>3. CASE hook.late
    BY <1>1, <2>3 DEF ViewIsCurrent
  <2> QED BY <2>1, <2>2, <2>3
<1>4. view' \in [query : Queries, seen : Nat] \cup {Blank}
      /\ (view' # Blank => view'.seen <= version)
  BY <1>2 DEF EffectInv, Ages
<1> QED BY <1>1, <1>2, <1>3, <1>4, HandledKeeps

-----------------------------------------------------------------------------
\* What the user's steps leave alone.
LEMMA PageType == ASSUME EffectInv PROVE FirstPage(page) \in 1 .. MaxPage /\ 1 \in 1 .. MaxPage
BY QueryAssumption DEF EffectInv, FirstPage

LEMMA UserStep ==
    ASSUME QueryInv,
           \/ \E f \in Filter \cup {NoRequest} : SetFilter(f)
           \/ \E x \in Text : TypeText(x)
           \/ Debounce \/ NextPage \/ PreviousPage \/ Refresh
    PROVE  QueryInv'
<1>0. EffectInv
  BY EffectOfQueryInv
<1>1. ASSUME NEW f \in Filter \cup {NoRequest}, SetFilter(f) PROVE EffectInv'
  BY <1>0, <1>1, SetKeeps, PageType DEF SetFilter, EffectInv
<1>2. ASSUME NEW x \in Text, TypeText(x) PROVE EffectInv'
  <2>1. UNCHANGED <<hook, version>> /\ filter \in FilterOf(hook) /\ text \in Text
        /\ page \in 1 .. MaxPage
    BY <1>0, <1>2 DEF TypeText, EffectInv
  <2>2. CASE TypeNow(x)
    BY <1>0, <2>1, <2>2, SetKeeps, PageType DEF TypeNow
  <2>3. CASE TypeLater(x)
    BY <1>0, <2>1, <2>3, SetKeeps, PageType DEF TypeLater
  <2> QED BY <1>2, <2>2, <2>3 DEF TypeText
<1>3. ASSUME Debounce PROVE EffectInv'
  BY <1>0, <1>3, SetKeeps, PageType DEF Debounce, EffectInv, QueryInv, TypeOK
<1>4. ASSUME NextPage PROVE EffectInv'
  <2>1. page + 1 \in 1 .. MaxPage
    BY <1>0, <1>4, QueryAssumption DEF NextPage, EffectInv
  <2> QED BY <1>0, <1>4, <2>1, SetKeeps DEF NextPage, EffectInv
<1>5. ASSUME PreviousPage PROVE EffectInv'
  <2>1. page - 1 \in 1 .. MaxPage
    BY <1>0, <1>5, QueryAssumption DEF PreviousPage, EffectInv
  <2> QED BY <1>0, <1>5, <2>1, SetKeeps DEF PreviousPage, EffectInv
<1>6. ASSUME Refresh PROVE EffectInv'
  BY <1>0, <1>6, ReloadKeeps DEF Refresh
<1>7. EffectInv'
  BY <1>1, <1>2, <1>3, <1>4, <1>5, <1>6
<1>8. typed' \in Text /\ timer' \in BOOLEAN
  BY DEF QueryInv, TypeOK, SetFilter, TypeText, TypeNow, TypeLater, Debounce, NextPage,
         PreviousPage, Refresh
<1>9. busy' = busy /\ (edits' = edits \/ (edits < MaxEdits /\ edits' = edits + 1))
  BY DEF SetFilter, TypeText, Debounce, NextPage, PreviousPage, Refresh, Edit
<1>10. busy' \in {"idle", "sent", "committed"} /\ edits' \in 0 .. MaxEdits
  BY <1>9, QueryAssumption DEF QueryInv, TypeOK
<1> QED BY <1>7, <1>8, <1>10 DEF EffectInv, QueryInv, TypeOK, Loads

LEMMA DataStep ==
    ASSUME QueryInv, StartAction \/ Commit \/ FailAction \/ EndAction \/ Change
    PROVE  QueryInv'
<1>0. EffectInv
  BY EffectOfQueryInv
<1>1. ASSUME StartAction \/ FailAction PROVE EffectInv'
  BY <1>0, <1>1, EffectUnchanged DEF StartAction, FailAction, state, effect
<1>2. ASSUME Commit \/ Change PROVE EffectInv'
  BY <1>0, <1>2, VersionKeeps DEF Commit, Change
<1>3. ASSUME EndAction PROVE EffectInv'
  BY <1>0, <1>3, EffectUnchanged, ReloadKeeps DEF EndAction, effect
<1>4. EffectInv'
  BY <1>1, <1>2, <1>3
<1>5. (typed \in Text /\ timer \in BOOLEAN /\ busy \in {"idle", "sent", "committed"}
        /\ edits \in 0 .. MaxEdits)'
  BY QueryAssumption
     DEF QueryInv, TypeOK, StartAction, Commit, FailAction, EndAction, Change, state, Edit
<1> QED BY <1>4, <1>5 DEF EffectInv, QueryInv, TypeOK, Loads

LEMMA LoadStep ==
    ASSUME QueryInv, NEW l \in loads, Read(l) \/ Answer(l) \/ Fail(l)
    PROVE  QueryInv'
<1>1. EffectInv'
  BY EffectOfQueryInv, ReadKeeps, AnswerKeeps, FailKeeps
<1>2. UNCHANGED <<typed, timer, busy, edits>>
  BY DEF Read, Answer, Fail
<1> QED BY <1>1, <1>2 DEF EffectInv, QueryInv, TypeOK, Loads

\* The inductive invariant.
THEOREM QueryInvariant == Spec => []QueryInv
<1>1. Init => QueryInv
  <2> SUFFICES ASSUME Init PROVE QueryInv
    OBVIOUS
  <2>1. filter \in FilterOf(hook) /\ page \in 1 .. MaxPage
    BY QueryAssumption DEF Init, FilterOf
  <2>2. ~Skips(filter) => filter \in Filter
    BY <2>1 DEF FilterOf, Skips
  <2>3. \A l \in loads : l \in Loads(1) /\ l.n = 1 /\ l.query = Query /\ l.seen = Unread
    BY <2>1, <2>2, LoadType DEF Init, Query
  <2>4. TypeOK
    <3>1. hook \in Hooks /\ text \in Text /\ typed \in Text /\ timer \in BOOLEAN /\ run = 1
          /\ view = Blank /\ loading \in BOOLEAN /\ failed \in BOOLEAN /\ busy = "idle"
          /\ version \in Nat /\ asked \in Nat /\ edits \in 0 .. MaxEdits
      <4>1. text \in Text /\ typed \in Text /\ timer \in BOOLEAN /\ loading \in BOOLEAN
            /\ failed \in BOOLEAN
        BY DEF Init
      <4> QED BY <4>1, QueryAssumption DEF Init
    <3> QED BY <2>1, <2>3, <3>1 DEF TypeOK, Loads, Init
  <2>5. OneLoadPerRun
    BY DEF Init, OneLoadPerRun
  <2>6. LoadsOfTheLastRun
    BY <2>3 DEF Init, LoadsOfTheLastRun
  <2>7. Ages
    BY <2>3 DEF Init, Ages
  <2>8. ViewIsCurrent
    BY DEF Init, ViewIsCurrent
  <2> QED BY <2>4, <2>5, <2>6, <2>7, <2>8 DEF QueryInv
<1>2. QueryInv /\ [Next]_vars => QueryInv'
  <2>1. QueryInv /\ UNCHANGED vars => QueryInv'
    BY DEF QueryInv, TypeOK, OneLoadPerRun, LoadsOfTheLastRun, Ages, ViewIsCurrent, Current,
           Query, FilterOf, Skips, vars, state, query
  <2> QED BY <2>1, UserStep, DataStep, LoadStep DEF Next
<1> QED BY <1>1, <1>2, PTL DEF Spec

\* Every variable keeps its type.
THEOREM QueryTypeCorrect == Spec => []TypeOK
BY QueryInvariant, PTL DEF QueryInv

\* A hook that drops late answers never shows, as settled, the answer to another
\* query or one read before the last refetch, and shows nothing without a
\* subject (the cancelled flags of the load effects, use-events.ts and others).
THEOREM SettledViewIsCurrent == Spec => []ViewIsCurrent
BY QueryInvariant, PTL DEF QueryInv

\* Nor does such a hook replace what it shows by older data.
THEOREM ViewOnlyGetsNewer == Spec => ViewNeverGoesBack
<1>1. QueryInv /\ [Next]_vars =>
         [~hook.late /\ view # Blank /\ view' # Blank => view'.seen >= view.seen]_vars
  <2> SUFFICES ASSUME QueryInv, [Next]_vars, ~hook.late, view # Blank, view' # Blank
               PROVE  view'.seen >= view.seen
    OBVIOUS
  <2>1. view.seen \in Nat
    BY DEF QueryInv, TypeOK
  <2>2. CASE \E l \in loads : Answer(l)
    <3>1. PICK l \in loads : Answer(l)
      BY <2>2
    <3>2. CASE Heard(l)
      <4>1. l.n = run /\ l.seen # Unread /\ view' = [query |-> l.query, seen |-> l.seen]
        BY <3>1, <3>2 DEF Answer, Heard
      <4>2. l.seen >= asked /\ view.seen <= asked /\ asked \in Nat /\ l.seen \in Nat
        BY <4>1 DEF QueryInv, LoadsOfTheLastRun, Ages, TypeOK
      <4> QED BY <2>1, <4>1, <4>2
    <3> QED BY <2>1, <3>1, <3>2 DEF Answer
  <2>3. CASE ~\E l \in loads : Answer(l)
    <3>1. view' \in {view, Blank}
      BY <2>3 DEF Next, SetFilter, TypeText, TypeNow, TypeLater, Debounce, NextPage,
                  PreviousPage, Refresh, Reload, Set, Ask, Send, Skip, StartAction, Commit,
                  FailAction, EndAction, Change, Read, Fail, vars, state
    <3> QED BY <2>1, <3>1
  <2> QED BY <2>2, <2>3
<1> QED BY <1>1, QueryInvariant, PTL DEF Spec, ViewNeverGoesBack

-----------------------------------------------------------------------------
\* A run of the load effect that sends something is heard, one that sends
\* nothing has stopped loading.
LEMMA AskIsAnswered ==
    ASSUME QueryInv, LoadingIsAnswered, hook' = hook,
           NEW f, NEW x, NEW p, NEW again \in BOOLEAN, f \in FilterOf(hook), Ask(f, x, p, again)
    PROVE  LoadingIsAnswered'
<1>1. CASE Skips(f)
  <2>1. filter' = f /\ Skip
    BY <1>1 DEF Ask
  <2>2. hook.skips = "keep" \/ ~loading'
    BY <2>1 DEF Skip
  <2> QED BY <1>1, <2>1, <2>2 DEF LoadingIsAnswered
<1>2. CASE ~Skips(f)
  <2>1. PICK n \in {1, 2}, q \in {p, 1} : /\ run' = run + n
                                        /\ Load(run + n, f, x, q) \in loads'
    BY <1>2 DEF Ask, Send
  <2>2. Load(run + n, f, x, q).n = run'
    BY <2>1 DEF Load
  <2> QED BY <2>1, <2>2 DEF LoadingIsAnswered, Heard
<1> QED BY <1>1, <1>2

LEMMA SetIsAnswered ==
    ASSUME QueryInv, LoadingIsAnswered, hook' = hook,
           NEW f \in FilterOf(hook), NEW x, NEW p, Set(f, x, p)
    PROVE  LoadingIsAnswered'
<1>1. CASE <<f, x, p>> = query
  BY <1>1 DEF Set, LoadingIsAnswered, query, Heard
<1>2. CASE <<f, x, p>> # query
  BY <1>2, AskIsAnswered DEF Set
<1> QED BY <1>1, <1>2

\* An answer or failure that is not heard leaves the heard one out, one that is
\* heard ends the loading, and a read request is the same request.
LEMMA HandledIsAnswered ==
    ASSUME QueryInv, LoadingIsAnswered, NEW l \in loads, Read(l) \/ Answer(l) \/ Fail(l)
    PROVE  LoadingIsAnswered'
<1>1. UNCHANGED <<hook, filter, run>>
  BY DEF Read, Answer, Fail, query
<1>2. CASE Read(l)
  <2> DEFINE r == [l EXCEPT !.seen = version]
  <2>1. loads' = (loads \ {l}) \cup {r} /\ loading' = loading /\ r.n = l.n
    BY <1>2 DEF Read, QueryInv, TypeOK
  <2> QED BY <1>1, <2>1 DEF LoadingIsAnswered, Heard
<1>3. CASE (Answer(l) \/ Fail(l)) /\ Heard(l)
  BY <1>3 DEF Answer, Fail, LoadingIsAnswered
<1>4. CASE (Answer(l) \/ Fail(l)) /\ ~Heard(l)
  BY <1>1, <1>4 DEF Answer, Fail, LoadingIsAnswered, Heard
<1> QED BY <1>2, <1>3, <1>4

\* No page loads for a request whose answer nobody hears (the cancelled flags
\* and early returns of the load effects, use-audit-logs.ts and others).
THEOREM NoLoadingForNothing == Spec => []LoadingIsAnswered
<1>1. Init => LoadingIsAnswered
  <2> SUFFICES ASSUME Init, ~Skips(filter) PROVE \E l \in loads : Heard(l)
    BY DEF Init, LoadingIsAnswered
  <2>1. Load(1, filter, text, page) \in loads /\ Load(1, filter, text, page).n = run
    BY DEF Init, Load
  <2> QED BY <2>1 DEF Heard
<1>2. QueryInv /\ LoadingIsAnswered /\ [Next]_vars => LoadingIsAnswered'
  <2> SUFFICES ASSUME QueryInv, LoadingIsAnswered, [Next]_vars PROVE LoadingIsAnswered'
    OBVIOUS
  <2>1. filter \in FilterOf(hook)
    BY DEF QueryInv, TypeOK
  <2>2. ASSUME Reload, hook' = hook PROVE LoadingIsAnswered'
    BY <2>1, <2>2, AskIsAnswered DEF Reload
  <2>3. ASSUME UNCHANGED <<hook, query, run, loads, loading>> PROVE LoadingIsAnswered'
    BY <2>3 DEF LoadingIsAnswered, query, Heard
  <2>4. CASE \E f \in Filter \cup {NoRequest} : SetFilter(f)
    BY <2>4, SetIsAnswered DEF SetFilter
  <2>5. CASE \E x \in Text : TypeText(x)
    BY <2>1, <2>5, SetIsAnswered DEF TypeText, TypeNow, TypeLater
  <2>6. CASE Debounce \/ NextPage \/ PreviousPage
    BY <2>1, <2>6, SetIsAnswered DEF Debounce, NextPage, PreviousPage
  <2>7. CASE Refresh \/ EndAction
    BY <2>2, <2>3, <2>7 DEF Refresh, EndAction
  <2>8. CASE StartAction \/ Commit \/ FailAction \/ Change \/ UNCHANGED vars
    BY <2>3, <2>8 DEF StartAction, Commit, FailAction, Change, state, vars
  <2> QED BY <2>4, <2>5, <2>6, <2>7, <2>8, HandledIsAnswered DEF Next
<1> QED BY <1>1, <1>2, QueryInvariant, PTL DEF Spec
=============================================================================
