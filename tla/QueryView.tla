------------------------------ MODULE QueryView ------------------------------
(***************************************************************************)
(* The lists and details of the two web applications.  A hook asks the     *)
(* server for what its filter, search text and page select, in an effect   *)
(* that runs again whenever one of them changes or a refetch is asked for; *)
(* meanwhile earlier answers are still on their way, other users change    *)
(* the data, and the search text may wait for a timer.                     *)
(*                                                                         *)
(* Init picks one of the hooks below.  React runs a handler, the render it *)
(* causes and the effects of that render before the next event, so that    *)
(* these are one step; a request, its answer and a timer are steps of      *)
(* their own.                                                              *)
(***************************************************************************)
EXTENDS Naturals

CONSTANTS
    Filter,      \* filters of a list, subjects of a detail
    NoRequest,   \* a filter for which nothing is asked: no subject, not enabled, invalid
    Text,        \* search texts
    Blank,       \* a view of nothing
    Unread,      \* a request the server has not read the data for
    MaxPage,     \* bound on the pages of a list
    MaxEdits     \* bound on what users do

ASSUME QueryAssumption ==
    /\ NoRequest \notin Filter
    /\ Filter # {} /\ Text # {}
    /\ Unread \notin Nat
    /\ Blank \notin [query : [filter : Filter, text : Text, page : Nat], seen : Nat]
    /\ MaxPage \in Nat \ {0}
    /\ MaxEdits \in Nat

VARIABLES
    hook,     \* the hook at work
    filter, text, page, \* its query
    typed,    \* the text in the search box
    timer,    \* a timer will take typed over
    run,      \* runs of the load effect so far
    loads,    \* requests whose answer has not been handled
    view,     \* what is shown: the query it answers and the version it has
    loading, failed, \* isLoading, and whether error is set
    busy,     \* the row action: idle, sent, committed
    version,  \* version of the data at the server
    asked,    \* that version when the load effect last ran
    edits     \* what users have done so far

query == <<filter, text, page>>
state == <<query, typed, timer, run, loads, view, loading, failed>>
vars == <<hook, state, busy, version, asked, edits>>

Query == [filter |-> filter, text |-> text, page |-> page]
Queries == [filter : Filter, text : Text, page : 1 .. MaxPage]
Load(n, f, x, p) == [n |-> n, query |-> [filter |-> f, text |-> x, page |-> p], seen |-> Unread]

-----------------------------------------------------------------------------
\* What the hooks differ in:
\*   late     an answer is handled even when the effect has run again
\*   marks    when a run sets isLoading: always, on a change of the query, never
\*   forgets  when a run clears the error: always, on a change of the query,
\*            never (nor does an answer);  errors: a failure sets it
\*   clears   a failure empties the view;  blanks: a change of the query does
\*   skips    what is done when there is nothing to ask: never (there always is),
\*            keep, stop (loading only), clear, error
\*   resets   how page 1 is set on a new filter or text: none, setter (with it),
\*            effect (by an effect after the load effect has run once)
\*   search   none, now, timer (with the reset), debounced (the reset before it)
\*   paging   none, always, loaded (not while loading), shown (nor after a failure)
\*   reload   none, same, first (page 1), back (same, or the page before)
\*   acts     rows have actions that end in a reload
Plain == [late |-> FALSE, marks |-> "always", forgets |-> "always", errors |-> TRUE,
          clears |-> FALSE, blanks |-> FALSE, skips |-> "never", resets |-> "none",
          search |-> "none", paging |-> "none", reload |-> "none", acts |-> FALSE]

Paged == [Plain EXCEPT !.resets = "setter", !.paging = "loaded"]
Acting == [Plain EXCEPT !.reload = "same", !.acts = TRUE]

\* The administrator's lists.
useEvents == [Paged EXCEPT !.paging = "shown"]
useVolunteers == [Paged EXCEPT !.reload = "same", !.acts = TRUE]
usePotentialVolunteers == [Paged EXCEPT !.search = "now", !.reload = "same"]
useVolunteerApplications ==
    [Paged EXCEPT !.search = "timer", !.reload = "same", !.acts = TRUE]
useAdminUserAccounts ==
    [Paged EXCEPT !.search = "debounced", !.clears = TRUE, !.reload = "same", !.acts = TRUE]
useAuditLogs ==
    [Paged EXCEPT !.search = "debounced", !.clears = TRUE, !.skips = "error", !.reload = "same"]
useEventParticipants ==
    [Plain EXCEPT !.resets = "effect", !.paging = "always", !.reload = "same"]
useEventFeedback == [Plain EXCEPT !.paging = "always", !.reload = "same"]
useAppFeedback == [Plain EXCEPT !.paging = "loaded"]
useQueueManagement ==
    [Plain EXCEPT !.paging = "loaded", !.clears = TRUE, !.reload = "first", !.acts = TRUE]
useRoleCatalog == [Acting EXCEPT !.clears = TRUE]
useFeatureCatalog == useRoleCatalog
VolunteerRolesTable ==
    [Plain EXCEPT !.late = TRUE, !.errors = FALSE, !.resets = "effect", !.search = "now",
                  !.paging = "loaded", !.reload = "back", !.acts = TRUE]
useVenuesOfAdmin == Plain
useLoginHistory == [Plain EXCEPT !.clears = TRUE]
useVolunteerRoleList ==
    [Plain EXCEPT !.late = TRUE, !.marks = "never", !.errors = FALSE]

\* Its details, counts and reports.
useEvent == Acting
useVenue == Plain
useEventVolunteers == Acting
useEventParticipantStats == [Plain EXCEPT !.skips = "clear", !.reload = "same"]
\* An owner has access without a request: nothing is asked, and no list shown.
useEventParticipantAccess == [Plain EXCEPT !.skips = "clear", !.clears = TRUE]
useAdminUserAccountDetail ==
    [Acting EXCEPT !.skips = "clear", !.clears = TRUE]
loadSpecialPermissions ==
    [Acting EXCEPT !.late = TRUE, !.skips = "clear", !.clears = TRUE]
useDashboard == [Plain EXCEPT !.reload = "same"]
useFeedbackAnalytics == Plain
useUsersPerWeek == Plain
useHistoricalEventData == [Plain EXCEPT !.forgets = "never"]
useEventPerformance == useHistoricalEventData
useOngoingEventData == [Plain EXCEPT !.forgets = "never", !.reload = "same"]
useOngoingPerformance == useOngoingEventData
useEventLogisticsOverview == [Plain EXCEPT !.skips = "keep"]
useVolunteerLogistics == useEventLogisticsOverview
useRegistrationLogistics == useEventLogisticsOverview

\* The participants' pages.
useEventsDirectory ==
    [Plain EXCEPT !.resets = "effect", !.search = "timer", !.paging = "loaded"]
useVenues == useEventsDirectory
usePublicVenue == Plain
useVenuePublicRatings ==
    [Plain EXCEPT !.paging = "loaded", !.reload = "first", !.acts = TRUE]
useEventDetail ==
    [Acting EXCEPT !.late = TRUE, !.marks = "change", !.forgets = "change",
                   !.blanks = TRUE, !.clears = TRUE]
useMyVolunteerStatus ==
    [Plain EXCEPT !.late = TRUE, !.marks = "never", !.forgets = "never", !.skips = "stop"]
useVolunteerRoles == useMyVolunteerStatus
useAttendedEvents == useMyVolunteerStatus

\* Hooks that behave alike are the same record.
Hooks == {useEvents, useVolunteers, usePotentialVolunteers, useVolunteerApplications,
          useAdminUserAccounts, useAuditLogs, useEventParticipants, useEventFeedback,
          useAppFeedback, useQueueManagement, useRoleCatalog, useFeatureCatalog,
          VolunteerRolesTable, useVenuesOfAdmin, useLoginHistory, useVolunteerRoleList,
          useEvent, useVenue, useEventVolunteers, useEventParticipantStats,
          useEventParticipantAccess, useAdminUserAccountDetail, loadSpecialPermissions,
          useDashboard, useFeedbackAnalytics, useUsersPerWeek, useHistoricalEventData,
          useEventPerformance, useOngoingEventData, useOngoingPerformance,
          useEventLogisticsOverview, useVolunteerLogistics, useRegistrationLogistics,
          useEventsDirectory, useVenues, usePublicVenue, useVenuePublicRatings,
          useEventDetail, useMyVolunteerStatus, useVolunteerRoles, useAttendedEvents}

Skips(f) == f = NoRequest
FilterOf(h) == Filter \cup (IF h.skips = "never" THEN {} ELSE {NoRequest})

TypeOK ==
    /\ hook \in Hooks
    /\ filter \in FilterOf(hook) /\ text \in Text /\ page \in 1 .. MaxPage
    /\ typed \in Text /\ timer \in BOOLEAN
    /\ run \in Nat
    /\ loads \subseteq [n : 1 .. run, query : Queries, seen : Nat \cup {Unread}]
    /\ view \in [query : Queries, seen : Nat] \cup {Blank}
    /\ loading \in BOOLEAN /\ failed \in BOOLEAN
    /\ busy \in {"idle", "sent", "committed"}
    /\ version \in Nat /\ asked \in Nat
    /\ edits \in 0 .. MaxEdits

\* The page has just opened: the load effect has run once, and asked nothing if
\* the subject is still to be chosen, or the login is not yet restored.
Init ==
    /\ hook \in Hooks
    /\ filter \in CASE hook.skips \in {"clear", "keep"} -> {NoRequest}
                    [] hook.skips = "stop" -> FilterOf(hook)
                    [] OTHER -> Filter
    /\ text \in Text /\ page = 1
    /\ typed = text /\ timer = FALSE
    /\ run = 1
    /\ loads = IF Skips(filter) THEN {} ELSE {Load(1, filter, text, page)}
    /\ view = Blank
    /\ loading = ~Skips(filter)
    /\ failed = FALSE
    /\ busy = "idle"
    /\ version = 0 /\ asked = 0
    /\ edits = 0

-----------------------------------------------------------------------------
\* The load effect.  A run with nothing to ask turns loading off and leaves the
\* view empty, with or without an error; or it leaves all or some of that out.
Skip_Early ==
    /\ view' = (IF hook.skips \in {"keep", "stop"} THEN view ELSE Blank)
    /\ failed' = (failed \/ hook.skips = "error")
    /\ UNCHANGED <<loads, loading>>

Skip ==
    /\ loads' = loads
    /\ IF hook.skips = "keep"
       THEN UNCHANGED <<view, loading, failed>>
       ELSE /\ loading' = FALSE
            /\ view' = IF hook.skips = "stop" THEN view ELSE Blank
            /\ failed' = IF hook.skips = "stop" THEN failed ELSE hook.skips = "error"

Marks(changed) == hook.marks = "always" \/ (hook.marks = "change" /\ changed)
Forgets(changed) == hook.forgets = "always" \/ (hook.forgets = "change" /\ changed)

\* n runs of the effect that send the requests new.
Send(n, new, changed) ==
    /\ run' = run + n
    /\ loads' = loads \cup new
    /\ loading' = (loading \/ Marks(changed))
    /\ failed' = (failed /\ ~Forgets(changed))
    /\ view' = IF hook.blanks /\ changed THEN Blank ELSE view

\* The query becomes f, x and p and the load effect runs; it runs again when
\* another effect then sets page 1.
Ask(f, x, p, again) ==
    LET changed == <<f, x, p>> # query
        reset   == again /\ p # 1 /\ <<f, x>> # <<filter, text>>
    IN  /\ filter' = f /\ text' = x /\ page' = (IF reset THEN 1 ELSE p)
        /\ asked' = version
        /\ IF Skips(f) THEN run' = run + 1 /\ Skip
           ELSE IF reset
           THEN Send(2, {Load(run + 1, f, x, p), Load(run + 2, f, x, 1)}, TRUE)
           ELSE Send(1, {Load(run + 1, f, x, p)}, changed)

\* State is set: the effect runs only if its query is another one.
Set(f, x, p) ==
    LET again == hook.resets = "effect"
    IN  IF <<f, x, p>> = query THEN UNCHANGED <<query, run, loads, view, loading, failed, asked>>
        ELSE Ask(f, x, p, again)

FirstPage(p) == IF hook.resets = "setter" THEN 1 ELSE p

Edit ==
    /\ edits < MaxEdits
    /\ edits' = edits + 1

-----------------------------------------------------------------------------
\* What the user does.
SetFilter(f) ==
    /\ Edit
    /\ f \in FilterOf(hook) \ {filter}
    /\ Set(f, text, FirstPage(page))
    /\ UNCHANGED <<hook, typed, timer, busy, version>>

TypeNow(x) ==
    /\ hook.search = "now"
    /\ Set(filter, x, FirstPage(page))
    /\ timer' = FALSE

TypeLater(x) ==
    /\ hook.search \in {"timer", "debounced"}
    /\ timer' = TRUE
    /\ Set(filter, text, IF hook.search = "debounced" THEN 1 ELSE page)

TypeText(x) ==
    /\ Edit
    /\ x # typed
    /\ typed' = x
    /\ TypeNow(x) \/ TypeLater(x)
    /\ UNCHANGED <<hook, busy, version>>

\* The timer takes the text over; that of the applications' search box sets
\* page 1 even when the text is the old one.
Debounce ==
    /\ timer
    /\ timer' = FALSE
    /\ Set(filter, typed, IF hook.search = "timer" THEN FirstPage(page) ELSE page)
    /\ UNCHANGED <<hook, typed, busy, version, edits>>

CanPage ==
    /\ view # Blank
    /\ hook.paging # "none"
    /\ hook.paging # "always" => ~loading
    /\ hook.paging = "shown" => ~failed

NextPage ==
    /\ Edit
    /\ CanPage
    /\ page < MaxPage
    /\ Set(filter, text, page + 1)
    /\ UNCHANGED <<hook, typed, timer, busy, version>>

PreviousPage_Unguarded ==
    /\ Edit
    /\ CanPage
    /\ Set(filter, text, page - 1)
    /\ UNCHANGED <<hook, typed, timer, busy, version>>

PreviousPage ==
    /\ Edit
    /\ CanPage
    /\ page > 1
    /\ Set(filter, text, page - 1)
    /\ UNCHANGED <<hook, typed, timer, busy, version>>

\* The reload of a hook: the effect runs for the same query, or for page 1.
\* Deleting the last row of a page of roles turns to the page before it.
Reload ==
    \/ /\ hook.reload \in {"same", "back"}
       /\ Ask(filter, text, page, FALSE)
    \/ /\ hook.reload = "first"
       /\ Ask(filter, text, 1, FALSE)
    \/ /\ hook.reload = "back"
       /\ page > 1
       /\ Ask(filter, text, page - 1, FALSE)

Refresh ==
    /\ Edit
    /\ hook.skips = "clear" => ~Skips(filter)
    /\ Reload
    /\ UNCHANGED <<hook, typed, timer, busy, version>>

-----------------------------------------------------------------------------
\* A row action: one at a time, and a reload when its success is known.
StartAction ==
    /\ Edit
    /\ hook.acts
    /\ busy = "idle"
    /\ view # Blank
    /\ busy' = "sent"
    /\ UNCHANGED <<hook, state, version, asked>>

Commit ==
    /\ busy = "sent"
    /\ busy' = "committed"
    /\ version' = version + 1
    /\ UNCHANGED <<hook, state, asked, edits>>

\* The action is refused, or its answer is lost.
FailAction ==
    /\ busy # "idle"
    /\ busy' = "idle"
    /\ UNCHANGED <<hook, state, version, asked, edits>>

EndAction ==
    /\ busy = "committed"
    /\ busy' = "idle"
    /\ IF hook.skips = "clear" /\ Skips(filter)
       THEN UNCHANGED <<query, run, loads, view, loading, failed, asked>>
       ELSE Reload
    /\ UNCHANGED <<hook, typed, timer, version, edits>>

\* Somebody else changes the data.
Change ==
    /\ Edit
    /\ version' = version + 1
    /\ UNCHANGED <<hook, state, busy, asked>>

-----------------------------------------------------------------------------
\* The server reads the data for a request.
Read(l) ==
    /\ l \in loads
    /\ l.seen = Unread
    /\ loads' = (loads \ {l}) \cup {[l EXCEPT !.seen = version]}
    /\ UNCHANGED <<hook, query, typed, timer, run, view, loading, failed,
                   busy, version, asked, edits>>

\* An answer is handled if the effect has not run again since, or if the hook
\* does not ask.
Heard_SameQuery(l) == hook.late \/ l.query = Query
Heard_Always(l) == l \in loads
Heard(l) == hook.late \/ l.n = run

Answer(l) ==
    /\ l \in loads
    /\ l.seen # Unread
    /\ loads' = loads \ {l}
    /\ IF Heard(l)
       THEN /\ view' = [query |-> l.query, seen |-> l.seen]
            /\ loading' = FALSE
            /\ failed' = (failed /\ hook.forgets = "never")
       ELSE UNCHANGED <<view, loading, failed>>
    /\ UNCHANGED <<hook, query, typed, timer, run, busy, version, asked, edits>>

\* The request fails, before or after the server has read anything.
Fail(l) ==
    /\ l \in loads
    /\ loads' = loads \ {l}
    /\ IF Heard(l)
       THEN /\ view' = IF hook.clears THEN Blank ELSE view
            /\ loading' = FALSE
            /\ failed' = (failed \/ hook.errors)
       ELSE UNCHANGED <<view, loading, failed>>
    /\ UNCHANGED <<hook, query, typed, timer, run, busy, version, asked, edits>>

Next ==
    \/ \E f \in Filter \cup {NoRequest} : SetFilter(f)
    \/ \E x \in Text : TypeText(x)
    \/ Debounce \/ NextPage \/ PreviousPage \/ Refresh
    \/ StartAction \/ Commit \/ FailAction \/ EndAction \/ Change
    \/ \E l \in loads : Read(l) \/ Answer(l) \/ Fail(l)

Spec == Init /\ [][Next]_vars

\* A request is answered or fails, and a timer fires.
Handle(n) == \E l \in loads : l.n = n /\ (Read(l) \/ Answer(l) \/ Fail(l))
Fairness ==
    /\ WF_vars(Debounce)
    /\ \A n \in 1 .. 1 + 2 * MaxEdits : WF_vars(Handle(n))
LiveSpec == Spec /\ Fairness

-----------------------------------------------------------------------------
\* A hook that drops the answers of earlier runs shows, once it neither loads
\* nor reports an error, the answer to the query on the screen, read no
\* earlier than the last refetch or change of the query; and nothing at all
\* when there is no subject.  Answers come in any order, the query changes
\* while they are on their way, and row actions and other users change the
\* data in between.
Current == view # Blank /\ view.query = Query /\ view.seen >= asked

ViewIsCurrent ==
    ~hook.late =>
        /\ ~Skips(filter) /\ ~loading /\ ~failed => Current
        /\ Skips(filter) /\ hook.skips \in {"clear", "error"} => view = Blank

\* Such a hook never replaces what it shows by older data, whatever the order
\* in which the server reads and the answers arrive.
ViewNeverGoesBack ==
    [][~hook.late /\ view # Blank /\ view' # Blank => view'.seen >= view.seen]_vars

\* A page that loads waits for a request that will end it: whatever runs of the
\* effect cancelled each other, dropped an answer or sent nothing, a request is
\* out whose answer or failure is still heard.
LoadingIsAnswered ==
    loading /\ ~(hook.skips = "keep" /\ Skips(filter)) => \E l \in loads : Heard(l)

\* Every hook stops loading and takes over what was typed: no order of
\* answers, failures, timers and runs that send nothing leaves a page loading
\* for good.  (The reports of an event leave isLoading as it is when their
\* event is cleared; their page then hides it.)
Waiting ==
    \/ timer
    \/ loading /\ ~(hook.skips = "keep" /\ Skips(filter))

LoadsEnd == []<>~Waiting
=============================================================================
