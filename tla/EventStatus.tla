---------------------------- MODULE EventStatus ----------------------------
(***************************************************************************)
(* The status vocabulary of events and event sessions and the two ways a   *)
(* status is decided: the transition maps that organizers' requests obey,  *)
(* and the wall-clock reconciliation that edits and cron jobs apply.       *)
(***************************************************************************)
EXTENDS Naturals

\* Events and sessions use the same six values.
Statuses == {"draft", "posted", "started", "postponed", "ended", "cancelled"}

AllowedEventTransitions ==
    [s \in Statuses |->
        CASE s = "draft"     -> {"posted", "cancelled"}
          [] s = "posted"    -> {"draft", "started", "postponed", "cancelled"}
          [] s = "started"   -> {"draft", "posted", "ended", "cancelled"}
          [] s = "postponed" -> {"draft", "posted", "cancelled"}
          [] s = "ended"     -> {"draft"}
          [] s = "cancelled" -> {"draft"}]

AllowedSessionTransitions ==
    [s \in Statuses |->
        CASE s = "draft"     -> {"posted", "cancelled"}
          [] s = "posted"    -> {"started", "cancelled", "postponed"}
          [] s = "started"   -> {"ended", "cancelled"}
          [] s = "postponed" -> {"posted", "cancelled"}
          [] s = "ended"     -> {}
          [] s = "cancelled" -> {}]

\* The statuses that follow the clock; the other three are the organizer's.
DateReconciled == {"posted", "started", "ended"}

\* Mutant: every status follows the dates.
ResolveForDates_Every(status, window, t) ==
    IF t < window.start THEN "posted"
    ELSE IF t >= window.end THEN "ended"
    ELSE "started"

\* resolve_event_status_for_dates and resolve_event_session_status_for_dates
\* are the same function of status, window and time.
ResolveForDates(status, window, t) ==
    IF status \notin DateReconciled THEN status
    ELSE IF t < window.start THEN "posted"
    ELSE IF t >= window.end THEN "ended"
    ELSE "started"

\* One row under the cron job's two bulk UPDATEs, run one after the other.
\* Mutant: the start of the window is not compared.
StartPass_AnyTime(status, window, t) ==
    IF status = "posted" /\ t < window.end THEN "started" ELSE status

StartPass(status, window, t) ==
    IF status = "posted" /\ window.start <= t /\ t < window.end
    THEN "started" ELSE status

\* Mutant: the end of the window is excluded.
EndPass_AfterEnd(status, window, t) ==
    IF status = "started" /\ window.end < t THEN "ended" ELSE status

EndPass(status, window, t) ==
    IF status = "started" /\ window.end <= t THEN "ended" ELSE status

AdvanceByClock(status, window, t) ==
    EndPass(StartPass(status, window, t), window, t)

ValidWindow(w) == w.start < w.end
Inside(w, outer) == outer.start <= w.start /\ w.end <= outer.end
=============================================================================
