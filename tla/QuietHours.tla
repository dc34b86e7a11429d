----------------------------- MODULE QuietHours -----------------------------
(***************************************************************************)
(* The quiet hours of spo-monitor against the passes of one of its loops.  *)
(* An alert persists; each pass raises it again, and Send defers it while  *)
(* the local time of day is in the window.  Nothing is queued: whether the *)
(* alert is ever told depends on where the passes fall.                    *)
(***************************************************************************)
EXTENDS Integers

CONSTANTS
    Day,            \* minutes of a day, in ticks
    ClockShift,     \* how far a daylight-saving change moves the local clock
    MaxChanges      \* bound on those changes

ASSUME DayAssumption   == Day \in Nat /\ Day > 1
ASSUME ShiftAssumption == ClockShift \in Nat /\ ClockShift < Day /\ MaxChanges \in Nat

Minutes == 0..(Day - 1)

VARIABLES
    minute,     \* the local time of day
    start, end, \* the window; both the same when there is none
    interval,   \* between two passes
    untilPass,  \* until the next one
    deferred,   \* passes in a row whose message was deferred, up to Day
    changes     \* changes of the clock so far

quietVars == <<minute, start, end, interval, untilPass, deferred, changes>>

\* Faulty variants: a window over midnight is taken for an empty one; a window
\* within the day is taken for one over midnight.
ActiveSameDay == minute >= start /\ minute < end

ActiveEither == start # end /\ (minute >= start \/ minute < end)

\* QuietHours.Active.  NewQuietHours accepts no window with equal ends, and a
\* client without quiet hours is never quiet.
Active ==
    /\ start # end
    /\ IF start < end THEN minute >= start /\ minute < end
                      ELSE minute >= start \/ minute < end

\* A pass is due; its message is deferred or sent.
PassDue ==
    /\ untilPass = 0
    /\ untilPass' = interval
    /\ deferred' = IF ~Active THEN 0 ELSE IF deferred < Day THEN deferred + 1 ELSE deferred
    /\ UNCHANGED <<minute, start, end, interval, changes>>

MinutePasses ==
    /\ untilPass > 0
    /\ untilPass' = untilPass - 1
    /\ minute' = (minute + 1) % Day
    /\ UNCHANGED <<start, end, interval, deferred, changes>>

\* Daylight saving begins or ends; the ticker of the loop does not notice.
ClockChanges ==
    /\ changes < MaxChanges /\ changes' = changes + 1
    /\ minute' \in { (minute + ClockShift) % Day, (minute + Day - ClockShift) % Day }
    /\ UNCHANGED <<start, end, interval, untilPass, deferred>>

QuietInit ==
    /\ start \in Minutes /\ end \in Minutes
    /\ interval \in 1..Day
    /\ minute \in Minutes
    /\ untilPass = 0 /\ deferred = 0 /\ changes = 0

QuietNext == PassDue \/ MinutePasses \/ ClockChanges

QuietSpec == QuietInit /\ [][QuietNext]_quietVars

\* ----------------------------------------------------------------- properties

\* How long the window is, and how far into it the clock would be.
WindowLength == (end + Day - start) % Day
SinceStart == (minute + Day - start) % Day

\* The window is the time from its start on until its end, over midnight too.
QuietIsTheWindow == Active <=> SinceStart < WindowLength

\* A persisting alert is not deferred for ever: if the time outside the window
\* is as long as the interval of the loop, at most the passes of one window are
\* in a row without a message.  (With a shorter time, all of them may be.)
DeferralsEnd ==
    WindowLength + ClockShift + interval <= Day
        => (deferred - 1) * interval < WindowLength + ClockShift
=============================================================================
