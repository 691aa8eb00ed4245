---------------------------- MODULE BackupWindow ----------------------------
(***************************************************************************)
(* Backup windows of pkg/collections/model.go: from a cron expression and  *)
(* a duration to "may one upload now" and "was the last upload in time".   *)
(* The cron library can only look forward, so the start of a slot is found *)
(* by looking forward from further and further back.                       *)
(*                                                                         *)
(* A time is an integer number of clock ticks.  A window is a record: runs *)
(* is the set of times its cron expression names, all at full minutes, and *)
(* duration is a number of ticks.  A time.Time that may be missing (the    *)
(* zero time of the cron library, or an error returned beside it) is a set *)
(* with no element.                                                        *)
(***************************************************************************)
EXTENDS Integers

CONSTANTS
    Second,  \* ticks in a second
    Minute,  \* ticks in a minute (shorter than in life for TLC)
    Retries  \* minutes the search goes back: 60*24*30*12 in the code

ASSUME TicksAssumption == Second \in Nat \ {0} /\ Minute \in Nat \ {0} /\ Second <= Minute
ASSUME RetriesAssumption == Retries \in Nat

\* Schedule.Next of the cron library: the first run later than t.
NextRun(window, t) ==
    {r \in window.runs : r > t /\ \A s \in window.runs : s > t => r <= s}

\* Mutants of GetStartingDateOfPreviousScheduledRun: the next run is looked up
\* from now only; the search goes back in steps of two minutes.
StartWithoutLookBack(window, current) ==
    LET nextRun == NextRun(window, current)
        Probe == [k \in 1..(Retries + 1) |-> NextRun(window, current - k * Minute)]
    IN  {r \in window.runs : \E k \in 1..(Retries + 1) :
            /\ r \in Probe[k]
            /\ Probe[k] # nextRun
            /\ \A j \in 1..(k - 1) : Probe[j] = nextRun}
StartInBigSteps(window, current) ==
    LET nextRun == NextRun(window, current - Second)
        Probe == [k \in 1..(Retries + 1) |-> NextRun(window, current - k * 2 * Minute)]
    IN  {r \in window.runs : \E k \in 1..(Retries + 1) :
            /\ r \in Probe[k]
            /\ Probe[k] # nextRun
            /\ \A j \in 1..(k - 1) : Probe[j] = nextRun}

\* A run that is "now", in the second before, counts as the next run.  Going
\* back minute by minute, the first other run is the start; after Retries + 1
\* minutes there is an error.  (Runs are compared by the minute.)
GetStartingDateOfPreviousScheduledRun(window, current) ==
    LET nextRun == NextRun(window, current - Second)
        Probe == [k \in 1..(Retries + 1) |-> NextRun(window, current - k * Minute)]
    IN  {r \in window.runs : \E k \in 1..(Retries + 1) :
            /\ r \in Probe[k]
            /\ Probe[k] # nextRun
            /\ \A j \in 1..(k - 1) : Probe[j] = nextRun}

\* Mutant of IsInPreviousWindowTimeSlot: the end of the slot is forgotten.
AnyTimeSincePreviousRun(window, now, creation) ==
    \E start \in GetStartingDateOfPreviousScheduledRun(window, now) : creation > start

\* Was `creation` in the slot that is open at `now`, or was the last one?
\* The code's second result, an error, is that there is no start.
IsInPreviousWindowTimeSlot(window, now, creation) ==
    \E start \in GetStartingDateOfPreviousScheduledRun(window, now) :
        creation > start /\ creation < start + window.duration

\* Same test of `current` itself
IsInWindowNow(window, current) ==
    IsInPreviousWindowTimeSlot(window, current, current)

-----------------------------------------------------------------------------
(* What the search is for *)

\* The run that started the latest slot, if it is within the months searched
LatestStart(window, t) ==
    {r \in window.runs :
        /\ r <= t
        /\ t < r + (Retries + 1) * Minute
        /\ \A s \in window.runs : s <= t => s <= r}

\* t is in a slot: from its start up to its end.
InSlot(window, t) == \E r \in window.runs : r <= t /\ t < r + window.duration

\* t is in the first second of a slot.
Starting(window, t) == \E r \in window.runs : r <= t /\ t < r + Second

\* The run that started the latest slot which is at least a second old
SettledStart(window, t) ==
    {r \in window.runs :
        /\ r + Second <= t
        /\ t < r + (Retries + 1) * Minute
        /\ \A s \in window.runs : s + Second <= t => s <= r}
=============================================================================
