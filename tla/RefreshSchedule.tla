--------------------------- MODULE RefreshSchedule ---------------------------
(***************************************************************************)
(* The automatic refresh: the timer of webview_window.cpp on a wall clock,  *)
(* and the daily times of refresh_schedule.cpp that it is set to.  Time     *)
(* passes in milliseconds; the clock can be set (by a user, a time server,  *)
(* summer time) while the timer goes on counting, and the UI thread serves  *)
(* WM_TIMER as late as it likes.                                            *)
(***************************************************************************)
EXTENDS Integers, Sequences, FiniteSets, PureLogic

CONSTANTS
    Hours, HourMinutes, Minute,  \* 24 hours, 60 minutes, 60000 milliseconds
    Texts,      \* contents of refreshTimes: sequences of tokens [h, m]
    DailyMins,  \* refreshDailyMin of old configs
    Intervals   \* refreshIntervalSec, in milliseconds

ASSUME ClockAssumption ==
    Hours \in Nat \ {0} /\ HourMinutes \in Nat \ {0} /\ Minute \in Nat \ {0}
ASSUME TextsAssumption == Texts \subseteq Seq([h : Nat, m : Nat])
ASSUME NumbersAssumption == DailyMins \subseteq Int /\ Intervals \subseteq Nat

Day   == Hours * HourMinutes
DayMs == Day * Minute

-----------------------------------------------------------------------------
(* ParseTimes.  A token that is no time at all has an hour that is too late. *)

(* "24:00" is midnight. *)
IsTime(t) == t.m < HourMinutes /\ (t.h < Hours \/ (t.h = Hours /\ t.m = 0))
MinuteOfDay(t) == IF t.h = Hours THEN 0 ELSE t.h * HourMinutes + t.m

(* The tokens read before the first bad one. *)
Leading(text) == {i \in DOMAIN text : \A j \in 1 .. i : IsTime(text[j])}

(* std::sort and unique: the i-th time is the one with i - 1 others before it. *)
InOrder(S) ==
    [i \in 1 .. Cardinality(S) |-> CHOOSE m \in S : Cardinality({k \in S : k < m}) = i - 1]

(* Slip: the times stay in the order they were written in. *)
ParseTimesUnsorted(text) ==
    [ok |-> text # <<>> /\ Leading(text) = DOMAIN text,
     mins |-> [i \in 1 .. Cardinality(Leading(text)) |-> MinuteOfDay(text[i])]]

(* What is returned, and what is left in outMins: on failure the times read so
   far, in the order they were written in. *)
ParseTimes(text) ==
    IF text # <<>> /\ Leading(text) = DOMAIN text
      THEN [ok |-> TRUE,
            mins |-> InOrder({MinuteOfDay(text[i]) : i \in DOMAIN text})]
      ELSE [ok |-> FALSE,
            mins |-> [i \in 1 .. Cardinality(Leading(text)) |-> MinuteOfDay(text[i])]]

(* g_refreshTimes *)
RefreshTimes(text, dailyMin) ==
    LET parsed == ParseTimes(text) IN
    IF ~parsed.ok /\ dailyMin \in 0 .. Day - 1 THEN Append(parsed.mins, dailyMin)
    ELSE parsed.mins

-----------------------------------------------------------------------------
(* MsUntilNextAt.  nowMs counts from the beginning of the minute.           *)

(* The first of the slots after this minute; 0 when none is left today. *)
NextSlot(mins, nowMin) ==
    LET later == {i \in DOMAIN mins : mins[i] > nowMin} IN
    IF later = {} THEN 0 ELSE CHOOSE i \in later : \A j \in later : i <= j

(* Slip: the slot of the running minute counts as the next one. *)
MsUntilNextAtSame(mins, nowMin, nowMs) ==
    LET later == {i \in DOMAIN mins : mins[i] >= nowMin}
        delta == IF later = {} THEN mins[1] + Day - nowMin
                 ELSE mins[CHOOSE i \in later : \A j \in later : i <= j] - nowMin
        ms == delta * Minute - nowMs
    IN  IF ms <= 0 THEN ms + DayMs ELSE ms

(* Slip: counted from the beginning of the minute. *)
MsUntilNextAtWhole(mins, nowMin, nowMs) ==
    LET i == NextSlot(mins, nowMin) IN
    (IF i = 0 THEN mins[1] + Day - nowMin ELSE mins[i] - nowMin) * Minute

(* Slip: no tomorrow. *)
MsUntilNextAtToday(mins, nowMin, nowMs) ==
    LET i == NextSlot(mins, nowMin) IN
    (IF i = 0 THEN mins[1] - nowMin ELSE mins[i] - nowMin) * Minute - nowMs

MsUntilNextAt(mins, nowMin, nowMs) ==
    LET i == NextSlot(mins, nowMin)
        delta == IF i = 0 THEN mins[1] + Day - nowMin ELSE mins[i] - nowMin
        ms == delta * Minute - nowMs
    IN  IF ms <= 0 THEN ms + DayMs ELSE ms

-----------------------------------------------------------------------------
VARIABLES
    clock,   \* the wall clock, in milliseconds of the day
    mode,    \* g_refreshMode
    times,   \* g_refreshTimes
    period,  \* what TIMER_AUTO_REFRESH is set to, 0: not set
    left,    \* milliseconds until it expires
    due,     \* it has expired and WM_TIMER has not been served
    (* History, read by properties only. *)
    config,  \* the text and the old setting that times was made from
    steady,  \* the clock has not been set since the timer was
    owed     \* a slot has come since the page was refreshed last

timer   == <<period, left, due>>
setting == <<mode, times, config>>
vars    == <<clock, timer, setting, steady, owed>>

TimerOK ==
    /\ period \in (0 .. DayMs) \cup Intervals /\ left \in 0 .. period
    /\ (period = 0 => ~due) /\ (left = 0 <=> period = 0)

TypeOK ==
    /\ clock \in 0 .. DayMs - 1
    /\ mode \in {"off", "interval", "daily"} /\ times \in Seq(0 .. Day - 1)
    /\ due \in BOOLEAN /\ steady \in BOOLEAN /\ owed \in BOOLEAN
    /\ TimerOK

(* The window stands and its timer is not set yet. *)
Init ==
    /\ clock \in 0 .. DayMs - 1
    /\ mode = "off" /\ times = <<>> /\ config = [text |-> <<>>, dailyMin |-> 0]
    /\ period = 0 /\ left = 0 /\ due = FALSE
    /\ steady = TRUE /\ owed = FALSE

SetTimer(ms) == period' = ms /\ left' = ms /\ due' = FALSE

(* MsUntilNext: the local time. *)
MsUntilNext(mins) == MsUntilNextAt(mins, clock \div Minute, clock % Minute)

(* StartAutoRefresh, at the start and whenever a config is applied.  Its
   callers have asked for the page just before. *)
StartAutoRefresh ==
    \E m \in {"off", "interval", "daily"}, text \in Texts, d \in DailyMins, ms \in Intervals :
        /\ mode' = m /\ times' = RefreshTimes(text, d)
        /\ config' = [text |-> text, dailyMin |-> d]
        /\ SetTimer(CASE m = "interval" -> ms
                      [] m = "daily" /\ times' # <<>> -> MsUntilNext(times')
                      [] OTHER -> 0)
        /\ steady' = TRUE /\ owed' = FALSE
        /\ UNCHANGED clock

(* Slip: the timer goes on with the period it was set to first. *)
OnTimerPeriodic ==
    /\ due
    /\ due' = FALSE /\ owed' = FALSE
    /\ UNCHANGED <<clock, period, left, setting, steady>>

(* WM_TIMER of the window procedure; DoAutoRefresh is PageMonitor's. *)
OnTimer ==
    /\ due
    /\ IF mode = "daily" /\ times # <<>>
         THEN SetTimer(MsUntilNext(times)) /\ steady' = TRUE
         ELSE due' = FALSE /\ UNCHANGED <<period, left, steady>>
    /\ owed' = FALSE
    /\ UNCHANGED <<clock, setting>>

(* It is a slot's time. *)
IsSlot(t) == \E i \in DOMAIN times : t = times[i] * Minute

(* A millisecond; a timer that expires begins again. *)
Tick ==
    /\ clock' = IF clock = DayMs - 1 THEN 0 ELSE clock + 1
    /\ left' = IF left = 1 THEN period ELSE IF left = 0 THEN 0 ELSE left - 1
    /\ due' = (due \/ left = 1)
    /\ owed' = (owed \/ (mode = "daily" /\ IsSlot(clock')))
    /\ UNCHANGED <<period, setting, steady>>

SetClock ==
    /\ clock' \in 0 .. DayMs - 1
    /\ steady' = FALSE
    /\ UNCHANGED <<timer, setting, owed>>

Next == StartAutoRefresh \/ OnTimer \/ Tick \/ SetClock

Spec == Init /\ [][Next]_vars

(* Time passes; every loop the UI thread can be in dispatches WM_TIMER to the
   window procedure. *)
FairSpec == Spec /\ WF_vars(Tick) /\ WF_vars(OnTimer)

-----------------------------------------------------------------------------
(* What refresh_schedule.h asks of the list. *)
Sorted(mins) == \A i, j \in DOMAIN mins : i < j => mins[i] < mins[j]

(* A daily schedule in good order, on a clock nobody has touched. *)
OnSchedule == mode = "daily" /\ times # <<>> /\ Sorted(times) /\ steady

(* What the clock shows d milliseconds later. *)
Later(d) == IF clock + d >= DayMs THEN clock + d - DayMs ELSE clock + d

(* A list that parses is in good order, the precondition of MsUntilNextAt
   (refresh_schedule.h:18-20), and no time that was written is lost. *)
ParsedInOrder ==
    ParseTimes(config.text).ok =>
        /\ Sorted(times)
        /\ \A i \in DOMAIN config.text :
              \E j \in DOMAIN times : times[j] = MinuteOfDay(config.text[i])

(* The timer expires at a slot, and at the first one to come: none in between
   is passed over and none is refreshed twice, however late the refresh before
   was served, over midnight as well (refresh_schedule.cpp:57-75). *)
AimsAtNextSlot ==
    OnSchedule /\ ~due =>
        /\ left \in 1 .. DayMs /\ IsSlot(Later(left))
        /\ \A d \in 1 .. left - 1 : ~IsSlot(Later(d))

(* A refresh is due when, and only when, a slot has come since the last one
   (webview_window.cpp:570-572 and 641-647). *)
DueAtSlots == OnSchedule => (due <=> owed)

(* Minutes from one time of the day to the next such time of the clock. *)
Ahead(from, to) == IF to >= from THEN to - from ELSE to - from + Day

(* At any time, a maintenance window is open from its start until its end comes
   round, over midnight or not; one that ends when it starts is that minute
   (auto_update_logic.cpp:76-82). *)
WindowIsAnArc ==
    \A start, end \in 0 .. Day - 1 :
        LET cur == clock \div Minute IN
        InUpdateWindow(start, end, cur)
          <=> Ahead(start, cur) < Ahead(start, end) \/ cur = start

(* The inductive invariant. *)
IInv == TypeOK /\ AimsAtNextSlot /\ DueAtSlots

(* After the clock was set the timer finds back to the schedule by itself, one
   refresh later. *)
FindsBack ==
    (mode = "daily" /\ times # <<>> /\ ~steady) ~> (steady \/ mode # "daily" \/ times = <<>>)

=============================================================================
