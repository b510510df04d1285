------------------------------ MODULE PureLogic ------------------------------
(***************************************************************************)
(* The decisions about time and versions that keep no state: the order of   *)
(* versions and the maintenance window of auto_update_logic.cpp, and the    *)
(* delay of ScheduleNextRemotePoll in main.cpp.  RefreshSchedule asks about *)
(* the window at every time of its clock, RemoteSync about the delay after  *)
(* every poll.                                                              *)
(***************************************************************************)
EXTENDS Integers, Sequences, FiniteSetsExt

-----------------------------------------------------------------------------
(* Versions: the numbers in their text.                                     *)

(* A number that is not there counts as zero. *)
Part(version, i) == IF i \in DOMAIN version THEN version[i] ELSE 0

IsNewerVersion(candidate, current) ==
    \E i \in DOMAIN candidate \cup DOMAIN current :
        /\ Part(candidate, i) > Part(current, i)
        /\ \A j \in 1 .. i - 1 : Part(candidate, j) = Part(current, j)

(* Versions are ordered like numbers, with texts that differ in trailing
   zeros only as equals: two are never newer than each other, and whatever is
   newer than an old one is newer than, or as old as, any third.  AutoUpdate
   counts on it where it takes versions for numbers
   (auto_update_logic.cpp:46-60). *)
VersionsAreOrdered(releases) ==
    \A a, b, c \in releases : IsNewerVersion(a, c) =>
        /\ ~IsNewerVersion(c, a)
        /\ IsNewerVersion(a, b) \/ IsNewerVersion(b, c)

-----------------------------------------------------------------------------
(* The maintenance window, in minutes of the day.                           *)

(* Slip: a window over midnight is taken for one within a day. *)
InUpdateWindowSameDay(start, end, cur) ==
    IF start = end THEN cur = start ELSE cur >= start /\ cur < end

InUpdateWindow(start, end, cur) ==
    \/ start < end /\ cur >= start /\ cur < end
    \/ start > end /\ (cur >= start \/ cur < end)
    \/ start = end /\ cur = start

-----------------------------------------------------------------------------
(* The next poll, in seconds; random is what rand() adds.                   *)

(* Slip: the delay keeps doubling. *)
PollDelayUncapped(base, random, cap, failures) ==
    LET backoff == base * 2 ^ Min({failures, 20}) IN
    IF failures > 0 THEN Max({base + random, backoff}) ELSE base + random

PollDelay(base, random, cap, failures) ==
    LET backoff == Min({base * 2 ^ Min({failures, 20}), cap}) IN
    IF failures > 0 THEN Max({base + random, backoff}) ELSE base + random
=============================================================================
