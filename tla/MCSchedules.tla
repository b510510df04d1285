----------------------------- MODULE MCSchedules -----------------------------
(* Instances of RefreshSchedule for TLC: a day of three hours of two minutes of
   two milliseconds.  TLC evaluates the assumption about versions as well. *)
EXTENDS RefreshSchedule

At(hour, minute) == [h |-> hour, m |-> minute]
Never == At(4, 0)  \* a token that is no time

(* No list; a list out of order, with a double; midnight written as 24:00; a
   single time; a list that ends badly. *)
MCTexts ==
    {<<>>, <<At(1, 1), At(0, 1), At(1, 1)>>, <<At(3, 0), At(1, 0)>>, <<At(2, 1)>>,
     <<At(2, 0), Never>>}

(* Versions of up to two parts. *)
MCReleases == UNION {[1 .. n -> 0 .. 2] : n \in 0 .. 2}
ASSUME MCVersionsAssumption == VersionsAreOrdered(MCReleases)
=============================================================================
