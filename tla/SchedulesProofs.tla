--------------------------- MODULE SchedulesProofs ---------------------------
(***************************************************************************)
(* That versions are ordered and the maintenance window is an arc, and that *)
(* the daily refresh keeps to its slots, for every length of a day and of a *)
(* minute, every list and every version.                                    *)
(***************************************************************************)
EXTENDS RefreshSchedule, LeastNumber, FiniteSetTheorems

-----------------------------------------------------------------------------
(* Versions.                                                                *)

(* A part is a number, the ones that are not there as well. *)
LEMMA PartNat ==
    ASSUME NEW v \in Seq(Nat), NEW i \in Nat PROVE Part(v, i) \in Nat
  BY DEF Part

(* Of two versions that differ somewhere, one is newer. *)
LEMMA FirstDifference ==
    ASSUME NEW a \in Seq(Nat), NEW b \in Seq(Nat), NEW i \in Nat \ {0},
           Part(a, i) # Part(b, i)
    PROVE  \E m \in 1 .. i : /\ Part(a, m) # Part(b, m)
                             /\ \A j \in 1 .. m - 1 : Part(a, j) = Part(b, j)
  <1> DEFINE D == {j \in 1 .. i : Part(a, j) # Part(b, j)}
  <1>1. D \subseteq Nat /\ D # {}  OBVIOUS
  <1>2. PICK m \in D : \A k \in D : m <= k  BY <1>1, HasMinimum
  <1> QED  BY <1>2

(* A greater part behind equal ones makes a version newer. *)
LEMMA NewerByPart ==
    ASSUME NEW a \in Seq(Nat), NEW b \in Seq(Nat), NEW i \in Nat \ {0},
           Part(a, i) > Part(b, i), \A j \in 1 .. i - 1 : Part(a, j) = Part(b, j)
    PROVE  IsNewerVersion(a, b)
  <1>1. Part(b, i) \in Nat  BY PartNat
  <1>2. i \in DOMAIN a  BY <1>1 DEF Part
  <1> QED  BY <1>2 DEF IsNewerVersion

(* IsNewerVersion orders all versions like numbers, for texts of any length
   (auto_update_logic.cpp:46-60). *)
THEOREM VersionOrder ==
    ASSUME NEW releases, releases \subseteq Seq(Nat)
    PROVE  VersionsAreOrdered(releases)
  <1> SUFFICES ASSUME NEW a \in Seq(Nat), NEW b \in Seq(Nat), NEW c \in Seq(Nat),
                      IsNewerVersion(a, c)
               PROVE  /\ ~IsNewerVersion(c, a)
                      /\ IsNewerVersion(a, b) \/ IsNewerVersion(b, c)
    BY DEF VersionsAreOrdered
  <1>1. PICK i \in DOMAIN a \cup DOMAIN c :
           Part(a, i) > Part(c, i) /\ \A j \in 1 .. i - 1 : Part(a, j) = Part(c, j)
    BY DEF IsNewerVersion
  <1>2. i \in Nat \ {0}  OBVIOUS
  <1>3. ~IsNewerVersion(c, a)
    <2> SUFFICES ASSUME NEW k \in DOMAIN a \cup DOMAIN c, Part(c, k) > Part(a, k),
                        \A j \in 1 .. k - 1 : Part(c, j) = Part(a, j)
                 PROVE  FALSE
      BY DEF IsNewerVersion
    <2>1. k \in Nat \ {0}  OBVIOUS
    <2>2. \A j \in Nat : Part(a, j) \in Nat /\ Part(c, j) \in Nat  BY PartNat
    <2>3. CASE k < i  BY <1>1, <1>2, <2>1, <2>2, <2>3
    <2>4. CASE k = i  BY <1>1, <1>2, <2>2, <2>4
    <2>5. CASE k > i
      <3>1. i \in 1 .. k - 1  BY <1>2, <2>1, <2>5
      <3>2. Part(c, i) = Part(a, i)  BY <3>1
      <3> QED  BY <1>1, <1>2, <2>2, <3>2
    <2> QED  BY <1>2, <2>1, <2>3, <2>4, <2>5
  <1>4. IsNewerVersion(a, b) \/ IsNewerVersion(b, c)
    <2>1. \A j \in Nat : Part(a, j) \in Nat /\ Part(b, j) \in Nat /\ Part(c, j) \in Nat
      BY PartNat
    <2>2. CASE \A j \in 1 .. i : Part(a, j) = Part(b, j)
      <3>1. Part(b, i) > Part(c, i) /\ \A j \in 1 .. i - 1 : Part(b, j) = Part(c, j)
        BY <1>1, <1>2, <2>2
      <3> QED  BY <3>1, <1>2, NewerByPart
    <2>3. CASE \E j \in 1 .. i : Part(a, j) # Part(b, j)
      <3>1. PICK k \in 1 .. i : Part(a, k) # Part(b, k)  BY <2>3
      <3>2. PICK m \in 1 .. k : Part(a, m) # Part(b, m)
                                /\ \A j \in 1 .. m - 1 : Part(a, j) = Part(b, j)
        BY <3>1, <1>2, FirstDifference
      <3>3. m \in Nat \ {0} /\ m <= i  BY <3>1, <3>2, <1>2
      <3>4. CASE Part(a, m) > Part(b, m)  BY <3>2, <3>3, <3>4, NewerByPart
      <3>5. CASE Part(b, m) > Part(a, m)
        <4>1. \A j \in 1 .. m - 1 : Part(b, j) = Part(c, j)  BY <1>1, <1>2, <3>2, <3>3
        <4>2. Part(a, m) >= Part(c, m)
          <5>1. CASE m = i  BY <1>1, <1>2, <2>1, <5>1
          <5>2. CASE m < i
            <6>1. m \in 1 .. i - 1  BY <1>2, <3>3, <5>2
            <6> QED  BY <1>1, <2>1, <3>3, <6>1
          <5> QED  BY <1>2, <3>3, <5>1, <5>2
        <4>3. Part(b, m) > Part(c, m)  BY <2>1, <3>3, <3>5, <4>2
        <4> QED  BY <3>3, <4>1, <4>3, NewerByPart
      <3> QED  BY <2>1, <3>2, <3>3, <3>4, <3>5
    <2> QED  BY <2>2, <2>3
  <1> QED  BY <1>3, <1>4
-----------------------------------------------------------------------------
(* RefreshSchedule.                                                         *)

(* A day has some length. *)
LEMMA DayIsPositive == Day \in Nat \ {0} /\ DayMs \in Nat \ {0}
  <1>1. \A a, b \in Nat \ {0} : a * b \in Nat \ {0}  OBVIOUS
  <1>2. Day \in Nat \ {0}  BY <1>1, ClockAssumption DEF Day
  <1> QED  BY <1>1, <1>2, ClockAssumption DEF DayMs

(* A slot is a time of the day. *)
LEMMA SlotInDay ==
    ASSUME NEW s \in 0 .. Day - 1
    PROVE  s * Minute \in 0 .. DayMs - Minute
  <1>1. Day \in Nat \ {0} /\ Minute \in Nat \ {0} /\ DayMs = Day * Minute
    BY DayIsPositive, ClockAssumption DEF DayMs
  <1>2. s * Minute >= 0  BY <1>1
  <1>3. s * Minute <= (Day - 1) * Minute  BY <1>1
  <1>4. (Day - 1) * Minute = Day * Minute - Minute  BY <1>1
  <1> QED  BY <1>1, <1>2, <1>3, <1>4

(* The local time as MsUntilNext reads it. *)
LEMMA ClockParts ==
    ASSUME NEW t \in 0 .. DayMs - 1
    PROVE  /\ t \div Minute \in 0 .. Day - 1
           /\ t % Minute \in 0 .. Minute - 1
           /\ t = (t \div Minute) * Minute + (t % Minute)
  <1>1. Day \in Nat \ {0} /\ Minute \in Nat \ {0} /\ DayMs = Day * Minute
    BY DayIsPositive, ClockAssumption DEF DayMs
  <1>2. t \in Nat /\ t < Day * Minute  BY <1>1
  <1>3. t % Minute \in 0 .. Minute - 1 /\ t \div Minute \in Int
    BY <1>1, <1>2
  <1>4. t = (t \div Minute) * Minute + (t % Minute)  BY <1>1, <1>2
  <1>5. t \div Minute >= 0
    <2> SUFFICES ASSUME t \div Minute <= -1 PROVE FALSE  BY <1>3
    <2>1. (t \div Minute) * Minute <= (-1) * Minute  BY <1>1, <1>3
    <2> QED  BY <1>1, <1>2, <1>3, <1>4, <2>1
  <1>6. t \div Minute < Day
    <2> SUFFICES ASSUME t \div Minute >= Day PROVE FALSE  BY <1>1, <1>3
    <2>1. (t \div Minute) * Minute >= Day * Minute  BY <1>1, <1>3
    <2> QED  BY <1>1, <1>2, <1>3, <1>4, <2>1
  <1> QED  BY <1>1, <1>3, <1>4, <1>5, <1>6

(* Comparing minutes is comparing milliseconds. *)
LEMMA SlotAfter ==
    ASSUME NEW s \in 0 .. Day - 1, NEW now \in 0 .. Day - 1, NEW ms \in 0 .. Minute - 1
    PROVE  s > now <=> s * Minute > now * Minute + ms
  <1>1. Minute \in Nat \ {0} /\ Day \in Nat  BY ClockAssumption, DayIsPositive
  <1>2. CASE s > now
    <2>1. s * Minute >= (now + 1) * Minute  BY <1>1, <1>2
    <2>2. (now + 1) * Minute = now * Minute + Minute  BY <1>1
    <2> QED  BY <1>1, <1>2, <2>1, <2>2
  <1>3. CASE s <= now
    <2>1. s * Minute <= now * Minute  BY <1>1, <1>3
    <2> QED  BY <1>1, <1>3, <2>1
  <1> QED  BY <1>1, <1>2, <1>3

(* NextSlot finds the first slot after this minute, if there is one. *)
LEMMA NextSlotIsFirst ==
    ASSUME NEW mins \in Seq(0 .. Day - 1), NEW now \in 0 .. Day - 1
    PROVE  LET i == NextSlot(mins, now) IN
           \/ i = 0 /\ \A j \in DOMAIN mins : mins[j] <= now
           \/ /\ i \in DOMAIN mins /\ mins[i] > now
              /\ \A j \in DOMAIN mins : mins[j] > now => i <= j
  <1> DEFINE later == {i \in DOMAIN mins : mins[i] > now}
  <1>1. Day \in Nat \ {0}  BY DayIsPositive
  <1>2. CASE later = {}
    <2>1. NextSlot(mins, now) = 0  BY <1>2 DEF NextSlot
    <2>2. \A j \in DOMAIN mins : mins[j] <= now  BY <1>1, <1>2
    <2> QED  BY <2>1, <2>2
  <1>3. CASE later # {}
    <2>0. later \subseteq Nat  OBVIOUS
    <2>1. \E m \in later : \A k \in later : m <= k
      <3> HIDE DEF later
      <3> QED  BY <1>3, <2>0, HasMinimum
    <2>2. NextSlot(mins, now) = CHOOSE i \in later : \A j \in later : i <= j
      BY <1>3 DEF NextSlot
    <2> HIDE DEF later
    <2>3. NextSlot(mins, now) \in later /\ \A j \in later : NextSlot(mins, now) <= j
      BY <2>1, <2>2
    <2> QED  BY <2>3 DEF later
  <1> QED  BY <1>2, <1>3

(* What MsUntilNextAt returns at t: the time to the first slot of the list
   after t, or, when there is none, to the first slot of the list tomorrow. *)
LEMMA MsValue ==
    ASSUME NEW mins \in Seq(0 .. Day - 1), mins # <<>>, NEW t \in 0 .. DayMs - 1
    PROVE  LET ms == MsUntilNextAt(mins, t \div Minute, t % Minute) IN
           \/ /\ \A j \in DOMAIN mins : mins[j] * Minute <= t
              /\ ms = mins[1] * Minute + DayMs - t
           \/ \E i \in DOMAIN mins :
                 /\ mins[i] * Minute > t /\ ms = mins[i] * Minute - t
                 /\ \A j \in DOMAIN mins : mins[j] * Minute > t => i <= j
  <1>2. \A j \in DOMAIN mins : mins[j] \in 0 .. Day - 1  BY DayIsPositive
  <1>3. 1 \in DOMAIN mins  OBVIOUS
  <1> DEFINE now == t \div Minute
             r == t % Minute
             i == NextSlot(mins, now)
  <1>1. now \in 0 .. Day - 1 /\ r \in 0 .. Minute - 1 /\ t = now * Minute + r
    BY ClockParts
  <1>4. Day \in Nat \ {0} /\ DayMs \in Nat \ {0} /\ Minute \in Nat \ {0} /\ DayMs = Day * Minute
    BY DayIsPositive, ClockAssumption DEF DayMs
  <1>5. \A j \in DOMAIN mins : mins[j] * Minute \in 0 .. DayMs - Minute  BY <1>2, SlotInDay
  <1> HIDE DEF now, r
  <1>6. \A j \in DOMAIN mins : mins[j] > now <=> mins[j] * Minute > t
    BY <1>1, <1>2, SlotAfter
  <1>7. \/ i = 0 /\ \A j \in DOMAIN mins : mins[j] <= now
        \/ /\ i \in DOMAIN mins /\ mins[i] > now
           /\ \A j \in DOMAIN mins : mins[j] > now => i <= j
    BY <1>1, NextSlotIsFirst
  <1> HIDE DEF i
  <1>8. CASE i = 0 /\ \A j \in DOMAIN mins : mins[j] <= now
    <2>1. \A j \in DOMAIN mins : mins[j] * Minute <= t
      BY <1>1, <1>2, <1>4, <1>5, <1>6, <1>8
    <2>2. (mins[1] + Day - now) * Minute - r = mins[1] * Minute + DayMs - t
      <3>1. \A a, d, n, m \in Int : (a + d - n) * m = a * m + d * m - n * m  OBVIOUS
      <3>2. mins[1] \in Int /\ Day \in Int /\ now \in Int /\ Minute \in Int
        BY <1>1, <1>2, <1>3, <1>4
      <3>3. (mins[1] + Day - now) * Minute = mins[1] * Minute + Day * Minute - now * Minute
        BY <3>1, <3>2
      <3> QED  BY <1>1, <1>3, <1>4, <1>5, <3>2, <3>3
    <2>3. mins[1] * Minute + DayMs - t > 0  BY <1>3, <1>4, <1>5
    <2>4. MsUntilNextAt(mins, now, r) = mins[1] * Minute + DayMs - t
      BY <1>3, <1>4, <1>5, <1>8, <2>2, <2>3 DEF MsUntilNextAt, i
    <2> QED  BY <2>1, <2>4 DEF now, r
  <1>9. CASE /\ i \in DOMAIN mins /\ mins[i] > now
             /\ \A j \in DOMAIN mins : mins[j] > now => i <= j
    <2>1. mins[i] * Minute > t /\ \A j \in DOMAIN mins : mins[j] * Minute > t => i <= j
      BY <1>6, <1>9
    <2>2. (mins[i] - now) * Minute - r = mins[i] * Minute - t
      BY <1>1, <1>2, <1>4, <1>9
    <2>3. mins[i] * Minute - t > 0  BY <1>5, <1>9, <2>1
    <2>4. i # 0  BY <1>9
    <2>5. MsUntilNextAt(mins, now, r) = mins[i] * Minute - t
      BY <1>5, <1>9, <2>2, <2>3, <2>4 DEF MsUntilNextAt, i
    <2> QED  BY <1>9, <2>1, <2>5 DEF now, r
  <1> QED  BY <1>7, <1>8, <1>9

(* A timer set to MsUntilNext at t, the list being in good order, expires at a
   slot, and no slot lies before. *)
LEMMA MsLands ==
    ASSUME NEW mins \in Seq(0 .. Day - 1), mins # <<>>, Sorted(mins), NEW t \in 0 .. DayMs - 1
    PROVE  LET ms == MsUntilNextAt(mins, t \div Minute, t % Minute)
               lat(d) == IF t + d >= DayMs THEN t + d - DayMs ELSE t + d IN
           /\ ms \in 1 .. DayMs
           /\ \E i \in DOMAIN mins : lat(ms) = mins[i] * Minute
           /\ \A d \in 1 .. ms - 1 : ~ \E i \in DOMAIN mins : lat(d) = mins[i] * Minute
  <1> DEFINE ms == MsUntilNextAt(mins, t \div Minute, t % Minute)
             lat(d) == IF t + d >= DayMs THEN t + d - DayMs ELSE t + d
             slot(i) == mins[i] * Minute
  <1>1. \A i \in DOMAIN mins : mins[i] \in 0 .. Day - 1  BY DayIsPositive
  <1>2. DayMs \in Nat \ {0} /\ Minute \in Nat \ {0}  BY DayIsPositive, ClockAssumption
  <1>3. \A i \in DOMAIN mins : slot(i) \in 0 .. DayMs - 1
    BY <1>1, <1>2, SlotInDay
  <1>4. \A i, j \in DOMAIN mins : i <= j => slot(i) <= slot(j)
    <2> SUFFICES ASSUME NEW i \in DOMAIN mins, NEW j \in DOMAIN mins, i <= j
                 PROVE  slot(i) <= slot(j)
      OBVIOUS
    <2>1. mins[i] <= mins[j]  BY <1>1 DEF Sorted
    <2>2. \A x, y \in Nat : x <= y => x * Minute <= y * Minute  BY <1>2
    <2> QED  BY <1>1, <2>1, <2>2
  <1>5. \/ (\A j \in DOMAIN mins : slot(j) <= t) /\ ms = slot(1) + DayMs - t
        \/ \E i \in DOMAIN mins :
              /\ slot(i) > t /\ ms = slot(i) - t
              /\ \A j \in DOMAIN mins : slot(j) > t => i <= j
    BY MsValue
  <1>6. 1 \in DOMAIN mins /\ \A j \in DOMAIN mins : 1 <= j  OBVIOUS
  <1> HIDE DEF ms, slot
  <1>7. CASE (\A j \in DOMAIN mins : slot(j) <= t) /\ ms = slot(1) + DayMs - t
    <2>1. ms \in 1 .. DayMs /\ lat(ms) = slot(1)  BY <1>2, <1>3, <1>6, <1>7
    <2>2. ASSUME NEW d \in 1 .. ms - 1, NEW j \in DOMAIN mins PROVE lat(d) # slot(j)
      <3>1. slot(1) <= slot(j) /\ slot(j) <= t  BY <1>4, <1>6, <1>7
      <3>2. slot(1) \in Nat /\ slot(j) \in Nat /\ d \in Nat /\ t \in Nat /\ DayMs \in Nat
        BY <1>2, <1>3, <1>6, <2>1
      <3>3. t + d < slot(1) + DayMs /\ d >= 1  BY <1>7, <2>1, <3>2
      <3>4. CASE t + d >= DayMs  BY <3>1, <3>2, <3>3, <3>4
      <3>5. CASE t + d < DayMs  BY <3>1, <3>2, <3>3, <3>5
      <3> QED  BY <3>2, <3>4, <3>5
    <2> QED  BY <1>6, <2>1, <2>2 DEF ms, slot
  <1>8. ASSUME NEW i \in DOMAIN mins, slot(i) > t, ms = slot(i) - t,
               \A j \in DOMAIN mins : slot(j) > t => i <= j
        PROVE  /\ ms \in 1 .. DayMs /\ lat(ms) = slot(i)
               /\ \A d \in 1 .. ms - 1, j \in DOMAIN mins : lat(d) # slot(j)
    <2>1. ms \in 1 .. DayMs /\ lat(ms) = slot(i)  BY <1>2, <1>3, <1>8
    <2>2. ASSUME NEW d \in 1 .. ms - 1, NEW j \in DOMAIN mins PROVE lat(d) # slot(j)
      <3>1. slot(j) > t => slot(i) <= slot(j)  BY <1>4, <1>8
      <3> QED  BY <1>2, <1>3, <1>8, <2>1, <3>1
    <2> QED  BY <2>1, <2>2
  <1> QED  BY <1>5, <1>7, <1>8 DEF ms, slot

-----------------------------------------------------------------------------
(* Sorting.                                                                 *)

Before(S, m) == {k \in S : k < m}

(* What lies before a member, and how much of it there is. *)
LEMMA BeforeFinite ==
    ASSUME NEW S \in SUBSET Nat, IsFiniteSet(S), NEW m \in S
    PROVE  /\ IsFiniteSet(Before(S, m)) /\ Cardinality(Before(S, m)) \in Nat
           /\ Cardinality(Before(S, m)) < Cardinality(S)
  <1>1. Before(S, m) \in SUBSET S /\ Before(S, m) # S  BY DEF Before
  <1>2. IsFiniteSet(Before(S, m)) /\ Cardinality(Before(S, m)) <= Cardinality(S)
    BY <1>1, FS_Subset
  <1>3. Cardinality(Before(S, m)) # Cardinality(S)  BY <1>1, FS_Subset
  <1>4. Cardinality(Before(S, m)) \in Nat /\ Cardinality(S) \in Nat
    BY <1>2, FS_CardinalityType
  <1> QED  BY <1>2, <1>3, <1>4

(* A greater member has more before it. *)
LEMMA BeforeGrows ==
    ASSUME NEW S \in SUBSET Nat, IsFiniteSet(S), NEW a \in S, NEW b \in S, a < b
    PROVE  Cardinality(Before(S, a)) < Cardinality(Before(S, b))
  <1>1. Before(S, a) \in SUBSET Before(S, b) /\ Before(S, a) # Before(S, b)
    <2>1. a \in Before(S, b) /\ a \notin Before(S, a)  BY DEF Before
    <2>2. Before(S, a) \subseteq Before(S, b)
      <3> SUFFICES ASSUME NEW k \in S, k < a PROVE k < b  BY DEF Before
      <3> QED  OBVIOUS
    <2> QED  BY <2>1, <2>2
  <1>2. /\ IsFiniteSet(Before(S, b))
        /\ Cardinality(Before(S, a)) \in Nat /\ Cardinality(Before(S, b)) \in Nat
    BY BeforeFinite
  <1>3. /\ Cardinality(Before(S, a)) <= Cardinality(Before(S, b))
        /\ Cardinality(Before(S, b)) # Cardinality(Before(S, a))
    BY <1>1, <1>2, FS_Subset
  <1> QED  BY <1>2, <1>3

(* Every place of the order is taken. *)
LEMMA PlaceTaken ==
    ASSUME NEW S \in SUBSET Nat, IsFiniteSet(S), NEW i \in 1 .. Cardinality(S)
    PROVE  \E m \in S : Cardinality(Before(S, m)) = i - 1
  <1> DEFINE Taken(j) == \E m \in S : Cardinality(Before(S, m)) = j - 1
             free == {j \in 1 .. Cardinality(S) : ~Taken(j)}
  <1>0. Cardinality(S) \in Nat  BY FS_CardinalityType
  <1> SUFFICES ASSUME free # {} PROVE FALSE  BY DEF Taken
  <1>1. PICK b \in free : \A j \in free : b <= j
    <2>1. free \subseteq Nat  BY <1>0
    <2> HIDE DEF free
    <2> QED  BY <2>1, HasMinimum
  <1>2. b \in 1 .. Cardinality(S) /\ ~Taken(b)  OBVIOUS
  <1>3. b > 1 => Taken(b - 1)  BY <1>0, <1>1
  <1> HIDE DEF free
  <1>4. CASE b = 1
    <2>1. S # {}  BY <1>0, <1>2, FS_EmptySet
    <2>2. PICK m \in S : \A k \in S : m <= k  BY <2>1, HasMinimum
    <2>3. Before(S, m) = {}
      <3>1. \A k \in S : ~(k < m)  BY <2>2
      <3> QED  BY <3>1 DEF Before
    <2> QED  BY <1>2, <1>4, <2>2, <2>3, FS_EmptySet
  <1>5. CASE b > 1
    <2>1. PICK m \in S : Cardinality(Before(S, m)) = b - 2  BY <1>2, <1>3, <1>5
    <2>2. /\ IsFiniteSet(Before(S, m) \cup {m})
          /\ Cardinality(Before(S, m) \cup {m}) = b - 1
      <3>1. m \notin Before(S, m)  BY DEF Before
      <3>2. IsFiniteSet(Before(S, m))  BY BeforeFinite
      <3> QED  BY <1>2, <2>1, <3>1, <3>2, FS_AddElement
    <2> DEFINE after == {k \in S : k > m}
    <2>3. CASE after = {}
      <3>1. S = Before(S, m) \cup {m}
        <4>1. \A k \in S : ~(k > m)  BY <2>3
        <4>2. \A k \in S : k < m \/ k = m
          <5>1. \A k \in S : k \in Nat  OBVIOUS
          <5> QED  BY <2>1, <4>1, <5>1
        <4> QED  BY <4>2 DEF Before
      <3> QED  BY <1>2, <2>2, <3>1
    <2>4. CASE after # {}
      <3>1. PICK n \in after : \A k \in after : n <= k
        <4>1. after \subseteq Nat  OBVIOUS
        <4> HIDE DEF after
        <4> QED  BY <2>4, <4>1, HasMinimum
      <3>2. Before(S, n) = Before(S, m) \cup {m}
        <4>1. ASSUME NEW k \in S PROVE k < n <=> k < m \/ k = m  BY <3>1
        <4> QED  BY <4>1 DEF Before
      <3> QED  BY <1>2, <2>2, <3>2
    <2> QED  BY <2>3, <2>4
  <1> QED  BY <1>2, <1>4, <1>5

(* InOrder sorts a set of numbers, loses none and adds none. *)
LEMMA InOrderSorts ==
    ASSUME NEW S \in SUBSET Nat, IsFiniteSet(S)
    PROVE  /\ InOrder(S) \in Seq(S) /\ Sorted(InOrder(S))
           /\ \A m \in S : \E i \in DOMAIN InOrder(S) : InOrder(S)[i] = m
  <1>0. Cardinality(S) \in Nat  BY FS_CardinalityType
  <1>1. DOMAIN InOrder(S) = 1 .. Cardinality(S)  BY DEF InOrder
  <1>2. ASSUME NEW i \in 1 .. Cardinality(S)
        PROVE  InOrder(S)[i] \in S /\ Cardinality(Before(S, InOrder(S)[i])) = i - 1
    <2>1. InOrder(S)[i] = CHOOSE m \in S : Cardinality(Before(S, m)) = i - 1
      BY DEF InOrder, Before
    <2> QED  BY <2>1, PlaceTaken
  <1>3. InOrder(S) \in [1 .. Cardinality(S) -> S]  BY <1>2 DEF InOrder
  <1>4. InOrder(S) \in Seq(S)  BY <1>0, <1>3
  <1>5. Sorted(InOrder(S))
    <2> SUFFICES ASSUME NEW i \in 1 .. Cardinality(S), NEW j \in 1 .. Cardinality(S), i < j,
                        ~(InOrder(S)[i] < InOrder(S)[j])
                 PROVE  FALSE
      BY <1>1 DEF Sorted
    <2> DEFINE a == InOrder(S)[i]
               b == InOrder(S)[j]
    <2>1. /\ a \in S /\ b \in S /\ a \in Nat /\ b \in Nat /\ ~(a < b)
          /\ Cardinality(Before(S, a)) = i - 1 /\ Cardinality(Before(S, b)) = j - 1
      BY <1>2
    <2> HIDE DEF a, b
    <2>2. CASE a = b  BY <2>1, <2>2
    <2>3. CASE b < a
      <3>1. Cardinality(Before(S, b)) < Cardinality(Before(S, a))  BY <2>1, <2>3, BeforeGrows
      <3> QED  BY <2>1, <3>1
    <2> QED  BY <2>1, <2>2, <2>3
  <1>6. ASSUME NEW m \in S PROVE \E i \in 1 .. Cardinality(S) : InOrder(S)[i] = m
    <2> DEFINE i == Cardinality(Before(S, m)) + 1
    <2>1. i \in 1 .. Cardinality(S) /\ Cardinality(Before(S, m)) = i - 1
      BY <1>0, BeforeFinite
    <2> HIDE DEF i
    <2>2. InOrder(S)[i] \in S /\ Cardinality(Before(S, InOrder(S)[i])) = i - 1
      BY <1>2, <2>1
    <2> DEFINE n == InOrder(S)[i]
    <2>3. n \in S /\ Cardinality(Before(S, n)) = Cardinality(Before(S, m))  BY <2>1, <2>2
    <2> HIDE DEF n
    <2>4. Cardinality(Before(S, m)) \in Nat  BY BeforeFinite
    <2>5. ~(n < m)
      <3> SUFFICES ASSUME n < m PROVE FALSE  OBVIOUS
      <3>1. Cardinality(Before(S, n)) < Cardinality(Before(S, m))  BY <2>3, BeforeGrows
      <3> QED  BY <2>3, <2>4, <3>1
    <2>6. ~(m < n)
      <3> SUFFICES ASSUME m < n PROVE FALSE  OBVIOUS
      <3>1. Cardinality(Before(S, m)) < Cardinality(Before(S, n))  BY <2>3, BeforeGrows
      <3> QED  BY <2>3, <2>4, <3>1
    <2>7. n = m  BY <2>3, <2>5, <2>6
    <2> QED  BY <2>1, <2>7 DEF n
  <1> QED  BY <1>1, <1>4, <1>5, <1>6

-----------------------------------------------------------------------------
(* ParseTimes.                                                              *)

(* A token that is accepted is a minute of the day. *)
LEMMA TokenInDay ==
    ASSUME NEW t \in [h : Nat, m : Nat], IsTime(t)
    PROVE  MinuteOfDay(t) \in 0 .. Day - 1
  <1>1. t.h \in Nat /\ t.m \in Nat  OBVIOUS
  <1>2. Hours \in Nat \ {0} /\ HourMinutes \in Nat \ {0} /\ Day \in Nat \ {0}
    BY ClockAssumption, DayIsPositive
  <1>3. CASE t.h = Hours  BY <1>2, <1>3 DEF MinuteOfDay
  <1>4. CASE t.h # Hours
    <2>1. t.h + 1 <= Hours /\ t.m < HourMinutes  BY <1>1, <1>2, <1>4 DEF IsTime
    <2>2. (t.h + 1) * HourMinutes <= Hours * HourMinutes  BY <1>1, <1>2, <2>1
    <2>3. (t.h + 1) * HourMinutes = t.h * HourMinutes + HourMinutes  BY <1>1, <1>2
    <2>4. t.h * HourMinutes \in Nat  BY <1>1, <1>2
    <2>5. MinuteOfDay(t) = t.h * HourMinutes + t.m  BY <1>4 DEF MinuteOfDay
    <2> HIDE DEF MinuteOfDay
    <2> QED  BY <1>1, <1>2, <2>1, <2>2, <2>3, <2>4, <2>5 DEF Day
  <1> QED  BY <1>3, <1>4

(* The tokens before the first refused one are a beginning of the list. *)
LEMMA LeadingIsPrefix ==
    ASSUME NEW text \in Seq([h : Nat, m : Nat])
    PROVE  /\ Cardinality(Leading(text)) \in Nat
           /\ Leading(text) = 1 .. Cardinality(Leading(text))
           /\ \A i \in Leading(text) : i \in DOMAIN text /\ IsTime(text[i])
  <1>1. Len(text) \in Nat /\ DOMAIN text = 1 .. Len(text)  OBVIOUS
  <1> DEFINE refused == {i \in DOMAIN text : ~IsTime(text[i])}
  <1>2. \A i \in Leading(text) : i \in DOMAIN text /\ IsTime(text[i])
    BY <1>1 DEF Leading
  <1>3. \E n \in Nat : Leading(text) = 1 .. n
    <2>1. CASE refused = {}
      <3>1. Leading(text) = 1 .. Len(text)
        <4>0. \A i \in DOMAIN text : IsTime(text[i])  BY <2>1
        <4>1. \A i \in DOMAIN text : \A j \in 1 .. i : IsTime(text[j])
          <5>1. \A i \in DOMAIN text : \A j \in 1 .. i : j \in DOMAIN text  BY <1>1
          <5> QED  BY <4>0, <5>1
        <4> QED  BY <1>1, <4>1 DEF Leading
      <3> QED  BY <1>1, <3>1
    <2>2. CASE refused # {}
      <3>1. PICK b \in refused : \A k \in refused : b <= k
        <4>1. refused \subseteq Nat  BY <1>1
        <4> HIDE DEF refused
        <4> QED  BY <2>2, <4>1, HasMinimum
      <3>2. b \in 1 .. Len(text) /\ ~IsTime(text[b])  BY <1>1
      <3>3. \A j \in 1 .. b - 1 : IsTime(text[j])
        <4>1. \A j \in 1 .. b - 1 : j \in DOMAIN text /\ ~(b <= j)  BY <1>1, <3>2
        <4>2. \A j \in 1 .. b - 1 : j \notin refused
          <5> HIDE DEF refused
          <5> QED  BY <3>1, <4>1
        <4> QED  BY <4>1, <4>2
      <3>4. Leading(text) = 1 .. b - 1
        <4>1. ASSUME NEW i \in 1 .. Len(text)
              PROVE  (\A j \in 1 .. i : IsTime(text[j])) <=> i < b
          <5>1. CASE i < b  BY <1>1, <3>2, <3>3, <5>1
          <5>2. CASE i >= b
            <6>1. b \in 1 .. i  BY <1>1, <3>2, <5>2
            <6> QED  BY <1>1, <3>2, <5>2, <6>1
          <5> QED  BY <1>1, <3>2, <5>1, <5>2
        <4>2. Leading(text) = {i \in 1 .. Len(text) : i < b}  BY <1>1, <4>1 DEF Leading
        <4> QED  BY <1>1, <3>2, <4>2
      <3> QED  BY <1>1, <3>2, <3>4
    <2> QED  BY <2>1, <2>2
  <1>4. PICK n \in Nat : Leading(text) = 1 .. n  BY <1>3
  <1>5. Cardinality(Leading(text)) = n
    <2>1. Cardinality(1 .. n) = IF 1 > n THEN 0 ELSE n - 1 + 1  BY <1>4, FS_Interval
    <2> QED  BY <1>4, <2>1
  <1> QED  BY <1>2, <1>4, <1>5

(* The members of a list of tokens. *)
LEMMA TokensOf ==
    ASSUME NEW text \in Seq([h : Nat, m : Nat]), NEW i \in DOMAIN text
    PROVE  text[i] \in [h : Nat, m : Nat]
  <1> DEFINE Tokens == [h : Nat, m : Nat]
  <1>1. text \in Seq(Tokens)  OBVIOUS
  <1> HIDE DEF Tokens
  <1>2. text[i] \in Tokens  BY <1>1
  <1> QED  BY <1>2 DEF Tokens

(* The minutes of a list are a finite set of minutes of the day. *)
LEMMA MinutesOfList ==
    ASSUME NEW text \in Seq([h : Nat, m : Nat]), Leading(text) = DOMAIN text
    PROVE  LET S == {MinuteOfDay(text[i]) : i \in DOMAIN text} IN
           IsFiniteSet(S) /\ S \in SUBSET (0 .. Day - 1)
  <1> DEFINE S == {MinuteOfDay(text[i]) : i \in DOMAIN text}
             f == [i \in DOMAIN text |-> MinuteOfDay(text[i])]
  <1>1. \A i \in DOMAIN text : text[i] \in [h : Nat, m : Nat] /\ IsTime(text[i])
    BY LeadingIsPrefix, TokensOf
  <1>2. S \in SUBSET (0 .. Day - 1)
    <2>1. \A i \in DOMAIN text : MinuteOfDay(text[i]) \in 0 .. Day - 1  BY <1>1, TokenInDay
    <2> QED  BY <2>1
  <1>3. f \in Surjection(DOMAIN text, S)  BY DEF Surjection
  <1>4. IsFiniteSet(DOMAIN text)
    <2>1. DOMAIN text = 1 .. Len(text) /\ Len(text) \in Int  OBVIOUS
    <2> QED  BY <2>1, FS_Interval
  <1>5. IsFiniteSet(S)
    <2> HIDE DEF f, S
    <2> QED  BY <1>3, <1>4, FS_Surjection
  <1> QED  BY <1>2, <1>5

(* The list of a text that parses is sorted, complete and within the day; what a
   refused one leaves is within the day as well. *)
LEMMA ParseTimesIs ==
    ASSUME NEW text \in Seq([h : Nat, m : Nat])
    PROVE  /\ ParseTimes(text).mins \in Seq(0 .. Day - 1)
           /\ ParseTimes(text).ok =>
                /\ Sorted(ParseTimes(text).mins)
                /\ \A i \in DOMAIN text : \E j \in DOMAIN ParseTimes(text).mins :
                      ParseTimes(text).mins[j] = MinuteOfDay(text[i])
  <1> DEFINE S == {MinuteOfDay(text[i]) : i \in DOMAIN text}
  <1>0. Day \in Nat \ {0}  BY DayIsPositive
  <1>1. CASE text # <<>> /\ Leading(text) = DOMAIN text
    <2>1. ParseTimes(text).mins = InOrder(S)  BY <1>1 DEF ParseTimes
    <2>2. IsFiniteSet(S) /\ S \in SUBSET (0 .. Day - 1)  BY <1>1, MinutesOfList
    <2>3. \A i \in DOMAIN text : MinuteOfDay(text[i]) \in S  OBVIOUS
    <2> HIDE DEF S
    <2>4. S \in SUBSET Nat  BY <1>0, <2>2
    <2>5. /\ InOrder(S) \in Seq(S) /\ Sorted(InOrder(S))
          /\ \A m \in S : \E j \in DOMAIN InOrder(S) : InOrder(S)[j] = m
      BY <2>2, <2>4, InOrderSorts
    <2>6. InOrder(S) \in Seq(0 .. Day - 1)
      <3> DEFINE Minutes == 0 .. Day - 1
      <3>1. S \in SUBSET Minutes  BY <2>2
      <3> HIDE DEF Minutes
      <3>2. InOrder(S) \in Seq(Minutes)  BY <2>5, <3>1
      <3> QED  BY <3>2 DEF Minutes
    <2> QED  BY <2>1, <2>3, <2>5, <2>6
  <1>2. CASE ~(text # <<>> /\ Leading(text) = DOMAIN text)
    <2> DEFINE n == Cardinality(Leading(text))
    <2>1. ParseTimes(text) = [ok |-> FALSE, mins |-> [i \in 1 .. n |-> MinuteOfDay(text[i])]]
      BY <1>2 DEF ParseTimes
    <2>2. n \in Nat  BY LeadingIsPrefix
    <2>3. \A i \in 1 .. n : text[i] \in [h : Nat, m : Nat] /\ IsTime(text[i])
      <3>1. \A i \in 1 .. n : i \in DOMAIN text /\ IsTime(text[i])  BY LeadingIsPrefix
      <3> QED  BY <3>1, TokensOf
    <2>4. \A i \in 1 .. n : MinuteOfDay(text[i]) \in 0 .. Day - 1  BY <2>3, TokenInDay
    <2> HIDE DEF n
    <2>5. [i \in 1 .. n |-> MinuteOfDay(text[i])] \in Seq(0 .. Day - 1)  BY <2>2, <2>4
    <2> QED  BY <2>1, <2>5
  <1> QED  BY <1>1, <1>2

(* The times in force are minutes of the day. *)
LEMMA RefreshTimesIs ==
    ASSUME NEW text \in Texts, NEW d \in DailyMins
    PROVE  /\ RefreshTimes(text, d) \in Seq(0 .. Day - 1)
           /\ ParseTimes(text).ok => RefreshTimes(text, d) = ParseTimes(text).mins
  <1>1. ParseTimes(text).mins \in Seq(0 .. Day - 1)
    BY ParseTimesIs, TextsAssumption
  <1>2. CASE ~ParseTimes(text).ok /\ d \in 0 .. Day - 1
    BY <1>1, <1>2 DEF RefreshTimes
  <1>3. CASE ~(~ParseTimes(text).ok /\ d \in 0 .. Day - 1)
    BY <1>1, <1>3 DEF RefreshTimes
  <1> QED  BY <1>2, <1>3

-----------------------------------------------------------------------------
(* The state machine.                                                       *)

(* The refresh in the order of its actions. *)
LEMMA InitIInv == Init => IInv
  <1> SUFFICES ASSUME Init PROVE IInv  OBVIOUS
  <1>1. DayMs \in Nat \ {0}  BY DayIsPositive
  <1>2. TimerOK  BY <1>1 DEF Init, TimerOK
  <1>3. clock \in 0 .. DayMs - 1 /\ mode = "off" /\ times = <<>>  BY DEF Init
  <1>4. times \in Seq(0 .. Day - 1)  BY <1>3
  <1>5. TypeOK  BY <1>2, <1>3, <1>4 DEF Init, TypeOK
  <1> QED  BY <1>3, <1>5 DEF IInv, AimsAtNextSlot, DueAtSlots, OnSchedule

(* Setting the timer to MsUntilNext aims it at the next slot. *)
LEMMA Armed ==
    ASSUME clock \in 0 .. DayMs - 1, clock' = clock, times' \in Seq(0 .. Day - 1), times' # <<>>,
           left' = MsUntilNextAt(times', clock \div Minute, clock % Minute)
    PROVE  /\ Sorted(times') => AimsAtNextSlot'
           /\ left' \in 1 .. DayMs
  <1>1. left' \in 1 .. DayMs
    <2>1. \A i \in DOMAIN times' : times'[i] \in 0 .. Day - 1  BY DayIsPositive
    <2>2. \A i \in DOMAIN times' : times'[i] * Minute \in 0 .. DayMs - Minute
      BY <2>1, SlotInDay
    <2>3. 1 \in DOMAIN times'  OBVIOUS
    <2>4. DayMs \in Nat \ {0} /\ Minute \in Nat \ {0}  BY DayIsPositive, ClockAssumption
    <2>5. \/ /\ \A j \in DOMAIN times' : times'[j] * Minute <= clock
             /\ left' = times'[1] * Minute + DayMs - clock
          \/ \E i \in DOMAIN times' : /\ times'[i] * Minute > clock
                                      /\ left' = times'[i] * Minute - clock
      BY MsValue
    <2> QED  BY <2>2, <2>3, <2>4, <2>5
  <1>2. ASSUME Sorted(times') PROVE AimsAtNextSlot'
    <2> DEFINE lat(d) == IF clock + d >= DayMs THEN clock + d - DayMs ELSE clock + d
    <2>1. /\ \E i \in DOMAIN times' : lat(left') = times'[i] * Minute
          /\ \A d \in 1 .. left' - 1 : ~ \E i \in DOMAIN times' : lat(d) = times'[i] * Minute
      BY <1>2, MsLands
    <2>2. \A d : Later(d)' = lat(d)  BY DEF Later
    <2> HIDE DEF lat
    <2> QED  BY <1>1, <2>1, <2>2 DEF AimsAtNextSlot, IsSlot
  <1> QED  BY <1>1, <1>2

(* Starting the refresh sets a timer that the invariant describes. *)
LEMMA StartStep == IInv /\ StartAutoRefresh => IInv'
  <1> SUFFICES ASSUME IInv, StartAutoRefresh PROVE IInv'  OBVIOUS
  <1>1. PICK m \in {"off", "interval", "daily"}, text \in Texts, d \in DailyMins,
             ms \in Intervals :
          /\ mode' = m /\ times' = RefreshTimes(text, d)
          /\ SetTimer(CASE m = "interval" -> ms
                        [] m = "daily" /\ times' # <<>> -> MsUntilNext(times')
                        [] OTHER -> 0)
          /\ steady' = TRUE /\ owed' = FALSE /\ clock' = clock
    BY DEF StartAutoRefresh
  <1>2. times' \in Seq(0 .. Day - 1)  BY <1>1, RefreshTimesIs
  <1>3. clock \in 0 .. DayMs - 1  BY DEF IInv, TypeOK
  <1>4. ms \in Nat /\ DayMs \in Nat \ {0}  BY <1>1, NumbersAssumption, DayIsPositive
  <1>5. due' = FALSE /\ period' = left'  BY <1>1 DEF SetTimer
  <1>6. CASE m = "daily" /\ times' # <<>>
    <2>1. left' = MsUntilNext(times')  BY <1>1, <1>6 DEF SetTimer
    <2>2. left' \in 1 .. DayMs /\ (Sorted(times') => AimsAtNextSlot')
      BY <1>1, <1>2, <1>3, <1>6, <2>1, Armed DEF MsUntilNext
    <2>0. TimerOK'  BY <1>4, <1>5, <2>2 DEF TimerOK
    <2>3. TypeOK'  BY <1>1, <1>2, <1>3, <1>5, <2>0 DEF TypeOK
    <2>4. AimsAtNextSlot'  BY <2>2 DEF AimsAtNextSlot, OnSchedule
    <2> QED  BY <1>1, <1>5, <2>3, <2>4 DEF IInv, DueAtSlots
  <1>7. CASE ~(m = "daily" /\ times' # <<>>)
    <2>1. left' \in {0, ms}  BY <1>1, <1>7 DEF SetTimer
    <2>0. TimerOK'  BY <1>4, <1>5, <2>1 DEF TimerOK
    <2>2. TypeOK'  BY <1>1, <1>2, <1>3, <1>5, <2>0 DEF TypeOK
    <2>3. ~OnSchedule'  BY <1>1, <1>7 DEF OnSchedule
    <2> QED  BY <2>2, <2>3 DEF IInv, DueAtSlots, AimsAtNextSlot
  <1> QED  BY <1>6, <1>7

(* The timer's handler refreshes or aims again. *)
LEMMA OnTimerStep == IInv /\ OnTimer => IInv'
  <1> SUFFICES ASSUME IInv, OnTimer PROVE IInv'  OBVIOUS
  <1>1. TypeOK /\ due /\ owed' = FALSE /\ UNCHANGED <<clock, mode, times>>
    BY DEF IInv, OnTimer, setting
  <1>2. clock \in 0 .. DayMs - 1 /\ times \in Seq(0 .. Day - 1) /\ DayMs \in Nat \ {0}
    BY <1>1, DayIsPositive DEF TypeOK
  <1>3. CASE mode = "daily" /\ times # <<>>
    <2>1. left' = MsUntilNext(times) /\ period' = left' /\ due' = FALSE /\ steady' = TRUE
      BY <1>3 DEF OnTimer, SetTimer
    <2>2. left' \in 1 .. DayMs /\ (Sorted(times') => AimsAtNextSlot')
      BY <1>1, <1>2, <1>3, <2>1, Armed DEF MsUntilNext
    <2>0. TimerOK'  BY <1>2, <2>1, <2>2 DEF TimerOK
    <2>3. TypeOK'  BY <1>1, <1>2, <2>0, <2>1 DEF TypeOK
    <2>4. AimsAtNextSlot'  BY <2>2 DEF AimsAtNextSlot, OnSchedule
    <2> QED  BY <1>1, <2>1, <2>3, <2>4 DEF IInv, DueAtSlots
  <1>4. CASE ~(mode = "daily" /\ times # <<>>)
    <2>1. due' = FALSE /\ UNCHANGED <<period, left, steady>>  BY <1>4 DEF OnTimer
    <2>0. TimerOK'  BY <1>1, <2>1 DEF TypeOK, TimerOK
    <2>2. TypeOK'  BY <1>1, <2>0, <2>1 DEF TypeOK
    <2>3. ~OnSchedule'  BY <1>1, <1>4 DEF OnSchedule
    <2> QED  BY <2>2, <2>3 DEF IInv, DueAtSlots, AimsAtNextSlot
  <1> QED  BY <1>3, <1>4

(* The clock moves on by a tick. *)
LEMMA TickStep == IInv /\ Tick => IInv'
  <1> SUFFICES ASSUME IInv, Tick PROVE IInv'  OBVIOUS
  <1>1. DayMs \in Nat \ {0} /\ TypeOK /\ Intervals \subseteq Nat
    BY DayIsPositive, NumbersAssumption DEF IInv
  <1>2. clock \in 0 .. DayMs - 1 /\ period \in Nat /\ left \in 0 .. period
    BY <1>1 DEF TypeOK, TimerOK
  <1>3. UNCHANGED <<period, mode, times, steady>>  BY DEF Tick, setting
  <1>4. clock' = (IF clock = DayMs - 1 THEN 0 ELSE clock + 1) /\ due' = (due \/ left = 1)
    BY DEF Tick
  <1>5. clock' \in 0 .. DayMs - 1  BY <1>1, <1>2, <1>4
  <1>6. TypeOK'
    <2>1. left' = IF left = 1 THEN period ELSE IF left = 0 THEN 0 ELSE left - 1  BY DEF Tick
    <2>2. TimerOK'  BY <1>1, <1>2, <1>3, <1>4, <2>1 DEF TypeOK, TimerOK
    <2>3. owed' \in BOOLEAN /\ due' \in BOOLEAN  BY <1>4 DEF Tick
    <2> QED  BY <1>1, <1>3, <1>5, <2>2, <2>3 DEF TypeOK
  <1>7. ASSUME OnSchedule' PROVE AimsAtNextSlot' /\ (due' <=> owed')
    <2>1. OnSchedule /\ (due <=> owed)  BY <1>3, <1>7 DEF OnSchedule, IInv, DueAtSlots
    <2>2. \A t : IsSlot(t)' <=> IsSlot(t)  BY <1>3 DEF IsSlot
    <2>3. owed' = (owed \/ IsSlot(clock'))
      BY <1>3, <2>1, <2>2 DEF Tick, OnSchedule
    <2>4. CASE due  BY <1>4, <2>1, <2>3, <2>4 DEF AimsAtNextSlot
    <2>5. CASE ~due
      <3>1. left \in 1 .. DayMs /\ IsSlot(Later(left))
            /\ \A d \in 1 .. left - 1 : ~IsSlot(Later(d))
        BY <2>1, <2>5 DEF IInv, AimsAtNextSlot
      <3>2. Later(1) = clock'  BY <1>1, <1>2, <1>4 DEF Later
      <3>3. CASE left = 1  BY <1>4, <2>3, <3>1, <3>2, <3>3 DEF AimsAtNextSlot
      <3>4. CASE left # 1
        <4>1. left' = left - 1 /\ left \in 2 .. DayMs
          <5>1. left' = IF left = 1 THEN period ELSE IF left = 0 THEN 0 ELSE left - 1
            BY DEF Tick
          <5> QED  BY <1>1, <3>1, <3>4, <5>1
        <4>2. left' \in 1 .. DayMs  BY <1>1, <4>1
        <4>3. ~due'  BY <1>4, <2>5, <3>4
        <4>4. \A d \in 0 .. left - 1 : Later(d)' = Later(d + 1)
          BY <1>1, <1>2, <1>4, <4>1 DEF Later
        <4>5. Later(left)' = Later(left)
          <5>1. left - 1 \in 0 .. left - 1 /\ (left - 1) + 1 = left  BY <4>1
          <5>2. left' = left - 1  BY <4>1
          <5>3. Later(left)' = IF clock' + left' >= DayMs THEN clock' + left' - DayMs
                                ELSE clock' + left'
            BY DEF Later
          <5> QED  BY <1>1, <1>2, <1>4, <4>1, <5>3 DEF Later
        <4>6. IsSlot(Later(left))'
          <5>1. \E i \in DOMAIN times : Later(left) = times[i] * Minute  BY <3>1 DEF IsSlot
          <5>2. \E i \in DOMAIN times' : Later(left)' = times'[i] * Minute
            BY <1>3, <4>5, <5>1
          <5> QED  BY <5>2 DEF IsSlot
        <4>7. ASSUME NEW d \in 1 .. left' - 1 PROVE ~IsSlot(Later(d))'
          <5>1. d \in 0 .. left - 1 /\ d + 1 \in 1 .. left - 1  BY <4>1
          <5>2. Later(d)' = Later(d + 1)  BY <4>4, <5>1
          <5>3. ~IsSlot(Later(d + 1))  BY <3>1, <5>1
          <5> QED  BY <1>3, <5>2, <5>3 DEF IsSlot
        <4>8. ~owed'
          <5>1. ~IsSlot(clock')
            <6>1. 1 \in 1 .. left - 1  BY <4>1
            <6> QED  BY <3>1, <3>2, <6>1
          <5> QED  BY <2>1, <2>3, <2>5, <5>1
        <4>9. AimsAtNextSlot'
          BY <4>2, <4>6, <4>7 DEF AimsAtNextSlot
        <4> QED  BY <4>3, <4>8, <4>9
      <3> QED  BY <3>3, <3>4
    <2> QED  BY <2>4, <2>5
  <1> QED  BY <1>6, <1>7 DEF IInv, DueAtSlots, AimsAtNextSlot

(* Somebody sets the clock. *)
LEMMA SetClockStep == IInv /\ SetClock => IInv'
  <1> SUFFICES ASSUME IInv, SetClock PROVE IInv'  OBVIOUS
  <1>1. TypeOK' /\ ~OnSchedule'
    BY DEF IInv, SetClock, TypeOK, TimerOK, timer, setting, OnSchedule
  <1> QED  BY <1>1 DEF IInv, AimsAtNextSlot, DueAtSlots

(* Every step keeps the inductive invariant of the schedule. *)
LEMMA Preserved == IInv /\ [Next]_vars => IInv'
  <1> SUFFICES ASSUME IInv, [Next]_vars PROVE IInv'  OBVIOUS
  <1>1. CASE UNCHANGED vars
    <2>1. \A d : Later(d)' = Later(d)  BY <1>1 DEF vars, timer, setting, Later
    <2>2. \A t : IsSlot(t)' = IsSlot(t)  BY <1>1 DEF vars, timer, setting, IsSlot
    <2>3. TypeOK'  BY <1>1 DEF vars, timer, setting, IInv, TypeOK, TimerOK
    <2>4. DueAtSlots'  BY <1>1 DEF vars, timer, setting, IInv, DueAtSlots, OnSchedule
    <2>5. AimsAtNextSlot'
      BY <1>1, <2>1, <2>2 DEF vars, timer, setting, IInv, AimsAtNextSlot, OnSchedule
    <2> QED  BY <2>3, <2>4, <2>5 DEF IInv
  <1> QED  BY <1>1, StartStep, OnTimerStep, TickStep, SetClockStep DEF Next

(* What every reachable state of the automatic refresh satisfies. *)
THEOREM ScheduleInvariance == Spec => []IInv
  BY InitIInv, Preserved, PTL DEF Spec

(* The times in force are minutes of the day, the timer never waits longer than
   a day or the configured interval, and an expiry is pending only while the
   timer is set, for every config and clock (webview_window.cpp:546-574 and
   641-647). *)
THEOREM ScheduleTypes == Spec => []TypeOK
  BY ScheduleInvariance, PTL DEF IInv

(* Whatever the list of times and however late refreshes are served, the timer
   of a daily schedule expires at the next slot to come, over midnight as well,
   as long as nobody sets the clock (refresh_schedule.cpp:57-76). *)
THEOREM RefreshAims == Spec => []AimsAtNextSlot
  BY ScheduleInvariance, PTL DEF IInv

(* On such a clock WM_TIMER is pending exactly when a slot has come since the
   page was refreshed last (webview_window.cpp:641-647). *)
THEOREM RefreshesAtSlots == Spec => []DueAtSlots
  BY ScheduleInvariance, PTL DEF IInv

(* The times a config brings are in good order, and all there, whenever its list
   parses, however disordered and doubled it was written, for lists of any length
   (refresh_schedule.cpp:48-52; the precondition at refresh_schedule.h:18-20). *)
THEOREM TimesInOrder == Spec => []ParsedInOrder
  <1>1. Init => ParsedInOrder
    BY DEF Init, ParsedInOrder, ParseTimes
  <1>2. ParsedInOrder /\ [Next]_vars => ParsedInOrder'
    <2> SUFFICES ASSUME ParsedInOrder, [Next]_vars PROVE ParsedInOrder'  OBVIOUS
    <2>1. CASE StartAutoRefresh
      <3>1. PICK text \in Texts, d \in DailyMins :
              times' = RefreshTimes(text, d) /\ config' = [text |-> text, dailyMin |-> d]
        BY <2>1 DEF StartAutoRefresh
      <3>2. text \in Seq([h : Nat, m : Nat])  BY <3>1, TextsAssumption
      <3>3. config'.text = text  BY <3>1
      <3>4. ParseTimes(text).ok =>
              /\ Sorted(times')
              /\ \A i \in DOMAIN text : \E j \in DOMAIN times' : times'[j] = MinuteOfDay(text[i])
        BY <3>1, <3>2, ParseTimesIs, RefreshTimesIs
      <3> QED  BY <3>3, <3>4 DEF ParsedInOrder
    <2>2. CASE OnTimer \/ Tick \/ SetClock \/ UNCHANGED vars
      <3>1. UNCHANGED <<times, config>>
        BY <2>2 DEF OnTimer, Tick, SetClock, SetTimer, setting, vars
      <3> QED  BY <3>1 DEF ParsedInOrder
    <2> QED  BY <2>1, <2>2 DEF Next
  <1> QED  BY <1>1, <1>2, PTL DEF Spec

(* The maintenance window of an update is open, at whatever time, from its start
   until its end comes round (auto_update_logic.cpp:76-82). *)
THEOREM WindowArc == Spec => []WindowIsAnArc
  <1>1. IInv => WindowIsAnArc
    <2> SUFFICES ASSUME IInv, NEW start \in 0 .. Day - 1, NEW end \in 0 .. Day - 1
                 PROVE  LET cur == clock \div Minute IN
                        InUpdateWindow(start, end, cur)
                          <=> Ahead(start, cur) < Ahead(start, end) \/ cur = start
      BY DEF WindowIsAnArc
    <2> DEFINE cur == clock \div Minute
    <2>1. Day \in Nat \ {0} /\ cur \in 0 .. Day - 1
      BY DayIsPositive, ClockParts DEF IInv, TypeOK
    <2> HIDE DEF cur
    <2>2. InUpdateWindow(start, end, cur)
            <=> Ahead(start, cur) < Ahead(start, end) \/ cur = start
      BY <2>1 DEF InUpdateWindow, Ahead
    <2> QED  BY <2>2 DEF cur
  <1> QED  BY <1>1, ScheduleInvariance, PTL
=============================================================================
