---------------------------- MODULE HealthProofs ----------------------------
(***************************************************************************)
(* The search of BackupWindow finds what it is for, for every schedule     *)
(* whose runs are at least a minute apart, every duration and every time;  *)
(* and so uploads are let in during the slots, their first second apart.   *)
(*                                                                         *)
(* The health check, whatever uploads run beside its separate reads: an    *)
(* answer without an alarm means fresh copies in every window, an alarm is *)
(* about something that was so, and a sum over the limit means a rotation  *)
(* is still to come.  HealthInv says what a check in progress knows of a   *)
(* registry that has moved on since each of its reads.                     *)
(***************************************************************************)
EXTENDS CollectionHealth, SetLemmas, TLAPS

\* Cron expressions name times that are at least a minute apart.
IsWindow(w) ==
    /\ w.runs \subseteq Int
    /\ w.duration \in Nat
    /\ \A r, s \in w.runs : r < s => r + Minute <= s

-----------------------------------------------------------------------------
(* The next run *)

\* What the library answers is the least run after the time asked for.
LEMMA NextRunIsLeast ==
    ASSUME NEW w, IsWindow(w), NEW t \in Int, NEW r \in NextRun(w, t)
    PROVE  /\ r \in w.runs /\ r \in Int /\ r > t
           /\ \A s \in w.runs : s > t => r <= s
           /\ NextRun(w, t) = {r}
  <1>1. r \in w.runs /\ r \in Int /\ r > t /\ \A s \in w.runs : s > t => r <= s
    BY DEF NextRun, IsWindow
  <1>2. ASSUME NEW q \in NextRun(w, t)  PROVE q = r
    <2>1. q \in w.runs /\ q \in Int /\ q > t /\ \A s \in w.runs : s > t => q <= s
      BY <1>2 DEF NextRun, IsWindow
    <2> QED  BY <1>1, <2>1
  <1> QED  BY <1>1, <1>2

\* The least run after the time asked for is the answer of the library.
LEMMA LeastIsNextRun ==
    ASSUME NEW w, IsWindow(w), NEW t \in Int, NEW r \in w.runs, r > t,
           \A s \in w.runs : s > t => r <= s
    PROVE  NextRun(w, t) = {r}
  <1>1. r \in NextRun(w, t)
    BY DEF NextRun
  <1> QED  BY <1>1, NextRunIsLeast

\* If there is a run after the time asked for, there is an answer.
LEMMA NextRunExists ==
    ASSUME NEW w, IsWindow(w), NEW t \in Int, NEW s \in w.runs, s > t
    PROVE  \E r \in NextRun(w, t) : r <= s
  <1> DEFINE S == {x \in w.runs : x > t}
  <1>1. S \in SUBSET Int /\ s \in S /\ \A x \in S : t <= x
    BY DEF IsWindow
  <1>2. PICK r \in S : \A y \in S : r <= y
    <2> HIDE DEF S
    <2> QED  BY <1>1, LeastExists
  <1>3. r \in NextRun(w, t) /\ r <= s
    BY <1>1, <1>2 DEF NextRun
  <1> QED  BY <1>3

\* Two times with no run between them have the same next run.
LEMMA NothingBetween ==
    ASSUME NEW w, IsWindow(w), NEW t \in Int, NEW u \in Int, t <= u,
           \A s \in w.runs : s > t => s > u
    PROVE  NextRun(w, t) = NextRun(w, u)
  <1>1. \A s \in w.runs : s > t <=> s > u
    BY DEF IsWindow
  <1> QED  BY <1>1 DEF NextRun

-----------------------------------------------------------------------------
(* The search *)

\* The search steps back by whole minutes, never by less than the second.
LEMMA Times ==
    ASSUME NEW k \in Nat, k >= 1
    PROVE  /\ k * Minute \in Int
           /\ Minute <= k * Minute
           /\ Second <= k * Minute
           /\ (k - 1) * Minute = k * Minute - Minute
  <1>1. Minute \in Nat /\ Second \in Nat /\ Second <= Minute /\ Second > 0 /\ Minute > 0
    BY TicksAssumption
  <1>2. (k - 1) * Minute = k * Minute - Minute /\ k * Minute \in Int
    BY <1>1
  <1>3. (k - 1) * Minute >= 0
    BY <1>1
  <1> QED  BY <1>1, <1>2, <1>3

\* The search has found r in its k-th step.
Found(w, t, k, r) ==
    /\ r \in NextRun(w, t - k * Minute)
    /\ NextRun(w, t - k * Minute) # NextRun(w, t - Second)
    /\ \A j \in 1..(k - 1) : NextRun(w, t - j * Minute) = NextRun(w, t - Second)

\* The search of GetStartingDateOfPreviousScheduledRun in terms of Found.
LEMMA SearchIsFound ==
    ASSUME NEW w, NEW t
    PROVE  GetStartingDateOfPreviousScheduledRun(w, t) =
              {r \in w.runs : \E k \in 1..(Retries + 1) : Found(w, t, k, r)}
  <1>1. Retries \in Nat
    BY RetriesAssumption
  <1>2. \A k \in 1..(Retries + 1) : \A j \in 1..(k - 1) : j \in 1..(Retries + 1)
    BY <1>1
  <1> QED  BY <1>2 DEF GetStartingDateOfPreviousScheduledRun, Found

\* What the search finds is the start of the latest slot: were there a later one,
\* the step before would have come across it.
LEMMA FoundIsLatest ==
    ASSUME NEW w, IsWindow(w), NEW t \in Int, NEW r \in w.runs,
           NEW k \in 1..(Retries + 1), Found(w, t, k, r)
    PROVE  r \in SettledStart(w, t)
  <1> DEFINE from == t - k * Minute
  <1>0. /\ Retries \in Nat /\ Second \in Nat /\ Minute \in Nat /\ Second > 0 /\ k \in Nat /\ k >= 1
    BY TicksAssumption, RetriesAssumption
  <1>1. /\ from \in Int /\ from <= t - Minute /\ from <= t - Second
        /\ t - (k - 1) * Minute = from + Minute
    BY <1>0, Times
  <1>2. /\ r \in Int /\ r > from /\ \A s \in w.runs : s > from => r <= s
        /\ NextRun(w, from) = {r} /\ NextRun(w, from) # NextRun(w, t - Second)
    BY <1>1, NextRunIsLeast DEF Found
  <1>3. t < r + (Retries + 1) * Minute
    <2>1. k * Minute <= (Retries + 1) * Minute
      <3>1. (Retries + 1 - k) * Minute >= 0
        BY <1>0
      <3>2. (Retries + 1 - k) * Minute = (Retries + 1) * Minute - k * Minute
        BY <1>0
      <3> QED  BY <1>0, <3>1, <3>2
    <2>2. (Retries + 1) * Minute \in Int
      BY <1>0
    <2> QED  BY <1>0, <1>1, <1>2, <2>1, <2>2
  <1> HIDE DEF from
  <1>4. r + Second <= t
    <2> SUFFICES ASSUME r > t - Second  PROVE FALSE
      BY <1>0, <1>2
    <2>1. \A s \in w.runs : s > t - Second => r <= s
      BY <1>0, <1>1, <1>2 DEF IsWindow
    <2>2. NextRun(w, t - Second) = {r}
      BY <1>0, <2>1, LeastIsNextRun
    <2> QED  BY <1>2, <2>2
  <1>5. ASSUME NEW s \in w.runs, s + Second <= t  PROVE s <= r
    <2> SUFFICES ASSUME s > r  PROVE FALSE
      BY <1>2 DEF IsWindow
    <2>1. s \in Int /\ r + Minute <= s
      BY DEF IsWindow
    <2>2. CASE k = 1
      <3>1. from = t - Minute
        BY <1>0, <2>2 DEF from
      <3> QED  BY <1>0, <1>2, <1>5, <2>1, <3>1
    <2>3. CASE k # 1
      <3>1. k - 1 \in 1..(k - 1)
        BY <1>0, <2>3
      <3>2. NextRun(w, from + Minute) = NextRun(w, t - Second)
        BY <1>1, <3>1 DEF Found
      <3>3. s > from + Minute
        BY <1>0, <1>1, <1>2, <2>1
      <3>4. PICK q \in NextRun(w, from + Minute) : q <= s
        BY <1>0, <1>1, <3>3, NextRunExists
      <3>5. q \in Int /\ q > t - Second
        BY <1>0, <3>2, <3>4, NextRunIsLeast
      <3> QED  BY <1>0, <1>5, <2>1, <3>4, <3>5
    <2> QED  BY <2>2, <2>3
  <1> QED  BY <1>3, <1>4, <1>5 DEF SettledStart

\* The start of the latest slot is found, in the first step that goes back before
\* it: the steps until then see the next run, and that step no earlier run.
LEMMA LatestIsFound ==
    ASSUME NEW w, IsWindow(w), NEW t \in Int, NEW r \in SettledStart(w, t)
    PROVE  \E k \in 1..(Retries + 1) : Found(w, t, k, r)
  <1>0. /\ Retries \in Nat /\ Second \in Nat /\ Minute \in Nat /\ Second > 0
    BY TicksAssumption, RetriesAssumption
  <1>1. /\ r \in w.runs /\ r \in Int /\ r + Second <= t
        /\ t < r + (Retries + 1) * Minute
        /\ \A s \in w.runs : s + Second <= t => s <= r
    BY DEF SettledStart, IsWindow
  <1> DEFINE Steps == {k \in 1..(Retries + 1) : t - k * Minute < r}
  <1>2. PICK k \in Steps : \A j \in Steps : k <= j
    <2>1. Retries + 1 \in Steps
      <3>1. (Retries + 1) * Minute \in Int
        BY <1>0
      <3> QED  BY <1>0, <1>1, <3>1
    <2>2. Steps \in SUBSET Int /\ \A j \in Steps : 1 <= j
      BY <1>0
    <2>3. Steps # {} /\ 1 \in Int
      BY <2>1
    <2> HIDE DEF Steps
    <2> QED  BY <2>2, <2>3, LeastExists
  <1>3. /\ k \in 1..(Retries + 1) /\ k \in Nat /\ k >= 1 /\ t - k * Minute < r
        /\ \A j \in 1..(k - 1) : t - j * Minute >= r
    <2>1. k \in 1..(Retries + 1) /\ k \in Nat /\ k >= 1 /\ t - k * Minute < r
      BY <1>0, <1>2
    <2>2. ASSUME NEW j \in 1..(k - 1)  PROVE t - j * Minute >= r
      <3>1. j \in 1..(Retries + 1) /\ ~(k <= j) /\ j \in Nat /\ j >= 1
        BY <1>0, <2>1
      <3>2. j \notin Steps
        BY <1>2, <3>1
      <3>3. j * Minute \in Int
        BY <3>1, Times
      <3> QED  BY <1>1, <3>1, <3>2, <3>3
    <2> QED  BY <2>1, <2>2
  <1> DEFINE from == t - k * Minute
  <1>4. from \in Int /\ t - (k - 1) * Minute = from + Minute
    BY <1>0, <1>3, Times
  <1>5. \A s \in w.runs : s > from => r <= s
    <2> SUFFICES ASSUME NEW s \in w.runs, s > from, s < r  PROVE FALSE
      BY <1>1 DEF IsWindow
    <2>1. s \in Int /\ s + Minute <= r
      BY <1>1 DEF IsWindow
    <2>2. CASE k = 1
      <3>1. from = t - Minute
        BY <1>0, <2>2
      <3> HIDE DEF from
      <3> QED  BY <1>0, <1>1, <1>4, <2>1, <3>1
    <2>3. CASE k # 1
      <3>1. k - 1 \in 1..(k - 1)
        BY <1>3, <2>3
      <3>2. from + Minute >= r
        BY <1>3, <1>4, <3>1
      <3> HIDE DEF from
      <3> QED  BY <1>0, <1>1, <1>4, <2>1, <3>2
    <2> QED  BY <2>2, <2>3
  <1>6. NextRun(w, from) = {r}
    BY <1>1, <1>3, <1>4, <1>5, LeastIsNextRun
  <1>7. r \notin NextRun(w, t - Second)
    BY <1>0, <1>1 DEF NextRun
  <1>8. ASSUME NEW j \in 1..(k - 1)
        PROVE  NextRun(w, t - j * Minute) = NextRun(w, t - Second)
    <2>1. j \in Nat /\ j >= 1
      BY <1>3
    <2>2. t - j * Minute \in Int /\ t - j * Minute <= t - Second /\ t - j * Minute >= r
      BY <1>0, <1>3, <2>1, Times
    <2> DEFINE u == t - j * Minute
    <2>3. u \in Int /\ u <= t - Second /\ u >= r
      BY <2>2
    <2> HIDE DEF u
    <2>4. \A s \in w.runs : s > u => s > t - Second
      BY <1>0, <1>1, <2>3 DEF IsWindow
    <2>5. NextRun(w, u) = NextRun(w, t - Second)
      BY <1>0, <2>3, <2>4, NothingBetween
    <2> QED  BY <2>5 DEF u
  <1> QED  BY <1>3, <1>6, <1>7, <1>8 DEF Found

\* For every schedule, every time and every bound of the search: going back minute
\* by minute with a library that only looks forward finds the start of the latest
\* slot that is a second old, unless it is further back than the bound.
LEMMA SearchFindsSettled ==
    ASSUME NEW w, IsWindow(w), NEW t \in Int
    PROVE  GetStartingDateOfPreviousScheduledRun(w, t) = SettledStart(w, t)
  <1>1. ASSUME NEW r \in GetStartingDateOfPreviousScheduledRun(w, t)
        PROVE  r \in SettledStart(w, t)
    BY <1>1, SearchIsFound, FoundIsLatest
  <1>2. ASSUME NEW r \in SettledStart(w, t)
        PROVE  r \in GetStartingDateOfPreviousScheduledRun(w, t)
    <2>1. r \in w.runs
      BY <1>2 DEF SettledStart
    <2> QED  BY <1>2, <2>1, SearchIsFound, LatestIsFound
  <1> QED  BY <1>1, <1>2

\* After the first second of a slot, the latest slot is a second old.
LEMMA SettledIsLatest ==
    ASSUME NEW w, IsWindow(w), NEW t \in Int, ~Starting(w, t)
    PROVE  SettledStart(w, t) = LatestStart(w, t)
  <1>1. \A r \in w.runs : r \in Int /\ Second \in Nat
    BY TicksAssumption DEF IsWindow
  <1>2. \A r \in w.runs : r <= t <=> r + Second <= t
    BY <1>1 DEF Starting
  <1> QED  BY <1>2 DEF SettledStart, LatestStart

\* model_test.go: "when date equals start date, then return that start date".  For
\* every schedule, every time and every bound of the search, the search finds
\* exactly the start of the latest slot, unless it is further back than the bound
\* or the slot is in its first second, when the slot before it is found.
THEOREM SearchFindsLatestStart ==
    ASSUME NEW w, IsWindow(w), NEW t \in Int
    PROVE  GetStartingDateOfPreviousScheduledRun(w, t) =
              IF Starting(w, t) THEN SettledStart(w, t) ELSE LatestStart(w, t)
  BY SearchFindsSettled, SettledIsLatest

-----------------------------------------------------------------------------
(* Admission *)

\* For every schedule whose slots are not longer than the search goes back: uploads
\* are let in exactly from the start of a slot until its end, its first second
\* excepted: then only if the slot before it has not ended yet.
THEOREM OpenExactlyInSlots ==
    ASSUME NEW w, IsWindow(w), w.duration <= (Retries + 1) * Minute, NEW t \in Int
    PROVE  IsInWindowNow(w, t) <=>
              IF Starting(w, t) THEN \E r \in SettledStart(w, t) : t < r + w.duration
                                ELSE InSlot(w, t)
  <1>0. /\ Retries \in Nat /\ Second \in Nat /\ Minute \in Nat /\ Second > 0
        /\ (Retries + 1) * Minute \in Int
    BY TicksAssumption, RetriesAssumption
  <1>1. IsInWindowNow(w, t) <=>
           \E start \in SettledStart(w, t) : t > start /\ t < start + w.duration
    BY SearchFindsSettled DEF IsInWindowNow, IsInPreviousWindowTimeSlot
  <1>2. ASSUME NEW start \in SettledStart(w, t), t < start + w.duration
        PROVE  t > start /\ InSlot(w, t)
    BY <1>0, <1>2 DEF SettledStart, InSlot, IsWindow
  <1>3. ASSUME NEW r \in w.runs, r + Second <= t, t < r + w.duration
        PROVE  \E start \in SettledStart(w, t) : t > start /\ t < start + w.duration
    <2> DEFINE S == {x \in w.runs : x + Second <= t}
    <2>1. S \in SUBSET Int /\ r \in S /\ \A x \in S : x <= t
      BY <1>0, <1>3 DEF IsWindow
    <2>2. PICK start \in S : \A y \in S : y <= start
      <3> HIDE DEF S
      <3> QED  BY <2>1, GreatestExists
    <2>3. start \in w.runs /\ start \in Int /\ start + Second <= t /\ r \in Int /\ r <= start
      BY <2>1, <2>2
    <2>4. w.duration \in Nat
      BY DEF IsWindow
    <2>5. t < start + w.duration /\ t > start /\ t < start + (Retries + 1) * Minute
      BY <1>0, <1>3, <2>3, <2>4
    <2>6. start \in SettledStart(w, t)
      BY <2>2, <2>3, <2>5 DEF SettledStart
    <2> QED  BY <2>5, <2>6
  <1>4. CASE Starting(w, t)
    BY <1>1, <1>2, <1>4
  <1>5. CASE ~Starting(w, t)
    <2>1. \A r \in w.runs : r <= t => r + Second <= t
      BY <1>0, <1>5 DEF Starting, IsWindow
    <2> QED  BY <1>1, <1>2, <1>3, <1>5, <2>1 DEF InSlot
  <1> QED  BY <1>4, <1>5

NowIsInt == now \in Int

\* The windows of a collection have runs a minute apart.
LEMMA WindowsAreWindows ==
    /\ DOMAIN Windows = 1..Len(Windows) /\ Len(Windows) \in Nat
    /\ \A i \in DOMAIN Windows : IsWindow(Windows[i])
  <1>1. Windows \in Seq([runs : SUBSET Int, duration : Nat])
    BY WindowsAssumption
  <1>2. DOMAIN Windows = 1..Len(Windows) /\ Len(Windows) \in Nat
    BY <1>1
  <1>3. \A i \in DOMAIN Windows : Windows[i] \in [runs : SUBSET Int, duration : Nat]
    <2> DEFINE R == [runs : SUBSET Int, duration : Nat]
    <2>1. Windows \in Seq(R)
      BY <1>1
    <2> HIDE DEF R
    <2>2. \A i \in 1..Len(Windows) : Windows[i] \in R
      BY <2>1
    <2> QED  BY <1>2, <2>2 DEF R
  <1> QED  BY <1>2, <1>3, WindowsAssumption DEF IsWindow

\* SlotsAreFound at every moment, for every sequence of windows whose slots are not
\* longer than the search goes back (twelve months).
THEOREM SlotsAreAlwaysFound ==
    ASSUME \A i \in DOMAIN Windows : Windows[i].duration <= (Retries + 1) * Minute
    PROVE  HealthSpec => []SlotsAreFound
  <1>1. HealthInit => NowIsInt
    BY DEF HealthInit, NowIsInt
  <1>2. NowIsInt /\ [HealthNext]_healthVars => NowIsInt'
    <2> SUFFICES ASSUME NowIsInt, [HealthNext]_healthVars, ~Tick  PROVE now' = now
      BY DEF NowIsInt, Tick
    <2>1. ASSUME NEW anytime \in BOOLEAN, BeginUpload(anytime)  PROVE now' = now
      BY <2>1 DEF BeginUpload
    <2>2. ASSUME NEW bytes \in Sizes, RegisterUpload(bytes)  PROVE now' = now
      BY <2>2 DEF RegisterUpload
    <2>3. ASSUME NEW v \in 1..latest, RotateUpload(v)  PROVE now' = now
      BY <2>3 DEF RotateUpload
    <2>4. CASE EndUpload \/ FindHighestNumber \/ FindLatestRow \/ FindLatestVersionFails
      BY <2>4 DEF EndUpload, FindHighestNumber, FindLatestRow, FindLatestVersionFails
    <2>5. ASSUME NEW answers \in BOOLEAN, ValidateSizes(answers) \/ ValidateSum(answers)
          PROVE  now' = now
      BY <2>5 DEF ValidateSizes, ValidateSum
    <2>6. CASE ValidateWindows
      BY <2>6 DEF ValidateWindows
    <2>7. CASE UNCHANGED healthVars
      BY <2>7 DEF healthVars
    <2> QED  BY <2>1, <2>2, <2>3, <2>4, <2>5, <2>6, <2>7 DEF HealthNext
  <1>3. NowIsInt => SlotsAreFound
    <2> SUFFICES ASSUME NowIsInt, NEW i \in DOMAIN Windows
                 PROVE  LET w == Windows[i]
                            found == GetStartingDateOfPreviousScheduledRun(w, now)
                        IN  IF Starting(w, now)
                            THEN /\ found = SettledStart(w, now)
                                 /\ IsInWindowNow(w, now) <=> \E r \in found : now < r + w.duration
                            ELSE /\ found = LatestStart(w, now)
                                 /\ IsInWindowNow(w, now) <=> InSlot(w, now)
      BY DEF SlotsAreFound
    <2>1. IsWindow(Windows[i]) /\ now \in Int
      BY WindowsAreWindows DEF NowIsInt
    <2> QED  BY <2>1, SearchFindsLatestStart, OpenExactlyInSlots
  <1> QED  BY <1>1, <1>2, <1>3, PTL DEF HealthSpec

-----------------------------------------------------------------------------
(* The registry, the uploads and the check beside them *)

\* The version registered last is there, and rows are in the order of their creation.
RowsFit ==
    /\ latest > 0 => latest \in Kept
    /\ \A v, w \in Kept : v <= w => rows[v].created <= rows[w].created
    /\ \A v \in 1..latest : v \notin Kept => latest - v >= Limits.maxBackupsCount

\* What is to be deleted is there and older than what stays, and enough stays; the
\* number that the new version was given is still the next one.
PlanFits ==
    LET stays == Kept \ upload.toDelete
        limit == Limits.maxBackupsCount
    IN  upload.stage # "none" =>
           /\ upload.toDelete \subseteq Kept
           /\ \A v \in upload.toDelete, w \in stays : v < w
           /\ upload.toDelete # {} => Cardinality(stays) >= IF upload.stage = "streaming"
                                                         THEN limit - 1 ELSE limit
           /\ upload.stage = "rotating" => latest \in stays
           /\ upload.stage = "streaming" =>
                 latest < MaxVersions /\ upload.number = latest + 1

\* What the check has read is of the newest version it knew of.
CheckFits ==
    /\ check.stage \in {"numbered", "found"} => check.healthy
    /\ check.stage = "numbered" => check.created = ZeroTime
    /\ check.stage = "found" =>
          /\ check.number \in Kept => check.created = rows[check.number].created
          /\ \A v \in Kept : v >= check.number => check.created <= rows[v].created
          /\ check.created = ZeroTime \/ latest > 0

\* What the kept versions take of the extra space, those in D left out
Above(D) == SpaceAboveLimit(Limits, Kept \ D, Size)

\* The extra space is enough for what stays, and for the new version with it.
UploadFits ==
    /\ ExtraSpace(Limits) = 0 =>
          /\ \A v \in Kept : Size[v] <= Limits.maxOneVersionSize
          /\ upload.stage = "streaming" => upload.allowed <= Limits.maxOneVersionSize
    /\ upload.stage # "none" => Above(upload.toDelete) <= ExtraSpace(Limits)
    /\ upload.stage = "streaming" =>
          upload.allowed <= Limits.maxOneVersionSize + ExtraSpace(Limits) - Above(upload.toDelete)

\* Versions that exceed the extra space are ones that a rotation has left over.
SpaceFits ==
    Kept = {} \/ \E D \in SUBSET Kept :
        /\ Above(D) <= ExtraSpace(Limits)
        /\ D # {} => Cardinality(Kept \ D) >= Limits.maxBackupsCount

HealthInv == HealthTypeOK /\ RowsFit /\ PlanFits /\ CheckFits /\ UploadFits /\ SpaceFits

-----------------------------------------------------------------------------

\* What the types say of the rows
LEMMA RowTypes ==
  ASSUME HealthTypeOK
  PROVE  /\ now \in Nat /\ latest \in Nat /\ Kept \subseteq 1..latest
         /\ IsFiniteSet(Kept) /\ Cardinality(Kept) \in Nat
         /\ Number \in [Kept -> Nat] /\ \A v \in Kept : Number[v] = v /\ v \in Nat
         /\ \A v \in Kept : /\ rows[v].created \in 0..now
                            /\ rows[v].size \in Sizes /\ rows[v].size \in Nat
                            /\ Size[v] = rows[v].size
<1>1. now \in Nat /\ latest \in Nat /\ Kept \subseteq 1..latest
  BY HealthBoundsAssumption DEF HealthTypeOK
<1>2. IsFiniteSet(Kept)
  BY <1>1, FS_Interval, FS_Subset, 1 \in Int, latest \in Int
<1>3. Cardinality(Kept) \in Nat
  BY <1>2, FS_CardinalityType
<1>4. Number \in [Kept -> Nat] /\ \A v \in Kept : Number[v] = v /\ v \in Nat
  BY <1>1 DEF Number
<1>5. \A v \in Kept : rows[v].created \in 0..now /\ rows[v].size \in Sizes
  BY DEF HealthTypeOK
<1>6. \A v \in Kept : rows[v].size \in Nat /\ Size[v] = rows[v].size
  BY <1>5, HealthBoundsAssumption DEF Size
<1> QED BY <1>1, <1>2, <1>3, <1>4, <1>5, <1>6

\* The document is one.
LEMMA LimitsTypes ==
  /\ IsSpec(Limits) /\ Limits.maxBackupsCount \in Nat /\ Limits.maxOneVersionSize \in Nat
  /\ Limits.maxCollectionSize \in Nat /\ ExtraSpace(Limits) \in Int
  BY HealthBoundsAssumption DEF IsSpec, ExtraSpace

\* The space that is in use is a number of bytes.
LEMMA AboveType ==
  ASSUME HealthTypeOK, NEW D PROVE Above(D) \in Nat
  BY RowTypes, LimitsTypes, AllowedIsAtLeastOne DEF Above

\* Nothing is there at first.
LEMMA HealthStarts == HealthInit => HealthInv
<1> SUFFICES ASSUME HealthInit PROVE HealthInv
  OBVIOUS
<1>1. Kept = {} /\ latest = 0 /\ now = 0 /\ upload = NoUpload /\ check = NoCheck
  BY DEF HealthInit, Kept
<1>2. HealthTypeOK
  <2>1. rows \in [Kept -> [created : 0..now, size : Sizes]]
    BY <1>1 DEF HealthInit
  <2> QED BY <1>1, <2>1, HealthBoundsAssumption DEF HealthTypeOK, NoUpload, NoCheck
<1>3. RowsFit /\ PlanFits /\ CheckFits /\ UploadFits /\ SpaceFits
  BY <1>1 DEF RowsFit, PlanFits, CheckFits, UploadFits, SpaceFits, NoUpload, NoCheck
<1> QED BY <1>2, <1>3 DEF HealthInv

\* While the registry stays, only what the clock or the check says can change.
LEMMA QuietRegistry ==
  ASSUME HealthInv, UNCHANGED <<rows, latest, upload>>
  PROVE  RowsFit' /\ PlanFits' /\ UploadFits' /\ SpaceFits'
<1> USE DEF HealthInv, Kept, Size
<1>1. RowsFit'
  BY DEF RowsFit
<1>2. PlanFits'
  BY DEF PlanFits
<1>3. UploadFits'
  BY DEF UploadFits, Above
<1>4. SpaceFits'
  BY DEF SpaceFits, Above
<1> QED BY <1>1, <1>2, <1>3, <1>4

\* A tick of the clock
LEMMA TickKeeps == ASSUME HealthInv, Tick PROVE HealthInv'
<1>1. now' = now + 1 /\ now' \in 0..MaxTime /\ UNCHANGED <<rows, latest, upload, check>>
  BY HealthBoundsAssumption DEF Tick, registry, HealthInv, HealthTypeOK
<1>2. 0..now \subseteq 0..now'
  BY <1>1, RowTypes DEF HealthInv
<1>3. HealthTypeOK'
  <2>1. rows \in [Kept -> [created : 0..now', size : Sizes]]
    BY <1>2 DEF HealthInv, HealthTypeOK
  <2>2. check.created \in (0..now') \cup {ZeroTime}
    BY <1>2 DEF HealthInv, HealthTypeOK
  <2> QED BY <1>1, <2>1, <2>2 DEF HealthInv, HealthTypeOK, Kept
<1>4. CheckFits'
  BY <1>1 DEF HealthInv, CheckFits, Kept
<1> QED BY <1>1, <1>3, <1>4, QuietRegistry DEF HealthInv

\* A step of the check
LEMMA CheckKeeps ==
  ASSUME HealthInv, UNCHANGED <<now, rows, latest, upload>>,
         check' \in [stage : {"none", "numbered", "found", "window", "sizes"},
                     number : 0..latest, created : (0..now) \cup {ZeroTime},
                     healthy : BOOLEAN],
         CheckFits'
  PROVE  HealthInv'
<1>1. HealthTypeOK'
  BY DEF HealthInv, HealthTypeOK, Kept
<1> QED BY <1>1, QuietRegistry DEF HealthInv

\* The first two readings of the check
LEMMA ReadingKeeps == ASSUME HealthInv, FindHighestNumber \/ FindLatestRow PROVE HealthInv'
<1>0. HealthTypeOK /\ CheckFits /\ UNCHANGED <<now, rows, latest, upload>>
  BY DEF HealthInv, FindHighestNumber, FindLatestRow, registry
<1>1. CASE FindHighestNumber
  <2> DEFINE h == HighestNumber(Kept, Number)
  <2>1. h \in Nat /\ (h = 0 \/ \E v \in Kept : Number[v] = h)
    BY <1>0, RowTypes, HighestIsReached, Kept \in SUBSET Kept
  <2>2. h \in 0..latest
    BY <1>0, <2>1, RowTypes
  <2> HIDE DEF h
  <2>3. check' = [stage |-> "numbered", number |-> h, created |-> ZeroTime, healthy |-> TRUE]
    BY <1>1 DEF FindHighestNumber, NoCheck, h
  <2>4. CheckFits'
    BY <2>3 DEF CheckFits
  <2> QED BY <1>0, <2>2, <2>3, <2>4, CheckKeeps
<1>2. CASE FindLatestRow
  <2> DEFINE c == IF check.number \in Kept THEN rows[check.number].created ELSE check.created
  <2>1. /\ check.stage = "numbered" /\ check.healthy /\ check.created = ZeroTime
        /\ check.number \in 0..latest
    BY <1>0, <1>2 DEF FindLatestRow, CheckFits, HealthTypeOK
  <2>2. c \in (0..now) \cup {ZeroTime}
    BY <1>0, <2>1, RowTypes
  <2>3. check' = [stage |-> "found", number |-> check.number, created |-> c, healthy |-> TRUE]
    BY <1>0, <1>2, <2>1 DEF FindLatestRow, HealthTypeOK
  <2>4. ASSUME NEW v \in Kept, v >= check.number PROVE c <= rows[v].created
    <3>1. CASE check.number \in Kept
      <4>1. \A u, w \in Kept : u <= w => rows[u].created <= rows[w].created
        BY DEF HealthInv, RowsFit
      <4>2. check.number <= v
        BY <1>0, <2>1, <2>4, RowTypes
      <4> QED BY <3>1, <4>1, <4>2
    <3>2. CASE check.number \notin Kept
      <4>1. ZeroTime <= rows[v].created
        BY <1>0, RowTypes, HealthBoundsAssumption
      <4> QED BY <2>1, <3>2, <4>1
    <3> QED BY <3>1, <3>2
  <2>5. check.number \in Kept => c = rows[check.number].created
    OBVIOUS
  <2>6. c = ZeroTime \/ latest > 0
    BY <1>0, <2>1, RowTypes
  <2> HIDE DEF c
  <2>7. CheckFits'
    BY <1>0, <2>3, <2>4, <2>5, <2>6 DEF CheckFits, Kept
  <2> QED BY <1>0, <2>1, <2>2, <2>3, <2>7, CheckKeeps
<1> QED BY <1>1, <1>2

\* A validator's verdict
LEMMA VerdictKeeps ==
  ASSUME HealthInv, UNCHANGED <<now, rows, latest, upload>>,
         NEW stage \in {"none", "window", "sizes"}, NEW good \in BOOLEAN, Validated(stage, good)
  PROVE  HealthInv'
<1>1. check.healthy \in BOOLEAN /\ latest \in Nat
  BY RowTypes DEF HealthInv, HealthTypeOK
<1>2. PICK healthy \in BOOLEAN :
         check' = [stage |-> stage, number |-> 0, created |-> ZeroTime, healthy |-> healthy]
  BY <1>1 DEF Validated, NoCheck
<1>3. CheckFits'
  BY <1>2 DEF CheckFits
<1> QED BY <1>1, <1>2, <1>3, CheckKeeps

\* An upload is let in: the plan gives up the oldest, and what stays fits.
LEMMA BeginKeeps == ASSUME HealthInv, NEW anytime, BeginUpload(anytime) PROVE HealthInv'
<1>0. HealthTypeOK /\ RowsFit /\ CheckFits /\ UploadFits /\ SpaceFits
  BY DEF HealthInv
<1>1. PICK doomed \in VersionsToDelete(Limits, Kept, Number) :
         /\ ~IsCorrupted(Limits, Kept, doomed, Size)
         /\ upload' = [stage |-> "streaming", toDelete |-> doomed,
                       number |-> NextVersionNumber(Kept, Number),
                       allowed |-> MaximumAllowedFilesize(Limits, Kept, doomed, Size)]
  BY DEF BeginUpload
<1>2. UNCHANGED <<now, rows, latest, check>> /\ Kept' = Kept /\ Size' = Size
  BY DEF BeginUpload, registry, Kept, Size
<1>3. /\ doomed \subseteq Kept
      /\ \A v \in doomed, w \in Kept \ doomed : Number[v] <= Number[w]
      /\ doomed # {} => Cardinality(Kept \ doomed) >= Limits.maxBackupsCount - 1
  BY <1>0, RowTypes, LimitsTypes, PlanIsFifo
<1>4. \A v \in doomed, w \in Kept \ doomed : v < w
  <2> SUFFICES ASSUME NEW v \in doomed, NEW w \in Kept \ doomed PROVE v < w
    OBVIOUS
  <2>1. v \in Kept /\ v # w /\ Number[v] <= Number[w]
    BY <1>3
  <2> QED BY <1>0, <2>1, RowTypes
<1> DEFINE max == MaximumAllowedFilesize(Limits, Kept, doomed, Size)
           extra == ExtraSpace(Limits)
           one == Limits.maxOneVersionSize
           used == Above(doomed)
           S == Kept \ doomed
<1>5. max \in Nat /\ used \in Nat /\ extra \in Int /\ one \in Nat
  BY <1>0, <1>1, RowTypes, LimitsTypes, AboveType, AllowedIsAtLeastOne
<1>6. IF extra = 0 THEN max = one ELSE max = (extra - used) + one /\ ~(extra - used < 0)
  BY <1>1 DEF MaximumAllowedFilesize, IsCorrupted, RemainedExtraSpace, Above
<1>7. IsFiniteSet(S) /\ Cardinality(S) \in Nat
  BY <1>0, RowTypes, FS_Difference, FS_CardinalityType
<1>8. extra = 0 => used = 0
  <2> SUFFICES ASSUME extra = 0 PROVE used = 0
    OBVIOUS
  <2> DEFINE above == [v \in S |-> IF Size[v] > one THEN Size[v] - one ELSE 0]
  <2>1. \A v \in S : above[v] = 0
    <3>1. \A v \in Kept : Size[v] <= one /\ Size[v] \in Nat
      BY <1>0, RowTypes DEF UploadFits
    <3> HIDE DEF one
    <3> QED BY <1>5, <3>1
  <2>2. used = Total(above, S)
    BY DEF Above, SpaceAboveLimit
  <2> HIDE DEF above, S, used
  <2> QED BY <1>7, <2>1, <2>2, TotalOfZeros
<1>9. upload' = [stage |-> "streaming", toDelete |-> doomed, number |-> latest + 1,
                 allowed |-> max]
  <2>1. NextVersionNumber(Kept, Number) = latest + 1
    <3> DEFINE h == HighestNumber(Kept, Number)
    <3>1. h \in Nat /\ (\A v \in Kept : Number[v] <= h) /\ (h = 0 \/ \E v \in Kept : Number[v] = h)
      BY <1>0, RowTypes, HighestIsReached, Kept \in SUBSET Kept
    <3>2. NextVersionNumber(Kept, Number) = h + 1
      BY DEF NextVersionNumber
    <3> HIDE DEF h
    <3>3. h <= latest
      BY <1>0, <3>1, RowTypes
    <3>4. latest <= h
      BY <1>0, <3>1, RowTypes DEF RowsFit
    <3> QED BY <1>0, <3>1, <3>2, <3>3, <3>4, RowTypes
  <2> QED BY <1>1, <2>1
<1>10. Above(doomed)' = used
  BY <1>2 DEF Above
<1> HIDE DEF max, used
<1>11. used <= extra /\ max <= one + extra - used /\ (extra = 0 => max <= one)
  <2> HIDE DEF extra, one
  <2> QED BY <1>5, <1>6, <1>8
<1>12. UploadFits'
  <2>1. extra = 0 => \A v \in Kept : Size[v] <= one
    BY <1>0 DEF UploadFits
  <2>2. upload'.stage = "streaming" /\ upload'.toDelete = doomed /\ upload'.allowed = max
    BY <1>9
  <2>3. Above(upload.toDelete)' = used
    BY <1>10, <2>2 DEF Above
  <2> QED BY <1>2, <1>11, <2>1, <2>2, <2>3 DEF UploadFits
<1>13. PlanFits'
  <2>1. latest < MaxVersions
    BY DEF BeginUpload
  <2> QED BY <1>2, <1>3, <1>4, <1>9, <2>1 DEF PlanFits
<1>14. HealthTypeOK'
  <2>1. doomed \subseteq 1..latest
    BY <1>0, <1>3, RowTypes
  <2> QED BY <1>0, <1>2, <1>5, <1>9, <2>1 DEF HealthTypeOK
<1>15. RowsFit' /\ CheckFits' /\ SpaceFits'
  BY <1>0, <1>2 DEF RowsFit, CheckFits, SpaceFits, Above
<1> QED BY <1>12, <1>13, <1>14, <1>15 DEF HealthInv

\* An upload is over.
LEMMA EndKeeps == ASSUME HealthInv, EndUpload PROVE HealthInv'
<1>1. upload' = NoUpload /\ UNCHANGED <<now, rows, latest, check>> /\ Kept' = Kept /\ Size' = Size
  BY DEF EndUpload, registry, Kept, Size
<1>2. upload'.stage = "none"
  BY <1>1 DEF NoUpload
<1>3. HealthTypeOK'
  BY <1>1 DEF HealthInv, HealthTypeOK, NoUpload
<1>4. RowsFit' /\ CheckFits' /\ SpaceFits'
  BY <1>1 DEF HealthInv, RowsFit, CheckFits, SpaceFits, Above
<1>5. PlanFits' /\ UploadFits'
  BY <1>1, <1>2 DEF HealthInv, PlanFits, UploadFits
<1> QED BY <1>3, <1>4, <1>5 DEF HealthInv

\* What a registration does to the rows
LEMMA RegisterAdds ==
  ASSUME HealthTypeOK, PlanFits, NEW bytes \in Sizes, RegisterUpload(bytes)
  PROVE  /\ latest' = latest + 1 /\ latest' \notin Kept /\ Kept' = Kept \cup {latest'}
         /\ rows'[latest'] = [created |-> now, size |-> bytes]
         /\ \A v \in Kept : rows'[v] = rows[v] /\ v < latest'
         /\ UNCHANGED <<now, check>>
         /\ upload.stage = "streaming" /\ bytes <= upload.allowed
         /\ upload'.stage = "rotating" /\ upload'.toDelete = upload.toDelete
         /\ upload'.allowed = upload.allowed
         /\ upload' \in [stage : {"none", "streaming", "rotating"}, number : Nat,
                         allowed : Nat, toDelete : SUBSET (1..latest)]
<1>1. latest \in Nat /\ Kept \subseteq 1..latest
  BY RowTypes
<1>2. latest' = latest + 1 /\ latest' = upload.number
  BY DEF RegisterUpload, PlanFits
<1>3. latest' \notin Kept /\ \A v \in Kept : v < latest'
  BY <1>1, <1>2
<1>4. rows' = [v \in Kept \cup {latest'} |->
                  IF v = latest' THEN [created |-> now, size |-> bytes] ELSE rows[v]]
  BY <1>2 DEF RegisterUpload
<1>5. Kept' = Kept \cup {latest'}
  BY <1>4 DEF Kept
<1>6. upload.stage = "streaming" /\ bytes <= upload.allowed /\ UNCHANGED <<now, check>>
      /\ upload' = [upload EXCEPT !.stage = "rotating"]
  BY DEF RegisterUpload
<1>7. upload \in [stage : {"none", "streaming", "rotating"}, number : Nat,
                  allowed : Nat, toDelete : SUBSET (1..latest)]
  BY DEF HealthTypeOK
<1>8. /\ upload'.stage = "rotating" /\ upload'.toDelete = upload.toDelete
      /\ upload'.allowed = upload.allowed
      /\ upload' \in [stage : {"none", "streaming", "rotating"}, number : Nat,
                      allowed : Nat, toDelete : SUBSET (1..latest)]
  BY <1>6, <1>7
<1>9. rows'[latest'] = [created |-> now, size |-> bytes] /\ \A v \in Kept : rows'[v] = rows[v]
  BY <1>3, <1>4
<1> QED BY <1>2, <1>3, <1>5, <1>6, <1>8, <1>9

\* What a file of so many bytes takes of the extra space
Over(bytes) == IF bytes > Limits.maxOneVersionSize THEN bytes - Limits.maxOneVersionSize ELSE 0

\* The space in use with one version more
LEMMA SpaceAdds ==
  ASSUME NEW S, IsFiniteSet(S), NEW x, x \notin S, NEW before, NEW after,
         \A v \in S : before[v] \in Nat /\ after[v] = before[v], after[x] \in Nat
  PROVE  SpaceAboveLimit(Limits, S \cup {x}, after) =
            SpaceAboveLimit(Limits, S, before) + Over(after[x])
<1> DEFINE one == Limits.maxOneVersionSize
           T == S \cup {x}
           f == [v \in S |-> IF before[v] > one THEN before[v] - one ELSE 0]
           g == [v \in T |-> IF after[v] > one THEN after[v] - one ELSE 0]
<1>0. one \in Nat
  BY LimitsTypes
<1>1. SpaceAboveLimit(Limits, T, after) = Total(g, T) /\ SpaceAboveLimit(Limits, S, before) = Total(f, S)
  BY DEF SpaceAboveLimit
<1>2. \A v \in S : f[v] \in Int /\ g[v] = f[v]
  <2> HIDE DEF one
  <2> QED BY <1>0
<1>3. \A v \in T : g[v] \in Int
  <2> HIDE DEF one
  <2> QED BY <1>0
<1>4. g[x] = Over(after[x])
  BY DEF Over
<1> HIDE DEF f, g
<1>5. Total(f, S) = Total(g, S)
  BY <1>2, TotalAgrees
<1>6. Total(g, S \cup {x}) = g[x] + Total(g, S)
  BY <1>3, TotalAdds
<1>7. Total(g, S) \in Int
  BY <1>3, TotalTakesOut
<1>8. g[x] \in Int
  BY <1>3
<1> QED BY <1>1, <1>4, <1>5, <1>6, <1>7, <1>8

\* The space in use by versions that stay as they are
LEMMA SpaceStays ==
  ASSUME NEW S, IsFiniteSet(S), NEW before, NEW after,
         \A v \in S : before[v] \in Nat /\ after[v] = before[v]
  PROVE  SpaceAboveLimit(Limits, S, after) = SpaceAboveLimit(Limits, S, before)
<1> DEFINE one == Limits.maxOneVersionSize
           f == [v \in S |-> IF before[v] > one THEN before[v] - one ELSE 0]
           g == [v \in S |-> IF after[v] > one THEN after[v] - one ELSE 0]
<1>0. one \in Nat
  BY LimitsTypes
<1>1. SpaceAboveLimit(Limits, S, after) = Total(g, S) /\ SpaceAboveLimit(Limits, S, before) = Total(f, S)
  BY DEF SpaceAboveLimit
<1>2. \A v \in S : f[v] \in Int /\ g[v] = f[v]
  <2> HIDE DEF one
  <2> QED BY <1>0
<1> HIDE DEF f, g
<1> QED BY <1>1, <1>2, TotalAgrees

\* While an upload rotates, what exceeds the extra space is what it will delete.
LEMMA PlanLeavesSpace ==
  PlanFits' /\ UploadFits' /\ upload'.stage = "rotating" => SpaceFits'
<1> SUFFICES ASSUME PlanFits', UploadFits', upload'.stage = "rotating" PROVE SpaceFits'
  OBVIOUS
<1>1. PICK D : D = upload'.toDelete
  OBVIOUS
<1>2. D \subseteq Kept' /\ (D # {} => Cardinality(Kept' \ D) >= Limits.maxBackupsCount)
      /\ latest' \in Kept' \ D
  BY <1>1 DEF PlanFits
<1>3. SpaceAboveLimit(Limits, Kept' \ D, Size') <= ExtraSpace(Limits)
  BY <1>1 DEF UploadFits, Above
<1> QED BY <1>2, <1>3 DEF SpaceFits, Above

\* A version is registered: as new as can be, and within the limit of its stream.
LEMMA RegisterKeeps ==
  ASSUME HealthInv, NEW bytes \in Sizes, RegisterUpload(bytes) PROVE HealthInv'
<1>0. HealthTypeOK /\ RowsFit /\ PlanFits /\ CheckFits /\ UploadFits
  BY DEF HealthInv
<1> DEFINE D == upload.toDelete
<1>1. /\ latest' = latest + 1 /\ latest' \notin Kept /\ Kept' = Kept \cup {latest'}
      /\ rows'[latest'] = [created |-> now, size |-> bytes]
      /\ \A v \in Kept : rows'[v] = rows[v] /\ v < latest'
      /\ UNCHANGED <<now, check>>
      /\ upload.stage = "streaming" /\ bytes <= upload.allowed
      /\ upload'.stage = "rotating" /\ upload'.toDelete = D
      /\ upload'.allowed = upload.allowed
      /\ upload' \in [stage : {"none", "streaming", "rotating"}, number : Nat,
                      allowed : Nat, toDelete : SUBSET (1..latest)]
  BY <1>0, RegisterAdds
<1>2. now \in Nat /\ latest \in Nat /\ Kept \subseteq 1..latest /\ IsFiniteSet(Kept)
  BY <1>0, RowTypes
<1>3. /\ D \subseteq Kept /\ latest < MaxVersions
      /\ \A v \in D, w \in Kept \ D : v < w
      /\ D # {} => Cardinality(Kept \ D) >= Limits.maxBackupsCount - 1
  BY <1>0, <1>1 DEF PlanFits
<1> HIDE DEF D
<1>4. HealthTypeOK'
  <2>1. latest' \in 0..MaxVersions /\ 1..latest \subseteq 1..latest' /\ latest' \in 1..latest'
        /\ 0..latest \subseteq 0..latest'
    BY <1>1, <1>2, <1>3, HealthBoundsAssumption
  <2>2. rows' \in [Kept' -> [created : 0..now, size : Sizes]]
    <3>1. [created |-> now, size |-> bytes] \in [created : 0..now, size : Sizes]
      BY <1>2
    <3>2. \A v \in Kept : rows[v] \in [created : 0..now, size : Sizes]
      BY <1>0 DEF HealthTypeOK
    <3>3. rows' = [v \in Kept \cup {latest'} |->
                      IF v = latest' THEN [created |-> now, size |-> bytes] ELSE rows[v]]
      BY DEF RegisterUpload
    <3> QED BY <1>1, <3>1, <3>2, <3>3
  <2>3. upload' \in [stage : {"none", "streaming", "rotating"}, number : Nat,
                     allowed : Nat, toDelete : SUBSET (1..latest')]
    BY <1>1, <2>1
  <2>4. check \in [stage : {"none", "numbered", "found", "window", "sizes"},
                   number : 0..latest', created : (0..now) \cup {ZeroTime}, healthy : BOOLEAN]
    BY <1>0, <2>1 DEF HealthTypeOK
  <2> QED BY <1>0, <1>1, <1>2, <2>1, <2>2, <2>3, <2>4 DEF HealthTypeOK
<1>5. RowsFit'
  <2>1. \A v, w \in Kept' : v <= w => rows'[v].created <= rows'[w].created
    <3> SUFFICES ASSUME NEW v \in Kept', NEW w \in Kept', v <= w
                 PROVE  rows'[v].created <= rows'[w].created
      OBVIOUS
    <3>1. \A u \in Kept : rows[u].created \in 0..now
      BY <1>0, RowTypes
    <3>2. CASE w = latest'
      <4>1. rows'[w].created = now
        BY <1>1, <3>2
      <4>2. rows'[v].created \in 0..now
        BY <1>1, <1>2, <3>1
      <4> QED BY <1>2, <4>1, <4>2
    <3>3. CASE w # latest'
      <4>1. w \in Kept /\ v \in Kept
        <5>1. w \in Kept
          BY <1>1, <3>3
        <5>2. v # latest'
          BY <1>1, <1>2, <5>1
        <5> QED BY <1>1, <5>1, <5>2
      <4> QED BY <1>0, <1>1, <4>1 DEF RowsFit
    <3> QED BY <3>2, <3>3
  <2>2. \A v \in 1..latest' : v \notin Kept' => latest' - v >= Limits.maxBackupsCount
    <3> SUFFICES ASSUME NEW v \in 1..latest', v \notin Kept'
                 PROVE  latest' - v >= Limits.maxBackupsCount
      OBVIOUS
    <3>1. v \in 1..latest /\ v \notin Kept
      BY <1>1, <1>2
    <3>2. latest - v >= Limits.maxBackupsCount
      BY <1>0, <3>1 DEF RowsFit
    <3> QED BY <1>1, <1>2, <3>1, <3>2, LimitsTypes
  <2>3. latest' \in Kept'
    BY <1>1
  <2> QED BY <2>1, <2>2, <2>3 DEF RowsFit
<1>6. Kept' \ D = (Kept \ D) \cup {latest'} /\ latest' \notin Kept \ D /\ IsFiniteSet(Kept \ D)
  BY <1>1, <1>2, <1>3, FS_Difference
<1>7. Cardinality(Kept' \ D) = Cardinality(Kept \ D) + 1
  BY <1>6, FS_AddElement
<1>8. PlanFits'
  <2>1. \A v \in D, w \in Kept' \ D : v < w
    BY <1>1, <1>3, <1>6
  <2>2. Cardinality(Kept \ D) \in Nat /\ Limits.maxBackupsCount \in Nat
    BY <1>6, FS_CardinalityType, LimitsTypes
  <2>3. D # {} => Cardinality(Kept' \ D) >= Limits.maxBackupsCount
    BY <1>3, <1>7, <2>2
  <2>4. D \subseteq Kept' /\ latest' \in Kept' \ D
    BY <1>1, <1>3, <1>6
  <2> QED BY <1>1, <2>1, <2>3, <2>4 DEF PlanFits
<1>9. CheckFits'
  <2>1. check.number \in 0..latest /\ check.created \in (0..now) \cup {ZeroTime}
    BY <1>0 DEF HealthTypeOK
  <2>2. check.number # latest' /\ check.created <= now
    BY <1>1, <1>2, <2>1, HealthBoundsAssumption
  <2>3. latest' > 0
    BY <1>1, <1>2
  <2> QED BY <1>0, <1>1, <2>2, <2>3 DEF CheckFits
<1>10. UploadFits'
  <2> DEFINE one == Limits.maxOneVersionSize
             extra == ExtraSpace(Limits)
             used == Above(D)
             more == Over(bytes)
  <2>1. /\ \A v \in Kept : Size[v] \in Nat /\ Size'[v] = Size[v]
        /\ Size'[latest'] = bytes /\ bytes \in Nat
    BY <1>0, <1>1, RowTypes, HealthBoundsAssumption DEF Size
  <2>2. SpaceAboveLimit(Limits, (Kept \ D) \cup {latest'}, Size') = used + more
    <3>0. PICK S, x, f, g : S = Kept \ D /\ x = latest' /\ f = Size /\ g = Size'
      OBVIOUS
    <3>1. IsFiniteSet(S) /\ x \notin S /\ g[x] = bytes /\ g[x] \in Nat
          /\ \A v \in S : f[v] \in Nat /\ g[v] = f[v]
      BY <1>6, <2>1, <3>0
    <3>2. used = SpaceAboveLimit(Limits, S, f)
      BY <3>0 DEF Above
    <3> HIDE DEF used
    <3>3. SpaceAboveLimit(Limits, S \cup {x}, g) = SpaceAboveLimit(Limits, S, f) + Over(g[x])
      BY ONLY <3>1, SpaceAdds, SMTT(30)
    <3>4. SpaceAboveLimit(Limits, S \cup {x}, g) = used + more
      BY <3>1, <3>2, <3>3
    <3> QED BY <3>0, <3>4
  <2>3. Above(upload.toDelete)' = used + more
    BY <1>1, <1>6, <2>2 DEF Above
  <2>4. /\ used <= extra /\ upload.allowed <= one + extra - used
        /\ extra = 0 => upload.allowed <= one /\ \A v \in Kept : Size[v] <= one
    BY <1>0, <1>1 DEF UploadFits, D
  <2>5. used \in Nat /\ one \in Nat /\ extra \in Int /\ upload.allowed \in Nat
    BY <1>0, AboveType, LimitsTypes DEF HealthTypeOK
  <2>6. bytes <= upload.allowed
    BY <1>1
  <2>7. used + more <= extra /\ (extra = 0 => bytes <= one)
    <3>1. more = IF bytes > one THEN bytes - one ELSE 0
      BY DEF Over
    <3> HIDE DEF used, one, extra, more
    <3> QED BY <2>1, <2>4, <2>5, <2>6, <3>1
  <2>8. extra = 0 => \A v \in Kept' : Size'[v] <= one
    BY <1>1, <2>1, <2>4, <2>7
  <2> QED BY <1>1, <2>3, <2>7, <2>8 DEF UploadFits
<1>11. SpaceFits'
  BY <1>1, <1>8, <1>10, PlanLeavesSpace
<1> QED BY <1>4, <1>5, <1>8, <1>9, <1>10, <1>11 DEF HealthInv

\* What a rotation does to the rows
LEMMA RotateTakes ==
  ASSUME HealthTypeOK, NEW v, RotateUpload(v)
  PROVE  /\ v \in upload.toDelete /\ Kept' = Kept \ {v}
         /\ \A w \in Kept \ {v} : rows'[w] = rows[w]
         /\ UNCHANGED <<now, latest, check>>
         /\ upload.stage = "rotating" /\ upload'.stage = "rotating"
         /\ upload'.toDelete = upload.toDelete \ {v}
         /\ HealthTypeOK'
<1>1. /\ upload.stage = "rotating" /\ v \in upload.toDelete
      /\ rows' = [w \in Kept \ {v} |-> rows[w]]
      /\ upload' = [upload EXCEPT !.toDelete = upload.toDelete \ {v}]
      /\ UNCHANGED <<now, latest, check>>
  BY DEF RotateUpload
<1>2. Kept' = Kept \ {v}
  BY <1>1 DEF Kept
<1>3. upload \in [stage : {"none", "streaming", "rotating"}, number : Nat,
                  allowed : Nat, toDelete : SUBSET (1..latest)]
  BY DEF HealthTypeOK
<1>4. /\ upload'.stage = "rotating" /\ upload'.toDelete = upload.toDelete \ {v}
      /\ upload' \in [stage : {"none", "streaming", "rotating"}, number : Nat,
                      allowed : Nat, toDelete : SUBSET (1..latest)]
  BY <1>1, <1>3
<1>5. rows' \in [Kept' -> [created : 0..now, size : Sizes]]
  BY <1>1, <1>2 DEF HealthTypeOK
<1>6. HealthTypeOK'
  BY <1>1, <1>2, <1>4, <1>5 DEF HealthTypeOK
<1> QED BY <1>1, <1>2, <1>4, <1>6

\* The oldest version is given up, as many newer ones as the collection keeps stay.
LEMMA RotateGivesUp ==
  ASSUME HealthInv, NEW v, RotateUpload(v)
  PROVE  /\ v \in Kept
         /\ Cardinality({m \in Kept : m > v}) >= Limits.maxBackupsCount
         /\ latest - v >= Limits.maxBackupsCount
<1>0. HealthTypeOK /\ PlanFits
  BY DEF HealthInv
<1> DEFINE D == upload.toDelete
           stays == Kept \ D
           newer == {m \in Kept : m > v}
<1>1. v \in D /\ upload.stage = "rotating"
  BY <1>0, RotateTakes
<1>2. D \subseteq Kept /\ (\A u \in D, w \in stays : u < w)
      /\ Cardinality(stays) >= Limits.maxBackupsCount
  BY <1>0, <1>1 DEF PlanFits
<1>3. latest \in Nat /\ Kept \subseteq 1..latest /\ IsFiniteSet(Kept) /\ v \in Kept
  BY <1>0, <1>1, <1>2, RowTypes
<1>4. stays \subseteq newer /\ newer \subseteq (v + 1)..latest
  <2>1. ASSUME NEW w \in stays PROVE w \in newer
    <3>1. v < w /\ w \in Kept /\ w \in 1..latest
      BY <1>1, <1>2, <1>3
    <3> QED BY <1>3, <3>1
  <2>2. ASSUME NEW w \in newer PROVE w \in (v + 1)..latest
    BY <1>3, <2>2
  <2> QED BY <2>1, <2>2
<1>5. v + 1 \in Int /\ latest \in Int /\ v \in 1..latest
  BY <1>3
<1>6. IsFiniteSet((v + 1)..latest) /\ Cardinality((v + 1)..latest) =
         IF v + 1 > latest THEN 0 ELSE latest - (v + 1) + 1
  BY <1>5, FS_Interval
<1> HIDE DEF stays, newer
<1>7. IsFiniteSet(newer) /\ Cardinality(newer) <= Cardinality((v + 1)..latest)
  BY <1>4, <1>6, FS_Subset
<1>8. IsFiniteSet(stays) /\ Cardinality(stays) <= Cardinality(newer)
  BY <1>4, <1>7, FS_Subset
<1>9. Cardinality(newer) \in Nat /\ Cardinality(stays) \in Nat
  BY <1>7, <1>8, FS_CardinalityType
<1>10. Cardinality((v + 1)..latest) = latest - v
  BY <1>5, <1>6
<1> QED BY <1>2, <1>3, <1>5, <1>7, <1>8, <1>9, <1>10, LimitsTypes DEF newer

\* A version is rotated away.
LEMMA RotateKeeps == ASSUME HealthInv, NEW v, RotateUpload(v) PROVE HealthInv'
<1>0. HealthTypeOK /\ RowsFit /\ PlanFits /\ CheckFits /\ UploadFits
  BY DEF HealthInv
<1> DEFINE D == upload.toDelete
           stays == Kept \ D
<1>1. /\ v \in D /\ Kept' = Kept \ {v}
      /\ \A w \in Kept \ {v} : rows'[w] = rows[w]
      /\ UNCHANGED <<now, latest, check>>
      /\ upload.stage = "rotating" /\ upload'.stage = "rotating"
      /\ upload'.toDelete = D \ {v}
      /\ HealthTypeOK'
  BY <1>0, RotateTakes
<1>2. /\ D \subseteq Kept /\ (\A u \in D, w \in stays : u < w)
      /\ Cardinality(stays) >= Limits.maxBackupsCount
      /\ latest \in stays
  BY <1>0, <1>1 DEF PlanFits
<1>3. Kept' \ (D \ {v}) = stays
  BY <1>1, <1>2
<1>4. RowsFit'
  <2>1. latest - v >= Limits.maxBackupsCount
    BY RotateGivesUp
  <2> QED BY <1>0, <1>1, <1>2, <2>1 DEF RowsFit
<1>5. PlanFits'
  <2>1. (Kept \ upload.toDelete)' = stays
    BY <1>1, <1>3
  <2> HIDE DEF stays
  <2> QED BY <1>1, <1>2, <2>1 DEF PlanFits
<1>6. CheckFits'
  BY <1>0, <1>1 DEF CheckFits
<1>7. Above(upload.toDelete)' = Above(D)
  <2> DEFINE f == Size
             g == Size'
  <2>1. IsFiniteSet(stays) /\ \A w \in stays : f[w] \in Nat /\ g[w] = f[w]
    <3>1. \A w \in stays : w \in Kept /\ w \in Kept' /\ rows'[w] = rows[w]
      BY <1>1
    <3> QED BY <1>0, <3>1, RowTypes, FS_Difference DEF Size
  <2>2. SpaceAboveLimit(Limits, stays, g) = SpaceAboveLimit(Limits, stays, f)
    <3> HIDE DEF stays, f, g
    <3> QED BY <2>1, SpaceStays
  <2> QED BY <1>1, <1>3, <2>2 DEF Above
<1>8. UploadFits'
  <2>1. Above(D) <= ExtraSpace(Limits)
    BY <1>0, <1>1 DEF UploadFits
  <2>2. ExtraSpace(Limits) = 0 => \A w \in Kept' : Size'[w] <= Limits.maxOneVersionSize
    BY <1>0, <1>1 DEF UploadFits, Size
  <2> QED BY <1>1, <1>7, <2>1, <2>2 DEF UploadFits
<1>9. SpaceFits'
  BY <1>1, <1>5, <1>8, PlanLeavesSpace
<1> QED BY <1>1, <1>4, <1>5, <1>6, <1>8, <1>9 DEF HealthInv

\* Every step keeps the invariant.
LEMMA HealthStep == HealthInv /\ [HealthNext]_healthVars => HealthInv'
<1> SUFFICES ASSUME HealthInv, [HealthNext]_healthVars PROVE HealthInv'
  OBVIOUS
<1>1. CASE Tick
  BY <1>1, TickKeeps
<1>2. ASSUME NEW anytime \in BOOLEAN, BeginUpload(anytime) PROVE HealthInv'
  BY <1>2, BeginKeeps
<1>3. ASSUME NEW bytes \in Sizes, RegisterUpload(bytes) PROVE HealthInv'
  BY <1>3, RegisterKeeps
<1>4. ASSUME NEW v \in 1..latest, RotateUpload(v) PROVE HealthInv'
  BY <1>4, RotateKeeps
<1>5. CASE EndUpload
  BY <1>5, EndKeeps
<1>6. CASE FindHighestNumber \/ FindLatestRow
  BY <1>6, ReadingKeeps
<1>7. CASE FindLatestVersionFails
  BY <1>7, VerdictKeeps DEF FindLatestVersionFails, registry
<1>8. CASE ValidateWindows
  <2>1. BackupWindowValidates \in BOOLEAN
    BY DEF BackupWindowValidates
  <2> QED BY <1>8, <2>1, VerdictKeeps DEF ValidateWindows, registry
<1>9. ASSUME NEW answers \in BOOLEAN, ValidateSizes(answers) PROVE HealthInv'
  <2>1. (answers /\ \A v \in Kept : Size[v] <= Limits.maxOneVersionSize) \in BOOLEAN
    OBVIOUS
  <2> QED BY <1>9, <2>1, VerdictKeeps DEF ValidateSizes, registry
<1>10. ASSUME NEW answers \in BOOLEAN, ValidateSum(answers) PROVE HealthInv'
  <2>1. (answers => SumOfVersionsValidates) \in BOOLEAN
    OBVIOUS
  <2> QED BY <1>10, <2>1, VerdictKeeps DEF ValidateSum, registry
<1>11. CASE UNCHANGED healthVars
  <2>1. UNCHANGED <<now, rows, latest, upload, check>>
    BY <1>11 DEF healthVars, registry
  <2>2. HealthTypeOK' /\ CheckFits'
    BY <2>1 DEF HealthInv, HealthTypeOK, CheckFits, Kept
  <2> QED BY <2>1, <2>2, QuietRegistry DEF HealthInv
<1> QED BY <1>1, <1>2, <1>3, <1>4, <1>5, <1>6, <1>7, <1>8, <1>9, <1>10, <1>11 DEF HealthNext

\* The registry, the uploads and the check keep their invariant.
THEOREM HealthInvariance == HealthSpec => []HealthInv
  BY HealthStarts, HealthStep, PTL DEF HealthSpec

\* Every variable keeps its type: no limit of a stream is negative, and the check
\* never holds a number that was not given out.
THEOREM HealthTypeCorrect == HealthSpec => []HealthTypeOK
<1>1. HealthInv => HealthTypeOK
  BY DEF HealthInv
<1> QED BY <1>1, HealthInvariance, PTL

\* For every document and every size of files: "Summary of all files is ..." can be
\* reported only while a rotation is pending or was broken off.  A sum beyond the
\* limit means versions beyond the extra space, and these are leftovers beside
\* maxBackupsCount others.
THEOREM SumAlarmIsPendingRotation == HealthSpec => []SumAlarmMeansRotationPending
<1>1. HealthInv => SumAlarmMeansRotationPending
  <2> SUFFICES ASSUME HealthInv, ~(Cardinality(Kept) > Limits.maxBackupsCount)
               PROVE  SumOfVersionsValidates
    BY DEF SumAlarmMeansRotationPending
  <2> DEFINE one == Limits.maxOneVersionSize
             limit == Limits.maxBackupsCount
             sum == Total(Size, Kept)
             count == Cardinality(Kept)
  <2>0. IsFiniteSet(Kept) /\ count \in Nat /\ (\A v \in Kept : Size[v] \in Nat)
        /\ one \in Nat /\ limit \in Nat /\ Limits.maxCollectionSize \in Nat
    BY RowTypes, LimitsTypes DEF HealthInv
  <2>1. CASE Kept = {}
    <3>1. sum = 0
      BY <2>1, TotalOfNone
    <3> HIDE DEF sum
    <3>2. sum <= Limits.maxCollectionSize
      BY <2>0, <3>1
    <3> QED BY <3>2 DEF SumOfVersionsValidates, sum
  <2>2. CASE Kept # {}
    <3>1. PICK D \in SUBSET Kept : /\ Above(D) <= ExtraSpace(Limits)
                                   /\ D # {} => Cardinality(Kept \ D) >= limit
      BY <2>2 DEF HealthInv, SpaceFits
    <3>2. D = {}
      <4> SUFFICES ASSUME D # {} PROVE FALSE
        OBVIOUS
      <4>1. Kept \ D \in SUBSET Kept /\ Kept \ D # Kept
        BY <3>1
      <4>2. Cardinality(Kept \ D) <= count /\ Cardinality(Kept \ D) # count
        BY <2>0, <4>1, FS_Subset
      <4>3. Cardinality(Kept \ D) \in Nat
        BY <2>0, FS_Difference, FS_CardinalityType
      <4> QED BY <2>0, <3>1, <4>2, <4>3
    <3> DEFINE above == [v \in Kept |-> IF Size[v] > one THEN Size[v] - one ELSE 0]
    <3>3. Above(D) = Total(above, Kept)
      <4>1. Kept \ D = Kept
        BY <3>2
      <4> QED BY <4>1 DEF Above, SpaceAboveLimit
    <3>4. \A v \in Kept : Size[v] \in Int /\ above[v] \in Int /\ Size[v] <= one + above[v]
      <4> HIDE DEF one
      <4> QED BY <2>0
    <3>5. sum <= one * count + Total(above, Kept)
      <4> HIDE DEF above, one
      <4> QED BY <2>0, <3>4, TotalIsBounded
    <3>6. sum \in Int /\ Total(above, Kept) \in Int
      <4> HIDE DEF above
      <4> QED BY <2>0, <3>4, TotalTakesOut
    <3>7. count <= limit /\ ExtraSpace(Limits) = Limits.maxCollectionSize - limit * one
      BY <2>0 DEF ExtraSpace
    <3> HIDE DEF sum, one, limit, count, above
    <3>8. one * count <= one * limit /\ limit * one = one * limit
          /\ one * count \in Int /\ one * limit \in Int
      BY <2>0, <3>7
    <3> DEFINE a == one * count
               b == one * limit
               used == Total(above, Kept)
    <3>9. a <= b /\ a \in Int /\ b \in Int /\ sum <= a + used
          /\ used <= Limits.maxCollectionSize - b /\ used \in Int
      BY <3>1, <3>3, <3>5, <3>6, <3>7, <3>8
    <3> HIDE DEF a, b, used
    <3>10. sum <= Limits.maxCollectionSize
      BY <2>0, <3>6, <3>9
    <3> QED BY <3>10 DEF SumOfVersionsValidates, sum
  <2> QED BY <2>1, <2>2
<1> QED BY <1>1, HealthInvariance, PTL

-----------------------------------------------------------------------------
(* The window check *)

\* The step that validates the windows, seen from its effect
LEMMA WindowVerdict ==
  ASSUME HealthInv, [HealthNext]_healthVars, check.stage = "found", check'.stage = "window"
  PROVE  check'.healthy <=> BackupWindowValidates
<1>0. HealthTypeOK /\ CheckFits
  BY DEF HealthInv
<1>1. CASE ValidateWindows
  <2>1. check.healthy = TRUE
    BY <1>0 DEF CheckFits, HealthTypeOK
  <2>2. check' = [stage |-> "window", number |-> 0, created |-> ZeroTime,
                  healthy |-> check.healthy /\ BackupWindowValidates]
    BY <1>1 DEF ValidateWindows, Validated, NoCheck
  <2> QED BY <2>1, <2>2
<1>2. CASE check' = check
  BY <1>2
<1>3. CASE Tick \/ EndUpload \/ FindHighestNumber \/ FindLatestRow \/ FindLatestVersionFails
  BY <1>2, <1>3 DEF Tick, EndUpload, FindHighestNumber, FindLatestRow, FindLatestVersionFails
<1>4. ASSUME NEW x \in BOOLEAN, ValidateSizes(x) \/ ValidateSum(x) PROVE FALSE
  BY <1>4 DEF ValidateSizes, ValidateSum
<1>5. ASSUME NEW x \in BOOLEAN, BeginUpload(x) PROVE check' = check
  BY <1>5 DEF BeginUpload
<1>6. ASSUME NEW bytes \in Sizes, RegisterUpload(bytes) PROVE check' = check
  BY <1>6 DEF RegisterUpload
<1>7. ASSUME NEW v \in 1..latest, RotateUpload(v) PROVE check' = check
  BY <1>7 DEF RotateUpload
<1>8. CASE UNCHANGED healthVars
  BY <1>2, <1>8 DEF healthVars
<1> QED BY <1>1, <1>2, <1>3, <1>4, <1>5, <1>6, <1>7, <1>8 DEF HealthNext

\* WindowMatches in terms of the latest slots
LEMMA MatchesLatest ==
  ASSUME HealthTypeOK, NEW i \in DOMAIN Windows
  PROVE  /\ HasStart(i) <=> SettledStart(Windows[i], now) # {}
         /\ WindowMatches(i) <=>
               \E start \in SettledStart(Windows[i], now) :
                  \/ check.created > start /\ check.created < start + Windows[i].duration
                  \/ now > start /\ now < start + Windows[i].duration
<1>1. IsWindow(Windows[i]) /\ now \in Int
  BY WindowsAreWindows, RowTypes
<1>2. GetStartingDateOfPreviousScheduledRun(Windows[i], now) = SettledStart(Windows[i], now)
  BY <1>1, SearchFindsSettled
<1> QED BY <1>2 DEF HasStart, WindowMatches, IsInPreviousWindowTimeSlot

\* The window check of a collection with windows, quiet outside the slots, has a
\* copy no older than the latest slot of a window behind it: whatever the windows
\* and the limits, and whatever happened between its readings.
THEOREM QuietIsFresh ==
  ASSUME Windows # <<>> PROVE HealthSpec => QuietOnlyOverFreshCopies
<1>1. ASSUME HealthInv, [HealthNext]_healthVars,
             check.stage = "found", check'.stage = "window", check'.healthy
      PROVE  \/ Timely(now)
             \/ \E i \in DOMAIN Windows, v \in Kept :
                   \E start \in SettledStart(Windows[i], now) : start < rows[v].created
  <2>0. HealthTypeOK /\ CheckFits /\ RowsFit
    BY <1>1 DEF HealthInv
  <2>1. PICK i \in DOMAIN Windows : WindowMatches(i)
    BY <1>1, WindowVerdict DEF BackupWindowValidates
  <2>2. PICK start \in SettledStart(Windows[i], now) :
           \/ check.created > start /\ check.created < start + Windows[i].duration
           \/ now > start /\ now < start + Windows[i].duration
    BY <2>0, <2>1, MatchesLatest
  <2>3. start \in Int /\ ZeroTime <= start /\ ZeroTime \in Int /\ Windows[i].duration \in Nat
        /\ now \in Nat
    <3>1. IsWindow(Windows[i]) /\ start \in Windows[i].runs
      BY WindowsAreWindows DEF SettledStart
    <3> QED BY <2>0, <3>1, WindowsAssumption, HealthBoundsAssumption, RowTypes DEF IsWindow
  <2>4. CASE now > start /\ now < start + Windows[i].duration
    BY <2>2, <2>3, <2>4 DEF Timely
  <2>5. CASE check.created > start
    <3>1. check.number \in 0..latest /\ check.created \in (0..now) \cup {ZeroTime}
          /\ latest \in Nat /\ Kept \subseteq 1..latest
      BY <2>0, RowTypes DEF HealthTypeOK
    <3>2. check.created # ZeroTime
      BY <2>3, <2>5
    <3>3. latest > 0
      BY <1>1, <2>0, <3>2 DEF CheckFits
    <3>4. latest \in Kept /\ latest >= check.number
      BY <2>0, <3>1, <3>3 DEF RowsFit
    <3>5. check.created <= rows[latest].created /\ rows[latest].created \in 0..now
      BY <1>1, <2>0, <3>4, RowTypes DEF CheckFits
    <3>6. start < rows[latest].created
      BY <2>3, <2>5, <3>1, <3>2, <3>5
    <3> QED BY <2>2, <3>4, <3>6
  <2> QED BY <2>2, <2>4, <2>5
<1>2. HealthInv /\ [HealthNext]_healthVars =>
         [check.stage = "found" /\ check'.stage = "window" /\ check'.healthy =>
             \/ Timely(now)
             \/ \E i \in DOMAIN Windows, v \in Kept :
                   \E start \in SettledStart(Windows[i], now) : start < rows[v].created]_healthVars
  BY <1>1
<1> QED BY <1>2, HealthStarts, HealthStep, PTL DEF HealthSpec, QuietOnlyOverFreshCopies

\* The window check raises no false alarm, whatever the windows and the limits: only
\* outside the slots, and over a copy that was in time only if maxBackupsCount newer
\* ones have been registered since the check began.
THEOREM AlarmsAreTrue == HealthSpec => NoFalseAlarm
<1>1. ASSUME HealthInv, [HealthNext]_healthVars, Alarms,
             \A i \in DOMAIN Windows : SettledStart(Windows[i], now) # {}
      PROVE  /\ ~Timely(now)
             /\ IF check.number \in Kept
                THEN ~Timely(rows[check.number].created)
                ELSE check.number = 0 \/ latest - check.number >= Limits.maxBackupsCount
  <2>0. HealthTypeOK /\ CheckFits /\ RowsFit /\ now \in Nat
    BY <1>1, RowTypes DEF HealthInv
  <2>1. ~BackupWindowValidates /\ check.stage = "found"
    BY <1>1, WindowVerdict DEF Alarms
  <2>2. ASSUME NEW i \in DOMAIN Windows PROVE ~WindowMatches(i)
    <3>1. \A j \in 1..i : j \in DOMAIN Windows
      BY WindowsAreWindows
    <3>2. \A j \in 1..i : HasStart(j)
      BY <1>1, <2>0, <3>1, MatchesLatest
    <3> QED BY <2>1, <3>2 DEF BackupWindowValidates
  <2>3. \A i \in DOMAIN Windows : \A start \in SettledStart(Windows[i], now) :
           /\ ~(check.created > start /\ check.created < start + Windows[i].duration)
           /\ ~(now > start /\ now < start + Windows[i].duration)
    BY <2>0, <2>2, MatchesLatest
  <2>4. \A i \in DOMAIN Windows : \A start \in SettledStart(Windows[i], now) : start \in Int
    BY WindowsAreWindows DEF SettledStart, IsWindow
  <2>5. ~Timely(now)
    BY <2>0, <2>3, <2>4 DEF Timely
  <2>6. CASE check.number \in Kept
    <3>1. check.created = rows[check.number].created /\ check.created \in Int
      BY <2>0, <2>1, <2>6, RowTypes DEF CheckFits
    <3>2. ~Timely(check.created)
      BY <2>3, <2>4, <3>1 DEF Timely
    <3> QED BY <2>5, <2>6, <3>1, <3>2
  <2>7. CASE check.number \notin Kept
    <3>1. check.number \in 0..latest /\ latest \in Nat
      BY <2>0, RowTypes DEF HealthTypeOK
    <3>2. check.number = 0 \/ check.number \in 1..latest
      BY <3>1
    <3> QED BY <2>0, <2>5, <2>7, <3>2 DEF RowsFit
  <2> QED BY <2>6, <2>7
<1>2. HealthInv /\ [HealthNext]_healthVars =>
         [Alarms /\ (\A i \in DOMAIN Windows : SettledStart(Windows[i], now) # {}) =>
             /\ ~Timely(now)
             /\ IF check.number \in Kept
                THEN ~Timely(rows[check.number].created)
                ELSE check.number = 0 \/ latest - check.number >= Limits.maxBackupsCount]_healthVars
  BY <1>1
<1> QED BY <1>2, HealthStarts, HealthStep, PTL DEF HealthSpec, NoFalseAlarm
=============================================================================
