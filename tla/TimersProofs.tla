---------------------------- MODULE TimersProofs ----------------------------
(***************************************************************************)
(* Theorems about Timers: the three timers are exact wherever the counter  *)
(* wraps, for any width of it and any periods that are shorter.            *)
(***************************************************************************)
EXTENDS Timers, TLAPS

USE DEF Readings

-----------------------------------------------------------------------------
(* Arithmetic on readings                                                  *)

(* Both operations stay in the range of the counter.                       *)
LEMMA InRange ==
    ASSUME NEW x \in Readings, NEW y \in Readings
    PROVE  Plus(x, y) \in Readings /\ Minus(x, y) \in Readings
BY TimersAssumption DEF TimersAssumption, Plus, Minus

(* A time set d ahead is d away.                                           *)
LEMMA Ahead ==
    ASSUME NEW t \in Readings, NEW d \in Readings
    PROVE  Minus(Plus(t, d), t) = d /\ Minus(t, t) = 0
BY TimersAssumption DEF TimersAssumption, Plus, Minus

(* Time that passes adds to the distance of a time in the past, ...        *)
LEMMA Since ==
    ASSUME NEW t \in Readings, NEW x \in Readings, NEW g \in Nat,
           Minus(t, x) + g < Wrap
    PROVE  Minus(Plus(t, g), x) = Minus(t, x) + g
BY TimersAssumption DEF TimersAssumption, Plus, Minus

(* ... and takes from that of a time ahead, until it is reached.           *)
LEMMA Until ==
    ASSUME NEW t \in Readings, NEW x \in Readings, NEW g \in Nat, g < Half,
           Minus(x, t) < Half
    PROVE  IF g <= Minus(x, t)
           THEN Minus(x, Plus(t, g)) = Minus(x, t) - g
           ELSE Minus(Plus(t, g), x) = g - Minus(x, t)
BY TimersAssumption DEF TimersAssumption, Plus, Minus

(* The signed comparison of tick tells past from future while both are     *)
(* nearer than half the range.                                             *)
LEMMA SignedComparison ==
    ASSUME NEW t \in Readings, NEW x \in Readings
    PROVE  /\ 0 < Minus(x, t) /\ Minus(x, t) < Half => Minus(t, x) >= Half
           /\ Minus(x, t) = 0 => Minus(t, x) = 0
BY TimersAssumption DEF TimersAssumption, Minus

(* The constants as readings.                                              *)
LEMMA Ranges ==
    /\ HomingMs \in Readings /\ PeriodMs \in Readings /\ DebounceMs \in Readings
    /\ \A gap \in 0..MaxGap : gap \in Readings /\ gap \in Nat /\ gap < Half
    /\ 0 \in 0..MaxGap
    /\ 0 \in Readings
BY TimersAssumption DEF TimersAssumption

-----------------------------------------------------------------------------
(* Types                                                                   *)

LEMMA FlagsStep == TypeOK /\ [Next]_vars => FlagsOK'
<1> SUFFICES ASSUME TypeOK, [Next]_vars PROVE FlagsOK'
  OBVIOUS
<1> USE DEF TypeOK, FlagsOK
<1>1. CASE CmdHome
  BY <1>1, Zenon DEF CmdHome, enterHoming, buttonVars
<1>2. CASE Estop
  BY <1>2, Zenon DEF Estop, buttonVars
<1>3. CASE PollDone
  BY <1>3, Zenon DEF PollDone, homingVars, buttonVars
<1>4. CASE tick
  BY <1>4, Zenon DEF tick, buttonVars
<1>5. CASE maybeBroadcastStatus
  BY <1>5, Zenon DEF maybeBroadcastStatus, homingVars, buttonVars
<1>6. CASE edge
  BY <1>6, Zenon DEF edge, enterHoming, homingVars
<1>7. CASE NextRound
  BY <1>7, Zenon DEF NextRound, homingVars, buttonVars
<1>8. CASE Pass
  BY <1>8, Zenon DEF Pass
<1>9. CASE Push
  BY <1>9, Zenon DEF Push, homingVars, buttonVars
<1>10. CASE UNCHANGED vars
  BY <1>10, Zenon DEF vars, homingVars, buttonVars
<1> QED
  BY <1>1, <1>2, <1>3, <1>4, <1>5, <1>6, <1>7, <1>8, <1>9, <1>10 DEF Next, Loop

LEMMA DataStep == TypeOK /\ [Next]_vars => DataOK'
<1> SUFFICES ASSUME TypeOK, [Next]_vars PROVE DataOK'
  OBVIOUS
<1> USE DEF TypeOK, DataOK
<1>a. Plus(now, HomingMs) \in Readings
  BY InRange, Ranges
<1>1. CASE CmdHome
  BY <1>1, <1>a DEF CmdHome, enterHoming, clockVars, statusVars, buttonVars
<1>2. CASE Estop
  BY <1>2, Ranges DEF Estop, clockVars, statusVars, buttonVars
<1>3. CASE PollDone
  BY <1>3 DEF PollDone, clockVars, homingVars, statusVars, buttonVars
<1>4. CASE tick
  BY <1>4, Ranges DEF tick, clockVars, statusVars, buttonVars
<1>5. CASE maybeBroadcastStatus
  BY <1>5 DEF maybeBroadcastStatus, clockVars, homingVars, statusVars, buttonVars
<1>6. CASE edge
  <2>1. /\ changed' \in Readings /\ rawAge' \in Nat /\ rawLag' \in 0..MaxGap
        /\ pc' = "wait"
    BY <1>6, Ranges DEF edge
  <2>2. /\ homingDeadline' \in Readings /\ homingAge' \in Nat
        /\ homingLag' \in 0..MaxGap
    BY <1>6, <1>a DEF edge, enterHoming, homingVars
  <2> QED
    BY <1>6, <2>1, <2>2 DEF edge, clockVars, statusVars
<1>7. CASE NextRound
  <2>1. Plus(now, lag) \in Readings
    BY InRange, Ranges
  <2> QED
    BY <1>7, <2>1, Ranges DEF NextRound, homingVars, statusVars, buttonVars
<1>8. CASE Pass
  BY <1>8, TimersAssumption DEF TimersAssumption, Pass
<1>9. CASE Push
  BY <1>9 DEF Push, clockVars, homingVars, statusVars, buttonVars
<1>10. CASE UNCHANGED vars
  BY <1>10 DEF vars, clockVars, homingVars, statusVars, buttonVars
<1> QED
  BY <1>1, <1>2, <1>3, <1>4, <1>5, <1>6, <1>7, <1>8, <1>9, <1>10 DEF Next, Loop

-----------------------------------------------------------------------------
(* Homing                                                                  *)

(* The test of tick is exact.                                              *)
LEMMA ReachedExact ==
    ASSUME TypeOK, HomingExact, homing
    PROVE  Reached <=> homingSince >= HomingMs
<1>0. homingSince \in Nat /\ homingSince < HomingMs + MaxGap
  BY DEF HomingExact
<1>00. IF homingSince <= HomingMs
       THEN Minus(homingDeadline, now) = HomingMs - homingSince
       ELSE Minus(now, homingDeadline) = homingSince - HomingMs
  BY DEF HomingExact
<1> HIDE DEF homingSince
<1> USE TimersAssumption DEF TimersAssumption, TypeOK, DataOK
<1>1. CASE homingSince < HomingMs
  <2>1. 0 < Minus(homingDeadline, now) /\ Minus(homingDeadline, now) < Half
    BY <1>1, <1>0, <1>00
  <2> QED
    BY <1>1, <1>0, <2>1, SignedComparison, InRange DEF Reached
<1>2. CASE homingSince = HomingMs
  <2>1. Minus(homingDeadline, now) = 0
    BY <1>2, <1>00
  <2> QED
    BY <1>2, <2>1, SignedComparison DEF Reached
<1>3. CASE homingSince > HomingMs
  BY <1>3, <1>0, <1>00 DEF Reached
<1> QED
  BY <1>0, <1>1, <1>2, <1>3

LEMMA HomingStep ==
    TypeOK /\ HomingExact /\ HomingLeft /\ [Next]_vars
        => (HomingExact /\ HomingLeft)'
<1> SUFFICES ASSUME TypeOK, HomingExact, HomingLeft, [Next]_vars
             PROVE  (HomingExact /\ HomingLeft)'
  OBVIOUS
<1> USE TimersAssumption DEF TimersAssumption
<1>e. ASSUME enterHoming, UNCHANGED clockVars PROVE (HomingExact /\ HomingLeft)'
  <2>1. Minus(homingDeadline', now') = HomingMs
    BY <1>e, Ahead, Ranges DEF enterHoming, clockVars, TypeOK, DataOK
  <2>2. homingSince' = 0
    BY <1>e DEF enterHoming, clockVars, homingSince, TypeOK, DataOK
  <2> HIDE DEF homingSince
  <2> QED
    BY <2>1, <2>2 DEF HomingExact, HomingLeft
<1>0. ASSUME ~homing' PROVE (HomingExact /\ HomingLeft)'
  BY <1>0 DEF HomingExact, HomingLeft
<1>u. ASSUME now' = now, homingSince' = homingSince, homing' = homing,
             homingDeadline' = homingDeadline,
             pc' \in {"status", "button", "wait"} =>
                 pc \in {"status", "button", "wait"}
      PROVE  (HomingExact /\ HomingLeft)'
  BY <1>u DEF HomingExact, HomingLeft
<1>v. ASSUME UNCHANGED <<clockVars, homingVars>>
      PROVE  /\ now' = now /\ homingSince' = homingSince /\ homing' = homing
             /\ homingDeadline' = homingDeadline
  BY <1>v DEF clockVars, homingVars, homingSince
<1>1. CASE CmdHome
  BY <1>1, <1>e DEF CmdHome
<1>2. CASE Estop
  BY <1>2, <1>0 DEF Estop
<1>3. CASE PollDone
  BY <1>3, <1>u, <1>v DEF PollDone
<1>4. CASE tick
  <2>1. CASE homing'
    <3>1. homing /\ ~Reached
      BY <1>4, <2>1, Zenon DEF tick
    <3>2. now' = now /\ homingDeadline' = homingDeadline
          /\ homingSince' = homingSince
      BY <1>4, <2>1 DEF tick, clockVars, homingSince
    <3>3. homingSince < HomingMs
      BY <3>1, ReachedExact DEF homingSince, TypeOK, DataOK
    <3> QED
      BY <3>1, <3>2, <3>3 DEF HomingExact, HomingLeft
  <2> QED
    BY <2>1, <1>0
<1>5. CASE maybeBroadcastStatus
  BY <1>5, <1>u, <1>v DEF maybeBroadcastStatus
<1>6. CASE edge
  <2>1. CASE UNCHANGED homingVars
    BY <1>6, <2>1, <1>u, <1>v DEF edge
  <2> QED
    BY <1>6, <2>1, <1>e DEF edge
<1>7. CASE NextRound
  <2> SUFFICES ASSUME homing' PROVE (HomingExact /\ HomingLeft)'
    BY <1>0
  <2>1. homing
    BY <1>7 DEF NextRound, homingVars
  <2>2. homingSince \in Nat /\ homingSince < HomingMs
    BY <1>7, <2>1 DEF NextRound, HomingLeft, HomingExact
  <2>3. Minus(homingDeadline, now) = HomingMs - homingSince
    BY <2>1, <2>2 DEF HomingExact
  <2>4. homingSince' = homingSince + lag
    BY <1>7 DEF NextRound, homingVars, homingSince, TypeOK, DataOK
  <2>5. pc' = "poll" /\ now' = Plus(now, lag) /\ homingDeadline' = homingDeadline
    BY <1>7 DEF NextRound, homingVars
  <2> HIDE DEF homingSince
  <2>6. IF lag <= HomingMs - homingSince
        THEN Minus(homingDeadline, Plus(now, lag)) = HomingMs - homingSince - lag
        ELSE Minus(Plus(now, lag), homingDeadline) = lag - (HomingMs - homingSince)
    <3>1. lag \in Nat /\ lag < Half
      BY DEF TypeOK, DataOK
    <3>2. Minus(homingDeadline, now) < Half
      BY <2>2, <2>3
    <3>3. now \in Readings /\ homingDeadline \in Readings
      BY DEF TypeOK, DataOK
    <3>4. IF lag <= Minus(homingDeadline, now)
          THEN Minus(homingDeadline, Plus(now, lag))
                 = Minus(homingDeadline, now) - lag
          ELSE Minus(Plus(now, lag), homingDeadline)
                 = lag - Minus(homingDeadline, now)
      BY <3>1, <3>2, <3>3, Until
    <3> QED
      BY <2>3, <3>4
  <2> DEFINE since == homingSince + lag
  <2>7. since \in Nat /\ since < HomingMs + MaxGap
    BY <2>2 DEF TypeOK, DataOK
  <2>8. IF since <= HomingMs
        THEN Minus(homingDeadline, Plus(now, lag)) = HomingMs - since
        ELSE Minus(Plus(now, lag), homingDeadline) = since - HomingMs
    BY <2>2, <2>6 DEF TypeOK, DataOK
  <2>9. homingSince' = since
    BY <2>4
  <2> HIDE DEF since
  <2>10. HomingExact'
    BY <2>5, <2>7, <2>8, <2>9 DEF HomingExact
  <2> QED
    BY <2>5, <2>10 DEF HomingLeft
<1>8. CASE Pass
  <2> SUFFICES ASSUME homing' PROVE (HomingExact /\ HomingLeft)'
    BY <1>0
  <2>1. homingSince' = homingSince
    BY <1>8 DEF Pass, homingSince, TypeOK, DataOK
  <2> QED
    BY <1>8, <2>1, <1>u DEF Pass
<1>9. CASE Push
  BY <1>9, <1>u, <1>v DEF Push
<1>10. CASE UNCHANGED vars
  BY <1>10, <1>u, <1>v DEF vars
<1> QED
  BY <1>1, <1>2, <1>3, <1>4, <1>5, <1>6, <1>7, <1>8, <1>9, <1>10 DEF Next, Loop

-----------------------------------------------------------------------------
(* The status period                                                       *)

LEMMA StatusStep ==
    TypeOK /\ StatusExact /\ StatusLeft /\ [Next]_vars
        => (StatusExact /\ StatusLeft)'
<1> SUFFICES ASSUME TypeOK, StatusExact, StatusLeft, [Next]_vars
             PROVE  (StatusExact /\ StatusLeft)'
  OBVIOUS
<1> USE TimersAssumption DEF TimersAssumption
<1>u. ASSUME UNCHANGED <<now, lastStatusMs>>, statusSince' = statusSince,
             pc' \in {"button", "wait"} => pc \in {"button", "wait"}
      PROVE  (StatusExact /\ StatusLeft)'
  BY <1>u DEF StatusExact, StatusLeft
<1>v. ASSUME UNCHANGED <<clockVars, statusVars>>
      PROVE  UNCHANGED <<now, lastStatusMs>> /\ statusSince' = statusSince
  BY <1>v DEF clockVars, statusVars, statusSince
<1>1. CASE CmdHome
  BY <1>1, <1>u, <1>v DEF CmdHome
<1>2. CASE Estop
  BY <1>2, <1>u, <1>v DEF Estop
<1>3. CASE PollDone
  BY <1>3, <1>u, <1>v DEF PollDone
<1>4. CASE tick
  BY <1>4, <1>u, <1>v DEF tick
<1>5. CASE maybeBroadcastStatus
  <2>1. CASE Due
    <3>1. lastStatusMs' = now /\ now' = now
      BY <1>5, <2>1 DEF maybeBroadcastStatus, clockVars
    <3>2. statusSince' = 0
      BY <1>5, <2>1 DEF maybeBroadcastStatus, clockVars, statusSince, TypeOK, DataOK
    <3>3. Minus(now, now) = 0
      BY Ahead, Ranges DEF TypeOK, DataOK
    <3> HIDE DEF statusSince
    <3> QED
      BY <3>1, <3>2, <3>3 DEF StatusExact, StatusLeft
  <2>2. CASE ~Due
    <3>1. UNCHANGED <<clockVars, statusVars>>
      BY <1>5, <2>2 DEF maybeBroadcastStatus
    <3>2. statusSince < PeriodMs
      BY <2>2, InRange DEF Due, StatusExact, TypeOK, DataOK
    <3> QED
      BY <3>1, <3>2, <1>v DEF StatusExact, StatusLeft
  <2> QED
    BY <2>1, <2>2
<1>6. CASE edge
  BY <1>6, <1>u, <1>v DEF edge
<1>7. CASE NextRound
  <2>1. statusSince < PeriodMs /\ Minus(now, lastStatusMs) = statusSince
    BY <1>7 DEF NextRound, StatusLeft, StatusExact
  <2>2. Minus(Plus(now, lag), lastStatusMs) = statusSince + lag
    <3>1. now \in Readings /\ lastStatusMs \in Readings /\ lag \in Nat /\ lag <= MaxGap
      BY DEF TypeOK, DataOK
    <3>2. Minus(now, lastStatusMs) \in Readings
      BY <3>1, InRange
    <3>3. Minus(now, lastStatusMs) + lag < Wrap
      BY <2>1, <3>1, <3>2
    <3>4. Minus(Plus(now, lag), lastStatusMs) = Minus(now, lastStatusMs) + lag
      BY <3>1, <3>3, Since
    <3> QED
      BY <2>1, <3>4
  <2>3. statusSince' = statusSince + lag
    BY <1>7 DEF NextRound, statusVars, statusSince, TypeOK, DataOK
  <2>4. now' = Plus(now, lag) /\ lastStatusMs' = lastStatusMs /\ pc' = "poll"
    BY <1>7 DEF NextRound, statusVars
  <2>5. statusSince + lag < PeriodMs + MaxGap
    BY <2>1 DEF statusSince, TypeOK, DataOK
  <2> QED
    BY <2>2, <2>3, <2>4, <2>5 DEF StatusExact, StatusLeft
<1>8. CASE Pass
  <2>1. statusSince' = statusSince
    BY <1>8 DEF Pass, statusSince, TypeOK, DataOK
  <2> QED
    BY <1>8, <2>1, <1>u DEF Pass
<1>9. CASE Push
  BY <1>9, <1>u, <1>v DEF Push
<1>10. CASE UNCHANGED vars
  BY <1>10, <1>u, <1>v DEF vars
<1> QED
  BY <1>1, <1>2, <1>3, <1>4, <1>5, <1>6, <1>7, <1>8, <1>9, <1>10 DEF Next, Loop

-----------------------------------------------------------------------------
(* Debouncing                                                              *)

(* A look that finds the line changed settles nothing; one that does not   *)
(* measures from the last change.                                          *)
LEMMA LookAtChange ==
    ASSUME TypeOK, edge, line # raw
    PROVE  /\ changed' = now /\ stable' = stable /\ raw' = line
           /\ stable' # line => rawAge' = 0 /\ rawLag' = lag
<1>1. ~Settled(now)
  BY TimersAssumption, Ahead, Ranges DEF TimersAssumption, TypeOK, DataOK, Settled
<1> QED
  BY <1>1, Zenon DEF edge

LEMMA LookAtSame ==
    ASSUME TypeOK, edge, line = raw
    PROVE  /\ changed' = changed /\ raw' = raw
           /\ stable' = IF Settled(changed) THEN raw ELSE stable
           /\ stable' # raw => rawAge' = rawAge /\ rawLag' = rawLag
BY Zenon DEF edge

LEMMA ButtonStep ==
    TypeOK /\ ButtonExact /\ ButtonLeft /\ [Next]_vars
        => (ButtonExact /\ ButtonLeft)'
<1> SUFFICES ASSUME TypeOK, ButtonExact, ButtonLeft, [Next]_vars
             PROVE  (ButtonExact /\ ButtonLeft)'
  OBVIOUS
<1> USE TimersAssumption DEF TimersAssumption
<1>u. ASSUME UNCHANGED <<now, raw, stable, changed>>, rawSince' = rawSince,
             pc' = "wait" => pc = "wait"
      PROVE  (ButtonExact /\ ButtonLeft)'
  BY <1>u DEF ButtonExact, ButtonLeft
<1>v. ASSUME UNCHANGED <<clockVars, buttonVars>>
      PROVE  UNCHANGED <<now, raw, stable, changed>> /\ rawSince' = rawSince
  BY <1>v DEF clockVars, buttonVars, rawSince
<1>s. ASSUME raw' = stable' PROVE (ButtonExact /\ ButtonLeft)'
  BY <1>s DEF ButtonExact, ButtonLeft
<1>1. CASE CmdHome
  BY <1>1, <1>u, <1>v DEF CmdHome
<1>2. CASE Estop
  BY <1>2, <1>u, <1>v DEF Estop
<1>3. CASE PollDone
  BY <1>3, <1>u, <1>v DEF PollDone
<1>4. CASE tick
  BY <1>4, <1>u, <1>v DEF tick
<1>5. CASE maybeBroadcastStatus
  BY <1>5, <1>u, <1>v DEF maybeBroadcastStatus
<1>6. CASE edge
  <2>n. now' = now /\ lag' = lag
    BY <1>6 DEF edge, clockVars
  <2>1. CASE line # raw
    <3> SUFFICES ASSUME raw' # stable' PROVE (ButtonExact /\ ButtonLeft)'
      BY <1>s
    <3>1. Minus(now, now) = 0
      BY Ahead, Ranges DEF TypeOK, DataOK
    <3>2. changed' = now /\ rawAge' = 0 /\ rawLag' = lag
      BY <1>6, <2>1, LookAtChange
    <3>3. rawSince' = 0
      BY <2>n, <3>2 DEF rawSince, TypeOK, DataOK
    <3> HIDE DEF rawSince
    <3> QED
      BY <2>n, <3>1, <3>2, <3>3 DEF ButtonExact, ButtonLeft
  <2>2. CASE line = raw /\ Settled(changed)
    <3>1. raw' = stable'
      BY <1>6, <2>2, LookAtSame, Zenon
    <3> QED
      BY <3>1, <1>s
  <2>3. CASE line = raw /\ ~Settled(changed)
    <3>1. raw' = raw /\ stable' = stable /\ changed' = changed
      BY <1>6, <2>3, LookAtSame, Zenon
    <3>2. raw # stable => rawAge' = rawAge /\ rawLag' = rawLag
      BY <1>6, <2>3, <3>1, LookAtSame, Zenon
    <3>3. Minus(now, changed) < DebounceMs
      BY <2>3, InRange DEF Settled, TypeOK, DataOK
    <3>4. raw # stable => rawSince' = rawSince
      BY <2>n, <3>2 DEF rawSince
    <3> QED
      BY <2>n, <3>1, <3>3, <3>4 DEF ButtonExact, ButtonLeft
  <2> QED
    BY <2>1, <2>2, <2>3
<1>7. CASE NextRound
  <2>0. raw' = raw /\ stable' = stable /\ changed' = changed /\ pc' = "poll"
    BY <1>7 DEF NextRound, buttonVars
  <2> SUFFICES ASSUME raw # stable
               PROVE  (ButtonExact /\ ButtonLeft)'
    BY <2>0, <1>s
  <2>1. rawSince < DebounceMs /\ Minus(now, changed) = rawSince
    BY <1>7 DEF NextRound, ButtonLeft, ButtonExact
  <2>2. Minus(Plus(now, lag), changed) = rawSince + lag
    <3>1. now \in Readings /\ changed \in Readings /\ lag \in Nat /\ lag <= MaxGap
      BY DEF TypeOK, DataOK
    <3>2. Minus(now, changed) \in Readings
      BY <3>1, InRange
    <3>3. Minus(now, changed) + lag < Wrap
      BY <2>1, <3>1, <3>2
    <3>4. Minus(Plus(now, lag), changed) = Minus(now, changed) + lag
      BY <3>1, <3>3, Since
    <3> QED
      BY <2>1, <3>4
  <2>3. rawSince' = rawSince + lag /\ now' = Plus(now, lag)
    BY <1>7 DEF NextRound, buttonVars, rawSince, TypeOK, DataOK
  <2>4. rawSince + lag < DebounceMs + MaxGap
    BY <2>1 DEF rawSince, TypeOK, DataOK
  <2> QED
    BY <2>0, <2>2, <2>3, <2>4 DEF ButtonExact, ButtonLeft
<1>8. CASE Pass
  <2>0. raw' = raw /\ stable' = stable /\ changed' = changed /\ pc' = pc
        /\ now' = now
    BY <1>8 DEF Pass
  <2> SUFFICES ASSUME raw # stable
               PROVE  (ButtonExact /\ ButtonLeft)'
    BY <2>0, <1>s
  <2>1. rawSince' = rawSince
    BY <1>8 DEF Pass, rawSince, TypeOK, DataOK
  <2> QED
    BY <2>0, <2>1, <1>u
<1>9. CASE Push
  BY <1>9, <1>u, <1>v DEF Push
<1>10. CASE UNCHANGED vars
  BY <1>10, <1>u, <1>v DEF vars
<1> QED
  BY <1>1, <1>2, <1>3, <1>4, <1>5, <1>6, <1>7, <1>8, <1>9, <1>10 DEF Next, Loop

-----------------------------------------------------------------------------
(* The three timers together, and what follows                             *)

(* As long as a timer runs, the difference of the readings it compares is  *)
(* the time between them, however old the readings were when they were     *)
(* used and wherever the counter wraps.                                    *)
THEOREM Invariance == Spec => [](TypeOK /\ IInv)
<1>1. Init => TypeOK /\ IInv
  <2> SUFFICES ASSUME Init PROVE TypeOK /\ IInv
    OBVIOUS
  <2>1. FlagsOK
    BY Zenon DEF Init, FlagsOK
  <2>2. DataOK
    BY Ranges DEF Init, DataOK
  <2>3. HomingExact /\ HomingLeft
    BY DEF Init, HomingExact, HomingLeft
  <2>4. StatusExact /\ StatusLeft
    BY TimersAssumption, Ahead, Ranges
       DEF TimersAssumption, Init, StatusExact, StatusLeft, statusSince
  <2>5. ButtonExact /\ ButtonLeft
    BY DEF Init, ButtonExact, ButtonLeft
  <2> QED
    BY <2>1, <2>2, <2>3, <2>4, <2>5 DEF TypeOK, IInv
<1>2. (TypeOK /\ IInv) /\ [Next]_vars => (TypeOK /\ IInv)'
  BY FlagsStep, DataStep, HomingStep, StatusStep, ButtonStep DEF TypeOK, IInv
<1> QED
  BY <1>1, <1>2, PTL DEF Spec

(* All readings stay in the range of the counter, ages in Nat.             *)
THEOREM TypeCorrect == Spec => []TypeOK
  BY Invariance, PTL

(* No round whose reading is behind the deadline leaves tick homing.       *)
THEOREM HomingNotLateHolds == Spec => []HomingNotLate
<1>1. TypeOK /\ IInv => HomingNotLate
  BY TimersAssumption DEF TimersAssumption, IInv, HomingLeft, HomingNotLate,
                          homingSince, TypeOK, DataOK
<1> QED
  BY <1>1, Invariance, PTL

(* maybeBroadcastStatus misses no round whose reading finds a frame due.   *)
THEOREM StatusNotLateHolds == Spec => []StatusNotLate
<1>1. TypeOK /\ IInv => StatusNotLate
  BY TimersAssumption DEF TimersAssumption, IInv, StatusLeft, StatusNotLate,
                          statusSince, TypeOK, DataOK
<1> QED
  BY <1>1, Invariance, PTL

(* edge follows the line in the first round whose reading finds it settled.*)
THEOREM PressCountsHolds == Spec => []PressCounts
<1>1. TypeOK /\ IInv => PressCounts
  BY TimersAssumption DEF TimersAssumption, IInv, ButtonLeft, PressCounts,
                          rawSince, TypeOK, DataOK
<1> QED
  BY <1>1, Invariance, PTL

(* tick ends no homing before its time, less the age of the reading that   *)
(* enterHoming was given.                                                  *)
THEOREM HomingNotEarlyHolds == Spec => HomingNotEarly
<1>1. TypeOK /\ IInv /\ [Next]_vars
        => [tick /\ homing /\ ~homing' => homingAge + homingLag >= HomingMs]_vars
  <2> SUFFICES ASSUME TypeOK, IInv, tick, homing, ~homing'
               PROVE  homingAge + homingLag >= HomingMs
    OBVIOUS
  <2>1. Reached
    BY Zenon DEF tick
  <2>2. homingSince >= HomingMs
    BY <2>1, ReachedExact DEF IInv
  <2> QED
    BY <2>2, TimersAssumption DEF TimersAssumption, homingSince, TypeOK, DataOK
<1> QED
  BY <1>1, Invariance, PTL DEF Spec, HomingNotEarly

(* maybeBroadcastStatus sends no frame before it is due, less the age of   *)
(* the reading that it stamped the last one with.                          *)
THEOREM StatusNotEarlyHolds == Spec => StatusNotEarly
<1>1. TypeOK /\ IInv /\ [Next]_vars
        => [maybeBroadcastStatus /\ lastStatusMs' # lastStatusMs
              => statusAge + statusLag >= PeriodMs]_vars
  <2> SUFFICES ASSUME TypeOK, IInv, maybeBroadcastStatus,
                      lastStatusMs' # lastStatusMs
               PROVE  statusAge + statusLag >= PeriodMs
    OBVIOUS
  <2>1. Due
    BY DEF maybeBroadcastStatus, statusVars
  <2>2. statusSince >= PeriodMs
    BY <2>1 DEF Due, IInv, StatusExact
  <2> QED
    BY <2>2, TimersAssumption DEF TimersAssumption, statusSince, TypeOK, DataOK
<1> QED
  BY <1>1, Invariance, PTL DEF Spec, StatusNotEarly

(* edge takes nothing for a press or a release that was seen unchanged for *)
(* less than the debounce time, less the age of the reading at its change. *)
THEOREM NoBounceHolds == Spec => NoBounce
<1>1. TypeOK /\ IInv /\ [Next]_vars
        => [edge /\ stable' # stable
              => rawAge + rawLag >= DebounceMs /\ raw = line]_vars
  <2> SUFFICES ASSUME TypeOK, IInv, edge, stable' # stable
               PROVE  rawAge + rawLag >= DebounceMs /\ raw = line
    OBVIOUS
  <2>1. raw = line
    BY LookAtChange, Zenon
  <2>2. Settled(changed) /\ raw # stable
    BY <2>1, LookAtSame, Zenon
  <2>3. rawSince >= DebounceMs
    BY <2>2 DEF Settled, IInv, ButtonExact
  <2> QED
    BY <2>1, <2>3, TimersAssumption DEF TimersAssumption, rawSince, TypeOK, DataOK
<1> QED
  BY <1>1, Invariance, PTL DEF Spec, NoBounce
=============================================================================
