------------------------------- MODULE Timers -------------------------------
(***************************************************************************)
(* The clocked parts of the firmware on its wrapping millisecond counter:  *)
(* the homing deadline (StateMachine::enterHoming and tick), the status    *)
(* period (Protocol::maybeBroadcastStatus) and the debouncing of a button  *)
(* (Controls::edge).  loop() reads the clock once in a round and hands the *)
(* reading down; time passes anywhere in the round, most of it where the   *)
(* code blocks: in a cal_jog of poll, in the job of tick, in the writes of *)
(* a frame.  What comes later in that round goes by the old reading.  The  *)
(* ages are history: the time that really passed.                          *)
(***************************************************************************)
EXTENDS Integers

CONSTANTS
    Wrap, Half,      \* 2^32 and 2^31
    HomingMs,        \* kHomingMs
    PeriodMs,        \* kStatusPeriodMs
    DebounceMs,      \* kDebounceMs
    MaxGap           \* longest round: time between two readings

ASSUME TimersAssumption ==
    /\ Half \in Nat /\ Wrap = Half + Half
    /\ HomingMs \in Nat \ {0} /\ PeriodMs \in Nat \ {0}
    /\ DebounceMs \in Nat \ {0} /\ MaxGap \in Nat
    /\ HomingMs + MaxGap < Half
    /\ PeriodMs + MaxGap < Wrap
    /\ DebounceMs + MaxGap < Wrap

VARIABLES
    now,             \* the reading of this round
    pc,              \* phase of loop()
    homing,          \* state_ is Homing
    homingDeadline,
    lastStatusMs,
    line,            \* the pin: TRUE is pressed
    raw, stable, changed,          \* Btn
    \* history
    lag,             \* how old the reading is
    homingAge,       \* since homing began
    statusAge,       \* since the last periodic status frame
    rawAge,          \* since raw last changed, while stable has yet to follow
    homingLag, statusLag, rawLag   \* lag at that moment

homingVars == <<homing, homingDeadline, homingAge, homingLag>>
statusVars == <<lastStatusMs, statusAge, statusLag>>
buttonVars == <<raw, stable, changed, rawAge, rawLag>>
clockVars == <<now, lag>>
vars == <<clockVars, pc, line, homingVars, statusVars, buttonVars>>

Readings == 0..(Wrap - 1)

FlagsOK == homing \in BOOLEAN /\ line \in BOOLEAN
           /\ raw \in BOOLEAN /\ stable \in BOOLEAN

DataOK ==
    /\ now \in Readings /\ homingDeadline \in Readings
    /\ lastStatusMs \in Readings /\ changed \in Readings
    /\ pc \in {"poll", "tick", "status", "button", "wait"}
    /\ homingAge \in Nat /\ statusAge \in Nat /\ rawAge \in Nat
    /\ lag \in 0..MaxGap
    /\ homingLag \in 0..MaxGap /\ statusLag \in 0..MaxGap /\ rawLag \in 0..MaxGap

TypeOK == FlagsOK /\ DataOK

Init ==
    /\ now = 0 /\ lag = 0 /\ pc = "poll"
    /\ homing = FALSE /\ homingDeadline = 0 /\ homingAge = 0 /\ homingLag = 0
    /\ lastStatusMs = 0 /\ statusAge = 0 /\ statusLag = 0
    /\ line \in BOOLEAN
    /\ raw = FALSE /\ stable = FALSE /\ changed = 0 /\ rawAge = 0 /\ rawLag = 0

-----------------------------------------------------------------------------
(* uint32_t arithmetic.                                                    *)
Plus(x, y) == IF x + y < Wrap THEN x + y ELSE x + y - Wrap
Minus(x, y) == IF x >= y THEN x - y ELSE x - y + Wrap

(* The three comparisons, and as they are wrong: comparing the readings    *)
(* and not their difference.                                               *)
ReachedMut == now >= homingDeadline
Reached == Minus(now, homingDeadline) < Half       \* as int32_t: >= 0

DueMut == now >= Plus(lastStatusMs, PeriodMs)
Due == Minus(now, lastStatusMs) >= PeriodMs

SettledMut(since) == now >= Plus(since, DebounceMs)
Settled(since) == Minus(now, since) >= DebounceMs

enterHoming ==
    /\ homing' = TRUE
    /\ homingDeadline' = Plus(now, HomingMs)
    /\ homingAge' = 0 /\ homingLag' = lag

-----------------------------------------------------------------------------
(* home, which is refused while homing, and the end of a homing by an      *)
(* E-stop: by command in the poll phase, by the button after edge.  The    *)
(* mutant's home starts a homing over.                                     *)
CmdHomeMut ==
    /\ pc = "poll"
    /\ enterHoming
    /\ UNCHANGED <<clockVars, pc, line, statusVars, buttonVars>>

CmdHome ==
    /\ pc = "poll" /\ ~homing
    /\ enterHoming
    /\ UNCHANGED <<clockVars, pc, line, statusVars, buttonVars>>

Estop ==
    /\ pc \in {"poll", "wait"}
    /\ homing' = FALSE /\ homingAge' = 0 /\ homingLag' = 0
    /\ UNCHANGED <<clockVars, pc, line, homingDeadline, statusVars, buttonVars>>

PollDone ==
    /\ pc = "poll" /\ pc' = "tick"
    /\ UNCHANGED <<clockVars, line, homingVars, statusVars, buttonVars>>

tick ==
    /\ pc = "tick" /\ pc' = "status"
    /\ homing' = (homing /\ ~Reached)
    /\ homingAge' = IF homing' THEN homingAge ELSE 0
    /\ homingLag' = IF homing' THEN homingLag ELSE 0
    /\ UNCHANGED <<clockVars, line, homingDeadline, statusVars, buttonVars>>

maybeBroadcastStatus ==
    /\ pc = "status" /\ pc' = "button"
    /\ IF Due THEN lastStatusMs' = now /\ statusAge' = 0 /\ statusLag' = lag
              ELSE UNCHANGED statusVars
    /\ UNCHANGED <<clockVars, line, homingVars, buttonVars>>

(* Controls::edge; a press in Idle starts a homing, in other states it has *)
(* no effect here.                                                         *)
edge ==
    LET since == IF line # raw THEN now ELSE changed
        age   == IF line # raw THEN 0 ELSE rawAge
        stale == IF line # raw THEN lag ELSE rawLag
    IN  /\ pc = "button" /\ pc' = "wait"
        /\ raw' = line /\ changed' = since
        /\ stable' = IF Settled(since) THEN line ELSE stable
        /\ rawAge' = IF stable' = line THEN 0 ELSE age
        /\ rawLag' = IF stable' = line THEN 0 ELSE stale
        /\ \/ /\ stable' /\ ~stable /\ ~homing
              /\ enterHoming
           \/ UNCHANGED homingVars
        /\ UNCHANGED <<clockVars, line, statusVars>>

(* Time passes, wherever the loop is; the reading stays.                   *)
Pass ==
    /\ lag < MaxGap
    /\ lag' = lag + 1
    /\ homingAge' = IF homing THEN homingAge + 1 ELSE 0
    /\ statusAge' = statusAge + 1
    /\ rawAge' = IF raw # stable THEN rawAge + 1 ELSE 0
    /\ UNCHANGED <<now, pc, line, homing, homingDeadline, homingLag,
                   lastStatusMs, statusLag, raw, stable, changed, rawLag>>

(* The next round reads the clock.                                         *)
NextRound ==
    /\ pc = "wait" /\ pc' = "poll"
    /\ now' = Plus(now, lag) /\ lag' = 0
    /\ UNCHANGED <<line, homingVars, statusVars, buttonVars>>

Push ==
    /\ line' = ~line
    /\ UNCHANGED <<clockVars, pc, homingVars, statusVars, buttonVars>>

Loop == PollDone \/ tick \/ maybeBroadcastStatus \/ edge \/ NextRound

Next == CmdHome \/ Estop \/ Loop \/ Pass \/ Push

Spec == Init /\ [][Next]_vars

(* The loop goes round, and the clock does not stand still for ever.       *)
Fairness == WF_vars(Loop) /\ WF_vars(Pass)

FairSpec == Spec /\ Fairness

-----------------------------------------------------------------------------
(* Homing takes the time it is given, wherever in the 49.7 days of the     *)
(* counter it starts: a round whose reading (lag ago) found the deadline   *)
(* passed does not leave tick with the machine still homing, ...           *)
HomingNotLate ==
    pc \in {"status", "button", "wait"} /\ homing => homingAge < HomingMs + lag

(* ... and tick ends no homing before its time, less the age of the        *)
(* reading that enterHoming added the time to.  A homing that begins       *)
(* behind a jog or a job of its round has less of it, down to none.        *)
HomingNotEarly ==
    [][tick /\ homing /\ ~homing' => homingAge + homingLag >= HomingMs]_vars

(* A periodic status frame is sent in the first round whose reading finds  *)
(* it due (maybeBroadcastStatus): the host waits no longer than a period   *)
(* and what blocks the loop, ...                                           *)
StatusNotLate == pc \in {"button", "wait"} => statusAge < PeriodMs + lag

(* ... and none before, again less the age of the reading at the last one: *)
(* the line is not flooded when the counter wraps.                         *)
StatusNotEarly ==
    [][maybeBroadcastStatus /\ lastStatusMs' # lastStatusMs
          => statusAge + statusLag >= PeriodMs]_vars

(* A press or release counts in the first round whose reading finds that   *)
(* the looks at the line (edge) have agreed on it for kDebounceMs, ...     *)
PressCounts == pc = "wait" /\ raw # stable => rawAge < DebounceMs + lag

(* ... and in none before: a bounce is no press, unless it was first seen  *)
(* behind a jog or a job of that round, with a reading as old as that.     *)
NoBounce ==
    [][edge /\ stable' # stable
          => rawAge + rawLag >= DebounceMs /\ raw = line]_vars

(* A homing that no E-stop ends comes to its end in Ready.                 *)
HomingEnds == homing ~> ~homing

-----------------------------------------------------------------------------
(* What makes them inductive: while a timer is running, the difference of  *)
(* the readings is the time that passed between them, which is the age     *)
(* corrected by how old each of the two readings is, and that is too short *)
(* to wrap.                                                                *)
homingSince == homingAge + homingLag - lag
statusSince == statusAge + statusLag - lag
rawSince == rawAge + rawLag - lag

HomingExact ==
    homing => /\ homingSince \in Nat /\ homingSince < HomingMs + MaxGap
              /\ IF homingSince <= HomingMs
                 THEN Minus(homingDeadline, now) = HomingMs - homingSince
                 ELSE Minus(now, homingDeadline) = homingSince - HomingMs

StatusExact ==
    Minus(now, lastStatusMs) = statusSince /\ statusSince < PeriodMs + MaxGap

ButtonExact ==
    raw # stable => Minus(now, changed) = rawSince /\ rawSince < DebounceMs + MaxGap

(* What a round has decided at its reading, which is stronger than "not    *)
(* late": what is left running was short of its time at that reading.      *)
HomingLeft ==
    pc \in {"status", "button", "wait"} /\ homing => homingSince < HomingMs
StatusLeft == pc \in {"button", "wait"} => statusSince < PeriodMs
ButtonLeft == pc = "wait" /\ raw # stable => rawSince < DebounceMs

IInv == /\ HomingExact /\ StatusExact /\ ButtonExact
        /\ HomingLeft /\ StatusLeft /\ ButtonLeft
=============================================================================
