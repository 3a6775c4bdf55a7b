------------------------------- MODULE Panel -------------------------------
(***************************************************************************)
(* The windows of the GUI in front of the simulator: what they show, what  *)
(* they offer and what they ask for (pnp_gui.py, tab_run.py,               *)
(* tab_calibration.py, tab_service.py, tab_program.py), and the handlers   *)
(* of the commands they send (simulator.py).                               *)
(*                                                                         *)
(* The socket keeps the order.  How lines are repeated and programs are    *)
(* cut in pieces is in CommandDelivery and Upload, how the machine gets    *)
(* from one state to the next in Simulator: here it simply moves.          *)
(***************************************************************************)
EXTENDS Integers, Sequences, FiniteSets, SimCommands

CONSTANTS
    MaxEvents,    \* bound: clicks, connections, and moves of the machine
    MaxNews,      \* bound: messages on their way when a status is sent
    MaxValue,     \* values a setting can be given; 0 is its default
    Starts,       \* states the machine is found in
    Settings,     \* the settings looked at
    Programs, Valid, NoProgram

(* travel: max_travel_mm; steps: steps_per_mm; position: a taught one;     *)
(* baseline: tof_offsets; threshold: tof_max_sigma_mm; output: pump ...    *)
AllSettings ==
    {"travel", "steps", "position", "baseline", "threshold", "output"}

None == "none"

ASSUME PanelAssumption ==
    /\ MaxEvents \in Nat /\ MaxNews \in Nat /\ MaxValue \in Nat
    /\ Starts \subseteq States /\ Settings \subseteq AllSettings
    /\ Valid \subseteq Programs /\ NoProgram \notin Programs
    /\ Programs \cap (AllSettings \cup {None}) = {}

VARIABLES
    \* simulator
    state, stored,      \* state, stored_program
    estopHw,            \* estop_hw: the E-stop is held
    value,              \* the settings
    jogged,             \* cal_jog_steps
    built,              \* a status built but not sent yet
    \* the line, both ways
    down, up,
    \* windows
    connected,
    runState,           \* Run tab: _state
    tabState,           \* the other tabs: the state of the last status
    fresh,              \* a status came since the connection was made
    loaded,             \* Run tab: _program_loaded
    shown,              \* the settings, as displayed
    estopLight,         \* Run tab: the light "E-Stop HW"
    calSteps,           \* _cal_jog_steps
    applyEnabled,       \* _btn_apply_dist
    deferred, queries,  \* _pending_initial_queries, _query_queue
    \* history and bound
    refused,            \* settings displayed, but refused by the machine
    reconnected,        \* ids are used again
    events

machineVars == <<state, stored, estopHw, value, jogged>>
stateVars   == <<runState, tabState, fresh, loaded, estopLight, calSteps,
                 applyEnabled>>
queryVars   == <<deferred, queries>>
windowVars  == <<connected, stateVars, shown, queryVars>>
historyVars == <<refused, reconnected>>
vars == <<machineVars, built, down, up, windowVars, historyVars, events>>

Values == 0..MaxValue
Abs(n) == IF n < 0 THEN 0 - n ELSE n
NoStatus == [type |-> "none"]

(* What the tabs send, and what is sent whatever they show.                *)
RunButtons == { "home", "run_program", "pause", "resume", "reset_fault",
                "reset_estop" }
ServiceButtons == {"move_to", "teach_position", "save_position", "set_output"}
CalButtons == { "calibrate_axis", "cal_jog", "set_cal_distance",
                "cancel_calibration", "set_max_travel", "calibrate_sensors" }
Gated == RunButtons \cup ServiceButtons \cup CalButtons
Names == Gated \cup {"estop", "load_program", "set_tof_threshold", "get_param"}

(* Only what a message is read for is kept in it.                          *)
Commands == [cmd : Names, arg : Settings \cup Programs \cup {None},
             to : Int]
Statuses == [type : {"status"}, state : States, loaded : BOOLEAN,
             held : BOOLEAN, steps : Nat]
Replies == [type : {"ack"}, cmd : Names,
            arg : Settings \cup Programs \cup {None}, to : Int]

FlagsOK ==
    /\ connected \in BOOLEAN /\ fresh \in BOOLEAN /\ loaded \in BOOLEAN
    /\ deferred \in BOOLEAN /\ reconnected \in BOOLEAN
    /\ estopHw \in BOOLEAN /\ estopLight \in BOOLEAN
    /\ applyEnabled \in BOOLEAN

MachineOK ==
    /\ state \in States /\ stored \in Programs \cup {NoProgram}
    /\ value \in [Settings -> Nat] /\ jogged \in Int

WindowsOK ==
    /\ runState \in States /\ tabState \in States
    /\ calSteps \in Nat /\ shown \in [Settings -> Nat]
    /\ queries \in Seq(Settings)
    /\ refused \subseteq Settings /\ events \in 0..MaxEvents

LineOK ==
    /\ down \in Seq(Commands) /\ up \in Seq(Statuses \cup Replies)
    /\ built \in Statuses \cup {NoStatus}

TypeOK == FlagsOK /\ MachineOK /\ WindowsOK /\ LineOK

(* The windows are opened in front of a machine that may be anywhere.      *)
Init ==
    /\ state \in Starts /\ stored \in Valid \cup {NoProgram}
    /\ state \in {"RUNNING", "PAUSED"} => stored # NoProgram
    /\ estopHw \in BOOLEAN /\ (estopHw => state = "ESTOPPED")
    /\ jogged = 0
    /\ value = [i \in Settings |-> 0] /\ built = NoStatus
    /\ down = <<>> /\ up = <<>> /\ connected = FALSE
    /\ runState = "IDLE" /\ tabState = "IDLE" /\ fresh = FALSE
    /\ loaded = FALSE /\ estopLight = FALSE
    /\ calSteps = 0 /\ applyEnabled = FALSE
    /\ shown = [i \in Settings |-> 0]
    /\ deferred = FALSE /\ queries = <<>>
    /\ refused = {} /\ reconnected = FALSE /\ events = 0

Event == events < MaxEvents /\ events' = events + 1

-----------------------------------------------------------------------------
(* What is offered                                                         *)

(* Run tab: BUTTON_STATES and _update_buttons.                             *)
BUTTON_STATES_Table(c) ==
    CASE c = "home" -> AtRest
      [] c = "run_program" -> {"READY"}
      [] c = "pause" -> {"RUNNING"}
      [] c = "resume" -> {"PAUSED"}
      [] c = "reset_fault" -> {"FAULTED"}
      [] c = "reset_estop" -> {"ESTOPPED"}

(* Mutant: the button of the fault is taken for that of every stop.        *)
BUTTON_STATES_MutReset(c) ==
    IF c = "reset_fault" THEN {"FAULTED", "ESTOPPED"} ELSE BUTTON_STATES_Table(c)
BUTTON_STATES(c) == BUTTON_STATES_Table(c)

RunOffers(c) ==
    /\ runState \in BUTTON_STATES(c)
    /\ c = "run_program" => loaded

(* Service tab and calibration tab; the latter offers nothing of its own   *)
(* until the first status of a connection.                                 *)
ServiceOffers(c) ==
    tabState \in IF c \in {"move_to", "teach_position"} THEN {"READY"}
                                                        ELSE AtRest

CalOffers(c) ==
    /\ fresh
    /\ IF c \in Measuring THEN tabState = "CALIBRATING"
                          ELSE tabState \in AtRest
    /\ c = "set_cal_distance" => applyEnabled

(* The E-stop, files, uploads and thresholds only need a connection.       *)
Offered(c) ==
    /\ connected
    /\ c \in RunButtons => RunOffers(c)
    /\ c \in ServiceButtons => ServiceOffers(c)
    /\ c \in CalButtons => CalOffers(c)

-----------------------------------------------------------------------------
(* The windows: clicks                                                     *)

Line(cmd, arg, to) == [cmd |-> cmd, arg |-> arg, to |-> to]
Ask(i) == Line("get_param", i, 0)
Send(line) == down' = Append(down, line)

Click(c) ==
    /\ Offered(c) /\ Event
    /\ Send(Line(c, None, 0))
    /\ UNCHANGED <<machineVars, built, up, windowVars, historyVars>>

ClickJog(d) ==
    /\ Offered("cal_jog") /\ Event
    /\ Send(Line("cal_jog", None, d))
    /\ UNCHANGED <<machineVars, built, up, windowVars, historyVars>>

(* _cancel_cal forgets the steps at once, and leaves the buttons as they    *)
(* are until the next status.                                              *)
ClickCancel ==
    /\ Offered("cancel_calibration") /\ Event
    /\ Send(Line("cancel_calibration", None, 0))
    /\ calSteps' = 0
    /\ UNCHANGED <<machineVars, built, up, connected, runState, tabState, fresh,
                   loaded, estopLight, applyEnabled, shown, queryVars,
                   historyVars>>

(* _apply_cal_distance: the display runs ahead of the answer.  The         *)
(* distance is the same every time.                                        *)
ClickApply ==
    /\ "steps" \in Settings /\ Offered("set_cal_distance") /\ Event
    /\ Send(Line("set_cal_distance", "steps", 0))
    /\ shown' = IF calSteps # 0 THEN [shown EXCEPT !["steps"] = calSteps]
                                ELSE shown
    /\ UNCHANGED <<machineVars, built, up, connected, stateVars, queryVars,
                   historyVars>>

(* The same holds for the travel limits, the outputs and the thresholds,   *)
(* which are typed into the field that displays them; taught positions and *)
(* the baseline wait for the answer.                                       *)
Setters(i) ==
    CASE i = "travel" -> {"set_max_travel"}
      [] i = "position" -> {"save_position", "teach_position"}
      [] i = "baseline" -> {"calibrate_sensors"}
      [] i = "threshold" -> {"set_tof_threshold"}
      [] i = "output" -> {"set_output"}
      [] OTHER -> {}
Ahead == {"travel", "threshold", "output"}

ClickSet(i, v) ==
    /\ \E c \in Setters(i) : Offered(c) /\ Send(Line(c, i, v))
    /\ Event
    /\ shown' = IF i \in Ahead THEN [shown EXCEPT ![i] = v] ELSE shown
    /\ UNCHANGED <<machineVars, built, up, connected, stateVars, queryVars,
                   historyVars>>

(* _load_program_dialog sends any file, _upload only what the validator    *)
(* accepts.  The names and texts that the windows keep of a program are    *)
(* left out.                                                               *)
PickFile(p) ==
    /\ connected /\ Event
    /\ Send(Line("load_program", p, 0))
    /\ UNCHANGED <<machineVars, built, up, windowVars, historyVars>>

Upload(p) == p \in Valid /\ PickFile(p)

-----------------------------------------------------------------------------
(* The windows: connection and queries                                     *)

(* One query per setting; outputs are not asked for.                       *)
CONSTANT Initial
ASSUME InitialAssumption ==
    /\ Initial \in Seq(Settings)
    /\ \A i \in Settings \ {"output"} : \E k \in 1..Len(Initial) : Initial[k] = i

Connect ==
    /\ ~connected
    /\ connected' = TRUE /\ fresh' = FALSE /\ deferred' = TRUE
    /\ UNCHANGED <<machineVars, built, down, up, runState, tabState, loaded,
                   estopLight, calSteps, applyEnabled, shown, queries,
                   historyVars, events>>

(* Lines on their way are lost, or read by the simulator all the same;     *)
(* what it has not written yet goes to the next connection.                *)
Disconnect ==
    /\ connected /\ Event
    /\ connected' = FALSE /\ deferred' = FALSE /\ queries' = <<>>
    /\ reconnected' = TRUE
    /\ \E k \in 0..Len(down) : down' = SubSeq(down, 1, k)
    /\ \E k \in 0..Len(up) : up' = SubSeq(up, k + 1, Len(up))
    /\ UNCHANGED <<machineVars, built, stateVars, shown, refused>>

(* The fallback timer, which also runs on from an earlier connection.      *)
FlushInitialQueries ==
    /\ deferred
    /\ deferred' = FALSE /\ queries' = queries \o Initial
    /\ UNCHANGED <<machineVars, built, down, up, connected, stateVars, shown,
                   historyVars, events>>

DrainQueryQueue ==
    /\ connected /\ queries # <<>> /\ Len(down) < MaxNews
    /\ queries' = Tail(queries) /\ Send(Ask(Head(queries)))
    /\ UNCHANGED <<machineVars, built, up, connected, stateVars, shown, deferred,
                   historyVars, events>>

-----------------------------------------------------------------------------
(* The windows: _on_message                                                *)

Receive(type) ==
    /\ connected /\ up # <<>> /\ Head(up).type = type
    /\ up' = Tail(up)

(* Run tab.  Mutant: a state that was shown last is not shown again,       *)
(* although an answer has replaced it.                                     *)
RunOnStatusMut(m) ==
    /\ runState' = IF m.state = tabState THEN runState ELSE m.state
    /\ loaded' = m.loaded /\ estopLight' = m.held
RunOnStatus(m) ==
    runState' = m.state /\ loaded' = m.loaded /\ estopLight' = m.held

CalOnStatus(m) ==
    calSteps' = m.steps /\ applyEnabled' = (m.steps # 0) /\ fresh' = TRUE

(* The simulator sends no outputs in its status: they are displayed as     *)
(* off, whatever they are.                                                 *)
SvcOnStatus(m) ==
    /\ tabState' = m.state
    /\ shown' = [i \in Settings |-> IF i = "output" THEN 0 ELSE shown[i]]

OnStatus ==
    /\ Receive("status")
    /\ RunOnStatus(Head(up)) /\ CalOnStatus(Head(up)) /\ SvcOnStatus(Head(up))
    /\ deferred' = FALSE
    /\ queries' = IF deferred THEN queries \o Initial ELSE queries
    /\ UNCHANGED <<machineVars, built, down, connected, historyVars,
                   events>>

(* Answers that only change what the Run tab shows.                        *)
Forced(c) == CASE c \in {"run_program", "resume"} -> "RUNNING"
               [] c = "pause" -> "PAUSED"
               [] OTHER -> runState

OnAckPlain ==
    /\ Receive("ack") /\ Head(up).arg = None
    /\ runState' = Forced(Head(up).cmd)
    /\ UNCHANGED <<machineVars, built, down, connected, tabState, fresh, loaded,
                   estopLight, calSteps, applyEnabled, shown, queryVars,
                   historyVars, events>>

OnAckLoad ==
    /\ Receive("ack") /\ Head(up).cmd = "load_program"
    /\ loaded' = TRUE
    /\ UNCHANGED <<machineVars, built, down, connected, runState, tabState,
                   fresh, estopLight, calSteps, applyEnabled, shown, queryVars,
                   historyVars, events>>

(* get_param and query_positions; a baseline that was never read is not    *)
(* displayed.                                                              *)
Display(i, v) ==
    shown' = IF i = "baseline" /\ v = 0 THEN shown ELSE [shown EXCEPT ![i] = v]

OnAnswer ==
    /\ Receive("ack") /\ Head(up).cmd = "get_param"
    /\ Display(Head(up).arg, Head(up).to)
    /\ refused' = refused \ {Head(up).arg}
    /\ UNCHANGED <<machineVars, built, down, connected, stateVars, queryVars,
                   reconnected, events>>

(* The answers to the setters: travel and steps are asked for again, by    *)
(* the paced queue, positions at once, the baseline comes along, and       *)
(* nothing is done about a threshold.                                      *)
(* Mutant: they are trusted.                                               *)
OnAckSetMut ==
    /\ Receive("ack") /\ Head(up).cmd \notin {"get_param", "load_program"}
    /\ Head(up).arg # None
    /\ UNCHANGED <<machineVars, built, down, windowVars, historyVars, events>>
OnAckSet ==
    /\ Receive("ack") /\ Head(up).cmd \notin {"get_param", "load_program"}
    /\ Head(up).arg # None
    /\ LET i == Head(up).arg  v == Head(up).to IN
        /\ queries' = IF i \in {"travel", "steps"} THEN Append(queries, i)
                                                   ELSE queries
        /\ down' = IF i = "position" THEN Append(down, Ask(i)) ELSE down
        /\ IF i = "baseline" THEN Display(i, v) ELSE UNCHANGED shown
    /\ UNCHANGED <<machineVars, built, connected, stateVars, deferred,
                   historyVars, events>>

-----------------------------------------------------------------------------
(* The simulator: handlers                                                 *)

Reply(cmd, arg, to) ==
    up' = Append(up, [type |-> "ack", cmd |-> cmd, arg |-> arg, to |-> to])
Take(cmds) == down # <<>> /\ Head(down).cmd \in cmds /\ down' = Tail(down)

(* The gate, and what the handlers check.                                  *)
Accepts(c) ==
    /\ c = "get_param" \/ state \in COMMAND_STATES(c)
    /\ c = "reset_estop" => ~estopHw
    /\ c = "run_program" => stored # NoProgram
    /\ c = "set_cal_distance" => jogged # 0

(* What a plain command leads to.                                          *)
After(c) ==
    CASE c = "home" -> "HOMING"
      [] c \in {"run_program", "resume"} -> "RUNNING"
      [] c = "pause" -> "PAUSED"
      [] c = "estop" -> "ESTOPPED"
      [] c = "calibrate_axis" -> "CALIBRATING"
      [] c \in {"reset_fault", "reset_estop", "cancel_calibration"} -> "IDLE"
      [] OTHER -> state
PlainCommands == RunButtons \cup { "estop", "calibrate_axis", "cal_jog",
                                  "cancel_calibration" }

(* Jogging adds up from calibrate_axis on; cancelling forgets it.          *)
JogAfter(c, steps) ==
    CASE c = "cal_jog" -> jogged + steps
      [] c \in {"calibrate_axis", "cancel_calibration"} -> 0
      [] OTHER -> jogged

(* The handler of a command without a value.                               *)
HandlePlain ==
    /\ Take(PlainCommands)
    /\ LET c == Head(down).cmd IN
        /\ Accepts(c)
        /\ state' = After(c)
        /\ jogged' = JogAfter(c, Head(down).to)
        /\ Reply(c, None, 0)
    /\ UNCHANGED <<stored, estopHw, value, built, windowVars, historyVars, events>>

HandleLoad ==
    /\ Take({"load_program"})
    /\ Accepts("load_program") /\ Head(down).arg \in Valid
    /\ stored' = Head(down).arg
    /\ Reply("load_program", Head(down).arg, Head(down).to)
    /\ UNCHANGED <<state, estopHw, value, jogged, built, windowVars, historyVars,
                   events>>

HandleSet ==
    /\ Take(UNION {Setters(i) : i \in Settings})
    /\ LET l == Head(down) IN
        /\ Accepts(l.cmd)
        /\ value' = [value EXCEPT ![l.arg] = l.to]
        /\ Reply(l.cmd, l.arg, l.to)
    /\ UNCHANGED <<state, stored, estopHw, jogged, built, windowVars, historyVars,
                   events>>

(* _cmd_set_cal_distance                                                   *)
HandleDistance ==
    /\ Take({"set_cal_distance"})
    /\ Accepts("set_cal_distance")
    /\ value' = [value EXCEPT !["steps"] = Abs(jogged)]
    /\ jogged' = 0 /\ state' = "IDLE"
    /\ Reply("set_cal_distance", "steps", 0)
    /\ UNCHANGED <<stored, estopHw, built, windowVars, historyVars, events>>

HandleGet ==
    /\ Take({"get_param"})
    /\ Reply("get_param", Head(down).arg, value[Head(down).arg])
    /\ UNCHANGED <<machineVars, built, windowVars, historyVars, events>>

(* The window only announces a refusal, or a fault: they are not sent.     *)
Refuse ==
    /\ down # <<>> /\ down' = Tail(down)
    /\ LET l == Head(down) IN
        /\ \/ ~Accepts(l.cmd)
           \/ l.cmd = "load_program" /\ l.arg \notin Valid
        /\ refused' = IF l.arg \in Settings THEN refused \cup {l.arg}
                                            ELSE refused
    /\ UNCHANGED <<machineVars, built, up, windowVars, reconnected, events>>

(* A new worker counts its ids from 1 again: a command may be taken for an *)
(* earlier one and confirmed without being carried out.                    *)
TakeForRepeated ==
    /\ reconnected /\ down # <<>> /\ Head(down).cmd # "get_param"
    /\ down' = Tail(down)
    /\ Reply(Head(down).cmd, Head(down).arg, 0)
    /\ UNCHANGED <<machineVars, built, windowVars, historyVars, events>>

-----------------------------------------------------------------------------
(* The simulator: broadcasts and moves of its own                          *)

(* build_status holds the lock, send does not: answers may overtake.       *)
BuildStatus ==
    /\ built = NoStatus
    /\ built' = [type |-> "status", state |-> state,
                 loaded |-> stored # NoProgram, held |-> estopHw,
                 steps |-> IF state = "CALIBRATING" THEN Abs(jogged) ELSE 0]
    /\ UNCHANGED <<machineVars, down, up, windowVars, historyVars, events>>

SendStatus ==
    /\ built # NoStatus /\ Len(up) < MaxNews
    /\ up' = Append(up, built) /\ built' = NoStatus
    /\ UNCHANGED <<machineVars, down, windowVars, historyVars, events>>

(* Homing and jobs end, persons press buttons, ...                         *)
Moves == { <<"HOMING", "READY">>, <<"RUNNING", "READY">>,
           <<"IDLE", "HOMING">>, <<"READY", "RUNNING">>,
           <<"RUNNING", "PAUSED">>, <<"PAUSED", "RUNNING">>,
           <<"FAULTED", "IDLE">> }

Move ==
    /\ Event
    /\ \E m \in Moves :
        /\ state = m[1] /\ state' = m[2]
        /\ m = <<"READY", "RUNNING">> => stored # NoProgram
    /\ UNCHANGED <<stored, estopHw, value, jogged, built, down, up, windowVars,
                   historyVars>>

(* ... a job, a jam or the console brings a fault, ...                     *)
Fault ==
    /\ Event /\ state' = "FAULTED"
    /\ UNCHANGED <<stored, estopHw, value, jogged, built, down, up, windowVars,
                   historyVars>>

(* ... and the E-stop is pressed or released.                              *)
Estop ==
    /\ Event /\ estopHw' \in BOOLEAN
    /\ state' = IF estopHw' THEN "ESTOPPED"
                ELSE IF state = "ESTOPPED" THEN "IDLE" ELSE state
    /\ UNCHANGED <<stored, value, jogged, built, down, up, windowVars,
                   historyVars>>

-----------------------------------------------------------------------------
Clicks ==
    \/ \E c \in PlainCommands \ {"cal_jog", "cancel_calibration"} : Click(c)
    \/ \E d \in {-1, 1} : ClickJog(d)
    \/ ClickCancel \/ ClickApply
    \/ \E i \in Settings, v \in Values \ {0} : ClickSet(i, v)
    \/ \E p \in Programs : PickFile(p) \/ Upload(p)
Queries == FlushInitialQueries \/ DrainQueryQueue
Messages ==
    OnStatus \/ OnAckPlain \/ OnAckLoad \/ OnAnswer \/ OnAckSet
Handlers ==
    \/ HandlePlain \/ HandleLoad \/ HandleSet \/ HandleDistance \/ HandleGet
    \/ Refuse \/ TakeForRepeated

Next ==
    \/ Clicks \/ Connect \/ Disconnect \/ Queries \/ Messages \/ Handlers
    \/ BuildStatus \/ SendStatus \/ Move \/ Fault \/ Estop

Spec == Init /\ [][Next]_vars

(* Timers fire, signals are delivered, the simulator ticks and broadcasts. *)
Fairness ==
    /\ WF_vars(Queries) /\ WF_vars(Messages) /\ WF_vars(Handlers)
    /\ WF_vars(BuildStatus) /\ WF_vars(SendStatus)

FairSpec == Spec /\ Fairness

-----------------------------------------------------------------------------
(* Properties                                                              *)

Quiet == /\ connected /\ fresh /\ down = <<>> /\ up = <<>>
         /\ ~deferred /\ queries = <<>>

(* Settings whose answer or whose next query brings the value of the       *)
(* machine.  A threshold is not asked for again, and an output is          *)
(* displayed as off by the next status: both may stay wrong.               *)
Confirmed == Settings \ {"threshold", "output"}

(* "Optimistic local update; the authoritative value is re-queried on      *)
(* ack": however clicks, answers, queries and connections interleave, when *)
(* all is said the windows display what the machine has, except for a      *)
(* setting that it refused and that was not asked for since.               *)
PanelAgrees ==
    Quiet => \A i \in Confirmed \ refused : shown[i] = value[i]

(* What the Run tab takes from an answer ahead of the status, a status     *)
(* overtaken by an answer and the messages of an earlier connection do not *)
(* last: when the machine comes to rest, its state, whether it has a       *)
(* program and whether the E-stop is held are shown, and go on being shown.*)
StateCatchesUp ==
    <>[][UNCHANGED <<state, stored, estopHw, connected>>]_vars =>
        <>[](connected => /\ runState = state /\ tabState = state
                          /\ loaded = (stored # NoProgram)
                          /\ estopLight = estopHw)

(* The tables of the windows and the table of the machine agree: as soon   *)
(* as the last status is true, exactly those commands are offered that the *)
(* machine would accept.  Reset E-Stop is the exception: it is offered     *)
(* while the E-stop is held as well and then refused (_cmd_reset_estop),   *)
(* which the light beside it tells.                                        *)
OfferedIsAccepted ==
    /\ Quiet
    /\ runState = state /\ tabState = state /\ loaded = (stored # NoProgram)
    /\ estopLight = estopHw
    /\ state = "CALIBRATING" => applyEnabled = (jogged # 0)
    => \A c \in Gated :
          Accepts(c) <=> Offered(c) /\ ~(c = "reset_estop" /\ estopLight)
=============================================================================
