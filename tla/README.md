# A verification project for the pick-and-place controller

This directory holds TLA+ specifications of the controller of a pick-and-place
machine: the firmware (`Firmware/PnpFirmware`), the desktop software that
drives it and the simulator that stands in for it (`Software`). Every
definition is translated from the source; `PROJECT.json` maps each one to the
lines it stands for. TLC checks small instances, TLAPS proves the main results
for every value of the constants.

## 1. Inventory

Paths are relative to `Firmware/PnpFirmware/src` and `Software`.

| Component | State | Operations | What makes it correct |
|---|---|---|---|
| Main loop (`PnpFirmware.ino`) and state machine (`core/StateMachine`) | mode, fault reason, E-stop flag, stop/pause flags of the job, calibration count, homing deadline | one handler per command, `tick`, `pressButton`, `setEstopHardware`, `injectFault` | the latch holds; no job without homing, program and current settings; a reason is shown exactly when stopped; calibration counts real motion; a held E-stop is honoured |
| Controls (`hal/Controls.h`) | debounced level of two buttons, last level of the E-stop line | `poll`, `edge` | a press counts once it settled, a bounce never; no level change of the line is lost for good |
| Program store (`core/ProgramStore`) | upload buffer, sizes and counters, stored document, `programLoaded` | `beginTransfer`, `receiveChunk`, `endTransfer`, `reset` | what is loaded is whole and valid; the buffer is never overrun, leaked or freed twice |
| Job interpreter (`core/Interpreter`) | reference to the program, travel envelope, variables, call depth | `load`, `run`, one handler per instruction, `check` | always stops at a stop flag; limits of variables, calls and iterations hold; RETURN and HALT unwind as far as they should |
| Serial protocol (`protocol/Protocol`) | line buffer, ring of the last 16 acknowledged ids, time of the last status frame | `poll`, `handleLine`, `maybeBroadcastStatus` | a resent command does not run twice; status neither floods nor falls silent |
| Configuration (`config/Config`) | struct with CRC in EEPROM | `load`, `save` | a torn write is never used |
| Travel limits (`config/TravelLimits`), validator (`core/ProgramValidator`) | none | pure functions | agree with the interpreter |
| HAL (`hal/Machine.h`) | positions, pins | moves, jogs, probes | a jog the E-stop cuts short is reported |
| Serial worker (`gui_worker.py`) | queue, pending commands with attempts | `send`, retry, chunked transfer | every command is confirmed or reported; order and at-most-once |
| Simulator (`simulator.py`) | the firmware's state under one lock, an interpreter thread with pause and stop events and a result queue, settings, ids of recent commands | tick thread, handlers, client reader and writer, broadcaster, console | same state machine; a stopped job does not report into the next one; the E-stop and its reason hold |
| Job interpreter of the simulator (`interpreter.py`) | program, variables, call depth, two events | one handler per instruction, `_check` | as the firmware's; a stop is seen wherever the job is |
| GUI windows (`pnp_gui.py`, `tab_*.py`) | state of the last status, fields that display settings, paced queries, flags | clicks, `_on_message`, timers, connect and disconnect | they display what the machine has and offer what it accepts |
| Program editor (`tab_program.py`) | table of waypoints | `_build_program`, upload | a generated program runs to its end and leaves the outputs as the last row says |

**Interactions.** The GUI queues commands in the serial worker, which writes
one JSON line each and waits for an ack or nack; `Protocol::handleLine` filters
duplicates and calls `StateMachine::handleCommand`. The state machine owns the
program store and, by reference, lends the stored document to the interpreter;
`tick` calls `Interpreter::run`, which blocks the whole loop until the job
ends. Controls calls back into the state machine. The stop and pause flags are
shared between the two. Status frames flow back from `buildStatus`. In the
simulator the same parts are threads: a tick thread, an interpreter thread, one
thread for each client, a broadcaster and a console.

**Hard behaviours.** One thread that blocks in a job while an operator presses
buttons; flags written from four places; references into a document that an
upload replaces; a wrapping 32-bit clock; uploads that arrive damaged, twice, or
stop half way, with `malloc` failing; a lossy line with retries; threads in the
simulator that outlive the job they belong to; EEPROM writes cut by a power
failure; windows that run ahead of the machine. `PROJECT.json` lists them under `hazards`, each
at its line with the properties that would notice.

## 2. Modules

| Module | Models | Status |
|---|---|---|
| `StoredProgram` | abstract store: what an upload promises the rest of the firmware | done |
| `Firmware` | loop, state machine, controls, and a job as the loop sees it; uses `StoredProgram` by INSTANCE for its store | done |
| `FirmwareProofs` | its theorems | done |
| `ProgramStore` | the chunk protocol of the store; implements `StoredProgram` | done |
| `ProgramStoreProofs` | its theorems and the refinement | done |
| `Timers` | homing deadline, status period and debouncing on the wrapping clock | done |
| `TimersProofs` | its theorems | done |
| `CommandDelivery` | serial worker, line and the de-dup of the device | done |
| `CommandDeliveryProofs` | its theorems | done |
| `SimCommands` | the simulator's table of commands and states, used by the next two | done |
| `Simulator` | tick, job threads, events, result queue and console of the simulator | done |
| `SimulatorProofs` | its theorems | done |
| `Job` | abstract thread of a job: what the simulator's state machine relies on | done |
| `Interpreter` | the instruction set, for the simulator and the firmware; implements `Job` | done |
| `EditorPrograms` | the programs that the editor tab generates, on `Interpreter` | done |
| `InterpreterProofs` | the theorems of both | done |
| `Upload` | chunked transfer of the worker against the handlers of the simulator | done |
| `UploadProofs` | its theorems | done |
| `Panel` | the windows of the GUI in front of the simulator | done |
| `PanelProofs` | its theorems | done |
| `MC*` | instances for TLC | one for each |

### Firmware

`pc` is the phase of `loop()`: `poll` (serial commands), `tick`, `run` (inside
`Interpreter::run`), then the three looks of `Controls::poll` at Start, Pause
and the E-stop line. Each command that `handleCommand` accepts is an action
`Cmd...` enabled in phase `poll`; any number of them may come in one round. A
command that the gate or its handler refuses changes nothing and is no step.
`setEstopHardware`, `enterHoming` and `injectFault` keep the source's names.

| Variable | Code |
|---|---|
| `state`, `fault`, `estopHw` | `state_`, `fault_`, `estopHw_` |
| `stop`, `pause` | `abortFlags_` |
| `receiving`, `loaded`, `doc` | the store, at the level of `StoredProgram` |
| `attached` | what the interpreter's `JsonArrayConst` refers to: nothing, the stored document, or one that was replaced |
| `runLimits`, `maxTravel` | `Interpreter::limits_`, `Config::travelLimits()` |
| `calAxis`, `calJogSteps`, `stepsPerMm` | calibration; the net steps stand for the quotient |
| `estopSeen`, `pin` | `Controls::estop_`, the line itself |
| `homed`, `origin`, `moved` | history: position known, who started the job, steps really made |

`TurnEstop` is the operator's hand; it may move between any two steps, during a
job and during a blocking jog. Time is abstract: a homing may end at any tick.
`MotionAborts` says whether a move of a job watches the line. The HAL as built
does not, and a HAL that does brings the machine to Estopped by another path
(`OpResult::Aborted`), which the code handles. The passing run has `TRUE`, where
either may happen; the two violations are shown of the HAL as built.

### StoredProgram and ProgramStore

`StoredProgram` has one action for each thing an upload can do to its clients:
`Begin`, `BeginFails`, `Discard`, `Reject`, `Accept`, `Clear`.
`ProgramStore` is the class: `held`, `buf`, `xferSize`, `xferChunks`,
`xferReceived` are the members, and the requests come in any order with any
sizes. A chunk is the bytes it decodes to up to the first character that does
not decode (`bad`), because `receiveChunk` appends as it decodes; the room is
checked byte by byte in the code and as a length in the model. Base64 text that
was damaged into other valid base64 is outside: the code carries no checksum.
The history variables `acked` and `poison` say which bytes of the buffer the
host knows to be accepted. Refinement: `receiving <- held`,
`loaded <- programLoaded`, `doc` the same.

The store is modelled at the level of its C++ interface, which is how the host
tests drive it. The serial path does not reach it in the code as it stands:
`Protocol::handleLine` parses no `size`, `chunks`, `index` or `data`, so a
`begin_transfer` that arrives over the serial line is refused as
`invalid_param`. `Firmware` likewise takes an upload at `handleTransferCommand`.

### Timers

`loop()` reads `millis()` once and hands the reading down, so `now` changes only
in `NextRound`, while time passes anywhere in a round (`Pass`): a `cal_jog` blocks
inside `poll`, a job inside `tick`, and whatever comes behind them in the round
works with the old reading. `lag` is the age of the reading, at most `MaxGap`, the
longest round. `Plus` and `Minus` are `uint32_t` arithmetic modulo `Wrap`;
`Reached` is the signed comparison of `tick`, `Due` and `Settled` the unsigned
differences of `maybeBroadcastStatus` and `Controls::edge`. `homingAge`,
`statusAge` and `rawAge` are the time that really passed since a homing, a status
frame or an unsettled level began, and `homingLag`, `statusLag`, `rawLag` how old
the reading was that it was stamped with. A timer that says its period has passed
is right up to that lag. The assumption that a period plus `MaxGap` fits the counter (half of it
for the signed comparison) is what the code relies on: a loop that blocks for
more than 24 days is outside.

### CommandDelivery

The worker (`Send`, `Transmit`, `Read`, `Retry`, `GiveUp`, `Disconnect`,
`Connect`), the device (`AckDuplicate`, `CarryOut`, `Refuse`) and the line
between them (`LoseDown`, `LoseUp`). `Simulated` chooses the pair: the firmware
on a serial line, which loses whole lines and whose opening resets the board, or
the simulator on a socket, which loses nothing while it is open and keeps its
commands, answers and ids when the client goes.

| Variable | Code |
|---|---|
| `queue`, `next`, `pending` | `_send_queue`, `_next_id`, `_pending` with its attempts (0: not pending) |
| `down`, `up` | the line both ways, with the buffers at its ends |
| `ring`, `head` | `recentIds_`, `recentHead_`; `_recent_ids` |
| `session` | history: which `SerialWorker`; the wire carries the id alone |
| `ran`, `since`, `told` | history: carried out; how many commands the device has remembered since it did this one, counted up to the size of the ring; what the GUI was told |

Time is abstract: a retry may come at any moment, because the firmware answers
nobody during a job or a jog, which may take any time. Whether a command is
carried out or refused is a choice, as it depends on the state of the machine,
which `Firmware` has. `Exempt` are the ids of queries (`get_status` and the
like), which both devices carry out again. The modelled commands are those of
`send`; the chunked transfer, which has its own way to wait for answers, is in
`Upload`.

### Simulator

The tick thread drains commands, hardware events and buttons and reads the
result of a job while it holds the lock, so each item is an action (`Cmd...`,
`EstopPressed`, `Jam`, `StartButton`, `TickResult` ...). Jobs are threads without
the lock: `thread[j]` is `next` ahead of an instruction, `busy` inside one, an
outcome when it has ended and not yet reported, `gone` afterwards. `stop` and
`pause` are the two events, shared by all jobs, `results` the queue that all jobs
share. The console thread writes without the lock in any state; what it does in
two steps in the code (look at the state, then start; write the event, then the
state) is two steps here.

| Variable | Code |
|---|---|
| `state`, `fault`, `estopHw`, `program` | `MachineState` |
| `pause`, `stop`, `interp`, `results` | `_pause_event`, `_stop_event`, `_interp`, `_interp_result` |
| `thread`, `runs` | the threads of `_start_interpreter`, each with its program |
| `console` | what the console thread is in the middle of |
| `homed`, `overruled`, `deserted` | history: position known; the console paused, resumed, loaded or injected a fault; a job lost its stop event or its place while alive |

The properties exclude two things that do go wrong and that the hazards list:
what the console overrules, and a job that was deserted. `JobIsKnown` excludes the
second alone, and what it says of the program the first. A job is deserted when
`reset_fault`, a button or the release of the E-stop clears the stop event before
the thread has looked at it, or when another job starts while it, or its result,
is still there: the arm is then moved by a thread that the state machine does not
know of. A fault that the console injects into a running job deserts it too, as the
stop event is left alone.

### Interpreter and EditorPrograms

The nested calls of `_exec_body` are a stack of frames, innermost first; a
program maps blocks to sequences of instructions. Values are abstracted to
whether a variable is defined, conditions to the truth values they can have, and
a machine operation moves for a while and may fail. One action per kind of
instruction; `Check` is separate from the instruction that it lets through,
because an event may be set in between. `mcu` chooses the interpreter. The
firmware's differs in what the code differs in: a bounded number of variables
(`Full`), any text being true for an output (`Written`), a `RETURN` in the main
program being a fault, a depth that is counted back at the limit, an output it does
not know being ignored (`Unknown` makes the simulator fault), and nobody who sets an
event while it runs. `EditorPrograms!BuildProgram` is `_build_program`, for a table of
`Rows` that is not empty, as the code refuses an empty one.

`Job` is what the state machine of the simulator sees of it: one thread that looks at
the events ahead of each instruction, may be stopped inside one, and has one outcome.
`ThreadPhase` maps the interpreter to it: the thread is between two instructions when
its next step looks at the events or ends the job without a look (behind the last
instruction, in a `HALT`, in a `RETURN` of the main program); at the end of the body
of a loop, branch or subroutine it is still inside of the instruction that has the
body. `Simulator` has the same steps for each of its threads, with all of them on one
pair of events.

### Upload

The worker blocks in `_read_until_ack` for the answer to each line and drops what
it read together with it; `Torn` and `Rest` are the lines that a change of buffer
loses. It goes by the command an answer names, not by its id. The simulator
keeps one transfer and looks at no id. `Gate` starts and ends jobs, in which all
lines are refused. A timeout may always come too early; `late` records that it
did. Two restrictions: broadcasts are left out, and chunks of two programs are
assumed not to make one that has the announced length and parses.

### Panel

The windows and the handlers of the simulator they talk to, over a socket that
keeps the order. `runState` is what the Run tab shows, which answers change ahead
of a status; `tabState` what the other tabs have from the last status; `shown` and
`value` are the settings, displayed and real; `queries` and `deferred` the paced
initial queries. A status is built under the lock and sent without it (`built`).
The machine moves as it likes (`Move`, and `Fault` and `Estop` for what the console
or the hardware does to it), as its own rules are in `Simulator`. `estopHw` is the
held E-stop of the simulator, `estopLight` the light of the Run tab that shows it,
and `applyEnabled` the Apply button of a calibration, which the next status, and not
a cancel, disables.

## 3. Runs

| Run | Instance | Shows |
|---|---|---|
| `jobs` | all commands, two envelopes, one axis, jogs of -1 and 2 steps, net jog up to 2, one program; `FairSpec` | latch, homing, program and settings of a job, fault reason, calibration counts motion and nothing else; a held E-stop is honoured unless the loop spins on the pause flag |
| `uploads` | two byte values, sizes to 3, chunk counter modulo 4, nine chunks of up to 3 bytes, good and damaged | buffer, memory, acceptance, and that it implements `StoredProgram` |
| `timers` | counter of twelve values, periods 3, 2 and 2, rounds that take up to 2; `FairSpec` | no timer is late, and none earlier than the age of the reading that started it, in any phase of the counter; a homing ends |
| `serial` | firmware; a ring of two places; a session of three commands and one of one, two attempts; `FairSpec` | a command is not carried out again, nor refused after it was, until the ring has taken two others, a true ack; every command is answered or reported as failed |
| `sim_jobs` | two jobs, two programs, console; `FairSpec` | the E-stop is shown and keeps its reason, no job without homing, the thread that moves the arm is the known one and runs the stored program; a stop ends the job and an end is shown |
| `interpreter` | both interpreters, eleven programs, loops cut off after 3 iterations, calls after 3, variables after 2; `FairSpec` | calls are counted whichever way they are left; jobs end, and end when stopped; generated programs run through; the thread is a `Job` |
| `chunked` | five uploads of one or two chunks, one of them invalid, three starts or ends of a job; `FairSpec` | what is said to be stored is; every upload has a result; an undisturbed one succeeds |
| `panel` | three settings (steps, a position, the baseline), a valid and an invalid program, two clicks, connections or moves, one message ahead of a status; `FairSpec` | at rest the windows display what the machine has and offer what it accepts, Reset E-Stop under a held E-stop apart; its state is shown in the end |

Four runs show where the code departs from a document; each checks one property
taken from the sentence it quotes, and `findings` in `PROJECT.json` gives both
sides.

| Run | Property | Trace |
|---|---|---|
| `start_button` | `StartIsRunProgram` | upload, home, Start: the job runs with no program attached |
| `estop_reaches_job` | `EstopAlwaysHonoured` | pause, E-stop, release, home, Start: `check()` waits on the old pause flag and the E-stop line is read no more |
| `reconnect` | `DuplicateWasRun` | simulator: connect again, send; id 1 is in the ring from the last connection |
| `paused_end` | `PausedIsResumable` | simulator: pause while the last instruction executes; the job ends in PAUSED, and resume shows RUNNING with nothing running |

Other departures that the models contain and that no run claims away:

- An E-stop pressed in a job of the firmware is seen when the job is over; the HAL
  as built watches the line in jogs only.
- `reset_estop` after a software `estop` is refused by the firmware, as nothing
  but the button clears `estopHw_`.
- A command that is refused and resent may be carried out after the GUI has shown
  the refusal (`Protocol.cpp:69` remembers what was acknowledged only).
- A resend that arrives behind sixteen later commands is carried out again, or
  refused: its id has left the ring. In `serial`, with its two places, both happen.
- A homing started behind a jog or a job of the same round works with the reading
  that is as old as these have taken (`PnpFirmware.ino:56-60`): it has that much less
  than its three seconds, down to none; in the same way a button may be taken as
  settled at its second look, and a status frame follow the last at once.
- The windows offer Reset E-Stop while the E-stop is held, and the simulator answers
  `hw_fault` (`simulator.py:563`).
- `RETURN` in the main program ends a job of the simulator, as
  `job-program.md:371` says, and faults on the firmware with `_return`
  (`Interpreter.cpp:50` tests for `_halt` alone).
- The firmware takes the texts `release` and `closed` of an `OUTPUT` for true
  (`Interpreter.cpp:201`; the conversion is ArduinoJson's): it presses the laser
  button and opens the door. Its comment calls this a placeholder.
- More than eight variables, loop index included, are too many for the firmware
  only: a generated program with eight probed rows in a counted loop faults.
- A stop between the press and the release of the laser button leaves it pressed
  in the simulator, too: no reset releases it.
- The worker of a chunked upload hands an answer to the wrong upload after
  timeouts: with four uploads, answers outstanding and a job that refuses
  `begin_transfer`, an upload is reported as stored that was not. `AckMeansStored`
  has the premise that excludes it, `late` and a job.
- A file picked in the Run tab replaces the text in the editor before the machine
  has accepted it; thresholds may be displayed wrong until the next connection and
  outputs are displayed as off (`Confirmed` in `Panel`).

**Why the bounds are enough.** The modes and flags of the firmware are finite
as they are; two envelopes are needed to tell an outdated one from the current
one, one program suffices because the reference is either current or not, and a
jog of two steps is the shortest that can be cut in the middle. In the store, two
byte values tell an order from its reverse, three bytes let a chunk straddle the
limit, and a counter modulo 4 wraps within one upload. The timers are compared at
every phase of a counter that wraps within every few periods. What does not depend
on the sizes is proved (section 5).

In `CommandDelivery` the smallest loss, resend and overtaking needs two commands
and two attempts; the third command pushes the first out of a ring of two places,
which is the smallest whose head moves. The second session brings back an id of the
first. The ring in the code has 16 places. Queries, which are neither remembered nor
looked up, are in no instance; the theorems have them.

In `Simulator` two jobs let one outlive the start of the other. In `Interpreter`
three iterations and calls reach the limits with a loop and a subroutine on the
way; the programs between them execute every instruction, leave subroutines
through loops and branches, and fill the variables. Five uploads are one more than
the shortest confusion of answers takes. `Panel` has every window in front of a
machine at rest or in calibration; two events allow a click that overtakes the
answer to another, a click at a machine that has just moved, and a reconnection
with answers of the last connection still under way. The second answer and the
queries come on top of these events, so a trace is some twenty steps long. The
settings are three of the six: the threshold and the outputs are excluded from
`PanelAgrees`, and the travel limits take the path of the steps, displayed before
the answer and asked for again after it. The theorems hold for all six.

The simulator's side of `CommandDelivery` is checked by `reconnect` and covered by
the theorems, which hold for `Simulated` either way.

**Deadlock** is checked in `jobs`, `uploads`, `timers` and the runs of `Simulator`.
In the other modules everything may have been sent, answered or executed.

## 4. Fairness

`Firmware!FairSpec`: `WF_vars(Loop)`, as the firmware has one thread and nothing
else to do; `SF_vars(TickHoming)`, as a homing deadline passes (this is
`HomingEnds` of `Timers`); `WF_vars(RunEnds)`, as a job ends unless it is kept
waiting on the pause flag, which excludes programs with an endless loop of
instructions (the interpreter bounds its loops by 10000 iterations). Host and
operator owe nothing: they may fall silent for ever.

`Timers!FairSpec`: the loop goes round (`WF_vars(Loop)`) and time does not stand still
(`WF_vars(Pass)`). Nothing is assumed of buttons or
commands.

`CommandDelivery!FairSpec`: the worker thread goes round its loop, so it writes
what is queued, reads what has come, and finds that a timeout has passed
(`WF_vars` of `Transmit`, `Read`, `Retry`, `GiveUp`). Device and line owe nothing.

`Simulator!FairSpec`: the tick thread runs at a fixed rate (`TickHoming`,
`TickResult`), and the operating system schedules the thread of a job, which must
look at the stop event and put its result into the queue (`SeeStop`, `Abort`,
`Report`). That an instruction, a pause or a program ends is not assumed.

`Interpreter!FairSpec`: the thread runs, motions and timeouts come to an end
(`WF_vars(Thread)`), and a `WAIT` for what is certain is noticed. `JobEnds` excludes
a job that is paused for good or waits for ever without a timeout.

`Upload!FairSpec`: the worker thread and the device go on; a timeout is one of the
things the worker may do. `Panel!FairSpec`: timers fire, Qt delivers signals, the
simulator ticks and broadcasts; clicks, connections and moves are owed to nobody.

## 5. Proofs

All theorems hold for every value of the constants that satisfies the named
assumption of the module (`FirmwareAssumption`, `ProgramStoreAssumption`,
`TimersAssumption`, `DeliveryAssumption`, `SimulatorAssumption`,
`InterpreterAssumption`, `EditorAssumption`, `UploadAssumption`, `PanelAssumption`,
`InitialAssumption`). Every safety property of a passing run is proved, invariants
and action properties alike.

**Firmware.** `EstopLatch`, `HomedBeforeJob`, `JobHasProgram`, `FaultShown` and
`CalibrationCountsMotion` are each about a few variables, and together almost
inductive. What is missing is `RunPhase` (`run` is called in Running only),
`UploadExcludesProgram` (needed so that a begun upload cannot coexist with a
loaded program, hence `JobHasProgram` after `end_transfer`), and `HostSettings`
(settings that `run_program` made hold through pause and resume from either
side), from which `HostJobIsCurrent` follows. `EstopExit` follows from the
invariant, one action at a time, and so does `CalibrationFromMeasurement`. The
theorems hold with `MotionAborts` either
way.

`StoreImplements` says that the firmware as a whole implements `StoredProgram`: of
all its commands, loop rounds and hands at the E-stop, only the two upload commands
touch the store, and through its actions. Together with `Implements` of
`ProgramStoreProofs` it closes the chain from the chunks to what `run_program` may
start, `StoreIsWhole`.

**ProgramStore.** The invariant adds `BufferIsAckedAndPoison`: the length of the
buffer is the bytes acknowledged plus those refused chunks left, and without the
latter the buffer is the acknowledged bytes. So when the total equals the
announced size and as many bytes were acknowledged, nothing else is in it:
`AcceptedIsAcked`. `FittingFits` is the lemma about the bounds checks. `Implements`
maps every action to one of `StoredProgram` or a stutter; `RunnableIsWhole` is
proved of the abstract store and carried over.

**Timers.** `Since`, `Until`, `Ahead` and `SignedComparison` are the facts of
modular arithmetic. The invariant says that as long as a timer runs, the difference
of the readings is the time that passed between them (`HomingExact`, `StatusExact`,
`ButtonExact`), which is the age, longer by what the first reading was old and
shorter by what the last one is (`homingSince`, `statusSince`, `rawSince`).
`HomingLeft`, `StatusLeft` and `ButtonLeft` say that what a round has left running
was short of its time at the reading; they bound the difference before the next
reading is taken, which is why the two kinds need each other. "Not early" then holds
up to the age of the first reading, "not late" up to that of the last.

**CommandDelivery.** `RanIsRemembered`: the id of a command stands in the ring as
many places behind the head as commands have been remembered since (`Back`), until
these are as many as the ring has places. `RememberMovesBack` is the step: a write
goes to the head, which moves on, so everything else is one place further back, and
only the place at the full distance is written to. A command with a place in the
ring is taken for a duplicate (`KeptIsDuplicate`), so it is neither carried out nor
refused: `AtMostOnceHolds` and `RanIsNotRefusedHolds`, without a bound on the number
of commands, for either device. For the reset of the board on a reconnection
`LineIsCurrent` is needed (on a serial line, what is under way is of this session, an
ack in it is of what ran, and nothing was remembered for a later session). It also
gives `AckMeansRanHolds`, which is false of the simulator: there `DuplicateWasRun`
fails.

**Simulator.** `HeldEstopIsShown` and `HomedBeforeJob` are inductive with
`EstopIsReason` (a software `estop` and the button give the same reason) and
`ConsoleOverrules` (the console is in the middle of a pause or resume only after
`overruled` was set, so the state it writes second is excused). `JobIsKnown` is
not: `OneJob` adds that whoever is alive, also with a result not yet reported, is
the known job, whatever the console writes, and that a result in the queue means nobody is alive, so that
reading it cannot take the place of a job that still works. Starting a job while
anyone is alive sets `deserted`, which is what makes the new one the only one.
`EstopKeepsReason` follows action by action.

`ThreadIsJob` (each thread, from its start to its report, is a job of `Job`) needs
`NotYet`, that a job which was not started has no thread; `JobMayExecute` is the
other direction: what a job of `Job` may do, a thread of the simulator may do. So the
theorems about `Simulator` hold of it with the real interpreter in its threads, by
`ImplementsJobHolds`.

**Interpreter.** `DepthCounts` relates a counter to the number of call frames of a
stack that every second action changes. `Nesting` adds that the outermost frame is
that of the main program (so a frame that is left has one below) and that an
instruction is looked at only where there is one. `PushOK`, `DropOK`, `ReplaceOK` and
`AdvancedOK` say what becomes of a well-formed stack and of its call frames,
`NearestIsFirst` that a `RETURN` takes exactly one call frame away.
`ImplementsJobHolds` needs no invariant: `Between` is defined so that every step shows
by itself whether it crosses an instruction. `StopIsObeyedHolds`, proved of the actions
of `Job`, is carried over: with the stop event set neither an instruction nor a leg of
a move begins. `PauseHoldsFirmware` is the other half of the run `estop_reaches_job`:
whatever the program, a firmware job that finds a pause flag of an earlier one stays
ahead of its first instruction, with no fault and with its outputs at rest.

**EditorPrograms.** `EditorJobsHold` is about every table of rows and any number of
cycles. The code of a generated job is a concatenation (`FlattenSeq`, a recursive
function), so what stands at an index is found by induction, over a set of naturals
(`NatMin`, `NatInd`) instead of an operator: the function that the definition chooses
exists (`FlatExists`), `Flattened` unrolls it, and `BodyOK` is the fact about all
bodies: the kinds of instructions they have, that a pressed laser button is let go two
instructions later, and that the last that is written to each output is what the last
row says. The invariant is `EditorShape` (where a generated job can be, and the
variables it has defined), `EditorOutputs` (in the body each output is what was last
written to it before the program counter, `LastWritten`, and the button is released
unless the counter is between the two writes, `LaserHeld`; outside of it the outputs
are as the last row or, before the first iteration, at rest) and `EditorEnds`.
`VariablesOK` counts: the job defines at most one variable for each probed row and one
for its loop, so a firmware that is full has too many (`FullMeansTooMany`). The provers
know nothing of `ToString`; names that coincided would only be fewer.

**Upload.** `AckMeansStored` excludes the one combination that does break it, a late
answer and a job that refuses `begin_transfer`, so the proof has two arguments.
Without a job, `BeginComesFirst`: every `begin_transfer` is taken, and each line in the
socket is behind the one of its upload, so the chunks in the transfer are of one upload
even when answers are confused. Without a late answer, `InStep`: at most one line or
answer that matters is under way and it belongs to the upload in progress, what is left
of refused `end_transfer`s being awaited by nobody. Either gives that what is stored is
the upload that sent the chunks (`WholeIsOwn`) and `StoredInOrder`, from which the
property follows. `TornIsSuffix` and `RestIsSuffix` make a change of buffer harmless:
what it leaves is the end of what was there. `ResultsAreBegun` needs neither argument:
answers name uploads that were begun, also when they are taken for others.

**Panel.** `PanelAgrees` speaks of a moment when nothing is under way; the invariant
says what is owed in all others. `Shown`: a value that is not displayed will still be
asked for, or a request or an answer that leads to it is in the line. `LastIsTrue`: the
last message that tells a value tells the one of the machine, unless a later one makes
the windows ask again. `BaselineKnown` is the exception of the baseline, which reads 0
until it is known, and `Meant` says what a line may be about. `OfferedIsAcceptedHolds`
is then a comparison of the two tables command by command, once the last status is
true, with Reset E-Stop under a held E-stop as the one difference.

**What the provers asked of the models.** Type invariants are split into Boolean and
other parts. The outputs that an instruction writes are a function written out, as the
provers do not know the operators `:>` and `@@` of the module TLC. Assumptions that the
code guarantees are stated: the table is not empty and its rows come from `_read_rows`
(`EditorAssumption`), and a new connection asks for every setting but the outputs
(`InitialAssumption`). None of this changes what the models do.

**What stays with TLC.** TLAPS does not prove liveness under fairness;
`HeldEstopIsHonoured`, `HomingEnds`, `EveryCommandReported`, `StopEndsJob` (of
`Simulator` and of `Interpreter`), `EndIsShown`, `JobEnds`, `UploadEnds`,
`UndisturbedUploadSucceeds` and `StateCatchesUp` are model-checked only, and so are the
four disagreements, each of which is a trace. `StatusNotEarly`, `StoreIsWhole`,
`StopIsObeyed`, `HeldByPause`, `ResultsAreBegun`, `RunnableIsWhole` (which `uploads` checks through the
refinement) and the type invariants are proved and in no run.

## 6. What is not modelled

- Outputs, servos, ToF thresholds and manual jogs of the firmware: they touch
  neither the modes nor the flags.
- The persistent configuration (`Config`): one struct with a CRC, written and read
  as a whole by a library that is outside the repository. What a power failure
  leaves of single bytes is a matter of that library.
- The grammar of programs (`ProgramValidator`): a pure walk over a tree with its
  own unit tests; here it is the choice between `Accept` and `Reject`, and the
  assumption `Valid` on the programs of `Interpreter`. Arithmetic and texts of the
  interpreters; names of variables longer than 15 characters, which the firmware
  cuts.
- A retry that `_read_until_ack` sets aside: while an upload waits, answers to other
  commands are handed on and retries pause, which for `CommandDelivery` is a slow
  worker. Lines that an upload drops with its buffer are answers lost, as on the
  serial line.
- The length limit of a line, JSON framing and formatting, pin setup, step pulses,
  I2C sensors, simulated kinematics, the log, plots and layout of the windows,
  `tab_sensor_cal.py` (not used by the main window), vendored code.

## 7. Plan

Done: loop and state machine, controls, timers, store, delivery, simulator,
interpreters, uploads, windows, and a theorem for every safety property of a passing
run. Left, in this order:

1. The job of the firmware: that `Interpreter` with `mcu` gives the loop of `Firmware`
   only the outcomes of `RunResults`, as `Job` does for the simulator.
2. The safety half of the liveness properties: bounds on what a fair step has left to
   do (attempts of a command, lines of an upload, iterations of a loop).
3. A run of `Panel` with more events, or with the settings taken apart, if a faster
   encoding is found.
