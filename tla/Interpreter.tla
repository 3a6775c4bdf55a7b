---------------------------- MODULE Interpreter ----------------------------
(***************************************************************************)
(* The two job interpreters, one instruction at a time: the simulator's    *)
(* (interpreter.py), in the thread that _start_interpreter gives it, and   *)
(* the firmware's (Interpreter.cpp), which follows it in the one thread    *)
(* there is.  They are told apart by mcu.                                  *)
(*                                                                         *)
(* A program is a record: code maps the name of a block ("main", a         *)
(* subroutine, or the body of a loop or branch) to its instructions, subs  *)
(* names the subroutines.  The nested Python calls are a stack of frames,  *)
(* the innermost first.  A value is abstracted to whether its variable is  *)
(* defined; a sensor, and a comparison, has any value its condition can    *)
(* have.  The machine moves for a while and may fail.  Names of variables  *)
(* fit the 15 characters that the firmware keeps of them.                  *)
(***************************************************************************)
EXTENDS Integers, Sequences, FiniteSets, TLC

CONSTANTS
    Programs,    \* programs that may be started
    MaxIter,     \* MAX_LOOP_ITER, kMaxLoopIter
    MaxDepth,    \* MAX_CALL_DEPTH, kMaxCallDepth
    MaxVars      \* kMaxVars, of the firmware

NoBlock == "none"

Ops == { "MOVE", "PROBE_Z", "HOME", "DELAY", "OUTPUT", "READ_SENSOR", "WAIT",
         "LOOP_WHILE", "LOOP_FOR", "IF", "CALL", "RETURN", "HALT", "FAULT",
         "SET_VAR", "LOG", "LABEL", "JUMP" }
Blocking == {"PROBE_Z", "HOME", "DELAY"}
Moving   == {"MOVE", "PROBE_Z", "HOME"}

(* An instruction: needs and store are the variables it reads and defines, *)
(* path the variables each leg of a MOVE reads, when the truth values its  *)
(* condition can have, n the count of a LOOP_FOR and, for a WAIT, whether  *)
(* there is a timeout, outs the outputs it writes.                         *)
Instruction(op) ==
    [op |-> op, body |-> NoBlock, alt |-> NoBlock, n |-> 0, needs |-> {},
     store |-> {}, path |-> <<{}>>, when |-> BOOLEAN, outs |-> <<>>]

(* ProgramValidator.validate: known instructions with the blocks that they *)
(* need, and no call of an unknown subroutine.  Conditions, counts and     *)
(* jumps are not looked at.                                                *)
ValidInstruction(p, i) ==
    /\ i.op \in Ops /\ i.n \in Nat /\ i.when \subseteq BOOLEAN
    /\ i.op \in {"LOOP_WHILE", "LOOP_FOR", "IF"} => i.body \in DOMAIN p.code
    /\ i.op = "IF" => i.alt \in DOMAIN p.code \cup {NoBlock}
    /\ i.op = "CALL" => i.body \in p.subs

Valid(p) ==
    /\ "main" \in DOMAIN p.code /\ p.subs \subseteq DOMAIN p.code
    /\ \A b \in DOMAIN p.code :
        /\ Len(p.code[b]) \in Nat
        /\ \A k \in 1..Len(p.code[b]) : ValidInstruction(p, p.code[b][k])

ASSUME InterpreterAssumption ==
    /\ MaxIter \in Nat \ {0} /\ MaxDepth \in Nat \ {0} /\ MaxVars \in Nat
    /\ \A p \in Programs : Valid(p)

VARIABLES
    prog, mcu,        \* _prog, and which interpreter has it
    stack,            \* the calls of _exec_body that have not returned
    phase, leg,       \* where in an instruction, and in its path
    defined,          \* _vars
    callDepth,        \* _call_depth
    outputs,          \* the outputs of the machine
    outcome,          \* "running", "halt" or the reason of the fault
    pause, stop       \* the events, set and cleared by other threads

job     == <<prog, mcu>>
control == <<stack, phase, leg>>
events  == <<pause, stop>>
vars == <<job, control, defined, callDepth, outputs, outcome, events>>

(* Ahead of an instruction, allowed to execute it, in a blocking call,     *)
(* between two legs, allowed to start the next leg, in a WAIT.             *)
Phases == {"next", "checked", "busy", "via", "leg", "wait"}
Kinds == {"main", "branch", "while", "for", "call"}
Outcomes == { "running", "halt", "fault", "estop_triggered", "program_error",
              "motion", "wait_timeout", "loop_overflow", "call_depth",
              "return" }

FlagsOK == mcu \in BOOLEAN /\ pause \in BOOLEAN /\ stop \in BOOLEAN

(* An iteration is counted when it begins.                                 *)
Frames == [kind : Kinds, block : DOMAIN prog.code, pc : Nat \ {0},
           iter : Nat, count : Nat, when : SUBSET BOOLEAN]

StackOK ==
    /\ stack \in Seq(Frames)
    /\ \A i \in 1..Len(stack) :
        /\ stack[i].pc <= Len(prog.code[stack[i].block]) + 1
        /\ stack[i].iter <= stack[i].count

TypeOK ==
    /\ FlagsOK /\ StackOK /\ prog \in Programs
    /\ phase \in Phases /\ leg \in Nat
    /\ callDepth \in 0..(MaxDepth + 1) /\ outcome \in Outcomes

Frame(kind, block) ==
    [kind |-> kind, block |-> block, pc |-> 1, iter |-> 0, count |-> 0,
     when |-> BOOLEAN]

AtRestOutputs == [pump |-> FALSE, valve |-> FALSE, servo_door |-> "closed",
                  servo_laser_btn |-> "release"]

(* The firmware may find the pause flag of an earlier job.                 *)
Init ==
    /\ prog \in Programs /\ mcu \in BOOLEAN
    /\ stack = <<Frame("main", "main")>> /\ phase = "next" /\ leg = 0
    /\ defined = {} /\ callDepth = 0
    /\ outputs = AtRestOutputs
    /\ outcome = "running" /\ stop = FALSE
    /\ pause \in {FALSE, mcu}

-----------------------------------------------------------------------------
Top  == Head(stack)
Code == prog.code[Top.block]
AtEnd == Top.pc > Len(Code)
Current == Code[Top.pc]

Advanced == <<[Top EXCEPT !.pc = @ + 1]>> \o Tail(stack)
Push(f)  == stack' = <<f>> \o Advanced
Pop      == stack' = Tail(stack)

Fault(reason) ==
    /\ outcome' = reason
    /\ UNCHANGED <<job, control, defined, callDepth, outputs, events>>

Undefined == ~(Current.needs \subseteq defined)

(* _check: waits while paused, and lets nothing through after a stop.  An  *)
(* event that is set right after it comes too late for this instruction.   *)
(* Mutant: the stop event is looked at in the waiting loop only.           *)
CheckMut ==
    /\ outcome = "running" /\ ~pause
    /\ \/ phase = "next" /\ ~AtEnd /\ phase' = "checked"
       \/ phase = "via" /\ phase' = "leg"
    /\ UNCHANGED <<job, stack, leg, defined, callDepth, outputs, outcome, events>>
Check ==
    /\ outcome = "running" /\ ~pause /\ ~stop
    /\ \/ phase = "next" /\ ~AtEnd /\ phase' = "checked"
       \/ phase = "via" /\ phase' = "leg"
    /\ UNCHANGED <<job, stack, leg, defined, callDepth, outputs, outcome, events>>

Fetch(ops) ==
    outcome = "running" /\ phase = "checked" /\ Current.op \in ops

Exec(ops) == Fetch(ops) /\ ~Undefined

(* setVar: the firmware has no place for more variables than MaxVars.      *)
Full(defs) == mcu /\ Cardinality(defined \cup defs) > MaxVars

(* An output of another name is refused by the simulator, and ignored by   *)
(* the firmware.                                                           *)
Unknown(outs) == ~mcu /\ ~(DOMAIN outs \subseteq DOMAIN outputs)

(* execOutput takes any text for true, which opens the door and presses    *)
(* the button.                                                             *)
Written(outs) ==
    IF mcu THEN [o \in DOMAIN outs |->
                    CASE o = "servo_door" -> "open"
                      [] o = "servo_laser_btn" -> "press"
                      [] OTHER -> outs[o]]
           ELSE outs

(* An instruction that is over at once.                                    *)
Simply(defs, outs) ==
    /\ phase' = "next" /\ stack' = Advanced
    /\ defined' = defined \cup defs
    /\ outputs' = [o \in DOMAIN outputs |->
                     IF o \in DOMAIN outs THEN Written(outs)[o] ELSE outputs[o]]
    /\ UNCHANGED <<job, leg, callDepth, outcome, events>>

-----------------------------------------------------------------------------
(* Instructions                                                            *)

ReadUndefined == Fetch(Ops) /\ Undefined /\ Fault("program_error")

Simple ==
    /\ Exec({"OUTPUT", "READ_SENSOR", "SET_VAR", "LOG", "LABEL"})
    /\ IF Full(Current.store) \/ Unknown(Current.outs)
       THEN Fault("program_error")
       ELSE Simply(Current.store, Current.outs)

Blocks ==
    /\ Exec(Blocking) /\ phase' = "busy"
    /\ UNCHANGED <<job, stack, leg, defined, callDepth, outputs, outcome, events>>

(* A leg of a MOVE: its coordinates are looked up when its turn comes.     *)
StartLeg(k) ==
    IF Current.path[k] \subseteq defined
    THEN /\ phase' = "busy" /\ leg' = k
         /\ UNCHANGED <<job, stack, defined, callDepth, outputs, outcome, events>>
    ELSE Fault("program_error")

DoMove == Exec({"MOVE"}) /\ StartLeg(1)

NextLeg == outcome = "running" /\ phase = "leg" /\ StartLeg(leg + 1)

BusyDone ==
    /\ outcome = "running" /\ phase = "busy"
    /\ IF Current.op = "MOVE" /\ leg < Len(Current.path)
       THEN /\ phase' = "via"
            /\ UNCHANGED <<job, stack, leg, defined, callDepth, outputs, outcome,
                           events>>
       ELSE IF Full(Current.store) THEN Fault("program_error")
       ELSE /\ phase' = "next" /\ leg' = 0 /\ stack' = Advanced
            /\ defined' = defined \cup Current.store
            /\ UNCHANGED <<job, callDepth, outputs, outcome, events>>

(* Out of the travel limits, nothing found by a probe, or aborted.         *)
BusyFails ==
    /\ outcome = "running" /\ phase = "busy" /\ Current.op \in Moving
    /\ Fault("motion")

WaitBegins ==
    /\ Exec({"WAIT"}) /\ phase' = "wait"
    /\ UNCHANGED <<job, stack, leg, defined, callDepth, outputs, outcome, events>>

(* A condition that holds ends the WAIT without a look at the events.      *)
WaitEnds ==
    /\ outcome = "running" /\ phase = "wait" /\ TRUE \in Current.when
    /\ phase' = "next" /\ stack' = Advanced
    /\ UNCHANGED <<job, leg, defined, callDepth, outputs, outcome, events>>

(* Time runs while the job is paused, too.                                 *)
WaitTimesOut ==
    /\ outcome = "running" /\ phase = "wait" /\ FALSE \in Current.when
    /\ Current.n > 0 /\ ~pause /\ ~stop
    /\ Fault("wait_timeout")

If ==
    /\ Exec({"IF"}) /\ phase' = "next"
    /\ \E b \in Current.when :
        LET branch == IF b THEN Current.body ELSE Current.alt
        IN  IF branch = NoBlock THEN stack' = Advanced
                                ELSE Push(Frame("branch", branch))
    /\ UNCHANGED <<job, leg, defined, callDepth, outputs, outcome, events>>

LoopWhile ==
    /\ Exec({"LOOP_WHILE"}) /\ phase' = "next"
    /\ \E b \in Current.when :
        IF b THEN Push([Frame("while", Current.body) EXCEPT
                          !.count = MaxIter, !.when = Current.when])
             ELSE stack' = Advanced
    /\ UNCHANGED <<job, leg, defined, callDepth, outputs, outcome, events>>

(* The firmware does not look at what setVar says.                         *)
LoopFor ==
    /\ Exec({"LOOP_FOR"}) /\ phase' = "next"
    /\ IF Current.n > 0
       THEN /\ Push([Frame("for", Current.body) EXCEPT !.count = Current.n])
            /\ defined' = IF Full({"_loop_i"}) THEN defined
                                               ELSE defined \cup {"_loop_i"}
       ELSE stack' = Advanced /\ UNCHANGED defined
    /\ UNCHANGED <<job, leg, callDepth, outputs, outcome, events>>

Call ==
    /\ Exec({"CALL"}) /\ phase' = "next"
    /\ IF callDepth < MaxDepth
       THEN /\ callDepth' = callDepth + 1
            /\ Push(Frame("call", Current.body)) /\ UNCHANGED outcome
       ELSE /\ callDepth' = IF mcu THEN callDepth ELSE callDepth + 1
            /\ outcome' = "call_depth" /\ UNCHANGED stack
    /\ UNCHANGED <<job, leg, defined, outputs, events>>

(* _ReturnSignal goes out through loops and branches to the nearest call,  *)
(* or ends the job, on the firmware as a fault.  Mutant: the depth is only *)
(* counted down at the end of a subroutine's body.                         *)
CallFrames == {i \in 1..Len(stack) : stack[i].kind = "call"}
Nearest == CHOOSE i \in CallFrames : \A k \in CallFrames : i <= k

ReturnMut ==
    /\ Exec({"RETURN"}) /\ phase' = "next"
    /\ IF CallFrames = {}
       THEN /\ outcome' = IF mcu THEN "return" ELSE "halt"
            /\ UNCHANGED <<stack, callDepth>>
       ELSE /\ stack' = SubSeq(stack, Nearest + 1, Len(stack))
            /\ UNCHANGED <<callDepth, outcome>>
    /\ UNCHANGED <<job, leg, defined, outputs, events>>

Return ==
    /\ Exec({"RETURN"}) /\ phase' = "next"
    /\ IF CallFrames = {}
       THEN /\ outcome' = IF mcu THEN "return" ELSE "halt"
            /\ UNCHANGED <<stack, callDepth>>
       ELSE /\ stack' = SubSeq(stack, Nearest + 1, Len(stack))
            /\ callDepth' = callDepth - 1 /\ UNCHANGED outcome
    /\ UNCHANGED <<job, leg, defined, outputs, events>>

Halt      == Exec({"HALT"}) /\ Fault("halt")
FaultOp   == Exec({"FAULT"}) /\ Fault("fault")
Jump      == Exec({"JUMP"}) /\ Fault("program_error")

-----------------------------------------------------------------------------
(* The end of a block                                                      *)

Leave(kinds) ==
    outcome = "running" /\ phase = "next" /\ AtEnd /\ Top.kind \in kinds

EndMain == Leave({"main"}) /\ Fault("halt")

EndBranch ==
    /\ Leave({"branch", "call"}) /\ Pop
    /\ callDepth' = IF Top.kind = "call" THEN callDepth - 1 ELSE callDepth
    /\ UNCHANGED <<job, phase, leg, defined, outputs, outcome, events>>

Again(iter) ==
    /\ stack' = <<[Top EXCEPT !.pc = 1, !.iter = iter]>> \o Tail(stack)
    /\ UNCHANGED outcome

(* Mutant: the iterations are not counted.                                 *)
EndWhileMut ==
    /\ Leave({"while"})
    /\ \E b \in Top.when :
        IF b THEN Again(Top.iter)
             ELSE Pop /\ UNCHANGED outcome
    /\ UNCHANGED <<job, phase, leg, defined, callDepth, outputs, events>>

EndWhile ==
    /\ Leave({"while"})
    /\ \E b \in Top.when :
        \/ b /\ Top.iter + 1 < Top.count /\ Again(Top.iter + 1)
        \/ /\ b /\ Top.iter + 1 = Top.count
           /\ outcome' = "loop_overflow" /\ UNCHANGED stack
        \/ ~b /\ Pop /\ UNCHANGED outcome
    /\ UNCHANGED <<job, phase, leg, defined, callDepth, outputs, events>>

EndFor ==
    /\ Leave({"for"})
    /\ IF Top.iter + 1 < Top.count THEN Again(Top.iter + 1)
       ELSE Pop /\ UNCHANGED outcome
    /\ UNCHANGED <<job, phase, leg, defined, callDepth, outputs, events>>

-----------------------------------------------------------------------------
(* The stop event: between instructions, between legs, in a WAIT, and at   *)
(* every step of a blocking call, paused or not.  Nobody sets an event     *)
(* while the firmware executes a job.  Mutant: a WAIT only looks at its    *)
(* condition.                                                              *)
SeeStopMut ==
    /\ outcome = "running" /\ stop
    /\ \/ phase = "next" /\ ~AtEnd
       \/ phase \in {"via", "busy"}
    /\ Fault("estop_triggered")
SeeStop ==
    /\ outcome = "running" /\ stop
    /\ \/ phase = "next" /\ ~AtEnd
       \/ phase \in {"via", "busy"}
       \/ phase = "wait" /\ FALSE \in Current.when
    /\ Fault("estop_triggered")

SetPause ==
    /\ outcome = "running" /\ ~mcu /\ pause' = ~pause
    /\ UNCHANGED <<job, control, defined, callDepth, outputs, outcome, stop>>
SetStop ==
    /\ outcome = "running" /\ ~mcu /\ ~stop /\ stop' = TRUE
    /\ UNCHANGED <<job, control, defined, callDepth, outputs, outcome, pause>>

Thread ==
    \/ Check \/ ReadUndefined \/ Simple \/ Blocks \/ DoMove \/ NextLeg \/ BusyDone
    \/ BusyFails \/ WaitBegins \/ WaitTimesOut \/ If \/ LoopWhile \/ LoopFor
    \/ Call \/ Return \/ Halt \/ FaultOp \/ Jump
    \/ EndMain \/ EndBranch \/ EndWhile \/ EndFor \/ SeeStop

Next == Thread \/ WaitEnds \/ SetPause \/ SetStop

Spec == Init /\ [][Next]_vars

(* The thread runs, a motion and a timeout come to an end.  When the       *)
(* condition of a WAIT holds, and who pauses or stops the job, is open.    *)
CertainWaitEnds ==
    phase = "wait" /\ FALSE \notin Current.when /\ WaitEnds
FairSpec == Spec /\ WF_vars(Thread) /\ WF_vars(CertainWaitEnds)

-----------------------------------------------------------------------------
(* The job as the state machine of the simulator sees it.  The thread is   *)
(* between instructions when its next step looks at the events, or ends    *)
(* the job without a look: behind the last instruction, and in a HALT, or  *)
(* a RETURN of the main program, that it was let through to.  At the end   *)
(* of the body of a loop, branch or subroutine it is still inside of the   *)
(* instruction that has this body.                                         *)
Ends ==
    /\ ~Undefined
    /\ \/ Current.op = "HALT"
       \/ Current.op = "RETURN" /\ CallFrames = {} /\ ~mcu

Between ==
    \/ phase = "via"
    \/ phase = "next" /\ (AtEnd => Top.kind = "main")
    \/ phase = "checked" /\ Ends

ThreadPhase ==
    CASE outcome = "running" -> IF Between THEN "next" ELSE "busy"
      [] outcome \in {"halt", "estop_triggered"} -> outcome
      [] OTHER -> "program_error"

AsJob == INSTANCE Job WITH at <- ThreadPhase

-----------------------------------------------------------------------------
(* Properties                                                              *)

(* call_depth counts the subroutines that are being executed, whichever    *)
(* way they are left, so that a program at the limit of 8 is refused only  *)
(* when it really nests that deep.                                         *)
DepthCounts ==
    outcome # "call_depth" =>
        callDepth = Cardinality(CallFrames) /\ callDepth <= MaxDepth

(* A job ends, also one that calls itself or loops for ever, unless it is  *)
(* paused for good or waits, without a timeout, for what never happens.    *)
WaitsForEver == phase = "wait" /\ Current.n = 0
JobEnds ==
    (<>[]~pause /\ []<>~WaitsForEver) => <>(outcome # "running")

(* "Abort: stop_event.set()": from wherever it is, and paused or not.      *)
StopEndsJob == stop ~> outcome # "running"

(* For the state machine around it, every program is executed the way that *)
(* Simulator.tla has it.                                                   *)
ImplementsJob == AsJob!JobSpec
=============================================================================
