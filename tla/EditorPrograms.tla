--------------------------- MODULE EditorPrograms ---------------------------
(***************************************************************************)
(* The programs that the editor tab generates from its table of waypoints  *)
(* (tab_program.py), for the interpreter of Interpreter.tla.  A row says   *)
(* whether Z is probed, how the outputs stand, whether the laser button is *)
(* pressed and whether there is a pause.                                   *)
(***************************************************************************)
EXTENDS Interpreter, SequencesExt

(* A row of the table, as _read_rows has it.                               *)
Rows == [probe : BOOLEAN, pump : BOOLEAN, valve : BOOLEAN,
         door : {"open", "closed"}, press : BOOLEAN, delay : BOOLEAN]

Output(name, value) == 
    [Instruction("OUTPUT") EXCEPT !.outs = [o \in {name} |-> value]]

Arrive(row, i) ==
    IF row.probe
    THEN [Instruction("PROBE_Z") EXCEPT !.store = {"z_wp" \o ToString(i)}]
    ELSE Instruction("MOVE")

(* Mutant: the button is let go before the pause.                          *)
PressMut == << Output("servo_laser_btn", "release"), Instruction("DELAY"),
               Output("servo_laser_btn", "press") >>
Press == << Output("servo_laser_btn", "press"), Instruction("DELAY"),
            Output("servo_laser_btn", "release") >>

RowBody(row, i) ==
    << Arrive(row, i), Output("pump", row.pump), Output("valve", row.valve),
       Output("servo_door", row.door) >>
      \o (IF row.press THEN Press ELSE <<>>)
      \o (IF row.delay THEN <<Instruction("DELAY")>> ELSE <<>>)

Body(rows) == FlattenSeq([i \in DOMAIN rows |-> RowBody(rows[i], i)])

(* Zero cycles: until there is no more material.                           *)
BuildProgram(rows, cycles) ==
    LET loop == IF cycles = 0
                THEN [Instruction("LOOP_WHILE") EXCEPT !.body = "body"]
                ELSE [Instruction("LOOP_FOR") EXCEPT !.body = "body",
                                                     !.n = cycles]
    IN  [subs |-> {},
         code |-> [main |-> << Instruction("HOME"), loop, Instruction("LOG"),
                               Instruction("HALT") >>,
                   body |-> Body(rows)]]

-----------------------------------------------------------------------------
(* A generated program never faults for a reason of its own, on the        *)
(* firmware as long as it has no more variables than there are places, and *)
(* on the simulator one that comes to its end leaves the laser button      *)
(* released and the other outputs as the last row has them: "All outputs   *)
(* emitted every row - state is always explicit".                          *)
CONSTANTS EditorRows, Cycles

(* "Add at least one waypoint."                                            *)
ASSUME EditorAssumption ==
    EditorRows \subseteq Seq(Rows) \ {<<>>} /\ Cycles \subseteq Nat

Variables(rows, cycles) ==
    Cardinality({i \in DOMAIN rows : rows[i].probe})
      + (IF cycles = 0 THEN 0 ELSE 1)

EditorJobs ==
    \A rows \in EditorRows, cycles \in Cycles :
        prog = BuildProgram(rows, cycles) =>
            /\ outcome \in {"program_error", "call_depth", "fault", "return"} =>
                  mcu /\ Variables(rows, cycles) > MaxVars
            /\ outcome = "halt" /\ ~mcu =>
                LET last == rows[Len(rows)]
                    done == [pump |-> last.pump, valve |-> last.valve,
                             servo_door |-> last.door,
                             servo_laser_btn |-> "release"]
                IN  outputs = done \/ (cycles = 0 /\ outputs = AtRestOutputs)
=============================================================================
