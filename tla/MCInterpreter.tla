--------------------------- MODULE MCInterpreter ---------------------------
(* Small programs for the interpreters: six that the editor tab generates  *)
(* and hand-written ones with nested loops, subroutines and the            *)
(* instructions the editor does not use.                                   *)
EXTENDS EditorPrograms

Row(probe, pump, press, delay) ==
    [probe |-> probe, pump |-> pump, valve |-> ~pump, press |-> press,
     door |-> IF pump THEN "open" ELSE "closed", delay |-> delay]

MCRows == { << Row(TRUE, TRUE, TRUE, FALSE), Row(FALSE, TRUE, FALSE, TRUE) >>,
            << Row(TRUE, TRUE, FALSE, FALSE), Row(TRUE, FALSE, FALSE, FALSE) >>,
            << Row(FALSE, FALSE, TRUE, TRUE) >> }
MCCycles == {0, 2}

I(op) == Instruction(op)

(* A subroutine that returns out of a loop and out of a branch.            *)
Returning ==
    [subs |-> {"sub"},
     code |->
       [main |-> << [I("LOOP_FOR") EXCEPT !.body = "twice", !.n = 2],
                    I("RETURN"), I("FAULT") >>,
        twice |-> << [I("CALL") EXCEPT !.body = "sub"],
                     [I("LOOP_FOR") EXCEPT !.body = "empty"], I("LABEL") >>,
        sub |-> << [I("LOOP_WHILE") EXCEPT !.body = "inner"], I("LOG") >>,
        inner |-> << [I("IF") EXCEPT !.body = "leave", !.alt = "empty"] >>,
        leave |-> << I("RETURN") >>,
        empty |-> <<>>]]

(* Nested calls, one of which is left, and a WAIT with or without timeout. *)
Recursive(n) ==
    [subs |-> {"sub"},
     code |->
       [main |-> << [I("CALL") EXCEPT !.body = "sub"],
                    [I("WAIT") EXCEPT !.n = n], I("FAULT") >>,
        sub |-> << [I("IF") EXCEPT !.body = "deeper"] >>,
        deeper |-> << [I("CALL") EXCEPT !.body = "sub"] >>]]

(* Waypoints and a loop with variables that may be undefined; a jump.      *)
Measuring ==
    [subs |-> {},
     code |->
       [main |-> << [I("IF") EXCEPT !.body = "read"],
                    [I("MOVE") EXCEPT !.path = <<{}, {"z"}>>],
                    [I("SET_VAR") EXCEPT !.needs = {"z"}, !.store = {"w"}],
                    [I("WAIT") EXCEPT !.when = {TRUE}],
                    [I("IF") EXCEPT !.body = "set"],
                    [I("LOOP_WHILE") EXCEPT !.body = "jump",
                                            !.needs = {"v"}] >>,
        read |-> << [I("READ_SENSOR") EXCEPT !.store = {"z"}] >>,
        set  |-> << [I("SET_VAR") EXCEPT !.store = {"v"}] >>,
        jump |-> << I("JUMP") >>]]

(* An outer loop after an inner one, and an output the simulator lacks.    *)
Nested ==
    [subs |-> {},
     code |->
       [main |-> << [I("LOOP_FOR") EXCEPT !.body = "outer", !.n = 2] >>,
        outer |-> << [I("LOOP_FOR") EXCEPT !.body = "inner", !.n = 1],
                     I("LOG"), Output("beeper", TRUE) >>,
        inner |-> << I("LOG") >>]]

MCPrograms ==
    {BuildProgram(rows, cycles) : rows \in MCRows, cycles \in MCCycles}
      \cup {Returning, Recursive(0), Recursive(1), Measuring, Nested}
=============================================================================
