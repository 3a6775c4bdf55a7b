-------------------------- MODULE MCProgramStore --------------------------
(* Small instances of ProgramStore for TLC.                                *)
EXTENDS ProgramStore, TLC

CONSTANTS a, b

TwoBytes == {a, b}

(* Empty, short and long chunks, and damaged ones.                         *)
SmallChunks ==
    [bytes : {<<>>, <<a>>, <<b>>, <<a, b>>}, bad : BOOLEAN]
      \cup {[bytes |-> <<b, a, b>>, bad |-> FALSE]}

(* Texts of one and of three bytes; every other text is refused.           *)
SmallPrograms == {<<a>>, <<a, b>>, <<a, b, a>>, <<a, a, b>>}
=============================================================================
