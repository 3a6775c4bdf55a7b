-------------------------- MODULE InterpreterProofs --------------------------
(***************************************************************************)
(* Proofs about Interpreter and EditorPrograms, for any programs that the  *)
(* validator accepts, any limits of loops and calls, and tables of         *)
(* waypoints of any length.                                                *)
(***************************************************************************)
EXTENDS EditorPrograms, FiniteSetTheorems, TLAPS

(* The tuples of variables that the UNCHANGED clauses name.                *)
USE DEF vars, job, control, events

-----------------------------------------------------------------------------
(* The inductive invariant of the interpreters                             *)

(* The outermost frame is that of the main program, and a frame that is    *)
(* left gives the turn to the one below.                                   *)
MainBelow ==
    /\ Len(stack) > 0
    /\ stack[Len(stack)].kind = "main"

(* An instruction is looked at only where there is one.                    *)
InCode == phase # "next" => ~AtEnd

Depth ==
    /\ outcome # "call_depth" =>
          callDepth = Cardinality(CallFrames) /\ callDepth <= MaxDepth
    /\ callDepth \in 0..(MaxDepth + 1)

Nesting == TypeOK /\ MainBelow /\ InCode /\ Depth

-----------------------------------------------------------------------------
(* Sets of natural numbers                                                 *)

(* Every set of natural numbers that is not empty has a least member.      *)
LEMMA NatMin ==
    ASSUME NEW S \in SUBSET Nat, S # {}
    PROVE  \E n \in S : \A m \in S : n <= m
<1> DEFINE R == {p \in Nat \X Nat : p[1] < p[2]}
<1>1. IsWellFoundedOn(R, Nat)
  BY NatLessThanWellFounded, Zenon DEF OpToRel
<1> HIDE DEF R
<1>2. PICK n \in S : \A m \in S : ~(<<m, n>> \in R)
  BY <1>1, WFMin
<1>3. \A m \in S : ~(m < n)
  BY <1>2 DEF R
<1>4. QED
  BY <1>3

LEMMA Shifted ==
    ASSUME NEW S \in SUBSET Nat, IsFiniteSet(S), NEW d \in Int,
           NEW T, T = {k + d : k \in S}
    PROVE  Cardinality(T) = Cardinality(S)
<1> DEFINE f == [k \in S |-> k + d]
<1>1. f \in Bijection(S, T)
  BY DEF Bijection, Injection, Surjection, IsInjective
<1>2. ExistsBijection(S, T)
  BY <1>1 DEF ExistsBijection
<1>3. QED
  BY <1>2, FS_Bijection

LEMMA CallFramesFinite ==
    ASSUME Len(stack) \in Nat
    PROVE  /\ CallFrames \in SUBSET Nat /\ CallFrames \subseteq 1..Len(stack)
           /\ IsFiniteSet(CallFrames) /\ Cardinality(CallFrames) \in Nat
<1>1. IsFiniteSet(1..Len(stack))
  BY FS_Interval
<1>2. CallFrames \subseteq 1..Len(stack)
  BY DEF CallFrames
<1>3. IsFiniteSet(CallFrames)
  BY <1>1, <1>2, FS_Subset
<1>4. Cardinality(CallFrames) \in Nat
  BY <1>3, FS_CardinalityType
<1>5. QED
  BY <1>2, <1>3, <1>4

-----------------------------------------------------------------------------
(* The stack                                                               *)

LEMMA TopOK ==
    ASSUME TypeOK, MainBelow
    PROVE  /\ Len(stack) \in Nat \ {0} /\ Top = stack[1] /\ 1 \in 1..Len(stack)
           /\ Top \in Frames /\ Top.pc \in Nat \ {0} /\ Top.block \in DOMAIN prog.code
           /\ Len(Code) \in Nat /\ Valid(prog)
           /\ Top.pc <= Len(Code) + 1 /\ Top.iter <= Top.count
           /\ stack # <<>>
<1>1. Len(stack) \in Nat \ {0} /\ Top = stack[1] /\ 1 \in 1..Len(stack) /\ stack # <<>>
  BY DEF TypeOK, StackOK, MainBelow, Top
<1>2. Top \in Frames
  BY <1>1 DEF TypeOK, StackOK
<1>3. Valid(prog)
  BY InterpreterAssumption DEF InterpreterAssumption, TypeOK
<1>4. Top.pc \in Nat \ {0} /\ Top.block \in DOMAIN prog.code
  BY <1>2 DEF Frames
<1>5. Len(Code) \in Nat
  BY <1>3, <1>4 DEF Valid, Code
<1>6. Top.pc <= Len(Code) + 1 /\ Top.iter <= Top.count
  BY <1>1 DEF TypeOK, StackOK, Code
<1>7. QED
  BY <1>1, <1>2, <1>3, <1>4, <1>5, <1>6

LEMMA CurrentOK ==
    ASSUME TypeOK, MainBelow, ~AtEnd
    PROVE  ValidInstruction(prog, Current) /\ Top.pc \in 1..Len(Code)
BY TopOK DEF Valid, AtEnd, Current, Code

(* The innermost frame goes on, at the next instruction or from the start. *)
LEMMA ReplaceOK ==
    ASSUME TypeOK, MainBelow, NEW t \in Frames, t.kind = Top.kind,
           t.pc <= Len(prog.code[t.block]) + 1, t.iter <= t.count,
           stack' = <<t>> \o Tail(stack), prog' = prog
    PROVE  StackOK' /\ MainBelow' /\ CallFrames' = CallFrames
<1>1. stack \in Seq(Frames) /\ stack # <<>> /\ Len(stack) \in Nat \ {0}
      /\ Top = stack[1]
  BY TopOK DEF TypeOK, StackOK
<1>2. /\ stack' \in Seq(Frames) /\ Len(stack') = Len(stack)
      /\ stack'[1] = t
      /\ \A k \in 1..Len(stack) : k = 1 \/ stack'[k] = stack[k]
  BY <1>1
<1>3. Frames' = Frames
  BY DEF Frames
<1>4. StackOK'
  BY <1>2, <1>3 DEF StackOK, TypeOK
<1>5. MainBelow'
  BY <1>1, <1>2 DEF MainBelow
<1>6. \A k \in 1..Len(stack) : stack'[k].kind = stack[k].kind
  BY <1>1, <1>2
<1>7. CallFrames' = CallFrames
  BY <1>2, <1>6 DEF CallFrames
<1>8. QED
  BY <1>4, <1>5, <1>7

LEMMA AdvancedOK ==
    ASSUME TypeOK, MainBelow, ~AtEnd, stack' = Advanced, prog' = prog
    PROVE  StackOK' /\ MainBelow' /\ CallFrames' = CallFrames
<1> DEFINE t == [Top EXCEPT !.pc = @ + 1]
<1>1. Top \in Frames /\ Top.pc \in 1..Len(Code) /\ Len(Code) \in Nat
      /\ Top.iter <= Top.count
  BY TopOK, CurrentOK
<1>2. /\ t \in Frames /\ t.kind = Top.kind /\ t.block = Top.block
      /\ t.pc = Top.pc + 1 /\ t.iter = Top.iter /\ t.count = Top.count
  BY <1>1 DEF Frames
<1>3. stack' = <<t>> \o Tail(stack)
  BY DEF Advanced
<1> HIDE DEF t
<1>4. t.pc <= Len(prog.code[t.block]) + 1 /\ t.iter <= t.count
  BY <1>1, <1>2 DEF Code
<1>5. QED
  BY <1>2, <1>3, <1>4, ReplaceOK

LEMMA PushOK ==
    ASSUME TypeOK, MainBelow, ~AtEnd, NEW f \in Frames, f.pc = 1,
           f.iter <= f.count, Push(f), prog' = prog
    PROVE  /\ StackOK' /\ MainBelow'
           /\ Cardinality(CallFrames') =
                Cardinality(CallFrames) + (IF f.kind = "call" THEN 1 ELSE 0)
<1> DEFINE t == [Top EXCEPT !.pc = @ + 1]
<1>1. Top \in Frames /\ Top.pc \in 1..Len(Code) /\ Len(Code) \in Nat
      /\ Top.iter <= Top.count /\ Valid(prog)
  BY TopOK, CurrentOK
<1>2. /\ t \in Frames /\ t.kind = Top.kind /\ t.block = Top.block
      /\ t.pc = Top.pc + 1 /\ t.iter = Top.iter /\ t.count = Top.count
  BY <1>1 DEF Frames
<1>3. stack' = <<f>> \o (<<t>> \o Tail(stack))
  BY DEF Push, Advanced
<1> HIDE DEF t
<1>4. stack \in Seq(Frames) /\ stack # <<>> /\ Len(stack) \in Nat \ {0}
      /\ Top = stack[1]
  BY TopOK DEF TypeOK, StackOK
<1>5. /\ stack' \in Seq(Frames) /\ Len(stack') = Len(stack) + 1
      /\ stack'[1] = f /\ stack'[2] = t
      /\ \A k \in 2..Len(stack) : stack'[k + 1] = stack[k]
  BY <1>2, <1>3, <1>4
<1>6. \A k \in 1..Len(stack) : stack'[k + 1].kind = stack[k].kind
  BY <1>2, <1>4, <1>5
<1>7. \A k \in 1..Len(stack') : k = 1 \/ k = 2 \/
          (k - 1 \in 2..Len(stack) /\ stack'[k] = stack[k - 1])
  <2>1. SUFFICES ASSUME NEW k \in 1..Len(stack'), k # 1, k # 2
                 PROVE  k - 1 \in 2..Len(stack) /\ stack'[k] = stack[k - 1]
    OBVIOUS
  <2>2. k - 1 \in 2..Len(stack) /\ (k - 1) + 1 = k
    BY <1>4, <1>5, <2>1
  <2>3. stack'[(k - 1) + 1] = stack[k - 1]
    BY <1>5, <2>2
  <2>4. QED
    BY <2>2, <2>3
<1>8. Frames' = Frames
  BY DEF Frames
<1>9. StackOK'
  <2>1. Len(prog.code[f.block]) \in Nat
    BY <1>1 DEF Valid, Frames
  <2>2. SUFFICES ASSUME NEW k \in 1..Len(stack')
                 PROVE  /\ stack'[k].pc <= Len(prog.code[stack'[k].block]) + 1
                        /\ stack'[k].iter <= stack'[k].count
    BY <1>5, <1>8 DEF StackOK
  <2>3. CASE k = 1
    BY <1>5, <2>1, <2>3
  <2>4. CASE k = 2
    BY <1>1, <1>2, <1>5, <2>4 DEF Code
  <2>5. CASE k - 1 \in 2..Len(stack) /\ stack'[k] = stack[k - 1]
    <3>1. k - 1 \in 1..Len(stack)
      BY <1>4, <2>5
    <3>2. /\ stack[k - 1].pc <= Len(prog.code[stack[k - 1].block]) + 1
          /\ stack[k - 1].iter <= stack[k - 1].count
      BY <3>1, Zenon DEF TypeOK, StackOK
    <3>3. QED
      BY <2>5, <3>2, Zenon
  <2>6. QED
    BY <1>7, <2>3, <2>4, <2>5
<1>10. MainBelow'
  BY <1>4, <1>5, <1>6 DEF MainBelow
<1> DEFINE S == {k + 1 : k \in CallFrames}
<1>11. Cardinality(S) = Cardinality(CallFrames) /\ IsFiniteSet(S) /\ 1 \notin S
  <2>1. CallFrames \in SUBSET Nat /\ IsFiniteSet(CallFrames)
        /\ CallFrames \subseteq 1..Len(stack)
    BY <1>4, CallFramesFinite
  <2>2. S \subseteq 1..(Len(stack) + 1) /\ 1 \notin S
    BY <1>4, <2>1
  <2>3. IsFiniteSet(1..(Len(stack) + 1))
    BY <1>4, FS_Interval
  <2>4. IsFiniteSet(S)
    BY <2>2, <2>3, FS_Subset
  <2>5. 1 \in Int
    OBVIOUS
  <2>6. Cardinality(S) = Cardinality(CallFrames)
    BY <2>1, <2>5, Shifted, Zenon
  <2>7. QED
    BY <2>2, <2>4, <2>6, Zenon
<1>12. CallFrames' = S \cup (IF f.kind = "call" THEN {1} ELSE {})
  <2>1. CallFrames' = {k \in 1..(Len(stack) + 1) : stack'[k].kind = "call"}
    BY <1>5 DEF CallFrames
  <2>2. S = {k + 1 : k \in {i \in 1..Len(stack) : stack[i].kind = "call"}}
    BY DEF CallFrames
  <2>3. ASSUME NEW k \in 1..(Len(stack) + 1), k # 1
        PROVE  stack'[k].kind = "call" <=> k \in S
    <3>1. k - 1 \in 1..Len(stack) /\ (k - 1) + 1 = k
      BY <1>4, <2>3
    <3>2. stack'[k].kind = stack[k - 1].kind
      BY <1>6, <3>1
    <3>3. k \in S <=> k - 1 \in CallFrames
      BY <1>4, <3>1, CallFramesFinite
    <3>4. QED
      BY <3>1, <3>2, <3>3 DEF CallFrames
  <2>4. S \subseteq 1..(Len(stack) + 1)
    BY <1>4, <2>2
  <2>5. QED
    BY <1>4, <1>5, <1>11, <2>1, <2>3, <2>4
<1>13. Cardinality(S \cup {1}) = Cardinality(S) + 1
  BY <1>11, FS_AddElement
<1> HIDE DEF S
<1>14. /\ f.kind = "call" => CallFrames' = S \cup {1}
       /\ f.kind # "call" => CallFrames' = S
  BY <1>12
<1>15. Cardinality(CallFrames) \in Nat
  BY <1>4, CallFramesFinite
<1>16. Cardinality(CallFrames') =
          Cardinality(CallFrames) + (IF f.kind = "call" THEN 1 ELSE 0)
  <2>1. CASE f.kind = "call"
    <3>1. CallFrames' = S \cup {1}
      BY <1>14, <2>1
    <3>2. Cardinality(CallFrames') = Cardinality(CallFrames) + 1
      BY <1>11, <1>13, <3>1, Zenon
    <3>3. QED
      BY <2>1, <3>2
  <2>2. CASE f.kind # "call"
    BY <1>11, <1>14, <1>15, <2>2
  <2>3. QED
    BY <2>1, <2>2
<1>17. QED
  BY <1>9, <1>10, <1>16

(* The innermost d frames are left.                                        *)
LEMMA DropOK ==
    ASSUME TypeOK, MainBelow, NEW d \in Nat, 1 <= d, d < Len(stack),
           stack' = SubSeq(stack, d + 1, Len(stack)), prog' = prog
    PROVE  /\ StackOK' /\ MainBelow'
           /\ Cardinality(CallFrames') = Cardinality(CallFrames \ (1..d))
<1>1. stack \in Seq(Frames) /\ Len(stack) \in Nat \ {0}
  BY TopOK DEF TypeOK, StackOK
<1>2. /\ stack' \in Seq(Frames) /\ Len(stack') = Len(stack) - d
      /\ \A k \in 1..Len(stack') : stack'[k] = stack[k + d] /\ k + d \in 1..Len(stack)
  BY <1>1
<1>3. Frames' = Frames
  BY DEF Frames
<1>4. StackOK'
  BY <1>2, <1>3 DEF TypeOK, StackOK
<1>5. MainBelow'
  <2>1. Len(stack) - d \in 1..Len(stack') /\ (Len(stack) - d) + d = Len(stack)
    BY <1>1, <1>2
  <2>2. stack'[Len(stack) - d] = stack[(Len(stack) - d) + d]
    BY <1>2, <2>1
  <2>3. Len(stack') > 0
    BY <1>1, <1>2
  <2>4. stack'[Len(stack')] = stack[Len(stack)]
    BY <1>2, <2>1, <2>2, Zenon
  <2>5. QED
    BY <2>3, <2>4 DEF MainBelow
<1> DEFINE S == CallFrames \ (1..d)
<1>6. S \in SUBSET Nat /\ IsFiniteSet(S) /\ S \subseteq 1..Len(stack)
  BY <1>1, CallFramesFinite, FS_Difference
<1>7. CallFrames' = {k + (0 - d) : k \in S}
  <2>1. ASSUME NEW k \in CallFrames'
        PROVE  \E j \in S : k = j + (0 - d)
    <3>1. k \in 1..Len(stack') /\ stack'[k].kind = "call"
      BY <2>1 DEF CallFrames
    <3>2. k + d \in S /\ k = (k + d) + (0 - d)
      BY <1>2, <3>1 DEF CallFrames
    <3>3. QED
      BY <3>2
  <2>2. ASSUME NEW j \in S
        PROVE  j + (0 - d) \in CallFrames'
    <3>1. j \in 1..Len(stack) /\ stack[j].kind = "call" /\ j > d
      BY <1>6, <2>2 DEF CallFrames
    <3>2. j - d \in 1..Len(stack') /\ (j - d) + d = j
      BY <1>1, <1>2, <3>1
    <3>3. stack'[j - d] = stack[j]
      BY <1>2, <3>2
    <3>4. j - d \in CallFrames' /\ j - d = j + (0 - d)
      BY <3>1, <3>2, <3>3 DEF CallFrames
    <3>5. QED
      BY <3>4
  <2>3. QED
    BY <2>1, <2>2
<1>8. Cardinality(CallFrames') = Cardinality(S)
  <2> HIDE DEF S
  <2>1. 0 - d \in Int
    OBVIOUS
  <2>2. QED
    BY <1>6, <1>7, <2>1, Shifted, Zenon
<1>9. QED
  BY <1>4, <1>5, <1>8

-----------------------------------------------------------------------------
(* Each step keeps the nesting                                             *)

(* What the steps do to the stack, and to the depth.                       *)
Stays ==
    /\ UNCHANGED <<prog, stack, callDepth>>
    /\ outcome = "running" /\ outcome' \in Outcomes \ {"call_depth"}
    /\ phase' # "next" => ~AtEnd
Advances ==
    /\ ~AtEnd /\ stack' = Advanced
    /\ UNCHANGED <<prog, callDepth, outcome>> /\ outcome = "running"
    /\ phase' = "next"
Enters(f) ==
    /\ ~AtEnd /\ Push(f) /\ f \in Frames /\ f.pc = 1 /\ f.iter <= f.count
    /\ f.kind # "call"
    /\ UNCHANGED <<prog, callDepth, outcome>> /\ outcome = "running"
    /\ phase' = "next"

LEMMA TypeKept ==
    ASSUME TypeOK, StackOK', UNCHANGED prog, phase' \in Phases, leg' \in Nat,
           callDepth' \in 0..(MaxDepth + 1), outcome' \in Outcomes, FlagsOK'
    PROVE  TypeOK'
BY DEF TypeOK

LEMMA FlagsStep == FlagsOK /\ [Next]_vars => FlagsOK'
BY Zenon DEF FlagsOK, Next, Thread, Check, ReadUndefined, Simple, Blocks, DoMove,
   NextLeg, StartLeg, BusyDone, BusyFails, WaitBegins, WaitEnds, WaitTimesOut, If,
   LoopWhile, LoopFor, Call, Return, Halt, FaultOp, Jump, EndMain, EndBranch,
   EndWhile, EndFor, SeeStop, SetPause, SetStop, Fault, Simply

LEMMA PhaseStep ==
    ASSUME TypeOK, [Next]_vars
    PROVE  phase' \in Phases /\ leg' \in Nat
<1>1. phase \in Phases /\ leg \in Nat
  BY DEF TypeOK
<1>2. CASE UNCHANGED <<phase, leg>>
  BY <1>1, <1>2
<1>3. CASE phase' = "next" /\ leg' \in {leg, 0}
  BY <1>1, <1>3 DEF Phases
<1>4. CASE phase' \in {"checked", "busy", "via", "leg", "wait"} /\ leg' \in {leg, 1, leg + 1}
  BY <1>1, <1>4 DEF Phases
<1>5. Check \/ Blocks \/ DoMove \/ NextLeg \/ BusyDone \/ WaitBegins =>
         \/ UNCHANGED <<phase, leg>>
         \/ phase' = "next" /\ leg' \in {leg, 0}
         \/ phase' \in {"checked", "busy", "via", "leg", "wait"} /\ leg' \in {leg, 1, leg + 1}
  BY Zenon DEF Check, Blocks, DoMove, NextLeg, BusyDone, WaitBegins, StartLeg, Fault,
     control
<1>6. Simple \/ WaitEnds \/ If \/ LoopWhile \/ LoopFor \/ Call \/ Return =>
         \/ UNCHANGED <<phase, leg>>
         \/ phase' = "next" /\ leg' \in {leg, 0}
  BY Zenon DEF Simple, WaitEnds, If, LoopWhile, LoopFor, Call, Return, Simply, Fault,
     control
<1>7. \/ ReadUndefined \/ BusyFails \/ WaitTimesOut \/ Halt \/ FaultOp \/ Jump
      \/ EndMain \/ EndBranch \/ EndWhile \/ EndFor \/ SeeStop \/ SetPause \/ SetStop
      \/ UNCHANGED vars
      => UNCHANGED <<phase, leg>>
  BY Zenon DEF ReadUndefined, BusyFails, WaitTimesOut, Halt, FaultOp, Jump, EndMain,
     EndBranch, EndWhile, EndFor, SeeStop, SetPause, SetStop, Fault, control
<1>8. QED
  BY <1>2, <1>3, <1>4, <1>5, <1>6, <1>7, Zenon DEF Next, Thread

LEMMA StaysOK ==
    ASSUME Nesting, Stays
    PROVE  StackOK' /\ MainBelow' /\ InCode' /\ Depth' /\ outcome' \in Outcomes
<1>1. StackOK' /\ MainBelow' /\ CallFrames' = CallFrames
  BY DEF Nesting, Stays, TypeOK, StackOK, Frames, MainBelow, CallFrames
<1>2. Depth' /\ outcome' \in Outcomes
  BY <1>1 DEF Nesting, Stays, Depth
<1>3. InCode'
  BY DEF Stays, InCode, AtEnd, Top, Code
<1>4. QED
  BY <1>1, <1>2, <1>3

LEMMA AdvancesOK ==
    ASSUME Nesting, Advances
    PROVE  StackOK' /\ MainBelow' /\ InCode' /\ Depth' /\ outcome' \in Outcomes
<1>1. StackOK' /\ MainBelow' /\ CallFrames' = CallFrames
  BY AdvancedOK DEF Nesting, Advances
<1>2. QED
  BY <1>1 DEF Nesting, Advances, Depth, InCode, TypeOK

LEMMA EntersOK ==
    ASSUME Nesting, NEW f, Enters(f)
    PROVE  StackOK' /\ MainBelow' /\ InCode' /\ Depth' /\ outcome' \in Outcomes
<1>1. Cardinality(CallFrames) \in Nat
  BY TopOK, CallFramesFinite DEF Nesting
<1>2. /\ StackOK' /\ MainBelow'
      /\ Cardinality(CallFrames') = Cardinality(CallFrames)
  BY <1>1, PushOK DEF Nesting, Enters
<1>3. QED
  BY <1>2 DEF Nesting, Enters, Depth, InCode, TypeOK

(* Frames that are put on the stack.                                       *)
NewFrame(kind, block, count, when) ==
    [kind |-> kind, block |-> block, pc |-> 1, iter |-> 0, count |-> count,
     when |-> when]

LEMMA FrameOK ==
    ASSUME NEW kind \in Kinds, NEW block \in DOMAIN prog.code,
           NEW count \in Nat, NEW when \in SUBSET BOOLEAN
    PROVE  LET f == NewFrame(kind, block, count, when)
           IN  f \in Frames /\ f.pc = 1 /\ f.iter <= f.count /\ f.kind = kind
BY DEF NewFrame, Frames

(* The nearest call is the first of the call frames.                       *)
LEMMA NearestIsFirst ==
    ASSUME TypeOK, MainBelow, CallFrames # {}
    PROVE  /\ Nearest \in CallFrames /\ \A k \in CallFrames : Nearest <= k
           /\ Nearest \in Nat /\ 1 <= Nearest /\ Nearest < Len(stack)
<1>1. Len(stack) \in Nat \ {0} /\ CallFrames \subseteq 1..Len(stack)
  BY TopOK, CallFramesFinite
<1>2. \E i \in CallFrames : \A k \in CallFrames : i <= k
  BY <1>1, NatMin
<1>3. Nearest \in CallFrames /\ \A k \in CallFrames : Nearest <= k
  BY <1>2 DEF Nearest
<1>4. Nearest # Len(stack)
  BY <1>3 DEF CallFrames, MainBelow
<1>5. QED
  BY <1>1, <1>3, <1>4

(* What the other processes, the checks, the blocking calls and the ends   *)
(* of the job leave alone.                                                 *)
LEMMA Staying ==
    ASSUME Nesting,
           \/ Check \/ ReadUndefined \/ Blocks \/ DoMove \/ NextLeg \/ BusyFails
           \/ WaitBegins \/ WaitTimesOut \/ Halt \/ FaultOp \/ Jump \/ EndMain
           \/ SeeStop \/ SetPause \/ SetStop
    PROVE  Stays
<1>1. /\ phase # "next" => ~AtEnd
      /\ "running" \in Outcomes \ {"call_depth"}
      /\ \A o \in {"halt", "fault", "estop_triggered", "program_error", "motion",
                   "wait_timeout"} : o \in Outcomes \ {"call_depth"}
  BY DEF Nesting, InCode, Outcomes
<1>2. CASE Check
  BY <1>1, <1>2, Zenon DEF Check, Stays
<1>3. CASE Blocks \/ DoMove \/ NextLeg \/ WaitBegins
  BY <1>1, <1>3 DEF Blocks, DoMove, NextLeg, WaitBegins, StartLeg, Exec, Fetch, Fault,
     control, Stays
<1>4. CASE \/ ReadUndefined \/ BusyFails \/ WaitTimesOut \/ Halt \/ FaultOp \/ Jump
           \/ EndMain \/ SeeStop
  BY <1>1, <1>4 DEF ReadUndefined, BusyFails, WaitTimesOut, Halt, FaultOp, Jump,
     EndMain, Leave, SeeStop, Exec, Fetch, Fault, control, Stays
<1>5. CASE SetPause \/ SetStop
  BY <1>1, <1>5 DEF SetPause, SetStop, control, Stays
<1>6. QED
  BY <1>2, <1>3, <1>4, <1>5

(* An instruction that is over moves on, or enters a block.                *)
LEMMA Executing ==
    ASSUME Nesting,
           Simple \/ BusyDone \/ WaitEnds \/ If \/ LoopWhile \/ LoopFor
    PROVE  Stays \/ Advances \/ \E f : Enters(f)
<1>1. /\ phase # "next" => ~AtEnd
      /\ "checked" # "next" /\ "busy" # "next" /\ "wait" # "next" /\ "via" # "next"
      /\ "running" # "program_error"
      /\ "running" \in Outcomes \ {"call_depth"}
      /\ "program_error" \in Outcomes \ {"call_depth"}
  BY DEF Nesting, InCode, Outcomes
<1>2. ~AtEnd => ValidInstruction(prog, Current) /\ Valid(prog)
  BY CurrentOK, TopOK DEF Nesting
<1>3. CASE Simple
  BY <1>1, <1>3, Zenon DEF Simple, Exec, Fetch, Simply, Fault, control, Stays, Advances
<1>4. CASE BusyDone
  BY <1>1, <1>4, Zenon DEF BusyDone, Fault, control, Stays, Advances
<1>5. CASE WaitEnds
  BY <1>1, <1>5, Zenon DEF WaitEnds, Advances
<1>6. CASE If
  <2>1. phase = "checked" /\ outcome = "running" /\ Current.op = "IF" /\ ~AtEnd
    BY <1>1, <1>6 DEF If, Exec, Fetch
  <2>2. Current.body \in DOMAIN prog.code /\ Current.alt \in DOMAIN prog.code \cup {NoBlock}
    BY <1>2, <2>1 DEF ValidInstruction
  <2>3. PICK branch \in DOMAIN prog.code \cup {NoBlock} :
           IF branch = NoBlock THEN stack' = Advanced ELSE Push(Frame("branch", branch))
    BY <1>6, <2>2 DEF If
  <2>4. CASE branch = NoBlock
    BY <1>6, <2>1, <2>3, <2>4, Zenon DEF If, Advances
  <2>5. CASE branch # NoBlock
    <3> DEFINE f == Frame("branch", branch)
    <3>1. branch \in DOMAIN prog.code /\ "branch" \in Kinds /\ 0 \in Nat
          /\ BOOLEAN \in SUBSET BOOLEAN /\ "branch" # "call"
      BY <2>5 DEF Kinds
    <3>frame. f = NewFrame("branch", branch, 0, BOOLEAN)
      BY DEF Frame, NewFrame
    <3>2. f \in Frames /\ f.pc = 1 /\ f.iter <= f.count /\ f.kind = "branch"
      BY <3>1, <3>frame, FrameOK
    <3>3. Push(f)
      BY <2>3, <2>5
    <3> HIDE DEF f
    <3>4. Enters(f)
      BY <1>6, <2>1, <3>1, <3>2, <3>3, Zenon DEF If, Enters
    <3>5. QED
      BY <3>4, Zenon
  <2>6. QED
    BY <2>4, <2>5
<1>7. CASE LoopWhile
  <2>1. phase = "checked" /\ outcome = "running" /\ Current.op = "LOOP_WHILE" /\ ~AtEnd
    BY <1>1, <1>7 DEF LoopWhile, Exec, Fetch
  <2>2. Current.body \in DOMAIN prog.code /\ Current.when \in SUBSET BOOLEAN
    BY <1>2, <2>1 DEF ValidInstruction
  <2> DEFINE f == [Frame("while", Current.body) EXCEPT !.count = MaxIter,
                                                       !.when = Current.when]
  <2>3. stack' = Advanced \/ Push(f)
    BY <1>7 DEF LoopWhile
  <2>4. "while" \in Kinds /\ MaxIter \in Nat /\ "while" # "call"
    BY InterpreterAssumption DEF InterpreterAssumption, Kinds
  <2> DEFINE g == Frame("while", Current.body)
  <2>5. f \in Frames /\ f.pc = 1 /\ f.iter <= f.count /\ f.kind = "while"
    <3>1. 0 \in Nat /\ BOOLEAN \in SUBSET BOOLEAN
          /\ g = NewFrame("while", Current.body, 0, BOOLEAN)
      BY DEF Frame, NewFrame
    <3>2. f = [g EXCEPT !.count = MaxIter, !.when = Current.when]
      OBVIOUS
    <3> HIDE DEF f, g
    <3>3. g \in Frames /\ g.pc = 1 /\ g.kind = "while" /\ g.iter = 0
      BY <2>2, <2>4, <3>1, FrameOK DEF NewFrame
    <3>4. f.pc = 1 /\ f.kind = "while" /\ f.iter = 0 /\ f.count = MaxIter
      BY <3>2, <3>3, Zenon DEF Frames
    <3>5. f \in Frames
      BY <2>2, <2>4, <3>2, <3>3, Zenon DEF Frames
    <3>6. QED
      BY <2>4, <3>4, <3>5
  <2> HIDE DEF f
  <2>6. stack' = Advanced => Advances
    BY <1>7, <2>1, Zenon DEF LoopWhile, Advances
  <2>7. Push(f) => Enters(f)
    BY <1>7, <2>1, <2>4, <2>5, Zenon DEF LoopWhile, Enters
  <2>8. QED
    BY <2>3, <2>6, <2>7, Zenon
<1>8. CASE LoopFor
  <2>1. phase = "checked" /\ outcome = "running" /\ Current.op = "LOOP_FOR" /\ ~AtEnd
    BY <1>1, <1>8 DEF LoopFor, Exec, Fetch
  <2>2. Current.body \in DOMAIN prog.code /\ Current.n \in Nat
        /\ BOOLEAN \in SUBSET BOOLEAN
    BY <1>2, <2>1 DEF ValidInstruction
  <2> DEFINE f == [Frame("for", Current.body) EXCEPT !.count = Current.n]
  <2>3. stack' = Advanced \/ Push(f)
    BY <1>8, Zenon DEF LoopFor
  <2>4. "for" \in Kinds /\ "for" # "call"
    BY DEF Kinds
  <2>frame. f = NewFrame("for", Current.body, Current.n, BOOLEAN)
    BY DEF Frame, NewFrame
  <2> HIDE DEF f
  <2>5. f \in Frames /\ f.pc = 1 /\ f.iter <= f.count /\ f.kind = "for"
    BY <2>2, <2>4, <2>frame, FrameOK
  <2>6. stack' = Advanced => Advances
    BY <1>8, <2>1, Zenon DEF LoopFor, Advances
  <2>7. Push(f) => Enters(f)
    BY <1>8, <2>1, <2>4, <2>5, Zenon DEF LoopFor, Enters
  <2>8. QED
    BY <2>3, <2>6, <2>7, Zenon
<1>9. QED
  BY <1>3, <1>4, <1>5, <1>6, <1>7, <1>8

(* A call counts itself and enters the subroutine, or is one too many.     *)
LEMMA CallStep ==
    ASSUME Nesting, Call
    PROVE  /\ StackOK' /\ MainBelow' /\ InCode' /\ Depth' /\ outcome' \in Outcomes
<1>1. phase = "checked" /\ outcome = "running" /\ Current.op = "CALL" /\ ~AtEnd
      /\ phase' = "next" /\ prog' = prog
  BY DEF Call, Exec, Fetch, Nesting, InCode
<1>2. InCode'
  BY <1>1 DEF InCode
<1>3. MaxDepth \in Nat /\ callDepth = Cardinality(CallFrames) /\ callDepth <= MaxDepth
      /\ callDepth \in Nat
  BY <1>1, InterpreterAssumption DEF InterpreterAssumption, Nesting, Depth
<1>4. CASE callDepth < MaxDepth
  <2> DEFINE f == Frame("call", Current.body)
  <2>1. Current.body \in DOMAIN prog.code
    BY <1>1, CurrentOK, TopOK DEF Nesting, ValidInstruction, Valid
  <2>2. "call" \in Kinds /\ 0 \in Nat /\ BOOLEAN \in SUBSET BOOLEAN
    BY DEF Kinds
  <2>frame. f = NewFrame("call", Current.body, 0, BOOLEAN)
    BY DEF Frame, NewFrame
  <2>3. f \in Frames /\ f.pc = 1 /\ f.iter <= f.count /\ f.kind = "call"
    BY <2>1, <2>2, <2>frame, FrameOK
  <2>4. Push(f) /\ callDepth' = callDepth + 1 /\ outcome' = "running"
    BY <1>1, <1>4 DEF Call
  <2> HIDE DEF f
  <2>5. /\ StackOK' /\ MainBelow'
        /\ Cardinality(CallFrames') = Cardinality(CallFrames) + 1
    BY <1>1, <2>3, <2>4, PushOK DEF Nesting
  <2>6. Depth'
    BY <1>3, <1>4, <2>4, <2>5 DEF Depth
  <2>7. QED
    BY <1>2, <2>4, <2>5, <2>6 DEF Outcomes
<1>5. CASE ~(callDepth < MaxDepth)
  <2>1. UNCHANGED stack /\ outcome' = "call_depth" /\ callDepth' \in 0..(MaxDepth + 1)
    BY <1>3, <1>5 DEF Call
  <2>2. StackOK' /\ MainBelow'
    BY <1>1, <2>1 DEF Nesting, TypeOK, StackOK, Frames, MainBelow
  <2>3. QED
    BY <1>2, <2>1, <2>2 DEF Depth, Outcomes
<1>6. QED
  BY <1>4, <1>5

(* A RETURN leaves exactly one call, however many loops and branches are   *)
(* between.                                                                *)
LEMMA ReturnStep ==
    ASSUME Nesting, Return
    PROVE  /\ StackOK' /\ MainBelow' /\ InCode' /\ Depth' /\ outcome' \in Outcomes
<1>1. outcome = "running" /\ phase' = "next" /\ prog' = prog
  BY DEF Return, Exec, Fetch
<1>2. InCode'
  BY <1>1 DEF InCode
<1>3. callDepth = Cardinality(CallFrames) /\ callDepth <= MaxDepth
      /\ callDepth \in Nat /\ MaxDepth \in Nat
  BY <1>1, InterpreterAssumption DEF InterpreterAssumption, Nesting, Depth
<1>4. CASE CallFrames = {}
  <2>1. UNCHANGED <<stack, callDepth>> /\ outcome' \in {"return", "halt"}
    BY <1>4 DEF Return
  <2>2. Stays
    BY <1>1, <2>1 DEF Stays, Outcomes
  <2>3. QED
    BY <2>2, StaysOK
<1>5. CASE CallFrames # {}
  <2> DEFINE d == Nearest
  <2>1. /\ d \in CallFrames /\ \A k \in CallFrames : d <= k
        /\ d \in Nat /\ 1 <= d /\ d < Len(stack)
    BY <1>5, NearestIsFirst DEF Nesting
  <2>2. stack' = SubSeq(stack, d + 1, Len(stack)) /\ callDepth' = callDepth - 1
        /\ outcome' = "running"
    BY <1>1, <1>5 DEF Return
  <2>3. IsFiniteSet(CallFrames) /\ CallFrames \in SUBSET Nat
    BY TopOK, CallFramesFinite DEF Nesting
  <2> HIDE DEF d
  <2>4. /\ StackOK' /\ MainBelow'
        /\ Cardinality(CallFrames') = Cardinality(CallFrames \ (1..d))
    BY <1>1, <2>1, <2>2, DropOK DEF Nesting
  <2>5. CallFrames \ (1..d) = CallFrames \ {d}
    BY <2>1, <2>3
  <2>6. Cardinality(CallFrames \ {d}) = Cardinality(CallFrames) - 1
    BY <2>1, <2>3, FS_RemoveElement
  <2>7. Cardinality(CallFrames) \in Nat /\ Cardinality(CallFrames) # 0
    BY <1>5, <2>3, FS_CardinalityType, FS_EmptySet
  <2>10. Cardinality(CallFrames') = callDepth - 1 /\ callDepth - 1 \in Nat
    BY <1>3, <2>4, <2>5, <2>6, <2>7
  <2>8. Depth'
    BY <1>3, <2>2, <2>10 DEF Depth
  <2>9. QED
    BY <1>2, <2>2, <2>4, <2>8 DEF Outcomes
<1>6. QED
  BY <1>4, <1>5

(* The frame on top of the main program is left.                           *)
LEMMA PopOK ==
    ASSUME Nesting, Pop, prog' = prog, Top.kind # "main"
    PROVE  /\ StackOK' /\ MainBelow'
           /\ Top.kind = "call" =>
                 /\ Cardinality(CallFrames) # 0
                 /\ Cardinality(CallFrames') = Cardinality(CallFrames) - 1
           /\ Top.kind # "call" => Cardinality(CallFrames') = Cardinality(CallFrames)
<1>1. /\ Len(stack) \in Nat \ {0} /\ Top = stack[1] /\ 1 \in 1..Len(stack)
      /\ stack \in Seq(Frames) /\ stack # <<>>
  BY TopOK DEF Nesting, TypeOK, StackOK
<1>2. 1 < Len(stack)
  BY <1>1 DEF Nesting, MainBelow
<1>3. stack' = SubSeq(stack, 1 + 1, Len(stack))
  BY <1>1 DEF Pop
<1>4. /\ StackOK' /\ MainBelow'
      /\ Cardinality(CallFrames') = Cardinality(CallFrames \ (1..1))
  <2>1. 1 \in Nat /\ 1 <= 1
    OBVIOUS
  <2>2. QED
    BY <1>2, <1>3, <2>1, DropOK, Zenon DEF Nesting
<1>5. CallFrames \ (1..1) = CallFrames \ {1} /\ IsFiniteSet(CallFrames)
      /\ Cardinality(CallFrames) \in Nat
  BY <1>1, CallFramesFinite
<1>6. Top.kind = "call" <=> 1 \in CallFrames
  BY <1>1 DEF CallFrames
<1>7. 1 \in CallFrames =>
         /\ Cardinality(CallFrames) # 0
         /\ Cardinality(CallFrames \ {1}) = Cardinality(CallFrames) - 1
  BY <1>5, FS_RemoveElement, FS_EmptySet
<1>8. 1 \notin CallFrames => CallFrames \ {1} = CallFrames
  OBVIOUS
<1>9. QED
  BY <1>4, <1>5, <1>6, <1>7, <1>8

(* The next round of a loop.                                               *)
LEMMA AgainOK ==
    ASSUME Nesting, NEW iter \in Nat, iter <= Top.count, Again(iter), prog' = prog
    PROVE  StackOK' /\ MainBelow' /\ CallFrames' = CallFrames
<1> DEFINE t == [Top EXCEPT !.pc = 1, !.iter = iter]
<1>1. Top \in Frames /\ Valid(prog)
  BY TopOK DEF Nesting
<1>2. /\ t \in Frames /\ t.kind = Top.kind /\ t.block = Top.block
      /\ t.pc = 1 /\ t.iter = iter /\ t.count = Top.count
  <2>1. 1 \in Nat \ {0}
    OBVIOUS
  <2>2. /\ t.kind = Top.kind /\ t.block = Top.block
        /\ t.pc = 1 /\ t.iter = iter /\ t.count = Top.count
    BY <1>1, Zenon DEF Frames
  <2>3. t \in Frames
    BY <1>1, <2>1, Zenon DEF Frames
  <2>4. QED
    BY <2>2, <2>3
<1>3. stack' = <<t>> \o Tail(stack)
  BY DEF Again
<1>4. Len(prog.code[t.block]) \in Nat
  BY <1>1, <1>2 DEF Frames, Valid
<1> HIDE DEF t
<1>5. t.pc <= Len(prog.code[t.block]) + 1 /\ t.iter <= t.count
  BY <1>2, <1>4
<1>6. QED
  BY <1>2, <1>3, <1>5, ReplaceOK DEF Nesting

(* At the end of a block the depth goes down with the calls alone.         *)
LEMMA EndStep ==
    ASSUME Nesting, EndBranch \/ EndWhile \/ EndFor
    PROVE  /\ StackOK' /\ MainBelow' /\ InCode' /\ Depth' /\ outcome' \in Outcomes
<1>1. outcome = "running" /\ phase = "next" /\ phase' = "next" /\ prog' = prog
      /\ Top.kind \in {"branch", "call", "while", "for"}
  BY DEF EndBranch, EndWhile, EndFor, Leave
<1>2. InCode' /\ "running" \in Outcomes /\ "loop_overflow" \in Outcomes
  BY <1>1 DEF InCode, Outcomes
<1>3. callDepth = Cardinality(CallFrames) /\ callDepth <= MaxDepth
      /\ callDepth \in Nat /\ MaxDepth \in Nat
  BY <1>1, InterpreterAssumption DEF InterpreterAssumption, Nesting, Depth
<1>4. Top.iter \in Nat /\ Top.count \in Nat
  BY TopOK DEF Nesting, Frames
<1>5. CASE EndBranch
  <2>1. Pop /\ outcome' = "running"
        /\ callDepth' = (IF Top.kind = "call" THEN callDepth - 1 ELSE callDepth)
    BY <1>1, <1>5 DEF EndBranch
  <2>2. /\ StackOK' /\ MainBelow'
        /\ Top.kind = "call" =>
              /\ Cardinality(CallFrames) # 0
              /\ Cardinality(CallFrames') = Cardinality(CallFrames) - 1
        /\ Top.kind # "call" => Cardinality(CallFrames') = Cardinality(CallFrames)
    BY <1>1, <2>1, PopOK
  <2>3. Depth'
    BY <1>3, <2>1, <2>2 DEF Depth
  <2>4. QED
    BY <1>2, <2>1, <2>2, <2>3
<1>6. ASSUME Pop, outcome' = "running", callDepth' = callDepth, Top.kind # "call"
      PROVE  /\ StackOK' /\ MainBelow' /\ Depth'
  BY <1>1, <1>3, <1>6, PopOK DEF Depth
<1>7. ASSUME Again(Top.iter + 1), callDepth' = callDepth, Top.iter + 1 < Top.count
      PROVE  /\ StackOK' /\ MainBelow' /\ Depth' /\ outcome' = "running"
  <2>1. Top.iter + 1 \in Nat /\ Top.iter + 1 <= Top.count
    BY <1>4, <1>7
  <2>2. StackOK' /\ MainBelow' /\ CallFrames' = CallFrames
    BY <1>1, <1>7, <2>1, AgainOK
  <2>3. QED
    BY <1>1, <1>3, <1>7, <2>2 DEF Depth, Again
<1>8. CASE EndWhile
  <2>1. callDepth' = callDepth /\ Top.kind # "call"
    BY <1>8 DEF EndWhile, Leave
  <2>2. \/ Top.iter + 1 < Top.count /\ Again(Top.iter + 1)
        \/ outcome' = "loop_overflow" /\ UNCHANGED stack
        \/ Pop /\ outcome' = "running"
    BY <1>1, <1>8, Zenon DEF EndWhile
  <2>3. CASE outcome' = "loop_overflow" /\ UNCHANGED stack
    BY <1>1, <2>1, <2>3, StaysOK DEF Stays, Outcomes
  <2>4. QED
    BY <1>2, <1>6, <1>7, <2>1, <2>2, <2>3
<1>9. CASE EndFor
  <2>1. callDepth' = callDepth /\ Top.kind # "call"
    BY <1>9 DEF EndFor, Leave
  <2>2. \/ Top.iter + 1 < Top.count /\ Again(Top.iter + 1)
        \/ Pop /\ outcome' = "running"
    BY <1>1, <1>9, Zenon DEF EndFor
  <2>3. QED
    BY <1>2, <1>6, <1>7, <2>1, <2>2
<1>10. QED
  BY <1>5, <1>8, <1>9

-----------------------------------------------------------------------------
LEMMA InitHolds == Init => Nesting
<1> SUFFICES ASSUME Init PROVE Nesting
  OBVIOUS
<1> DEFINE f == Frame("main", "main")
<1>1. prog \in Programs /\ Valid(prog) /\ MaxDepth \in Nat
  BY InterpreterAssumption DEF InterpreterAssumption, Init
<1>2. "main" \in Kinds /\ "main" \in DOMAIN prog.code /\ 0 \in Nat
      /\ BOOLEAN \in SUBSET BOOLEAN
  BY <1>1 DEF Kinds, Valid
<1>frame. f = NewFrame("main", "main", 0, BOOLEAN)
  BY DEF Frame, NewFrame
<1>3. f \in Frames /\ f.pc = 1 /\ f.iter <= f.count /\ f.kind = "main"
  BY <1>2, <1>frame, FrameOK
<1>4. Len(prog.code[f.block]) \in Nat
  BY <1>1, <1>3 DEF Valid, Frames
<1>5. stack = <<f>>
  BY DEF Init
<1> HIDE DEF f
<1>6. StackOK /\ MainBelow /\ Len(stack) = 1 /\ stack[1] = f
  BY <1>3, <1>4, <1>5 DEF StackOK, MainBelow
<1>7. CallFrames = {}
  BY <1>3, <1>6 DEF CallFrames
<1>8. Cardinality(CallFrames) = 0
  BY <1>7, FS_EmptySet
<1>9. TypeOK
  <2>1. FlagsOK
    BY Zenon DEF Init, FlagsOK
  <2>2. QED
    BY <1>1, <1>6, <2>1 DEF Init, TypeOK, Phases, Outcomes
<1>10. QED
  BY <1>1, <1>6, <1>8, <1>9 DEF Init, Nesting, InCode, Depth

LEMMA NextKeeps == Nesting /\ [Next]_vars => Nesting'
<1> SUFFICES ASSUME Nesting, [Next]_vars PROVE Nesting'
  OBVIOUS
<1>1. ASSUME StackOK' /\ MainBelow' /\ InCode' /\ Depth' /\ outcome' \in Outcomes,
             prog' = prog
      PROVE  Nesting'
  <2>1. phase' \in Phases /\ leg' \in Nat /\ FlagsOK' /\ TypeOK
    BY PhaseStep, FlagsStep DEF Nesting, TypeOK
  <2>2. callDepth' \in 0..(MaxDepth + 1)
    BY <1>1 DEF Depth
  <2>3. TypeOK'
    BY <1>1, <2>1, <2>2, TypeKept, Zenon
  <2>4. QED
    BY <1>1, <2>3, Zenon DEF Nesting
<1>2. CASE \/ Check \/ ReadUndefined \/ Blocks \/ DoMove \/ NextLeg \/ BusyFails
           \/ WaitBegins \/ WaitTimesOut \/ Halt \/ FaultOp \/ Jump \/ EndMain
           \/ SeeStop \/ SetPause \/ SetStop
  BY <1>1, <1>2, Staying, StaysOK, Zenon DEF Stays
<1>3. CASE Simple \/ BusyDone \/ WaitEnds \/ If \/ LoopWhile \/ LoopFor
  <2>1. CASE Stays
    BY <1>1, <2>1, StaysOK, Zenon DEF Stays
  <2>2. CASE Advances
    BY <1>1, <2>2, AdvancesOK, Zenon DEF Advances
  <2>3. ASSUME NEW f, Enters(f) PROVE Nesting'
    BY <1>1, <2>3, EntersOK, Zenon DEF Enters
  <2>4. QED
    BY <1>3, <2>1, <2>2, <2>3, Executing
<1>4. CASE Call
  BY <1>1, <1>4, CallStep, Zenon DEF Call
<1>5. CASE Return
  BY <1>1, <1>5, ReturnStep, Zenon DEF Return
<1>6. CASE EndBranch \/ EndWhile \/ EndFor
  BY <1>1, <1>6, EndStep, Zenon DEF EndBranch, EndWhile, EndFor
<1>7. CASE UNCHANGED vars
  BY <1>7 DEF control, Nesting, TypeOK, FlagsOK, StackOK, Frames, MainBelow, InCode,
     AtEnd, Top, Code, Depth, CallFrames
<1>8. QED
  BY <1>2, <1>3, <1>4, <1>5, <1>6, <1>7, Zenon DEF Next, Thread

(* The inductive invariant of both interpreters holds in every state of a  *)
(* job.                                                                    *)
THEOREM Invariance == Spec => []Nesting
BY InitHolds, NextKeeps, PTL DEF Spec

(* Every frame is at an instruction of a block of the program, or at its   *)
(* end, and within its count of iterations (_exec_body).                   *)
THEOREM TypeCorrect == Spec => []TypeOK
<1>1. Nesting => TypeOK
  BY DEF Nesting
<1>2. QED
  BY <1>1, Invariance, PTL

(* _call_depth counts the subroutines that are being executed, at any      *)
(* nesting of loops and branches, whichever way they are left (_exec_call  *)
(* of interpreter.py, execCall of Interpreter.cpp).                        *)
THEOREM DepthCountsHolds == Spec => []DepthCounts
<1>1. Nesting => DepthCounts
  BY DEF Nesting, Depth, DepthCounts
<1>2. QED
  BY <1>1, Invariance, PTL

-----------------------------------------------------------------------------
(* Sequences of instructions                                               *)

(* Induction over the natural numbers, for a set.                          *)
LEMMA NatInd ==
    ASSUME NEW S \in SUBSET Nat, 0 \in S, \A n \in S : n + 1 \in S
    PROVE  S = Nat
<1>1. SUFFICES ASSUME Nat \ S # {} PROVE FALSE
  OBVIOUS
<1>2. PICK n \in Nat \ S : \A m \in Nat \ S : n <= m
  BY <1>1, NatMin, Nat \ S \in SUBSET Nat
<1>3. n - 1 \in Nat /\ n - 1 \in S
  BY <1>2
<1>4. QED
  BY <1>2, <1>3

(* The recursive function that FlattenSeq defines exists.                  *)
IsFlat(f, s, n) ==
    f = [i \in 1..n |-> IF i = 1 THEN s[i] ELSE f[i - 1] \o s[i]]

LEMMA FlatExists ==
    ASSUME NEW s, NEW m \in Nat
    PROVE  \E f : IsFlat(f, s, m)
<1> DEFINE S == {n \in Nat : \E f : IsFlat(f, s, n)}
<1>1. 0 \in S
  <2> DEFINE f == [i \in 1..0 |-> s[1]]
  <2>1. f = [i \in 1..0 |-> IF i = 1 THEN s[i] ELSE f[i - 1] \o s[i]]
    OBVIOUS
  <2>2. QED
    BY <2>1 DEF IsFlat
<1>2. ASSUME NEW n \in S PROVE n + 1 \in S
  <2>1. PICK g : IsFlat(g, s, n)
    OBVIOUS
  <2>2. n \in Nat
    OBVIOUS
  <2> DEFINE f == [i \in 1..(n + 1) |->
                     IF i <= n THEN g[i]
                     ELSE IF i = 1 THEN s[i] ELSE g[n] \o s[i]]
  <2>3. \A i \in 1..n : f[i] = g[i]
    BY <2>2
  <2>4. \A i \in 1..(n + 1) : f[i] = (IF i = 1 THEN s[i] ELSE f[i - 1] \o s[i])
    <3>1. SUFFICES ASSUME NEW i \in 1..(n + 1)
                   PROVE  f[i] = (IF i = 1 THEN s[i] ELSE f[i - 1] \o s[i])
      OBVIOUS
    <3>2. CASE i <= n
      <4>4. i \in 1..n
        BY <2>2, <3>2
      <4>5. f[i] = g[i]
        BY <2>3, <4>4
      <4>6. g[i] = (IF i = 1 THEN s[i] ELSE g[i - 1] \o s[i])
        BY <2>1, <4>4 DEF IsFlat
      <4>1. f[i] = (IF i = 1 THEN s[i] ELSE g[i - 1] \o s[i])
        BY <4>5, <4>6, Zenon
      <4>2. i # 1 => f[i - 1] = g[i - 1]
        BY <2>2, <2>3, <3>2
      <4> HIDE DEF f
      <4>3. QED
        BY <4>1, <4>2
    <3>3. CASE i = n + 1
      <4>1. i # 1 => f[i - 1] = g[n]
        BY <2>2, <2>3, <3>3
      <4>2. f[i] = (IF i = 1 THEN s[i] ELSE g[n] \o s[i])
        BY <2>2, <3>3
      <4> HIDE DEF f
      <4>3. QED
        BY <4>1, <4>2
    <3>4. QED
      BY <2>2, <3>2, <3>3
  <2>5. DOMAIN f = 1..(n + 1) /\ f = [i \in 1..(n + 1) |-> f[i]]
    OBVIOUS
  <2> HIDE DEF f
  <2>6. IsFlat(f, s, n + 1)
    BY <2>4, <2>5 DEF IsFlat
  <2>7. QED
    BY <2>2, <2>6
<1>3. S = Nat
  <2> HIDE DEF S
  <2>1. S \in SUBSET Nat
    BY DEF S
  <2>2. QED
    BY <1>1, <1>2, <2>1, NatInd
<1>4. QED
  BY <1>3

LEMMA Flattened ==
    ASSUME NEW s, Len(s) \in Nat \ {0}
    PROVE  \E f : IsFlat(f, s, Len(s)) /\ FlattenSeq(s) = f[Len(s)]
<1> DEFINE f == CHOOSE f : IsFlat(f, s, Len(s))
<1>1. IsFlat(f, s, Len(s))
  BY FlatExists
<1>2. FlattenSeq(s) = f[Len(s)]
  BY DEF FlattenSeq, IsFlat
<1>3. QED
  BY <1>1, <1>2

-----------------------------------------------------------------------------
(* The instructions of a generated body                                    *)

Laser == "servo_laser_btn"
PressOn  == Output(Laser, "press")
PressOff == Output(Laser, "release")
Pausing  == Instruction("DELAY")
Probing(v) == [Instruction("PROBE_Z") EXCEPT !.store = {v}]

Items(V) ==
    {Instruction("MOVE"), Pausing, PressOn, PressOff}
      \cup {Probing(v) : v \in V}
      \cup {Output(o, b) : o \in {"pump", "valve"}, b \in BOOLEAN}
      \cup {Output("servo_door", d) : d \in {"open", "closed"}}

ProbeVars(rows) == {"z_wp" \o ToString(i) : i \in {k \in DOMAIN rows : rows[k].probe}}

(* Whoever presses the laser button lets go of it two instructions later.  *)
LetsGo(s) ==
    \A k \in 1..Len(s) :
        s[k] = PressOn => /\ k + 2 <= Len(s)
                          /\ s[k + 1] = Pausing /\ s[k + 2] = PressOff

(* The last row has the last word about every other output.                *)
EndsAs(s, row) ==
    \E p \in Nat :
        /\ p + 4 <= Len(s)
        /\ s[p + 2] = Output("pump", row.pump)
        /\ s[p + 3] = Output("valve", row.valve)
        /\ s[p + 4] = Output("servo_door", row.door)
        /\ \A j \in (p + 5)..Len(s) : s[j] \in {PressOn, Pausing, PressOff}

LEMMA OutputIs ==
    ASSUME NEW o, NEW v
    PROVE  /\ Output(o, v).op = "OUTPUT" /\ Output(o, v).outs = [x \in {o} |-> v]
           /\ Output(o, v).needs = {} /\ Output(o, v).store = {}
           /\ Output(o, v).path = <<{}>>
<1> DEFINE i == Instruction("OUTPUT")
           h == [x \in {o} |-> v]
<1>2. /\ i.op = "OUTPUT" /\ i.needs = {} /\ i.store = {} /\ i.path = <<{}>>
      /\ DOMAIN i = {"op", "body", "alt", "n", "needs", "store", "path", "when", "outs"}
  BY DEF Instruction
<1>3. Output(o, v) = [i EXCEPT !.outs = h]
  BY Zenon DEF Output
<1>4. h = [x \in {o} |-> v]
  OBVIOUS
<1> HIDE DEF i, h
<1>5. QED
  BY <1>2, <1>3, <1>4

LEMMA ItemOK ==
    ASSUME NEW V, NEW i \in Items(V)
    PROVE  /\ i.needs = {} /\ i.path = <<{}>> /\ i.store \subseteq V
           /\ i.op \in {"MOVE", "PROBE_Z", "DELAY", "OUTPUT"}
           /\ i.op = "OUTPUT" => i.store = {}
<1>1. CASE i \in {Instruction("MOVE"), Pausing}
  BY <1>1 DEF Instruction, Pausing
<1>2. CASE i \in {PressOn, PressOff}
  <2>1. ASSUME NEW o, NEW v, i = Output(o, v)
        PROVE  i.op = "OUTPUT" /\ i.needs = {} /\ i.path = <<{}>> /\ i.store = {}
    BY <2>1, OutputIs
  <2>2. i = Output(Laser, "press") \/ i = Output(Laser, "release")
    BY <1>2 DEF PressOn, PressOff
  <2>3. QED
    BY <2>1, <2>2
<1>3. ASSUME NEW v \in V, i = Probing(v)
      PROVE  i.op = "PROBE_Z" /\ i.needs = {} /\ i.path = <<{}>> /\ i.store = {v}
  BY <1>3 DEF Probing, Instruction
<1>4. ASSUME NEW o, NEW b, i = Output(o, b)
      PROVE  i.op = "OUTPUT" /\ i.needs = {} /\ i.path = <<{}>> /\ i.store = {}
  BY <1>4, OutputIs
<1>5. QED
  BY <1>1, <1>2, <1>3, <1>4 DEF Items

(* The five outputs that an item may write are told apart.                 *)
LEMMA OutputsDiffer ==
    ASSUME NEW o, NEW v, NEW p, NEW w
    PROVE  /\ Output(o, v) = Output(p, w) => o = p /\ v = w
           /\ Output(o, v) # Pausing /\ Output(o, v) # Instruction("MOVE")
           /\ \A x : Output(o, v) # Probing(x)
<1>1. Output(o, v) = Output(p, w) => o = p /\ v = w
  <2>1. [x \in {o} |-> v] = [x \in {p} |-> w] => o = p /\ v = w
    <3>1. DOMAIN [x \in {o} |-> v] = {o} /\ [x \in {o} |-> v][o] = v
          /\ DOMAIN [x \in {p} |-> w] = {p} /\ [x \in {p} |-> w][p] = w
      OBVIOUS
    <3>2. QED
      BY <3>1
  <2>2. /\ Output(o, v).outs = [x \in {o} |-> v]
        /\ Output(p, w).outs = [x \in {p} |-> w]
    BY OutputIs
  <2>3. QED
    BY <2>1, <2>2
<1>2. Pausing.op = "DELAY" /\ Instruction("MOVE").op = "MOVE"
      /\ \A x : Probing(x).op = "PROBE_Z"
  BY DEF Pausing, Instruction, Probing
<1>3. Output(o, v).op = "OUTPUT"
  BY OutputIs
<1>4. QED
  BY <1>1, <1>2, <1>3

LEMMA Joined ==
    ASSUME NEW S, NEW s \in Seq(S), NEW t \in Seq(S)
    PROVE  /\ s \o t \in Seq(S) /\ Len(s \o t) = Len(s) + Len(t)
           /\ Len(s) \in Nat /\ Len(t) \in Nat
           /\ \A k \in 1..Len(s) : (s \o t)[k] = s[k]
           /\ \A k \in 1..Len(t) : (s \o t)[Len(s) + k] = t[k]
OBVIOUS

LEMMA LetsGoJoined ==
    ASSUME NEW S, NEW s \in Seq(S), NEW t \in Seq(S), LetsGo(s), LetsGo(t)
    PROVE  LetsGo(s \o t)
<1> DEFINE u == s \o t
<1>1. /\ Len(u) = Len(s) + Len(t) /\ Len(s) \in Nat /\ Len(t) \in Nat
      /\ \A k \in 1..Len(s) : u[k] = s[k]
      /\ \A k \in 1..Len(t) : u[Len(s) + k] = t[k]
  BY Joined
<1> HIDE DEF u
<1>2. SUFFICES ASSUME NEW k \in 1..Len(u), u[k] = PressOn
               PROVE  /\ k + 2 <= Len(u)
                      /\ u[k + 1] = Pausing /\ u[k + 2] = PressOff
  BY DEF u, LetsGo
<1>3. CASE k <= Len(s)
  <2>1. k \in 1..Len(s) /\ u[k] = s[k] /\ s[k] = PressOn
    <3>1. k \in 1..Len(s)
      BY <1>1, <1>2, <1>3
    <3>2. QED
      BY <1>1, <1>2, <3>1
  <2>2. k + 2 <= Len(s) /\ s[k + 1] = Pausing /\ s[k + 2] = PressOff
    BY <2>1 DEF LetsGo
  <2>3. k + 1 \in 1..Len(s) /\ k + 2 \in 1..Len(s)
    BY <1>1, <2>1, <2>2
  <2>4. u[k + 1] = s[k + 1] /\ u[k + 2] = s[k + 2]
    BY <1>1, <2>3
  <2>5. QED
    BY <1>1, <2>2, <2>4
<1>4. CASE k > Len(s)
  <2> DEFINE j == k - Len(s)
  <2>1. j \in 1..Len(t) /\ k = Len(s) + j
    BY <1>1, <1>2, <1>4
  <2>2. t[j] = PressOn
    BY <1>1, <1>2, <2>1
  <2>3. j + 2 <= Len(t) /\ t[j + 1] = Pausing /\ t[j + 2] = PressOff
    BY <2>1, <2>2 DEF LetsGo
  <2>4. /\ j + 1 \in 1..Len(t) /\ j + 2 \in 1..Len(t)
        /\ k + 1 = Len(s) + (j + 1) /\ k + 2 = Len(s) + (j + 2)
    BY <1>1, <2>1, <2>3
  <2> HIDE DEF j
  <2>5. u[k + 1] = t[j + 1] /\ u[k + 2] = t[j + 2]
    BY <1>1, <2>4
  <2>6. QED
    BY <1>1, <2>1, <2>3, <2>4, <2>5
<1>5. QED
  BY <1>1, <1>2, <1>3, <1>4

LEMMA EndsAsJoined ==
    ASSUME NEW S, NEW s \in Seq(S), NEW t \in Seq(S), NEW row, EndsAs(t, row)
    PROVE  EndsAs(s \o t, row)
<1> DEFINE u == s \o t
<1>1. /\ Len(u) = Len(s) + Len(t) /\ Len(s) \in Nat /\ Len(t) \in Nat
      /\ \A k \in 1..Len(t) : u[Len(s) + k] = t[k]
  BY Joined
<1> HIDE DEF u
<1>2. PICK p \in Nat :
        /\ p + 4 <= Len(t)
        /\ t[p + 2] = Output("pump", row.pump)
        /\ t[p + 3] = Output("valve", row.valve)
        /\ t[p + 4] = Output("servo_door", row.door)
        /\ \A j \in (p + 5)..Len(t) : t[j] \in {PressOn, Pausing, PressOff}
  BY DEF EndsAs
<1> DEFINE q == Len(s) + p
<1>3. q \in Nat /\ q + 4 <= Len(u)
      /\ q + 2 = Len(s) + (p + 2) /\ q + 3 = Len(s) + (p + 3) /\ q + 4 = Len(s) + (p + 4)
      /\ p + 2 \in 1..Len(t) /\ p + 3 \in 1..Len(t) /\ p + 4 \in 1..Len(t)
  BY <1>1, <1>2
<1> HIDE DEF q
<1>4. u[q + 2] = t[p + 2] /\ u[q + 3] = t[p + 3] /\ u[q + 4] = t[p + 4]
  BY <1>1, <1>3
<1>5. ASSUME NEW j \in (q + 5)..Len(u)
      PROVE  u[j] \in {PressOn, Pausing, PressOff}
  <2>1. j - Len(s) \in (p + 5)..Len(t) /\ j - Len(s) \in 1..Len(t)
        /\ j = Len(s) + (j - Len(s))
    BY <1>1, <1>2, <1>3 DEF q
  <2>2. u[j] = t[j - Len(s)]
    BY <1>1, <2>1
  <2>3. QED
    BY <1>2, <2>1, <2>2, Zenon
<1>6. EndsAs(u, row)
  BY <1>2, <1>3, <1>4, <1>5, Zenon DEF EndsAs
<1>7. QED
  BY <1>6 DEF u

(* What one row of the table adds to the body.                             *)
LEMMA RowBodyOK ==
    ASSUME NEW V, NEW row \in Rows, NEW i, row.probe => ("z_wp" \o ToString(i)) \in V
    PROVE  /\ RowBody(row, i) \in Seq(Items(V))
           /\ LetsGo(RowBody(row, i)) /\ EndsAs(RowBody(row, i), row)
<1> DEFINE a == << Arrive(row, i), Output("pump", row.pump), Output("valve", row.valve),
                   Output("servo_door", row.door) >>
           b == IF row.press THEN << PressOn, Pausing, PressOff >> ELSE <<>>
           c == IF row.delay THEN << Pausing >> ELSE <<>>
           r == RowBody(row, i)
<1>1. r = (a \o b) \o c
  BY DEF RowBody, Press, PressOn, Pausing, PressOff, Laser
<1>2. Arrive(row, i) \in Items(V)
  <2>1. CASE row.probe
    <3>1. Arrive(row, i) = Probing("z_wp" \o ToString(i))
      BY <2>1 DEF Arrive, Probing
    <3>2. QED
      BY <2>1, <3>1 DEF Items
  <2>2. CASE ~row.probe
    BY <2>2 DEF Arrive, Items
  <2>3. QED
    BY <2>1, <2>2
<1>3. /\ row.pump \in BOOLEAN /\ row.valve \in BOOLEAN /\ row.door \in {"open", "closed"}
      /\ row.press \in BOOLEAN /\ row.delay \in BOOLEAN
  BY DEF Rows
<1>4. /\ Output("pump", row.pump) \in Items(V) /\ Output("valve", row.valve) \in Items(V)
      /\ Output("servo_door", row.door) \in Items(V)
      /\ PressOn \in Items(V) /\ PressOff \in Items(V) /\ Pausing \in Items(V)
  BY <1>3 DEF Items
<1>5. a \in Seq(Items(V)) /\ Len(a) = 4
  BY <1>2, <1>4
<1>6. b \in Seq(Items(V)) /\ c \in Seq(Items(V))
  BY <1>4
<1>7. a[1] # PressOn /\ a[2] # PressOn /\ a[3] # PressOn /\ a[4] # PressOn
  <2>1. a[1] = Instruction("MOVE") \/ \E v : a[1] = Probing(v)
    BY DEF Arrive, Probing
  <2>2. a[1] # PressOn
    BY <2>1, OutputsDiffer DEF PressOn
  <2>3. "pump" # Laser /\ "valve" # Laser /\ "servo_door" # Laser
    BY DEF Laser
  <2>4. QED
    BY <2>2, <2>3, OutputsDiffer DEF PressOn
<1>8. PressOff # PressOn /\ Pausing # PressOn
  BY OutputsDiffer DEF PressOn, PressOff
<1>9. LetsGo(a)
  BY <1>5, <1>7 DEF LetsGo
<1>10. LetsGo(b) /\ LetsGo(c)
  BY <1>8 DEF LetsGo
<1>11. EndsAs(r, row)
  <2>1. 0 \in Nat /\ Len(a \o b) = 4 + Len(b) /\ a \o b \in Seq(Items(V))
        /\ Len(b) \in Nat /\ Len(c) \in Nat /\ Len(r) = 4 + Len(b) + Len(c)
    BY <1>1, <1>5, <1>6, Joined
  <2>2. \A k \in 1..4 : r[k] = a[k]
    BY <1>1, <1>5, <1>6, <2>1, Joined
  <2>3. ASSUME NEW j \in 5..Len(r)
        PROVE  r[j] \in {PressOn, Pausing, PressOff}
    <3>1. CASE j <= 4 + Len(b)
      <4>1. j - 4 \in 1..Len(b) /\ j = 4 + (j - 4) /\ j \in 1..Len(a \o b)
        BY <2>1, <3>1
      <4>2. r[j] = (a \o b)[j] /\ (a \o b)[j] = b[j - 4]
        BY <1>1, <1>5, <1>6, <2>1, <4>1
      <4>3. b[j - 4] \in {PressOn, Pausing, PressOff}
        BY <4>1
      <4>4. QED
        BY <4>2, <4>3
    <3>2. CASE j > 4 + Len(b)
      <4>1. j - (4 + Len(b)) \in 1..Len(c) /\ j = (4 + Len(b)) + (j - (4 + Len(b)))
        BY <2>1, <3>2
      <4>2. r[j] = c[j - (4 + Len(b))]
        BY <1>1, <1>6, <2>1, <4>1
      <4>3. c[j - (4 + Len(b))] = Pausing
        BY <4>1
      <4>4. QED
        BY <4>2, <4>3
    <3>3. QED
      BY <2>1, <3>1, <3>2
  <2>4. r[0 + 2] = Output("pump", row.pump) /\ r[0 + 3] = Output("valve", row.valve)
        /\ r[0 + 4] = Output("servo_door", row.door) /\ 0 + 4 <= Len(r)
    BY <2>1, <2>2
  <2>5. 0 + 5 = 5
    OBVIOUS
  <2>6. \A j \in (0 + 5)..Len(r) : r[j] \in {PressOn, Pausing, PressOff}
    BY <2>3, <2>5
  <2> HIDE DEF r
  <2>7. QED
    BY <2>1, <2>4, <2>6, Zenon DEF EndsAs
<1> HIDE DEF a, b, c
<1>12. r \in Seq(Items(V)) /\ LetsGo(r)
  <2>1. a \o b \in Seq(Items(V)) /\ LetsGo(a \o b)
    BY <1>5, <1>6, <1>9, <1>10, LetsGoJoined
  <2> DEFINE ab == a \o b
  <2> HIDE DEF ab
  <2>2. ab \o c \in Seq(Items(V)) /\ LetsGo(ab \o c)
    <3>1. ab \in Seq(Items(V)) /\ LetsGo(ab)
      BY <2>1 DEF ab
    <3>2. ab \o c \in Seq(Items(V))
      BY <1>6, <3>1
    <3>3. LetsGo(ab \o c)
      BY <1>6, <1>10, <3>1, LetsGoJoined
    <3>4. QED
      BY <3>2, <3>3
  <2>3. QED
    BY <1>1, <2>2 DEF ab
<1>13. QED
  BY <1>11, <1>12

(* The body that the editor makes of a table of any length.                *)
LEMMA BodyOK ==
    ASSUME NEW rows \in Seq(Rows), rows # <<>>
    PROVE  /\ Body(rows) \in Seq(Items(ProbeVars(rows)))
           /\ LetsGo(Body(rows)) /\ EndsAs(Body(rows), rows[Len(rows)])
<1> DEFINE n == Len(rows)
           V == ProbeVars(rows)
           s == [i \in DOMAIN rows |-> RowBody(rows[i], i)]
<1>1. n \in Nat \ {0} /\ DOMAIN rows = 1..n /\ \A i \in 1..n : rows[i] \in Rows
  OBVIOUS
<1>2. Len(s) = n /\ \A i \in 1..n : s[i] = RowBody(rows[i], i)
  BY <1>1
<1>3. Body(rows) = FlattenSeq(s)
  BY DEF Body
<1>4. \A i \in 1..n : /\ s[i] \in Seq(Items(V)) /\ LetsGo(s[i])
                      /\ EndsAs(s[i], rows[i])
  <2>1. SUFFICES ASSUME NEW i \in 1..n
                 PROVE  /\ s[i] \in Seq(Items(V)) /\ LetsGo(s[i])
                        /\ EndsAs(s[i], rows[i])
    OBVIOUS
  <2>2. rows[i].probe => ("z_wp" \o ToString(i)) \in V
    BY <1>1 DEF ProbeVars
  <2> HIDE DEF V, s
  <2>3. QED
    BY <1>1, <1>2, <2>2, RowBodyOK
<1> HIDE DEF V, s, n
<1>5. PICK f : IsFlat(f, s, n) /\ FlattenSeq(s) = f[n]
  BY <1>1, <1>2, Flattened
<1> DEFINE Good(i) == f[i] \in Seq(Items(V)) /\ LetsGo(f[i]) /\ EndsAs(f[i], rows[i])
           N == {i \in Nat : i \in 1..n => Good(i)}
<1>6. N = Nat
  <2>1. 0 \in N
    BY <1>1
  <2>2. ASSUME NEW i \in N PROVE i + 1 \in N
    <3>1. SUFFICES ASSUME i + 1 \in 1..n PROVE Good(i + 1)
      OBVIOUS
    <3>2. f[i + 1] = (IF i + 1 = 1 THEN s[i + 1] ELSE f[(i + 1) - 1] \o s[i + 1])
      BY <1>5, <3>1 DEF IsFlat
    <3>3. i \in Nat /\ (i + 1) - 1 = i
      OBVIOUS
    <3>4. CASE i = 0
      BY <1>4, <3>1, <3>2, <3>4
    <3>5. CASE i # 0
      <4>1. Good(i) /\ f[i + 1] = f[i] \o s[i + 1]
        <5>1. i \in 1..n
          BY <1>1, <3>1, <3>3, <3>5
        <5>2. i + 1 # 1
          BY <3>3, <3>5
        <5>3. QED
          BY <3>2, <3>3, <5>1, <5>2
      <4>2. s[i + 1] \in Seq(Items(V)) /\ LetsGo(s[i + 1]) /\ EndsAs(s[i + 1], rows[i + 1])
        BY <1>4, <3>1
      <4>3. f[i] \o s[i + 1] \in Seq(Items(V))
        BY <4>1, <4>2
      <4>4. QED
        BY <4>1, <4>2, <4>3, LetsGoJoined, EndsAsJoined
    <3>6. QED
      BY <3>4, <3>5
  <2>3. N \in SUBSET Nat
    OBVIOUS
  <2> HIDE DEF N
  <2>4. QED
    BY <2>1, <2>2, <2>3, NatInd
<1>7. Good(n)
  BY <1>1, <1>6
<1>8. QED
  BY <1>3, <1>5, <1>7 DEF V, n

-----------------------------------------------------------------------------
(* What the outputs are while a generated body is executed                 *)

OutputNames == {"pump", "valve", "servo_door", Laser}
AsTheRow(row) == [pump |-> row.pump, valve |-> row.valve, servo_door |-> row.door,
                  servo_laser_btn |-> "release"]
Writes(i, o) == i.op = "OUTPUT" /\ o \in DOMAIN i.outs

(* An output is as the last instruction before pc that writes it has it.   *)
LastWritten(B, pc, w) ==
    \A k \in 1..(pc - 1), o \in OutputNames :
        Writes(B[k], o) /\ (\A j \in (k + 1)..(pc - 1) : ~Writes(B[j], o))
            => w[o] = B[k].outs[o]

(* The laser button is held at most for two instructions.                  *)
LaserHeld(B, pc, w) ==
    \/ w[Laser] = "release"
    \/ pc > 1 /\ B[pc - 1] = PressOn
    \/ pc > 2 /\ B[pc - 2] = PressOn

LEMMA WritesIs ==
    ASSUME NEW o, NEW v, NEW p
    PROVE  /\ Writes(Output(o, v), p) <=> p = o
           /\ Output(o, v).outs[o] = v
           /\ ~Writes(Pausing, p)
<1>1. Output(o, v).op = "OUTPUT" /\ Output(o, v).outs = [x \in {o} |-> v]
  BY OutputIs
<1>2. Pausing.op # "OUTPUT"
  BY DEF Pausing, Instruction
<1>3. QED
  BY <1>1, <1>2 DEF Writes

LEMMA ItemWrites ==
    ASSUME NEW V, NEW i \in Items(V)
    PROVE  /\ i.op = "OUTPUT" => \E o, v : o \in OutputNames /\ i = Output(o, v)
           /\ Writes(i, Laser) => i \in {PressOn, PressOff}
<1>1. "pump" # Laser /\ "valve" # Laser /\ "servo_door" # Laser
  BY DEF Laser
<1>2. CASE i \in {Instruction("MOVE"), Pausing}
  BY <1>2 DEF Instruction, Pausing, Writes
<1>3. CASE i \in {PressOn, PressOff}
  BY <1>3 DEF PressOn, PressOff, OutputNames
<1>4. CASE \E v \in V : i = Probing(v)
  BY <1>4 DEF Probing, Instruction, Writes
<1>5. CASE \E o, v : o \in {"pump", "valve", "servo_door"} /\ i = Output(o, v)
  <2>1. PICK o, v : o \in {"pump", "valve", "servo_door"} /\ i = Output(o, v)
    BY <1>5
  <2>2. ~Writes(i, Laser)
    BY <1>1, <2>1, WritesIs
  <2>3. QED
    BY <2>1, <2>2 DEF OutputNames
<1>6. QED
  BY <1>2, <1>3, <1>4, <1>5 DEF Items

LEMMA OneMoreWritten ==
    ASSUME NEW V, NEW B \in Seq(Items(V)), LetsGo(B), NEW pc \in 1..Len(B),
           NEW w, NEW x, LastWritten(B, pc, w), LaserHeld(B, pc, w),
           \A o \in OutputNames :
               /\ Writes(B[pc], o) => x[o] = B[pc].outs[o]
               /\ ~Writes(B[pc], o) => x[o] = w[o]
    PROVE  LastWritten(B, pc + 1, x) /\ LaserHeld(B, pc + 1, x)
<1>1. B[pc] \in Items(V) /\ (pc + 1) - 1 = pc /\ pc \in Nat /\ Len(B) \in Nat
  OBVIOUS
<1>2. ASSUME NEW k \in 1..pc, NEW o \in OutputNames, Writes(B[k], o),
             \A j \in (k + 1)..pc : ~Writes(B[j], o)
      PROVE  x[o] = B[k].outs[o]
  <2>1. CASE k = pc
    BY <1>2, <2>1
  <2>2. CASE k # pc
    <3>1. k \in 1..(pc - 1) /\ pc \in (k + 1)..pc
      BY <1>1, <2>2
    <3>2. \A j \in (k + 1)..(pc - 1) : j \in (k + 1)..pc
      BY <1>1
    <3>3. w[o] = B[k].outs[o]
      BY <1>2, <3>1, <3>2, Zenon DEF LastWritten
    <3>4. QED
      BY <1>2, <3>1, <3>3
  <2>3. QED
    BY <2>1, <2>2
<1>3. LastWritten(B, pc + 1, x)
  BY <1>1, <1>2, Zenon DEF LastWritten
<1>4. LaserHeld(B, pc + 1, x)
  <2>1. Laser \in OutputNames
    BY DEF OutputNames
  <2>2. CASE Writes(B[pc], Laser)
    <3>1. B[pc] \in {PressOn, PressOff} /\ x[Laser] = B[pc].outs[Laser]
      BY <1>1, <2>1, <2>2, ItemWrites
    <3>2. PressOff.outs[Laser] = "release"
      BY WritesIs DEF PressOff
    <3>3. QED
      BY <1>1, <3>1, <3>2 DEF LaserHeld
  <2>3. CASE ~Writes(B[pc], Laser)
    <3>1. x[Laser] = w[Laser]
      BY <2>1, <2>3
    <3>2. CASE w[Laser] = "release"
      BY <3>1, <3>2 DEF LaserHeld
    <3>3. CASE pc > 1 /\ B[pc - 1] = PressOn
      <4>1. pc + 1 > 2 /\ (pc + 1) - 2 = pc - 1
        BY <1>1, <3>3
      <4>2. QED
        BY <3>3, <4>1 DEF LaserHeld
    <3>4. CASE pc > 2 /\ B[pc - 2] = PressOn
      <4>1. pc - 2 \in 1..Len(B) /\ (pc - 2) + 2 = pc
        BY <1>1, <3>4
      <4>2. B[pc] = PressOff
        BY <3>4, <4>1 DEF LetsGo
      <4>3. Writes(B[pc], Laser)
        BY <4>2, WritesIs DEF PressOff
      <4>4. QED
        BY <2>3, <4>3
    <3>5. QED
      BY <3>2, <3>3, <3>4 DEF LaserHeld
  <2>4. QED
    BY <2>2, <2>3
<1>5. QED
  BY <1>3, <1>4

LEMMA AllWritten ==
    ASSUME NEW V, NEW B \in Seq(Items(V)), LetsGo(B), NEW row, EndsAs(B, row),
           NEW w, w = [o \in OutputNames |-> w[o]],
           LastWritten(B, Len(B) + 1, w), LaserHeld(B, Len(B) + 1, w)
    PROVE  w = AsTheRow(row)
<1> DEFINE n == Len(B)
<1>1. n \in Nat /\ (n + 1) - 1 = n /\ (n + 1) - 2 = n - 1
  OBVIOUS
<1>2. PICK p \in Nat :
        /\ p + 4 <= n
        /\ B[p + 2] = Output("pump", row.pump)
        /\ B[p + 3] = Output("valve", row.valve)
        /\ B[p + 4] = Output("servo_door", row.door)
        /\ \A j \in (p + 5)..n : B[j] \in {PressOn, Pausing, PressOff}
  BY DEF EndsAs
<1>3. "pump" # Laser /\ "valve" # Laser /\ "servo_door" # Laser /\ Laser \in OutputNames
      /\ "pump" \in OutputNames /\ "valve" \in OutputNames /\ "servo_door" \in OutputNames
  BY DEF Laser, OutputNames
<1>4. \A j \in (p + 5)..n, o \in {"pump", "valve", "servo_door"} : ~Writes(B[j], o)
  <2>1. SUFFICES ASSUME NEW j \in (p + 5)..n, NEW o \in {"pump", "valve", "servo_door"}
                 PROVE  ~Writes(B[j], o)
    OBVIOUS
  <2>2. B[j] \in {Output(Laser, "press"), Pausing, Output(Laser, "release")} /\ o # Laser
    BY <1>2, <1>3 DEF PressOn, PressOff
  <2>3. ~Writes(Output(Laser, "press"), o) /\ ~Writes(Output(Laser, "release"), o)
        /\ ~Writes(Pausing, o)
    BY <2>2, WritesIs
  <2>4. QED
    BY <2>2, <2>3, Zenon
<1>5. ASSUME NEW k \in (p + 2)..(p + 4), NEW o \in {"pump", "valve", "servo_door"}, NEW v,
             B[k] = Output(o, v), \A j \in (k + 1)..(p + 4) : ~Writes(B[j], o)
      PROVE  w[o] = v
  <2>1. k \in 1..n /\ o \in OutputNames
    BY <1>1, <1>2, <1>3
  <2>2. Writes(B[k], o) /\ B[k].outs[o] = v
    <3>1. Writes(Output(o, v), o) /\ Output(o, v).outs[o] = v
      BY WritesIs
    <3>2. QED
      BY <1>5, <3>1, Zenon
  <2>3. ASSUME NEW j \in (k + 1)..n PROVE ~Writes(B[j], o)
    <3>1. j \in (k + 1)..(p + 4) \/ j \in (p + 5)..n
      BY <1>1, <1>2
    <3>2. QED
      BY <1>4, <1>5, <3>1
  <2>4. QED
    BY <1>1, <2>1, <2>2, <2>3, Zenon DEF LastWritten
<1>6. w["servo_door"] = row.door
  <2>1. p + 4 \in (p + 2)..(p + 4) /\ \A j \in ((p + 4) + 1)..(p + 4) : FALSE
    BY <1>2
  <2>2. QED
    BY <1>2, <1>5, <2>1
<1>7. w["valve"] = row.valve
  <2>1. p + 3 \in (p + 2)..(p + 4) /\ \A j \in ((p + 3) + 1)..(p + 4) : j = p + 4
    BY <1>2
  <2>2. ~Writes(B[p + 4], "valve")
    BY <1>2, WritesIs
  <2>3. QED
    BY <1>2, <1>5, <2>1, <2>2
<1>8. w["pump"] = row.pump
  <2>1. p + 2 \in (p + 2)..(p + 4)
        /\ \A j \in ((p + 2) + 1)..(p + 4) : j = p + 3 \/ j = p + 4
    BY <1>2
  <2>2. ~Writes(B[p + 3], "pump") /\ ~Writes(B[p + 4], "pump")
    BY <1>2, WritesIs
  <2>3. QED
    BY <1>2, <1>5, <2>1, <2>2
<1>9. w[Laser] = "release"
  <2>1. ~(n + 1 > 1 /\ B[n] = PressOn)
    <3>1. n \in 1..n => ~(n + 2 <= n)
      BY <1>1
    <3>2. QED
      BY <1>1, <3>1 DEF LetsGo
  <2>2. ~(n + 1 > 2 /\ B[n - 1] = PressOn)
    <3>1. n + 1 > 2 => n - 1 \in 1..n /\ ~((n - 1) + 2 <= n)
      BY <1>1
    <3>2. QED
      BY <3>1 DEF LetsGo
  <2>3. QED
    BY <1>1, <2>1, <2>2 DEF LaserHeld
<1>10. QED
  BY <1>6, <1>7, <1>8, <1>9 DEF AsTheRow, OutputNames, Laser

-----------------------------------------------------------------------------
(* The inductive invariant of a generated job                              *)

AllVars(rows, cycles) ==
    ProbeVars(rows) \cup (IF cycles = 0 THEN {} ELSE {"_loop_i"})

InMain == Len(stack) = 1 /\ stack[1].block = "main" /\ stack[1].pc \in 1..4
InBody ==
    /\ Len(stack) = 2 /\ stack[1].block = "body" /\ stack[1].kind \in {"while", "for"}
    /\ stack[2].block = "main" /\ stack[2].pc = 3

(* Where the job is, and what it has defined.                              *)
EditorShape(rows, cycles) ==
    /\ phase \in {"next", "checked", "busy"}
    /\ phase = "busy" => Current.op \in Blocking \cup {"MOVE"}
    /\ phase = "busy" /\ Current.op = "MOVE" => leg = 1
    /\ defined \subseteq AllVars(rows, cycles)
    /\ InMain \/ InBody

LoopOver(rows, cycles) ==
    outputs = AsTheRow(rows[Len(rows)]) \/ (cycles = 0 /\ outputs = AtRestOutputs)

(* How the outputs of the simulator are.                                   *)
EditorOutputs(rows, cycles) ==
    ~mcu =>
        /\ outputs = [o \in OutputNames |-> outputs[o]]
        /\ Len(stack) = 1 /\ stack[1].pc <= 2 => outputs = AtRestOutputs
        /\ Len(stack) = 1 /\ stack[1].pc > 2 => LoopOver(rows, cycles)
        /\ Len(stack) = 2 => /\ LastWritten(Body(rows), stack[1].pc, outputs)
                             /\ LaserHeld(Body(rows), stack[1].pc, outputs)

EditorEnds(rows, cycles) ==
    /\ outcome \in {"program_error", "call_depth", "fault", "return"} =>
          mcu /\ Variables(rows, cycles) > MaxVars
    /\ outcome = "halt" /\ ~mcu => LoopOver(rows, cycles)

EditorInv(rows, cycles) ==
    /\ EditorShape(rows, cycles) /\ EditorOutputs(rows, cycles)
    /\ EditorEnds(rows, cycles)

-----------------------------------------------------------------------------
(* The code of a generated job                                             *)

LEMMA MainOK ==
    ASSUME NEW rows, NEW cycles \in Nat, NEW p, p = BuildProgram(rows, cycles)
    PROVE  /\ p.code["body"] = Body(rows) /\ Len(p.code["main"]) = 4
           /\ \A k \in 1..4 : /\ p.code["main"][k].needs = {}
                              /\ p.code["main"][k].path = <<{}>>
                              /\ p.code["main"][k].store = {}
                              /\ p.code["main"][k].outs = <<>>
           /\ p.code["main"][1].op = "HOME"
           /\ p.code["main"][2].op = (IF cycles = 0 THEN "LOOP_WHILE" ELSE "LOOP_FOR")
           /\ p.code["main"][2].body = "body"
           /\ cycles # 0 => p.code["main"][2].n = cycles
           /\ p.code["main"][3].op = "LOG" /\ p.code["main"][4].op = "HALT"
<1> DEFINE loop == IF cycles = 0
                   THEN [Instruction("LOOP_WHILE") EXCEPT !.body = "body"]
                   ELSE [Instruction("LOOP_FOR") EXCEPT !.body = "body", !.n = cycles]
           main == << Instruction("HOME"), loop, Instruction("LOG"), Instruction("HALT") >>
           code == [main |-> main, body |-> Body(rows)]
<1>1. p = [subs |-> {}, code |-> code]
  BY Zenon DEF BuildProgram
<1>2. ASSUME NEW op
      PROVE  /\ Instruction(op).op = op /\ Instruction(op).needs = {}
             /\ Instruction(op).path = <<{}>> /\ Instruction(op).store = {}
             /\ Instruction(op).outs = <<>>
  BY DEF Instruction
<1>3. /\ loop.needs = {} /\ loop.path = <<{}>> /\ loop.store = {} /\ loop.outs = <<>>
      /\ loop.op = (IF cycles = 0 THEN "LOOP_WHILE" ELSE "LOOP_FOR")
      /\ loop.body = "body" /\ (cycles # 0 => loop.n = cycles)
  <2>1. CASE cycles = 0
    BY <2>1 DEF Instruction
  <2>2. CASE cycles # 0
    <3>1. loop = [Instruction("LOOP_FOR") EXCEPT !.body = "body", !.n = cycles]
      BY <2>2
    <3> HIDE DEF loop
    <3>2. QED
      BY <2>2, <3>1 DEF Instruction
  <2>3. QED
    BY <2>1, <2>2
<1> HIDE DEF loop
<1>4. /\ main[1] = Instruction("HOME") /\ main[2] = loop /\ main[3] = Instruction("LOG")
      /\ main[4] = Instruction("HALT") /\ Len(main) = 4
  OBVIOUS
<1> HIDE DEF main
<1>5. p.code["main"] = main /\ p.code["body"] = Body(rows)
  BY <1>1
<1> HIDE DEF code
<1>6. \A k \in 1..4 : main[k].needs = {} /\ main[k].path = <<{}>> /\ main[k].store = {}
                    /\ main[k].outs = <<>>
  <2> DEFINE Plain(j) == j.needs = {} /\ j.path = <<{}>> /\ j.store = {} /\ j.outs = <<>>
  <2>1. Plain(main[1]) /\ Plain(main[2]) /\ Plain(main[3]) /\ Plain(main[4])
    <3>1. \A op : Plain(Instruction(op))
      BY <1>2
    <3>2. Plain(loop)
      BY <1>3
    <3> HIDE DEF Plain
    <3>3. QED
      BY <1>4, <3>1, <3>2, Zenon
  <2> HIDE DEF Plain
  <2>2. \A k \in 1..4 : Plain(main[k])
    BY <2>1
  <2>3. QED
    BY <2>2 DEF Plain
<1>7. /\ main[1].op = "HOME" /\ main[2].body = "body" /\ (cycles # 0 => main[2].n = cycles)
      /\ main[2].op = (IF cycles = 0 THEN "LOOP_WHILE" ELSE "LOOP_FOR")
      /\ main[3].op = "LOG" /\ main[4].op = "HALT"
  BY <1>2, <1>3, <1>4, Zenon
<1> DEFINE c == p.code["main"]
<1>8. c = main
  BY <1>5
<1> HIDE DEF c
<1>9. /\ Len(c) = 4 /\ c[1].op = "HOME" /\ c[2].body = "body"
      /\ c[3].op = "LOG" /\ c[4].op = "HALT" /\ (cycles # 0 => c[2].n = cycles)
      /\ c[2].op = (IF cycles = 0 THEN "LOOP_WHILE" ELSE "LOOP_FOR")
  BY <1>4, <1>7, <1>8, Zenon
<1>10. \A k \in 1..4 : c[k].needs = {} /\ c[k].path = <<{}>> /\ c[k].store = {}
                     /\ c[k].outs = <<>>
  BY <1>6, <1>8, Zenon
<1>11. QED
  BY <1>5, <1>9, <1>10, Zenon DEF c

(* A variable there is no place for is one of a job with too many.         *)
LEMMA VariablesOK ==
    ASSUME NEW rows \in Seq(Rows), NEW cycles \in Nat
    PROVE  /\ IsFiniteSet(AllVars(rows, cycles))
           /\ Variables(rows, cycles) \in Nat
           /\ Cardinality(AllVars(rows, cycles)) <= Variables(rows, cycles)
<1> DEFINE P == {k \in DOMAIN rows : rows[k].probe}
           Z == ProbeVars(rows)
           f == [i \in P |-> "z_wp" \o ToString(i)]
<1>1. IsFiniteSet(P) /\ Cardinality(P) \in Nat
  <2>1. DOMAIN rows = 1..Len(rows) /\ Len(rows) \in Nat
    OBVIOUS
  <2>2. IsFiniteSet(DOMAIN rows)
    BY <2>1, FS_Interval
  <2>3. IsFiniteSet(P)
    BY <2>2, FS_Subset
  <2>4. QED
    BY <2>3, FS_CardinalityType
<1>2. f \in Surjection(P, Z)
  BY DEF Surjection, ProbeVars
<1>3. IsFiniteSet(Z) /\ Cardinality(Z) <= Cardinality(P) /\ Cardinality(Z) \in Nat
  <2> HIDE DEF P, Z, f
  <2>1. IsFiniteSet(Z) /\ Cardinality(Z) <= Cardinality(P)
    BY <1>1, <1>2, FS_Surjection
  <2>2. QED
    BY <2>1, FS_CardinalityType
<1>4. Variables(rows, cycles) = Cardinality(P) + (IF cycles = 0 THEN 0 ELSE 1)
  BY DEF Variables
<1>5. /\ cycles = 0 => AllVars(rows, cycles) = Z
      /\ cycles # 0 => AllVars(rows, cycles) = Z \cup {"_loop_i"}
  BY DEF AllVars
<1> HIDE DEF P, Z, f
<1> DEFINE T == Z \cup {"_loop_i"}
<1>6. IsFiniteSet(T) /\ Cardinality(T) <= Cardinality(Z) + 1
  <2>1. IsFiniteSet(T)
    BY <1>3, FS_AddElement
  <2>2. "_loop_i" \in Z => T = Z
    OBVIOUS
  <2>3. "_loop_i" \notin Z => Cardinality(T) = Cardinality(Z) + 1
    BY <1>3, FS_AddElement
  <2> HIDE DEF T
  <2>4. "_loop_i" \in Z => Cardinality(T) <= Cardinality(Z) + 1
    BY <1>3, <2>2
  <2>5. "_loop_i" \notin Z => Cardinality(T) <= Cardinality(Z) + 1
    BY <1>3, <2>3
  <2>6. QED
    BY <2>1, <2>4, <2>5, Zenon
<1>7. CASE cycles = 0
  BY <1>1, <1>3, <1>4, <1>5, <1>7
<1>8. CASE cycles # 0
  <2>1. Cardinality(T) \in Nat
    BY <1>6, FS_CardinalityType
  <2>2. AllVars(rows, cycles) = T
    BY <1>5, <1>8
  <2> HIDE DEF T
  <2>3. Variables(rows, cycles) = Cardinality(P) + 1
    BY <1>4, <1>8
  <2>4. Cardinality(T) <= Cardinality(P) + 1 /\ Cardinality(P) + 1 \in Nat
    BY <1>1, <1>3, <1>6, <2>1
  <2>5. QED
    BY <1>6, <2>2, <2>3, <2>4, Zenon
<1>9. QED
  BY <1>7, <1>8

LEMMA FullMeansTooMany ==
    ASSUME NEW rows \in Seq(Rows), NEW cycles \in Nat,
           defined \subseteq AllVars(rows, cycles), NEW d,
           d \subseteq AllVars(rows, cycles), Full(d)
    PROVE  mcu /\ Variables(rows, cycles) > MaxVars
<1>1. mcu /\ Cardinality(defined \cup d) > MaxVars /\ MaxVars \in Nat
  BY InterpreterAssumption DEF InterpreterAssumption, Full
<1>2. defined \cup d \subseteq AllVars(rows, cycles)
  OBVIOUS
<1>3. /\ IsFiniteSet(AllVars(rows, cycles)) /\ Variables(rows, cycles) \in Nat
      /\ Cardinality(AllVars(rows, cycles)) <= Variables(rows, cycles)
  BY VariablesOK
<1>4. /\ Cardinality(defined \cup d) <= Cardinality(AllVars(rows, cycles))
      /\ IsFiniteSet(defined \cup d)
  BY <1>2, <1>3, FS_Subset
<1>5. Cardinality(defined \cup d) \in Nat /\ Cardinality(AllVars(rows, cycles)) \in Nat
  BY <1>3, <1>4, FS_CardinalityType
<1>6. QED
  BY <1>1, <1>3, <1>4, <1>5

-----------------------------------------------------------------------------
(* The stack of a generated job                                            *)

LEMMA WhereItIs ==
    ASSUME NEW rows \in Seq(Rows), rows # <<>>, NEW cycles \in Nat,
           prog = BuildProgram(rows, cycles), Nesting, EditorShape(rows, cycles)
    PROVE  /\ stack \in Seq(Frames) /\ Top = stack[1] /\ Top.pc \in Nat \ {0}
           /\ InMain => /\ Code = prog.code["main"] /\ ~AtEnd
                        /\ Top.kind = "main" /\ Len(Code) = 4
           /\ InBody => /\ Code = Body(rows) /\ Body(rows) \in Seq(Items(ProbeVars(rows)))
                        /\ Top.pc <= Len(Body(rows)) + 1
                        /\ ~AtEnd => /\ Current \in Items(ProbeVars(rows))
                                     /\ Current = Body(rows)[Top.pc]
                                     /\ Top.pc \in 1..Len(Body(rows))
                        /\ Top.kind \in {"while", "for"}
<1>1. stack \in Seq(Frames) /\ Top = stack[1] /\ Top.pc \in Nat \ {0}
      /\ Top.pc <= Len(Code) + 1 /\ Len(Code) \in Nat
  BY TopOK DEF Nesting, TypeOK, StackOK
<1>2. prog.code["body"] = Body(rows) /\ Len(prog.code["main"]) = 4
  BY MainOK
<1>3. ASSUME InMain
      PROVE  Code = prog.code["main"] /\ ~AtEnd /\ Top.kind = "main" /\ Len(Code) = 4
  <2>1. Code = prog.code["main"]
    BY <1>1, <1>3 DEF InMain, Code
  <2>2. Top.kind = "main"
    BY <1>1, <1>3 DEF InMain, Nesting, MainBelow
  <2>3. Len(Code) = 4
    BY <1>2, <2>1, Zenon
  <2>4. Top.pc \in 1..4
    BY <1>1, <1>3, Zenon DEF InMain
  <2>5. ~AtEnd
    BY <2>3, <2>4 DEF AtEnd
  <2>6. QED
    BY <2>1, <2>2, <2>3, <2>5
<1>4. ASSUME InBody
      PROVE  /\ Code = Body(rows) /\ Body(rows) \in Seq(Items(ProbeVars(rows)))
             /\ Top.pc <= Len(Body(rows)) + 1
             /\ ~AtEnd => /\ Current \in Items(ProbeVars(rows))
                          /\ Current = Body(rows)[Top.pc]
                          /\ Top.pc \in 1..Len(Body(rows))
             /\ Top.kind \in {"while", "for"}
  <2>1. Code = Body(rows)
    BY <1>1, <1>2, <1>4 DEF InBody, Code
  <2>2. Body(rows) \in Seq(Items(ProbeVars(rows)))
    BY BodyOK
  <2>3. ~AtEnd => Top.pc \in 1..Len(Body(rows))
    BY <1>1, <2>1 DEF AtEnd
  <2>4. Current = Body(rows)[Top.pc]
    BY <2>1 DEF Current
  <2>5. ~AtEnd => Current \in Items(ProbeVars(rows))
    BY <2>2, <2>3, <2>4
  <2>6. QED
    BY <1>1, <1>4, <2>1, <2>2, <2>3, <2>4, <2>5 DEF InBody
<1>5. QED
  BY <1>1, <1>3, <1>4

LEMMA StackAdvances ==
    ASSUME stack \in Seq(Frames), Len(stack) \in {1, 2}, stack' = Advanced
    PROVE  /\ Len(stack') = Len(stack)
           /\ stack'[1].pc = stack[1].pc + 1 /\ stack'[1].block = stack[1].block
           /\ stack'[1].kind = stack[1].kind
           /\ Len(stack) = 2 => stack'[2] = stack[2]
<1> DEFINE t == [Top EXCEPT !.pc = @ + 1]
<1>1. Top = stack[1] /\ stack[1] \in Frames
  BY DEF Top
<1>2. t.pc = stack[1].pc + 1 /\ t.block = stack[1].block /\ t.kind = stack[1].kind
  BY <1>1 DEF Frames
<1>3. stack' = <<t>> \o Tail(stack)
  BY DEF Advanced
<1> HIDE DEF t
<1>4. Len(stack') = Len(stack) /\ stack'[1] = t /\ (Len(stack) = 2 => stack'[2] = stack[2])
  BY <1>3
<1>5. QED
  BY <1>2, <1>4

LEMMA OneFrame ==
    ASSUME stack \in Seq(Frames), Len(stack) = 1
    PROVE  /\ Advanced \in Seq(Frames) /\ Len(Advanced) = 1
           /\ Advanced[1].pc = stack[1].pc + 1 /\ Advanced[1].block = stack[1].block
<1> DEFINE t == [Top EXCEPT !.pc = @ + 1]
<1>1. Top = stack[1] /\ stack[1] \in Frames
  BY DEF Top
<1>2. t \in Frames /\ t.pc = stack[1].pc + 1 /\ t.block = stack[1].block
  <2>1. Top.pc \in Nat \ {0} /\ Top.pc + 1 \in Nat \ {0}
    BY <1>1 DEF Frames
  <2>2. t \in Frames
    BY <1>1, <2>1 DEF Frames
  <2>3. QED
    BY <1>1, <2>2 DEF Frames
<1>3. Advanced = <<t>> \o Tail(stack)
  BY DEF Advanced
<1> HIDE DEF t
<1>4. Advanced \in Seq(Frames) /\ Len(Advanced) = 1 /\ Advanced[1] = t
  BY <1>2, <1>3
<1>5. QED
  BY <1>2, <1>4

LEMMA StackEnters ==
    ASSUME stack \in Seq(Frames), Len(stack) = 1, NEW f \in Frames, Push(f)
    PROVE  /\ Len(stack') = 2 /\ stack'[1] = f
           /\ stack'[2].pc = stack[1].pc + 1 /\ stack'[2].block = stack[1].block
<1> DEFINE u == Advanced
<1>1. /\ u \in Seq(Frames) /\ Len(u) = 1
      /\ u[1].pc = stack[1].pc + 1 /\ u[1].block = stack[1].block
  BY OneFrame
<1>2. stack' = <<f>> \o u
  BY DEF Push
<1> HIDE DEF u
<1>3. Len(stack') = 2 /\ stack'[1] = f /\ stack'[2] = u[1]
  BY <1>1, <1>2, Joined
<1>4. QED
  BY <1>1, <1>3

LEMMA StackPops ==
    ASSUME stack \in Seq(Frames), Len(stack) = 2, Pop
    PROVE  Len(stack') = 1 /\ stack'[1] = stack[2]
<1> DEFINE u == Tail(stack)
<1>1. Len(u) = 1 /\ u[1] = stack[2]
  OBVIOUS
<1>2. stack' = u
  BY DEF Pop
<1> HIDE DEF u
<1>3. QED
  BY <1>1, <1>2

LEMMA StackAgain ==
    ASSUME stack \in Seq(Frames), Len(stack) = 2, NEW iter, Again(iter)
    PROVE  /\ Len(stack') = 2 /\ stack'[2] = stack[2]
           /\ stack'[1].pc = 1 /\ stack'[1].block = stack[1].block
           /\ stack'[1].kind = stack[1].kind
<1> DEFINE t == [Top EXCEPT !.pc = 1, !.iter = iter]
<1>1. Top = stack[1] /\ stack[1] \in Frames
  BY DEF Top
<1>2. t.pc = 1 /\ t.block = stack[1].block /\ t.kind = stack[1].kind
  BY <1>1, Zenon DEF Frames
<1>3. stack' = <<t>> \o Tail(stack)
  BY DEF Again
<1> HIDE DEF t
<1>4. Len(stack') = 2 /\ stack'[1] = t /\ stack'[2] = stack[2]
  BY <1>3
<1>5. QED
  BY <1>2, <1>4

-----------------------------------------------------------------------------
(* The steps of a generated job                                            *)

(* A job that the editor generated is executed.                            *)
Generated(rows, cycles) ==
    /\ rows \in Seq(Rows) /\ rows # <<>> /\ cycles \in Nat
    /\ prog = BuildProgram(rows, cycles)
    /\ Nesting /\ EditorInv(rows, cycles)

LEMMA CurrentIs ==
    ASSUME NEW rows, NEW cycles, Generated(rows, cycles), ~AtEnd
    PROVE  /\ Current.needs = {} /\ Current.path = <<{}>>
           /\ Current.store \subseteq AllVars(rows, cycles)
           /\ Current.op \in {"LOG", "OUTPUT"} => Current.store = {}
           /\ InMain =>
                 /\ Current.op \in {"HOME", "LOOP_WHILE", "LOOP_FOR", "LOG", "HALT"}
                 /\ Current.outs = <<>>
                 /\ Top.pc = 1 <=> Current.op = "HOME"
                 /\ Top.pc = 2 <=> Current.op \in {"LOOP_WHILE", "LOOP_FOR"}
                 /\ Top.pc = 3 <=> Current.op = "LOG"
                 /\ Top.pc = 4 <=> Current.op = "HALT"
                 /\ Current.op \in {"LOOP_WHILE", "LOOP_FOR"} => Current.body = "body"
                 /\ Current.op = "LOOP_WHILE" => cycles = 0
                 /\ Current.op = "LOOP_FOR" => cycles # 0 /\ Current.n = cycles
           /\ InBody => Current.op \in {"MOVE", "PROBE_Z", "DELAY", "OUTPUT"}
<1>1. /\ rows \in Seq(Rows) /\ rows # <<>> /\ cycles \in Nat
      /\ prog = BuildProgram(rows, cycles)
      /\ Nesting /\ EditorShape(rows, cycles)
  BY DEF Generated, EditorInv
<1>2. InMain \/ InBody
  BY <1>1 DEF EditorShape
<1>3. InMain => InMain /\ Current = prog.code["main"][Top.pc] /\ Top.pc \in 1..4
  BY <1>1, WhereItIs DEF Current, InMain
<1>4. ~(InMain /\ InBody)
  BY DEF InMain, InBody
<1>5. CASE InMain
  <2> DEFINE c == prog.code["main"]
             k == Top.pc
  <2>8. \A j \in 1..4 : /\ c[j].needs = {} /\ c[j].path = <<{}>>
                        /\ c[j].store = {} /\ c[j].outs = <<>>
    BY <1>1, MainOK
  <2>9. /\ c[1].op = "HOME"
        /\ c[2].op = (IF cycles = 0 THEN "LOOP_WHILE" ELSE "LOOP_FOR")
        /\ c[3].op = "LOG" /\ c[4].op = "HALT"
    BY <1>1, MainOK
  <2>10. /\ c[2].body = "body"
         /\ cycles # 0 => c[2].n = cycles
    BY <1>1, MainOK
  <2>2. Current = c[k] /\ k \in 1..4
    BY <1>3, <1>5
  <2> HIDE DEF c, k
  <2>3. k = 1 \/ k = 2 \/ k = 3 \/ k = 4
    BY <2>2
  <2>4. Current.needs = {} /\ Current.path = <<{}>> /\ Current.store = {}
        /\ Current.outs = <<>>
    BY <2>8, <2>9, <2>10, <2>2
  <2>5. /\ Current.op \in {"HOME", "LOOP_WHILE", "LOOP_FOR", "LOG", "HALT"}
        /\ k = 1 <=> Current.op = "HOME"
        /\ k = 2 <=> Current.op \in {"LOOP_WHILE", "LOOP_FOR"}
        /\ k = 3 <=> Current.op = "LOG"
        /\ k = 4 <=> Current.op = "HALT"
    BY <2>8, <2>9, <2>10, <2>2, <2>3
  <2>6. /\ Current.op \in {"LOOP_WHILE", "LOOP_FOR"} => Current.body = "body"
        /\ Current.op = "LOOP_WHILE" => cycles = 0
        /\ Current.op = "LOOP_FOR" => cycles # 0 /\ Current.n = cycles
    BY <2>8, <2>9, <2>10, <2>2, <2>5
  <2>7. QED
    BY <1>4, <1>5, <2>4, <2>5, <2>6 DEF k
<1>6. CASE InBody
  <2>1. Current \in Items(ProbeVars(rows))
    BY <1>1, <1>6, WhereItIs
  <2>2. /\ Current.needs = {} /\ Current.path = <<{}>>
        /\ Current.store \subseteq ProbeVars(rows)
        /\ Current.op \in {"MOVE", "PROBE_Z", "DELAY", "OUTPUT"}
        /\ Current.op = "OUTPUT" => Current.store = {}
    BY <2>1, ItemOK
  <2>3. QED
    BY <1>4, <1>6, <2>2 DEF AllVars
<1>7. QED
  BY <1>2, <1>5, <1>6

(* The steps that leave the place, the variables and the outputs.          *)
LEMMA FrozenOK ==
    ASSUME NEW rows, NEW cycles, EditorInv(rows, cycles),
           UNCHANGED <<prog, mcu, stack, defined, outputs>>,
           phase' \in {"next", "checked", "busy"},
           phase' = "busy" => Current.op \in Blocking \cup {"MOVE"},
           phase' = "busy" /\ Current.op = "MOVE" => leg' = 1,
           EditorEnds(rows, cycles)'
    PROVE  EditorInv(rows, cycles)'
<1>1. EditorShape(rows, cycles)'
  BY DEF EditorInv, EditorShape, InMain, InBody, Current, Code, Top
<1>2. EditorOutputs(rows, cycles)'
  BY DEF EditorInv, EditorOutputs, LoopOver
<1>3. QED
  BY <1>1, <1>2 DEF EditorInv

(* No instruction of the editor's waits, calls, jumps, faults or reads a   *)
(* variable.                                                               *)
LEMMA NoneOfThese ==
    ASSUME NEW rows, NEW cycles, Generated(rows, cycles)
    PROVE  ~ \/ ReadUndefined \/ NextLeg \/ WaitBegins \/ WaitEnds \/ WaitTimesOut
             \/ If \/ Call \/ Return \/ FaultOp \/ Jump \/ EndBranch \/ EndMain
<1>1. /\ phase \in {"next", "checked", "busy"}
      /\ InMain \/ InBody
      /\ phase # "next" => ~AtEnd
  BY DEF Generated, EditorInv, EditorShape, Nesting, InCode
<1>2. ~AtEnd => /\ Current.needs = {}
               /\ Current.op \in {"HOME", "LOOP_WHILE", "LOOP_FOR", "LOG", "HALT",
                                  "MOVE", "PROBE_Z", "DELAY", "OUTPUT"}
  BY <1>1, CurrentIs
<1>3. phase = "checked" => /\ ~Undefined
                           /\ Current.op \notin {"WAIT", "IF", "CALL", "RETURN", "FAULT", "JUMP"}
  BY <1>1, <1>2 DEF Undefined
<1>4. ~(ReadUndefined \/ WaitBegins \/ If \/ Call \/ Return \/ FaultOp \/ Jump)
  BY <1>3, Zenon DEF ReadUndefined, WaitBegins, If, Call, Return, FaultOp, Jump, Exec, Fetch
<1>5. ~(NextLeg \/ WaitEnds \/ WaitTimesOut)
  BY <1>1 DEF NextLeg, WaitEnds, WaitTimesOut
<1>6. InMain => ~AtEnd
  BY WhereItIs DEF Generated, EditorInv
<1>7. InBody => Top.kind \in {"while", "for"}
  BY WhereItIs DEF Generated, EditorInv
<1>8. ~(EndBranch \/ EndMain)
  BY <1>1, <1>6, <1>7 DEF EndBranch, EndMain, Leave
<1>9. QED
  BY <1>4, <1>5, <1>8, Zenon

LEMMA FrozenSteps ==
    ASSUME NEW rows, NEW cycles, Generated(rows, cycles),
           \/ Check \/ Blocks \/ DoMove \/ BusyFails \/ Halt \/ SeeStop
           \/ SetPause \/ SetStop
    PROVE  EditorInv(rows, cycles)'
<1>1. /\ phase \in {"next", "checked", "busy"}
      /\ phase # "next" => ~AtEnd
      /\ phase = "busy" => Current.op \in Blocking \cup {"MOVE"}
      /\ phase = "busy" /\ Current.op = "MOVE" => leg = 1
      /\ EditorInv(rows, cycles) /\ EditorEnds(rows, cycles)
  BY DEF Generated, EditorInv, EditorShape, Nesting, InCode
<1>2. ~AtEnd => Current.path = <<{}>>
  BY CurrentIs
<1>3. UNCHANGED <<prog, mcu, stack, defined, outputs>>
  <2>1. CASE Check \/ Blocks \/ SetPause \/ SetStop
    BY <2>1 DEF Check, Blocks, SetPause, SetStop
  <2>2. CASE BusyFails \/ Halt \/ SeeStop
    BY <2>2 DEF BusyFails, Halt, SeeStop, Fault
  <2>3. CASE DoMove
    BY <2>3 DEF DoMove, StartLeg, Fault
  <2>4. QED
    BY <2>1, <2>2, <2>3
<1>4. /\ phase' \in {"next", "checked", "busy"}
      /\ phase' = "busy" => Current.op \in Blocking \cup {"MOVE"}
      /\ phase' = "busy" /\ Current.op = "MOVE" => leg' = 1
  <2>1. CASE Check
    BY <1>1, <2>1 DEF Check
  <2>2. CASE Blocks
    BY <1>1, <2>2 DEF Blocks, Exec, Fetch, Blocking
  <2>3. CASE DoMove
    <3>1. phase = "checked" /\ ~AtEnd /\ Current.path[1] = {}
      BY <1>1, <1>2, <2>3 DEF DoMove, Exec, Fetch
    <3>2. QED
      BY <2>3, <3>1 DEF DoMove, StartLeg, Exec, Fetch
  <2>4. CASE BusyFails \/ Halt \/ SeeStop \/ SetPause \/ SetStop
    BY <1>1, <2>4 DEF BusyFails, Halt, SeeStop, SetPause, SetStop, Exec, Fetch, Fault,
       control
  <2>5. QED
    BY <2>1, <2>2, <2>3, <2>4
<1>5. EditorEnds(rows, cycles)'
  <2>1. LoopOver(rows, cycles)' <=> LoopOver(rows, cycles)
    BY <1>3 DEF LoopOver
  <2>2. CASE outcome' = outcome
    BY <1>1, <1>3, <2>1, <2>2 DEF EditorEnds
  <2>3. CASE outcome' \in {"motion", "estop_triggered"}
    BY <2>3 DEF EditorEnds
  <2>4. CASE Halt
    <3>1. ~AtEnd /\ Current.op = "HALT" /\ outcome' = "halt"
      BY <1>1, <2>4 DEF Halt, Exec, Fetch, Fault
    <3>2. InMain \/ InBody
      BY DEF Generated, EditorInv, EditorShape
    <3>3. InMain /\ Top.pc = 4 /\ Top = stack[1]
      BY <3>1, <3>2, CurrentIs, WhereItIs DEF Generated, EditorInv
    <3>4. ~mcu => LoopOver(rows, cycles)
      BY <3>3 DEF Generated, EditorInv, EditorOutputs, InMain
    <3>5. QED
      BY <1>3, <2>1, <3>1, <3>4 DEF EditorEnds
  <2>5. ~Halt => outcome' = outcome \/ outcome' \in {"motion", "estop_triggered"}
    <3>1. CASE Check \/ Blocks \/ SetPause \/ SetStop
      BY <3>1 DEF Check, Blocks, SetPause, SetStop
    <3>2. CASE BusyFails \/ SeeStop
      BY <3>2 DEF BusyFails, SeeStop, Fault
    <3>3. CASE DoMove
      <4>1. phase = "checked" /\ ~AtEnd /\ Current.path[1] = {}
        BY <1>1, <1>2, <3>3 DEF DoMove, Exec, Fetch
      <4>2. QED
        BY <3>3, <4>1 DEF DoMove, StartLeg
    <3>4. QED
      BY <3>1, <3>2, <3>3
  <2>6. QED
    BY <2>2, <2>3, <2>4, <2>5
<1>6. QED
  BY <1>1, <1>3, <1>4, <1>5, FrozenOK

(* The firmware has no place for another variable.                         *)
LEMMA FullSteps ==
    ASSUME NEW rows, NEW cycles, Generated(rows, cycles), ~AtEnd,
           Full(Current.store), Fault("program_error")
    PROVE  EditorInv(rows, cycles)'
<1>1. /\ phase \in {"next", "checked", "busy"} /\ EditorInv(rows, cycles)
      /\ defined \subseteq AllVars(rows, cycles)
      /\ rows \in Seq(Rows) /\ cycles \in Nat
  BY DEF Generated, EditorInv, EditorShape
<1>2. /\ phase = "busy" => Current.op \in Blocking \cup {"MOVE"}
      /\ phase = "busy" /\ Current.op = "MOVE" => leg = 1
  BY DEF Generated, EditorInv, EditorShape
<1>3. mcu /\ Variables(rows, cycles) > MaxVars
  BY <1>1, CurrentIs, FullMeansTooMany
<1>4. UNCHANGED <<prog, mcu, stack, phase, leg, defined, outputs>>
      /\ outcome' = "program_error"
  BY DEF Fault
<1>5. EditorEnds(rows, cycles)'
  BY <1>3, <1>4 DEF EditorEnds
<1>6. QED
  BY <1>1, <1>2, <1>4, <1>5, FrozenOK

(* HOME and LOG.                                                           *)
LEMMA MainAdvances ==
    ASSUME NEW rows, NEW cycles, Generated(rows, cycles), InMain,
           stack' = Advanced, phase' = "next", Current.op \in {"HOME", "LOG"},
           UNCHANGED <<prog, mcu, outcome>>, outcome = "running",
           defined' \subseteq AllVars(rows, cycles), ~mcu => outputs' = outputs
    PROVE  EditorInv(rows, cycles)'
<1>1. ~AtEnd /\ Top = stack[1] /\ stack \in Seq(Frames)
  BY WhereItIs DEF Generated, EditorInv
<1>2. stack[1].pc \in {1, 3} /\ Len(stack) = 1
  BY <1>1, CurrentIs DEF InMain
<1>3. /\ Len(stack') = 1 /\ stack'[1].pc = stack[1].pc + 1
      /\ stack'[1].block = stack[1].block
  BY <1>1, <1>2, StackAdvances
<1>4. InMain'
  BY <1>2, <1>3 DEF InMain
<1>5. EditorShape(rows, cycles)'
  BY <1>4 DEF EditorShape
<1>6. EditorOutputs(rows, cycles)
  BY DEF Generated, EditorInv
<1>7. EditorOutputs(rows, cycles)'
  <2>1. SUFFICES ASSUME ~mcu PROVE EditorOutputs(rows, cycles)'
    BY DEF EditorOutputs
  <2>2. outputs' = outputs
    BY <2>1
  <2>3. stack[1].pc = 1 => outputs = AtRestOutputs
    BY <1>2, <1>6, <2>1 DEF EditorOutputs
  <2>4. stack[1].pc = 3 => LoopOver(rows, cycles)
    BY <1>2, <1>6, <2>1 DEF EditorOutputs
  <2>5. outputs = [o \in OutputNames |-> outputs[o]]
    BY <1>6, <2>1 DEF EditorOutputs
  <2>6. LoopOver(rows, cycles) => LoopOver(rows, cycles)'
    BY <2>2 DEF LoopOver
  <2>7. stack'[1].pc <= 2 => stack[1].pc = 1
    BY <1>2, <1>3
  <2>8. stack'[1].pc > 2 => stack[1].pc = 3
    BY <1>2, <1>3
  <2>9. Len(stack') # 2 /\ outputs' = [o \in OutputNames |-> outputs'[o]]
    BY <1>3, <2>2, <2>5
  <2>10. stack'[1].pc <= 2 => outputs' = AtRestOutputs
    BY <2>2, <2>3, <2>7
  <2>11. stack'[1].pc > 2 => LoopOver(rows, cycles)'
    BY <2>4, <2>6, <2>8
  <2>12. QED
    BY <2>9, <2>10, <2>11, Zenon DEF EditorOutputs
<1>8. EditorEnds(rows, cycles)'
  BY DEF EditorEnds
<1>9. QED
  BY <1>5, <1>7, <1>8 DEF EditorInv

(* An instruction of the body.                                             *)
LEMMA BodyAdvances ==
    ASSUME NEW rows, NEW cycles, Generated(rows, cycles), InBody, ~AtEnd,
           stack' = Advanced, phase' = "next",
           UNCHANGED <<prog, mcu, outcome>>, outcome = "running",
           defined' \subseteq AllVars(rows, cycles),
           ~mcu => /\ outputs' = [o \in OutputNames |-> outputs'[o]]
                   /\ \A o \in OutputNames :
                         /\ Writes(Current, o) => outputs'[o] = Current.outs[o]
                         /\ ~Writes(Current, o) => outputs'[o] = outputs[o]
    PROVE  EditorInv(rows, cycles)'
<1> DEFINE B == Body(rows)
           V == ProbeVars(rows)
           pc == stack[1].pc
<1>1. /\ rows \in Seq(Rows) /\ rows # <<>> /\ stack \in Seq(Frames)
      /\ EditorOutputs(rows, cycles)
      /\ Current = B[pc] /\ B \in Seq(Items(V)) /\ pc \in 1..Len(B)
  BY WhereItIs DEF Generated, EditorInv
<1>2. LetsGo(B)
  BY <1>1, BodyOK
<1>3. Len(stack) = 2
  BY DEF InBody
<1>4. /\ Len(stack') = 2 /\ stack'[1].pc = pc + 1 /\ stack'[1].block = stack[1].block
      /\ stack'[1].kind = stack[1].kind /\ stack'[2] = stack[2]
  BY <1>1, <1>3, StackAdvances
<1>5. InBody'
  BY <1>4 DEF InBody
<1>6. EditorShape(rows, cycles)'
  BY <1>5 DEF EditorShape
<1>7. EditorOutputs(rows, cycles)'
  <2>1. SUFFICES ASSUME ~mcu PROVE EditorOutputs(rows, cycles)'
    BY DEF EditorOutputs
  <2>2. LastWritten(B, pc, outputs) /\ LaserHeld(B, pc, outputs)
    BY <1>1, <1>3, <2>1 DEF EditorOutputs
  <2>3. \A o \in OutputNames : /\ Writes(B[pc], o) => outputs'[o] = B[pc].outs[o]
                               /\ ~Writes(B[pc], o) => outputs'[o] = outputs[o]
    BY <1>1, <2>1
  <2>4. outputs' = [o \in OutputNames |-> outputs'[o]]
    BY <2>1
  <2>5. LastWritten(B, pc + 1, outputs') /\ LaserHeld(B, pc + 1, outputs')
    <3> HIDE DEF B, V, pc
    <3>1. PICK w, x : w = outputs /\ x = outputs'
      BY Zenon
    <3>2. \A o \in OutputNames : /\ Writes(B[pc], o) => x[o] = B[pc].outs[o]
                                 /\ ~Writes(B[pc], o) => x[o] = w[o]
      BY <2>3, <3>1
    <3>3. LastWritten(B, pc, w) /\ LaserHeld(B, pc, w)
      BY <2>2, <3>1, Zenon
    <3>4. LastWritten(B, pc + 1, x) /\ LaserHeld(B, pc + 1, x)
      BY <1>1, <1>2, <3>2, <3>3, OneMoreWritten
    <3>5. QED
      BY <3>1, <3>4, Zenon
  <2>6. Len(stack') # 1
    BY <1>4
  <2>7. QED
    BY <1>4, <2>4, <2>5, <2>6, Zenon DEF EditorOutputs
<1>8. EditorEnds(rows, cycles)'
  BY DEF EditorEnds
<1>9. QED
  BY <1>6, <1>7, <1>8 DEF EditorInv

LEMMA SimpleStep ==
    ASSUME NEW rows, NEW cycles, Generated(rows, cycles), Simple
    PROVE  EditorInv(rows, cycles)'
<1>1. /\ ~AtEnd /\ outcome = "running" /\ phase = "checked"
      /\ Current.op \in {"OUTPUT", "READ_SENSOR", "SET_VAR", "LOG", "LABEL"}
      /\ InMain \/ InBody
      /\ EditorOutputs(rows, cycles) /\ defined \subseteq AllVars(rows, cycles)
  BY DEF Generated, EditorInv, EditorShape, Nesting, InCode, Simple, Exec, Fetch
<1>2. /\ InMain => Current.op = "LOG" /\ Current.outs = <<>>
      /\ InBody => Current.op = "OUTPUT"
      /\ Current.store \subseteq AllVars(rows, cycles)
  BY <1>1, CurrentIs
<1>3. ASSUME InBody
      PROVE  \E o, v : /\ o \in OutputNames /\ Current.outs = [y \in {o} |-> v]
                       /\ \A p : Writes(Current, p) <=> p = o
  <2>1. Current \in Items(ProbeVars(rows))
    BY <1>1, <1>3, WhereItIs DEF Generated, EditorInv
  <2>2. PICK o, v : o \in OutputNames /\ Current = Output(o, v)
    BY <1>2, <1>3, <2>1, ItemWrites
  <2>3. Output(o, v).outs = [y \in {o} |-> v] /\ \A p : Writes(Output(o, v), p) <=> p = o
    <3>1. \A p : Writes(Output(o, v), p) <=> p = o
      BY WritesIs
    <3>2. QED
      BY <3>1, OutputIs
  <2>4. QED
    BY <2>2, <2>3
<1>4. ~mcu => DOMAIN outputs = OutputNames
  BY <1>1 DEF EditorOutputs
<1>5. ~Unknown(Current.outs)
  <2>1. CASE InMain
    BY <1>2, <2>1 DEF Unknown
  <2>2. CASE InBody
    <3>1. PICK o, v : o \in OutputNames /\ Current.outs = [y \in {o} |-> v]
      BY <1>3, <2>2
    <3>2. DOMAIN Current.outs \subseteq OutputNames
      BY <3>1
    <3>3. QED
      BY <1>4, <3>2 DEF Unknown
  <2>3. QED
    BY <1>1, <2>1, <2>2
<1>6. CASE Full(Current.store)
  BY <1>1, <1>6, FullSteps DEF Simple
<1>7. CASE ~Full(Current.store)
  <2>1. Simply(Current.store, Current.outs)
    BY <1>5, <1>7 DEF Simple
  <2>2. /\ stack' = Advanced /\ phase' = "next"
        /\ UNCHANGED <<prog, mcu, outcome>> /\ defined' = defined \cup Current.store
    BY <2>1 DEF Simply
  <2>3. defined' \subseteq AllVars(rows, cycles)
    BY <1>1, <1>2, <2>2
  <2>4. ~mcu => outputs' = [o \in OutputNames |-> IF o \in DOMAIN Current.outs
                                                  THEN Current.outs[o] ELSE outputs[o]]
    BY <1>4, <2>1 DEF Simply, Written
  <2>5. CASE InMain
    <3>1. DOMAIN Current.outs = {}
      BY <1>2, <2>5
    <3>2. ~mcu => outputs' = [o \in OutputNames |-> outputs[o]]
      BY <2>4, <3>1
    <3>3. ~mcu => outputs = [o \in OutputNames |-> outputs[o]]
      BY <1>1 DEF EditorOutputs
    <3>4. QED
      BY <1>1, <1>2, <2>2, <2>3, <2>5, <3>2, <3>3, MainAdvances
  <2>6. CASE InBody
    <3>1. PICK o, v : /\ o \in OutputNames /\ Current.outs = [y \in {o} |-> v]
                      /\ \A p : Writes(Current, p) <=> p = o
      BY <1>3, <2>6
    <3>2. \A p : Writes(Current, p) <=> p \in DOMAIN Current.outs
      BY <3>1
    <3>3. ~mcu => /\ outputs' = [p \in OutputNames |-> outputs'[p]]
                  /\ \A p \in OutputNames :
                        /\ Writes(Current, p) => outputs'[p] = Current.outs[p]
                        /\ ~Writes(Current, p) => outputs'[p] = outputs[p]
      BY <2>4, <3>2
    <3>4. QED
      BY <1>1, <2>2, <2>3, <2>6, <3>3, BodyAdvances
  <2>7. QED
    BY <1>1, <2>5, <2>6
<1>8. QED
  BY <1>6, <1>7

LEMMA BusyDoneStep ==
    ASSUME NEW rows, NEW cycles, Generated(rows, cycles), BusyDone
    PROVE  EditorInv(rows, cycles)'
<1>1. /\ ~AtEnd /\ outcome = "running" /\ phase = "busy"
      /\ InMain \/ InBody
      /\ EditorOutputs(rows, cycles) /\ defined \subseteq AllVars(rows, cycles)
      /\ Current.op \in Blocking \cup {"MOVE"}
      /\ Current.op = "MOVE" => leg = 1
  BY DEF Generated, EditorInv, EditorShape, Nesting, InCode, BusyDone
<1>2. /\ InMain => Current.op = "HOME"
      /\ Current.store \subseteq AllVars(rows, cycles)
      /\ Current.path = <<{}>> /\ Current.op # "OUTPUT"
  BY <1>1, CurrentIs DEF Blocking
<1>3. ~(Current.op = "MOVE" /\ leg < Len(Current.path))
  BY <1>1, <1>2
<1>4. CASE Full(Current.store)
  BY <1>1, <1>3, <1>4, FullSteps DEF BusyDone
<1>5. CASE ~Full(Current.store)
  <2>1. /\ stack' = Advanced /\ phase' = "next" /\ outputs' = outputs
        /\ UNCHANGED <<prog, mcu, outcome>> /\ defined' = defined \cup Current.store
    BY <1>3, <1>5, Zenon DEF BusyDone
  <2>2. defined' \subseteq AllVars(rows, cycles)
    BY <1>1, <1>2, <2>1
  <2>3. CASE InMain
    BY <1>1, <1>2, <2>1, <2>2, <2>3, MainAdvances
  <2>4. CASE InBody
    <3>1. ~mcu => outputs = [o \in OutputNames |-> outputs[o]]
      BY <1>1 DEF EditorOutputs
    <3>2. \A o \in OutputNames : ~Writes(Current, o)
      BY <1>2 DEF Writes
    <3>3. ~mcu => /\ outputs' = [o \in OutputNames |-> outputs'[o]]
                  /\ \A o \in OutputNames :
                        /\ Writes(Current, o) => outputs'[o] = Current.outs[o]
                        /\ ~Writes(Current, o) => outputs'[o] = outputs[o]
      BY <2>1, <3>1, <3>2
    <3>4. QED
      BY <1>1, <2>1, <2>2, <2>4, <3>3, BodyAdvances
  <2>5. QED
    BY <1>1, <2>3, <2>4
<1>6. QED
  BY <1>4, <1>5

(* The laser button is released before the loop.                           *)
LEMMA LoopBegins ==
    ASSUME NEW rows, NEW cycles, Generated(rows, cycles), InMain,
           NEW kind \in {"while", "for"}, NEW f, Push(f), f \in Frames,
           f.kind = kind, f.block = "body", f.pc = 1,
           Current.op \in {"LOOP_WHILE", "LOOP_FOR"}, phase' = "next",
           UNCHANGED <<prog, mcu, outputs, outcome>>, outcome = "running",
           defined' \subseteq AllVars(rows, cycles)
    PROVE  EditorInv(rows, cycles)'
<1>1. /\ ~AtEnd /\ Top = stack[1] /\ stack \in Seq(Frames)
      /\ EditorOutputs(rows, cycles)
  BY WhereItIs DEF Generated, EditorInv
<1>2. stack[1].pc = 2 /\ Len(stack) = 1 /\ stack[1].block = "main"
  BY <1>1, CurrentIs DEF InMain
<1>3. /\ Len(stack') = 2 /\ stack'[1] = f
      /\ stack'[2].pc = stack[1].pc + 1 /\ stack'[2].block = stack[1].block
  BY <1>1, <1>2, StackEnters
<1>4. InBody'
  BY <1>2, <1>3 DEF InBody
<1>5. EditorShape(rows, cycles)'
  BY <1>4 DEF EditorShape
<1>6. EditorOutputs(rows, cycles)'
  <2>1. SUFFICES ASSUME ~mcu PROVE EditorOutputs(rows, cycles)'
    BY DEF EditorOutputs
  <2>2. /\ outputs' = [o \in OutputNames |-> outputs'[o]]
        /\ outputs' = AtRestOutputs
    BY <1>1, <1>2, <2>1 DEF EditorOutputs
  <2>3. LastWritten(Body(rows), 1, outputs')
    BY DEF LastWritten
  <2>4. LaserHeld(Body(rows), 1, outputs')
    BY <2>2 DEF LaserHeld, AtRestOutputs, Laser
  <2>5. stack'[1].pc = 1
    BY <1>3
  <2>6. Len(stack') # 1
    BY <1>3
  <2>7. QED
    BY <2>2, <2>3, <2>4, <2>5, <2>6, Zenon DEF EditorOutputs
<1>7. EditorEnds(rows, cycles)'
  BY DEF EditorEnds
<1>8. QED
  BY <1>5, <1>6, <1>7 DEF EditorInv

LEMMA LoopWhileStep ==
    ASSUME NEW rows, NEW cycles, Generated(rows, cycles), LoopWhile
    PROVE  EditorInv(rows, cycles)'
<1>1. /\ ~AtEnd /\ outcome = "running" /\ Current.op = "LOOP_WHILE"
      /\ InMain \/ InBody
      /\ EditorOutputs(rows, cycles) /\ defined \subseteq AllVars(rows, cycles)
      /\ Nesting /\ prog = BuildProgram(rows, cycles)
  BY DEF Generated, EditorInv, EditorShape, Nesting, InCode, LoopWhile, Exec, Fetch
<1>2. InMain /\ cycles = 0 /\ Current.body = "body"
  BY <1>1, CurrentIs
<1>3. /\ phase' = "next" /\ UNCHANGED <<prog, mcu, defined, outputs, outcome>>
  BY DEF LoopWhile
<1> DEFINE g == Frame("while", "body")
           f == [g EXCEPT !.count = MaxIter, !.when = Current.when]
<1>4. PICK b \in Current.when : IF b THEN Push(f) ELSE stack' = Advanced
  BY <1>2 DEF LoopWhile
<1>5. CASE b
  <2>1. Push(f)
    BY <1>4, <1>5
  <2>2. ValidInstruction(prog, Current)
    BY <1>1, CurrentOK DEF Nesting
  <2>3. "body" \in DOMAIN prog.code /\ Current.when \in SUBSET BOOLEAN
    BY <1>1, <1>2, <2>2 DEF ValidInstruction
  <2>4. "while" \in Kinds /\ MaxIter \in Nat /\ 0 \in Nat /\ BOOLEAN \in SUBSET BOOLEAN
        /\ g = NewFrame("while", "body", 0, BOOLEAN)
    BY InterpreterAssumption DEF InterpreterAssumption, Kinds, Frame, NewFrame
  <2>5. f = [g EXCEPT !.count = MaxIter, !.when = Current.when]
    OBVIOUS
  <2> HIDE DEF f, g
  <2>6. g \in Frames /\ g.pc = 1 /\ g.kind = "while" /\ g.block = "body"
    BY <2>3, <2>4, FrameOK DEF NewFrame
  <2>7. f.pc = 1 /\ f.kind = "while" /\ f.block = "body"
    BY <2>5, <2>6, Zenon DEF Frames
  <2>8. f \in Frames
    BY <2>3, <2>4, <2>5, <2>6, Zenon DEF Frames
  <2>9. QED
    BY <1>1, <1>2, <1>3, <2>1, <2>7, <2>8, LoopBegins
<1>6. CASE ~b
  <2>1. stack' = Advanced
    BY <1>4, <1>6
  <2>2. /\ Top = stack[1] /\ stack \in Seq(Frames)
    BY WhereItIs DEF Generated, EditorInv
  <2>3. stack[1].pc = 2 /\ Len(stack) = 1
    BY <1>1, <1>2, <2>2, CurrentIs DEF InMain
  <2>4. /\ Len(stack') = 1 /\ stack'[1].pc = 3
        /\ stack'[1].block = stack[1].block
    BY <2>1, <2>2, <2>3, StackAdvances
  <2>5. EditorShape(rows, cycles)'
    BY <1>1, <1>2, <1>3, <2>4 DEF EditorShape, InMain
  <2>6. EditorOutputs(rows, cycles)'
    <3>1. SUFFICES ASSUME ~mcu PROVE EditorOutputs(rows, cycles)'
      BY <1>3 DEF EditorOutputs
    <3>2. /\ outputs' = [o \in OutputNames |-> outputs'[o]]
          /\ outputs' = AtRestOutputs
      BY <1>1, <1>3, <2>3, <3>1 DEF EditorOutputs
    <3>3. LoopOver(rows, cycles)'
      BY <1>2, <3>2 DEF LoopOver
    <3>4. ~(stack'[1].pc <= 2) /\ Len(stack') # 2
      BY <2>4
    <3>5. QED
      BY <3>2, <3>3, <3>4, Zenon DEF EditorOutputs
  <2>7. EditorEnds(rows, cycles)'
    BY <1>1, <1>3 DEF EditorEnds
  <2>8. QED
    BY <2>5, <2>6, <2>7 DEF EditorInv
<1>7. QED
  BY <1>5, <1>6

LEMMA LoopForStep ==
    ASSUME NEW rows, NEW cycles, Generated(rows, cycles), LoopFor
    PROVE  EditorInv(rows, cycles)'
<1>1. /\ ~AtEnd /\ outcome = "running" /\ Current.op = "LOOP_FOR"
      /\ InMain \/ InBody
      /\ EditorOutputs(rows, cycles) /\ defined \subseteq AllVars(rows, cycles)
      /\ Nesting /\ prog = BuildProgram(rows, cycles) /\ cycles \in Nat
  BY DEF Generated, EditorInv, EditorShape, Nesting, InCode, LoopFor, Exec, Fetch
<1>2. InMain /\ cycles # 0 /\ Current.n = cycles /\ Current.body = "body"
  BY <1>1, CurrentIs
<1> DEFINE f == [Frame("for", "body") EXCEPT !.count = Current.n]
<1>3. /\ phase' = "next" /\ UNCHANGED <<prog, mcu, outputs, outcome>>
      /\ Push(f) /\ defined' \subseteq defined \cup {"_loop_i"}
  BY <1>1, <1>2 DEF LoopFor
<1>4. defined' \subseteq AllVars(rows, cycles)
  BY <1>1, <1>2, <1>3 DEF AllVars
<1>5. "body" \in DOMAIN prog.code
  BY <1>1, <1>2, CurrentOK DEF Nesting, ValidInstruction
<1>6. "for" \in Kinds /\ BOOLEAN \in SUBSET BOOLEAN
      /\ f = NewFrame("for", "body", Current.n, BOOLEAN)
  BY DEF Kinds, Frame, NewFrame
<1> HIDE DEF f
<1>7. f \in Frames /\ f.pc = 1 /\ f.kind = "for" /\ f.block = "body"
  BY <1>1, <1>2, <1>5, <1>6, FrameOK DEF NewFrame
<1>8. QED
  BY <1>1, <1>2, <1>3, <1>4, <1>7, LoopBegins

(* After an iteration the outputs are as the last row has them.            *)
LEMMA EndsStep ==
    ASSUME NEW rows, NEW cycles, Generated(rows, cycles), EndWhile \/ EndFor
    PROVE  EditorInv(rows, cycles)'
<1> DEFINE B == Body(rows)
           V == ProbeVars(rows)
           row == rows[Len(rows)]
<1>1. /\ AtEnd /\ outcome = "running" /\ phase = "next" /\ phase' = "next"
      /\ InMain \/ InBody
      /\ EditorOutputs(rows, cycles) /\ defined \subseteq AllVars(rows, cycles)
      /\ rows \in Seq(Rows) /\ rows # <<>>
      /\ UNCHANGED <<prog, mcu, defined, outputs>>
  BY DEF Generated, EditorInv, EditorShape, EndWhile, EndFor, Leave
<1>2. /\ InBody /\ stack \in Seq(Frames) /\ Top = stack[1]
      /\ B \in Seq(Items(V)) /\ Top.pc <= Len(B) + 1 /\ Top.pc \in Nat /\ Code = B
  BY <1>1, WhereItIs DEF Generated, EditorInv
<1>3. Len(stack) = 2 /\ stack[2].pc = 3 /\ stack[2].block = "main"
  BY <1>2 DEF InBody
<1>4. stack[1].pc = Len(B) + 1
  BY <1>1, <1>2 DEF AtEnd
<1>5. ~mcu => outputs = AsTheRow(row)
  <2>1. SUFFICES ASSUME ~mcu PROVE outputs = AsTheRow(row)
    OBVIOUS
  <2>2. LetsGo(B) /\ EndsAs(B, row)
    BY <1>1, BodyOK
  <2> DEFINE w == outputs
  <2>3. /\ w = [o \in OutputNames |-> w[o]]
        /\ LastWritten(B, Len(B) + 1, w) /\ LaserHeld(B, Len(B) + 1, w)
    BY <1>1, <1>3, <1>4, <2>1 DEF EditorOutputs
  <2> HIDE DEF w, B, V, row
  <2>4. w = AsTheRow(row)
    BY <1>2, <2>2, <2>3, AllWritten
  <2>5. QED
    BY <2>4 DEF w
<1>6. ~mcu => outputs' = [o \in OutputNames |-> outputs'[o]]
  BY <1>1 DEF EditorOutputs
<1>7. ASSUME Pop, outcome' = outcome PROVE EditorInv(rows, cycles)'
  <2>1. Len(stack') = 1 /\ stack'[1] = stack[2]
    BY <1>2, <1>3, <1>7, StackPops
  <2>2. EditorShape(rows, cycles)'
    BY <1>1, <1>3, <2>1 DEF EditorShape, InMain
  <2>3. EditorOutputs(rows, cycles)'
    <3>1. ~mcu => LoopOver(rows, cycles)'
      BY <1>1, <1>5 DEF LoopOver
    <3>2. stack'[1].pc = 3 /\ ~(stack'[1].pc <= 2) /\ Len(stack') # 2
      BY <1>3, <2>1
    <3>3. QED
      BY <1>1, <1>6, <3>1, <3>2, Zenon DEF EditorOutputs
  <2>4. EditorEnds(rows, cycles)'
    BY <1>1, <1>7 DEF EditorEnds
  <2>5. QED
    BY <2>2, <2>3, <2>4 DEF EditorInv
<1>8. ASSUME NEW iter, Again(iter) PROVE EditorInv(rows, cycles)'
  <2>1. /\ Len(stack') = 2 /\ stack'[2] = stack[2]
        /\ stack'[1].pc = 1 /\ stack'[1].block = stack[1].block
        /\ stack'[1].kind = stack[1].kind
    BY <1>2, <1>3, <1>8, StackAgain
  <2>2. EditorShape(rows, cycles)'
    BY <1>1, <1>2, <2>1 DEF EditorShape, InBody
  <2>3. EditorOutputs(rows, cycles)'
    <3>1. LastWritten(B, 1, outputs')
      BY DEF LastWritten
    <3>2. ~mcu => LaserHeld(B, 1, outputs')
      BY <1>1, <1>5 DEF LaserHeld, AsTheRow, Laser
    <3>3. Len(stack') # 1
      BY <2>1
    <3>4. QED
      BY <1>1, <1>6, <2>1, <3>1, <3>2, <3>3, Zenon DEF EditorOutputs
  <2>4. EditorEnds(rows, cycles)'
    BY <1>1, <1>8 DEF EditorEnds, Again
  <2>5. QED
    BY <2>2, <2>3, <2>4 DEF EditorInv
<1>9. CASE outcome' = "loop_overflow" /\ UNCHANGED stack
  <2>1. EditorEnds(rows, cycles)'
    BY <1>9 DEF EditorEnds
  <2>2. EditorInv(rows, cycles)
    BY DEF Generated
  <2>3. QED
    BY <1>1, <1>9, <2>1, <2>2, FrozenOK
<1>10. \/ Pop /\ outcome' = outcome
       \/ \E iter : Again(iter)
       \/ outcome' = "loop_overflow" /\ UNCHANGED stack
  <2>1. CASE EndWhile
    BY <2>1, Zenon DEF EndWhile
  <2>2. CASE EndFor
    BY <2>2, Zenon DEF EndFor
  <2>3. QED
    BY <2>1, <2>2
<1>11. QED
  BY <1>7, <1>8, <1>9, <1>10

LEMMA EditorStep ==
    ASSUME NEW rows, NEW cycles, Generated(rows, cycles), [Next]_vars
    PROVE  EditorInv(rows, cycles)'
<1>1. CASE UNCHANGED vars
  <2>1. EditorInv(rows, cycles)
    BY DEF Generated
  <2>2. QED
    BY <1>1, <2>1 DEF EditorInv, EditorShape, EditorOutputs, EditorEnds, LoopOver, InMain,
       InBody, Current, Code, Top
<1>2. CASE Next
  BY <1>2, FrozenSteps, NoneOfThese, SimpleStep, BusyDoneStep, LoopWhileStep, LoopForStep,
     EndsStep, Zenon DEF Next, Thread
<1>3. QED
  BY <1>1, <1>2

LEMMA EditorInit ==
    ASSUME NEW rows, NEW cycles, Init
    PROVE  EditorInv(rows, cycles)
<1>1. /\ Len(stack) = 1 /\ stack[1] = Frame("main", "main")
  BY DEF Init
<1>2. stack[1].block = "main" /\ stack[1].pc = 1
  BY <1>1 DEF Frame
<1>3. EditorShape(rows, cycles)
  BY <1>1, <1>2 DEF Init, EditorShape, InMain
<1>4. AtRestOutputs = [o \in OutputNames |-> AtRestOutputs[o]]
  BY DEF AtRestOutputs, OutputNames, Laser
<1>5. outputs = AtRestOutputs /\ outcome = "running"
  BY DEF Init
<1>6. EditorOutputs(rows, cycles)
  <2>1. ~(stack[1].pc > 2) /\ Len(stack) # 2
    BY <1>1, <1>2
  <2>2. QED
    BY <1>4, <1>5, <2>1, Zenon DEF EditorOutputs
<1>7. EditorEnds(rows, cycles)
  BY <1>5 DEF EditorEnds
<1>8. QED
  BY <1>3, <1>6, <1>7 DEF EditorInv

EditorJobsInv ==
    \A rows \in EditorRows, cycles \in Cycles :
        prog = BuildProgram(rows, cycles) => EditorInv(rows, cycles)

(* Whatever the table of waypoints and the number of cycles, as long as    *)
(* the program is the one that _build_program makes of them: the job does  *)
(* not fault for a reason of its own on the firmware while its variables   *)
(* fit, never on the simulator, and there one that comes to its end leaves *)
(* every output as the last row of the table has it (interpreter.py,       *)
(* Interpreter.cpp).                                                       *)
THEOREM EditorJobsHold == Spec => []EditorJobs
<1>1. Init => EditorJobsInv
  BY EditorInit DEF EditorJobsInv
<1>2. Nesting /\ EditorJobsInv /\ [Next]_vars => EditorJobsInv'
  <2>1. SUFFICES ASSUME Nesting, EditorJobsInv, [Next]_vars,
                        NEW rows \in EditorRows, NEW cycles \in Cycles,
                        prog' = BuildProgram(rows, cycles)
                 PROVE  EditorInv(rows, cycles)'
    BY DEF EditorJobsInv
  <2>2. prog' = prog
    BY <2>1, Zenon DEF Next, Thread, Check, ReadUndefined, Simple, Blocks, DoMove,
       NextLeg, StartLeg, BusyDone, BusyFails, WaitBegins, WaitEnds, WaitTimesOut, If,
       LoopWhile, LoopFor, Call, Return, Halt, FaultOp, Jump, EndMain, EndBranch,
       EndWhile, EndFor, SeeStop, SetPause, SetStop, Fault, Simply
  <2>3. Generated(rows, cycles)
    BY <2>1, <2>2, EditorAssumption DEF EditorAssumption, Generated, EditorJobsInv
  <2>4. QED
    BY <2>1, <2>3, EditorStep
<1>3. EditorJobsInv => EditorJobs
  BY Zenon DEF EditorJobsInv, EditorJobs, EditorInv, EditorEnds, LoopOver, AsTheRow
<1>4. QED
  BY <1>1, <1>2, <1>3, Invariance, PTL DEF Spec
-----------------------------------------------------------------------------
(* The interpreter as a job.  Where the thread is depends on the control   *)
(* variables and the outcome alone.                                        *)
LEMMA PhaseIs ==
    /\ outcome = "running" /\ Between => ThreadPhase = "next"
    /\ outcome = "running" /\ ~Between => ThreadPhase = "busy"
    /\ outcome \in {"halt", "estop_triggered"} => ThreadPhase = outcome
    /\ outcome \notin {"running", "halt", "estop_triggered"}
          => ThreadPhase = "program_error"
BY DEF ThreadPhase

LEMMA PhaseWillBe ==
    /\ outcome' = "running" => ThreadPhase' \in {"next", "busy"}
    /\ outcome' = "running" /\ Between' => ThreadPhase' = "next"
    /\ outcome' = "running" /\ ~Between' => ThreadPhase' = "busy"
    /\ outcome' \in {"halt", "estop_triggered"} => ThreadPhase' = outcome'
    /\ outcome' \notin {"running", "halt", "estop_triggered"}
          => ThreadPhase' = "program_error"
BY DEF ThreadPhase

(* The phases that are inside of an instruction.                           *)
LEMMA InsideIsBusy ==
    ASSUME outcome = "running",
           \/ phase \in {"busy", "leg", "wait"}
           \/ phase = "checked" /\ ~Ends
           \/ phase = "next" /\ AtEnd /\ Top.kind # "main"
    PROVE  ThreadPhase = "busy"
BY PhaseIs DEF Between

(* From inside of an instruction the job may go on or fail.                *)
LEMMA FromBusy ==
    ASSUME ThreadPhase = "busy", UNCHANGED events,
           outcome' \notin {"halt", "estop_triggered"}
    PROVE  AsJob!JobNext
<1> USE DEF AsJob!JobNext, AsJob!Execute, AsJob!Finish, AsJob!Fail, AsJob!Go,
        AsJob!Environment, events
<1>1. CASE outcome' = "running"
  BY <1>1, PhaseWillBe
<1>2. CASE outcome' # "running"
  BY <1>2, PhaseWillBe
<1>3. QED
  BY <1>1, <1>2

(* Every step of the interpreter is one that a job may take, or is not     *)
(* seen from outside.                                                      *)
LEMMA JobStep == [Next]_vars => [AsJob!JobNext]_(AsJob!jobVars)
<1> SUFFICES ASSUME [Next]_vars
             PROVE  AsJob!JobNext \/ UNCHANGED ThreadPhase
  BY DEF AsJob!JobNext, AsJob!Environment
<1>1. CASE Check
  <2>1. CASE phase' = "checked" /\ Ends
    <3>1. Ends' /\ Between /\ Between'
      BY <1>1, <2>1 DEF Check, Ends, Between, Undefined, Current, Code, Top,
         AtEnd, CallFrames
    <3>2. QED
      BY <1>1, <3>1, PhaseIs, PhaseWillBe DEF Check
  <2>2. CASE ~(phase' = "checked" /\ Ends)
    <3>1. Between /\ ~Between'
      BY <1>1, <2>2 DEF Check, Ends, Between, Undefined, Current, Code, Top,
         AtEnd, CallFrames
    <3>2. ThreadPhase = "next" /\ ThreadPhase' = "busy"
      BY <1>1, <3>1, PhaseIs, PhaseWillBe DEF Check
    <3>3. QED
      BY <1>1, <3>2 DEF Check, AsJob!JobNext, AsJob!Execute, AsJob!Begin,
         AsJob!Go
  <2>3. QED
    BY <2>1, <2>2
<1>2. CASE ReadUndefined \/ Simple \/ Blocks \/ DoMove \/ WaitBegins \/ If
            \/ LoopWhile \/ LoopFor \/ Call \/ FaultOp \/ Jump
  <2>1. /\ outcome = "running" /\ phase = "checked" /\ ~Ends
        /\ outcome' \notin {"halt", "estop_triggered"} /\ UNCHANGED events
    BY <1>2 DEF Ends, Fetch, Exec, ReadUndefined, Simple, Simply, Blocks,
       Blocking, DoMove, StartLeg, WaitBegins, If, LoopWhile, LoopFor, Call,
       FaultOp, Jump, Fault
  <2>2. QED
    BY <2>1, InsideIsBusy, FromBusy
<1>3. CASE NextLeg \/ BusyDone \/ BusyFails \/ WaitEnds \/ WaitTimesOut
  <2>1. /\ outcome = "running" /\ phase \in {"busy", "leg", "wait"}
        /\ outcome' \notin {"halt", "estop_triggered"} /\ UNCHANGED events
    BY <1>3 DEF NextLeg, StartLeg, BusyDone, BusyFails, WaitEnds, WaitTimesOut,
       Fault
  <2>2. QED
    BY <2>1, InsideIsBusy, FromBusy
<1>4. CASE EndBranch \/ EndWhile \/ EndFor
  <2>1. /\ outcome = "running" /\ phase = "next" /\ AtEnd /\ Top.kind # "main"
        /\ outcome' \notin {"halt", "estop_triggered"} /\ UNCHANGED events
    BY <1>4 DEF Leave, EndBranch, EndWhile, EndFor, Again
  <2>2. QED
    BY <2>1, InsideIsBusy, FromBusy
<1>5. CASE Halt \/ EndMain
  <2>1. outcome = "running" /\ Between /\ outcome' = "halt" /\ UNCHANGED events
    BY <1>5 DEF Halt, EndMain, Leave, Exec, Fetch, Fault, Between, Ends
  <2>2. QED
    BY <2>1, PhaseIs, PhaseWillBe
    DEF AsJob!JobNext, AsJob!Execute, AsJob!End, AsJob!Go, events
<1>6. CASE Return
  <2>1. CASE CallFrames = {} /\ ~mcu
    <3>1. outcome = "running" /\ Between /\ outcome' = "halt" /\ UNCHANGED events
      BY <1>6, <2>1 DEF Return, Exec, Fetch, Between, Ends
    <3>2. QED
      BY <3>1, PhaseIs, PhaseWillBe
      DEF AsJob!JobNext, AsJob!Execute, AsJob!End, AsJob!Go, events
  <2>2. CASE ~(CallFrames = {} /\ ~mcu)
    <3>1. /\ outcome = "running" /\ phase = "checked" /\ ~Ends
          /\ outcome' \notin {"halt", "estop_triggered"} /\ UNCHANGED events
      BY <1>6, <2>2 DEF Return, Exec, Fetch, Ends
    <3>2. QED
      BY <3>1, InsideIsBusy, FromBusy
  <2>3. QED
    BY <2>1, <2>2
<1>7. CASE SeeStop
  <2>1. /\ outcome = "running" /\ outcome' = "estop_triggered" /\ stop
        /\ UNCHANGED events
    BY <1>7 DEF SeeStop, Fault
  <2>2. ThreadPhase \in {"next", "busy"} /\ ThreadPhase' = "estop_triggered"
    BY <2>1, PhaseIs, PhaseWillBe
  <2>3. QED
    BY <2>1, <2>2
    DEF AsJob!JobNext, AsJob!Execute, AsJob!SeeStop, AsJob!Abort, AsJob!Go,
        events
<1>8. CASE SetPause \/ SetStop \/ UNCHANGED vars
  BY <1>8 DEF SetPause, SetStop, ThreadPhase, Between, Ends, Undefined, Current,
     Code, Top, AtEnd, CallFrames
<1>9. QED
  BY <1>1, <1>2, <1>3, <1>4, <1>5, <1>6, <1>7, <1>8 DEF Next, Thread

(* "Blocking. Raises ProgramFault on error, returns normally on HALT": for *)
(* every program, however deeply it loops, branches and calls, what the    *)
(* state machine sees of the thread is a job of Job.tla, looking at the    *)
(* events between its instructions (_check, _exec_body).                   *)
THEOREM ImplementsJobHolds == Spec => ImplementsJob
<1>1. Init => AsJob!JobInit
  <2> SUFFICES ASSUME Init
               PROVE  ThreadPhase = "next"
    BY DEF AsJob!JobInit
  <2>1. outcome = "running" /\ phase = "next" /\ Top.kind = "main"
    BY DEF Init, Top, Frame
  <2>2. QED
    BY <2>1, PhaseIs DEF Between
<1>2. QED
  BY <1>1, JobStep, PTL DEF Spec, ImplementsJob, AsJob!JobSpec

(* "Abort: stop_event.set()": once it is set no instruction begins and no  *)
(* leg of a move, a job never ends as stopped that was not, and what it    *)
(* ended with is final.                                                    *)
THEOREM StopIsObeyedHolds == Spec => AsJob!StopIsObeyed
<1>1. [AsJob!JobNext]_(AsJob!jobVars) =>
        [/\ ThreadPhase = "next" /\ ThreadPhase' = "busy" => ~stop
         /\ ThreadPhase # ThreadPhase' /\ ThreadPhase' = "estop_triggered" => stop
         /\ ThreadPhase \in AsJob!Ended
              => ThreadPhase' \in {ThreadPhase, "gone"}]_(AsJob!jobVars)
  BY DEF AsJob!JobNext, AsJob!Start, AsJob!Execute, AsJob!Begin,
     AsJob!SeeStop, AsJob!Abort, AsJob!Finish, AsJob!Fail, AsJob!End,
     AsJob!Report, AsJob!Environment, AsJob!Go, AsJob!Ended
<1>2. QED
  BY <1>1, ImplementsJobHolds, PTL
  DEF ImplementsJob, AsJob!JobSpec, AsJob!StopIsObeyed

-----------------------------------------------------------------------------
(* The firmware executes a job in the one thread there is: nobody sets or  *)
(* clears a flag while it does, and it is never stopped.                   *)
Undisturbed == mcu => ~stop /\ outcome # "estop_triggered"

HeldByPause ==
    mcu /\ pause =>
        /\ stack = <<Frame("main", "main")>> /\ phase = "next"
        /\ defined = {} /\ outputs = AtRestOutputs
        /\ outcome = "running" \/ (outcome = "halt" /\ Len(prog.code["main"]) = 0)

LEMMA HeldStep ==
    Nesting /\ Undisturbed /\ HeldByPause /\ [Next]_vars
        => Undisturbed' /\ HeldByPause'
<1> SUFFICES ASSUME Nesting, Undisturbed, HeldByPause, [Next]_vars
             PROVE  Undisturbed' /\ HeldByPause'
  OBVIOUS
<1>1. UNCHANGED job
  BY Zenon DEF Next, Thread, Check, ReadUndefined, Simple, Blocks, DoMove,
     NextLeg, StartLeg, BusyDone, BusyFails, WaitBegins, WaitEnds, WaitTimesOut, If,
     LoopWhile, LoopFor, Call, Return, Halt, FaultOp, Jump, EndMain, EndBranch,
     EndWhile, EndFor, SeeStop, SetPause, SetStop, Fault, Simply
<1>2. mcu => UNCHANGED events
  BY Zenon DEF Next, Thread, Check, ReadUndefined, Simple, Blocks, DoMove,
     NextLeg, StartLeg, BusyDone, BusyFails, WaitBegins, WaitEnds, WaitTimesOut, If,
     LoopWhile, LoopFor, Call, Return, Halt, FaultOp, Jump, EndMain, EndBranch,
     EndWhile, EndFor, SeeStop, SetPause, SetStop, Fault, Simply
<1>3. Undisturbed'
  BY <1>1, <1>2 DEF Undisturbed, Next, Thread, Check, ReadUndefined, Simple,
     Blocks, DoMove, NextLeg, StartLeg, BusyDone, BusyFails, WaitBegins,
     WaitEnds, WaitTimesOut, If, LoopWhile, LoopFor, Call, Return, Halt, FaultOp,
     Jump, EndMain, EndBranch, EndWhile, EndFor, Again, SeeStop, SetPause,
     SetStop, Fault, Simply
<1>4. HeldByPause'
  <2> SUFFICES ASSUME mcu, pause, ~stop, HeldByPause
               PROVE  HeldByPause'
    BY <1>1, <1>2 DEF HeldByPause, Undisturbed
  <2>1. phase = "next" /\ Top.kind = "main" /\ Top.block = "main" /\ Top.pc = 1
    BY DEF HeldByPause, Top, Frame
  <2>2. CASE EndMain
    <3>1. "main" \in DOMAIN prog.code /\ Len(prog.code["main"]) \in Nat
      BY InterpreterAssumption
      DEF InterpreterAssumption, Valid, Nesting, TypeOK
    <3>2. Len(prog.code["main"]) = 0
      BY <2>1, <2>2, <3>1 DEF EndMain, Leave, AtEnd, Code
    <3>3. QED
      BY <1>1, <2>2, <3>2 DEF EndMain, Leave, Fault, HeldByPause
  <2>3. CASE UNCHANGED vars
    BY <2>3 DEF HeldByPause
  <2>4. ~(Next /\ ~EndMain)
    BY <2>1 DEF Next, Thread, Check, ReadUndefined, Simple, Blocks, DoMove,
       NextLeg, BusyDone, BusyFails, WaitBegins, WaitEnds, WaitTimesOut, If,
       LoopWhile, LoopFor, Call, Return, Halt, FaultOp, Jump, EndBranch, EndWhile,
       EndFor, Leave, Exec, Fetch, SeeStop, SetPause, SetStop
  <2>5. QED
    BY <2>2, <2>3, <2>4
<1>5. QED
  BY <1>3, <1>4

(* On the firmware a pause flag that an earlier job left behind holds the  *)
(* next one ahead of its first instruction for ever: no output changes and *)
(* no fault is raised, and run() does not come back to loop(), which is    *)
(* the one place that could clear the flag (Interpreter::check).           *)
THEOREM PauseHoldsFirmware == Spec => []HeldByPause
<1>1. Init => Undisturbed /\ HeldByPause
  BY DEF Init, Undisturbed, HeldByPause
<1>2. QED
  BY <1>1, HeldStep, Invariance, PTL DEF Spec
=============================================================================
