----------------------------- MODULE PanelProofs -----------------------------
(***************************************************************************)
(* Proofs about Panel, for any settings and programs, any number of        *)
(* clicks, connections and moves of the machine, and lines of any length.  *)
(***************************************************************************)
EXTENDS Panel, TLAPS

(* The tuples of variables that the UNCHANGED clauses name.                *)
USE DEF vars, machineVars, stateVars, queryVars, windowVars, historyVars

-----------------------------------------------------------------------------
(* The inductive invariant                                                 *)

(* What a line or an answer may be about.                                  *)
AboutNothing(l) == l.cmd \in PlainCommands /\ l.arg = None
AboutProgram(l) == l.cmd = "load_program" /\ l.arg \in Programs
AboutSetting(l) == l.cmd = "get_param" /\ l.arg \in Settings
AboutSteps(l) == l.cmd = "set_cal_distance" /\ l.arg = "steps" /\ l.arg \in Settings
Sets(l) == l.arg \in Settings /\ l.cmd \in Setters(l.arg)

IsLine(l) ==
    \/ AboutNothing(l) \/ AboutProgram(l) \/ AboutSetting(l) \/ AboutSteps(l)
    \/ Sets(l) /\ l.to \in Nat \ {0}
IsReply(m) ==
    \/ AboutNothing(m) \/ AboutProgram(m) \/ AboutSteps(m)
    \/ AboutSetting(m) /\ m.to \in Nat
    \/ Sets(m) /\ m.to \in Nat
IsMessage(m) == m.type = "status" \/ (m.type = "ack" /\ IsReply(m))

Meant ==
    /\ \A k \in 1..Len(down) : IsLine(down[k])
    /\ \A k \in 1..Len(up) : IsMessage(up[k])

(* A message that carries the value of a setting, and one at which the     *)
(* windows display the value or ask for it.  A baseline of 0 does neither  *)
(* but in answer to a query.                                               *)
About(i, m) == m.type = "ack" /\ m.arg = i
Tells(i, m) == About(i, m) /\ (m.cmd = "get_param" \/ (i = "baseline" /\ m.to # 0))
Prompts(i, m) == About(i, m) /\ (i = "baseline" => m.to # 0)

(* The last value that is told is the value of the machine, unless the     *)
(* windows are about to ask again.                                         *)
LastIsTrue(i) ==
    \A k \in 1..Len(up) :
        /\ Tells(i, up[k])
        /\ \A j \in (k + 1)..Len(up) : ~Prompts(i, up[j])
        => up[k].to = value[i]

(* A line that leads to a message that prompts, if the value is not shown. *)
Leads(i, l) == l.arg = i /\ (i = "baseline" => l.cmd = "get_param")

(* A value that is not shown will be asked for, or told.                   *)
Asked(i) == \E k \in 1..Len(queries) : queries[k] = i
Led(i) == \E k \in 1..Len(down) : Leads(i, down[k])
Prompted(i) == \E k \in 1..Len(up) : Prompts(i, up[k])

Shown(i) ==
    connected /\ i \notin refused =>
        deferred \/ Asked(i) \/ Led(i) \/ Prompted(i) \/ shown[i] = value[i]

(* A baseline, once read, is never 0 again.                                *)
BaselineKnown ==
    "baseline" \in Settings /\ value["baseline"] = 0 =>
        /\ shown["baseline"] = 0
        /\ \A k \in 1..Len(up) : About("baseline", up[k]) => up[k].to = 0

IInv ==
    /\ TypeOK /\ Meant /\ BaselineKnown
    /\ \A i \in Confirmed : LastIsTrue(i) /\ Shown(i)

-----------------------------------------------------------------------------
(* What the two ends of a line do to it                                    *)

LEMMA Appended ==
    ASSUME NEW S, NEW s \in Seq(S), NEW e \in S
    PROVE  /\ Append(s, e) \in Seq(S)
           /\ Len(Append(s, e)) = Len(s) + 1 /\ Len(s) \in Nat
           /\ \A k \in 1..Len(s) : Append(s, e)[k] = s[k]
           /\ Append(s, e)[Len(s) + 1] = e
           /\ \A k \in 1..(Len(s) + 1) : k \in 1..Len(s) \/ k = Len(s) + 1
OBVIOUS

LEMMA HeadAndTail ==
    ASSUME NEW S, NEW s \in Seq(S), s # <<>>
    PROVE  /\ Len(s) \in Nat \ {0} /\ Head(s) = s[1] /\ Head(s) \in S
           /\ 1 \in 1..Len(s)
           /\ Tail(s) \in Seq(S) /\ Len(Tail(s)) = Len(s) - 1
           /\ \A k \in 1..Len(Tail(s)) : Tail(s)[k] = s[k + 1] /\ k + 1 \in 1..Len(s)
           /\ \A k \in 1..Len(s) : k = 1 \/ k - 1 \in 1..Len(Tail(s))
OBVIOUS

LEMMA Prefixes ==
    ASSUME NEW S, NEW s \in Seq(S), NEW n \in 0..Len(s)
    PROVE  /\ SubSeq(s, 1, n) \in Seq(S) /\ Len(SubSeq(s, 1, n)) = n
           /\ \A k \in 1..n : SubSeq(s, 1, n)[k] = s[k] /\ k \in 1..Len(s)
OBVIOUS

LEMMA Suffixes ==
    ASSUME NEW S, NEW s \in Seq(S), NEW n \in 0..Len(s)
    PROVE  /\ SubSeq(s, n + 1, Len(s)) \in Seq(S)
           /\ Len(SubSeq(s, n + 1, Len(s))) = Len(s) - n
           /\ \A k \in 1..(Len(s) - n) :
                 SubSeq(s, n + 1, Len(s))[k] = s[k + n] /\ k + n \in 1..Len(s)
OBVIOUS

(* The invariants of the lines, of a line that grows or shrinks.           *)
LEMMA SendMeant ==
    ASSUME TypeOK, Meant, NEW l \in Commands, IsLine(l), Send(l)
    PROVE  /\ down' \in Seq(Commands)
           /\ \A k \in 1..Len(down') : IsLine(down'[k])
<1>1. down \in Seq(Commands) /\ down' = Append(down, l)
  BY DEF TypeOK, LineOK, Send
<1>2. \A k \in 1..Len(down') : down'[k] = l \/ (k \in 1..Len(down) /\ down'[k] = down[k])
  BY <1>1, Appended
<1>3. QED
  BY <1>1, <1>2, Appended DEF Meant

LEMMA TakenMeant ==
    ASSUME TypeOK, Meant, down # <<>>
    PROVE  /\ Tail(down) \in Seq(Commands)
           /\ \A k \in 1..Len(Tail(down)) : IsLine(Tail(down)[k])
           /\ Head(down) \in Commands /\ IsLine(Head(down))
<1>1. down \in Seq(Commands)
  BY DEF TypeOK, LineOK
<1>2. QED
  BY <1>1, HeadAndTail DEF Meant

LEMMA ReplyMeant ==
    ASSUME TypeOK, Meant, NEW m \in Statuses \cup Replies, IsMessage(m),
           up' = Append(up, m)
    PROVE  /\ up' \in Seq(Statuses \cup Replies)
           /\ \A k \in 1..Len(up') : IsMessage(up'[k])
<1>1. up \in Seq(Statuses \cup Replies)
  BY DEF TypeOK, LineOK
<1>2. \A k \in 1..Len(up') : up'[k] = m \/ (k \in 1..Len(up) /\ up'[k] = up[k])
  BY <1>1, Appended
<1>3. QED
  BY <1>1, <1>2, Appended DEF Meant

LEMMA ReadMeant ==
    ASSUME TypeOK, Meant, up # <<>>
    PROVE  /\ Tail(up) \in Seq(Statuses \cup Replies)
           /\ \A k \in 1..Len(Tail(up)) : IsMessage(Tail(up)[k])
           /\ Head(up) \in Statuses \cup Replies /\ IsMessage(Head(up))
<1>1. up \in Seq(Statuses \cup Replies)
  BY DEF TypeOK, LineOK
<1>2. QED
  BY <1>1, HeadAndTail DEF Meant

-----------------------------------------------------------------------------
(* The commands                                                            *)

(* A command says what it is about.                                        *)
LEMMA SettersApart ==
    \A i \in AllSettings :
        /\ Setters(i) \cap (PlainCommands \cup
                     {"load_program", "get_param", "set_cal_distance"}) = {}
        /\ \A j \in AllSettings : j # i => Setters(i) \cap Setters(j) = {}
        /\ Setters(i) \subseteq Names
BY DEF AllSettings, Setters, PlainCommands, RunButtons, Names, Gated,
       ServiceButtons, CalButtons

LEMMA CommandsApart ==
    /\ PlainCommands \cap {"load_program", "get_param", "set_cal_distance"} = {}
    /\ PlainCommands \subseteq Names
    /\ {"load_program", "get_param", "set_cal_distance"} \subseteq Names
BY DEF PlainCommands, RunButtons, Names, Gated, CalButtons

LEMMA ArgumentsApart ==
    /\ None \notin Settings /\ None \notin Programs
    /\ Settings \cap Programs = {} /\ Settings \subseteq AllSettings
BY PanelAssumption DEF PanelAssumption, None, AllSettings

-----------------------------------------------------------------------------
(* What the groups of actions do                                           *)

(* Every click sends one line, and what is displayed ahead of the answer   *)
(* is what the line is about.                                              *)
ClickEffect(l) ==
    /\ l \in Commands /\ IsLine(l) /\ Send(l)
    /\ UNCHANGED <<machineVars, built, up, connected, runState, tabState, fresh,
                   loaded, estopLight, applyEnabled, queryVars, historyVars>>
    /\ events' \in 0..MaxEvents
    /\ calSteps' \in Nat
    /\ shown' \in [Settings -> Nat]
    /\ \A i \in Settings : shown'[i] = shown[i] \/ (l.arg = i /\ i # "baseline")

LEMMA ClicksSend ==
    ASSUME TypeOK, Meant, Clicks
    PROVE  \E l : ClickEffect(l)
<1>1. Event => events' \in 0..MaxEvents
  BY PanelAssumption DEF Event, TypeOK, WindowsOK, PanelAssumption
<1>2. ASSUME NEW c \in PlainCommands \ {"cal_jog", "cancel_calibration"}, Click(c)
      PROVE  ClickEffect(Line(c, None, 0))
  <2>1. Line(c, None, 0) \in Commands /\ IsLine(Line(c, None, 0))
    BY CommandsApart DEF Line, Commands, IsLine, AboutNothing
  <2>2. QED
    BY <1>1, <1>2, <2>1 DEF Click, ClickEffect, TypeOK, WindowsOK
<1>3. ASSUME NEW d \in {-1, 1}, ClickJog(d)
      PROVE  ClickEffect(Line("cal_jog", None, d))
  <2>1. Line("cal_jog", None, d) \in Commands /\ IsLine(Line("cal_jog", None, d))
    BY CommandsApart DEF Line, Commands, IsLine, AboutNothing, PlainCommands
  <2>2. QED
    BY <1>1, <1>3, <2>1 DEF ClickJog, ClickEffect, TypeOK, WindowsOK
<1>4. ASSUME ClickCancel
      PROVE  ClickEffect(Line("cancel_calibration", None, 0))
  <2>1. /\ Line("cancel_calibration", None, 0) \in Commands
        /\ IsLine(Line("cancel_calibration", None, 0))
    BY CommandsApart DEF Line, Commands, IsLine, AboutNothing, PlainCommands
  <2>2. QED
    BY <1>1, <1>4, <2>1 DEF ClickCancel, ClickEffect, TypeOK, WindowsOK
<1>5. ASSUME ClickApply
      PROVE  ClickEffect(Line("set_cal_distance", "steps", 0))
  <2>1. /\ Line("set_cal_distance", "steps", 0) \in Commands
        /\ IsLine(Line("set_cal_distance", "steps", 0))
    BY <1>5, CommandsApart DEF Line, Commands, IsLine, AboutSteps, ClickApply
  <2>2. QED
    BY <1>1, <1>5, <2>1 DEF ClickApply, ClickEffect, TypeOK, WindowsOK, Line
<1>6. ASSUME NEW i \in Settings, NEW v \in Values \ {0}, ClickSet(i, v)
      PROVE  \E l : ClickEffect(l)
  <2>1. PICK c \in Setters(i) : Send(Line(c, i, v))
    BY <1>6 DEF ClickSet
  <2>2. Line(c, i, v) \in Commands /\ IsLine(Line(c, i, v)) /\ Line(c, i, v).arg = i
    <3>1. c \in Names /\ v \in Nat \ {0}
      BY ArgumentsApart, SettersApart, PanelAssumption DEF Values, PanelAssumption
    <3>2. QED
      BY <3>1 DEF Line, Commands, IsLine, Sets
  <2>3. /\ shown' \in [Settings -> Nat]
        /\ \A j \in Settings : shown'[j] = shown[j] \/ (j = i /\ i # "baseline")
    BY <1>6, PanelAssumption
       DEF ClickSet, Ahead, TypeOK, WindowsOK, Values, PanelAssumption
  <2>4. ClickEffect(Line(c, i, v))
    BY <1>1, <1>6, <2>1, <2>2, <2>3 DEF ClickSet, ClickEffect, TypeOK, WindowsOK
  <2>5. QED
    BY <2>4
<1>7. ASSUME NEW p \in Programs, PickFile(p)
      PROVE  ClickEffect(Line("load_program", p, 0))
  <2>1. Line("load_program", p, 0) \in Commands /\ IsLine(Line("load_program", p, 0))
    BY CommandsApart DEF Line, Commands, IsLine, AboutProgram
  <2>2. QED
    BY <1>1, <1>7, <2>1 DEF PickFile, ClickEffect, TypeOK, WindowsOK
<1>8. QED
  BY <1>2, <1>3, <1>4, <1>5, <1>6, <1>7, Zenon DEF Clicks, Upload

(* Every handler takes one line, and answers it, or refuses it.  A setting *)
(* that it changes is the one that the answer is about.                    *)
RefuseEffect ==
    /\ UNCHANGED <<machineVars, up>>
    /\ refused' \subseteq Settings /\ refused \subseteq refused'
    /\ Head(down).cmd # "get_param"
    /\ \A i \in Settings : Head(down).arg = i => i \in refused'

ReplyEffect(m) ==
    /\ m \in Replies /\ IsMessage(m) /\ up' = Append(up, m)
    /\ UNCHANGED refused
    /\ MachineOK'
    /\ m.type = "ack" /\ m.cmd = Head(down).cmd /\ m.arg = Head(down).arg
    /\ \A i \in Settings :
          /\ \/ value'[i] = value[i]
             \/ m.arg = i /\ (i = "baseline" => m.to # 0)
          /\ value'[i] = 0 => value[i] = 0 \/ i # "baseline"
          /\ Tells(i, m) => m.to = value'[i]

HandlerEffect ==
    /\ down # <<>> /\ down' = Tail(down)
    /\ UNCHANGED <<built, windowVars, reconnected, events, estopHw>>
    /\ RefuseEffect \/ \E m : ReplyEffect(m)

(* A reply to a line of the same subject is a message.                     *)
LEMMA RepliesMeant ==
    ASSUME TypeOK, Meant, down # <<>>, NEW v \in Int,
           v \in Nat \/ AboutNothing(Head(down)) \/ AboutProgram(Head(down))
               \/ AboutSteps(Head(down)),
           NEW m, m = [type |-> "ack", cmd |-> Head(down).cmd,
                       arg |-> Head(down).arg, to |-> v]
    PROVE  m \in Replies /\ IsMessage(m)
<1>1. Head(down) \in Commands /\ IsLine(Head(down))
  BY TakenMeant
<1>2. m \in Replies
  BY <1>1 DEF Commands, Replies
<1>3. IsReply(m)
  BY <1>1 DEF IsLine, IsReply, AboutNothing, AboutProgram, AboutSteps,
              AboutSetting, Sets, Commands
<1>4. QED
  BY <1>2, <1>3 DEF IsMessage

LEMMA HandlersReply ==
    ASSUME TypeOK, Meant, Handlers
    PROVE  HandlerEffect
<1> DEFINE l == Head(down)
<1> DEFINE M(v) == [type |-> "ack", cmd |-> l.cmd, arg |-> l.arg, to |-> v]
<1>0. /\ down # <<>> /\ down' = Tail(down)
      /\ UNCHANGED <<built, windowVars, reconnected, events, estopHw>>
  BY DEF Handlers, HandlePlain, HandleLoad, HandleSet, HandleDistance, HandleGet,
         Refuse, TakeForRepeated, Take
<1>1. l \in Commands /\ IsLine(l) /\ l.to \in Int
  BY <1>0, TakenMeant DEF Commands
<1>2. MachineOK
  BY DEF TypeOK
<1>3. CASE HandlePlain
  <2>1. l.cmd \in PlainCommands /\ AboutNothing(l)
    BY <1>1, <1>3, ArgumentsApart, SettersApart, CommandsApart
       DEF HandlePlain, Take, IsLine, AboutProgram, AboutSetting, AboutSteps, Sets
  <2>2. l.arg = None /\ l.arg \notin Settings /\ l.cmd # "get_param"
    BY <2>1, ArgumentsApart, CommandsApart DEF AboutNothing
  <2>3. M(0) \in Replies /\ IsMessage(M(0))
    BY <1>0, RepliesMeant
  <2>4. up' = Append(up, M(0)) /\ UNCHANGED <<stored, value, refused>>
    BY <1>3, <2>2 DEF HandlePlain, Reply
  <2>5. MachineOK'
    BY <1>1, <1>2, <1>3, <2>4
       DEF HandlePlain, MachineOK, After, JogAfter, States
  <2>6. ReplyEffect(M(0))
    BY <2>2, <2>3, <2>4, <2>5 DEF ReplyEffect, Tells, About
  <2>7. QED
    BY <1>0, <2>6 DEF HandlerEffect
<1>4. CASE HandleLoad
  <2>1. l.cmd = "load_program" /\ l.arg \in Valid /\ l.arg \in Programs
    BY <1>4, PanelAssumption DEF HandleLoad, Take, PanelAssumption
  <2>2. AboutProgram(l) /\ l.arg \notin Settings
    BY <2>1, ArgumentsApart DEF AboutProgram
  <2>3. M(l.to) \in Replies /\ IsMessage(M(l.to))
    BY <1>0, <1>1, <2>2, RepliesMeant
  <2>4. up' = Append(up, M(l.to)) /\ UNCHANGED <<state, value, jogged, refused>>
    BY <1>4, <2>1 DEF HandleLoad, Reply
  <2>5. MachineOK'
    BY <1>2, <1>4, <2>1, <2>4 DEF HandleLoad, MachineOK
  <2>6. ReplyEffect(M(l.to))
    BY <2>2, <2>3, <2>4, <2>5 DEF ReplyEffect, Tells, About
  <2>7. QED
    BY <1>0, <2>6 DEF HandlerEffect
<1>5. CASE HandleSet
  <2>1. PICK i \in Settings : l.cmd \in Setters(i)
    BY <1>5 DEF HandleSet, Take
  <2>2. /\ l.arg \in Settings /\ l.to \in Nat \ {0} /\ l.cmd # "get_param"
    BY <1>1, <2>1, ArgumentsApart, SettersApart
       DEF IsLine, AboutNothing, AboutProgram, AboutSetting, AboutSteps, Sets
  <2>3. M(l.to) \in Replies /\ IsMessage(M(l.to))
    BY <1>0, <1>1, <2>2, RepliesMeant
  <2>4. /\ up' = Append(up, M(l.to)) /\ UNCHANGED <<state, stored, jogged, refused>>
        /\ value' = [value EXCEPT ![l.arg] = l.to]
    BY <1>5 DEF HandleSet, Reply
  <2>5. /\ MachineOK' /\ value'[l.arg] = l.to
        /\ \A j \in Settings : j # l.arg => value'[j] = value[j]
    BY <1>2, <2>2, <2>4 DEF MachineOK
  <2>6. ReplyEffect(M(l.to))
    BY <2>2, <2>3, <2>4, <2>5 DEF ReplyEffect, Tells, About
  <2>7. QED
    BY <1>0, <2>6 DEF HandlerEffect
<1>6. CASE HandleDistance
  <2>1. l.cmd = "set_cal_distance"
    BY <1>6 DEF HandleDistance, Take
  <2>2. l.arg = "steps" /\ "steps" \in Settings /\ AboutSteps(l)
    BY <1>1, <2>1, ArgumentsApart, SettersApart, CommandsApart
       DEF IsLine, AboutNothing, AboutProgram, AboutSetting, AboutSteps, Sets
  <2>3. M(0) \in Replies /\ IsMessage(M(0))
    BY <1>0, RepliesMeant
  <2>4. /\ up' = Append(up, M(0)) /\ UNCHANGED <<stored, refused>>
        /\ value' = [value EXCEPT !["steps"] = Abs(jogged)]
        /\ jogged' = 0 /\ state' = "IDLE"
    BY <1>6, <2>1, <2>2 DEF HandleDistance, Reply
  <2>5. Abs(jogged) \in Nat
    BY <1>2 DEF MachineOK, Abs
  <2>6. /\ MachineOK'
        /\ \A j \in Settings : j # "steps" => value'[j] = value[j]
    BY <1>2, <2>2, <2>4, <2>5 DEF MachineOK, States
  <2>7. ReplyEffect(M(0))
    BY <2>1, <2>2, <2>3, <2>4, <2>6 DEF ReplyEffect, Tells, About
  <2>8. QED
    BY <1>0, <2>7 DEF HandlerEffect
<1>7. CASE HandleGet
  <2>1. l.cmd = "get_param"
    BY <1>7 DEF HandleGet, Take
  <2>2. l.arg \in Settings /\ value[l.arg] \in Nat
    BY <1>1, <1>2, <2>1, ArgumentsApart, SettersApart, CommandsApart
       DEF IsLine, AboutNothing, AboutProgram, AboutSetting, AboutSteps, Sets,
           MachineOK
  <2>3. M(value[l.arg]) \in Replies /\ IsMessage(M(value[l.arg]))
    BY <1>0, <2>2, RepliesMeant
  <2>4. up' = Append(up, M(value[l.arg])) /\ UNCHANGED <<machineVars, refused>>
    BY <1>7, <2>1 DEF HandleGet, Reply
  <2>5. MachineOK'
    BY <1>2, <2>4 DEF MachineOK
  <2>6. ReplyEffect(M(value[l.arg]))
    BY <2>2, <2>3, <2>4, <2>5 DEF ReplyEffect, Tells, About
  <2>7. QED
    BY <1>0, <2>6 DEF HandlerEffect
<1>8. CASE Refuse
  <2>1. /\ \/ ~Accepts(l.cmd)
           \/ l.cmd = "load_program"
        /\ refused' = IF l.arg \in Settings THEN refused \cup {l.arg} ELSE refused
        /\ UNCHANGED <<machineVars, up>>
    BY <1>8 DEF Refuse
  <2>2. l.cmd # "get_param"
    BY <2>1 DEF Accepts
  <2>3. RefuseEffect
    BY <2>1, <2>2 DEF RefuseEffect, TypeOK, WindowsOK
  <2>4. QED
    BY <1>0, <2>3 DEF HandlerEffect
<1>9. CASE TakeForRepeated
  <2>1. M(0) \in Replies /\ IsMessage(M(0))
    BY <1>0, RepliesMeant
  <2>2. /\ up' = Append(up, M(0)) /\ UNCHANGED <<machineVars, refused>>
        /\ l.cmd # "get_param"
    BY <1>9 DEF TakeForRepeated, Reply
  <2>3. MachineOK'
    BY <1>2, <2>2 DEF MachineOK
  <2>4. ReplyEffect(M(0))
    BY <2>1, <2>2, <2>3 DEF ReplyEffect, Tells, About
  <2>5. QED
    BY <1>0, <2>4 DEF HandlerEffect
<1>10. QED
  BY <1>3, <1>4, <1>5, <1>6, <1>7, <1>8, <1>9, Zenon DEF Handlers

-----------------------------------------------------------------------------
(* Types, and what lines and answers are about                             *)

LEMMA InitHolds == Init => IInv
<1> USE PanelAssumption DEF PanelAssumption
<1> SUFFICES ASSUME Init
             PROVE  IInv
  OBVIOUS
<1>1. FlagsOK
  BY Zenon DEF Init, FlagsOK
<1>2. MachineOK /\ WindowsOK /\ LineOK
  BY DEF Init, MachineOK, WindowsOK, LineOK, States
<1>3. Meant
  BY DEF Init, Meant
<1>4. BaselineKnown
  BY DEF Init, BaselineKnown
<1>5. ASSUME NEW i \in Confirmed
      PROVE  LastIsTrue(i) /\ Shown(i)
  BY DEF Init, LastIsTrue, Shown
<1>6. QED
  BY <1>1, <1>2, <1>3, <1>4, <1>5 DEF IInv, TypeOK

(* A message that a window reads.                                          *)
LEMMA ReceiveOK ==
    ASSUME TypeOK, Meant, NEW type \in {"status", "ack"}, Receive(type)
    PROVE  /\ connected /\ up # <<>> /\ up' = Tail(up)
           /\ up' \in Seq(Statuses \cup Replies)
           /\ \A k \in 1..Len(up') : IsMessage(up'[k])
           /\ IsMessage(Head(up)) /\ Head(up).type = type
           /\ type = "status" => Head(up) \in Statuses
           /\ type = "ack" => Head(up) \in Replies
<1>1. connected /\ up # <<>> /\ up' = Tail(up) /\ Head(up).type = type
  BY Zenon DEF Receive
<1>2. /\ Tail(up) \in Seq(Statuses \cup Replies)
      /\ \A k \in 1..Len(Tail(up)) : IsMessage(Tail(up)[k])
      /\ Head(up) \in Statuses \cup Replies /\ IsMessage(Head(up))
  BY <1>1, ReadMeant
<1>3. type = "status" => Head(up) \in Statuses
  BY <1>1, <1>2 DEF Replies
<1>4. type = "ack" => Head(up) \in Replies
  BY <1>1, <1>2 DEF Statuses
<1>5. QED
  BY <1>1, <1>2, <1>3, <1>4

(* A query that is sent.                                                   *)
LEMMA AskOK ==
    ASSUME NEW i \in Settings
    PROVE  Ask(i) \in Commands /\ IsLine(Ask(i)) /\ Ask(i).arg = i
           /\ Ask(i).cmd = "get_param"
BY CommandsApart DEF Ask, Line, Commands, IsLine, AboutSetting

LEMMA TypeStep == TypeOK /\ Meant /\ [Next]_vars => TypeOK' /\ Meant'
<1> USE DEF TypeOK
<1> SUFFICES ASSUME TypeOK, Meant, [Next]_vars
             PROVE  TypeOK' /\ Meant'
  OBVIOUS
<1>1. CASE Clicks
  <2>1. PICK l : ClickEffect(l)
    BY <1>1, ClicksSend
  <2>2. FlagsOK'
    BY <2>1, Zenon DEF FlagsOK, ClickEffect
  <2>3. MachineOK' /\ WindowsOK'
    BY <2>1 DEF MachineOK, WindowsOK, ClickEffect
  <2>4. LineOK' /\ Meant'
    BY <2>1, SendMeant DEF LineOK, Meant, ClickEffect
  <2>5. QED
    BY <2>2, <2>3, <2>4
<1>2. CASE Handlers
  <2>1. HandlerEffect
    BY <1>2, HandlersReply
  <2>2. FlagsOK'
    BY <2>1, Zenon DEF FlagsOK, HandlerEffect
  <2>3. down' \in Seq(Commands) /\ \A k \in 1..Len(down') : IsLine(down'[k])
    BY <2>1, TakenMeant DEF HandlerEffect
  <2>4. CASE RefuseEffect
    <3>1. MachineOK' /\ WindowsOK'
      BY <2>1, <2>4 DEF MachineOK, WindowsOK, HandlerEffect, RefuseEffect
    <3>2. LineOK' /\ Meant'
      BY <2>1, <2>3, <2>4 DEF LineOK, Meant, HandlerEffect, RefuseEffect
    <3>3. QED
      BY <2>2, <3>1, <3>2
  <2>5. ASSUME NEW m, ReplyEffect(m)
        PROVE  TypeOK' /\ Meant'
    <3>1. MachineOK' /\ WindowsOK'
      BY <2>1, <2>5 DEF WindowsOK, HandlerEffect, ReplyEffect
    <3>2. LineOK' /\ Meant'
      BY <2>1, <2>3, <2>5, ReplyMeant DEF LineOK, Meant, HandlerEffect, ReplyEffect
    <3>3. QED
      BY <2>2, <3>1, <3>2
  <2>6. QED
    BY <2>1, <2>4, <2>5, Zenon DEF HandlerEffect
<1>3. CASE Connect
  <2>1. FlagsOK'
    BY <1>3, Zenon DEF FlagsOK, Connect
  <2>2. MachineOK' /\ WindowsOK' /\ LineOK' /\ Meant'
    BY <1>3 DEF MachineOK, WindowsOK, LineOK, Meant, Connect
  <2>3. QED
    BY <2>1, <2>2
<1>4. CASE Disconnect
  <2>1. FlagsOK'
    BY <1>4, Zenon DEF FlagsOK, Disconnect
  <2>2. MachineOK' /\ WindowsOK'
    BY <1>4, PanelAssumption
       DEF MachineOK, WindowsOK, Disconnect, Event, PanelAssumption
  <2>3. PICK n \in 0..Len(down) : down' = SubSeq(down, 1, n)
    BY <1>4 DEF Disconnect
  <2>4. PICK d \in 0..Len(up) : up' = SubSeq(up, d + 1, Len(up))
    BY <1>4 DEF Disconnect
  <2>5. down' \in Seq(Commands) /\ \A k \in 1..Len(down') : IsLine(down'[k])
    BY <2>3, Prefixes DEF LineOK, Meant
  <2>6. /\ up' \in Seq(Statuses \cup Replies)
        /\ \A k \in 1..Len(up') : IsMessage(up'[k])
    BY <2>4, Suffixes DEF LineOK, Meant
  <2>7. LineOK' /\ Meant'
    BY <1>4, <2>5, <2>6 DEF LineOK, Meant, Disconnect
  <2>8. QED
    BY <2>1, <2>2, <2>7
<1>5. CASE FlushInitialQueries
  <2>1. FlagsOK'
    BY <1>5, Zenon DEF FlagsOK, FlushInitialQueries
  <2>2. MachineOK' /\ WindowsOK' /\ LineOK' /\ Meant'
    BY <1>5, InitialAssumption
       DEF MachineOK, WindowsOK, LineOK, Meant, FlushInitialQueries,
           InitialAssumption
  <2>3. QED
    BY <2>1, <2>2
<1>6. CASE DrainQueryQueue
  <2>1. FlagsOK'
    BY <1>6, Zenon DEF FlagsOK, DrainQueryQueue
  <2>2. Head(queries) \in Settings /\ Tail(queries) \in Seq(Settings)
    BY <1>6, HeadAndTail DEF WindowsOK, DrainQueryQueue
  <2>3. MachineOK' /\ WindowsOK'
    BY <1>6, <2>2 DEF MachineOK, WindowsOK, DrainQueryQueue
  <2>4. LineOK' /\ Meant'
    BY <1>6, <2>2, AskOK, SendMeant DEF LineOK, Meant, DrainQueryQueue
  <2>5. QED
    BY <2>1, <2>3, <2>4
<1>7. CASE OnStatus
  <2>1. /\ up' \in Seq(Statuses \cup Replies) /\ Head(up) \in Statuses
        /\ \A k \in 1..Len(up') : IsMessage(up'[k])
    BY <1>7, ReceiveOK DEF OnStatus
  <2>2. Head(up).loaded \in BOOLEAN /\ Head(up).held \in BOOLEAN
    BY <2>1, Zenon DEF Statuses
  <2>3. FlagsOK'
    BY <1>7, <2>2, Zenon DEF FlagsOK, OnStatus, RunOnStatus, CalOnStatus
  <2>4. Head(up).state \in States /\ Head(up).steps \in Nat
    BY <2>1 DEF Statuses
  <2>5. MachineOK' /\ WindowsOK'
    BY <1>7, <2>4, InitialAssumption
       DEF MachineOK, WindowsOK, OnStatus, RunOnStatus, CalOnStatus, SvcOnStatus,
           InitialAssumption
  <2>6. LineOK' /\ Meant'
    BY <1>7, <2>1 DEF LineOK, Meant, OnStatus
  <2>7. QED
    BY <2>3, <2>5, <2>6
<1>8. CASE OnAckPlain \/ OnAckLoad
  <2>1. /\ up' \in Seq(Statuses \cup Replies)
        /\ \A k \in 1..Len(up') : IsMessage(up'[k])
    BY <1>8, ReceiveOK DEF OnAckPlain, OnAckLoad
  <2>2. FlagsOK'
    BY <1>8, Zenon DEF FlagsOK, OnAckPlain, OnAckLoad
  <2>3. MachineOK' /\ WindowsOK'
    BY <1>8 DEF MachineOK, WindowsOK, OnAckPlain, OnAckLoad, Forced, States
  <2>4. LineOK' /\ Meant'
    BY <1>8, <2>1 DEF LineOK, Meant, OnAckPlain, OnAckLoad
  <2>5. QED
    BY <2>2, <2>3, <2>4
<1>9. CASE OnAnswer
  <2>1. /\ up' \in Seq(Statuses \cup Replies) /\ Head(up) \in Replies
        /\ \A k \in 1..Len(up') : IsMessage(up'[k])
        /\ IsReply(Head(up))
    BY <1>9, ReceiveOK DEF OnAnswer, IsMessage
  <2>2. FlagsOK'
    BY <1>9, Zenon DEF FlagsOK, OnAnswer
  <2>3. Head(up).arg \in Settings /\ Head(up).to \in Nat
    BY <1>9, <2>1, CommandsApart, ArgumentsApart, SettersApart
       DEF OnAnswer, IsReply, AboutNothing, AboutProgram, AboutSteps,
           AboutSetting, Sets
  <2>4. MachineOK' /\ WindowsOK'
    BY <1>9, <2>3 DEF MachineOK, WindowsOK, OnAnswer, Display
  <2>5. LineOK' /\ Meant'
    BY <1>9, <2>1 DEF LineOK, Meant, OnAnswer
  <2>6. QED
    BY <2>2, <2>4, <2>5
<1>10. CASE OnAckSet
  <2>1. /\ up' \in Seq(Statuses \cup Replies) /\ Head(up) \in Replies
        /\ \A k \in 1..Len(up') : IsMessage(up'[k])
        /\ IsReply(Head(up))
    BY <1>10, ReceiveOK DEF OnAckSet, IsMessage
  <2>2. FlagsOK'
    BY <1>10, Zenon DEF FlagsOK, OnAckSet
  <2>3. /\ Head(up).arg \in Settings
        /\ Head(up).arg = "baseline" => Head(up).to \in Nat
    BY <1>10, <2>1 DEF OnAckSet, IsReply, AboutNothing, AboutProgram, AboutSteps,
                       AboutSetting, Sets
  <2>4. MachineOK' /\ WindowsOK'
    BY <1>10, <2>3, Appended DEF MachineOK, WindowsOK, OnAckSet, Display
  <2>5. down' \in Seq(Commands) /\ \A k \in 1..Len(down') : IsLine(down'[k])
    <3>1. CASE down' = down
      BY <3>1 DEF LineOK, Meant
    <3>2. CASE Send(Ask(Head(up).arg))
      BY <2>3, <3>2, AskOK, SendMeant
    <3>3. QED
      BY <1>10, <3>1, <3>2 DEF OnAckSet, Send
  <2>6. LineOK' /\ Meant'
    BY <1>10, <2>1, <2>5 DEF LineOK, Meant, OnAckSet
  <2>7. QED
    BY <2>2, <2>4, <2>6
<1>11. CASE BuildStatus
  <2>1. FlagsOK'
    BY <1>11, Zenon DEF FlagsOK, BuildStatus
  <2> DEFINE has == stored # NoProgram
             steps == IF state = "CALIBRATING" THEN Abs(jogged) ELSE 0
  <2>2. has \in BOOLEAN
    BY Zenon
  <2>3. steps \in Nat /\ state \in States
    BY DEF MachineOK, Abs
  <2>4. built' = [type |-> "status", state |-> state, loaded |-> has,
                  held |-> estopHw, steps |-> steps]
    BY <1>11, Zenon DEF BuildStatus
  <2> HIDE DEF has, steps
  <2>5. built' \in Statuses
    BY <2>2, <2>3, <2>4, Zenon DEF Statuses, FlagsOK
  <2>6. MachineOK' /\ WindowsOK' /\ LineOK' /\ Meant'
    BY <1>11, <2>5 DEF MachineOK, WindowsOK, LineOK, Meant, BuildStatus
  <2>7. QED
    BY <2>1, <2>6
<1>12. CASE SendStatus
  <2>1. FlagsOK'
    BY <1>12, Zenon DEF FlagsOK, SendStatus
  <2>2. built \in Statuses \cup Replies /\ IsMessage(built)
    BY <1>12 DEF SendStatus, LineOK, Statuses, IsMessage
  <2>3. /\ up' \in Seq(Statuses \cup Replies)
        /\ \A k \in 1..Len(up') : IsMessage(up'[k])
    BY <1>12, <2>2, ReplyMeant DEF SendStatus
  <2>4. MachineOK' /\ WindowsOK' /\ LineOK' /\ Meant'
    BY <1>12, <2>3 DEF MachineOK, WindowsOK, LineOK, Meant, SendStatus
  <2>5. QED
    BY <2>1, <2>4
<1>13. CASE Move \/ Fault \/ Estop
  <2>1. FlagsOK'
    BY <1>13, Zenon DEF FlagsOK, Move, Fault, Estop
  <2>2. events' \in 0..MaxEvents
    BY <1>13, PanelAssumption
       DEF Move, Fault, Estop, Event, PanelAssumption, WindowsOK
  <2>c. state' \in States
    <3>1. CASE Move \/ Fault
      BY <3>1 DEF Move, Fault, Moves, States
    <3>2. CASE Estop
      <4>1. state' = "ESTOPPED" \/ state' = "IDLE" \/ state' = state
        BY <3>2, Zenon DEF Estop
      <4>2. QED
        BY <4>1 DEF MachineOK, States
    <3>3. QED
      BY <1>13, <3>1, <3>2
  <2>3. MachineOK' /\ WindowsOK' /\ LineOK' /\ Meant'
    BY <1>13, <2>2, <2>c DEF MachineOK, WindowsOK, LineOK, Meant, Move, Fault, Estop
  <2>4. QED
    BY <2>1, <2>3
<1>14. CASE UNCHANGED vars
  <2>1. FlagsOK'
    BY <1>14, Zenon DEF FlagsOK
  <2>2. MachineOK' /\ WindowsOK' /\ LineOK' /\ Meant'
    BY <1>14 DEF MachineOK, WindowsOK, LineOK, Meant
  <2>3. QED
    BY <2>1, <2>2
<1>15. QED
  BY <1>1, <1>2, <1>3, <1>4, <1>5, <1>6, <1>7, <1>8, <1>9, <1>10, <1>11, <1>12,
     <1>13, <1>14, Zenon DEF Next, Queries, Messages

-----------------------------------------------------------------------------
(* The baseline                                                            *)

LEMMA BaselineStep ==
    TypeOK /\ Meant /\ BaselineKnown /\ [Next]_vars => BaselineKnown'
<1> SUFFICES ASSUME TypeOK, Meant, BaselineKnown, [Next]_vars,
                    "baseline" \in Settings, value'["baseline"] = 0
             PROVE  /\ shown'["baseline"] = 0
                    /\ \A k \in 1..Len(up') :
                          About("baseline", up'[k]) => up'[k].to = 0
  BY DEF BaselineKnown, About
<1> DEFINE b == "baseline"
<1>0. up \in Seq(Statuses \cup Replies)
  BY DEF TypeOK, LineOK
<1>1. CASE Handlers
  <2>1. HandlerEffect
    BY <1>1, HandlersReply
  <2>2. CASE RefuseEffect
    BY <2>1, <2>2 DEF HandlerEffect, RefuseEffect, BaselineKnown
  <2>3. ASSUME NEW m, ReplyEffect(m)
        PROVE  /\ value[b] = 0 /\ shown'[b] = 0
               /\ \A k \in 1..Len(up') : About(b, up'[k]) => up'[k].to = 0
    <3>1. value[b] = 0 /\ shown'[b] = 0
      BY <2>1, <2>3 DEF HandlerEffect, ReplyEffect, BaselineKnown
    <3>2. About(b, m) => m.to = 0
      BY <2>3 DEF ReplyEffect, Tells
    <3>3. \A k \in 1..Len(up') : up'[k] = m \/ (k \in 1..Len(up) /\ up'[k] = up[k])
      BY <1>0, <2>3, Appended DEF ReplyEffect
    <3>4. QED
      BY <3>1, <3>2, <3>3 DEF BaselineKnown
  <2>4. QED
    BY <2>1, <2>2, <2>3 DEF HandlerEffect
<1>2. CASE ~Handlers
  <2>1. value' = value
    <3>1. Clicks => value' = value
      BY ClicksSend DEF ClickEffect
    <3>2. QED
      BY <1>2, <3>1 DEF Next, Connect, Disconnect, Queries, FlushInitialQueries,
         DrainQueryQueue, Messages, OnStatus, OnAckPlain, OnAckLoad, OnAnswer,
         OnAckSet, BuildStatus, SendStatus, Move, Fault, Estop
  <2>2. /\ shown[b] = 0
        /\ \A k \in 1..Len(up) : About(b, up[k]) => up[k].to = 0
    BY <2>1 DEF BaselineKnown
  <2>3. CASE Clicks
    <3>1. PICK l : ClickEffect(l)
      BY <2>3, ClicksSend
    <3>2. QED
      BY <2>2, <3>1 DEF ClickEffect
  <2>4. CASE Messages
    <3>1. up # <<>> /\ up' = Tail(up)
      BY <2>4 DEF Messages, OnStatus, OnAckPlain, OnAckLoad, OnAnswer, OnAckSet,
         Receive
    <3>2. \A k \in 1..Len(up') : k + 1 \in 1..Len(up) /\ up'[k] = up[k + 1]
      BY <1>0, <3>1, HeadAndTail
    <3>3. Head(up) = up[1] /\ 1 \in 1..Len(up)
      BY <1>0, <3>1, HeadAndTail
    <3>4. Receive("ack") /\ Head(up).arg = b => Head(up).to = 0
      BY <2>2, <3>3 DEF Receive, About
    <3>5. shown'[b] = 0
      BY <2>2, <2>4, <3>4
         DEF Messages, OnStatus, OnAckPlain, OnAckLoad, OnAnswer, OnAckSet,
             SvcOnStatus, Display, TypeOK, WindowsOK
    <3>6. QED
      BY <2>2, <3>2, <3>5
  <2>5. CASE Disconnect
    <3>1. PICK d \in 0..Len(up) : up' = SubSeq(up, d + 1, Len(up))
      BY <2>5 DEF Disconnect
    <3>2. \A k \in 1..Len(up') : k + d \in 1..Len(up) /\ up'[k] = up[k + d]
      BY <1>0, <3>1, Suffixes
    <3>3. QED
      BY <2>2, <2>5, <3>2 DEF Disconnect
  <2>6. CASE SendStatus
    <3>1. up' = Append(up, built) /\ built \in Statuses /\ shown' = shown
      BY <2>6 DEF SendStatus, TypeOK, LineOK
    <3>2. ~About(b, built)
      BY <3>1 DEF About, Statuses
    <3>3. \A k \in 1..Len(up') : up'[k] = built \/ (k \in 1..Len(up) /\ up'[k] = up[k])
      BY <1>0, <3>1, Appended
    <3>4. QED
      BY <2>2, <3>1, <3>2, <3>3
  <2>7. CASE Connect \/ Queries \/ BuildStatus \/ Move \/ Fault \/ Estop \/ UNCHANGED vars
    BY <2>2, <2>7 DEF Connect, Queries, FlushInitialQueries, DrainQueryQueue,
       BuildStatus, Move, Fault, Estop
  <2>8. QED
    BY <1>2, <2>3, <2>4, <2>5, <2>6, <2>7, Zenon DEF Next
<1>3. QED
  BY <1>1, <1>2

-----------------------------------------------------------------------------
(* The last value that is told is true                                     *)

(* r is s without its first d elements.                                    *)
Without(r, s, d) ==
    /\ Len(r) = Len(s) - d
    /\ \A k \in 1..Len(r) : r[k] = s[k + d] /\ k + d \in 1..Len(s)

LEMMA RestIsTrue ==
    ASSUME TypeOK, NEW i, LastIsTrue(i), NEW d \in Nat, Without(up', up, d),
           value'[i] = value[i]
    PROVE  LastIsTrue(i)'
<1>1. SUFFICES ASSUME NEW k \in 1..Len(up'), Tells(i, up[k])',
                      \A j \in (k + 1)..Len(up') : ~Prompts(i, up'[j])
               PROVE  up'[k].to = value'[i]
  BY DEF LastIsTrue, Prompts, About
<1>2. k + d \in 1..Len(up) /\ up'[k] = up[k + d] /\ Len(up') = Len(up) - d
      /\ Len(up) \in Nat
  BY DEF Without, TypeOK, LineOK
<1>3. Tells(i, up[k + d])
  BY <1>1, <1>2 DEF Tells, About
<1>4. ASSUME NEW j \in (k + d + 1)..Len(up)
      PROVE  ~Prompts(i, up[j])
  <2>1. j - d \in (k + 1)..Len(up') /\ j - d \in 1..Len(up')
    BY <1>2
  <2>2. up'[j - d] = up[j - d + d]
    BY <2>1 DEF Without
  <2>3. QED
    BY <1>1, <1>2, <2>1, <2>2
<1>5. QED
  BY <1>2, <1>3, <1>4 DEF LastIsTrue

LEMMA AddedIsTrue ==
    ASSUME TypeOK, NEW i, LastIsTrue(i), NEW m \in Statuses \cup Replies,
           up' = Append(up, m), Tells(i, m) => m.to = value'[i],
           value'[i] = value[i] \/ Prompts(i, m)
    PROVE  LastIsTrue(i)'
<1>1. SUFFICES ASSUME NEW k \in 1..Len(up'), Tells(i, up[k])',
                      \A j \in (k + 1)..Len(up') : ~Prompts(i, up'[j])
               PROVE  up'[k].to = value'[i]
  BY DEF LastIsTrue, Prompts, About
<1>2. /\ Len(up') = Len(up) + 1 /\ Len(up) \in Nat
      /\ \A j \in 1..Len(up) : up'[j] = up[j]
      /\ up'[Len(up) + 1] = m
      /\ k \in 1..Len(up) \/ k = Len(up) + 1
  BY Appended DEF TypeOK, LineOK
<1>3. CASE k = Len(up) + 1
  BY <1>1, <1>2, <1>3 DEF Tells, About
<1>4. CASE k \in 1..Len(up)
  <2>1. Tells(i, up[k]) /\ up'[k] = up[k]
    BY <1>1, <1>2, <1>4 DEF Tells, About
  <2>2. ~Prompts(i, m) /\ \A j \in (k + 1)..Len(up) : ~Prompts(i, up[j])
    BY <1>1, <1>2, <1>4
  <2>3. QED
    BY <1>4, <2>1, <2>2 DEF LastIsTrue
<1>5. QED
  BY <1>2, <1>3, <1>4

LEMMA LastStep ==
    ASSUME TypeOK, Meant, NEW i \in Confirmed, LastIsTrue(i), [Next]_vars
    PROVE  LastIsTrue(i)'
<1>0. up \in Seq(Statuses \cup Replies) /\ i \in Settings
  BY DEF TypeOK, LineOK, Confirmed
<1>1. CASE Handlers
  <2>1. HandlerEffect
    BY <1>1, HandlersReply
  <2>2. CASE RefuseEffect
    BY <2>1, <2>2 DEF HandlerEffect, RefuseEffect, LastIsTrue, Tells, Prompts, About
  <2>3. ASSUME NEW m, ReplyEffect(m)
        PROVE  LastIsTrue(i)'
    <3>1. value'[i] = value[i] \/ Prompts(i, m)
      BY <1>0, <2>3 DEF ReplyEffect, Prompts, About
    <3>2. QED
      BY <1>0, <2>3, <3>1, AddedIsTrue DEF ReplyEffect
  <2>4. QED
    BY <2>1, <2>2, <2>3 DEF HandlerEffect
<1>2. CASE Messages
  <2>1. up # <<>> /\ up' = Tail(up) /\ value' = value
    BY <1>2 DEF Messages, OnStatus, OnAckPlain, OnAckLoad, OnAnswer, OnAckSet,
       Receive
  <2>2. Without(up', up, 1)
    BY <1>0, <2>1, HeadAndTail DEF Without
  <2>3. QED
    BY <2>1, <2>2, RestIsTrue
<1>3. CASE Disconnect
  <2>1. PICK d \in 0..Len(up) : up' = SubSeq(up, d + 1, Len(up))
    BY <1>3 DEF Disconnect
  <2>2. Without(up', up, d) /\ d \in Nat
    BY <1>0, <2>1, Suffixes DEF Without
  <2>3. QED
    BY <1>3, <2>2, RestIsTrue DEF Disconnect
<1>4. CASE SendStatus
  <2>1. up' = Append(up, built) /\ built \in Statuses /\ value' = value
    BY <1>4 DEF SendStatus, TypeOK, LineOK
  <2>2. ~Tells(i, built)
    BY <2>1 DEF Tells, About, Statuses
  <2>3. QED
    BY <2>1, <2>2, AddedIsTrue
<1>5. CASE \/ Clicks \/ Connect \/ Queries \/ BuildStatus \/ Move \/ Fault \/ Estop
           \/ UNCHANGED vars
  <2>1. up' = up /\ value' = value
    <3>1. Clicks => up' = up /\ value' = value
      BY ClicksSend DEF ClickEffect
    <3>2. QED
      BY <1>5, <3>1 DEF Connect, Queries, FlushInitialQueries, DrainQueryQueue,
         BuildStatus, Move, Fault, Estop
  <2>2. QED
    BY <2>1 DEF LastIsTrue, Tells, Prompts, About
<1>6. QED
  BY <1>1, <1>2, <1>3, <1>4, <1>5, Zenon DEF Next

-----------------------------------------------------------------------------
(* A value that is not shown will be                                       *)

LEMMA LedSent ==
    ASSUME TypeOK, NEW i, NEW l \in Commands, Send(l), Led(i) \/ Leads(i, l)
    PROVE  Led(i)'
<1>1. /\ Len(down') = Len(down) + 1 /\ Len(down) \in Nat
      /\ \A k \in 1..Len(down) : down'[k] = down[k]
      /\ down'[Len(down) + 1] = l
  BY Appended DEF TypeOK, LineOK, Send
<1>2. CASE Leads(i, l)
  <2>1. Len(down) + 1 \in 1..Len(down') /\ Leads(i, down'[Len(down) + 1])
    BY <1>1, <1>2
  <2>2. QED
    BY <2>1 DEF Led, Leads
<1>3. CASE Led(i)
  <2>1. PICK k \in 1..Len(down) : Leads(i, down[k])
    BY <1>3 DEF Led
  <2>2. k \in 1..Len(down') /\ Leads(i, down'[k])
    BY <1>1, <2>1
  <2>3. QED
    BY <2>2 DEF Led, Leads
<1>4. QED
  BY <1>2, <1>3

LEMMA LedTaken ==
    ASSUME TypeOK, NEW i, down # <<>>, down' = Tail(down), Led(i),
           ~Leads(i, Head(down))
    PROVE  Led(i)'
<1>1. PICK k \in 1..Len(down) : Leads(i, down[k])
  BY DEF Led
<1>2. /\ k - 1 \in 1..Len(down') /\ down'[k - 1] = down[k - 1 + 1]
      /\ k - 1 + 1 = k
  BY <1>1, HeadAndTail DEF TypeOK, LineOK
<1>3. Leads(i, down'[k - 1])
  BY <1>1, <1>2
<1>4. QED
  BY <1>2, <1>3 DEF Led, Leads

LEMMA PromptedAdded ==
    ASSUME TypeOK, NEW i, NEW m \in Statuses \cup Replies, up' = Append(up, m),
           Prompted(i) \/ Prompts(i, m)
    PROVE  Prompted(i)'
<1>1. /\ Len(up') = Len(up) + 1 /\ Len(up) \in Nat
      /\ \A k \in 1..Len(up) : up'[k] = up[k]
      /\ up'[Len(up) + 1] = m
  BY Appended DEF TypeOK, LineOK
<1>2. CASE Prompts(i, m)
  <2>1. Len(up) + 1 \in 1..Len(up') /\ Prompts(i, up'[Len(up) + 1])
    BY <1>1, <1>2
  <2>2. QED
    BY <2>1 DEF Prompted, Prompts, About
<1>3. CASE Prompted(i)
  <2>1. PICK k \in 1..Len(up) : Prompts(i, up[k])
    BY <1>3 DEF Prompted
  <2>2. k \in 1..Len(up') /\ Prompts(i, up'[k])
    BY <1>1, <2>1
  <2>3. QED
    BY <2>2 DEF Prompted, Prompts, About
<1>4. QED
  BY <1>2, <1>3

LEMMA PromptedRead ==
    ASSUME TypeOK, NEW i, up # <<>>, up' = Tail(up), Prompted(i)
    PROVE  Prompts(i, Head(up)) \/ Prompted(i)'
<1>1. PICK k \in 1..Len(up) : Prompts(i, up[k])
  BY DEF Prompted
<1>2. /\ Head(up) = up[1]
      /\ k = 1 \/ k - 1 \in 1..Len(up')
      /\ k # 1 => up'[k - 1] = up[k]
  BY <1>1, HeadAndTail DEF TypeOK, LineOK
<1>3. CASE k = 1
  BY <1>1, <1>2, <1>3
<1>4. CASE k # 1
  <2>1. k - 1 \in 1..Len(up') /\ Prompts(i, up'[k - 1])
    BY <1>1, <1>2, <1>4
  <2>2. QED
    BY <2>1 DEF Prompted, Prompts, About
<1>5. QED
  BY <1>3, <1>4

(* Queries wait behind one another.                                        *)
LEMMA AskedJoined ==
    ASSUME TypeOK, NEW i, NEW t \in Seq(Settings), queries' = queries \o t,
           Asked(i) \/ \E k \in 1..Len(t) : t[k] = i
    PROVE  Asked(i)'
<1>1. /\ Len(queries') = Len(queries) + Len(t)
      /\ Len(queries) \in Nat /\ Len(t) \in Nat
      /\ \A k \in 1..Len(queries) : queries'[k] = queries[k]
      /\ \A k \in 1..Len(t) : queries'[Len(queries) + k] = t[k]
  BY DEF TypeOK, WindowsOK
<1>2. CASE Asked(i)
  BY <1>1, <1>2 DEF Asked
<1>3. CASE \E k \in 1..Len(t) : t[k] = i
  <2>1. PICK k \in 1..Len(t) : t[k] = i
    BY <1>3
  <2>2. Len(queries) + k \in 1..Len(queries') /\ queries'[Len(queries) + k] = i
    BY <1>1, <2>1
  <2>3. QED
    BY <2>2 DEF Asked
<1>4. QED
  BY <1>2, <1>3

LEMMA AskedFirst ==
    ASSUME NEW i \in Confirmed
    PROVE  \E k \in 1..Len(Initial) : Initial[k] = i
BY InitialAssumption DEF InitialAssumption, Confirmed

(* A status and the fallback timer send the queries that were deferred.    *)
LEMMA DeferredAsked ==
    ASSUME TypeOK, NEW i \in Confirmed, deferred \/ Asked(i),
           queries' = (IF deferred THEN queries \o Initial ELSE queries)
    PROVE  Asked(i)'
<1>1. CASE deferred
  BY <1>1, AskedFirst, AskedJoined, InitialAssumption DEF InitialAssumption
<1>2. CASE ~deferred
  BY <1>2 DEF Asked
<1>3. QED
  BY <1>1, <1>2

(* The first message tells the value of the machine, or another follows.   *)
LEMMA FirstTells ==
    ASSUME TypeOK, NEW i, LastIsTrue(i), up # <<>>, up' = Tail(up),
           Tells(i, Head(up))
    PROVE  Prompted(i)' \/ Head(up).to = value[i]
<1>1. /\ Head(up) = up[1] /\ 1 \in 1..Len(up) /\ Len(up) \in Nat
      /\ Len(up') = Len(up) - 1
      /\ \A k \in 1..Len(up') : up'[k] = up[k + 1]
  BY HeadAndTail DEF TypeOK, LineOK
<1>2. CASE \A j \in 2..Len(up) : ~Prompts(i, up[j])
  BY <1>1, <1>2 DEF LastIsTrue
<1>3. CASE \E j \in 2..Len(up) : Prompts(i, up[j])
  <2>1. PICK j \in 2..Len(up) : Prompts(i, up[j])
    BY <1>3
  <2>2. j - 1 \in 1..Len(up') /\ up'[j - 1] = up[j]
    BY <1>1
  <2>3. QED
    BY <2>1, <2>2 DEF Prompted, Prompts, About
<1>4. QED
  BY <1>2, <1>3

LEMMA ShownStep ==
    ASSUME TypeOK, Meant, BaselineKnown, BaselineKnown', [Next]_vars,
           NEW i \in Confirmed, LastIsTrue(i), Shown(i)
    PROVE  Shown(i)'
<1> SUFFICES ASSUME connected', i \notin refused'
             PROVE  \/ deferred' \/ Asked(i)' \/ Led(i)' \/ Prompted(i)'
                    \/ shown'[i] = value'[i]
  BY DEF Shown
<1>0. /\ i \in Settings /\ i \in {"travel", "steps", "position", "baseline"}
      /\ down \in Seq(Commands) /\ up \in Seq(Statuses \cup Replies)
      /\ queries \in Seq(Settings)
  BY ArgumentsApart DEF Confirmed, AllSettings, TypeOK, LineOK, WindowsOK
<1>1. CASE Clicks
  <2>1. PICK l : ClickEffect(l)
    BY <1>1, ClicksSend
  <2>2. /\ connected /\ i \notin refused /\ l \in Commands /\ Send(l)
        /\ deferred' = deferred /\ queries' = queries /\ up' = up /\ value' = value
        /\ shown'[i] = shown[i] \/ Leads(i, l)
    BY <1>0, <2>1 DEF ClickEffect, Leads
  <2>3. Led(i) \/ Leads(i, l) => Led(i)'
    BY <2>2, LedSent
  <2>4. QED
    BY <2>2, <2>3 DEF Shown, Asked, Prompted, Prompts, About
<1>2. CASE Handlers
  <2>1. HandlerEffect
    BY <1>2, HandlersReply
  <2>2. /\ down # <<>> /\ down' = Tail(down) /\ connected
        /\ deferred' = deferred /\ queries' = queries /\ shown' = shown
    BY <2>1 DEF HandlerEffect
  <2>3. CASE RefuseEffect
    <3>1. ~Leads(i, Head(down)) /\ i \notin refused /\ up' = up /\ value' = value
      BY <1>0, <2>3 DEF RefuseEffect, Leads
    <3>2. Led(i) => Led(i)'
      BY <2>2, <3>1, LedTaken
    <3>3. QED
      BY <2>2, <3>1, <3>2 DEF Shown, Asked, Prompted, Prompts, About
  <2>4. ASSUME NEW m, ReplyEffect(m)
        PROVE  \/ deferred' \/ Asked(i)' \/ Led(i)' \/ Prompted(i)'
               \/ shown'[i] = value'[i]
    <3>1. /\ i \notin refused /\ up' = Append(up, m) /\ m \in Statuses \cup Replies
          /\ m.type = "ack" /\ m.cmd = Head(down).cmd /\ m.arg = Head(down).arg
          /\ value'[i] = value[i] \/ Prompts(i, m)
      BY <1>0, <2>4 DEF ReplyEffect, Prompts, About
    <3>2. Prompted(i) \/ Prompts(i, m) => Prompted(i)'
      BY <3>1, PromptedAdded
    <3>3. Led(i) => Led(i)' \/ Leads(i, Head(down))
      BY <2>2, LedTaken
    <3>4. Leads(i, Head(down)) => Prompts(i, m) \/ shown'[i] = value'[i]
      <4>1. CASE i # "baseline"
        BY <3>1, <4>1 DEF Leads, Prompts, About
      <4>2. CASE i = "baseline" /\ Leads(i, Head(down)) /\ ~Prompts(i, m)
        <5>1. Tells(i, m) /\ m.to = 0
          BY <3>1, <4>2 DEF Leads, Prompts, Tells, About
        <5>2. value'[i] = 0
          BY <1>0, <2>4, <5>1 DEF ReplyEffect
        <5>3. QED
          BY <1>0, <4>2, <5>2 DEF BaselineKnown
      <4>3. QED
        BY <4>1, <4>2
    <3>5. QED
      BY <2>2, <3>1, <3>2, <3>3, <3>4 DEF Shown, Asked
  <2>5. QED
    BY <2>1, <2>3, <2>4 DEF HandlerEffect
<1>3. CASE Connect \/ Disconnect
  BY <1>3 DEF Connect, Disconnect
<1>4. CASE FlushInitialQueries
  <2>1. Asked(i)'
    BY <1>4, DeferredAsked DEF FlushInitialQueries
  <2>2. QED
    BY <2>1
<1>5. CASE DrainQueryQueue
  <2>1. /\ connected /\ i \notin refused /\ queries # <<>> /\ queries' = Tail(queries)
        /\ Send(Ask(Head(queries)))
        /\ deferred' = deferred /\ up' = up /\ shown' = shown /\ value' = value
    BY <1>5 DEF DrainQueryQueue
  <2>2. /\ Head(queries) = queries[1] /\ Head(queries) \in Settings
        /\ \A k \in 1..Len(queries') : queries'[k] = queries[k + 1]
        /\ \A k \in 1..Len(queries) : k = 1 \/ k - 1 \in 1..Len(queries')
    BY <1>0, <2>1, HeadAndTail
  <2>3. Asked(i) => Asked(i)' \/ Head(queries) = i
    <3>1. SUFFICES ASSUME NEW k \in 1..Len(queries), queries[k] = i, k # 1
                   PROVE  Asked(i)'
      BY <2>2 DEF Asked
    <3>2. k - 1 \in 1..Len(queries') /\ queries'[k - 1] = queries[k - 1 + 1]
      BY <2>2, <3>1
    <3>3. k - 1 + 1 = k
      BY <3>1
    <3>4. QED
      BY <3>1, <3>2, <3>3 DEF Asked
  <2>4. Head(queries) = i => Leads(i, Ask(Head(queries)))
    BY <2>2, AskOK DEF Leads
  <2>5. Led(i) \/ Leads(i, Ask(Head(queries))) => Led(i)'
    BY <2>1, <2>2, AskOK, LedSent
  <2>6. QED
    BY <2>1, <2>3, <2>4, <2>5 DEF Shown, Prompted, Prompts, About
<1>6. CASE OnStatus
  <2>1. /\ connected /\ up # <<>> /\ up' = Tail(up) /\ Head(up).type = "status"
        /\ i \notin refused /\ down' = down /\ value' = value
        /\ queries' = IF deferred THEN queries \o Initial ELSE queries
    BY <1>6 DEF OnStatus, Receive
  <2>2. shown'[i] = shown[i]
    BY <1>0, <1>6 DEF OnStatus, SvcOnStatus
  <2>3. Prompted(i) => Prompted(i)'
    BY <2>1, PromptedRead DEF Prompts, About
  <2>4. deferred \/ Asked(i) => Asked(i)'
    BY <2>1, DeferredAsked
  <2>5. QED
    BY <2>1, <2>2, <2>3, <2>4 DEF Shown, Led, Leads
<1>7. CASE OnAckPlain \/ OnAckLoad
  <2>1. /\ connected /\ up # <<>> /\ up' = Tail(up) /\ IsReply(Head(up))
        /\ Head(up).arg = None \/ Head(up).cmd = "load_program"
    BY <1>7, ReceiveOK DEF OnAckPlain, OnAckLoad, IsMessage
  <2>2. Head(up).arg # i
    BY <1>0, <2>1, ArgumentsApart, CommandsApart, SettersApart
       DEF IsReply, AboutNothing, AboutProgram, AboutSteps, AboutSetting, Sets
  <2>3. Prompted(i) => Prompted(i)'
    BY <2>1, <2>2, PromptedRead DEF Prompts, About
  <2>4. UNCHANGED <<down, value, shown, deferred, queries, refused, connected>>
    BY <1>7 DEF OnAckPlain, OnAckLoad
  <2>5. QED
    BY <2>3, <2>4 DEF Shown, Led, Leads, Asked
<1>8. CASE OnAnswer
  <2>1. /\ connected /\ up # <<>> /\ up' = Tail(up)
        /\ Head(up).type = "ack" /\ Head(up).cmd = "get_param"
        /\ refused' = refused \ {Head(up).arg}
        /\ Display(Head(up).arg, Head(up).to)
        /\ UNCHANGED <<down, value, deferred, queries>>
    BY <1>8 DEF OnAnswer, Receive
  <2>2. CASE Head(up).arg # i
    <3>1. shown'[i] = shown[i] /\ i \notin refused
      BY <1>0, <2>1, <2>2 DEF Display, TypeOK, WindowsOK
    <3>2. Prompted(i) => Prompted(i)'
      BY <2>1, <2>2, PromptedRead DEF Prompts, About
    <3>3. QED
      BY <2>1, <3>1, <3>2 DEF Shown, Led, Leads, Asked
  <2>3. CASE Head(up).arg = i
    <3>1. Tells(i, Head(up))
      BY <2>1, <2>3 DEF Tells, About
    <3>2. Prompted(i)' \/ Head(up).to = value[i]
      BY <2>1, <3>1, FirstTells
    <3>3. Head(up).to = value[i] => shown'[i] = value'[i]
      BY <1>0, <2>1, <2>3 DEF Display, TypeOK, WindowsOK, BaselineKnown
    <3>4. QED
      BY <3>2, <3>3
  <2>4. QED
    BY <2>2, <2>3
<1>9. CASE OnAckSet
  <2> DEFINE j == Head(up).arg
  <2>1. /\ connected /\ up # <<>> /\ up' = Tail(up) /\ Head(up).type = "ack"
        /\ i \notin refused /\ value' = value /\ deferred' = deferred
        /\ queries' = IF j \in {"travel", "steps"} THEN Append(queries, j)
                                                   ELSE queries
        /\ down' = IF j = "position" THEN Append(down, Ask(j)) ELSE down
        /\ IF j = "baseline" THEN Display(j, Head(up).to) ELSE UNCHANGED shown
    BY <1>9 DEF OnAckSet, Receive
  <2>2. j \in Settings
    BY <1>9, ReceiveOK
       DEF OnAckSet, IsMessage, IsReply, AboutNothing, AboutProgram, AboutSteps,
           AboutSetting, Sets
  <2>3. Asked(i) => Asked(i)'
    BY <1>0, <2>1, <2>2, Appended DEF Asked
  <2>4. Led(i) => Led(i)'
    BY <2>1, <2>2, AskOK, LedSent DEF Led, Leads, Send
  <2>5. shown'[i] = shown[i] \/ (j = i /\ i = "baseline")
    BY <1>0, <2>1, <2>2 DEF Display, TypeOK, WindowsOK
  <2>6. CASE ~Prompts(i, Head(up))
    <3>1. Prompted(i) => Prompted(i)'
      BY <2>1, <2>6, PromptedRead
    <3>2. shown'[i] = shown[i]
      BY <2>1, <2>5, <2>6 DEF Prompts, About, Display
    <3>3. QED
      BY <2>1, <2>3, <2>4, <3>1, <3>2 DEF Shown
  <2>7. CASE Prompts(i, Head(up))
    <3>1. j = i
      BY <2>7 DEF Prompts, About
    <3>2. CASE i \in {"travel", "steps"}
      <4>1. queries' = Append(queries, i)
        BY <2>1, <3>1, <3>2
      <4>2. Len(queries) + 1 \in 1..Len(queries') /\ queries'[Len(queries) + 1] = i
        BY <1>0, <4>1, Appended
      <4>3. Asked(i)'
        BY <4>2 DEF Asked
      <4>4. QED
        BY <4>3
    <3>3. CASE i = "position"
      <4>1. Send(Ask(i)) /\ Leads(i, Ask(i)) /\ Ask(i) \in Commands
        BY <1>0, <2>1, <3>1, <3>3, AskOK DEF Send, Leads
      <4>2. Led(i)'
        BY <4>1, LedSent
      <4>3. QED
        BY <4>2
    <3>4. CASE i = "baseline"
      <4>1. Tells(i, Head(up)) /\ Head(up).to # 0
        BY <2>7, <3>4 DEF Prompts, Tells
      <4>2. Prompted(i)' \/ Head(up).to = value[i]
        BY <2>1, <4>1, FirstTells
      <4>3. shown'[i] = Head(up).to
        BY <1>0, <2>1, <3>1, <3>4, <4>1 DEF Display, TypeOK, WindowsOK
      <4>4. QED
        BY <2>1, <4>2, <4>3
    <3>5. QED
      BY <1>0, <3>2, <3>3, <3>4
  <2>8. QED
    BY <2>6, <2>7
<1>10. CASE SendStatus
  <2>1. up' = Append(up, built) /\ built \in Statuses
        /\ UNCHANGED <<down, value, shown, deferred, queries, refused, connected>>
    BY <1>10 DEF SendStatus, TypeOK, LineOK
  <2>2. Prompted(i) => Prompted(i)'
    BY <2>1, PromptedAdded
  <2>3. QED
    BY <2>1, <2>2 DEF Shown, Led, Leads, Asked
<1>11. CASE BuildStatus \/ Move \/ Fault \/ Estop \/ UNCHANGED vars
  <2>1. UNCHANGED <<down, up, value, shown, deferred, queries, refused, connected>>
    BY <1>11 DEF BuildStatus, Move, Fault, Estop
  <2>2. QED
    BY <2>1 DEF Shown, Led, Leads, Asked, Prompted, Prompts, About
<1>12. QED
  BY <1>1, <1>2, <1>3, <1>4, <1>5, <1>6, <1>7, <1>8, <1>9, <1>10, <1>11, Zenon
     DEF Next, Queries, Messages

-----------------------------------------------------------------------------
LEMMA IInvStep == IInv /\ [Next]_vars => IInv'
<1> SUFFICES ASSUME IInv, [Next]_vars
             PROVE  IInv'
  OBVIOUS
<1>1. TypeOK' /\ Meant' /\ BaselineKnown'
  BY TypeStep, BaselineStep DEF IInv
<1>2. ASSUME NEW i \in Confirmed
      PROVE  LastIsTrue(i)' /\ Shown(i)'
  BY <1>1, LastStep, ShownStep DEF IInv
<1>3. Confirmed' = Confirmed
  BY DEF Confirmed
<1>4. QED
  BY <1>1, <1>2, <1>3 DEF IInv

(* The invariant holds of every behaviour of the windows and the machine,  *)
(* whatever is clicked and however many messages are on their way.         *)
THEOREM Invariance == Spec => []IInv
<1>1. IInv /\ [Next]_vars => IInv'
  BY IInvStep
<1>2. QED
  BY InitHolds, <1>1, PTL DEF Spec

(* Windows, lines and machine hold what their types say: what is displayed *)
(* of a setting is a value that it can have.                               *)
THEOREM TypeCorrect == Spec => []TypeOK
<1>1. IInv => TypeOK
  BY DEF IInv
<1>2. QED
  BY Invariance, <1>1, PTL

(* When nothing is on its way, the windows display the travel limits,      *)
(* steps, positions and baselines that the machine has, except for one     *)
(* that it refused and that was not asked for since (_on_message,          *)
(* _queue_queries, _cmd_get_param and the setters of the simulator).       *)
THEOREM PanelAgreesHolds == Spec => []PanelAgrees
<1>1. IInv => PanelAgrees
  <2>1. SUFFICES ASSUME IInv, Quiet, NEW i \in Confirmed \ refused
                 PROVE  shown[i] = value[i]
    BY DEF PanelAgrees
  <2>2. Shown(i) /\ connected /\ ~deferred /\ i \notin refused
    BY <2>1 DEF IInv, Quiet
  <2>3. ~Asked(i) /\ ~Led(i) /\ ~Prompted(i)
    BY <2>1 DEF Quiet, Asked, Led, Prompted
  <2>4. QED
    BY <2>2, <2>3 DEF Shown
<1>2. QED
  BY Invariance, <1>1, PTL

(* BUTTON_STATES and the conditions of the tabs on one side, and           *)
(* COMMAND_STATES and the checks of the handlers on the other, agree for   *)
(* every command: once the last status is true, what is offered is what    *)
(* would be accepted.                                                      *)
THEOREM OfferedIsAcceptedHolds == Spec => []OfferedIsAccepted
<1>1. IInv => OfferedIsAccepted
  <2>1. SUFFICES ASSUME IInv, Quiet, runState = state, tabState = state,
                        loaded = (stored # NoProgram), estopLight = estopHw,
                        state = "CALIBRATING" => applyEnabled = (jogged # 0),
                        NEW c \in Gated
                 PROVE  Accepts(c) <=> Offered(c) /\ ~(c = "reset_estop" /\ estopLight)
    BY DEF OfferedIsAccepted
  <2>2. connected /\ fresh /\ jogged \in Int
    BY <2>1 DEF IInv, TypeOK, MachineOK, Quiet
  <2>3. loaded <=> stored # NoProgram
    BY <2>1, Zenon
  <2>4. CASE c \in RunButtons
    <3>1. c \notin ServiceButtons /\ c \notin CalButtons
          /\ c # "get_param" /\ c # "set_cal_distance"
      BY <2>4 DEF RunButtons, ServiceButtons, CalButtons
    <3>2. BUTTON_STATES(c) = COMMAND_STATES(c)
      BY <2>4 DEF RunButtons, BUTTON_STATES, BUTTON_STATES_Table, COMMAND_STATES,
                  COMMAND_STATES_Table, Positioned, Measuring
    <3>3. Offered(c) <=> RunOffers(c)
      BY <2>2, <2>4, <3>1 DEF Offered
    <3>4. QED
      BY <2>1, <2>3, <3>1, <3>2, <3>3 DEF RunOffers, Accepts
  <2>5. CASE c \in ServiceButtons
    <3>1. /\ c \notin RunButtons /\ c \notin CalButtons /\ c # "run_program"
          /\ c # "reset_estop" /\ c # "get_param" /\ c # "set_cal_distance"
      BY <2>5 DEF RunButtons, ServiceButtons, CalButtons
    <3>2. Offered(c) <=> ServiceOffers(c)
      BY <2>2, <2>5, <3>1 DEF Offered
    <3>3. ServiceOffers(c) <=> state \in COMMAND_STATES(c)
      BY <2>1, <2>5 DEF ServiceButtons, ServiceOffers, COMMAND_STATES,
                        COMMAND_STATES_Table, Positioned, Measuring
    <3>4. QED
      BY <3>1, <3>2, <3>3 DEF Accepts
  <2>6. CASE c \in CalButtons
    <3>1. /\ c \notin RunButtons /\ c \notin ServiceButtons /\ c # "run_program"
          /\ c # "reset_estop" /\ c # "get_param"
      BY <2>6 DEF RunButtons, ServiceButtons, CalButtons
    <3>2. Offered(c) <=> CalOffers(c)
      BY <2>2, <2>6, <3>1 DEF Offered
    <3>3. COMMAND_STATES(c) = IF c \in Measuring THEN {"CALIBRATING"} ELSE AtRest
      BY <2>6 DEF CalButtons, COMMAND_STATES, COMMAND_STATES_Table, Positioned,
                  Measuring
    <3>4. state = "CALIBRATING" => (applyEnabled <=> jogged # 0)
      BY <2>1, Zenon
    <3>5. c = "set_cal_distance" => c \in Measuring
      BY DEF Measuring
    <3>6. QED
      BY <2>1, <2>2, <3>1, <3>2, <3>3, <3>4, <3>5 DEF CalOffers, Accepts
  <2>7. QED
    BY <2>1, <2>4, <2>5, <2>6 DEF Gated
<1>2. QED
  BY Invariance, <1>1, PTL
=============================================================================
