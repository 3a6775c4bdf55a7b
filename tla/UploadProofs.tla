---------------------------- MODULE UploadProofs ----------------------------
(***************************************************************************)
(* Proofs about Upload, for any number of uploads, of any numbers of       *)
(* chunks, and any number of starts and ends of jobs.                      *)
(***************************************************************************)
EXTENDS Upload, TLAPS

(* The tuples of variables that the UNCHANGED clauses name.                *)
USE DEF vars, workerVars, deviceVars, countVars, guiVars

-----------------------------------------------------------------------------
(* The inductive invariant                                                 *)

(* Uploads are begun one after the other, and the line keeps the order.    *)
Begun == last - Len(queue)

InTurn ==
    /\ Len(queue) <= last
    /\ \A k \in 1..Len(queue) : queue[k] = Begun + k
    /\ awaited = "loop" => cur = Nothing
    /\ awaited # "loop" => cur = Begun /\ cur \in Uploads
    /\ \A k \in 1..Len(down) : down[k].id <= Begun
    /\ \A j, k \in 1..Len(down) : j <= k => down[j].id <= down[k].id

IsBegin(k) == down[k].cmd = "begin_transfer"

(* While there was no job, every begin_transfer is taken, and what follows *)
(* one is put into the transfer that it began, until the next comes.       *)
BeginsAscend ==
    /\ \A k \in 1..Len(down) : IsBegin(k) => xfer.of < down[k].id
    /\ \A j, k \in 1..Len(down) :
          j < k /\ IsBegin(j) /\ IsBegin(k) => down[j].id < down[k].id

BeginPrecedes(id, n) ==
    \/ \E j \in 1..n : IsBegin(j) /\ down[j].id = id
    \/ xfer.of \in {id, Nothing} /\ \A j \in 1..n : ~IsBegin(j)

OwnChunks ==
    /\ xfer.of <= Begun
    /\ \A k \in 1..Len(xfer.got) : xfer.got[k].id = xfer.of

BeginComesFirst ==
    gates = 0 =>
        /\ atRest
        /\ BeginsAscend
        /\ \A k \in 1..Len(down) :
              IsBegin(k) \/ BeginPrecedes(down[k].id, k - 1)
        /\ awaited # "loop" => BeginPrecedes(cur, Len(down))
        /\ OwnChunks

(* While no answer was late, at most one line or answer is under way, and  *)
(* it belongs to the upload in progress.  What is left over of refused     *)
(* end_transfers is awaited by nobody.                                     *)
Real(k) == up[k].cmd # "end_transfer"
NoReal == \A k \in 1..Len(up) : ~Real(k)
Sent == IF awaited = "load_program" THEN "end_transfer" ELSE awaited
Receiving == /\ xfer.of = cur
             /\ \A k \in 1..Len(xfer.got) : xfer.got[k].id = cur

InStep ==
    ~late =>
        /\ awaited = "loop" => down = <<>> /\ NoReal
        /\ down # <<>> =>
              /\ Len(down) = 1 /\ down[1].id = cur /\ down[1].cmd = Sent
              /\ NoReal
              /\ ~IsBegin(1) => Receiving
        /\ \A k \in 1..Len(up) : Real(k) =>
              /\ up[k].cmd = awaited /\ up[k].id = cur
              /\ up[k].kind = "ack" /\ awaited # "load_program" => Receiving
              /\ \A j \in 1..Len(up) : Real(j) => j = k

(* As long as one of the two holds, uploads are stored in their order, and *)
(* an ack of load_program names one that is stored or was replaced.        *)
Confused == late /\ gates > 0

StoredBelow ==
    /\ stored <= Begun
    /\ awaited # "loop" => stored <= cur
    /\ \A k \in 1..Len(down) : stored <= down[k].id

IsStoredAck(m) == m.cmd = "load_program" /\ m.kind = "ack"

AcksBelow ==
    /\ \A k \in 1..Len(up) : IsStoredAck(up[k]) => up[k].id <= stored
    /\ belief <= stored

StoredInOrder == Confused \/ (StoredBelow /\ AcksBelow)

(* An answer names an upload that was begun, so the result does.           *)
AnswersAreBegun == \A k \in 1..Len(up) : up[k].id <= Begun
NamesBegun == AnswersAreBegun /\ ResultsAreBegun

IInv == /\ TypeOK /\ InTurn /\ BeginComesFirst /\ InStep /\ StoredInOrder
        /\ NamesBegun

-----------------------------------------------------------------------------
(* What the two ends of a line do to it                                    *)

LEMMA Appended ==
    ASSUME NEW S, NEW s \in Seq(S), NEW e \in S
    PROVE  /\ Append(s, e) \in Seq(S)
           /\ Len(Append(s, e)) = Len(s) + 1
           /\ \A k \in 1..Len(s) : Append(s, e)[k] = s[k]
           /\ Append(s, e)[Len(s) + 1] = e
OBVIOUS

LEMMA HeadAndTail ==
    ASSUME NEW S, NEW s \in Seq(S), s # <<>>
    PROVE  /\ Len(s) \in Nat \ {0} /\ Head(s) = s[1] /\ s[1] \in S
           /\ Tail(s) \in Seq(S) /\ Len(Tail(s)) = Len(s) - 1
           /\ \A k \in 1..Len(Tail(s)) : Tail(s)[k] = s[k + 1]
OBVIOUS

(* r is s without its first d elements.                                    *)
Without(r, s, d) ==
    /\ Len(r) = Len(s) - d
    /\ \A k \in 1..Len(r) : r[k] = s[k + d]

LEMMA TornIsSuffix ==
    ASSUME TypeOK, NEW r \in Torn
    PROVE  r \in Seq(Answers) /\ \E d \in 0..Len(up) : Without(r, up, d)
<1>1. up \in Seq(Answers)
  BY DEF TypeOK, LineOK
<1>2. CASE r = up
  BY <1>1, <1>2 DEF Without
<1>3. CASE up # <<>> /\ r = Tail(up)
  <2>1. 1 \in 0..Len(up) /\ Without(r, up, 1) /\ r \in Seq(Answers)
    BY <1>1, <1>3, HeadAndTail DEF Without
  <2>2. QED
    BY <2>1
<1>4. QED
  BY <1>2, <1>3 DEF Torn

LEMMA RestIsSuffix ==
    ASSUME TypeOK, up # <<>>, NEW r \in Rest
    PROVE  r \in Seq(Answers) /\ \E d \in 1..Len(up) : Without(r, up, d)
<1>1. up \in Seq(Answers) /\ Len(up) \in Nat \ {0}
  BY DEF TypeOK, LineOK
<1>2. PICK k \in 2..(Len(up) + 1) : r = SubSeq(up, k, Len(up))
  BY DEF Rest
<1>3. r \in Seq(Answers)
  BY <1>1, <1>2
<1>4. k - 1 \in 1..Len(up) /\ Without(r, up, k - 1)
  BY <1>1, <1>2 DEF Without
<1>5. QED
  BY <1>3, <1>4

-----------------------------------------------------------------------------
(* Initially nothing is under way.                                         *)
LEMMA InitHolds == Init => IInv
<1> USE UploadAssumption DEF UploadAssumption, Uploads, Nothing, NoTransfer
<1> SUFFICES ASSUME Init
             PROVE  IInv
  OBVIOUS
<1>1. FlagsOK
  BY Zenon DEF Init, FlagsOK
<1>2. WorkerOK /\ LineOK /\ DeviceOK /\ GuiOK
  BY DEF Init, WorkerOK, LineOK, DeviceOK, GuiOK
<1>3. InTurn
  BY DEF Init, InTurn, Begun
<1>4. BeginComesFirst
  BY DEF Init, BeginComesFirst, BeginsAscend, OwnChunks, Begun
<1>5. InStep
  BY DEF Init, InStep, NoReal
<1>6. StoredInOrder
  BY DEF Init, StoredInOrder, StoredBelow, AcksBelow, Begun
<1>7. NamesBegun
  BY DEF Init, NamesBegun, AnswersAreBegun, ResultsAreBegun
<1>8. QED
  BY <1>1, <1>2, <1>3, <1>4, <1>5, <1>6, <1>7 DEF IInv, TypeOK

(* What is at the front of a queue or a line is what its type says.        *)
LEMMA Fronts ==
    ASSUME TypeOK
    PROVE  /\ queue # <<>> => Head(queue) \in Uploads /\ Tail(queue) \in Seq(Uploads)
           /\ down # <<>> => Head(down) \in Lines /\ Tail(down) \in Seq(Lines)
           /\ up # <<>> => Head(up) \in Answers /\ Tail(up) \in Seq(Answers)
BY HeadAndTail DEF TypeOK, WorkerOK, LineOK

LEMMA Members ==
    ASSUME TypeOK
    PROVE  /\ Len(down) \in Nat
           /\ \A k \in 1..Len(down) : down[k] \in Lines /\ down[k].id \in Nat
           /\ Len(up) \in Nat
           /\ \A k \in 1..Len(up) : up[k] \in Answers /\ up[k].id \in Nat
           /\ Len(xfer.got) \in Nat /\ xfer.of \in Nat
           /\ \A k \in 1..Len(xfer.got) : xfer.got[k].id \in Nat
<1>1. Uploads \subseteq Nat
  BY UploadAssumption DEF Uploads, UploadAssumption
<1>2. down \in Seq(Lines) /\ up \in Seq(Answers)
  BY DEF TypeOK, LineOK
<1> DEFINE R == [id : Uploads, index : Nat]
<1>3. xfer.got \in Seq(R) /\ xfer.of \in Nat
  <2>1. xfer \in [of : Uploads \cup {Nothing}, got : Seq(R)]
    BY DEF TypeOK, DeviceOK
  <2> HIDE DEF R
  <2>2. xfer.got \in Seq(R)
    BY <2>1, Zenon
  <2>3. xfer.of \in Uploads \cup {Nothing}
    BY <2>1, Zenon
  <2>4. xfer.of \in Nat
    BY <2>3, UploadAssumption DEF Nothing, Uploads, UploadAssumption
  <2>5. QED
    BY <2>2, <2>4
<1>4. \A l \in Lines : l.id \in Nat
  BY <1>1 DEF Lines
<1>5. \A m \in Answers : m.id \in Nat
  BY <1>1 DEF Answers
<1>6. \A r \in R : r.id \in Nat
  BY <1>1
<1> HIDE DEF R
<1>7. Len(down) \in Nat /\ Len(up) \in Nat /\ Len(xfer.got) \in Nat
  BY <1>2, <1>3
<1>8. \A k \in 1..Len(down) : down[k] \in Lines /\ down[k].id \in Nat
  BY <1>2, <1>4
<1>9. \A k \in 1..Len(up) : up[k] \in Answers /\ up[k].id \in Nat
  BY <1>2, <1>5
<1>10. \A k \in 1..Len(xfer.got) : xfer.got[k].id \in Nat
  BY <1>3, <1>6
<1>11. QED
  BY <1>3, <1>7, <1>8, <1>9, <1>10

(* The line and the GUI after a message.                                   *)
LEMMA WriteOK ==
    ASSUME TypeOK, NEW c \in {"begin_transfer", "program_chunk", "end_transfer"},
           NEW id \in Uploads, NEW index \in Nat, Write(c, id, index)
    PROVE  down' \in Seq(Lines)
<1>1. [cmd |-> c, id |-> id, index |-> index] \in Lines
  BY DEF Lines
<1>2. QED
  BY <1>1, Appended DEF TypeOK, LineOK, Write

LEMMA AnswerOK ==
    ASSUME TypeOK, down # <<>>, down' = Tail(down), NEW k \in {"ack", "nack"},
           NEW c \in {"begin_transfer", "program_chunk", "end_transfer",
                      "load_program"},
           Answer(c, k)
    PROVE  LineOK'
<1>1. [cmd |-> c, kind |-> k, id |-> Line.id] \in Answers
  BY Fronts DEF Line, Lines, Answers
<1>2. up' \in Seq(Answers)
  BY <1>1, Appended DEF TypeOK, LineOK, Answer
<1>3. QED
  BY <1>2, Fronts DEF LineOK

LEMMA ForwardOK ==
    ASSUME TypeOK, NEW m \in Answers, Forward(m)
    PROVE  GuiOK'
<1>1. [id |-> m.id, kind |-> m.kind] \in [id : Uploads, kind : {"ack", "nack"}]
  BY DEF Answers
<1>2. told' \subseteq [id : Uploads, kind : {"ack", "nack"}]
  BY <1>1 DEF TypeOK, GuiOK, Forward
<1>3. belief' \in Uploads \cup {Nothing}
  BY DEF TypeOK, GuiOK, Forward, Answers
<1>4. QED
  BY <1>2, <1>3 DEF GuiOK

(* Every variable keeps its type.                                          *)
LEMMA TypeStep == TypeOK /\ InTurn /\ [Next]_vars => TypeOK'
<1> USE UploadAssumption
    DEF UploadAssumption, Uploads, Nothing, NoTransfer
<1> SUFFICES ASSUME TypeOK, InTurn, [Next]_vars
             PROVE  TypeOK'
  OBVIOUS
<1>1. CASE HandOver
  <2>1. FlagsOK'
    BY <1>1, Zenon DEF TypeOK, FlagsOK, HandOver
  <2>2. WorkerOK'
    BY <1>1 DEF TypeOK, WorkerOK, HandOver
  <2>3. LineOK'
    BY <1>1 DEF TypeOK, LineOK, HandOver
  <2>4. DeviceOK'
    BY <1>1 DEF TypeOK, DeviceOK, HandOver
  <2>5. GuiOK'
    BY <1>1 DEF TypeOK, GuiOK, HandOver
  <2>6. QED
    BY <2>1, <2>2, <2>3, <2>4, <2>5 DEF TypeOK
<1>2. CASE BeginUpload
  <2>1. FlagsOK'
    BY <1>2, Zenon DEF TypeOK, FlagsOK, BeginUpload
  <2>2. WorkerOK'
    BY <1>2, Fronts DEF TypeOK, WorkerOK, BeginUpload
  <2>3. LineOK'
    <3>1. Head(queue) \in Uploads
      BY <1>2, Fronts DEF BeginUpload
    <3>2. down' \in Seq(Lines)
      BY <1>2, <3>1, WriteOK DEF BeginUpload
    <3>3. QED
      BY <1>2, <3>2, TornIsSuffix DEF BeginUpload, LineOK
  <2>4. DeviceOK'
    BY <1>2 DEF TypeOK, DeviceOK, BeginUpload
  <2>5. GuiOK'
    BY <1>2 DEF TypeOK, GuiOK, BeginUpload
  <2>6. QED
    BY <2>1, <2>2, <2>3, <2>4, <2>5 DEF TypeOK
<1>3. CASE ReadOther
  <2>1. FlagsOK'
    BY <1>3, Zenon DEF TypeOK, FlagsOK, ReadOther
  <2>2. WorkerOK'
    BY <1>3 DEF TypeOK, WorkerOK, ReadOther
  <2>3. LineOK'
    BY <1>3, Fronts DEF TypeOK, LineOK, ReadOther
  <2>4. DeviceOK'
    BY <1>3 DEF TypeOK, DeviceOK, ReadOther
  <2>5. GuiOK'
    BY <1>3, Fronts, ForwardOK DEF ReadOther
  <2>6. QED
    BY <2>1, <2>2, <2>3, <2>4, <2>5 DEF TypeOK
<1>4. CASE Refused
  <2>1. FlagsOK'
    BY <1>4, Zenon DEF TypeOK, FlagsOK, Refused
  <2>2. WorkerOK'
    BY <1>4 DEF TypeOK, WorkerOK, Refused, Finish
  <2>3. LineOK'
    BY <1>4, RestIsSuffix DEF TypeOK, LineOK, Refused
  <2>4. DeviceOK'
    BY <1>4 DEF TypeOK, DeviceOK, Refused
  <2>5. GuiOK'
    <3> DEFINE id == IF awaited = "load_program" THEN Head(up).id ELSE cur
    <3>1. id \in Uploads
      BY <1>4, Fronts DEF Refused, IsAnswer, Answers, InTurn
    <3>2. [cmd |-> "load_program", kind |-> "nack", id |-> id] \in Answers
      BY <3>1 DEF Answers
    <3>3. QED
      BY <1>4, <3>2, ForwardOK DEF Refused, Finish
  <2>6. QED
    BY <2>1, <2>2, <2>3, <2>4, <2>5 DEF TypeOK
<1>5. CASE Accepted
  <2>1. FlagsOK'
    BY <1>5, Zenon DEF TypeOK, FlagsOK, Accepted
  <2>2. WorkerOK'
    BY <1>5 DEF TypeOK, WorkerOK, Accepted
  <2>3. LineOK'
    <3>1. cur \in Uploads /\ at \in Nat
      BY <1>5, Fronts DEF Accepted, IsAnswer, Answers, InTurn, TypeOK, WorkerOK
    <3>2. down' \in Seq(Lines)
      BY <1>5, <3>1, WriteOK DEF Accepted
    <3>3. QED
      BY <1>5, <3>2, RestIsSuffix DEF Accepted, LineOK
  <2>4. DeviceOK'
    BY <1>5 DEF TypeOK, DeviceOK, Accepted
  <2>5. GuiOK'
    BY <1>5 DEF TypeOK, GuiOK, Accepted
  <2>6. QED
    BY <2>1, <2>2, <2>3, <2>4, <2>5 DEF TypeOK
<1>6. CASE Stored
  <2>1. FlagsOK'
    BY <1>6, Zenon DEF TypeOK, FlagsOK, Stored
  <2>2. WorkerOK'
    BY <1>6 DEF TypeOK, WorkerOK, Stored, Finish
  <2>3. LineOK'
    BY <1>6, RestIsSuffix DEF TypeOK, LineOK, Stored
  <2>4. DeviceOK'
    BY <1>6 DEF TypeOK, DeviceOK, Stored
  <2>5. GuiOK'
    <3>1. [cmd |-> "load_program", kind |-> "ack", id |-> Head(up).id] \in Answers
      BY <1>6, Fronts DEF Stored, Answers
    <3>2. QED
      BY <1>6, <3>1, ForwardOK DEF Stored, Finish
  <2>6. QED
    BY <2>1, <2>2, <2>3, <2>4, <2>5 DEF TypeOK
<1>7. CASE Timeout
  <2>1. FlagsOK'
    BY <1>7, Zenon DEF TypeOK, FlagsOK, Timeout
  <2>2. WorkerOK'
    BY <1>7 DEF TypeOK, WorkerOK, Timeout, Finish
  <2>3. LineOK'
    BY <1>7, TornIsSuffix DEF TypeOK, LineOK, Timeout
  <2>4. DeviceOK'
    BY <1>7 DEF TypeOK, DeviceOK, Timeout
  <2>5. GuiOK'
    <3>1. [cmd |-> "load_program", kind |-> "nack", id |-> cur] \in Answers
      BY <1>7 DEF Timeout, InTurn, Answers
    <3>2. QED
      BY <1>7, <3>1, ForwardOK DEF Timeout, Finish
  <2>6. QED
    BY <2>1, <2>2, <2>3, <2>4, <2>5 DEF TypeOK
<1>8. CASE GateRefuses
  <2>1. FlagsOK'
    BY <1>8, Zenon DEF TypeOK, FlagsOK, GateRefuses
  <2>2. WorkerOK'
    BY <1>8 DEF TypeOK, WorkerOK, GateRefuses
  <2>3. LineOK'
    BY <1>8, Fronts, AnswerOK DEF GateRefuses, Line, Lines
  <2>4. DeviceOK'
    BY <1>8 DEF TypeOK, DeviceOK, GateRefuses
  <2>5. GuiOK'
    BY <1>8 DEF TypeOK, GuiOK, GateRefuses
  <2>6. QED
    BY <2>1, <2>2, <2>3, <2>4, <2>5 DEF TypeOK
<1>9. CASE BeginTransfer
  <2>1. FlagsOK'
    BY <1>9, Zenon DEF TypeOK, FlagsOK, BeginTransfer
  <2>2. WorkerOK'
    BY <1>9 DEF TypeOK, WorkerOK, BeginTransfer
  <2>3. LineOK'
    BY <1>9, AnswerOK DEF BeginTransfer, Take
  <2>4. DeviceOK'
    BY <1>9, Fronts DEF TypeOK, DeviceOK, BeginTransfer, Take, Line, Lines
  <2>5. GuiOK'
    BY <1>9 DEF TypeOK, GuiOK, BeginTransfer
  <2>6. QED
    BY <2>1, <2>2, <2>3, <2>4, <2>5 DEF TypeOK
<1>10. CASE ProgramChunk
  <2>1. FlagsOK'
    BY <1>10, Zenon DEF TypeOK, FlagsOK, ProgramChunk
  <2>2. WorkerOK'
    BY <1>10 DEF TypeOK, WorkerOK, ProgramChunk
  <2>3. LineOK'
    <3>1. Answer("program_chunk", "ack") \/ Answer("program_chunk", "nack")
      BY <1>10 DEF ProgramChunk
    <3>2. QED
      BY <1>10, <3>1, AnswerOK DEF ProgramChunk, Take
  <2>4. DeviceOK'
    <3> DEFINE chunk == [id |-> Line.id, index |-> Line.index]
    <3>1. chunk \in [id : Uploads, index : Nat]
      BY <1>10, Fronts DEF ProgramChunk, Take, Line, Lines
    <3>2. Append(xfer.got, chunk) \in Seq([id : Uploads, index : Nat])
      BY <3>1, Appended DEF TypeOK, DeviceOK
    <3>3. QED
      BY <1>10, <3>2 DEF TypeOK, DeviceOK, ProgramChunk
  <2>5. GuiOK'
    BY <1>10 DEF TypeOK, GuiOK, ProgramChunk
  <2>6. QED
    BY <2>1, <2>2, <2>3, <2>4, <2>5 DEF TypeOK
<1>11. CASE EndTransfer
  <2>1. FlagsOK'
    BY <1>11, Zenon DEF TypeOK, FlagsOK, EndTransfer
  <2>2. WorkerOK'
    BY <1>11 DEF TypeOK, WorkerOK, EndTransfer
  <2>3. LineOK'
    <3>1. \/ Answer("load_program", "nack") \/ Answer("load_program", "ack")
          \/ Answer("end_transfer", "nack")
      BY <1>11 DEF EndTransfer
    <3>2. QED
      BY <1>11, <3>1, AnswerOK DEF EndTransfer, Take
  <2>4. DeviceOK'
    <3>1. xfer' \in [of : Uploads \cup {Nothing},
                    got : Seq([id : Uploads, index : Nat])]
      BY <1>11 DEF EndTransfer
    <3>2. stored' \in Uploads \cup {Nothing}
      BY <1>11 DEF TypeOK, DeviceOK, EndTransfer
    <3>3. QED
      BY <1>11, <3>1, <3>2 DEF TypeOK, DeviceOK, EndTransfer
  <2>5. GuiOK'
    BY <1>11 DEF TypeOK, GuiOK, EndTransfer
  <2>6. QED
    BY <2>1, <2>2, <2>3, <2>4, <2>5 DEF TypeOK
<1>12. CASE Gate
  <2>1. FlagsOK'
    BY <1>12, Zenon DEF TypeOK, FlagsOK, Gate
  <2>2. WorkerOK'
    BY <1>12 DEF TypeOK, WorkerOK, Gate
  <2>3. LineOK'
    BY <1>12 DEF TypeOK, LineOK, Gate
  <2>4. DeviceOK'
    BY <1>12 DEF TypeOK, DeviceOK, Gate
  <2>5. GuiOK'
    BY <1>12 DEF TypeOK, GuiOK, Gate
  <2>6. QED
    BY <2>1, <2>2, <2>3, <2>4, <2>5 DEF TypeOK
<1>13. CASE UNCHANGED vars
  <2>1. FlagsOK'
    BY <1>13, Zenon DEF TypeOK, FlagsOK
  <2>2. WorkerOK'
    BY <1>13 DEF TypeOK, WorkerOK
  <2>3. LineOK'
    BY <1>13 DEF TypeOK, LineOK
  <2>4. DeviceOK'
    BY <1>13 DEF TypeOK, DeviceOK
  <2>5. GuiOK'
    BY <1>13 DEF TypeOK, GuiOK
  <2>6. QED
    BY <2>1, <2>2, <2>3, <2>4, <2>5 DEF TypeOK
<1>14. QED
  BY <1>1, <1>2, <1>3, <1>4, <1>5, <1>6, <1>7, <1>8, <1>9, <1>10, <1>11, <1>12,
     <1>13, Zenon DEF Next, Worker, Device

-----------------------------------------------------------------------------
(* The order of uploads                                                    *)

(* What a device action leaves of the line is in order.                    *)
LEMMA TailInTurn ==
    ASSUME TypeOK, InTurn, down # <<>>, down' = Tail(down), UNCHANGED workerVars
    PROVE  InTurn'
<1>1. /\ Len(down') = Len(down) - 1 /\ Len(down) \in Nat
      /\ \A k \in 1..Len(down') : down'[k] = down[k + 1]
  BY HeadAndTail DEF TypeOK, LineOK
<1>2. QED
  BY <1>1 DEF InTurn, Begun, TypeOK, WorkerOK

(* A line written for the upload that was begun last keeps it so.          *)
LEMMA WriteInTurn ==
    ASSUME TypeOK, InTurn, NEW c \in {"begin_transfer", "program_chunk", "end_transfer"},
           NEW index \in Nat, NEW id \in Uploads, Write(c, id, index),
           id = Begun', Begun \in Int, Begun <= id
    PROVE  /\ \A k \in 1..Len(down') : down'[k].id <= Begun'
           /\ \A j, k \in 1..Len(down') : j <= k => down'[j].id <= down'[k].id
<1> DEFINE line == [cmd |-> c, id |-> id, index |-> index]
<1>1. line \in Lines /\ line.id = id /\ down' = Append(down, line)
  BY DEF Lines, Write
<1> HIDE DEF line
<1>2. /\ Len(down') = Len(down) + 1 /\ Len(down) \in Nat
      /\ \A k \in 1..Len(down) : down'[k] = down[k]
      /\ down'[Len(down) + 1] = line
  BY <1>1, Appended DEF TypeOK, LineOK
<1>3. /\ id \in Int
      /\ \A k \in 1..Len(down) : down[k].id \in Int
  BY Members, UploadAssumption DEF Uploads, UploadAssumption
<1>4. \A k \in 1..Len(down') : k = Len(down) + 1 \/ k \in 1..Len(down)
  BY <1>2
<1>5. \A k \in 1..Len(down') : down'[k].id <= id
  BY <1>1, <1>2, <1>3, <1>4 DEF InTurn
<1>6. \A j, k \in 1..Len(down') : j <= k => down'[j].id <= down'[k].id
  <2> SUFFICES ASSUME NEW j \in 1..Len(down'), NEW k \in 1..Len(down'), j <= k
               PROVE  down'[j].id <= down'[k].id
    OBVIOUS
  <2>1. CASE k = Len(down) + 1
    BY <1>1, <1>2, <1>5, <2>1
  <2>2. CASE k \in 1..Len(down)
    <3>1. j \in 1..Len(down)
      BY <1>2, <2>2
    <3>2. QED
      BY <1>2, <2>2, <3>1 DEF InTurn
  <2>3. QED
    BY <1>4, <2>1, <2>2
<1>7. QED
  BY <1>5, <1>6

LEMMA InTurnStep == TypeOK /\ InTurn /\ [Next]_vars => InTurn'
<1> USE UploadAssumption DEF UploadAssumption, Uploads, Nothing
<1> SUFFICES ASSUME TypeOK, InTurn, [Next]_vars
             PROVE  InTurn'
  OBVIOUS
<1>0. queue \in Seq(Uploads) /\ Len(queue) \in Nat /\ last \in Nat /\ Begun \in Nat
  BY DEF TypeOK, WorkerOK, InTurn, Begun
<1>1. CASE HandOver
  <2>1. /\ Len(queue') = Len(queue) + 1 /\ queue'[Len(queue) + 1] = last + 1
        /\ \A k \in 1..Len(queue) : queue'[k] = queue[k]
    BY <1>0, <1>1, Appended DEF HandOver
  <2>2. Len(queue') <= last' /\ Begun' = Begun
    BY <1>0, <1>1, <2>1 DEF HandOver, InTurn, Begun
  <2>3. \A k \in 1..Len(queue') : queue'[k] = Begun' + k
    <3> SUFFICES ASSUME NEW k \in 1..Len(queue')
                 PROVE  queue'[k] = Begun' + k
      OBVIOUS
    <3>1. CASE k = Len(queue) + 1
      BY <1>0, <2>1, <2>2, <3>1 DEF Begun
    <3>2. CASE k \in 1..Len(queue)
      BY <2>1, <2>2, <3>2 DEF InTurn
    <3>3. QED
      BY <1>0, <2>1, <3>1, <3>2
  <2>4. QED
    BY <1>1, <2>2, <2>3 DEF HandOver, InTurn
<1>2. CASE BeginUpload
  <2>1. /\ Len(queue) \in Nat \ {0} /\ Head(queue) = queue[1] /\ queue[1] \in Uploads
        /\ Len(queue') = Len(queue) - 1
        /\ \A k \in 1..Len(queue') : queue'[k] = queue[k + 1]
    BY <1>0, <1>2, HeadAndTail DEF BeginUpload
  <2>2. Begun' = Begun + 1 /\ cur' = Begun' /\ cur' \in Uploads
    BY <1>0, <1>2, <2>1 DEF BeginUpload, InTurn, Begun
  <2>3. /\ \A k \in 1..Len(down') : down'[k].id <= Begun'
        /\ \A j, k \in 1..Len(down') : j <= k => down'[j].id <= down'[k].id
    BY <1>0, <1>2, <2>2, WriteInTurn DEF BeginUpload
  <2>4. /\ Len(queue') <= last'
        /\ \A k \in 1..Len(queue') : queue'[k] = Begun' + k
    BY <1>0, <1>2, <2>1, <2>2 DEF BeginUpload, InTurn
  <2>5. QED
    BY <1>2, <2>2, <2>3, <2>4 DEF BeginUpload, InTurn
<1>3. CASE Accepted
  <2>1. awaited # "loop" /\ cur = Begun /\ cur \in Uploads /\ Begun' = Begun
        /\ awaited' # "loop" /\ at \in Nat
    BY <1>3, Fronts DEF Accepted, IsAnswer, Answers, InTurn, Begun, TypeOK, WorkerOK
  <2>2. /\ \A k \in 1..Len(down') : down'[k].id <= Begun'
        /\ \A j, k \in 1..Len(down') : j <= k => down'[j].id <= down'[k].id
    BY <1>0, <1>3, <2>1, WriteInTurn DEF Accepted
  <2>3. QED
    BY <1>3, <2>1, <2>2 DEF Accepted, InTurn
<1>4. CASE Refused \/ Stored \/ Timeout
  BY <1>4 DEF Refused, Stored, Timeout, Finish, InTurn, Begun
<1>5. CASE ReadOther \/ Gate \/ UNCHANGED vars
  BY <1>5 DEF ReadOther, Gate, InTurn, Begun
<1>6. CASE Device
  BY <1>6, TailInTurn
     DEF Device, GateRefuses, BeginTransfer, ProgramChunk, EndTransfer, Take
<1>7. QED
  BY <1>1, <1>2, <1>3, <1>4, <1>5, <1>6, Zenon DEF Next, Worker

-----------------------------------------------------------------------------
(* Begin_transfer comes first                                              *)

(* A line taken by the device other than a begin_transfer.                 *)
LEMMA TailBeginFirst ==
    ASSUME TypeOK, InTurn, BeginComesFirst, gates = 0, UNCHANGED <<workerVars, countVars>>,
           down # <<>>, down' = Tail(down), ~IsBegin(1),
           xfer'.of \in {xfer.of, Nothing},
           \A k \in 1..Len(xfer'.got) : xfer'.got[k].id = xfer'.of
    PROVE  BeginComesFirst'
<1>1. /\ Len(down') = Len(down) - 1 /\ Len(down) \in Nat \ {0}
      /\ \A k \in 1..Len(down') : down'[k] = down[k + 1]
      /\ \A k \in 1..Len(down') : k + 1 \in 1..Len(down)
  BY HeadAndTail DEF TypeOK, LineOK
<1>2. /\ \A k \in 1..Len(down) : down[k].id \in Nat \ {0}
      /\ xfer.of \in Nat
  BY UploadAssumption, Members DEF TypeOK, LineOK, Lines, Uploads, UploadAssumption
<1>3. BeginsAscend'
  BY <1>1, <1>2 DEF BeginComesFirst, BeginsAscend, IsBegin, Nothing
<1>4. \A id, n : n \in 1..Len(down) /\ BeginPrecedes(id, n)
        => BeginPrecedes(id, n - 1)'
  BY <1>1 DEF BeginPrecedes, IsBegin
<1>5. \A k \in 1..Len(down') : IsBegin(k)' \/ BeginPrecedes(down[k].id, k - 1)'
  BY <1>1, <1>4 DEF BeginComesFirst, IsBegin
<1>6. (awaited # "loop" => BeginPrecedes(cur, Len(down)))'
  BY <1>1, <1>4 DEF BeginComesFirst
<1>7. OwnChunks'
  BY <1>2 DEF BeginComesFirst, OwnChunks, Begun, InTurn, Nothing, TypeOK, WorkerOK
<1>8. QED
  BY <1>3, <1>5, <1>6, <1>7 DEF BeginComesFirst

(* A line written by the worker, which follows the begin_transfer of its   *)
(* upload or is the begin_transfer.                                        *)
LEMMA WriteBeginFirst ==
    ASSUME TypeOK, InTurn, BeginComesFirst, gates = 0,
           UNCHANGED <<deviceVars, countVars>>,
           NEW c \in {"begin_transfer", "program_chunk", "end_transfer"},
           NEW index \in Nat, NEW id \in Uploads, Write(c, id, index),
           cur' = id, Begun' \in Nat,
           IF c = "begin_transfer" THEN Begun' = Begun + 1 /\ id = Begun'
                                   ELSE Begun' = Begun /\ id = cur /\ awaited # "loop"
    PROVE  BeginComesFirst'
<1> DEFINE line == [cmd |-> c, id |-> id, index |-> index]
<1>1. line \in Lines /\ line.id = id /\ line.cmd = c /\ down' = Append(down, line)
  BY DEF Lines, Write
<1> HIDE DEF line
<1>2. /\ Len(down') = Len(down) + 1 /\ Len(down) \in Nat
      /\ \A k \in 1..Len(down) : down'[k] = down[k]
      /\ down'[Len(down) + 1] = line
      /\ \A k \in 1..Len(down') : k \in 1..Len(down) \/ k = Len(down) + 1
  BY <1>1, Appended DEF TypeOK, LineOK
<1>3. /\ \A k \in 1..Len(down) : down[k].id \in Nat /\ down[k].id <= Begun
      /\ xfer.of \in Nat /\ Begun \in Nat /\ xfer.of <= Begun
      /\ id \in Nat
  <2>1. /\ \A k \in 1..Len(down) : down[k].id \in Nat /\ down[k].id <= Begun
        /\ xfer.of \in Nat /\ xfer.of <= Begun
    BY Members DEF InTurn, BeginComesFirst, OwnChunks
  <2>2. id \in Nat
    BY UploadAssumption DEF Uploads, UploadAssumption
  <2>3. last \in Nat /\ Len(queue) \in Nat /\ Len(queue) <= last
    BY UploadAssumption DEF InTurn, TypeOK, WorkerOK, UploadAssumption
  <2>4. QED
    BY <2>1, <2>2, <2>3 DEF Begun
<1>4. BeginsAscend'
  <2>1. \A k \in 1..Len(down') : IsBegin(k)' => xfer'.of < down'[k].id
    <3> SUFFICES ASSUME NEW k \in 1..Len(down'), IsBegin(k)'
                 PROVE  xfer.of < down'[k].id
      OBVIOUS
    <3>1. CASE k \in 1..Len(down)
      BY <1>2, <3>1 DEF BeginComesFirst, BeginsAscend, IsBegin
    <3>2. CASE k = Len(down) + 1
      BY <1>1, <1>2, <1>3, <3>2 DEF IsBegin
    <3>3. QED
      BY <1>2, <3>1, <3>2
  <2>2. \A j, k \in 1..Len(down') :
           j < k /\ IsBegin(j)' /\ IsBegin(k)' => down'[j].id < down'[k].id
    <3> SUFFICES ASSUME NEW j \in 1..Len(down'), NEW k \in 1..Len(down'),
                        j < k, IsBegin(j)', IsBegin(k)'
                 PROVE  down'[j].id < down'[k].id
      OBVIOUS
    <3>1. j \in 1..Len(down)
      BY <1>2
    <3>2. CASE k \in 1..Len(down)
      BY <1>2, <3>1, <3>2 DEF BeginComesFirst, BeginsAscend, IsBegin
    <3>3. CASE k = Len(down) + 1
      BY <1>1, <1>2, <1>3, <3>1, <3>3 DEF IsBegin
    <3>4. QED
      BY <1>2, <3>2, <3>3
  <2>3. QED
    BY <2>1, <2>2 DEF BeginsAscend
<1>5. \A i, n : n \in 0..Len(down) => (BeginPrecedes(i, n)' <=> BeginPrecedes(i, n))
  BY <1>2 DEF BeginPrecedes, IsBegin
<1>6. \A k \in 1..Len(down') : IsBegin(k)' \/ BeginPrecedes(down[k].id, k - 1)'
  <2> SUFFICES ASSUME NEW k \in 1..Len(down'), ~IsBegin(k)'
               PROVE  BeginPrecedes(down[k].id, k - 1)'
    OBVIOUS
  <2>1. CASE k \in 1..Len(down)
    <3>1. ~IsBegin(k) /\ down'[k] = down[k] /\ k - 1 \in 0..Len(down)
      BY <1>2, <2>1 DEF IsBegin
    <3>2. BeginPrecedes(down[k].id, k - 1)
      BY <2>1, <3>1 DEF BeginComesFirst
    <3>3. QED
      BY <1>5, <3>1, <3>2
  <2>2. CASE k = Len(down) + 1
    <3>1. down'[k] = line /\ c # "begin_transfer" /\ k - 1 = Len(down)
      BY <1>1, <1>2, <2>2 DEF IsBegin
    <3>2. BeginPrecedes(id, k - 1)
      BY <3>1 DEF BeginComesFirst
    <3>3. QED
      BY <1>1, <1>2, <1>5, <3>1, <3>2
  <2>3. QED
    BY <1>2, <2>1, <2>2
<1>7. BeginPrecedes(cur, Len(down))'
  <2>1. CASE c = "begin_transfer"
    BY <1>1, <1>2, <2>1 DEF BeginPrecedes, IsBegin
  <2>2. CASE c # "begin_transfer"
    <3>1. BeginPrecedes(id, Len(down))
      BY <2>2 DEF BeginComesFirst
    <3>2. \A k \in 1..Len(down') : IsBegin(k)' => k \in 1..Len(down)
      BY <1>1, <1>2, <2>2 DEF IsBegin
    <3>3. QED
      BY <1>2, <3>1, <3>2 DEF BeginPrecedes, IsBegin
  <2>3. QED
    BY <2>1, <2>2
<1>8. OwnChunks'
  BY <1>3 DEF BeginComesFirst, OwnChunks
<1>9. atRest'
  BY DEF BeginComesFirst
<1>10. QED
  BY <1>4, <1>6, <1>7, <1>8, <1>9 DEF BeginComesFirst

(* A begin_transfer taken by the device.                                   *)
LEMMA BeginBeginFirst ==
    ASSUME TypeOK, InTurn, BeginComesFirst, gates = 0, BeginTransfer
    PROVE  BeginComesFirst'
<1>1. /\ Len(down') = Len(down) - 1 /\ Len(down) \in Nat \ {0}
      /\ \A k \in 1..Len(down') : down'[k] = down[k + 1]
      /\ \A k \in 1..Len(down') : k + 1 \in 1..Len(down)
      /\ Line = down[1]
  BY HeadAndTail DEF TypeOK, LineOK, BeginTransfer, Take, Line
<1>2. IsBegin(1) /\ xfer'.of = down[1].id /\ xfer'.got = <<>>
  BY <1>1 DEF BeginTransfer, Take, IsBegin
<1>3. \A k \in 1..Len(down) : down[k].id \in Nat
  BY Members
<1>4. BeginsAscend'
  <2>1. \A j, k \in 1..Len(down) :
           j < k /\ IsBegin(j) /\ IsBegin(k) => down[j].id < down[k].id
    BY DEF BeginComesFirst, BeginsAscend
  <2>2. \A k \in 1..Len(down') : IsBegin(k)' => xfer'.of < down'[k].id
    <3> SUFFICES ASSUME NEW k \in 1..Len(down'), IsBegin(k)'
                 PROVE  xfer'.of < down'[k].id
      OBVIOUS
    <3>1. /\ 1 \in 1..Len(down) /\ k + 1 \in 1..Len(down) /\ 1 < k + 1
          /\ down'[k] = down[k + 1]
      BY <1>1
    <3>2. IsBegin(k + 1)
      BY <3>1 DEF IsBegin
    <3>3. down[1].id < down[k + 1].id
      BY <1>2, <2>1, <3>1, <3>2
    <3>4. QED
      BY <1>2, <3>1, <3>3
  <2>3. \A j, k \in 1..Len(down') :
           j < k /\ IsBegin(j)' /\ IsBegin(k)' => down'[j].id < down'[k].id
    <3> SUFFICES ASSUME NEW j \in 1..Len(down'), NEW k \in 1..Len(down'),
                        j < k, IsBegin(j)', IsBegin(k)'
                 PROVE  down'[j].id < down'[k].id
      OBVIOUS
    <3>1. /\ j + 1 \in 1..Len(down) /\ k + 1 \in 1..Len(down) /\ j + 1 < k + 1
          /\ down'[j] = down[j + 1] /\ down'[k] = down[k + 1]
      BY <1>1
    <3>2. IsBegin(j + 1) /\ IsBegin(k + 1)
      BY <3>1 DEF IsBegin
    <3>3. QED
      BY <2>1, <3>1, <3>2
  <2>4. QED
    BY <2>2, <2>3 DEF BeginsAscend
<1>5. ASSUME NEW n \in 1..Len(down), NEW m \in Nat, m = n - 1,
             NEW id \in Nat, BeginPrecedes(id, n),
             \A j \in 1..n : down[j].id <= id
      PROVE  BeginPrecedes(id, m)'
  <2>1. PICK j \in 1..n : IsBegin(j) /\ down[j].id = id
    BY <1>2, <1>5 DEF BeginPrecedes
  <2>2. CASE j = 1
    <3>1. \A i \in 2..n : ~IsBegin(i)
      <4> SUFFICES ASSUME NEW i \in 2..n, IsBegin(i)
                   PROVE  FALSE
        OBVIOUS
      <4>1. down[1].id < down[i].id
        BY <1>2 DEF BeginComesFirst, BeginsAscend
      <4>2. down[i].id <= id
        BY <1>5
      <4>3. QED
        BY <1>3, <2>1, <2>2, <4>1, <4>2
    <3>2. \A i \in 1..m : ~IsBegin(i)'
      BY <1>1, <1>5, <3>1 DEF IsBegin
    <3>3. QED
      BY <1>2, <2>1, <2>2, <3>2 DEF BeginPrecedes
  <2>3. CASE j # 1
    <3>1. j - 1 \in 1..m /\ j - 1 \in 1..Len(down')
      BY <1>1, <1>5, <2>3
    <3>2. IsBegin(j - 1)' /\ down'[j - 1].id = id
      BY <1>1, <2>1, <3>1 DEF IsBegin
    <3>3. QED
      BY <3>1, <3>2 DEF BeginPrecedes
  <2>4. QED
    BY <2>2, <2>3
<1>6. \A k \in 1..Len(down') : IsBegin(k)' \/ BeginPrecedes(down[k].id, k - 1)'
  <2> SUFFICES ASSUME NEW k \in 1..Len(down'), ~IsBegin(k)'
               PROVE  BeginPrecedes(down[k].id, k - 1)'
    OBVIOUS
  <2>1. k + 1 \in 1..Len(down) /\ down'[k] = down[k + 1] /\ ~IsBegin(k + 1)
    BY <1>1 DEF IsBegin
  <2>2. BeginPrecedes(down[k + 1].id, k)
    BY <2>1 DEF BeginComesFirst
  <2>3. \A j \in 1..k : down[j].id <= down[k + 1].id
    BY <2>1 DEF InTurn
  <2>4. k \in 1..Len(down) /\ k - 1 \in Nat /\ down[k + 1].id \in Nat
    BY <1>1, <1>3, <2>1
  <2>5. BeginPrecedes(down[k].id, k - 1)'
    BY <1>5, <2>1, <2>2, <2>3, <2>4
  <2>6. QED
    BY <2>5
<1>7. (awaited # "loop" => BeginPrecedes(cur, Len(down)))'
  <2> SUFFICES ASSUME awaited # "loop"
               PROVE  BeginPrecedes(cur, Len(down))'
    BY DEF BeginTransfer
  <2>1. cur \in Nat /\ \A j \in 1..Len(down) : down[j].id <= cur
    BY UploadAssumption DEF InTurn, Uploads, UploadAssumption
  <2>2. BeginPrecedes(cur, Len(down))
    BY DEF BeginComesFirst
  <2>3. Len(down) \in 1..Len(down) /\ Len(down') \in Nat /\ cur' = cur
    BY <1>1 DEF BeginTransfer
  <2>4. QED
    BY <1>1, <1>5, <2>1, <2>2, <2>3
<1>8. OwnChunks'
  BY <1>1, <1>2 DEF OwnChunks, InTurn, Begun, BeginTransfer
<1>9. atRest'
  BY DEF BeginComesFirst, BeginTransfer
<1>10. QED
  BY <1>4, <1>6, <1>7, <1>8, <1>9 DEF BeginComesFirst

LEMMA BeginFirstStep ==
    TypeOK /\ InTurn /\ BeginComesFirst /\ [Next]_vars => BeginComesFirst'
<1> USE UploadAssumption DEF UploadAssumption, Nothing
<1> SUFFICES ASSUME TypeOK, InTurn, BeginComesFirst, [Next]_vars, gates' = 0
             PROVE  BeginComesFirst'
  BY DEF BeginComesFirst
<1>0. gates = 0 /\ atRest /\ ~Gate /\ ~GateRefuses
  BY DEF TypeOK, DeviceOK, Next, Worker, Device, HandOver, BeginUpload, ReadOther,
         Refused, Accepted, Stored, Timeout, GateRefuses, BeginTransfer,
         ProgramChunk, EndTransfer, Gate, BeginComesFirst
<1>1. CASE HandOver \/ ReadOther \/ Refused \/ Stored \/ Timeout \/ UNCHANGED vars
  <2>1. UNCHANGED <<down, deviceVars, countVars>>
        /\ (awaited' # "loop" => awaited' = awaited /\ cur' = cur)
    BY <1>1 DEF HandOver, ReadOther, Refused, Stored, Timeout, Finish
  <2>2. Begun' = Begun
    BY <1>1, Appended DEF HandOver, ReadOther, Refused, Stored, Timeout, Finish,
       Begun, TypeOK, WorkerOK, Uploads
  <2>3. \A id, n : BeginPrecedes(id, n)' <=> BeginPrecedes(id, n)
    BY <2>1 DEF BeginPrecedes, IsBegin
  <2>4. BeginsAscend' /\ OwnChunks'
    BY <1>0, <2>1, <2>2
       DEF BeginComesFirst, BeginsAscend, OwnChunks, IsBegin
  <2>5. QED
    BY <1>0, <2>1, <2>3, <2>4 DEF BeginComesFirst, IsBegin
<1>2. CASE BeginUpload
  <2>1. /\ Head(queue) \in Uploads /\ Begun' = Begun + 1 /\ Begun' \in Nat
        /\ Head(queue) = Begun'
    <3>1. /\ Len(queue) \in Nat \ {0} /\ Head(queue) = queue[1] /\ queue[1] \in Uploads
          /\ Len(queue') = Len(queue) - 1
      BY <1>2, HeadAndTail DEF BeginUpload, TypeOK, WorkerOK
    <3>2. QED
      BY <1>2, <3>1 DEF BeginUpload, InTurn, Begun, TypeOK, WorkerOK
  <2>2. QED
    BY <1>0, <1>2, <2>1, WriteBeginFirst DEF BeginUpload
<1>3. CASE Accepted
  <2>1. /\ awaited # "loop" /\ cur \in Uploads /\ at \in Nat /\ cur' = cur
        /\ Begun' = Begun /\ Begun \in Nat
    BY <1>3, Fronts
       DEF Accepted, IsAnswer, Answers, InTurn, Begun, TypeOK, WorkerOK
  <2>2. QED
    BY <1>0, <1>3, <2>1, WriteBeginFirst DEF Accepted
<1>4. CASE BeginTransfer
  BY <1>0, <1>4, BeginBeginFirst
<1>5. CASE ProgramChunk
  <2>1. ~IsBegin(1) /\ down # <<>> /\ down' = Tail(down) /\ Line = down[1]
        /\ 1 \in 1..Len(down) /\ UNCHANGED <<workerVars, countVars>>
    BY <1>5, HeadAndTail DEF ProgramChunk, Take, IsBegin, Line, TypeOK, LineOK
  <2>2. xfer.of \in {down[1].id, Nothing}
    BY <1>0, <2>1 DEF BeginComesFirst, BeginPrecedes
  <2>3. \A k \in 1..Len(xfer.got) : xfer.got[k].id = xfer.of
    BY <1>0 DEF BeginComesFirst, OwnChunks
  <2>4. CASE ~InOrder
    BY <1>0, <1>5, <2>1, <2>3, <2>4, TailBeginFirst DEF ProgramChunk
  <2>5. CASE InOrder
    <3>1. xfer.of = down[1].id
      BY <2>2, <2>5 DEF InOrder
    <3> DEFINE chunk == [id |-> Line.id, index |-> Line.index]
    <3>2. xfer'.got = Append(xfer.got, chunk) /\ xfer'.of = xfer.of
      BY <1>5, <2>5 DEF ProgramChunk, TypeOK, DeviceOK
    <3>3. chunk \in [id : Uploads, index : Nat] /\ chunk.id = xfer.of
      BY <2>1, <3>1, Fronts DEF Line, Lines
    <3> HIDE DEF chunk
    <3>4. /\ Len(xfer'.got) = Len(xfer.got) + 1
          /\ \A k \in 1..Len(xfer.got) : xfer'.got[k] = xfer.got[k]
          /\ xfer'.got[Len(xfer.got) + 1] = chunk
      BY <3>2, <3>3, Appended DEF TypeOK, DeviceOK
    <3>5. \A k \in 1..Len(xfer'.got) : xfer'.got[k].id = xfer'.of
      BY <2>3, <3>2, <3>3, <3>4, Members
    <3>6. QED
      BY <1>0, <2>1, <3>2, <3>5, TailBeginFirst
  <2>6. QED
    BY <2>4, <2>5
<1>6. CASE EndTransfer
  <2>1. ~IsBegin(1) /\ down # <<>> /\ down' = Tail(down)
        /\ UNCHANGED <<workerVars, countVars>>
    BY <1>6, HeadAndTail DEF EndTransfer, Take, IsBegin, Line, TypeOK, LineOK
  <2>2. xfer'.of = Nothing /\ xfer'.got = <<>>
    BY <1>6 DEF EndTransfer, NoTransfer
  <2>3. QED
    BY <1>0, <2>1, <2>2, TailBeginFirst
<1>7. QED
  BY <1>0, <1>1, <1>2, <1>3, <1>4, <1>5, <1>6, Zenon DEF Next, Worker, Device

-----------------------------------------------------------------------------
(* One line or answer at a time                                            *)

LEMMA SuffixNoReal ==
    ASSUME TypeOK, NEW d \in 0..Len(up), Without(up', up, d),
           \A k \in 1..Len(up) : Real(k) => k <= d
    PROVE  NoReal'
<1>1. Len(up) \in Nat
  BY Members
<1>2. SUFFICES ASSUME NEW k \in 1..Len(up')
               PROVE  ~Real(k)'
  BY DEF NoReal
<1>3. k + d \in 1..Len(up) /\ ~(k + d <= d) /\ up'[k] = up[k + d]
  BY <1>1 DEF Without
<1>4. QED
  BY <1>3 DEF Real

(* The device answers the line that is under way.                          *)
LEMMA AnswerInStep ==
    ASSUME TypeOK, InTurn, InStep, ~late, down # <<>>, down' = Tail(down),
           NEW k \in {"ack", "nack"},
           NEW c \in {"begin_transfer", "program_chunk", "end_transfer",
                      "load_program"},
           Answer(c, k), UNCHANGED workerVars,
           c \in {awaited, "end_transfer"},
           k = "ack" /\ awaited # "load_program" => Receiving'
    PROVE  InStep'
<1> DEFINE m == [cmd |-> c, kind |-> k, id |-> Line.id]
<1>1. /\ Len(down) = 1 /\ down[1].id = cur /\ NoReal
      /\ awaited # "loop"
  BY DEF InStep
<1>2. down' = <<>> /\ Line = down[1]
  BY <1>1, HeadAndTail DEF TypeOK, LineOK, Line
<1>3. m \in Answers /\ m.cmd = c /\ m.kind = k /\ m.id = cur /\ up' = Append(up, m)
  BY <1>1, <1>2, Fronts DEF Answers, Lines, Line, Answer
<1> HIDE DEF m
<1>4. /\ Len(up') = Len(up) + 1 /\ Len(up) \in Nat
      /\ \A j \in 1..Len(up) : up'[j] = up[j]
      /\ up'[Len(up) + 1] = m
  BY <1>3, Appended DEF TypeOK, LineOK
<1>5. \A j \in 1..Len(up') : Real(j)' => j = Len(up) + 1
  BY <1>1, <1>4 DEF NoReal, Real
<1>6. \A j \in 1..Len(up') : Real(j)' =>
          /\ up'[j].cmd = awaited /\ up'[j].id = cur
          /\ up'[j].kind = "ack" /\ awaited # "load_program" => Receiving'
  BY <1>3, <1>4, <1>5 DEF Real
<1>7. QED
  BY <1>1, <1>2, <1>5, <1>6 DEF InStep

(* The worker reads what it awaits: nothing is under way any more.         *)
LEMMA ReadInStep ==
    ASSUME TypeOK, InTurn, InStep, ~late, up # <<>>, IsAnswer(Head(up)), up' \in Rest
    PROVE  /\ down = <<>> /\ NoReal' /\ awaited # "loop"
           /\ Head(up).id = cur
           /\ Head(up).kind = "ack" /\ awaited # "load_program" => Receiving
<1>1. /\ Head(up) = up[1] /\ up[1] \in Answers /\ 1 \in 1..Len(up)
  BY HeadAndTail DEF TypeOK, LineOK
<1>2. Real(1)
  BY <1>1 DEF IsAnswer, Real, Answers, TypeOK, WorkerOK
<1>3. /\ awaited # "loop" /\ down = <<>> /\ up[1].id = cur
      /\ up[1].kind = "ack" /\ awaited # "load_program" => Receiving
      /\ \A j \in 1..Len(up) : Real(j) => j = 1
  BY <1>1, <1>2 DEF InStep, NoReal
<1>4. PICK d \in 1..Len(up) : Without(up', up, d)
  BY RestIsSuffix
<1>5. NoReal'
  BY <1>3, <1>4, SuffixNoReal, Members
<1>6. QED
  BY <1>1, <1>3, <1>5

LEMMA InStepStep ==
    TypeOK /\ InTurn /\ InStep /\ [Next]_vars => InStep'
<1> SUFFICES ASSUME TypeOK, InTurn, InStep, [Next]_vars, ~late'
             PROVE  InStep'
  BY DEF InStep
<1>0. ~late
  BY Zenon DEF Next, Worker, Device, HandOver, BeginUpload, ReadOther,
         Refused, Accepted, Stored, Timeout, GateRefuses, BeginTransfer,
         ProgramChunk, EndTransfer, Gate
<1>1. CASE HandOver \/ Gate \/ UNCHANGED vars
  BY <1>0, <1>1 DEF HandOver, Gate, InStep, NoReal, Real, Sent, Receiving, IsBegin
<1>2. CASE BeginUpload
  <2>1. down = <<>> /\ NoReal
    BY <1>0, <1>2 DEF BeginUpload, InStep
  <2>2. NoReal'
    BY <1>2, <2>1, TornIsSuffix, SuffixNoReal DEF BeginUpload, NoReal
  <2>3. down' = << [cmd |-> "begin_transfer", id |-> cur', index |-> 0] >>
    BY <1>2, <2>1 DEF BeginUpload, Write
  <2>4. awaited' = "begin_transfer"
    BY <1>2 DEF BeginUpload
  <2>5. QED
    BY <2>2, <2>3, <2>4 DEF InStep, NoReal, IsBegin, Sent
<1>3. CASE ReadOther
  <2>1. /\ up # <<>> /\ Len(up) \in Nat \ {0} /\ Len(up') = Len(up) - 1
        /\ \A k \in 1..Len(up') : up'[k] = up[k + 1] /\ k + 1 \in 1..Len(up)
    BY <1>3, HeadAndTail DEF ReadOther, TypeOK, LineOK
  <2>2. UNCHANGED <<workerVars, down, deviceVars>>
    BY <1>3 DEF ReadOther
  <2>3. NoReal => NoReal'
    BY <2>1 DEF NoReal, Real
  <2>4. ASSUME NEW k \in 1..Len(up'), Real(k)'
        PROVE  /\ up'[k].cmd = awaited /\ up'[k].id = cur
               /\ up'[k].kind = "ack" /\ awaited # "load_program" => Receiving
               /\ \A j \in 1..Len(up') : Real(j)' => j = k
    <3>1. /\ k + 1 \in 1..Len(up) /\ Real(k + 1) /\ up'[k] = up[k + 1]
          /\ \A j \in 1..Len(up') : Real(j)' => Real(j + 1) /\ j + 1 \in 1..Len(up)
      BY <2>1, <2>4 DEF Real
    <3>2. QED
      BY <1>0, <3>1 DEF InStep
  <2>5. QED
    BY <1>0, <2>2, <2>3, <2>4 DEF InStep, Receiving, IsBegin, Sent
<1>4. CASE Refused \/ Stored
  <2>1. down = <<>> /\ NoReal'
    BY <1>0, <1>4, ReadInStep DEF Refused, Stored
  <2>2. QED
    BY <1>4, <2>1 DEF Refused, Stored, Finish, InStep, NoReal
<1>5. CASE Accepted
  <2>1. down = <<>> /\ NoReal' /\ Receiving
    BY <1>0, <1>5, ReadInStep DEF Accepted
  <2>2. /\ awaited' \in {"program_chunk", "load_program"} /\ cur' = cur
        /\ Receiving'
        /\ \E i \in Nat : down' = << [cmd |-> Sent', id |-> cur, index |-> i] >>
    BY <1>5, <2>1 DEF Accepted, Write, Receiving, Sent, TypeOK, WorkerOK
  <2>3. QED
    BY <2>1, <2>2 DEF InStep, NoReal
<1>6. CASE Timeout
  <2>1. ~Outstanding /\ awaited # "loop"
    BY <1>6, Zenon DEF Timeout
  <2>2. down = <<>> /\ NoReal
    BY <1>0, <2>1 DEF Outstanding, InStep, IsAnswer, NoReal
  <2>3. NoReal'
    BY <1>6, <2>2, TornIsSuffix, SuffixNoReal DEF Timeout, NoReal
  <2>4. QED
    BY <1>6, <2>2, <2>3 DEF Timeout, Finish, InStep, NoReal
<1>7. CASE Device
  <2>1. /\ down # <<>> /\ down' = Tail(down) /\ Line = down[1]
        /\ UNCHANGED workerVars
    BY <1>7, HeadAndTail
       DEF Device, GateRefuses, BeginTransfer, ProgramChunk, EndTransfer, Take,
           Line, TypeOK, LineOK
  <2>2. /\ Line.id = cur /\ Line.cmd = Sent /\ awaited # "loop"
        /\ ~IsBegin(1) => Receiving
    BY <1>0, <2>1 DEF InStep
  <2>3. CASE GateRefuses
    <3>1. Line.cmd \in {awaited, "end_transfer"}
      BY <2>2 DEF Sent
    <3>2. QED
      BY <1>0, <2>1, <2>3, <3>1, Fronts, AnswerInStep DEF GateRefuses, Lines, Line
  <2>4. CASE BeginTransfer
    <3>1. awaited = "begin_transfer"
      BY <2>2, <2>4 DEF BeginTransfer, Take, Sent, Line
    <3>2. Receiving'
      BY <2>1, <2>2, <2>4 DEF BeginTransfer, Receiving
    <3>3. QED
      BY <1>0, <2>1, <2>4, <3>1, <3>2, AnswerInStep DEF BeginTransfer
  <2>5. CASE ProgramChunk
    <3>1. awaited = "program_chunk" /\ Receiving
      BY <2>1, <2>2, <2>5 DEF ProgramChunk, Take, Sent, Line, IsBegin
    <3>2. CASE ~InOrder
      BY <1>0, <2>1, <2>5, <3>1, <3>2, AnswerInStep DEF ProgramChunk
    <3>3. CASE InOrder
      <4> DEFINE chunk == [id |-> Line.id, index |-> Line.index]
      <4>1. xfer'.got = Append(xfer.got, chunk) /\ xfer'.of = xfer.of
        BY <2>5, <3>3 DEF ProgramChunk, TypeOK, DeviceOK
      <4>2. chunk \in [id : Uploads, index : Nat] /\ chunk.id = cur
        BY <2>1, <2>2, Fronts DEF Line, Lines
      <4> HIDE DEF chunk
      <4>3. /\ Len(xfer'.got) = Len(xfer.got) + 1
            /\ \A k \in 1..Len(xfer.got) : xfer'.got[k] = xfer.got[k]
            /\ xfer'.got[Len(xfer.got) + 1] = chunk
        BY <4>1, <4>2, Appended DEF TypeOK, DeviceOK
      <4>4. \A k \in 1..Len(xfer'.got) : xfer'.got[k].id = cur
        <5>1. \A k \in 1..Len(xfer'.got) : k \in 1..Len(xfer.got) \/ k = Len(xfer.got) + 1
          BY <4>3, Members
        <5>2. QED
          BY <3>1, <4>2, <4>3, <5>1 DEF Receiving
      <4>5. Receiving'
        BY <2>1, <3>1, <4>1, <4>4 DEF Receiving
      <4>6. QED
        BY <1>0, <2>1, <2>5, <3>1, <3>3, <4>5, AnswerInStep DEF ProgramChunk
    <3>4. QED
      BY <3>2, <3>3
  <2>6. CASE EndTransfer
    <3>1. awaited = "load_program"
      BY <2>1, <2>2, <2>6 DEF EndTransfer, Take, Sent, Line, TypeOK, WorkerOK
    <3>2. \/ Answer("load_program", "nack") \/ Answer("load_program", "ack")
          \/ Answer("end_transfer", "nack")
      BY <2>6 DEF EndTransfer
    <3>3. QED
      BY <1>0, <2>1, <3>1, <3>2, AnswerInStep
  <2>7. QED
    BY <1>7, <2>3, <2>4, <2>5, <2>6 DEF Device
<1>8. QED
  BY <1>1, <1>2, <1>3, <1>4, <1>5, <1>6, <1>7, Zenon DEF Next, Worker

-----------------------------------------------------------------------------
(* What is said to be stored is                                            *)

(* A complete transfer is of the upload whose end_transfer completes it.   *)
LEMMA WholeIsOwn ==
    ASSUME TypeOK, InTurn, BeginComesFirst, InStep, ~Confused, down # <<>>,
           down[1].cmd = "end_transfer", Counted,
           NEW u \in Uploads, Whole(u, xfer.got)
    PROVE  u = down[1].id
<1>1. 1 \in 1..Len(down) /\ ~IsBegin(1)
  BY HeadAndTail DEF TypeOK, LineOK, IsBegin
<1>2. 1 \in 1..Len(xfer.got) /\ xfer.got[1].id = u
  <2>1. Chunks[u] \in Nat \ {0}
    BY UploadAssumption DEF UploadAssumption
  <2>2. Len(xfer.got) = Chunks[u]
    BY DEF Whole
  <2>3. 1 \in 1..Len(xfer.got)
    BY <2>1, <2>2
  <2>4. xfer.got[1] = [id |-> u, index |-> 1 - 1]
    BY <2>3 DEF Whole
  <2>5. QED
    BY <2>3, <2>4
<1>3. CASE ~late
  BY <1>1, <1>2, <1>3 DEF InStep, Receiving
<1>4. CASE gates = 0
  <2>1. BeginPrecedes(down[1].id, 0) /\ OwnChunks
    BY <1>1, <1>4 DEF BeginComesFirst
  <2>2. xfer.of = down[1].id
    BY <2>1 DEF BeginPrecedes, Counted
  <2>3. QED
    BY <1>2, <2>1, <2>2 DEF OwnChunks
<1>5. QED
  BY <1>3, <1>4 DEF Confused, TypeOK, DeviceOK

(* Lines leave the front and join the end, acks leave the front.           *)
LEMMA TailBelow ==
    ASSUME TypeOK, InTurn, StoredBelow, down # <<>>, down' = Tail(down),
           UNCHANGED workerVars, stored' \in {stored, down[1].id}
    PROVE  StoredBelow' /\ stored <= stored'
<1>1. /\ Len(down') = Len(down) - 1 /\ Len(down) \in Nat \ {0}
      /\ \A k \in 1..Len(down') : down'[k] = down[k + 1] /\ k + 1 \in 1..Len(down)
  BY HeadAndTail DEF TypeOK, LineOK
<1>2. 1 \in 1..Len(down) /\ stored <= down[1].id /\ stored \in Int
  BY <1>1, UploadAssumption
     DEF StoredBelow, TypeOK, DeviceOK, Uploads, UploadAssumption, Nothing
<1>3. \A k \in 1..Len(down') : stored' <= down'[k].id
  BY <1>1, <1>2 DEF StoredBelow, InTurn
<1>4. (awaited # "loop" => stored <= cur)'
  BY <1>2 DEF StoredBelow, InTurn
<1>5. (stored <= Begun)'
  BY <1>2 DEF StoredBelow, InTurn, Begun
<1>6. stored <= stored'
  BY <1>2
<1>7. QED
  BY <1>3, <1>4, <1>5, <1>6 DEF StoredBelow

LEMMA WriteBelow ==
    ASSUME TypeOK, StoredBelow, NEW c \in {"begin_transfer", "program_chunk", "end_transfer"},
           NEW index \in Nat, NEW id \in Uploads, Write(c, id, index),
           UNCHANGED stored, cur' = id, stored <= id, stored <= Begun'
    PROVE  StoredBelow'
<1> DEFINE line == [cmd |-> c, id |-> id, index |-> index]
<1>1. line \in Lines /\ line.id = id /\ down' = Append(down, line)
  BY DEF Lines, Write
<1> HIDE DEF line
<1>2. /\ Len(down') = Len(down) + 1 /\ Len(down) \in Nat
      /\ \A k \in 1..Len(down) : down'[k] = down[k]
      /\ down'[Len(down) + 1] = line
      /\ \A k \in 1..Len(down') : k \in 1..Len(down) \/ k = Len(down) + 1
  BY <1>1, Appended DEF TypeOK, LineOK
<1>3. QED
  BY <1>1, <1>2 DEF StoredBelow

LEMMA SuffixAcks ==
    ASSUME TypeOK, AcksBelow, NEW d \in 0..Len(up), Without(up', up, d),
           UNCHANGED stored,
           belief' \in {belief} \cup {up[k].id : k \in {i \in 1..Len(up) : IsStoredAck(up[i])}}
    PROVE  AcksBelow'
<1>1. \A k \in 1..Len(up') : k + d \in 1..Len(up) /\ up'[k] = up[k + d]
  BY Members DEF Without
<1>2. \A k \in 1..Len(up') : IsStoredAck(up'[k]) => up'[k].id <= stored
  BY <1>1 DEF AcksBelow
<1>3. belief' <= stored
  BY DEF AcksBelow
<1>4. QED
  BY <1>2, <1>3 DEF AcksBelow

LEMMA AnswerAcks ==
    ASSUME TypeOK, AcksBelow, NEW k \in {"ack", "nack"}, down # <<>>,
           NEW c \in {"begin_transfer", "program_chunk", "end_transfer",
                      "load_program"},
           Answer(c, k), UNCHANGED belief, stored <= stored', stored' \in Int,
           c = "load_program" /\ k = "ack" => Line.id <= stored'
    PROVE  AcksBelow'
<1> DEFINE m == [cmd |-> c, kind |-> k, id |-> Line.id]
<1>1. m \in Answers /\ m.id = Line.id /\ up' = Append(up, m)
      /\ (IsStoredAck(m) => m.id <= stored')
  BY Fronts DEF Answers, Lines, Line, Answer, IsStoredAck
<1> HIDE DEF m
<1>2. /\ Len(up') = Len(up) + 1 /\ Len(up) \in Nat
      /\ \A j \in 1..Len(up) : up'[j] = up[j]
      /\ up'[Len(up) + 1] = m
      /\ \A j \in 1..Len(up') : j \in 1..Len(up) \/ j = Len(up) + 1
  BY <1>1, Appended DEF TypeOK, LineOK
<1>3. stored \in Int /\ belief \in Int
  BY UploadAssumption
     DEF TypeOK, DeviceOK, GuiOK, Uploads, UploadAssumption, Nothing
<1>4. \A j \in 1..Len(up') : IsStoredAck(up'[j]) => up'[j].id <= stored'
  BY <1>1, <1>2, <1>3, Members DEF AcksBelow
<1>5. belief' <= stored'
  BY <1>3 DEF AcksBelow
<1>6. QED
  BY <1>4, <1>5 DEF AcksBelow

LEMMA StoredStep ==
    IInv /\ [Next]_vars => StoredInOrder'
<1> SUFFICES ASSUME IInv, [Next]_vars, ~Confused'
             PROVE  (StoredBelow /\ AcksBelow)'
  BY DEF StoredInOrder
<1>0. /\ TypeOK /\ InTurn /\ BeginComesFirst /\ InStep
      /\ ~Confused /\ StoredBelow /\ AcksBelow
  <2>1. late => late'
    BY Zenon DEF Next, Worker, Device, HandOver, BeginUpload, ReadOther,
           Refused, Accepted, Stored, Timeout, GateRefuses, BeginTransfer,
           ProgramChunk, EndTransfer, Gate
  <2>2. gates > 0 => gates' > 0
    BY DEF IInv, TypeOK, DeviceOK, Next, Worker, Device, HandOver, BeginUpload,
           ReadOther, Refused, Accepted, Stored, Timeout, GateRefuses,
           BeginTransfer, ProgramChunk, EndTransfer, Gate
  <2>3. ~Confused
    BY <2>1, <2>2, Zenon DEF Confused
  <2>4. QED
    BY <2>3 DEF IInv, StoredInOrder
<1>a. /\ stored \in Nat /\ Begun \in Int /\ Begun <= last
      /\ Len(queue) \in Nat /\ last \in Nat
  BY <1>0, UploadAssumption
     DEF TypeOK, WorkerOK, DeviceOK, Uploads, UploadAssumption, Nothing, Begun
<1>1. CASE HandOver
  <2>1. Begun' = Begun
    BY <1>0, <1>1 DEF HandOver, Begun, TypeOK, WorkerOK
  <2>2. QED
    BY <1>0, <1>1, <2>1 DEF HandOver, StoredBelow, AcksBelow, IsStoredAck
<1>2. CASE Gate \/ UNCHANGED vars
  BY <1>0, <1>2 DEF Gate, StoredBelow, AcksBelow, IsStoredAck, Begun
<1>3. CASE BeginUpload
  <2>1. Begun' = Begun + 1 /\ Head(queue) = Begun + 1
    BY <1>0, <1>3, <1>a, HeadAndTail
       DEF BeginUpload, InTurn, Begun, TypeOK, WorkerOK
  <2>2. Head(queue) \in Uploads /\ stored <= Head(queue) /\ stored <= Begun'
    BY <1>0, <1>3, <1>a, <2>1, Fronts DEF BeginUpload, StoredBelow
  <2>3. StoredBelow'
    BY <1>0, <1>3, <2>2, WriteBelow DEF BeginUpload
  <2>4. PICK d \in 0..Len(up) : Without(up', up, d)
    BY <1>0, <1>3, TornIsSuffix DEF BeginUpload
  <2>5. AcksBelow'
    BY <1>0, <1>3, <2>4, SuffixAcks DEF BeginUpload
  <2>6. QED
    BY <2>3, <2>5
<1>4. CASE ReadOther \/ Refused \/ Stored \/ Timeout
  <2>1. StoredBelow'
    BY <1>0, <1>4, <1>a
       DEF ReadOther, Refused, Stored, Timeout, Finish, StoredBelow, Begun
  <2>2. PICK d \in 0..Len(up) : Without(up', up, d)
    <3>1. CASE ReadOther
      <4>1. up # <<>> /\ up' = Tail(up) /\ up' \in Torn
        BY <3>1 DEF ReadOther, Torn
      <4>2. QED
        BY <1>0, <4>1, TornIsSuffix
    <3>2. CASE Refused \/ Stored
      <4>1. PICK d \in 1..Len(up) : Without(up', up, d)
        BY <1>0, <3>2, RestIsSuffix DEF Refused, Stored
      <4>2. d \in 0..Len(up)
        BY <1>0, <4>1, Members
      <4>3. QED
        BY <4>1, <4>2
    <3>3. CASE Timeout
      BY <1>0, <3>3, TornIsSuffix DEF Timeout
    <3>4. QED
      BY <1>4, <3>1, <3>2, <3>3
  <2>3. belief' = belief \/ (up # <<>> /\ IsStoredAck(up[1]) /\ belief' = up[1].id)
    <3>1. up # <<>> => Head(up) = up[1]
      BY <1>0, HeadAndTail DEF TypeOK, LineOK
    <3>2. QED
      BY <1>4, <3>1
         DEF ReadOther, Refused, Stored, Timeout, Finish, Forward, IsAnswer,
             IsStoredAck
  <2>4. up # <<>> => 1 \in 1..Len(up)
    BY <1>0, HeadAndTail DEF TypeOK, LineOK
  <2>5. belief' \in {belief} \cup {up[k].id : k \in {i \in 1..Len(up) : IsStoredAck(up[i])}}
    BY <2>3, <2>4
  <2>6. UNCHANGED stored
    BY <1>4 DEF ReadOther, Refused, Stored, Timeout
  <2>7. AcksBelow'
    BY <1>0, <2>2, <2>5, <2>6, SuffixAcks
  <2>8. QED
    BY <2>1, <2>7
<1>5. CASE Accepted
  <2>1. awaited # "loop" /\ cur \in Uploads /\ at \in Nat
    BY <1>0, <1>5, Fronts
       DEF Accepted, IsAnswer, Answers, InTurn, TypeOK, WorkerOK
  <2>2. stored <= cur /\ stored <= Begun' /\ cur' = cur /\ UNCHANGED <<stored, belief>>
    BY <1>0, <1>5, <2>1 DEF Accepted, StoredBelow, Begun
  <2>3. StoredBelow'
    BY <1>0, <1>5, <2>1, <2>2, WriteBelow DEF Accepted
  <2>4. PICK d \in 1..Len(up) : Without(up', up, d)
    BY <1>0, <1>5, RestIsSuffix DEF Accepted
  <2>5. d \in 0..Len(up)
    BY <1>0, <2>4, Members
  <2>6. AcksBelow'
    BY <1>0, <2>2, <2>4, <2>5, SuffixAcks
  <2>7. QED
    BY <2>3, <2>6
<1>6. CASE Device
  <2>1. /\ down # <<>> /\ down' = Tail(down) /\ Line = down[1]
        /\ UNCHANGED workerVars /\ UNCHANGED belief
    BY <1>0, <1>6, HeadAndTail
       DEF Device, GateRefuses, BeginTransfer, ProgramChunk, EndTransfer, Take,
           Line, TypeOK, LineOK
  <2>2. down[1] \in Lines /\ 1 \in 1..Len(down) /\ down[1].id \in Nat
    BY <1>0, <2>1, Members, HeadAndTail DEF TypeOK, LineOK
  <2>3. SUFFICES ASSUME TRUE
                 PROVE  /\ stored' \in {stored, down[1].id}
                        /\ \E k \in {"ack", "nack"},
                              c \in {"begin_transfer", "program_chunk",
                                     "end_transfer", "load_program"} :
                              /\ Answer(c, k)
                              /\ c = "load_program" /\ k = "ack" =>
                                     Line.id <= stored'
    BY <1>0, <1>a, <2>1, <2>2, TailBelow, AnswerAcks
  <2>4. CASE GateRefuses
    BY <2>1, <2>2, <2>4 DEF GateRefuses, Lines
  <2>5. CASE BeginTransfer
    BY <2>5 DEF BeginTransfer
  <2>6. CASE ProgramChunk
    BY <2>6 DEF ProgramChunk
  <2>7. CASE EndTransfer
    <3>1. down[1].cmd = "end_transfer"
      BY <2>1, <2>7 DEF EndTransfer, Take, Line
    <3>2. \/ stored' = stored /\ Answer("load_program", "nack")
          \/ stored' = stored /\ Answer("end_transfer", "nack")
          \/ /\ Answer("load_program", "ack")
             /\ \E u \in Uploads : Counted /\ Whole(u, xfer.got) /\ stored' = u
      BY <2>7 DEF EndTransfer
    <3>3. CASE stored' = stored /\ Answer("load_program", "nack")
      BY <3>3
    <3>4. CASE stored' = stored /\ Answer("end_transfer", "nack")
      BY <3>4
    <3>5. CASE /\ Answer("load_program", "ack")
               /\ \E u \in Uploads : Counted /\ Whole(u, xfer.got) /\ stored' = u
      <4>1. stored' = down[1].id
        BY <1>0, <2>1, <3>1, <3>5, WholeIsOwn
      <4>2. Line.id <= stored'
        BY <2>1, <2>2, <4>1
      <4>3. QED
        BY <3>5, <4>1, <4>2
    <3>6. QED
      BY <3>2, <3>3, <3>4, <3>5
  <2>8. QED
    BY <1>6, <2>4, <2>5, <2>6, <2>7 DEF Device
<1>7. QED
  BY <1>1, <1>2, <1>3, <1>4, <1>5, <1>6, Zenon DEF Next, Worker

-----------------------------------------------------------------------------
(* Answers and results name uploads that were begun                        *)

(* What is left of the answers names what it named, and a new result is    *)
(* that of an answer, or of the upload in progress.                        *)
LEMMA SuffixNames ==
    ASSUME TypeOK, NamesBegun, Begun \in Int, Begun' \in Int, Begun <= Begun',
           NEW d \in 0..Len(up), Without(up', up, d),
           \A r \in told' : r \in told \/ (r.id \in Int /\ r.id <= Begun)
    PROVE  NamesBegun'
<1>1. \A k \in 1..Len(up') : k + d \in 1..Len(up) /\ up'[k] = up[k + d]
  BY Members DEF Without
<1>2. \A k \in 1..Len(up') : up'[k].id <= Begun'
  BY <1>1, Members DEF NamesBegun, AnswersAreBegun
<1>3. \A r \in told : r.id \in Nat
  BY UploadAssumption DEF TypeOK, GuiOK, Uploads, UploadAssumption
<1>4. \A r \in told' : r.id <= Begun'
  <2>1. \A r \in told : r.id <= Begun
    BY DEF NamesBegun, ResultsAreBegun, Begun
  <2>2. QED
    BY <1>3, <2>1
<1>5. QED
  BY <1>2, <1>4 DEF NamesBegun, AnswersAreBegun, ResultsAreBegun, Begun

LEMMA AnswerNames ==
    ASSUME TypeOK, InTurn, NamesBegun, NEW k \in {"ack", "nack"}, down # <<>>,
           NEW c \in {"begin_transfer", "program_chunk", "end_transfer",
                      "load_program"},
           Answer(c, k), UNCHANGED <<workerVars, told>>
    PROVE  NamesBegun'
<1> DEFINE m == [cmd |-> c, kind |-> k, id |-> Line.id]
<1>1. m \in Answers /\ m.id = down[1].id /\ up' = Append(up, m) /\ 1 \in 1..Len(down)
  BY Fronts, HeadAndTail DEF Answers, Lines, Line, Answer, TypeOK, LineOK
<1> HIDE DEF m
<1>2. /\ Len(up') = Len(up) + 1 /\ Len(up) \in Nat
      /\ \A j \in 1..Len(up) : up'[j] = up[j]
      /\ up'[Len(up) + 1] = m
      /\ \A j \in 1..Len(up') : j \in 1..Len(up) \/ j = Len(up) + 1
  BY <1>1, Appended DEF TypeOK, LineOK
<1>3. Begun' = Begun /\ m.id <= Begun
  BY <1>1 DEF InTurn, Begun
<1>4. \A j \in 1..Len(up') : up'[j].id <= Begun'
  BY <1>2, <1>3 DEF NamesBegun, AnswersAreBegun
<1>5. \A r \in told' : r.id <= Begun'
  BY <1>3 DEF NamesBegun, ResultsAreBegun, Begun
<1>6. QED
  BY <1>4, <1>5 DEF NamesBegun, AnswersAreBegun, ResultsAreBegun, Begun

(* Every step leaves the names of begun uploads, and begins at most one.   *)
LEMMA NamesStep == TypeOK /\ InTurn /\ NamesBegun /\ [Next]_vars => NamesBegun'
<1> USE UploadAssumption DEF UploadAssumption, Uploads, Nothing
<1> SUFFICES ASSUME TypeOK, InTurn, NamesBegun, [Next]_vars
             PROVE  NamesBegun'
  OBVIOUS
<1>0. queue \in Seq(Uploads) /\ Len(queue) \in Nat /\ last \in Nat /\ Begun \in Int
  BY DEF TypeOK, WorkerOK, Begun
<1>1. CASE HandOver
  <2>1. Begun' = Begun
    BY <1>0, <1>1, Appended DEF HandOver, Begun
  <2>2. QED
    BY <1>1, <2>1
       DEF HandOver, NamesBegun, AnswersAreBegun, ResultsAreBegun, Begun
<1>2. CASE Gate \/ UNCHANGED vars
  BY <1>2 DEF Gate, NamesBegun, AnswersAreBegun, ResultsAreBegun, Begun
<1>3. CASE BeginUpload
  <2>1. Begun' = Begun + 1 /\ told' = told
    BY <1>0, <1>3, HeadAndTail DEF BeginUpload, Begun
  <2>2. PICK d \in 0..Len(up) : Without(up', up, d)
    BY <1>3, TornIsSuffix DEF BeginUpload
  <2>3. Begun' \in Int /\ Begun <= Begun'
    BY <1>0, <2>1
  <2>4. QED
    BY <1>0, <2>1, <2>2, <2>3, SuffixNames
<1>4. CASE Accepted
  <2>1. Begun' = Begun /\ told' = told
    BY <1>4 DEF Accepted, Begun
  <2>2. PICK d \in 1..Len(up) : Without(up', up, d)
    BY <1>4, RestIsSuffix DEF Accepted
  <2>3. d \in 0..Len(up)
    BY <2>2, Members
  <2>4. QED
    BY <1>0, <2>1, <2>2, <2>3, SuffixNames
<1>5. CASE ReadOther \/ Refused \/ Stored \/ Timeout
  <2>1. Begun' = Begun
    BY <1>5 DEF ReadOther, Refused, Stored, Timeout, Finish, Begun
  <2>2. PICK d \in 0..Len(up) : Without(up', up, d)
    <3>1. CASE ReadOther
      <4>1. up # <<>> /\ up' = Tail(up) /\ up' \in Torn
        BY <3>1 DEF ReadOther, Torn
      <4>2. QED
        BY <4>1, TornIsSuffix
    <3>2. CASE Refused \/ Stored
      <4>1. PICK d \in 1..Len(up) : Without(up', up, d)
        BY <3>2, RestIsSuffix DEF Refused, Stored
      <4>2. d \in 0..Len(up)
        BY <4>1, Members
      <4>3. QED
        BY <4>1, <4>2
    <3>3. CASE Timeout
      BY <3>3, TornIsSuffix DEF Timeout
    <3>4. QED
      BY <1>5, <3>1, <3>2, <3>3
  <2>3. up # <<>> => Head(up).id \in Int /\ Head(up).id <= Begun
    <3>1. up # <<>> => Head(up) = up[1] /\ 1 \in 1..Len(up)
      BY HeadAndTail DEF TypeOK, LineOK
    <3>2. QED
      BY <3>1, Members DEF NamesBegun, AnswersAreBegun
  <2>4. awaited # "loop" => cur = Begun
    BY DEF InTurn
  <2>5. \/ told' = told
        \/ up # <<>> /\ \E k : told' = told \cup {[id |-> Head(up).id, kind |-> k]}
        \/ awaited # "loop" /\ \E k : told' = told \cup {[id |-> cur, kind |-> k]}
    <3>1. CASE ReadOther
      BY <3>1 DEF ReadOther, Forward
    <3>2. CASE Refused
      <4>1. up # <<>> /\ awaited # "loop"
        BY <3>2, Fronts DEF Refused, IsAnswer, Answers
      <4>2. QED
        BY <3>2, <4>1 DEF Refused, Finish, Forward
    <3>3. CASE Stored
      BY <3>3 DEF Stored, Finish, Forward
    <3>4. CASE Timeout
      BY <3>4 DEF Timeout, Finish, Forward
    <3>5. QED
      BY <1>5, <3>1, <3>2, <3>3, <3>4
  <2>6. \A r \in told' : r \in told \/ (r.id \in Int /\ r.id <= Begun)
    BY <1>0, <2>3, <2>4, <2>5
  <2>7. QED
    BY <1>0, <2>1, <2>2, <2>6, SuffixNames
<1>6. CASE Device
  <2>1. /\ down # <<>> /\ UNCHANGED <<workerVars, told>>
        /\ \E k \in {"ack", "nack"},
              c \in {"begin_transfer", "program_chunk", "end_transfer",
                     "load_program"} : Answer(c, k)
    <3>1. CASE GateRefuses
      BY <3>1, Fronts DEF GateRefuses, Lines, Line
    <3>2. CASE BeginTransfer
      BY <3>2 DEF BeginTransfer, Take
    <3>3. CASE ProgramChunk
      BY <3>3 DEF ProgramChunk, Take
    <3>4. CASE EndTransfer
      BY <3>4 DEF EndTransfer, Take
    <3>5. QED
      BY <1>6, <3>1, <3>2, <3>3, <3>4 DEF Device
  <2>2. QED
    BY <2>1, AnswerNames
<1>7. QED
  BY <1>1, <1>2, <1>3, <1>4, <1>5, <1>6, Zenon DEF Next, Worker

-----------------------------------------------------------------------------
LEMMA IInvStep == IInv /\ [Next]_vars => IInv'
BY TypeStep, InTurnStep, BeginFirstStep, InStepStep, StoredStep, NamesStep DEF IInv

(* The invariant holds of every behaviour of the worker and the simulator, *)
(* however long the line, the queue and the uploads.                       *)
THEOREM Invariance == Spec => []IInv
<1>1. IInv /\ [Next]_vars => IInv'
  BY IInvStep
<1>2. QED
  BY InitHolds, <1>1, PTL DEF Spec

(* Queue, socket, transfer buffer and results hold what their types say:   *)
(* no action writes a line, an answer or a result for upload 0, which is   *)
(* what cur is between two uploads.                                        *)
THEOREM TypeCorrect == Spec => []TypeOK
<1>1. IInv => TypeOK
  BY DEF IInv
<1>2. QED
  BY Invariance, <1>1, PTL

(* The GUI is told of no upload that still waits in the queue, whichever   *)
(* answer is taken for whichever upload, and however late (_read_until_ack,*)
(* _run_chunked_transfer).                                                 *)
THEOREM ResultsAreBegunHolds == Spec => []ResultsAreBegun
<1>1. IInv => ResultsAreBegun
  BY DEF IInv, NamesBegun
<1>2. QED
  BY Invariance, <1>1, PTL

(* What the GUI is told is stored, is stored or was replaced by a later    *)
(* upload, as long as not both an answer was late and a job kept the       *)
(* machine from taking a begin_transfer (_read_until_ack,                  *)
(* _cmd_begin_transfer, _cmd_end_transfer).                                *)
THEOREM AckMeansStoredHolds == Spec => []AckMeansStored
<1>1. IInv => AckMeansStored
  BY Zenon DEF IInv, StoredInOrder, Confused, AcksBelow, AckMeansStored
<1>2. QED
  BY Invariance, <1>1, PTL
=============================================================================
