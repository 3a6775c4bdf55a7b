------------------------------- MODULE Upload -------------------------------
(***************************************************************************)
(* Uploads of large programs: the serial worker of the GUI sends a program *)
(* in chunks and waits for the answer to each line (gui_worker.py:         *)
(* _run_chunked_transfer, _read_until_ack); the simulator puts the program *)
(* together and stores it (simulator.py: _cmd_begin_transfer ...), while   *)
(* it is idle or ready.                                                    *)
(*                                                                         *)
(* Every upload has an id of its own.  The answers carry it, but the       *)
(* worker goes by the command they name.  Timeouts are abstract: an answer *)
(* may always come too late.  Broadcasts are left out: the worker hands    *)
(* them on, or drops them, as it does with answers to other lines.         *)
(***************************************************************************)
EXTENDS Integers, Sequences, FiniteSets

CONSTANTS
    MaxUploads,     \* bound: uploads
    Chunks,         \* chunks of upload u, a function
    Invalid,        \* uploads that the validator refuses
    MaxGate         \* bound: times the machine starts or ends a job

Uploads == 1..MaxUploads

ASSUME UploadAssumption ==
    /\ MaxUploads \in Nat \ {0} /\ MaxGate \in Nat
    /\ Chunks \in [Uploads -> Nat \ {0}]
    /\ Invalid \subseteq Uploads

Nothing == 0
Lines == [cmd : {"begin_transfer", "program_chunk", "end_transfer"},
          id : Uploads, index : Nat]
Answers == [cmd : {"begin_transfer", "program_chunk", "end_transfer",
                   "load_program"}, kind : {"ack", "nack"}, id : Uploads]

VARIABLES
    queue,          \* _send_queue
    last,           \* uploads the GUI has handed over
    cur, at,        \* the upload in progress, the chunk whose turn it is
    awaited,        \* the command whose answer is awaited, or "loop"
    down, up,       \* the socket, both ways
    xfer,           \* xfer_*: whose size and count, the chunks received
    stored,         \* stored_program
    atRest,         \* is the machine in a state that accepts uploads?
    gates,          \* starts and ends of jobs so far
    \* what the GUI was told
    told,           \* the answers to uploads
    belief,         \* the upload that was last said to be stored
    late            \* history: a timeout passed that an answer was still
                    \* to come after

workerVars == <<queue, last, cur, at, awaited>>
deviceVars == <<xfer, stored>>
countVars  == <<atRest, gates>>
guiVars    == <<told, belief>>
vars == <<workerVars, down, up, deviceVars, countVars, guiVars, late>>

NoTransfer == [of |-> Nothing, got |-> <<>>]

FlagsOK == atRest \in BOOLEAN /\ late \in BOOLEAN

WorkerOK ==
    /\ queue \in Seq(Uploads) /\ last \in 0..MaxUploads
    /\ cur \in Uploads \cup {Nothing} /\ at \in Nat
    /\ awaited \in {"loop", "begin_transfer", "program_chunk", "load_program"}

LineOK == down \in Seq(Lines) /\ up \in Seq(Answers)

DeviceOK ==
    /\ xfer \in [of : Uploads \cup {Nothing},
                 got : Seq([id : Uploads, index : Nat])]
    /\ stored \in Uploads \cup {Nothing} /\ gates \in 0..MaxGate

GuiOK ==
    /\ told \subseteq [id : Uploads, kind : {"ack", "nack"}]
    /\ belief \in Uploads \cup {Nothing}

TypeOK == FlagsOK /\ WorkerOK /\ LineOK /\ DeviceOK /\ GuiOK

Init ==
    /\ queue = <<>> /\ last = 0 /\ cur = Nothing /\ at = 0
    /\ awaited = "loop" /\ down = <<>> /\ up = <<>>
    /\ xfer = NoTransfer /\ stored = Nothing /\ atRest = TRUE
    /\ gates = 0 /\ told = {} /\ belief = Nothing /\ late = FALSE

-----------------------------------------------------------------------------
(* The worker                                                              *)

HandOver ==
    /\ last < MaxUploads /\ last' = last + 1
    /\ queue' = Append(queue, last + 1)
    /\ UNCHANGED <<cur, at, awaited, down, up, deviceVars, countVars, guiVars,
                   late>>

Write(cmd, id, index) ==
    down' = Append(down, [cmd |-> cmd, id |-> id, index |-> index])

(* A line that has arrived in part is lost when the buffer changes.        *)
Torn == {up} \cup (IF up = <<>> THEN {} ELSE {Tail(up)})

BeginUpload ==
    /\ awaited = "loop" /\ queue # <<>>
    /\ queue' = Tail(queue) /\ cur' = Head(queue) /\ at' = 0
    /\ awaited' = "begin_transfer"
    /\ Write("begin_transfer", Head(queue), 0)
    /\ up' \in Torn
    /\ UNCHANGED <<last, deviceVars, countVars, guiVars, late>>

(* message_received: the window is told.                                   *)
Forward(m) ==
    /\ told' = IF m.cmd = "load_program"
               THEN told \cup {[id |-> m.id, kind |-> m.kind]} ELSE told
    /\ belief' = IF m.cmd = "load_program" /\ m.kind = "ack"
                 THEN m.id ELSE belief

(* A line that is not the answer is handed on, in the loop of run as well  *)
(* as inside _read_until_ack.  Mutant: any answer will do.                 *)
IsAnswerMut(m) == awaited # "loop" /\ m.kind \in {"ack", "nack"}
IsAnswer(m) == m.cmd = awaited

ReadOther ==
    /\ up # <<>> /\ ~IsAnswer(Head(up))
    /\ Forward(Head(up))
    /\ up' = Tail(up)
    /\ UNCHANGED <<workerVars, down, deviceVars, countVars, late>>

(* The answer ends _read_until_ack, and what was read together with it is  *)
(* gone with its buffer: any number of the lines that follow.              *)
Rest == {SubSeq(up, k, Len(up)) : k \in 2..(Len(up) + 1)}

Finish(id, kind) ==
    /\ awaited' = "loop" /\ cur' = Nothing /\ at' = 0
    /\ Forward([cmd |-> "load_program", kind |-> kind, id |-> id])

Refused ==
    /\ up # <<>> /\ IsAnswer(Head(up)) /\ Head(up).kind = "nack"
    /\ up' \in Rest
    /\ Finish(IF awaited = "load_program" THEN Head(up).id ELSE cur, "nack")
    /\ UNCHANGED <<queue, last, down, deviceVars, countVars, late>>

(* Each chunk is sent when the one before it was accepted.  Mutant: one    *)
(* chunk too few.                                                          *)
MoreMut == at + 1 < Chunks[cur]
More == at < Chunks[cur]

Accepted ==
    /\ up # <<>> /\ IsAnswer(Head(up)) /\ Head(up).kind = "ack"
    /\ awaited # "load_program"
    /\ up' \in Rest
    /\ IF More
       THEN /\ Write("program_chunk", cur, at)
            /\ at' = at + 1 /\ awaited' = "program_chunk"
       ELSE /\ Write("end_transfer", cur, 0)
            /\ awaited' = "load_program" /\ UNCHANGED at
    /\ UNCHANGED <<queue, last, cur, deviceVars, countVars, guiVars,
                   late>>

(* The result is emitted as it came, under the id that it carries.         *)
Stored ==
    /\ up # <<>> /\ IsAnswer(Head(up)) /\ Head(up).kind = "ack"
    /\ awaited = "load_program"
    /\ up' \in Rest
    /\ Finish(Head(up).id, "ack")
    /\ UNCHANGED <<queue, last, down, deviceVars, countVars, late>>

Outstanding == down # <<>> \/ \E k \in 1..Len(up) : IsAnswer(up[k])

(* Mutant: the timeout ends the upload without a word.                     *)
TimeoutMut ==
    /\ awaited # "loop"
    /\ awaited' = "loop" /\ cur' = Nothing /\ at' = 0
    /\ up' \in Torn
    /\ late' = (late \/ Outstanding)
    /\ UNCHANGED <<queue, last, down, deviceVars, countVars, guiVars>>
Timeout ==
    /\ awaited # "loop"
    /\ Finish(cur, "nack")
    /\ up' \in Torn
    /\ late' = (late \/ Outstanding)
    /\ UNCHANGED <<queue, last, down, deviceVars, countVars>>

-----------------------------------------------------------------------------
(* The simulator                                                           *)

Take(cmd) == down # <<>> /\ Head(down).cmd = cmd /\ down' = Tail(down)
Line == Head(down)
Answer(cmd, kind) ==
    up' = Append(up, [cmd |-> cmd, kind |-> kind, id |-> Line.id])

GateRefuses ==
    /\ ~atRest /\ down # <<>> /\ down' = Tail(down)
    /\ Answer(Line.cmd, "nack")
    /\ UNCHANGED <<workerVars, deviceVars, countVars, guiVars, late>>

BeginTransfer ==
    /\ atRest /\ Take("begin_transfer") /\ Answer("begin_transfer", "ack")
    /\ xfer' = [of |-> Line.id, got |-> <<>>]
    /\ UNCHANGED <<workerVars, stored, countVars, guiVars, late>>

InOrder == xfer.of # Nothing /\ Line.index = Len(xfer.got)

ProgramChunk ==
    /\ atRest /\ Take("program_chunk")
    /\ IF InOrder
       THEN /\ xfer' = [xfer EXCEPT !.got = Append(@, [id |-> Line.id,
                                                       index |-> Line.index])]
            /\ Answer("program_chunk", "ack")
       ELSE Answer("program_chunk", "nack") /\ UNCHANGED xfer
    /\ UNCHANGED <<workerVars, stored, countVars, guiVars, late>>

(* The number of chunks, that of bytes, then the document as a whole.      *)
(* Assumed: chunks of two programs do not make one that has the announced  *)
(* length and parses.  The buffer may well hold such chunks, as no handler *)
(* looks at the id of a chunk.                                             *)
Whole(u, got) ==
    /\ Len(got) = Chunks[u]
    /\ \A k \in 1..Len(got) : got[k] = [id |-> u, index |-> k - 1]
Counted == xfer.of # Nothing /\ Len(xfer.got) = Chunks[xfer.of]

(* A refused end_transfer is answered as end_transfer, a complete one by   *)
(* _cmd_load_program.                                                      *)
EndTransfer ==
    /\ atRest /\ Take("end_transfer")
    /\ xfer' = NoTransfer
    /\ \/ \E u \in Uploads :
          /\ Counted /\ Whole(u, xfer.got)
          /\ IF u \in Invalid
             THEN Answer("load_program", "nack") /\ UNCHANGED stored
             ELSE Answer("load_program", "ack") /\ stored' = u
       \/ /\ ~(Counted /\ \E u \in Uploads : Whole(u, xfer.got))
          /\ Answer("end_transfer", "nack") /\ UNCHANGED stored
    /\ UNCHANGED <<workerVars, countVars, guiVars, late>>

(* A job starts or ends, from the panel of the machine.                    *)
Gate ==
    /\ gates < MaxGate /\ gates' = gates + 1
    /\ atRest' = ~atRest
    /\ UNCHANGED <<workerVars, down, up, deviceVars, guiVars, late>>

-----------------------------------------------------------------------------
Worker == \/ BeginUpload \/ ReadOther \/ Refused \/ Accepted \/ Stored
          \/ Timeout
Device == \/ GateRefuses \/ BeginTransfer \/ ProgramChunk \/ EndTransfer

Next == HandOver \/ Worker \/ Device \/ Gate

Spec == Init /\ [][Next]_vars

(* The worker thread runs, a timeout passes; the simulator ticks.          *)
FairSpec == Spec /\ WF_vars(Worker) /\ WF_vars(Device)

-----------------------------------------------------------------------------
(* Properties                                                              *)

(* What the GUI is told is stored, is stored or has been replaced by a     *)
(* later upload: an answer that is late, or of another upload, is not      *)
(* taken for the success of one that failed.  Begin_transfer, which comes  *)
(* before the chunks, sees to that, unless a job keeps the machine from    *)
(* taking it.  Without the premise four uploads are enough to violate it.  *)
AckMeansStored == (late /\ gates > 0) \/ belief <= stored

(* Every upload has a result, also when end_transfer is refused under a    *)
(* name that the worker does not wait for.  Once answers are late, an      *)
(* upload may take the result of another and end under its id.             *)
UploadEnds == \A u \in Uploads :
    u <= last ~> late \/ \E r \in told : r.id = u

(* No result is told of an upload that is still in the queue, whatever     *)
(* answers are taken for others, late, or lost with a buffer.              *)
ResultsAreBegun == \A r \in told : r.id <= last - Len(queue)

(* Both sides agree on the protocol: a valid program that the machine is   *)
(* free to take, and that nobody gives up on, is stored and said to be.    *)
UndisturbedUploadSucceeds == \A u \in Uploads \ Invalid :
    u <= last ~> late \/ gates > 0 \/ [id |-> u, kind |-> "ack"] \in told
=============================================================================
