-------------------------- MODULE CommandDelivery --------------------------
(***************************************************************************)
(* Confirmed delivery of commands: the serial worker of the GUI            *)
(* (gui_worker.py: send, run, _retry_pending) resends what is not answered *)
(* in time; the device (Protocol::handleLine, or the simulator's           *)
(* _handle_command) remembers the ids it carried out and answers a resend  *)
(* without carrying it out again.                                          *)
(*                                                                         *)
(* Device and line come as a pair.  The firmware hangs on a serial line    *)
(* that may lose whole lines both ways, and is reset when the port is      *)
(* opened.  The simulator hangs on a socket that loses nothing while it is *)
(* open, and lives on.  Timeouts are abstract: an answer may always be     *)
(* late, as the firmware answers nobody during a job or a jog.             *)
(*                                                                         *)
(* A command is known by its session and id; only the id is on the wire.   *)
(***************************************************************************)
EXTENDS Integers, Sequences

CONSTANTS
    MaxSession,      \* bound: times the GUI connects
    MaxId,           \* bound: the largest id
    Quota,           \* bound: commands sent in each session
    MaxAttempts,     \* MAX_ATTEMPTS
    RingSize,        \* 16
    Exempt,          \* commands exempt from de-dup: the queries
    Simulated        \* is the device the simulator?

Sessions == 1..MaxSession
Ids == 1..MaxId
Cmds == [session : Sessions, id : Ids]

ASSUME DeliveryAssumption ==
    /\ MaxSession \in Nat \ {0} /\ MaxId \in Nat \ {0}
    /\ MaxAttempts \in Nat \ {0} /\ RingSize \in Nat \ {0}
    /\ Quota \in [Sessions -> Ids]
    /\ Exempt \subseteq Cmds
    /\ Simulated \in BOOLEAN

Replies == [cmd : Cmds, kind : {"ack", "nack"}]
Reports == [cmd : Cmds, kind : {"ack", "nack", "failed"}]

VARIABLES
    connected,
    session,         \* which SerialWorker this is
    next,            \* _next_id
    queue,           \* _send_queue
    pending,         \* _pending: attempts made, 0 when not pending
    down, up,        \* the line, both ways, with the buffers at its ends
    ring, head,      \* recentIds_, recentHead_
    \* history
    ran,             \* commands carried out
    since,           \* commands remembered since this one was, to RingSize
    told             \* what the GUI was told of its commands

workerVars  == <<connected, session, next, queue, pending>>
deviceVars  == <<ring, head>>
historyVars == <<ran, since>>
vars == <<workerVars, down, up, deviceVars, historyVars, told>>

FlagsOK == connected \in BOOLEAN

DataOK ==
    /\ session \in Sessions
    /\ next \in 1..(MaxId + 1)
    /\ queue \in Seq(Ids)
    /\ pending \in [Ids -> 0..MaxAttempts]
    /\ down \in Seq(Cmds) /\ up \in Seq(Replies)
    /\ ring \in [0..(RingSize - 1) -> 0..MaxId]
    /\ head \in 0..(RingSize - 1)
    /\ ran \subseteq Cmds
    /\ told \subseteq Reports

CountOK == since \in [Cmds -> 0..RingSize]

TypeOK == FlagsOK /\ DataOK /\ CountOK

NothingPending == [i \in Ids |-> 0]
EmptyRing == [k \in 0..(RingSize - 1) |-> 0]

Init ==
    /\ connected = TRUE /\ session = 1
    /\ next = 1 /\ queue = <<>> /\ pending = NothingPending
    /\ down = <<>> /\ up = <<>>
    /\ ring = EmptyRing /\ head = 0
    /\ ran = {} /\ since = [c \in Cmds |-> RingSize] /\ told = {}

Mine(i) == [session |-> session, id |-> i]

-----------------------------------------------------------------------------
(* The worker                                                              *)

(* The GUI thread hands over a command.                                    *)
Send ==
    /\ connected /\ next <= Quota[session]
    /\ queue' = Append(queue, next)
    /\ next' = next + 1
    /\ UNCHANGED <<connected, session, pending, down, up, deviceVars,
                   historyVars, told>>

Transmit ==
    /\ connected /\ queue # <<>>
    /\ queue' = Tail(queue)
    /\ down' = Append(down, Mine(Head(queue)))
    /\ pending' = [pending EXCEPT ![Head(queue)] = 1]
    /\ UNCHANGED <<connected, session, next, up, deviceVars, historyVars, told>>

(* An answer, by its id alone, settles the command of that id.             *)
Read ==
    /\ connected /\ up # <<>>
    /\ up' = Tail(up)
    /\ pending' = [pending EXCEPT ![Head(up).cmd.id] = 0]
    /\ told' = IF Head(up).cmd.id < next
               THEN told \cup {[cmd |-> Mine(Head(up).cmd.id),
                                kind |-> Head(up).kind]}
               ELSE told
    /\ UNCHANGED <<connected, session, next, queue, down, deviceVars,
                   historyVars>>

Retry(i) ==
    /\ connected /\ pending[i] \in 1..(MaxAttempts - 1)
    /\ down' = Append(down, Mine(i))
    /\ pending' = [pending EXCEPT ![i] = @ + 1]
    /\ UNCHANGED <<connected, session, next, queue, up, deviceVars,
                   historyVars, told>>

(* The mutant drops the command and tells nobody.                          *)
GiveUpMut(i) ==
    /\ connected /\ pending[i] = MaxAttempts
    /\ pending' = [pending EXCEPT ![i] = 0]
    /\ UNCHANGED <<connected, session, next, queue, down, up, deviceVars,
                   historyVars, told>>

GiveUp(i) ==
    /\ connected /\ pending[i] = MaxAttempts
    /\ pending' = [pending EXCEPT ![i] = 0]
    /\ told' = told \cup {[cmd |-> Mine(i), kind |-> "failed"]}
    /\ UNCHANGED <<connected, session, next, queue, down, up, deviceVars,
                   historyVars>>

(* The operator disconnects, or the port fails.                            *)
Disconnect ==
    /\ connected /\ connected' = FALSE
    /\ pending' = NothingPending
    /\ UNCHANGED <<session, next, queue, down, up, deviceVars, historyVars,
                   told>>

(* A new worker with ids from 1.  Opening a serial port resets the board   *)
(* and drops what is on the line; the simulator has kept its commands, its *)
(* answers and its ids.                                                    *)
Connect ==
    /\ ~connected /\ connected' = TRUE
    /\ session < MaxSession /\ session' = session + 1
    /\ next' = 1 /\ queue' = <<>> /\ pending' = NothingPending
    /\ IF Simulated
       THEN UNCHANGED <<down, up, deviceVars>>
       ELSE down' = <<>> /\ up' = <<>> /\ ring' = EmptyRing /\ head' = 0
    /\ UNCHANGED <<historyVars, told>>

-----------------------------------------------------------------------------
(* The device                                                              *)

(* isDuplicateCommand and rememberCommand.  The mutant overlooks the first *)
(* place.                                                                  *)
RememberedMut(i) == \E k \in 1..(RingSize - 1) : ring[k] = i
Remembered(i) == \E k \in 0..(RingSize - 1) : ring[k] = i

(* The oldest id gives way to the new one.                                 *)
remember(c) ==
    /\ ring' = [ring EXCEPT ![head] = c.id]
    /\ head' = IF head = RingSize - 1 THEN 0 ELSE head + 1
    /\ since' = [d \in Cmds |-> IF d = c THEN 0
                                ELSE IF since[d] = RingSize THEN RingSize
                                ELSE since[d] + 1]

Duplicate(c) == c \notin Exempt /\ Remembered(c.id)

Reply(c, kind) ==
    /\ down' = Tail(down)
    /\ up' = Append(up, [cmd |-> c, kind |-> kind])
    /\ UNCHANGED <<workerVars, told>>

(* A resend of what was carried out is acknowledged again, ...             *)
AckDuplicate ==
    /\ down # <<>> /\ Duplicate(Head(down))
    /\ Reply(Head(down), "ack")
    /\ UNCHANGED <<deviceVars, historyVars>>

(* ... any other command is carried out ...                                *)
CarryOut ==
    /\ down # <<>> /\ ~Duplicate(Head(down))
    /\ Reply(Head(down), "ack")
    /\ ran' = ran \cup {Head(down)}
    /\ IF Head(down) \in Exempt
       THEN UNCHANGED <<deviceVars, since>>
       ELSE remember(Head(down))

(* ... or refused, by the gate or by its handler; the simulator remembers  *)
(* it in the second case too.  Mutants: de-dup comes after the gate;       *)
(* refusals are remembered.                                                *)
RefuseMutGateFirst ==
    /\ down # <<>>
    /\ Reply(Head(down), "nack")
    /\ UNCHANGED <<deviceVars, historyVars>>

RefuseMutRemember ==
    /\ down # <<>> /\ ~Duplicate(Head(down))
    /\ Reply(Head(down), "nack")
    /\ IF Head(down) \in Exempt
       THEN UNCHANGED <<deviceVars, since>>
       ELSE remember(Head(down))
    /\ UNCHANGED ran

Refuse ==
    /\ down # <<>> /\ ~Duplicate(Head(down))
    /\ Reply(Head(down), "nack")
    /\ \/ UNCHANGED <<deviceVars, since>>
       \/ Simulated /\ Head(down) \notin Exempt /\ remember(Head(down))
    /\ UNCHANGED ran

(* A serial line loses what is on it; a socket what nobody reads.          *)
LoseDown ==
    /\ ~Simulated /\ down # <<>>
    /\ down' = Tail(down)
    /\ UNCHANGED <<workerVars, up, deviceVars, historyVars, told>>

LoseUp ==
    /\ ~Simulated \/ ~connected
    /\ up # <<>>
    /\ up' = Tail(up)
    /\ UNCHANGED <<workerVars, down, deviceVars, historyVars, told>>

-----------------------------------------------------------------------------
Worker == \/ Send \/ Transmit \/ Read \/ Disconnect \/ Connect
          \/ \E i \in Ids : Retry(i) \/ GiveUp(i)
Device == AckDuplicate \/ CarryOut \/ Refuse
Line == LoseDown \/ LoseUp

Next == Worker \/ Device \/ Line

Spec == Init /\ [][Next]_vars

(* The worker thread goes round its loop, and timeouts pass.  The device   *)
(* and the line owe nothing.                                               *)
Fairness ==
    /\ WF_vars(Transmit) /\ WF_vars(Read)
    /\ \A i \in Ids : WF_vars(Retry(i)) /\ WF_vars(GiveUp(i))

FairSpec == Spec /\ Fairness

-----------------------------------------------------------------------------
(* A command that was carried out, not more than RingSize - 1 others having *)
(* been remembered since: the ring still has it.                           *)
Kept(c) == c \in ran /\ c \notin Exempt /\ since[c] < RingSize

(* No command is carried out again, however often it is resent, whatever   *)
(* is lost and in whatever order resends and other commands arrive         *)
(* (handleLine, _handle_command), before RingSize others have taken its    *)
(* place in the ring; then its next resend is.                             *)
AtMostOnce == [][CarryOut => ~Kept(Head(down))]_vars

(* The GUI is told "ack" only of a command of its own that was carried     *)
(* out, over resends, reconnections and late answers.                      *)
AckMeansRan == \A r \in told : r.kind = "ack" => r.cmd \in ran

(* Nor is it refused in the same time, as for the state that the command   *)
(* itself has led to (a second home while homing).                         *)
RanIsNotRefused == [][Refuse => ~Kept(Head(down))]_vars

(* Every command is answered or reported as failed, unless the connection  *)
(* ends, whatever the device and the line do.                              *)
Reported(i) == \E r \in told : r.cmd = Mine(i)
EveryCommandReported ==
    \A i \in Ids : i < next ~> Reported(i) \/ ~connected

(* What makes them inductive.  On a serial line everything in flight is of *)
(* the current session, an acknowledgement of what ran, and an id in the   *)
(* ring of a command that ran; nothing ran for a later session.            *)
LineIsCurrent ==
    ~Simulated =>
        /\ \A k \in 1..Len(down) : down[k].session = session
        /\ \A k \in 1..Len(up) :
              /\ up[k].cmd.session = session
              /\ up[k].kind = "ack" => up[k].cmd \in ran
        /\ \A k \in 0..(RingSize - 1) : ring[k] # 0 => Mine(ring[k]) \in ran
        /\ \A c \in Cmds : since[c] < RingSize => c.session <= session

(* An id stands in the ring as far behind the head as commands have been   *)
(* remembered since, unless the board was reset.                           *)
Back(n) == IF n < head THEN head - 1 - n ELSE head - 1 - n + RingSize
RanIsRemembered ==
    \A c \in Cmds : since[c] < RingSize /\ (Simulated \/ c.session = session)
                       => ring[Back(since[c])] = c.id

IInv == /\ LineIsCurrent /\ RanIsRemembered
        /\ ~Simulated => AckMeansRan

-----------------------------------------------------------------------------
(* What the comments say, and the code does not do                         *)

(* gui_worker.py:22-24: the ids tell resends.  What is acknowledged as a   *)
(* resend was carried out before: true of the MCU, which forgets its ids   *)
(* when the GUI connects; the simulator keeps them and takes the first     *)
(* commands of a new connection for resends of the last one's.             *)
DuplicateWasRun ==
    [][AckDuplicate => Head(down) \in ran]_vars
=============================================================================
