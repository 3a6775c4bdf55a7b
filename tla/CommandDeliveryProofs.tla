----------------------- MODULE CommandDeliveryProofs -----------------------
(***************************************************************************)
(* Theorems about CommandDelivery: a command is not carried out again, nor *)
(* refused after it was, before the ring has taken RingSize others, and    *)
(* what the MCU acknowledges was carried out.                              *)
(***************************************************************************)
EXTENDS CommandDelivery, TLAPS

LEMMA Bounds ==
    /\ MaxSession \in Nat \ {0} /\ MaxId \in Nat \ {0}
    /\ MaxAttempts \in Nat \ {0} /\ RingSize \in Nat \ {0}
  BY DeliveryAssumption DEF DeliveryAssumption

USE Bounds

-----------------------------------------------------------------------------
(* Sequences and records                                                   *)

LEMMA HeadTail ==
    ASSUME NEW S, NEW s \in Seq(S), s # <<>>
    PROVE  /\ Head(s) \in S /\ Head(s) = s[1] /\ 1 \in 1..Len(s)
           /\ Tail(s) \in Seq(S)
           /\ \A k \in 1..Len(Tail(s)) : k + 1 \in 1..Len(s) /\ Tail(s)[k] = s[k + 1]
  OBVIOUS

LEMMA Appended ==
    ASSUME NEW S, NEW s \in Seq(S), NEW x \in S
    PROVE  /\ Append(s, x) \in Seq(S)
           /\ \A k \in 1..Len(Append(s, x)) :
                 IF k \in 1..Len(s) THEN Append(s, x)[k] = s[k]
                                    ELSE Append(s, x)[k] = x
  OBVIOUS

LEMMA MineIsCmd ==
    ASSUME TypeOK, NEW i \in Ids
    PROVE  Mine(i) \in Cmds /\ Mine(i).session = session /\ Mine(i).id = i
  BY DEF TypeOK, DataOK, Mine, Cmds

LEMMA CmdType ==
    ASSUME NEW c \in Cmds
    PROVE  c.session \in Sessions /\ c.id \in Ids /\ c.id \in 0..MaxId /\ c.id # 0
  BY DEF Cmds, Ids

(* A command of this session is known by its id.                           *)
LEMMA CmdIsMine ==
    ASSUME NEW c \in Cmds, c.session = session
    PROVE  c = Mine(c.id)
  BY DEF Cmds, Mine

LEMMA SinceType ==
    ASSUME since \in [Cmds -> 0..RingSize], NEW c, remember(c)
    PROVE  since' \in [Cmds -> 0..RingSize]
  BY DEF remember

(* Whatever the device does, it takes one command from the line, answers   *)
(* it, and remembers it or nothing.                                        *)
LEMMA DeviceDoes ==
    ASSUME Device
    PROVE  /\ down # <<>>
           /\ \E kind \in {"ack", "nack"} : Reply(Head(down), kind)
           /\ \/ UNCHANGED <<deviceVars, since>>
              \/ remember(Head(down))
<1>1. CASE AckDuplicate
  BY <1>1, Zenon DEF AckDuplicate, historyVars
<1>2. CASE CarryOut
  <2>1. /\ down # <<>> /\ Reply(Head(down), "ack")
        /\ UNCHANGED <<deviceVars, since>> \/ remember(Head(down))
    BY <1>2, Zenon DEF CarryOut
  <2> QED
    BY <2>1, Zenon
<1>3. CASE Refuse
  <2>1. /\ down # <<>> /\ Reply(Head(down), "nack")
        /\ UNCHANGED <<deviceVars, since>> \/ remember(Head(down))
    BY <1>3, Zenon DEF Refuse
  <2> QED
    BY <2>1, Zenon
<1> QED
  BY <1>1, <1>2, <1>3, Zenon DEF Device

-----------------------------------------------------------------------------
(* Types                                                                   *)

LEMMA EntryType ==
    ASSUME NEW S, NEW T, NEW f \in [S -> T], NEW s \in S, NEW t \in T
    PROVE  [f EXCEPT ![s] = t] \in [S -> T]
  OBVIOUS

LEMMA TypeStep == TypeOK /\ [Next]_vars => TypeOK'
<1> SUFFICES ASSUME TypeOK, [Next]_vars PROVE TypeOK'
  OBVIOUS
<1> USE DEF TypeOK
<1>1. FlagsOK'
  <2> USE DEF FlagsOK
  <2>1. CASE Disconnect
    BY <2>1, Zenon DEF Disconnect
  <2>2. CASE Connect
    BY <2>2, Zenon DEF Connect
  <2>3. CASE UNCHANGED connected
    BY <2>3, Zenon
  <2> QED
    BY <2>1, <2>2, <2>3
       DEF Next, Worker, Device, Line, Send, Transmit, Read, Retry, GiveUp,
           AckDuplicate, CarryOut, Refuse, Reply, LoseDown, LoseUp, vars,
           workerVars
<1> USE DEF DataOK, Ids, Sessions
<1>2. DataOK'
  <2>1. CASE Send
    <3>1. next \in Ids /\ next' \in 1..(MaxId + 1)
      <4>1. Quota[session] \in 1..MaxId /\ next <= Quota[session] /\ next \in 1..(MaxId + 1)
        BY <2>1, DeliveryAssumption DEF Send, DeliveryAssumption
      <4> QED
        BY <2>1, <4>1 DEF Send
    <3> QED
      BY <2>1, <3>1 DEF Send, deviceVars, historyVars
  <2>2. CASE Transmit
    <3>1. Head(queue) \in Ids /\ Tail(queue) \in Seq(Ids)
      BY <2>2, HeadTail DEF Transmit
    <3>2. Append(down, Mine(Head(queue))) \in Seq(Cmds)
      <4>1. Mine(Head(queue)) \in Cmds
        BY <3>1, MineIsCmd
      <4> QED
        BY <4>1, Appended
    <3>3. pending' \in [Ids -> 0..MaxAttempts]
      <4>1. pending' = [pending EXCEPT ![Head(queue)] = 1]
        BY <2>2, Zenon DEF Transmit
      <4>2. 1 \in 0..MaxAttempts
        OBVIOUS
      <4>3. pending \in [Ids -> 0..MaxAttempts]
        BY Zenon
      <4> HIDE DEF Ids
      <4> QED
        BY <3>1, <4>1, <4>2, <4>3, EntryType, Zenon
    <3>4. /\ queue' = Tail(queue) /\ down' = Append(down, Mine(Head(queue)))
          /\ UNCHANGED <<session, next, up, ring, head, ran, told>>
      BY <2>2 DEF Transmit, deviceVars, historyVars
    <3> QED
      BY <3>1, <3>2, <3>3, <3>4
  <2>3. CASE Read
    <3>1. Head(up) \in Replies /\ Tail(up) \in Seq(Replies)
      BY <2>3, HeadTail DEF Read
    <3>2. Head(up).cmd.id \in Ids /\ Head(up).kind \in {"ack", "nack"}
      BY <3>1 DEF Replies, Cmds
    <3>3. [cmd |-> Mine(Head(up).cmd.id), kind |-> Head(up).kind] \in Reports
      BY <3>2, MineIsCmd DEF Reports
    <3>5. pending' \in [Ids -> 0..MaxAttempts]
      <4>1. pending' = [pending EXCEPT ![Head(up).cmd.id] = 0]
        BY <2>3, Zenon DEF Read
      <4>2. 0 \in 0..MaxAttempts
        OBVIOUS
      <4>3. pending \in [Ids -> 0..MaxAttempts]
        BY Zenon
      <4> HIDE DEF Ids
      <4> QED
        BY <3>2, <4>1, <4>2, <4>3, EntryType, Zenon
    <3>4. pending' \in [Ids -> 0..MaxAttempts] /\ told' \subseteq Reports
      BY <2>3, <3>3, <3>5 DEF Read
    <3> QED
      BY <2>3, <3>1, <3>4 DEF Read, deviceVars, historyVars
  <2>4. ASSUME NEW i \in Ids, Retry(i) PROVE DataOK'
    <3>1. Append(down, Mine(i)) \in Seq(Cmds)
      <4>1. Mine(i) \in Cmds
        BY MineIsCmd
      <4> QED
        BY <4>1, Appended
    <3>2. pending' \in [Ids -> 0..MaxAttempts]
      <4>1. /\ pending[i] \in 1..(MaxAttempts - 1)
            /\ pending' = [pending EXCEPT ![i] = pending[i] + 1]
        BY <2>4, Zenon DEF Retry
      <4>2. pending[i] + 1 \in 0..MaxAttempts
        BY <4>1
      <4>3. pending \in [Ids -> 0..MaxAttempts]
        BY Zenon
      <4> HIDE DEF Ids
      <4> QED
        BY <4>1, <4>2, <4>3, EntryType, Zenon
    <3> QED
      BY <2>4, <3>1, <3>2 DEF Retry, deviceVars, historyVars
  <2>5. ASSUME NEW i \in Ids, GiveUp(i) PROVE DataOK'
    <3>1. [cmd |-> Mine(i), kind |-> "failed"] \in Reports
      BY MineIsCmd DEF Reports
    <3>2. pending' \in [Ids -> 0..MaxAttempts]
      <4>1. pending' = [pending EXCEPT ![i] = 0]
        BY <2>5, Zenon DEF GiveUp
      <4>2. 0 \in 0..MaxAttempts
        OBVIOUS
      <4>3. pending \in [Ids -> 0..MaxAttempts]
        BY Zenon
      <4> HIDE DEF Ids
      <4> QED
        BY <4>1, <4>2, <4>3, EntryType, Zenon
    <3> QED
      BY <2>5, <3>1, <3>2 DEF GiveUp, deviceVars, historyVars
  <2>6. CASE Disconnect
    BY <2>6 DEF Disconnect, NothingPending, deviceVars, historyVars
  <2>7. CASE Connect
    <3>1. /\ session' \in Sessions /\ next' = 1 /\ queue' = <<>>
          /\ pending' \in [Ids -> 0..MaxAttempts]
          /\ UNCHANGED <<ran, told>>
      BY <2>7 DEF Connect, NothingPending, historyVars
    <3>2. /\ down' = down \/ down' = <<>>
          /\ up' = up \/ up' = <<>>
      BY <2>7 DEF Connect
    <3>4. down' \in Seq(Cmds) /\ up' \in Seq(Replies)
      <4>1. down \in Seq(Cmds) /\ up \in Seq(Replies)
        OBVIOUS
      <4>2. <<>> \in Seq(Cmds) /\ <<>> \in Seq(Replies)
        OBVIOUS
      <4> QED
        BY <3>2, <4>1, <4>2, Zenon
    <3>5. queue' \in Seq(Ids) /\ next' \in 1..(MaxId + 1)
      BY <3>1
    <3>3. ring' \in [0..(RingSize - 1) -> 0..MaxId] /\ head' \in 0..(RingSize - 1)
      <4>1. \/ UNCHANGED <<ring, head>>
            \/ ring' = EmptyRing /\ head' = 0
        BY <2>7 DEF Connect, deviceVars
      <4>2. EmptyRing \in [0..(RingSize - 1) -> 0..MaxId] /\ 0 \in 0..(RingSize - 1)
        BY DEF EmptyRing
      <4>3. ring \in [0..(RingSize - 1) -> 0..MaxId] /\ head \in 0..(RingSize - 1)
        OBVIOUS
      <4> QED
        BY <4>1, <4>2, <4>3, Zenon
    <3> QED
      BY <3>1, <3>3, <3>4, <3>5
  <2>8. CASE Device
    <3>1. down # <<>>
      BY <2>8, DeviceDoes
    <3>2. Head(down) \in Cmds /\ Tail(down) \in Seq(Cmds)
      BY <3>1, HeadTail
    <3>3. Head(down).id \in 0..MaxId
      BY <3>2, CmdType
    <3>4. PICK kind \in {"ack", "nack"} : Reply(Head(down), kind)
      BY <2>8, DeviceDoes
    <3>5. Append(up, [cmd |-> Head(down), kind |-> kind]) \in Seq(Replies)
      <4>1. [cmd |-> Head(down), kind |-> kind] \in Replies
        BY <3>2 DEF Replies
      <4> QED
        BY <4>1, Appended
    <3>6. UNCHANGED <<deviceVars, since>> \/ remember(Head(down))
      BY <2>8, DeviceDoes
    <3>n. /\ down' = Tail(down) /\ up' = Append(up, [cmd |-> Head(down), kind |-> kind])
          /\ UNCHANGED <<session, next, queue, pending, told>>
      BY <3>4 DEF Reply, workerVars
    <3>7. ring' \in [0..(RingSize - 1) -> 0..MaxId] /\ head' \in 0..(RingSize - 1)
      <4>1. CASE UNCHANGED <<deviceVars, since>>
        BY <4>1 DEF deviceVars
      <4>2. CASE remember(Head(down))
        BY <3>3, <4>2 DEF remember
      <4> QED
        BY <3>6, <4>1, <4>2
    <3>8. ran' \subseteq Cmds
      <4>1. CASE CarryOut
        BY <3>2, <4>1 DEF CarryOut
      <4>2. CASE UNCHANGED ran
        BY <4>2
      <4> QED
        BY <2>8, <4>1, <4>2, Zenon DEF Device, AckDuplicate, Refuse, historyVars
    <3> QED
      BY <3>2, <3>n, <3>5, <3>7, <3>8
  <2>9. CASE LoseDown
    BY <2>9, HeadTail DEF LoseDown, workerVars, deviceVars, historyVars
  <2>10. CASE LoseUp
    BY <2>10, HeadTail DEF LoseUp, workerVars, deviceVars, historyVars
  <2>11. CASE UNCHANGED vars
    BY <2>11 DEF vars, workerVars, deviceVars, historyVars
  <2> QED
    BY <2>1, <2>2, <2>3, <2>4, <2>5, <2>6, <2>7, <2>8, <2>9, <2>10, <2>11
       DEF Next, Worker, Line
<1>3. CountOK'
  <2>1. CASE UNCHANGED since
    BY <2>1 DEF CountOK
  <2>2. CASE Device
    <3>1. since' = since \/ remember(Head(down))
      BY <2>2, DeviceDoes
    <3> QED
      BY <2>1, <3>1, SinceType DEF CountOK
  <2> QED
    BY <2>1, <2>2
       DEF Next, Worker, Line, Send, Transmit, Read, Retry, GiveUp, Disconnect,
           Connect, LoseDown, LoseUp, vars, historyVars
<1> QED
  BY <1>1, <1>2, <1>3

-----------------------------------------------------------------------------
(* The ring                                                                *)

Slots == 0..(RingSize - 1)
RingType == /\ ring \in [Slots -> 0..MaxId] /\ head \in Slots
            /\ since \in [Cmds -> 0..RingSize]

(* What was remembered n commands ago is one place further behind the new  *)
(* head, where nothing was written.                                        *)
LEMMA BackIsASlot ==
    ASSUME RingType, NEW n \in 0..(RingSize - 1)
    PROVE  Back(n) \in Slots
  BY DEF RingType, Slots, Back

LEMMA RememberMovesBack ==
    ASSUME RingType, NEW c \in Cmds, remember(c)
    PROVE  /\ ring'[Back(0)'] = c.id
           /\ \A n \in 0..(RingSize - 2) : ring'[Back(n + 1)'] = ring[Back(n)]
<1> USE DEF RingType, Slots
<1>1. /\ ring' = [ring EXCEPT ![head] = c.id]
      /\ head' = IF head = RingSize - 1 THEN 0 ELSE head + 1
  BY DEF remember
<1>2. Back(0)' = head
  BY <1>1 DEF Back
<1>3. ASSUME NEW n \in 0..(RingSize - 2)
      PROVE  Back(n + 1)' = Back(n) /\ Back(n) \in Slots /\ Back(n) # head
  BY <1>1 DEF Back
<1> QED
  BY <1>1, <1>2, <1>3

(* Whoever was remembered stays so until it is pushed out.                 *)
LEMMA RememberKeeps ==
    ASSUME RingType, NEW c \in Cmds, remember(c), NEW d \in Cmds,
           since'[d] < RingSize,
           d # c /\ since[d] < RingSize => ring[Back(since[d])] = d.id
    PROVE  ring'[Back(since[d])'] = d.id
<1>1. since' = [e \in Cmds |-> IF e = c THEN 0
                               ELSE IF since[e] = RingSize THEN RingSize
                               ELSE since[e] + 1]
  BY DEF remember
<1>2. CASE d = c
  <2>1. since'[d] = 0
    BY <1>1, <1>2
  <2> QED
    BY <1>2, <2>1, RememberMovesBack DEF Back
<1>3. CASE d # c
  <2>1. since[d] \in 0..(RingSize - 2) /\ since'[d] = since[d] + 1
    BY <1>1, <1>3 DEF RingType
  <2> QED
    BY <1>3, <2>1, RememberMovesBack DEF Back
<1> QED
  BY <1>2, <1>3

-----------------------------------------------------------------------------
(* A step of the invariant                                                 *)

Inv == TypeOK /\ IInv

LEMMA RingIsTyped == ASSUME TypeOK PROVE RingType
  BY DEF TypeOK, DataOK, CountOK, RingType, Slots

(* What the line and the ring hold is of this session.                     *)
LEMMA LineStep == Inv /\ [Next]_vars => LineIsCurrent'
<1> SUFFICES ASSUME Inv, [Next]_vars, ~Simulated PROVE LineIsCurrent'
  BY DEF LineIsCurrent
<1> DEFINE DownOK == \A k \in 1..Len(down) : down[k].session = session
           UpOK == \A k \in 1..Len(up) : /\ up[k].cmd.session = session
                                         /\ up[k].kind = "ack" => up[k].cmd \in ran
           RingOK == \A k \in 0..(RingSize - 1) : ring[k] # 0 => Mine(ring[k]) \in ran
           SinceOK == \A c \in Cmds : since[c] < RingSize => c.session <= session
<1>1. TypeOK /\ DownOK /\ UpOK /\ RingOK /\ SinceOK
  BY DEF Inv, IInv, LineIsCurrent
<1>t. /\ down \in Seq(Cmds) /\ up \in Seq(Replies)
      /\ RingType /\ session \in Nat /\ queue \in Seq(Ids)
  BY <1>1, RingIsTyped DEF TypeOK, DataOK, Sessions
<1> SUFFICES DownOK' /\ UpOK' /\ RingOK' /\ SinceOK'
  BY DEF LineIsCurrent
(* What is added to the line is of this session.                           *)
<1>2. ASSUME NEW i \in Ids, down' = Append(down, Mine(i)),
             UNCHANGED <<session, up, ring, ran, since>>
      PROVE  DownOK' /\ UpOK' /\ RingOK' /\ SinceOK'
  <2>1. Mine(i) \in Cmds /\ Mine(i).session = session
    BY <1>1, MineIsCmd
  <2>2. DownOK'
    BY <1>1, <1>t, <1>2, <2>1, Appended
  <2> QED
    BY <1>1, <1>2, <2>2 DEF Mine
(* What is taken from it leaves the rest.                                  *)
<1>3. ASSUME down # <<>>, down' = Tail(down), session' = session
      PROVE  DownOK'
  BY <1>1, <1>t, <1>3, HeadTail
<1>4. ASSUME up # <<>>, up' = Tail(up), UNCHANGED <<session, ran>>
      PROVE  UpOK'
  BY <1>1, <1>t, <1>4, HeadTail
<1>5. ASSUME UNCHANGED <<session, down, up, ring, ran, since>>
      PROVE  DownOK' /\ UpOK' /\ RingOK' /\ SinceOK'
  BY <1>1, <1>5 DEF Mine
<1>6. CASE Send
  BY <1>5, <1>6 DEF Send, deviceVars, historyVars
<1>7. CASE Transmit
  <2>1. Head(queue) \in Ids
    BY <1>7, <1>t, HeadTail DEF Transmit
  <2> QED
    BY <1>2, <1>7, <2>1 DEF Transmit, deviceVars, historyVars
<1>8. CASE Read
  <2>1. UNCHANGED <<session, down, ring, ran, since>> /\ up # <<>> /\ up' = Tail(up)
    BY <1>8 DEF Read, deviceVars, historyVars
  <2> QED
    BY <1>1, <1>4, <2>1 DEF Mine
<1>9. ASSUME NEW i \in Ids, Retry(i) PROVE DownOK' /\ UpOK' /\ RingOK' /\ SinceOK'
  BY <1>2, <1>9 DEF Retry, deviceVars, historyVars
<1>10. ASSUME NEW i \in Ids, GiveUp(i) PROVE DownOK' /\ UpOK' /\ RingOK' /\ SinceOK'
  BY <1>5, <1>10 DEF GiveUp, deviceVars, historyVars
<1>11. CASE Disconnect
  BY <1>5, <1>11 DEF Disconnect, deviceVars, historyVars
<1>12. CASE Connect
  <2>1. /\ down' = <<>> /\ up' = <<>> /\ ring' = EmptyRing
        /\ session' = session + 1 /\ UNCHANGED <<ran, since>>
    BY <1>12 DEF Connect, historyVars
  <2>2. DownOK' /\ UpOK'
    BY <2>1
  <2>3. RingOK'
    BY <2>1 DEF EmptyRing
  <2>4. SinceOK'
    <3>1. \A c \in Cmds : c.session \in Nat
      BY CmdType DEF Sessions
    <3> QED
      BY <1>1, <1>t, <2>1, <3>1
  <2> QED
    BY <2>2, <2>3, <2>4
<1>13. CASE Device
  <2> DEFINE c == Head(down)
  <2>1. down # <<>>
    BY <1>13, DeviceDoes
  <2>2. c \in Cmds /\ c = Mine(c.id) /\ c.id \in Ids /\ c.session = session
    <3>1. c \in Cmds /\ c.session = session
      BY <1>1, <1>t, <2>1, HeadTail
    <3> QED
      BY <3>1, CmdIsMine, CmdType
  <2>3. PICK kind \in {"ack", "nack"} : Reply(c, kind)
    BY <1>13, DeviceDoes
  <2>4. /\ down' = Tail(down) /\ session' = session
        /\ up' = Append(up, [cmd |-> c, kind |-> kind])
    BY <2>3 DEF Reply, workerVars
  <2>5. /\ ran' \in {ran, ran \cup {c}}
        /\ up' = Append(up, [cmd |-> c, kind |-> "ack"]) => c \in ran'
        /\ UNCHANGED <<deviceVars, since>> \/ (remember(c) /\ c \in ran')
    <3>1. CASE AckDuplicate
      <4>1. \E k \in Slots : ring[k] = c.id
        BY <3>1 DEF AckDuplicate, Duplicate, Remembered, Slots
      <4>2. c \in ran
        BY <1>1, <2>2, <4>1, CmdType DEF Slots
      <4> QED
        BY <3>1, <4>2 DEF AckDuplicate, historyVars
    <3>2. CASE CarryOut
      BY <3>2 DEF CarryOut
    <3>3. CASE Refuse
      <4>1. UNCHANGED <<deviceVars, since>> /\ ran' = ran
        BY <3>3 DEF Refuse
      <4>2. up' = Append(up, [cmd |-> c, kind |-> "nack"])
        BY <3>3 DEF Refuse, Reply
      <4>3. /\ [cmd |-> c, kind |-> "nack"] \in Replies
            /\ [cmd |-> c, kind |-> "ack"] \in Replies
        BY <2>2 DEF Replies
      <4>4. Append(up, [cmd |-> c, kind |-> "nack"])
              # Append(up, [cmd |-> c, kind |-> "ack"])
        <5> DEFINE n == [cmd |-> c, kind |-> "nack"]
                   a == [cmd |-> c, kind |-> "ack"]
        <5>1. n.kind # a.kind
          OBVIOUS
        <5>2. Append(up, n)[Len(up) + 1] = n /\ Append(up, a)[Len(up) + 1] = a
          <6> HIDE DEF n, a
          <6> QED
            BY <1>t
        <5> QED
          BY <5>1, <5>2
      <4> QED
        BY <4>1, <4>2, <4>4
    <3> QED
      BY <1>13, <3>1, <3>2, <3>3 DEF Device
  <2>6. DownOK'
    BY <1>3, <2>1, <2>4
  <2>7. UpOK'
    <3>1. [cmd |-> c, kind |-> kind] \in Replies
      BY <2>2 DEF Replies
    <3> DEFINE r == [cmd |-> c, kind |-> kind]
    <3>2. r.cmd = c /\ r.kind = kind
      OBVIOUS
    <3>3. r.cmd.session = session /\ (r.kind = "ack" => c \in ran')
      BY <2>2, <2>4, <2>5, <3>2
    <3>4. up' = Append(up, r) /\ r \in Replies
      BY <2>4, <3>1
    <3> HIDE DEF r
    <3>5. \A k \in 1..Len(up') : \/ k \in 1..Len(up) /\ up'[k] = up[k]
                                 \/ up'[k] = r
      BY <1>t, <3>4, Appended
    <3> QED
      BY <1>1, <2>4, <2>5, <3>2, <3>3, <3>5
  <2>8. RingOK'
    <3>1. CASE UNCHANGED <<deviceVars, since>>
      BY <1>1, <2>4, <2>5, <3>1 DEF Mine, deviceVars
    <3>2. CASE remember(c) /\ c \in ran'
      <4>1. \A k \in Slots : ring'[k] = ring[k] \/ ring'[k] = c.id
        BY <1>t, <2>2, <3>2 DEF remember, RingType
      <4> QED
        BY <1>1, <2>2, <2>4, <2>5, <3>2, <4>1 DEF Mine, Slots
    <3> QED
      BY <2>5, <3>1, <3>2
  <2>9. SinceOK'
    <3>1. CASE UNCHANGED <<deviceVars, since>>
      BY <1>1, <2>4, <3>1
    <3>2. CASE remember(c)
      <4>1. \A d \in Cmds : since'[d] < RingSize => d = c \/ since[d] < RingSize
        BY <1>t, <3>2 DEF remember, RingType
      <4>2. session <= session
        BY <1>t
      <4> QED
        BY <1>1, <2>2, <2>4, <4>1, <4>2
    <3> QED
      BY <2>5, <3>1, <3>2
  <2> QED
    BY <2>6, <2>7, <2>8, <2>9
<1>14. CASE LoseDown
  <2>1. down # <<>> /\ down' = Tail(down) /\ UNCHANGED <<session, up, ring, ran, since>>
    BY <1>14 DEF LoseDown, workerVars, deviceVars, historyVars
  <2> QED
    BY <1>1, <1>3, <2>1 DEF Mine
<1>15. CASE LoseUp
  <2>1. up # <<>> /\ up' = Tail(up) /\ UNCHANGED <<session, down, ring, ran, since>>
    BY <1>15 DEF LoseUp, workerVars, deviceVars, historyVars
  <2> QED
    BY <1>1, <1>4, <2>1 DEF Mine
<1>16. CASE UNCHANGED vars
  BY <1>5, <1>16 DEF vars, workerVars, deviceVars, historyVars
<1> QED
  BY <1>6, <1>7, <1>8, <1>9, <1>10, <1>11, <1>12, <1>13, <1>14, <1>15, <1>16
     DEF Next, Worker, Line

(* A command stays in its place behind the head until it is pushed out; a  *)
(* reset empties the ring of a session that is over.                       *)
LEMMA RememberedStep == Inv /\ [Next]_vars => RanIsRemembered'
<1> SUFFICES ASSUME Inv, [Next]_vars PROVE RanIsRemembered'
  OBVIOUS
<1>1. TypeOK /\ RanIsRemembered /\ LineIsCurrent /\ RingType /\ session \in Sessions
  BY RingIsTyped DEF Inv, IInv, TypeOK, DataOK
<1>2. CASE UNCHANGED <<session, deviceVars, since>>
  BY <1>1, <1>2 DEF deviceVars, RanIsRemembered, Back
<1>3. CASE Connect
  <2>1. /\ session' = session + 1 /\ since' = since
        /\ Simulated => UNCHANGED <<ring, head>>
    BY <1>3 DEF Connect, historyVars, deviceVars
  <2>2. ASSUME NEW c \in Cmds, since[c] < RingSize PROVE c.session # session' \/ Simulated
    <3>1. ~Simulated => c.session <= session
      BY <1>1, <2>2 DEF LineIsCurrent
    <3> QED
      BY <1>1, <2>1, <3>1, CmdType DEF Sessions
  <2>3. ASSUME NEW c \in Cmds, since[c] < RingSize, Simulated
        PROVE  ring[Back(since[c])] = c.id
    BY <1>1, <2>3 DEF RanIsRemembered
  <2> QED
    BY <2>1, <2>2, <2>3 DEF RanIsRemembered, Back
<1>4. CASE Device
  <2>1. Head(down) \in Cmds
    BY <1>1, <1>4, DeviceDoes, HeadTail DEF TypeOK, DataOK
  <2>2. session' = session
    BY <1>4, DeviceDoes DEF Reply, workerVars
  <2>3. CASE remember(Head(down))
    <3> DEFINE c == Head(down)
    <3> SUFFICES ASSUME NEW d \in Cmds, since'[d] < RingSize,
                        Simulated \/ d.session = session
                 PROVE  ring'[Back(since[d])'] = d.id
      BY <2>2 DEF RanIsRemembered, Back
    <3>1. since[d] < RingSize => ring[Back(since[d])] = d.id
      BY <1>1 DEF RanIsRemembered
    <3> QED
      BY <1>1, <2>1, <2>3, <3>1, RememberKeeps
  <2> QED
    BY <1>2, <1>4, <2>2, <2>3, DeviceDoes
<1> QED
  BY <1>2, <1>3, <1>4
     DEF Next, Worker, Line, Send, Transmit, Read, Retry, GiveUp, Disconnect,
         LoseDown, LoseUp, vars, workerVars, deviceVars, historyVars

(* An answer is of the current session and true, so the report is.         *)
LEMMA AckStep ==
    Inv /\ [Next]_vars => (~Simulated => AckMeansRan')
<1> SUFFICES ASSUME Inv, [Next]_vars, ~Simulated PROVE AckMeansRan'
  OBVIOUS
<1>1. TypeOK /\ AckMeansRan /\ LineIsCurrent
  BY DEF Inv, IInv
<1>2. ran \subseteq ran'
  BY DEF Next, Worker, Device, Line, Send, Transmit, Read, Retry, GiveUp,
         Disconnect, Connect, AckDuplicate, CarryOut, Refuse, LoseDown, LoseUp,
         vars, historyVars
<1>3. CASE told' = told
  BY <1>1, <1>2, <1>3 DEF AckMeansRan
<1>4. CASE Read
  <2> DEFINE a == Head(up)
             r == [cmd |-> Mine(a.cmd.id), kind |-> a.kind]
  <2>1. a \in Replies /\ a = up[1] /\ 1 \in 1..Len(up)
    BY <1>1, <1>4, HeadTail DEF Read, TypeOK, DataOK
  <2>2. a.cmd \in Cmds
    BY <2>1 DEF Replies
  <2>3. a.cmd.session = session /\ (a.kind = "ack" => a.cmd \in ran)
    BY <1>1, <2>1 DEF LineIsCurrent
  <2>4. a.cmd = Mine(a.cmd.id)
    BY <2>2, <2>3, CmdIsMine
  <2>5. r.kind = "ack" => r.cmd \in ran
    BY <2>3, <2>4
  <2>6. told' = told \cup {r} \/ told' = told
    BY <1>4 DEF Read
  <2> QED
    BY <1>1, <1>2, <2>5, <2>6 DEF AckMeansRan
<1>5. ASSUME NEW i \in Ids, GiveUp(i) PROVE AckMeansRan'
  <2> DEFINE r == [cmd |-> Mine(i), kind |-> "failed"]
  <2>1. told' = told \cup {r} /\ r.kind # "ack"
    BY <1>5 DEF GiveUp
  <2> QED
    BY <1>1, <1>2, <2>1 DEF AckMeansRan
<1> QED
  BY <1>3, <1>4, <1>5
     DEF Next, Worker, Device, Line, Send, Transmit, Retry, Disconnect, Connect,
         AckDuplicate, CarryOut, Refuse, Reply, LoseDown, LoseUp, vars

(* What was carried out and not pushed out since is taken for a duplicate. *)
LEMMA KeptIsDuplicate ==
    ASSUME Inv, down # <<>>, Kept(Head(down))
    PROVE  Duplicate(Head(down))
<1> DEFINE c == Head(down)
<1>1. TypeOK /\ RingType /\ LineIsCurrent /\ RanIsRemembered
  BY RingIsTyped DEF Inv, IInv
<1>2. c \in Cmds /\ c = down[1] /\ 1 \in 1..Len(down)
  BY <1>1, HeadTail DEF TypeOK, DataOK
<1>3. Simulated \/ c.session = session
  BY <1>1, <1>2 DEF LineIsCurrent
<1>4. c \notin Exempt /\ since[c] < RingSize
  BY DEF Kept
<1>5. ring[Back(since[c])] = c.id
  BY <1>1, <1>2, <1>3, <1>4 DEF RanIsRemembered
<1>6. Back(since[c]) \in Slots
  <2>1. since[c] \in 0..(RingSize - 1)
    BY <1>1, <1>2, <1>4 DEF RingType
  <2> QED
    BY <1>1, <2>1, BackIsASlot
<1> QED
  BY <1>4, <1>5, <1>6 DEF Duplicate, Remembered, Slots

-----------------------------------------------------------------------------
(* The theorems                                                            *)

LEMMA Invariance == Spec => []Inv
<1>1. Init => Inv
  <2> SUFFICES ASSUME Init PROVE Inv
    OBVIOUS
  <2> USE DEF Init
  <2>1. TypeOK
    BY DEF TypeOK, FlagsOK, DataOK, CountOK, Sessions, Ids, NothingPending, EmptyRing
  <2>2. LineIsCurrent
    BY DEF LineIsCurrent, EmptyRing
  <2>3. RanIsRemembered
    BY DEF RanIsRemembered
  <2>4. AckMeansRan
    BY DEF AckMeansRan
  <2> QED
    BY <2>1, <2>2, <2>3, <2>4 DEF Inv, IInv
<1>2. Inv /\ [Next]_vars => Inv'
  <2> SUFFICES ASSUME Inv, [Next]_vars PROVE Inv'
    OBVIOUS
  <2>1. TypeOK' /\ LineIsCurrent' /\ RanIsRemembered'
    BY TypeStep, LineStep, RememberedStep, Zenon DEF Inv
  <2>2. ~Simulated => AckMeansRan'
    BY AckStep, Zenon
  <2> QED
    BY <2>1, <2>2, Zenon DEF Inv, IInv
<1> QED
  BY <1>1, <1>2, PTL DEF Spec

(* The worker's and the device's state stays of its type.                  *)
THEOREM TypeCorrect == Spec => []TypeOK
<1>1. Inv => TypeOK
  BY DEF Inv
<1> QED
  BY <1>1, Invariance, PTL

(* No command but a query is carried out again before RingSize others have *)
(* been remembered, however often it is resent, in whatever order, on      *)
(* either line, over reconnections, for any number of commands.            *)
THEOREM AtMostOnceHolds == Spec => AtMostOnce
<1>1. Inv /\ CarryOut => ~Kept(Head(down))
  BY KeptIsDuplicate, Zenon DEF CarryOut
<1> QED
  BY <1>1, Invariance, PTL DEF Spec, AtMostOnce

(* What the MCU acknowledges to the GUI was carried out, whatever is lost, *)
(* late or resent, and however often the GUI reconnects.                   *)
THEOREM AckMeansRanHolds ==
    ASSUME ~Simulated
    PROVE  Spec => []AckMeansRan
<1>1. Inv => AckMeansRan
  BY DEF Inv, IInv
<1> QED
  BY <1>1, Invariance, PTL

(* Neither device refuses a resend of a command that it carried out before *)
(* it has remembered RingSize others.                                      *)
THEOREM RanIsNotRefusedHolds == Spec => RanIsNotRefused
<1>1. Inv /\ Refuse => ~Kept(Head(down))
  BY KeptIsDuplicate, Zenon DEF Refuse
<1> QED
  BY <1>1, Invariance, PTL DEF Spec, RanIsNotRefused
=============================================================================
