------------------------- MODULE ProgramStoreProofs -------------------------
(***************************************************************************)
(* Theorems about ProgramStore: the memory of an upload, what an accepted  *)
(* program consists of, and the implementation of StoredProgram.           *)
(***************************************************************************)
EXTENDS ProgramStore, TLAPS

-----------------------------------------------------------------------------
(* What fits of a chunk is a sequence of bytes no longer than the room,    *)
(* and the chunk itself when the chunk is acceptable.                      *)
LEMMA FittingFits ==
    ASSUME TypeOK, NEW chunk \in Chunks, Len(buf) <= xferSize
    PROVE  /\ Fitting(chunk.bytes) \in Seq(Bytes)
           /\ Len(buf \o Fitting(chunk.bytes))
                = Len(buf) + Len(Fitting(chunk.bytes))
           /\ Len(buf \o Fitting(chunk.bytes)) <= xferSize
           /\ Acceptable(chunk) => Fitting(chunk.bytes) = chunk.bytes
           /\ chunk.bytes \in Seq(Bytes)
<1> DEFINE bytes == chunk.bytes
<1>1. bytes \in Seq(Bytes) /\ Len(bytes) \in Nat
  BY ProgramStoreAssumption DEF ProgramStoreAssumption
<1>2. RoomLeft \in Nat
  BY ProgramStoreAssumption DEF ProgramStoreAssumption, TypeOK, DataOK, RoomLeft
<1>3. CASE Len(bytes) <= RoomLeft
  <2>1. Fitting(bytes) = bytes
    BY <1>3 DEF Fitting
  <2> QED
    BY <2>1, <1>1, <1>3 DEF TypeOK, DataOK, RoomLeft
<1>4. CASE ~(Len(bytes) <= RoomLeft)
  <2>1. Fitting(bytes) = SubSeq(bytes, 1, RoomLeft)
    BY <1>4 DEF Fitting
  <2>2. /\ SubSeq(bytes, 1, RoomLeft) \in Seq(Bytes)
        /\ Len(SubSeq(bytes, 1, RoomLeft)) = RoomLeft
    BY <1>1, <1>2, <1>4
  <2>3. ~Acceptable(chunk)
    BY <1>4 DEF Acceptable
  <2> QED
    BY <2>1, <2>2, <2>3, <1>1 DEF TypeOK, DataOK, RoomLeft
<1> QED
  BY <1>3, <1>4

(* The variables keep their types.                                         *)
LEMMA TypeStep == TypeOK /\ IInv /\ [Next]_vars => TypeOK'
<1> SUFFICES ASSUME TypeOK, IInv, [Next]_vars PROVE TypeOK'
  OBVIOUS
<1>f. FlagsOK'
  BY Zenon DEF TypeOK, FlagsOK, Next, BeginTransfer, BeginNoMemory, ReceiveChunk,
     EndShort, EndInvalid, EndValid, Finish, Reset, vars
<1>h. heap \in Nat /\ Freed \in Nat /\ (held => heap = 1)
  BY DEF TypeOK, DataOK, IInv, NoLeak, Freed
<1>c. 0 \in 0..MaxBytes /\ 0 \in 0..(CountMod - 1) /\ <<>> \in Seq(Bytes)
  BY ProgramStoreAssumption DEF ProgramStoreAssumption
<1>d. DataOK'
  <2>1. ASSUME NEW size \in 1..MaxBytes, NEW chunks \in 1..(CountMod - 1),
               BeginTransfer(size, chunks)
        PROVE  DataOK'
    <3>1. size \in 0..MaxBytes /\ chunks \in 0..(CountMod - 1)
      BY ProgramStoreAssumption DEF ProgramStoreAssumption
    <3> QED
      BY <2>1, <1>h, <1>c, <3>1 DEF TypeOK, DataOK, BeginTransfer
  <2>2. CASE BeginNoMemory
    BY <2>2, <1>h DEF TypeOK, DataOK, BeginNoMemory, xferVars
  <2>3. ASSUME NEW chunk \in Chunks, ReceiveChunk(chunk)
        PROVE  DataOK'
    <3>1. Len(buf) <= xferSize
      BY <2>3 DEF IInv, BufferFits, ReceiveChunk
    <3> DEFINE fit == Fitting(chunk.bytes)
    <3>2. /\ fit \in Seq(Bytes) /\ Len(fit) \in Nat
          /\ chunk.bytes \in Seq(Bytes)
      BY <3>1, FittingFits
    <3>3. NextIndex \in 0..(CountMod - 1)
      BY ProgramStoreAssumption
         DEF ProgramStoreAssumption, TypeOK, DataOK, NextIndex
    <3>4. buf' = buf \o fit /\ buf' \in Seq(Bytes)
      BY <2>3, <3>2 DEF ReceiveChunk, TypeOK, DataOK
    <3>5. CASE Acceptable(chunk)
      <4>1. /\ acked' = acked \o chunk.bytes /\ poison' = poison
            /\ xferReceived' = NextIndex
        BY <2>3, <3>5, Zenon DEF ReceiveChunk
      <4>2. acked' \in Seq(Bytes)
        BY <4>1, <3>2 DEF TypeOK, DataOK
      <4> QED
        BY <2>3, <3>3, <3>4, <4>1, <4>2 DEF ReceiveChunk, TypeOK, DataOK
    <3>6. CASE ~Acceptable(chunk)
      <4>1. acked' = acked /\ poison' \in Nat /\ xferReceived' = xferReceived
        BY <2>3, <3>2, <3>6 DEF ReceiveChunk, TypeOK, DataOK
      <4> QED
        BY <2>3, <3>4, <4>1 DEF ReceiveChunk, TypeOK, DataOK
    <3> QED
      BY <3>5, <3>6
  <2>4. CASE EndShort
    BY <2>4, <1>h, <1>c DEF TypeOK, DataOK, EndShort, Finish
  <2>5. CASE EndInvalid
    BY <2>5, <1>h, <1>c DEF TypeOK, DataOK, EndInvalid, Finish
  <2>6. CASE EndValid
    BY <2>6, <1>h, <1>c DEF TypeOK, DataOK, EndValid, Finish
  <2>7. CASE Reset
    BY <2>7, <1>h, <1>c DEF TypeOK, DataOK, Reset
  <2>8. CASE UNCHANGED vars
    BY <2>8 DEF TypeOK, DataOK, vars, xferVars
  <2> QED
    BY <2>1, <2>2, <2>3, <2>4, <2>5, <2>6, <2>7, <2>8 DEF Next
<1> QED
  BY <1>f, <1>d DEF TypeOK

(* The invariant is inductive: only a chunk moves the contents of the      *)
(* buffer, and every end of an upload frees it.                            *)
LEMMA InvariantStep == TypeOK /\ IInv /\ [Next]_vars => IInv'
<1> SUFFICES ASSUME TypeOK, IInv, [Next]_vars PROVE IInv'
  OBVIOUS
<1> USE DEF IInv, BufferFits, NoLeak, BufferIsAckedAndPoison
<1>1. ASSUME NEW size \in 1..MaxBytes, NEW chunks \in 1..(CountMod - 1),
             BeginTransfer(size, chunks)
      PROVE  IInv'
  BY <1>1, ProgramStoreAssumption
     DEF ProgramStoreAssumption, BeginTransfer, Freed, TypeOK, DataOK
<1>2. CASE BeginNoMemory
  BY <1>2 DEF BeginNoMemory, Freed, TypeOK, DataOK
<1>3. ASSUME NEW chunk \in Chunks, ReceiveChunk(chunk)
      PROVE  IInv'
  <2> DEFINE fit == Fitting(chunk.bytes)
  <2>1. /\ held /\ held' /\ xferSize' = xferSize /\ room' = room /\ heap' = heap
        /\ programLoaded' = programLoaded /\ buf' = buf \o fit
    BY <1>3 DEF ReceiveChunk
  <2>2. Len(buf) <= xferSize
    BY <2>1
  <2>3. /\ fit \in Seq(Bytes) /\ Len(buf') = Len(buf) + Len(fit)
        /\ Len(buf') <= xferSize
        /\ Acceptable(chunk) => fit = chunk.bytes
        /\ chunk.bytes \in Seq(Bytes)
    BY <2>1, <2>2, FittingFits
  <2>4. BufferFits' /\ NoLeak'
    BY <2>1, <2>3
  <2>l. /\ Len(buf) = Len(acked) + poison /\ (poison = 0 => buf = acked)
        /\ Len(buf) \in Nat /\ Len(acked) \in Nat /\ Len(fit) \in Nat
        /\ poison \in Nat
    BY <2>1, <2>3 DEF TypeOK, DataOK
  <2>5. CASE Acceptable(chunk)
    <3>1. acked' = acked \o chunk.bytes /\ poison' = poison
      BY <1>3, <2>5 DEF ReceiveChunk
    <3>2. Len(acked') = Len(acked) + Len(fit)
      BY <3>1, <2>3, <2>5 DEF TypeOK, DataOK
    <3>3. Len(buf') = Len(acked') + poison'
      BY <2>l, <2>3, <3>1, <3>2
    <3> QED
      BY <2>1, <2>3, <2>4, <2>5, <3>1, <3>3
  <2>6. CASE ~Acceptable(chunk)
    <3>1. acked' = acked /\ poison' = poison + Len(fit)
      BY <1>3, <2>6 DEF ReceiveChunk
    <3>2. Len(buf') = Len(acked') + poison'
      BY <2>l, <2>3, <3>1
    <3>3. poison' = 0 => poison = 0 /\ fit = <<>>
      BY <2>l, <2>3, <3>1
    <3>4. poison' = 0 => buf' = acked'
      BY <2>1, <2>l, <3>1, <3>3 DEF TypeOK, DataOK
    <3> QED
      BY <2>1, <2>4, <3>2, <3>4
  <2> QED
    BY <2>5, <2>6
<1>4. CASE EndShort
  BY <1>4 DEF EndShort, Finish, TypeOK, DataOK
<1>5. CASE EndInvalid
  BY <1>5 DEF EndInvalid, Finish, TypeOK, DataOK
<1>6. CASE EndValid
  BY <1>6 DEF EndValid, Finish, TypeOK, DataOK
<1>7. CASE Reset
  BY <1>7 DEF Reset, Freed, TypeOK, DataOK
<1>8. CASE UNCHANGED vars
  BY <1>8 DEF vars, xferVars
<1> QED
  BY <1>1, <1>2, <1>3, <1>4, <1>5, <1>6, <1>7, <1>8 DEF Next

(* Types and invariant hold in every reachable state.                      *)
THEOREM Invariance == Spec => [](TypeOK /\ IInv)
<1>1. Init => TypeOK /\ IInv
  <2>1. Init => FlagsOK
    BY Zenon DEF Init, FlagsOK
  <2>2. Init => DataOK
    BY ProgramStoreAssumption DEF ProgramStoreAssumption, Init, DataOK
  <2>3. Init => IInv
    BY DEF Init, IInv, BufferFits, NoLeak, BufferIsAckedAndPoison
  <2> QED
    BY <2>1, <2>2, <2>3 DEF TypeOK
<1>2. (TypeOK /\ IInv) /\ [Next]_vars => (TypeOK /\ IInv)'
  BY TypeStep, InvariantStep
<1> QED
  BY <1>1, <1>2, PTL DEF Spec

(* The variables of the store keep their types (ProgramStore.h members).   *)
THEOREM TypeCorrect == Spec => []TypeOK
  BY Invariance, PTL

(* receiveChunk and endTransfer stay inside the allocated block.           *)
THEOREM BufferFitsHolds == Spec => []BufferFits
  BY Invariance, PTL DEF IInv

(* The block of an upload is freed once, on every path.                    *)
THEOREM NoLeakHolds == Spec => []NoLeak
  BY Invariance, PTL DEF IInv

(* An upload is accepted as the chunks that were acknowledged.             *)
THEOREM AcceptedIsAckedHolds == Spec => AcceptedIsAcked
<1> DEFINE Step == ~programLoaded /\ programLoaded' /\ xferSize = Len(acked)
                      => doc' = acked
<1>1. TypeOK /\ IInv /\ [Next]_vars => [Step]_vars
  <2> SUFFICES ASSUME TypeOK, IInv, Next,
                      ~programLoaded, programLoaded', xferSize = Len(acked)
               PROVE  doc' = acked
    OBVIOUS
  <2>1. EndValid
    BY DEF Next, BeginTransfer, BeginNoMemory, ReceiveChunk, EndShort,
           EndInvalid, Reset
  <2>2. Len(buf) = Len(acked) + poison /\ (poison = 0 => buf = acked)
    BY <2>1 DEF EndValid, Finish, IInv, BufferIsAckedAndPoison
  <2>3. Len(buf) = xferSize /\ doc' = buf
    BY <2>1 DEF EndValid, Complete
  <2>4. poison = 0
    BY <2>2, <2>3 DEF TypeOK, DataOK
  <2> QED
    BY <2>2, <2>3, <2>4
<1> QED
  BY <1>1, Invariance, PTL DEF Spec, AcceptedIsAcked

-----------------------------------------------------------------------------
(* The chunk protocol implements StoredProgram: every request is a step of *)
(* the abstract store or none.                                             *)
THEOREM Implements == Spec => ImplementsStoredProgram
<1>1. Init => Stored!StoreInit
  BY DEF Init, Stored!StoreInit
<1>2. TypeOK /\ IInv /\ [Next]_vars => [Stored!StoreNext]_(Stored!storeVars)
  <2> SUFFICES ASSUME TypeOK, IInv, [Next]_vars
               PROVE  Stored!StoreNext \/ UNCHANGED Stored!storeVars
    OBVIOUS
  <2>1. ASSUME NEW size \in 1..MaxBytes, NEW chunks \in 1..(CountMod - 1),
               BeginTransfer(size, chunks)
        PROVE  Stored!Begin
    BY <2>1 DEF BeginTransfer, Stored!Begin
  <2>2. CASE BeginNoMemory
    BY <2>2 DEF BeginNoMemory, Stored!BeginFails, Stored!StoreNext
  <2>3. ASSUME NEW chunk \in Chunks, ReceiveChunk(chunk)
        PROVE  UNCHANGED Stored!storeVars
    BY <2>3 DEF ReceiveChunk, Stored!storeVars
  <2>4. CASE EndShort
    BY <2>4 DEF EndShort, Finish, Stored!Discard, Stored!StoreNext
  <2>5. CASE EndInvalid
    BY <2>5 DEF EndInvalid, Finish, Stored!Reject, Stored!StoreNext
  <2>6. CASE EndValid
    BY <2>6 DEF EndValid, Finish, Stored!Accept, Stored!StoreNext
  <2>7. CASE Reset
    BY <2>7 DEF Reset, Stored!Clear, Stored!StoreNext
  <2>8. CASE UNCHANGED vars
    BY <2>8 DEF vars, Stored!storeVars
  <2> QED
    BY <2>1, <2>2, <2>3, <2>4, <2>5, <2>6, <2>7, <2>8
       DEF Next, Stored!StoreNext
<1> QED
  BY <1>1, <1>2, Invariance, PTL DEF Spec, ImplementsStoredProgram, Stored!StoreSpec

-----------------------------------------------------------------------------
(* The abstract store keeps its promise, ...                               *)
LEMMA StoreIsWhole == Stored!StoreSpec => []Stored!RunnableIsWhole
<1>1. Stored!StoreInit => Stored!RunnableIsWhole
  BY DEF Stored!StoreInit, Stored!RunnableIsWhole
<1>2. Stored!RunnableIsWhole /\ [Stored!StoreNext]_(Stored!storeVars)
        => Stored!RunnableIsWhole'
  <2> SUFFICES ASSUME Stored!RunnableIsWhole,
                      [Stored!StoreNext]_(Stored!storeVars)
               PROVE  Stored!RunnableIsWhole'
    OBVIOUS
  <2>1. CASE Stored!Begin
    BY <2>1, Zenon DEF Stored!Begin, Stored!RunnableIsWhole
  <2>2. CASE Stored!BeginFails
    BY <2>2, Zenon DEF Stored!BeginFails, Stored!RunnableIsWhole
  <2>3. CASE Stored!Discard
    BY <2>3, Zenon DEF Stored!Discard, Stored!RunnableIsWhole
  <2>4. CASE Stored!Reject
    BY <2>4, Zenon DEF Stored!Reject, Stored!RunnableIsWhole
  <2>5. CASE Stored!Accept
    BY <2>5, Zenon DEF Stored!Accept, Stored!RunnableIsWhole
  <2>6. CASE Stored!Clear
    BY <2>6, Zenon DEF Stored!Clear, Stored!RunnableIsWhole
  <2>7. CASE UNCHANGED Stored!storeVars
    BY <2>7, Zenon DEF Stored!storeVars, Stored!RunnableIsWhole
  <2> QED
    BY <2>1, <2>2, <2>3, <2>4, <2>5, <2>6, <2>7, Zenon DEF Stored!StoreNext
<1> QED
  BY <1>1, <1>2, PTL DEF Stored!StoreSpec

(* ... and so does the chunk protocol, which implements it: what           *)
(* programLoaded() offers to run_program is a valid program.               *)
THEOREM RunnableIsWholeHolds == Spec => []RunnableIsWhole
  BY Implements, StoreIsWhole, PTL DEF ImplementsStoredProgram, RunnableIsWhole
=============================================================================
