---------------------------- MODULE ProgramStore ----------------------------
(***************************************************************************)
(* The program store of the firmware (core/ProgramStore.cpp): an upload    *)
(* arrives as base64 chunks into a buffer allocated for it, and is parsed, *)
(* validated and freed at its end.  Requests come in any order, with any   *)
(* sizes and with damaged data, as the line and the host may deliver them; *)
(* a request that is refused without an effect is no step here.            *)
(* A chunk is the bytes it decodes to, up to the first character that does *)
(* not decode.                                                             *)
(***************************************************************************)
EXTENDS Integers, Sequences

CONSTANTS
    Bytes,        \* byte values
    Chunks,       \* the chunks that can arrive: [bytes, bad]
    MaxBytes,     \* kMaxProgramBytes
    CountMod,     \* 2^16: the range of the chunk counters
    Programs,     \* the texts that parse and validate
    NoProgram     \* a document that is no valid program

ASSUME ProgramStoreAssumption ==
    /\ Chunks \subseteq [bytes : Seq(Bytes), bad : BOOLEAN]
    /\ MaxBytes \in Nat \ {0}
    /\ CountMod \in Nat \ {0, 1}
    /\ Programs \subseteq Seq(Bytes)
    /\ NoProgram \notin Programs

VARIABLES
    held,           \* buf_ is allocated
    buf,            \* its contents (bufLen_ is the length)
    xferSize, xferChunks, xferReceived,
    programLoaded,
    doc,            \* doc_
    \* history
    heap,           \* blocks allocated and not freed
    room,           \* bytes the block was allocated for
    acked,          \* bytes of the chunks acknowledged in this upload
    poison          \* bytes left in the buffer by refused chunks

xferVars == <<xferSize, xferChunks, xferReceived>>
vars == <<held, buf, xferVars, programLoaded, doc, heap, room, acked, poison>>

FlagsOK == held \in BOOLEAN /\ programLoaded \in BOOLEAN

DataOK ==
    /\ buf \in Seq(Bytes) /\ acked \in Seq(Bytes)
    /\ xferSize \in 0..MaxBytes
    /\ xferChunks \in 0..(CountMod - 1) /\ xferReceived \in 0..(CountMod - 1)
    /\ doc \in Programs \cup {NoProgram}
    /\ heap \in Nat /\ room \in 0..MaxBytes /\ poison \in Nat

TypeOK == FlagsOK /\ DataOK

Init ==
    /\ held = FALSE /\ programLoaded = FALSE
    /\ buf = <<>> /\ acked = <<>>
    /\ xferSize = 0 /\ xferChunks = 0 /\ xferReceived = 0
    /\ doc = NoProgram
    /\ heap = 0 /\ room = 0 /\ poison = 0

-----------------------------------------------------------------------------
(* Blocks in use once a buffer that is held has been freed.                *)
Freed == IF held THEN heap - 1 ELSE heap

(* beginTransfer for a size and a count it accepts: the buffer of an       *)
(* upload that was left unfinished goes first.  Mutants: it stays; the     *)
(* stored program is still offered.                                        *)
BeginTransferMutLeak(size, chunks) ==
    /\ held' = TRUE /\ buf' = <<>> /\ heap' = heap + 1
    /\ xferSize' = size /\ xferChunks' = chunks /\ xferReceived' = 0
    /\ programLoaded' = FALSE
    /\ room' = size /\ acked' = <<>> /\ poison' = 0
    /\ UNCHANGED doc

BeginTransferMutLoaded(size, chunks) ==
    /\ held' = TRUE /\ buf' = <<>> /\ heap' = Freed + 1
    /\ xferSize' = size /\ xferChunks' = chunks /\ xferReceived' = 0
    /\ room' = size /\ acked' = <<>> /\ poison' = 0
    /\ UNCHANGED <<programLoaded, doc>>

BeginTransfer(size, chunks) ==
    /\ held' = TRUE /\ buf' = <<>> /\ heap' = Freed + 1
    /\ xferSize' = size /\ xferChunks' = chunks /\ xferReceived' = 0
    /\ programLoaded' = FALSE
    /\ room' = size /\ acked' = <<>> /\ poison' = 0
    /\ UNCHANGED doc

(* malloc fails: the old buffer is gone, everything else is as it was.     *)
BeginNoMemory ==
    /\ held' = FALSE /\ heap' = Freed
    /\ UNCHANGED <<buf, xferVars, programLoaded, doc, room, acked, poison>>

(* How much of a chunk fits, by the bounds checks of receiveChunk.  The    *)
(* mutant's check is one too late.                                         *)
RoomLeftMut == xferSize - Len(buf) + 1
RoomLeft == xferSize - Len(buf)
Fitting(bytes) ==
    IF Len(bytes) <= RoomLeft THEN bytes ELSE SubSeq(bytes, 1, RoomLeft)

(* The mutant drops the bytes that do not fit and accepts the chunk.       *)
AcceptableMut(chunk) == ~chunk.bad
Acceptable(chunk) == ~chunk.bad /\ Len(chunk.bytes) <= RoomLeft

(* receiveChunk for the index it expects; the bytes ahead of what makes it *)
(* refuse the chunk stay in the buffer.                                    *)
NextIndex == IF xferReceived = CountMod - 1 THEN 0 ELSE xferReceived + 1

ReceiveChunk(chunk) ==
    /\ held /\ xferSize # 0
    /\ buf' = buf \o Fitting(chunk.bytes)
    /\ \/ /\ Acceptable(chunk)
          /\ xferReceived' = NextIndex
          /\ acked' = acked \o chunk.bytes
          /\ UNCHANGED poison
       \/ /\ ~Acceptable(chunk)
          /\ poison' = poison + Len(Fitting(chunk.bytes))
          /\ UNCHANGED <<xferReceived, acked>>
    /\ UNCHANGED <<held, xferSize, xferChunks, programLoaded, doc, heap, room>>

(* The three ends of an upload.  The buffer is freed in each of them.      *)
Finish ==
    /\ held /\ xferSize # 0
    /\ held' = FALSE /\ heap' = heap - 1 /\ xferSize' = 0
    /\ UNCHANGED <<xferChunks, xferReceived, room, acked, poison>>

Complete == xferReceived = xferChunks /\ Len(buf) = xferSize

(* incomplete or size_mismatch                                             *)
EndShort ==
    /\ Finish
    /\ ~Complete
    /\ UNCHANGED <<buf, programLoaded, doc>>

(* json_error leaves a half-parsed document, a validation error none.      *)
EndInvalid ==
    /\ Finish
    /\ Complete /\ buf \notin Programs
    /\ buf' = <<>> /\ doc' = NoProgram
    /\ UNCHANGED programLoaded

EndValid ==
    /\ Finish
    /\ Complete /\ buf \in Programs
    /\ buf' = <<>> /\ doc' = buf
    /\ programLoaded' = TRUE

(* reset, by way of setProgramLoaded                                       *)
Reset ==
    /\ held' = FALSE /\ heap' = Freed /\ buf' = <<>>
    /\ xferSize' = 0 /\ xferChunks' = 0 /\ xferReceived' = 0
    /\ programLoaded' = FALSE /\ doc' = NoProgram
    /\ UNCHANGED <<room, acked, poison>>

Next ==
    \/ \E size \in 1..MaxBytes, chunks \in 1..(CountMod - 1) :
          BeginTransfer(size, chunks)
    \/ BeginNoMemory
    \/ \E chunk \in Chunks : ReceiveChunk(chunk)
    \/ EndShort \/ EndInvalid \/ EndValid
    \/ Reset

Spec == Init /\ [][Next]_vars

-----------------------------------------------------------------------------
(* The store keeps the promise that the rest of the firmware relies on.    *)
Stored == INSTANCE StoredProgram WITH receiving <- held, loaded <- programLoaded
ImplementsStoredProgram == Stored!StoreSpec

(* What the rest of the firmware needs of it: while programLoaded() is     *)
(* true the document is a valid program and no upload is replacing it,     *)
(* after uploads that ended in any way.                                    *)
RunnableIsWhole == Stored!RunnableIsWhole

(* The decoder never writes outside the buffer: the bytes and the NUL that *)
(* end_transfer puts behind them fit the block malloc gave, also after     *)
(* damaged, repeated and oversized chunks and after a failed malloc.       *)
BufferFits == held => Len(buf) <= room /\ xferSize = room

(* Every block is freed exactly once on every path, in whatever order      *)
(* uploads are begun, abandoned, ended and begun again.                    *)
NoLeak == heap = IF held THEN 1 ELSE 0

(* A program is accepted only as what was acknowledged: when the chunks    *)
(* the host knows to be accepted add up to the size it announced, the      *)
(* document is those chunks in their order, whatever refused chunks have   *)
(* left in the buffer.                                                     *)
AcceptedIsAcked ==
    [][~programLoaded /\ programLoaded' /\ xferSize = Len(acked)
          => doc' = acked]_vars

(* What makes them inductive.                                              *)
BufferIsAckedAndPoison ==
    held => /\ xferSize # 0 /\ ~programLoaded
            /\ Len(buf) = Len(acked) + poison
            /\ poison = 0 => buf = acked

IInv == BufferFits /\ NoLeak /\ BufferIsAckedAndPoison
=============================================================================
