--------------------------- MODULE StoredProgram ---------------------------
(***************************************************************************)
(* What the program store of the firmware promises its clients: one job    *)
(* program, replaced as a whole.  An upload either ends with the program   *)
(* that was sent, validated and stored, or leaves nothing that can be run. *)
(* ProgramStore.tla is the detailed specification and is shown to          *)
(* implement this one; Firmware.tla uses these actions for its store.      *)
(***************************************************************************)
CONSTANTS Programs,    \* the programs that parse and validate
          NoProgram    \* a document that is no valid program (empty, half parsed)

VARIABLES receiving,   \* an upload has begun and can still receive chunks
          loaded,      \* programLoaded(): a validated program is stored
          doc          \* the stored document

storeVars == <<receiving, loaded, doc>>

StoreInit ==
    /\ receiving = FALSE
    /\ loaded = FALSE
    /\ doc = NoProgram

-----------------------------------------------------------------------------
(* An upload begins: whatever was stored can no longer be run.             *)
Begin ==
    /\ receiving' = TRUE
    /\ loaded' = FALSE
    /\ UNCHANGED doc

(* No memory for an upload: an upload in progress is lost, the stored      *)
(* program is not.                                                         *)
BeginFails ==
    /\ receiving' = FALSE
    /\ UNCHANGED <<loaded, doc>>

(* The upload ends short of what was announced.                            *)
Discard ==
    /\ receiving
    /\ receiving' = FALSE
    /\ UNCHANGED <<loaded, doc>>

(* The upload is complete and does not parse or validate.                  *)
Reject ==
    /\ receiving
    /\ receiving' = FALSE
    /\ doc' = NoProgram
    /\ UNCHANGED loaded

(* The upload is complete and valid.                                       *)
Accept ==
    /\ receiving
    /\ receiving' = FALSE
    /\ loaded' = TRUE
    /\ doc' \in Programs

(* The store is emptied (setProgramLoaded(FALSE), which the firmware itself *)
(* does not call).                                                         *)
Clear ==
    /\ receiving' = FALSE
    /\ loaded' = FALSE
    /\ doc' = NoProgram

StoreNext == Begin \/ BeginFails \/ Discard \/ Reject \/ Accept \/ Clear

StoreSpec == StoreInit /\ [][StoreNext]_storeVars

-----------------------------------------------------------------------------
(* A program can be run only when the store holds one, and never while it  *)
(* is being replaced.                                                      *)
RunnableIsWhole == loaded => doc \in Programs /\ ~receiving
=============================================================================
