------------------------------ MODULE MCUpload ------------------------------
(* Five uploads, the second refused by the validator and of one chunk, the *)
(* others of two.                                                          *)
EXTENDS Upload

MCChunks == [u \in Uploads |-> IF u = 2 THEN 1 ELSE 2]
=============================================================================
