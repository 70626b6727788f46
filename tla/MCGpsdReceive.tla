---------------------------- MODULE MCGpsdReceive ----------------------------
(* A buffer of 4 bytes (MAX_PDU_LEN is 8192) fed by up to 3 reads of up  *)
(* to 3 characters: enough for a line to be split over reads, to be cut, *)
(* and for two lines to arrive in one read.                              *)
EXTENDS GpsdReceive

MC_Size == 4
MC_MaxChunk == 3
MC_MaxReads == 3
=============================================================================
