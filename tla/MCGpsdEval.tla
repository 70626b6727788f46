---------------------------- MODULE MCGpsdEval ----------------------------
(* Model-checking instance of GpsdEval.  The PPS account is scaled from   *)
(* 60/3/1 to 6/3/1 so that both hysteresis switches happen within a few   *)
(* seconds.  PPS2_MAXCOUNT is scaled from 10 to 4: the secondary's       *)
(* counter (+2 per pulse, -1 per second) still reaches its ceiling after  *)
(* two pulses from zero and decays back to zero within the run.           *)
EXTENDS GpsdEval

MC_PPS_MAXCOUNT == 6
MC_PPS_INCCOUNT == 3
MC_PPS_DECCOUNT == 1
MC_PPS2_MAXCOUNT == 4
MC_Quanta == 2
=============================================================================
