------------------------- MODULE MCGpsdConnection -------------------------
(* Two resolved addresses (say ::1 and 127.0.0.1) of which GPSD listens  *)
(* only on the second, so the round robin has to move past a refusing    *)
(* address; the timeouts have the values of refclock_gpsd.c.             *)
EXTENDS GpsdConnection

MC_NAddr == 2
MC_Good == {2}
MC_TICKOVER_LOW == 10
MC_TICKOVER_HIGH == 120
=============================================================================
