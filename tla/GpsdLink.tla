------------------------------ MODULE GpsdLink ------------------------------
(***************************************************************************)
(* What the connection code of refclock_gpsd.c promises, without sockets, *)
(* countdowns or back-off: the primary unit is idle, trying one address,  *)
(* or up on it; it tries the resolved addresses in turn, one at a time;   *)
(* it gets up only on an address where GPSD listens, and it keeps coming  *)
(* back up.  GpsdConnection implements this specification (LinkRefined). *)
(***************************************************************************)
EXTENDS Integers

CONSTANTS NAddr, Good

VARIABLES
    link,   \* "idle", "trying" or "up"
    tried   \* the address of the latest attempt

Succ(a) == IF a = NAddr THEN 1 ELSE a + 1

\* A new attempt goes to the next address; it fails at once, connects at
\* once, or is left in progress, and only GPSD's addresses connect.
Attempt ==
    /\ link = "idle"
    /\ tried' = Succ(tried)
    /\ link' \in IF tried' \in Good THEN {"trying", "up"} ELSE {"trying", "idle"}

Establish == link = "trying" /\ tried \in Good /\ link' = "up" /\ UNCHANGED tried

Abandon == link = "trying" /\ tried \notin Good /\ link' = "idle" /\ UNCHANGED tried

Drop == link = "up" /\ link' = "idle" /\ UNCHANGED tried

Init == link = "idle" /\ tried = NAddr

Next == Attempt \/ Establish \/ Abandon \/ Drop

\* An idle unit tries again, and an attempt in progress is decided.
Spec == Init /\ [][Next]_<<link, tried>>
        /\ WF_<<link, tried>>(Attempt) /\ WF_<<link, tried>>(Establish)
        /\ WF_<<link, tried>>(Abandon)

====
