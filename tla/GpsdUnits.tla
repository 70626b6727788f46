------------------------------ MODULE GpsdUnits ------------------------------
(***************************************************************************)
(* Life cycle of the unit a primary GPSD peer (unit n) and its secondary   *)
(* PPS peer (unit n+128) share (src/ntpd/refclock_gpsd.c): gpsd_start      *)
(* finds or allocates the unit on s_clock_units and counts its users,      *)
(* gpsd_shutdown releases the peer's I/O and frees the unit with its last  *)
(* user.  Between them the primary's timer connects to GPSD (abstracted    *)
(* from GpsdConnection to what it does to up->addr, up->fdt and            *)
(* pp->io.fd) and its gpsd_parse reads up->pps_peer.                       *)
(*                                                                         *)
(* A peer that is shut down is freed by the refclock core; "off" stands    *)
(* for both a peer never started and one whose storage is gone.  gpsd_init *)
(* resolves GPSD's address once, before any unit starts: getaddrinfo's     *)
(* outcome for each entry of s_svctab is chosen in Init.  s_gpsd_addr is   *)
(* whether an address list was found; up->addr is whether the unit's      *)
(* round-robin cursor is not NULL.                                         *)
(***************************************************************************)
EXTENDS Integers, FiniteSets

CONSTANTS Pri, Sec     \* the primary and the secondary peer of the unit

Peers == {Pri, Sec}

VARIABLES
    on,     \* on[p]: peer p is started and its pp->unitptr is the unit
    unit,   \* the gpsd_unitT; live is whether it is on s_clock_units
    fd,     \* the primary peer's pp->io.fd: "closed" or "open"
    s_gpsd_addr,    \* gpsd_init found an address list (not NULL)
    s_svcidx,       \* index of the s_svctab entry that resolved (3: none)
    hist    \* [derefDead: a freed peer was read through up->pps_peer,
            \*  leaked: a socket outlived the peer or unit owning it]

vars == <<on, unit, fd, s_gpsd_addr, s_svcidx, hist>>

SvcTab == 0..2      \* the entries of s_svctab before its NULL terminator

(* gpsd_init: the first entry getaddrinfo resolves, given its result for *)
(* each entry (TRUE: rc == 0).                                            *)
gpsd_init(res) ==
    LET ok == {i \in SvcTab : res[i]}
    IN  IF ok = {} THEN [addr |-> FALSE, idx |-> 3]
        ELSE [addr |-> TRUE, idx |-> CHOOSE i \in ok : \A j \in ok : i <= j]

(* gpsd_init_check: the resolver errors are spooled out once (s_svcidx *)
(* reset to 0), and the driver may proceed iff an address was found.    *)
gpsd_init_check == [ok |-> s_gpsd_addr, idx |-> 0]

\* emalloc_zero plus the initialisation in gpsd_start; fdt is "none" (-1),
\* "pending" (a connect in progress) or "closed" (a number already closed)
NoUnit == [live |-> FALSE, refcount |-> 0, ppsPeer |-> "null", addr |-> TRUE,
           fdt |-> "none"]

Live == unit.live

---------------------------------------------------------------------------
(* Mutant: dev_fail drops the use but never unlinks and frees the unit. *)
DevFailNoFree(u) == [u EXCEPT !.refcount = @ - 1]

(* dev_fail: drop this peer's use of the unit *)
DevFail(u) == IF u.refcount = 1 THEN NoUnit ELSE [u EXCEPT !.refcount = @ - 1]

(* Mutant: the search of s_clock_units misses the unit of the other peer *)
(* (a wrong key), so each peer allocates a unit of its own.               *)
StartUnitAlwaysNew(u, p, devOk) ==
    LET u1 == [NoUnit EXCEPT !.live = TRUE, !.refcount = 1]
    IN  IF ~devOk THEN [ok |-> FALSE, u |-> DevFail(u1)]
        ELSE [ok |-> TRUE,
              u |-> IF p = Sec THEN [u1 EXCEPT !.ppsPeer = Sec] ELSE u1]

(* gpsd_start(unit, peer).  devOk is whether the device name is built    *)
(* and names a character device (checked only for a new unit).           *)
StartUnit(u, p, devOk) ==
    LET new == ~u.live
        u1  == IF new THEN [NoUnit EXCEPT !.live = TRUE, !.refcount = 1]
                      ELSE [u EXCEPT !.refcount = @ + 1]
    IN  IF new /\ ~devOk THEN [ok |-> FALSE, u |-> DevFail(u1)]
        ELSE IF ~u1.addr THEN [ok |-> FALSE, u |-> DevFail(u1)]
        ELSE [ok |-> TRUE,
              u |-> IF p = Sec THEN [u1 EXCEPT !.ppsPeer = Sec] ELSE u1]

Start(p) ==
    /\ ~on[p]
    /\ s_svcidx' = gpsd_init_check.idx
    /\ IF ~gpsd_init_check.ok
       THEN UNCHANGED <<on, unit, fd, hist>>
       ELSE \E devOk \in BOOLEAN :
              LET r == StartUnit(unit, p, devOk)
              IN  /\ on' = [on EXCEPT ![p] = r.ok]
                  /\ unit' = r.u
                  /\ fd' = IF p = Pri THEN "closed" ELSE fd
                  /\ UNCHANGED hist
    /\ UNCHANGED s_gpsd_addr

(* gpsd_shutdown(pp) of peer p; the core then frees the peer. *)
(* Whether the I/O of pp is closed depends on up->pps_peer: only when it  *)
(* is set, and pp is not its peer.                                        *)
ShutdownUnit(u, p) ==
    LET closes == u.ppsPeer # "null" /\ p # u.ppsPeer
        fdt1   == IF closes /\ u.fdt = "pending" THEN "closed" ELSE u.fdt
        u1     == [u EXCEPT !.fdt = fdt1, !.refcount = @ - 1]
    IN  [closes |-> closes,
         u |-> IF u1.refcount = 0 THEN NoUnit ELSE u1,
         dead |-> u.ppsPeer # "null" /\ ~on[u.ppsPeer],
         lost |-> \/ p = Pri /\ fd = "open" /\ ~closes
                  \/ u1.refcount = 0 /\ u.fdt = "pending" /\ ~closes]

Shutdown(p) ==
    LET r == ShutdownUnit(unit, p)
    IN  /\ on[p]
        /\ on' = [on EXCEPT ![p] = FALSE]
        /\ unit' = r.u
        /\ fd' = IF r.closes THEN "closed" ELSE fd
        /\ hist' = [hist EXCEPT !.derefDead = @ \/ r.dead,
                                !.leaked = @ \/ r.lost]
        /\ UNCHANGED <<s_gpsd_addr, s_svcidx>>

---------------------------------------------------------------------------
(* The primary's connection, as GpsdConnection models it in detail *)

(* gpsd_init_socket: draw an address (up->addr may become NULL at the end *)
(* of the list, and wraps around from NULL), then the connect is pending,  *)
(* done, or failed.                                                        *)
InitSocket ==
    /\ on[Pri] /\ fd = "closed" /\ unit.fdt = "none"
    /\ \E last \in BOOLEAN, res \in {"progress", "sync", "fail"} :
        /\ unit' = [unit EXCEPT !.addr = ~last,
                                !.fdt = IF res = "progress" THEN "pending" ELSE "none"]
        /\ fd' = IF res = "sync" THEN "open" ELSE "closed"
    /\ UNCHANGED <<on, hist, s_gpsd_addr, s_svcidx>>

(* gpsd_test_socket on up->fdt: the connect finished, or failed.  A       *)
(* number that is already closed fails (EBADF) and is closed again.       *)
TestSocket ==
    /\ on[Pri] /\ fd = "closed" /\ unit.fdt \in {"pending", "closed"}
    /\ \E ok \in BOOLEAN :
        /\ unit' = [unit EXCEPT !.fdt = "none"]
        /\ fd' = IF ok /\ unit.fdt = "pending" THEN "open" ELSE "closed"
    /\ UNCHANGED <<on, hist, s_gpsd_addr, s_svcidx>>

(* gpsd_stop_socket after a timeout *)
StopSocket ==
    /\ on[Pri] /\ fd = "open"
    /\ fd' = "closed"
    /\ UNCHANGED <<on, unit, hist, s_gpsd_addr, s_svcidx>>

(* gpsd_parse on the primary: with a secondary PPS peer configured,      *)
(* eval_pps_secondary reads that peer's state.                            *)
GpsdParse ==
    /\ on[Pri] /\ fd = "open" /\ unit.ppsPeer # "null"
    /\ hist' = [hist EXCEPT !.derefDead = @ \/ ~on[unit.ppsPeer]]
    /\ UNCHANGED <<on, unit, fd, s_gpsd_addr, s_svcidx>>

Init ==
    /\ on = [p \in Peers |-> FALSE]
    /\ unit = NoUnit
    /\ fd = "closed"
    /\ hist = [derefDead |-> FALSE, leaked |-> FALSE]
    /\ \E res \in [SvcTab -> BOOLEAN] :
          s_gpsd_addr = gpsd_init(res).addr /\ s_svcidx = gpsd_init(res).idx

Next ==
    \/ \E p \in Peers : Start(p) \/ Shutdown(p)
    \/ InitSocket \/ TestSocket \/ StopSocket \/ GpsdParse

Spec == Init /\ [][Next]_vars

---------------------------------------------------------------------------
(* Properties *)

TypeOK ==
    /\ on \in [Peers -> BOOLEAN]
    /\ unit \in {NoUnit} \cup [live: {TRUE}, refcount: 1..2, ppsPeer: {"null", Sec},
                               addr: BOOLEAN, fdt: {"none", "pending", "closed"}]
    /\ fd \in {"closed", "open"}
    /\ hist \in [derefDead: BOOLEAN, leaked: BOOLEAN]
    /\ s_gpsd_addr \in BOOLEAN /\ s_svcidx \in 0..3

\* gpsd_start / gpsd_shutdown and their dev_fail paths: the unit's use
\* count is the number of started peers that point at it, and the unit
\* is on s_clock_units exactly while one does.
RefcountMatchesUsers ==
    /\ Live <=> \E p \in Peers : on[p]
    /\ Live => unit.refcount = Cardinality({p \in Peers : on[p]})

\* gpsd_shutdown / gpsd_parse: up->pps_peer is only followed to a peer
\* that is still started (not freed by the core after its shutdown).
PpsPeerDerefLive == ~hist.derefDead

\* gpsd_shutdown: "now check if we must close IO resources" - no socket
\* to GPSD outlives the peer or the unit that owns it.
SocketsReleased == ~hist.leaked

=============================================================================
