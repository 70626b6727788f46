--------------------------- MODULE GpsdConnection ---------------------------
(***************************************************************************)
(* The connection of a primary GPSD unit to the GPS daemon                 *)
(* (src/ntpd/refclock_gpsd.c): the 1 Hz countdown of timer_primary, which  *)
(* opens a non-blocking TCP connection to the next address of the          *)
(* resolved list (gpsd_init_socket), polls a pending connect for           *)
(* completion (gpsd_test_socket), sends a ?VERSION live check and closes   *)
(* a silent connection (gpsd_stop_socket); and gpsd_receive, which resets  *)
(* the countdown whenever data arrives.                                    *)
(*                                                                         *)
(* The socket is abstracted to its state: pp->io.fd is "closed" or "open", *)
(* up->fdt is "none" or "pending".  The kernel's progress on a pending     *)
(* connect is the environment variable conn: it completes (ok or error)    *)
(* in an action of its own.  Which addresses GPSD listens on is the        *)
(* constant Good.  Log throttling (logthrottle, syslogok) only decides     *)
(* whether a message is logged and is left out.                            *)
(***************************************************************************)
EXTENDS Integers

CONSTANTS
    NAddr,          \* number of addresses gpsd_init resolved (s_gpsd_addr)
    Good,           \* the addresses where GPSD accepts connections
    TICKOVER_LOW,
    TICKOVER_HIGH,
    MayFailAddClock \* io_addclock can fail (registration with the I/O engine)

ASSUME /\ NAddr >= 1 /\ Good \subseteq 1..NAddr
       /\ 0 < TICKOVER_LOW /\ TICKOVER_LOW < TICKOVER_HIGH
       /\ MayFailAddClock \in BOOLEAN

min(a, b) == IF a < b THEN a ELSE b

\* The address list; 0 stands for the NULL that ends it.
Addrs == 1..NAddr
NextAddr(a) == IF a = NAddr THEN 0 ELSE a + 1

\* The presets the back-off goes through: TICKOVER_LOW, +5, ... TICKOVER_HIGH
Presets == {min(TICKOVER_LOW + 5 * k, TICKOVER_HIGH) : k \in 0..TICKOVER_HIGH}

VARIABLES
    fd,         \* pp->io.fd: "closed" (-1), "open" (registered with the I/O
                \* engine) or "stray" (set, but io_addclock refused it)
    fdt,        \* up->fdt: "none" (-1) or "pending" (connect in progress)
    sockAddr,   \* address the pending or open socket goes to
    tickover,   \* up->tickover: timeout countdown
    tickpres,   \* up->tickpres: timeout preset
    addr,       \* up->addr: next address to try, 0 for NULL
    conn,       \* kernel state of the pending connect
    hist        \* [silent: timer ticks since the connection last had news,
                \*  sinceTry: ticks since the last connect attempt]

vars == <<fd, fdt, sockAddr, tickover, tickpres, addr, conn, hist>>

Cap == TICKOVER_HIGH + 1
Aged(n) == min(n + 1, Cap)

---------------------------------------------------------------------------
(* The socket helpers change the socket variables and the countdown.  A   *)
(* record of those is passed through one timer call.                      *)
Sock == [fd |-> fd, fdt |-> fdt, sockAddr |-> sockAddr, tickover |-> tickover,
         tickpres |-> tickpres, addr |-> addr, conn |-> conn, hist |-> hist]

(* Mutant: the failure tail forgets to reload the countdown. *)
NoSocketTestNoReload(k) ==
    [k EXCEPT !.fdt = "none", !.conn = "idle",
              !.tickpres = min(k.tickpres + 5, TICKOVER_HIGH)]

(* The failure tail (no_socket) of gpsd_test_socket: close the pending   *)
(* socket and back off.  It leaves pp->io.fd alone.                       *)
NoSocketTest(k) ==
    [k EXCEPT !.fdt = "none", !.conn = "idle", !.tickover = k.tickpres,
              !.tickpres = min(k.tickpres + 5, TICKOVER_HIGH)]

(* The failure tail (no_socket) of gpsd_init_socket also closes pp->io.fd *)
NoSocket(k) == [NoSocketTest(k) EXCEPT !.fd = "closed"]

(* Swap the connected socket into pp->io.fd and register it with          *)
(* io_addclock; a refusal leaves pp->io.fd set and takes the caller's     *)
(* failure tail: NoSocketTest from gpsd_test_socket (inTest), NoSocket    *)
(* from gpsd_init_socket.                                                 *)
AddClock(k, addOk, inTest) ==
    LET k1 == [k EXCEPT !.fd = "stray", !.fdt = "none"]
    IN  IF addOk
        THEN [k EXCEPT !.fd = "open", !.fdt = "none", !.conn = "idle",
                       !.hist.silent = 0]
        ELSE IF inTest THEN NoSocketTest(k1) ELSE NoSocket(k1)

(* Mutant: the back-off is not clamped at TICKOVER_HIGH. *)
StopSocketKNoClamp(k) ==
    [k EXCEPT !.fd = "closed", !.tickover = min(k.tickpres, TICKOVER_HIGH),
              !.tickpres = k.tickpres + 5]

(* gpsd_stop_socket *)
StopSocketK(k) ==
    [k EXCEPT !.fd = "closed", !.tickover = k.tickpres,
              !.tickpres = min(k.tickpres + 5, TICKOVER_HIGH)]

(* Mutant: the address pointer is not advanced. *)
InitSocketSameAddr(k, res, addOk) ==
    LET a  == IF k.addr = 0 THEN 1 ELSE k.addr
        k1 == [k EXCEPT !.addr = a, !.sockAddr = a, !.hist.sinceTry = 0]
    IN  CASE res = "fail"     -> NoSocket(k1)
          [] res = "progress" -> [k1 EXCEPT !.fdt = "pending", !.conn = "connecting"]
          [] OTHER            -> AddClock(k1, addOk, FALSE)

(* gpsd_init_socket: draw the next address and start a non-blocking      *)
(* connect.  res is what socket()/fcntl()/connect() return: "sync" (the  *)
(* connect completed at once), "progress" (EINPROGRESS) or "fail".  A     *)
(* synchronous connect takes the socket into use without touching the    *)
(* countdown.                                                            *)
InitSocket(k, res, addOk) ==
    LET a  == IF k.addr = 0 THEN 1 ELSE k.addr
        k1 == [k EXCEPT !.addr = NextAddr(a), !.sockAddr = a,
                        !.hist.sinceTry = 0]
    IN  CASE res = "fail"     -> NoSocket(k1)
          [] res = "progress" -> [k1 EXCEPT !.fdt = "pending", !.conn = "connecting"]
          [] OTHER            -> AddClock(k1, addOk, FALSE)

(* gpsd_test_socket: a pending connect that is not writable yet is left  *)
(* alone; otherwise SO_ERROR decides.                                     *)
TestSocket(k, addOk) ==
    CASE k.conn = "connecting" -> k
      [] k.conn = "refused"    -> NoSocketTest([k EXCEPT !.tickover = TICKOVER_LOW])
      [] OTHER                 -> AddClock([k EXCEPT !.tickover = TICKOVER_LOW],
                                           addOk, TRUE)

(* timer_primary: count down, then act on the socket state *)
TimerPrimaryK(k, res, addOk) ==
    LET t  == IF k.tickover > 0 THEN k.tickover - 1 ELSE 0
        k1 == [k EXCEPT !.tickover = t, !.hist.silent = Aged(@),
                        !.hist.sinceTry = Aged(@)]
    IN  CASE t = 4 ->
               IF k1.fd # "closed" THEN k1    \* write(?VERSION) live check
               ELSE IF k1.fdt = "pending" THEN TestSocket(k1, addOk) ELSE k1
          [] t = 0 ->
               IF k1.fd # "closed" THEN StopSocketK(k1)
               ELSE IF k1.fdt = "pending" THEN TestSocket(k1, addOk)
               ELSE InitSocket(k1, res, addOk)
          [] OTHER ->
               IF k1.fd = "closed" /\ k1.fdt = "pending"
               THEN TestSocket(k1, addOk) ELSE k1

Apply(k) ==
    /\ fd' = k.fd /\ fdt' = k.fdt /\ sockAddr' = k.sockAddr
    /\ tickover' = k.tickover /\ tickpres' = k.tickpres /\ addr' = k.addr
    /\ conn' = k.conn /\ hist' = k.hist

---------------------------------------------------------------------------
(* Actions *)

\* What socket()/connect() may return for an address: GPSD's addresses
\* accept, the others refuse at once or later.
ConnectResults(a) ==
    IF a \in Good THEN {"sync", "progress"} ELSE {"fail", "progress"}

\* gpsd_timer on the primary peer (the s_gpsd_addr list is not empty)
Timer ==
    \E res \in {"sync", "progress", "fail"},
       addOk \in IF MayFailAddClock THEN BOOLEAN ELSE {TRUE} :
        LET a == IF addr = 0 THEN 1 ELSE addr
        IN  /\ res \in ConnectResults(a)
            /\ Apply(TimerPrimaryK(Sock, res, addOk))

\* The kernel completes a pending connect: GPSD's addresses accept it.
ConnectDone ==
    /\ conn = "connecting"
    /\ conn' = IF sockAddr \in Good THEN "accepted" ELSE "refused"
    /\ UNCHANGED <<fd, fdt, sockAddr, tickover, tickpres, addr, hist>>

\* gpsd_receive: GPSD sent data on the open connection.
Receive ==
    /\ fd = "open"
    /\ tickover' = TICKOVER_LOW
    /\ hist' = [hist EXCEPT !.silent = 0]
    /\ UNCHANGED <<fd, fdt, sockAddr, tickpres, addr, conn>>

\* gpsd_start: the unit is zero-allocated with tickpres = TICKOVER_LOW and
\* addr = s_gpsd_addr.
Init ==
    /\ fd = "closed" /\ fdt = "none" /\ sockAddr = 1
    /\ tickover = 0 /\ tickpres = TICKOVER_LOW /\ addr = 1
    /\ conn = "idle"
    /\ hist = [silent |-> 0, sinceTry |-> Cap]

Next == Timer \/ ConnectDone \/ Receive

\* The 1 Hz timer always runs; the kernel finishes a connect it started;
\* GPSD answers on an open connection (it sends VERSION on connect).
Fairness == WF_vars(Timer) /\ WF_vars(ConnectDone) /\ WF_vars(Receive)

Spec == Init /\ [][Next]_vars
FairSpec == Spec /\ Fairness

---------------------------------------------------------------------------
(* Properties *)

TypeOK ==
    /\ fd \in {"closed", "open", "stray"} /\ fdt \in {"none", "pending"}
    /\ sockAddr \in Addrs /\ addr \in 0..NAddr
    /\ tickover \in 0..TICKOVER_HIGH /\ tickpres \in Presets
    /\ conn \in {"idle", "connecting", "accepted", "refused"}
    /\ hist \in [silent: 0..Cap, sinceTry: 0..Cap]

\* gpsd_init_socket / gpsd_stop_socket back off: GPSD is never hammered.
\* The timer tick that starts a connect attempt comes at least
\* TICKOVER_LOW ticks after the one that started the previous attempt,
\* whatever happened to that one.
RetrySpacing ==
    [][Timer /\ hist'.sinceTry = 0 => hist.sinceTry + 1 >= TICKOVER_LOW]_vars

\* gpsd_test_socket: "next timeout is a full one".  The driver closes a
\* connection for silence only after it was open, or had data, for
\* TICKOVER_LOW timer seconds.
FullTimeoutBeforeClose ==
    [][fd = "open" /\ fd' = "closed" => hist'.silent >= TICKOVER_LOW]_vars

\* The connection refines GpsdLink.  The link is up while pp->io.fd is
\* in use and trying while up->fdt is pending; the latest attempt went to
\* the address before up->addr in the round robin.
LinkOf ==
    IF fd # "closed" THEN "up" ELSE IF fdt = "pending" THEN "trying" ELSE "idle"
TriedOf ==
    LET a == IF addr = 0 THEN 1 ELSE addr
    IN  IF a = 1 THEN NAddr ELSE a - 1

Link == INSTANCE GpsdLink WITH link <- LinkOf, tried <- TriedOf

\* The timer, the socket helpers and gpsd_receive implement GpsdLink: one
\* socket at a time, the addresses tried in turn, a connection only where
\* GPSD listens, and, GPSD listening on one address, connected again and
\* again whatever the others do.
LinkRefined == Link!Spec

=============================================================================
