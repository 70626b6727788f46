------------------------------ MODULE GpsdEval ------------------------------
(***************************************************************************)
(* Record evaluation of the GPSD JSON refclock driver                      *)
(* (src/ntpd/refclock_gpsd.c): what happens to one clock unit when a       *)
(* complete JSON line from GPSD is parsed (gpsd_parse and the process_*,   *)
(* eval_* helpers it calls), when the 1 Hz timer of the secondary PPS      *)
(* unit runs, when either unit is polled, when fudge values are applied    *)
(* (gpsd_control) and when the GPSD socket is closed (gpsd_stop_socket).   *)
(*                                                                         *)
(* Data abstraction.  A JSON line is reduced to its class and to whether   *)
(* the fields the driver looks up are present and well formed.  Time is    *)
(* counted in quanta of 1/Quanta second; a time stamp of the driver is     *)
(* kept as its age in quanta, capped at AgeCap, which is enough to decide  *)
(* lfpsint() of a difference of two of them (see StaleCheck).  At most     *)
(* one line is parsed per quantum, so two receive times never tie.         *)
(* Reference (GPS) times, fudge offsets, precision, tallies and logging    *)
(* are left out: no control decision of the driver depends on them.        *)
(*                                                                         *)
(* The variable hist holds history that the code does not keep but the     *)
(* properties speak about: when the pulse held in pps_recvt was really     *)
(* received, whether GPSD reported "no fix" after a datum was received,    *)
(* and what the last sample handed to the refclock core was made of.       *)
(***************************************************************************)
EXTENDS Integers

CONSTANTS
    PPS_MAXCOUNT,   \* upper limit of the AUTO mode PPS account
    PPS_INCCOUNT,   \* credit for a serial stamp with a pulse
    PPS_DECCOUNT,   \* debit for a serial stamp without a pulse
    PPS2_MAXCOUNT,  \* upper limit of the secondary channel counter
    Quanta,         \* time quanta per second
    ProtoMinor,     \* GPSD speaks protocol 3.ProtoMinor
    HasPpsPeer,     \* a secondary PPS unit (unit >= 128) is attached
    CfgModes        \* mode words the configuration may give the primary

ASSUME /\ PPS_DECCOUNT > 0 /\ PPS_INCCOUNT > 0 /\ PPS_MAXCOUNT > PPS_INCCOUNT
       /\ PPS2_MAXCOUNT > 2 /\ Quanta >= 2 /\ ProtoMinor \in Nat
       /\ HasPpsPeer \in BOOLEAN /\ CfgModes \subseteq 0..3

\* Ages are capped at two seconds: older than any comparison needs.
AgeCap == 2 * Quanta

\* Operation modes (MODE_OP_IBT, MODE_OP_STRICT, MODE_OP_AUTO); a mode word
\* of 3 is possible through gpsd_control and is evaluated like IBT.
MODE_OP_IBT == 0
MODE_OP_STRICT == 1
MODE_OP_AUTO == 2
ModeWords == 0..3

\* The JSON lines GPSD can send, as far as the driver tells them apart.
\* UNKNOWN stands for a line that is no JSON object, has no "class" or has a
\* class the driver ignores; all three leave the unit as it is.
Records == {"TPV_NOFIX", "TPV_FIX", "TPV_BADTIME",
            "PPS", "PPS_BAD",
            "TOFF", "TOFF_BADCLOCK", "TOFF_BADREAL",
            "VERSION", "VERSION_BAD", "WATCH_ON", "WATCH_OFF", "UNKNOWN"}

NoSample == [src |-> "none", gap |-> 0, split |-> FALSE]

VARIABLES
    up,     \* the gpsd_unit fields that steer evaluation
    peer,   \* what the driver writes into the two refclock peers
    hist,   \* history for the properties
    clk     \* [frac: position in the current second, quiet: no line yet]

vars == <<up, peer, hist, clk>>

min(a, b) == IF a < b THEN a ELSE b
max(a, b) == IF a > b THEN a ELSE b
Older(age) == min(age + 1, AgeCap)

\* lfpsint() of a difference of two receive times given in quanta
SecsOf(d) == d \div Quanta

---------------------------------------------------------------------------
(* enter_opmode / leave_opmode *)
EnterOpmode(u, m) ==
    [u EXCEPT !.fl_rawibt = IF m = MODE_OP_AUTO THEN FALSE ELSE @,
              !.ppscount  = IF m = MODE_OP_AUTO THEN PPS_MAXCOUNT \div 2 ELSE @,
              !.fl_pps = FALSE, !.fl_ibt = FALSE]

LeaveOpmode(u, m) ==
    [u EXCEPT !.fl_rawibt = IF m = MODE_OP_AUTO THEN FALSE ELSE @,
              !.ppscount  = IF m = MODE_OP_AUTO THEN 0 ELSE @,
              !.fl_pps = FALSE, !.fl_ibt = FALSE]

(* The state passed through the steps of one handler.  hist.lastFed only *)
(* describes a sample made by the current step.                           *)
S == [up |-> up, peer |-> peer, hist |-> [hist EXCEPT !.lastFed = NoSample]]

(* History about a serial stamp or a pulse is forgotten once the driver   *)
(* no longer holds it (fl_ibt, fl_pps cleared).                           *)
Settle(s) ==
    [s EXCEPT !.hist.ibtStale  = s.up.fl_ibt /\ @,
              !.hist.ibtSplit  = s.up.fl_ibt /\ @,
              !.hist.ppsStale  = s.up.fl_pps /\ @,
              !.hist.pulseAge  = IF s.up.fl_pps THEN @ ELSE AgeCap]

(* Make the next state the result s of a handler. *)
Become(s) == LET t == Settle(s) IN up' = t.up /\ peer' = t.peer /\ hist' = t.hist

(* Mutant of ProcessTpv: a TPV without a fix keeps a pending pulse. *)
ProcessTpvKeepsPulse(s, kind) ==
    IF kind = "TPV_NOFIX"
    THEN [s EXCEPT !.up.fl_ibt = FALSE, !.up.fl_nosync = TRUE,
                   !.hist.gpsNoFix = TRUE, !.hist.ibtStale = TRUE,
                   !.hist.ppsStale = TRUE]
    ELSE LET s1 == [s EXCEPT !.up.fl_nosync = FALSE, !.hist.gpsNoFix = FALSE]
         IN  IF s.up.pf_toff THEN s1
             ELSE IF kind = "TPV_FIX"
             THEN [s1 EXCEPT !.up.fl_ibt = TRUE, !.up.ibt_local = 0,
                             !.hist.ibtSplit = FALSE,
                             !.hist.ibtStale = FALSE]
             ELSE [s1 EXCEPT !.up.fl_ibt = FALSE]

(* process_tpv: a TPV without a 2D/3D fix drops both pending data; with a *)
(* fix it yields a serial stamp unless TOFF records are in use.           *)
ProcessTpv(s, kind) ==
    IF kind = "TPV_NOFIX"
    THEN [s EXCEPT !.up.fl_ibt = FALSE, !.up.fl_pps = FALSE,
                   !.up.fl_nosync = TRUE, !.hist.gpsNoFix = TRUE,
                   !.hist.ibtStale = TRUE, !.hist.ppsStale = TRUE]
    ELSE LET s1 == [s EXCEPT !.up.fl_nosync = FALSE, !.hist.gpsNoFix = FALSE]
         IN  IF s.up.pf_toff THEN s1
             ELSE IF kind = "TPV_FIX"
             THEN [s1 EXCEPT !.up.fl_ibt = TRUE, !.up.ibt_local = 0,
                             !.hist.ibtSplit = FALSE,
                             !.hist.ibtStale = FALSE]
             ELSE [s1 EXCEPT !.up.fl_ibt = FALSE]

(* process_pps: pps_local is written before the fields are checked. The  *)
(* fields are clock_/real_ nsec or musec after pf_nsec (get_binary_time). *)
ProcessPps(s, kind) ==
    LET fieldsOk == kind = "PPS" /\ s.up.pf_nsec = (ProtoMinor >= 9)
        s1 == [s EXCEPT !.up.pps_local = 0]
    IN  IF s.up.fl_nosync THEN s
        ELSE IF ~fieldsOk THEN s1
        ELSE [s1 EXCEPT !.up.fl_pps = ~s.peer.flag2, !.up.fl_pps2 = TRUE,
                        !.hist.pulseAge = 0,
                        !.hist.ppsStale = s.hist.gpsNoFix]

(* process_toff: ibt_recvt is written before real_sec/real_nsec are read. *)
ProcessToff(s, kind) ==
    LET s1 == [s EXCEPT !.up.pf_toff = TRUE]
    IN  IF s.up.fl_nosync \/ kind = "TOFF_BADCLOCK" THEN s1
        ELSE IF kind = "TOFF_BADREAL" THEN [s1 EXCEPT !.hist.ibtSplit = TRUE]
        ELSE [s1 EXCEPT !.up.fl_ibt = TRUE, !.up.ibt_local = 0,
                        !.hist.ibtSplit = FALSE,
                        !.hist.ibtStale = s.hist.gpsNoFix]

(* process_version: learn the protocol flags; the WATCH request it may   *)
(* write changes no state of the unit.                                   *)
ProcessVersion(s, kind) ==
    IF kind = "VERSION_BAD" THEN s
    ELSE [s EXCEPT !.up.pf_nsec = ProtoMinor >= 9,
                   !.up.pf_toff = ProtoMinor >= 10]

(* process_watch *)
ProcessWatch(s, kind) == [s EXCEPT !.up.fl_watch = (kind = "WATCH_ON")]

(* add_clock_sample on the primary peer; what the sample is made of goes *)
(* to hist.lastFed.                                                       *)
FeedPrimary(s, smp) == [s EXCEPT !.peer.priQueued = TRUE, !.hist.lastFed = smp]

(* Mutant of EvalPpsSecondary: the counter is not clamped. *)
EvalPpsSecondaryNoClamp(s) ==
    IF ~s.up.fl_pps2 THEN s
    ELSE LET c == s.up.ppscount2 + 2
         IN  [s EXCEPT !.peer.secQueued = TRUE,
                       !.peer.secFlagPps = (c = PPS2_MAXCOUNT /\ s.peer.flag1) \/ @,
                       !.up.ppscount2 = c, !.up.fl_pps2 = FALSE,
                       !.hist.sinceSec2 = 0]

(* eval_pps_secondary *)
EvalPpsSecondary(s) ==
    IF ~s.up.fl_pps2 THEN s
    ELSE LET c == min(PPS2_MAXCOUNT, s.up.ppscount2 + 2)
         IN  [s EXCEPT !.peer.secQueued = TRUE,
                       !.peer.secFlagPps = (c = PPS2_MAXCOUNT /\ s.peer.flag1) \/ @,
                       !.up.ppscount2 = c, !.up.fl_pps2 = FALSE,
                       !.hist.sinceSec2 = 0]

(* The PPS vs. IBT receive time check of gpsd_parse. *)
StaleCheck(s) ==
    LET d == SecsOf(s.up.pps_local - s.up.ibt_local)  \* ibt_local - pps_local
    IN  IF ~(s.up.fl_pps /\ s.up.fl_ibt) THEN s
        ELSE IF d > 0 THEN [s EXCEPT !.up.fl_pps = FALSE]
        ELSE IF d < 0 THEN [s EXCEPT !.up.fl_ibt = FALSE]
        ELSE s

(* eval_serial *)
EvalSerial(s) ==
    IF ~s.up.fl_ibt THEN s
    ELSE [FeedPrimary(s, [src |-> "IBT", gap |-> 0, split |-> s.hist.ibtSplit])
            EXCEPT !.up.fl_ibt = FALSE]

(* eval_strict: serial reference time with the pulse's receive time *)
EvalStrict(s) ==
    IF ~(s.up.fl_ibt /\ s.up.fl_pps) THEN s
    ELSE [FeedPrimary(s, [src |-> "PAIR", split |-> FALSE,
                          gap |-> s.hist.pulseAge - s.up.ibt_local])
            EXCEPT !.up.fl_pps = FALSE, !.up.fl_ibt = FALSE]

(* Mutant of EvalAuto: the credit is not clamped at PPS_MAXCOUNT. *)
EvalAutoNoClamp(s) ==
    IF ~s.up.fl_ibt THEN s
    ELSE LET u == s.up
             credit == u.ppscount + PPS_INCCOUNT
             debit  == max(0, u.ppscount - PPS_DECCOUNT)
             s1 == IF u.fl_pps
                   THEN [s EXCEPT !.up.ppscount = credit,
                          !.up.fl_rawibt = IF credit = PPS_MAXCOUNT THEN FALSE ELSE @]
                   ELSE [s EXCEPT !.up.ppscount = debit,
                          !.up.fl_rawibt = IF debit = 0 THEN TRUE ELSE @]
         IN  IF s1.up.fl_rawibt THEN EvalSerial(s1) ELSE EvalStrict(s1)

(* eval_auto: the PPS account decides between serial and paired samples *)
EvalAuto(s) ==
    IF ~s.up.fl_ibt THEN s
    ELSE LET u == s.up
             credit == min(PPS_MAXCOUNT, u.ppscount + PPS_INCCOUNT)
             debit  == max(0, u.ppscount - PPS_DECCOUNT)
             s1 == IF u.fl_pps
                   THEN [s EXCEPT !.up.ppscount = credit,
                          !.up.fl_rawibt = IF credit = PPS_MAXCOUNT THEN FALSE ELSE @]
                   ELSE [s EXCEPT !.up.ppscount = debit,
                          !.up.fl_rawibt = IF debit = 0 THEN TRUE ELSE @]
         IN  IF s1.up.fl_rawibt THEN EvalSerial(s1) ELSE EvalStrict(s1)

EvalMode(s) ==
    CASE s.up.mode = MODE_OP_STRICT -> EvalStrict(s)
      [] s.up.mode = MODE_OP_AUTO   -> EvalAuto(s)
      [] OTHER                      -> EvalSerial(s)

Process(s, r) ==
    CASE r \in {"TPV_NOFIX", "TPV_FIX", "TPV_BADTIME"} -> ProcessTpv(s, r)
      [] r \in {"PPS", "PPS_BAD"}                      -> ProcessPps(s, r)
      [] r \in {"TOFF", "TOFF_BADCLOCK", "TOFF_BADREAL"} -> ProcessToff(s, r)
      [] r \in {"VERSION", "VERSION_BAD"}              -> ProcessVersion(s, r)
      [] OTHER                                         -> ProcessWatch(s, r)

(* gpsd_parse of one complete line *)
GpsdParse(s, r) ==
    IF r = "UNKNOWN" THEN s
    ELSE LET s1 == Process(s, r)
             s2 == IF HasPpsPeer THEN EvalPpsSecondary(s1) ELSE s1
         IN  EvalMode(StaleCheck(s2))

---------------------------------------------------------------------------
(* Actions *)

\* A line from GPSD is complete and parsed (gpsd_receive -> gpsd_parse).
Receive(r) ==
    /\ clk.quiet
    /\ Become(GpsdParse(S, r))
    /\ clk' = [clk EXCEPT !.quiet = FALSE]

\* A quantum passes inside the current second.
Elapse ==
    /\ clk.frac < Quanta - 1
    /\ Become([S EXCEPT !.up.ibt_local = Older(@), !.up.pps_local = Older(@),
                        !.hist.pulseAge = Older(@)])
    /\ clk' = [frac |-> clk.frac + 1, quiet |-> TRUE]

\* Mutant of TimerSecondary: the sample buffer is not flushed.
TimerSecondaryNoFlush(s) ==
    LET c == max(0, s.up.ppscount2 - 1)
    IN  IF c = 0
        THEN [s EXCEPT !.up.ppscount2 = c, !.peer.secFlagPps = FALSE]
        ELSE [s EXCEPT !.up.ppscount2 = c]

\* timer_secondary, run by the 1 Hz timer on the secondary peer
TimerSecondary(s) ==
    LET c == max(0, s.up.ppscount2 - 1)
    IN  IF c = 0
        THEN [s EXCEPT !.up.ppscount2 = c, !.peer.secQueued = FALSE,
                       !.peer.secFlagPps = FALSE]
        ELSE [s EXCEPT !.up.ppscount2 = c]

\* The second ends and the driver's 1 Hz timer runs (gpsd_timer).  The
\* primary's timer_primary only drives the socket; see GpsdConnection.
SecondTick ==
    /\ clk.frac = Quanta - 1
    /\ LET s0 == [S EXCEPT !.up.ibt_local = Older(@), !.up.pps_local = Older(@),
                           !.hist.pulseAge = Older(@),
                           !.hist.sinceSec2 = min(PPS2_MAXCOUNT, @ + 1)]
       IN  Become(IF HasPpsPeer THEN TimerSecondary(s0) ELSE s0)
    /\ clk' = [frac |-> 0, quiet |-> TRUE]

\* gpsd_poll on the primary peer (poll_primary): queued samples go to the
\* refclock core (refclock_receive), otherwise only an event is reported.
PollPrimary ==
    /\ Become([S EXCEPT !.peer.priQueued = FALSE])
    /\ UNCHANGED clk

\* gpsd_poll on the secondary peer (poll_secondary)
PollSecondary ==
    /\ HasPpsPeer
    /\ Become(IF peer.secQueued THEN [S EXCEPT !.peer.secQueued = FALSE]
              ELSE [S EXCEPT !.peer.secFlagPps = FALSE])
    /\ UNCHANGED clk

\* gpsd_control on the primary peer after its mode word was configured
ControlPrimary(m) ==
    /\ m # up.mode
    /\ Become([S EXCEPT !.up = EnterOpmode([LeaveOpmode(@, @.mode)
                                                 EXCEPT !.mode = m], m)])
    /\ UNCHANGED clk

\* gpsd_control on the secondary peer after fudge flag1 was configured
ControlSecondary(f1) ==
    /\ HasPpsPeer
    /\ Become([S EXCEPT !.peer.flag1 = f1, !.peer.secFlagPps = f1 /\ @])
    /\ UNCHANGED clk

\* gpsd_stop_socket: the connection to GPSD is closed
StopSocket ==
    /\ Become([S EXCEPT !.up.fl_ibt = FALSE, !.up.fl_pps = FALSE,
                        !.up.fl_watch = FALSE])
    /\ UNCHANGED clk

---------------------------------------------------------------------------
(* gpsd_start zero-allocates the unit and enters the configured mode; a   *)
(* mode word above MODE_OP_MAXVAL starts as IBT.                          *)
Init ==
    \E cfgMode \in CfgModes, f1, f2 \in BOOLEAN :
        LET m == IF cfgMode > MODE_OP_AUTO THEN MODE_OP_IBT ELSE cfgMode
        IN
        /\ up = EnterOpmode(
                 [mode |-> m, fl_nosync |-> FALSE, fl_ibt |-> FALSE,
                  fl_pps |-> FALSE, fl_pps2 |-> FALSE, fl_rawibt |-> FALSE,
                  fl_watch |-> FALSE, pf_nsec |-> FALSE, pf_toff |-> FALSE,
                  ppscount |-> 0, ppscount2 |-> 0,
                  ibt_local |-> AgeCap, pps_local |-> AgeCap], m)
        /\ peer = [priQueued |-> FALSE, secQueued |-> FALSE,
                   secFlagPps |-> FALSE, flag1 |-> f1, flag2 |-> f2]
        /\ hist = [pulseAge |-> AgeCap, ibtSplit |-> FALSE,
                   gpsNoFix |-> FALSE, ibtStale |-> FALSE, ppsStale |-> FALSE,
                   sinceSec2 |-> PPS2_MAXCOUNT, lastFed |-> NoSample]
        /\ clk = [frac |-> 0, quiet |-> TRUE]

Next ==
    \/ \E r \in Records : Receive(r)
    \/ Elapse
    \/ SecondTick
    \/ PollPrimary
    \/ PollSecondary
    \/ \E m \in CfgModes : ControlPrimary(m)
    \/ \E f1 \in BOOLEAN : ControlSecondary(f1)
    \/ StopSocket

Spec == Init /\ [][Next]_vars

---------------------------------------------------------------------------
(* Properties *)

TypeOK ==
    /\ up.mode \in ModeWords
    /\ up.ppscount \in 0..PPS_MAXCOUNT
    /\ up.ppscount2 \in 0..PPS2_MAXCOUNT
    /\ up.ibt_local \in 0..AgeCap /\ up.pps_local \in 0..AgeCap
    /\ \A f \in {"fl_nosync", "fl_ibt", "fl_pps", "fl_pps2", "fl_rawibt",
                 "fl_watch", "pf_nsec", "pf_toff"} : up[f] \in BOOLEAN
    /\ peer \in [priQueued: BOOLEAN, secQueued: BOOLEAN, secFlagPps: BOOLEAN,
                 flag1: BOOLEAN, flag2: BOOLEAN]
    /\ hist.sinceSec2 \in 0..PPS2_MAXCOUNT
    /\ hist.lastFed.src \in {"none", "IBT", "PAIR"}
    /\ clk.frac \in 0..Quanta - 1

\* process_tpv: "receiver has no fix; tell about and avoid stale data".
\* No serial stamp or pulse that is pending for a sample was received
\* while, or before, GPSD's most recent TPV said the receiver has no fix.
NoStaleDataAfterNoFix ==
    /\ up.fl_ibt => ~hist.ibtStale
    /\ up.fl_pps => ~hist.ppsStale

\* eval_pps_secondary / timer_secondary: the secondary unit is flagged as a
\* PPS source, or holds samples for the core, only while its newest PPS
\* sample is less than PPS2_MAXCOUNT timer seconds old; and it carries the
\* PPS flag only when fudge flag1 asks for it.
SecondaryPpsFresh ==
    /\ (peer.secFlagPps \/ peer.secQueued) => hist.sinceSec2 < PPS2_MAXCOUNT
    /\ peer.secFlagPps => peer.flag1

\* gpsd_parse: "If IBT is before PPS, then clearly the IBT is too old. If
\* PPS is before IBT by more than one second, then PPS is too old."  Every
\* PPS-augmented sample pairs a serial stamp with a pulse received less
\* than one second before it, and not after it.
PairedPulseSameSecond ==
    hist.lastFed.src = "PAIR" => hist.lastFed.gap \in 0..Quanta - 1

\* A serial-only sample takes its reference time and its receive time from
\* the same TPV or TOFF record.
SerialSampleConsistent ==
    hist.lastFed.src = "IBT" => ~hist.lastFed.split

=============================================================================
