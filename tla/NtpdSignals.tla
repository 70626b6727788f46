----------------------------- MODULE NtpdSignals -----------------------------
(***************************************************************************)
(* Signals against the main loop of ntpd (src/ntpd/ntpd_nonroot.c).  The   *)
(* asynchronous handlers catchQuit, catchHUP, catchDNS and the SIGALRM     *)
(* handler only set a flag of sig_flags; mainloop tests each flag, clears  *)
(* it and does the work (finish_safe, timer, dns_check, the file checks),  *)
(* and blocks in io_handler when no alarm is pending.  A handler can run   *)
(* between any two steps of the loop.                                      *)
(*                                                                         *)
(* moredebug and lessdebug change the global debug level from the         *)
(* handlers of two different signals, so one can interrupt the other      *)
(* between its test, its load and its store.  A handler is not             *)
(* interrupted by its own signal (it is blocked while the handler runs).  *)
(***************************************************************************)
EXTENDS Integers

CONSTANT DEBUG_MAX   \* the "SPECIAL DEBUG" ceiling, 255 in the code

Work == {"ALRM", "DNS", "HUP"}     \* flags whose work the loop does
Flags == Work \cup {"Quit"}

\* positions of mainloop: the test of a flag, and the step that does the
\* work after the flag is cleared
Tests == {"quit", "alrmTest", "alrm", "dnsTest", "hupTest"}
Doing == [ALRM |-> "timer", DNS |-> "dns", HUP |-> "hup"]
Busy == [ALRM |-> "inTimer", DNS |-> "inDns", HUP |-> "inHup"]
PCs == Tests \cup {Doing[s] : s \in Work} \cup {Busy[s] : s \in Work}
              \cup {"io", "block", "exit"}

VARIABLES
    pc,     \* where mainloop is
    saw,    \* sig_flags
    owed,   \* owed[s]: signal s was raised after its work last started
    wake,   \* a signal arrived while io_handler was blocked
    debug,  \* the debug level
    dh      \* the debug handler that is interrupted (d = 0: none)

vars == <<pc, saw, owed, wake, debug, dh>>

NoHandler == [d |-> 0, at |-> "idle", v |-> 0]
Running == dh.d = 0     \* no debug handler is in the middle of its steps

---------------------------------------------------------------------------
(* The flag handlers: a single store. *)
Raise(s) ==
    /\ pc # "exit" /\ Running
    /\ saw' = [saw EXCEPT ![s] = TRUE]
    /\ owed' = IF s \in Work THEN [owed EXCEPT ![s] = TRUE] ELSE owed
    /\ wake' = (wake \/ pc = "block")
    /\ UNCHANGED <<pc, debug, dh>>

(* The steps of mainloop *)

\* Mutant: the quit flag is never looked at.
TestQuitSkip ==
    /\ pc = "quit"
    /\ pc' = "alrmTest"
    /\ UNCHANGED <<saw, owed, wake, debug, dh>>

\* if (sig_flags.sawQuit) finish_safe(signo);
TestQuit ==
    /\ pc = "quit"
    /\ pc' = IF saw.Quit THEN "exit" ELSE "alrmTest"
    /\ UNCHANGED <<saw, owed, wake, debug, dh>>

\* if (!sig_flags.sawALRM) io_handler();
TestAlrm ==
    /\ pc = "alrmTest"
    /\ pc' = IF saw.ALRM THEN "alrm" ELSE "io"
    /\ UNCHANGED <<saw, owed, wake, debug, dh>>

\* io_handler goes to sleep in its select; a signal that came after the
\* test above and before this point does not interrupt the sleep.
IoEnter ==
    /\ pc = "io"
    /\ pc' = "block"
    /\ wake' = FALSE
    /\ UNCHANGED <<saw, owed, debug, dh>>

\* io_handler returns when a signal interrupts its select ...
IoWake ==
    /\ pc = "block" /\ wake
    /\ pc' = "alrm"
    /\ UNCHANGED <<saw, owed, wake, debug, dh>>

\* ... or when a packet or a refclock line arrives.
IoInput ==
    /\ pc = "block" /\ Running
    /\ pc' = "alrm"
    /\ UNCHANGED <<saw, owed, wake, debug, dh>>

\* if (sig_flags.sawX) { sig_flags.sawX = false; <work> }: the test and
\* the clear are taken as one step, the work is a step of its own.  A
\* signal between the test and the clear is served by the work that
\* follows, as one at the clear is, so nothing depends on the split.
\* (Mutant first: the flag is cleared and the work is not called.)
TestFlagSkipsWork(s, here, next) ==
    /\ pc = here
    /\ pc' = next
    /\ saw' = [saw EXCEPT ![s] = FALSE]
    /\ UNCHANGED <<owed, wake, debug, dh>>

TestFlag(s, here, next) ==
    /\ pc = here
    /\ pc' = IF saw[s] THEN Doing[s] ELSE next
    /\ saw' = IF saw[s] THEN [saw EXCEPT ![s] = FALSE] ELSE saw
    /\ UNCHANGED <<owed, wake, debug, dh>>

\* The work of flag s (timer(), dns_check(), the file checks) starts: it
\* serves every raise of s so far ...
WorkStart(s) ==
    /\ pc = Doing[s]
    /\ owed' = [owed EXCEPT ![s] = FALSE]
    /\ pc' = Busy[s]
    /\ UNCHANGED <<saw, wake, debug, dh>>

\* Mutant: the flag is cleared after the work instead of before it.
WorkEndClears(s, next) ==
    /\ pc = Busy[s]
    /\ pc' = next
    /\ saw' = [saw EXCEPT ![s] = FALSE]
    /\ UNCHANGED <<owed, wake, debug, dh>>

\* ... and ends; a signal may have come while it ran.
WorkEnd(s, next) ==
    /\ pc = Busy[s]
    /\ pc' = next
    /\ UNCHANGED <<saw, owed, wake, debug, dh>>

DoWork(s, next) == WorkStart(s) \/ WorkEnd(s, next)

MainLoop ==
    /\ Running
    /\ \/ TestQuit \/ TestAlrm \/ IoEnter \/ IoWake
       \/ TestFlag("ALRM", "alrm", "dnsTest") \/ DoWork("ALRM", "dnsTest")
       \/ TestFlag("DNS", "dnsTest", "hupTest") \/ DoWork("DNS", "hupTest")
       \/ TestFlag("HUP", "hupTest", "quit") \/ DoWork("HUP", "quit")

---------------------------------------------------------------------------
(* moredebug / lessdebug: if (debug < 255) debug++; and                   *)
(* if (debug > 0) debug--;  The test, the load and the store of debug are *)
(* separate steps.  d is +1 for moredebug, -1 for lessdebug.              *)
\* Mutant: moredebug without its ceiling test.
AllowedNoCeiling(d, v) == IF d = 1 THEN TRUE ELSE v > 0

Allowed(d, v) == IF d = 1 THEN v < DEBUG_MAX ELSE v > 0

\* The other handler runs to the end inside an interrupted one.
DebugAtomic(d) == IF Allowed(d, debug) THEN debug + d ELSE debug

DebugBegin(d) ==
    /\ pc # "exit" /\ Running
    /\ \/ /\ Allowed(d, debug)
          /\ dh' = [d |-> d, at |-> "tested", v |-> 0]
       \/ /\ ~Allowed(d, debug)
          /\ UNCHANGED dh
    /\ wake' = (wake \/ pc = "block")   \* it interrupts io_handler's select too
    /\ UNCHANGED <<pc, saw, owed, debug>>

DebugLoad ==
    /\ dh.at = "tested"
    /\ dh' = [dh EXCEPT !.at = "loaded", !.v = debug]
    /\ UNCHANGED <<pc, saw, owed, wake, debug>>

DebugStore ==
    /\ dh.at = "loaded"
    /\ debug' = dh.v + dh.d
    /\ dh' = NoHandler
    /\ UNCHANGED <<pc, saw, owed, wake>>

DebugNested ==
    /\ ~Running
    /\ debug' = DebugAtomic(-dh.d)
    /\ UNCHANGED <<pc, saw, owed, wake, dh>>

---------------------------------------------------------------------------
\* The loop about to start, with the debug level main left (-d, -D).
InitWith(level) ==
    /\ pc = "quit"
    /\ saw = [s \in Flags |-> FALSE]
    /\ owed = [s \in Work |-> FALSE]
    /\ wake = FALSE
    /\ debug = level
    /\ dh = NoHandler

Init == InitWith(0)

\* ntpd exits in finish_safe
Exited == pc = "exit" /\ UNCHANGED vars

\* The handlers' steps, for the signals in sigs that can arrive.
Handlers(sigs) ==
    \/ \E s \in sigs : Raise(s)
    \/ \E d \in {1, -1} : DebugBegin(d)
    \/ DebugLoad \/ DebugStore \/ DebugNested

Next == MainLoop \/ IoInput \/ Handlers(Flags) \/ Exited

\* The process is scheduled, and it gets back to the loop whenever no
\* handler is in the middle of its steps, even under a stream of debug
\* signals (hence strong fairness); the interval timer raises SIGALRM
\* every second; a handler that started runs to its end.
Fairness ==
    /\ SF_vars(MainLoop)
    /\ WF_vars(Raise("ALRM"))
    /\ WF_vars(DebugLoad) /\ WF_vars(DebugStore)

Spec == Init /\ [][Next]_vars
FairSpec == Spec /\ Fairness

---------------------------------------------------------------------------
(* Properties *)

\* The state has its types.  The debug level is any int: -D takes atoi
\* of its argument.
TypeOK ==
    /\ pc \in PCs
    /\ saw \in [Flags -> BOOLEAN] /\ owed \in [Work -> BOOLEAN]
    /\ wake \in BOOLEAN
    /\ debug \in Int
    /\ dh \in {NoHandler} \cup [d: {1, -1}, at: {"tested", "loaded"}, v: Int]

\* mainloop clears a flag before it does the work: a signal that arrives
\* at any point is either still flagged or will be served by work that
\* has not started yet.  No signal is lost.
NoLostSignal ==
    \A s \in Work : owed[s] => saw[s] \/ pc = Doing[s]

\* Every SIGHUP and every DNS answer is eventually served, although
\* io_handler may be entered with those flags set ("FIXME: Check other
\* flags"): the next signal gets the loop going again.  And a SIGTERM,
\* SIGINT or SIGQUIT makes ntpd exit.
SignalsServed ==
    /\ \A s \in {"DNS", "HUP"} : owed[s] ~> (~owed[s] \/ pc = "exit")
    /\ saw.Quit ~> pc = "exit"

=============================================================================
