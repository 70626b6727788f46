----------------------------- MODULE NtpdDaemon -----------------------------
(***************************************************************************)
(* ntpd's start as a daemon with -w/--wait-sync (src/ntpd/ntpd_nonroot.c). *)
(* main creates a pipe and forks; the parent closes its copy of the write *)
(* end and waits in wait_child_sync_if until the pipe becomes readable,   *)
(* which happens when every copy of the write end is closed: the child    *)
(* closes waitsync_fd_to_close when the clock is first synchronised (that *)
(* code is outside this file: it is the environment here), or the child   *)
(* exits, by finish_safe or otherwise.  The child is NtpdSignals: its     *)
(* main loop and signal handlers run concurrently with the parent.        *)
(*                                                                         *)
(* Time is real time in seconds since the parent entered its pselect;     *)
(* pselect's timeout is relative, so steps of the wall clock do not move  *)
(* it.  The two time() calls that give wait_rem are adjacent and taken as *)
(* one step (see the README on this abstraction).  The parent installs no *)
(* signal handlers (they are set up after the fork, in the child only),   *)
(* so pselect is not interrupted by EINTR and the loop's "continue" path  *)
(* is not reachable.                                                      *)
(*                                                                         *)
(* What main does is decided by the command line: parse_cmdline_opts      *)
(* sets debug, nofork, dumpopts and wait_sync, or exits; -w overrides     *)
(* nofork; without a fork ntpd runs in the foreground and the shell waits *)
(* for the daemon itself.  Before the loop the daemon passes over the     *)
(* options again (an invalid -t exits), exits after dumping them with -R, *)
(* and exits without a working network.                                   *)
(***************************************************************************)
EXTENDS Integers, Sequences, SequencesExt

CONSTANTS
    DEBUG_MAX,      \* passed to the child's NtpdSignals
    Argvs,          \* command lines: sequences of options
    NTP_MAXKEY,     \* the largest key id -t accepts
    MayFail         \* whether pipe, fork, pselect and the network may fail

VARIABLES
    pc, saw, owed, wake, debug, dh,     \* the child (NtpdSignals)
    ppc,        \* where the parent is
    wait_sync,  \* the -w argument as main leaves it
    code,       \* the parent's exit code ("none" while it runs)
    forked,     \* fork() returned: the child exists
    parentW,    \* the parent holds the pipe's write end
    childW,     \* the child holds the write end (waitsync_fd_to_close)
    t,          \* seconds the parent has waited in pselect
    rem,        \* wait_rem, the pselect timeout
    opts,       \* what main has still to act on of the parsed options
    boot        \* the daemon: "init" before mainloop, "loop" in it

Child == INSTANCE NtpdSignals

childVars == <<pc, saw, owed, wake, debug, dh>>
parentVars == <<ppc, wait_sync, code, forked, parentW, childW, t, rem>>
startVars == <<opts, boot>>
vars == <<childVars, parentVars, startVars>>

SYNCED == "0"            \* return 0, exit(0)
ETIMEDOUT == "ETIMEDOUT"
ERR == "errno"          \* exit_code = errno of a failed call
FAIL == "1"              \* exit(1)
ABORT == "abort"         \* REQUIRE(false): the process aborts

---------------------------------------------------------------------------
(* The command line.  An option is its letter and its argument, a number *)
(* n/d (d = 1 for the integer arguments of -D, -U and -t); options whose  *)
(* effect is outside these files have no branch of their own.             *)

\* (long)strtod(arg): the conversion to long truncates towards zero.
TruncToLong(n, d) == IF n >= 0 THEN n \div d ELSE -((-n) \div d)

NoOpts == [exit |-> "none", debug |-> 0, nofork |-> FALSE,
           dumpopts |-> FALSE, wait_sync |-> 0, user |-> FALSE]

\* One option of parse_cmdline_opts' switch; after an exit nothing else
\* is parsed.
ParseOpt(st, op) ==
    IF st.exit # "none" THEN st ELSE
    CASE op.o = "a" -> [st EXCEPT !.exit = ABORT]
      [] op.o \in {"b", "r", "?"} -> [st EXCEPT !.exit = FAIL]
      [] op.o = "d" -> [st EXCEPT !.debug = @ + 1, !.nofork = TRUE]
      [] op.o = "D" -> [st EXCEPT !.debug = op.n]
      [] op.o \in {"h", "V"} -> [st EXCEPT !.exit = SYNCED]
      [] op.o \in {"n", "q"} -> [st EXCEPT !.nofork = TRUE]
      [] op.o = "R" -> [st EXCEPT !.dumpopts = TRUE, !.nofork = TRUE]
      [] op.o = "u" -> IF st.user THEN [st EXCEPT !.exit = FAIL]
                                  ELSE [st EXCEPT !.user = TRUE]
      [] op.o = "U" -> IF op.n >= 0 THEN st ELSE [st EXCEPT !.exit = SYNCED]
      [] op.o = "w" -> [st EXCEPT !.wait_sync = TruncToLong(op.n, op.d)]
      [] OTHER -> st

parse_cmdline_opts(argv) == FoldLeft(ParseOpt, NoOpts, argv)

\* The second pass in main: tkey = (unsigned long)atol(arg); a negative
\* value converts to a huge one.
TkeyInvalid(n) == n <= 0 \/ n > NTP_MAXKEY

SecondPassExits(argv) ==
    \E i \in DOMAIN argv : argv[i].o = "t" /\ TkeyInvalid(argv[i].n)

\* What main leaves to act on once it has acted on all of it.
Consumed == [exit |-> "none", nofork |-> FALSE, dumpopts |-> FALSE,
             tbad |-> FALSE]

\* The pipe is readable (end of file or the child's close) when no process
\* holds its write end; a process that exited holds nothing.
Readable == ~parentW /\ (~childW \/ pc = "exit")

Exit(c) == ppc' = "done" /\ code' = c

---------------------------------------------------------------------------
(* The parent *)

\* An option made parse_cmdline_opts exit.
ParseExit ==
    /\ ppc = "main" /\ opts.exit # "none"
    /\ Exit(opts.exit)
    /\ UNCHANGED <<childVars, wait_sync, forked, parentW, childW, t, rem,
                   startVars>>

\* Mutant: nofork wins over -w.
DetachNoforkWins == ~opts.nofork

\* "-w requires a fork() even with debug > 0": main forks unless nofork
\* is set and no positive -w is.
Detach == ~opts.nofork \/ wait_sync > 0

\* main: if (wait_sync <= 0) wait_sync = 0; else { nofork = false;
\* pipe(pipe_fds) ... } then, if (!nofork), fork(); a failed pipe or fork
\* exits with errno.
Fork ==
    /\ ppc = "main" /\ opts.exit = "none" /\ Detach
    /\ ppc' = "wait"
    /\ forked' = TRUE
    /\ wait_sync' = IF wait_sync <= 0 THEN 0 ELSE wait_sync
    /\ parentW' = (wait_sync > 0)
    /\ childW' = (wait_sync > 0)
    /\ opts' = [opts EXCEPT !.nofork = FALSE]
    /\ UNCHANGED <<childVars, code, t, rem, boot>>

\* With nofork, main goes on as the daemon: the shell waits for it.
Foreground ==
    /\ ppc = "main" /\ opts.exit = "none" /\ ~Detach
    /\ ppc' = "fg"
    /\ wait_sync' = 0
    /\ opts' = [opts EXCEPT !.nofork = FALSE]
    /\ UNCHANGED <<childVars, code, forked, parentW, childW, t, rem, boot>>

ForkFails ==
    /\ ppc = "main" /\ opts.exit = "none" /\ Detach /\ MayFail
    /\ Exit(ERR)
    /\ UNCHANGED <<childVars, wait_sync, forked, parentW, childW, t, rem,
                   startVars>>

\* wait_child_sync_if: return at once without -w; otherwise close the
\* parent's write end, compute wait_end_time and wait_rem, and pselect.
WaitStart ==
    /\ ppc = "wait"
    /\ \/ /\ wait_sync = 0
          /\ Exit(SYNCED)
          /\ UNCHANGED <<parentW, t, rem>>
       \/ /\ wait_sync > 0
          /\ parentW' = FALSE
          /\ rem' = wait_sync
          /\ t' = 0
          /\ ppc' = "select"
          /\ UNCHANGED code
    /\ UNCHANGED <<childVars, wait_sync, forked, childW, startVars>>

\* Mutant: pselect sleeps past its timeout.
TickPastTimeout ==
    /\ ppc = "select" /\ ~Readable
    /\ t' = t + 1
    /\ UNCHANGED <<childVars, ppc, wait_sync, code, forked, parentW, childW, rem,
                   startVars>>

\* Real time passes while the parent sleeps in pselect.
Tick ==
    /\ ppc = "select" /\ t < rem /\ ~Readable
    /\ t' = t + 1
    /\ UNCHANGED <<childVars, ppc, wait_sync, code, forked, parentW, childW, rem,
                   startVars>>

\* Mutant: pselect is called without a timeout.
SelectNoTimeout ==
    /\ ppc = "select"
    /\ Readable /\ Exit(SYNCED)
    /\ UNCHANGED <<childVars, wait_sync, forked, parentW, childW, t, rem, startVars>>

\* pselect returns: readable (return 0) or the timeout (go on to confirm) ...
SelectReturns ==
    /\ ppc = "select"
    /\ \/ Readable /\ Exit(SYNCED)
       \/ ~Readable /\ t = rem /\ ppc' = "confirm" /\ UNCHANGED code
    /\ UNCHANGED <<childVars, wait_sync, forked, parentW, childW, t, rem, startVars>>

Confirm ==
    /\ ppc = "confirm"
    /\ \/ ~Readable /\ Exit(ETIMEDOUT)
       \/ Readable /\ Exit(SYNCED)
    /\ UNCHANGED <<childVars, wait_sync, forked, parentW, childW, t, rem, startVars>>

\* ... or fails (not with EINTR): the waiting pselect returns errno, the
\* confirming one's -1 is taken as readable and returns 0.
SelectFails ==
    /\ ppc \in {"select", "confirm"} /\ MayFail
    /\ Exit(IF ppc = "select" THEN ERR ELSE SYNCED)
    /\ UNCHANGED <<childVars, wait_sync, forked, parentW, childW, t, rem, startVars>>

\* The parent's steps; the failures of system calls are not among them:
\* nothing forces a call to fail.
Parent == ParseExit \/ Fork \/ Foreground \/ WaitStart \/ Tick \/ SelectReturns \/ Confirm

---------------------------------------------------------------------------
(* The daemon: the child, or ntpd itself in the foreground *)

DaemonUp == forked \/ ppc = "fg"
InLoop == DaemonUp /\ boot = "loop"

\* The daemon's handlers are installed before its start-up and SIGALRM's
\* interval timer is armed by mainloop (init_timer); the loop runs once
\* the start-up is done.
ChildStep ==
    /\ DaemonUp
    /\ IF boot = "loop" THEN Child!Next
                        ELSE Child!Handlers(Child!Flags \ {"ALRM"})
    /\ UNCHANGED <<parentVars, startVars>>

\* main's start-up between the handlers and mainloop: the second pass over
\* the options exits on an invalid -t, -R exits after the dump, and no
\* IPv4 and no IPv6 exits; otherwise mainloop starts.
DaemonStart ==
    /\ DaemonUp /\ boot = "init" /\ Child!Running /\ pc # "exit"
    /\ \/ /\ opts.tbad \/ opts.dumpopts \/ MayFail
          /\ pc' = "exit"
          /\ UNCHANGED boot
       \/ /\ ~opts.tbad /\ ~opts.dumpopts
          /\ boot' = "loop"
          /\ UNCHANGED pc
    /\ opts' = Consumed
    /\ UNCHANGED <<saw, owed, wake, debug, dh, parentVars>>

\* The clock is first synchronised and the child closes its write end.
ChildSync ==
    /\ InLoop /\ childW /\ pc # "exit"
    /\ childW' = FALSE
    /\ UNCHANGED <<childVars, ppc, wait_sync, code, forked, parentW, t, rem,
                   startVars>>

---------------------------------------------------------------------------
Init ==
    /\ \E argv \in Argvs :
         LET st == parse_cmdline_opts(argv) IN
         /\ Child!InitWith(st.debug)
         /\ wait_sync = st.wait_sync
         /\ opts = [exit |-> st.exit, nofork |-> st.nofork,
                    dumpopts |-> st.dumpopts, tbad |-> SecondPassExits(argv)]
    /\ ppc = "main"
    /\ code = "none"
    /\ forked = FALSE /\ parentW = FALSE /\ childW = FALSE
    /\ t = 0 /\ rem = 0
    /\ boot = "init"

\* Once the parent has exited and the daemon has exited or never existed,
\* nothing changes any more; in the foreground, once ntpd has exited.
Stopped ==
    /\ ppc \in {"done", "fg"} /\ (~DaemonUp \/ pc = "exit")
    /\ UNCHANGED vars

Next ==
    \/ Parent \/ ForkFails \/ SelectFails
    \/ ChildStep \/ DaemonStart \/ ChildSync \/ Stopped

\* The daemon's main thread: its start-up, then mainloop.
DaemonLoop == InLoop /\ Child!MainLoop /\ UNCHANGED <<parentVars, startVars>>

\* Both processes are scheduled and the clock runs; the daemon keeps the
\* fairness NtpdSignals justifies, and its main thread gets through the
\* start-up as through the loop, even under a stream of debug signals
\* (hence strong fairness; one condition serves both, as the start-up is
\* never enabled again once the loop has begun).
\* Nothing forces the clock to synchronise: ChildSync has no fairness.
Fairness ==
    /\ WF_vars(Parent)
    /\ SF_vars(DaemonStart \/ DaemonLoop)
    /\ WF_vars(InLoop /\ Child!Raise("ALRM") /\ UNCHANGED <<parentVars, startVars>>)
    /\ WF_vars(DaemonUp /\ Child!DebugLoad /\ UNCHANGED <<parentVars, startVars>>)
    /\ WF_vars(DaemonUp /\ Child!DebugStore /\ UNCHANGED <<parentVars, startVars>>)

Spec == Init /\ [][Next]_vars
FairSpec == Spec /\ Fairness

---------------------------------------------------------------------------
(* Properties *)

TypeOK ==
    /\ Child!TypeOK
    /\ ppc \in {"main", "wait", "select", "confirm", "done", "fg"}
    /\ wait_sync \in Int
    /\ code \in {"none", SYNCED, ETIMEDOUT, ERR, FAIL, ABORT}
    /\ forked \in BOOLEAN /\ parentW \in BOOLEAN /\ childW \in BOOLEAN
    /\ t \in 0..rem /\ rem \in Nat
    /\ opts \in [exit: {"none", SYNCED, FAIL, ABORT}, nofork: BOOLEAN,
                 dumpopts: BOOLEAN, tbad: BOOLEAN]
    /\ boot \in {"init", "loop"}

\* The daemon's properties hold in the composition, in the child and in
\* the foreground, signals that arrive during the start-up included: no
\* signal is lost, and every SIGHUP, DNS answer and termination signal is
\* acted on.
NoLostSignal == Child!NoLostSignal
SignalsServed == Child!SignalsServed

ParentReturns ==
    (wait_sync > 0 \/ ~opts.nofork \/ opts.exit # "none") => <>(ppc = "done")

====
