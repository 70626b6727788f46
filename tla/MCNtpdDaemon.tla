---------------------------- MODULE MCNtpdDaemon ----------------------------
(* ntpd started with every command line of at most two options from a set *)
(* that takes each branch main acts on: -d and -D 0 (the debug level 0 or *)
(* 1, the lowered ceiling, so each debug handler's test can refuse), the  *)
(* foreground options, -w 1, -w 0.5 (truncated to 0) and -w -1, -U -1,    *)
(* -t 0 and -t 7, the exiting options, -u (twice: the duplicate exits),   *)
(* and -g for the options with no effect here.  Pipe, fork, pselect and  *)
(* the network are allowed to fail.  One second gives a wait with a tick  *)
(* and a sync before, at and after the timeout.                           *)
EXTENDS NtpdDaemon

MC_DEBUG_MAX == 1

Opt(o, n, d) == [o |-> o, n |-> n, d |-> d]
Flag(o) == Opt(o, 0, 1)

MC_Opts ==
    {Flag(o) : o \in {"d", "n", "q", "R", "h", "V", "a", "b", "r", "u",
                      "g", "?"}}
    \cup {Opt("D", 0, 1), Opt("w", 1, 1), Opt("w", 1, 2), Opt("w", -1, 1),
          Opt("U", -1, 1), Opt("t", 0, 1), Opt("t", 7, 1)}

MC_Argvs ==
    {<<>>} \cup {<<a>> : a \in MC_Opts}
    \cup {<<a, b>> \in MC_Opts \X MC_Opts : a # b \/ a = Flag("u")}
====
