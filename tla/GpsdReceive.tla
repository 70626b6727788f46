----------------------------- MODULE GpsdReceive -----------------------------
(***************************************************************************)
(* Line assembly in gpsd_receive (src/ntpd/refclock_gpsd.c).  GPSD's       *)
(* stream arrives in reads of any size; gpsd_receive copies it into        *)
(* up->buffer, dropping whitespace at the start of a line and truncating   *)
(* a line that does not fit, and at each line feed trims trailing          *)
(* whitespace and hands the line to gpsd_parse.  An unfinished line stays  *)
(* in the buffer (up->buflen) for the next read.                           *)
(*                                                                         *)
(* Characters are abstracted to three classes: Text (above ' '), Blank     *)
(* (' ' and the control characters, which the code treats alike) and the  *)
(* line feed NL.  buf is the buffer's content up to pdst; a character     *)
(* stored at an index of Size or more is outside up->buffer.               *)
(***************************************************************************)
EXTENDS Integers, SequencesExt

CONSTANTS
    Size,       \* sizeof(up->buffer), MAX_PDU_LEN
    MaxChunk,   \* largest read the model delivers
    MaxReads    \* number of reads in a behaviour

Text == "x"
Blank == " "
NL == "nl"
Chars == {Text, Blank, NL}
IsBlank(c) == c = Blank

VARIABLES
    buf,    \* up->buffer[0 .. up->buflen-1]
    raw,    \* every character of the current line as GPSD sent it
    reads,  \* reads so far
    hist    \* [over: the current line was stored past the buffer,
            \*  overrun: some character was stored past the buffer,
            \*  wrong: a line stored within the buffer reached gpsd_parse
            \*         other than the reference says]

vars == <<buf, raw, reads, hist>>

---------------------------------------------------------------------------
(* The reference: the line gpsd_parse should see for the characters raw  *)
(* of a line: without its leading blanks, cut to Size-1 characters, and  *)
(* without its trailing blanks.                                          *)
RefLine(r) ==
    LET first == SelectInSeq(r, LAMBDA c : ~IsBlank(c))
        body  == IF first = 0 THEN <<>> ELSE SubSeq(r, first, Len(r))
        cut   == SubSeq(body, 1, IF Len(body) < Size - 1 THEN Len(body) ELSE Size - 1)
        last  == SelectLastInSeq(cut, LAMBDA c : ~IsBlank(c))
    IN  SubSeq(cut, 1, last)

---------------------------------------------------------------------------
(* The code *)

(* Mutant: "if" for "while": only one trailing blank is trimmed. *)
TrimTrailingOnce(s) == IF s # <<>> /\ IsBlank(Last(s)) THEN Front(s) ELSE s

(* while (pdst != up->buffer && pdst[-1] <= ' ') --pdst; *)
RECURSIVE TrimTrailing(_)
TrimTrailing(s) == IF s # <<>> /\ IsBlank(Last(s)) THEN TrimTrailing(Front(s)) ELSE s

(* Mutant: leading whitespace is not skipped. *)
CharKeepsLeading(st, ch, lim) ==
    IF ch = NL
    THEN [st EXCEPT !.buf = <<>>, !.raw = <<>>, !.over = FALSE,
                    !.wrong = @ \/ (~st.over /\ TrimTrailing(st.buf) # RefLine(st.raw))]
    ELSE LET b   == IF Len(st.buf) < lim THEN Append(st.buf, ch) ELSE st.buf
             out == Len(b) > Size - 1
         IN  [st EXCEPT !.buf = b, !.raw = Append(@, ch),
                        !.over = @ \/ out, !.overrun = @ \/ out]

(* One character of the copy loop.  lim is the length at which pdst      *)
(* reaches edst; the line feed hands the trimmed line to gpsd_parse and  *)
(* resets pdst, but not edst.                                            *)
Char(st, ch, lim) ==
    IF ch = NL
    THEN [st EXCEPT !.buf = <<>>, !.raw = <<>>, !.over = FALSE,
                    !.wrong = @ \/ (~st.over /\ TrimTrailing(st.buf) # RefLine(st.raw))]
    ELSE LET keep == Len(st.buf) < lim /\ (~IsBlank(ch) \/ st.buf # <<>>)
             b    == IF keep THEN Append(st.buf, ch) ELSE st.buf
             out  == Len(b) > Size - 1      \* no room left for the NUL
         IN  [st EXCEPT !.buf = b, !.raw = Append(@, ch),
                        !.over = @ \/ out, !.overrun = @ \/ out]

(* The copy loop over the characters of one read, from index i on. *)
RECURSIVE Scan(_, _, _, _)
Scan(st, chunk, i, lim) ==
    IF i > Len(chunk) THEN st
    ELSE Scan(Char(st, chunk[i], lim), chunk, i + 1, lim)

(* edst = pdst + sizeof(up->buffer) - 1, with pdst = up->buffer +        *)
(* up->buflen: the limit counts from the end of the kept partial line.    *)
Limit(b) == Len(b) + Size - 1

\* gpsd_receive: one read of 1..MaxChunk characters from GPSD's socket
Receive ==
    /\ reads < MaxReads
    /\ \E chunk \in UNION {[1..n -> Chars] : n \in 1..MaxChunk} :
        LET st == Scan([buf |-> buf, raw |-> raw, over |-> hist.over,
                        overrun |-> hist.overrun, wrong |-> hist.wrong],
                       chunk, 1, Limit(buf))
        IN  /\ buf' = st.buf
            /\ raw' = st.raw
            /\ hist' = [over |-> st.over, overrun |-> st.overrun, wrong |-> st.wrong]
    /\ reads' = reads + 1

\* gpsd_start: the unit is zero-allocated, up->buflen = 0
Init ==
    /\ buf = <<>> /\ raw = <<>> /\ reads = 0
    /\ hist = [over |-> FALSE, overrun |-> FALSE, wrong |-> FALSE]

Next == Receive

Spec == Init /\ [][Next]_vars

---------------------------------------------------------------------------
(* Properties *)

\* The state has its types, and the kept partial line never starts with
\* whitespace (gpsd_receive skips it).
TypeOK ==
    /\ buf \in Seq({Text, Blank}) /\ (buf # <<>> => ~IsBlank(buf[1]))
    /\ raw \in Seq({Text, Blank})
    /\ reads \in 0..MaxReads
    /\ hist \in [over: BOOLEAN, overrun: BOOLEAN, wrong: BOOLEAN]

\* gpsd_receive reassembles lines split over reads: every line it stores
\* within up->buffer reaches gpsd_parse without its leading and trailing
\* whitespace and cut to sizeof(up->buffer)-1 characters.
LinesAsReference == ~hist.wrong

\* gpsd_receive: "we truncate the message if it does not fit the buffer".
\* No character, and no terminating NUL, is stored past up->buffer.
NoBufferOverrun == ~hist.overrun

=============================================================================
