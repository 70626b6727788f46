------------------------------ MODULE GpsdJson ------------------------------
(***************************************************************************)
(* The JSON field access under gpsd_parse (src/ntpd/refclock_gpsd.c):      *)
(* strtojint, the overflow-clamping number conversion behind              *)
(* json_object_lookup_int, and json_token_skip / json_object_lookup, which *)
(* walk the flat token array jsmn produces for a record.  GpsdEval takes a *)
(* record to be one of a few kinds (which fields were found and            *)
(* converted); this module checks, over bounded inputs, that the code      *)
(* these kinds rest on computes what its reference definition says.        *)
(* The float lookup of "ept" and the serial precision derived from it,    *)
(* myasprintf's growing buffer for the device name and log_data's         *)
(* escaping are checked the same way.                                     *)
(*                                                                         *)
(* Characters are single-character strings.  json_int is JINT_BITS wide:  *)
(* the conversion and its limits are written for any width, and the       *)
(* model checks a small one so that the limits are reached by short texts. *)
(* A jsmn token is [type, size, text]; tid is a 0-based index into the     *)
(* token sequence, as in the code.                                         *)
(***************************************************************************)
EXTENDS Integers, SequencesExt

CONSTANTS
    JINT_BITS,  \* width of json_int and json_uint (long int)
    TextChars,  \* characters the number texts are made of
    MaxText,    \* longest number text checked
    Keys,       \* texts of the string tokens (object keys and strings)
    Prims,      \* texts of the primitive tokens
    MaxTok,     \* largest token array of a record checked
    NSEC_DIGITS,\* decimal digits of tv_nsec (9; the first weight is 10^8)
    MAX_PDU_LEN,\* size of log_data's s_lbuf (8192)
    LogBytes,   \* bytes of a buffer handed to log_data
    MaxRaw,     \* longest buffer handed to log_data
    MaxFmt,     \* longest device name myasprintf is checked on
    EptExps     \* binary exponents of the ept values checked

ASSUME JINT_BITS >= 5 /\ MaxText \in Nat /\ MaxTok \in Nat \ {0}
       /\ NSEC_DIGITS \in Nat \ {0} /\ MAX_PDU_LEN > 10 /\ MaxRaw \in Nat /\ MaxFmt \in 0..255
       /\ EptExps \subseteq -60..60
       /\ {"\\", "NUL", "SOH"} \subseteq LogBytes

JSON_INT_MAX == 2^(JINT_BITS - 1) - 1
JSON_INT_MIN == -(2^(JINT_BITS - 1))

DigitVal == "0" :> 0 @@ "1" :> 1 @@ "2" :> 2 @@ "3" :> 3 @@ "4" :> 4
         @@ "5" :> 5 @@ "6" :> 6 @@ "7" :> 7 @@ "8" :> 8 @@ "9" :> 9
IsDigit(c) == c \in DOMAIN DigitVal

---------------------------------------------------------------------------
(* strtojint *)

RECURSIVE Accumulate(_, _, _, _, _)

(* Mutant: the pre-multiplication test is >= instead of >. *)
AccumulateEarly(s, i, acc, lo, hi) ==
    IF i <= Len(s) /\ IsDigit(s[i])
    THEN LET a == (acc.accu * 10 + DigitVal[s[i]]) % 2^JINT_BITS
             o == acc.ovf \/ acc.accu >= lo
         IN  Accumulate(s, i + 1, [accu |-> a, ovf |-> o \/ a > hi, pos |-> i + 1],
                        lo, hi)
    ELSE acc

(* while (isdigit(cp[0])) { flags |= (accu > limit_lo);                   *)
(*     accu = accu * 10 + digit; flags |= (accu > limit_hi); }            *)
(* accu is unsigned and wraps at 2^JINT_BITS; pos is the index of cp.     *)
Accumulate(s, i, acc, lo, hi) ==
    IF i <= Len(s) /\ IsDigit(s[i])
    THEN LET a == (acc.accu * 10 + DigitVal[s[i]]) % 2^JINT_BITS
             o == acc.ovf \/ acc.accu > lo
         IN  Accumulate(s, i + 1, [accu |-> a, ovf |-> o \/ a > hi, pos |-> i + 1],
                        lo, hi)
    ELSE acc

(* strtojint(cp, &ep): val is the result, end the number of characters    *)
(* *ep is past cp (0: ep = cp, nothing converted), errno "0" when the     *)
(* call leaves errno alone.                                               *)
strtojint(s) ==
    LET neg  == s # <<>> /\ s[1] = "-"
        sgn  == IF s # <<>> /\ s[1] \in {"-", "+"} THEN 1 ELSE 0
        hi   == IF neg THEN JSON_INT_MAX + 1 ELSE JSON_INT_MAX  \* limit_hi
        r    == Accumulate(s, sgn + 1, [accu |-> 0, ovf |-> FALSE, pos |-> sgn + 1],
                           hi \div 10, hi)
        none == r.pos = sgn + 1                                \* hold == cp
        accu == IF r.ovf THEN hi ELSE r.accu
    IN  [val   |-> IF neg /\ accu # 0 THEN -(accu - 1) - 1 ELSE accu,
         end   |-> IF none THEN 0 ELSE r.pos - 1,
         errno |-> IF r.ovf THEN "ERANGE" ELSE IF none THEN "EINVAL" ELSE "0"]

(* The reference: strtol with base 10 and no leading whitespace, on a    *)
(* long of JINT_BITS bits.  The digits after an optional sign are read   *)
(* as an unbounded integer and the result is clamped to the range.       *)
RefJint(s) ==
    LET neg  == s # <<>> /\ s[1] = "-"
        sgn  == IF s # <<>> /\ s[1] \in {"-", "+"} THEN 1 ELSE 0
        rest == SubSeq(s, sgn + 1, Len(s))
        stop == SelectInSeq(rest, LAMBDA c : ~IsDigit(c))
        n    == IF stop = 0 THEN Len(rest) ELSE stop - 1
        v    == FoldLeft(LAMBDA acc, c : 10 * acc + DigitVal[c], 0, SubSeq(rest, 1, n))
        x    == IF neg THEN -v ELSE v
        out  == x > JSON_INT_MAX \/ x < JSON_INT_MIN
    IN  [val   |-> IF x > JSON_INT_MAX THEN JSON_INT_MAX
                   ELSE IF x < JSON_INT_MIN THEN JSON_INT_MIN ELSE x,
         end   |-> IF n = 0 THEN 0 ELSE sgn + n,
         errno |-> IF n = 0 THEN "EINVAL" ELSE IF out THEN "ERANGE" ELSE "0"]

---------------------------------------------------------------------------
(* The token array.  jsmn lists a value before its items, depth first; an *)
(* array's size is its number of items, an object's its number of keys,   *)
(* and a key string has size 1 (its value).                               *)

INVALID_TOKEN == -1
ANY == "any"            \* the "what < 0" of json_object_lookup

RECURSIVE json_token_skip(_, _), SkipItems(_, _, _)

(* Mutant: an object's size is not doubled, so only its keys are skipped. *)
JsonTokenSkipNoDouble(tok, tid) ==
    IF tid >= 0 /\ tid < Len(tok)
    THEN LET t    == tok[tid + 1]
             next == IF t.type \in {"OBJECT", "ARRAY"}
                     THEN SkipItems(tok, tid + 1, t.size) ELSE tid + 1
         IN  IF next > Len(tok) THEN Len(tok) ELSE next
    ELSE tid

(* json_token_skip: the index after the value at tid.  For an object the *)
(* size is doubled and the keys and values are skipped like array items. *)
json_token_skip(tok, tid) ==
    IF tid >= 0 /\ tid < Len(tok)
    THEN LET t    == tok[tid + 1]
             len  == IF t.type = "OBJECT" THEN 2 * t.size ELSE t.size
             next == IF t.type \in {"OBJECT", "ARRAY"}
                     THEN SkipItems(tok, tid + 1, len) ELSE tid + 1
         IN  IF next > Len(tok) THEN Len(tok) ELSE next   \* "Paranoia rulez"
    ELSE tid

(* for (++tid; len; --len) tid = json_token_skip(ctx, tid); *)
SkipItems(tok, tid, len) ==
    IF len = 0 THEN tid ELSE SkipItems(tok, json_token_skip(tok, tid), len - 1)

(* The loop of json_object_lookup over the key/value pairs left. *)
RECURSIVE LookupPairs(_, _, _, _, _)
LookupPairs(tok, tid, len, key, what) ==
    IF len = 0 \/ tid + 1 >= Len(tok) THEN INVALID_TOKEN
    ELSE LET k == tok[tid + 1]
         IN  IF k.type # "STRING"                          \* "Blooper!"
             THEN LookupPairs(tok, json_token_skip(tok, json_token_skip(tok, tid)),
                              len - 1, key, what)
             ELSE IF k.text # key
             THEN LookupPairs(tok, json_token_skip(tok, tid + 1), len - 1, key, what)
             ELSE IF what = ANY \/ what = tok[tid + 2].type THEN tid + 1
             ELSE INVALID_TOKEN

(* json_object_lookup(ctx, tid, key, what) *)
json_object_lookup(tok, tid, key, what) ==
    IF tid < 0 \/ tid >= Len(tok) \/ tok[tid + 1].type # "OBJECT"
    THEN INVALID_TOKEN
    ELSE LookupPairs(tok, tid + 1, tok[tid + 1].size, key, what)

(* The typed lookups on the root object.  A primitive token's text is a  *)
(* sequence of characters (the token NUL-terminated by json_parse_record); *)
(* errno is threaded through, as the code reads and writes the global.    *)

json_object_lookup_primitive(tok, key) ==
    LET tid == json_object_lookup(tok, 0, key, "PRIMITIVE")
    IN  IF tid = INVALID_TOKEN THEN <<>> ELSE tok[tid + 1].text  \* <<>>: NULL

json_object_lookup_bool(tok, key) ==
    LET cp == json_object_lookup_primitive(tok, key)
    IN  CASE cp # <<>> /\ cp[1] = "t" -> 1
          [] cp # <<>> /\ cp[1] = "f" -> 0
          [] OTHER                    -> -1

\* The text of a string value; <<>> stands for NULL, def for the default.
json_object_lookup_string(tok, key) ==
    LET tid == json_object_lookup(tok, 0, key, "STRING")
    IN  IF tid = INVALID_TOKEN THEN <<>> ELSE tok[tid + 1].text

json_object_lookup_string_default(tok, key, def) ==
    LET tid == json_object_lookup(tok, 0, key, "STRING")
    IN  IF tid = INVALID_TOKEN THEN def ELSE tok[tid + 1].text

\* Sets errno only where strtojint or the missing key does.
SetErrno(errno, e) == IF e = "0" THEN errno ELSE e

(* json_object_lookup_int: the number when the whole text converts, else *)
(* 0; errno as strtojint left it, or EINVAL when the key is missing.     *)
json_object_lookup_int(tok, key, errno) ==
    LET cp == json_object_lookup_primitive(tok, key)
        r  == strtojint(cp)
    IN  IF cp = <<>> THEN [val |-> 0, errno |-> "EINVAL"]
        ELSE IF r.end > 0 /\ r.end = Len(cp)
        THEN [val |-> r.val, errno |-> SetErrno(errno, r.errno)]
        ELSE [val |-> 0, errno |-> SetErrno(errno, r.errno)]

json_object_lookup_int_default(tok, key, def) ==
    LET cp == json_object_lookup_primitive(tok, key)
        r  == strtojint(cp)
    IN  IF cp # <<>> /\ r.end > 0 /\ r.end = Len(cp) THEN r.val ELSE def

(* strtod over the characters of a JSON number (no exponent, "inf", "nan" *)
(* or hex form among them): the subject sequence is an optional sign and  *)
(* a run of digits with at most one decimal point and at least one digit; *)
(* StrtodEnd is the number of characters it takes, 0 when ep = cp.        *)
RECURSIVE DigitRun(_, _)
DigitRun(s, i) == IF i <= Len(s) /\ IsDigit(s[i]) THEN 1 + DigitRun(s, i + 1) ELSE 0

StrtodEnd(s) ==
    LET sg == IF s # <<>> /\ s[1] \in {"+", "-"} THEN 1 ELSE 0
        d1 == DigitRun(s, sg + 1)
        pt == sg + d1 + 1 <= Len(s) /\ s[sg + d1 + 1] = "."
        d2 == IF pt THEN DigitRun(s, sg + d1 + 2) ELSE 0
    IN  IF d1 + d2 = 0 THEN 0 ELSE sg + d1 + (IF pt THEN 1 + d2 ELSE 0)

(* Mutant: a number followed by other text is taken. *)
FloatTakesPrefix(cp) == cp # <<>> /\ StrtodEnd(cp) > 0

(* if (cp != ep && '\0' == *ep) return ret; on a primitive's text cp. *)
FloatTaken(cp) == cp # <<>> /\ StrtodEnd(cp) > 0 /\ StrtodEnd(cp) = Len(cp)

(* json_object_lookup_float_default: the double is kept as the text it *)
(* was converted from.                                                 *)
json_object_lookup_float_default(tok, key, def) ==
    LET cp == json_object_lookup_primitive(tok, key)
    IN  IF FloatTaken(cp) THEN cp ELSE def

(* Mutant: errno is cleared again before the fraction is looked up. *)
GetBinaryTimeResetErrno(tok, time_name, frac_name) ==
    LET sec  == json_object_lookup_int(tok, time_name, "0")
        nsec == json_object_lookup_int(tok, frac_name, "0")
    IN  IF nsec.errno = "0" THEN [ok |-> TRUE, sec |-> sec.val, nsec |-> nsec.val]
        ELSE [ok |-> FALSE]

(* get_binary_time: errno cleared, both fields looked up, success only if *)
(* neither lookup set errno.  The scaling by fscale and the conversion to *)
(* l_fp are left out: the properties are about which records succeed.    *)
get_binary_time(tok, time_name, frac_name) ==
    LET sec  == json_object_lookup_int(tok, time_name, "0")
        nsec == json_object_lookup_int(tok, frac_name, sec.errno)
    IN  IF nsec.errno = "0" THEN [ok |-> TRUE, sec |-> sec.val, nsec |-> nsec.val]
        ELSE [ok |-> FALSE]

---------------------------------------------------------------------------
(* convert_ascii_time after strptime: s is what follows the seconds of   *)
(* the ISO 8601 time.  strptime and the calendar arithmetic are library  *)
(* code and left out: the model is the fraction and the "Z" check.       *)

RECURSIVE FracDigits(_, _, _, _)

(* Mutant: the first digit weighs 10^9 nanoseconds. *)
ConvertFracOffByOne(s) ==
    LET r == IF s # <<>> /\ s[1] = "."
             THEN FracDigits(s, 2, 10^NSEC_DIGITS, 0) ELSE [ep |-> 1, ns |-> 0]
    IN  [ok |-> r.ep = Len(s) /\ s[r.ep] = "Z", nsec |-> r.ns]

\* while isdigit(++ep): tv_nsec += digit * dw; dw /= 10
FracDigits(s, i, dw, ns) ==
    IF i <= Len(s) /\ IsDigit(s[i])
    THEN FracDigits(s, i + 1, dw \div 10, ns + DigitVal[s[i]] * dw)
    ELSE [ep |-> i, ns |-> ns]

(* The fraction is read if a '.' follows the seconds; then the text must *)
(* end in "Z" ("trailing garbage" otherwise).                            *)
convert_ascii_time(s) ==
    LET r == IF s # <<>> /\ s[1] = "."
             THEN FracDigits(s, 2, 10^(NSEC_DIGITS - 1), 0) ELSE [ep |-> 1, ns |-> 0]
    IN  [ok |-> r.ep = Len(s) /\ s[r.ep] = "Z", nsec |-> r.ns]

---------------------------------------------------------------------------
(* log_data with debug > 1: the buffer escaped into s_lbuf.  A byte is a  *)
(* one-character string, or "NUL" (0x00) or "SOH" (0x01), the two kinds of *)
(* non-printing byte "\\%#.2x" renders differently.  s_lbuf is a function *)
(* from the offsets written to their characters, so that a write past its *)
(* end, or a read of an offset never written, shows.                      *)

IsPrint(b) == b \notin {"\\", "NUL", "SOH"}

\* snprintf's "%#.2x": the 0x prefix is left out for zero.
Hex2 == "NUL" :> <<"0", "0">> @@ "SOH" :> <<"0", "x", "0", "1">>

\* Characters w stored from offset d on.
Store(lb, d, w) ==
    [j \in DOMAIN lb \cup {d + k - 1 : k \in DOMAIN w} |->
        IF j >= d /\ j < d + Len(w) THEN w[j - d + 1] ELSE lb[j]]

RECURSIVE LogLoop(_, _, _, _, _)

\* while (sptr != stop && dptr < dtop) { ... } *dptr = '\0';  snprintf
\* stores at most dtop - dptr - 1 characters and a NUL, and returns the
\* length of the whole rendering, by which dptr advances.
LogLoop(buf, i, d, lb, dtop) ==
    IF i <= Len(buf) /\ d < dtop
    THEN CASE buf[i] = "\\" ->
                LogLoop(buf, i + 1, d + 2, Store(lb, d, <<"\\", "\\">>), dtop)
           [] IsPrint(buf[i]) ->
                LogLoop(buf, i + 1, d + 1, Store(lb, d, <<buf[i]>>), dtop)
           [] OTHER ->
                LET e == <<"\\">> \o Hex2[buf[i]]
                    w == IF Len(e) < dtop - d THEN e ELSE SubSeq(e, 1, dtop - d - 1)
                IN  LogLoop(buf, i + 1, d + Len(e), Store(lb, d, w \o <<"NUL">>), dtop)
    ELSE Store(lb, d, <<"NUL">>)

EmptyBuf == [j \in {} |-> "NUL"]

(* Mutant: only one byte of room is left at the end of s_lbuf. *)
LogDataSlackOne(buf) == LogLoop(buf, 1, 0, EmptyBuf, MAX_PDU_LEN - 1)

\* dtop = s_lbuf + sizeof(s_lbuf) - 10: "leave room for hex (\\x23) + NUL"
log_data(buf) == LogLoop(buf, 1, 0, EmptyBuf, MAX_PDU_LEN - 10)

---------------------------------------------------------------------------
(* myasprintf(&up->device, fmt, ...) in gpsd_start: plen is the length   *)
(* vsnprintf reports for the formatted device name, whatever the buffer. *)
(* Each pass doubles alen (from 32), frees the old buffer and mallocs a  *)
(* new one; fail is the pass whose malloc returns NULL (0: none does).   *)
(* The result is the return value, the buffer size and how many         *)
(* characters of the name vsnprintf stored before its NUL.              *)

(* Mutant: the loop ends when the name is exactly as long as the buffer. *)
AsprintfAgainEq(plen, alen) == plen > alen

(* } while (plen >= alen); *)
AsprintfAgain(plen, alen) == plen >= alen

RECURSIVE AsprintfPass(_, _, _, _)
AsprintfPass(plen, alen, pass, fail) ==
    LET a == alen + alen
    IN  IF pass = fail THEN [ret |-> -1, alen |-> 0, kept |-> 0]
        ELSE IF AsprintfAgain(plen, a) THEN AsprintfPass(plen, a, pass + 1, fail)
        ELSE [ret |-> plen, alen |-> a, kept |-> IF plen < a THEN plen ELSE a - 1]

myasprintf(plen, fail) == AsprintfPass(plen, 32, 1, fail)

---------------------------------------------------------------------------
(* The serial precision process_tpv derives from a TPV's "ept" (expected  *)
(* time error, seconds).  A finite ept is |ept| = p/16 * 2^e with p in    *)
(* 8..15; zero and infinity are the other values strtod can return for a   *)
(* number.  frexp is the C library's: it gives a mantissa in [0.5, 1) and  *)
(* its exponent for a finite non-zero value, 0 for zero, and an infinity  *)
(* unchanged (the exponent is then unspecified; the code overwrites it).  *)
INT_MAX == 2147483647
INT_MIN == -INT_MAX - 1

\* The conversion of an int to int16_t (modulo 2^16, as gcc does).
Int16(x) == ((x + 2^15) % 2^16) - 2^15

\* [m: the class of the mantissa frexp returns, exp: its exponent] for
\* frexp(fabs(ept) * 0.70710678, &xlog2): p/16 * 0.70710678 is below 0.5
\* exactly when p * 70710678 < 8 * 10^8, and then the exponent drops by one.
Frexp(v) ==
    CASE v.kind = "zero" -> [m |-> "zero", exp |-> 0]
      [] v.kind = "inf"  -> [m |-> "inf", exp |-> 0]
      [] OTHER           -> [m |-> "norm",
                             exp |-> IF v.p * 70710678 >= 8 * 10^8 THEN v.e ELSE v.e - 1]

(* Mutant: the value is narrowed to int16_t before it is clamped. *)
ClampedPrecisionCastFirst(rawprec) ==
    LET r == Int16(rawprec) IN Int16(IF r > 0 THEN 0 ELSE IF r < -32 THEN -32 ELSE r)

(* clamped_precision: the raw value clamped to -32..0, returned as int16_t. *)
clamped_precision(rawprec) ==
    Int16(IF rawprec > 0 THEN 0 ELSE IF rawprec < -32 THEN -32 ELSE rawprec)

(* ept < 0.25 only for a zero mantissa, ept > 2.0 only for an infinite   *)
(* one; both are turned into the extremes of int before the clamp.       *)
TpvPrecision(v) ==
    LET f == Frexp(v)
        xlog2 == CASE f.m = "zero" -> INT_MIN
                   [] f.m = "inf"  -> INT_MAX
                   [] OTHER        -> f.exp
    IN  clamped_precision(xlog2)

---------------------------------------------------------------------------
(* The reference for the token array: a token opens ItemCount values, so *)
(* the value at tid ends at the first index where the items opened minus *)
(* the tokens read since tid drop below zero; the items of the root      *)
(* object start where that sum, counted from 1, first reaches -(k-1).    *)

ItemCount(t) == CASE t.type = "OBJECT" -> 2 * t.size
                  [] t.type = "ARRAY"  -> t.size
                  [] OTHER             -> 0

\* Sums(tok)[j + 1]: the items opened minus the tokens read before index j
Sums(tok) == FoldLeft(LAMBDA acc, t : Append(acc, acc[Len(acc)] + ItemCount(t) - 1),
                      <<0>>, tok)

FirstAt(tok, sums, from, b) ==
    LET js == {j \in from..Len(tok) : sums[j + 1] - sums[from + 1] = b}
    IN  IF js = {} THEN Len(tok) ELSE CHOOSE j \in js : \A l \in js : j <= l

RefSkip(tok, sums, tid) == IF tid < Len(tok) THEN FirstAt(tok, sums, tid, -1) ELSE tid

RefLookup(tok, sums, key, what) ==
    LET item(k) == FirstAt(tok, sums, 1, -(k - 1))
        pairs   == {k \in 1..tok[1].size :
                      tok[item(2*k - 1) + 1].type = "STRING"
                      /\ tok[item(2*k - 1) + 1].text = key}
        k       == CHOOSE j \in pairs : \A l \in pairs : j <= l
    IN  IF pairs = {} THEN INVALID_TOKEN
        ELSE IF what = ANY \/ what = tok[item(2*k) + 1].type THEN item(2*k)
        ELSE INVALID_TOKEN

---------------------------------------------------------------------------
(* The inputs.  TLC builds each input once, a character of a number text *)
(* or a jsmn token of a record at a time; the invariants check the code's *)
(* operators on every input built.  A record's token array is what jsmn  *)
(* returns for a JSON object: open holds, for each compound value not yet *)
(* complete, the items it still expects and whether it is an object.     *)

VARIABLES
    text,   \* the text of a primitive handed to strtojint
    tok,    \* the token array of a record (up->json_parse)
    open,   \* the compound values of tok still expecting items
    raw,    \* a received or sent buffer handed to log_data
    namelen,\* plen of the device name myasprintf formats (-1: none)
    ept     \* the ept of a TPV record as strtod returned it (NoEpt: none)

vars == <<text, tok, open, raw, namelen, ept>>

NoEpt == [kind |-> "none", p |-> 0, e |-> 0]
EptValues == {[kind |-> k, p |-> 0, e |-> 0] : k \in {"zero", "inf"}}
             \cup [kind: {"finite"}, p: 8..15, e: EptExps]

RECURSIVE Close(_)
Close(st) == IF st # <<>> /\ Last(st).left = 0 THEN Close(Front(st)) ELSE st

Complete == tok # <<>> /\ open = <<>>

\* Tokens jsmn may emit next: a key (a string, or a primitive: jsmn's
\* non-strict mode) where an object expects one, any value elsewhere.
NextTokens ==
    LET keyNext == Last(open).obj /\ Last(open).left % 2 = 0
        leaves  == {[type |-> "STRING", size |-> IF keyNext THEN 1 ELSE 0, text |-> k] : k \in Keys}
                   \cup {[type |-> "PRIMITIVE", size |-> 0, text |-> p] : p \in Prims}
        nested  == {[type |-> ty, size |-> n, text |-> <<>>] :
                      ty \in {"ARRAY", "OBJECT"}, n \in 0..2}
    IN  IF keyNext THEN leaves ELSE leaves \cup nested

Still(st) == FoldLeft(LAMBDA n, f : n + f.left, 0, st)   \* tokens still needed

JsmnStep(roots) ==
    /\ text = <<>> /\ raw = <<>> /\ namelen = -1 /\ ept = NoEpt /\ ~Complete
    /\ \E t \in IF tok = <<>> THEN roots ELSE NextTokens :
        LET st0 == IF open = <<>> THEN <<>>
                   ELSE [open EXCEPT ![Len(open)].left = @ - 1]
            st1 == IF ItemCount(t) > 0
                   THEN Append(st0, [left |-> ItemCount(t), obj |-> t.type = "OBJECT"])
                   ELSE st0
        IN  /\ Len(tok) + 1 + Still(st1) <= MaxTok
            /\ tok' = Append(tok, t)
            /\ open' = Close(st1)
    /\ UNCHANGED <<text, raw, namelen, ept>>

Roots(types) == {[type |-> ty, size |-> n, text |-> <<>>] : ty \in types, n \in 0..2}

(* Mutant: the record's first token is not checked to be an object. *)
JsmnTokenAnyRoot == JsmnStep(Roots({"OBJECT", "ARRAY"}))

(* json_parse_record: jsmn's tokens are kept only for a record whose    *)
(* first token is an object.                                            *)
JsmnToken == JsmnStep(Roots({"OBJECT"}))

FieldChar ==
    /\ tok = <<>> /\ raw = <<>> /\ namelen = -1 /\ ept = NoEpt /\ Len(text) < MaxText
    /\ \E c \in TextChars : text' = Append(text, c)
    /\ UNCHANGED <<tok, open, raw, namelen, ept>>

RawByte ==
    /\ tok = <<>> /\ text = <<>> /\ namelen = -1 /\ ept = NoEpt /\ Len(raw) < MaxRaw
    /\ \E b \in LogBytes : raw' = Append(raw, b)
    /\ UNCHANGED <<text, tok, open, namelen, ept>>

\* gpsd_start formats a device name of some length (the ntp.conf path or
\* /dev/gps%d of the unit) with myasprintf.
DeviceName ==
    /\ tok = <<>> /\ text = <<>> /\ raw = <<>> /\ namelen = -1 /\ ept = NoEpt
    /\ namelen' \in 0..MaxFmt
    /\ UNCHANGED <<text, tok, open, raw, ept>>

\* process_tpv converts a TPV's "ept" with json_object_lookup_float_default.
Ept ==
    /\ tok = <<>> /\ text = <<>> /\ raw = <<>> /\ namelen = -1 /\ ept = NoEpt
    /\ ept' \in EptValues
    /\ UNCHANGED <<text, tok, open, raw, namelen>>

NextInput ==
    /\ Complete \/ text # <<>> \/ raw # <<>> \/ namelen # -1 \/ ept # NoEpt
    /\ text' = <<>> /\ tok' = <<>> /\ open' = <<>> /\ raw' = <<>> /\ namelen' = -1 /\ ept' = NoEpt

Init == text = <<>> /\ tok = <<>> /\ open = <<>> /\ raw = <<>> /\ namelen = -1 /\ ept = NoEpt

Next == JsmnToken \/ FieldChar \/ RawByte \/ DeviceName \/ Ept \/ NextInput

Spec == Init /\ [][Next]_vars

---------------------------------------------------------------------------
(* Properties *)

TypeOK ==
    /\ text \in Seq(TextChars) /\ Len(text) <= MaxText
    /\ tok \in Seq([type: {"OBJECT", "ARRAY", "STRING", "PRIMITIVE"}, size: 0..2,
                    text: Keys \cup Prims \cup {<<>>}])
    /\ Len(tok) <= MaxTok
    /\ tok # <<>> => tok[1].type = "OBJECT"
    /\ open \in Seq([left: 0..4, obj: BOOLEAN])
    /\ raw \in Seq(LogBytes) /\ Len(raw) <= MaxRaw
    /\ namelen \in -1..MaxFmt
    /\ ept \in EptValues \cup {NoEpt}

\* strtojint converts every text as strtol does on a long of its width:
\* the value clamped to the range on overflow (ERANGE), EINVAL and no
\* characters consumed when no digit follows the sign, and the end pointer
\* after the last digit.
JintAsReference == strtojint(text) = RefJint(text)

\* The reference for the fraction: "Z", or "." digits "Z"; the digits
\* past the last one tv_nsec can hold are dropped.
RefFrac(s) ==
    LET digits == SubSeq(s, 2, Len(s) - 1)
        kept   == SubSeq(digits, 1, IF Len(digits) < NSEC_DIGITS THEN Len(digits) ELSE NSEC_DIGITS)
        ok     == \/ s = <<"Z">>
                  \/ /\ Len(s) >= 2 /\ s[1] = "." /\ Last(s) = "Z"
                     /\ \A i \in DOMAIN digits : IsDigit(digits[i])
    IN  [ok |-> ok,
         nsec |-> IF ok /\ s # <<"Z">>
                  THEN FoldLeft(LAMBDA v, c : 10 * v + DigitVal[c], 0, kept)
                       * 10^(NSEC_DIGITS - Len(kept))
                  ELSE 0]

\* convert_ascii_time accepts exactly "Z" or a fraction then "Z" after the
\* seconds, and the fraction gives tv_nsec truncated to whole nanoseconds,
\* always below one second, however many digits GPSD sends.
FracAsReference ==
    LET c == convert_ascii_time(text)
    IN  /\ c.ok = RefFrac(text).ok
        /\ c.ok => c.nsec = RefFrac(text).nsec /\ c.nsec < 10^NSEC_DIGITS

\* The reference for a decimal number: an optional sign, then digits with
\* at most one point among them and at least one digit.
RefDecimal(s) ==
    LET b == IF s # <<>> /\ s[1] \in {"+", "-"} THEN Tail(s) ELSE s
    IN  /\ \A i \in DOMAIN b : IsDigit(b[i]) \/ b[i] = "."
        /\ Cardinality({i \in DOMAIN b : b[i] = "."}) <= 1
        /\ \E i \in DOMAIN b : IsDigit(b[i])

\* The "ept" of a TPV record is taken (json_object_lookup_float_default)
\* exactly when the whole text of the key's primitive is a decimal number:
\* a number followed by other text, a sign or a point alone, a boolean or
\* a string value all give the default.
FloatAsReference ==
    /\ FloatTaken(text) = RefDecimal(text)
    /\ Complete =>
         \A key \in Keys :
           LET tid == RefLookup(tok, Sums(tok), key, "PRIMITIVE")
           IN  json_object_lookup_float_default(tok, key, <<"d">>) =
                 IF tid # INVALID_TOKEN /\ RefDecimal(tok[tid + 1].text)
                 THEN tok[tid + 1].text ELSE <<"d">>

\* In every record jsmn can return (nested arrays and objects, non-string
\* keys), json_token_skip steps over exactly one value from every token,
\* and json_object_lookup finds the value of the first top-level pair with
\* the key, and only if it has the type asked for; the boolean lookup
\* reads that value, the string lookups the string's text or the default,
\* and the defaulted integer lookup its number, clamped
\* to json_int as strtol clamps, whenever its whole text is a number.
LookupAsReference ==
    Complete =>
      LET sums == Sums(tok) IN
        /\ \A i \in 0..(Len(tok) - 1) : json_token_skip(tok, i) = RefSkip(tok, sums, i)
        /\ \A key \in Keys, what \in {"PRIMITIVE", "STRING", ANY} :
               json_object_lookup(tok, 0, key, what) = RefLookup(tok, sums, key, what)
        /\ \A key \in Keys :
               LET tid == RefLookup(tok, sums, key, "PRIMITIVE")
               IN  /\ json_object_lookup_bool(tok, key) =
                        IF tid = INVALID_TOKEN THEN -1
                        ELSE CASE tok[tid + 1].text[1] = "t" -> 1
                               [] tok[tid + 1].text[1] = "f" -> 0
                               [] OTHER -> -1
                   /\ json_object_lookup_string_default(tok, key, <<"d">>) =
                        LET sid == RefLookup(tok, sums, key, "STRING")
                        IN  IF sid = INVALID_TOKEN THEN <<"d">> ELSE tok[sid + 1].text
                   /\ json_object_lookup_string(tok, key) =
                        LET sid == RefLookup(tok, sums, key, "STRING")
                        IN  IF sid = INVALID_TOKEN THEN <<>> ELSE tok[sid + 1].text
                   /\ json_object_lookup_int_default(tok, key, 42) =
                        IF tid = INVALID_TOKEN THEN 42
                        ELSE LET r == RefJint(tok[tid + 1].text)
                             IN  IF r.errno # "EINVAL" /\ r.end = Len(tok[tid + 1].text)
                                 THEN r.val ELSE 42

\* What json_object_lookup_int leaves of a key, by the reference: errno
\* EINVAL when the key has no primitive value or its text has no digits,
\* ERANGE on overflow, untouched otherwise; the number when the text is
\* all of it, 0 when other text follows the digits.
RefIntField(tk, sums, key) ==
    LET tid == RefLookup(tk, sums, key, "PRIMITIVE")
        txt == IF tid = INVALID_TOKEN THEN <<>> ELSE tk[tid + 1].text
        r   == RefJint(txt)
    IN  IF tid = INVALID_TOKEN THEN [errno |-> "EINVAL", val |-> 0]
        ELSE [errno |-> r.errno, val |-> IF r.end = Len(txt) THEN r.val ELSE 0]

\* get_binary_time (the time stamps of TOFF and PPS records) fails a
\* record exactly when either of its two lookups sets errno: errno is
\* cleared once, before both, so a missing, digitless or overflowing first
\* field fails the record even when the second converts.  A field whose
\* digits are followed by other text ("1.2") sets no errno and is taken as
\* 0, as the code does.  On success the fields have the values of their
\* lookups.
BinaryTimeErrors ==
    Complete =>
        LET sums == Sums(tok)
            f    == [k \in Keys |-> RefIntField(tok, sums, k)]
        IN  \A tn, fn \in Keys :
                LET g == get_binary_time(tok, tn, fn)
                IN  /\ g.ok <=> f[tn].errno = "0" /\ f[fn].errno = "0"
                    /\ g.ok => g.sec = f[tn].val /\ g.nsec = f[fn].val


\* What printf shows of s_lbuf: the characters up to the first NUL, if
\* every offset before it was written.
RECURSIVE Shown(_, _)
Shown(lb, j) ==
    IF j \in DOMAIN lb /\ lb[j] # "NUL" THEN <<lb[j]>> \o Shown(lb, j + 1) ELSE <<>>
Terminated(lb) == Len(Shown(lb, 0)) \in DOMAIN lb /\ lb[Len(Shown(lb, 0))] = "NUL"

\* The escaping log_data means: a backslash doubled, a printing byte as it
\* is, another as a backslash and its hex rendering.
EscapeRef(buf) ==
    FoldLeft(LAMBDA e, b : e \o (IF b = "\\" THEN <<"\\", "\\">>
                                ELSE IF IsPrint(b) THEN <<b>>
                                ELSE <<"\\">> \o Hex2[b]), <<>>, buf)

\* log_data stores only inside s_lbuf, although snprintf's return value
\* can carry dptr past dtop, and ends the text with a NUL; what it prints
\* is the start of the escaped buffer, all of it when that is shorter than
\* s_lbuf less its 10 bytes of room, and never less than 5 characters
\* short of that.
LogDataSafe ==
    LET lb  == log_data(raw)
        esc == EscapeRef(raw)
        dtop == MAX_PDU_LEN - 10
    IN  /\ DOMAIN lb \subseteq 0..(MAX_PDU_LEN - 1)
        /\ Terminated(lb)
        /\ IsPrefix(Shown(lb, 0), esc)
        /\ Len(esc) < dtop => Shown(lb, 0) = esc
        /\ Len(Shown(lb, 0)) >= IF Len(esc) < dtop - 5 THEN Len(esc) ELSE dtop - 5


\* The buffer size myasprintf settles on: the least of 64, 128, ... that
\* leaves room for the name and its NUL.
RECURSIVE RefAlen(_, _)
RefAlen(plen, a) == IF plen < a THEN a ELSE RefAlen(plen, a + a)

\* gpsd_start's device name is complete: myasprintf returns the length of
\* the whole name in a buffer that holds all of it and its NUL, grown no
\* further than the least size that does, for a name right at a buffer
\* size too; it returns -1 only when one of the mallocs it makes fails.
AsprintfComplete ==
    namelen >= 0 =>
      \A fail \in 0..4 :
        LET r == myasprintf(namelen, fail)
            passes == CHOOSE k \in 1..4 : 32 * 2^k = RefAlen(namelen, 64)
        IN  IF fail \in 1..passes
            THEN r.ret = -1
            ELSE r.ret = namelen /\ r.kept = namelen /\ r.alen = RefAlen(namelen, 64)

\* The power of two nearest to ept on a log scale: p/16 * 2^e is at least
\* 2^(e - 1/2) exactly when (p/16)^2 >= 1/2.
NearestLog2(v) == IF v.p * v.p >= 128 THEN v.e ELSE v.e - 1

\* The serial precision is ept's nearest power of two (frexp of ept times
\* ~sqrt(0.5) rounds, where frexp alone would round up), clamped to
\* -32..0: a zero ept, which frexp leaves below 0.25, is the finest
\* precision, and an infinite one the coarsest, although both pass through
\* INT_MIN or INT_MAX, which int16_t cannot hold.
EptPrecisionAsReference ==
    ept # NoEpt =>
        TpvPrecision(ept) =
            CASE ept.kind = "zero" -> -32
              [] ept.kind = "inf"  -> 0
              [] OTHER             -> Max({-32, Min({0, NearestLog2(ept)})})
====
