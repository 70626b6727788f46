---------------------------- MODULE MCGpsdJson ----------------------------
(* GpsdJson instantiated for TLC: json_int 8 bits wide, so that three     *)
(* digits reach the limits; number texts of up to 4 characters over the   *)
(* digits at and around the limits' last digits, both signs and a dot;    *)
(* records of up to 6 tokens over two keys and four primitives (a        *)
(* number, a boolean, a number out of range and a fraction): two pairs of *)
(* scalars, a repeated key, a non-string key, and a pair whose value is an array or  *)
(* an object with one pair of its own, from whose every token json_token_ *)
(* skip is checked.                                                       *)
EXTENDS GpsdJson

MC_TextChars == {"0", "1", "2", "7", "8", "9", "-", "+", ".", "Z"}
MC_Keys == {<<"a">>, <<"b">>}
MC_Prims == {<<"1">>, <<"t">>, <<"9", "9", "9">>, <<"1", ".", "2">>}
MC_LogBytes == {"a", "\\", "NUL", "SOH"}
MC_EptExps == -33..2
====
