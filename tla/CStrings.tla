------------------------------ MODULE CStrings ------------------------------
(***************************************************************************)
(* Strings as C has them, for the parts that hand bytes to strlen,         *)
(* strncmp or lua_pushstring: what lies behind the first 0 is not seen.    *)
(***************************************************************************)
EXTENDS Naturals, Sequences

\* strlen, and all of s when there is no 0 in it.
StrLen(s) ==
  CHOOSE n \in 0 .. Len(s) :
    (\A i \in 1 .. n : s[i] # 0) /\ (n < Len(s) => s[n + 1] = 0)

CString(s) == SubSeq(s, 1, StrLen(s))

=============================================================================
