------------------------------- MODULE MCSettings -------------------------------
(* Settings with two slots, rings of zero to two keys, and one or two        *)
(* settings per session, within and beyond their ranges.                     *)
EXTENDS Settings

CONSTANTS a1, a2, b1, b2, code1, code2

A == [first |-> a1, second |-> a2]
B == [first |-> b1, second |-> b2]

Call(r, s, n) == [code |-> DefaultCode, ring |-> r, settings |-> s, newCode |-> n]
Other == CHOOSE c \in Codes : c # DefaultCode

MCHalf == {a1, a2, b1, b2}
MCCodes == {code1, code2}
MCJobs ==
  {Call(r, <<>>, NoCode) : r \in {<<>>, <<A>>, <<B, A>>}}
  \cup {Call(<<B>>, <<>>, Other), [Call(<<A>>, <<>>, NoCode) EXCEPT !.code = Other],
        Call(NoRing, <<<<"period", 3>>, <<"accel", 16384>>>>, NoCode),
        Call(NoRing, <<<<"changeInterval", 31>>>>, NoCode),
        Call(NoRing, <<<<"power", 1>>, <<"changeInterval", 601>>>>, Other)}
================================================================================
