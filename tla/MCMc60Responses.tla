-------------------------- MODULE MCMc60Responses ---------------------------
(* Instance of Mc60Responses for TLC: numbers of one, four and nine digits,   *)
(* the most that fit the buffer, and behind an event nothing, a digit, a      *)
(* comma, a letter or an older answer.                                        *)
EXTENDS Mc60Responses
MCNumbers == {0, 7, 1332, 123456789}
MCMemories == {<< >>, <<7>>, <<COMMA, 7>>, <<LETTER>>,
               <<ANSWER, 9, COMMA, 9, COMMA, 0>>}
MCLeftovers == {0, 12}
=============================================================================
