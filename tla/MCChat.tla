------------------------------- MODULE MCChat -------------------------------
(* A vocabulary with a character of three bytes that comes in pieces, and   *)
(* regular tokens that spell the stop.                                      *)
EXTENDS Chat

MCVocab ==
  0 :> <<97>> @@ 1 :> <<60>> @@ 2 :> <<62>> @@           \* a < >
  3 :> <<226>> @@ 4 :> <<130, 172>> @@ 5 :> <<130>> @@   \* the pieces of a character
  6 :> <<97, 97>> @@                                     \* aa
  7 :> <<36>> @@ 8 :> <<35>> @@ 9 :> <<60, 62>>          \* $ (bos) # <> (eos)

MCScore == [t \in 0 .. 9 |-> IF t = 6 THEN 1 ELSE 0]

MCEos == <<9>>

(* "a", "aa" (merged), "aaa", "<>" with the stop and one with a byte that   *)
(* no token has.                                                            *)
MCPrompts == {<<97>>, <<97, 97>>, <<98>>, <<97, 60, 97, 97, 60, 62, 97>>}

MCMessages == {<<35, 97>>, <<35, 97, 97, 60, 62, 35>>}

=============================================================================
