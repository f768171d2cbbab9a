----------------------------- MODULE Tokenizer ------------------------------
(***************************************************************************)
(* Text in and out of the model (src/src/tokenizer.cpp): Tokenizer::encode, *)
(* Tokenizer::decode with its UTF-8 decoder, and EosDetector.              *)
(*                                                                         *)
(* Text is a sequence of bytes, numbers in 1 .. 255.  The objects' states  *)
(* are records and the methods are operators from one to the next.         *)
(***************************************************************************)
EXTENDS Integers, Sequences, SequencesExt, FiniteSetsExt

CONSTANTS
  Vocab,     \* token -> its bytes
  Score,     \* token -> the score that ranks merges
  Bos,       \* bosId; the tokens from it on are the special ones
  EosTokenIds  \* the end-of-sequence tokens, in the order of the file

ASSUME VocabAssumption ==
  /\ Max(DOMAIN Vocab) \in Nat /\ DOMAIN Vocab = 0 .. Max(DOMAIN Vocab)
  /\ \A t \in DOMAIN Vocab : Vocab[t] \in Seq(1 .. 255) \ {<<>>}
  /\ DOMAIN Score = DOMAIN Vocab
  /\ Bos \in DOMAIN Vocab
  /\ EosTokenIds \in Seq(DOMAIN Vocab) \ {<<>>}

Token == DOMAIN Vocab

Special == {t \in Token : t >= Bos}

IsEos(t) == Contains(EosTokenIds, t)

MaxTokenLength == Max({Len(Vocab[t]) : t \in Token})

(* strBuffer holds two tokens, at least two UTF-8 sequences, and some more *)
StrBufferSize == Max({2 * MaxTokenLength, 8}) + 3

-----------------------------------------------------------------------------
(***************************************************************************)
(* encode                                                                  *)
(***************************************************************************)

RegularWith(bytes) == {t \in Token \ Special : Vocab[t] = bytes}

SpecialAt(text, i) ==
  {t \in Special : IsPrefix(Vocab[t], SubSeq(text, i, Len(text)))}

(* One character of the first loop (lines 322-342).  A special token skips  *)
(* the rest of its characters.                                              *)
Scanned(text, addSpecial, s, i) ==
  LET str == Append(s.str, text[i])
  IN  CASE s.skip > 0 -> [s EXCEPT !.skip = @ - 1]
        [] s.skip = 0 /\ addSpecial /\ SpecialAt(text, i) # {} ->
             LET t == Min(SpecialAt(text, i))
             IN  [s EXCEPT !.cells = Append(@, t), !.skip = Len(Vocab[t]) - 1]
        [] s.skip = 0 /\ ~(addSpecial /\ SpecialAt(text, i) # {}) ->
             IF RegularWith(str) = {}
             THEN [s EXCEPT !.str = str, !.fits = @ /\ Len(str) < StrBufferSize]
             ELSE [s EXCEPT !.cells = Append(@, Min(RegularWith(str))), !.str = <<>>]

(* the tokens that the pair at i may become *)
Pair(a, i) == RegularWith(Vocab[a.cells[i]] \o Vocab[a.cells[i + 1]])

PairScore(a, i) == Score[Min(Pair(a, i))]

(* the leftmost pair of the best score *)
BestPairs(a) ==
  LET pairs == {i \in 1 .. (a.n - 1) : Pair(a, i) # {}}
  IN  {i \in pairs :
         \A j \in pairs \ {i} :
           \/ PairScore(a, j) < PairScore(a, i)
           \/ PairScore(a, j) = PairScore(a, i) /\ i < j}

(* The two become one token, the cells behind them move down by one, and    *)
(* the last cell keeps its value, behind the new end.                       *)
Merged(a, at) ==
  [n     |-> a.n - 1,
   cells |-> [i \in DOMAIN a.cells |->
                CASE i = at -> Min(Pair(a, at))
                  [] i > at /\ i < a.n -> a.cells[i + 1]
                  [] OTHER -> a.cells[i]]]

(* One iteration of the second loop (lines 347-376), if there is a pair.    *)
MergeBest(a) ==
  IF BestPairs(a) = {} THEN {a} ELSE {Merged(a, at) : at \in BestPairs(a)}

(* The array of tokens: the first n cells are the result, the others are    *)
(* what the merges left behind.                                             *)
Encoding(text, addBos, addSpecial) ==
  LET scan[i \in 0 .. Len(text)] ==
        IF i = 0 THEN {[cells |-> IF addBos THEN <<Bos>> ELSE <<>>,
                        str |-> <<>>, skip |-> 0, fits |-> TRUE]}
        ELSE {Scanned(text, addSpecial, s, i) : s \in scan[i - 1]}
      scanned == CHOOSE s \in scan[Len(text)] : TRUE
      merge[i \in 0 .. Len(scanned.cells)] ==
        IF i = 0 THEN {[n |-> Len(scanned.cells), cells |-> scanned.cells]}
        ELSE UNION {MergeBest(a) : a \in merge[i - 1]}
  IN  [array   |-> CHOOSE a \in merge[Len(scanned.cells)] : TRUE,
       (* assert(strLen < strBufferSize), assert(strLen == 0) *)
       encodes |-> scanned.fits /\ scanned.str = <<>>]

-----------------------------------------------------------------------------
(***************************************************************************)
(* decode                                                                  *)
(***************************************************************************)

Continuation(c) == c \in 128 .. 191

(* how many continuation bytes follow; -1 when no sequence starts with c *)
Following(c) ==
  CASE c <= 127        -> 0
    [] c \in 192 .. 223 -> 1
    [] c \in 224 .. 239 -> 2
    [] c \in 240 .. 247 -> 3
    [] OTHER           -> -1

Replacement == <<239, 191, 189>>                          \* U+FFFD

(* emit U+FFFD in place of what follows the checkpoint *)
Recovered(d) == [d EXCEPT !.dst = d.ok \o Replacement, !.expect = 0]

(* a complete sequence moves the checkpoint *)
Checked(d) == IF d.expect = 0 THEN [d EXCEPT !.ok = d.dst, !.done = d.src] ELSE d

Taken(d, c, expect) ==
  Checked([d EXCEPT !.src = @ + 1, !.dst = Append(@, c), !.expect = expect])

(* A byte that does not continue the sequence is looked at again as the     *)
(* start of another one (lines 229-233, 256-258).                           *)
Detok(d, c) ==
  LET e == IF d.expect > 0 /\ ~Continuation(c) THEN Recovered(d) ELSE d
  IN  CASE e.expect > 0                     -> Taken(e, c, e.expect - 1)
        [] e.expect = 0 /\ Following(c) >= 0 -> Taken(e, c, Following(c))
        [] e.expect = 0 /\ Following(c) < 0  -> [Recovered(e) EXCEPT !.src = @ + 1]

(* The decoder after all bytes.  (Sets of one element have TLC compute each *)
(* intermediate state once.)                                                *)
Decoder(bytes) ==
  LET d[i \in 0 .. Len(bytes)] ==
        IF i = 0 THEN {[src |-> 0, dst |-> <<>>, ok |-> <<>>, done |-> 0, expect |-> 0]}
        ELSE {Detok(e, bytes[i]) : e \in d[i - 1]}
  IN  CHOOSE e \in d[Len(bytes)] : TRUE

DetokKeepingNothing(bytes) ==                             \* mutant of DetokUtf8
  [text |-> Decoder(bytes).ok, pending |-> <<>>]

(* What the bytes of strBuffer decode to, and what stays in strBuffer.      *)
DetokUtf8(bytes) ==
  LET d == Decoder(bytes)
  IN  [text |-> d.ok, pending |-> SubSeq(bytes, d.done + 1, Len(bytes))]

(* assert(strBufferPos + pieceLen + 1 < strBufferSize) *)
Decodes(pending, token) ==
  token = Bos \/ IsEos(token) \/ Len(pending) + Len(Vocab[token]) + 1 < StrBufferSize

(* The returned piece (empty for nullptr) and the bytes left in strBuffer.  *)
Decode(pending, token) ==
  CASE token = Bos -> [text |-> <<>>, pending |-> pending]
    [] token # Bos /\ IsEos(token) -> [text |-> pending, pending |-> pending]
    [] OTHER -> DetokUtf8(pending \o Vocab[token])

-----------------------------------------------------------------------------
(***************************************************************************)
(* EosDetector, as chat and the API server construct it: the stops are the *)
(* pieces of the eos tokens and both paddings are the length of the longest *)
(* (TokenizerChatStops).                                                   *)
(***************************************************************************)

Stop(i) == Vocab[EosTokenIds[i]]

Padding == Max({Len(Stop(i)) : i \in DOMAIN EosTokenIds})

(* stop s is compared with the buffer from offset lo on (lines 694-700) *)
Compared(buffer, s, lo) ==
  /\ Len(buffer) <= Len(s) + 2 * Padding
  /\ lo < Len(buffer)
  /\ Len(buffer) - lo <= Len(s) + Padding

Beginning(buffer, s, lo) ==
  SubSeq(buffer, lo + 1, Min({Len(buffer), lo + Len(s)}))

(* offsets at which the buffer has a stop, or what may become one *)
Matches(buffer, s) ==
  {lo \in 0 .. Padding :
     Compared(buffer, s, lo) /\ IsPrefix(Beginning(buffer, s, lo), s)}

(* append: the first match of the first stop that matches decides.         *)
Detect(buffer, token) ==
  LET matching == {i \in DOMAIN EosTokenIds : Matches(buffer, Stop(i)) # {}}
      stop     == Stop(Min(matching))
      lo       == Min(Matches(buffer, stop))
  IN  CASE IsEos(token) -> [type |-> "EOS", delta |-> buffer]
        [] ~IsEos(token) /\ matching = {} -> [type |-> "NOT_EOS", delta |-> buffer]
        [] ~IsEos(token) /\ matching # {} ->
             IF Len(buffer) - lo >= Len(stop)
             THEN [type |-> "EOS", delta |-> SubSeq(buffer, 1, lo)]
             ELSE [type |-> "MAYBE_EOS", delta |-> <<>>]

=============================================================================
