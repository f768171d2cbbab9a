-------------------------------- MODULE Chat --------------------------------
(***************************************************************************)
(* The command line modes `inference' and `chat' (src/src/dllama.cpp): a   *)
(* prompt is encoded and evaluated in batches, then tokens are sampled,    *)
(* decoded and shown, one position of the context after the other.  In     *)
(* `chat' an answer ends with an eos token or a stop, and the context goes *)
(* on with the next prompt; `inference' has one prompt, and its answer ends *)
(* with the number of steps only.                                          *)
(*                                                                         *)
(* What the network computes is abstracted to the tokens it is fed, `fed'; *)
(* any of the tokens in Sampled may come out of it.                        *)
(***************************************************************************)
EXTENDS Tokenizer

CONSTANTS
  Modes,      \* "inference", "chat"
  Prompts,    \* --prompt
  Messages,   \* what ChatTemplateGenerator::generate makes of user prompts
  SeqLen,     \* header->seqLen
  NBatches,   \* args->nBatches
  Steps,      \* args->steps
  Sampled     \* the tokens that the sampler returns

ASSUME ChatAssumption ==
  /\ Modes \subseteq {"inference", "chat"}
  /\ Prompts \subseteq Seq(1 .. 255)
  /\ Messages \subseteq Seq(1 .. 255) \ {<<>>}
  /\ SeqLen \in Nat \ {0} /\ NBatches \in Nat \ {0} /\ Steps \subseteq Nat \ {0}
  /\ Sampled \subseteq Token

VARIABLES
  mode,      \* "inference" or "chat"
  pc,        \* "ask", "eval", "predict", "done", "refused" or "aborted"
  maxPos,    \* where the predictions end
  start,     \* the position of the first token of this prompt
  pos, token, \* the locals of the same name
  prompt,    \* inputTokens and nInputTokens
  fed,       \* the tokens whose rows are in the context, by position
  pending,   \* strBuffer of the tokenizer
  held,      \* buffer of the EosDetector
  answer,    \* the tokens sampled since the prompt
  shown      \* the text printed since the prompt

vars == <<mode, pc, maxPos, start, pos, token, prompt, fed, pending, held, answer, shown>>

Smaller(a, b) == IF a < b THEN a ELSE b

(* `token' is declared without a value.                                     *)
ChatInit ==
  /\ mode \in Modes
  /\ maxPos \in IF mode = "chat" THEN {SeqLen} ELSE {Smaller(SeqLen, n) : n \in Steps}
  /\ token \in Token
  /\ pc = "ask"
  /\ start = 0 /\ pos = 0
  /\ prompt = [n |-> 0, cells |-> <<>>]
  /\ fed = <<>> /\ pending = <<>> /\ held = <<>> /\ answer = <<>> /\ shown = <<>>

Texts == IF mode = "chat" THEN Messages ELSE Prompts

(* The prompt is encoded, with Bos when it is the first.  encode asserts    *)
(* that it can; inference refuses a prompt that does not fit.               *)
Ask(text) ==
  /\ pc = "ask"
  /\ \E e \in {Encoding(text, pos = 0, mode = "chat")} :
       IF e.encodes
       THEN /\ prompt' = e.array
            /\ pc' = IF mode = "inference" /\ e.array.n > maxPos THEN "refused" ELSE "eval"
       ELSE pc' = "aborted" /\ UNCHANGED prompt
  /\ start' = pos
  /\ answer' = <<>> /\ shown' = <<>>
  /\ UNCHANGED <<mode, maxPos, pos, token, fed, pending, held>>

PromptEndUnbounded == start + prompt.n - 1             \* mutant of PromptEnd

PromptEnd == Smaller(SeqLen, start + prompt.n - 1)

BatchSizeRounded ==                                     \* mutant of BatchSize
  IF PromptEnd - pos < NBatches THEN 0 ELSE NBatches

BatchSize == Smaller(PromptEnd - pos, NBatches)

(* inputTokens[i], i counted from 0.  Behind what encode wrote the vector   *)
(* of inference holds zeros and the array of chat anything.                 *)
InputToken(i) ==
  IF i < Len(prompt.cells) THEN {prompt.cells[i + 1]}
  ELSE IF mode = "inference" THEN {0} ELSE Token

(* One batch of the prompt; `token' is read behind the batch (lines 51-52,  *)
(* 177-179).                                                                *)
EvalBatch ==
  /\ pc = "eval"
  /\ pos < PromptEnd
  /\ fed' = fed \o SubSeq(prompt.cells, pos - start + 1, pos - start + BatchSize)
  /\ pos' = pos + BatchSize
  /\ token' \in InputToken(pos + BatchSize - start + 1)
  /\ UNCHANGED <<mode, pc, maxPos, start, prompt, pending, held, answer, shown>>

(* resetDecoder *)
Evaluated ==
  /\ pc = "eval"
  /\ pos >= PromptEnd
  /\ pc' = "predict"
  /\ pending' = <<>>
  /\ UNCHANGED <<mode, maxPos, start, pos, token, prompt, fed, held, answer, shown>>

EosKept(type, buffer) ==                                \* mutant of HeldAfter
  IF type \in {"MAYBE_EOS", "EOS"} THEN buffer ELSE <<>>

(* The detector is reset unless it waits for more.                          *)
HeldAfter(type, buffer) == IF type = "MAYBE_EOS" THEN buffer ELSE <<>>

(* the piece is printed, or what the detector makes of it *)
Shows(t, text) ==
  IF mode = "inference"
  THEN shown' = shown \o text /\ UNCHANGED <<held, pc>>
  ELSE \E found \in {Detect(held \o text, t)} :
         /\ shown' = shown \o found.delta
         /\ held' = HeldAfter(found.type, held \o text)
         /\ pc' = CASE found.type # "EOS" -> pc
                    [] found.type = "EOS" /\ pos + 1 < SeqLen -> "ask"
                    [] found.type = "EOS" /\ pos + 1 >= SeqLen -> "done"

NextFedAgain(t) == token                                \* mutant of NextFed

NextFed(t) == t

(* One iteration of the prediction loop (lines 74-96, 189-208), t is the    *)
(* token that is sampled.                                                   *)
Predict(t) ==
  /\ pc = "predict"
  /\ pos < maxPos
  /\ Decodes(pending, t)
  /\ fed' = Append(fed, token)
  /\ token' = NextFed(t)
  /\ answer' = Append(answer, t)
  /\ \E piece \in {Decode(pending, t)} :
       pending' = piece.pending /\ Shows(t, piece.text)
  /\ pos' = pos + 1
  /\ UNCHANGED <<mode, maxPos, start, prompt>>

(* the assertion of decode ends the process *)
DecoderAborts(t) ==
  /\ pc = "predict"
  /\ pos < maxPos
  /\ ~Decodes(pending, t)
  /\ pc' = "aborted"
  /\ UNCHANGED <<mode, maxPos, start, pos, token, prompt, fed, pending, held, answer, shown>>

EndOfContext ==
  /\ pc = "predict"
  /\ pos >= maxPos
  /\ pc' = "done"
  /\ UNCHANGED <<mode, maxPos, start, pos, token, prompt, fed, pending, held, answer, shown>>

Computing == EvalBatch \/ Evaluated \/ EndOfContext \/
             \E t \in Sampled : Predict(t) \/ DecoderAborts(t)

ChatNext == Computing \/ \E text \in Texts : Ask(text)

ChatSpec == ChatInit /\ [][ChatNext]_vars

FairChatSpec == ChatSpec /\ WF_vars(Computing)

-----------------------------------------------------------------------------
(***************************************************************************)
(* Properties                                                              *)
(***************************************************************************)

Bytes == 1 .. 255

(* The shape of the state; the position never leaves the context            *)
(* (app.cpp:186) and is what has been fed.                                  *)
ChatTypeOK ==
  /\ mode \in Modes
  /\ pc \in {"ask", "eval", "predict", "done", "refused", "aborted"}
  /\ maxPos \in 1 .. SeqLen
  /\ pos \in start .. SeqLen /\ start \in 0 .. SeqLen /\ token \in Token
  /\ prompt.n <= Len(prompt.cells) /\ prompt.cells \in Seq(Token)
  /\ fed \in Seq(Token) /\ Len(fed) = pos
  /\ pending \in Seq(Bytes) /\ Len(pending) < StrBufferSize
  /\ held \in Seq(Bytes) /\ shown \in Seq(Bytes) /\ answer \in Seq(Token)

(* the bytes of the sampled tokens, without those that decode to nothing *)
Stream ==
  FlattenSeq([i \in DOMAIN answer |->
                IF answer[i] = Bos \/ IsEos(answer[i]) THEN <<>> ELSE Vocab[answer[i]]])

EosSampled == \E i \in DOMAIN answer : IsEos(answer[i])

(* What is shown, with what the detector holds back, is what the bytes of   *)
(* the answer decode to when they are decoded at once: however a character  *)
(* is split over tokens and whatever is held back or recovered in between,  *)
(* nothing is lost, doubled or out of order (tokenizer.cpp:218-283,         *)
(* 667-719).  A stop ends the answer and is not part of it; an eos token    *)
(* shows the incomplete rest (:288-292), which is why an answer of          *)
(* `inference', which goes on after it, is left out.                        *)
ShownIsDecoded ==
  LET decoded == DetokUtf8(Stream)
  IN  \/ shown \o held = decoded.text
      \/ EosSampled /\ mode = "inference"
      \/ EosSampled /\ shown = decoded.text \o decoded.pending
      \/ /\ pc \notin {"eval", "predict"} /\ mode = "chat"
         /\ \E i \in DOMAIN EosTokenIds : IsPrefix(shown \o Stop(i), decoded.text)

(* The rows of the context, from the start of the prompt on, are those of   *)
(* the conversation: the prompt up to its last token, one token, and the    *)
(* answer up to the token sampled last; in `chat', every prompt follows     *)
(* the answer before it without a gap (dllama.cpp:161-180, 189-208).        *)
ContextIsConversation ==
  pc # "eval" /\ answer # <<>> =>
    LET first == start + prompt.n - 1
    IN  /\ Len(fed) = first + Len(answer)
        /\ SubSeq(fed, start + 1, first) = SubSeq(prompt.cells, 1, prompt.n - 1)
        /\ SubSeq(fed, first + 2, Len(fed)) = Front(answer)

(* Every prompt is answered, or the program says why not: the loops of      *)
(* dllama.cpp:36-96 and 162-208 end.                                        *)
AnswersEnd == pc \in {"eval", "predict"} ~> pc \notin {"eval", "predict"}

(* The prompt is what the first token is predicted from (README.md:91).     *)
PromptIsFed ==
  answer # <<>> => fed[start + prompt.n] = prompt.cells[prompt.n]

=============================================================================
