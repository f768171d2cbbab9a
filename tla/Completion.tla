----------------------------- MODULE Completion -----------------------------
(***************************************************************************)
(* What the API server promises of one chat completion, with no cache in   *)
(* sight: a prompt is received, tokens are sampled one after the other,    *)
(* each from the whole context so far (the prompt and the tokens sampled   *)
(* before it), and the completion ends.  ApiServer implements this         *)
(* specification; that its KV rows come from earlier requests or from disk *)
(* must not show.                                                          *)
(***************************************************************************)
EXTENDS Naturals, Sequences

CONSTANTS Token, Prompts, SeqLen

VARIABLES
  phase,      \* "idle" or "busy"
  context,    \* the prompt and the tokens sampled so far
  attended    \* the context the last sampled token was computed from

completionVars == <<phase, context, attended>>

Idle == phase = "idle" /\ context = <<>> /\ attended = <<>>

Receive(prompt) ==
  /\ Idle
  /\ phase' = "busy"
  /\ context' = prompt
  /\ attended' = <<>>

Sample(token) ==
  /\ phase = "busy"
  /\ Len(context) <= SeqLen
  /\ phase' = "busy"
  /\ context' = Append(context, token)
  /\ attended' = context

(* the answer is complete, the client is gone or the server stopped         *)
Finish ==
  /\ phase = "busy"
  /\ Idle'

CompletionNext ==
  \/ \E prompt \in Prompts : Receive(prompt)
  \/ \E token \in Token : Sample(token)
  \/ Finish

CompletionSpec == Idle /\ [][CompletionNext]_completionVars

=============================================================================
