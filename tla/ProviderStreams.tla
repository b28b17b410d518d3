---------------------------- MODULE ProviderStreams ----------------------------
(***************************************************************************)
(* What the providers make of a conversation and of the stream that        *)
(* answers it: the conversion of the messages into the form of each        *)
(* upstream, and the parser that turns its events into the chunks that the *)
(* agent loop and the proxy read (send() of every provider).               *)
(*                                                                         *)
(* An upstream event is [t |-> "text" | "think" | "start" | "args" |       *)
(* "stop" | "end", id], with the number of the piece or of the call; a     *)
(* chunk is [t |-> "text" | "reasoning" | "start" | "delta" | "end" |      *)
(* "done", id].  The module has no state of its own: Proxy feeds it.       *)
(***************************************************************************)
EXTENDS Integers, Sequences, SequencesExt

ProvKinds == {"anthropic", "openai", "compatible", "codex", "gemini", "cli"}

ProvSupportsStreaming(kind) == kind # "cli"

-----------------------------------------------------------------------------
(* The conversation: blocks <<"text", n>>, <<"call", id>>, <<"result", id>>,  *)
(* <<"image", n>> in messages [role, blocks]                               *)

\* The blocks of these types, in their order.
ProvKept(blocks, types) ==
  LET kept[n \in 0 .. Len(blocks)] ==
        IF n = 0 THEN <<>>
        ELSE IF blocks[n][1] \in types THEN Append(kept[n - 1], blocks[n]) ELSE kept[n - 1] IN
  kept[Len(blocks)]

ProvSpoken == {"text", "call", "result"}

\* The Codex backend wants items: results and calls go ahead of the text of their message.
ProvCodexItems(message) ==
  ProvKept(message.blocks, IF message.role = "user" THEN {"result"} ELSE {"call"})
    \o ProvKept(message.blocks, {"text"})

\* OpenAI's form: the text of an assistant comes before its calls, a user's stays in place.
ProvOpenAIItems(message) ==
  IF message.role = "user" THEN ProvKept(message.blocks, ProvSpoken)
  ELSE ProvKept(message.blocks, {"text"}) \o ProvKept(message.blocks, {"call"})

ProvGeminiParts(message) == ProvKept(message.blocks, ProvSpoken)

ProvItems(kind, message) ==
  CASE kind = "codex" -> ProvCodexItems(message)
    [] kind \in {"openai", "compatible"} -> ProvOpenAIItems(message)
    [] kind = "gemini" -> ProvGeminiParts(message)
    [] kind \in {"anthropic", "cli"} -> message.blocks

\* What goes to the upstream for a conversation, as one sequence of blocks.
ProvConvert(kind, messages) ==
  LET items[n \in 0 .. Len(messages)] ==
        IF n = 0 THEN <<>> ELSE items[n - 1] \o ProvItems(kind, messages[n]) IN
  items[Len(messages)]

-----------------------------------------------------------------------------
(* The answer *)

\* calls: those started, in order; held: what the parser of <think> tags keeps back.
ProvParser == [calls |-> <<>>, held |-> <<>>]

ProvChunk(t, id) == <<[t |-> t, id |-> id]>>

ProvText(piece) ==
  ProvChunk(IF piece.t = "think" THEN "reasoning" ELSE "text", piece.id)

ProvHeld(parser) == IF parser.held = <<>> THEN <<>> ELSE ProvText(parser.held[1])

\* The tail of the text is kept back: the next piece may show it to be part of a tag.
ProvFeed(kind, parser, piece) ==
  IF kind = "compatible"
  THEN [parser |-> [parser EXCEPT !.held = <<piece>>], chunks |-> ProvHeld(parser)]
  ELSE [parser |-> parser, chunks |-> ProvText(piece)]

\* Arguments that come along with the name of a call are not passed on, except by Gemini,
\* which sends a call in one part.
ProvStart(kind, parser, id) ==
  [parser |-> [parser EXCEPT !.calls = Append(@, id)],
   chunks |-> ProvChunk("start", id)
                \o (IF kind = "gemini" THEN ProvChunk("delta", id) \o ProvChunk("end", id)
                    ELSE <<>>)]

\* Pieces for a call nobody started are dropped.
ProvOfCall(parser, t, id) ==
  [parser |-> parser,
   chunks |-> IF id \in ToSet(parser.calls) THEN ProvChunk(t, id) ELSE <<>>]

\* OpenAI's streams do not say when a call is complete: all end with the stream.
ProvEndCalls(kind, parser) ==
  IF kind \notin {"openai", "compatible"} THEN <<>>
  ELSE [i \in DOMAIN parser.calls |-> [t |-> "end", id |-> parser.calls[i]]]

\* A call written as text, by a model that knows no other way.
ProvReact(kind, parser, react) ==
  IF kind = "compatible" /\ parser.calls = <<>> /\ react
  THEN ProvChunk("start", 9) \o ProvChunk("delta", 9) \o ProvChunk("end", 9)
  ELSE <<>>

ProvEnd(kind, parser, react) ==
  [parser |-> [parser EXCEPT !.held = <<>>],
   chunks |-> ProvHeld(parser) \o ProvEndCalls(kind, parser)
                \o ProvReact(kind, parser, react) \o ProvChunk("done", 0)]

ProvHear(kind, parser, event) ==
  CASE event.t \in {"text", "think"} -> ProvFeed(kind, parser, event)
    [] event.t = "start" -> ProvStart(kind, parser, event.id)
    [] event.t = "args" -> ProvOfCall(parser, "delta", event.id)
    [] event.t = "stop" -> ProvOfCall(parser, "end", event.id)
    [] event.t = "end" -> ProvEnd(kind, parser, event.id = 9)

-----------------------------------------------------------------------------
(* The upstream: what it may send next, given the number of its calls, the  *)
(* one that is open and the pieces of text it has sent                     *)

ProvUpstream == [calls |-> 0, open |-> 0, texts |-> 0]

ProvSends(kind, up, event) ==
  CASE event.t \in {"text", "think"} ->
         event.id = up.texts + 1 /\ up.open = 0 /\ (kind = "cli" => event.t = "text" /\ up.texts = 0)
    [] event.t = "start" -> event.id = up.calls + 1 /\ up.open = 0 /\ kind # "cli"
    [] event.t = "args" ->
         /\ kind # "gemini"
         /\ IF kind \in {"openai", "compatible"} THEN event.id \in 1 .. up.calls
            ELSE event.id = up.open
    [] event.t = "stop" -> kind \in {"anthropic", "codex"} /\ event.id = up.open
    [] event.t = "end" -> up.open = 0 /\ (event.id = 9 => up.calls = 0 /\ up.texts > 0)

ProvSent(kind, up, event) ==
  CASE event.t \in {"text", "think"} -> [up EXCEPT !.texts = @ + 1]
    [] event.t = "start" ->
         [up EXCEPT !.calls = @ + 1,
                    !.open = IF kind \in {"anthropic", "codex"} THEN event.id ELSE 0]
    [] event.t = "stop" -> [up EXCEPT !.open = 0]
    [] OTHER -> up
=============================================================================
