--------------------------------- MODULE Proxy ---------------------------------
(***************************************************************************)
(* The proxy server: requests in the Anthropic, the OpenAI chat and the    *)
(* OpenAI responses protocol, answered through any of the providers, and   *)
(* batches of requests (proxy/*.ts), together with the credentials that    *)
(* two of the providers refresh before they send.                          *)
(*                                                                         *)
(* A behaviour is one request, one batch, or two senders that share a file *)
(* of credentials.  PxAnthropicKeepsText is a version of the definition    *)
(* after it with a plausible fault.                                        *)
(***************************************************************************)
EXTENDS ProviderStreams, FiniteSets

CONSTANTS
  PxMaxEvents,    \* bound: events an upstream sends before the end
  PxMaxBlocks,    \* bound: blocks of the conversation of a request
  PxMaxItems,     \* maxBatchItems
  PxConcurrent,   \* maxBatchConcurrency
  PxRefreshes     \* bound: how often the credentials expire

ASSUME PxBoundsAssumption ==
  /\ PxMaxEvents \in Nat /\ PxMaxBlocks \in Nat /\ PxMaxItems \in Nat
  /\ PxConcurrent \in Nat /\ PxRefreshes \in Nat

VARIABLES
  pxRequest,   \* the request: its protocol, the provider, and how far it is
  pxHeard,     \* the events of the upstream that the parser has seen
  pxWire,      \* the mapper of the answer, with the events it has given out
  pxBatch,     \* the batch
  pxKeys       \* the file of credentials, the authorization server, and the senders

pxVars == <<pxRequest, pxHeard, pxWire, pxBatch, pxKeys>>

PxProtocols == {"messages", "chat", "responses"}
PxSenders == {1, 2}

PxNoBatch == [phase |-> "none", items |-> <<>>]

PxFreshKeys ==
  [file |-> [refresh |-> 1, expired |-> FALSE], current |-> 1, expiries |-> 0,
   sender |-> [s \in PxSenders |-> [phase |-> "idle", refresh |-> 0]],
   overlap |-> FALSE, unsaved |-> FALSE]

\* open: the index of the open block of text or item, or -1; calls: the indexes of the calls;
\* text: what an answer without a stream has of text.
PxMapper ==
  [next |-> 0, open |-> -1, calls |-> [id \in {} |-> 0], text |-> <<>>, events |-> <<>>]

PxInit ==
  /\ pxRequest = [phase |-> "none"]
  /\ pxHeard = <<>>
  /\ pxWire = PxMapper
  /\ pxBatch = PxNoBatch
  /\ pxKeys = PxFreshKeys

-----------------------------------------------------------------------------
(* A request comes in *)

PxBlocks == ProvSpoken \X (1 .. PxMaxBlocks)

\* The conversation as the client has it: the text and the calls of the assistant, the
\* results and the text of the user; every result after its call.
PxConversations ==
  LET Before(seq, i, block) == \E j \in 1 .. i - 1 : seq[j] = block IN
  {seq \in UNION {[1 .. n -> PxBlocks] : n \in 0 .. PxMaxBlocks} :
     /\ \A i, j \in DOMAIN seq : i # j => seq[i] # seq[j]
     /\ \A i \in DOMAIN seq : seq[i][1] = "result" => Before(seq, i, <<"call", seq[i][2]>>)}

\* Every other text is one of the assistant's.
PxRole(block) ==
  IF block[1] = "call" \/ (block[1] = "text" /\ block[2] % 2 = 1) THEN "assistant" ELSE "user"

PxAppendTo(messages, block) ==
  [messages EXCEPT ![Len(messages)].blocks = Append(@, block)]

\* In the OpenAI protocols a message of text is one of its own; results join the results
\* before them.
PxMayJoin(protocol, last, block) ==
  \/ protocol = "messages" \/ block[1] = "call"
  \/ block[1] = "result" /\ last[1] = "result"

PxTake(protocol, messages, block) ==
  IF /\ messages # <<>> /\ Last(messages).role = PxRole(block)
     /\ PxMayJoin(protocol, Last(Last(messages).blocks), block)
  THEN PxAppendTo(messages, block)
  ELSE Append(messages, [role |-> PxRole(block), blocks |-> <<block>>])

\* toChatRequest of the three mappers.
PxToChatRequest(protocol, conversation) ==
  LET messages[n \in 0 .. Len(conversation)] ==
        IF n = 0 THEN <<>> ELSE PxTake(protocol, messages[n - 1], conversation[n]) IN
  messages[Len(conversation)]

\* What the gates before a provider look at.
PxGate(request) ==
  CASE ~ request.authorized -> "unauthorized"
    [] ~ request.json -> "internal_error"
    [] ~ request.tools -> "unsupported_hosted_tool"
    [] request.human = "return" /\ request.hosted -> "human_input_required"
    [] request.human # "none" -> "unsupported_human_input_mode"
    [] request.stream /\ ~ ProvSupportsStreaming(request.via) -> "unsupported_provider_streaming"
    [] OTHER -> "ok"

PxRefused ==
  /\ pxRequest.phase = "none" /\ pxBatch.phase = "none" /\ pxKeys = PxFreshKeys
  /\ \E authorized, json, tools, hosted, stream \in BOOLEAN,
        human \in {"none", "return", "forbid", "invalid"}, via \in ProvKinds :
       LET request == [authorized |-> authorized, json |-> json, tools |-> tools,
                       hosted |-> hosted, stream |-> stream, human |-> human, via |-> via] IN
       /\ PxGate(request) # "ok"
       /\ pxRequest' = [phase |-> "refused", with |-> PxGate(request)]
  /\ UNCHANGED <<pxHeard, pxWire, pxBatch, pxKeys>>

\* The conversation goes to the provider that pickProvider finds.
PxAccepted ==
  /\ pxRequest.phase = "none" /\ pxBatch.phase = "none" /\ pxKeys = PxFreshKeys
  /\ \E protocol \in PxProtocols, via \in ProvKinds, stream \in BOOLEAN,
        conversation \in PxConversations :
       /\ stream => ProvSupportsStreaming(via)
       /\ pxRequest' = [phase |-> "converted", protocol |-> protocol, via |-> via,
                        stream |-> stream, conversation |-> conversation,
                        sent |-> ProvConvert(via, PxToChatRequest(protocol, conversation))]
  /\ UNCHANGED <<pxHeard, pxWire, pxBatch, pxKeys>>

\* What was said before plays no part in what is answered.
PxSend ==
  /\ pxRequest.phase = "converted" /\ pxRequest.conversation = <<>>
  /\ pxRequest' = [phase |-> "open", protocol |-> pxRequest.protocol, via |-> pxRequest.via,
                   stream |-> pxRequest.stream,
                   up |-> ProvUpstream, parser |-> ProvParser]
  /\ UNCHANGED <<pxHeard, pxWire, pxBatch, pxKeys>>

-----------------------------------------------------------------------------
(* The answer, chunk by chunk *)

PxEvent(ev, at, id) == [ev |-> ev, at |-> at, id |-> id]

PxEmit(mapper, events) == [mapper EXCEPT !.events = @ \o events]

\* The block of text that is open, and the next index.
PxMove(mapper, open, next) == [mapper EXCEPT !.open = open, !.next = next]

\* The text of an answer without a stream is kept apart.
PxSay(mapper, event) == [mapper EXCEPT !.text = Append(@, event)]

PxKnows(mapper, id) == id \in DOMAIN mapper.calls

PxWithCall(mapper, id, at) ==
  [mapper EXCEPT !.calls = [x \in DOMAIN @ \cup {id} |-> IF x = id THEN at ELSE @[x]]]

\* As if the open block of text were left open when a call starts.
PxAnthropicKeepsText(mapper, chunk) ==
  CASE chunk.t = "text" ->
         IF mapper.open = -1
         THEN PxEmit(PxMove(mapper, mapper.next, mapper.next + 1),
                     <<PxEvent("open", mapper.next, 0), PxEvent("text", mapper.next, chunk.id)>>)
         ELSE PxEmit(mapper, <<PxEvent("text", mapper.open, chunk.id)>>)
    [] chunk.t = "start" ->
         PxEmit(PxMove(PxWithCall(mapper, chunk.id, mapper.next), -1, mapper.next + 1),
                <<PxEvent("open", mapper.next, chunk.id)>>)
    [] chunk.t = "delta" /\ PxKnows(mapper, chunk.id) ->
         PxEmit(mapper, <<PxEvent("args", mapper.calls[chunk.id], chunk.id)>>)
    [] chunk.t = "end" /\ PxKnows(mapper, chunk.id) ->
         PxEmit(mapper, <<PxEvent("close", mapper.calls[chunk.id], chunk.id)>>)
    [] OTHER -> mapper

\* toAnthropicSseEvents: blocks with indexes; a call closes the block of text.
PxAnthropic(mapper, chunk) ==
  CASE chunk.t = "text" ->
         IF mapper.open = -1
         THEN PxEmit(PxMove(mapper, mapper.next, mapper.next + 1),
                     <<PxEvent("open", mapper.next, 0), PxEvent("text", mapper.next, chunk.id)>>)
         ELSE PxEmit(mapper, <<PxEvent("text", mapper.open, chunk.id)>>)
    [] chunk.t = "start" ->
         PxEmit(PxMove(PxWithCall(mapper, chunk.id, mapper.next), -1, mapper.next + 1),
                (IF mapper.open = -1 THEN <<>> ELSE <<PxEvent("close", mapper.open, 0)>>)
                  \o <<PxEvent("open", mapper.next, chunk.id)>>)
    [] chunk.t = "delta" /\ PxKnows(mapper, chunk.id) ->
         PxEmit(mapper, <<PxEvent("args", mapper.calls[chunk.id], chunk.id)>>)
    [] chunk.t = "end" /\ PxKnows(mapper, chunk.id) ->
         PxEmit(mapper, <<PxEvent("close", mapper.calls[chunk.id], chunk.id)>>)
    [] OTHER -> mapper

\* toOpenAiChatSseChunks: calls are numbered, and nothing is ever closed.
PxChat(mapper, chunk) ==
  CASE chunk.t = "text" -> PxEmit(mapper, <<PxEvent("text", 0, chunk.id)>>)
    [] chunk.t = "start" ->
         LET at == Cardinality(DOMAIN mapper.calls) IN
         PxEmit(PxWithCall(mapper, chunk.id, at), <<PxEvent("open", at, chunk.id)>>)
    [] chunk.t = "delta" /\ PxKnows(mapper, chunk.id) ->
         PxEmit(mapper, <<PxEvent("args", mapper.calls[chunk.id], chunk.id)>>)
    [] OTHER -> mapper

\* toResponsesSseEvents: the output index only moves when an item is done.
PxResponses(mapper, chunk) ==
  CASE chunk.t = "text" ->
         PxEmit(PxMove(mapper, 0, mapper.next),
                (IF mapper.open = -1 THEN <<PxEvent("open", mapper.next, 0)>> ELSE <<>>)
                  \o <<PxEvent("text", mapper.next, chunk.id)>>)
    [] chunk.t = "start" ->
         LET closes == mapper.open # -1
             at == IF closes THEN mapper.next + 1 ELSE mapper.next IN
         PxEmit(PxMove(PxWithCall(mapper, chunk.id, at), -1, at),
                (IF closes THEN <<PxEvent("close", mapper.next, 0)>> ELSE <<>>)
                  \o <<PxEvent("open", at, chunk.id)>>)
    [] chunk.t = "delta" /\ PxKnows(mapper, chunk.id) ->
         PxEmit(mapper, <<PxEvent("args", mapper.calls[chunk.id], chunk.id)>>)
    [] chunk.t = "end" /\ PxKnows(mapper, chunk.id) ->
         LET at == mapper.calls[chunk.id] IN
         PxEmit(PxMove(mapper, mapper.open, IF mapper.next > at THEN mapper.next ELSE at + 1),
                <<PxEvent("close", at, chunk.id)>>)
    [] OTHER -> mapper

\* buildNonStreamingResponse: the text apart; calls by their id, or numbered.
PxCollect(protocol, mapper, chunk) ==
  CASE chunk.t = "text" -> PxSay(mapper, PxEvent("text", 0, chunk.id))
    [] chunk.t = "start" ->
         LET at == IF protocol = "messages" THEN chunk.id ELSE Cardinality(DOMAIN mapper.calls) IN
         PxEmit(PxWithCall(mapper, chunk.id, at), <<PxEvent("open", at, chunk.id)>>)
    [] chunk.t = "delta" /\ PxKnows(mapper, chunk.id) ->
         PxEmit(mapper, <<PxEvent("args", mapper.calls[chunk.id], chunk.id)>>)
    [] OTHER -> mapper

\* The body: the text as one, and then the calls.
PxBody(mapper) == [mapper EXCEPT !.events = mapper.text \o @]

PxMap(request, mapper, chunk) ==
  IF ~ request.stream THEN PxCollect(request.protocol, mapper, chunk)
  ELSE CASE request.protocol = "messages" -> PxAnthropic(mapper, chunk)
         [] request.protocol = "chat" -> PxChat(mapper, chunk)
         [] request.protocol = "responses" -> PxResponses(mapper, chunk)

\* One chunk after the other.
PxMapAll(request, mapper, chunks) ==
  LET after[n \in 0 .. Len(chunks)] ==
        IF n = 0 THEN mapper ELSE PxMap(request, after[n - 1], chunks[n]) IN
  after[Len(chunks)]

\* After the last chunk.
PxLast(request, mapper) ==
  PxEmit(IF request.stream THEN mapper ELSE PxBody(mapper),
         (IF request.stream /\ request.protocol # "chat" /\ mapper.open # -1
          THEN <<PxEvent("close", IF request.protocol = "messages" THEN mapper.open
                                  ELSE mapper.next, 0)>>
          ELSE <<>>)
         \o <<PxEvent("end", 0, 0)>>)

PxEvents ==
  {[t |-> t, id |-> id] : t \in {"text", "think", "start", "args", "stop"}, id \in 1 .. PxMaxEvents}

\* The upstream sends; a read that ends inside an event makes the Codex parser lose it.
PxUpstreamSends ==
  /\ pxRequest.phase = "open" /\ Len(pxHeard) < PxMaxEvents
  /\ pxRequest.up.calls + pxRequest.up.texts < PxMaxEvents
  /\ \E event \in PxEvents, heard \in BOOLEAN :
       LET after == ProvHear(pxRequest.via, pxRequest.parser, event) IN
       /\ ProvSends(pxRequest.via, pxRequest.up, event)
       /\ heard \/ (pxRequest.via = "codex" /\ event.t # "args")
       /\ pxRequest' = [pxRequest EXCEPT
                          !.up = ProvSent(pxRequest.via, @, event),
                          !.parser = IF heard THEN after.parser ELSE @]
       /\ pxHeard' = IF heard THEN Append(pxHeard, event) ELSE pxHeard
       /\ pxWire' = IF heard THEN PxMapAll(pxRequest, pxWire, after.chunks) ELSE pxWire
  /\ UNCHANGED <<pxBatch, pxKeys>>

PxUpstreamEnds ==
  /\ pxRequest.phase = "open"
  /\ \E react \in BOOLEAN :
       LET event == [t |-> "end", id |-> IF react THEN 9 ELSE 0]
           after == ProvHear(pxRequest.via, pxRequest.parser, event) IN
       /\ ProvSends(pxRequest.via, pxRequest.up, event)
       /\ react => pxRequest.via = "compatible"
       /\ pxHeard' = Append(pxHeard, event)
       /\ pxWire' = PxLast(pxRequest, PxMapAll(pxRequest, pxWire, after.chunks))
       /\ pxRequest' = [pxRequest EXCEPT !.phase = "answered", !.parser = after.parser]
  /\ UNCHANGED <<pxBatch, pxKeys>>

\* An error ends a stream with an event of its own; without a stream nothing has been
\* written yet, and the answer is the error.
PxUpstreamFails ==
  /\ pxRequest.phase = "open"
  /\ pxRequest' = [pxRequest EXCEPT !.phase = "failed"]
  /\ pxWire' = IF pxRequest.stream THEN PxEmit(pxWire, <<PxEvent("error", 0, 0)>>)
               ELSE PxEmit(PxMapper, <<PxEvent("error", 0, 0)>>)
  /\ UNCHANGED <<pxHeard, pxBatch, pxKeys>>

\* The client goes: what is still written goes nowhere, though the provider is read on.
PxClientLeaves ==
  /\ pxRequest.phase = "open" /\ pxRequest.stream
  /\ pxRequest' = [pxRequest EXCEPT !.phase = "left"]
  /\ UNCHANGED <<pxHeard, pxWire, pxBatch, pxKeys>>

-----------------------------------------------------------------------------
(* A batch.  An item may be fine, one that asks for a stream, one no        *)
(* request can be made of, or one whose answer is a stream without end.    *)

PxItems == {"fine", "stream", "malformed", "endless"}

PxBatchComes ==
  /\ pxRequest.phase = "none" /\ pxBatch.phase = "none" /\ pxKeys = PxFreshKeys
  /\ \E n \in 1 .. PxMaxItems + 1 : \E items \in [1 .. n -> PxItems] :
       pxBatch' = [phase |-> IF n > PxMaxItems THEN "batch_limit_exceeded" ELSE "runs",
                   items |-> items, next |-> 1,
                   workers |-> IF n < PxConcurrent THEN n ELSE PxConcurrent,
                   at |-> [i \in 1 .. n |-> "waits"],
                   result |-> [i \in 1 .. n |-> "none"], fate |-> [i \in 1 .. n |-> "none"]]
  /\ UNCHANGED <<pxRequest, pxHeard, pxWire, pxKeys>>

PxRunning == {i \in DOMAIN pxBatch.items : pxBatch.at[i] \in {"runs", "reads"}}

\* The workers share the index of the next item.  An item that no request can be made of
\* makes its worker fail, and the batch with it, while the other workers go on.
PxWorkerTakes ==
  /\ pxBatch.phase \in {"runs", "internal_error"}
  /\ Cardinality(PxRunning) < pxBatch.workers
  /\ pxBatch.next <= Len(pxBatch.items)
  /\ LET i == pxBatch.next  item == pxBatch.items[i] IN
     pxBatch' =
       [pxBatch EXCEPT
          !.next = @ + 1,
          !.at[i] = IF item \in {"fine", "endless"} THEN "runs" ELSE "done",
          !.result[i] = IF item = "stream" THEN "unsupported_batch_streaming" ELSE @,
          !.fate[i] = IF item = "stream" THEN "refused" ELSE @,
          !.workers = IF item = "malformed" THEN @ - 1 ELSE @,
          !.phase = IF item = "malformed" THEN "internal_error" ELSE @]
  /\ UNCHANGED <<pxRequest, pxHeard, pxWire, pxKeys>>

\* The answer wins the race; its body is then read without a time limit.
PxItemAnswers ==
  /\ pxBatch.phase # "none"
  /\ \E i \in PxRunning :
       /\ pxBatch.at[i] = "runs"
       /\ pxBatch' = IF pxBatch.items[i] = "endless"
                     THEN [pxBatch EXCEPT !.at[i] = "reads"]
                     ELSE [pxBatch EXCEPT !.at[i] = "done", !.result[i] = "answer",
                                          !.fate[i] = "answered"]
  /\ UNCHANGED <<pxRequest, pxHeard, pxWire, pxKeys>>

\* The timer wins; what the item answers later goes nowhere.
PxItemTimer ==
  /\ pxBatch.phase # "none"
  /\ \E i \in PxRunning :
       /\ pxBatch.at[i] = "runs"
       /\ pxBatch' = [pxBatch EXCEPT !.at[i] = "late", !.result[i] = "batch_item_timeout",
                                     !.fate[i] = "timed out"]
  /\ UNCHANGED <<pxRequest, pxHeard, pxWire, pxKeys>>

PxLateAnswer ==
  /\ pxBatch.phase # "none"
  /\ \E i \in DOMAIN pxBatch.items :
       /\ pxBatch.at[i] = "late"
       /\ pxBatch' = [pxBatch EXCEPT !.at[i] = "done"]
  /\ UNCHANGED <<pxRequest, pxHeard, pxWire, pxKeys>>

PxBatchAnswered ==
  /\ pxBatch.phase = "runs"
  /\ pxBatch.next > Len(pxBatch.items) /\ PxRunning = {}
  /\ pxBatch' = [pxBatch EXCEPT !.phase = "answered"]
  /\ UNCHANGED <<pxRequest, pxHeard, pxWire, pxKeys>>

-----------------------------------------------------------------------------
(* Credentials.  A sender reads the file before each request; if the token  *)
(* is about to expire it asks for another one, with the refresh token that *)
(* it read, and writes both back.  The server may issue a new refresh      *)
(* token, and then takes the old one no more.                              *)

PxSenderAt(s, phase) == pxKeys.sender[s].phase = phase

PxExpires ==
  /\ pxRequest.phase = "none" /\ pxBatch.phase = "none"
  /\ pxKeys.expiries < PxRefreshes /\ ~ pxKeys.file.expired
  /\ pxKeys' = [pxKeys EXCEPT !.expiries = @ + 1, !.file.expired = TRUE]
  /\ UNCHANGED <<pxRequest, pxHeard, pxWire, pxBatch>>

PxLoads ==
  /\ pxKeys.expiries > 0
  /\ \E s \in PxSenders :
       /\ PxSenderAt(s, "idle")
       /\ pxKeys' =
            [pxKeys EXCEPT
               !.sender[s] = [phase |-> IF pxKeys.file.expired THEN "asks" ELSE "idle",
                              refresh |-> IF pxKeys.file.expired THEN pxKeys.file.refresh ELSE 0],
               !.overlap = @ \/ (pxKeys.file.expired
                                   /\ \E r \in PxSenders : ~ PxSenderAt(r, "idle"))]
  /\ UNCHANGED <<pxRequest, pxHeard, pxWire, pxBatch>>

\* The answer of the server: refused, the same refresh token still good, or a new one.
PxRefreshed ==
  /\ pxKeys.expiries > 0
  /\ \E s \in PxSenders :
       /\ PxSenderAt(s, "asks")
       /\ IF pxKeys.sender[s].refresh # pxKeys.current
          THEN pxKeys' = [pxKeys EXCEPT !.sender[s].phase = "idle", !.sender[s].refresh = 0]
          ELSE \E rotates \in BOOLEAN :
                 LET given == IF rotates THEN pxKeys.current + 1 ELSE pxKeys.current IN
                 pxKeys' = [pxKeys EXCEPT !.current = given,
                                          !.sender[s] = [phase |-> "saves", refresh |-> given]]
  /\ UNCHANGED <<pxRequest, pxHeard, pxWire, pxBatch>>

PxSavedFile(file, refresh) == [refresh |-> refresh, expired |-> FALSE]

\* A failure to write is reported and otherwise ignored.
PxSaves ==
  /\ pxKeys.expiries > 0
  /\ \E s \in PxSenders, ok \in BOOLEAN :
       /\ PxSenderAt(s, "saves")
       /\ pxKeys' = [pxKeys EXCEPT
                       !.file = IF ok THEN PxSavedFile(@, pxKeys.sender[s].refresh) ELSE @,
                       !.unsaved = @ \/ ~ ok,
                       !.sender[s] = [phase |-> "idle", refresh |-> 0]]
  /\ UNCHANGED <<pxRequest, pxHeard, pxWire, pxBatch>>

PxNext ==
  \/ PxRefused \/ PxAccepted \/ PxSend
  \/ PxUpstreamSends \/ PxUpstreamEnds \/ PxUpstreamFails \/ PxClientLeaves
  \/ PxBatchComes \/ PxWorkerTakes \/ PxItemAnswers \/ PxItemTimer \/ PxLateAnswer
  \/ PxBatchAnswered
  \/ PxExpires \/ PxLoads \/ PxRefreshed \/ PxSaves

PxSpec == PxInit /\ [][PxNext]_pxVars

-----------------------------------------------------------------------------
(* Properties *)

PxPositions(seq, Test(_)) == {i \in DOMAIN seq : Test(seq[i])}

\* What reaches the provider has every block of the conversation once, and no result
\* before its call.
PxNothingLost ==
  pxRequest.phase = "converted" =>
    /\ ToSet(pxRequest.sent) = ToSet(pxRequest.conversation)
    /\ Len(pxRequest.sent) = Len(pxRequest.conversation)
    /\ \A i, j \in DOMAIN pxRequest.sent :
         pxRequest.sent[i][1] = "call" /\ pxRequest.sent[j] = <<"result", pxRequest.sent[i][2]>>
           => i < j

\* The calls of which the parser has heard the whole: with Codex, their end too.
PxWholeCalls ==
  {pxHeard[i].id : i \in PxPositions(pxHeard, LAMBDA e : e.t = "start")}
    \cap (IF pxRequest.via \in {"anthropic", "codex"}
          THEN {pxHeard[i].id : i \in PxPositions(pxHeard, LAMBDA e : e.t = "stop")}
          ELSE 1 .. PxMaxEvents)

PxWireOf(ev, id) ==
  PxPositions(pxWire.events, LAMBDA e : e.ev = ev /\ e.id = id)

\* A stream that ends well tells all of the texts, each once and in the order of their
\* numbers, which is that in which they came, and each call once, with all the
\* pieces of its arguments between its start and its end, and closes everything it opened,
\* before its one last event.
PxStreamWhole ==
  pxRequest.phase = "answered" =>
    LET wire == pxWire.events
        told == PxPositions(wire, LAMBDA e : e.ev = "text")
        heard == PxPositions(pxHeard, LAMBDA e : e.t = "text") IN
    /\ PxPositions(wire, LAMBDA e : e.ev \in {"end", "error"}) = {Len(wire)}
    /\ {wire[i].id : i \in told} = {pxHeard[i].id : i \in heard}
    /\ \A i, j \in told : i < j => wire[i].id < wire[j].id
    /\ \A id \in PxWholeCalls :
         /\ Cardinality(PxWireOf("open", id)) = 1
         /\ pxRequest.via # "gemini" =>
              Cardinality(PxWireOf("args", id))
                = Cardinality(PxPositions(pxHeard, LAMBDA e : e.t = "args" /\ e.id = id))
         /\ \A i \in PxWireOf("open", id), j \in PxWireOf("args", id) : i < j
         /\ pxRequest.stream /\ pxRequest.protocol # "chat" =>
              /\ Cardinality(PxWireOf("close", id)) = 1
              /\ \A i \in PxWireOf("args", id), j \in PxWireOf("close", id) : i < j
    /\ Cardinality(PxWireOf("open", 0)) = Cardinality(PxWireOf("close", 0))

\* In the protocols whose clients go by it, no two blocks share an index.
PxIndexesDiffer ==
  pxRequest.phase = "answered" /\ pxRequest.stream /\ pxRequest.protocol # "responses" =>
    \A i, j \in PxPositions(pxWire.events, LAMBDA e : e.ev = "open") :
      pxWire.events[i].at = pxWire.events[j].at => i = j

\* A batch that is answered has for each of its items what became of that item first, and
\* no more than PxConcurrent of them ever run at a time.
PxBatchWhole ==
  pxBatch.phase # "none" =>
    /\ Cardinality(PxRunning) <= PxConcurrent
    /\ pxBatch.phase = "answered" =>
         \A i \in DOMAIN pxBatch.items :
           pxBatch.result[i] = CASE pxBatch.fate[i] = "answered" -> "answer"
                                 [] pxBatch.fate[i] = "timed out" -> "batch_item_timeout"
                                 [] pxBatch.fate[i] = "refused" -> "unsupported_batch_streaming"

\* Unless two senders asked at the same time or a token could not be written, the refresh
\* token in the file is the one the server takes.
PxKeysGood ==
  (\A s \in PxSenders : PxSenderAt(s, "idle")) /\ ~ pxKeys.overlap /\ ~ pxKeys.unsaved =>
    pxKeys.file.refresh = pxKeys.current

\* The proxy passes on what it was given: conversations without loss (mapper-*.ts,
\* convertMessages of the providers), answers in the order and the nesting their protocol
\* asks for (toAnthropicSseEvents and its siblings), one result for each item of a batch
\* (server.ts:441), with credentials that stay good (codex-auth.ts:260).  Arguments that
\* come with the name of a call, and what a Codex stream loses, are not counted.
ProxyPassesOn ==
  PxNothingLost /\ PxStreamWhole /\ PxIndexesDiffer /\ PxBatchWhole /\ PxKeysGood
=============================================================================
