----------------------------- MODULE ChatClients -----------------------------
(***************************************************************************)
(* What stands between the engine's stream of tokens and the user:         *)
(*   zc_openai_server.py   HTTP requests, answered at once or as a stream   *)
(*   deepseek_chat_repl.py a conversation kept as token ids                 *)
(*   chat_interface.py     a conversation kept as texts, several backends   *)
(* The engine may end its stream at any token, say so or just close.       *)
(*                                                                         *)
(* A text is a sequence of units. A token is a word; "sp", a blank; "te",  *)
(* which decodes to </think>; "tool", a block of tool calls; "eos"; the    *)
(* two halves of a character, each of which decodes to a replacement       *)
(* character alone; or a part of a stop sequence.                          *)
(***************************************************************************)
EXTENDS Integers, Sequences, FiniteSets, SequencesExt, Functions, Lists

CONSTANTS
    ShimTokens, ReplAnswers, ChatTokens,  \* what the engine may send to each
    Questions,      \* what the user may say
    StopSequence,   \* --stop-sequences, as tokens
    MaxNewTokens,   \* the largest max_tokens considered
    HistoryMessages,\* the values of --history-messages considered
    MaxTurns        \* bound: turns of a conversation

\* Texts are sequences of units, and a token is no empty text. parse_stop_sequences leaves
\* empty sequences out; no fewer than 0 messages of the history are asked for.
ASSUME ClientsAssumption ==
    /\ "" \notin ShimTokens \cup ChatTokens
    /\ \A answer \in ReplAnswers : answer \in Seq(Range(answer))
    /\ StopSequence \in Seq(Range(StopSequence)) /\ StopSequence # <<>>
    /\ HistoryMessages \subseteq Nat

VARIABLES
    chClient,   \* which of the three is run
    chShim,     \* the request that holds ENGINE_LOCK
    chRepl,     \* the state of the REPL's main loop
    chChat      \* the state of the interactive loop and its DecodeState

chVars == <<chClient, chShim, chRepl, chChat>>

NoMessage == [reasoning |-> <<>>, content |-> <<>>, tools |-> FALSE]

\* Of the request the model keeps what the engine will say to it; of the exchange, the
\* tokens that have come and what the client has been sent.
NoExchange ==
    [pc |-> "idle", stream |-> FALSE, think |-> TRUE, max |-> 1, says |-> <<>>, gen |-> <<>>,
     printed |-> <<>>, thinking |-> TRUE, sent |-> NoMessage, finish |-> "none", gone |-> FALSE]

ClientsInit ==
    /\ chClient \in {"shim", "repl", "chat"}
    /\ chShim = NoExchange
    /\ chRepl = [history |-> <<>>, transcript |-> <<>>, turn |-> 0]
    /\ \E n \in HistoryMessages :
          chChat = [pc |-> "ask", limit |-> n, history |-> <<>>, log |-> <<>>, question |-> "none",
                    tokens |-> <<>>, text |-> <<>>, mixed |-> FALSE]

---------------------------------------------------------------------------
(* Texts *)

\* Decoding joins the two halves of a character; it looks at all tokens each time.
Glyph(ids, i) ==
    CASE ids[i] = "half1" -> IF i < Len(ids) /\ ids[i + 1] = "half2" THEN "char" ELSE "broken"
      [] ids[i] = "half2" -> IF i > 1 /\ ids[i - 1] = "half1" THEN "" ELSE "broken"
      [] OTHER -> ids[i]

decode(ids) ==
    LET units == [i \in DOMAIN ids |-> Glyph(ids, i)]
    IN  Pick(units, {i \in DOMAIN units : units[i] # ""})

Places(text, unit) == {i \in DOMAIN text : text[i] = unit}
First(places) == CHOOSE i \in places : \A j \in places : i <= j
Final(places) == CHOOSE i \in places : \A j \in places : j <= i
After(text, i) == SubSeq(text, i + 1, Len(text))

\* Text without the blanks at its ends.
Strip(text) ==
    LET marks == DOMAIN text \ Places(text, "sp")
    IN  IF marks = {} THEN <<>> ELSE SubSeq(text, First(marks), Final(marks))

---------------------------------------------------------------------------
(* zc_openai_server.py. ENGINE_LOCK makes the requests one after another. *)

\* What engine_stream yields for a request: up to max tokens, the stop token at most as
\* the last. It ends early, without it, when the engine fails or the connection closes.
EngineAnswers(max) ==
    {says \in SeqOf(ShimTokens, max) : \A i \in DOMAIN says : says[i] = "eos" => i = Len(says)}

\* do_POST: a request is refused, or gets the lock; max_tokens is at least 1.
do_POST ==
    /\ chShim.pc = "idle"
    /\ \E stream, think, tools \in BOOLEAN, max \in 1 .. MaxNewTokens :
          \E says \in EngineAnswers(max) :
              chShim' = [NoExchange EXCEPT
                  !.pc = "engine", !.stream = stream /\ ~tools, !.think = think,
                  !.thinking = think, !.max = max, !.says = says]

\* parse_completion: everything before the first </think> is reasoning; a tool block
\* ends the content. Without </think> there is no reasoning.
parse_completion(text) ==
    LET ends == Places(text, "te")
        body == IF ends = {} THEN text ELSE After(text, First(ends))
        calls == Places(body, "tool")
    IN  [reasoning |-> IF ends = {} THEN <<>> ELSE Strip(SubSeq(text, 1, First(ends) - 1)),
         content |-> Strip(IF calls = {} THEN body ELSE SubSeq(body, 1, First(calls) - 1)),
         tools |-> calls # {}]

EngineSays(token) ==
    /\ chShim.pc = "engine" /\ Len(chShim.gen) < Len(chShim.says)
    /\ token = chShim.says[Len(chShim.gen) + 1]

EngineEnds ==
    /\ chShim.pc = "engine" /\ Len(chShim.gen) = Len(chShim.says)

\* _full_response collects until the end of the stream, however it comes. A message
\* with tool calls has no content.
FullAnswer(gen, max) ==
    LET parsed == parse_completion(decode(gen))
    IN  [message |-> IF parsed.tools THEN [parsed EXCEPT !.content = <<>>] ELSE parsed,
         finish |-> IF parsed.tools THEN "tool_calls"
                    ELSE IF Len(gen) < max THEN "stop" ELSE "length"]

FullToken ==
    /\ ~chShim.stream
    /\ \E token \in ShimTokens \ {"eos"} :
          EngineSays(token) /\ chShim' = [chShim EXCEPT !.gen = Append(@, token)]

FullEnd ==
    /\ ~chShim.stream
    /\ EngineEnds \/ EngineSays("eos")
    /\ LET answer == FullAnswer(chShim.gen, chShim.max)
       IN  chShim' = [chShim EXCEPT !.pc = "done", !.sent = answer.message, !.finish = answer.finish]

LeakedBoundary(printed, text) ==   \* mutant: the marker of the boundary is sent as content
    LET new == After(text, Len(printed))
        ends == Places(text, "te")
    IN  IF ~chShim.thinking THEN [reasoning |-> <<>>, content |-> new]
        ELSE IF ends = {} THEN [reasoning |-> new, content |-> <<>>]
        ELSE [reasoning |-> SubSeq(text, Len(printed) + 1, First(ends) - 1),
              content |-> After(text, First(ends) - 1)]

\* The deltas _stream_response sends for a text that has grown: up to the boundary
\* they are reasoning. A text that no longer begins with what was printed is sent
\* again from its beginning.
StreamDeltas(printed, text) ==
    LET new == After(text, Len(printed))
        ends == Places(text, "te")
    IN  IF ~chShim.thinking THEN [reasoning |-> <<>>, content |-> new]
        ELSE IF ends = {} THEN [reasoning |-> new, content |-> <<>>]
        ELSE [reasoning |-> SubSeq(text, Len(printed) + 1, First(ends) - 1),
              content |-> After(text, First(ends))]

\* The client puts the deltas together.
Joined(message, deltas) ==
    [message EXCEPT !.reasoning = @ \o deltas.reasoning, !.content = @ \o deltas.content]

StreamToken ==
    /\ chShim.stream
    /\ \E token \in ShimTokens :
          /\ EngineSays(token)
          /\ IF token = "eos" \/ (token = "te" /\ ~chShim.think)
             THEN chShim' = [chShim EXCEPT !.pc = "closing", !.finish = "stop"]
             ELSE LET gen == Append(chShim.gen, token)
                      text == decode(gen)
                      printed == IF IsPrefix(chShim.printed, text) THEN chShim.printed ELSE <<>>
                  IN  chShim' = [chShim EXCEPT !.gen = gen, !.printed = text,
                         !.sent = Joined(@, StreamDeltas(printed, text)),
                         !.thinking = @ /\ Places(text, "te") = {}]

\* engine_stream ends at Finished and at the end of the connection alike.
StreamEnd ==
    /\ chShim.stream /\ EngineEnds
    /\ chShim' = [chShim EXCEPT !.pc = "closing", !.finish = "length"]

StreamClose ==
    /\ chShim.pc = "closing"
    /\ chShim' = [chShim EXCEPT !.pc = "done"]

\* The client is gone, or the engine cannot be reached: the answer just ends.
StreamDropped ==
    /\ chShim.pc \in {"engine", "closing"}
    /\ chShim' = [chShim EXCEPT !.pc = "done", !.gone = TRUE]

NextRequest ==
    /\ chShim.pc = "done"
    /\ chShim' = NoExchange

_full_response == FullToken \/ FullEnd
_stream_response == StreamToken \/ StreamEnd \/ StreamClose

Shim ==
    /\ chClient = "shim"
    /\ do_POST \/ _full_response \/ _stream_response \/ StreamDropped \/ NextRequest
    /\ UNCHANGED <<chClient, chRepl, chChat>>

---------------------------------------------------------------------------
(* deepseek_chat_repl.py *)

\* visible_answer: what follows the last </think>, or all if nothing but blanks does.
visible_answer(ids) ==
    LET text == decode(ids)
        ends == Places(text, "te")
    IN  IF ends = {} \/ Strip(After(text, Final(ends))) = <<>> THEN Strip(text)
        ELSE Strip(After(text, Final(ends)))

\* do_turn over a history: what run_generation_streaming returns - cut short by the
\* end of the stream or by the timeout, or nothing - is appended with the question,
\* as ids to the history and as text to the transcript; without a token the turn is
\* not recorded.
do_turn(repl, question) ==
    \E answer \in ReplAnswers :
        chRepl' = IF answer = <<>> THEN repl
                  ELSE [turn |-> repl.turn + 1,
                        history |-> repl.history \o <<<<"user", question>>, <<"assistant", answer>>>>,
                        transcript |-> repl.transcript
                            \o <<<<"tu", question>>, <<"dpk", visible_answer(answer)>>>>]

Say ==
    /\ chRepl.turn < MaxTurns
    /\ \E question \in Questions : do_turn(chRepl, question)

\* /reset, and /system with its new prompt.
ResetRepl ==
    chRepl' = [history |-> <<>>, transcript |-> <<>>, turn |-> 0]

\* /regen: the last exchange leaves the transcript, the history is made again from the
\* visible texts, and the question is asked again.
Regenerate ==
    /\ chRepl.turn > 0 /\ chRepl.turn < MaxTurns /\ Len(chRepl.transcript) >= 2
    /\ LET kept == SubSeq(chRepl.transcript, 1, Len(chRepl.transcript) - 2)
           question == chRepl.transcript[Len(chRepl.transcript) - 1][2]
           Ids(entry) == IF entry[1] = "tu" THEN <<"user", entry[2]>> ELSE <<"assistant", entry[2]>>
       IN  do_turn([chRepl EXCEPT !.transcript = kept,
                                  !.history = [i \in DOMAIN kept |-> Ids(kept[i])]], question)

Repl ==
    /\ chClient = "repl"
    /\ Say \/ ResetRepl \/ Regenerate
    /\ UNCHANGED <<chClient, chShim, chChat>>

---------------------------------------------------------------------------
(* chat_interface.py *)

AskChat ==
    /\ chChat.pc = "ask" /\ Len(chChat.log) < 2 * MaxTurns
    /\ \E question \in Questions :
          chChat' = [chChat EXCEPT !.pc = "tokens", !.question = question, !.tokens = <<>>,
                                   !.text = <<>>, !.mixed = FALSE]

ResetChat ==
    /\ chChat.pc = "ask"
    /\ chChat' = [chChat EXCEPT !.history = <<>>, !.log = <<>>]

StopsIn(text) ==
    {i \in DOMAIN text : IsPrefix(StopSequence, SubSeq(text, i, Len(text)))}

BeforeStop(text) ==
    IF StopsIn(text) = {} THEN text ELSE SubSeq(text, 1, First(StopsIn(text)) - 1)

\* print_decoded_token: what is new of the decoded text, cut at a stop sequence, is
\* printed and kept; what was printed before stays.
print_decoded_token ==
    /\ chChat.pc = "tokens" /\ Len(chChat.tokens) < MaxNewTokens
    /\ \E token \in ChatTokens :
          IF token = "eos" THEN chChat' = [chChat EXCEPT !.pc = "answer"]
          ELSE LET tokens == Append(chChat.tokens, token)
                   decoded == BeforeStop(decode(tokens))
               IN  chChat' = [chChat EXCEPT !.tokens = tokens,
                      !.text = IF Len(decoded) > Len(@) THEN decoded ELSE @,
                      !.pc = IF StopsIn(decode(tokens)) = {} THEN "tokens" ELSE "answer"]

\* The engine asks this side to compute, and the answer is appended to the text though
\* no token stands for it.
HybridComputeRequest ==
    /\ chChat.pc = "tokens" /\ ~chChat.mixed
    /\ chChat' = [chChat EXCEPT !.text = Append(@, "torch"), !.mixed = TRUE]

\* "Finished", or the stream ends before it.
EndChatStream ==
    /\ chChat.pc = "tokens"
    /\ chChat' = [chChat EXCEPT !.pc = "answer"]

run_socket_generation == print_decoded_token \/ HybridComputeRequest \/ EndChatStream

\* The end of a turn; a slice of the last 0 messages is the whole history.
LastMessages(history, n) ==
    IF Len(history) > n /\ n > 0 THEN SubSeq(history, Len(history) - n + 1, Len(history))
    ELSE history

Remember ==
    /\ chChat.pc = "answer"
    /\ LET asked == <<"user", chChat.question>>
           answered == <<"assistant", chChat.text>>
       IN  chChat' = [chChat EXCEPT !.pc = "ask", !.log = @ \o <<asked, answered>>,
                          !.history = LastMessages(@ \o <<asked, answered>>, chChat.limit)]

interactive_loop ==
    /\ chClient = "chat"
    /\ AskChat \/ ResetChat \/ run_socket_generation \/ Remember
    /\ UNCHANGED <<chClient, chShim, chRepl>>

ClientsNext == Shim \/ Repl \/ interactive_loop

ClientsSpec == ClientsInit /\ [][ClientsNext]_chVars

---------------------------------------------------------------------------
(* Properties *)

\* What the request would have got at once: all that the engine says before it stops.
Generated(says) ==
    IF says # <<>> /\ says[Len(says)] = "eos" THEN SubSeq(says, 1, Len(says) - 1) ELSE says

\* The texts of a streamed answer, put together by the client, against those of the
\* answer at once. Up to the blanks at the ends, which only the stream has, they are the
\* same when the model was to think and has ended its thoughts; thoughts without an end
\* are streamed as reasoning and returned as content. A model that was not to think
\* streams content only and ends at a </think>, before which the answer at once has
\* reasoning.
TextsAgree(full) ==
    LET ended == "te" \in Range(chShim.says)
        sent == [reasoning |-> Strip(chShim.sent.reasoning), content |-> Strip(chShim.sent.content)]
    IN  /\ chShim.think /\ ended => sent.reasoning = full.reasoning /\ sent.content = full.content
        /\ chShim.think /\ ~ended => sent.reasoning = full.content /\ sent.content = full.reasoning
        /\ ~chShim.think => /\ chShim.sent.reasoning = <<>>
                            /\ sent.content = IF ended THEN full.reasoning ELSE full.content

\* The reasons to finish agree, but for a model that was not to think and says </think>,
\* which stops the stream only, and for an answer that was cut off, which the stream
\* calls "length" and the other path "stop".
FinishAgrees(full) ==
    LET early == ~chShim.think /\ "te" \in Range(chShim.says)
        cut == Len(chShim.says) < chShim.max /\ "eos" \notin Range(chShim.says)
    IN  /\ early => chShim.finish = "stop"
        /\ cut /\ ~early => chShim.finish = "length" /\ full = "stop"
        /\ ~cut /\ ~early => chShim.finish = full

\* A request gets the same answer streamed or at once: what the engine says to it makes
\* up one message (FullAnswer), and the streamed one agrees with it as above, also where
\* the stream stops before the engine does. Excepted are tool blocks, which the stream
\* shows as text, and for the texts characters that are split over two tokens, whose
\* first half the stream has shown.
StreamedIsFull ==
    chShim.pc = "done" /\ ~chShim.gone =>
        LET full == FullAnswer(Generated(chShim.says), chShim.max)
        IN  /\ ~chShim.stream => chShim.sent = full.message /\ chShim.finish = full.finish
            /\ chShim.stream /\ "tool" \notin Range(chShim.says) =>
                  /\ FinishAgrees(full.finish)
                  /\ {"half1", "half2"} \cap Range(chShim.says) = {} => TextsAgree(full.message)

\* The REPL's two records of the conversation agree: the ids the engine is sent again
\* and the texts that /save and /regen use are the same exchanges in the same order,
\* through answers cut short, answers that never came and regenerated ones.
RecordsAgree ==
    /\ Len(chRepl.history) = Len(chRepl.transcript)
    /\ \A i \in DOMAIN chRepl.history :
          IF i % 2 = 1
          THEN chRepl.history[i][1] = "user" /\ chRepl.transcript[i] = <<"tu", chRepl.history[i][2]>>
          ELSE /\ chRepl.history[i][1] = "assistant"
               /\ chRepl.transcript[i] = <<"dpk", visible_answer(chRepl.history[i][2])>>

\* What the interactive loop prints and remembers of an answer is the decoded text up
\* to the stop sequence, and at most the beginning of that sequence after it, which
\* was printed before the rest of it came. Excepted are characters that are split over
\* two tokens: the sign printed for the first half stays. What it sends again are the
\* last messages of the conversation.
AnswerIsText ==
    /\ ~chChat.mixed /\ {"half1", "half2"} \cap Range(chChat.tokens) = {} =>
          LET full == BeforeStop(decode(chChat.tokens))
          IN  /\ IsPrefix(full, chChat.text)
              /\ IsStrictPrefix(After(chChat.text, Len(full)), StopSequence)
    /\ IsSuffix(chChat.history, chChat.log)
    /\ chChat.limit > 0 => Len(chChat.history) <= chChat.limit

\* The clients keep what the engine said.
AnswersAgree == StreamedIsFull /\ RecordsAgree /\ AnswerIsText
=============================================================================
