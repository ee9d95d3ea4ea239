------------------------------- MODULE Dialects -------------------------------
(* gateway/openai.rs, gateway/anthropic.rs and the conversions of server.rs:    *)
(* one request of either dialect is read, its tools are trimmed to the model,   *)
(* and the answer goes back whole or as a stream of events. How text is told    *)
(* from a call is ToolStream's; here an answer is a sequence of pieces, each    *)
(* a run of prose, prose that opens like a call (a fenced sample) or a call.    *)
EXTENDS Integers, Sequences, FiniteSets, SequencesExt

CONSTANTS
    ToolLists,   \* sequences of tools: the tokens each schema takes
    Talks,       \* tokens of the conversation
    Replies,     \* max_tokens of a request
    Contexts,    \* context lengths of the loaded model; 0 is not known
    Margin,      \* FIT_MARGIN_TOKENS
    MaxPieces    \* bound: pieces of an answer

Pieces == {"prose", "fence", "call"}

\* What the parser keeps of the prose of an answer with calls: that around tags and
\* fences, that before a marker, none of one with elements or a bare object.
Formats == {"around", "before", "none"}
Reasons == {"stop", "length", "cancelled"}

VARIABLES
    req,      \* [dialect, stream, tools, none, talk, reply, format, blank]: none is
              \* tool_choice "none"; the answer's format, and whether it begins with blanks
    kept,     \* params.tools after trimming
    phase,    \* "new", "peek", "collect", "stream", "tail" or "done"
    output,   \* the pieces generated so far
    reason,   \* how the generation ended, as the stream recorded it
    calls,    \* calls recorded for the tail of an Anthropic stream
    events    \* what the client has been sent: a response or events

dialectVars == <<req, kept, phase, output, reason, calls, events>>

Event(kind, index, body) == [kind |-> kind, index |-> index, body |-> body]
Prose(pieces) == Cardinality({i \in DOMAIN pieces : pieces[i] # "call"})
Calls(pieces) == Cardinality({i \in DOMAIN pieces : pieces[i] = "call"})
Sum(costs) == FoldLeft(LAMBDA a, b : a + b, 0, costs)

----------------------------------------------------------------------------
(* The request.                                                                *)

\* fit_tools_to_context: the longest beginning of the list that leaves room for the
\* conversation, the reply and the margin; none when these alone do not fit.
Fitting(r, context) ==
    IF context = 0 THEN r.tools
    ELSE LET reserved == r.talk + r.reply + Margin
             fits == {n \in 0..Len(r.tools) : reserved + Sum(SubSeq(r.tools, 1, n)) <= context}
         IN IF fits = {} THEN <<>> ELSE SubSeq(r.tools, 1, CHOOSE n \in fits : \A m \in fits : m <= n)

\* to_generation_params: tool_choice "none" withholds the tools.
Offered(r) == IF r.none THEN [r EXCEPT !.tools = <<>>] ELSE r

Requests == [dialect : {"openai", "anthropic"}, stream : BOOLEAN, tools : ToolLists,
             none : BOOLEAN, talk : Talks, reply : Replies, format : Formats, blank : BOOLEAN]

DialectInit ==
    /\ req \in Requests
    /\ kept = <<>> /\ phase = "new" /\ output = <<>>
    /\ reason = "stop" /\ calls = 0 /\ events = <<>>

\* The handler up to submit: 503 without a model.
Receive ==
    /\ phase = "new"
    /\ \/ /\ events' = <<Event("unavailable", 0, "")>> /\ phase' = "done" /\ UNCHANGED kept
       \/ /\ \E context \in Contexts : kept' = Fitting(Offered(req), context)
          /\ phase' = (IF req.stream THEN "peek" ELSE "collect") /\ UNCHANGED events
    /\ UNCHANGED <<req, output, reason, calls>>

----------------------------------------------------------------------------
(* The whole answer.                                                           *)

\* parse: how much of the prose it keeps; without a call, all of it.
Keeps(pieces) ==
    CASE Calls(pieces) = 0 \/ req.format = "around" -> Prose(pieces)
      [] req.format = "before" /\ Calls(pieces) > 0 ->
           Cardinality({i \in DOMAIN pieces : \A j \in 1..i : pieces[j] # "call"})
      [] OTHER -> 0

\* ChatCompletionResponse::new and MessagesResponse::new: the answer is parsed
\* whatever tools were offered; an Anthropic reply has at least one block.
Buffered(pieces) ==
    LET text == IF Keeps(pieces) = 0 THEN <<>> ELSE <<Event("text", 0, "prose")>>
        from == Len(text)
        used == [i \in 1..Calls(pieces) |-> Event("tool", from + i - 1, "")]
    IN IF text \o used = <<>> THEN <<Event("text", 0, "")>> ELSE text \o used

\* map_stop_reason and ParsedCompletion::finish_reason.
Closing(dialect, found, natural) ==
    IF found > 0 THEN IF dialect = "openai" THEN "tool_calls" ELSE "tool_use"
    ELSE IF dialect = "openai" THEN natural
    ELSE CASE natural = "length" -> "max_tokens"
           [] natural = "cancelled" -> "stop_sequence"
           [] OTHER -> "end_turn"

Collected(piece) ==
    /\ phase = "collect" /\ Len(output) < MaxPieces
    /\ output' = Append(output, piece)
    /\ UNCHANGED <<req, kept, phase, reason, calls, events>>

\* collect returns: a failure is an HTTP error, anything else the response.
Respond ==
    /\ phase = "collect" /\ phase' = "done"
    /\ \/ events' = <<Event("status", 0, "")>> /\ UNCHANGED reason
       \/ \E why \in Reasons :
            /\ reason' = Closing(req.dialect, Calls(output), why)
            /\ events' = Buffered(output)
    /\ UNCHANGED <<req, kept, output, calls>>

----------------------------------------------------------------------------
(* The stream.                                                                 *)

Sends(more) == events' = events \o more

\* peek: a failure before any chunk is an HTTP error; after the first chunk, or
\* when the budget is spent, the head goes out.
Peek ==
    /\ phase = "peek"
    /\ \/ phase' = "done" /\ events' = <<Event("status", 0, "")>>
       \/ /\ phase' = "stream"
          /\ Sends(IF req.dialect = "openai" THEN <<Event("opening", 0, "")>>
                   ELSE <<Event("message_start", 0, ""), Event("block_start", 0, "text")>>)
    /\ UNCHANGED <<req, kept, output, reason, calls>>

\* The client's own list, not the trimmed one, chooses the stream.
Sieved == req.tools # <<>>

\* What an opener stands in.
Opened(pieces) == \E i \in DOMAIN pieces : pieces[i] # "prose"

\* A chunk of text: without a sieve it goes out as it is; with one, until an opener.
Text(piece) ==
    /\ phase = "stream" /\ Len(output) < MaxPieces
    /\ output' = Append(output, piece)
    /\ Sends(IF Sieved /\ Opened(output') THEN <<>>
             ELSE <<Event("delta", 0, IF piece = "call" THEN "call" ELSE "prose")>>)
    /\ UNCHANGED <<req, kept, phase, reason, calls>>

\* Mutant of Owed: what was withheld is not sent.
OwedNothing == {<<>>}

\* StreamSieve::finish: what the parser kept past what was streamed, if the text kept
\* begins with that. A format that keeps less has nothing more to send; blanks the
\* answer began with are streamed and trimmed off the text, and then nothing is sent,
\* unless an opener came with them.
Owed ==
    LET sent == Cardinality({i \in DOMAIN events : events[i].kind = "delta"})
        rest == [i \in 1..(Keeps(output) - sent) |-> Event("delta", 0, "prose")]
    IN {rest} \cup (IF req.blank /\ Calls(output) > 0 THEN {<<>>} ELSE {})

\* The final chunk. OpenAI closes here; Anthropic leaves its closing to the tail.
Final(why) ==
    /\ phase = "stream" /\ phase' = "tail"
    /\ \E rest \in IF Sieved THEN Owed ELSE {<<>>} :
       LET found == IF Sieved THEN Calls(output) ELSE 0
           closing == Closing(req.dialect, found, why)
           whole == [i \in 1..found |-> Event("tool", i - 1, "")]
       IN /\ reason' = closing
          /\ calls' = IF req.dialect = "anthropic" THEN found ELSE 0
          /\ Sends(IF req.dialect = "openai" THEN rest \o whole \o <<Event("closing", 0, closing)>> ELSE rest)
    /\ UNCHANGED <<req, kept, output>>

\* A failure past the point where a status was still possible.
Failure ==
    /\ phase = "stream" /\ phase' = "tail"
    /\ reason' = "error" /\ Sends(<<Event("error", 0, "")>>)
    /\ UNCHANGED <<req, kept, output, calls>>

\* The worker is gone: the channel ends without a final chunk.
Cut ==
    /\ phase = "stream" /\ phase' = "tail"
    /\ UNCHANGED <<req, kept, output, reason, calls, events>>

\* The three events of a call.
Block(index) ==
    <<Event("block_start", index, "tool"), Event("delta", index, "input"), Event("block_stop", index, "")>>

\* Mutant of ToolBlocks: the tools are numbered from the text block's index.
ToolBlocksFromZero == [k \in 1..(3 * calls) |-> Block((k - 1) \div 3)[((k - 1) % 3) + 1]]

\* Each call is a block of its own, after the text block.
ToolBlocks == [k \in 1..(3 * calls) |-> Block((k + 2) \div 3)[((k - 1) % 3) + 1]]

\* What ends a stream, whatever came before.
Finish ==
    /\ phase = "tail" /\ phase' = "done"
    /\ Sends(IF req.dialect = "openai" THEN <<Event("DONE", 0, "")>>
             ELSE <<Event("block_stop", 0, "")>> \o ToolBlocks
                  \o <<Event("message_delta", 0, reason), Event("message_stop", 0, "")>>)
    /\ UNCHANGED <<req, kept, output, reason, calls>>

DialectNext ==
    \/ Receive \/ Respond \/ Peek \/ Failure \/ Cut \/ Finish
    \/ \E p \in Pieces : Collected(p) \/ Text(p)
    \/ \E why \in Reasons : Final(why)

DialectSpec == DialectInit /\ [][DialectNext]_dialectVars

----------------------------------------------------------------------------
(* The clients, as the two protocols document them.                            *)

\* A client's place: [at, block, next]. It stops with at = "lost" on an event that
\* may not come where it is.
Reads(dialect, c, e) ==
    LET to(at) == [c EXCEPT !.at = at]
    IN IF e.kind = "error" /\ c.at \in {"text", "block"} THEN c
       ELSE IF dialect = "openai"
       THEN (CASE c.at = "start" /\ e.kind = "opening" -> to("text")
               [] c.at = "text" /\ e.kind \in {"delta", "tool"} -> c
               [] c.at = "text" /\ e.kind = "closing" -> to("closed")
               [] c.at \in {"text", "closed"} /\ e.kind = "DONE" -> to("end")
               [] OTHER -> to("lost"))
       ELSE (CASE c.at = "start" /\ e.kind = "message_start" -> to("between")
               [] c.at = "between" /\ e.kind = "block_start" /\ e.index = c.next ->
                    [at |-> "block", block |-> e.index, next |-> c.next + 1]
               [] c.at = "block" /\ e.kind = "delta" /\ e.index = c.block -> c
               [] c.at = "block" /\ e.kind = "block_stop" /\ e.index = c.block -> to("between")
               [] c.at = "between" /\ e.kind = "message_delta" /\ c.next > 0 -> to("closed")
               [] c.at = "closed" /\ e.kind = "message_stop" -> to("end")
               [] OTHER -> to("lost"))

\* The places it comes through, one before each event and one after the last.
Places(dialect, es) ==
    LET place[i \in 0..Len(es)] ==
          IF i = 0 THEN [at |-> "start", block |-> 0, next |-> 0]
          ELSE Reads(dialect, place[i - 1], es[i])
    IN place

Client == Places(req.dialect, events)[Len(events)]

Streamed == events # <<>> /\ events[1].kind \in {"opening", "message_start"}

\* What a client of the stream puts together: its pieces of prose, and its calls.
ProseSent == {i \in DOMAIN events : events[i].kind = "delta" /\ events[i].body = "prose"}
ToolsSent == {i \in DOMAIN events : \/ events[i].kind = "tool"
                                    \/ events[i].kind = "block_start" /\ events[i].body = "tool"}

Answered == phase = "done" /\ Streamed /\ Sieved /\ reason \in {"tool_calls", "tool_use"}

----------------------------------------------------------------------------
(* Properties.                                                                 *)

\* "Clients parse by event name, so the sequence must be exact": however the
\* generation ends, a client never meets an event out of place, and every stream ends.
ClientFollows ==
    Streamed => Client.at # "lost" /\ (phase = "done" => Client.at = "end")

\* "Sending it again would duplicate" (toolcall.rs): of an answer with calls the stream
\* carries each call once, all the prose the response would keep unless blanks came
\* first, and none of it twice.
AnswerArrives ==
    Answered => /\ Cardinality(ToolsSent) = Calls(output)
                /\ ~req.blank => Cardinality(ProseSent) >= Keeps(output)
                /\ Cardinality(ProseSent) <= Prose(output)

\* Streamed and whole, the answer says the same.
SameAnswer == Answered => Cardinality(ProseSent) = Keeps(output)

\* server.rs, anthropic_tool_stream: the blocks are numbered as in the response.
SameBlocks ==
    LET response == Buffered(output)
    IN Answered /\ req.dialect = "anthropic" =>
         {events[i].index : i \in ToolsSent}
           = {response[i].index : i \in {j \in DOMAIN response : response[j].kind = "tool"}}
===============================================================================
