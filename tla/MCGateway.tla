----------------------------- MODULE MCGateway -----------------------------
(* The gateway, in three parts: Gateway carries requests and their streams, *)
(* Dialects turns them into the two protocols and back, ToolStream reads    *)
(* tool calls out of the text.  A behaviour is of one part; the others stay *)
(* as they begin.                                                           *)
EXTENDS Gateway, Sequences

CONSTANTS
  Vocabularies, MaxText, ToolLists, Talks, Lengths, Contexts, Margin, MaxPieces

VARIABLES part,
          full, released, closed, sent, called, phase,
          talk, kept, step, output, reason, calls, events

Sieve == INSTANCE ToolStream
Dialect == INSTANCE Dialects WITH Replies <- Lengths, req <- talk, phase <- step

sieveVars == <<full, released, closed, sent, called, phase>>
dialectVars == <<talk, kept, step, output, reason, calls, events>>
textVars == <<sieveVars, dialectVars>>

PartInit ==
  /\ part \in {"gateway", "dialects", "sieve"}
  /\ Init /\ Sieve!StreamInit /\ Dialect!DialectInit
  /\ part # "dialects" => talk = CHOOSE t \in Dialect!Requests : TRUE

PartNext ==
  \/ part = "gateway" /\ Next /\ UNCHANGED <<part, textVars>>
  \/ part = "sieve" /\ Sieve!StreamNext /\ UNCHANGED <<part, vars, dialectVars>>
  \/ part = "dialects" /\ Dialect!DialectNext /\ UNCHANGED <<part, vars, sieveVars>>

(* Fair, for the part it is about.                                          *)
PartSpec ==
  /\ PartInit /\ [][PartNext]_<<part, vars, textVars>>
  /\ WF_vars(part = "gateway" /\ Serve)
  /\ \A r \in Jobs : WF_vars(part = "gateway" /\ Handle(r))

(* Text that is streamed before the answer ends is never part of a call.    *)
StreamedIsProse == Sieve!StreamedIsProse

(* What a client of either protocol assembles is a well-formed answer.      *)
ClientFollows == Dialect!ClientFollows

(* What the response would keep of an answer, the stream carries too.       *)
AnswerArrives == Dialect!AnswerArrives

----------------------------------------------------------------------------
(* The symbols answers are written in: the tags of most models, fenced      *)
(* JSON, and the markers of the others.                                     *)
MCTags == {"word", "space", "<tool_", "call>", "</tool_call>", "{call}"}
MCFences == {"word", "newline", "fence", "json", "{call}", "{data}"}
MCMarkers == {"word", "space", "[TOOL_CALLS]", "<|start|>", "<|end|>", "f()", "<function/>",
              "<|python_tag|>", "{call}", "{name}"}
MCVocabularies == {MCTags, MCFences, MCMarkers}
MCToolLists == {<<>>, <<2>>, <<2, 3>>}
============================================================================
