------------------------------ MODULE ToolStream ------------------------------
(* gateway/toolcall.rs and the tool branch of gateway/server.rs: a model's     *)
(* answer arrives in deltas; the StreamSieve lets prose through at once and    *)
(* holds back what may open a tool call; at the end the whole answer is parsed *)
(* and the calls, and the prose still owed, are sent.                          *)
(*                                                                             *)
(* A text is a sequence of symbols. The opener "<tool_call>" is two of them,   *)
(* so that a delta can end inside it; every other marker, a complete JSON      *)
(* value, a Python call and an XML element are one each.                       *)
EXTENDS Integers, FiniteSets, Sequences, SequencesExt

CONSTANTS
    Vocabularies,   \* sets of symbols: an answer is written in one of them
    MaxText         \* bound: length of an answer

VARIABLES
    full,      \* StreamSieve.full: everything received
    released,  \* StreamSieve.released: how much of it was handed on
    closed,    \* StreamSieve.closed: an opener was seen
    sent,      \* the text of all text chunks sent to the client
    called,    \* the number of calls in the tool_calls chunk
    phase      \* "streaming", "done" or "failed"

streamVars == <<full, released, closed, sent, called, phase>>

Blank == {"space", "newline"}
Json == {"{call}", "{name}", "{data}"}   \* with name and arguments, a name only, neither
Brace == Json \cup {"<function/>"}       \* what holds a "{"
Openers == {<<"<tool_", "call>">>, <<"<|start|>">>, <<"<|python_tag|>">>,
            <<"[TOOL_CALLS]">>, <<"<function/>">>, <<"fence">>}

----------------------------------------------------------------------------
(* Strings.                                                                    *)

From(t, i) == SubSeq(t, i, Len(t))
UpTo(t, i) == SubSeq(t, 1, i - 1)

Least(S) == CHOOSE i \in S : \A j \in S : i <= j

\* The positions at which a substring stands.
Sites(t, u) == {i \in 1..Len(t) : IsPrefix(u, From(t, i))}

\* str::find from a position on: the next x, or the end of the text.
NextOf(t, x, from) == Least({i \in from..Len(t) : t[i] = x} \cup {Len(t) + 1})

\* Past the symbols of S that a text begins with.
Past(t, S) == Least({i \in 1..Len(t) : t[i] \notin S} \cup {Len(t) + 1})

TrimStart(t) == From(t, Past(t, Blank))
TrimEnd(t) == UpTo(t, Len(t) + 2 - Past(Reverse(t), Blank))
Trim(t) == TrimEnd(TrimStart(t))

\* The symbols at the positions in S, in their order.
Only(t, S) ==
    [k \in 1..Cardinality(S) |-> t[CHOOSE i \in S : Cardinality({j \in S : j <= i}) = k]]

Times(x, t) == Cardinality({i \in DOMAIN t : t[i] = x})

----------------------------------------------------------------------------
(* The parser: each format yields the text that remains and a number of calls. *)

Kept(text, calls) == [text |-> text, calls |-> calls]
NoCall(t) == Kept(t, 0)

\* A section runs from one of starts to its end. A loop over find meets those that
\* begin after the end of every one it has met before.
Sections(starts, end) ==
    LET met[i \in starts] == \A j \in starts : j < i /\ met[j] => end[j] < i
    IN {i \in starts : met[i]}

Without(t, sections, end) ==
    Only(t, {i \in 1..Len(t) : \A j \in sections : i \notin j..end[j]})

\* Every delimited section is dropped from the text, an unclosed one with all that
\* follows; bodies says which are calls.
Between(t, open, close, bodies) ==
    LET end == [i \in Sites(t, open) |-> NextOf(t, close, i)]
        met == Sections(Sites(t, open), end)
    IN Kept(Without(t, met, end),
            Cardinality({i \in met : Trim(SubSeq(t, i + Len(open), end[i] - 1)) \in bodies}))

\* A name is enough between tags and after a marker.
ExtractTagged(t) == Between(t, <<"<tool_", "call>">>, "</tool_call>", {<<"{call}">>, <<"{name}">>})
ExtractLfm2(t) == Between(t, <<"<|start|>">>, "<|end|>", {<<"f()">>})

\* Whatever follows the first JSON value after the marker is dropped.
ExtractMistral(t) ==
    LET at == NextOf(t, "[TOOL_CALLS]", 1)
        payload == Trim(From(t, at + 1))
    IN IF payload # <<>> /\ Head(payload) \in {"{call}", "{name}"} THEN Kept(UpTo(t, at), 1) ELSE NoCall(t)

\* A fence says nothing, json or xml; its body is read from the first brace.
IsFencedCall(info, body) ==
    LET braces == {i \in DOMAIN body : body[i] \in Brace}
    IN Trim(info) \in {<<>>, <<"json">>} /\ braces # {} /\ body[Least(braces)] = "{call}"

\* A fence without a line or an end stops the loop; only calls are dropped.
ExtractFencedJson(t) ==
    LET fences == Sites(t, <<"fence">>)
        line == [i \in fences |-> NextOf(t, "newline", i)]
        end == [i \in fences |-> NextOf(t, "fence", line[i])]
        calls == {i \in Sections(fences, end) :
                    end[i] <= Len(t) /\ IsFencedCall(SubSeq(t, i + 1, line[i] - 1), SubSeq(t, line[i] + 1, end[i] - 1))}
    IN IF calls = {} THEN NoCall(t) ELSE Kept(Without(t, calls, end), Cardinality(calls))

\* An element is the whole answer: no prose is kept.
ExtractXml(t) ==
    IF Times("<function/>", t) = 0 THEN NoCall(t) ELSE Kept(<<>>, Times("<function/>", t))

\* A bare object must be the whole answer, with a name and arguments.
ExtractBare(t) ==
    LET answer == Trim(t)
    IN IF Trim(From(answer, Past(answer, {"<|python_tag|>"}))) = <<"{call}">> THEN Kept(<<>>, 1) ELSE NoCall(t)

\* The first format that finds a call; its text is trimmed.
Parse(t) ==
    LET tries == <<ExtractTagged(t), ExtractLfm2(t), ExtractMistral(t),
                   ExtractFencedJson(t), ExtractXml(t), ExtractBare(t)>>
        hits == {i \in DOMAIN tries : tries[i].calls > 0}
    IN IF hits = {} THEN NoCall(t) ELSE Kept(Trim(tries[Least(hits)].text), tries[Least(hits)].calls)

----------------------------------------------------------------------------
(* The sieve.                                                                  *)

LeadsWithJson(t) == Past(t, Blank) <= Len(t) /\ t[Past(t, Blank)] \in Json \cup {"[TOOL_CALLS]"}

OpenersAt(t) == UNION {Sites(t, o) : o \in Openers}

\* Mutant of Held: an unfinished opener is let through.
HoldNothing(t) == 0

\* partial_opener_len: the end of t that may still grow into an opener.
Held(t) == IF t # <<>> /\ Last(t) = "<tool_" THEN 1 ELSE 0

ReleaseTo(t, end) ==
    /\ sent' = sent \o SubSeq(t, released + 1, end)
    /\ released' = IF end > released THEN end ELSE released

Push(delta) ==
    LET t == full \o delta
    IN /\ phase = "streaming"
       /\ Len(t) <= MaxText
       /\ \E V \in Vocabularies : ToSet(t) \subseteq V
       /\ full' = t
       /\ \/ /\ closed
             /\ UNCHANGED <<closed, sent, released>>
          \/ /\ ~closed /\ LeadsWithJson(t)
             /\ closed' = TRUE
             /\ UNCHANGED <<sent, released>>
          \/ /\ ~closed /\ ~LeadsWithJson(t) /\ OpenersAt(t) # {}
             /\ closed' = TRUE
             /\ ReleaseTo(t, Least(OpenersAt(t)) - 1)
          \/ /\ ~closed /\ ~LeadsWithJson(t) /\ OpenersAt(t) = {}
             /\ ReleaseTo(t, Len(t) - Held(t))
             /\ UNCHANGED closed
       /\ UNCHANGED <<called, phase>>

\* StreamSieve::finish: without a call everything held back; with one, what the
\* parser kept, when it continues what was streamed.
Owed(parsed) ==
    LET streamed == UpTo(full, released + 1)
    IN IF parsed.calls = 0 THEN From(full, released + 1)
       ELSE IF IsPrefix(streamed, parsed.text) THEN From(parsed.text, released + 1)
       ELSE <<>>

\* The final chunk: parse, send what is owed, then the calls, then the closing chunk.
Final ==
    /\ phase = "streaming"
    /\ sent' = sent \o Owed(Parse(full))
    /\ called' = Parse(full).calls
    /\ phase' = "done"
    /\ UNCHANGED <<full, released, closed>>

\* A chunk that carries an error becomes an error event; nothing else is sent.
Failure ==
    /\ phase = "streaming"
    /\ phase' = "failed"
    /\ UNCHANGED <<full, released, closed, sent, called>>

Symbols == UNION Vocabularies

Deltas == {<<a>> : a \in Symbols} \cup (Symbols \X Symbols)

StreamInit ==
    /\ full = <<>> /\ released = 0 /\ closed = FALSE
    /\ sent = <<>> /\ called = 0 /\ phase = "streaming"

StreamNext == (\E d \in Deltas : Push(d)) \/ Final \/ Failure

StreamSpec == StreamInit /\ [][StreamNext]_streamVars

----------------------------------------------------------------------------
(* Properties.                                                                 *)

Words(t) == SelectSeq(t, LAMBDA x : x \notin Blank)

\* Where the markup of an answer with calls begins: at the first opener, or with the
\* bare object, which only blanks precede.
MarkupBegins(t) == IF OpenersAt(t) # {} THEN Least(OpenersAt(t)) ELSE Past(t, Blank)

\* The sieve neither leaks nor loses nor repeats: an answer without a call reaches the
\* client symbol for symbol, fenced code and unfinished tags included; of an answer with
\* a call nothing is streamed from where its markup begins, and nothing is
\* sent twice.
StreamedIsProse ==
    phase = "done" =>
        /\ called = 0 => sent = full
        /\ called > 0 => released < MarkupBegins(full)
        /\ \A x \in Symbols : Times(x, sent) <= Times(x, full)

\* "Only prose the parser kept is owed, and only the part not already streamed": all
\* prose the parser kept reaches the client, wherever in the answer it stands.
KeptProseArrives ==
    phase = "done" /\ called > 0 => IsPrefix(Words(Parse(full).text), Words(sent))
=============================================================================
