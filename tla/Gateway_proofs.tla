--------------------------- MODULE Gateway_proofs ---------------------------
(***************************************************************************)
(* Proofs about the gateway's three parts.                                 *)
(*                                                                         *)
(* Gateway.tla, for any number of requests, of tokens, and of endings: an  *)
(* abandoned job is cancelled and no other is, and what a client was told  *)
(* is what was generated.                                                  *)
(* Both follow from one inductive invariant.  It says of the service that  *)
(* it only works on what was submitted and that a channel closed before    *)
(* its final chunk belongs to a caller who withdrew; and of each handler   *)
(* how far it has read its channel, which it can only have overtaken if    *)
(* the service took a token back.                                          *)
(*                                                                         *)
(* Dialects.tla, for requests and answers of any length: a client of       *)
(* either protocol is never lost, and stream and response carry the same.  *)
(* The invariant says where each phase leaves the client, and counts what  *)
(* was sent against what was generated.                                    *)
(*                                                                         *)
(* ToolStream.tla, for any symbols and texts of any length: the sieve      *)
(* neither leaks nor loses nor repeats.  The invariant says that what was  *)
(* handed on is the beginning of the answer and that no opener stands, or  *)
(* can still come to stand, in it.                                         *)
(***************************************************************************)
EXTENDS MCGateway, SequenceTheorems, FiniteSetTheorems, WellFoundedInduction, TLAPS

-----------------------------------------------------------------------------
(* The inductive invariant.                                                *)

ReqState ==
  [pc : {"new", "model", "done", "gone"} \cup Reading, taken : Nat, sent : Nat,
   late : BOOLEAN, armed : BOOLEAN, last : Endings \cup {"none"},
   reply : {"none", "unavailable", "error", "whole", "events"}]

StreamState == [tokens : Nat, final : Endings \cup {"none"}, closed : BOOLEAN]

(* Every variable keeps its type.                                          *)
GatewayTypeOK ==
  /\ submitted \subseteq Jobs
  /\ withdrawn \subseteq Jobs
  /\ waiting \in Seq(Jobs)
  /\ serving \in Jobs \cup {NoJob}
  /\ stream \in [Jobs -> StreamState]
  /\ req \in [Jobs -> ReqState]
  /\ cancelled \subseteq Jobs

(* The service works on submitted jobs only.                               *)
OnlySubmitted ==
  /\ \A i \in 1..Len(waiting) : waiting[i] \in submitted
  /\ serving # NoJob => serving \in submitted

(* What an untouched channel looks like.                                   *)
Untouched(s) == s.tokens = 0 /\ s.final = "none" /\ ~s.closed

(* A request, its job and its channel.                                     *)
HandlerInv(r) ==
  LET q == req[r]
      s == stream[r]
  IN
  /\ q.pc \in {"new", "model"} \/ q.reply = "unavailable" => r \notin submitted
  /\ q.pc \in Reading \cup {"gone"} => r \in submitted
  /\ r \notin submitted => Untouched(s)
  /\ r \in withdrawn => q.pc \in {"done", "gone"}
  /\ s.closed /\ r \notin withdrawn => s.final # "none"
  /\ r \in cancelled => q.pc \in {"done", "gone"}
  /\ q.pc = "gone" => r \in cancelled \/ q.last # "none"
  /\ q.pc \in Reading => q.armed \/ q.last # "none"
  /\ q.pc \in Reading => q.taken <= s.tokens
  /\ q.pc \in {"collect", "peek", "head"} => q.last = "none"
  /\ q.pc \in {"new", "model", "peek"} => q.taken = 0
  /\ q.pc \in {"new", "model"} => q.sent = 0 /\ q.last = "none"
  /\ q.pc \in {"peek", "head", "body"} => q.sent = q.taken
  /\ q.pc \in {"head", "body"} =>
       q.late \/ s.tokens > 0 \/ s.final \in Endings \ Failures

(* What was answered.                                                      *)
HonestTo(r) ==
  /\ req[r].reply \in {"whole", "events"} =>
       /\ req[r].sent = stream[r].tokens
       /\ req[r].last = stream[r].final /\ stream[r].final # "none"
  /\ At(r, "done") /\ stream[r].final \in Failures =>
       \/ req[r].reply = "error"
       \/ req[r].reply = "events" /\ (req[r].late \/ stream[r].tokens > 0)
  /\ ~At(r, "done") => req[r].reply = "none"
  /\ At(r, "done") => req[r].reply # "none"

RequestInv(r) == HandlerInv(r) /\ HonestTo(r)

GatewayInv == GatewayTypeOK /\ OnlySubmitted /\ \A r \in Jobs : RequestInv(r)

-----------------------------------------------------------------------------
(* The service.                                                            *)

(* A request keeps its invariant while its handler, its channel and what   *)
(* the service and the gateway hold against it stay the same.              *)
LEMMA RequestStays ==
  ASSUME NEW r \in Jobs, RequestInv(r), req'[r] = req[r], stream'[r] = stream[r],
         r \in submitted' <=> r \in submitted,
         r \in withdrawn' <=> r \in withdrawn,
         r \in cancelled' <=> r \in cancelled
  PROVE  RequestInv(r)'
BY DEF RequestInv, HandlerInv, HonestTo, Untouched, At

(* It keeps it, too, when its job is served: another token or the close of *)
(* the channel, or a final chunk where there was none.                     *)
LEMMA RequestServed ==
  ASSUME GatewayTypeOK, NEW r \in Jobs, RequestInv(r), r \in submitted,
         UNCHANGED <<gatewayVars, submitted, withdrawn>>,
         NEW s \in StreamState, stream'[r] = s,
         ~(stream[r].final # "none" /\ s.final # stream[r].final),
         stream[r].final # "none" => s.tokens = stream[r].tokens,
         s.tokens >= stream[r].tokens,
         s.closed /\ r \notin withdrawn => s.final # "none",
         stream[r].final = "none" /\ s.final # "none" =>
            s.tokens = stream[r].tokens /\ ~stream[r].closed
  PROVE  RequestInv(r)'
<1>1. req[r] \in ReqState /\ stream[r] \in StreamState
  BY DEF GatewayTypeOK
<1>2. HandlerInv(r)'
  BY <1>1, GatewayAssumption DEF RequestInv, HandlerInv, Untouched, gatewayVars, ReqState, StreamState, At
<1>3. HonestTo(r)'
  BY <1>1 DEF RequestInv, HandlerInv, HonestTo, gatewayVars, ReqState, StreamState, At
<1> QED BY <1>2, <1>3 DEF RequestInv

(* A channel that grows, ends or closes is still one.                      *)
LEMMA StreamFields ==
  ASSUME NEW c \in StreamState
  PROVE  /\ c.tokens \in Nat
         /\ LET s == [c EXCEPT !.tokens = @ + 1]
            IN  s \in StreamState /\ s.tokens = c.tokens + 1 /\ s.final = c.final
                /\ s.closed = c.closed
         /\ LET s == [c EXCEPT !.closed = TRUE]
            IN  s \in StreamState /\ s.tokens = c.tokens /\ s.final = c.final
<1>1. c.tokens \in Nat /\ c.final \in Endings \cup {"none"} /\ c.closed \in BOOLEAN
  BY DEF StreamState
<1>2. LET s == [c EXCEPT !.tokens = @ + 1]
      IN  s \in StreamState /\ s.tokens = c.tokens + 1 /\ s.final = c.final
          /\ s.closed = c.closed
  BY DEF StreamState
<1>3. LET s == [c EXCEPT !.closed = TRUE]
      IN  s \in StreamState /\ s.tokens = c.tokens /\ s.final = c.final
  BY DEF StreamState
<1> QED BY <1>1, <1>2, <1>3

(* What the service does to a job it serves, it does to none other.        *)
LEMMA ServeKeeps == ASSUME GatewayInv, Serve PROVE GatewayInv'
<1>t. /\ GatewayTypeOK /\ OnlySubmitted /\ \A r \in Jobs : RequestInv(r)
      /\ UNCHANGED gatewayVars
      /\ waiting \in Seq(Jobs) /\ stream \in [Jobs -> StreamState]
  BY DEF GatewayInv, GatewayTypeOK, Serve
<1>1. CASE SServe
  <2>1. /\ Head(waiting) = waiting[1] /\ waiting[1] \in submitted /\ waiting[1] \in Jobs
        /\ Tail(waiting) \in Seq(Jobs) /\ Len(Tail(waiting)) = Len(waiting) - 1
        /\ Len(waiting) \in Nat
        /\ \A i \in 1..Len(Tail(waiting)) : Tail(waiting)[i] = waiting[i + 1]
    BY <1>1, <1>t DEF SServe, OnlySubmitted
  <2>2. /\ serving' = waiting[1] /\ waiting' = Tail(waiting)
        /\ UNCHANGED <<submitted, withdrawn, stream>>
    BY <1>1, <2>1 DEF SServe
  <2>3. OnlySubmitted'
    BY <2>1, <2>2, <1>t DEF OnlySubmitted
  <2>4. GatewayTypeOK'
    BY <2>1, <2>2, <1>t DEF GatewayTypeOK, gatewayVars
  <2>5. ASSUME NEW r \in Jobs PROVE RequestInv(r)'
    BY <2>2, <1>t, RequestStays DEF gatewayVars
  <2> QED BY <2>3, <2>4, <2>5 DEF GatewayInv
<1>2. CASE SRelease
  <2>1. ASSUME NEW r \in Jobs PROVE RequestInv(r)'
    BY <1>2, <1>t, RequestStays DEF gatewayVars, SRelease
  <2>2. GatewayTypeOK' /\ OnlySubmitted'
    BY <1>2, <1>t DEF GatewayTypeOK, gatewayVars, SRelease, OnlySubmitted
  <2> QED BY <2>1, <2>2 DEF GatewayInv
<1>s. CASE serving # NoJob
  <2>1. PICK j \in Jobs : serving = j /\ j \in submitted
    BY <1>s, <1>t DEF GatewayTypeOK, OnlySubmitted
  <2>c. stream[j] \in StreamState
    BY <1>t
  <2>2. ASSUME NEW s \in StreamState, stream' = [stream EXCEPT ![j] = s],
               UNCHANGED <<submitted, withdrawn, waiting, serving>>,
               ~(stream[j].final # "none" /\ s.final # stream[j].final),
               stream[j].final # "none" => s.tokens = stream[j].tokens,
               s.tokens >= stream[j].tokens,
               s.closed /\ j \notin withdrawn => s.final # "none",
               stream[j].final = "none" /\ s.final # "none" =>
                 s.tokens = stream[j].tokens /\ ~stream[j].closed
        PROVE  GatewayInv'
    <3>1. stream' \in [Jobs -> StreamState] /\ stream'[j] = s
          /\ \A r \in Jobs \ {j} : stream'[r] = stream[r]
      BY <2>1, <2>2, <1>t
    <3>2. GatewayTypeOK' /\ OnlySubmitted'
      BY <2>2, <1>t, <3>1 DEF GatewayTypeOK, gatewayVars, OnlySubmitted
    <3>3. ASSUME NEW r \in Jobs, r # j PROVE RequestInv(r)'
      BY <2>2, <1>t, <3>1, <3>3, RequestStays DEF gatewayVars
    <3>4. RequestInv(j)'
      BY <2>1, <2>2, <1>t, <3>1, RequestServed
    <3> QED BY <3>2, <3>3, <3>4 DEF GatewayInv
  <2>3. CASE SToken
    <3> DEFINE s == [stream[j] EXCEPT !.tokens = @ + 1]
    <3>1. s \in StreamState /\ s.tokens = stream[j].tokens + 1 /\ s.final = stream[j].final
          /\ s.closed = stream[j].closed /\ stream[j].tokens \in Nat
      BY <2>c, StreamFields
    <3>2. /\ stream' = [stream EXCEPT ![j] = s]
          /\ UNCHANGED <<submitted, withdrawn, waiting, serving>>
          /\ stream[j].final = "none" /\ ~stream[j].closed
      BY <2>1, <2>3 DEF SToken
    <3> HIDE DEF s
    <3>3. s.tokens >= stream[j].tokens /\ s.final = "none" /\ ~s.closed
      BY <3>1, <3>2
    <3> QED BY <2>2, <3>1, <3>2, <3>3
  <2>4. ASSUME NEW ending \in Endings, SEnd(ending) PROVE GatewayInv'
    <3>1. PICK shut \in BOOLEAN :
            stream' = [stream EXCEPT ![serving].final = ending, ![serving].closed = shut]
      BY <2>4 DEF SEnd
    <3>c. PICK c \in StreamState : stream[j] = c
      BY <2>c
    <3> DEFINE s == [c EXCEPT !.final = ending, !.closed = shut]
    <3>2. /\ stream' = [stream EXCEPT ![j] = s]
          /\ UNCHANGED <<submitted, withdrawn, waiting, serving>>
          /\ stream[j].final = "none" /\ ~stream[j].closed
      BY <2>1, <2>4, <3>1, <3>c, <1>t DEF SEnd
    <3>3. s \in StreamState /\ s.tokens = stream[j].tokens /\ s.final = ending
          /\ stream[j].tokens \in Nat
      BY <3>c DEF StreamState
    <3> HIDE DEF s
    <3>4. s.tokens >= stream[j].tokens /\ ending # "none"
      BY <3>3, GatewayAssumption
    <3> QED BY <2>2, <3>2, <3>3, <3>4
  <2>5. CASE SClose
    <3> DEFINE s == [stream[j] EXCEPT !.closed = TRUE]
    <3>1. /\ stream' = [stream EXCEPT ![j] = s]
          /\ UNCHANGED <<submitted, withdrawn, waiting, serving>>
          /\ stream[j].final # "none" \/ j \in withdrawn
      BY <2>1, <2>5 DEF SClose
    <3>2. s \in StreamState /\ s.tokens = stream[j].tokens /\ s.final = stream[j].final
          /\ stream[j].tokens \in Nat
      BY <2>c, StreamFields
    <3> HIDE DEF s
    <3>3. s.tokens >= stream[j].tokens
      BY <3>2
    <3> QED BY <2>2, <3>1, <3>2, <3>3
  <2> QED BY <1>1, <1>2, <2>3, <2>4, <2>5 DEF Serve
<1> QED BY <1>1, <1>s DEF Serve, SToken, SEnd, SClose, SRelease

-----------------------------------------------------------------------------
(* The handlers.                                                           *)

(* A step of request r that leaves the service to itself.                  *)
LEMMA HandlerStep ==
  ASSUME GatewayInv, NEW r \in Jobs, NEW q \in ReqState, req' = [req EXCEPT ![r] = q],
         GatewayTypeOK', OnlySubmitted', UNCHANGED stream,
         submitted' \subseteq submitted \cup {r}, submitted \subseteq submitted',
         withdrawn' \subseteq withdrawn \cup {r}, withdrawn \subseteq withdrawn',
         cancelled' \subseteq cancelled \cup {r}, cancelled \subseteq cancelled',
         RequestInv(r)'
  PROVE  GatewayInv'
<1>1. ASSUME NEW p \in Jobs, p # r PROVE RequestInv(p)'
  <2>1. req'[p] = req[p] /\ stream'[p] = stream[p] /\ RequestInv(p)
    BY <1>1 DEF GatewayInv, GatewayTypeOK
  <2> QED BY <1>1, <2>1, RequestStays
<1> QED BY <1>1 DEF GatewayInv

(* A request between arrival and submission.                               *)
LEMMA ArriveKeeps ==
  ASSUME GatewayInv, NEW r \in Jobs, Arrive(r) \/ Unavailable(r) PROVE GatewayInv'
<1>t. /\ GatewayTypeOK /\ OnlySubmitted /\ RequestInv(r)
      /\ req \in [Jobs -> ReqState] /\ req[r] \in ReqState
      /\ UNCHANGED <<svars, cancelled>>
  BY DEF GatewayInv, GatewayTypeOK, Arrive, Unavailable
<1>1. PICK q : /\ req' = [req EXCEPT ![r] = q] /\ q \in ReqState
               /\ \/ At(r, "new") /\ q.pc = "model" /\ q.reply = req[r].reply
                     /\ q.taken = req[r].taken /\ q.sent = req[r].sent
                     /\ q.last = req[r].last
                  \/ At(r, "model") /\ q.pc = "done" /\ q.reply = "unavailable"
  <2>1. CASE Arrive(r)
    <3> DEFINE q == [req[r] EXCEPT !.pc = "model"]
    <3>1. /\ q \in ReqState /\ q.pc = "model" /\ q.reply = req[r].reply
          /\ q.taken = req[r].taken /\ q.sent = req[r].sent /\ q.last = req[r].last
      BY <1>t DEF ReqState
    <3>2. req' = [req EXCEPT ![r] = q] /\ At(r, "new")
      BY <2>1 DEF Arrive
    <3> HIDE DEF q
    <3> QED BY <3>1, <3>2
  <2>2. CASE Unavailable(r)
    <3> DEFINE q == [req[r] EXCEPT !.pc = "done", !.reply = "unavailable"]
    <3>1. /\ q \in ReqState /\ q.pc = "done" /\ q.reply = "unavailable"
      BY <1>t DEF ReqState
    <3>2. req' = [req EXCEPT ![r] = q] /\ At(r, "model")
      BY <2>2, <1>t DEF Unavailable
    <3> HIDE DEF q
    <3> QED BY <3>1, <3>2
  <2> QED BY <2>1, <2>2
<1>2. req'[r] = q /\ req' \in [Jobs -> ReqState]
  BY <1>1, <1>t
<1>3. GatewayTypeOK' /\ OnlySubmitted'
  BY <1>2, <1>t DEF GatewayTypeOK, OnlySubmitted, svars
<1>4. RequestInv(r)'
  BY <1>1, <1>2, <1>t, GatewayAssumption
     DEF RequestInv, HandlerInv, HonestTo, Untouched, At, Reading, svars
<1> QED BY <1>1, <1>3, <1>4, <1>t, HandlerStep DEF svars

(* Submitting: from here on the guard is armed.                            *)
LEMMA SubmitKeeps == ASSUME GatewayInv, NEW r \in Jobs, Submit(r) PROVE GatewayInv'
<1>t. /\ GatewayTypeOK /\ OnlySubmitted /\ RequestInv(r)
      /\ req \in [Jobs -> ReqState] /\ req[r] \in ReqState
      /\ waiting \in Seq(Jobs) /\ stream[r] \in StreamState
  BY DEF GatewayInv, GatewayTypeOK
<1>0. /\ At(r, "model") /\ r \notin submitted /\ submitted' = submitted \cup {r}
      /\ waiting' = Append(waiting, r)
      /\ UNCHANGED <<withdrawn, serving, stream, cancelled>>
  BY DEF Submit, SSubmit
<1>1. PICK q : /\ req' = [req EXCEPT ![r] = q] /\ q \in ReqState
               /\ q.pc \in {"collect", "peek"} /\ q.armed /\ q.reply = req[r].reply
               /\ q.taken = req[r].taken /\ q.sent = req[r].sent /\ q.last = req[r].last
  <2>1. PICK pc \in {"collect", "peek"} : req' = [req EXCEPT ![r].pc = pc, ![r].armed = TRUE]
    BY DEF Submit
  <2> DEFINE q == [req[r] EXCEPT !.pc = pc, !.armed = TRUE]
  <2>2. /\ q \in ReqState /\ q.pc = pc /\ q.armed /\ q.reply = req[r].reply
        /\ q.taken = req[r].taken /\ q.sent = req[r].sent /\ q.last = req[r].last
    BY <1>t DEF ReqState, Reading
  <2>3. req' = [req EXCEPT ![r] = q]
    BY <2>1, <1>t
  <2> HIDE DEF q
  <2> QED BY <2>1, <2>2, <2>3
<1>2. req'[r] = q /\ req' \in [Jobs -> ReqState]
  BY <1>1, <1>t
<1>3. GatewayTypeOK' /\ OnlySubmitted'
  <2>1. waiting' \in Seq(Jobs) /\ Len(waiting') = Len(waiting) + 1 /\ Len(waiting) \in Nat
        /\ \A i \in 1..Len(waiting') :
             waiting'[i] = IF i = Len(waiting) + 1 THEN r ELSE waiting[i]
    BY <1>0, <1>t
  <2> QED BY <2>1, <1>0, <1>2, <1>t DEF GatewayTypeOK, OnlySubmitted
<1>4. r \in submitted' /\ r \notin withdrawn' /\ r \notin cancelled' /\ Untouched(stream[r])
      /\ q.reply = "none"
  BY <1>0, <1>1, <1>t DEF RequestInv, HandlerInv, HonestTo, At
<1>5. q.last = "none" /\ q.taken = 0 /\ q.sent = 0
  BY <1>0, <1>1, <1>t DEF RequestInv, HandlerInv, At, Untouched
<1>6. HandlerInv(r)'
  BY <1>0, <1>1, <1>2, <1>4, <1>5 DEF HandlerInv, Untouched, Reading
<1>7. HonestTo(r)'
  BY <1>0, <1>1, <1>2, <1>4 DEF HonestTo, At
<1> QED BY <1>0, <1>1, <1>3, <1>6, <1>7, HandlerStep DEF RequestInv

(* An ordinary response: whatever it was, the handler is done.             *)
LEMMA AnswerIs ==
  ASSUME NEW r \in Jobs, NEW reply \in {"error", "whole"}, Answer(r, reply),
         req \in [Jobs -> ReqState], stream[r] \in StreamState
  PROVE  \E q \in ReqState :
           /\ req' = [req EXCEPT ![r] = q]
           /\ q.pc = "done" /\ q.reply = reply /\ q.last = stream[r].final
           /\ q.sent = IF reply = "whole" THEN req[r].taken ELSE 0
<1> DEFINE told == IF reply = "whole" THEN req[r].taken ELSE 0
<1>t. req[r] \in ReqState /\ stream[r].final \in Endings \cup {"none"}
  BY DEF StreamState
<1>s. told \in Nat
  BY <1>t DEF ReqState
<1>1. PICK last, n : last = stream[r].final /\ n = told
  OBVIOUS
<1> DEFINE q == [req[r] EXCEPT !.pc = "done", !.armed = FALSE, !.reply = reply,
                               !.last = last, !.sent = n]
<1>2. req' = [req EXCEPT ![r] = q]
  BY <1>1, <1>t DEF Answer
<1>3. q \in ReqState /\ q.pc = "done" /\ q.reply = reply /\ q.last = last /\ q.sent = n
  BY <1>1, <1>t, <1>s DEF ReqState
<1> HIDE DEF q
<1> QED BY <1>1, <1>2, <1>3

(* What the channel of a request still read can look like.                 *)
LEMMA Channel ==
  ASSUME GatewayInv, NEW r \in Jobs, req[r].pc \in Reading
  PROVE  /\ r \notin withdrawn /\ r \notin cancelled /\ r \in submitted
         /\ req[r].taken \in Nat /\ req[r].sent \in Nat /\ stream[r].tokens \in Nat
         /\ req[r].taken <= stream[r].tokens
         /\ stream[r].closed => stream[r].final # "none"
         /\ stream[r].final \in Endings \cup {"none"}
         /\ req[r].armed \/ req[r].last # "none"
         /\ Exhausted(r) => stream[r].final # "none" /\ req[r].taken = stream[r].tokens
                            /\ req[r].last = stream[r].final
         /\ FinalReady(r) => stream[r].final # "none" /\ req[r].taken = stream[r].tokens
         /\ req[r].reply = "none"
<1>1. GatewayTypeOK /\ RequestInv(r) /\ req[r] \in ReqState /\ stream[r] \in StreamState
  BY DEF GatewayInv, GatewayTypeOK
<1> QED BY <1>1 DEF RequestInv, HandlerInv, HonestTo, Reading, At, ReqState, StreamState,
                    Exhausted, FinalReady, TokenReady

(* A reading step of request r: neither the service nor another request    *)
(* notices.                                                                *)
LEMMA ReadKeeps ==
  ASSUME GatewayInv, NEW r \in Jobs, UNCHANGED <<svars, cancelled>>,
         NEW q \in ReqState, req' = [req EXCEPT ![r] = q],
         req'[r] = q /\ stream' = stream => RequestInv(r)'
  PROVE  GatewayInv'
<1>t. /\ GatewayTypeOK /\ OnlySubmitted /\ req \in [Jobs -> ReqState]
  BY DEF GatewayInv, GatewayTypeOK
<1>2. req'[r] = q /\ req' \in [Jobs -> ReqState]
  BY <1>t
<1>3. GatewayTypeOK' /\ OnlySubmitted'
  BY <1>2, <1>t DEF GatewayTypeOK, OnlySubmitted, svars
<1> QED BY <1>2, <1>3, HandlerStep DEF svars

(* Collecting the whole answer.                                            *)
LEMMA CollectKeeps == ASSUME GatewayInv, NEW r \in Jobs, Collect(r) PROVE GatewayInv'
<1>t. /\ GatewayTypeOK /\ RequestInv(r) /\ UNCHANGED <<svars, cancelled>>
      /\ req \in [Jobs -> ReqState] /\ req[r] \in ReqState
      /\ stream[r] \in StreamState /\ req[r].pc = "collect"
  BY DEF GatewayInv, GatewayTypeOK, Collect, At
<1>c. req[r].pc \in Reading
  BY <1>t DEF Reading
<1>1. CASE TokenReady(r) /\ req' = [req EXCEPT ![r].taken = @ + 1]
  <2> DEFINE q == [req[r] EXCEPT !.taken = @ + 1]
  <2>1. /\ q \in ReqState /\ q.pc = "collect" /\ q.taken = req[r].taken + 1
        /\ q.last = req[r].last /\ q.armed = req[r].armed /\ q.reply = req[r].reply
    BY <1>t DEF ReqState
  <2>2. req' = [req EXCEPT ![r] = q]
    BY <1>1
  <2> HIDE DEF q
  <2>3. ASSUME req'[r] = q, stream' = stream PROVE RequestInv(r)'
    BY <2>1, <2>3, <1>1, <1>t, <1>c, Channel, GatewayAssumption
       DEF RequestInv, HandlerInv, HonestTo, At, Reading, TokenReady, svars
  <2> QED BY <2>1, <2>2, <2>3, <1>t, ReadKeeps
<1>2. CASE /\ FinalReady(r) \/ Exhausted(r)
           /\ Answer(r, IF stream[r].final \in Failures THEN "error" ELSE "whole")
  <2>0. PICK reply \in {"error", "whole"} :
          Answer(r, reply) /\ reply = IF stream[r].final \in Failures THEN "error" ELSE "whole"
    BY <1>2
  <2>1. PICK q \in ReqState :
           /\ req' = [req EXCEPT ![r] = q]
           /\ q.pc = "done" /\ q.reply = reply /\ q.last = stream[r].final
           /\ q.sent = IF reply = "whole" THEN req[r].taken ELSE 0
    BY <2>0, <1>t, AnswerIs
  <2>3. ASSUME req'[r] = q, stream' = stream PROVE RequestInv(r)'
    BY <2>0, <2>1, <2>3, <1>2, <1>t, <1>c, Channel
       DEF RequestInv, HandlerInv, HonestTo, At, Reading, svars
  <2> QED BY <2>1, <2>3, <1>t, ReadKeeps
<1> QED BY <1>1, <1>2 DEF Collect

(* Looking at the first chunk, and putting it back.                        *)
LEMMA PeekKeeps == ASSUME GatewayInv, NEW r \in Jobs, Peek(r) PROVE GatewayInv'
<1>t. /\ GatewayTypeOK /\ RequestInv(r) /\ UNCHANGED <<svars, cancelled>>
      /\ req \in [Jobs -> ReqState] /\ req[r] \in ReqState
      /\ stream[r] \in StreamState /\ req[r].pc = "peek"
  BY DEF GatewayInv, GatewayTypeOK, Peek, At
<1>c. req[r].pc \in Reading
  BY <1>t DEF Reading
<1>1. CASE Answer(r, "error")
  <2>1. PICK q \in ReqState :
           /\ req' = [req EXCEPT ![r] = q] /\ q.pc = "done" /\ q.reply = "error"
    BY <1>1, <1>t, AnswerIs
  <2>3. ASSUME req'[r] = q, stream' = stream PROVE RequestInv(r)'
    BY <2>1, <2>3, <1>t, <1>c, Channel
       DEF RequestInv, HandlerInv, HonestTo, At, Reading, svars
  <2> QED BY <2>1, <2>3, <1>t, ReadKeeps
<1>2. CASE /\ ~(~TokenReady(r) /\ FinalReady(r) /\ stream[r].final \in Failures)
           /\ req' = [req EXCEPT ![r].pc = "head",
                        ![r].late = ~TokenReady(r) /\ ~FinalReady(r) /\ ~Exhausted(r)]
  <2>0. PICK late \in BOOLEAN : late = (~TokenReady(r) /\ ~FinalReady(r) /\ ~Exhausted(r))
    OBVIOUS
  <2> DEFINE q == [req[r] EXCEPT !.pc = "head", !.late = late]
  <2>1. /\ q \in ReqState /\ q.pc = "head" /\ q.late = late /\ q.taken = req[r].taken
        /\ q.sent = req[r].sent /\ q.last = req[r].last /\ q.armed = req[r].armed
        /\ q.reply = req[r].reply
    BY <1>t DEF ReqState, Reading
  <2>2. req' = [req EXCEPT ![r] = q]
    BY <1>2, <2>0, <1>t
  <2> HIDE DEF q
  <2>4. req[r].taken = 0 /\ req[r].last = "none" /\ req[r].sent = 0
    BY <1>t DEF RequestInv, HandlerInv
  <2>5. q.late \/ stream[r].tokens > 0 \/ stream[r].final \in Endings \ Failures
    BY <2>0, <2>1, <2>4, <1>2, <1>c, Channel DEF TokenReady, FinalReady
  <2>3. ASSUME req'[r] = q, stream' = stream PROVE RequestInv(r)'
    BY <2>1, <2>3, <2>4, <2>5, <1>t, <1>c, Channel
       DEF RequestInv, HandlerInv, HonestTo, At, Reading, svars
  <2> QED BY <2>1, <2>2, <2>3, <1>t, ReadKeeps
<1> QED BY <1>1, <1>2 DEF Peek

(* The stream: its opening event, and one chunk at a time.                 *)
LEMMA StreamKeeps == ASSUME GatewayInv, NEW r \in Jobs, Head200(r) \/ Body(r) PROVE GatewayInv'
<1>t. /\ GatewayTypeOK /\ RequestInv(r) /\ UNCHANGED <<svars, cancelled>>
      /\ req \in [Jobs -> ReqState] /\ req[r] \in ReqState
      /\ stream[r] \in StreamState /\ req[r].pc \in {"head", "body"}
  BY DEF GatewayInv, GatewayTypeOK, Head200, Body, At
<1>c. req[r].pc \in Reading
  BY <1>t DEF Reading
<1>s. req[r].sent = req[r].taken
  BY <1>t DEF RequestInv, HandlerInv
<1>1. CASE Head200(r)
  <2> DEFINE q == [req[r] EXCEPT !.pc = "body"]
  <2>1. /\ q \in ReqState /\ q.pc = "body" /\ q.late = req[r].late /\ q.taken = req[r].taken
        /\ q.sent = req[r].sent /\ q.last = req[r].last /\ q.armed = req[r].armed
        /\ q.reply = req[r].reply
    BY <1>t DEF ReqState, Reading
  <2>2. req' = [req EXCEPT ![r] = q]
    BY <1>1 DEF Head200
  <2> HIDE DEF q
  <2>3. ASSUME req'[r] = q, stream' = stream PROVE RequestInv(r)'
    BY <2>1, <2>3, <1>t, <1>c, Channel
       DEF RequestInv, HandlerInv, HonestTo, At, Reading, svars
  <2> QED BY <2>1, <2>2, <2>3, <1>t, ReadKeeps
<1>2. CASE req[r].pc = "body" /\ TokenReady(r)
           /\ req' = [req EXCEPT ![r].taken = @ + 1, ![r].sent = @ + 1]
  <2> DEFINE q == [req[r] EXCEPT !.taken = @ + 1, !.sent = @ + 1]
  <2>1. /\ q \in ReqState /\ q.pc = "body" /\ q.late = req[r].late
        /\ q.taken = req[r].taken + 1 /\ q.sent = req[r].sent + 1
        /\ q.last = req[r].last /\ q.armed = req[r].armed /\ q.reply = req[r].reply
    BY <1>2, <1>t DEF ReqState
  <2>2. req' = [req EXCEPT ![r] = q]
    BY <1>2, <1>t
  <2> HIDE DEF q
  <2>3. ASSUME req'[r] = q, stream' = stream PROVE RequestInv(r)'
    BY <2>1, <2>3, <1>2, <1>s, <1>t, <1>c, Channel
       DEF RequestInv, HandlerInv, HonestTo, At, Reading, TokenReady, svars
  <2> QED BY <2>1, <2>2, <2>3, <1>t, ReadKeeps
<1>3. CASE req[r].pc = "body" /\ FinalReady(r)
           /\ req' = [req EXCEPT ![r].last = stream[r].final, ![r].armed = FALSE]
  <2>0. PICK last \in Endings : last = stream[r].final
    BY <1>3, <1>c, Channel
  <2> DEFINE q == [req[r] EXCEPT !.last = last, !.armed = FALSE]
  <2>1. /\ q \in ReqState /\ q.pc = "body" /\ q.late = req[r].late
        /\ q.taken = req[r].taken /\ q.sent = req[r].sent
        /\ q.last = last /\ q.reply = req[r].reply
    BY <1>3, <1>t DEF ReqState
  <2>2. req' = [req EXCEPT ![r] = q]
    BY <1>3, <2>0, <1>t
  <2> HIDE DEF q
  <2>3. ASSUME req'[r] = q, stream' = stream PROVE RequestInv(r)'
    BY <2>0, <2>1, <2>3, <1>t, <1>c, Channel, GatewayAssumption
       DEF RequestInv, HandlerInv, HonestTo, At, Reading, svars
  <2> QED BY <2>1, <2>2, <2>3, <1>t, ReadKeeps
<1> QED BY <1>1, <1>2, <1>3 DEF Body, At

(* The end of a stream, and a client that leaves: the receiver is dropped, *)
(* and the guard sets the flag unless it was disarmed.                     *)
LEMMA EndKeeps == ASSUME GatewayInv, NEW r \in Jobs, Tail200(r) \/ HangUp(r) PROVE GatewayInv'
<1>t. /\ GatewayTypeOK /\ OnlySubmitted /\ RequestInv(r)
      /\ req \in [Jobs -> ReqState] /\ req[r] \in ReqState
      /\ req[r].pc \in Reading
  BY DEF GatewayInv, GatewayTypeOK, Tail200, HangUp, At, Reading
<1>0. withdrawn' = withdrawn \cup {r} /\ UNCHANGED <<submitted, waiting, serving, stream>>
  BY DEF Tail200, HangUp, SWithdraw
<1>1. CASE Tail200(r)
  <2> DEFINE q == [req[r] EXCEPT !.pc = "done", !.armed = FALSE, !.reply = "events"]
  <2>1. /\ q \in ReqState /\ q.pc = "done" /\ q.late = req[r].late
        /\ q.sent = req[r].sent /\ q.last = req[r].last /\ q.reply = "events"
    BY <1>t DEF ReqState
  <2>2. req' = [req EXCEPT ![r] = q] /\ cancelled' = cancelled \cup {r}
        /\ Exhausted(r) /\ req[r].pc = "body"
    BY <1>1, <1>t DEF Tail200, At
  <2> HIDE DEF q
  <2>3. req'[r] = q /\ req' \in [Jobs -> ReqState]
    BY <2>1, <2>2, <1>t
  <2>4. GatewayTypeOK' /\ OnlySubmitted'
    BY <2>2, <2>3, <1>t, <1>0 DEF GatewayTypeOK, OnlySubmitted
  <2>5. req[r].sent = req[r].taken /\ r \in submitted
        /\ (req[r].late \/ stream[r].tokens > 0 \/ stream[r].final \in Endings \ Failures)
    BY <2>2, <1>t DEF RequestInv, HandlerInv, Reading
  <2>6. RequestInv(r)'
    BY <2>1, <2>2, <2>3, <2>5, <1>t, <1>0, Channel
       DEF RequestInv, HandlerInv, HonestTo, At, Reading
  <2> QED BY <2>1, <2>2, <2>4, <2>6, <1>0, HandlerStep
<1>2. CASE HangUp(r)
  <2> DEFINE q == [req[r] EXCEPT !.pc = "gone"]
  <2>1. /\ q \in ReqState /\ q.pc = "gone" /\ q.last = req[r].last /\ q.reply = req[r].reply
    BY <1>t DEF ReqState
  <2>2. req' = [req EXCEPT ![r] = q]
        /\ cancelled' = IF req[r].armed THEN cancelled \cup {r} ELSE cancelled
    BY <1>2 DEF HangUp
  <2> HIDE DEF q
  <2>3. req'[r] = q /\ req' \in [Jobs -> ReqState]
    BY <2>1, <2>2, <1>t
  <2>4. GatewayTypeOK' /\ OnlySubmitted'
    BY <2>2, <2>3, <1>t, <1>0 DEF GatewayTypeOK, OnlySubmitted
  <2>6. RequestInv(r)'
    BY <2>1, <2>2, <2>3, <1>t, <1>0, Channel
       DEF RequestInv, HandlerInv, HonestTo, At, Reading
  <2> QED BY <2>1, <2>2, <2>4, <2>6, <1>0, HandlerStep
<1> QED BY <1>1, <1>2

-----------------------------------------------------------------------------
(* The theorems.                                                           *)

LEMMA GatewayStart == Init => GatewayInv
BY DEF Init, SInit, GatewayInv, GatewayTypeOK, OnlySubmitted, RequestInv, HandlerInv, HonestTo,
       Untouched, At, Reading, ReqState, StreamState

LEMMA GatewayStep == GatewayInv /\ [Next]_vars => GatewayInv'
<1> SUFFICES ASSUME GatewayInv, [Next]_vars PROVE GatewayInv'
  OBVIOUS
<1>1. ASSUME NEW r \in Jobs, Arrive(r) \/ Handle(r) \/ HangUp(r) PROVE GatewayInv'
  BY <1>1, ArriveKeeps, SubmitKeeps, CollectKeeps, PeekKeeps, StreamKeeps, EndKeeps DEF Handle
<1>2. CASE UNCHANGED vars
  BY <1>2 DEF vars, svars, gatewayVars, GatewayInv, GatewayTypeOK, OnlySubmitted, RequestInv,
              HandlerInv, HonestTo, Untouched, At
<1> QED BY <1>1, <1>2, ServeKeeps DEF Next

(* How far the service, the handlers and the clients have got, for any     *)
(* number of them.                                                         *)
THEOREM GatewayInvariance == Spec => []GatewayInv
BY GatewayStart, GatewayStep, PTL DEF Spec

(* A client that hangs up takes its job with it, unless it had read the    *)
(* last chunk, and nobody else's: no job of a request in flight is ever    *)
(* cancelled by the gateway.                                               *)
THEOREM AbandonedIsCancelled == Spec => []CancelledIfAbandoned
<1>1. GatewayInv => CancelledIfAbandoned
  BY DEF GatewayInv, GatewayTypeOK, RequestInv, HandlerInv, CancelledIfAbandoned, HungUp,
         InFlight, At
<1> QED BY <1>1, GatewayInvariance, PTL

(* An answer is every token generated and the ending, and a failure is     *)
(* told as one unless tokens or headers were already on the way.           *)
THEOREM AnswersAreHonest == Spec => []AnswerIsHonest
<1>1. GatewayInv => AnswerIsHonest
  BY DEF GatewayInv, RequestInv, HonestTo, AnswerIsHonest
<1> QED BY <1>1, GatewayInvariance, PTL

-----------------------------------------------------------------------------
(* The dialects: what a client makes of the events it is sent.             *)

\* From one place a client comes to another by these events.
Comes(dialect, from, es, to) ==
  \E run : /\ run[0] = from /\ run[Len(es)] = to
          /\ \A i \in 1..Len(es) : run[i] = Dialect!Reads(dialect, run[i - 1], es[i])

Spot(at, block, next) == [at |-> at, block |-> block, next |-> next]
Outset == Spot("start", 0, 0)

LEMMA LeastNatural ==
  ASSUME NEW T, T \subseteq Nat, T # {} PROVE \E x \in T : \A y \in T : x <= y
<1>1. PICK x \in T : \A y \in T : ~ (<<y, x>> \in OpToRel(<, Nat))
  BY NatLessThanWellFounded, WFMin
<1>2. ASSUME NEW y \in T, y < x PROVE FALSE
  BY <1>1, <1>2 DEF OpToRel
<1> QED BY <1>2

\* Where a run ends is where the client is: it takes one place after another.
LEMMA RunIsClient ==
  ASSUME NEW dialect, NEW es, Len(es) \in Nat, NEW to, Comes(dialect, Outset, es, to)
  PROVE  Dialect!Places(dialect, es)[Len(es)] = to
<1> DEFINE N == Len(es)
           Follows(f, i) == IF i = 0 THEN Outset ELSE Dialect!Reads(dialect, f[i - 1], es[i])
<1>1. PICK run : /\ run[0] = Outset /\ run[N] = to
                 /\ \A i \in 1..N : run[i] = Dialect!Reads(dialect, run[i - 1], es[i])
  BY DEF Comes
<1> DEFINE g == [i \in 0..N |-> run[i]]
<1>2. g = [i \in 0..N |-> Follows(g, i)]
  <2>1. ASSUME NEW i \in 0..N PROVE g[i] = Follows(g, i)
    <3>1. CASE i = 0
      BY <1>1, <3>1
    <3>2. CASE i # 0
      <4>1. i \in 1..N /\ i - 1 \in 0..N
        BY <3>2
      <4>2. g[i] = run[i] /\ g[i - 1] = run[i - 1]
        BY <4>1
      <4> QED BY <1>1, <3>2, <4>1, <4>2
    <3> QED BY <3>1, <3>2
  <2> HIDE DEF Follows
  <2> QED BY <2>1
<1>3. PICK f : f = Dialect!Places(dialect, es)
  OBVIOUS
<1>4. f = [i \in 0..N |-> Follows(f, i)]
  <2>1. Dialect!Places(dialect, es) = [i \in 0..N |-> Follows(Dialect!Places(dialect, es), i)]
    BY <1>2 DEF Dialect!Places, Outset, Spot
  <2> QED BY <1>3, <2>1
<1> DEFINE wrong == {i \in 0..N : f[i] # run[i]}
<1>5. wrong = {}
  <2> SUFFICES ASSUME wrong # {} PROVE FALSE
    OBVIOUS
  <2>0. wrong \subseteq Nat
    OBVIOUS
  <2> HIDE DEF wrong
  <2>1. PICK k \in wrong : \A j \in wrong : k <= j
    BY <2>0, LeastNatural
  <2> USE DEF wrong
  <2>2. CASE k = 0
    BY <1>1, <1>4, <2>1, <2>2
  <2>3. CASE k # 0
    <3>1. k \in 1..N /\ k - 1 \in 0..N /\ f[k - 1] = run[k - 1]
      BY <2>1, <2>3
    <3>2. f[k] = Dialect!Reads(dialect, f[k - 1], es[k])
      BY <1>4, <2>3, <3>1
    <3> QED BY <1>1, <2>1, <3>1, <3>2
  <2> QED BY <2>2, <2>3
<1> QED BY <1>1, <1>3, <1>5

\* One run after another.
LEMMA ComesFurther ==
  ASSUME NEW dialect, NEW S, NEW es \in Seq(S), NEW more \in Seq(S), NEW from, NEW mid, NEW to,
         Comes(dialect, from, es, mid), Comes(dialect, mid, more, to)
  PROVE  Comes(dialect, from, es \o more, to)
<1>1. PICK run : /\ run[0] = from /\ run[Len(es)] = mid
                 /\ \A i \in 1..Len(es) : run[i] = Dialect!Reads(dialect, run[i - 1], es[i])
  BY DEF Comes
<1>2. PICK next : /\ next[0] = mid /\ next[Len(more)] = to
                  /\ \A i \in 1..Len(more) : next[i] = Dialect!Reads(dialect, next[i - 1], more[i])
  BY DEF Comes
<1> DEFINE m == Len(es)  n == Len(more)  all == es \o more
           g == [i \in 0..(m + n) |-> IF i <= m THEN run[i] ELSE next[i - m]]
<1>3. m \in Nat /\ n \in Nat /\ Len(all) = m + n
  OBVIOUS
<1>4. g[0] = from /\ g[m + n] = to
  <2>1. CASE n = 0
    BY <1>1, <1>2, <1>3, <2>1
  <2>2. CASE n # 0
    <3>1. ~(m + n <= m) /\ (m + n) - m = n /\ m + n \in 0..(m + n) /\ 0 \in 0..(m + n) /\ 0 <= m
      BY <1>3, <2>2
    <3> QED BY <1>1, <1>2, <3>1
  <2> QED BY <2>1, <2>2
<1>5. ASSUME NEW i \in 1..(m + n) PROVE g[i] = Dialect!Reads(dialect, g[i - 1], all[i])
  <2>1. CASE i <= m
    <3>1. i \in 1..m /\ i \in 0..(m + n) /\ i - 1 \in 0..(m + n) /\ i - 1 <= m
      BY <1>3, <2>1
    <3>2. g[i] = run[i] /\ g[i - 1] = run[i - 1] /\ all[i] = es[i]
      BY <2>1, <3>1
    <3> QED BY <1>1, <3>1, <3>2
  <2>2. CASE ~(i <= m)
    <3>1. i - m \in 1..n /\ i \in 0..(m + n) /\ i - 1 \in 0..(m + n)
      BY <1>3, <2>2
    <3>2. g[i] = next[i - m] /\ all[i] = more[i - m]
      BY <2>2, <3>1
    <3>3. g[i - 1] = next[(i - m) - 1]
      <4>1. CASE i = m + 1
        BY <1>1, <1>2, <1>3, <3>1, <4>1
      <4>2. CASE i # m + 1
        <5>1. ~(i - 1 <= m) /\ (i - 1) - m = (i - m) - 1
          BY <1>3, <2>2, <4>2
        <5> QED BY <3>1, <5>1
      <4> QED BY <4>1, <4>2
    <3> QED BY <1>2, <3>1, <3>2, <3>3
  <2> QED BY <2>1, <2>2
<1> HIDE DEF g
<1> QED BY <1>3, <1>4, <1>5 DEF Comes

\* A client that every event leaves where it is.
LEMMA ComesNowhere ==
  ASSUME NEW dialect, NEW es, Len(es) \in Nat, NEW at,
         \A i \in 1..Len(es) : Dialect!Reads(dialect, at, es[i]) = at
  PROVE  Comes(dialect, at, es, at)
<1> DEFINE g == [i \in 0..Len(es) |-> at]
<1>1. g[0] = at /\ g[Len(es)] = at
  OBVIOUS
<1>2. \A i \in 1..Len(es) : g[i] = at /\ g[i - 1] = at
  OBVIOUS
<1> HIDE DEF g
<1> QED BY <1>1, <1>2 DEF Comes

LEMMA ComesByOne ==
  ASSUME NEW dialect, NEW e, NEW from
  PROVE  Comes(dialect, from, <<e>>, Dialect!Reads(dialect, from, e))
<1> DEFINE g == [i \in 0..1 |-> IF i = 0 THEN from ELSE Dialect!Reads(dialect, from, e)]
<1>1. g[0] = from /\ g[1] = Dialect!Reads(dialect, from, e)
  OBVIOUS
<1>2. Len(<<e>>) = 1 /\ <<e>>[1] = e
  OBVIOUS
<1>3. \A i \in 1..1 : i = 1
  OBVIOUS
<1> HIDE DEF g
<1> QED BY <1>1, <1>2, <1>3 DEF Comes

LEMMA ComesByTwo ==
  ASSUME NEW dialect, NEW e, NEW f, NEW from, NEW mid, NEW to,
         mid = Dialect!Reads(dialect, from, e), to = Dialect!Reads(dialect, mid, f)
  PROVE  Comes(dialect, from, <<e, f>>, to)
<1> DEFINE g == [i \in 0..2 |-> IF i = 0 THEN from ELSE IF i = 1 THEN mid ELSE to]
<1>1. g[0] = from /\ g[1] = mid /\ g[2] = to
  OBVIOUS
<1>2. Len(<<e, f>>) = 2 /\ <<e, f>>[1] = e /\ <<e, f>>[2] = f
  OBVIOUS
<1>3. \A i \in 1..2 : i = 1 \/ i = 2
  OBVIOUS
<1> HIDE DEF g
<1>4. ASSUME NEW i \in 1..2 PROVE g[i] = Dialect!Reads(dialect, g[i - 1], <<e, f>>[i])
  <2>1. CASE i = 1
    BY <1>1, <1>2, <2>1
  <2>2. CASE i = 2
    BY <1>1, <1>2, <2>2
  <2> QED BY <1>3, <2>1, <2>2
<1> QED BY <1>1, <1>2, <1>4 DEF Comes

LEMMA ErrorIsPassed ==
  ASSUME NEW dialect, NEW e, NEW c, e.kind = "error", c.at \in {"text", "block"}
  PROVE  Dialect!Reads(dialect, c, e) = c
BY DEF Dialect!Reads

\* Position k of a sequence of triples.
LEMMA Thirds ==
  ASSUME NEW n \in Nat, NEW k \in 1..(3 * n)
  PROVE  \E j \in 1..n : /\ (k + 2) \div 3 = j
                         /\ \/ k = 3 * j - 2 /\ (k - 1) % 3 = 0 /\ k % 3 = 1
                            \/ k = 3 * j - 1 /\ (k - 1) % 3 = 1 /\ k % 3 = 2
                            \/ k = 3 * j /\ (k - 1) % 3 = 2 /\ k % 3 = 0
<1> DEFINE j == (k + 2) \div 3
<1>1. j \in 1..n /\ (k = 3 * j - 2 \/ k = 3 * j - 1 \/ k = 3 * j)
  OBVIOUS
<1> HIDE DEF j
<1>2. (k + 2) \div 3 = j
  BY DEF j
<1>3. \/ k = 3 * j - 2 /\ (k - 1) % 3 = 0 /\ k % 3 = 1
      \/ k = 3 * j - 1 /\ (k - 1) % 3 = 1 /\ k % 3 = 2
      \/ k = 3 * j /\ (k - 1) % 3 = 2 /\ k % 3 = 0
  BY <1>1
<1> QED BY <1>1, <1>2, <1>3

LEMMA BlocksAre ==
  ASSUME calls \in Nat
  PROVE  /\ Len(Dialect!ToolBlocks) = 3 * calls
         /\ DOMAIN Dialect!ToolBlocks = 1..(3 * calls)
         /\ \A j \in 1..calls :
              /\ Dialect!ToolBlocks[3 * j - 2] = Dialect!Event("block_start", j, "tool")
              /\ Dialect!ToolBlocks[3 * j - 1] = Dialect!Event("delta", j, "input")
              /\ Dialect!ToolBlocks[3 * j] = Dialect!Event("block_stop", j, "")
<1>1. 3 * calls \in Nat
  OBVIOUS
<1>2. ASSUME NEW j \in 1..calls
      PROVE  /\ 3 * j - 2 \in 1..(3 * calls) /\ ((3 * j - 2) + 2) \div 3 = j /\ (((3 * j - 2) - 1) % 3) + 1 = 1
             /\ 3 * j - 1 \in 1..(3 * calls) /\ ((3 * j - 1) + 2) \div 3 = j /\ (((3 * j - 1) - 1) % 3) + 1 = 2
             /\ 3 * j \in 1..(3 * calls) /\ ((3 * j) + 2) \div 3 = j /\ (((3 * j) - 1) % 3) + 1 = 3
  OBVIOUS
<1>3. ASSUME NEW j
      PROVE  /\ Dialect!Block(j)[1] = Dialect!Event("block_start", j, "tool")
             /\ Dialect!Block(j)[2] = Dialect!Event("delta", j, "input")
             /\ Dialect!Block(j)[3] = Dialect!Event("block_stop", j, "")
  BY DEF Dialect!Block
<1>4. Dialect!ToolBlocks = [k \in 1..(3 * calls) |-> Dialect!Block((k + 2) \div 3)[((k - 1) % 3) + 1]]
  BY DEF Dialect!ToolBlocks
<1>5. ASSUME NEW j \in 1..calls
      PROVE  /\ Dialect!ToolBlocks[3 * j - 2] = Dialect!Block(j)[1]
             /\ Dialect!ToolBlocks[3 * j - 1] = Dialect!Block(j)[2]
             /\ Dialect!ToolBlocks[3 * j] = Dialect!Block(j)[3]
  BY <1>2, <1>4
<1>6. Len(Dialect!ToolBlocks) = 3 * calls /\ DOMAIN Dialect!ToolBlocks = 1..(3 * calls)
  <2> DEFINE N == 3 * calls
             Piece(k) == Dialect!Block((k + 2) \div 3)[((k - 1) % 3) + 1]
  <2>1. Dialect!ToolBlocks = [k \in 1..N |-> Piece(k)] /\ N \in Nat
    BY <1>1, <1>4
  <2> HIDE DEF N, Piece
  <2>2. Len(Dialect!ToolBlocks) = N /\ DOMAIN Dialect!ToolBlocks = 1..N
    BY <2>1
  <2> QED BY <2>2 DEF N
<1> QED BY <1>3, <1>5, <1>6, Zenon

\* A client reads the blocks of the calls, one after another.
LEMMA BlocksAreRead ==
  ASSUME calls \in Nat
  PROVE  Comes("anthropic", Spot("between", 0, 1), Dialect!ToolBlocks, Spot("between", calls, calls + 1))
<1> DEFINE g == [k \in 0..(3 * calls) |->
                   IF k % 3 = 0 THEN Spot("between", k \div 3, (k \div 3) + 1)
                   ELSE Spot("block", (k + 2) \div 3, ((k + 2) \div 3) + 1)]
           all == Dialect!ToolBlocks
<1>1. g[0] = Spot("between", 0, 1) /\ g[3 * calls] = Spot("between", calls, calls + 1)
  <2>1. /\ 0 \in 0..(3 * calls) /\ 0 % 3 = 0 /\ 0 \div 3 = 0
        /\ 3 * calls \in 0..(3 * calls) /\ (3 * calls) % 3 = 0 /\ (3 * calls) \div 3 = calls
    OBVIOUS
  <2> QED BY <2>1
<1>2. ASSUME NEW j \in 1..calls
      PROVE  /\ g[3 * j - 3] = Spot("between", j - 1, j)
             /\ g[3 * j - 2] = Spot("block", j, j + 1)
             /\ g[3 * j - 1] = Spot("block", j, j + 1)
             /\ g[3 * j] = Spot("between", j, j + 1)
  <2>1. /\ 3 * j - 3 \in 0..(3 * calls) /\ (3 * j - 3) % 3 = 0 /\ (3 * j - 3) \div 3 = j - 1 /\ (j - 1) + 1 = j
        /\ 3 * j - 2 \in 0..(3 * calls) /\ (3 * j - 2) % 3 = 1 /\ ((3 * j - 2) + 2) \div 3 = j
        /\ 3 * j - 1 \in 0..(3 * calls) /\ (3 * j - 1) % 3 = 2 /\ ((3 * j - 1) + 2) \div 3 = j
        /\ 3 * j \in 0..(3 * calls) /\ (3 * j) % 3 = 0 /\ (3 * j) \div 3 = j
    OBVIOUS
  <2> QED BY <2>1
<1> HIDE DEF g
<1>3. ASSUME NEW k \in 1..(3 * calls) PROVE g[k] = Dialect!Reads("anthropic", g[k - 1], all[k])
  <2>1. PICK j \in 1..calls : k = 3 * j - 2 \/ k = 3 * j - 1 \/ k = 3 * j
    BY Thirds
  <2>2. /\ Dialect!Reads("anthropic", Spot("between", j - 1, j), Dialect!Event("block_start", j, "tool"))
             = Spot("block", j, j + 1)
        /\ Dialect!Reads("anthropic", Spot("block", j, j + 1), Dialect!Event("delta", j, "input"))
             = Spot("block", j, j + 1)
        /\ Dialect!Reads("anthropic", Spot("block", j, j + 1), Dialect!Event("block_stop", j, ""))
             = Spot("between", j, j + 1)
    BY DEF Dialect!Reads, Dialect!Event, Spot
  <2>3. CASE k = 3 * j - 2
    <3>1. k - 1 = 3 * j - 3
      BY <2>3
    <3> QED BY <1>2, <2>2, <2>3, <3>1, BlocksAre
  <2>4. CASE k = 3 * j - 1
    <3>1. k - 1 = 3 * j - 2
      BY <2>4
    <3> QED BY <1>2, <2>2, <2>4, <3>1, BlocksAre
  <2>5. CASE k = 3 * j
    BY <1>2, <2>2, <2>5, BlocksAre
  <2> QED BY <2>1, <2>3, <2>4, <2>5
<1>4. Len(all) = 3 * calls
  BY BlocksAre
<1> QED BY <1>1, <1>3, <1>4 DEF Comes

-----------------------------------------------------------------------------
(* Counting what is sent.                                                  *)

LEMMA SameCardinality == \A S : Dialect!Cardinality(S) = Cardinality(S)
BY DEF Dialect!Cardinality, Cardinality

\* K is I, with J after the first m.
Joins(m, n, I, J, K) ==
  /\ I \subseteq 1..m /\ J \subseteq 1..n /\ K \subseteq 1..(m + n)
  /\ \A i \in 1..m : i \in K <=> i \in I
  /\ \A j \in 1..n : m + j \in K <=> j \in J

LEMMA CountsAdd ==
  ASSUME NEW m \in Nat, NEW n \in Nat, NEW I, NEW J, NEW K, Joins(m, n, I, J, K)
  PROVE  /\ Cardinality(I) \in Nat /\ Cardinality(J) \in Nat /\ Cardinality(K) \in Nat
         /\ Cardinality(K) = Cardinality(I) + Cardinality(J)
<1> USE DEF Joins
<1>1. IsFiniteSet(I) /\ IsFiniteSet(J)
  <2>1. IsFiniteSet(1..m) /\ IsFiniteSet(1..n)
    BY FS_Interval
  <2> QED BY <2>1, FS_Subset
<1> DEFINE shifted == {k \in K : k > m}
           g == [j \in J |-> m + j]
<1>2. g \in Bijection(J, shifted)
  <2>1. g \in [J -> shifted]
    OBVIOUS
  <2>2. \A a, b \in J : g[a] = g[b] => a = b
    OBVIOUS
  <2>3. \A k \in shifted : \E j \in J : g[j] = k
    <3> SUFFICES ASSUME NEW k \in shifted PROVE \E j \in J : g[j] = k
      OBVIOUS
    <3>1. k - m \in 1..n /\ m + (k - m) = k
      OBVIOUS
    <3>2. k - m \in J
      BY <3>1
    <3> QED BY <3>1, <3>2
  <2> HIDE DEF g, shifted
  <2> QED BY <2>1, <2>2, <2>3 DEF Bijection, Injection, Surjection, IsInjective
<1>3. IsFiniteSet(shifted) /\ Cardinality(shifted) = Cardinality(J)
  BY <1>1, <1>2, FS_Bijection DEF ExistsBijection
<1>4. K = I \cup shifted /\ I \cap shifted = {}
  <2>1. \A k \in K : k \in Int /\ (k <= m => k \in I)
    OBVIOUS
  <2>2. \A k \in I : k \in K /\ k \in Int /\ k <= m
    OBVIOUS
  <2>3. \A k : k \in shifted <=> k \in K /\ k > m
    OBVIOUS
  <2> HIDE DEF shifted, Joins
  <2>4. \A k : k \in K => k \in I \/ k \in shifted
    BY <2>1, <2>3
  <2>5. \A k : k \in I => k \in K /\ k \notin shifted
    BY <2>2, <2>3
  <2> QED BY <2>3, <2>4, <2>5
<1> HIDE DEF shifted
<1>5. IsFiniteSet(K) /\ Cardinality(K) = Cardinality(I) + Cardinality(shifted) - Cardinality(I \cap shifted)
  BY <1>1, <1>3, <1>4, FS_Union
<1>6. Cardinality(I \cap shifted) = 0
  BY <1>4, FS_EmptySet
<1>7. Cardinality(I) \in Nat /\ Cardinality(J) \in Nat /\ Cardinality(K) \in Nat
  BY <1>1, <1>5, FS_CardinalityType
<1> QED BY <1>3, <1>5, <1>6, <1>7

Kinds == {"unavailable", "status", "text", "tool", "opening", "delta", "closing", "DONE", "error",
          "message_start", "block_start", "block_stop", "message_delta", "message_stop"}
Bodies == {"", "prose", "call", "text", "tool", "input", "stop", "length", "cancelled", "error",
           "tool_calls", "tool_use", "max_tokens", "stop_sequence", "end_turn"}
Told == [kind : Kinds, index : Int, body : Bodies]

\* The deltas of a stream, those of prose, and the calls.
DeltasIn(es) == {i \in DOMAIN es : es[i].kind = "delta"}
ProseIn(es) == {i \in DOMAIN es : es[i].kind = "delta" /\ es[i].body = "prose"}
ToolsIn(es) == {i \in DOMAIN es : \/ es[i].kind = "tool"
                                  \/ es[i].kind = "block_start" /\ es[i].body = "tool"}

LEMMA SentAdds ==
  ASSUME NEW es \in Seq(Told), NEW more \in Seq(Told)
  PROVE  /\ Cardinality(ProseIn(es)) \in Nat /\ Cardinality(ProseIn(more)) \in Nat
         /\ Cardinality(ToolsIn(es)) \in Nat /\ Cardinality(ToolsIn(more)) \in Nat
         /\ Cardinality(ProseIn(es \o more)) = Cardinality(ProseIn(es)) + Cardinality(ProseIn(more))
         /\ Cardinality(ToolsIn(es \o more)) = Cardinality(ToolsIn(es)) + Cardinality(ToolsIn(more))
<1> DEFINE all == es \o more  m == Len(es)  n == Len(more)
<1>1. /\ m \in Nat /\ n \in Nat /\ DOMAIN all = 1..(m + n) /\ DOMAIN es = 1..m /\ DOMAIN more = 1..n
      /\ \A i \in 1..m : i \in 1..(m + n) /\ all[i] = es[i]
      /\ \A j \in 1..n : m + j \in 1..(m + n) /\ all[m + j] = more[j]
  OBVIOUS
<1> HIDE DEF all, m, n
<1>2. Joins(m, n, ProseIn(es), ProseIn(more), ProseIn(all))
  BY <1>1 DEF ProseIn, Joins
<1>3. Joins(m, n, ToolsIn(es), ToolsIn(more), ToolsIn(all))
  BY <1>1 DEF ToolsIn, Joins
<1>4. /\ Cardinality(ProseIn(es)) \in Nat /\ Cardinality(ProseIn(more)) \in Nat
      /\ Cardinality(ProseIn(all)) = Cardinality(ProseIn(es)) + Cardinality(ProseIn(more))
  BY <1>1, <1>2, CountsAdd
<1>5. /\ Cardinality(ToolsIn(es)) \in Nat /\ Cardinality(ToolsIn(more)) \in Nat
      /\ Cardinality(ToolsIn(all)) = Cardinality(ToolsIn(es)) + Cardinality(ToolsIn(more))
  BY <1>1, <1>3, CountsAdd
<1> QED BY <1>4, <1>5 DEF all

\* One more piece is one more of its kind.
LEMMA PieceAdds ==
  ASSUME NEW pieces \in Seq(Dialect!Pieces), NEW p \in Dialect!Pieces
  PROVE  /\ Dialect!Prose(pieces) \in Nat /\ Dialect!Calls(pieces) \in Nat
         /\ Dialect!Prose(Append(pieces, p)) = Dialect!Prose(pieces) + IF p # "call" THEN 1 ELSE 0
         /\ Dialect!Calls(Append(pieces, p)) = Dialect!Calls(pieces) + IF p = "call" THEN 1 ELSE 0
<1> DEFINE all == Append(pieces, p)  m == Len(pieces)
           Among(T, t) == {i \in DOMAIN t : t[i] \in T}
           Here(T) == {j \in 1..1 : p \in T}
           prose == {x \in Dialect!Pieces : x # "call"}
<1>1. /\ m \in Nat /\ DOMAIN all = 1..(m + 1) /\ DOMAIN pieces = 1..m
      /\ \A i \in 1..m : i \in 1..(m + 1) /\ all[i] = pieces[i]
      /\ \A j \in 1..1 : m + j \in 1..(m + 1) /\ all[m + j] = p
  OBVIOUS
<1>4. all \in Seq(Dialect!Pieces)
  OBVIOUS
<1> HIDE DEF all, m
<1>2. ASSUME NEW T
      PROVE  /\ Cardinality(Among(T, pieces)) \in Nat
             /\ Cardinality(Among(T, all)) = Cardinality(Among(T, pieces)) + IF p \in T THEN 1 ELSE 0
  <2>1. Joins(m, 1, Among(T, pieces), Here(T), Among(T, all))
    BY <1>1 DEF Joins
  <2>2. Cardinality(Here(T)) = IF p \in T THEN 1 ELSE 0
    <3>1. CASE p \in T
      <4>1. Here(T) = {1}
        BY <3>1
      <4> QED BY <3>1, <4>1, FS_Singleton
    <3>2. CASE p \notin T
      <4>1. Here(T) = {}
        BY <3>2
      <4> QED BY <3>2, <4>1, FS_EmptySet
    <3> QED BY <3>1, <3>2
  <2> HIDE DEF Among, Here
  <2>3. /\ Cardinality(Among(T, pieces)) \in Nat
        /\ Cardinality(Among(T, all)) = Cardinality(Among(T, pieces)) + Cardinality(Here(T))
    BY <1>1, <2>1, CountsAdd
  <2> QED BY <2>2, <2>3
<1>3. ASSUME NEW t \in Seq(Dialect!Pieces)
      PROVE  /\ Dialect!Prose(t) = Cardinality(Among(prose, t))
             /\ Dialect!Calls(t) = Cardinality(Among({"call"}, t))
  <2>1. \A i \in DOMAIN t : t[i] \in Dialect!Pieces
    OBVIOUS
  <2>2. {i \in DOMAIN t : t[i] # "call"} = Among(prose, t)
    BY <2>1
  <2>3. {i \in DOMAIN t : t[i] = "call"} = Among({"call"}, t)
    OBVIOUS
  <2> QED BY <2>2, <2>3, SameCardinality DEF Dialect!Prose, Dialect!Calls
<1>5. (p \in prose <=> p # "call") /\ (p \in {"call"} <=> p = "call")
  OBVIOUS
<1>6. /\ Cardinality(Among(prose, pieces)) \in Nat
      /\ Cardinality(Among(prose, all)) = Cardinality(Among(prose, pieces)) + IF p \in prose THEN 1 ELSE 0
  BY <1>2
<1>7. /\ Cardinality(Among({"call"}, pieces)) \in Nat
      /\ Cardinality(Among({"call"}, all)) = Cardinality(Among({"call"}, pieces)) + IF p \in {"call"} THEN 1 ELSE 0
  BY <1>2
<1> HIDE DEF Among, prose
<1> QED BY <1>3, <1>4, <1>5, <1>6, <1>7 DEF all

\* The parser keeps no more prose than there is.
LEMMA KeepsIs ==
  ASSUME NEW pieces \in Seq(Dialect!Pieces)
  PROVE  Dialect!Keeps(pieces) \in Nat /\ Dialect!Keeps(pieces) <= Dialect!Prose(pieces)
<1> DEFINE all == {i \in DOMAIN pieces : pieces[i] # "call"}
           before == {i \in DOMAIN pieces : \A j \in 1..i : pieces[j] # "call"}
<1>1. Dialect!Prose(pieces) \in Nat
  <2>1. "call" \in Dialect!Pieces
    BY DEF Dialect!Pieces
  <2> QED BY <2>1, PieceAdds
<1>2. before \subseteq all /\ all \subseteq 1..Len(pieces)
  OBVIOUS
<1>3. IsFiniteSet(all)
  BY <1>2, FS_Interval, FS_Subset
<1>4. Cardinality(before) \in Nat /\ Cardinality(before) <= Cardinality(all)
  <2>1. IsFiniteSet(before) /\ Cardinality(before) <= Cardinality(all)
    BY <1>2, <1>3, FS_Subset
  <2> QED BY <2>1, FS_CardinalityType
<1>5. Dialect!Prose(pieces) = Cardinality(all)
  BY SameCardinality DEF Dialect!Prose
<1>6. Dialect!Keeps(pieces) \in {Dialect!Prose(pieces), Cardinality(before), 0}
  <2>1. Dialect!Cardinality(before) = Cardinality(before)
    BY SameCardinality
  <2> HIDE DEF all
  <2> QED BY <2>1 DEF Dialect!Keeps
<1> HIDE DEF all, before
<1> QED BY <1>1, <1>4, <1>5, <1>6

-----------------------------------------------------------------------------
(* The dialects: the inductive invariant.                                  *)

DialectTypeOK ==
  /\ talk.dialect \in {"openai", "anthropic"}
  /\ output \in Seq(Dialect!Pieces)
  /\ reason \in Bodies
  /\ calls \in Nat
  /\ events \in Seq(Told)

(* Where the client of a stream is while text arrives.                     *)
InText == IF talk.dialect = "openai" THEN Spot("text", 0, 0) ELSE Spot("block", 0, 1)

(* How far the client has come, by how far the handler has.                *)
Followed ==
  /\ step \notin {"stream", "tail", "done"} => events = <<>>
  /\ step = "stream" => Comes(talk.dialect, Outset, events, InText)
  /\ step = "tail" => \/ Comes(talk.dialect, Outset, events, InText)
                      \/ talk.dialect = "openai" /\ Comes(talk.dialect, Outset, events, Spot("closed", 0, 0))
  /\ step = "done" => \/ ~Dialect!Streamed
                      \/ \E to : to.at = "end" /\ Comes(talk.dialect, Outset, events, to)

(* A sieved stream has sent prose only, and no more than there is; with    *)
(* the final chunk it has sent what is kept, and the calls or their number.*)
Withheld ==
  /\ DeltasIn(events) = ProseIn(events)
  /\ Cardinality(ToolsIn(events)) = 0
  /\ Cardinality(ProseIn(events)) <= Dialect!Prose(output)

Carried ==
  /\ ~talk.blank => Cardinality(ProseIn(events)) >= Dialect!Keeps(output)
  /\ Cardinality(ProseIn(events)) <= Dialect!Prose(output)

Delivered ==
  /\ Carried
  /\ IF talk.dialect = "openai" THEN Cardinality(ToolsIn(events)) = Dialect!Calls(output)
     ELSE Cardinality(ToolsIn(events)) = 0 /\ calls = Dialect!Calls(output)

Counted ==
  /\ step \notin {"tail", "done"} => reason = "stop"
  /\ step = "stream" /\ Dialect!Sieved => Withheld
  /\ step = "tail" /\ Dialect!Sieved /\ reason \in {"tool_calls", "tool_use"} => Delivered
  /\ AnswerArrives

DialectInv == DialectTypeOK /\ Followed /\ Counted

LEMMA ArrivesIs ==
  AnswerArrives <=> (Dialect!Answered => Carried /\ Cardinality(ToolsIn(events)) = Dialect!Calls(output))
<1>1. Dialect!ProseSent = ProseIn(events) /\ Dialect!ToolsSent = ToolsIn(events)
  BY DEF Dialect!ProseSent, Dialect!ToolsSent, ProseIn, ToolsIn
<1> QED BY <1>1, SameCardinality DEF AnswerArrives, Dialect!AnswerArrives, Carried

LEMMA ArrivesNext ==
  AnswerArrives' <=> (Dialect!Answered' => /\ Carried'
                                           /\ Cardinality(ToolsIn(events')) = Dialect!Calls(output'))
<1>1. Dialect!ProseSent' = ProseIn(events') /\ Dialect!ToolsSent' = ToolsIn(events')
  BY DEF Dialect!ProseSent, Dialect!ToolsSent, ProseIn, ToolsIn
<1> QED BY <1>1, SameCardinality DEF AnswerArrives, Dialect!AnswerArrives, Carried

\* Nothing is carried but by events.
LEMMA CarriedIs ==
  ASSUME UNCHANGED <<talk, output>>
  PROVE  Carried' <=> /\ ~talk.blank => Cardinality(ProseIn(events')) >= Dialect!Keeps(output)
                      /\ Cardinality(ProseIn(events')) <= Dialect!Prose(output)
<1>1. talk' = talk /\ output' = output
  OBVIOUS
<1>2. (Dialect!Keeps(output))' = Dialect!Keeps(output)
  BY <1>1 DEF Dialect!Keeps
<1> QED BY <1>1, <1>2 DEF Carried

LEMMA DialectStart == Dialect!DialectInit => DialectInv
<1> SUFFICES ASSUME Dialect!DialectInit PROVE DialectInv
  OBVIOUS
<1>1. DialectTypeOK
  BY DEF Dialect!DialectInit, Dialect!Requests, DialectTypeOK, Bodies
<1>2. Followed
  BY DEF Dialect!DialectInit, Followed
<1>3. Counted
  BY ArrivesIs DEF Dialect!DialectInit, Counted, Dialect!Answered
<1> QED BY <1>1, <1>2, <1>3 DEF DialectInv

\* An event is of its type.
LEMMA OneTold ==
  ASSUME NEW e \in Told
  PROVE  <<e>> \in Seq(Told) /\ <<e>> # <<>> /\ <<e>>[1] = e /\ Len(<<e>>) = 1 /\ DOMAIN <<e>> = 1..1
OBVIOUS

\* An answer that is not a stream.
LEMMA PlainKeeps ==
  ASSUME DialectInv, step' = "done", UNCHANGED <<talk, output, calls>>,
         reason' \in Bodies, events' \in Seq(Told), events' # <<>>,
         events'[1].kind \notin {"opening", "message_start"}
  PROVE  DialectInv'
<1>1. DialectTypeOK'
  BY DEF DialectInv, DialectTypeOK
<1>2. ~Dialect!Streamed'
  BY DEF Dialect!Streamed
<1>3. Followed'
  BY <1>2 DEF Followed
<1>4. AnswerArrives'
  <2>1. ~Dialect!Answered'
    BY <1>2 DEF Dialect!Answered
  <2> QED BY <2>1 DEF AnswerArrives, Dialect!AnswerArrives
<1>5. Counted'
  BY <1>4 DEF Counted
<1> QED BY <1>1, <1>3, <1>5 DEF DialectInv

\* Anything that leaves the stream alone and is not its end.
LEMMA QuietKeeps ==
  ASSUME DialectInv, step' \in {"peek", "collect", "new"}, step \in {"new", "collect"},
         UNCHANGED <<talk, reason, calls, events>>, output' \in Seq(Dialect!Pieces)
  PROVE  DialectInv'
<1>1. DialectTypeOK'
  BY DEF DialectInv, DialectTypeOK
<1>2. Followed'
  BY DEF DialectInv, Followed
<1>3. AnswerArrives'
  <2>1. ~Dialect!Answered'
    BY DEF Dialect!Answered
  <2> QED BY <2>1 DEF AnswerArrives, Dialect!AnswerArrives
<1>4. Counted'
  BY <1>3 DEF DialectInv, Counted
<1> QED BY <1>1, <1>2, <1>4 DEF DialectInv

LEMMA ReceiveKeeps ==
  ASSUME DialectInv, Dialect!Receive
  PROVE  DialectInv'
<1>1. CASE step' = "done"
  <2>1. events' = <<Dialect!Event("unavailable", 0, "")>>
    BY <1>1 DEF Dialect!Receive
  <2> DEFINE e == Dialect!Event("unavailable", 0, "")
  <2>4. e \in Told /\ e.kind = "unavailable"
    BY DEF Dialect!Event, Told, Kinds, Bodies
  <2> HIDE DEF e
  <2>2. events' \in Seq(Told) /\ events' # <<>> /\ events'[1].kind = "unavailable"
    BY <2>1, <2>4, OneTold DEF e
  <2>3. reason' \in Bodies /\ step' = "done" /\ UNCHANGED <<talk, output, calls>>
    BY <1>1 DEF Dialect!Receive, DialectInv, DialectTypeOK
  <2> QED BY <2>2, <2>3, PlainKeeps
<1>2. CASE step' # "done"
  <2>1. /\ step' \in {"peek", "collect", "new"} /\ step = "new"
        /\ UNCHANGED <<talk, reason, calls, events>>
    BY <1>2 DEF Dialect!Receive
  <2>2. output' \in Seq(Dialect!Pieces)
    BY DEF Dialect!Receive, DialectInv, DialectTypeOK
  <2> QED BY <2>1, <2>2, QuietKeeps
<1> QED BY <1>1, <1>2

LEMMA CollectedKeeps ==
  ASSUME DialectInv, NEW p \in Dialect!Pieces, Dialect!Collected(p)
  PROVE  DialectInv'
<1>1. /\ step' = "collect" /\ step = "collect"
      /\ UNCHANGED <<talk, reason, calls, events>>
  BY DEF Dialect!Collected
<1>2. output' \in Seq(Dialect!Pieces)
  BY DEF Dialect!Collected, DialectInv, DialectTypeOK
<1> QED BY <1>1, <1>2, QuietKeeps

\* A response has its text first, and a call or two if not.
LEMMA ResponseIs ==
  ASSUME NEW pieces \in Seq(Dialect!Pieces)
  PROVE  LET all == Dialect!Buffered(pieces)
         IN all \in Seq(Told) /\ all # <<>> /\ all[1].kind \notin {"opening", "message_start"}
<1> DEFINE text == IF Dialect!Keeps(pieces) = 0 THEN <<>> ELSE <<Dialect!Event("text", 0, "prose")>>
           from == Len(text)
           found == Dialect!Calls(pieces)
           used == [i \in 1..found |-> Dialect!Event("tool", from + i - 1, "")]
           none == <<Dialect!Event("text", 0, "")>>
<1>1. Dialect!Buffered(pieces) = IF text \o used = <<>> THEN none ELSE text \o used
  BY DEF Dialect!Buffered
<1> DEFINE e == Dialect!Event("text", 0, "prose")  b == Dialect!Event("text", 0, "")
<1>0. e \in Told /\ e.kind = "text" /\ b \in Told /\ b.kind = "text"
  BY DEF Dialect!Event, Told, Kinds, Bodies
<1>2. text \in Seq(Told) /\ (text = <<>> \/ text[1].kind = "text") /\ from \in Nat
  <2> HIDE DEF e
  <2>1. <<e>> \in Seq(Told) /\ <<e>>[1] = e
    BY <1>0, OneTold
  <2>2. text = <<>> \/ text = <<e>>
    BY DEF e
  <2> HIDE DEF text
  <2>3. CASE text = <<>>
    BY <2>3
  <2>4. CASE text = <<e>>
    BY <1>0, <2>1, <2>4
  <2> QED BY <2>2, <2>3, <2>4
<1>3. found \in Nat
  <2>1. "call" \in Dialect!Pieces
    BY DEF Dialect!Pieces
  <2> QED BY <2>1, PieceAdds
<1>4. used \in Seq(Told) /\ (\A i \in 1..Len(used) : used[i].kind = "tool")
  <2>1. from \in Nat /\ found \in Nat
    BY <1>2, <1>3
  <2> HIDE DEF from, found
  <2>2. ASSUME NEW i \in 1..found
        PROVE  /\ Dialect!Event("tool", from + i - 1, "") \in Told
               /\ Dialect!Event("tool", from + i - 1, "").kind = "tool"
    <3>1. from + i - 1 \in Int
      BY <2>1
    <3> QED BY <3>1 DEF Dialect!Event, Told, Kinds, Bodies
  <2> DEFINE Used(i) == Dialect!Event("tool", from + i - 1, "")
  <2>3. used = [i \in 1..found |-> Used(i)] /\ \A i \in 1..found : Used(i) \in Told /\ Used(i).kind = "tool"
    BY <2>2
  <2> HIDE DEF Used, used
  <2> QED BY <2>1, <2>3
<1>5. none \in Seq(Told) /\ none # <<>> /\ none[1].kind = "text"
  <2>1. none = <<b>>
    OBVIOUS
  <2> HIDE DEF b, none
  <2> QED BY <1>0, <2>1, OneTold
<1> HIDE DEF text, used, none, e, b
<1>6. /\ text \o used \in Seq(Told)
      /\ text \o used # <<>> => (text \o used)[1].kind \in {"text", "tool"}
  BY <1>2, <1>4
<1> QED BY <1>1, <1>5, <1>6

LEMMA RespondKeeps ==
  ASSUME DialectInv, Dialect!Respond
  PROVE  DialectInv'
<1>1. step' = "done" /\ UNCHANGED <<talk, output, calls>>
  BY DEF Dialect!Respond
<1>2. output \in Seq(Dialect!Pieces) /\ reason \in Bodies
  BY DEF DialectInv, DialectTypeOK
<1>3. reason' \in Bodies
  BY <1>2 DEF Dialect!Respond, Dialect!Closing, Dialect!Reasons, Bodies
<1>4. events' \in Seq(Told) /\ events' # <<>> /\ events'[1].kind \notin {"opening", "message_start"}
  <2> DEFINE e == Dialect!Event("status", 0, "")
  <2>3. e \in Told /\ e.kind = "status"
    BY DEF Dialect!Event, Told, Kinds, Bodies
  <2> HIDE DEF e
  <2>1. CASE events' = <<Dialect!Event("status", 0, "")>>
    BY <2>1, <2>3, OneTold DEF e
  <2>2. CASE events' = Dialect!Buffered(output)
    BY <1>2, <2>2, ResponseIs
  <2> QED BY <2>1, <2>2 DEF Dialect!Respond
<1> QED BY <1>1, <1>3, <1>4, PlainKeeps

\* Text, calls of the OpenAI dialect and errors leave the client in the text.
LEMMA StaysInText ==
  ASSUME DialectTypeOK, NEW more \in Seq(Told),
         \A i \in 1..Len(more) : \/ more[i].kind = "delta" /\ more[i].index = 0
                                 \/ more[i].kind = "error"
                                 \/ more[i].kind = "tool" /\ talk.dialect = "openai",
         Comes(talk.dialect, Outset, events, InText)
  PROVE  Comes(talk.dialect, Outset, events \o more, InText)
<1>1. ASSUME NEW i \in 1..Len(more) PROVE Dialect!Reads(talk.dialect, InText, more[i]) = InText
  <2>0. PICK e : e = more[i]
    OBVIOUS
  <2>1. CASE talk.dialect = "openai"
    <3>1. InText = Spot("text", 0, 0)
      BY <2>1 DEF InText
    <3>2. e.kind \in {"delta", "tool", "error"}
      BY <2>0
    <3>3. Dialect!Reads("openai", Spot("text", 0, 0), e) = Spot("text", 0, 0)
      <4>1. CASE e.kind = "error"
        <5>1. Spot("text", 0, 0).at = "text"
          BY DEF Spot
        <5> QED BY <4>1, <5>1, ErrorIsPassed
      <4>2. CASE e.kind = "delta"
        BY <4>2 DEF Dialect!Reads, Spot
      <4>3. CASE e.kind = "tool"
        BY <4>3 DEF Dialect!Reads, Spot
      <4> QED BY <3>2, <4>1, <4>2, <4>3
    <3> QED BY <2>0, <2>1, <3>1, <3>3
  <2>2. CASE talk.dialect = "anthropic"
    <3>1. InText = Spot("block", 0, 1)
      BY <2>2 DEF InText
    <3>2. e.kind = "error" \/ (e.kind = "delta" /\ e.index = 0)
      BY <2>0, <2>2
    <3>3. Dialect!Reads("anthropic", Spot("block", 0, 1), e) = Spot("block", 0, 1)
      BY <3>2 DEF Dialect!Reads, Spot
    <3> QED BY <2>0, <2>2, <3>1, <3>3
  <2> QED BY <2>1, <2>2 DEF DialectTypeOK
<1>2. Comes(talk.dialect, InText, more, InText)
  BY <1>1, ComesNowhere
<1>3. events \in Seq(Told)
  BY DEF DialectTypeOK
<1> QED BY <1>2, <1>3, ComesFurther

LEMMA NothingCounted ==
  ASSUME NEW es, DOMAIN es = {} PROVE Cardinality(ProseIn(es)) = 0 /\ Cardinality(ToolsIn(es)) = 0
<1>1. ProseIn(es) = {} /\ ToolsIn(es) = {}
  BY DEF ProseIn, ToolsIn
<1> QED BY <1>1, FS_EmptySet

LEMMA PeekKeepsDialect ==
  ASSUME DialectInv, Dialect!Peek
  PROVE  DialectInv'
<1> USE DEF DialectInv
<1>0. /\ step = "peek" /\ UNCHANGED <<talk, output, reason, calls>> /\ events = <<>> /\ reason = "stop"
      /\ DialectTypeOK
  BY DEF Dialect!Peek, Followed, Counted
<1>1. CASE step' = "done"
  <2> DEFINE e == Dialect!Event("status", 0, "")
  <2>1. e \in Told /\ e.kind = "status"
    BY DEF Dialect!Event, Told, Kinds, Bodies
  <2>2. events' = <<e>>
    BY <1>1 DEF Dialect!Peek
  <2> HIDE DEF e
  <2>3. events' \in Seq(Told) /\ events' # <<>> /\ events'[1].kind \notin {"opening", "message_start"}
    BY <2>1, <2>2, OneTold
  <2>4. reason' \in Bodies
    BY <1>0 DEF DialectTypeOK
  <2> QED BY <1>0, <1>1, <2>3, <2>4, PlainKeeps
<1>2. CASE step' # "done"
  <2> DEFINE o == Dialect!Event("opening", 0, "")
             a == Dialect!Event("message_start", 0, "")
             b == Dialect!Event("block_start", 0, "text")
  <2>1. /\ step' = "stream"
        /\ events' = events \o (IF talk.dialect = "openai" THEN <<o>> ELSE <<a, b>>)
    BY <1>2 DEF Dialect!Peek, Dialect!Sends
  <2>2. events' = IF talk.dialect = "openai" THEN <<o>> ELSE <<a, b>>
    <3> HIDE DEF o, a, b
    <3> QED BY <1>0, <2>1
  <2>3. /\ o \in Told /\ o.kind = "opening" /\ o.body = "" /\ a \in Told /\ a.kind = "message_start" /\ a.body = ""
        /\ b \in Told /\ b.kind = "block_start" /\ b.body = "text"
    BY DEF Dialect!Event, Told, Kinds, Bodies
  <2>4. /\ Dialect!Reads("openai", Outset, o) = Spot("text", 0, 0)
        /\ Dialect!Reads("anthropic", Outset, a) = Spot("between", 0, 0)
        /\ Dialect!Reads("anthropic", Spot("between", 0, 0), b) = Spot("block", 0, 1)
    BY DEF Dialect!Reads, Dialect!Event, Outset, Spot
  <2> HIDE DEF o, a, b
  <2>5. <<o>> \in Seq(Told) /\ <<a, b>> \in Seq(Told)
    <3>1. a \in Told /\ b \in Told /\ o \in Told
      BY <2>3
    <3> QED BY <3>1
  <2>6. DialectTypeOK'
    BY <1>0, <2>2, <2>5 DEF DialectTypeOK
  <2>7. Comes("openai", Outset, <<o>>, Spot("text", 0, 0))
    BY <2>4, ComesByOne
  <2>8. Comes("anthropic", Outset, <<a, b>>, Spot("block", 0, 1))
    BY <2>4, ComesByTwo
  <2>9. Followed'
    <3>1. CASE talk.dialect = "openai"
      <4>1. talk'.dialect = "openai" /\ events' = <<o>> /\ InText' = Spot("text", 0, 0)
        BY <1>0, <2>2, <3>1 DEF InText
      <4> QED BY <2>1, <2>7, <4>1 DEF Followed
    <3>2. CASE talk.dialect = "anthropic"
      <4>1. talk'.dialect = "anthropic" /\ events' = <<a, b>> /\ InText' = Spot("block", 0, 1)
        BY <1>0, <2>2, <3>2 DEF InText
      <4> QED BY <2>1, <2>8, <4>1 DEF Followed
    <3> QED BY <1>0, <3>1, <3>2 DEF DialectTypeOK
  <2>10. Withheld'
    <3>0. ASSUME NEW i \in DOMAIN events' PROVE events'[i] = o \/ events'[i] = a \/ events'[i] = b
      <4>1. CASE events' = <<o>>
        BY <4>1
      <4>2. CASE events' = <<a, b>>
        BY <4>2
      <4> QED BY <2>2, <4>1, <4>2
    <3>1. \A i \in DOMAIN events' : events'[i].kind \notin {"delta", "tool"} /\ events'[i].body # "tool"
      BY <2>3, <3>0
    <3>2. DeltasIn(events') = {} /\ ProseIn(events') = {} /\ ToolsIn(events') = {}
      BY <3>1 DEF DeltasIn, ProseIn, ToolsIn
    <3>3. Cardinality({}) = 0
      BY FS_EmptySet
    <3>4. Dialect!Prose(output) \in Nat
      <4>1. "call" \in Dialect!Pieces /\ output \in Seq(Dialect!Pieces)
        BY <1>0 DEF Dialect!Pieces, DialectTypeOK
      <4> QED BY <4>1, PieceAdds
    <3>5. output' = output
      BY <1>0
    <3> QED BY <3>2, <3>3, <3>4, <3>5 DEF Withheld
  <2>11. AnswerArrives'
    <3>1. ~Dialect!Answered'
      BY <2>1 DEF Dialect!Answered
    <3> QED BY <3>1 DEF AnswerArrives, Dialect!AnswerArrives
  <2>12. Counted'
    BY <1>0, <2>1, <2>10, <2>11 DEF Counted
  <2> QED BY <2>6, <2>9, <2>12
<1> QED BY <1>1, <1>2

LEMMA TextKeeps ==
  ASSUME DialectInv, NEW p \in Dialect!Pieces, Dialect!Text(p)
  PROVE  DialectInv'
<1> USE DEF DialectInv
<1> DEFINE body == IF p = "call" THEN "call" ELSE "prose"
           e == Dialect!Event("delta", 0, body)
           quiet == Dialect!Sieved /\ Dialect!Opened(output')
           more == IF quiet THEN <<>> ELSE <<e>>
<1>0. /\ step = "stream" /\ step' = "stream" /\ UNCHANGED <<talk, reason, calls>> /\ reason = "stop"
      /\ output' = Append(output, p) /\ events' = events \o more
      /\ DialectTypeOK /\ output \in Seq(Dialect!Pieces) /\ events \in Seq(Told)
      /\ Comes(talk.dialect, Outset, events, InText)
      /\ Dialect!Sieved => Withheld
  BY DEF Dialect!Text, Dialect!Sends, Followed, Counted, DialectTypeOK
<1>1. e \in Told /\ e.kind = "delta" /\ e.index = 0 /\ e.body = body
  <2>1. body \in Bodies
    BY DEF Bodies
  <2> QED BY <2>1 DEF Dialect!Event, Told, Kinds
<1> HIDE DEF e
<1>2. more \in Seq(Told) /\ \A i \in 1..Len(more) : more[i] = e
  BY <1>1, OneTold
<1>3. DialectTypeOK'
  <2>1. events' \in Seq(Told)
    <3> HIDE DEF more
    <3> QED BY <1>0, <1>2
  <2>2. output' \in Seq(Dialect!Pieces)
    BY <1>0
  <2> QED BY <1>0, <2>1, <2>2 DEF DialectTypeOK
<1>4. Followed'
  <2> HIDE DEF more
  <2>1. Comes(talk.dialect, Outset, events \o more, InText)
    BY <1>0, <1>1, <1>2, StaysInText
  <2>2. InText' = InText
    BY <1>0 DEF InText
  <2>3. Comes(talk'.dialect, Outset, events', InText')
    BY <1>0, <2>1, <2>2
  <2> QED BY <1>0, <2>3 DEF Followed
<1>5. ASSUME Dialect!Sieved PROVE Withheld'
  <2>1. Withheld
    BY <1>0, <1>5
  <2>2. /\ Dialect!Prose(output) \in Nat /\ Dialect!Calls(output) \in Nat
        /\ Dialect!Prose(output') = Dialect!Prose(output) + IF p # "call" THEN 1 ELSE 0
        /\ Dialect!Calls(output') = Dialect!Calls(output) + IF p = "call" THEN 1 ELSE 0
    BY <1>0, PieceAdds
  <2>3. CASE quiet
    <3>1. more = <<>>
      BY <2>3
    <3>2. events' = events
      BY <1>0, <3>1
    <3>3. Cardinality(ProseIn(events)) \in Nat
      BY <1>0, SentAdds
    <3> QED BY <2>1, <2>2, <3>2, <3>3 DEF Withheld
  <2>4. CASE ~quiet
    <3>1. p = "prose" /\ body = "prose" /\ more = <<e>>
      <4>1. Len(output') \in DOMAIN output' /\ output'[Len(output')] = p
        BY <1>0
      <4> QED BY <1>5, <2>4, <4>1 DEF Dialect!Opened
    <3> HIDE DEF quiet, more, body
    <3>2. <<e>> \in Seq(Told) /\ DOMAIN <<e>> = 1..1 /\ <<e>>[1] = e
      BY <1>1, OneTold
    <3>3. ProseIn(<<e>>) = {1} /\ ToolsIn(<<e>>) = {}
      BY <1>1, <3>1, <3>2 DEF ProseIn, ToolsIn
    <3>4. Cardinality(ProseIn(<<e>>)) = 1 /\ Cardinality(ToolsIn(<<e>>)) = 0
      BY <3>3, FS_Singleton, FS_EmptySet
    <3>5. /\ Cardinality(ProseIn(events)) \in Nat /\ Cardinality(ToolsIn(events)) \in Nat
          /\ Cardinality(ProseIn(events')) = Cardinality(ProseIn(events)) + 1
          /\ Cardinality(ToolsIn(events')) = Cardinality(ToolsIn(events)) + 0
      BY <1>0, <3>1, <3>2, <3>4, SentAdds
    <3>6. DeltasIn(events') = ProseIn(events')
      <4>1. \A i \in DOMAIN events' : events'[i].kind = "delta" => events'[i].body = "prose"
        <5> SUFFICES ASSUME NEW i \in DOMAIN events', events'[i].kind = "delta"
                     PROVE  events'[i].body = "prose"
          OBVIOUS
        <5>1. CASE i \in DOMAIN events /\ events'[i] = events[i]
          BY <2>1, <5>1 DEF Withheld, DeltasIn, ProseIn
        <5>2. CASE events'[i] = e
          BY <1>1, <3>1, <5>2
        <5>3. (i \in DOMAIN events /\ events'[i] = events[i]) \/ events'[i] = e
          BY <1>0, <3>1, <3>2
        <5> QED BY <5>1, <5>2, <5>3
      <4> QED BY <4>1 DEF DeltasIn, ProseIn
    <3> QED BY <2>1, <2>2, <3>1, <3>5, <3>6 DEF Withheld
  <2> QED BY <2>3, <2>4
<1>6. AnswerArrives'
  <2>1. ~Dialect!Answered'
    BY <1>0 DEF Dialect!Answered
  <2> QED BY <2>1 DEF AnswerArrives, Dialect!AnswerArrives
<1>7. Dialect!Sieved' = Dialect!Sieved
  BY <1>0 DEF Dialect!Sieved
<1>8. Counted'
  BY <1>0, <1>5, <1>6, <1>7 DEF Counted
<1> QED BY <1>3, <1>4, <1>8

LEMMA OwedIs ==
  ASSUME DialectTypeOK, Dialect!Sieved, Withheld, NEW rest \in Dialect!Owed
  PROVE  /\ rest \in Seq(Told)
         /\ \A i \in 1..Len(rest) : rest[i].kind = "delta" /\ rest[i].index = 0 /\ rest[i].body = "prose"
         /\ Cardinality(ProseIn(events)) + Len(rest) <= Dialect!Prose(output)
         /\ ~talk.blank => Cardinality(ProseIn(events)) + Len(rest) >= Dialect!Keeps(output)
<1> DEFINE streamed == Cardinality(ProseIn(events))
           n == Dialect!Keeps(output) - streamed
           e == Dialect!Event("delta", 0, "prose")
           owing == [i \in 1..n |-> e]
<1>1. /\ output \in Seq(Dialect!Pieces) /\ events \in Seq(Told)
      /\ streamed \in Nat /\ Dialect!Prose(output) \in Nat
      /\ Dialect!Keeps(output) \in Nat /\ Dialect!Keeps(output) <= Dialect!Prose(output)
      /\ streamed <= Dialect!Prose(output)
  <2>1. output \in Seq(Dialect!Pieces) /\ events \in Seq(Told) /\ "call" \in Dialect!Pieces
    BY DEF DialectTypeOK, Dialect!Pieces
  <2>2. Dialect!Prose(output) \in Nat
    BY <2>1, PieceAdds
  <2>3. streamed \in Nat
    BY <2>1, SentAdds
  <2> QED BY <2>1, <2>2, <2>3, KeepsIs DEF Withheld
<1>2. rest = owing \/ (talk.blank /\ rest = <<>>)
  <2>1. {i \in DOMAIN events : events[i].kind = "delta"} = ProseIn(events)
    BY DEF Withheld, DeltasIn
  <2>2. Dialect!Owed = {owing} \cup (IF talk.blank /\ Dialect!Calls(output) > 0 THEN {<<>>} ELSE {})
    BY <2>1, SameCardinality DEF Dialect!Owed
  <2> HIDE DEF owing
  <2> QED BY <2>2
<1>4. e \in Told /\ e.kind = "delta" /\ e.index = 0 /\ e.body = "prose"
  BY DEF Dialect!Event, Told, Kinds, Bodies
<1>5. n \in Int
  BY <1>1
<1> HIDE DEF e, n
<1>6. owing \in Seq(Told) /\ Len(owing) = (IF n > 0 THEN n ELSE 0) /\ \A i \in 1..Len(owing) : owing[i] = e
  <2>1. CASE n > 0
    BY <1>4, <1>5, <2>1
  <2>2. CASE ~(n > 0)
    <3>1. 1..n = {}
      BY <1>5, <2>2
    <3>2. owing = <<>>
      BY <3>1
    <3> HIDE DEF owing
    <3> QED BY <2>2, <3>2
  <2> QED BY <2>1, <2>2
<1> HIDE DEF owing
<1>7. CASE rest = owing
  <2>1. streamed + Len(owing) = IF n > 0 THEN Dialect!Keeps(output) ELSE streamed
    BY <1>1, <1>6 DEF n
  <2>2. n > 0 <=> Dialect!Keeps(output) > streamed
    BY <1>1 DEF n
  <2> HIDE DEF streamed
  <2>3. streamed + Len(rest) <= Dialect!Prose(output) /\ streamed + Len(rest) >= Dialect!Keeps(output)
    BY <1>1, <1>7, <2>1, <2>2
  <2>4. rest \in Seq(Told) /\ \A i \in 1..Len(rest) : rest[i] = e
    BY <1>6, <1>7
  <2> QED BY <1>4, <2>3, <2>4 DEF streamed
<1>8. CASE talk.blank /\ rest = <<>>
  <2> HIDE DEF streamed
  <2>1. rest \in Seq(Told) /\ Len(rest) = 0
    BY <1>8
  <2>2. streamed + Len(rest) <= Dialect!Prose(output)
    BY <1>1, <2>1
  <2> QED BY <1>8, <2>1, <2>2 DEF streamed
<1> QED BY <1>2, <1>7, <1>8

\* So many deltas, or so many calls, and nothing else.
LEMMA OnlyProse ==
  ASSUME NEW es \in Seq(Told), \A i \in 1..Len(es) : es[i].kind = "delta" /\ es[i].body = "prose"
  PROVE  Cardinality(ProseIn(es)) = Len(es) /\ Cardinality(ToolsIn(es)) = 0
<1>1. ProseIn(es) = 1..Len(es) /\ ToolsIn(es) = {}
  BY DEF ProseIn, ToolsIn
<1>2. Cardinality(1..Len(es)) = Len(es)
  <2>1. Cardinality(1..Len(es)) = IF 1 > Len(es) THEN 0 ELSE Len(es) - 1 + 1
    BY FS_Interval
  <2> QED BY <2>1
<1> QED BY <1>1, <1>2, FS_EmptySet

LEMMA OnlyTools ==
  ASSUME NEW es \in Seq(Told), \A i \in 1..Len(es) : es[i].kind = "tool"
  PROVE  Cardinality(ToolsIn(es)) = Len(es) /\ Cardinality(ProseIn(es)) = 0
<1>1. ToolsIn(es) = 1..Len(es) /\ ProseIn(es) = {}
  BY DEF ProseIn, ToolsIn
<1>2. Cardinality(1..Len(es)) = Len(es)
  <2>1. Cardinality(1..Len(es)) = IF 1 > Len(es) THEN 0 ELSE Len(es) - 1 + 1
    BY FS_Interval
  <2> QED BY <2>1
<1> QED BY <1>1, <1>2, FS_EmptySet

LEMMA NeitherOfThem ==
  ASSUME NEW es \in Seq(Told),
         \A i \in 1..Len(es) : es[i].kind \notin {"delta", "tool", "block_start"}
  PROVE  Cardinality(ToolsIn(es)) = 0 /\ Cardinality(ProseIn(es)) = 0
<1>1. ToolsIn(es) = {} /\ ProseIn(es) = {}
  BY DEF ProseIn, ToolsIn
<1> QED BY <1>1, FS_EmptySet

\* A stream that is broken off.
LEMMA BrokenKeeps ==
  ASSUME DialectInv, Dialect!Failure \/ Dialect!Cut
  PROVE  DialectInv'
<1> USE DEF DialectInv
<1> DEFINE e == Dialect!Event("error", 0, "")
<1>0. /\ step = "stream" /\ step' = "tail" /\ UNCHANGED <<talk, output, calls>> /\ reason = "stop"
      /\ reason' \in {"stop", "error"}
      /\ events' = events \/ events' = events \o <<e>>
      /\ DialectTypeOK /\ events \in Seq(Told)
      /\ Comes(talk.dialect, Outset, events, InText)
  BY DEF Dialect!Failure, Dialect!Cut, Dialect!Sends, Followed, Counted, DialectTypeOK
<1>1. e \in Told /\ e.kind = "error"
  BY DEF Dialect!Event, Told, Kinds, Bodies
<1> HIDE DEF e
<1>2. <<e>> \in Seq(Told) /\ \A i \in 1..Len(<<e>>) : <<e>>[i] = e
  BY <1>1, OneTold
<1>3. DialectTypeOK'
  <2>1. events' \in Seq(Told)
    BY <1>0, <1>2
  <2>2. reason' \in Bodies
    BY <1>0 DEF Bodies
  <2> QED BY <1>0, <2>1, <2>2 DEF DialectTypeOK
<1>4. Followed'
  <2>1. Comes(talk.dialect, Outset, events \o <<e>>, InText)
    BY <1>0, <1>1, <1>2, StaysInText
  <2>2. InText' = InText /\ talk' = talk
    BY <1>0 DEF InText
  <2>3. Comes(talk'.dialect, Outset, events', InText')
    BY <1>0, <2>1, <2>2
  <2> QED BY <1>0, <2>3 DEF Followed
<1>5. AnswerArrives'
  <2>1. ~Dialect!Answered'
    BY <1>0 DEF Dialect!Answered
  <2> QED BY <2>1 DEF AnswerArrives, Dialect!AnswerArrives
<1>6. Counted'
  BY <1>0, <1>5 DEF Counted
<1> QED BY <1>3, <1>4, <1>6

LEMMA FinalKeeps ==
  ASSUME DialectInv, NEW why \in Dialect!Reasons, Dialect!Final(why)
  PROVE  DialectInv'
<1> USE DEF DialectInv
<1> DEFINE found == IF Dialect!Sieved THEN Dialect!Calls(output) ELSE 0
           closing == Dialect!Closing(talk.dialect, found, why)
           Tool(i) == Dialect!Event("tool", i - 1, "")
           whole == [i \in 1..found |-> Tool(i)]
           e == Dialect!Event("closing", 0, closing)
<1>r. PICK rest \in (IF Dialect!Sieved THEN Dialect!Owed ELSE {<<>>}) :
           events' = events \o (IF talk.dialect = "openai" THEN rest \o whole \o <<e>> ELSE rest)
  BY DEF Dialect!Final, Dialect!Sends
<1>0. /\ step = "stream" /\ step' = "tail" /\ UNCHANGED <<talk, output>>
      /\ reason' = closing /\ calls' = IF talk.dialect = "anthropic" THEN found ELSE 0
      /\ events' = events \o (IF talk.dialect = "openai" THEN rest \o whole \o <<e>> ELSE rest)
      /\ DialectTypeOK /\ events \in Seq(Told) /\ output \in Seq(Dialect!Pieces)
      /\ Comes(talk.dialect, Outset, events, InText)
      /\ Dialect!Sieved => Withheld
  BY <1>r DEF Dialect!Final, Dialect!Sends, Followed, Counted, DialectTypeOK
<1>1. /\ found \in Nat /\ Dialect!Prose(output) \in Nat
      /\ Cardinality(ProseIn(events)) \in Nat /\ Cardinality(ToolsIn(events)) \in Nat
  <2>1. "call" \in Dialect!Pieces
    BY DEF Dialect!Pieces
  <2>2. Dialect!Calls(output) \in Nat /\ Dialect!Prose(output) \in Nat
    BY <1>0, <2>1, PieceAdds
  <2>3. Cardinality(ProseIn(events)) \in Nat /\ Cardinality(ToolsIn(events)) \in Nat
    BY <1>0, SentAdds
  <2> QED BY <2>2, <2>3
<1>2. /\ closing \in Bodies
      /\ closing \in {"tool_calls", "tool_use"} => found > 0
  BY DEF Dialect!Closing, Dialect!Reasons, Bodies
<1>3. /\ rest \in Seq(Told)
      /\ \A i \in 1..Len(rest) : rest[i].kind = "delta" /\ rest[i].index = 0 /\ rest[i].body = "prose"
      /\ Dialect!Sieved =>
           /\ Cardinality(ProseIn(events)) + Len(rest) <= Dialect!Prose(output)
           /\ ~talk.blank => Cardinality(ProseIn(events)) + Len(rest) >= Dialect!Keeps(output)
  <2>1. CASE Dialect!Sieved
    <3>1. rest \in Dialect!Owed /\ Withheld
      BY <1>r, <1>0, <2>1
    <3> QED BY <1>0, <2>1, <3>1, OwedIs
  <2>2. CASE ~Dialect!Sieved
    <3>1. rest = <<>>
      BY <1>r, <2>2
    <3> QED BY <2>2, <3>1
  <2> QED BY <2>1, <2>2
<1>4. whole \in Seq(Told) /\ Len(whole) = found /\ \A i \in 1..Len(whole) : whole[i].kind = "tool"
  <2>1. \A i \in 1..found : Tool(i) \in Told /\ Tool(i).kind = "tool"
    <3> HIDE DEF found
    <3> QED BY <1>1 DEF Dialect!Event, Told, Kinds, Bodies
  <2> HIDE DEF Tool, found
  <2> QED BY <1>1, <2>1
<1>5. e \in Told /\ e.kind = "closing"
  <2> HIDE DEF closing
  <2> QED BY <1>2 DEF Dialect!Event, Told, Kinds
<1>6. <<e>> \in Seq(Told) /\ \A i \in 1..Len(<<e>>) : <<e>>[i] = e
  <2> HIDE DEF e
  <2> QED BY <1>5, OneTold
<1>7. ASSUME Dialect!Sieved, closing \in {"tool_calls", "tool_use"} PROVE found = Dialect!Calls(output)
  BY <1>7
<1> DEFINE mid == rest \o whole
<1> HIDE DEF found, closing, whole, e, Tool
<1>8. mid \in Seq(Told) /\ mid \o <<e>> \in Seq(Told)
  BY <1>3, <1>4, <1>6
<1>9. ASSUME NEW i \in 1..Len(mid) PROVE mid[i].kind = "tool" \/ (mid[i].kind = "delta" /\ mid[i].index = 0)
  <2>1. CASE i <= Len(rest)
    <3>1. i \in 1..Len(rest) /\ mid[i] = rest[i]
      BY <1>3, <1>4, <2>1
    <3> QED BY <1>3, <3>1
  <2>2. CASE ~(i <= Len(rest))
    <3>1. i - Len(rest) \in 1..Len(whole) /\ mid[i] = whole[i - Len(rest)]
      BY <1>3, <1>4, <2>2
    <3> QED BY <1>4, <3>1
  <2> QED BY <2>1, <2>2
<1>10. /\ Cardinality(ProseIn(rest)) = Len(rest) /\ Cardinality(ToolsIn(rest)) = 0
       /\ Cardinality(ProseIn(whole)) = 0 /\ Cardinality(ToolsIn(whole)) = found
       /\ Cardinality(ProseIn(<<e>>)) = 0 /\ Cardinality(ToolsIn(<<e>>)) = 0
  <2>1. Cardinality(ProseIn(rest)) = Len(rest) /\ Cardinality(ToolsIn(rest)) = 0
    BY <1>3, OnlyProse
  <2>2. Cardinality(ProseIn(whole)) = 0 /\ Cardinality(ToolsIn(whole)) = found
    BY <1>4, OnlyTools
  <2>3. Cardinality(ProseIn(<<e>>)) = 0 /\ Cardinality(ToolsIn(<<e>>)) = 0
    BY <1>5, <1>6, NeitherOfThem
  <2> QED BY <2>1, <2>2, <2>3
<1>11. CASE talk.dialect = "openai"
  <2>1. events' = events \o (mid \o <<e>>) /\ calls' = 0
    BY <1>0, <1>11
  <2>2. events' \in Seq(Told)
    <3> DEFINE end == mid \o <<e>>
    <3>1. events' = events \o end /\ end \in Seq(Told) /\ events \in Seq(Told)
      BY <1>0, <1>8, <2>1
    <3> HIDE DEF end
    <3> QED BY <3>1
  <2>3. DialectTypeOK'
    BY <1>0, <1>2, <2>1, <2>2 DEF DialectTypeOK
  <2>4. (events \o mid) \o <<e>> = events'
    <3> HIDE DEF mid
    <3>1. (events \o mid) \o <<e>> = events \o (mid \o <<e>>)
      BY <1>0, <1>6, <1>8, ConcatAssociative
    <3> QED BY <2>1, <3>1
  <2>5. Comes(talk.dialect, Outset, events \o mid, Spot("text", 0, 0))
    <3>1. Comes(talk.dialect, Outset, events \o mid, InText)
      <4> HIDE DEF mid
      <4> QED BY <1>0, <1>8, <1>9, <1>11, StaysInText
    <3> QED BY <1>11, <3>1 DEF InText
  <2>6. Comes(talk.dialect, Spot("text", 0, 0), <<e>>, Spot("closed", 0, 0))
    <3>1. Dialect!Reads("openai", Spot("text", 0, 0), e) = Spot("closed", 0, 0)
      BY <1>5 DEF Dialect!Reads, Spot
    <3> QED BY <1>11, <3>1, ComesByOne
  <2>7. Comes(talk.dialect, Outset, events', Spot("closed", 0, 0))
    <3>1. events \o mid \in Seq(Told)
      <4> HIDE DEF mid
      <4> QED BY <1>0, <1>8
    <3> HIDE DEF mid
    <3> QED BY <1>6, <2>4, <2>5, <2>6, <3>1, ComesFurther
  <2>8. Followed'
    BY <1>0, <1>11, <2>7 DEF Followed
  <2>9. /\ Cardinality(ProseIn(events')) = Cardinality(ProseIn(events)) + Len(rest)
        /\ Cardinality(ToolsIn(events')) = Cardinality(ToolsIn(events)) + found
    <3>1. /\ Cardinality(ProseIn(mid)) = Len(rest) + 0
          /\ Cardinality(ToolsIn(mid)) = 0 + found
      BY <1>3, <1>4, <1>10, SentAdds
    <3> HIDE DEF mid
    <3>2. /\ Cardinality(ProseIn(mid \o <<e>>)) = Cardinality(ProseIn(mid)) + 0
          /\ Cardinality(ToolsIn(mid \o <<e>>)) = Cardinality(ToolsIn(mid)) + 0
      BY <1>6, <1>8, <1>10, SentAdds
    <3>3. /\ Cardinality(ProseIn(events')) = Cardinality(ProseIn(events)) + Cardinality(ProseIn(mid \o <<e>>))
          /\ Cardinality(ToolsIn(events')) = Cardinality(ToolsIn(events)) + Cardinality(ToolsIn(mid \o <<e>>))
      BY <1>0, <1>8, <2>1, SentAdds
    <3>4. Len(rest) \in Nat
      BY <1>3
    <3> QED BY <1>1, <3>1, <3>2, <3>3, <3>4
  <2>10. ASSUME Dialect!Sieved, closing \in {"tool_calls", "tool_use"} PROVE Delivered'
    <3>1. Cardinality(ToolsIn(events)) = 0 /\ found = Dialect!Calls(output)
      BY <1>0, <1>7, <2>10 DEF Withheld
    <3>2. Cardinality(ToolsIn(events')) = Dialect!Calls(output)
      BY <1>1, <2>9, <3>1
    <3>3. Carried'
      BY <1>0, <1>3, <2>9, <2>10, CarriedIs
    <3> QED BY <1>0, <1>11, <3>2, <3>3 DEF Delivered
  <2>11. AnswerArrives'
    <3>1. ~Dialect!Answered'
      BY <1>0 DEF Dialect!Answered
    <3> QED BY <3>1 DEF AnswerArrives, Dialect!AnswerArrives
  <2>12. Dialect!Sieved' = Dialect!Sieved
    BY <1>0 DEF Dialect!Sieved
  <2>13. Counted'
    BY <1>0, <2>10, <2>11, <2>12 DEF Counted
  <2> QED BY <2>3, <2>8, <2>13
<1>12. CASE talk.dialect = "anthropic"
  <2>1. events' = events \o rest /\ calls' = found
    BY <1>0, <1>12
  <2>2. events' \in Seq(Told)
    BY <1>0, <1>3, <2>1
  <2>3. DialectTypeOK'
    BY <1>0, <1>1, <1>2, <2>1, <2>2 DEF DialectTypeOK
  <2>4. Followed'
    <3>1. Comes(talk.dialect, Outset, events \o rest, InText)
      BY <1>0, <1>3, StaysInText
    <3>2. InText' = InText /\ talk' = talk
      BY <1>0 DEF InText
    <3>3. Comes(talk'.dialect, Outset, events', InText')
      BY <2>1, <3>1, <3>2
    <3> QED BY <1>0, <3>3 DEF Followed
  <2>5. /\ Cardinality(ProseIn(events')) = Cardinality(ProseIn(events)) + Len(rest)
        /\ Cardinality(ToolsIn(events')) = Cardinality(ToolsIn(events)) + 0
    BY <1>0, <1>3, <1>10, <2>1, SentAdds
  <2>6. ASSUME Dialect!Sieved, closing \in {"tool_calls", "tool_use"} PROVE Delivered'
    <3>1. Cardinality(ToolsIn(events)) = 0 /\ found = Dialect!Calls(output)
      BY <1>0, <1>7, <2>6 DEF Withheld
    <3>2. Cardinality(ToolsIn(events')) = 0 /\ calls' = Dialect!Calls(output)
      BY <1>1, <2>1, <2>5, <3>1
    <3>3. Carried'
      BY <1>0, <1>3, <2>5, <2>6, CarriedIs
    <3> QED BY <1>0, <1>12, <3>2, <3>3 DEF Delivered
  <2>7. AnswerArrives'
    <3>1. ~Dialect!Answered'
      BY <1>0 DEF Dialect!Answered
    <3> QED BY <3>1 DEF AnswerArrives, Dialect!AnswerArrives
  <2>8. Dialect!Sieved' = Dialect!Sieved
    BY <1>0 DEF Dialect!Sieved
  <2>9. Counted'
    BY <1>0, <2>6, <2>7, <2>8 DEF Counted
  <2> QED BY <2>3, <2>4, <2>9
<1> QED BY <1>0, <1>11, <1>12 DEF DialectTypeOK

LEMMA BlocksCount ==
  ASSUME calls \in Nat
  PROVE  /\ Dialect!ToolBlocks \in Seq(Told)
         /\ Cardinality(ToolsIn(Dialect!ToolBlocks)) = calls
         /\ Cardinality(ProseIn(Dialect!ToolBlocks)) = 0
<1> DEFINE all == Dialect!ToolBlocks
           N == 3 * calls
<1>1. N \in Nat /\ Len(all) = N /\ DOMAIN all = 1..N
  <2>1. N \in Nat
    OBVIOUS
  <2> QED BY <2>1, BlocksAre, Zenon
<1>2. ASSUME NEW j \in 1..calls
      PROVE  /\ Dialect!Event("block_start", j, "tool") \in Told
             /\ Dialect!Event("delta", j, "input") \in Told
             /\ Dialect!Event("block_stop", j, "") \in Told
             /\ Dialect!Event("block_start", j, "tool").kind = "block_start"
             /\ Dialect!Event("block_start", j, "tool").body = "tool"
             /\ Dialect!Event("delta", j, "input").kind = "delta"
             /\ Dialect!Event("delta", j, "input").body = "input"
             /\ Dialect!Event("block_stop", j, "").kind = "block_stop"
  BY DEF Dialect!Event, Told, Kinds, Bodies
<1>3. ASSUME NEW k \in 1..N
      PROVE  /\ all[k] \in Told
             /\ all[k].kind \in {"block_start", "delta", "block_stop"}
             /\ all[k].kind = "delta" => all[k].body = "input"
             /\ all[k].kind = "block_start" => all[k].body = "tool" /\ \E j \in 1..calls : k = 3 * j - 2
  <2>1. PICK j \in 1..calls : k = 3 * j - 2 \/ k = 3 * j - 1 \/ k = 3 * j
    BY Thirds
  <2>2. /\ all[3 * j - 2] = Dialect!Event("block_start", j, "tool")
        /\ all[3 * j - 1] = Dialect!Event("delta", j, "input")
        /\ all[3 * j] = Dialect!Event("block_stop", j, "")
    BY BlocksAre
  <2> HIDE DEF all, N
  <2>3. CASE k = 3 * j - 2
    BY <1>2, <2>2, <2>3
  <2>4. CASE k = 3 * j - 1
    BY <1>2, <2>2, <2>4
  <2>5. CASE k = 3 * j
    BY <1>2, <2>2, <2>5
  <2> QED BY <2>1, <2>3, <2>4, <2>5
<1>4. all \in Seq(Told)
  <2>1. all = [k \in 1..N |-> all[k]]
    BY <1>1 DEF Dialect!ToolBlocks
  <2> HIDE DEF all, N
  <2> QED BY <1>1, <1>3, <2>1
<1>5. ProseIn(all) = {}
  <2>1. "input" # "prose"
    OBVIOUS
  <2> HIDE DEF all, N
  <2> QED BY <1>1, <1>3, <2>1 DEF ProseIn
<1>6. \A k \in 1..N : k \in ToolsIn(all) <=> \E j \in 1..calls : k = 3 * j - 2
  <2> SUFFICES ASSUME NEW k \in 1..N PROVE k \in ToolsIn(all) <=> \E j \in 1..calls : k = 3 * j - 2
    OBVIOUS
  <2>1. k \in ToolsIn(all) => \E j \in 1..calls : k = 3 * j - 2
    <3> HIDE DEF all, N
    <3> QED BY <1>1, <1>3 DEF ToolsIn
  <2>2. ASSUME NEW j \in 1..calls, k = 3 * j - 2 PROVE k \in ToolsIn(all)
    <3>1. all[k] = Dialect!Event("block_start", j, "tool")
      BY <2>2, BlocksAre
    <3> HIDE DEF all, N
    <3> QED BY <1>1, <1>2, <3>1 DEF ToolsIn
  <2> QED BY <2>1, <2>2
<1> DEFINE g == [j \in 1..calls |-> 3 * j - 2]
<1>7. g \in Bijection(1..calls, ToolsIn(all))
  <2>0. \A j \in 1..calls : g[j] = 3 * j - 2 /\ g[j] \in 1..N
    OBVIOUS
  <2>1. g \in [1..calls -> ToolsIn(all)]
    <3>1. \A j \in 1..calls : g[j] \in ToolsIn(all)
      <4> HIDE DEF all, N, g
      <4> QED BY <1>6, <2>0
    <3> HIDE DEF all
    <3> QED BY <3>1
  <2>2. \A a, b \in 1..calls : g[a] = g[b] => a = b
    BY <2>0
  <2>3. \A k \in ToolsIn(all) : \E j \in 1..calls : g[j] = k
    <3>1. \A k \in ToolsIn(all) : k \in 1..N
      <4> HIDE DEF all, N
      <4> QED BY <1>1 DEF ToolsIn
    <3> HIDE DEF all, N, g
    <3> QED BY <1>6, <2>0, <3>1
  <2> HIDE DEF g, all
  <2> QED BY <2>1, <2>2, <2>3 DEF Bijection, Injection, Surjection, IsInjective
<1>8. Cardinality(ToolsIn(all)) = calls
  <2>1. IsFiniteSet(1..calls) /\ Cardinality(1..calls) = IF 1 > calls THEN 0 ELSE calls - 1 + 1
    BY FS_Interval
  <2>2. Cardinality(ToolsIn(all)) = Cardinality(1..calls)
    <3> HIDE DEF g, all
    <3> QED BY <1>7, <2>1, FS_Bijection DEF ExistsBijection
  <2> QED BY <2>1, <2>2
<1> QED BY <1>4, <1>5, <1>8, FS_EmptySet

\* The end of an Anthropic stream: it closes the text, writes the calls, and says why it stopped.
LEMMA EndingIs ==
  ASSUME DialectTypeOK
  PROVE  LET s == Dialect!Event("block_stop", 0, "")
             a == Dialect!Event("message_delta", 0, reason)
             b == Dialect!Event("message_stop", 0, "")
             more == <<s>> \o Dialect!ToolBlocks \o <<a, b>>
         IN /\ more \in Seq(Told)
            /\ Comes("anthropic", Spot("block", 0, 1), more, Spot("end", calls, calls + 1))
            /\ Cardinality(ProseIn(more)) = 0 /\ Cardinality(ToolsIn(more)) = calls
<1> DEFINE s == Dialect!Event("block_stop", 0, "")
           a == Dialect!Event("message_delta", 0, reason)
           b == Dialect!Event("message_stop", 0, "")
           blocks == Dialect!ToolBlocks
           first == <<s>> \o blocks
<1>0. calls \in Nat /\ reason \in Bodies
  BY DEF DialectTypeOK
<1>1. /\ s \in Told /\ s.kind = "block_stop" /\ a \in Told /\ a.kind = "message_delta"
      /\ b \in Told /\ b.kind = "message_stop"
  <2>1. "" \in Bodies
    BY DEF Bodies
  <2>2. s \in Told /\ s.kind = "block_stop"
    BY <2>1 DEF Dialect!Event, Told, Kinds, Bodies
  <2>3. a \in Told /\ a.kind = "message_delta"
    BY <1>0 DEF Dialect!Event, Told, Kinds
  <2>4. b \in Told /\ b.kind = "message_stop"
    BY <2>1 DEF Dialect!Event, Told, Kinds, Bodies
  <2> QED BY <2>2, <2>3, <2>4
<1>2. /\ Dialect!Reads("anthropic", Spot("block", 0, 1), s) = Spot("between", 0, 1)
      /\ Dialect!Reads("anthropic", Spot("between", calls, calls + 1), a) = Spot("closed", calls, calls + 1)
      /\ Dialect!Reads("anthropic", Spot("closed", calls, calls + 1), b) = Spot("end", calls, calls + 1)
  BY <1>0 DEF Dialect!Reads, Dialect!Event, Spot
<1>3. /\ blocks \in Seq(Told)
      /\ Cardinality(ToolsIn(blocks)) = calls /\ Cardinality(ProseIn(blocks)) = 0
      /\ Comes("anthropic", Spot("between", 0, 1), blocks, Spot("between", calls, calls + 1))
  BY <1>0, BlocksCount, BlocksAreRead
<1> HIDE DEF s, a, b, blocks
<1>4. /\ <<s>> \in Seq(Told) /\ \A i \in 1..Len(<<s>>) : <<s>>[i] = s
      /\ <<a, b>> \in Seq(Told) /\ \A i \in 1..Len(<<a, b>>) : <<a, b>>[i] \in {a, b}
  <2>1. <<s>> \in Seq(Told) /\ \A i \in 1..Len(<<s>>) : <<s>>[i] = s
    BY <1>1, OneTold
  <2>2. <<a, b>> \in Seq(Told) /\ Len(<<a, b>>) = 2
    BY <1>1
  <2>3. ASSUME NEW i \in 1..2 PROVE <<a, b>>[i] \in {a, b}
    BY <2>3
  <2> QED BY <2>1, <2>2, <2>3
<1>5. Comes("anthropic", Spot("block", 0, 1), <<s>>, Spot("between", 0, 1))
  BY <1>2, ComesByOne
<1>6. Comes("anthropic", Spot("between", calls, calls + 1), <<a, b>>, Spot("end", calls, calls + 1))
  BY <1>2, ComesByTwo
<1>7. /\ first \in Seq(Told)
      /\ Comes("anthropic", Spot("block", 0, 1), first, Spot("between", calls, calls + 1))
  BY <1>3, <1>4, <1>5, ComesFurther
<1>8. /\ Cardinality(ProseIn(<<s>>)) = 0 /\ Cardinality(ToolsIn(<<s>>)) = 0
      /\ Cardinality(ProseIn(<<a, b>>)) = 0 /\ Cardinality(ToolsIn(<<a, b>>)) = 0
  BY <1>1, <1>4, NeitherOfThem
<1>9. Cardinality(ProseIn(first)) = 0 + 0 /\ Cardinality(ToolsIn(first)) = 0 + calls
  BY <1>3, <1>4, <1>8, SentAdds
<1> HIDE DEF first
<1>10. first \o <<a, b>> \in Seq(Told)
  BY <1>4, <1>7
<1>12. Comes("anthropic", Spot("block", 0, 1), first \o <<a, b>>, Spot("end", calls, calls + 1))
  BY <1>4, <1>6, <1>7, ComesFurther
<1>11. /\ Cardinality(ProseIn(first \o <<a, b>>)) = (0 + 0) + 0
       /\ Cardinality(ToolsIn(first \o <<a, b>>)) = (0 + calls) + 0
  BY <1>4, <1>7, <1>8, <1>9, SentAdds
<1>13. (0 + 0) + 0 = 0 /\ (0 + calls) + 0 = calls
  BY <1>0
<1>14. /\ first \o <<a, b>> \in Seq(Told)
       /\ Comes("anthropic", Spot("block", 0, 1), first \o <<a, b>>, Spot("end", calls, calls + 1))
       /\ Cardinality(ProseIn(first \o <<a, b>>)) = 0
       /\ Cardinality(ToolsIn(first \o <<a, b>>)) = calls
  BY <1>10, <1>11, <1>12, <1>13, Zenon
<1> QED BY <1>14, Zenon DEF first, s, a, b, blocks

LEMMA FinishKeeps ==
  ASSUME DialectInv, Dialect!Finish
  PROVE  DialectInv'
<1> USE DEF DialectInv
<1>0. /\ step = "tail" /\ step' = "done" /\ UNCHANGED <<talk, output, reason, calls>>
      /\ DialectTypeOK /\ events \in Seq(Told) /\ calls \in Nat
      /\ \/ Comes(talk.dialect, Outset, events, InText)
         \/ talk.dialect = "openai" /\ Comes(talk.dialect, Outset, events, Spot("closed", 0, 0))
      /\ Dialect!Sieved /\ reason \in {"tool_calls", "tool_use"} => Delivered
  BY DEF Dialect!Finish, Followed, Counted, DialectTypeOK
<1>a. Dialect!Answered' => Dialect!Sieved /\ reason \in {"tool_calls", "tool_use"}
  BY <1>0 DEF Dialect!Answered, Dialect!Sieved
<1>b. Cardinality(ProseIn(events)) \in Nat /\ Cardinality(ToolsIn(events)) \in Nat
  BY <1>0, SentAdds
<1>1. CASE talk.dialect = "openai"
  <2> DEFINE e == Dialect!Event("DONE", 0, "")
  <2>1. events' = events \o <<e>>
    BY <1>1 DEF Dialect!Finish, Dialect!Sends
  <2>2. e \in Told /\ e.kind = "DONE"
    BY DEF Dialect!Event, Told, Kinds, Bodies
  <2>3. /\ Dialect!Reads("openai", Spot("text", 0, 0), e) = Spot("end", 0, 0)
        /\ Dialect!Reads("openai", Spot("closed", 0, 0), e) = Spot("end", 0, 0)
    BY DEF Dialect!Reads, Dialect!Event, Spot
  <2> HIDE DEF e
  <2>4. <<e>> \in Seq(Told) /\ \A i \in 1..Len(<<e>>) : <<e>>[i] = e
    BY <2>2, OneTold
  <2>5. /\ Comes("openai", Spot("text", 0, 0), <<e>>, Spot("end", 0, 0))
        /\ Comes("openai", Spot("closed", 0, 0), <<e>>, Spot("end", 0, 0))
    BY <2>3, ComesByOne
  <2>6. Comes("openai", Outset, events \o <<e>>, Spot("end", 0, 0))
    <3>1. \/ Comes("openai", Outset, events, Spot("text", 0, 0))
          \/ Comes("openai", Outset, events, Spot("closed", 0, 0))
      BY <1>0, <1>1 DEF InText
    <3> QED BY <1>0, <2>4, <2>5, <3>1, ComesFurther
  <2>7. DialectTypeOK'
    <3>1. events' \in Seq(Told)
      BY <1>0, <2>1, <2>4
    <3> QED BY <1>0, <3>1 DEF DialectTypeOK
  <2>8. Followed'
    <3>1. Spot("end", 0, 0).at = "end"
      BY DEF Spot
    <3>2. Comes(talk'.dialect, Outset, events', Spot("end", 0, 0))
      BY <1>0, <1>1, <2>1, <2>6
    <3> QED BY <1>0, <3>1, <3>2 DEF Followed
  <2>9. /\ Cardinality(ProseIn(events')) = Cardinality(ProseIn(events)) + 0
        /\ Cardinality(ToolsIn(events')) = Cardinality(ToolsIn(events)) + 0
    <3>1. Cardinality(ProseIn(<<e>>)) = 0 /\ Cardinality(ToolsIn(<<e>>)) = 0
      BY <2>2, <2>4, NeitherOfThem
    <3> QED BY <1>0, <2>1, <2>4, <3>1, SentAdds
  <2>10. AnswerArrives'
    <3>1. ASSUME Dialect!Answered'
          PROVE  Carried' /\ Cardinality(ToolsIn(events')) = Dialect!Calls(output')
      <4>1. Delivered
        BY <1>0, <1>a, <3>1
      <4>2. Cardinality(ProseIn(events')) = Cardinality(ProseIn(events))
        BY <1>b, <2>9
      <4>3. Carried'
        BY <1>0, <4>1, <4>2, CarriedIs DEF Delivered, Carried
      <4> QED BY <1>0, <1>1, <1>b, <2>9, <4>1, <4>3 DEF Delivered
    <3> QED BY <3>1, ArrivesNext
  <2> QED BY <1>0, <2>7, <2>8, <2>10 DEF Counted
<1>2. CASE talk.dialect = "anthropic"
  <2>1. PICK more \in Seq(Told) :
          /\ events' = events \o more
          /\ Comes("anthropic", Spot("block", 0, 1), more, Spot("end", calls, calls + 1))
          /\ Cardinality(ProseIn(more)) = 0 /\ Cardinality(ToolsIn(more)) = calls
    <3> DEFINE all == <<Dialect!Event("block_stop", 0, "")>> \o Dialect!ToolBlocks
                        \o <<Dialect!Event("message_delta", 0, reason), Dialect!Event("message_stop", 0, "")>>
    <3>1. events' = events \o all
      BY <1>2 DEF Dialect!Finish, Dialect!Sends
    <3>2. /\ all \in Seq(Told)
          /\ Comes("anthropic", Spot("block", 0, 1), all, Spot("end", calls, calls + 1))
          /\ Cardinality(ProseIn(all)) = 0 /\ Cardinality(ToolsIn(all)) = calls
      BY <1>0, EndingIs
    <3> HIDE DEF all
    <3> QED BY <3>1, <3>2
  <2>2. Comes("anthropic", Outset, events \o more, Spot("end", calls, calls + 1))
    <3>1. Comes("anthropic", Outset, events, Spot("block", 0, 1))
      BY <1>0, <1>2 DEF InText
    <3> QED BY <1>0, <2>1, <3>1, ComesFurther
  <2>3. DialectTypeOK'
    <3>1. events' \in Seq(Told)
      BY <1>0, <2>1
    <3> QED BY <1>0, <3>1 DEF DialectTypeOK
  <2>4. Followed'
    <3>1. Spot("end", calls, calls + 1).at = "end"
      BY DEF Spot
    <3>2. Comes(talk'.dialect, Outset, events', Spot("end", calls, calls + 1))
      BY <1>0, <1>2, <2>1, <2>2
    <3> QED BY <1>0, <3>1, <3>2 DEF Followed
  <2>5. /\ Cardinality(ProseIn(events')) = Cardinality(ProseIn(events)) + 0
        /\ Cardinality(ToolsIn(events')) = Cardinality(ToolsIn(events)) + calls
    BY <1>0, <2>1, SentAdds
  <2>6. AnswerArrives'
    <3>1. ASSUME Dialect!Answered'
          PROVE  Carried' /\ Cardinality(ToolsIn(events')) = Dialect!Calls(output')
      <4>1. Delivered
        BY <1>0, <1>a, <3>1
      <4>2. Cardinality(ProseIn(events')) = Cardinality(ProseIn(events))
        BY <1>b, <2>5
      <4>3. Carried'
        BY <1>0, <4>1, <4>2, CarriedIs DEF Delivered, Carried
      <4> QED BY <1>0, <1>2, <1>b, <2>5, <4>1, <4>3 DEF Delivered
    <3> QED BY <3>1, ArrivesNext
  <2> QED BY <1>0, <2>3, <2>4, <2>6 DEF Counted
<1> QED BY <1>0, <1>1, <1>2 DEF DialectTypeOK

LEMMA DialectStep == DialectInv /\ [Dialect!DialectNext]_(Dialect!dialectVars) => DialectInv'
<1> SUFFICES ASSUME DialectInv, [Dialect!DialectNext]_(Dialect!dialectVars) PROVE DialectInv'
  OBVIOUS
<1>1. CASE Dialect!DialectNext
  BY <1>1, ReceiveKeeps, RespondKeeps, PeekKeepsDialect, BrokenKeeps, FinishKeeps,
     CollectedKeeps, TextKeeps, FinalKeeps DEF Dialect!DialectNext
<1>2. CASE UNCHANGED Dialect!dialectVars
  <2>1. UNCHANGED <<talk, kept, step, output, reason, calls, events>>
    BY <1>2 DEF Dialect!dialectVars
  <2>2. DialectTypeOK' /\ Followed'
    BY <2>1 DEF DialectInv, DialectTypeOK, Followed, InText, Dialect!Streamed
  <2>0. Carried' <=> Carried
    BY <2>1, CarriedIs DEF Carried
  <2>3. AnswerArrives'
    BY <2>0, <2>1, ArrivesIs, ArrivesNext DEF DialectInv, Counted, Dialect!Answered, Dialect!Streamed, Dialect!Sieved
  <2>4. Counted'
    BY <2>0, <2>1, <2>3 DEF DialectInv, Counted, Withheld, Delivered, Dialect!Sieved
  <2> QED BY <2>2, <2>4 DEF DialectInv
<1> QED BY <1>1, <1>2

(* What each side of a dialect knows at every point of an answer, for any  *)
(* tools, contexts and length of it.                                       *)
THEOREM DialectInvariance == Dialect!DialectSpec => []DialectInv
BY DialectStart, DialectStep, PTL DEF Dialect!DialectSpec

(* A client of either dialect never meets an event out of its place, and a *)
(* stream the handler is done with has been closed to it.                  *)
THEOREM ClientsFollow == Dialect!DialectSpec => []ClientFollows
<1>1. DialectInv => ClientFollows
  <2> SUFFICES ASSUME DialectInv, Dialect!Streamed
               PROVE  Dialect!Client.at # "lost" /\ (step = "done" => Dialect!Client.at = "end")
    BY DEF ClientFollows, Dialect!ClientFollows
  <2>1. events \in Seq(Told) /\ Len(events) \in Nat /\ talk.dialect \in {"openai", "anthropic"}
    BY DEF DialectInv, DialectTypeOK
  <2>2. ASSUME NEW to, Comes(talk.dialect, Outset, events, to) PROVE Dialect!Client = to
    BY <2>1, <2>2, RunIsClient DEF Dialect!Client
  <2>3. CASE step = "done"
    <3>1. PICK to : to.at = "end" /\ Comes(talk.dialect, Outset, events, to)
      BY <2>3 DEF DialectInv, Followed
    <3> QED BY <2>2, <3>1
  <2>4. CASE step \in {"stream", "tail"}
    <3>1. \/ Comes(talk.dialect, Outset, events, InText)
          \/ Comes(talk.dialect, Outset, events, Spot("closed", 0, 0))
      BY <2>4 DEF DialectInv, Followed
    <3>2. InText.at # "lost" /\ Spot("closed", 0, 0).at # "lost"
      BY DEF InText, Spot
    <3>3. Dialect!Client = InText \/ Dialect!Client = Spot("closed", 0, 0)
      BY <2>2, <3>1
    <3> QED BY <2>4, <3>2, <3>3
  <2>5. step \in {"stream", "tail", "done"}
    BY DEF DialectInv, Followed, Dialect!Streamed
  <2> QED BY <2>3, <2>4, <2>5
<1> QED BY <1>1, DialectInvariance, PTL

(* Of an answer with calls, a stream carries every call once, the prose     *)
(* the response would keep, unless blanks came first, and none of it twice. *)
THEOREM AnswersArrive == Dialect!DialectSpec => []AnswerArrives
<1>1. DialectInv => AnswerArrives
  BY DEF DialectInv, Counted
<1> QED BY <1>1, DialectInvariance, PTL

-----------------------------------------------------------------------------
(* The sieve: what its helpers on texts return.                            *)

LEMMA LeastIs ==
  ASSUME NEW T, T \subseteq Nat, T # {}
  PROVE  Sieve!Least(T) \in T /\ \A j \in T : Sieve!Least(T) <= j
BY LeastNatural DEF Sieve!Least

LEMMA SieveCardinality == \A S : Sieve!Cardinality(S) = Cardinality(S)
BY DEF Sieve!Cardinality, Cardinality

\* What precedes it is of B, and it is not.
LEMMA PastIs ==
  ASSUME NEW S, NEW t \in Seq(S), NEW B
  PROVE  LET p == Sieve!Past(t, B)
         IN /\ p \in 1..(Len(t) + 1)
            /\ \A i \in 1..(p - 1) : t[i] \in B
            /\ p <= Len(t) => t[p] \notin B
<1> DEFINE T == {i \in 1..Len(t) : t[i] \notin B} \cup {Len(t) + 1}
<1>1. T \subseteq Nat /\ T # {}
  OBVIOUS
<1>2. Sieve!Past(t, B) \in T /\ \A j \in T : Sieve!Past(t, B) <= j
  BY <1>1, LeastIs DEF Sieve!Past
<1> QED BY <1>2

LEMMA NextIs ==
  ASSUME NEW S, NEW t \in Seq(S), NEW x, NEW i \in Nat
  PROVE  LET n == Sieve!NextOf(t, x, i)
         IN n \in Nat /\ (n \in i..Len(t) \/ n = Len(t) + 1)
<1> DEFINE T == {j \in i..Len(t) : t[j] = x} \cup {Len(t) + 1}
<1>1. T \subseteq Nat /\ T # {}
  OBVIOUS
<1>2. Sieve!NextOf(t, x, i) \in T
  BY <1>1, LeastIs DEF Sieve!NextOf
<1> QED BY <1>2

\* The first one from a position on is not before it.
LEMMA NextFinds ==
  ASSUME NEW S, NEW t \in Seq(S), NEW x, \A i \in 1..Len(t) : t[i] # x
  PROVE  Sieve!NextOf(t, x, 1) = Len(t) + 1
<1> DEFINE T == {j \in 1..Len(t) : t[j] = x} \cup {Len(t) + 1}
<1>1. T \subseteq Nat /\ T # {} /\ T = {Len(t) + 1}
  OBVIOUS
<1>2. Sieve!NextOf(t, x, 1) \in T
  BY <1>1, LeastIs DEF Sieve!NextOf
<1> QED BY <1>1, <1>2

\* s is made of symbols of t, each used once.
Drawn(s, t) ==
  \E f \in [DOMAIN s -> DOMAIN t] :
    /\ \A a, b \in DOMAIN s : f[a] = f[b] => a = b
    /\ \A a \in DOMAIN s : t[f[a]] = s[a]

LEMMA DrawnTwice ==
  ASSUME NEW s, NEW t, NEW u, Drawn(s, t), Drawn(t, u) PROVE Drawn(s, u)
<1>1. PICK f \in [DOMAIN s -> DOMAIN t] :
        /\ \A a, b \in DOMAIN s : f[a] = f[b] => a = b
        /\ \A a \in DOMAIN s : t[f[a]] = s[a]
  BY DEF Drawn
<1>2. PICK g \in [DOMAIN t -> DOMAIN u] :
        /\ \A a, b \in DOMAIN t : g[a] = g[b] => a = b
        /\ \A a \in DOMAIN t : u[g[a]] = t[a]
  BY DEF Drawn
<1> DEFINE h == [a \in DOMAIN s |-> g[f[a]]]
<1>3. h \in [DOMAIN s -> DOMAIN u]
  BY <1>1, <1>2
<1>4. \A a, b \in DOMAIN s : h[a] = h[b] => a = b
  BY <1>1, <1>2
<1>5. \A a \in DOMAIN s : u[h[a]] = s[a]
  BY <1>1, <1>2
<1> HIDE DEF h
<1> QED BY <1>3, <1>4, <1>5 DEF Drawn

LEMMA DrawnTimes ==
  ASSUME NEW S, NEW s, NEW t \in Seq(S), Drawn(s, t), NEW x
  PROVE  Sieve!Times(x, s) <= Sieve!Times(x, t)
<1>1. PICK f \in [DOMAIN s -> DOMAIN t] :
        /\ \A a, b \in DOMAIN s : f[a] = f[b] => a = b
        /\ \A a \in DOMAIN s : t[f[a]] = s[a]
  BY DEF Drawn
<1> DEFINE A == {i \in DOMAIN s : s[i] = x}
           B == {i \in DOMAIN t : t[i] = x}
           g == [i \in A |-> f[i]]
<1>2. g \in Injection(A, B)
  <2>1. g \in [A -> B]
    BY <1>1
  <2>2. \A a, b \in A : g[a] = g[b] => a = b
    BY <1>1
  <2> HIDE DEF A, B, g
  <2> QED BY <2>1, <2>2 DEF Injection, IsInjective
<1>3. IsFiniteSet(B)
  <2>1. B \subseteq 1..Len(t) /\ IsFiniteSet(1..Len(t))
    BY FS_Interval
  <2> QED BY <2>1, FS_Subset
<1> HIDE DEF g
<1>4. Cardinality(A) <= Cardinality(B)
  BY <1>2, <1>3, FS_Injection
<1> QED BY <1>4, SieveCardinality DEF Sieve!Times

LEMMA SubSeqDrawn ==
  ASSUME NEW S, NEW t \in Seq(S), NEW i \in Nat \ {0}, NEW j \in Int, j <= Len(t)
  PROVE  /\ SubSeq(t, i, j) \in Seq(S)
         /\ Drawn(SubSeq(t, i, j), t)
<1> DEFINE s == SubSeq(t, i, j)
           f == [k \in DOMAIN s |-> i + k - 1]
<1>1. /\ s \in Seq(S) /\ Len(s) = (IF i <= j THEN j - i + 1 ELSE 0)
      /\ \A k \in 1..(j - i + 1) : s[k] = t[i + k - 1]
  <2>1. \A k \in i..j : t[k] \in S
    OBVIOUS
  <2> QED BY <2>1, SubSeqProperties
<1>2. DOMAIN s = 1..Len(s) /\ DOMAIN t = 1..Len(t)
  BY <1>1
<1> HIDE DEF s
<1>3. f \in [DOMAIN s -> DOMAIN t]
  BY <1>1, <1>2
<1>4. \A a, b \in DOMAIN s : f[a] = f[b] => a = b
  BY <1>1, <1>2
<1>5. \A a \in DOMAIN s : t[f[a]] = s[a]
  BY <1>1, <1>2
<1> HIDE DEF f
<1> QED BY <1>1, <1>3, <1>4, <1>5 DEF Drawn, s

\* Each rank is some element's.
LEMMA RankIs ==
  ASSUME NEW n \in Nat, NEW T \in SUBSET (1..n), NEW k \in 1..Cardinality(T)
  PROVE  \E i \in T : Cardinality({j \in T : j <= i}) = k
<1> DEFINE below(i) == {j \in T : j <= i}
           rank == [i \in T |-> Cardinality(below(i))]
           N == Cardinality(T)
<1>1. IsFiniteSet(T) /\ N \in Nat
  <2>1. IsFiniteSet(1..n)
    BY FS_Interval
  <2> QED BY <2>1, FS_Subset, FS_CardinalityType
<1>2. \A i \in T : IsFiniteSet(below(i)) /\ Cardinality(below(i)) \in 1..N
  <2> SUFFICES ASSUME NEW i \in T PROVE IsFiniteSet(below(i)) /\ Cardinality(below(i)) \in 1..N
    OBVIOUS
  <2>1. below(i) \in SUBSET T /\ i \in below(i)
    OBVIOUS
  <2> HIDE DEF below
  <2>2. IsFiniteSet(below(i)) /\ Cardinality(below(i)) <= N
    BY <1>1, <2>1, FS_Subset
  <2>3. Cardinality(below(i)) \in Nat /\ Cardinality(below(i)) # 0
    BY <2>1, <2>2, FS_CardinalityType, FS_EmptySet
  <2> QED BY <1>1, <2>2, <2>3
<1>3. rank \in [T -> 1..N]
  BY <1>2
<1>4. \A a, b \in T : a < b => rank[a] # rank[b]
  <2> SUFFICES ASSUME NEW a \in T, NEW b \in T, a < b PROVE Cardinality(below(a)) # Cardinality(below(b))
    OBVIOUS
  <2> HIDE DEF rank, N
  <2>0. \A j \in T : j \in Int
    OBVIOUS
  <2>1. \A j : j \in below(a) => j \in below(b)
    BY <2>0
  <2>2. b \in below(b) /\ b \notin below(a)
    BY <2>0
  <2> HIDE DEF below
  <2>3. below(a) \in SUBSET below(b) /\ below(a) # below(b)
    BY <2>1, <2>2
  <2> QED BY <1>2, <2>3, FS_Subset
<1>5. rank \in Injection(T, 1..N)
  <2>1. \A a, b \in T : rank[a] = rank[b] => a = b
    <3> HIDE DEF rank, below, N
    <3>1. \A a, b \in T : a < b \/ b < a \/ a = b
      OBVIOUS
    <3> QED BY <1>4, <3>1
  <2> HIDE DEF rank, N
  <2>2. DOMAIN rank = T
    BY <1>3
  <2> QED BY <1>3, <2>1, <2>2 DEF Injection, IsInjective
<1>6. IsFiniteSet(1..N) /\ Cardinality(1..N) = N
  BY <1>1, FS_Interval
<1>7. rank \in Surjection(T, 1..N)
  <2> HIDE DEF rank
  <2> QED BY <1>5, <1>6, FS_Injection DEF N
<1>8. \A m \in 1..N : \E i \in T : rank[i] = m
  <2> HIDE DEF rank, N
  <2> QED BY <1>7 DEF Surjection
<1> QED BY <1>8

LEMMA OnlyDrawn ==
  ASSUME NEW S, NEW t \in Seq(S), NEW T \in SUBSET (1..Len(t))
  PROVE  /\ Sieve!Only(t, T) \in Seq(S)
         /\ Drawn(Sieve!Only(t, T), t)
<1> DEFINE N == Sieve!Cardinality(T)
           f == [k \in 1..N |-> CHOOSE i \in T : Sieve!Cardinality({j \in T : j <= i}) = k]
           s == [k \in 1..N |-> t[f[k]]]
<1>0. Len(t) \in Nat /\ \A i \in T : i \in 1..Len(t) /\ t[i] \in S
  OBVIOUS
<1>1. N \in Nat
  <2>1. IsFiniteSet(1..Len(t))
    BY FS_Interval
  <2> QED BY <2>1, FS_Subset, FS_CardinalityType, SieveCardinality
<1>2. \A k \in 1..N : f[k] \in T /\ Sieve!Cardinality({j \in T : j <= f[k]}) = k
  <2> SUFFICES ASSUME NEW k \in 1..N PROVE f[k] \in T /\ Sieve!Cardinality({j \in T : j <= f[k]}) = k
    OBVIOUS
  <2>1. \E i \in T : Sieve!Cardinality({j \in T : j <= i}) = k
    <3>1. k \in 1..Cardinality(T)
      BY SieveCardinality
    <3>2. \E i \in T : Cardinality({j \in T : j <= i}) = k
      <4> HIDE DEF f, s, N
      <4> QED BY <1>0, <3>1, RankIs
    <3> QED BY <3>2, SieveCardinality
  <2>2. f[k] = CHOOSE i \in T : Sieve!Cardinality({j \in T : j <= i}) = k
    OBVIOUS
  <2> HIDE DEF f
  <2> QED BY <2>1, <2>2
<1>3. Sieve!Only(t, T) = s
  BY DEF Sieve!Only
<1>4. DOMAIN f = 1..N /\ \A k \in 1..N : f[k] \in T
  BY <1>2
<1>5. \A a, b \in 1..N : f[a] = f[b] => a = b
  <2> HIDE DEF f, N
  <2> SUFFICES ASSUME NEW a \in 1..N, NEW b \in 1..N, f[a] = f[b] PROVE a = b
    OBVIOUS
  <2>1. /\ Sieve!Cardinality({j \in T : j <= f[a]}) = a
        /\ Sieve!Cardinality({j \in T : j <= f[b]}) = b
    BY <1>2
  <2> QED BY <2>1, Zenon
<1> HIDE DEF f, N
<1>6. \A k \in 1..N : t[f[k]] \in S
  <2> HIDE DEF s
  <2> QED BY <1>0, <1>4
<1>7. s \in Seq(S) /\ DOMAIN s = 1..N /\ \A a \in 1..N : s[a] = t[f[a]]
  BY <1>1, <1>6
<1> HIDE DEF s
<1> DEFINE g == [k \in DOMAIN s |-> f[k]]
<1>8. g \in [DOMAIN s -> DOMAIN t] /\ \A a \in 1..N : g[a] = f[a]
  <2>1. DOMAIN t = 1..Len(t)
    OBVIOUS
  <2>2. \A k \in 1..N : f[k] \in DOMAIN t
    <3> HIDE DEF g
    <3> QED BY <1>0, <1>4, <2>1
  <2> QED BY <1>7, <2>2
<1> HIDE DEF g
<1>9. Drawn(s, t)
  <2>1. \A a, b \in DOMAIN s : g[a] = g[b] => a = b
    BY <1>5, <1>7, <1>8
  <2>2. \A a \in DOMAIN s : t[g[a]] = s[a]
    BY <1>7, <1>8
  <2> QED BY <1>8, <2>1, <2>2 DEF Drawn
<1> QED BY <1>3, <1>7, <1>9

LEMMA WithoutDrawn ==
  ASSUME NEW S, NEW t \in Seq(S), NEW sections, NEW end
  PROVE  /\ Sieve!Without(t, sections, end) \in Seq(S)
         /\ Drawn(Sieve!Without(t, sections, end), t)
<1> DEFINE T == {i \in 1..Len(t) : \A j \in sections : i \notin j..end[j]}
<1>1. T \in SUBSET (1..Len(t))
  OBVIOUS
<1> HIDE DEF T
<1>2. Sieve!Only(t, T) \in Seq(S) /\ Drawn(Sieve!Only(t, T), t)
  BY <1>1, OnlyDrawn
<1> QED BY <1>2 DEF Sieve!Without, T

LEMMA ReverseIs ==
  ASSUME NEW S, NEW t \in Seq(S)
  PROVE  /\ Sieve!Reverse(t) \in Seq(S) /\ Len(Sieve!Reverse(t)) = Len(t)
         /\ \A i \in 1..Len(t) : Sieve!Reverse(t)[i] = t[Len(t) - i + 1]
<1>1. \A i \in 1..Len(t) : t[Len(t) - i + 1] \in S
  OBVIOUS
<1> QED BY <1>1 DEF Sieve!Reverse

LEMMA TrimStartIs ==
  ASSUME NEW S, NEW t \in Seq(S)
  PROVE  LET s == Sieve!TrimStart(t)
             p == Sieve!Past(t, Sieve!Blank)
         IN /\ s \in Seq(S) /\ Drawn(s, t) /\ Len(s) = Len(t) + 1 - p
            /\ \A i \in 1..Len(s) : s[i] = t[p + i - 1]
<1> DEFINE p == Sieve!Past(t, Sieve!Blank)
<1>1. p \in 1..(Len(t) + 1)
  BY PastIs
<1> HIDE DEF p
<1>2. SubSeq(t, p, Len(t)) \in Seq(S) /\ Drawn(SubSeq(t, p, Len(t)), t)
  BY <1>1, SubSeqDrawn
<1>3. /\ Len(SubSeq(t, p, Len(t))) = Len(t) + 1 - p
      /\ \A i \in 1..(Len(t) - p + 1) : SubSeq(t, p, Len(t))[i] = t[p + i - 1]
  <2>1. \A i \in p..Len(t) : t[i] \in S
    BY <1>1
  <2> QED BY <1>1, <2>1, SubSeqProperties
<1>4. Sieve!TrimStart(t) = SubSeq(t, p, Len(t))
  BY DEF Sieve!TrimStart, Sieve!From, p
<1> QED BY <1>1, <1>2, <1>3, <1>4 DEF p

LEMMA TrimEndIs ==
  ASSUME NEW S, NEW t \in Seq(S)
  PROVE  LET s == Sieve!TrimEnd(t)
         IN /\ s \in Seq(S) /\ Drawn(s, t) /\ Len(s) <= Len(t)
            /\ \A i \in 1..Len(s) : s[i] = t[i]
<1> DEFINE p == Sieve!Past(Sieve!Reverse(t), Sieve!Blank)
           m == Len(t) + 2 - p - 1
<1>1. p \in 1..(Len(t) + 1)
  <2>1. Sieve!Reverse(t) \in Seq(S) /\ Len(Sieve!Reverse(t)) = Len(t)
    BY ReverseIs
  <2>2. p \in 1..(Len(Sieve!Reverse(t)) + 1)
    BY <2>1, PastIs
  <2> QED BY <2>1, <2>2
<1>2. Sieve!TrimEnd(t) = SubSeq(t, 1, m)
  <2>1. Sieve!TrimEnd(t) = Sieve!UpTo(t, Len(t) + 2 - p)
    BY DEF Sieve!TrimEnd
  <2> HIDE DEF p
  <2> QED BY <1>1, <2>1 DEF Sieve!UpTo
<1> HIDE DEF p
<1>3. m \in Int /\ m >= 0 /\ m <= Len(t)
  BY <1>1
<1> HIDE DEF m
<1>4. SubSeq(t, 1, m) \in Seq(S) /\ Drawn(SubSeq(t, 1, m), t)
  BY <1>3, SubSeqDrawn
<1>5. /\ Len(SubSeq(t, 1, m)) = m
      /\ \A i \in 1..m : SubSeq(t, 1, m)[i] = t[i]
  <2>1. \A i \in 1..m : t[i] \in S
    BY <1>3
  <2> QED BY <1>3, <2>1, SubSeqProperties
<1> QED BY <1>2, <1>3, <1>4, <1>5

LEMMA TrimIs ==
  ASSUME NEW S, NEW t \in Seq(S)
  PROVE  LET s == Sieve!Trim(t)
             p == Sieve!Past(t, Sieve!Blank)
         IN /\ s \in Seq(S) /\ Drawn(s, t) /\ Len(s) <= Len(t) + 1 - p
            /\ \A i \in 1..Len(s) : s[i] = t[p + i - 1]
<1> DEFINE b == Sieve!TrimStart(t)
           p == Sieve!Past(t, Sieve!Blank)
<1>1. /\ b \in Seq(S) /\ Drawn(b, t) /\ Len(b) = Len(t) + 1 - p
      /\ \A i \in 1..Len(b) : b[i] = t[p + i - 1]
  BY TrimStartIs
<1>2. p \in 1..(Len(t) + 1)
  BY PastIs
<1>3. Sieve!Trim(t) = Sieve!TrimEnd(b)
  BY DEF Sieve!Trim
<1> HIDE DEF b, p
<1> DEFINE s == Sieve!TrimEnd(b)
<1>4. s \in Seq(S) /\ Drawn(s, b) /\ Len(s) <= Len(b) /\ \A i \in 1..Len(s) : s[i] = b[i]
  BY <1>1, TrimEndIs
<1>5. Drawn(s, t)
  BY <1>1, <1>4, DrawnTwice
<1> HIDE DEF s
<1>6. \A i \in 1..Len(s) : s[i] = t[p + i - 1]
  <2>1. \A i \in 1..Len(s) : i \in 1..Len(b)
    BY <1>1, <1>4
  <2> QED BY <1>1, <1>4, <2>1
<1> QED BY <1>1, <1>2, <1>3, <1>4, <1>5, <1>6 DEF s, p

\* What a format yields of a text: some of its symbols, and a number of calls.
Read(k, S, t) == /\ k.text \in Seq(S) /\ Drawn(k.text, t)
                 /\ k.calls \in Nat

LEMMA DrawnEnds ==
  ASSUME NEW S, NEW t \in Seq(S)
  PROVE  /\ Drawn(t, t)
         /\ <<>> \in Seq(S) /\ Drawn(<<>>, t)
<1>1. SubSeq(t, 1, Len(t)) = t /\ SubSeq(t, 1, 0) = <<>>
  BY SubSeqFull, SubSeqEmpty
<1>2. Drawn(SubSeq(t, 1, Len(t)), t)
  BY SubSeqDrawn
<1>3. SubSeq(t, 1, 0) \in Seq(S) /\ Drawn(SubSeq(t, 1, 0), t)
  <2>1. 1 \in Nat \ {0} /\ 0 \in Int /\ 0 <= Len(t)
    OBVIOUS
  <2> QED BY <2>1, SubSeqDrawn
<1> QED BY <1>1, <1>2, <1>3

LEMMA NoCallIs ==
  ASSUME NEW S, NEW t \in Seq(S)
  PROVE  Read(Sieve!NoCall(t), S, t) /\ Sieve!NoCall(t).calls = 0 /\ Sieve!NoCall(t).text = t
<1>1. Drawn(t, t)
  BY DrawnEnds
<1> QED BY <1>1 DEF Read, Sieve!NoCall, Sieve!Kept

LEMMA KeptIs ==
  ASSUME NEW S, NEW t, NEW u \in Seq(S), Drawn(u, t), NEW n \in Nat
  PROVE  Read(Sieve!Kept(u, n), S, t) /\ Sieve!Kept(u, n).calls = n /\ Sieve!Kept(u, n).text = u
BY DEF Read, Sieve!Kept

LEMMA SitesIn ==
  ASSUME NEW S, NEW t \in Seq(S), NEW u, NEW T, T \subseteq Sieve!Sites(t, u)
  PROVE  IsFiniteSet(T) /\ Sieve!Cardinality(T) \in Nat
<1>1. Sieve!Sites(t, u) \subseteq 1..Len(t) /\ Len(t) \in Nat
  BY DEF Sieve!Sites
<1>2. IsFiniteSet(1..Len(t)) /\ T \in SUBSET (1..Len(t))
  BY <1>1, FS_Interval
<1> QED BY <1>2, FS_Subset, FS_CardinalityType, SieveCardinality

LEMMA BetweenIs ==
  ASSUME NEW S, NEW t \in Seq(S), NEW open, NEW close, NEW bodies
  PROVE  LET k == Sieve!Between(t, open, close, bodies)
         IN /\ Read(k, S, t)
            /\ Sieve!Sites(t, open) = {} => k.calls = 0
<1> DEFINE end == [i \in Sieve!Sites(t, open) |-> Sieve!NextOf(t, close, i)]
           met == Sieve!Sections(Sieve!Sites(t, open), end)
           found == {i \in met : Sieve!Trim(SubSeq(t, i + Len(open), end[i] - 1)) \in bodies}
           n == Sieve!Cardinality(found)
           u == Sieve!Without(t, met, end)
<1>1. Sieve!Between(t, open, close, bodies) = Sieve!Kept(u, n)
  BY DEF Sieve!Between
<1>2. met \subseteq Sieve!Sites(t, open)
  BY DEF Sieve!Sections
<1>3. found \subseteq met
  OBVIOUS
<1>4. u \in Seq(S) /\ Drawn(u, t)
  BY WithoutDrawn
<1> HIDE DEF u, found, met, end
<1>5. n \in Nat
  <2>1. found \subseteq Sieve!Sites(t, open)
    BY <1>2, <1>3
  <2> QED BY <2>1, SitesIn
<1>6. Sieve!Sites(t, open) = {} => n = 0
  <2> SUFFICES ASSUME Sieve!Sites(t, open) = {} PROVE n = 0
    OBVIOUS
  <2>1. found = {}
    BY <1>2, <1>3
  <2> QED BY <2>1, FS_EmptySet, SieveCardinality
<1> HIDE DEF n
<1>7. Read(Sieve!Kept(u, n), S, t) /\ Sieve!Kept(u, n).calls = n
  BY <1>4, <1>5, KeptIs
<1> QED BY <1>1, <1>6, <1>7

LEMMA MistralIs ==
  ASSUME NEW S, NEW t \in Seq(S)
  PROVE  LET k == Sieve!ExtractMistral(t)
         IN /\ Read(k, S, t)
            /\ (\A i \in 1..Len(t) : t[i] # "[TOOL_CALLS]") => k.calls = 0
<1> DEFINE at == Sieve!NextOf(t, "[TOOL_CALLS]", 1)
           payload == Sieve!Trim(Sieve!From(t, at + 1))
<1>1. Sieve!ExtractMistral(t) =
        IF payload # <<>> /\ Head(payload) \in {"{call}", "{name}"}
        THEN Sieve!Kept(Sieve!UpTo(t, at), 1) ELSE Sieve!NoCall(t)
  BY DEF Sieve!ExtractMistral
<1>2. at \in Nat /\ at \in 1..(Len(t) + 1)
  BY NextIs
<1>3. Read(Sieve!NoCall(t), S, t) /\ Sieve!NoCall(t).calls = 0
  BY NoCallIs
<1>4. Read(Sieve!Kept(Sieve!UpTo(t, at), 1), S, t)
  <2> HIDE DEF at
  <2>1. Sieve!UpTo(t, at) = SubSeq(t, 1, at - 1)
    BY DEF Sieve!UpTo
  <2>2. SubSeq(t, 1, at - 1) \in Seq(S) /\ Drawn(SubSeq(t, 1, at - 1), t)
    <3>1. 1 \in Nat \ {0} /\ at - 1 \in Int /\ at - 1 <= Len(t)
      BY <1>2
    <3> QED BY <3>1, SubSeqDrawn
  <2> QED BY <2>1, <2>2, KeptIs
<1>5. (\A i \in 1..Len(t) : t[i] # "[TOOL_CALLS]") => payload = <<>>
  <2> SUFFICES ASSUME \A i \in 1..Len(t) : t[i] # "[TOOL_CALLS]" PROVE payload = <<>>
    OBVIOUS
  <2>1. at = Len(t) + 1
    BY NextFinds
  <2> HIDE DEF at
  <2>2. Sieve!From(t, at + 1) = <<>>
    <3>1. at + 1 \in Int /\ Len(t) \in Int /\ Len(t) < at + 1
      BY <2>1
    <3> QED BY <3>1, SubSeqEmpty DEF Sieve!From
  <2>3. <<>> \in Seq(S) /\ Len(<<>>) = 0
    OBVIOUS
  <2>4. Sieve!Trim(<<>>) \in Seq(S) /\ Len(Sieve!Trim(<<>>)) <= 0
    <3>1. LET p == Sieve!Past(<<>>, Sieve!Blank)
          IN Sieve!Trim(<<>>) \in Seq(S) /\ Len(Sieve!Trim(<<>>)) <= Len(<<>>) + 1 - p /\ p \in 1..(Len(<<>>) + 1)
      BY <2>3, TrimIs, PastIs
    <3> QED BY <2>3, <3>1
  <2>5. Sieve!Trim(<<>>) = <<>>
    BY <2>4, EmptySeq
  <2> QED BY <2>2, <2>5
<1> HIDE DEF payload, at
<1> QED BY <1>1, <1>3, <1>4, <1>5

LEMMA FencedIs ==
  ASSUME NEW S, NEW t \in Seq(S)
  PROVE  LET k == Sieve!ExtractFencedJson(t)
         IN /\ Read(k, S, t)
            /\ Sieve!Sites(t, <<"fence">>) = {} => k.calls = 0
<1> DEFINE fences == Sieve!Sites(t, <<"fence">>)
           line == [i \in fences |-> Sieve!NextOf(t, "newline", i)]
           end == [i \in fences |-> Sieve!NextOf(t, "fence", line[i])]
           found == {i \in Sieve!Sections(fences, end) :
                       end[i] <= Len(t) /\ Sieve!IsFencedCall(SubSeq(t, i + 1, line[i] - 1),
                                                              SubSeq(t, line[i] + 1, end[i] - 1))}
           n == Sieve!Cardinality(found)
           u == Sieve!Without(t, found, end)
<1>1. Sieve!ExtractFencedJson(t) = IF found = {} THEN Sieve!NoCall(t) ELSE Sieve!Kept(u, n)
  BY DEF Sieve!ExtractFencedJson
<1>2. found \subseteq fences
  BY DEF Sieve!Sections
<1>3. u \in Seq(S) /\ Drawn(u, t)
  BY WithoutDrawn
<1>4. Read(Sieve!NoCall(t), S, t) /\ Sieve!NoCall(t).calls = 0
  BY NoCallIs
<1> HIDE DEF u, found, end, line
<1>5. n \in Nat
  BY <1>2, SitesIn
<1> HIDE DEF n
<1>6. Read(Sieve!Kept(u, n), S, t)
  BY <1>3, <1>5, KeptIs
<1>7. fences = {} => found = {}
  BY <1>2
<1> HIDE DEF fences
<1>8. (found = {} => Read(Sieve!ExtractFencedJson(t), S, t) /\ Sieve!ExtractFencedJson(t).calls = 0)
      /\ (found # {} => Read(Sieve!ExtractFencedJson(t), S, t))
  BY <1>1, <1>4, <1>6
<1> QED BY <1>7, <1>8 DEF fences

LEMMA XmlIs ==
  ASSUME NEW S, NEW t \in Seq(S)
  PROVE  LET k == Sieve!ExtractXml(t)
         IN /\ Read(k, S, t)
            /\ (\A i \in 1..Len(t) : t[i] # "<function/>") => k.calls = 0
<1> DEFINE T == {i \in DOMAIN t : t[i] = "<function/>"}
           n == Sieve!Times("<function/>", t)
<1>1. n = Cardinality(T)
  BY SieveCardinality DEF Sieve!Times
<1>2. n \in Nat
  <2>1. T \in SUBSET (1..Len(t)) /\ IsFiniteSet(1..Len(t))
    BY FS_Interval
  <2> QED BY <1>1, <2>1, FS_Subset, FS_CardinalityType
<1>3. (\A i \in 1..Len(t) : t[i] # "<function/>") => n = 0
  <2> SUFFICES ASSUME \A i \in 1..Len(t) : t[i] # "<function/>" PROVE n = 0
    OBVIOUS
  <2>1. T = {}
    OBVIOUS
  <2> QED BY <1>1, <2>1, FS_EmptySet
<1>4. Read(Sieve!NoCall(t), S, t) /\ Sieve!NoCall(t).calls = 0
  BY NoCallIs
<1> HIDE DEF n
<1>5. Read(Sieve!Kept(<<>>, n), S, t) /\ Sieve!Kept(<<>>, n).calls = n
  <2>1. <<>> \in Seq(S) /\ Drawn(<<>>, t)
    BY DrawnEnds
  <2> QED BY <1>2, <2>1, KeptIs
<1>6. Sieve!ExtractXml(t) = IF n = 0 THEN Sieve!NoCall(t) ELSE Sieve!Kept(<<>>, n)
  BY DEF Sieve!ExtractXml, n
<1> QED BY <1>3, <1>4, <1>5, <1>6

\* Only blanks precede the first symbol that is none.
LEMMA LeadsIs ==
  ASSUME NEW S, NEW t \in Seq(S)
  PROVE  Sieve!LeadsWithJson(t) <=> \E p \in 1..Len(t) : /\ p = Sieve!Past(t, Sieve!Blank)
                                                         /\ t[p] \in Sieve!Json \cup {"[TOOL_CALLS]"}
BY PastIs DEF Sieve!LeadsWithJson

LEMMA TrimHead ==
  ASSUME NEW S, NEW t \in Seq(S), Len(Sieve!Trim(t)) >= 1
  PROVE  LET p == Sieve!Past(t, Sieve!Blank)
         IN p \in 1..Len(t) /\ t[p] \notin Sieve!Blank /\ Sieve!Trim(t)[1] = t[p]
<1> DEFINE p == Sieve!Past(t, Sieve!Blank)
           s == Sieve!Trim(t)
<1>1. p \in 1..(Len(t) + 1) /\ (p <= Len(t) => t[p] \notin Sieve!Blank)
  BY PastIs
<1>2. s \in Seq(S) /\ Len(s) <= Len(t) + 1 - p /\ \A i \in 1..Len(s) : s[i] = t[p + i - 1]
  BY TrimIs
<1> HIDE DEF p, s
<1>3. s[1] = t[p + 1 - 1] /\ p + 1 - 1 = p
  BY <1>1, <1>2 DEF s
<1> QED BY <1>1, <1>2, <1>3 DEF p, s

\* Without its marker a bare object leads.
LEMMA BareLeads ==
  ASSUME NEW S, NEW t \in Seq(S), NEW c, NEW tag, \A i \in 1..Len(t) : t[i] # tag,
         Sieve!Trim(Sieve!From(Sieve!Trim(t), Sieve!Past(Sieve!Trim(t), {tag}))) = <<c>>
  PROVE  LET p == Sieve!Past(t, Sieve!Blank) IN p \in 1..Len(t) /\ t[p] = c
<1> DEFINE answer == Sieve!Trim(t)
           q == Sieve!Past(answer, {tag})
           p == Sieve!Past(t, Sieve!Blank)
<1>1. answer \in Seq(S)
  BY TrimIs
<1>2. Len(answer) >= 1 => p \in 1..Len(t) /\ t[p] \notin Sieve!Blank /\ answer[1] = t[p]
  BY TrimHead
<1>3. Sieve!Trim(Sieve!From(answer, q)) = <<c>>
  OBVIOUS
<1> HIDE DEF answer, p
<1>4. q \in 1..(Len(answer) + 1) /\ \A i \in 1..(q - 1) : answer[i] \in {tag}
  BY <1>1, PastIs
<1> HIDE DEF q
<1>5. q = 1
  <2>1. ASSUME q # 1 PROVE FALSE
    <3>1. 1 \in 1..(q - 1) /\ Len(answer) >= 1
      BY <1>1, <1>4, <2>1
    <3> QED BY <1>2, <1>4, <3>1
  <2> QED BY <2>1
<1>6. Sieve!From(answer, 1) = answer
  BY <1>1, SubSeqFull DEF Sieve!From
<1>7. Sieve!Trim(answer) = <<c>>
  BY <1>3, <1>5, <1>6
<1>8. Len(Sieve!Trim(answer)) >= 1 /\ Sieve!Trim(answer)[1] = c
  <2>1. Len(<<c>>) = 1 /\ <<c>>[1] = c
    OBVIOUS
  <2> QED BY <1>7, <2>1
<1> DEFINE r == Sieve!Past(answer, Sieve!Blank)
<1>9. r \in 1..Len(answer) /\ answer[r] = c
  BY <1>1, <1>8, TrimHead
<1>10. \A i \in 1..(r - 1) : answer[i] \in Sieve!Blank
  BY <1>1, PastIs
<1> HIDE DEF r
<1>11. Len(answer) >= 1
  BY <1>1, <1>9
<1>12. r = 1
  BY <1>2, <1>9, <1>10, <1>11
<1> QED BY <1>2, <1>9, <1>11, <1>12 DEF p

LEMMA BareIs ==
  ASSUME NEW S, NEW t \in Seq(S)
  PROVE  LET k == Sieve!ExtractBare(t)
         IN /\ Read(k, S, t)
            /\ (\A i \in 1..Len(t) : t[i] # "<|python_tag|>") /\ k.calls # 0 => Sieve!LeadsWithJson(t)
<1> DEFINE rest == Sieve!From(Sieve!Trim(t), Sieve!Past(Sieve!Trim(t), {"<|python_tag|>"}))
           p == Sieve!Past(t, Sieve!Blank)
<1>1. Sieve!ExtractBare(t) =
        IF Sieve!Trim(rest) = <<"{call}">> THEN Sieve!Kept(<<>>, 1) ELSE Sieve!NoCall(t)
  BY DEF Sieve!ExtractBare
<1>2. Read(Sieve!NoCall(t), S, t) /\ Sieve!NoCall(t).calls = 0
  BY NoCallIs
<1>3. Read(Sieve!Kept(<<>>, 1), S, t)
  <2>1. <<>> \in Seq(S) /\ Drawn(<<>>, t)
    BY DrawnEnds
  <2> QED BY <2>1, KeptIs
<1>4. ASSUME \A i \in 1..Len(t) : t[i] # "<|python_tag|>", Sieve!Trim(rest) = <<"{call}">>
      PROVE  Sieve!LeadsWithJson(t)
  <2>1. p \in 1..Len(t) /\ t[p] = "{call}"
    BY <1>4, BareLeads
  <2>2. "{call}" \in Sieve!Json \cup {"[TOOL_CALLS]"}
    BY Zenon DEF Sieve!Json
  <2> QED BY <2>1, <2>2, LeadsIs, Zenon
<1> HIDE DEF rest
<1>5. Sieve!ExtractBare(t).calls # 0 => Sieve!Trim(rest) = <<"{call}">>
  <2>1. Sieve!Trim(rest) # <<"{call}">> => Sieve!ExtractBare(t) = Sieve!NoCall(t)
    BY <1>1
  <2> QED BY <1>2, <2>1
<1>6. Read(Sieve!ExtractBare(t), S, t)
  BY <1>1, <1>2, <1>3
<1> QED BY <1>4, <1>5, <1>6

\* Where an opener stands.
Opens(t, i) ==
  \/ t[i] \in {"<|start|>", "<|python_tag|>", "[TOOL_CALLS]", "<function/>", "fence"}
  \/ t[i] = "<tool_" /\ i < Len(t) /\ t[i + 1] = "call>"

LEMMA SiteOfOne ==
  ASSUME NEW S, NEW t \in Seq(S), NEW a
  PROVE  Sieve!Sites(t, <<a>>) = {i \in 1..Len(t) : t[i] = a}
<1>1. ASSUME NEW i \in 1..Len(t) PROVE Sieve!IsPrefix(<<a>>, Sieve!From(t, i)) <=> t[i] = a
  <2> DEFINE s == SubSeq(t, i, Len(t))
  <2>1. s \in Seq(S) /\ Len(s) = Len(t) - i + 1 /\ s[1] = t[i]
    <3>1. \A j \in i..Len(t) : t[j] \in S
      OBVIOUS
    <3>2. /\ SubSeq(t, i, Len(t)) \in Seq(S)
          /\ Len(SubSeq(t, i, Len(t))) = IF i <= Len(t) THEN Len(t) - i + 1 ELSE 0
          /\ \A j \in 1..(Len(t) - i + 1) : SubSeq(t, i, Len(t))[j] = t[i + j - 1]
      BY <3>1, SubSeqProperties
    <3> QED BY <3>2
  <2> HIDE DEF s
  <2>2. SubSeq(s, 1, 1) = <<t[i]>>
    <3>1. \A j \in 1..1 : s[j] \in S
      BY <2>1
    <3> DEFINE u == SubSeq(s, 1, 1)
    <3>2. u \in Seq(S) /\ Len(u) = 1 /\ u[1] = s[1 + 1 - 1]
      BY <3>1, SubSeqProperties
    <3> HIDE DEF u
    <3>3. u[1] = t[i]
      BY <2>1, <3>2
    <3>4. u = <<t[i]>>
      BY <3>2, <3>3
    <3> QED BY <3>4 DEF u
  <2>3. SubSeq(<<a>>, 1, Len(<<a>>)) = <<a>> /\ Len(<<a>>) = 1
    <3>1. <<a>> \in Seq({a}) /\ Len(<<a>>) = 1
      OBVIOUS
    <3> QED BY <3>1, SubSeqFull
  <2>4. Sieve!IsPrefix(<<a>>, s) <=> <<a>> = <<t[i]>>
    BY <2>1, <2>2, <2>3 DEF Sieve!IsPrefix
  <2> QED BY <2>4 DEF Sieve!From, s
<1> QED BY <1>1 DEF Sieve!Sites

LEMMA SiteOfTwo ==
  ASSUME NEW S, NEW t \in Seq(S), NEW a, NEW b
  PROVE  Sieve!Sites(t, <<a, b>>) = {i \in 1..Len(t) : i < Len(t) /\ t[i] = a /\ t[i + 1] = b}
<1>1. ASSUME NEW i \in 1..Len(t)
      PROVE  Sieve!IsPrefix(<<a, b>>, Sieve!From(t, i)) <=> i < Len(t) /\ t[i] = a /\ t[i + 1] = b
  <2> DEFINE s == SubSeq(t, i, Len(t))
  <2>1. s \in Seq(S) /\ Len(s) = Len(t) - i + 1 /\ s[1] = t[i] /\ (i < Len(t) => s[2] = t[i + 1])
    <3>1. \A j \in i..Len(t) : t[j] \in S
      OBVIOUS
    <3>2. /\ SubSeq(t, i, Len(t)) \in Seq(S)
          /\ Len(SubSeq(t, i, Len(t))) = IF i <= Len(t) THEN Len(t) - i + 1 ELSE 0
          /\ \A j \in 1..(Len(t) - i + 1) : SubSeq(t, i, Len(t))[j] = t[i + j - 1]
      BY <3>1, SubSeqProperties
    <3> QED BY <3>2
  <2> HIDE DEF s
  <2>2. Len(s) >= 2 => SubSeq(s, 1, 2) = <<t[i], t[i + 1]>>
    <3> SUFFICES ASSUME Len(s) >= 2 PROVE SubSeq(s, 1, 2) = <<t[i], t[i + 1]>>
      OBVIOUS
    <3>1. \A j \in 1..2 : s[j] \in S
      BY <2>1
    <3> DEFINE u == SubSeq(s, 1, 2)
    <3>2. u \in Seq(S) /\ Len(u) = 2 /\ u[1] = s[1 + 1 - 1] /\ u[2] = s[1 + 2 - 1]
      BY <3>1, SubSeqProperties
    <3> HIDE DEF u
    <3>3. u[1] = t[i] /\ u[2] = t[i + 1]
      BY <2>1, <3>2
    <3>4. u = <<t[i], t[i + 1]>>
      BY <3>2, <3>3
    <3> QED BY <3>4 DEF u
  <2>3. SubSeq(<<a, b>>, 1, Len(<<a, b>>)) = <<a, b>> /\ Len(<<a, b>>) = 2
    <3>1. <<a, b>> \in Seq({a, b}) /\ Len(<<a, b>>) = 2
      OBVIOUS
    <3> QED BY <3>1, SubSeqFull
  <2>4. Sieve!IsPrefix(<<a, b>>, s) <=> Len(s) >= 2 /\ <<a, b>> = <<t[i], t[i + 1]>>
    BY <2>1, <2>2, <2>3 DEF Sieve!IsPrefix
  <2>5. Sieve!IsPrefix(<<a, b>>, s) <=> i < Len(t) /\ t[i] = a /\ t[i + 1] = b
    BY <2>1, <2>4
  <2> QED BY <2>5 DEF Sieve!From, s
<1> QED BY <1>1 DEF Sieve!Sites

LEMMA OpenersAre ==
  ASSUME NEW S, NEW t \in Seq(S)
  PROVE  \A i : i \in Sieve!OpenersAt(t) <=> i \in 1..Len(t) /\ Opens(t, i)
<1>1. \A i : i \in Sieve!OpenersAt(t) <=>
        \/ i \in Sieve!Sites(t, <<"<tool_", "call>">>)
        \/ i \in Sieve!Sites(t, <<"<|start|>">>)
        \/ i \in Sieve!Sites(t, <<"<|python_tag|>">>)
        \/ i \in Sieve!Sites(t, <<"[TOOL_CALLS]">>)
        \/ i \in Sieve!Sites(t, <<"<function/>">>)
        \/ i \in Sieve!Sites(t, <<"fence">>)
  BY DEF Sieve!OpenersAt, Sieve!Openers
<1>2. \A a : Sieve!Sites(t, <<a>>) = {i \in 1..Len(t) : t[i] = a}
  BY SiteOfOne
<1>3. Sieve!Sites(t, <<"<tool_", "call>">>)
        = {i \in 1..Len(t) : i < Len(t) /\ t[i] = "<tool_" /\ t[i + 1] = "call>"}
  BY SiteOfTwo
<1>4. /\ Sieve!Sites(t, <<"<|start|>">>) = {i \in 1..Len(t) : t[i] = "<|start|>"}
      /\ Sieve!Sites(t, <<"<|python_tag|>">>) = {i \in 1..Len(t) : t[i] = "<|python_tag|>"}
      /\ Sieve!Sites(t, <<"[TOOL_CALLS]">>) = {i \in 1..Len(t) : t[i] = "[TOOL_CALLS]"}
      /\ Sieve!Sites(t, <<"<function/>">>) = {i \in 1..Len(t) : t[i] = "<function/>"}
      /\ Sieve!Sites(t, <<"fence">>) = {i \in 1..Len(t) : t[i] = "fence"}
  BY <1>2
<1> QED BY <1>1, <1>3, <1>4 DEF Opens

\* What is kept is drawn from the answer, and without an opener only a bare object calls.
LEMMA ParseIs ==
  ASSUME NEW S, NEW t \in Seq(S)
  PROVE  /\ Read(Sieve!Parse(t), S, t)
         /\ Sieve!OpenersAt(t) = {} /\ Sieve!Parse(t).calls # 0 => Sieve!LeadsWithJson(t)
<1> DEFINE tries == <<Sieve!ExtractTagged(t), Sieve!ExtractLfm2(t), Sieve!ExtractMistral(t),
                      Sieve!ExtractFencedJson(t), Sieve!ExtractXml(t), Sieve!ExtractBare(t)>>
           hits == {i \in DOMAIN tries : tries[i].calls > 0}
           n == Sieve!Least(hits)
<1>1. Sieve!Parse(t) = IF hits = {} THEN Sieve!NoCall(t)
                       ELSE Sieve!Kept(Sieve!Trim(tries[n].text), tries[n].calls)
  BY DEF Sieve!Parse
<1>2. /\ Read(Sieve!ExtractTagged(t), S, t)
      /\ Sieve!Sites(t, <<"<tool_", "call>">>) = {} => Sieve!ExtractTagged(t).calls = 0
  BY BetweenIs, Zenon DEF Sieve!ExtractTagged
<1>3. /\ Read(Sieve!ExtractLfm2(t), S, t)
      /\ Sieve!Sites(t, <<"<|start|>">>) = {} => Sieve!ExtractLfm2(t).calls = 0
  BY BetweenIs, Zenon DEF Sieve!ExtractLfm2
<1>4. DOMAIN tries = 1..6 /\ \A i \in 1..6 : Read(tries[i], S, t)
  <2>1. /\ Read(tries[1], S, t) /\ Read(tries[2], S, t) /\ Read(tries[3], S, t)
        /\ Read(tries[4], S, t) /\ Read(tries[5], S, t) /\ Read(tries[6], S, t)
    BY <1>2, <1>3, MistralIs, FencedIs, XmlIs, BareIs
  <2>2. DOMAIN tries = 1..6
    OBVIOUS
  <2> HIDE DEF tries
  <2>3. \A i \in 1..6 : i = 1 \/ i = 2 \/ i = 3 \/ i = 4 \/ i = 5 \/ i = 6
    OBVIOUS
  <2> QED BY <2>1, <2>2, <2>3, Zenon
<1>5. tries[1] = Sieve!ExtractTagged(t) /\ tries[2] = Sieve!ExtractLfm2(t) /\ tries[3] = Sieve!ExtractMistral(t)
      /\ tries[4] = Sieve!ExtractFencedJson(t) /\ tries[5] = Sieve!ExtractXml(t) /\ tries[6] = Sieve!ExtractBare(t)
  OBVIOUS
<1> HIDE DEF tries
<1>6. hits # {} => n \in 1..6 /\ tries[n].calls > 0
  <2> SUFFICES ASSUME hits # {} PROVE n \in hits
    BY <1>4
  <2>1. hits \subseteq Nat
    BY <1>4
  <2> HIDE DEF hits
  <2> QED BY <2>1, LeastIs
<1>7. Read(Sieve!NoCall(t), S, t) /\ Sieve!NoCall(t).calls = 0
  BY NoCallIs
<1>8. hits # {} => /\ Read(Sieve!Kept(Sieve!Trim(tries[n].text), tries[n].calls), S, t)
                   /\ Sieve!Kept(Sieve!Trim(tries[n].text), tries[n].calls).calls = tries[n].calls
  <2> SUFFICES ASSUME hits # {}
               PROVE  /\ Read(Sieve!Kept(Sieve!Trim(tries[n].text), tries[n].calls), S, t)
                      /\ Sieve!Kept(Sieve!Trim(tries[n].text), tries[n].calls).calls = tries[n].calls
    OBVIOUS
  <2>1. Read(tries[n], S, t)
    BY <1>4, <1>6
  <2> DEFINE u == tries[n].text
             c == tries[n].calls
  <2>2. u \in Seq(S) /\ Drawn(u, t) /\ c \in Nat
    BY <2>1 DEF Read
  <2> HIDE DEF u, c
  <2>3. Sieve!Trim(u) \in Seq(S) /\ Drawn(Sieve!Trim(u), u)
    BY <2>2, TrimIs
  <2>4. Drawn(Sieve!Trim(u), t)
    BY <2>2, <2>3, DrawnTwice
  <2>5. Read(Sieve!Kept(Sieve!Trim(u), c), S, t) /\ Sieve!Kept(Sieve!Trim(u), c).calls = c
    BY <2>2, <2>3, <2>4, KeptIs
  <2> QED BY <2>5 DEF u, c
<1> HIDE DEF n, hits
<1>9. Read(Sieve!Parse(t), S, t)
  BY <1>1, <1>7, <1>8
<1>10. ASSUME Sieve!OpenersAt(t) = {}, Sieve!Parse(t).calls # 0 PROVE Sieve!LeadsWithJson(t)
  <2>1. hits # {}
    BY <1>1, <1>7, <1>10
  <2>2. \A i \in 1..Len(t) : ~ Opens(t, i)
    BY <1>10, OpenersAre
  <2>3. \A i \in 1..Len(t) : t[i] \notin {"<|python_tag|>", "[TOOL_CALLS]", "<function/>"}
    BY <2>2 DEF Opens
  <2>4. /\ Sieve!Sites(t, <<"<tool_", "call>">>) = {} /\ Sieve!Sites(t, <<"<|start|>">>) = {}
        /\ Sieve!Sites(t, <<"fence">>) = {}
    BY <1>10 DEF Sieve!OpenersAt, Sieve!Openers
  <2>5. tries[1].calls = 0 /\ tries[2].calls = 0
    BY <1>2, <1>3, <1>5, <2>4
  <2>6. tries[3].calls = 0
    BY <1>5, <2>3, MistralIs
  <2>7. tries[4].calls = 0
    BY <1>5, <2>4, FencedIs
  <2>8. tries[5].calls = 0
    BY <1>5, <2>3, XmlIs
  <2>9. n = 6 /\ tries[6].calls # 0
    BY <1>6, <2>1, <2>5, <2>6, <2>7, <2>8
  <2> QED BY <1>5, <2>3, <2>9, BareIs
<1> QED BY <1>9, <1>10

-----------------------------------------------------------------------------
(* The sieve's inductive invariant.                                        *)

\* The first n symbols neither open a call nor may still come to.
Clear(t, n) == \A i \in 1..n : ~ Opens(t, i) /\ (t[i] = "<tool_" => i < Len(t))

\* What was handed on is clear; closing waits for an opener or for a JSON value that
\* leads, and of an answer such a value leads at most its blanks were handed on.
Streaming ==
  /\ sent = SubSeq(full, 1, released)
  /\ Clear(full, released)
  /\ ~ closed => Sieve!OpenersAt(full) = {} /\ ~ Sieve!LeadsWithJson(full)
  /\ closed => Sieve!Past(full, Sieve!Blank) <= Len(full)
  /\ Sieve!LeadsWithJson(full) => released < Sieve!Past(full, Sieve!Blank)

SieveInv ==
  /\ full \in Seq(Sieve!Symbols) /\ released \in 0..Len(full) /\ closed \in BOOLEAN
  /\ phase = "streaming" => Streaming
  /\ StreamedIsProse

LEMMA DeltaIs ==
  ASSUME NEW d \in Sieve!Deltas PROVE d \in Seq(Sieve!Symbols) /\ Len(d) >= 1
<1>1. CASE d \in {<<a>> : a \in Sieve!Symbols}
  <2>1. PICK a \in Sieve!Symbols : d = <<a>>
    BY <1>1
  <2> QED BY <2>1
<1>2. CASE d \in Sieve!Symbols \X Sieve!Symbols
  <2>1. PICK a \in Sieve!Symbols, b \in Sieve!Symbols : d = <<a, b>>
    BY <1>2
  <2> QED BY <2>1
<1> QED BY <1>1, <1>2 DEF Sieve!Deltas

LEMMA ClearStays ==
  ASSUME NEW S, NEW t \in Seq(S), NEW d \in Seq(S), NEW n \in 0..Len(t), Clear(t, n)
  PROVE  Clear(t \o d, n) /\ SubSeq(t \o d, 1, n) = SubSeq(t, 1, n)
<1>1. /\ t \o d \in Seq(S) /\ Len(t \o d) = Len(t) + Len(d)
      /\ \A i \in 1..Len(t) : (t \o d)[i] = t[i]
  OBVIOUS
<1> DEFINE u == t \o d
<1> HIDE DEF u
<1>2. u \in Seq(S) /\ Len(u) >= Len(t) /\ \A i \in 1..Len(t) : u[i] = t[i]
  BY <1>1 DEF u
<1>3. Clear(u, n)
  BY <1>2 DEF Clear, Opens
<1>4. SubSeq(u, 1, n) = SubSeq(t, 1, n)
  BY <1>2
<1> QED BY <1>3, <1>4 DEF u

LEMMA PastGrows ==
  ASSUME NEW S, NEW t \in Seq(S), NEW d \in Seq(S), NEW B
  PROVE  LET p == Sieve!Past(t, B)
             q == Sieve!Past(t \o d, B)
         IN /\ p <= Len(t) => q = p /\ (t \o d)[q] = t[p]
            /\ p > Len(t) => q > Len(t)
<1> DEFINE u == t \o d
           p == Sieve!Past(t, B)
           q == Sieve!Past(u, B)
<1>1. u \in Seq(S) /\ Len(u) >= Len(t) /\ \A i \in 1..Len(t) : u[i] = t[i]
  OBVIOUS
<1>2. /\ p \in 1..(Len(t) + 1)
      /\ \A i \in 1..(p - 1) : t[i] \in B
      /\ p <= Len(t) => t[p] \notin B
  BY PastIs
<1> HIDE DEF u
<1>3. /\ q \in 1..(Len(u) + 1)
      /\ \A i \in 1..(q - 1) : u[i] \in B
      /\ q <= Len(u) => u[q] \notin B
  BY <1>1, PastIs
<1> HIDE DEF p, q
<1>4. p <= Len(t) => q = p /\ u[q] = t[p]
  <2> SUFFICES ASSUME p <= Len(t) PROVE q = p /\ u[q] = t[p]
    OBVIOUS
  <2>1. p \in 1..Len(t) /\ u[p] = t[p] /\ u[p] \notin B
    BY <1>1, <1>2
  <2>2. ~ (p < q)
    BY <1>2, <1>3, <2>1
  <2>3. ~ (q < p)
    BY <1>1, <1>2, <1>3
  <2> QED BY <1>2, <1>3, <2>1, <2>2, <2>3
<1>5. p > Len(t) => q > Len(t)
  <2> SUFFICES ASSUME p > Len(t), q <= Len(t) PROVE FALSE
    BY <1>1, <1>2, <1>3
  <2>1. q \in 1..Len(t) /\ q \in 1..(p - 1) /\ u[q] = t[q]
    BY <1>1, <1>2, <1>3
  <2> QED BY <1>1, <1>2, <1>3, <2>1
<1> QED BY <1>4, <1>5 DEF p, q, u

LEMMA LeadsGrows ==
  ASSUME NEW S, NEW t \in Seq(S), NEW d \in Seq(S), Sieve!Past(t, Sieve!Blank) <= Len(t)
  PROVE  /\ Sieve!Past(t \o d, Sieve!Blank) = Sieve!Past(t, Sieve!Blank)
         /\ Sieve!LeadsWithJson(t \o d) <=> Sieve!LeadsWithJson(t)
<1> DEFINE u == t \o d
           p == Sieve!Past(t, Sieve!Blank)
<1>1. Sieve!Past(u, Sieve!Blank) = p /\ u[p] = t[p]
  BY PastGrows
<1>2. p <= Len(t) /\ p <= Len(u)
  <2>1. p \in 1..(Len(t) + 1) /\ Len(u) >= Len(t)
    BY PastIs
  <2> HIDE DEF p
  <2> QED BY <2>1 DEF p
<1> HIDE DEF u, p
<1>3. Sieve!LeadsWithJson(u) <=> Sieve!LeadsWithJson(t)
  <2>1. Sieve!LeadsWithJson(u) <=> u[p] \in Sieve!Json \cup {"[TOOL_CALLS]"}
    BY <1>1, <1>2 DEF Sieve!LeadsWithJson
  <2>2. Sieve!LeadsWithJson(t) <=> t[p] \in Sieve!Json \cup {"[TOOL_CALLS]"}
    BY <1>2 DEF Sieve!LeadsWithJson, p
  <2> QED BY <1>1, <2>1, <2>2
<1> QED BY <1>1, <1>3 DEF u, p

LEMMA SieveStart == Sieve!StreamInit => SieveInv
<1> SUFFICES ASSUME Sieve!StreamInit PROVE SieveInv
  OBVIOUS
<1> USE DEF Sieve!StreamInit
<1>1. full \in Seq(Sieve!Symbols) /\ released \in 0..Len(full) /\ closed \in BOOLEAN /\ Len(full) = 0
  <2>1. full = <<>> /\ released = 0 /\ closed \in BOOLEAN
    OBVIOUS
  <2>2. full \in Seq(Sieve!Symbols) /\ Len(full) = 0
    BY <2>1, EmptySeq, Zenon
  <2>3. 0 \in 0..0
    OBVIOUS
  <2> QED BY <2>1, <2>2, <2>3, Zenon
<1>2. \A i \in 1..Len(full) : FALSE
  BY <1>1
<1>3. Sieve!OpenersAt(full) = {}
  BY <1>1, <1>2, OpenersAre
<1>4. ~ Sieve!LeadsWithJson(full)
  BY <1>1, <1>2, LeadsIs
<1>5. Clear(full, released)
  BY <1>1, <1>2 DEF Clear
<1>6. sent = SubSeq(full, 1, released)
  BY SubSeqEmpty
<1> QED BY <1>1, <1>3, <1>4, <1>5, <1>6 DEF SieveInv, Streaming, StreamedIsProse, Sieve!StreamedIsProse

\* What a release hands on continues what was handed on.
LEMMA ReleaseIs ==
  ASSUME NEW S, NEW t \in Seq(S), released \in 0..Len(t), NEW n \in 0..Len(t),
         sent = SubSeq(t, 1, released), Clear(t, released), Clear(t, n), Sieve!ReleaseTo(t, n)
  PROVE  /\ released' \in 0..Len(t) /\ sent' = SubSeq(t, 1, released') /\ Clear(t, released')
<1>1. sent' = sent \o SubSeq(t, released + 1, n) /\ released' = IF n > released THEN n ELSE released
  BY DEF Sieve!ReleaseTo
<1>2. CASE n > released
  <2>1. released' = n
    BY <1>1, <1>2
  <2>2. SubSeq(t, 1, released) \o SubSeq(t, released + 1, n) = SubSeq(t, 1, n)
    <3>1. 1 \in 1..(Len(t) + 1) /\ released \in (1 - 1)..Len(t) /\ n \in released..Len(t)
      BY <1>2
    <3> QED BY <3>1, ConcatAdjacentSubSeq
  <2> QED BY <1>1, <2>1, <2>2
<1>3. CASE ~ (n > released)
  <2>1. released' = released
    BY <1>1, <1>3
  <2>2. SubSeq(t, released + 1, n) = <<>>
    <3>1. released + 1 \in Int /\ n \in Int /\ n < released + 1
      BY <1>3
    <3> QED BY <3>1, SubSeqEmpty
  <2>3. sent \in Seq(S)
    <3>1. 1 \in Nat \ {0} /\ released \in Int /\ released <= Len(t)
      OBVIOUS
    <3> QED BY <3>1, SubSeqDrawn
  <2>4. sent \o <<>> = sent
    BY <2>3, ConcatEmptySeq
  <2> QED BY <1>1, <2>1, <2>2, <2>4
<1> QED BY <1>2, <1>3

\* Up to its first opener, or short of what is held back, a text is clear.
LEMMA UpToOpener ==
  ASSUME NEW S, NEW t \in Seq(S), Sieve!OpenersAt(t) # {}
  PROVE  LET n == Sieve!Least(Sieve!OpenersAt(t)) - 1
         IN /\ n \in 0..Len(t) /\ Clear(t, n)
            /\ Sieve!Past(t, Sieve!Blank) <= Len(t)
<1> DEFINE o == Sieve!Least(Sieve!OpenersAt(t))
           p == Sieve!Past(t, Sieve!Blank)
<1>1. \A i : i \in Sieve!OpenersAt(t) <=> i \in 1..Len(t) /\ Opens(t, i)
  BY OpenersAre
<1>2. o \in Sieve!OpenersAt(t) /\ \A j \in Sieve!OpenersAt(t) : o <= j
  <2>1. Sieve!OpenersAt(t) \subseteq Nat
    BY <1>1
  <2> QED BY <2>1, LeastIs
<1> HIDE DEF o
<1>3. o \in 1..Len(t) /\ Opens(t, o)
  BY <1>1, <1>2
<1>4. Clear(t, o - 1)
  <2> SUFFICES ASSUME NEW i \in 1..(o - 1) PROVE ~ Opens(t, i) /\ i < Len(t)
    BY DEF Clear
  <2>1. i \in 1..Len(t) /\ i < o /\ i < Len(t)
    BY <1>3
  <2>2. i \notin Sieve!OpenersAt(t)
    BY <1>2, <1>3, <2>1
  <2> QED BY <1>1, <2>1, <2>2
<1>5. t[o] \notin Sieve!Blank
  BY <1>3 DEF Opens, Sieve!Blank
<1>6. p \in 1..(Len(t) + 1) /\ \A i \in 1..(p - 1) : t[i] \in Sieve!Blank
  BY PastIs
<1> HIDE DEF p
<1>7. p <= Len(t)
  BY <1>3, <1>5, <1>6
<1> QED BY <1>3, <1>4, <1>7 DEF o, p

LEMMA UpToHeld ==
  ASSUME NEW S, NEW t \in Seq(S), Sieve!OpenersAt(t) = {}, t # <<>>
  PROVE  LET n == Len(t) - Sieve!Held(t) IN n \in 0..Len(t) /\ Clear(t, n)
<1> DEFINE h == Sieve!Held(t)
<1>1. \A i \in 1..Len(t) : ~ Opens(t, i)
  BY OpenersAre
<1>2. h = IF t[Len(t)] = "<tool_" THEN 1 ELSE 0
  BY DEF Sieve!Held, Sieve!Last
<1>3. Len(t) >= 1
  BY EmptySeq
<1> HIDE DEF h
<1>4. Len(t) - h \in 0..Len(t)
  BY <1>2, <1>3
<1>5. Clear(t, Len(t) - h)
  <2> SUFFICES ASSUME NEW i \in 1..(Len(t) - h) PROVE ~ Opens(t, i) /\ (t[i] = "<tool_" => i < Len(t))
    BY DEF Clear
  <2>1. i \in 1..Len(t)
    BY <1>2
  <2> QED BY <1>1, <1>2, <2>1
<1> QED BY <1>4, <1>5 DEF h

LEMMA PushKeeps ==
  ASSUME SieveInv, NEW d \in Sieve!Deltas, Sieve!Push(d) PROVE SieveInv'
<1> DEFINE t == full \o d
           p == Sieve!Past(full, Sieve!Blank)
           q == Sieve!Past(t, Sieve!Blank)
<1>1. d \in Seq(Sieve!Symbols) /\ Len(d) >= 1
  BY DeltaIs
<1>2. full \in Seq(Sieve!Symbols) /\ released \in 0..Len(full) /\ closed \in BOOLEAN
  BY DEF SieveInv
<1>3. phase = "streaming" /\ full' = t /\ phase' = phase
  BY DEF Sieve!Push
<1>4. Streaming
  BY <1>3 DEF SieveInv
<1>5. t \in Seq(Sieve!Symbols) /\ Len(t) = Len(full) + Len(d) /\ Len(t) \in Nat /\ Len(t) >= 1 /\ Len(t) > Len(full)
  BY <1>1, <1>2
<1>6. released \in 0..Len(t) /\ t # <<>>
  BY <1>2, <1>5
<1>7. Clear(t, released) /\ sent = SubSeq(t, 1, released)
  BY <1>1, <1>2, <1>4, ClearStays DEF Streaming
<1>8. /\ p \in 1..(Len(full) + 1)
      /\ p <= Len(full) => q = p /\ (Sieve!LeadsWithJson(t) <=> Sieve!LeadsWithJson(full))
      /\ p > Len(full) => q > Len(full)
  BY <1>1, <1>2, PastIs, LeadsGrows, PastGrows
<1>9. q \in 1..(Len(t) + 1)
  BY <1>5, PastIs
<1>10. Sieve!LeadsWithJson(t) => q <= Len(t)
  BY DEF Sieve!LeadsWithJson
<1>11. /\ closed => p <= Len(full)
       /\ ~ closed => ~ Sieve!LeadsWithJson(full)
       /\ Sieve!LeadsWithJson(full) => released < p
  BY <1>4 DEF Streaming
<1> HIDE DEF t, p, q
<1>12. /\ released' \in 0..Len(t) /\ closed' \in BOOLEAN
       /\ sent' = SubSeq(t, 1, released') /\ Clear(t, released')
       /\ ~ closed' => Sieve!OpenersAt(t) = {} /\ ~ Sieve!LeadsWithJson(t)
       /\ closed' => q <= Len(t)
       /\ Sieve!LeadsWithJson(t) => released' < q
  <2>0. \/ closed /\ UNCHANGED <<closed, sent, released>>
        \/ ~closed /\ Sieve!LeadsWithJson(t) /\ closed' = TRUE /\ UNCHANGED <<sent, released>>
        \/ /\ ~closed /\ ~Sieve!LeadsWithJson(t) /\ Sieve!OpenersAt(t) # {} /\ closed' = TRUE
           /\ Sieve!ReleaseTo(t, Sieve!Least(Sieve!OpenersAt(t)) - 1)
        \/ /\ ~closed /\ ~Sieve!LeadsWithJson(t) /\ Sieve!OpenersAt(t) = {} /\ UNCHANGED closed
           /\ Sieve!ReleaseTo(t, Len(t) - Sieve!Held(t))
    BY DEF Sieve!Push, t
  <2>1. CASE closed /\ UNCHANGED <<closed, sent, released>>
    <3>1. p <= Len(full) /\ q = p /\ q <= Len(t)
      BY <1>2, <1>5, <1>8, <1>11, <2>1
    <3>2. Sieve!LeadsWithJson(t) => released < q
      BY <1>8, <1>11, <3>1
    <3> QED BY <1>6, <1>7, <2>1, <3>1, <3>2
  <2>2. CASE ~closed /\ Sieve!LeadsWithJson(t) /\ closed' = TRUE /\ UNCHANGED <<sent, released>>
    <3>1. q > Len(full)
      BY <1>2, <1>8, <1>11, <2>2
    <3>2. released < q
      BY <1>2, <1>9, <3>1
    <3> QED BY <1>6, <1>7, <1>10, <2>2, <3>2
  <2>3. CASE /\ ~closed /\ ~Sieve!LeadsWithJson(t) /\ Sieve!OpenersAt(t) # {} /\ closed' = TRUE
             /\ Sieve!ReleaseTo(t, Sieve!Least(Sieve!OpenersAt(t)) - 1)
    <3>1. /\ Sieve!Least(Sieve!OpenersAt(t)) - 1 \in 0..Len(t) /\ q <= Len(t)
          /\ Clear(t, Sieve!Least(Sieve!OpenersAt(t)) - 1)
      BY <1>5, <2>3, UpToOpener DEF q
    <3>2. released' \in 0..Len(t) /\ sent' = SubSeq(t, 1, released') /\ Clear(t, released')
      BY <1>5, <1>6, <1>7, <2>3, <3>1, ReleaseIs
    <3> QED BY <2>3, <3>1, <3>2
  <2>4. CASE /\ ~closed /\ ~Sieve!LeadsWithJson(t) /\ Sieve!OpenersAt(t) = {} /\ UNCHANGED closed
             /\ Sieve!ReleaseTo(t, Len(t) - Sieve!Held(t))
    <3>1. Len(t) - Sieve!Held(t) \in 0..Len(t) /\ Clear(t, Len(t) - Sieve!Held(t))
      BY <1>5, <1>6, <2>4, UpToHeld
    <3>2. released' \in 0..Len(t) /\ sent' = SubSeq(t, 1, released') /\ Clear(t, released')
      BY <1>5, <1>6, <1>7, <2>4, <3>1, ReleaseIs
    <3> QED BY <1>2, <2>4, <3>2
  <2> QED BY <2>0, <2>1, <2>2, <2>3, <2>4
<1>13. Streaming'
  BY <1>3, <1>12 DEF Streaming, q
<1>14. StreamedIsProse'
  BY <1>3 DEF StreamedIsProse, Sieve!StreamedIsProse
<1>15. /\ full' \in Seq(Sieve!Symbols) /\ released' \in 0..Len(full') /\ closed' \in BOOLEAN
  BY <1>3, <1>5, <1>12
<1> QED BY <1>13, <1>14, <1>15 DEF SieveInv

\* The final chunk: what is sent in all is the answer, or what the parser kept of it,
\* or what was streamed.
LEMMA AnswerKeeps == ASSUME SieveInv, Sieve!Final PROVE SieveInv'
<1> DEFINE parsed == Sieve!Parse(full)
           streamed == Sieve!UpTo(full, released + 1)
           text == parsed.text
           S == Sieve!Symbols
<1>1. full \in Seq(S) /\ released \in 0..Len(full) /\ closed \in BOOLEAN
  BY DEF SieveInv
<1>2. /\ phase = "streaming" /\ phase' = "done" /\ UNCHANGED <<full, released, closed>>
      /\ sent' = sent \o Sieve!Owed(parsed) /\ called' = parsed.calls
  BY DEF Sieve!Final
<1>3. Streaming
  BY <1>2 DEF SieveInv
<1>4. /\ text \in Seq(S) /\ Drawn(text, full) /\ parsed.calls \in Nat
      /\ Sieve!OpenersAt(full) = {} /\ parsed.calls # 0 => Sieve!LeadsWithJson(full)
  BY <1>1, ParseIs DEF Read
<1>5. streamed = SubSeq(full, 1, released) /\ sent = streamed
  <2>1. released + 1 - 1 = released
    BY <1>1
  <2>2. streamed = SubSeq(full, 1, released + 1 - 1)
    <3> HIDE DEF parsed, text, S
    <3> QED BY <1>1 DEF Sieve!UpTo
  <2>3. sent = SubSeq(full, 1, released)
    BY <1>3 DEF Streaming
  <2> HIDE DEF streamed
  <2> QED BY <2>1, <2>2, <2>3, Zenon
<1>6. streamed \in Seq(S) /\ Drawn(streamed, full) /\ Len(streamed) = released
  <2>1. 1 \in Nat \ {0} /\ released \in Int /\ released <= Len(full) /\ \A i \in 1..released : full[i] \in S
    BY <1>1
  <2>2. Len(SubSeq(full, 1, released)) = released
    BY <1>1, <2>1, SubSeqProperties
  <2> QED BY <1>1, <1>5, <2>1, <2>2, SubSeqDrawn
<1>7. Sieve!Owed(parsed) =
        IF parsed.calls = 0 THEN Sieve!From(full, released + 1)
        ELSE IF Sieve!IsPrefix(streamed, text) THEN Sieve!From(text, released + 1)
        ELSE <<>>
  BY DEF Sieve!Owed
<1> HIDE DEF parsed, streamed, text, S
<1>8. parsed.calls = 0 => sent' = full
  <2> SUFFICES ASSUME parsed.calls = 0 PROVE sent' = full
    OBVIOUS
  <2>1. sent' = SubSeq(full, 1, released) \o SubSeq(full, released + 1, Len(full))
    BY <1>2, <1>5, <1>7 DEF Sieve!From
  <2>2. 1 \in 1..(Len(full) + 1) /\ released \in (1 - 1)..Len(full) /\ Len(full) \in released..Len(full)
    BY <1>1
  <2> QED BY <1>1, <2>1, <2>2, ConcatAdjacentSubSeq, SubSeqFull
<1>9. parsed.calls # 0 /\ Sieve!IsPrefix(streamed, text) => sent' = text
  <2> SUFFICES ASSUME parsed.calls # 0, Sieve!IsPrefix(streamed, text) PROVE sent' = text
    OBVIOUS
  <2>1. released <= Len(text) /\ SubSeq(streamed, 1, Len(streamed)) = SubSeq(text, 1, released)
    BY <1>6 DEF Sieve!IsPrefix
  <2>2. streamed = SubSeq(text, 1, released)
    BY <1>6, <2>1, SubSeqFull
  <2>3. sent' = SubSeq(text, 1, released) \o SubSeq(text, released + 1, Len(text))
    BY <1>2, <1>5, <1>7, <2>2 DEF Sieve!From
  <2>4. 1 \in 1..(Len(text) + 1) /\ released \in (1 - 1)..Len(text) /\ Len(text) \in released..Len(text)
    BY <1>1, <1>4, <2>1
  <2> QED BY <1>4, <2>3, <2>4, ConcatAdjacentSubSeq, SubSeqFull
<1>10. parsed.calls # 0 /\ ~ Sieve!IsPrefix(streamed, text) => sent' = streamed
  BY <1>2, <1>5, <1>6, <1>7, ConcatEmptySeq
<1>11. Drawn(sent', full)
  <2>1. Drawn(full, full)
    BY <1>1, DrawnEnds
  <2> QED BY <1>4, <1>6, <1>8, <1>9, <1>10, <2>1
<1>12. \A x : Sieve!Times(x, sent') <= Sieve!Times(x, full)
  BY <1>1, <1>11, DrawnTimes
<1>13. parsed.calls # 0 => released < Sieve!MarkupBegins(full)
  <2> SUFFICES ASSUME parsed.calls # 0 PROVE released < Sieve!MarkupBegins(full)
    OBVIOUS
  <2>1. CASE Sieve!OpenersAt(full) # {}
    <3> DEFINE o == Sieve!Least(Sieve!OpenersAt(full))
    <3>1. \A i : i \in Sieve!OpenersAt(full) <=> i \in 1..Len(full) /\ Opens(full, i)
      BY <1>1, OpenersAre
    <3>2. o \in Sieve!OpenersAt(full)
      <4>1. Sieve!OpenersAt(full) \subseteq Nat
        BY <3>1
      <4> QED BY <2>1, <4>1, LeastIs
    <3>3. Sieve!MarkupBegins(full) = o
      BY <2>1 DEF Sieve!MarkupBegins
    <3> HIDE DEF o
    <3>4. o \notin 1..released
      BY <1>3, <3>1, <3>2 DEF Streaming, Clear
    <3>5. o \in 1..Len(full)
      BY <3>1, <3>2
    <3> QED BY <1>1, <3>3, <3>4, <3>5
  <2>2. CASE Sieve!OpenersAt(full) = {}
    <3>1. Sieve!MarkupBegins(full) = Sieve!Past(full, Sieve!Blank)
      BY <2>2 DEF Sieve!MarkupBegins
    <3> QED BY <1>3, <1>4, <2>2, <3>1 DEF Streaming
  <2> QED BY <2>1, <2>2
<1>14. StreamedIsProse'
  <2>1. called' = 0 => sent' = full'
    BY <1>2, <1>8
  <2>2. called' > 0 => released' < Sieve!MarkupBegins(full')
    BY <1>2, <1>4, <1>13
  <2>3. \A x \in Sieve!Symbols : Sieve!Times(x, sent') <= Sieve!Times(x, full')
    BY <1>2, <1>12
  <2> QED BY <2>1, <2>2, <2>3 DEF StreamedIsProse, Sieve!StreamedIsProse
<1>15. full' \in Seq(Sieve!Symbols) /\ released' \in 0..Len(full') /\ closed' \in BOOLEAN
  BY <1>1, <1>2 DEF S
<1> QED BY <1>2, <1>14, <1>15 DEF SieveInv

LEMMA SieveStep == SieveInv /\ [Sieve!StreamNext]_(Sieve!streamVars) => SieveInv'
<1> SUFFICES ASSUME SieveInv, [Sieve!StreamNext]_(Sieve!streamVars) PROVE SieveInv'
  OBVIOUS
<1>1. CASE Sieve!Failure
  BY <1>1 DEF Sieve!Failure, SieveInv, StreamedIsProse, Sieve!StreamedIsProse
<1>2. CASE UNCHANGED Sieve!streamVars
  BY <1>2 DEF Sieve!streamVars, SieveInv, Streaming, Clear, Opens, StreamedIsProse, Sieve!StreamedIsProse
<1> QED BY <1>1, <1>2, PushKeeps, AnswerKeeps DEF Sieve!StreamNext

(* However an answer is cut into deltas and whatever it says, the sieve    *)
(* leaks nothing of a call, loses nothing of an answer without one, and    *)
(* sends nothing twice.                                                    *)
THEOREM SieveIsHonest == Sieve!StreamSpec => []StreamedIsProse
<1>1. SieveInv => StreamedIsProse
  BY DEF SieveInv
<1> QED BY <1>1, SieveStart, SieveStep, PTL DEF Sieve!StreamSpec
=============================================================================
