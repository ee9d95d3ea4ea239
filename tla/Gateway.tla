------------------------------- MODULE Gateway -------------------------------
(***************************************************************************)
(* The HTTP gateway between external tools and the scheduler:              *)
(* src/src-tauri/src/gateway/server.rs and state.rs.  The OpenAI and       *)
(* Anthropic handlers have one control flow: count the request, submit a   *)
(* job guarded by CancelOnDrop, then either collect the whole answer or    *)
(* peek at its first chunk and stream the rest as events.  A client that   *)
(* hangs up destroys the handler, or the stream, wherever it stands.       *)
(*                                                                         *)
(* The scheduler is the service of GenerationService.tla, which            *)
(* Scheduler.tla implements; a request is its job.                         *)
(***************************************************************************)
EXTENDS GenerationService, FiniteSets

CONSTANTS
  Failures,   (* endings reported as an error chunk                        *)
  MaxTokens   (* bound: tokens of one answer                               *)

ASSUME GatewayAssumption ==
  /\ IsFiniteSet(Jobs) /\ NoJob \notin Jobs
  /\ Failures \subseteq Endings /\ "none" \notin Endings
  /\ MaxTokens \in Nat

VARIABLES
  req,        (* per request: handler pc and locals, and the client's view *)
  active,     (* active_requests                                           *)
  cancelled   (* jobs whose cancel flag the gateway has set                *)

gatewayVars == <<req, active, cancelled>>
vars == <<svars, gatewayVars>>

-----------------------------------------------------------------------------
(* A request: taken counts the tokens read off its channel, sent those the *)
(* client has received, late says that the peek ran out of time, last is   *)
(* the final chunk once read, reply what the client was finally given.     *)

At(r, pc) == req[r].pc = pc
Reading == {"collect", "peek", "head", "body"}

(* Mutant of FinalReady: an answer without tokens has no end.              *)
FinalAfterTokens(r) ==
  req[r].taken = stream[r].tokens /\ req[r].taken > 0 /\ req[r].last = "none"
    /\ stream[r].final # "none"

(* What the channel of r offers next.                                      *)
TokenReady(r) == req[r].taken < stream[r].tokens
FinalReady(r) == ~TokenReady(r) /\ req[r].last = "none" /\ stream[r].final # "none"
Exhausted(r) ==
  ~TokenReady(r) /\ stream[r].closed /\ req[r].last = stream[r].final

(* finish_request saturates at zero.                                       *)
Finished(n) == IF n = 0 THEN 0 ELSE n - 1

(* The handler answers with an ordinary response and returns.              *)
Answer(r, reply) ==
  /\ req' = [req EXCEPT ![r].pc = "done", ![r].armed = FALSE, ![r].reply = reply,
                        ![r].last = stream[r].final,
                        ![r].sent = IF reply = "whole" THEN req[r].taken ELSE 0]
  /\ active' = Finished(active)

-----------------------------------------------------------------------------
Init ==
  /\ SInit
  /\ req = [r \in Jobs |-> [pc |-> "new", taken |-> 0, sent |-> 0, late |-> FALSE,
                            armed |-> FALSE, last |-> "none", reply |-> "none"]]
  /\ active = 0
  /\ cancelled = {}

(* record_request.                                                         *)
Arrive(r) ==
  /\ At(r, "new")
  /\ req' = [req EXCEPT ![r].pc = "model"]
  /\ active' = active + 1
  /\ UNCHANGED <<svars, cancelled>>

(* No model is loaded: 503 at once.                                        *)
Unavailable(r) ==
  /\ At(r, "model")
  /\ req' = [req EXCEPT ![r].pc = "done", ![r].reply = "unavailable"]
  /\ active' = Finished(active)
  /\ UNCHANGED <<svars, cancelled>>

(* The guard is armed from here on, through prefill and the whole stream.  *)
Submit(r) ==
  /\ At(r, "model")
  /\ SSubmit(r)
  /\ \E pc \in {"collect", "peek"} :
       req' = [req EXCEPT ![r].pc = pc, ![r].armed = TRUE]
  /\ UNCHANGED <<active, cancelled>>

(* collect, for a request that does not stream.                            *)
Collect(r) ==
  /\ At(r, "collect")
  /\ \/ /\ TokenReady(r)
        /\ req' = [req EXCEPT ![r].taken = @ + 1]
        /\ active' = active
     \/ /\ FinalReady(r) \/ Exhausted(r)
        /\ Answer(r, IF stream[r].final \in Failures THEN "error" ELSE "whole")
  /\ UNCHANGED <<svars, cancelled>>

(* Mutant of Peek: the chunk read is not put back.                         *)
PeekAndDrop(r) ==
  /\ At(r, "peek")
  /\ IF ~TokenReady(r) /\ FinalReady(r) /\ stream[r].final \in Failures
     THEN Answer(r, "error")
     ELSE /\ req' = [req EXCEPT ![r].pc = "head",
                                ![r].taken = IF TokenReady(r) THEN @ + 1 ELSE @]
          /\ active' = active
  /\ UNCHANGED <<svars, cancelled>>
(* peek: a failure within the budget is still an HTTP error; the chunk     *)
(* read, if any, goes back on the front of the stream.                     *)
Peek(r) ==
  /\ At(r, "peek")
  /\ IF ~TokenReady(r) /\ FinalReady(r) /\ stream[r].final \in Failures
     THEN Answer(r, "error")
     ELSE /\ req' = [req EXCEPT ![r].pc = "head",
                                ![r].late = ~TokenReady(r) /\ ~FinalReady(r) /\ ~Exhausted(r)]
          /\ active' = active
  /\ UNCHANGED <<svars, cancelled>>

(* The opening event.                                                      *)
Head200(r) ==
  /\ At(r, "head")
  /\ req' = [req EXCEPT ![r].pc = "body"]
  /\ UNCHANGED <<svars, active, cancelled>>

(* One chunk becomes an event; the final one disarms the guard.            *)
Body(r) ==
  /\ At(r, "body")
  /\ \/ /\ TokenReady(r)
        /\ req' = [req EXCEPT ![r].taken = @ + 1, ![r].sent = @ + 1]
     \/ /\ FinalReady(r)
        /\ req' = [req EXCEPT ![r].last = stream[r].final, ![r].armed = FALSE]
  /\ UNCHANGED <<svars, active, cancelled>>

(* The tail runs once the channel has closed: cancel, finish, terminator.  *)
Tail200(r) ==
  /\ At(r, "body")
  /\ Exhausted(r)
  /\ SWithdraw(r)
  /\ cancelled' = cancelled \cup {r}
  /\ req' = [req EXCEPT ![r].pc = "done", ![r].armed = FALSE, ![r].reply = "events"]
  /\ active' = Finished(active)

(* Mutant of HangUp: dropping the receiver is thought to be enough.        *)
HangUpOnly(r) ==
  /\ req[r].pc \in Reading
  /\ SWithdraw(r)
  /\ req' = [req EXCEPT ![r].pc = "gone"]
  /\ UNCHANGED <<active, cancelled>>

(* The client is gone: the future or the stream is dropped, its guard and  *)
(* its receiver with it.  No other code of the handler runs.               *)
HangUp(r) ==
  /\ req[r].pc \in Reading
  /\ SWithdraw(r)
  /\ cancelled' = IF req[r].armed THEN cancelled \cup {r} ELSE cancelled
  /\ req' = [req EXCEPT ![r].pc = "gone"]
  /\ active' = active

(* The scheduler works.                                                    *)
Serve ==
  /\ \/ SServe \/ SClose \/ SRelease
     \/ SToken /\ stream[serving].tokens < MaxTokens
     \/ \E ending \in Endings : SEnd(ending)
  /\ UNCHANGED gatewayVars

-----------------------------------------------------------------------------
Handle(r) ==
  \/ Unavailable(r) \/ Submit(r) \/ Collect(r) \/ Peek(r)
  \/ Head200(r) \/ Body(r) \/ Tail200(r)

Next == Serve \/ \E r \in Jobs : Arrive(r) \/ Handle(r) \/ HangUp(r)

(* Handlers are polled and the worker keeps working, which is what         *)
(* StreamsClose shows of Scheduler.tla.  Clients need not stay.            *)
Fair == WF_vars(Serve) /\ \A r \in Jobs : WF_vars(Handle(r))

Spec == Init /\ [][Next]_vars /\ Fair

-----------------------------------------------------------------------------
(* Properties.                                                             *)

InFlight == {r \in Jobs : req[r].pc \notin {"new", "done", "gone"}}
HungUp == {r \in Jobs : At(r, "gone")}

(* An abandoned request does not hold the model against everyone waiting,  *)
(* and no other is disturbed: unless its last chunk had been read, the job *)
(* of a client that hung up is cancelled, even in prefill where a dropped  *)
(* receiver goes unnoticed, and never that of a client still reading.      *)
CancelledIfAbandoned ==
  /\ \A r \in HungUp : r \in cancelled \/ req[r].last # "none"
  /\ cancelled \cap InFlight = {}

(* What a client is told is what happened.  An answer is whole: every      *)
(* token that was generated and the ending, the first token included,      *)
(* which peek had already taken off the channel.  A failure is never       *)
(* dressed up as an answer: the client learns of it from the HTTP status,  *)
(* unless tokens or headers were already on the way.                       *)
AnswerIsHonest ==
  /\ \A r \in Jobs : req[r].reply \in {"whole", "events"} =>
       /\ req[r].sent = stream[r].tokens
       /\ req[r].last = stream[r].final /\ stream[r].final # "none"
  /\ \A r \in Jobs : At(r, "done") /\ stream[r].final \in Failures =>
       \/ req[r].reply = "error"
       \/ req[r].reply = "events" /\ (req[r].late \/ stream[r].tokens > 0)

(* Every request that arrives is answered, unless its client hangs up.     *)
RequestsAnswered == \A r \in Jobs : At(r, "model") ~> req[r].pc \in {"done", "gone"}
=============================================================================
