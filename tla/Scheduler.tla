------------------------------ MODULE Scheduler ------------------------------
(***************************************************************************)
(* Serialized access to the one loaded model:                              *)
(* src/src-tauri/src/ai_engine/scheduler.rs with the generation loop of    *)
(* runtime.rs and the callers of manager.rs that share its flag.           *)
(*                                                                         *)
(* Threads, each a set of actions below:                                   *)
(*   - clients that submit a job, cancel it, or stop reading its stream;   *)
(*   - the worker, which takes jobs in order and runs each to its end;     *)
(*   - one watcher per running job, which polls the job's cancel flag and  *)
(*     clears the runtime's;                                               *)
(*   - desktop chats, which take the runtime mutex without the queue;      *)
(*   - the Stop button;                                                    *)
(*   - the load, unload and reload commands of ModelHost.                  *)
(* The runtime's is_generating flag is both the status and the cancel      *)
(* token of whichever generation is running.                               *)
(***************************************************************************)
EXTENDS ModelHost, Sequences, FiniteSets

CONSTANTS
  Jobs,        (* gateway requests, each submitted at most once            *)
  Chats,       (* desktop turns, each run at most once                     *)
  Worker,      (* the generation worker thread                             *)
  NoJob,       (* the worker holds no job                                  *)
  MaxPrefill,  (* bound: prefill chunks of a prompt                        *)
  MaxTokens,   (* params.max_tokens                                        *)
  MaxStops     (* bound: presses of Stop                                   *)

Generators == {Worker} \cup Chats

ASSUME ThreadAssumption ==
  /\ IsFiniteSet(Jobs)
  /\ NoJob \notin Jobs
  /\ Worker \notin Chats
  /\ Cmds \cap Generators = {}
  /\ Free \notin Generators
ASSUME LengthAssumption ==
  MaxPrefill \in Nat \ {0} /\ MaxTokens \in Nat /\ MaxStops \in Nat

VARIABLES
  depth,     (* GenerationScheduler.depth                                  *)
  queue,     (* envelopes in the mpsc channel                              *)
  job,       (* per job: client pc, queue_position, cancel flag, receiver, *)
             (* finished flag of its watcher                               *)
  out,       (* per job: what its chunk channel carried so far             *)
  watch,     (* per job: its cancel watcher, off from its end to its join  *)
  wpc,       (* worker program counter                                     *)
  cur,       (* job the worker is running, or NoJob                        *)
  gen,       (* per generator: generation pc, steps, outcome               *)
  stops,     (* presses of Stop so far                                     *)
  stopping   (* a Stop waits for the runtime mutex                         *)

schedVars == <<depth, queue, job, out, watch, wpc, cur, gen, stops, stopping>>
vars == <<hostVars, schedVars>>

-----------------------------------------------------------------------------
(* Types and helpers.                                                      *)

Endings == {"stop", "length", "cancelled", "no_model", "error", "prefill_cancelled"}
JobState ==
  [pc : {"new", "counted", "queued", "running", "done"}, position : Nat,
   cancel : BOOLEAN, reader : BOOLEAN, finished : BOOLEAN]
OutState == [tokens : Nat, final : Endings \cup {"none"}, closed : BOOLEAN]
GenPcs == {"idle", "wait", "start", "render", "prefill", "decode", "done"}
GenState == [pc : GenPcs, n : Nat, end : Endings \cup {"none"}]

GenAt(g, pc) == gen[g].pc = pc

(* Between taking the runtime mutex and giving it back.                    *)
Inside(g) == gen[g].pc \in {"start", "render", "prefill", "decode"}

(* Sending on job j's channel when the receiver may be gone.               *)
Sent(o, j, ending) == IF job[j].reader THEN [o EXCEPT ![j].final = ending] ELSE o

(* The generation of g ends inside the mutex: the flag is left as given    *)
(* and the mutex released.                                                 *)
Leave(g, ending, flag) ==
  /\ gen' = [gen EXCEPT ![g].pc = "done", ![g].end = ending]
  /\ generating' = flag
  /\ holder' = Free

-----------------------------------------------------------------------------
(* Clients.                                                                *)

SchedInit ==
  /\ depth = 0
  /\ queue = <<>>
  /\ job = [j \in Jobs |-> [pc |-> "new", position |-> 0, cancel |-> FALSE,
                            reader |-> TRUE, finished |-> FALSE]]
  /\ out = [j \in Jobs |-> [tokens |-> 0, final |-> "none", closed |-> FALSE]]
  /\ watch = [j \in Jobs |-> "none"]
  /\ wpc = "recv"
  /\ cur = NoJob
  /\ gen = [g \in Generators |-> [pc |-> "idle", n |-> 0, end |-> "none"]]
  /\ stops = 0
  /\ stopping = FALSE

(* submit: count first, send second.                                       *)
Count(j) ==
  /\ job[j].pc = "new"
  /\ depth' = depth + 1
  /\ job' = [job EXCEPT ![j].pc = "counted", ![j].position = depth]
  /\ UNCHANGED <<hostVars, queue, out, watch, wpc, cur, gen, stops, stopping>>

Send(j) ==
  /\ job[j].pc = "counted"
  /\ queue' = Append(queue, j)
  /\ job' = [job EXCEPT ![j].pc = "queued"]
  /\ UNCHANGED <<hostVars, depth, out, watch, wpc, cur, gen, stops, stopping>>

(* GenerationHandle::cancel, Canceller::cancel, or an armed CancelOnDrop.  *)
Cancel(j) ==
  /\ job[j].pc \notin {"new", "counted"}
  /\ ~job[j].cancel
  /\ job' = [job EXCEPT ![j].cancel = TRUE]
  /\ UNCHANGED <<hostVars, depth, queue, out, watch, wpc, cur, gen, stops, stopping>>

(* The receiving half is dropped.                                          *)
Abandon(j) ==
  /\ job[j].pc \notin {"new", "counted"}
  /\ job[j].reader
  /\ job' = [job EXCEPT ![j].reader = FALSE]
  /\ UNCHANGED <<hostVars, depth, queue, out, watch, wpc, cur, gen, stops, stopping>>

-----------------------------------------------------------------------------
(* The worker: run_job.                                                    *)

Receive ==
  /\ wpc = "recv"
  /\ queue # <<>>
  /\ cur' = Head(queue)
  /\ queue' = Tail(queue)
  /\ job' = [job EXCEPT ![Head(queue)].pc = "running"]
  /\ wpc' = "check"
  /\ UNCHANGED <<hostVars, depth, out, watch, gen, stops, stopping>>

(* Cancelled before it started: the channel closes without a final chunk.  *)
SkipCancelled ==
  /\ wpc = "check"
  /\ job[cur].cancel
  /\ out' = [out EXCEPT ![cur].closed = TRUE]
  /\ wpc' = "decrement"
  /\ UNCHANGED <<hostVars, depth, queue, job, watch, cur, gen, stops, stopping>>

NotCancelled ==
  /\ wpc = "check"
  /\ ~job[cur].cancel
  /\ wpc' = "handle"
  /\ UNCHANGED <<hostVars, depth, queue, job, out, watch, cur, gen, stops, stopping>>

(* Mutant of RejectNoModel: the early return skips the decrement.          *)
RejectAndForget ==
  /\ wpc = "handle"
  /\ mirror = NoModel
  /\ out' = [Sent(out, cur, "no_model") EXCEPT ![cur].closed = TRUE]
  /\ job' = [job EXCEPT ![cur].pc = "done"]
  /\ cur' = NoJob
  /\ wpc' = "recv"
  /\ UNCHANGED <<hostVars, depth, queue, watch, gen, stops, stopping>>

(* cancel_handle() answers from the mirror.                                *)
RejectNoModel ==
  /\ wpc = "handle"
  /\ mirror = NoModel
  /\ out' = [Sent(out, cur, "no_model") EXCEPT ![cur].closed = TRUE]
  /\ wpc' = "decrement"
  /\ UNCHANGED <<hostVars, depth, queue, job, watch, cur, gen, stops, stopping>>

(* Spawns the watcher (spawn failing is tolerated) and enters              *)
(* generate_direct.                                                        *)
StartGenerating ==
  /\ wpc = "handle"
  /\ mirror # NoModel
  /\ \E w \in {"top", "none"} : watch' = [watch EXCEPT ![cur] = w]
  /\ gen' = [gen EXCEPT ![Worker] = [pc |-> "wait", n |-> 0, end |-> "none"]]
  /\ wpc' = "generate"
  /\ UNCHANGED <<hostVars, depth, queue, job, out, cur, stops, stopping>>

SignalFinished ==
  /\ wpc = "generate"
  /\ GenAt(Worker, "done")
  /\ job' = [job EXCEPT ![cur].finished = TRUE]
  /\ wpc' = "join"
  /\ UNCHANGED <<hostVars, depth, queue, out, watch, cur, gen, stops, stopping>>

(* Mutant of JoinWatcher: the watcher is left to end by itself.            *)
DetachWatcher ==
  LET failed == gen[Worker].end \in {"error", "prefill_cancelled"}
      told   == IF failed THEN Sent(out, cur, gen[Worker].end) ELSE out
  IN  /\ wpc = "join"
      /\ out' = [told EXCEPT ![cur].closed = TRUE]
      /\ gen' = [gen EXCEPT ![Worker].pc = "idle"]
      /\ wpc' = "decrement"
      /\ UNCHANGED <<hostVars, depth, queue, job, watch, cur, stops, stopping>>

(* handle.join(), then a failed generation is reported on the channel,     *)
(* which closes as run_job returns.                                        *)
JoinWatcher ==
  LET failed == gen[Worker].end \in {"error", "prefill_cancelled"}
      told   == IF failed THEN Sent(out, cur, gen[Worker].end) ELSE out
  IN  /\ wpc = "join"
      /\ watch[cur] \notin {"top", "check"}
      /\ watch' = [watch EXCEPT ![cur] = "none"]
      /\ out' = [told EXCEPT ![cur].closed = TRUE]
      /\ gen' = [gen EXCEPT ![Worker].pc = "idle"]
      /\ wpc' = "decrement"
      /\ UNCHANGED <<hostVars, depth, queue, job, cur, stops, stopping>>

Decrement ==
  /\ wpc = "decrement"
  /\ depth' = depth - 1
  /\ job' = [job EXCEPT ![cur].pc = "done"]
  /\ cur' = NoJob
  /\ wpc' = "recv"
  /\ UNCHANGED <<hostVars, queue, out, watch, gen, stops, stopping>>

-----------------------------------------------------------------------------
(* The cancel watcher of job j: loop while not finished; on cancel, clear  *)
(* the runtime's flag once and exit.                                       *)

(* Mutant of WatchTop: only a cancel ends the loop.                        *)
WatchForever(j) ==
  /\ watch[j] = "top"
  /\ watch' = [watch EXCEPT ![j] = "check"]
  /\ UNCHANGED <<hostVars, depth, queue, job, out, wpc, cur, gen, stops, stopping>>

WatchTop(j) ==
  /\ watch[j] = "top"
  /\ watch' = [watch EXCEPT ![j] = IF job[j].finished THEN "off" ELSE "check"]
  /\ UNCHANGED <<hostVars, depth, queue, job, out, wpc, cur, gen, stops, stopping>>

WatchCheck(j) ==
  /\ watch[j] = "check"
  /\ watch' = [watch EXCEPT ![j] = IF job[j].cancel THEN "off" ELSE "top"]
  /\ generating' = IF job[j].cancel THEN FALSE ELSE generating
  /\ UNCHANGED <<holder, runtime, mirror, package, saved, cmd, issued,
                 depth, queue, job, out, wpc, cur, gen, stops, stopping>>

-----------------------------------------------------------------------------
(* generate_with_capability, for the worker and for a desktop chat.        *)

ChatBegin(c) ==
  /\ c \in Chats
  /\ GenAt(c, "idle")
  /\ gen' = [gen EXCEPT ![c].pc = "wait"]
  /\ UNCHANGED <<hostVars, depth, queue, job, out, watch, wpc, cur, stops, stopping>>

TakeRuntime(g) ==
  /\ GenAt(g, "wait")
  /\ holder = Free
  /\ holder' = g
  /\ gen' = [gen EXCEPT ![g].pc = "start"]
  /\ UNCHANGED <<runtime, generating, mirror, package, saved, cmd, issued,
                 depth, queue, job, out, watch, wpc, cur, stops, stopping>>

unchangedByGen == <<runtime, mirror, package, saved, cmd, issued,
                    depth, queue, watch, wpc, cur, stops, stopping>>

(* No model is an error before the flag is touched; otherwise the flag is  *)
(* raised, whatever it held.                                               *)
RaiseFlag(g) ==
  /\ GenAt(g, "start")
  /\ \/ /\ runtime = NoModel
        /\ Leave(g, "error", generating)
     \/ /\ runtime # NoModel
        /\ generating' = TRUE
        /\ gen' = [gen EXCEPT ![g].pc = "render"]
        /\ holder' = holder
  /\ UNCHANGED <<unchangedByGen, job, out>>

(* Template, tokenizer and context.  A refusal clears the flag; a failure  *)
(* propagated by `?` does not.                                             *)
Render(g) ==
  /\ GenAt(g, "render")
  /\ \/ \E n \in 1..MaxPrefill :
          /\ gen' = [gen EXCEPT ![g] = [pc |-> "prefill", n |-> n, end |-> "none"]]
          /\ UNCHANGED <<holder, generating>>
     \/ Leave(g, "error", FALSE)
     \/ Leave(g, "error", generating)
  /\ UNCHANGED <<unchangedByGen, job, out>>

(* One chunk of the prompt: the flag is read before each.                  *)
Prefill(g) ==
  /\ GenAt(g, "prefill")
  /\ \/ /\ ~generating
        /\ Leave(g, "prefill_cancelled", FALSE)
     \/ /\ generating
        /\ \/ Leave(g, "error", FALSE)
           \/ /\ gen' = [gen EXCEPT ![g] = [pc |-> IF gen[g].n = 1 THEN "decode" ELSE "prefill",
                                             n |-> gen[g].n - 1, end |-> "none"]]
              /\ UNCHANGED <<holder, generating>>
  /\ UNCHANGED <<unchangedByGen, job, out>>

(* Mutant of Deliver: a cancelled job still receives its chunks.           *)
DeliverAlways(g, o) ==
  IF g \in Chats THEN UNCHANGED <<job, out>>
  ELSE IF ~job[cur].reader
       THEN job' = [job EXCEPT ![cur].cancel = TRUE] /\ out' = out
  ELSE out' = [out EXCEPT ![cur] = o] /\ job' = job

(* The token callback of g given the next value of its channel.  The       *)
(* worker's drops every chunk of a cancelled job, the final one included,  *)
(* and cancels a job nobody reads; the desktop's emits an event.           *)
Deliver(g, o) ==
  IF g \in Chats THEN UNCHANGED <<job, out>>
  ELSE IF job[cur].cancel THEN UNCHANGED <<job, out>>
  ELSE IF ~job[cur].reader
       THEN job' = [job EXCEPT ![cur].cancel = TRUE] /\ out' = out
  ELSE out' = [out EXCEPT ![cur] = o] /\ job' = job

(* The callback clears the runtime's flag when the job is not to go on.    *)
CallbackStops(g) == g = Worker /\ (job[cur].cancel \/ ~job[cur].reader)

FinalChunk(g, ending) ==
  /\ Deliver(g, [out[cur] EXCEPT !.final = ending])
  /\ Leave(g, ending, FALSE)

(* One turn of the decode loop: cancellation, length, end of generation,   *)
(* or a token, which may be filtered out, and whose decode may fail.       *)
Decode(g) ==
  /\ GenAt(g, "decode")
  /\ \/ ~generating /\ FinalChunk(g, "cancelled")
     \/ generating /\ gen[g].n >= MaxTokens /\ FinalChunk(g, "length")
     \/ generating /\ gen[g].n < MaxTokens /\ FinalChunk(g, "stop")
     \/ /\ generating
        /\ gen[g].n < MaxTokens
        /\ \E emitted \in BOOLEAN :
             /\ IF emitted THEN Deliver(g, [out[cur] EXCEPT !.tokens = @ + 1])
                ELSE UNCHANGED <<job, out>>
             /\ \/ Leave(g, "error", FALSE)
                \/ /\ gen' = [gen EXCEPT ![g].n = @ + 1]
                   /\ generating' = (generating /\ ~(emitted /\ CallbackStops(g)))
                   /\ holder' = holder
  /\ UNCHANGED unchangedByGen

GenStep(g) == TakeRuntime(g) \/ RaiseFlag(g) \/ Render(g) \/ Prefill(g) \/ Decode(g)

-----------------------------------------------------------------------------
(* stop_generation: through the mirror's copy of the flag, or, with        *)
(* nothing published, behind the runtime mutex.                            *)

Stop ==
  /\ stops < MaxStops
  /\ ~stopping
  /\ stops' = stops + 1
  /\ generating' = IF mirror # NoModel THEN FALSE ELSE generating
  /\ stopping' = (mirror = NoModel)
  /\ UNCHANGED <<holder, runtime, mirror, package, saved, cmd, issued,
                 depth, queue, job, out, watch, wpc, cur, gen>>

StopBehindMutex ==
  /\ stopping
  /\ holder = Free
  /\ generating' = FALSE
  /\ stopping' = FALSE
  /\ UNCHANGED <<holder, runtime, mirror, package, saved, cmd, issued,
                 depth, queue, job, out, watch, wpc, cur, gen, stops>>

-----------------------------------------------------------------------------
(* The specification.                                                      *)

Init == HostInit /\ SchedInit

WorkerStep ==
  \/ Receive \/ SkipCancelled \/ NotCancelled \/ RejectNoModel
  \/ StartGenerating \/ SignalFinished \/ JoinWatcher \/ Decrement

ClientStep(j) == Count(j) \/ Send(j) \/ Cancel(j) \/ Abandon(j)

WatchStep(j) == WatchTop(j) \/ WatchCheck(j)

CmdStep == HostNext /\ UNCHANGED schedVars

Next ==
  \/ CmdStep
  \/ \E j \in Jobs : ClientStep(j) \/ WatchStep(j)
  \/ WorkerStep
  \/ \E c \in Chats : ChatBegin(c)
  \/ \E g \in Generators : GenStep(g)
  \/ Stop
  \/ StopBehindMutex

(* Threads keep running; clients, the user and the Stop button need not.   *)
(* A submit that has counted itself goes on to send.  The runtime mutex is *)
(* contended by finitely many callers at a time, so a waiter is served.    *)
Fairness ==
  /\ WF_vars(WorkerStep)
  /\ \A j \in Jobs : WF_vars(Send(j)) /\ WF_vars(WatchStep(j))
  /\ \A g \in Generators : WF_vars(GenStep(g))
  /\ \A k \in Cmds : WF_vars(Proceed(k) /\ UNCHANGED schedVars)
  /\ WF_vars(StopBehindMutex)

Spec == Init /\ [][Next]_vars /\ Fairness

-----------------------------------------------------------------------------
(* Properties.                                                             *)

(* Every variable keeps its type.                                          *)
SchedTypeOK ==
  /\ depth \in Nat
  /\ queue \in Seq(Jobs)
  /\ job \in [Jobs -> JobState]
  /\ out \in [Jobs -> OutState]
  /\ watch \in [Jobs -> {"none", "top", "check", "off"}]
  /\ wpc \in {"recv", "check", "handle", "generate", "join", "decrement"}
  /\ cur \in Jobs \cup {NoJob}
  /\ gen \in [Generators -> GenState]
  /\ stops \in Nat
  /\ stopping \in BOOLEAN

TypeOK == holder \in Cmds \cup Generators \cup {Free} /\ HostShape /\ SchedTypeOK

(* "Exactly one generation can run at a time", and no model is replaced or *)
(* freed beneath one: whoever decodes does so alone, on a loaded model,    *)
(* though the desktop and the commands bypass the queue.                   *)
ModelHeld ==
  \A g \in Generators : Inside(g) =>
    /\ \A h \in Generators : Inside(h) => h = g
    /\ \A k \in Cmds : ~At(k, "loading") /\ ~At(k, "unloading")
    /\ ~GenAt(g, "start") => runtime # NoModel

(* queue_depth is the number of jobs submitted and not finished, so the    *)
(* unsigned counter never wraps however submits and completions interleave.*)
Outstanding == {j \in Jobs : job[j].pc \in {"counted", "queued", "running"}}
DepthCounts == depth = Cardinality(Outstanding)

(* A generation that was asked to stop was asked for itself: a job that    *)
(* ends as cancelled was cancelled, or somebody pressed Stop, although     *)
(* every watcher writes to the one flag all generations share.             *)
CancelStaysLocal ==
  \A j \in Jobs : out[j].final \in {"cancelled", "prefill_cancelled"}
                    => job[j].cancel \/ stops > 0

(* The scheduler is a FIFO service with well formed streams.               *)
Service == INSTANCE GenerationService WITH
  submitted <- {j \in Jobs : job[j].pc \notin {"new", "counted"}},
  withdrawn <- {j \in Jobs : job[j].cancel \/ ~job[j].reader},
  waiting <- queue,
  serving <- cur,
  stream <- out
ImplementsService == Service!SSpec

(* Every job that was sent has its stream closed, whoever holds the model, *)
(* whatever is cancelled, and whether or not a model is loaded.            *)
StreamsClose == \A j \in Jobs : job[j].pc = "queued" ~> out[j].closed

(* Cancelling "takes effect within one token, or within one prefill        *)
(* chunk": once the watcher of a cancelled job has cleared the runtime's   *)
(* flag and ended, no further chunk of the prompt is decoded for the job.  *)
CancelReachesPrefill ==
  wpc = "generate" /\ cur # NoJob /\ job[cur].cancel /\ watch[cur] = "off"
    => ~(GenAt(Worker, "prefill") /\ generating)
=============================================================================
