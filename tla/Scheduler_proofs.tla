-------------------------- MODULE Scheduler_proofs --------------------------
(***************************************************************************)
(* Proofs about Scheduler.tla: its type invariant, that the depth counter  *)
(* counts the outstanding jobs, that whoever generates does so alone on a  *)
(* loaded model, that a cancel stays with its job, and that the scheduler  *)
(* implements GenerationService.  The argument is one inductive invariant, *)
(* IInv, whose parts are named below and whose preservation is proved      *)
(* first for the commands of ModelHost, then action by action for the      *)
(* scheduler; StreamInv and CancelInv rest on it, and the steps of the     *)
(* refinement on them.                                                     *)
(***************************************************************************)
EXTENDS Scheduler, FiniteSetTheorems, TLAPS

-----------------------------------------------------------------------------
(* The inductive invariant.                                                *)

(* A command that is about to load knows what.                             *)
Targeted ==
  \A k \in Cmds :
    /\ cmd[k].pc \in {"package", "prepare", "loading", "publish", "publish_failure"}
         => cmd[k].target \in Models
    /\ cmd[k].pc = "acquire" /\ cmd[k].op # "unload" => cmd[k].target \in Models
    /\ cmd[k].pc \in {"forget_package", "unpublish"} => cmd[k].op = "unload"

(* The mutex: whoever is inside the runtime is its holder, and conversely. *)
MutexInv ==
  /\ \A g \in Generators : Inside(g) <=> holder = g
  /\ \A k \in Cmds : cmd[k].pc \in {"loading", "unloading"} <=> holder = k

(* Past its first check, a generation has a model beneath it.              *)
LoadedInv ==
  \A g \in Generators : gen[g].pc \in {"render", "prefill", "decode"} => runtime # NoModel

(* A prompt being decoded has a chunk left.                                *)
PrefillInv == \A g \in Generators : gen[g].pc = "prefill" => gen[g].n # 0

(* The worker, its job and the queue agree on who is where.                *)
WorkerInv ==
  /\ cur = NoJob <=> wpc = "recv"
  /\ cur # NoJob => job[cur].pc = "running"
  /\ \A i \in 1..Len(queue) : job[queue[i]].pc = "queued"
  /\ \A i, j \in 1..Len(queue) : queue[i] = queue[j] => i = j

(* The worker's generation runs while run_job waits for it, and only then. *)
RunInv ==
  \/ wpc = "generate"
  \/ wpc = "join" /\ GenAt(Worker, "done")
  \/ wpc # "join" /\ GenAt(Worker, "idle")

IInv ==
  /\ TypeOK /\ Targeted /\ MutexInv /\ LoadedInv /\ PrefillInv /\ WorkerInv /\ RunInv
  /\ DepthCounts

-----------------------------------------------------------------------------
(* The commands of ModelHost.                                              *)

(* What a load settles on is a context length.                             *)
LEMMA LoadContextType ==
  ASSUME NEW m \in Models, NEW floor \in Nat PROVE LoadContexts(m, floor) \subseteq Nat
BY ContextAssumption DEF LoadContexts, PlanContext, Smaller, Larger

(* What a failed or a finished load leaves of its command has the type of  *)
(* a command, and only a restore goes on loading.                          *)
LEMMA AfterLoadType ==
  ASSUME NEW c \in CmdState
  PROVE  /\ AfterFailedLoad(c) \in CmdState
         /\ AfterFailedLoad(c).pc \in {"prepare", "idle"}
         /\ AfterFailedLoad(c).target = c.target
         /\ AfterGoodLoad(c) \in CmdState
         /\ AfterGoodLoad(c).pc = "idle"
BY DEF CmdState, AfterFailedLoad, AfterGoodLoad, Returned, Pcs, Results, MaybeLoaded

(* Issuing an operation is outside the mutex.                              *)
LEMMA IssueStep ==
  ASSUME HostShape, Targeted, NEW k \in Cmds, NEW c \in CmdState,
         c.pc \in {"package", "prepare"} => c.target \in Models,
         c.pc \in {"idle", "package", "prepare", "forget_package"},
         c.pc = "forget_package" => c.op = "unload",
         Issue(k, c), saved' \in MaybeModel
  PROVE  /\ HostShape' /\ Targeted'
         /\ holder' = holder /\ runtime' = runtime
         /\ \A i \in Cmds : cmd'[i].pc \in {"loading", "unloading"}
                              <=> cmd[i].pc \in {"loading", "unloading"}
BY DEF HostShape, Targeted, Issue, At

(* A thread before its first operation is a well formed command.           *)
LEMMA BlankType == Blank \in CmdState
BY DEF Blank, CmdState, Pcs, Ops, Results, MaybeModel, MaybeLoaded

(* What the steps of a command leave true.                                 *)
CmdGood == HostShape /\ Targeted /\ MutexInv /\ LoadedInv
           /\ holder \in Cmds \cup Generators \cup {Free}

(* A step that changes cmd outside the mutex and nothing the generations   *)
(* look at.                                                                *)
LEMMA OutsideMutex ==
  ASSUME CmdGood, HostShape', Targeted', UNCHANGED <<holder, runtime, gen>>,
         \A i \in Cmds : cmd'[i].pc \in {"loading", "unloading"}
                            <=> cmd[i].pc \in {"loading", "unloading"}
  PROVE  CmdGood'
BY DEF CmdGood, MutexInv, LoadedInv, Inside

(* Starting a load, an unload or a reload keeps the mutex, the loaded      *)
(* model under a generation and the targets of the other commands.         *)
LEMMA BeginStep ==
  ASSUME CmdGood, NEW k \in Cmds, Begin(k), UNCHANGED schedVars
  PROVE  CmdGood'
<1> USE DEF CmdGood
<1>g. gen' = gen
  BY DEF schedVars
<1>1. ASSUME NEW m \in Models, Load(k, m) PROVE CmdGood'
  <2> DEFINE c == [Blank EXCEPT !.op = "load", !.target = m, !.pc = "prepare"]
  <2>1. c \in CmdState /\ c.pc = "prepare" /\ c.target = m
    BY BlankType DEF CmdState, Pcs, Ops, MaybeModel, Blank
  <2>2. Issue(k, c) /\ saved' \in MaybeModel
    BY <1>1 DEF Load, HostShape
  <2> HIDE DEF c
  <2> QED BY <1>g, <2>1, <2>2, IssueStep, OutsideMutex
<1>2. ASSUME Unload(k) PROVE CmdGood'
  <2> DEFINE c == [Blank EXCEPT !.op = "unload", !.pc = "forget_package"]
  <2>1. c \in CmdState /\ c.pc = "forget_package" /\ c.op = "unload"
    BY BlankType DEF CmdState, Pcs, Ops, Blank
  <2>2. Issue(k, c) /\ saved' \in MaybeModel
    BY <1>2 DEF Unload, MaybeModel, HostShape
  <2> HIDE DEF c
  <2> QED BY <1>g, <2>1, <2>2, IssueStep, OutsideMutex
<1>3. ASSUME NEW w \in Wants, Ensure(k, w) PROVE CmdGood'
  <2> DEFINE b == [Blank EXCEPT !.op = "ensure", !.wanted = w, !.prior = mirror]
             c == IF mirror = NoModel THEN Returned(b, "err", NoModel)
                  ELSE IF mirror.ctx >= w THEN Returned(b, "ok", mirror)
                  ELSE [b EXCEPT !.pc = "package", !.target = mirror.model, !.floor = w]
  <2>0. w \in Nat /\ mirror \in MaybeLoaded
    BY ContextAssumption DEF HostShape
  <2>1. c \in CmdState /\ c.pc \in {"idle", "package"}
          /\ (c.pc = "package" => c.target \in Models)
    BY <2>0 DEF CmdState, Pcs, Ops, Results, MaybeModel, MaybeLoaded, LoadedInfo, Returned, Blank
  <2>2. Issue(k, c) /\ saved' \in MaybeModel
    BY <1>3 DEF Ensure, HostShape
  <2> HIDE DEF c
  <2> QED BY <1>g, <2>1, <2>2, IssueStep, OutsideMutex
<1>4. ASSUME NEW w \in Wants, Grow(k, w) PROVE CmdGood'
  <2> DEFINE b == [Blank EXCEPT !.op = "grow", !.wanted = w, !.prior = mirror]
             goal == IF Trained[mirror.model] > 0
                     THEN Smaller(w, Trained[mirror.model]) ELSE w
             c == IF mirror = NoModel THEN Returned(b, "err", NoModel)
                  ELSE IF mirror.ctx >= w \/ goal <= mirror.ctx
                       THEN Returned(b, "ok", mirror)
                  ELSE [b EXCEPT !.pc = "package", !.target = mirror.model, !.floor = goal]
  <2>0. w \in Nat /\ mirror \in MaybeLoaded
    BY ContextAssumption DEF HostShape
  <2>a. mirror # NoModel => goal \in Nat
    BY <2>0, ContextAssumption DEF MaybeLoaded, LoadedInfo, Smaller
  <2> HIDE DEF goal
  <2>1. c \in CmdState /\ c.pc \in {"idle", "package"}
          /\ (c.pc = "package" => c.target \in Models)
    BY <2>0, <2>a DEF CmdState, Pcs, Ops, Results, MaybeModel, MaybeLoaded, LoadedInfo,
                      Returned, Blank
  <2>2. Issue(k, c) /\ saved' \in MaybeModel
    BY <1>4 DEF Grow, HostShape, goal
  <2> HIDE DEF c
  <2> QED BY <1>g, <2>1, <2>2, IssueStep, OutsideMutex
<1> QED BY <1>1, <1>2, <1>3, <1>4 DEF Begin

(* So does every step of a command under way: only the holder of the mutex *)
(* replaces or frees the runtime.                                          *)
LEMMA ProceedStep ==
  ASSUME CmdGood, NEW k \in Cmds, Proceed(k), UNCHANGED schedVars
  PROVE  CmdGood'
<1> USE DEF CmdGood
<1>g. gen' = gen
  BY DEF schedVars
<1>c. cmd[k] \in CmdState /\ Cmds \cap Generators = {} /\ Free \notin Cmds \cup Generators
  BY ThreadAssumption, FreeAssumption DEF HostShape
<1>1. CASE CheckPackage(k)
  BY <1>1, <1>g, <1>c, OutsideMutex
  DEF CheckPackage, At, Returned, HostShape, Targeted, CmdState, Pcs, Results, MaybeLoaded
<1>2. CASE Prepare(k)
  <2>1. PICK c \in CmdState : /\ cmd' = [cmd EXCEPT ![k] = c]
                              /\ c.target = cmd[k].target
                              /\ c.pc \in {"prepare", "acquire", "idle"}
    <3>1. CASE cmd' = [cmd EXCEPT ![k].pc = "acquire"]
      <4>1. [cmd[k] EXCEPT !.pc = "acquire"] \in CmdState
        BY <1>c DEF CmdState, Pcs
      <4> QED BY <3>1, <4>1, <1>c DEF CmdState, HostShape
    <3>2. CASE cmd' = [cmd EXCEPT ![k] = AfterFailedLoad(@)]
      <4>1. /\ AfterFailedLoad(cmd[k]) \in CmdState
            /\ AfterFailedLoad(cmd[k]).target = cmd[k].target
            /\ AfterFailedLoad(cmd[k]).pc \in {"prepare", "idle"}
        BY <1>c, AfterLoadType
      <4> QED BY <3>2, <4>1
    <3> QED BY <1>2, <3>1, <3>2 DEF Prepare
  <2> QED BY <1>2, <2>1, <1>g, OutsideMutex DEF Prepare, At, HostShape, Targeted
<1>3. CASE Acquire(k)
  <2>1. HostShape'
    BY <1>3, <1>c DEF Acquire, HostShape, CmdState, Pcs
  <2>2. Targeted'
    BY <1>3, <1>c DEF Acquire, Targeted, At, HostShape, CmdState
  <2>3. MutexInv'
    BY <1>3, <1>g, <1>c DEF Acquire, MutexInv, Inside, At, HostShape
  <2>4. LoadedInv'
    BY <1>3, <1>g DEF Acquire, LoadedInv
  <2> QED BY <1>3, <2>1, <2>2, <2>3, <2>4 DEF Acquire
<1>4. CASE LoadRuntime(k)
  <2>0. holder = k
    BY <1>4 DEF LoadRuntime, At, MutexInv
  <2>i. cmd[k].target \in Models /\ LoadContexts(cmd[k].target, cmd[k].floor) \subseteq Nat
    <3>1. cmd[k].target \in Models /\ cmd[k].floor \in Nat
      BY <1>4, <1>c DEF LoadRuntime, At, Targeted, CmdState
    <3> QED BY <3>1, LoadContextType
  <2>o. /\ holder' = Free /\ UNCHANGED <<mirror, package, saved, issued>>
        /\ generating' \in BOOLEAN
        /\ \/ \E info \in LoadedInfo :
                /\ runtime' = info
                /\ cmd' = [cmd EXCEPT ![k].pc = "publish", ![k].info = info]
           \/ runtime' = NoModel /\ cmd' = [cmd EXCEPT ![k].pc = "publish_failure"]
    <3>1. \A ctx \in LoadContexts(cmd[k].target, cmd[k].floor) :
            [model |-> cmd[k].target, ctx |-> ctx] \in LoadedInfo
      BY <2>i DEF LoadedInfo
    <3> QED BY <1>4, <3>1 DEF LoadRuntime, HostShape
  <2>1. HostShape'
    BY <2>o, <1>c DEF HostShape, CmdState, Pcs, MaybeLoaded
  <2>2. Targeted'
    BY <1>4, <2>o, <1>c DEF LoadRuntime, Targeted, At, HostShape, CmdState
  <2>3. MutexInv'
    BY <2>0, <2>o, <1>g, <1>c DEF MutexInv, Inside, HostShape, CmdState
  <2>4. LoadedInv'
    BY <2>0, <1>g, <1>c DEF MutexInv, LoadedInv, Inside
  <2> QED BY <2>o, <2>1, <2>2, <2>3, <2>4
<1>5. CASE PublishFailure(k)
  <2>1. /\ AfterFailedLoad(cmd[k]) \in CmdState
        /\ AfterFailedLoad(cmd[k]).target = cmd[k].target
        /\ AfterFailedLoad(cmd[k]).pc \in {"prepare", "idle"}
    BY <1>c, AfterLoadType
  <2> QED BY <1>5, <2>1, <1>g, OutsideMutex
          DEF PublishFailure, At, HostShape, Targeted, MaybeLoaded
<1>6. CASE PublishLoaded(k)
  BY <1>6, <1>g, <1>c, OutsideMutex
  DEF PublishLoaded, At, HostShape, Targeted, CmdState, Pcs
<1>7. CASE RecordPackage(k)
  BY <1>7, <1>g, <1>c, OutsideMutex
  DEF RecordPackage, At, HostShape, Targeted, CmdState, Pcs
<1>8. CASE SaveSession(k)
  <2>1. AfterGoodLoad(cmd[k]) \in CmdState /\ AfterGoodLoad(cmd[k]).pc = "idle"
    BY <1>c, AfterLoadType
  <2>2. saved' \in MaybeModel
    BY <1>8, <1>c DEF SaveSession, HostShape, CmdState, MaybeModel
  <2>3. HostShape' /\ Targeted'
    BY <1>8, <2>1, <2>2 DEF SaveSession, At, HostShape, Targeted
  <2>4. \A i \in Cmds : cmd'[i].pc \in {"loading", "unloading"}
                          <=> cmd[i].pc \in {"loading", "unloading"}
    BY <1>8, <2>1 DEF SaveSession, At, HostShape
  <2> QED BY <1>8, <2>3, <2>4, <1>g, OutsideMutex DEF SaveSession
<1>9. CASE ForgetPackage(k)
  BY <1>9, <1>g, <1>c, OutsideMutex
  DEF ForgetPackage, At, HostShape, Targeted, CmdState, Pcs, MaybeModel
<1>10. CASE Unpublish(k)
  <2>1. cmd[k].op = "unload"
    BY <1>10 DEF Unpublish, At, Targeted
  <2> QED BY <1>10, <2>1, <1>g, <1>c, OutsideMutex
  DEF Unpublish, At, HostShape, Targeted, CmdState, Pcs, MaybeLoaded
<1>11. CASE UnloadRuntime(k)
  <2>0. holder = k
    BY <1>11 DEF UnloadRuntime, At, MutexInv
  <2>1. HostShape'
    BY <1>11, <1>c DEF UnloadRuntime, Returned, HostShape, CmdState, Pcs, Results, MaybeLoaded
  <2>2. Targeted'
    BY <1>11, <1>c DEF UnloadRuntime, Returned, Targeted, At, HostShape, CmdState
  <2>3. MutexInv'
    BY <1>11, <2>0, <1>g, <1>c DEF UnloadRuntime, Returned, MutexInv, Inside, HostShape, CmdState
  <2>4. LoadedInv'
    BY <2>0, <1>g, <1>c DEF MutexInv, LoadedInv, Inside
  <2> QED BY <1>11, <2>1, <2>2, <2>3, <2>4 DEF UnloadRuntime
<1> QED BY <1>1, <1>2, <1>3, <1>4, <1>5, <1>6, <1>7, <1>8, <1>9, <1>10, <1>11 DEF Proceed

-----------------------------------------------------------------------------
(* The scheduler's own steps.                                              *)

(* What the commands of ModelHost cannot disturb.                          *)
SchedGood == SchedTypeOK /\ PrefillInv /\ WorkerInv /\ RunInv /\ DepthCounts

(* The invariant is a part for the commands and a part for the scheduler.  *)
LEMMA Split ==
  IInv <=> CmdGood /\ SchedGood
BY DEF IInv, CmdGood, SchedGood, TypeOK

(* The outstanding jobs can be counted.                                    *)
LEMMA OutstandingFinite ==
  IsFiniteSet(Outstanding) /\ Cardinality(Outstanding) \in Nat
<1>1. IsFiniteSet(Outstanding)
  BY ThreadAssumption, FS_Subset DEF Outstanding
<1> QED BY <1>1, FS_CardinalityType

(* A step of the scheduler that leaves the runtime, the commands and the   *)
(* places of the generations alone.                                        *)
LEMMA RuntimeAside ==
  ASSUME CmdGood, UNCHANGED <<holder, runtime, cmd, gen>>,
         UNCHANGED <<mirror, package, saved, issued>>, generating' \in BOOLEAN
  PROVE  CmdGood'
<1>1. HostShape' /\ Targeted'
  BY DEF CmdGood, HostShape, Targeted
<1> QED BY <1>1, OutsideMutex

(* A step of one generation that is outside the mutex and stays outside.   *)
LEMMA StillOutside ==
  ASSUME CmdGood, NEW g \in Generators, NEW r, gen \in [Generators -> GenState],
         gen' = [gen EXCEPT ![g] = r], UNCHANGED hostVars,
         gen[g].pc \notin {"start", "render", "prefill", "decode"},
         r.pc \notin {"start", "render", "prefill", "decode"}
  PROVE  CmdGood'
BY DEF CmdGood, HostShape, Targeted, MutexInv, LoadedInv, Inside, hostVars

(* A step that moves no job.                                               *)
LEMMA JobsStay ==
  ASSUME SchedGood, UNCHANGED <<depth, queue, cur>>,
         \A j \in Jobs : job'[j].pc = job[j].pc,
         wpc' = wpc \/ (wpc # "recv" /\ wpc' # "recv")
  PROVE  WorkerInv' /\ DepthCounts'
<1>1. WorkerInv'
  BY DEF SchedGood, SchedTypeOK, WorkerInv
<1>2. Outstanding' = Outstanding
  BY DEF Outstanding
<1> QED BY <1>1, <1>2 DEF SchedGood, DepthCounts

(* submit counts a job it has not counted before, and a client otherwise   *)
(* only raises flags.                                                      *)
LEMMA ClientStepKeeps ==
  ASSUME CmdGood, SchedGood, NEW j \in Jobs, ClientStep(j)
  PROVE  CmdGood' /\ SchedGood'
<1>r. RunInv'
  BY DEF SchedGood, ClientStep, Count, Send, Cancel, Abandon, RunInv, GenAt
<1>0. CmdGood'
  BY RuntimeAside DEF ClientStep, Count, Send, Cancel, Abandon, hostVars, CmdGood, HostShape
<1> USE DEF SchedGood
<1>t. job \in [Jobs -> JobState] /\ job[j] \in JobState
  BY DEF SchedTypeOK
<1>1. CASE Count(j)
  <2>1. SchedTypeOK'
    <3>1. job' \in [Jobs -> JobState]
      BY <1>1, <1>t DEF Count, JobState, SchedTypeOK
    <3> QED BY <1>1, <3>1 DEF Count, SchedTypeOK
  <2>2. WorkerInv'
    BY <1>1, <1>t DEF Count, WorkerInv, SchedTypeOK, JobState
  <2>3. PrefillInv'
    BY <1>1 DEF Count, PrefillInv
  <2>4. DepthCounts'
    <3>1. Outstanding' = Outstanding \cup {j} /\ j \notin Outstanding
      BY <1>1, <1>t DEF Count, Outstanding, JobState
    <3>2. Cardinality(Outstanding \cup {j}) = Cardinality(Outstanding) + 1
      BY <3>1, OutstandingFinite, FS_AddElement
    <3> QED BY <1>1, <3>1, <3>2 DEF Count, DepthCounts
  <2> QED BY <1>0, <1>r, <2>1, <2>2, <2>3, <2>4
<1>2. CASE Send(j)
  <2>1. SchedTypeOK'
    <3>1. job' \in [Jobs -> JobState]
      BY <1>2, <1>t DEF Send, JobState
    <3> QED BY <1>2, <3>1 DEF Send, SchedTypeOK
  <2>2. WorkerInv'
    <3>1. queue' = Append(queue, j) /\ queue \in Seq(Jobs)
      BY <1>2 DEF Send, SchedTypeOK
    <3>2. /\ Len(queue') = Len(queue) + 1
          /\ queue'[Len(queue')] = j
          /\ \A i \in 1..Len(queue) : queue'[i] = queue[i] /\ queue[i] # j /\ queue[i] \in Jobs
      BY <3>1, <1>2 DEF Send, WorkerInv
    <3>3. \A i \in 1..Len(queue') : i \in 1..Len(queue) \/ i = Len(queue')
      BY <3>1, <3>2
    <3>4. /\ job'[j].pc = "queued"
          /\ \A i \in Jobs \ {j} : job'[i] = job[i]
          /\ job[j].pc = "counted"
          /\ cur' = cur /\ wpc' = wpc /\ cur \in Jobs \cup {NoJob}
      BY <1>2, <1>t DEF Send, JobState, SchedTypeOK
    <3>5. \A i \in 1..Len(queue') : job'[queue'[i]].pc = "queued"
      BY <3>2, <3>3, <3>4 DEF WorkerInv
    <3>6. \A i, h \in 1..Len(queue') : queue'[i] = queue'[h] => i = h
      BY <3>2, <3>3 DEF WorkerInv
    <3> QED BY <3>4, <3>5, <3>6 DEF WorkerInv
  <2>3. PrefillInv'
    BY <1>2 DEF Send, PrefillInv
  <2>4. DepthCounts'
    <3>1. Outstanding' = Outstanding
      BY <1>2, <1>t DEF Send, Outstanding, JobState
    <3> QED BY <1>2, <3>1 DEF Send, DepthCounts
  <2> QED BY <1>0, <1>r, <2>1, <2>2, <2>3, <2>4
<1>3. CASE Cancel(j) \/ Abandon(j)
  <2>1. SchedTypeOK'
    <3>1. job' \in [Jobs -> JobState]
      <4>1. CASE Cancel(j)
        BY <4>1, <1>t DEF Cancel, JobState
      <4>2. CASE Abandon(j)
        BY <4>2, <1>t DEF Abandon, JobState
      <4> QED BY <1>3, <4>1, <4>2
    <3> QED BY <1>3, <3>1 DEF Cancel, Abandon, SchedTypeOK
  <2>2. PrefillInv'
    BY <1>3 DEF Cancel, Abandon, PrefillInv
  <2>3. \A i \in Jobs : job'[i].pc = job[i].pc
    BY <1>3, <1>t DEF Cancel, Abandon, JobState
  <2> QED BY <1>0, <1>r, <1>3, <2>1, <2>2, <2>3, JobsStay DEF Cancel, Abandon
<1> QED BY <1>1, <1>2, <1>3 DEF ClientStep

(* A watcher only writes the flag that all generations share.              *)
LEMMA WatchStepKeeps ==
  ASSUME CmdGood, SchedGood, NEW j \in Jobs, WatchStep(j)
  PROVE  CmdGood' /\ SchedGood'
<1>1. CmdGood'
  BY RuntimeAside DEF WatchStep, WatchTop, WatchCheck, hostVars, CmdGood, HostShape
<1>2. SchedTypeOK' /\ PrefillInv' /\ RunInv'
  BY DEF WatchStep, WatchTop, WatchCheck, SchedGood, SchedTypeOK, PrefillInv, RunInv, GenAt
<1>3. WorkerInv' /\ DepthCounts'
  BY JobsStay DEF WatchStep, WatchTop, WatchCheck
<1> QED BY <1>1, <1>2, <1>3 DEF SchedGood

(* The worker's steps between two jobs.                                    *)
LEMMA WorkerStepKeeps ==
  ASSUME CmdGood, SchedGood, WorkerStep
  PROVE  CmdGood' /\ SchedGood'
<1> USE DEF SchedGood
<1>t. /\ job \in [Jobs -> JobState] /\ out \in [Jobs -> OutState] /\ queue \in Seq(Jobs)
      /\ gen \in [Generators -> GenState] /\ Worker \in Generators
      /\ (wpc # "recv" => cur \in Jobs)
  BY DEF SchedTypeOK, WorkerInv, Generators
<1>s. ASSUME NEW j \in Jobs, NEW e \in Endings PROVE Sent(out, j, e) \in [Jobs -> OutState]
  <2>1. [out[j] EXCEPT !.final = e] \in OutState
    BY <1>t DEF OutState
  <2> QED BY <1>t, <2>1 DEF Sent
<1>c. ASSUME NEW o \in [Jobs -> OutState], NEW j \in Jobs
      PROVE  [o EXCEPT ![j].closed = TRUE] \in [Jobs -> OutState]
  BY DEF OutState
<1>1. CASE Receive
  <2> DEFINE h == Head(queue)
  <2>0. /\ h \in Jobs /\ h = queue[1] /\ Len(queue) \in Nat \ {0}
        /\ Tail(queue) \in Seq(Jobs) /\ Len(Tail(queue)) = Len(queue) - 1
        /\ \A i \in 1..Len(Tail(queue)) : Tail(queue)[i] = queue[i + 1]
        /\ job[h].pc = "queued"
    BY <1>1, <1>t DEF Receive, WorkerInv
  <2>a. /\ job' = [job EXCEPT ![h].pc = "running"] /\ queue' = Tail(queue) /\ cur' = h
        /\ wpc' = "check" /\ UNCHANGED <<hostVars, depth, out, watch, gen, stops, stopping>>
    BY <1>1 DEF Receive
  <2> HIDE DEF h
  <2>1. SchedTypeOK'
    <3>1. h \in Jobs /\ [job[h] EXCEPT !.pc = "running"] \in JobState
      BY <2>0, <1>t DEF JobState
    <3>2. job' \in [Jobs -> JobState]
      BY <2>a, <3>1, <1>t
    <3> QED BY <2>a, <2>0, <3>2 DEF SchedTypeOK
  <2>2. WorkerInv'
    <3>1. \A i \in 1..Len(queue') : /\ queue'[i] = queue[i + 1]
                                    /\ i + 1 \in 1..Len(queue) /\ i + 1 # 1
      BY <2>0, <2>a
    <3>2. \A i \in 1..Len(queue') : queue'[i] # h /\ queue'[i] \in Jobs
      BY <2>0, <3>1, <1>t DEF WorkerInv
    <3>3. \A i \in 1..Len(queue') : job'[queue'[i]].pc = "queued"
      BY <2>a, <3>1, <3>2 DEF WorkerInv
    <3>4. \A i, k \in 1..Len(queue') : queue'[i] = queue'[k] => i = k
      <4>1. TAKE i, k \in 1..Len(queue')
      <4>2. queue'[i] = queue'[k] => i + 1 = k + 1
        BY <3>1 DEF WorkerInv
      <4>3. i \in Int /\ k \in Int
        OBVIOUS
      <4> QED BY <4>2, <4>3
    <3>5. cur' # NoJob /\ wpc' # "recv" /\ job'[cur'].pc = "running"
      BY <2>a, <2>0, <1>t, ThreadAssumption DEF JobState
    <3> QED BY <3>3, <3>4, <3>5 DEF WorkerInv
  <2>3. Outstanding' = Outstanding
    BY <2>a, <2>0, <1>t DEF Outstanding, JobState
  <2>4. CmdGood'
    BY <2>a, RuntimeAside DEF hostVars, CmdGood, HostShape
  <2> QED BY <2>a, <2>1, <2>2, <2>3, <2>4, <1>1 DEF Receive, PrefillInv, DepthCounts, RunInv, GenAt
<1>2. CASE SkipCancelled \/ NotCancelled \/ RejectNoModel
  <2>1. CmdGood'
    BY <1>2, RuntimeAside
    DEF SkipCancelled, NotCancelled, RejectNoModel, hostVars, CmdGood, HostShape
  <2>2. out' \in [Jobs -> OutState]
    <3>1. CASE SkipCancelled
      BY <3>1, <1>t, <1>c DEF SkipCancelled
    <3>2. CASE NotCancelled
      BY <3>2, <1>t DEF NotCancelled
    <3>3. CASE RejectNoModel
      <4>1. Sent(out, cur, "no_model") \in [Jobs -> OutState] /\ cur \in Jobs
        BY <3>3, <1>t, <1>s DEF RejectNoModel, Endings
      <4> QED BY <3>3, <4>1, <1>c DEF RejectNoModel
    <3> QED BY <1>2, <3>1, <3>2, <3>3
  <2>3. SchedTypeOK' /\ PrefillInv'
    BY <1>2, <2>2 DEF SkipCancelled, NotCancelled, RejectNoModel, SchedTypeOK, PrefillInv
  <2> QED BY <1>2, <2>1, <2>3, JobsStay
          DEF SkipCancelled, NotCancelled, RejectNoModel, RunInv, GenAt
<1>3. CASE StartGenerating
  <2>0. /\ \E w \in {"top", "none"} : watch' = [watch EXCEPT ![cur] = w]
        /\ gen' = [gen EXCEPT ![Worker] = [pc |-> "wait", n |-> 0, end |-> "none"]]
        /\ UNCHANGED <<hostVars, depth, queue, job, out, cur, stops, stopping>>
        /\ wpc = "handle" /\ wpc' = "generate"
    BY <1>3 DEF StartGenerating
  <2>1. CmdGood'
    BY <2>0, <1>t, StillOutside DEF RunInv, GenAt, hostVars
  <2>2. watch' \in [Jobs -> {"none", "top", "check", "off"}]
    BY <2>0 DEF SchedTypeOK
  <2>3. SchedTypeOK' /\ PrefillInv'
    BY <2>0, <2>2, <1>t DEF SchedTypeOK, PrefillInv, GenState, GenPcs
  <2> QED BY <2>0, <2>1, <2>3, JobsStay DEF RunInv
<1>4. CASE SignalFinished
  <2>1. CmdGood'
    BY <1>4, RuntimeAside DEF SignalFinished, hostVars, CmdGood, HostShape
  <2>2. job' \in [Jobs -> JobState] /\ \A j \in Jobs : job'[j].pc = job[j].pc
    BY <1>4, <1>t DEF SignalFinished, JobState
  <2>3. SchedTypeOK' /\ PrefillInv'
    BY <1>4, <2>2 DEF SignalFinished, SchedTypeOK, PrefillInv
  <2> QED BY <1>4, <2>1, <2>2, <2>3, JobsStay DEF SignalFinished, RunInv, GenAt
<1>5. CASE JoinWatcher
  <2> DEFINE failed == gen[Worker].end \in {"error", "prefill_cancelled"}
             told == IF failed THEN Sent(out, cur, gen[Worker].end) ELSE out
  <2>0. /\ out' = [told EXCEPT ![cur].closed = TRUE]
        /\ gen' = [gen EXCEPT ![Worker].pc = "idle"]
        /\ watch' = [watch EXCEPT ![cur] = "none"]
        /\ UNCHANGED <<hostVars, depth, queue, job, cur, stops, stopping>>
        /\ wpc = "join" /\ wpc' = "decrement" /\ cur \in Jobs
    BY <1>5, <1>t DEF JoinWatcher
  <2>1. CmdGood'
    BY <2>0, <1>t, StillOutside DEF RunInv, GenAt, hostVars, GenState
  <2>2. told \in [Jobs -> OutState]
    BY <2>0, <1>t, <1>s DEF Endings
  <2> HIDE DEF told
  <2>3. out' \in [Jobs -> OutState]
    BY <2>0, <2>2, <1>c
  <2>4. gen' \in [Generators -> GenState] /\ gen'[Worker].pc = "idle"
    BY <2>0, <1>t DEF GenState, GenPcs
  <2>5. SchedTypeOK' /\ PrefillInv'
    BY <2>0, <2>3, <2>4, <1>t DEF SchedTypeOK, PrefillInv
  <2> QED BY <2>0, <2>1, <2>4, <2>5, JobsStay DEF RunInv, GenAt
<1>6. CASE Decrement
  <2>0. /\ job' = [job EXCEPT ![cur].pc = "done"] /\ depth' = depth - 1
        /\ UNCHANGED <<hostVars, queue, out, watch, gen, stops, stopping>>
        /\ wpc = "decrement" /\ wpc' = "recv" /\ cur' = NoJob
        /\ cur \in Jobs /\ job[cur].pc = "running" /\ cur # NoJob
    BY <1>6, <1>t, ThreadAssumption DEF Decrement, WorkerInv
  <2>1. CmdGood'
    BY <2>0, RuntimeAside DEF hostVars, CmdGood, HostShape
  <2>2. job' \in [Jobs -> JobState]
    BY <2>0, <1>t DEF JobState
  <2>3. depth' \in Nat /\ DepthCounts'
    <3>1. Outstanding' = Outstanding \ {cur} /\ cur \in Outstanding
      BY <2>0, <1>t DEF Outstanding, JobState
    <3>2. Cardinality(Outstanding \ {cur}) = Cardinality(Outstanding) - 1
          /\ Cardinality(Outstanding \ {cur}) \in Nat
      BY <3>1, OutstandingFinite, FS_RemoveElement, FS_CardinalityType
    <3> QED BY <2>0, <3>1, <3>2 DEF DepthCounts
  <2>4. SchedTypeOK' /\ PrefillInv'
    BY <2>0, <2>2, <2>3 DEF SchedTypeOK, PrefillInv
  <2>5. WorkerInv'
    <3>1. \A i \in 1..Len(queue) : queue[i] \in Jobs /\ queue[i] # cur
      BY <2>0, <1>t DEF WorkerInv
    <3> QED BY <2>0, <3>1, <1>t DEF WorkerInv, JobState
  <2> QED BY <2>0, <2>1, <2>3, <2>4, <2>5 DEF RunInv, GenAt
<1> QED BY <1>1, <1>2, <1>3, <1>4, <1>5, <1>6 DEF WorkerStep

(* The generations.                                                        *)

(* What a step of a generation may do to the jobs: it moves none of them.  *)
JobsKept ==
  /\ job' \in [Jobs -> JobState]
  /\ out' \in [Jobs -> OutState]
  /\ \A j \in Jobs : job'[j].pc = job[j].pc

(* Leaving the jobs and their streams alone keeps them in place.           *)
LEMMA SameJobs ==
  ASSUME SchedGood, UNCHANGED <<job, out>>
  PROVE  JobsKept
BY DEF SchedGood, SchedTypeOK, JobsKept

(* The worker has a job for as long as its generation runs.                *)
LEMMA WorkerHasJob ==
  ASSUME SchedGood, ~GenAt(Worker, "idle"), ~GenAt(Worker, "done")
  PROVE  wpc = "generate" /\ cur \in Jobs
BY DEF SchedGood, SchedTypeOK, RunInv, WorkerInv

(* The token callback may cancel its job and extend its stream; it moves   *)
(* no job.                                                                 *)
LEMMA DeliverKeepsJobs ==
  ASSUME SchedGood, NEW g \in Generators, Inside(g), NEW o,
         cur \in Jobs => o \in OutState, Deliver(g, o)
  PROVE  JobsKept
<1>1. CASE g \in Chats
  BY <1>1, SameJobs DEF Deliver
<1>2. CASE g = Worker
  <2>1. cur \in Jobs /\ o \in OutState
    BY <1>2, WorkerHasJob DEF Inside, GenAt
  <2>2. job \in [Jobs -> JobState] /\ out \in [Jobs -> OutState]
    BY DEF SchedGood, SchedTypeOK
  <2>3. \/ UNCHANGED <<job, out>>
        \/ job' = [job EXCEPT ![cur].cancel = TRUE] /\ out' = out
        \/ out' = [out EXCEPT ![cur] = o] /\ job' = job
    BY DEF Deliver
  <2>4. CASE job' = [job EXCEPT ![cur].cancel = TRUE] /\ out' = out
    BY <2>1, <2>2, <2>4 DEF JobsKept, JobState
  <2> QED BY <2>1, <2>2, <2>3, <2>4, SameJobs DEF JobsKept
<1> QED BY <1>1, <1>2 DEF Generators

(* A generation that leaves the mutex.                                     *)
LEMMA LeaveStep ==
  ASSUME CmdGood, SchedGood, NEW g \in Generators, Inside(g),
         NEW ending \in Endings, NEW flag \in BOOLEAN, Leave(g, ending, flag),
         UNCHANGED unchangedByGen, JobsKept
  PROVE  CmdGood' /\ SchedGood'
<1>0. /\ gen \in [Generators -> GenState]
      /\ gen' = [gen EXCEPT ![g].pc = "done", ![g].end = ending]
      /\ holder = g /\ holder' = Free /\ generating' = flag
      /\ UNCHANGED <<runtime, mirror, package, saved, cmd, issued,
                     depth, queue, watch, wpc, cur, stops, stopping>>
  BY DEF Leave, unchangedByGen, SchedGood, SchedTypeOK, CmdGood, MutexInv
<1>1. gen' \in [Generators -> GenState] /\ gen'[g].pc = "done"
      /\ \A h \in Generators \ {g} : gen'[h] = gen[h]
  BY <1>0 DEF GenState, GenPcs
<1>2. CmdGood'
  <2>1. HostShape' /\ Targeted'
    BY <1>0 DEF CmdGood, HostShape, Targeted
  <2>2. MutexInv'
    BY <1>0, <1>1, ThreadAssumption, FreeAssumption DEF CmdGood, MutexInv, Inside
  <2>3. LoadedInv'
    BY <1>0, <1>1 DEF CmdGood, LoadedInv
  <2> QED BY <1>0, <2>1, <2>2, <2>3 DEF CmdGood
<1>3. RunInv'
  <2>1. CASE g = Worker
    BY <2>1, <1>0, WorkerHasJob DEF RunInv, GenAt, Inside
  <2>2. CASE g # Worker
    BY <2>2, <1>0, <1>1 DEF SchedGood, RunInv, GenAt, Generators
  <2> QED BY <2>1, <2>2
<1>4. PrefillInv' /\ SchedTypeOK'
  BY <1>0, <1>1 DEF SchedGood, PrefillInv, SchedTypeOK, JobsKept
<1> QED BY <1>0, <1>2, <1>3, <1>4, JobsStay DEF SchedGood, JobsKept

(* A generation that goes on inside the mutex, on a loaded model.          *)
LEMMA ContinueStep ==
  ASSUME CmdGood, SchedGood, NEW g \in Generators, Inside(g), runtime # NoModel,
         NEW r \in GenState, gen' = [gen EXCEPT ![g] = r],
         r.pc \in {"render", "prefill", "decode"}, r.pc = "prefill" => r.n # 0,
         holder' = holder, generating' \in BOOLEAN, UNCHANGED unchangedByGen, JobsKept
  PROVE  CmdGood' /\ SchedGood'
<1>0. /\ gen \in [Generators -> GenState]
      /\ UNCHANGED <<runtime, mirror, package, saved, cmd, issued,
                     depth, queue, watch, wpc, cur, stops, stopping>>
  BY DEF unchangedByGen, SchedGood, SchedTypeOK
<1>1. gen' \in [Generators -> GenState] /\ gen'[g] = r
      /\ \A h \in Generators \ {g} : gen'[h] = gen[h]
  BY <1>0
<1>2. CmdGood'
  <2>1. HostShape' /\ Targeted'
    BY <1>0 DEF CmdGood, HostShape, Targeted
  <2>2. MutexInv'
    BY <1>0, <1>1 DEF CmdGood, MutexInv, Inside
  <2>3. LoadedInv'
    BY <1>0, <1>1 DEF CmdGood, LoadedInv
  <2> QED BY <1>0, <2>1, <2>2, <2>3 DEF CmdGood
<1>3. RunInv'
  <2>1. CASE g = Worker
    BY <2>1, <1>0, WorkerHasJob DEF RunInv, GenAt, Inside
  <2>2. CASE g # Worker
    BY <2>2, <1>0, <1>1 DEF SchedGood, RunInv, GenAt, Generators
  <2> QED BY <2>1, <2>2
<1>4. PrefillInv' /\ SchedTypeOK'
  BY <1>0, <1>1 DEF SchedGood, PrefillInv, SchedTypeOK, JobsKept
<1> QED BY <1>0, <1>2, <1>3, <1>4, JobsStay DEF SchedGood, JobsKept

(* Every step of a generation, whether the worker or a desktop chat runs   *)
(* it.                                                                     *)
LEMMA GenStepKeeps ==
  ASSUME CmdGood, SchedGood, NEW g \in Generators, GenStep(g)
  PROVE  CmdGood' /\ SchedGood'
<1>t. gen \in [Generators -> GenState] /\ gen[g] \in GenState /\ generating \in BOOLEAN
  BY DEF SchedGood, SchedTypeOK, CmdGood, HostShape
<1>f. TRUE \in BOOLEAN /\ FALSE \in BOOLEAN /\ "error" \in Endings
      /\ "prefill_cancelled" \in Endings
  BY DEF Endings
<1>l. gen[g].pc \in {"render", "prefill", "decode"} => runtime # NoModel
  BY DEF CmdGood, LoadedInv
<1>1. CASE TakeRuntime(g)
  <2>0. /\ gen[g].pc = "wait" /\ holder = Free /\ holder' = g
        /\ gen' = [gen EXCEPT ![g].pc = "start"]
        /\ UNCHANGED <<runtime, generating, mirror, package, saved, cmd, issued,
                       depth, queue, job, out, watch, wpc, cur, stops, stopping>>
    BY <1>1 DEF TakeRuntime, GenAt
  <2>1. gen' \in [Generators -> GenState] /\ gen'[g].pc = "start"
        /\ \A h \in Generators \ {g} : gen'[h] = gen[h]
    BY <2>0, <1>t DEF GenState, GenPcs
  <2>2. HostShape' /\ Targeted'
    BY <2>0 DEF CmdGood, HostShape, Targeted
  <2>3. MutexInv'
    BY <2>0, <2>1, ThreadAssumption, FreeAssumption DEF CmdGood, MutexInv, Inside
  <2>4. LoadedInv'
    BY <2>0, <2>1 DEF CmdGood, LoadedInv
  <2>5. RunInv'
    BY <2>0, <2>1, WorkerHasJob DEF SchedGood, RunInv, GenAt
  <2>6. SchedTypeOK' /\ PrefillInv'
    BY <2>0, <2>1 DEF SchedGood, SchedTypeOK, PrefillInv
  <2> QED BY <2>0, <2>2, <2>3, <2>4, <2>5, <2>6, JobsStay DEF CmdGood, SchedGood
<1>2. CASE RaiseFlag(g)
  <2>0. Inside(g) /\ JobsKept /\ UNCHANGED unchangedByGen
    BY <1>2, SameJobs DEF RaiseFlag, GenAt, Inside
  <2>1. CASE Leave(g, "error", generating)
    BY <2>0, <2>1, <1>t, <1>f, LeaveStep
  <2>2. CASE runtime # NoModel /\ generating' = TRUE /\ holder' = holder
             /\ gen' = [gen EXCEPT ![g].pc = "render"]
    <3> DEFINE r == [gen[g] EXCEPT !.pc = "render"]
    <3>1. r \in GenState /\ r.pc = "render" /\ gen' = [gen EXCEPT ![g] = r]
      BY <2>2, <1>t DEF GenState, GenPcs
    <3> HIDE DEF r
    <3> QED BY <2>0, <2>2, <3>1, <1>f, ContinueStep
  <2> QED BY <1>2, <2>1, <2>2 DEF RaiseFlag
<1>3. CASE Render(g)
  <2>0. Inside(g) /\ JobsKept /\ UNCHANGED unchangedByGen /\ runtime # NoModel
    BY <1>3, <1>l, SameJobs DEF Render, GenAt, Inside
  <2>1. ASSUME NEW n \in 1..MaxPrefill, UNCHANGED <<holder, generating>>,
               gen' = [gen EXCEPT ![g] = [pc |-> "prefill", n |-> n, end |-> "none"]]
        PROVE  CmdGood' /\ SchedGood'
    <3> DEFINE r == [pc |-> "prefill", n |-> n, end |-> "none"]
    <3>1. r \in GenState /\ r.pc = "prefill" /\ r.n # 0
      BY <1>t, LengthAssumption DEF GenState, GenPcs
    <3>2. gen' = [gen EXCEPT ![g] = r]
      BY <2>1, <1>t
    <3> HIDE DEF r
    <3> QED BY <2>0, <2>1, <3>1, <3>2, <1>t, ContinueStep
  <2>2. CASE Leave(g, "error", FALSE)
    BY <2>0, <2>2, <1>f, LeaveStep
  <2>3. CASE Leave(g, "error", generating)
    BY <2>0, <2>3, <1>t, <1>f, LeaveStep
  <2> QED BY <1>3, <2>1, <2>2, <2>3 DEF Render
<1>4. CASE Prefill(g)
  <2>0. Inside(g) /\ JobsKept /\ UNCHANGED unchangedByGen /\ runtime # NoModel
        /\ gen[g].n # 0
    BY <1>4, <1>l, SameJobs DEF Prefill, GenAt, Inside, SchedGood, PrefillInv
  <2>1. CASE Leave(g, "prefill_cancelled", FALSE)
    BY <2>0, <2>1, <1>f, LeaveStep
  <2>2. CASE Leave(g, "error", FALSE)
    BY <2>0, <2>2, <1>f, LeaveStep
  <2>3. CASE /\ gen' = [gen EXCEPT ![g] = [pc |-> IF gen[g].n = 1 THEN "decode" ELSE "prefill",
                                      n |-> gen[g].n - 1, end |-> "none"]]
             /\ UNCHANGED <<holder, generating>>
    <3> DEFINE r == [pc |-> IF gen[g].n = 1 THEN "decode" ELSE "prefill",
                          n |-> gen[g].n - 1, end |-> "none"]
    <3>1. r \in GenState /\ r.pc \in {"prefill", "decode"} /\ (r.pc = "prefill" => r.n # 0)
      BY <2>0, <1>t DEF GenState, GenPcs
    <3>2. gen' = [gen EXCEPT ![g] = r]
      BY <2>3, <1>t
    <3> HIDE DEF r
    <3> QED BY <2>0, <2>3, <3>1, <3>2, <1>t, ContinueStep
  <2> QED BY <1>4, <2>1, <2>2, <2>3 DEF Prefill
<1>5. CASE Decode(g)
  <2>0. Inside(g) /\ UNCHANGED unchangedByGen /\ runtime # NoModel
    BY <1>5, <1>l DEF Decode, GenAt, Inside
  <2>o. \A j \in Jobs : out[j] \in OutState
    BY DEF SchedGood, SchedTypeOK
  <2>1. ASSUME NEW ending \in Endings, FinalChunk(g, ending) PROVE CmdGood' /\ SchedGood'
    <3> DEFINE o == [out[cur] EXCEPT !.final = ending]
    <3>1. cur \in Jobs => o \in OutState
      BY <2>o DEF OutState
    <3>2. Deliver(g, o) /\ Leave(g, ending, FALSE)
      BY <2>1 DEF FinalChunk
    <3> HIDE DEF o
    <3>3. JobsKept
      BY <2>0, <3>1, <3>2, DeliverKeepsJobs
    <3> QED BY <2>0, <3>2, <3>3, <1>f, LeaveStep
  <2>2. ASSUME NEW emitted \in BOOLEAN,
               IF emitted THEN Deliver(g, [out[cur] EXCEPT !.tokens = @ + 1])
                 ELSE UNCHANGED <<job, out>>,
               \/ Leave(g, "error", FALSE)
               \/ /\ gen' = [gen EXCEPT ![g].n = @ + 1]
                  /\ generating' = (generating /\ ~(emitted /\ CallbackStops(g)))
                  /\ holder' = holder
        PROVE  CmdGood' /\ SchedGood'
    <3> DEFINE o == [out[cur] EXCEPT !.tokens = @ + 1]
               r == [gen[g] EXCEPT !.n = @ + 1]
    <3>1. cur \in Jobs => o \in OutState
      BY <2>o DEF OutState
    <3>2. r \in GenState /\ r.pc = gen[g].pc /\ gen[g].pc = "decode"
      BY <1>5, <1>t DEF Decode, GenAt, GenState
    <3>3. JobsKept
      BY <2>0, <2>2, <3>1, DeliverKeepsJobs, SameJobs
    <3>4. CASE Leave(g, "error", FALSE)
      BY <2>0, <3>3, <3>4, <1>f, LeaveStep
    <3>5. CASE gen' = [gen EXCEPT ![g].n = @ + 1] /\ generating' \in BOOLEAN /\ holder' = holder
      <4>1. gen' = [gen EXCEPT ![g] = r]
        BY <3>5, <1>t
      <4> HIDE DEF r
      <4> QED BY <2>0, <3>2, <3>3, <3>5, <4>1, ContinueStep
    <3> QED BY <2>2, <3>4, <3>5
  <2> QED BY <1>5, <2>1, <2>2 DEF Decode, Endings
<1> QED BY <1>1, <1>2, <1>3, <1>4, <1>5 DEF GenStep

(* A desktop chat that starts, and the Stop button.                        *)
LEMMA DesktopKeeps ==
  ASSUME CmdGood, SchedGood, (\E c \in Chats : ChatBegin(c)) \/ Stop \/ StopBehindMutex
  PROVE  CmdGood' /\ SchedGood'
<1>1. ASSUME NEW c \in Chats, ChatBegin(c) PROVE CmdGood' /\ SchedGood'
  <2>0. /\ c \in Generators /\ c # Worker /\ gen \in [Generators -> GenState]
        /\ gen[c].pc = "idle" /\ gen' = [gen EXCEPT ![c].pc = "wait"]
        /\ UNCHANGED <<hostVars, depth, queue, job, out, watch, wpc, cur, stops, stopping>>
    BY <1>1, ThreadAssumption DEF ChatBegin, GenAt, Generators, SchedGood, SchedTypeOK
  <2>1. gen' \in [Generators -> GenState] /\ gen'[c].pc = "wait" /\ gen'[Worker] = gen[Worker]
        /\ gen' = [gen EXCEPT ![c] = gen'[c]]
        /\ \A g \in Generators \ {c} : gen'[g] = gen[g]
    BY <2>0 DEF GenState, GenPcs, Generators
  <2>2. CmdGood'
    BY <2>0, <2>1, StillOutside
  <2>3. SchedTypeOK' /\ PrefillInv' /\ RunInv'
    BY <2>0, <2>1 DEF SchedGood, SchedTypeOK, PrefillInv, RunInv, GenAt
  <2> QED BY <2>0, <2>2, <2>3, JobsStay DEF SchedGood
<1>2. CASE Stop \/ StopBehindMutex
  <2>1. CmdGood'
    BY <1>2, RuntimeAside DEF Stop, StopBehindMutex, CmdGood, HostShape
  <2>2. SchedTypeOK' /\ PrefillInv' /\ RunInv'
    <3>1. stopping' \in BOOLEAN
      BY <1>2, Zenon DEF Stop, StopBehindMutex
    <3>2. stops' \in Nat
      <4>1. stops' = stops + 1 \/ stops' = stops
        BY <1>2, Zenon DEF Stop, StopBehindMutex
      <4> QED BY <4>1 DEF SchedGood, SchedTypeOK
    <3>3. UNCHANGED <<depth, queue, job, out, watch, wpc, cur, gen>>
      BY <1>2 DEF Stop, StopBehindMutex
    <3> QED BY <3>1, <3>2, <3>3 DEF SchedGood, SchedTypeOK, PrefillInv, RunInv, GenAt
  <2> QED BY <1>2, <2>1, <2>2, JobsStay DEF Stop, StopBehindMutex, SchedGood
<1> QED BY <1>1, <1>2

-----------------------------------------------------------------------------
(* The invariant and the theorems.                                         *)

(* The invariant holds when the application starts.                        *)
LEMMA InitInv == Init => IInv
<1> SUFFICES ASSUME Init PROVE IInv
  OBVIOUS
<1> USE DEF Init, HostInit, SchedInit
<1>1. CmdGood
  <2>1. HostShape
    BY BlankType DEF HostShape, MaybeLoaded, MaybeModel
  <2>2. Targeted
    BY DEF Targeted, Blank
  <2>3. MutexInv /\ LoadedInv
    BY ThreadAssumption, FreeAssumption DEF MutexInv, LoadedInv, Inside, Blank
  <2> QED BY <2>1, <2>2, <2>3 DEF CmdGood
<1>2. SchedTypeOK
  <2>1. job \in [Jobs -> JobState]
    BY DEF JobState
  <2>2. out \in [Jobs -> OutState]
    BY DEF OutState
  <2>3. gen \in [Generators -> GenState]
    BY DEF GenState, GenPcs
  <2>4. depth \in Nat /\ stops \in Nat /\ queue \in Seq(Jobs)
    OBVIOUS
  <2>5. watch \in [Jobs -> {"none", "top", "check", "off"}] /\ stopping \in BOOLEAN
    OBVIOUS
  <2>6. wpc = "recv" /\ cur = NoJob
    OBVIOUS
  <2> QED BY <2>1, <2>2, <2>3, <2>4, <2>5, <2>6, Zenon DEF SchedTypeOK
<1>3. PrefillInv /\ WorkerInv /\ RunInv
  BY DEF PrefillInv, WorkerInv, RunInv, GenAt, Generators
<1>4. DepthCounts
  <2>1. Outstanding = {}
    BY DEF Outstanding
  <2> QED BY <2>1, FS_EmptySet DEF DepthCounts
<1> QED BY <1>1, <1>2, <1>3, <1>4, Split DEF SchedGood

(* Commands do not touch the scheduler.                                    *)
LEMMA SchedStill ==
  ASSUME SchedGood, UNCHANGED schedVars
  PROVE  SchedGood'
<1>0. UNCHANGED <<depth, queue, job, out, watch, wpc, cur, gen, stops, stopping>>
  BY DEF schedVars
<1>1. SchedTypeOK' /\ PrefillInv' /\ RunInv'
  BY <1>0 DEF SchedGood, SchedTypeOK, PrefillInv, RunInv, GenAt
<1> QED BY <1>0, <1>1, JobsStay DEF SchedGood

(* Every step of every thread preserves the invariant.                     *)
LEMMA NextInv == IInv /\ [Next]_vars => IInv'
<1> SUFFICES ASSUME CmdGood, SchedGood, [Next]_vars PROVE CmdGood' /\ SchedGood'
  BY Split DEF IInv, CmdGood, SchedGood, TypeOK
<1>1. CASE CmdStep
  <2>1. PICK k \in Cmds : Begin(k) \/ Proceed(k)
    BY <1>1 DEF CmdStep, HostNext
  <2>2. CmdGood'
    BY <1>1, <2>1, BeginStep, ProceedStep DEF CmdStep
  <2>3. SchedGood'
    BY <1>1, SchedStill DEF CmdStep
  <2> QED BY <2>2, <2>3
<1>2. CASE \E j \in Jobs : ClientStep(j) \/ WatchStep(j)
  BY <1>2, ClientStepKeeps, WatchStepKeeps
<1>3. CASE WorkerStep
  BY <1>3, WorkerStepKeeps
<1>4. CASE (\E c \in Chats : ChatBegin(c)) \/ Stop \/ StopBehindMutex
  BY <1>4, DesktopKeeps
<1>5. CASE \E g \in Generators : GenStep(g)
  BY <1>5, GenStepKeeps
<1>6. CASE UNCHANGED vars
  <2>1. UNCHANGED hostVars /\ UNCHANGED schedVars
    BY <1>6 DEF vars
  <2>2. CmdGood'
    BY <2>1, RuntimeAside DEF hostVars, schedVars, CmdGood, HostShape
  <2> QED BY <2>1, <2>2, SchedStill
<1> QED BY <1>1, <1>2, <1>3, <1>4, <1>5, <1>6 DEF Next

(* The inductive invariant holds in every reachable state.                 *)
THEOREM Invariance == Spec => []IInv
BY InitInv, NextInv, PTL DEF Spec

(* Every variable of the scheduler and of the model host keeps its type in *)
(* every reachable state, for any set of jobs, chats and commands.         *)
THEOREM TypeCorrect == Spec => []TypeOK
<1>1. IInv => TypeOK
  BY DEF IInv
<1> QED BY <1>1, Invariance, PTL

(* queue_depth always counts the submitted and unfinished jobs.            *)
THEOREM DepthCorrect == Spec => []DepthCounts
<1>1. IInv => DepthCounts
  BY DEF IInv
<1> QED BY <1>1, Invariance, PTL

(* Nobody replaces, frees or shares the model beneath a generation, though *)
(* desktop chats and commands bypass the scheduler's queue.                *)
THEOREM ModelIsHeld == Spec => []ModelHeld
<1>1. IInv => ModelHeld
  <2> SUFFICES ASSUME MutexInv, LoadedInv, NEW g \in Generators, Inside(g)
               PROVE  /\ \A h \in Generators : Inside(h) => h = g
                      /\ \A k \in Cmds : ~At(k, "loading") /\ ~At(k, "unloading")
                      /\ ~GenAt(g, "start") => runtime # NoModel
    BY DEF IInv, ModelHeld
  <2>1. holder = g
    BY DEF MutexInv
  <2>2. \A h \in Generators : Inside(h) => h = g
    BY <2>1 DEF MutexInv
  <2>3. \A k \in Cmds : ~At(k, "loading") /\ ~At(k, "unloading")
    BY <2>1, ThreadAssumption DEF MutexInv, At
  <2>4. ~GenAt(g, "start") => runtime # NoModel
    BY DEF LoadedInv, Inside, GenAt
  <2> QED BY <2>2, <2>3, <2>4
<1> QED BY <1>1, Invariance, PTL

-----------------------------------------------------------------------------
(* The streams and the shared flag: the invariant behind the refinement of *)
(* GenerationService and behind CancelStaysLocal.                          *)

Failures == {"error", "prefill_cancelled"}
Stopped == {"cancelled", "prefill_cancelled"}

Fresh(o) == o.final = "none" /\ ~o.closed
Withdrawn(j) == job[j].cancel \/ ~job[j].reader
Finished == GenAt(Worker, "done") /\ gen[Worker].end \notin Failures

(* A stream is untouched until its job is served, open while it is, and    *)
(* has its final chunk exactly when the generation got to send one.        *)
StreamInv ==
  /\ \A j \in Jobs : job[j].pc \in {"new", "counted", "queued"} => Fresh(out[j])
  /\ wpc \in {"check", "handle"} => Fresh(out[cur])
  /\ wpc \in {"generate", "join"} =>
       /\ ~out[cur].closed
       /\ Finished => out[cur].final # "none" \/ Withdrawn(cur)
       /\ ~Finished => out[cur].final = "none"
  /\ wpc = "decrement" => out[cur].closed

(* Nothing clears the flag of the worker's generation but a watcher of its *)
(* own job, its callback, or Stop.                                         *)
Wanted(j) == job[j].cancel \/ stops > 0
CancelInv ==
  /\ \A j \in Jobs : watch[j] \in {"top", "check"} => j = cur /\ wpc \in {"generate", "join"}
  /\ stopping => stops > 0
  /\ gen[Worker].pc \in {"render", "prefill", "decode"} /\ ~generating => Wanted(cur)
  /\ wpc \in {"generate", "join"} /\ gen[Worker].end \in Stopped => Wanted(cur)
  /\ CancelStaysLocal

(* What one step owes to both theorems.                                    *)
ServiceStep == [Service!SNext]_(Service!svars)
Good == IInv /\ StreamInv /\ CancelInv
GoodStep == StreamInv' /\ CancelInv' /\ ServiceStep

(* The types, read off the first invariant.                                *)
LEMMA GoodTypes ==
  ASSUME Good
  PROVE  /\ job \in [Jobs -> JobState] /\ out \in [Jobs -> OutState]
         /\ gen \in [Generators -> GenState] /\ gen[Worker] \in GenState
         /\ watch \in [Jobs -> {"none", "top", "check", "off"}]
         /\ queue \in Seq(Jobs) /\ stops \in Nat /\ generating \in BOOLEAN
         /\ Worker \in Generators /\ NoJob \notin Jobs
         /\ wpc = "recv" => cur = NoJob
         /\ wpc # "recv" => cur \in Jobs /\ cur # NoJob /\ job[cur].pc = "running"
         /\ wpc = "join" => GenAt(Worker, "done")
BY ThreadAssumption DEF Good, IInv, TypeOK, HostShape, SchedTypeOK, WorkerInv, RunInv, Generators, GenAt

(* A step the service does not see.                                        *)
LEMMA Unseen ==
  ASSUME UNCHANGED <<queue, cur, out>>,
         \A j \in Jobs : /\ job'[j].pc \in {"new", "counted"} <=> job[j].pc \in {"new", "counted"}
                         /\ Withdrawn(j)' <=> Withdrawn(j)
  PROVE  ServiceStep
<1>1. {j \in Jobs : job[j].pc \notin {"new", "counted"}}'
        = {j \in Jobs : job[j].pc \notin {"new", "counted"}}
  OBVIOUS
<1>2. {j \in Jobs : job[j].cancel \/ ~job[j].reader}'
        = {j \in Jobs : job[j].cancel \/ ~job[j].reader}
  BY DEF Withdrawn
<1> QED BY <1>1, <1>2 DEF ServiceStep, Service!svars

(* A step of a thread that has nothing to do with jobs.                    *)
LEMMA JobsAside ==
  ASSUME Good, UNCHANGED <<queue, cur, out, job, wpc, watch>>, gen'[Worker] = gen[Worker],
         stops' \in Nat, stops' >= stops, stopping' => stops' > 0,
         gen[Worker].pc \in {"render", "prefill", "decode"} /\ generating
            => generating' \/ stops' > 0
  PROVE  GoodStep
<1>0. stops \in Nat
  BY GoodTypes
<1>1. StreamInv'
  BY DEF Good, StreamInv, Fresh, Finished, Withdrawn, GenAt
<1>2. CancelInv'
  BY <1>0 DEF Good, CancelInv, CancelStaysLocal, Wanted
<1>3. ServiceStep
  BY Unseen DEF Withdrawn
<1> QED BY <1>1, <1>2, <1>3 DEF GoodStep

(* Commands clear the flag only from inside the mutex, where no generation *)
(* is.                                                                     *)
LEMMA CmdStepGood ==
  ASSUME Good, CmdStep PROVE GoodStep
<1>0. UNCHANGED <<queue, cur, out, job, wpc, watch, gen, stops, stopping>>
  BY DEF CmdStep, schedVars
<1>1. PICK k \in Cmds : Begin(k) \/ Proceed(k)
  BY DEF CmdStep, HostNext
<1>2. generating' = generating \/ At(k, "loading") \/ At(k, "unloading")
  BY <1>1 DEF Begin, Load, Unload, Ensure, Grow, Issue, Proceed, CheckPackage, Prepare, Acquire,
     LoadRuntime, PublishFailure, PublishLoaded, RecordPackage, SaveSession, ForgetPackage,
     Unpublish, UnloadRuntime
<1>3. gen[Worker].pc \in {"render", "prefill", "decode"} => ~At(k, "loading") /\ ~At(k, "unloading")
  <2>1. Worker \in Generators /\ k \notin Generators
    BY ThreadAssumption DEF Generators
  <2> QED BY <2>1 DEF Good, IInv, MutexInv, Inside, At
<1> QED BY <1>0, <1>2, <1>3, GoodTypes, JobsAside DEF Good, CancelInv

(* A client's step moves the job towards the service, or withdraws it.     *)
LEMMA ClientStepGood ==
  ASSUME Good, NEW j \in Jobs, ClientStep(j) PROVE GoodStep
<1>t. /\ job \in [Jobs -> JobState] /\ out \in [Jobs -> OutState]
      /\ wpc # "recv" => cur \in Jobs /\ job[cur].pc = "running"
  BY GoodTypes
<1>0. UNCHANGED <<out, watch, wpc, cur, gen, stops, stopping, generating>>
  BY DEF ClientStep, Count, Send, Cancel, Abandon, hostVars
<1>j. \/ job[j].pc \in {"new", "counted"} /\ \E p \in {"counted", "queued"} : job' = [job EXCEPT ![j].pc = p]
      \/ job' = [job EXCEPT ![j].cancel = TRUE]
      \/ job' = [job EXCEPT ![j].reader = FALSE]
  BY DEF ClientStep, Count, Send, Cancel, Abandon
<1>1. /\ \A i \in Jobs : job[i].cancel => job'[i].cancel
      /\ \A i \in Jobs : Withdrawn(i) => Withdrawn(i)'
      /\ \A i \in Jobs : job'[i].pc \in {"new", "counted", "queued"}
                           => job[i].pc \in {"new", "counted", "queued"}
  BY <1>j, <1>t DEF Withdrawn, JobState
<1>2. StreamInv'
  BY <1>0, <1>1, <1>t DEF Good, StreamInv, Fresh, Finished, GenAt, Withdrawn
<1>3. CancelInv'
  <2>1. wpc \in {"generate", "join"} => cur \in Jobs
    BY <1>t
  <2>2. gen[Worker].pc \in {"render", "prefill", "decode"} => cur \in Jobs
    BY WorkerHasJob DEF Good, IInv, SchedGood, TypeOK, GenAt
  <2> QED BY <1>0, <1>1, <2>1, <2>2 DEF Good, CancelInv, CancelStaysLocal, Wanted
<1>4. ServiceStep
  <2>1. CASE Count(j)
    <3>1. \A i \in Jobs : /\ job'[i].pc \in {"new", "counted"} <=> job[i].pc \in {"new", "counted"}
                          /\ Withdrawn(i)' <=> Withdrawn(i)
      BY <2>1, <1>t DEF Count, JobState, Withdrawn
    <3> QED BY <2>1, <3>1, Unseen DEF Count
  <2>2. CASE Send(j)
    <3>1. {i \in Jobs : job[i].pc \notin {"new", "counted"}}'
            = {i \in Jobs : job[i].pc \notin {"new", "counted"}} \cup {j}
      BY <2>2, <1>t DEF Send, JobState
    <3>2. {i \in Jobs : job[i].cancel \/ ~job[i].reader}'
            = {i \in Jobs : job[i].cancel \/ ~job[i].reader}
      BY <2>2, <1>t DEF Send, JobState
    <3>3. Service!SSubmit(j)
      BY <2>2, <3>1, <3>2 DEF Send, Service!SSubmit
    <3> QED BY <3>3 DEF ServiceStep, Service!SNext
  <2>3. CASE Cancel(j) \/ Abandon(j)
    <3>1. {i \in Jobs : job[i].pc \notin {"new", "counted"}}'
            = {i \in Jobs : job[i].pc \notin {"new", "counted"}}
      BY <2>3, <1>t DEF Cancel, Abandon, JobState
    <3>2. {i \in Jobs : job[i].cancel \/ ~job[i].reader}'
            = {i \in Jobs : job[i].cancel \/ ~job[i].reader} \cup {j}
      BY <2>3, <1>t DEF Cancel, Abandon, JobState
    <3>3. UNCHANGED <<queue, cur, out>> /\ job[j].pc \notin {"new", "counted"}
      BY <2>3 DEF Cancel, Abandon
    <3>4. CASE j \in {i \in Jobs : job[i].cancel \/ ~job[i].reader}
      BY <3>1, <3>2, <3>3, <3>4 DEF ServiceStep, Service!svars
    <3>5. CASE j \notin {i \in Jobs : job[i].cancel \/ ~job[i].reader}
      <4>1. Service!SWithdraw(j)
        BY <3>1, <3>2, <3>3, <3>5 DEF Service!SWithdraw
      <4> QED BY <4>1 DEF ServiceStep, Service!SNext
    <3> QED BY <3>4, <3>5
  <2> QED BY <2>1, <2>2, <2>3 DEF ClientStep
<1> QED BY <1>2, <1>3, <1>4 DEF GoodStep

(* A watcher clears the flag of its own job, when that job is cancelled.   *)
LEMMA WatchStepGood ==
  ASSUME Good, NEW j \in Jobs, WatchStep(j) PROVE GoodStep
<1>t. watch \in [Jobs -> {"none", "top", "check", "off"}]
  BY GoodTypes
<1>0. UNCHANGED <<queue, job, out, wpc, cur, gen, stops, stopping>>
  BY DEF WatchStep, WatchTop, WatchCheck
<1>1. watch[j] \in {"top", "check"} /\ \A i \in Jobs \ {j} : watch'[i] = watch[i]
  BY <1>t DEF WatchStep, WatchTop, WatchCheck
<1>2. j = cur /\ wpc \in {"generate", "join"}
  BY <1>1 DEF Good, CancelInv
<1>3. generating' = generating \/ job[cur].cancel
  BY <1>2 DEF WatchStep, WatchTop, WatchCheck, hostVars
<1>4. StreamInv'
  BY <1>0 DEF Good, StreamInv, Fresh, Finished, Withdrawn, GenAt
<1>5. CancelInv'
  BY <1>0, <1>1, <1>2, <1>3, Zenon DEF Good, CancelInv, CancelStaysLocal, Wanted
<1>6. ServiceStep
  BY <1>0, Unseen DEF Withdrawn
<1> QED BY <1>4, <1>5, <1>6 DEF GoodStep

(* Closing the stream of the job being served, with the ending its reader  *)
(* may still receive, is an end or a close of the service.                 *)
LEMMA ClosesAs ==
  ASSUME Good, cur \in Jobs, Fresh(out[cur]), NEW e \in Endings,
         out' = [Sent(out, cur, e) EXCEPT ![cur].closed = TRUE],
         UNCHANGED <<queue, cur, job>>
  PROVE  ServiceStep
<1>t. out \in [Jobs -> OutState] /\ cur # NoJob /\ "none" \notin Endings
  BY GoodTypes DEF Endings
<1>u. /\ {i \in Jobs : job[i].pc \notin {"new", "counted"}}'
           = {i \in Jobs : job[i].pc \notin {"new", "counted"}}
      /\ {i \in Jobs : job[i].cancel \/ ~job[i].reader}'
           = {i \in Jobs : job[i].cancel \/ ~job[i].reader}
  OBVIOUS
<1>1. CASE job[cur].reader
  <2>1. out' = [out EXCEPT ![cur].final = e, ![cur].closed = TRUE]
    BY <1>1, <1>t DEF Sent, OutState
  <2>2. Service!SEnd(e)
    BY <2>1, <1>t, <1>u DEF Service!SEnd, Fresh
  <2> QED BY <2>2 DEF ServiceStep, Service!SNext
<1>2. CASE ~job[cur].reader
  <2>1. out' = [out EXCEPT ![cur].closed = TRUE]
    BY <1>2 DEF Sent
  <2>2. Service!SClose
    BY <2>1, <1>2, <1>t, <1>u DEF Service!SClose, Fresh
  <2> QED BY <2>2 DEF ServiceStep, Service!SNext
<1> QED BY <1>1, <1>2

(* Closing it without one is a close, when the final chunk was sent or the *)
(* job withdrawn.                                                          *)
LEMMA ClosesBare ==
  ASSUME Good, cur \in Jobs, ~out[cur].closed, out[cur].final # "none" \/ Withdrawn(cur),
         out' = [out EXCEPT ![cur].closed = TRUE], UNCHANGED <<queue, cur, job>>
  PROVE  ServiceStep
<1>u. /\ {i \in Jobs : job[i].pc \notin {"new", "counted"}}'
           = {i \in Jobs : job[i].pc \notin {"new", "counted"}}
      /\ {i \in Jobs : job[i].cancel \/ ~job[i].reader}'
           = {i \in Jobs : job[i].cancel \/ ~job[i].reader}
  OBVIOUS
<1>1. Service!SClose
  BY <1>u, GoodTypes DEF Service!SClose, Withdrawn
<1> QED BY <1>1 DEF ServiceStep, Service!SNext

(* The worker serves, closes and releases as the service does.             *)
LEMMA WorkerStepGood ==
  ASSUME Good, WorkerStep PROVE GoodStep
<1>t. /\ job \in [Jobs -> JobState] /\ out \in [Jobs -> OutState]
      /\ gen \in [Generators -> GenState] /\ Worker \in Generators
      /\ watch \in [Jobs -> {"none", "top", "check", "off"}] /\ queue \in Seq(Jobs) /\ NoJob \notin Jobs
      /\ wpc = "recv" => cur = NoJob
      /\ wpc # "recv" => cur \in Jobs /\ cur # NoJob /\ job[cur].pc = "running"
      /\ wpc = "join" => GenAt(Worker, "done")
  BY GoodTypes
<1>w. wpc \in {"recv", "check", "handle", "decrement"}
        => /\ GenAt(Worker, "idle")
           /\ \A j \in Jobs : watch[j] \notin {"top", "check"}
  BY <1>t DEF Good, IInv, RunInv, CancelInv
<1>1. CASE Receive
  <2> DEFINE h == Head(queue)
  <2>0. /\ wpc = "recv" /\ queue # <<>> /\ cur' = h /\ queue' = Tail(queue) /\ wpc' = "check"
        /\ job' = [job EXCEPT ![h].pc = "running"]
        /\ UNCHANGED <<out, watch, gen, stops, stopping, generating>>
    BY <1>1 DEF Receive, hostVars
  <2>1. h \in Jobs /\ job[h].pc = "queued"
    <3>1. h = queue[1] /\ 1 \in 1..Len(queue) /\ h \in Jobs
      BY <2>0, <1>t
    <3> QED BY <3>1 DEF Good, IInv, WorkerInv
  <2> HIDE DEF h
  <2>2. /\ job'[h].pc = "running" /\ \A j \in Jobs \ {h} : job'[j] = job[j]
        /\ \A j \in Jobs : job'[j].cancel = job[j].cancel /\ job'[j].reader = job[j].reader
    BY <2>0, <2>1, <1>t DEF JobState
  <2>3. StreamInv'
    BY <2>0, <2>1, <2>2 DEF Good, StreamInv, Fresh
  <2>4. CancelInv'
    BY <2>0, <2>2, <1>w DEF Good, CancelInv, CancelStaysLocal, Wanted, GenAt
  <2>5. Service!SServe
    <3>1. {i \in Jobs : job[i].pc \notin {"new", "counted"}}'
            = {i \in Jobs : job[i].pc \notin {"new", "counted"}}
      BY <2>1, <2>2
    <3>2. {i \in Jobs : job[i].cancel \/ ~job[i].reader}'
            = {i \in Jobs : job[i].cancel \/ ~job[i].reader}
      BY <2>2
    <3> QED BY <2>0, <3>1, <3>2, <1>t DEF Service!SServe, h
  <2> QED BY <2>3, <2>4, <2>5 DEF GoodStep, ServiceStep, Service!SNext
<1>2. CASE SkipCancelled
  <2>0. /\ wpc = "check" /\ job[cur].cancel /\ wpc' = "decrement" /\ cur \in Jobs
        /\ out' = [out EXCEPT ![cur].closed = TRUE] /\ Fresh(out[cur])
        /\ UNCHANGED <<queue, job, cur, watch, gen, stops, stopping, generating>>
    BY <1>2, <1>t DEF SkipCancelled, hostVars, Good, StreamInv
  <2>1. /\ out'[cur].closed /\ \A j \in Jobs : out'[j].final = out[j].final
        /\ \A j \in Jobs \ {cur} : out'[j] = out[j]
    BY <2>0, <1>t DEF OutState
  <2>2. StreamInv'
    BY <2>0, <2>1, <1>t DEF Good, StreamInv, Fresh
  <2>3. CancelInv'
    BY <2>0, <2>1, <1>w DEF Good, CancelInv, CancelStaysLocal, Wanted, GenAt
  <2> QED BY <2>0, <2>2, <2>3, ClosesBare DEF GoodStep, Fresh, Withdrawn
<1>3. CASE NotCancelled
  <2>0. /\ wpc = "check" /\ wpc' = "handle"
        /\ UNCHANGED <<queue, out, job, cur, watch, gen, stops, stopping, generating>>
    BY <1>3 DEF NotCancelled, hostVars
  <2>1. StreamInv'
    BY <2>0 DEF Good, StreamInv, Fresh
  <2>2. CancelInv'
    BY <2>0, <1>w DEF Good, CancelInv, CancelStaysLocal, Wanted, GenAt
  <2> QED BY <2>0, <2>1, <2>2, Unseen DEF GoodStep, Withdrawn
<1>4. CASE RejectNoModel
  <2>0. /\ wpc = "handle" /\ wpc' = "decrement" /\ cur \in Jobs
        /\ out' = [Sent(out, cur, "no_model") EXCEPT ![cur].closed = TRUE] /\ Fresh(out[cur])
        /\ UNCHANGED <<queue, job, cur, watch, gen, stops, stopping, generating>>
    BY <1>4, <1>t DEF RejectNoModel, hostVars, Good, StreamInv
  <2>1. /\ out'[cur].closed /\ out'[cur].final \in {"none", "no_model"}
        /\ \A j \in Jobs \ {cur} : out'[j] = out[j]
    BY <2>0, <1>t DEF OutState, Sent, Fresh
  <2>2. StreamInv'
    BY <2>0, <2>1, <1>t DEF Good, StreamInv, Fresh
  <2>3. CancelInv'
    BY <2>0, <2>1, <1>w DEF Good, CancelInv, CancelStaysLocal, Wanted, GenAt
  <2> QED BY <2>0, <2>2, <2>3, ClosesAs DEF GoodStep, Endings
<1>5. CASE StartGenerating
  <2>0. /\ wpc = "handle" /\ wpc' = "generate" /\ cur \in Jobs /\ Fresh(out[cur])
        /\ gen' = [gen EXCEPT ![Worker] = [pc |-> "wait", n |-> 0, end |-> "none"]]
        /\ \E w \in {"top", "none"} : watch' = [watch EXCEPT ![cur] = w]
        /\ UNCHANGED <<queue, job, cur, out, stops, stopping, generating>>
    BY <1>5, <1>t DEF StartGenerating, hostVars, Good, StreamInv
  <2>1. gen'[Worker].pc = "wait" /\ gen'[Worker].end = "none"
    BY <2>0, <1>t
  <2>2. \A j \in Jobs : watch'[j] \in {"top", "check"} => j = cur
    BY <2>0, <1>t, <1>w
  <2>3. StreamInv'
    BY <2>0, <2>1, <1>t DEF Good, StreamInv, Fresh, Finished, GenAt
  <2>4. CancelInv'
    BY <2>0, <2>1, <2>2 DEF Good, CancelInv, CancelStaysLocal, Wanted, Stopped
  <2> QED BY <2>0, <2>3, <2>4, Unseen DEF GoodStep, Withdrawn
<1>6. CASE SignalFinished
  <2>0. /\ wpc = "generate" /\ wpc' = "join" /\ cur \in Jobs
        /\ job' = [job EXCEPT ![cur].finished = TRUE]
        /\ UNCHANGED <<queue, cur, out, watch, gen, stops, stopping, generating>>
    BY <1>6, <1>t DEF SignalFinished, hostVars
  <2>1. \A j \in Jobs : /\ job'[j].pc = job[j].pc /\ job'[j].cancel = job[j].cancel
                        /\ job'[j].reader = job[j].reader
    BY <2>0, <1>t DEF JobState
  <2>2. StreamInv'
    BY <2>0, <2>1 DEF Good, StreamInv, Fresh, Finished, GenAt, Withdrawn
  <2>3. CancelInv'
    BY <2>0, <2>1, <1>6 DEF Good, CancelInv, CancelStaysLocal, Wanted, SignalFinished, GenAt
  <2> QED BY <2>0, <2>1, <2>2, <2>3, Unseen DEF GoodStep, Withdrawn
<1>7. CASE JoinWatcher
  <2> DEFINE e == gen[Worker].end
  <2>0. /\ wpc = "join" /\ wpc' = "decrement" /\ cur \in Jobs /\ watch[cur] \notin {"top", "check"}
        /\ out' = [(IF e \in Failures THEN Sent(out, cur, e) ELSE out) EXCEPT ![cur].closed = TRUE]
        /\ gen' = [gen EXCEPT ![Worker].pc = "idle"]
        /\ watch' = [watch EXCEPT ![cur] = "none"]
        /\ UNCHANGED <<queue, job, cur, stops, stopping, generating>>
    BY <1>7, <1>t DEF JoinWatcher, hostVars, Failures
  <2>1. /\ out'[cur].closed /\ out'[cur].final \in {out[cur].final, e}
        /\ out'[cur].final = out[cur].final \/ e \in Failures
        /\ \A j \in Jobs \ {cur} : out'[j] = out[j]
    <3>1. CASE e \in Failures
      BY <2>0, <3>1, <1>t DEF OutState, Sent
    <3>2. CASE e \notin Failures
      BY <2>0, <3>2, <1>t DEF OutState
    <3> QED BY <3>1, <3>2
  <2>2. gen'[Worker].pc = "idle"
    BY <2>0, <1>t DEF GenState
  <2>3. StreamInv'
    BY <2>0, <2>1, <1>t DEF Good, StreamInv, Fresh
  <2>4. CancelInv'
    <3>1. \A j \in Jobs : watch'[j] \notin {"top", "check"}
      BY <2>0, <1>t DEF Good, CancelInv
    <3>2. CancelStaysLocal'
      BY <2>0, <2>1 DEF Good, CancelInv, CancelStaysLocal, Wanted, Stopped
    <3> QED BY <2>0, <2>2, <3>1, <3>2 DEF Good, CancelInv
  <2>5. ServiceStep
    <3>0. /\ ~out[cur].closed
          /\ e \notin Failures => out[cur].final # "none" \/ Withdrawn(cur)
          /\ e \in Failures => out[cur].final = "none"
      BY <2>0, <1>t DEF Good, StreamInv, Finished
    <3>1. CASE e \in Failures
      BY <2>0, <3>0, <3>1, ClosesAs DEF Failures, Endings, Fresh
    <3>2. CASE e \notin Failures
      BY <2>0, <3>0, <3>2, ClosesBare
    <3> QED BY <3>1, <3>2
  <2> QED BY <2>3, <2>4, <2>5 DEF GoodStep
<1>8. CASE Decrement
  <2>0. /\ wpc = "decrement" /\ wpc' = "recv" /\ cur \in Jobs /\ cur' = NoJob /\ out[cur].closed
        /\ job' = [job EXCEPT ![cur].pc = "done"]
        /\ UNCHANGED <<queue, out, watch, gen, stops, stopping, generating>>
    BY <1>8, <1>t DEF Decrement, hostVars, Good, StreamInv
  <2>1. /\ job'[cur].pc = "done" /\ job[cur].pc = "running"
        /\ \A j \in Jobs \ {cur} : job'[j] = job[j]
        /\ \A j \in Jobs : job'[j].cancel = job[j].cancel /\ job'[j].reader = job[j].reader
    BY <2>0, <1>t DEF JobState
  <2>2. StreamInv'
    BY <2>0, <2>1 DEF Good, StreamInv, Fresh
  <2>3. CancelInv'
    BY <2>0, <2>1, <1>w DEF Good, CancelInv, CancelStaysLocal, Wanted, GenAt
  <2>4. Service!SRelease
    <3>1. {i \in Jobs : job[i].pc \notin {"new", "counted"}}'
            = {i \in Jobs : job[i].pc \notin {"new", "counted"}}
      BY <2>1
    <3>2. {i \in Jobs : job[i].cancel \/ ~job[i].reader}'
            = {i \in Jobs : job[i].cancel \/ ~job[i].reader}
      BY <2>1
    <3> QED BY <2>0, <3>1, <3>2, <1>t DEF Service!SRelease
  <2> QED BY <2>2, <2>3, <2>4 DEF GoodStep, ServiceStep, Service!SNext
<1> QED BY <1>1, <1>2, <1>3, <1>4, <1>5, <1>6, <1>7, <1>8 DEF WorkerStep

(* Whose generation is under way has an untouched, open stream.            *)
LEMMA ServedStream ==
  ASSUME Good, ~GenAt(Worker, "idle"), ~GenAt(Worker, "done")
  PROVE  /\ wpc = "generate" /\ cur \in Jobs /\ cur # NoJob /\ Fresh(out[cur])
         /\ out[cur] \in OutState /\ job[cur] \in JobState /\ job[cur].pc = "running"
<1>1. wpc = "generate"
  BY DEF Good, IInv, RunInv
<1>2. cur \in Jobs /\ cur # NoJob /\ job[cur].pc = "running"
  BY <1>1, GoodTypes
<1>3. Fresh(out[cur])
  BY <1>1 DEF Good, StreamInv, Finished, Fresh
<1> QED BY <1>1, <1>2, <1>3, GoodTypes

(* A step of the worker's generation that tells its stream nothing.        *)
LEMMA SilentStep ==
  ASSUME Good, ~GenAt(Worker, "idle"), ~GenAt(Worker, "done"),
         UNCHANGED <<queue, cur, out, job, wpc, watch, stops, stopping>>,
         gen'[Worker].pc = "done" => gen'[Worker].end \in Failures,
         gen'[Worker].pc \in {"render", "prefill", "decode"} /\ ~generating' => Wanted(cur),
         gen'[Worker].end \in Stopped => Wanted(cur)
  PROVE  GoodStep
<1>1. StreamInv'
  BY ServedStream DEF Good, StreamInv, Fresh, Finished, GenAt
<1>2. CancelInv'
  BY DEF Good, CancelInv, CancelStaysLocal, Wanted
<1> QED BY <1>1, <1>2, Unseen DEF GoodStep, Withdrawn

(* What Deliver does for the worker: nothing for a cancelled job, a cancel *)
(* for one nobody reads, the chunk otherwise.                              *)
LEMMA DeliverCases ==
  ASSUME Good, NEW o, Deliver(Worker, o)
  PROVE  \/ job[cur].cancel /\ UNCHANGED <<job, out>>
         \/ ~job[cur].reader /\ job' = [job EXCEPT ![cur].cancel = TRUE] /\ out' = out
         \/ ~Withdrawn(cur) /\ out' = [out EXCEPT ![cur] = o] /\ job' = job
BY ThreadAssumption DEF Deliver, Withdrawn

(* The final chunk ends the stream in the service, unless it was withdrawn.*)
LEMMA FinalChunkGood ==
  ASSUME Good, GenAt(Worker, "decode"), NEW ending \in {"cancelled", "length", "stop"},
         ending = "cancelled" => ~generating,
         FinalChunk(Worker, ending), UNCHANGED unchangedByGen
  PROVE  GoodStep
<1> DEFINE o == [out[cur] EXCEPT !.final = ending]
<1>0. /\ Deliver(Worker, o)
      /\ gen' = [gen EXCEPT ![Worker].pc = "done", ![Worker].end = ending]
      /\ UNCHANGED <<queue, watch, wpc, cur, stops, stopping>>
  BY DEF FinalChunk, Leave, unchangedByGen
<1>t. /\ wpc = "generate" /\ cur \in Jobs /\ cur # NoJob /\ Fresh(out[cur])
      /\ out[cur] \in OutState /\ job[cur] \in JobState /\ job[cur].pc = "running"
      /\ job \in [Jobs -> JobState] /\ out \in [Jobs -> OutState]
      /\ ending \in Endings /\ ending \notin Failures /\ ending # "none"
  BY ServedStream, GoodTypes DEF GenAt, Endings, Failures
<1>g. gen'[Worker].pc = "done" /\ gen'[Worker].end = ending
  BY <1>0, GoodTypes DEF GenState
<1>c. ending = "cancelled" => Wanted(cur)
  BY DEF Good, CancelInv, GenAt
<1>s. ending \in Stopped => Wanted(cur)
  BY <1>c DEF Stopped
<1>1. CASE job[cur].cancel /\ UNCHANGED <<job, out>>
  <2>1. StreamInv'
    BY <1>1, <1>0, <1>t, <1>g DEF Good, StreamInv, Fresh, Withdrawn
  <2>2. CancelInv'
    BY <1>1, <1>0, <1>g, <1>s DEF Good, CancelInv, CancelStaysLocal, Wanted
  <2> QED BY <1>1, <1>0, <2>1, <2>2, Unseen DEF GoodStep, Withdrawn
<1>2. CASE ~job[cur].reader /\ job' = [job EXCEPT ![cur].cancel = TRUE] /\ out' = out
  <2>0. /\ job'[cur].cancel
        /\ \A j \in Jobs : job'[j].pc = job[j].pc /\ job'[j].reader = job[j].reader
                           /\ (job[j].cancel => job'[j].cancel)
        /\ \A j \in Jobs \ {cur} : job'[j] = job[j]
    BY <1>2, <1>t DEF JobState
  <2>1. StreamInv'
    BY <1>2, <2>0, <1>0, <1>t, <1>g DEF Good, StreamInv, Fresh, Withdrawn
  <2>2. CancelInv'
    <3>1. \A j \in Jobs : Wanted(j) => Wanted(j)'
      BY <2>0, <1>0 DEF Wanted
    <3>2. CancelStaysLocal' /\ Wanted(cur)'
      BY <1>2, <2>0, <3>1, <1>0, <1>t DEF Good, CancelInv, CancelStaysLocal, Wanted
    <3> QED BY <1>0, <1>g, <3>2 DEF Good, CancelInv
  <2> QED BY <1>2, <2>0, <1>0, <2>1, <2>2, Unseen DEF GoodStep, Withdrawn
<1>3. CASE ~Withdrawn(cur) /\ out' = [out EXCEPT ![cur] = o] /\ job' = job
  <2>0. /\ out'[cur] = o /\ o.final = ending /\ ~o.closed
        /\ \A j \in Jobs \ {cur} : out'[j] = out[j]
    BY <1>3, <1>t DEF OutState, Fresh
  <2>1. StreamInv'
    BY <1>3, <2>0, <1>0, <1>t, <1>g DEF Good, StreamInv, Fresh, Finished, GenAt
  <2>2. CancelInv'
    BY <1>3, <2>0, <1>0, <1>g, <1>s DEF Good, CancelInv, CancelStaysLocal, Wanted, Stopped
  <2>3. out' = [out EXCEPT ![cur].final = ending, ![cur].closed = FALSE]
    <3>1. o = [out[cur] EXCEPT !.final = ending, !.closed = FALSE]
      BY <1>t DEF OutState, Fresh
    <3> QED BY <1>3, <3>1, <1>t
  <2>4. Service!SEnd(ending)
    BY <1>3, <2>3, <1>0, <1>t DEF Service!SEnd, Fresh
  <2> QED BY <2>1, <2>2, <2>4, <1>t DEF GoodStep, ServiceStep, Service!SNext
<1> QED BY <1>0, <1>1, <1>2, <1>3, DeliverCases

(* A token is the service's token, unless its reader withdrew; the         *)
(* callback that stops the generation does so for its own job.             *)
LEMMA TokenGood ==
  ASSUME Good, GenAt(Worker, "decode"), generating,
         Deliver(Worker, [out[cur] EXCEPT !.tokens = @ + 1]), UNCHANGED unchangedByGen,
         \/ Leave(Worker, "error", FALSE)
         \/ /\ gen' = [gen EXCEPT ![Worker].n = @ + 1]
            /\ generating' = ~CallbackStops(Worker)
  PROVE  GoodStep
<1> DEFINE o == [out[cur] EXCEPT !.tokens = @ + 1]
<1>0. UNCHANGED <<queue, watch, wpc, cur, stops, stopping>>
  BY DEF unchangedByGen
<1>t. /\ wpc = "generate" /\ cur \in Jobs /\ cur # NoJob /\ Fresh(out[cur])
      /\ out[cur] \in OutState /\ job[cur] \in JobState /\ job[cur].pc = "running"
      /\ job \in [Jobs -> JobState] /\ out \in [Jobs -> OutState]
  BY ServedStream, GoodTypes DEF GenAt
<1>g. \/ gen'[Worker].pc = "done" /\ gen'[Worker].end = "error"
      \/ /\ gen'[Worker].pc = "decode" /\ gen'[Worker].end = gen[Worker].end
         /\ ~generating' => Withdrawn(cur)
  <2>1. CASE Leave(Worker, "error", FALSE)
    BY <2>1, GoodTypes DEF Leave, GenState
  <2>2. CASE gen' = [gen EXCEPT ![Worker].n = @ + 1] /\ generating' = ~CallbackStops(Worker)
    <3>1. gen'[Worker].pc = "decode" /\ gen'[Worker].end = gen[Worker].end
      BY <2>2, GoodTypes DEF GenState, GenAt
    <3>2. CallbackStops(Worker) <=> Withdrawn(cur)
      BY DEF CallbackStops, Withdrawn
    <3>3. ~generating' => Withdrawn(cur)
      BY <2>2, <3>2, Zenon
    <3> QED BY <3>1, <3>3
  <2> QED BY <2>1, <2>2
<1>f. (gen'[Worker].pc = "done" => gen'[Worker].end \in Failures)
      /\ (gen'[Worker].end \in Stopped => Wanted(cur))
  BY <1>g, <1>t DEF Failures, Stopped, Good, CancelInv
<1>1. CASE job[cur].cancel /\ UNCHANGED <<job, out>>
  BY <1>1, <1>0, <1>f, SilentStep DEF GenAt, Wanted
<1>2. CASE ~job[cur].reader /\ job' = [job EXCEPT ![cur].cancel = TRUE] /\ out' = out
  <2>0. /\ job'[cur].cancel
        /\ \A j \in Jobs : job'[j].pc = job[j].pc /\ job'[j].reader = job[j].reader
                           /\ (job[j].cancel => job'[j].cancel)
        /\ \A j \in Jobs \ {cur} : job'[j] = job[j]
    BY <1>2, <1>t DEF JobState
  <2>1. StreamInv'
    BY <1>2, <2>0, <1>0, <1>t, <1>f DEF Good, StreamInv, Fresh, Finished, GenAt
  <2>2. CancelInv'
    BY <1>2, <2>0, <1>0, <1>t DEF Good, CancelInv, CancelStaysLocal, Wanted
  <2> QED BY <1>2, <2>0, <1>0, <2>1, <2>2, Unseen DEF GoodStep, Withdrawn
<1>3. CASE ~Withdrawn(cur) /\ out' = [out EXCEPT ![cur] = o] /\ job' = job
  <2>0. /\ out'[cur] = o /\ o.final = "none" /\ ~o.closed
        /\ \A j \in Jobs \ {cur} : out'[j] = out[j]
    BY <1>3, <1>t DEF OutState, Fresh
  <2>1. StreamInv'
    BY <1>3, <2>0, <1>0, <1>t, <1>f DEF Good, StreamInv, Fresh, Finished, GenAt
  <2>2. CancelInv'
    BY <1>3, <2>0, <1>0, <1>f, <1>g DEF Good, CancelInv, CancelStaysLocal, Wanted
  <2>3. out' = [out EXCEPT ![cur].tokens = @ + 1]
    BY <1>3, <1>t
  <2>4. Service!SToken
    BY <1>3, <2>3, <1>0, <1>t DEF Service!SToken, Fresh, Withdrawn
  <2> QED BY <2>1, <2>2, <2>4 DEF GoodStep, ServiceStep, Service!SNext
<1> QED BY <1>1, <1>2, <1>3, DeliverCases

(* Every step of a generation: a desktop chat has no job, and the worker's *)
(* speaks for its own.                                                     *)
LEMMA GenStepGood ==
  ASSUME Good, NEW g \in Generators, GenStep(g) PROVE GoodStep
<1>t. /\ gen \in [Generators -> GenState] /\ Worker \in Generators /\ stops \in Nat
      /\ generating \in BOOLEAN
  BY GoodTypes
<1>0. UNCHANGED <<queue, cur, wpc, watch, stops, stopping>>
  BY DEF GenStep, TakeRuntime, RaiseFlag, Render, Prefill, Decode, unchangedByGen
<1>1. CASE g \in Chats
  <2>1. UNCHANGED <<job, out>>
    BY <1>1 DEF GenStep, TakeRuntime, RaiseFlag, Render, Prefill, Decode, FinalChunk, Deliver
  <2>2. gen'[Worker] = gen[Worker]
    BY <1>1, <1>t, ThreadAssumption
    DEF GenStep, TakeRuntime, RaiseFlag, Render, Prefill, Decode, FinalChunk, Leave
  <2>3. gen[Worker].pc \in {"render", "prefill", "decode"} => generating' = generating
    <3>1. TakeRuntime(g) => generating' = generating
      BY DEF TakeRuntime
    <3>2. GenStep(g) /\ ~TakeRuntime(g) => Inside(g)
      BY DEF GenStep, RaiseFlag, Render, Prefill, Decode, GenAt, Inside
    <3>3. Inside(g) => ~Inside(Worker)
      BY <1>1, <1>t, ThreadAssumption DEF Good, IInv, MutexInv
    <3> QED BY <3>1, <3>2, <3>3 DEF Inside
  <2> QED BY <2>1, <2>2, <2>3, <1>0, <1>t, JobsAside DEF Good, CancelInv
<1>2. CASE g = Worker
  <2>0. ~GenAt(Worker, "idle") /\ ~GenAt(Worker, "done")
    BY <1>2 DEF GenStep, TakeRuntime, RaiseFlag, Render, Prefill, Decode, GenAt
  <2>w. gen[Worker].end \in Stopped => Wanted(cur)
    BY <2>0, ServedStream DEF Good, CancelInv
  <2>1. CASE TakeRuntime(Worker)
    <3>1. gen'[Worker].pc = "start" /\ gen'[Worker].end = gen[Worker].end /\ UNCHANGED <<job, out>>
      BY <2>1, <1>t DEF TakeRuntime, GenState
    <3> QED BY <3>1, <2>0, <2>w, <1>0, SilentStep
  <2>2. CASE RaiseFlag(Worker)
    <3>1. /\ UNCHANGED <<job, out>>
          /\ \/ gen'[Worker].pc = "done" /\ gen'[Worker].end = "error"
             \/ gen'[Worker].pc = "render" /\ gen'[Worker].end = gen[Worker].end /\ generating'
      BY <2>2, <1>t DEF RaiseFlag, Leave, GenState
    <3> QED BY <3>1, <2>0, <2>w, <1>0, SilentStep DEF Failures, Stopped
  <2>3. CASE Render(Worker)
    <3>1. /\ UNCHANGED <<job, out>> /\ GenAt(Worker, "render")
          /\ \/ gen'[Worker].pc = "done" /\ gen'[Worker].end = "error"
             \/ gen'[Worker].pc = "prefill" /\ gen'[Worker].end = "none" /\ generating' = generating
      BY <2>3, <1>t DEF Render, Leave, GenState
    <3>2. ~generating => Wanted(cur)
      BY <3>1 DEF Good, CancelInv, GenAt
    <3> QED BY <3>1, <3>2, <2>0, <1>0, SilentStep DEF Failures, Stopped
  <2>4. CASE Prefill(Worker)
    <3>1. /\ UNCHANGED <<job, out>> /\ GenAt(Worker, "prefill")
          /\ \/ gen'[Worker].pc = "done" /\ gen'[Worker].end = "prefill_cancelled" /\ ~generating
             \/ gen'[Worker].pc = "done" /\ gen'[Worker].end = "error"
             \/ gen'[Worker].pc \in {"prefill", "decode"} /\ gen'[Worker].end = "none"
                /\ generating' /\ generating
      BY <2>4, <1>t DEF Prefill, Leave, GenState
    <3>2. ~generating => Wanted(cur)
      BY <3>1 DEF Good, CancelInv, GenAt
    <3> QED BY <3>1, <3>2, <2>0, <1>0, SilentStep DEF Failures, Stopped
  <2>5. CASE Decode(Worker)
    <3>0. GenAt(Worker, "decode") /\ UNCHANGED unchangedByGen
      BY <2>5 DEF Decode
    <3>1. CASE \/ ~generating /\ FinalChunk(Worker, "cancelled")
               \/ generating /\ FinalChunk(Worker, "length")
               \/ generating /\ FinalChunk(Worker, "stop")
      BY <3>0, <3>1, FinalChunkGood
    <3>2. ASSUME NEW emitted \in BOOLEAN, generating,
                 IF emitted THEN Deliver(Worker, [out[cur] EXCEPT !.tokens = @ + 1])
                   ELSE UNCHANGED <<job, out>>,
                 \/ Leave(Worker, "error", FALSE)
                 \/ /\ gen' = [gen EXCEPT ![Worker].n = @ + 1]
                    /\ generating' = (generating /\ ~(emitted /\ CallbackStops(Worker)))
          PROVE  GoodStep
      <4>1. CASE emitted
        BY <3>0, <3>2, <4>1, TokenGood
      <4>2. CASE ~emitted
        <5>1. \/ gen'[Worker].pc = "done" /\ gen'[Worker].end = "error"
              \/ gen'[Worker].end = gen[Worker].end /\ gen'[Worker].pc = "decode" /\ generating'
          <6>1. CASE Leave(Worker, "error", FALSE)
            BY <6>1, <1>t DEF Leave, GenState
          <6>2. CASE /\ gen' = [gen EXCEPT ![Worker].n = @ + 1]
                     /\ generating' = (generating /\ ~(emitted /\ CallbackStops(Worker)))
            <7>1. gen'[Worker].end = gen[Worker].end /\ gen'[Worker].pc = "decode"
              BY <6>2, <3>0, <1>t DEF GenState, GenAt
            <7>2. generating'
              BY <6>2, <3>2, <4>2, Zenon
            <7> QED BY <7>1, <7>2
          <6> QED BY <3>2, <6>1, <6>2
        <5> QED BY <3>2, <4>2, <5>1, <2>0, <2>w, <1>0, SilentStep DEF Failures, Stopped
      <4> QED BY <4>1, <4>2
    <3> QED BY <2>5, <3>1, <3>2 DEF Decode
  <2> QED BY <1>2, <2>1, <2>2, <2>3, <2>4, <2>5 DEF GenStep
<1> QED BY <1>1, <1>2 DEF Generators

(* A desktop chat that starts has no job; Stop is remembered.              *)
LEMMA DesktopGood ==
  ASSUME Good, (\E c \in Chats : ChatBegin(c)) \/ Stop \/ StopBehindMutex PROVE GoodStep
<1>t. gen \in [Generators -> GenState] /\ stops \in Nat
  BY GoodTypes
<1>1. ASSUME NEW c \in Chats, ChatBegin(c) PROVE GoodStep
  <2>1. gen'[Worker] = gen[Worker]
    BY <1>1, <1>t, ThreadAssumption DEF ChatBegin, Generators
  <2> QED BY <1>1, <2>1, <1>t, JobsAside DEF ChatBegin, hostVars, Good, CancelInv
<1>2. CASE Stop \/ StopBehindMutex
  <2>1. UNCHANGED <<queue, cur, out, job, wpc, watch, gen>>
    BY <1>2 DEF Stop, StopBehindMutex
  <2>2. stops' \in Nat /\ stops' >= stops /\ stops' > 0
    <3>1. CASE Stop
      BY <3>1, <1>t DEF Stop
    <3>2. CASE StopBehindMutex
      BY <3>2, <1>t DEF StopBehindMutex, Good, CancelInv
    <3> QED BY <1>2, <3>1, <3>2
  <2> QED BY <2>1, <2>2, JobsAside
<1> QED BY <1>1, <1>2

(* Every step keeps the streams and the flag in order, and is a step of    *)
(* the service or none.                                                    *)
LEMMA GoodNext == Good /\ [Next]_vars => GoodStep
<1> SUFFICES ASSUME Good, [Next]_vars PROVE GoodStep
  OBVIOUS
<1>1. CASE UNCHANGED vars
  <2>1. UNCHANGED <<queue, cur, out, job, wpc, watch, gen, stops, stopping, generating>>
    BY <1>1 DEF vars, hostVars, schedVars
  <2> QED BY <2>1, GoodTypes, JobsAside DEF Good, CancelInv
<1> QED BY <1>1, CmdStepGood, ClientStepGood, WatchStepGood, WorkerStepGood, GenStepGood,
           DesktopGood DEF Next

(* So it is at the start.                                                  *)
LEMMA GoodInit == Init => StreamInv /\ CancelInv /\ Service!SInit
<1> SUFFICES ASSUME Init PROVE StreamInv /\ CancelInv /\ Service!SInit
  OBVIOUS
<1> USE DEF Init, SchedInit
<1>1. StreamInv
  BY DEF StreamInv, Fresh
<1>2. CancelInv
  BY DEF CancelInv, CancelStaysLocal, Generators
<1>3. Service!SInit
  <2>1. {j \in Jobs : job[j].pc \notin {"new", "counted"}} = {}
    OBVIOUS
  <2>2. {j \in Jobs : job[j].cancel \/ ~job[j].reader} = {}
    OBVIOUS
  <2> QED BY <2>1, <2>2 DEF Service!SInit
<1> QED BY <1>1, <1>2, <1>3

(* Streams and flag are in order in every reachable state.                 *)
THEOREM StreamInvariance == Spec => [](StreamInv /\ CancelInv)
<1>1. Init => StreamInv /\ CancelInv
  BY GoodInit
<1>2. IInv /\ StreamInv /\ CancelInv /\ [Next]_vars => (StreamInv /\ CancelInv)'
  BY GoodNext DEF Good, GoodStep
<1> QED BY <1>1, <1>2, Invariance, PTL DEF Spec

(* A job that ends as cancelled was cancelled itself, or somebody pressed  *)
(* Stop, though every watcher and every generation writes the one flag.    *)
THEOREM CancelIsLocal == Spec => []CancelStaysLocal
<1>1. CancelInv => CancelStaysLocal
  BY DEF CancelInv
<1> QED BY <1>1, StreamInvariance, PTL

(* The scheduler, with its queue, worker, watchers, flags, desktop chats   *)
(* and model commands, implements the FIFO service with well formed        *)
(* streams: initial states map to initial states, steps to steps.          *)
THEOREM SchedulerImplementsService == Spec => ImplementsService
<1>1. Init => Service!SInit
  BY GoodInit
<1>2. IInv /\ (StreamInv /\ CancelInv) /\ [Next]_vars => [Service!SNext]_(Service!svars)
  BY GoodNext DEF Good, GoodStep, ServiceStep
<1> QED BY <1>1, <1>2, Invariance, StreamInvariance, PTL DEF Spec, ImplementsService, Service!SSpec
=============================================================================
