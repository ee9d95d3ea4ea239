------------------------------ MODULE ModelHost ------------------------------
(***************************************************************************)
(* Who holds the model, and what the rest of the application believes is   *)
(* loaded.  src/src-tauri/src/ai_engine/manager.rs keeps four copies of    *)
(* the answer: the runtime behind its mutex, a status mirror readable      *)
(* without the mutex, the package context used to resolve LoRA adapters,   *)
(* and session.json on disk.  Load, unload and the two reload commands of  *)
(* the launcher update them one after the other, outside any common lock.  *)
(*                                                                         *)
(* A command is a thread k \in Cmds; it runs one operation at a time and   *)
(* cmd[k] is its program counter and local variables.                      *)
(***************************************************************************)
EXTENDS Naturals

CONSTANTS
  Models,          (* installed model packages                             *)
  Cmds,            (* threads that run load, unload, ensure or grow        *)
  NoModel,         (* None                                                 *)
  Free,            (* the runtime mutex is not held                        *)
  WorkingContext,  (* DEFAULT_WORKING_CONTEXT, in abstract units           *)
  Advertised,      (* context each model's profile asks for                *)
  Trained,         (* context in the GGUF header, 0 when unreadable        *)
  Certified,       (* context of a certified profile, 0 when there is none *)
  Wants,           (* contexts a launched tool may ask for                 *)
  MaxCommands      (* bound: operations started in one behaviour           *)

ASSUME NoModelAssumption ==
  NoModel \notin Models /\ NoModel \notin [model : Models, ctx : Nat]
ASSUME FreeAssumption == Free \notin Cmds
ASSUME ContextAssumption ==
  /\ WorkingContext \in Nat \ {0}
  /\ Advertised \in [Models -> Nat \ {0}]
  /\ Trained \in [Models -> Nat]
  /\ Certified \in [Models -> Nat]
  /\ Wants \subseteq Nat \ {0}
ASSUME BoundAssumption == MaxCommands \in Nat

VARIABLES
  holder,      (* thread inside the runtime mutex, or Free                 *)
  runtime,     (* what LlamaCppRuntime holds: LoadedModelInfo or None      *)
  generating,  (* the runtime's one is_generating / cancel flag            *)
  mirror,      (* StatusMirror; its flag is published iff loaded is        *)
  package,     (* active_package                                           *)
  saved,       (* the model session.json names, None when it names none    *)
  cmd,         (* per command thread: pc, operation and locals             *)
  issued       (* operations started so far, for the bound                 *)

hostVars == <<holder, runtime, generating, mirror, package, saved, cmd, issued>>

-----------------------------------------------------------------------------
(* Types and helpers.                                                      *)

LoadedInfo == [model : Models, ctx : Nat]
MaybeLoaded == LoadedInfo \cup {NoModel}
MaybeModel == Models \cup {NoModel}

Ops == {"none", "load", "ensure", "grow", "unload"}
Pcs == {"idle", "package", "prepare", "acquire", "loading", "publish",
        "publish_failure", "record_package", "save",
        "forget_package", "unpublish", "unloading"}
Results == {"none", "ok", "short", "restored", "err"}

CmdState ==
  [pc : Pcs, op : Ops, target : MaybeModel, floor : Nat, wanted : Nat,
   prior : MaybeLoaded, restoring : BOOLEAN, info : MaybeLoaded,
   result : Results]

Blank ==
  [pc |-> "idle", op |-> "none", target |-> NoModel, floor |-> 0, wanted |-> 0,
   prior |-> NoModel, restoring |-> FALSE, info |-> NoModel, result |-> "none"]

Larger(a, b) == IF a >= b THEN a ELSE b
Smaller(a, b) == IF a <= b THEN a ELSE b

(* Mutant of PlanContext: the floor wins over the model's own request.     *)
FloorWins(requested, floor) == Larger(Smaller(requested, WorkingContext), floor)

(* plan_context: a client's floor raises the working cap, never the        *)
(* model's own request.                                                    *)
PlanContext(requested, floor) == Smaller(requested, Larger(WorkingContext, floor))

(* The contexts build_load_config may settle on.  A certified profile is   *)
(* authoritative, ignores the floor, and is cut down to what the memory    *)
(* then in the hardware profile affords, which may differ at every load.   *)
LoadContexts(m, floor) ==
  IF Certified[m] > 0 THEN 1 .. Certified[m] ELSE {PlanContext(Advertised[m], floor)}

(* The most context model m is ever entitled to.                           *)
OwnMaximum(m) == IF Certified[m] > 0 THEN Certified[m] ELSE Advertised[m]

At(k, pc) == cmd[k].pc = pc

(* A command that returns to its caller with a result.                     *)
Returned(c, result, info) ==
  [c EXCEPT !.pc = "idle", !.result = result, !.info = info]

(* Mutant of AfterFailedLoad: nothing is put back.                         *)
FailedForGood(c) == Returned(c, "err", NoModel)

(* load_installed_model_internal returned Err.  A plain load reports it;   *)
(* a reload tries once more with no floor, to put back what was there.     *)
AfterFailedLoad(c) ==
  IF c.op \in {"ensure", "grow"} /\ ~c.restoring
  THEN [c EXCEPT !.pc = "prepare", !.floor = 0, !.restoring = TRUE]
  ELSE Returned(c, "err", NoModel)

(* Mutant of AfterGoodLoad: the context reached is not compared.           *)
AnyLoadWillDo(c) ==
  IF c.op = "ensure" /\ c.restoring THEN Returned(c, "restored", c.info)
  ELSE Returned(c, "ok", c.info)

(* What a successful load means to the operation that asked for it.        *)
AfterGoodLoad(c) ==
  IF c.op = "ensure" /\ c.restoring THEN Returned(c, "restored", c.info)
  ELSE IF c.op = "ensure" /\ c.info.ctx < c.wanted THEN Returned(c, "short", c.info)
  ELSE Returned(c, "ok", c.info)

-----------------------------------------------------------------------------
(* Starting an operation.                                                  *)

HostInit ==
  /\ holder = Free
  /\ runtime = NoModel
  /\ generating = FALSE
  /\ mirror = NoModel
  /\ package = NoModel
  /\ saved = NoModel
  /\ cmd = [k \in Cmds |-> Blank]
  /\ issued = 0

Issue(k, c) ==
  /\ At(k, "idle")
  /\ issued < MaxCommands
  /\ issued' = issued + 1
  /\ cmd' = [cmd EXCEPT ![k] = c]
  /\ UNCHANGED <<holder, runtime, generating, mirror, package>>

Load(k, m) ==
  /\ Issue(k, [Blank EXCEPT !.op = "load", !.target = m, !.pc = "prepare"])
  /\ UNCHANGED saved

(* Unload first removes session.json, if it can.                           *)
Unload(k) ==
  /\ Issue(k, [Blank EXCEPT !.op = "unload", !.pc = "forget_package"])
  /\ saved' \in {NoModel, saved}

(* ensure_context_at_least: a snapshot of the mirror decides whether there *)
(* is anything to do.                                                      *)
Ensure(k, wanted) ==
  LET c == [Blank EXCEPT !.op = "ensure", !.wanted = wanted, !.prior = mirror]
  IN  /\ Issue(k, IF mirror = NoModel THEN Returned(c, "err", NoModel)
                  ELSE IF mirror.ctx >= wanted THEN Returned(c, "ok", mirror)
                  ELSE [c EXCEPT !.pc = "package", !.target = mirror.model,
                                 !.floor = wanted])
      /\ UNCHANGED saved

(* grow_context_towards: the same, but the goal is capped by what the      *)
(* model was trained for, and nothing to gain is success.                  *)
Grow(k, wanted) ==
  LET c    == [Blank EXCEPT !.op = "grow", !.wanted = wanted, !.prior = mirror]
      goal == IF Trained[mirror.model] > 0
              THEN Smaller(wanted, Trained[mirror.model]) ELSE wanted
  IN  /\ Issue(k, IF mirror = NoModel THEN Returned(c, "err", NoModel)
                  ELSE IF mirror.ctx >= wanted \/ goal <= mirror.ctx
                       THEN Returned(c, "ok", mirror)
                  ELSE [c EXCEPT !.pc = "package", !.target = mirror.model,
                                 !.floor = goal])
      /\ UNCHANGED saved

(* The reload needs the package on record; ensure also refuses a model     *)
(* that was not trained for the floor.  Read separately from the mirror.   *)
CheckPackage(k) ==
  LET c == cmd[k]
      unreachable == Trained[c.target] > 0 /\ Trained[c.target] < c.wanted
  IN  /\ At(k, "package")
      /\ cmd' = [cmd EXCEPT ![k] =
           CASE c.op = "ensure" /\ (package = NoModel \/ unreachable)
                  -> Returned(c, "err", NoModel)
             [] c.op = "grow" /\ package = NoModel -> Returned(c, "ok", c.prior)
             [] OTHER -> [c EXCEPT !.pc = "prepare"]]
      /\ UNCHANGED <<holder, runtime, generating, mirror, package, saved, issued>>

-----------------------------------------------------------------------------
(* load_installed_model_internal.                                          *)

(* Manifest, GGUF path and load configuration: any of them may fail, and   *)
(* then nothing has been touched yet.                                      *)
Prepare(k) ==
  /\ At(k, "prepare")
  /\ \/ cmd' = [cmd EXCEPT ![k].pc = "acquire"]
     \/ cmd' = [cmd EXCEPT ![k] = AfterFailedLoad(@)]
  /\ UNCHANGED <<holder, runtime, generating, mirror, package, saved, issued>>

(* Mutant of Acquire: the runtime is used without its mutex.               *)
AcquireAnyway(k) ==
  /\ At(k, "acquire")
  /\ holder' = k
  /\ cmd' = [cmd EXCEPT ![k].pc = IF cmd[k].op = "unload" THEN "unloading" ELSE "loading"]
  /\ UNCHANGED <<runtime, generating, mirror, package, saved, issued>>

Acquire(k) ==
  /\ At(k, "acquire")
  /\ holder = Free
  /\ holder' = k
  /\ cmd' = [cmd EXCEPT ![k].pc = IF cmd[k].op = "unload" THEN "unloading" ELSE "loading"]
  /\ UNCHANGED <<runtime, generating, mirror, package, saved, issued>>

(* runtime.load_model under the mutex: the previous model goes first, so a *)
(* failure leaves nothing loaded.  Unloading also clears the flag.         *)
LoadRuntime(k) ==
  LET c == cmd[k]
  IN  /\ At(k, "loading")
      /\ holder' = Free
      /\ generating' = IF runtime # NoModel THEN FALSE ELSE generating
      /\ \/ \E ctx \in LoadContexts(c.target, c.floor) :
              LET info == [model |-> c.target, ctx |-> ctx]
              IN  /\ runtime' = info
                  /\ cmd' = [cmd EXCEPT ![k].pc = "publish", ![k].info = info]
         \/ /\ runtime' = NoModel
            /\ cmd' = [cmd EXCEPT ![k].pc = "publish_failure"]
      /\ UNCHANGED <<mirror, package, saved, issued>>

(* Mutant of PublishFailure: the failed load leaves the mirror as it was.  *)
FailSilently(k) ==
  /\ At(k, "publish_failure")
  /\ cmd' = [cmd EXCEPT ![k] = AfterFailedLoad(@)]
  /\ UNCHANGED <<holder, runtime, generating, mirror, package, saved, issued>>

PublishFailure(k) ==
  /\ At(k, "publish_failure")
  /\ mirror' = NoModel
  /\ cmd' = [cmd EXCEPT ![k] = AfterFailedLoad(@)]
  /\ UNCHANGED <<holder, runtime, generating, package, saved, issued>>

PublishLoaded(k) ==
  /\ At(k, "publish")
  /\ mirror' = cmd[k].info
  /\ cmd' = [cmd EXCEPT ![k].pc = "record_package"]
  /\ UNCHANGED <<holder, runtime, generating, package, saved, issued>>

RecordPackage(k) ==
  /\ At(k, "record_package")
  /\ package' = cmd[k].target
  /\ cmd' = [cmd EXCEPT ![k].pc = "save"]
  /\ UNCHANGED <<holder, runtime, generating, mirror, saved, issued>>

(* A session.json that cannot be written, or only in part, is no failure.  *)
SaveSession(k) ==
  /\ At(k, "save")
  /\ saved' \in {cmd[k].target, saved, NoModel}
  /\ cmd' = [cmd EXCEPT ![k] = AfterGoodLoad(@)]
  /\ UNCHANGED <<holder, runtime, generating, mirror, package, issued>>

-----------------------------------------------------------------------------
(* unload_active_model.                                                    *)

ForgetPackage(k) ==
  /\ At(k, "forget_package")
  /\ package' = NoModel
  /\ cmd' = [cmd EXCEPT ![k].pc = "unpublish"]
  /\ UNCHANGED <<holder, runtime, generating, mirror, saved, issued>>

Unpublish(k) ==
  /\ At(k, "unpublish")
  /\ mirror' = NoModel
  /\ cmd' = [cmd EXCEPT ![k].pc = "acquire"]
  /\ UNCHANGED <<holder, runtime, generating, package, saved, issued>>

UnloadRuntime(k) ==
  /\ At(k, "unloading")
  /\ holder' = Free
  /\ generating' = FALSE
  /\ runtime' = NoModel
  /\ cmd' = [cmd EXCEPT ![k] = Returned(@, "ok", NoModel)]
  /\ UNCHANGED <<mirror, package, saved, issued>>

-----------------------------------------------------------------------------
(* The specification.                                                      *)

(* A step of an operation already under way.                               *)
Proceed(k) ==
  \/ CheckPackage(k) \/ Prepare(k) \/ Acquire(k) \/ LoadRuntime(k)
  \/ PublishFailure(k) \/ PublishLoaded(k) \/ RecordPackage(k) \/ SaveSession(k)
  \/ ForgetPackage(k) \/ Unpublish(k) \/ UnloadRuntime(k)

Begin(k) ==
  \/ \E m \in Models : Load(k, m)
  \/ Unload(k)
  \/ \E w \in Wants : Ensure(k, w) \/ Grow(k, w)

HostNext == \E k \in Cmds : Begin(k) \/ Proceed(k)

(* A command that has started keeps running: each is a blocking thread.    *)
(* Nothing obliges the user to start one.                                  *)
HostFair == \A k \in Cmds : WF_hostVars(Proceed(k))

HostSpec ==
  /\ HostInit
  /\ [][HostNext]_hostVars
  /\ HostFair

-----------------------------------------------------------------------------
(* Properties.                                                             *)

(* Every variable keeps its type.  Who else may hold the mutex is for the  *)
(* modules that extend this one to say.                                    *)
HostShape ==
  /\ runtime \in MaybeLoaded
  /\ generating \in BOOLEAN
  /\ mirror \in MaybeLoaded
  /\ package \in MaybeModel
  /\ saved \in MaybeModel
  /\ cmd \in [Cmds -> CmdState]
  /\ issued \in Nat

HostTypeOK == holder \in Cmds \cup {Free} /\ HostShape

(* No command is part way through an operation.                            *)
Quiescent == \A k \in Cmds : At(k, "idle")

(* The mirror is "kept in step by load and unload" and capabilities        *)
(* resolve against the model that is really loaded: with no command in     *)
(* flight the mirror shows what the runtime holds and its own package is   *)
(* on record, whichever of the failure paths the last command took.  So    *)
(* with one command at a time; two at once may publish in the other order  *)
(* than they used the runtime.                                             *)
StatusInStep ==
  Quiescent => /\ mirror = runtime
               /\ runtime # NoModel => package = runtime.model

(* The floor of an agent never inflates a model past its own maximum,      *)
(* however many loads, reloads and restores have gone before.              *)
ContextNeverInflated ==
  \A x \in {runtime, mirror} : x # NoModel => x.ctx <= OwnMaximum(x.model)

(* What a reload reports is loaded: a launch that was told its floor is    *)
(* met gets a model that meets it, whatever memory the reload found, and   *)
(* nobody's model is exchanged for another.  Without a certificate a grow  *)
(* that reloads never leaves less context than there was.                  *)
ReloadDelivers ==
  \A k \in Cmds :
    LET c == cmd[k] IN
      /\ c.pc = "idle" /\ c.op \in {"ensure", "grow"} /\ c.result = "ok" /\ ~c.restoring
         => /\ runtime = c.info
            /\ runtime.model = c.prior.model
            /\ Certified[runtime.model] = 0 => runtime.ctx >= c.prior.ctx
            /\ c.op = "ensure" => runtime.ctx >= c.wanted

(* Not so of the code: "Grows the context towards `wanted`".  The reload   *)
(* of a certified model is cut down to the memory there is now, and a grow *)
(* answers Ok with whatever came of it, less than before included.         *)
GrowNeverShrinks ==
  \A k \in Cmds :
    At(k, "idle") /\ cmd[k].op = "grow" /\ cmd[k].result = "ok"
      => cmd[k].info.ctx >= cmd[k].prior.ctx

(* A reload command ends with no model only when the reload and the        *)
(* attempt to restore have both failed.                                    *)
ReloadKeepsAModel ==
  [][\A k \in Cmds :
       cmd[k].op \in {"ensure", "grow"} /\ ~At(k, "idle") /\ At(k, "idle")'
         => (runtime' = NoModel => cmd[k].restoring /\ cmd'[k].result = "err")]_hostVars
=============================================================================
