---------------------------- MODULE Loading_proofs ----------------------------
(***************************************************************************)
(* Proofs about three parts that MCLoading composes.  ModelHost: no        *)
(* model is ever loaded, or reported, past the context it is entitled to,  *)
(* for any number of commands side by side; with commands one at a time,   *)
(* the mirror and the package on record follow the runtime, a reload loses *)
(* the model only when restoring it failed too, and what a reload reports  *)
(* is what it left loaded.  LayaRouter: no caller of the classifier ever   *)
(* takes another request's answer for its own, for any number of turns and *)
(* namers, any pipe and any behaviour of the sidecar.  Placement: for any  *)
(* machine and any models, what is planned fits the card and the memory it *)
(* was planned for.  Recommendation: more memory never costs a model its   *)
(* recommendation, nor, but for one drop, its score; and a certificate     *)
(* refuses a load only when it is another version's.                       *)
(***************************************************************************)
EXTENDS MCLoading, FiniteSetTheorems, WellFoundedInduction, TLAPS

-----------------------------------------------------------------------------
(* The host: the inductive invariant.                                      *)

(* A loaded model within its own maximum.                                  *)
Fits(x) == x # NoModel => x.ctx <= OwnMaximum(x.model)

(* A command that is about to load knows what, and one that is about to    *)
(* publish was given a model that fits.                                    *)
CommandInv ==
  \A k \in Cmds :
    /\ cmd[k].pc \in {"package", "prepare", "loading", "publish", "publish_failure"}
         => cmd[k].target \in Models
    /\ cmd[k].pc = "acquire" /\ cmd[k].op # "unload" => cmd[k].target \in Models
    /\ cmd[k].pc \in {"forget_package", "unpublish"} => cmd[k].op = "unload"
    /\ cmd[k].pc = "publish" => Fits(cmd[k].info)

HostInv == HostTypeOK /\ CommandInv /\ Fits(runtime) /\ Fits(mirror)

-----------------------------------------------------------------------------
(* Lemmas about the operators.                                             *)

(* Whatever the floor, the context a load settles on is the model's own.   *)
LEMMA LoadFits ==
  ASSUME NEW m \in Models, NEW floor \in Nat
  PROVE  \A ctx \in LoadContexts(m, floor) : ctx \in Nat /\ ctx <= OwnMaximum(m)
BY ContextAssumption DEF LoadContexts, PlanContext, OwnMaximum, Smaller, Larger

(* Some context is always settled on.                                      *)
LEMMA SomeContext ==
  ASSUME NEW m \in Models, NEW floor \in Nat
  PROVE  \E ctx : ctx \in LoadContexts(m, floor)
<1>1. CASE Certified[m] > 0
  <2>1. Certified[m] \in LoadContexts(m, floor)
    BY <1>1, ContextAssumption DEF LoadContexts
  <2> QED BY <2>1
<1>2. CASE ~(Certified[m] > 0)
  BY <1>2 DEF LoadContexts
<1> QED BY <1>1, <1>2

(* What a load leaves of its command is a command, about to restore the    *)
(* same model or done.                                                     *)
LEMMA AfterLoad ==
  ASSUME NEW c \in CmdState
  PROVE  /\ AfterFailedLoad(c) \in CmdState
         /\ AfterFailedLoad(c).pc \in {"prepare", "idle"}
         /\ AfterFailedLoad(c).target = c.target
         /\ AfterGoodLoad(c) \in CmdState
         /\ AfterGoodLoad(c).pc = "idle"
BY DEF CmdState, AfterFailedLoad, AfterGoodLoad, Returned, Pcs, Results, MaybeLoaded

(* A thread before its first operation is a command.                       *)
LEMMA BlankIsCommand == Blank \in CmdState
BY DEF Blank, CmdState, Pcs, Ops, Results, MaybeModel, MaybeLoaded

(* Starting an operation loads and publishes nothing.                      *)
LEMMA IssueKeeps ==
  ASSUME HostInv, NEW k \in Cmds, NEW c \in CmdState,
         c.pc \in {"idle", "package", "prepare", "forget_package"},
         c.pc \in {"package", "prepare"} => c.target \in Models,
         c.pc = "forget_package" => c.op = "unload",
         Issue(k, c), saved' \in MaybeModel
  PROVE  HostInv'
BY DEF HostInv, HostTypeOK, HostShape, CommandInv, Fits, Issue, At

(* A step of command k that leaves runtime and mirror alone.               *)
LEMMA LocalStep ==
  ASSUME HostInv, NEW k \in Cmds, NEW c \in CmdState, cmd' = [cmd EXCEPT ![k] = c],
         c.pc \in {"package", "prepare", "loading", "publish_failure"} => c.target \in Models,
         c.pc = "acquire" /\ c.op # "unload" => c.target \in Models,
         c.pc \in {"forget_package", "unpublish"} => c.op = "unload",
         c.pc # "publish",
         UNCHANGED <<runtime, mirror, generating, issued>>,
         holder' \in Cmds \cup {Free}, package' \in MaybeModel, saved' \in MaybeModel
  PROVE  HostInv'
BY DEF HostInv, HostTypeOK, HostShape, CommandInv, Fits

-----------------------------------------------------------------------------
(* The actions.                                                            *)

(* Loads, unloads and reloads are started with a target they may load.     *)
LEMMA BeginKeeps ==
  ASSUME HostInv, NEW k \in Cmds, Begin(k) PROVE HostInv'
<1>t. mirror \in MaybeLoaded /\ saved \in MaybeModel
  BY DEF HostInv, HostTypeOK, HostShape
<1>1. ASSUME NEW m \in Models, Load(k, m) PROVE HostInv'
  <2> DEFINE c == [Blank EXCEPT !.op = "load", !.target = m, !.pc = "prepare"]
  <2>1. c \in CmdState /\ c.pc = "prepare" /\ c.target = m
    BY BlankIsCommand DEF CmdState, Pcs, Ops, MaybeModel, Blank
  <2>2. Issue(k, c) /\ saved' \in MaybeModel
    BY <1>1, <1>t DEF Load
  <2> HIDE DEF c
  <2> QED BY <2>1, <2>2, IssueKeeps
<1>2. ASSUME Unload(k) PROVE HostInv'
  <2> DEFINE c == [Blank EXCEPT !.op = "unload", !.pc = "forget_package"]
  <2>1. c \in CmdState /\ c.pc = "forget_package" /\ c.op = "unload"
    BY BlankIsCommand DEF CmdState, Pcs, Ops, Blank
  <2>2. Issue(k, c) /\ saved' \in MaybeModel
    BY <1>2, <1>t DEF Unload, MaybeModel
  <2> HIDE DEF c
  <2> QED BY <2>1, <2>2, IssueKeeps
<1>3. ASSUME NEW w \in Wants, Ensure(k, w) PROVE HostInv'
  <2> DEFINE b == [Blank EXCEPT !.op = "ensure", !.wanted = w, !.prior = mirror]
             c == IF mirror = NoModel THEN Returned(b, "err", NoModel)
                  ELSE IF mirror.ctx >= w THEN Returned(b, "ok", mirror)
                  ELSE [b EXCEPT !.pc = "package", !.target = mirror.model, !.floor = w]
  <2>1. c \in CmdState /\ c.pc \in {"idle", "package"}
          /\ (c.pc = "package" => c.target \in Models)
    BY <1>t, ContextAssumption
    DEF CmdState, Pcs, Ops, Results, MaybeModel, MaybeLoaded, LoadedInfo, Returned, Blank
  <2>2. Issue(k, c) /\ saved' \in MaybeModel
    BY <1>3, <1>t DEF Ensure
  <2> HIDE DEF c
  <2> QED BY <2>1, <2>2, IssueKeeps
<1>4. ASSUME NEW w \in Wants, Grow(k, w) PROVE HostInv'
  <2> DEFINE b == [Blank EXCEPT !.op = "grow", !.wanted = w, !.prior = mirror]
             goal == IF Trained[mirror.model] > 0
                     THEN Smaller(w, Trained[mirror.model]) ELSE w
             c == IF mirror = NoModel THEN Returned(b, "err", NoModel)
                  ELSE IF mirror.ctx >= w \/ goal <= mirror.ctx
                       THEN Returned(b, "ok", mirror)
                  ELSE [b EXCEPT !.pc = "package", !.target = mirror.model, !.floor = goal]
  <2>0. mirror # NoModel => goal \in Nat
    BY <1>t, ContextAssumption DEF Smaller, MaybeLoaded, LoadedInfo
  <2>1. c \in CmdState /\ c.pc \in {"idle", "package"}
          /\ (c.pc = "package" => c.target \in Models)
    <3> HIDE DEF goal
    <3> QED
      BY <1>t, <2>0, ContextAssumption
      DEF CmdState, Pcs, Ops, Results, MaybeModel, MaybeLoaded, LoadedInfo, Returned, Blank
  <2>2. Issue(k, c) /\ saved' \in MaybeModel
    BY <1>4, <1>t DEF Grow
  <2> HIDE DEF c
  <2> QED BY <2>1, <2>2, IssueKeeps
<1> QED BY <1>1, <1>2, <1>3, <1>4 DEF Begin

(* A step of an operation under way.  Only LoadRuntime makes a model, and  *)
(* only PublishLoaded shows one.                                           *)
LEMMA ProceedKeeps ==
  ASSUME HostInv, NEW k \in Cmds, Proceed(k) PROVE HostInv'
<1>t. /\ holder \in Cmds \cup {Free} /\ cmd \in [Cmds -> CmdState] /\ cmd[k] \in CmdState
      /\ runtime \in MaybeLoaded /\ mirror \in MaybeLoaded
      /\ package \in MaybeModel /\ saved \in MaybeModel
      /\ generating \in BOOLEAN /\ issued \in Nat
  BY DEF HostInv, HostTypeOK, HostShape
<1>i. /\ cmd[k].pc \in {"package", "prepare", "loading", "publish", "publish_failure"}
           => cmd[k].target \in Models
      /\ cmd[k].pc = "acquire" /\ cmd[k].op # "unload" => cmd[k].target \in Models
      /\ cmd[k].pc \in {"forget_package", "unpublish"} => cmd[k].op = "unload"
      /\ cmd[k].pc = "publish" => Fits(cmd[k].info)
  BY DEF HostInv, CommandInv
<1>1. ASSUME CheckPackage(k) PROVE HostInv'
  <2> DEFINE d == cmd[k]
             refused == \/ package = NoModel
                        \/ Trained[d.target] > 0 /\ Trained[d.target] < d.wanted
             c == CASE d.op = "ensure" /\ refused -> Returned(d, "err", NoModel)
                    [] d.op = "grow" /\ package = NoModel -> Returned(d, "ok", d.prior)
                    [] OTHER -> [d EXCEPT !.pc = "prepare"]
  <2>1. cmd' = [cmd EXCEPT ![k] = c]
    BY <1>1 DEF CheckPackage
  <2>2. d \in CmdState
    BY <1>t
  <2>3. c \in CmdState /\ (c.pc = "idle" \/ (c.pc = "prepare" /\ c.target = d.target))
    <3> HIDE DEF d, refused
    <3> QED BY <2>2 DEF Returned, CmdState, Pcs, Results, MaybeLoaded
  <2>4. d.target \in Models
    BY <1>1, <1>i DEF CheckPackage, At
  <2> HIDE DEF c, d
  <2> QED BY <1>1, <2>1, <2>3, <2>4, <1>t, LocalStep DEF CheckPackage
<1>2. ASSUME Prepare(k) PROVE HostInv'
  <2> PICK c \in CmdState :
        /\ cmd' = [cmd EXCEPT ![k] = c]
        /\ c.pc \in {"idle", "prepare", "acquire"} /\ c.target = cmd[k].target
    <3>1. CASE cmd' = [cmd EXCEPT ![k].pc = "acquire"]
      <4> DEFINE d == [cmd[k] EXCEPT !.pc = "acquire"]
      <4>1. cmd' = [cmd EXCEPT ![k] = d]
        BY <3>1
      <4>2. d \in CmdState /\ d.pc = "acquire" /\ d.target = cmd[k].target
        BY <1>t DEF CmdState, Pcs
      <4> HIDE DEF d
      <4> QED BY <4>1, <4>2
    <3>2. CASE cmd' = [cmd EXCEPT ![k] = AfterFailedLoad(@)]
      BY <3>2, <1>t, AfterLoad
    <3> QED BY <3>1, <3>2, <1>2 DEF Prepare
  <2> QED BY <1>2, <1>t, <1>i, LocalStep DEF Prepare, At
<1>3. ASSUME Acquire(k) PROVE HostInv'
  <2> DEFINE c == [cmd[k] EXCEPT !.pc = IF cmd[k].op = "unload" THEN "unloading" ELSE "loading"]
  <2>1. /\ c \in CmdState /\ c.target = cmd[k].target
        /\ c.pc = "unloading" \/ (c.pc = "loading" /\ cmd[k].op # "unload")
        /\ cmd' = [cmd EXCEPT ![k] = c]
    BY <1>3, <1>t DEF Acquire, At, CmdState, Pcs
  <2> HIDE DEF c
  <2> QED BY <1>3, <2>1, <1>t, <1>i, LocalStep DEF Acquire, At
<1>4. ASSUME LoadRuntime(k) PROVE HostInv'
  <2>0. cmd[k].target \in Models /\ cmd[k].floor \in Nat
    BY <1>4, <1>t, <1>i DEF LoadRuntime, At, CmdState
  <2>c. PICK ctx \in LoadContexts(cmd[k].target, cmd[k].floor) :
          \/ /\ runtime' = [model |-> cmd[k].target, ctx |-> ctx]
             /\ cmd' = [cmd EXCEPT ![k].pc = "publish",
                                   ![k].info = [model |-> cmd[k].target, ctx |-> ctx]]
          \/ runtime' = NoModel /\ cmd' = [cmd EXCEPT ![k].pc = "publish_failure"]
    BY <1>4, <2>0, SomeContext DEF LoadRuntime
  <2> DEFINE info == [model |-> cmd[k].target, ctx |-> ctx]
  <2>1. info \in LoadedInfo /\ Fits(info) /\ cmd[k].target \in Models
    BY <2>0, <2>c, LoadFits DEF LoadedInfo, Fits
  <2>2. /\ holder' = Free /\ mirror' = mirror /\ package' = package /\ saved' = saved
        /\ issued' = issued /\ generating' \in BOOLEAN
    BY <1>4, <1>t DEF LoadRuntime
  <2>3. \/ runtime' = info /\ cmd' = [cmd EXCEPT ![k].pc = "publish", ![k].info = info]
        \/ runtime' = NoModel /\ cmd' = [cmd EXCEPT ![k].pc = "publish_failure"]
    BY <2>c
  <2> HIDE DEF info
  <2>4. /\ runtime' \in MaybeLoaded /\ Fits(runtime')
        /\ cmd' \in [Cmds -> CmdState]
    BY <2>1, <2>3, <1>t DEF MaybeLoaded, Fits, CmdState, Pcs
  <2>5. /\ \A i \in Cmds \ {k} : cmd'[i] = cmd[i]
        /\ cmd'[k].target = cmd[k].target
        /\ cmd'[k].pc = "publish_failure" \/ (cmd'[k].pc = "publish" /\ cmd'[k].info = info)
    BY <2>3, <1>t DEF CmdState
  <2>6. CommandInv'
    BY <2>1, <2>5 DEF HostInv, CommandInv, Fits
  <2> QED BY <2>2, <2>4, <2>6, <1>t DEF HostInv, HostTypeOK, HostShape, Fits
<1>5. ASSUME PublishFailure(k) PROVE HostInv'
  <2>1. PICK c \in CmdState :
          /\ cmd' = [cmd EXCEPT ![k] = c]
          /\ c.pc \in {"idle", "prepare"} /\ c.target = cmd[k].target
    BY <1>5, <1>t, AfterLoad DEF PublishFailure
  <2>2. /\ \A i \in Cmds \ {k} : cmd'[i] = cmd[i]
        /\ cmd'[k] = c /\ cmd' \in [Cmds -> CmdState]
    BY <2>1, <1>t
  <2>3. CommandInv'
    BY <1>5, <1>i, <2>1, <2>2 DEF HostInv, CommandInv, PublishFailure, At, Fits
  <2> QED
    BY <1>5, <1>t, <2>2, <2>3
    DEF PublishFailure, HostInv, HostTypeOK, HostShape, Fits, MaybeLoaded
<1>6. ASSUME PublishLoaded(k) PROVE HostInv'
  <2>1. /\ cmd' \in [Cmds -> CmdState] /\ cmd[k].info \in MaybeLoaded
        /\ cmd'[k].pc = "record_package"
        /\ \A i \in Cmds \ {k} : cmd'[i] = cmd[i]
    BY <1>6, <1>t DEF PublishLoaded, CmdState, Pcs
  <2>2. CommandInv'
    BY <2>1 DEF HostInv, CommandInv, Fits
  <2>3. Fits(mirror')
    BY <1>6, <1>i DEF PublishLoaded, At
  <2> QED
    BY <1>6, <1>t, <2>1, <2>2, <2>3
    DEF PublishLoaded, HostInv, HostTypeOK, HostShape, Fits
<1>7. ASSUME RecordPackage(k) PROVE HostInv'
  <2> DEFINE c == [cmd[k] EXCEPT !.pc = "save"]
  <2>1. c \in CmdState /\ c.pc = "save" /\ cmd' = [cmd EXCEPT ![k] = c]
    BY <1>7, <1>t DEF RecordPackage, CmdState, Pcs
  <2>2. package' \in MaybeModel
    BY <1>7, <1>t DEF RecordPackage, CmdState
  <2> HIDE DEF c
  <2> QED BY <1>7, <2>1, <2>2, <1>t, LocalStep DEF RecordPackage
<1>8. ASSUME SaveSession(k) PROVE HostInv'
  <2>1. AfterGoodLoad(cmd[k]) \in CmdState /\ AfterGoodLoad(cmd[k]).pc = "idle"
    BY <1>t, AfterLoad
  <2>2. /\ cmd' = [cmd EXCEPT ![k] = AfterGoodLoad(cmd[k])]
        /\ saved' \in MaybeModel
    BY <1>8, <1>t DEF SaveSession, CmdState, MaybeModel
  <2> QED BY <1>8, <2>1, <2>2, <1>t, LocalStep DEF SaveSession
<1>9. ASSUME ForgetPackage(k) PROVE HostInv'
  <2> DEFINE c == [cmd[k] EXCEPT !.pc = "unpublish"]
  <2>1. c \in CmdState /\ c.pc = "unpublish" /\ c.op = cmd[k].op /\ cmd' = [cmd EXCEPT ![k] = c]
    BY <1>9, <1>t DEF ForgetPackage, CmdState, Pcs
  <2> HIDE DEF c
  <2> QED BY <1>9, <2>1, <1>t, <1>i, LocalStep DEF ForgetPackage, At, MaybeModel
<1>10. ASSUME Unpublish(k) PROVE HostInv'
  <2>1. /\ cmd' \in [Cmds -> CmdState]
        /\ cmd'[k].pc = "acquire" /\ cmd'[k].op = "unload"
        /\ \A i \in Cmds \ {k} : cmd'[i] = cmd[i]
    BY <1>10, <1>t, <1>i DEF Unpublish, At, CmdState, Pcs
  <2>2. CommandInv'
    BY <2>1 DEF HostInv, CommandInv, Fits
  <2> QED
    BY <1>10, <1>t, <2>1, <2>2
    DEF Unpublish, HostInv, HostTypeOK, HostShape, Fits, MaybeLoaded
<1>11. ASSUME UnloadRuntime(k) PROVE HostInv'
  <2>1. /\ cmd' \in [Cmds -> CmdState]
        /\ cmd'[k].pc = "idle"
        /\ \A i \in Cmds \ {k} : cmd'[i] = cmd[i]
    BY <1>11, <1>t DEF UnloadRuntime, Returned, CmdState, Pcs, Results, MaybeLoaded
  <2>2. CommandInv'
    BY <2>1 DEF HostInv, CommandInv, Fits
  <2> QED
    BY <1>11, <1>t, <2>1, <2>2
    DEF UnloadRuntime, HostInv, HostTypeOK, HostShape, Fits, MaybeLoaded
<1> QED
  BY <1>1, <1>2, <1>3, <1>4, <1>5, <1>6, <1>7, <1>8, <1>9, <1>10, <1>11 DEF Proceed

-----------------------------------------------------------------------------
(* Theorems.                                                               *)

(* HostInv holds before the first command and is kept by every step.        *)
LEMMA HostStart == HostInit => HostInv
<1> SUFFICES ASSUME HostInit PROVE HostInv
  OBVIOUS
<1>1. HostTypeOK
  BY BlankIsCommand DEF HostInit, HostTypeOK, HostShape, MaybeLoaded, MaybeModel
<1>2. CommandInv
  BY DEF HostInit, CommandInv, Blank
<1>3. Fits(runtime) /\ Fits(mirror)
  BY DEF HostInit, Fits
<1> QED BY <1>1, <1>2, <1>3 DEF HostInv

(* Whichever command moves.                                                *)
LEMMA HostStep == HostInv /\ [HostNext]_hostVars => HostInv'
<1> SUFFICES ASSUME HostInv, [HostNext]_hostVars PROVE HostInv'
  OBVIOUS
<1>1. ASSUME NEW k \in Cmds, Begin(k) \/ Proceed(k) PROVE HostInv'
  BY <1>1, BeginKeeps, ProceedKeeps
<1>2. CASE UNCHANGED hostVars
  BY <1>2 DEF hostVars, HostInv, HostTypeOK, HostShape, CommandInv, Fits
<1> QED BY <1>1, <1>2 DEF HostNext

(* HostInv is an invariant.                                                *)
THEOREM HostInvariance == HostSpec => []HostInv
BY HostStart, HostStep, PTL DEF HostSpec

(* Every behaviour of the model host keeps its types, whatever commands    *)
(* run side by side.                                                       *)
THEOREM HostTypeCorrect == HostSpec => []HostTypeOK
<1>1. HostInv => HostTypeOK
  BY DEF HostInv
<1> QED BY <1>1, HostInvariance, PTL

(* No load, reload or restore, in any interleaving, loads or reports a     *)
(* model past the context its profile or certificate allows.               *)
THEOREM ContextWithinMaximum == HostSpec => []ContextNeverInflated
<1>1. HostInv => ContextNeverInflated
  BY DEF HostInv, ContextNeverInflated, Fits
<1> QED BY <1>1, HostInvariance, PTL

-----------------------------------------------------------------------------
(* One command at a time.  No lock spans an operation, so what follows is  *)
(* promised only while no two are in flight: the status, the package on    *)
(* record and the runtime agree, and a reload delivers or restores.        *)

OneAtATime == \A j, k \in Cmds : ~At(j, "idle") /\ ~At(k, "idle") => j = k

Reloads == {"ensure", "grow"}

InStep == mirror = runtime /\ (runtime # NoModel => package = runtime.model)

(* How far the one command in flight has brought the copies out of step.   *)
LoneCommand(c) ==
  /\ c.pc \in {"package", "prepare", "forget_package"} => InStep
  /\ c.pc = "package" => c.op \in Reloads /\ ~c.restoring
  /\ c.pc = "prepare" => c.op # "unload"
  /\ c.pc = "acquire" /\ c.op # "unload" => InStep
  /\ c.pc = "publish_failure" => runtime = NoModel
  /\ c.pc \in {"publish", "record_package", "save"} =>
       runtime = c.info /\ runtime # NoModel /\ runtime.model = c.target
  /\ c.pc \in {"record_package", "save"} => mirror = runtime
  /\ c.pc = "save" => package = c.target
  /\ c.pc = "acquire" /\ c.op = "unload" => mirror = NoModel
  /\ c.pc = "unloading" => mirror = NoModel /\ c.op = "unload"

(* A reload not yet restoring still has what it started from, or already   *)
(* has as much of the same model.                                          *)
LoneReload(c) ==
  c.op \in Reloads /\ ~c.restoring =>
    /\ c.pc \in {"package", "prepare", "acquire", "loading"} =>
         /\ runtime = c.prior /\ c.prior # NoModel
         /\ c.target = c.prior.model /\ c.floor >= c.prior.ctx
    /\ c.pc \in {"publish", "record_package", "save"} =>
         /\ c.prior # NoModel /\ c.info.model = c.prior.model
         /\ Certified[c.prior.model] = 0 => c.info.ctx >= c.prior.ctx

LoneInv ==
  /\ \A k \in Cmds : LoneCommand(cmd[k]) /\ LoneReload(cmd[k])
  /\ Quiescent => InStep

(* Without a certificate a reload reaches at least the context it started  *)
(* from: the floor is no less, and neither is the model's own maximum.     *)
LEMMA ReloadReaches ==
  ASSUME NEW m \in Models, NEW floor \in Nat, NEW ctx \in Nat,
         floor >= ctx, ctx <= OwnMaximum(m), Certified[m] = 0
  PROVE  \A reached \in LoadContexts(m, floor) : reached >= ctx
BY ContextAssumption DEF LoadContexts, PlanContext, OwnMaximum, Smaller, Larger

(* The step of command k, all others being at rest.                        *)
LEMMA LoneMove ==
  ASSUME NEW k \in Cmds, \A j \in Cmds \ {k} : cmd'[j] = cmd[j] /\ At(j, "idle"),
         NEW c, cmd'[k] = c, LoneCommand(c)', LoneReload(c)', c.pc = "idle" => InStep'
  PROVE  LoneInv'
<1>1. ASSUME NEW j \in Cmds \ {k} PROVE (LoneCommand(cmd[j]) /\ LoneReload(cmd[j]))'
  BY <1>1 DEF LoneCommand, LoneReload, At
<1> QED BY <1>1 DEF LoneInv, Quiescent, At

(* Starting an operation: one that returns at once changes nothing; one    *)
(* that goes on finds everything in step.                                  *)
LEMMA LoneBegin ==
  ASSUME HostInv, OneAtATime', LoneInv, NEW k \in Cmds, Begin(k)
  PROVE  LoneInv'
<1>t. /\ cmd \in [Cmds -> CmdState] /\ mirror \in MaybeLoaded
      /\ mirror # NoModel => mirror.model \in Models /\ mirror.ctx \in Nat
      /\ NoModel \notin LoadedInfo
  BY NoModelAssumption DEF HostInv, HostTypeOK, HostShape, MaybeLoaded, LoadedInfo
<1>1. ASSUME NEW c, Issue(k, c),
             c.pc = "idle" \/ (InStep => LoneCommand(c) /\ LoneReload(c))
      PROVE  LoneInv'
  <2>0. /\ UNCHANGED <<runtime, mirror, package>> /\ At(k, "idle")
        /\ cmd'[k] = c /\ \A j \in Cmds \ {k} : cmd'[j] = cmd[j]
    BY <1>1, <1>t DEF Issue
  <2>s. /\ InStep' <=> InStep
        /\ LoneCommand(c)' <=> LoneCommand(c)
        /\ LoneReload(c)' <=> LoneReload(c)
    BY <2>0 DEF InStep, LoneCommand, LoneReload
  <2>1. CASE c.pc = "idle"
    <3>1. ASSUME NEW j \in Cmds PROVE (LoneCommand(cmd[j]) /\ LoneReload(cmd[j]))'
      <4>1. CASE j = k
        BY <4>1, <2>0, <2>1 DEF LoneCommand, LoneReload
      <4>2. CASE j # k
        BY <4>2, <2>0 DEF LoneInv, LoneCommand, LoneReload, InStep
      <4> QED BY <4>1, <4>2
    <3>2. Quiescent' => Quiescent
      BY <2>0, <2>1 DEF Quiescent, At
    <3> QED BY <3>1, <3>2, <2>s DEF LoneInv
  <2>2. CASE c.pc # "idle"
    <3>1. \A j \in Cmds \ {k} : At(j, "idle")
      BY <2>0, <2>2 DEF OneAtATime, At
    <3>2. InStep
      BY <3>1, <2>0 DEF LoneInv, Quiescent
    <3> QED BY <1>1, <2>0, <2>2, <2>s, <3>1, <3>2, LoneMove
  <2> QED BY <2>1, <2>2
<1>2. ASSUME NEW m \in Models, Load(k, m) PROVE LoneInv'
  <2> DEFINE c == [Blank EXCEPT !.op = "load", !.target = m, !.pc = "prepare"]
  <2>1. c.pc = "prepare" /\ c.op = "load"
    BY DEF Blank
  <2>2. Issue(k, c)
    BY <1>2 DEF Load
  <2> HIDE DEF c
  <2> QED BY <1>1, <2>1, <2>2 DEF LoneCommand, LoneReload, Reloads
<1>3. ASSUME Unload(k) PROVE LoneInv'
  <2> DEFINE c == [Blank EXCEPT !.op = "unload", !.pc = "forget_package"]
  <2>1. c.pc = "forget_package" /\ c.op = "unload"
    BY DEF Blank
  <2>2. Issue(k, c)
    BY <1>3 DEF Unload
  <2> HIDE DEF c
  <2> QED BY <1>1, <2>1, <2>2 DEF LoneCommand, LoneReload, Reloads
<1>4. ASSUME NEW w \in Wants, Ensure(k, w) PROVE LoneInv'
  <2> DEFINE b == [Blank EXCEPT !.op = "ensure", !.wanted = w, !.prior = mirror]
             c == IF mirror = NoModel THEN Returned(b, "err", NoModel)
                  ELSE IF mirror.ctx >= w THEN Returned(b, "ok", mirror)
                  ELSE [b EXCEPT !.pc = "package", !.target = mirror.model, !.floor = w]
  <2>1. \/ c.pc = "idle"
        \/ /\ c.pc = "package" /\ c.prior = mirror /\ mirror # NoModel
           /\ c.op = "ensure" /\ ~c.restoring /\ c.target = mirror.model /\ c.floor = w /\ ~(mirror.ctx >= w)
    BY DEF Blank, Returned
  <2>2. Issue(k, c)
    BY <1>4 DEF Ensure
  <2>3. w \in Nat
    BY ContextAssumption
  <2> HIDE DEF c
  <2>4. c.pc = "package" /\ InStep => LoneCommand(c) /\ LoneReload(c)
    BY <2>1, <2>3, <1>t DEF LoneCommand, LoneReload, InStep, Reloads
  <2> QED BY <1>1, <2>1, <2>2, <2>4
<1>5. ASSUME NEW w \in Wants, Grow(k, w) PROVE LoneInv'
  <2> DEFINE b == [Blank EXCEPT !.op = "grow", !.wanted = w, !.prior = mirror]
             goal == IF Trained[mirror.model] > 0
                     THEN Smaller(w, Trained[mirror.model]) ELSE w
             c == IF mirror = NoModel THEN Returned(b, "err", NoModel)
                  ELSE IF mirror.ctx >= w \/ goal <= mirror.ctx
                       THEN Returned(b, "ok", mirror)
                  ELSE [b EXCEPT !.pc = "package", !.target = mirror.model, !.floor = goal]
  <2>3. mirror # NoModel => goal \in Nat
    BY <1>t, ContextAssumption DEF Smaller
  <2>2. Issue(k, c)
    BY <1>5 DEF Grow
  <2> HIDE DEF goal
  <2>1. \/ c.pc = "idle"
        \/ /\ c.pc = "package" /\ c.prior = mirror /\ mirror # NoModel
           /\ c.op = "grow" /\ ~c.restoring /\ c.target = mirror.model /\ c.floor = goal /\ ~(goal <= mirror.ctx)
    BY DEF Blank, Returned
  <2> HIDE DEF c
  <2>4. c.pc = "package" /\ InStep => LoneCommand(c) /\ LoneReload(c)
    BY <2>1, <2>3, <1>t DEF LoneCommand, LoneReload, InStep, Reloads
  <2> QED BY <1>1, <2>1, <2>2, <2>4
<1> QED BY <1>2, <1>3, <1>4, <1>5 DEF Begin

(* What a failed load leaves: the same command, restoring or returned with *)
(* an error.                                                               *)
LEMMA FailedLeaves ==
  ASSUME NEW c \in CmdState
  PROVE  \/ /\ AfterFailedLoad(c).pc = "prepare" /\ AfterFailedLoad(c).restoring
            /\ AfterFailedLoad(c).op = c.op /\ c.op \in Reloads
         \/ /\ AfterFailedLoad(c).pc = "idle" /\ AfterFailedLoad(c).result = "err"
            /\ AfterFailedLoad(c).op = c.op /\ AfterFailedLoad(c).restoring = c.restoring
            /\ c.op \in Reloads => c.restoring
BY DEF CmdState, AfterFailedLoad, Returned, Reloads

(* Every step of the command in flight.                                    *)
LEMMA LoneProceed ==
  ASSUME HostInv, OneAtATime, LoneInv, NEW k \in Cmds, Proceed(k)
  PROVE  LoneInv'
<1> DEFINE c == cmd[k]
<1>t. /\ cmd \in [Cmds -> CmdState] /\ c \in CmdState
      /\ runtime \in MaybeLoaded /\ mirror \in MaybeLoaded /\ NoModel \notin LoadedInfo
      /\ \A x \in LoadedInfo : x.model \in Models /\ x.ctx \in Nat
      /\ NoModel \notin Models
  BY NoModelAssumption DEF HostInv, HostTypeOK, HostShape, MaybeLoaded, LoadedInfo
<1>i. LoneCommand(c) /\ LoneReload(c)
  BY DEF LoneInv
<1>n. ~At(k, "idle")
  BY DEF Proceed, CheckPackage, Prepare, Acquire, LoadRuntime, PublishFailure, PublishLoaded,
         RecordPackage, SaveSession, ForgetPackage, Unpublish, UnloadRuntime, At
<1>o. \A j \in Cmds \ {k} : At(j, "idle")
  BY <1>n DEF OneAtATime
<1>m. ASSUME NEW d, cmd' = [cmd EXCEPT ![k] = d],
             LoneCommand(d)', LoneReload(d)', d.pc = "idle" => InStep'
      PROVE  LoneInv'
  <2>1. cmd'[k] = d /\ \A j \in Cmds \ {k} : cmd'[j] = cmd[j]
    BY <1>m, <1>t
  <2> QED BY <1>m, <2>1, <1>o, LoneMove
<1>1. CASE CheckPackage(k)
  <2>1. c.pc = "package" /\ UNCHANGED <<runtime, mirror, package>>
    BY <1>1 DEF CheckPackage, At
  <2>2. PICK d : /\ cmd' = [cmd EXCEPT ![k] = d]
                 /\ \/ d.pc = "idle"
                    \/ d.pc = "prepare" /\ d.op = c.op /\ d.restoring = c.restoring
                       /\ d.prior = c.prior /\ d.target = c.target /\ d.floor = c.floor
    <3> DEFINE unreachable == Trained[c.target] > 0 /\ Trained[c.target] < c.wanted
               e == CASE c.op = "ensure" /\ (package = NoModel \/ unreachable)
                           -> Returned(c, "err", NoModel)
                      [] c.op = "grow" /\ package = NoModel -> Returned(c, "ok", c.prior)
                      [] OTHER -> [c EXCEPT !.pc = "prepare"]
    <3>1. cmd' = [cmd EXCEPT ![k] = e]
      BY <1>1 DEF CheckPackage
    <3> HIDE DEF c, unreachable
    <3>2. \/ e.pc = "idle"
          \/ e.pc = "prepare" /\ e.op = c.op /\ e.restoring = c.restoring
             /\ e.prior = c.prior /\ e.target = c.target /\ e.floor = c.floor
      BY <1>t DEF Returned, CmdState
    <3> HIDE DEF e
    <3> QED BY <3>1, <3>2
  <2> HIDE DEF c
  <2>3. InStep'
    BY <1>i, <2>1 DEF LoneCommand, InStep
  <2>4. LoneCommand(d)' /\ LoneReload(d)'
    BY <1>i, <2>1, <2>2, <2>3 DEF LoneCommand, LoneReload, Reloads
  <2> QED BY <1>m, <2>2, <2>3, <2>4
<1>2. CASE Prepare(k)
  <2>1. c.pc = "prepare" /\ UNCHANGED <<runtime, mirror, package>>
    BY <1>2 DEF Prepare, At
  <2>2. PICK d : /\ cmd' = [cmd EXCEPT ![k] = d]
                 /\ \/ d.pc = "idle"
                    \/ d.pc = "prepare" /\ d.restoring /\ d.op = c.op
                    \/ d.pc = "acquire" /\ d.op = c.op /\ d.restoring = c.restoring
                       /\ d.prior = c.prior /\ d.target = c.target /\ d.floor = c.floor
    <3>1. CASE cmd' = [cmd EXCEPT ![k].pc = "acquire"]
      <4> DEFINE e == [c EXCEPT !.pc = "acquire"]
      <4>1. cmd' = [cmd EXCEPT ![k] = e]
        BY <3>1
      <4>2. e.pc = "acquire" /\ e.op = c.op /\ e.restoring = c.restoring
            /\ e.prior = c.prior /\ e.target = c.target /\ e.floor = c.floor
        BY <1>t DEF CmdState
      <4> HIDE DEF e
      <4> QED BY <4>1, <4>2
    <3>2. CASE cmd' = [cmd EXCEPT ![k] = AfterFailedLoad(@)]
      BY <3>2, <1>t, FailedLeaves
    <3> QED BY <1>2, <3>1, <3>2 DEF Prepare
  <2> HIDE DEF c
  <2>3. InStep'
    BY <1>i, <2>1 DEF LoneCommand, InStep
  <2>4. LoneCommand(d)' /\ LoneReload(d)'
    BY <1>i, <2>1, <2>2, <2>3 DEF LoneCommand, LoneReload, Reloads
  <2> QED BY <1>m, <2>2, <2>3, <2>4
<1>3. CASE Acquire(k)
  <2>1. c.pc = "acquire" /\ UNCHANGED <<runtime, mirror, package>>
    BY <1>3 DEF Acquire, At
  <2>2. PICK d : /\ cmd' = [cmd EXCEPT ![k] = d]
                 /\ d.pc = (IF c.op = "unload" THEN "unloading" ELSE "loading")
                 /\ d.op = c.op /\ d.restoring = c.restoring
                 /\ d.prior = c.prior /\ d.target = c.target /\ d.floor = c.floor
    <3> DEFINE e == [c EXCEPT !.pc = IF c.op = "unload" THEN "unloading" ELSE "loading"]
    <3>1. cmd' = [cmd EXCEPT ![k] = e]
      BY <1>3 DEF Acquire
    <3>2. /\ e.pc = (IF c.op = "unload" THEN "unloading" ELSE "loading")
          /\ e.op = c.op /\ e.restoring = c.restoring
          /\ e.prior = c.prior /\ e.target = c.target /\ e.floor = c.floor
      BY <1>t DEF CmdState
    <3> HIDE DEF e
    <3> QED BY <3>1, <3>2
  <2> HIDE DEF c
  <2>4. LoneCommand(d)' /\ LoneReload(d)'
    BY <1>i, <2>1, <2>2 DEF LoneCommand, LoneReload
  <2> QED BY <1>m, <2>2, <2>4
<1>4. CASE LoadRuntime(k)
  <2>1. c.pc = "loading" /\ UNCHANGED <<mirror, package>> /\ c.target \in Models /\ c.floor \in Nat
    BY <1>4, <1>t DEF LoadRuntime, At, HostInv, CommandInv, CmdState
  <2>c. PICK ctx \in LoadContexts(c.target, c.floor) :
          \/ /\ runtime' = [model |-> c.target, ctx |-> ctx]
             /\ cmd' = [cmd EXCEPT ![k].pc = "publish",
                                   ![k].info = [model |-> c.target, ctx |-> ctx]]
          \/ runtime' = NoModel /\ cmd' = [cmd EXCEPT ![k].pc = "publish_failure"]
    BY <1>4, <2>1, SomeContext DEF LoadRuntime
  <2> DEFINE info == [model |-> c.target, ctx |-> ctx]
  <2>2. PICK d : /\ cmd' = [cmd EXCEPT ![k] = d]
                 /\ d.op = c.op /\ d.restoring = c.restoring
                 /\ d.prior = c.prior /\ d.target = c.target
                 /\ \/ runtime' = info /\ d.info = info /\ d.pc = "publish"
                    \/ runtime' = NoModel /\ d.pc = "publish_failure"
    <3>1. CASE runtime' = info /\ cmd' = [cmd EXCEPT ![k].pc = "publish", ![k].info = info]
      <4> DEFINE e == [c EXCEPT !.pc = "publish", !.info = info]
      <4>1. cmd' = [cmd EXCEPT ![k] = e]
        BY <3>1, <1>t
      <4>2. e.op = c.op /\ e.restoring = c.restoring /\ e.prior = c.prior /\ e.target = c.target
            /\ e.info = info /\ e.pc = "publish"
        BY <1>t DEF CmdState
      <4> HIDE DEF e, info, c
      <4> QED BY <3>1, <4>1, <4>2
    <3>2. CASE runtime' = NoModel /\ cmd' = [cmd EXCEPT ![k].pc = "publish_failure"]
      <4> DEFINE e == [c EXCEPT !.pc = "publish_failure"]
      <4>1. cmd' = [cmd EXCEPT ![k] = e]
        BY <3>2, <1>t
      <4>2. e.op = c.op /\ e.restoring = c.restoring /\ e.prior = c.prior /\ e.target = c.target
            /\ e.pc = "publish_failure"
        BY <1>t DEF CmdState
      <4> HIDE DEF e, info, c
      <4> QED BY <3>2, <4>1, <4>2
    <3> QED BY <2>c, <3>1, <3>2
  <2>3. info \in LoadedInfo
    BY <2>1, <2>c, LoadFits DEF LoadedInfo
  <2>4. c.op \in Reloads /\ ~c.restoring =>
          /\ info.model = c.prior.model /\ c.prior # NoModel
          /\ Certified[c.prior.model] = 0 => info.ctx >= c.prior.ctx
    <3> SUFFICES ASSUME c.op \in Reloads, ~c.restoring
                 PROVE  /\ info.model = c.prior.model /\ c.prior # NoModel
                        /\ Certified[c.prior.model] = 0 => info.ctx >= c.prior.ctx
      OBVIOUS
    <3> HIDE DEF c
    <3>1. /\ runtime = c.prior /\ c.prior # NoModel /\ c.target = c.prior.model
          /\ c.floor >= c.prior.ctx
      BY <1>i, <2>1 DEF LoneReload
    <3>2. c.prior.ctx \in Nat /\ c.prior.ctx <= OwnMaximum(c.target)
      BY <3>1, <1>t DEF HostInv, Fits, MaybeLoaded
    <3> QED BY <2>1, <2>c, <3>1, <3>2, ReloadReaches
  <2>5. info.model = c.target
    OBVIOUS
  <2> HIDE DEF info, c
  <2>6. LoneCommand(d)'
    BY <2>2, <2>3, <2>5, <1>t DEF LoneCommand
  <2>7. LoneReload(d)'
    BY <2>2, <2>4 DEF LoneReload
  <2> QED BY <1>m, <2>2, <2>6, <2>7
<1>5. CASE PublishFailure(k)
  <2>1. c.pc = "publish_failure" /\ UNCHANGED <<runtime, package>> /\ mirror' = NoModel
        /\ cmd' = [cmd EXCEPT ![k] = AfterFailedLoad(c)]
    BY <1>5 DEF PublishFailure, At
  <2>2. PICK d : /\ cmd' = [cmd EXCEPT ![k] = d]
                 /\ \/ d.pc = "idle"
                    \/ d.pc = "prepare" /\ d.restoring /\ d.op \in Reloads
    BY <2>1, <1>t, FailedLeaves
  <2> HIDE DEF c
  <2>3. InStep'
    BY <1>i, <2>1 DEF LoneCommand, InStep
  <2>4. LoneCommand(d)' /\ LoneReload(d)'
    BY <2>2, <2>3 DEF LoneCommand, LoneReload, Reloads
  <2> QED BY <1>m, <2>2, <2>3, <2>4
<1>6. CASE PublishLoaded(k)
  <2>1. c.pc = "publish" /\ UNCHANGED <<runtime, package>> /\ mirror' = c.info
    BY <1>6 DEF PublishLoaded, At
  <2>2. PICK d : /\ cmd' = [cmd EXCEPT ![k] = d] /\ d.pc = "record_package"
                 /\ d.op = c.op /\ d.restoring = c.restoring /\ d.info = c.info
                 /\ d.prior = c.prior /\ d.target = c.target
    <3> DEFINE e == [c EXCEPT !.pc = "record_package"]
    <3>1. cmd' = [cmd EXCEPT ![k] = e]
      BY <1>6 DEF PublishLoaded
    <3>2. /\ e.pc = "record_package" /\ e.op = c.op /\ e.restoring = c.restoring
          /\ e.info = c.info /\ e.prior = c.prior /\ e.target = c.target
      BY <1>t DEF CmdState
    <3> HIDE DEF e
    <3> QED BY <3>1, <3>2
  <2> HIDE DEF c
  <2>4. LoneCommand(d)' /\ LoneReload(d)'
    BY <1>i, <2>1, <2>2 DEF LoneCommand, LoneReload
  <2> QED BY <1>m, <2>2, <2>4
<1>7. CASE RecordPackage(k)
  <2>1. c.pc = "record_package" /\ UNCHANGED <<runtime, mirror>> /\ package' = c.target
    BY <1>7 DEF RecordPackage, At
  <2>2. PICK d : /\ cmd' = [cmd EXCEPT ![k] = d] /\ d.pc = "save"
                 /\ d.op = c.op /\ d.restoring = c.restoring /\ d.info = c.info
                 /\ d.prior = c.prior /\ d.target = c.target
    <3> DEFINE e == [c EXCEPT !.pc = "save"]
    <3>1. cmd' = [cmd EXCEPT ![k] = e]
      BY <1>7 DEF RecordPackage
    <3>2. /\ e.pc = "save" /\ e.op = c.op /\ e.restoring = c.restoring
          /\ e.info = c.info /\ e.prior = c.prior /\ e.target = c.target
      BY <1>t DEF CmdState
    <3> HIDE DEF e
    <3> QED BY <3>1, <3>2
  <2> HIDE DEF c
  <2>4. LoneCommand(d)' /\ LoneReload(d)'
    BY <1>i, <2>1, <2>2 DEF LoneCommand, LoneReload
  <2> QED BY <1>m, <2>2, <2>4
<1>8. CASE SaveSession(k)
  <2>1. c.pc = "save" /\ UNCHANGED <<runtime, mirror, package>>
    BY <1>8 DEF SaveSession, At
  <2>2. PICK d : cmd' = [cmd EXCEPT ![k] = d] /\ d.pc = "idle"
    BY <1>8, <1>t, AfterLoad DEF SaveSession
  <2> HIDE DEF c
  <2>3. InStep'
    BY <1>i, <2>1 DEF LoneCommand, InStep
  <2>4. LoneCommand(d)' /\ LoneReload(d)'
    BY <2>2 DEF LoneCommand, LoneReload
  <2> QED BY <1>m, <2>2, <2>3, <2>4
<1>9. CASE ForgetPackage(k)
  <2>1. c.op = "unload"
    BY <1>9 DEF ForgetPackage, At, HostInv, CommandInv
  <2>2. PICK d : cmd' = [cmd EXCEPT ![k] = d] /\ d.pc = "unpublish" /\ d.op = "unload"
    <3> DEFINE e == [c EXCEPT !.pc = "unpublish"]
    <3>1. cmd' = [cmd EXCEPT ![k] = e] /\ e.pc = "unpublish" /\ e.op = "unload"
      BY <1>9, <2>1, <1>t DEF ForgetPackage, CmdState
    <3> HIDE DEF e
    <3> QED BY <3>1
  <2>4. LoneCommand(d)' /\ LoneReload(d)'
    BY <2>2 DEF LoneCommand, LoneReload, Reloads
  <2> QED BY <1>m, <2>2, <2>4
<1>10. CASE Unpublish(k)
  <2>1. c.op = "unload" /\ mirror' = NoModel
    BY <1>10 DEF Unpublish, At, HostInv, CommandInv
  <2>2. PICK d : cmd' = [cmd EXCEPT ![k] = d] /\ d.pc = "acquire" /\ d.op = "unload"
    <3> DEFINE e == [c EXCEPT !.pc = "acquire"]
    <3>1. cmd' = [cmd EXCEPT ![k] = e] /\ e.pc = "acquire" /\ e.op = "unload"
      BY <1>10, <2>1, <1>t DEF Unpublish, CmdState
    <3> HIDE DEF e
    <3> QED BY <3>1
  <2>4. LoneCommand(d)' /\ LoneReload(d)'
    BY <2>1, <2>2 DEF LoneCommand, LoneReload, Reloads
  <2> QED BY <1>m, <2>2, <2>4
<1>11. CASE UnloadRuntime(k)
  <2>1. c.pc = "unloading" /\ runtime' = NoModel /\ UNCHANGED <<mirror, package>>
    BY <1>11 DEF UnloadRuntime, At
  <2>2. PICK d : cmd' = [cmd EXCEPT ![k] = d] /\ d.pc = "idle"
    <3> DEFINE e == Returned(c, "ok", NoModel)
    <3>1. cmd' = [cmd EXCEPT ![k] = e] /\ e.pc = "idle"
      BY <1>11, <1>t DEF UnloadRuntime, Returned, CmdState
    <3> HIDE DEF e
    <3> QED BY <3>1
  <2> HIDE DEF c
  <2>3. InStep'
    BY <1>i, <2>1 DEF LoneCommand, InStep
  <2>4. LoneCommand(d)' /\ LoneReload(d)'
    BY <2>2 DEF LoneCommand, LoneReload
  <2> QED BY <1>m, <2>2, <2>3, <2>4
<1> QED
  BY <1>1, <1>2, <1>3, <1>4, <1>5, <1>6, <1>7, <1>8, <1>9, <1>10, <1>11 DEF Proceed

(* What every step of commands run one at a time keeps.                    *)
LEMMA LoneStep ==
  HostInv /\ OneAtATime /\ OneAtATime' /\ LoneInv /\ [HostNext]_hostVars => LoneInv'
<1> SUFFICES ASSUME HostInv, OneAtATime, OneAtATime', LoneInv, [HostNext]_hostVars
             PROVE  LoneInv'
  OBVIOUS
<1>1. ASSUME NEW k \in Cmds, Begin(k) \/ Proceed(k) PROVE LoneInv'
  BY <1>1, LoneBegin, LoneProceed
<1>2. CASE UNCHANGED hostVars
  BY <1>2 DEF hostVars, LoneInv, LoneCommand, LoneReload, Quiescent, InStep, At
<1> QED BY <1>1, <1>2 DEF HostNext

(* Before the first command nothing is loaded, shown or recorded.          *)
LEMMA LoneStart == HostInit => LoneInv
BY DEF HostInit, LoneInv, LoneCommand, LoneReload, Quiescent, InStep, Blank, Reloads

(* How far each command has got, while commands run one at a time.         *)
THEOREM LoneInvariance == HostSpec /\ []OneAtATime => []LoneInv
BY LoneStart, LoneStep, HostInvariance, PTL DEF HostSpec

(* With commands one at a time, whenever none is in flight the mirror      *)
(* shows what the runtime holds and its package is the one on record,      *)
(* whichever failure path the last command took.                           *)
THEOREM StatusStaysInStep == HostSpec /\ []OneAtATime => []StatusInStep
<1>1. LoneInv => StatusInStep
  BY DEF LoneInv, StatusInStep, InStep
<1> QED BY <1>1, LoneInvariance, PTL

-----------------------------------------------------------------------------
(* What a reload reports.                                                  *)

(* What is true of a reload d that has just returned: it reports an error, *)
(* having lost the model only to a failed restore, or holds what it says.  *)
Left(d) ==
  \/ /\ d.result = "err"
     /\ runtime' = NoModel => d.restoring
  \/ /\ runtime' = d.info /\ runtime' # NoModel
     /\ ~d.restoring => /\ runtime'.model = d.prior.model
                        /\ Certified[runtime'.model] = 0 => runtime'.ctx >= d.prior.ctx
                        /\ d.op = "ensure" /\ d.result = "ok" => runtime'.ctx >= d.wanted

(* What a successful load reports is what it compared with the floor.      *)
LEMMA GoodLeaves ==
  ASSUME NEW c \in CmdState, NEW d, d = AfterGoodLoad(c),
         \A x \in LoadedInfo : x.ctx \in Nat
  PROVE  /\ d.op = c.op /\ d.prior = c.prior /\ d.restoring = c.restoring
         /\ d.wanted = c.wanted /\ d.info = c.info
         /\ c.op = "ensure" /\ ~c.restoring /\ d.result = "ok" /\ c.info \in LoadedInfo
              => c.info.ctx >= c.wanted
<1>1. c.wanted \in Nat
  BY DEF CmdState
<1> QED BY <1>1 DEF CmdState, AfterGoodLoad, Returned

(* How a reload leaves.                                                    *)
LEMMA Leaves ==
  ASSUME HostInv, OneAtATime, LoneInv, NEW k \in Cmds, Proceed(k),
         cmd[k].op \in Reloads \/ cmd'[k].op \in Reloads, At(k, "idle")'
  PROVE  Left(cmd'[k]) /\ cmd'[k].op = cmd[k].op /\ cmd'[k].restoring = cmd[k].restoring
<1> DEFINE c == cmd[k]
<1>t. /\ cmd \in [Cmds -> CmdState] /\ c \in CmdState /\ runtime \in MaybeLoaded
      /\ \A x \in LoadedInfo : x.ctx \in Nat
      /\ NoModel \notin LoadedInfo
  BY NoModelAssumption DEF HostInv, HostTypeOK, HostShape, MaybeLoaded, LoadedInfo
<1>i. LoneCommand(c) /\ LoneReload(c)
  BY DEF LoneInv
<1>1. CASE CheckPackage(k)
  <2>1. c.pc = "package" /\ runtime' = runtime
    BY <1>1 DEF CheckPackage, At
  <2> DEFINE unreachable == Trained[c.target] > 0 /\ Trained[c.target] < c.wanted
             e == CASE c.op = "ensure" /\ (package = NoModel \/ unreachable)
                         -> Returned(c, "err", NoModel)
                    [] c.op = "grow" /\ package = NoModel -> Returned(c, "ok", c.prior)
                    [] OTHER -> [c EXCEPT !.pc = "prepare"]
  <2>2. cmd'[k] = e
    BY <1>1, <1>t DEF CheckPackage
  <2> HIDE DEF c, unreachable
  <2>3. e.op = c.op /\ e.prior = c.prior /\ e.restoring = c.restoring
        /\ \/ e.result = "err"
           \/ c.op = "grow" /\ e.info = c.prior
           \/ e.pc = "prepare"
    BY <1>t DEF Returned, CmdState
  <2> HIDE DEF e
  <2>4. runtime = c.prior /\ c.prior # NoModel /\ ~c.restoring
    BY <1>i, <2>1 DEF LoneReload, LoneCommand
  <2>5. runtime.ctx \in Nat
    BY <2>4, <1>t DEF MaybeLoaded
  <2>6. At(k, "idle")' => e.pc = "idle"
    BY <2>2 DEF At
  <2> QED BY <2>1, <2>2, <2>3, <2>4, <2>5, <2>6 DEF Left, c
<1>2. CASE Prepare(k)
  <2>1. cmd'[k] = AfterFailedLoad(c)
    <3>1. CASE cmd' = [cmd EXCEPT ![k].pc = "acquire"]
      <4>1. cmd'[k].pc = "acquire"
        BY <3>1, <1>t DEF CmdState
      <4> QED BY <4>1 DEF At
    <3>2. CASE cmd' = [cmd EXCEPT ![k] = AfterFailedLoad(@)]
      BY <3>2, <1>t
    <3> QED BY <1>2, <3>1, <3>2 DEF Prepare
  <2>2. cmd'[k].result = "err" /\ cmd'[k].op = c.op /\ cmd'[k].restoring = c.restoring
        /\ (c.op \in Reloads => c.restoring)
    BY <2>1, <1>t, FailedLeaves DEF At
  <2> QED BY <2>2 DEF Left
<1>3. CASE PublishFailure(k)
  <2>1. cmd'[k] = AfterFailedLoad(c)
    BY <1>3, <1>t DEF PublishFailure
  <2>2. cmd'[k].result = "err" /\ cmd'[k].op = c.op /\ cmd'[k].restoring = c.restoring
        /\ (c.op \in Reloads => c.restoring)
    BY <2>1, <1>t, FailedLeaves DEF At
  <2> QED BY <2>2 DEF Left
<1>4. CASE SaveSession(k)
  <2>1. c.pc = "save" /\ runtime' = runtime
    BY <1>4 DEF SaveSession, At
  <2>2. PICK d : d = AfterGoodLoad(c) /\ cmd'[k] = d
    BY <1>4, <1>t DEF SaveSession
  <2> HIDE DEF c
  <2>3. runtime = c.info /\ runtime # NoModel /\ c.info \in LoadedInfo
    BY <1>i, <1>t, <2>1 DEF LoneCommand, MaybeLoaded
  <2>4. /\ d.op = c.op /\ d.prior = c.prior /\ d.restoring = c.restoring
        /\ d.wanted = c.wanted /\ d.info = c.info
        /\ c.op = "ensure" /\ ~c.restoring /\ d.result = "ok" => c.info.ctx >= c.wanted
    BY <1>t, <2>2, <2>3, GoodLeaves
  <2>5. c.op \in Reloads /\ ~c.restoring =>
          /\ c.info.model = c.prior.model
          /\ Certified[c.info.model] = 0 => c.info.ctx >= c.prior.ctx
    BY <1>i, <2>1 DEF LoneReload
  <2>6. c.op \in Reloads
    BY <2>2, <2>4 DEF c
  <2>7. Left(d)
    BY <2>1, <2>3, <2>4, <2>5, <2>6 DEF Left
  <2> QED BY <2>2, <2>4, <2>7 DEF c
<1>5. CASE UnloadRuntime(k)
  <2>1. c.op = "unload" /\ cmd'[k] = Returned(c, "ok", NoModel)
    BY <1>5, <1>i, <1>t DEF UnloadRuntime, At, LoneCommand
  <2>2. cmd'[k].op = "unload"
    BY <2>1, <1>t DEF Returned, CmdState
  <2> QED BY <2>1, <2>2 DEF Reloads
<1>6. CASE \/ Acquire(k) \/ LoadRuntime(k) \/ PublishLoaded(k) \/ RecordPackage(k)
           \/ ForgetPackage(k) \/ Unpublish(k)
  <2>1. ASSUME LoadRuntime(k) PROVE cmd'[k].pc # "idle"
    <3>1. PICK info : \/ cmd' = [cmd EXCEPT ![k].pc = "publish", ![k].info = info]
                      \/ cmd' = [cmd EXCEPT ![k].pc = "publish_failure"]
      BY <2>1 DEF LoadRuntime
    <3> QED BY <3>1, <1>t DEF CmdState
  <2>2. cmd'[k].pc # "idle"
    BY <1>6, <1>t, <2>1 DEF Acquire, PublishLoaded, RecordPackage, ForgetPackage,
                            Unpublish, CmdState
  <2> QED BY <2>2 DEF At
<1> QED BY <1>1, <1>2, <1>3, <1>4, <1>5, <1>6 DEF Proceed

(* A reload that returns while commands run one at a time leaves no model  *)
(* loaded only if restoring the one it started from failed as well.        *)
THEOREM ReloadKeepsModel == HostSpec /\ []OneAtATime => ReloadKeepsAModel
<1> DEFINE Kept == \A k \in Cmds :
             cmd[k].op \in {"ensure", "grow"} /\ ~At(k, "idle") /\ At(k, "idle")'
               => (runtime' = NoModel => cmd[k].restoring /\ cmd'[k].result = "err")
<1>1. HostInv /\ OneAtATime /\ LoneInv /\ [HostNext]_hostVars => [Kept]_hostVars
  <2> SUFFICES ASSUME HostInv, OneAtATime, LoneInv, HostNext,
                      NEW k \in Cmds, cmd[k].op \in {"ensure", "grow"},
                      ~At(k, "idle"), At(k, "idle")', runtime' = NoModel
               PROVE  cmd[k].restoring /\ cmd'[k].result = "err"
    OBVIOUS
  <2>0. cmd \in [Cmds -> CmdState]
    BY DEF HostInv, HostTypeOK, HostShape
  <2>1. PICK j \in Cmds : Begin(j) \/ Proceed(j)
    BY DEF HostNext
  <2>2. cmd' = [cmd EXCEPT ![j] = cmd'[j]]
    BY <2>0, <2>1 DEF Begin, Load, Unload, Ensure, Grow, Issue, Proceed, CheckPackage, Prepare,
       Acquire, LoadRuntime, PublishFailure, PublishLoaded, RecordPackage, SaveSession,
       ForgetPackage, Unpublish, UnloadRuntime
  <2>3. j = k
    BY <2>0, <2>2 DEF At
  <2>4. Proceed(k)
    BY <2>1, <2>3 DEF Begin, Load, Unload, Ensure, Grow, Issue
  <2>5. Left(cmd'[k]) /\ cmd'[k].restoring = cmd[k].restoring
    BY <2>4, Leaves DEF Reloads
  <2> QED BY <2>5 DEF Left
<1> HIDE DEF Kept
<1>2. HostSpec /\ []OneAtATime => [][Kept]_hostVars
  BY <1>1, HostInvariance, LoneInvariance, PTL DEF HostSpec
<1> QED BY <1>2 DEF ReloadKeepsAModel, Kept

(* One command thread at a time to run, so one command at a time.          *)
LEMMA AloneIsOneAtATime ==
  ASSUME NEW k, Cmds = {k} PROVE OneAtATime
BY DEF OneAtATime

(* Starting a command leaves what a returned reload says true.             *)
LEMMA DeliversBegin ==
  ASSUME HostInv, LoneInv, NEW k, Cmds = {k}, Begin(k) PROVE ReloadDelivers'
<1>t. /\ cmd \in [Cmds -> CmdState] /\ mirror \in MaybeLoaded
      /\ \A x \in LoadedInfo : x.ctx \in Nat
  BY DEF HostInv, HostTypeOK, HostShape, LoadedInfo
<1>s. At(k, "idle") => InStep
  BY DEF LoneInv, Quiescent, At
<1>1. ASSUME NEW c, Issue(k, c),
             c.pc = "idle" /\ c.op \in Reloads /\ c.result = "ok" /\ InStep
               => /\ runtime = c.info /\ runtime.model = c.prior.model
                  /\ Certified[runtime.model] = 0 => runtime.ctx >= c.prior.ctx
                  /\ c.op = "ensure" => runtime.ctx >= c.wanted
      PROVE  ReloadDelivers'
  <2>1. cmd'[k] = c /\ runtime' = runtime /\ InStep
    BY <1>1, <1>t, <1>s DEF Issue
  <2> QED BY <1>1, <2>1 DEF ReloadDelivers, Reloads
<1>2. ASSUME NEW m \in Models, Load(k, m) PROVE ReloadDelivers'
  <2> DEFINE c == [Blank EXCEPT !.op = "load", !.target = m, !.pc = "prepare"]
  <2>1. c.pc = "prepare" /\ Issue(k, c)
    BY <1>2 DEF Blank, Load
  <2> HIDE DEF c
  <2> QED BY <1>1, <2>1
<1>3. ASSUME Unload(k) PROVE ReloadDelivers'
  <2> DEFINE c == [Blank EXCEPT !.op = "unload", !.pc = "forget_package"]
  <2>1. c.pc = "forget_package" /\ Issue(k, c)
    BY <1>3 DEF Blank, Unload
  <2> HIDE DEF c
  <2> QED BY <1>1, <2>1
<1>4. ASSUME NEW w \in Wants, Ensure(k, w) PROVE ReloadDelivers'
  <2> DEFINE b == [Blank EXCEPT !.op = "ensure", !.wanted = w, !.prior = mirror]
             c == IF mirror = NoModel THEN Returned(b, "err", NoModel)
                  ELSE IF mirror.ctx >= w THEN Returned(b, "ok", mirror)
                  ELSE [b EXCEPT !.pc = "package", !.target = mirror.model, !.floor = w]
  <2>1. c.pc = "idle" /\ c.result = "ok" =>
          /\ mirror # NoModel /\ mirror.ctx >= w
          /\ c.info = mirror /\ c.prior = mirror /\ c.wanted = w
    BY DEF Blank, Returned
  <2>2. Issue(k, c)
    BY <1>4 DEF Ensure
  <2> HIDE DEF c
  <2>3. mirror # NoModel => mirror.ctx >= mirror.ctx
    BY <1>t DEF MaybeLoaded
  <2> QED BY <1>1, <2>1, <2>2, <2>3 DEF InStep
<1>5. ASSUME NEW w \in Wants, Grow(k, w) PROVE ReloadDelivers'
  <2> DEFINE b == [Blank EXCEPT !.op = "grow", !.wanted = w, !.prior = mirror]
             goal == IF Trained[mirror.model] > 0
                     THEN Smaller(w, Trained[mirror.model]) ELSE w
             c == IF mirror = NoModel THEN Returned(b, "err", NoModel)
                  ELSE IF mirror.ctx >= w \/ goal <= mirror.ctx
                       THEN Returned(b, "ok", mirror)
                  ELSE [b EXCEPT !.pc = "package", !.target = mirror.model, !.floor = goal]
  <2>2. Issue(k, c)
    BY <1>5 DEF Grow
  <2> HIDE DEF goal
  <2>1. /\ c.op = "grow"
        /\ c.pc = "idle" /\ c.result = "ok" =>
             mirror # NoModel /\ c.info = mirror /\ c.prior = mirror
    BY DEF Blank, Returned
  <2> HIDE DEF c
  <2>3. mirror # NoModel => mirror.ctx >= mirror.ctx
    BY <1>t DEF MaybeLoaded
  <2> QED BY <1>1, <2>1, <2>2, <2>3 DEF InStep
<1> QED BY <1>2, <1>3, <1>4, <1>5 DEF Begin

(* With one command thread, as long as no other command has started, what  *)
(* a reload reported is what is loaded: the model it started from, at no   *)
(* less context unless a certificate decides, and at the floor it was told *)
(* is met.                                                                 *)
THEOREM ReloadReportsTrue ==
  ASSUME NEW k, Cmds = {k} PROVE HostSpec => []ReloadDelivers
<1>a. OneAtATime
  BY AloneIsOneAtATime
<1>1. HostInit => ReloadDelivers
  BY DEF HostInit, Blank, ReloadDelivers
<1>2. HostInv /\ OneAtATime /\ LoneInv /\ ReloadDelivers /\ [HostNext]_hostVars => ReloadDelivers'
  <2> SUFFICES ASSUME HostInv, OneAtATime, LoneInv, ReloadDelivers, [HostNext]_hostVars
               PROVE  ReloadDelivers'
    OBVIOUS
  <2>1. CASE Proceed(k)
    <3>1. SUFFICES ASSUME At(k, "idle")', cmd'[k].op \in Reloads, cmd'[k].result = "ok",
                          ~cmd'[k].restoring
                   PROVE  /\ runtime' = cmd'[k].info
                          /\ runtime'.model = cmd'[k].prior.model
                          /\ Certified[runtime'.model] = 0 => runtime'.ctx >= cmd'[k].prior.ctx
                          /\ cmd'[k].op = "ensure" => runtime'.ctx >= cmd'[k].wanted
      BY DEF ReloadDelivers, At, Reloads
    <3>2. Left(cmd'[k])
      BY <2>1, <3>1, Leaves
    <3> QED BY <3>1, <3>2 DEF Left
  <2>2. CASE UNCHANGED hostVars
    BY <2>2 DEF hostVars, ReloadDelivers
  <2> QED BY <2>1, <2>2, DeliversBegin DEF HostNext
<1> QED BY <1>a, <1>1, <1>2, HostInvariance, LoneInvariance, PTL DEF HostSpec

-----------------------------------------------------------------------------
RouterPcs == {"idle", "ask", "writing", "waiting", "expired", "answered", "failed", "shutdown", "over"}
Waiting == {"writing", "waiting", "expired"}

RouterTypes ==
    /\ call \in [Callers -> [pc : RouterPcs, id : Nat, got : Nat]]
    /\ nextId \in Nat
    /\ linked \in BOOLEAN

\* Whoever is registered is still waiting, under that id, with nothing received.
Registered ==
    \A i \in DOMAIN pending :
        /\ pending[i] \in Callers
        /\ call[pending[i]].id = i
        /\ call[pending[i]].got = 0
        /\ call[pending[i]].pc \in Waiting

\* Until boot is over, and without a link, nobody but boot asks anything.
OnlyBoot ==
    call[Booter].pc # "over" \/ ~linked =>
        /\ status # "Ready"
        /\ \A c \in Callers \ {Booter} : call[c] = Idle

\* Boot keeps its link until it shuts it down.
BootHasLink == call[Booter].pc \notin {"idle", "over"} => linked

RouterInv == RouterTypes /\ Registered /\ OnlyBoot /\ BootHasLink /\ OwnAnswer

LEMMA RouterStart == RouterInit => RouterInv
<1> SUFFICES ASSUME RouterInit PROVE RouterInv
  OBVIOUS
<1>1. Booter \in Callers
  BY DEF Callers
<1>2. \A c \in Callers : call[c] = Idle
  BY DEF RouterInit
<1>3. RouterTypes
  BY DEF RouterInit, RouterTypes, Idle, RouterPcs
<1>4. Registered
  <2>1. DOMAIN <<>> = {}
    OBVIOUS
  <2> QED
    BY <2>1 DEF RouterInit, Registered
<1>5. OnlyBoot /\ BootHasLink /\ OwnAnswer
  BY <1>1, <1>2 DEF RouterInit, OnlyBoot, BootHasLink, OwnAnswer, Idle
<1> QED
  BY <1>3, <1>4, <1>5 DEF RouterInv

\* A caller whose program counter moves keeps its request and what it received.
LEMMA Moved ==
  ASSUME RouterTypes, NEW c \in Callers, NEW pc \in RouterPcs, call' = [call EXCEPT ![c].pc = pc]
  PROVE  /\ call' \in [Callers -> [pc : RouterPcs, id : Nat, got : Nat]]
         /\ call'[c].pc = pc /\ call'[c].id = call[c].id /\ call'[c].got = call[c].got
         /\ \A d \in Callers : d # c => call'[d] = call[d]
BY DEF RouterTypes

\* A move that forgets nobody keeps the registrations if only a waiting one waits.
LEMMA StaysRegistered ==
  ASSUME RouterTypes, Registered, NEW c \in Callers, NEW pc \in RouterPcs,
         call' = [call EXCEPT ![c].pc = pc], pending' = pending,
         pc \in Waiting \/ call[c].pc \notin Waiting
  PROVE  Registered'
<1>1. /\ call'[c].pc = pc /\ call'[c].id = call[c].id /\ call'[c].got = call[c].got
      /\ \A d \in Callers : d # c => call'[d] = call[d]
  BY Moved
<1> QED
  BY <1>1 DEF Registered

\* A caller moving within its request leaves the rest of the invariant alone.
LEMMA MoveKeeps ==
  ASSUME RouterInv, NEW c \in Callers, call[c].pc \notin {"idle", "over"},
         NEW pc \in RouterPcs \ {"idle", "over"}, call' = [call EXCEPT ![c].pc = pc],
         Registered', UNCHANGED <<status, linked, nextId>>
  PROVE  RouterInv'
<1>1. /\ call' \in [Callers -> [pc : RouterPcs, id : Nat, got : Nat]]
      /\ call'[c].pc = pc /\ call'[c].id = call[c].id /\ call'[c].got = call[c].got
      /\ \A d \in Callers : d # c => call'[d] = call[d]
  BY Moved DEF RouterInv
<1>2. RouterTypes' /\ OwnAnswer'
  BY <1>1 DEF RouterInv, RouterTypes, OwnAnswer
<1>3. Booter \in Callers
  BY DEF Callers
<1>4. CASE c = Booter
  BY <1>1, <1>2, <1>4 DEF RouterInv, OnlyBoot, BootHasLink
<1>5. CASE c # Booter
  <2>1. call[Booter].pc = "over" /\ linked
    BY <1>5 DEF RouterInv, OnlyBoot, Idle
  <2>2. OnlyBoot' /\ BootHasLink'
    BY <1>1, <1>3, <1>5, <2>1 DEF OnlyBoot, BootHasLink
  <2> QED
    BY <1>2, <2>2 DEF RouterInv
<1> QED
  BY <1>4, <1>5

\* A caller that forgets its own request leaves nothing of its own behind.
LEMMA ForgetOwn ==
  ASSUME RouterTypes, Registered, NEW c \in Callers, NEW pc \in RouterPcs,
         pending' = Forget(call[c].id), call' = [call EXCEPT ![c].pc = pc]
  PROVE  Registered'
<1>1. ASSUME NEW i \in DOMAIN pending' PROVE i \in DOMAIN pending /\ pending'[i] = pending[i]
                                            /\ i # call[c].id
  BY <1>1 DEF Forget
<1>2. \A i \in DOMAIN pending' : pending[i] # c
  BY <1>1 DEF Registered
<1>3. \A d \in Callers : d # c => call'[d] = call[d]
  BY Moved
<1> QED
  BY <1>1, <1>2, <1>3 DEF Registered

\* Giving up on a deadline always finds the link, so the request is always forgotten.
LEMMA ExpiredHasLink ==
  ASSUME RouterInv, NEW c \in Callers, call[c].pc = "expired" PROVE linked
<1>1. CASE c = Booter
  BY <1>1 DEF RouterInv, BootHasLink
<1>2. CASE c # Booter
  BY <1>2 DEF RouterInv, OnlyBoot, Idle
<1> QED
  BY <1>1, <1>2

\* Registering takes an id nobody holds for a caller nobody waits as.
LEMMA RegisterKeeps == ASSUME RouterInv, NEW c \in Callers, Register(c) PROVE RouterInv'
<1>1. /\ call[c].pc = "ask" /\ nextId \in Nat /\ nextId' = nextId + 1
      /\ linked' = linked /\ status' = status /\ call[c] # Idle
  BY DEF Register, RouterInv, RouterTypes, Idle
<1>2. CASE linked /\ alive
  <2>1. /\ pending' = [i \in DOMAIN pending \cup {nextId} |-> IF i = nextId THEN c ELSE pending[i]]
        /\ call' = [call EXCEPT ![c] = [pc |-> "writing", id |-> nextId, got |-> 0]]
    BY <1>2 DEF Register
  <2>2. RouterTypes'
    BY <1>1, <2>1 DEF RouterInv, RouterTypes, RouterPcs
  <2>3. call'[c] = [pc |-> "writing", id |-> nextId, got |-> 0]
        /\ \A d \in Callers : d # c => call'[d] = call[d]
    BY <2>1 DEF RouterInv, RouterTypes
  <2>4. \A i \in DOMAIN pending : pending[i] # c
    BY <1>1 DEF RouterInv, Registered, Waiting
  <2>5. Registered'
    <3>1. ASSUME NEW i \in DOMAIN pending'
          PROVE  \/ i = nextId /\ pending'[i] = c
                 \/ i # nextId /\ i \in DOMAIN pending /\ pending'[i] = pending[i]
      BY <2>1
    <3> QED
      BY <2>3, <2>4, <3>1 DEF RouterInv, Registered, Waiting
  <2>6. OnlyBoot' /\ BootHasLink'
    <3>1. CASE c = Booter
      BY <1>1, <1>2, <2>3, <3>1 DEF RouterInv, OnlyBoot, BootHasLink
    <3>2. CASE c # Booter
      <4>1. Booter \in Callers /\ call[Booter].pc = "over"
        BY <1>1, <3>2 DEF RouterInv, OnlyBoot, Callers
      <4> QED
        BY <1>1, <1>2, <2>3, <3>2, <4>1 DEF OnlyBoot, BootHasLink
    <3> QED
      BY <3>1, <3>2
  <2>7. OwnAnswer'
    BY <2>3 DEF RouterInv, OwnAnswer
  <2> QED
    BY <2>2, <2>5, <2>6, <2>7 DEF RouterInv
<1>3. CASE ~(linked /\ alive)
  <2>1. /\ "failed" \in RouterPcs \ {"idle", "over"} /\ nextId' = nextId + 1
        /\ call' = [call EXCEPT ![c].pc = "failed"] /\ pending' = pending
    BY <1>3 DEF Register, Goto, RouterPcs
  <2>2. /\ call' \in [Callers -> [pc : RouterPcs, id : Nat, got : Nat]]
        /\ call'[c].pc = "failed" /\ call'[c].id = call[c].id /\ call'[c].got = call[c].got
        /\ \A d \in Callers : d # c => call'[d] = call[d]
    BY <2>1, Moved DEF RouterInv
  <2>3. Registered'
    BY <1>1, <2>1, StaysRegistered DEF RouterInv, Waiting
  <2>4. RouterTypes' /\ OwnAnswer'
    BY <1>1, <2>2 DEF RouterInv, RouterTypes, OwnAnswer
  <2>5. Booter \in Callers
    BY DEF Callers
  <2>6. OnlyBoot' /\ BootHasLink'
    BY <1>1, <2>2, <2>5 DEF RouterInv, OnlyBoot, BootHasLink
  <2> QED
    BY <2>3, <2>4, <2>6 DEF RouterInv
<1> QED
  BY <1>2, <1>3

\* The write, the deadline and giving up.
LEMMA WriteKeeps == ASSUME RouterInv, NEW c \in Callers, Write(c) PROVE RouterInv'
<1>1. call[c].pc = "writing" /\ UNCHANGED <<status, linked, nextId>>
  BY DEF Write
<1>2. {"waiting", "failed"} \subseteq RouterPcs \ {"idle", "over"}
  BY DEF RouterPcs
<1>3. CASE call' = [call EXCEPT ![c].pc = "waiting"] /\ pending' = pending
  <2>1. Registered'
    BY <1>2, <1>3, StaysRegistered DEF RouterInv, Waiting
  <2> QED
    BY <1>1, <1>2, <1>3, <2>1, MoveKeeps
<1>4. CASE call' = [call EXCEPT ![c].pc = "failed"] /\ pending' = Forget(call[c].id)
  <2>1. Registered'
    BY <1>2, <1>4, ForgetOwn DEF RouterInv
  <2> QED
    BY <1>1, <1>2, <1>4, <2>1, MoveKeeps
<1> QED
  BY <1>3, <1>4 DEF Write, Goto

LEMMA GiveUpKeeps == ASSUME RouterInv, NEW c \in Callers, GiveUp(c) PROVE RouterInv'
<1>1. linked
  BY ExpiredHasLink DEF GiveUp
<1>2. /\ call[c].pc = "expired" /\ pending' = Forget(call[c].id)
      /\ call' = [call EXCEPT ![c].pc = "failed"] /\ UNCHANGED <<status, linked, nextId>>
      /\ "failed" \in RouterPcs \ {"idle", "over"}
  BY <1>1 DEF GiveUp, Goto, RouterPcs
<1>3. Registered'
  BY <1>2, ForgetOwn DEF RouterInv
<1> QED
  BY <1>2, <1>3, MoveKeeps

LEMMA ConcludeKeeps == ASSUME RouterInv, NEW c \in Callers, Conclude(c) PROVE RouterInv'
<1>1. /\ c # Booter /\ call[c].pc \in {"answered", "failed"}
      /\ call' = [call EXCEPT ![c] = Idle] /\ status' \in {status, "Unavailable"}
      /\ UNCHANGED <<linked, pending, nextId>>
  BY DEF Conclude
<1>2. /\ call'[c] = Idle /\ Idle \in [pc : RouterPcs, id : Nat, got : Nat]
      /\ \A d \in Callers : d # c => call'[d] = call[d]
  BY <1>1 DEF RouterInv, RouterTypes, Idle, RouterPcs
<1>3. \A i \in DOMAIN pending : pending[i] # c
  BY <1>1 DEF RouterInv, Registered, Waiting
<1>4. Booter \in Callers
  BY DEF Callers
<1>5. RouterTypes' /\ Registered' /\ OwnAnswer'
  BY <1>1, <1>2, <1>3 DEF RouterInv, RouterTypes, Registered, OwnAnswer, Idle
<1>6. OnlyBoot' /\ BootHasLink'
  BY <1>1, <1>2, <1>4 DEF RouterInv, OnlyBoot, BootHasLink, Idle
<1> QED
  BY <1>5, <1>6 DEF RouterInv

\* The reader hands an answer to the request that bears its id, or drops it.
LEMMA RouteKeeps == ASSUME RouterInv, Route PROVE RouterInv'
<1> DEFINE id == Head(stdout)
<1>1. /\ pending' = Forget(id) /\ UNCHANGED <<status, linked, nextId>>
      /\ call' = IF id \in DOMAIN pending THEN [call EXCEPT ![pending[id]].got = id] ELSE call
  BY DEF Route
<1> HIDE DEF id
<1>2. \A i \in DOMAIN pending' : i \in DOMAIN pending /\ i # id /\ pending'[i] = pending[i]
  BY <1>1 DEF Forget
<1>3. CASE id \notin DOMAIN pending
  BY <1>1, <1>2, <1>3
  DEF RouterInv, RouterTypes, Registered, OnlyBoot, BootHasLink, OwnAnswer
<1>4. CASE id \in DOMAIN pending
  <2> DEFINE c == pending[id]
  <2>1. c \in Callers /\ call[c].id = id /\ call[c].pc \in Waiting
    BY <1>4 DEF RouterInv, Registered
  <2>2. call' = [call EXCEPT ![c].got = id] /\ id \in Nat
    BY <1>1, <1>4, <2>1 DEF RouterInv, RouterTypes
  <2> HIDE DEF c
  <2>3. /\ call'[c].id = id /\ call'[c].got = id /\ call'[c].pc = call[c].pc
        /\ \A d \in Callers : d # c => call'[d] = call[d]
    BY <2>1, <2>2 DEF RouterInv, RouterTypes
  <2>4. RouterTypes'
    <3>1. call[c] \in [pc : RouterPcs, id : Nat, got : Nat] /\ call \in [Callers -> [pc : RouterPcs, id : Nat, got : Nat]]
      BY <2>1 DEF RouterInv, RouterTypes
    <3>2. [call[c] EXCEPT !.got = id] \in [pc : RouterPcs, id : Nat, got : Nat]
      BY <2>2, <3>1
    <3>3. call' \in [Callers -> [pc : RouterPcs, id : Nat, got : Nat]]
      BY <2>1, <2>2, <3>1, <3>2
    <3> QED
      BY <1>1, <3>3 DEF RouterInv, RouterTypes
  <2>5. Registered'
    BY <1>2, <2>1, <2>3 DEF RouterInv, Registered
  <2>6. OwnAnswer'
    BY <2>3 DEF RouterInv, OwnAnswer
  <2>7. OnlyBoot' /\ BootHasLink'
    BY <1>1, <2>1, <2>3 DEF RouterInv, OnlyBoot, BootHasLink, Idle, Waiting
  <2> QED
    BY <2>4, <2>5, <2>6, <2>7 DEF RouterInv
<1> QED
  BY <1>3, <1>4

LEMMA RouterStep == RouterInv /\ [RouterNext]_routerVars => RouterInv'
<1> SUFFICES ASSUME RouterInv, [RouterNext]_routerVars PROVE RouterInv'
  OBVIOUS
<1>0. Booter \in Callers
  BY DEF Callers
<1>1. ASSUME NEW c \in Callers, Ask(c) PROVE RouterInv'
  <2>1. /\ c # Booter /\ call[c].pc = "idle" /\ status = "Ready" /\ "ask" \in RouterPcs
        /\ call' = [call EXCEPT ![c].pc = "ask"] /\ UNCHANGED <<status, linked, pending, nextId>>
    BY <1>1 DEF Ask, Goto, RouterPcs
  <2>2. /\ call' \in [Callers -> [pc : RouterPcs, id : Nat, got : Nat]]
        /\ call'[c].id = call[c].id /\ call'[c].got = call[c].got
        /\ \A d \in Callers : d # c => call'[d] = call[d]
    BY <2>1, Moved DEF RouterInv
  <2>3. Registered'
    BY <2>1, StaysRegistered DEF RouterInv, Waiting
  <2> QED
    BY <1>0, <2>1, <2>2, <2>3
    DEF RouterInv, RouterTypes, OnlyBoot, BootHasLink, OwnAnswer
<1>2. ASSUME NEW c \in Callers, CallerStep(c) PROVE RouterInv'
  <2>0. {"answered", "failed", "expired"} \subseteq RouterPcs \ {"idle", "over"}
    BY DEF RouterPcs
  <2>1. CASE Receive(c)
    <3>1. PICK pc \in {"answered", "failed"} : call' = [call EXCEPT ![c].pc = pc]
      BY <2>1 DEF Receive, Goto
    <3>2. /\ call[c].pc = "waiting" /\ \A i \in DOMAIN pending : pending[i] # c
          /\ UNCHANGED <<status, linked, nextId, pending>>
      BY <2>1 DEF Receive, RouterInv, Registered
    <3>3. \A d \in Callers : d # c => call'[d] = call[d]
      BY <2>0, <3>1, Moved DEF RouterInv
    <3>4. Registered'
      BY <3>2, <3>3 DEF RouterInv, Registered
    <3> QED
      BY <2>0, <3>1, <3>2, <3>4, MoveKeeps
  <2>2. CASE Expire(c)
    <3>1. /\ call[c].pc = "waiting" /\ call' = [call EXCEPT ![c].pc = "expired"]
          /\ UNCHANGED <<status, linked, nextId, pending>>
      BY <2>2 DEF Expire, Goto
    <3>2. Registered'
      BY <2>0, <3>1, StaysRegistered DEF RouterInv, Waiting
    <3> QED
      BY <2>0, <3>1, <3>2, MoveKeeps
  <2> QED
    BY <1>2, <2>1, <2>2, RegisterKeeps, WriteKeeps, GiveUpKeeps, ConcludeKeeps DEF CallerStep
<1>3. ASSUME NEW pc \in RouterPcs, call' = [call EXCEPT ![Booter].pc = pc], pc \notin Waiting,
             call[Booter].pc \notin Waiting, linked' = TRUE \/ linked' = FALSE,
             UNCHANGED <<pending, nextId>>, status' # "Ready" \/ (linked' = TRUE /\ pc = "over"),
             call[Booter].pc # "over", pc \in {"idle", "over"} \/ linked' = TRUE
      PROVE  RouterInv'
  <2>1. /\ call' \in [Callers -> [pc : RouterPcs, id : Nat, got : Nat]]
        /\ call'[Booter].pc = pc /\ call'[Booter].id = call[Booter].id
        /\ call'[Booter].got = call[Booter].got
        /\ \A d \in Callers : d # Booter => call'[d] = call[d]
    BY <1>0, <1>3, Moved DEF RouterInv
  <2>2. Registered'
    BY <1>0, <1>3, StaysRegistered DEF RouterInv
  <2> QED
    BY <1>0, <1>3, <2>1, <2>2
    DEF RouterInv, RouterTypes, OnlyBoot, BootHasLink, OwnAnswer
<1>4. linked = TRUE \/ linked = FALSE
  BY Zenon DEF RouterInv, RouterTypes
<1>5. /\ {"ask", "over", "shutdown"} \subseteq RouterPcs
      /\ {"idle", "ask", "answered", "failed", "over", "shutdown"} \cap Waiting = {}
  BY DEF RouterPcs, Waiting
<1>6. CASE Spawn
  <2>1. CASE linked' = TRUE /\ call' = [call EXCEPT ![Booter].pc = "ask"] /\ status' = status
    BY <1>3, <1>5, <1>6, <2>1 DEF Spawn
  <2>2. CASE linked' = linked /\ call' = [call EXCEPT ![Booter].pc = "over"] /\ status' = "Unavailable"
    BY <1>3, <1>4, <1>5, <1>6, <2>2 DEF Spawn
  <2> QED
    BY <1>6, <2>1, <2>2 DEF Spawn
<1>7. CASE Booted \/ BootFailed
  <2>1. /\ call[Booter].pc \in {"answered", "failed"} /\ UNCHANGED <<linked, pending, nextId>>
        /\ call[Booter].pc \notin Waiting /\ call[Booter].pc # "over"
    BY <1>5, <1>7 DEF Booted, BootFailed
  <2>2. linked
    BY <2>1 DEF RouterInv, BootHasLink
  <2>3. linked' = TRUE
    BY <1>4, <2>1, <2>2
  <2>4. CASE Booted
    BY <1>3, <1>5, <2>1, <2>3, <2>4 DEF Booted, Goto
  <2>5. CASE BootFailed
    BY <1>3, <1>5, <2>1, <2>3, <2>5 DEF BootFailed, Goto
  <2> QED
    BY <1>7, <2>4, <2>5
<1>8. CASE Shutdown
  BY <1>3, <1>5, <1>8 DEF Shutdown, Goto, RouterInv, OnlyBoot
<1>9. CASE Route
  BY <1>9, RouteKeeps
<1>10. CASE DropSenders
  <2>1. DOMAIN <<>> = {}
    OBVIOUS
  <2> QED
    BY <1>10, <2>1 DEF DropSenders, RouterInv, RouterTypes, Registered, OnlyBoot, BootHasLink, OwnAnswer
<1>11. CASE UNCHANGED <<status, linked, pending, nextId, call>>
  BY <1>11 DEF RouterInv, RouterTypes, Registered, OnlyBoot, BootHasLink, OwnAnswer
<1>12. CASE MarkDead \/ Serve \/ Hang \/ Die \/ UNCHANGED routerVars
  BY <1>11, <1>12 DEF MarkDead, Serve, Hang, Die, routerVars
<1> QED
  BY <1>1, <1>2, <1>6, <1>7, <1>8, <1>9, <1>10, <1>12
  DEF RouterNext, BootStep, ReaderStep

(* "A late answer is discarded": for every number of turns and namers, every   *)
(* pipe and every way the sidecar may hang or die, an answer only ever reaches *)
(* the caller still waiting on that very request (laya.rs, call and            *)
(* read_responses).                                                            *)
THEOREM AnswerIsOwn == RouterSpec => []OwnAnswer
<1>1. RouterInv => OwnAnswer
  BY DEF RouterInv
<1> QED
  BY <1>1, RouterStart, RouterStep, PTL DEF RouterSpec

-----------------------------------------------------------------------------
(* Sizes and quotients.                                                    *)

\* Every non-empty set of naturals has a least element, and a bounded one a greatest.
LEMMA LeastNatural ==
  ASSUME NEW T, T \subseteq Nat, T # {} PROVE \E x \in T : \A y \in T : x <= y
<1>1. PICK x \in T : \A y \in T : ~ (<<y, x>> \in OpToRel(<, Nat))
  BY NatLessThanWellFounded, WFMin
<1>2. ASSUME NEW y \in T, y < x PROVE FALSE
  BY <1>1, <1>2 DEF OpToRel
<1> QED
  BY <1>2

LEMMA GreatestNatural ==
  ASSUME NEW bound \in Nat, NEW T, T \subseteq 0..bound, T # {}
  PROVE  \E x \in T : \A y \in T : y <= x
<1> DEFINE gaps == {bound - y : y \in T}
<1>1. gaps \subseteq Nat /\ gaps # {}
  <2>1. \A y \in T : y \in Nat /\ bound - y \in Nat
    OBVIOUS
  <2> QED
    BY <2>1
<1>2. PICK g \in gaps : \A h \in gaps : g <= h
  BY <1>1, LeastNatural
<1>3. PICK x \in T : g = bound - x
  BY <1>2
<1>4. ASSUME NEW y \in T PROVE y <= x
  <2>1. bound - x <= bound - y
    BY <1>2, <1>3
  <2> QED
    BY <2>1
<1> QED
  BY <1>4

\* Products and quotients, once and for all.
LEMMA TimesNat == \A a, b \in Nat : a * b \in Nat
OBVIOUS

LEMMA TimesMonotone == \A a, b \in Int, c \in Nat : a <= b => a * c <= b * c
OBVIOUS

LEMMA Quotient ==
  ASSUME NEW a \in Nat, NEW b \in Nat, b > 0
  PROVE  /\ a \div b \in Nat
         /\ (a \div b) * b <= a
         /\ a < (a \div b) * b + b
OBVIOUS

LEMMA QuotientBelow ==
  ASSUME NEW a \in Nat, NEW b \in Nat, NEW q \in Nat, b > 0, a <= q * b
  PROVE  a \div b <= q
<1>1. a \div b \in Nat /\ (a \div b) * b <= a
  BY Quotient
<1>2. ASSUME a \div b >= q + 1 PROVE FALSE
  <2> DEFINE k == a \div b
  <2>1. (q + 1) * b <= k * b
    BY <1>1, <1>2, TimesMonotone
  <2>2. (q + 1) * b = q * b + b
    OBVIOUS
  <2> QED BY <1>1, <2>1, <2>2
<1> QED BY <1>1, <1>2

\* A finite set of adapters has a largest memory.
LEMMA SequenceBounded ==
  ASSUME NEW n \in Nat, NEW v \in [1..n -> Nat]
  PROVE  \E b \in Nat : \A i \in 1..n : v[i] <= b
<1> DEFINE Above(k) == \A b \in Nat : \E i \in 1..k : v[i] > b
           T == {k \in 0..n : Above(k)}
<1>1. \A k \in 0..n : k \in T <=> Above(k)
  OBVIOUS
<1>2. 0 \notin T
  OBVIOUS
<1>3. ASSUME NEW k \in T, k # 0 PROVE k - 1 \in T
  <2> SUFFICES ASSUME k - 1 \notin T PROVE FALSE
    OBVIOUS
  <2>1. k \in 1..n /\ k - 1 \in 0..n
    BY <1>3
  <2>2. PICK b \in Nat : \A i \in 1..(k - 1) : ~(v[i] > b)
    BY <2>1
  <2>3. v[k] \in Nat /\ b + v[k] \in Nat
    BY <2>1
  <2>4. PICK i \in 1..k : v[i] > b + v[k]
    BY <2>3
  <2>5. i \in 1..(k - 1) /\ v[i] \in Nat
    BY <2>1, <2>3, <2>4
  <2> QED BY <2>2, <2>3, <2>4, <2>5
<1> HIDE DEF Above, T
<1>4. T = {}
  <2>0. T \subseteq Nat
    BY DEF T
  <2> SUFFICES ASSUME T # {} PROVE FALSE
    OBVIOUS
  <2>1. PICK t \in T : \A k \in T : t <= k
    BY <2>0, LeastNatural
  <2> QED BY <1>2, <1>3, <2>0, <2>1
<1>5. ~Above(n)
  BY <1>1, <1>4
<1>6. PICK b \in Nat : \A i \in 1..n : ~(v[i] > b)
  BY <1>5 DEF Above
<1>7. \A i \in 1..n : v[i] <= b
  BY <1>6
<1> QED BY <1>7

LEMMA CardsBounded ==
  ASSUME Planning!PlacementAssumption
  PROVE  \E b \in Nat : \A c \in Cards : c.total <= b
<1>1. PICK s \in Seq(Cards) : \A c \in Cards : \E n \in 1..Len(s) : s[n] = c
  BY DEF Planning!PlacementAssumption, Planning!IsFiniteSet
<1> DEFINE v == [i \in 1..Len(s) |-> s[i].total]
<1>2. v \in [1..Len(s) -> Nat] /\ Len(s) \in Nat
  BY DEF Planning!PlacementAssumption
<1>3. PICK b \in Nat : \A i \in 1..Len(s) : v[i] <= b
  BY <1>2, SequenceBounded
<1> QED BY <1>1, <1>3

-----------------------------------------------------------------------------
(* Placement.                                                                *)

\* Numbers of a header, and figures derived from them.
LEMMA HeaderNumbers ==
  ASSUME Planning!PlacementAssumption, NEW p \in Packages, NEW k \in Planning!Counts,
         NEW default \in Nat
  PROVE  Planning!Get(p.header, k, default) \in Nat
BY DEF Planning!PlacementAssumption, Planning!Get

LEMMA CacheCost ==
  ASSUME Planning!PlacementAssumption, NEW p \in Packages, NEW size \in Nat
  PROVE  /\ Planning!Layers(p.header) \in Nat
         /\ Planning!KvPerToken(p.header) \in Nat
         /\ Planning!PerToken(p.header, size) \in Nat \ {0}
         /\ Planning!Readable(p.header) =>
              Planning!KvPerToken(p.header) <= Planning!PerToken(p.header, size)
<1> DEFINE h == p.header
<1>1. /\ Planning!Get(h, "block_count", 0) \in Nat
      /\ Planning!Get(h, "head_count", 0) \in Nat
      /\ Planning!Get(h, "embedding", 0) \in Nat
  BY HeaderNumbers DEF Planning!Counts
<1>2. Planning!Layers(h) \in Nat /\ Planning!KvHeads(h) \in Nat
  BY <1>1, HeaderNumbers DEF Planning!Counts, Planning!Layers, Planning!KvHeads
<1>3. Planning!HeadDim(h) \in Nat
  <2> DEFINE heads == Planning!Get(h, "head_count", 0)
             wide == 1024 * Planning!Get(h, "embedding", 0)
  <2>1. heads \in Nat /\ wide \in Nat
    BY <1>1
  <2>2. Planning!HeadDim(h) = IF heads = 0 THEN 0 ELSE wide \div heads
    BY DEF Planning!HeadDim
  <2> HIDE DEF heads, wide
  <2> QED BY <2>1, <2>2, Quotient
<1>4. /\ Planning!Get(h, "key_length", Planning!HeadDim(h)) \in Nat
      /\ Planning!Get(h, "value_length", Planning!HeadDim(h)) \in Nat
  BY <1>3, HeaderNumbers DEF Planning!Counts
<1>5. Planning!KvPerToken(h) \in Nat
  <2> DEFINE pair == Planning!Get(h, "key_length", Planning!HeadDim(h))
                       + Planning!Get(h, "value_length", Planning!HeadDim(h))
             cost == Planning!Layers(h) * Planning!KvHeads(h) * 2 * pair
  <2>1. pair \in Nat
    BY <1>4
  <2> HIDE DEF pair
  <2>2. cost \in Nat
    BY <1>2, <2>1, TimesNat
  <2>3. Planning!KvPerToken(h) = cost \div 1024
    BY DEF Planning!KvPerToken, pair
  <2> HIDE DEF cost
  <2> QED BY <2>2, <2>3, Quotient
<1>6. Planning!Banded(size) \in Nat \ {0}
  BY DEF Planning!Banded
<1> QED BY <1>2, <1>5, <1>6 DEF Planning!PerToken

LEMMA ExpertsWithin ==
  ASSUME Planning!PlacementAssumption, NEW p \in Packages, NEW size \in Nat
  PROVE  Planning!ExpertSize(p.header, size) \in 0..size
<1> DEFINE h == p.header
           params == Planning!ExpertParams(h)
           all == Planning!Get(h, "parameter_count", 0)
           share == (params * 100) \div all
<1>1. /\ Planning!Get(h, "block_count", 0) \in Nat
      /\ Planning!Get(h, "expert_count", 0) \in Nat
      /\ Planning!Get(h, "embedding", 0) \in Nat
      /\ Planning!Get(h, "expert_ff", 0) \in Nat
      /\ all \in Nat
  BY HeaderNumbers DEF Planning!Counts
<1>2. params \in Nat
  BY <1>1, TimesNat DEF Planning!ExpertParams, Planning!Layers, Planning!Experts
<1>3. Planning!ExpertSize(h, size) =
        IF params = 0 \/ all = 0 THEN 0
        ELSE Planning!Lower((size * share) \div 100, (size * 95) \div 100)
  BY DEF Planning!ExpertSize
<1> HIDE DEF params, all
<1>4. all # 0 => share \in Nat
  BY <1>1, <1>2, Quotient
<1> HIDE DEF share
<1>5. all # 0 => (size * share) \div 100 \in Nat
  BY <1>4, TimesNat, Quotient
<1>6. (size * 95) \div 100 \in 0..size
  OBVIOUS
<1> QED BY <1>3, <1>5, <1>6 DEF Planning!Lower

\* What the weights may take leaves the cache its room.
LEMMA BudgetLeavesRoom ==
  ASSUME NEW vram \in Nat, NEW kv \in Nat
  PROVE  /\ Planning!Usable(vram) \in Nat
         /\ Planning!WeightBudget(vram, kv) \in Nat
         /\ Planning!WeightBudget(vram, kv) # 0 =>
              Planning!WeightBudget(vram, kv) + kv <= Planning!Usable(vram)
BY DEF Planning!Usable, Planning!OsReserve, Planning!WeightBudget, Planning!Minus, Planning!Upper, Planning!Twelfth

\* Experts left out are never counted twice, wherever the last layers of the card begin.
LEMMA OffloadBound ==
  ASSUME NEW size \in Nat, NEW L \in Nat, L > 0, NEW on \in 0..L, NEW moe \in Nat,
         NEW experts \in 0..size, NEW per, per = experts \div L,
         NEW pinned, pinned = Planning!Upper(moe - (L - on), 0)
  PROVE  LET card == (size * on) \div L - pinned * per IN
         /\ card \in Int
         /\ card <= size - moe * per
         /\ card <= size
         /\ card <= (size * on) \div L
<1> DEFINE D == L - on
<1>1. D \in Nat /\ D <= L /\ size * on = size * L - size * D
  OBVIOUS
<1>2. per \in Nat /\ per * L <= size
  BY Quotient
<1>3. per * D \in Nat /\ per * D <= per * L
  BY <1>1, <1>2, TimesNat, TimesMonotone
<1>4. (per * L) * D <= size * D
  BY <1>1, <1>2, TimesNat, TimesMonotone
<1>5. size - per * D \in Nat
  BY <1>2, <1>3, TimesNat
<1>6. (size - per * D) * L = size * L - (per * L) * D
  BY <1>1, <1>2
<1>7. size * on \in Nat /\ size * on <= (size - per * D) * L
  BY <1>1, <1>4, <1>6, TimesNat
<1>8. (size * on) \div L <= size - per * D /\ (size * on) \div L \in Nat
  BY <1>5, <1>7, Quotient, QuotientBelow
<1>9. pinned \in Nat /\ moe - D <= pinned /\ moe - D \in Int
  BY <1>1 DEF Planning!Upper
<1>10. pinned * per \in Nat /\ (moe - D) * per <= pinned * per
  BY <1>2, <1>9, TimesNat, TimesMonotone
<1>11. (moe - D) * per = moe * per - per * D
  BY <1>1, <1>2
<1> QED
  BY <1>2, <1>3, <1>8, <1>10, <1>11, TimesNat

\* plan_moe_offload declines, or names a number of layers.
LEMMA DeclinedOrPlanned ==
  ASSUME Planning!PlacementAssumption, NEW p \in Packages, NEW vram \in Nat, NEW ram \in Nat,
         NEW context \in Nat, NEW size \in Nat,
         NEW m, m = Planning!MoeLayers(p.header, vram, ram, size, context), ~(m >= 0)
  PROVE  m = -1
<1> DEFINE h == p.header
           L == Planning!Upper(Planning!Layers(h), 1)
           experts == Planning!ExpertSize(h, size)
           kv == Planning!KvPerToken(h) * Planning!Upper(context, 1)
           budget == Planning!WeightBudget(vram, kv)
           per == experts \div L
           upTo == (size - budget) + per - 1
           needed == upTo \div per
<1>1. L \in Nat /\ L > 0 /\ experts \in 0..size /\ Planning!Upper(context, 1) \in Nat
  BY CacheCost, ExpertsWithin DEF Planning!Upper
<1>2. kv \in Nat
  BY <1>1, CacheCost, TimesNat
<1>3. m = IF \/ experts = 0 \/ size = 0 \/ experts + 512 > ram
             \/ Planning!Usable(vram) < 512 \/ budget = 0
          THEN -1
          ELSE IF budget >= size THEN 0
          ELSE IF per = 0 \/ needed > L THEN -1
          ELSE Planning!Lower(needed + 1, L)
  BY DEF Planning!MoeLayers
<1> HIDE DEF kv, L, experts
<1>4. budget \in Nat
  BY <1>2, BudgetLeavesRoom
<1>5. per \in Nat
  BY <1>1, Quotient
<1> HIDE DEF budget, per
<1>6. CASE ~(budget >= size) /\ per # 0 /\ m = Planning!Lower(needed + 1, L)
  <2>1. upTo \in Nat
    BY <1>4, <1>6, <1>5
  <2> HIDE DEF upTo
  <2>2. needed \in Nat
    BY <1>6, <1>5, <2>1, Quotient
  <2> HIDE DEF needed
  <2> QED BY <1>1, <1>6, <2>2 DEF Planning!Lower
<1> QED
  BY <1>3, <1>4, <1>6

\* Experts in system RAM: they fit there, and what is left fits the card.
LEMMA ByExpertFits ==
  ASSUME Planning!PlacementAssumption, NEW p \in Packages, NEW vram \in Nat, NEW ram \in Nat,
         NEW context \in Nat, NEW size \in Nat,
         NEW m, m = Planning!MoeLayers(p.header, vram, ram, size, context), m >= 0
  PROVE  LET L == Planning!Upper(Planning!Layers(p.header), 1)
             experts == Planning!ExpertSize(p.header, size) IN
         /\ m \in Nat /\ experts + 512 <= ram
         /\ size > 0 /\ Planning!Usable(vram) >= 512
         /\ \E budget \in Nat :
              /\ size - m * (experts \div L) <= budget
              /\ budget + Planning!KvPerToken(p.header) * Planning!Upper(context, 1)
                   <= Planning!Usable(vram)
<1> DEFINE h == p.header
           L == Planning!Upper(Planning!Layers(h), 1)
           experts == Planning!ExpertSize(h, size)
           kv == Planning!KvPerToken(h) * Planning!Upper(context, 1)
           budget == Planning!WeightBudget(vram, kv)
           per == experts \div L
           deficit == size - budget
           upTo == deficit + per - 1
           needed == upTo \div per
           usable == Planning!Usable(vram)
<1>1. L \in Nat /\ L > 0 /\ experts \in 0..size /\ Planning!Upper(context, 1) \in Nat
  BY CacheCost, ExpertsWithin DEF Planning!Upper
<1>2. kv \in Nat
  BY <1>1, CacheCost, TimesNat
<1>3. m = IF \/ experts = 0 \/ size = 0 \/ experts + 512 > ram
             \/ usable < 512 \/ budget = 0
          THEN -1
          ELSE IF budget >= size THEN 0
          ELSE IF per = 0 \/ needed > L THEN -1
          ELSE Planning!Lower(needed + 1, L)
  BY DEF Planning!MoeLayers
<1> HIDE DEF kv, L, experts
<1>4. usable \in Nat /\ budget \in Nat /\ (budget # 0 => budget + kv <= usable)
  BY <1>2, BudgetLeavesRoom
<1>5. per \in Nat
  BY <1>1, Quotient
<1> HIDE DEF budget, usable, per
<1>6. /\ experts + 512 <= ram /\ size > 0 /\ usable >= 512 /\ budget # 0
      /\ \/ budget >= size /\ m = 0
         \/ /\ budget < size /\ per # 0 /\ ~(needed > L)
            /\ m = Planning!Lower(needed + 1, L)
  BY <1>1, <1>3, <1>4
<1>7. m \in Nat /\ size - m * per <= budget
  <2>1. CASE budget >= size /\ m = 0
    BY <2>1, <1>4, <1>5
  <2>2. CASE /\ budget < size /\ per # 0 /\ ~(needed > L)
             /\ m = Planning!Lower(needed + 1, L)
    <3>1. upTo \in Nat /\ deficit \in Nat /\ upTo = deficit + per - 1
      BY <2>2, <1>4, <1>5
    <3> HIDE DEF upTo, deficit
    <3>2. needed \in Nat /\ upTo < needed * per + per
      BY <2>2, <1>5, <3>1, Quotient
    <3> HIDE DEF needed
    <3>3. m \in Nat /\ needed <= m
      BY <2>2, <1>1, <3>2 DEF Planning!Lower
    <3>4. needed * per <= m * per /\ needed * per \in Nat /\ m * per \in Nat
      BY <1>5, <3>2, <3>3, TimesMonotone, TimesNat
    <3>5. deficit <= needed * per
      BY <1>5, <3>1, <3>2, <3>4
    <3> QED BY <1>4, <3>1, <3>3, <3>4, <3>5 DEF deficit
  <2> QED BY <1>6, <2>1, <2>2
<1>8. \E b \in Nat : size - m * per <= b /\ b + kv <= usable
  BY <1>4, <1>6, <1>7
<1> QED
  BY <1>6, <1>7, <1>8 DEF L, experts, kv, usable, per

\* A dense placement, and any that puts fewer layers on the card.
LEMMA DenseFits ==
  ASSUME Planning!PlacementAssumption, NEW p \in Packages, NEW vram \in Nat,
         NEW context \in Nat, NEW size \in Nat, Planning!Readable(p.header),
         NEW n, n = Planning!DenseLayers(p.header, vram, size, context), n # 0
  PROVE  LET L == Planning!Upper(Planning!Layers(p.header), 1) IN
         /\ n \in Nat
         /\ size > 0 /\ Planning!Usable(vram) >= 512
         /\ \E budget \in Nat :
              /\ \A on \in 0..L : on <= n => (size * on) \div L <= budget
              /\ budget + Planning!KvPerToken(p.header) * Planning!Upper(context, 1)
                   <= Planning!Usable(vram)
<1> DEFINE h == p.header
           L == Planning!Upper(Planning!Layers(h), 1)
           tokens == Planning!Upper(context, 1)
           charged == Planning!PerToken(h, size) * tokens
           kv == Planning!KvPerToken(h) * tokens
           budget == Planning!WeightBudget(vram, charged)
           usable == Planning!Usable(vram)
<1>1. L \in Nat /\ L > 0 /\ tokens \in Nat
  BY CacheCost DEF Planning!Upper
<1>2. kv \in Nat /\ charged \in Nat /\ kv <= charged
  BY <1>1, CacheCost, TimesNat, TimesMonotone
<1>3. n = IF size = 0 \/ usable < 512 \/ budget = 0 THEN 0
          ELSE IF budget >= size THEN 999 ELSE (budget * L) \div size
  BY DEF Planning!DenseLayers, Planning!FullOffload
<1> HIDE DEF kv, L, charged, tokens
<1>4. usable \in Nat /\ budget \in Nat /\ (budget # 0 => budget + charged <= usable)
  BY <1>2, BudgetLeavesRoom
<1> HIDE DEF budget, usable
<1>5. /\ size > 0 /\ usable >= 512 /\ budget # 0
      /\ \/ budget >= size /\ n = 999
         \/ budget < size /\ n = (budget * L) \div size
  BY <1>3, <1>4
<1>6. budget * L \in Nat
  BY <1>1, <1>4, TimesNat
<1>7. n \in Nat
  BY <1>5, <1>6, Quotient
<1>8. ASSUME NEW on \in 0..L, on <= n PROVE (size * on) \div L <= budget
  <2>1. size * on \in Nat /\ size * on <= size * L
    BY <1>1, TimesNat, TimesMonotone
  <2>2. CASE budget >= size
    <3>1. (size * on) \div L <= size
      BY <1>1, <2>1, QuotientBelow
    <3>2. (size * on) \div L \in Nat
      BY <1>1, <2>1, Quotient
    <3> QED BY <1>4, <2>2, <3>1, <3>2
  <2>3. CASE n = (budget * L) \div size
    <3>1. n * size <= budget * L
      BY <1>5, <1>6, <2>3, Quotient
    <3>2. on * size <= n * size /\ n * size \in Nat
      BY <1>1, <1>7, <1>8, TimesNat, TimesMonotone
    <3>3. size * on <= budget * L
      BY <1>1, <1>6, <3>1, <3>2
    <3> QED BY <1>1, <1>4, <2>1, <3>3, QuotientBelow
  <2> QED BY <1>5, <2>2, <2>3
<1>9. \E b \in Nat : (\A on \in 0..L : on <= n => (size * on) \div L <= b) /\ b + kv <= usable
  BY <1>2, <1>4, <1>5, <1>8
<1> QED
  BY <1>5, <1>7, <1>9 DEF L, kv, tokens, usable

\* The context a certificate is granted: little, or little enough.
LEMMA CertifiedContext ==
  ASSUME Planning!PlacementAssumption, NEW p \in Packages, NEW vram \in Nat,
         NEW size \in Nat, size > 0, Planning!Usable(vram) >= 512, NEW desired \in Nat,
         Planning!Readable(p.header)
  PROVE  LET c == Planning!Affordable(p.header, vram, size, desired) IN
         /\ c \in Nat
         /\ \/ c <= Planning!Lower(Planning!MinViable, desired)
            \/ size + Planning!KvPerToken(p.header) * c <= Planning!Usable(vram)
<1> DEFINE h == p.header
           c == Planning!Affordable(h, vram, size, desired)
           usable == Planning!Usable(vram)
           left == Planning!Minus(Planning!Minus(usable, size), Planning!Twelfth(usable))
           least == Planning!Lower(2, desired)
           per == Planning!PerToken(h, size)
           kv == Planning!KvPerToken(h)
<1>1. usable \in Nat /\ left \in Nat /\ (left # 0 => size + left <= usable)
  BY DEF Planning!Usable, Planning!OsReserve, Planning!Minus, Planning!Upper, Planning!Twelfth
<1>2. least \in Nat /\ least <= desired
  BY DEF Planning!Lower
<1>3. per \in Nat /\ per > 0 /\ kv \in Nat /\ kv <= per
  BY CacheCost
<1>4. vram # 0
  BY DEF Planning!Usable, Planning!OsReserve, Planning!Minus, Planning!Upper
<1>5. c = IF vram = 0 \/ desired = 0 THEN desired
          ELSE IF size = 0 \/ left = 0 THEN least
          ELSE Planning!Lower(Planning!Upper(left \div per, least), desired)
  BY DEF Planning!Affordable, Planning!MinViable
<1> HIDE DEF usable, left, least, per, kv, c
<1>6. left \div per \in Nat /\ (left \div per) * per <= left
  BY <1>1, <1>3, Quotient
<1>7. c \in Nat /\ (c <= least \/ (left # 0 /\ c <= left \div per))
  BY <1>2, <1>4, <1>5, <1>6 DEF Planning!Lower, Planning!Upper, least
<1>8. ASSUME left # 0, c <= left \div per PROVE size + kv * c <= usable
  <2>1. c * per <= (left \div per) * per /\ c * per \in Nat
    BY <1>3, <1>6, <1>7, <1>8, TimesMonotone, TimesNat
  <2>2. c * per <= left
    BY <1>1, <1>3, <1>6, <2>1, TimesNat
  <2>3. kv * c <= per * c /\ kv * c \in Nat /\ per * c = c * per
    BY <1>3, <1>7, TimesMonotone, TimesNat
  <2>4. kv * c <= left
    BY <1>1, <2>1, <2>2, <2>3
  <2> QED BY <1>1, <1>8, <2>3, <2>4
<1> QED BY <1>7, <1>8 DEF c, kv, usable, least, Planning!MinViable

\* The machine's figures, whatever lists the adapters and whatever else uses them.
Sized(g) ==
  /\ g.dedicated \in BOOLEAN
  /\ \E c \in Cards : g.total \in 0..c.total /\ g.free \in 0..c.total
MachineInv ==
  /\ {"gpus", "ram"} \subseteq DOMAIN profile
  /\ profile.ram \in Nat
  /\ \A g \in profile.gpus : Sized(g)
  /\ free \in [Cards -> Nat] /\ \A c \in Cards : free[c] <= c.total
LoadInv ==
  /\ {"pc", "pkg", "floor", "config", "plan"} \subseteq DOMAIN load
  /\ load.pc \in {"build", "scan", "load"} => load.pkg \in Packages /\ load.floor \in Nat

\* There is always a card to select when there is a candidate.
LEMMA CardIsSelected ==
  ASSUME Planning!PlacementAssumption, MachineInv, Planning!Candidates(profile.gpus) # {}
  PROVE  /\ Planning!Selected(profile.gpus) \in Planning!Candidates(profile.gpus)
         /\ Planning!Budget(Planning!Selected(profile.gpus)) \in Nat
<1> DEFINE C == Planning!Candidates(profile.gpus)
           D == {g \in C : g.dedicated}
           B(P) == {Planning!Budget(g) : g \in P}
<1>1. PICK b \in Nat : \A c \in Cards : c.total <= b
  BY CardsBounded
<1>2. \A g \in C : g.dedicated \in BOOLEAN /\ Planning!Budget(g) \in 0..b
  BY <1>1 DEF MachineInv, Sized, Planning!Candidates, Planning!Budget, Planning!PlacementAssumption
<1> HIDE DEF C
<1>3. ASSUME NEW P, P \subseteq C, P # {}
      PROVE  \E g \in P : \A o \in P : Planning!Budget(g) >= Planning!Budget(o)
  <2>1. B(P) \subseteq 0..b /\ B(P) # {}
    BY <1>2, <1>3
  <2>2. PICK x \in B(P) : \A y \in B(P) : y <= x
    BY <1>1, <2>1, GreatestNatural
  <2>3. PICK g \in P : x = Planning!Budget(g)
    BY <2>2
  <2>4. \A o \in P : Planning!Budget(o) \in Nat /\ Planning!Budget(o) <= x
    BY <1>2, <1>3, <2>2
  <2> QED BY <2>3, <2>4
<1>4. \E g \in C : \A o \in C :
        \/ g.dedicated /\ ~o.dedicated
        \/ g.dedicated = o.dedicated /\ Planning!Budget(g) >= Planning!Budget(o)
  <2>1. CASE D # {}
    <3>1. PICK g \in D : \A o \in D : Planning!Budget(g) >= Planning!Budget(o)
      BY <1>3, <2>1
    <3> QED BY <1>2, <3>1
  <2>2. CASE D = {}
    <3>1. PICK g \in C : \A o \in C : Planning!Budget(g) >= Planning!Budget(o)
      BY <1>3 DEF C
    <3> QED BY <1>2, <2>2, <3>1
  <2> QED BY <2>1, <2>2
<1>5. Planning!Selected(profile.gpus) \in C
  BY <1>4 DEF Planning!Selected, C
<1> QED BY <1>2, <1>5 DEF C

\* However a scan lists the adapters, no figure exceeds what the card really has.
LEMMA DetectedAreSized ==
  ASSUME Planning!PlacementAssumption, MachineInv, NEW lister \in Listers
  PROVE  \A g \in Planning!Detected(lister) : Sized(g)
<1>1. \A c \in Cards : c.total \in Nat /\ c.total \div 2 \in 0..c.total /\ free[c] \in 0..c.total
                       /\ c.dedicated \in BOOLEAN
  BY DEF MachineInv, Planning!PlacementAssumption
<1>2. ASSUME NEW c \in Cards, NEW g, Sized(g), g.free \in 0..c.total, g.total \in 0..c.total,
             {"free", "backend"} \subseteq DOMAIN g
      PROVE  Sized(Planning!Enriched(c, g))
  BY <1>1, <1>2 DEF Sized, Planning!Enriched
<1>3. ASSUME NEW c \in Cards
      PROVE  /\ Sized(Planning!Enriched(c, Planning!ListedByDxgi(c)))
             /\ Sized(Planning!Enriched(c, Planning!ListedByCim(c)))
             /\ Sized(Planning!ListedBySmi(c))
  <2>1. LET g == Planning!ListedByDxgi(c) IN
        Sized(g) /\ g.free \in 0..c.total /\ g.total \in 0..c.total /\ {"free", "backend"} \subseteq DOMAIN g
    BY <1>1 DEF Sized, Planning!ListedByDxgi
  <2>2. LET g == Planning!ListedByCim(c) IN
        Sized(g) /\ g.free \in 0..c.total /\ g.total \in 0..c.total /\ {"free", "backend"} \subseteq DOMAIN g
    BY <1>1 DEF Sized, Planning!ListedByCim, Planning!ListedByDxgi
  <2>3. Sized(Planning!ListedBySmi(c))
    BY <1>1 DEF Sized, Planning!ListedBySmi
  <2> QED BY <1>2, <2>1, <2>2, <2>3
<1> QED
  BY <1>3 DEF Planning!Detected, Planning!PlacementAssumption

\* What build_load_config decides fits what it decided by.
LEMMA PlacedFits ==
  ASSUME Planning!PlacementAssumption, MachineInv, NEW p \in Packages, NEW floor \in Nat,
         ~Planning!Overruled(p), Planning!Readable(p.header),
         NEW config, config = Planning!Placed(p, floor), config.gpu > 0
  PROVE  LET usable == Planning!Usable(Planning!Budget(Planning!Selected(profile.gpus)))
             experts == Planning!ExpertSize(p.header, Planning!SizeOnDisk(p)) IN
         /\ Planning!Candidates(profile.gpus) # {}
         /\ Planning!OnCard(p, config) + Planning!KvPerToken(p.header) * config.context <= usable
         /\ config.moe > 0 => experts + 512 <= profile.ram
<1> DEFINE h == p.header
           size == Planning!SizeOnDisk(p)
           context == Planning!PlannedContext(p.requested, floor)
           vram == Planning!Budget(Planning!Selected(profile.gpus))
           usable == Planning!Usable(vram)
           L == Planning!Upper(Planning!Layers(h), 1)
           experts == Planning!ExpertSize(h, size)
           kv == Planning!KvPerToken(h)
           tokens == Planning!Upper(context, 1)
           per == experts \div L
           has == Planning!Candidates(profile.gpus) # {}
           card == IF has THEN vram ELSE 0
           moe == IF has /\ Planning!Readable(h) /\ Planning!Experts(h) > 0
                  THEN Planning!MoeLayers(h, card, profile.ram, size, context) ELSE -1
           layers == CASE ~has -> 0 [] moe >= 0 -> 999
                       [] OTHER -> Planning!DenseLayers(h, card, size, context)
           on == Planning!Lower(config.gpu, L)
           weight == Planning!OnCard(p, config)
<1>1. /\ size \in Nat /\ p.requested \in Nat /\ p.certified.is \in BOOLEAN
      /\ p.certified.layers \in Nat /\ p.certified.context \in Nat /\ profile.ram \in Nat
  BY DEF Planning!PlacementAssumption, MachineInv
<1>2. config = [gpu |-> IF p.certified.is THEN Planning!Lower(layers, p.certified.layers) ELSE layers,
                moe |-> Planning!Upper(moe, 0),
                context |-> IF p.certified.is
                            THEN Planning!Affordable(h, card, size, p.certified.context)
                            ELSE context,
                threads |-> Planning!Upper(profile.cores, 1)]
  BY DEF Planning!Placed, Planning!FullOffload
<1>3. /\ L \in Nat /\ L > 0 /\ kv \in Nat /\ experts \in 0..size
      /\ context \in Nat /\ tokens \in Nat /\ context <= tokens
  BY <1>1, CacheCost, ExpertsWithin DEF Planning!Upper, Planning!Lower, Planning!PlannedContext
<1> HIDE DEF size, L, experts, kv, context, tokens
<1>4. has
  BY <1>1, <1>2 DEF Planning!Lower
<1>5. vram \in Nat /\ card = vram
  BY <1>4, CardIsSelected
<1> HIDE DEF vram, card, has
<1>6. usable \in Nat
  BY <1>5, BudgetLeavesRoom
<1>7. weight = (size * on) \div L - Planning!Upper(config.moe - (L - on), 0) * per
  BY DEF Planning!OnCard, size, L, experts
<1> HIDE DEF usable, weight, per
<1>8. \/ /\ moe \in Nat /\ layers = 999 /\ experts + 512 <= profile.ram
         /\ size > 0 /\ usable >= 512
         /\ \E budget \in Nat : size - moe * per <= budget /\ budget + kv * tokens <= usable
      \/ /\ moe = -1 /\ layers = Planning!DenseLayers(h, vram, size, context)
  <2>1. CASE moe >= 0
    <3>1. moe = Planning!MoeLayers(h, vram, profile.ram, size, context)
      BY <1>5, <2>1
    <3>2. layers = 999
      BY <1>4, <2>1
    <3> HIDE DEF moe, layers
    <3>3. /\ moe \in Nat /\ experts + 512 <= profile.ram /\ size > 0 /\ usable >= 512
          /\ \E budget \in Nat : size - moe * per <= budget /\ budget + kv * tokens <= usable
      BY <1>1, <1>3, <1>5, <2>1, <3>1, ByExpertFits DEF L, experts, kv, tokens, usable, per
    <3> QED BY <3>2, <3>3
  <2>2. CASE ~(moe >= 0)
    <3>1. moe = -1
      BY <1>1, <1>3, <1>4, <1>5, <2>2, DeclinedOrPlanned
    <3>2. layers = Planning!DenseLayers(h, vram, size, context)
      BY <1>4, <1>5, <2>2
    <3> QED BY <3>1, <3>2
  <2> QED BY <2>1, <2>2
<1> HIDE DEF moe, layers
<1>9. layers # 0
  BY <1>1, <1>2 DEF Planning!Lower
<1>10. /\ layers \in Nat /\ size > 0 /\ usable >= 512
       /\ \/ /\ moe \in Nat /\ experts + 512 <= profile.ram
             /\ \E budget \in Nat : size - moe * per <= budget /\ budget + kv * tokens <= usable
          \/ /\ moe = -1
             /\ \E budget \in Nat :
                  /\ \A k \in 0..L : k <= layers => (size * k) \div L <= budget
                  /\ budget + kv * tokens <= usable
  <2>1. CASE moe \in Nat
    BY <1>8, <2>1
  <2>2. CASE moe = -1 /\ layers = Planning!DenseLayers(h, vram, size, context)
    <3>1. /\ layers \in Nat /\ size > 0 /\ usable >= 512
          /\ \E budget \in Nat :
               /\ \A k \in 0..L : k <= layers => (size * k) \div L <= budget
               /\ budget + kv * tokens <= usable
      BY <1>1, <1>3, <1>5, <1>9, <2>2, DenseFits DEF L, kv, tokens, usable
    <3> QED BY <2>2, <3>1
  <2> QED BY <1>8, <2>1, <2>2
<1>11. config.gpu \in Nat /\ config.gpu <= layers
  BY <1>1, <1>2, <1>10 DEF Planning!Lower
<1>12. on \in 0..L /\ on <= layers
  BY <1>3, <1>10, <1>11 DEF Planning!Lower
<1>13. config.moe \in Nat /\ config.moe = Planning!Upper(moe, 0)
  BY <1>2, <1>8 DEF Planning!Upper
<1> HIDE DEF on
<1>14. /\ weight \in Int /\ weight <= size /\ weight <= (size * on) \div L
       /\ weight <= size - config.moe * per
  BY <1>1, <1>3, <1>7, <1>12, <1>13, OffloadBound DEF per
<1>15. config.moe > 0 => experts + 512 <= profile.ram
  BY <1>10, <1>13 DEF Planning!Upper
<1>16. PICK budget \in Nat : weight <= budget /\ budget + kv * tokens <= usable
  <2>1. CASE moe \in Nat
    <3>1. config.moe = moe
      BY <1>13, <2>1 DEF Planning!Upper
    <3>2. per \in Nat
      BY <1>3, Quotient DEF per
    <3> QED BY <1>1, <1>10, <1>14, <2>1, <3>1, <3>2, TimesNat
  <2>2. CASE moe = -1
    <3>1. (size * on) \div L \in Nat
      BY <1>1, <1>3, <1>12, TimesNat, Quotient
    <3> QED BY <1>10, <1>12, <1>14, <2>2, <3>1
  <2> QED BY <1>10, <2>1, <2>2
<1>17. /\ config.context \in Nat
       /\ config.context <= tokens \/ size + kv * config.context <= usable
  <2>1. CASE ~p.certified.is
    BY <1>2, <1>3, <2>1
  <2>2. CASE p.certified.is
    <3> DEFINE least == Planning!Lower(Planning!MinViable, p.certified.context)
    <3>1. config.context = Planning!Affordable(h, vram, size, p.certified.context)
      BY <1>2, <1>5, <2>2
    <3>2. /\ config.context \in Nat
          /\ config.context <= least \/ size + kv * config.context <= usable
      BY <1>1, <1>5, <1>10, <3>1, CertifiedContext DEF kv, usable
    <3>3. least <= tokens /\ least \in Nat /\ tokens \in Nat
      <4>1. least <= p.requested /\ least \in Nat /\ least <= 8
        BY <1>1, <2>2 DEF Planning!Overruled, Planning!Lower, Planning!MinViable
      <4>2. least <= context
        BY <1>1, <4>1 DEF context, Planning!PlannedContext, Planning!Lower, Planning!Upper
      <4> QED BY <1>3, <4>1, <4>2
    <3> QED BY <3>2, <3>3
  <2> QED BY <1>1, <2>1, <2>2
<1>18. weight + kv * config.context <= usable
  <2>0. kv * config.context \in Nat /\ kv * tokens \in Nat
    BY <1>3, <1>17, TimesNat
  <2>1. CASE config.context <= tokens
    <3>1. config.context * kv <= tokens * kv
      BY <1>3, <1>17, <2>1, TimesMonotone
    <3>2. kv * config.context <= kv * tokens
      BY <1>3, <1>17, <3>1
    <3> QED BY <1>6, <1>14, <1>16, <2>0, <3>2
  <2>2. CASE size + kv * config.context <= usable
    BY <1>1, <1>6, <1>14, <2>0, <2>2
  <2> QED BY <1>17, <2>1, <2>2
<1> QED
  BY <1>4, <1>15, <1>18 DEF has, usable, vram, experts, size, kv, weight

\* The inductive invariant.
PlacementInv == MachineInv /\ LoadInv /\ PlacementFits

LEMMA PlacementStart ==
  Planning!PlacementAssumption /\ Planning!PlaceInit => PlacementInv
<1> SUFFICES ASSUME Planning!PlacementAssumption, Planning!PlaceInit PROVE PlacementInv
  OBVIOUS
<1>1. MachineInv
  BY DEF Planning!PlaceInit, Planning!NoProfile, MachineInv, Planning!PlacementAssumption
<1>2. LoadInv /\ load.pc # "load"
  BY DEF Planning!PlaceInit, Planning!Idle, LoadInv
<1> QED BY <1>1, <1>2 DEF PlacementInv, PlacementFits, Planning!PlacementFits

\* Steps that plan nothing.
LEMMA NothingPlanned ==
  ASSUME PlacementInv, MachineInv', LoadInv', load' = load \/ load'.pc # "load"
  PROVE  PlacementInv'
BY DEF PlacementInv, PlacementFits, Planning!PlacementFits

LEMMA PlanKeeps ==
  ASSUME Planning!PlacementAssumption,
         PlacementInv, Planning!Plan
  PROVE  PlacementInv'
<1> DEFINE p == load.pkg
           config == Planning!Placed(load.pkg, load.floor)
           plan == IF Planning!Candidates(profile.gpus) = {} THEN Planning!NoPlan
                   ELSE [usable |-> Planning!Budget(Planning!Selected(profile.gpus)),
                         was |-> Planning!Selected(profile.gpus).was, ram |-> profile.ram]
<1>1. /\ p \in Packages /\ load.floor \in Nat
      /\ load' = [load EXCEPT !.pc = "load", !.config = config, !.plan = plan]
      /\ UNCHANGED <<profile, free>>
  BY DEF Planning!Plan, PlacementInv, LoadInv
<1> HIDE DEF config, plan
<1>2. /\ load'.pc = "load" /\ load'.config = config /\ load'.plan = plan
      /\ load'.pkg = p /\ load'.floor = load.floor
      /\ {"pc", "pkg", "floor", "config", "plan"} \subseteq DOMAIN load'
  BY <1>1 DEF PlacementInv, LoadInv
<1>3. MachineInv' /\ LoadInv'
  BY <1>1, <1>2 DEF PlacementInv, MachineInv, LoadInv, Sized
<1>4. ASSUME Planning!Readable(p.header), config.gpu > 0, ~Planning!Overruled(p)
      PROVE  /\ Planning!OnCard(p, config) + Planning!KvPerToken(p.header) * config.context
                  <= Planning!Usable(plan.usable)
             /\ config.moe > 0 =>
                  Planning!ExpertSize(p.header, Planning!SizeOnDisk(p)) + 512 <= plan.ram
  <2>1. /\ Planning!Candidates(profile.gpus) # {}
        /\ Planning!OnCard(p, config) + Planning!KvPerToken(p.header) * config.context
             <= Planning!Usable(Planning!Budget(Planning!Selected(profile.gpus)))
        /\ config.moe > 0 =>
             Planning!ExpertSize(p.header, Planning!SizeOnDisk(p)) + 512 <= profile.ram
    BY <1>1, <1>4, PlacedFits DEF PlacementInv, config
  <2>2. plan.usable = Planning!Budget(Planning!Selected(profile.gpus)) /\ plan.ram = profile.ram
    BY <2>1 DEF plan
  <2> QED BY <2>1, <2>2
<1>5. PlacementFits'
  BY <1>2, <1>4 DEF PlacementFits, Planning!PlacementFits
<1> QED BY <1>3, <1>5 DEF PlacementInv

LEMMA PlacementStep ==
  ASSUME Planning!PlacementAssumption,
         PlacementInv, [Planning!PlaceNext]_(Planning!placeVars)
  PROVE  PlacementInv'
<1> USE DEF PlacementInv
<1>1. ASSUME NEW s \in Planning!Scanners, Planning!ScanStep(s) PROVE PlacementInv'
  <2>1. CASE Planning!EndScan(s)
    <3>1. UNCHANGED <<free, load>>
      BY <2>1 DEF Planning!EndScan
    <3>2. CASE profile' = profile
      BY <3>1, <3>2, NothingPlanned DEF MachineInv, LoadInv, Sized
    <3>3. ASSUME NEW m \in Memories, NEW lister \in Listers,
                 profile' = [gpus |-> Planning!Detected(lister), ram |-> Planning!UsableRam(m),
                             cores |-> 4]
          PROVE  PlacementInv'
      <4>1. Planning!UsableRam(m) \in Nat
        BY DEF Planning!PlacementAssumption, Planning!UsableRam, Planning!Lower, Planning!Minus,
          Planning!Upper
      <4>2. MachineInv'
        BY <3>1, <3>3, <4>1, DetectedAreSized DEF MachineInv, Sized
      <4> QED BY <3>1, <4>2, NothingPlanned DEF LoadInv
    <3> QED BY <2>1, <3>2, <3>3 DEF Planning!EndScan
  <2>2. CASE Planning!BeginScan(s) \/ Planning!Join(s) \/ Planning!StopWaiting(s)
    BY <2>2, NothingPlanned DEF Planning!BeginScan, Planning!Join, Planning!StopWaiting,
      MachineInv, LoadInv, Sized
  <2> QED BY <1>1, <2>1, <2>2 DEF Planning!ScanStep
<1>2. CASE Planning!CallScan
  BY <1>2, NothingPlanned DEF Planning!CallScan, MachineInv, LoadInv, Sized
<1>3. CASE Planning!Override
  <2>1. MachineInv'
    BY <1>3 DEF Planning!Override, MachineInv, Sized
  <2> QED BY <1>3, <2>1, NothingPlanned DEF Planning!Override, LoadInv
<1>4. ASSUME NEW c \in Cards, Planning!Occupy(c) PROVE PlacementInv'
  <2>1. c.total \in Nat /\ c.total \div 2 \in 0..c.total
    BY DEF Planning!PlacementAssumption
  <2>2. MachineInv'
    BY <1>4, <2>1 DEF Planning!Occupy, MachineInv, Sized
  <2> QED BY <1>4, <2>2, NothingPlanned DEF Planning!Occupy, LoadInv
<1>5. ASSUME NEW p \in Packages, NEW floor \in Floors, Planning!BeginLoad(p, floor)
      PROVE  PlacementInv'
  <2>1. floor \in Nat
    BY DEF Planning!PlacementAssumption
  <2>2. LoadInv' /\ load'.pc # "load"
    BY <1>5, <2>1 DEF Planning!BeginLoad, Planning!Idle, LoadInv
  <2> QED BY <1>5, <2>2, NothingPlanned DEF Planning!BeginLoad, MachineInv, Sized
<1>6. CASE Planning!DemandScan
  <2>1. LoadInv' /\ load'.pc # "load"
    BY <1>6 DEF Planning!DemandScan, Planning!Goto, LoadInv
  <2> QED BY <1>6, <2>1, NothingPlanned DEF Planning!DemandScan, MachineInv, Sized
<1>7. CASE Planning!Plan
  BY <1>7, PlanKeeps
<1>8. CASE Planning!LoadModel
  <2>1. LoadInv' /\ load'.pc # "load"
    BY <1>8 DEF Planning!LoadModel, Planning!Idle, LoadInv
  <2> QED BY <1>8, <2>1, NothingPlanned DEF Planning!LoadModel, MachineInv, Sized
<1>9. CASE Planning!Unload
  BY <1>9, NothingPlanned DEF Planning!Unload, MachineInv, LoadInv, Sized
<1>10. CASE UNCHANGED Planning!placeVars
  BY <1>10, NothingPlanned DEF Planning!placeVars, MachineInv, LoadInv, Sized
<1> QED
  BY <1>1, <1>2, <1>3, <1>4, <1>5, <1>6, <1>7, <1>8, <1>9, <1>10 DEF Planning!PlaceNext

\* For any machine, packages, floors and scans, what build_load_config puts on the card and
\* leaves in RAM fits both, unless a certificate overrules the user's shorter context
\* (manager.rs, build_load_config; vram_planner.rs).
THEOREM PlanFits ==
  Planning!PlacementAssumption => (Planning!PlaceSpec => []PlacementFits)
<1> SUFFICES ASSUME Planning!PlacementAssumption
             PROVE  Planning!PlaceSpec => []PlacementFits
  OBVIOUS
<1>1. Planning!PlaceInit => PlacementInv
  BY PlacementStart
<1>2. PlacementInv /\ [Planning!PlaceNext]_(Planning!placeVars) => PlacementInv'
  BY PlacementStep
<1>3. PlacementInv => PlacementFits
  BY DEF PlacementInv
<1> QED BY <1>1, <1>2, <1>3, PTL DEF Planning!PlaceSpec

-----------------------------------------------------------------------------
(* Certification: the packs in use are one some version shipped, the        *)
(* profiles those of the version that runs.                                 *)

PacksInv ==
  /\ running \in Shipped
  /\ onDisk \subseteq {v.pack : v \in Shipped}
  /\ packs \subseteq {v.pack : v \in Shipped}

\* A step of the engine leaves the packs shipped ones (pack_manager.rs).
LEMMA PacksStep ==
  ASSUME PacksInv, [Advice!RecommendNext]_(Advice!recommendVars)
  PROVE  PacksInv'
<1>1. CASE Advice!Start
  BY <1>1 DEF PacksInv, Advice!Start, Advice!LoadPacks
<1>2. CASE Advice!Update
  BY <1>2 DEF PacksInv, Advice!Update
<1>3. CASE Advice!Consider
  BY <1>3 DEF PacksInv, Advice!Consider
<1>4. CASE UNCHANGED Advice!recommendVars
  BY <1>4 DEF PacksInv, Advice!recommendVars
<1> QED BY <1>1, <1>2, <1>3, <1>4 DEF Advice!RecommendNext

\* The stages a shipped certificate meets, whichever version's profiles it is read with
\* (runtime_validator.rs).
LEMMA ShippedPasses ==
  ASSUME Advice!ShippedAssumption, PacksInv
  PROVE  RefusalIsStale
<1> DEFINE found == Advice!Certificates(model)
           c == Advice!Certificate(model)
<1>1. CASE found = {}
  BY <1>1 DEF RefusalIsStale, Advice!RefusalIsStale, Advice!Verdict
<1>2. CASE found # {}
  <2>1. c \in found
    BY <1>2 DEF Advice!Certificate
  <2>2. PICK v \in Shipped : c \in v.pack
    BY <2>1 DEF PacksInv, Advice!Certificates
  <2>3. c.profile # "" /\ c.hash
    BY <2>2 DEF Advice!ShippedAssumption
  <2> DEFINE named == {p \in running.profiles : p.id = c.profile}
  <2> HIDE DEF c
  <2>4. ASSUME NEW own \in running.pack, own.profile = c.profile, NEW p \in named
        PROVE  p.template /\ ~(p.pinned < running.minimum)
    BY <2>4 DEF Advice!ShippedAssumption, PacksInv
  <2>5. Advice!Verdict(model) =
          IF named = {} THEN "defaults"
          ELSE IF \E p \in named : p.pinned < running.minimum THEN "stage3"
          ELSE IF \E p \in named : ~p.template THEN "stage4"
          ELSE "certified"
    BY <1>2, <2>3 DEF Advice!Verdict, c
  <2>6. Advice!Verdict(model) \notin {"defaults", "certified"} =>
          Advice!Verdict(model) \in {"stage3", "stage4"}
    BY <2>5
  <2>7. ASSUME Advice!Verdict(model) \notin {"defaults", "certified"},
               NEW own \in running.pack, own.profile = c.profile
        PROVE  FALSE
    BY <2>4, <2>5, <2>7
  <2> QED BY <2>6, <2>7 DEF RefusalIsStale, Advice!RefusalIsStale, c
<1> QED BY <1>1, <1>2

\* Whatever versions are installed one after the other, each sound by itself, a load that
\* is refused was refused by another version's certificate, for a profile the version that
\* runs has given up (runtime_validator.rs, pack_manager.rs).
THEOREM RefusalsAreStale ==
  Advice!ShippedAssumption => (Advice!RecommendSpec => []RefusalIsStale)
<1> SUFFICES ASSUME Advice!ShippedAssumption
             PROVE  Advice!RecommendSpec => []RefusalIsStale
  OBVIOUS
<1>1. Advice!RecommendInit => PacksInv
  BY DEF Advice!RecommendInit, PacksInv
<1>2. PacksInv /\ [Advice!RecommendNext]_(Advice!recommendVars) => PacksInv'
  BY PacksStep
<1>3. PacksInv => RefusalIsStale
  BY ShippedPasses
<1> QED BY <1>1, <1>2, <1>3, PTL DEF Advice!RecommendSpec

-----------------------------------------------------------------------------
(* Recommendation: what a machine with less of everything can run, a larger *)
(* one runs with a score that is no lower, or a little lower where the      *)
(* smaller one ran it with no safe room left.                               *)

\* The share of memory left free grows with the memory.
LEMMA SpareGrows ==
  ASSUME NEW have \in Nat, NEW more \in Nat, NEW need \in Nat, need <= have, have <= more
  PROVE  /\ Advice!Spare(have, need) \in Nat /\ Advice!Spare(have, need) <= 1000 /\ Advice!Spare(more, need) \in Nat /\ Advice!Spare(more, need) <= 1000
         /\ Advice!Spare(have, need) <= Advice!Spare(more, need)
<1>1. CASE have = 0
  <2>1. Advice!Spare(have, need) = 0
    BY <1>1 DEF Advice!Spare
  <2>2. Advice!Spare(more, need) \in Nat /\ Advice!Spare(more, need) <= 1000
    <3>1. need = 0
      BY <1>1
    <3>2. CASE more = 0
      BY <3>2 DEF Advice!Spare
    <3>3. CASE more # 0
      <4>1. Advice!Spare(more, need) = (more * 1000) \div more
        BY <3>1, <3>3 DEF Advice!Spare, Advice!Less, Advice!AtLeast
      <4>2. more * 1000 \in Nat /\ more * 1000 <= 1000 * more
        OBVIOUS
      <4>3. (more * 1000) \div more \in Nat /\ (more * 1000) \div more <= 1000
        BY <3>3, <4>2, Quotient, QuotientBelow
      <4> QED BY <4>1, <4>3
    <3> QED BY <3>2, <3>3
  <2> QED BY <2>1, <2>2
<1>2. CASE have # 0
  <2> DEFINE a == (have - need) * 1000
             b == (more - need) * 1000
  <2>1. a \in Nat /\ b \in Nat
    OBVIOUS
  <2>2. Advice!Spare(have, need) = a \div have /\ Advice!Spare(more, need) = b \div more
    BY <1>2 DEF Advice!Spare, Advice!Less, Advice!AtLeast
  <2> DEFINE q == b \div more
  <2>3. /\ q \in Nat /\ q * more <= b /\ b < q * more + more
        /\ a \div have \in Nat
    BY <1>2, <2>1, Quotient
  <2>4. a <= 1000 * have /\ b <= 1000 * more
    OBVIOUS
  <2>5. a \div have <= 1000 /\ q <= 1000
    BY <1>2, <2>1, <2>4, QuotientBelow
  <2> DEFINE p == a \div have
  <2>6. p \in Nat /\ p * have <= a
    BY <1>2, <2>1, Quotient
  <2> HIDE DEF p, q
  <2>7. p <= 1000 /\ q <= 1000
    BY <2>5 DEF p, q
  <2>8. p <= q
    <3>1. SUFFICES ASSUME q + 1 <= p PROVE FALSE
      BY <2>3, <2>6
    <3>2. 1000 * need <= (1000 - p) * have
      <4>1. (1000 - p) * have = 1000 * have - p * have
        BY <2>6
      <4>2. a = 1000 * have - 1000 * need
        OBVIOUS
      <4> QED BY <2>6, <4>1, <4>2
    <3>3. (1000 - p) * have <= (1000 - p) * more
      <4>1. 1000 - p \in Nat
        BY <2>6, <2>7
      <4>2. have * (1000 - p) <= more * (1000 - p)
        BY <4>1, TimesMonotone
      <4> QED BY <4>1, <4>2
    <3>4. p * more <= b
      <4>1. (1000 - p) * more = 1000 * more - p * more
        BY <2>6
      <4>2. b = 1000 * more - 1000 * need
        OBVIOUS
      <4>3. 1000 * need <= (1000 - p) * more
        BY <2>6, <2>7, <3>2, <3>3
      <4> QED BY <2>6, <4>1, <4>2, <4>3
    <3>5. (q + 1) * more <= p * more
      BY <2>3, <2>6, <3>1, TimesMonotone
    <3>6. (q + 1) * more = q * more + more
      BY <2>3
    <3> QED BY <2>1, <2>3, <2>6, <3>4, <3>5, <3>6
  <2> QED BY <2>2, <2>3, <2>6, <2>7, <2>8 DEF p, q
<1> QED BY <1>1, <1>2

LEMMA SpareIs ==
  ASSUME NEW have \in Nat, NEW need \in Nat, need <= have
  PROVE  Advice!Spare(have, need) \in Nat /\ Advice!Spare(have, need) <= 1000
<1>1. have <= have
  OBVIOUS
<1> QED BY <1>1, SpareGrows

\* The mark for memory, and where it falls.
LEMMA MarkIs ==
  ASSUME NEW h \in Nat, h <= 1000
  PROVE  /\ Advice!MemoryFit(h) \in Nat /\ Advice!MemoryFit(h) <= 1000
         /\ h < 50 => Advice!MemoryFit(h) = 100
         /\ 150 <= h => 600 <= Advice!MemoryFit(h)
BY DEF Advice!MemoryFit, Advice!AtMost

LEMMA MarkGrows ==
  ASSUME NEW h \in Nat, NEW g \in Nat, 50 <= h, h <= g
  PROVE  Advice!MemoryFit(h) <= Advice!MemoryFit(g)
BY DEF Advice!MemoryFit, Advice!AtMost

\* The mark for context.
LEMMA LogBounded ==
  ASSUME NEW context, NEW mo PROVE Advice!Log(context, mo) \in Nat /\ Advice!Log(context, mo) <= 1000
<1>1. \A c : Advice!Steps(c) \in Nat
  <2> TAKE c
  <2> DEFINE reached == {d \in {4, 8, 16, 32, 64, 128, 256, 512, 1024} : d <= c}
  <2>1. PICK most \in Nat : reached \in SUBSET Nat /\ \A d \in reached : d <= most
    <3>1. reached \subseteq Nat /\ \A d \in reached : d <= 1024
      OBVIOUS
    <3> QED BY <3>1
  <2> HIDE DEF reached
  <2>2. IsFiniteSet(reached)
    BY <2>1, FS_BoundedSetOfNaturals
  <2>3. Advice!Cardinality(reached) = Cardinality(reached)
    BY DEF Advice!Cardinality, Cardinality
  <2>4. Cardinality(reached) \in Nat
    BY <2>2, FS_CardinalityType
  <2> QED BY <2>3, <2>4 DEF Advice!Steps, reached
<1> DEFINE a == Advice!Steps(context) * 1000
           b == Advice!AtLeast(Advice!Steps(mo.context), 1)
<1>2. a \in Nat /\ b \in Nat /\ b > 0
  BY <1>1 DEF Advice!AtLeast
<1>3. a \div b \in Nat
  BY <1>2, Quotient
<1>4. Advice!Log(context, mo) = IF mo.context <= 2 THEN 1000 ELSE Advice!AtMost(a \div b, 1000)
  BY DEF Advice!Log
<1> QED BY <1>3, <1>4 DEF Advice!AtMost

\* One way to run a cell does no worse than another, the cliff aside.
NoWorse(c, d, mo) ==
  Advice!Score(c, mo) <= Advice!Score(d, mo) + (IF c.headroom < 50 THEN Advice!Cliff ELSE 0)


\* The marks of one way to run a cell.
LEMMA MarksBounded ==
  ASSUME NEW c, NEW mo, c.headroom \in Nat /\ c.headroom <= 1000, c.offloaded \in Nat /\ c.offloaded <= 1000,
         c.mode \in {"gpu", "offload", "cpu"}
  PROVE  /\ Advice!MemoryFit(c.headroom) \in Nat /\ Advice!MemoryFit(c.headroom) <= 1000
         /\ Advice!Log(c.context, mo) \in Nat /\ Advice!Log(c.context, mo) <= 1000
         /\ Advice!Acceleration(c) \in Nat /\ Advice!Acceleration(c) <= 1000
         /\ c.mode = "offload" => Advice!Acceleration(c) <= 400
<1>1. PICK h \in Nat :
        /\ h <= 1000
        /\ h = c.headroom
  OBVIOUS
<1>2. Advice!MemoryFit(h) \in Nat /\ Advice!MemoryFit(h) <= 1000
  BY <1>1, MarkIs
<1>3. PICK o \in Nat :
        /\ o <= 1000
        /\ o = c.offloaded
  OBVIOUS
<1>4. PICK moved \in Nat :
        /\ moved <= 300
        /\ moved = (o * 300) \div 1000
  BY <1>3
<1>5. /\ c.mode = "gpu" => Advice!Acceleration(c) = 1000
      /\ c.mode = "offload" => Advice!Acceleration(c) = 400 - moved
      /\ c.mode = "cpu" => Advice!Acceleration(c) = 50
  BY <1>3, <1>4 DEF Advice!Acceleration
<1> QED BY <1>1, <1>2, <1>4, <1>5, LogBounded

\* A score is the sum of its marks less the penalties, and not below zero.
LEMMA ScoreSum ==
  ASSUME NEW c, NEW mo,
         Advice!MemoryFit(c.headroom) \in Nat, c.quant.rank \in Nat,
         Advice!Log(c.context, mo) \in Nat, Advice!Acceleration(c) \in Nat,
         Advice!Penalties(c) \in Nat
  PROVE  LET sum == Advice!MemoryFit(c.headroom) * 20 + c.quant.rank * 3000
                      + Advice!Log(c.context, mo) * 30 + Advice!Acceleration(c) * 20
                      - Advice!Penalties(c)
         IN Advice!Score(c, mo) = IF sum > 0 THEN sum ELSE 0
<1> DEFINE marks == Advice!MemoryFit(c.headroom) * 20 + c.quant.rank * 100 * 30
                      + Advice!Log(c.context, mo) * 30 + Advice!Acceleration(c) * 20
<1>1. Advice!Score(c, mo) = Advice!Less(marks, Advice!Penalties(c))
  BY DEF Advice!Score
<1>2. marks \in Nat
  OBVIOUS
<1>3. marks = Advice!MemoryFit(c.headroom) * 20 + c.quant.rank * 3000
                + Advice!Log(c.context, mo) * 30 + Advice!Acceleration(c) * 20
  OBVIOUS
<1> HIDE DEF marks
<1> QED BY <1>1, <1>2, <1>3 DEF Advice!Less, Advice!AtLeast

LEMMA FinesAre ==
  ASSUME NEW c
  PROVE  Advice!Penalties(c) =
           (IF c.quant.rank <= 3 THEN 40000 ELSE 0) + (IF c.mode = "offload" THEN 25000 ELSE 0)
             + (IF c.context < 4 THEN 30000 ELSE 0) + (IF c.headroom < 150 THEN 15000 ELSE 0)
BY DEF Advice!Penalties

\* In one mode, more room left and less of the model on the host score no worse.
LEMMA SameModeNoWorse ==
  ASSUME NEW c, NEW d, NEW mo, c.quant = d.quant, c.context = d.context, c.mode = d.mode,
         c.mode \in {"gpu", "offload", "cpu"}, c.quant.rank \in Nat,
         c.headroom \in Nat /\ c.headroom <= 1000, d.headroom \in Nat /\ d.headroom <= 1000, c.headroom <= d.headroom,
         c.offloaded \in Nat /\ c.offloaded <= 1000, d.offloaded \in Nat /\ d.offloaded <= 1000, d.offloaded <= c.offloaded
  PROVE  NoWorse(c, d, mo)
<1>1. PICK h \in Nat, g \in Nat :
        /\ h <= 1000 /\ g <= 1000
        /\ h = c.headroom /\ g = d.headroom
  OBVIOUS
<1>2. PICK o \in Nat, p \in Nat :
        /\ o <= 1000 /\ p <= 1000
        /\ o = c.offloaded /\ p = d.offloaded
  OBVIOUS
<1>3. PICK fit \in Nat, fit2 \in Nat :
        /\ fit <= 1000 /\ fit2 <= 1000
        /\ fit = Advice!MemoryFit(c.headroom) /\ fit2 = Advice!MemoryFit(d.headroom)
  BY MarksBounded
<1>4. PICK log \in Nat :
        /\ log <= 1000
        /\ log = Advice!Log(c.context, mo)
  BY LogBounded
<1>5. PICK speed \in Nat, speed2 \in Nat :
        /\ speed <= 1000 /\ speed2 <= 1000
        /\ speed = Advice!Acceleration(c) /\ speed2 = Advice!Acceleration(d)
  BY MarksBounded
<1>6. h <= g /\ p <= o
  BY <1>1, <1>2
<1>7. fit <= fit2 \/ (h < 50 /\ fit = 100)
  <2>1. CASE 50 <= h
    <3>1. Advice!MemoryFit(h) <= Advice!MemoryFit(g)
      BY <1>6, <2>1, MarkGrows
    <3>2. fit = Advice!MemoryFit(h) /\ fit2 = Advice!MemoryFit(g)
      BY <1>1, <1>3
    <3>3. fit <= fit2
      BY <3>1, <3>2, Zenon
    <3> QED BY <3>3, Zenon
  <2>2. CASE h < 50
    BY <1>1, <1>3, <2>2, MarkIs
  <2> QED BY <2>1, <2>2
<1>8. speed <= speed2
  <2>1. (p * 300) \div 1000 <= (o * 300) \div 1000
    BY <1>6
  <2>2. (p * 300) \div 1000 \in Int /\ (o * 300) \div 1000 \in Int
    OBVIOUS
  <2>3. CASE c.mode = "offload"
    <3>1. speed = 400 - (o * 300) \div 1000 /\ speed2 = 400 - (p * 300) \div 1000
      BY <1>2, <1>5, <2>3 DEF Advice!Acceleration
    <3> QED BY <2>1, <2>2, <3>1
  <2>4. CASE c.mode # "offload"
    BY <1>5, <2>4 DEF Advice!Acceleration
  <2> QED BY <2>3, <2>4
<1> DEFINE common == (IF c.quant.rank <= 3 THEN 40000 ELSE 0)
                       + (IF c.mode = "offload" THEN 25000 ELSE 0)
                       + (IF c.context < 4 THEN 30000 ELSE 0)
<1>9. PICK fines \in Nat, fines2 \in Nat :
        /\ fines = Advice!Penalties(c) /\ fines2 = Advice!Penalties(d)
        /\ fines2 <= fines
  <2>1. common \in Nat
    OBVIOUS
  <2>2. /\ Advice!Penalties(c) = common + (IF h < 150 THEN 15000 ELSE 0)
        /\ Advice!Penalties(d) = common + (IF g < 150 THEN 15000 ELSE 0)
    BY <1>1, FinesAre
  <2> HIDE DEF common
  <2> QED BY <1>6, <2>1, <2>2
<1>10. PICK rank \in Nat : rank = c.quant.rank /\ rank = d.quant.rank
  OBVIOUS
<1> DEFINE base == rank * 3000 + log * 30
           sum == fit * 20 + base + speed * 20 - fines
           sum2 == fit2 * 20 + base + speed2 * 20 - fines2
<1>11. Advice!Score(c, mo) = IF sum > 0 THEN sum ELSE 0
  BY <1>3, <1>4, <1>5, <1>9, <1>10, ScoreSum
<1>12. Advice!Score(d, mo) = IF sum2 > 0 THEN sum2 ELSE 0
  BY <1>3, <1>4, <1>5, <1>9, <1>10, ScoreSum
<1>13. sum <= sum2 + (IF h < 50 THEN 2000 ELSE 0)
  BY <1>7, <1>8, <1>9
<1>14. Advice!Cliff = 2000
  BY DEF Advice!Cliff, Advice!MemoryFit
<1>15. sum \in Int /\ sum2 \in Int
  OBVIOUS
<1> HIDE DEF sum, sum2
<1> QED BY <1>1, <1>11, <1>12, <1>13, <1>14, <1>15 DEF NoWorse

\* Whole on the card is no worse than shared with the host, however full the card is: what
\* a shared model is fined outweighs the mark for memory.
LEMMA WholeNoWorse ==
  ASSUME NEW c, NEW d, NEW mo, c.quant = d.quant, c.context = d.context,
         c.mode = "offload", d.mode = "gpu", c.quant.rank \in Nat,
         c.headroom \in Nat /\ c.headroom <= 1000, d.headroom \in Nat /\ d.headroom <= 1000, c.offloaded \in Nat /\ c.offloaded <= 1000
  PROVE  NoWorse(c, d, mo)
<1>1. PICK h \in Nat, g \in Nat :
        /\ h <= 1000 /\ g <= 1000
        /\ h = c.headroom /\ g = d.headroom
  OBVIOUS
<1>2. PICK fit \in Nat :
        /\ fit <= 1000
        /\ fit = Advice!MemoryFit(c.headroom)
  BY MarksBounded
<1>3. PICK fit2 \in Nat :
        /\ fit2 <= 1000
        /\ fit2 = Advice!MemoryFit(d.headroom)
        /\ 150 <= g => 600 <= fit2
  BY <1>1, MarkIs
<1>4. PICK log \in Nat :
        /\ log <= 1000
        /\ log = Advice!Log(c.context, mo)
  BY LogBounded
<1>5. PICK speed \in Nat :
        /\ speed <= 400
        /\ speed = Advice!Acceleration(c)
  BY MarksBounded
<1>6. Advice!Acceleration(d) = 1000
  BY DEF Advice!Acceleration
<1> DEFINE common == (IF c.quant.rank <= 3 THEN 40000 ELSE 0) + (IF c.context < 4 THEN 30000 ELSE 0)
<1>7. common \in Nat
  OBVIOUS
<1>8. /\ Advice!Penalties(c) = common + 25000 + (IF h < 150 THEN 15000 ELSE 0)
      /\ Advice!Penalties(d) = common + (IF g < 150 THEN 15000 ELSE 0)
  BY <1>1, FinesAre
<1> HIDE DEF common
<1>9. PICK fines \in Nat, fines2 \in Nat :
        /\ fines = Advice!Penalties(c) /\ fines2 = Advice!Penalties(d)
        /\ fines >= fines2 + (IF g < 150 THEN 10000 ELSE 25000)
  BY <1>7, <1>8
<1>10. PICK rank \in Nat : rank = c.quant.rank /\ rank = d.quant.rank
  OBVIOUS
<1> DEFINE base == rank * 3000 + log * 30
           sum == fit * 20 + base + speed * 20 - fines
           sum2 == fit2 * 20 + base + 1000 * 20 - fines2
<1>11. Advice!Score(c, mo) = IF sum > 0 THEN sum ELSE 0
  BY <1>2, <1>4, <1>5, <1>9, <1>10, ScoreSum
<1>12. Advice!Score(d, mo) = IF sum2 > 0 THEN sum2 ELSE 0
  BY <1>3, <1>4, <1>6, <1>9, <1>10, ScoreSum
<1>13. sum <= sum2 + (IF h < 50 THEN 2000 ELSE 0)
  BY <1>1, <1>2, <1>3, <1>5, <1>9
<1>14. Advice!Cliff = 2000
  BY DEF Advice!Cliff, Advice!MemoryFit
<1>15. sum \in Int /\ sum2 \in Int
  OBVIOUS
<1> HIDE DEF sum, sum2
<1> QED BY <1>1, <1>11, <1>12, <1>13, <1>14, <1>15 DEF NoWorse

\* The figures of a cell.
CellQuant(n) == Advice!Quants[(n \div 7) + 1]
CellContext(n) == Advice!Checkpoints[(n % 7) + 1]
CellWeights(mo, n) == Advice!Weights(mo, CellQuant(n))
CellTotal(mo, n) ==
  LET w == CellWeights(mo, n)
      kv == Advice!KvCache(mo, CellContext(n))
  IN w + kv + Advice!Overhead(w, kv)

\* What can be done with the card k, or with the processor, which comes after the cards.
CardWays(mo, n, vram, host) ==
  Advice!PureGpu(CellQuant(n), CellContext(n), CellTotal(mo, n), vram)
    \cup Advice!Offload(mo, CellQuant(n), CellContext(n), CellTotal(mo, n), CellWeights(mo, n),
                        vram, host)
HostWays(mo, n, host) == Advice!PureCpu(CellQuant(n), CellContext(n), CellTotal(mo, n), host)
WaysAt(ma, mo, n, k) ==
  IF k \in DOMAIN ma.cards
  THEN CardWays(mo, n, Advice!UsableVram(ma.cards[k]), Advice!UsableRam(ma))
  ELSE HostWays(mo, n, Advice!UsableRam(ma))

LEMMA OptionsAre ==
  ASSUME NEW ma, NEW mo, NEW n
  PROVE  LET ways == Advice!Options(ma, mo, n)
         IN /\ DOMAIN ways = {k \in 1..(Len(ma.cards) + 1) :
                                 CellContext(n) <= mo.context /\ WaysAt(ma, mo, n, k) # {}}
            /\ \A k \in DOMAIN ways : ways[k] \in WaysAt(ma, mo, n, k)
<1> DEFINE fits == {k \in 1..(Len(ma.cards) + 1) :
                     CellContext(n) <= mo.context /\ WaysAt(ma, mo, n, k) # {}}
<1>1. Advice!Options(ma, mo, n) = [k \in fits |-> CHOOSE way \in WaysAt(ma, mo, n, k) : TRUE]
  BY DEF Advice!Options, WaysAt, CardWays, HostWays, CellQuant, CellContext, CellWeights, CellTotal
<1>2. \A k \in fits : (CHOOSE way \in WaysAt(ma, mo, n, k) : TRUE) \in WaysAt(ma, mo, n, k)
  OBVIOUS
<1> HIDE DEF fits
<1>3. DOMAIN Advice!Options(ma, mo, n) = fits
  BY <1>1
<1>4. \A k \in fits : Advice!Options(ma, mo, n)[k] \in WaysAt(ma, mo, n, k)
  BY <1>1, <1>2
<1> QED BY <1>3, <1>4 DEF fits

LEMMA CellNumbers ==
  ASSUME Advice!RecommendAssumption, NEW mo \in Catalog, NEW n \in 0..48
  PROVE  /\ CellQuant(n).rank \in Nat /\ CellWeights(mo, n) \in Nat /\ CellTotal(mo, n) \in Nat
         /\ CellWeights(mo, n) < CellTotal(mo, n)
<1>1. /\ mo.total \in Nat /\ mo.layers \in Nat /\ mo.heads \in Nat /\ mo.dim \in Nat
  BY DEF Advice!RecommendAssumption
<1>2. PICK i \in 1..7 : i = (n \div 7) + 1
  OBVIOUS
<1>3. PICK j \in 1..7 : j = (n % 7) + 1
  OBVIOUS
<1>4. CellQuant(n).rank \in Nat /\ CellQuant(n).bits \in Nat
  BY <1>2 DEF CellQuant, Advice!Quants
<1>5. CellContext(n) \in Nat
  BY <1>3 DEF CellContext, Advice!Checkpoints
<1>6. CellWeights(mo, n) \in Nat
  <2>1. mo.total * CellQuant(n).bits \in Nat
    BY <1>1, <1>4, TimesNat
  <2> QED BY <2>1, Quotient DEF CellWeights, Advice!Weights
<1>7. Advice!KvCache(mo, CellContext(n)) \in Nat
  <2>1. 4 * mo.layers \in Nat
    BY <1>1
  <2>2. 4 * mo.layers * mo.heads \in Nat
    BY <1>1, <2>1, TimesNat
  <2>3. 4 * mo.layers * mo.heads * mo.dim \in Nat
    BY <1>1, <2>2, TimesNat
  <2>4. 4 * mo.layers * mo.heads * mo.dim * CellContext(n) \in Nat
    BY <1>5, <2>3, TimesNat
  <2> QED BY <2>4, Quotient DEF Advice!KvCache
<1>8. PICK w \in Nat, kv \in Nat : w = CellWeights(mo, n) /\ kv = Advice!KvCache(mo, CellContext(n))
  BY <1>6, <1>7
<1>9. Advice!Overhead(w, kv) \in Nat /\ Advice!Overhead(w, kv) >= 384
  BY DEF Advice!Overhead, Advice!AtLeast
<1>10. CellTotal(mo, n) = w + kv + Advice!Overhead(w, kv)
  BY <1>8 DEF CellTotal
<1> QED BY <1>4, <1>8, <1>9, <1>10

\* The share of the experts is a share.
LEMMA ShareIs ==
  ASSUME Advice!RecommendAssumption, NEW mo \in Catalog
  PROVE  Advice!ExpertShare(mo) \in Nat /\ Advice!ExpertShare(mo) <= 950
<1>1. /\ mo.total \in Nat /\ mo.active \in Nat /\ mo.experts \in Nat /\ mo.used \in Nat
  BY DEF Advice!RecommendAssumption
<1> DEFINE none == \/ mo.experts = 0 \/ mo.used = 0 \/ mo.used >= mo.experts
                   \/ mo.active = 0 \/ mo.active >= mo.total
           x == (mo.total - mo.active) * mo.experts * 1000
           y == (mo.experts - mo.used) * mo.total
<1>2. Advice!ExpertShare(mo) = IF none THEN 0 ELSE Advice!AtMost(x \div y, 950)
  BY DEF Advice!ExpertShare
<1>3. CASE none
  BY <1>2, <1>3
<1>4. CASE ~none
  <2>1. mo.total - mo.active \in Nat /\ mo.experts - mo.used \in Nat /\ mo.experts - mo.used >= 1
    BY <1>1, <1>4
  <2>2. (mo.total - mo.active) * mo.experts \in Nat
    BY <1>1, <2>1, TimesNat
  <2>3. x \in Nat
    BY <2>2, TimesNat
  <2>4. y \in Nat
    BY <1>1, <2>1, TimesNat
  <2>5. y > 0
    <3>1. 1 * mo.total <= (mo.experts - mo.used) * mo.total
      BY <1>1, <2>1, TimesMonotone
    <3>2. mo.total > 0
      BY <1>1, <1>4
    <3> QED BY <1>1, <2>4, <3>1, <3>2
  <2> HIDE DEF x, y
  <2>6. x \div y \in Nat
    BY <2>3, <2>4, <2>5, Quotient
  <2> QED BY <1>2, <1>4, <2>6 DEF Advice!AtMost
<1> QED BY <1>3, <1>4

\* How a card and the host share a model: a mixture leaves its experts to the host and
\* takes a fixed part of the card, any other fills it.
Mixture(mo) == Advice!ExpertShare(mo) > 0
Resident(mo, n, vram) ==
  IF Mixture(mo)
  THEN CellTotal(mo, n) - (CellWeights(mo, n) * Advice!ExpertShare(mo)) \div 1000 ELSE vram
Shared(mo, n, vram, host) ==
  LET onCard == Resident(mo, n, vram)
      total == CellTotal(mo, n)
  IN Advice!Config(CellQuant(n), CellContext(n), "offload", onCard, total - onCard,
                   Advice!AtMost(Advice!Spare(vram, onCard), Advice!Spare(host, total - onCard)),
                   1000 - (onCard * 1000) \div total)

LEMMA SharedIs ==
  ASSUME NEW mo, NEW n, NEW vram \in Nat, NEW host \in Nat
  PROVE  LET onCard == Resident(mo, n, vram)
             total == CellTotal(mo, n)
             viable == IF Mixture(mo) THEN onCard <= vram ELSE vram >= (total * 15) \div 100
         IN Advice!Offload(mo, CellQuant(n), CellContext(n), total, CellWeights(mo, n), vram, host) =
              IF vram > 0 /\ total > vram /\ viable /\ total - onCard <= host
              THEN {Shared(mo, n, vram, host)} ELSE {}
BY DEF Advice!Offload, Resident, Mixture, Shared

LEMMA ResidentIs ==
  ASSUME Advice!RecommendAssumption, NEW mo \in Catalog, NEW n \in 0..48, NEW vram \in Nat
  PROVE  /\ Resident(mo, n, vram) \in Nat
         /\ Mixture(mo) => Resident(mo, n, vram) <= CellTotal(mo, n)
<1>1. PICK w \in Nat, total \in Nat, share \in Nat :
        /\ w = CellWeights(mo, n) /\ total = CellTotal(mo, n) /\ w < total
        /\ share = Advice!ExpertShare(mo) /\ share <= 950
  <2>1. /\ CellWeights(mo, n) \in Nat /\ CellTotal(mo, n) \in Nat
        /\ CellWeights(mo, n) < CellTotal(mo, n)
    BY CellNumbers
  <2>2. Advice!ExpertShare(mo) \in Nat /\ Advice!ExpertShare(mo) <= 950
    BY ShareIs
  <2> QED BY <2>1, <2>2
<1>2. w * share \in Nat
  BY TimesNat
<1>3. w * share <= w * 1000
  <2>1. share * w <= 1000 * w
    BY <1>1, TimesMonotone
  <2> QED BY <2>1
<1>4. (w * share) \div 1000 \in Nat
  BY <1>2, Quotient
<1>5. (w * share) \div 1000 <= w
  BY <1>2, <1>3, QuotientBelow
<1>6. Resident(mo, n, vram) = IF Mixture(mo) THEN total - (w * share) \div 1000 ELSE vram
  BY <1>1 DEF Resident
<1> HIDE DEF Mixture
<1> QED BY <1>1, <1>4, <1>5, <1>6

\* A share of the total, in thousandths, and what is left of it.
LEMMA HostPart ==
  ASSUME NEW part1 \in Nat, NEW part2 \in Nat, NEW total \in Nat, total > 0,
         part1 <= part2, part2 <= total
  PROVE  /\ (part1 * 1000) \div total \in Nat /\ (part2 * 1000) \div total \in Nat
         /\ (part1 * 1000) \div total <= (part2 * 1000) \div total
         /\ (part2 * 1000) \div total <= 1000
<1> DEFINE p == (part1 * 1000) \div total
           q == (part2 * 1000) \div total
<1>1. part1 * 1000 \in Nat /\ part2 * 1000 \in Nat /\ part1 * 1000 <= part2 * 1000
  OBVIOUS
<1>2. p \in Nat /\ p * total <= part1 * 1000
  BY <1>1, Quotient
<1>3. q \in Nat /\ part2 * 1000 < q * total + total
  BY <1>1, Quotient
<1>4. part2 * 1000 <= 1000 * total
  OBVIOUS
<1>5. q <= 1000
  BY <1>1, <1>4, QuotientBelow
<1> HIDE DEF p, q
<1>6. p <= q
  <2>1. SUFFICES ASSUME q + 1 <= p PROVE FALSE
    BY <1>2, <1>3
  <2>2. (q + 1) * total <= p * total
    BY <1>2, <1>3, <2>1, TimesMonotone
  <2>3. (q + 1) * total = q * total + total
    BY <1>3
  <2> QED BY <1>1, <1>2, <1>3, <2>2, <2>3
<1> QED BY <1>2, <1>3, <1>5, <1>6 DEF p, q

\* What is left free of memory that is filled is nothing.
LEMMA SpareOfAll == ASSUME NEW have \in Nat PROVE Advice!Spare(have, have) = 0
<1>1. CASE have = 0
  BY <1>1 DEF Advice!Spare
<1>2. CASE have # 0
  <2>1. Advice!Spare(have, have) = 0 \div have
    BY <1>2 DEF Advice!Spare, Advice!Less, Advice!AtLeast
  <2>2. 0 \div have \in Nat /\ 0 \div have <= 0
    BY <1>2, Quotient, QuotientBelow
  <2> QED BY <2>1, <2>2
<1> QED BY <1>1, <1>2

\* More room on the card and on the host leaves a shared model no worse.
LEMMA SharedNoWorse ==
  ASSUME Advice!RecommendAssumption, NEW mo \in Catalog, NEW n \in 0..48,
         NEW vram \in Nat, NEW more \in Nat, NEW host \in Nat, NEW room \in Nat,
         vram <= more, host <= room, more < CellTotal(mo, n),
         Mixture(mo) => Resident(mo, n, vram) <= vram,
         CellTotal(mo, n) - Resident(mo, n, vram) <= host
  PROVE  NoWorse(Shared(mo, n, vram, host), Shared(mo, n, more, room), mo)
<1>1. PICK total \in Nat, part1 \in Nat, part2 \in Nat :
        /\ total = CellTotal(mo, n) /\ total > 0
        /\ part1 = Resident(mo, n, vram) /\ part2 = Resident(mo, n, more)
  <2>1. CellTotal(mo, n) \in Nat /\ CellTotal(mo, n) > 0
    BY CellNumbers
  <2>2. Resident(mo, n, vram) \in Nat /\ Resident(mo, n, more) \in Nat
    BY ResidentIs
  <2> QED BY <2>1, <2>2
<1>2. part1 <= part2 /\ part2 <= more /\ part1 <= vram
  BY <1>1 DEF Resident
<1>3. part2 <= total /\ total - part1 \in Nat /\ total - part2 \in Nat /\ total - part2 <= total - part1
  BY <1>1, <1>2
<1>4. PICK o \in Nat, p \in Nat :
        /\ o = 1000 - (part1 * 1000) \div total /\ p = 1000 - (part2 * 1000) \div total
        /\ o <= 1000 /\ p <= 1000 /\ p <= o
  <2>1. /\ (part1 * 1000) \div total \in Nat /\ (part2 * 1000) \div total \in Nat
        /\ (part1 * 1000) \div total <= (part2 * 1000) \div total
        /\ (part2 * 1000) \div total <= 1000
    <3>1. total > 0 /\ part1 <= part2 /\ part2 <= total
      BY <1>1, <1>2, <1>3
    <3> QED BY <3>1, HostPart
  <2> QED BY <2>1
<1>5. PICK a \in Nat, b \in Nat :
        /\ a = Advice!Spare(vram, part1) /\ b = Advice!Spare(more, part2)
        /\ a <= 1000 /\ b <= 1000 /\ a <= b
  <2>1. CASE part1 = part2
    <3>1. part1 <= vram /\ vram <= more
      BY <1>2
    <3>2. /\ Advice!Spare(vram, part1) \in Nat /\ Advice!Spare(vram, part1) <= 1000
          /\ Advice!Spare(more, part1) \in Nat /\ Advice!Spare(more, part1) <= 1000
          /\ Advice!Spare(vram, part1) <= Advice!Spare(more, part1)
      <4>1. part1 <= more
        BY <3>1
      <4>2. Advice!Spare(vram, part1) <= Advice!Spare(more, part1)
        BY <3>1, SpareGrows
      <4>3. Advice!Spare(vram, part1) \in Nat /\ Advice!Spare(vram, part1) <= 1000
        BY <3>1, SpareIs
      <4>4. Advice!Spare(more, part1) \in Nat /\ Advice!Spare(more, part1) <= 1000
        BY <4>1, SpareIs
      <4> QED BY <4>2, <4>3, <4>4
    <3> QED BY <2>1, <3>2
  <2>2. CASE part1 # part2
    <3>1. part1 = vram /\ part2 = more
      BY <1>1, <2>2 DEF Resident
    <3>2. Advice!Spare(vram, part1) = 0 /\ Advice!Spare(more, part2) = 0
      BY <3>1, SpareOfAll
    <3> QED BY <3>2
  <2> QED BY <2>1, <2>2
<1>6. PICK e \in Nat, f \in Nat :
        /\ e = Advice!Spare(host, total - part1) /\ f = Advice!Spare(room, total - part2)
        /\ e <= 1000 /\ f <= 1000 /\ (part1 = part2 => e <= f)
  <2>0. PICK rest1 \in Nat, rest2 \in Nat : rest1 = total - part1 /\ rest2 = total - part2
    BY <1>3
  <2>1. rest1 <= host /\ rest2 <= room /\ host <= room
    BY <1>1, <1>3, <2>0
  <2>2. Advice!Spare(host, rest1) \in Nat /\ Advice!Spare(host, rest1) <= 1000
    BY <2>1, SpareIs
  <2>3. Advice!Spare(room, rest2) \in Nat /\ Advice!Spare(room, rest2) <= 1000
    BY <2>1, SpareIs
  <2>4. rest1 = rest2 => Advice!Spare(host, rest1) <= Advice!Spare(room, rest2)
    BY <2>1, SpareGrows
  <2> QED BY <1>3, <2>0, <2>2, <2>3, <2>4
<1> DEFINE c == Shared(mo, n, vram, host)
           d == Shared(mo, n, more, room)
<1>7. /\ c.quant = CellQuant(n) /\ c.context = CellContext(n) /\ c.mode = "offload"
      /\ d.quant = CellQuant(n) /\ d.context = CellContext(n) /\ d.mode = "offload"
  BY DEF Shared, Advice!Config
<1>8. c.offloaded = o /\ d.offloaded = p
  BY <1>1, <1>4 DEF Shared, Advice!Config
<1>9. c.headroom = Advice!AtMost(a, e) /\ d.headroom = Advice!AtMost(b, f)
  BY <1>1, <1>5, <1>6 DEF Shared, Advice!Config
<1>10. part1 # part2 => a = 0
  <2>1. part1 # part2 => part1 = vram
    BY <1>1 DEF Resident
  <2> QED BY <1>5, <2>1, SpareOfAll
<1>11. /\ c.headroom \in Nat /\ c.headroom <= 1000 /\ d.headroom \in Nat /\ d.headroom <= 1000
       /\ c.headroom <= d.headroom
  BY <1>5, <1>6, <1>9, <1>10 DEF Advice!AtMost
<1>12. CellQuant(n).rank \in Nat
  BY CellNumbers
<1> HIDE DEF c, d
<1>13. NoWorse(c, d, mo)
  BY <1>4, <1>7, <1>8, <1>11, <1>12, SameModeNoWorse
<1> QED BY <1>13 DEF c, d

\* What a shared model's way looks like.
SharedLike(c, n) ==
  /\ c.quant = CellQuant(n) /\ c.context = CellContext(n) /\ c.mode = "offload"
  /\ c.headroom \in Nat /\ c.headroom <= 1000 /\ c.offloaded \in Nat /\ c.offloaded <= 1000

LEMMA SharedShape ==
  ASSUME Advice!RecommendAssumption, NEW mo \in Catalog, NEW n \in 0..48,
         NEW vram \in Nat, NEW host \in Nat, vram < CellTotal(mo, n),
         Mixture(mo) => Resident(mo, n, vram) <= vram,
         CellTotal(mo, n) - Resident(mo, n, vram) <= host
  PROVE  SharedLike(Shared(mo, n, vram, host), n)
<1> DEFINE c == Shared(mo, n, vram, host)
<1>1. PICK total \in Nat, onCard \in Nat :
        total = CellTotal(mo, n) /\ total > 0 /\ onCard = Resident(mo, n, vram)
  <2>1. CellTotal(mo, n) \in Nat /\ CellTotal(mo, n) > 0
    BY CellNumbers
  <2>2. Resident(mo, n, vram) \in Nat
    BY ResidentIs
  <2> QED BY <2>1, <2>2
<1>2. onCard <= vram /\ onCard <= total /\ total - onCard \in Nat
  BY <1>1 DEF Resident
<1>3. PICK away \in Nat : away = 1000 - (onCard * 1000) \div total /\ away <= 1000
  <2>1. total > 0 /\ onCard <= onCard /\ onCard <= total
    BY <1>1, <1>2
  <2>2. (onCard * 1000) \div total \in Nat /\ (onCard * 1000) \div total <= 1000
    BY <2>1, HostPart
  <2> QED BY <2>2
<1>4. PICK a \in Nat : a = Advice!Spare(vram, onCard) /\ a <= 1000
  BY <1>2, SpareIs
<1>5. PICK e \in Nat : e = Advice!Spare(host, total - onCard) /\ e <= 1000
  <2>1. PICK rest \in Nat : rest = total - onCard
    BY <1>2
  <2>2. rest <= host
    BY <1>1, <2>1
  <2> QED BY <2>1, <2>2, SpareIs
<1>6. c.quant = CellQuant(n) /\ c.context = CellContext(n) /\ c.mode = "offload"
  BY DEF Shared, Advice!Config
<1>7. c.offloaded = away /\ c.headroom = Advice!AtMost(a, e)
  BY <1>1, <1>3, <1>4, <1>5 DEF Shared, Advice!Config
<1> HIDE DEF c
<1>8. Advice!AtMost(a, e) \in Nat /\ Advice!AtMost(a, e) <= 1000
  BY <1>4, <1>5 DEF Advice!AtMost
<1>9. SharedLike(c, n)
  BY <1>3, <1>6, <1>7, <1>8 DEF SharedLike
<1> QED BY <1>9 DEF c

\* A way that fits one machine has a way at the same place of a larger one that is no worse:
\* on a card, or on the processor alone.
LEMMA CardNoWorse ==
  ASSUME Advice!RecommendAssumption, NEW mo \in Catalog, NEW n \in 0..48,
         NEW vram \in Nat, NEW more \in Nat, NEW host \in Nat, NEW room \in Nat,
         vram <= more, host <= room, NEW c \in CardWays(mo, n, vram, host)
  PROVE  /\ CardWays(mo, n, more, room) # {}
         /\ \A d \in CardWays(mo, n, more, room) : NoWorse(c, d, mo)
<1>1. PICK total \in Nat : total = CellTotal(mo, n)
  BY CellNumbers
<1>2. CellQuant(n).rank \in Nat
  BY CellNumbers
<1> DEFINE Whole(v) == Advice!Config(CellQuant(n), CellContext(n), "gpu", total, 0,
                                     Advice!Spare(v, total), 0)
<1>3. \A v \in Nat : Advice!PureGpu(CellQuant(n), CellContext(n), total, v) =
                       IF v > 0 /\ total <= v THEN {Whole(v)} ELSE {}
  BY DEF Advice!PureGpu
<1>4. \A v \in Nat : /\ Whole(v).quant = CellQuant(n) /\ Whole(v).context = CellContext(n)
                     /\ Whole(v).mode = "gpu" /\ Whole(v).offloaded = 0
                     /\ Whole(v).headroom = Advice!Spare(v, total)
  BY DEF Advice!Config
<1> HIDE DEF Whole
<1>5. CASE c \in Advice!PureGpu(CellQuant(n), CellContext(n), total, vram)
  <2>1. vram > 0 /\ total <= vram /\ c = Whole(vram)
    BY <1>3, <1>5
  <2>2. CardWays(mo, n, more, room) = {Whole(more)}
    <3>1. Advice!PureGpu(CellQuant(n), CellContext(n), total, more) = {Whole(more)}
      BY <1>3, <2>1
    <3>2. ~(total > more)
      BY <2>1
    <3>3. Advice!Offload(mo, CellQuant(n), CellContext(n), total, CellWeights(mo, n), more, room) = {}
      BY <1>1, <3>2, SharedIs
    <3> QED BY <1>1, <3>1, <3>3 DEF CardWays
  <2>3. /\ Advice!Spare(vram, total) \in Nat /\ Advice!Spare(vram, total) <= 1000
        /\ Advice!Spare(more, total) \in Nat /\ Advice!Spare(more, total) <= 1000
        /\ Advice!Spare(vram, total) <= Advice!Spare(more, total)
    BY <2>1, SpareGrows
  <2>4. NoWorse(Whole(vram), Whole(more), mo)
    BY <1>2, <1>4, <2>3, SameModeNoWorse
  <2> QED BY <2>1, <2>2, <2>4
<1>6. CASE c \notin Advice!PureGpu(CellQuant(n), CellContext(n), total, vram)
  <2>1. c \in Advice!Offload(mo, CellQuant(n), CellContext(n), total, CellWeights(mo, n), vram, host)
    BY <1>1, <1>6 DEF CardWays
  <2>2. /\ vram > 0 /\ total > vram /\ c = Shared(mo, n, vram, host)
        /\ total - Resident(mo, n, vram) <= host
        /\ IF Mixture(mo) THEN Resident(mo, n, vram) <= vram ELSE vram >= (total * 15) \div 100
    BY <1>1, <2>1, SharedIs
  <2>3. CASE total <= more
    <3>1. CardWays(mo, n, more, room) = {Whole(more)}
      <4>1. Advice!PureGpu(CellQuant(n), CellContext(n), total, more) = {Whole(more)}
        BY <1>3, <2>2, <2>3
      <4>2. ~(total > more)
        BY <2>3
      <4>3. Advice!Offload(mo, CellQuant(n), CellContext(n), total, CellWeights(mo, n), more, room) = {}
        BY <1>1, <4>2, SharedIs
      <4> QED BY <1>1, <4>1, <4>3 DEF CardWays
    <3>2. Advice!Spare(more, total) \in Nat /\ Advice!Spare(more, total) <= 1000
      BY <2>3, SpareIs
    <3>3. /\ c.quant = CellQuant(n) /\ c.context = CellContext(n) /\ c.mode = "offload"
          /\ c.headroom \in Nat /\ c.headroom <= 1000 /\ c.offloaded \in Nat /\ c.offloaded <= 1000
      <4>1. /\ vram < CellTotal(mo, n) /\ (Mixture(mo) => Resident(mo, n, vram) <= vram)
            /\ CellTotal(mo, n) - Resident(mo, n, vram) <= host
        BY <1>1, <2>2
      <4>2. SharedLike(Shared(mo, n, vram, host), n)
        BY <4>1, SharedShape
      <4> QED BY <2>2, <4>2 DEF SharedLike
    <3>4. NoWorse(c, Whole(more), mo)
      BY <1>2, <1>4, <3>2, <3>3, WholeNoWorse
    <3> QED BY <3>1, <3>4
  <2>4. CASE more < total
    <3>1. CardWays(mo, n, more, room) = {Shared(mo, n, more, room)}
      <4>1. Advice!PureGpu(CellQuant(n), CellContext(n), total, more) = {}
        BY <1>3, <2>4
      <4>2. /\ Mixture(mo) => Resident(mo, n, more) = Resident(mo, n, vram)
            /\ ~Mixture(mo) => Resident(mo, n, more) = more /\ Resident(mo, n, vram) = vram
        BY DEF Resident
      <4>3. Resident(mo, n, more) \in Nat /\ Resident(mo, n, vram) \in Nat
        BY ResidentIs
      <4>4. /\ more > 0 /\ total > more /\ total - Resident(mo, n, more) <= room
            /\ IF Mixture(mo) THEN Resident(mo, n, more) <= more ELSE more >= (total * 15) \div 100
        BY <2>2, <2>4, <4>2, <4>3
      <4>5. Advice!Offload(mo, CellQuant(n), CellContext(n), total, CellWeights(mo, n), more, room) =
              {Shared(mo, n, more, room)}
        BY <1>1, <4>4, SharedIs
      <4> QED BY <1>1, <4>1, <4>5 DEF CardWays
    <3>2. NoWorse(c, Shared(mo, n, more, room), mo)
      BY <1>1, <2>2, <2>4, SharedNoWorse
    <3> QED BY <3>1, <3>2
  <2> QED BY <1>1, <2>3, <2>4
<1> QED BY <1>5, <1>6

LEMMA HostNoWorse ==
  ASSUME Advice!RecommendAssumption, NEW mo \in Catalog, NEW n \in 0..48,
         NEW host \in Nat, NEW room \in Nat, host <= room, NEW c \in HostWays(mo, n, host)
  PROVE  HostWays(mo, n, room) # {} /\ \A d \in HostWays(mo, n, room) : NoWorse(c, d, mo)
<1>1. PICK total \in Nat : total = CellTotal(mo, n)
  BY CellNumbers
<1>2. CellQuant(n).rank \in Nat
  BY CellNumbers
<1> DEFINE Alone(v) == Advice!Config(CellQuant(n), CellContext(n), "cpu", 0, total,
                                     Advice!Spare(v, total), 0)
<1>3. \A v \in Nat : HostWays(mo, n, v) = IF total <= v THEN {Alone(v)} ELSE {}
  BY <1>1 DEF HostWays, Advice!PureCpu
<1>4. \A v \in Nat : /\ Alone(v).quant = CellQuant(n) /\ Alone(v).context = CellContext(n)
                     /\ Alone(v).mode = "cpu" /\ Alone(v).offloaded = 0
                     /\ Alone(v).headroom = Advice!Spare(v, total)
  BY DEF Advice!Config
<1> HIDE DEF Alone
<1>5. total <= host /\ c = Alone(host)
  BY <1>3
<1>6. HostWays(mo, n, room) = {Alone(room)}
  <2>1. total <= room
    BY <1>5
  <2> QED BY <1>3, <2>1
<1>7. /\ Advice!Spare(host, total) \in Nat /\ Advice!Spare(host, total) <= 1000
      /\ Advice!Spare(room, total) \in Nat /\ Advice!Spare(room, total) <= 1000
      /\ Advice!Spare(host, total) <= Advice!Spare(room, total)
  BY <1>5, SpareGrows
<1>8. NoWorse(Alone(host), Alone(room), mo)
  BY <1>2, <1>4, <1>7, SameModeNoWorse
<1> QED BY <1>5, <1>6, <1>8

\* A card's figure, and a machine's.
LEMMA UsableIs ==
  ASSUME Advice!RecommendAssumption, NEW ma \in Machines
  PROVE  /\ Advice!UsableRam(ma) \in Nat /\ Len(ma.cards) \in Nat
         /\ DOMAIN ma.cards = 1..Len(ma.cards)
         /\ \A k \in DOMAIN ma.cards : Advice!UsableVram(ma.cards[k]) \in Nat
<1>1. ma.ram \in Nat /\ ma.available \in Nat /\ ma.cards \in Seq([total : Nat, free : Nat])
  BY DEF Advice!RecommendAssumption
<1>2. PICK ram \in Nat, available \in Nat : ram = ma.ram /\ available = ma.available
  BY <1>1
<1>3. ram \div 10 \in Nat
  OBVIOUS
<1>4. Advice!UsableRam(ma) \in Nat
  BY <1>2, <1>3 DEF Advice!UsableRam, Advice!AtMost, Advice!AtLeast, Advice!Less
<1>5. ASSUME NEW card \in [total : Nat, free : Nat] PROVE Advice!UsableVram(card) \in Nat
  <2>1. PICK total \in Nat, unused \in Nat : total = card.total /\ unused = card.free
    BY <1>5
  <2>2. total \div 10 \in Nat
    OBVIOUS
  <2> QED BY <2>1, <2>2 DEF Advice!UsableVram, Advice!AtLeast, Advice!Less
<1>6. /\ Len(ma.cards) \in Nat /\ DOMAIN ma.cards = 1..Len(ma.cards)
      /\ \A k \in DOMAIN ma.cards : ma.cards[k] \in [total : Nat, free : Nat]
  <2> DEFINE Figures == [total : Nat, free : Nat]
  <2> HIDE DEF Figures
  <2>1. PICK s \in Seq(Figures) : s = ma.cards
    BY <1>1 DEF Figures
  <2>2. Len(s) \in Nat /\ DOMAIN s = 1..Len(s) /\ \A k \in DOMAIN s : s[k] \in Figures
    OBVIOUS
  <2> QED BY <2>1, <2>2 DEF Figures
<1> QED BY <1>4, <1>5, <1>6

\* A machine with more of everything has more to use.
LEMMA UsableGrows ==
  ASSUME Advice!RecommendAssumption, NEW less \in Machines, NEW ma \in Machines,
         Advice!Smaller(less, ma)
  PROVE  /\ Len(less.cards) = Len(ma.cards)
         /\ Advice!UsableRam(less) <= Advice!UsableRam(ma)
         /\ \A k \in DOMAIN less.cards :
              Advice!UsableVram(less.cards[k]) <= Advice!UsableVram(ma.cards[k])
<1>1. PICK ram \in Nat, available \in Nat : ram = less.ram /\ available = less.available
  BY DEF Advice!RecommendAssumption
<1>2. PICK ram2 \in Nat, available2 \in Nat : ram2 = ma.ram /\ available2 = ma.available
  BY DEF Advice!RecommendAssumption
<1>3. ram <= ram2 /\ available <= available2
  BY <1>1, <1>2 DEF Advice!Smaller
<1> DEFINE kept1 == Advice!AtMost(Advice!AtLeast(ram \div 10, 1024), 4096)
           kept2 == Advice!AtMost(Advice!AtLeast(ram2 \div 10, 1024), 4096)
<1>4. PICK tenth \in Nat, tenth2 \in Nat : tenth = ram \div 10 /\ tenth2 = ram2 \div 10
  OBVIOUS
<1>5. tenth2 - tenth <= ram2 - ram
  BY <1>3, <1>4
<1>6. /\ kept1 \in Nat /\ kept2 \in Nat /\ kept2 - kept1 <= ram2 - ram
  BY <1>3, <1>4, <1>5 DEF Advice!AtMost, Advice!AtLeast
<1> HIDE DEF kept1, kept2
<1>7. /\ Advice!UsableRam(less) =
           Advice!AtMost(Advice!Less(ram, kept1 + 256), Advice!Less(available, 256))
      /\ Advice!UsableRam(ma) =
           Advice!AtMost(Advice!Less(ram2, kept2 + 256), Advice!Less(available2, 256))
  BY <1>1, <1>2 DEF Advice!UsableRam, kept1, kept2
<1>8. Advice!UsableRam(less) <= Advice!UsableRam(ma)
  BY <1>3, <1>6, <1>7 DEF Advice!AtMost, Advice!AtLeast, Advice!Less
<1> QED BY <1>8 DEF Advice!Smaller

\* Whatever a machine can run, a larger one can run at the same place, no worse.
LEMMA WaysNoWorse ==
  ASSUME Advice!RecommendAssumption, NEW less \in Machines, NEW ma \in Machines,
         Advice!Smaller(less, ma), NEW mo \in Catalog, NEW n \in 0..48,
         NEW k \in DOMAIN Advice!Options(less, mo, n)
  PROVE  /\ k \in DOMAIN Advice!Options(ma, mo, n)
         /\ NoWorse(Advice!Options(less, mo, n)[k], Advice!Options(ma, mo, n)[k], mo)
<1>1. /\ k \in 1..(Len(less.cards) + 1) /\ CellContext(n) <= mo.context
      /\ Advice!Options(less, mo, n)[k] \in WaysAt(less, mo, n, k)
  BY OptionsAre
<1>2. /\ Len(less.cards) = Len(ma.cards)
      /\ Advice!UsableRam(less) <= Advice!UsableRam(ma)
      /\ \A j \in DOMAIN less.cards :
           Advice!UsableVram(less.cards[j]) <= Advice!UsableVram(ma.cards[j])
  BY UsableGrows
<1>3. /\ Advice!UsableRam(less) \in Nat /\ DOMAIN less.cards = 1..Len(less.cards)
      /\ \A j \in DOMAIN less.cards : Advice!UsableVram(less.cards[j]) \in Nat
  BY UsableIs
<1>4. /\ Advice!UsableRam(ma) \in Nat /\ DOMAIN ma.cards = 1..Len(ma.cards)
      /\ \A j \in DOMAIN ma.cards : Advice!UsableVram(ma.cards[j]) \in Nat
  BY UsableIs
<1> DEFINE c == Advice!Options(less, mo, n)[k]
<1> HIDE DEF c
<1>5. c \in WaysAt(less, mo, n, k)
  BY <1>1 DEF c
<1>6. WaysAt(ma, mo, n, k) # {} /\ \A d \in WaysAt(ma, mo, n, k) : NoWorse(c, d, mo)
  <2>1. CASE k \in DOMAIN less.cards
    <3>1. k \in DOMAIN ma.cards
      BY <1>2, <1>3, <1>4, <2>1
    <3>2. c \in CardWays(mo, n, Advice!UsableVram(less.cards[k]), Advice!UsableRam(less))
      BY <1>5, <2>1 DEF WaysAt
    <3>3. WaysAt(ma, mo, n, k) =
            CardWays(mo, n, Advice!UsableVram(ma.cards[k]), Advice!UsableRam(ma))
      BY <3>1 DEF WaysAt
    <3>4. PICK v \in Nat, more \in Nat, host \in Nat, room \in Nat :
            /\ v = Advice!UsableVram(less.cards[k]) /\ more = Advice!UsableVram(ma.cards[k])
            /\ host = Advice!UsableRam(less) /\ room = Advice!UsableRam(ma)
            /\ v <= more /\ host <= room
      BY <1>2, <1>3, <1>4, <2>1, <3>1
    <3>5. c \in CardWays(mo, n, v, host) /\ v <= more /\ host <= room
      BY <3>2, <3>4
    <3>6. /\ CardWays(mo, n, more, room) # {}
          /\ \A d \in CardWays(mo, n, more, room) : NoWorse(c, d, mo)
      BY <3>5, CardNoWorse
    <3> QED BY <3>3, <3>4, <3>6
  <2>2. CASE k \notin DOMAIN less.cards
    <3>1. k \notin DOMAIN ma.cards
      BY <1>2, <1>3, <1>4, <2>2
    <3>2. PICK host \in Nat, room \in Nat :
            host = Advice!UsableRam(less) /\ room = Advice!UsableRam(ma) /\ host <= room
      BY <1>2, <1>3, <1>4
    <3>3. c \in HostWays(mo, n, host) /\ host <= room
      BY <1>5, <2>2, <3>2 DEF WaysAt
    <3>4. WaysAt(ma, mo, n, k) = HostWays(mo, n, room)
      BY <3>1, <3>2 DEF WaysAt
    <3>5. HostWays(mo, n, room) # {} /\ \A d \in HostWays(mo, n, room) : NoWorse(c, d, mo)
      BY <3>3, HostNoWorse
    <3> QED BY <3>4, <3>5
  <2> QED BY <2>1, <2>2
<1>7. k \in DOMAIN Advice!Options(ma, mo, n)
  <2>1. DOMAIN Advice!Options(ma, mo, n) = {j \in 1..(Len(ma.cards) + 1) :
          CellContext(n) <= mo.context /\ WaysAt(ma, mo, n, j) # {}}
    BY OptionsAre
  <2>2. k \in 1..(Len(ma.cards) + 1)
    BY <1>1, <1>2
  <2> QED BY <1>1, <1>6, <2>1, <2>2
<1>8. Advice!Options(ma, mo, n)[k] \in WaysAt(ma, mo, n, k)
  BY <1>7, OptionsAre
<1> QED BY <1>6, <1>7, <1>8 DEF c

\* What a way looks like, wherever it runs.
LEMMA WayShape ==
  ASSUME Advice!RecommendAssumption, NEW ma \in Machines, NEW mo \in Catalog, NEW n \in 0..48,
         NEW k \in DOMAIN Advice!Options(ma, mo, n)
  PROVE  LET c == Advice!Options(ma, mo, n)[k]
         IN c # Advice!NoPick /\ Advice!Score(c, mo) \in Nat
<1> DEFINE c == Advice!Options(ma, mo, n)[k]
<1>1. c \in WaysAt(ma, mo, n, k)
  BY OptionsAre
<1> HIDE DEF c
<1>2. /\ Advice!UsableRam(ma) \in Nat
      /\ \A j \in DOMAIN ma.cards : Advice!UsableVram(ma.cards[j]) \in Nat
  BY UsableIs
<1>3. PICK host \in Nat, total \in Nat : host = Advice!UsableRam(ma) /\ total = CellTotal(mo, n)
  BY <1>2, CellNumbers
<1>4. /\ c.mode \in {"gpu", "offload", "cpu"} /\ c.quant = CellQuant(n)
      /\ c.headroom \in Nat /\ c.headroom <= 1000 /\ c.offloaded \in Nat /\ c.offloaded <= 1000
  <2>1. CASE k \in DOMAIN ma.cards
    <3>1. PICK vram \in Nat : vram = Advice!UsableVram(ma.cards[k])
      BY <1>2, <2>1
    <3>2. c \in CardWays(mo, n, vram, host)
      BY <1>1, <1>3, <2>1, <3>1 DEF WaysAt
    <3>3. CASE c \in Advice!PureGpu(CellQuant(n), CellContext(n), total, vram)
      <4>1. /\ total <= vram
            /\ c = Advice!Config(CellQuant(n), CellContext(n), "gpu", total, 0,
                                 Advice!Spare(vram, total), 0)
        BY <3>3 DEF Advice!PureGpu
      <4>2. Advice!Spare(vram, total) \in Nat /\ Advice!Spare(vram, total) <= 1000
        BY <4>1, SpareIs
      <4>3. c.mode = "gpu" /\ c.quant = CellQuant(n) /\ c.offloaded = 0
            /\ c.headroom = Advice!Spare(vram, total)
        BY <4>1 DEF Advice!Config
      <4> QED BY <4>2, <4>3
    <3>4. CASE c \in Advice!Offload(mo, CellQuant(n), CellContext(n), total, CellWeights(mo, n), vram, host)
      <4>1. /\ vram < total /\ (Mixture(mo) => Resident(mo, n, vram) <= vram)
            /\ total - Resident(mo, n, vram) <= host /\ c = Shared(mo, n, vram, host)
        BY <1>3, <3>4, SharedIs
      <4>2. SharedLike(Shared(mo, n, vram, host), n)
        BY <1>3, <4>1, SharedShape
      <4> QED BY <4>1, <4>2 DEF SharedLike
    <3> QED BY <1>3, <3>2, <3>3, <3>4 DEF CardWays
  <2>2. CASE k \notin DOMAIN ma.cards
    <3>1. c \in Advice!PureCpu(CellQuant(n), CellContext(n), total, host)
      BY <1>1, <1>3, <2>2 DEF WaysAt, HostWays
    <3>2. /\ total <= host
          /\ c = Advice!Config(CellQuant(n), CellContext(n), "cpu", 0, total,
                               Advice!Spare(host, total), 0)
      BY <3>1 DEF Advice!PureCpu
    <3>3. Advice!Spare(host, total) \in Nat /\ Advice!Spare(host, total) <= 1000
      BY <3>2, SpareIs
    <3>4. c.mode = "cpu" /\ c.quant = CellQuant(n) /\ c.offloaded = 0
          /\ c.headroom = Advice!Spare(host, total)
      BY <3>2 DEF Advice!Config
    <3> QED BY <3>3, <3>4
  <2> QED BY <2>1, <2>2
<1>5. c # Advice!NoPick
  BY <1>4 DEF Advice!NoPick, Advice!Config
<1>6. Advice!Score(c, mo) \in Nat
  <2>1. /\ Advice!MemoryFit(c.headroom) \in Nat /\ Advice!Log(c.context, mo) \in Nat
        /\ Advice!Acceleration(c) \in Nat
    BY <1>4, MarksBounded
  <2>2. c.quant.rank \in Nat
    BY <1>4, CellNumbers
  <2>3. Advice!Penalties(c) \in Nat
    BY DEF Advice!Penalties
  <2> DEFINE sum == Advice!MemoryFit(c.headroom) * 20 + c.quant.rank * 3000
                      + Advice!Log(c.context, mo) * 30 + Advice!Acceleration(c) * 20
                      - Advice!Penalties(c)
  <2>4. Advice!Score(c, mo) = IF sum > 0 THEN sum ELSE 0
    BY <2>1, <2>2, <2>3, ScoreSum
  <2>5. sum \in Int
    BY <2>1, <2>2, <2>3
  <2> HIDE DEF sum
  <2> QED BY <2>4, <2>5
<1> QED BY <1>5, <1>6 DEF c

\* Of the ways to run a cell one leads: no other scores more.
LEMMA LeaderLeads ==
  ASSUME Advice!RecommendAssumption, NEW ma \in Machines, NEW mo \in Catalog, NEW n \in 0..48,
         DOMAIN Advice!Options(ma, mo, n) # {}
  PROVE  LET ways == Advice!Options(ma, mo, n)
             first == Advice!Leader(mo, ways)
         IN /\ first \in DOMAIN ways
            /\ \A k \in DOMAIN ways : Advice!Score(ways[k], mo) <= Advice!Score(ways[first], mo)
<1> DEFINE ways == Advice!Options(ma, mo, n)
           places == Len(ma.cards) + 1
           v == [k \in 1..places |-> IF k \in DOMAIN ways THEN Advice!Score(ways[k], mo) ELSE 0]
<1>1. places \in Nat
  BY UsableIs
<1>2. \A k \in DOMAIN ways : Advice!Score(ways[k], mo) \in Nat
  BY WayShape
<1>3. DOMAIN ways \subseteq 1..places
  BY OptionsAre
<1> HIDE DEF ways, places
<1>4. v \in [1..places -> Nat]
  BY <1>2
<1>5. \A k \in DOMAIN ways : v[k] = Advice!Score(ways[k], mo)
  BY <1>3
<1> HIDE DEF v
<1>6. PICK bound \in Nat : \A k \in 1..places : v[k] <= bound
  BY <1>1, <1>4, SequenceBounded
<1> DEFINE marks == {v[k] : k \in DOMAIN ways}
<1>7. marks \subseteq 0..bound /\ marks # {}
  <2>1. DOMAIN ways # {}
    BY DEF ways
  <2>2. \A k \in DOMAIN ways : v[k] \in Nat /\ v[k] <= bound
    BY <1>3, <1>4, <1>6
  <2> QED BY <2>1, <2>2
<1>8. PICK top \in marks : \A m \in marks : m <= top
  <2> HIDE DEF marks
  <2> QED BY <1>7, GreatestNatural
<1> DEFINE tops == {k \in DOMAIN ways : v[k] = top}
<1>9. tops \subseteq Nat /\ tops # {}
  BY <1>1, <1>3, <1>8
<1>10. PICK k0 \in tops : \A k \in tops : k0 <= k
  <2> HIDE DEF tops
  <2> QED BY <1>9, LeastNatural
<1> DEFINE Leads(k) == \A j \in DOMAIN ways :
             \/ Advice!Score(ways[j], mo) < Advice!Score(ways[k], mo)
             \/ Advice!Score(ways[j], mo) = Advice!Score(ways[k], mo) /\ k <= j
<1>11. Leads(k0)
  <2>0. top \in Nat
    BY <1>7, <1>8
  <2>1. SUFFICES ASSUME NEW j \in DOMAIN ways
                 PROVE  v[j] < v[k0] \/ (v[j] = v[k0] /\ k0 <= j)
    BY <1>5, <1>10
  <2>2. v[k0] = top /\ v[j] <= top /\ v[j] \in Nat
    BY <1>2, <1>5, <1>8, <1>10
  <2>3. CASE v[j] = top
    <3>1. j \in tops
      BY <2>3
    <3> QED BY <1>10, <2>2, <2>3, <3>1
  <2>4. CASE v[j] # top
    BY <2>0, <2>2, <2>4
  <2> QED BY <2>3, <2>4
<1> DEFINE first == Advice!Leader(mo, ways)
<1>12. first = CHOOSE k \in DOMAIN ways : Leads(k)
  BY DEF Advice!Leader
<1>13. first \in DOMAIN ways /\ Leads(first)
  <2>1. k0 \in DOMAIN ways
    BY <1>10
  <2> HIDE DEF first, Leads
  <2> QED BY <1>11, <1>12, <2>1
<1> HIDE DEF first
<1>14. \A k \in DOMAIN ways : Advice!Score(ways[k], mo) <= Advice!Score(ways[first], mo)
  BY <1>2, <1>13
<1> QED BY <1>13, <1>14 DEF ways, first

\* What is kept scores at least as much as what was held and as all that was just tried.
LEMMA KeepKeeps ==
  ASSUME Advice!RecommendAssumption, NEW ma \in Machines, NEW mo \in Catalog, NEW n \in 0..48,
         NEW held, held # Advice!NoPick => Advice!Score(held, mo) \in Nat
  PROVE  LET ways == Advice!Options(ma, mo, n)
             found == Advice!Keep(mo, held, ways)
         IN /\ found # Advice!NoPick => Advice!Score(found, mo) \in Nat
            /\ held # Advice!NoPick =>
                 found # Advice!NoPick /\ Advice!Score(held, mo) <= Advice!Score(found, mo)
            /\ \A k \in DOMAIN ways :
                 found # Advice!NoPick /\ Advice!Score(ways[k], mo) <= Advice!Score(found, mo)
<1> DEFINE ways == Advice!Options(ma, mo, n)
           found == Advice!Keep(mo, held, ways)
<1>1. CASE DOMAIN ways = {}
  <2>1. found = held
    BY <1>1 DEF Advice!Keep
  <2> HIDE DEF found, ways
  <2>2. held # Advice!NoPick => Advice!Score(held, mo) <= Advice!Score(held, mo)
    OBVIOUS
  <2> QED BY <1>1, <2>1, <2>2 DEF found, ways
<1>2. CASE DOMAIN ways # {}
  <2> DEFINE way == ways[Advice!Leader(mo, ways)]
  <2>1. \A k \in DOMAIN ways : Advice!Score(ways[k], mo) <= Advice!Score(way, mo)
    BY <1>2, LeaderLeads
  <2>2. way # Advice!NoPick /\ Advice!Score(way, mo) \in Nat
    <3>1. Advice!Leader(mo, ways) \in DOMAIN ways
      BY <1>2, LeaderLeads
    <3> QED BY <3>1, WayShape
  <2>3. \A k \in DOMAIN ways : Advice!Score(ways[k], mo) \in Nat
    BY WayShape
  <2>4. found = IF held = Advice!NoPick \/ Advice!Score(way, mo) > Advice!Score(held, mo)
                THEN way ELSE held
    BY <1>2 DEF Advice!Keep
  <2> HIDE DEF found, way, ways
  <2>5. CASE held = Advice!NoPick \/ Advice!Score(way, mo) > Advice!Score(held, mo)
    <3>1. found = way
      BY <2>4, <2>5
    <3>2. held # Advice!NoPick => Advice!Score(held, mo) <= Advice!Score(way, mo)
      BY <2>2, <2>5
    <3> QED BY <2>1, <2>2, <3>1, <3>2 DEF found, ways
  <2>6. CASE ~(held = Advice!NoPick \/ Advice!Score(way, mo) > Advice!Score(held, mo))
    <3>1. found = held
      BY <2>4, <2>6
    <3>2. Advice!Score(held, mo) \in Nat /\ Advice!Score(way, mo) <= Advice!Score(held, mo)
      BY <2>2, <2>6
    <3>3. \A k \in DOMAIN ways : Advice!Score(ways[k], mo) <= Advice!Score(held, mo)
      BY <2>1, <2>2, <2>3, <3>2
    <3>4. Advice!Score(held, mo) <= Advice!Score(held, mo)
      BY <3>2
    <3> QED BY <2>6, <3>1, <3>2, <3>3, <3>4 DEF found, ways
  <2> QED BY <2>5, <2>6
<1> QED BY <1>1, <1>2

\* The best so far is no worse than any way to run any cell gone through.
BestInv ==
  /\ machine \in Machines /\ model \in Catalog
  /\ cell \in Nat /\ cell <= 49
  /\ best # Advice!NoPick => Advice!Score(best, model) \in Nat
  /\ \A n \in 0..48 : n < cell =>
       \A k \in DOMAIN Advice!Options(machine, model, n) :
         /\ best # Advice!NoPick
         /\ Advice!Score(Advice!Options(machine, model, n)[k], model) <= Advice!Score(best, model)

LEMMA BestStep ==
  ASSUME Advice!RecommendAssumption, BestInv, [Advice!RecommendNext]_(Advice!recommendVars)
  PROVE  BestInv'
<1>1. CASE Advice!Start \/ Advice!Update \/ UNCHANGED Advice!recommendVars
  BY <1>1 DEF Advice!Start, Advice!Update, Advice!recommendVars, BestInv
<1>2. CASE Advice!Consider
  <2>1. /\ cell < 49 /\ cell' = cell + 1 /\ machine' = machine /\ model' = model
        /\ best' = Advice!Keep(model, best, Advice!Options(machine, model, cell))
    BY <1>2 DEF Advice!Consider
  <2>2. cell \in 0..48
    BY <2>1 DEF BestInv
  <2>3. machine \in Machines /\ model \in Catalog
        /\ (best # Advice!NoPick => Advice!Score(best, model) \in Nat)
    BY DEF BestInv
  <2>4. /\ best' # Advice!NoPick => Advice!Score(best', model) \in Nat
        /\ best # Advice!NoPick =>
             best' # Advice!NoPick /\ Advice!Score(best, model) <= Advice!Score(best', model)
        /\ \A k \in DOMAIN Advice!Options(machine, model, cell) :
             /\ best' # Advice!NoPick
             /\ Advice!Score(Advice!Options(machine, model, cell)[k], model) <=
                  Advice!Score(best', model)
    BY <2>1, <2>2, <2>3, KeepKeeps
  <2>5. ASSUME NEW n \in 0..48, n < cell', NEW k \in DOMAIN Advice!Options(machine, model, n)
        PROVE  /\ best' # Advice!NoPick
               /\ Advice!Score(Advice!Options(machine, model, n)[k], model) <= Advice!Score(best', model)
    <3>1. CASE n = cell
      BY <2>4, <2>5, <3>1
    <3>2. CASE n # cell
      <4>1. n < cell
        BY <2>1, <2>2, <2>5, <3>2
      <4>2. /\ best # Advice!NoPick
            /\ Advice!Score(Advice!Options(machine, model, n)[k], model) <= Advice!Score(best, model)
        BY <2>5, <4>1 DEF BestInv
      <4>3. Advice!Score(Advice!Options(machine, model, n)[k], model) \in Nat
        BY <2>3, <2>5, WayShape
      <4> QED BY <2>3, <2>4, <4>2, <4>3
    <3> QED BY <3>1, <3>2
  <2>6. cell' \in Nat /\ cell' <= 49
    BY <2>1, <2>2
  <2> QED BY <2>1, <2>3, <2>4, <2>5, <2>6 DEF BestInv
<1> QED BY <1>1, <1>2 DEF Advice!RecommendNext

\* For any machines and any catalogue: whatever way a machine with less of everything can
\* run a model, what is found for this one scores at least as much, the mark an unsafe
\* configuration is given aside (scorer.rs, evaluate_model and compute_score).
THEOREM MoreMemoryNeverHurts ==
  Advice!RecommendAssumption => (Advice!RecommendSpec => []MoreNeverHurts)
<1> SUFFICES ASSUME Advice!RecommendAssumption
             PROVE  Advice!RecommendSpec => []MoreNeverHurts
  OBVIOUS
<1>1. Advice!RecommendInit => BestInv
  BY DEF Advice!RecommendInit, BestInv
<1>2. BestInv /\ [Advice!RecommendNext]_(Advice!recommendVars) => BestInv'
  BY BestStep
<1>3. BestInv => MoreNeverHurts
  <2> SUFFICES ASSUME BestInv, cell = 49, NEW less \in Machines, Advice!Smaller(less, machine),
                      NEW n \in 0..48, NEW k \in DOMAIN Advice!Options(less, model, n)
               PROVE  LET c == Advice!Options(less, model, n)[k]
                      IN /\ best # Advice!NoPick
                         /\ Advice!Score(c, model) <=
                              Advice!Score(best, model) + (IF c.headroom < 50 THEN Advice!Cliff ELSE 0)
    BY DEF MoreNeverHurts, Advice!MoreNeverHurts, Advice!Finished
  <2> DEFINE c == Advice!Options(less, model, n)[k]
             d == Advice!Options(machine, model, n)[k]
  <2>1. machine \in Machines /\ model \in Catalog
    BY DEF BestInv
  <2>2. k \in DOMAIN Advice!Options(machine, model, n) /\ NoWorse(c, d, model)
    BY <2>1, WaysNoWorse
  <2>3. n < cell
    OBVIOUS
  <2>4. /\ best # Advice!NoPick /\ Advice!Score(d, model) <= Advice!Score(best, model)
        /\ Advice!Score(best, model) \in Nat
    BY <2>2, <2>3 DEF BestInv
  <2>5. Advice!Score(c, model) \in Nat /\ Advice!Score(d, model) \in Nat
    BY <2>1, <2>2, WayShape
  <2>6. Advice!Cliff \in Nat
    BY DEF Advice!Cliff, Advice!MemoryFit
  <2> HIDE DEF c, d
  <2>7. Advice!Score(c, model) <=
          Advice!Score(best, model) + (IF c.headroom < 50 THEN Advice!Cliff ELSE 0)
    BY <2>2, <2>4, <2>5, <2>6 DEF NoWorse
  <2> QED BY <2>4, <2>7 DEF c
<1> QED BY <1>1, <1>2, <1>3, PTL DEF Advice!RecommendSpec
===============================================================================
