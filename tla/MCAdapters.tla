----------------------------- MODULE MCAdapters -----------------------------
(* A LoRA adapter's way, in four parts: Conversion turns a downloaded one    *)
(* into what llama.cpp reads, AdapterStore keeps which slot it serves,       *)
(* Capability decides which slot a turn asks for, KvSession holds the        *)
(* context it is applied to.  A behaviour is of one part; the others stay as *)
(* they begin.                                                               *)
EXTENDS KvSession, TLC

CONSTANTS
  Repositories, Bases, Installers, MaxKills,
  Slots, Signals, Enter, Exit, MaxUnsupported, Verdicts,
  Caps, Repos, None, Absent, Torn, Offered, Actors, Stated, Named, Judged, Discovered, Operations,
  MaxOps, MaxLaunches,
  coding, math, r1, r2, r3, ta, tb

VARIABLES
  part,
  repo, base, pc, folder, recorded, status, kills,
  active, unsupported, packaged, usable, question, badge, lapsed,
  manifest, disk, source, marker, actor, ops, launches

Convert == INSTANCE Conversion
Tracker == INSTANCE Capability WITH turn <- question
Registry == INSTANCE AdapterStore

ASSUME /\ KvAssumption /\ Convert!PagesAssumption /\ Tracker!ThresholdAssumption
       /\ Registry!DistinctAssumption /\ Registry!InferenceAssumption
       /\ Registry!OfferedAssumption /\ Registry!BoundAssumption

installVars == <<repo, base, pc, folder, recorded, status, kills>>
capVars == <<active, unsupported, packaged, usable, question, badge, lapsed>>
storeVars == <<manifest, disk, source, marker, actor, ops, launches>>

PartInit ==
  /\ part \in {"store", "conversion", "capability", "session"}
  /\ Init /\ Convert!InstallInit /\ Tracker!CapInit /\ Registry!Init
  /\ part # "conversion" => /\ repo = CHOOSE x \in Repositories : TRUE
                            /\ base = CHOOSE x \in Bases : TRUE
  /\ part # "capability" => usable = {}

PartNext ==
  \/ part = "store" /\ Registry!Next /\ UNCHANGED <<part, vars, installVars, capVars>>
  \/ part = "conversion" /\ Convert!InstallNext /\ UNCHANGED <<part, vars, capVars, storeVars>>
  \/ part = "capability" /\ Tracker!CapNext /\ UNCHANGED <<part, vars, installVars, storeVars>>
  \/ part = "session" /\ Next /\ UNCHANGED <<part, installVars, capVars, storeVars>>

PartSpec == PartInit /\ [][PartNext]_<<part, vars, installVars, capVars, storeVars>>

(* A converted adapter is there whole or not at all.                         *)
ConvertedIsWhole == Convert!ConvertedIsWhole

(* The slot in use changes only when something has earned it.                *)
ChangeIsEarned == Tracker!ChangeIsEarned

(* What a turn would bind is in the inventory.                               *)
BoundIsInventoried == Registry!BoundIsInventoried

(* Nothing automatic takes a live slot over.                                 *)
LiveSlotsKept == Registry!LiveSlotsKept

-----------------------------------------------------------------------------
(* Two slots and three repositories for the store.  Tags call all of them    *)
(* coding adapters; the second one's name says nothing, and Laya would file  *)
(* it under mathematics; the third is also what the sweep finds for coding.  *)
MCStated == (r1 :> coding) @@ (r2 :> coding) @@ (r3 :> coding)
MCNamed == (r1 :> coding) @@ (r2 :> None) @@ (r3 :> coding)
MCJudged == (r1 :> coding) @@ (r2 :> math) @@ (r3 :> coding)
MCDiscovered == (coding :> r3) @@ (math :> None)
MCOperations ==
  {"install", "remove", "assign", "set_default", "scan", "laya", "sweep", "load"}

(* Adapter pages: a PEFT adapter, one that is ready to use, one that says it *)
(* is a model, one with a tensor that has no counterpart, a DoRA, one        *)
(* without a config and one without tensors.                                 *)
Tensor(module, layer, factor, kind, length) ==
  [module |-> module, layer |-> layer, factor |-> factor, kind |-> kind, length |-> length]
Factors == {Tensor("q_proj", "0", "a", "bf16", 24), Tensor("q_proj", "0", "b", "f16", 64)}
MCPeft ==
  [ready |-> FALSE, config |-> TRUE, dora |-> FALSE, peft |-> "lora", declares |-> "lora",
   large |-> TRUE,
   tensors |-> Factors \cup {Tensor("lm_head", "", "b", "f32", 40),
                             Tensor("q_proj", "0", "", "f32", 8)}]
MCRepositories ==
  {MCPeft, [MCPeft EXCEPT !.ready = TRUE, !.tensors = {}],
   [MCPeft EXCEPT !.ready = TRUE, !.declares = "model"],
   [MCPeft EXCEPT !.tensors = @ \cup {Tensor("rotary", "0", "a", "f32", 8)}],
   [MCPeft EXCEPT !.dora = TRUE], [MCPeft EXCEPT !.config = FALSE],
   [MCPeft EXCEPT !.tensors = {}]}

(* Keywords strong and weak for two slots, and what Laya may say of a turn.  *)
MCSlots == <<"coding", "reasoning">>
Signal(slot, weight) == [slot |-> slot, weight |-> weight]
MCSignals == {Signal("coding", 20), Signal("coding", 15), Signal("reasoning", 25),
              Signal("reasoning", 6)}
MCVerdicts == [intent : {"coding", "general"}, confidence : {30, 45, 90}]

(* Two tokens are enough for prompts that agree and then diverge.            *)
MCTokens == {ta, tb}
=============================================================================
