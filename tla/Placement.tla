------------------------------- MODULE Placement -------------------------------
(* Where a model's weights go: the hardware scan (system_analyzer), the GGUF    *)
(* header (gguf_meta.rs), the plan (vram_planner.rs and build_load_config) and  *)
(* the load itself (InferenceRuntime::load_model). Memory is counted in MiB,    *)
(* contexts in units of 1024 tokens and their cost per token in KiB, so that    *)
(* their product is again MiB; parameters are counted in Mi.                    *)
EXTENDS Integers, Sequences, FiniteSets, FiniteSetsExt, SequencesExt

CONSTANTS
    Cards,      \* the machine's adapters, as they really are
    Memories,   \* the states of system RAM a scan may find: [total, available]
    Packages,   \* the installed packages a load may be asked for
    Floors,     \* context floors a client may declare (0: none)
    Listers,    \* what may list the adapters: "dxgi", "cim" or "smi"
    Compiled,   \* the binary holds a GPU backend
    MaxLoads    \* bound: loads in a behaviour

Scanners == {"startup", "user", "loader"}

VARIABLES
    profile,    \* SystemAnalyzerManager.profile
    scanning,   \* SystemAnalyzerManager.is_scanning
    scan,       \* each scanning thread's step
    free,       \* memory really free on each card
    load,       \* the load in progress
    loaded,     \* InferenceRuntime.loaded_info and what llama.cpp did with it
    loads       \* loads begun

placeVars == <<profile, scanning, scan, free, load, loaded, loads>>

Lower(a, b) == IF a < b THEN a ELSE b
Upper(a, b) == IF a < b THEN b ELSE a
Minus(a, b) == Upper(a - b, 0)          \* saturating_sub
Twelfth(x) == (x * 12) \div 100         \* COMPUTE_OVERHEAD_FRACTION

NoProfile == [gpus |-> {}, ram |-> 0, cores |-> 0]
NoConfig == [gpu |-> 0, moe |-> 0, context |-> 0, threads |-> 0]
NoPlan == [usable |-> 0, was |-> 0, ram |-> 0]
Idle == [pc |-> "idle", pkg |-> CHOOSE p \in Packages : TRUE, floor |-> 0,
         config |-> NoConfig, plan |-> NoPlan]
Empty == [is |-> FALSE, reported |-> NoConfig, applied |-> NoConfig, fallback |-> FALSE]

PlaceInit ==
    /\ profile = NoProfile /\ scanning = FALSE
    /\ scan = [s \in Scanners |-> IF s = "startup" THEN "called" ELSE "off"]
    /\ free = [c \in Cards |-> c.total]
    /\ load = Idle /\ loaded = Empty /\ loads = 0

----------------------------------------------------------------------------
(* The hardware scan.                                                          *)

\* query_dxgi_adapters: a dedicated card's free figure is its size, an
\* integrated one's is the system memory it may share.
ListedByDxgi(c) ==
    [was |-> free[c], dedicated |-> c.dedicated, total |-> c.total, free |-> c.total,
     backend |-> c.backend]

\* query_cim_videocontroller, when DXGI lists nothing: half the memory is free.
ListedByCim(c) == [ListedByDxgi(c) EXCEPT !.dedicated = c.total > 1024, !.free = c.total \div 2]

\* The enrichment with nvidia-smi only fills in a free figure that is 0.
Enriched(c, g) ==
    IF c.nvidia THEN [g EXCEPT !.free = IF @ = 0 THEN free[c] ELSE @, !.backend = TRUE] ELSE g

\* query_nvidia_smi, the primary source elsewhere.
ListedBySmi(c) ==
    [was |-> free[c], dedicated |-> TRUE, total |-> c.total, free |-> free[c], backend |-> TRUE]

\* detect_gpus; its stand-in for no adapter at all is never a candidate.
Detected(lister) ==
    CASE lister = "dxgi" -> {Enriched(c, ListedByDxgi(c)) : c \in Cards}
      [] lister = "cim" -> {Enriched(c, ListedByCim(c)) : c \in Cards}
      [] lister = "smi" -> {ListedBySmi(c) : c \in {d \in Cards : d.nvidia}}

\* calculate_budget's usable_for_inference.
UsableRam(m) ==
    LET os == Lower(Upper(m.total \div 10, 1024), 4096)
    IN  Lower(Minus(m.total, os + 256), Minus(m.available, 256))

\* The command that analyses the system, once in a behaviour.
CallScan ==
    /\ scan["user"] = "off"
    /\ scan' = [scan EXCEPT !["user"] = "called"]
    /\ UNCHANGED <<profile, scanning, free, load, loaded, loads>>

\* compare_exchange on is_scanning.
BeginScan(s) ==
    /\ scan[s] = "called"
    /\ scanning' = TRUE
    /\ scan' = [scan EXCEPT ![s] = IF scanning THEN "waiting" ELSE "running"]
    /\ UNCHANGED <<profile, free, load, loaded, loads>>

\* A waiter returns the profile once no scan runs and there is one.
Join(s) ==
    /\ scan[s] = "waiting" /\ ~scanning /\ profile # NoProfile
    /\ scan' = [scan EXCEPT ![s] = "done"]
    /\ UNCHANGED <<profile, scanning, free, load, loaded, loads>>

\* After a hundred looks it scans for itself, without taking the flag.
StopWaiting(s) ==
    /\ scan[s] = "waiting"
    /\ scan' = [scan EXCEPT ![s] = "running"]
    /\ UNCHANGED <<profile, scanning, free, load, loaded, loads>>

\* The rest of analyze_system, and Guard's drop.
EndScan(s) ==
    /\ scan[s] = "running"
    /\ \/ \E m \in Memories, lister \in Listers :
              /\ profile' = [gpus |-> Detected(lister), ram |-> UsableRam(m), cores |-> 4]
              /\ scan' = [scan EXCEPT ![s] = "done"]
       \/ /\ scan' = [scan EXCEPT ![s] = "failed"]
          /\ UNCHANGED profile
    /\ scanning' = FALSE
    /\ UNCHANGED <<free, load, loaded, loads>>

\* override_value "gpus": the user describes a machine without one.
Override ==
    /\ profile # NoProfile
    /\ profile' = [profile EXCEPT !.gpus = {}]
    /\ UNCHANGED <<scanning, scan, free, load, loaded, loads>>

\* The desktop or another program takes half of a card, or gives it back.
Occupy(c) ==
    /\ c.nvidia
    /\ free' = [free EXCEPT ![c] = IF @ = c.total THEN c.total \div 2 ELSE c.total]
    /\ UNCHANGED <<profile, scanning, scan, load, loaded, loads>>

----------------------------------------------------------------------------
(* The GGUF header. A header is a function from the keys it declares, without   *)
(* their architecture prefix, to their values.                                 *)

Get(h, key, default) == IF key \in DOMAIN h THEN h[key] ELSE default

Role(h) ==
    IF Get(h, "type", "none") \in {"adapter", "lora"} THEN "adapter"
    ELSE IF \/ Get(h, "type", "none") \in {"projector", "clip", "mmproj"}
            \/ \E k \in DOMAIN h : k \in {"target_hidden_size", "target_layers", "clip"}
    THEN "auxiliary"
    ELSE "model"

\* parse_gguf_metadata and from_kv fail on a broken header and on a model that
\* does not say how many blocks it has.
Readable(h) ==
    /\ "magic" \in DOMAIN h /\ "architecture" \in DOMAIN h
    /\ Role(h) = "model" => "block_count" \in DOMAIN h

Layers(h) == Get(h, "block_count", 0)
Experts(h) == Get(h, "expert_count", 0)
KvHeads(h) == Get(h, "head_count_kv", Get(h, "head_count", 0))
HeadDim(h) ==
    LET heads == Get(h, "head_count", 0)
    IN  IF heads = 0 THEN 0 ELSE (1024 * Get(h, "embedding", 0)) \div heads

\* kv_bytes_per_token, in KiB.
KvPerToken(h) ==
    (Layers(h) * KvHeads(h) * 2 *
        (Get(h, "key_length", HeadDim(h)) + Get(h, "value_length", HeadDim(h)))) \div 1024

\* expert_params: embedding and expert_ff are in units of 1024.
ExpertParams(h) ==
    Layers(h) * Experts(h) * 3 * Get(h, "embedding", 0) * Get(h, "expert_ff", 0)

\* expert_bytes: the experts' share of the file, at most MAX_EXPERT_FRACTION.
ExpertSize(h, size) ==
    LET all == Get(h, "parameter_count", 0)
    IN  IF ExpertParams(h) = 0 \/ all = 0 THEN 0
        ELSE Lower((size * ((ExpertParams(h) * 100) \div all)) \div 100, (size * 95) \div 100)

----------------------------------------------------------------------------
(* The planner.                                                                *)

OsReserve == 900
FullOffload == 999
MinViable == 2
Usable(vram) == Minus(vram, OsReserve)

\* estimate_kv_bytes_per_token
Banded(size) ==
    IF size < 1024 THEN 32 ELSE IF size < 3072 THEN 64 ELSE IF size < 8192 THEN 160 ELSE 256

\* The exact cost when the header gave one.
PerToken(h, size) ==
    IF Readable(h) /\ KvPerToken(h) > 0 THEN KvPerToken(h) ELSE Banded(size)

\* Mutant of WeightBudget: the cache is not charged.
WeightBudgetOnly(vram, kv) == Minus(Usable(vram), Twelfth(Usable(vram)))

WeightBudget(vram, kv) ==
    LET rest == Minus(Usable(vram), kv) IN Minus(rest, Twelfth(rest))

\* plan_gpu_offload
DenseLayers(h, vram, size, context) ==
    LET budget == WeightBudget(vram, PerToken(h, size) * Upper(context, 1))
        layers == IF Readable(h) THEN Upper(Layers(h), 1) ELSE 32
    IN  IF size = 0 \/ Usable(vram) < 512 \/ budget = 0 THEN 0
        ELSE IF budget >= size THEN FullOffload
        ELSE (budget * layers) \div size

\* plan_moe_offload: how many layers' experts go to system RAM, or -1.
MoeLayers(h, vram, ram, size, context) ==
    LET layers  == Upper(Layers(h), 1)
        experts == ExpertSize(h, size)
        budget  == WeightBudget(vram, KvPerToken(h) * Upper(context, 1))
        per     == experts \div layers
        deficit == size - budget
        needed  == (deficit + per - 1) \div per
    IN  IF \/ experts = 0 \/ size = 0 \/ experts + 512 > ram
           \/ Usable(vram) < 512 \/ budget = 0
        THEN -1
        ELSE IF budget >= size THEN 0
        ELSE IF per = 0 \/ needed > layers THEN -1
        ELSE Lower(needed + 1, layers)

\* max_affordable_context
Affordable(h, vram, size, desired) ==
    LET left == Minus(Minus(Usable(vram), size), Twelfth(Usable(vram)))
        least == Lower(MinViable, desired)
    IN  IF vram = 0 \/ desired = 0 THEN desired
        ELSE IF size = 0 \/ left = 0 THEN least
        ELSE Lower(Upper(left \div PerToken(h, size), least), desired)

\* plan_context
PlannedContext(requested, floor) == Lower(requested, Upper(8, floor))

\* model_bytes_on_disk: what the shards measure, else the manifest's record.
SizeOnDisk(pkg) ==
    LET measured == FoldLeft(LAMBDA a, b : a + b, 0, pkg.shards)
    IN  IF measured = 0 THEN pkg.recorded ELSE measured

\* usable_vram_bytes
Budget(g) == IF g.free > 0 THEN g.free ELSE g.total

\* select_inference_gpu: a dedicated card first, then the larger budget.
Candidates(gpus) == {g \in gpus : g.backend /\ Budget(g) > 0}
Selected(gpus) ==
    CHOOSE g \in Candidates(gpus) : \A o \in Candidates(gpus) :
        \/ g.dedicated /\ ~o.dedicated
        \/ g.dedicated = o.dedicated /\ Budget(g) >= Budget(o)

\* Sizes and counts are unsigned; a machine has finitely many adapters.
Counts == {"block_count", "expert_count", "head_count", "head_count_kv", "key_length",
           "value_length", "embedding", "expert_ff", "parameter_count"}
PlacementAssumption ==
    /\ IsFiniteSet(Cards)
    /\ \A c \in Cards : /\ c.total \in Nat
                        /\ {c.dedicated, c.backend, c.nvidia} \subseteq BOOLEAN
    /\ \A m \in Memories : m.total \in Nat /\ m.available \in Nat
    /\ \A p \in Packages :
           /\ \A k \in Counts : k \in DOMAIN p.header => p.header[k] \in Nat
           /\ SizeOnDisk(p) \in Nat /\ p.requested \in Nat
           /\ p.certified.is \in BOOLEAN
           /\ p.certified.layers \in Nat /\ p.certified.context \in Nat
    /\ Floors \subseteq Nat /\ Listers \subseteq {"dxgi", "cim", "smi"}

----------------------------------------------------------------------------
(* The load.                                                                   *)

Goto(pc) == load' = [load EXCEPT !.pc = pc]

BeginLoad(pkg, floor) ==
    /\ load.pc \in {"idle", "over"} /\ loads < MaxLoads
    /\ loads' = loads + 1
    /\ load' = [Idle EXCEPT !.pc = "build", !.pkg = pkg, !.floor = floor]
    /\ UNCHANGED <<profile, scanning, scan, free, loaded>>

\* Detection is demanded, not merely read.
DemandScan ==
    /\ load.pc = "build" /\ profile = NoProfile
    /\ scan' = [scan EXCEPT !["loader"] = "called"]
    /\ Goto("scan")
    /\ UNCHANGED <<profile, scanning, free, loaded, loads>>

\* The placement of a package on the profile: layers on the card, layers whose
\* experts are not, and the context.
Placed(pkg, floor) ==
    LET h       == pkg.header
        size    == SizeOnDisk(pkg)
        context == PlannedContext(pkg.requested, floor)
        has     == Candidates(profile.gpus) # {}
        vram    == IF has THEN Budget(Selected(profile.gpus)) ELSE 0
        moe     == IF has /\ Readable(h) /\ Experts(h) > 0
                   THEN MoeLayers(h, vram, profile.ram, size, context) ELSE -1
        layers  == CASE ~has -> 0
                     [] moe >= 0 -> FullOffload
                     [] OTHER -> DenseLayers(h, vram, size, context)
    IN  [gpu     |-> IF pkg.certified.is THEN Lower(layers, pkg.certified.layers) ELSE layers,
         moe     |-> Upper(moe, 0),
         context |-> IF pkg.certified.is THEN Affordable(h, vram, size, pkg.certified.context)
                     ELSE context,
         threads |-> Upper(profile.cores, 1)]

\* build_load_config
Plan ==
    /\ \/ load.pc = "build" /\ profile # NoProfile
       \/ load.pc = "scan" /\ scan["loader"] \in {"done", "failed"}
    /\ load' = [load EXCEPT
           !.pc = "load",
           !.config = Placed(load.pkg, load.floor),
           !.plan = IF Candidates(profile.gpus) = {} THEN NoPlan
                    ELSE [usable |-> Budget(Selected(profile.gpus)),
                          was |-> Selected(profile.gpus).was, ram |-> profile.ram]]
    /\ UNCHANGED <<profile, scanning, scan, free, loaded, loads>>

\* The preflight: magic, role and shards.
Refused(pkg) ==
    \/ "magic" \notin DOMAIN pkg.header
    \/ Readable(pkg.header) /\ Role(pkg.header) # "model"
    \/ \E i \in DOMAIN pkg.shards : pkg.shards[i] = 0

\* What load_from_file is asked for.
Effective(config) == IF Compiled THEN config ELSE [config EXCEPT !.gpu = 0, !.moe = 0]

\* unload_model, then each way load_model can go.
LoadModel ==
    /\ load.pc = "load"
    /\ LET asked == Effective(load.config)
           onCpu == [asked EXCEPT !.gpu = 0, !.moe = 0]
       IN \/ /\ ~Refused(load.pkg)
             /\ loaded' = [is |-> TRUE, reported |-> asked, applied |-> asked, fallback |-> FALSE]
          \/ /\ ~Refused(load.pkg)
             /\ loaded' = [is |-> TRUE, reported |-> asked, applied |-> onCpu, fallback |-> TRUE]
          \/ loaded' = Empty
    /\ load' = [Idle EXCEPT !.pc = "over"]
    /\ UNCHANGED <<profile, scanning, scan, free, loads>>

Unload ==
    /\ loaded.is /\ load.pc \in {"idle", "over"}
    /\ loaded' = Empty
    /\ UNCHANGED <<profile, scanning, scan, free, load, loads>>

ScanStep(s) == BeginScan(s) \/ Join(s) \/ StopWaiting(s) \/ EndScan(s)

PlaceNext ==
    \/ \E s \in Scanners : ScanStep(s)
    \/ CallScan \/ Override
    \/ \E c \in Cards : Occupy(c)
    \/ \E pkg \in Packages, floor \in Floors : BeginLoad(pkg, floor)
    \/ DemandScan \/ Plan \/ LoadModel \/ Unload

PlaceSpec == PlaceInit /\ [][PlaceNext]_placeVars

----------------------------------------------------------------------------
(* Properties.                                                                 *)

\* The weights on the card when the last layers go there and the experts of the
\* first n do not.
OnCard(pkg, config) ==
    LET h      == pkg.header
        size   == SizeOnDisk(pkg)
        layers == Upper(Layers(h), 1)
        on     == Lower(config.gpu, layers)
        pinned == Upper(config.moe - (layers - on), 0)
    IN  (size * on) \div layers - pinned * (ExpertSize(h, size) \div layers)

\* A certified package is given the least of its certificate's contexts however little
\* fits, and the layers were planned for a shorter one the user set.
Overruled(pkg) ==
    pkg.certified.is /\ pkg.requested < Lower(MinViable, pkg.certified.context)

\* However a package is placed - densely or by expert, certified or not, for a
\* client's floor or without one - the weights and the cache the load will
\* allocate on the card fit the budget it was planned with, and the experts left
\* in system RAM fit the budget of the host, unless a certificate overruled the user.
PlacementFits ==
    load.pc = "load" /\ Readable(load.pkg.header) /\ load.config.gpu > 0
    /\ ~Overruled(load.pkg) =>
        LET h == load.pkg.header IN
        /\ OnCard(load.pkg, load.config) + KvPerToken(h) * load.config.context
               <= Usable(load.plan.usable)
        /\ load.config.moe > 0 => ExpertSize(h, SizeOnDisk(load.pkg)) + 512 <= load.plan.ram

\* LoadedModelInfo reports what was applied, not what was requested
\* (runtime.rs: "Report what was actually applied, not what was requested.").
ReportedIsApplied == loaded.is => loaded.reported = loaded.applied

\* The budget is what the card could give when it was scanned ("VRAM this GPU can
\* actually give the model right now", manager.rs).
BudgetWasFree == load.pc = "load" => load.plan.usable <= load.plan.was
================================================================================
