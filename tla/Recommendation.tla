-------------------------- MODULE Recommendation --------------------------
(***************************************************************************)
(* The recommendation engine (model_recommendation/): a memory budget from *)
(* the hardware profile, an estimate of what a model needs at each         *)
(* quantization and context, the grid search that scores every way to run  *)
(* it, the grade of the pick, and the certification packs it is looked up  *)
(* in.                                                                     *)
(*                                                                         *)
(* Memory is in MiB, parameters in millions, contexts in units of 1024     *)
(* tokens, ratios in thousandths and scores in hundred-thousandths; the    *)
(* program's f64 arithmetic is rounded down to these.  Context lengths are *)
(* powers of two, so the logarithm of the score is exact.                  *)
(***************************************************************************)
EXTENDS Integers, FiniteSets, Sequences

CONSTANTS
  Machines,   \* sets of [ram, available, cards]; a card is [total, free]
  Catalog,    \* models: [id, total, active, experts, used, layers, heads, dim, context]
  Shipped     \* the versions that may be installed: what each carries

(* Every figure is a count.                                                *)
RecommendAssumption ==
  /\ \A m \in Machines : /\ m.ram \in Nat /\ m.available \in Nat
                         /\ m.cards \in Seq([total : Nat, free : Nat])
  /\ \A mo \in Catalog :
       {mo.total, mo.active, mo.experts, mo.used, mo.layers, mo.heads, mo.dim, mo.context}
         \subseteq Nat

VARIABLES
  machine,    \* the hardware profile of this scan
  model,      \* the model being evaluated
  cell,       \* number of grid cells evaluated so far
  best,       \* the best configuration found, NoPick before the first
  running,    \* the version that runs: [pack, profiles]
  onDisk,     \* app_data/packs/official_pack.json: {} or one pack
  packs       \* PackManager.packs; {} while the application is not running

recommendVars == <<machine, model, cell, best, running, onDisk, packs>>

AtLeast(a, b) == IF a > b THEN a ELSE b
AtMost(a, b) == IF a < b THEN a ELSE b
Less(a, b) == AtLeast(a - b, 0)          \* saturating_sub

---------------------------------------------------------------------------
(* The budget (budget.rs).                                                 *)

UsableRam(m) ==
  LET reservation == AtMost(AtLeast(m.ram \div 10, 1024), 4096)
  IN AtMost(Less(m.ram, reservation + 256), Less(m.available, 256))

(* The telemetry's free figure is taken as it is, without a reserve; a     *)
(* figure of zero, or one as large as the card, counts as no telemetry.    *)
UsableVram(card) ==
  IF card.total = 0 THEN 0
  ELSE IF card.free > 0 /\ card.free < card.total THEN card.free
  ELSE Less(card.total, AtLeast(card.total \div 10, 256))

---------------------------------------------------------------------------
(* The estimate (estimator.rs).                                            *)

Quants == <<[bits |-> 850, rank |-> 8], [bits |-> 650, rank |-> 7],
            [bits |-> 550, rank |-> 6], [bits |-> 485, rank |-> 5],
            [bits |-> 450, rank |-> 4], [bits |-> 350, rank |-> 3],
            [bits |-> 250, rank |-> 2]>>

Checkpoints == <<2, 4, 8, 16, 32, 64, 128>>
Steps(context) == Cardinality({d \in {4, 8, 16, 32, 64, 128, 256, 512, 1024} : d <= context})

Weights(mo, quant) == (mo.total * quant.bits) \div 839
KvCache(mo, context) == (4 * mo.layers * mo.heads * mo.dim * context) \div 1024
Overhead(w, kv) == AtLeast(((w + kv) * 12) \div 100, 384)

(* The routed experts' share, in thousandths; 0 when the figures give none.*)
ExpertShare(mo) ==
  IF \/ mo.experts = 0 \/ mo.used = 0 \/ mo.used >= mo.experts
     \/ mo.active = 0 \/ mo.active >= mo.total
  THEN 0
  ELSE AtMost(((mo.total - mo.active) * mo.experts * 1000)
                \div ((mo.experts - mo.used) * mo.total), 950)

---------------------------------------------------------------------------
(* The score and the grade (scorer.rs).                                    *)

Log(context, mo) ==
  IF mo.context <= 2 THEN 1000
  ELSE AtMost((Steps(context) * 1000) \div AtLeast(Steps(mo.context), 1), 1000)

(* Mutant: memory left free is waste.                                      *)
MemoryFitUtilised(headroom) == IF headroom < 50 THEN 100 ELSE 1000 - headroom

MemoryFit(headroom) ==
  IF headroom < 50 THEN 100 ELSE AtMost(((headroom - 50) * 1000) \div 150, 1000)

Acceleration(c) ==
  CASE c.mode = "gpu"     -> 1000
    [] c.mode = "offload" -> 400 - (c.offloaded * 300) \div 1000
    [] c.mode = "cpu"     -> 50

Penalties(c) ==
  (IF c.quant.rank <= 3 THEN 40000 ELSE 0)
    + (IF c.mode = "offload" THEN 25000 ELSE 0)
    + (IF c.context < 4 THEN 30000 ELSE 0)
    + (IF c.headroom < 150 THEN 15000 ELSE 0)

Score(c, mo) ==
  Less(MemoryFit(c.headroom) * 20 + c.quant.rank * 100 * 30
         + Log(c.context, mo) * 30 + Acceleration(c) * 20,
       Penalties(c))

Category(c) ==
  IF /\ c.headroom >= 150 /\ c.quant.rank >= 4
     /\ c.mode = "gpu" \/ (c.mode = "offload" /\ c.offloaded <= 200)
  THEN "recommended"
  ELSE IF c.headroom >= 50 /\ c.quant.rank >= 3 THEN "compatible"
  ELSE "may_run"

---------------------------------------------------------------------------
(* Every way to run one cell, in the order evaluate_model tries them.      *)

Config(quant, context, mode, vram, ram, headroom, offloaded) ==
  [quant |-> quant, context |-> context, mode |-> mode, vram |-> vram, ram |-> ram,
   headroom |-> headroom, offloaded |-> offloaded]

Spare(have, need) == IF have = 0 THEN 0 ELSE (Less(have, need) * 1000) \div have

PureGpu(quant, context, total, vram) ==
  IF vram > 0 /\ total <= vram
  THEN {Config(quant, context, "gpu", total, 0, Spare(vram, total), 0)}
  ELSE {}

(* A mixture's experts move to the host and everything else stays on the   *)
(* card; any other model is split in proportion, from 15 % on the card.    *)
Offload(mo, quant, context, total, w, vram, host) ==
  LET experts == (w * ExpertShare(mo)) \div 1000
      moe == ExpertShare(mo) > 0
      onCard == IF moe THEN total - experts ELSE vram
      onHost == total - onCard
      viable == IF moe THEN onCard <= vram ELSE vram >= (total * 15) \div 100
  IN IF vram > 0 /\ total > vram /\ viable /\ onHost <= host
     THEN {Config(quant, context, "offload", onCard, onHost,
                  AtMost(Spare(vram, onCard), Spare(host, onHost)),
                  1000 - (onCard * 1000) \div total)}
     ELSE {}

PureCpu(quant, context, total, host) ==
  IF total <= host
  THEN {Config(quant, context, "cpu", 0, total, Spare(host, total), 0)}
  ELSE {}

(* A card takes the model whole or shares it with the host; the processor  *)
(* alone is tried last.  Options maps each attempt that fits to its way.    *)
Options(ma, mo, n) ==
  LET quant == Quants[(n \div 7) + 1]
      context == Checkpoints[(n % 7) + 1]
      w == Weights(mo, quant)
      kv == KvCache(mo, context)
      total == w + kv + Overhead(w, kv)
      host == UsableRam(ma)
      Ways(k) == IF k \in DOMAIN ma.cards
                 THEN LET vram == UsableVram(ma.cards[k])
                      IN PureGpu(quant, context, total, vram)
                           \cup Offload(mo, quant, context, total, w, vram, host)
                 ELSE PureCpu(quant, context, total, host)
      fits == {k \in 1..(Len(ma.cards) + 1) : context <= mo.context /\ Ways(k) # {}}
  IN [k \in fits |-> CHOOSE way \in Ways(k) : TRUE]

NoPick == Config([bits |-> 0, rank |-> 0], 0, "none", 0, 0, 0, 0)

(* Only a strictly higher score replaces the configuration in hand: the     *)
(* first of the highest is kept.                                            *)
Leader(mo, options) ==
  CHOOSE k \in DOMAIN options : \A j \in DOMAIN options :
    \/ Score(options[j], mo) < Score(options[k], mo)
    \/ Score(options[j], mo) = Score(options[k], mo) /\ k <= j

Keep(mo, held, options) ==
  IF DOMAIN options = {} THEN held
  ELSE LET way == options[Leader(mo, options)]
       IN IF held = NoPick \/ Score(way, mo) > Score(held, mo) THEN way ELSE held

(* What becomes of the best configuration: a recommendation with its grade. *)
Recommended == IF best = NoPick THEN "none" ELSE Category(best)

---------------------------------------------------------------------------
(* Certification packs (pack_manager.rs).  A version carries a pack, a set *)
(* of certificates [model, profile, hash], runtime profiles [id, template, *)
(* pinned], and the oldest pinned version it accepts, minimum.  The copy in app_data is read first and wins; it is seeded   *)
(* once, from the version that first finds it missing.  The profiles are   *)
(* always the running version's.                                           *)

LoadPacks == /\ packs' = IF onDisk # {} THEN onDisk ELSE {running.pack}
             /\ onDisk' = IF onDisk # {} THEN onDisk ELSE {running.pack}

(* Names are compared with their separators removed, either containing the *)
(* other: here, equal.  The first certificate that matches is the one.     *)
Certificates(mo) == {c \in UNION packs : c.model = mo.id}
Certificate(mo) == CHOOSE c \in Certificates(mo) : TRUE

(* The stages a model passes before a load, unless the developer's         *)
(* override skips them (runtime_validator.rs).  A model without a          *)
(* certificate, or with one that names a profile that is                   *)
(* not installed, runs on the compatibility defaults.  Mutant first: such  *)
(* a certificate refuses the load.                                         *)
VerdictStrict(mo) ==
  IF Certificates(mo) = {} THEN "defaults"
  ELSE LET c == Certificate(mo)
       IN IF {p \in running.profiles : p.id = c.profile} = {} THEN "no_profile" ELSE "certified"

Verdict(mo) ==
  IF Certificates(mo) = {} THEN "defaults"
  ELSE LET c == Certificate(mo)
           profile == {p \in running.profiles : p.id = c.profile}
       IN IF c.profile = "" THEN "stage1"
          ELSE IF profile = {} THEN "defaults"
          ELSE IF ~c.hash THEN "stage2"
          ELSE IF \E p \in profile : p.pinned < running.minimum THEN "stage3"
          ELSE IF \E p \in profile : ~p.template THEN "stage4"
          ELSE "certified"

(* What a version ships stands up to its own validator (sidecars/packs/     *)
(* official_pack.json and sidecars/runtime_profiles): a certificate names a *)
(* profile and carries a hash, and the profile, if it is there, has its     *)
(* template and is not too old.  Of profiles that no certificate of the     *)
(* version names any more, nothing is known.                                *)
ShippedAssumption ==
  \A v \in Shipped : \A c \in v.pack :
    /\ c.profile # "" /\ c.hash
    /\ \A p \in v.profiles : p.id = c.profile => p.template /\ ~(p.pinned < v.minimum)

---------------------------------------------------------------------------
RecommendInit ==
  /\ machine \in Machines /\ model \in Catalog
  /\ cell = 0 /\ best = NoPick
  /\ running \in Shipped /\ onDisk = {} /\ packs = {}

(* PackManager::new at application start.                                  *)
Start ==
  /\ packs = {}
  /\ LoadPacks
  /\ UNCHANGED <<machine, model, cell, best, running>>

(* The application is closed and another version is installed.             *)
Update ==
  /\ packs # {} /\ cell = 0
  /\ running' \in Shipped \ {running}
  /\ packs' = {}
  /\ UNCHANGED <<machine, model, cell, best, onDisk>>

(* One cell of the grid: a quantization at a context.                      *)
Consider ==
  /\ packs # {} /\ cell < 49
  /\ best' = Keep(model, best, Options(machine, model, cell))
  /\ cell' = cell + 1
  /\ UNCHANGED <<machine, model, running, onDisk, packs>>

RecommendNext == Start \/ Update \/ Consider
RecommendSpec == RecommendInit /\ [][RecommendNext]_recommendVars

Finished == cell = 49

---------------------------------------------------------------------------
Smaller(a, b) ==
  /\ a.ram <= b.ram /\ a.available <= b.available
  /\ Len(a.cards) = Len(b.cards)
  /\ \A i \in DOMAIN a.cards : UsableVram(a.cards[i]) <= UsableVram(b.cards[i])

(* What being safe at all costs in the score: below 5 % free a             *)
(* configuration gets a tenth of the memory mark, at 5 % it gets none.     *)
Cliff == MemoryFit(0) * 20

(* More memory never costs a model its recommendation, nor its score by    *)
(* more than that cliff: whatever way a machine with less of everything    *)
(* can run it, what is found scores at least as much, or nearly, where     *)
(* that way is an unsafe one (evaluate_model and compute_score; the        *)
(* penalties and the thresholds of the score must not cross).              *)
MoreNeverHurts ==
  Finished => \A less \in Machines : Smaller(less, machine) =>
    \A n \in 0..48 : LET ways == Options(less, model, n) IN \A k \in DOMAIN ways :
      /\ best # NoPick
      /\ Score(ways[k], model) <= Score(best, model) + (IF ways[k].headroom < 50 THEN Cliff ELSE 0)

(* The same without the allowance, which the code does not grant: a few    *)
(* MiB more can lower the score of what is found.                          *)
MoreNeverLowers ==
  Finished => \A less \in Machines : Smaller(less, machine) =>
    \A n \in 0..48 : LET ways == Options(less, model, n) IN \A k \in DOMAIN ways :
      Score(ways[k], model) <= Score(best, model)

(* A certificate refuses a load only when it comes from another version    *)
(* than the one that runs, and of a profile that version has given up:     *)
(* still there, too old or incomplete, and named by none of its own        *)
(* certificates.  Whatever versions were installed one after the other     *)
(* (runtime_validator.rs; the pack is the first version's, the profiles    *)
(* are the last one's).                                                    *)
RefusalIsStale ==
  packs # {} /\ Verdict(model) \notin {"defaults", "certified"} =>
    /\ Verdict(model) \in {"stage3", "stage4"}
    /\ \A own \in running.pack : own.profile # Certificate(model).profile

(* Not so of the code: "Degrade the same way and say so, rather than       *)
(* dead-ending", lest a certified model be "less loadable than an unknown  *)
(* one".  A certificate seeded by an older version can meet a profile that *)
(* the version after an update no longer accepts.                          *)
CertifiedStillLoads == packs # {} => Verdict(model) \in {"defaults", "certified"}

(* scorer.rs: "Without this the scorer trades headroom for context until   *)
(* it lands just below the threshold, producing its own highest-scoring    *)
(* configuration and then having it graded Compatible": when some way to   *)
(* run a model earns the top grade, the pick has it.                       *)
PickHasTopGrade ==
  Finished /\ Recommended \notin {"none", "recommended"} =>
    \A n \in 0..48 : LET ways == Options(machine, model, n) IN \A k \in DOMAIN ways :
      Category(ways[k]) # "recommended"
===========================================================================
