----------------------------- MODULE MCLoading -----------------------------
(* What has to be up before a turn can run, in four parts that meet only    *)
(* through the figures they hand on: Recommendation grades what may be      *)
(* downloaded or certified for this machine, Placement plans one load,      *)
(* ModelHost runs the commands that load, reload and unload, LayaRouter     *)
(* boots the classifier and asks it.  A behaviour is of one part; the       *)
(* others stay as they begin.                                               *)
EXTENDS ModelHost, LayaRouter, TLC

CONSTANTS
  Cards, Memories, Packages, Floors, Listers, Compiled, MaxLoads,
  Machines, Catalog, Shipped,
  m1, m2, m3

VARIABLES
  part,
  profile, scanning, scan, free, load, loaded, loads,
  machine, model, cell, best, running, onDisk, packs

Planning == INSTANCE Placement
Advice == INSTANCE Recommendation

ASSUME /\ PipeRoomAssumption /\ Planning!PlacementAssumption
       /\ Advice!RecommendAssumption /\ Advice!ShippedAssumption

placeVars == <<profile, scanning, scan, free, load, loaded, loads>>
recommendVars == <<machine, model, cell, best, running, onDisk, packs>>
allVars == <<part, hostVars, placeVars, recommendVars, routerVars>>

Init ==
  /\ part \in {"host", "placement", "recommendation", "laya"}
  /\ HostInit /\ Planning!PlaceInit /\ Advice!RecommendInit /\ RouterInit
  /\ part # "recommendation" =>
       /\ machine = CHOOSE x \in Machines : TRUE
       /\ model = CHOOSE x \in Catalog : TRUE
       /\ running = CHOOSE x \in Shipped : TRUE

(* A behaviour of the host rests once its commands have all returned, and   *)
(* at no other time: a deadlock among them is an error of the run.          *)
Next ==
  \/ /\ part = "host" /\ HostNext
     /\ UNCHANGED <<part, placeVars, recommendVars, routerVars>>
  \/ /\ part = "placement" /\ Planning!PlaceNext
     /\ UNCHANGED <<part, hostVars, recommendVars, routerVars>>
  \/ /\ part = "recommendation" /\ Advice!RecommendNext
     /\ UNCHANGED <<part, hostVars, placeVars, routerVars>>
  \/ /\ part = "laya" /\ RouterNext
     /\ UNCHANGED <<part, hostVars, placeVars, recommendVars>>
  \/ (part = "host" => Quiescent /\ issued = MaxCommands) /\ UNCHANGED allVars

(* RouterFairness, for the part it is about.                                *)
Spec ==
  /\ Init /\ [][Next]_allVars
  /\ \A c \in Callers : SF_routerVars(part = "laya" /\ CallerStep(c))
  /\ WF_routerVars(part = "laya" /\ BootStep)
  /\ WF_routerVars(part = "laya" /\ ReaderStep)

(* What a planned load puts on the card and leaves in RAM fits both.        *)
PlacementFits == Planning!PlacementFits

(* More memory never costs a model its recommendation, nor its safe score.   *)
MoreNeverHurts == Advice!MoreNeverHurts

(* Only another version's certificate refuses a load.                       *)
RefusalIsStale == Advice!RefusalIsStale

----------------------------------------------------------------------------
(* Three packages for the host: one whose profile advertises more than it   *)
(* was trained for, one shipped with a certified profile, one whose header  *)
(* says nothing.  Its context lengths are in units of half the working      *)
(* context: 2 is DEFAULT_WORKING_CONTEXT.                                   *)
MCModels == {m1, m2, m3}
MCAdvertised == m1 :> 5 @@ m2 :> 3 @@ m3 :> 3
MCTrained == m1 :> 4 @@ m2 :> 0 @@ m3 :> 0
MCCertified == m1 :> 0 @@ m2 :> 2 @@ m3 :> 0

(* Packages to place: a dense model, the same with a certified profile, a   *)
(* mixture in three shards, and one whose header cannot be read; a small    *)
(* card and an integrated one.                                              *)
Uncertified == [is |-> FALSE, layers |-> 0, context |-> 0]
MCDense ==
  [header |-> [magic |-> TRUE, architecture |-> TRUE, block_count |-> 36, head_count |-> 32,
               head_count_kv |-> 8, key_length |-> 128, value_length |-> 128, embedding |-> 3],
   shards |-> <<2400>>, recorded |-> 0, requested |-> 32, certified |-> Uncertified]
MCCertifiedPackage ==
  [MCDense EXCEPT !.certified = [is |-> TRUE, layers |-> 30, context |-> 32], !.requested = 2]
MCMixture ==
  [header |-> [magic |-> TRUE, architecture |-> TRUE, block_count |-> 24, head_count |-> 64,
               head_count_kv |-> 8, key_length |-> 64, value_length |-> 64, embedding |-> 3,
               expert_count |-> 32, expert_ff |-> 3, parameter_count |-> 21000],
   shards |-> <<4000, 4000, 4000>>, recorded |-> 12000, requested |-> 128,
   certified |-> Uncertified]
MCUnreadable ==
  [MCDense EXCEPT !.header = [magic |-> TRUE], !.shards = <<0>>, !.recorded = 2400]
MCPackages == {MCDense, MCCertifiedPackage, MCMixture, MCUnreadable,
               [MCCertifiedPackage EXCEPT !.requested = 1]}
MCCards == {[total |-> 4096, dedicated |-> TRUE, backend |-> TRUE, nvidia |-> TRUE],
            [total |-> 13000, dedicated |-> FALSE, backend |-> TRUE, nvidia |-> FALSE]}
MCMemories == {[total |-> 16384, available |-> 15000]}

(* Models to recommend, machines with ever more of everything, the last two *)
(* on the two sides of the cliff for one of the models, and two versions of *)
(* the application, whose packs name other profiles; the later one still    *)
(* has the first one's, which it takes for too old.                         *)
Candidate(id, total, active, experts, used, layers, heads, dim, context) ==
  [id |-> id, total |-> total, active |-> active, experts |-> experts, used |-> used,
   layers |-> layers, heads |-> heads, dim |-> dim, context |-> context]
MCCatalog == {Candidate("llama1b", 1235, 0, 0, 0, 16, 8, 64, 128),
              Candidate("gemma9b", 9240, 0, 0, 0, 42, 8, 256, 8),
              Candidate("oss", 20900, 3600, 32, 4, 24, 8, 64, 128),
              Candidate("short", 3000, 0, 0, 0, 32, 32, 96, 4)}
Computer(ram, available, cards) == [ram |-> ram, available |-> available, cards |-> cards]
OneCard(vram) == <<[total |-> vram, free |-> 0]>>
MCMachines ==
  {Computer(16384, 15000, OneCard(v)) : v \in {0, 2048, 4096, 6144, 8192}}
    \cup {Computer(32768, 30000, OneCard(v)) : v \in {0, 2048, 4096, 6144, 8192, 16384}}
    \cup {Computer(8192, 6000, <<[total |-> 8192, free |-> 3000]>>),
          Computer(8192, 6000, OneCard(3072) \o OneCard(6144))}
    \cup {Computer(2048, 1500, <<[total |-> 8192, free |-> v]>>) : v \in {7420, 7440}}
Certificate(id, profileId) == [model |-> id, profile |-> profileId, hash |-> TRUE]
Profile(id, pinned) == [id |-> id, template |-> TRUE, pinned |-> pinned]
Version(first, minimum, profiles) ==
  [pack |-> {Certificate("llama1b", first), Certificate("gemma9b", "rp2")},
   profiles |-> profiles, minimum |-> minimum]
MCShipped == {Version("rp1", 1, {Profile("rp1", 1)}),
              Version("rp3", 2, {Profile("rp1", 1), Profile("rp3", 2)})}
============================================================================
