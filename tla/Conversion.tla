---------------------------- MODULE Conversion ----------------------------
(***************************************************************************)
(* Installing an adapter (commands/adapters.rs download_adapter) into its  *)
(* folder: a GGUF that is ready is fetched and written, PEFT weights are   *)
(* fetched and converted (lora/convert), and what is there in the end is   *)
(* verified, recorded in the manifest and listed.                          *)
(*                                                                         *)
(* A file is "none", "torn" (a prefix of it is there) or "whole".  The     *)
(* application may be killed between any two steps.                        *)
(***************************************************************************)
EXTENDS Integers, FiniteSets, Sequences

CONSTANTS
  Repositories,  \* what an adapter page may hold, see InstallInit
  Bases,         \* architectures of the installed base model; "none": no model
  Installers,    \* calls of download_adapter for this adapter
  MaxKills       \* bound: kills of the application

(* A page's file holds finitely many tensors; read_adapter_tensors keeps   *)
(* one of each name, and no two differ in their wrappers alone.            *)
PagesAssumption ==
  \A r \in Repositories :
    /\ IsFiniteSet(r.tensors)
    /\ \A t \in r.tensors : t.length \in Nat
    /\ \A t, u \in r.tensors :
         t.module = u.module /\ t.layer = u.layer /\ t.factor = u.factor => t = u

VARIABLES
  repo,      \* the page
  base,      \* general.architecture of the base model's GGUF
  pc,        \* [Installers -> step]
  folder,    \* [weights, config, temp, gguf : file], and converted: the names
             \* of the tensors in the GGUF when it was made here
  recorded,  \* the manifest names this adapter
  status,    \* the runtime status in that record: the resolver binds "compatible"
  kills

installVars == <<repo, base, pc, folder, recorded, status, kills>>

Empty == [weights |-> "none", config |-> "none", temp |-> "none", gguf |-> "none",
          converted |-> {}]

---------------------------------------------------------------------------
(* The translation (lora/convert).  A tensor is [module, layer, factor,    *)
(* kind, length]: the module path once its wrappers are stripped, the      *)
(* layer ("" when it has none, "bad" when it does not parse), the factor   *)
(* ("a", "b", or "" for an entry that is no LoRA factor), its element type *)
(* and its bytes in the file.                                              *)

Layered == [q_proj |-> "attn_q", k_proj |-> "attn_k", v_proj |-> "attn_v",
            o_proj |-> "attn_output", gate_proj |-> "ffn_gate", up_proj |-> "ffn_up",
            down_proj |-> "ffn_down"]
Standalone == [embed_tokens |-> "token_embd", lm_head |-> "output"]
Supported == {"llama", "mistral", "qwen2", "qwen3", "gemma", "gemma2", "phi3"}

Factors(tensors) == {t \in tensors : t.factor # ""}

Mapped(t) == \/ t.layer \notin {"", "bad"} /\ t.module \in DOMAIN Layered
             \/ t.layer = "" /\ t.module \in DOMAIN Standalone

GgufName(t) == <<IF t.layer = "" THEN Standalone[t.module] ELSE Layered[t.module],
                 t.layer, t.factor>>

(* Only LoRA converts; a missing type is taken for one.                    *)
Convertible(r) == ~r.dora /\ r.peft \in {"", "lora"}

(* bfloat16 is widened, so its tensors double.                             *)
Readable(tensors) == tensors # {} /\ \A t \in tensors : t.kind \in {"f32", "f16", "bf16"}
Width(t) == IF t.kind = "bf16" THEN 2 * t.length ELSE t.length

(* An entry that is no LoRA factor is skipped; a factor that has no name   *)
(* in llama.cpp refuses the whole adapter, and so does one without any.    *)
Translates(r, arch) ==
  /\ Convertible(r) /\ arch \in Supported /\ Readable(r.tensors)
  /\ Factors(r.tensors) # {}
  /\ \A t \in Factors(r.tensors) : Mapped(t)

Translation(r) == {GgufName(t) : t \in {x \in Factors(r.tensors) : Mapped(x)}}

(* The header of the file it writes gives each tensor an offset from the   *)
(* start of the data, each rounded up to the alignment; the data follow in *)
(* the same order, each padded.                                            *)
AlignUp(n) == ((n + 31) \div 32) * 32

Offsets(lengths) ==
  LET o[i \in 1..Len(lengths)] ==
        IF i = 1 THEN 0 ELSE AlignUp(o[i - 1] + lengths[i - 1])
  IN o

---------------------------------------------------------------------------
(* The adapter's folder.                                                   *)

(* list_installed: any .gguf that is not empty; the temporary file has     *)
(* another extension.                                                      *)
Listed == folder.gguf # "none"

(* validate_adapter, which the manifest's status is refreshed from when    *)
(* the folder is named for the adapter's capability: the GGUF first, then  *)
(* the weights, each by its size alone.                                    *)
WeightsStatus ==
  IF ~repo.large THEN "incompatible"
  ELSE IF folder.config = "none" \/ repo.peft \in {"", "lora"} THEN "requires_conversion"
  ELSE "incompatible"

RuntimeStatus ==
  IF folder.gguf # "none" THEN IF repo.large THEN "compatible" ELSE "incompatible"
  ELSE IF folder.weights = "none" THEN "not_present" ELSE WeightsStatus

Go(i, step) == pc' = [pc EXCEPT ![i] = step]

(* Every failure but that of a write of its own removes the whole folder,  *)
(* whatever an earlier install put there.                                  *)
Fail(i) == folder' = Empty /\ Go(i, "failed")

InstallInit ==
  /\ repo \in Repositories /\ base \in Bases
  /\ pc = [i \in Installers |-> "idle"]
  /\ folder = Empty /\ recorded = FALSE /\ status = "not_present" /\ kills = 0

(* The file list decides: a GGUF that is an adapter by its name, else PEFT *)
(* weights, else nothing is fetched (store.rs check_installable).  The     *)
(* list may not arrive, or the folder not be made.                         *)
Begin(i) ==
  /\ pc[i] = "idle"
  /\ \/ repo.ready /\ Go(i, "fetch_gguf")
     \/ ~repo.ready /\ repo.tensors # {} /\ Go(i, "fetch_weights")
     \/ Go(i, "failed")
  /\ UNCHANGED <<repo, base, folder, recorded, status, kills>>

(* A download that does not arrive fails the install, and so does an error *)
(* inside the conversion.                                                  *)
Interrupted(i) ==
  /\ pc[i] \in {"fetch_gguf", "fetch_weights", "fetch_config", "write_temp", "replace",
               "rename"}
  /\ Fail(i)
  /\ UNCHANGED <<repo, base, recorded, status, kills>>

(* A file that cannot be written, as when the disk is full, ends the       *)
(* install where it is: what is there of it, and all the rest, stays.      *)
WriteFails(i) ==
  /\ \/ pc[i] \in {"fetch_gguf", "write_gguf"} /\ UNCHANGED folder
     \/ pc[i] = "fetch_weights" /\ folder' \in {folder, [folder EXCEPT !.weights = "torn"]}
     \/ pc[i] = "fetch_config" /\ folder' \in {folder, [folder EXCEPT !.config = "torn"]}
  /\ Go(i, "failed")
  /\ UNCHANGED <<repo, base, recorded, status, kills>>

(* The bytes are in memory; writing the file starts.                       *)
FetchedGguf(i) ==
  /\ pc[i] = "fetch_gguf"
  /\ folder' = [folder EXCEPT !.gguf = "torn", !.converted = {}]
  /\ Go(i, "write_gguf")
  /\ UNCHANGED <<repo, base, recorded, status, kills>>

WroteGguf(i) ==
  /\ pc[i] = "write_gguf"
  /\ folder' = [folder EXCEPT !.gguf = "whole"]
  /\ Go(i, "verify")
  /\ UNCHANGED <<repo, base, recorded, status, kills>>

FetchedWeights(i) ==
  /\ pc[i] = "fetch_weights"
  /\ IF repo.config THEN folder' = [folder EXCEPT !.weights = "whole"] /\ Go(i, "fetch_config")
                    ELSE Fail(i)
  /\ UNCHANGED <<repo, base, recorded, status, kills>>

(* The base model was looked for before the first download.                *)
FetchedConfig(i) ==
  /\ pc[i] = "fetch_config"
  /\ IF base = "none" THEN Fail(i)
     ELSE folder' = [folder EXCEPT !.config = "whole"] /\ Go(i, "convert")
  /\ UNCHANGED <<repo, base, recorded, status, kills>>

(* convert_adapter up to its temporary file, which an earlier run may have *)
(* left: it is removed and created anew.                                   *)
Convert(i) ==
  /\ pc[i] = "convert"
  /\ IF folder.weights = "whole" /\ folder.config = "whole" /\ Translates(repo, base)
     THEN folder' = [folder EXCEPT !.temp = "torn"] /\ Go(i, "write_temp")
     ELSE Fail(i)
  /\ UNCHANGED <<repo, base, recorded, status, kills>>

(* The file is written where its name has meanwhile been moved to.         *)
WroteTemp(i) ==
  /\ pc[i] = "write_temp"
  /\ folder' = IF folder.temp = "none"
                THEN [folder EXCEPT !.gguf = IF @ = "torn" THEN "whole" ELSE @]
                ELSE [folder EXCEPT !.temp = "whole"]
  /\ Go(i, "replace")
  /\ UNCHANGED <<repo, base, recorded, status, kills>>

(* Mutant: the converter writes over the adapter itself.                   *)
ReplaceInPlace(i) ==
  /\ pc[i] = "replace"
  /\ folder' = [folder EXCEPT !.gguf = "torn"]
  /\ Go(i, "rename")
  /\ UNCHANGED <<repo, base, recorded, status, kills>>

(* An adapter that is already there is removed first: a rename does not    *)
(* replace a file on every platform.                                       *)
Replace(i) ==
  /\ pc[i] = "replace"
  /\ folder' = [folder EXCEPT !.gguf = "none", !.converted = {}]
  /\ Go(i, "rename")
  /\ UNCHANGED <<repo, base, recorded, status, kills>>

(* The rename; the weights it was made from are removed.                   *)
Rename(i) ==
  /\ pc[i] = "rename"
  /\ IF folder.temp = "none" THEN Fail(i)
     ELSE /\ folder' = [folder EXCEPT !.gguf = folder.temp, !.temp = "none",
                                      !.weights = "none", !.converted = Translation(repo)]
          /\ Go(i, "verify")
  /\ UNCHANGED <<repo, base, recorded, status, kills>>

(* The header is read: what the file declares itself to be.                *)
Verify(i) ==
  /\ pc[i] = "verify"
  /\ IF folder.gguf # "none" /\ (folder.converted # {} \/ repo.declares = "lora")
     THEN Go(i, "register") /\ UNCHANGED folder
     ELSE Fail(i)
  /\ UNCHANGED <<repo, base, recorded, status, kills>>

(* Its capability may not be known: the adapter is installed unassigned.   *)
Register(i) ==
  /\ pc[i] = "register"
  /\ \/ recorded' = TRUE /\ status' = "compatible"
     \/ UNCHANGED <<recorded, status>>
  /\ Go(i, "done")
  /\ UNCHANGED <<repo, base, folder, kills>>

(* The user asks again: a reinstall, or a retry.                           *)
Again(i) ==
  /\ pc[i] \in {"done", "failed"}
  /\ Go(i, "idle")
  /\ UNCHANGED <<repo, base, folder, recorded, status, kills>>

(* The package list is read: the record's status follows the folder.       *)
Revalidate ==
  /\ recorded /\ status # RuntimeStatus
  /\ status' = RuntimeStatus
  /\ UNCHANGED <<repo, base, pc, folder, recorded, kills>>

Kill ==
  /\ kills < MaxKills
  /\ kills' = kills + 1
  /\ pc' = [i \in Installers |-> "idle"]
  /\ UNCHANGED <<repo, base, folder, recorded, status>>

InstallNext ==
  \/ Kill \/ Revalidate
  \/ \E i \in Installers :
       \/ Begin(i) \/ Interrupted(i) \/ WriteFails(i) \/ FetchedGguf(i) \/ WroteGguf(i)
       \/ FetchedWeights(i) \/ FetchedConfig(i) \/ Convert(i) \/ WroteTemp(i)
       \/ Replace(i) \/ Rename(i) \/ Verify(i) \/ Register(i) \/ Again(i)

InstallSpec == InstallInit /\ [][InstallNext]_installVars

(* No two installs of the adapter are under way: the page asks for one at  *)
(* a time, and nothing in the code keeps a second one out.                 *)
AtRest(i) == pc[i] \in {"idle", "done", "failed"}
OneInstall == \A i, j \in Installers : AtRest(i) \/ AtRest(j) \/ i = j

---------------------------------------------------------------------------
(* What a conversion leaves is there whole or not at all: whenever the     *)
(* application is killed no half-written file has the name that counts     *)
(* ("a crash or a killed process must not leave a .gguf that looks         *)
(* installed", lora/convert/mod.rs); each factor of the page's weights is  *)
(* in it, under a name of its own; and whatever order the tensors are      *)
(* written in, each starts where the header says, on the alignment and     *)
(* after the one before.                                                   *)
ConvertedIsWhole ==
  /\ ~repo.ready => folder.gguf # "torn"
  /\ folder.converted # {} => Cardinality(folder.converted) = Cardinality(Factors(repo.tensors))
  /\ folder.temp = "torn" => \A order \in [1..Cardinality(repo.tensors) -> repo.tensors] :
       LET lengths == [i \in DOMAIN order |-> Width(order[i])]
       IN \A i \in DOMAIN order :
            /\ Offsets(lengths)[i] % 32 = 0
            /\ i > 1 => Offsets(lengths)[i] >= Offsets(lengths)[i - 1] + lengths[i - 1]

(* The manifest names no file that is gone: "Leaving it behind would point *)
(* a capability at a file that no longer exists" (commands/adapters.rs).   *)
RecordedIsThere == recorded /\ (\A i \in Installers : AtRest(i)) => Listed

(* What the list shows is whole: "a partial download, and showing it as    *)
(* installed would be misleading" (store.rs).                              *)
ListedIsWhole == Listed /\ (\A i \in Installers : AtRest(i)) => folder.gguf = "whole"
===========================================================================
