----------------------------- MODULE MCLibrary -----------------------------
(* Models on the Hub, in three parts: Catalogue lists what there is to      *)
(* download, Resolver picks the file of a repository, Download fetches one  *)
(* of the artifacts of MCDownload.  A behaviour is of one part; the others  *)
(* stay as they begin.                                                      *)
EXTENDS MCDownload

CONSTANTS Popular, Deep, Readers, Searchers, Engines, Window, Reserve, MaxClock, MaxTokens,
          Repositories, Asked, NoLabel, NoFile, MaxPages, Attempts, MaxChunk

VARIABLES part, token, session, stored, engine, inFlight, lock, engineLock, window, known,
          clock, job,
          repo, pc, page, seen, left, at, attempt, want, refused, preferred, result

Browser == INSTANCE Catalogue
Resolution == INSTANCE Resolver

ASSUME Browser!CatalogueAssumption
ASSUME Resolution!ResolverAssumption

libVars == <<token, session, stored, engine, inFlight, lock, engineLock, window, known,
             clock, job>>
resolveVars == <<repo, pc, page, seen, left, at, attempt, want, refused, preferred, result>>
partVars == <<part, vars, libVars, resolveVars>>

PartInit ==
  /\ part \in {"download", "catalogue", "resolver"}
  /\ Init /\ Browser!LibInit /\ Resolution!ResolveInit
  /\ part # "download" => artifact = CHOOSE a \in Artifacts : TRUE
  /\ part # "catalogue" => token = 0 /\ ~stored.is
  /\ part # "resolver" => repo = CHOOSE r \in Repositories : TRUE

(* The engine's own listing and a search are never in progress together:    *)
(* they share nothing but the window.                                       *)
OneKind ==
  \/ \A s \in Searchers : job'[s].pc = "ready"
  \/ \A e \in Engines : job'[e].pc = "ready"

PartNext ==
  \/ part = "download" /\ Next /\ UNCHANGED <<part, libVars, resolveVars>>
  \/ part = "catalogue" /\ Browser!LibNext /\ OneKind /\ UNCHANGED <<part, vars, resolveVars>>
  \/ part = "resolver" /\ Resolution!ResolveNext /\ UNCHANGED <<part, vars, libVars>>

PartSpec == PartInit /\ [][PartNext]_partVars /\ (part = "download" => Fair)

(* A sweep cut short never shrinks the library on disk.                     *)
NeverShrinks == Browser!NeverShrinks

(* What is resolved is a whole model, or refused as the files say.          *)
ResolvedIsSound == Resolution!ResolvedIsSound

----------------------------------------------------------------------------
(* Repositories of a few files: a model beside its draft and a projector, a *)
(* model split over two pages of the listing, one with a shard missing, one *)
(* of helpers only, one with nothing that can be read, one with nothing but *)
(* odd names, and an empty one.                                             *)
File(model, quant, size, role) ==
  [model |-> model, form |-> "single", index |-> 0, total |-> 0, quant |-> quant,
   size |-> size, header |-> 1, role |-> role, page |-> 1]
Piece(model, quant, i, n, p) ==
  [File(model, quant, 9 - i, "model") EXCEPT !.form = "split", !.index = i, !.total = n,
                                             !.page = p]

Draft == File("draft", "Q4", 1, "auxiliary")
Big == [File("big", "Q5", 9, "model") EXCEPT !.header = 2]
Wanted == File("big", "Q4", 8, "model")

MCRepositories ==
  {{Draft, Big, [File("vision", NoLabel, 2, "adapter") EXCEPT !.page = 2]},
   {Draft, Wanted, Big},
   {Piece("m", "Q4", 1, 2, 1), Piece("m", "Q4", 2, 2, 2), Big},
   {Piece("m", "Q4", 1, 3, 1), Piece("m", "Q4", 2, 3, 2), Piece("m", "Q4", 3, 3, 3), Wanted},
   {Piece("m", "Q5", 1, 2, 1)},
   {Draft, File("lora", "Q5", 1, "adapter")},
   {[Draft EXCEPT !.role = "unreadable"], [Big EXCEPT !.header = 5]},
   {[Wanted EXCEPT !.form = "loose"], [Big EXCEPT !.form = "loose", !.index = 1]},
   {[Wanted EXCEPT !.form = "loose"]},
   {}}
============================================================================
