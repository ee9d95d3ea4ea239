------------------------------- MODULE Resolver -------------------------------
(***************************************************************************)
(* Which file of a repository a download is for:                           *)
(*   src/src-tauri/src/model_providers/huggingface/resolver.rs             *)
(*   src/src-tauri/src/model_providers/huggingface/probe.rs                *)
(* The repository's listing is read page by page, its GGUF files are       *)
(* ranked by what was asked for, and the header of each is read in turn    *)
(* until one says that it is a model.  A split model is all its shards.    *)
(* What comes out is the artifact that Download.tla fetches.               *)
(*                                                                         *)
(* Any request may fail.  Lengths are in units of the first slice read of  *)
(* a header (2 MB).                                                        *)
(***************************************************************************)
EXTENDS Naturals, FiniteSets, Sequences

CONSTANTS
  Repositories,  (* what a repository may hold: sets of GGUF files         *)
  Asked,         (* the quantization asked for                             *)
  NoLabel,       (* a name that gives no quantization                      *)
  NoFile,
  MaxPages,      (* MAX_PAGES of a listing                                 *)
  Attempts,      (* ATTEMPTS at a header                                   *)
  MaxChunk       (* MAX_CHUNK: how much of a file is read for its header   *)

(* A file: the model its path names, with the shard's number and count if  *)
(* it is named like one ("split"; "loose": -of- in another form, index 1   *)
(* if it has -00001-of-), what its header would say, how long that header  *)
(* is, and the page it is listed on.  A repository lists a path once, and  *)
(* no model is split into no files.                                        *)
ResolverAssumption ==
  /\ \A r \in Repositories : \A f \in r :
       /\ f.form \in {"single", "split", "loose"}
       /\ f.index \in Nat /\ f.total \in Nat /\ f.size \in Nat
       /\ f.header \in Nat \ {0} /\ f.page \in Nat \ {0}
       /\ f.role \in {"model", "adapter", "auxiliary", "unreadable"}
       /\ f.form = "split" => f.total > 0
  /\ \A r \in Repositories : \A f, g \in r :
       /\ f.form = "split" /\ g.form = "split"
       /\ f.model = g.model /\ f.total = g.total /\ f.index = g.index
       => f = g
  /\ \A r \in Repositories : NoFile \notin r
  /\ MaxPages \in Nat \ {0} /\ Attempts \in Nat \ {0} /\ MaxChunk \in Nat \ {0}

VARIABLES
  repo,       (* the repository                                            *)
  pc,         (* the step of resolve_artifact                              *)
  page,       (* the page of the listing asked for next                    *)
  seen,       (* the GGUF files listed so far                              *)
  left,       (* candidates not yet probed                                 *)
  at,         (* the candidate being probed                                *)
  attempt, want,  (* the attempt at it, and how much of it is asked for    *)
  refused,    (* candidates whose header says they are no model            *)
  preferred,  (* the first candidate whose header could not be read        *)
  result

resolveVars == <<repo, pc, page, seen, left, at, attempt, want, refused, preferred, result>>

-----------------------------------------------------------------------------
(* Names, and the ranking.                                                 *)

Named(f) == f.quant = Asked
Split(f) == f.form # "single"

(* Mutant of Candidates: the later shards stay.                            *)
AllCandidates(files) == files

(* A later shard has no header of its own and is never a candidate.        *)
Candidates(files) == {f \in files : f.form = "single" \/ f.index = 1}

(* What was asked for first, then whole files before split ones, then the  *)
(* larger.  The sort is stable: the listing's order decides a tie.         *)
Before(f, g) ==
  \/ Named(f) /\ ~Named(g)
  \/ Named(f) = Named(g) /\ ~Split(f) /\ Split(g)
  \/ Named(f) = Named(g) /\ Split(f) = Split(g) /\ f.size > g.size

Foremost(files) == {f \in files : \A g \in files : ~Before(g, f)}

(* Every file of the model f belongs to.                                   *)
Shard(f, i) == {g \in seen : g.form = "split" /\ g.model = f.model /\ g.total = f.total /\ g.index = i}
Complete(f) == f.form = "split" => \A i \in 1..f.total : Shard(f, i) # {}
ShardSet(f) ==
  IF f.form = "split" THEN [i \in 1..f.total |-> CHOOSE g \in Shard(f, i) : TRUE] ELSE <<f>>

(* quantization_label: read from the file, not from the request.           *)
Label(f) == IF f.quant = NoLabel THEN Asked ELSE f.quant

-----------------------------------------------------------------------------
Nothing == [kind |-> "none", file |-> NoFile, parts |-> <<>>, verified |-> FALSE,
            quant |-> Asked, sized |-> FALSE]

ResolveInit ==
  /\ repo \in Repositories
  /\ pc = "list" /\ page = 1 /\ seen = {}
  /\ left = {} /\ at = NoFile /\ attempt = 0 /\ want = 0
  /\ refused = {} /\ preferred = NoFile
  /\ result = Nothing

(* list_tree: a page fails, and with it the listing; or it is the last, or *)
(* as many as are read; or there is another.                               *)
ListPage ==
  LET listed == seen \cup {f \in repo : f.page = page}
      last == page = MaxPages \/ \A f \in repo : f.page <= page
  IN
  /\ pc = "list"
  /\ \/ pc' = "guess" /\ UNCHANGED <<page, seen, left>>
     \/ /\ ~last
        /\ seen' = listed /\ page' = page + 1
        /\ UNCHANGED <<pc, left>>
     \/ /\ last
        /\ seen' = listed /\ left' = Candidates(listed)
        /\ pc' = IF listed = {} THEN "guess" ELSE "choose"
        /\ UNCHANGED page
  /\ UNCHANGED <<repo, at, attempt, want, refused, preferred, result>>

(* The canonical name, when there is no listing; a HEAD request may tell   *)
(* its size.                                                               *)
Guess ==
  /\ pc = "guess"
  /\ \E sized \in BOOLEAN :
       result' = [Nothing EXCEPT !.kind = "guessed", !.sized = sized]
  /\ pc' = "done"
  /\ UNCHANGED <<repo, page, seen, left, at, attempt, want, refused, preferred>>

(* The next candidate, best first.                                         *)
Choose ==
  /\ pc = "choose"
  /\ \E f \in Foremost(left) :
       /\ at' = f /\ left' = left \ {f}
       /\ attempt' = 1 /\ want' = 1
       /\ pc' = "probe"
  /\ UNCHANGED <<repo, page, seen, refused, preferred, result>>

(* The artifact is the chosen file with all its shards, or none.           *)
Deliver(f, verified) ==
  /\ result' = IF Complete(f)
               THEN [kind |-> "listed", file |-> f, parts |-> ShardSet(f),
                     verified |-> verified, quant |-> Label(f), sized |-> TRUE]
               ELSE [Nothing EXCEPT !.kind = "refused", !.file = f]
  /\ pc' = "done"

(* A slice of the header: it is whole, and says what the file is; or it    *)
(* goes on; or the file is at its end, or past what is read, without one.  *)
Whole == at.role # "unreadable" /\ at.header <= want
AtEnd == at.size < want \/ 2 * want > MaxChunk

ReadModel ==
  /\ pc = "probe" /\ Whole /\ at.role = "model"
  /\ Deliver(at, TRUE)
  /\ UNCHANGED <<repo, page, seen, left, at, attempt, want, refused, preferred>>

ReadHelper ==
  /\ pc = "probe" /\ Whole /\ at.role # "model"
  /\ refused' = refused \cup {at}
  /\ pc' = "choose"
  /\ UNCHANGED <<repo, page, seen, left, at, attempt, want, preferred, result>>

ReadOn ==
  /\ pc = "probe" /\ ~Whole /\ ~AtEnd
  /\ want' = 2 * want
  /\ UNCHANGED <<repo, pc, page, seen, left, at, attempt, refused, preferred, result>>

(* The attempts are over: the file stays unread, and is gone back to only  *)
(* when no other is a model.                                               *)
Unread ==
  /\ pc' = "choose"
  /\ preferred' = IF preferred = NoFile THEN at ELSE preferred
  /\ UNCHANGED <<refused, attempt, want>>

(* The attempt fails, for the network's reasons or the file's.             *)
AttemptFails ==
  /\ pc = "probe"
  /\ IF attempt < Attempts
     THEN /\ attempt' = attempt + 1 /\ want' = 1
          /\ UNCHANGED <<pc, refused, preferred>>
     ELSE Unread
  /\ UNCHANGED <<repo, page, seen, left, at, result>>

(* Mutant of Unverified: the best-ranked candidate, whatever it was.       *)
BestRanked ==
  IF preferred = NoFile THEN NoFile ELSE CHOOSE f \in Foremost(Candidates(seen)) : TRUE
Unverified == preferred

(* No candidate said it was a model: the first unread one, unverified; or, *)
(* when all were read, nothing.                                            *)
FallBack ==
  /\ pc = "choose" /\ left = {}
  /\ IF Unverified # NoFile
     THEN Deliver(Unverified, FALSE)
     ELSE result' = [Nothing EXCEPT !.kind = "refused"] /\ pc' = "done"
  /\ UNCHANGED <<repo, page, seen, left, at, attempt, want, refused, preferred>>

ResolveNext ==
  \/ ListPage \/ Guess \/ Choose
  \/ ReadModel \/ ReadHelper \/ ReadOn \/ AttemptFails \/ FallBack

ResolveSpec == ResolveInit /\ [][ResolveNext]_resolveVars

-----------------------------------------------------------------------------
(* Properties.                                                             *)

(* "Downloading only the first ... produced a model that the runtime's own *)
(* completeness check then refused": what is resolved from a listing is    *)
(* the whole model, its first shard first, however many pages the listing  *)
(* had and wherever it was cut off.                                        *)
ResolvedIsWhole ==
  result.kind = "listed" =>
    /\ result.parts[1] = result.file
    /\ IF result.file.form = "split"
       THEN /\ DOMAIN result.parts = 1..result.file.total
            /\ \A i \in DOMAIN result.parts :
                 /\ result.parts[i] \in repo
                 /\ result.parts[i].index = i /\ result.parts[i].model = result.file.model
       ELSE Len(result.parts) = 1 /\ result.file \in repo

(* The header decides, whatever the order and the network: a file it said  *)
(* is no model is never downloaded, one taken as verified is a model, and  *)
(* the repository is refused only when every candidate's own header, or a  *)
(* shard that is not there, says so; a file that could not be read is not  *)
(* held against it.                                                        *)
HeaderDecides ==
  /\ result.kind = "listed" =>
       result.file \notin refused /\ (result.verified => result.file.role = "model")
  /\ result.kind = "refused" =>
       \/ result.file = NoFile /\ Candidates(seen) \subseteq refused
       \/ result.file # NoFile /\ ~Complete(result.file)

(* What comes of a repository is a whole model, or a refusal, as the files *)
(* themselves say.                                                         *)
ResolvedIsSound == ResolvedIsWhole /\ HeaderDecides

(* probe.rs: "Downloading a different build than was requested is a worse  *)
(* outcome than downloading an unverified one": another build is chosen    *)
(* only when every header of the build asked for was read and refused.     *)
RequestedIsKept ==
  result.kind = "listed" /\ result.quant # Asked =>
    \A f \in Candidates(seen) : Named(f) => f \in refused
=============================================================================
