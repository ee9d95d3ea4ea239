-------------------------- MODULE GenerationService --------------------------
(***************************************************************************)
(* What the scheduler promises its callers, with nothing about threads,    *)
(* flags or mutexes: submitted jobs are served one at a time in the order  *)
(* they were sent, only the job being served receives output, output ends  *)
(* with at most one final chunk, and a stream closes without one only when *)
(* its caller withdrew.  Scheduler.tla implements it.                      *)
(***************************************************************************)
EXTENDS Naturals, Sequences

CONSTANTS Jobs, NoJob, Endings

VARIABLES
  submitted,  (* jobs whose submit has returned                            *)
  withdrawn,  (* jobs cancelled or no longer read by their caller          *)
  waiting,    (* jobs sent and not yet served, in order                    *)
  serving,    (* the job holding the service, or NoJob                     *)
  stream      (* per job: tokens so far, final chunk, closed               *)

svars == <<submitted, withdrawn, waiting, serving, stream>>

SInit ==
  /\ submitted = {}
  /\ withdrawn = {}
  /\ waiting = <<>>
  /\ serving = NoJob
  /\ stream = [j \in Jobs |-> [tokens |-> 0, final |-> "none", closed |-> FALSE]]

SSubmit(j) ==
  /\ j \notin submitted
  /\ submitted' = submitted \cup {j}
  /\ waiting' = Append(waiting, j)
  /\ UNCHANGED <<withdrawn, serving, stream>>

SWithdraw(j) ==
  /\ j \in submitted \ withdrawn
  /\ withdrawn' = withdrawn \cup {j}
  /\ UNCHANGED <<submitted, waiting, serving, stream>>

SServe ==
  /\ serving = NoJob
  /\ waiting # <<>>
  /\ serving' = Head(waiting)
  /\ waiting' = Tail(waiting)
  /\ UNCHANGED <<submitted, withdrawn, stream>>

(* A token reaches a caller that still wants the answer.                   *)
SToken ==
  /\ serving # NoJob
  /\ serving \notin withdrawn
  /\ stream[serving].final = "none" /\ ~stream[serving].closed
  /\ stream' = [stream EXCEPT ![serving].tokens = @ + 1]
  /\ UNCHANGED <<submitted, withdrawn, waiting, serving>>

(* The one final chunk, together with the close or before it.              *)
SEnd(ending) ==
  /\ serving # NoJob
  /\ stream[serving].final = "none" /\ ~stream[serving].closed
  /\ \E closed \in BOOLEAN :
       stream' = [stream EXCEPT ![serving].final = ending, ![serving].closed = closed]
  /\ UNCHANGED <<submitted, withdrawn, waiting, serving>>

SClose ==
  /\ serving # NoJob
  /\ ~stream[serving].closed
  /\ stream[serving].final # "none" \/ serving \in withdrawn
  /\ stream' = [stream EXCEPT ![serving].closed = TRUE]
  /\ UNCHANGED <<submitted, withdrawn, waiting, serving>>

SRelease ==
  /\ serving # NoJob
  /\ stream[serving].closed
  /\ serving' = NoJob
  /\ UNCHANGED <<submitted, withdrawn, waiting, stream>>

SNext ==
  \/ \E j \in Jobs : SSubmit(j) \/ SWithdraw(j)
  \/ SServe \/ SToken \/ SClose \/ SRelease
  \/ \E ending \in Endings : SEnd(ending)

SSpec == SInit /\ [][SNext]_svars
=============================================================================
