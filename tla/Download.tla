------------------------------ MODULE Download ------------------------------
(***************************************************************************)
(* One model being downloaded:                                             *)
(* src/src-tauri/src/download_manager/manager.rs.  A model is one GGUF or  *)
(* several shards.  Each file is streamed into a .part, verified, renamed  *)
(* to .staged, and when all are verified every shard is renamed into       *)
(* place; a single file goes straight into place.                          *)
(*                                                                         *)
(* Threads: one per call of start_download (which first resolves, then     *)
(* becomes the spawned streaming task), the user's pause and cancel, the   *)
(* deletion task a cancel leaves behind.  Nothing ties a call to the task  *)
(* record it drives: both are found by the same task id.  Killing the      *)
(* process loses everything but the files.                                 *)
(***************************************************************************)
EXTENDS Naturals, Sequences, FiniteSets

CONSTANTS
  Calls,        (* calls of start_download or resume_download              *)
  NoCall,       (* no sender registered                                    *)
  NoTask,       (* the task id is not in the map                           *)
  Absent,       (* no such file                                            *)
  Artifacts,    (* what may be downloaded: number of shards, length of     *)
                (* each in chunks, whether the resolver reports sizes and  *)
                (* SHA-256 sums, whether the network may damage a chunk,   *)
                (* whether the server may answer a range with another one  *)
  MaxAttempts,  (* MAX_DOWNLOAD_ATTEMPTS                                   *)
  MaxCrashes,   (* bound: times the process is killed                      *)
  MaxCancels    (* bound: times the user cancels                           *)

ASSUME CallAssumption == NoCall \notin Calls
ASSUME AbsentAssumption == Absent \notin Seq(Nat)
ASSUME ArtifactAssumption ==
  \A a \in Artifacts :
    /\ a.shards \in Nat \ {0} /\ a.size \in Nat \ {0}
    /\ a.sized \in BOOLEAN /\ a.summed \in BOOLEAN
    /\ a.damaged \in BOOLEAN /\ a.shifted \in BOOLEAN
    /\ a.shards > 1 => a.sized  (* shards come from a listing with sizes *)
ASSUME AttemptAssumption ==
  MaxAttempts \in Nat \ {0} /\ MaxCrashes \in Nat /\ MaxCancels \in Nat

VARIABLES
  artifact, (* the one being downloaded, the same throughout               *)
  task,     (* the map entry: status, and the part temp_path names (0 when *)
            (* the paths are not known yet)                                *)
  sender,   (* whose cancel_tx cancel_senders holds                        *)
  call,     (* per call: pc and locals                                     *)
  disk,     (* contents of every .part, .staged and final file             *)
  reaping,  (* parts a cancelled download's deletion task still owes       *)
  crashes,  (* kills so far                                                *)
  cancels   (* cancels so far                                              *)

bounds == <<artifact, crashes, cancels>>
vars == <<artifact, task, sender, call, disk, reaping, crashes, cancels>>

-----------------------------------------------------------------------------
(* Types and helpers.                                                      *)

Shards == artifact.shards
Size == artifact.size
SizeKnown == artifact.sized
SumKnown == artifact.summed
Corrupting == artifact.damaged
Shifting == artifact.shifted

Parts == 1..Shards
EveryPart == UNION {1..a.shards : a \in Artifacts}
Split == Shards > 1
Places == {"part", "staged", "final"}
Genuine == [i \in 1..Size |-> i]

Active == {"resolving", "downloading", "verifying"}

(* The call's locals: the part in progress, the attempt, where the next    *)
(* request resumes, the size it will be checked against (0: unknown), how  *)
(* much was received, how far before its place in the artifact a body is   *)
(* written, the open file (its place, or "gone" once unlinked), whether it *)
(* appends, and the receiver's view of the cancel flag.                    *)
Idle == [pc |-> "idle", part |-> 0, attempt |-> 0, from |-> 0, expected |-> 0,
         got |-> 0, shift |-> 0, handle |-> "none", append |-> FALSE, cancel |-> FALSE]

At(s, pc) == call[s].pc = pc
Goto(s, pc) == call' = [call EXCEPT ![s].pc = pc]

FileLength(place, i) == IF disk[place][i] = Absent THEN 0 ELSE Len(disk[place][i])
HasSize(place, i) == SizeKnown /\ disk[place][i] # Absent /\ FileLength(place, i) = Size
IsInstalled(i) == HasSize("final", i)
IsComplete(i) == IsInstalled(i) \/ HasSize("staged", i)

(* A status is only ever written to a task still in the map.               *)
Marked(status) == IF task = NoTask THEN NoTask ELSE [task EXCEPT !.status = status]

(* Renaming or unlinking a file moves the handles open on it along.        *)
Moved(c, i, from, to) ==
  [s \in Calls |->
     IF c[s].part # i THEN c[s]
     ELSE IF c[s].handle = from THEN [c[s] EXCEPT !.handle = to]
     ELSE IF c[s].handle = to THEN [c[s] EXCEPT !.handle = "gone"]
     ELSE c[s]]

(* What is written at position p of a file that may since have grown or    *)
(* been truncated: a gap reads as zeros.                                   *)
Overwritten(content, p, chunk) ==
  [i \in 1..(IF p > Len(content) THEN p ELSE Len(content)) |->
     IF i = p THEN chunk ELSE IF i <= Len(content) THEN content[i] ELSE 0]

Init ==
  /\ artifact \in Artifacts
  /\ task = NoTask
  /\ sender = NoCall
  /\ call = [s \in Calls |-> Idle]
  /\ disk = [place \in Places |-> [i \in Parts |-> Absent]]
  /\ reaping = {}
  /\ crashes = 0
  /\ cancels = 0

-----------------------------------------------------------------------------
(* start_download, up to the spawned task.                                 *)

(* The active check and the insertion of the task are apart: the storage   *)
(* directory is created in between.                                        *)
Start(s) ==
  /\ At(s, "idle")
  /\ IF task # NoTask /\ task.status \in Active
     THEN Goto(s, "done") ELSE Goto(s, "mkdir")
  /\ UNCHANGED <<task, sender, disk, reaping, bounds>>

AnnounceResolving(s) ==
  /\ At(s, "mkdir")
  /\ \/ /\ task' = [status |-> "resolving", part |-> 0]
        /\ Goto(s, "resolve")
     \/ Goto(s, "done") /\ UNCHANGED task
  /\ UNCHANGED <<sender, disk, reaping, bounds>>

(* The artifact cannot be resolved, or the disk is too full for it.        *)
ResolveFails(s) ==
  /\ At(s, "resolve")
  /\ task' = Marked("failed")
  /\ Goto(s, "done")
  /\ UNCHANGED <<sender, disk, reaping, bounds>>

Resolved(s) ==
  /\ At(s, "resolve")
  /\ call' = [call EXCEPT ![s].pc = IF \A i \in Parts : IsComplete(i)
                                    THEN "recover" ELSE "publish",
                          ![s].part = Shards]
  /\ UNCHANGED <<task, sender, disk, reaping, bounds>>

(* The task is inserted again, whatever became of the first record.        *)
PublishTask(s) ==
  /\ At(s, "publish")
  /\ task' = [status |-> "downloading",
              part |-> IF \A i \in Parts : IsComplete(i) THEN 1
                       ELSE CHOOSE i \in Parts :
                              ~IsComplete(i) /\ \A h \in 1..(i - 1) : IsComplete(h)]
  /\ Goto(s, "arm")
  /\ UNCHANGED <<sender, disk, reaping, bounds>>

ArmCancel(s) ==
  /\ At(s, "arm")
  /\ sender' = s
  /\ call' = [call EXCEPT ![s].pc = "next", ![s].part = 1]
  /\ UNCHANGED <<task, disk, reaping, bounds>>

-----------------------------------------------------------------------------
(* The spawned task: one part at a time.                                   *)

NextPart(s) ==
  LET i == call[s].part IN
  /\ At(s, "next")
  /\ \/ /\ i > Shards
        /\ call' = [call EXCEPT ![s].pc = IF Split THEN "install" ELSE "cleanup",
                                ![s].part = Shards]
        /\ task' = task
     \/ /\ i <= Shards /\ IsComplete(i)
        /\ call' = [call EXCEPT ![s].part = i + 1]
        /\ task' = task
     \/ /\ i <= Shards /\ ~IsComplete(i) /\ call[s].cancel
        /\ Goto(s, "cleanup")
        /\ task' = task
     \/ /\ i <= Shards /\ ~IsComplete(i) /\ ~call[s].cancel
        /\ task' = IF task = NoTask THEN NoTask ELSE [task EXCEPT !.part = i]
        /\ call' = [call EXCEPT ![s].pc = "connect", ![s].attempt = 1,
                                ![s].from = FileLength("part", i)]
  /\ UNCHANGED <<sender, disk, reaping, bounds>>

(* A transient failure: give up after the last attempt, else back off and  *)
(* resume from what reached the disk.                                      *)
Retry(s, c) ==
  [c EXCEPT ![s].handle = "none",
            ![s].pc = IF c[s].attempt >= MaxAttempts THEN "failed" ELSE "backoff",
            ![s].from = FileLength("part", c[s].part)]

ConnectFails(s) ==
  /\ At(s, "connect")
  /\ \/ Goto(s, "failed")
     \/ call' = Retry(s, call)
  /\ UNCHANGED <<task, sender, disk, reaping, bounds>>

(* Mutant of Appends: the answer's status is not looked at.                *)
AppendsAsAsked(c, start) == c.from > 0

(* A body that starts where it was asked to is appended, any other is      *)
(* written to the truncated file.                                          *)
Appends(c, start) == start > 0

(* Where the body of an answer may begin: a range past the end is never    *)
(* served.  A server may answer with the whole file, or, if it shifts,     *)
(* with a 206 from somewhere else.                                         *)
Bodies(c) == {0} \cup ({c.from} \cap 0..(Size - 1))
                 \cup (IF Shifting /\ c.from > 0 THEN 1..(Size - 1) ELSE {})

(* The response.  A body from elsewhere starts the file over like a whole  *)
(* one, though it is not whole.  Its Content-Length, if any, replaces the  *)
(* resolver's size.  The status becomes Downloading before any check of    *)
(* the cancel flag.                                                        *)
Connect(s) ==
  LET c == call[s] IN
  /\ At(s, "connect")
  /\ \E body \in Bodies(c), measured \in BOOLEAN :
       LET start == IF body = c.from THEN body ELSE 0
           shift == body - start
       IN
       /\ disk' = [disk EXCEPT !["part"][c.part] =
                     IF ~Appends(c, start) \/ @ = Absent THEN <<>> ELSE @]
       /\ call' = [call EXCEPT ![s].pc = "stream", ![s].handle = "part",
                               ![s].got = start, ![s].shift = shift,
                               ![s].append = Appends(c, start),
                               ![s].expected = IF measured THEN Size - shift
                                               ELSE IF SizeKnown THEN Size ELSE 0]
  /\ task' = Marked("downloading")
  /\ UNCHANGED <<sender, reaping, bounds>>

(* The next item of the body, a chunk or an error.  Pause and cancel are   *)
(* noticed only here.                                                      *)
ReceiveChunk(s) ==
  LET c == call[s] IN
  /\ At(s, "stream")
  /\ \/ /\ c.cancel
        /\ call' = [call EXCEPT ![s].pc = "cleanup", ![s].handle = "none"]
     \/ /\ ~c.cancel /\ c.shift + c.got < Size
        /\ Goto(s, "write")
     \/ /\ ~c.cancel
        /\ call' = Retry(s, call)
  /\ UNCHANGED <<task, sender, disk, reaping, bounds>>

WriteChunk(s) ==
  LET c == call[s]
      written(content, chunk) == IF c.append THEN Append(content, chunk)
                                 ELSE Overwritten(content, c.got + 1, chunk)
  IN
  /\ At(s, "write")
  /\ \/ /\ \E chunk \in {c.shift + c.got + 1} \cup (IF Corrupting THEN {0} ELSE {}) :
             disk' = IF c.handle = "gone" THEN disk
                     ELSE [disk EXCEPT ![c.handle][c.part] = written(@, chunk)]
        /\ call' = [call EXCEPT ![s].pc = "stream", ![s].got = @ + 1]
     \/ /\ call' = [call EXCEPT ![s].pc = "failed", ![s].handle = "none"]
        /\ disk' = disk
  /\ UNCHANGED <<task, sender, reaping, bounds>>

(* The body ends, on time or early; only a known size tells them apart.    *)
EndOfStream(s) ==
  LET c == call[s] IN
  /\ At(s, "stream")
  /\ call' = IF c.expected > 0 /\ c.got < c.expected THEN Retry(s, call)
             ELSE [call EXCEPT ![s].pc = "verify", ![s].handle = "none"]
  /\ UNCHANGED <<task, sender, disk, reaping, bounds>>

(* Mutant of Backoff: attempts are not counted.                            *)
BackoffForever(s) ==
  /\ At(s, "backoff")
  /\ Goto(s, IF call[s].cancel THEN "cleanup" ELSE "connect")
  /\ UNCHANGED <<task, sender, disk, reaping, bounds>>

Backoff(s) ==
  /\ At(s, "backoff")
  /\ call' = [call EXCEPT ![s].attempt = IF call[s].cancel THEN @ ELSE @ + 1,
                          ![s].pc = IF call[s].cancel THEN "cleanup" ELSE "connect"]
  /\ UNCHANGED <<task, sender, disk, reaping, bounds>>

(* The size check, and the refusal of what nothing can vouch for.          *)
VerifySize(s) ==
  LET c == call[s]
      present == disk["part"][c.part] # Absent
      refused == \/ ~present
                 \/ c.expected > 0 /\ FileLength("part", c.part) # c.expected
                 \/ c.expected = 0 /\ ~SumKnown
  IN
  /\ At(s, "verify")
  /\ task' = Marked("verifying")
  /\ Goto(s, IF refused THEN "failed" ELSE "hash")
  /\ UNCHANGED <<sender, disk, reaping, bounds>>

(* Mutant of VerifySum: the size was right, so the sum must be.            *)
TrustSize(s) ==
  /\ At(s, "hash")
  /\ Goto(s, "rename")
  /\ UNCHANGED <<task, sender, disk, reaping, bounds>>

(* A file with the wrong sum is discarded.                                 *)
VerifySum(s) ==
  LET i == call[s].part IN
  /\ At(s, "hash")
  /\ \/ /\ SumKnown /\ disk["part"][i] # Genuine
        /\ disk' = [disk EXCEPT !["part"][i] = Absent]
        /\ call' = [Moved(call, i, "part", "gone") EXCEPT ![s].pc = "failed"]
     \/ /\ SumKnown => disk["part"][i] = Genuine
        /\ Goto(s, "rename")
        /\ disk' = disk
  /\ UNCHANGED <<task, sender, reaping, bounds>>

(* Mutant of Destination: shards go straight into place.                   *)
StraightIntoPlace == "final"
(* Where a verified .part goes, and what that makes of the task.           *)
Destination == IF Split THEN "staged" ELSE "final"
StatusOfPart == IF Split THEN "downloading" ELSE "completed"

(* Whatever is at the destination makes way first, even when the .part has *)
(* meanwhile gone.                                                         *)
Finalize(s) ==
  LET i == call[s].part IN
  /\ At(s, "rename")
  /\ disk' = [disk EXCEPT ![Destination][i] = disk["part"][i], !["part"][i] = Absent]
  /\ IF disk["part"][i] = Absent
     THEN /\ call' = [Moved(call, i, Destination, "gone") EXCEPT ![s].pc = "failed"]
          /\ task' = task
     ELSE /\ call' = [Moved(call, i, "part", Destination) EXCEPT ![s].pc = "next",
                                                                 ![s].part = i + 1]
          /\ task' = Marked(StatusOfPart)
  /\ UNCHANGED <<sender, reaping, bounds>>

(* install_all, one shard per step, the first shard last: at the end of    *)
(* the spawned task, or of start_download when every part was complete.    *)
InstallShard(s) ==
  LET i == call[s].part
      recovering == At(s, "recover")
      fails == ~IsInstalled(i) /\ disk["staged"][i] = Absent
  IN
  /\ At(s, "install") \/ recovering
  /\ i > 0
  /\ disk' = IF IsInstalled(i) THEN disk
             ELSE [disk EXCEPT !["final"][i] = disk["staged"][i],
                               !["staged"][i] = Absent]
  /\ LET c == IF IsInstalled(i) THEN call
              ELSE IF fails THEN Moved(call, i, "final", "gone")
              ELSE Moved(call, i, "staged", "final")
     IN  call' = [c EXCEPT ![s].pc = IF ~fails THEN @
                                     ELSE IF recovering THEN "publish" ELSE "failed",
                           ![s].part = IF fails THEN @ ELSE @ - 1]
  /\ UNCHANGED <<task, sender, reaping, bounds>>

Installed(s) ==
  /\ call[s].part = 0
  /\ \/ /\ At(s, "install")
        /\ task' = Marked("completed")
        /\ Goto(s, "cleanup")
     \/ /\ At(s, "recover")
        /\ task' = [status |-> "completed", part |-> 1]
        /\ Goto(s, "done")
  /\ UNCHANGED <<sender, disk, reaping, bounds>>

(* The spawned task ends: it removes the sender registered under its id.   *)
CleanUp(s) ==
  /\ call[s].pc \in {"cleanup", "failed"}
  /\ sender' = NoCall
  /\ Goto(s, IF At(s, "failed") THEN "report" ELSE "done")
  /\ UNCHANGED <<task, disk, reaping, bounds>>

ReportFailure(s) ==
  /\ At(s, "report")
  /\ task' = IF task # NoTask /\ task.status = "paused" THEN task ELSE Marked("failed")
  /\ Goto(s, "done")
  /\ UNCHANGED <<sender, disk, reaping, bounds>>

-----------------------------------------------------------------------------
(* The user, the deletion task and the machine.                            *)

Signalled == IF sender = NoCall THEN call ELSE [call EXCEPT ![sender].cancel = TRUE]

(* The flag is raised, then the status written; the streaming task does    *)
(* nothing in between that it could not do just before.                    *)
Pause ==
  /\ task # NoTask /\ task.status # "paused"
  /\ call' = Signalled
  /\ task' = Marked("paused")
  /\ UNCHANGED <<sender, disk, reaping, bounds>>

(* Cancel also forgets the task, starts deleting the .part it names and    *)
(* discards the staged shards of a split model.                            *)
Cancel ==
  LET p == task.part IN
  /\ task # NoTask
  /\ cancels < MaxCancels
  /\ cancels' = cancels + 1
  /\ task' = NoTask
  /\ reaping' = IF p # 0 /\ disk["part"][p] # Absent THEN reaping \cup {p} ELSE reaping
  /\ IF p # 0 /\ Split
     THEN /\ disk' = [disk EXCEPT !["staged"] = [i \in Parts |-> Absent]]
          /\ call' = [s \in Calls |->
                        IF Signalled[s].handle = "staged"
                        THEN [Signalled[s] EXCEPT !.handle = "gone"] ELSE Signalled[s]]
     ELSE /\ disk' = disk
          /\ call' = Signalled
  /\ UNCHANGED <<artifact, sender, crashes>>

(* Retried for two seconds, then given up.                                 *)
Reap(i) ==
  /\ i \in reaping
  /\ reaping' = reaping \ {i}
  /\ \/ /\ disk' = [disk EXCEPT !["part"][i] = Absent]
        /\ call' = Moved(call, i, "part", "gone")
     \/ UNCHANGED <<disk, call>>
  /\ UNCHANGED <<task, sender, bounds>>

Crash ==
  /\ crashes < MaxCrashes
  /\ crashes' = crashes + 1
  /\ task' = NoTask
  /\ sender' = NoCall
  /\ call' = [s \in Calls |-> Idle]
  /\ reaping' = {}
  /\ UNCHANGED <<artifact, disk, cancels>>

-----------------------------------------------------------------------------
(* The specification.                                                      *)

(* A step of a call already made.                                          *)
Step(s) ==
  \/ AnnounceResolving(s) \/ ResolveFails(s) \/ Resolved(s)
  \/ PublishTask(s) \/ ArmCancel(s)
  \/ NextPart(s) \/ ConnectFails(s) \/ Connect(s)
  \/ ReceiveChunk(s) \/ WriteChunk(s) \/ EndOfStream(s) \/ Backoff(s)
  \/ VerifySize(s) \/ VerifySum(s) \/ Finalize(s)
  \/ InstallShard(s) \/ Installed(s) \/ CleanUp(s) \/ ReportFailure(s)

Next ==
  \/ \E s \in Calls : Start(s) \/ Step(s)
  \/ Pause \/ Cancel \/ Crash
  \/ \E i \in EveryPart : Reap(i)

(* A call waits for the network with no timeout, neither for the resolver's *)
(* listing nor for an answer nor for the next item of a body.              *)
Awaiting(s) == call[s].pc \in {"resolve", "connect", "stream"}

(* Spawned tasks are scheduled; the network need not answer, and users     *)
(* need do nothing.                                                        *)
Fair ==
  /\ \A s \in Calls : WF_vars(~Awaiting(s) /\ Step(s))
  /\ \A i \in EveryPart : WF_vars(Reap(i))

Spec == Init /\ [][Next]_vars /\ Fair

-----------------------------------------------------------------------------
(* Properties.                                                             *)

(* "Refuse to finalize something that was never checked": a file is in its *)
(* final place or staged only with the artifact's exact contents, whatever *)
(* was retried, resumed, truncated or killed on the way.  Without a sum    *)
(* only the resume logic stands for the contents, and it trusts the        *)
(* network, a server that sends the range it was asked for or the whole,   *)
(* and a .part that nobody deletes behind its back.                        *)
Vouched == SumKnown \/ (~Corrupting /\ ~Shifting /\ cancels = 0)
InstalledIsGenuine ==
  Vouched => \A place \in {"staged", "final"}, i \in Parts :
               disk[place][i] \in {Absent, Genuine}

(* The resume logic never appends a body to bytes it does not continue:    *)
(* with an undamaged stream every .part is a prefix of the artifact,       *)
(* whichever requests a server answered from the start.  A cancel may      *)
(* delete the file between the request and its answer, and a 206 from      *)
(* elsewhere is written from position zero; only a sum can catch what      *)
(* comes of these.                                                         *)
PartIsPrefix ==
  ~Corrupting /\ ~Shifting /\ cancels = 0 => \A i \in Parts :
    disk["part"][i] # Absent =>
      /\ Len(disk["part"][i]) <= Size
      /\ disk["part"][i] = SubSeq(Genuine, 1, Len(disk["part"][i]))

(* A model is there whole or not at all.  "the file the storage scan keys  *)
(* on appears only once the rest are already there": the first shard is    *)
(* never visible without the others, as long as what was verified has the  *)
(* length the next look at it expects; and the page is told Completed only *)
(* when all of them are in place.                                          *)
LengthVouched == SumKnown \/ ~Shifting
InstallIsWhole ==
  /\ LengthVouched /\ disk["final"][1] # Absent
       => \A i \in Parts : disk["final"][i] # Absent
  /\ task # NoTask /\ task.status = "completed" /\ Vouched
       => \A i \in Parts : disk["final"][i] = Genuine

(* Not true of the code.  "A model file that is silently short still loads *)
(* far enough to produce fluent nonsense", so a file whose size the        *)
(* resolver told is installed with that size: but a 206 from elsewhere     *)
(* says how much is left from there, and this replaces the size the file   *)
(* is checked against.                                                     *)
NothingShortInstalled ==
  SizeKnown => \A i \in Parts : disk["final"][i] # Absent =>
                                    Len(disk["final"][i]) = Size

(* Every call ends, unless some wait for the network lasts for ever:       *)
(* retries are bounded, and no sequence of answers, failures and bodies    *)
(* that break off keeps a call going.                                      *)
CallsEnd ==
  \A s \in Calls :
    []<>~Awaiting(s) => (~At(s, "idle") ~> call[s].pc \in {"done", "idle"})
=============================================================================
