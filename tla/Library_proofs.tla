---------------------------- MODULE Library_proofs ----------------------------
(***************************************************************************)
(* Proofs about the parts that MCLibrary composes.  Download: what         *)
(* a call leaves in place is genuine and whole, for every artifact, every  *)
(* kind of server and any number of retries, pauses, cancels and kills, as *)
(* long as no two calls are under way at once.  Resolver: what is resolved *)
(* from a listing is a whole model, and a file's own header decides what   *)
(* becomes of it, for every repository, every order of the candidates and  *)
(* every failure of the requests in between.  Catalogue: no sweep costs    *)
(* the stored library a repository.                                        *)
(*                                                                         *)
(* The inductive invariant of a download adds to its properties what a     *)
(* call has found out about the disk and still relies on: the length it    *)
(* resumes from, the position it writes at, the size and the sum it has    *)
(* checked, the shards it has already put in place.  Two calls on one task *)
(* break all of these.                                                     *)
(***************************************************************************)
EXTENDS MCLibrary, SequenceTheorems, WellFoundedInduction, TLAPS

-----------------------------------------------------------------------------
(* The inductive invariant.                                                *)

Pcs == {"idle", "mkdir", "resolve", "publish", "arm", "next", "connect", "backoff", "stream",
        "write", "verify", "hash", "rename", "install", "recover", "cleanup", "failed",
        "report", "done"}

CallState ==
  [pc : Pcs, part : Nat, attempt : Nat, from : Nat, expected : Nat, got : Nat, shift : Nat,
   handle : {"none", "part", "gone"}, append : BOOLEAN, cancel : BOOLEAN]

Statuses == {"resolving", "downloading", "verifying", "completed", "paused", "failed"}

TaskState == [status : Statuses, part : 0..Shards]

Content == Seq(Nat) \cup {Absent}

(* Every variable keeps its type.                                          *)
DownloadTypeOK ==
  /\ artifact \in Artifacts
  /\ task \in TaskState \cup {NoTask}
  /\ sender \in Calls \cup {NoCall}
  /\ call \in [Calls -> CallState]
  /\ disk \in [Places -> [Parts -> Content]]
  /\ reaping \subseteq Parts
  /\ cancels \in Nat

(* The file is open exactly while the body is read, and the part it is     *)
(* about exists.                                                           *)
CallInv(c) ==
  /\ c.pc \in {"stream", "write"} <=> c.handle # "none"
  /\ c.pc \in {"connect", "backoff", "stream", "write", "verify", "hash", "rename"}
       => c.part \in Parts
  /\ c.pc = "next" => c.part \in 1..(Shards + 1)
  /\ c.pc \in {"install", "recover"} => c.part \in 0..Shards
  /\ ~Shifting => c.expected \in {0, Size} /\ c.shift = 0
  /\ SizeKnown /\ ~Shifting /\ c.pc \in {"stream", "write", "verify"} => c.expected = Size

(* A body whose bytes are those of the artifact, as far as it goes.        *)
Counted(f) == Len(f) <= Size /\ \A j \in 1..Len(f) : f[j] = j

Undisturbed == ~Corrupting /\ ~Shifting /\ cancels = 0

(* What has passed the checks has the length the resolver told.            *)
Measured == SizeKnown /\ LengthVouched

(* What a call has found out about the disk and still relies on.           *)
HeldInv(c) ==
  LET f == disk["part"][c.part] IN
  /\ c.pc \in {"hash", "rename"} =>
       /\ SizeKnown /\ ~Shifting /\ f # Absent => Len(f) = Size
       /\ Vouched /\ (c.pc = "rename" \/ ~SumKnown) => f \in {Absent, Genuine}
  /\ Undisturbed /\ c.pc \in {"connect", "backoff"} => c.from = FileLength("part", c.part)
  /\ Undisturbed /\ c.pc \in {"stream", "write"} =>
       c.handle = "part" /\ f # Absent /\ c.got = Len(f)
  /\ c.handle = "part" => f # Absent
  /\ c.pc = "write" => c.shift + c.got < Size
  /\ c.pc \in {"install", "recover"} =>
       \A h \in Parts : h > c.part => disk["final"][h] # Absent

(* What holds of the files whatever is under way.                          *)
DiskInv ==
  /\ \A i \in Parts :
       /\ Measured => \A place \in {"staged", "final"} :
            disk[place][i] # Absent => Len(disk[place][i]) = Size
       /\ Vouched => \A place \in {"staged", "final"} : disk[place][i] \in {Absent, Genuine}
       /\ Undisturbed /\ disk["part"][i] # Absent => Counted(disk["part"][i])
       /\ LengthVouched /\ disk["final"][1] # Absent => disk["final"][i] # Absent
  /\ cancels = 0 => reaping = {}

(* While a task reads Completed every file is in place, and no call is at  *)
(* work on it: the last one is over, or the next has yet to announce itself. *)
Settled(c) == \/ c.pc \in {"idle", "mkdir", "cleanup", "done"}
              \/ c.pc = "next" /\ c.part = Shards + 1 /\ ~Split

CompletedInv ==
  task # NoTask /\ task.status = "completed" =>
    /\ \A s \in Calls : Settled(call[s])
    /\ Vouched => \A i \in Parts : disk["final"][i] = Genuine

DownloadInv ==
  /\ DownloadTypeOK
  /\ DiskInv
  /\ CompletedInv
  /\ \A s \in Calls : CallInv(call[s]) /\ HeldInv(call[s])

(* At most one call is under way: the others have not begun, or are over.  *)
AtRest(c) == c.pc \in {"idle", "done"}
OneCall == \A s, t \in Calls : AtRest(call[s]) \/ AtRest(call[t]) \/ s = t

-----------------------------------------------------------------------------
(* Lemmas about the helpers.                                               *)

(* Whatever is downloaded has a size, a number of shards, and known facts. *)
LEMMA ArtifactFacts ==
  ASSUME artifact \in Artifacts
  PROVE  /\ Shards \in Nat \ {0} /\ Size \in Nat \ {0}
         /\ SizeKnown \in BOOLEAN /\ SumKnown \in BOOLEAN /\ Corrupting \in BOOLEAN
         /\ Shifting \in BOOLEAN
         /\ Split => SizeKnown
         /\ ~Split => Shards = 1
         /\ Parts = 1..Shards /\ 1 \in Parts
         /\ Genuine \in Seq(Nat) /\ Len(Genuine) = Size
         /\ \A i \in 1..Size : Genuine[i] = i
<1>1. /\ artifact.shards \in Nat \ {0} /\ artifact.size \in Nat \ {0}
      /\ artifact.sized \in BOOLEAN /\ artifact.summed \in BOOLEAN
      /\ artifact.damaged \in BOOLEAN /\ artifact.shifted \in BOOLEAN
      /\ (artifact.shards > 1 => artifact.sized)
  BY ArtifactAssumption
<1>2. Genuine \in [1..Size -> Nat]
  BY <1>1 DEF Genuine, Size
<1>3. Genuine \in Seq(Nat) /\ Len(Genuine) = Size /\ \A i \in 1..Size : Genuine[i] = i
  BY <1>1, <1>2, SeqDef DEF Genuine, Size
<1> QED BY <1>1, <1>3
  DEF Shards, Size, SizeKnown, SumKnown, Corrupting, Shifting, Split, Parts

(* Nothing about the artifact changes while it is the same.                *)
LEMMA SameArtifact ==
  ASSUME UNCHANGED <<artifact, cancels>>
  PROVE  /\ UNCHANGED <<Shards, Size, SizeKnown, SumKnown, Corrupting, Shifting,
                     Parts, Split, Genuine>>
         /\ Vouched' <=> Vouched
         /\ Undisturbed' <=> Undisturbed
         /\ Measured' <=> Measured
         /\ LengthVouched' <=> LengthVouched
BY DEF Shards, Size, SizeKnown, SumKnown, Corrupting, Shifting, Parts, Split, Genuine,
  Vouched, Undisturbed, Measured, LengthVouched

(* A body that counts up to the size is the artifact; a prefix is one that *)
(* counts.                                                                 *)
LEMMA CountedIsPrefix ==
  ASSUME artifact \in Artifacts, NEW f \in Seq(Nat), Counted(f)
  PROVE  /\ f = SubSeq(Genuine, 1, Len(f))
         /\ Len(f) = Size => f = Genuine
<1>1. /\ Size \in Nat /\ Genuine \in Seq(Nat) /\ Len(Genuine) = Size
      /\ Len(f) <= Size
      /\ \A i \in 1..Size : Genuine[i] = i
  BY ArtifactFacts DEF Counted
<1>2. /\ SubSeq(Genuine, 1, Len(f)) \in Seq(Nat)
      /\ Len(SubSeq(Genuine, 1, Len(f))) = Len(f)
      /\ \A i \in 1..Len(f) : SubSeq(Genuine, 1, Len(f))[i] = Genuine[i]
  <2>0. Len(f) \in Nat
    OBVIOUS
  <2>1. ASSUME NEW i \in 1..Len(f) PROVE Genuine[i] \in Nat
    <3>1. Len(f) <= Size /\ Size \in Nat
      BY <1>1
    <3>2. i \in 1..Size /\ i \in Nat
      BY <2>0, <3>1
    <3> QED BY <1>1, <3>2
  <2> QED BY <1>1, <2>0, <2>1, SubSeqProperties
<1>3. f = SubSeq(Genuine, 1, Len(f))
  BY <1>1, <1>2, SeqEqual DEF Counted
<1>4. ASSUME Len(f) = Size PROVE f = Genuine
  BY <1>1, <1>4, SeqEqual DEF Counted
<1> QED BY <1>3, <1>4

(* Appending the next chunk keeps a body counting; an overwritten body is  *)
(* a body, and at its end overwriting appends.                             *)
LEMMA WrittenCounts ==
  ASSUME NEW f \in Seq(Nat), NEW p \in Nat \ {0}, NEW chunk \in Nat
  PROVE  /\ Append(f, chunk) \in Seq(Nat)
         /\ Overwritten(f, p, chunk) \in Seq(Nat)
         /\ p = Len(f) + 1 => Overwritten(f, p, chunk) = Append(f, chunk)
         /\ Len(Append(f, chunk)) = Len(f) + 1
         /\ Counted(f) /\ chunk = Len(f) + 1 /\ Len(f) < Size /\ Size \in Nat
              => Counted(Append(f, chunk))
<1> DEFINE n == IF p > Len(f) THEN p ELSE Len(f)
           w == Overwritten(f, p, chunk)
<1>1. n \in Nat /\ Len(f) \in Nat /\ \A i \in 1..Len(f) : f[i] \in Nat
  BY ElementOfSeq
<1>2. w \in [1..n -> Nat] /\ \A i \in 1..n :
        w[i] = IF i = p THEN chunk ELSE IF i <= Len(f) THEN f[i] ELSE 0
  BY <1>1 DEF Overwritten
<1>3. w \in Seq(Nat) /\ Len(w) = n
  BY <1>1, <1>2, SeqDef
<1>4. /\ Append(f, chunk) \in Seq(Nat) /\ Len(Append(f, chunk)) = Len(f) + 1
      /\ \A i \in 1..(Len(f) + 1) :
           Append(f, chunk)[i] = IF i <= Len(f) THEN f[i] ELSE chunk
  BY <1>1
<1>5. ASSUME p = Len(f) + 1 PROVE w = Append(f, chunk)
  <2>1. Len(w) = Len(f) + 1 /\ \A i \in 1..Len(w) : w[i] = Append(f, chunk)[i]
    BY <1>1, <1>2, <1>3, <1>4, <1>5
  <2> HIDE DEF w
  <2> QED BY <2>1, <1>3, <1>4, SeqEqual
<1>6. ASSUME Counted(f), chunk = Len(f) + 1, Len(f) < Size, Size \in Nat
      PROVE  Counted(Append(f, chunk))
  BY <1>1, <1>4, <1>6 DEF Counted
<1> QED BY <1>3, <1>4, <1>5, <1>6

(* Every non-empty set of naturals has a least element.                    *)
LEMMA LeastNatural ==
  ASSUME NEW T, T \subseteq Nat, T # {} PROVE \E x \in T : \A y \in T : x <= y
<1>1. PICK x \in T : \A y \in T : ~ (<<y, x>> \in OpToRel(<, Nat))
  BY NatLessThanWellFounded, WFMin
<1>2. ASSUME NEW y \in T, y < x PROVE FALSE
  BY <1>1, <1>2 DEF OpToRel
<1> QED BY <1>2

(* Some part is the first incomplete one.                                  *)
LEMMA FirstIncomplete ==
  ASSUME artifact \in Artifacts, ~(\A i \in Parts : IsComplete(i))
  PROVE  (CHOOSE i \in Parts : ~IsComplete(i) /\ \A h \in 1..(i - 1) : IsComplete(h)) \in Parts
<1>1. Parts = 1..Shards /\ Shards \in Nat
  BY ArtifactFacts
<1> DEFINE T == {i \in Parts : ~IsComplete(i)}
<1>0. T \subseteq Nat /\ T # {}
  BY <1>1
<1>2. PICK x \in T : \A y \in T : x <= y
  <2> HIDE DEF T
  <2> QED BY <1>0, LeastNatural
<1>3. x \in Parts /\ ~IsComplete(x) /\ \A h \in 1..(x - 1) : IsComplete(h)
  BY <1>1, <1>2
<1> HIDE DEF T
<1> QED BY <1>3, Zenon

(* Storing a body in one file changes no other.                            *)
LEMMA Stored ==
  ASSUME NEW d \in [Places -> [Parts -> Content]], NEW p \in Places, NEW i \in Parts,
         NEW x \in Content, NEW e, e = [d EXCEPT ![p][i] = x]
  PROVE  /\ e \in [Places -> [Parts -> Content]]
         /\ e[p][i] = x
         /\ \A q \in Places, j \in Parts : q # p \/ j # i => e[q][j] = d[q][j]
OBVIOUS

(* A status written to the task leaves a task, and no other status.        *)
LEMMA MarkedIs ==
  ASSUME task \in TaskState \cup {NoTask}, NEW status \in Statuses
  PROVE  /\ Marked(status) \in TaskState \cup {NoTask}
         /\ Marked(status) = NoTask \/ Marked(status).status = status
BY DEF Marked, TaskState

(* A call that moves on keeps its locals.                                  *)
LEMMA Moves ==
  ASSUME NEW c \in CallState, NEW label \in Pcs, NEW d, d = [c EXCEPT !.pc = label]
  PROVE  /\ d \in CallState /\ d.pc = label /\ d.part = c.part /\ d.from = c.from
         /\ d.expected = c.expected
         /\ d.shift = c.shift /\ d.got = c.got /\ d.handle = c.handle
BY DEF CallState

(* A failed attempt closes the file and looks at what reached the disk.    *)
LEMMA Retries ==
  ASSUME NEW s \in Calls, call \in [Calls -> CallState],
         disk \in [Places -> [Parts -> Content]], call[s].part \in Parts
  PROVE  \E d \in CallState :
           /\ Retry(s, call) = [call EXCEPT ![s] = d]
           /\ d.pc \in {"failed", "backoff"} /\ d.handle = "none"
           /\ d.part = call[s].part /\ d.expected = call[s].expected
           /\ d.shift = call[s].shift
           /\ d.from = FileLength("part", call[s].part)
<1> DEFINE c == call[s]
           label == IF c.attempt >= MaxAttempts THEN "failed" ELSE "backoff"
<1>1. PICK n : n = FileLength("part", c.part)
  OBVIOUS
<1>2. n \in Nat
  BY <1>1 DEF FileLength, Content, Places
<1> DEFINE d == [c EXCEPT !.handle = "none", !.pc = label, !.from = n]
<1>3. Retry(s, call) = [call EXCEPT ![s] = d]
  BY <1>1 DEF Retry
<1>4. c \in CallState /\ label \in {"failed", "backoff"}
  OBVIOUS
<1> HIDE DEF c, label
<1>5. d \in CallState /\ d.pc = label /\ d.handle = "none" /\ d.part = c.part
      /\ d.expected = c.expected /\ d.shift = c.shift /\ d.from = n
  BY <1>2, <1>4 DEF CallState, Pcs
<1> HIDE DEF d
<1> QED BY <1>1, <1>3, <1>4, <1>5 DEF c

-----------------------------------------------------------------------------
(* Steps of the one call.                                                  *)

Alone(s) == \A t \in Calls \ {s} : AtRest(call[t])

(* A step of the call under way preserves the invariant when it leaves the *)
(* files as they should be and itself right about them.                    *)
LEMMA OneStep ==
  ASSUME DownloadInv, NEW s \in Calls, Alone(s), NEW d \in CallState,
         call' = [call EXCEPT ![s] = d],
         UNCHANGED <<reaping, artifact, cancels>>,
         disk' \in [Places -> [Parts -> Content]],
         task' \in TaskState \cup {NoTask}, sender' \in Calls \cup {NoCall},
         DiskInv', CallInv(d), HeldInv(d)',
         task' # NoTask /\ task'.status = "completed" =>
           Settled(d) /\ (Vouched => \A i \in Parts : disk'["final"][i] = Genuine)
  PROVE  DownloadInv'
<1>1. /\ call' \in [Calls -> CallState] /\ call'[s] = d
      /\ \A t \in Calls \ {s} : call'[t] = call[t] /\ AtRest(call[t])
  BY DEF DownloadInv, DownloadTypeOK, Alone
<1>2. DownloadTypeOK'
  BY <1>1, SameArtifact DEF DownloadInv, DownloadTypeOK, TaskState
<1>3. CallInv(d)'
  BY SameArtifact DEF CallInv
<1>4. ASSUME NEW t \in Calls \ {s}
      PROVE  CallInv(call[t])' /\ HeldInv(call[t])' /\ Settled(call[t])'
  <2>1. PICK c : c = call[t]
    OBVIOUS
  <2>2. AtRest(c) /\ CallInv(c) /\ call'[t] = c
    BY <1>1, <2>1 DEF DownloadInv
  <2>3. CallInv(c)' /\ c.handle = "none"
    BY <2>2, SameArtifact DEF CallInv, AtRest
  <2>4. c.pc = "idle" \/ c.pc = "done"
    BY <2>2 DEF AtRest
  <2>5. HeldInv(c)'
    BY <2>3, <2>4 DEF HeldInv
  <2>6. Settled(c)'
    BY <2>4 DEF Settled
  <2> QED BY <2>2, <2>3, <2>5, <2>6
<1>5. Settled(d) => Settled(d)'
  BY SameArtifact DEF Settled
<1>6. CompletedInv'
  BY <1>1, <1>4, <1>5, SameArtifact DEF CompletedInv
<1>7. \A t \in Calls : CallInv(call[t])' /\ HeldInv(call[t])'
  BY <1>1, <1>3, <1>4
<1> QED BY <1>2, <1>6, <1>7 DEF DownloadInv

(* A step that changes no file: the call's own state says all there is.    *)
LEMMA QuietStep ==
  ASSUME DownloadInv, NEW s \in Calls, Alone(s), NEW d \in CallState,
         call' = [call EXCEPT ![s] = d],
         UNCHANGED <<disk, reaping, artifact, cancels>>,
         task' \in TaskState \cup {NoTask}, sender' \in Calls \cup {NoCall},
         CallInv(d), HeldInv(d),
         task' # NoTask /\ task'.status = "completed" =>
           Settled(d) /\ (Vouched => \A i \in Parts : disk["final"][i] = Genuine)
  PROVE  DownloadInv'
<1>1. DiskInv'
  BY SameArtifact DEF DownloadInv, DiskInv, Counted
<1>2. HeldInv(d)'
  BY SameArtifact DEF HeldInv, FileLength
<1> QED BY <1>1, <1>2, OneStep DEF DownloadInv, DownloadTypeOK

(* The same for a step to a point where nothing is relied on, which writes *)
(* no Completed.                                                           *)
Free == {"mkdir", "resolve", "publish", "arm", "cleanup", "failed", "report", "done"}

LEMMA QuietGoto ==
  ASSUME DownloadInv, NEW s \in Calls, Alone(s), NEW d \in CallState,
         call' = [call EXCEPT ![s] = d],
         UNCHANGED <<disk, reaping, artifact, cancels>>,
         task' \in TaskState \cup {NoTask}, sender' \in Calls \cup {NoCall},
         d.pc \in Free, d.handle = "none", d.expected = call[s].expected
         /\ d.shift = call[s].shift,
         \/ task' = NoTask \/ task'.status # "completed"
         \/ task' = task /\ ~Settled(call[s])
         \/ task' = task /\ Settled(d)
  PROVE  DownloadInv'
<1>1. CallInv(call[s]) /\ HeldInv(call[s]) /\ CompletedInv
  BY DEF DownloadInv
<1>2. CallInv(d) /\ HeldInv(d)
  BY <1>1 DEF CallInv, HeldInv, Free
<1>3. task' # NoTask /\ task'.status = "completed" => Settled(d) /\ task' = task
  BY <1>1 DEF CompletedInv
<1> QED BY <1>1, <1>2, <1>3, QuietStep DEF CompletedInv

-----------------------------------------------------------------------------
(* Before the body: each action of the call under way.                     *)

LEMMA GotoIs ==
  ASSUME NEW s \in Calls, call \in [Calls -> CallState], NEW label \in Pcs, Goto(s, label)
  PROVE  \E d \in CallState :
           /\ call' = [call EXCEPT ![s] = d]
           /\ d.pc = label /\ d.part = call[s].part /\ d.from = call[s].from
           /\ d.expected = call[s].expected
           /\ d.shift = call[s].shift /\ d.got = call[s].got
           /\ d.handle = call[s].handle
<1> DEFINE d == [call[s] EXCEPT !.pc = label]
<1>1. call' = [call EXCEPT ![s] = d]
  BY DEF Goto
<1>2. /\ d \in CallState /\ d.pc = label /\ d.part = call[s].part /\ d.from = call[s].from
      /\ d.expected = call[s].expected
      /\ d.shift = call[s].shift /\ d.got = call[s].got /\ d.handle = call[s].handle
  BY Moves
<1> HIDE DEF d
<1> QED BY <1>1, <1>2

(* What the invariant says of one call.                                    *)
LEMMA CallFacts ==
  ASSUME DownloadInv, NEW s \in Calls
  PROVE  /\ call \in [Calls -> CallState] /\ call[s] \in CallState
         /\ task \in TaskState \cup {NoTask} /\ sender \in Calls \cup {NoCall}
         /\ disk \in [Places -> [Parts -> Content]] /\ artifact \in Artifacts
         /\ CallInv(call[s]) /\ HeldInv(call[s])
         /\ call[s].handle = "none" \/ At(s, "stream") \/ At(s, "write")
BY DEF DownloadInv, DownloadTypeOK, CallInv, At

(* A step that moves the call to a point where nothing is relied on.       *)
LEMMA GotoFree ==
  ASSUME DownloadInv, NEW s \in Calls, Alone(s), NEW label \in Free, Goto(s, label),
         call[s].handle = "none", UNCHANGED <<disk, reaping, artifact, cancels>>,
         task' \in TaskState \cup {NoTask}, sender' \in Calls \cup {NoCall},
         \/ task' = NoTask \/ task'.status # "completed"
         \/ task' = task /\ ~Settled(call[s])
         \/ task' = task /\ label \in {"mkdir", "cleanup", "done"}
  PROVE  DownloadInv'
<1>1. call \in [Calls -> CallState]
  BY CallFacts
<1>2. PICK d \in CallState :
        /\ call' = [call EXCEPT ![s] = d]
        /\ d.pc = label /\ d.expected = call[s].expected
        /\ d.shift = call[s].shift /\ d.handle = call[s].handle
  BY <1>1, GotoIs DEF Free, Pcs
<1>3. label \in {"mkdir", "cleanup", "done"} => Settled(d)
  BY <1>2 DEF Settled
<1> QED BY <1>2, <1>3, QuietGoto

(* A call that finds the task active gives up, whoever else is at work;    *)
(* one that goes on is alone by hypothesis.                                *)
LEMMA StartKeeps ==
  ASSUME DownloadInv, NEW s \in Calls, Start(s), OneCall'
  PROVE  DownloadInv'
<1> USE CallFacts DEF At
<1>1. PICK label \in {"done", "mkdir"} : Goto(s, label)
  BY DEF Start
<1>2. PICK d \in CallState :
        /\ call' = [call EXCEPT ![s] = d] /\ d.pc = label
        /\ d.expected = call[s].expected
        /\ d.shift = call[s].shift /\ d.handle = call[s].handle
  BY <1>1, GotoIs DEF Pcs
<1>3. /\ call' \in [Calls -> CallState] /\ call'[s] = d
      /\ \A t \in Calls \ {s} : call'[t] = call[t]
      /\ UNCHANGED <<artifact, task, sender, disk, reaping, cancels>>
      /\ call[s].pc = "idle" /\ call[s].handle = "none"
  BY <1>2 DEF Start, bounds
<1>4. CASE label = "mkdir"
  <2>1. Alone(s)
    BY <1>2, <1>3, <1>4 DEF OneCall, Alone, AtRest
  <2> QED BY <1>1, <1>3, <1>4, <2>1, GotoFree DEF Free
<1>5. CASE label = "done"
  <2>1. CallInv(d) /\ HeldInv(d) /\ Settled(d)
    BY <1>2, <1>3, <1>5 DEF CallInv, HeldInv, Settled
  <2>2. DownloadTypeOK'
    BY <1>3, SameArtifact DEF DownloadInv, DownloadTypeOK, TaskState
  <2>3. DiskInv'
    BY <1>3, SameArtifact DEF DownloadInv, DiskInv, Counted
  <2>4. ASSUME NEW c, CallInv(c) PROVE CallInv(c)'
    BY <1>3, <2>4, SameArtifact DEF CallInv
  <2>5. ASSUME NEW c, HeldInv(c) PROVE HeldInv(c)'
    BY <1>3, <2>5, SameArtifact DEF HeldInv, FileLength
  <2>6. ASSUME NEW c, Settled(c) PROVE Settled(c)'
    BY <1>3, <2>6, SameArtifact DEF Settled
  <2>7. ASSUME NEW t \in Calls PROVE CallInv(call[t])' /\ HeldInv(call[t])'
    <3>1. PICK c : c = call'[t]
      OBVIOUS
    <3>2. CallInv(c) /\ HeldInv(c)
      BY <1>3, <2>1, <3>1 DEF DownloadInv
    <3> QED BY <2>4, <2>5, <3>1, <3>2
  <2>8. ASSUME task' # NoTask, task'.status = "completed", NEW t \in Calls
        PROVE  Settled(call[t])'
    <3>1. PICK c : c = call'[t]
      OBVIOUS
    <3>2. Settled(c)
      BY <1>3, <2>1, <2>8, <3>1 DEF DownloadInv, CompletedInv
    <3> QED BY <2>6, <3>1, <3>2
  <2>9. CompletedInv'
    BY <1>3, <2>8, SameArtifact DEF DownloadInv, CompletedInv
  <2> QED BY <2>2, <2>3, <2>7, <2>9 DEF DownloadInv
<1> QED BY <1>4, <1>5

LEMMA ResolvingKeeps ==
  ASSUME DownloadInv, NEW s \in Calls, Alone(s),
         AnnounceResolving(s) \/ ResolveFails(s) \/ Resolved(s)
  PROVE  DownloadInv'
<1> USE CallFacts DEF At
<1>1. ASSUME AnnounceResolving(s) PROVE DownloadInv'
  <2>1. [status |-> "resolving", part |-> 0] \in TaskState
    BY ArtifactFacts DEF TaskState, Statuses
  <2> QED BY <1>1, <2>1, GotoFree DEF AnnounceResolving, bounds, Free
<1>2. ASSUME ResolveFails(s) PROVE DownloadInv'
  <2>1. Marked("failed") \in TaskState \cup {NoTask}
        /\ (Marked("failed") = NoTask \/ Marked("failed").status = "failed")
    BY MarkedIs DEF Statuses
  <2> QED BY <1>2, <2>1, GotoFree DEF ResolveFails, bounds, Free
<1>3. ASSUME Resolved(s) PROVE DownloadInv'
  <2> DEFINE label == IF \A i \in Parts : IsComplete(i) THEN "recover" ELSE "publish"
             d == [call[s] EXCEPT !.pc = label, !.part = Shards]
  <2>1. call' = [call EXCEPT ![s] = d]
    BY <1>3 DEF Resolved
  <2>2. label \in {"recover", "publish"} /\ Shards \in Nat
    BY ArtifactFacts
  <2> HIDE DEF label
  <2>3. d \in CallState /\ d.pc = label /\ d.part = Shards /\ d.expected = call[s].expected
        /\ d.shift = call[s].shift
        /\ d.handle = call[s].handle
    BY <2>2 DEF CallState, Pcs
  <2> HIDE DEF d
  <2>4. CallInv(d)
    BY <1>3, <2>2, <2>3 DEF CallInv, Resolved
  <2>5. Parts = 1..Shards
    BY ArtifactFacts
  <2>6. HeldInv(d)
    BY <1>3, <2>2, <2>3, <2>4, <2>5 DEF HeldInv, Resolved
  <2>7. ~Settled(call[s])
    BY <1>3 DEF Settled, Resolved
  <2>8. task = NoTask \/ task.status # "completed"
    BY <2>7 DEF DownloadInv, CompletedInv
  <2> QED BY <1>3, <2>1, <2>3, <2>4, <2>6, <2>8, QuietStep DEF Resolved, bounds
<1> QED BY <1>1, <1>2, <1>3

LEMMA PublishKeeps ==
  ASSUME DownloadInv, NEW s \in Calls, Alone(s), PublishTask(s) \/ ArmCancel(s)
  PROVE  DownloadInv'
<1> USE CallFacts DEF At
<1>1. ASSUME PublishTask(s) PROVE DownloadInv'
  <2>1. PICK p : task' = [status |-> "downloading", part |-> p] /\ p \in Parts
    BY <1>1, ArtifactFacts, FirstIncomplete DEF PublishTask
  <2>2. task' \in TaskState /\ task'.status = "downloading"
    BY <2>1, ArtifactFacts DEF TaskState, Statuses
  <2> QED BY <1>1, <2>2, GotoFree DEF PublishTask, bounds, Free
<1>2. ASSUME ArmCancel(s) PROVE DownloadInv'
  <2> DEFINE d == [call[s] EXCEPT !.pc = "next", !.part = 1]
  <2>1. call' = [call EXCEPT ![s] = d]
    BY <1>2 DEF ArmCancel
  <2>2. d \in CallState /\ d.pc = "next" /\ d.part = 1 /\ d.expected = call[s].expected
        /\ d.shift = call[s].shift
        /\ d.handle = call[s].handle
    BY DEF CallState, Pcs
  <2> HIDE DEF d
  <2>3. Shards \in Nat \ {0}
    BY ArtifactFacts
  <2>4. CallInv(d) /\ HeldInv(d)
    BY <1>2, <2>2, <2>3 DEF CallInv, HeldInv, ArmCancel
  <2>5. ~Settled(call[s])
    BY <1>2 DEF Settled, ArmCancel
  <2>6. task = NoTask \/ task.status # "completed"
    BY <2>5 DEF DownloadInv, CompletedInv
  <2> QED BY <1>2, <2>1, <2>2, <2>4, <2>6, QuietStep DEF ArmCancel, bounds
<1> QED BY <1>1, <1>2

(* What a step of a busy call has to say of the task: not Completed yet.   *)
LEMMA BusyTask ==
  ASSUME DownloadInv, NEW s \in Calls, ~Settled(call[s])
  PROVE  task = NoTask \/ task.status # "completed"
BY DEF DownloadInv, CompletedInv

LEMMA NextPartKeeps ==
  ASSUME DownloadInv, NEW s \in Calls, Alone(s), NextPart(s)
  PROVE  DownloadInv'
<1> USE CallFacts DEF At
<1>0. /\ Shards \in Nat \ {0} /\ Parts = 1..Shards
      /\ UNCHANGED <<sender, disk, reaping, artifact, cancels>>
      /\ call[s].pc = "next" /\ call[s].handle = "none"
      /\ call[s].part \in 1..(Shards + 1) /\ CallInv(call[s])
  BY ArtifactFacts DEF NextPart, bounds, CallInv
<1> DEFINE i == call[s].part
<1>1. CASE /\ i > Shards /\ task' = task
           /\ call' = [call EXCEPT ![s].pc = IF Split THEN "install" ELSE "cleanup",
                                   ![s].part = Shards]
  <2> DEFINE label == IF Split THEN "install" ELSE "cleanup"
             d == [call[s] EXCEPT !.pc = label, !.part = Shards]
  <2>1. call' = [call EXCEPT ![s] = d] /\ label \in {"install", "cleanup"}
    BY <1>1
  <2>2. ~Split => label = "cleanup"
    OBVIOUS
  <2> HIDE DEF label
  <2>3. d \in CallState /\ d.pc = label /\ d.part = Shards /\ d.expected = call[s].expected
        /\ d.shift = call[s].shift
        /\ d.handle = "none"
    BY <1>0, <2>1 DEF CallState, Pcs
  <2> HIDE DEF d
  <2>4. CallInv(d) /\ HeldInv(d)
    BY <1>0, <2>1, <2>3 DEF CallInv, HeldInv
  <2>5. Settled(call[s]) => Settled(d)
    BY <1>0, <2>2, <2>3 DEF Settled
  <2> QED BY <1>0, <1>1, <2>1, <2>3, <2>4, <2>5, QuietStep DEF DownloadInv, CompletedInv
<1>2. CASE i <= Shards /\ IsComplete(i) /\ call' = [call EXCEPT ![s].part = i + 1] /\ task' = task
  <2>0. PICK n : n = i + 1
    OBVIOUS
  <2>3. n \in Nat /\ n \in 1..(Shards + 1) /\ ~Settled(call[s])
    BY <1>0, <1>2, <2>0 DEF Settled
  <2> DEFINE d == [call[s] EXCEPT !.part = n]
  <2>1. call' = [call EXCEPT ![s] = d]
    BY <1>2, <2>0
  <2>2. d \in CallState /\ d.pc = "next" /\ d.part = n /\ d.expected = call[s].expected
        /\ d.shift = call[s].shift
        /\ d.handle = "none"
    BY <1>0, <2>3 DEF CallState
  <2> HIDE DEF d
  <2>4. CallInv(d) /\ HeldInv(d)
    BY <1>0, <2>2, <2>3 DEF CallInv, HeldInv
  <2> QED BY <1>0, <1>2, <2>1, <2>2, <2>3, <2>4, QuietStep, BusyTask
<1>3. CASE Goto(s, "cleanup") /\ task' = task
  BY <1>0, <1>3, GotoFree DEF Free
<1>4. CASE /\ i <= Shards
           /\ task' = IF task = NoTask THEN NoTask ELSE [task EXCEPT !.part = i]
           /\ call' = [call EXCEPT ![s].pc = "connect", ![s].attempt = 1,
                                   ![s].from = FileLength("part", i)]
  <2>1. PICK n : n = FileLength("part", i)
    OBVIOUS
  <2>2. n \in Nat /\ i \in Parts
    BY <1>0, <1>4, <2>1 DEF FileLength, Content, Places
  <2> DEFINE d == [call[s] EXCEPT !.pc = "connect", !.attempt = 1, !.from = n]
  <2>3. call' = [call EXCEPT ![s] = d]
    BY <1>4, <2>1
  <2>4. d \in CallState /\ d.pc = "connect" /\ d.part = i /\ d.expected = call[s].expected
        /\ d.shift = call[s].shift
        /\ d.handle = "none" /\ d.from = n
    BY <1>0, <2>2 DEF CallState, Pcs
  <2> HIDE DEF d
  <2>5. CallInv(d) /\ HeldInv(d)
    BY <1>0, <2>1, <2>2, <2>4 DEF CallInv, HeldInv
  <2>6. task = NoTask \/ task.status # "completed"
    <3>1. ~Settled(call[s])
      BY <1>0, <1>4 DEF Settled
    <3> QED BY <3>1, BusyTask
  <2>7. task' \in TaskState \cup {NoTask} /\ (task' = NoTask \/ task'.status # "completed")
    BY <1>0, <1>4, <2>2, <2>6 DEF TaskState
  <2> QED BY <1>0, <2>3, <2>4, <2>5, <2>7, QuietStep
<1> QED BY <1>0, <1>1, <1>2, <1>3, <1>4 DEF NextPart

(* A retry resumes from the length of the .part.                           *)
LEMMA RetryKeeps ==
  ASSUME DownloadInv, NEW s \in Calls, Alone(s), call' = Retry(s, call),
         call[s].part \in Parts, ~Settled(call[s]),
         UNCHANGED <<task, sender, disk, reaping, artifact, cancels>>
  PROVE  DownloadInv'
<1>1. PICK d \in CallState :
        /\ call' = [call EXCEPT ![s] = d]
        /\ d.pc \in {"failed", "backoff"} /\ d.handle = "none"
        /\ d.part = call[s].part /\ d.expected = call[s].expected /\ d.shift = call[s].shift
        /\ d.from = FileLength("part", call[s].part)
  BY CallFacts, Retries
<1>2. CallInv(d) /\ HeldInv(d)
  <2>1. CallInv(call[s])
    BY CallFacts
  <2> QED BY <1>1, <2>1 DEF CallInv, HeldInv
<1> QED BY <1>1, <1>2, CallFacts, BusyTask, QuietStep

LEMMA ConnectFailsKeeps ==
  ASSUME DownloadInv, NEW s \in Calls, Alone(s), ConnectFails(s) \/ Backoff(s)
  PROVE  DownloadInv'
<1> USE CallFacts DEF At
<1>0. /\ UNCHANGED <<task, sender, disk, reaping, artifact, cancels>>
      /\ call[s].pc \in {"connect", "backoff"} /\ call[s].handle = "none"
      /\ call[s].part \in Parts /\ ~Settled(call[s])
  BY DEF ConnectFails, Backoff, bounds, CallInv, Settled
<1>1. ASSUME ConnectFails(s) PROVE DownloadInv'
  BY <1>0, <1>1, GotoFree, RetryKeeps DEF ConnectFails, Free
<1>2. ASSUME Backoff(s) PROVE DownloadInv'
  <2> DEFINE c == call[s]
             n == IF c.cancel THEN c.attempt ELSE c.attempt + 1
             label == IF c.cancel THEN "cleanup" ELSE "connect"
             d == [c EXCEPT !.attempt = n, !.pc = label]
  <2>1. call' = [call EXCEPT ![s] = d] /\ c.pc = "backoff"
    BY <1>2 DEF Backoff
  <2>2. n \in Nat /\ label \in {"cleanup", "connect"}
    BY DEF CallState
  <2> HIDE DEF n, label
  <2>3. d \in CallState /\ d.pc = label /\ d.part = c.part /\ d.expected = c.expected
        /\ d.shift = c.shift
        /\ d.handle = "none" /\ d.from = c.from
    BY <1>0, <2>2 DEF CallState, Pcs
  <2> HIDE DEF d
  <2>4. CallInv(d) /\ HeldInv(d)
    BY <1>0, <2>1, <2>2, <2>3 DEF CallInv, HeldInv
  <2> QED BY <1>0, <2>1, <2>3, <2>4, QuietStep, BusyTask
<1> QED BY <1>1, <1>2

LEMMA ReceiveKeeps ==
  ASSUME DownloadInv, NEW s \in Calls, Alone(s), ReceiveChunk(s) \/ EndOfStream(s)
  PROVE  DownloadInv'
<1> USE CallFacts DEF At
<1> DEFINE c == call[s]
<1>0. /\ UNCHANGED <<task, sender, disk, reaping, artifact, cancels>>
      /\ c.pc = "stream" /\ c.part \in Parts /\ ~Settled(c)
      /\ CallInv(c) /\ HeldInv(c) /\ Size \in Nat \ {0} /\ c.got \in Nat /\ c.shift \in Nat
  BY ArtifactFacts DEF ReceiveChunk, EndOfStream, bounds, CallInv, Settled, CallState
<1>1. ASSUME NEW label \in {"cleanup", "verify"},
             call' = [call EXCEPT ![s].pc = label, ![s].handle = "none"]
      PROVE  DownloadInv'
  <2> DEFINE d == [c EXCEPT !.pc = label, !.handle = "none"]
  <2>1. call' = [call EXCEPT ![s] = d]
    BY <1>1
  <2>2. d \in CallState /\ d.pc = label /\ d.part = c.part /\ d.expected = c.expected
        /\ d.shift = c.shift
        /\ d.handle = "none"
    BY DEF CallState, Pcs
  <2> HIDE DEF d
  <2>3. CallInv(d) /\ HeldInv(d)
    BY <1>0, <2>2 DEF CallInv, HeldInv
  <2> QED BY <1>0, <2>1, <2>2, <2>3, QuietStep, BusyTask
<1>2. ASSUME c.shift + c.got < Size, Goto(s, "write") PROVE DownloadInv'
  <2>1. PICK d \in CallState :
          /\ call' = [call EXCEPT ![s] = d]
          /\ d.pc = "write" /\ d.part = c.part /\ d.from = c.from
          /\ d.expected = c.expected
          /\ d.shift = c.shift /\ d.got = c.got /\ d.handle = c.handle
    BY <1>2, GotoIs DEF Pcs
  <2>2. CallInv(d) /\ HeldInv(d)
    BY <1>0, <1>2, <2>1 DEF CallInv, HeldInv
  <2> QED BY <1>0, <2>1, <2>2, QuietStep, BusyTask
<1>3. ASSUME call' = Retry(s, call) PROVE DownloadInv'
  BY <1>0, <1>3, RetryKeeps
<1> QED BY <1>0, <1>1, <1>2, <1>3 DEF ReceiveChunk, EndOfStream

(* The check of the size vouches for the length, and for the contents when *)
(* nothing has come between and there is no sum.                           *)
LEMMA VerifySizeKeeps ==
  ASSUME DownloadInv, NEW s \in Calls, Alone(s), VerifySize(s)
  PROVE  DownloadInv'
<1> USE CallFacts DEF At
<1> DEFINE c == call[s]
           f == disk["part"][c.part]
<1>0. /\ UNCHANGED <<sender, disk, reaping, artifact, cancels>>
      /\ c.pc = "verify" /\ c.part \in Parts /\ c.handle = "none"
      /\ CallInv(c) /\ Size \in Nat \ {0} /\ task' = Marked("verifying")
  BY ArtifactFacts DEF VerifySize, bounds, CallInv
<1>1. task' \in TaskState \cup {NoTask} /\ (task' = NoTask \/ task'.status = "verifying")
  BY <1>0, MarkedIs DEF Statuses
<1>2. ASSUME Goto(s, "failed") PROVE DownloadInv'
  BY <1>0, <1>1, <1>2, GotoFree DEF Free
<1>3. ASSUME f # Absent, ~(c.expected > 0 /\ FileLength("part", c.part) # c.expected),
             ~(c.expected = 0 /\ ~SumKnown), Goto(s, "hash")
      PROVE  DownloadInv'
  <2>1. PICK d \in CallState :
          /\ call' = [call EXCEPT ![s] = d]
          /\ d.pc = "hash" /\ d.part = c.part /\ d.expected = c.expected
          /\ d.shift = c.shift
          /\ d.handle = c.handle
    BY <1>3, GotoIs DEF Pcs
  <2>2. /\ f \in Seq(Nat) /\ (Undisturbed => Counted(f))
        /\ c.expected = Size => Len(f) = Size
    BY <1>0, <1>3 DEF DownloadInv, DiskInv, Content, Places, FileLength
  <2>3. ~Shifting => c.expected \in {0, Size} /\ (SizeKnown => c.expected = Size)
    BY <1>0 DEF CallInv
  <2>4. Vouched /\ ~SumKnown => f = Genuine
    <3>1. ASSUME Vouched, ~SumKnown PROVE Counted(f) /\ Len(f) = Size
      BY <1>3, <2>2, <2>3, <3>1 DEF Vouched, Undisturbed
    <3> QED BY <2>2, <3>1, CountedIsPrefix
  <2>5. CallInv(d) /\ HeldInv(d)
    BY <1>0, <2>1, <2>2, <2>3, <2>4 DEF CallInv, HeldInv
  <2> QED BY <1>0, <1>1, <2>1, <2>5, QuietStep
<1> QED BY <1>0, <1>2, <1>3 DEF VerifySize

(* The shards are all in place when the last has been renamed.             *)
LEMMA InstalledKeeps ==
  ASSUME DownloadInv, NEW s \in Calls, Alone(s), Installed(s)
  PROVE  DownloadInv'
<1> USE CallFacts DEF At
<1> DEFINE c == call[s]
<1>0. /\ UNCHANGED <<sender, disk, reaping, artifact, cancels>>
      /\ c.pc \in {"install", "recover"} /\ c.part = 0 /\ c.handle = "none"
      /\ CallInv(c) /\ HeldInv(c)
  BY DEF Installed, bounds, CallInv
<1>1. Vouched => \A i \in Parts : disk["final"][i] = Genuine
  <2>1. ASSUME NEW i \in Parts PROVE i > 0
    BY ArtifactFacts
  <2>2. \A i \in Parts : disk["final"][i] # Absent
    BY <1>0, <2>1 DEF HeldInv
  <2> QED BY <2>2 DEF DownloadInv, DiskInv
<1>2. task' \in TaskState \cup {NoTask}
  <2>1. Marked("completed") \in TaskState \cup {NoTask}
    BY MarkedIs DEF Statuses
  <2>2. [status |-> "completed", part |-> 1] \in TaskState
    BY ArtifactFacts DEF TaskState, Statuses
  <2> QED BY <2>1, <2>2 DEF Installed
<1>3. PICK label \in {"cleanup", "done"} : Goto(s, label)
  BY DEF Installed
<1>4. PICK d \in CallState :
        /\ call' = [call EXCEPT ![s] = d]
        /\ d.pc = label /\ d.part = c.part /\ d.expected = c.expected
        /\ d.shift = c.shift /\ d.handle = c.handle
  BY <1>3, GotoIs DEF Pcs
<1>5. CallInv(d) /\ HeldInv(d) /\ Settled(d)
  BY <1>0, <1>4 DEF CallInv, HeldInv, Settled
<1> QED BY <1>0, <1>1, <1>2, <1>4, <1>5, QuietStep

LEMMA EndKeeps ==
  ASSUME DownloadInv, NEW s \in Calls, Alone(s), CleanUp(s) \/ ReportFailure(s)
  PROVE  DownloadInv'
<1> USE CallFacts DEF At
<1>1. ASSUME CleanUp(s) PROVE DownloadInv'
  <2>1. PICK label \in {"report", "done"} :
          Goto(s, label) /\ (label = "report" => call[s].pc = "failed")
    BY <1>1 DEF CleanUp
  <2>2. label = "report" => ~Settled(call[s])
    BY <2>1 DEF Settled
  <2>3. /\ call[s].handle = "none" /\ sender' \in Calls \cup {NoCall}
        /\ UNCHANGED <<task, disk, reaping, artifact, cancels>>
    BY <1>1 DEF CleanUp, bounds
  <2> QED BY <2>1, <2>2, <2>3, GotoFree DEF Free
<1>2. ASSUME ReportFailure(s) PROVE DownloadInv'
  <2>1. Marked("failed") \in TaskState \cup {NoTask}
        /\ (Marked("failed") = NoTask \/ Marked("failed").status = "failed")
    BY MarkedIs DEF Statuses
  <2>2. /\ call[s].handle = "none" /\ Goto(s, "done")
        /\ UNCHANGED <<sender, disk, reaping, artifact, cancels>>
        /\ task' = task \/ task' = Marked("failed")
    BY <1>2 DEF ReportFailure, bounds
  <2> QED BY <2>1, <2>2, GotoFree DEF Free
<1> QED BY <1>1, <1>2

-----------------------------------------------------------------------------
(* The actions that change files.                                          *)

(* Storing a body that counts, or none, in a .part keeps the files right.  *)
LEMMA PartStored ==
  ASSUME DownloadInv, NEW i \in Parts, NEW x \in Content,
         disk' = [disk EXCEPT !["part"][i] = x], UNCHANGED <<artifact, cancels>>,
         reaping' \subseteq reaping,
         Undisturbed /\ x # Absent => Counted(x)
  PROVE  /\ DiskInv' /\ disk' \in [Places -> [Parts -> Content]]
         /\ disk'["part"][i] = x /\ disk'["final"] = disk["final"]
         /\ \A j \in Parts : j # i => disk'["part"][j] = disk["part"][j]
<1> DEFINE e == disk'
<1>1. /\ e \in [Places -> [Parts -> Content]] /\ e["part"][i] = x
      /\ \A q \in Places, j \in Parts : q # "part" \/ j # i => e[q][j] = disk[q][j]
  <2>1. disk \in [Places -> [Parts -> Content]] /\ "part" \in Places
    BY DEF DownloadInv, DownloadTypeOK, Places
  <2> QED BY <2>1, Stored
<1>2. e["final"] = disk["final"]
  BY DEF DownloadInv, DownloadTypeOK, Places
<1>3. \A j \in Parts : /\ e["staged"][j] = disk["staged"][j]
                       /\ e["final"][j] = disk["final"][j]
                       /\ j # i => e["part"][j] = disk["part"][j]
  BY <1>1 DEF Places
<1>4. \A j \in Parts : Undisturbed /\ e["part"][j] # Absent => Counted(e["part"][j])
  <2>1. ASSUME NEW j \in Parts, j # i, Undisturbed, e["part"][j] # Absent
        PROVE  Counted(e["part"][j])
    BY <1>3, <2>1 DEF DownloadInv, DiskInv
  <2> QED BY <1>1, <2>1
<1>5. ASSUME NEW g, Counted(g) PROVE Counted(g)'
  BY <1>5, SameArtifact DEF Counted
<1>6. DiskInv'
  <2>1. ASSUME NEW j \in Parts
        PROVE  /\ Measured => \A place \in {"staged", "final"} :
                    e[place][j] # Absent => Len(e[place][j]) = Size
               /\ Vouched => \A place \in {"staged", "final"} : e[place][j] \in {Absent, Genuine}
               /\ LengthVouched /\ e["final"][1] # Absent => e["final"][j] # Absent
    BY <1>2, <1>3, ArtifactFacts DEF DownloadInv, DownloadTypeOK, DiskInv
  <2>2. cancels = 0 => reaping = {}
    BY DEF DownloadInv, DiskInv
  <2>3. ASSUME NEW j \in Parts, Undisturbed, e["part"][j] # Absent PROVE Counted(disk["part"][j])'
    <3>1. PICK g : g = e["part"][j]
      OBVIOUS
    <3> QED BY <1>4, <1>5, <2>3, <3>1
  <2> QED BY <2>1, <2>2, <2>3, SameArtifact DEF DiskInv
<1> QED BY <1>1, <1>2, <1>3, <1>6

(* No handle is open on what nobody reads.                                 *)
LEMMA NoneMoves ==
  ASSUME NEW i, NEW from, NEW to, from # "none", to # "none", call \in [Calls -> CallState],
         \A t \in Calls : call[t].handle = "none"
  PROVE  Moved(call, i, from, to) = call
BY DEF Moved

LEMMA NoHandles ==
  ASSUME DownloadInv, NEW s \in Calls, Alone(s), call[s].handle = "none"
  PROVE  \A t \in Calls : call[t].handle = "none"
BY DEF Alone, AtRest, DownloadInv, CallInv

LEMMA ConnectKeeps ==
  ASSUME DownloadInv, NEW s \in Calls, Alone(s), Connect(s)
  PROVE  DownloadInv'
<1> USE CallFacts DEF At
<1> DEFINE c == call[s]
           f == disk["part"][c.part]
<1>0. /\ UNCHANGED <<sender, reaping, artifact, cancels>>
      /\ c.pc = "connect" /\ c.part \in Parts /\ HeldInv(c)
      /\ Size \in Nat \ {0} /\ c.from \in Nat /\ f \in Content /\ task' = Marked("downloading")
  BY ArtifactFacts DEF Connect, bounds, CallInv, CallState, Places
<1>1. task' \in TaskState \cup {NoTask} /\ (task' = NoTask \/ task'.status = "downloading")
  BY <1>0, MarkedIs DEF Statuses
<1>2. PICK body, measured, start, shift :
       /\ body \in Bodies(c) /\ measured \in BOOLEAN
       /\ start = IF body = c.from THEN body ELSE 0
       /\ shift = body - start
       /\ disk' = [disk EXCEPT !["part"][c.part] =
                     IF ~Appends(c, start) \/ @ = Absent THEN <<>> ELSE @]
       /\ call' = [call EXCEPT ![s].pc = "stream", ![s].handle = "part",
                               ![s].got = start, ![s].shift = shift,
                               ![s].append = Appends(c, start),
                               ![s].expected = IF measured THEN Size - shift
                                               ELSE IF SizeKnown THEN Size ELSE 0]
  <2> DEFINE First(body) == IF body = c.from THEN body ELSE 0
  <2>1. PICK body \in Bodies(c), measured \in BOOLEAN :
         /\ disk' = [disk EXCEPT !["part"][c.part] =
                       IF ~Appends(c, First(body)) \/ @ = Absent THEN <<>> ELSE @]
         /\ call' = [call EXCEPT ![s].pc = "stream", ![s].handle = "part",
                                 ![s].got = First(body), ![s].shift = body - First(body),
                                 ![s].append = Appends(c, First(body)),
                                 ![s].expected = IF measured THEN Size - (body - First(body))
                                                 ELSE IF SizeKnown THEN Size ELSE 0]
    BY DEF Connect
  <2>2. PICK start, shift : start = First(body) /\ shift = body - start
    OBVIOUS
  <2> QED BY <2>1, <2>2
<1>15. /\ body \in 0..(Size - 1)
       /\ ~Shifting => body = 0 \/ body = c.from
  BY <1>0, <1>2 DEF Bodies
<1>13. /\ start \in Nat /\ (start = 0 \/ (start = c.from /\ start > 0))
       /\ shift \in 0..(Size - 1) /\ (~Shifting => shift = 0)
  BY <1>0, <1>2, <1>15
<1>3. PICK x : /\ start > 0 /\ f # Absent => x = f
               /\ start = 0 \/ f = Absent => x = <<>>
  <2>1. CASE start > 0 /\ f # Absent
    BY <1>13, <2>1
  <2>2. CASE ~(start > 0 /\ f # Absent)
    BY <1>13, <2>2
  <2> QED BY <2>1, <2>2
<1>4. PICK n : n = IF measured THEN Size - shift ELSE IF SizeKnown THEN Size ELSE 0
  OBVIOUS
<1>16. n \in Nat /\ (~Shifting => n \in {0, Size} /\ (SizeKnown => n = Size))
  BY <1>0, <1>4, <1>13
<1>5. PICK a \in BOOLEAN : a = Appends(c, start)
  <2>1. Appends(c, start) \in BOOLEAN
    BY <1>13 DEF Appends
  <2> QED BY <2>1
<1>6. disk' = [disk EXCEPT !["part"][c.part] = x]
  BY <1>0, <1>2, <1>3, <1>13 DEF Appends, Places
<1>7. n \in Nat /\ a \in BOOLEAN /\ shift \in Nat
  BY <1>5, <1>13, <1>16
<1>8. PICK d \in CallState :
        /\ call' = [call EXCEPT ![s] = d]
        /\ d.pc = "stream" /\ d.part = c.part /\ d.expected = n
        /\ d.handle = "part" /\ d.got = start /\ d.shift = shift
  <2> DEFINE d == [c EXCEPT !.pc = "stream", !.handle = "part", !.got = start,
                            !.shift = shift, !.append = a, !.expected = n]
  <2>1. call' = [call EXCEPT ![s] = d]
    BY <1>2, <1>4, <1>5
  <2>2. c \in CallState
    OBVIOUS
  <2> HIDE DEF c
  <2>3. /\ d \in CallState /\ d.pc = "stream" /\ d.part = c.part /\ d.expected = n
        /\ d.handle = "part" /\ d.got = start /\ d.shift = shift
    BY <1>7, <1>13, <2>2 DEF CallState, Pcs
  <2> HIDE DEF d
  <2> QED BY <2>1, <2>3
<1>9. /\ x \in Content /\ x # Absent
      /\ Undisturbed => Len(x) = start /\ Counted(x)
  <2>1. <<>> \in Seq(Nat) /\ Counted(<<>>) /\ Len(<<>>) = 0
    BY <1>0 DEF Counted
  <2>2. x = <<>> \/ (x = f /\ f # Absent)
    BY <1>3, <1>13
  <2>3. x \in Content /\ x # Absent
    BY <1>0, <2>1, <2>2, AbsentAssumption DEF Content
  <2>4. ASSUME Undisturbed PROVE Len(x) = start /\ Counted(x)
    <3>1. CASE start = 0
      BY <1>3, <2>1, <3>1
    <3>2. CASE start = c.from /\ start > 0
      <4>1. f # Absent /\ Len(f) = c.from
        BY <1>0, <2>4, <3>2 DEF HeldInv, FileLength
      <4>2. Counted(f)
        BY <1>0, <2>4, <4>1 DEF DownloadInv, DiskInv
      <4> QED BY <1>3, <3>2, <4>1, <4>2
    <3> QED BY <1>13, <3>1, <3>2
  <2> QED BY <2>3, <2>4
<1>10. DiskInv' /\ disk' \in [Places -> [Parts -> Content]] /\ disk'["part"][c.part] = x
  BY <1>0, <1>6, <1>9, PartStored
<1>11. CallInv(d)
  BY <1>0, <1>8, <1>13, <1>16 DEF CallInv
<1>12. HeldInv(d)'
  <2>1. disk'["part"][d.part] = x
    BY <1>8, <1>10
  <2>2. Undisturbed' <=> Undisturbed
    BY <1>0, SameArtifact
  <2> QED BY <1>8, <1>9, <2>1, <2>2 DEF HeldInv
<1>14. task' # NoTask => task'.status # "completed"
  BY <1>1
<1> QED BY <1>0, <1>1, <1>7, <1>8, <1>10, <1>11, <1>12, <1>14, OneStep

LEMMA WriteKeeps ==
  ASSUME DownloadInv, NEW s \in Calls, Alone(s), WriteChunk(s)
  PROVE  DownloadInv'
<1> USE CallFacts DEF At
<1> DEFINE c == call[s]
           f == disk["part"][c.part]
<1>0. /\ UNCHANGED <<task, sender, reaping, artifact, cancels>>
      /\ c.pc = "write" /\ c.part \in Parts /\ HeldInv(c) /\ CallInv(c) /\ ~Settled(c)
      /\ Size \in Nat \ {0} /\ c.got \in Nat /\ c.shift \in Nat /\ f \in Content
      /\ c.handle \in {"part", "gone"}
  BY ArtifactFacts DEF WriteChunk, bounds, CallInv, CallState, Places, Settled
<1>1. ASSUME call' = [call EXCEPT ![s].pc = "failed", ![s].handle = "none"], disk' = disk
      PROVE  DownloadInv'
  <2> DEFINE d == [c EXCEPT !.pc = "failed", !.handle = "none"]
  <2>1. call' = [call EXCEPT ![s] = d]
    BY <1>1
  <2>2. d \in CallState /\ d.pc = "failed" /\ d.expected = c.expected
        /\ d.shift = c.shift /\ d.handle = "none"
    BY DEF CallState, Pcs
  <2> HIDE DEF d
  <2> QED BY <1>0, <1>1, <2>1, <2>2, QuietGoto DEF Free
<1>2. ASSUME NEW chunk \in {c.shift + c.got + 1} \cup (IF Corrupting THEN {0} ELSE {}),
             disk' = IF c.handle = "gone" THEN disk
                     ELSE [disk EXCEPT ![c.handle][c.part] =
                             IF c.append THEN Append(@, chunk)
                             ELSE Overwritten(@, c.got + 1, chunk)],
             call' = [call EXCEPT ![s].pc = "stream", ![s].got = @ + 1]
      PROVE  DownloadInv'
  <2>1. PICK n : n = c.got + 1
    OBVIOUS
  <2>2. n \in Nat \ {0} /\ chunk \in Nat /\ (Undisturbed => chunk = n)
    BY <1>0, <2>1 DEF Undisturbed, CallInv
  <2>4. PICK d \in CallState :
          /\ call' = [call EXCEPT ![s] = d]
          /\ d.pc = "stream" /\ d.part = c.part /\ d.expected = c.expected
          /\ d.shift = c.shift
          /\ d.handle = c.handle /\ d.got = n
    <3> DEFINE d == [c EXCEPT !.pc = "stream", !.got = n]
    <3>1. call' = [call EXCEPT ![s] = d]
      BY <1>2, <2>1
    <3>2. /\ d \in CallState /\ d.pc = "stream" /\ d.part = c.part
          /\ d.expected = c.expected
          /\ d.shift = c.shift /\ d.handle = c.handle /\ d.got = n
      BY <2>2 DEF CallState, Pcs
    <3> HIDE DEF d
    <3> QED BY <3>1, <3>2
  <2>5. CallInv(d)
    BY <1>0, <2>4 DEF CallInv
  <2>6. CASE c.handle = "gone"
    <3>1. disk' = disk
      BY <1>2, <2>6
    <3>2. HeldInv(d)
      BY <1>0, <2>4, <2>6 DEF HeldInv
    <3> QED BY <1>0, <2>4, <2>5, <3>1, <3>2, QuietStep, BusyTask
  <2>7. CASE c.handle = "part"
    <3>1. PICK x : x = IF c.append THEN Append(f, chunk) ELSE Overwritten(f, n, chunk)
      OBVIOUS
    <3>2. disk' = [disk EXCEPT !["part"][c.part] = x]
      BY <1>0, <1>2, <2>1, <2>7, <3>1 DEF Places
    <3>3. f \in Seq(Nat)
      BY <1>0, <2>7 DEF HeldInv, Content
    <3>4. x \in Content /\ x # Absent
      <4>1. Append(f, chunk) \in Seq(Nat) /\ Overwritten(f, n, chunk) \in Seq(Nat)
        BY <2>2, <3>3, WrittenCounts
      <4>2. x = Append(f, chunk) \/ x = Overwritten(f, n, chunk)
        BY <3>1
      <4> QED BY <4>1, <4>2, AbsentAssumption DEF Content
    <3>5. ASSUME Undisturbed PROVE Counted(x) /\ Len(x) = n
      <4>1. c.got = Len(f) /\ c.got < Size /\ Counted(f)
        BY <1>0, <3>3, <3>5, AbsentAssumption
        DEF HeldInv, CallInv, Undisturbed, DownloadInv, DiskInv
      <4>2. x = Append(f, chunk) /\ Len(Append(f, chunk)) = Len(f) + 1
        BY <2>1, <2>2, <3>1, <3>3, <4>1, WrittenCounts
      <4>3. Counted(Append(f, chunk))
        BY <1>0, <2>1, <2>2, <3>3, <3>5, <4>1, WrittenCounts
      <4> QED BY <2>1, <4>1, <4>2, <4>3
    <3>6. DiskInv' /\ disk' \in [Places -> [Parts -> Content]] /\ disk'["part"][c.part] = x
      BY <1>0, <3>2, <3>4, <3>5, PartStored
    <3>7. HeldInv(d)'
      <4>1. disk'["part"][d.part] = x
        BY <2>4, <3>6
      <4>2. Undisturbed' <=> Undisturbed
        BY <1>0, SameArtifact
      <4> QED BY <2>4, <2>7, <3>4, <3>5, <4>1, <4>2 DEF HeldInv
    <3> QED BY <1>0, <2>4, <2>5, <3>6, <3>7, OneStep, BusyTask
  <2> QED BY <1>0, <2>6, <2>7
<1> QED BY <1>1, <1>2 DEF WriteChunk

(* What passes the sum, or what has none and nothing has come between, is  *)
(* genuine.                                                                *)
LEMMA VerifySumKeeps ==
  ASSUME DownloadInv, NEW s \in Calls, Alone(s), VerifySum(s)
  PROVE  DownloadInv'
<1> USE CallFacts DEF At
<1> DEFINE i == call[s].part
<1>0. /\ UNCHANGED <<task, sender, reaping, artifact, cancels>>
      /\ call[s].pc = "hash" /\ i \in Parts /\ call[s].handle = "none"
      /\ HeldInv(call[s]) /\ CallInv(call[s]) /\ ~Settled(call[s])
  BY DEF VerifySum, bounds, CallInv, Settled
<1>1. ASSUME disk' = [disk EXCEPT !["part"][i] = Absent],
             call' = [Moved(call, i, "part", "gone") EXCEPT ![s].pc = "failed"]
      PROVE  DownloadInv'
  <2>1. Goto(s, "failed")
    BY <1>0, <1>1, NoneMoves, NoHandles DEF Goto
  <2>2. PICK d \in CallState :
          /\ call' = [call EXCEPT ![s] = d]
          /\ d.pc = "failed" /\ d.expected = call[s].expected
          /\ d.shift = call[s].shift /\ d.handle = call[s].handle
    BY <2>1, GotoIs DEF Pcs
  <2>3. DiskInv' /\ disk' \in [Places -> [Parts -> Content]]
    BY <1>0, <1>1, PartStored DEF Content
  <2>4. CallInv(d) /\ HeldInv(d)'
    BY <1>0, <2>2 DEF CallInv, HeldInv
  <2> QED BY <1>0, <2>2, <2>3, <2>4, OneStep, BusyTask
<1>2. ASSUME SumKnown => disk["part"][i] = Genuine, Goto(s, "rename"), disk' = disk
      PROVE  DownloadInv'
  <2>1. PICK d \in CallState :
          /\ call' = [call EXCEPT ![s] = d]
          /\ d.pc = "rename" /\ d.part = i /\ d.expected = call[s].expected
          /\ d.shift = call[s].shift
          /\ d.handle = call[s].handle
    BY <1>2, GotoIs DEF Pcs
  <2>2. CallInv(d) /\ HeldInv(d)
    BY <1>0, <1>2, <2>1 DEF CallInv, HeldInv
  <2> QED BY <1>0, <1>2, <2>1, <2>2, QuietStep, BusyTask
<1> QED BY <1>1, <1>2 DEF VerifySum

(* The verified .part moves to its destination: it is genuine by then, or  *)
(* has gone, and makes way for nothing a whole model still needs.          *)
LEMMA FinalizeKeeps ==
  ASSUME DownloadInv, NEW s \in Calls, Alone(s), Finalize(s)
  PROVE  DownloadInv'
<1> USE CallFacts DEF At
<1> DEFINE i == call[s].part
           f == disk["part"][i]
           to == Destination
<1>0. /\ UNCHANGED <<sender, reaping, artifact, cancels>>
      /\ call[s].pc = "rename" /\ i \in Parts /\ call[s].handle = "none"
      /\ HeldInv(call[s]) /\ CallInv(call[s]) /\ ~Settled(call[s])
      /\ disk' = [disk EXCEPT ![to][i] = f, !["part"][i] = Absent]
      /\ to \in {"staged", "final"} /\ (to = "final" <=> ~Split) /\ f \in Content
  BY DEF Finalize, bounds, CallInv, Settled, Destination, Places
<1>1. /\ Shards \in Nat \ {0} /\ Parts = 1..Shards /\ (~Split => Shards = 1)
  BY ArtifactFacts
<1>2. /\ Measured /\ f # Absent => Len(f) = Size
      /\ Vouched => f \in {Absent, Genuine}
  BY <1>0, ArtifactFacts DEF HeldInv, Measured, LengthVouched, Vouched
<1>3. PICK e : e = [disk EXCEPT ![to][i] = f]
  OBVIOUS
<1>4. disk' = [e EXCEPT !["part"][i] = Absent]
  BY <1>0, <1>3 DEF Places
<1>5. /\ e \in [Places -> [Parts -> Content]] /\ e[to][i] = f
      /\ \A q \in Places, j \in Parts : q # to \/ j # i => e[q][j] = disk[q][j]
  BY <1>0, <1>3, Stored DEF Places
<1>6. /\ disk' \in [Places -> [Parts -> Content]] /\ disk'["part"][i] = Absent
      /\ \A q \in Places, j \in Parts : q # "part" \/ j # i => disk'[q][j] = e[q][j]
  <2>1. Absent \in Content /\ "part" \in Places
    BY DEF Content, Places
  <2>2. i \in Parts /\ e \in [Places -> [Parts -> Content]]
    BY <1>0, <1>5
  <2> HIDE DEF i
  <2> QED BY <1>4, <2>1, <2>2, Stored
<1>7. /\ disk'[to][i] = f
      /\ \A q \in {"staged", "final"}, j \in Parts : q # to \/ j # i => disk'[q][j] = disk[q][j]
      /\ \A j \in Parts : j # i => disk'["part"][j] = disk["part"][j]
  BY <1>0, <1>5, <1>6 DEF Places
<1> HIDE DEF to
<1>8. DiskInv'
  <2>1. ASSUME NEW j \in Parts, NEW q \in {"staged", "final"}
        PROVE  /\ Measured /\ disk'[q][j] # Absent => Len(disk'[q][j]) = Size
               /\ Vouched => disk'[q][j] \in {Absent, Genuine}
    <3>1. CASE q = to /\ j = i
      BY <1>2, <1>7, <3>1
    <3>2. CASE q # to \/ j # i
      BY <1>7, <3>2 DEF DownloadInv, DiskInv
    <3> QED BY <3>1, <3>2
  <2>2. ASSUME NEW j \in Parts, Undisturbed, disk'["part"][j] # Absent
        PROVE  Counted(disk["part"][j])'
    <3>1. PICK g : g = disk'["part"][j]
      OBVIOUS
    <3>2. j # i /\ g = disk["part"][j]
      BY <1>6, <1>7, <2>2, <3>1
    <3>3. Counted(g)
      BY <2>2, <3>1, <3>2 DEF DownloadInv, DiskInv
    <3>4. Counted(g)'
      BY <1>0, <3>3, SameArtifact DEF Counted
    <3> QED BY <3>1, <3>4
  <2>3. ASSUME NEW j \in Parts, LengthVouched, disk'["final"][1] # Absent
        PROVE  disk'["final"][j] # Absent
    <3>1. CASE Split
      <4>1. disk'["final"][1] = disk["final"][1] /\ disk'["final"][j] = disk["final"][j]
        <5>1. to # "final"
          BY <1>0, <3>1
        <5>2. 1 \in Parts
          BY <1>1
        <5> QED BY <1>7, <5>1, <5>2
      <4> QED BY <2>3, <4>1 DEF DownloadInv, DiskInv
    <3>2. CASE ~Split
      BY <1>1, <2>3, <3>2
    <3> QED BY <3>1, <3>2
  <2>4. cancels = 0 => reaping = {}
    BY DEF DownloadInv, DiskInv
  <2>5. UNCHANGED <<artifact, cancels, reaping>>
    BY <1>0
  <2> QED BY <2>1, <2>2, <2>3, <2>4, <2>5, SameArtifact DEF DiskInv
<1>9. ASSUME f = Absent, call' = [Moved(call, i, to, "gone") EXCEPT ![s].pc = "failed"],
             task' = task
      PROVE  DownloadInv'
  <2>1. Goto(s, "failed")
    BY <1>0, <1>9, NoneMoves, NoHandles DEF Goto
  <2>2. PICK d \in CallState :
          /\ call' = [call EXCEPT ![s] = d]
          /\ d.pc = "failed" /\ d.expected = call[s].expected
          /\ d.shift = call[s].shift /\ d.handle = call[s].handle
    BY <2>1, GotoIs DEF Pcs
  <2>3. CallInv(d) /\ HeldInv(d)'
    BY <1>0, <2>2 DEF CallInv, HeldInv
  <2> QED BY <1>0, <1>6, <1>8, <1>9, <2>2, <2>3, OneStep, BusyTask
<1>10. ASSUME call' = [Moved(call, i, "part", to) EXCEPT ![s].pc = "next", ![s].part = i + 1],
              f # Absent, task' = Marked(StatusOfPart)
       PROVE  DownloadInv'
  <2>1. Moved(call, i, "part", to) = call
    BY <1>0, NoneMoves, NoHandles
  <2>2. PICK n : n = i + 1
    OBVIOUS
  <2>3. n \in 1..(Shards + 1) /\ n \in Nat
    BY <1>0, <1>1, <2>2
  <2>4. PICK d \in CallState :
          /\ call' = [call EXCEPT ![s] = d]
          /\ d.pc = "next" /\ d.part = n
          /\ d.expected = call[s].expected /\ d.shift = call[s].shift /\ d.handle = "none"
    <3> DEFINE d == [call[s] EXCEPT !.pc = "next", !.part = n]
    <3>1. call' = [call EXCEPT ![s] = d]
      BY <1>10, <2>1, <2>2
    <3>2. /\ d \in CallState /\ d.pc = "next" /\ d.part = n
          /\ d.expected = call[s].expected /\ d.shift = call[s].shift /\ d.handle = "none"
      BY <1>0, <2>3 DEF CallState, Pcs
    <3> HIDE DEF d
    <3> QED BY <3>1, <3>2
  <2>5. CallInv(d) /\ HeldInv(d)'
    BY <1>0, <2>3, <2>4 DEF CallInv, HeldInv
  <2>6. /\ task' \in TaskState \cup {NoTask}
        /\ task' = NoTask \/ task'.status = StatusOfPart
    BY <1>10, MarkedIs DEF StatusOfPart, Statuses
  <2>7. ASSUME task' # NoTask, task'.status = "completed"
        PROVE  Settled(d) /\ (Vouched => \A j \in Parts : disk'["final"][j] = Genuine)
    <3>1. ~Split
      BY <2>6, <2>7 DEF StatusOfPart
    <3>2. i = 1 /\ \A j \in Parts : j = 1
      BY <1>0, <1>1, <3>1
    <3>3. disk'["final"][1] = f
      BY <1>0, <1>7, <3>1, <3>2
    <3> QED BY <1>1, <1>2, <1>10, <2>2, <2>4, <3>1, <3>2, <3>3 DEF Settled
  <2> QED BY <1>0, <1>6, <1>8, <2>4, <2>5, <2>6, <2>7, OneStep
<1> QED BY <1>9, <1>10 DEF Finalize, to

(* A shard goes into place after all behind it, so the first only when the *)
(* model is whole; where none is staged none was in place either.          *)
LEMMA InstallKeeps ==
  ASSUME DownloadInv, NEW s \in Calls, Alone(s), InstallShard(s)
  PROVE  DownloadInv'
<1> USE CallFacts DEF At
<1> DEFINE i == call[s].part
           g == disk["staged"][i]
           fails == ~IsInstalled(i) /\ g = Absent
<1>1. /\ Shards \in Nat \ {0} /\ Parts = 1..Shards /\ (~SizeKnown => Shards = 1)
  BY ArtifactFacts
<1>0. /\ UNCHANGED <<task, sender, reaping, artifact, cancels>>
      /\ call[s].pc \in {"install", "recover"} /\ i \in Parts /\ call[s].handle = "none"
      /\ HeldInv(call[s]) /\ CallInv(call[s]) /\ ~Settled(call[s])
      /\ g \in Content
  BY <1>1 DEF InstallShard, bounds, CallInv, Settled, Places
<1>2. \A t \in Calls : call[t].handle = "none"
  BY <1>0, NoHandles
<1>3. /\ Moved(call, i, "final", "gone") = call
      /\ Moved(call, i, "staged", "final") = call
  BY <1>2, NoneMoves
<1>4. PICK label \in {"install", "recover", "publish", "failed"}, n \in 0..Shards :
        /\ call' = [call EXCEPT ![s].pc = label, ![s].part = n]
        /\ fails => label \in {"publish", "failed"}
        /\ ~fails => n = i - 1
  <2>1. PICK label : label = IF ~fails THEN call[s].pc
                       ELSE IF call[s].pc = "recover" THEN "publish" ELSE "failed"
    OBVIOUS
  <2>2. PICK n : n = IF fails THEN i ELSE i - 1
    OBVIOUS
  <2>3. /\ label \in {"install", "recover", "publish", "failed"} /\ n \in 0..Shards
        /\ fails => label \in {"publish", "failed"}
        /\ ~fails => n = i - 1
    BY <1>0, <1>1, <2>1, <2>2
  <2>4. call' = [call EXCEPT ![s].pc = label, ![s].part = n]
    BY <1>3, <2>1, <2>2 DEF InstallShard
  <2> QED BY <2>3, <2>4
<1>5. PICK d \in CallState :
        /\ call' = [call EXCEPT ![s] = d]
        /\ d.pc = label /\ d.part = n /\ d.expected = call[s].expected
        /\ d.shift = call[s].shift /\ d.handle = "none"
  <2> DEFINE d == [call[s] EXCEPT !.pc = label, !.part = n]
  <2>1. n \in Nat /\ label \in Pcs
    BY <1>1, <1>4 DEF Pcs
  <2>2. /\ d \in CallState /\ d.pc = label /\ d.part = n
        /\ d.expected = call[s].expected /\ d.shift = call[s].shift /\ d.handle = "none"
    BY <1>0, <2>1 DEF CallState
  <2>3. call' = [call EXCEPT ![s] = d]
    BY <1>4
  <2> HIDE DEF d
  <2> QED BY <2>2, <2>3
<1>6. CallInv(d)
  BY <1>0, <1>1, <1>4, <1>5 DEF CallInv
<1>7. ASSUME IsInstalled(i) PROVE DownloadInv'
  <2>1. disk' = disk
    BY <1>7 DEF InstallShard
  <2>2. \A h \in Parts : h > n => disk["final"][h] # Absent
    <3>1. n = i - 1 /\ disk["final"][i] # Absent
      BY <1>4, <1>7 DEF IsInstalled, HasSize
    <3>2. \A h \in Parts : h > i => disk["final"][h] # Absent
      BY <1>0 DEF HeldInv
    <3>3. \A h \in Parts : h > n => h = i \/ h > i
      BY <1>0, <1>1, <3>1
    <3> QED BY <3>1, <3>2, <3>3
  <2>3. HeldInv(d)
    BY <1>4, <1>5, <2>2 DEF HeldInv
  <2> QED BY <1>0, <1>5, <1>6, <2>1, <2>3, QuietStep, BusyTask
<1>8. ASSUME ~IsInstalled(i) PROVE DownloadInv'
  <2>1. disk' = [disk EXCEPT !["final"][i] = g, !["staged"][i] = Absent]
    BY <1>8 DEF InstallShard
  <2>2. PICK e : e = [disk EXCEPT !["final"][i] = g]
    OBVIOUS
  <2>3. disk' = [e EXCEPT !["staged"][i] = Absent]
    BY <2>1, <2>2
  <2>4. /\ e \in [Places -> [Parts -> Content]] /\ e["final"][i] = g
        /\ \A q \in Places, j \in Parts : q # "final" \/ j # i => e[q][j] = disk[q][j]
    BY <1>0, <2>2, Stored DEF Places
  <2>5. /\ disk' \in [Places -> [Parts -> Content]] /\ disk'["staged"][i] = Absent
        /\ \A q \in Places, j \in Parts : q # "staged" \/ j # i => disk'[q][j] = e[q][j]
    <3>1. Absent \in Content /\ "staged" \in Places
      BY DEF Content, Places
    <3> QED BY <1>0, <2>3, <2>4, <3>1, Stored
  <2>6. /\ disk'["final"][i] = g
        /\ \A j \in Parts : /\ disk'["part"][j] = disk["part"][j]
                            /\ j # i => /\ disk'["final"][j] = disk["final"][j]
                                        /\ disk'["staged"][j] = disk["staged"][j]
    BY <1>0, <2>4, <2>5 DEF Places
  <2>7. ASSUME g = Absent, LengthVouched PROVE Shards = 1 \/ disk["final"][i] = Absent
    <3>1. ASSUME SizeKnown PROVE disk["final"][i] = Absent
      BY <1>0, <1>8, <2>7, <3>1 DEF Measured, IsInstalled, HasSize, FileLength, DownloadInv, DiskInv
    <3> QED BY <1>1, <3>1
  <2>8. ASSUME NEW j \in Parts, LengthVouched, disk'["final"][1] # Absent
        PROVE  disk'["final"][j] # Absent
    <3>1. CASE g = Absent
      BY <1>0, <1>1, <2>6, <2>7, <2>8, <3>1 DEF DownloadInv, DiskInv
    <3>2. CASE g # Absent /\ i = 1
      <4>1. j = 1 \/ j > 1
        BY <1>1
      <4> QED BY <1>0, <2>6, <3>2, <4>1 DEF HeldInv
    <3>3. CASE g # Absent /\ i # 1
      <4>1. disk'["final"][1] = disk["final"][1] /\ 1 \in Parts
        BY <1>1, <2>6, <3>3
      <4>2. disk["final"][j] # Absent
        BY <2>8, <4>1 DEF DownloadInv, DiskInv
      <4> QED BY <2>6, <3>3, <4>2
    <3> QED BY <3>1, <3>2, <3>3
  <2>9. DiskInv'
    <3>1. ASSUME NEW j \in Parts, NEW q \in {"staged", "final"}
          PROVE  /\ Measured /\ disk'[q][j] # Absent => Len(disk'[q][j]) = Size
                 /\ Vouched => disk'[q][j] \in {Absent, Genuine}
      <4>1. disk'[q][j] = Absent \/ disk'[q][j] = disk[q][j] \/ disk'[q][j] = disk["staged"][j]
        BY <2>5, <2>6
      <4> QED BY <4>1 DEF DownloadInv, DiskInv
    <3>2. ASSUME NEW j \in Parts, Undisturbed, disk'["part"][j] # Absent
          PROVE  Counted(disk["part"][j])'
      <4>1. PICK x : x = disk'["part"][j]
        OBVIOUS
      <4>2. Counted(x)
        BY <2>6, <3>2, <4>1 DEF DownloadInv, DiskInv
      <4>3. Counted(x)'
        BY <1>0, <4>2, SameArtifact DEF Counted
      <4> QED BY <4>1, <4>3
    <3>3. cancels = 0 => reaping = {}
      BY DEF DownloadInv, DiskInv
    <3> QED BY <1>0, <2>8, <3>1, <3>2, <3>3, SameArtifact DEF DiskInv
  <2>10. HeldInv(d)'
    <3>1. ASSUME ~fails, NEW h \in Parts, h > n PROVE disk'["final"][h] # Absent
      <4>1. g # Absent /\ n = i - 1
        BY <1>4, <1>8, <3>1
      <4>2. h = i \/ (h # i /\ h > i)
        BY <1>0, <1>1, <3>1, <4>1
      <4> QED BY <1>0, <2>6, <4>1, <4>2 DEF HeldInv
    <3>2. Parts' = Parts
      BY <1>0, SameArtifact
    <3> QED BY <1>4, <1>5, <3>1, <3>2 DEF HeldInv
  <2> QED BY <1>0, <1>5, <1>6, <2>5, <2>9, <2>10, OneStep, BusyTask
<1> QED BY <1>7, <1>8

-----------------------------------------------------------------------------
(* The user, the deletion task and the machine.                            *)

(* What one call has found out is as true of another at the same work.     *)
SameWork(c, d) ==
  /\ d.pc = c.pc /\ d.part = c.part /\ d.from = c.from
  /\ d.expected = c.expected /\ d.got = c.got /\ d.shift = c.shift /\ d.handle = c.handle

LEMMA SameWorkKeeps ==
  ASSUME NEW c, NEW d, SameWork(c, d)
  PROVE  /\ CallInv(c) => CallInv(d)
         /\ HeldInv(c) => HeldInv(d)
         /\ Settled(c) => Settled(d)
BY DEF SameWork, CallInv, HeldInv, Settled

(* A raised flag changes nobody's work.                                    *)
LEMMA SignalledIs ==
  ASSUME call \in [Calls -> CallState], sender \in Calls \cup {NoCall}
  PROVE  /\ Signalled \in [Calls -> CallState]
         /\ \A t \in Calls : SameWork(call[t], Signalled[t])
<1>1. CASE sender = NoCall
  BY <1>1 DEF Signalled, SameWork
<1>2. CASE sender # NoCall
  <2> DEFINE d == [call[sender] EXCEPT !.cancel = TRUE]
  <2>1. sender \in Calls /\ Signalled = [call EXCEPT ![sender] = d]
    BY <1>2 DEF Signalled
  <2>2. d \in CallState /\ SameWork(call[sender], d)
    BY <2>1 DEF CallState, SameWork
  <2> HIDE DEF d
  <2> QED BY <2>1, <2>2 DEF SameWork
<1> QED BY <1>1, <1>2

LEMMA PauseKeeps ==
  ASSUME DownloadInv, Pause
  PROVE  DownloadInv'
<1>1. /\ UNCHANGED <<sender, disk, reaping, artifact, cancels>>
      /\ call' = Signalled /\ task' = Marked("paused")
  BY DEF Pause, bounds
<1>2. /\ call' \in [Calls -> CallState]
      /\ \A t \in Calls : SameWork(call[t], call'[t])
  BY <1>1, SignalledIs DEF DownloadInv, DownloadTypeOK
<1>3. task' \in TaskState \cup {NoTask} /\ (task' = NoTask \/ task'.status = "paused")
  BY <1>1, MarkedIs DEF DownloadInv, DownloadTypeOK, Statuses
<1>4. DownloadTypeOK'
  BY <1>1, <1>2, <1>3, SameArtifact DEF DownloadInv, DownloadTypeOK, TaskState
<1>5. DiskInv'
  BY <1>1, SameArtifact DEF DownloadInv, DiskInv, Counted
<1>6. CompletedInv'
  BY <1>3 DEF CompletedInv
<1>7. ASSUME NEW t \in Calls PROVE CallInv(call[t])' /\ HeldInv(call[t])'
  <2>1. PICK c : c = call'[t]
    OBVIOUS
  <2>2. CallInv(c) /\ HeldInv(c)
    BY <1>2, <2>1, SameWorkKeeps DEF DownloadInv
  <2>3. CallInv(c)'
    BY <1>1, <2>2, SameArtifact DEF CallInv
  <2>4. HeldInv(c)'
    BY <1>1, <2>2, SameArtifact DEF HeldInv, FileLength
  <2> QED BY <2>1, <2>3, <2>4
<1> QED BY <1>4, <1>5, <1>6, <1>7 DEF DownloadInv

(* After a cancel only a sum can vouch for anything; staged shards may go, *)
(* files in place stay.                                                    *)
LEMMA CancelKeeps ==
  ASSUME DownloadInv, Cancel
  PROVE  DownloadInv'
<1>1. /\ UNCHANGED <<sender, artifact>> /\ task' = NoTask
      /\ cancels \in Nat /\ cancels' = cancels + 1
      /\ task \in TaskState /\ call \in [Calls -> CallState]
      /\ disk \in [Places -> [Parts -> Content]]
  BY DEF Cancel, DownloadInv, DownloadTypeOK
<1>2. /\ UNCHANGED <<Shards, Size, SizeKnown, SumKnown, Corrupting, Shifting,
                     Parts, Split, Genuine>>
      /\ ~Undisturbed' /\ cancels' \in Nat /\ cancels' # 0
      /\ (Vouched' => Vouched) /\ (Measured' <=> Measured)
      /\ LengthVouched' <=> LengthVouched
  <2>1. UNCHANGED <<Shards, Size, SizeKnown, SumKnown, Corrupting, Shifting,
                     Parts, Split, Genuine>>
    BY <1>1 DEF Shards, Size, SizeKnown, SumKnown, Corrupting, Shifting, Parts, Split, Genuine
  <2>2. cancels' \in Nat /\ cancels' # 0
    BY <1>1
  <2> QED BY <2>1, <2>2 DEF Undisturbed, Vouched, Measured, LengthVouched
<1>3. /\ Signalled \in [Calls -> CallState]
      /\ \A t \in Calls : SameWork(call[t], Signalled[t])
  BY SignalledIs DEF DownloadInv, DownloadTypeOK
<1>4. call' = Signalled
  <2>1. \A t \in Calls : Signalled[t].handle # "staged"
    BY <1>3 DEF CallState
  <2>2. [t \in Calls |-> IF Signalled[t].handle = "staged"
                         THEN [Signalled[t] EXCEPT !.handle = "gone"] ELSE Signalled[t]]
          = Signalled
    BY <1>3, <2>1
  <2> QED BY <2>2 DEF Cancel
<1>5. /\ disk' \in [Places -> [Parts -> Content]]
      /\ \A i \in Parts : /\ disk'["part"][i] = disk["part"][i]
                          /\ disk'["final"][i] = disk["final"][i]
                          /\ disk'["staged"][i] \in {Absent, disk["staged"][i]}
  <2>1. CASE disk' = disk
    BY <1>1, <2>1
  <2>2. CASE disk' = [disk EXCEPT !["staged"] = [i \in Parts |-> Absent]]
    <3>1. [i \in Parts |-> Absent] \in [Parts -> Content]
      BY DEF Content
    <3> QED BY <1>1, <2>2, <3>1 DEF Places
  <2> QED BY <2>1, <2>2 DEF Cancel
<1>6. reaping' \subseteq Parts
  <2>1. task.part \in 0..Shards /\ Parts = 1..Shards /\ reaping \subseteq Parts
    BY <1>1, ArtifactFacts DEF TaskState, DownloadInv, DownloadTypeOK
  <2>2. task.part # 0 => task.part \in Parts
    BY <2>1, ArtifactFacts
  <2> QED BY <2>1, <2>2 DEF Cancel
<1>7. DownloadTypeOK'
  BY <1>1, <1>2, <1>3, <1>4, <1>5, <1>6 DEF DownloadInv, DownloadTypeOK
<1>8. DiskInv'
  <2>1. ASSUME NEW j \in Parts, NEW q \in {"staged", "final"}
        PROVE  /\ Measured /\ disk'[q][j] # Absent => Len(disk'[q][j]) = Size
               /\ Vouched => disk'[q][j] \in {Absent, Genuine}
    BY <1>5 DEF DownloadInv, DiskInv
  <2>2. ASSUME NEW j \in Parts, LengthVouched, disk'["final"][1] # Absent
        PROVE  disk'["final"][j] # Absent
    BY <1>5, <2>2, ArtifactFacts DEF DownloadInv, DownloadTypeOK, DiskInv
  <2> QED BY <1>2, <2>1, <2>2 DEF DiskInv
<1>9. ASSUME NEW t \in Calls PROVE CallInv(call[t])' /\ HeldInv(call[t])'
  <2>1. PICK c : c = call'[t]
    OBVIOUS
  <2>2. CallInv(c) /\ HeldInv(c)
    BY <1>3, <1>4, <2>1, SameWorkKeeps DEF DownloadInv
  <2>3. CallInv(c)'
    BY <1>2, <2>2 DEF CallInv
  <2>4. c.handle = "part" \/ c.pc \in {"hash", "rename"} => c.part \in Parts
    BY <2>2 DEF CallInv
  <2>5. HeldInv(c)'
    BY <1>2, <1>5, <2>2, <2>4 DEF HeldInv
  <2> QED BY <2>1, <2>3, <2>5
<1> QED BY <1>1, <1>7, <1>8, <1>9 DEF DownloadInv, CompletedInv

(* A deletion task is left only by a cancel: the .part it removes is one   *)
(* nothing but a sum would have vouched for.                               *)
LEMMA ReapKeeps ==
  ASSUME DownloadInv, NEW i \in EveryPart, Reap(i)
  PROVE  DownloadInv'
<1>1. /\ UNCHANGED <<task, sender, artifact, cancels>> /\ i \in Parts
      /\ reaping' \subseteq reaping /\ reaping # {} /\ cancels # 0 /\ ~Undisturbed
      /\ call \in [Calls -> CallState] /\ disk \in [Places -> [Parts -> Content]]
  BY DEF Reap, bounds, DownloadInv, DownloadTypeOK, DiskInv, Undisturbed
<1>2. /\ UNCHANGED <<Shards, Size, SizeKnown, SumKnown, Corrupting, Shifting,
                     Parts, Split, Genuine>>
      /\ ~Undisturbed' /\ (Vouched' <=> Vouched)
      /\ (Measured' <=> Measured) /\ (LengthVouched' <=> LengthVouched)
  BY <1>1, SameArtifact
<1>3. CASE disk' = [disk EXCEPT !["part"][i] = Absent] /\ call' = Moved(call, i, "part", "gone")
  <2>1. /\ DiskInv' /\ disk' \in [Places -> [Parts -> Content]]
        /\ disk'["part"][i] = Absent /\ disk'["final"] = disk["final"]
        /\ \A j \in Parts : j # i => disk'["part"][j] = disk["part"][j]
    BY <1>1, <1>3, PartStored DEF Content
  <2>2. ASSUME NEW t \in Calls
        PROVE  \E d \in CallState :
                 /\ call'[t] = d /\ d.pc = call[t].pc /\ d.part = call[t].part
                 /\ d.expected = call[t].expected
                 /\ d.shift = call[t].shift /\ d.got = call[t].got
                 /\ IF call[t].handle = "part" /\ call[t].part = i
                    THEN d.handle = "gone" ELSE d.handle = call[t].handle
    <3> DEFINE e == [call[t] EXCEPT !.handle = "gone"]
    <3>1. /\ e \in CallState /\ e.pc = call[t].pc /\ e.part = call[t].part
          /\ e.expected = call[t].expected /\ e.shift = call[t].shift
          /\ e.got = call[t].got /\ e.handle = "gone"
      BY <1>1 DEF CallState
    <3>2. call'[t] = IF call[t].part # i THEN call[t]
                     ELSE IF call[t].handle = "part" \/ call[t].handle = "gone" THEN e
                     ELSE call[t]
      BY <1>3 DEF Moved
    <3> HIDE DEF e
    <3> QED BY <1>1, <3>1, <3>2
  <2>3. call' \in [Calls -> CallState]
    <3>1. \A t \in Calls : call'[t] \in CallState
      BY <2>2
    <3>2. call' = [t \in Calls |-> call'[t]]
      BY <1>3 DEF Moved
    <3> QED BY <3>1, <3>2
  <2>4. DownloadTypeOK'
    BY <1>1, <1>2, <2>1, <2>3 DEF DownloadInv, DownloadTypeOK, TaskState
  <2>5. ASSUME NEW t \in Calls
        PROVE  CallInv(call[t])' /\ HeldInv(call[t])' /\ (Settled(call[t]) => Settled(call[t])')
    <3>1. PICK d \in CallState :
            /\ call'[t] = d /\ d.pc = call[t].pc /\ d.part = call[t].part
            /\ d.expected = call[t].expected
            /\ d.shift = call[t].shift /\ d.got = call[t].got
            /\ IF call[t].handle = "part" /\ call[t].part = i
               THEN d.handle = "gone" ELSE d.handle = call[t].handle
      BY <2>2
    <3>2. PICK c : c = call[t]
      OBVIOUS
    <3>3. CallInv(c) /\ HeldInv(c)
      BY <3>2 DEF DownloadInv
    <3>4. CallInv(d)'
      BY <1>2, <3>1, <3>2, <3>3 DEF CallInv
    <3>5. c.handle = "part" \/ c.pc \in {"hash", "rename"} => c.part \in Parts
      BY <3>3 DEF CallInv
    <3>6. HeldInv(d)'
      BY <1>2, <2>1, <3>1, <3>2, <3>3, <3>5 DEF HeldInv
    <3>7. Settled(c) => Settled(d)'
      BY <1>2, <3>1, <3>2 DEF Settled
    <3> QED BY <3>1, <3>2, <3>4, <3>6, <3>7
  <2>6. CompletedInv'
    BY <1>1, <1>2, <2>1, <2>5 DEF DownloadInv, CompletedInv
  <2> QED BY <2>1, <2>4, <2>5, <2>6 DEF DownloadInv
<1>4. CASE UNCHANGED <<disk, call>>
  <2>1. DownloadTypeOK'
    BY <1>1, <1>2, <1>4 DEF DownloadInv, DownloadTypeOK, TaskState
  <2>2. DiskInv'
    BY <1>1, <1>2, <1>4 DEF DownloadInv, DiskInv, Counted
  <2>3. ASSUME NEW t \in Calls
        PROVE  CallInv(call[t])' /\ HeldInv(call[t])' /\ (Settled(call[t]) => Settled(call[t])')
    <3>1. PICK c : c = call[t] /\ c = call'[t]
      BY <1>4
    <3>2. CallInv(c) /\ HeldInv(c)
      BY <3>1 DEF DownloadInv
    <3>3. CallInv(c)'
      BY <1>2, <3>2 DEF CallInv
    <3>4. HeldInv(c)'
      BY <1>2, <1>4, <3>2 DEF HeldInv
    <3>5. Settled(c) => Settled(c)'
      BY <1>2 DEF Settled
    <3> QED BY <3>1, <3>3, <3>4, <3>5
  <2>4. CompletedInv'
    BY <1>1, <1>2, <1>4, <2>3 DEF DownloadInv, CompletedInv
  <2> QED BY <2>1, <2>2, <2>3, <2>4 DEF DownloadInv
<1> QED BY <1>3, <1>4 DEF Reap

LEMMA IdleIs ==
  ASSUME artifact \in Artifacts
  PROVE  Idle \in CallState /\ CallInv(Idle) /\ HeldInv(Idle) /\ Settled(Idle)
BY DEF Idle, CallState, Pcs, CallInv, HeldInv, Settled

(* A kill forgets everything but the files.                                *)
LEMMA CrashKeeps ==
  ASSUME DownloadInv, Crash
  PROVE  DownloadInv'
<1>1. /\ UNCHANGED <<artifact, disk, cancels>> /\ task' = NoTask /\ sender' = NoCall
      /\ call' = [s \in Calls |-> Idle] /\ reaping' = {} /\ artifact \in Artifacts
  BY DEF Crash, DownloadInv, DownloadTypeOK
<1>2. DownloadTypeOK'
  BY <1>1, IdleIs, SameArtifact DEF DownloadInv, DownloadTypeOK
<1>3. DiskInv'
  BY <1>1, SameArtifact DEF DownloadInv, DiskInv, Counted
<1>4. PICK c : c = Idle
  OBVIOUS
<1>5. CallInv(c)' /\ HeldInv(c)'
  BY <1>4, ArtifactFacts DEF Idle, CallInv, HeldInv
<1> QED BY <1>1, <1>2, <1>3, <1>4, <1>5 DEF DownloadInv, CompletedInv

-----------------------------------------------------------------------------
(* The theorems.                                                           *)

LEMMA InitDownloadInv == Init => DownloadInv
<1> SUFFICES ASSUME Init PROVE DownloadInv
  OBVIOUS
<1>1. artifact \in Artifacts /\ task = NoTask /\ sender = NoCall /\ reaping = {} /\ cancels = 0
  BY DEF Init
<1>2. \A t \in Calls : call[t] = Idle
  BY DEF Init
<1>3. \A p \in Places, i \in Parts : disk[p][i] = Absent
  BY DEF Init
<1>4. DownloadTypeOK
  <2>1. Absent \in Content
    BY DEF Content
  <2>2. disk \in [Places -> [Parts -> Content]]
    BY <2>1 DEF Init
  <2>3. call \in [Calls -> CallState]
    BY <1>1, IdleIs DEF Init
  <2> QED BY <1>1, <2>2, <2>3 DEF DownloadTypeOK
<1>5. DiskInv
  BY <1>1, <1>3, ArtifactFacts DEF DiskInv, Places
<1> QED BY <1>1, <1>2, <1>4, <1>5, IdleIs DEF DownloadInv, CompletedInv

LEMMA NextDownloadInv ==
  ASSUME DownloadInv, OneCall, OneCall', [Next]_vars
  PROVE  DownloadInv'
<1>1. ASSUME NEW s \in Calls, Start(s) PROVE DownloadInv'
  BY <1>1, StartKeeps
<1>2. ASSUME NEW s \in Calls, Step(s) PROVE DownloadInv'
  <2>1. ~AtRest(call[s])
    BY <1>2 DEF Step, AtRest, At, AnnounceResolving, ResolveFails, Resolved, PublishTask,
      ArmCancel, NextPart, ConnectFails, Connect, ReceiveChunk, WriteChunk, EndOfStream,
      Backoff, VerifySize, VerifySum, Finalize, InstallShard, Installed, CleanUp, ReportFailure
  <2>2. Alone(s)
    BY <2>1 DEF OneCall, Alone
  <2> QED BY <1>2, <2>2, ResolvingKeeps, PublishKeeps, NextPartKeeps, ConnectFailsKeeps,
      ConnectKeeps, ReceiveKeeps, WriteKeeps, VerifySizeKeeps, VerifySumKeeps, FinalizeKeeps,
      InstallKeeps, InstalledKeeps, EndKeeps DEF Step
<1>3. CASE Pause
  BY <1>3, PauseKeeps
<1>4. CASE Cancel
  BY <1>4, CancelKeeps
<1>5. CASE Crash
  BY <1>5, CrashKeeps
<1>6. ASSUME NEW i \in EveryPart, Reap(i) PROVE DownloadInv'
  BY <1>6, ReapKeeps
<1>7. CASE UNCHANGED vars
  <2>1. UNCHANGED <<artifact, task, sender, call, disk, reaping, cancels>>
    BY <1>7 DEF vars
  <2>2. DownloadTypeOK'
    BY <2>1, SameArtifact DEF DownloadInv, DownloadTypeOK, TaskState
  <2>3. DiskInv'
    BY <2>1, SameArtifact DEF DownloadInv, DiskInv, Counted
  <2>4. ASSUME NEW t \in Calls
        PROVE  CallInv(call[t])' /\ HeldInv(call[t])' /\ (Settled(call[t]) => Settled(call[t])')
    <3>1. PICK c : c = call[t] /\ c = call'[t]
      BY <2>1
    <3>2. CallInv(c) /\ HeldInv(c)
      BY <3>1 DEF DownloadInv
    <3>3. CallInv(c)'
      BY <2>1, <3>2, SameArtifact DEF CallInv
    <3>4. HeldInv(c)'
      BY <2>1, <3>2, SameArtifact DEF HeldInv, FileLength
    <3>5. Settled(c) => Settled(c)'
      BY <2>1, SameArtifact DEF Settled
    <3> QED BY <3>1, <3>3, <3>4, <3>5
  <2>5. CompletedInv'
    BY <2>1, <2>4, SameArtifact DEF DownloadInv, CompletedInv
  <2> QED BY <2>2, <2>3, <2>4, <2>5 DEF DownloadInv
<1> QED BY <1>1, <1>2, <1>3, <1>4, <1>5, <1>6, <1>7 DEF Next

(* The inductive invariant holds while no two calls are under way at once. *)
THEOREM DownloadInvariance == Spec /\ []OneCall => []DownloadInv
<1>1. Init => DownloadInv
  BY InitDownloadInv
<1>2. DownloadInv /\ OneCall /\ OneCall' /\ [Next]_vars => DownloadInv'
  BY NextDownloadInv
<1> QED BY <1>1, <1>2, PTL DEF Spec

(* Whatever was retried, resumed, truncated, cancelled or killed on the    *)
(* way, what lies staged or in place is the artifact, when a sum vouches   *)
(* for it or the network does no damage, servers send the range they are   *)
(* asked for or the whole, and nothing was cancelled (stream_once and      *)
(* run_download_loop in download_manager/manager.rs).                      *)
THEOREM OnlyGenuineInstalled == Spec /\ []OneCall => []InstalledIsGenuine
<1>1. DownloadInv => InstalledIsGenuine
  BY DEF DownloadInv, DiskInv, InstalledIsGenuine
<1> QED BY <1>1, DownloadInvariance, PTL

(* A resumed .part is a prefix of the artifact, whichever requests the     *)
(* server answered from the start, as long as it sends no third range.     *)
THEOREM PartStaysPrefix == Spec /\ []OneCall => []PartIsPrefix
<1>1. DownloadInv => PartIsPrefix
  <2> SUFFICES ASSUME DownloadInv, Undisturbed, NEW i \in Parts, disk["part"][i] # Absent
               PROVE  /\ Len(disk["part"][i]) <= Size
                      /\ disk["part"][i] = SubSeq(Genuine, 1, Len(disk["part"][i]))
    BY DEF PartIsPrefix, Undisturbed
  <2>1. disk["part"][i] \in Seq(Nat) /\ Counted(disk["part"][i]) /\ artifact \in Artifacts
    BY DEF DownloadInv, DownloadTypeOK, DiskInv, Places, Content
  <2> QED BY <2>1, CountedIsPrefix DEF Counted
<1> QED BY <1>1, DownloadInvariance, PTL

(* The first shard, which the storage scan keys on, is in place only with  *)
(* all the others, as long as a sum or an honest server stands for their   *)
(* lengths, and Completed is shown only of a whole model (install_all and  *)
(* the end of the spawned task).                                           *)
THEOREM InstalledWhole == Spec /\ []OneCall => []InstallIsWhole
<1>1. DownloadInv => InstallIsWhole
  BY DEF DownloadInv, DiskInv, CompletedInv, InstallIsWhole
<1> QED BY <1>1, DownloadInvariance, PTL


-----------------------------------------------------------------------------
(* The inductive invariant.                                                *)

Probing == pc \in {"choose", "probe"}

(* The listing holds files of the repository, and the three places a       *)
(* candidate can be in hold candidates of that listing.                    *)
Provenance ==
  /\ repo \in Repositories
  /\ seen \subseteq repo
  /\ left \subseteq Resolution!Candidates(seen)
  /\ refused \subseteq Resolution!Candidates(seen)
  /\ pc = "probe" => at \in Resolution!Candidates(seen)
  /\ preferred = NoFile \/ preferred \in Resolution!Candidates(seen)

(* A candidate waits, is being read, was refused, or was left unread: the  *)
(* unread one that is gone back to was never refused, and nothing is lost  *)
(* while there is none.                                                    *)
Accounted ==
  /\ left \cap refused = {}
  /\ preferred \notin left \cup refused
  /\ pc = "probe" => at \notin left \cup refused \cup {preferred}
  /\ pc = "choose" /\ preferred = NoFile => Resolution!Candidates(seen) \subseteq left \cup refused
  /\ pc = "probe" /\ preferred = NoFile => Resolution!Candidates(seen) \subseteq left \cup refused \cup {at}

(* Nothing is probed before the listing is read.                           *)
Unlisted ==
  pc \in {"list", "guess"} => left = {} /\ refused = {} /\ preferred = NoFile

(* What is decided is decided once.                                        *)
Decided ==
  /\ pc \in {"list", "guess", "choose", "probe", "done"}
  /\ pc # "done" => result = Resolution!Nothing
  /\ result.kind = "listed" =>
       /\ result.file \in Resolution!Candidates(seen) \ refused
       /\ result.verified => result.file.role = "model"
       /\ Resolution!Complete(result.file)
       /\ result.parts = Resolution!ShardSet(result.file)
  /\ result.kind = "refused" =>
       \/ result.file = NoFile /\ Resolution!Candidates(seen) \subseteq refused
       \/ result.file # NoFile /\ ~Resolution!Complete(result.file)

ResolveInv == Provenance /\ Accounted /\ Unlisted /\ Decided

-----------------------------------------------------------------------------
(* Operators.                                                              *)

LEMMA NoFileIsNone ==
  ASSUME Resolution!ResolverAssumption, repo \in Repositories, seen \subseteq repo
  PROVE  NoFile \notin Resolution!Candidates(seen)
  BY DEF Resolution!ResolverAssumption, Resolution!Candidates

(* A file's shards, when they are all listed, are the listed files that    *)
(* carry its name and each number in turn; the first is the file itself.   *)
LEMMA ShardsAreTheModel ==
  ASSUME Resolution!ResolverAssumption, repo \in Repositories, seen \subseteq repo,
         NEW f \in Resolution!Candidates(seen), f.form = "split", Resolution!Complete(f)
  PROVE  /\ DOMAIN Resolution!ShardSet(f) = 1..f.total
         /\ Resolution!ShardSet(f)[1] = f
         /\ \A i \in 1..f.total :
              /\ Resolution!ShardSet(f)[i] \in repo
              /\ Resolution!ShardSet(f)[i].index = i
              /\ Resolution!ShardSet(f)[i].model = f.model
  <1>1. f \in seen /\ f \in repo /\ f.index = 1 /\ f.total \in Nat /\ f.total > 0
    BY DEF Resolution!Candidates, Resolution!ResolverAssumption
  <1>2. Resolution!ShardSet(f) = [i \in 1..f.total |-> CHOOSE g \in Resolution!Shard(f, i) : TRUE]
    BY DEF Resolution!ShardSet
  <1>3. ASSUME NEW i \in 1..f.total
        PROVE  Resolution!ShardSet(f)[i] \in Resolution!Shard(f, i)
    <2>1. Resolution!Shard(f, i) # {}
      BY DEF Resolution!Complete
    <2> QED BY <1>2, <2>1
  <1>4. 1 \in 1..f.total
    BY <1>1
  <1>5. Resolution!ShardSet(f)[1] = f
    <2> DEFINE g == Resolution!ShardSet(f)[1]
    <2>1. g \in seen /\ g.form = "split" /\ g.model = f.model /\ g.total = f.total /\ g.index = 1
      BY <1>3, <1>4 DEF Resolution!Shard
    <2> QED BY <1>1, <2>1 DEF Resolution!ResolverAssumption
  <1> QED BY <1>2, <1>3, <1>5 DEF Resolution!Shard

-----------------------------------------------------------------------------
(* Initially.                                                              *)

LEMMA ResolveInitInv == Resolution!ResolverAssumption /\ Resolution!ResolveInit => ResolveInv
  <1> SUFFICES ASSUME Resolution!ResolverAssumption, Resolution!ResolveInit PROVE ResolveInv
    OBVIOUS
  <1>1. Provenance
    BY DEF Resolution!ResolveInit, Provenance
  <1>2. Accounted /\ Unlisted
    BY DEF Resolution!ResolveInit, Accounted, Unlisted
  <1>3. Decided
    BY DEF Resolution!ResolveInit, Decided, Resolution!Nothing
  <1> QED BY <1>1, <1>2, <1>3 DEF ResolveInv

(* What Resolution!Deliver leaves, for a candidate that nobody refused.               *)
LEMMA DeliverDecides ==
  ASSUME Resolution!ResolverAssumption, ResolveInv,
         NEW f \in Resolution!Candidates(seen), f \notin refused, NEW verified \in BOOLEAN,
         verified => f.role = "model",
         Resolution!Deliver(f, verified), UNCHANGED <<repo, page, seen, left, at, attempt, want, refused, preferred>>
  PROVE  ResolveInv'
  <1>1. pc' = "done" /\ f # NoFile
    BY NoFileIsNone DEF Resolution!Deliver, ResolveInv, Provenance
  <1>2. Provenance' /\ Accounted' /\ Unlisted'
    BY <1>1 DEF ResolveInv, Provenance, Accounted, Unlisted, Resolution!Candidates
  <1>4. Resolution!ShardSet(f)' = Resolution!ShardSet(f) /\ (Resolution!Complete(f)' <=> Resolution!Complete(f))
    BY DEF Resolution!ShardSet, Resolution!Shard, Resolution!Complete
  <1>5. Decided'
    <2>1. CASE Resolution!Complete(f)
      <3>1. result' = [kind |-> "listed", file |-> f, parts |-> Resolution!ShardSet(f),
                       verified |-> verified, quant |-> Resolution!Label(f), sized |-> TRUE]
        BY <2>1 DEF Resolution!Deliver
      <3> QED BY <1>1, <1>4, <2>1, <3>1 DEF Decided
    <2>2. CASE ~Resolution!Complete(f)
      <3>1. result' = [Resolution!Nothing EXCEPT !.kind = "refused", !.file = f]
        BY <2>2 DEF Resolution!Deliver
      <3>2. result'.kind = "refused" /\ result'.file = f
        BY <3>1 DEF Resolution!Nothing
      <3> QED BY <1>1, <1>4, <2>2, <3>2 DEF Decided
    <2> QED BY <2>1, <2>2
  <1> QED BY <1>2, <1>5 DEF ResolveInv

-----------------------------------------------------------------------------
(* Each step.                                                              *)

LEMMA ResolveStep ==
  ASSUME Resolution!ResolverAssumption, ResolveInv, [Resolution!ResolveNext]_Resolution!resolveVars
  PROVE  ResolveInv'
  <1> USE DEF ResolveInv
  <1>1. CASE Resolution!ListPage
    <2> DEFINE listed == seen \cup {f \in repo : f.page = page}
    <2>1. /\ pc = "list" /\ left = {} /\ refused = {} /\ preferred = NoFile
          /\ result = Resolution!Nothing /\ result' = result
          /\ refused' = {} /\ preferred' = NoFile /\ repo' = repo
      BY <1>1 DEF Resolution!ListPage, Unlisted, Decided
    <2>2. CASE pc' = "guess" /\ UNCHANGED <<page, seen, left>>
      <3>1. Provenance' /\ Accounted' /\ Unlisted'
        BY <2>1, <2>2 DEF Provenance, Accounted, Unlisted
      <3>2. Decided'
        BY <2>1, <2>2 DEF Decided, Resolution!Nothing
      <3> QED BY <3>1, <3>2
    <2>3. CASE seen' = listed /\ UNCHANGED <<pc, left>>
      <3>1. Provenance' /\ Accounted' /\ Unlisted'
        BY <2>1, <2>3 DEF Provenance, Accounted, Unlisted
      <3>2. Decided'
        BY <2>1, <2>3 DEF Decided, Resolution!Nothing
      <3> QED BY <3>1, <3>2
    <2>4. CASE /\ seen' = listed /\ left' = Resolution!Candidates(listed)
               /\ pc' = IF listed = {} THEN "guess" ELSE "choose"
      <3>1. seen' \subseteq repo /\ left' = Resolution!Candidates(seen)' /\ pc' \in {"guess", "choose"}
        BY <2>4 DEF Provenance, Resolution!Candidates
      <3>2. pc' = "guess" => left' = {}
        BY <2>4 DEF Resolution!Candidates
      <3>3. Provenance'
        BY <2>1, <3>1 DEF Provenance
      <3>4. NoFile \notin left'
        BY <3>1, <3>3, NoFileIsNone DEF Provenance, Resolution!ResolverAssumption, Resolution!Candidates
      <3>5. Accounted' /\ Unlisted'
        BY <2>1, <3>1, <3>2, <3>4 DEF Accounted, Unlisted
      <3>6. Decided'
        BY <2>1, <3>1 DEF Decided, Resolution!Nothing
      <3> QED BY <3>3, <3>5, <3>6
    <2> QED BY <1>1, <2>2, <2>3, <2>4 DEF Resolution!ListPage
  <1>2. CASE Resolution!Guess
    <2>1. PICK sized \in BOOLEAN : result' = [Resolution!Nothing EXCEPT !.kind = "guessed", !.sized = sized]
      BY <1>2 DEF Resolution!Guess
    <2>2. result'.kind = "guessed"
      BY <2>1 DEF Resolution!Nothing
    <2>3. Provenance' /\ Accounted' /\ Unlisted'
      BY <1>2 DEF Resolution!Guess, Provenance, Accounted, Unlisted, Resolution!Candidates
    <2>4. Decided'
      BY <1>2, <2>2 DEF Resolution!Guess, Decided
    <2> QED BY <2>3, <2>4
  <1>3. CASE Resolution!Choose
    <2>1. PICK f \in Resolution!Foremost(left) :
            /\ at' = f /\ left' = left \ {f} /\ pc' = "probe"
      BY <1>3 DEF Resolution!Choose
    <2>2. f \in left /\ f \in Resolution!Candidates(seen) /\ f \notin refused /\ pc = "choose" /\ f # preferred
      BY <1>3, <2>1 DEF Resolution!Foremost, Provenance, Accounted, Resolution!Choose
    <2>3. UNCHANGED <<repo, seen, refused, preferred, result>> /\ Resolution!Candidates(seen)' = Resolution!Candidates(seen)
      BY <1>3 DEF Resolution!Choose, Resolution!Candidates
    <2>4. Provenance'
      BY <2>1, <2>2, <2>3 DEF Provenance
    <2>5. Accounted'
      BY <2>1, <2>2, <2>3 DEF Accounted
    <2>6. Unlisted' /\ Decided'
      BY <2>1, <2>2, <2>3 DEF Unlisted, Decided, Resolution!Nothing
    <2> QED BY <2>4, <2>5, <2>6
  <1>4. CASE Resolution!ReadModel
    <2>1. PICK f \in Resolution!Candidates(seen) : f = at
      BY <1>4 DEF Resolution!ReadModel, Provenance
    <2>2. f \notin refused /\ f.role = "model" /\ Resolution!Deliver(f, TRUE)
      BY <1>4, <2>1 DEF Resolution!ReadModel, Accounted
    <2> QED BY <1>4, <2>2, DeliverDecides DEF Resolution!ReadModel
  <1>5. CASE Resolution!ReadHelper
    <2>1. /\ pc = "probe" /\ pc' = "choose" /\ refused' = refused \cup {at}
          /\ UNCHANGED <<repo, seen, left, at, preferred, result>>
          /\ Resolution!Candidates(seen)' = Resolution!Candidates(seen)
      BY <1>5 DEF Resolution!ReadHelper, Resolution!Candidates
    <2>2. at \in Resolution!Candidates(seen) /\ at \notin left \cup refused /\ at # NoFile
      BY <2>1, NoFileIsNone DEF Provenance, Accounted
    <2>3. Provenance'
      BY <2>1, <2>2 DEF Provenance
    <2>4. Accounted'
      BY <2>1, <2>2 DEF Accounted
    <2>5. Unlisted' /\ Decided'
      BY <2>1 DEF Unlisted, Decided, Resolution!Nothing
    <2> QED BY <2>3, <2>4, <2>5
  <1>6. CASE Resolution!ReadOn
    <2>1. UNCHANGED <<repo, pc, seen, left, at, refused, preferred, result>>
      BY <1>6 DEF Resolution!ReadOn
    <2> QED BY <2>1 DEF Provenance, Accounted, Unlisted, Decided, Resolution!Candidates, Resolution!Complete, Resolution!Shard, Resolution!ShardSet
  <1>7. CASE Resolution!AttemptFails
    <2>1. /\ pc = "probe" /\ UNCHANGED <<repo, seen, left, at, result, refused>>
          /\ \/ UNCHANGED <<pc, preferred>>
             \/ pc' = "choose" /\ preferred' = IF preferred = NoFile THEN at ELSE preferred
          /\ Resolution!Candidates(seen)' = Resolution!Candidates(seen)
      BY <1>7 DEF Resolution!AttemptFails, Resolution!Unread, Resolution!Candidates
    <2>2. at \in Resolution!Candidates(seen) /\ at \notin left \cup refused /\ at # NoFile
      BY <2>1, NoFileIsNone DEF Provenance, Accounted
    <2>3. Provenance'
      BY <2>1, <2>2 DEF Provenance
    <2>4. Accounted'
      BY <2>1, <2>2 DEF Accounted
    <2>5. Unlisted' /\ Decided'
      BY <2>1 DEF Unlisted, Decided, Resolution!Nothing
    <2> QED BY <2>3, <2>4, <2>5
  <1>8. CASE Resolution!FallBack
    <2>1. CASE preferred # NoFile
      <3>1. PICK f \in Resolution!Candidates(seen) : f = preferred
        BY <2>1 DEF Provenance
      <3>2. f \notin refused /\ Resolution!Deliver(f, FALSE)
        BY <1>8, <2>1, <3>1 DEF Resolution!FallBack, Resolution!Unverified, Accounted
      <3> QED BY <1>8, <3>2, DeliverDecides DEF Resolution!FallBack
    <2>2. CASE preferred = NoFile
      <3>1. result' = [Resolution!Nothing EXCEPT !.kind = "refused"] /\ pc' = "done"
        BY <1>8, <2>2 DEF Resolution!FallBack, Resolution!Unverified
      <3>2. result'.kind = "refused" /\ result'.file = NoFile
        BY <3>1 DEF Resolution!Nothing
      <3>3. Resolution!Candidates(seen) \subseteq refused
        BY <1>8, <2>2 DEF Resolution!FallBack, Accounted
      <3>4. UNCHANGED <<repo, seen, left, refused, preferred>> /\ Resolution!Candidates(seen)' = Resolution!Candidates(seen)
        BY <1>8 DEF Resolution!FallBack, Resolution!Candidates
      <3>5. Provenance' /\ Accounted' /\ Unlisted'
        BY <3>1, <3>4 DEF Provenance, Accounted, Unlisted
      <3>6. Decided'
        BY <3>1, <3>2, <3>3, <3>4 DEF Decided
      <3> QED BY <3>5, <3>6
    <2> QED BY <2>1, <2>2
  <1>9. CASE UNCHANGED Resolution!resolveVars
    BY <1>9 DEF Resolution!resolveVars, Provenance, Accounted, Unlisted, Decided, Resolution!Candidates, Resolution!Complete,
                Resolution!Shard, Resolution!ShardSet, Resolution!Nothing
  <1> QED
    BY <1>1, <1>2, <1>3, <1>4, <1>5, <1>6, <1>7, <1>8, <1>9 DEF Resolution!ResolveNext

LEMMA ResolveInvariance == Resolution!ResolverAssumption => (Resolution!ResolveSpec => []ResolveInv)
  <1> SUFFICES ASSUME Resolution!ResolverAssumption PROVE Resolution!ResolveSpec => []ResolveInv
    OBVIOUS
  <1>1. Resolution!ResolveInit => ResolveInv
    BY ResolveInitInv
  <1>2. ResolveInv /\ [Resolution!ResolveNext]_Resolution!resolveVars => ResolveInv'
    BY ResolveStep
  <1> QED BY <1>1, <1>2, PTL DEF Resolution!ResolveSpec

-----------------------------------------------------------------------------
(* The theorems.                                                           *)

(* list_tree, shard_set: what is resolved from a listing is all of one     *)
(* model, its first shard first, however many pages the listing has and    *)
(* wherever it was cut off.                                                *)
THEOREM ResolvedModelIsWhole == Resolution!ResolverAssumption => (Resolution!ResolveSpec => []Resolution!ResolvedIsWhole)
  <1> SUFFICES ASSUME Resolution!ResolverAssumption PROVE Resolution!ResolveSpec => []Resolution!ResolvedIsWhole
    OBVIOUS
  <1>1. ResolveInv => Resolution!ResolvedIsWhole
    <2> SUFFICES ASSUME ResolveInv, result.kind = "listed" PROVE Resolution!ResolvedIsWhole
      BY DEF Resolution!ResolvedIsWhole
    <2> DEFINE f == result.file
    <2>1. /\ f \in Resolution!Candidates(seen) /\ Resolution!Complete(f) /\ result.parts = Resolution!ShardSet(f)
          /\ repo \in Repositories /\ seen \subseteq repo
      BY DEF ResolveInv, Decided, Provenance
    <2>2. CASE f.form = "split"
      <3>1. /\ DOMAIN Resolution!ShardSet(f) = 1..f.total
            /\ Resolution!ShardSet(f)[1] = f
            /\ \A i \in 1..f.total :
                 /\ Resolution!ShardSet(f)[i] \in repo
                 /\ Resolution!ShardSet(f)[i].index = i
                 /\ Resolution!ShardSet(f)[i].model = f.model
        BY <2>1, <2>2, ShardsAreTheModel
      <3> QED BY <2>1, <2>2, <3>1 DEF Resolution!ResolvedIsWhole
    <2>3. CASE f.form # "split"
      <3>1. result.parts = <<f>> /\ f \in repo
        BY <2>1, <2>3 DEF Resolution!ShardSet, Resolution!Candidates
      <3> QED BY <2>3, <3>1 DEF Resolution!ResolvedIsWhole
    <2> QED BY <2>2, <2>3
  <1> QED BY <1>1, ResolveInvariance, PTL

(* select_model_file: no file is taken against its own header, one that    *)
(* could not be read is not held against the repository, and a refusal     *)
(* means that every candidate was read or that a shard is missing.         *)
THEOREM TheHeaderDecides == Resolution!ResolverAssumption => (Resolution!ResolveSpec => []Resolution!HeaderDecides)
  <1> SUFFICES ASSUME Resolution!ResolverAssumption PROVE Resolution!ResolveSpec => []Resolution!HeaderDecides
    OBVIOUS
  <1>1. ResolveInv => Resolution!HeaderDecides
    BY DEF ResolveInv, Decided, Resolution!HeaderDecides
  <1> QED BY <1>1, ResolveInvariance, PTL

(* What comes of a repository is a whole model, or a refusal the files     *)
(* themselves account for (resolver.rs, resolve_artifact; probe.rs,        *)
(* select_model_file).                                                     *)
THEOREM ResolutionIsSound ==
  Resolution!ResolverAssumption => (Resolution!ResolveSpec => []ResolvedIsSound)
  BY ResolvedModelIsWhole, TheHeaderDecides, PTL
  DEF ResolvedIsSound, Resolution!ResolvedIsSound

-----------------------------------------------------------------------------
(* The library.                                                            *)

(* "The one thing a refresh must never do" (catalog_cache.rs): whatever is *)
(* swept, by whom and under which token, a sweep that ends leaves every    *)
(* repository of the library it replaces in the one it writes.             *)
THEOREM LibraryNeverShrinks == Browser!LibSpec => NeverShrinks
<1>1. ASSUME NEW j \in Browser!Jobs, Browser!KeepSweep(j), stored.is, stored.age # "expired",
             stored.auth = stored'.auth
      PROVE  stored.repos \subseteq stored'.repos
  <2>1. CASE Browser!Merged(j) = {}
    BY <1>1, <2>1 DEF Browser!KeepSweep
  <2>2. CASE Browser!Merged(j) # {}
    <3>1. /\ stored'.auth = Browser!Authenticated(job[j].token)
          /\ stored'.repos = Browser!Merged(j)
      BY <1>1, <2>2 DEF Browser!KeepSweep
    <3> QED BY <1>1, <3>1 DEF Browser!Merged
  <2> QED BY <2>1, <2>2
<1>2. (\A j \in Browser!Jobs :
         Browser!KeepSweep(j) /\ stored.is /\ stored.age # "expired" /\ stored.auth = stored'.auth
           => stored.repos \subseteq stored'.repos)
  BY <1>1
<1> QED BY <1>2, PTL DEF NeverShrinks, Browser!NeverShrinks
=============================================================================
