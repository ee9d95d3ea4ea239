--------------------------- MODULE Processes_proofs ---------------------------
(* Proofs about Memory, NotebookLM and the Launcher: the engine's pipe owes one  *)
(* line to each caller that waits for one, for any number of threads; what       *)
(* NotebookLM will read at its next start is what it remembers now, unless saves *)
(* overlapped; and what a tool's start screen announces is in the tool's config. *)
EXTENDS MCProcesses, SequenceTheorems, FiniteSetTheorems, TLAPS

-----------------------------------------------------------------------------
(* The engine's pipe.                                                            *)

Methods == {"mine", "rank", "summary", "health"}
Reading == {c \in Callers : At(c, "read")}

\* Whoever waits for the pipe, or for a line of it, has a method to go on with; a pipe
\* holds lines in order.
CallInv(k) ==
  /\ {"pc", "then"} \subseteq DOMAIN k
  /\ k.pc \in {"write", "read"} => k.then \in Methods
CallsInv == DOMAIN call = Callers /\ \A c \in Callers : CallInv(call[c])
PipesInv == \E Lines : stdin \in Seq(Lines) /\ stdout \in Seq(Lines)
PipeInv == CallsInv /\ PipesInv /\ OneLineEach

\* A caller who starts to wait, and one who has stopped.
LEMMA ReadingFinite == IsFiniteSet(Reading) /\ Cardinality(Reading) \in Nat
<1>1. IsFiniteSet(Callers)
  BY MemoryAssumption
<1>2. IsFiniteSet(Reading)
  BY <1>1, FS_Subset DEF Reading
<1> QED
  BY <1>2, FS_CardinalityType

LEMMA PipeStart == MemInit => PipeInv
<1> SUFFICES ASSUME MemInit PROVE PipeInv
  OBVIOUS
<1>1. CallsInv
  BY DEF MemInit, CallsInv, CallInv, Idle
<1>2. stdin \in Seq({}) /\ stdout \in Seq({}) /\ Len(stdin) + Len(stdout) = 0
  BY DEF MemInit
<1>3. Reading = {}
  BY DEF Reading, At, MemInit, Idle
<1>4. OneLineEach
  BY <1>2, <1>3, FS_EmptySet DEF OneLineEach, Reading
<1> QED
  BY <1>1, <1>2, <1>4 DEF PipeInv, PipesInv

\* A step of a caller that neither was nor comes to be waiting for a line.
LEMMA OthersWait ==
  ASSUME PipeInv, NEW c \in Callers, NEW k, Enter(c, k), ~At(c, "read"),
         k.pc # "read", CallInv(k), UNCHANGED <<sidecar, stdin, stdout>>
  PROVE  PipeInv'
<1>1. DOMAIN call' = Callers /\ \A d \in Callers : call'[d] = IF d = c THEN k ELSE call[d]
  BY DEF Enter, PipeInv, CallsInv
<1>2. CallsInv'
  BY <1>1 DEF PipeInv, CallsInv
<1>3. Reading' = Reading
  BY <1>1 DEF Reading, At
<1>4. OneLineEach'
  BY <1>3 DEF PipeInv, OneLineEach, Reading
<1> QED
  BY <1>2, <1>4 DEF PipeInv, PipesInv

\* A step of the tables, or of nothing the pipe knows.
LEMMA TablesOnly ==
  ASSUME PipeInv, UNCHANGED <<sidecar, stdin, stdout, call>>
  PROVE  PipeInv'
  BY DEF PipeInv, CallsInv, PipesInv, OneLineEach, At

\* A caller goes on, or asks.
LEMMA GoesOn ==
  ASSUME PipeInv, NEW c \in Callers, ~At(c, "read"), NEW was, {"pc", "then"} \subseteq DOMAIN was,
         Enter(c, was), was.pc \notin {"write", "read"},
         UNCHANGED <<sidecar, stdin, stdout>>
  PROVE  PipeInv'
  BY OthersWait DEF CallInv

LEMMA Asks ==
  ASSUME PipeInv, NEW c \in Callers, ~At(c, "read"), NEW was, {"pc", "then"} \subseteq DOMAIN was,
         NEW method \in Methods, NEW mock, Ask(c, was, method, mock),
         UNCHANGED <<sidecar, stdin, stdout>>
  PROVE  PipeInv'
<1>1. PICK k : /\ Enter(c, k)
               /\ \/ k = [was EXCEPT !.pc = "write", !.then = method]
                  \/ k = [was EXCEPT !.pc = method, !.heard = mock]
  BY DEF Ask
<1>2. {"pc", "then"} \subseteq DOMAIN k /\ k.pc # "read" /\ (k.pc = "write" => k.then = method)
  BY <1>1 DEF Methods
<1> QED
  BY <1>1, <1>2, OthersWait DEF CallInv

LEMMA CutOff ==
  ASSUME PipeInv, NEW c \in Callers, ~At(c, "read"), NEW texts, Cut(c, texts),
         UNCHANGED <<sidecar, stdin, stdout>>
  PROVE  PipeInv'
<1>1. PICK k : k = [Idle EXCEPT !.pc = "lost"]
  OBVIOUS
<1>2. Enter(c, k) /\ {"pc", "then"} \subseteq DOMAIN k /\ k.pc = "lost"
  BY <1>1 DEF Cut, Idle
<1> QED
  BY <1>2, GoesOn

LEMMA PipeStep == PipeInv /\ [MemNext]_memVars => PipeInv'
<1> SUFFICES ASSUME PipeInv, [MemNext]_memVars PROVE PipeInv'
  OBVIOUS
<1> USE DEF At, pipes
<1>0. \A c \in Callers : {"pc", "then"} \subseteq DOMAIN call[c]
  BY DEF PipeInv, CallsInv, CallInv
<1>1. ASSUME NEW t \in Talkers, NEW m \in Messages, Say(t, m) PROVE PipeInv'
  <2>1. PICK was : was = [Idle EXCEPT !.project = active, !.message = m.text]
    OBVIOUS
  <2>2. {"pc", "then"} \subseteq DOMAIN was
    BY <2>1 DEF Idle
  <2>3. CASE Cut(t, {m.text})
    BY <1>1, <2>3, CutOff DEF Say, Callers
  <2>4. CASE Ask(t, was, "mine", {[to |-> t, method |-> "mock", about |-> {m.text}]})
    BY <1>1, <2>2, <2>4, Asks DEF Say, Callers, Methods
  <2> QED
    BY <1>1, <2>1, <2>3, <2>4 DEF Say
<1>2. ASSUME NEW t \in Talkers, Keep(t) PROVE PipeInv'
  <2>1. CASE Enter(t, [call[t] EXCEPT !.pc = "prepare", !.heard = {}])
    <3>1. PICK k : k = [call[t] EXCEPT !.pc = "prepare", !.heard = {}]
      OBVIOUS
    <3>2. Enter(t, k) /\ {"pc", "then"} \subseteq DOMAIN k /\ k.pc = "prepare"
      BY <1>0, <2>1, <3>1 DEF Callers
    <3> QED
      BY <1>2, <3>2, GoesOn DEF Keep, Callers
  <2>2. ASSUME NEW next \in {"learn", "prepare"}, NEW said,
               Enter(t, [call[t] EXCEPT !.pc = next, !.heard = {}, !.known = {said}])
        PROVE  PipeInv'
    <3>1. PICK k : k = [call[t] EXCEPT !.pc = next, !.heard = {}, !.known = {said}]
      OBVIOUS
    <3>2. Enter(t, k) /\ {"pc", "then"} \subseteq DOMAIN k /\ k.pc = next
      BY <1>0, <2>2, <3>1 DEF Callers
    <3> QED
      BY <1>2, <3>2, GoesOn DEF Keep, Callers
  <2> QED
    BY <1>2, <2>1, <2>2 DEF Keep
<1>3. ASSUME NEW t \in Talkers, Learn(t) \/ Prepare(t) \/ Inject(t) PROVE PipeInv'
  <2>0. CASE \E texts : Cut(t, texts)
    BY <1>3, <2>0, CutOff DEF Learn, Prepare, Inject, Callers
  <2> SUFFICES ASSUME ~(\E texts : Cut(t, texts)) PROVE PipeInv'
    BY <2>0
  <2>1. PICK k : /\ Enter(t, k)
                 /\ \/ k = [call[t] EXCEPT !.pc = "prepare"]
                    \/ k = [call[t] EXCEPT !.pc = "fetch", !.project = active, !.known = profile,
                                           !.recalled = {}]
                    \/ k = [call[t] EXCEPT !.pc = "done"]
    BY <1>3 DEF Learn, Prepare, Inject
  <2>2. {"pc", "then"} \subseteq DOMAIN k /\ k.pc \in {"prepare", "fetch", "done"}
    BY <1>0, <2>1 DEF Callers
  <2> QED
    BY <1>3, <2>1, <2>2, GoesOn DEF Learn, Prepare, Inject, Callers
<1>4. ASSUME NEW t \in Talkers, Summarise(t) PROVE PipeInv'
  <2>1. PICK was : was = call[t]
    OBVIOUS
  <2> QED
    BY <1>0, <1>4, <2>1, Asks DEF Summarise, Callers, Methods
<1>5. ASSUME NEW s \in Searchers, CheckHealth(s) PROVE PipeInv'
  <2>1. {"pc", "then"} \subseteq DOMAIN Idle
    BY DEF Idle
  <2> QED
    BY <1>5, <2>1, Asks DEF CheckHealth, Callers, Methods
<1>6. ASSUME NEW s \in Searchers, NEW p \in Projects \cup {AnyProject}, Search(s, p) PROVE PipeInv'
  <2>1. PICK k : k = [Idle EXCEPT !.pc = "fetch", !.project = p]
    OBVIOUS
  <2>2. Enter(s, k) /\ {"pc", "then"} \subseteq DOMAIN k /\ k.pc = "fetch"
    BY <1>6, <2>1 DEF Search, Idle
  <2> QED
    BY <1>6, <2>2, GoesOn DEF Search, Callers
<1>7. ASSUME NEW c \in Callers, Return(c) PROVE PipeInv'
  <2>1. {"pc", "then"} \subseteq DOMAIN Idle /\ Idle.pc = "idle"
    BY DEF Idle
  <2> QED
    BY <1>7, <2>1, GoesOn DEF Return
<1>8. ASSUME NEW c \in Callers, Fetch(c) PROVE PipeInv'
  <2>c. CASE \E texts : Cut(c, texts)
    BY <1>8, <2>c, CutOff DEF Fetch
  <2> SUFFICES ASSUME ~(\E texts : Cut(c, texts)) PROVE PipeInv'
    BY <2>c
  <2>0. ~Cut(c, SaidIn(InScope(call[c].project)))
    OBVIOUS
  <2>1. PICK was : was = [call[c] EXCEPT !.cands = InScope(call[c].project)]
    OBVIOUS
  <2>2. {"pc", "then"} \subseteq DOMAIN was
    BY <1>0, <2>1
  <2>3. CASE InScope(call[c].project) = {}
    <3>1. PICK k : k = [was EXCEPT !.pc = "ranked"]
      OBVIOUS
    <3>2. Enter(c, k)
      BY <1>8, <2>0, <2>1, <2>3, <3>1 DEF Fetch
    <3> QED
      BY <1>8, <2>2, <3>1, <3>2, GoesOn DEF Fetch
  <2>4. CASE InScope(call[c].project) # {}
    BY <1>8, <2>0, <2>1, <2>2, <2>4, Asks DEF Fetch, Methods
  <2> QED
    BY <2>3, <2>4
<1>9. ASSUME NEW c \in Callers, Rank(c) PROVE PipeInv'
  <2>c. CASE \E texts : Cut(c, texts)
    BY <1>9, <2>c, CutOff DEF Rank
  <2> SUFFICES ASSUME ~(\E texts : Cut(c, texts)) PROVE PipeInv'
    BY <2>c
  <2>1. PICK top : Enter(c, [call[c] EXCEPT !.pc = "ranked", !.heard = {}, !.cands = {},
                                             !.recalled = top])
    BY <1>9 DEF Rank
  <2>2. PICK k : k = [call[c] EXCEPT !.pc = "ranked", !.heard = {}, !.cands = {}, !.recalled = top]
    OBVIOUS
  <2>3. Enter(c, k) /\ {"pc", "then"} \subseteq DOMAIN k /\ k.pc = "ranked"
    BY <1>0, <2>1, <2>2
  <2> QED
    BY <1>9, <2>3, GoesOn DEF Rank
<1>10. ASSUME NEW c \in Callers, Write(c) PROVE PipeInv'
  <2>1. call[c].pc = "write" /\ call[c].then \in Methods
    BY <1>10 DEF Write, PipeInv, CallsInv, CallInv
  <2>2. CASE sidecar = "dead" /\ UNCHANGED stdin /\ Resume(c, Failed)
    <3>1. PICK k : k = [call[c] EXCEPT !.pc = call[c].then, !.heard = Failed]
      OBVIOUS
    <3>2. Enter(c, k) /\ {"pc", "then"} \subseteq DOMAIN k /\ k.pc \in Methods
      BY <1>0, <2>1, <2>2, <3>1 DEF Resume
    <3> QED
      BY <1>10, <2>1, <2>2, <3>2, GoesOn DEF Write, Methods
  <2>3. CASE /\ sidecar = "up"
             /\ stdin' = Append(stdin, [to |-> c, method |-> call[c].then, about |-> About(c)])
             /\ Enter(c, [call[c] EXCEPT !.pc = "read"])
    <3>1. PICK line : line = [to |-> c, method |-> call[c].then, about |-> About(c)]
      OBVIOUS
    <3>2. PICK Lines : stdin \in Seq(Lines) /\ stdout \in Seq(Lines)
      BY DEF PipeInv, PipesInv
    <3>3. stdin \in Seq(Lines \cup {line}) /\ stdout \in Seq(Lines \cup {line})
      BY <3>2
    <3>4. /\ stdin' \in Seq(Lines \cup {line}) /\ stdout' \in Seq(Lines \cup {line})
          /\ Len(stdin') = Len(stdin) + 1 /\ stdout' = stdout
      BY <1>10, <2>3, <3>1, <3>3, AppendProperties DEF Write
    <3>5. PICK k : k = [call[c] EXCEPT !.pc = "read"]
      OBVIOUS
    <3>6. {"pc", "then"} \subseteq DOMAIN k /\ k.pc = "read" /\ k.then = call[c].then
      BY <1>0, <3>5
    <3>7. DOMAIN call' = Callers /\ \A d \in Callers : call'[d] = IF d = c THEN k ELSE call[d]
      BY <2>3, <3>5 DEF Enter, PipeInv, CallsInv
    <3>8. CallsInv'
      BY <2>1, <3>6, <3>7 DEF PipeInv, CallsInv, CallInv
    <3>9. Reading' = Reading \cup {c} /\ c \notin Reading
      BY <2>1, <3>6, <3>7 DEF Reading
    <3>10. Cardinality(Reading)' = Cardinality(Reading) + 1
      BY <3>9, ReadingFinite, FS_AddElement
    <3>11. OneLineEach'
      BY <2>3, <3>3, <3>4, <3>10, ReadingFinite, LenProperties DEF PipeInv, OneLineEach, Reading
    <3> QED
      BY <3>4, <3>8, <3>11 DEF PipeInv, PipesInv
  <2> QED
    BY <1>10, <2>2, <2>3 DEF Write
<1>11. ASSUME NEW c \in Callers, Read(c) PROVE PipeInv'
  <2>1. call[c].pc = "read" /\ call[c].then \in Methods /\ sidecar' = sidecar /\ stdin' = stdin
    BY <1>11 DEF Read, PipeInv, CallsInv, CallInv
  <2>2. PICK answer : /\ Resume(c, answer)
                      /\ \/ stdout # <<>> /\ stdout' = Tail(stdout)
                         \/ stdout = <<>> /\ sidecar = "dead" /\ UNCHANGED stdout
    BY <1>11 DEF Read
  <2>3. PICK k : k = [call[c] EXCEPT !.pc = call[c].then, !.heard = answer]
    OBVIOUS
  <2>4. {"pc", "then"} \subseteq DOMAIN k /\ k.pc \in Methods
    BY <1>0, <2>1, <2>3
  <2>5. DOMAIN call' = Callers /\ \A d \in Callers : call'[d] = IF d = c THEN k ELSE call[d]
    BY <2>2, <2>3 DEF Resume, Enter, PipeInv, CallsInv
  <2>6. CallsInv'
    BY <2>4, <2>5 DEF PipeInv, CallsInv, CallInv, Methods
  <2>7. Reading' = Reading \ {c} /\ c \in Reading
    BY <2>1, <2>4, <2>5 DEF Reading, Methods
  <2>8. Cardinality(Reading)' = Cardinality(Reading) - 1
    BY <2>7, ReadingFinite, FS_RemoveElement
  <2>9. PICK Lines : stdin \in Seq(Lines) /\ stdout \in Seq(Lines)
    BY DEF PipeInv, PipesInv
  <2>10. stdout # <<>> => Tail(stdout) \in Seq(Lines) /\ Len(Tail(stdout)) = Len(stdout) - 1
    BY <2>9, HeadTailProperties
  <2>11. OneLineEach'
    BY <2>1, <2>2, <2>8, <2>9, <2>10, ReadingFinite, LenProperties DEF PipeInv, OneLineEach, Reading
  <2>12. stdin' \in Seq(Lines) /\ stdout' \in Seq(Lines)
    BY <2>1, <2>2, <2>9, <2>10
  <2> QED
    BY <2>6, <2>11, <2>12 DEF PipeInv, PipesInv
<1>12. CASE Answer
  <2>1. PICK Lines : stdin \in Seq(Lines) /\ stdout \in Seq(Lines)
    BY DEF PipeInv, PipesInv
  <2>2. PICK line : stdout' = Append(stdout, line)
    BY <1>12 DEF Answer
  <2>3. stdin \in Seq(Lines \cup {line}) /\ stdout \in Seq(Lines \cup {line})
    BY <2>1
  <2>4. stdin # <<>> /\ stdin' = Tail(stdin) /\ UNCHANGED <<sidecar, call>>
    BY <1>12 DEF Answer
  <2>5. stdin' \in Seq(Lines \cup {line}) /\ Len(stdin') = Len(stdin) - 1
    BY <2>3, <2>4, HeadTailProperties
  <2>6. stdout' \in Seq(Lines \cup {line}) /\ Len(stdout') = Len(stdout) + 1
    BY <2>2, <2>3, AppendProperties
  <2>7. OneLineEach'
    BY <2>1, <2>4, <2>5, <2>6, LenProperties DEF PipeInv, OneLineEach
  <2> QED
    BY <2>4, <2>5, <2>6, <2>7 DEF PipeInv, PipesInv, CallsInv
<1>13. CASE Die
  <2>1. PICK Lines : stdin \in Seq(Lines) /\ stdout \in Seq(Lines)
    BY DEF PipeInv, PipesInv
  <2>2. stdin' \in Seq(Lines) /\ stdout' \in Seq(Lines) /\ sidecar' = "dead" /\ call' = call
    BY <1>13, <2>1 DEF Die
  <2> QED
    BY <2>2 DEF PipeInv, PipesInv, CallsInv, OneLineEach
<1>14. CASE Restart
  <2>1. /\ stdin' \in Seq({}) /\ stdout' \in Seq({}) /\ Len(stdin') + Len(stdout') = 0
        /\ DOMAIN call' = Callers /\ \A c \in Callers : call'[c] = Idle
    BY <1>14 DEF Restart
  <2>2. CallsInv' /\ Reading' = {}
    BY <2>1 DEF CallsInv, CallInv, Idle, Reading
  <2>3. OneLineEach'
    BY <2>1, <2>2, FS_EmptySet DEF OneLineEach, Reading
  <2> QED
    BY <2>1, <2>2, <2>3 DEF PipeInv, PipesInv
<1>15. CASE UNCHANGED <<sidecar, stdin, stdout, call>>
  BY <1>15, TablesOnly
<1> QED
  BY <1>1, <1>2, <1>3, <1>4, <1>5, <1>6, <1>7, <1>8, <1>9, <1>10, <1>11, <1>12, <1>13, <1>14, <1>15
  DEF MemNext, memVars, Turn, Rpc, Switch, Create, Edit, Delete

\* rpc.rs: the request and its answer take different locks, and still no answer is ever
\* left in the pipe for a later call to take for its own, however many threads share it.
THEOREM OneLineForEach == MemSpec => []OneLineEach
<1>1. MemInit => PipeInv
  BY PipeStart
<1>2. PipeInv /\ [MemNext]_memVars => PipeInv'
  BY PipeStep
<1>3. PipeInv => OneLineEach
  BY DEF PipeInv
<1> QED
  BY <1>1, <1>2, <1>3, PTL DEF MemSpec

-----------------------------------------------------------------------------
(* The NotebookLM connection.                                                    *)

Others(p) == Notebook!Procs \ {p}
Fields == {"pc", "op", "st", "then", "force", "before", "ok", "next", "copy", "into"}
\* A frame whose call goes on, after this one or after its save, outside of saves.
Going(q) ==
  DOMAIN q = Fields /\ q.then \notin Notebook!Saves /\ q.next \notin Notebook!Saves
Quiet(p) == ~Notebook!Saving(p)

FramesInv == DOMAIN proc = Notebook!Procs /\ \A p \in Notebook!Procs : Going(proc[p])
\* A save alone carries what memory has, through its own temporary document.
AloneInv(p) ==
  /\ \A o \in Others(p) : Quiet(o)
  /\ proc[p].copy = saved
  /\ proc[p].pc = "fill" => proc[p].into = "tmp" /\ tmp.kind = "empty"
  /\ proc[p].pc = "rename" => tmp = Notebook!Doc("whole", proc[p].copy)
SaveInv ==
  /\ FramesInv
  /\ ~spoilt => /\ (\A p \in Notebook!Procs : Quiet(p)) => Notebook!Loaded(file) = saved
                /\ \A p \in Notebook!Procs : Notebook!Saving(p) => AloneInv(p)

\* A step of one activity that neither saves nor begins to leaves the saves as they are.
LEMMA CalmStep ==
  ASSUME SaveInv, NEW p \in Notebook!Procs, Quiet(p),
         DOMAIN proc' = Notebook!Procs, \A o \in Others(p) : proc'[o] = proc[o],
         Going(proc'[p]), proc'[p].pc \notin Notebook!Saves,
         UNCHANGED Notebook!stored
  PROVE  SaveInv'
<1>1. FramesInv'
  BY DEF SaveInv, FramesInv, Others
<1>2. \A o \in Notebook!Procs : Quiet(o)' <=> Quiet(o)
  BY DEF Quiet, Notebook!Saving, Others
<1>3. saved' = saved /\ file' = file /\ tmp' = tmp /\ spoilt' = spoilt
  BY DEF Notebook!stored
<1>4. ASSUME NEW o \in Notebook!Procs, Notebook!Saving(o)', ~spoilt'
      PROVE  AloneInv(o)'
  <2>1. Notebook!Saving(o) /\ o # p
    BY <1>2, <1>4 DEF Quiet
  <2>2. AloneInv(o) /\ proc'[o] = proc[o]
    BY <2>1, <1>3, <1>4 DEF SaveInv, Others
  <2> QED
    BY <2>2, <1>2, <1>3 DEF AloneInv, Others
<1>5. ~spoilt' /\ (\A o \in Notebook!Procs : Quiet(o)') => (Notebook!Loaded(file) = saved)'
  BY <1>2, <1>3 DEF SaveInv, Notebook!Loaded
<1> QED
  BY <1>1, <1>4, <1>5 DEF SaveInv

LEMMA CalmFrame ==
  ASSUME SaveInv, NEW p \in Notebook!Procs, Quiet(p), NEW f, Going(f),
         f.pc \notin Notebook!Saves, Notebook!Step(p, f), UNCHANGED Notebook!stored
  PROVE  SaveInv'
<1> DEFINE g == IF f.pc = "idle" THEN [Notebook!Resting EXCEPT !.op = f.op] ELSE f
<1>1. proc' = [proc EXCEPT ![p] = g]
  BY DEF Notebook!Step
<1>2. Going(g) /\ g.pc \notin Notebook!Saves
  BY DEF Going, Fields, Notebook!Resting, Notebook!Saves
<1> HIDE DEF g
<1>3. DOMAIN proc' = Notebook!Procs /\ proc'[p] = g /\ \A o \in Others(p) : proc'[o] = proc[o]
  BY <1>1 DEF SaveInv, FramesInv, Others
<1> QED
  BY <1>2, <1>3, CalmStep

\* mutate_persisted copies the record under its lock: a save that begins alone holds it.
LEMMA MutateStep ==
  ASSUME SaveInv, NEW p \in Notebook!Procs, Quiet(p), NEW record, NEW q,
         Going(q), q.pc \notin Notebook!Saves, Notebook!Mutate(p, record, q)
  PROVE  SaveInv'
<1> DEFINE f == [q EXCEPT !.next = q.pc, !.pc = "open", !.copy = record]
<1>1. Going(f) /\ f.pc = "open" /\ f.copy = record
  BY DEF Going, Fields
<1>2. proc' = [proc EXCEPT ![p] = f]
  BY <1>1 DEF Notebook!Mutate, Notebook!Step
<1> HIDE DEF f
<1>3. DOMAIN proc' = Notebook!Procs /\ proc'[p] = f /\ \A o \in Others(p) : proc'[o] = proc[o]
  BY <1>2 DEF SaveInv, FramesInv, Others
<1>4. FramesInv'
  BY <1>1, <1>3 DEF SaveInv, FramesInv, Others
<1>5. Notebook!Saving(p)'
  BY <1>1, <1>3 DEF Notebook!Saving, Notebook!Saves
<1>6. saved' = record
  BY DEF Notebook!Mutate
<1>7. ASSUME ~spoilt' PROVE AloneInv(p)' /\ \A o \in Others(p) : Quiet(o)'
  <2>1. \A o \in Others(p) : Quiet(o)
    BY <1>7 DEF Notebook!Mutate, Quiet, Others
  <2>2. \A o \in Others(p) : Quiet(o)'
    BY <2>1, <1>3 DEF Quiet, Notebook!Saving
  <2> QED
    BY <2>2, <1>1, <1>3, <1>6 DEF AloneInv
<1> QED
  BY <1>4, <1>5, <1>7 DEF SaveInv, Quiet, Others

\* Open, Fill and Rename: what is alone reaches the disk as it was copied.
LEMMA SavesStep ==
  ASSUME SaveInv, NEW p \in Notebook!Procs,
         Notebook!Open(p) \/ Notebook!Fill(p) \/ Notebook!Rename(p) \/ Notebook!SaveFails(p)
  PROVE  SaveInv'
<1>1. DOMAIN proc = Notebook!Procs /\ \A o \in Notebook!Procs : Going(proc[o])
  BY DEF SaveInv, FramesInv
<1>2. Notebook!Saving(p)
  BY DEF Notebook!Open, Notebook!Fill, Notebook!Rename, Notebook!SaveFails, Notebook!At,
         Notebook!Saving, Notebook!Saves
<1>3. ~spoilt => AloneInv(p)
  BY <1>2 DEF SaveInv
<1>4. CASE Notebook!Open(p)
  <2> DEFINE f == [proc[p] EXCEPT !.pc = "fill", !.into = "tmp"]
  <2>1. Going(f) /\ f.pc = "fill" /\ f.into = "tmp" /\ f.copy = proc[p].copy
    BY <1>1 DEF Going, Fields
  <2>2. /\ proc' = [proc EXCEPT ![p] = f] /\ tmp' = Notebook!Doc("empty", Notebook!Forgotten)
        /\ UNCHANGED <<saved, file, spoilt>>
    BY <1>4, <2>1 DEF Notebook!Open, Notebook!Step
  <2> HIDE DEF f
  <2>3. DOMAIN proc' = Notebook!Procs /\ proc'[p] = f /\ \A o \in Others(p) : proc'[o] = proc[o]
    BY <1>1, <2>2 DEF Others
  <2>4. Notebook!Saving(p)' /\ FramesInv'
    BY <1>1, <2>1, <2>3 DEF FramesInv, Others, Notebook!Saving, Notebook!Saves
  <2>5. ASSUME ~spoilt' PROVE AloneInv(p)' /\ \A o \in Others(p) : Quiet(o)'
    <3>1. \A o \in Others(p) : Quiet(o)'
      BY <1>3, <2>2, <2>3, <2>5 DEF AloneInv, Quiet, Notebook!Saving
    <3> QED
      BY <1>3, <2>1, <2>2, <2>3, <2>5, <3>1 DEF AloneInv, Notebook!Doc
  <2> QED
    BY <2>4, <2>5 DEF SaveInv, Quiet, Others
<1>5. CASE Notebook!Fill(p)
  <2> DEFINE f == [proc[p] EXCEPT !.pc = "rename", !.into = "none"]
  <2>1. Going(f) /\ f.pc = "rename" /\ f.copy = proc[p].copy
    BY <1>1 DEF Going, Fields
  <2>2. proc' = [proc EXCEPT ![p] = f] /\ UNCHANGED <<saved, spoilt>>
    BY <1>5, <2>1 DEF Notebook!Fill, Notebook!Step
  <2> HIDE DEF f
  <2>3. DOMAIN proc' = Notebook!Procs /\ proc'[p] = f /\ \A o \in Others(p) : proc'[o] = proc[o]
    BY <1>1, <2>2 DEF Others
  <2>4. Notebook!Saving(p)' /\ FramesInv'
    BY <1>1, <2>1, <2>3 DEF FramesInv, Others, Notebook!Saving, Notebook!Saves
  <2>5. ASSUME ~spoilt' PROVE AloneInv(p)' /\ \A o \in Others(p) : Quiet(o)'
    <3>1. \A o \in Others(p) : Quiet(o)'
      BY <1>3, <2>2, <2>3, <2>5 DEF AloneInv, Quiet, Notebook!Saving
    <3>2. tmp' = Notebook!Doc("whole", proc[p].copy)
      <4>1. proc[p].into = "tmp" /\ tmp.kind = "empty"
        BY <1>3, <1>5, <2>2, <2>5 DEF AloneInv, Notebook!Fill, Notebook!At
      <4> QED
        BY <1>5, <4>1 DEF Notebook!Fill, Notebook!Writes
    <3> QED
      BY <1>3, <2>1, <2>2, <2>3, <2>5, <3>1, <3>2 DEF AloneInv
  <2> QED
    BY <2>4, <2>5 DEF SaveInv, Quiet, Others
<1>6. ASSUME Notebook!Rename(p) \/ Notebook!SaveFails(p)
      PROVE  /\ DOMAIN proc' = Notebook!Procs /\ FramesInv'
             /\ Quiet(p)' /\ \A o \in Others(p) : Quiet(o)' <=> Quiet(o)
  <2> DEFINE e == Notebook!SaveEnds(p)
  <2>1. Going(e) /\ e.pc \notin Notebook!Saves
    BY <1>1 DEF Going, Fields, Notebook!SaveEnds, Notebook!Saves
  <2>2. CASE Notebook!Rename(p)
    <3>1. proc' = [o \in Notebook!Procs |-> IF o = p THEN e ELSE Notebook!Moved(proc[o])]
      BY <2>2 DEF Notebook!Rename
    <3> HIDE DEF e
    <3>2. \A o \in Others(p) : LET m == Notebook!Moved(proc[o]) IN Going(m) /\ m.pc = proc[o].pc
      BY <1>1 DEF Going, Fields, Notebook!Moved, Others
    <3>3. /\ DOMAIN proc' = Notebook!Procs /\ proc'[p] = e
          /\ \A o \in Others(p) : Going(proc'[o]) /\ proc'[o].pc = proc[o].pc
      BY <3>1, <3>2 DEF Others
    <3> QED
      BY <2>1, <3>3 DEF FramesInv, Quiet, Notebook!Saving, Others
  <2>3. CASE Notebook!SaveFails(p)
    <3> DEFINE g == IF e.pc = "idle" THEN [Notebook!Resting EXCEPT !.op = e.op] ELSE e
    <3>1. proc' = [proc EXCEPT ![p] = g]
      BY <2>3 DEF Notebook!SaveFails, Notebook!Step
    <3> HIDE DEF e
    <3>2. Going(g) /\ g.pc \notin Notebook!Saves
      BY <2>1 DEF Going, Fields, Notebook!Resting, Notebook!Saves
    <3> HIDE DEF g
    <3>3. /\ DOMAIN proc' = Notebook!Procs /\ proc'[p] = g
          /\ \A o \in Others(p) : proc'[o] = proc[o]
      BY <1>1, <3>1 DEF Others
    <3> QED
      BY <1>1, <3>2, <3>3 DEF FramesInv, Quiet, Notebook!Saving, Others
  <2> QED
    BY <1>6, <2>2, <2>3
<1>7. CASE Notebook!Rename(p)
  <2>1. UNCHANGED <<saved, spoilt>> /\ file' = tmp
    BY <1>7 DEF Notebook!Rename
  <2>2. ASSUME ~spoilt'
        PROVE  (\A o \in Notebook!Procs : Quiet(o)') /\ (Notebook!Loaded(file) = saved)'
    <3>1. AloneInv(p) /\ proc[p].pc = "rename"
      BY <1>3, <1>7, <2>1, <2>2 DEF Notebook!Rename, Notebook!At
    <3>2. tmp = Notebook!Doc("whole", saved)
      BY <3>1 DEF AloneInv
    <3>3. Notebook!Loaded(file)' = saved'
      BY <2>1, <3>2 DEF Notebook!Loaded, Notebook!Doc
    <3> QED
      BY <1>6, <1>7, <3>1, <3>3 DEF AloneInv, Others
  <2> QED
    BY <1>6, <1>7, <2>2 DEF SaveInv, Quiet
<1>8. CASE Notebook!SaveFails(p)
  BY <1>6, <1>8 DEF SaveInv, Notebook!SaveFails
<1> QED
  BY <1>4, <1>5, <1>7, <1>8

\* The actions of either activity: five of them change the record.
LEMMA EitherStep ==
  ASSUME SaveInv, NEW p \in Notebook!Procs, Notebook!NbStep(p)
  PROVE  SaveInv'
<1> USE DEF SaveInv, FramesInv, Going, Fields, Others, Quiet, Notebook!Saving, Notebook!Saves,
            Notebook!At, Notebook!Step, Notebook!Goto, Notebook!Resting
<1>1. CASE Notebook!PublishReads(p)
  BY <1>1, CalmStep DEF Notebook!PublishReads, Notebook!stored
<1>2. CASE Notebook!PublishWrites(p)
  BY <1>2, CalmStep DEF Notebook!PublishWrites, Notebook!stored
<1>3. CASE Notebook!LockDetect(p)
  BY <1>3, CalmStep DEF Notebook!LockDetect, Notebook!stored
<1>4. CASE Notebook!Probe(p)
  BY <1>4, CalmStep DEF Notebook!Probe, Notebook!stored
<1>5. CASE Notebook!RememberPaths(p)
  <2> DEFINE q == Notebook!Published(p, proc[p].st,
                                     IF p = "startup" THEN "reconcile" ELSE "idle")
  <2>1. Going(q) /\ q.pc \notin Notebook!Saves
    BY DEF Notebook!Published
  <2> QED
    BY <1>5, <2>1, MutateStep DEF Notebook!RememberPaths
<1>6. CASE Notebook!Verify(p)
  <2>1. PICK q : /\ q = [proc[p] EXCEPT !.before = generation, !.pc = "registry"]
                 /\ Notebook!Verify(p)
    BY <1>6
  <2>2. Going(q) /\ Quiet(p) /\ UNCHANGED Notebook!stored
    BY <2>1 DEF Notebook!Verify, Notebook!stored
  <2>3. \/ \E st : Notebook!Step(p, [q EXCEPT !.then = Notebook!After(p), !.st = st])
        \/ \E st : Notebook!Step(p, [q EXCEPT !.then = "queue", !.st = st])
        \/ Notebook!Step(p, [q EXCEPT !.pc = "queue"])
    BY ONLY <2>1 DEF Notebook!Verify
  <2>4. q.pc = "registry" /\ Notebook!After(p) \notin Notebook!Saves
    BY <2>1 DEF Notebook!After
  <2>5. ASSUME NEW st, NEW then, then \notin Notebook!Saves
        PROVE  LET f == [q EXCEPT !.then = then, !.st = st] IN
                 Going(f) /\ f.pc \notin Notebook!Saves
    BY <2>2, <2>4, <2>5
  <2>6. LET f == [q EXCEPT !.pc = "queue"] IN Going(f) /\ f.pc \notin Notebook!Saves
    BY <2>2
  <2>7. ASSUME NEW st, NEW then, then \notin Notebook!Saves,
               Notebook!Step(p, [q EXCEPT !.then = then, !.st = st])
        PROVE  SaveInv'
    <3> DEFINE f == [q EXCEPT !.then = then, !.st = st]
    <3>1. Going(f) /\ f.pc \notin Notebook!Saves /\ Notebook!Step(p, f)
      BY <2>5, <2>7
    <3> QED
      BY ONLY SaveInv, p \in Notebook!Procs, <2>2, <3>1, CalmFrame
  <2>8. CASE Notebook!Step(p, [q EXCEPT !.pc = "queue"])
    BY ONLY SaveInv, p \in Notebook!Procs, <2>2, <2>6, <2>8, CalmFrame
  <2>9. "queue" \notin Notebook!Saves
    OBVIOUS
  <2> QED
    BY ONLY <2>3, <2>4, <2>7, <2>8, <2>9
<1>7. CASE Notebook!LockVerify(p)
  <2>1. Quiet(p) /\ UNCHANGED Notebook!stored /\ Notebook!After(p) \notin Notebook!Saves
    BY <1>7 DEF Notebook!LockVerify, Notebook!After, Notebook!stored
  <2>2. \/ Notebook!Step(p, [proc[p] EXCEPT !.pc = Notebook!After(p), !.st = snap])
        \/ Notebook!Step(p, [proc[p] EXCEPT !.pc = "ask", !.st = snap])
    BY ONLY <1>7 DEF Notebook!LockVerify
  <2>3. ASSUME NEW pc, pc \notin Notebook!Saves
        PROVE  LET f == [proc[p] EXCEPT !.pc = pc, !.st = snap] IN
                 Going(f) /\ f.pc \notin Notebook!Saves
    BY <2>3
  <2> QED
    BY ONLY SaveInv, p \in Notebook!Procs, <2>1, <2>2, <2>3, CalmFrame,
       "ask" \notin Notebook!Saves
<1>8. CASE Notebook!Ask(p)
  BY <1>8, CalmStep DEF Notebook!Ask, Notebook!stored
<1>9. CASE Notebook!Outcome(p)
  <2> DEFINE q == Notebook!Published(p, proc[p].st, Notebook!After(p))
  <2>1. Going(q) /\ q.pc \notin Notebook!Saves
    BY DEF Notebook!Published, Notebook!After
  <2>2. \/ \E record : Notebook!Mutate(p, record, q)
        \/ Notebook!Step(p, q) /\ UNCHANGED Notebook!stored
    BY <1>9 DEF Notebook!Outcome
  <2> HIDE DEF q
  <2>3. CASE \E record : Notebook!Mutate(p, record, q)
    BY <1>9, <2>1, <2>3, MutateStep DEF Notebook!Outcome
  <2>4. CASE Notebook!Step(p, q) /\ UNCHANGED Notebook!stored
    BY <1>9, <2>1, <2>4, CalmStep DEF Notebook!Outcome
  <2> QED
    BY <2>2, <2>3, <2>4
<1>10. CASE Notebook!Open(p) \/ Notebook!Fill(p) \/ Notebook!Rename(p) \/ Notebook!SaveFails(p)
  BY <1>10, SavesStep
<1> QED
  BY <1>1, <1>2, <1>3, <1>4, <1>5, <1>6, <1>7, <1>8, <1>9, <1>10 DEF Notebook!NbStep

\* The user's actions.
LEMMA UserStepSaves ==
  ASSUME SaveInv, Notebook!UserStep
  PROVE  SaveInv'
<1> USE DEF SaveInv, FramesInv, Going, Fields, Others, Quiet, Notebook!Saving, Notebook!Saves,
            Notebook!At, Notebook!Step, Notebook!Goto, Notebook!Resting
<1>0. "user" \in Notebook!Procs
  BY DEF Notebook!Procs
<1>1. CASE Notebook!Login
  <2> DEFINE f == Notebook!Published("user", [snap EXCEPT !.state = "authenticating"], "browser")
             g == [proc["user"] EXCEPT !.pc = "idle"]
  <2>1. Going(f) /\ f.pc \notin Notebook!Saves /\ Going(g) /\ g.pc \notin Notebook!Saves
    BY <1>0 DEF Notebook!Published
  <2>2. (Notebook!Step("user", f) \/ Notebook!Step("user", g)) /\ UNCHANGED Notebook!stored
    BY ONLY <1>1 DEF Notebook!Login, Notebook!Publish, Notebook!Goto, Notebook!stored
  <2>3. Quiet("user")
    BY <1>1 DEF Notebook!Login
  <2> HIDE DEF f, g
  <2> QED
    BY ONLY SaveInv, <1>0, <2>1, <2>2, <2>3, CalmFrame
<1>2. CASE Notebook!Browser
  <2>1. \E ok \in BOOLEAN :
          Notebook!Mutate("user", Notebook!SignedUp,
                          [proc["user"] EXCEPT !.pc = "verify", !.ok = ok])
    BY <1>2 DEF Notebook!Browser
  <2>2. PICK ok \in BOOLEAN :
          Notebook!Mutate("user", Notebook!SignedUp,
                          [proc["user"] EXCEPT !.pc = "verify", !.ok = ok])
    BY <2>1
  <2> DEFINE q == [proc["user"] EXCEPT !.pc = "verify", !.ok = ok]
  <2>3. Going(q) /\ q.pc \notin Notebook!Saves /\ Quiet("user")
    BY <1>0, <1>2 DEF Notebook!Browser
  <2> QED
    BY <1>0, <2>2, <2>3, MutateStep
<1>3. CASE Notebook!SignedIn
  <2> DEFINE f == [proc["user"] EXCEPT !.pc = "registry", !.then = "idle"]
             g == [proc["user"] EXCEPT !.pc = "idle"]
  <2>1. Going(f) /\ f.pc \notin Notebook!Saves /\ Going(g) /\ g.pc \notin Notebook!Saves
    BY <1>0
  <2>2. (Notebook!Step("user", f) \/ Notebook!Step("user", g)) /\ UNCHANGED Notebook!stored
    BY ONLY <1>3 DEF Notebook!SignedIn, Notebook!Goto, Notebook!stored
  <2>3. Quiet("user")
    BY <1>3 DEF Notebook!SignedIn
  <2> HIDE DEF f, g
  <2> QED
    BY ONLY SaveInv, <1>0, <2>1, <2>2, <2>3, CalmFrame
<1>4. CASE Notebook!Logout
  BY <1>0, <1>4, CalmStep DEF Notebook!Logout, Notebook!stored
<1>5. CASE Notebook!LoggedOut
  <2> DEFINE q == Notebook!Published("user", [snap EXCEPT !.state = "notAuthenticated",
                                        !.has = session # 0, !.verified = FALSE], "idle")
  <2>1. Going(q) /\ q.pc \notin Notebook!Saves /\ Quiet("user")
    BY <1>0, <1>5 DEF Notebook!LoggedOut, Notebook!Published
  <2> QED
    BY <1>0, <1>5, <2>1, MutateStep DEF Notebook!LoggedOut
<1>6. CASE Notebook!Install
  BY <1>0, <1>6, CalmStep
  DEF Notebook!Install, Notebook!Publish, Notebook!Published, Notebook!stored
<1>7. CASE Notebook!Installer
  <2> DEFINE q == Notebook!Published("user", Notebook!Detected(disk', TRUE), "installed")
             f == Notebook!Published("user", [snap EXCEPT !.state = "installFailed"], "idle")
  <2>1. Going(q) /\ q.pc \notin Notebook!Saves /\ Going(f) /\ f.pc = "registry" /\ Quiet("user")
    BY <1>0, <1>7 DEF Notebook!Installer, Notebook!Published
  <2>2. \/ Notebook!Mutate("user", [saved EXCEPT !.cli = TRUE, !.mcp = TRUE], q)
        \/ Notebook!Step("user", f) /\ UNCHANGED Notebook!stored
    BY <1>7 DEF Notebook!Installer, Notebook!Publish
  <2> HIDE DEF q, f
  <2> QED
    BY <1>0, <2>1, <2>2, MutateStep, CalmStep
<1>8. CASE Notebook!Installed
  BY <1>0, <1>8, CalmStep DEF Notebook!Installed, Notebook!stored
<1>9. CASE Notebook!SetRegistered(TRUE) \/ Notebook!SetRegistered(FALSE)
  BY <1>0, <1>9, CalmStep DEF Notebook!SetRegistered, Notebook!stored
<1>10. CASE Notebook!Republish
  BY <1>0, <1>10, CalmStep
  DEF Notebook!Republish, Notebook!Publish, Notebook!Published, Notebook!stored
<1> QED
  BY <1>1, <1>2, <1>3, <1>4, <1>5, <1>6, <1>7, <1>8, <1>9, <1>10 DEF Notebook!UserStep

LEMMA NotebookStep ==
  ASSUME SaveInv, [Notebook!NbNext]_(Notebook!nbVars)
  PROVE  SaveInv'
<1>0. "startup" \in Notebook!Procs /\ "user" \in Notebook!Procs
  BY DEF Notebook!Procs
<1>1. CASE Notebook!Startup
  BY <1>0, <1>1, CalmStep
  DEF SaveInv, FramesInv, Going, Fields, Others, Quiet, Notebook!Saving, Notebook!Saves,
      Notebook!At, Notebook!Step, Notebook!Resting, Notebook!Startup, Notebook!stored
<1>2. CASE Notebook!Reconcile
  BY <1>0, <1>2, CalmStep
  DEF SaveInv, FramesInv, Going, Fields, Others, Quiet, Notebook!Saving, Notebook!Saves,
      Notebook!At, Notebook!Step, Notebook!Resting, Notebook!Reconcile, Notebook!stored
<1>3. ASSUME NEW op \in Actions, Notebook!Act(op) PROVE SaveInv'
  <2> DEFINE pc == CASE op = "health" -> "verify" [] op = "redetect" -> "detect" [] OTHER -> op
             q == [Notebook!Resting EXCEPT !.op = op, !.force = TRUE, !.pc = pc]
  <2>1. pc \notin Notebook!Saves
    BY ProcessesAssumption DEF Notebook!NotebookAssumption, Notebook!Saves
  <2>2. Notebook!Step("user", q) /\ UNCHANGED Notebook!stored
    BY <1>3 DEF Notebook!Act, Notebook!stored
  <2> HIDE DEF pc
  <2>3. Going(q) /\ q.pc \notin Notebook!Saves
    BY <2>1 DEF Going, Fields, Notebook!Resting, Notebook!Saves
  <2>4. Quiet("user")
    BY <1>3 DEF Notebook!Act, Notebook!At, Quiet, Notebook!Saving, Notebook!Saves
  <2> HIDE DEF q
  <2> QED
    BY <1>0, <2>2, <2>3, <2>4, CalmFrame
<1>4. CASE Notebook!Restart
  <2>1. /\ proc' = [p \in Notebook!Procs |-> Notebook!Resting]
        /\ saved' = Notebook!Loaded(file) /\ file' = file
    BY <1>4 DEF Notebook!Restart
  <2>2. FramesInv' /\ \A p \in Notebook!Procs : Quiet(p)'
    BY <2>1 DEF FramesInv, Going, Fields, Quiet, Notebook!Saving, Notebook!Saves, Notebook!Resting
  <2> QED
    BY <2>1, <2>2 DEF SaveInv, Quiet, Notebook!Loaded
<1>5. CASE Notebook!TerminalLogin \/ Notebook!Expires \/ UNCHANGED Notebook!nbVars
  <2>1. UNCHANGED <<proc, saved, file, tmp, spoilt>>
    BY <1>5 DEF Notebook!TerminalLogin, Notebook!Expires, Notebook!nbVars, Notebook!stored
  <2> QED
    BY <2>1 DEF SaveInv, FramesInv, AloneInv, Quiet, Notebook!Saving, Notebook!Loaded
<1> QED
  BY <1>1, <1>2, <1>3, <1>4, <1>5, EitherStep, UserStepSaves DEF Notebook!NbNext

\* mutate_persisted, save: with the two activities interleaved in any way and a kill at
\* any point, the next start reads what this run remembers, unless saves overlapped or
\* one failed.
THEOREM RecordStaysKept == Notebook!NbSpec => []RecordKept
<1>1. Notebook!NbInit => SaveInv
  <2> SUFFICES ASSUME Notebook!NbInit PROVE SaveInv
    OBVIOUS
  <2>1. proc = [p \in Notebook!Procs |-> Notebook!Resting] /\ file = Notebook!Doc("whole", saved)
    BY DEF Notebook!NbInit
  <2>2. FramesInv /\ \A p \in Notebook!Procs : Quiet(p)
    BY <2>1 DEF FramesInv, Going, Fields, Quiet, Notebook!Saving, Notebook!Saves, Notebook!Resting
  <2>3. Notebook!Loaded(file) = saved
    BY <2>1 DEF Notebook!Loaded, Notebook!Doc
  <2> QED
    BY <2>2, <2>3 DEF SaveInv, Quiet
<1>2. SaveInv /\ [Notebook!NbNext]_(Notebook!nbVars) => SaveInv'
  BY NotebookStep
<1>3. SaveInv => RecordKept
  BY DEF SaveInv, RecordKept, Notebook!RecordKept, Quiet
<1> QED
  BY <1>1, <1>2, <1>3, PTL DEF Notebook!NbSpec
-----------------------------------------------------------------------------
(* The launcher.                                                                 *)

\* A tool out of the registry: shipped, or the user's and valid.
Known(spec) ==
  spec \in Starter!BuiltinTools \/ spec \in {e \in UserEntries : Starter!ValidSpec(e)}

\* Only a tool of the registry is launched, and its file is written from what is announced.
LaunchInv ==
  /\ DOMAIN launch = Launches /\ DOMAIN config = Subjects
  /\ \A c \in Launches :
       /\ {"pc", "tool"} \subseteq DOMAIN launch[c]
       /\ launch[c].pc # "idle" => Known(launch[c].tool)
  /\ \A i \in Subjects : config[i] # Starter!Unwritten =>
       /\ Known(config[i].tool)
       /\ config[i].said = Starter!Delivered(config[i].tool, config[i].servers)

\* A known tool's placeholder is where substitution finds it, in a dialect.
LEMMA KnownIsWritten ==
  ASSUME Starter!EntriesAssumption, NEW spec, Known(spec), NEW servers,
         spec.where # "yamlInline", spec.mcp # "none"
  PROVE  Starter!Delivered(spec, servers) \subseteq Starter!Written(spec, servers).names
<1>1. \/ spec.where \in {"json", "yamlBlock"} /\ spec.written # "none"
      \/ spec.where = "args"
  <2>1. CASE spec \in Starter!BuiltinTools
    BY <2>1 DEF Starter!BuiltinTools, Starter!ClaudeCode, Starter!Opencode, Starter!Hermes,
      Starter!OpenClaw
  <2>2. CASE spec \in UserEntries /\ Starter!ValidSpec(spec)
    BY <2>2 DEF Starter!EntriesAssumption, Starter!ValidSpec, Starter!SubstitutesMcp
  <2> QED BY <2>1, <2>2 DEF Known
<1>2. ASSUME NEW d, d # "none"
      PROVE  Starter!Rendered(spec.mcp, servers) = Starter!Rendered(d, servers)
  BY <1>2 DEF Starter!Rendered, Starter!Supports
<1>3. Starter!Written(spec, servers).names \in
        {Starter!Rendered(spec.written, servers), Starter!Rendered("standard", servers)}
  BY <1>1 DEF Starter!Written
<1>4. Starter!Delivered(spec, servers) = Starter!Rendered(spec.mcp, servers)
  BY DEF Starter!Delivered
<1>5. CASE spec.where \in {"json", "yamlBlock"}
  BY <1>1, <1>2, <1>4, <1>5 DEF Starter!Written
<1>6. CASE spec.where = "args"
  BY <1>2, <1>4, <1>6 DEF Starter!Written
<1> QED BY <1>1, <1>5, <1>6

LEMMA LaunchStart == Starter!LaunchInit => LaunchInv
BY DEF Starter!LaunchInit, LaunchInv, Starter!Free

\* What a command goes on with: its own frame, a step further, or a free one.
Framed(l) == {"pc", "tool"} \subseteq DOMAIN l /\ (l.pc # "idle" => Known(l.tool))

LEMMA FrameGoesOn ==
  ASSUME NEW l, Framed(l), l.pc # "idle", NEW to, NEW model, NEW pid
  PROVE  /\ Framed([l EXCEPT !.pc = to])
         /\ Framed([l EXCEPT !.pc = to, !.model = model])
         /\ Framed([l EXCEPT !.pc = to, !.pid = pid])
         /\ Framed(Starter!Free)
<1>1. Framed([l EXCEPT !.pc = to])
  BY DEF Framed
<1>2. Framed([l EXCEPT !.pc = to, !.model = model])
  BY DEF Framed
<1>3. Framed([l EXCEPT !.pc = to, !.pid = pid])
  BY DEF Framed
<1>4. Framed(Starter!Free)
  BY DEF Framed, Starter!Free
<1> QED BY <1>1, <1>2, <1>3, <1>4

LEMMA FrameReplaced ==
  ASSUME LaunchInv, NEW c \in Launches, NEW l, Framed(l), UNCHANGED config,
         launch' = [launch EXCEPT ![c] = l]
  PROVE  LaunchInv'
BY DEF LaunchInv, Framed

LEMMA LaunchStep ==
  ASSUME LaunchInv, [Starter!LaunchNext]_(Starter!launchVars)
  PROVE  LaunchInv'
<1> USE DEF Starter!End, Starter!Goto, Starter!Continue
<1>0. \A c \in Launches : Framed(launch[c])
  BY DEF LaunchInv, Framed
<1>2. ASSUME UNCHANGED <<launch, config>>  PROVE LaunchInv'
  BY <1>2 DEF LaunchInv
<1>3. ASSUME NEW c \in Launches, Starter!LaunchTool(c)  PROVE LaunchInv'
  <2>2. PICK spec \in Starter!Registry(tools) :
          launch' = [launch EXCEPT ![c] =
            [Starter!Free EXCEPT
               !.pc = IF procs[spec.id] # 0 THEN "alive" ELSE "floor",
               !.tool = spec, !.model = loaded, !.pid = procs[spec.id]]]
    BY <1>3 DEF Starter!LaunchTool
  <2>3. Known(spec)
    BY DEF Known, Starter!Registry
  <2> DEFINE l == [Starter!Free EXCEPT
               !.pc = IF procs[spec.id] # 0 THEN "alive" ELSE "floor",
               !.tool = spec, !.model = loaded, !.pid = procs[spec.id]]
  <2>4. Framed(l)
    BY <2>3 DEF Framed, Starter!Free
  <2> HIDE DEF l
  <2>5. launch' = [launch EXCEPT ![c] = l]
    BY <2>2 DEF l
  <2> QED BY <1>3, <2>4, <2>5, FrameReplaced DEF Starter!LaunchTool
<1>4. ASSUME NEW c \in Launches, Starter!CheckAlive(c) \/ Starter!Record(c)
      PROVE  LaunchInv'
  <2>1. UNCHANGED config /\ launch[c].pc # "idle"
    BY <1>4 DEF Starter!CheckAlive, Starter!Record
  <2>2. \/ launch' = [launch EXCEPT ![c] = Starter!Free]
        \/ launch' = [launch EXCEPT ![c] = [launch[c] EXCEPT !.pc = "floor"]]
    BY <1>4 DEF Starter!CheckAlive, Starter!Record
  <2>3. Framed(Starter!Free) /\ Framed([launch[c] EXCEPT !.pc = "floor"])
    BY <1>0, <2>1, FrameGoesOn
  <2> QED BY <2>1, <2>2, <2>3, FrameReplaced
<1>5. ASSUME NEW c \in Launches, Starter!MeetFloor(c) \/ Starter!MakeRoom(c)
      PROVE  LaunchInv'
  <2>1. UNCHANGED config /\ launch[c].pc # "idle"
    BY <1>5 DEF Starter!MeetFloor, Starter!MakeRoom
  <2>2. \/ launch' = [launch EXCEPT ![c] = Starter!Free]
        \/ \E to \in {"room", "start"} :
             launch' = [launch EXCEPT ![c] = [launch[c] EXCEPT !.pc = to]]
        \/ \E to \in {"room", "start"}, model \in {loaded, loaded'} : launch' = [launch EXCEPT ![c] =
                                     [launch[c] EXCEPT !.pc = to, !.model = model]]
    <3>1. CASE Starter!MeetFloor(c)
      BY <3>1 DEF Starter!MeetFloor
    <3>2. CASE Starter!MakeRoom(c)
      BY <3>2 DEF Starter!MakeRoom
    <3> QED BY <1>5, <3>1, <3>2
  <2>3. CASE launch' = [launch EXCEPT ![c] = Starter!Free]
    BY <1>0, <2>1, <2>3, FrameGoesOn, FrameReplaced
  <2>4. ASSUME NEW to, launch' = [launch EXCEPT ![c] = [launch[c] EXCEPT !.pc = to]]
        PROVE  LaunchInv'
    <3>1. Framed([launch[c] EXCEPT !.pc = to])
      BY <1>0, <2>1, FrameGoesOn
    <3> QED BY <2>1, <2>4, <3>1, FrameReplaced
  <2>5. ASSUME NEW to, NEW model, launch' = [launch EXCEPT ![c] =
                                     [launch[c] EXCEPT !.pc = to, !.model = model]]
        PROVE  LaunchInv'
    <3>1. Framed([launch[c] EXCEPT !.pc = to, !.model = model])
      BY <1>0, <2>1, FrameGoesOn
    <3> QED BY <2>1, <2>5, <3>1, FrameReplaced
  <2> QED BY <2>2, <2>3, <2>4, <2>5
<1>6. ASSUME NEW c \in Launches, Starter!Start(c)
      PROVE  LaunchInv'
  <2>1. launch[c].pc # "idle" /\ Known(launch[c].tool)
    BY <1>0, <1>6 DEF Starter!Start, Framed
  <2>2. CASE UNCHANGED config /\ launch' = [launch EXCEPT ![c] = Starter!Free]
    BY <1>0, <2>1, <2>2, FrameGoesOn, FrameReplaced
  <2>3. CASE ~(UNCHANGED config /\ launch' = [launch EXCEPT ![c] = Starter!Free])
    <3> DEFINE servers == Starter!Servers(mcp)
               l == [launch[c] EXCEPT !.pc = "record", !.pid = pids']
               f == [tool |-> launch[c].tool, model |-> launch[c].model,
                     said |-> Starter!Delivered(launch[c].tool, servers),
                     servers |-> servers]
    <3>1. /\ launch' = [launch EXCEPT ![c] = l]
          /\ config' = [config EXCEPT ![launch[c].tool.id] = f]
      BY <1>6, <2>3 DEF Starter!Start
    <3>2. Framed(l)
      BY <1>0, <2>1, FrameGoesOn
    <3>3. /\ f.tool = launch[c].tool
          /\ f.said = Starter!Delivered(f.tool, f.servers)
      OBVIOUS
    <3> HIDE DEF l, f
    <3> QED BY <2>1, <3>1, <3>2, <3>3 DEF LaunchInv, Framed
  <2> QED BY <2>2, <2>3
<1>7. CASE \/ \E i \in Subjects : Starter!Forget(i)
           \/ \E w \in windows : \/ Starter!WrapperExits(w) \/ Starter!ScriptTitles(w)
                                \/ Starter!CloseWindow(w)
           \/ Starter!ChangeModel \/ Starter!EditFiles
           \/ UNCHANGED Starter!launchVars
  BY <1>2, <1>7 DEF Starter!Forget, Starter!WrapperExits, Starter!ScriptTitles,
    Starter!CloseWindow, Starter!ChangeModel, Starter!EditFiles, Starter!launchVars
<1> QED
  BY <1>3, <1>4, <1>5, <1>6, <1>7 DEF Starter!LaunchNext

\* spec.rs, mod.rs: whatever the start screen of a tool announces as handed over is in
\* the tool's config, for any tools of the user's own and any servers, except where the
\* config is inline YAML.
THEOREM AnnouncedAreWritten ==
  Starter!EntriesAssumption => (Starter!LaunchSpec => []AnnouncedIsWritten)
<1> SUFFICES ASSUME Starter!EntriesAssumption
             PROVE  Starter!LaunchSpec => []AnnouncedIsWritten
  OBVIOUS
<1>1. LaunchInv => AnnouncedIsWritten
  BY KnownIsWritten DEF LaunchInv, AnnouncedIsWritten, Starter!AnnouncedIsWritten
<1> QED
  BY <1>1, LaunchStart, LaunchStep, PTL DEF Starter!LaunchSpec
=============================================================================
