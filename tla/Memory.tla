-------------------------------- MODULE Memory --------------------------------
(* memory_engine: what the user says is mined for facts and kept in SQLite      *)
(* under a project; before every chat turn the project's facts are ranked and   *)
(* put into the prompt. Mining, ranking and summarising are calls of a sidecar  *)
(* over one pair of pipes that all threads share.                               *)
EXTENDS Naturals, Sequences, FiniteSets, FiniteSetsExt

CONSTANTS
    Talkers,    \* threads running send_chat_message
    Searchers,  \* threads running search_memory_nodes or a health check
    Messages,   \* [text, fact (a memory type or "none"), mock (the same), long, wide]:
                \* wide has characters of several bytes, which a cut at a byte may split
    Projects,   \* project ids the window may name
    Recall,     \* facts put into a prompt (5 in the code)
    MaxNodes,   \* bound: facts saved
    MaxMoves    \* bound: switches, edits, deletions and restarts

Callers == Talkers \cup Searchers
General == "general"
AnyProject == "any"
ASSUME MemoryAssumption ==
    General \in Projects /\ IsFiniteSet(Callers) /\ MaxNodes \in Nat /\ MaxMoves \in Nat

VARIABLES
    provider,   \* "sidecar" or "mock": chosen once, at launch
    sidecar,    \* "up" or "dead"
    stdin,      \* requests written and not answered: [to, method, about]
    stdout,     \* answers written and not read, the same records
    active,     \* ProjectManager.active_project_id
    table,      \* the projects table
    nodes,      \* the memory_nodes table: [id, project, type, said]
    minted,     \* ids given out: they are never given again
    profile,    \* the user_profile table: what has been said of the user
    call,       \* each caller's step and what it holds
    moves

memVars == <<provider, sidecar, stdin, stdout, active, table, nodes, minted, profile, call, moves>>
pipes == <<provider, sidecar, stdin, stdout>>
kept == <<active, table, nodes, minted, profile>>

Idle == [pc |-> "idle", project |-> General, message |-> "none", then |-> "none",
         heard |-> {}, cands |-> {}, recalled |-> {}, known |-> {}]

Personal == {"user_fact", "preference"}

MemTypeOK ==
    /\ provider \in {"sidecar", "mock"} /\ sidecar \in {"up", "dead"}
    /\ active \in Projects /\ table \subseteq Projects
    /\ \A n \in nodes : n.project \in table /\ n.id \in 1..minted
    /\ profile \in SUBSET {m.text : m \in Messages}
    /\ minted \in 0..MaxNodes /\ moves \in 0..MaxMoves

\* MemoryManager::new on a new profile: the schema seeds one project.
MemInit ==
    /\ \/ provider = "sidecar" /\ sidecar = "up"
       \/ provider = "mock" /\ sidecar = "dead"
    /\ stdin = <<>> /\ stdout = <<>>
    /\ active = General /\ table = {General} /\ nodes = {} /\ minted = 0 /\ profile = {}
    /\ call = [c \in Callers |-> Idle] /\ moves = 0

Message(c) == CHOOSE m \in Messages : m.text = call[c].message
Enter(c, fields) == call' = [call EXCEPT ![c] = fields]
At(c, pc) == call[c].pc = pc

\* A log line cuts a text at a byte: inside a character that is a panic, which ends the
\* command without an answer; no lock is held.
Cut(c, texts) ==
    /\ \E m \in Messages : m.wide /\ m.text \in texts
    /\ Enter(c, [Idle EXCEPT !.pc = "lost"])

----------------------------------------------------------------------------
(* SidecarAdapter::call_rpc. The request and the answer take different locks,   *)
(* and the answer's id is not looked at.                                        *)

\* The caller's state as it starts a call of `method`; a MockProvider answers in
\* place, and the caller goes straight to what follows with `mock`.
Ask(c, was, method, mock) ==
    IF provider = "sidecar"
    THEN Enter(c, [was EXCEPT !.pc = "write", !.then = method])
    ELSE Enter(c, [was EXCEPT !.pc = method, !.heard = mock])

Failed == {[to |-> "none", method |-> "failed", about |-> {}]}
Resume(c, answer) == Enter(c, [call[c] EXCEPT !.pc = call[c].then, !.heard = answer])

\* What each request carries: a message to mine, candidates to rank.
About(c) ==
    CASE call[c].then = "mine" -> {call[c].message}
      [] call[c].then = "rank" -> call[c].cands
      [] OTHER -> {}

\* stdin.write_all; a dead process breaks the pipe.
Write(c) ==
    /\ At(c, "write")
    /\ \/ /\ sidecar = "up"
          /\ stdin' = Append(stdin, [to |-> c, method |-> call[c].then, about |-> About(c)])
          /\ Enter(c, [call[c] EXCEPT !.pc = "read"])
       \/ sidecar = "dead" /\ UNCHANGED stdin /\ Resume(c, Failed)
    /\ UNCHANGED <<provider, sidecar, stdout, kept, moves>>

(* Mutants.                                                                    *)

\* A read that is given up leaves its line in the pipe.
ReadOrGiveUp(c) ==
    /\ At(c, "read")
    /\ \/ stdout # <<>> /\ stdout' = Tail(stdout) /\ Resume(c, {Head(stdout)})
       \/ UNCHANGED stdout /\ Resume(c, Failed)
    /\ UNCHANGED <<provider, sidecar, stdin, kept, moves>>

\* An empty line is waited past.
ReadPastEnd(c) ==
    /\ At(c, "read") /\ stdout # <<>>
    /\ stdout' = Tail(stdout) /\ Resume(c, {Head(stdout)})
    /\ UNCHANGED <<provider, sidecar, stdin, kept, moves>>

\* reader.read_line: whoever has the lock takes the next line; at the end of
\* the stream an empty line is an error.
Read(c) ==
    /\ At(c, "read")
    /\ \/ /\ stdout # <<>>
          /\ stdout' = Tail(stdout) /\ Resume(c, {Head(stdout)})
       \/ stdout = <<>> /\ sidecar = "dead" /\ UNCHANGED stdout /\ Resume(c, Failed)
    /\ UNCHANGED <<provider, sidecar, stdin, kept, moves>>

\* main.py: one line for each line, in the order they came, the result or the
\* exception that was raised.
Answer ==
    /\ sidecar = "up" /\ stdin # <<>>
    /\ stdin' = Tail(stdin)
    /\ \/ stdout' = Append(stdout, Head(stdin))
       \/ stdout' = Append(stdout, [Head(stdin) EXCEPT !.method = "failed", !.about = {}])
    /\ UNCHANGED <<provider, sidecar, kept, call, moves>>

\* The process ends; nothing spawns another.
Die ==
    /\ sidecar = "up" /\ moves < MaxMoves /\ moves' = moves + 1
    /\ sidecar' = "dead" /\ stdin' = <<>>
    /\ UNCHANGED <<provider, stdout, kept, call>>

\* PythonSidecarProvider: a result without the field asked for reads as empty.
Field(c, method) ==
    UNION {a.about : a \in {b \in call[c].heard : b.method = method}}

----------------------------------------------------------------------------
(* send_chat_message: mine the turn, then prepare the prompt.                  *)

\* The message is logged twice; process_user_turn reads the project in use, then
\* extract_facts.
Say(t, m) ==
    /\ At(t, "idle")
    /\ \/ Cut(t, {m.text})
       \/ Ask(t, [Idle EXCEPT !.project = active, !.message = m.text], "mine",
              {[to |-> t, method |-> "mock", about |-> {m.text}]})
    /\ UNCHANGED <<pipes, kept, moves>>

\* The facts found: the provider's, or MockProvider's own when the call failed.
Mined(t) ==
    LET byMock == provider = "mock" \/ \E a \in call[t].heard : a.method = "failed"
        texts == IF byMock THEN {call[t].message} ELSE Field(t, "mine")
        type(m) == IF byMock THEN m.mock ELSE m.fact
    IN {[said |-> m.text, type |-> type(m)] : m \in {n \in Messages : n.text \in texts /\ type(n) # "none"}}

\* save_memory_node: always a new id. A project that is not in the table breaks
\* the foreign key, which is logged and nothing more.
Keep(t) ==
    /\ At(t, "mine")
    /\ \/ /\ Mined(t) # {} /\ minted < MaxNodes /\ minted' = minted + 1
          /\ \E f \in Mined(t) :
               /\ nodes' = IF call[t].project \in table
                           THEN nodes \cup {[id |-> minted + 1, project |-> call[t].project,
                                             type |-> f.type, said |-> f.said]}
                           ELSE nodes
               /\ Enter(t, [call[t] EXCEPT !.pc = IF f.type \in Personal THEN "learn" ELSE "prepare",
                                           !.heard = {}, !.known = {f.said}])
       \/ /\ Mined(t) = {} \/ minted = MaxNodes
          /\ UNCHANGED <<nodes, minted>> /\ Enter(t, [call[t] EXCEPT !.pc = "prepare", !.heard = {}])
    /\ UNCHANGED <<pipes, active, table, profile, moves>>

\* ProfileManager::set_fact: one profile for every project.
Learn(t) ==
    /\ At(t, "learn")
    /\ profile' = profile \cup call[t].known
    /\ Enter(t, [call[t] EXCEPT !.pc = "prepare"])
    /\ UNCHANGED <<pipes, active, table, nodes, minted, moves>>

\* prepare_injected_messages reads the project in use again, and the profile.
Prepare(t) ==
    /\ At(t, "prepare")
    /\ Enter(t, [call[t] EXCEPT !.pc = "fetch", !.project = active, !.known = profile, !.recalled = {}])
    /\ UNCHANGED <<pipes, kept, moves>>

\* get_memories_by_project: the newest 50 of the project, here all of them.
InScope(p) == {n \in nodes : p = AnyProject \/ n.project = p}

SaidIn(ns) == {n.said : n \in ns}

\* Retriever::retrieve: nothing kept, nothing to rank. The candidates are logged.
Fetch(c) ==
    /\ At(c, "fetch")
    /\ LET found == InScope(call[c].project)
           was == [call[c] EXCEPT !.cands = found]
       IN \/ found = {} /\ Enter(c, [was EXCEPT !.pc = "ranked"])
          \/ Cut(c, SaidIn(found))
          \/ found # {} /\ Ask(c, was, "rank", {[to |-> c, method |-> "rank", about |-> found]})
    /\ UNCHANGED <<pipes, kept, moves>>

\* calculate_rankings, or RankingEngine when it fails or comes back empty; the
\* order is the provider's, so any that many may be the first ones. These are logged.
Rank(c) ==
    /\ At(c, "rank")
    /\ LET ranked == IF Field(c, "rank") # {} THEN Field(c, "rank") ELSE call[c].cands
       IN \E top \in SUBSET ranked :
            /\ IF Cardinality(ranked) <= Recall THEN top = ranked ELSE Cardinality(top) = Recall
            /\ \/ Cut(c, SaidIn(top))
               \/ Enter(c, [call[c] EXCEPT !.pc = "ranked", !.heard = {}, !.cands = {}, !.recalled = top])
    /\ UNCHANGED <<pipes, kept, moves>>

\* Summarizer::summarize_turns of a long conversation; a failure is no summary.
Summarise(t) ==
    /\ At(t, "ranked") /\ t \in Talkers /\ Message(t).long
    /\ Ask(t, call[t], "summary", {})
    /\ UNCHANGED <<pipes, kept, moves>>

\* PromptInjector::inject_memory_into_messages; the beginning of the prompt is logged,
\* and the turn goes to the model.
Inject(t) ==
    /\ t \in Talkers
    /\ At(t, "summary") \/ (At(t, "ranked") /\ ~Message(t).long)
    /\ \/ Cut(t, call[t].known \cup SaidIn(call[t].recalled) \cup {call[t].message})
       \/ Enter(t, [call[t] EXCEPT !.pc = "done"])
    /\ UNCHANGED <<pipes, kept, moves>>

----------------------------------------------------------------------------
(* api.rs: the other commands.                                                 *)

\* search_memory_nodes, in one project or in all.
Search(s, p) ==
    /\ s \in Searchers /\ At(s, "idle")
    /\ Enter(s, [Idle EXCEPT !.pc = "fetch", !.project = p])
    /\ UNCHANGED <<pipes, kept, moves>>

\* check_health: a call like the others.
CheckHealth(s) ==
    /\ s \in Searchers /\ At(s, "idle")
    /\ Ask(s, Idle, "health", {})
    /\ UNCHANGED <<pipes, kept, moves>>

\* The answer goes back to the window, or to the model; a lost call has none.
Return(c) ==
    /\ At(c, "done") \/ At(c, "health") \/ At(c, "lost") \/ (c \in Searchers /\ At(c, "ranked"))
    /\ Enter(c, Idle) /\ UNCHANGED <<pipes, kept, moves>>

\* switch_active_project: any id, whether or not the table has it.
Switch(p) ==
    /\ p # active /\ moves < MaxMoves /\ moves' = moves + 1
    /\ active' = p /\ UNCHANGED <<pipes, table, nodes, minted, profile, call>>

\* create_memory_project; an id the table has is refused.
Create(p) ==
    /\ p \notin table /\ moves < MaxMoves /\ moves' = moves + 1
    /\ table' = table \cup {p} /\ UNCHANGED <<pipes, active, nodes, minted, profile, call>>

\* update_user_profile_fact.
Edit(m) ==
    /\ m.text \notin profile /\ moves < MaxMoves /\ moves' = moves + 1
    /\ profile' = profile \cup {m.text} /\ UNCHANGED <<pipes, active, table, nodes, minted, call>>

\* delete_memory_node_by_id of the newest fact kept: the profile keeps it.
Delete ==
    /\ nodes # {} /\ moves < MaxMoves /\ moves' = moves + 1
    /\ nodes' = {n \in nodes : n.id # Max({k.id : k \in nodes})}
    /\ UNCHANGED <<pipes, active, table, minted, profile, call>>

\* The application quits and comes back: the tables stay, the project does not.
Restart ==
    /\ moves < MaxMoves /\ moves' = moves + 1
    /\ sidecar' = (IF provider = "sidecar" THEN "up" ELSE "dead")
    /\ stdin' = <<>> /\ stdout' = <<>> /\ active' = General
    /\ call' = [c \in Callers |-> Idle]
    /\ UNCHANGED <<provider, table, nodes, minted, profile>>

----------------------------------------------------------------------------
Turn(t) == Keep(t) \/ Learn(t) \/ Prepare(t) \/ Summarise(t) \/ Inject(t)
Rpc(c) == Write(c) \/ Read(c) \/ Fetch(c) \/ Rank(c)

MemNext ==
    \/ \E t \in Talkers : Turn(t) \/ \E m \in Messages : Say(t, m)
    \/ \E s \in Searchers : CheckHealth(s) \/ \E p \in Projects \cup {AnyProject} : Search(s, p)
    \/ \E c \in Callers : Rpc(c) \/ Return(c)
    \/ Answer \/ Die \/ Delete \/ Restart
    \/ \E p \in Projects : Switch(p) \/ Create(p)
    \/ \E m \in Messages : Edit(m)

\* Threads run. Nothing makes the sidecar answer: call_rpc has no timeout.
MemFair ==
    /\ \A t \in Talkers : WF_memVars(Turn(t))
    /\ \A c \in Callers : SF_memVars(Rpc(c))

MemSpec == MemInit /\ [][MemNext]_memVars /\ MemFair

----------------------------------------------------------------------------
(* Properties.                                                                 *)

\* The pipe owes one line to each caller that waits for one, so an answer is
\* never left for a later call to take for its own.
OneLineEach ==
    sidecar = "up" =>
        Len(stdin) + Len(stdout) = Cardinality({c \in Callers : At(c, "read")})

\* A turn reaches the model, or is lost to a log line, or the application ends, if the
\* sidecar answers whatever it is asked, with a failure or with another's answer, or
\* dies, before or after it is asked.
Ended(t) == At(t, "done") \/ At(t, "lost") \/ At(t, "idle")
TurnsEnd == []<>(stdin = <<>>) => \A t \in Talkers : ~At(t, "idle") ~> Ended(t)

\* It ends however the sidecar behaves: not true of one that lives and is silent.
TurnsAlwaysEnd == \A t \in Talkers : ~At(t, "idle") ~> Ended(t)

\* retriever.rs: what a prompt recalls is "scoped strictly to project_id".
ScopedStrictly ==
    \A t \in Talkers : At(t, "done") => \A n \in call[t].recalled : n.project = call[t].project
===============================================================================
