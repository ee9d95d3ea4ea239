---------------------------- MODULE MCProcesses ----------------------------
(* Programs the application starts, in three parts: Memory and its engine,  *)
(* NotebookLM and its tools, Launcher and the coding tools.  A behaviour is *)
(* of one part; the others stay as they begin.                              *)
EXTENDS MCMemory

CONSTANTS
  MaxSessions, MaxActions, Actions,
  UserTools, UserEntries, McpFiles, Subjects, Launches, Loads, MaxPid

VARIABLES part, disk, session, made, live, saved, file, tmp, spoilt, snap, entry, proc, locks,
          generation, signingIn, actions,
          tools, mcp, loaded, launch, procs, windows, config, pids

Notebook == INSTANCE NotebookLM
Starter == INSTANCE Launcher WITH Callers <- Launches

ASSUME ProcessesAssumption == Notebook!NotebookAssumption /\ Starter!EntriesAssumption

nbVars == <<disk, session, made, live, saved, file, tmp, spoilt, snap, entry, proc, locks,
            generation, signingIn, actions>>
launchVars == <<tools, mcp, loaded, launch, procs, windows, config, pids>>

Init ==
  /\ part \in {"memory", "notebook", "launcher"}
  /\ MemInit /\ Notebook!NbInit /\ Starter!LaunchInit
  /\ part # "memory" => provider = "mock"
  /\ part # "notebook" =>
       /\ session = 0 /\ live = {} /\ ~disk.cli
       /\ saved.verified = 0 /\ ~saved.signedOut
  /\ disk.cli = disk.mcp /\ entry = disk.mcp
  /\ part # "launcher" => tools = "missing" /\ mcp = {} /\ loaded = Starter!NoModel

Next ==
  \/ part = "memory" /\ MemNext /\ UNCHANGED <<part, nbVars, launchVars>>
  \/ part = "notebook" /\ Notebook!NbNext /\ UNCHANGED <<part, memVars, launchVars>>
  \/ part = "launcher" /\ Starter!LaunchNext /\ UNCHANGED <<part, memVars, nbVars>>

(* MemFair, for the part it is about.                                       *)
Spec ==
  /\ Init /\ [][Next]_<<part, memVars, nbVars, launchVars>>
  /\ \A t \in Talkers : WF_memVars(part = "memory" /\ Turn(t))
  /\ \A c \in Callers : SF_memVars(part = "memory" /\ Rpc(c))

(* What NotebookLM's next start will read is what this run remembers.       *)
RecordKept == Notebook!RecordKept

(* What a start screen announces as handed over is in the tool's config.    *)
AnnouncedIsWritten == Starter!AnnouncedIsWritten

----------------------------------------------------------------------------
(* Tools of the user's own: one that replaces a shipped one, one that fills *)
(* its config as claimed, one that says it takes servers as arguments.      *)
Entry(id, mcpDialect, where) ==
  [id |-> id, complete |-> TRUE, mcp |-> mcpDialect, where |-> where, written |-> "standard",
   floor |-> 0]
MCEntries == {Entry("openclaw", "none", "none"), Entry("mine", "standard", "none"),
              Entry("args", "opencode", "args")}
Server(name, command, url, disabled) ==
  [name |-> name, command |-> command, url |-> url, http |-> TRUE, transport |-> "unset",
   headers |-> FALSE, disabled |-> disabled]
MCMcpFiles == {{}, {Server("local", TRUE, FALSE, FALSE), Server("both", TRUE, TRUE, FALSE),
                    Server("off", TRUE, FALSE, TRUE)}}
MCLoads == {[id |-> "m", ctx |-> 1, trained |-> 4], [id |-> "n", ctx |-> 3, trained |-> 3]}
============================================================================
