------------------------------ MODULE Launcher ------------------------------
(* Starting a coding tool against the loaded model                         *)
(* (src-tauri/src/launcher/, commands/launcher.rs).                        *)
(*                                                                         *)
(* A launch is one command, but not one step: it captures the loaded model *)
(* at the start, asks whether the tool already runs, may have the model    *)
(* reloaded with a larger context - twice - reads the MCP registry, writes *)
(* the tool's config and start screen and opens a console window, and only *)
(* then records the process.  Other launches, the user closing windows and *)
(* the model being loaded or unloaded by the rest of the application go on *)
(* in between.  On Windows the pid received is that of a wrapper that is   *)
(* soon gone, and the window is found by a title its script sets later.    *)
(*                                                                         *)
(* Contexts are in units of 8,192 tokens.                                  *)
EXTENDS Integers, FiniteSets

CONSTANTS UserTools,   \* what tools.json may hold: "missing", "malformed" or "listed"
          UserEntries, \* the entries it lists, when it does
          McpFiles,    \* contents mcp.json may have, each a set of servers
          Subjects,    \* ids of the tools that are launched
          Callers,     \* launch commands in progress at once
          Loads,       \* models the user may load, as planned: [id, ctx, trained]
          MaxPid       \* processes started

AgentBase == 2    \* AGENT_BASE, 16384
PerServer == 1    \* PER_SERVER, 8192
NoModel == [id |-> "none", ctx |-> 0, trained |-> 0]
NoTool == [id |-> "none"]

(* The shipped tools: how each reads MCP servers, where its config puts    *)
(* them, the context below which it refuses to run and how it is found.    *)
ClaudeCode == [id |-> "claude-code", complete |-> TRUE, mcp |-> "standard",
               where |-> "json", written |-> "standard", floor |-> 0]
Opencode   == [id |-> "opencode", complete |-> TRUE, mcp |-> "opencode",
               where |-> "json", written |-> "opencode", floor |-> 0]
Hermes     == [id |-> "hermes-agent", complete |-> TRUE, mcp |-> "hermes",
               where |-> "yamlBlock", written |-> "hermes", floor |-> 0]
OpenClaw   == [id |-> "openclaw", complete |-> TRUE, mcp |-> "openclaw",
               where |-> "json", written |-> "openclaw", floor |-> 2]
BuiltinTools == {ClaudeCode, Opencode, Hermes, OpenClaw}

(* Whether the config substitutes MCP servers at all: a placeholder in the *)
(* config, in either spelling and wherever on its line, or in an argument. *)
SubstitutesMcp(spec) == spec.where # "none"

(* A user's entry is parsed into one of the dialects and has a config that *)
(* puts the servers somewhere, in a dialect of its own, or nowhere.        *)
EntriesAssumption ==
  \A e \in UserEntries :
    /\ e.where \in {"json", "yamlBlock", "yamlInline", "args", "none"}
    /\ e.where \in {"json", "yamlBlock"} => e.written # "none"

(* Mutant of ValidSpec: declaring support is taken at its word.            *)
ValidSpecTrusting(spec) == spec.complete

(* ToolSpec::validate: nothing missing, and support declared exactly when  *)
(* servers are substituted.                                                *)
ValidSpec(spec) == spec.complete /\ (spec.mcp # "none" <=> SubstitutesMcp(spec))

(* registry::merge and load: valid entries replace a shipped tool of the   *)
(* same id or are added; a file that does not parse is as good as none.    *)
Registry(file) ==
  LET listed == IF file = "listed" THEN {e \in UserEntries : ValidSpec(e)} ELSE {}
  IN  listed \cup {b \in BuiltinTools : \A e \in listed : e.id # b.id}

-----------------------------------------------------------------------------
(* MCP servers: [name, command, url, http, transport, headers, disabled].  *)
Transport(s) == IF s.transport # "unset" THEN s.transport
                ELSE IF s.command THEN "stdio" ELSE "http"

(* McpServerSpec::validate.                                                *)
ValidServer(s) ==
  /\ s.name # ""
  /\ s.command # s.url
  /\ Transport(s) = "stdio" => ~s.url /\ ~s.headers
  /\ Transport(s) # "stdio" => ~s.command
  /\ s.url => s.http

(* load, from_str: the valid entries that are not turned off; a missing or *)
(* malformed file gives none.                                              *)
Servers(file) == {s \in file : ValidServer(s) /\ ~s.disabled}

(* McpDialect::supports: every dialect has a place for every transport, so *)
(* render drops nothing and unrepresentable is empty.                      *)
Supports(dialect, transport) == dialect # "none" /\ transport \in {"stdio", "sse", "http"}
Rendered(dialect, servers) == {s.name : s \in {x \in servers : Supports(dialect, Transport(x))}}

(* mcp_delivery: what the start screen announces as handed over.           *)
Delivered(spec, servers) == IF spec.mcp = "none" THEN {} ELSE Rendered(spec.mcp, servers)

(* fill_placeholders_with, fill_yaml_mcp: what the tool is really given.   *)
(* The YAML placeholder is only replaced where it stands alone on a line,  *)
(* and an argument is filled in the standard dialect.                      *)
Written(spec, servers) ==
  CASE spec.where \in {"json", "yamlBlock"} ->
         [dialect |-> spec.written, names |-> Rendered(spec.written, servers)]
    [] spec.where = "args" -> [dialect |-> "standard", names |-> Rendered("standard", servers)]
    [] OTHER -> [dialect |-> spec.written, names |-> {}]

(* preferred_context: room for the definitions of every delivered server.  *)
PreferredContext(spec, servers) ==
  IF spec.mcp = "none" THEN 0
  ELSE AgentBase + PerServer * Cardinality(Delivered(spec, servers))

-----------------------------------------------------------------------------
VARIABLES
  tools,     \* tools.json
  mcp,       \* mcp.json
  loaded,    \* the model the runtime holds
  launch,    \* caller -> the launch command it is in
  procs,     \* LaunchedProcesses: tool -> pid recorded, 0 for none
  windows,   \* consoles of started tools: [tool, pid, titled, wrapper]
  config,    \* tool -> what its config on disk says: [ctx, model, floor]
  pids

launchVars == <<tools, mcp, loaded, launch, procs, windows, config, pids>>

Free == [pc |-> "idle", tool |-> NoTool, model |-> NoModel, pid |-> 0, said |-> {}]
Unwritten == [tool |-> NoTool, model |-> NoModel, said |-> {}, servers |-> {}]

LaunchInit ==
  /\ tools \in UserTools /\ mcp \in McpFiles
  /\ loaded \in Loads \cup {NoModel}
  /\ launch = [c \in Callers |-> Free]
  /\ procs = [i \in Subjects |-> 0]
  /\ windows = {}
  /\ config = [i \in Subjects |-> Unwritten]
  /\ pids = 0

Goto(c, pc) == launch' = [launch EXCEPT ![c].pc = pc]
End(c) == launch' = [launch EXCEPT ![c] = Free]

(* launch_tool, to the live_pid check: a model, a spec, a recorded process *)
(* to ask about or none.                                                   *)
LaunchTool(c) ==
  /\ launch[c].pc = "idle" /\ loaded # NoModel
  /\ \E spec \in {r \in Registry(tools) : r.id \in Subjects} :
       launch' = [launch EXCEPT ![c] =
         [Free EXCEPT !.pc = IF procs[spec.id] # 0 THEN "alive" ELSE "floor",
                      !.tool = spec, !.model = loaded, !.pid = procs[spec.id]]]
  /\ UNCHANGED <<tools, mcp, loaded, procs, windows, config, pids>>

(* live_pid: by the window's title, or by the pid.  Nothing found means    *)
(* the entry - whichever is there by now - is dropped.                     *)
Found(c) == \E w \in windows :
  \/ w.tool = launch[c].tool.id /\ w.titled
  \/ w.pid = launch[c].pid /\ w.wrapper
CheckAlive(c) ==
  /\ launch[c].pc = "alive"
  /\ IF Found(c) THEN End(c) /\ UNCHANGED procs
     ELSE /\ procs' = [procs EXCEPT ![launch[c].tool.id] = 0]
          /\ Goto(c, "floor")
  /\ UNCHANGED <<tools, mcp, loaded, windows, config, pids>>

(* load_installed_model_internal as the two reloads use it: the runtime's  *)
(* model again with a context in `wanted`, at its planned context when the *)
(* reload failed and the restore did not, or gone when both failed.        *)
Planned(id) == CHOOSE m \in Loads : m.id = id
Reloaded(wanted) == {[loaded EXCEPT !.ctx = ctx] : ctx \in wanted}
Continue(c, pc, model) == launch' = [launch EXCEPT ![c].pc = pc, ![c].model = model]

(* ensure_context_at_least, when the captured model is below the floor:    *)
(* the model there is by now, reloaded with enough, or the launch fails.   *)
MeetFloor(c) ==
  /\ launch[c].pc = "floor"
  /\ LET floor == launch[c].tool.floor
         short == loaded # NoModel /\ loaded.ctx < floor
     IN \/ /\ launch[c].model.ctx >= floor
           /\ Goto(c, "room") /\ UNCHANGED loaded
        \/ /\ launch[c].model.ctx < floor
           /\ \/ /\ loaded # NoModel /\ ~short
                 /\ Continue(c, "room", loaded) /\ UNCHANGED loaded
              \/ /\ short /\ loaded.trained >= floor
                 /\ loaded' \in Reloaded(floor..loaded.trained)
                 /\ Continue(c, "room", loaded')
              \/ /\ short /\ loaded.trained >= floor /\ End(c)
                 /\ loaded' \in Reloaded(1..(floor - 1)) \cup {Planned(loaded.id), NoModel}
              \/ /\ loaded = NoModel \/ (short /\ loaded.trained < floor)
                 /\ End(c) /\ UNCHANGED loaded
  /\ UNCHANGED <<tools, mcp, procs, windows, config, pids>>

(* grow_context_towards: a preference.  What it reached, or what it put    *)
(* back, is used; only when there is no model left does the launch go on   *)
(* with the one it captured.                                               *)
MakeRoom(c) ==
  /\ launch[c].pc = "room"
  /\ LET wanted == PreferredContext(launch[c].tool, Servers(mcp))
         target == IF loaded.trained < wanted THEN loaded.trained ELSE wanted
     IN \/ /\ launch[c].model.ctx >= wanted \/ loaded = NoModel
           /\ Goto(c, "start") /\ UNCHANGED loaded
        \/ /\ launch[c].model.ctx < wanted /\ loaded # NoModel
           /\ \/ /\ loaded.ctx >= target
                 /\ Continue(c, "start", loaded) /\ UNCHANGED loaded
              \/ /\ loaded.ctx < target
                 /\ loaded' \in Reloaded(loaded.ctx..target) \cup {Planned(loaded.id)}
                 /\ Continue(c, "start", loaded')
              \/ /\ loaded.ctx < target
                 /\ loaded' = NoModel /\ Goto(c, "start")
  /\ UNCHANGED <<tools, mcp, procs, windows, config, pids>>

(* launcher::launch: the config and the start screen are written afresh    *)
(* and the console opened, or something on the way fails.                  *)
Start(c) ==
  /\ launch[c].pc = "start"
  /\ LET l == launch[c]
         servers == Servers(mcp)
     IN \/ /\ pids < MaxPid
           /\ pids' = pids + 1
           /\ config' = [config EXCEPT ![l.tool.id] =
                [tool |-> l.tool, model |-> l.model, said |-> Delivered(l.tool, servers),
                 servers |-> servers]]
           /\ windows' = windows \cup
                {[tool |-> l.tool.id, pid |-> pids', titled |-> FALSE, wrapper |-> TRUE]}
           /\ launch' = [launch EXCEPT ![c].pc = "record", ![c].pid = pids']
        \/ End(c) /\ UNCHANGED <<config, windows, pids>>
  /\ UNCHANGED <<tools, mcp, loaded, procs>>

Record(c) ==
  /\ launch[c].pc = "record"
  /\ procs' = [procs EXCEPT ![launch[c].tool.id] = launch[c].pid]
  /\ End(c)
  /\ UNCHANGED <<tools, mcp, loaded, windows, config, pids>>

(* forget_tool_process, the card's Stop: the console is left alone.        *)
Forget(i) ==
  /\ procs[i] # 0 /\ procs' = [procs EXCEPT ![i] = 0]
  /\ UNCHANGED <<tools, mcp, loaded, launch, windows, config, pids>>

(* The machine: `start` exits once it has handed the script over, the      *)
(* script names its window, the user closes it.                            *)
WrapperExits(w) ==
  /\ w.wrapper /\ windows' = (windows \ {w}) \cup {[w EXCEPT !.wrapper = FALSE]}
  /\ UNCHANGED <<tools, mcp, loaded, launch, procs, config, pids>>
ScriptTitles(w) ==
  /\ ~w.titled /\ windows' = (windows \ {w}) \cup {[w EXCEPT !.titled = TRUE]}
  /\ UNCHANGED <<tools, mcp, loaded, launch, procs, config, pids>>
CloseWindow(w) ==
  /\ windows' = windows \ {w}
  /\ UNCHANGED <<tools, mcp, loaded, launch, procs, config, pids>>

(* The rest of the application and the user's editor.                      *)
ChangeModel ==
  /\ loaded' \in (Loads \cup {NoModel}) \ {loaded}
  /\ UNCHANGED <<tools, mcp, launch, procs, windows, config, pids>>
EditFiles ==
  /\ tools' \in UserTools /\ mcp' \in McpFiles
  /\ UNCHANGED <<loaded, launch, procs, windows, config, pids>>

LaunchNext ==
  \/ \E c \in Callers : LaunchTool(c) \/ CheckAlive(c) \/ MeetFloor(c) \/ MakeRoom(c)
                        \/ Start(c) \/ Record(c)
  \/ \E i \in Subjects : Forget(i)
  \/ \E w \in windows : WrapperExits(w) \/ ScriptTitles(w) \/ CloseWindow(w)
  \/ ChangeModel \/ EditFiles

LaunchSpec == LaunchInit /\ [][LaunchNext]_launchVars
-----------------------------------------------------------------------------
(* What a start screen announces as handed over is in the config, for      *)
(* every shipped tool and for a user's own one, except where the config is *)
(* inline YAML.                                                            *)
AnnouncedIsWritten ==
  \A i \in Subjects :
    LET c == config[i] IN
      (c # Unwritten /\ c.tool.where # "yamlInline" /\ c.tool.mcp # "none") =>
         c.said \subseteq Written(c.tool, c.servers).names

(* "A tool that refuses to run below a context floor of its own gets it    *)
(* met before anything is written or started"                              *)
(* (commands/launcher.rs:268-269).                                         *)
FloorIsMet ==
  \A i \in Subjects : config[i] # Unwritten => config[i].model.ctx >= config[i].tool.floor
=============================================================================
