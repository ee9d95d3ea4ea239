--------------------------- MODULE ToolDetection ---------------------------
(* The Launch screen and the detection cache behind it                     *)
(* (src-tauri/src/launcher/mod.rs, commands/launcher.rs,                   *)
(* src/pages/Launch.tsx).                                                  *)
(*                                                                         *)
(* Whether a tool is installed takes seconds to find out, so the screen is *)
(* answered from a cache every two seconds and a sweep fills it behind the *)
(* call.  A sweep probes every tool at its own moment and stores all the   *)
(* answers at the end; installs, the Refresh button and the passing of the *)
(* cache's lifetime happen meanwhile.  Replies to polls may overtake each  *)
(* other: the timer does not wait for the previous one.                    *)
EXTENDS Integers, Sequences, FiniteSets

CONSTANTS DetTools,    \* the tools on the screen
          Tasks,       \* blocking tasks that may sweep
          MaxReplies,  \* overviews on their way to the screen at once
          MaxPresses   \* presses of Refresh

DetectionAssumption == MaxReplies \in Nat \ {0} /\ MaxPresses \in Nat

VARIABLES
  onPath,      \* tools whose executable answers its version argument
  entries,     \* the cache: tool -> [state, fresh]
  refreshing,  \* DetectionCache::refreshing
  task,        \* task -> [pc, found, asked]
  installing,  \* tools whose package manager runs: "running" or "landed"
  tracked,     \* LaunchedProcesses: tools a pid is recorded for
  replies,     \* overviews computed and not yet drawn
  card,        \* what the screen shows of each tool
  npm,         \* the package manager: [present, memo]
  presses,
  answered     \* history: what was on the path when a finished press began

detectVars == <<onPath, entries, refreshing, task, installing, tracked, replies,
                card, npm, presses, answered>>

States == {"checking", "notInstalled", "ready", "running"}
Idle == [pc |-> "idle", found |-> <<>>, asked |-> {}]
\* An answer the cache does not hold reads as Checking.
Forgotten == [state |-> "checking", fresh |-> FALSE]

DetectInit ==
  /\ onPath \in SUBSET DetTools
  /\ entries = [t \in DetTools |-> Forgotten]
  /\ refreshing = FALSE
  /\ task = [k \in Tasks |-> Idle]
  /\ installing = [t \in DetTools |-> "no"]
  /\ tracked = {}
  /\ replies = <<>>
  /\ card = [t \in DetTools |-> "checking"]
  /\ npm \in [present : BOOLEAN, memo : {"unasked"}]
  /\ presses = 0 /\ answered = {}

(* detect: a real executable that names itself.                            *)
Detect(t) == IF t \in onPath THEN "ready" ELSE "notInstalled"

(* states: the answer at hand, and whether any of it calls for a sweep.    *)
CachedState(t) == entries[t].state
Stale == \E t \in DetTools : ~entries[t].fresh

(* status_for: a recorded process wins over what was detected.             *)
CardOf(t) == IF t \in tracked THEN "running" ELSE CachedState(t)

(* manager_available: the first answer is kept for the life of the process. *)
AskManager == [npm EXCEPT !.memo = IF @ = "unasked"
                                   THEN IF npm.present THEN "yes" ELSE "no" ELSE @]

(* get_launch_overview: answers from the cache and, when it is stale, hands *)
(* a sweep to a blocking task.                                             *)
Poll ==
  /\ Len(replies) < MaxReplies
  /\ replies' = Append(replies, [t \in DetTools |-> CardOf(t)])
  /\ npm' = AskManager
  /\ \/ /\ ~Stale
        /\ UNCHANGED task
     \/ /\ Stale
        /\ \E k \in Tasks : /\ task[k].pc = "idle"
                            /\ task' = [task EXCEPT ![k].pc = "refresh"]
     \* The bound on tasks: a sweep already on its way stands for this one.
     \/ /\ Stale /\ \A k \in Tasks : task[k].pc # "idle"
        /\ UNCHANGED task
  /\ UNCHANGED <<onPath, entries, refreshing, installing, tracked, card, presses, answered>>

(* The screen draws whichever reply has come back.                         *)
Draw ==
  \E i \in 1..Len(replies) :
    /\ card' = replies[i]
    /\ replies' = SubSeq(replies, 1, i - 1) \o SubSeq(replies, i + 1, Len(replies))
    /\ UNCHANGED <<onPath, entries, refreshing, task, installing, tracked, npm, presses, answered>>

(* redetect_tools: forget everything, then sweep.                          *)
PressRefresh(k) ==
  /\ task[k].pc = "idle" /\ presses < MaxPresses
  /\ presses' = presses + 1
  /\ entries' = [t \in DetTools |-> Forgotten]
  /\ task' = [task EXCEPT ![k] = [pc |-> "refresh", found |-> <<>>, asked |-> onPath]]
  /\ UNCHANGED <<onPath, refreshing, installing, tracked, replies, card, npm, answered>>

(* refresh: one sweep at a time; a second caller returns at once.          *)
Refresh(k) ==
  /\ task[k].pc = "refresh"
  /\ IF refreshing THEN /\ task' = [task EXCEPT ![k] = Idle]
                        /\ answered' = answered \cup task[k].asked
                        /\ UNCHANGED refreshing
     ELSE /\ task' = [task EXCEPT ![k].pc = "probing"]
          /\ refreshing' = TRUE /\ UNCHANGED answered
  /\ UNCHANGED <<onPath, entries, installing, tracked, replies, card, npm, presses>>

(* Each tool is probed in a thread of its own.                             *)
Probe(k) ==
  /\ task[k].pc = "probing"
  /\ \E t \in DetTools \ DOMAIN task[k].found :
       task' = [task EXCEPT ![k].found =
                  [u \in DOMAIN @ \cup {t} |-> IF u = t THEN Detect(t) ELSE @[u]]]
  /\ UNCHANGED <<onPath, entries, refreshing, installing, tracked, replies, card,
                 npm, presses, answered>>

(* Mutant of Store: the flag is not lowered on the way out.                *)
StoreKeepsFlag(k) ==
  /\ task[k].pc = "probing" /\ DOMAIN task[k].found = DetTools
  /\ entries' = [t \in DetTools |-> [state |-> task[k].found[t], fresh |-> TRUE]]
  /\ task' = [task EXCEPT ![k] = Idle] /\ answered' = answered \cup task[k].asked
  /\ UNCHANGED <<onPath, refreshing, installing, tracked, replies, card, npm, presses>>

(* All threads joined: the answers are stored and the flag lowered.        *)
Store(k) ==
  /\ task[k].pc = "probing" /\ DOMAIN task[k].found = DetTools
  /\ entries' = [t \in DetTools |-> [state |-> task[k].found[t], fresh |-> TRUE]]
  /\ refreshing' = FALSE
  /\ task' = [task EXCEPT ![k] = Idle] /\ answered' = answered \cup task[k].asked
  /\ UNCHANGED <<onPath, installing, tracked, replies, card, npm, presses>>

(* The lifetime of the answers runs out (DETECTION_TTL).                   *)
Expire ==
  /\ \E t \in DetTools : entries[t].fresh
  /\ entries' = [t \in DetTools |-> [entries[t] EXCEPT !.fresh = FALSE]]
  /\ UNCHANGED <<onPath, refreshing, task, installing, tracked, replies, card, npm, presses, answered>>

(* handleInstall, install_tool: previewed and offered only where the memo  *)
(* says the manager is there; the manager itself is looked up again.       *)
Install(t) ==
  /\ installing[t] = "no" /\ card[t] = "notInstalled"
  /\ AskManager.memo = "yes" /\ npm' = AskManager
  /\ installing' = [installing EXCEPT ![t] = IF npm.present THEN "running" ELSE @]
  /\ UNCHANGED <<onPath, entries, refreshing, task, tracked, replies, card, presses, answered>>

(* The package manager puts the executable in place, some time before it   *)
(* exits.                                                                  *)
Land(t) ==
  /\ installing[t] = "running"
  /\ onPath' = onPath \cup {t}
  /\ installing' = [installing EXCEPT ![t] = "landed"]
  /\ UNCHANGED <<entries, refreshing, task, tracked, replies, card, npm, presses, answered>>

(* Both pipes are at their end and the exit status is in, good or bad: the *)
(* tool's answer is forgotten either way.                                  *)
InstallEnds(t) ==
  /\ installing[t] \in {"running", "landed"}
  /\ installing' = [installing EXCEPT ![t] = "no"]
  /\ entries' = [entries EXCEPT ![t] = Forgotten]
  /\ UNCHANGED <<onPath, refreshing, task, tracked, replies, card, npm, presses, answered>>

(* The user, in a terminal of their own.                                   *)
UserInstalls(t) ==
  /\ t \notin onPath /\ onPath' = onPath \cup {t}
  /\ UNCHANGED <<entries, refreshing, task, installing, tracked, replies, card, npm, presses, answered>>

(* launch_tool records a process; Stop, or finding its window gone, forgets it. *)
Track(t) ==
  /\ t \in onPath /\ t \notin tracked /\ tracked' = tracked \cup {t}
  /\ UNCHANGED <<onPath, entries, refreshing, task, installing, replies, card, npm, presses, answered>>

Stop(t) ==
  /\ t \in tracked /\ tracked' = tracked \ {t}
  /\ UNCHANGED <<onPath, entries, refreshing, task, installing, replies, card, npm, presses, answered>>

DetectNext ==
  \/ Poll \/ Draw \/ Expire
  \/ \E k \in Tasks : PressRefresh(k) \/ Refresh(k) \/ Probe(k) \/ Store(k)
  \/ \E t \in DetTools : Install(t) \/ Land(t) \/ InstallEnds(t) \/ UserInstalls(t)
                         \/ Track(t) \/ Stop(t)

(* The screen stays open and polls; blocking tasks get a thread; replies   *)
(* are delivered; time passes.  That a tool asked for its version ever     *)
(* answers is not assumed: detect waits for it without a deadline.         *)
DetectFair ==
  /\ WF_detectVars(Poll) /\ WF_detectVars(Draw) /\ WF_detectVars(Expire)
  /\ \A k \in Tasks : WF_detectVars(Refresh(k)) /\ WF_detectVars(Store(k))

DetectSpec == DetectInit /\ [][DetectNext]_detectVars /\ DetectFair
-----------------------------------------------------------------------------
DetectTypeOK ==
  /\ onPath \subseteq DetTools /\ tracked \subseteq DetTools
  /\ entries \in [DetTools -> [state : States, fresh : BOOLEAN]]
  /\ card \in [DetTools -> States]

(* While no probe hangs for good, a tool that is there is eventually       *)
(* shown, however its arrival fell between a probe, the store that follows *)
(* it and the forgetting that an install or the Refresh button does.       *)
ProbesEnd == \A k \in Tasks : []<>(task[k].pc # "probing")
InstalledIsShown ==
  ProbesEnd => \A t \in DetTools : (t \in onPath) ~> (card[t] \in {"ready", "running"})

(* "Refresh has to mean refresh" (launcher/mod.rs:218), and the press is   *)
(* blocking: when it has returned, no cached answer denies a tool that was *)
(* there when it was pressed.                                              *)
RefreshIsFresh == \A t \in answered : CachedState(t) # "notInstalled"
=============================================================================
