----------------------------- MODULE MCScreens -----------------------------
(* Four screens, one at a time: AdapterRows installs what was ticked,       *)
(* Storage lists what is on disk, Discover what the Hub has, ToolDetection  *)
(* the coding tools that are installed.  A behaviour is of one part; the    *)
(* others stay as they begin.                                               *)
EXTENDS AdapterRows, Discover

CONSTANTS
  Models, Headers, Present, Refreshes, Handlers,
  DetTools, Probers, MaxReplies, MaxPresses

VARIABLES
  part,
  disk, scanning, last, scans, call, refresh, latest, alive, shown, removal,
  download, events, subscribed, listing, bar,
  onPath, entries, sweeping, task, installing, tracked, replies, card, npm, presses, answered

Shelves == INSTANCE Storage WITH task <- download
Detection == INSTANCE ToolDetection WITH refreshing <- sweeping, Tasks <- Probers

ASSUME /\ Shelves!StorageAssumption /\ DiscoverAssumption
       /\ Detection!DetectionAssumption

storageVars == <<disk, scanning, last, scans, call, refresh, latest, alive, shown,
                 removal, download, events, subscribed, listing, bar>>
detectVars == <<onPath, entries, sweeping, task, installing, tracked, replies, card, npm,
                presses, answered>>

Init ==
  /\ part \in {"rows", "storage", "discover", "detection"}
  /\ RowsInit /\ Shelves!StorageInit /\ DiscoverInit /\ Detection!DetectInit
  /\ part # "storage" => \A t \in Shelves!Tasks : download[t] = "none"
  /\ part # "discover" => ~stale
  /\ part # "detection" => onPath = {} /\ ~npm.present

Next ==
  \/ part = "rows" /\ RowsNext /\ UNCHANGED <<part, storageVars, discoverVars, detectVars>>
  \/ /\ part = "storage" /\ Shelves!StorageNext
     /\ UNCHANGED <<part, rowsVars, discoverVars, detectVars>>
  \/ /\ part = "discover" /\ DiscoverNext
     /\ UNCHANGED <<part, rowsVars, storageVars, detectVars>>
  \/ /\ part = "detection" /\ Detection!DetectNext
     /\ UNCHANGED <<part, rowsVars, storageVars, discoverVars>>

(* RowsFair and DetectFair, each for the part it is about.                  *)
Spec ==
  /\ Init /\ [][Next]_<<part, rowsVars, storageVars, discoverVars, detectVars>>
  /\ \A l \in Loops : WF_rowsVars(part = "rows" /\ ~Awaiting(l) /\ Step(l))
  /\ WF_detectVars(part = "detection" /\ Detection!Poll)
  /\ WF_detectVars(part = "detection" /\ Detection!Draw)
  /\ WF_detectVars(part = "detection" /\ Detection!Expire)
  /\ \A k \in Probers : /\ WF_detectVars(part = "detection" /\ Detection!Refresh(k))
                      /\ WF_detectVars(part = "detection" /\ Detection!Store(k))

(* The Storage screen never goes back to an older scan.                     *)
ShownNeverOlder == Shelves!ShownNeverOlder

(* A tool that is there is eventually shown, while no probe hangs.          *)
InstalledIsShown ==
  Detection!ProbesEnd =>
    \A t \in DetTools : (part = "detection" /\ t \in onPath) ~> (card[t] \in {"ready", "running"})

----------------------------------------------------------------------------
MCPages == {<<"a", "b">>}

(* A dense model that is there, and a mixture on its way.                   *)
Header(n) == [readable |-> TRUE, role |-> "model", pooling |-> FALSE, vision |-> FALSE,
              visionName |-> FALSE, experts |-> n]
MCHeaders == [m \in Models |-> Header(IF m = "m" THEN 0 ELSE 4)]

============================================================================
