-------------------------------- MODULE Storage --------------------------------
(* What is on disk and what the Storage screen says is on disk: the one scan    *)
(* that every caller shares (model_manager/store.rs), deletion and downloads    *)
(* changing the disk under it, the screen's refreshes (Storage.tsx) and the     *)
(* download bars fed by a listing and by events (useDownloads.ts).              *)
EXTENDS Naturals, Sequences, FiniteSets, SequencesExt, Functions

CONSTANTS
    Models,     \* packages, on disk or being downloaded
    Headers,    \* Headers[m]: what the GGUF header of m says
    Present,    \* the packages on disk at the start; each other one is a download
    Refreshes,  \* bound: the refreshes the screen may start
    Handlers    \* bound: the deletions and loads under way at once

StorageAssumption == Handlers \in Nat /\ Present \subseteq Models /\ DOMAIN Headers = Models

Tasks == Models \ Present
Commands == {"get_installed_models", "get_storage_summary"}
Calls == Refreshes \X Commands
Free == <<>>
Nobody == "nobody"

VARIABLES
    disk,       \* what is in each package's directory
    scanning,   \* the call that holds ModelStore.scanning
    last,       \* ModelStore.last, and the calls already asked when it was written
    scans,      \* scans finished
    call,       \* the commands in progress
    refresh,    \* each refresh of the screen
    latest,     \* latestRefresh
    alive,      \* the screen is mounted
    shown,      \* models: what the screen lists, and the scan it came from
    removal,    \* how far the deletion, or the loading, of each package has got
    task,       \* DownloadManager.tasks
    events,     \* download:progress events on their way to the screen
    subscribed, \* listenDownloadProgress has registered its handler
    listing,    \* get_active_downloads, answered and not yet received
    bar         \* useDownloads' rows

storageVars == <<disk, scanning, last, scans, call, refresh, latest, alive, shown, removal,
                 task, events, subscribed, listing, bar>>
screenVars == <<latest, alive, shown>>
barVars == <<task, events, subscribed, listing, bar>>
scanVars == <<scanning, last, scans>>

----------------------------------------------------------------------------
(* The shelf a file belongs on: classify and ModelGroup.                       *)

Multimodal(h) == h.vision \/ h.visionName
Shelf(h) ==
    IF ~h.readable THEN "unknown"
    ELSE IF h.role # "model" THEN "auxiliary"
    ELSE IF h.pooling THEN "embedding"
    ELSE IF Multimodal(h) THEN "vision"
    ELSE IF h.experts > 0 THEN "mixture-of-experts"
    ELSE "dense"
IsLoadable(m) == Shelf(Headers[m]) \in {"mixture-of-experts", "dense", "vision"}

NoScan == [is |-> FALSE, models |-> {}, scan |-> 0, for |-> {}]
NoCall == [pc |-> "off", todo |-> {}, found |-> {}, scan |-> 0, gone |-> {}, came |-> {}]
NoRefresh == [pc |-> "unused", ticket |-> 0, after |-> Nobody]
Unasked == [pc |-> "unasked", rows |-> [t \in Tasks |-> "none"]]

StorageTypeOK ==
    /\ disk \in [Models -> {"absent", "installed", "gone"}]
    /\ scanning \in Calls \cup {Free}
    /\ last.models \subseteq Models /\ last.for \subseteq Calls
    /\ \A c \in Calls : call[c].pc \in {"off", "waiting", "walking", "answered"}
    /\ shown.models \subseteq Models /\ shown.scan <= scans
    /\ bar \in [Tasks -> {"none", "Downloading", "Completed"}]

\* The screen opens: its first refresh and the bars' own listing are under way.
StorageInit ==
    /\ disk = [m \in Models |-> IF m \in Present THEN "installed" ELSE "absent"]
    /\ scanning = Free /\ last = NoScan /\ scans = 0
    /\ call = [c \in Calls |-> NoCall]
    /\ refresh = [r \in Refreshes |-> NoRefresh]
    /\ latest = 0 /\ alive = TRUE /\ shown = [models |-> {}, scan |-> 0]
    /\ removal = [m \in Models |-> "none"]
    /\ task \in [Tasks -> {"none", "Downloading"}]
    /\ events = <<>> /\ subscribed = FALSE /\ listing = Unasked
    /\ bar = [t \in Tasks |-> "none"]

----------------------------------------------------------------------------
(* ModelStore.listing.                                                         *)

Deleted == {m \in Models : removal[m] \in {"told", "refreshing", "over"}}
Arrived == {m \in Tasks : task[m] = "Completed"}

\* The call finds its turn and has to scan: nothing finished while it waited.
StartScan(c) ==
    /\ call[c].pc = "waiting" /\ scanning = Free /\ c \notin last.for
    /\ scanning' = c
    /\ call' = [call EXCEPT ![c].pc = "walking", ![c].todo = Models, ![c].found = {}]
    /\ UNCHANGED <<disk, last, scans, refresh, screenVars, removal, barVars>>

\* read_package, in whatever order the directory lists them.
Walk(c, m) ==
    /\ call[c].pc = "walking" /\ m \in call[c].todo
    /\ call' = [call EXCEPT ![c].todo = @ \ {m},
                            ![c].found = IF disk[m] = "installed" THEN @ \cup {m} ELSE @]
    /\ UNCHANGED <<disk, scanVars, refresh, screenVars, removal, barVars>>

FinishScan(c) ==
    /\ call[c].pc = "walking" /\ call[c].todo = {}
    /\ scanning' = Free
    /\ scans' = scans + 1
    /\ last' = [is |-> TRUE, models |-> call[c].found, scan |-> scans + 1,
                for |-> {d \in Calls : call[d].pc = "waiting"}]
    /\ call' = [call EXCEPT ![c].pc = "answered", ![c].scan = scans + 1]
    /\ UNCHANGED <<disk, refresh, screenVars, removal, barVars>>

\* A scan finished while this call waited: its answer serves.
Reuse(c) ==
    /\ call[c].pc = "waiting" /\ scanning = Free /\ c \in last.for
    /\ call' = [call EXCEPT ![c].pc = "answered", ![c].found = last.models, ![c].scan = last.scan]
    /\ UNCHANGED <<disk, scanVars, refresh, screenVars, removal, barVars>>

----------------------------------------------------------------------------
(* The screen.                                                                 *)

\* refresh: a ticket, and both commands at once; a handler may wait for it.
Asked(r, handler) ==
    /\ refresh[r].pc = "unused"
    /\ latest' = latest + 1
    /\ refresh' = [refresh EXCEPT ![r] = [pc |-> "out", ticket |-> latest + 1, after |-> handler]]
    /\ call' = [c \in Calls |->
                   IF c[1] = r THEN [NoCall EXCEPT !.pc = "waiting", !.gone = Deleted, !.came = Arrived]
                   ELSE call[c]]

OpenScreen(r) ==
    /\ alive /\ latest = 0
    /\ Asked(r, Nobody)
    /\ UNCHANGED <<disk, scanVars, alive, shown, removal, barVars>>

\* The Refresh button, once the page is drawn; the end of handleUnload.
RefreshNow(r) ==
    /\ alive /\ shown.scan > 0
    /\ Asked(r, Nobody)
    /\ UNCHANGED <<disk, scanVars, alive, shown, removal, barVars>>

Answered(r) == refresh[r].pc = "out" /\ \A k \in Commands : call[<<r, k>>].pc = "answered"

\* Mutant of Current: any reply is shown.
AnyReply(r) == alive

\* current(): the screen is still there and no newer refresh was started.
Current(r) == alive /\ refresh[r].ticket = latest

\* Both replies are in; a deletion or a load that waited for them is over.
Reply(r) ==
    /\ Answered(r)
    /\ refresh' = [refresh EXCEPT ![r].pc = "done"]
    /\ call' = [c \in Calls |-> IF c[1] = r THEN NoCall ELSE call[c]]
    /\ LET c == <<r, "get_installed_models">> IN
       shown' = IF Current(r) THEN [models |-> call[c].found, scan |-> call[c].scan] ELSE shown
    /\ removal' = [m \in Models |-> IF m # refresh[r].after THEN removal[m]
                                    ELSE IF removal[m] = "refreshing" THEN "over" ELSE "none"]
    /\ UNCHANGED <<disk, scanVars, latest, alive, barVars>>

\* A package that is listed, and not being deleted or loaded.  The buttons of a
\* row are locked while its handler runs, but any handler that ends, one of an
\* adapter too, unlocks them all: rows do not wait for each other.
Offered(m) ==
    /\ alive /\ m \in shown.models /\ removal[m] = "none"
    /\ Cardinality({n \in Models : removal[n] \notin {"none", "over"}}) < Handlers

\* handleDeleteModel, confirmed.
AskDelete(m) ==
    /\ Offered(m)
    /\ removal' = [removal EXCEPT ![m] = "deleting"]
    /\ UNCHANGED <<disk, scanVars, call, refresh, screenVars, barVars>>

\* remove_dir_all; one that fails shows a toast and refreshes nothing.
RemoveFiles(m) ==
    /\ removal[m] = "deleting"
    /\ \/ /\ disk' = [disk EXCEPT ![m] = "gone"]
          /\ removal' = [removal EXCEPT ![m] = "removed"]
       \/ /\ removal' = [removal EXCEPT ![m] = "none"]
          /\ UNCHANGED disk
    /\ UNCHANGED <<scanVars, call, refresh, screenVars, barVars>>

\* store.invalidate(), and the command returns.
Invalidate(m) ==
    /\ removal[m] = "removed"
    /\ last' = NoScan
    /\ removal' = [removal EXCEPT ![m] = "told"]
    /\ UNCHANGED <<disk, scanning, scans, call, refresh, screenVars, barVars>>

\* handleLoad: only a file that is a model can be loaded.
AskLoad(m) ==
    /\ Offered(m) /\ IsLoadable(m)
    /\ removal' = [removal EXCEPT ![m] = "loading"]
    /\ UNCHANGED <<disk, scanVars, call, refresh, screenVars, barVars>>

LoadReturns(m) ==
    /\ removal[m] = "loading"
    /\ \E outcome \in {"loaded", "none"} : removal' = [removal EXCEPT ![m] = outcome]
    /\ UNCHANGED <<disk, scanVars, call, refresh, screenVars, barVars>>

\* The refresh that follows a deletion or a load, and is awaited, whether the
\* screen is still there or not.
RefreshAfter(m, r) ==
    /\ removal[m] \in {"told", "loaded"}
    /\ Asked(r, m)
    /\ removal' = [removal EXCEPT ![m] = IF @ = "told" THEN "refreshing" ELSE "relisting"]
    /\ UNCHANGED <<disk, scanVars, alive, shown, barVars>>

\* Unmounting makes every refresh still out lose its claim.
CloseScreen ==
    /\ alive
    /\ alive' = FALSE /\ latest' = latest + 1 /\ subscribed' = FALSE
    /\ UNCHANGED <<disk, scanVars, call, refresh, shown, removal, task, events, listing, bar>>

----------------------------------------------------------------------------
(* Downloads and their bars.                                                   *)

Emit(t, status) == events' = Append(events, [task |-> t, status |-> status])

StartDownload(t) ==
    /\ task[t] = "none" /\ disk[t] = "absent"
    /\ task' = [task EXCEPT ![t] = "Downloading"]
    /\ Emit(t, "Downloading")
    /\ UNCHANGED <<disk, scanVars, call, refresh, screenVars, removal, subscribed, listing, bar>>

FinishDownload(t) ==
    /\ task[t] = "Downloading"
    /\ disk' = [disk EXCEPT ![t] = "installed"]
    /\ task' = [task EXCEPT ![t] = "Completed"]
    /\ Emit(t, "Completed")
    /\ UNCHANGED <<scanVars, call, refresh, screenVars, removal, subscribed, listing, bar>>

CancelDownload(t) ==
    /\ task[t] = "Downloading"
    /\ task' = [task EXCEPT ![t] = "Cancelled"]
    /\ Emit(t, "Cancelled")
    /\ UNCHANGED <<disk, scanVars, call, refresh, screenVars, removal, subscribed, listing, bar>>

\* listen() is asynchronous: the handler exists some time after the mount.
Subscribe ==
    /\ alive /\ ~subscribed
    /\ subscribed' = TRUE
    /\ UNCHANGED <<disk, scanVars, call, refresh, screenVars, removal, task, events, listing, bar>>

\* get_active_downloads is answered; a cancelled task has left the table.
ListTasks ==
    /\ alive /\ listing.pc = "unasked"
    /\ listing' = [pc |-> "answered",
                   rows |-> [t \in Tasks |-> IF task[t] = "Cancelled" THEN "none" ELSE task[t]]]
    /\ UNCHANGED <<disk, scanVars, call, refresh, screenVars, removal, task, events, subscribed, bar>>

\* The listing is laid over the bars already there.
Laid(rows) == [t \in Tasks |-> IF rows[t] = "none" THEN bar[t] ELSE rows[t]]

ReceiveListing ==
    /\ alive /\ listing.pc = "answered"
    /\ listing' = [listing EXCEPT !.pc = "received"]
    /\ bar' = Laid(listing.rows)
    /\ UNCHANGED <<disk, scanVars, call, refresh, screenVars, removal, task, events, subscribed>>

\* An event without a handler is lost; the first Completed of a row refreshes.
Deliver ==
    /\ events # <<>>
    /\ events' = Tail(events)
    /\ LET e == Head(events) IN
       IF ~subscribed THEN UNCHANGED <<bar, call, refresh, latest>>
       ELSE /\ bar' = [bar EXCEPT ![e.task] = IF e.status = "Cancelled" THEN "none" ELSE e.status]
            /\ IF e.status = "Completed" /\ bar[e.task] # "Completed"
               THEN \/ \E r \in Refreshes : Asked(r, Nobody)
                    \/ (\A r \in Refreshes : refresh[r].pc # "unused") /\ UNCHANGED <<call, refresh, latest>>
               ELSE UNCHANGED <<call, refresh, latest>>
    /\ UNCHANGED <<disk, scanVars, alive, shown, removal, task, subscribed, listing>>

----------------------------------------------------------------------------

ScanStep(c) == StartScan(c) \/ FinishScan(c) \/ Reuse(c) \/ \E m \in Models : Walk(c, m)

StorageNext ==
    \/ \E c \in Calls : ScanStep(c)
    \/ \E r \in Refreshes : OpenScreen(r) \/ RefreshNow(r) \/ Reply(r)
    \/ \E m \in Models : AskDelete(m) \/ RemoveFiles(m) \/ Invalidate(m) \/ AskLoad(m) \/ LoadReturns(m)
    \/ \E m \in Models, r \in Refreshes : RefreshAfter(m, r)
    \/ CloseScreen
    \/ \E t \in Tasks : StartDownload(t) \/ FinishDownload(t) \/ CancelDownload(t)
    \/ Subscribe \/ ListTasks \/ ReceiveListing \/ Deliver

\* tokio's mutex is fair and a scan ends; replies are delivered.
StorageFair ==
    /\ \A c \in Calls : WF_storageVars(ScanStep(c))
    /\ \A r \in Refreshes : WF_storageVars(Reply(r))
    /\ \A m \in Models : WF_storageVars(RemoveFiles(m) \/ Invalidate(m) \/ LoadReturns(m))

StorageSpec == StorageInit /\ [][StorageNext]_storageVars /\ StorageFair

----------------------------------------------------------------------------
(* Properties.                                                                 *)

\* The screen never goes back to an older look at the disk, in whatever order
\* the replies to overlapping refreshes arrive (Storage.tsx, latestRefresh).
ShownNeverOlder == [][shown'.scan >= shown.scan]_storageVars

\* A call made after a deletion was answered is not told the model is there
\* (commands/download.rs: "the next look must not be answered from the scan
\* taken before the deletion").
DeletedIsGone ==
    \A c \in Calls : call[c].pc = "answered" => call[c].found \cap call[c].gone = {}

\* With every event and listing received, each bar says what its download does
\* (useDownloads.ts: "the event stream keeps them accurate regardless").
BarsAreAccurate ==
    alive /\ subscribed /\ events = <<>> /\ listing.pc = "received" =>
        \A t \in Tasks : bar[t] = (IF task[t] = "Cancelled" THEN "none" ELSE task[t])
=============================================================================
