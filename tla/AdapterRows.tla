----------------------------- MODULE AdapterRows -----------------------------
(* Finding and installing adapters from the screens: the drawer of Discover     *)
(* (Browse.tsx) with its default selection, and the rows of Storage             *)
(* (Storage.tsx) that install one after another while others are removed.       *)
EXTENDS Naturals, Sequences, FiniteSets, SequencesExt

CONSTANTS
    Pages,      \* what a lookup may find: sequences of adapters
    Suggested,  \* adapters that install without conversion
    Blocked,    \* adapters that cannot be installed
    Loops,      \* runs of runInstalls or installSelected
    Reloads     \* bound: lookups after the first

Adapters == UNION {ToSet(p) : p \in Pages}

ASSUME RowsAssumption == Suggested \cap Blocked = {} /\ Suggested \cup Blocked \subseteq Adapters

VARIABLES
    looking,    \* a lookup is out
    lookups,    \* lookups made
    found,      \* adapters: the page on screen
    picked,     \* the ticked rows
    unticked,   \* suggestions the user unticked
    inventory,  \* the adapters the backend has installed
    row,        \* status
    loop,       \* each loop's queue and step
    reply,      \* list_installed_adapters answers on their way, by loop
    listed      \* the Installed tab

rowsVars == <<looking, lookups, found, picked, unticked, inventory, row, loop, reply, listed>>
pickVars == <<looking, lookups, found, picked, unticked>>
loopVars == <<inventory, row, loop, reply, listed>>

RowsTypeOK ==
    /\ found \in Pages \cup {<<>>} /\ picked \subseteq Adapters /\ unticked \subseteq Adapters
    /\ inventory \subseteq Adapters /\ listed \subseteq Adapters
    /\ row \in [Adapters -> {"none", "queued", "working", "done", "failed"}]

RowsInit ==
    /\ looking = TRUE /\ lookups = 0 /\ found = <<>> /\ picked = {} /\ unticked = {}
    /\ inventory = {} /\ listed = {}
    /\ row = [a \in Adapters |-> "none"]
    /\ loop = [l \in Loops |-> [pc |-> "unused", queue |-> <<>>]]
    /\ reply = [l \in Loops |-> [is |-> FALSE, adapters |-> {}]]

----------------------------------------------------------------------------

Ready(a) == a \in Suggested
Recommended(page) ==
    LET ready == SelectSeq(page, Ready) IN ToSet(SubSeq(ready, 1, IF Len(ready) > 3 THEN 3 ELSE Len(ready)))

\* lookupAdapters answers: the suggestions are ticked anew.
LookedUp(p) ==
    /\ looking
    /\ looking' = FALSE /\ lookups' = lookups + 1
    /\ found' = p
    /\ picked' = Recommended(p)
    /\ UNCHANGED <<unticked, loopVars>>

\* "Find more".
FindMore ==
    /\ ~looking /\ lookups <= Reloads
    /\ looking' = TRUE
    /\ UNCHANGED <<lookups, found, picked, unticked, loopVars>>

\* togglePicked: a row that is installed or blocked has no box to tick.
Toggle(a) ==
    /\ a \in ToSet(found) \ Blocked /\ row[a] # "done"
    /\ picked' = IF a \in picked THEN picked \ {a} ELSE picked \cup {a}
    /\ unticked' = IF a \in picked THEN unticked \cup {a} ELSE unticked \ {a}
    /\ UNCHANGED <<looking, lookups, found, loopVars>>

----------------------------------------------------------------------------

\* runInstalls: the rows are marked before the first starts.
Begin(l, queue) ==
    /\ loop[l].pc = "unused" /\ queue # <<>>
    /\ loop' = [loop EXCEPT ![l] = [pc |-> "next", queue |-> queue]]
    /\ row' = [a \in Adapters |-> IF a \in ToSet(queue) THEN "queued" ELSE row[a]]

\* handleInstallPicked and installSelected.
InstallPicked(l) ==
    /\ picked # {}
    /\ Begin(l, SetToSeq((picked \cap ToSet(found)) \ {a \in Adapters : row[a] = "done"}))
    /\ picked' = {}
    /\ UNCHANGED <<looking, lookups, found, unticked, inventory, reply, listed>>

\* handleGetAdapter: one row, whose button is locked while it works.
InstallOne(l, a) ==
    /\ a \in ToSet(found) \ Blocked /\ row[a] \notin {"working", "done"}
    /\ Begin(l, <<a>>)
    /\ UNCHANGED <<pickVars, inventory, reply, listed>>

Working(l) ==
    /\ loop[l].pc = "next" /\ loop[l].queue # <<>>
    /\ loop' = [loop EXCEPT ![l].pc = "working"]
    /\ row' = [row EXCEPT ![Head(loop[l].queue)] = "working"]
    /\ UNCHANGED <<pickVars, inventory, reply, listed>>

Installed(l) ==
    /\ loop[l].pc = "working"
    /\ inventory' = inventory \cup {Head(loop[l].queue)}
    /\ row' = [row EXCEPT ![Head(loop[l].queue)] = "done"]
    /\ loop' = [loop EXCEPT ![l] = [pc |-> "next", queue |-> Tail(@.queue)]]
    /\ UNCHANGED <<pickVars, reply, listed>>

\* Mutant of Failed: the first failure ends the run.
FailedAbandons(l) ==
    /\ loop[l].pc = "working"
    /\ row' = [row EXCEPT ![Head(loop[l].queue)] = "failed"]
    /\ loop' = [loop EXCEPT ![l] = [pc |-> "next", queue |-> <<>>]]
    /\ UNCHANGED <<pickVars, inventory, reply, listed>>

\* A failure stays on its own row.
Failed(l) ==
    /\ loop[l].pc = "working"
    /\ row' = [row EXCEPT ![Head(loop[l].queue)] = "failed"]
    /\ loop' = [loop EXCEPT ![l] = [pc |-> "next", queue |-> Tail(@.queue)]]
    /\ UNCHANGED <<pickVars, inventory, reply, listed>>

\* The installed list is fetched once, at the end of the run.
Relist(l) ==
    /\ loop[l].pc = "next" /\ loop[l].queue = <<>>
    /\ loop' = [loop EXCEPT ![l].pc = "listing"]
    /\ reply' = [reply EXCEPT ![l] = [is |-> TRUE, adapters |-> inventory]]
    /\ UNCHANGED <<pickVars, inventory, row, listed>>

Relisted(l) ==
    /\ reply[l].is
    /\ reply' = [reply EXCEPT ![l].is = FALSE]
    /\ loop' = [loop EXCEPT ![l].pc = "over"]
    /\ listed' = reply[l].adapters
    /\ UNCHANGED <<pickVars, inventory, row>>

\* handleRemoveAdapter: the row goes from the list as it is now.
RemoveAdapter(a) ==
    /\ a \in listed
    /\ inventory' = inventory \ {a}
    /\ listed' = listed \ {a}
    /\ UNCHANGED <<pickVars, row, loop, reply>>

Step(l) == Working(l) \/ Installed(l) \/ Failed(l) \/ Relist(l) \/ Relisted(l)

RowsNext ==
    \/ \E p \in Pages : LookedUp(p)
    \/ FindMore
    \/ \E a \in Adapters : Toggle(a) \/ RemoveAdapter(a)
    \/ \E l \in Loops : InstallPicked(l) \/ Step(l) \/ \E a \in Adapters : InstallOne(l, a)

\* A loop waits for download_adapter, whose client sets no timeout: that it
\* returns is not assumed.  The rest is the screen's own and local listings.
Awaiting(l) == loop[l].pc = "working"

RowsFair == \A l \in Loops : WF_rowsVars(~Awaiting(l) /\ Step(l))

RowsSpec == RowsInit /\ [][RowsNext]_rowsVars /\ RowsFair

----------------------------------------------------------------------------
(* Properties.                                                                 *)

\* Every adapter asked for ends; one that hangs abandons those behind it, since
\* nothing on the screen gives up on it.
RowsEnd == \A a \in Adapters : row[a] = "queued" ~> row[a] \in {"done", "failed"}

\* As long as no install hangs, every adapter asked for gets its turn, whatever
\* became of those before it (Storage.tsx: "one adapter failing to convert must
\* not abandon the others").
EveryRowEnds == (\A l \in Loops : []<>~Awaiting(l)) => RowsEnd

\* A suggestion the user unticked stays unticked (Browse.tsx: "unticking a
\* suggestion makes it stay unticked").
UntickedStays == [][\A a \in unticked : (\E p \in Pages : LookedUp(p)) => a \notin picked']_rowsVars
=============================================================================
