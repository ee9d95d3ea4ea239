--------------------------- MODULE Screens_proofs ---------------------------
(* Proofs about Discover and Storage: for any terms and any number of loads and *)
(* background refreshes, the spinner stands for the one load the user waits on; *)
(* and for any refreshes, however their calls to the backend overlap, the       *)
(* Storage screen never goes back to an older look at the disk.                 *)
EXTENDS MCScreens, TLAPS

-----------------------------------------------------------------------------
(* The Discover page.                                                           *)

\* The inductive invariant. That "Try again" cannot add a second awaited load needs
\* the banner to be down whenever the spinner is up.
SearchInv == DiscoverTypeOK /\ OneSearchAtATime /\ BannerOrSpinner

LoadRecord == [pc : {"unused", "out", "answered", "over"}, query : Queries,
               quiet : BOOLEAN, force : BOOLEAN, ok : BOOLEAN, refreshing : BOOLEAN]

\* The page starts with its first load out and the spinner up.
LEMMA SearchStart == DiscoverAssumption /\ DiscoverInit => SearchInv
<1> SUFFICES ASSUME DiscoverAssumption, DiscoverInit PROVE SearchInv
  OBVIOUS
<1>1. \A l \in Loads : FirstOut(l) \in LoadRecord
  BY DEF FirstOut, NoLoad, LoadRecord, Queries
<1>2. load \in [Loads -> LoadRecord]
  BY <1>1 DEF DiscoverInit
<1>3. page \in [is : BOOLEAN, query : Queries, stored : BOOLEAN, refreshing : BOOLEAN, by : Nat]
  BY DEF DiscoverInit, NoPage, Queries
<1>4. DiscoverTypeOK
  <2>1. ended \in 0..MaxUpdates /\ updates \in 0..ended
    BY DEF DiscoverInit, DiscoverAssumption
  <2> QED
    BY <1>2, <1>3, <2>1 DEF DiscoverInit, DiscoverTypeOK, LoadRecord, Queries
<1>5. \A l \in Loads : Awaited(l) <=> l = 1
  BY DEF DiscoverInit, Awaited, FirstOut, NoLoad
<1>6. OneSearchAtATime
  BY <1>5 DEF OneSearchAtATime, DiscoverInit, DiscoverAssumption, Loads
<1>7. BannerOrSpinner
  BY DEF BannerOrSpinner, DiscoverInit
<1> QED
  BY <1>4, <1>6, <1>7 DEF SearchInv

\* A load issued while nothing is awaited, or quietly, keeps the invariant's second part.
LEMMA IssueKeeps ==
  ASSUME SearchInv, NEW q \in Queries, NEW quiet \in BOOLEAN, NEW force \in BOOLEAN,
         Issue(q, quiet, force), quiet \/ ~loading
  PROVE  /\ load' \in [Loads -> LoadRecord]
         /\ loading' \in BOOLEAN /\ failed' \in BOOLEAN
         /\ OneSearchAtATime' /\ BannerOrSpinner'
<1>1. PICK n \in Loads :
        /\ load[n].pc = "unused"
        /\ load' = [load EXCEPT ![n] = [NoLoad EXCEPT !.pc = "out", !.query = q,
                                                      !.quiet = quiet, !.force = force]]
  BY DEF Issue
<1>2. load \in [Loads -> LoadRecord] /\ loading \in BOOLEAN
  BY DEF SearchInv, DiscoverTypeOK, LoadRecord
<1>3. [NoLoad EXCEPT !.pc = "out", !.query = q, !.quiet = quiet, !.force = force] \in LoadRecord
  BY DEF NoLoad, LoadRecord, Queries
<1>4. load' \in [Loads -> LoadRecord]
  BY <1>1, <1>2, <1>3
<1>5. loading' = (loading \/ ~quiet) /\ failed' = FALSE
  BY DEF Issue
<1>6. \A l \in Loads \ {n} : Awaited(l)' <=> Awaited(l)
  BY <1>1, <1>2 DEF Awaited
<1>7. ~Awaited(n) /\ (Awaited(n)' <=> ~quiet)
  BY <1>1, <1>2 DEF Awaited, NoLoad
<1>8. OneSearchAtATime'
  <2>1. CASE quiet
    BY <1>2, <1>5, <1>6, <1>7, <2>1 DEF SearchInv, OneSearchAtATime, Loads
  <2>2. CASE ~quiet
    BY <1>2, <1>5, <1>6, <1>7, <2>2 DEF SearchInv, OneSearchAtATime, Loads
  <2> QED
    BY <2>1, <2>2
<1> QED
  BY <1>2, <1>4, <1>5, <1>8 DEF BannerOrSpinner

\* Every step of the page, of the commands behind it and of the refresh keeps it.
LEMMA SearchStep == DiscoverAssumption /\ SearchInv /\ [DiscoverNext]_discoverVars => SearchInv'
<1> SUFFICES ASSUME DiscoverAssumption, SearchInv, [DiscoverNext]_discoverVars
             PROVE  SearchInv'
  OBVIOUS
<1> USE DEF SearchInv
<1>t. /\ load \in [Loads -> LoadRecord]
      /\ page \in [is : BOOLEAN, query : Queries, stored : BOOLEAN, refreshing : BOOLEAN, by : Nat]
      /\ activeSearch \in Queries /\ heard \in Queries
      /\ loading \in BOOLEAN /\ failed \in BOOLEAN /\ stale \in BOOLEAN /\ refreshing \in BOOLEAN
      /\ ended \in 0..MaxUpdates /\ updates \in 0..ended
      /\ MaxUpdates \in Nat /\ Listing \in Queries
  BY DEF DiscoverTypeOK, LoadRecord, DiscoverAssumption, Queries
<1>1. ASSUME NEW t \in Terms, Submit(t) PROVE SearchInv'
  <2>1. t \in Queries /\ Issue(t, FALSE, FALSE) /\ ~loading
    BY <1>1 DEF Submit, Queries
  <2>2. load' \in [Loads -> LoadRecord] /\ loading' \in BOOLEAN /\ failed' \in BOOLEAN
        /\ OneSearchAtATime' /\ BannerOrSpinner'
    BY <2>1, IssueKeeps
  <2> QED
    BY <1>1, <1>t, <2>2 DEF Submit, backVars, DiscoverTypeOK, LoadRecord
<1>2. CASE CheckNow
  <2>1. Issue(Listing, FALSE, TRUE) /\ ~loading
    BY <1>2 DEF CheckNow
  <2>2. load' \in [Loads -> LoadRecord] /\ loading' \in BOOLEAN /\ failed' \in BOOLEAN
        /\ OneSearchAtATime' /\ BannerOrSpinner'
    BY <1>t, <2>1, IssueKeeps
  <2> QED
    BY <1>2, <1>t, <2>2 DEF CheckNow, backVars, DiscoverTypeOK, LoadRecord
<1>3. CASE TryAgain
  <2>1. Issue(activeSearch, FALSE, FALSE) /\ ~loading
    BY <1>3 DEF TryAgain, BannerOrSpinner
  <2>2. load' \in [Loads -> LoadRecord] /\ loading' \in BOOLEAN /\ failed' \in BOOLEAN
        /\ OneSearchAtATime' /\ BannerOrSpinner'
    BY <1>t, <2>1, IssueKeeps
  <2> QED
    BY <1>3, <1>t, <2>2 DEF TryAgain, backVars, DiscoverTypeOK, LoadRecord
<1>4. CASE RefreshEnd
  <2>1. ended' \in 0..MaxUpdates /\ updates' \in 0..ended'
    BY <1>4, <1>t DEF RefreshEnd
  <2>2. UNCHANGED <<load, page, activeSearch, loading, failed, heard>>
        /\ stale' \in BOOLEAN /\ refreshing' \in BOOLEAN
    BY <1>4, <1>t DEF RefreshEnd
  <2> QED
    BY <1>t, <2>1, <2>2 DEF DiscoverTypeOK, LoadRecord, OneSearchAtATime, Awaited, BannerOrSpinner
<1>5. CASE Age
  BY <1>5, <1>t DEF Age, DiscoverTypeOK, LoadRecord, OneSearchAtATime, Awaited, BannerOrSpinner
<1>6. CASE Resubscribe
  BY <1>6, <1>t
  DEF Resubscribe, backVars, DiscoverTypeOK, LoadRecord, OneSearchAtATime, Awaited, BannerOrSpinner
<1>7. CASE Updated
  <2>1. CASE heard = Listing /\ Issue(Listing, TRUE, FALSE)
    <3>1. load' \in [Loads -> LoadRecord] /\ loading' \in BOOLEAN /\ failed' \in BOOLEAN
          /\ OneSearchAtATime' /\ BannerOrSpinner'
      BY <1>t, <2>1, IssueKeeps
    <3> QED
      BY <1>7, <1>t, <3>1 DEF Updated, DiscoverTypeOK, LoadRecord
  <2>2. CASE UNCHANGED <<load, loading, failed>>
    BY <1>7, <1>t, <2>2
    DEF Updated, DiscoverTypeOK, LoadRecord, OneSearchAtATime, Awaited, BannerOrSpinner
  <2> QED
    BY <1>7, <2>1, <2>2 DEF Updated
<1>8. ASSUME NEW n \in Loads, Serve(n) PROVE SearchInv'
  <2>1. \A l \in Loads : Awaited(l)' <=> Awaited(l)
    BY <1>8, <1>t DEF Serve, Awaited, LoadRecord
  <2>2. load' \in [Loads -> LoadRecord] /\ refreshing' \in BOOLEAN /\ stale' \in BOOLEAN
    BY <1>8, <1>t DEF Serve, LoadRecord
  <2>3. UNCHANGED <<page, activeSearch, loading, failed, heard, updates, ended>>
    BY <1>8 DEF Serve
  <2>4. OneSearchAtATime' /\ BannerOrSpinner'
    BY <2>1, <2>3 DEF OneSearchAtATime, BannerOrSpinner, Loads
  <2> QED
    BY <1>t, <2>2, <2>3, <2>4 DEF DiscoverTypeOK, LoadRecord
<1>9. ASSUME NEW n \in Loads, Receive(n) PROVE SearchInv'
  <2>1. load' = [load EXCEPT ![n].pc = "over"] /\ load[n].pc = "answered"
        /\ loading' = (loading /\ load[n].quiet) /\ UNCHANGED <<heard, backVars>>
    BY <1>9 DEF Receive, SpinnerAfter
  <2>2. load' \in [Loads -> LoadRecord] /\ load[n].quiet \in BOOLEAN
    BY <2>1, <1>t DEF LoadRecord
  <2>3. \A l \in Loads \ {n} : Awaited(l)' <=> Awaited(l)
    BY <2>1, <1>t DEF Awaited
  <2>4. ~Awaited(n)' /\ (Awaited(n) <=> ~load[n].quiet)
    BY <2>1, <1>t DEF Awaited, LoadRecord
  <2>5. OneSearchAtATime'
    BY <1>t, <2>1, <2>2, <2>3, <2>4 DEF OneSearchAtATime, Loads
  <2>6. Searched(n) \in Queries
    BY <1>t DEF Searched, LoadRecord
  <2>7. /\ page' \in [is : BOOLEAN, query : Queries, stored : BOOLEAN, refreshing : BOOLEAN, by : Nat]
        /\ activeSearch' \in Queries /\ failed' \in BOOLEAN
    <3>1. CASE load[n].ok
      <4>1. n \in Nat /\ load[n].refreshing \in BOOLEAN /\ load[n].force \in BOOLEAN
        BY <1>t DEF LoadRecord, Loads
      <4>2. PICK stored \in BOOLEAN : stored = (Searched(n) = Listing /\ ~load[n].force)
        OBVIOUS
      <4>3. page' = [is |-> TRUE, query |-> Searched(n), by |-> n, stored |-> stored,
                     refreshing |-> load[n].refreshing]
        BY <1>9, <3>1, <4>2, Zenon DEF Receive
      <4>4. activeSearch' = Searched(n) /\ failed' = failed
        BY <1>9, <3>1 DEF Receive
      <4> QED
        BY <1>t, <2>6, <4>1, <4>2, <4>3, <4>4
    <3>2. CASE ~load[n].ok
      BY <1>9, <1>t, <2>2, <3>2 DEF Receive
    <3> QED
      BY <3>1, <3>2
  <2>8. BannerOrSpinner'
    BY <1>9, <1>t, <2>1, <2>2 DEF Receive, BannerOrSpinner
  <2> QED
    BY <1>t, <2>1, <2>2, <2>5, <2>7, <2>8 DEF DiscoverTypeOK, LoadRecord, backVars
<1>10. CASE UNCHANGED discoverVars
  BY <1>10 DEF discoverVars, DiscoverTypeOK, OneSearchAtATime, Awaited, BannerOrSpinner
<1> QED
  BY <1>1, <1>2, <1>3, <1>4, <1>5, <1>6, <1>7, <1>8, <1>9, <1>10 DEF DiscoverNext

\* The spinner, which locks the search, stands for exactly one load the user asked for,
\* for any terms, loads and background refreshes (OneSearchAtATime, Browse.tsx).
THEOREM SpinnerIsTheSearch == DiscoverAssumption => (DiscoverSpec => []OneSearchAtATime)
<1> SUFFICES ASSUME DiscoverAssumption PROVE DiscoverSpec => []OneSearchAtATime
  OBVIOUS
<1>1. DiscoverInit => SearchInv
  BY SearchStart
<1>2. SearchInv /\ [DiscoverNext]_discoverVars => SearchInv'
  BY SearchStep
<1>3. SearchInv => OneSearchAtATime
  BY DEF SearchInv
<1> QED
  BY <1>1, <1>2, <1>3, PTL DEF DiscoverSpec

-----------------------------------------------------------------------------
(* The Storage screen.                                                           *)

CallRecord == [pc : {"off", "waiting", "walking", "answered"}, todo : SUBSET Models,
               found : SUBSET Models, scan : Nat, gone : SUBSET Models, came : SUBSET Models]
Waits == Models \cup {Shelves!Nobody}
RefreshRecord == [pc : {"unused", "out", "done"}, ticket : Nat, after : Waits]

ShelfTypes ==
  /\ call \in [Shelves!Calls -> CallRecord]
  /\ refresh \in [Refreshes -> RefreshRecord]
  /\ latest \in Nat /\ scans \in Nat
  /\ last.models \subseteq Models /\ last.scan \in 0..scans /\ last.for \subseteq Shelves!Calls
  /\ shown.scan \in 0..scans

\* A call is under way for a refresh that is out; every refresh has a ticket of its own.
Tickets ==
  /\ \A r \in Refreshes : refresh[r].pc = "out" => refresh[r].ticket <= latest
  /\ \A r, s \in Refreshes :
       refresh[r].pc = "out" /\ refresh[s].pc = "out" /\ refresh[r].ticket = refresh[s].ticket
         => r = s
  /\ \A c \in Shelves!Calls :
       /\ call[c].pc # "off" => refresh[c[1]].pc = "out"
       /\ c \in last.for => refresh[c[1]].pc # "unused"
       /\ call[c].scan <= scans

\* What the newest refresh has been told, or will be told without another scan, is no
\* older than what the screen shows.
Newest(c) == refresh[c[1]].pc = "out" /\ refresh[c[1]].ticket = latest
NoOlder ==
  \A c \in Shelves!Calls : Newest(c) =>
    /\ call[c].pc = "answered" => call[c].scan >= shown.scan
    /\ call[c].pc = "waiting" /\ c \in last.for => last.scan >= shown.scan

ShelfInv == ShelfTypes /\ Tickets /\ NoOlder

LEMMA CallsArePairs ==
  /\ \A c \in Shelves!Calls : c[1] \in Refreshes
  /\ \A r \in Refreshes, k \in Shelves!Commands : <<r, k>> \in Shelves!Calls
BY DEF Shelves!Calls

\* The screen opens.
LEMMA ShelfStart == Shelves!StorageInit => ShelfInv
<1> SUFFICES ASSUME Shelves!StorageInit PROVE ShelfInv
  OBVIOUS
<1>1. Shelves!NoCall \in CallRecord /\ Shelves!NoRefresh \in RefreshRecord
  BY DEF Shelves!NoCall, Shelves!NoRefresh, CallRecord, RefreshRecord, Waits
<1>2. ShelfTypes
  BY <1>1 DEF Shelves!StorageInit, ShelfTypes, Shelves!NoScan
<1>3. Tickets /\ NoOlder
  BY CallsArePairs DEF Shelves!StorageInit, Tickets, NoOlder, Newest, Shelves!NoScan, Shelves!NoCall,
    Shelves!NoRefresh
<1> QED BY <1>2, <1>3 DEF ShelfInv

\* A call that moves on without being answered.
LEMMA WalkOn ==
  ASSUME ShelfInv, NEW c \in Shelves!Calls, NEW d \in CallRecord,
         call[c].pc # "off", d.pc = "walking", d.scan = call[c].scan,
         call' = [call EXCEPT ![c] = d],
         UNCHANGED <<refresh, latest, last, scans, shown>>
  PROVE  ShelfInv'
<1>1. ShelfTypes'
  BY DEF ShelfInv, ShelfTypes
<1>2. \A e \in Shelves!Calls \ {c} : call'[e] = call[e]
  BY DEF ShelfInv, ShelfTypes
<1>3. call'[c] = d
  BY DEF ShelfInv, ShelfTypes
<1>4. Tickets'
  BY <1>2, <1>3 DEF ShelfInv, Tickets
<1>5. NoOlder'
  BY <1>2, <1>3 DEF ShelfInv, NoOlder, Newest
<1> QED BY <1>1, <1>4, <1>5 DEF ShelfInv

\* A call is answered, by a scan no older than any before or by one it waited for.
LEMMA AnswerKeeps ==
  ASSUME ShelfInv, NEW c \in Shelves!Calls, Shelves!FinishScan(c) \/ Shelves!Reuse(c)
  PROVE  ShelfInv'
<1> USE DEF ShelfInv
<1>1. UNCHANGED <<refresh, latest, shown>> /\ call[c].pc # "off"
  BY DEF Shelves!FinishScan, Shelves!Reuse, Shelves!screenVars
<1>2. CASE Shelves!FinishScan(c)
  <2> DEFINE d == [call[c] EXCEPT !.pc = "answered", !.scan = scans + 1]
  <2>1. /\ call' = [call EXCEPT ![c] = d] /\ scans' = scans + 1
        /\ last'.scan = scans + 1 /\ last'.models = call[c].found
        /\ last'.for = {e \in Shelves!Calls : call[e].pc = "waiting"}
    BY <1>2 DEF Shelves!FinishScan
  <2>2. d \in CallRecord /\ d.pc = "answered" /\ d.scan = scans + 1
    <3>1. call[c] \in CallRecord /\ scans + 1 \in Nat
      BY DEF ShelfTypes
    <3> QED BY <3>1 DEF CallRecord
  <2>3. call'[c] = d /\ \A e \in Shelves!Calls \ {c} : call'[e] = call[e]
    BY <2>1 DEF ShelfTypes
  <2> HIDE DEF d
  <2>4. ShelfTypes'
    BY <1>1, <2>1, <2>2 DEF ShelfTypes, CallRecord
  <2>5. Tickets'
    BY <1>1, <2>1, <2>2, <2>3, CallsArePairs DEF Tickets, ShelfTypes, RefreshRecord, CallRecord
  <2>6. NoOlder'
    BY <1>1, <2>1, <2>2, <2>3 DEF NoOlder, Newest, ShelfTypes
  <2> QED BY <2>4, <2>5, <2>6
<1>3. CASE Shelves!Reuse(c)
  <2> DEFINE d == [call[c] EXCEPT !.pc = "answered", !.found = last.models, !.scan = last.scan]
  <2>1. /\ call' = [call EXCEPT ![c] = d] /\ UNCHANGED <<scans, last>>
        /\ c \in last.for /\ call[c].pc = "waiting"
    BY <1>3 DEF Shelves!Reuse, Shelves!scanVars
  <2>2. d \in CallRecord /\ d.pc = "answered" /\ d.scan = last.scan
    <3>1. call[c] \in CallRecord /\ last.models \subseteq Models /\ last.scan \in Nat
      BY DEF ShelfTypes
    <3> QED BY <3>1 DEF CallRecord
  <2>3. call'[c] = d /\ \A e \in Shelves!Calls \ {c} : call'[e] = call[e]
    BY <2>1 DEF ShelfTypes
  <2> HIDE DEF d
  <2>4. ShelfTypes'
    BY <1>1, <2>1, <2>2 DEF ShelfTypes
  <2>5. Tickets'
    BY <1>1, <2>1, <2>2, <2>3 DEF Tickets, ShelfTypes
  <2>6. NoOlder'
    BY <1>1, <2>1, <2>2, <2>3 DEF NoOlder, Newest
  <2> QED BY <2>4, <2>5, <2>6
<1> QED BY <1>2, <1>3

\* A new refresh: nothing has been promised to its calls yet, and no other is the newest.
LEMMA AskKeeps ==
  ASSUME ShelfInv, NEW r \in Refreshes, NEW m \in Waits, Shelves!Asked(r, m),
         UNCHANGED <<last, scans, shown>>
  PROVE  ShelfInv'
<1> USE DEF ShelfInv
<1> DEFINE d == [Shelves!NoCall EXCEPT !.pc = "waiting", !.gone = Shelves!Deleted, !.came = Shelves!Arrived]
<1>1. /\ refresh[r].pc = "unused" /\ latest' = latest + 1
      /\ refresh' = [refresh EXCEPT ![r] = [pc |-> "out", ticket |-> latest + 1, after |-> m]]
      /\ call' = [c \in Shelves!Calls |-> IF c[1] = r THEN d ELSE call[c]]
  BY DEF Shelves!Asked
<1>2. d \in CallRecord /\ d.pc = "waiting" /\ d.scan = 0
  BY DEF CallRecord, Shelves!NoCall, Shelves!Deleted, Shelves!Arrived, Shelves!Tasks
<1> HIDE DEF d
<1>3. /\ refresh'[r].pc = "out" /\ refresh'[r].ticket = latest + 1
      /\ \A s \in Refreshes \ {r} : refresh'[s] = refresh[s]
  BY <1>1 DEF ShelfTypes
<1>4. \A c \in Shelves!Calls : call'[c] = IF c[1] = r THEN d ELSE call[c]
  BY <1>1
<1>5. ShelfTypes'
  BY <1>1, <1>2 DEF ShelfTypes, RefreshRecord
<1>6. Tickets'
  BY <1>1, <1>2, <1>3, <1>4, CallsArePairs DEF Tickets, ShelfTypes, RefreshRecord
<1>7. NoOlder'
  BY <1>1, <1>2, <1>3, <1>4, CallsArePairs DEF Tickets, NoOlder, Newest, ShelfTypes, RefreshRecord
<1> QED BY <1>5, <1>6, <1>7

\* A reply is shown only by the newest refresh, which then is out no more.
LEMMA ReplyKeeps ==
  ASSUME ShelfInv, NEW r \in Refreshes, Shelves!Reply(r)
  PROVE  ShelfInv' /\ shown'.scan >= shown.scan
<1> USE DEF ShelfInv
<1> DEFINE c == <<r, "get_installed_models">>
<1>1. /\ refresh[r].pc = "out" /\ refresh' = [refresh EXCEPT ![r].pc = "done"]
      /\ call' = [e \in Shelves!Calls |-> IF e[1] = r THEN Shelves!NoCall ELSE call[e]]
      /\ UNCHANGED <<latest, last, scans>>
      /\ call[c].pc = "answered" /\ c \in Shelves!Calls
  BY CallsArePairs DEF Shelves!Reply, Shelves!Answered, Shelves!scanVars, Shelves!Commands
<1>2. shown'.scan = IF Shelves!Current(r) THEN call[c].scan ELSE shown.scan
  BY DEF Shelves!Reply
<1>3. Shelves!Current(r) => shown'.scan >= shown.scan
  BY <1>1, <1>2 DEF NoOlder, Newest, Shelves!Current
<1>4. shown'.scan \in 0..scans /\ shown'.scan >= shown.scan
  BY <1>1, <1>2, <1>3 DEF ShelfTypes, Tickets, CallRecord
<1>5. /\ refresh'[r].pc = "done"
      /\ \A s \in Refreshes \ {r} : refresh'[s] = refresh[s]
      /\ \A e \in Shelves!Calls : call'[e] = IF e[1] = r THEN Shelves!NoCall ELSE call[e]
  BY <1>1 DEF ShelfTypes, RefreshRecord
<1>6. ShelfTypes'
  <2>1. Shelves!NoCall \in CallRecord
    BY DEF Shelves!NoCall, CallRecord
  <2>2. refresh' \in [Refreshes -> RefreshRecord]
    BY <1>1 DEF ShelfTypes, RefreshRecord
  <2> QED BY <1>1, <1>4, <2>1, <2>2 DEF ShelfTypes
<1>7. Tickets'
  BY <1>1, <1>5, CallsArePairs DEF Tickets, ShelfTypes, Shelves!NoCall
<1>8. NoOlder'
  <2> SUFFICES ASSUME NEW e \in Shelves!Calls, Newest(e)'
               PROVE  /\ call'[e].pc = "answered" => call'[e].scan >= shown'.scan
                      /\ call'[e].pc = "waiting" /\ e \in last'.for => last'.scan >= shown'.scan
    BY DEF NoOlder
  <2>1. e[1] \in Refreshes /\ e[1] # r /\ refresh[e[1]] = refresh'[e[1]]
    BY <1>5, CallsArePairs DEF Newest
  <2>2. Newest(e) /\ call'[e] = call[e]
    BY <1>1, <1>5, <2>1 DEF Newest
  <2>3. ~Shelves!Current(r)
    BY <1>1, <2>1, <2>2 DEF Tickets, Newest, Shelves!Current
  <2> QED BY <1>1, <1>2, <2>2, <2>3 DEF NoOlder
<1> QED BY <1>4, <1>6, <1>7, <1>8

\* Everything else leaves what the screen may be shown alone, or forgets it.
LEMMA ShelfQuiet ==
  ASSUME ShelfInv, UNCHANGED <<call, refresh, scans, shown>>,
         latest' = latest \/ latest' = latest + 1,
         last' = last \/ last' = Shelves!NoScan
  PROVE  ShelfInv'
<1> USE DEF ShelfInv
<1>1. last'.models \subseteq Models /\ last'.scan \in 0..scans /\ last'.for \subseteq last.for
  BY DEF ShelfTypes, Shelves!NoScan
<1>2. last'.for # {} => last' = last
  BY DEF Shelves!NoScan
<1>3. ShelfTypes'
  BY <1>1 DEF ShelfTypes
<1>4. Tickets'
  BY <1>1, CallsArePairs DEF Tickets, ShelfTypes, RefreshRecord
<1>5. NoOlder'
  BY <1>1, <1>2, CallsArePairs DEF NoOlder, Newest, Tickets, ShelfTypes, RefreshRecord
<1> QED BY <1>3, <1>4, <1>5

LEMMA ShelfStep ==
  ShelfInv /\ [Shelves!StorageNext]_(Shelves!storageVars) => ShelfInv' /\ shown'.scan >= shown.scan
<1> SUFFICES ASSUME ShelfInv, [Shelves!StorageNext]_(Shelves!storageVars)
             PROVE  ShelfInv' /\ shown'.scan >= shown.scan
  OBVIOUS
<1>0. shown'.scan = shown.scan => shown'.scan >= shown.scan
  BY DEF ShelfInv, ShelfTypes
<1>1. ASSUME NEW c \in Shelves!Calls, Shelves!ScanStep(c) PROVE ShelfInv' /\ shown' = shown
  <2>1. CASE Shelves!StartScan(c)
    <3> DEFINE d == [call[c] EXCEPT !.pc = "walking", !.todo = Models, !.found = {}]
    <3>1. d \in CallRecord /\ d.pc = "walking" /\ d.scan = call[c].scan
      BY DEF ShelfInv, ShelfTypes, CallRecord
    <3>2. call' = [call EXCEPT ![c] = d] /\ call[c].pc # "off"
      BY <2>1 DEF Shelves!StartScan
    <3>3. UNCHANGED <<refresh, latest, last, scans, shown>>
      BY <2>1 DEF Shelves!StartScan, Shelves!screenVars
    <3> HIDE DEF d
    <3> QED BY <3>1, <3>2, <3>3, WalkOn
  <2>2. ASSUME NEW m \in Models, Shelves!Walk(c, m) PROVE ShelfInv' /\ shown' = shown
    <3> DEFINE f == IF disk[m] = "installed" THEN call[c].found \cup {m} ELSE call[c].found
               d == [call[c] EXCEPT !.todo = call[c].todo \ {m}, !.found = f]
    <3>1. call[c].pc = "walking" /\ call[c] \in CallRecord
      BY <2>2 DEF Shelves!Walk, ShelfInv, ShelfTypes
    <3>2. d \in CallRecord /\ d.pc = "walking" /\ d.scan = call[c].scan
      BY <3>1 DEF CallRecord
    <3>3. call' = [call EXCEPT ![c] = d]
      BY <2>2, <3>1 DEF Shelves!Walk, CallRecord
    <3>4. UNCHANGED <<refresh, latest, last, scans, shown>>
      BY <2>2 DEF Shelves!Walk, Shelves!screenVars, Shelves!scanVars
    <3> HIDE DEF d
    <3> QED BY <3>1, <3>2, <3>3, <3>4, WalkOn
  <2>3. CASE Shelves!FinishScan(c) \/ Shelves!Reuse(c)
    BY <2>3, AnswerKeeps DEF Shelves!FinishScan, Shelves!Reuse, Shelves!screenVars
  <2> QED BY <1>1, <2>1, <2>2, <2>3 DEF Shelves!ScanStep
<1>2. ASSUME NEW r \in Refreshes, Shelves!OpenScreen(r) \/ Shelves!RefreshNow(r)
      PROVE  ShelfInv' /\ shown' = shown
  BY <1>2, AskKeeps DEF Shelves!OpenScreen, Shelves!RefreshNow, Shelves!scanVars, Waits
<1>3. ASSUME NEW r \in Refreshes, Shelves!Reply(r) PROVE ShelfInv' /\ shown'.scan >= shown.scan
  BY <1>3, ReplyKeeps
<1>4. ASSUME NEW m \in Models,
             Shelves!AskDelete(m) \/ Shelves!RemoveFiles(m) \/ Shelves!Invalidate(m)
               \/ Shelves!AskLoad(m) \/ Shelves!LoadReturns(m)
      PROVE  ShelfInv' /\ shown' = shown
  BY <1>4, ShelfQuiet DEF Shelves!AskDelete, Shelves!RemoveFiles, Shelves!Invalidate,
    Shelves!AskLoad, Shelves!LoadReturns, Shelves!scanVars, Shelves!screenVars
<1>5. ASSUME NEW m \in Models, NEW r \in Refreshes, Shelves!RefreshAfter(m, r)
      PROVE  ShelfInv' /\ shown' = shown
  BY <1>5, AskKeeps DEF Shelves!RefreshAfter, Shelves!scanVars, Waits
<1>6. CASE Shelves!CloseScreen
  BY <1>6, <1>0, ShelfQuiet DEF Shelves!CloseScreen, Shelves!scanVars
<1>7. ASSUME NEW t \in Shelves!Tasks,
             Shelves!StartDownload(t) \/ Shelves!FinishDownload(t) \/ Shelves!CancelDownload(t)
      PROVE  ShelfInv' /\ shown' = shown
  BY <1>7, ShelfQuiet DEF Shelves!StartDownload, Shelves!FinishDownload, Shelves!CancelDownload,
    Shelves!scanVars, Shelves!screenVars
<1>8. CASE Shelves!Subscribe \/ Shelves!ListTasks \/ Shelves!ReceiveListing
  BY <1>8, <1>0, ShelfQuiet DEF Shelves!Subscribe, Shelves!ListTasks, Shelves!ReceiveListing,
    Shelves!scanVars, Shelves!screenVars
<1>9. CASE Shelves!Deliver
  <2>1. UNCHANGED <<last, scans, shown>>
    BY <1>9 DEF Shelves!Deliver, Shelves!scanVars
  <2>2. UNCHANGED <<call, refresh, latest>> \/ \E r \in Refreshes : Shelves!Asked(r, Shelves!Nobody)
    BY <1>9 DEF Shelves!Deliver
  <2>3. Shelves!Nobody \in Waits
    BY DEF Waits
  <2> QED BY <1>0, <2>1, <2>2, <2>3, ShelfQuiet, AskKeeps
<1>10. CASE UNCHANGED Shelves!storageVars
  BY <1>10, <1>0, ShelfQuiet DEF Shelves!storageVars
<1> QED
  BY <1>0, <1>1, <1>2, <1>3, <1>4, <1>5, <1>6, <1>7, <1>8, <1>9, <1>10 DEF Shelves!StorageNext

\* The Storage screen never goes back to an older look at the disk, for any number of
\* overlapping refreshes answered in any order, by their own scans or by another's
\* (Storage.tsx, latestRefresh; store.rs, listing).
THEOREM ScreenNeverGoesBack == Shelves!StorageSpec => ShownNeverOlder
<1>1. ShelfInv /\ [Shelves!StorageNext]_(Shelves!storageVars) => shown'.scan >= shown.scan
  BY ShelfStep
<1>2. Shelves!StorageSpec => []ShelfInv
  BY ShelfStart, ShelfStep, PTL DEF Shelves!StorageSpec
<1> QED BY <1>1, <1>2, PTL DEF Shelves!StorageSpec, ShownNeverOlder, Shelves!ShownNeverOlder
=============================================================================
