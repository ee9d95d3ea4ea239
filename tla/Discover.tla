------------------------------- MODULE Discover -------------------------------
(* The Discover page (Browse.tsx): its loads and the background refresh whose    *)
(* end it hears of as an event, each reply landing whenever it lands.           *)
EXTENDS Naturals

CONSTANTS
    Terms,      \* what the user searches for
    Listing,    \* no term: the default listing
    MaxLoads,   \* bound: loads the page issues
    MaxUpdates  \* bound: background refreshes that end

DiscoverAssumption == Listing \notin Terms /\ MaxLoads \in Nat \ {0} /\ MaxUpdates \in Nat

Loads == 1..MaxLoads

VARIABLES
    load,         \* each call of load and its reply
    page,         \* the results on screen
    activeSearch, \* the term the header names
    loading,      \* the spinner is up and the buttons are locked
    failed,       \* the error banner
    heard,        \* the activeSearch the registered catalog:updated handler closed over
    stale,        \* the stored library wants a refresh
    refreshing,   \* refresh_in_flight
    updates,      \* catalog:updated events not yet delivered
    ended         \* background refreshes that have ended

discoverVars == <<load, page, activeSearch, loading, failed, heard, stale, refreshing, updates, ended>>
backVars == <<stale, refreshing, updates, ended>>

NoLoad == [pc |-> "unused", query |-> Listing, quiet |-> FALSE, force |-> FALSE,
           ok |-> FALSE, refreshing |-> FALSE]
NoPage == [is |-> FALSE, query |-> Listing, stored |-> FALSE, refreshing |-> FALSE, by |-> 0]

Queries == Terms \cup {Listing}

DiscoverTypeOK ==
    /\ load \in [Loads -> [pc : {"unused", "out", "answered", "over"}, query : Queries,
                           quiet : BOOLEAN, force : BOOLEAN, ok : BOOLEAN, refreshing : BOOLEAN]]
    /\ page \in [is : BOOLEAN, query : Queries, stored : BOOLEAN, refreshing : BOOLEAN, by : Nat]
    /\ activeSearch \in Queries /\ heard \in Queries
    /\ loading \in BOOLEAN /\ failed \in BOOLEAN /\ stale \in BOOLEAN /\ refreshing \in BOOLEAN
    /\ ended \in 0..MaxUpdates /\ updates \in 0..ended

FirstOut(l) == [NoLoad EXCEPT !.pc = IF l = 1 THEN "out" ELSE "unused"]

\* The progress subscription is in place and the first load is out.
DiscoverInit ==
    /\ load = [l \in Loads |-> FirstOut(l)]
    /\ page = NoPage /\ activeSearch = Listing /\ loading = TRUE /\ failed = FALSE /\ heard = Listing
    /\ stale \in BOOLEAN /\ refreshing = FALSE /\ updates = 0 /\ ended = 0

----------------------------------------------------------------------------

\* load: a quiet one leaves the spinner alone.
Issue(query, quiet, force) ==
    /\ \E l \in Loads :
        /\ load[l].pc = "unused" /\ \A k \in 1..(l - 1) : load[k].pc # "unused"
        /\ load' = [load EXCEPT ![l] = [NoLoad EXCEPT !.pc = "out", !.query = query,
                                                      !.quiet = quiet, !.force = force]]
    /\ loading' = (loading \/ ~quiet)
    /\ failed' = FALSE

Submit(t) ==
    /\ ~loading
    /\ Issue(t, FALSE, FALSE)
    /\ UNCHANGED <<page, activeSearch, heard, backVars>>

\* "Check now", offered on a stored listing that is not already being refreshed.
CheckNow ==
    /\ ~loading /\ page.is /\ page.stored /\ ~page.refreshing
    /\ Issue(Listing, FALSE, TRUE)
    /\ UNCHANGED <<page, activeSearch, heard, backVars>>

TryAgain ==
    /\ failed
    /\ Issue(activeSearch, FALSE, FALSE)
    /\ UNCHANGED <<page, activeSearch, heard, backVars>>

\* browse_model_cards or refresh_model_library answers, or fails. A stale
\* library is served at once and refreshed behind it.
Serve(l) ==
    /\ load[l].pc = "out"
    /\ load[l].force => ~refreshing
    /\ \/ /\ load' = [load EXCEPT ![l].pc = "answered", ![l].ok = FALSE]
          /\ UNCHANGED <<stale, refreshing>>
       \/ LET behind == load[l].query = Listing /\ ~load[l].force /\ stale IN
          /\ load' = [load EXCEPT ![l].pc = "answered", ![l].ok = TRUE, ![l].refreshing = behind]
          /\ refreshing' = (refreshing \/ behind)
          /\ stale' = (stale /\ ~load[l].force)
    /\ UNCHANGED <<page, activeSearch, loading, failed, heard, updates, ended>>

\* The background refresh ends: success is announced, failure is not.
RefreshEnd ==
    /\ refreshing /\ ended < MaxUpdates
    /\ refreshing' = FALSE /\ ended' = ended + 1
    /\ \/ stale' = FALSE /\ updates' = updates + 1
       \/ UNCHANGED <<stale, updates>>
    /\ UNCHANGED <<load, page, activeSearch, loading, failed, heard>>

\* The library grows old again while the page stays open.
Age ==
    /\ ~stale /\ ended < MaxUpdates
    /\ stale' = TRUE
    /\ UNCHANGED <<load, page, activeSearch, loading, failed, heard, refreshing, updates, ended>>

Searched(l) == IF load[l].force THEN Listing ELSE load[l].query

\* Mutant of SpinnerAfter: any reply takes the spinner down.
SpinnerOff(l) == FALSE

\* A reply takes the spinner down unless it is a quiet one's.
SpinnerAfter(l) == loading /\ load[l].quiet

Receive(l) ==
    /\ load[l].pc = "answered"
    /\ load' = [load EXCEPT ![l].pc = "over"]
    /\ IF load[l].ok
       THEN /\ page' = [is |-> TRUE, query |-> Searched(l), by |-> l,
                        stored |-> Searched(l) = Listing /\ ~load[l].force,
                        refreshing |-> load[l].refreshing]
            /\ activeSearch' = Searched(l)
            /\ UNCHANGED failed
       ELSE failed' = (failed \/ ~load[l].quiet) /\ UNCHANGED <<page, activeSearch>>
    /\ loading' = SpinnerAfter(l)
    /\ UNCHANGED <<heard, backVars>>

\* The effect that follows a change of activeSearch registers a new handler.
Resubscribe ==
    /\ heard # activeSearch
    /\ heard' = activeSearch
    /\ UNCHANGED <<load, page, activeSearch, loading, failed, backVars>>

\* Only the default listing is re-read.
Updated ==
    /\ updates > 0
    /\ updates' = updates - 1
    /\ \/ heard = Listing /\ Issue(Listing, TRUE, FALSE)
       \/ /\ heard # Listing \/ \A l \in Loads : load[l].pc # "unused"
          /\ UNCHANGED <<load, loading, failed>>
    /\ UNCHANGED <<page, activeSearch, heard, stale, refreshing, ended>>

DiscoverNext ==
    \/ \E t \in Terms : Submit(t)
    \/ CheckNow \/ TryAgain \/ RefreshEnd \/ Age \/ Resubscribe \/ Updated
    \/ \E l \in Loads : Serve(l) \/ Receive(l)

DiscoverSpec == DiscoverInit /\ [][DiscoverNext]_discoverVars

----------------------------------------------------------------------------
(* Properties.                                                                 *)

\* What the user asked for and waits on: a load that shows the spinner, not answered yet
\* or answered and not received.
Awaited(l) == load[l].pc \in {"out", "answered"} /\ ~load[l].quiet

\* The spinner, which locks the search and "Check now", is up exactly while a load the
\* user asked for is under way, and there is never a second one: "Try again", which it
\* does not lock, is there only when nothing is awaited, and the quiet loads a
\* background refresh starts come and go without it. So two searches never race for
\* the page.
OneSearchAtATime ==
    /\ \A l, k \in Loads : Awaited(l) /\ Awaited(k) => l = k
    /\ loading <=> \E l \in Loads : Awaited(l)

\* The banner that offers "Try again" is down while the spinner is up.
BannerOrSpinner == failed => ~loading

\* Search results are not pulled from under their reader by a background refresh
\* (Browse.tsx: it "would discard what they asked for").
SearchIsKept ==
    [][page.is /\ page.query # Listing /\ page' # page => ~load[page'.by].quiet]_discoverVars

\* The banner of a refresh is there only while one is running (Browse.tsx:
\* "Rendered only while a refresh is running").
BannerIsLive ==
    page.is /\ page.refreshing /\ updates = 0 /\ (\A l \in Loads : load[l].pc \in {"unused", "over"})
        => refreshing
=============================================================================
