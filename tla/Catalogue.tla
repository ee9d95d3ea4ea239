------------------------------- MODULE Catalogue -------------------------------
(* The model library: sweeps of the HuggingFace Hub (live_catalog.rs), the       *)
(* session's and the disk's copy of what they found (commands/catalog.rs,       *)
(* catalog_cache.rs) and the recommendation engine's own copy                   *)
(* (catalog_provider.rs), all drawing on one rate-limit window.                 *)
EXTENDS Integers, Sequences, FiniteSets, SequencesExt

CONSTANTS
    Popular,    \* repositories the one anonymous page reaches
    Deep,       \* repositories only a token's pages reach
    Readers,    \* calls of browse_model_cards without a query
    Searchers,  \* calls of browse_model_cards with one
    Engines,    \* calls of fetch_catalog
    Window,     \* requests the Hub allows in a window, a batch counting as one
    Reserve,    \* SWEEP_RESERVE, in batches
    MaxClock,   \* bound: ticks of the clock
    MaxTokens   \* bound: changes of the token

\* The parts a token opens, and a reserve the window can hold.
CatalogueAssumption ==
    /\ Popular \cap Deep = {}
    /\ Window \in Nat /\ Reserve \in 1..Window /\ MaxClock \in Nat /\ MaxTokens \in Nat

Jobs == Readers \cup Searchers \cup Engines \cup {"refresh"}
Anonymous == 0          \* tokens are numbered; 0 is no token
Free == "free"

VARIABLES
    token,      \* hf_token::get
    session,    \* browse_cache
    stored,     \* model-library.json
    engine,     \* hf_catalog_cache.json: when its sweep was asked for
    inFlight,   \* refresh_in_flight
    lock,       \* the holder of browse_lock
    engineLock, \* the holder of catalog_lock
    window,     \* requests left in the Hub's window
    known,      \* REMAINING, or -1 when unset or its window is over
    clock,      \* seconds
    job         \* every call in progress

libVars == <<token, session, stored, engine, inFlight, lock, engineLock, window, known, clock, job>>

NoSession == [is |-> FALSE, auth |-> FALSE, repos |-> {}, old |-> FALSE]
NoLibrary == [is |-> FALSE, auth |-> FALSE, repos |-> {}, age |-> "fresh"]
Ready == [pc |-> "ready", token |-> 0, at |-> 0, todo |-> <<>>, found |-> {}, skipped |-> FALSE]

Reach(t) == IF t = Anonymous THEN Popular ELSE Popular \cup Deep
Authenticated(t) == t # Anonymous
Goto(j, pc) == job' = [job EXCEPT ![j].pc = pc]

LibTypeOK ==
    /\ token \in 0..MaxTokens /\ window \in 0..Window /\ known \in -1..Window
    /\ session.repos \subseteq Popular \cup Deep
    /\ stored.repos \subseteq Popular \cup Deep
    /\ lock \in Jobs \cup {Free} /\ engineLock \in Engines \cup {Free}
    /\ inFlight \in BOOLEAN /\ clock \in 0..MaxClock /\ engine \in -1..MaxClock

\* A launch with whatever library an earlier run left.
LibInit ==
    /\ token \in 0..MaxTokens
    /\ session = NoSession
    /\ stored \in {NoLibrary} \cup
           [is : {TRUE}, auth : BOOLEAN, repos : {Popular, Popular \cup Deep}, age : {"fresh", "stale", "expired"}]
    /\ engine = -1 /\ inFlight = FALSE /\ lock = Free /\ engineLock = Free
    /\ window = Window /\ known = -1 /\ clock = 0
    /\ job = [j \in Jobs |-> Ready]

----------------------------------------------------------------------------
(* The Hub's window. Every response reports what is left of it.                *)

\* budget_spent
Spent == known # -1 /\ known < Reserve + 1

\* A request: FALSE when the Hub answers 429.
Request == window' = (IF window = 0 THEN 0 ELSE window - 1) /\ known' = window'

\* The window rolls over; RESET_AT_MS makes the last count void.
WindowResets ==
    /\ window < Window
    /\ window' = Window /\ known' = -1
    /\ UNCHANGED <<token, session, stored, engine, inFlight, lock, engineLock, clock, job>>

\* Time passes: what is kept grows old.
Tick ==
    /\ clock < MaxClock
    /\ clock' = clock + 1
    /\ \/ session' = [session EXCEPT !.old = TRUE] /\ UNCHANGED stored
       \/ stored' = [stored EXCEPT !.age = IF @ = "fresh" THEN "stale" ELSE "expired"]
          /\ UNCHANGED session
       \/ UNCHANGED <<session, stored>>
    /\ UNCHANGED <<token, engine, inFlight, lock, engineLock, window, known, job>>

\* set_hf_token drops both copies.
SetToken(t) ==
    /\ t # token
    /\ token' = t /\ session' = NoSession /\ stored' = NoLibrary
    /\ UNCHANGED <<engine, inFlight, lock, engineLock, window, known, clock, job>>

----------------------------------------------------------------------------
(* Browsing.                                                                   *)

\* cached_repos and freshness_at
InSession(t) == session.is /\ session.auth = Authenticated(t) /\ ~session.old
Usable(t) == stored.is /\ stored.auth = Authenticated(t) /\ stored.repos # {} /\ stored.age # "expired"

\* The session's copy, else the stored one, else a place in the queue. A stale
\* library, or one from a machine with other memory, is refreshed behind it.
Browse(r) ==
    /\ job[r].pc = "ready"
    /\ IF InSession(token) \/ Usable(token)
       THEN /\ \/ /\ ~InSession(token) /\ ~inFlight
                  /\ inFlight' = TRUE
                  /\ job' = [job EXCEPT ![r].pc = "done", !["refresh"] =
                                [Ready EXCEPT !.pc = "queued", !.token = token]]
               \/ /\ InSession(token) \/ stored.age = "fresh" \/ inFlight
                  /\ Goto(r, "done")
                  /\ UNCHANGED inFlight
       ELSE /\ job' = [job EXCEPT ![r].pc = "queued", ![r].token = token]
            /\ UNCHANGED inFlight
    /\ UNCHANGED <<token, session, stored, engine, lock, engineLock, window, known, clock>>

\* browse_lock, and the look at the session once it is held.
TakeLock(j) ==
    /\ j \notin Engines /\ job[j].pc = "queued" /\ lock = Free
    /\ IF j \in Readers /\ InSession(job[j].token)
       THEN Goto(j, "done") /\ UNCHANGED lock
       ELSE Goto(j, "search") /\ lock' = j
    /\ UNCHANGED <<token, session, stored, engine, inFlight, engineLock, window, known, clock>>

\* A search by name goes to the Hub at once.
SearchFor(s) ==
    /\ job[s].pc = "ready"
    /\ job' = [job EXCEPT ![s].pc = "search", ![s].token = token]
    /\ UNCHANGED <<token, session, stored, engine, inFlight, lock, engineLock, window, known, clock>>

\* refresh_model_library: both copies go first.
Force(r) ==
    /\ job[r].pc = "ready"
    /\ session' = NoSession /\ stored' = NoLibrary
    /\ job' = [job EXCEPT ![r].pc = "queued", ![r].token = token]
    /\ UNCHANGED <<token, engine, inFlight, lock, engineLock, window, known, clock>>

----------------------------------------------------------------------------
(* A sweep: discover_repos and fetch_repos.                                    *)

\* The listing pages: a failure of the first is the sweep's.
ListPages(j) ==
    /\ job[j].pc = "search"
    /\ Request
    /\ \/ /\ window > 0
          /\ job' = [job EXCEPT ![j].pc = "fetch", ![j].todo = SetToSeq(Reach(job[j].token))]
       \/ Goto(j, "failed")
    /\ UNCHANGED <<token, session, stored, engine, inFlight, lock, engineLock, clock>>

\* The next batch of details; one that fails is skipped, a 429 ends the sweep,
\* and so does a window spent down to the reserve.
FetchBatch(j) ==
    /\ job[j].pc = "fetch" /\ job[j].todo # <<>>
    /\ IF Spent
       THEN /\ job' = [job EXCEPT ![j].todo = <<>>]
            /\ UNCHANGED <<window, known>>
       ELSE /\ Request
            /\ \/ /\ window > 0
                  /\ job' = [job EXCEPT ![j].todo = Tail(@), ![j].found = @ \cup {Head(job[j].todo)}]
               \/ /\ window > 0
                  /\ job' = [job EXCEPT ![j].todo = Tail(@), ![j].skipped = TRUE]
               \/ /\ window = 0
                  /\ job' = [job EXCEPT ![j].todo = <<>>, ![j].skipped = TRUE]
    /\ UNCHANGED <<token, session, stored, engine, inFlight, lock, engineLock, clock>>

Fetched(j) == job[j].pc = "fetch" /\ job[j].todo = <<>>

\* Mutant of Merged: a partial sweep replaces the library.
SweptOnly(j) == job[j].found

\* merge, when the stored library is of the same kind and may still be shown.
Merged(j) ==
    IF stored.is /\ stored.auth = Authenticated(job[j].token) /\ stored.age # "expired"
    THEN job[j].found \cup stored.repos ELSE job[j].found

\* The end of sweep: the session keeps whatever there is, the disk refuses an
\* empty library.
KeepSweep(j) ==
    /\ j \in Readers \cup {"refresh"} /\ Fetched(j)
    /\ LET auth == Authenticated(job[j].token) IN
       /\ session' = [is |-> TRUE, auth |-> auth, repos |-> Merged(j), old |-> FALSE]
       /\ stored' = IF Merged(j) = {} THEN stored
                    ELSE [is |-> TRUE, auth |-> auth, repos |-> Merged(j), age |-> "fresh"]
    /\ lock' = Free
    /\ Goto(j, IF j = "refresh" THEN "refreshed" ELSE "done")
    /\ UNCHANGED <<token, engine, inFlight, engineLock, window, known, clock>>

SweepFails(j) ==
    /\ j \in Readers \cup {"refresh"} /\ job[j].pc = "failed"
    /\ lock' = Free
    /\ Goto(j, IF j = "refresh" THEN "refreshed" ELSE "done")
    /\ UNCHANGED <<token, session, stored, engine, inFlight, engineLock, window, known, clock>>

\* The end of spawn_refresh's task.
RefreshOver ==
    /\ job["refresh"].pc = "refreshed"
    /\ inFlight' = FALSE
    /\ Goto("refresh", "ready")
    /\ UNCHANGED <<token, session, stored, engine, lock, engineLock, window, known, clock>>

SearchOver(s) ==
    /\ s \in Searchers /\ (Fetched(s) \/ job[s].pc = "failed")
    /\ Goto(s, IF Fetched(s) THEN "answered" ELSE "done")
    /\ UNCHANGED <<token, session, stored, engine, inFlight, lock, engineLock, window, known, clock>>

----------------------------------------------------------------------------
(* The recommendation engine's copy: fetch_catalog.                            *)

\* The cache satisfies the call, or it waits its turn.
Engine(e) ==
    /\ job[e].pc = "ready"
    /\ job' = [job EXCEPT ![e].pc = IF engine >= 0 THEN "done" ELSE "queued", ![e].at = clock]
    /\ UNCHANGED <<token, session, stored, engine, inFlight, lock, engineLock, window, known, clock>>

\* Only a cache no older than this call will do; else the browser's library;
\* else a sweep of its own.
EngineTurn(e) ==
    /\ job[e].pc = "queued" /\ engineLock = Free
    /\ IF engine >= job[e].at \/ (stored.is /\ stored.age # "expired" /\ stored.repos # {})
       THEN Goto(e, "done") /\ UNCHANGED engineLock
       ELSE /\ job' = [job EXCEPT ![e].pc = "search", ![e].token = token]
            /\ engineLock' = e
    /\ UNCHANGED <<token, session, stored, engine, inFlight, lock, window, known, clock>>

\* A live result is cached under the time the call was made; anything else falls
\* back on an older cache or on the list built in.
EngineOver(e) ==
    /\ e \in Engines /\ (Fetched(e) \/ job[e].pc = "failed")
    /\ engine' = IF Fetched(e) /\ job[e].found # {} THEN job[e].at ELSE engine
    /\ engineLock' = Free
    /\ Goto(e, IF Fetched(e) THEN "swept" ELSE "done")
    /\ UNCHANGED <<token, session, stored, inFlight, lock, window, known, clock>>

----------------------------------------------------------------------------

Work(j) ==
    \/ TakeLock(j) \/ ListPages(j) \/ FetchBatch(j) \/ KeepSweep(j) \/ SweepFails(j)
    \/ j \in Searchers /\ SearchOver(j)
    \/ j \in Engines /\ (EngineTurn(j) \/ EngineOver(j))
    \/ j = "refresh" /\ RefreshOver

LibNext ==
    \/ \E j \in Jobs : Work(j)
    \/ \E r \in Readers : Browse(r) \/ Force(r)
    \/ \E s \in Searchers : SearchFor(s)
    \/ \E e \in Engines : Engine(e)
    \/ \E t \in 0..MaxTokens : SetToken(t)
    \/ Tick \/ WindowResets

LibSpec == LibInit /\ [][LibNext]_libVars

----------------------------------------------------------------------------
(* Properties.                                                                 *)

\* A sweep that a rate limit cut short never shrinks the library on disk
\* (catalog_cache.rs: "the one thing a refresh must never do").
NeverShrinks ==
    [][\A j \in Jobs : KeepSweep(j) /\ stored.is /\ stored.age # "expired" /\ stored.auth = stored'.auth
           => stored.repos \subseteq stored'.repos]_libVars

\* Stopping a sweep with requests in hand keeps a search working: one the Hub
\* would have answered does not come back empty (live_catalog.rs: "Stopping with
\* this much in hand keeps everything the user does next working").
SearchesFind ==
    \A s \in Searchers :
        job[s].pc = "answered" /\ job[s].found = {} => job[s].skipped \/ window < Reserve
=============================================================================
