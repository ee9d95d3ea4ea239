----------------------------- MODULE NotebookLM -----------------------------
(* The one NotebookLM connection of the application                        *)
(* (src-tauri/src/notebooklm/, commands/notebooklm.rs,                     *)
(* src/services/notebooklm.store.ts).                                      *)
(*                                                                         *)
(* The manager keeps a snapshot every view reads and a record that         *)
(* survives a restart.  Two activities use it at once: the startup         *)
(* sequence (remembered paths, a full probe, a live check), and whatever   *)
(* action the user runs - one at a time, the store drops a second.  Each   *)
(* publishes by taking a copy of the snapshot, awaiting the registry and   *)
(* writing the whole copy back.  Locks serialise full probes and live      *)
(* checks.  Meanwhile the session file may be replaced from a terminal and *)
(* Google may stop accepting it.                                           *)
EXTENDS Integers

CONSTANTS MaxSessions,  \* session files ever written
          MaxActions,   \* actions the user runs
          Actions       \* which actions those are

NotebookAssumption ==
  /\ MaxSessions \in Nat \ {0} /\ MaxActions \in Nat
  /\ Actions \subseteq {"health", "redetect", "login", "logout", "install", "register",
                        "unregister"}

VARIABLES
  disk,       \* the installation: [cli, mcp]
  session,    \* fingerprint of the session file, 0 when there is none
  made,       \* session files written so far
  live,       \* sessions Google accepts
  saved,      \* Persisted, as memory has it: [cli, mcp, verified, signedOut]
  file, tmp,  \* the document on disk, and the temporary one a save writes first
  spoilt,     \* a save failed, or two overlapped, since the last that began alone
  snap,       \* the published status
  entry,      \* mcp.json lists NotebookLM
  proc,       \* "startup", "user" -> where it is, and the save it is in
  locks,      \* who holds `detecting` and `verifying`
  generation, \* verify_generation
  signingIn,
  actions     \* actions run

stored == <<saved, file, tmp, spoilt>>
nbVars == <<disk, session, made, live, saved, file, tmp, spoilt, snap, entry, proc, locks, generation,
            signingIn, actions>>

Procs == {"startup", "user"}
Busy == {"checking", "installing", "authenticating", "verifying"}
Settled == {"notInstalled", "installFailed", "notAuthenticated", "unverified", "connected",
            "authenticationExpired", "connectionFailed"}
Blank(state) == [state |-> state, cli |-> FALSE, mcp |-> FALSE, has |-> FALSE,
                 verified |-> FALSE, signedOut |-> FALSE, listed |-> FALSE]
Forgotten == [cli |-> FALSE, mcp |-> FALSE, verified |-> 0, signedOut |-> FALSE]
Resting == [pc |-> "idle", op |-> "none", st |-> Blank("checking"), then |-> "idle",
            force |-> FALSE, before |-> 0, ok |-> TRUE,
            next |-> "idle", copy |-> Forgotten, into |-> "none"]

(* load: a document that cannot be read is nothing remembered.             *)
Doc(kind, record) == [kind |-> kind, record |-> record]
None == Doc("none", Forgotten)
Loaded(doc) == IF doc.kind = "whole" THEN doc.record ELSE Forgotten

NbInit ==
  /\ disk \in {d \in [cli : BOOLEAN, mcp : BOOLEAN] : d.mcp => d.cli}
  /\ session \in {0, 1} /\ made = session /\ live \in SUBSET ({session} \ {0})
  /\ saved \in [cli : {disk.cli, FALSE}, mcp : {disk.mcp, FALSE}, verified : {0, session},
                signedOut : BOOLEAN]
  /\ saved.mcp => saved.cli
  /\ saved.signedOut => saved.verified = 0
  /\ file = Doc("whole", saved) /\ tmp = None /\ spoilt = FALSE
  /\ snap = Blank("checking")
  /\ entry \in {disk.mcp, FALSE}
  /\ proc = [p \in Procs |-> Resting]
  /\ locks = [detecting |-> "none", verifying |-> "none"]
  /\ generation = 0 /\ signingIn = FALSE /\ actions = 0

At(p, pc) == proc[p].pc = pc
(* A frame that returns leaves nothing but which operation it was.         *)
Step(p, f) ==
  proc' = [proc EXCEPT ![p] = IF f.pc = "idle" THEN [Resting EXCEPT !.op = f.op] ELSE f]
Goto(p, pc) == Step(p, [proc[p] EXCEPT !.pc = pc])
(* publish(st), going on at `then` when it returns.                        *)
Published(p, st, then) == [proc[p] EXCEPT !.pc = "registry", !.st = st, !.then = then]
Publish(p, st, then) == Step(p, Published(p, st, then))

-----------------------------------------------------------------------------
(* mutate_persisted: the record is changed and copied under its lock, and  *)
(* the copy is saved after the lock is gone: a temporary document every    *)
(* save shares is emptied, written, and renamed over the last one.  A save *)
(* that fails is only logged.  `q` is the frame that goes on after it.     *)
Saves == {"open", "fill", "rename"}
Saving(p) == proc[p].pc \in Saves
Mutate(p, record, q) ==
  /\ saved' = record /\ spoilt' = \E other \in Procs \ {p} : Saving(other)
  /\ Step(p, [q EXCEPT !.next = q.pc, !.pc = "open", !.copy = record])
  /\ UNCHANGED <<file, tmp>>
SaveEnds(p) == [proc[p] EXCEPT !.pc = proc[p].next, !.next = "idle", !.copy = Forgotten,
                               !.into = "none"]

(* A handle stays with its document when that is renamed or replaced.      *)
Moved(q) == [q EXCEPT !.into = CASE q.into = "tmp" -> "file" [] q.into = "file" -> "gone"
                                 [] OTHER -> q.into]
Writes(p, docs) ==
  /\ tmp' \in IF proc[p].into = "tmp" THEN docs ELSE {tmp}
  /\ file' \in IF proc[p].into = "file" THEN docs ELSE {file}
Torn == Doc("torn", Forgotten)

Open(p) ==
  /\ At(p, "open")
  /\ tmp' = Doc("empty", Forgotten)
  /\ Step(p, [proc[p] EXCEPT !.pc = "fill", !.into = "tmp"])
  /\ UNCHANGED <<disk, session, made, live, saved, file, spoilt, snap, entry, locks, generation,
                 signingIn, actions>>
(* Over the other's text a shorter one leaves the end of the longer.       *)
Fill(p) ==
  /\ At(p, "fill")
  /\ LET old == IF proc[p].into = "tmp" THEN tmp ELSE file IN
       Writes(p, {Doc("whole", proc[p].copy)} \cup IF old.kind = "empty" THEN {} ELSE {Torn})
  /\ Step(p, [proc[p] EXCEPT !.pc = "rename", !.into = "none"])
  /\ UNCHANGED <<disk, session, made, live, saved, spoilt, snap, entry, locks, generation,
                 signingIn, actions>>
Rename(p) ==
  /\ At(p, "rename") /\ tmp # None
  /\ file' = tmp /\ tmp' = None
  /\ proc' = [o \in Procs |-> IF o = p THEN SaveEnds(p) ELSE Moved(proc[o])]
  /\ UNCHANGED <<disk, session, made, live, saved, spoilt, snap, entry, locks, generation,
                 signingIn, actions>>
(* What no save is going to rename counts as gone: the next empties it     *)
(* before anything reads it.                                               *)
SaveFails(p) ==
  /\ Saving(p) /\ Step(p, SaveEnds(p)) /\ spoilt' = TRUE
  /\ IF \A other \in Procs \ {p} : ~Saving(other)
     THEN tmp' = None /\ file' \in IF proc[p].into = "file" THEN {file, Torn} ELSE {file}
     ELSE IF At(p, "fill") THEN Writes(p, {tmp, Torn}) ELSE UNCHANGED <<file, tmp>>
  /\ UNCHANGED <<disk, session, made, live, saved, snap, entry, locks, generation,
                 signingIn, actions>>

-----------------------------------------------------------------------------
(* publish: the registry is read off the thread, the rest is filled in and *)
(* the whole status replaces the snapshot.  A verification of an earlier   *)
(* run is shown while it still refers to the session on disk.              *)
PublishReads(p) ==
  /\ At(p, "registry")
  /\ Step(p, [proc[p] EXCEPT !.pc = "publish", !.st.listed = entry])
  /\ UNCHANGED <<disk, session, made, live, stored, snap, entry, locks, generation,
                 signingIn, actions>>

StillApplies == ~saved.signedOut /\ saved.verified # 0 /\ saved.verified = session
Release(p) == [l \in DOMAIN locks |-> IF locks[l] = p THEN "none" ELSE locks[l]]

PublishWrites(p) ==
  /\ At(p, "publish")
  /\ snap' = [proc[p].st EXCEPT !.signedOut = saved.signedOut, !.verified = @ \/ StillApplies]
  /\ Step(p, [proc[p] EXCEPT !.pc = proc[p].then, !.st = snap'])
  /\ locks' = Release(p)   \* the guards live to the end of their functions
  /\ UNCHANGED <<disk, session, made, live, stored, entry, generation, signingIn, actions>>

(* detect and detect_remembered: what is on disk, never more than          *)
(* "unverified".                                                           *)
Detected(d, mcp) ==
  IF ~d.cli THEN Blank("notInstalled")
  ELSE [Blank(IF session # 0 THEN "unverified" ELSE "notAuthenticated")
          EXCEPT !.cli = TRUE, !.mcp = mcp, !.has = session # 0]

(* run_startup, wave 1: remembered paths that are still there.             *)
Startup ==
  /\ At("startup", "idle") /\ proc["startup"].op = "none"
  /\ LET known == saved.cli /\ saved.mcp /\ disk.cli /\ disk.mcp IN
       Step("startup", [proc["startup"] EXCEPT
              !.op = "startup", !.then = "detect",
              !.pc = IF known THEN "registry" ELSE "detect",
              !.st = IF known THEN Detected(disk, TRUE) ELSE @])
  /\ UNCHANGED <<disk, session, made, live, stored, snap, entry, locks, generation,
                 signingIn, actions>>

(* detect_full: one probe at a time; its result is remembered, then        *)
(* published.                                                              *)
LockDetect(p) ==
  /\ At(p, "detect") /\ locks.detecting = "none"
  /\ locks' = [locks EXCEPT !.detecting = p] /\ Goto(p, "probe")
  /\ UNCHANGED <<disk, session, made, live, stored, snap, entry, generation, signingIn, actions>>
Probe(p) ==
  /\ At(p, "probe")
  /\ Step(p, [proc[p] EXCEPT !.pc = "remember", !.st = Detected(disk, disk.mcp)])
  /\ UNCHANGED <<disk, session, made, live, stored, snap, entry, locks, generation,
                 signingIn, actions>>
RememberPaths(p) ==
  /\ At(p, "remember")
  /\ Mutate(p, [saved EXCEPT !.cli = proc[p].st.cli, !.mcp = proc[p].st.mcp],
            Published(p, proc[p].st, IF p = "startup" THEN "reconcile" ELSE "idle"))
  /\ UNCHANGED <<disk, session, made, live, snap, entry, locks, generation, signingIn, actions>>

(* drop_stale_registration, then wave 3: a live check of a session the     *)
(* user has not signed out of.                                             *)
Reconcile ==
  /\ At("startup", "reconcile")
  /\ entry' = (entry /\ (snap.state = "checking" \/ snap.mcp))
  /\ LET d == proc["startup"].st IN
       Step("startup", [proc["startup"] EXCEPT
              !.pc = IF d.has /\ d.cli /\ ~saved.signedOut THEN "verify" ELSE "idle",
              !.force = FALSE, !.then = "idle"])
  /\ UNCHANGED <<disk, session, made, live, stored, snap, locks, generation, signingIn, actions>>

-----------------------------------------------------------------------------
(* verify: without a session there is nothing to ask; otherwise the card   *)
(* says so and the check waits its turn.                                   *)
After(p) == IF proc[p].op = "login" THEN "signedIn" ELSE "idle"
Verify(p) ==
  /\ At(p, "verify")
  /\ LET q == [proc[p] EXCEPT !.before = generation, !.pc = "registry"] IN
     IF snap.cli /\ session = 0
     THEN Step(p, [q EXCEPT !.then = After(p),
                            !.st = [snap EXCEPT !.state = "notAuthenticated", !.has = FALSE,
                                                !.verified = FALSE]])
     ELSE IF snap.cli
     THEN Step(p, [q EXCEPT !.then = "queue", !.st = [snap EXCEPT !.state = "verifying"]])
     ELSE Step(p, [q EXCEPT !.pc = "queue"])
  /\ UNCHANGED <<disk, session, made, live, stored, snap, entry, locks, generation,
                 signingIn, actions>>

(* A check another caller finished meanwhile is this one's answer, unless  *)
(* the user asked.                                                         *)
LockVerify(p) ==
  /\ At(p, "queue") /\ locks.verifying = "none"
  /\ IF (~proc[p].force /\ generation # proc[p].before) \/ ~snap.cli
     THEN Step(p, [proc[p] EXCEPT !.pc = After(p), !.st = snap]) /\ UNCHANGED locks
     ELSE /\ locks' = [locks EXCEPT !.verifying = p]
          /\ Step(p, [proc[p] EXCEPT !.pc = "ask", !.st = snap])
  /\ UNCHANGED <<disk, session, made, live, stored, snap, entry, generation, signingIn, actions>>

(* The CLI asks Google about the session it finds.  Only a session Google  *)
(* accepts connects; what any other failure printed decides whether it     *)
(* reads as a refusal ("expired", "401", "403", ...) or as the check's own. *)
Ask(p) ==
  /\ At(p, "ask")
  /\ \E state \in {"connected", "authenticationExpired", "connectionFailed"} :
       /\ state = "connected" => session \in live
       /\ Step(p, [proc[p] EXCEPT !.pc = "outcome", !.st.state = state,
                     !.st.verified = IF state = "connected" THEN TRUE
                                     ELSE @ /\ state # "authenticationExpired",
                     !.st.signedOut = @ /\ state # "connected"])
  /\ UNCHANGED <<disk, session, made, live, stored, snap, entry, locks, generation,
                 signingIn, actions>>

(* Mutant of Outcome: a refusal is noted in memory and not written down.   *)
OutcomeUnsaved(p) ==
  /\ At(p, "outcome")
  /\ generation' = (generation + 1) % 4
  /\ LET st == proc[p].st  then == Published(p, st, After(p)) IN
       IF st.state = "connected"
       THEN Mutate(p, [saved EXCEPT !.verified = session, !.signedOut = FALSE], then)
       ELSE /\ saved' = IF st.state = "authenticationExpired"
                        THEN [saved EXCEPT !.verified = 0] ELSE saved
            /\ Step(p, then) /\ UNCHANGED <<file, tmp, spoilt>>
  /\ UNCHANGED <<disk, session, made, live, snap, entry, locks, signingIn, actions>>

(* remember_outcome: a success is recorded against the session file as it  *)
(* is now, a refusal forgets the last one, anything else says nothing.     *)
(* The counter is only compared for a change; four values tell them apart. *)
Outcome(p) ==
  /\ At(p, "outcome")
  /\ generation' = (generation + 1) % 4
  /\ LET st == proc[p].st  then == Published(p, st, After(p)) IN
       IF st.state = "connected"
       THEN Mutate(p, [saved EXCEPT !.verified = session, !.signedOut = FALSE], then)
       ELSE IF st.state = "authenticationExpired"
       THEN Mutate(p, [saved EXCEPT !.verified = 0], then)
       ELSE Step(p, then) /\ UNCHANGED stored
  /\ UNCHANGED <<disk, session, made, live, snap, entry, locks, signingIn, actions>>

-----------------------------------------------------------------------------
(* act: the user's actions, one at a time.                                 *)
Act(op) ==
  /\ At("user", "idle") /\ actions < MaxActions /\ actions' = actions + 1
  /\ Step("user", [Resting EXCEPT !.op = op, !.force = TRUE,
                     !.pc = CASE op = "health" -> "verify" [] op = "redetect" -> "detect"
                              [] OTHER -> op])
  /\ UNCHANGED <<disk, session, made, live, stored, snap, entry, locks, generation, signingIn>>

(* login: the guard, the announcement, the browser, and a check of what    *)
(* came of it.                                                             *)
Login ==
  /\ At("user", "login")
  /\ IF signingIn THEN Goto("user", "idle")
     ELSE Publish("user", [snap EXCEPT !.state = "authenticating"], "browser")
  /\ signingIn' = TRUE
  /\ UNCHANGED <<disk, session, made, live, stored, snap, entry, locks, generation, actions>>
SignedUp == [saved EXCEPT !.verified = 0, !.signedOut = FALSE]
Browser ==
  /\ At("user", "browser")
  /\ \/ /\ disk.cli /\ made < MaxSessions
        /\ made' = made + 1 /\ session' = made' /\ live' = live \cup {session'}
        /\ Mutate("user", SignedUp, [proc["user"] EXCEPT !.pc = "verify", !.ok = TRUE])
     \/ /\ UNCHANGED <<session, made, live>>
        /\ Mutate("user", SignedUp, [proc["user"] EXCEPT !.pc = "verify", !.ok = FALSE])
  /\ UNCHANGED <<disk, snap, entry, locks, generation, signingIn, actions>>

(* The end of login: the reason a sign-in failed is put on the card unless *)
(* the session works all the same.  The guard drops either way.            *)
SignedIn ==
  /\ At("user", "signedIn")
  /\ signingIn' = FALSE
  /\ IF ~proc["user"].ok /\ proc["user"].st.state # "connected"
     THEN Step("user", [proc["user"] EXCEPT !.pc = "registry", !.then = "idle"])
     ELSE Goto("user", "idle")
  /\ UNCHANGED <<disk, session, made, live, stored, snap, entry, locks, generation, actions>>

(* logout: the CLI drops the session, or refuses and nothing changes.      *)
Logout ==
  /\ At("user", "logout")
  /\ \/ disk.cli /\ session' = 0 /\ Goto("user", "loggedOut")
     \/ Goto("user", "idle") /\ UNCHANGED session
  /\ UNCHANGED <<disk, made, live, stored, snap, entry, locks, generation, signingIn, actions>>
LoggedOut ==
  /\ At("user", "loggedOut")
  /\ Mutate("user", [saved EXCEPT !.verified = 0, !.signedOut = TRUE],
            Published("user", [snap EXCEPT !.state = "notAuthenticated", !.has = session # 0,
                                           !.verified = FALSE], "idle"))
  /\ UNCHANGED <<disk, session, made, live, snap, entry, locks, generation, signingIn, actions>>

(* install: announced; then the package is there and can serve, or the     *)
(* attempt failed.                                                         *)
Install ==
  /\ At("user", "install")
  /\ Publish("user", [snap EXCEPT !.state = "installing"], "installer")
  /\ UNCHANGED <<disk, session, made, live, stored, snap, entry, locks, generation,
                 signingIn, actions>>
Installer ==
  /\ At("user", "installer")
  /\ \/ /\ disk' = [cli |-> TRUE, mcp |-> TRUE]
        /\ Mutate("user", [saved EXCEPT !.cli = TRUE, !.mcp = TRUE],
                  Published("user", Detected(disk', TRUE), "installed"))
     \/ /\ disk' \in {disk, [disk EXCEPT !.cli = TRUE]} /\ ~disk.mcp
        /\ Publish("user", [snap EXCEPT !.state = "installFailed"], "idle")
        /\ UNCHANGED stored
  /\ UNCHANGED <<session, made, live, snap, entry, locks, generation, signingIn, actions>>
Installed ==
  /\ At("user", "installed")
  /\ Goto("user", IF proc["user"].st.mcp /\ ~proc["user"].st.listed THEN "register" ELSE "idle")
  /\ UNCHANGED <<disk, session, made, live, stored, snap, entry, locks, generation,
                 signingIn, actions>>

(* set_registered: refused when the status knows of no server; then the    *)
(* snapshot is published once more for its registry line.                  *)
SetRegistered(on) ==
  /\ At("user", IF on THEN "register" ELSE "unregister")
  /\ IF on /\ ~snap.mcp THEN Goto("user", "idle") /\ UNCHANGED entry
     ELSE entry' = on /\ Goto("user", "republish")
  /\ UNCHANGED <<disk, session, made, live, stored, snap, locks, generation, signingIn, actions>>
Republish ==
  /\ At("user", "republish") /\ Publish("user", snap, "idle")
  /\ UNCHANGED <<disk, session, made, live, stored, snap, entry, locks, generation,
                 signingIn, actions>>

(* Outside Sarathi: `notebooklm login` in a terminal; Google expires a     *)
(* session.                                                                *)
TerminalLogin ==
  /\ disk.cli /\ made < MaxSessions
  /\ made' = made + 1 /\ session' = made' /\ live' = live \cup {session'}
  /\ UNCHANGED <<disk, stored, snap, entry, proc, locks, generation, signingIn, actions>>
Expires ==
  /\ \E s \in live : live' = live \ {s}
  /\ UNCHANGED <<disk, session, made, stored, snap, entry, proc, locks, generation,
                 signingIn, actions>>

(* Sarathi is closed, or killed in the middle of anything, and opened      *)
(* again: only the document, and the machine, stay.                        *)
Restart ==
  /\ proc["startup"].op = "startup"
  /\ saved' = Loaded(file) /\ tmp' = None /\ spoilt' = FALSE
  /\ snap' = Blank("checking") /\ proc' = [p \in Procs |-> Resting]
  /\ locks' = [detecting |-> "none", verifying |-> "none"]
  /\ generation' = 0 /\ signingIn' = FALSE
  /\ UNCHANGED <<disk, session, made, live, file, entry, actions>>

NbStep(p) ==
  \/ PublishReads(p) \/ PublishWrites(p) \/ LockDetect(p) \/ Probe(p) \/ RememberPaths(p)
  \/ Verify(p) \/ LockVerify(p) \/ Ask(p) \/ Outcome(p)
  \/ Open(p) \/ Fill(p) \/ Rename(p) \/ SaveFails(p)
UserStep ==
  \/ Login \/ Browser \/ SignedIn \/ Logout \/ LoggedOut
  \/ Install \/ Installer \/ Installed \/ SetRegistered(TRUE) \/ SetRegistered(FALSE)
  \/ Republish

NbNext ==
  \/ Startup \/ Reconcile \/ UserStep
  \/ \E p \in Procs : NbStep(p)
  \/ \E op \in Actions : Act(op)
  \/ TerminalLogin \/ Expires \/ Restart

NbSpec == NbInit /\ [][NbNext]_nbVars
-----------------------------------------------------------------------------
NbTypeOK ==
  /\ snap \in [state : Busy \cup Settled, cli : BOOLEAN, mcp : BOOLEAN, has : BOOLEAN,
               verified : BOOLEAN, signedOut : BOOLEAN, listed : BOOLEAN]
  /\ locks \in [{"detecting", "verifying"} -> Procs \cup {"none"}]
  /\ session \in 0..made /\ saved.verified \in 0..made

(* What the next start will read is what this run remembers - whoever      *)
(* changed the record and wherever an earlier run was killed - once no     *)
(* save is under way and none failed or overlapped another since the last  *)
(* that began alone.                                                       *)
RecordKept == (\A p \in Procs : ~Saving(p)) /\ ~spoilt => Loaded(file) = saved

(* "Writes through a temporary file so an interrupted write cannot leave a *)
(* half-document that the next start would read as `nothing remembered`"   *)
(* (notebooklm/state.rs), and "Only Google demotes a session": not so when *)
(* two saves overlap, which share the temporary file.                      *)
NeverHalf == file.kind = "whole"

(* A card that names work in progress has some: "The transient states      *)
(* exist so the card can always name the work in progress"                 *)
(* (notebooklm/mod.rs).                                                    *)
BusyIsReal ==
  (\A p \in Procs : At(p, "idle")) /\ proc["startup"].op = "startup" => snap.state \notin Busy

(* "The user pressed Sign out. Survives a restart, because `I signed out`  *)
(* is a decision and not a transient UI state" (notebooklm/state.rs:45):   *)
(* once written, only a sign-in or a check the user asked for since takes  *)
(* it back.                                                                *)
SignOutSticks ==
  [][saved.signedOut /\ Loaded(file) = saved /\ ~saved'.signedOut =>
       ~At("user", "idle") /\ proc["user"].op \in {"login", "health"}]_nbVars
=============================================================================
