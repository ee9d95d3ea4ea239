------------------------------ MODULE LayaRouter ------------------------------
(* capability/laya.rs: chat turns and adapter naming ask a sidecar process      *)
(* questions over its stdin and stdout. A reader thread routes each answer to   *)
(* the request waiting for it; a request that waits too long gives up.          *)
EXTENDS Naturals, Sequences

CONSTANTS
    Turns,      \* threads that classify a prompt
    Namers,     \* threads that name an adapter (choose)
    PipeRoom,   \* requests the stdin pipe holds before a write blocks
    MaxCalls,   \* bound: requests sent in all
    Booter      \* the thread of boot

Callers == Turns \cup Namers \cup {Booter}
None == "none"

PipeRoomAssumption == PipeRoom \in Nat \ {0}

VARIABLES
    status,   \* LayaRouter.status
    linked,   \* LayaRouter.link is Some
    lock,     \* who holds the link mutex
    alive,    \* Link.alive
    pending,  \* Link.pending: request id -> the caller whose sender it is
    nextId,   \* LayaRouter.next_id
    stdin,    \* ids written and not yet read by the sidecar
    stdout,   \* ids answered and not yet read by the reader
    sidecar,  \* "off", "up", "hung" or "dead"
    reader,   \* "off", "reading", "draining" or "ended"
    call      \* each caller's step, its request and what it received

routerVars == <<status, linked, lock, alive, pending, nextId, stdin, stdout, sidecar, reader, call>>

Idle == [pc |-> "idle", id |-> 0, got |-> 0]
Goto(c, pc) == call' = [call EXCEPT ![c].pc = pc]
Forget(id) == [i \in DOMAIN pending \ {id} |-> pending[i]]

RouterTypeOK ==
    /\ status \in {"Starting", "Ready", "Unavailable"}
    /\ linked \in BOOLEAN /\ alive \in BOOLEAN
    /\ lock \in Callers \cup {None}
    /\ DOMAIN pending \subseteq 1..MaxCalls
    /\ \A i \in DOMAIN pending : pending[i] \in Callers
    /\ nextId \in 1..(MaxCalls + 1)
    /\ Len(stdin) <= PipeRoom

\* start_global with everything installed: the loader thread is about to run.
RouterInit ==
    /\ status = "Starting" /\ linked = FALSE /\ lock = None /\ alive = FALSE
    /\ pending = <<>> /\ nextId = 1 /\ stdin = <<>> /\ stdout = <<>>
    /\ sidecar = "off" /\ reader = "off"
    /\ call = [c \in Callers |-> Idle]

----------------------------------------------------------------------------
(* Starting.                                                                   *)

\* LayaRouter::spawn, which may fail to find Python.
Spawn ==
    /\ call[Booter].pc = "idle" /\ status = "Starting"
    /\ \/ /\ linked' = TRUE /\ alive' = TRUE /\ sidecar' = "up" /\ reader' = "reading"
          /\ call' = [call EXCEPT ![Booter].pc = "ask"]
          /\ UNCHANGED status
       \/ /\ status' = "Unavailable"
          /\ call' = [call EXCEPT ![Booter].pc = "over"]
          /\ UNCHANGED <<linked, alive, sidecar, reader>>
    /\ UNCHANGED <<lock, pending, nextId, stdin, stdout>>

\* The rest of boot: the load was answered, or failed and the sidecar is killed.
Booted ==
    /\ call[Booter].pc = "answered"
    /\ status' = "Ready"
    /\ Goto(Booter, "over")
    /\ UNCHANGED <<linked, lock, alive, pending, nextId, stdin, stdout, sidecar, reader>>

BootFailed ==
    /\ call[Booter].pc = "failed"
    /\ status' = "Unavailable"
    /\ Goto(Booter, "shutdown")
    /\ UNCHANGED <<linked, lock, alive, pending, nextId, stdin, stdout, sidecar, reader>>

Shutdown ==
    /\ call[Booter].pc = "shutdown" /\ lock = None
    /\ linked' = FALSE /\ sidecar' = "dead" /\ stdin' = <<>>
    /\ Goto(Booter, "over")
    /\ UNCHANGED <<status, lock, alive, pending, nextId, stdout, reader>>

----------------------------------------------------------------------------
(* One request: LayaRouter::call.                                              *)

\* classify and choose do nothing unless the router is ready.
Ask(c) ==
    /\ c # Booter /\ call[c].pc = "idle" /\ status = "Ready"
    /\ Goto(c, "ask")
    /\ UNCHANGED <<status, linked, lock, alive, pending, nextId, stdin, stdout, sidecar, reader>>

\* Under the link lock: register the sender, then write the request.
Register(c) ==
    /\ call[c].pc = "ask" /\ lock = None /\ nextId <= MaxCalls
    /\ nextId' = nextId + 1
    /\ IF linked /\ alive
       THEN /\ lock' = c
            /\ pending' = [i \in DOMAIN pending \cup {nextId} |-> IF i = nextId THEN c ELSE pending[i]]
            /\ call' = [call EXCEPT ![c] = [pc |-> "writing", id |-> nextId, got |-> 0]]
       ELSE /\ Goto(c, "failed")
            /\ UNCHANGED <<lock, pending>>
    /\ UNCHANGED <<status, linked, alive, stdin, stdout, sidecar, reader>>

\* A pipe takes what it has room for; a full one blocks the writer, lock in hand.
Write(c) ==
    /\ call[c].pc = "writing"
    /\ \/ /\ sidecar # "dead" /\ Len(stdin) < PipeRoom
          /\ stdin' = Append(stdin, call[c].id)
          /\ Goto(c, "waiting")
          /\ UNCHANGED pending
       \/ /\ sidecar = "dead"
          /\ pending' = Forget(call[c].id)
          /\ Goto(c, "failed")
          /\ UNCHANGED stdin
    /\ lock' = None
    /\ UNCHANGED <<status, linked, alive, nextId, stdout, sidecar, reader>>

\* recv_timeout: the answer came, or the sender is gone.
Receive(c) ==
    /\ call[c].pc = "waiting"
    /\ \/ /\ call[c].got # 0
          /\ Goto(c, "answered")
       \/ /\ call[c].got = 0 /\ call[c].id \notin DOMAIN pending
          /\ Goto(c, "failed")
    /\ UNCHANGED <<status, linked, lock, alive, pending, nextId, stdin, stdout, sidecar, reader>>

\* Mutant of Expire: no deadline.
ExpireNever(c) == FALSE /\ UNCHANGED routerVars

\* The deadline passes before an answer is there.
Expire(c) ==
    /\ call[c].pc = "waiting" /\ call[c].got = 0
    /\ Goto(c, "expired")
    /\ UNCHANGED <<status, linked, lock, alive, pending, nextId, stdin, stdout, sidecar, reader>>

\* The request is forgotten under the link lock, when there still is a link.
GiveUp(c) ==
    /\ call[c].pc = "expired" /\ lock = None
    /\ pending' = IF linked THEN Forget(call[c].id) ELSE pending
    /\ Goto(c, "failed")
    /\ UNCHANGED <<status, linked, lock, alive, nextId, stdin, stdout, sidecar, reader>>

\* A failed turn looks whether the sidecar is dead; naming an adapter does not.
Conclude(c) ==
    /\ c # Booter
    /\ \/ call[c].pc = "answered" /\ UNCHANGED status
       \/ call[c].pc = "failed" /\ c \in Namers /\ UNCHANGED status
       \/ /\ call[c].pc = "failed" /\ c \in Turns /\ lock = None
          /\ status' = IF linked /\ alive THEN status ELSE "Unavailable"
    /\ call' = [call EXCEPT ![c] = Idle]
    /\ UNCHANGED <<linked, lock, alive, pending, nextId, stdin, stdout, sidecar, reader>>

----------------------------------------------------------------------------
(* The sidecar, one request at a time, and the reader thread.                  *)

Serve ==
    /\ sidecar = "up" /\ stdin # <<>>
    /\ stdin' = Tail(stdin) /\ stdout' = Append(stdout, Head(stdin))
    /\ UNCHANGED <<status, linked, lock, alive, pending, nextId, sidecar, reader, call>>

Hang ==
    /\ sidecar = "up" /\ sidecar' = "hung"
    /\ UNCHANGED <<status, linked, lock, alive, pending, nextId, stdin, stdout, reader, call>>

Die ==
    /\ sidecar \in {"up", "hung"}
    /\ sidecar' = "dead" /\ stdin' = <<>>
    /\ UNCHANGED <<status, linked, lock, alive, pending, nextId, stdout, reader, call>>

\* Mutant of Route: answers go to the oldest request, whatever their id.
RouteInOrder ==
    /\ reader = "reading" /\ stdout # <<>> /\ DOMAIN pending # {}
    /\ LET first == CHOOSE i \in DOMAIN pending : \A j \in DOMAIN pending : i <= j
       IN /\ stdout' = Tail(stdout)
          /\ pending' = Forget(first)
          /\ call' = [call EXCEPT ![pending[first]].got = Head(stdout)]
    /\ UNCHANGED <<status, linked, lock, alive, nextId, stdin, sidecar, reader>>

\* read_responses: an answer nobody waits for any more is dropped.
Route ==
    /\ reader = "reading" /\ stdout # <<>>
    /\ LET id == Head(stdout)
       IN /\ stdout' = Tail(stdout)
          /\ pending' = Forget(id)
          /\ call' = IF id \in DOMAIN pending THEN [call EXCEPT ![pending[id]].got = id] ELSE call
    /\ UNCHANGED <<status, linked, lock, alive, nextId, stdin, sidecar, reader>>

\* End of the output: the flag first, then every sender is dropped.
MarkDead ==
    /\ reader = "reading" /\ stdout = <<>> /\ sidecar = "dead"
    /\ alive' = FALSE /\ reader' = "draining"
    /\ UNCHANGED <<status, linked, lock, pending, nextId, stdin, stdout, sidecar, call>>

DropSenders ==
    /\ reader = "draining"
    /\ pending' = <<>> /\ reader' = "ended"
    /\ UNCHANGED <<status, linked, lock, alive, nextId, stdin, stdout, sidecar, call>>

----------------------------------------------------------------------------

CallerStep(c) ==
    \/ Register(c) \/ Write(c) \/ Receive(c) \/ Expire(c) \/ GiveUp(c) \/ Conclude(c)

BootStep == Spawn \/ Booted \/ BootFailed \/ Shutdown
ReaderStep == Route \/ MarkDead \/ DropSenders

RouterNext ==
    \/ \E c \in Callers : Ask(c) \/ CallerStep(c)
    \/ BootStep \/ ReaderStep \/ Serve \/ Hang \/ Die

\* Threads run and deadlines pass; nothing is assumed of the sidecar.
RouterFairness ==
    /\ \A c \in Callers : SF_routerVars(CallerStep(c))
    /\ WF_routerVars(BootStep) /\ WF_routerVars(ReaderStep)

RouterSpec == RouterInit /\ [][RouterNext]_routerVars /\ RouterFairness

----------------------------------------------------------------------------
(* Properties.                                                                 *)

\* "A late answer is discarded": whatever a caller receives answers the request it is
\* waiting on, never an earlier one it gave up.
OwnAnswer == \A c \in Callers : call[c].got \in {0, call[c].id}

\* Whatever the sidecar does, answer, hang or die, every request returns, as long as the
\* pipe it reads from is not full for good: only a write waits without a deadline.
Returns == \A c \in Callers : call[c].pc = "writing" ~> call[c].pc \in {"idle", "over"}
CallsReturn == []<>(Len(stdin) < PipeRoom) => Returns

\* Not so of the code: "A turn never waits longer than CLASSIFY_DEADLINE for Laya". A sidecar
\* that hangs stays Ready, and each turn that gives up on it leaves its request in the pipe;
\* the write that finds it full blocks with the link lock, and every other turn behind it.
NeverLonger == Returns
=============================================================================
