------------------------------ MODULE Capability ------------------------------
(* The capability layer (capability/, and prepare_capability_turn in            *)
(* ai_engine/manager.rs): each turn is classified, by Laya or by keywords, a    *)
(* policy with hysteresis decides which capability is in force, and it is       *)
(* delivered by an adapter or by a prompt profile. Confidence is in hundredths, *)
(* keyword weights in tenths.                                                   *)
EXTENDS Naturals, Sequences, FiniteSets, FiniteSetsExt

CONSTANTS
    Slots,       \* the sequence of specialised capabilities, in the classifier's order
    Signals,     \* keyword signals: records of a slot and a weight
    Enter,       \* enter_threshold
    Exit,        \* exit_threshold
    MaxUnsupported,  \* max_unsupported_turns
    Verdicts     \* what Laya may answer: records of an intent and a confidence

General == "general"
NoVerdict == [intent |-> "none", confidence |-> 0]
SlotSet == {Slots[i] : i \in 1..Len(Slots)}
Keys == SlotSet \cup {General}

\* SwitchPolicy::validate, and the turns of the default policy, the only one made.
ThresholdAssumption ==
    /\ Exit \in Nat /\ Enter \in Nat /\ Exit <= Enter
    /\ MaxUnsupported \in Nat \ {0}

VARIABLES
    active,       \* CapabilityTracker.active
    unsupported,  \* CapabilityTracker.unsupported_turns
    packaged,     \* there is an active package
    usable,       \* the slots try_bind_adapter succeeds for, as the disk is now
    turn,         \* the turn in progress: its step, verdict, override and prompt
    badge,        \* the last capability payload the page was told: capability, backend
    lapsed        \* history: classified turns in a row that showed active no support

capVars == <<active, unsupported, packaged, usable, turn, badge, lapsed>>

NoTurn == [step |-> "idle", verdict |-> NoVerdict, manual |-> "auto", signals |-> {}]
Plain == [capability |-> General, backend |-> "base"]

----------------------------------------------------------------------------
(* classifier.rs                                                               *)

Weight(s) == s.weight
Score(signals, slot) == MapThenSumSet(Weight, {s \in signals : s.slot = slot})

\* The first of the slots with the highest score: the sort is stable.
Top(signals) ==
    LET best == Max({Score(signals, k) : k \in SlotSet})
    IN Slots[Min({i \in 1..Len(Slots) : Score(signals, Slots[i]) = best})]

\* evidence * (0.5 + 0.5 * dominance), with evidence = top / (top + 1.5) and
\* dominance = top / total.
Confidence(signals) ==
    LET top == Score(signals, Top(signals))
        total == MapThenSumSet(Weight, signals)
    IN (100 * top * (total + top)) \div (2 * total * (top + 15))

Lexical(signals) ==
    IF signals = {} THEN [intent |-> General, confidence |-> 0]
    ELSE [intent |-> Top(signals), confidence |-> Confidence(signals)]

----------------------------------------------------------------------------
(* policy.rs                                                                   *)

Pins(manual) == manual \notin {"auto", "none", ""}

Unsupported(v) == v.intent = General \/ (v.intent # active /\ v.confidence < Exit)

\* The counter saturates; past the maximum its value is never told apart.
OneMore(n) == Min({n + 1, MaxUnsupported})

\* decide, past the override: the capability in force after a verdict. Keeping the
\* active one is Hold, whatever the reason.
Verdict(v, count) ==
    IF v.intent = active THEN active
    ELSE IF v.confidence >= Enter /\ v.intent # General THEN v.intent
    ELSE IF active # General /\ count >= MaxUnsupported THEN General
    ELSE active

\* Mutant of Commit: a switch keeps what was counted against another capability.
CommitKeepsCount(target, count) ==
    /\ active' = target
    /\ unsupported' = count

\* commit: a switch starts the counting anew.
Commit(target, count) ==
    /\ active' = target
    /\ unsupported' = IF target = active THEN count ELSE 0

Decide(v, manual) ==
    IF Pins(manual) THEN Commit(manual, unsupported)
    ELSE LET count == IF Unsupported(v) THEN OneMore(unsupported) ELSE 0
         IN Commit(Verdict(v, count), count)

----------------------------------------------------------------------------
(* resolver.rs: a capability always resolves to something usable.              *)

Resolve(capability) ==
    IF capability \notin SlotSet THEN Plain
    ELSE [capability |-> capability, backend |-> IF capability \in usable THEN "lora" ELSE "prompt-profile"]

----------------------------------------------------------------------------
(* A turn.                                                                     *)

CapInit ==
    /\ active = General /\ unsupported = 0
    /\ packaged = TRUE /\ usable \in SUBSET SlotSet
    /\ turn = NoTurn /\ badge = Plain
    /\ lapsed = 0

\* resolve_turn before the tracker's lock. A pinned turn asks no classifier that could
\* be late; an automatic one takes Laya's verdict, or the keywords' without one.
Classify(signals, manual) ==
    /\ turn.step = "idle" /\ packaged
    /\ \E v \in IF Pins(manual) THEN {Lexical(signals)} ELSE {Lexical(signals)} \cup Verdicts :
           turn' = [step |-> "classified", verdict |-> v, manual |-> manual, signals |-> signals]
    /\ UNCHANGED <<active, unsupported, packaged, usable, badge, lapsed>>

\* The rest of resolve_turn, and the announcement of prepare_capability_turn.
DecideTurn ==
    /\ turn.step = "classified"
    /\ Decide(turn.verdict, turn.manual)
    /\ badge' = Resolve(active')
    /\ turn' = [turn EXCEPT !.step = "announced"]
    /\ lapsed' = IF active' # active THEN 0
                ELSE IF Pins(turn.manual) THEN lapsed
                ELSE IF Unsupported(turn.verdict) THEN OneMore(lapsed) ELSE 0
    /\ UNCHANGED <<packaged, usable>>

\* generate_with_capability and the correction after it: an adapter that does not bind
\* leaves the base weights, and the page is told.
Generate ==
    /\ turn.step = "announced"
    /\ badge' \in {badge} \cup IF badge.backend = "lora" THEN {[badge EXCEPT !.backend = "base"]} ELSE {}
    /\ turn' = [turn EXCEPT !.step = "over"]
    /\ UNCHANGED <<active, unsupported, packaged, usable, lapsed>>

NextTurn ==
    /\ turn.step = "over"
    /\ turn' = NoTurn
    /\ UNCHANGED <<active, unsupported, packaged, usable, badge, lapsed>>

\* set_package_context and clear_package_context, from another thread at any time.
ResetTracker(package) ==
    /\ packaged' = package
    /\ active' = General /\ unsupported' = 0 /\ lapsed' = 0
    /\ UNCHANGED <<usable, turn, badge>>

\* An adapter is installed, converted or removed.
ChangeAdapters(slot) ==
    /\ usable' = IF slot \in usable THEN usable \ {slot} ELSE usable \cup {slot}
    /\ UNCHANGED <<active, unsupported, packaged, turn, badge, lapsed>>

Overrides == {"auto"} \cup SlotSet

CapNext ==
    \/ \E signals \in SUBSET Signals, manual \in Overrides : Classify(signals, manual)
    \/ DecideTurn \/ Generate \/ NextTurn
    \/ \E package \in BOOLEAN : ResetTracker(package)
    \/ \E slot \in SlotSet : ChangeAdapters(slot)

CapSpec == CapInit /\ [][CapNext]_capVars

----------------------------------------------------------------------------
(* Properties.                                                                 *)

\* Hysteresis: a turn moves to another specialisation only with the confidence to enter
\* it, and lets go of one only after MaxUnsupported classified turns in a row gave it no
\* support; in between the active capability persists. A pinned turn is neither.
ChangeIsEarned ==
    [][ DecideTurn /\ active' # active /\ ~Pins(turn.manual) =>
        IF active' = General THEN OneMore(lapsed) = MaxUnsupported /\ Unsupported(turn.verdict)
        ELSE turn.verdict.confidence >= Enter /\ turn.verdict.intent = active' ]_capVars

\* "Neither an isolated keyword nor a tie between two domains can trigger a capability
\* switch."
NoSwitchOnOneKeyword ==
    [][ DecideTurn /\ active' # active /\ active' # General /\ ~Pins(turn.manual)
            /\ turn.verdict = Lexical(turn.signals) =>
        Cardinality(turn.signals) > 1 ]_capVars
=============================================================================
