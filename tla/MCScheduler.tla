---------------------------- MODULE MCScheduler ----------------------------
(* One model that loads at its working context: what varies here is who    *)
(* uses it.                                                                *)
EXTENDS Scheduler, TLC

CONSTANTS m1

MCModels == {m1}
MCContext == [m \in MCModels |-> 2]
MCUnknown == [m \in MCModels |-> 0]
=============================================================================
