----------------------------- MODULE MCMemory ------------------------------
(* Two things a user may say to the engine of Memory.                       *)
EXTENDS Memory

(* A message that gives the user's name, in letters of two bytes, and a     *)
(* long one with a goal of the project at hand, which the mock's rules do   *)
(* not notice.                                                              *)
Said(text, fact, mock, long, wide) ==
  [text |-> text, fact |-> fact, mock |-> mock, long |-> long, wide |-> wide]
MCMessages == {Said("name", "user_fact", "user_fact", FALSE, TRUE),
               Said("work", "project_goal", "none", TRUE, FALSE)}
============================================================================
