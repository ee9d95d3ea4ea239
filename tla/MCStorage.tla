----------------------------- MODULE MCStorage -----------------------------
(* A dense model that is there and a mixture on its way.                    *)
EXTENDS Storage

Header(n) == [readable |-> TRUE, role |-> "model", pooling |-> FALSE, vision |-> FALSE,
              visionName |-> FALSE, experts |-> n]
MCHeaders == [m \in Models |-> Header(IF m \in Present THEN 0 ELSE 4)]
============================================================================
