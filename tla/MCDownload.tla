----------------------------- MODULE MCDownload -----------------------------
(* A model in two shards over a damaging network, and single files for     *)
(* which less and less is known beforehand.  The server of a file with a   *)
(* sum may answer a range with another one.                                *)
EXTENDS Download, TLC

MCArtifact(shards, size, sized, summed, hostile) ==
  [shards |-> shards, size |-> size, sized |-> sized, summed |-> summed,
   damaged |-> hostile, shifted |-> hostile]

MCSplit == MCArtifact(2, 2, TRUE, TRUE, TRUE)
MCSummed == MCArtifact(1, 3, FALSE, TRUE, TRUE)
MCSized == MCArtifact(1, 3, TRUE, FALSE, FALSE)
MCUnknown == MCArtifact(1, 3, FALSE, FALSE, FALSE)

MCArtifacts == {MCSplit, MCSummed, MCSized, MCUnknown}
MCOne == {MCArtifact(1, 2, TRUE, TRUE, FALSE)}
=============================================================================
