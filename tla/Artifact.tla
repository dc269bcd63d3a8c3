------------------------------ MODULE Artifact ------------------------------
(* What a download promises about the file it is to fetch *)
EXTENDS ArtifactFile

VARIABLE file

Init == file \in FileStates

Next == \E after \in FileStates : FileStep(file, after) /\ file' = after

Spec == Init /\ [][Next]_file
=============================================================================
