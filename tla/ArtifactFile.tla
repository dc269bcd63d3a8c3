---------------------------- MODULE ArtifactFile ----------------------------
(***************************************************************************)
(* The states of a file that is to be downloaded, and how a download takes *)
(* it from one to another, for those who do not look into downloads.       *)
(***************************************************************************)

\* Nothing is there; a .part file; a file of that name that is not the
\* artifact; the artifact.
FileStates == {"absent", "partial", "damaged", "whole"}

\* A file gets its name when it is whole and keeps it, and a damaged file goes
\* away before the artifact comes.
FileStep(before, after) ==
    \/ before = "absent" /\ after = "partial"
    \/ before = "partial" /\ after \in {"absent", "whole"}
    \/ before = "damaged" /\ after \in {"absent", "partial"}
=============================================================================
