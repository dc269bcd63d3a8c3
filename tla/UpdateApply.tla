---------------------------- MODULE UpdateApply ----------------------------
(***************************************************************************)
(* xrtranslate-updater: a process of its own that replaces the files of an *)
(* installation by those of a release, and puts the old ones back when it  *)
(* fails.  What it replaces it moves to a backup directory that bears its  *)
(* process id; only this process looks into that directory again (a later  *)
(* one with the same id would remove it: ids are taken to differ).         *)
(*                                                                         *)
(* The content of a file is the number of the release it comes from; 0 is  *)
(* what was installed first, or made by the user.  A directory at the top  *)
(* is the set of the files under it, of the release and of the             *)
(* installation; it is in the release when a file of it is.                *)
(***************************************************************************)
EXTENDS Naturals

CONSTANTS
    Shipped,      \* files of a release
    Installed,    \* files of the first installation, with those of the user
    Folders,      \* directories at the top other than models/ and runtime/, each
                  \* replaced as a whole: resources/, bin/, corpora/, licenses/, ...
    Resources,    \* of these, resources/
    Libraries,    \* the dynamic libraries under resources/bin
    OldClients,   \* client binaries at the top with names no release has now
    Absent, Torn, \* contents: there is no such file; it is written in part
    MaxFailures   \* bound: updaters that fail or are killed

ASSUME ReleaseAssumption ==
    /\ \A folder \in Folders : folder \subseteq Shipped \cup Installed
    /\ \A folder, other \in Folders : folder = other \/ folder \cap other = {}
    /\ Resources \in Folders /\ Libraries \subseteq Resources
    /\ OldClients \subseteq Installed \ (Shipped \cup UNION Folders)
    /\ Absent # Torn /\ {Absent, Torn} \cap Nat = {} /\ Absent \notin Shipped
    /\ MaxFailures \in Nat

VARIABLES
    target,   \* per file, its content in the installation
    backup,   \* per file, its content in the backup of this updater
    updater,  \* the updater process
    kept      \* history: the target when the update began, the files whose
              \* first content is in a backup that was left, updaters that failed

applyVars == <<target, backup, updater, kept>>

Files == Shipped \cup Installed
Nothing(files) == [f \in files |-> Absent]
Present(dir) == {f \in DOMAIN dir : dir[f] # Absent}

\* "entries": those left of the release; "copies": the files the entry at hand
\* still has to write, "libraries" TRUE for the local ones written after them
NoUpdater == [pc |-> "idle", release |-> 0, source |-> Nothing(Shipped),
              entries |-> {}, copies |-> {}, libraries |-> FALSE]

ApplyInit ==
    /\ target = [f \in Files |-> IF f \in Installed THEN 0 ELSE Absent]
    /\ backup = Nothing(Files)
    /\ updater = NoUpdater
    /\ kept = [target |-> target, orphans |-> {}, failures |-> 0]

At(pc) == updater.pc = pc
Working == updater.pc \in {"clients", "entries", "copy", "restore"}

\* The updater is started on the staged release, as it is at this moment.  The
\* backup of an updater that was killed stays behind.
BeginApply(release, staged) ==
    /\ updater' = [NoUpdater EXCEPT !.pc = "clients", !.release = release,
                                    !.source = staged, !.entries = Present(staged)]
    /\ backup' = Nothing(Files)
    /\ kept' = [kept EXCEPT !.target = target,
                            !.orphans = @ \cup {f \in Files : backup[f] = 0}]
    /\ UNCHANGED target

\* backup_existing: the file, or the whole directory, is renamed
MoveToBackup(files) ==
    /\ target' = [f \in Files |-> IF f \in files THEN Absent ELSE target[f]]
    /\ backup' = [f \in Files |->
                    IF f \in files \cap Present(target) THEN target[f] ELSE backup[f]]
    /\ UNCHANGED kept

OldClientsLeft == OldClients \cap Present(target)

\* remove_old_client_binary
MoveOldClient ==
    /\ At("clients")
    /\ \E f \in OldClientsLeft : MoveToBackup({f})
    /\ UNCHANGED updater

ClientsMoved ==
    /\ At("clients")
    /\ OldClientsLeft = {}
    /\ updater' = [updater EXCEPT !.pc = "entries"]
    /\ UNCHANGED <<target, backup, kept>>

\* The next entry, in any order: what is there goes to the backup.  The files
\* under models/ are merged one by one; runtime/ is protected, not an entry.
FileEntry ==
    /\ At("entries")
    /\ \E f \in updater.entries \ UNION Folders :
          /\ MoveToBackup({f})
          /\ updater' = [updater EXCEPT !.pc = "copy", !.entries = @ \ {f}, !.copies = {f}]

CopiesOf(folder) ==
    /\ updater.entries \cap folder # {}
    /\ updater' = [updater EXCEPT !.pc = "copy", !.entries = @ \ folder,
                                  !.copies = updater.entries \cap folder,
                                  !.libraries = (folder = Resources)]

\* Mutant: the directory of the release is copied over the one installed.
FolderOver ==
    /\ At("entries")
    /\ \E folder \in Folders : CopiesOf(folder)
    /\ UNCHANGED <<target, backup, kept>>

\* A directory is moved with all that is in it, of the release or not.  Only
\* resources/ (replace_resources_directory) gets something of it back.
FolderEntry ==
    /\ At("entries")
    /\ \E folder \in Folders : MoveToBackup(folder) /\ CopiesOf(folder)

\* copy_path: a file that is written is torn until it is written to the end;
\* a copy out of the backup leaves it there.
CopyFile ==
    /\ At("copy")
    /\ \E f \in updater.copies :
         LET content == IF f \in Present(updater.source) THEN updater.source[f] ELSE backup[f]
         IN \/ /\ target' = [target EXCEPT ![f] = content]
               /\ updater' = [updater EXCEPT !.copies = @ \ {f}]
            \/ /\ target[f] # Torn
               /\ target' = [target EXCEPT ![f] = Torn]
               /\ UNCHANGED updater
    /\ UNCHANGED <<backup, kept>>

\* Mutant: the condition on the release is the wrong way round.
LibrariesOfRelease == Libraries \cap Present(backup) \cap Present(updater.source)

\* restore_local_runtime_libraries: those of the old tree the release lacks
LocalLibraries == (Libraries \cap Present(backup)) \ Present(updater.source)

EntryCopied ==
    /\ At("copy")
    /\ updater.copies = {}
    /\ updater' = IF updater.libraries
                  THEN [updater EXCEPT !.copies = LocalLibraries, !.libraries = FALSE]
                  ELSE [updater EXCEPT !.pc = "entries"]
    /\ UNCHANGED <<target, backup, kept>>

Ended(outcome) == [NoUpdater EXCEPT !.pc = outcome, !.release = updater.release]

\* Every entry was replaced: the backup is removed, and what cannot be removed of
\* it is never looked at again.
ApplyDone ==
    /\ At("entries")
    /\ updater.entries = {}
    /\ backup' = Nothing(Files)
    /\ updater' = Ended("done")
    /\ UNCHANGED <<target, kept>>

OneMoreFails ==
    /\ kept.failures < MaxFailures
    /\ kept' = [kept EXCEPT !.failures = @ + 1]

\* A rename or a copy fails for 45 seconds: retry_io gives up.
ApplyFails ==
    /\ updater.pc \in {"clients", "entries", "copy"}
    /\ OneMoreFails
    /\ updater' = Ended("restore")
    /\ UNCHANGED <<target, backup>>

\* restore_entries: the file there is removed, the one in the backup renamed.
\* What the release added stays.
RestoreFile ==
    /\ At("restore")
    /\ \E f \in Present(backup) :
          /\ target' = [target EXCEPT ![f] = backup[f]]
          /\ backup' = [backup EXCEPT ![f] = Absent]
    /\ UNCHANGED <<updater, kept>>

\* A file cannot be put back: the rest stays in the backup, the error is dropped.
RestoreFails ==
    /\ At("restore")
    /\ \E f \in Present(backup) :
          target' \in {target, [target EXCEPT ![f] = Absent]}
    /\ updater' = Ended("failed")
    /\ UNCHANGED <<backup, kept>>

Restored ==
    /\ At("restore")
    /\ Present(backup) = {}
    /\ updater' = Ended("failed")
    /\ UNCHANGED <<target, backup, kept>>

UpdaterCrash ==
    /\ Working
    /\ OneMoreFails
    /\ updater' = Ended("idle")
    /\ UNCHANGED <<target, backup>>

ApplyStep ==
    \/ MoveOldClient \/ ClientsMoved \/ FileEntry \/ FolderEntry
    \/ CopyFile \/ EntryCopied \/ ApplyDone \/ ApplyFails
    \/ RestoreFile \/ RestoreFails \/ Restored \/ UpdaterCrash

ApplyTypeOK ==
    /\ target \in [Files -> Nat \cup {Absent, Torn}]
    /\ backup \in [Files -> Nat \cup {Absent, Torn}]
    /\ updater.pc \in {"idle", "clients", "entries", "copy", "restore", "done", "failed"}
    /\ updater.copies \subseteq Files /\ updater.entries \subseteq Shipped
    /\ kept.orphans \subseteq Files /\ kept.failures \in 0 .. MaxFailures

-----------------------------------------------------------------------------
\* What an update removes and need not replace: old client binaries, and all that
\* was in a directory the release has too, but for the local libraries.  A file
\* the user put into such a directory is gone for good.
Replaced == {folder \in Folders : folder \cap Shipped # {}}
Removed == OldClients \cup ((UNION Replaced) \ Libraries)

\* What a file is after an update from "before" that succeeded: the release has
\* the word on its own files, on its directories and on old client binaries; every
\* other file (at the top, under models/ or runtime/, in a directory the release
\* lacks), and a library that only the installation has, is as it was.
Updated(before) ==
    [f \in Files |->
        IF f \in Shipped THEN updater.release
        ELSE IF f \in Removed THEN Absent ELSE before[f]]

\* An update that ended replaced everything, and kept what is local; one that
\* failed, and could put its backup back, left every file that was there as it
\* was.  Torn files come from a release that was staged in part.
AllOrNothing(soundlyStaged) ==
    /\ At("done") /\ soundlyStaged => target = Updated(kept.target)
    /\ At("failed") /\ Present(backup) = {} =>
          \A f \in Present(kept.target) : target[f] = kept.target[f]

\* The first content of a file is in the installation, in the backup of the updater,
\* or in one that a killed updater left.  Only an update that ended destroys it, this
\* one or an earlier one, and only of a file the release has the word on.
OriginalsSurvive ==
    \A f \in Installed :
        \/ target[f] = 0 \/ backup[f] = 0 \/ f \in kept.orphans
        \/ f \in Shipped \cup Removed /\ (kept.target[f] # 0 \/ At("done"))
=============================================================================
