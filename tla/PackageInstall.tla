--------------------------- MODULE PackageInstall ---------------------------
(***************************************************************************)
(* Model packages on disk (xrtranslate-assets/src/install.rs) and the      *)
(* operations of the processes that share them: installation through a     *)
(* staging directory, removal of a package and of its staging.             *)
(*                                                                         *)
(* A lock file per package keeps installations and removals apart.  The    *)
(* staging of a package is also swept by those that do not hold its lock:  *)
(* after a cancelled installation, and when a package whose name begins    *)
(* with another's is taken for an old revision of that one.                *)
(***************************************************************************)
EXTENDS Naturals, ArtifactFile

CONSTANTS
    Processes,
    Packages,
    FileCount,    \* files of a package
    Missing,      \* in the place of a directory
    Prefixed,     \* <<k, l>>: the name of l is that of k, "-" and more
    LockLeft,     \* what may become of the lock of a process that died: "free"
                  \* (Windows), "stale" (a file, elsewhere)
    MaxCrashes    \* bound: processes killed

ASSUME PackageAssumption ==
    /\ FileCount \in Nat \ {0}
    /\ \A files \in [1..FileCount -> FileStates] : files # Missing
    /\ \A files \in SUBSET (1..FileCount) : files # Missing
    /\ Prefixed \subseteq Packages \X Packages
    /\ \A a, b \in Prefixed : a[1] = b[1] => a = b  \* as in the catalogue
    /\ LockLeft \subseteq {"free", "stale"}
    /\ MaxCrashes \in Nat
    /\ Processes \cap {"free", "stale"} = {}

VARIABLES
    staging,  \* per package, the states of its files in staging
    active,   \* per package, its verified files at the destination
    foreign,  \* the packages whose directory holds a file of the user
    lock,     \* per package, the process that holds its lock
    proc,     \* per process, its operation
    seen      \* history: crashes, and the packages that were swept by a process
              \* that did not hold their lock while another did

diskVars == <<staging, active, foreign, lock>>
vars == <<staging, active, foreign, lock, proc, seen>>

Files == 1..FileCount
Empty == [f \in Files |-> "absent"]
NoSweep == [pkg |-> "none", files |-> {}, dir |-> "none", next |-> "none"]
NoOperation == [pc |-> "idle", op |-> "none", pkg |-> "none", file |-> 1,
                sweep |-> NoSweep, cancelled |-> FALSE, alone |-> FALSE, result |-> "none"]

PackageInit ==
    /\ staging = [k \in Packages |-> Missing]
    /\ active \in [Packages -> {Missing, Files}]
    /\ foreign \in SUBSET {k \in Packages : active[k] # Missing}
    /\ lock = [k \in Packages |-> "free"]
    /\ proc = [p \in Processes |-> NoOperation]
    /\ seen = [crashes |-> 0, raced |-> {}]

-----------------------------------------------------------------------------
At(p, pc) == proc[p].pc = pc
Pkg(p) == proc[p].pkg
Goto(p, pc) == [proc[p] EXCEPT !.pc = pc, !.file = 1]
Becomes(p, operation) == proc' = [proc EXCEPT ![p] = operation]
Quiet(p) == proc[p].pc \in {"idle", "done"}

\* The operation is the only one, and nothing that only a removal can repair is
\* in its way.
Undisturbed(p, k) ==
    /\ \A q \in Processes \ {p} : Quiet(q)
    /\ lock[k] # "stale"
    /\ active[k] \in {Missing, Files}

First(op) == CASE op = "install" -> "look" [] op = "remove" -> "lock" [] OTHER -> "clear"

Operation(p, op, k) ==
    [NoOperation EXCEPT !.pc = First(op), !.op = op, !.pkg = k, !.alone = Undisturbed(p, k)]

\* The operations of all processes once p began one
Began(p, operation) ==
    [q \in Processes |-> IF q = p THEN operation ELSE [proc[q] EXCEPT !.alone = FALSE]]

Begin(p, op, k) ==
    /\ At(p, "idle")
    /\ proc' = Began(p, Operation(p, op, k))
    /\ UNCHANGED <<diskVars, seen>>

\* What install_model does with the outcome of an installation: one that fails
\* after its cancellation clears the staging, whatever the failure was.
Outcome(p, result) ==
    IF proc[p].op = "install" /\ proc[p].cancelled /\ result = "error"
    THEN [Goto(p, "clear") EXCEPT !.result = "cancelled"]
    ELSE [Goto(p, "done") EXCEPT !.result = result]

Release(p, result) == [Goto(p, "unlock") EXCEPT !.result = result]
Fails(p) == [Release(p, "error") EXCEPT !.alone = FALSE]

\* The destination is looked at before the lock is taken
Look(p) ==
    /\ At(p, "look")
    /\ Becomes(p, CASE active[Pkg(p)] = Missing -> Goto(p, "lock")
                    [] active[Pkg(p)] = Files -> Outcome(p, "ok")
                    [] OTHER -> Outcome(p, "error"))
    /\ UNCHANGED <<diskVars, seen>>

\* Mutant: an installer goes on though another process has the lock.
AcquireShared(p) ==
    /\ At(p, "lock")
    /\ IF lock[Pkg(p)] = "free" \/ proc[p].op = "install"
       THEN /\ lock' = [lock EXCEPT ![Pkg(p)] = p]
            /\ Becomes(p, Goto(p, IF proc[p].op = "install" THEN "prune" ELSE "clear"))
       ELSE Becomes(p, Outcome(p, "error")) /\ UNCHANGED lock
    /\ UNCHANGED <<staging, active, foreign, seen>>

\* InstallLock::acquire
Acquire(p) ==
    /\ At(p, "lock")
    /\ IF lock[Pkg(p)] = "free"
       THEN /\ lock' = [lock EXCEPT ![Pkg(p)] = p]
            /\ Becomes(p, Goto(p, IF proc[p].op = "install" THEN "prune" ELSE "clear"))
       ELSE Becomes(p, Outcome(p, "error")) /\ UNCHANGED lock
    /\ UNCHANGED <<staging, active, foreign, seen>>

Unlock(p) ==
    /\ At(p, "unlock")
    /\ lock' = [lock EXCEPT ![Pkg(p)] = "free"]
    /\ Becomes(p, Outcome(p, proc[p].result))
    /\ UNCHANGED <<staging, active, foreign, seen>>

-----------------------------------------------------------------------------
(* remove_dir_all of a staging directory, which it holds open: it goes on in *)
(* the directory when that is renamed                                        *)

Sweeping(p, k, next) ==
    [proc[p] EXCEPT !.pc = "sweep",
        !.sweep = [pkg |-> k, dir |-> "staging", next |-> next,
                   files |-> {f \in Files : staging[k][f] # "absent"}]]

\* prune_obsolete_model_staging: the names in the staging parent that begin with
\* the name of this package
Obsolete(k) == {l \in Packages : <<k, l>> \in Prefixed /\ staging[l] # Missing}

Prune(p) ==
    /\ At(p, "prune")
    /\ IF Obsolete(Pkg(p)) = {} THEN Becomes(p, Goto(p, "fetch"))
       ELSE \E l \in Obsolete(Pkg(p)) : Becomes(p, Sweeping(p, l, "fetch"))
    /\ UNCHANGED <<diskVars, seen>>

\* clear_model_staging, under the lock when a package is removed
Clear(p) ==
    /\ At(p, "clear")
    /\ LET next == IF proc[p].op = "remove" THEN "files" ELSE "done" IN
       Becomes(p, IF staging[Pkg(p)] = Missing THEN Goto(p, next)
                  ELSE Sweeping(p, Pkg(p), next))
    /\ UNCHANGED <<diskVars, seen>>

SweepFile(p) ==
    /\ At(p, "sweep")
    /\ LET s == proc[p].sweep
           k == s.pkg
           others == Processes \ {p}
       IN \E f \in s.files :
            /\ Becomes(p, [proc[p] EXCEPT !.sweep.files = @ \ {f}])
            /\ staging' = IF s.dir = "staging"
                          THEN [staging EXCEPT ![k][f] = "absent"] ELSE staging
            /\ active' = IF s.dir = "active" THEN [active EXCEPT ![k] = @ \ {f}] ELSE active
            /\ seen' = IF s.dir = "active" \/ lock[k] \in others
                       THEN [seen EXCEPT !.raced = @ \cup {k}] ELSE seen
    /\ UNCHANGED <<foreign, lock>>

\* The handles on directory `dir` of k after it became `to`
Moved(operations, k, dir, to) ==
    [q \in Processes |->
        IF operations[q].sweep.pkg = k /\ operations[q].sweep.dir = dir
        THEN [operations[q] EXCEPT !.sweep.dir = to] ELSE operations[q]]

\* A sweep that fails ends a removal or an installation, which hold a lock
SweepFailed(p) ==
    IF proc[p].sweep.next = "done" THEN [Goto(p, "done") EXCEPT !.result = "error"]
    ELSE Fails(p)

SweepFails(p) ==
    /\ At(p, "sweep")
    /\ Becomes(p, [SweepFailed(p) EXCEPT !.sweep = NoSweep])
    /\ UNCHANGED <<diskVars, seen>>

\* The directory itself goes, by its path, if nobody has put a file there
SweepEnds(p) ==
    /\ At(p, "sweep")
    /\ proc[p].sweep.files = {}
    /\ LET s == proc[p].sweep
           finished == [proc EXCEPT ![p] =
                          [Goto(p, s.next) EXCEPT !.sweep = NoSweep]]
       IN CASE staging[s.pkg] = Missing ->
                 proc' = finished /\ UNCHANGED staging
            [] staging[s.pkg] = Empty ->
                 /\ proc' = Moved(finished, s.pkg, "staging", "gone")
                 /\ staging' = [staging EXCEPT ![s.pkg] = Missing]
            [] OTHER ->
                 /\ Becomes(p, [SweepFailed(p) EXCEPT !.sweep = NoSweep])
                 /\ UNCHANGED staging
    /\ UNCHANGED <<active, foreign, lock, seen>>

-----------------------------------------------------------------------------
(* The files of a package, one after the other *)

Next1(p) == [proc[p] EXCEPT !.file = @ + 1]
Staged(p) == IF staging[Pkg(p)] = Missing THEN Empty ELSE staging[Pkg(p)]

\* Mutant: a file that is there in part counts as downloaded.
FetchSkipsPartial(p) ==
    /\ At(p, "fetch")
    /\ proc[p].file \in Files
    /\ LET before == Staged(p)[proc[p].file] IN
       IF before # "absent"
       THEN Becomes(p, Next1(p)) /\ UNCHANGED staging
       ELSE /\ ~proc[p].cancelled
            /\ UNCHANGED proc
            /\ \E after \in FileStates :
                  /\ FileStep(before, after)
                  /\ staging' = [staging EXCEPT ![Pkg(p)] =
                                   [Staged(p) EXCEPT ![proc[p].file] = after]]
    /\ UNCHANGED <<active, foreign, lock, seen>>

\* download_to makes the directory when it is not there.  A cancelled download
\* starts no other attempt; a file that is whole is not downloaded.
Fetch(p) ==
    /\ At(p, "fetch")
    /\ proc[p].file \in Files
    /\ LET before == Staged(p)[proc[p].file] IN
       IF before = "whole"
       THEN Becomes(p, Next1(p)) /\ UNCHANGED staging
       ELSE /\ \E after \in FileStates :
                  /\ FileStep(before, after)
                  /\ proc[p].cancelled => before = "partial"
                  /\ staging' = [staging EXCEPT ![Pkg(p)] =
                                   [Staged(p) EXCEPT ![proc[p].file] = after]]
            /\ UNCHANGED proc
    /\ UNCHANGED <<active, foreign, lock, seen>>

\* The download of the file fails, or finds that it is cancelled.
FetchFails(p) ==
    /\ At(p, "fetch")
    /\ proc[p].file \in Files
    /\ Staged(p)[proc[p].file] # "whole"
    /\ Becomes(p, Fails(p))
    /\ UNCHANGED <<diskVars, seen>>

Fetched(p) ==
    /\ At(p, "fetch")
    /\ proc[p].file \notin Files
    /\ Becomes(p, Goto(p, "verify"))
    /\ UNCHANGED <<diskVars, seen>>

\* verify_integrity of the staging, file by file: hashing takes its time
Verify(p) ==
    /\ At(p, "verify")
    /\ Becomes(p, CASE proc[p].file \notin Files -> Goto(p, "activate")
                    [] proc[p].file \in Files /\ Staged(p)[proc[p].file] = "whole" -> Next1(p)
                    [] OTHER -> Release(p, "error"))
    /\ UNCHANGED <<diskVars, seen>>

\* The rename, unless the destination is there
Activate(p) ==
    /\ At(p, "activate")
    /\ LET k == Pkg(p) IN
       IF active[k] # Missing \/ staging[k] = Missing
       THEN Becomes(p, Release(p, "error")) /\ UNCHANGED <<staging, active>>
       ELSE /\ active' = [active EXCEPT ![k] = {f \in Files : staging[k][f] = "whole"}]
            /\ staging' = [staging EXCEPT ![k] = Missing]
            /\ proc' = Moved([proc EXCEPT ![p] = Release(p, "ok")], k, "staging", "active")
    /\ UNCHANGED <<foreign, lock, seen>>

\* remove_model_asset: file by file, so that nothing else is removed
RemoveFile(p) ==
    /\ At(p, "files")
    /\ proc[p].file \in Files
    /\ Becomes(p, Next1(p))
    /\ active' = IF active[Pkg(p)] = Missing THEN active
                  ELSE [active EXCEPT ![Pkg(p)] = @ \ {proc[p].file}]
    /\ UNCHANGED <<staging, foreign, lock, seen>>

\* A file is in use
RemoveFails(p) ==
    /\ At(p, "files")
    /\ active[Pkg(p)] # Missing
    /\ Becomes(p, Fails(p))
    /\ UNCHANGED <<diskVars, seen>>

\* The directory goes when nothing else is in it
Removed(p) ==
    /\ At(p, "files")
    /\ proc[p].file \notin Files
    /\ LET k == Pkg(p)
           released == [proc EXCEPT ![p] = Release(p, "ok")]
       IN IF active[k] = {} /\ k \notin foreign
          THEN /\ active' = [active EXCEPT ![k] = Missing]
               /\ proc' = Moved(released, k, "active", "gone")
          ELSE proc' = released /\ UNCHANGED active
    /\ UNCHANGED <<staging, foreign, lock, seen>>

\* A process is killed
Crash(p) ==
    /\ seen.crashes < MaxCrashes
    /\ ~Quiet(p)
    /\ \E left \in LockLeft :
          lock' = [k \in Packages |-> IF lock[k] = p THEN left ELSE lock[k]]
    /\ Becomes(p, NoOperation)
    /\ seen' = [seen EXCEPT !.crashes = @ + 1]
    /\ UNCHANGED <<staging, active, foreign>>

Work(p) ==
    \/ Look(p) \/ Acquire(p) \/ Unlock(p) \/ Prune(p) \/ Clear(p)
    \/ SweepFile(p) \/ SweepFails(p) \/ SweepEnds(p)
    \/ Fetch(p) \/ Fetched(p) \/ Verify(p) \/ Activate(p)
    \/ RemoveFile(p) \/ RemoveFails(p) \/ Removed(p)

Step(p) == Work(p) \/ FetchFails(p)
=============================================================================
