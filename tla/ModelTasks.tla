----------------------------- MODULE ModelTasks -----------------------------
(***************************************************************************)
(* The model packages and those who work on them: the task manager of each *)
(* client (rust-client/src/model_install.rs), whose worker thread installs *)
(* while its UI thread polls, removes and switches the download source,    *)
(* and command-line installers.                                            *)
(***************************************************************************)
EXTENDS PackageInstall

CONSTANTS
    Clients,    \* processes with a task manager; the others are installers
    MaxStarts,  \* bound: installations and removals asked for
    MaxSwitches \* bound: changes of the download source

ASSUME TaskAssumption == Clients \subseteq Processes /\ {MaxStarts, MaxSwitches} \subseteq Nat

VARIABLES
    ui,     \* per client: state, the flags of its manager, the package of its task
    asked   \* history: starts and switches

taskVars == <<vars, ui, asked>>

NoTask == [state |-> "idle", restart |-> FALSE, rediscover |-> FALSE]

Init ==
    /\ PackageInit
    /\ ui = [c \in Clients |-> NoTask]
    /\ asked = [starts |-> 0, switches |-> 0]

-----------------------------------------------------------------------------
Busy(c) == ui[c].state \in {"discovering", "installing"}

\* The UI thread is not inside a removal or a sweep of its own.
Responsive(c) == proc[c].op \in {"none", "install"}

Show(c, state) == ui' = [ui EXCEPT ![c].state = state]
NothingAsked == UNCHANGED asked
NoDiskWork == UNCHANGED <<diskVars, proc, seen>>

AskFor(p, op, k) ==
    /\ asked.starts < MaxStarts
    /\ asked' = [asked EXCEPT !.starts = @ + 1]
    /\ Begin(p, op, k)

Install(c, k) ==
    /\ ~Busy(c)
    /\ AskFor(c, "install", k)
    /\ Show(c, "installing")

\* The UI thread removes the package itself.
Delete(c, k) ==
    /\ ~Busy(c)
    /\ AskFor(c, "remove", k)
    /\ UNCHANGED ui

InstallerRuns(p, k) == AskFor(p, "install", k) /\ UNCHANGED ui

\* A presence scan, which reads the names of the files only; the pages ask for
\* it whenever needs_discovery says so.
Discover(c) ==
    /\ Responsive(c)
    /\ ui[c].state \in {"idle", "installed"}
    /\ Show(c, "discovering")
    /\ NoDiskWork /\ NothingAsked

InvalidateDiscovery(c) ==
    /\ Responsive(c)
    /\ ui' = [ui EXCEPT ![c] = IF Busy(c) THEN [@ EXCEPT !.rediscover = TRUE]
                               ELSE [@ EXCEPT !.state = "idle"]]
    /\ NoDiskWork /\ NothingAsked

SwitchStarts == asked.switches < MaxSwitches /\ asked' = [asked EXCEPT !.switches = @ + 1]

\* switch_download_source while a package is installed: its worker is told to
\* stop, and the task is started again when it has.
SwitchWhileInstalling(c) ==
    /\ ui[c].state = "installing"
    /\ SwitchStarts
    /\ ui' = [ui EXCEPT ![c].restart = TRUE]
    /\ Becomes(c, [proc[c] EXCEPT !.cancelled = TRUE, !.alone = FALSE])
    /\ UNCHANGED <<diskVars, seen>>

\* At any other time the staging of the package is cleared, on the UI thread
Switch(c, k) ==
    /\ ui[c].state # "installing"
    /\ Responsive(c)
    /\ SwitchStarts
    /\ Begin(c, "clear", k)
    /\ UNCHANGED ui

-----------------------------------------------------------------------------
(* poll *)

\* A result is shown, unless a scan was asked for meanwhile.
Shown(task, state) ==
    [task EXCEPT !.state = IF task.rediscover THEN "idle" ELSE state, !.rediscover = FALSE]

\* Mutant: a cancelled task is over.
ResultIgnoringRestart(c) ==
    /\ proc[c].op = "install" /\ At(c, "done")
    /\ ui' = [ui EXCEPT ![c] = Shown(@, "idle")]
    /\ Becomes(c, NoOperation)

Result(c) ==
    /\ proc[c].op = "install" /\ At(c, "done")
    /\ IF proc[c].result = "cancelled" /\ ui[c].restart
       THEN /\ ui' = [ui EXCEPT ![c].restart = FALSE]
            /\ proc' = Began(c, Operation(c, "install", Pkg(c)))
       ELSE /\ ui' = [ui EXCEPT ![c] = Shown(@, CASE proc[c].result = "ok" -> "installed"
                                                   [] proc[c].result = "cancelled" -> "idle"
                                                   [] OTHER -> "failed")]
            /\ Becomes(c, NoOperation)

Poll(c) ==
    /\ Result(c)
    /\ UNCHANGED <<diskVars, seen>> /\ NothingAsked

Discovered(c) ==
    /\ Responsive(c)
    /\ ui[c].state = "discovering"
    /\ \E state \in {"detected", "failed"} : ui' = [ui EXCEPT ![c] = Shown(@, state)]
    /\ NoDiskWork /\ NothingAsked

\* A removal or a sweep of the UI thread returns; an installer ends.
Returns(p) ==
    /\ At(p, "done")
    /\ p \in Clients => proc[p].op # "install"
    /\ ui' = IF p \in Clients /\ proc[p].op = "remove" /\ proc[p].result = "ok"
             THEN [ui EXCEPT ![p].state = "idle"] ELSE ui
    /\ Becomes(p, NoOperation)
    /\ UNCHANGED <<diskVars, seen>> /\ NothingAsked

Killed(p) ==
    /\ Crash(p)
    /\ ui' = IF p \in Clients THEN [ui EXCEPT ![p] = NoTask] ELSE ui
    /\ NothingAsked

Asks ==
    \E k \in Packages :
        \/ \E c \in Clients : Install(c, k) \/ Delete(c, k) \/ Switch(c, k)
        \/ \E p \in Processes \ Clients : InstallerRuns(p, k)

Works(p) == Work(p) /\ UNCHANGED <<ui, asked>>
FetchEnds(p) == FetchFails(p) /\ UNCHANGED <<ui, asked>>

Next ==
    \/ Asks
    \/ \E c \in Clients : \/ Discover(c) \/ InvalidateDiscovery(c)
                          \/ SwitchWhileInstalling(c) \/ Poll(c) \/ Discovered(c)
    \/ \E p \in Processes : Works(p) \/ FetchEnds(p) \/ Returns(p) \/ Killed(p)

Spec == Init /\ [][Next]_taskVars

\* Every process is scheduled, the UI thread polls on every frame, and the
\* download of a file ends (CallReturns of Download).
FairSpec ==
    /\ Spec
    /\ \A p \in Processes : /\ WF_taskVars(Works(p))
                            /\ WF_taskVars(FetchEnds(p))
                            /\ WF_taskVars(Returns(p))
    /\ \A c \in Clients : WF_taskVars(Poll(c)) /\ WF_taskVars(Discovered(c))

-----------------------------------------------------------------------------
\* What appears at the destination of a package appears whole, and afterwards
\* only a removal that holds the lock takes from it ("Atomically enables one
\* fully downloaded package"; "The installer never deletes an active model
\* package"): whatever other processes do, crashes and downloads leave behind.
\* UnsweptIsAtomic says it of packages that were not swept without their lock
\* while another process was installing them.
Removing(k) == \E p \in Processes : At(p, "files") /\ Pkg(p) = k /\ lock[k] = p

AtomicFor(k) ==
    active'[k] # active[k] =>
        Removing(k) \/ (active[k] = Missing /\ active'[k] = Files)

UnsweptIsAtomic == [][\A k \in Packages \ seen'.raced : AtomicFor(k)]_taskVars

\* An installation that no other process crosses, nobody cancels and every
\* download of which succeeds, succeeds: whatever crashes, cancellations and
\* failures left in staging ("preserve the staging directory for a safe retry").
\* Not so after a crash that left its lock, or a removal that stopped halfway.
RetryIsSafe ==
    \A p \in Processes :
        /\ At(p, "done") /\ proc[p].op = "install" /\ proc[p].alone
        => proc[p].result = "ok" /\ active[Pkg(p)] = Files

\* A source that is switched while a package is installed leads to the package
\* or to an error, not to a task that is forgotten ("the same package is
\* restarted through the newly selected source"), unless the client is killed.
SwitchRestarts ==
    \A c \in Clients, n \in 0..MaxCrashes :
        (ui[c].state = "installing" /\ ui[c].restart /\ seen.crashes = n)
            ~> (ui[c].state \in {"installed", "failed"} \/ ui[c].rediscover
                \/ seen.crashes # n)
=============================================================================
