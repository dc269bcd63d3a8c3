----------------------------- MODULE AppUpdate -----------------------------
(***************************************************************************)
(* The update of the application: AppUpdateManager in the client, its      *)
(* checker and download threads, the staging directory of a release that   *)
(* the threads share, and the updater that takes over when the client has  *)
(* exited.  A thread is never cancelled: a switch of the update channel    *)
(* only drops the receiver of its events.                                  *)
(*                                                                         *)
(* The archive itself is fetched as in Download and verified before it is  *)
(* unpacked.                                                               *)
(***************************************************************************)
EXTENDS UpdateApply

CONSTANTS
    MaxRelease,   \* bound: releases are 1 .. MaxRelease, newer ones greater
    Stable,       \* those of the stable channel; the beta channel has them all
    Client,       \* the file with the entry points the manifest names
    Threads,      \* bound: download threads alive at a time
    MaxTurns      \* bound: switches of the update channel, and exits of the client
                  \* that are not for an update

Releases == 1 .. MaxRelease

ASSUME UpdateAssumption ==
    /\ MaxRelease \in Nat /\ Stable \subseteq Releases
    /\ Client \in (Shipped \cap Installed) \ UNION Folders
    /\ MaxTurns \in Nat

VARIABLES
    app,      \* the client process with its AppUpdateManager
    thread,   \* per download thread, where it is
    staged,   \* per release, the files in its staging directory
    past      \* history: switches and exits, and the releases that two threads staged at once

vars == <<applyVars, app, thread, staged, past>>

Of(channel) == IF channel = "stable" THEN Stable ELSE Releases

NoEvents == [kind |-> "none", of |-> "none"]
NewApp(version, channel) ==
    [running |-> TRUE, version |-> version, channel |-> channel, state |-> "idle",
     available |-> 0, prepared |-> 0, events |-> NoEvents]
Exited == [NewApp(0, app.channel) EXCEPT !.running = FALSE]
NoThread == [pc |-> "none", release |-> 0, todo |-> {}, file |-> Absent]

Init ==
    /\ ApplyInit
    /\ \E channel \in {"stable", "beta"} : app = NewApp(0, channel)
    /\ thread = [t \in Threads |-> NoThread]
    /\ staged = [r \in Releases |-> Nothing(Shipped)]
    /\ past = [turns |-> 0, overlapped |-> {}]

CheckingFor(channel) ==
    [app EXCEPT !.channel = channel, !.state = "checking",
                !.events = [kind |-> "check", of |-> channel]]

-----------------------------------------------------------------------------
(* The user and the manager, on the thread of the interface                *)

Manage == UNCHANGED <<applyVars, staged>>

\* What the interface offers goes by the state: to check, to download, to install.
CheckForUpdates ==
    /\ app.running /\ app.state \in {"idle", "current", "failed"}
    /\ app' = CheckingFor(app.channel)
    /\ UNCHANGED <<thread, past>> /\ Manage

\* Mutant: the receiver of the check that is under way stays.
SetChannelKeepsEvents ==
    /\ app.running
    /\ past.turns < MaxTurns
    /\ \E channel \in {"stable", "beta"} \ {app.channel} :
          app' = [CheckingFor(channel) EXCEPT
                    !.available = 0, !.prepared = 0,
                    !.events = IF app.events.kind = "check" THEN app.events ELSE @]
    /\ past' = [past EXCEPT !.turns = @ + 1]
    /\ UNCHANGED thread /\ Manage

\* set_update_channel: whatever is under way is forgotten, then check() runs.
SetChannel ==
    /\ app.running
    /\ past.turns < MaxTurns
    /\ \E channel \in {"stable", "beta"} \ {app.channel} :
          app' = [CheckingFor(channel) EXCEPT !.available = 0, !.prepared = 0]
    /\ past' = [past EXCEPT !.turns = @ + 1]
    /\ UNCHANGED thread /\ Manage

\* The answer to a check names a release of the channel it was made for.
PollChecked ==
    /\ app.running /\ app.events.kind = "check"
    /\ \E found \in {r \in Of(app.events.of) : r > app.version} \cup {0} :
          \/ app' = [app EXCEPT !.state = IF found = 0 THEN "current" ELSE "available",
                                !.available = found, !.prepared = 0, !.events = NoEvents]
          \/ app' = [app EXCEPT !.state = "failed", !.events = NoEvents]
    /\ UNCHANGED <<thread, past>> /\ Manage

StagingOf(release) == {t \in Threads : thread[t].pc # "none" /\ thread[t].release = release}

DownloadUpdate ==
    /\ app.running /\ app.state = "available" /\ app.available # 0
    /\ \E t \in Threads :
          /\ thread[t].pc = "none"
          /\ thread' = [thread EXCEPT ![t] = [NoThread EXCEPT !.pc = "reset",
                                                              !.release = app.available]]
          /\ app' = [app EXCEPT !.state = "downloading",
                                !.events = [kind |-> "download", of |-> t]]
    /\ past' = [past EXCEPT !.overlapped =
                  @ \cup {r \in {app.available} : StagingOf(r) # {}}]
    /\ Manage

\* The end of the thread whose events the manager receives
PollPrepared ==
    /\ app.running /\ app.events.kind = "download"
    /\ LET t == app.events.of
       IN /\ thread[t].pc \in {"prepared", "failed"}
          /\ app' = IF thread[t].pc = "prepared"
                    THEN [app EXCEPT !.state = "ready", !.prepared = thread[t].release,
                                     !.events = NoEvents]
                    ELSE [app EXCEPT !.state = "failed", !.events = NoEvents]
          /\ thread' = [thread EXCEPT ![t] = NoThread]
    /\ UNCHANGED past /\ Manage

\* An event of a thread whose receiver was dropped goes nowhere.
ThreadUnheard ==
    /\ \E t \in Threads :
          /\ thread[t].pc \in {"prepared", "failed"}
          /\ app.events # [kind |-> "download", of |-> t]
          /\ thread' = [thread EXCEPT ![t] = NoThread]
    /\ UNCHANGED <<app, past>> /\ Manage

AllStop == thread' = [t \in Threads |-> NoThread]

MayInstall ==
    /\ app.running /\ app.state = "ready" /\ app.prepared # 0
    /\ staged[app.prepared][Client] # Absent

\* begin_install, spawn_updater, exit: every thread ends where it is.
InstallUpdate ==
    /\ MayInstall
    /\ BeginApply(app.prepared, staged[app.prepared])
    /\ app' = Exited
    /\ AllStop
    /\ UNCHANGED <<staged, past>>

\* The updater cannot be started: the manager is "installing", thus busy, until
\* the channel is switched or the client ends.
InstallCannotStart ==
    /\ MayInstall
    /\ app' = [app EXCEPT !.state = "installing"]
    /\ UNCHANGED <<thread, past>> /\ Manage

AppQuits ==
    /\ app.running
    /\ past.turns < MaxTurns
    /\ app' = Exited
    /\ AllStop
    /\ past' = [past EXCEPT !.turns = @ + 1]
    /\ Manage

\* By restart_app or by the user.  A client that is missing or torn does not start.
AppStarts ==
    /\ ~app.running /\ ~Working
    /\ target[Client] \in Nat
    /\ app' = NewApp(target[Client], app.channel)
    /\ UNCHANGED <<thread, past>> /\ Manage

-----------------------------------------------------------------------------
(* download_and_stage, on a thread of its own                              *)

Stage == UNCHANGED <<applyVars, app, past>>
Thread(t, pc) == thread[t].pc = pc
Over(pc, t) == [NoThread EXCEPT !.pc = pc, !.release = thread[t].release]
Goes(t, pc) == thread' = [thread EXCEPT ![t].pc = pc]

ThreadFails ==
    /\ \E t \in Threads : 
          /\ thread[t].pc \in {"reset", "fetch", "unpack"}
          /\ thread' = [thread EXCEPT ![t] = Over("failed", t)]
    /\ UNCHANGED staged /\ Stage

\* Mutant: what an earlier thread unpacked stays, and counts as unpacked.
KeepStaging ==
    /\ \E t \in Threads :
          /\ Thread(t, "reset")
          /\ thread' = [thread EXCEPT
               ![t].pc = IF staged[thread[t].release][Client] = Absent THEN "fetch" ELSE "unpack"]
    /\ UNCHANGED staged /\ Stage

\* reset_directory
ResetStaging ==
    /\ \E t \in Threads :
          /\ Thread(t, "reset") /\ Goes(t, "fetch")
          /\ staged' = [staged EXCEPT ![thread[t].release] = Nothing(Shipped)]
    /\ Stage

FetchArchive ==
    /\ \E t \in Threads :
          /\ Thread(t, "fetch")
          /\ thread' = [thread EXCEPT ![t].pc = "unpack", ![t].todo = Shipped]
    /\ UNCHANGED staged /\ Stage

\* extract_zip: a file is created empty, then written
UnpackBegins ==
    /\ \E t \in Threads : \E f \in thread[t].todo :
          /\ Thread(t, "unpack") /\ thread[t].file = Absent
          /\ thread' = [thread EXCEPT ![t].file = f, ![t].todo = @ \ {f}]
          /\ staged' = [staged EXCEPT ![thread[t].release][f] = Torn]
    /\ Stage

\* A file that was removed meanwhile is written without a name.
UnpackEnds ==
    /\ \E t \in Threads :
          /\ Thread(t, "unpack") /\ thread[t].file # Absent
          /\ thread' = [thread EXCEPT ![t].file = Absent]
          /\ staged' = [staged EXCEPT ![thread[t].release][thread[t].file] =
                          IF @ = Absent THEN Absent ELSE thread[t].release]
    /\ Stage

\* release_source_directory, validate_staged_release: the manifest and the entry
\* points are there
Validate ==
    /\ \E t \in Threads :
          /\ Thread(t, "unpack") /\ thread[t].todo = {} /\ thread[t].file = Absent
          /\ Goes(t, IF staged[thread[t].release][Client] = Absent THEN "failed" ELSE "prepared")
    /\ UNCHANGED staged /\ Stage

-----------------------------------------------------------------------------
Update == ApplyStep /\ UNCHANGED <<app, thread, staged, past>>

Next ==
    \/ CheckForUpdates \/ SetChannel \/ PollChecked \/ DownloadUpdate \/ PollPrepared
    \/ ThreadUnheard \/ InstallUpdate \/ InstallCannotStart \/ AppQuits \/ AppStarts
    \/ ThreadFails \/ ResetStaging \/ FetchArchive \/ UnpackBegins \/ UnpackEnds \/ Validate
    \/ Update

Spec == Init /\ [][Next]_vars

-----------------------------------------------------------------------------
TypeOK ==
    /\ ApplyTypeOK
    /\ app.state \in {"idle", "checking", "current", "available", "downloading",
                      "ready", "installing", "failed"}
    /\ app.available \in {0} \cup Releases /\ app.prepared \in {0} \cup Releases
    /\ \A t \in Threads :
          thread[t].pc \in {"none", "reset", "fetch", "unpack", "prepared", "failed"}
    /\ staged \in [Releases -> [Shipped -> Releases \cup {Absent, Torn}]]

\* What the manager offers to download or to install is a release of the channel
\* that is selected, though checks and downloads made for another one go on.
OfferIsOfChannel ==
    {app.available, app.prepared} \subseteq {0} \cup Of(app.channel)

\* An update that ended replaced every file, and one that failed and was put back
\* changed none (see AllOrNothing), whatever was cut short before: a download, an
\* unpacking, another updater.  Two threads at once on one release are excepted:
\* the second empties what the first unpacks.
UpdateIsWhole == AllOrNothing(updater.release \notin past.overlapped)
=============================================================================
