-------------------------- MODULE AppUpdate_proofs --------------------------
(***************************************************************************)
(* For every set of releases, files and threads and any number of          *)
(* switches, failures and exits: what the update manager offers is of the  *)
(* selected channel; the first content of a file is never lost; an update  *)
(* is whole, or changed nothing.                                           *)
(***************************************************************************)
EXTENDS AppUpdate, TLAPS

Channels == {"stable", "beta"}
Works == {"none", "reset", "fetch", "unpack", "prepared", "failed"}
Events == [kind : {"none", "check", "download"}, of : {"none"} \cup Channels \cup Threads]

Apps ==
    [running : BOOLEAN, version : Nat, channel : Channels,
     state : {"idle", "checking", "current", "available", "downloading",
              "ready", "installing", "failed"},
     available : Nat, prepared : Nat, events : Events]

Downloads ==
    [pc : Works, release : Nat, todo : SUBSET Shipped, file : Shipped \cup {Absent}]

\* The manager hears only of what was begun for the channel that is selected: of
\* a check, or of a thread with a release of the channel.
HearsOfChannel ==
    /\ app.events.kind = "check" => app.events.of = app.channel
    /\ app.events.kind = "download" =>
          /\ app.events.of \in Threads
          /\ thread[app.events.of].release \in Of(app.channel)

IInv ==
    /\ app \in Apps
    /\ thread \in [Threads -> Downloads]
    /\ HearsOfChannel
    /\ OfferIsOfChannel

-----------------------------------------------------------------------------
LEMMA ReleasesAreNumbers ==
    ASSUME NEW channel
    PROVE  Of(channel) \subseteq Nat
BY UpdateAssumption DEF Of, Releases

LEMMA NoThreadIsDownload == NoThread \in Downloads
BY DEF NoThread, Downloads, Works

LEMMA NothingHeard == NoEvents \in Events /\ NoEvents.kind = "none"
BY DEF NoEvents, Events

LEMMA NewAppInv ==
    ASSUME NEW version \in Nat, NEW channel \in Channels
    PROVE  /\ NewApp(version, channel) \in Apps
           /\ NewApp(version, channel).channel = channel
           /\ NewApp(version, channel).available = 0
           /\ NewApp(version, channel).prepared = 0
           /\ NewApp(version, channel).events.kind = "none"
BY DEF NewApp, NoEvents, Apps, Events, Channels

LEMMA InitInv == Init => IInv
<1> SUFFICES ASSUME Init PROVE IInv
  OBVIOUS
<1>1. PICK channel \in Channels : app = NewApp(0, channel)
  BY DEF Init, Channels
<1>2. thread \in [Threads -> Downloads]
  BY NoThreadIsDownload DEF Init
<1> QED BY <1>1, <1>2, NewAppInv DEF IInv, HearsOfChannel, OfferIsOfChannel

\* A manager that hears of nothing offers what it offered, or less.
LEMMA DeafInv ==
    ASSUME app' \in Apps, thread' \in [Threads -> Downloads],
           app'.events.kind = "none",
           {app'.available, app'.prepared} \subseteq {0} \cup Of(app'.channel)
    PROVE  IInv'
BY DEF IInv, HearsOfChannel, OfferIsOfChannel, Of

\* A step of the threads behind the interface, which keep their releases
LEMMA StageInv ==
    ASSUME IInv, UNCHANGED app, thread' \in [Threads -> Downloads],
           \A t \in Threads : thread'[t].release = thread[t].release
    PROVE  IInv'
BY DEF IInv, HearsOfChannel, OfferIsOfChannel, Of

\* All that a manager and its threads forget when the client ends
LEMMA ExitInv ==
    ASSUME IInv, app' = Exited, AllStop
    PROVE  IInv'
<1>1. app.channel \in Channels
  BY DEF IInv, Apps
<1>2. /\ app' \in Apps /\ app'.events.kind = "none"
      /\ app'.available = 0 /\ app'.prepared = 0
  <2> DEFINE new == NewApp(0, app.channel)
  <2>1. /\ new \in Apps /\ new.events.kind = "none"
        /\ new.available = 0 /\ new.prepared = 0
    BY <1>1, NewAppInv
  <2>2. app' = [new EXCEPT !.running = FALSE]
    BY DEF Exited
  <2> HIDE DEF new
  <2> QED BY <2>1, <2>2 DEF Apps
<1>3. thread' \in [Threads -> Downloads]
  BY NoThreadIsDownload DEF AllStop
<1> QED BY <1>2, <1>3, DeafInv

-----------------------------------------------------------------------------
LEMMA ManagerInv ==
    ASSUME IInv,
           \/ CheckForUpdates \/ SetChannel \/ PollChecked \/ DownloadUpdate
           \/ PollPrepared \/ InstallCannotStart \/ AppStarts
    PROVE  IInv'
<1>1. CASE CheckForUpdates
  <2>1. app' = CheckingFor(app.channel) /\ UNCHANGED thread
    BY <1>1 DEF CheckForUpdates
  <2>2. /\ app' \in Apps /\ app'.events = [kind |-> "check", of |-> app.channel]
        /\ app'.channel = app.channel
        /\ app'.available = app.available /\ app'.prepared = app.prepared
    BY <2>1 DEF CheckingFor, IInv, Apps, Events
  <2> QED BY <2>1, <2>2 DEF IInv, HearsOfChannel, OfferIsOfChannel, Of
<1>2. CASE SetChannel
  <2>1. PICK channel \in Channels :
          app' = [CheckingFor(channel) EXCEPT !.available = 0, !.prepared = 0]
    BY <1>2 DEF SetChannel, Channels
  <2>2. UNCHANGED thread
    BY <1>2 DEF SetChannel
  <2>3. /\ app' \in Apps /\ app'.events = [kind |-> "check", of |-> channel]
        /\ app'.channel = channel /\ app'.available = 0 /\ app'.prepared = 0
    BY <2>1 DEF CheckingFor, IInv, Apps, Events
  <2> QED BY <2>2, <2>3 DEF IInv, HearsOfChannel, OfferIsOfChannel
<1>3. CASE PollChecked
  <2>1. /\ app.events.of = app.channel /\ UNCHANGED thread
        /\ app.channel \in Channels
    BY <1>3 DEF PollChecked, IInv, HearsOfChannel, Apps
  <2>2. PICK found \in {0} \cup Of(app.channel) :
          \/ app' = [app EXCEPT !.state = IF found = 0 THEN "current" ELSE "available",
                                !.available = found, !.prepared = 0, !.events = NoEvents]
          \/ app' = [app EXCEPT !.state = "failed", !.events = NoEvents]
    BY <1>3, <2>1 DEF PollChecked
  <2>3. found \in Nat
    BY <2>2, ReleasesAreNumbers
  <2>4. /\ app' \in Apps /\ app'.events.kind = "none" /\ app'.channel = app.channel
        /\ \/ app'.available = found /\ app'.prepared = 0
           \/ app'.available = app.available /\ app'.prepared = app.prepared
    <3>1. app \in Apps
      BY DEF IInv
    <3>2. CASE app' = [app EXCEPT !.state = "failed", !.events = NoEvents]
      BY <3>1, <3>2, NothingHeard DEF Apps
    <3>3. ASSUME NEW state \in {"current", "available"},
                 app' = [app EXCEPT !.state = state, !.available = found,
                                    !.prepared = 0, !.events = NoEvents]
          PROVE  /\ app' \in Apps /\ app'.events.kind = "none" /\ app'.channel = app.channel
                 /\ app'.available = found /\ app'.prepared = 0
      BY <3>1, <3>3, <2>3, NothingHeard DEF Apps
    <3> QED BY <2>2, <3>2, <3>3
  <2> QED BY <2>1, <2>2, <2>4, DeafInv DEF IInv, OfferIsOfChannel
<1>4. CASE DownloadUpdate
  <2>1. PICK t \in Threads :
          /\ thread' = [thread EXCEPT ![t] = [NoThread EXCEPT !.pc = "reset",
                                                              !.release = app.available]]
          /\ app' = [app EXCEPT !.state = "downloading",
                                !.events = [kind |-> "download", of |-> t]]
    BY <1>4 DEF DownloadUpdate
  <2>2. app.available \in Nat /\ app.available \in Of(app.channel)
    BY <1>4 DEF DownloadUpdate, IInv, Apps, OfferIsOfChannel
  <2>3. thread' \in [Threads -> Downloads] /\ thread'[t].release = app.available
    BY <2>1, <2>2, NoThreadIsDownload DEF NoThread, Downloads, Works, IInv
  <2>4. /\ app' \in Apps /\ app'.events = [kind |-> "download", of |-> t]
        /\ app'.channel = app.channel
        /\ app'.available = app.available /\ app'.prepared = app.prepared
    BY <2>1 DEF IInv, Apps, Events
  <2> QED BY <2>1, <2>2, <2>3, <2>4 DEF IInv, HearsOfChannel, OfferIsOfChannel, Of
<1>5. CASE PollPrepared
  <2> DEFINE t == app.events.of
  <2>1. t \in Threads /\ thread[t].release \in Of(app.channel)
    BY <1>5 DEF PollPrepared, IInv, HearsOfChannel
  <2>2. thread' \in [Threads -> Downloads]
    BY <1>5, NoThreadIsDownload DEF PollPrepared, IInv
  <2>3. thread[t].release \in Nat
    BY <2>1, ReleasesAreNumbers
  <2>4. \/ app' = [app EXCEPT !.state = "ready", !.prepared = thread[t].release,
                              !.events = NoEvents]
        \/ app' = [app EXCEPT !.state = "failed", !.events = NoEvents]
    BY <1>5 DEF PollPrepared
  <2>5. /\ app' \in Apps /\ app'.events.kind = "none" /\ app'.channel = app.channel
        /\ app'.available = app.available
        /\ app'.prepared \in {app.prepared, thread[t].release}
    <3>1. app \in Apps
      BY DEF IInv
    <3>2. CASE app' = [app EXCEPT !.state = "failed", !.events = NoEvents]
      BY <3>1, <3>2, NothingHeard DEF Apps
    <3>3. CASE app' = [app EXCEPT !.state = "ready", !.prepared = thread[t].release,
                                  !.events = NoEvents]
      <4>1. PICK release \in Nat : release = thread[t].release
        BY <2>3
      <4> HIDE DEF t
      <4> QED BY <3>1, <3>3, <4>1, NothingHeard DEF Apps
    <3> QED BY <2>4, <3>2, <3>3
  <2> QED BY <2>1, <2>2, <2>5, DeafInv DEF IInv, OfferIsOfChannel
<1>6. CASE InstallCannotStart
  <2>1. app' = [app EXCEPT !.state = "installing"] /\ UNCHANGED thread
    BY <1>6 DEF InstallCannotStart
  <2>2. /\ app' \in Apps /\ app'.events = app.events /\ app'.channel = app.channel
        /\ app'.available = app.available /\ app'.prepared = app.prepared
    BY <2>1 DEF IInv, Apps
  <2> QED BY <2>1, <2>2 DEF IInv, HearsOfChannel, OfferIsOfChannel, Of
<1>7. CASE AppStarts
  <2>1. /\ app' = NewApp(target[Client], app.channel) /\ UNCHANGED thread
        /\ target[Client] \in Nat /\ app.channel \in Channels
    BY <1>7 DEF AppStarts, IInv, Apps
  <2>2. /\ app' \in Apps /\ app'.events.kind = "none"
        /\ app'.available = 0 /\ app'.prepared = 0
    BY <2>1, NewAppInv
  <2> QED BY <2>1, <2>2, DeafInv DEF IInv
<1> QED BY <1>1, <1>2, <1>3, <1>4, <1>5, <1>6, <1>7

\* What a thread does, and the end of one the manager does not hear of
LEMMA ThreadInv ==
    ASSUME IInv,
           \/ ThreadUnheard \/ ThreadFails \/ ResetStaging \/ FetchArchive
           \/ UnpackBegins \/ UnpackEnds \/ Validate
    PROVE  IInv'
<1>1. CASE ThreadUnheard
  <2>1. PICK t \in Threads :
          /\ app.events # [kind |-> "download", of |-> t]
          /\ thread' = [thread EXCEPT ![t] = NoThread]
    BY <1>1 DEF ThreadUnheard
  <2>2. UNCHANGED app
    BY <1>1 DEF ThreadUnheard
  <2>3. app.events.kind = "download" => app.events.of # t
    BY <2>1 DEF IInv, Apps, Events
  <2>4. thread' \in [Threads -> Downloads]
    BY <2>1, NoThreadIsDownload DEF IInv
  <2>5. \A u \in Threads \ {t} : thread'[u] = thread[u]
    BY <2>1 DEF IInv
  <2> QED BY <2>2, <2>3, <2>4, <2>5 DEF IInv, HearsOfChannel, OfferIsOfChannel, Of
<1>2. CASE ThreadFails
  <2>1. PICK t \in Threads : thread' = [thread EXCEPT ![t] = Over("failed", t)]
    BY <1>2 DEF ThreadFails
  <2>2. UNCHANGED app /\ thread \in [Threads -> Downloads]
    BY <1>2 DEF ThreadFails, Stage, IInv
  <2>3. Over("failed", t) \in Downloads /\ Over("failed", t).release = thread[t].release
    BY <2>2 DEF Over, NoThread, Downloads, Works
  <2> QED BY <2>1, <2>2, <2>3, StageInv
<1>3. CASE ResetStaging
  BY <1>3, StageInv DEF ResetStaging, Stage, Goes, Downloads, Works, IInv
<1>4. CASE FetchArchive
  <2>1. PICK t \in Threads :
          thread' = [thread EXCEPT ![t] = [@ EXCEPT !.pc = "unpack", !.todo = Shipped]]
    BY <1>4 DEF FetchArchive
  <2>2. UNCHANGED app /\ thread \in [Threads -> Downloads]
    BY <1>4 DEF FetchArchive, Stage, IInv
  <2> QED BY <2>1, <2>2, StageInv DEF Downloads, Works
<1>5. CASE UnpackBegins
  BY <1>5, StageInv DEF UnpackBegins, Stage, Downloads, IInv
<1>6. CASE UnpackEnds
  BY <1>6, StageInv DEF UnpackEnds, Stage, Downloads, IInv
<1>7. CASE Validate
  BY <1>7, StageInv DEF Validate, Stage, Goes, Downloads, Works, IInv
<1> QED BY <1>1, <1>2, <1>3, <1>4, <1>5, <1>6, <1>7

LEMMA UnchangedInv ==
    ASSUME IInv, UNCHANGED <<app, thread>>
    PROVE  IInv'
BY DEF IInv, HearsOfChannel, OfferIsOfChannel, Of

LEMMA InvariantNext == IInv /\ [Next]_vars => IInv'
<1> SUFFICES ASSUME IInv, [Next]_vars PROVE IInv'
  OBVIOUS
<1>1. CASE InstallUpdate \/ AppQuits
  BY <1>1, ExitInv DEF InstallUpdate, AppQuits
<1>2. CASE Update \/ UNCHANGED vars
  BY <1>2, UnchangedInv DEF Update, vars
<1> QED BY <1>1, <1>2, ManagerInv, ThreadInv DEF Next

\* Whatever is offered, and whatever is heard of, is of the selected channel.
THEOREM Invariance == Spec => []IInv
BY InvariantNext, InitInv, PTL DEF Spec

\* A release that the manager offers to download or to install is of the channel
\* selected (app_update.rs, set_update_channel), though the checks and downloads
\* of the channel before go on and end at any time.
THEOREM OffersFollowChannel == Spec => []OfferIsOfChannel
BY Invariance, PTL DEF IInv

-----------------------------------------------------------------------------
(* The updater: what it took and what it has not come to                   *)
Contents == Nat \cup {Absent, Torn}
Directories == [Files -> Contents]
Sources == [Shipped -> Contents]

Updaters ==
    [pc : {"idle", "clients", "entries", "copy", "restore", "done", "failed"},
     release : Nat, source : Sources, entries : SUBSET Shipped,
     copies : SUBSET Files, libraries : BOOLEAN]

ApplyTyped ==
    /\ target \in Directories /\ backup \in Directories
    /\ updater \in Updaters
    /\ kept \in [target : Directories, orphans : SUBSET Files, failures : Nat]

Applying == updater.pc \in {"clients", "entries", "copy"}
Sourced == Present(updater.source)

\* The files the release has no word on
Local == Files \ (Shipped \cup Removed)

\* In the backup is what was there when the update began; until the update is
\* done, what was there is where it was or in the backup.
BackupIsOld == \A f \in Files : backup[f] \in {Absent, kept.target[f]}
Saved == ~At("done") => \A f \in Files : kept.target[f] \in {target[f], backup[f]}

\* What is written next, and torn meanwhile, was moved to the backup before.
CopiesAreSaved == Applying => \A f \in updater.copies : backup[f] = kept.target[f]

\* The entries that are left, and a directory as a whole while one of them is in it.
Entries ==
    /\ updater.entries \subseteq Sourced
    /\ At("clients") => updater.entries = Sourced
    /\ \A folder \in Folders :
          updater.entries \cap folder # {} => Sourced \cap folder \subseteq updater.entries

Copies ==
    /\ At("copy") \/ (updater.copies = {} /\ ~updater.libraries)
    /\ updater.copies \subseteq Sourced \cup Libraries
    /\ updater.entries \cap updater.copies = {}
    /\ updater.libraries => updater.copies \subseteq Sourced
    /\ updater.libraries => updater.entries \cap Resources = {}
    /\ \A folder \in Folders :
          updater.copies \cap folder # {} => updater.entries \cap folder = {}

EntriesAndCopies == Applying => Entries /\ Copies

\* What the updater has not come to is as it was.
Untouched ==
    /\ At("clients") =>
          \A f \in Files : target[f] = kept.target[f] \/ (f \in OldClients /\ target[f] = Absent)
    /\ Applying =>
          /\ \A f \in updater.entries : target[f] = kept.target[f]
          /\ \A folder \in Folders : updater.entries \cap folder # {} =>
                \A f \in folder : target[f] = kept.target[f]

\* What the updater removed stays away.
Taken ==
    /\ At("entries") \/ At("copy") => \A f \in OldClients : target[f] = Absent
    /\ Applying => \A folder \in Folders :
          updater.entries \cap folder = {} /\ Sourced \cap folder # {} =>
             \A f \in folder \ (Libraries \cup Sourced) : target[f] = Absent

\* A local file is touched only if it is a library, between its way to the backup
\* and the copy that comes back.
LocalKept ==
    /\ At("clients") \/ At("entries") \/ At("done") =>
          \A f \in Local : target[f] = kept.target[f]
    /\ At("copy") => \A f \in Local \ updater.copies :
          \/ target[f] = kept.target[f]
          \/ (updater.libraries /\ f \in Libraries /\ target[f] = Absent)

\* A local file of the first installation: an update began with it in its place,
\* or with it in a backup that was left.
LocalOriginals ==
    \A f \in Local \cap Installed : kept.target[f] = 0 \/ f \in kept.orphans

OldInv == BackupIsOld /\ Saved /\ CopiesAreSaved
PlanInv == EntriesAndCopies /\ Untouched /\ Taken
LocalInv == LocalKept /\ LocalOriginals
ApplyInv == ApplyTyped /\ OldInv /\ PlanInv /\ LocalInv

-----------------------------------------------------------------------------
LEMMA FilesAre ==
    /\ Shipped \subseteq Files /\ Installed \subseteq Files
    /\ \A folder \in Folders : folder \subseteq Files /\ OldClients \cap folder = {}
    /\ \A folder, other \in Folders : folder = other \/ folder \cap other = {}
    /\ Resources \in Folders /\ Resources \subseteq Files
    /\ Libraries \subseteq Resources /\ OldClients \subseteq Files
    /\ OldClients \cap Shipped = {} /\ OldClients \cap Libraries = {}
    /\ Absent \notin Nat /\ Torn \notin Nat /\ Absent # Torn
    /\ \A files : Nothing(files) \in [files -> Contents]
BY ReleaseAssumption DEF Files, Nothing, Contents

\* Moved away: gone from the installation, and in the backup if it was there
LEMMA Moved ==
    ASSUME ApplyTyped, NEW files, MoveToBackup(files)
    PROVE  /\ target' \in Directories /\ backup' \in Directories /\ UNCHANGED kept
           /\ \A f \in Files : target'[f] = IF f \in files THEN Absent ELSE target[f]
           /\ \A f \in Files : backup'[f] =
                 IF f \in files /\ target[f] # Absent THEN target[f] ELSE backup[f]
BY DEF ApplyTyped, MoveToBackup, Present, Directories, Contents

LEMMA Started ==
    ASSUME ApplyTyped, LocalInv, OriginalsSurvive,
           NEW release \in Nat, NEW source \in Sources, BeginApply(release, source)
    PROVE  ApplyInv'
<1>1. /\ updater'.pc = "clients" /\ updater'.release = release /\ updater'.source = source
      /\ updater'.entries = Present(source) /\ updater'.copies = {}
      /\ updater'.libraries = FALSE /\ updater' \in Updaters
  BY FilesAre DEF BeginApply, NoUpdater, Updaters, Present, Sources
<1>2. /\ target' = target /\ backup' = Nothing(Files)
      /\ kept' = [kept EXCEPT !.target = target,
                              !.orphans = @ \cup {f \in Files : backup[f] = 0}]
  BY DEF BeginApply
<1>3. /\ kept'.target = target
      /\ kept'.orphans = kept.orphans \cup {f \in Files : backup[f] = 0}
      /\ \A f \in Files : backup'[f] = Absent
  BY <1>2 DEF ApplyTyped, Nothing
<1>4. ApplyTyped'
  BY <1>1, <1>2, FilesAre DEF ApplyTyped, Directories
<1>5. OldInv'
  BY <1>1, <1>2, <1>3 DEF OldInv, BackupIsOld, Saved, CopiesAreSaved, At
<1>6. PlanInv'
  BY <1>1, <1>2, <1>3, FilesAre
     DEF PlanInv, EntriesAndCopies, Entries, Copies, Untouched, Taken, Sourced, Applying, At,
         Present, Sources
<1>7. LocalInv'
  <2>1. LocalKept'
    BY <1>1, <1>2, <1>3 DEF LocalKept, Local, At
  <2>2. ASSUME NEW f \in Local \cap Installed
        PROVE  target[f] = 0 \/ f \in kept.orphans \/ (f \in Files /\ backup[f] = 0)
    <3>1. f \in Files /\ f \notin Shipped \cup Removed
      BY DEF Local
    <3>2. CASE At("done")
      BY <3>1, <3>2 DEF LocalInv, LocalOriginals, LocalKept
    <3>3. CASE ~At("done")
      BY <3>1, <3>3 DEF OriginalsSurvive
    <3> QED BY <3>2, <3>3
  <2>3. LocalOriginals'
    BY <1>3, <2>2 DEF LocalOriginals, Local, Files, Removed
  <2> QED BY <2>1, <2>3 DEF LocalInv
<1> QED BY <1>4, <1>5, <1>6, <1>7 DEF ApplyInv

LEMMA MoveOldClientInv ==
    ASSUME ApplyInv, MoveOldClient
    PROVE  ApplyInv'
<1>1. PICK g \in OldClients \cap Present(target) : MoveToBackup({g})
  BY DEF MoveOldClient, OldClientsLeft
<1>2. UNCHANGED <<updater, kept>> /\ At("clients")
  BY DEF MoveOldClient, MoveToBackup
<1>3. /\ target' \in Directories /\ backup' \in Directories
      /\ \A f \in Files : target'[f] = IF f = g THEN Absent ELSE target[f]
      /\ \A f \in Files : backup'[f] = IF f = g THEN target[f] ELSE backup[f]
      /\ target[g] # Absent /\ g \in Files
  BY <1>1, Moved, FilesAre DEF ApplyInv, Present
<1>4. target[g] = kept.target[g]
  BY <1>2, <1>3 DEF ApplyInv, PlanInv, Untouched
<1>5. ApplyTyped'
  BY <1>2, <1>3 DEF ApplyInv, ApplyTyped
<1>6. OldInv'
  BY <1>2, <1>3, <1>4, FilesAre DEF ApplyInv, OldInv, BackupIsOld, Saved, CopiesAreSaved, ApplyTyped, Updaters, Applying, At
<1>7. PlanInv'
  <2>1. EntriesAndCopies'
    BY <1>2 DEF ApplyInv, PlanInv, EntriesAndCopies, Entries, Copies, Applying, Sourced, Present, At
  <2>2. Untouched'
    BY <1>1, <1>2, <1>3, FilesAre DEF ApplyInv, PlanInv, Untouched, Applying, At, ApplyTyped, Updaters
  <2>3. Taken'
    BY <1>1, <1>2, <1>3, FilesAre DEF ApplyInv, PlanInv, Taken, Applying, At, Sourced, Present
  <2> QED BY <2>1, <2>2, <2>3 DEF PlanInv
<1>8. LocalInv'
  BY <1>1, <1>2, <1>3, FilesAre DEF ApplyInv, LocalInv, LocalKept, LocalOriginals, Local, Removed, At
<1> QED BY <1>5, <1>6, <1>7, <1>8 DEF ApplyInv

\* A step of the updater alone, which goes on with the same files
LEMMA ClientsMovedInv ==
    ASSUME ApplyInv, ClientsMoved
    PROVE  ApplyInv'
<1>1. /\ UNCHANGED <<target, backup, kept>> /\ At("clients")
      /\ OldClients \cap Present(target) = {}
      /\ updater' = [updater EXCEPT !.pc = "entries"]
  BY DEF ClientsMoved, OldClientsLeft
<1>2. updater' \in Updaters /\ updater'.pc = "entries" /\ updater'.source = updater.source
      /\ updater'.entries = updater.entries /\ updater'.copies = updater.copies
      /\ updater'.libraries = updater.libraries /\ updater'.release = updater.release
  BY <1>1 DEF ApplyInv, ApplyTyped, Updaters
<1>3. \A f \in OldClients : target[f] = Absent
  BY <1>1, FilesAre DEF Present, ApplyInv, ApplyTyped, Directories
<1>4. ApplyTyped'
  BY <1>1, <1>2 DEF ApplyInv, ApplyTyped
<1>5. OldInv'
  BY <1>1, <1>2 DEF ApplyInv, OldInv, BackupIsOld, Saved, CopiesAreSaved, Applying, At
<1>6. PlanInv'
  <2>1. EntriesAndCopies'
    BY <1>1, <1>2
       DEF ApplyInv, PlanInv, EntriesAndCopies, Entries, Copies, Applying, Sourced, Present, At
  <2>2. Untouched'
    BY <1>1, <1>2, FilesAre DEF ApplyInv, PlanInv, Untouched, Applying, At
  <2>3. Taken'
    BY <1>1, <1>2, <1>3 DEF ApplyInv, PlanInv, Taken, Applying, At, Sourced, Present
  <2> QED BY <2>1, <2>2, <2>3 DEF PlanInv
<1>7. LocalInv'
  BY <1>1, <1>2 DEF ApplyInv, LocalInv, LocalKept, LocalOriginals, Local, At
<1> QED BY <1>4, <1>5, <1>6, <1>7 DEF ApplyInv

\* The step from "entries" to "copy": the file of an entry, or those of a directory,
\* go to the backup.
LEMMA EntryMoved ==
    ASSUME ApplyInv, At("entries"), NEW files, NEW copies, NEW libraries \in BOOLEAN,
           MoveToBackup(files), copies = files \cap updater.entries, copies # {},
           \/ files \cap UNION Folders = {} /\ files = copies
           \/ files \in Folders,
           libraries <=> files = Resources,
           updater' = [updater EXCEPT !.pc = "copy", !.entries = @ \ files, !.copies = copies,
                                      !.libraries = libraries]
    PROVE  ApplyInv'
<1>1. /\ updater' \in Updaters /\ updater'.pc = "copy" /\ updater'.source = updater.source
      /\ updater'.entries = updater.entries \ files /\ updater'.copies = copies
      /\ updater'.libraries = libraries /\ updater'.release = updater.release
      /\ updater.entries \subseteq Shipped
  BY FilesAre DEF ApplyInv, ApplyTyped, Updaters
<1>2. /\ target' \in Directories /\ backup' \in Directories /\ UNCHANGED kept
      /\ \A f \in Files : target'[f] = IF f \in files THEN Absent ELSE target[f]
      /\ \A f \in Files : backup'[f] =
            IF f \in files /\ target[f] # Absent THEN target[f] ELSE backup[f]
  BY Moved DEF ApplyInv
<1>3. /\ Entries /\ updater.copies = {} /\ files \subseteq Files
      /\ \A folder \in Folders : files = folder \/ files \cap folder = {}
  BY <1>1, FilesAre DEF ApplyInv, PlanInv, EntriesAndCopies, Copies, Applying, At
<1>4. \A f \in files : target[f] = kept.target[f]
  BY <1>1 DEF ApplyInv, PlanInv, Untouched, Applying, At
<1>5. ApplyTyped'
  BY <1>1, <1>2 DEF ApplyInv, ApplyTyped
<1>6. \A f \in files : backup'[f] = kept.target[f]
  BY <1>2, <1>3, <1>4 DEF ApplyInv, OldInv, BackupIsOld
<1>7. OldInv'
  <2>1. BackupIsOld' /\ Saved'
    BY <1>1, <1>2, <1>6 DEF ApplyInv, OldInv, BackupIsOld, Saved, At
  <2>2. CopiesAreSaved'
    BY <1>1, <1>2, <1>6 DEF CopiesAreSaved
  <2> QED BY <2>1, <2>2 DEF OldInv
<1>8. PlanInv'
  <2>1. Entries'
    BY <1>1, <1>3 DEF Entries, At, Sourced, Present
  <2>2. Copies'
    BY <1>1, <1>3 DEF Entries, Copies, At, Sourced, Present
  <2>3. EntriesAndCopies'
    BY <2>1, <2>2 DEF EntriesAndCopies
  <2>4. Untouched'
    BY <1>1, <1>2, FilesAre DEF ApplyInv, PlanInv, Untouched, Applying, At
  <2>5. Taken'
    <3>1. \A f \in OldClients : target'[f] = Absent
      BY <1>2, FilesAre DEF ApplyInv, PlanInv, Taken, At
    <3>2. ASSUME NEW folder \in Folders,
                 updater'.entries \cap folder = {}, Sourced \cap folder # {},
                 NEW f \in folder \ (Libraries \cup Sourced)
          PROVE  target'[f] = Absent
      <4>1. CASE files = folder
        BY <1>2, <4>1, FilesAre
      <4>2. CASE files \cap folder = {}
        <5>1. updater.entries \cap folder = {}
          BY <1>1, <3>2, <4>2
        <5>2. target[f] = Absent
          BY <3>2, <5>1 DEF ApplyInv, PlanInv, Taken, Applying, At
        <5> QED BY <1>2, <5>2, FilesAre
      <4> QED BY <1>3, <4>1, <4>2
    <3>3. Sourced' = Sourced
      BY <1>1 DEF Sourced, Present
    <3> QED BY <3>1, <3>2, <3>3 DEF Taken
  <2> QED BY <2>3, <2>4, <2>5 DEF PlanInv
<1>9. LocalInv'
  <2>1. ASSUME NEW f \in Local
        PROVE  \/ target'[f] = kept.target[f]
               \/ (libraries = TRUE /\ f \in Libraries /\ target'[f] = Absent)
    <3>1. f \in Files /\ f \notin Shipped /\ f \notin Removed /\ target[f] = kept.target[f]
      BY DEF Local, ApplyInv, LocalInv, LocalKept, At
    <3>2. CASE f \notin files
      BY <1>2, <3>1, <3>2
    <3>3. CASE f \in files
      <4>1. files \in Folders /\ Shipped \cap files # {}
        <5>1. copies \subseteq Shipped \cap files
          BY <1>1
        <5>2. files # copies
          BY <3>1, <3>3, <5>1
        <5> QED BY <5>1, <5>2
      <4>2. files \in Replaced
        BY <4>1 DEF Replaced
      <4>3. f \in Libraries
        BY <3>1, <3>3, <4>2 DEF Removed
      <4>4. files = Resources
        BY <1>3, <3>3, <4>3, FilesAre
      <4> QED BY <1>2, <3>1, <3>3, <4>3, <4>4
    <3> QED BY <3>2, <3>3
  <2>2. LocalKept'
    BY <1>1, <1>2, <2>1 DEF LocalKept, Local, Removed, At, Files
  <2>3. LocalOriginals'
    BY <1>2 DEF ApplyInv, LocalInv, LocalOriginals, Local, Removed, Files
  <2> QED BY <2>2, <2>3 DEF LocalInv
<1> QED BY <1>5, <1>7, <1>8, <1>9 DEF ApplyInv

LEMMA EntryInv ==
    ASSUME ApplyInv, FileEntry \/ FolderEntry
    PROVE  ApplyInv'
<1>1. updater.entries \subseteq Shipped /\ (At("entries") => ~updater.libraries /\ updater \in Updaters)
  BY DEF ApplyInv, ApplyTyped, Updaters, PlanInv, EntriesAndCopies, Copies, Applying, At
<1>2. CASE FileEntry
  <2>1. PICK f \in updater.entries \ UNION Folders :
          /\ MoveToBackup({f})
          /\ updater' = [updater EXCEPT !.pc = "copy", !.entries = @ \ {f}, !.copies = {f}]
    BY <1>2 DEF FileEntry
  <2>2. At("entries") /\ updater.libraries = FALSE
    BY <1>1, <1>2 DEF FileEntry, Updaters
  <2>3. updater' = [updater EXCEPT !.pc = "copy", !.entries = @ \ {f}, !.copies = {f},
                                   !.libraries = FALSE]
    BY <1>1, <2>1, <2>2 DEF Updaters
  <2>4. {f} \cap UNION Folders = {} /\ {f} # Resources /\ {f} = {f} \cap updater.entries
    BY <2>1, FilesAre
  <2> QED BY <2>1, <2>2, <2>3, <2>4, EntryMoved
<1>3. CASE FolderEntry
  <2>1. PICK folder \in Folders :
          /\ MoveToBackup(folder) /\ At("entries")
          /\ updater.entries \cap folder # {}
          /\ updater' = [updater EXCEPT !.pc = "copy", !.entries = @ \ folder,
                                        !.copies = updater.entries \cap folder,
                                        !.libraries = (folder = Resources)]
    BY <1>3 DEF FolderEntry, CopiesOf
  <2>2. folder \cap updater.entries = updater.entries \cap folder /\ (folder = Resources) \in BOOLEAN
    OBVIOUS
  <2> QED BY <2>1, <2>2, EntryMoved
<1> QED BY <1>2, <1>3

\* Only the target of one of the copies changes; when the copy is complete it is no
\* longer one of them.
LEMMA CopyFileInv ==
    ASSUME ApplyInv, CopyFile
    PROVE  ApplyInv'
<1>1. PICK g \in updater.copies :
        LET content == IF g \in Sourced THEN updater.source[g] ELSE backup[g]
        IN \/ /\ target' = [target EXCEPT ![g] = content]
              /\ updater' = [updater EXCEPT !.copies = @ \ {g}]
           \/ /\ target' = [target EXCEPT ![g] = Torn]
              /\ UNCHANGED updater
  BY DEF CopyFile, Sourced
<1>2. UNCHANGED <<backup, kept>> /\ At("copy") /\ Applying
  BY DEF CopyFile, At, Applying
<1>3. /\ updater \in Updaters /\ target \in Directories /\ backup \in Directories
      /\ g \in Files /\ updater.source \in Sources /\ backup[g] = kept.target[g]
      /\ EntriesAndCopies
  BY <1>2 DEF ApplyInv, ApplyTyped, Updaters, OldInv, CopiesAreSaved, PlanInv
<1>4. \/ /\ UNCHANGED updater /\ target' = [target EXCEPT ![g] = Torn]
      \/ /\ updater' = [updater EXCEPT !.copies = updater.copies \ {g}]
         /\ \/ g \in Sourced /\ target' = [target EXCEPT ![g] = updater.source[g]]
            \/ g \notin Sourced /\ target' = [target EXCEPT ![g] = backup[g]]
  BY <1>1
<1>5. /\ updater' \in Updaters /\ updater'.pc = "copy" /\ updater'.source = updater.source
      /\ updater'.entries = updater.entries /\ updater'.libraries = updater.libraries
      /\ updater'.release = updater.release
      /\ updater'.copies \subseteq updater.copies
      /\ \A f \in updater.copies \ {g} : f \in updater'.copies
  BY <1>2, <1>3, <1>4 DEF Updaters, At
<1>6. \A f \in Files \ {g} : target'[f] = target[f]
  BY <1>3, <1>4 DEF Directories
<1>7. target' \in Directories
  <2>1. updater.source[g] \in Contents \/ g \notin Sourced
    BY <1>3 DEF Sourced, Present, Sources
  <2>2. Torn \in Contents /\ backup[g] \in Contents
    BY <1>3 DEF Contents, Directories
  <2> QED BY <1>3, <1>4, <2>1, <2>2 DEF Directories
<1>8. ApplyTyped'
  BY <1>2, <1>5, <1>7 DEF ApplyInv, ApplyTyped
<1>9. OldInv'
  <2>1. BackupIsOld' /\ Saved'
    BY <1>2, <1>3, <1>5, <1>6 DEF ApplyInv, OldInv, BackupIsOld, Saved, At
  <2>2. CopiesAreSaved'
    BY <1>2, <1>5 DEF ApplyInv, OldInv, CopiesAreSaved
  <2> QED BY <2>1, <2>2 DEF OldInv
<1>10. g \in Sourced \cup Libraries /\ g \notin updater.entries /\ g \notin OldClients
       /\ \A folder \in Folders : g \in folder => updater.entries \cap folder = {}
  BY <1>2, <1>3, FilesAre DEF EntriesAndCopies, Copies, Sourced, Present, Sources
<1>11. PlanInv'
  <2>1. EntriesAndCopies'
    BY <1>2, <1>3, <1>5 DEF EntriesAndCopies, Entries, Copies, At, Sourced, Present
  <2>2. Untouched'
    <3>1. ASSUME NEW f \in updater.entries PROVE target'[f] = kept.target[f]
      BY <1>2, <1>3, <1>6, <1>10, FilesAre, <3>1 DEF ApplyInv, PlanInv, Untouched, Updaters
    <3>2. ASSUME NEW folder \in Folders, updater.entries \cap folder # {}, NEW f \in folder
          PROVE  target'[f] = kept.target[f]
      BY <1>2, <1>6, <1>10, FilesAre, <3>2 DEF ApplyInv, PlanInv, Untouched
    <3> QED BY <1>2, <1>5, <3>1, <3>2 DEF Untouched, At
  <2>3. Taken'
    <3>1. Sourced' = Sourced
      BY <1>5 DEF Sourced, Present
    <3>2. \A f \in OldClients : target'[f] = Absent
      BY <1>2, <1>6, <1>10, FilesAre DEF ApplyInv, PlanInv, Taken
    <3>3. ASSUME NEW folder \in Folders,
                 updater.entries \cap folder = {}, Sourced \cap folder # {},
                 NEW f \in folder \ (Libraries \cup Sourced)
          PROVE  target'[f] = Absent
      BY <1>2, <1>6, <1>10, FilesAre, <3>3 DEF ApplyInv, PlanInv, Taken
    <3> QED BY <1>5, <3>1, <3>2, <3>3 DEF Taken
  <2> QED BY <2>1, <2>2, <2>3 DEF PlanInv
<1>12. LocalInv'
  <2>1. ASSUME NEW f \in Local, f \notin updater'.copies
        PROVE  \/ target'[f] = kept.target[f]
               \/ (updater.libraries /\ f \in Libraries /\ target'[f] = Absent)
    <3>1. CASE f = g
      <4>1. g \notin Sourced
        BY <1>3, <3>1 DEF Local, Sourced, Present, Sources
      <4>2. target' = [target EXCEPT ![g] = backup[g]]
        BY <1>4, <2>1, <3>1, <4>1
      <4> QED BY <1>3, <3>1, <4>2 DEF Directories
    <3>2. CASE f # g
      <4>1. f \notin updater.copies /\ f \in Files
        BY <1>5, <2>1, <3>2 DEF Local
      <4> QED BY <1>2, <1>6, <3>2, <4>1 DEF ApplyInv, LocalInv, LocalKept
    <3> QED BY <3>1, <3>2
  <2>2. LocalKept'
    BY <1>2, <1>5, <2>1 DEF LocalKept, Local, Removed, At, Files
  <2>3. LocalOriginals'
    BY <1>2 DEF ApplyInv, LocalInv, LocalOriginals, Local, Removed, Files
  <2> QED BY <2>2, <2>3 DEF LocalInv
<1> QED BY <1>8, <1>9, <1>11, <1>12 DEF ApplyInv

\* The next entry, or the local libraries: each of them is in the backup as it was,
\* and a library that is not there was not there before.
LEMMA EntryCopiedInv ==
    ASSUME ApplyInv, EntryCopied
    PROVE  ApplyInv'
<1>1. /\ UNCHANGED <<target, backup, kept>> /\ At("copy") /\ Applying
      /\ updater.copies = {} /\ updater \in Updaters
      /\ target \in Directories /\ backup \in Directories
  BY DEF EntryCopied, At, Applying, ApplyInv, ApplyTyped
<1>2. \/ /\ updater.libraries = TRUE
         /\ updater' = [updater EXCEPT !.copies = LocalLibraries, !.libraries = FALSE]
      \/ /\ updater.libraries = FALSE
         /\ updater' = [updater EXCEPT !.pc = "entries"]
  BY <1>1 DEF EntryCopied, Updaters
<1>3. LocalLibraries \subseteq Libraries /\ LocalLibraries \subseteq Files
      /\ \A f \in Files : f \in LocalLibraries <=>
            f \in Libraries /\ backup[f] # Absent /\ f \notin Sourced
  BY <1>1, FilesAre DEF LocalLibraries, Present, Sourced, Directories
<1>4. /\ updater' \in Updaters /\ updater'.source = updater.source
      /\ updater'.entries = updater.entries /\ updater'.libraries = FALSE
      /\ updater'.release = updater.release
      /\ \/ /\ updater.libraries = TRUE /\ updater'.pc = "copy"
            /\ updater'.copies = LocalLibraries
         \/ /\ updater.libraries = FALSE /\ updater'.pc = "entries"
            /\ updater'.copies = {}
  BY <1>1, <1>2, <1>3 DEF Updaters, At
<1>5. ApplyTyped'
  BY <1>1, <1>4 DEF ApplyInv, ApplyTyped
<1>6. OldInv'
  <2>1. BackupIsOld' /\ Saved'
    BY <1>1, <1>4 DEF ApplyInv, OldInv, BackupIsOld, Saved, At
  <2>2. CopiesAreSaved'
    BY <1>1, <1>3, <1>4 DEF ApplyInv, OldInv, BackupIsOld, CopiesAreSaved
  <2> QED BY <2>1, <2>2 DEF OldInv
<1>7. PlanInv'
  <2>1. Sourced' = Sourced
    BY <1>4 DEF Sourced, Present
  <2>2. Entries /\ (updater.libraries => updater.entries \cap Resources = {})
    BY <1>1 DEF ApplyInv, PlanInv, EntriesAndCopies, Copies
  <2>3. Entries'
    BY <1>4, <2>1, <2>2 DEF Entries, At
  <2>4. Copies'
    BY <1>3, <1>4, <2>1, <2>2, FilesAre DEF Copies, At
  <2>5. Untouched'
    BY <1>1, <1>4 DEF ApplyInv, PlanInv, Untouched, At, Applying
  <2>6. Taken'
    BY <1>1, <1>4, <2>1 DEF ApplyInv, PlanInv, Taken, At, Applying
  <2> QED BY <2>3, <2>4, <2>5, <2>6 DEF PlanInv, EntriesAndCopies
<1>8. LocalInv'
  <2>1. ASSUME NEW f \in Local, f \notin updater'.copies
        PROVE  target[f] = kept.target[f]
    <3>1. f \in Files /\ f \notin Sourced
      BY <1>1 DEF Local, Sourced, Present, Updaters, Sources
    <3>2. \/ target[f] = kept.target[f]
          \/ updater.libraries /\ f \in Libraries /\ target[f] = Absent
      BY <1>1 DEF ApplyInv, LocalInv, LocalKept
    <3>3. CASE updater.libraries /\ f \in Libraries /\ target[f] = Absent
      <4>1. backup[f] = Absent
        BY <1>3, <1>4, <2>1, <3>1, <3>3
      <4> QED BY <1>1, <3>1, <3>3, <4>1 DEF ApplyInv, OldInv, Saved, At
    <3> QED BY <3>2, <3>3
  <2>2. LocalKept'
    BY <1>1, <1>4, <2>1 DEF LocalKept, Local, Removed, At, Files
  <2>3. LocalOriginals'
    BY <1>1 DEF ApplyInv, LocalInv, LocalOriginals, Local, Removed, Files
  <2> QED BY <2>2, <2>3 DEF LocalInv
<1> QED BY <1>5, <1>6, <1>7, <1>8 DEF ApplyInv

\* An updater that applies no more; every file is still in one place or the other.
LEMMA NoMoreInv ==
    ASSUME ApplyInv, ApplyTyped', UNCHANGED kept, ~Applying', ~At("done")', Saved', BackupIsOld'
    PROVE  ApplyInv'
<1>1. OldInv' /\ PlanInv'
  BY DEF OldInv, CopiesAreSaved, PlanInv, EntriesAndCopies, Untouched, Taken, Applying, At
<1>2. LocalInv'
  BY DEF ApplyInv, LocalInv, LocalKept, LocalOriginals, Local, Removed, Files, Applying, At
<1> QED BY <1>1, <1>2 DEF ApplyInv

LEMMA EndedIs ==
    ASSUME ApplyTyped, NEW outcome \in {"idle", "restore", "done", "failed"}
    PROVE  /\ Ended(outcome) \in Updaters /\ Ended(outcome).pc = outcome
           /\ Ended(outcome).release = updater.release
BY FilesAre DEF Ended, NoUpdater, Updaters, Sources, ApplyTyped

LEMMA ApplyDoneInv ==
    ASSUME ApplyInv, ApplyDone
    PROVE  ApplyInv'
<1>1. /\ UNCHANGED <<target, kept>> /\ At("entries") /\ backup' = Nothing(Files)
      /\ updater' \in Updaters /\ updater'.pc = "done"
  BY EndedIs DEF ApplyDone, ApplyInv
<1>2. ApplyTyped'
  BY <1>1, FilesAre DEF ApplyInv, ApplyTyped, Directories
<1>3. OldInv' /\ PlanInv'
  BY <1>1 DEF OldInv, BackupIsOld, Saved, CopiesAreSaved, PlanInv, EntriesAndCopies,
              Untouched, Taken, Applying, At, Nothing
<1>4. LocalInv'
  BY <1>1 DEF ApplyInv, LocalInv, LocalKept, LocalOriginals, Local, Removed, Files, At
<1> QED BY <1>2, <1>3, <1>4 DEF ApplyInv

LEMMA EndInv ==
    ASSUME ApplyInv, ApplyFails \/ RestoreFile \/ RestoreFails \/ Restored \/ UpdaterCrash
    PROVE  ApplyInv'
<1> USE DEF ApplyInv
<1>1. /\ target \in Directories /\ backup \in Directories /\ BackupIsOld
      /\ updater \in Updaters
  BY DEF ApplyTyped, OldInv
<1>2. CASE Restored
  <2>1. /\ UNCHANGED <<target, backup, kept>> /\ ~At("done")
        /\ updater' \in Updaters /\ updater'.pc = "failed"
    BY <1>2, EndedIs DEF Restored, At
  <2> QED BY <2>1, NoMoreInv DEF ApplyTyped, OldInv, Saved, BackupIsOld, At, Applying
<1>3. CASE RestoreFile
  <2>1. PICK g \in Files : /\ target' = [target EXCEPT ![g] = backup[g]]
                           /\ backup' = [backup EXCEPT ![g] = Absent]
                           /\ backup[g] # Absent
    BY <1>1, <1>3 DEF RestoreFile, Present, Directories
  <2>2. UNCHANGED <<updater, kept>> /\ At("restore")
    BY <1>3 DEF RestoreFile
  <2>3. target' \in Directories /\ backup' \in Directories
        /\ \A f \in Files :
              /\ target'[f] = IF f = g THEN backup[g] ELSE target[f]
              /\ backup'[f] = IF f = g THEN Absent ELSE backup[f]
    BY <1>1, <2>1 DEF Directories, Contents
  <2>4. backup[g] = kept.target[g]
    BY <1>1, <2>1 DEF BackupIsOld
  <2> QED BY <1>1, <2>2, <2>3, <2>4, NoMoreInv
          DEF ApplyTyped, OldInv, Saved, BackupIsOld, At, Applying
<1>4. CASE RestoreFails
  <2>1. PICK g \in Files : target' \in {target, [target EXCEPT ![g] = Absent]}
                           /\ backup[g] # Absent
    BY <1>1, <1>4 DEF RestoreFails, Present, Directories
  <2>2. /\ UNCHANGED <<backup, kept>> /\ At("restore")
        /\ updater' \in Updaters /\ updater'.pc = "failed"
    BY <1>4, EndedIs DEF RestoreFails
  <2>3. target' \in Directories /\ \A f \in Files \ {g} : target'[f] = target[f]
    BY <1>1, <2>1 DEF Directories, Contents
  <2>4. backup[g] = kept.target[g]
    BY <1>1, <2>1 DEF BackupIsOld
  <2> QED BY <1>1, <2>2, <2>3, <2>4, NoMoreInv
          DEF ApplyTyped, OldInv, Saved, BackupIsOld, At, Applying
<1>5. CASE ApplyFails \/ UpdaterCrash
  <2>1. /\ UNCHANGED <<target, backup>> /\ ~At("done")
        /\ kept' = [kept EXCEPT !.failures = @ + 1]
        /\ updater' \in Updaters /\ updater'.pc \in {"idle", "restore"}
    BY <1>5, EndedIs DEF ApplyFails, UpdaterCrash, OneMoreFails, Working, At
  <2>2. kept'.target = kept.target /\ kept'.orphans = kept.orphans
        /\ kept' \in [target : Directories, orphans : SUBSET Files, failures : Nat]
    BY <2>1 DEF ApplyTyped
  <2>3. ApplyTyped' /\ ~At("done")
    BY <1>1, <2>1, <2>2 DEF ApplyTyped
  <2>4. OldInv' /\ PlanInv'
    BY <2>1, <2>2, <2>3 DEF OldInv, BackupIsOld, Saved, CopiesAreSaved, PlanInv,
                  EntriesAndCopies, Untouched, Taken, Applying, At
  <2>5. LocalInv'
    BY <2>1, <2>2 DEF LocalInv, LocalKept, LocalOriginals, Local, Removed, Files, At
  <2> QED BY <2>3, <2>4, <2>5
<1> QED BY <1>2, <1>3, <1>4, <1>5

LEMMA ApplyStepInv ==
    ASSUME ApplyInv, ApplyStep
    PROVE  ApplyInv'
BY MoveOldClientInv, ClientsMovedInv, EntryInv, CopyFileInv, EntryCopiedInv, ApplyDoneInv, EndInv
   DEF ApplyStep

-----------------------------------------------------------------------------
(* The staging directories: who is at work on a release                    *)
Stagings == [Releases -> Sources]
Histories == [turns : Nat, overlapped : SUBSET Releases]

Alive(t) == thread[t].pc # "none"
Alone(t) == thread[t].release \notin past.overlapped

\* How far a thread that is alone on its release has come
StagedBy(t) ==
    LET release == thread[t].release
        files == staged[release]
    IN /\ Thread(t, "fetch") => \A f \in Shipped : files[f] = Absent
       /\ Thread(t, "unpack") =>
             \A f \in Shipped \ thread[t].todo :
                files[f] = IF f = thread[t].file THEN Torn ELSE release
       /\ Thread(t, "prepared") => \A f \in Shipped : files[f] = release

ThreadsStage ==
    \A t \in Threads : Alive(t) =>
        /\ thread[t].release \in Releases
        /\ thread[t].file # Absent => Thread(t, "unpack")
        /\ thread[t].file \notin thread[t].todo
        /\ Alone(t) => StagedBy(t)

\* Of two threads on one release the second found the first.
OverlapsAreNoted ==
    \A t, u \in Threads :
        t # u /\ Alive(t) /\ Alive(u) /\ Alone(t) => thread[t].release # thread[u].release

\* A release that is prepared is whole, and nobody is at work on it.
PreparedIsWhole ==
    app.prepared # 0 =>
        /\ app.prepared \in Releases
        /\ app.state \in {"ready", "installing"} /\ app.events.kind = "none"
        /\ app.prepared \notin past.overlapped =>
              /\ \A f \in Shipped : staged[app.prepared][f] = app.prepared
              /\ \A t \in Threads : Alive(t) => thread[t].release # app.prepared

StageTyped ==
    /\ app \in Apps /\ app.available \in {0} \cup Releases
    /\ thread \in [Threads -> Downloads]
    /\ staged \in Stagings
    /\ past \in Histories

StagingInv == StageTyped /\ ThreadsStage /\ OverlapsAreNoted /\ PreparedIsWhole

-----------------------------------------------------------------------------
LEMMA ReleasesAre ==
    /\ Releases \subseteq Nat /\ 0 \notin Releases
    /\ \A channel : Of(channel) \subseteq Releases
    /\ Absent \notin Shipped /\ Absent \notin Releases /\ Torn \notin Releases
    /\ Absent # Torn /\ Client \in Shipped
BY ReleaseAssumption, UpdateAssumption DEF Releases, Of

LEMMA StagingInit == Init => StagingInv
<1> SUFFICES ASSUME Init PROVE StagingInv
  OBVIOUS
<1>1. PICK channel \in Channels : app = NewApp(0, channel)
  BY DEF Init, Channels
<1>2. /\ thread \in [Threads -> Downloads] /\ \A t \in Threads : ~Alive(t)
      /\ staged \in Stagings /\ past \in Histories
  BY NoThreadIsDownload, FilesAre DEF Init, Histories, Alive, Stagings, Sources, NoThread
<1> QED BY <1>1, <1>2, NewAppInv
        DEF StagingInv, StageTyped, ThreadsStage, OverlapsAreNoted, PreparedIsWhole

\* The manager offers nothing that is prepared; no thread but those there were, each
\* where it was or at its end.
LEMMA NothingPrepared ==
    ASSUME StagingInv, app' \in Apps, app'.prepared = 0, app'.available \in {0} \cup Releases,
           UNCHANGED <<staged, past.overlapped>>, past' \in Histories,
           thread' \in [Threads -> Downloads],
           \A t \in Threads : thread'[t] \in {thread[t], NoThread}
    PROVE  StagingInv'
<1>1. \A t \in Threads : Alive(t)' => Alive(t) /\ thread'[t] = thread[t]
  BY DEF Alive, NoThread
<1>2. StageTyped'
  BY DEF StagingInv, StageTyped
<1>3. ThreadsStage'
  BY <1>1 DEF StagingInv, ThreadsStage, StagedBy, Thread, Alone
<1>4. OverlapsAreNoted'
  BY <1>1 DEF StagingInv, OverlapsAreNoted, Alone
<1> QED BY <1>2, <1>3, <1>4 DEF StagingInv, PreparedIsWhole

\* The same with what is prepared
LEMMA StillPrepared ==
    ASSUME StagingInv, app' \in Apps, app'.prepared = app.prepared,
           app'.available = app.available, app'.events.kind = "none" \/ app.prepared = 0,
           app'.state \in {"ready", "installing"} \/ app.prepared = 0,
           UNCHANGED <<staged, past>>, thread' \in [Threads -> Downloads],
           \A t \in Threads : thread'[t] \in {thread[t], NoThread}
    PROVE  StagingInv'
<1>1. \A t \in Threads : Alive(t)' => Alive(t) /\ thread'[t] = thread[t]
  BY DEF Alive, NoThread
<1>2. StageTyped'
  BY DEF StagingInv, StageTyped
<1>3. ThreadsStage'
  BY <1>1 DEF StagingInv, ThreadsStage, StagedBy, Thread, Alone
<1>4. OverlapsAreNoted'
  BY <1>1 DEF StagingInv, OverlapsAreNoted, Alone
<1>5. PreparedIsWhole'
  BY <1>1 DEF StagingInv, PreparedIsWhole
<1> QED BY <1>2, <1>3, <1>4, <1>5 DEF StagingInv

LEMMA StagingElsewhere ==
    ASSUME StagingInv, UNCHANGED <<app, thread, staged, past>>
    PROVE  StagingInv'
BY DEF StagingInv, StageTyped, ThreadsStage, StagedBy, Thread, OverlapsAreNoted, PreparedIsWhole,
       Alive, Alone

\* A step of a thread on the files of its own release
LEMMA ThreadStages ==
    ASSUME StagingInv, UNCHANGED <<app, past>>, NEW t \in Threads, Alive(t),
           NEW new \in Downloads, thread' = [thread EXCEPT ![t] = new],
           new.release = thread[t].release, new.pc # "none",
           new.file # Absent => new.pc = "unpack", new.file \notin new.todo,
           NEW files \in Sources,
           staged' = [staged EXCEPT ![new.release] = files],
           Alone(t) =>
              /\ new.pc = "fetch" => \A f \in Shipped : files[f] = Absent
              /\ new.pc = "unpack" =>
                    \A f \in Shipped \ new.todo :
                       files[f] = IF f = new.file THEN Torn ELSE new.release
              /\ new.pc = "prepared" => \A f \in Shipped : files[f] = new.release
    PROVE  StagingInv'
<1> DEFINE release == thread[t].release
<1>1. release \in Releases
  BY DEF StagingInv, ThreadsStage
<1>2. /\ thread' \in [Threads -> Downloads] /\ thread'[t] = new
      /\ \A u \in Threads \ {t} : thread'[u] = thread[u]
  BY DEF StagingInv, StageTyped
<1>3. /\ staged' \in Stagings /\ staged'[release] = files
      /\ \A r \in Releases \ {release} : staged'[r] = staged[r]
  BY <1>1 DEF StagingInv, StageTyped, Stagings
<1>4. \A u \in Threads : Alive(u)' = Alive(u) /\ thread'[u].release = thread[u].release
  BY <1>2 DEF Alive
<1>5. StageTyped'
  BY <1>2, <1>3 DEF StagingInv, StageTyped
<1>6. ThreadsStage'
  <2>1. ASSUME NEW u \in Threads, Alive(u)
        PROVE  /\ thread'[u].release \in Releases
               /\ thread'[u].file # Absent => Thread(u, "unpack")'
               /\ thread'[u].file \notin thread'[u].todo
               /\ Alone(u)' => StagedBy(u)'
    <3>1. CASE u = t
      BY <1>1, <1>2, <1>3, <3>1 DEF Thread, Alone, StagedBy
    <3>2. CASE u # t
      <4>1. thread'[u] = thread[u]
        BY <1>2, <3>2
      <4>2. Alone(u) => thread[u].release # release
        BY <2>1, <3>2 DEF StagingInv, OverlapsAreNoted
      <4>3. /\ thread[u].release \in Releases
            /\ thread[u].file # Absent => Thread(u, "unpack")
            /\ thread[u].file \notin thread[u].todo
            /\ Alone(u) => StagedBy(u)
        BY <2>1 DEF StagingInv, ThreadsStage
      <4>4. Alone(u)' = Alone(u) /\ \A pc : Thread(u, pc)' = Thread(u, pc)
        BY <4>1 DEF Alone, Thread
      <4>5. Alone(u) => staged'[thread[u].release] = staged[thread[u].release]
        BY <1>3, <4>2, <4>3
      <4>6. Alone(u) => StagedBy(u)'
        BY <4>1, <4>3, <4>5 DEF StagedBy, Thread
      <4> QED BY <4>1, <4>3, <4>4, <4>6
    <3> QED BY <3>1, <3>2
  <2> QED BY <1>4, <2>1 DEF ThreadsStage
<1>7. OverlapsAreNoted'
  BY <1>4 DEF StagingInv, OverlapsAreNoted, Alone
<1>8. PreparedIsWhole'
  BY <1>3, <1>4 DEF StagingInv, PreparedIsWhole
<1> QED BY <1>5, <1>6, <1>7, <1>8 DEF StagingInv

LEMMA ManagerStaging ==
    ASSUME StagingInv, IInv, IInv',
           \/ CheckForUpdates \/ SetChannel \/ PollChecked \/ ThreadUnheard
           \/ InstallUpdate \/ InstallCannotStart \/ AppQuits \/ AppStarts
    PROVE  StagingInv'
<1>1. /\ app \in Apps /\ app' \in Apps /\ thread' \in [Threads -> Downloads]
      /\ past \in Histories
  BY DEF IInv, StagingInv, StageTyped
<1>2. CASE CheckForUpdates
  <2>1. app' = CheckingFor(app.channel) /\ UNCHANGED <<thread, past, staged>>
    BY <1>2 DEF CheckForUpdates, Manage
  <2>2. app.prepared = 0 /\ app.available \in {0} \cup Releases
    BY <1>2 DEF CheckForUpdates, StagingInv, PreparedIsWhole, StageTyped
  <2>3. app'.prepared = app.prepared /\ app'.available = app.available
    BY <1>1, <2>1 DEF CheckingFor, Apps
  <2> QED BY <1>1, <2>1, <2>2, <2>3, NothingPrepared
<1>3. CASE SetChannel
  <2>1. /\ \E channel : app' = [CheckingFor(channel) EXCEPT !.available = 0, !.prepared = 0]
        /\ past' = [past EXCEPT !.turns = @ + 1]
        /\ UNCHANGED <<thread, staged>>
    BY <1>3 DEF SetChannel, Manage
  <2>2. app'.prepared = 0 /\ app'.available = 0
    BY <1>1, <2>1 DEF CheckingFor, Apps
  <2>3. past'.overlapped = past.overlapped /\ past' \in Histories
    BY <1>1, <2>1 DEF Histories
  <2> QED BY <1>1, <2>1, <2>2, <2>3, NothingPrepared
<1>4. CASE PollChecked
  <2>1. PICK found \in {0} \cup Of(app.events.of) :
          \/ app' = [app EXCEPT !.state = IF found = 0 THEN "current" ELSE "available",
                                !.available = found, !.prepared = 0, !.events = NoEvents]
          \/ app' = [app EXCEPT !.state = "failed", !.events = NoEvents]
    BY <1>4 DEF PollChecked
  <2>2. app.prepared = 0 /\ app.available \in {0} \cup Releases
    BY <1>4 DEF PollChecked, StagingInv, PreparedIsWhole, StageTyped
  <2>3. app'.prepared = 0 /\ app'.available \in {found, app.available}
    BY <1>1, <2>1, <2>2 DEF Apps
  <2> QED BY <1>1, <1>4, <2>1, <2>2, <2>3, ReleasesAre, NothingPrepared
          DEF PollChecked, Manage
<1>5. CASE ThreadUnheard
  <2>1. /\ \E t \in Threads : thread' = [thread EXCEPT ![t] = NoThread]
        /\ UNCHANGED <<app, past, staged>>
    BY <1>5 DEF ThreadUnheard, Manage
  <2>2. \A t \in Threads : thread'[t] \in {thread[t], NoThread}
    BY <2>1 DEF StagingInv, StageTyped
  <2>3. app.prepared = 0 \/ (app.events.kind = "none" /\ app.state \in {"ready", "installing"})
    BY DEF StagingInv, PreparedIsWhole
  <2> QED BY <1>1, <2>1, <2>2, <2>3, StillPrepared
<1>6. CASE InstallUpdate \/ AppQuits
  <2>1. /\ app' = Exited /\ AllStop /\ UNCHANGED staged
        /\ past' = past \/ past' = [past EXCEPT !.turns = @ + 1]
    BY <1>6 DEF InstallUpdate, AppQuits, Manage
  <2>2. app'.prepared = 0 /\ app'.available = 0
    BY <2>1 DEF Exited, NewApp
  <2>3. past'.overlapped = past.overlapped /\ past' \in Histories
    BY <1>1, <2>1 DEF Histories
  <2> QED BY <1>1, <2>1, <2>2, <2>3, NothingPrepared DEF AllStop
<1>7. CASE InstallCannotStart
  <2>1. app' = [app EXCEPT !.state = "installing"] /\ UNCHANGED <<thread, past, staged>>
    BY <1>7 DEF InstallCannotStart, Manage
  <2>2. /\ app'.prepared = app.prepared /\ app'.available = app.available
        /\ app'.events = app.events /\ app'.state = "installing"
    BY <1>1, <2>1 DEF Apps
  <2>3. app.prepared = 0 \/ app.events.kind = "none"
    BY DEF StagingInv, PreparedIsWhole
  <2> QED BY <1>1, <2>1, <2>2, <2>3, StillPrepared
<1>8. CASE AppStarts
  <2>1. /\ app' = NewApp(target[Client], app.channel) /\ UNCHANGED <<thread, past, staged>>
    BY <1>8 DEF AppStarts, Manage
  <2>2. app'.prepared = 0 /\ app'.available = 0
    BY <2>1 DEF NewApp
  <2> QED BY <1>1, <2>1, <2>2, NothingPrepared
<1> QED BY <1>2, <1>3, <1>4, <1>5, <1>6, <1>7, <1>8

\* A thread that begins on a release another is at work on is noted.
LEMMA DownloadStaging ==
    ASSUME StagingInv, IInv, IInv', DownloadUpdate
    PROVE  StagingInv'
<1> DEFINE new == [NoThread EXCEPT !.pc = "reset", !.release = app.available]
<1>1. PICK t \in Threads :
        /\ thread[t].pc = "none"
        /\ thread' = [thread EXCEPT ![t] = new]
        /\ app' = [app EXCEPT !.state = "downloading",
                              !.events = [kind |-> "download", of |-> t]]
  BY DEF DownloadUpdate
<1>2. /\ app.state = "available" /\ app.available \in Releases /\ UNCHANGED staged
      /\ past' = [past EXCEPT !.overlapped =
                    @ \cup {r \in {app.available} : StagingOf(r) # {}}]
  BY DEF DownloadUpdate, StagingInv, StageTyped, Manage
<1>3. /\ app.prepared = 0 /\ app \in Apps /\ app' \in Apps
      /\ thread \in [Threads -> Downloads] /\ thread' \in [Threads -> Downloads]
  BY <1>2 DEF StagingInv, PreparedIsWhole, StageTyped, IInv
<1>4. app'.prepared = 0 /\ app'.available = app.available
  BY <1>1, <1>3 DEF Apps
<1>5. /\ new.pc = "reset" /\ new.release = app.available /\ new.file = Absent /\ new.todo = {}
  BY DEF NoThread
<1> HIDE DEF new
<1>6. /\ thread'[t] = new /\ ~Alive(t) /\ \A u \in Threads \ {t} : thread'[u] = thread[u]
  BY <1>1, <1>3 DEF Alive
<1>7. /\ past.overlapped \subseteq past'.overlapped /\ past' \in Histories
      /\ StagingOf(app.available) # {} => app.available \in past'.overlapped
  BY <1>2 DEF StagingInv, StageTyped, Histories
<1>8. StageTyped'
  BY <1>2, <1>3, <1>4, <1>7 DEF StagingInv, StageTyped
<1>9. ThreadsStage'
  BY <1>2, <1>5, <1>6, <1>7 DEF StagingInv, ThreadsStage, Alive, Alone, StagedBy, Thread
<1>10. OverlapsAreNoted'
  <2>1. ASSUME NEW u \in Threads \ {t}, Alive(u)
        PROVE  thread[u].release = app.available => app.available \in past'.overlapped
    BY <1>7, <2>1 DEF StagingOf, Alive
  <2> QED BY <1>5, <1>6, <1>7, <2>1 DEF StagingInv, OverlapsAreNoted, Alive, Alone
<1> QED BY <1>4, <1>8, <1>9, <1>10 DEF StagingInv, PreparedIsWhole

\* A release that is alone at its end is whole.
LEMMA PreparedStaging ==
    ASSUME StagingInv, IInv, IInv', PollPrepared
    PROVE  StagingInv'
<1> DEFINE t == app.events.of
<1>1. /\ thread[t].pc \in {"prepared", "failed"} /\ UNCHANGED <<past, staged>>
      /\ app.events.kind = "download"
      /\ thread' = [thread EXCEPT ![t] = NoThread]
      /\ \/ /\ thread[t].pc = "prepared"
            /\ app' = [app EXCEPT !.state = "ready", !.prepared = thread[t].release,
                                  !.events = NoEvents]
         \/ app' = [app EXCEPT !.state = "failed", !.events = NoEvents]
  BY DEF PollPrepared, Manage
<1>2. /\ app.prepared = 0 /\ app \in Apps /\ app' \in Apps
      /\ thread \in [Threads -> Downloads] /\ thread' \in [Threads -> Downloads]
      /\ app.available \in {0} \cup Releases /\ past \in Histories
  BY <1>1 DEF StagingInv, PreparedIsWhole, StageTyped, IInv
<1>3. \A u \in Threads : thread'[u] \in {thread[u], NoThread}
  BY <1>1, <1>2
<1>4. CASE app' = [app EXCEPT !.state = "failed", !.events = NoEvents]
  <2>1. app'.prepared = 0 /\ app'.available = app.available
    BY <1>2, <1>4 DEF Apps
  <2> QED BY <1>1, <1>2, <1>3, <2>1, NothingPrepared
<1>5. CASE thread[t].pc = "prepared" /\
           app' = [app EXCEPT !.state = "ready", !.prepared = thread[t].release,
                              !.events = NoEvents]
  <2> DEFINE release == thread[t].release
  <2>1. /\ app'.prepared = release /\ app'.available = app.available
        /\ app'.state = "ready" /\ app'.events = NoEvents
    BY <1>2, <1>5 DEF Apps
  <2>2. t \in Threads
    BY <1>1 DEF IInv, HearsOfChannel
  <2>3. /\ Alive(t) /\ Thread(t, "prepared") /\ release \in Releases
        /\ release \notin past.overlapped => \A f \in Shipped : staged[release][f] = release
    BY <1>5, <2>2 DEF Alive, Thread, StagingInv, ThreadsStage, StagedBy, Alone
  <2> HIDE DEF t, release
  <2>4. \A u \in Threads : Alive(u)' => u # t /\ Alive(u) /\ thread'[u] = thread[u]
    BY <1>1, <1>2, <2>2 DEF Alive, NoThread
  <2>5. release \notin past.overlapped =>
          \A u \in Threads : Alive(u)' => thread'[u].release # release
    BY <2>2, <2>3, <2>4 DEF StagingInv, OverlapsAreNoted, Alone, release
  <2>6. StageTyped'
    BY <1>1, <1>2, <2>1 DEF StagingInv, StageTyped
  <2>7. ThreadsStage'
    BY <1>1, <2>4 DEF StagingInv, ThreadsStage, StagedBy, Thread, Alone
  <2>8. OverlapsAreNoted'
    BY <1>1, <2>4 DEF StagingInv, OverlapsAreNoted, Alone
  <2>9. PreparedIsWhole'
    BY <1>1, <2>1, <2>3, <2>5, NothingHeard DEF PreparedIsWhole
  <2> QED BY <2>6, <2>7, <2>8, <2>9 DEF StagingInv
<1> QED BY <1>1, <1>4, <1>5

LEMMA WorkStaging ==
    ASSUME StagingInv,
           \/ ThreadFails \/ ResetStaging \/ FetchArchive
           \/ UnpackBegins \/ UnpackEnds \/ Validate
    PROVE  StagingInv'
<1>1. /\ thread \in [Threads -> Downloads] /\ staged \in Stagings
      /\ \A t \in Threads : Alive(t) =>
            /\ thread[t] \in Downloads /\ thread[t].release \in Releases
            /\ staged[thread[t].release] \in Sources
            /\ staged = [staged EXCEPT ![thread[t].release] = staged[thread[t].release]]
            /\ thread[t].file # Absent => Thread(t, "unpack")
            /\ thread[t].file \notin thread[t].todo
            /\ Alone(t) => StagedBy(t)
  BY DEF StagingInv, StageTyped, ThreadsStage, Stagings
<1>2. UNCHANGED <<app, past>>
  BY DEF ThreadFails, ResetStaging, FetchArchive, UnpackBegins, UnpackEnds, Validate, Stage
<1>3. CASE ThreadFails
  <2>1. PICK t \in Threads : /\ thread[t].pc \in {"reset", "fetch", "unpack"}
                             /\ thread' = [thread EXCEPT ![t] = Over("failed", t)]
    BY <1>3 DEF ThreadFails
  <2>2. UNCHANGED staged /\ Alive(t)
    BY <1>3, <2>1 DEF ThreadFails, Alive
  <2> DEFINE new == Over("failed", t)
  <2>3. /\ new \in Downloads /\ new.pc = "failed" /\ new.release = thread[t].release
        /\ new.file = Absent /\ new.todo = {}
    BY <1>1, <2>2 DEF Over, NoThread, Downloads, Works
  <2> HIDE DEF new
  <2> QED BY <1>1, <1>2, <2>1, <2>2, <2>3, ThreadStages DEF new
<1>4. CASE ResetStaging
  <2>1. PICK t \in Threads :
          /\ Thread(t, "reset") /\ Goes(t, "fetch")
          /\ staged' = [staged EXCEPT ![thread[t].release] = Nothing(Shipped)]
    BY <1>4 DEF ResetStaging
  <2> DEFINE new == [thread[t] EXCEPT !.pc = "fetch"]
  <2>2. Alive(t) /\ thread' = [thread EXCEPT ![t] = new] /\ thread[t].file = Absent
    BY <1>1, <2>1 DEF Alive, Thread, Goes
  <2>3. /\ new \in Downloads /\ new.pc = "fetch" /\ new.release = thread[t].release
        /\ new.file = Absent /\ new.file \notin new.todo
    BY <1>1, <2>2 DEF Downloads, Works
  <2>4. Nothing(Shipped) \in Sources /\ \A f \in Shipped : Nothing(Shipped)[f] = Absent
    BY FilesAre DEF Sources, Nothing
  <2> HIDE DEF new
  <2> QED BY <1>1, <1>2, <2>1, <2>2, <2>3, <2>4, ThreadStages
<1>5. CASE FetchArchive
  <2>1. PICK t \in Threads :
          /\ Thread(t, "fetch")
          /\ thread' = [thread EXCEPT ![t] = [@ EXCEPT !.pc = "unpack", !.todo = Shipped]]
    BY <1>5 DEF FetchArchive
  <2> DEFINE new == [thread[t] EXCEPT !.pc = "unpack", !.todo = Shipped]
  <2>2. /\ Alive(t) /\ thread' = [thread EXCEPT ![t] = new] /\ thread[t].file = Absent
        /\ UNCHANGED staged
    BY <1>1, <1>5, <2>1 DEF Alive, Thread, FetchArchive
  <2>3. /\ new \in Downloads /\ new.pc = "unpack" /\ new.release = thread[t].release
        /\ new.file = Absent /\ new.todo = Shipped
    BY <1>1, <2>2 DEF Downloads, Works
  <2> HIDE DEF new
  <2> DEFINE files == staged[thread[t].release]
  <2>4. /\ files \in Sources /\ staged' = [staged EXCEPT ![new.release] = files]
        /\ \A f \in Shipped \ new.todo : files[f] = IF f = new.file THEN Torn ELSE new.release
        /\ new.file \notin new.todo /\ new.release = thread[t].release
        /\ new.pc # "none" /\ new.pc # "fetch" /\ new.pc # "prepared"
    BY <1>1, <2>2, <2>3, ReleasesAre
  <2> HIDE DEF files
  <2> QED BY <1>2, <2>2, <2>3, <2>4, ThreadStages
<1>6. CASE UnpackBegins
  <2>1. PICK t \in Threads : \E f \in thread[t].todo :
          /\ Thread(t, "unpack") /\ thread[t].file = Absent
          /\ thread' = [thread EXCEPT ![t].file = f, ![t].todo = @ \ {f}]
          /\ staged' = [staged EXCEPT ![thread[t].release][f] = Torn]
    BY <1>6 DEF UnpackBegins
  <2>2. PICK f \in thread[t].todo :
          /\ Thread(t, "unpack") /\ thread[t].file = Absent
          /\ thread' = [thread EXCEPT ![t].file = f, ![t].todo = @ \ {f}]
          /\ staged' = [staged EXCEPT ![thread[t].release][f] = Torn]
    BY <2>1
  <2> DEFINE new == [thread[t] EXCEPT !.file = f, !.todo = thread[t].todo \ {f}]
             files == [staged[thread[t].release] EXCEPT ![f] = Torn]
  <2>3. /\ Alive(t) /\ thread' = [thread EXCEPT ![t] = new]
        /\ staged' = [staged EXCEPT ![thread[t].release] = files]
    BY <1>1, <2>2 DEF Alive, Thread
  <2>4. /\ new \in Downloads /\ new.pc = "unpack" /\ new.release = thread[t].release
        /\ new.file = f /\ new.todo = thread[t].todo \ {f} /\ f \in Shipped
    BY <1>1, <2>2, <2>3 DEF Downloads, Thread
  <2>5. files \in Sources /\ \A g \in Shipped :
          files[g] = IF g = f THEN Torn ELSE staged[thread[t].release][g]
    BY <1>1, <2>3, <2>4 DEF Sources, Contents
  <2>6. Alone(t) => \A g \in Shipped \ thread[t].todo :
          staged[thread[t].release][g] = thread[t].release
    BY <1>1, <2>2, <2>3, ReleasesAre DEF StagedBy
  <2> HIDE DEF new, files
  <2>7. Alone(t) => \A g \in Shipped \ new.todo :
          files[g] = IF g = new.file THEN Torn ELSE new.release
    BY <2>4, <2>5, <2>6
  <2>8. new.pc # "none" /\ new.pc # "fetch" /\ new.pc # "prepared" /\ new.file \notin new.todo
    BY <2>4
  <2>9. staged' = [staged EXCEPT ![new.release] = files] /\ new.release = thread[t].release
    BY <2>3, <2>4
  <2>10. /\ Alive(t) /\ thread' = [thread EXCEPT ![t] = new] /\ new \in Downloads
         /\ new.pc = "unpack" /\ files \in Sources
    BY <2>3, <2>4, <2>5
  <2> QED BY <1>2, <2>7, <2>8, <2>9, <2>10, ThreadStages
<1>7. CASE UnpackEnds
  <2>1. PICK t \in Threads :
          /\ Thread(t, "unpack") /\ thread[t].file # Absent
          /\ thread' = [thread EXCEPT ![t].file = Absent]
          /\ staged' = [staged EXCEPT ![thread[t].release][thread[t].file] =
                          IF @ = Absent THEN Absent ELSE thread[t].release]
    BY <1>7 DEF UnpackEnds
  <2> DEFINE release == thread[t].release
             f == thread[t].file
             new == [thread[t] EXCEPT !.file = Absent]
             files == [staged[release] EXCEPT
                         ![f] = IF staged[release][f] = Absent THEN Absent ELSE release]
  <2>2. /\ Alive(t) /\ thread' = [thread EXCEPT ![t] = new]
        /\ staged' = [staged EXCEPT ![release] = files]
    BY <1>1, <2>1 DEF Alive, Thread
  <2>3. /\ new \in Downloads /\ new.pc = "unpack" /\ new.release = release
        /\ new.file = Absent /\ new.todo = thread[t].todo
        /\ f \in Shipped /\ f \notin thread[t].todo /\ new.file \notin new.todo
    BY <1>1, <2>1, <2>2, ReleasesAre DEF Downloads, Thread
  <2>4. files \in Sources /\ \A g \in Shipped :
          files[g] = IF g # f THEN staged[release][g]
                     ELSE IF staged[release][f] = Absent THEN Absent ELSE release
    BY <1>1, <2>2, <2>3, ReleasesAre DEF Sources, Contents
  <2>5. Alone(t) => \A g \in Shipped \ thread[t].todo :
          staged[release][g] = IF g = f THEN Torn ELSE release
    BY <1>1, <2>1, <2>2 DEF StagedBy
  <2> HIDE DEF release, f, new, files
  <2>6. Alone(t) => \A g \in Shipped \ new.todo :
          files[g] = IF g = new.file THEN Torn ELSE new.release
    BY <2>3, <2>4, <2>5, ReleasesAre
  <2>7. staged' = [staged EXCEPT ![new.release] = files] /\ new.release = thread[t].release
    BY <2>2, <2>3 DEF release
  <2> QED BY <1>2, <2>2, <2>3, <2>4, <2>6, <2>7, ThreadStages
<1>8. CASE Validate
  <2>1. PICK t \in Threads :
          /\ Thread(t, "unpack") /\ thread[t].todo = {} /\ thread[t].file = Absent
          /\ Goes(t, IF staged[thread[t].release][Client] = Absent THEN "failed" ELSE "prepared")
    BY <1>8 DEF Validate
  <2>2. PICK pc \in {"failed", "prepared"} : thread' = [thread EXCEPT ![t].pc = pc]
    BY <2>1 DEF Goes
  <2> DEFINE new == [thread[t] EXCEPT !.pc = pc]
  <2>3. /\ Alive(t) /\ thread' = [thread EXCEPT ![t] = new] /\ UNCHANGED staged
    BY <1>1, <1>8, <2>1, <2>2 DEF Alive, Thread, Validate
  <2>4. /\ new \in Downloads /\ new.pc = pc /\ new.release = thread[t].release
        /\ new.file = Absent /\ new.todo = {}
    BY <1>1, <2>1, <2>3 DEF Downloads, Works
  <2>5. Alone(t) => \A f \in Shipped : staged[thread[t].release][f] = thread[t].release
    BY <1>1, <2>1, <2>3, ReleasesAre DEF StagedBy
  <2> HIDE DEF new
  <2> DEFINE files == staged[thread[t].release]
  <2>6. /\ files \in Sources /\ staged' = [staged EXCEPT ![new.release] = files]
        /\ Alone(t) => \A f \in Shipped : files[f] = new.release
        /\ new.file \notin new.todo /\ new.release = thread[t].release
        /\ new.pc # "none" /\ new.pc # "fetch" /\ new.pc # "unpack"
    BY <1>1, <2>3, <2>4, <2>5
  <2> HIDE DEF files
  <2> QED BY <1>2, <2>3, <2>4, <2>6, ThreadStages
<1> QED BY <1>3, <1>4, <1>5, <1>6, <1>7, <1>8

-----------------------------------------------------------------------------
(* A release that is whole, from its directory to the installation         *)
Sound == updater.release \notin past.overlapped

\* A release that was staged soundly is there as a whole, and a file of it that is
\* neither an entry yet nor one of the copies is installed.
SourceIsWhole ==
    Sound /\ Applying =>
        /\ \A f \in Shipped : updater.source[f] = updater.release
        /\ \A f \in Shipped \ (updater.entries \cup updater.copies) :
              target[f] = updater.release

DoneIsWhole == At("done") /\ Sound => target = Updated(kept.target)

WholeInv == SourceIsWhole /\ DoneIsWhole

-----------------------------------------------------------------------------
\* A step that moves or writes files while the updater applies: what is at stake is
\* the second part of SourceIsWhole.
LEMMA GoesOnWhole ==
    ASSUME WholeInv, Applying, Applying', updater'.release = updater.release,
           updater'.source = updater.source, UNCHANGED past,
           ASSUME Sound, \A f \in Shipped : updater.source[f] = updater.release,
                  NEW f \in Shipped \ (updater'.entries \cup updater'.copies),
                  f \notin updater.entries \cup updater.copies => target[f] = updater.release
           PROVE  target'[f] = updater.release
    PROVE  WholeInv'
<1>1. SourceIsWhole'
  BY DEF WholeInv, SourceIsWhole, Sound
<1>2. DoneIsWhole'
  BY DEF DoneIsWhole, Applying, At
<1> QED BY <1>1, <1>2 DEF WholeInv

\* A release that is whole is taken with all its files.
LEMMA SourcedIsShipped ==
    ASSUME ApplyTyped, \A f \in Shipped : updater.source[f] = updater.release
    PROVE  Sourced = Shipped
BY FilesAre DEF ApplyTyped, Updaters, Sources, Sourced, Present

LEMMA ApplyingWhole ==
    ASSUME ApplyInv, WholeInv, UNCHANGED past,
           MoveOldClient \/ ClientsMoved \/ FileEntry \/ FolderEntry \/ CopyFile \/ EntryCopied
    PROVE  WholeInv'
<1>1. /\ updater \in Updaters /\ target \in Directories /\ backup \in Directories
      /\ updater.entries \subseteq Shipped
  BY DEF ApplyInv, ApplyTyped, Updaters
<1>2. CASE MoveOldClient
  <2>1. /\ UNCHANGED updater /\ At("clients")
        /\ \A f \in Files \ OldClients : target'[f] = target[f]
    BY <1>2, Moved DEF MoveOldClient, OldClientsLeft, ApplyInv
  <2> QED BY <1>2, <2>1, FilesAre, GoesOnWhole DEF Applying, At
<1>3. CASE ClientsMoved
  <2>1. /\ updater' = [updater EXCEPT !.pc = "entries"] /\ UNCHANGED target /\ At("clients")
    BY <1>3 DEF ClientsMoved
  <2>2. /\ updater'.pc = "entries" /\ updater'.release = updater.release
        /\ updater'.source = updater.source /\ updater'.entries = updater.entries
        /\ updater'.copies = updater.copies
    BY <1>1, <2>1 DEF Updaters
  <2> QED BY <2>1, <2>2, GoesOnWhole DEF Applying, At
<1>4. CASE FileEntry
  <2>1. PICK g \in updater.entries \ UNION Folders :
          /\ MoveToBackup({g})
          /\ updater' = [updater EXCEPT !.pc = "copy", !.entries = @ \ {g}, !.copies = {g}]
    BY <1>4 DEF FileEntry
  <2>2. At("entries") /\ updater.copies = {}
    BY <1>4 DEF FileEntry, ApplyInv, PlanInv, EntriesAndCopies, Copies, Applying, At
  <2>3. /\ updater'.pc = "copy" /\ updater'.release = updater.release
        /\ updater'.source = updater.source /\ updater'.entries = updater.entries \ {g}
        /\ updater'.copies = {g}
    BY <1>1, <2>1 DEF Updaters
  <2>4. \A f \in Files \ {g} : target'[f] = target[f]
    BY <2>1, Moved DEF ApplyInv
  <2> QED BY <2>2, <2>3, <2>4, FilesAre, GoesOnWhole DEF Applying, At
<1>5. CASE FolderEntry
  <2>1. PICK folder \in Folders :
          /\ MoveToBackup(folder) /\ At("entries")
          /\ updater.entries \cap folder # {}
          /\ updater' = [updater EXCEPT !.pc = "copy", !.entries = @ \ folder,
                                        !.copies = updater.entries \cap folder,
                                        !.libraries = (folder = Resources)]
    BY <1>5 DEF FolderEntry, CopiesOf
  <2>2. updater.copies = {} /\ Sourced \cap folder \subseteq updater.entries
    BY <2>1 DEF ApplyInv, PlanInv, EntriesAndCopies, Entries, Copies, Applying, At
  <2>3. /\ updater'.pc = "copy" /\ updater'.release = updater.release
        /\ updater'.source = updater.source /\ updater'.entries = updater.entries \ folder
        /\ updater'.copies = updater.entries \cap folder
    BY <1>1, <2>1 DEF Updaters
  <2>4. \A f \in Files \ folder : target'[f] = target[f]
    BY <2>1, Moved DEF ApplyInv
  <2>5. ASSUME \A f \in Shipped : updater.source[f] = updater.release,
               NEW f \in Shipped \ (updater'.entries \cup updater'.copies)
        PROVE  f \notin folder /\ f \notin updater.entries
    BY <2>2, <2>3, <2>5, SourcedIsShipped DEF ApplyInv
  <2> QED BY <2>1, <2>2, <2>3, <2>4, <2>5, FilesAre, GoesOnWhole DEF Applying, At
<1>6. CASE CopyFile
  <2>1. PICK g \in updater.copies :
          LET content == IF g \in Sourced THEN updater.source[g] ELSE backup[g]
          IN \/ /\ target' = [target EXCEPT ![g] = content]
                /\ updater' = [updater EXCEPT !.copies = @ \ {g}]
             \/ /\ target' = [target EXCEPT ![g] = Torn]
                /\ UNCHANGED updater
    BY <1>6 DEF CopyFile, Sourced
  <2>2. At("copy") /\ g \in Files
    BY <1>1, <1>6 DEF CopyFile, Updaters
  <2>3. /\ updater'.pc = "copy" /\ updater'.release = updater.release
        /\ updater'.source = updater.source /\ updater'.entries = updater.entries
        /\ \A f : f # g /\ f \in updater.copies => f \in updater'.copies
    BY <1>1, <2>1, <2>2 DEF Updaters, At
  <2>4. /\ \A f \in Files \ {g} : target'[f] = target[f]
        /\ g \in updater'.copies \/ (g \in Sourced => target'[g] = updater.source[g])
    BY <1>1, <2>1, <2>2 DEF Directories
  <2>5. ASSUME \A f \in Shipped : updater.source[f] = updater.release,
               NEW f \in Shipped \ (updater'.entries \cup updater'.copies),
               f \notin updater.entries \cup updater.copies => target[f] = updater.release
        PROVE  target'[f] = updater.release
    <3>1. CASE f = g
      BY <2>4, <2>5, <3>1, SourcedIsShipped DEF ApplyInv
    <3>2. CASE f # g
      BY <2>3, <2>4, <2>5, <3>2, FilesAre
    <3> QED BY <3>1, <3>2
  <2> QED BY <2>2, <2>3, <2>5, GoesOnWhole DEF Applying, At
<1>7. CASE EntryCopied
  <2>1. /\ updater.copies = {} /\ At("copy") /\ UNCHANGED target
        /\ \/ updater' = [updater EXCEPT !.copies = LocalLibraries, !.libraries = FALSE]
           \/ updater' = [updater EXCEPT !.pc = "entries"]
    BY <1>7 DEF EntryCopied
  <2>2. /\ updater'.pc \in {"copy", "entries"} /\ updater'.release = updater.release
        /\ updater'.source = updater.source /\ updater'.entries = updater.entries
    BY <1>1, <2>1 DEF Updaters, At
  <2> QED BY <2>1, <2>2, GoesOnWhole DEF Applying, At
<1> QED BY <1>2, <1>3, <1>4, <1>5, <1>6, <1>7

\* When no entry is left each file is accounted for.
LEMMA DoneWhole ==
    ASSUME ApplyInv, WholeInv, UNCHANGED past, ApplyDone
    PROVE  WholeInv'
<1>1. /\ At("entries") /\ updater.entries = {} /\ UNCHANGED <<target, kept>>
      /\ updater'.pc = "done" /\ updater'.release = updater.release
      /\ target \in Directories
  BY EndedIs DEF ApplyDone, ApplyInv, ApplyTyped
<1>2. ASSUME Sound PROVE target = Updated(kept.target)
  <2>1. \A f \in Shipped : updater.source[f] = updater.release /\ target[f] = updater.release
    BY <1>1, <1>2 DEF WholeInv, SourceIsWhole, Applying, At, ApplyInv, PlanInv,
                      EntriesAndCopies, Copies
  <2>2. Sourced = Shipped
    BY <2>1, SourcedIsShipped DEF ApplyInv
  <2>3. \A f \in Removed \ Shipped : target[f] = Absent
    <3>1. \A f \in OldClients : target[f] = Absent
      BY <1>1 DEF ApplyInv, PlanInv, Taken, At
    <3>2. ASSUME NEW folder \in Folders, folder \cap Shipped # {},
                 NEW f \in folder \ (Libraries \cup Shipped)
          PROVE  target[f] = Absent
      BY <1>1, <2>2, <3>2 DEF ApplyInv, PlanInv, Taken, Applying, At
    <3>3. ASSUME NEW f \in Removed \ Shipped, f \notin OldClients
          PROVE  target[f] = Absent
      <4>1. PICK folder \in Replaced : f \in folder \ Libraries
        BY <3>3 DEF Removed
      <4>2. folder \in Folders /\ folder \cap Shipped # {}
        BY <4>1 DEF Replaced
      <4> QED BY <3>2, <3>3, <4>1, <4>2
    <3> QED BY <3>1, <3>3
  <2>4. \A f \in Local : target[f] = kept.target[f]
    BY <1>1 DEF ApplyInv, LocalInv, LocalKept
  <2>5. \A f \in Files : target[f] = Updated(kept.target)[f]
    BY <2>1, <2>3, <2>4 DEF Updated, Local
  <2>6. target = [f \in Files |-> target[f]]
    BY <1>1 DEF Directories
  <2> QED BY <2>5, <2>6 DEF Updated
<1>3. Updated(kept.target)' = Updated(kept.target) /\ Sound' = Sound
  BY <1>1 DEF Updated, Sound, Files, Removed
<1> QED BY <1>1, <1>2, <1>3 DEF WholeInv, SourceIsWhole, DoneIsWhole, Applying, At

LEMMA StoppedWhole ==
    ASSUME ApplyInv, ApplyFails \/ RestoreFile \/ RestoreFails \/ Restored \/ UpdaterCrash
    PROVE  WholeInv'
<1>1. updater'.pc \in {"restore", "failed", "idle"}
  BY EndedIs DEF ApplyInv, ApplyFails, RestoreFile, RestoreFails, Restored, UpdaterCrash, At
<1> QED BY <1>1 DEF WholeInv, SourceIsWhole, DoneIsWhole, Applying, At

LEMMA ApplyStepWhole ==
    ASSUME ApplyInv, WholeInv, UNCHANGED past, ApplyStep
    PROVE  WholeInv'
BY ApplyingWhole, DoneWhole, StoppedWhole DEF ApplyStep

\* The updater begins on a release that is prepared.
LEMMA StartedWhole ==
    ASSUME StagingInv, InstallUpdate
    PROVE  WholeInv'
<1>1. /\ app.prepared # 0 /\ BeginApply(app.prepared, staged[app.prepared]) /\ UNCHANGED past
  BY DEF InstallUpdate, MayInstall
<1>2. /\ updater'.pc = "clients" /\ updater'.release = app.prepared
      /\ updater'.source = staged[app.prepared]
      /\ updater'.entries = Present(staged[app.prepared])
  BY <1>1 DEF BeginApply, NoUpdater
<1>3. ASSUME Sound'
      PROVE  \A f \in Shipped : /\ updater'.source[f] = updater'.release
                                /\ f \in updater'.entries
  <2>1. app.prepared \in Releases /\ app.prepared \notin past.overlapped
    BY <1>1, <1>2, <1>3 DEF StagingInv, PreparedIsWhole, Sound
  <2>2. \A f \in Shipped : staged[app.prepared][f] = app.prepared
    BY <1>1, <2>1 DEF StagingInv, PreparedIsWhole
  <2>3. staged[app.prepared] \in Sources
    BY <2>1 DEF StagingInv, StageTyped, Stagings
  <2> QED BY <1>2, <2>1, <2>2, <2>3, ReleasesAre DEF Present, Sources
<1> QED BY <1>2, <1>3 DEF WholeInv, SourceIsWhole, DoneIsWhole, Applying, At

\* A step that leaves the updater and the installation alone
LEMMA ElsewhereWhole ==
    ASSUME WholeInv, UNCHANGED applyVars, past.overlapped \subseteq past'.overlapped
    PROVE  WholeInv'
BY DEF WholeInv, SourceIsWhole, DoneIsWhole, applyVars, Sound, Applying, At, Updated, Files, Removed

LEMMA ElsewhereInv ==
    ASSUME ApplyInv, UNCHANGED applyVars
    PROVE  ApplyInv'
BY DEF ApplyInv, ApplyTyped, OldInv, PlanInv, LocalInv, BackupIsOld, Saved, CopiesAreSaved,
       EntriesAndCopies, Entries, Copies, Untouched, Taken, LocalKept, LocalOriginals,
       applyVars, Applying, At, Sourced, Present, Local, Removed, Files

-----------------------------------------------------------------------------
\* What the invariant is for
LEMMA OriginalsAreThere ==
    ASSUME ApplyInv
    PROVE  OriginalsSurvive
<1> SUFFICES ASSUME NEW f \in Installed,
                    f \in Shipped \cup Removed => kept.target[f] = 0 /\ ~At("done")
             PROVE  target[f] = 0 \/ backup[f] = 0 \/ f \in kept.orphans
  BY DEF OriginalsSurvive
<1>1. f \in Files
  BY FilesAre
<1>2. CASE At("done")
  <2>1. f \in Local
    BY <1>1, <1>2 DEF Local
  <2>2. target[f] = kept.target[f]
    BY <1>2, <2>1 DEF ApplyInv, LocalInv, LocalKept
  <2> QED BY <2>1, <2>2 DEF ApplyInv, LocalInv, LocalOriginals
<1>3. CASE ~At("done")
  <2>1. kept.target[f] \in {target[f], backup[f]}
    BY <1>1, <1>3 DEF ApplyInv, OldInv, Saved
  <2>2. CASE f \in Local
    BY <2>1, <2>2 DEF ApplyInv, LocalInv, LocalOriginals
  <2>3. CASE f \notin Local
    BY <1>1, <2>1, <2>3 DEF Local
  <2> QED BY <2>2, <2>3
<1> QED BY <1>2, <1>3

LEMMA WholeOrNothing ==
    ASSUME ApplyInv, WholeInv
    PROVE  UpdateIsWhole
<1>1. ASSUME At("failed"), Present(backup) = {}, NEW f \in Present(kept.target)
      PROVE  target[f] = kept.target[f]
  <2>1. f \in Files /\ kept.target[f] # Absent /\ backup[f] = Absent
    BY <1>1 DEF ApplyInv, ApplyTyped, Present, Directories
  <2> QED BY <1>1, <2>1 DEF ApplyInv, OldInv, Saved, At
<1> QED BY <1>1 DEF UpdateIsWhole, AllOrNothing, WholeInv, DoneIsWhole, Sound

-----------------------------------------------------------------------------
(* The update as a whole                                                   *)
UpdateInv == IInv /\ ApplyInv /\ StagingInv /\ WholeInv

LEMMA UpdateInit == Init => UpdateInv
<1> SUFFICES ASSUME Init PROVE ApplyInv /\ WholeInv
  BY InitInv, StagingInit DEF UpdateInv
<1>1. /\ target = [f \in Files |-> IF f \in Installed THEN 0 ELSE Absent]
      /\ backup = Nothing(Files) /\ updater = NoUpdater
      /\ kept = [target |-> target, orphans |-> {}, failures |-> 0]
  BY DEF Init, ApplyInit
<1>2. target \in Directories /\ \A f \in Installed : target[f] = 0
  BY <1>1, FilesAre DEF Directories, Contents
<1>3. updater \in Updaters /\ updater.pc = "idle"
  BY <1>1, FilesAre DEF NoUpdater, Updaters, Sources
<1>4. ApplyTyped
  BY <1>1, <1>2, <1>3, FilesAre DEF ApplyTyped, Directories
<1>5. OldInv /\ PlanInv
  BY <1>1, <1>3 DEF OldInv, BackupIsOld, Saved, CopiesAreSaved, PlanInv, EntriesAndCopies,
                    Untouched, Taken, Applying, At, Nothing
<1>6. LocalInv
  BY <1>1, <1>2, <1>3 DEF LocalInv, LocalKept, LocalOriginals, Local, At
<1>7. WholeInv
  BY <1>3 DEF WholeInv, SourceIsWhole, DoneIsWhole, Applying, At
<1> QED BY <1>4, <1>5, <1>6, <1>7 DEF ApplyInv

LEMMA UpdateNext ==
    ASSUME UpdateInv, [Next]_vars
    PROVE  UpdateInv'
<1>1. IInv' /\ IInv /\ ApplyInv /\ StagingInv /\ WholeInv
  BY InvariantNext DEF UpdateInv
<1>2. CASE CheckForUpdates \/ SetChannel \/ PollChecked \/ ThreadUnheard
           \/ InstallCannotStart \/ AppQuits \/ AppStarts \/ DownloadUpdate \/ PollPrepared
  <2>1. UNCHANGED applyVars
    BY <1>2 DEF CheckForUpdates, SetChannel, PollChecked, ThreadUnheard, InstallCannotStart,
                AppQuits, AppStarts, DownloadUpdate, PollPrepared, Manage
  <2>2. past.overlapped \subseteq past'.overlapped
    <3>1. past \in Histories
      BY <1>1 DEF StagingInv, StageTyped
    <3>2. CASE DownloadUpdate
      BY <3>1, <3>2 DEF DownloadUpdate, Histories
    <3>3. CASE past' = past \/ past' = [past EXCEPT !.turns = @ + 1]
      BY <3>1, <3>3 DEF Histories
    <3> QED BY <1>2, <3>2, <3>3 DEF CheckForUpdates, SetChannel, PollChecked, ThreadUnheard,
               InstallCannotStart, AppQuits, AppStarts, PollPrepared
  <2>3. StagingInv'
    BY <1>1, <1>2, ManagerStaging, DownloadStaging, PreparedStaging
  <2> QED BY <1>1, <2>1, <2>2, <2>3, ElsewhereInv, ElsewhereWhole DEF UpdateInv
<1>3. CASE ThreadFails \/ ResetStaging \/ FetchArchive \/ UnpackBegins \/ UnpackEnds \/ Validate
  <2>1. UNCHANGED <<applyVars, past>>
    BY <1>3 DEF ThreadFails, ResetStaging, FetchArchive, UnpackBegins, UnpackEnds, Validate, Stage
  <2> QED BY <1>1, <1>3, <2>1, WorkStaging, ElsewhereInv, ElsewhereWhole DEF UpdateInv
<1>4. CASE InstallUpdate
  <2>1. /\ app.prepared # 0 /\ BeginApply(app.prepared, staged[app.prepared])
    BY <1>4 DEF InstallUpdate, MayInstall
  <2>2. app.prepared \in Releases /\ staged[app.prepared] \in Sources
    BY <1>1, <2>1 DEF StagingInv, PreparedIsWhole, StageTyped, Stagings
  <2>3. ApplyInv'
    BY <1>1, <2>1, <2>2, OriginalsAreThere, Started, ReleasesAre DEF ApplyInv
  <2> QED BY <1>1, <1>4, <2>3, ManagerStaging, StartedWhole DEF UpdateInv
<1>5. CASE Update
  <2>1. ApplyStep /\ UNCHANGED <<app, thread, staged, past>>
    BY <1>5 DEF Update
  <2>2. StagingInv'
    BY <1>1, <2>1, StagingElsewhere
  <2> QED BY <1>1, <2>1, <2>2, ApplyStepInv, ApplyStepWhole DEF UpdateInv
<1>6. CASE UNCHANGED vars
  BY <1>1, <1>6, StagingElsewhere, ElsewhereInv, ElsewhereWhole DEF UpdateInv, vars
<1> QED BY <1>2, <1>3, <1>4, <1>5, <1>6 DEF Next

\* The invariant of the update: what the updater took is saved, what it has not come
\* to is untouched, and a release no two threads staged at once is whole.
THEOREM UpdateInvariance == Spec => []UpdateInv
BY UpdateInit, UpdateNext, PTL DEF Spec

\* The first content of a file (main.rs of xrtranslate-updater: backup_existing and
\* restore_entries) is in the installation or in a backup, however often updaters
\* fail, fail to put the backup back, or are killed between any two renames and
\* copies, until an update ends that ships the file, or a directory it was in.  Of
\* any other file it is never destroyed.
THEOREM OriginalsAreKept == Spec => []OriginalsSurvive
BY UpdateInvariance, OriginalsAreThere, PTL DEF UpdateInv

\* An update that ended installed every file of the release, emptied the release's
\* directories of all others but local libraries, and left the rest as it was; one
\* that failed and was put back left every file that was there (AppUpdateManager, download_and_stage
\* and the updater), for all files, directories, releases and threads.
THEOREM UpdatesAreWhole == Spec => []UpdateIsWhole
BY UpdateInvariance, WholeOrNothing, PTL DEF UpdateInv
=============================================================================
