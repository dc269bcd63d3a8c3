------------------------- MODULE MeetingRecording -------------------------
(***************************************************************************)
(* The audio of one recognition run of a meeting and the directory it is   *)
(* kept in (plugins/meeting/recording.rs): a writer thread appends what    *)
(* the capture accepted to one part file per track, a control thread asks  *)
(* it for checkpoints and ends it, and the next start of the application   *)
(* publishes what a crash left behind.                                     *)
(*                                                                         *)
(* A chunk of audio is its number.  A process crash keeps all that was     *)
(* written to files; a power loss keeps what was synced, some of the rest, *)
(* and the directory as it was at some moment since the last sync.         *)
(***************************************************************************)
EXTENDS Naturals, Sequences, SequencesExt

CONSTANTS
    QueueCapacity,  \* of the writer's queue, 128 in the code
    Crashes,        \* kinds of crash that may happen: "process", "power"
    MaxChunks,      \* bound: chunks of audio
    MaxCalls,       \* bound: recordings started, and calls made to them
    MaxCrashes      \* bound: crashes

ASSUME BoundsAssumption ==
    /\ QueueCapacity \in Nat \ {0}
    /\ Crashes \subseteq {"process", "power"}
    /\ {MaxChunks, MaxCalls, MaxCrashes} \subseteq Nat

VARIABLES
    control,   \* the control thread and the call it has made
    queue,     \* the writer's queue
    writer,    \* the writer thread and the call it serves
    buffer,    \* per track, what BufWriter has not written
    work,      \* file operations that remain of a start, a call or a recovery
    disk,      \* per track: names in the directory, and the two files
    durable,   \* the names as they are on the medium
    past       \* history, see PastOK

vars == <<control, queue, writer, buffer, work, disk, durable, past>>

MicTrack == "microphone"
SystemTrack == "systemAudio"
Tracks == {MicTrack, SystemTrack}
CallKinds == {"checkpoint", "stop", "finalize"}

Command(kind, chunk) == [kind |-> kind, chunk |-> chunk]
Step(op, track) == [op |-> op, track |-> track]
EmptyFile == [data |-> <<>>, synced |-> 0]
NoWriter == [pc |-> "none", call |-> "none", ok |-> TRUE]
Names(files) == [t \in Tracks |-> [part |-> files[t].part, wav |-> files[t].wav]]

Init ==
    /\ control = [pc |-> "idle", call |-> "none"]
    /\ queue = <<>>
    /\ writer = NoWriter
    /\ buffer = [t \in Tracks |-> <<>>]
    /\ work = <<>>
    /\ disk = [t \in Tracks |->
                 [part |-> FALSE, wav |-> "none", pcm |-> EmptyFile, out |-> EmptyFile]]
    /\ durable = Names(disk)
    /\ past = [chunks |-> 0, calls |-> 0, crashes |-> 0, ioFailed |-> FALSE,
               powerLost |-> FALSE, finalized |-> FALSE,
               accepted |-> [t \in Tracks |-> <<>>],
               asked |-> [t \in Tracks |-> <<>>],
               reported |-> [t \in Tracks |-> <<>>]]

-----------------------------------------------------------------------------
(* The application: starting, the audio routers, and the three calls *)

\* start: refused when a WAV is there
Start ==
    /\ control.pc = "idle"
    /\ past.calls < MaxCalls
    /\ \A t \in Tracks : disk[t].wav # "wav"
    /\ control' = [control EXCEPT !.pc = "opening"]
    /\ work' = <<Step("open", MicTrack), Step("open", SystemTrack)>>
    /\ writer' = NoWriter
    /\ past' = [past EXCEPT !.calls = @ + 1]
    /\ UNCHANGED <<queue, buffer, disk, durable>>

\* Both part files are open, or one is not and there is no recording.
Started ==
    /\ control.pc = "opening"
    /\ work = <<>>
    /\ IF writer.ok
       THEN /\ control' = [control EXCEPT !.pc = "live"]
            /\ writer' = [writer EXCEPT !.pc = "loop"]
            /\ past' = [past EXCEPT !.accepted = [t \in Tracks |-> disk[t].pcm.data]]
       ELSE /\ control' = [control EXCEPT !.pc = "idle"]
            /\ UNCHANGED <<writer, past>>
    /\ UNCHANGED <<queue, buffer, work, disk, durable>>

\* try_append by an audio router.  A full or closed queue refuses the chunk.
\* The routers are joined before a stop or a finalize.
AppendWhile(room, track) ==
    /\ control.pc = "live" \/ control.call = "checkpoint"
    /\ writer.pc # "none"
    /\ room
    /\ past.chunks < MaxChunks
    /\ queue' = Append(queue, Command(track, past.chunks + 1))
    /\ past' = [past EXCEPT !.chunks = @ + 1,
                            !.accepted[track] = Append(@, past.chunks + 1)]
    /\ UNCHANGED <<control, writer, buffer, work, disk, durable>>

TryAppend(track) == AppendWhile(Len(queue) < QueueCapacity, track)

Ask(kind) ==
    /\ control.pc = "live"
    /\ past.calls < MaxCalls
    /\ control' = [pc |-> "sending", call |-> kind]
    /\ past' = [past EXCEPT !.calls = @ + 1]
    /\ UNCHANGED <<queue, writer, buffer, work, disk, durable>>

\* A checkpoint leaves the recording running, the other calls consume it.
Returned ==
    [pc |-> IF control.call = "checkpoint" THEN "live" ELSE "idle", call |-> "none"]

\* send blocks while the queue is full and fails once the writer is gone
SendCall ==
    /\ control.pc = "sending"
    /\ \/ /\ writer.pc = "none"
          /\ control' = Returned
          /\ UNCHANGED <<queue, past>>
       \/ /\ writer.pc # "none"
          /\ Len(queue) < QueueCapacity
          /\ queue' = Append(queue, Command(control.call, 0))
          /\ control' = [control EXCEPT !.pc = "waiting"]
          /\ past' = [past EXCEPT !.asked = past.accepted]
    /\ UNCHANGED <<writer, buffer, work, disk, durable>>

-----------------------------------------------------------------------------
(* The writer thread *)

\* BufWriter writes the first n[t] chunks of its buffers.
Spilled(files, n) ==
    [t \in Tracks |->
        [files[t] EXCEPT !.pcm.data = @ \o SubSeq(buffer[t], 1, n[t])]]

\* What a failed flush, or the last one when a writer is dropped, may write.
Partly == {n \in [Tracks -> 0..MaxChunks] : \A t \in Tracks : n[t] <= Len(buffer[t])}

\* The thread returns: its queue is closed and discarded, its files are closed.
WriterLeaves ==
    /\ writer' = NoWriter
    /\ queue' = <<>>
    /\ buffer' = [t \in Tracks |-> <<>>]
    /\ \E n \in Partly : disk' = Spilled(disk, n)

\* Receives a chunk.  BufWriter keeps it, or makes room for it first, or
\* writes it too; when that fails the thread returns and whoever waits is told.
WriteChunkTelling(caller) ==
    /\ writer.pc = "loop"
    /\ queue # <<>>
    /\ Head(queue).kind \in Tracks
    /\ LET track == Head(queue).kind
           pending == Append(buffer[track], Head(queue).chunk)
       IN \/ /\ \E n \in {0, Len(pending) - 1, Len(pending)} :
                   /\ disk' = [disk EXCEPT ![track].pcm.data = @ \o SubSeq(pending, 1, n)]
                   /\ buffer' = [buffer EXCEPT ![track] = SubSeq(pending, n + 1, Len(pending))]
             /\ queue' = Tail(queue)
             /\ UNCHANGED <<control, writer>>
          \/ /\ WriterLeaves
             /\ control' = caller
    /\ UNCHANGED <<work, durable, past>>

\* Mutant: the response of a call that is still queued is never given up.
WriteChunkSilently == WriteChunkTelling(control)

WriteChunk ==
    WriteChunkTelling(IF control.pc = "waiting" THEN Returned ELSE control)

CheckpointSteps ==
    <<Step("flush", MicTrack), Step("sync", MicTrack),
      Step("flush", SystemTrack), Step("sync", SystemTrack)>>

\* Mutant: the second track is forgotten.
FinalizeMicrophone == <<Step("examine", MicTrack)>>

FinalizeSteps == <<Step("examine", MicTrack), Step("examine", SystemTrack)>>

ReceiveCall ==
    /\ writer.pc = "loop"
    /\ queue # <<>>
    /\ Head(queue).kind \in CallKinds
    /\ queue' = Tail(queue)
    /\ writer' = [pc |-> "serving", call |-> Head(queue).kind, ok |-> TRUE]
    /\ work' = IF Head(queue).kind = "finalize" THEN CheckpointSteps \o FinalizeSteps
               ELSE CheckpointSteps
    /\ UNCHANGED <<control, buffer, disk, durable, past>>

\* The response; after a stop or a finalize the thread ends and is joined.
Respond ==
    /\ writer.pc = "serving"
    /\ work = <<>>
    /\ control' = Returned
    /\ past' = IF writer.ok
               THEN [past EXCEPT !.reported = past.asked,
                                 !.finalized = writer.call = "finalize"]
               ELSE past
    /\ IF writer.call = "checkpoint"
       THEN writer' = [writer EXCEPT !.pc = "loop"] /\ UNCHANGED <<queue, buffer, disk>>
       ELSE WriterLeaves
    /\ UNCHANGED <<work, durable>>

-----------------------------------------------------------------------------
(* File operations *)

Doing(op) ==
    /\ work # <<>>
    /\ Head(work).op = op
    /\ UNCHANGED <<control, queue, past>>

\* The operation is done, `next` comes before the rest.
Done(next) == work' = next \o Tail(work) /\ UNCHANGED writer

\* The track of the operation at hand.
Track == Head(work).track

\* A sync reaches the medium with all earlier operations on the directory.
Synced(file) ==
    /\ disk' = [disk EXCEPT ![Track][file].synced = Len(disk[Track][file].data)]
    /\ durable' = Names(disk)

OpenPart ==
    /\ Doing("open")
    /\ disk' = [disk EXCEPT ![Track].part = TRUE]
    /\ Done(<<>>)
    /\ UNCHANGED <<buffer, durable>>

FlushPart ==
    /\ Doing("flush")
    /\ disk' = [disk EXCEPT ![Track].pcm.data = @ \o buffer[Track]]
    /\ buffer' = [buffer EXCEPT ![Track] = <<>>]
    /\ Done(<<>>)
    /\ UNCHANGED durable

\* Mutant: a checkpoint only flushes.
SyncPartNot ==
    /\ Doing("sync")
    /\ Done(<<>>)
    /\ UNCHANGED <<buffer, disk, durable>>

SyncPart ==
    /\ Doing("sync")
    /\ Synced("pcm")
    /\ Done(<<>>)
    /\ UNCHANGED buffer

Published(track) == disk[track].wav = "wav"
SameLength(track) == Len(disk[track].pcm.data) = Len(disk[track].out.data)

Publishing ==
    <<Step("copy", Track), Step("syncCopy", Track), Step("rename", Track),
      Step("remove", Track)>>

ExamineFor(refused, steps) ==
    /\ Doing("examine")
    /\ IF refused
       THEN work' = <<>> /\ writer' = [writer EXCEPT !.ok = FALSE]
       ELSE Done(steps)
    /\ UNCHANGED <<buffer, disk, durable>>

\* Mutant: whatever is there is written again.
ExamineAnew == ExamineFor(FALSE, Publishing)

\* Mutant: a WAV that is there is always refused.
ExamineRefuses == ExamineFor(Published(Track), Publishing)

\* finalize_part: a WAV that is there already must hold as many samples.
ExaminePart ==
    ExamineFor(Published(Track) /\ ~SameLength(Track),
               IF Published(Track) THEN <<Step("remove", Track)>> ELSE Publishing)

\* The temporary file is created or truncated, and written.  There is no WAV yet,
\* so that one file stands for both.
CopyPart ==
    /\ Doing("copy")
    /\ disk' = [disk EXCEPT ![Track].wav = "tmp",
                            ![Track].out = [data |-> disk[Track].pcm.data, synced |-> 0]]
    /\ Done(<<>>)
    /\ UNCHANGED <<buffer, durable>>

SyncCopy ==
    /\ Doing("syncCopy")
    /\ Synced("out")
    /\ Done(<<>>)
    /\ UNCHANGED buffer

RenameCopy ==
    /\ Doing("rename")
    /\ disk' = [disk EXCEPT ![Track].wav = "wav"]
    /\ Done(<<>>)
    /\ UNCHANGED <<buffer, durable>>

RemovePart ==
    /\ Doing("remove")
    /\ disk' = [disk EXCEPT ![Track].part = FALSE]
    /\ Done(<<>>)
    /\ UNCHANGED <<buffer, durable>>

\* Any operation may fail, which ends what it is a part of.  A flush may have
\* written some of its buffer; a temporary file is written anew the next time.
OperationFails ==
    /\ work # <<>>
    /\ IF Head(work).op = "flush"
       THEN \E n \in 0..Len(buffer[Track]) :
               /\ disk' = [disk EXCEPT ![Track].pcm.data = @ \o SubSeq(buffer[Track], 1, n)]
               /\ buffer' = [buffer EXCEPT ![Track] = SubSeq(@, n + 1, Len(@))]
       ELSE UNCHANGED <<disk, buffer>>
    /\ work' = <<>>
    /\ writer' = [writer EXCEPT !.ok = FALSE]
    /\ past' = [past EXCEPT !.ioFailed = TRUE]
    /\ UNCHANGED <<control, queue, durable>>

FileOperation ==
    \/ OpenPart \/ FlushPart \/ SyncPart \/ ExaminePart \/ CopyPart \/ SyncCopy
    \/ RenameCopy \/ RemovePart \/ OperationFails

-----------------------------------------------------------------------------
(* Crashes and the next start of the application *)

\* The system writes the directory to the medium.
DirectoryReachesMedium ==
    /\ "power" \in Crashes
    /\ durable # Names(disk)
    /\ durable' = Names(disk)
    /\ UNCHANGED <<control, queue, writer, buffer, work, disk, past>>

Kept(file, n) == [data |-> SubSeq(file.data, 1, n), synced |-> n]
Survivors(file) == {Kept(file, n) : n \in file.synced..Len(file.data)}

PowerLoss ==
    \E files \in [Tracks -> [part : BOOLEAN, wav : {"none", "tmp", "wav"},
                             pcm : UNION {Survivors(disk[t].pcm) : t \in Tracks},
                             out : UNION {Survivors(disk[t].out) : t \in Tracks}]] :
        /\ Names(files) = durable
        /\ \A t \in Tracks : /\ files[t].pcm \in Survivors(disk[t].pcm)
                             /\ files[t].out \in Survivors(disk[t].out)
        /\ disk' = files

Crash(kind) ==
    /\ kind \in Crashes
    /\ past.crashes < MaxCrashes
    /\ control.pc # "down"
    /\ control' = [pc |-> "down", call |-> "none"]
    /\ queue' = <<>>
    /\ writer' = NoWriter
    /\ buffer' = [t \in Tracks |-> <<>>]
    /\ work' = <<>>
    /\ IF kind = "power" THEN PowerLoss ELSE UNCHANGED disk
    /\ past' = [past EXCEPT !.crashes = @ + 1,
                            !.powerLost = @ \/ kind = "power",
                            !.finalized = @ /\ kind # "power"]
    /\ UNCHANGED durable

\* A part file is what was interrupted.
Interrupted(track) ==
    IF disk[track].part THEN <<Step("examine", track)>> ELSE <<>>

\* recover_interrupted_recordings, inspect_recoverable_recording
Recover ==
    /\ control.pc = "down"
    /\ control' = [control EXCEPT !.pc = "recovering"]
    /\ work' = Interrupted(MicTrack) \o Interrupted(SystemTrack)
    /\ past' = [past EXCEPT !.ioFailed = FALSE]
    /\ UNCHANGED <<queue, writer, buffer, disk, durable>>

\* The run the directory belongs to is over: it is not recorded to again.
Recovered ==
    /\ control.pc = "recovering"
    /\ work = <<>>
    /\ control' = [control EXCEPT !.pc = "recovered"]
    /\ UNCHANGED <<queue, writer, buffer, work, disk, durable, past>>

-----------------------------------------------------------------------------
Application ==
    \/ Start \/ Started
    \/ \E track \in Tracks : TryAppend(track)
    \/ \E kind \in CallKinds : Ask(kind)
    \/ SendCall

WriterStep == WriteChunk \/ ReceiveCall \/ Respond

Next ==
    \/ Application \/ WriterStep \/ FileOperation
    \/ DirectoryReachesMedium
    \/ \E kind \in Crashes : Crash(kind)
    \/ Recover \/ Recovered

Spec == Init /\ [][Next]_vars

\* A call is sent when there is room (the capture is stopped before a call, so
\* the routers fall silent), the writer thread runs, file operations
\* come to an end.
FairSpec ==
    /\ Spec
    /\ WF_vars(SendCall)
    /\ WF_vars(WriterStep)
    /\ WF_vars(FileOperation)

-----------------------------------------------------------------------------
Chunks == 1..MaxChunks

ControlOK ==
    control \in [pc : {"idle", "opening", "live", "sending", "waiting", "down",
                       "recovering", "recovered"},
                 call : CallKinds \cup {"none"}]

QueueOK ==
    /\ queue \in Seq([kind : Tracks \cup CallKinds, chunk : 0..MaxChunks])
    /\ Len(queue) <= QueueCapacity

WriterOK ==
    writer \in [pc : {"none", "loop", "serving"}, call : CallKinds \cup {"none"},
                ok : BOOLEAN]

WorkOK ==
    work \in Seq([op : {"open", "flush", "sync", "examine", "copy", "syncCopy", "rename",
                        "remove"},
                  track : Tracks])

FileOK(file) == /\ file.data \in Seq(Chunks)
                /\ file.synced \in 0..Len(file.data)

DiskOK ==
    /\ DOMAIN disk = Tracks
    /\ \A t \in Tracks : /\ disk[t].wav \in {"none", "tmp", "wav"}
                         /\ FileOK(disk[t].pcm)
                         /\ FileOK(disk[t].out)
    /\ Names(disk) \in [Tracks -> [part : BOOLEAN, wav : {"none", "tmp", "wav"}]]
    /\ durable \in [Tracks -> [part : BOOLEAN, wav : {"none", "tmp", "wav"}]]

\* chunks, calls, crashes: counts.  ioFailed: an operation has failed since the
\* application was started.  finalized: the last call finalized the recording.
\* accepted: chunks accepted by this recording, after those of the one it resumed.
\* asked: accepted when the call was queued.  reported: asked of the last call
\* that succeeded.
PastOK ==
    /\ past.chunks \in 0..MaxChunks
    /\ past.calls \in 0..MaxCalls
    /\ past.crashes \in 0..MaxCrashes
    /\ {past.ioFailed, past.powerLost, past.finalized} \subseteq BOOLEAN
    /\ {past.accepted, past.asked, past.reported} \subseteq [Tracks -> Seq(Chunks)]

TypeOK ==
    /\ ControlOK /\ QueueOK /\ WriterOK /\ WorkOK /\ DiskOK /\ PastOK
    /\ buffer \in [Tracks -> Seq(Chunks)]

\* What the directory holds of a track under the given names.
Held(names, pcm, out) ==
    IF names.wav = "wav" THEN out ELSE IF names.part THEN pcm ELSE <<>>

\* All that was accepted before a checkpoint, a stop or a finalize that
\* succeeded is in the directory from then on, in order, and on the medium:
\* through failed operations, resumed recordings, crashes of the process, power
\* losses and recoveries.
ReportedIsKept ==
    \A t \in Tracks :
        LET file == disk[t]
            Safe(f) == SubSeq(f.data, 1, f.synced)
        IN /\ IsPrefix(past.reported[t], Held(file, file.pcm.data, file.out.data))
           /\ IsPrefix(past.reported[t], Held(durable[t], Safe(file.pcm), Safe(file.out)))

\* A recording that was finalized is two WAVs that hold all that was accepted,
\* in order, and no part file.
FinalizedIsComplete ==
    past.finalized =>
        \A t \in Tracks :
            /\ Published(t) /\ ~disk[t].part
            /\ disk[t].out.data = past.accepted[t]

\* A recovery in which no operation fails leaves no part file behind: each track
\* is a WAV ("finalize after a restart"), also when an earlier crash fell
\* between the rename and the removal, or into an earlier recovery.  After a
\* power loss it may refuse a track: the directory then keeps a WAV whose data
\* was lost with a part file that still has it.
RecoveryIsComplete ==
    control.pc = "recovered" /\ ~past.ioFailed /\ ~past.powerLost =>
        \A t \in Tracks : ~disk[t].part

\* A published WAV is never replaced or changed ("an old recording is never
\* overwritten accidentally"); only a power loss can undo its rename.
PublishedIsFinal ==
    [][\A t \in Tracks :
         Published(t) => \/ Published(t)' /\ disk'[t].out.data = disk[t].out.data
                         \/ past'.crashes # past.crashes]_vars

\* A call returns, also when the writer thread ends while it waits.
CallsReturn ==
    control.pc \in {"sending", "waiting"} ~> control.pc \notin {"sending", "waiting"}
=============================================================================
