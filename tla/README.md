# X-Translator-VRC: a TLA+ verification project

X-Translator-VRC turns live speech into translated text (and optionally
speech) for VRChat, meetings and captions. A desktop client (`rust-client`)
captures audio and streams it over a WebSocket to a local backend
(`apps/xrtranslate-backend`), which segments it, recognizes it, translates it
and sends events back. Around that core stand model download and
installation, self-update, meeting recording, OSC output and plugins.

These modules are translated from the Rust source. `PROJECT.json` names, for
every definition that stands for code, the lines it stands for, and, for every
property, a mutated form of the code under which that property fails.

## 1. Inventory

### The backend

| Part | State | Operations | What is hard | What makes it correct |
|---|---|---|---|---|
| Inference scheduler (`scheduler.rs`) | free slots, burst counter, two queues of oneshot senders, behind one mutex | `acquire`, drop of a permit (`release`), cancellation of either end of the wait | a future may be dropped before or after its permit was sent; priority must not starve offline work | permits conserved, no idle slot while somebody waits, bounded overtaking, every waiter served |
| Session loop (`serve_session`, `handle_*`) | pipeline generation, input state, job sender, TTS switch and epoch, pending speech, pending drain | frames of the client, results of the inference worker, results of the TTS worker, teardown | `select!` among three sources, awaited sends on bounded channels inside a handler, reconfiguration while results of the old configuration are in flight | results in stream order, a drain is a fence, a finish ends gracefully, nobody waits on each other |
| Inference worker (`run_inference_worker`, `process_*`) | current job, one pending translation task | receive, recognize, commit the pending translation, emit, spawn | recognition of one turn overlaps the translation of the one before | order of events; nothing of an old generation |
| TTS worker (`run_tts_worker`) | current job | receive, synthesize, send | back pressure in both directions | independence from the recognition path |
| Socket writer (`run_websocket_writer`) | message in hand | take, write, fail, close | generation changes while it writes | at most one message of a replaced generation |
| Session engine and adapter (`xrtranslate-engine`, `session.rs`) | route epoch, TTS epoch, bounded queues, translation context | submit, drain, reconfigure | events of an old epoch, full queues | never an event of an old route, context in order |
| Pipeline (`pipeline.rs`, VAD, denoise) | pending PCM, detector or fixed window, overlap, time line | `push_pcm`, `flush`, reconfiguration, density of earlier windows | onset, hard limits, speaker cuts and flushes; windows that grow and shrink | speech is heard, and once but for the declared overlap; exact times; bounded memory |
| Model runtime and supervisor | child processes, health | start, poll, stop | crash and restart of a child | no orphan; readiness after health |
| Prompt graphs, terminology, language routing, text processing | text | pure functions | - | reference results |

### The client and the tools

| Part | State | Operations | What is hard | What makes it correct |
|---|---|---|---|---|
| Network session (`network.rs`) | `paused`, `finish_sent`, cancel flags; command and PCM channels | pause, resume, finish, cancel, session loop, producer thread | flags set by one thread, commands applied by another | the flags agree with what the backend was told |
| Model packages (`xrtranslate-assets`, `model_install.rs`) | staging and package directories, lock file, background task | install, remove, clear staging, prune, task manager | crash between two steps; a sweep without the lock; cancel against completion | what is installed appears whole; a retry succeeds; a switched source restarts the task |
| Download (`xrtranslate-download`) | final and `.part` file, attempt count | transfer, resume, verify, rename | truncated, wrong, resumed or oversized answers; kills | a finished file is verified; a good server suffices; nothing is fetched twice |
| Update manager and updater (`app_update.rs`, `xrtranslate-updater`) | state and channel, staging directory; application directory, backup | check, download, unpack, start; back up, replace, restore | results that outlive their channel; two threads on one directory; failure and crash in the middle | what is offered is of the channel; old or new version, no original lost |
| Meeting recording and store (`plugins/meeting`) | `.part` files, WAV, session status, command queue | append, checkpoint, finalize, recover | crash between rename and clean-up; torn write | no sample lost that a checkpoint reported; idempotent recovery |
| OSC chatbox, speaker identity, history, player, UI, configuration, corpus, remote | various | various | rate limits; merges | - |

### How the parts interact

Frames arrive at the session loop. Complete turns become *jobs* in a queue of
4; the worker's events come back through a queue of 32; translations that are
to be spoken become TTS jobs (queue of 4) whose results come back through
another queue of 4; everything for the client goes through the output queue of
64 to the writer. Both model calls of the worker first take a permit of a
process-wide scheduler. A `watch` channel holds the *pipeline generation*: the
session replaces it on each reconfiguration, the worker and writer compare
items with it. A pause or finish queues a *drain* job, a fence that comes back
as an event after everything queued before it.

All the behaviours that a test would hardly reach are listed with their lines
in `PROJECT.json` under `hazards`; those no property covers say why.

## 2. Modules

| Module | Models | Kind |
|---|---|---|
| `PermitPool` | what the scheduler promises its callers | abstract specification |
| `InferenceScheduler` | `PriorityLimiter` of `scheduler.rs` | component, proved |
| `InferenceScheduler_proofs` | | theorems |
| `MCInferenceScheduler` | | instance for TLC |
| `SessionChannels` | tasks and channels of a session, shape of their messages | shared state |
| `ServeSession` | `serve_session`, `handle_socket_message`, `handle_text_control`, `queue_pipeline_drain`, `handle_inference_event`, teardown | component |
| `InferenceWorker` | `run_inference_worker`, `process_job`, translation task | component |
| `TtsWorker` | `run_tts_worker` | component |
| `SocketWriter` | `run_websocket_writer` | component |
| `BackendSession` | the four tasks together, and their properties | composition, proved in part |
| `BackendSession_proofs` | | theorems |
| `MCBackendSession` | sets of frames for each question | instances for TLC |
| `ClientSession` | `SessionHandle`, `run_session` and its producer thread (`network.rs`) | component, proved in part |
| `ClientSession_proofs` | | theorems |
| `MCClientSession` | sets of calls for each question | instances for TLC |
| `MeetingRecording` | `recording.rs`: writer thread, finalization, recovery; crashes | component, proved in part |
| `MeetingRecording_proofs` | | theorems |
| `MCMeetingRecording` | | instance for TLC |
| `ArtifactFile` | the states of a file that is to be downloaded, and its steps | shared definitions |
| `Artifact` | what a download promises about its file | abstract specification |
| `Download` | `download_to` of `xrtranslate-download` with its attempts and files; kills | component, proved in part |
| `Download_proofs` | | theorems |
| `MCDownload` | | instance for TLC |
| `PackageInstall` | `install.rs`: lock, staging, activation, removal, sweeps; kills | component |
| `ModelTasks` | task managers of clients (`model_install.rs`) and installers on the same packages | composition, proved in part |
| `ModelTasks_proofs` | | theorems |
| `MCModelTasks` | two packages, one name a prefix of the other | instance for TLC |
| `UpdateApply` | the updater process: backup, replacement, restoration | component |
| `AppUpdate` | the update manager (`app_update.rs`), its threads, staging, and the updater | composition, proved in part |
| `AppUpdate_proofs` | | theorems |
| `MCAppUpdate` | | instance for TLC |
| `Endpoint` | `EndpointDetector` of `xrtranslate-vad` | operators on records |
| `FixedWindow` | `FixedWindow` of `pipeline.rs` | operators on records |
| `Pipeline` | `NativePipeline`: chunks, frames, either segmentation, time line | component, proved in part |
| `Pipeline_proofs` | | theorems |
| `MCPipeline` | | instance for TLC |

A module defines, just before some of its actions, a *mutant* of it: an
operator, marked so in its comment, that is used by nothing in the project. It
is the action as a plausible bug would have it and is there to show that a
property can fail.

### InferenceScheduler

A request is one call of `acquire`. `status` is what has become of its future:
`idle`, `waiting` on its receiver, `sent` (the value is in the channel, the
future not polled yet), `holding` an `InferencePermit`, or `dropped` (the
future is gone, its sender still queued). The mutex is `lock`. `release` loops:
each turn is an action, because the receivers it sends to are not protected by
the mutex, so that a cancellation may fall between two turns. `realtime_burst`
is only reset and compared with the limit, so it is kept up to that value. Two
history variables carry what properties speak of: permits `lost`, and how often
a queue's head was `overtaken`.

### BackendSession

A handler of the session loop decides what it does from the state at its start
and then awaits its sends one after the other. `session.todo` holds the sends
that remain; the loop does not turn before it is empty; between two of them all
other tasks may run. This is what makes back pressure visible. `worker.todo` is
the same for the worker. State private to a task is set at the start of a
handler, state another task reads (`generation`, the sender of the job channel)
when the code sets it.

What is abstracted:

* An item of a channel is a record of a kind, the job it stems from, its
  generation, a segment number and a drain reason; and, as history, the generation
  that job was queued in (`made`), which a confirmed fence does not bear. Text, audio and metadata are
  not there.
* `PipelineGeneration` is a pair of counters that advance together when the
  session is reconfigured; one number stands for it.
* Model calls, the corpus service and silence detection are their outcomes,
  chosen freely. TTS audio of a job is one message.
* `push_pcm` is what it completes: a turn, or a turn that ends its stream. A
  frame whose speaker cuts complete more turns is as many frames.
* Frames that change nothing here (Ping, VAD notifications, prompt graphs, voice
  clone capture) are left out; whether a cloned voice is ready is a
  nondeterministic value, `VoiceReady`.
* An aborted worker's detached translation task is not followed: its events go
  to a channel nobody has.
* A panic of a task is not modelled.

### ClientSession

A call of the application on `SessionHandle` touches several shared things one
after the other: it tests and sets `stop_requested`, sets `cancel_requested`,
stores `paused`, queues a command. `caller` is what the call in progress has yet
to do, and each access is a step of its own, so that the loop, the producer and
the ticker may run between any two. `try_send` may find the queue full: the
command is lost, and only a pause takes its flag back. `text` stands for
`translate_text`, `update` for every command that changes the configuration.

The loop takes a branch of its `select!` per action. The branch for a resume is
two actions (`HandleCommand`, `ClearPaused`), because the flag is cleared after
an awaited write. A write that fails leaves `wire` as it was and ends the
session. `wire` is everything written to the WebSocket; `BackendInput` folds it
into the input state `serve_session` has when it has read that far, which is how
the properties relate the client to the backend. `ReadFinished` relies on what
run `confirm` shows of the backend: the end is confirmed.

The kind of input is chosen at the start (`FinishAtEnd`), and the calls the
application may make depend on it. `past` is history. `crossed` marks an exception `AudioIsHeard` and
`AgreeWhenSettled` make: a pause asked for while the session is paused, or
before an earlier resume is through. The resume then clears the flag the pause
has just set (network.rs 579-582) and the two sides disagree until the next
command. The buttons of the application do not offer such a pause, the handle
allows it.

Left out: events passed to the application, the content of configuration
messages, encoding of audio. A finite input (`FinishAtEnd`) has no player
suppression and no gate (plugins/player/mod.rs 160-178, plugins/meeting/mod.rs
186-208), so none of its frames is suppressed, and no Pause button.

### MeetingRecording

A chunk of audio is its number; files are sequences of numbers, so that loss,
repetition and reordering all show. `buffer` is what `BufWriter` holds. The
operations on files that a start, a call or a recovery still has to make are
listed in `work` and made one by one: each may fail (`OperationFails`, which
also stands for the refusals by size, parity and format), and a crash may fall
between any two. Recovery and the writer thread share `finalize_part`, hence the
actions `ExaminePart` to `RemovePart`. The closed channel of `writer_loop`
(line 434) cannot be seen: the owner keeps a sender until the thread has ended.

The file system is external, with these assumptions. A crash of the process
keeps all that was written. A power loss keeps of each file what was synced and
any part of the rest, and the directory as it was at some moment since the last
sync: directory operations reach the medium in order, and a sync of a file
takes the earlier ones with it, as journaling file systems do. Lengths are in
whole samples: `BufWriter` never hands over half a sample.

The application gives each run of a meeting a directory of its own
(controller.rs 583-585), so that a directory is resumed only by the process that
created it, after a start that failed; after a crash it is only recovered.
Routers are joined before a stop or a finalize (main.rs 1853-1856, 2497-2499):
chunks arrive during a checkpoint only.

### Download

A chunk of the artifact is its number, and 0 is a chunk with wrong bytes, so
that a file that resumes one from another source shows. `call[w].pc` follows
`download` and `transfer_once`: look at the final file, begin an attempt, send the
request, take the answer (a right or a wrong range, the whole file, 416, an
error that is worth a retry or not), append chunk by chunk, verify, rename. The
answer, a broken connection, a cancellation and a kill may come at each of
them. The `.part` file begins in any state an earlier release or crash can have
left. A handle follows its file through a rename, as file descriptors do, so that
two workers on one `.part` are faithful; the run has one worker, since packages
are locked, and `AppUpdate` treats two update threads as what they are, unsafe.
`Artifact` is what others may assume of a download: a file gets its name when it
is whole and keeps it. `PackageInstall` uses the same `FileStep`.

### PackageInstall and ModelTasks

A package is a directory of files in staging, each absent, partial, damaged or
whole, and a set of verified files at the destination. `proc[p].pc` walks
through `ModelInstaller::install` (examine the destination, lock, prune other
revisions, prepare staging, fetch each file, activate by rename, unlock), through
`remove_model_asset` (file by file) and `clear_model_staging`. A sweep
removes the files of a directory one by one, and then the directory. The lock is
an OS lock on Windows and a `create_new` file elsewhere: after a kill `LockLeft`
says which. `ModelTasks` has the manager's `Installing` state, its
`restart_after_cancel` and rediscovery flags, the worker thread and the poll of
the UI thread, and a second process that installs by the command line.

The files the user puts into a package directory are `foreign`. The selection of
a download source is not there: a switch matters by the cancellation and the
restart it brings.

### UpdateApply and AppUpdate

The content of a file is the release it comes from. What the updater replaces is of
three kinds. A file at the top, or under `models/`, which is merged, is replaced by
itself (`FileEntry`). Any other directory of the release (`bin/`, `corpora/`,
`licenses/`, `resources/`: the sets of `Folders`) is moved to the backup as a whole,
local files included, and only the files of the release are written anew
(`FolderEntry`); of `resources/` alone the local libraries come back. Client binaries
with old names are moved and nothing replaces them. The updater's steps are its
renames and copies: `MoveToBackup` of an entry or of old client binaries, copies
of the new files one by one, libraries of the installation copied back, the
restoration in case of a failure and the removal of the backup. Each may fail and a
kill may fall between any two. A backup is named by the process id and looked
at by its process only, so an updater starts with an empty one, and what a killed
one left is remembered as history (`kept.orphans`); process ids are taken to
differ, for an updater that gets the id of a killed one removes that backup (main.rs
89-91). `AppUpdate` adds the manager
with its event receiver, the check and download threads, which nothing cancels,
the staging directory of each release, which all threads share, and the turn from
the client to the updater. `updater.source` is a copy of staging at the start:
no thread is alive then, the client has exited.

### Endpoint, FixedWindow and Pipeline

A frame is known by the time it starts at, in half frames since the last reset,
so that an utterance is a sequence of times and loss, repetition and misplacement
show. `Endpoint` and `FixedWindow` are functions from a record to what it becomes
and the events it completes, one per method; `Pipeline` has an action per method
of `NativePipeline`. Chunks are of half a frame or of one, which reaches every
remainder `pending_pcm` can have up to its exact size. Whether a frame is speech,
whether the speaker changed and how dense the text of an earlier window was are
chosen freely. `past` is history: `owed` are the frames of speech that the client
has yet to hear, which are those of a run long enough to count as one.

The denoiser is not modelled: with it the two buffers of a session would not be
of one length (`pending_denoised_pcm`). It is on by default, so that exactness of
`TimelineIsExact` is about what the VAD sees.

## 3. Runs

| Run | Question | Result |
|---|---|---|
| `scheduler` | conservation of permits, no idle slot, bounded overtaking; every waiter is served; implements `PermitPool` | hold |
| `leak` | scheduler: configured capacity is kept for ever | violated, see 6 |
| `speech` | session, every kind of frame, with speech: stream order, complete and last fences, at most one late message, quiescent end | hold |
| `confirm` | session: a finish ends gracefully, finish and pause are confirmed, the session ends | hold |
| `finish` | session with speech: a finish ends gracefully | violated, see 6 |
| `speechblock` | session and TTS worker never wait on each other | violated, see 6 |
| `client` | client with a live or a finite input: audio is heard, flags agree with the backend, one announced end, complete imports; finish, cancel and producer end | hold |
| `recording` | recording with failures, crashes and power losses: reported audio is kept, finalized and recovered recordings are complete, WAVs are final, calls return | hold |
| `download` | an artifact fetched from any state of its directory, with broken connections, wrong answers, cancellations and kills: verified, repaired, resumed, bounded; implements `Artifact` | hold |
| `packages` | two processes on two packages: atomic activation, retries succeed, a switch of the source restarts the task | hold |
| `update` | checks and downloads that outlive their channel, two threads on the staging directories, an updater failing or killed anywhere, files of every kind: offers are of the channel, an update is whole or undone, only one that ended destroys an original | hold |
| `segmentation` | every sequence of speech, silence, cuts, flushes and reconfigurations: speech is heard, once, where it was said; memory is bounded | hold |

Several properties except a case in which they would be false; the comment at
each says which, and section 6 lists them.

### Bounds

* Scheduler: four requests, two slots. The overtaking bound and the fast path
  need a full pool, both queues non-empty and a burst at its limit; four
  requests, and `BurstLimit = 2` for 8 of the code, reach all of it. The
  theorems below remove the bounds.
* Session: `MaxFrames` bounds what the client sends. Three frames are the
  smallest number at which two overlapping turns meet a fence or a
  reconfiguration. `MaxSegments` bounds the translations of a turn. Capacities
  of 1 make every channel full as soon as it holds something: the most back
  pressure there is. `confirm` has a result queue of 16, which two frames do not
  fill. It says that a finish is confirmed as long as the job and result queues
  do not block each other: with the code's own capacities, a session whose worker
  produces more results than the result queue holds while its loop awaits room in
  the job queue can stop (a hazard, main.rs 1726).
* `speech` has every kind of frame with capacities of one, three frames and one
  segment per turn; the fence needs two turns before it, or a reconfiguration
  and one.
* Client: queues of 1, so that commands get lost and the producer blocks; three
  calls are a pause, a resume and something that crosses them; two frames are
  one on its way while another is captured.
* Recording: a queue of 2; four calls are a start that is stopped, resumed and
  finalized, two chunks are one on each track or two on one, and two crashes are
  one in the recording and one in its recovery.
* Download: an artifact of two chunks is the least that can be half there and half
  wrong; three attempts are a resumption, a repair and a success; three calls and
  two kills are a repetition of what either left behind.
* Packages: two files, so that a package can be half; two processes, one of them a
  client; two operations, of which one is crossed by the other, by a switch or by
  a kill. Names `hy-mt2` and `hy-mt2-big` are as in the catalogue.
* Update: two threads, one release, two switches of the channel or exits, and one
  updater that fails or is killed. The installation has a file of each kind the updater
  replaces: the client, a file of a directory and one the user put there (`bin/`), a
  resource, a local library, an old client. Files no step touches are left out.
* Segmentation: constants are small but keep the relations of the code's (first
  window and hop equal, window 1.5 hops, expanded window 2 hops, at least as much
  pre-roll as an opening). Ten frames with an endpoint are two utterances at the
  limit, twenty in continuous recognition are two windows of either size and the
  quiet that ends a stream. Two windows may wait for their text, as many as make a
  window grow or shrink.
* `CHECK_DEADLOCK FALSE` is stated where the system may stop: all slots of the
  scheduler may be lost, a closed session stops (and the cyclic waits of section
  6 are real), a client session ends, a recording is over, the calls, starts or
  releases of a run are used up, the audio of a segmentation is.

### Fairness

* Scheduler: a woken future is polled, and `release` runs to its end (weak
  fairness); an admitted call ends and drops its permit. The drop needs the
  mutex, which others take again and again, so strong fairness: a `std` mutex
  admits a thread that keeps trying. Nobody is obliged to make a request or
  to cancel one.
* Session: each task is scheduled when it can run (weak fairness of each
  task's steps; tokio polls ready tasks), model calls end, and the socket takes
  or refuses what is written. The client is not obliged to send anything.
* Client: a call runs to its end, the connection is made or refused, the
  producer and the loop are scheduled, and each ready branch of `select!` gets
  its turn (weak fairness per branch: tokio starts at a random one). Neither the
  application, nor the input, nor the backend is obliged to anything.
* Recording: a call is sent when there is room, the writer thread runs, a file
  operation ends or fails.
* Download: a request or a read ends or times out, a worker is scheduled.
* Packages: an operation runs on, a download in it ends (what run `download`
  shows), the UI thread polls. Nobody is obliged to begin anything.
* Speech, update and segmentation: safety only, no fairness.

## 4. What is proved

`InferenceScheduler_proofs` holds for every finite set of requests, every
positive number of slots and every positive burst limit (the three assumptions
of `InferenceScheduler`; the code asserts `slots > 0`).

* `Invariance`: the inductive invariant
  `IInv = TypeInv /\ SlotsConserved /\ NoIdleSlotWhileQueued /\
  QueuesHoldWaiters /\ BurstAccounts`. The queue invariant is what makes
  conservation inductive: a permit taken from the hand of `release` is given to
  a request that is not counted yet. `BurstAccounts` strengthens
  `BoundedOvertaking`, which is not inductive by itself: how often the offline
  head was passed is bounded by the burst counter, and the counter by the
  limit, and the realtime head is passed only by resetting the counter.
* `TypeCorrect`, `SlotsAreConserved`, `NoSlotIdles`, `QueuesAreExact`,
  `OvertakingIsBounded`: the safety properties of run `scheduler`, and that the
  two queues hold each unanswered request exactly once.
* `LimiterIsAPool`: the limiter implements `PermitPool`: every step is a step
  of the pool or leaves it unchanged.

`ClientSession_proofs` holds for every capacity, every set of calls and any
number of calls and frames (`CapacityAssumption`).

* `TypeCorrect`: the type invariant, queue bounds included.
* `EndAnnouncedOnce`: the end of the input is written at most once, and no
  audio after it. `EndInv` is the inductive invariant: the end has been written
  exactly if the loop's `finish_sent` is set, which every branch that writes
  audio or an end tests first.
* `AudioReachesTheBackend` and `FlagAgrees`: without a pause that crosses a resume no
  audio is written to a backend that would discard it, and once the commands have
  arrived flag and backend agree. `PauseInv` orders the flag and the commands: when the
  flag is down, no pause is on its way (`FlagLeads`), nor between the message of a
  resume and the end of its hold (`ResumeLeads`); the resumes in the queue come after
  the pauses (`PausesFirst`, `AskingAlone`); a flag that is up stems from a pause on
  its way or from a stop (`FlagFollows`). The
  state of the backend's input is a recursive function of the wire; lemma
  `InputAfter` gives it in closed form (the last message that changes it), by the
  least index at which the two would differ.
* `ImportHeardWhole`: an import that is let be is written frame by frame, in order,
  before its end is announced. `ImportInv` chains the frames that are under way: what
  is on the wire ends where the queue begins, that ends where the producer's hand
  begins, and that where the input goes on.

`Pipeline_proofs`, for every choice of the constants that `EndpointAssumption` and
`WindowAssumption` allow, and however long the session is: `MemoryStaysBounded`, the
property of run `segmentation`. The inductive invariant `IInv` is `DetectorInv` and
`WindowInv`. The bound of an utterance is not inductive as it stands, since silence
counts beyond the limit: an utterance has fewer than `MaxActiveFrames` frames beside
the silence it ends in, and that silence is shorter than the configured one. This
needs lemma `SilenceForBound`, that the adaptive silence is never longer than the
configured one. A window keeps less than its own length since `Emit` takes windows
until that is so, and a window that shrinks is cut.

The other three properties of the run follow from one more invariant, `TimeInv`
(`TimeIsKept`), which says where everything is in time:

* `Timing`: what was received is what was processed and what is pending, and nothing
  was told that is not processed.
* `Spans` and `WSpans`: what is held goes up to the last frame that was processed,
  and exactly its first `overlap` frames were told before (`Telling`); before an
  utterance, none of it was told (`Waiting`), or all of it (`Rested`, after a split).
  This gives `NothingIsHeardTwice` (`HeardOnce`), since what an event repeats is
  counted in what was told, and, as the last frame and the length of a stretch
  determine where it starts, `TheTimeLineIsExact` (`TimelineIsExact`).
* `Hears` and `WHears`: the frames of the current run of speech were told or are held,
  and a run that is not yet long enough to be owed is at the end of the opening, or of
  the pre-roll, where the utterance that may start will find it. This gives
  `AllSpeechIsHeard` (`SpeechIsHeard`), which assumes `MaxOverlapFrames > 0`, see
  section 6.

Each operation of the detector and the window has a lemma on records (`...Tells`) that
says what it does to the two predicates; the steps of the pipeline (`...Keeps`) chain
them, twice when a change of speaker or a padded frame precedes a flush. A limit inside
a run, a flush with half a frame left and a window that shrinks are where the work is:
`AfterSplitTells`, `PaddedEnds`, `ShrunkTells`. What the opening counts and what an
event repeats are cardinalities of sets of places, so that `FS_Interval` and
`FS_Subset` apply.

`Download_proofs`, for every length, every number of attempts, calls and kills, and
whatever the server sends, with one worker on the file (the assumption of the
theorem, which the lock of a package justifies): `SuccessIsVerified`, that a
download that reports success leaves the verified artifact. The invariant `CallInv`
says what the place of a call tells of the files: the part file is open while a body
is read and then exists, it is verified before the rename, and the final file is
verified when the call has ended well. The handle is why one worker is assumed:
another one's rename would carry an open file to the final name. The other three
theorems have the same assumption.

* `ResumingFetchesOnce` and `GoodServerIsEnough`, from `DiskInv`: as long as every
  answer was right, a part file is a prefix of the artifact and what was fetched is
  what it holds, up to a chunk per kill (`Clean`). For the second, `Promising` says
  that an undisturbed call is in its first attempt, or in its second with a part file
  of which it received every chunk itself, since the attempt that finds a leftover
  wrong removes it. So the theorem assumes `MaxAttempts >= 2`; the code allows four.
* `Implementation`: with the state mapped by `Seen`, every step is a step of
  `Artifact` or leaves it unchanged; the rename is the one step that publishes.

`BackendSession_proofs`, for all capacities and any number of frames and segments:

* `LateMessagesAreFew`: at most one message of a replaced generation is written. The
  writer drops an item of another generation when it takes it, so the invariant
  `LateInv` is that the item in its hand was current when it was taken: it is of
  the current generation, or of one that has no late message yet.
* `StreamIsInOrder`: what reaches the client is in the order of the turns. The
  invariant `OrderInv` looks at the five places an event passes, the output queue
  backwards to the events of the running translation, as one sequence. It says that
  this sequence is in order end to end, that the jobs to come (queued, still to be
  sent or not yet made) are numbered beyond everything in it, that the worker reports
  a job only when the translation before it is committed, and that a running
  translation has made its segments up to the next one. Moving an event from one
  place to the next keeps the order (lemma `Moved`), as does adding one that comes
  after all there is (`Extended`); each step is one of these or does not touch the
  sequence.
* `FencesAreLast`: nothing of a job queued before a fence is told after it. `LineInv`
  is `OrderInv` with three more. `KindInv` says where a fence cannot be (in the
  translation, in speech). `CountInv` is the count that the loop keeps of pending
  speech: it is at least what is in the TTS queues and in hand, so that zero means
  that there is none. `FenceInv` says of a fence at each place (the worker, the
  results, `pending_drain`, to be sent, told) that nothing of an earlier job is
  behind it.
* `GracefulEnd`: when the loop ends by its own fence the queues and the workers hold
  nothing. `EndInv`, on top of `LineInv`: a terminal fence is the last of the jobs,
  of the events and of the results, since the producer of jobs is closed with it.
* `FencesAreComplete`: every segment of a recognized turn has its translation or its
  error before a fence of its generation, if the fence is confirmed in the
  generation it was queued in (`made`; section 6 has the other case). `CompleteInv`
  says where a segment can be: of a turn of the current generation each one is told,
  made, or still in the work of the worker; at a fence the last is excluded by
  `FenceInv`, and what is made is told by then. Of a generation that was replaced
  nothing is claimed but what was told before.

`ModelTasks_proofs`, for any processes, packages, files, operations and kills:
`LockExcludes`, that no two operations hold the lock of one package, and
`ActivationIsAtomic`, that a package which was not swept without its lock appears
whole. The invariant `IInv` says that an operation at a place where the code holds the
lock does hold it, and that what an installation has verified is still in staging,
for its own package is touched under the lock only, except by a sweep.
`RetriesAreSafe`, that an installation which nobody crosses succeeds whatever was
left in staging: `RetryInv` adds that a lock that names a process is held by its
operation (`LocksAreHeld`; stale ones are excluded by the property's hypothesis),
that a staging directory that is swept is there (`StagingInv`), and what such an
installation finds at each place of its code (`OnItsWay`): the lock, the files before
the one it fetches, at the rename all of them and no destination.

`AppUpdate_proofs`, for any releases, files and threads and any number of switches:
`OffersFollowChannel`. The event receiver is what makes it so: `HearsOfChannel` says
that the manager hears only of a check or a thread that was begun for the channel
selected now; what a switch left behind has lost its receiver.

* `OriginalsAreKept`, for any number of updaters that fail or are killed anywhere.
  `ApplyInv` says that what an updater took is in its backup (`OldInv`), that what
  it has not come to is as it was (`PlanInv`), and that a local file is in the
  installation or in a backup that was left (`LocalInv`).
* `UpdatesAreWhole`: an update that ended installed the whole release, one that was
  put back left every file that was there. Success destroys what is local in a directory of
  the release, but for libraries (`Removed`), and the theorem says of all else that it is
  kept. `StagingInv` says that what the manager takes for prepared
  is whole unless two threads were on one release at a time, and `WholeInv` that the
  updater reads it whole and has installed it at its end. It needs that the absence
  of a file is no file of a release (`ReleaseAssumption`).

`MeetingRecording_proofs`, for every capacity of the queue and any chunks, calls,
failed operations, crashes and power losses: `ReportedAudioIsKept`,
`FinalizedAudioIsComplete`, `RecoveryLeavesNoPart` and `WavsAreFinal`. The steps are
first restated as the invariant sees them (the predicates `Did...`, and `StepHappens`,
which says that every step is one of them); then each part of the invariant has one
lemma, `...Stays`. The parts of `IInv`:

* `Typed` and `Protocol`: the shapes, and which places of the control thread and the
  writer go together; at most one call is under way, queued once or being served.
* `Planned` and `Filed`: the file operations still to be made follow the order of the
  code, and what remains for a track says in what state its files are. Without this a
  rename could not be known to follow the sync of what it publishes.
* `Chain`: what was accepted of a track is its part file, then its buffer, then the
  queue, in order and nothing else, while the writer runs. `Asked`: what a call will
  report is ahead of it in the queue, so that it is written when the call is served.
* `KeptAudio`: what was reported is within what is synced, under the names of the
  directory and under those on the medium. This is what survives a power loss, which
  brings back older names: a WAV on the medium was renamed from a synced copy, and a
  part file is removed only when the WAV that replaces it is published.
* `Finalized` and `Recoverable`: the other two properties, with what they need while
  the operations of a finalize or a recovery are still ahead.

Every safety property of a passing run is proved. Only model-checked: liveness, which
is out of the prover's reach (`QueuedIsServed`, the properties of run `confirm`,
`FinishIsAnnounced`, `CancelEnds` and `ProducerEnds` of a client, `CallsReturn` of a
recording, `CallReturns` of a download, `SwitchRestarts` of the packages). The
runs that expect a violation have nothing to prove. Nothing here needs an induction
theorem with a predicate for a parameter: where a sequence or a recursive function
over the naturals calls for induction, the proofs take the least index that fails
(the least element of a set of naturals, by `WFMin`).

## 5. What is not modelled, and why

* Text processing, prompt rendering, denoising, clustering, language detection
  and configuration are sequential functions on data that unit tests serve well.
* UI, player, device audio and the HTTP and ONNX clients are input and output;
  where a model needs them, their outcomes are free choices.
* The session engine's epochs and side queues would matter if something stayed in
  them across a reconfiguration; `session.rs` drains them in the handler that
  filled them. A model would have to show this; it is in the plan.
* The supervisor and the backend process of the client are mostly the state of the
  operating system.
* The meeting store and its events, the player's imports over several sessions and
  the OSC chatbox are the stateful parts that remain, and the plan.
* Within modelled parts: a thread that cannot be spawned, a panic of a task, the
  denoiser (section 2), a client started by hand while the updater works.

The component list of `PROJECT.json` says of each part whether it is modelled,
and why not.

## 6. Disagreements between the code and what it says

Each of these is a run that TLC must find violated, and an entry of `findings`.

* `leak`: a future dropped after its permit was sent and before it was polled
  takes the slot with it: the receiver is dropped with the value, no
  `InferencePermit` exists, and `release` is not called. The capacity of the
  process shrinks for good.
* `finish`: with speech pending, a terminal fence waits in `pending_drain`.
  The job channel is closed meanwhile, the worker ends, and the branch of the
  closed result channel leaves the loop without the graceful flag: queued
  speech and the confirmation are thrown away.
* `speechblock`: the session awaits room in the TTS job queue while the TTS
  worker awaits room in the TTS result queue, which only the session empties.

These were met while modelling; properties except them, or the models show them,
and no run is spent on them:

* Client: finish and cancel share `stop_requested` (network.rs 223, 245), so a
  cancel, and a `stop`, after a finish returns without effect and the session goes
  on draining, although the doc of `stop` (210) says it cancels at once. A pause
  that crosses an earlier resume (section 2) leaves the flag cleared and the
  backend paused.
* Recording: recovery copies a part file that was never synced. When power is lost
  after the WAV's name and before the part's data reached the medium, the part
  comes back shorter than the WAV, and every later recovery refuses it. No audio
  is lost, but the part stays, and the other track is not published when it was
  the microphone's. A second recovery is therefore not always as good as the first.
* Packages: old revisions are swept by the prefix of their name (install.rs
  458-475), so that installing `hy-mt2` sweeps the staging of `hy-mt2-big` without
  its lock. When a second process is about to activate that one, what it activates
  lacks files. After a crash outside Windows the lock file stays and refuses every
  installation; a removal that stops halfway leaves a destination that
  installation refuses and only another removal clears.
* Update: a local file in a directory of the release, other than `models/` and
  `runtime/`, is moved to the backup with the directory and lost when the update
  succeeds; only dynamic libraries under `resources/bin` are copied back (updater
  main.rs 132-137, 148-206). A backup is named by its process and never looked at by
  another, so that after a kill the old files are there and nothing restores them. A
  failed update restores what it replaced and leaves what the release added. A
  download that a channel switch left behind and a new one for the same release work
  on the same directory (app_update.rs 553-556) and may stage a mixture, which the
  manager takes for prepared. When the start of the updater fails, the manager stays
  in `Installing` (178).
* Segmentation: `EndpointConfig::validate` accepts an overlap of no frames (vad
  lib.rs 388); then a run of speech that goes on for less than `MinSpeechFrames`
  after a hard limit is taken for a burst and not heard. The shipped overlap is 8
  frames (351). `active_frame_count` "never exceeds" `max_active_frames` (552,
  318-322) and does, as the limit is looked at on frames of speech only (599): with
  a silence of 4 frames, the adaptive one, it reaches 252 of 250. `MemoryIsBounded`
  states the bound that holds. A full opening window drops its oldest frame when
  that is speech, which leaves a hole in what the utterance claims as a stretch. A
  flush whose padded frame completes an utterance at the limit leaves its overlap in
  the detector for the next turn. In continuous recognition a flush keeps
  `pending_pcm`, and a window that shrinks while its overlap is narrow is cut where
  nobody has heard it (pipeline.rs 350-355), unless there is activity again. The
  density of a window is observed without a look at its generation (main.rs 908).
  With the denoiser, which answers a few hundred samples late, an empty answer is
  replaced by the raw chunk beside the answer to come (pipeline.rs 606-610), and the
  end of a stream takes one frame of what is left.
* Session: a pause fence that the client's reconfiguration overtakes is dropped when it
  is still in the job queue (main.rs 2177). When it is past the worker it is confirmed,
  stamped with the new generation (975-981), while results before it are dropped with the
  old one, although the protocol says that the confirmation means that they are on the
  output queue (lib.rs 267-268): a pause that flushes a turn and a reconfiguration while
  it is translated are enough. `PauseIsConfirmed` and `FenceIsComplete` except both. The
  loop and the inference worker can wait on each other as the loop and the TTS worker
  (1726), and a second fence overwrites the first one's reason while speech is pending
  (992).

## 7. Plan

1. An abstract specification of the drain fence against its confirmation,
   implemented by `BackendSession`, which also covers a second fence.
2. `MeetingCapture`: the life cycle of a meeting (store transitions, the event
   queue and its worker, the sessions that feed it, imports), where a finish, a
   cancel, a failure and the events of an earlier session meet.
3. `SessionEngine`: epochs, bounded queues, context; then its use by the session.
4. Translation tasks (two segments at once, each with a permit) composed with
   `InferenceScheduler`, to see a lost permit in its context.
5. The denoiser in `Pipeline` as a delay between the two buffers.
6. Smaller ones: supervisor, OSC rate limit, speaker stability.
