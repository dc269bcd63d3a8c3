--------------------------- MODULE SessionChannels ---------------------------
(***************************************************************************)
(* The tasks of one WebSocket session of apps/xrtranslate-backend/src/     *)
(* main.rs and the channels between them, declared once for the modules of *)
(* the tasks:                                                              *)
(*                                                                         *)
(*   socket ---> ServeSession ---jobs---> InferenceWorker                  *)
(*                 |   ^  ^                  |     (and its translation    *)
(*                 |   |  +-----results------+      task, `batch`)         *)
(*                 |   |                                                   *)
(*                 |   +---ttsResults--- TtsWorker <---ttsJobs--- ServeSession *)
(*                 +---outbound---> SocketWriter ---> socket               *)
(*                                                                         *)
(* Every channel is a bounded tokio mpsc queue: a sender awaits room.      *)
(* `generation` is the value of the watch channel the session replaces     *)
(* when the client reconfigures it.                                        *)
(***************************************************************************)
EXTENDS Naturals, Sequences, FiniteSets

CONSTANTS
    JobCapacity,       \* INFERENCE_QUEUE_CAPACITY (4)
    ResultCapacity,    \* INFERENCE_RESULT_CAPACITY (32)
    OutboundCapacity,  \* OUTBOUND_MESSAGE_CAPACITY (64)
    TtsCapacity,       \* TTS_QUEUE_CAPACITY (4), of both TTS channels
    MaxFrames,         \* bound: frames the client sends in a behaviour
    MaxSegments        \* bound: translation segments of one recognized job

ASSUME CapacityAssumption ==
    /\ JobCapacity \in Nat \ {0}
    /\ ResultCapacity \in Nat \ {0}
    /\ OutboundCapacity \in Nat \ {0}
    /\ TtsCapacity \in Nat \ {0}
    /\ MaxFrames \in Nat
    /\ MaxSegments \in Nat

VARIABLES
    generation,   \* PipelineGeneration in the watch channel
    session,      \* the loop of serve_session
    worker,       \* run_inference_worker
    batch,        \* the spawned translation task and what it has produced
    tts,          \* run_tts_worker
    writer,       \* run_websocket_writer
    jobs,         \* channels: session to worker,
    results,      \*   worker to session,
    ttsJobs,      \*   session to TTS worker,
    ttsResults,   \*   TTS worker to session,
    outbound,     \*   session to socket writer
    out,          \* history: everything ever put on the outbound queue
    late          \* history: the generation of each message that was no
                  \* longer current when its write to the socket ended

vars == <<generation, session, worker, batch, tts, writer,
          jobs, results, ttsJobs, ttsResults, outbound, out, late>>

\* The audio epoch advances on every reconfiguration, so it alone tells two
\* generations apart.  Messages that are not scoped to one carry NoGeneration.
NoGeneration == 0
FirstGeneration == 1

Reasons == {"paused", "terminal"}   \* Finished, InputEnded and Stopped alike

JobKinds == {"utterance", "text", "streamEnded", "drain"}

EventKinds == {"window", "recognized", "translation", "failed",
               "streamEnded", "drained", "error"}

OutputKinds == {"recognized", "translation", "audio", "ttsError",
                "streamEnded", "drained", "error"}

\* One shape for jobs, events and output: `job` is the number of the job the
\* item stems from (jobs are numbered in the order they are sent), `seg` a
\* segment or, on "recognized", their number, `reason` that of a drain and ""
\* elsewhere, `epoch` the TtsEpoch of audio and 0 elsewhere.  `made` is history:
\* the generation the job was queued in.  `gen` is the same one but on a fence
\* that is confirmed, which the loop stamps with its own.
Item(kind, job, gen, seg, reason) ==
    [kind |-> kind, job |-> job, gen |-> gen, made |-> gen, seg |-> seg,
     reason |-> reason, epoch |-> 0]

\* Every frame queues at most three jobs (two events of the segmenter, or a
\* flushed utterance and the fence).
JobNumbers == 0..(3 * MaxFrames)
Generations == NoGeneration..(FirstGeneration + MaxFrames)
Epochs == 0..MaxFrames

Items(kinds) ==
    [kind : kinds, job : JobNumbers, gen : Generations, made : Generations,
     seg : 0..MaxSegments, reason : Reasons \cup {""}, epoch : Epochs]

\* What a task holds when it holds nothing
Blank == Item("", 0, NoGeneration, 0, "")

Room(queue, capacity) == Len(queue) < capacity
=============================================================================
