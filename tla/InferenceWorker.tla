--------------------------- MODULE InferenceWorker ---------------------------
(***************************************************************************)
(* run_inference_worker: takes the jobs of a session in order, lets the    *)
(* recognition of one overlap with the translation of the one before it,   *)
(* and keeps the events it emits in the order of the jobs.                 *)
(*                                                                         *)
(* Model calls, the corpus service and the text they work on are reduced   *)
(* to their outcomes.  `worker.todo` holds the events of the current step  *)
(* that still await room in the result channel: no other step of the       *)
(* worker happens before they are sent.                                    *)
(***************************************************************************)
EXTENDS SessionChannels

\* start     the corpus session is being created
\* recv      awaits a job or the end of the pending translation
\* asr       runs recognition of an utterance
\* commit    awaits the pending translation before the job goes on
\* emit      reports the job after the earlier ones are reported
\* spawn     starts the translation task of the job
\* stopping  the job channel is closed: flush and end
\* gone      the task ended; its result sender and job receiver are dropped
WorkerStates == {"start", "recv", "asr", "commit", "emit", "spawn",
                 "stopping", "gone"}

\* The translation task: none, running, or done and not yet collected
BatchStates == {"none", "running", "done"}

WorkerTypeOK ==
    /\ worker.pc \in WorkerStates
    /\ worker.job \in Items(JobKinds \cup {""})
    /\ worker.todo \in Seq(Items(EventKinds))
    /\ worker.corpus \in BOOLEAN
    /\ batch.pc \in BatchStates
    /\ batch.job \in Items(JobKinds \cup {""})
    /\ batch.events \in Seq(Items(EventKinds))

NoBatch == [pc |-> "none", job |-> Blank, events |-> <<>>]

WorkerInit ==
    /\ worker = [pc |-> "start", job |-> Blank, todo |-> <<>>,
                 corpus |-> TRUE]
    /\ batch = NoBatch

\* The event of kind `kind` that stems from `job`.
Event(kind, job, seg) == Item(kind, job.job, job.gen, seg, job.reason)

Ready(pc) == worker.pc = pc /\ worker.todo = <<>>

\* Between two jobs the worker holds none.
Goto(pc, events) ==
    worker' = [worker EXCEPT
       !.pc = pc,
       !.todo = events,
       !.job = IF pc \in {"recv", "stopping", "gone"} THEN Blank ELSE @]

Current(job) == job.gen = generation

NoChannelButJobs ==
    UNCHANGED <<generation, session, tts, writer,
                results, ttsJobs, ttsResults, outbound, out, late>>

-----------------------------------------------------------------------------
\* Without a corpus session the worker reports an error and ends.
WorkerStart ==
    /\ Ready("start")
    /\ \/ Goto("recv", <<>>)
       \/ worker' = [worker EXCEPT
             !.pc = "stopping",
             !.todo = <<Item("error", 0, generation, 0, "")>>,
             !.corpus = FALSE]
    /\ UNCHANGED <<batch, jobs>>
    /\ NoChannelButJobs

\* events.send(event).await
WorkerSend ==
    /\ worker.todo # <<>>
    /\ Room(results, ResultCapacity)
    /\ results' = Append(results, Head(worker.todo))
    /\ worker' = [worker EXCEPT !.todo = Tail(@)]
    /\ UNCHANGED <<generation, session, batch, tts, writer,
                   jobs, ttsJobs, ttsResults, outbound, out, late>>

\* Mutant: a fence is reported without committing the pending translation.
WorkerReceiveFenceEarly ==
    /\ Ready("recv")
    /\ jobs # <<>>
    /\ jobs' = Tail(jobs)
    /\ worker' = [worker EXCEPT
          !.job = Head(jobs),
          !.pc = CASE Head(jobs).kind = "utterance" -> "asr"
                   [] Head(jobs).kind = "drain" -> "emit"
                   [] OTHER -> "commit"]
    /\ UNCHANGED batch
    /\ NoChannelButJobs

\* An utterance of an old generation is skipped before recognition; the other
\* jobs first commit the pending translation.
WorkerReceive ==
    /\ Ready("recv")
    /\ jobs # <<>>
    /\ jobs' = Tail(jobs)
    /\ LET job == Head(jobs) IN
       \/ /\ job.kind = "utterance" /\ ~Current(job)
          /\ UNCHANGED worker
       \/ /\ job.kind = "utterance" /\ Current(job)
          /\ worker' = [worker EXCEPT !.pc = "asr", !.job = job]
       \/ /\ job.kind # "utterance"
          /\ worker' = [worker EXCEPT !.pc = "commit", !.job = job]
    /\ UNCHANGED batch
    /\ NoChannelButJobs

\* The other branch of the select: the pending translation ended first.
WorkerCollect ==
    /\ Ready("recv")
    /\ batch.pc = "done"
    /\ Goto("recv", batch.events)
    /\ batch' = NoBatch
    /\ UNCHANGED jobs
    /\ NoChannelButJobs

\* The job sender is dropped and the queue is empty.
WorkerClosed ==
    /\ Ready("recv")
    /\ jobs = <<>>
    /\ ~session.sender
    /\ Goto("stopping", <<>>)
    /\ UNCHANGED <<batch, jobs>>
    /\ NoChannelButJobs

WorkerStop ==
    /\ Ready("stopping")
    /\ \/ /\ batch.pc = "done"
          /\ Goto("stopping", batch.events)
          /\ batch' = NoBatch
          /\ UNCHANGED jobs
       \/ /\ batch.pc = "none"
          /\ Goto("gone", <<>>)
          /\ jobs' = <<>>
          /\ UNCHANGED batch
    /\ NoChannelButJobs

\* Recognition, with the corpus calls before it: a failure of any of them is
\* reported and ends the job, silence and repeated overlap leave only the
\* observed window, and speech of an old generation leaves nothing.
WorkerRecognize ==
    /\ Ready("asr")
    /\ \/ Goto("recv", <<Event("error", worker.job, 0)>>)
       \/ Goto("recv", <<Event("window", worker.job, 0)>>)
       \/ /\ ~Current(worker.job)
          /\ Goto("recv", <<>>)
       \/ /\ Current(worker.job)
          /\ Goto("commit", <<Event("window", worker.job, 0)>>)
    /\ UNCHANGED <<batch, jobs>>
    /\ NoChannelButJobs

\* Mutant: the job goes on while the preceding translation is running.
WorkerCommitAtOnce ==
    /\ Ready("commit")
    /\ Goto("emit", <<>>)
    /\ UNCHANGED <<batch, jobs>>
    /\ NoChannelButJobs

\* The preceding translation is awaited and sent before anything of this job.
WorkerCommit ==
    /\ Ready("commit")
    /\ \/ /\ batch.pc = "none"
          /\ Goto("emit", <<>>)
          /\ UNCHANGED batch
       \/ /\ batch.pc = "done"
          /\ Goto("emit", batch.events)
          /\ batch' = NoBatch
    /\ UNCHANGED jobs
    /\ NoChannelButJobs

EmitStale ==
    /\ ~Current(worker.job)
    /\ Goto("recv", <<>>)

EmitMarker ==
    /\ Current(worker.job)
    /\ \/ /\ worker.job.kind = "streamEnded"
          /\ Goto("recv", <<Event("streamEnded", worker.job, 0)>>)
       \/ /\ worker.job.kind = "drain"
          /\ Goto("recv", <<Event("drained", worker.job, 0)>>)

EmitRecognized ==
    /\ Current(worker.job)
    /\ worker.job.kind \in {"utterance", "text"}
    /\ \/ Goto("recv", <<Event("error", worker.job, 0)>>)
       \/ \E count \in 0..MaxSegments :
             worker' = [worker EXCEPT
                !.pc = "spawn",
                !.job.seg = count,
                !.todo = <<Event("recognized", worker.job, count)>>]

WorkerEmit ==
    /\ Ready("emit")
    /\ EmitStale \/ EmitMarker \/ EmitRecognized
    /\ UNCHANGED <<batch, jobs>>
    /\ NoChannelButJobs

-----------------------------------------------------------------------------
(* The translation task of the last recognized job.  Its segments run       *)
(* concurrently but their outputs are taken in order.                       *)

WorkerSpawn ==
    /\ Ready("spawn")
    /\ batch' = [pc |-> "running", job |-> worker.job, events |-> <<>>]
    /\ Goto("recv", <<>>)
    /\ UNCHANGED jobs
    /\ NoChannelButJobs

\* A text job is its own stream: its batch ends with the end of the stream.
StreamEnd(job) ==
    IF job.kind = "text" THEN <<Event("streamEnded", job, 0)>> ELSE <<>>

BatchNext ==
    /\ batch.pc = "running"
    /\ LET translated == Len(batch.events)
           left == translated < batch.job.seg
           Ended == batch' = [batch EXCEPT !.pc = "done",
                                            !.events = @ \o StreamEnd(batch.job)]
       IN  \/ /\ left /\ Current(batch.job)
              /\ \E kind \in {"translation", "failed"} :
                    batch' = [batch EXCEPT
                       !.events = Append(@, Event(kind, batch.job, translated + 1))]
           \/ left /\ ~Current(batch.job) /\ Ended   \* cancelled
           \/ ~left /\ Ended
    /\ UNCHANGED <<worker, jobs>>
    /\ NoChannelButJobs

WorkerNext ==
    \/ WorkerStart \/ WorkerSpawn \/ WorkerStop
    \/ WorkerReceive \/ WorkerCollect \/ WorkerClosed
    \/ WorkerRecognize \/ WorkerCommit \/ WorkerEmit
=============================================================================
