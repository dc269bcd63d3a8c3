--------------------------- MODULE BackendSession ---------------------------
(***************************************************************************)
(* One session of the backend: the session loop, the inference worker with *)
(* its translation task, the TTS worker and the socket writer, each taking *)
(* steps of its own, and what they promise together.                       *)
(***************************************************************************)
EXTENDS ServeSession, InferenceWorker, TtsWorker, SocketWriter

Init ==
    /\ SessionInit /\ WorkerInit /\ TtsInit /\ WriterInit
    /\ jobs = <<>> /\ results = <<>> /\ ttsJobs = <<>> /\ ttsResults = <<>>
    /\ outbound = <<>> /\ out = <<>> /\ late = <<>>

WorkerStep == WorkerNext \/ WorkerSend

Next == SessionNext \/ WorkerStep \/ BatchNext \/ TtsNext \/ WriterNext

Spec == Init /\ [][Next]_vars

\* Every task of the session is scheduled, model calls end, and the socket
\* takes what is written to it.  The client need not send anything.
FairSpec ==
    /\ Spec
    /\ WF_vars(SessionStep)
    /\ WF_vars(WorkerStep)
    /\ WF_vars(BatchNext)
    /\ WF_vars(TtsNext)
    /\ WF_vars(WriterNext)

-----------------------------------------------------------------------------
TypeOK ==
    /\ SessionTypeOK /\ WorkerTypeOK /\ TtsTypeOK /\ WriterTypeOK
    /\ jobs \in Seq(Items(JobKinds)) /\ Len(jobs) <= JobCapacity
    /\ results \in Seq(Items(EventKinds)) /\ Len(results) <= ResultCapacity
    /\ ttsJobs \in Seq(Items({"speech"})) /\ Len(ttsJobs) <= TtsCapacity
    /\ ttsResults \in Seq(Items({"audio", "ttsError"})) /\ Len(ttsResults) <= TtsCapacity
    /\ outbound \in Seq(Items(OutputKinds)) /\ Len(outbound) <= OutboundCapacity
    /\ out \in Seq(Items(OutputKinds))
    /\ late \in Seq(Generations)

\* Recognition of one turn runs while the turn before it is translated, yet
\* what reaches the client keeps the order of the turns, and of the segments
\* in a turn ("prompt history and emitted events retain strict stream order").
\* The end of a stream follows all of it.
Ordered(item) == item.kind \in {"recognized", "translation", "streamEnded"}

StreamOrder ==
    \A i, j \in DOMAIN out :
        i < j /\ Ordered(out[i]) /\ Ordered(out[j]) =>
            /\ out[i].job <= out[j].job
            /\ out[i].job = out[j].job =>
                 /\ out[j].kind # "recognized"
                 /\ out[i].kind # "streamEnded"
                 /\ out[i].kind = "translation" /\ out[j].kind = "translation"
                       => out[i].seg < out[j].seg

\* PipelineDrained is a fence: no result of a job that was queued before it,
\* and no speech made from one, is put on the output queue after it.
FenceIsLast ==
    \A i, j \in DOMAIN out :
        i < j /\ out[i].kind = "drained" => out[j].job \notin 1..(out[i].job - 1)

\* When PipelineDrained is put out, each turn that was recognized in the generation the
\* fence was queued in, and queued before it, has all its translations (or their errors)
\* out before it: the overlap of turns leaves nothing behind.  Unless the fence was past
\* the worker when the client reconfigured: then it is confirmed all the same, stamped
\* with the new generation, and what precedes it is dropped with the old one.
OutBefore(i, kinds, job) ==
    {out[h].seg : h \in {k \in 1..(i - 1) : out[k].kind \in kinds /\ out[k].job = job}}

FenceIsComplete ==
    \A h, i \in DOMAIN out :
        /\ out[h].kind = "recognized" /\ out[i].kind = "drained"
        /\ out[h].job < out[i].job /\ out[h].gen = out[i].made
        => \/ 1..out[h].seg \subseteq OutBefore(i, {"translation", "error"}, out[h].job)
           \/ out[i].gen # out[i].made

\* After a reconfiguration the client sees at most one more message of the
\* generation it left: the one the writer was busy with.
AtMostOneLateMessage ==
    \A i, j \in DOMAIN late : late[i] = late[j] => i = j

\* A session that ends gracefully leaves no task with work: nothing the worker
\* or the TTS worker still has is thrown away, and joining them cannot block.
GracefulIsQuiescent ==
    session.graceful =>
        /\ jobs = <<>> /\ results = <<>> /\ worker.todo = <<>> /\ batch.pc = "none"
        /\ ttsJobs = <<>> /\ ttsResults = <<>> /\ tts.pc \in {"recv", "gone"}

\* A session the client finishes ends gracefully, with every queued result
\* emitted (protocol: "gracefully finishes this session after all queued
\* inference results have been emitted"), unless a task failed.
FinishIsGraceful ==
    session.input = "draining" /\ session.loop # "run"
        => session.graceful \/ writer.pc = "failed" \/ ~worker.corpus

\* The session and the TTS worker do not wait for each other: "TTS is
\* intentionally independent from the ASR/translation event pump".
SpeechCannotBlockSession ==
    ~ /\ Sending("tts") /\ ~Room(ttsJobs, TtsCapacity)
      /\ tts.pc = "send" /\ ~Room(ttsResults, TtsCapacity)

-----------------------------------------------------------------------------
(* Liveness *)

FenceOut(reason) ==
    \E i \in DOMAIN out : out[i].kind = "drained" /\ out[i].reason = reason

\* Finish, InputEnded and Stop: the session "gracefully finishes ... after all
\* queued inference results have been emitted", that is, its terminal
\* PipelineDrained is put out, unless the socket fails or there never was a
\* corpus session to work with.
FinishIsConfirmed ==
    (session.input = "draining") ~>
        (FenceOut("terminal") \/ writer.pc = "failed" \/ ~worker.corpus)

\* A pause is confirmed too, unless the client reconfigures the session before
\* the fence is through: the fence belongs to the generation it was queued in.
PauseFenceQueued(g) ==
    \E i \in DOMAIN jobs :
        jobs[i].kind = "drain" /\ jobs[i].reason = "paused" /\ jobs[i].gen = g

PauseIsConfirmed ==
    \A g \in Generations :
        (PauseFenceQueued(g) /\ generation = g) ~>
            (\/ FenceOut("paused") \/ generation # g
             \/ session.loop # "run" \/ ~worker.corpus)

\* A session that finishes is torn down to the end.
FinishEnds == (session.input = "draining") ~> (session.loop = "closed")
=============================================================================
