---------------------------- MODULE ServeSession ----------------------------
(***************************************************************************)
(* serve_session: the loop that owns a session.  It selects, in no fixed   *)
(* order, among the results of the inference worker, the results of the    *)
(* TTS worker and the frames of the client, and then tears the session     *)
(* down.                                                                   *)
(*                                                                         *)
(* A handler computes what it does next from the state at its start and    *)
(* then awaits its sends one by one: they are `session.todo`, and the loop *)
(* does not turn before that is empty.  All state of a handler other than  *)
(* the channels is the session's own, so setting it at the start is not    *)
(* visible to another task; closing the job channel is, and is a step of   *)
(* todo.                                                                   *)
(***************************************************************************)
EXTENDS SessionChannels

CONSTANTS
    VoiceReady,   \* values clone_capture.ready and the text allow: whether a
                  \* translation is spoken
    Controls      \* the kinds of frames the client sends in this instance

FrameKinds == {"reconfigure", "invalid", "pause", "resume", "finish",
               "toggleTts", "text", "audio", "disconnect"}

ASSUME FrameAssumption == VoiceReady \subseteq BOOLEAN /\ Controls \subseteq FrameKinds

InputStates == {"running", "paused", "draining"}
LoopStates == {"run", "exit", "joinWorker", "joinTts", "joinWriter", "closed"}

\* One awaited send of a handler, or the step after its sends
Ops == {"job", "tts", "out", "close", "leave"}
Do(op, item) == [op |-> op, item |-> item]

SessionTypeOK ==
    /\ session.loop \in LoopStates
    /\ session.input \in InputStates
    /\ session.sender \in BOOLEAN
    /\ session.graceful \in BOOLEAN
    /\ session.ttsOn \in BOOLEAN
    /\ session.ttsEpoch \in Epochs
    /\ session.pendingTts \in Nat
    /\ session.pendingDrain \in Items({"", "drained"})
    /\ session.frames \in 0..MaxFrames
    /\ session.jobCount \in JobNumbers
    /\ session.todo \in Seq([op : Ops,
          item : Items(JobKinds \cup OutputKinds \cup {"", "speech"})])
    /\ generation \in Generations

SessionInit ==
    /\ generation = FirstGeneration
    /\ session = [loop |-> "run", input |-> "running", sender |-> TRUE,
                  graceful |-> FALSE, ttsOn |-> FALSE, ttsEpoch |-> 0,
                  pendingTts |-> 0, pendingDrain |-> Blank,
                  frames |-> 0, jobCount |-> 0, todo |-> <<>>]

NoChannel ==
    UNCHANGED <<worker, batch, tts, writer, jobs, results, ttsJobs, ttsResults,
                outbound, out, late>>

\* The loop is at its select.
Selecting == session.loop = "run" /\ session.todo = <<>>

-----------------------------------------------------------------------------
(* Results of the worker *)

Write(kind, item) == Do("out", [item EXCEPT !.kind = kind])

\* handle_inference_event: what is written for `event`, and whether its
\* translation is spoken.  Results of another generation are dropped.
OutputOf(event, spoken) ==
    IF event.gen # generation \/ event.kind \in {"window", "drained"}
    THEN <<>>
    ELSE CASE event.kind = "translation" /\ spoken ->
                 <<Write("translation", event),
                   Do("tts", [event EXCEPT !.kind = "speech", !.epoch = session.ttsEpoch])>>
           [] event.kind = "failed" -> <<Write("error", event)>>
           [] OTHER -> <<Write(event.kind, event)>>

Spoken(event) ==
    {spoken \in VoiceReady \cup {FALSE} :
        spoken => event.kind = "translation" /\ event.gen = generation /\ session.ttsOn}

\* PipelineDrained, stamped with the generation of the session, and the end of
\* the session unless it was a pause.
Drained(fence) ==
    <<Do("out", [fence EXCEPT !.gen = generation])>>
    \o IF fence.reason = "paused" THEN <<>> ELSE <<Do("leave", Blank)>>

\* Mutant: the fence does not wait for speech.
HandleDrainedAtOnce(event) ==
    session' = [session EXCEPT !.todo = Drained(event)]

\* Mutant: every fence is kept for the TTS branch to send.
HandleDrainedLater(event) ==
    session' = [session EXCEPT !.pendingDrain = event]

\* A fence waits for the speech that was made of earlier results.
HandleDrained(event) ==
    session' = IF session.pendingTts = 0
               THEN [session EXCEPT !.todo = Drained(event)]
               ELSE [session EXCEPT !.pendingDrain = event]

\* The reason of a drain is looked at before the generation of its event.
HandleResult ==
    /\ Selecting
    /\ results # <<>>
    /\ results' = Tail(results)
    /\ LET event == Head(results) IN
       IF event.kind = "drained"
       THEN HandleDrained(event)
       ELSE \E spoken \in Spoken(event) :
               session' = [session EXCEPT
                  !.todo = OutputOf(event, spoken),
                  !.pendingTts = IF spoken THEN @ + 1 ELSE @]
    /\ UNCHANGED <<generation, worker, batch, tts, writer,
                   jobs, ttsJobs, ttsResults, outbound, out, late>>

\* Mutant: the branch of the closed channel does nothing, and the loop goes on.
ResultsClosedIgnored ==
    /\ Selecting
    /\ results = <<>>
    /\ worker.pc = "gone"
    /\ UNCHANGED <<generation, session>>
    /\ NoChannel

\* The worker is gone and its results are handled.
ResultsClosed ==
    /\ Selecting
    /\ results = <<>>
    /\ worker.pc = "gone"
    /\ session' = [session EXCEPT !.loop = "exit"]
    /\ UNCHANGED generation
    /\ NoChannel

TtsIsCurrent(result) == result.gen = generation /\ result.epoch = session.ttsEpoch

\* pending_tts_jobs.saturating_sub(1)
LeftAfter(result) ==
    IF session.pendingTts = 0 THEN 0 ELSE session.pendingTts - 1

HandleTtsResult ==
    /\ Selecting
    /\ ttsResults # <<>>
    /\ ttsResults' = Tail(ttsResults)
    /\ LET result == Head(ttsResults)
           left == LeftAfter(result)
           fence == session.pendingDrain
           done == left = 0 /\ fence # Blank
       IN  session' = [session EXCEPT
              !.pendingTts = left,
              !.pendingDrain = IF done THEN Blank ELSE @,
              !.todo = (IF TtsIsCurrent(result) THEN <<Do("out", result)>> ELSE <<>>)
                       \o (IF done THEN Drained(fence) ELSE <<>>)]
    /\ UNCHANGED <<generation, worker, batch, tts, writer,
                   jobs, results, ttsJobs, outbound, out, late>>

-----------------------------------------------------------------------------
(* Frames of the client *)

Frame(kind) ==
    /\ kind \in Controls
    /\ Selecting
    /\ session.input # "draining"
    /\ session.frames < MaxFrames

\* Jobs of the given kinds, numbered after the last one.
Queue(kinds, reason) ==
    [i \in DOMAIN kinds |->
        Do("job", Item(kinds[i], session.jobCount + i, generation, 0,
                       IF kinds[i] = "drain" THEN reason ELSE ""))]

\* What a frame makes the loop send: its jobs and what comes after them
Request(kinds, reason, then) == [kinds |-> kinds, reason |-> reason, then |-> then]
JobsOf(kinds) == Request(kinds, "", <<>>)
NoJobs(then) == Request(<<>>, "", then)

Handle(request, update) ==
    session' = [update EXCEPT
       !.frames = @ + 1,
       !.jobCount = @ + Len(request.kinds),
       !.todo = Queue(request.kinds, request.reason) \o request.then]

ErrorOut == Do("out", Item("error", 0, NoGeneration, 0, ""))

\* SessionConfig and ConfigAudio
Reconfigure ==
    /\ Frame("reconfigure")
    /\ generation' = generation + 1
    /\ Handle(NoJobs(<<>>), session)
    /\ NoChannel

\* A control or frame that is refused with an error
Invalid ==
    /\ Frame("invalid")
    /\ Handle(NoJobs(<<ErrorOut>>), session)
    /\ UNCHANGED generation
    /\ NoChannel

\* Mutant: a failed flush returns before the fence is queued.
QueuePipelineDrainUnlessFailed(reason, then) ==
    {Request(<<"drain">>, reason, then),
     Request(<<"utterance", "drain">>, reason, then),
     Request(<<>>, reason, <<ErrorOut>> \o then)}

\* queue_pipeline_drain: the flushed utterance, if any, and the fence.  When
\* the flush fails the fence is queued all the same and an error follows.
QueuePipelineDrain(reason, then) ==
    {Request(<<"drain">>, reason, then),
     Request(<<"utterance", "drain">>, reason, then),
     Request(<<"drain">>, reason, <<ErrorOut>> \o then)}

Pause ==
    /\ Frame("pause")
    /\ session.input = "running"
    /\ \E request \in QueuePipelineDrain("paused", <<>>) :
          Handle(request, [session EXCEPT !.input = "paused"])
    /\ UNCHANGED generation
    /\ NoChannel

Resume ==
    /\ Frame("resume")
    /\ session.input = "paused"
    /\ Handle(NoJobs(<<>>), [session EXCEPT !.input = "running"])
    /\ UNCHANGED generation
    /\ NoChannel

\* Mutant: the session goes on taking frames after the terminal fence.
FinishStaysOpen ==
    /\ Frame("finish")
    /\ \E request \in QueuePipelineDrain("terminal", <<>>) : Handle(request, session)
    /\ UNCHANGED generation
    /\ NoChannel

\* Finish, InputEnded and Stop
Finish ==
    /\ Frame("finish")
    /\ \E request \in QueuePipelineDrain("terminal", <<Do("close", Blank)>>) :
          Handle(request, [session EXCEPT !.input = "draining"])
    /\ UNCHANGED generation
    /\ NoChannel

\* Every change of the TTS switch starts an epoch.
ToggleTts ==
    /\ Frame("toggleTts")
    /\ Handle(NoJobs(<<>>), [session EXCEPT !.ttsOn = ~@, !.ttsEpoch = @ + 1])
    /\ UNCHANGED generation
    /\ NoChannel

TranslateText ==
    /\ Frame("text")
    /\ Handle(JobsOf(<<"text">>), session)
    /\ UNCHANGED generation
    /\ NoChannel

\* What push_pcm makes of a frame that completes something: a turn, or a turn
\* that ends a continuous stream.  Any other frame leaves this state alone.
Segmented == {<<"utterance">>, <<"utterance", "streamEnded">>}

Audio ==
    /\ Frame("audio")
    /\ session.input = "running"
    /\ \E kinds \in Segmented : Handle(JobsOf(kinds), session)
    /\ UNCHANGED generation
    /\ NoChannel

\* Close, an error of the socket or its end
Disconnect ==
    /\ Frame("disconnect")
    /\ session' = [session EXCEPT !.loop = "exit", !.frames = @ + 1]
    /\ UNCHANGED generation
    /\ NoChannel

-----------------------------------------------------------------------------
(* The awaited sends of a handler, in order *)

Sending(op) ==
    /\ session.loop = "run"
    /\ session.todo # <<>>
    /\ Head(session.todo).op = op

Continue == session' = [session EXCEPT !.todo = Tail(@)]
Sent == Head(session.todo).item

SendJob ==
    /\ Sending("job")
    /\ worker.pc # "gone"
    /\ Room(jobs, JobCapacity)
    /\ jobs' = Append(jobs, Sent)
    /\ Continue
    /\ UNCHANGED <<generation, worker, batch, tts, writer,
                   results, ttsJobs, ttsResults, outbound, out, late>>

\* The worker dropped its receiver: a text control ends the session, the
\* other handlers skip their remaining jobs and report an error.
SendJobFails ==
    /\ Sending("job")
    /\ worker.pc = "gone"
    /\ session' =
          IF Sent.kind = "text"
          THEN [session EXCEPT !.loop = "exit", !.todo = <<>>]
          ELSE [session EXCEPT
                  !.todo = IF \E i \in DOMAIN @ : @[i].op = "close"
                           THEN <<ErrorOut, Do("close", Blank)>> ELSE <<ErrorOut>>]
    /\ UNCHANGED generation
    /\ NoChannel

SendTtsJob ==
    /\ Sending("tts")
    /\ Room(ttsJobs, TtsCapacity)
    /\ ttsJobs' = Append(ttsJobs, Sent)
    /\ Continue
    /\ UNCHANGED <<generation, worker, batch, tts, writer,
                   jobs, results, ttsResults, outbound, out, late>>

SendOutput ==
    /\ Sending("out")
    /\ writer.pc \notin {"stopped", "failed"}
    /\ Room(outbound, OutboundCapacity)
    /\ outbound' = Append(outbound, Sent)
    /\ out' = Append(out, Sent)
    /\ Continue
    /\ UNCHANGED <<generation, worker, batch, tts, writer,
                   jobs, results, ttsJobs, ttsResults, late>>

\* The writer is gone: every handler leaves the loop.
SendOutputFails ==
    /\ Sending("out")
    /\ writer.pc \in {"stopped", "failed"}
    /\ session' = [session EXCEPT !.loop = "exit", !.todo = <<>>]
    /\ UNCHANGED generation
    /\ NoChannel

\* job_sender.take()
CloseJobs ==
    /\ Sending("close")
    /\ session' = [session EXCEPT !.sender = FALSE, !.todo = Tail(@)]
    /\ UNCHANGED generation
    /\ NoChannel

\* graceful_shutdown = true; break
Leave ==
    /\ Sending("leave")
    /\ session' = [session EXCEPT !.graceful = TRUE, !.loop = "exit", !.todo = <<>>]
    /\ UNCHANGED generation
    /\ NoChannel

-----------------------------------------------------------------------------
(* After the loop *)

At(from, to) ==
    /\ session.loop = from
    /\ session' = [session EXCEPT !.loop = to, !.sender = FALSE]

\* An aborted worker detaches its translation task, whose events go nowhere.
StopWorker ==
    /\ At("exit", "joinWorker")
    /\ IF session.graceful
       THEN UNCHANGED <<worker, batch, jobs>>
       ELSE /\ worker' = [worker EXCEPT !.pc = "gone", !.todo = <<>>, !.job = Blank]
            /\ batch' = [pc |-> "none", job |-> Blank, events |-> <<>>]
            /\ jobs' = <<>>
    /\ UNCHANGED <<generation, tts, writer, results, ttsJobs, ttsResults,
                   outbound, out, late>>

JoinWorker ==
    /\ worker.pc = "gone"
    /\ At("joinWorker", "joinTts")
    /\ IF session.graceful
       THEN UNCHANGED <<tts, ttsJobs>>
       ELSE /\ tts' = [pc |-> "gone", item |-> Blank]
            /\ ttsJobs' = <<>>
    /\ UNCHANGED <<generation, worker, batch, writer, jobs, results, ttsResults,
                   outbound, out, late>>

JoinTts ==
    /\ tts.pc = "gone"
    /\ At("joinTts", "joinWriter")
    /\ UNCHANGED generation
    /\ NoChannel

\* A graceful end gives the writer two seconds; any other aborts it at once.
JoinWriter ==
    /\ At("joinWriter", "closed")
    /\ writer' = [pc |-> IF writer.pc = "failed" THEN "failed" ELSE "stopped",
                  item |-> Blank]
    /\ outbound' = <<>>
    /\ UNCHANGED <<generation, worker, batch, tts, jobs, results, ttsJobs,
                   ttsResults, out, late>>

Frames ==
    \/ Reconfigure \/ Invalid \/ Pause \/ Resume \/ Finish
    \/ ToggleTts \/ TranslateText \/ Audio \/ Disconnect

Sends == SendJob \/ SendJobFails \/ SendTtsJob \/ SendOutput
         \/ SendOutputFails \/ CloseJobs \/ Leave

Teardown == StopWorker \/ JoinWorker \/ JoinTts \/ JoinWriter

SessionStep == HandleResult \/ ResultsClosed \/ HandleTtsResult \/ Sends \/ Teardown

SessionNext == SessionStep \/ Frames
=============================================================================
