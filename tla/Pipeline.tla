------------------------------ MODULE Pipeline ------------------------------
(***************************************************************************)
(* The audio side of a backend session (NativePipeline in pipeline.rs):    *)
(* chunks of any size become frames, frames become utterances by the       *)
(* endpoint detector or, in continuous recognition, by the fixed window,   *)
(* and each utterance gets its place on the time line.                     *)
(*                                                                         *)
(* The unit of time is half a frame: a frame is known by the time it       *)
(* starts at, and what is left of a chunk is half a frame or nothing.      *)
(***************************************************************************)
EXTENDS Endpoint, FixedWindow

CONSTANTS
    SilenceChoices,  \* values a client may choose for the silence of an endpoint
    MaxHeard,        \* bound: per mode, half frames received since a reset
    MaxBacklog       \* bound: windows whose text is not known yet

Modes == {"endpoint", "window"}

ASSUME PipelineAssumption ==
    /\ SilenceChoices \subseteq Nat /\ MaxBacklog \in Nat
    /\ MaxHeard \in [Modes -> Nat]

VARIABLES
    mode,       \* fixed_window is there or not
    silence,    \* of the configuration of the endpoint
    detector,
    window,
    pending,    \* pending_pcm, in half frames
    processed,  \* processed_samples, in half frames
    backlog,    \* windows whose text density is yet to be observed
    out,        \* events of the last call
    past        \* history, see Heard

vars == <<mode, silence, detector, window, pending, processed, backlog, out, past>>

\* received: half frames received since the last reset.  emitted: frames that
\* start before it were emitted.  run: length of the current run of speech.  owed: frames of
\* speech that the client is to hear of.
Nought == [received |-> 0, emitted |-> 0, run |-> 0, owed |-> {}]

Init ==
    /\ mode = "endpoint"
    /\ silence \in {s \in SilenceChoices : ValidSilence(s)}
    /\ detector = Listening
    /\ window = NewWindow(FALSE)
    /\ pending = 0 /\ processed = 0 /\ backlog = 0
    /\ out = <<>>
    /\ past = Nought

-----------------------------------------------------------------------------
\* Mutant: the padding counts as audio.
WithTimelinePadded(utterance, end, padding, before) ==
    [frames |-> utterance.frames, overlap |-> utterance.overlap,
     reason |-> utterance.reason,
     start |-> end - 2 * Len(utterance.frames), end |-> end,
     repeated |-> Cardinality({i \in DOMAIN utterance.frames :
                                  utterance.frames[i] < before})]

\* with_timeline.  repeated: how many of the frames an earlier utterance had.
WithTimeline(utterance, end, padding, before) ==
    [frames |-> utterance.frames, overlap |-> utterance.overlap,
     reason |-> utterance.reason,
     start |-> end - (2 * Len(utterance.frames) - padding), end |-> end,
     repeated |-> Cardinality({i \in DOMAIN utterance.frames :
                                  utterance.frames[i] < before})]

\* Frames before this moment have been emitted when these utterances have, too.
EmittedAfter(events, before) ==
    IF events = <<>> THEN before ELSE Last(Last(events).frames) + 1

\* The first ones of a run of speech are owed when it is long enough to be
\* recognized as one, unless an utterance had them.
Needed == IF mode = "endpoint" THEN MinSpeechFrames ELSE OpeningFrames
OwedWith(frame, run) ==
    CASE run < Needed -> {}
      [] run = Needed -> {frame - 2 * k : k \in 0..(Needed - 1)}
      [] OTHER -> {frame}
FramesOf(events) == UNION {ToSet(events[i].frames) : i \in DOMAIN events}

\* The history after a frame and the events it completed.  forgiven: frames
\* TakeWindow leaves behind although there is no more to come, see SpeechIsHeard.
Past(received, frame, speech, events, forgiven) ==
    LET run == IF speech THEN past.run + 1 ELSE 0
    IN [received |-> received, run |-> run,
        emitted |-> EmittedAfter(events, past.emitted),
        owed |-> (past.owed \cup {f \in OwedWith(frame, run) : f >= past.emitted})
                     \ (FramesOf(events) \cup forgiven)]

\* A chunk that completes no frame.
PushPart(halves) ==
    /\ pending + halves < 2
    /\ pending' = pending + halves
    /\ past' = [past EXCEPT !.received = @ + halves]
    /\ out' = <<>>
    /\ UNCHANGED <<mode, silence, detector, window, processed, backlog>>

\* A chunk that completes a frame, with an endpoint.  cut: the speaker changed.
PushEndpoint(halves, speech, cut) ==
    LET frame == past.received - pending
        split == IF cut THEN Split(detector) ELSE Nothing(detector)
        pushed == Push(split.detector, frame, speech, silence)
        first == [i \in DOMAIN split.out |->
                    WithTimeline(split.out[i], processed, 0, past.emitted)]
        second == [i \in DOMAIN pushed.out |->
                     WithTimeline(pushed.out[i], processed + 2, 0,
                                  EmittedAfter(split.out, past.emitted))]
    IN /\ mode = "endpoint" /\ pending + halves >= 2
       /\ cut => speech
       /\ pending' = pending + halves - 2
       /\ detector' = pushed.detector
       /\ processed' = processed + 2
       /\ out' = first \o second
       /\ past' = Past(past.received + halves, frame, speech, first \o second, {})
       /\ UNCHANGED <<mode, silence, window, backlog>>

\* The same with a fixed window, which completes one event at most.
PushFixedWindow(halves, active) ==
    LET frame == past.received - pending
        pushed == PushWindow(window, frame, active)
        heard == IF pushed.out = <<StreamEnded>> THEN <<>>
                 ELSE [i \in DOMAIN pushed.out |->
                         WithTimeline(pushed.out[i], processed + 2, 0, past.emitted)]
        left == IF pushed.window.open /\ ~pushed.window.activity
                THEN ToSet(Without(pushed.window.samples, pushed.window.overlap)) ELSE {}
    IN /\ mode = "window" /\ pending + halves >= 2
       /\ backlog + Len(heard) <= MaxBacklog
       /\ pending' = pending + halves - 2
       /\ window' = pushed.window
       /\ processed' = processed + 2
       /\ out' = IF heard = <<>> THEN pushed.out ELSE heard
       /\ past' = Past(past.received + halves, frame, active, heard, left)
       /\ backlog' = backlog + Len(heard)
       /\ UNCHANGED <<mode, silence, detector>>

\* push_pcm
PushPcm ==
    \E halves \in 1..2 :
        /\ past.received + halves <= MaxHeard[mode]
        /\ \/ PushPart(halves)
           \/ \E speech, cut \in BOOLEAN : PushEndpoint(halves, speech, cut)
           \/ \E active \in BOOLEAN : PushFixedWindow(halves, active)

\* flush with an endpoint, at a pause or a finish: what is left of a chunk is
\* padded to a frame, and if that frame completes an utterance the detector is
\* not flushed.
FlushEndpoint(speech) ==
    LET frame == past.received - pending
        padding == IF pending > 0 THEN 1 ELSE 0
        pushed == IF pending > 0 THEN Push(detector, frame, speech, silence)
                                 ELSE Nothing(detector)
        flushed == IF pushed.out # <<>> THEN pushed ELSE Flush(pushed.detector)
        events == [i \in DOMAIN flushed.out |->
                     WithTimeline(flushed.out[i], processed + pending, padding, past.emitted)]
    IN /\ mode = "endpoint"
       /\ detector' = flushed.detector
       /\ pending' = 0
       /\ processed' = processed + pending
       /\ out' = events
       /\ past' = [Past(past.received, frame, speech /\ pending > 0, events, {})
                     EXCEPT !.run = 0]
       /\ UNCHANGED <<mode, silence, window, backlog>>

\* flush with a fixed window: the rest of a chunk stays for the next one.
FlushFixedWindow ==
    LET flushed == FlushWindow(window)
        events == [i \in DOMAIN flushed.out |->
                     WithTimeline(flushed.out[i], processed, 0, past.emitted)]
    IN /\ mode = "window"
       /\ backlog + Len(events) <= MaxBacklog
       /\ window' = flushed.window
       /\ out' = events
       /\ past' = [past EXCEPT !.run = 0,
                               !.emitted = EmittedAfter(events, @),
                               !.owed = @ \ FramesOf(events)]
       /\ backlog' = backlog + Len(events)
       /\ UNCHANGED <<mode, silence, detector, pending, processed>>

\* reset
Cleared ==
    /\ detector' = Listening
    /\ pending' = 0
    /\ processed' = 0
    /\ out' = <<>>
    /\ past' = Nought

\* A new route resets the pipeline.  The window keeps what it knows of density.
Reroute ==
    /\ Cleared
    /\ window' = ResetWindow(window)
    /\ UNCHANGED <<mode, silence, backlog>>

\* configure_segmentation: a silence the endpoint refuses changes nothing.
ConfigureSegmentation(chosen, newMode, adaptive) ==
    IF ValidSilence(chosen)
    THEN /\ Cleared
         /\ silence' = chosen
         /\ mode' = newMode
         /\ window' = NewWindow(adaptive /\ newMode = "window")
         /\ UNCHANGED backlog
    ELSE /\ out' = <<>>
         /\ UNCHANGED <<mode, silence, detector, window, pending, processed, backlog, past>>

\* The text of a window is known, or the worker drops it.  The session does not
\* ask which generation the window is of (main.rs 908).
ObserveTextDensity(density) ==
    /\ backlog > 0
    /\ backlog' = backlog - 1
    /\ window' = IF mode = "window" THEN Observe(window, density) ELSE window
    /\ out' = <<>>
    /\ UNCHANGED <<mode, silence, detector, pending, processed, past>>

DropWindow ==
    /\ backlog > 0
    /\ backlog' = backlog - 1
    /\ out' = <<>>
    /\ UNCHANGED <<mode, silence, detector, window, pending, processed, past>>

Next ==
    \/ PushPcm
    \/ \E speech \in BOOLEAN : FlushEndpoint(speech)
    \/ FlushFixedWindow
    \/ Reroute
    \/ \E chosen \in SilenceChoices, newMode \in Modes, adaptive \in BOOLEAN :
          ConfigureSegmentation(chosen, newMode, adaptive)
    \/ \E density \in Densities : ObserveTextDensity(density)
    \/ DropWindow

Spec == Init /\ [][Next]_vars
-----------------------------------------------------------------------------
Utterances(events) == {e \in ToSet(events) : e.reason # "ended"}
Increasing(s) == \A i, j \in DOMAIN s : i < j => s[i] < s[j]
Contiguous(s) == \A i \in 1..(Len(s) - 1) : s[i + 1] = s[i] + 2

\* A run of speech long enough to count as one is heard to its last frame:
\* nothing of it is lost at an onset, a hard limit, a change of speaker, between
\* two windows or at a flush.  Except frames of a window that shrank to less than
\* it held: unless there is activity again, the gate drops them (pipeline.rs 370).
SpeechIsHeard ==
    past.owed \subseteq (IF mode = "endpoint" THEN Held(detector) ELSE HeldByWindow(window))

\* What an utterance repeats of the ones before it is what it declares as its
\* overlap, no more (the repeated words would be translated twice) and no less
\* (remove_overlap_with would take words that were said twice).
HeardOnce ==
    \A e \in Utterances(out) : Increasing(e.frames) /\ e.repeated = e.overlap

\* An utterance is placed where its audio is, the padding of the last frame not
\* counted.  Except one with a hole (a short burst of speech dropped from the
\* opening, or the padded frame before a hard limit), and a window that left more
\* than the overlap behind.
TimelineIsExact ==
    \A e \in Utterances(out) :
        Contiguous(e.frames) /\ (mode = "window" => Len(window.samples) <= window.overlap) =>
            /\ e.start = Head(e.frames)
            /\ e.end = Least(Last(e.frames) + 2, past.received)

\* The audio a session holds is bounded whatever is said and however long.  The
\* bound is not the one the code states (max_active_frames and pre-roll): silence
\* that has not lasted long enough comes on top.
MemoryIsBounded ==
    /\ detector.active.count < MaxActiveFrames + silence - 1
    /\ Len(detector.active.frames) <=
          detector.active.count + Most(PreRollFrames, MaxOverlapFrames)
    /\ Len(detector.preRoll) + Len(detector.opening) <= PreRollFrames + OpeningWindow
    /\ Len(window.samples) < ExpandedWindow
=============================================================================
