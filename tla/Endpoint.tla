------------------------------ MODULE Endpoint ------------------------------
(***************************************************************************)
(* Endpointing of speech by silence (xrtranslate-vad, EndpointDetector).   *)
(* A detector is a record and an operation returns what it becomes and the *)
(* utterances it completes.  A frame of audio is known by its position in  *)
(* the stream, and `speech` is what the VAD says of it.                    *)
(***************************************************************************)
EXTENDS Naturals, Sequences, FiniteSets, SequencesExt

CONSTANTS
    AdaptiveAfter,       \* frames, as are all of these: of EndpointConfig
    AdaptiveSilence,
    PreRollFrames,
    MaxActiveFrames,
    MaxOverlapFrames,
    MinSpeechFrames,
    OpeningWindow,
    MinDynamicSilence,   \* 2 in the code
    CalibrationPercent   \* 85 in the code

ASSUME EndpointAssumption ==
    /\ {AdaptiveAfter, AdaptiveSilence, MaxActiveFrames, MinSpeechFrames,
        MinDynamicSilence, CalibrationPercent} \subseteq Nat \ {0}
    /\ {PreRollFrames, MaxOverlapFrames, OpeningWindow} \subseteq Nat
    /\ AdaptiveAfter <= MaxActiveFrames
    /\ MaxOverlapFrames < MaxActiveFrames
    /\ MinSpeechFrames <= OpeningWindow

\* EndpointConfig::validate, for what a client can choose.
ValidSilence(silence) == silence > 0 /\ AdaptiveSilence <= silence

Least(a, b) == IF a <= b THEN a ELSE b
Most(a, b) == IF a >= b THEN a ELSE b

\* silence_frames_to_finalize_for: the longer the speech, the shorter the pause
\* that ends it.
SilenceFor(silence, count) ==
    LET preferred == Least(Most(AdaptiveSilence, MinDynamicSilence), silence)
        calibration == Most(1, (AdaptiveAfter * CalibrationPercent + 99) \div 100)
        drop == Least(((silence - preferred) * count) \div calibration,
                      silence - MinDynamicSilence)
    IN IF silence <= MinDynamicSilence \/ preferred = silence
       THEN silence
       ELSE Most(silence - drop, MinDynamicSilence)

\* active with a count of 0 is no active utterance.
NoActive == [frames |-> <<>>, preRoll |-> 0, overlap |-> 0, count |-> 0, silence |-> 0]
Listening == [preRoll |-> <<>>, overlap |-> <<>>, opening |-> <<>>, active |-> NoActive]

Speaking(d) == d.active.count > 0
Utterance(active, reason) ==
    [frames |-> active.frames, overlap |-> active.overlap, reason |-> reason]
Nothing(d) == [detector |-> d, out |-> <<>>]

Newest(s, n) == SubSeq(s, Len(s) - Least(n, Len(s)) + 1, Len(s))
WithPreRoll(d, frames) ==
    [d EXCEPT !.preRoll = Newest(d.preRoll \o frames, PreRollFrames)]

\* Mutant: a hard split keeps nothing of the boundary.
FinalizeNoOverlap(d, reason) ==
    [detector |-> [d EXCEPT !.active = NoActive, !.overlap = <<>>],
     out |-> <<Utterance(d.active, reason)>>]

\* finalize_active: a split inside speech keeps its tail for the next utterance.
Finalize(d, reason) ==
    LET kept == IF reason \in {"limit", "speaker"}
                THEN Least(MaxOverlapFrames, d.active.count)
                ELSE 0
    IN [detector |-> [d EXCEPT !.active = NoActive,
                               !.overlap = Newest(d.active.frames, kept)],
        out |-> <<Utterance(d.active, reason)>>]

\* Mutant: a limit reached is looked at when the speech pauses.
EndReasonAtPause(active, speech, silence) ==
    CASE ~speech /\ active.count >= MaxActiveFrames -> "limit"
      [] ~speech /\ active.silence >= SilenceFor(silence, active.count) -> "silence"
      [] OTHER -> "none"

\* Why an utterance that has just got a frame ends, if it does.  The limit is
\* looked at on speech only.
EndReason(active, speech, silence) ==
    CASE speech /\ active.count >= MaxActiveFrames -> "limit"
      [] ~speech /\ active.silence >= SilenceFor(silence, active.count) -> "silence"
      [] OTHER -> "none"

\* push while speaking
Continue(d, frame, speech, silence) ==
    LET active == [d.active EXCEPT
                     !.frames = Append(@, frame),
                     !.count = @ + 1,
                     !.silence = IF speech THEN 0 ELSE @ + 1]
        next == [d EXCEPT !.active = active]
        reason == EndReason(active, speech, silence)
    IN IF reason = "none" THEN Nothing(next) ELSE Finalize(next, reason)

Start(active) ==
    LET next == [Listening EXCEPT !.active = active]
    IN IF active.count >= MaxActiveFrames THEN Finalize(next, "limit") ELSE Nothing(next)

\* push after a split: speech goes on at once, with the overlap.
AfterSplit(d, frame, speech) ==
    IF speech
    THEN Start([NoActive EXCEPT
                  !.frames = Append(d.overlap, frame),
                  !.overlap = Len(d.overlap),
                  !.count = 1])
    ELSE Nothing(WithPreRoll([d EXCEPT !.overlap = <<>>], <<frame>>))

SpeechIn(opening) == Cardinality({i \in DOMAIN opening : opening[i].speech})
FramesIn(opening) == [i \in DOMAIN opening |-> opening[i].frame]

\* push while speech may be about to start.  The oldest frame leaves a full
\* window: silence becomes pre-roll, speech is dropped.
Opening(d, frame, speech) ==
    LET full == Len(d.opening) >= OpeningWindow
        oldest == Head(d.opening)
        kept == IF full THEN Tail(d.opening) ELSE d.opening
        before == IF full /\ ~oldest.speech THEN WithPreRoll(d, <<oldest.frame>>) ELSE d
        opening == Append(kept, [frame |-> frame, speech |-> speech])
        count == SpeechIn(opening)
        frames == FramesIn(opening)
    IN IF count >= MinSpeechFrames
       THEN Start([NoActive EXCEPT
                     !.frames = before.preRoll \o frames,
                     !.preRoll = Len(before.preRoll),
                     !.count = Len(opening)])
       ELSE IF count = 0
            THEN Nothing(WithPreRoll([before EXCEPT !.opening = <<>>], frames))
            ELSE Nothing([before EXCEPT !.opening = opening])

\* EndpointDetector::push
Push(d, frame, speech, silence) ==
    IF Speaking(d) THEN Continue(d, frame, speech, silence)
    ELSE IF d.overlap # <<>> THEN AfterSplit(d, frame, speech)
    ELSE IF ~speech /\ d.opening = <<>> THEN Nothing(WithPreRoll(d, <<frame>>))
    ELSE Opening(d, frame, speech)

\* split_on_speaker_change
Split(d) == IF Speaking(d) THEN Finalize(d, "speaker") ELSE Nothing(d)

\* flush, reset
Flush(d) ==
    [detector |-> Listening,
     out |-> IF Speaking(d) THEN <<Utterance(d.active, "flushed")>> ELSE <<>>]

Held(d) ==
    ToSet(d.preRoll) \cup ToSet(d.overlap) \cup ToSet(d.active.frames)
        \cup {d.opening[i].frame : i \in DOMAIN d.opening}
=============================================================================
