-------------------------- MODULE Pipeline_proofs --------------------------
(***************************************************************************)
(* For every choice of the constants, however long a session runs and      *)
(* however large MaxHeard is: what it keeps of the audio is bounded, what  *)
(* an utterance repeats is what it declares, an utterance is placed where  *)
(* its audio is, and speech is heard to its last frame.                    *)
(*                                                                         *)
(* The first part bounds what is held (IInv).  The second part says where  *)
(* everything is in time (TimeInv): which frames were told, which are held *)
(* and in which order, and where the current run of speech is.             *)
(***************************************************************************)
EXTENDS Pipeline, FiniteSetTheorems, NaturalsInduction, SequenceTheorems,
        WellFoundedInduction, TLAPS

Openings == Seq([frame : Int, speech : BOOLEAN])

Actives == [frames : Seq(Int), preRoll : Nat, overlap : Nat, count : Nat, silence : Nat]

Detectors ==
    [preRoll : Seq(Int), overlap : Seq(Int), opening : Openings, active : Actives]

\* An utterance has less than MaxActiveFrames frames beside the silence it ends
\* in, and that silence has not lasted long enough to end it.
ActiveInv(active, s) ==
    /\ active \in Actives
    /\ active.count < MaxActiveFrames + active.silence
    /\ active.silence < s
    /\ Len(active.frames) <= active.count + Most(PreRollFrames, MaxOverlapFrames)

DetectorInv(d, s) ==
    /\ d \in Detectors
    /\ Len(d.preRoll) <= PreRollFrames
    /\ Len(d.overlap) <= MaxOverlapFrames
    /\ Len(d.opening) <= OpeningWindow
    /\ ActiveInv(d.active, s)

LEMMA QuotientIsNat ==
    ASSUME NEW a \in Nat, NEW b \in Nat \ {0}
    PROVE  a \div b \in Nat
  OBVIOUS

LEMMA ProductIsNat ==
    ASSUME NEW a \in Nat, NEW b \in Nat
    PROVE  a * b \in Nat
  OBVIOUS

\* The adaptive silence is never longer than the configured one.
LEMMA SilenceForBound ==
    ASSUME NEW s \in Nat \ {0}, NEW count \in Nat
    PROVE  SilenceFor(s, count) \in Int /\ SilenceFor(s, count) <= s
<1> DEFINE preferred == Least(Most(AdaptiveSilence, MinDynamicSilence), s)
           share == AdaptiveAfter * CalibrationPercent
           calibration == Most(1, (share + 99) \div 100)
           amount == (s - preferred) * count
           drop == Least(amount \div calibration, s - MinDynamicSilence)
<1>1. preferred \in Nat /\ preferred <= s
  BY EndpointAssumption DEF Least, Most
<1>2. calibration \in Nat \ {0}
  <2>1. share \in Nat
    BY ProductIsNat, EndpointAssumption
  <2>2. (share + 99) \div 100 \in Nat
    <3> HIDE DEF share
    <3> QED BY <2>1, QuotientIsNat
  <2> QED BY <2>2 DEF Most
<1>3. amount \div calibration \in Nat
  <2>1. s - preferred \in Nat
    BY <1>1
  <2>2. amount \in Nat
    <3> HIDE DEF preferred
    <3> QED BY <2>1, ProductIsNat
  <2> HIDE DEF amount, calibration
  <2> QED BY <2>2, <1>2, QuotientIsNat
<1>4. CASE s <= MinDynamicSilence \/ preferred = s
  BY <1>4 DEF SilenceFor
<1>5. CASE ~(s <= MinDynamicSilence \/ preferred = s)
  <2>1. SilenceFor(s, count) = Most(s - drop, MinDynamicSilence)
    BY <1>5 DEF SilenceFor
  <2>2. drop \in Nat
    <3> DEFINE quotient == amount \div calibration
    <3>1. quotient \in Nat BY <1>3
    <3> HIDE DEF quotient
    <3>2. Least(quotient, s - MinDynamicSilence) \in Nat
      BY <3>1, <1>5, EndpointAssumption DEF Least
    <3> QED BY <3>2 DEF quotient
  <2> HIDE DEF drop
  <2> QED BY <2>1, <2>2, <1>5, EndpointAssumption DEF Most
<1> QED BY <1>4, <1>5

\* What Newest keeps is a sequence of at most that length.
LEMMA NewestBound ==
    ASSUME NEW S, NEW s \in Seq(S), NEW n \in Nat
    PROVE  /\ Newest(s, n) \in Seq(S)
           /\ Len(Newest(s, n)) <= n
<1>1. Least(n, Len(s)) \in Nat /\ Least(n, Len(s)) <= n /\ Least(n, Len(s)) <= Len(s)
  BY DEF Least
<1> DEFINE m == Len(s) - Least(n, Len(s)) + 1
<1>2. m \in Int /\ m >= 1 /\ Len(s) - m + 1 <= n
  BY <1>1
<1>3. \A i \in m .. Len(s) : s[i] \in S
  BY <1>2
<1>4. Newest(s, n) = SubSeq(s, m, Len(s))
  BY DEF Newest
<1> HIDE DEF m
<1> QED BY <1>2, <1>3, <1>4, SubSeqProperties

LEMMA ListeningInv ==
    ASSUME NEW s \in Nat \ {0}
    PROVE  DetectorInv(Listening, s)
BY EndpointAssumption DEF DetectorInv, ActiveInv, Detectors, Actives, Openings,
   Listening, NoActive, Most

LEMMA FinalizeInv ==
    ASSUME NEW s \in Nat \ {0}, NEW d \in Detectors, NEW reason,
           Len(d.preRoll) <= PreRollFrames, Len(d.opening) <= OpeningWindow
    PROVE  DetectorInv(Finalize(d, reason).detector, s)
<1> DEFINE kept == IF reason \in {"limit", "speaker"}
                   THEN Least(MaxOverlapFrames, d.active.count)
                   ELSE 0
           next == [d EXCEPT !.active = NoActive,
                             !.overlap = Newest(d.active.frames, kept)]
<1>1. kept \in Nat /\ kept <= MaxOverlapFrames
  BY EndpointAssumption, SMTT(60) DEF Least, Detectors, Actives
<1>2. Finalize(d, reason).detector = next
  BY DEF Finalize
<1> HIDE DEF kept
<1>3. d.active.frames \in Seq(Int)
  BY DEF Detectors, Actives
<1>4. /\ Newest(d.active.frames, kept) \in Seq(Int)
      /\ Len(Newest(d.active.frames, kept)) <= kept
  BY <1>1, <1>3, NewestBound
<1>5. NoActive \in Actives /\ ActiveInv(NoActive, s)
  BY EndpointAssumption DEF NoActive, Actives, ActiveInv, Most
<1>6. next \in Detectors
  BY <1>4, <1>5 DEF Detectors
<1>7. /\ next.preRoll = d.preRoll /\ next.opening = d.opening
      /\ next.overlap = Newest(d.active.frames, kept) /\ next.active = NoActive
  BY DEF Detectors
<1> HIDE DEF next
<1>8. Len(next.overlap) <= MaxOverlapFrames
  BY <1>1, <1>4, <1>7, EndpointAssumption
<1> QED BY <1>2, <1>5, <1>6, <1>7, <1>8 DEF DetectorInv

\* The record with these fields is a detector that satisfies the invariant.
LEMMA WithPreRollInv ==
    ASSUME NEW s \in Nat \ {0}, NEW d, DetectorInv(d, s), NEW frames \in Seq(Int)
    PROVE  /\ DetectorInv(WithPreRoll(d, frames), s)
           /\ WithPreRoll(d, frames).active = d.active
<1> DEFINE kept == Newest(d.preRoll \o frames, PreRollFrames)
<1>1. d.preRoll \o frames \in Seq(Int)
  BY ConcatProperties DEF DetectorInv, Detectors
<1>2. kept \in Seq(Int) /\ Len(kept) <= PreRollFrames
  BY <1>1, NewestBound, EndpointAssumption
<1>3. WithPreRoll(d, frames) = [d EXCEPT !.preRoll = kept]
  BY DEF WithPreRoll
<1> HIDE DEF kept
<1> QED BY <1>2, <1>3 DEF DetectorInv, Detectors

LEMMA OpeningKept ==
    ASSUME NEW s \in Nat \ {0}, NEW d, DetectorInv(d, s),
           NEW opening \in Openings, Len(opening) <= OpeningWindow
    PROVE  DetectorInv([d EXCEPT !.opening = opening], s)
BY DEF DetectorInv, Detectors

LEMMA OverlapKept ==
    ASSUME NEW s \in Nat \ {0}, NEW d, DetectorInv(d, s),
           NEW overlap \in Seq(Int), Len(overlap) <= MaxOverlapFrames
    PROVE  DetectorInv([d EXCEPT !.overlap = overlap], s)
BY DEF DetectorInv, Detectors

\* push while speaking
LEMMA ContinueInv ==
    ASSUME NEW s \in Nat \ {0}, NEW d, DetectorInv(d, s),
           NEW frame \in Int, NEW speech \in BOOLEAN
    PROVE  DetectorInv(Continue(d, frame, speech, s).detector, s)
<1> DEFINE frames == Append(d.active.frames, frame)
           count == d.active.count + 1
           quiet == IF speech THEN 0 ELSE d.active.silence + 1
           active == [d.active EXCEPT !.frames = frames, !.count = count, !.silence = quiet]
           next == [d EXCEPT !.active = active]
           reason == EndReason(active, speech, s)
<1>1. d.active \in Actives /\ d \in Detectors
  BY DEF DetectorInv, Detectors
<1>2. /\ frames \in Seq(Int) /\ Len(frames) = Len(d.active.frames) + 1
      /\ count \in Nat /\ quiet \in Nat
  BY <1>1, AppendProperties DEF Actives
<1>3. /\ active \in Actives
      /\ active.frames = frames /\ active.count = count /\ active.silence = quiet
  <2> HIDE DEF frames, count, quiet
  <2> QED BY <1>1, <1>2 DEF Actives
<1>4. next \in Detectors /\ next.active = active /\ next.preRoll = d.preRoll
      /\ next.overlap = d.overlap /\ next.opening = d.opening
  <2> HIDE DEF active
  <2> QED BY <1>1, <1>3 DEF Detectors
<1>5. Continue(d, frame, speech, s)
        = IF reason = "none" THEN Nothing(next) ELSE Finalize(next, reason)
  BY DEF Continue
<1>6. CASE reason # "none"
  <2>1. Continue(d, frame, speech, s).detector = Finalize(next, reason).detector
    BY <1>5, <1>6
  <2> HIDE DEF next, reason
  <2> QED BY <2>1, <1>4, FinalizeInv DEF DetectorInv
<1>7. CASE reason = "none"
  <2>1. Continue(d, frame, speech, s).detector = next
    BY <1>5, <1>7 DEF Nothing
  <2>2. Len(frames) <= count + Most(PreRollFrames, MaxOverlapFrames)
    <3>1. Most(PreRollFrames, MaxOverlapFrames) \in Nat
      BY EndpointAssumption DEF Most
    <3> QED BY <1>1, <1>2, <3>1 DEF DetectorInv, ActiveInv, Actives
  <2>3. count < MaxActiveFrames + quiet /\ quiet < s
    <3>1. CASE speech
      <4>1. ~(active.count >= MaxActiveFrames)
        <5> HIDE DEF active
        <5> QED BY <1>7, <3>1 DEF EndReason
      <4> QED BY <3>1, <4>1, <1>2, <1>3, EndpointAssumption, SMTT(60)
    <3>2. CASE ~speech
      <4>1. ~(active.silence >= SilenceFor(s, active.count))
        <5> HIDE DEF active
        <5> QED BY <1>7, <3>2 DEF EndReason
      <4>2. SilenceFor(s, count) \in Int /\ SilenceFor(s, count) <= s
        BY <1>2, SilenceForBound
      <4>3. quiet < s
        <5> HIDE DEF quiet, count, active
        <5> QED BY <4>1, <4>2, <1>2, <1>3
      <4>4. count < MaxActiveFrames + quiet
        <5>1. quiet = d.active.silence + 1
          BY <3>2
        <5>2. /\ d.active.count \in Nat /\ d.active.silence \in Nat
              /\ d.active.count < MaxActiveFrames + d.active.silence
              /\ MaxActiveFrames \in Nat
          BY <1>1, EndpointAssumption DEF DetectorInv, ActiveInv, Actives
        <5> QED BY <5>1, <5>2
      <4> QED BY <4>3, <4>4
    <3> QED BY <3>1, <3>2
  <2>4. ActiveInv(active, s)
    <3> HIDE DEF frames, count, quiet, active
    <3> QED BY <1>3, <2>2, <2>3 DEF ActiveInv
  <2> HIDE DEF next, active
  <2> QED BY <2>1, <2>4, <1>4 DEF DetectorInv
<1> QED BY <1>6, <1>7

\* What begins an utterance
LEMMA StartInv ==
    ASSUME NEW s \in Nat \ {0}, NEW active \in Actives,
           active.silence = 0,
           Len(active.frames) <= active.count + Most(PreRollFrames, MaxOverlapFrames)
    PROVE  DetectorInv(Start(active).detector, s)
<1> DEFINE next == [Listening EXCEPT !.active = active]
<1>1. Listening \in Detectors /\ Listening.preRoll = <<>> /\ Listening.opening = <<>>
      /\ Listening.overlap = <<>>
  BY EndpointAssumption DEF Listening, NoActive, Detectors, Actives, Openings
<1>2. next \in Detectors /\ next.active = active /\ next.preRoll = <<>>
      /\ next.overlap = <<>> /\ next.opening = <<>>
  BY <1>1 DEF Detectors
<1>3. Start(active) = IF active.count >= MaxActiveFrames
                      THEN Finalize(next, "limit") ELSE Nothing(next)
  BY DEF Start
<1> HIDE DEF next
<1>4. Len(next.preRoll) <= PreRollFrames /\ Len(next.opening) <= OpeningWindow
      /\ Len(next.overlap) <= MaxOverlapFrames
  BY <1>2, EndpointAssumption
<1>5. CASE active.count >= MaxActiveFrames
  BY <1>2, <1>3, <1>4, <1>5, FinalizeInv
<1>6. CASE ~(active.count >= MaxActiveFrames)
  <2>1. Start(active).detector = next
    BY <1>3, <1>6 DEF Nothing
  <2>2. ActiveInv(active, s)
    BY <1>6, EndpointAssumption DEF ActiveInv, Actives
  <2> QED BY <2>1, <2>2, <1>2, <1>4 DEF DetectorInv
<1> QED BY <1>5, <1>6

\* push after a split
LEMMA AfterSplitInv ==
    ASSUME NEW s \in Nat \ {0}, NEW d, DetectorInv(d, s),
           NEW frame \in Int, NEW speech \in BOOLEAN
    PROVE  DetectorInv(AfterSplit(d, frame, speech).detector, s)
<1> DEFINE frames == Append(d.overlap, frame)
           overlap == Len(d.overlap)
           active == [NoActive EXCEPT !.frames = frames, !.overlap = overlap, !.count = 1]
           cleared == [d EXCEPT !.overlap = <<>>]
<1>1. d.overlap \in Seq(Int) /\ Len(d.overlap) <= MaxOverlapFrames /\ d \in Detectors
  BY DEF DetectorInv, Detectors
<1>2. frames \in Seq(Int) /\ Len(frames) = Len(d.overlap) + 1
  BY <1>1, AppendProperties
<1>3. CASE speech
  <2>1. NoActive \in Actives /\ NoActive.silence = 0
    BY DEF NoActive, Actives
  <2>2. active \in Actives /\ active.silence = 0 /\ active.frames = frames
        /\ active.count = 1
    <3>1. overlap \in Nat BY <1>1
    <3> HIDE DEF frames, overlap
    <3> QED BY <2>1, <3>1, <1>2 DEF Actives
  <2>3. Len(frames) <= 1 + Most(PreRollFrames, MaxOverlapFrames)
    BY <1>1, <1>2, EndpointAssumption, SMTT(60) DEF Most
  <2>4. AfterSplit(d, frame, speech) = Start(active)
    BY <1>3 DEF AfterSplit
  <2> HIDE DEF active, frames
  <2> QED BY <2>2, <2>3, <2>4, StartInv
<1>4. CASE ~speech
  <2>1. AfterSplit(d, frame, speech).detector = WithPreRoll(cleared, <<frame>>)
    BY <1>4 DEF AfterSplit, Nothing
  <2>2. DetectorInv(cleared, s)
    <3>1. <<>> \in Seq(Int) /\ Len(<<>>) <= MaxOverlapFrames
      BY EndpointAssumption
    <3> QED BY <3>1, OverlapKept
  <2>3. <<frame>> \in Seq(Int)
    OBVIOUS
  <2> HIDE DEF cleared
  <2> QED BY <2>1, <2>2, <2>3, WithPreRollInv
<1> QED BY <1>3, <1>4

\* push while speech may be about to start
LEMMA OpeningInv ==
    ASSUME NEW s \in Nat \ {0}, NEW d, DetectorInv(d, s),
           NEW frame \in Int, NEW speech \in BOOLEAN
    PROVE  DetectorInv(Opening(d, frame, speech).detector, s)
<1> DEFINE full == Len(d.opening) >= OpeningWindow
           oldest == Head(d.opening)
           kept == IF full THEN Tail(d.opening) ELSE d.opening
           before == IF full /\ ~oldest.speech
                     THEN WithPreRoll(d, <<oldest.frame>>) ELSE d
           opening == Append(kept, [frame |-> frame, speech |-> speech])
           count == SpeechIn(opening)
           frames == FramesIn(opening)
           active == [NoActive EXCEPT !.frames = before.preRoll \o frames,
                                      !.preRoll = Len(before.preRoll),
                                      !.count = Len(opening)]
           cleared == [before EXCEPT !.opening = <<>>]
           waiting == [before EXCEPT !.opening = opening]
<1>1. /\ d.opening \in Openings /\ Len(d.opening) <= OpeningWindow
      /\ OpeningWindow \in Nat \ {0}
  BY EndpointAssumption DEF DetectorInv, Detectors
<1>2. full => d.opening # <<>>
  BY <1>1, EmptySeq DEF Openings
<1>3. kept \in Openings /\ Len(kept) < OpeningWindow
  <2>1. CASE full
    BY <2>1, <1>1, <1>2, HeadTailProperties DEF Openings
  <2>2. CASE ~full
    BY <2>2, <1>1 DEF Openings
  <2> QED BY <2>1, <2>2
<1>4. opening \in Openings /\ Len(opening) <= OpeningWindow /\ Len(opening) = Len(kept) + 1
  <2> HIDE DEF kept
  <2> QED BY <1>1, <1>3, AppendProperties DEF Openings
<1>5. DetectorInv(before, s)
  <2>1. CASE full /\ ~oldest.speech
    <3>1. oldest \in [frame : Int, speech : BOOLEAN]
      BY <2>1, <1>1, <1>2, HeadTailProperties DEF Openings
    <3>2. <<oldest.frame>> \in Seq(Int)
      <4> HIDE DEF oldest
      <4> QED BY <3>1
    <3> HIDE DEF oldest
    <3> QED BY <2>1, <3>2, WithPreRollInv
  <2>2. CASE ~(full /\ ~oldest.speech)
    BY <2>2
  <2> QED BY <2>1, <2>2
<1>6. frames \in Seq(Int) /\ Len(frames) = Len(opening)
  <2> HIDE DEF opening
  <2>1. \A i \in 1 .. Len(opening) : opening[i].frame \in Int
    <3>1. \A i \in 1 .. Len(opening) : opening[i] \in [frame : Int, speech : BOOLEAN]
      BY <1>4, ElementOfSeq DEF Openings
    <3> QED BY <3>1
  <2>2. frames = [i \in 1 .. Len(opening) |-> opening[i].frame]
    BY <1>4, LenProperties DEF FramesIn, Openings
  <2>3. Len(opening) \in Nat
    BY <1>4 DEF Openings
  <2> DEFINE n == Len(opening)
  <2>4. frames = [i \in 1 .. n |-> opening[i].frame]
    BY <2>2
  <2> HIDE DEF n, frames
  <2> QED BY <2>1, <2>2, <2>3, IsASeq DEF n
<1> HIDE DEF before, opening, frames
<1>7. before \in Detectors /\ before.preRoll \in Seq(Int)
      /\ Len(before.preRoll) <= PreRollFrames
  BY <1>5 DEF DetectorInv, Detectors
<1>8. Opening(d, frame, speech)
        = IF count >= MinSpeechFrames THEN Start(active)
          ELSE IF count = 0 THEN Nothing(WithPreRoll(cleared, frames))
          ELSE Nothing(waiting)
  BY DEF Opening, before, opening, frames
<1>9. DetectorInv(Start(active).detector, s)
  <2> DEFINE all == before.preRoll \o frames
             preRoll == Len(before.preRoll)
             length == Len(opening)
  <2>1. all \in Seq(Int) /\ Len(all) = preRoll + length
    <3>1. all \in Seq(Int) /\ Len(all) = Len(before.preRoll) + Len(frames)
      BY <1>6, <1>7, ConcatProperties
    <3> HIDE DEF all
    <3> QED BY <3>1, <1>6
  <2>2. preRoll \in Nat /\ length \in Nat
    BY <1>4, <1>7 DEF Openings
  <2>3. NoActive \in Actives /\ NoActive.silence = 0
    BY DEF NoActive, Actives
  <2>4. active \in Actives /\ active.silence = 0 /\ active.frames = all
        /\ active.count = length
    <3> HIDE DEF all, preRoll, length
    <3> QED BY <2>1, <2>2, <2>3 DEF Actives, all, preRoll, length
  <2>5. Len(all) <= length + Most(PreRollFrames, MaxOverlapFrames)
    BY <2>1, <2>2, <1>7, EndpointAssumption, SMTT(60) DEF Most
  <2> HIDE DEF active, all, preRoll, length
  <2> QED BY <2>4, <2>5, StartInv
<1>10. DetectorInv(WithPreRoll(cleared, frames), s)
  <2>1. <<>> \in Openings /\ Len(<<>>) <= OpeningWindow
    BY <1>1 DEF Openings
  <2>2. DetectorInv(cleared, s)
    BY <2>1, <1>5, OpeningKept
  <2> HIDE DEF cleared
  <2> QED BY <2>2, <1>6, WithPreRollInv
<1>11. DetectorInv(waiting, s)
  BY <1>4, <1>5, OpeningKept
<1> HIDE DEF active, cleared, waiting, count
<1> QED BY <1>8, <1>9, <1>10, <1>11 DEF Nothing

\* EndpointDetector::push
LEMMA PushInv ==
    ASSUME NEW s \in Nat \ {0}, NEW d, DetectorInv(d, s),
           NEW frame \in Int, NEW speech \in BOOLEAN
    PROVE  DetectorInv(Push(d, frame, speech, s).detector, s)
<1>1. CASE Speaking(d)
  BY <1>1, ContinueInv DEF Push
<1>2. CASE ~Speaking(d) /\ d.overlap # <<>>
  BY <1>2, AfterSplitInv DEF Push
<1>3. CASE ~Speaking(d) /\ d.overlap = <<>> /\ ~speech /\ d.opening = <<>>
  <2>1. <<frame>> \in Seq(Int)
    OBVIOUS
  <2>2. Push(d, frame, speech, s).detector = WithPreRoll(d, <<frame>>)
    BY <1>3 DEF Push, Nothing
  <2> QED BY <2>1, <2>2, WithPreRollInv
<1>4. CASE ~Speaking(d) /\ d.overlap = <<>> /\ ~(~speech /\ d.opening = <<>>)
  BY <1>4, OpeningInv DEF Push
<1> QED BY <1>1, <1>2, <1>3, <1>4

\* split_on_speaker_change
LEMMA SplitInv ==
    ASSUME NEW s \in Nat \ {0}, NEW d, DetectorInv(d, s)
    PROVE  DetectorInv(Split(d).detector, s)
<1>1. CASE Speaking(d)
  BY <1>1, FinalizeInv DEF Split, DetectorInv
<1>2. CASE ~Speaking(d)
  BY <1>2 DEF Split, Nothing
<1> QED BY <1>1, <1>2

-----------------------------------------------------------------------------
(* The fixed window *)

Windows ==
    [samples : Seq(Int), preRoll : Seq(Int), open : BOOLEAN, quiet : Nat, overlap : Nat,
     activity : BOOLEAN, emitted : BOOLEAN, opening : Nat, adaptive : BOOLEAN,
     expanded : BOOLEAN, sparse : Nat, dense : Nat, streamOpen : BOOLEAN, idle : Nat]

WindowInv(w) ==
    /\ w \in Windows
    /\ Len(w.samples) < ExpandedWindow
    /\ Len(w.preRoll) <= WindowPreRoll
    /\ ~w.open => w.samples = <<>>

LEMMA WindowSizes ==
    ASSUME NEW w \in Windows
    PROVE  Required(w) \in Nat \ {0} /\ Required(w) <= ExpandedWindow
BY WindowAssumption, SMTT(60) DEF Required, CurrentWindow, Windows

LEMMA WithoutBound ==
    ASSUME NEW S, NEW s \in Seq(S), NEW n \in Nat
    PROVE  /\ Without(s, n) \in Seq(S)
           /\ Len(Without(s, n)) = IF n <= Len(s) THEN Len(s) - n ELSE 0
<1>1. \A i \in n + 1 .. Len(s) : s[i] \in S
  OBVIOUS
<1>2. n + 1 \in Int /\ Len(s) \in Nat
  OBVIOUS
<1> QED BY <1>1, <1>2, SubSeqProperties DEF Without

LEMMA NewestFramesBound ==
    ASSUME NEW S, NEW s \in Seq(S), NEW n \in Nat
    PROVE  /\ NewestFrames(s, n) \in Seq(S)
           /\ Len(NewestFrames(s, n)) <= n
<1>1. NewestFrames(s, n) = Newest(s, n)
  BY DEF NewestFrames, Newest, Smaller, Least
<1> QED BY <1>1, NewestBound

LEMMA ClosedInv ==
    ASSUME NEW w \in Windows, NEW idle \in Nat
    PROVE  WindowInv(Closed(w, idle))
<1> DEFINE none == <<>>
           closed == [w EXCEPT !.samples = none, !.preRoll = none, !.open = FALSE,
                               !.quiet = 0, !.overlap = 0, !.activity = FALSE,
                               !.emitted = FALSE, !.opening = 0, !.idle = idle]
<1>1. Closed(w, idle) = closed
  BY DEF Closed
<1>2. none \in Seq(Int) /\ Len(none) = 0
  OBVIOUS
<1> HIDE DEF none
<1>3. closed \in Windows
  BY <1>2 DEF Windows
<1>4. closed.samples = none /\ closed.preRoll = none
  BY DEF Windows
<1> HIDE DEF closed
<1> QED BY <1>1, <1>2, <1>3, <1>4, EmptySeq, WindowAssumption DEF WindowInv

\* A full window leaves less than its own length behind.
LEMMA TakeWindowInv ==
    ASSUME NEW w \in Windows, w.open, Len(w.samples) <= ExpandedWindow,
           Len(w.samples) >= Required(w), Len(w.preRoll) <= WindowPreRoll
    PROVE  WindowInv(TakeWindow(w).window)
<1> DEFINE length == Required(w)
           share == (IF w.emitted THEN CurrentWindow(w) ELSE WindowFrames) - HopFrames
           overlap == Smaller(share, length - 1)
           left == Without(w.samples, length - overlap)
           next == [w EXCEPT !.samples = left, !.overlap = overlap, !.activity = FALSE,
                             !.emitted = TRUE]
<1>1. length \in Nat \ {0} /\ w.samples \in Seq(Int)
  BY WindowSizes DEF Windows
<1>2. share \in Nat
  BY WindowAssumption DEF CurrentWindow
<1>3. overlap \in Nat /\ overlap < length
  <2> HIDE DEF length, share
  <2> QED BY <1>1, <1>2 DEF Smaller
<1>4. length - overlap \in Nat \ {0}
  BY <1>1, <1>3
<1>5. left \in Seq(Int) /\ Len(left) < ExpandedWindow
  <2> DEFINE done == length - overlap
  <2>1. done \in Nat \ {0} /\ done <= Len(w.samples) /\ Len(w.samples) \in Nat
    BY <1>1, <1>3, <1>4
  <2> HIDE DEF done, length, overlap
  <2>2. left = Without(w.samples, done)
    BY DEF done
  <2> HIDE DEF left
  <2>3. left \in Seq(Int) /\ Len(left) = Len(w.samples) - done
    BY <1>1, <2>1, <2>2, WithoutBound
  <2> QED BY <2>1, <2>3, WindowAssumption
<1>6. TakeWindow(w).window = next
  BY DEF TakeWindow
<1> HIDE DEF left, overlap
<1>7. next \in Windows
  BY <1>3, <1>5 DEF Windows
<1>8. next.samples = left /\ next.preRoll = w.preRoll /\ next.open = w.open
  BY DEF Windows
<1> HIDE DEF next
<1> QED BY <1>5, <1>6, <1>7, <1>8 DEF WindowInv

LEMMA EmitInv ==
    ASSUME NEW w \in Windows, w.open, Len(w.samples) <= ExpandedWindow,
           Len(w.preRoll) <= WindowPreRoll
    PROVE  WindowInv(Emit(w).window)
<1>1. Len(w.samples) \in Nat /\ Required(w) \in Nat \ {0} /\ Required(w) <= ExpandedWindow
  BY WindowSizes DEF Windows
<1>2. CASE Len(w.samples) >= Required(w)
  BY <1>2, TakeWindowInv DEF Emit
<1>3. CASE ~(Len(w.samples) >= Required(w)) /\ w.quiet >= ReleaseFrames
  <2>1. Emit(w).window = Closed(w, w.quiet)
    BY <1>3 DEF Emit, CloseGate
  <2> QED BY <2>1, ClosedInv DEF Windows
<1>4. CASE ~(Len(w.samples) >= Required(w)) /\ ~(w.quiet >= ReleaseFrames)
  <2>1. Emit(w).window = w
    BY <1>4 DEF Emit, Quietly
  <2>2. Len(w.samples) < ExpandedWindow
    BY <1>1, <1>4, WindowAssumption
  <2> QED BY <2>1, <2>2 DEF WindowInv
<1> QED BY <1>2, <1>3, <1>4

LEMMA IdleInv ==
    ASSUME NEW w, WindowInv(w), ~w.open
    PROVE  WindowInv(Idle(w).window)
<1>1. w \in Windows
  BY DEF WindowInv
<1> DEFINE idle == IF w.streamOpen THEN w.idle + 1 ELSE w.idle
           waits == [w EXCEPT !.opening = 0, !.idle = idle]
           ends == [w EXCEPT !.opening = 0, !.streamOpen = FALSE, !.idle = 0]
<1>2. idle \in Nat
  BY <1>1 DEF Windows
<1>3. Idle(w).window = ends \/ Idle(w).window = waits
  BY DEF Idle, Quietly
<1>4. WindowInv(ends)
  BY <1>1 DEF WindowInv, Windows
<1>5. WindowInv(waits)
  <2> HIDE DEF idle
  <2> QED BY <1>1, <1>2 DEF WindowInv, Windows
<1> QED BY <1>3, <1>4, <1>5

LEMMA KnockInv ==
    ASSUME NEW w, WindowInv(w), ~w.open
    PROVE  WindowInv(Knock(w).window)
<1> DEFINE opening == w.opening + 1
           none == <<>>
           samples == w.samples \o w.preRoll
           waits == [w EXCEPT !.opening = opening]
           opens == [w EXCEPT !.opening = opening, !.open = TRUE, !.streamOpen = TRUE,
                              !.idle = 0, !.quiet = 0, !.activity = TRUE,
                              !.samples = samples, !.preRoll = none]
<1>1. w \in Windows /\ opening \in Nat
  BY DEF WindowInv, Windows
<1>2. samples \in Seq(Int) /\ Len(samples) <= ExpandedWindow
  <2>1. w.samples \in Seq(Int) /\ w.preRoll \in Seq(Int)
    BY <1>1 DEF Windows
  <2>2. samples \in Seq(Int) /\ Len(samples) = Len(w.samples) + Len(w.preRoll)
    BY <2>1, ConcatProperties
  <2>3. Len(w.samples) = 0 /\ Len(w.preRoll) <= WindowPreRoll
    BY DEF WindowInv
  <2> HIDE DEF samples
  <2> QED BY <2>1, <2>2, <2>3, WindowAssumption
<1>3. CASE opening < OpeningFrames
  <2>1. Knock(w).window = waits
    BY <1>3 DEF Knock, Quietly
  <2> HIDE DEF opening
  <2>2. WindowInv(waits)
    BY <1>1 DEF WindowInv, Windows
  <2> QED BY <2>1, <2>2
<1>4. CASE ~(opening < OpeningFrames)
  <2>1. Knock(w) = Emit(opens)
    BY <1>4 DEF Knock
  <2>5. none \in Seq(Int) /\ Len(none) = 0
    OBVIOUS
  <2> HIDE DEF opening, samples, none
  <2>2. opens \in Windows
    BY <1>1, <1>2, <2>5 DEF Windows
  <2>3. opens.open /\ opens.samples = samples /\ opens.preRoll = none
    BY <1>1 DEF Windows
  <2>4. Len(opens.preRoll) <= WindowPreRoll
    BY <2>3, <2>5, WindowAssumption
  <2> HIDE DEF opens
  <2> QED BY <1>2, <2>1, <2>2, <2>3, <2>4, EmitInv
<1> QED BY <1>3, <1>4

LEMMA PushWindowInv ==
    ASSUME NEW w, WindowInv(w), NEW frame \in Int, NEW active \in BOOLEAN
    PROVE  WindowInv(PushWindow(w, frame, active).window)
<1> DEFINE preRoll == NewestFrames(Append(w.preRoll, frame), WindowPreRoll)
           kept == [w EXCEPT !.preRoll = preRoll]
           samples == Append(w.samples, frame)
           quiet == IF active THEN 0 ELSE w.quiet + 1
           activity == w.activity \/ active
           grown == [w EXCEPT !.samples = samples, !.quiet = quiet, !.activity = activity]
<1>1. w \in Windows /\ w.preRoll \in Seq(Int) /\ w.samples \in Seq(Int)
  BY DEF WindowInv, Windows
<1>2. CASE ~w.open
  <2>1. Append(w.preRoll, frame) \in Seq(Int)
    BY <1>1, AppendProperties
  <2>2. preRoll \in Seq(Int) /\ Len(preRoll) <= WindowPreRoll
    BY <2>1, NewestFramesBound, WindowAssumption
  <2>3. PushWindow(w, frame, active) = IF active THEN Knock(kept) ELSE Idle(kept)
    BY <1>2 DEF PushWindow
  <2> HIDE DEF preRoll
  <2>4. WindowInv(kept) /\ ~kept.open
    BY <1>1, <1>2, <2>2 DEF WindowInv, Windows
  <2> HIDE DEF kept
  <2> QED BY <2>3, <2>4, KnockInv, IdleInv
<1>3. CASE w.open
  <2>1. PushWindow(w, frame, active) = Emit(grown)
    BY <1>3 DEF PushWindow
  <2>2. samples \in Seq(Int) /\ Len(samples) = Len(w.samples) + 1
    BY <1>1, AppendProperties
  <2>3. quiet \in Nat /\ activity \in BOOLEAN
    BY <1>1 DEF Windows
  <2> HIDE DEF samples, quiet, activity
  <2>4. grown \in Windows
    BY <1>1, <2>2, <2>3 DEF Windows
  <2>5. grown.open /\ grown.samples = samples /\ grown.preRoll = w.preRoll
    BY <1>1, <1>3 DEF Windows
  <2>6. Len(w.samples) < ExpandedWindow /\ Len(w.preRoll) <= WindowPreRoll
        /\ Len(w.samples) \in Nat
    BY <1>1 DEF WindowInv
  <2>7. Len(samples) <= ExpandedWindow
    BY <2>2, <2>6, WindowAssumption
  <2> HIDE DEF grown
  <2> QED BY <2>1, <2>4, <2>5, <2>6, <2>7, EmitInv
<1> QED BY <1>2, <1>3

LEMMA ShrunkInv ==
    ASSUME NEW w, WindowInv(w)
    PROVE  WindowInv(Shrunk(w))
<1> DEFINE excess == IF w.overlap > WindowFrames - HopFrames
                     THEN w.overlap - (WindowFrames - HopFrames) ELSE 0
           samples == Without(w.samples, excess)
           overlap == w.overlap - excess
           next == [w EXCEPT !.expanded = FALSE, !.samples = samples, !.overlap = overlap]
<1>1. w \in Windows /\ w.samples \in Seq(Int) /\ w.overlap \in Nat
  BY DEF WindowInv, Windows
<1>2. excess \in Nat /\ overlap \in Nat
  BY <1>1, WindowAssumption, SMTT(60)
<1>3. samples \in Seq(Int) /\ Len(samples) <= Len(w.samples)
  <2> HIDE DEF excess
  <2>1. samples \in Seq(Int)
        /\ Len(samples) = IF excess <= Len(w.samples) THEN Len(w.samples) - excess ELSE 0
    BY <1>1, <1>2, WithoutBound
  <2> HIDE DEF samples
  <2> QED BY <1>1, <1>2, <2>1
<1>4. w.samples = <<>> => samples = <<>>
  <2> HIDE DEF samples
  <2> QED BY <1>1, <1>3, EmptySeq
<1>5. Shrunk(w) = next
  BY DEF Shrunk
<1> HIDE DEF samples, overlap
<1>6. next \in Windows
  BY <1>1, <1>2, <1>3 DEF Windows
<1>7. next.samples = samples /\ next.preRoll = w.preRoll /\ next.open = w.open
  BY <1>1 DEF Windows
<1>8. Len(samples) < ExpandedWindow
  <2> DEFINE n == Len(samples)
             l == Len(w.samples)
  <2>1. n \in Nat /\ l \in Nat /\ n <= l
    BY <1>1, <1>3
  <2>2. l < ExpandedWindow
    BY DEF WindowInv
  <2>3. ExpandedWindow \in Nat
    BY WindowAssumption
  <2> HIDE DEF n, l
  <2>4. n < ExpandedWindow
    BY <2>1, <2>2, <2>3
  <2> QED BY <2>4 DEF n
<1> HIDE DEF next
<1> QED BY <1>4, <1>5, <1>6, <1>7, <1>8 DEF WindowInv

LEMMA ObserveInv ==
    ASSUME NEW w, WindowInv(w), NEW density
    PROVE  WindowInv(Observe(w, density))
<1> DEFINE sparse == IF density = "sparse" THEN Smaller(w.sparse + 1, 2) ELSE 0
           dense == IF density = "dense" THEN Smaller(w.dense + 1, 2) ELSE 0
           counted == [w EXCEPT !.sparse = sparse, !.dense = dense]
           grown == [counted EXCEPT !.expanded = TRUE]
<1>1. w \in Windows
  BY DEF WindowInv
<1>2. sparse \in Nat /\ dense \in Nat
  BY <1>1 DEF Windows, Smaller
<1>3. Observe(w, density) \in {w, grown, Shrunk(counted), counted}
  BY <1>1 DEF Observe, Windows
<1> HIDE DEF sparse, dense
<1>4. WindowInv(counted)
  BY <1>1, <1>2 DEF WindowInv, Windows
<1> HIDE DEF counted
<1>5. WindowInv(grown)
  BY <1>4 DEF WindowInv, Windows
<1> QED BY <1>3, <1>4, <1>5, ShrunkInv

LEMMA FlushWindowInv ==
    ASSUME NEW w, WindowInv(w)
    PROVE  WindowInv(FlushWindow(w).window) /\ WindowInv(ResetWindow(w))
<1> DEFINE closed == Closed(w, 0)
           reset == [closed EXCEPT !.streamOpen = FALSE]
           none == <<>>
           cleared == [w EXCEPT !.preRoll = none]
<1>1. w \in Windows
  BY DEF WindowInv
<1>2. WindowInv(closed)
  BY <1>1, ClosedInv
<1>3. ResetWindow(w) = reset
  BY DEF ResetWindow
<1>4. FlushWindow(w).window \in {cleared, ResetWindow(w)}
  BY DEF FlushWindow, Quietly
<1>5. WindowInv(cleared)
  <2>1. none \in Seq(Int) /\ Len(none) <= WindowPreRoll
    BY WindowAssumption
  <2> HIDE DEF none
  <2> QED BY <1>1, <2>1 DEF WindowInv, Windows
<1> HIDE DEF closed
<1>6. WindowInv(reset)
  BY <1>2 DEF WindowInv, Windows
<1> QED BY <1>3, <1>4, <1>5, <1>6

LEMMA NewWindowInv ==
    ASSUME NEW adaptive \in BOOLEAN
    PROVE  WindowInv(NewWindow(adaptive))
BY WindowAssumption DEF NewWindow, WindowInv, Windows

-----------------------------------------------------------------------------
(* The pipeline *)

PastShape ==
    /\ past = [received |-> past.received, emitted |-> past.emitted,
               run |-> past.run, owed |-> past.owed]
    /\ past.received \in Nat

IInv ==
    /\ silence \in Nat \ {0}
    /\ pending \in Nat
    /\ PastShape
    /\ DetectorInv(detector, silence)
    /\ WindowInv(window)

LEMMA PastKeepsShape ==
    ASSUME NEW received \in Nat, NEW frame, NEW speech, NEW events, NEW forgiven,
           past' = Past(received, frame, speech, events, forgiven)
    PROVE  PastShape'
BY DEF Past, PastShape

THEOREM Invariance == Spec => []IInv
<1>1. Init => IInv
  <2> SUFFICES ASSUME Init PROVE IInv
    OBVIOUS
  <2>1. silence \in Nat \ {0} /\ pending \in Nat
    BY PipelineAssumption DEF Init, ValidSilence
  <2>2. PastShape
    BY DEF Init, PastShape, Nought
  <2>3. DetectorInv(detector, silence)
    BY <2>1, ListeningInv DEF Init
  <2>4. WindowInv(window)
    BY NewWindowInv DEF Init
  <2> QED BY <2>1, <2>2, <2>3, <2>4 DEF IInv
<1>2. IInv /\ [Next]_vars => IInv'
  <2> SUFFICES ASSUME IInv, [Next]_vars PROVE IInv'
    OBVIOUS
  <2>1. past.received - pending \in Int
    BY DEF IInv, PastShape
  <2> DEFINE frame == past.received - pending
  <2>2. CASE PushPcm
    <3> PICK halves \in 1..2 :
          \/ PushPart(halves)
          \/ \E speech, cut \in BOOLEAN : PushEndpoint(halves, speech, cut)
          \/ \E active \in BOOLEAN : PushFixedWindow(halves, active)
      BY <2>2 DEF PushPcm
    <3>1. CASE PushPart(halves)
      <4>1. PastShape'
        <5> DEFINE received == past.received + halves
        <5>1. past' = [past EXCEPT !.received = received]
          BY <3>1 DEF PushPart
        <5>2. received \in Nat
          BY DEF IInv, PastShape
        <5> HIDE DEF received
        <5> QED BY <5>1, <5>2 DEF IInv, PastShape
      <4>2. pending' \in Nat
        BY <3>1 DEF PushPart, IInv
      <4> QED BY <3>1, <4>1, <4>2 DEF PushPart, IInv
    <3>2. ASSUME NEW speech \in BOOLEAN, NEW cut \in BOOLEAN,
                 PushEndpoint(halves, speech, cut)
          PROVE  IInv'
      <4> DEFINE split == IF cut THEN Split(detector) ELSE Nothing(detector)
      <4>1. DetectorInv(split.detector, silence)
        BY SplitInv DEF IInv, Nothing
      <4>2. detector' = Push(split.detector, frame, speech, silence).detector
        BY <3>2 DEF PushEndpoint
      <4> HIDE DEF split, frame
      <4>3. DetectorInv(detector', silence)
        BY <2>1, <4>1, <4>2, PushInv DEF IInv, frame
      <4>4. PastShape'
        <5>1. past.received + halves \in Nat
          BY DEF IInv, PastShape
        <5> QED BY <3>2, <5>1, PastKeepsShape DEF PushEndpoint
      <4>5. pending' \in Nat /\ silence' = silence /\ window' = window
        <5>1. pending + halves >= 2 /\ pending' = pending + halves - 2
              /\ UNCHANGED <<silence, window>>
          BY <3>2 DEF PushEndpoint
        <5> QED BY <5>1 DEF IInv
      <4> QED BY <4>3, <4>4, <4>5 DEF IInv
    <3>3. ASSUME NEW active \in BOOLEAN, PushFixedWindow(halves, active)
          PROVE  IInv'
      <4>1. window' = PushWindow(window, frame, active).window
        BY <3>3 DEF PushFixedWindow
      <4> HIDE DEF frame
      <4>2. WindowInv(window')
        BY <2>1, <4>1, PushWindowInv DEF IInv, frame
      <4>3. PastShape'
        <5>1. past.received + halves \in Nat
          BY DEF IInv, PastShape
        <5> QED BY <3>3, <5>1, PastKeepsShape DEF PushFixedWindow
      <4>4. pending' \in Nat /\ silence' = silence /\ detector' = detector
        <5>1. pending + halves >= 2 /\ pending' = pending + halves - 2
              /\ UNCHANGED <<silence, detector>>
          BY <3>3 DEF PushFixedWindow
        <5> QED BY <5>1 DEF IInv
      <4> QED BY <4>2, <4>3, <4>4 DEF IInv
    <3> QED BY <3>1, <3>2, <3>3
  <2>3. ASSUME NEW speech \in BOOLEAN, FlushEndpoint(speech)
        PROVE  IInv'
    <3> DEFINE pushed == IF pending > 0 THEN Push(detector, frame, speech, silence)
                                        ELSE Nothing(detector)
               flushed == IF pushed.out # <<>> THEN pushed ELSE Flush(pushed.detector)
    <3>1. DetectorInv(pushed.detector, silence)
      <4> HIDE DEF frame
      <4> QED BY <2>1, PushInv DEF IInv, Nothing, frame
    <3>2. detector' = flushed.detector
      BY <2>3 DEF FlushEndpoint
    <3>3. DetectorInv(detector', silence)
      <4> HIDE DEF pushed
      <4>1. flushed.detector = pushed.detector \/ flushed.detector = Listening
        BY DEF Flush
      <4> QED BY <3>1, <3>2, <4>1, ListeningInv DEF IInv
    <3>4. PastShape'
      <4>1. PICK events, padded :
              past' = [Past(past.received, frame, padded, events, {}) EXCEPT !.run = 0]
        BY <2>3 DEF FlushEndpoint
      <4> QED BY <4>1 DEF Past, PastShape, IInv
    <3>5. pending' = 0 /\ UNCHANGED <<silence, window>>
      BY <2>3 DEF FlushEndpoint
    <3> QED BY <3>3, <3>4, <3>5 DEF IInv
  <2>4. CASE FlushFixedWindow
    <3>1. WindowInv(window')
      BY <2>4, FlushWindowInv DEF FlushFixedWindow, IInv
    <3>2. PastShape'
      <4>1. PICK emitted, owed :
              past' = [past EXCEPT !.run = 0, !.emitted = emitted, !.owed = owed]
        BY <2>4 DEF FlushFixedWindow
      <4> QED BY <4>1 DEF PastShape, IInv
    <3>3. UNCHANGED <<silence, pending, detector>>
      BY <2>4 DEF FlushFixedWindow
    <3> QED BY <3>1, <3>2, <3>3 DEF IInv
  <2>5. Cleared => PastShape' /\ pending' \in Nat /\ detector' = Listening
    BY DEF Cleared, PastShape, Nought
  <2>6. CASE Reroute
    <3>1. WindowInv(window')
      BY <2>6, FlushWindowInv DEF Reroute, IInv
    <3>2. DetectorInv(detector', silence)
      BY <2>5, <2>6, ListeningInv DEF Reroute, IInv
    <3> QED BY <2>5, <2>6, <3>1, <3>2 DEF Reroute, IInv
  <2>7. ASSUME NEW chosen \in SilenceChoices, NEW newMode \in Modes,
               NEW adaptive \in BOOLEAN,
               ConfigureSegmentation(chosen, newMode, adaptive)
        PROVE  IInv'
    <3>1. CASE ValidSilence(chosen)
      <4>1. silence' \in Nat \ {0}
        BY <2>7, <3>1, PipelineAssumption DEF ConfigureSegmentation, ValidSilence
      <4>2. DetectorInv(detector', silence')
        BY <2>5, <2>7, <3>1, <4>1, ListeningInv DEF ConfigureSegmentation
      <4>3. WindowInv(window')
        BY <2>7, <3>1, NewWindowInv DEF ConfigureSegmentation
      <4> QED BY <2>5, <2>7, <3>1, <4>1, <4>2, <4>3 DEF ConfigureSegmentation, IInv
    <3>2. CASE ~ValidSilence(chosen)
      BY <2>7, <3>2 DEF ConfigureSegmentation, IInv, PastShape
    <3> QED BY <3>1, <3>2
  <2>8. ASSUME NEW density \in Densities, ObserveTextDensity(density)
        PROVE  IInv'
    <3>1. WindowInv(window')
      BY <2>8, ObserveInv DEF ObserveTextDensity, IInv
    <3> QED BY <2>8, <3>1 DEF ObserveTextDensity, IInv, PastShape
  <2>9. CASE DropWindow
    BY <2>9 DEF DropWindow, IInv, PastShape
  <2>10. CASE UNCHANGED vars
    BY <2>10 DEF vars, IInv, PastShape
  <2> QED BY <2>2, <2>3, <2>4, <2>6, <2>7, <2>8, <2>9, <2>10 DEF Next
<1> QED BY <1>1, <1>2, PTL DEF Spec

\* The audio a session holds is bounded, whatever is said and however long: the
\* utterance by the configured limit and a silence, the window by its largest
\* size (vad lib.rs 599, pipeline.rs 264-276).
THEOREM MemoryStaysBounded == Spec => []MemoryIsBounded
<1>1. IInv => MemoryIsBounded
  <2> SUFFICES ASSUME IInv PROVE MemoryIsBounded
    OBVIOUS
  <2>1. detector.active.count < MaxActiveFrames + silence - 1
    <3>1. /\ detector.active.count \in Nat /\ detector.active.silence \in Nat
          /\ detector.active.count < MaxActiveFrames + detector.active.silence
          /\ detector.active.silence < silence /\ silence \in Nat
      BY DEF IInv, DetectorInv, ActiveInv, Actives
    <3> QED BY <3>1, EndpointAssumption
  <2>2. Len(detector.active.frames)
          <= detector.active.count + Most(PreRollFrames, MaxOverlapFrames)
    BY DEF IInv, DetectorInv, ActiveInv
  <2>3. Len(detector.preRoll) + Len(detector.opening) <= PreRollFrames + OpeningWindow
    <3>1. /\ Len(detector.preRoll) \in Nat /\ Len(detector.opening) \in Nat
          /\ Len(detector.preRoll) <= PreRollFrames /\ Len(detector.opening) <= OpeningWindow
      BY DEF IInv, DetectorInv, Detectors, Openings
    <3>2. PreRollFrames \in Nat /\ OpeningWindow \in Nat
      BY EndpointAssumption
    <3> DEFINE before == Len(detector.preRoll)
               opening == Len(detector.opening)
    <3>3. /\ before \in Nat /\ opening \in Nat
          /\ before <= PreRollFrames /\ opening <= OpeningWindow
      BY <3>1
    <3> HIDE DEF before, opening
    <3>4. before + opening <= PreRollFrames + OpeningWindow
      BY <3>2, <3>3
    <3> QED BY <3>4 DEF before, opening
  <2>4. Len(window.samples) < ExpandedWindow
    BY DEF IInv, WindowInv
  <2> QED BY <2>1, <2>2, <2>3, <2>4 DEF MemoryIsBounded
<1> QED BY <1>1, Invariance, PTL

-----------------------------------------------------------------------------
(* Frames in time: what sequences of frames are shown to be *)

\* The frames of s go up, end before `now`, and none of them is before `first`.
Within(s, first, now) ==
    Increasing(s) /\ \A i \in DOMAIN s : first <= s[i] /\ s[i] < now

\* Of the frames s exactly the first `overlap` were emitted before: those that
\* start before `told`.
Repeats(s, overlap, told) ==
    overlap <= Len(s) /\ \A i \in DOMAIN s : s[i] < told <=> i <= overlap

\* Frames s are there to be told up to the frame before `now`.
Telling(s, overlap, now, told) ==
    /\ Len(s) > 0 /\ Increasing(s) /\ Last(s) = now - 2
    /\ Repeats(s, overlap, told)

\* A set of numbers has a least one.
LEMMA LeastNat ==
    ASSUME NEW T, T \subseteq Nat, T # {}
    PROVE  \E x \in T : \A y \in T : x <= y
<1> DEFINE R == {ss \in Nat \X Nat : ss[1] < ss[2]}
<1>1. IsWellFoundedOn(R, Nat)
  BY NatLessThanWellFounded DEF OpToRel
<1> HIDE DEF R
<1>2. PICK x \in T : \A y \in T : ~(<<y, x>> \in R)
  BY <1>1, WFMin
<1>3. ASSUME NEW y \in T PROVE x <= y
  <2>1. x \in Nat /\ y \in Nat /\ ~(y < x)
    BY <1>2 DEF R
  <2> QED BY <2>1
<1> QED BY <1>3

LEMMA Places ==
    ASSUME NEW S, NEW s \in Seq(S)
    PROVE  Len(s) \in Nat /\ DOMAIN s = 1..Len(s) /\ \A i \in 1..Len(s) : s[i] \in S
  OBVIOUS

LEMMA Appended ==
    ASSUME NEW S, NEW s \in Seq(S), NEW x \in S
    PROVE  /\ Append(s, x) \in Seq(S) /\ Len(Append(s, x)) = Len(s) + 1
           /\ DOMAIN Append(s, x) = 1..(Len(s) + 1)
           /\ \A i \in 1..Len(s) : Append(s, x)[i] = s[i]
           /\ Append(s, x)[Len(s) + 1] = x
<1>1. Append(s, x) \in Seq(S) /\ Len(Append(s, x)) = Len(s) + 1
  BY AppendProperties
<1>2. DOMAIN Append(s, x) = 1..(Len(s) + 1)
  BY <1>1, Places
<1> QED BY <1>1, <1>2, AppendProperties

LEMMA Joined ==
    ASSUME NEW S, NEW s \in Seq(S), NEW t \in Seq(S)
    PROVE  /\ s \o t \in Seq(S) /\ Len(s \o t) = Len(s) + Len(t)
           /\ DOMAIN (s \o t) = 1..(Len(s) + Len(t))
           /\ \A i \in 1..Len(s) : (s \o t)[i] = s[i]
           /\ \A i \in 1..Len(t) : (s \o t)[Len(s) + i] = t[i]
<1>1. /\ s \o t \in Seq(S) /\ Len(s \o t) = Len(s) + Len(t)
      /\ \A i \in 1..(Len(s) + Len(t)) : (s \o t)[i] = IF i <= Len(s) THEN s[i] ELSE t[i - Len(s)]
  BY ConcatProperties
<1>2. DOMAIN (s \o t) = 1..(Len(s) + Len(t))
  BY <1>1, Places
<1>3. Len(s) \in Nat /\ Len(t) \in Nat
  OBVIOUS
<1>4. ASSUME NEW i \in 1..Len(s) PROVE (s \o t)[i] = s[i]
  BY <1>1, <1>3
<1>5. ASSUME NEW i \in 1..Len(t) PROVE (s \o t)[Len(s) + i] = t[i]
  <2>1. Len(s) + i \in 1..(Len(s) + Len(t)) /\ ~(Len(s) + i <= Len(s))
        /\ (Len(s) + i) - Len(s) = i
    BY <1>3
  <2> QED BY <1>1, <2>1
<1> QED BY <1>1, <1>2, <1>4, <1>5

\* The newest n elements, or all if there are fewer
LEMMA NewestShape ==
    ASSUME NEW S, NEW s \in Seq(S), NEW n \in Nat
    PROVE  /\ Newest(s, n) \in Seq(S)
           /\ Len(Newest(s, n)) = Least(n, Len(s))
           /\ Len(s) - Least(n, Len(s)) \in Nat
           /\ \A i \in 1..Len(Newest(s, n)) :
                 Newest(s, n)[i] = s[(Len(s) - Least(n, Len(s))) + i]
<1> DEFINE l == Least(n, Len(s))
           m == Len(s) - l
<1>1. l \in Nat /\ l <= Len(s) /\ m \in Nat /\ Len(s) \in Nat
  BY DEF Least
<1>2. Newest(s, n) = SubSeq(s, m + 1, Len(s))
  BY DEF Newest
<1> HIDE DEF l
<1>3. \A i \in m + 1 .. Len(s) : s[i] \in S
  BY <1>1
<1>4. /\ SubSeq(s, m + 1, Len(s)) \in Seq(S)
      /\ Len(SubSeq(s, m + 1, Len(s))) = IF m + 1 <= Len(s) THEN Len(s) - (m + 1) + 1 ELSE 0
      /\ \A i \in 1 .. (Len(s) - (m + 1) + 1) : SubSeq(s, m + 1, Len(s))[i] = s[(m + 1) + i - 1]
  <2> DEFINE a == m + 1
             b == Len(s)
  <2>1. a \in Int /\ b \in Int /\ \A i \in a..b : s[i] \in S
    BY <1>1, <1>3
  <2> HIDE DEF a, b
  <2>2. /\ SubSeq(s, a, b) \in Seq(S)
        /\ Len(SubSeq(s, a, b)) = IF a <= b THEN b - a + 1 ELSE 0
        /\ \A i \in 1 .. (b - a + 1) : SubSeq(s, a, b)[i] = s[a + i - 1]
    BY <2>1, SubSeqProperties
  <2> QED BY <2>2 DEF a, b
<1>5. Len(Newest(s, n)) = l
  BY <1>1, <1>2, <1>4
<1>6. \A i \in 1..l : Newest(s, n)[i] = s[m + i]
  <2> TAKE i \in 1..l
  <2>1. i \in 1 .. (Len(s) - (m + 1) + 1) /\ (m + 1) + i - 1 = m + i
    BY <1>1
  <2> QED BY <1>2, <1>4, <2>1
<1> QED BY <1>1, <1>2, <1>4, <1>5, <1>6 DEF l

LEMMA WithinIndex ==
    ASSUME NEW s \in Seq(Int), NEW first, NEW now
    PROVE  Within(s, first, now) <=>
             /\ \A i, j \in 1..Len(s) : i < j => s[i] < s[j]
             /\ \A i \in 1..Len(s) : first <= s[i] /\ s[i] < now
BY Places DEF Within, Increasing

LEMMA WithinLater ==
    ASSUME NEW s \in Seq(Int), NEW first \in Int, NEW now \in Int, NEW later \in Int,
           Within(s, first, now), now <= later
    PROVE  Within(s, first, later)
BY WithinIndex, Places

LEMMA WithinNothing ==
    ASSUME NEW first, NEW now
    PROVE  Within(<<>>, first, now)
BY DEF Within, Increasing

LEMMA WithinNewest ==
    ASSUME NEW s \in Seq(Int), NEW first \in Int, NEW now \in Int, NEW n \in Nat,
           Within(s, first, now)
    PROVE  Within(Newest(s, n), first, now)
<1> DEFINE t == Newest(s, n)
           m == Len(s) - Least(n, Len(s))
<1>1. t \in Seq(Int) /\ m \in Nat /\ Len(t) = Least(n, Len(s))
      /\ \A i \in 1..Len(t) : t[i] = s[m + i]
  BY NewestShape
<1>2. Len(t) + m = Len(s) /\ Len(t) \in Nat /\ Len(s) \in Nat
  BY <1>1 DEF Least
<1> HIDE DEF t, m
<1>3. \A i \in 1..Len(t) : m + i \in 1..Len(s)
  BY <1>1, <1>2
<1>4. \A i, j \in 1..Len(t) : i < j => m + i < m + j
  BY <1>1, <1>2
<1>5. /\ \A i, j \in 1..Len(s) : i < j => s[i] < s[j]
      /\ \A i \in 1..Len(s) : first <= s[i] /\ s[i] < now
  BY WithinIndex
<1>6. \A i, j \in 1..Len(t) : i < j => t[i] < t[j]
  BY <1>1, <1>3, <1>4, <1>5
<1>7. \A i \in 1..Len(t) : first <= t[i] /\ t[i] < now
  BY <1>1, <1>3, <1>5
<1>8. Within(t, first, now)
  BY <1>1, <1>6, <1>7, WithinIndex
<1> QED BY <1>8 DEF t

LEMMA WithinAppend ==
    ASSUME NEW s \in Seq(Int), NEW first \in Int, NEW x \in Int,
           Within(s, first, x), first <= x
    PROVE  Within(Append(s, x), first, x + 2)
<1> DEFINE t == Append(s, x)
           n == Len(s)
<1>1. /\ t \in Seq(Int) /\ Len(t) = n + 1 /\ n \in Nat
      /\ \A i \in 1..n : t[i] = s[i]
      /\ t[n + 1] = x
  BY Appended
<1>2. /\ \A i, j \in 1..n : i < j => s[i] < s[j]
      /\ \A i \in 1..n : first <= s[i] /\ s[i] < x /\ s[i] \in Int
  BY WithinIndex, Places
<1> HIDE DEF t, n
<1>3. \A i \in 1..(n + 1) : i \in 1..n \/ i = n + 1
  BY <1>1
<1>4. \A i, j \in 1..(n + 1) : i < j => t[i] < t[j]
  <2> TAKE i \in 1..(n + 1), j \in 1..(n + 1)
  <2> HAVE i < j
  <2>1. i \in 1..n
    BY <1>1
  <2>2. t[i] = s[i] /\ s[i] < x
    BY <1>1, <1>2, <2>1
  <2>3. CASE j \in 1..n
    <3>1. t[j] = s[j] /\ s[i] < s[j]
      BY <1>1, <1>2, <2>1, <2>3
    <3> QED BY <2>2, <3>1
  <2>4. CASE j = n + 1
    <3>1. t[j] = x
      BY <1>1, <2>4
    <3> QED BY <2>2, <3>1
  <2>5. j \in 1..n \/ j = n + 1
    BY <1>3
  <2> QED BY <2>3, <2>4, <2>5
<1>5. \A i \in 1..(n + 1) : first <= t[i] /\ t[i] < x + 2
  <2> TAKE i \in 1..(n + 1)
  <2>1. CASE i \in 1..n
    <3>1. t[i] = s[i] /\ s[i] < x /\ first <= s[i] /\ s[i] \in Int
      BY <1>1, <1>2, <2>1
    <3> QED BY <3>1
  <2>2. CASE i = n + 1
    <3>1. t[i] = x
      BY <1>1, <2>2
    <3> QED BY <3>1
  <2> QED BY <1>3, <2>1, <2>2
<1>6. Within(t, first, x + 2)
  BY <1>1, <1>4, <1>5, WithinIndex
<1> QED BY <1>6 DEF t

LEMMA WithinJoined ==
    ASSUME NEW s \in Seq(Int), NEW t \in Seq(Int), NEW first \in Int, NEW now \in Int,
           Within(s, first, now), Within(t, first, now),
           \A i \in 1..Len(s), j \in 1..Len(t) : s[i] < t[j]
    PROVE  Within(s \o t, first, now)
<1> DEFINE u == s \o t
           m == Len(s)
           n == Len(t)
<1>1. /\ u \in Seq(Int) /\ Len(u) = m + n /\ m \in Nat /\ n \in Nat
      /\ \A i \in 1..m : u[i] = s[i]
      /\ \A i \in 1..n : u[m + i] = t[i]
  BY Joined
<1>2. /\ \A i, j \in 1..m : i < j => s[i] < s[j]
      /\ \A i \in 1..m : first <= s[i] /\ s[i] < now
      /\ \A i, j \in 1..n : i < j => t[i] < t[j]
      /\ \A i \in 1..n : first <= t[i] /\ t[i] < now
      /\ \A i \in 1..m, j \in 1..n : s[i] < t[j]
  BY WithinIndex
<1> HIDE DEF u, m, n
<1>3. \A i \in 1..(m + n) : i \in 1..m \/ (i - m \in 1..n /\ m + (i - m) = i)
  BY <1>1
<1>4. \A i \in 1..(m + n) : (i \in 1..m /\ u[i] = s[i]) \/ (i - m \in 1..n /\ u[i] = t[i - m])
  <2> TAKE i \in 1..(m + n)
  <2>1. CASE i \in 1..m
    BY <1>1, <2>1
  <2>2. CASE i - m \in 1..n /\ m + (i - m) = i
    <3>1. u[m + (i - m)] = t[i - m]
      BY <1>1, <2>2
    <3> QED BY <2>2, <3>1
  <2> QED BY <1>3, <2>1, <2>2
<1>5. \A i, j \in 1..(m + n) : i < j => u[i] < u[j]
  <2> TAKE i \in 1..(m + n), j \in 1..(m + n)
  <2> HAVE i < j
  <2>1. CASE i \in 1..m /\ u[i] = s[i]
    BY <1>2, <1>4, <2>1
  <2>2. CASE i - m \in 1..n /\ u[i] = t[i - m]
    <3>1. i - m < j - m /\ j \notin 1..m
      BY <1>1, <2>2
    <3>2. j - m \in 1..n /\ u[j] = t[j - m]
      BY <1>4, <3>1
    <3> QED BY <1>2, <2>2, <3>1, <3>2
  <2> QED BY <1>4, <2>1, <2>2
<1>6. \A i \in 1..(m + n) : first <= u[i] /\ u[i] < now
  BY <1>2, <1>4
<1>7. Within(u, first, now)
  BY <1>1, <1>5, <1>6, WithinIndex
<1> QED BY <1>7 DEF u

\* What an utterance repeats is what it declares.
LEMMA RepeatsCounted ==
    ASSUME NEW s \in Seq(Int), NEW overlap \in Nat, NEW told, Repeats(s, overlap, told)
    PROVE  Cardinality({i \in DOMAIN s : s[i] < told}) = overlap
<1>1. {i \in DOMAIN s : s[i] < told} = 1..overlap
  BY Places DEF Repeats
<1>2. Cardinality(1..overlap) = overlap
  BY FS_Interval
<1> QED BY <1>1, <1>2

\* A stretch without holes is as long as the time between its ends.
LEMMA ContiguousLength ==
    ASSUME NEW s \in Seq(Int), Len(s) > 0, Contiguous(s)
    PROVE  Last(s) = Head(s) + 2 * (Len(s) - 1)
<1> DEFINE T == {i \in 1..Len(s) : s[i] # s[1] + 2 * (i - 1)}
<1>1. Len(s) \in Nat /\ \A i \in 1..Len(s) : s[i] \in Int
  BY Places
<1>2. CASE T = {}
  <2>1. Len(s) \in 1..Len(s)
    BY <1>1
  <2>2. s[Len(s)] = s[1] + 2 * (Len(s) - 1)
    BY <1>2, <2>1
  <2> QED BY <2>2 DEF Last
<1>3. CASE T # {}
  <2>1. T \subseteq Nat
    BY <1>1
  <2>2. PICK x \in T : \A y \in T : x <= y
    BY <1>3, <2>1, LeastNat
  <2>3. x \in 1..Len(s) /\ s[x] # s[1] + 2 * (x - 1)
    OBVIOUS
  <2>4. x # 1
    BY <1>1, <2>3
  <2>5. x - 1 \in 1..(Len(s) - 1) /\ x - 1 \in 1..Len(s) /\ x - 1 \notin T /\ (x - 1) + 1 = x
    BY <1>1, <2>2, <2>3, <2>4
  <2>6. s[x - 1] = s[1] + 2 * ((x - 1) - 1)
    BY <2>5
  <2>7. s[(x - 1) + 1] = s[x - 1] + 2
    BY <2>5 DEF Contiguous
  <2>8. s[x] = s[1] + 2 * ((x - 1) - 1) + 2
    BY <2>5, <2>6, <2>7
  <2> QED BY <1>1, <2>3, <2>8
<1> QED BY <1>2, <1>3

-----------------------------------------------------------------------------
(* What a detector tells and what it keeps *)

\* Nothing but the overlap of an utterance that was emitted
Rested(d, told) ==
    /\ d.active = NoActive /\ d.preRoll = <<>> /\ d.opening = <<>>
    /\ Increasing(d.overlap) /\ \A i \in DOMAIN d.overlap : d.overlap[i] < told

\* Pre-roll and opening go up, the opening after the pre-roll, and none was told.
Waiting(d, now, told) ==
    /\ d.active = NoActive /\ d.overlap = <<>>
    /\ Within(d.preRoll, told, now)
    /\ Within(FramesIn(d.opening), told, now)
    /\ \A i \in DOMAIN d.preRoll, j \in DOMAIN d.opening : d.preRoll[i] < d.opening[j].frame

Talking(d, now, told) ==
    /\ d.active.count > 0
    /\ d.preRoll = <<>> /\ d.overlap = <<>> /\ d.opening = <<>>
    /\ Telling(d.active.frames, d.active.overlap, now, told)

Spans(d, now, told) == Rested(d, told) \/ Waiting(d, now, told) \/ Talking(d, now, told)

\* The frames of the current run of speech were told or are in S.
Recent(run, now, told, S) == \A k \in 1..run : now - 2 * k < told \/ now - 2 * k \in S

\* The opening ends in a run of speech of this length.
EndsInRun(opening, run, now) ==
    /\ run <= Len(opening)
    /\ \A k \in 1..run : opening[Len(opening) - k + 1] = [frame |-> now - 2 * k, speech |-> TRUE]

RunAfter(run, speech) == IF speech THEN run + 1 ELSE 0

\* Where the current run of speech is, and what is owed
Hears(d, now, told, run, owed) ==
    IF d.active.count > 0
    THEN /\ owed \subseteq ToSet(d.active.frames)
         /\ Recent(run, now, told, ToSet(d.active.frames))
    ELSE /\ owed = {}
         /\ d.overlap # <<>> => Recent(run, now, told, {})
         /\ d.overlap = <<>> => run < MinSpeechFrames /\ EndsInRun(d.opening, run, now)

\* Utterance u tells all up to the frame before `now`.
Said(u, now, told) ==
    /\ u.frames \in Seq(Int) /\ u.overlap \in Nat /\ u.reason # "ended"
    /\ Telling(u.frames, u.overlap, now, told)

\* The result of an operation on the detector: it goes on, or has told.
Tells(r, now, told) ==
    \/ r.out = <<>> /\ Spans(r.detector, now, told)
    \/ \E u : r.out = <<u>> /\ Said(u, now, told) /\ Rested(r.detector, now - 1)

HearsAfter(r, now, told, run, owed) ==
    \/ r.out = <<>> /\ Hears(r.detector, now, told, run, owed)
    \/ \E u : /\ r.out = <<u>> /\ owed \subseteq ToSet(u.frames)
              /\ Hears(r.detector, now, now - 1, run, {})

\* What is owed more after a frame: frames of the run, when it is long enough
Owing(more, owed, now, told, run) ==
    /\ run < MinSpeechFrames => more \subseteq owed
    /\ \A f \in more : f \in owed \/ (f >= told /\ \E k \in 1..run : f = now - 2 * k)

LEMMA TellingIndex ==
    ASSUME NEW s \in Seq(Int), NEW overlap \in Nat, NEW now \in Int, NEW told \in Int
    PROVE  Telling(s, overlap, now, told) <=>
             /\ Len(s) > 0 /\ s[Len(s)] = now - 2 /\ overlap <= Len(s)
             /\ \A i, j \in 1..Len(s) : i < j => s[i] < s[j]
             /\ \A i \in 1..Len(s) : s[i] < told <=> i <= overlap
BY Places DEF Telling, Increasing, Repeats, Last

LEMMA TellingBelow ==
    ASSUME NEW s \in Seq(Int), NEW overlap \in Nat, NEW now \in Int, NEW told \in Int,
           Telling(s, overlap, now, told)
    PROVE  \A i \in 1..Len(s) : s[i] <= now - 2
<1>1. /\ Len(s) > 0 /\ s[Len(s)] = now - 2
      /\ \A i, j \in 1..Len(s) : i < j => s[i] < s[j]
  BY TellingIndex
<1>2. Len(s) \in Nat /\ \A i \in 1..Len(s) : s[i] \in Int
  BY Places
<1> TAKE i \in 1..Len(s)
<1>3. Len(s) \in 1..Len(s) /\ (i < Len(s) \/ i = Len(s))
  BY <1>1, <1>2
<1>4. CASE i < Len(s)
  <2>1. s[i] < s[Len(s)] /\ s[i] \in Int
    BY <1>1, <1>2, <1>3, <1>4
  <2> QED BY <1>1, <2>1
<1>5. CASE i = Len(s)
  BY <1>1, <1>5
<1> QED BY <1>3, <1>4, <1>5

\* One frame more
LEMMA TellingAppend ==
    ASSUME NEW s \in Seq(Int), NEW overlap \in Nat, NEW now \in Int, NEW told \in Int,
           told <= now, overlap <= Len(s),
           \A i, j \in 1..Len(s) : i < j => s[i] < s[j],
           \A i \in 1..Len(s) : s[i] < now,
           \A i \in 1..Len(s) : s[i] < told <=> i <= overlap
    PROVE  Telling(Append(s, now), overlap, now + 2, told)
<1> DEFINE t == Append(s, now)
           n == Len(s)
<1>1. /\ t \in Seq(Int) /\ Len(t) = n + 1 /\ n \in Nat
      /\ \A i \in 1..n : t[i] = s[i]
      /\ t[n + 1] = now
  BY Appended
<1>2. \A i \in 1..n : s[i] \in Int
  BY Places
<1>3. /\ \A i, j \in 1..n : i < j => s[i] < s[j]
      /\ \A i \in 1..n : s[i] < now
      /\ \A i \in 1..n : s[i] < told <=> i <= overlap
      /\ overlap <= n
  OBVIOUS
<1> HIDE DEF t, n
<1>4. \A i \in 1..(n + 1) : i \in 1..n \/ i = n + 1
  BY <1>1
<1>5. ASSUME NEW i \in 1..(n + 1), NEW j \in 1..(n + 1), i < j
      PROVE  t[i] < t[j]
  <2>1. i \in 1..n
    BY <1>1, <1>5
  <2>2. t[i] = s[i]
    BY <1>1, <2>1
  <2>3. CASE j \in 1..n
    <3>1. t[j] = s[j] /\ s[i] < s[j]
      BY <1>1, <1>3, <1>5, <2>1, <2>3
    <3> QED BY <2>2, <3>1
  <2>4. CASE j = n + 1
    <3>1. t[j] = now /\ s[i] < now
      BY <1>1, <1>3, <2>1, <2>4
    <3> QED BY <2>2, <3>1
  <2> QED BY <1>4, <2>3, <2>4
<1>6. ASSUME NEW i \in 1..(n + 1)
      PROVE  t[i] < told <=> i <= overlap
  <2>1. CASE i \in 1..n
    BY <1>1, <1>3, <2>1
  <2>2. CASE i = n + 1
    <3>1. t[i] = now /\ ~(now < told)
      BY <1>1, <2>2
    <3>2. ~(i <= overlap)
      BY <1>1, <1>3, <2>2
    <3> QED BY <3>1, <3>2
  <2> QED BY <1>4, <2>1, <2>2
<1>7. t[n + 1] = (now + 2) - 2 /\ n + 1 > 0 /\ overlap <= n + 1
  BY <1>1, <1>3
<1>8. /\ Len(t) > 0 /\ t[Len(t)] = (now + 2) - 2 /\ overlap <= Len(t)
      /\ \A i, j \in 1..Len(t) : i < j => t[i] < t[j]
      /\ \A i \in 1..Len(t) : t[i] < told <=> i <= overlap
  BY <1>1, <1>5, <1>6, <1>7
<1>9. Telling(t, overlap, now + 2, told)
  BY <1>1, <1>8, TellingIndex
<1> QED BY <1>9 DEF t

\* Nothing of it was told.
LEMMA TellingNew ==
    ASSUME NEW s \in Seq(Int), NEW now \in Int, NEW told \in Int,
           Within(s, told, now), Len(s) > 0, s[Len(s)] = now - 2
    PROVE  Telling(s, 0, now, told)
<1>1. /\ \A i, j \in 1..Len(s) : i < j => s[i] < s[j]
      /\ \A i \in 1..Len(s) : told <= s[i]
  BY WithinIndex
<1>2. \A i \in 1..Len(s) : s[i] \in Int
  BY Places
<1>3. \A i \in 1..Len(s) : s[i] < told <=> i <= 0
  <2> TAKE i \in 1..Len(s)
  <2>1. told <= s[i] /\ s[i] \in Int
    BY <1>1, <1>2
  <2> QED BY <2>1
<1>4. 0 <= Len(s)
  BY Places
<1> QED BY <1>1, <1>3, <1>4, TellingIndex

\* finalize_active, of an utterance of which all is there
LEMMA FinalizeTells ==
    ASSUME NEW d \in Detectors, NEW now \in Int, NEW told \in Int,
           NEW reason \in {"limit", "silence", "speaker"},
           d.preRoll = <<>>, d.opening = <<>>,
           Telling(d.active.frames, d.active.overlap, now, told)
    PROVE  LET r == Finalize(d, reason)
           IN /\ r.out = <<Utterance(d.active, reason)>>
              /\ Said(Utterance(d.active, reason), now, told)
              /\ Utterance(d.active, reason).frames = d.active.frames
              /\ Rested(r.detector, now - 1)
              /\ reason # "silence" /\ MaxOverlapFrames > 0 /\ d.active.count > 0 =>
                    r.detector.overlap # <<>>
<1> DEFINE kept == IF reason \in {"limit", "speaker"}
                   THEN Least(MaxOverlapFrames, d.active.count)
                   ELSE 0
           frames == d.active.frames
           overlap == Newest(frames, kept)
           next == [d EXCEPT !.active = NoActive, !.overlap = overlap]
           u == Utterance(d.active, reason)
<1>1. /\ frames \in Seq(Int) /\ d.active.overlap \in Nat /\ d.active.count \in Nat
      /\ MaxOverlapFrames \in Nat
  BY EndpointAssumption DEF Detectors, Actives
<1>2. kept \in Nat /\ (reason # "silence" /\ MaxOverlapFrames > 0 /\ d.active.count > 0 => kept > 0)
  BY <1>1 DEF Least
<1>3. Finalize(d, reason).detector = next /\ Finalize(d, reason).out = <<u>>
  BY DEF Finalize
<1>4. u.frames = frames /\ u.overlap = d.active.overlap /\ u.reason = reason
  BY DEF Utterance
<1>5. /\ next.active = NoActive /\ next.overlap = overlap
      /\ next.preRoll = <<>> /\ next.opening = <<>>
  BY DEF Detectors
<1> HIDE DEF kept, u, next
<1>6. Said(u, now, told)
  BY <1>1, <1>4 DEF Said
<1> DEFINE m == Len(frames) - Least(kept, Len(frames))
<1>7. /\ overlap \in Seq(Int) /\ Len(overlap) = Least(kept, Len(frames)) /\ m \in Nat
      /\ \A i \in 1..Len(overlap) : overlap[i] = frames[m + i]
  <2> HIDE DEF frames
  <2>1. LET r == Newest(frames, kept)
            k == Len(frames) - Least(kept, Len(frames))
        IN /\ r \in Seq(Int) /\ Len(r) = Least(kept, Len(frames)) /\ k \in Nat
           /\ \A i \in 1..Len(r) : r[i] = frames[k + i]
    BY <1>1, <1>2, NewestShape
  <2> QED BY <2>1
<1>8. /\ Len(frames) \in Nat /\ Len(frames) > 0
      /\ \A i, j \in 1..Len(frames) : i < j => frames[i] < frames[j]
      /\ \A i \in 1..Len(frames) : frames[i] <= now - 2 /\ frames[i] \in Int
  <2>1. Telling(frames, d.active.overlap, now, told)
    OBVIOUS
  <2> HIDE DEF frames
  <2>2. /\ Len(frames) > 0
        /\ \A i, j \in 1..Len(frames) : i < j => frames[i] < frames[j]
    BY <1>1, <2>1, TellingIndex
  <2>3. \A i \in 1..Len(frames) : frames[i] <= now - 2
    BY <1>1, <2>1, TellingBelow
  <2> QED BY <1>1, <2>2, <2>3, Places
<1>9. Len(overlap) + m = Len(frames) /\ Len(overlap) \in Nat
  BY <1>2, <1>7, <1>8 DEF Least
<1>10. kept > 0 => overlap # <<>>
  <2>1. kept > 0 => Len(overlap) > 0
    BY <1>2, <1>7, <1>8 DEF Least
  <2> QED BY <2>1
<1> HIDE DEF frames, overlap, m
<1>11. \A i \in 1..Len(overlap) : m + i \in 1..Len(frames)
  BY <1>7, <1>8, <1>9
<1>12. \A i, j \in 1..Len(overlap) : i < j => overlap[i] < overlap[j]
  <2> TAKE i, j \in 1..Len(overlap)
  <2> HAVE i < j
  <2>1. m + i < m + j
    BY <1>7
  <2> QED BY <1>7, <1>8, <1>11, <2>1
<1>13. \A i \in 1..Len(overlap) : overlap[i] < now - 1
  <2> TAKE i \in 1..Len(overlap)
  <2>1. overlap[i] <= now - 2 /\ overlap[i] \in Int
    BY <1>7, <1>8, <1>11
  <2> QED BY <2>1
<1>14. Rested(next, now - 1)
  BY <1>5, <1>7, <1>12, <1>13, Places DEF Rested, Increasing
<1> QED BY <1>2, <1>3, <1>4, <1>5, <1>6, <1>10, <1>14 DEF u, frames

\* With something kept, or in silence, nothing is owed after an utterance.
LEMMA RestedHears ==
    ASSUME NEW d, NEW before, NEW now \in Int, NEW run \in Nat,
           Rested(d, before), d.overlap # <<>> \/ run = 0
    PROVE  Hears(d, now, now - 1, run, {})
<1>1. d.active.count = 0 /\ d.opening = <<>>
  BY DEF Rested, NoActive
<1>2. Recent(run, now, now - 1, {})
  BY DEF Recent
<1>3. CASE d.overlap # <<>>
  BY <1>1, <1>2, <1>3 DEF Hears
<1>4. CASE d.overlap = <<>>
  <2>1. run = 0 /\ 0 < MinSpeechFrames /\ EndsInRun(<<>>, 0, now)
    BY <1>4, EndpointAssumption DEF EndsInRun
  <2> QED BY <1>1, <1>4, <2>1 DEF Hears
<1> QED BY <1>3, <1>4

LEMMA RecentNext ==
    ASSUME NEW run \in Nat, NEW now \in Int, NEW told \in Int, NEW S, NEW T,
           Recent(run, now, told, S), S \subseteq T, now \in T
    PROVE  Recent(run + 1, now + 2, told, T)
<1> SUFFICES ASSUME NEW k \in 1..(run + 1)
             PROVE  (now + 2) - 2 * k < told \/ (now + 2) - 2 * k \in T
  BY DEF Recent
<1>1. CASE k = 1
  BY <1>1
<1>2. CASE k # 1
  <2>1. k - 1 \in 1..run /\ (now + 2) - 2 * k = now - 2 * (k - 1)
    BY <1>2
  <2> QED BY <2>1 DEF Recent
<1> QED BY <1>1, <1>2

\* What is owed of a run is where the run is.
LEMMA OwedIsRecent ==
    ASSUME NEW now \in Int, NEW told \in Int, NEW run, NEW S, NEW owed, NEW more,
           Owing(more, owed, now, told, run), owed \subseteq S, Recent(run, now, told, S)
    PROVE  more \subseteq S
<1> SUFFICES ASSUME NEW f \in more, f \notin owed
             PROVE  f \in S
  OBVIOUS
<1>1. PICK k \in 1..run : f = now - 2 * k /\ f >= told
  BY DEF Owing
<1>2. ~(now - 2 * k < told)
  <2>1. f \in Int
    BY <1>1
  <2> QED BY <1>1, <2>1
<1> QED BY <1>1, <1>2 DEF Recent

-----------------------------------------------------------------------------
(* A frame while speaking, and after a split *)

\* The detector takes the frame `now` and returns r.
Takes(d, r, now, told, speech, run, owed, more) ==
    /\ Tells(r, now + 2, told)
    /\ MaxOverlapFrames > 0 /\ Hears(d, now, told, run, owed)
         /\ Owing(more, owed, now + 2, told, RunAfter(run, speech))
       => HearsAfter(r, now + 2, told, RunAfter(run, speech), more)

LEMMA RangeAppend ==
    ASSUME NEW s \in Seq(Int), NEW x \in Int
    PROVE  ToSet(Append(s, x)) = ToSet(s) \cup {x}
<1>1. /\ Append(s, x) \in Seq(Int) /\ DOMAIN Append(s, x) = 1..(Len(s) + 1)
      /\ \A i \in 1..Len(s) : Append(s, x)[i] = s[i]
      /\ Append(s, x)[Len(s) + 1] = x
  BY Appended
<1>2. DOMAIN s = 1..Len(s) /\ Len(s) \in Nat
  BY Places
<1> DEFINE t == Append(s, x)
<1> HIDE DEF t
<1>3. \A i \in 1..(Len(s) + 1) : i \in 1..Len(s) \/ i = Len(s) + 1
  BY <1>2
<1>4. ToSet(t) \subseteq ToSet(s) \cup {x}
  BY <1>1, <1>2, <1>3 DEF ToSet, t
<1>5. ToSet(s) \cup {x} \subseteq ToSet(t)
  <2>1. Len(s) + 1 \in 1..(Len(s) + 1) /\ 1..Len(s) \subseteq 1..(Len(s) + 1)
    BY <1>2
  <2> QED BY <1>1, <1>2, <2>1 DEF ToSet, t
<1> QED BY <1>4, <1>5 DEF t

\* An utterance that is finished early enough is heard.
LEMMA FinalizeHears ==
    ASSUME NEW d \in Detectors, NEW now \in Int, NEW told \in Int, NEW run \in Nat, NEW more,
           NEW reason \in {"limit", "silence", "speaker"},
           d.preRoll = <<>>, d.opening = <<>>, d.active.count > 0,
           Telling(d.active.frames, d.active.overlap, now, told),
           MaxOverlapFrames > 0, reason = "silence" => run = 0,
           more \subseteq ToSet(d.active.frames)
    PROVE  HearsAfter(Finalize(d, reason), now, told, run, more)
<1> DEFINE r == Finalize(d, reason)
           u == Utterance(d.active, reason)
<1>1. /\ r.out = <<u>> /\ u.frames = d.active.frames
      /\ Rested(r.detector, now - 1)
      /\ reason # "silence" => r.detector.overlap # <<>>
  BY FinalizeTells
<1>2. r.detector.overlap # <<>> \/ run = 0
  BY <1>1
<1> HIDE DEF r, u
<1>3. Hears(r.detector, now, now - 1, run, {})
  BY <1>1, <1>2, RestedHears
<1> QED BY <1>1, <1>3 DEF HearsAfter, r

\* push while speaking
LEMMA ContinueTells ==
    ASSUME NEW s \in Nat \ {0}, NEW d \in Detectors, NEW speech \in BOOLEAN,
           NEW now \in Int, NEW told \in Int, told <= now,
           Talking(d, now, told), NEW run \in Nat, NEW owed, NEW more
    PROVE  Takes(d, Continue(d, now, speech, s), now, told, speech, run, owed, more)
<1> DEFINE frames == Append(d.active.frames, now)
           count == d.active.count + 1
           quiet == IF speech THEN 0 ELSE d.active.silence + 1
           active == [d.active EXCEPT !.frames = frames, !.count = count, !.silence = quiet]
           next == [d EXCEPT !.active = active]
           reason == EndReason(active, speech, s)
           r == Continue(d, now, speech, s)
           longer == RunAfter(run, speech)
<1>1. d.active \in Actives /\ d \in Detectors /\ d.active.frames \in Seq(Int)
      /\ d.active.overlap \in Nat /\ d.active.count \in Nat
  BY DEF Detectors, Actives
<1>2. /\ frames \in Seq(Int) /\ Len(frames) = Len(d.active.frames) + 1
      /\ count \in Nat /\ count > 0 /\ quiet \in Nat
  <2>1. frames \in Seq(Int) /\ Len(frames) = Len(d.active.frames) + 1
    BY <1>1, AppendProperties
  <2>2. count \in Nat /\ count > 0
    BY <1>1
  <2>3. quiet \in Nat
    BY <1>1 DEF Actives
  <2> QED BY <2>1, <2>2, <2>3
<1>3. Telling(frames, d.active.overlap, now + 2, told)
  <2> DEFINE before == d.active.frames
             overlap == d.active.overlap
  <2>1. Telling(before, overlap, now, told) /\ before \in Seq(Int) /\ overlap \in Nat
    BY <1>1 DEF Talking
  <2> HIDE DEF before, overlap
  <2>2. /\ overlap <= Len(before)
        /\ \A i, j \in 1..Len(before) : i < j => before[i] < before[j]
        /\ \A i \in 1..Len(before) : before[i] < told <=> i <= overlap
    BY <2>1, TellingIndex
  <2>3. \A i \in 1..Len(before) : before[i] < now
    <3> TAKE i \in 1..Len(before)
    <3>1. before[i] <= now - 2 /\ before[i] \in Int
      BY <2>1, TellingBelow, Places
    <3> QED BY <3>1
  <2> QED BY <1>1, <2>1, <2>2, <2>3, TellingAppend DEF before, overlap
<1>4. ToSet(frames) = ToSet(d.active.frames) \cup {now}
  BY <1>1, RangeAppend
<1>5. /\ active \in Actives /\ active.frames = frames /\ active.count = count
      /\ active.silence = quiet /\ active.overlap = d.active.overlap
  <2> HIDE DEF frames, count, quiet
  <2> QED BY <1>1, <1>2 DEF Actives
<1>6. /\ next \in Detectors /\ next.active = active
      /\ next.preRoll = <<>> /\ next.opening = <<>> /\ next.overlap = <<>>
  <2> HIDE DEF active
  <2> QED BY <1>1, <1>5 DEF Detectors, Talking
<1>7. r = IF reason = "none" THEN Nothing(next) ELSE Finalize(next, reason)
  BY DEF Continue
<1>8. reason \in {"none", "limit", "silence"} /\ (reason = "silence" => ~speech)
  BY DEF EndReason
<1> HIDE DEF frames, count, quiet, active, next, reason, r
<1>9. Talking(next, now + 2, told)
  BY <1>2, <1>3, <1>5, <1>6 DEF Talking
<1>10. Tells(r, now + 2, told)
  <2>1. CASE reason = "none"
    BY <1>7, <1>9, <2>1 DEF Nothing, Tells, Spans
  <2>2. CASE reason # "none"
    <3> DEFINE u == Utterance(next.active, reason)
    <3>1. Telling(next.active.frames, next.active.overlap, now + 2, told)
      BY <1>9 DEF Talking
    <3>2. r.out = <<u>> /\ Said(u, now + 2, told) /\ Rested(r.detector, (now + 2) - 1)
      BY <1>6, <1>7, <1>8, <2>2, <3>1, FinalizeTells
    <3> QED BY <3>2 DEF Tells
  <2> QED BY <2>1, <2>2
<1>11. ASSUME MaxOverlapFrames > 0, Hears(d, now, told, run, owed),
              Owing(more, owed, now + 2, told, longer)
       PROVE  HearsAfter(r, now + 2, told, longer, more)
  <2>1. owed \subseteq ToSet(frames) /\ Recent(run, now, told, ToSet(d.active.frames))
    BY <1>4, <1>11 DEF Hears, Talking
  <2>2. Recent(longer, now + 2, told, ToSet(frames))
    <3>1. CASE speech
      BY <1>4, <2>1, <3>1, RecentNext DEF RunAfter
    <3>2. CASE ~speech
      BY <3>2 DEF Recent, RunAfter
    <3> QED BY <3>1, <3>2
  <2>3. more \subseteq ToSet(frames)
    <3>1. now + 2 \in Int
      OBVIOUS
    <3> QED BY <1>11, <2>1, <2>2, <3>1, OwedIsRecent
  <2>4. CASE reason = "none"
    <3>1. r.out = <<>> /\ r.detector = next
      BY <1>7, <2>4 DEF Nothing
    <3>2. Hears(next, now + 2, told, longer, more)
      BY <1>2, <1>5, <1>6, <2>2, <2>3 DEF Hears
    <3> QED BY <3>1, <3>2 DEF HearsAfter
  <2>5. CASE reason # "none"
    <3>1. Telling(next.active.frames, next.active.overlap, now + 2, told) /\ next.active.count > 0
      BY <1>9 DEF Talking
    <3>2. reason \in {"limit", "silence", "speaker"} /\ (reason = "silence" => longer = 0)
      BY <1>8, <2>5 DEF RunAfter
    <3>3. more \subseteq ToSet(next.active.frames) /\ longer \in Nat /\ now + 2 \in Int
      BY <1>5, <1>6, <2>3 DEF RunAfter
    <3>4. HearsAfter(Finalize(next, reason), now + 2, told, longer, more)
      BY <1>6, <1>11, <3>1, <3>2, <3>3, FinalizeHears
    <3> QED BY <1>7, <2>5, <3>4
  <2> QED BY <2>4, <2>5
<1> QED BY <1>10, <1>11 DEF Takes, r

LEMMA StartTells ==
    ASSUME NEW active \in Actives, active.count > 0, NEW now \in Int, NEW told \in Int,
           Telling(active.frames, active.overlap, now, told), NEW run \in Nat, NEW more
    PROVE  /\ Tells(Start(active), now, told)
           /\ MaxOverlapFrames > 0 /\ Recent(run, now, told, ToSet(active.frames))
                /\ more \subseteq ToSet(active.frames)
              => HearsAfter(Start(active), now, told, run, more)
<1> DEFINE next == [Listening EXCEPT !.active = active]
           u == Utterance(next.active, "limit")
           r == Start(active)
<1>1. /\ next \in Detectors /\ next.active = active
      /\ next.preRoll = <<>> /\ next.opening = <<>> /\ next.overlap = <<>>
  <2>1. Listening \in Detectors
    BY DEF Listening, NoActive, Detectors, Actives, Openings
  <2>2. Listening.preRoll = <<>> /\ Listening.opening = <<>> /\ Listening.overlap = <<>>
    BY DEF Listening
  <2> QED BY <2>1, <2>2 DEF Detectors
<1>2. r = IF active.count >= MaxActiveFrames THEN Finalize(next, "limit") ELSE Nothing(next)
  BY DEF Start
<1> HIDE DEF next, r
<1>3. Talking(next, now, told)
  BY <1>1 DEF Talking
<1>4. CASE active.count >= MaxActiveFrames
  <2>1. Telling(next.active.frames, next.active.overlap, now, told) /\ next.active.count > 0
    BY <1>1
  <2>2. r.out = <<u>> /\ Said(u, now, told) /\ Rested(r.detector, now - 1)
    BY <1>1, <1>2, <1>4, <2>1, FinalizeTells
  <2>3. ASSUME MaxOverlapFrames > 0, more \subseteq ToSet(active.frames)
        PROVE  HearsAfter(r, now, told, run, more)
    <3>1. more \subseteq ToSet(next.active.frames) /\ "limit" \in {"limit", "silence", "speaker"}
          /\ ("limit" = "silence" => run = 0)
      BY <1>1, <2>3
    <3>2. HearsAfter(Finalize(next, "limit"), now, told, run, more)
      BY <1>1, <2>1, <2>3, <3>1, FinalizeHears
    <3> QED BY <1>2, <1>4, <3>2
  <2> QED BY <2>2, <2>3 DEF Tells, r
<1>5. CASE ~(active.count >= MaxActiveFrames)
  <2>1. r.out = <<>> /\ r.detector = next
    BY <1>2, <1>5 DEF Nothing
  <2>2. Tells(r, now, told)
    BY <1>3, <2>1 DEF Tells, Spans
  <2>3. ASSUME Recent(run, now, told, ToSet(active.frames)), more \subseteq ToSet(active.frames)
        PROVE  HearsAfter(r, now, told, run, more)
    <3>1. Hears(next, now, told, run, more)
      BY <1>1, <2>3 DEF Hears
    <3> QED BY <2>1, <3>1 DEF HearsAfter
  <2> QED BY <2>2, <2>3 DEF r
<1> QED BY <1>4, <1>5

-----------------------------------------------------------------------------
(* The pre-roll *)

LEMMA FramesAre ==
    ASSUME NEW o \in Openings
    PROVE  /\ FramesIn(o) \in Seq(Int) /\ Len(FramesIn(o)) = Len(o) /\ Len(o) \in Nat
           /\ DOMAIN o = 1..Len(o)
           /\ \A i \in 1..Len(o) : FramesIn(o)[i] = o[i].frame
           /\ \A i \in 1..Len(o) : o[i] \in [frame : Int, speech : BOOLEAN]
<1>1. /\ Len(o) \in Nat /\ DOMAIN o = 1..Len(o)
      /\ \A i \in 1..Len(o) : o[i] \in [frame : Int, speech : BOOLEAN]
  <2> DEFINE R == [frame : Int, speech : BOOLEAN]
  <2>1. o \in Seq(R)
    BY DEF Openings
  <2> HIDE DEF R
  <2>2. /\ Len(o) \in Nat /\ DOMAIN o = 1..Len(o)
        /\ \A i \in 1..Len(o) : o[i] \in R
    BY <2>1, Places
  <2> QED BY <2>2 DEF R
<1>2. FramesIn(o) = [i \in 1..Len(o) |-> o[i].frame]
  BY <1>1 DEF FramesIn
<1>3. \A i \in 1..Len(o) : o[i].frame \in Int
  BY <1>1
<1>4. FramesIn(o) \in Seq(Int) /\ Len(FramesIn(o)) = Len(o)
  BY <1>1, <1>2, <1>3
<1> QED BY <1>1, <1>2, <1>4

LEMMA WithPreRollIs ==
    ASSUME NEW d \in Detectors, NEW frames \in Seq(Int)
    PROVE  LET w == WithPreRoll(d, frames)
           IN /\ w \in Detectors
              /\ w.preRoll = Newest(d.preRoll \o frames, PreRollFrames)
              /\ w.active = d.active /\ w.overlap = d.overlap /\ w.opening = d.opening
<1> DEFINE kept == Newest(d.preRoll \o frames, PreRollFrames)
<1>1. d.preRoll \o frames \in Seq(Int)
  BY ConcatProperties DEF Detectors
<1>2. kept \in Seq(Int)
  BY <1>1, NewestBound, EndpointAssumption
<1>3. WithPreRoll(d, frames) = [d EXCEPT !.preRoll = kept]
  BY DEF WithPreRoll
<1> HIDE DEF kept
<1>4. LET w == [d EXCEPT !.preRoll = kept]
      IN /\ w \in Detectors /\ w.preRoll = kept
         /\ w.active = d.active /\ w.overlap = d.overlap /\ w.opening = d.opening
  BY <1>2 DEF Detectors
<1> QED BY <1>3, <1>4 DEF kept

LEMMA WithinOne ==
    ASSUME NEW x \in Int, NEW first \in Int, NEW now \in Int, first <= x, x < now
    PROVE  <<x>> \in Seq(Int) /\ Len(<<x>>) = 1 /\ <<x>>[1] = x /\ Within(<<x>>, first, now)
<1>1. <<x>> \in Seq(Int) /\ Len(<<x>>) = 1 /\ <<x>>[1] = x
  OBVIOUS
<1>2. \A i, j \in 1..1 : ~(i < j)
  OBVIOUS
<1> DEFINE s == <<x>>
<1>3. \A i \in 1..1 : s[i] = x
  BY <1>1
<1> HIDE DEF s
<1>4. Within(s, first, now)
  <2>1. s \in Seq(Int) /\ Len(s) = 1
    BY <1>1 DEF s
  <2>2. /\ \A i, j \in 1..Len(s) : i < j => s[i] < s[j]
        /\ \A i \in 1..Len(s) : first <= s[i] /\ s[i] < now
    BY <1>2, <1>3, <2>1
  <2> QED BY <2>1, <2>2, WithinIndex
<1> QED BY <1>1, <1>4 DEF s

\* A frame of silence while nothing is about to start
LEMMA PreRollTells ==
    ASSUME NEW d, d.active.count = 0, NEW quiet \in Detectors, quiet.opening = <<>>,
           NEW now \in Int, NEW told \in Int, told <= now,
           Waiting(quiet, now, told), NEW run \in Nat, NEW owed, NEW more
    PROVE  Takes(d, Nothing(WithPreRoll(quiet, <<now>>)), now, told, FALSE, run, owed, more)
<1> DEFINE next == WithPreRoll(quiet, <<now>>)
           joined == quiet.preRoll \o <<now>>
<1>1. <<now>> \in Seq(Int) /\ Within(<<now>>, told, now + 2) /\ Len(<<now>>) = 1 /\ <<now>>[1] = now
  BY WithinOne
<1>2. quiet.preRoll \in Seq(Int) /\ Within(quiet.preRoll, told, now) /\ PreRollFrames \in Nat
  BY EndpointAssumption DEF Waiting, Detectors
<1>3. \A i \in 1..Len(quiet.preRoll), j \in 1..Len(<<now>>) : quiet.preRoll[i] < <<now>>[j]
  BY <1>1, <1>2, WithinIndex
<1>4. Within(quiet.preRoll, told, now + 2)
  BY <1>2, WithinLater
<1>5. joined \in Seq(Int) /\ Within(joined, told, now + 2)
  <2> DEFINE one == <<now>>
  <2>1. /\ one \in Seq(Int) /\ Within(one, told, now + 2) /\ now + 2 \in Int
        /\ \A i \in 1..Len(quiet.preRoll), j \in 1..Len(one) : quiet.preRoll[i] < one[j]
        /\ joined = quiet.preRoll \o one
    BY <1>1, <1>3
  <2> HIDE DEF one, joined
  <2>2. quiet.preRoll \o one \in Seq(Int)
    BY <1>2, <2>1, Joined
  <2>3. Within(quiet.preRoll \o one, told, now + 2)
    BY <1>2, <1>4, <2>1, WithinJoined
  <2> QED BY <2>1, <2>2, <2>3
<1> HIDE DEF joined
<1>6. Within(Newest(joined, PreRollFrames), told, now + 2)
  BY <1>2, <1>5, WithinNewest
<1>7. /\ next.preRoll = Newest(joined, PreRollFrames)
      /\ next.active = NoActive /\ next.overlap = <<>> /\ next.opening = <<>>
  BY <1>1, WithPreRollIs DEF joined, Waiting
<1> HIDE DEF next
<1>8. Waiting(next, now + 2, told)
  <2>1. Within(FramesIn(next.opening), told, now + 2) /\ DOMAIN next.opening = {}
    BY <1>7 DEF FramesIn, Within, Increasing
  <2> QED BY <1>6, <1>7, <2>1 DEF Waiting
<1>9. ASSUME Hears(d, now, told, run, owed), Owing(more, owed, now + 2, told, 0)
      PROVE  Hears(next, now + 2, told, 0, more)
  <2>1. 0 < MinSpeechFrames
    BY EndpointAssumption
  <2>2. more = {}
    BY <1>9, <2>1 DEF Hears, Owing
  <2>3. Len(next.opening) = 0 /\ next.active.count = 0
    BY <1>7 DEF NoActive
  <2>4. EndsInRun(next.opening, 0, now + 2)
    BY <2>3 DEF EndsInRun
  <2> QED BY <1>7, <2>1, <2>2, <2>3, <2>4 DEF Hears
<1>10. Tells(Nothing(next), now + 2, told)
  BY <1>8 DEF Tells, Nothing, Spans
<1>11. Hears(next, now + 2, told, 0, more) => HearsAfter(Nothing(next), now + 2, told, 0, more)
  BY DEF HearsAfter, Nothing
<1>12. RunAfter(run, FALSE) = 0
  BY DEF RunAfter
<1> QED BY <1>9, <1>10, <1>11, <1>12 DEF Takes, next

\* push after a split
LEMMA AfterSplitTells ==
    ASSUME NEW d \in Detectors, NEW now \in Int, NEW told \in Int, told <= now,
           NEW speech \in BOOLEAN, Rested(d, told), d.overlap # <<>>,
           NEW run \in Nat, NEW owed, NEW more
    PROVE  Takes(d, AfterSplit(d, now, speech), now, told, speech, run, owed, more)
<1>1. d.active.count = 0 /\ d.active = NoActive /\ d.overlap \in Seq(Int)
  BY DEF Rested, NoActive, Detectors
<1>2. CASE speech
  <2> DEFINE frames == Append(d.overlap, now)
             overlap == Len(d.overlap)
             active == [NoActive EXCEPT !.frames = frames, !.overlap = overlap, !.count = 1]
             r == Start(active)
  <2>1. AfterSplit(d, now, speech) = r
    BY <1>2 DEF AfterSplit
  <2>2. /\ \A i, j \in 1..Len(d.overlap) : i < j => d.overlap[i] < d.overlap[j]
        /\ \A i \in 1..Len(d.overlap) : d.overlap[i] < told /\ d.overlap[i] \in Int
        /\ Len(d.overlap) \in Nat
    BY <1>1, Places DEF Rested, Increasing
  <2>3. \A i \in 1..Len(d.overlap) : d.overlap[i] < now
    <3> TAKE i \in 1..Len(d.overlap)
    <3>1. d.overlap[i] < told /\ d.overlap[i] \in Int
      BY <2>2
    <3> QED BY <3>1
  <2>4. \A i \in 1..Len(d.overlap) : d.overlap[i] < told <=> i <= overlap
    BY <2>2
  <2>5. frames \in Seq(Int) /\ overlap \in Nat /\ overlap <= Len(d.overlap)
    BY <1>1, <2>2, Appended
  <2> HIDE DEF overlap
  <2>6. Telling(frames, overlap, now + 2, told)
    BY <1>1, <2>2, <2>3, <2>4, <2>5, TellingAppend
  <2>7. now \in ToSet(frames)
    BY <1>1, RangeAppend
  <2> HIDE DEF frames
  <2>8. /\ active \in Actives /\ active.frames = frames /\ active.overlap = overlap
        /\ active.count = 1
    <3>1. NoActive \in Actives
      BY DEF NoActive, Actives
    <3> QED BY <2>5, <3>1 DEF Actives
  <2> HIDE DEF active
  <2>9. run + 1 \in Nat /\ now + 2 \in Int /\ active.count > 0
        /\ Telling(active.frames, active.overlap, now + 2, told)
    BY <2>6, <2>8
  <2>10. Tells(r, now + 2, told)
    BY <2>8, <2>9, StartTells
  <2>11. ASSUME MaxOverlapFrames > 0, Hears(d, now, told, run, owed),
                Owing(more, owed, now + 2, told, run + 1)
         PROVE  HearsAfter(r, now + 2, told, run + 1, more)
    <3>1. owed = {} /\ Recent(run, now, told, {})
      BY <1>1, <2>11 DEF Hears
    <3>2. Recent(run + 1, now + 2, told, ToSet(frames))
      BY <2>7, <3>1, RecentNext
    <3>3. more \subseteq ToSet(frames)
      BY <2>9, <2>11, <3>1, <3>2, OwedIsRecent
    <3>4. Recent(run + 1, now + 2, told, ToSet(active.frames)) /\ more \subseteq ToSet(active.frames)
      BY <2>8, <3>2, <3>3
    <3> HIDE DEF r
    <3> QED BY <2>8, <2>9, <2>11, <3>4, StartTells DEF r
  <2> HIDE DEF r
  <2>12. RunAfter(run, speech) = run + 1
    BY <1>2 DEF RunAfter
  <2> QED BY <2>1, <2>10, <2>11, <2>12 DEF Takes
<1>3. CASE ~speech
  <2> DEFINE none == <<>>
             quiet == [d EXCEPT !.overlap = none]
  <2>1. AfterSplit(d, now, speech) = Nothing(WithPreRoll(quiet, <<now>>)) /\ speech = FALSE
    BY <1>3 DEF AfterSplit
  <2>2. none \in Seq(Int) /\ none = <<>>
    OBVIOUS
  <2> HIDE DEF none
  <2>3. /\ quiet \in Detectors /\ quiet.active = NoActive /\ quiet.overlap = <<>>
        /\ quiet.preRoll = <<>> /\ quiet.opening = <<>>
    BY <2>2 DEF Detectors, Rested
  <2> HIDE DEF quiet
  <2>4. Waiting(quiet, now, told)
    BY <2>3 DEF Waiting, Within, Increasing, FramesIn
  <2>5. Takes(d, Nothing(WithPreRoll(quiet, <<now>>)), now, told, FALSE, run, owed, more)
    BY <1>1, <2>3, <2>4, PreRollTells
  <2> QED BY <2>1, <2>5
<1> QED BY <1>2, <1>3

-----------------------------------------------------------------------------
(* The opening of speech *)

\* What push works with while speech may be about to start
Full(d) == Len(d.opening) >= OpeningWindow
KeptOf(d) == IF Full(d) THEN Tail(d.opening) ELSE d.opening
BeforeOf(d) ==
    IF Full(d) /\ ~Head(d.opening).speech
    THEN WithPreRoll(d, <<Head(d.opening).frame>>) ELSE d
GrownOf(d, frame, speech) == Append(KeptOf(d), [frame |-> frame, speech |-> speech])
Offset(d) == IF Full(d) THEN 1 ELSE 0

\* What is kept of the opening is its end.
LEMMA KeptIs ==
    ASSUME NEW d \in Detectors
    PROVE  /\ KeptOf(d) \in Openings
           /\ Len(KeptOf(d)) \in Nat /\ Len(d.opening) = Len(KeptOf(d)) + Offset(d)
           /\ Offset(d) \in Nat
           /\ \A i \in 1..Len(KeptOf(d)) : KeptOf(d)[i] = d.opening[i + Offset(d)]
<1> DEFINE R == [frame : Int, speech : BOOLEAN]
           o == d.opening
<1>1. o \in Seq(R) /\ Len(o) \in Nat
  BY DEF Detectors, Openings
<1> HIDE DEF R
<1>2. CASE Full(d)
  <2>1. Len(o) >= 1
    BY <1>1, <1>2, EndpointAssumption DEF Full
  <2>2. o # <<>> /\ Offset(d) = 1 /\ KeptOf(d) = Tail(o)
    BY <1>2, <2>1 DEF Offset, KeptOf
  <2> HIDE DEF o
  <2>3. Tail(o) \in Seq(R) /\ Len(Tail(o)) = Len(o) - 1
        /\ \A i \in 1..(Len(o) - 1) : Tail(o)[i] = o[i + 1]
    BY <1>1, <2>2, HeadTailProperties
  <2> QED BY <1>1, <2>1, <2>2, <2>3 DEF R, Openings, o
<1>3. CASE ~Full(d)
  <2>1. Offset(d) = 0 /\ KeptOf(d) = o
    BY <1>3 DEF Offset, KeptOf
  <2>2. \A i \in 1..Len(o) : i + 0 = i
    OBVIOUS
  <2> QED BY <1>1, <2>1, <2>2 DEF R, Openings
<1> QED BY <1>2, <1>3

\* The pre-roll goes up to the opening that is kept.
LEMMA BeforeIs ==
    ASSUME NEW d \in Detectors, NEW now \in Int, NEW told \in Int,
           Waiting(d, now, told)
    PROVE  LET b == BeforeOf(d)
           IN /\ b \in Detectors /\ b.active = NoActive /\ b.overlap = <<>>
              /\ Within(b.preRoll, told, now)
              /\ \A i \in 1..Len(b.preRoll), j \in 1..Len(KeptOf(d)) :
                    b.preRoll[i] < KeptOf(d)[j].frame
<1> DEFINE o == d.opening
           F == FramesIn(o)
           K == KeptOf(d)
           P == d.preRoll
<1>1. /\ P \in Seq(Int) /\ o \in Openings /\ Len(o) \in Nat
      /\ d.active = NoActive /\ d.overlap = <<>>
  BY FramesAre DEF Waiting, Detectors
<1>2. /\ F \in Seq(Int) /\ Len(F) = Len(o) /\ Within(F, told, now) /\ Within(P, told, now)
      /\ \A i \in 1..Len(o) : F[i] = o[i].frame /\ o[i].frame \in Int
      /\ \A i \in 1..Len(P), j \in 1..Len(o) : P[i] < o[j].frame
  BY <1>1, FramesAre, Places DEF Waiting
<1>3. /\ Len(K) \in Nat /\ Len(o) = Len(K) + Offset(d) /\ Offset(d) \in Nat
      /\ \A j \in 1..Len(K) : K[j] = o[j + Offset(d)] /\ j + Offset(d) \in 1..Len(o)
  BY <1>1, KeptIs
<1> HIDE DEF K, F
<1>4. \A i \in 1..Len(P), j \in 1..Len(K) : P[i] < K[j].frame
  BY <1>2, <1>3
<1>5. CASE BeforeOf(d) = d
  BY <1>1, <1>2, <1>4, <1>5 DEF K
<1>6. CASE Full(d) /\ BeforeOf(d) = WithPreRoll(d, <<Head(o).frame>>)
  <2> DEFINE x == Head(o).frame
             joined == P \o <<x>>
             b == WithPreRoll(d, <<x>>)
  <2>1. Len(o) >= 1 /\ Offset(d) = 1
    BY <1>1, <1>6, EndpointAssumption DEF Full, Offset
  <2>2. 1 \in 1..Len(o) /\ x = o[1].frame /\ x \in Int
    BY <1>1, <1>2, <2>1
  <2> HIDE DEF x
  <2>3. told <= x /\ x < now
    BY <1>2, <2>2, WithinIndex
  <2>4. <<x>> \in Seq(Int) /\ Len(<<x>>) = 1 /\ <<x>>[1] = x /\ Within(<<x>>, told, now)
    BY <2>2, <2>3, WithinOne
  <2>5. /\ joined \in Seq(Int) /\ Within(joined, told, now)
        /\ Len(joined) = Len(P) + 1 /\ Len(P) \in Nat
        /\ \A i \in 1..Len(P) : joined[i] = P[i]
        /\ joined[Len(P) + 1] = x
    <3> DEFINE one == <<x>>
    <3>1. /\ one \in Seq(Int) /\ Len(one) = 1 /\ one[1] = x /\ Within(one, told, now)
          /\ \A i \in 1..Len(P), j \in 1..Len(one) : P[i] < one[j]
          /\ joined = P \o one
      BY <1>2, <2>2, <2>4
    <3> HIDE DEF one, joined, P
    <3>2. Within(P \o one, told, now)
      BY <1>1, <1>2, <3>1, WithinJoined
    <3>3. /\ P \o one \in Seq(Int) /\ Len(P \o one) = Len(P) + Len(one)
          /\ \A i \in 1..Len(P) : (P \o one)[i] = P[i]
          /\ \A i \in 1..Len(one) : (P \o one)[Len(P) + i] = one[i]
      <4>1. P \in Seq(Int) /\ one \in Seq(Int)
        BY <1>1, <3>1
      <4> QED BY <4>1, Joined
    <3>4. Len(P) \in Nat /\ 1 \in 1..Len(one)
      BY <1>1, <3>1
    <3> QED BY <3>1, <3>2, <3>3, <3>4
  <2>6. \A j \in 1..Len(K) : K[j].frame = F[j + 1] /\ 1 < j + 1 /\ j + 1 \in 1..Len(F)
    <3> TAKE j \in 1..Len(K)
    <3>1. K[j] = o[j + 1] /\ j + 1 \in 1..Len(o)
      BY <1>3, <2>1
    <3>2. F[j + 1] = o[j + 1].frame
      BY <1>2, <3>1
    <3> QED BY <1>2, <3>1, <3>2
  <2>7. \A j \in 1..Len(K) : x < K[j].frame
    <3> TAKE j \in 1..Len(K)
    <3>1. F[1] < F[j + 1]
      BY <1>2, <2>2, <2>6, WithinIndex
    <3> QED BY <1>2, <2>2, <2>6, <3>1
  <2>8. /\ b \in Detectors /\ b.preRoll = Newest(joined, PreRollFrames)
        /\ b.active = NoActive /\ b.overlap = <<>>
    BY <1>1, <2>4, WithPreRollIs
  <2> HIDE DEF joined, b
  <2>9. PreRollFrames \in Nat
    BY EndpointAssumption
  <2>10. Within(b.preRoll, told, now)
    BY <2>5, <2>8, <2>9, WithinNewest
  <2> DEFINE m == Len(joined) - Least(PreRollFrames, Len(joined))
  <2>11. /\ m \in Nat /\ Len(b.preRoll) = Least(PreRollFrames, Len(joined))
         /\ \A i \in 1..Len(b.preRoll) : b.preRoll[i] = joined[m + i]
    <3>1. joined \in Seq(Int) /\ PreRollFrames \in Nat /\ b.preRoll = Newest(joined, PreRollFrames)
      BY <2>5, <2>8, <2>9
    <3> DEFINE new == Newest(joined, PreRollFrames)
    <3>2. /\ m \in Nat /\ Len(new) = Least(PreRollFrames, Len(joined))
          /\ \A i \in 1..Len(new) : new[i] = joined[m + i]
      BY <3>1, NewestShape
    <3> HIDE DEF m, new
    <3>3. b.preRoll = new
      BY <3>1 DEF new
    <3> QED BY <3>2, <3>3
  <2>12. Len(b.preRoll) + m = Len(joined) /\ Len(b.preRoll) \in Nat
    BY <2>5, <2>9, <2>11 DEF Least
  <2> HIDE DEF m
  <2>13. \A i \in 1..Len(b.preRoll) : m + i \in 1..Len(P) \/ m + i = Len(P) + 1
    <3> DEFINE p == Len(P)
               q == Len(b.preRoll)
    <3>1. p \in Nat /\ q \in Nat /\ m \in Nat /\ q + m = p + 1
      BY <2>5, <2>11, <2>12
    <3> HIDE DEF p, q
    <3>2. \A i \in 1..q : m + i \in 1..p \/ m + i = p + 1
      BY <3>1
    <3> QED BY <3>2 DEF p, q
  <2>14. \A i \in 1..Len(b.preRoll), j \in 1..Len(K) : b.preRoll[i] < K[j].frame
    <3> TAKE i \in 1..Len(b.preRoll), j \in 1..Len(K)
    <3>1. CASE m + i \in 1..Len(P)
      <4>1. b.preRoll[i] = P[m + i]
        BY <2>5, <2>11, <3>1
      <4> QED BY <1>4, <3>1, <4>1
    <3>2. CASE m + i = Len(P) + 1
      <4>1. b.preRoll[i] = x
        BY <2>5, <2>11, <3>2
      <4> QED BY <2>7, <4>1
    <3> QED BY <2>13, <3>1, <3>2
  <2> QED BY <1>6, <2>8, <2>10, <2>14 DEF b, x, K
<1> QED BY <1>5, <1>6 DEF BeforeOf

LEMMA GrownIs ==
    ASSUME NEW d \in Detectors, NEW now \in Int, NEW speech \in BOOLEAN
    PROVE  LET g == GrownOf(d, now, speech)
           IN /\ g \in Openings /\ Len(g) = Len(KeptOf(d)) + 1
              /\ \A i \in 1..Len(KeptOf(d)) : g[i] = KeptOf(d)[i]
              /\ g[Len(KeptOf(d)) + 1] = [frame |-> now, speech |-> speech]
<1> DEFINE R == [frame : Int, speech : BOOLEAN]
           x == [frame |-> now, speech |-> speech]
           K == KeptOf(d)
<1>1. K \in Seq(R) /\ x \in R
  BY KeptIs DEF Openings
<1> HIDE DEF R, x, K
<1>2. /\ Append(K, x) \in Seq(R) /\ Len(Append(K, x)) = Len(K) + 1
      /\ \A i \in 1..Len(K) : Append(K, x)[i] = K[i]
      /\ Append(K, x)[Len(K) + 1] = x
  BY <1>1, Appended
<1> QED BY <1>2 DEF GrownOf, Openings, R, x, K

\* The new opening goes on where the pre-roll ends.
LEMMA OpeningGoesOn ==
    ASSUME NEW d \in Detectors, NEW now \in Int, NEW told \in Int, told <= now,
           Waiting(d, now, told), NEW speech \in BOOLEAN
    PROVE  LET g == GrownOf(d, now, speech)
               b == BeforeOf(d)
           IN /\ Within(FramesIn(g), told, now + 2) /\ Within(b.preRoll, told, now + 2)
              /\ \A i \in 1..Len(b.preRoll), j \in 1..Len(g) : b.preRoll[i] < g[j].frame
<1> DEFINE K == KeptOf(d)
           F == FramesIn(d.opening)
           g == GrownOf(d, now, speech)
           G == FramesIn(g)
           P == BeforeOf(d).preRoll
           n == Len(K)
<1>1. /\ K \in Openings /\ n \in Nat /\ Len(d.opening) = n + Offset(d) /\ Offset(d) \in Nat
      /\ \A i \in 1..n : K[i] = d.opening[i + Offset(d)]
  BY KeptIs
<1>2. /\ g \in Openings /\ Len(g) = n + 1
      /\ \A i \in 1..n : g[i] = K[i]
      /\ g[n + 1] = [frame |-> now, speech |-> speech]
  BY GrownIs
<1>3. /\ P \in Seq(Int) /\ Within(P, told, now)
      /\ \A i \in 1..Len(P), j \in 1..n : P[i] < K[j].frame
  BY BeforeIs DEF Detectors
<1>4. /\ F \in Seq(Int) /\ Len(F) = Len(d.opening) /\ Within(F, told, now)
      /\ \A i \in 1..Len(F) : F[i] = d.opening[i].frame
  BY FramesAre DEF Detectors, Waiting
<1>5. /\ G \in Seq(Int) /\ Len(G) = n + 1 /\ \A i \in 1..(n + 1) : G[i] = g[i].frame
  BY <1>2, FramesAre
<1> HIDE DEF K, F, g, G, P, n
<1>6. \A i \in 1..n : i + Offset(d) \in 1..Len(F) /\ i \in 1..(n + 1)
  BY <1>1, <1>4
<1>7. \A i \in 1..n : G[i] = F[i + Offset(d)] /\ G[i] = K[i].frame /\ F[i + Offset(d)] \in Int
  <2> TAKE i \in 1..n
  <2>1. G[i] = g[i].frame /\ g[i] = K[i] /\ K[i] = d.opening[i + Offset(d)]
    BY <1>1, <1>2, <1>5, <1>6
  <2>2. F[i + Offset(d)] = d.opening[i + Offset(d)].frame /\ F[i + Offset(d)] \in Int
    BY <1>4, <1>6, Places
  <2> QED BY <2>1, <2>2
<1>8. G[n + 1] = now
  BY <1>1, <1>2, <1>5
<1>9. /\ \A i, j \in 1..Len(F) : i < j => F[i] < F[j]
      /\ \A i \in 1..Len(F) : told <= F[i] /\ F[i] < now
  BY <1>4, WithinIndex
<1>10. \A i \in 1..(n + 1) : i \in 1..n \/ i = n + 1
  BY <1>1
<1>11. \A i, j \in 1..(n + 1) : i < j => G[i] < G[j]
  <2> TAKE i, j \in 1..(n + 1)
  <2> HAVE i < j
  <2>1. i \in 1..n /\ G[i] = F[i + Offset(d)] /\ i + Offset(d) \in 1..Len(F)
    BY <1>1, <1>6, <1>7
  <2>2. CASE j \in 1..n
    <3>1. G[j] = F[j + Offset(d)] /\ j + Offset(d) \in 1..Len(F)
          /\ i + Offset(d) < j + Offset(d)
      BY <1>1, <1>6, <1>7, <2>2
    <3> QED BY <1>9, <2>1, <3>1
  <2>3. CASE j = n + 1
    <3>1. G[j] = now /\ F[i + Offset(d)] < now
      BY <1>8, <1>9, <2>1, <2>3
    <3> QED BY <2>1, <3>1
  <2> QED BY <1>10, <2>2, <2>3
<1>12. \A i \in 1..(n + 1) : told <= G[i] /\ G[i] < now + 2
  <2> TAKE i \in 1..(n + 1)
  <2>1. CASE i \in 1..n
    <3>1. told <= G[i] /\ G[i] < now /\ G[i] \in Int
      BY <1>6, <1>7, <1>9, <2>1
    <3> QED BY <3>1
  <2>2. CASE i = n + 1
    <3>1. G[i] = now
      BY <1>8, <2>2
    <3> QED BY <3>1
  <2> QED BY <1>10, <2>1, <2>2
<1>13. Within(G, told, now + 2)
  BY <1>5, <1>11, <1>12, WithinIndex
<1>14. Within(P, told, now + 2)
  BY <1>3, WithinLater
<1>15. \A i \in 1..Len(P), j \in 1..(n + 1) : P[i] < g[j].frame
  <2> TAKE i \in 1..Len(P), j \in 1..(n + 1)
  <2>1. CASE j \in 1..n
    BY <1>2, <1>3, <2>1
  <2>2. CASE j = n + 1
    <3>1. g[j].frame = now /\ P[i] < now
      BY <1>2, <1>3, <2>2, WithinIndex
    <3> QED BY <3>1
  <2> QED BY <1>10, <2>1, <2>2
<1> QED BY <1>2, <1>13, <1>14, <1>15 DEF G, g, P

-----------------------------------------------------------------------------
(* An opening keeps the run of speech it ends in *)

\* A run of speech at the end of an opening is part of its speech.
LEMMA RunCounts ==
    ASSUME NEW o \in Openings, NEW run \in Nat, NEW now, EndsInRun(o, run, now)
    PROVE  run <= SpeechIn(o) /\ SpeechIn(o) \in Nat
<1> DEFINE n == Len(o)
           S == {i \in DOMAIN o : o[i].speech}
           T == (n - run + 1)..n
<1>1. n \in Nat /\ DOMAIN o = 1..n /\ run <= n
  BY FramesAre DEF EndsInRun
<1>2. \A i \in T : i \in 1..n /\ o[i].speech
  <2> HIDE DEF n
  <2> TAKE i \in T
  <2>1. i \in 1..n /\ n - i + 1 \in 1..run /\ n - (n - i + 1) + 1 = i
    <3>1. i \in (n - run + 1)..n
      OBVIOUS
    <3>2. i \in Int /\ n - run + 1 <= i /\ i <= n
      BY <1>1, <3>1
    <3> QED BY <1>1, <3>2
  <2>2. ASSUME NEW k \in 1..run PROVE o[n - k + 1].speech
    <3> DEFINE record == [frame |-> now - 2 * k, speech |-> TRUE]
    <3>1. o[n - k + 1] = record
      BY DEF n, EndsInRun
    <3>2. record.speech
      OBVIOUS
    <3> HIDE DEF record
    <3> QED BY <3>1, <3>2
  <2>3. o[n - (n - i + 1) + 1].speech
    BY <2>1, <2>2
  <2> QED BY <2>1, <2>3
<1>3. IsFiniteSet(1..n) /\ IsFiniteSet(T) /\ Cardinality(T) = run
  <2>1. n - run + 1 \in Int /\ n \in Int
    BY <1>1
  <2>2. Cardinality(T) = IF n - run + 1 > n THEN 0 ELSE n - (n - run + 1) + 1
    BY <2>1, FS_Interval
  <2>3. run = 0 => n - run + 1 > n
    BY <1>1
  <2>4. run # 0 => ~(n - run + 1 > n) /\ n - (n - run + 1) + 1 = run
    BY <1>1
  <2> QED BY <1>1, <2>1, <2>2, <2>3, <2>4, FS_Interval
<1>4. T \subseteq S /\ S \subseteq 1..n
  BY <1>1, <1>2
<1> HIDE DEF S, T
<1>5. IsFiniteSet(S) /\ Cardinality(T) <= Cardinality(S)
  BY <1>3, <1>4, FS_Subset
<1>6. Cardinality(S) \in Nat
  BY <1>5, FS_CardinalityType
<1> QED BY <1>3, <1>5, <1>6 DEF SpeechIn, S

\* The run of speech is still at the end of the opening, one frame longer.
LEMMA RunGoesOn ==
    ASSUME NEW d \in Detectors, NEW now \in Int, NEW speech \in BOOLEAN, NEW run \in Nat,
           run < MinSpeechFrames, EndsInRun(d.opening, run, now)
    PROVE  EndsInRun(GrownOf(d, now, speech), RunAfter(run, speech), now + 2)
<1> DEFINE g == GrownOf(d, now, speech)
           K == KeptOf(d)
           n == Len(K)
           o == d.opening
<1>1. /\ n \in Nat /\ Len(o) = n + Offset(d) /\ Offset(d) \in Nat
      /\ \A i \in 1..n : K[i] = o[i + Offset(d)]
  BY KeptIs
<1>2. /\ Len(g) = n + 1 /\ \A i \in 1..n : g[i] = K[i]
      /\ g[n + 1] = [frame |-> now, speech |-> speech]
  BY GrownIs
<1>3. /\ run <= Len(o)
      /\ \A k \in 1..run : o[Len(o) - k + 1] = [frame |-> now - 2 * k, speech |-> TRUE]
  BY DEF EndsInRun
<1>4. Full(d) => Len(o) >= OpeningWindow /\ Offset(d) = 1
  BY DEF Full, Offset
<1>5. ~Full(d) => Offset(d) = 0
  BY DEF Offset
<1>6. MinSpeechFrames <= OpeningWindow /\ MinSpeechFrames \in Nat /\ OpeningWindow \in Nat
  BY EndpointAssumption
<1> HIDE DEF g, K, n, o
<1>7. run <= n
  <2> DEFINE l == Len(o)
             off == Offset(d)
  <2>1. /\ n \in Nat /\ l = n + off /\ run <= l
        /\ (off = 0 \/ (off = 1 /\ l >= OpeningWindow))
    BY <1>1, <1>3, <1>4, <1>5
  <2> HIDE DEF l, off
  <2> QED BY <1>6, <2>1
<1>8. CASE speech
  <2>1. RunAfter(run, speech) = run + 1 /\ speech = TRUE
    BY <1>8 DEF RunAfter
  <2>2. ASSUME NEW k \in 1..(run + 1)
        PROVE  g[Len(g) - k + 1] = [frame |-> (now + 2) - 2 * k, speech |-> TRUE]
    <3>1. CASE k = 1
      <4>1. Len(g) - k + 1 = n + 1 /\ (now + 2) - 2 * k = now
        BY <1>1, <1>2, <3>1
      <4> QED BY <1>2, <2>1, <4>1
    <3>2. CASE k # 1
      <4> DEFINE j == k - 1
      <4>1. j \in 1..run /\ (now + 2) - 2 * k = now - 2 * j
        BY <3>2
      <4>2. Len(g) - k + 1 = n - j + 1 /\ n - j + 1 \in 1..n
            /\ (n - j + 1) + Offset(d) = Len(o) - j + 1
        BY <1>1, <1>2, <1>7, <3>2
      <4> HIDE DEF j
      <4>3. g[Len(g) - k + 1] = K[n - j + 1] /\ K[n - j + 1] = o[Len(o) - j + 1]
        BY <1>1, <1>2, <4>2
      <4> QED BY <1>3, <4>1, <4>3
    <3> QED BY <3>1, <3>2
  <2>3. run + 1 <= Len(g)
    BY <1>1, <1>2, <1>7
  <2> QED BY <2>1, <2>2, <2>3 DEF EndsInRun, g
<1>9. CASE ~speech
  <2>1. RunAfter(run, speech) = 0 /\ 0 <= Len(g)
    BY <1>1, <1>2, <1>9 DEF RunAfter
  <2> QED BY <2>1 DEF EndsInRun, g
<1> QED BY <1>8, <1>9

\* Pre-roll and opening as one stretch
LEMMA StretchIs ==
    ASSUME NEW d \in Detectors, NEW now \in Int, NEW told \in Int, told <= now,
           Waiting(d, now, told), NEW speech \in BOOLEAN
    PROVE  LET g == GrownOf(d, now, speech)
               s == BeforeOf(d).preRoll \o FramesIn(g)
           IN /\ s \in Seq(Int) /\ Within(s, told, now + 2)
              /\ Telling(s, 0, now + 2, told)
              /\ \A j \in 1..Len(g) : g[j].frame \in ToSet(s)
<1> DEFINE g == GrownOf(d, now, speech)
           P == BeforeOf(d).preRoll
           G == FramesIn(g)
           s == P \o G
           p == Len(P)
           n == Len(g)
<1>1. /\ Within(G, told, now + 2) /\ Within(P, told, now + 2)
      /\ \A i \in 1..p, j \in 1..n : P[i] < g[j].frame
  BY OpeningGoesOn
<1>2. g \in Openings /\ n = Len(KeptOf(d)) + 1
      /\ g[Len(KeptOf(d)) + 1] = [frame |-> now, speech |-> speech] /\ Len(KeptOf(d)) \in Nat
  BY GrownIs, KeptIs
<1>3. P \in Seq(Int)
  BY BeforeIs DEF Detectors
<1>4. /\ G \in Seq(Int) /\ Len(G) = n /\ n \in Nat
      /\ \A i \in 1..n : G[i] = g[i].frame
  BY <1>2, FramesAre
<1> HIDE DEF g, P, G
<1>5. /\ s \in Seq(Int) /\ Len(s) = p + Len(G) /\ p \in Nat
      /\ DOMAIN s = 1..(p + Len(G))
      /\ \A i \in 1..Len(G) : s[p + i] = G[i]
  <2>1. P \in Seq(Int) /\ G \in Seq(Int)
    BY <1>3, <1>4
  <2>2. p = Len(P) /\ s = P \o G
    BY DEF p, s
  <2> HIDE DEF p, s
  <2>3. p \in Nat
    BY <2>1, <2>2
  <2>4. /\ s \in Seq(Int) /\ Len(s) = Len(P) + Len(G)
        /\ DOMAIN s = 1..(Len(P) + Len(G))
        /\ \A i \in 1..Len(G) : s[Len(P) + i] = G[i]
    BY <2>1, <2>2, Joined
  <2> QED BY <2>2, <2>3, <2>4
<1>6. \A i \in 1..p, j \in 1..Len(G) : P[i] < G[j]
  BY <1>1, <1>4
<1>7. Within(s, told, now + 2)
  <2> DEFINE later == now + 2
  <2>1. later \in Int /\ Within(P, told, later) /\ Within(G, told, later)
    BY <1>1
  <2>2. \A i \in 1..Len(P), j \in 1..Len(G) : P[i] < G[j]
    BY <1>6
  <2> HIDE DEF later
  <2>3. Within(P \o G, told, later)
    BY <1>3, <1>4, <2>1, <2>2, WithinJoined
  <2> QED BY <2>3 DEF later
<1> HIDE DEF s, p, n
<1>8. n > 0 /\ n \in 1..n /\ g[n].frame = now
  BY <1>2, <1>4 DEF n
<1>9. s[Len(s)] = (now + 2) - 2 /\ Len(s) > 0
  <2>1. s[Len(s)] = G[n] /\ Len(s) > 0
    BY <1>4, <1>5, <1>8
  <2> QED BY <1>4, <1>8, <2>1
<1>10. Telling(s, 0, now + 2, told)
  <2>1. s \in Seq(Int) /\ now + 2 \in Int /\ Len(s) > 0 /\ s[Len(s)] = (now + 2) - 2
    BY <1>5, <1>9
  <2> QED BY <1>7, <2>1, TellingNew
<1>11. \A j \in 1..n : g[j].frame \in ToSet(s)
  <2> TAKE j \in 1..n
  <2>1. s[p + j] = g[j].frame /\ p + j \in DOMAIN s
    BY <1>4, <1>5
  <2> QED BY <2>1 DEF ToSet
<1> QED BY <1>5, <1>7, <1>10, <1>11 DEF s, n, g, P, G

\* push while speech may be about to start
LEMMA OpeningTells ==
    ASSUME NEW d \in Detectors, NEW now \in Int, NEW told \in Int, told <= now,
           Waiting(d, now, told), NEW speech \in BOOLEAN,
           NEW run \in Nat, NEW owed, NEW more
    PROVE  Takes(d, Opening(d, now, speech), now, told, speech, run, owed, more)
<1> DEFINE g == GrownOf(d, now, speech)
           b == BeforeOf(d)
           G == FramesIn(g)
           s == b.preRoll \o G
           count == SpeechIn(g)
           longer == RunAfter(run, speech)
           r == Opening(d, now, speech)
           none == <<>>
           active == [NoActive EXCEPT !.frames = s, !.preRoll = Len(b.preRoll), !.count = Len(g)]
           quiet == [b EXCEPT !.opening = none]
           grown == [b EXCEPT !.opening = g]
<1>1. r = IF count >= MinSpeechFrames THEN Start(active)
          ELSE IF count = 0 THEN Nothing(WithPreRoll(quiet, G))
          ELSE Nothing(grown)
  BY DEF Opening, GrownOf, BeforeOf, KeptOf, Full
<1>2. /\ b \in Detectors /\ b.active = NoActive /\ b.overlap = <<>> /\ b.preRoll \in Seq(Int)
  BY BeforeIs DEF Detectors
<1>3. g \in Openings /\ Len(g) \in Nat /\ Len(g) > 0 /\ DOMAIN g = 1..Len(g)
  <2>1. g \in Openings /\ Len(g) = Len(KeptOf(d)) + 1 /\ Len(KeptOf(d)) \in Nat
    BY GrownIs, KeptIs
  <2> HIDE DEF g
  <2> QED BY <2>1, FramesAre
<1>4. /\ s \in Seq(Int) /\ Within(s, told, now + 2)
      /\ Telling(s, 0, now + 2, told)
      /\ \A j \in 1..Len(g) : g[j].frame \in ToSet(s)
  BY StretchIs
<1>5. /\ Within(G, told, now + 2) /\ Within(b.preRoll, told, now + 2)
      /\ \A i \in 1..Len(b.preRoll), j \in 1..Len(g) : b.preRoll[i] < g[j].frame
  BY OpeningGoesOn
<1>6. ASSUME Hears(d, now, told, run, owed)
      PROVE  owed = {} /\ longer \in Nat /\ EndsInRun(g, longer, now + 2)
  <2>1. d.active.count = 0 /\ d.overlap = <<>>
    BY DEF Waiting, NoActive
  <2>2. owed = {} /\ run < MinSpeechFrames /\ EndsInRun(d.opening, run, now)
    BY <1>6, <2>1 DEF Hears
  <2> QED BY <2>2, RunGoesOn DEF RunAfter
<1>7. G \in Seq(Int)
  BY <1>3, FramesAre
<1> HIDE DEF g, b, G, s, count, r
<1>8. ASSUME Hears(d, now, told, run, owed), Owing(more, owed, now + 2, told, longer)
      PROVE  count \in Nat /\ longer <= count /\ (longer < MinSpeechFrames => more = {})
  <2>1. longer \in Nat /\ EndsInRun(g, longer, now + 2)
    BY <1>6, <1>8
  <2>3. longer <= count /\ count \in Nat
    <3> HIDE DEF longer
    <3> QED BY <1>3, <2>1, RunCounts DEF count
  <2>4. longer < MinSpeechFrames => more = {}
    BY <1>6, <1>8 DEF Owing
  <2> QED BY <2>3, <2>4
<1>9. ASSUME Hears(d, now, told, run, owed), Owing(more, owed, now + 2, told, longer)
      PROVE  Recent(longer, now + 2, told, ToSet(s)) /\ more \subseteq ToSet(s)
  <2> HIDE DEF longer
  <2>1. Recent(longer, now + 2, told, ToSet(s))
    <3> SUFFICES ASSUME NEW k \in 1..longer PROVE (now + 2) - 2 * k \in ToSet(s)
      BY DEF Recent
    <3>1. longer \in Nat /\ EndsInRun(g, longer, now + 2)
      BY <1>6, <1>9
    <3>2. longer <= Len(g) /\ g[Len(g) - k + 1] = [frame |-> (now + 2) - 2 * k, speech |-> TRUE]
      BY <3>1 DEF EndsInRun
    <3>3. g[Len(g) - k + 1].frame = (now + 2) - 2 * k /\ Len(g) - k + 1 \in 1..Len(g)
      BY <1>3, <3>1, <3>2
    <3> QED BY <1>4, <3>3
  <2>2. now + 2 \in Int /\ owed \subseteq ToSet(s)
    BY <1>6, <1>9
  <2> QED BY <1>9, <2>1, <2>2, OwedIsRecent
<1>10. CASE count >= MinSpeechFrames
  <2>1. /\ active \in Actives /\ active.frames = s /\ active.count = Len(g) /\ active.overlap = 0
    <3>1. NoActive \in Actives /\ NoActive.overlap = 0
      BY DEF NoActive, Actives
    <3>2. Len(b.preRoll) \in Nat
      BY <1>2
    <3> QED BY <1>3, <1>4, <3>1, <3>2 DEF Actives
  <2> HIDE DEF active
  <2>2. now + 2 \in Int /\ active.count > 0
        /\ Telling(active.frames, active.overlap, now + 2, told)
    BY <1>3, <1>4, <2>1
  <2>3. longer \in Nat
    BY DEF RunAfter
  <2>4. Tells(Start(active), now + 2, told)
    BY <2>1, <2>2, StartTells
  <2>5. ASSUME MaxOverlapFrames > 0, Hears(d, now, told, run, owed),
               Owing(more, owed, now + 2, told, longer)
        PROVE  HearsAfter(Start(active), now + 2, told, longer, more)
    <3>1. Recent(longer, now + 2, told, ToSet(active.frames)) /\ more \subseteq ToSet(active.frames)
      BY <1>9, <2>1, <2>5
    <3> HIDE DEF longer
    <3> QED BY <2>1, <2>2, <2>3, <2>5, <3>1, StartTells
  <2>6. r = Start(active)
    BY <1>1, <1>10
  <2> QED BY <2>4, <2>5, <2>6 DEF Takes, r
<1>11. CASE ~(count >= MinSpeechFrames) /\ count = 0
  <2> DEFINE next == WithPreRoll(quiet, G)
  <2>1. none \in Seq([frame : Int, speech : BOOLEAN]) /\ none = <<>>
    OBVIOUS
  <2> HIDE DEF none
  <2>2. /\ quiet \in Detectors /\ quiet.active = NoActive /\ quiet.overlap = <<>>
        /\ quiet.preRoll = b.preRoll /\ quiet.opening = <<>>
    BY <1>2, <2>1 DEF Detectors, Openings
  <2> HIDE DEF quiet
  <2>3. /\ next.preRoll = Newest(s, PreRollFrames)
        /\ next.active = NoActive /\ next.overlap = <<>> /\ next.opening = <<>>
    BY <1>7, <2>2, WithPreRollIs DEF s
  <2>4. r = Nothing(next)
    BY <1>1, <1>11
  <2> HIDE DEF next
  <2>5. Waiting(next, now + 2, told)
    <3>1. Within(FramesIn(next.opening), told, now + 2) /\ DOMAIN next.opening = {}
      BY <2>3 DEF FramesIn, Within, Increasing
    <3>2. PreRollFrames \in Nat /\ now + 2 \in Int
      BY EndpointAssumption
    <3>3. Within(next.preRoll, told, now + 2)
      BY <1>4, <2>3, <3>2, WithinNewest
    <3> QED BY <2>3, <3>1, <3>3 DEF Waiting
  <2>6. Tells(r, now + 2, told)
    BY <2>4, <2>5 DEF Tells, Nothing, Spans
  <2>7. ASSUME Hears(d, now, told, run, owed), Owing(more, owed, now + 2, told, longer)
        PROVE  HearsAfter(r, now + 2, told, longer, more)
    <3>1. longer = 0 /\ 0 < MinSpeechFrames
      BY <1>6, <1>8, <1>11, <2>7, EndpointAssumption
    <3>2. more = {}
      BY <1>8, <2>7, <3>1
    <3>3. next.active.count = 0 /\ Len(next.opening) = 0
      BY <2>3 DEF NoActive
    <3>4. EndsInRun(next.opening, 0, now + 2)
      BY <3>3 DEF EndsInRun
    <3>5. Hears(next, now + 2, told, longer, more)
      BY <2>3, <3>1, <3>2, <3>3, <3>4 DEF Hears
    <3> QED BY <2>4, <3>5 DEF HearsAfter, Nothing
  <2> QED BY <2>6, <2>7 DEF Takes, r
<1>12. CASE ~(count >= MinSpeechFrames) /\ count # 0
  <2>1. /\ grown.active = NoActive /\ grown.overlap = <<>>
        /\ grown.preRoll = b.preRoll /\ grown.opening = g
    BY <1>2 DEF Detectors
  <2>2. r = Nothing(grown)
    BY <1>1, <1>12
  <2> HIDE DEF grown
  <2>3. Waiting(grown, now + 2, told)
    <3>1. DOMAIN b.preRoll = 1..Len(b.preRoll)
      BY <1>2, Places
    <3> QED BY <1>3, <1>5, <2>1, <3>1 DEF Waiting, G
  <2>4. Tells(r, now + 2, told)
    BY <2>2, <2>3 DEF Tells, Nothing, Spans
  <2>5. ASSUME Hears(d, now, told, run, owed), Owing(more, owed, now + 2, told, longer)
        PROVE  HearsAfter(r, now + 2, told, longer, more)
    <3>1. longer < MinSpeechFrames
      <4>1. count \in Nat /\ longer <= count /\ longer \in Nat /\ MinSpeechFrames \in Nat
        BY <1>6, <1>8, <2>5, EndpointAssumption
      <4> HIDE DEF longer
      <4> QED BY <1>12, <4>1
    <3>2. more = {} /\ grown.active.count = 0
      BY <1>8, <2>1, <2>5, <3>1 DEF NoActive
    <3>3. EndsInRun(grown.opening, longer, now + 2) /\ grown.overlap = <<>>
      BY <1>6, <2>1, <2>5
    <3>4. Hears(grown, now + 2, told, longer, more)
      BY <3>1, <3>2, <3>3 DEF Hears
    <3> QED BY <2>2, <3>4 DEF HearsAfter, Nothing
  <2> QED BY <2>4, <2>5 DEF Takes, r
<1> QED BY <1>10, <1>11, <1>12 DEF r

-----------------------------------------------------------------------------
(* The operations of the detector *)

\* EndpointDetector::push
LEMMA PushTells ==
    ASSUME NEW s \in Nat \ {0}, NEW d \in Detectors, NEW now \in Int, NEW told \in Int,
           told <= now, NEW speech \in BOOLEAN, Spans(d, now, told),
           NEW run \in Nat, NEW owed, NEW more
    PROVE  Takes(d, Push(d, now, speech, s), now, told, speech, run, owed, more)
<1>1. CASE Speaking(d)
  <2>1. Talking(d, now, told)
    BY <1>1 DEF Speaking, Spans, Rested, Waiting, NoActive
  <2>2. Push(d, now, speech, s) = Continue(d, now, speech, s)
    BY <1>1 DEF Push
  <2> QED BY <2>1, <2>2, ContinueTells
<1>2. CASE ~Speaking(d) /\ d.overlap # <<>>
  <2>1. Rested(d, told)
    BY <1>2 DEF Speaking, Spans, Waiting, Talking
  <2>2. Push(d, now, speech, s) = AfterSplit(d, now, speech)
    BY <1>2 DEF Push
  <2> QED BY <1>2, <2>1, <2>2, AfterSplitTells
<1>3. CASE ~Speaking(d) /\ d.overlap = <<>>
  <2>1. Waiting(d, now, told) /\ d.active.count = 0
    <3>1. Rested(d, told) => Waiting(d, now, told)
      <4> SUFFICES ASSUME Rested(d, told) PROVE Waiting(d, now, told)
        OBVIOUS
      <4>1. d.active = NoActive /\ d.preRoll = <<>> /\ d.opening = <<>>
        BY DEF Rested
      <4>2. Within(d.preRoll, told, now) /\ DOMAIN d.preRoll = {}
        BY <4>1, WithinNothing
      <4>3. Within(FramesIn(d.opening), told, now)
        BY <4>1 DEF FramesIn, Within, Increasing
      <4> QED BY <1>3, <4>1, <4>2, <4>3 DEF Waiting
    <3>2. Waiting(d, now, told)
      BY <1>3, <3>1 DEF Speaking, Spans, Talking
    <3> QED BY <3>2 DEF Waiting, NoActive
  <2>2. CASE ~speech /\ d.opening = <<>>
    <3>1. Push(d, now, speech, s) = Nothing(WithPreRoll(d, <<now>>)) /\ speech = FALSE
      BY <1>3, <2>2 DEF Push
    <3> QED BY <2>1, <2>2, <3>1, PreRollTells
  <2>3. CASE ~(~speech /\ d.opening = <<>>)
    <3>1. Push(d, now, speech, s) = Opening(d, now, speech)
      BY <1>3, <2>3 DEF Push
    <3> QED BY <2>1, <3>1, OpeningTells
  <2> QED BY <2>2, <2>3
<1> QED BY <1>1, <1>2, <1>3

\* split_on_speaker_change: before the frame `now`
LEMMA SplitTells ==
    ASSUME NEW d \in Detectors, NEW now \in Int, NEW told \in Int,
           Spans(d, now, told), Speaking(d)
    PROVE  /\ \E u : Split(d).out = <<u>> /\ Said(u, now, told) /\ u.frames = d.active.frames
           /\ Rested(Split(d).detector, now - 1)
           /\ MaxOverlapFrames > 0 => Split(d).detector.overlap # <<>>
<1>1. Talking(d, now, told)
  BY DEF Speaking, Spans, Rested, Waiting, NoActive
<1>2. Split(d) = Finalize(d, "speaker")
  BY DEF Split
<1>3. /\ d.preRoll = <<>> /\ d.opening = <<>> /\ d.active.count > 0
      /\ Telling(d.active.frames, d.active.overlap, now, told)
  BY <1>1 DEF Talking
<1> QED BY <1>2, <1>3, FinalizeTells

\* Less is owed.
LEMMA HearsLess ==
    ASSUME NEW d, NEW now, NEW told, NEW run, NEW owed, NEW less,
           Hears(d, now, told, run, owed), less \subseteq owed
    PROVE  Hears(d, now, told, run, less)
BY DEF Hears

\* A fresh detector
LEMMA ListeningTells ==
    ASSUME NEW now, NEW told, NEW later, NEW before
    PROVE  Spans(Listening, now, told) /\ Hears(Listening, later, before, 0, {})
<1>1. Listening.active = NoActive /\ NoActive.count = 0
      /\ Listening.overlap = <<>> /\ Listening.preRoll = <<>> /\ Listening.opening = <<>>
  BY DEF Listening, NoActive
<1>2. Rested(Listening, told)
  BY <1>1 DEF Rested, Increasing
<1>3. EndsInRun(Listening.opening, 0, later) /\ 0 < MinSpeechFrames
  BY <1>1, EndpointAssumption DEF EndsInRun
<1> QED BY <1>1, <1>2, <1>3 DEF Spans, Hears

\* flush
LEMMA FlushTells ==
    ASSUME NEW d \in Detectors, NEW now \in Int, NEW told \in Int, NEW run, NEW owed,
           Spans(d, now, told)
    PROVE  /\ Flush(d).detector = Listening
           /\ \/ Flush(d).out = <<>> /\ (Hears(d, now, told, run, owed) => owed = {})
              \/ \E u : /\ Flush(d).out = <<u>> /\ Said(u, now, told)
                        /\ (Hears(d, now, told, run, owed) => owed \subseteq ToSet(u.frames))
<1>1. CASE Speaking(d)
  <2> DEFINE u == Utterance(d.active, "flushed")
  <2>1. Talking(d, now, told) /\ d.active.count > 0
    BY <1>1 DEF Speaking, Spans, Rested, Waiting, NoActive
  <2>2. u.frames = d.active.frames /\ u.overlap = d.active.overlap /\ u.reason = "flushed"
    BY DEF Utterance
  <2>3. d.active.frames \in Seq(Int) /\ d.active.overlap \in Nat
    BY DEF Detectors, Actives
  <2>4. Said(u, now, told)
    <3> HIDE DEF u
    <3> QED BY <2>1, <2>2, <2>3 DEF Said, Talking
  <2>5. Hears(d, now, told, run, owed) => owed \subseteq ToSet(u.frames)
    BY <2>1, <2>2 DEF Hears
  <2>6. Flush(d).out = <<u>> /\ Flush(d).detector = Listening
    BY <1>1 DEF Flush
  <2> HIDE DEF u
  <2> QED BY <2>4, <2>5, <2>6
<1>2. CASE ~Speaking(d)
  BY <1>2 DEF Flush, Hears, Speaking
<1> QED BY <1>1, <1>2

-----------------------------------------------------------------------------
(* Windows: what a window tells and what it keeps *)

LEMMA WithoutIs ==
    ASSUME NEW s \in Seq(Int), NEW n \in Nat, n <= Len(s)
    PROVE  /\ Without(s, n) \in Seq(Int) /\ Len(Without(s, n)) = Len(s) - n
           /\ Len(s) - n \in Nat
           /\ \A i \in 1..(Len(s) - n) : Without(s, n)[i] = s[n + i]
<1>1. \A i \in n + 1 .. Len(s) : s[i] \in Int
  OBVIOUS
<1>2. n + 1 \in Int /\ Len(s) \in Nat
  OBVIOUS
<1>3. /\ SubSeq(s, n + 1, Len(s)) \in Seq(Int)
      /\ Len(SubSeq(s, n + 1, Len(s))) = IF n + 1 <= Len(s) THEN Len(s) - (n + 1) + 1 ELSE 0
      /\ \A i \in 1..(Len(s) - (n + 1) + 1) : SubSeq(s, n + 1, Len(s))[i] = s[n + 1 + i - 1]
  BY <1>1, <1>2, SubSeqProperties
<1> DEFINE l == Len(s)
           t == SubSeq(s, n + 1, Len(s))
<1>4. l \in Nat /\ n <= l /\ l - (n + 1) + 1 = l - n
  BY <1>2
<1>5. Len(t) = l - n
  <2>1. Len(t) = IF n + 1 <= l THEN l - (n + 1) + 1 ELSE 0
    BY <1>3
  <2> HIDE DEF l, t
  <2> QED BY <1>4, <2>1
<1>6. ASSUME NEW i \in 1..(l - n) PROVE t[i] = s[n + i]
  <2>1. t[i] = s[n + 1 + i - 1]
    BY <1>3, <1>4
  <2>2. n + 1 + i - 1 = n + i
    BY <1>4
  <2> QED BY <2>1, <2>2
<1>7. Without(s, n) = t /\ t \in Seq(Int)
  BY <1>3 DEF Without
<1> HIDE DEF t
<1>8. /\ t \in Seq(Int) /\ Len(t) = l - n /\ l - n \in Nat
      /\ \A i \in 1..(l - n) : t[i] = s[n + i]
  <2> HIDE DEF l
  <2> QED BY <1>4, <1>5, <1>6, <1>7
<1> QED BY <1>7, <1>8

LEMMA FirstOnes ==
    ASSUME NEW s \in Seq(Int), NEW n \in 1..Len(s)
    PROVE  /\ SubSeq(s, 1, n) \in Seq(Int) /\ Len(SubSeq(s, 1, n)) = n
           /\ \A i \in 1..n : SubSeq(s, 1, n)[i] = s[i]
<1>1. \A i \in 1..n : s[i] \in Int
  OBVIOUS
<1>2. n \in Int /\ 1 <= n /\ 1 \in Int
  OBVIOUS
<1>3. /\ SubSeq(s, 1, n) \in Seq(Int)
      /\ Len(SubSeq(s, 1, n)) = IF 1 <= n THEN n - 1 + 1 ELSE 0
      /\ \A i \in 1..(n - 1 + 1) : SubSeq(s, 1, n)[i] = s[1 + i - 1]
  BY <1>1, <1>2, SubSeqProperties
<1>4. n - 1 + 1 = n
  BY <1>2
<1>5. ASSUME NEW i \in 1..n PROVE SubSeq(s, 1, n)[i] = s[i]
  <2>1. 1 + i - 1 = i
    OBVIOUS
  <2> QED BY <1>3, <1>4, <2>1
<1> QED BY <1>2, <1>3, <1>4, <1>5

\* Some of what was told is dropped.
LEMMA WithoutTells ==
    ASSUME NEW s \in Seq(Int), NEW overlap \in Nat, NEW now \in Int, NEW told \in Int,
           Telling(s, overlap, now, told), NEW n \in Nat, n <= overlap, n < Len(s)
    PROVE  /\ Telling(Without(s, n), overlap - n, now, told)
           /\ \A f \in ToSet(s) : f < told \/ f \in ToSet(Without(s, n))
<1> DEFINE t == Without(s, n)
           l == Len(s)
           m == Len(t)
<1>1. t \in Seq(Int) /\ m = l - n /\ l \in Nat /\ \A i \in 1..m : t[i] = s[n + i]
  BY WithoutIs
<1>2. /\ s[l] = now - 2 /\ overlap <= l
      /\ \A i, j \in 1..l : i < j => s[i] < s[j]
      /\ \A i \in 1..l : s[i] < told <=> i <= overlap
  BY TellingIndex
<1> HIDE DEF t, m, l
<1>3. n < l /\ m \in Nat /\ m > 0 /\ overlap - n \in Nat /\ overlap - n <= m
  BY <1>1, <1>2 DEF l
<1>4. t[m] = now - 2
  <2>1. t[m] = s[n + m] /\ n + m = l
    BY <1>1, <1>3
  <2> QED BY <1>2, <2>1
<1>5. ASSUME NEW i \in 1..m, NEW j \in 1..m, i < j PROVE t[i] < t[j]
  <2>1. n + i \in 1..l /\ n + j \in 1..l /\ n + i < n + j
    BY <1>1, <1>3, <1>5
  <2> QED BY <1>1, <1>2, <2>1
<1>6. ASSUME NEW i \in 1..m PROVE t[i] < told <=> i <= overlap - n
  <2>1. n + i \in 1..l /\ (n + i <= overlap <=> i <= overlap - n)
    BY <1>1, <1>3
  <2> QED BY <1>1, <1>2, <2>1
<1>7. Telling(t, overlap - n, now, told)
  <2>1. t \in Seq(Int) /\ overlap - n \in Nat /\ Len(t) = m
    BY <1>1, <1>3 DEF m
  <2>2. /\ Len(t) > 0 /\ t[Len(t)] = now - 2 /\ overlap - n <= Len(t)
        /\ \A i, j \in 1..Len(t) : i < j => t[i] < t[j]
        /\ \A i \in 1..Len(t) : t[i] < told <=> i <= overlap - n
    BY <1>3, <1>4, <1>5, <1>6, <2>1
  <2> QED BY <2>1, <2>2, TellingIndex
<1>8. ASSUME NEW f \in ToSet(s) PROVE f < told \/ f \in ToSet(t)
  <2>1. PICK i \in 1..l : f = s[i]
    BY Places DEF ToSet, l
  <2>2. CASE i <= n
    <3>1. i <= overlap
      BY <2>2, <1>1
    <3> QED BY <1>2, <2>1, <3>1
  <2>3. CASE ~(i <= n)
    <3>1. i - n \in 1..m /\ n + (i - n) = i
      BY <1>1, <1>3, <2>3
    <3>2. t[i - n] = f /\ i - n \in DOMAIN t
      BY <1>1, <2>1, <3>1, Places DEF m
    <3> QED BY <3>2 DEF ToSet
  <2> QED BY <2>2, <2>3
<1> QED BY <1>7, <1>8 DEF t

\* A window of this length is told, and so many of its frames stay.
LEMMA TakenTells ==
    ASSUME NEW s \in Seq(Int), NEW overlap \in Nat, NEW now \in Int, NEW told \in Int,
           Telling(s, overlap, now, told), NEW length \in 1..Len(s), overlap < length,
           NEW kept \in Nat, 0 < kept, kept < length
    PROVE  LET u == SubSeq(s, 1, length)
               to == s[length] + 2
               left == Without(s, length - kept)
           IN /\ u \in Seq(Int) /\ left \in Seq(Int) /\ to \in Int
              /\ Telling(u, overlap, to, told) /\ to <= now /\ told <= to - 1
              /\ Len(left) <= kept => to = now
              /\ Telling(left, kept, now, to - 1)
              /\ \A f \in ToSet(s) : f < to - 1 \/ f \in ToSet(left)
              /\ \A f \in ToSet(s) : f \in ToSet(u) \/ f \in ToSet(Without(left, kept))
<1> DEFINE u == SubSeq(s, 1, length)
           to == s[length] + 2
           n == length - kept
           left == Without(s, n)
           rest == Without(left, kept)
           l == Len(s)
           m == Len(left)
<1>1. /\ l \in Nat /\ l > 0 /\ s[l] = now - 2 /\ overlap <= l
      /\ \A i, j \in 1..l : i < j => s[i] < s[j]
      /\ \A i \in 1..l : s[i] < told <=> i <= overlap
      /\ \A i \in 1..l : s[i] \in Int
  BY TellingIndex
<1>2. l \in Nat /\ length \in Nat /\ length <= l /\ length >= 1
      /\ n = length - kept /\ n \in Nat /\ n <= l /\ l - n >= kept /\ length \in 1..length
  BY <1>1
<1>3. u \in Seq(Int) /\ Len(u) = length /\ \A i \in 1..length : u[i] = s[i]
  BY FirstOnes
<1>4. left \in Seq(Int) /\ m = l - n /\ m \in Nat /\ \A i \in 1..m : left[i] = s[n + i]
  <2> HIDE DEF n
  <2>1. n \in Nat /\ n <= Len(s)
    BY <1>2
  <2>2. /\ Without(s, n) \in Seq(Int) /\ Len(Without(s, n)) = Len(s) - n
        /\ Len(s) - n \in Nat
        /\ \A i \in 1..(Len(s) - n) : Without(s, n)[i] = s[n + i]
    BY <2>1, WithoutIs
  <2> QED BY <2>2
<1>5. rest \in Seq(Int) /\ Len(rest) = m - kept /\ \A i \in 1..(m - kept) : rest[i] = left[kept + i]
  <2>1. kept <= Len(left)
    BY <1>2, <1>4
  <2> HIDE DEF left
  <2> QED BY <1>4, <2>1, WithoutIs
<1> HIDE DEF u, left, rest, l, m, n
<1>6. to \in Int /\ s[length] \in Int /\ length \in 1..l
  BY <1>1, <1>2
<1>7. to <= now
  <2>1. CASE length = l
    BY <1>1, <2>1
  <2>2. CASE length # l
    <3>1. l \in 1..l /\ length < l
      BY <1>1, <1>2, <2>2
    <3>2. s[length] < s[l]
      BY <1>1, <1>6, <3>1
    <3> QED BY <1>1, <1>6, <3>2
  <2> QED BY <2>1, <2>2
<1>8. told <= to - 1
  <2>1. ~(length <= overlap)
    BY <1>2
  <2>2. ~(s[length] < told)
    BY <1>1, <1>6, <2>1
  <2> QED BY <1>6, <2>2
<1>9. m <= kept => to = now
  <2>1. SUFFICES ASSUME m <= kept PROVE length = l
    BY <1>1
  <2> QED BY <1>1, <1>2, <1>4, <2>1 DEF n
<1>10. Telling(u, overlap, to, told)
  <2>1. \A i, j \in 1..length : i < j => u[i] < u[j]
    <3>1. \A i \in 1..length : i \in 1..l
      BY <1>2, <1>1
    <3> QED BY <1>1, <1>3, <3>1
  <2>2. \A i \in 1..length : u[i] < told <=> i <= overlap
    <3>1. \A i \in 1..length : i \in 1..l
      BY <1>2, <1>1
    <3> QED BY <1>1, <1>3, <3>1
  <2>3. u[length] = to - 2 /\ overlap <= length /\ length > 0
    <3>1. u[length] = s[length]
      BY <1>2, <1>3
    <3> QED BY <1>2, <1>6, <3>1
  <2> HIDE DEF to
  <2>4. /\ Len(u) > 0 /\ u[Len(u)] = to - 2 /\ overlap <= Len(u)
        /\ \A i, j \in 1..Len(u) : i < j => u[i] < u[j]
        /\ \A i \in 1..Len(u) : u[i] < told <=> i <= overlap
    BY <1>3, <2>1, <2>2, <2>3
  <2> QED BY <1>3, <1>6, <2>4, TellingIndex
<1>11. Telling(left, kept, now, to - 1)
  <2>1. ASSUME NEW i \in 1..m, NEW j \in 1..m, i < j PROVE left[i] < left[j]
    <3>0. i \in Nat /\ j \in Nat /\ 1 <= i /\ i < j /\ j <= m /\ m = l - n
      BY <1>4, <2>1
    <3>1. n + i \in 1..l /\ n + j \in 1..l /\ n + i < n + j
      BY <1>2, <3>0
    <3> QED BY <1>1, <1>4, <3>1
  <2>2. ASSUME NEW i \in 1..m PROVE left[i] < to - 1 <=> i <= kept
    <3>0. left[i] = s[n + i] /\ i \in Nat /\ 1 <= i /\ i <= m /\ m = l - n
      BY <1>4
    <3>1. n + i \in 1..l /\ (n + i <= length <=> i <= kept) /\ left[i] = s[n + i]
      BY <1>2, <3>0
    <3>2. s[n + i] < to - 1 <=> n + i <= length
      <4> DEFINE p == n + i
      <4>1. p \in 1..l /\ length \in 1..l /\ s[p] \in Int /\ s[length] \in Int
        BY <1>1, <1>6, <3>1
      <4> HIDE DEF p
      <4>2. s[p] < to - 1 <=> p <= length
        <5>1. p < length => s[p] < s[length]
          BY <1>1, <4>1
        <5>2. p > length => s[length] < s[p]
          BY <1>1, <4>1
        <5>3. p \in Int /\ length \in Int /\ (p = length => s[p] = s[length])
          BY <4>1
        <5> DEFINE x == s[p]
                   y == s[length]
        <5>4. x \in Int /\ y \in Int /\ to = y + 2
          BY <4>1 DEF to
        <5>5. (p < length => x < y) /\ (p > length => y < x) /\ (p = length => x = y)
          BY <5>1, <5>2, <5>3
        <5> HIDE DEF x, y
        <5>6. x < to - 1 <=> p <= length
          BY <5>3, <5>4, <5>5
        <5> QED BY <5>6 DEF x
      <4> QED BY <4>2 DEF p
    <3> QED BY <3>1, <3>2
  <2>3. left[m] = now - 2 /\ m > 0 /\ kept <= m
    <3>1. m > 0 /\ kept <= m /\ n + m = l
      BY <1>2, <1>4
    <3>2. left[m] = s[n + m]
      <4>1. m \in 1..m
        BY <1>4, <3>1
      <4> QED BY <1>4, <4>1
    <3> QED BY <1>1, <3>1, <3>2
  <2>4. left \in Seq(Int) /\ to - 1 \in Int /\ Len(left) = m
    BY <1>4, <1>6 DEF m
  <2> DEFINE after == to - 1
  <2>5. /\ Len(left) > 0 /\ left[Len(left)] = now - 2 /\ kept <= Len(left)
        /\ \A i, j \in 1..Len(left) : i < j => left[i] < left[j]
        /\ \A i \in 1..Len(left) : left[i] < after <=> i <= kept
    BY <2>1, <2>2, <2>3, <2>4
  <2>6. left \in Seq(Int) /\ after \in Int
    BY <2>4
  <2> HIDE DEF after
  <2>7. Telling(left, kept, now, after)
    BY <2>5, <2>6, TellingIndex
  <2> QED BY <2>7 DEF after
<1>12. ASSUME NEW f \in ToSet(s)
       PROVE  /\ f < to - 1 \/ f \in ToSet(left)
              /\ f \in ToSet(u) \/ f \in ToSet(rest)
  <2>1. PICK i \in 1..l : f = s[i]
    BY Places DEF ToSet, l
  <2>2. CASE i <= length
    <3>1. s[i] < to - 1
      <4>1. CASE i = length
        BY <1>6, <4>1
      <4>2. CASE i # length
        <5>1. i < length /\ s[i] \in Int
          BY <1>1, <1>2, <2>2, <4>2
        <5>2. s[i] < s[length]
          BY <1>1, <1>6, <5>1
        <5> QED BY <1>6, <5>1, <5>2
      <4> QED BY <4>1, <4>2
    <3>2. i \in 1..length /\ DOMAIN u = 1..length
      BY <1>2, <1>3, <2>2, Places
    <3>3. u[i] = f /\ i \in DOMAIN u
      BY <1>3, <2>1, <3>2
    <3> QED BY <2>1, <3>1, <3>3 DEF ToSet
  <2>3. CASE ~(i <= length)
    <3>0. i \in Nat /\ i <= l /\ i > length /\ m = l - n
      BY <1>2, <1>4, <2>3
    <3>1. i - n \in 1..m /\ n + (i - n) = i
      BY <1>2, <3>0
    <3>2. left[i - n] = f /\ i - n \in DOMAIN left
      BY <1>4, <2>1, <3>1, Places DEF m
    <3>3. i - length \in 1..(m - kept) /\ kept + (i - length) = i - n
      BY <1>2, <3>0
    <3>4. rest[i - length] = f /\ i - length \in DOMAIN rest
      <4>1. DOMAIN rest = 1..(m - kept)
        BY <1>5, Places
      <4>2. rest[i - length] = left[i - n]
        BY <1>5, <3>3
      <4> QED BY <3>2, <3>3, <4>1, <4>2
    <3> QED BY <3>2, <3>4 DEF ToSet
  <2> QED BY <2>2, <2>3
<1> QED BY <1>3, <1>4, <1>6, <1>7, <1>8, <1>9, <1>10, <1>11, <1>12 DEF u, left, rest, m, n

-----------------------------------------------------------------------------
(* What a window is where in time *)

\* The samples of an open window are there to be told, those of a closed one are none.
WSpans(w, now, told) ==
    IF w.open
    THEN /\ w.preRoll = <<>>
         /\ Telling(w.samples, w.overlap, now, told)
         /\ w.overlap <= CurrentWindow(w) - HopFrames
         /\ ~w.emitted => w.overlap = 0
    ELSE /\ w.samples = <<>> /\ w.overlap = 0 /\ ~w.emitted /\ ~w.activity
         /\ Within(w.preRoll, told, now)

\* The pre-roll ends in a run of activity of this length.
KnocksAre(w, run, now) ==
    /\ run <= w.opening /\ w.opening < OpeningFrames /\ run <= Len(w.preRoll)
    /\ \A k \in 1..run : w.preRoll[Len(w.preRoll) - k + 1] = now - 2 * k

\* Where the current run of activity is, and what is owed
WHears(w, now, told, run, owed) ==
    IF w.open
    THEN /\ Recent(run, now, told, ToSet(w.samples))
         /\ owed \subseteq ToSet(w.samples)
         /\ ~w.activity => owed = {}
         /\ \A f \in owed : f >= told
    ELSE owed = {} /\ KnocksAre(w, run, now)

\* What TakeWindow leaves behind without activity, see SpeechIsHeard
LeftBehind(w) ==
    IF w.open /\ ~w.activity THEN ToSet(Without(w.samples, w.overlap)) ELSE {}

Silently(r) == r.out = <<>> \/ r.out = <<StreamEnded>>

\* Event u tells all up to the frame before `to`, and the window goes on from there.
WSays(r, u, to, now, told) ==
    /\ r.out = <<u>> /\ Said(u, to, told) /\ to \in Int /\ to <= now
    /\ Len(r.window.samples) <= r.window.overlap => to = now
    /\ WSpans(r.window, now, to - 1)

\* The result of an operation on the window
WTells(r, now, told) ==
    \/ Silently(r) /\ WSpans(r.window, now, told)
    \/ \E u, to : WSays(r, u, to, now, told)

WHearsAfter(r, now, told, run, owed) ==
    \/ Silently(r) /\ WHears(r.window, now, told, run, owed \ LeftBehind(r.window))
    \/ \E u, to :
          /\ WSays(r, u, to, now, told)
          /\ WHears(r.window, now, to - 1, run, owed \ (ToSet(u.frames) \cup LeftBehind(r.window)))

-----------------------------------------------------------------------------
LEMMA WindowShares ==
    ASSUME NEW w \in Windows
    PROVE  /\ Required(w) \in Nat /\ Required(w) >= 2
           /\ CurrentWindow(w) \in Nat /\ CurrentWindow(w) - HopFrames \in Nat
           /\ CurrentWindow(w) - HopFrames >= 1
           /\ WindowFrames - HopFrames \in Nat /\ WindowFrames - HopFrames >= 1
           /\ WindowFrames - HopFrames <= CurrentWindow(w) - HopFrames
           /\ w.emitted => CurrentWindow(w) - HopFrames < Required(w)
<1>1. /\ {FirstWindow, WindowFrames, ExpandedWindow, HopFrames, WindowPreRoll, OpeningFrames}
            \subseteq Nat \ {0}
      /\ WindowFrames > HopFrames /\ ExpandedWindow > WindowFrames
      /\ OpeningFrames <= WindowPreRoll /\ WindowPreRoll < FirstWindow
      /\ FirstWindow <= WindowFrames
  BY WindowAssumption
<1>2. FirstWindow >= 2
  BY <1>1
<1>3. CurrentWindow(w) = ExpandedWindow \/ CurrentWindow(w) = WindowFrames
  BY DEF CurrentWindow
<1>4. Required(w) = IF w.emitted THEN CurrentWindow(w) ELSE FirstWindow
  BY DEF Required
<1> QED BY <1>1, <1>2, <1>3, <1>4

\* take_window
LEMMA TakeWindowTells ==
    ASSUME NEW w \in Windows, w.open, NEW now \in Int, NEW told \in Int, WSpans(w, now, told),
           Len(w.samples) >= Required(w), NEW run \in Nat, NEW owed
    PROVE  LET r == TakeWindow(w)
           IN \E u, to :
                /\ WSays(r, u, to, now, told)
                /\ WHears(w, now, told, run, owed) =>
                     WHears(r.window, now, to - 1, run,
                            owed \ (ToSet(u.frames) \cup LeftBehind(r.window)))
<1> DEFINE r == TakeWindow(w)
           length == Required(w)
           share == (IF w.emitted THEN CurrentWindow(w) ELSE WindowFrames) - HopFrames
           kept == Smaller(share, length - 1)
           s == w.samples
           frames == SubSeq(s, 1, length)
           to == s[length] + 2
           left == Without(s, length - kept)
           rest == Without(left, kept)
           u == WindowEvent(frames, w.overlap, "window")
           next == [w EXCEPT !.samples = left, !.overlap = kept, !.activity = FALSE,
                             !.emitted = TRUE]
<1>1. s \in Seq(Int) /\ w.overlap \in Nat
  BY DEF Windows
<1>2. /\ w.preRoll = <<>> /\ Telling(s, w.overlap, now, told)
      /\ w.overlap <= CurrentWindow(w) - HopFrames
      /\ ~w.emitted => w.overlap = 0
  BY DEF WSpans
<1>3. /\ length \in Nat /\ length >= 2 /\ share \in Nat /\ share >= 1
      /\ share <= CurrentWindow(w) - HopFrames
  BY WindowShares
<1>4. w.overlap < length
  <2>1. CASE w.emitted
    <3>1. CurrentWindow(w) - HopFrames < length /\ CurrentWindow(w) - HopFrames \in Nat
      BY <2>1, WindowShares
    <3> QED BY <1>1, <1>2, <1>3, <3>1
  <2>2. CASE ~w.emitted
    BY <1>2, <1>3, <2>2
  <2> QED BY <2>1, <2>2
<1> HIDE DEF length, share
<1>5. kept \in Nat /\ 0 < kept /\ kept < length /\ kept <= share
  BY <1>3 DEF Smaller
<1>6. length \in 1..Len(s)
  <2>1. Len(s) >= length /\ Len(s) \in Nat
    BY <1>1 DEF length
  <2> QED BY <1>3, <2>1
<1>7. r.window = next /\ r.out = <<u>>
  BY DEF TakeWindow, length, share
<1> HIDE DEF kept, s, r
<1>8. /\ frames \in Seq(Int) /\ left \in Seq(Int) /\ to \in Int
      /\ Telling(frames, w.overlap, to, told) /\ to <= now /\ told <= to - 1
      /\ Len(left) <= kept => to = now
      /\ Telling(left, kept, now, to - 1)
      /\ \A f \in ToSet(s) : f < to - 1 \/ f \in ToSet(left)
      /\ \A f \in ToSet(s) : f \in ToSet(frames) \/ f \in ToSet(rest)
  BY <1>1, <1>2, <1>4, <1>5, <1>6, TakenTells
<1> HIDE DEF frames, left, to, rest
<1>9. u.frames = frames /\ u.overlap = w.overlap /\ u.reason = "window"
  BY DEF WindowEvent
<1> HIDE DEF u
<1>10. /\ next.samples = left /\ next.overlap = kept /\ ~next.activity /\ next.emitted
       /\ next.open /\ next.preRoll = <<>> /\ CurrentWindow(next) = CurrentWindow(w)
  BY <1>2 DEF Windows, CurrentWindow
<1> HIDE DEF next
<1>11. Said(u, to, told)
  BY <1>1, <1>8, <1>9 DEF Said
<1>12. WSpans(next, now, to - 1)
  <2>1. kept <= CurrentWindow(w) - HopFrames
    BY <1>3, <1>5, WindowShares
  <2> QED BY <1>8, <1>10, <2>1 DEF WSpans
<1>13. WSays(r, u, to, now, told)
  BY <1>7, <1>8, <1>10, <1>11, <1>12 DEF WSays
<1>14. LeftBehind(next) = ToSet(rest)
  BY <1>10 DEF LeftBehind, rest
<1>15. ASSUME WHears(w, now, told, run, owed)
       PROVE  WHears(next, now, to - 1, run, owed \ (ToSet(u.frames) \cup LeftBehind(next)))
  <2>1. Recent(run, now, told, ToSet(s)) /\ owed \subseteq ToSet(s)
    BY <1>15 DEF WHears, s
  <2>2. owed \ (ToSet(u.frames) \cup LeftBehind(next)) = {}
    BY <1>8, <1>9, <1>14, <2>1
  <2>3. Recent(run, now, to - 1, ToSet(left))
    <3> SUFFICES ASSUME NEW k \in 1..run
                 PROVE  now - 2 * k < to - 1 \/ now - 2 * k \in ToSet(left)
      BY DEF Recent
    <3>1. now - 2 * k < told \/ now - 2 * k \in ToSet(s)
      BY <2>1 DEF Recent
    <3>2. now - 2 * k < told => now - 2 * k < to - 1
      BY <1>8
    <3> QED BY <1>8, <3>1, <3>2
  <2> QED BY <1>10, <2>2, <2>3 DEF WHears
<1> QED BY <1>7, <1>13, <1>15 DEF r

\* close_gate, when the last frame was quiet
LEMMA CloseGateTells ==
    ASSUME NEW w \in Windows, w.open, NEW now \in Int, NEW told \in Int, WSpans(w, now, told),
           NEW idle, NEW owed, NEW r, NEW reason, reason # "ended",
           r.window = Closed(w, idle) \/ r.window = ResetWindow(w),
           r.out = IF w.activity THEN <<WindowEvent(w.samples, w.overlap, reason)>> ELSE <<>>
    PROVE  /\ WTells(r, now, told)
           /\ WHears(w, now, told, 0, owed) => WHearsAfter(r, now, told, 0, owed)
<1> DEFINE u == WindowEvent(w.samples, w.overlap, reason)
           none == <<>>
           next == r.window
<1>1. /\ next.samples = <<>> /\ next.overlap = 0 /\ ~next.open /\ ~next.emitted /\ ~next.activity
      /\ next.preRoll = <<>> /\ next.opening = 0
  <2>1. CASE r.window = Closed(w, idle)
    BY <2>1 DEF Windows, Closed
  <2>2. CASE r.window = ResetWindow(w)
    BY <2>2 DEF Windows, ResetWindow, Closed
  <2> QED BY <2>1, <2>2
<1> HIDE DEF next
<1>2. \A before : WSpans(next, now, before)
  BY <1>1, WithinNothing DEF WSpans
<1>3. LeftBehind(next) = {} /\ \A before : WHears(next, now, before, 0, {})
  <2>1. KnocksAre(next, 0, now)
    <3>1. 0 < OpeningFrames /\ Len(next.preRoll) = 0
      BY <1>1, WindowAssumption
    <3> QED BY <1>1, <3>1 DEF KnocksAre
  <2> QED BY <1>1, <2>1 DEF LeftBehind, WHears
<1>4. CASE w.activity
  <2>1. r.out = <<u>>
    BY <1>4
  <2>2. u.frames = w.samples /\ u.overlap = w.overlap /\ u.reason = reason
    BY DEF WindowEvent
  <2> HIDE DEF u
  <2>3. Said(u, now, told)
    BY <2>2 DEF Said, WSpans, Windows
  <2>4. WSays(r, u, now, now, told)
    <3>1. WSpans(r.window, now, now - 1)
      BY <1>2 DEF next
    <3>2. now <= now
      OBVIOUS
    <3> QED BY <2>1, <2>3, <3>1, <3>2, Zenon DEF WSays
  <2>5. ASSUME WHears(w, now, told, 0, owed)
        PROVE  WHears(next, now, now - 1, 0, owed \ (ToSet(u.frames) \cup LeftBehind(next)))
    <3>1. owed \ (ToSet(u.frames) \cup LeftBehind(next)) = {}
      BY <2>2, <2>5 DEF WHears
    <3> QED BY <1>3, <3>1
  <2> QED BY <2>4, <2>5 DEF WTells, WHearsAfter, next
<1>5. CASE ~w.activity
  <2>1. Silently(r)
    BY <1>5 DEF Silently
  <2>2. ASSUME WHears(w, now, told, 0, owed)
        PROVE  WHears(next, now, told, 0, owed \ LeftBehind(next))
    <3>1. owed \ LeftBehind(next) = {}
      BY <1>5, <2>2 DEF WHears
    <3> QED BY <1>3, <3>1
  <2> QED BY <1>2, <2>1, <2>2 DEF WTells, WHearsAfter, next
<1> QED BY <1>4, <1>5

\* push, once the frame is in the samples
LEMMA EmitTells ==
    ASSUME NEW w \in Windows, w.open, NEW now \in Int, NEW told \in Int, WSpans(w, now, told),
           NEW run \in Nat, NEW owed
    PROVE  /\ WTells(Emit(w), now, told)
           /\ WHears(w, now, told, run, owed) /\ (w.quiet >= ReleaseFrames => run = 0)
              => WHearsAfter(Emit(w), now, told, run, owed)
<1>1. CASE Len(w.samples) >= Required(w)
  <2>1. Emit(w) = TakeWindow(w)
    BY <1>1 DEF Emit
  <2>2. PICK u, to :
          /\ WSays(TakeWindow(w), u, to, now, told)
          /\ WHears(w, now, told, run, owed) =>
               WHears(TakeWindow(w).window, now, to - 1, run,
                      owed \ (ToSet(u.frames) \cup LeftBehind(TakeWindow(w).window)))
    BY <1>1, TakeWindowTells
  <2> QED BY <2>1, <2>2 DEF WTells, WHearsAfter
<1>2. CASE ~(Len(w.samples) >= Required(w)) /\ w.quiet >= ReleaseFrames
  <2>1. Emit(w) = CloseGate(w)
    BY <1>2 DEF Emit
  <2>2. /\ CloseGate(w).window = Closed(w, w.quiet)
        /\ CloseGate(w).out = IF w.activity THEN <<WindowEvent(w.samples, w.overlap, "silence")>>
                              ELSE <<>>
    BY DEF CloseGate
  <2>3. /\ WTells(CloseGate(w), now, told)
        /\ WHears(w, now, told, 0, owed) => WHearsAfter(CloseGate(w), now, told, 0, owed)
    BY <2>2, CloseGateTells
  <2> QED BY <1>2, <2>1, <2>3
<1>3. CASE ~(Len(w.samples) >= Required(w)) /\ ~(w.quiet >= ReleaseFrames)
  <2>1. Emit(w).out = <<>> /\ Emit(w).window = w
    BY <1>3 DEF Emit, Quietly
  <2>2. ASSUME WHears(w, now, told, run, owed)
        PROVE  WHears(w, now, told, run, owed \ LeftBehind(w))
    BY <2>2 DEF WHears, LeftBehind
  <2> QED BY <2>1, <2>2 DEF WTells, WHearsAfter, Silently
<1> QED BY <1>1, <1>2, <1>3

-----------------------------------------------------------------------------
(* A frame with a fixed window *)

\* What is owed more after a frame: frames of the run, when it is long enough
OwingWindow(more, owed, now, told, run) ==
    /\ run < OpeningFrames => more \subseteq owed
    /\ \A f \in more : f \in owed \/ (f >= told /\ \E k \in 1..run : f = now - 2 * k)

\* The window takes the frame `now` and returns r.
WTakes(w, r, now, told, active, run, owed, more) ==
    /\ WTells(r, now + 2, told)
    /\ WHears(w, now, told, run, owed)
         /\ OwingWindow(more, owed, now + 2, told, RunAfter(run, active))
       => WHearsAfter(r, now + 2, told, RunAfter(run, active), more)

\* The pre-roll with one frame more
LEMMA PreRollGrows ==
    ASSUME NEW p \in Seq(Int), NEW now \in Int, NEW told \in Int, told <= now,
           Within(p, told, now)
    PROVE  LET q == NewestFrames(Append(p, now), WindowPreRoll)
           IN /\ q \in Seq(Int) /\ Len(q) > 0 /\ Len(q) <= WindowPreRoll
              /\ q[Len(q)] = now /\ Within(q, told, now + 2)
              /\ \A run \in Nat :
                    /\ run < WindowPreRoll /\ run <= Len(p)
                    /\ \A k \in 1..run : p[Len(p) - k + 1] = now - 2 * k
                    => /\ run + 1 <= Len(q)
                       /\ \A k \in 1..(run + 1) : q[Len(q) - k + 1] = (now + 2) - 2 * k
<1> DEFINE t == Append(p, now)
           q == NewestFrames(t, WindowPreRoll)
           n == Len(p)
           l == Len(q)
           m == Len(t) - Least(WindowPreRoll, Len(t))
<1>1. /\ t \in Seq(Int) /\ Len(t) = n + 1 /\ n \in Nat
      /\ \A i \in 1..n : t[i] = p[i]
      /\ t[n + 1] = now
  BY Appended
<1>2. WindowPreRoll \in Nat /\ WindowPreRoll > 0
  BY WindowAssumption
<1>3. q = Newest(t, WindowPreRoll)
  BY DEF NewestFrames, Newest, Smaller, Least
<1>4. Within(t, told, now + 2)
  BY WithinAppend
<1> HIDE DEF t, q
<1>5. /\ q \in Seq(Int) /\ l = Least(WindowPreRoll, n + 1)
      /\ m \in Nat /\ m = (n + 1) - l
      /\ \A i \in 1..l : q[i] = t[m + i]
  BY <1>1, <1>2, <1>3, NewestShape
<1>6. now + 2 \in Int
  OBVIOUS
<1>7. Within(q, told, now + 2)
  BY <1>1, <1>2, <1>3, <1>4, <1>6, WithinNewest
<1> HIDE DEF n, l, m
<1>8. l \in Nat /\ l > 0 /\ l <= WindowPreRoll /\ l <= n + 1 /\ m + l = n + 1
      /\ (l = WindowPreRoll \/ l = n + 1)
  BY <1>1, <1>2, <1>5 DEF Least
<1>9. q[l] = now
  <2>1. l \in 1..l
    BY <1>8
  <2> QED BY <1>1, <1>5, <1>8, <2>1
<1>10. ASSUME NEW run \in Nat, run < WindowPreRoll, run <= n,
              \A k \in 1..run : p[n - k + 1] = now - 2 * k
       PROVE  /\ run + 1 <= l
              /\ \A k \in 1..(run + 1) : q[l - k + 1] = (now + 2) - 2 * k
  <2>1. run + 1 <= l
    BY <1>1, <1>2, <1>8, <1>10
  <2>2. ASSUME NEW k \in 1..(run + 1)
        PROVE  q[l - k + 1] = (now + 2) - 2 * k
    <3>0. k \in Nat /\ 1 <= k /\ k <= l /\ m \in Nat /\ n \in Nat
      BY <1>1, <1>5, <1>8, <2>1
    <3>1. l - k + 1 \in 1..l /\ m + (l - k + 1) = n + 2 - k
      BY <1>8, <3>0
    <3>2. q[l - k + 1] = t[n + 2 - k]
      BY <1>5, <3>1
    <3>3. CASE k = 1
      <4>1. n + 2 - k = n + 1 /\ (now + 2) - 2 * k = now
        BY <1>1, <3>3
      <4> QED BY <1>1, <3>2, <4>1
    <3>4. CASE k # 1
      <4> DEFINE j == k - 1
      <4>1. j \in 1..run /\ (now + 2) - 2 * k = now - 2 * j
        BY <3>4
      <4>2. n + 2 - k = n - j + 1 /\ n - j + 1 \in 1..n
        BY <1>1, <1>10, <3>4
      <4> HIDE DEF j
      <4>3. t[n - j + 1] = p[n - j + 1] /\ p[n - j + 1] = now - 2 * j
        BY <1>1, <1>10, <4>1, <4>2
      <4> QED BY <3>2, <4>1, <4>2, <4>3
    <3> QED BY <3>3, <3>4
  <2> QED BY <2>1, <2>2
<1> QED BY <1>5, <1>7, <1>8, <1>9, <1>10 DEF q, t, l, n

\* push while the gate is closed and it is quiet
LEMMA IdleTells ==
    ASSUME NEW w \in Windows, ~w.open, NEW now \in Int, NEW told \in Int, WSpans(w, now, told),
           NEW owed
    PROVE  /\ WTells(Idle(w), now, told)
           /\ owed = {} => WHearsAfter(Idle(w), now, told, 0, owed)
<1> DEFINE r == Idle(w)
           next == r.window
<1>1. /\ next.samples = w.samples /\ next.overlap = w.overlap /\ next.open = w.open
      /\ next.emitted = w.emitted /\ next.activity = w.activity
      /\ next.preRoll = w.preRoll /\ next.opening = 0
  BY DEF Windows, Idle, Quietly
<1>2. Silently(r)
  BY DEF Idle, Quietly, Silently
<1> HIDE DEF next
<1>3. WSpans(next, now, told)
  BY <1>1 DEF WSpans
<1>4. KnocksAre(next, 0, now)
  <2>1. 0 < OpeningFrames
    BY WindowAssumption
  <2>2. 0 <= Len(next.preRoll)
    <3> DEFINE p == w.preRoll
    <3>1. p \in Seq(Int)
      BY DEF Windows
    <3> HIDE DEF p
    <3>2. 0 <= Len(p)
      BY <3>1
    <3> QED BY <1>1, <3>2 DEF p
  <2> QED BY <1>1, <2>1, <2>2 DEF KnocksAre
<1>5. owed = {} => WHears(next, now, told, 0, owed \ LeftBehind(next))
  BY <1>1, <1>4 DEF WHears
<1> QED BY <1>2, <1>3, <1>5 DEF WTells, WHearsAfter, next

\* push while the gate is closed and there is activity
LEMMA KnockTells ==
    ASSUME NEW w \in Windows, ~w.open, NEW now \in Int, NEW told \in Int, WSpans(w, now, told),
           Len(w.preRoll) > 0, w.preRoll[Len(w.preRoll)] = now - 2,
           Len(w.preRoll) <= WindowPreRoll, NEW run \in Nat, NEW owed
    PROVE  /\ WTells(Knock(w), now, told)
           /\ /\ run <= w.opening + 1 /\ w.opening < OpeningFrames /\ run <= Len(w.preRoll)
              /\ \A k \in 1..run : w.preRoll[Len(w.preRoll) - k + 1] = now - 2 * k
              /\ run < OpeningFrames => owed = {}
              /\ \A f \in owed : f >= told /\ \E k \in 1..run : f = now - 2 * k
              => WHearsAfter(Knock(w), now, told, run, owed)
<1> DEFINE p == w.preRoll
           n == Len(p)
<1>1. p \in Seq(Int) /\ n \in Nat /\ w.opening \in Nat /\ w.samples = <<>> /\ w.overlap = 0
      /\ ~w.emitted /\ Within(p, told, now) /\ ~w.activity
  BY DEF Windows, WSpans
<1>2. OpeningFrames \in Nat /\ WindowPreRoll < FirstWindow /\ ReleaseFrames > 0
      /\ FirstWindow \in Nat /\ WindowPreRoll \in Nat /\ ReleaseFrames \in Nat
  BY WindowAssumption
<1>3. CASE w.opening + 1 < OpeningFrames
  <2> DEFINE opening == w.opening + 1
             next == [w EXCEPT !.opening = opening]
  <2>1. Knock(w).out = <<>> /\ Knock(w).window = next
    BY <1>3 DEF Knock, Quietly
  <2>2. /\ next.samples = <<>> /\ next.overlap = 0 /\ ~next.open /\ ~next.emitted /\ ~next.activity
        /\ next.preRoll = p /\ next.opening = opening
    BY <1>1 DEF Windows
  <2> HIDE DEF next
  <2>3. WSpans(next, now, told)
    BY <1>1, <2>2 DEF WSpans
  <2>4. ASSUME /\ run <= w.opening + 1 /\ run <= n
               /\ \A k \in 1..run : p[n - k + 1] = now - 2 * k
               /\ run < OpeningFrames => owed = {}
        PROVE  WHears(next, now, told, run, owed \ LeftBehind(next))
    <3>1. run < OpeningFrames
      BY <1>1, <1>2, <1>3, <2>4
    <3>2. KnocksAre(next, run, now)
      BY <1>3, <2>2, <2>4 DEF KnocksAre
    <3> QED BY <2>2, <2>4, <3>1, <3>2 DEF WHears
  <2> QED BY <2>1, <2>3, <2>4 DEF WTells, WHearsAfter, Silently
<1>4. CASE ~(w.opening + 1 < OpeningFrames)
  <2> DEFINE none == <<>>
             opening == w.opening + 1
             next == [w EXCEPT !.opening = opening, !.open = TRUE, !.streamOpen = TRUE,
                               !.idle = 0, !.quiet = 0, !.activity = TRUE,
                               !.samples = p, !.preRoll = none]
  <2>1. w.samples \o w.preRoll = p
    BY <1>1, ConcatEmptySeq
  <2>2. Knock(w) = Emit(next)
    BY <1>4, <2>1 DEF Knock
  <2>3. none \in Seq(Int) /\ none = <<>>
    OBVIOUS
  <2> HIDE DEF none
  <2>4. /\ next.samples = p /\ next.overlap = 0 /\ next.open /\ ~next.emitted /\ next.activity
        /\ next.preRoll = <<>> /\ next.quiet = 0
    BY <1>1, <2>3 DEF Windows
  <2>5. next \in Windows
    <3>1. opening \in Nat /\ p \in Seq(Int)
      BY <1>1
    <3> HIDE DEF opening, p
    <3> QED BY <2>3, <3>1 DEF Windows
  <2> HIDE DEF next
  <2>6. Telling(p, 0, now, told)
    BY <1>1, TellingNew
  <2>7. WSpans(next, now, told)
    <3>1. 0 <= CurrentWindow(next) - HopFrames
      BY <2>5, WindowShares
    <3> QED BY <2>4, <2>6, <3>1 DEF WSpans
  <2>8. ASSUME /\ run <= n
               /\ \A k \in 1..run : p[n - k + 1] = now - 2 * k
               /\ \A f \in owed : f >= told /\ \E k \in 1..run : f = now - 2 * k
        PROVE  WHears(next, now, told, run, owed)
    <3>1. \A k \in 1..run : now - 2 * k \in ToSet(p)
      <4> TAKE k \in 1..run
      <4>1. n - k + 1 \in DOMAIN p /\ p[n - k + 1] = now - 2 * k
        BY <1>1, <2>8, Places
      <4> QED BY <4>1 DEF ToSet
    <3>2. Recent(run, now, told, ToSet(p))
      BY <3>1 DEF Recent
    <3>3. owed \subseteq ToSet(p)
      BY <2>8, <3>1
    <3> QED BY <2>4, <2>8, <3>2, <3>3 DEF WHears
  <2>9. ~(next.quiet >= ReleaseFrames)
    BY <1>2, <2>4
  <2>10. /\ WTells(Emit(next), now, told)
         /\ WHears(next, now, told, run, owed) => WHearsAfter(Emit(next), now, told, run, owed)
    BY <2>4, <2>5, <2>7, <2>9, EmitTells
  <2> QED BY <2>2, <2>8, <2>10
<1> QED BY <1>3, <1>4

\* push
LEMMA PushWindowTells ==
    ASSUME NEW w \in Windows, NEW now \in Int, NEW told \in Int, told <= now,
           WSpans(w, now, told), NEW active \in BOOLEAN, NEW run \in Nat, NEW owed, NEW more
    PROVE  WTakes(w, PushWindow(w, now, active), now, told, active, run, owed, more)
<1> DEFINE r == PushWindow(w, now, active)
           longer == RunAfter(run, active)
<1>1. longer \in Nat
  BY DEF RunAfter
<1>2. CASE ~w.open
  <2> DEFINE q == NewestFrames(Append(w.preRoll, now), WindowPreRoll)
             kept == [w EXCEPT !.preRoll = q]
  <2>1. w.preRoll \in Seq(Int) /\ Within(w.preRoll, told, now)
    BY <1>2 DEF Windows, WSpans
  <2>2. /\ q \in Seq(Int) /\ Len(q) > 0 /\ Len(q) <= WindowPreRoll
        /\ q[Len(q)] = now /\ Within(q, told, now + 2)
        /\ \A length \in Nat :
              /\ length < WindowPreRoll /\ length <= Len(w.preRoll)
              /\ \A k \in 1..length : w.preRoll[Len(w.preRoll) - k + 1] = now - 2 * k
              => /\ length + 1 <= Len(q)
                 /\ \A k \in 1..(length + 1) : q[Len(q) - k + 1] = (now + 2) - 2 * k
    BY <2>1, PreRollGrows
  <2>3. r = IF active THEN Knock(kept) ELSE Idle(kept)
    BY <1>2 DEF PushWindow
  <2> HIDE DEF q, r
  <2>4. /\ kept \in Windows /\ kept.preRoll = q /\ kept.samples = w.samples
        /\ kept.overlap = w.overlap /\ ~kept.open /\ kept.emitted = w.emitted
        /\ kept.activity = w.activity /\ kept.opening = w.opening
    BY <1>2, <2>2 DEF Windows
  <2> HIDE DEF kept
  <2>5. WSpans(kept, now + 2, told)
    BY <1>2, <2>2, <2>4 DEF WSpans
  <2>6. CASE active
    <3>1. Len(kept.preRoll) > 0 /\ Len(kept.preRoll) <= WindowPreRoll
          /\ kept.preRoll[Len(kept.preRoll)] = (now + 2) - 2
      BY <2>2, <2>4
    <3>2. ASSUME WHears(w, now, told, run, owed),
                 OwingWindow(more, owed, now + 2, told, longer)
          PROVE  /\ longer <= kept.opening + 1 /\ kept.opening < OpeningFrames
                 /\ longer <= Len(kept.preRoll)
                 /\ \A k \in 1..longer :
                       kept.preRoll[Len(kept.preRoll) - k + 1] = (now + 2) - 2 * k
                 /\ longer < OpeningFrames => more = {}
                 /\ \A f \in more : f >= told /\ \E k \in 1..longer : f = (now + 2) - 2 * k
      <4>1. owed = {} /\ KnocksAre(w, run, now)
        BY <1>2, <3>2 DEF WHears
      <4>2. longer = run + 1
        BY <2>6 DEF RunAfter
      <4>3. run < WindowPreRoll /\ run <= Len(w.preRoll) /\ run <= w.opening
            /\ w.opening < OpeningFrames /\ w.opening \in Nat
        <5>1. run <= w.opening /\ w.opening < OpeningFrames /\ run <= Len(w.preRoll)
          BY <4>1 DEF KnocksAre
        <5>2. w.opening \in Nat
          BY DEF Windows
        <5>3. OpeningFrames \in Nat /\ WindowPreRoll \in Nat /\ OpeningFrames <= WindowPreRoll
          BY WindowAssumption
        <5> QED BY <5>1, <5>2, <5>3
      <4>4. \A k \in 1..run : w.preRoll[Len(w.preRoll) - k + 1] = now - 2 * k
        BY <4>1 DEF KnocksAre
      <4>5. /\ run + 1 <= Len(q)
            /\ \A k \in 1..(run + 1) : q[Len(q) - k + 1] = (now + 2) - 2 * k
        BY <2>2, <4>3, <4>4
      <4>6. longer <= kept.opening + 1
        BY <2>4, <4>2, <4>3
      <4>7. /\ longer < OpeningFrames => more = {}
            /\ \A f \in more : f >= told /\ \E k \in 1..longer : f = (now + 2) - 2 * k
        BY <3>2, <4>1 DEF OwingWindow
      <4> HIDE DEF longer
      <4> QED BY <2>4, <4>2, <4>3, <4>5, <4>6, <4>7
    <3>3. now + 2 \in Int
      OBVIOUS
    <3> HIDE DEF longer
    <3>4. WTells(Knock(kept), now + 2, told)
      BY <1>1, <2>4, <2>5, <3>1, <3>3, KnockTells
    <3>5. ASSUME WHears(w, now, told, run, owed),
                 OwingWindow(more, owed, now + 2, told, longer)
          PROVE  WHearsAfter(Knock(kept), now + 2, told, longer, more)
      <4>1. /\ longer <= kept.opening + 1 /\ kept.opening < OpeningFrames
            /\ longer <= Len(kept.preRoll)
            /\ \A k \in 1..longer :
                  kept.preRoll[Len(kept.preRoll) - k + 1] = (now + 2) - 2 * k
            /\ longer < OpeningFrames => more = {}
            /\ \A f \in more : f >= told /\ \E k \in 1..longer : f = (now + 2) - 2 * k
        BY <3>2, <3>5
      <4> QED BY <1>1, <2>4, <2>5, <3>1, <3>3, <4>1, KnockTells
    <3> QED BY <2>3, <2>6, <3>4, <3>5 DEF WTakes, r, longer
  <2>7. CASE ~active
    <3>1. longer = 0
      BY <2>7 DEF RunAfter
    <3>2. now + 2 \in Int /\ 0 < OpeningFrames
      BY WindowAssumption
    <3>3. ASSUME WHears(w, now, told, run, owed),
                 OwingWindow(more, owed, now + 2, told, longer)
          PROVE  more = {}
      BY <1>2, <3>1, <3>2, <3>3 DEF WHears, OwingWindow
    <3>4. /\ WTells(Idle(kept), now + 2, told)
          /\ more = {} => WHearsAfter(Idle(kept), now + 2, told, 0, more)
      BY <2>4, <2>5, <3>2, IdleTells
    <3> QED BY <2>3, <2>7, <3>1, <3>3, <3>4 DEF WTakes, r
  <2> QED BY <2>6, <2>7 DEF r
<1>3. CASE w.open
  <2> DEFINE s == w.samples
             t == Append(s, now)
             quiet == IF active THEN 0 ELSE w.quiet + 1
             activity == w.activity \/ active
             next == [w EXCEPT !.samples = t, !.quiet = quiet, !.activity = activity]
  <2>1. r = Emit(next)
    BY <1>3 DEF PushWindow
  <2>2. /\ s \in Seq(Int) /\ w.overlap \in Nat /\ quiet \in Nat /\ activity \in BOOLEAN
        /\ Telling(s, w.overlap, now, told) /\ w.preRoll = <<>>
        /\ w.overlap <= CurrentWindow(w) - HopFrames /\ (~w.emitted => w.overlap = 0)
    BY <1>3 DEF Windows, WSpans
  <2>3. Telling(t, w.overlap, now + 2, told) /\ t \in Seq(Int) /\ ToSet(t) = ToSet(s) \cup {now}
    <3>1. /\ Len(s) > 0 /\ s[Len(s)] = now - 2 /\ w.overlap <= Len(s)
          /\ \A i, j \in 1..Len(s) : i < j => s[i] < s[j]
          /\ \A i \in 1..Len(s) : s[i] < told <=> i <= w.overlap
      <4> DEFINE o == w.overlap
      <4>1. s \in Seq(Int) /\ o \in Nat /\ Telling(s, o, now, told)
        BY <2>2
      <4> HIDE DEF s, o
      <4>2. /\ Len(s) > 0 /\ s[Len(s)] = now - 2 /\ o <= Len(s)
            /\ \A i, j \in 1..Len(s) : i < j => s[i] < s[j]
            /\ \A i \in 1..Len(s) : s[i] < told <=> i <= o
        BY <4>1, TellingIndex
      <4> QED BY <4>2 DEF o
    <3>2. \A i \in 1..Len(s) : s[i] < now
      <4> TAKE i \in 1..Len(s)
      <4>1. s[i] <= now - 2 /\ s[i] \in Int
        BY <2>2, TellingBelow
      <4> QED BY <4>1
    <3>3. s \in Seq(Int) /\ w.overlap \in Nat
      BY <2>2
    <3> HIDE DEF s
    <3>4. Telling(t, w.overlap, now + 2, told)
      BY <3>1, <3>2, <3>3, TellingAppend
    <3> QED BY <3>3, <3>4, RangeAppend, Appended
  <2> HIDE DEF t, quiet, activity, r
  <2>4. /\ next \in Windows /\ next.samples = t /\ next.quiet = quiet /\ next.activity = activity
        /\ next.open /\ next.preRoll = <<>> /\ next.overlap = w.overlap
        /\ next.emitted = w.emitted /\ CurrentWindow(next) = CurrentWindow(w)
    BY <1>3, <2>2, <2>3 DEF Windows, CurrentWindow
  <2> HIDE DEF next
  <2>5. WSpans(next, now + 2, told)
    BY <2>2, <2>3, <2>4 DEF WSpans
  <2>6. next.quiet >= ReleaseFrames => longer = 0
    <3>1. ReleaseFrames \in Nat /\ ReleaseFrames > 0
      BY WindowAssumption
    <3> QED BY <2>4, <3>1 DEF quiet, RunAfter
  <2>7. ASSUME WHears(w, now, told, run, owed),
               OwingWindow(more, owed, now + 2, told, longer)
        PROVE  WHears(next, now + 2, told, longer, more)
    <3>1. /\ Recent(run, now, told, ToSet(s)) /\ owed \subseteq ToSet(s)
          /\ ~w.activity => owed = {}
          /\ \A f \in owed : f >= told
      BY <1>3, <2>7 DEF WHears
    <3>2. Recent(longer, now + 2, told, ToSet(t))
      <4>1. CASE active
        <5>1. ToSet(s) \subseteq ToSet(t) /\ now \in ToSet(t)
          BY <2>3
        <5>2. longer = run + 1
          BY <4>1 DEF RunAfter
        <5> HIDE DEF s
        <5> QED BY <3>1, <5>1, <5>2, RecentNext
      <4>2. CASE ~active
        BY <4>2 DEF RunAfter, Recent
      <4> QED BY <4>1, <4>2
    <3>3. ASSUME NEW f \in more PROVE f \in ToSet(t) /\ f >= told
      <4>1. f \in owed \/ (f >= told /\ \E k \in 1..longer : f = (now + 2) - 2 * k)
        BY <2>7 DEF OwingWindow
      <4>2. CASE f \in owed
        BY <2>3, <3>1, <4>2
      <4>3. ASSUME NEW k \in 1..longer, f = (now + 2) - 2 * k, f >= told
            PROVE  f \in ToSet(t)
        <5>1. (now + 2) - 2 * k < told \/ (now + 2) - 2 * k \in ToSet(t)
          BY <3>2 DEF Recent
        <5>2. f \in Int
          BY <4>3
        <5> QED BY <4>3, <5>1, <5>2
      <4> QED BY <4>1, <4>2, <4>3
    <3>4. ~next.activity => more = {}
      <4> SUFFICES ASSUME ~next.activity PROVE more = {}
        OBVIOUS
      <4>1. ~w.activity /\ ~active
        BY <2>4 DEF activity
      <4>2. longer = 0 /\ 0 < OpeningFrames
        BY <4>1, WindowAssumption DEF RunAfter
      <4> QED BY <2>7, <3>1, <4>1, <4>2 DEF OwingWindow
    <3> QED BY <2>4, <3>2, <3>3, <3>4 DEF WHears
  <2>8. now + 2 \in Int
    OBVIOUS
  <2> HIDE DEF longer
  <2>9. /\ WTells(Emit(next), now + 2, told)
        /\ WHears(next, now + 2, told, longer, more) /\ (next.quiet >= ReleaseFrames => longer = 0)
           => WHearsAfter(Emit(next), now + 2, told, longer, more)
    BY <1>1, <2>4, <2>5, <2>8, EmitTells
  <2> QED BY <2>1, <2>6, <2>7, <2>9 DEF WTakes, r, longer
<1> QED BY <1>2, <1>3

-----------------------------------------------------------------------------
(* The other operations of the window *)

\* What the text density changes of a window alone does not matter here.
LEMMA SameWindow ==
    ASSUME NEW w \in Windows, NEW v \in Windows, NEW now, NEW told, NEW run, NEW owed,
           v.samples = w.samples, v.overlap = w.overlap, v.open = w.open,
           v.emitted = w.emitted, v.activity = w.activity, v.preRoll = w.preRoll,
           v.opening = w.opening, CurrentWindow(w) <= CurrentWindow(v)
    PROVE  /\ WSpans(w, now, told) => WSpans(v, now, told)
           /\ WHears(w, now, told, run, owed) => WHears(v, now, told, run, owed)
<1>1. WSpans(w, now, told) => WSpans(v, now, told)
  <2>1. CASE w.open
    <3>1. /\ w.overlap \in Nat /\ CurrentWindow(w) - HopFrames \in Nat
          /\ CurrentWindow(v) - HopFrames \in Nat
          /\ CurrentWindow(w) \in Nat /\ CurrentWindow(v) \in Nat /\ HopFrames \in Nat
      BY WindowShares, WindowAssumption DEF Windows
    <3>2. w.overlap <= CurrentWindow(w) - HopFrames => v.overlap <= CurrentWindow(v) - HopFrames
      BY <3>1
    <3> QED BY <2>1, <3>2 DEF WSpans
  <2>2. CASE ~w.open
    BY <2>2 DEF WSpans
  <2> QED BY <2>1, <2>2
<1>2. WHears(w, now, told, run, owed) => WHears(v, now, told, run, owed)
  BY DEF WHears, KnocksAre
<1> QED BY <1>1, <1>2

\* The window shrinks to its usual size: what leaves is overlap.
LEMMA ShrunkTells ==
    ASSUME NEW w \in Windows, NEW now \in Int, NEW told \in Int, WSpans(w, now, told),
           NEW run \in Nat, NEW owed
    PROVE  /\ WSpans(Shrunk(w), now, told)
           /\ WHears(w, now, told, run, owed) => WHears(Shrunk(w), now, told, run, owed)
<1> DEFINE size == WindowFrames - HopFrames
           excess == IF w.overlap > size THEN w.overlap - size ELSE 0
           s == w.samples
           left == Without(s, excess)
           overlap == w.overlap - excess
           next == [w EXCEPT !.expanded = FALSE, !.samples = left, !.overlap = overlap]
<1>1. s \in Seq(Int) /\ w.overlap \in Nat /\ Len(s) \in Nat
  BY DEF Windows
<1>2. size \in Nat /\ size >= 1 /\ WindowFrames \in Nat /\ HopFrames \in Nat
  BY WindowShares, WindowAssumption
<1>3. Shrunk(w) = next
  BY DEF Shrunk
<1> HIDE DEF size
<1>4. /\ excess \in Nat /\ excess <= w.overlap /\ overlap \in Nat /\ overlap <= size
      /\ (w.overlap > 0 => excess < w.overlap)
      /\ (w.overlap = 0 => excess = 0 /\ overlap = 0)
  BY <1>1, <1>2
<1> HIDE DEF excess, left, s
<1>5. overlap = w.overlap - excess
  OBVIOUS
<1> HIDE DEF overlap
<1>6. /\ next.samples = left /\ next.overlap = overlap /\ next.open = w.open
      /\ next.emitted = w.emitted /\ next.activity = w.activity /\ next.preRoll = w.preRoll
      /\ next.opening = w.opening /\ CurrentWindow(next) - HopFrames = size
  BY DEF Windows, CurrentWindow, size
<1> HIDE DEF next
<1>7. CASE w.open
  <2>1. Telling(s, w.overlap, now, told) /\ w.preRoll = <<>> /\ (~w.emitted => w.overlap = 0)
    BY <1>7 DEF WSpans, s
  <2>2. Len(s) > 0 /\ w.overlap <= Len(s)
    BY <1>1, <2>1, TellingIndex
  <2>3. excess < Len(s)
    BY <1>1, <1>4, <2>2
  <2>4. /\ Telling(left, overlap, now, told)
        /\ \A f \in ToSet(s) : f < told \/ f \in ToSet(left)
    BY <1>1, <1>4, <1>5, <2>1, <2>3, WithoutTells DEF left
  <2>5. WSpans(next, now, told)
    BY <1>4, <1>6, <1>7, <2>1, <2>4 DEF WSpans
  <2>6. ASSUME WHears(w, now, told, run, owed)
        PROVE  WHears(next, now, told, run, owed)
    <3>1. /\ Recent(run, now, told, ToSet(s)) /\ owed \subseteq ToSet(s)
          /\ ~w.activity => owed = {}
          /\ \A f \in owed : f >= told
      BY <1>7, <2>6 DEF WHears, s
    <3>2. Recent(run, now, told, ToSet(left))
      BY <2>4, <3>1 DEF Recent
    <3>3. owed \subseteq ToSet(left)
      <4> SUFFICES ASSUME NEW f \in owed PROVE f \in ToSet(left)
        OBVIOUS
      <4>1. f \in ToSet(s) /\ f >= told
        BY <3>1
      <4>2. f \in Int
        BY <1>1, <4>1, Places DEF ToSet
      <4>3. ~(f < told)
        BY <4>1, <4>2
      <4> QED BY <2>4, <4>1, <4>3
    <3> QED BY <1>6, <1>7, <3>1, <3>2, <3>3 DEF WHears
  <2> QED BY <1>3, <2>5, <2>6
<1>8. CASE ~w.open
  <2>1. s = <<>> /\ w.overlap = 0 /\ ~w.emitted /\ ~w.activity /\ Within(w.preRoll, told, now)
    BY <1>8 DEF WSpans, s
  <2>2. left = <<>>
    <3>1. Without(s, 0) \in Seq(Int) /\ Len(Without(s, 0)) = 0
      <4>1. Len(s) = 0 /\ 0 \in Nat /\ 0 <= Len(s)
        BY <2>1
      <4>2. Without(s, 0) \in Seq(Int) /\ Len(Without(s, 0)) = Len(s) - 0
        BY <1>1, <4>1, WithoutIs
      <4> QED BY <4>1, <4>2
    <3>2. Without(s, 0) = <<>>
      <4> DEFINE t == Without(s, 0)
      <4> HIDE DEF t
      <4>1. t \in Seq(Int) /\ Len(t) = 0
        BY <3>1 DEF t
      <4>2. t = <<>>
        BY <4>1, EmptySeq
      <4> QED BY <4>2 DEF t
    <3> QED BY <1>4, <2>1, <3>2 DEF left
  <2>3. overlap = 0
    BY <1>4, <2>1
  <2>4. WSpans(next, now, told)
    BY <1>6, <1>8, <2>1, <2>2, <2>3 DEF WSpans
  <2>5. WHears(w, now, told, run, owed) => WHears(next, now, told, run, owed)
    BY <1>6, <1>8 DEF WHears, KnocksAre
  <2> QED BY <1>3, <2>4, <2>5
<1> QED BY <1>7, <1>8

\* observe_text_density
LEMMA ObserveTells ==
    ASSUME NEW w \in Windows, NEW now \in Int, NEW told \in Int, WSpans(w, now, told),
           NEW run \in Nat, NEW owed, NEW density
    PROVE  /\ WSpans(Observe(w, density), now, told)
           /\ WHears(w, now, told, run, owed) => WHears(Observe(w, density), now, told, run, owed)
<1> DEFINE sparse == IF density = "sparse" THEN Smaller(w.sparse + 1, 2) ELSE 0
           dense == IF density = "dense" THEN Smaller(w.dense + 1, 2) ELSE 0
           counted == [w EXCEPT !.sparse = sparse, !.dense = dense]
           larger == [counted EXCEPT !.expanded = TRUE]
<1>1. sparse \in Nat /\ dense \in Nat
  <2>1. w.sparse \in Nat /\ w.dense \in Nat
    BY DEF Windows
  <2>2. \A n \in Nat : Smaller(n + 1, 2) \in Nat
    BY DEF Smaller
  <2> QED BY <2>1, <2>2
<1>2. \/ Observe(w, density) = w \/ Observe(w, density) = larger
      \/ Observe(w, density) = Shrunk(counted) \/ Observe(w, density) = counted
  BY DEF Observe
<1> HIDE DEF sparse, dense
<1>3. /\ counted \in Windows
      /\ counted.samples = w.samples /\ counted.overlap = w.overlap /\ counted.open = w.open
      /\ counted.emitted = w.emitted /\ counted.activity = w.activity
      /\ counted.preRoll = w.preRoll /\ counted.opening = w.opening
      /\ counted.expanded = w.expanded
  BY <1>1 DEF Windows
<1> HIDE DEF counted
<1>4. CurrentWindow(w) <= CurrentWindow(counted)
  BY <1>3, WindowShares DEF CurrentWindow
<1>5. /\ WSpans(counted, now, told)
      /\ WHears(w, now, told, run, owed) => WHears(counted, now, told, run, owed)
  BY <1>3, <1>4, SameWindow
<1>6. /\ WSpans(Shrunk(counted), now, told)
      /\ WHears(w, now, told, run, owed) => WHears(Shrunk(counted), now, told, run, owed)
  BY <1>3, <1>5, ShrunkTells
<1>7. /\ WSpans(larger, now, told)
      /\ WHears(w, now, told, run, owed) => WHears(larger, now, told, run, owed)
  <2>1. /\ larger \in Windows
        /\ larger.samples = counted.samples /\ larger.overlap = counted.overlap
        /\ larger.open = counted.open /\ larger.emitted = counted.emitted
        /\ larger.activity = counted.activity /\ larger.preRoll = counted.preRoll
        /\ larger.opening = counted.opening /\ larger.expanded
    BY <1>3 DEF Windows
  <2> HIDE DEF larger
  <2>2. CurrentWindow(counted) <= CurrentWindow(larger)
    BY <2>1, WindowAssumption DEF CurrentWindow
  <2> QED BY <1>3, <1>5, <2>1, <2>2, SameWindow
<1> QED BY <1>2, <1>5, <1>6, <1>7

LEMMA WHearsNoRun ==
    ASSUME NEW w \in Windows, NEW now, NEW told, NEW run \in Nat, NEW owed,
           WHears(w, now, told, run, owed)
    PROVE  WHears(w, now, told, 0, owed)
<1>1. 0 <= w.opening /\ 0 <= Len(w.preRoll)
  BY DEF Windows
<1>2. KnocksAre(w, run, now) => KnocksAre(w, 0, now)
  BY <1>1 DEF KnocksAre
<1> QED BY <1>2 DEF WHears, Recent

\* A window without audio
LEMMA EmptyWindowTells ==
    ASSUME NEW w, w.samples = <<>>, w.overlap = 0, ~w.open, ~w.emitted, ~w.activity,
           w.preRoll = <<>>, w.opening = 0, NEW now, NEW told
    PROVE  WSpans(w, now, told) /\ WHears(w, now, told, 0, {})
<1>1. KnocksAre(w, 0, now)
  <2>1. 0 < OpeningFrames /\ Len(w.preRoll) = 0
    BY WindowAssumption
  <2> QED BY <2>1 DEF KnocksAre
<1> QED BY <1>1, WithinNothing DEF WSpans, WHears

LEMMA ResetWindowTells ==
    ASSUME NEW w \in Windows, NEW now, NEW told
    PROVE  WSpans(ResetWindow(w), now, told) /\ WHears(ResetWindow(w), now, told, 0, {})
<1> DEFINE v == ResetWindow(w)
<1>1. /\ v.samples = <<>> /\ v.overlap = 0 /\ ~v.open /\ ~v.emitted /\ ~v.activity
      /\ v.preRoll = <<>> /\ v.opening = 0
  BY DEF Windows, Closed, ResetWindow
<1> HIDE DEF v
<1>2. WSpans(v, now, told) /\ WHears(v, now, told, 0, {})
  BY <1>1, EmptyWindowTells
<1> QED BY <1>2 DEF v

LEMMA NewWindowTells ==
    ASSUME NEW adaptive, NEW now, NEW told
    PROVE  WSpans(NewWindow(adaptive), now, told) /\ WHears(NewWindow(adaptive), now, told, 0, {})
<1> DEFINE v == NewWindow(adaptive)
<1>1. /\ v.samples = <<>> /\ v.overlap = 0 /\ ~v.open /\ ~v.emitted /\ ~v.activity
      /\ v.preRoll = <<>> /\ v.opening = 0
  BY DEF NewWindow
<1> HIDE DEF v
<1>2. WSpans(v, now, told) /\ WHears(v, now, told, 0, {})
  BY <1>1, EmptyWindowTells
<1> QED BY <1>2 DEF v

\* flush
LEMMA FlushWindowTells ==
    ASSUME NEW w \in Windows, NEW now \in Int, NEW told \in Int, WSpans(w, now, told),
           NEW run \in Nat, NEW owed
    PROVE  LET r == FlushWindow(w)
           IN /\ WTells(r, now, told)
              /\ WHears(w, now, told, run, owed) => WHearsAfter(r, now, told, 0, owed)
<1> DEFINE r == FlushWindow(w)
           none == <<>>
<1>1. CASE ~w.open
  <2> DEFINE v == [w EXCEPT !.preRoll = none]
  <2>1. r.window = v /\ r.out = <<>>
    BY <1>1 DEF FlushWindow, Quietly
  <2>2. /\ v.samples = w.samples /\ v.overlap = w.overlap /\ v.open = w.open
        /\ v.emitted = w.emitted /\ v.activity = w.activity /\ v.opening = w.opening
        /\ v.preRoll = <<>>
    BY DEF Windows
  <2> HIDE DEF v, r
  <2>3. WSpans(v, now, told)
    BY <1>1, <2>2, WithinNothing DEF WSpans
  <2>4. ASSUME WHears(w, now, told, run, owed)
        PROVE  WHears(v, now, told, 0, owed \ LeftBehind(v))
    <3>1. w.opening < OpeningFrames /\ 0 <= w.opening /\ Len(v.preRoll) = 0 /\ owed = {}
      BY <1>1, <2>2, <2>4 DEF WHears, KnocksAre, Windows
    <3>2. KnocksAre(v, 0, now)
      BY <2>2, <3>1 DEF KnocksAre
    <3> QED BY <1>1, <2>2, <3>1, <3>2 DEF WHears
  <2> QED BY <2>1, <2>3, <2>4 DEF WTells, WHearsAfter, Silently, r
<1>2. CASE w.open
  <2>1. /\ r.window = ResetWindow(w)
        /\ r.out = IF w.activity THEN <<WindowEvent(w.samples, w.overlap, "flushed")>> ELSE <<>>
    BY <1>2 DEF FlushWindow
  <2> HIDE DEF r
  <2>2. /\ WTells(r, now, told)
        /\ WHears(w, now, told, 0, owed) => WHearsAfter(r, now, told, 0, owed)
    <3>1. r.window = Closed(w, 0) \/ r.window = ResetWindow(w)
      BY <2>1
    <3>2. \A idle, reason :
            /\ reason # "ended"
            /\ r.window = Closed(w, idle) \/ r.window = ResetWindow(w)
            /\ r.out = IF w.activity THEN <<WindowEvent(w.samples, w.overlap, reason)>> ELSE <<>>
            => /\ WTells(r, now, told)
               /\ WHears(w, now, told, 0, owed) => WHearsAfter(r, now, told, 0, owed)
      BY <1>2, CloseGateTells
    <3>3. "flushed" # "ended"
      OBVIOUS
    <3> QED BY <2>1, <3>1, <3>2, <3>3
  <2> QED BY <2>2, WHearsNoRun DEF r
<1> QED BY <1>1, <1>2

-----------------------------------------------------------------------------
(* Events *)

\* The frames of an event go up, and what it declares is what it repeats.
Honest(e) == Increasing(e.frames) /\ e.repeated = e.overlap

\* An event is where its audio is.
Placed(e, received) ==
    Contiguous(e.frames) =>
        /\ e.start = Head(e.frames)
        /\ e.end = Least(Last(e.frames) + 2, received)

LEMMA EventsAre ==
    ASSUME NEW end, NEW padding, NEW before
    PROVE  /\ [i \in DOMAIN <<>> |-> WithTimeline(<<>>[i], end, padding, before)] = <<>>
           /\ \A u : [i \in DOMAIN <<u>> |-> WithTimeline(<<u>>[i], end, padding, before)]
                       = <<WithTimeline(u, end, padding, before)>>
<1>1. [i \in DOMAIN <<>> |-> WithTimeline(<<>>[i], end, padding, before)] = <<>>
  OBVIOUS
<1>2. ASSUME NEW u
      PROVE  [i \in DOMAIN <<u>> |-> WithTimeline(<<u>>[i], end, padding, before)]
               = <<WithTimeline(u, end, padding, before)>>
  <2> DEFINE e == WithTimeline(u, end, padding, before)
  <2>1. DOMAIN <<u>> = {1} /\ DOMAIN <<e>> = {1} /\ <<u>>[1] = u /\ <<e>>[1] = e
    OBVIOUS
  <2> HIDE DEF e
  <2>2. [i \in DOMAIN <<u>> |-> WithTimeline(<<u>>[i], end, padding, before)]
          = [i \in {1} |-> WithTimeline(<<u>>[i], end, padding, before)]
    BY <2>1
  <2>3. [i \in {1} |-> WithTimeline(<<u>>[i], end, padding, before)] = [i \in {1} |-> e]
    BY <2>1 DEF e
  <2>4. [i \in {1} |-> e] = <<e>>
    BY <2>1
  <2> QED BY <2>2, <2>3, <2>4 DEF e
<1> QED BY <1>1, <1>2

LEMMA AfterEvents ==
    ASSUME NEW before
    PROVE  /\ EmittedAfter(<<>>, before) = before
           /\ \A e : EmittedAfter(<<e>>, before) = Last(e.frames) + 1
           /\ \A d, e : EmittedAfter(<<d, e>>, before) = Last(e.frames) + 1
BY DEF EmittedAfter, Last

LEMMA FramesOfEvents ==
    /\ FramesOf(<<>>) = {}
    /\ \A e : FramesOf(<<e>>) = ToSet(e.frames)
    /\ \A d, e : FramesOf(<<d, e>>) = ToSet(d.frames) \cup ToSet(e.frames)
<1>1. FramesOf(<<>>) = {}
  BY DEF FramesOf
<1>2. ASSUME NEW e PROVE FramesOf(<<e>>) = ToSet(e.frames)
  <2>1. DOMAIN <<e>> = {1} /\ <<e>>[1] = e
    OBVIOUS
  <2> QED BY <2>1 DEF FramesOf
<1>3. ASSUME NEW d, NEW e PROVE FramesOf(<<d, e>>) = ToSet(d.frames) \cup ToSet(e.frames)
  <2>1. DOMAIN <<d, e>> = {1, 2} /\ <<d, e>>[1] = d /\ <<d, e>>[2] = e
    OBVIOUS
  <2> QED BY <2>1 DEF FramesOf
<1> QED BY <1>1, <1>2, <1>3

LEMMA TwoEvents ==
    /\ <<>> \o <<>> = <<>>
    /\ \A e : <<e>> \o <<>> = <<e>> /\ <<>> \o <<e>> = <<e>>
    /\ \A d, e : <<d>> \o <<e>> = <<d, e>>
<1>1. <<>> \o <<>> = <<>>
  <2>1. <<>> \in Seq(Int)
    OBVIOUS
  <2> QED BY <2>1, ConcatEmptySeq
<1>2. ASSUME NEW e PROVE <<e>> \o <<>> = <<e>> /\ <<>> \o <<e>> = <<e>>
  <2>1. <<e>> \in Seq({e})
    OBVIOUS
  <2> QED BY <2>1, ConcatEmptySeq
<1>3. ASSUME NEW d, NEW e PROVE <<d>> \o <<e>> = <<d, e>>
  <2> DEFINE first == <<d>>
             second == <<e>>
             t == first \o second
  <2>1. /\ first \in Seq({d, e}) /\ second \in Seq({d, e})
        /\ Len(first) = 1 /\ Len(second) = 1 /\ first[1] = d /\ second[1] = e
    OBVIOUS
  <2> HIDE DEF first, second
  <2>2. /\ t \in Seq({d, e}) /\ Len(t) = Len(first) + Len(second)
        /\ \A i \in 1..Len(first) : t[i] = first[i]
        /\ \A i \in 1..Len(second) : t[Len(first) + i] = second[i]
    <3> DEFINE S == {d, e}
    <3>1. first \in Seq(S) /\ second \in Seq(S)
      BY <2>1
    <3> HIDE DEF S
    <3>2. /\ first \o second \in Seq(S) /\ Len(first \o second) = Len(first) + Len(second)
          /\ \A i \in 1..Len(first) : (first \o second)[i] = first[i]
          /\ \A i \in 1..Len(second) : (first \o second)[Len(first) + i] = second[i]
      BY <3>1, Joined
    <3> QED BY <3>2 DEF S
  <2> HIDE DEF t
  <2>3. t \in Seq({d, e}) /\ Len(t) = 2 /\ t[1] = d /\ t[2] = e
    BY <2>1, <2>2
  <2>4. t = <<d, e>>
    BY <2>3
  <2> QED BY <2>4 DEF t, first, second
<1> QED BY <1>1, <1>2, <1>3

LEMMA InEvents ==
    /\ ToSet(<<>>) = {}
    /\ \A e : ToSet(<<e>>) = {e}
    /\ \A d, e : ToSet(<<d, e>>) = {d, e}
<1>1. \A e : DOMAIN <<e>> = {1} /\ <<e>>[1] = e
  OBVIOUS
<1>2. \A d, e : DOMAIN <<d, e>> = {1, 2} /\ <<d, e>>[1] = d /\ <<d, e>>[2] = e
  OBVIOUS
<1>3. ToSet(<<>>) = {}
  BY DEF ToSet
<1>4. \A e : ToSet(<<e>>) = {e}
  BY <1>1 DEF ToSet
<1>5. \A d, e : ToSet(<<d, e>>) = {d, e}
  BY <1>2 DEF ToSet
<1> QED BY <1>3, <1>4, <1>5

\* with_timeline, of an utterance that tells all up to the frame before `to`
LEMMA EventRight ==
    ASSUME NEW u, NEW to \in Int, NEW told \in Int, Said(u, to, told),
           NEW end \in Int, NEW padding \in {0, 1}, end = to - padding,
           NEW received \in Int, end <= received, padding = 1 => received = end
    PROVE  LET e == WithTimeline(u, end, padding, told)
           IN /\ e.frames = u.frames /\ e.reason # "ended"
              /\ Last(e.frames) + 1 = to - 1
              /\ Honest(e) /\ Placed(e, received)
<1> DEFINE e == WithTimeline(u, end, padding, told)
           s == u.frames
           n == Len(s)
<1>1. /\ s \in Seq(Int) /\ u.overlap \in Nat /\ u.reason # "ended"
      /\ Telling(s, u.overlap, to, told)
  BY DEF Said
<1>2. /\ e.frames = s /\ e.overlap = u.overlap /\ e.reason = u.reason
      /\ e.start = end - (2 * n - padding) /\ e.end = end
      /\ e.repeated = Cardinality({i \in DOMAIN s : s[i] < told})
  BY DEF WithTimeline
<1> HIDE DEF e, s, n
<1>3. /\ Len(s) > 0 /\ Increasing(s) /\ Last(s) = to - 2 /\ Repeats(s, u.overlap, told)
  BY <1>1 DEF Telling
<1>4. Honest(e)
  BY <1>1, <1>2, <1>3, RepeatsCounted DEF Honest
<1>5. ASSUME Contiguous(s)
      PROVE  e.start = Head(s) /\ e.end = Least(Last(s) + 2, received)
  <2>1. Last(s) = Head(s) + 2 * (n - 1)
    BY <1>1, <1>3, <1>5, ContiguousLength DEF n
  <2>2. n \in Nat /\ Head(s) \in Int
    <3>1. 1 \in 1..Len(s) /\ Head(s) = s[1] /\ s[1] \in Int
      BY <1>1, <1>3, Places
    <3> QED BY <1>1, <3>1 DEF n
  <2>3. e.start = Head(s)
    BY <1>2, <1>3, <2>1, <2>2
  <2>4. e.end = Least(Last(s) + 2, received)
    BY <1>2, <1>3 DEF Least
  <2> QED BY <2>3, <2>4
<1>6. Placed(e, received)
  BY <1>2, <1>5 DEF Placed
<1>7. Last(e.frames) + 1 = to - 1
  BY <1>2, <1>3
<1> QED BY <1>1, <1>2, <1>4, <1>6, <1>7 DEF e, s

\* The frames owed with a frame are those of the run.
LEMMA OwedIs ==
    ASSUME NEW frame \in Int, NEW run \in Nat, NEW told \in Int,
           NEW f \in {g \in OwedWith(frame, run) : g >= told}
    PROVE  ~(run < Needed) /\ f >= told /\ \E k \in 1..run : f = (frame + 2) - 2 * k
<1>1. Needed \in Nat /\ Needed > 0
  BY EndpointAssumption, WindowAssumption DEF Needed
<1>2. CASE run < Needed
  BY <1>2 DEF OwedWith
<1>3. CASE run = Needed
  <2>1. PICK k \in 0..(Needed - 1) : f = frame - 2 * k
    BY <1>3 DEF OwedWith
  <2> DEFINE j == k + 1
  <2>2. j \in 1..run /\ f = (frame + 2) - 2 * j
    BY <1>1, <1>3, <2>1
  <2> QED BY <1>3, <2>2
<1>4. CASE ~(run < Needed) /\ run # Needed
  <2>1. f = frame
    BY <1>4 DEF OwedWith
  <2>2. 1 \in 1..run /\ f = (frame + 2) - 2 * 1
    BY <1>1, <1>4, <2>1
  <2> QED BY <1>4, <2>2
<1> QED BY <1>2, <1>3, <1>4

\* With no run it does not matter when it is.
LEMMA HearsQuiet ==
    ASSUME NEW d, NEW now, NEW told, NEW run, NEW owed, NEW later, NEW before,
           Hears(d, now, told, run, owed)
    PROVE  Hears(d, later, before, 0, owed)
<1>1. \A S : Recent(0, later, before, S)
  BY DEF Recent
<1>2. d.active.count > 0 \/ d.overlap # <<>> => Hears(d, later, before, 0, owed)
  BY <1>1 DEF Hears
<1>3. ~(d.active.count > 0) /\ d.overlap = <<>> => Hears(d, later, before, 0, owed)
  <2>1. EndsInRun(d.opening, run, now) => EndsInRun(d.opening, 0, later)
    BY DEF EndsInRun
  <2> QED BY <2>1, EndpointAssumption DEF Hears
<1> QED BY <1>2, <1>3

AtMostOne(events) == events = <<>> \/ \E e : events = <<e>>

\* Utterances to tell: none, or one that tells all up to the frame before `to`
Saying(uttered, to, told) == uttered = <<>> \/ \E u : uttered = <<u>> /\ Said(u, to, told)

\* with_timeline, of what an operation returned
LEMMA EventsRight ==
    ASSUME NEW uttered, NEW to \in Int, NEW told \in Int, Saying(uttered, to, told),
           NEW end \in Int, NEW padding \in {0, 1}, end = to - padding,
           NEW received \in Int, end <= received, padding = 1 => received = end
    PROVE  LET events == [i \in DOMAIN uttered |-> WithTimeline(uttered[i], end, padding, told)]
           IN /\ AtMostOne(events) /\ FramesOf(events) = FramesOf(uttered)
              /\ \A before : EmittedAfter(events, before) = EmittedAfter(uttered, before)
              /\ \A before : EmittedAfter(uttered, before)
                               = IF uttered = <<>> THEN before ELSE to - 1
              /\ \A e \in ToSet(events) :
                    e.reason # "ended" /\ Honest(e) /\ Placed(e, received)
<1> DEFINE events == [i \in DOMAIN uttered |-> WithTimeline(uttered[i], end, padding, told)]
<1>1. CASE uttered = <<>>
  <2>1. events = <<>>
    BY <1>1, EventsAre
  <2> HIDE DEF events
  <2> QED BY <1>1, <2>1, AfterEvents, InEvents DEF AtMostOne, events
<1>2. ASSUME NEW u, uttered = <<u>>, Said(u, to, told)
      PROVE  /\ AtMostOne(events) /\ FramesOf(events) = FramesOf(uttered)
             /\ \A before : EmittedAfter(events, before) = EmittedAfter(uttered, before)
             /\ \A before : EmittedAfter(uttered, before)
                              = IF uttered = <<>> THEN before ELSE to - 1
             /\ \A e \in ToSet(events) :
                   e.reason # "ended" /\ Honest(e) /\ Placed(e, received)
  <2> DEFINE e == WithTimeline(u, end, padding, told)
  <2>1. events = <<e>>
    BY <1>2, EventsAre
  <2>2. /\ e.frames = u.frames /\ e.reason # "ended" /\ Last(e.frames) + 1 = to - 1
        /\ Honest(e) /\ Placed(e, received)
    <3>1. e.frames = u.frames /\ e.reason # "ended"
      BY <1>2, EventRight
    <3>2. Last(e.frames) + 1 = to - 1
      BY <1>2, EventRight
    <3>3. Honest(e)
      BY <1>2, EventRight
    <3>4. Placed(e, received)
      BY <1>2, EventRight
    <3> QED BY <3>1, <3>2, <3>3, <3>4
  <2> HIDE DEF e, events
  <2>3. AtMostOne(events) /\ uttered # <<>>
    BY <1>2, <2>1 DEF AtMostOne
  <2>4. FramesOf(events) = FramesOf(uttered)
    BY <1>2, <2>1, <2>2, FramesOfEvents
  <2>5. \A before : EmittedAfter(events, before) = to - 1 /\ EmittedAfter(uttered, before) = to - 1
    <3> TAKE before
    <3>1. EmittedAfter(<<e>>, before) = Last(e.frames) + 1
      BY AfterEvents
    <3>2. EmittedAfter(<<u>>, before) = Last(u.frames) + 1
      BY AfterEvents
    <3> QED BY <1>2, <2>1, <2>2, <3>1, <3>2
  <2>6. ToSet(events) = {e}
    BY <2>1, InEvents
  <2> QED BY <2>2, <2>3, <2>4, <2>5, <2>6
<1> QED BY <1>1, <1>2 DEF Saying

LEMMA BothEvents ==
    ASSUME NEW first, NEW second, AtMostOne(first), AtMostOne(second)
    PROVE  /\ ToSet(first \o second) = ToSet(first) \cup ToSet(second)
           /\ FramesOf(first \o second) = FramesOf(first) \cup FramesOf(second)
           /\ \A before : EmittedAfter(first \o second, before)
                            = EmittedAfter(second, EmittedAfter(first, before))
<1>1. CASE first = <<>> /\ second = <<>>
  <2>1. first \o second = <<>>
    BY <1>1, TwoEvents
  <2> QED BY <1>1, <2>1, InEvents, FramesOfEvents, AfterEvents
<1>2. ASSUME NEW e, \/ first = <<e>> /\ second = <<>>
                    \/ first = <<>> /\ second = <<e>>
      PROVE  /\ ToSet(first \o second) = ToSet(first) \cup ToSet(second)
             /\ FramesOf(first \o second) = FramesOf(first) \cup FramesOf(second)
             /\ \A before : EmittedAfter(first \o second, before)
                              = EmittedAfter(second, EmittedAfter(first, before))
  <2>1. first \o second = <<e>>
    BY <1>2, TwoEvents
  <2>2. ToSet(<<>>) = {} /\ FramesOf(<<>>) = {}
        /\ (\A before : EmittedAfter(<<>>, before) = before)
        /\ (\A before : EmittedAfter(<<e>>, before) = Last(e.frames) + 1)
    BY InEvents, FramesOfEvents, AfterEvents
  <2>3. CASE first = <<e>> /\ second = <<>>
    BY <2>1, <2>2, <2>3
  <2>4. CASE first = <<>> /\ second = <<e>>
    BY <2>1, <2>2, <2>4
  <2> QED BY <1>2, <2>3, <2>4
<1>3. ASSUME NEW d, NEW e, first = <<d>>, second = <<e>>
      PROVE  /\ ToSet(first \o second) = ToSet(first) \cup ToSet(second)
             /\ FramesOf(first \o second) = FramesOf(first) \cup FramesOf(second)
             /\ \A before : EmittedAfter(first \o second, before)
                              = EmittedAfter(second, EmittedAfter(first, before))
  <2>1. first \o second = <<d, e>>
    BY <1>3, TwoEvents
  <2>2. ToSet(first \o second) = ToSet(first) \cup ToSet(second)
    <3>1. ToSet(<<d, e>>) = {d, e} /\ ToSet(<<d>>) = {d} /\ ToSet(<<e>>) = {e}
      BY InEvents
    <3> QED BY <1>3, <2>1, <3>1
  <2>3. FramesOf(first \o second) = FramesOf(first) \cup FramesOf(second)
    <3>1. /\ FramesOf(<<d, e>>) = ToSet(d.frames) \cup ToSet(e.frames)
          /\ FramesOf(<<d>>) = ToSet(d.frames) /\ FramesOf(<<e>>) = ToSet(e.frames)
      BY FramesOfEvents
    <3> QED BY <1>3, <2>1, <3>1
  <2>4. \A before : EmittedAfter(first \o second, before)
                      = EmittedAfter(second, EmittedAfter(first, before))
    <3> TAKE before
    <3>1. EmittedAfter(<<d, e>>, before) = Last(e.frames) + 1
      BY DEF EmittedAfter, Last
    <3>2. \A b : EmittedAfter(<<e>>, b) = Last(e.frames) + 1
      BY AfterEvents
    <3> QED BY <1>3, <2>1, <3>1, <3>2
  <2> QED BY <2>2, <2>3, <2>4
<1> QED BY <1>1, <1>2, <1>3 DEF AtMostOne

\* Result r of a change of speaker before the frame `now`: all was told up to
\* `before`, and `left` is still owed.
Divides(d, r, now, told, run, longer, owed, more, before, left) ==
    /\ before \in Int /\ before = IF r.out = <<>> THEN told ELSE now - 1
    /\ before <= now /\ Saying(r.out, now, told)
    /\ r.detector \in Detectors /\ Spans(r.detector, now, before)
    /\ /\ MaxOverlapFrames > 0 /\ Hears(d, now, told, run, owed)
       /\ Owing(more, owed, now + 2, told, longer)
       => /\ Hears(r.detector, now, before, run, left)
          /\ Owing(more \ FramesOf(r.out), left, now + 2, before, longer)

\* push_pcm, when the speaker may have changed before the frame `now`
LEMMA SplitPhase ==
    ASSUME NEW s \in Nat \ {0}, NEW d, DetectorInv(d, s), NEW now \in Int, NEW told \in Int,
           told <= now, Spans(d, now, told), NEW cut \in BOOLEAN, NEW speech \in BOOLEAN,
           NEW run \in Nat, NEW owed, NEW more
    PROVE  \E before, left :
              Divides(d, IF cut THEN Split(d) ELSE Nothing(d), now, told, run,
                      RunAfter(run, speech), owed, more, before, left)
<1> DEFINE split == IF cut THEN Split(d) ELSE Nothing(d)
           longer == RunAfter(run, speech)
<1> SUFFICES \E before, left :
                /\ before \in Int /\ before = IF split.out = <<>> THEN told ELSE now - 1
                /\ before <= now /\ Saying(split.out, now, told)
                /\ split.detector \in Detectors /\ Spans(split.detector, now, before)
                /\ /\ MaxOverlapFrames > 0 /\ Hears(d, now, told, run, owed)
                   /\ Owing(more, owed, now + 2, told, longer)
                   => /\ Hears(split.detector, now, before, run, left)
                      /\ Owing(more \ FramesOf(split.out), left, now + 2, before, longer)
  BY DEF Divides
<1>1. d \in Detectors /\ split.detector \in Detectors
  BY SplitInv DEF Nothing, DetectorInv
<1>2. CASE ~(cut /\ Speaking(d))
  <2>1. split.out = <<>> /\ split.detector = d
    BY <1>2 DEF Split, Nothing
  <2> HIDE DEF split, longer
  <2>2. Saying(split.out, now, told) /\ more \ FramesOf(split.out) = more
    BY <2>1, FramesOfEvents DEF Saying
  <2>3. WITNESS told, owed
  <2> QED BY <1>1, <2>1, <2>2
<1>3. CASE cut /\ Speaking(d)
  <2>1. split = Split(d)
    BY <1>3
  <2> HIDE DEF split
  <2>2. /\ \E u : split.out = <<u>> /\ Said(u, now, told) /\ u.frames = d.active.frames
        /\ Rested(split.detector, now - 1)
        /\ MaxOverlapFrames > 0 => split.detector.overlap # <<>>
    BY <1>1, <1>3, <2>1, SplitTells
  <2>3. PICK u : split.out = <<u>> /\ Said(u, now, told) /\ u.frames = d.active.frames
    BY <2>2
  <2>4. Saying(split.out, now, told) /\ split.out # <<>> /\ FramesOf(split.out) = ToSet(d.active.frames)
    BY <2>3, FramesOfEvents DEF Saying
  <2>5. Spans(split.detector, now, now - 1)
    BY <2>2 DEF Spans
  <2>6. ASSUME MaxOverlapFrames > 0, Hears(d, now, told, run, owed),
               Owing(more, owed, now + 2, told, longer)
        PROVE  /\ Hears(split.detector, now, now - 1, run, {})
               /\ Owing(more \ FramesOf(split.out), {}, now + 2, now - 1, longer)
    <3>1. Hears(split.detector, now, now - 1, run, {})
      BY <2>2, <2>6, RestedHears
    <3>2. owed \subseteq ToSet(d.active.frames)
          /\ Recent(run, now, told, ToSet(d.active.frames))
      BY <1>3, <2>6 DEF Hears, Speaking
    <3>3. longer < MinSpeechFrames => more \ FramesOf(split.out) \subseteq {}
      BY <2>4, <2>6, <3>2 DEF Owing
    <3>4. ASSUME NEW f \in more \ FramesOf(split.out)
          PROVE  f >= now - 1 /\ \E k \in 1..longer : f = (now + 2) - 2 * k
      <4>1. f \notin owed
        BY <2>4, <3>2
      <4>2. f >= told /\ \E k \in 1..longer : f = (now + 2) - 2 * k
        BY <2>6, <4>1 DEF Owing
      <4>3. PICK k \in 1..longer : f = (now + 2) - 2 * k
        BY <4>2
      <4>4. f >= now - 1
        <5>1. CASE k = 1
          BY <4>3, <5>1
        <5>2. CASE k # 1
          <6> DEFINE j == k - 1
          <6>1. longer = run + 1 \/ longer = 0
            BY DEF RunAfter, longer
          <6>2. j \in 1..run /\ f = now - 2 * j
            <7> HIDE DEF longer
            <7> QED BY <4>3, <5>2, <6>1
          <6> HIDE DEF j
          <6>3. f < told \/ f \in ToSet(d.active.frames)
            BY <3>2, <6>2 DEF Recent
          <6>4. f \in Int /\ ~(f < told)
            BY <4>2, <6>2
          <6> QED BY <2>4, <6>3, <6>4
        <5> QED BY <5>1, <5>2
      <4> QED BY <4>2, <4>4
    <3> HIDE DEF longer
    <3> QED BY <3>1, <3>3, <3>4 DEF Owing
  <2>7. now - 1 \in Int /\ now - 1 <= now
    OBVIOUS
  <2> HIDE DEF longer
  <2>8. WITNESS now - 1, {}
  <2> QED BY <1>1, <2>4, <2>5, <2>6, <2>7
<1> QED BY <1>2, <1>3

-----------------------------------------------------------------------------
(* The pipeline in time *)

\* What is where in time
Timing ==
    /\ mode \in Modes /\ pending \in {0, 1}
    /\ processed \in Int /\ processed = past.received - pending
    /\ past.emitted \in Int /\ past.emitted <= processed
    /\ past.run \in Nat

EndpointInv ==
    mode = "endpoint" =>
        /\ Spans(detector, processed, past.emitted)
        /\ MaxOverlapFrames > 0 => Hears(detector, processed, past.emitted, past.run, past.owed)

FixedWindowInv ==
    mode = "window" =>
        /\ WSpans(window, processed, past.emitted)
        /\ WHears(window, processed, past.emitted, past.run, past.owed)

Settled == mode = "window" => Len(window.samples) <= window.overlap

EventsInv ==
    \A e \in ToSet(out) :
        e.reason # "ended" => Honest(e) /\ (Settled => Placed(e, past.received))

TimeInv == Timing /\ EndpointInv /\ FixedWindowInv /\ EventsInv

\* The frames owed after the next frame, events aside
OwedNext(frame, run) == past.owed \cup {f \in OwedWith(frame, run) : f >= past.emitted}

LEMMA OwingNext ==
    ASSUME Timing, NEW frame \in Int, NEW run \in Nat
    PROVE  /\ mode = "endpoint" =>
                Owing(OwedNext(frame, run), past.owed, frame + 2, past.emitted, run)
           /\ mode = "window" =>
                OwingWindow(OwedNext(frame, run), past.owed, frame + 2, past.emitted, run)
<1>1. past.emitted \in Int
  BY DEF Timing
<1>2. \A f \in {g \in OwedWith(frame, run) : g >= past.emitted} :
        ~(run < Needed) /\ f >= past.emitted /\ \E k \in 1..run : f = (frame + 2) - 2 * k
  BY <1>1, OwedIs
<1>3. \A f \in OwedNext(frame, run) :
        \/ f \in past.owed
        \/ ~(run < Needed) /\ f >= past.emitted /\ \E k \in 1..run : f = (frame + 2) - 2 * k
  BY <1>2 DEF OwedNext
<1>4. mode = "endpoint" =>
        Owing(OwedNext(frame, run), past.owed, frame + 2, past.emitted, run)
  BY <1>3 DEF Owing, Needed
<1>5. mode = "window" =>
        OwingWindow(OwedNext(frame, run), past.owed, frame + 2, past.emitted, run)
  BY <1>3 DEF OwingWindow, Needed
<1> QED BY <1>4, <1>5

\* push_pcm: the chunk completes no frame.
LEMMA PartKeeps ==
    ASSUME IInv, TimeInv, NEW halves \in 1..2, PushPart(halves)
    PROVE  TimeInv'
<1>1. /\ pending' = pending + halves /\ pending + halves < 2 /\ out' = <<>>
      /\ past' = [past EXCEPT !.received = @ + halves]
      /\ UNCHANGED <<mode, detector, window, processed>>
  BY DEF PushPart
<1>2. /\ past'.received = past.received + halves /\ past'.run = past.run
      /\ past'.emitted = past.emitted /\ past'.owed = past.owed
  BY <1>1 DEF IInv, PastShape
<1>3. Timing'
  <2>1. pending' \in {0, 1} /\ processed' = past'.received - pending'
    BY <1>1, <1>2 DEF TimeInv, Timing, IInv, PastShape
  <2> QED BY <1>1, <1>2, <2>1 DEF TimeInv, Timing
<1>4. EndpointInv' /\ FixedWindowInv'
  BY <1>1, <1>2 DEF TimeInv, EndpointInv, FixedWindowInv
<1>5. EventsInv'
  BY <1>1, InEvents DEF EventsInv
<1> QED BY <1>3, <1>4, <1>5 DEF TimeInv

\* push_pcm: the chunk completes a frame, with an endpoint.
LEMMA EndpointKeeps ==
    ASSUME IInv, TimeInv, NEW halves \in 1..2, NEW speech \in BOOLEAN, NEW cut \in BOOLEAN,
           PushEndpoint(halves, speech, cut)
    PROVE  TimeInv'
<1> DEFINE frame == past.received - pending
           split == IF cut THEN Split(detector) ELSE Nothing(detector)
           pushed == Push(split.detector, frame, speech, silence)
           told == past.emitted
           between == EmittedAfter(split.out, told)
           first == [i \in DOMAIN split.out |-> WithTimeline(split.out[i], processed, 0, told)]
           second == [i \in DOMAIN pushed.out |->
                        WithTimeline(pushed.out[i], processed + 2, 0, between)]
           received == past.received + halves
           run == past.run
           longer == RunAfter(run, speech)
           owed == past.owed
           more == OwedNext(frame, longer)
           rest == more \ FramesOf(split.out)
<1>1. /\ mode = "endpoint" /\ pending + halves >= 2 /\ pending' = pending + halves - 2
      /\ detector' = pushed.detector /\ processed' = processed + 2
      /\ out' = first \o second
      /\ past' = Past(received, frame, speech, first \o second, {})
      /\ mode' = mode
  BY DEF PushEndpoint
<1>2. /\ pending \in {0, 1} /\ frame = processed /\ processed \in Int
      /\ told \in Int /\ told <= processed /\ run \in Nat /\ longer \in Nat
      /\ received \in Int /\ received >= processed + 2 /\ pending' \in {0, 1}
      /\ processed + 2 = received - pending'
  <2>1. /\ pending \in {0, 1} /\ processed \in Int /\ processed = past.received - pending
        /\ told \in Int /\ told <= processed /\ run \in Nat /\ past.received \in Nat
    BY DEF TimeInv, Timing, IInv, PastShape
  <2>2. longer \in Nat
    <3> HIDE DEF run
    <3> QED BY <2>1 DEF RunAfter
  <2>3. pending + halves >= 2 /\ pending' = pending + halves - 2
    BY <1>1
  <2> QED BY <2>1, <2>2, <2>3
<1>3. /\ Spans(detector, processed, told)
      /\ MaxOverlapFrames > 0 => Hears(detector, processed, told, run, owed)
      /\ DetectorInv(detector, silence) /\ silence \in Nat \ {0}
  BY <1>1 DEF TimeInv, EndpointInv, IInv
<1>4. Owing(more, owed, processed + 2, told, longer)
  BY <1>1, <1>2, OwingNext DEF TimeInv
<1> HIDE DEF frame, split, first, second, received
<1>5. /\ past'.received = received /\ past'.run = longer
      /\ past'.emitted = EmittedAfter(first \o second, told)
      /\ past'.owed = more \ FramesOf(first \o second)
  <2> DEFINE events == first \o second
             p == Past(received, frame, speech, events, {})
  <2>1. past' = p
    BY <1>1
  <2> HIDE DEF events
  <2>2. /\ p.received = received /\ p.run = RunAfter(past.run, speech)
        /\ p.emitted = EmittedAfter(events, past.emitted)
        /\ p.owed = OwedNext(frame, RunAfter(past.run, speech)) \ (FramesOf(events) \cup {})
    BY DEF Past, RunAfter, OwedNext
  <2> HIDE DEF p, more
  <2>3. p.owed = more \ FramesOf(events)
    BY <2>2 DEF more
  <2> QED BY <2>1, <2>2, <2>3 DEF events
<1> HIDE DEF frame, split, first, second, received, longer, more, told, run, owed
<1>0. PICK before, left :
        Divides(detector, split, processed, told, run, longer, owed, more, before, left)
  BY <1>2, <1>3, SplitPhase DEF split, longer
<1>6. /\ before \in Int /\ before = IF split.out = <<>> THEN told ELSE processed - 1
      /\ before <= processed /\ Saying(split.out, processed, told)
      /\ split.detector \in Detectors /\ Spans(split.detector, processed, before)
      /\ /\ MaxOverlapFrames > 0 /\ Hears(detector, processed, told, run, owed)
         /\ Owing(more, owed, processed + 2, told, longer)
         => /\ Hears(split.detector, processed, before, run, left)
            /\ Owing(rest, left, processed + 2, before, longer)
  BY <1>0 DEF Divides
<1>7. /\ AtMostOne(first) /\ FramesOf(first) = FramesOf(split.out)
      /\ EmittedAfter(first, told) = before /\ between = before
      /\ \A e \in ToSet(first) : e.reason # "ended" /\ Honest(e) /\ Placed(e, received)
  <2>1. /\ 0 \in {0, 1} /\ processed = processed - 0 /\ processed <= received
        /\ (0 = 1 => received = processed)
    BY <1>2
  <2>2. /\ AtMostOne(first) /\ FramesOf(first) = FramesOf(split.out)
        /\ \A b : EmittedAfter(first, b) = EmittedAfter(split.out, b)
        /\ \A b : EmittedAfter(split.out, b) = IF split.out = <<>> THEN b ELSE processed - 1
        /\ \A e \in ToSet(first) : e.reason # "ended" /\ Honest(e) /\ Placed(e, received)
    BY <1>2, <1>6, <2>1, EventsRight DEF first
  <2> QED BY <1>6, <2>2
<1> HIDE DEF between, rest
<1>8. Takes(split.detector, pushed, processed, before, speech, run, left, rest)
  <2>1. pushed = Push(split.detector, processed, speech, silence)
    BY <1>2
  <2> HIDE DEF pushed
  <2> QED BY <1>2, <1>3, <1>6, <2>1, PushTells
<1> HIDE DEF pushed
<1>9. \/ pushed.out = <<>> /\ Spans(pushed.detector, processed + 2, before)
      \/ \E u : /\ pushed.out = <<u>> /\ Said(u, processed + 2, before)
                /\ Rested(pushed.detector, processed + 1)
  <2>1. (processed + 2) - 1 = processed + 1
    BY <1>2
  <2> QED BY <1>8, <2>1 DEF Takes, Tells
<1>10. Saying(pushed.out, processed + 2, before)
  BY <1>9 DEF Saying
<1> DEFINE after == IF pushed.out = <<>> THEN before ELSE processed + 1
<1>11. /\ AtMostOne(second) /\ FramesOf(second) = FramesOf(pushed.out)
       /\ EmittedAfter(second, before) = after
       /\ \A e \in ToSet(second) : e.reason # "ended" /\ Honest(e) /\ Placed(e, received)
  <2> DEFINE end == processed + 2
  <2>1. /\ 0 \in {0, 1} /\ end \in Int /\ end = end - 0 /\ end <= received
        /\ (0 = 1 => received = end) /\ end - 1 = processed + 1
    BY <1>2
  <2>2. second = [i \in DOMAIN pushed.out |-> WithTimeline(pushed.out[i], end, 0, before)]
    BY <1>7 DEF second
  <2>3. Saying(pushed.out, end, before)
    BY <1>10
  <2> HIDE DEF end
  <2>4. /\ AtMostOne(second) /\ FramesOf(second) = FramesOf(pushed.out)
        /\ \A b : EmittedAfter(second, b) = EmittedAfter(pushed.out, b)
        /\ \A b : EmittedAfter(pushed.out, b) = IF pushed.out = <<>> THEN b ELSE end - 1
        /\ \A e \in ToSet(second) : e.reason # "ended" /\ Honest(e) /\ Placed(e, received)
    BY <1>2, <1>6, <2>1, <2>2, <2>3, EventsRight
  <2> QED BY <2>1, <2>4
<1>12. /\ ToSet(first \o second) = ToSet(first) \cup ToSet(second)
       /\ FramesOf(first \o second) = FramesOf(split.out) \cup FramesOf(pushed.out)
       /\ EmittedAfter(first \o second, told) = after
  BY <1>7, <1>11, BothEvents
<1>13. /\ past'.emitted = after /\ past'.owed = rest \ FramesOf(pushed.out)
  BY <1>5, <1>12 DEF rest
<1>14. after \in Int /\ after <= processed + 2
  BY <1>2, <1>6
<1>15. Timing'
  BY <1>1, <1>2, <1>5, <1>13, <1>14 DEF TimeInv, Timing
<1>16. Spans(detector', processed + 2, after)
  <2>1. CASE pushed.out = <<>>
    <3>1. after = before /\ Spans(pushed.detector, processed + 2, before)
      BY <1>9, <2>1
    <3> QED BY <1>1, <3>1
  <2>2. CASE pushed.out # <<>>
    <3>1. after = processed + 1 /\ Rested(pushed.detector, processed + 1)
      BY <1>9, <2>2
    <3> HIDE DEF after
    <3> QED BY <1>1, <3>1 DEF Spans
  <2> QED BY <2>1, <2>2
<1>17. ASSUME MaxOverlapFrames > 0
       PROVE  Hears(detector', processed + 2, after, longer, past'.owed)
  <2>1. HearsAfter(pushed, processed + 2, before, longer, rest)
    <3>1. Hears(split.detector, processed, before, run, left)
          /\ Owing(rest, left, processed + 2, before, longer)
      BY <1>3, <1>4, <1>6, <1>17
    <3> QED BY <1>8, <1>17, <3>1 DEF Takes, longer
  <2>2. CASE pushed.out = <<>>
    <3>1. ~\E u : pushed.out = <<u>>
      BY <2>2
    <3>2. Hears(pushed.detector, processed + 2, before, longer, rest)
      BY <2>1, <3>1 DEF HearsAfter
    <3>3. past'.owed = rest
      BY <1>13, <2>2, FramesOfEvents
    <3> QED BY <1>1, <2>2, <3>2, <3>3
  <2>3. CASE pushed.out # <<>>
    <3>1. PICK u : /\ pushed.out = <<u>> /\ rest \subseteq ToSet(u.frames)
                   /\ Hears(pushed.detector, processed + 2, (processed + 2) - 1, longer, {})
      BY <2>1, <2>3 DEF HearsAfter
    <3>2. past'.owed = {}
      BY <1>13, <3>1, FramesOfEvents
    <3>3. (processed + 2) - 1 = after
      BY <1>2, <2>3
    <3> QED BY <1>1, <3>1, <3>2, <3>3
  <2> QED BY <2>2, <2>3
<1>18. EndpointInv' /\ FixedWindowInv'
  <2>1. mode' # "window"
    BY <1>1
  <2>2. EndpointInv'
    BY <1>1, <1>5, <1>13, <1>16, <1>17 DEF EndpointInv
  <2> QED BY <2>1, <2>2 DEF FixedWindowInv
<1>19. EventsInv'
  <2>1. \A e \in ToSet(out') : Honest(e) /\ Placed(e, past'.received)
    BY <1>1, <1>5, <1>7, <1>11, <1>12
  <2> QED BY <2>1 DEF EventsInv
<1> QED BY <1>15, <1>18, <1>19 DEF TimeInv

-----------------------------------------------------------------------------
(* The steps of the pipeline: a flush with an endpoint *)

\* Result r of a flush before the frame `now`, with `rest` halves of it there: all
\* is told, up to the padded frame if there is one, and nothing is owed that is
\* not held.
Ends(d, r, now, told, rest, run, longer, owed, more) ==
    LET to == now + 2 * rest
        after == IF r.out = <<>> THEN told ELSE to - 1
    IN /\ Saying(r.out, to, told)
       /\ Spans(r.detector, to - rest, after)
       /\ MaxOverlapFrames > 0 /\ Hears(d, now, told, run, owed)
            /\ Owing(more, owed, now + 2, told, longer)
          => Hears(r.detector, to - rest, after, 0, more \ FramesOf(r.out))

\* flush of a detector that has taken all there is
LEMMA FlushEnds ==
    ASSUME NEW d \in Detectors, NEW to \in Int, NEW told \in Int, Spans(d, to, told),
           NEW end \in Int, NEW run, NEW more
    PROVE  LET r == Flush(d)
               after == IF r.out = <<>> THEN told ELSE to - 1
           IN /\ Saying(r.out, to, told)
              /\ Spans(r.detector, end, after)
              /\ Hears(d, to, told, run, more)
                 => Hears(r.detector, end, after, 0, more \ FramesOf(r.out))
<1> DEFINE r == Flush(d)
           after == IF r.out = <<>> THEN told ELSE to - 1
<1>1. /\ r.detector = Listening
      /\ \/ r.out = <<>> /\ (Hears(d, to, told, run, more) => more = {})
         \/ \E u : /\ r.out = <<u>> /\ Said(u, to, told)
                   /\ (Hears(d, to, told, run, more) => more \subseteq ToSet(u.frames))
  <2>1. Flush(d).detector = Listening
    BY FlushTells
  <2>2. \/ Flush(d).out = <<>> /\ (Hears(d, to, told, run, more) => more = {})
        \/ \E u : /\ Flush(d).out = <<u>> /\ Said(u, to, told)
                  /\ (Hears(d, to, told, run, more) => more \subseteq ToSet(u.frames))
    BY FlushTells
  <2> QED BY <2>1, <2>2
<1> HIDE DEF r
<1>2. Saying(r.out, to, told)
  BY <1>1 DEF Saying
<1>3. Hears(d, to, told, run, more) => more \ FramesOf(r.out) = {}
  <2>1. CASE \E u : r.out = <<u>> /\ (Hears(d, to, told, run, more) => more \subseteq ToSet(u.frames))
    <3>1. PICK u : r.out = <<u>> /\ (Hears(d, to, told, run, more) => more \subseteq ToSet(u.frames))
      BY <2>1
    <3>2. FramesOf(r.out) = ToSet(u.frames)
      BY <3>1, FramesOfEvents
    <3> QED BY <3>1, <3>2
  <2>2. CASE Hears(d, to, told, run, more) => more = {}
    BY <2>2
  <2> QED BY <1>1, <2>1, <2>2
<1> HIDE DEF after
<1>4. Spans(Listening, end, after) /\ Hears(Listening, end, after, 0, {})
  BY ListeningTells
<1>5. Spans(r.detector, end, after)
  BY <1>1, <1>4
<1>6. Hears(d, to, told, run, more)
      => Hears(r.detector, end, after, 0, more \ FramesOf(r.out))
  BY <1>1, <1>3, <1>4
<1> QED BY <1>2, <1>5, <1>6 DEF r, after

\* flush with an endpoint, and half a frame left
LEMMA PaddedEnds ==
    ASSUME NEW s \in Nat \ {0}, NEW d, DetectorInv(d, s), NEW now \in Int, NEW told \in Int,
           told <= now, Spans(d, now, told), NEW speech \in BOOLEAN,
           NEW run \in Nat, NEW owed, NEW more
    PROVE  LET pushed == Push(d, now, speech, s)
               r == IF pushed.out # <<>> THEN pushed ELSE Flush(pushed.detector)
           IN Ends(d, r, now, told, 1, run, RunAfter(run, speech), owed, more)
<1> DEFINE pushed == Push(d, now, speech, s)
           r == IF pushed.out # <<>> THEN pushed ELSE Flush(pushed.detector)
           to == now + 2
           end == now + 1
           longer == RunAfter(run, speech)
           after == IF r.out = <<>> THEN told ELSE to - 1
           heard == /\ MaxOverlapFrames > 0 /\ Hears(d, now, told, run, owed)
                    /\ Owing(more, owed, to, told, longer)
<1>1. Takes(d, pushed, now, told, speech, run, owed, more) /\ pushed.detector \in Detectors
  <2>1. d \in Detectors /\ DetectorInv(pushed.detector, s)
    BY PushInv DEF DetectorInv
  <2> HIDE DEF pushed
  <2>2. pushed.detector \in Detectors
    BY <2>1 DEF DetectorInv
  <2> QED BY <2>1, <2>2, PushTells DEF pushed
<1>2. to \in Int /\ end \in Int /\ to - 1 = end
  OBVIOUS
<1> HIDE DEF pushed
<1>3. Tells(pushed, to, told) /\ (heard => HearsAfter(pushed, to, told, longer, more))
  BY <1>1 DEF Takes
<1> HIDE DEF to, end, longer, heard
<1>4. ASSUME pushed.out # <<>>
      PROVE  /\ Saying(r.out, to, told) /\ Spans(r.detector, end, after)
             /\ heard => Hears(r.detector, end, after, 0, more \ FramesOf(r.out))
  <2>1. r = pushed /\ after = end
    BY <1>2, <1>4
  <2> HIDE DEF r, after
  <2>2. PICK u : pushed.out = <<u>> /\ Said(u, to, told) /\ Rested(pushed.detector, end)
    BY <1>2, <1>3, <1>4 DEF Tells
  <2>3. Saying(r.out, to, told) /\ Spans(r.detector, end, after)
    BY <2>1, <2>2 DEF Saying, Spans
  <2>4. ASSUME heard PROVE Hears(r.detector, end, after, 0, more \ FramesOf(r.out))
    <3>1. PICK v : /\ pushed.out = <<v>> /\ more \subseteq ToSet(v.frames)
                   /\ Hears(pushed.detector, to, to - 1, longer, {})
      BY <1>3, <1>4, <2>4 DEF HearsAfter
    <3>2. more \ FramesOf(r.out) = {}
      BY <2>1, <3>1, FramesOfEvents
    <3>3. Hears(pushed.detector, end, after, 0, {})
      BY <3>1, HearsQuiet
    <3> QED BY <2>1, <3>2, <3>3
  <2> QED BY <2>3, <2>4
<1>5. ASSUME pushed.out = <<>>
      PROVE  /\ Saying(r.out, to, told) /\ Spans(r.detector, end, after)
             /\ heard => Hears(r.detector, end, after, 0, more \ FramesOf(r.out))
  <2>1. r = Flush(pushed.detector)
    BY <1>5
  <2>2. ~\E u : pushed.out = <<u>>
    BY <1>5
  <2>3. Spans(pushed.detector, to, told)
    BY <1>3, <2>2 DEF Tells
  <2>4. heard => Hears(pushed.detector, to, told, longer, more)
    BY <1>3, <2>2 DEF HearsAfter
  <2> HIDE DEF r
  <2>5. /\ Saying(r.out, to, told) /\ Spans(r.detector, end, after)
        /\ Hears(pushed.detector, to, told, longer, more)
             => Hears(r.detector, end, after, 0, more \ FramesOf(r.out))
    BY <1>1, <1>2, <2>1, <2>3, FlushEnds
  <2> HIDE DEF after
  <2>6. heard => Hears(r.detector, end, after, 0, more \ FramesOf(r.out))
    BY <2>4, <2>5
  <2> QED BY <2>5, <2>6
<1>6. now + 2 * 1 = to /\ to - 1 = end /\ now + 2 = to
  BY DEF to, end
<1> HIDE DEF r, after
<1>7. /\ Saying(r.out, to, told) /\ Spans(r.detector, end, after)
      /\ heard => Hears(r.detector, end, after, 0, more \ FramesOf(r.out))
  BY <1>4, <1>5
<1>8. Ends(d, r, now, told, 1, run, longer, owed, more)
  <2> DEFINE padded == 1
  <2>1. now + 2 * padded = to /\ to - padded = end
    BY <1>6
  <2> HIDE DEF padded
  <2>2. after = IF r.out = <<>> THEN told ELSE to - 1
    BY DEF after
  <2>3. heard <=> /\ MaxOverlapFrames > 0 /\ Hears(d, now, told, run, owed)
                  /\ Owing(more, owed, now + 2, told, longer)
    BY <1>6 DEF heard
  <2>4. Ends(d, r, now, told, padded, run, longer, owed, more)
    BY <1>7, <2>1, <2>2, <2>3 DEF Ends
  <2> QED BY <2>4 DEF padded
<1> QED BY <1>8 DEF r, pushed, longer

\* flush with an endpoint, at the end of a frame
LEMMA WholeEnds ==
    ASSUME NEW d \in Detectors, NEW now \in Int, NEW told \in Int, Spans(d, now, told),
           NEW run \in Nat, NEW owed, NEW more
    PROVE  Ends(d, Flush(d), now, told, 0, run, 0, owed, more)
<1> DEFINE r == Flush(d)
           after == IF r.out = <<>> THEN told ELSE now - 1
<1>1. /\ Saying(r.out, now, told) /\ Spans(r.detector, now, after)
      /\ \A m : Hears(d, now, told, run, m)
           => Hears(r.detector, now, after, 0, m \ FramesOf(r.out))
  BY FlushEnds
<1>2. now + 2 * 0 = now /\ now - 0 = now
  OBVIOUS
<1> HIDE DEF r, after
<1>3. ASSUME Hears(d, now, told, run, owed), Owing(more, owed, now + 2, told, 0)
      PROVE  Hears(r.detector, now, after, 0, more \ FramesOf(r.out))
  <2>1. more \subseteq owed
    BY <1>3 DEF Owing
  <2>2. Hears(d, now, told, run, more)
    BY <1>3, <2>1, HearsLess
  <2> QED BY <1>1, <2>2
<1>4. Ends(d, r, now, told, 0, run, 0, owed, more)
  BY <1>1, <1>2, <1>3 DEF Ends, after
<1> QED BY <1>4 DEF r

\* flush, with an endpoint
LEMMA FlushEndpointKeeps ==
    ASSUME IInv, TimeInv, NEW speech \in BOOLEAN, FlushEndpoint(speech)
    PROVE  TimeInv'
<1> DEFINE frame == past.received - pending
           padding == IF pending > 0 THEN 1 ELSE 0
           pushed == IF pending > 0 THEN Push(detector, frame, speech, silence)
                                    ELSE Nothing(detector)
           flushed == IF pushed.out # <<>> THEN pushed ELSE Flush(pushed.detector)
           end == processed + pending
           to == processed + 2 * pending
           told == past.emitted
           events == [i \in DOMAIN flushed.out |-> WithTimeline(flushed.out[i], end, padding, told)]
           run == past.run
           longer == RunAfter(run, speech /\ pending > 0)
           owed == past.owed
           more == OwedNext(frame, longer)
           after == IF flushed.out = <<>> THEN told ELSE to - 1
<1>1. /\ mode = "endpoint" /\ mode' = mode /\ detector' = flushed.detector
      /\ pending' = 0 /\ processed' = end /\ out' = events
      /\ past' = [Past(past.received, frame, speech /\ pending > 0, events, {}) EXCEPT !.run = 0]
  BY DEF FlushEndpoint
<1>2. /\ pending \in {0, 1} /\ padding = pending /\ frame = processed /\ processed \in Int
      /\ told \in Int /\ told <= processed /\ run \in Nat /\ longer \in Nat
      /\ past.received = end /\ end \in Int /\ to \in Int /\ to - pending = end
      /\ end = to - pending
  <2>1. /\ pending \in {0, 1} /\ processed \in Int /\ processed = past.received - pending
        /\ told \in Int /\ told <= processed /\ run \in Nat /\ past.received \in Nat
    BY DEF TimeInv, Timing, IInv, PastShape
  <2>2. longer \in Nat
    <3> HIDE DEF run
    <3> QED BY <2>1 DEF RunAfter
  <2> QED BY <2>1, <2>2
<1>3. /\ Spans(detector, processed, told)
      /\ MaxOverlapFrames > 0 => Hears(detector, processed, told, run, owed)
      /\ DetectorInv(detector, silence) /\ silence \in Nat \ {0} /\ detector \in Detectors
  BY <1>1 DEF TimeInv, EndpointInv, IInv, DetectorInv
<1>4. Owing(more, owed, processed + 2, told, longer)
  BY <1>1, <1>2, OwingNext DEF TimeInv
<1>5. /\ past'.received = past.received /\ past'.run = 0
      /\ past'.emitted = EmittedAfter(events, told)
      /\ past'.owed = more \ FramesOf(events)
  <2> HIDE DEF events
  <2> DEFINE p == Past(past.received, frame, speech /\ pending > 0, events, {})
  <2>1. /\ p.received = past.received /\ p.emitted = EmittedAfter(events, told)
        /\ p.owed = OwedNext(frame, longer) \ (FramesOf(events) \cup {})
        /\ p = [received |-> p.received, run |-> p.run, emitted |-> p.emitted, owed |-> p.owed]
    BY DEF Past, RunAfter, OwedNext, longer
  <2> HIDE DEF p, more
  <2>2. p.owed = more \ FramesOf(events)
    BY <2>1 DEF more
  <2>3. past' = [p EXCEPT !.run = 0]
    BY <1>1 DEF p
  <2> QED BY <2>1, <2>2, <2>3
<1>6. Ends(detector, flushed, processed, told, pending, run, longer, owed, more)
  <2>1. CASE pending = 1
    <3>1. /\ pushed = Push(detector, processed, speech, silence)
          /\ longer = RunAfter(run, speech)
      BY <1>2, <2>1
    <3> HIDE DEF longer, more, run, owed, told
    <3>2. LET p == Push(detector, processed, speech, silence)
              r == IF p.out # <<>> THEN p ELSE Flush(p.detector)
          IN Ends(detector, r, processed, told, 1, run, RunAfter(run, speech), owed, more)
      BY <1>2, <1>3, PaddedEnds
    <3> HIDE DEF pushed
    <3>3. LET r == IF pushed.out # <<>> THEN pushed ELSE Flush(pushed.detector)
          IN Ends(detector, r, processed, told, 1, run, longer, owed, more)
      BY <3>1, <3>2
    <3> QED BY <2>1, <3>3
  <2>2. CASE pending = 0
    <3>1. pushed.out = <<>> /\ pushed.detector = detector /\ longer = 0
      BY <2>2 DEF Nothing, RunAfter
    <3> HIDE DEF pushed, longer, more, run, owed, told
    <3>2. flushed = Flush(detector)
      BY <3>1
    <3> HIDE DEF flushed
    <3>3. Ends(detector, Flush(detector), processed, told, 0, run, 0, owed, more)
      BY <1>2, <1>3, WholeEnds
    <3> QED BY <2>2, <3>1, <3>2, <3>3
  <2> QED BY <1>2, <2>1, <2>2
<1> HIDE DEF frame, pushed, flushed, told, run, longer, owed, more
<1>7. /\ Saying(flushed.out, to, told) /\ Spans(flushed.detector, end, after)
      /\ MaxOverlapFrames > 0
           => Hears(flushed.detector, end, after, 0, more \ FramesOf(flushed.out))
  <2>1. to = processed + 2 * pending
    OBVIOUS
  <2> HIDE DEF to, end
  <2> QED BY <1>2, <1>3, <1>4, <1>6, <2>1 DEF Ends
<1> HIDE DEF to, end
<1>8. /\ FramesOf(events) = FramesOf(flushed.out) /\ EmittedAfter(events, told) = after
      /\ \A e \in ToSet(events) : e.reason # "ended" /\ Honest(e) /\ Placed(e, end)
  <2>1. events = [i \in DOMAIN flushed.out |-> WithTimeline(flushed.out[i], end, pending, told)]
    BY <1>2
  <2> HIDE DEF events
  <2>2. end <= end
    BY <1>2
  <2>3. /\ FramesOf(events) = FramesOf(flushed.out)
        /\ \A b : EmittedAfter(events, b) = EmittedAfter(flushed.out, b)
        /\ \A b : EmittedAfter(flushed.out, b) = IF flushed.out = <<>> THEN b ELSE to - 1
        /\ \A e \in ToSet(events) : e.reason # "ended" /\ Honest(e) /\ Placed(e, end)
    BY <1>2, <1>7, <2>1, <2>2, EventsRight
  <2> QED BY <2>3
<1> HIDE DEF events
<1>9. after \in Int /\ after <= end
  BY <1>2 DEF to, end
<1> HIDE DEF after
<1>10. past'.emitted = after /\ past'.owed = more \ FramesOf(flushed.out)
  BY <1>5, <1>8
<1>11. Timing'
  <2>1. mode' \in Modes /\ pending' = 0 /\ processed' = end /\ past'.received = end /\ past'.run = 0
    BY <1>1, <1>2, <1>5 DEF TimeInv, Timing
  <2> QED BY <1>2, <1>9, <1>10, <2>1 DEF Timing
<1>12. EndpointInv' /\ FixedWindowInv'
  <2>1. mode' # "window"
    BY <1>1
  <2> QED BY <1>1, <1>5, <1>7, <1>10, <2>1 DEF EndpointInv, FixedWindowInv
<1>13. EventsInv'
  BY <1>1, <1>2, <1>5, <1>8 DEF EventsInv
<1> QED BY <1>11, <1>12, <1>13 DEF TimeInv

\* Operations that give what is there to another detector or window, and say nothing.
LEMMA SilentKeeps ==
    ASSUME Timing', EndpointInv', FixedWindowInv', out' = <<>>
    PROVE  TimeInv'
BY InEvents DEF TimeInv, EventsInv

LEMMA ClearedKeeps ==
    ASSUME Cleared, mode' \in Modes, NEW w \in Windows, NEW adaptive,
           window' = ResetWindow(w) \/ window' = NewWindow(adaptive)
    PROVE  TimeInv'
<1>1. /\ detector' = Listening /\ pending' = 0 /\ processed' = 0 /\ out' = <<>>
      /\ past'.received = 0 /\ past'.emitted = 0 /\ past'.run = 0 /\ past'.owed = {}
  BY DEF Cleared, Nought
<1>2. Timing'
  BY <1>1 DEF Timing
<1>3. EndpointInv'
  BY <1>1, ListeningTells DEF EndpointInv
<1>4. WSpans(window', 0, 0) /\ WHears(window', 0, 0, 0, {})
  BY ResetWindowTells, NewWindowTells
<1>5. FixedWindowInv'
  BY <1>1, <1>4 DEF FixedWindowInv
<1> QED BY <1>1, <1>2, <1>3, <1>5, SilentKeeps

LEMMA StartsRight == Init => TimeInv
<1> SUFFICES ASSUME Init PROVE TimeInv
  OBVIOUS
<1>1. /\ mode = "endpoint" /\ detector = Listening /\ pending = 0 /\ processed = 0 /\ out = <<>>
      /\ past.received = 0 /\ past.emitted = 0 /\ past.run = 0 /\ past.owed = {}
  BY DEF Init, Nought
<1>2. Timing
  BY <1>1 DEF Timing, Modes
<1>3. EndpointInv
  BY <1>1, ListeningTells DEF EndpointInv
<1>4. FixedWindowInv /\ EventsInv
  BY <1>1, InEvents DEF FixedWindowInv, EventsInv
<1> QED BY <1>2, <1>3, <1>4 DEF TimeInv

LEMMA RerouteKeeps ==
    ASSUME IInv, TimeInv, Reroute
    PROVE  TimeInv'
<1>1. window \in Windows /\ mode' \in Modes /\ Cleared /\ window' = ResetWindow(window)
  BY DEF Reroute, IInv, WindowInv, TimeInv, Timing
<1> QED BY <1>1, ClearedKeeps

LEMMA ConfigureKeeps ==
    ASSUME IInv, TimeInv, NEW chosen, NEW newMode \in Modes, NEW adaptive \in BOOLEAN,
           ConfigureSegmentation(chosen, newMode, adaptive)
    PROVE  TimeInv'
<1>1. CASE ValidSilence(chosen)
  <2>1. window \in Windows /\ mode' \in Modes /\ Cleared
        /\ window' = NewWindow(adaptive /\ newMode = "window")
    BY <1>1 DEF ConfigureSegmentation, IInv, WindowInv
  <2> QED BY <2>1, ClearedKeeps
<1>2. CASE ~ValidSilence(chosen)
  <2>1. out' = <<>> /\ UNCHANGED <<mode, detector, window, pending, processed, past>>
    BY <1>2 DEF ConfigureSegmentation
  <2>2. Timing' /\ EndpointInv' /\ FixedWindowInv'
    BY <2>1 DEF TimeInv, Timing, EndpointInv, FixedWindowInv
  <2> QED BY <2>1, <2>2, SilentKeeps
<1> QED BY <1>1, <1>2

LEMMA DensityKeeps ==
    ASSUME IInv, TimeInv, NEW density \in Densities, ObserveTextDensity(density)
    PROVE  TimeInv'
<1>1. /\ out' = <<>> /\ UNCHANGED <<mode, detector, pending, processed, past>>
      /\ window' = IF mode = "window" THEN Observe(window, density) ELSE window
  BY DEF ObserveTextDensity
<1>2. Timing' /\ EndpointInv'
  BY <1>1 DEF TimeInv, Timing, EndpointInv
<1>3. FixedWindowInv'
  <2> SUFFICES ASSUME mode = "window" PROVE FixedWindowInv'
    BY <1>1 DEF FixedWindowInv
  <2>1. /\ window \in Windows /\ processed \in Int /\ past.emitted \in Int /\ past.run \in Nat
        /\ WSpans(window, processed, past.emitted)
        /\ WHears(window, processed, past.emitted, past.run, past.owed)
    BY DEF IInv, WindowInv, TimeInv, Timing, FixedWindowInv
  <2>2. /\ WSpans(Observe(window, density), processed, past.emitted)
        /\ WHears(Observe(window, density), processed, past.emitted, past.run, past.owed)
    BY <2>1, ObserveTells
  <2> QED BY <1>1, <2>2 DEF FixedWindowInv
<1> QED BY <1>1, <1>2, <1>3, SilentKeeps

LEMMA DropKeeps ==
    ASSUME TimeInv, DropWindow
    PROVE  TimeInv'
<1>1. out' = <<>> /\ UNCHANGED <<mode, detector, window, pending, processed, past>>
  BY DEF DropWindow
<1>2. Timing' /\ EndpointInv' /\ FixedWindowInv'
  BY <1>1 DEF TimeInv, Timing, EndpointInv, FixedWindowInv
<1> QED BY <1>1, <1>2, SilentKeeps

LEMMA StutterKeeps ==
    ASSUME TimeInv, UNCHANGED vars
    PROVE  TimeInv'
<1>1. UNCHANGED <<mode, detector, window, pending, processed, out, past>>
  BY DEF vars
<1>2. Timing' /\ EndpointInv' /\ FixedWindowInv'
  BY <1>1 DEF TimeInv, Timing, EndpointInv, FixedWindowInv
<1>3. EventsInv'
  BY <1>1 DEF TimeInv, EventsInv, Settled
<1> QED BY <1>2, <1>3 DEF TimeInv

-----------------------------------------------------------------------------
(* The steps of the pipeline: a fixed window *)

\* The events of an operation on the window.  The end of a stream is none.
WindowEvents(r, now, told) ==
    IF r.out = <<StreamEnded>> THEN <<>>
    ELSE [i \in DOMAIN r.out |-> WithTimeline(r.out[i], now, 0, told)]

\* What the events say is right, and the window goes on from there: all was told up
\* to `after`.
WindowFollows(r, events, after, now, told, received) ==
    /\ after \in Int /\ after <= now /\ WSpans(r.window, now, after)
    /\ events = <<>> => Silently(r)
    /\ \A e \in ToSet(events) :
          /\ e.reason # "ended" /\ Honest(e)
          /\ Len(r.window.samples) <= r.window.overlap => Placed(e, received)
    /\ \A run, owed :
          WHearsAfter(r, now, told, run, owed)
          => WHears(r.window, now, after, run,
                    owed \ (FramesOf(events) \cup LeftBehind(r.window)))

\* with_timeline, of a window that tells all up to the frame before `to`: it says
\* that the window is at the end of what was heard.
LEMMA WindowEventRight ==
    ASSUME NEW u, NEW to \in Int, NEW now \in Int, to <= now, NEW told \in Int,
           Said(u, to, told), NEW received \in Int, now <= received
    PROVE  LET e == WithTimeline(u, now, 0, told)
           IN /\ e.frames = u.frames /\ e.reason # "ended"
              /\ Last(u.frames) + 1 = to - 1
              /\ Honest(e) /\ (to = now => Placed(e, received))
<1> DEFINE e == WithTimeline(u, now, 0, told)
           d == WithTimeline(u, to, 0, told)
<1>1. /\ e.frames = u.frames /\ d.frames = u.frames /\ e.reason = d.reason
      /\ e.repeated = d.repeated /\ e.overlap = d.overlap
  BY DEF WithTimeline
<1>2. to = now => e = d
  OBVIOUS
<1>3. 0 \in {0, 1} /\ to = to - 0 /\ to <= received /\ (0 = 1 => received = to)
  OBVIOUS
<1>4. d.reason # "ended" /\ Last(d.frames) + 1 = to - 1
  BY <1>3, EventRight
<1>5. Honest(d)
  BY <1>3, EventRight
<1>6. Placed(d, received)
  BY <1>3, EventRight
<1> HIDE DEF d, e
<1>7. Honest(e)
  BY <1>1, <1>5 DEF Honest
<1> QED BY <1>1, <1>2, <1>4, <1>6, <1>7 DEF e

LEMMA WindowEventsRight ==
    ASSUME NEW r, NEW now \in Int, NEW told \in Int, told <= now,
           NEW received \in Int, now <= received, WTells(r, now, told)
    PROVE  LET events == WindowEvents(r, now, told)
               after == EmittedAfter(events, told)
           IN WindowFollows(r, events, after, now, told, received)
<1> DEFINE events == WindowEvents(r, now, told)
           after == EmittedAfter(events, told)
           none == <<>>
<1>1. \A u, to : WSays(r, u, to, now, told) => r.out = <<u>> /\ u.reason # "ended"
  BY DEF WSays, Said
<1>2. Silently(r) => ~\E u, to : WSays(r, u, to, now, told)
  <2>1. none # <<StreamEnded>> /\ \A u : <<u>> # none
    OBVIOUS
  <2>2. \A u : u.reason # "ended" => <<u>> # <<StreamEnded>>
    BY DEF StreamEnded
  <2> QED BY <1>1, <2>1, <2>2 DEF Silently
<1>3. ASSUME Silently(r)
      PROVE  WindowFollows(r, events, after, now, told, received)
  <2>1. events = none
    BY <1>3, EventsAre DEF Silently, WindowEvents
  <2> HIDE DEF events
  <2>2. after = told /\ FramesOf(events) = {} /\ ToSet(events) = {}
    BY <2>1, AfterEvents, FramesOfEvents, InEvents
  <2> HIDE DEF after
  <2>3. WSpans(r.window, now, told)
    BY <1>2, <1>3 DEF WTells
  <2>4. \A run, owed :
           WHearsAfter(r, now, told, run, owed)
           => WHears(r.window, now, told, run, owed \ LeftBehind(r.window))
    BY <1>2, <1>3 DEF WHearsAfter
  <2>5. FramesOf(events) \cup LeftBehind(r.window) = LeftBehind(r.window)
    BY <2>2
  <2> QED BY <1>3, <2>2, <2>3, <2>4, <2>5 DEF WindowFollows
<1>4. ASSUME NEW u, NEW to, WSays(r, u, to, now, told)
      PROVE  WindowFollows(r, events, after, now, told, received)
  <2> DEFINE e == WithTimeline(u, now, 0, told)
  <2>1. /\ r.out = <<u>> /\ Said(u, to, told) /\ to \in Int /\ to <= now
        /\ Len(r.window.samples) <= r.window.overlap => to = now
        /\ WSpans(r.window, now, to - 1)
    BY <1>4 DEF WSays
  <2>2. events = <<e>>
    <3>1. r.out # <<StreamEnded>>
      BY <1>2, <1>4 DEF Silently
    <3> QED BY <2>1, <3>1, EventsAre DEF WindowEvents
  <2>3. /\ e.frames = u.frames /\ e.reason # "ended" /\ Last(u.frames) + 1 = to - 1
        /\ Honest(e) /\ (to = now => Placed(e, received))
    <3>1. e.frames = u.frames /\ e.reason # "ended"
      BY <2>1, WindowEventRight
    <3>2. Last(u.frames) + 1 = to - 1
      BY <2>1, WindowEventRight
    <3>3. Honest(e)
      BY <2>1, WindowEventRight
    <3>4. to = now => Placed(e, received)
      BY <2>1, WindowEventRight
    <3> QED BY <3>1, <3>2, <3>3, <3>4
  <2> HIDE DEF e, events
  <2>4. ToSet(events) = {e} /\ FramesOf(events) = ToSet(u.frames)
    BY <2>2, <2>3, InEvents, FramesOfEvents
  <2>5. after = to - 1
    <3>1. EmittedAfter(<<e>>, told) = Last(e.frames) + 1
      BY AfterEvents
    <3> QED BY <2>2, <2>3, <3>1
  <2> HIDE DEF after
  <2>6. events # <<>>
    BY <2>2
  <2>7. after \in Int /\ after <= now
    BY <2>1, <2>5
  <2>8. \A x \in ToSet(events) :
           /\ x.reason # "ended" /\ Honest(x)
           /\ Len(r.window.samples) <= r.window.overlap => Placed(x, received)
    BY <2>1, <2>3, <2>4
  <2>9. ASSUME NEW run, NEW owed, WHearsAfter(r, now, told, run, owed)
        PROVE  WHears(r.window, now, after, run,
                      owed \ (FramesOf(events) \cup LeftBehind(r.window)))
    <3>1. PICK v, at :
             /\ WSays(r, v, at, now, told)
             /\ WHears(r.window, now, at - 1, run,
                       owed \ (ToSet(v.frames) \cup LeftBehind(r.window)))
      BY <1>2, <1>4, <2>9 DEF WHearsAfter
    <3>2. r.out = <<v>> /\ Said(v, at, told) /\ at \in Int /\ at <= now
      BY <3>1 DEF WSays
    <3>3. v = u
      <4>1. <<v>>[1] = v /\ <<u>>[1] = u
        OBVIOUS
      <4> QED BY <2>1, <3>2, <4>1
    <3>4. Last(v.frames) + 1 = at - 1
      BY <3>2, WindowEventRight
    <3>5. at - 1 = after
      BY <2>3, <2>5, <3>3, <3>4
    <3> QED BY <2>4, <3>1, <3>3, <3>5
  <2> QED BY <2>1, <2>5, <2>6, <2>7, <2>8, <2>9 DEF WindowFollows
<1> HIDE DEF events, after
<1>5. WindowFollows(r, events, after, now, told, received)
  BY <1>3, <1>4 DEF WTells
<1> QED BY <1>5 DEF events, after

\* push_pcm: the chunk completes a frame, with a fixed window.
LEMMA FixedWindowKeeps ==
    ASSUME IInv, TimeInv, NEW halves \in 1..2, NEW active \in BOOLEAN,
           PushFixedWindow(halves, active)
    PROVE  TimeInv'
<1> DEFINE frame == past.received - pending
           pushed == PushWindow(window, frame, active)
           now == processed + 2
           told == past.emitted
           heard == WindowEvents(pushed, now, told)
           left == LeftBehind(pushed.window)
           received == past.received + halves
           run == past.run
           longer == RunAfter(run, active)
           owed == past.owed
           more == OwedNext(frame, longer)
           after == EmittedAfter(heard, told)
<1>1. /\ mode = "window" /\ mode' = mode /\ pending + halves >= 2
      /\ pending' = pending + halves - 2 /\ window' = pushed.window /\ processed' = now
      /\ out' = IF heard = <<>> THEN pushed.out ELSE heard
      /\ past' = Past(received, frame, active, heard, left)
  BY DEF PushFixedWindow, WindowEvents, LeftBehind
<1>2. /\ frame = processed /\ processed \in Int /\ now \in Int
      /\ told \in Int /\ told <= processed /\ told <= now /\ run \in Nat /\ longer \in Nat
      /\ received \in Int /\ now <= received /\ pending' \in {0, 1}
      /\ now = received - pending'
  <2>1. /\ pending \in {0, 1} /\ processed \in Int /\ processed = past.received - pending
        /\ told \in Int /\ told <= processed /\ run \in Nat /\ past.received \in Nat
    BY DEF TimeInv, Timing, IInv, PastShape
  <2>2. longer \in Nat
    <3> HIDE DEF run
    <3> QED BY <2>1 DEF RunAfter
  <2>3. pending + halves >= 2 /\ pending' = pending + halves - 2
    BY <1>1
  <2> QED BY <2>1, <2>2, <2>3
<1>3. /\ window \in Windows /\ WSpans(window, processed, told)
      /\ WHears(window, processed, told, run, owed)
  BY <1>1 DEF TimeInv, FixedWindowInv, IInv, WindowInv
<1>4. OwingWindow(more, owed, now, told, longer)
  BY <1>1, <1>2, OwingNext DEF TimeInv
<1> HIDE DEF received, left
<1>5. /\ past'.received = received /\ past'.run = longer /\ past'.emitted = after
      /\ past'.owed = more \ (FramesOf(heard) \cup left)
  <2> HIDE DEF heard
  <2> DEFINE p == Past(received, frame, active, heard, left)
  <2>1. /\ p.received = received /\ p.run = longer /\ p.emitted = after
        /\ p.owed = OwedNext(frame, longer) \ (FramesOf(heard) \cup left)
    BY DEF Past, RunAfter, OwedNext, longer
  <2> HIDE DEF p
  <2> QED BY <1>1, <2>1 DEF p
<1> HIDE DEF told, run, owed, more
<1>6. WTakes(window, pushed, processed, told, active, run, owed, more)
  <2>1. pushed = PushWindow(window, processed, active)
    BY <1>2
  <2> HIDE DEF pushed, longer
  <2> QED BY <1>2, <1>3, <2>1, PushWindowTells
<1> HIDE DEF pushed, frame
<1>7. WTells(pushed, now, told) /\ WHearsAfter(pushed, now, told, longer, more)
  BY <1>3, <1>4, <1>6 DEF WTakes
<1> HIDE DEF now, longer
<1>8. WindowFollows(pushed, heard, after, now, told, received)
  BY <1>2, <1>7, WindowEventsRight
<1> HIDE DEF heard, after
<1>9. /\ after \in Int /\ after <= now /\ WSpans(pushed.window, now, after)
      /\ heard = <<>> => Silently(pushed)
      /\ \A e \in ToSet(heard) :
            /\ e.reason # "ended" /\ Honest(e)
            /\ Len(pushed.window.samples) <= pushed.window.overlap => Placed(e, received)
      /\ WHears(pushed.window, now, after, longer, past'.owed)
  BY <1>5, <1>7, <1>8 DEF WindowFollows, left
<1>10. Timing'
  BY <1>1, <1>2, <1>5, <1>9 DEF TimeInv, Timing
<1>11. EndpointInv' /\ FixedWindowInv'
  BY <1>1, <1>5, <1>9 DEF EndpointInv, FixedWindowInv
<1>12. EventsInv'
  <2>1. CASE heard = <<>>
    <3>1. out' = <<>> \/ out' = <<StreamEnded>>
      BY <1>1, <1>9, <2>1 DEF Silently
    <3>2. \A e \in ToSet(out') : e.reason = "ended"
      BY <3>1, InEvents DEF StreamEnded
    <3> QED BY <3>2 DEF EventsInv
  <2>2. CASE heard # <<>>
    BY <1>1, <1>5, <1>9, <2>2 DEF EventsInv, Settled
  <2> QED BY <2>1, <2>2
<1> QED BY <1>10, <1>11, <1>12 DEF TimeInv

\* flush, with a fixed window
LEMMA FlushFixedWindowKeeps ==
    ASSUME IInv, TimeInv, FlushFixedWindow
    PROVE  TimeInv'
<1> DEFINE flushed == FlushWindow(window)
           told == past.emitted
           heard == WindowEvents(flushed, processed, told)
           events == [i \in DOMAIN flushed.out |->
                        WithTimeline(flushed.out[i], processed, 0, told)]
           after == EmittedAfter(heard, told)
           owed == past.owed
<1>1. /\ mode = "window" /\ window' = flushed.window /\ out' = events
      /\ UNCHANGED <<mode, pending, processed>>
      /\ past' = [past EXCEPT !.run = 0, !.emitted = EmittedAfter(events, @),
                              !.owed = @ \ FramesOf(events)]
  BY DEF FlushFixedWindow
<1>2. /\ processed \in Int /\ told \in Int /\ told <= processed /\ past.run \in Nat
      /\ past.received \in Int /\ processed <= past.received
  BY DEF TimeInv, Timing, IInv, PastShape
<1>3. /\ window \in Windows /\ WSpans(window, processed, told)
      /\ WHears(window, processed, told, past.run, owed)
  BY <1>1 DEF TimeInv, FixedWindowInv, IInv, WindowInv
<1>4. flushed.out # <<StreamEnded>> /\ ~flushed.window.open
  <2>1. CASE ~window.open
    <3>1. flushed.out = <<>> /\ flushed.window = [window EXCEPT !.preRoll = <<>>]
      BY <2>1 DEF FlushWindow, Quietly
    <3>2. ~flushed.window.open
      BY <1>3, <2>1, <3>1 DEF Windows
    <3> HIDE DEF flushed
    <3> QED BY <3>1, <3>2
  <2>2. CASE window.open
    <3>1. /\ flushed.window = ResetWindow(window)
          /\ \/ flushed.out = <<>>
             \/ flushed.out = <<WindowEvent(window.samples, window.overlap, "flushed")>>
      BY <2>2 DEF FlushWindow
    <3>2. ~ResetWindow(window).open
      BY <1>3 DEF ResetWindow, Closed, Windows
    <3>3. <<WindowEvent(window.samples, window.overlap, "flushed")>> # <<StreamEnded>>
      BY DEF WindowEvent, StreamEnded
    <3> HIDE DEF flushed
    <3> QED BY <3>1, <3>2, <3>3
  <2> QED BY <2>1, <2>2
<1>5. WTells(flushed, processed, told) /\ WHearsAfter(flushed, processed, told, 0, owed)
  <2> HIDE DEF told, owed
  <2> QED BY <1>2, <1>3, FlushWindowTells
<1> HIDE DEF flushed
<1>6. heard = events
  BY <1>4 DEF WindowEvents
<1>7. /\ past'.received = past.received /\ past'.run = 0 /\ past'.emitted = after
      /\ past'.owed = owed \ FramesOf(heard)
  <2> HIDE DEF events, heard
  <2> QED BY <1>1, <1>6 DEF IInv, PastShape
<1> HIDE DEF events, told, owed
<1>8. WindowFollows(flushed, heard, after, processed, told, past.received)
  BY <1>2, <1>5, WindowEventsRight
<1> HIDE DEF heard, after
<1>9. FramesOf(heard) \cup LeftBehind(flushed.window) = FramesOf(heard)
  BY <1>4 DEF LeftBehind
<1>10. /\ after \in Int /\ after <= processed /\ WSpans(flushed.window, processed, after)
       /\ \A e \in ToSet(heard) :
             /\ e.reason # "ended" /\ Honest(e)
             /\ Len(flushed.window.samples) <= flushed.window.overlap => Placed(e, past.received)
       /\ WHears(flushed.window, processed, after, 0, past'.owed)
  BY <1>5, <1>7, <1>8, <1>9 DEF WindowFollows
<1>11. Timing'
  BY <1>1, <1>2, <1>7, <1>10 DEF TimeInv, Timing
<1>12. EndpointInv' /\ FixedWindowInv'
  BY <1>1, <1>7, <1>10 DEF EndpointInv, FixedWindowInv
<1>13. EventsInv'
  BY <1>1, <1>6, <1>7, <1>10 DEF EventsInv, Settled
<1> QED BY <1>11, <1>12, <1>13 DEF TimeInv

LEMMA TimeKept == IInv /\ TimeInv /\ [Next]_vars => TimeInv'
<1> SUFFICES ASSUME IInv, TimeInv, [Next]_vars PROVE TimeInv'
  OBVIOUS
<1>1. CASE PushPcm
  <2> SUFFICES ASSUME NEW halves \in 1..2,
                      \/ PushPart(halves)
                      \/ \E speech, cut \in BOOLEAN : PushEndpoint(halves, speech, cut)
                      \/ \E active \in BOOLEAN : PushFixedWindow(halves, active)
               PROVE  TimeInv'
    BY <1>1 DEF PushPcm
  <2>1. CASE PushPart(halves)
    BY <2>1, PartKeeps
  <2>2. ASSUME NEW speech \in BOOLEAN, NEW cut \in BOOLEAN, PushEndpoint(halves, speech, cut)
        PROVE  TimeInv'
    BY <2>2, EndpointKeeps
  <2>3. ASSUME NEW active \in BOOLEAN, PushFixedWindow(halves, active)
        PROVE  TimeInv'
    BY <2>3, FixedWindowKeeps
  <2> QED BY <2>1, <2>2, <2>3
<1>2. ASSUME NEW speech \in BOOLEAN, FlushEndpoint(speech)
      PROVE  TimeInv'
  BY <1>2, FlushEndpointKeeps
<1>3. CASE FlushFixedWindow
  BY <1>3, FlushFixedWindowKeeps
<1>4. CASE Reroute
  BY <1>4, RerouteKeeps
<1>5. ASSUME NEW chosen \in SilenceChoices, NEW newMode \in Modes, NEW adaptive \in BOOLEAN,
             ConfigureSegmentation(chosen, newMode, adaptive)
      PROVE  TimeInv'
  BY <1>5, ConfigureKeeps
<1>6. ASSUME NEW density \in Densities, ObserveTextDensity(density)
      PROVE  TimeInv'
  BY <1>6, DensityKeeps
<1>7. CASE DropWindow
  BY <1>7, DropKeeps
<1>8. CASE UNCHANGED vars
  BY <1>8, StutterKeeps
<1> QED BY <1>1, <1>2, <1>3, <1>4, <1>5, <1>6, <1>7, <1>8 DEF Next

\* Which frames were told, which are held and in which order, where the current run
\* of speech is, and what is owed of it, holds of every reachable state: push_pcm,
\* flush, reset and both ways of segmenting preserve it (pipeline.rs 599-815).
THEOREM TimeIsKept == Spec => []TimeInv
<1>1. Init => TimeInv
  BY StartsRight
<1>2. IInv /\ TimeInv /\ [Next]_vars => TimeInv'
  BY TimeKept
<1> QED BY <1>1, <1>2, Invariance, PTL DEF Spec

\* What an utterance repeats of the ones before it is exactly what it declares as
\* its overlap, after a hard limit, a change of speaker, a window that moves on,
\* grows or shrinks, and a flush (vad lib.rs 661-704, pipeline.rs 318-390).
THEOREM NothingIsHeardTwice == Spec => []HeardOnce
<1>1. TimeInv => HeardOnce
  BY DEF TimeInv, EventsInv, HeardOnce, Utterances, Honest
<1> QED BY <1>1, TimeIsKept, PTL

\* An utterance is placed where its audio is, whatever the sizes of the chunks and
\* wherever the stream is flushed (pipeline.rs 700-790).
THEOREM TheTimeLineIsExact == Spec => []TimelineIsExact
<1>1. TimeInv => TimelineIsExact
  <2> SUFFICES ASSUME TimeInv, NEW e \in Utterances(out), Contiguous(e.frames),
                      mode = "window" => Len(window.samples) <= window.overlap
               PROVE  /\ e.start = Head(e.frames)
                      /\ e.end = Least(Last(e.frames) + 2, past.received)
    BY DEF TimelineIsExact
  <2>1. e \in ToSet(out) /\ e.reason # "ended" /\ Settled
    BY DEF Utterances, Settled
  <2>2. Placed(e, past.received)
    BY <2>1 DEF TimeInv, EventsInv
  <2> QED BY <2>2 DEF Placed
<1> QED BY <1>1, TimeIsKept, PTL

\* A run of speech long enough to count as one is in an utterance, or still held,
\* to its last frame.  With no overlap a hard limit inside a run would leave the
\* detector at an onset, and a rest of the run shorter than MinSpeechFrames would be
\* dropped: the code's overlap is 8 frames.
THEOREM AllSpeechIsHeard ==
    ASSUME MaxOverlapFrames > 0
    PROVE  Spec => []SpeechIsHeard
<1>1. TimeInv => SpeechIsHeard
  <2> SUFFICES ASSUME TimeInv PROVE SpeechIsHeard
    OBVIOUS
  <2>1. CASE mode = "endpoint"
    <3>1. past.owed \subseteq ToSet(detector.active.frames)
      <4>1. Hears(detector, processed, past.emitted, past.run, past.owed)
        BY <2>1 DEF TimeInv, EndpointInv
      <4> QED BY <4>1 DEF Hears
    <3> QED BY <2>1, <3>1 DEF SpeechIsHeard, Held
  <2>2. CASE mode = "window"
    <3>1. past.owed \subseteq ToSet(window.samples)
      <4>1. WHears(window, processed, past.emitted, past.run, past.owed)
        BY <2>2 DEF TimeInv, FixedWindowInv
      <4> QED BY <4>1 DEF WHears
    <3> QED BY <2>2, <3>1 DEF SpeechIsHeard, HeldByWindow
  <2> QED BY <2>1, <2>2 DEF TimeInv, Timing, Modes
<1> QED BY <1>1, TimeIsKept, PTL
=============================================================================
