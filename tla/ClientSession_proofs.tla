------------------------ MODULE ClientSession_proofs ------------------------
(***************************************************************************)
(* The client's session for any number of calls and frames and any channel *)
(* capacities: its types, that the end of the input is announced once,     *)
(* with no audio after it, that no audio reaches a backend that is paused, *)
(* that the flag and the backend agree once the commands have arrived, and *)
(* that an import is heard to the end.                                     *)
(***************************************************************************)
EXTENDS ClientSession, SequenceTheorems, WellFoundedInduction, TLAPS

LEMMA Bounds == /\ MaxFrames \in Nat /\ MaxCalls \in Nat
                /\ CommandCapacity \in Nat \ {0} /\ PcmCapacity \in Nat \ {0}
                /\ CaptureCapacity \in Nat \ {0}
BY CapacityAssumption

LEMMA TailOfSeq ==
    ASSUME NEW S, NEW q \in Seq(S), q # <<>>
    PROVE  /\ Head(q) \in S /\ Tail(q) \in Seq(S)
           /\ Len(Tail(q)) = Len(q) - 1 /\ Len(q) \in Nat \ {0}
           /\ DOMAIN Tail(q) = 1..Len(Tail(q)) /\ DOMAIN q = 1..Len(q)
           /\ \A i \in DOMAIN Tail(q) : Tail(q)[i] = q[i + 1]
           /\ Head(q) = q[1]
<1>1. /\ Head(q) \in S /\ Tail(q) \in Seq(S) /\ Len(Tail(q)) = Len(q) - 1
      /\ \A i \in 1..Len(Tail(q)) : Tail(q)[i] = q[i + 1]
  BY HeadTailProperties
<1>2. /\ Len(q) \in Nat /\ Len(q) # 0
      /\ DOMAIN Tail(q) = 1..Len(Tail(q)) /\ DOMAIN q = 1..Len(q)
  BY <1>1, LenProperties, EmptySeq
<1>3. Head(q) = q[1]
  OBVIOUS
<1> QED BY <1>1, <1>2, <1>3

LEMMA AppendToSeq ==
    ASSUME NEW S, NEW q \in Seq(S), NEW e \in S
    PROVE  /\ Append(q, e) \in Seq(S) /\ Len(Append(q, e)) = Len(q) + 1
           /\ Len(q) \in Nat
BY AppendProperties, LenProperties

-----------------------------------------------------------------------------
(* Types *)

\* A variable that does not change keeps its type.
LEMMA Unchanged ==
    ASSUME TypeOK
    PROVE  /\ UNCHANGED flags => FlagsOK'
           /\ UNCHANGED caller => CallerOK'
           /\ UNCHANGED commands => CommandsOK'
           /\ UNCHANGED capture => CaptureOK'
           /\ UNCHANGED producer => ProducerOK'
           /\ UNCHANGED pcm => PcmOK'
           /\ UNCHANGED loop => LoopOK'
           /\ UNCHANGED wire => WireOK'
           /\ UNCHANGED past => PastOK'
<1> USE DEF TypeOK
<1>1. UNCHANGED flags => FlagsOK'
  BY DEF FlagsOK
<1>2. UNCHANGED caller => CallerOK'
  BY DEF CallerOK
<1>3. UNCHANGED commands => CommandsOK'
  BY DEF CommandsOK
<1>4. UNCHANGED capture => CaptureOK'
  BY DEF CaptureOK
<1>5. UNCHANGED producer => ProducerOK'
  BY DEF ProducerOK
<1>6. UNCHANGED pcm => PcmOK'
  BY DEF PcmOK
<1>7. UNCHANGED loop => LoopOK'
  BY DEF LoopOK
<1>8. UNCHANGED wire => WireOK'
  BY DEF WireOK
<1>9. UNCHANGED past => PastOK'
  BY DEF PastOK
<1> QED BY <1>1, <1>2, <1>3, <1>4, <1>5, <1>6, <1>7, <1>8, <1>9

LEMMA InitTypeOK == Init => TypeOK
<1> SUFFICES ASSUME Init PROVE TypeOK
  OBVIOUS
<1>1. \A S : <<>> \in Seq(S)
  OBVIOUS
<1>2. Len(<<>>) = 0 /\ DOMAIN <<>> = {}
  OBVIOUS
<1>3. CallerOK /\ CommandsOK /\ PcmOK /\ WireOK
  BY <1>1, <1>2, Bounds DEF Init, CallerOK, CommandsOK, PcmOK, WireOK
<1>4. CaptureOK
  BY <1>1, <1>2, Bounds, CapacityAssumption DEF Init, CaptureOK
<1>5. FlagsOK /\ ProducerOK /\ LoopOK /\ PastOK
  BY Bounds DEF Init, FlagsOK, ProducerOK, LoopOK, PastOK
<1> QED BY <1>3, <1>4, <1>5 DEF TypeOK

\* A call leaves steps of its own to do, and nothing else than flags changes.
LEMMA CallTyped == TypeOK /\ CallerNext => TypeOK'
<1> SUFFICES ASSUME TypeOK, CallerNext PROVE TypeOK'
  OBVIOUS
<1> USE DEF CallerNext, Pause, Resume, TranslateText, Update, Finish, Cancel, Request, Stop
<1>1. PICK kind : Call(kind)
  OBVIOUS
<1>2. PastOK'
  <2> DEFINE u == past.undisturbed /\ kind \notin {"pause", "finish", "cancel"}
             x == past.crossed \/ (kind = "pause" /\ (flags.paused \/ ResumeOnItsWay))
  <2>1. past' = [past EXCEPT !.calls = past.calls + 1, !.undisturbed = u,
                             !.crossed = x]
        /\ past.calls < MaxCalls
    BY <1>1 DEF Call
  <2>2. u \in BOOLEAN /\ x \in BOOLEAN
    OBVIOUS
  <2>3. past.calls + 1 \in 0..MaxCalls
    BY <2>1, Bounds DEF TypeOK, PastOK
  <2> HIDE DEF u, x
  <2>4. DOMAIN past' = DOMAIN past
    BY <2>1 DEF TypeOK, PastOK
  <2> QED BY <2>1, <2>2, <2>3, Zenon DEF TypeOK, PastOK
<1>3. CallerOK'
  <2>1. caller' \in {<<>>, <<"pause">>, <<"resume">>, <<"text">>, <<"update">>,
                     <<"hold", "finish">>, <<"markCancel", "hold", "cancel">>}
    OBVIOUS
  <2>2. CASE caller' = <<>>
    BY <2>2 DEF CallerOK
  <2>3. CASE caller' \in {<<"pause">>, <<"resume">>, <<"text">>, <<"update">>}
    <3>1. PICK e \in CommandKinds : caller' = <<e>>
      BY <2>3 DEF CommandKinds
    <3>2. <<e>> \in Seq(CommandKinds \cup FlagSteps) /\ Len(<<e>>) = 1
      OBVIOUS
    <3> QED BY <3>1, <3>2 DEF CallerOK
  <2>4. CASE caller' = <<"hold", "finish">>
    <3>1. {"hold", "finish"} \subseteq CommandKinds \cup FlagSteps
      BY DEF CommandKinds, FlagSteps
    <3>2. <<"hold", "finish">> \in Seq(CommandKinds \cup FlagSteps)
      BY <3>1
    <3> QED BY <2>4, <3>2 DEF CallerOK
  <2>5. CASE caller' = <<"markCancel", "hold", "cancel">>
    <3>1. {"markCancel", "hold", "cancel"} \subseteq CommandKinds \cup FlagSteps
      BY DEF CommandKinds, FlagSteps
    <3>2. <<"markCancel", "hold", "cancel">> \in Seq(CommandKinds \cup FlagSteps)
      BY <3>1
    <3> QED BY <2>5, <3>2 DEF CallerOK
  <2> QED BY <2>1, <2>2, <2>3, <2>4, <2>5
<1>4. FlagsOK'
  BY DEF TypeOK, FlagsOK
<1>5. UNCHANGED <<commands, capture, producer, pcm, loop, wire>>
  BY <1>1 DEF Call
<1> QED BY <1>2, <1>3, <1>4, <1>5, Unchanged DEF TypeOK

\* What is left of a call gets shorter.
LEMMA RestTyped ==
    ASSUME CallerOK, caller # <<>>, caller' = Tail(caller)
    PROVE  CallerOK'
<1>1. /\ Tail(caller) \in Seq(CommandKinds \cup FlagSteps)
      /\ Len(Tail(caller)) = Len(caller) - 1 /\ Len(caller) \in Nat \ {0}
      /\ DOMAIN Tail(caller) = 1..Len(Tail(caller)) /\ DOMAIN caller = 1..Len(caller)
      /\ \A i \in DOMAIN Tail(caller) : Tail(caller)[i] = caller[i + 1]
  BY TailOfSeq DEF CallerOK
<1>2. ASSUME NEW i \in DOMAIN caller', caller'[i] = "pause" PROVE FALSE
  <2>1. i + 1 \in DOMAIN caller /\ caller[i + 1] = "pause" /\ Len(caller) # 1
    BY <1>1, <1>2
  <2> QED BY <2>1 DEF CallerOK
<1> QED BY <1>1, <1>2 DEF CallerOK

LEMMA CallerStepTyped == TypeOK /\ CallerStep => TypeOK'
<1> SUFFICES ASSUME TypeOK, CallerStep PROVE TypeOK'
  OBVIOUS
<1>1. CASE SetFlag
  <2>1. FlagsOK'
    BY <1>1 DEF SetFlag, TypeOK, FlagsOK
  <2>2. CallerOK'
    BY <1>1, RestTyped DEF SetFlag, TypeOK
  <2> QED BY <1>1, <2>1, <2>2, Unchanged DEF SetFlag, TypeOK
<1>2. CASE TrySend
  <2>1. /\ caller # <<>> /\ Head(caller) \in CommandKinds
        /\ UNCHANGED <<flags, capture, producer, pcm, loop, wire, past>>
    BY <1>2 DEF TrySend, SendCommand
  <2>2. /\ Tail(caller) \in Seq(CommandKinds \cup FlagSteps)
        /\ Len(Tail(caller)) = Len(caller) - 1
        /\ 1 \in DOMAIN caller /\ Head(caller) = caller[1]
    BY <2>1, TailOfSeq DEF TypeOK, CallerOK
  <2>3. CASE Accepting
    <3>1. commands' = Append(commands, Head(caller)) /\ caller' = Tail(caller)
      BY <1>2, <2>3 DEF TrySend, SendCommand
    <3>2. CommandsOK'
      BY <2>1, <2>3, <3>1, Bounds, AppendToSeq DEF Accepting, TypeOK, CommandsOK
    <3> QED BY <2>1, <3>1, <3>2, RestTyped, Unchanged DEF TypeOK
  <2>4. CASE ~Accepting /\ Head(caller) = "pause"
    <3>1. caller' = <<"unhold">> \o Tail(caller) /\ UNCHANGED commands
      BY <1>2, <2>4 DEF TrySend, SendCommand
    <3>2. Len(Tail(caller)) = 0
      BY <2>2, <2>4 DEF TypeOK, CallerOK
    <3>3. Tail(caller) = <<>>
      BY <2>2, <3>2, EmptySeq
    <3>4. <<"unhold">> \in Seq(FlagSteps) /\ <<"unhold">> \in Seq(CommandKinds \cup FlagSteps)
          /\ Len(<<"unhold">>) = 1
      BY DEF FlagSteps
    <3>5. <<"unhold">> \o <<>> = <<"unhold">>
      BY <3>4, ConcatEmptySeq
    <3>6. caller' = <<"unhold">>
      BY <3>1, <3>3, <3>5
    <3>7. CallerOK'
      BY <3>4, <3>6 DEF CallerOK
    <3> QED BY <2>1, <3>1, <3>7, Unchanged DEF TypeOK
  <2>5. CASE ~Accepting /\ Head(caller) # "pause"
    <3>1. caller' = <<>> \o Tail(caller) /\ UNCHANGED commands
      BY <1>2, <2>5 DEF TrySend, SendCommand
    <3>2. caller' = Tail(caller)
      BY <2>2, <3>1, ConcatEmptySeq
    <3> QED BY <2>1, <3>1, <3>2, RestTyped, Unchanged DEF TypeOK
  <2> QED BY <2>3, <2>4, <2>5
<1> QED BY <1>1, <1>2 DEF CallerStep

LEMMA CaptureTyped == TypeOK /\ (CaptureFrame \/ CaptureEnds) => TypeOK'
<1> SUFFICES ASSUME TypeOK, CaptureFrame \/ CaptureEnds PROVE TypeOK'
  OBVIOUS
<1>1. CASE CaptureFrame
  <2>1. past.frames + 1 \in 1..MaxFrames
    BY <1>1, Bounds DEF CaptureFrame, TypeOK, PastOK
  <2>2. PastOK'
    BY <1>1, <2>1, Bounds DEF CaptureFrame, TypeOK, PastOK
  <2>3. CaptureOK'
    <3> DEFINE longer == Append(capture.frames, past.frames + 1)
    <3>1. capture.frames \in Seq(1..MaxFrames) /\ Len(capture.frames) < CaptureCapacity
      BY <1>1 DEF CaptureFrame, TypeOK, CaptureOK
    <3>2. longer \in Seq(1..MaxFrames) /\ Len(longer) <= CaptureCapacity
      BY <2>1, <3>1, AppendToSeq, Bounds
    <3>3. capture' = [capture EXCEPT !.frames = longer]
      BY <1>1 DEF CaptureFrame
    <3> HIDE DEF longer
    <3> QED BY <3>2, <3>3 DEF TypeOK, CaptureOK
  <2> QED BY <1>1, <2>2, <2>3, Unchanged DEF CaptureFrame, TypeOK
<1>2. CASE CaptureEnds
  <2>1. CaptureOK'
    BY <1>2 DEF CaptureEnds, TypeOK, CaptureOK
  <2> QED BY <1>2, <2>1, Unchanged DEF CaptureEnds, TypeOK
<1> QED BY <1>1, <1>2

LEMMA ProducerTyped == TypeOK /\ ProducerNext => TypeOK'
<1> SUFFICES ASSUME TypeOK, ProducerNext PROVE TypeOK'
  OBVIOUS
<1>1. UNCHANGED <<flags, caller, commands, loop, wire, past>>
  BY DEF ProducerNext, ProducerLooks, ProducerReceives, ProducerChecks, ProducerSends, Producing
<1>2. CASE ProducerLooks \/ ProducerChecks
  <2>1. ProducerOK'
    BY <1>2 DEF ProducerLooks, ProducerChecks, Producing, TypeOK, ProducerOK
  <2> QED BY <1>1, <1>2, <2>1, Unchanged DEF ProducerLooks, ProducerChecks, TypeOK
<1>3. CASE ProducerReceives
  <2>1. CASE capture.frames # <<>>
    <3> DEFINE rest == Tail(capture.frames)
    <3>1. /\ producer' = [pc |-> "check", frame |-> Head(capture.frames)]
          /\ capture' = [capture EXCEPT !.frames = rest]
          /\ UNCHANGED pcm
      BY <1>3, <2>1 DEF ProducerReceives
    <3>2. capture.frames \in Seq(1..MaxFrames)
      BY DEF TypeOK, CaptureOK
    <3>3. /\ Head(capture.frames) \in 1..MaxFrames
          /\ rest \in Seq(1..MaxFrames)
          /\ Len(rest) = Len(capture.frames) - 1
          /\ Len(capture.frames) \in Nat
      BY <2>1, <3>2, TailOfSeq
    <3> HIDE DEF rest
    <3>4. ProducerOK'
      BY <3>1, <3>3, Bounds DEF ProducerOK
    <3>5. CaptureOK'
      <4>1. Len(rest) <= CaptureCapacity
        BY <3>3, Bounds DEF TypeOK, CaptureOK
      <4> QED BY <3>1, <3>3, <4>1 DEF TypeOK, CaptureOK
    <3> QED BY <1>1, <3>1, <3>4, <3>5, Unchanged DEF TypeOK
  <2>2. CASE capture.frames = <<>>
    <3>1. ProducerOK'
      BY <1>3, <2>2 DEF ProducerReceives, TypeOK, ProducerOK
    <3> QED BY <1>1, <1>3, <2>2, <3>1, Unchanged DEF ProducerReceives, TypeOK
  <2> QED BY <2>1, <2>2
<1>4. CASE ProducerSends
  <2>1. producer.frame \in 1..MaxFrames
    BY <1>4, Bounds DEF ProducerSends, Producing, TypeOK, ProducerOK
  <2>2. ProducerOK'
    BY <1>4 DEF ProducerSends, TypeOK, ProducerOK
  <2>3. PcmOK'
    <3>1. CASE UNCHANGED pcm
      BY <3>1, Unchanged
    <3>2. CASE pcm' = Append(pcm, producer.frame) /\ Len(pcm) < PcmCapacity
      BY <2>1, <3>2, Bounds, AppendToSeq DEF TypeOK, PcmOK
    <3> QED BY <1>4, <3>1, <3>2 DEF ProducerSends
  <2> QED BY <1>1, <1>4, <2>2, <2>3, Unchanged DEF ProducerSends, TypeOK
<1> QED BY <1>2, <1>3, <1>4 DEF ProducerNext

\* What the loop writes has its type.
LEMMA MessagesTyped ==
    /\ \A kind \in {"pause", "resume", "text", "update"} \cup Terminals :
          <<Message(kind, 0)>> \in Seq(Messages)
    /\ TurnStarted \in Seq(Messages)
    /\ \A frame \in 1..MaxFrames : <<Message("audio", frame)>> \in Seq(Messages)
<1>1. \A m \in Messages : <<m>> \in Seq(Messages)
  OBVIOUS
<1>2. \A kind \in {"pause", "resume", "text", "update", "turnStarted"} \cup Terminals :
          Message(kind, 0) \in Messages
  BY Bounds DEF Message, Messages
<1>3. \A frame \in 1..MaxFrames : Message("audio", frame) \in Messages
  BY Bounds DEF Message, Messages
<1>4. TurnStarted \in Seq(Messages)
  BY <1>1, <1>2, EmptySeq DEF TurnStarted
<1> QED BY <1>1, <1>2, <1>3, <1>4

LEMMA WriteTyped ==
    ASSUME TypeOK, NEW messages \in Seq(Messages), NEW then, Write(messages, then),
           loop' = then => LoopOK'
    PROVE  WireOK' /\ LoopOK'
<1>1. wire \o messages \in Seq(Messages)
  BY ConcatProperties DEF TypeOK, WireOK
<1>2. WireOK'
  BY <1>1 DEF Write, TypeOK, WireOK
<1>3. LoopOK'
  BY DEF Write, Ended, TypeOK, LoopOK
<1> QED BY <1>2, <1>3

LEMMA LoopTyped == TypeOK /\ LoopNext => TypeOK'
<1> SUFFICES ASSUME TypeOK, LoopNext PROVE TypeOK'
  OBVIOUS
<1>1. CASE Connect
  <2>1. LoopOK' /\ ProducerOK'
    BY <1>1 DEF Connect, Ended, TypeOK, LoopOK, ProducerOK
  <2> QED BY <1>1, <2>1, Unchanged DEF Connect, TypeOK
<1>2. CASE ClearPaused
  <2>1. LoopOK' /\ FlagsOK'
    BY <1>2 DEF ClearPaused, TypeOK, LoopOK, FlagsOK
  <2> QED BY <1>2, <2>1, Unchanged DEF ClearPaused, TypeOK
<1>3. CASE Tick
  <2>1. WireOK' /\ LoopOK'
    <3>1. CASE flags.cancel
      BY <1>3, <3>1, Unchanged DEF Tick, TickFor, Ended, TypeOK, LoopOK
    <3>2. CASE ~flags.cancel
      <4>1. Write(<<Message("finish", 0)>>, FinishNow)
        BY <1>3, <3>2 DEF Tick, TickFor
      <4>2. loop' = FinishNow => LoopOK'
        BY DEF FinishNow, TypeOK, LoopOK
      <4> QED BY <4>1, <4>2, MessagesTyped, WriteTyped DEF Terminals
    <3> QED BY <3>1, <3>2
  <2> QED BY <1>3, <2>1, Unchanged DEF Tick, TickFor, Select, TypeOK
<1>4. CASE HandleCommand
  <2>1. /\ commands # <<>> /\ commands' = Tail(commands)
        /\ UNCHANGED <<flags, caller, capture, producer, past, pcm>>
    BY <1>4 DEF HandleCommand, Select
  <2>2. CommandsOK' /\ Head(commands) \in CommandKinds
    BY <2>1, Bounds, TailOfSeq DEF TypeOK, CommandsOK
  <2>3. WireOK' /\ LoopOK'
    <3>1. CASE Head(commands) = "cancel"
      BY <1>4, <3>1, Unchanged DEF HandleCommand, Ended, TypeOK, LoopOK
    <3>2. CASE Head(commands) = "finish" /\ loop.finishSent
      BY <1>4, <3>2, Unchanged DEF HandleCommand, Quiet
    <3>3. CASE Head(commands) = "finish" /\ ~loop.finishSent
      <4>1. Write(<<Message("finish", 0)>>, FinishNow)
        BY <1>4, <3>3 DEF HandleCommand
      <4>2. loop' = FinishNow => LoopOK'
        BY DEF FinishNow, TypeOK, LoopOK
      <4> QED BY <4>1, <4>2, MessagesTyped, WriteTyped DEF Terminals
    <3>4. CASE Head(commands) = "resume"
      <4> DEFINE resumed == [loop EXCEPT !.pc = "resumed"]
      <4>1. Write(<<Message("resume", 0)>>, resumed)
        BY <1>4, <3>4 DEF HandleCommand
      <4>2. loop' = resumed => LoopOK'
        BY DEF TypeOK, LoopOK
      <4> HIDE DEF resumed
      <4> QED BY <4>1, <4>2, MessagesTyped, WriteTyped
    <3>5. CASE Head(commands) \in {"pause", "text", "update"}
      <4>1. Write(<<Message(Head(commands), 0)>>, loop)
        BY <1>4, <3>5 DEF HandleCommand
      <4> QED BY <3>5, <4>1, MessagesTyped, WriteTyped, Unchanged
    <3> QED BY <2>2, <3>1, <3>2, <3>3, <3>4, <3>5 DEF CommandKinds
  <2> QED BY <2>1, <2>2, <2>3, Unchanged DEF TypeOK
<1>5. CASE ForwardAudio
  <2>1. /\ pcm # <<>> /\ pcm' = Tail(pcm)
        /\ UNCHANGED <<flags, caller, capture, producer, past, commands>>
    BY <1>5 DEF ForwardAudio, Forward, Select
  <2>2. PcmOK' /\ Head(pcm) \in 1..MaxFrames
    BY <2>1, Bounds, TailOfSeq DEF TypeOK, PcmOK
  <2>3. WireOK' /\ LoopOK'
    <3>1. CASE Quiet
      BY <3>1, Unchanged DEF Quiet
    <3>2. CASE Write(TurnStarted \o <<Message("audio", Head(pcm))>>, loop)
      <4>1. TurnStarted \o <<Message("audio", Head(pcm))>> \in Seq(Messages)
        BY <2>2, MessagesTyped, ConcatProperties
      <4> QED BY <3>2, <4>1, WriteTyped, Unchanged
    <3> QED BY <1>5, <3>1, <3>2 DEF ForwardAudio, Forward
  <2> QED BY <2>1, <2>2, <2>3, Unchanged DEF TypeOK
<1>6. CASE EndAudio
  <2>1. WireOK' /\ LoopOK'
    <3> DEFINE closed == [loop EXCEPT !.pcmClosed = TRUE]
               done == [closed EXCEPT !.finishSent = TRUE]
    <3>1. CASE capture.finite /\ ~loop.finishSent
      <4>1. Write(<<Message("inputEnded", 0)>>, done)
        BY <1>6, <3>1 DEF EndAudio, AudioEnds
      <4>2. loop' = done => LoopOK'
        BY DEF TypeOK, LoopOK
      <4> HIDE DEF done
      <4> QED BY <4>1, <4>2, MessagesTyped, WriteTyped DEF Terminals
    <3>2. CASE ~(capture.finite /\ ~loop.finishSent)
      <4>1. loop' = closed /\ UNCHANGED wire
        BY <1>6, <3>2 DEF EndAudio, AudioEnds
      <4> QED BY <4>1, Unchanged DEF TypeOK, LoopOK
    <3> QED BY <3>1, <3>2
  <2> QED BY <1>6, <2>1, Unchanged DEF EndAudio, AudioEnds, Select, TypeOK
<1>7. CASE ReadFinished \/ ReadLost
  <2>1. LoopOK'
    BY <1>7 DEF ReadFinished, ReadLost, Ended, TypeOK, LoopOK
  <2> QED BY <1>7, <2>1, Unchanged DEF ReadFinished, ReadLost, Select, TypeOK
<1> QED BY <1>1, <1>2, <1>3, <1>4, <1>5, <1>6, <1>7 DEF LoopNext, LoopStep

LEMMA NextTypeOK == TypeOK /\ [Next]_vars => TypeOK'
<1> SUFFICES ASSUME TypeOK, [Next]_vars PROVE TypeOK'
  OBVIOUS
<1>1. CASE UNCHANGED vars
  BY <1>1, Unchanged DEF vars, TypeOK
<1> QED
  BY <1>1, CallTyped, CallerStepTyped, CaptureTyped, ProducerTyped, LoopTyped DEF Next

\* The state of a client session keeps its types, and each of its channels its
\* capacity, for any number of calls and frames.
THEOREM TypeCorrect == Spec => []TypeOK
<1> QED BY InitTypeOK, NextTypeOK, PTL DEF Spec

-----------------------------------------------------------------------------
(* The end of the input is announced once *)

NoneOf(kinds, messages) == \A i \in DOMAIN messages : messages[i].kind \notin kinds

\* finish_sent is what the loop knows of its wire.
EndInv ==
    /\ EndIsAnnouncedOnce
    /\ ~loop.finishSent => NoneOf(Terminals, wire)

\* Where the messages of two sequences are found in their concatenation.
LEMMA Joined ==
    ASSUME NEW u \in Seq(Messages), NEW v \in Seq(Messages)
    PROVE  \A i \in DOMAIN (u \o v) :
              \/ i \in DOMAIN u /\ (u \o v)[i] = u[i]
              \/ i \notin DOMAIN u /\ i - Len(u) \in DOMAIN v /\ (u \o v)[i] = v[i - Len(u)]
<1>1. /\ u \o v \in Seq(Messages) /\ Len(u \o v) = Len(u) + Len(v)
      /\ \A i \in 1..(Len(u) + Len(v)) :
            (u \o v)[i] = IF i <= Len(u) THEN u[i] ELSE v[i - Len(u)]
  BY ConcatProperties
<1>2. /\ Len(u) \in Nat /\ Len(v) \in Nat /\ DOMAIN u = 1..Len(u) /\ DOMAIN v = 1..Len(v)
      /\ DOMAIN (u \o v) = 1..(Len(u) + Len(v))
  BY <1>1, LenProperties
<1> DEFINE w == u \o v
<1> HIDE DEF w
<1> QED BY <1>1, <1>2 DEF w

\* After messages none of which ends the input anything may follow in which
\* nothing follows an end; after any messages, what is neither end nor audio.
LEMMA Following ==
    ASSUME NEW u \in Seq(Messages), NEW v \in Seq(Messages)
    PROVE  /\ NoneOf(Terminals, u) /\ NoneOf(Terminals, v) => NoneOf(Terminals, u \o v)
           /\ NoneOf(Terminals, u) /\ Len(v) = 1 => AnnouncedOnce(u \o v)
           /\ AnnouncedOnce(u) /\ NoneOf(Terminals \cup {"audio"}, v) => AnnouncedOnce(u \o v)
<1> DEFINE w == u \o v
<1>1. \A i \in DOMAIN w :
         \/ i \in DOMAIN u /\ w[i] = u[i]
         \/ i \notin DOMAIN u /\ i - Len(u) \in DOMAIN v /\ w[i] = v[i - Len(u)]
  BY Joined
<1>2. /\ Len(u) \in Nat /\ Len(v) \in Nat /\ DOMAIN u = 1..Len(u) /\ DOMAIN v = 1..Len(v)
      /\ DOMAIN w \subseteq Nat
  <2>1. w \in Seq(Messages)
    BY ConcatProperties
  <2> HIDE DEF w
  <2> QED BY <2>1, LenProperties
<1> HIDE DEF w
<1>3. NoneOf(Terminals, u) /\ NoneOf(Terminals, v) => NoneOf(Terminals, w)
  BY <1>1 DEF NoneOf
<1>4. NoneOf(Terminals, u) /\ Len(v) = 1 => AnnouncedOnce(w)
  <2> SUFFICES ASSUME NoneOf(Terminals, u), Len(v) = 1,
                      NEW i \in DOMAIN w, NEW j \in DOMAIN w, i < j,
                      w[i].kind \in Terminals
               PROVE  FALSE
    BY DEF AnnouncedOnce
  <2>1. i \notin DOMAIN u
    BY <1>1 DEF NoneOf
  <2>2. j \notin DOMAIN u
    BY <1>2, <2>1
  <2>3. i - Len(u) = 1 /\ j - Len(u) = 1
    BY <1>1, <1>2, <2>1, <2>2
  <2> QED BY <1>2, <2>3
<1>5. AnnouncedOnce(u) /\ NoneOf(Terminals \cup {"audio"}, v) => AnnouncedOnce(w)
  <2> SUFFICES ASSUME AnnouncedOnce(u), NoneOf(Terminals \cup {"audio"}, v),
                      NEW i \in DOMAIN w, NEW j \in DOMAIN w, i < j,
                      w[i].kind \in Terminals, w[j].kind \in Terminals \cup {"audio"}
               PROVE  FALSE
    BY DEF AnnouncedOnce
  <2>1. j \in DOMAIN u /\ w[j] = u[j]
    BY <1>1 DEF NoneOf
  <2>2. i \in DOMAIN u
    BY <1>1, <2>1 DEF NoneOf
  <2>3. w[i] = u[i]
    BY <1>1, <2>2
  <2> QED BY <2>1, <2>2, <2>3 DEF AnnouncedOnce
<1> QED BY <1>3, <1>4, <1>5 DEF w

\* A step that writes nothing and does not forget that the end was announced.
LEMMA EndKept ==
    ASSUME EndInv, UNCHANGED wire, loop.finishSent => loop'.finishSent
    PROVE  EndInv'
BY DEF EndInv, EndIsAnnouncedOnce, AnnouncedOnce, NoneOf

\* A step that writes the end, which was not announced yet.
LEMMA EndWritten ==
    ASSUME TypeOK, EndInv, ~loop.finishSent, NEW kind \in Terminals, NEW then,
           then.finishSent, Write(<<Message(kind, 0)>>, then)
    PROVE  EndInv'
<1> DEFINE end == <<Message(kind, 0)>>
<1>1. end \in Seq(Messages) /\ Len(end) = 1 /\ wire \in Seq(Messages)
  BY MessagesTyped DEF TypeOK, WireOK
<1>2. AnnouncedOnce(wire \o end)
  BY <1>1, Following DEF EndInv
<1>3. CASE wire' = wire \o end /\ loop' = then
  BY <1>2, <1>3 DEF EndInv, EndIsAnnouncedOnce, AnnouncedOnce
<1>4. CASE wire' = wire /\ loop' = Ended("error")
  BY <1>4, EndKept DEF Ended, TypeOK, LoopOK
<1> QED BY <1>3, <1>4 DEF Write

\* A step that writes neither an end nor audio, or audio before the end.
LEMMA OtherWritten ==
    ASSUME TypeOK, EndInv, NEW messages \in Seq(Messages), NEW then,
           then.finishSent = loop.finishSent, Write(messages, then),
           NoneOf(Terminals, messages),
           ~loop.finishSent \/ NoneOf({"audio"}, messages)
    PROVE  EndInv'
<1>1. wire \in Seq(Messages)
  BY DEF TypeOK, WireOK
<1>2. CASE wire' = wire \o messages /\ loop' = then
  <2>1. CASE ~loop.finishSent
    <3>1. NoneOf(Terminals, wire \o messages)
      BY <1>1, <2>1, Following DEF EndInv
    <3>2. AnnouncedOnce(wire \o messages)
      BY <3>1 DEF NoneOf, AnnouncedOnce
    <3> QED BY <1>2, <3>1, <3>2 DEF EndInv, EndIsAnnouncedOnce, AnnouncedOnce, NoneOf
  <2>2. CASE loop.finishSent
    <3>1. NoneOf(Terminals \cup {"audio"}, messages)
      BY <2>2 DEF NoneOf
    <3>2. AnnouncedOnce(wire \o messages)
      BY <1>1, <3>1, Following DEF EndInv, EndIsAnnouncedOnce
    <3> QED BY <1>2, <2>2, <3>2 DEF EndInv, EndIsAnnouncedOnce, AnnouncedOnce
  <2> QED BY <2>1, <2>2
<1>3. CASE wire' = wire /\ loop' = Ended("error")
  BY <1>3, EndKept DEF Ended, TypeOK, LoopOK
<1> QED BY <1>2, <1>3 DEF Write

LEMMA InitEndInv == Init => EndInv
BY DEF Init, EndInv, EndIsAnnouncedOnce, AnnouncedOnce, NoneOf

LEMMA NextEndInv == TypeOK /\ EndInv /\ [Next]_vars => EndInv'
<1> SUFFICES ASSUME TypeOK, EndInv, [Next]_vars PROVE EndInv'
  OBVIOUS
<1>1. CASE UNCHANGED <<wire, loop>>
  BY <1>1, EndKept
<1>2. CASE Connect \/ ClearPaused \/ ReadFinished \/ ReadLost
  <2>1. UNCHANGED wire /\ loop'.finishSent = loop.finishSent
    BY <1>2 DEF Connect, ClearPaused, ReadFinished, ReadLost, Ended, TypeOK, LoopOK
  <2> QED BY <2>1, EndKept
<1>3. CASE Tick
  <2>1. CASE flags.cancel
    <3>1. UNCHANGED wire /\ loop'.finishSent = loop.finishSent
      BY <1>3, <2>1 DEF Tick, TickFor, Ended, TypeOK, LoopOK
    <3> QED BY <3>1, EndKept
  <2>2. CASE ~flags.cancel
    <3>1. ~loop.finishSent /\ Write(<<Message("finish", 0)>>, FinishNow)
      BY <1>3, <2>2 DEF Tick, TickFor
    <3>2. FinishNow.finishSent
      BY DEF FinishNow, TypeOK, LoopOK
    <3> QED BY <3>1, <3>2, EndWritten DEF Terminals
  <2> QED BY <2>1, <2>2
<1>4. CASE HandleCommand
  <2>1. Head(commands) \in CommandKinds
    BY <1>4, TailOfSeq DEF HandleCommand, TypeOK, CommandsOK
  <2>2. CASE Head(commands) = "cancel" \/ (Head(commands) = "finish" /\ loop.finishSent)
    <3>1. UNCHANGED wire /\ loop'.finishSent = loop.finishSent
      BY <1>4, <2>2 DEF HandleCommand, Quiet, Ended, TypeOK, LoopOK
    <3> QED BY <3>1, EndKept
  <2>3. CASE Head(commands) = "finish" /\ ~loop.finishSent
    <3>1. Write(<<Message("finish", 0)>>, FinishNow)
      BY <1>4, <2>3 DEF HandleCommand
    <3>2. FinishNow.finishSent
      BY DEF FinishNow, TypeOK, LoopOK
    <3> QED BY <2>3, <3>1, <3>2, EndWritten DEF Terminals
  <2>4. CASE Head(commands) \in {"resume", "pause", "text", "update"}
    <3> DEFINE message == <<Message(Head(commands), 0)>>
    <3>1. PICK then : Write(message, then) /\ then.finishSent = loop.finishSent
      BY <1>4, <2>4 DEF HandleCommand, TypeOK, LoopOK
    <3>2. message \in Seq(Messages)
      BY <2>4, MessagesTyped
    <3>3. NoneOf(Terminals, message) /\ NoneOf({"audio"}, message)
      BY <2>4 DEF NoneOf, Message, Terminals
    <3> HIDE DEF message
    <3> QED BY <3>1, <3>2, <3>3, OtherWritten
  <2> QED BY <2>1, <2>2, <2>3, <2>4 DEF CommandKinds
<1>5. CASE ForwardAudio
  <2>1. CASE Quiet
    BY <2>1, EndKept DEF Quiet
  <2>2. CASE ~Quiet
    <3> DEFINE message == <<Message("audio", Head(pcm))>>
    <3>1. ~loop.finishSent /\ Write(TurnStarted \o message, loop)
      BY <1>5, <2>2 DEF ForwardAudio, Forward
    <3>2. Head(pcm) \in 1..MaxFrames
      BY <1>5, TailOfSeq DEF ForwardAudio, Forward, TypeOK, PcmOK
    <3>3. TurnStarted \in Seq(Messages) /\ message \in Seq(Messages)
      BY <3>2, MessagesTyped
    <3>4. NoneOf(Terminals, TurnStarted) /\ NoneOf(Terminals, message)
      BY DEF TurnStarted, NoneOf, Message, Terminals
    <3> HIDE DEF message
    <3>5. /\ TurnStarted \o message \in Seq(Messages)
          /\ NoneOf(Terminals, TurnStarted \o message)
      BY <3>3, <3>4, Following, ConcatProperties
    <3> QED BY <3>1, <3>5, OtherWritten
  <2> QED BY <2>1, <2>2
<1>6. CASE EndAudio
  <2> DEFINE closed == [loop EXCEPT !.pcmClosed = TRUE]
             done == [closed EXCEPT !.finishSent = TRUE]
  <2>1. CASE capture.finite /\ ~loop.finishSent
    <3>1. Write(<<Message("inputEnded", 0)>>, done)
      BY <1>6, <2>1 DEF EndAudio, AudioEnds
    <3>2. done.finishSent
      BY DEF TypeOK, LoopOK
    <3> HIDE DEF done
    <3> QED BY <2>1, <3>1, <3>2, EndWritten DEF Terminals
  <2>2. CASE ~(capture.finite /\ ~loop.finishSent)
    <3>1. UNCHANGED wire /\ loop'.finishSent = loop.finishSent
      BY <1>6, <2>2 DEF EndAudio, AudioEnds, TypeOK, LoopOK
    <3> QED BY <3>1, EndKept
  <2> QED BY <2>1, <2>2
<1>7. CASE CallerNext \/ CallerStep \/ CaptureFrame \/ CaptureEnds \/ ProducerNext
  <2>1. UNCHANGED <<wire, loop>>
    BY <1>7
       DEF CallerNext, Pause, Resume, TranslateText, Update, Finish, Cancel, Request, Stop,
           Call, CallerStep, SetFlag, TrySend, SendCommand, CaptureFrame, CaptureEnds,
           ProducerNext, ProducerLooks, ProducerReceives, ProducerChecks, ProducerSends,
           Producing
  <2> QED BY <2>1, EndKept
<1> QED
  BY <1>1, <1>2, <1>3, <1>4, <1>5, <1>6, <1>7 DEF Next, LoopNext, LoopStep, vars

\* Finish commands, ticks and the end of the audio announce the end of the
\* input at most once between them, and no audio follows it on the wire.
THEOREM EndAnnouncedOnce == Spec => []EndIsAnnouncedOnce
<1>1. TypeOK /\ EndInv /\ [Next]_vars => TypeOK' /\ EndInv'
  BY NextTypeOK, NextEndInv
<1>2. EndInv => EndIsAnnouncedOnce
  BY DEF EndInv
<1> QED BY InitTypeOK, InitEndInv, <1>1, <1>2, PTL DEF Spec

-----------------------------------------------------------------------------
(* The input state of the backend, in closed form *)

\* A set of numbers that is not empty has a least member: what a recursive function over the
\* numbers yields is proved of the least one for which it is wrong.
LEMMA LeastNat ==
    ASSUME NEW T, T \subseteq Nat, T # {}
    PROVE  \E x \in T : \A y \in T : x <= y
<1> DEFINE R == {ss \in Nat \X Nat : ss[1] < ss[2]}
<1>1. IsWellFoundedOn(R, Nat)
  BY NatLessThanWellFounded DEF OpToRel
<1> HIDE DEF R
<1>2. PICK x \in T : \A y \in T : ~(<<y, x>> \in R)
  BY <1>1, WFMin
<1>3. ASSUME NEW y \in T PROVE x <= y
  <2>1. x \in Nat /\ y \in Nat /\ ~(y < x)
    BY <1>2 DEF R
  <2> QED BY <2>1
<1> QED BY <1>3

\* The first n messages of w end the input; they leave it paused.
Drained(w, n) == \E i \in 1..n : w[i].kind \in Terminals
Held(w, n) ==
    \E i \in 1..n : /\ w[i].kind = "pause"
                    /\ \A j \in (i + 1)..n : w[j].kind # "resume"

InputAfter(w, n) == IF Drained(w, n) THEN "draining" ELSE IF Held(w, n) THEN "paused" ELSE "running"

\* The input after one more message: the step of BackendInput
InputNext(before, kind) ==
    IF before = "draining" \/ kind \in Terminals THEN "draining"
    ELSE CASE kind = "pause" -> "paused"
           [] kind = "resume" -> "running"
           [] OTHER -> before

LEMMA InputAfterStep ==
    ASSUME NEW w
    PROVE  /\ InputAfter(w, 0) = "running"
           /\ \A n \in Nat \ {0} : InputAfter(w, n) = InputNext(InputAfter(w, n - 1), w[n].kind)
<1>1. InputAfter(w, 0) = "running"
  <2>1. 1..0 = {}
    OBVIOUS
  <2> QED BY <2>1 DEF InputAfter, Drained, Held
<1>2. ASSUME NEW n \in Nat \ {0}
      PROVE  InputAfter(w, n) = InputNext(InputAfter(w, n - 1), w[n].kind)
  <2>1. 1..n = 1..(n - 1) \cup {n} /\ n - 1 \in Nat
    OBVIOUS
  <2>2. Drained(w, n) <=> Drained(w, n - 1) \/ w[n].kind \in Terminals
    BY <2>1 DEF Drained
  <2>3. ASSUME NEW i \in 1..(n - 1)
        PROVE  (i + 1)..n = (i + 1)..(n - 1) \cup {n}
    OBVIOUS
  <2>4. (n + 1)..n = {}
    OBVIOUS
  <2>5. Held(w, n) <=> w[n].kind = "pause" \/ (Held(w, n - 1) /\ w[n].kind # "resume")
    <3> DEFINE Since(i, m) == \A j \in (i + 1)..m : w[j].kind # "resume"
    <3>1. \A i \in 1..(n - 1) : Since(i, n) <=> Since(i, n - 1) /\ w[n].kind # "resume"
      BY <2>3
    <3>2. Since(n, n)
      BY <2>4
    <3>3. /\ Held(w, n) <=> \E i \in 1..n : w[i].kind = "pause" /\ Since(i, n)
          /\ Held(w, n - 1) <=> \E i \in 1..(n - 1) : w[i].kind = "pause" /\ Since(i, n - 1)
      BY DEF Held
    <3> HIDE DEF Since
    <3> QED BY <2>1, <3>1, <3>2, <3>3
  <2> QED BY <2>2, <2>5 DEF InputAfter, InputNext, Terminals
<1> QED BY <1>1, <1>2

\* BackendInput is what its last messages say.
LEMMA BackendInputIs == \A n \in Nat : BackendInput[n] = InputAfter(wire, n)
<1> DEFINE R(g) == g = [n \in Nat |-> IF n = 0 THEN "running"
                                      ELSE InputNext(g[n - 1], wire[n].kind)]
           a == [n \in Nat |-> InputAfter(wire, n)]
<1>1. R(a)
  <2>1. \A n \in Nat \ {0} : n - 1 \in Nat
    OBVIOUS
  <2> QED BY <2>1, InputAfterStep
<1>2. BackendInput = CHOOSE g : R(g)
  BY DEF BackendInput, InputNext
<1>3. R(BackendInput)
  BY <1>1, <1>2
<1>4. /\ BackendInput[0] = "running"
      /\ \A n \in Nat \ {0} : BackendInput[n] = InputNext(BackendInput[n - 1], wire[n].kind)
  BY <1>3
<1> DEFINE T == {n \in Nat : BackendInput[n] # InputAfter(wire, n)}
<1>5. ASSUME T # {} PROVE FALSE
  <2>1. PICK x \in T : \A y \in T : x <= y
    BY <1>5, LeastNat
  <2>2. x # 0
    BY <1>4, <2>1, InputAfterStep
  <2>3. x - 1 \in Nat /\ x - 1 \notin T
    BY <2>1, <2>2
  <2> QED BY <1>4, <2>1, <2>2, <2>3, InputAfterStep
<1> QED BY <1>5

\* The input after the first messages does not depend on those that follow.
LEMMA Lasting ==
    ASSUME NEW u \in Seq(Messages), NEW v \in Seq(Messages)
    PROVE  /\ u \o v \in Seq(Messages) /\ Len(u \o v) = Len(u) + Len(v)
           /\ Len(u) \in Nat /\ Len(v) \in Nat
           /\ DOMAIN u = 1..Len(u) /\ DOMAIN v = 1..Len(v) /\ DOMAIN (u \o v) = 1..Len(u \o v)
           /\ \A i \in 1..Len(u) : (u \o v)[i] = u[i]
           /\ \A i \in 1..Len(v) : (u \o v)[Len(u) + i] = v[i]
           /\ \A i \in 1..Len(u \o v) : i \in 1..Len(u) \/ \E k \in 1..Len(v) : i = Len(u) + k
           /\ \A n \in 0..Len(u) : InputAfter(u \o v, n) = InputAfter(u, n)
<1>1. /\ u \o v \in Seq(Messages) /\ Len(u \o v) = Len(u) + Len(v)
      /\ \A i \in 1..(Len(u) + Len(v)) :
            (u \o v)[i] = IF i <= Len(u) THEN u[i] ELSE v[i - Len(u)]
  BY ConcatProperties
<1>2. /\ Len(u) \in Nat /\ Len(v) \in Nat
      /\ DOMAIN u = 1..Len(u) /\ DOMAIN v = 1..Len(v) /\ DOMAIN (u \o v) = 1..Len(u \o v)
  BY <1>1, LenProperties
<1> DEFINE w == u \o v
<1> HIDE DEF w
<1>3. \A i \in 1..Len(u) : w[i] = u[i]
  BY <1>1, <1>2 DEF w
<1>4. ASSUME NEW i \in 1..Len(v) PROVE w[Len(u) + i] = v[i]
  <2>1. Len(u) + i \in 1..(Len(u) + Len(v)) /\ ~(Len(u) + i <= Len(u)) /\ (Len(u) + i) - Len(u) = i
    BY <1>2
  <2> QED BY <1>1, <2>1 DEF w
<1>5. ASSUME NEW i \in 1..Len(w)
      PROVE  i \in 1..Len(u) \/ \E k \in 1..Len(v) : i = Len(u) + k
  <2>1. CASE ~(i <= Len(u))
    <3>1. i - Len(u) \in 1..Len(v) /\ i = Len(u) + (i - Len(u))
      BY <1>1, <1>2, <2>1 DEF w
    <3> QED BY <3>1
  <2> QED BY <1>1, <1>2, <2>1 DEF w
<1>6. ASSUME NEW n \in 0..Len(u) PROVE InputAfter(w, n) = InputAfter(u, n)
  <2>1. \A i \in 1..n : w[i] = u[i]
    BY <1>2, <1>3
  <2>2. \A i \in 1..n : \A j \in (i + 1)..n : w[j] = u[j]
    BY <1>2, <1>3
  <2>3. Drained(w, n) <=> Drained(u, n)
    BY <2>1 DEF Drained
  <2>4. Held(w, n) <=> Held(u, n)
    BY <2>1, <2>2 DEF Held
  <2> QED BY <2>3, <2>4 DEF InputAfter
<1> QED BY <1>1, <1>2, <1>3, <1>4, <1>5, <1>6 DEF w

\* What the messages say of the pause
LEMMA HeldIs ==
    ASSUME NEW u \in Seq(Messages), NEW m \in Messages
    PROVE  Held(u \o <<m>>, Len(u \o <<m>>)) <=>
              m.kind = "pause" \/ (Held(u, Len(u)) /\ m.kind # "resume")
<1> DEFINE n == Len(u) + 1
           w == u \o <<m>>
<1>1. <<m>> \in Seq(Messages) /\ Len(<<m>>) = 1 /\ <<m>>[1] = m
  OBVIOUS
<1>2. /\ Len(w) = n /\ Len(u) \in Nat
      /\ \A i \in 1..Len(u) : w[i] = u[i]
      /\ w[n] = m
  BY <1>1, Lasting
<1> HIDE DEF w
<1> DEFINE Since(q, i, k) == \A j \in (i + 1)..k : q[j].kind # "resume"
<1>3. 1..n = 1..Len(u) \cup {n}
  BY <1>2
<1>4. ASSUME NEW i \in 1..Len(u)
      PROVE  Since(w, i, n) <=> Since(u, i, Len(u)) /\ m.kind # "resume"
  <2>1. (i + 1)..n = (i + 1)..Len(u) \cup {n} /\ (i + 1)..Len(u) \subseteq 1..Len(u)
    BY <1>2
  <2> QED BY <1>2, <2>1
<1>5. Since(w, n, n)
  <2>1. (n + 1)..n = {}
    BY <1>2
  <2> QED BY <2>1
<1>6. /\ Held(w, n) <=> \E i \in 1..n : w[i].kind = "pause" /\ Since(w, i, n)
      /\ Held(u, Len(u)) <=> \E i \in 1..Len(u) : u[i].kind = "pause" /\ Since(u, i, Len(u))
  BY DEF Held
<1> HIDE DEF Since
<1> QED BY <1>2, <1>3, <1>4, <1>5, <1>6 DEF w

-----------------------------------------------------------------------------
(* Pauses and resumes, from the flag to the backend *)

\* What a call in progress can have yet to do
CallerStates ==
    {<<>>, <<"pause">>, <<"unhold">>, <<"resume">>, <<"text">>, <<"update">>,
     <<"hold", "finish">>, <<"finish">>,
     <<"markCancel", "hold", "cancel">>, <<"hold", "cancel">>, <<"cancel">>}

Asking == caller \in {<<"pause">>, <<"unhold">>}
Stopping == caller \in {<<"hold", "finish">>, <<"finish">>, <<"markCancel", "hold", "cancel">>,
                        <<"hold", "cancel">>, <<"cancel">>}

CallerInv == caller \in CallerStates /\ (Stopping => flags.stop)

Queued(kind) == \E i \in DOMAIN commands : commands[i] = kind

\* The backend is paused, and no resume went out to it since.
HeldNow == Held(wire, Len(wire))

\* What the backend hears of a pause, of the command queue and of the caller
NoPause == ~Queued("pause") /\ ~HeldNow

\* Without a pause that crosses a resume: when the flag is down no pause is on
\* its way, nor between the message of a resume and the end of its hold; the
\* resumes in the queue come after the pauses; and a flag that is up stems from a
\* pause on its way, or from a stop.
FlagLeads == ~flags.paused => NoPause /\ caller # <<"pause">>
ResumeLeads == loop.pc = "resumed" => NoPause /\ caller # <<"pause">>
PausesFirst ==
    \A i, j \in DOMAIN commands : i < j /\ commands[i] = "resume" => commands[j] # "pause"
AskingAlone == Asking => NoPause /\ ~Queued("resume")
FlagFollows ==
    flags.paused =>
        \/ flags.stop \/ HeldNow \/ Queued("pause") \/ Asking
        \/ loop.pc \in {"resumed", "ended"}
HeardIn(w) == \A i \in DOMAIN w : w[i].kind = "audio" => InputAfter(w, i - 1) = "running"

PauseInv ==
    /\ CallerInv
    /\ ~past.crossed =>
          FlagLeads /\ ResumeLeads /\ PausesFirst /\ AskingAlone /\ FlagFollows /\ HeardIn(wire)

\* A state of the caller, and what is left of it
LEMMA CallerStateIs ==
    ASSUME caller \in CallerStates, caller # <<>>
    PROVE  /\ Head(caller) = "pause" <=> caller = <<"pause">>
           /\ Head(caller) = "unhold" <=> caller = <<"unhold">>
           /\ Head(caller) = "hold" => Stopping
           /\ Head(caller) = "resume" => caller = <<"resume">>
           /\ Tail(caller) \in CallerStates
           /\ Tail(caller) \notin {<<"pause">>, <<"unhold">>}
           /\ ~Stopping => Tail(caller) = <<>>
           /\ <<"unhold">> \o <<>> = <<"unhold">> /\ <<>> \o Tail(caller) = Tail(caller)
<1>1. /\ Tail(<<"pause">>) = <<>> /\ Tail(<<"unhold">>) = <<>> /\ Tail(<<"resume">>) = <<>>
      /\ Tail(<<"text">>) = <<>> /\ Tail(<<"update">>) = <<>> /\ Tail(<<"finish">>) = <<>>
      /\ Tail(<<"cancel">>) = <<>>
      /\ Tail(<<"hold", "finish">>) = <<"finish">>
      /\ Tail(<<"hold", "cancel">>) = <<"cancel">>
      /\ Tail(<<"markCancel", "hold", "cancel">>) = <<"hold", "cancel">>
  OBVIOUS
<1>2. Tail(caller) \in CallerStates
  BY <1>1 DEF CallerStates
<1>3. <<"unhold">> \o <<>> = <<"unhold">>
  OBVIOUS
<1>4. /\ <<>> \o <<>> = <<>> /\ <<>> \o <<"finish">> = <<"finish">>
      /\ <<>> \o <<"cancel">> = <<"cancel">>
      /\ <<>> \o <<"hold", "cancel">> = <<"hold", "cancel">>
  OBVIOUS
<1>5. <<>> \o Tail(caller) = Tail(caller)
  <2>1. Tail(caller) \in {<<>>, <<"finish">>, <<"hold", "cancel">>, <<"cancel">>}
    BY <1>1 DEF CallerStates
  <2> QED BY <1>4, <2>1
<1>6. /\ Tail(caller) \notin {<<"pause">>, <<"unhold">>}
      /\ ~Stopping => Tail(caller) = <<>>
  <2>1. Tail(caller) \in {<<>>, <<"finish">>, <<"hold", "cancel">>, <<"cancel">>}
    BY <1>1 DEF CallerStates
  <2>2. ~Stopping => Tail(caller) = <<>>
    BY <1>1 DEF CallerStates, Stopping
  <2>3. <<>> \notin {<<"pause">>, <<"unhold">>}
    OBVIOUS
  <2>4. <<"finish">> \notin {<<"pause">>, <<"unhold">>}
    OBVIOUS
  <2>5. <<"hold", "cancel">> \notin {<<"pause">>, <<"unhold">>}
    OBVIOUS
  <2>6. <<"cancel">> \notin {<<"pause">>, <<"unhold">>}
    OBVIOUS
  <2> QED BY <2>1, <2>2, <2>3, <2>4, <2>5, <2>6, Zenon
<1>7. /\ Head(caller) = "pause" <=> caller = <<"pause">>
      /\ Head(caller) = "unhold" <=> caller = <<"unhold">>
      /\ Head(caller) = "hold" => Stopping
      /\ Head(caller) = "resume" => caller = <<"resume">>
  BY DEF CallerStates, Stopping
<1> QED BY <1>2, <1>3, <1>5, <1>6, <1>7

\* The commands after one is taken, or added
LEMMA TakenCommand ==
    ASSUME CommandsOK, commands # <<>>, commands' = Tail(commands)
    PROVE  /\ \A kind : Queued(kind) <=> Head(commands) = kind \/ Queued(kind)'
           /\ PausesFirst => PausesFirst' /\ (Head(commands) = "resume" => ~Queued("pause")')
<1>1. /\ Len(Tail(commands)) = Len(commands) - 1 /\ Len(commands) \in Nat \ {0}
      /\ DOMAIN Tail(commands) = 1..Len(Tail(commands)) /\ DOMAIN commands = 1..Len(commands)
      /\ \A i \in DOMAIN Tail(commands) : Tail(commands)[i] = commands[i + 1]
      /\ Head(commands) = commands[1]
  BY TailOfSeq DEF CommandsOK
<1>2. /\ \A i \in DOMAIN commands' : i + 1 \in DOMAIN commands /\ commands'[i] = commands[i + 1]
      /\ \A i \in DOMAIN commands : i # 1 => i - 1 \in DOMAIN commands' /\ commands'[i - 1] = commands[i]
      /\ 1 \in DOMAIN commands /\ DOMAIN commands \subseteq Nat
      /\ \A i \in DOMAIN commands' : i \in Nat /\ 1 < i + 1
  <2>1. ASSUME NEW i \in DOMAIN commands, i # 1
        PROVE  i - 1 \in DOMAIN commands' /\ commands'[i - 1] = commands[i]
    BY <1>1, <2>1
  <2>2. ASSUME NEW i \in DOMAIN commands'
        PROVE  /\ i + 1 \in DOMAIN commands /\ commands'[i] = commands[i + 1]
               /\ i \in Nat /\ 1 < i + 1
    BY <1>1, <2>2
  <2>3. 1 \in DOMAIN commands /\ DOMAIN commands \subseteq Nat
    BY <1>1
  <2> QED BY <2>1, <2>2, <2>3
<1>3. ASSUME NEW kind PROVE Queued(kind) <=> Head(commands) = kind \/ Queued(kind)'
  BY <1>1, <1>2 DEF Queued
<1>4. PausesFirst => PausesFirst'
  BY <1>2 DEF PausesFirst
<1>5. PausesFirst /\ Head(commands) = "resume" => ~Queued("pause")'
  BY <1>1, <1>2 DEF PausesFirst, Queued
<1> QED BY <1>3, <1>4, <1>5

LEMMA AddedCommand ==
    ASSUME CommandsOK, NEW c \in CommandKinds, commands' = Append(commands, c)
    PROVE  /\ \A kind : Queued(kind)' <=> kind = c \/ Queued(kind)
           /\ PausesFirst /\ (c = "pause" => ~Queued("resume")) => PausesFirst'
<1>1. /\ Len(commands') = Len(commands) + 1 /\ Len(commands) \in Nat
      /\ DOMAIN commands' = 1..Len(commands') /\ DOMAIN commands = 1..Len(commands)
      /\ \A i \in 1..Len(commands) : commands'[i] = commands[i]
      /\ commands'[Len(commands) + 1] = c
  <2>1. commands \in Seq(CommandKinds)
    BY DEF CommandsOK
  <2> QED BY <2>1, AppendProperties, LenProperties
<1>2. /\ \A i \in DOMAIN commands' : i \in DOMAIN commands \/ i = Len(commands) + 1
      /\ Len(commands) + 1 \in DOMAIN commands' /\ DOMAIN commands \subseteq DOMAIN commands'
      /\ \A i \in DOMAIN commands : commands'[i] = commands[i] /\ i < Len(commands) + 1
  BY <1>1
<1>3. ASSUME NEW kind PROVE Queued(kind)' <=> kind = c \/ Queued(kind)
  BY <1>1, <1>2 DEF Queued
<1>4. PausesFirst /\ (c = "pause" => ~Queued("resume")) => PausesFirst'
  <2> SUFFICES ASSUME PausesFirst, c = "pause" => ~Queued("resume"),
                      NEW i \in DOMAIN commands', NEW j \in DOMAIN commands', i < j,
                      commands'[i] = "resume", commands'[j] = "pause"
               PROVE  FALSE
    BY DEF PausesFirst
  <2>1. i \in DOMAIN commands
    BY <1>1, <1>2
  <2>2. commands[i] = "resume"
    BY <1>2, <2>1
  <2>3. CASE j \in DOMAIN commands
    BY <1>2, <2>1, <2>2, <2>3 DEF PausesFirst
  <2>4. CASE j = Len(commands) + 1
    BY <1>1, <2>1, <2>2, <2>4 DEF Queued
  <2> QED BY <1>2, <2>3, <2>4
<1> QED BY <1>3, <1>4

\* Messages with one more that is not audio, or that the backend hears
LEMMA HeardOn ==
    ASSUME NEW u \in Seq(Messages), HeardIn(u), NEW m \in Messages,
           m.kind = "audio" => InputAfter(u, Len(u)) = "running"
    PROVE  HeardIn(u \o <<m>>)
<1> DEFINE v == <<m>>
           w == u \o v
<1>1. v \in Seq(Messages) /\ Len(v) = 1 /\ v[1] = m /\ 1 \in 1..1
  OBVIOUS
<1> HIDE DEF v
<1>2. /\ Len(w) = Len(u) + 1 /\ Len(u) \in Nat
      /\ DOMAIN u = 1..Len(u) /\ DOMAIN w = 1..Len(w)
      /\ \A i \in 1..Len(u) : w[i] = u[i]
      /\ w[Len(u) + 1] = m
      /\ \A n \in 0..Len(u) : InputAfter(w, n) = InputAfter(u, n)
  <2>1. /\ Len(w) = Len(u) + Len(v) /\ Len(u) \in Nat
        /\ DOMAIN u = 1..Len(u) /\ DOMAIN w = 1..Len(w)
        /\ \A i \in 1..Len(u) : w[i] = u[i]
        /\ \A i \in 1..Len(v) : w[Len(u) + i] = v[i]
        /\ \A n \in 0..Len(u) : InputAfter(w, n) = InputAfter(u, n)
    BY <1>1, Lasting
  <2> HIDE DEF w
  <2>2. w[Len(u) + 1] = m /\ Len(w) = Len(u) + 1
    BY <1>1, <2>1
  <2> QED BY <2>1, <2>2
<1> HIDE DEF w
<1>3. ASSUME NEW i \in DOMAIN w, w[i].kind = "audio"
      PROVE  InputAfter(w, i - 1) = "running"
  <2>1. CASE i \in 1..Len(u)
    <3>1. i - 1 \in 0..Len(u)
      BY <1>2, <2>1
    <3> QED BY <1>2, <1>3, <2>1, <3>1 DEF HeardIn
  <2>2. CASE i = Len(u) + 1
    <3>1. i - 1 = Len(u) /\ Len(u) \in 0..Len(u)
      BY <1>2, <2>2
    <3> QED BY <1>2, <1>3, <2>2, <3>1
  <2> QED BY <1>2, <2>1, <2>2
<1> QED BY <1>3 DEF HeardIn, v, w

\* A step that says nothing of a pause to the backend, and takes at most a command
\* that does not either.
LEMMA CalmStep ==
    ASSUME PauseInv, UNCHANGED <<flags, caller>>, past'.crossed = past.crossed,
           PausesFirst => PausesFirst', Queued("pause")' <=> Queued("pause"),
           Queued("resume")' => Queued("resume"), HeldNow' <=> HeldNow,
           ~past.crossed => HeardIn(wire'),
           loop'.pc = "resumed" => loop.pc = "resumed",
           loop.pc \in {"resumed", "ended"} => loop'.pc \in {"resumed", "ended"}
    PROVE  PauseInv'
<1>1. CallerInv'
  BY DEF PauseInv, CallerInv, Stopping
<1>2. ASSUME ~past.crossed
      PROVE  FlagLeads' /\ ResumeLeads' /\ PausesFirst' /\ AskingAlone' /\ FlagFollows' /\ HeardIn(wire')
  <2>1. FlagLeads' /\ ResumeLeads'
    BY <1>2 DEF PauseInv, FlagLeads, ResumeLeads, NoPause
  <2>2. PausesFirst' /\ AskingAlone'
    BY <1>2 DEF PauseInv, AskingAlone, Asking, NoPause
  <2>3. FlagFollows'
    BY <1>2 DEF PauseInv, FlagFollows, Asking
  <2> QED BY <1>2, <2>1, <2>2, <2>3
<1> QED BY <1>1, <1>2 DEF PauseInv

LEMMA PauseStart == Init => PauseInv
<1> SUFFICES ASSUME Init PROVE PauseInv
  OBVIOUS
<1>1. Len(<<>>) = 0 /\ DOMAIN <<>> = {} /\ 1..0 = {}
  OBVIOUS
<1>2. <<>> \in CallerStates /\ ~Asking /\ ~Stopping /\ caller = <<>>
  BY DEF Init, CallerStates, Asking, Stopping
<1>3. NoPause /\ ~Queued("resume") /\ PausesFirst /\ HeardIn(wire)
  BY <1>1 DEF Init, NoPause, Queued, HeldNow, Held, PausesFirst, HeardIn
<1> QED BY <1>2, <1>3 DEF Init, PauseInv, CallerInv, FlagLeads, ResumeLeads, AskingAlone, FlagFollows

LEMMA PauseCalled ==
    ASSUME TypeOK, PauseInv, CallerNext
    PROVE  PauseInv'
<1>1. /\ caller = <<>> /\ UNCHANGED <<commands, loop, wire>>
      /\ past.crossed \in BOOLEAN
      /\ \E kind : past'.crossed = (past.crossed \/ (kind = "pause" /\ (flags.paused \/ ResumeOnItsWay)))
  BY DEF CallerNext, Pause, Resume, TranslateText, Update, Finish, Cancel, Request, Stop, Call, TypeOK, PastOK
<1>2. /\ HeldNow' <=> HeldNow
      /\ \A kind : Queued(kind)' <=> Queued(kind)
      /\ PausesFirst => PausesFirst'
      /\ HeardIn(wire) => HeardIn(wire')
  BY <1>1 DEF HeldNow, Queued, PausesFirst
<1>3. ~past'.crossed => ~past.crossed
  BY <1>1
<1>4. CASE Pause
  <2>1. /\ flags'.paused /\ caller' = <<"pause">> /\ flags'.stop = flags.stop
        /\ ~past'.crossed => ~flags.paused /\ ~ResumeOnItsWay
    BY <1>4 DEF Pause, Call, TypeOK, FlagsOK, PastOK
  <2>2. ResumeOnItsWay <=> Queued("resume") \/ loop.pc = "resumed"
    BY DEF ResumeOnItsWay, Queued, Range
  <2>3. CallerInv'
    BY <2>1 DEF CallerInv, CallerStates, Stopping
  <2>4. ~past'.crossed => NoPause
    BY <1>1, <1>3, <2>1 DEF PauseInv, FlagLeads
  <2>5. Asking'
    BY <2>1 DEF Asking
  <2> QED BY <1>1, <1>2, <1>3, <2>1, <2>2, <2>3, <2>4, <2>5
          DEF PauseInv, FlagLeads, ResumeLeads, AskingAlone, FlagFollows, NoPause
<1>5. CASE ~Pause
  <2>1. /\ caller' \in {<<>>, <<"resume">>, <<"text">>, <<"update">>, <<"hold", "finish">>,
                         <<"markCancel", "hold", "cancel">>}
        /\ flags'.paused = flags.paused /\ (flags.stop => flags'.stop)
        /\ caller' \in {<<"hold", "finish">>, <<"markCancel", "hold", "cancel">>} => flags'.stop
    BY <1>5 DEF CallerNext, Resume, TranslateText, Update, Finish, Cancel, Request, Stop, TypeOK, FlagsOK
  <2>2. CallerInv'
    BY <2>1 DEF CallerInv, CallerStates, Stopping
  <2>3. ~Asking' /\ caller' # <<"pause">> /\ ~Asking
    BY <1>1, <2>1 DEF Asking
  <2> QED BY <1>1, <1>2, <1>3, <2>1, <2>2, <2>3
          DEF PauseInv, FlagLeads, ResumeLeads, AskingAlone, FlagFollows, NoPause
<1> QED BY <1>4, <1>5

LEMMA PauseFlagSet ==
    ASSUME TypeOK, PauseInv, SetFlag
    PROVE  PauseInv'
<1>1. /\ caller # <<>> /\ caller' = Tail(caller)
      /\ UNCHANGED <<commands, loop, wire, past>>
      /\ Head(caller) \in {"hold", "unhold", "markCancel"}
  BY DEF SetFlag, FlagSteps
<1>2. /\ HeldNow' <=> HeldNow
      /\ \A kind : Queued(kind)' <=> Queued(kind)
      /\ PausesFirst => PausesFirst'
      /\ HeardIn(wire) => HeardIn(wire')
  BY <1>1 DEF HeldNow, Queued, PausesFirst
<1>3. /\ flags'.stop = flags.stop
      /\ Head(caller) = "hold" => flags'.paused
      /\ Head(caller) = "unhold" => ~flags'.paused
      /\ Head(caller) = "markCancel" => flags'.paused = flags.paused
  BY <1>1 DEF SetFlag, TypeOK, FlagsOK
<1>4. /\ Head(caller) = "unhold" <=> caller = <<"unhold">>
      /\ Head(caller) \in {"hold", "markCancel"} => Stopping
      /\ Tail(caller) \in CallerStates
      /\ Tail(caller) \notin {<<"pause">>, <<"unhold">>}
      /\ ~Stopping => Tail(caller) = <<>>
  <2>1. Head(caller) = "markCancel" => Stopping
    BY <1>1 DEF PauseInv, CallerInv, CallerStates, Stopping
  <2> QED BY <1>1, <2>1, CallerStateIs DEF PauseInv, CallerInv
<1>5. CallerInv' /\ ~Asking' /\ (Head(caller) = "unhold" => Asking)
      /\ (Head(caller) \in {"hold", "markCancel"} => flags.stop)
  BY <1>1, <1>3, <1>4 DEF PauseInv, CallerInv, Stopping, Asking
<1>6. ASSUME ~past.crossed
      PROVE  FlagLeads' /\ ResumeLeads' /\ PausesFirst' /\ AskingAlone' /\ FlagFollows' /\ HeardIn(wire')
  BY <1>1, <1>2, <1>3, <1>4, <1>5, <1>6
     DEF PauseInv, FlagLeads, ResumeLeads, AskingAlone, FlagFollows, NoPause
<1> QED BY <1>1, <1>5, <1>6 DEF PauseInv

LEMMA PauseSent ==
    ASSUME TypeOK, PauseInv, TrySend
    PROVE  PauseInv'
<1>1. /\ caller # <<>> /\ Head(caller) \in CommandKinds
      /\ UNCHANGED <<flags, loop, wire, past>>
  BY DEF TrySend, SendCommand
<1>2. /\ Head(caller) = "pause" <=> caller = <<"pause">>
      /\ Head(caller) = "resume" => caller = <<"resume">>
      /\ Tail(caller) \in CallerStates
      /\ Tail(caller) \notin {<<"pause">>, <<"unhold">>}
      /\ ~Stopping => Tail(caller) = <<>>
      /\ <<"unhold">> \o <<>> = <<"unhold">> /\ <<>> \o Tail(caller) = Tail(caller)
      /\ <<"pause">> # <<"resume">> /\ <<"unhold">> # <<"resume">> /\ <<"unhold">> # <<"pause">>
  BY <1>1, CallerStateIs DEF PauseInv, CallerInv
<1>3. /\ HeldNow' <=> HeldNow
      /\ HeardIn(wire) => HeardIn(wire')
  BY <1>1 DEF HeldNow
<1>4. ~Stopping \/ flags.stop
  BY DEF PauseInv, CallerInv
<1>5. caller = <<"pause">> => ~Stopping /\ Asking
  BY DEF Stopping, Asking
<1>6. CASE Accepting
  <2>1. commands' = Append(commands, Head(caller)) /\ caller' = Tail(caller)
    BY <1>6 DEF TrySend, SendCommand
  <2>2. /\ \A kind : Queued(kind)' <=> kind = Head(caller) \/ Queued(kind)
        /\ PausesFirst /\ (Head(caller) = "pause" => ~Queued("resume")) => PausesFirst'
    BY <1>1, <2>1, AddedCommand DEF TypeOK
  <2>3. ~Asking' /\ caller' # <<"pause">>
    BY <1>2, <2>1 DEF Asking
  <2>4. CallerInv'
    <3>1. Tail(caller) # <<>> => flags.stop
      BY <1>2, <1>4
    <3>2. Stopping' => caller' # <<>>
      BY DEF Stopping
    <3> QED BY <1>1, <1>2, <2>1, <3>1, <3>2 DEF CallerInv
  <2>5. ASSUME ~past.crossed
        PROVE  FlagLeads' /\ ResumeLeads' /\ PausesFirst' /\ AskingAlone' /\ FlagFollows' /\ HeardIn(wire')
    <3>1. FlagLeads' /\ ResumeLeads'
      <4>1. caller # <<"pause">> /\ NoPause => NoPause'
        <5>1. caller # <<"pause">> => Head(caller) # "pause"
          BY <1>2
        <5>2. Queued("pause")' <=> "pause" = Head(caller) \/ Queued("pause")
          BY <2>2
        <5> QED BY <1>3, <5>1, <5>2 DEF NoPause
      <4> QED BY <1>1, <2>3, <2>5, <4>1 DEF PauseInv, FlagLeads, ResumeLeads
    <3>2. PausesFirst' /\ AskingAlone'
      BY <1>1, <1>2, <1>3, <1>5, <2>2, <2>3, <2>5 DEF PauseInv, AskingAlone
    <3>3. FlagFollows'
      <4>1. Asking => caller = <<"pause">>
        BY <1>1 DEF Asking, CommandKinds
      <4> QED BY <1>1, <1>2, <1>3, <2>2, <2>3, <2>5, <4>1 DEF PauseInv, FlagFollows
    <3> QED BY <1>3, <2>5, <3>1, <3>2, <3>3 DEF PauseInv
  <2> QED BY <1>1, <2>4, <2>5 DEF PauseInv
<1>7. CASE ~Accepting
  <2>1. UNCHANGED commands
        /\ caller' = IF Head(caller) = "pause" THEN <<"unhold">> ELSE Tail(caller)
    <3>1. caller' = (IF Head(caller) = "pause" THEN <<"unhold">> ELSE <<>>) \o Tail(caller)
          /\ UNCHANGED commands
      BY <1>7 DEF TrySend, SendCommand
    <3> QED BY <1>2, <1>5, <3>1
  <2>2. /\ \A kind : Queued(kind)' <=> Queued(kind)
        /\ PausesFirst => PausesFirst'
    BY <2>1 DEF Queued, PausesFirst
  <2>3. caller' # <<"pause">> /\ (Asking' <=> Head(caller) = "pause")
    BY <1>2, <2>1 DEF Asking
  <2>4. CallerInv'
    <3>1. CASE Head(caller) = "pause"
      BY <2>1, <3>1 DEF CallerInv, CallerStates, Stopping
    <3>2. CASE Head(caller) # "pause"
      <4>1. caller' = Tail(caller)
        BY <2>1, <3>2
      <4>2. Tail(caller) # <<>> => flags.stop
        BY <1>2, <1>4
      <4>3. Stopping' => caller' # <<>>
        BY DEF Stopping
      <4> QED BY <1>1, <1>2, <4>1, <4>2, <4>3 DEF CallerInv
    <3> QED BY <3>1, <3>2
  <2>5. ASSUME ~past.crossed
        PROVE  FlagLeads' /\ ResumeLeads' /\ PausesFirst' /\ AskingAlone' /\ FlagFollows' /\ HeardIn(wire')
    <3>1. FlagLeads' /\ ResumeLeads'
      BY <1>1, <1>3, <2>2, <2>3, <2>5 DEF PauseInv, FlagLeads, ResumeLeads, NoPause
    <3>2. PausesFirst' /\ AskingAlone'
      BY <1>1, <1>2, <1>3, <1>5, <2>2, <2>3, <2>5 DEF PauseInv, AskingAlone, NoPause
    <3>3. FlagFollows'
      <4>1. Asking => caller = <<"pause">>
        BY <1>1 DEF Asking, CommandKinds
      <4> QED BY <1>1, <1>2, <1>3, <2>2, <2>3, <2>5, <4>1 DEF PauseInv, FlagFollows
    <3> QED BY <1>3, <2>5, <3>1, <3>2, <3>3 DEF PauseInv
  <2> QED BY <1>1, <2>4, <2>5 DEF PauseInv
<1> QED BY <1>6, <1>7

\* A step that leaves the flags, the caller, the commands and the wire alone
LEMMA ElsewhereStep ==
    ASSUME PauseInv, UNCHANGED <<flags, caller, commands, wire>>, past'.crossed = past.crossed,
           loop'.pc = "resumed" => loop.pc = "resumed",
           loop.pc \in {"resumed", "ended"} => loop'.pc \in {"resumed", "ended"}
    PROVE  PauseInv'
<1>1. /\ HeldNow' <=> HeldNow
      /\ \A kind : Queued(kind)' <=> Queued(kind)
      /\ PausesFirst => PausesFirst'
      /\ ~past.crossed => HeardIn(wire')
  BY DEF HeldNow, Queued, PausesFirst, PauseInv
<1> QED BY <1>1, CalmStep

\* A message that says nothing of a pause, or one that cannot be written
LEMMA CalmWrite ==
    ASSUME TypeOK, PauseInv, UNCHANGED <<flags, caller, past>>, loop.pc = "run",
           PausesFirst => PausesFirst', Queued("pause")' <=> Queued("pause"),
           Queued("resume")' => Queued("resume"),
           NEW m \in Messages, m.kind \notin {"pause", "resume", "audio"},
           NEW then, then.pc = "run", Write(<<m>>, then)
    PROVE  PauseInv'
<1>1. wire \in Seq(Messages)
  BY DEF TypeOK, WireOK
<1>2. loop'.pc \in {"run", "ended"}
  BY DEF Write, Ended, TypeOK, LoopOK
<1>3. (HeldNow' <=> HeldNow) /\ (~past.crossed => HeardIn(wire'))
  <2>1. CASE wire' = wire \o <<m>>
    <3>1. HeldNow' <=> HeldNow
      BY <1>1, <2>1, HeldIs DEF HeldNow
    <3>2. ~past.crossed => HeardIn(wire')
      BY <1>1, <2>1, HeardOn DEF PauseInv
    <3> QED BY <3>1, <3>2
  <2>2. CASE wire' = wire
    BY <2>2 DEF HeldNow, PauseInv
  <2> QED BY <2>1, <2>2 DEF Write
<1> QED BY <1>2, <1>3, CalmStep

LEMMA CommandsKept ==
    UNCHANGED commands => /\ PausesFirst => PausesFirst'
                          /\ \A kind : Queued(kind)' <=> Queued(kind)
BY DEF PausesFirst, Queued

\* Audio is written while the flag is down and the end is not announced.
LEMMA PauseForwards ==
    ASSUME TypeOK, EndInv, PauseInv, ForwardAudio
    PROVE  PauseInv'
<1>1. UNCHANGED <<flags, caller, past, commands>> /\ loop.pc = "run" /\ pcm # <<>>
  BY DEF ForwardAudio, Forward, Select
<1>2. CASE Quiet
  BY <1>1, <1>2, ElsewhereStep DEF Quiet
<1>3. CASE ~Quiet
  <2> DEFINE a == Message("audio", Head(pcm))
  <2>1. /\ ~flags.paused /\ ~loop.finishSent
        /\ Write(TurnStarted \o <<a>>, loop)
    BY <1>3 DEF ForwardAudio, Forward
  <2>2. a \in Messages /\ a.kind = "audio"
    <3>1. Head(pcm) \in 1..MaxFrames
      BY <1>1, TailOfSeq DEF TypeOK, PcmOK
    <3> QED BY <3>1, Bounds DEF Message, Messages
  <2> HIDE DEF a
  <2>3. wire \in Seq(Messages) /\ TurnStarted \in Seq(Messages) /\ <<a>> \in Seq(Messages)
    <3>1. <<a>> \in Seq(Messages)
      BY <2>2
    <3> QED BY <3>1, MessagesTyped DEF TypeOK, WireOK
  <2>4. loop'.pc \in {"run", "ended"}
    BY <1>1, <2>1 DEF Write, Ended, TypeOK, LoopOK
  <2>5. CASE wire' = wire
    BY <1>1, <2>4, <2>5, ElsewhereStep
  <2>6. CASE wire' = wire \o (TurnStarted \o <<a>>)
    <3> DEFINE u == wire \o TurnStarted
    <3>1. u \in Seq(Messages) /\ wire' = u \o <<a>>
      BY <2>3, <2>6, ConcatProperties, ConcatAssociative
    <3>2. \/ u = wire
          \/ \E m \in Messages : u = wire \o <<m>> /\ m.kind = "turnStarted"
      <4>1. TurnStarted \in {<<>>, <<Message("turnStarted", 0)>>}
        BY DEF TurnStarted
      <4>2. Message("turnStarted", 0) \in Messages /\ Message("turnStarted", 0).kind = "turnStarted"
        BY Bounds DEF Message, Messages
      <4>3. wire \o <<>> = wire
        BY <2>3, ConcatEmptySeq
      <4> QED BY <4>1, <4>2, <4>3
    <3>3. /\ Held(u, Len(u)) <=> HeldNow
          /\ ~past.crossed => HeardIn(u)
      BY <2>3, <3>2, HeldIs, HeardOn DEF HeldNow, PauseInv
    <3>4. ~Drained(u, Len(u))
      <4>1. NoneOf(Terminals, wire) /\ NoneOf(Terminals, TurnStarted)
        BY <2>1 DEF EndInv, NoneOf, TurnStarted, Message, Terminals
      <4>2. NoneOf(Terminals, u)
        BY <2>3, <4>1, Following
      <4>3. DOMAIN u = 1..Len(u)
        BY <3>1, LenProperties
      <4> QED BY <4>2, <4>3 DEF Drained, NoneOf
    <3> HIDE DEF u
    <3>5. HeldNow' <=> HeldNow
      BY <2>2, <3>1, <3>3, HeldIs DEF HeldNow
    <3>6. ~past.crossed => HeardIn(wire')
      <4>1. ~past.crossed => InputAfter(u, Len(u)) = "running"
        BY <2>1, <3>3, <3>4 DEF PauseInv, FlagLeads, NoPause, InputAfter
      <4> QED BY <2>2, <3>1, <3>3, <4>1, HeardOn
    <3> QED BY <1>1, <2>4, <3>5, <3>6, CommandsKept, CalmStep
  <2> QED BY <2>1, <2>5, <2>6 DEF Write
<1> QED BY <1>2, <1>3

LEMMA PauseHandled ==
    ASSUME TypeOK, PauseInv, HandleCommand
    PROVE  PauseInv'
<1>1. /\ commands # <<>> /\ commands' = Tail(commands) /\ loop.pc = "run"
      /\ UNCHANGED <<flags, caller, past>>
      /\ Head(commands) \in CommandKinds
  BY TailOfSeq DEF HandleCommand, Select, TypeOK, CommandsOK
<1>2. \A kind : Queued(kind) <=> Head(commands) = kind \/ Queued(kind)'
  BY <1>1, TakenCommand DEF TypeOK
<1>3. PausesFirst => PausesFirst' /\ (Head(commands) = "resume" => ~Queued("pause")')
  BY <1>1, TakenCommand DEF TypeOK
<1>4. wire \in Seq(Messages) /\ loop.pc # "ended"
  BY <1>1 DEF TypeOK, WireOK
<1>5. \A kind : \A then : Write(<<Message(kind, 0)>>, then) =>
         \/ wire' = wire \o <<Message(kind, 0)>> /\ loop' = then
         \/ wire' = wire /\ loop'.pc = "ended"
  BY DEF Write, Ended, TypeOK, LoopOK
<1>6. CASE Head(commands) = "pause"
  <2> DEFINE m == Message("pause", 0)
  <2>1. m \in Messages /\ m.kind = "pause"
    BY Bounds DEF Message, Messages
  <2>2. \/ wire' = wire \o <<m>> /\ loop' = loop
        \/ wire' = wire /\ loop'.pc = "ended"
    BY <1>5, <1>6 DEF HandleCommand
  <2> HIDE DEF m
  <2>3. /\ loop'.pc = "ended" \/ HeldNow'
        /\ ~past.crossed => HeardIn(wire')
        /\ loop'.pc # "resumed"
    BY <1>1, <1>4, <2>1, <2>2, HeldIs, HeardOn DEF HeldNow, PauseInv
  <2>4. Queued("pause")
    BY <1>2, <1>6
  <2>5. CallerInv'
    BY <1>1 DEF PauseInv, CallerInv, Stopping
  <2>6. ~past.crossed => flags.paused /\ ~Asking
    BY <2>4 DEF PauseInv, FlagLeads, AskingAlone, NoPause
  <2>7. Asking' <=> Asking
    BY <1>1 DEF Asking
  <2> QED BY <1>1, <1>3, <2>3, <2>5, <2>6, <2>7
          DEF PauseInv, FlagLeads, ResumeLeads, AskingAlone, FlagFollows
<1>7. CASE Head(commands) = "resume"
  <2> DEFINE m == Message("resume", 0)
  <2>1. m \in Messages /\ m.kind = "resume"
    BY Bounds DEF Message, Messages
  <2>2. \/ wire' = wire \o <<m>> /\ loop'.pc = "resumed"
        \/ wire' = wire /\ loop'.pc = "ended"
    BY <1>5, <1>7 DEF HandleCommand, TypeOK, LoopOK
  <2> HIDE DEF m
  <2>3. CallerInv'
    BY <1>1 DEF PauseInv, CallerInv, Stopping
  <2>4. Queued("resume")
    BY <1>2, <1>7
  <2>5. Asking' <=> Asking
    BY <1>1 DEF Asking
  <2>6. ~past.crossed => HeardIn(wire')
    BY <1>1, <1>4, <2>1, <2>2, HeardOn DEF PauseInv
  <2>7. HeldNow' => HeldNow /\ loop'.pc = "ended"
    BY <1>4, <2>1, <2>2, HeldIs DEF HeldNow
  <2>8. loop'.pc \in {"resumed", "ended"}
    BY <2>2
  <2>9. ASSUME ~past.crossed
        PROVE  FlagLeads' /\ ResumeLeads' /\ PausesFirst' /\ AskingAlone' /\ FlagFollows'
    <3>1. ~Queued("pause")' /\ ~Asking /\ PausesFirst'
      <4>1. PausesFirst /\ AskingAlone
        BY <2>9 DEF PauseInv
      <4>2. ~Asking
        BY <2>4, <4>1 DEF AskingAlone
      <4> QED BY <1>3, <1>7, <4>1, <4>2
    <3>2. caller' # <<"pause">>
      BY <1>1, <3>1 DEF Asking
    <3> QED BY <1>1, <2>5, <2>7, <2>8, <2>9, <3>1, <3>2
            DEF PauseInv, FlagLeads, ResumeLeads, AskingAlone, FlagFollows, NoPause
  <2> QED BY <1>1, <2>3, <2>6, <2>9 DEF PauseInv
<1>8. CASE Head(commands) \notin {"pause", "resume"}
  <2>1. /\ Queued("pause")' <=> Queued("pause")
        /\ Queued("resume")' => Queued("resume")
    BY <1>2, <1>8
  <2>2. CASE UNCHANGED wire
    <3>1. loop'.pc \in {"run", "ended"}
      BY <1>1, <1>8 DEF HandleCommand, Quiet, Write, FinishNow, Ended, TypeOK, LoopOK
    <3>2. (HeldNow' <=> HeldNow) /\ (~past.crossed => HeardIn(wire'))
      BY <2>2 DEF HeldNow, PauseInv
    <3> QED BY <1>1, <1>3, <2>1, <3>1, <3>2, CalmStep
  <2>3. CASE ~UNCHANGED wire
    <3>1. PICK kind \in {"finish", "text", "update"} : \E then :
             then.pc = "run" /\ Write(<<Message(kind, 0)>>, then)
      BY <1>1, <1>8, <2>3 DEF HandleCommand, Quiet, FinishNow, CommandKinds, TypeOK, LoopOK
    <3>2. PICK then : then.pc = "run" /\ Write(<<Message(kind, 0)>>, then)
      BY <3>1
    <3> DEFINE m == Message(kind, 0)
    <3>3. m \in Messages /\ m.kind \notin {"pause", "resume", "audio"}
      BY Bounds DEF Message, Messages, Terminals
    <3>4. Write(<<m>>, then)
      BY <3>2
    <3> HIDE DEF m
    <3> QED BY <1>1, <1>3, <2>1, <3>2, <3>3, <3>4, CalmWrite
  <2> QED BY <2>2, <2>3
<1> QED BY <1>6, <1>7, <1>8

LEMMA PauseStep == TypeOK /\ EndInv /\ PauseInv /\ [Next]_vars => PauseInv'
<1> SUFFICES ASSUME TypeOK, EndInv, PauseInv, [Next]_vars PROVE PauseInv'
  OBVIOUS
<1>1. CASE CallerNext
  BY <1>1, PauseCalled
<1>2. CASE CallerStep
  BY <1>2, PauseFlagSet, PauseSent DEF CallerStep
<1>3. CASE CaptureFrame \/ CaptureEnds \/ ProducerNext \/ UNCHANGED vars
  <2>1. UNCHANGED <<flags, caller, commands, wire, loop>> /\ past'.crossed = past.crossed
    BY <1>3 DEF CaptureFrame, CaptureEnds, ProducerNext, ProducerLooks, ProducerReceives,
                ProducerChecks, ProducerSends, Producing, vars, TypeOK, PastOK
  <2> QED BY <2>1, ElsewhereStep
<1>4. CASE Connect \/ ReadFinished \/ ReadLost
  <2>1. UNCHANGED <<flags, caller, commands, wire, past>> /\ loop.pc \in {"connecting", "run"}
        /\ loop'.pc \in {"run", "ended"}
    BY <1>4 DEF Connect, ReadFinished, ReadLost, Select, Ended, TypeOK, LoopOK
  <2> QED BY <2>1, ElsewhereStep
<1>5. CASE ClearPaused
  <2>1. /\ loop.pc = "resumed" /\ loop'.pc = "run" /\ UNCHANGED <<caller, commands, wire, past>>
        /\ ~flags'.paused /\ flags'.stop = flags.stop
    BY <1>5 DEF ClearPaused, TypeOK, LoopOK, FlagsOK
  <2>2. CallerInv' /\ (Asking' <=> Asking)
    BY <2>1 DEF PauseInv, CallerInv, Stopping, Asking
  <2>3. NoPause' <=> NoPause
    BY <2>1 DEF NoPause, Queued, HeldNow
  <2>4. /\ Queued("resume")' <=> Queued("resume")
        /\ PausesFirst => PausesFirst'
    BY <2>1, CommandsKept
  <2>5. HeardIn(wire) => HeardIn(wire')
    BY <2>1
  <2> QED BY <2>1, <2>2, <2>3, <2>4, <2>5
          DEF PauseInv, FlagLeads, ResumeLeads, AskingAlone, FlagFollows
<1>6. CASE Tick
  <2>1. UNCHANGED <<flags, caller, commands, past>> /\ loop.pc = "run"
    BY <1>6 DEF Tick, TickFor, Select
  <2>2. CASE flags.cancel
    <3>1. UNCHANGED wire /\ loop'.pc = "ended"
      BY <1>6, <2>2 DEF Tick, TickFor, Ended, TypeOK, LoopOK
    <3> QED BY <2>1, <3>1, ElsewhereStep
  <2>3. CASE ~flags.cancel
    <3> DEFINE m == Message("finish", 0)
    <3>1. Write(<<m>>, FinishNow)
      BY <1>6, <2>3 DEF Tick, TickFor
    <3>2. FinishNow.pc = "run"
      BY <2>1 DEF FinishNow, TypeOK, LoopOK
    <3>3. m \in Messages /\ m.kind \notin {"pause", "resume", "audio"}
      BY Bounds DEF Message, Messages, Terminals
    <3> HIDE DEF m
    <3> QED BY <2>1, <3>1, <3>2, <3>3, CommandsKept, CalmWrite
  <2> QED BY <2>2, <2>3
<1>7. CASE HandleCommand
  BY <1>7, PauseHandled
<1>8. CASE ForwardAudio
  BY <1>8, PauseForwards
<1>9. CASE EndAudio
  <2> DEFINE closed == [loop EXCEPT !.pcmClosed = TRUE]
             done == [closed EXCEPT !.finishSent = TRUE]
  <2>1. UNCHANGED <<flags, caller, commands, past>> /\ loop.pc = "run"
    BY <1>9 DEF EndAudio, AudioEnds, Select
  <2>2. closed.pc = "run" /\ done.pc = "run"
    BY <2>1 DEF TypeOK, LoopOK
  <2>3. CASE capture.finite /\ ~loop.finishSent
    <3> DEFINE m == Message("inputEnded", 0)
    <3>1. Write(<<m>>, done)
      BY <1>9, <2>3 DEF EndAudio, AudioEnds
    <3>2. m \in Messages /\ m.kind \notin {"pause", "resume", "audio"}
      BY Bounds DEF Message, Messages, Terminals
    <3> HIDE DEF m, done
    <3> QED BY <2>1, <2>2, <3>1, <3>2, CommandsKept, CalmWrite
  <2>4. CASE ~(capture.finite /\ ~loop.finishSent)
    <3>1. UNCHANGED wire /\ loop' = closed
      BY <1>9, <2>4 DEF EndAudio, AudioEnds
    <3> QED BY <2>1, <2>2, <3>1, ElsewhereStep
  <2> QED BY <2>3, <2>4
<1> QED
  BY <1>1, <1>2, <1>3, <1>4, <1>5, <1>6, <1>7, <1>8, <1>9 DEF Next, LoopNext, LoopStep

LEMMA HeardInvariant == Spec => [](TypeOK /\ EndInv /\ PauseInv)
<1>1. TypeOK /\ EndInv /\ PauseInv /\ [Next]_vars => (TypeOK /\ EndInv /\ PauseInv)'
  BY NextTypeOK, NextEndInv, PauseStep
<1> QED BY InitTypeOK, InitEndInv, PauseStart, <1>1, PTL DEF Spec

\* Without a pause that crosses a resume, no audio reaches a backend that is paused or
\* draining and would discard it: although the flag of the application is set before its
\* command is queued and cleared after the backend was told to resume.
THEOREM AudioReachesTheBackend == Spec => []AudioIsHeard
<1>1. TypeOK /\ EndInv /\ PauseInv => AudioIsHeard
  <2> SUFFICES ASSUME TypeOK, PauseInv, NEW i \in DOMAIN wire,
                      wire[i].kind = "audio", ~past.crossed
               PROVE  BackendInput[i - 1] = "running"
    BY DEF AudioIsHeard
  <2>1. i - 1 \in Nat
    <3>1. DOMAIN wire = 1..Len(wire) /\ Len(wire) \in Nat
      BY LenProperties DEF TypeOK, WireOK
    <3> QED BY <3>1
  <2> QED BY <2>1, BackendInputIs DEF PauseInv, HeardIn
<1> QED BY <1>1, HeardInvariant, PTL

\* Once its commands have arrived and none crossed another, the flag of the application
\* and the input of the backend agree on whether the session is paused.
THEOREM FlagAgrees == Spec => []AgreeWhenSettled
<1>1. TypeOK /\ EndInv /\ PauseInv => AgreeWhenSettled
  <2> SUFFICES ASSUME TypeOK, EndInv, PauseInv, loop.pc = "run", caller = <<>>, commands = <<>>,
                      ~flags.stop, ~loop.finishSent, ~past.crossed
               PROVE  flags.paused <=> BackendInput[Len(wire)] = "paused"
    BY DEF AgreeWhenSettled
  <2>1. Len(wire) \in Nat /\ DOMAIN wire = 1..Len(wire)
    BY LenProperties DEF TypeOK, WireOK
  <2>2. ~Drained(wire, Len(wire))
    BY <2>1 DEF EndInv, NoneOf, Drained
  <2>3. BackendInput[Len(wire)] = "paused" <=> HeldNow
    BY <2>1, <2>2, BackendInputIs DEF InputAfter, HeldNow
  <2>4. ~Queued("pause") /\ ~Asking
    BY DEF Queued, Asking
  <2> QED BY <2>3, <2>4 DEF PauseInv, FlagLeads, FlagFollows, NoPause
<1> QED BY <1>1, HeardInvariant, PTL

-----------------------------------------------------------------------------
(* The frames of an import *)

\* The audio among the messages of w is the frames up to a, in order.
AudioOf(w) == {h \in DOMAIN w : w[h].kind = "audio"}
HeardTo(w, a) ==
    /\ {w[h].frame : h \in AudioOf(w)} = 1..a
    /\ \A g, h \in AudioOf(w) : g < h => w[g].frame < w[h].frame

InHand == IF producer.pc \in {"check", "send"} THEN 1 ELSE 0

\* The frames after the first a are in the queue of the loop, with the producer and in
\* the queue of the producer.
ChainFrom(a) ==
    /\ past.frames = a + Len(pcm) + InHand + Len(capture.frames)
    /\ \A k \in 1..Len(pcm) : pcm[k] = a + k
    /\ InHand = 1 => producer.frame = a + Len(pcm) + 1
    /\ \A k \in 1..Len(capture.frames) : capture.frames[k] = a + Len(pcm) + InHand + k
    /\ HeardTo(wire, a)

\* Nobody stops or holds the session, or is about to.
LetBe ==
    /\ ~flags.stop /\ ~flags.paused /\ ~flags.cancel
    /\ caller \in {<<>>, <<"resume">>, <<"text">>, <<"update">>}
    /\ \A i \in DOMAIN commands : commands[i] \in {"resume", "text", "update"}

Chained ==
    capture.finite /\ loop.pc # "ended" =>
        /\ \E a \in Nat : ChainFrom(a)
        /\ producer.pc = "gone" => ~capture.open /\ capture.frames = <<>>
        /\ loop.finishSent => producer.pc = "gone" /\ pcm = <<>>

EndedWhole ==
    \A i \in DOMAIN wire : wire[i].kind = "inputEnded" =>
        capture.finite /\ ~capture.open /\ HeardTo(wire, past.frames)

ImportInv == past.undisturbed => LetBe /\ Chained /\ EndedWhole

LEMMA HeardToOn ==
    ASSUME NEW u \in Seq(Messages), NEW a \in Nat, HeardTo(u, a), NEW m \in Messages
    PROVE  /\ m.kind # "audio" => HeardTo(u \o <<m>>, a)
           /\ m.kind = "audio" /\ m.frame = a + 1 => HeardTo(u \o <<m>>, a + 1)
<1> DEFINE v == <<m>>
           w == u \o v
           n == Len(u) + 1
<1>1. v \in Seq(Messages) /\ Len(v) = 1 /\ v[1] = m /\ 1 \in 1..1
  OBVIOUS
<1> HIDE DEF v
<1>2. /\ Len(w) = n /\ Len(u) \in Nat
      /\ DOMAIN u = 1..Len(u) /\ DOMAIN w = 1..Len(w)
      /\ \A i \in 1..Len(u) : w[i] = u[i]
      /\ w[n] = m
  <2>1. /\ Len(w) = Len(u) + Len(v) /\ Len(u) \in Nat
        /\ DOMAIN u = 1..Len(u) /\ DOMAIN w = 1..Len(w)
        /\ \A i \in 1..Len(u) : w[i] = u[i]
        /\ \A i \in 1..Len(v) : w[Len(u) + i] = v[i]
    BY <1>1, Lasting
  <2> HIDE DEF w
  <2>2. w[Len(u) + 1] = m /\ Len(w) = Len(u) + 1
    BY <1>1, <2>1
  <2> QED BY <2>1, <2>2
<1> HIDE DEF w
<1>3. /\ DOMAIN w = DOMAIN u \cup {n} /\ \A i \in DOMAIN u : i < n /\ ~(n < i) /\ i # n
      /\ \A i \in DOMAIN u : w[i] = u[i]
      /\ w[n] = m /\ ~(n < n)
  BY <1>2
<1> HIDE DEF n
<1>4. ASSUME m.kind # "audio" PROVE HeardTo(w, a)
  <2>1. AudioOf(w) = AudioOf(u)
    BY <1>3, <1>4 DEF AudioOf
  <2>2. \A h \in AudioOf(u) : w[h] = u[h]
    BY <1>3 DEF AudioOf
  <2> QED BY <2>1, <2>2 DEF HeardTo
<1>5. ASSUME m.kind = "audio", m.frame = a + 1 PROVE HeardTo(w, a + 1)
  <2>1. AudioOf(w) = AudioOf(u) \cup {n}
    BY <1>3, <1>5 DEF AudioOf
  <2>2. \A h \in AudioOf(u) : w[h] = u[h] /\ h < n /\ ~(n < h)
    BY <1>3 DEF AudioOf
  <2>3. \A h \in AudioOf(u) : u[h].frame \in 1..a
    BY DEF HeardTo
  <2>4. {w[h].frame : h \in AudioOf(w)} = {u[h].frame : h \in AudioOf(u)} \cup {a + 1}
    BY <1>3, <1>5, <2>1, <2>2
  <2>5. 1..(a + 1) = 1..a \cup {a + 1}
    OBVIOUS
  <2>6. \A g \in 1..a : g < a + 1
    OBVIOUS
  <2>7. ASSUME NEW g \in AudioOf(w), NEW h \in AudioOf(w), g < h
        PROVE  w[g].frame < w[h].frame
    <3>1. g \in AudioOf(u)
      BY <1>3, <2>1, <2>2, <2>7
    <3>2. CASE h = n
      BY <1>3, <1>5, <2>2, <2>3, <2>6, <3>1, <3>2
    <3>3. CASE h \in AudioOf(u)
      BY <2>2, <2>7, <3>1, <3>3 DEF HeardTo
    <3> QED BY <2>1, <3>2, <3>3
  <2> QED BY <2>4, <2>5, <2>7 DEF HeardTo
<1> QED BY <1>4, <1>5 DEF v, w

\* A step that leaves the frames where they are
LEMMA StillStep ==
    ASSUME ImportInv, past'.undisturbed => past.undisturbed, past'.frames = past.frames,
           past'.undisturbed => LetBe', UNCHANGED <<capture, pcm, wire>>,
           producer' = producer \/ (InHand' = InHand /\ producer.pc # "gone" /\ producer'.pc # "gone"
                                       /\ producer'.frame = producer.frame),
           loop'.pc = "ended" \/ (loop.pc # "ended" /\ (loop'.finishSent => loop.finishSent))
    PROVE  ImportInv'
<1> SUFFICES ASSUME past'.undisturbed PROVE LetBe' /\ Chained' /\ EndedWhole'
  BY DEF ImportInv
<1>1. LetBe' /\ Chained /\ EndedWhole
  BY DEF ImportInv
<1>2. EndedWhole'
  BY <1>1 DEF EndedWhole, HeardTo, AudioOf
<1>3. InHand' = InHand /\ (InHand = 1 => producer'.frame = producer.frame)
      /\ (producer'.pc = "gone" <=> producer.pc = "gone")
  BY DEF InHand
<1>4. \A a \in Nat : ChainFrom(a) => ChainFrom(a)'
  BY <1>3 DEF ChainFrom, HeardTo, AudioOf
<1>5. Chained'
  BY <1>1, <1>3, <1>4 DEF Chained
<1> QED BY <1>1, <1>2, <1>5

LEMMA ImportStart == Init => ImportInv
<1> SUFFICES ASSUME Init PROVE ImportInv
  OBVIOUS
<1>1. Len(<<>>) = 0 /\ DOMAIN <<>> = {} /\ 1..0 = {}
  OBVIOUS
<1>2. LetBe /\ EndedWhole
  BY <1>1 DEF Init, LetBe, EndedWhole
<1>3. AudioOf(wire) = {}
  BY <1>1 DEF Init, AudioOf
<1>4. HeardTo(wire, 0)
  BY <1>1, <1>3 DEF HeardTo
<1>5. InHand = 0 /\ Len(pcm) = 0 /\ Len(capture.frames) = 0 /\ past.frames = 0
  BY <1>1 DEF Init, InHand
<1>6. ChainFrom(0)
  BY <1>1, <1>4, <1>5 DEF ChainFrom
<1>7. Chained
  BY <1>6 DEF Chained, Init
<1> QED BY <1>2, <1>7 DEF ImportInv

LEMMA ImportCalled ==
    ASSUME TypeOK, ImportInv, CallerNext
    PROVE  ImportInv'
<1>1. PICK kind : Call(kind) /\ (kind \in {"pause", "finish", "cancel"} \/ Request(kind))
                  /\ (kind \in {"pause", "finish", "cancel", "resume", "text", "update"})
  BY DEF CallerNext, Pause, Resume, TranslateText, Update, Finish, Cancel, Request, Stop
<1>2. /\ past'.undisturbed => past.undisturbed /\ kind \notin {"pause", "finish", "cancel"}
      /\ past'.frames = past.frames
      /\ UNCHANGED <<commands, capture, producer, pcm, loop, wire>>
  BY <1>1 DEF Call, TypeOK, PastOK
<1>3. past'.undisturbed => LetBe'
  BY <1>1, <1>2 DEF Request, ImportInv, LetBe
<1>4. CASE loop.pc = "ended" \/ loop.pc # "ended"
  BY <1>2, <1>3, StillStep
<1> QED BY <1>4

LEMMA ImportCallerStep ==
    ASSUME TypeOK, ImportInv, CallerStep
    PROVE  ImportInv'
<1>1. UNCHANGED <<capture, producer, pcm, loop, wire, past>> /\ caller # <<>>
  BY DEF CallerStep, SetFlag, TrySend, SendCommand
<1>2. ASSUME past.undisturbed PROVE LetBe'
  <2>1. LetBe /\ caller \in {<<"resume">>, <<"text">>, <<"update">>}
    BY <1>1, <1>2 DEF ImportInv, LetBe
  <2>2. Head(caller) \in {"resume", "text", "update"} /\ Tail(caller) = <<>>
        /\ <<>> \o <<>> = <<>>
    <3>1. <<>> \o <<>> = <<>>
      OBVIOUS
    <3>2. CASE caller = <<"resume">>
      BY <3>1, <3>2
    <3>3. CASE caller = <<"text">>
      BY <3>1, <3>3
    <3>4. CASE caller = <<"update">>
      BY <3>1, <3>4
    <3> QED BY <2>1, <3>2, <3>3, <3>4
  <2>3. TrySend /\ UNCHANGED flags
    BY <2>2 DEF CallerStep, SetFlag, FlagSteps, TrySend, SendCommand
  <2>4. caller' = <<>> /\ (commands' = commands \/ commands' = Append(commands, Head(caller)))
    <3>1. Head(caller) # "pause"
      BY <2>2
    <3>2. \/ commands' = Append(commands, Head(caller)) /\ caller' = Tail(caller)
          \/ commands' = commands /\ caller' = <<>> \o Tail(caller)
      BY <2>3, <3>1 DEF TrySend, SendCommand
    <3> QED BY <2>2, <3>2
  <2>5. \A i \in DOMAIN commands' : commands'[i] \in {"resume", "text", "update"}
    <3>1. CASE commands' = commands
      BY <2>1, <3>1 DEF LetBe
    <3>2. CASE commands' = Append(commands, Head(caller))
      <4>1. Head(caller) \in CommandKinds
        BY <2>2 DEF CommandKinds
      <4>2. \A kind : Queued(kind)' <=> kind = Head(caller) \/ Queued(kind)
        BY <3>2, <4>1, AddedCommand DEF TypeOK
      <4> QED BY <2>1, <2>2, <4>2 DEF LetBe, Queued
    <3> QED BY <2>4, <3>1, <3>2
  <2> QED BY <2>1, <2>3, <2>4, <2>5 DEF LetBe
<1> QED BY <1>1, <1>2, StillStep

\* The lengths of a state, and what a queue of frames is without its head or with one more
LEMMA FrameLengths ==
    ASSUME TypeOK
    PROVE  /\ Len(pcm) \in Nat /\ Len(capture.frames) \in Nat /\ past.frames \in Nat
           /\ pcm \in Seq(Nat) /\ capture.frames \in Seq(Nat) /\ producer.frame \in Nat
<1>1. pcm \in Seq(1..MaxFrames) /\ capture.frames \in Seq(1..MaxFrames)
      /\ past.frames \in Nat /\ producer.frame \in Nat
  BY Bounds DEF TypeOK, PcmOK, CaptureOK, PastOK, ProducerOK
<1>2. 1..MaxFrames \subseteq Nat
  BY Bounds
<1>3. ASSUME NEW s \in Seq(1..MaxFrames) PROVE s \in Seq(Nat)
  BY <1>2, SeqMonotonic
<1> QED BY <1>1, <1>3, LenProperties

LEMMA QueueIs ==
    ASSUME NEW q \in Seq(Nat), NEW b \in Nat, \A k \in 1..Len(q) : q[k] = b + k
    PROVE  /\ Append(q, b + Len(q) + 1) \in Seq(Nat) /\ Len(q) \in Nat
           /\ Len(Append(q, b + Len(q) + 1)) = Len(q) + 1
           /\ \A k \in 1..(Len(q) + 1) : Append(q, b + Len(q) + 1)[k] = b + k
           /\ q # <<>> => /\ Head(q) = b + 1 /\ Len(Tail(q)) = Len(q) - 1 /\ Len(q) > 0
                          /\ \A k \in 1..Len(Tail(q)) : Tail(q)[k] = (b + 1) + k
<1>1. Len(q) \in Nat /\ b + Len(q) + 1 \in Nat
  BY LenProperties
<1> DEFINE e == b + Len(q) + 1
<1>2. e \in Nat
  BY <1>1
<1> HIDE DEF e
<1>3. /\ Append(q, e) \in Seq(Nat) /\ Len(Append(q, e)) = Len(q) + 1
      /\ \A k \in 1..Len(q) : Append(q, e)[k] = q[k]
      /\ Append(q, e)[Len(q) + 1] = e
  BY <1>2, AppendProperties
<1>4. \A k \in 1..(Len(q) + 1) : Append(q, e)[k] = b + k
  <2>1. \A k \in 1..(Len(q) + 1) : k \in 1..Len(q) \/ k = Len(q) + 1
    BY <1>1
  <2>2. e = b + (Len(q) + 1)
    BY <1>1 DEF e
  <2> QED BY <1>3, <2>1, <2>2
<1>5. ASSUME q # <<>>
      PROVE  /\ Head(q) = b + 1 /\ Len(Tail(q)) = Len(q) - 1 /\ Len(q) > 0
             /\ \A k \in 1..Len(Tail(q)) : Tail(q)[k] = (b + 1) + k
  <2>1. /\ Len(Tail(q)) = Len(q) - 1 /\ Len(q) \in Nat \ {0}
        /\ DOMAIN Tail(q) = 1..Len(Tail(q))
        /\ \A i \in DOMAIN Tail(q) : Tail(q)[i] = q[i + 1]
        /\ Head(q) = q[1]
    BY <1>5, TailOfSeq
  <2>2. \A k \in 1..Len(Tail(q)) : k + 1 \in 1..Len(q) /\ b + (k + 1) = (b + 1) + k
    BY <2>1
  <2>3. 1 \in 1..Len(q) /\ Len(q) > 0
    BY <2>1
  <2> QED BY <2>1, <2>2, <2>3
<1> QED BY <1>1, <1>3, <1>4, <1>5 DEF e

LEMMA ImportCaptured ==
    ASSUME TypeOK, ImportInv, CaptureFrame \/ CaptureEnds
    PROVE  ImportInv'
<1>1. /\ UNCHANGED <<flags, caller, commands, producer, pcm, loop, wire>>
      /\ past'.undisturbed = past.undisturbed
      /\ capture.open /\ capture'.finite = capture.finite
  BY DEF CaptureFrame, CaptureEnds, TypeOK, PastOK, CaptureOK
<1> SUFFICES ASSUME past.undisturbed PROVE LetBe' /\ Chained' /\ EndedWhole'
  BY <1>1 DEF ImportInv
<1>2. LetBe'
  BY <1>1 DEF ImportInv, LetBe
<1>3. EndedWhole'
  BY <1>1 DEF ImportInv, EndedWhole
<1>4. CASE CaptureFrame
  <2> DEFINE e == past.frames + 1
  <2>1. /\ capture'.frames = Append(capture.frames, e) /\ past'.frames = e
    BY <1>4 DEF CaptureFrame, TypeOK, CaptureOK, PastOK
  <2>2. ASSUME NEW a \in Nat, ChainFrom(a)
        PROVE  ChainFrom(a)'
    <3> DEFINE b == a + Len(pcm) + InHand
    <3>1. b \in Nat /\ e = b + Len(capture.frames) + 1
      BY <2>2, FrameLengths DEF ChainFrom, InHand
    <3>2. capture.frames \in Seq(Nat) /\ \A k \in 1..Len(capture.frames) : capture.frames[k] = b + k
      BY <2>2, FrameLengths DEF ChainFrom
    <3> HIDE DEF b, e
    <3>3. /\ Len(Append(capture.frames, e)) = Len(capture.frames) + 1 /\ Len(capture.frames) \in Nat
          /\ \A k \in 1..(Len(capture.frames) + 1) : Append(capture.frames, e)[k] = b + k
      BY <3>1, <3>2, QueueIs
    <3>4. past'.frames = b + Len(capture'.frames)
      BY <2>1, <3>1, <3>3
    <3>5. \A k \in 1..Len(capture'.frames) : capture'.frames[k] = b + k
      BY <2>1, <3>3
    <3>6. InHand' = InHand /\ b = a + Len(pcm') + InHand'
      BY <1>1 DEF InHand, b
    <3> QED BY <1>1, <2>2, <3>4, <3>5, <3>6 DEF ChainFrom, HeardTo, AudioOf
  <2>3. Chained'
    BY <1>1, <2>2 DEF ImportInv, Chained
  <2> QED BY <1>2, <1>3, <2>3
<1>5. CASE CaptureEnds
  <2>1. capture'.frames = capture.frames /\ past' = past /\ ~capture'.open
    BY <1>5 DEF CaptureEnds, TypeOK, CaptureOK
  <2>2. \A a \in Nat : ChainFrom(a) => ChainFrom(a)'
    BY <1>1, <2>1 DEF ChainFrom, HeardTo, AudioOf, InHand
  <2>3. Chained'
    BY <1>1, <2>1, <2>2 DEF ImportInv, Chained
  <2> QED BY <1>2, <1>3, <2>3
<1> QED BY <1>4, <1>5

LEMMA ImportProduced ==
    ASSUME TypeOK, ImportInv, ProducerNext
    PROVE  ImportInv'
<1>1. UNCHANGED <<flags, caller, commands, loop, wire, past>>
  BY DEF ProducerNext, ProducerLooks, ProducerReceives, ProducerChecks, ProducerSends, Producing
<1> SUFFICES ASSUME past.undisturbed PROVE LetBe' /\ Chained' /\ EndedWhole'
  BY <1>1 DEF ImportInv
<1>2. LetBe' /\ LetBe /\ Chained /\ EndedWhole
  BY <1>1 DEF ImportInv, LetBe
<1>3. CASE ProducerLooks \/ (ProducerReceives /\ capture.frames = <<>>)
  <2>1. /\ UNCHANGED <<capture, pcm>> /\ InHand' = 0 /\ InHand = 0 /\ producer.pc # "gone"
        /\ producer'.pc = "gone" => ~capture.open /\ capture.frames = <<>>
    BY <1>2, <1>3 DEF ProducerLooks, ProducerReceives, Producing, LetBe, InHand, TypeOK, ProducerOK
  <2>2. \A a \in Nat : ChainFrom(a) => ChainFrom(a)'
    BY <1>1, <2>1 DEF ChainFrom, HeardTo, AudioOf
  <2>3. Chained'
    BY <1>1, <1>2, <2>1, <2>2 DEF Chained
  <2>4. EndedWhole'
    BY <1>1, <1>2, <2>1 DEF EndedWhole, HeardTo, AudioOf
  <2> QED BY <1>2, <2>3, <2>4
<1>4. CASE ProducerReceives /\ capture.frames # <<>>
  <2>1. /\ producer' = [pc |-> "check", frame |-> Head(capture.frames)]
        /\ producer.pc = "receive" /\ UNCHANGED pcm
        /\ capture'.frames = Tail(capture.frames)
        /\ capture'.finite = capture.finite /\ capture'.open = capture.open
    BY <1>4 DEF ProducerReceives, Producing, TypeOK, CaptureOK
  <2>2. InHand = 0 /\ InHand' = 1 /\ producer'.frame = Head(capture.frames) /\ producer'.pc = "check"
    BY <2>1 DEF InHand
  <2>3. ASSUME NEW a \in Nat, ChainFrom(a)
        PROVE  ChainFrom(a)'
    <3> DEFINE b == a + Len(pcm)
    <3>1. b \in Nat /\ b + InHand = b
      BY <2>2, FrameLengths
    <3>2. /\ capture.frames \in Seq(Nat)
          /\ \A k \in 1..Len(capture.frames) : capture.frames[k] = b + k
          /\ past.frames = b + Len(capture.frames)
      BY <2>2, <2>3, <3>1, FrameLengths DEF ChainFrom
    <3> HIDE DEF b
    <3>3. /\ Head(capture.frames) = b + 1 /\ Len(capture.frames) \in Nat
          /\ Len(Tail(capture.frames)) = Len(capture.frames) - 1
          /\ \A k \in 1..Len(Tail(capture.frames)) : Tail(capture.frames)[k] = (b + 1) + k
      BY <1>4, <3>1, <3>2, QueueIs
    <3>4. /\ past'.frames = (b + 1) + Len(capture'.frames)
          /\ \A k \in 1..Len(capture'.frames) : capture'.frames[k] = (b + 1) + k
          /\ producer'.frame = b + 1
      <4>1. Len(capture'.frames) = Len(capture.frames) - 1
        BY <2>1, <3>3
      <4>2. past'.frames = (b + 1) + Len(capture'.frames)
        <5>1. b + Len(capture.frames) = (b + 1) + (Len(capture.frames) - 1)
          <6>1. \A x, y \in Nat : x + y = (x + 1) + (y - 1)
            OBVIOUS
          <6> QED BY <3>1, <3>3, <6>1
        <5>2. past'.frames = b + Len(capture.frames)
          BY <1>1, <3>2
        <5> QED BY <4>1, <5>1, <5>2
      <4>3. producer'.frame = b + 1
        BY <2>1, <3>3
      <4> QED BY <2>1, <3>3, <4>2, <4>3
    <3>5. b = a + Len(pcm') /\ b + 1 = a + Len(pcm') + InHand'
      BY <2>1, <2>2 DEF b
    <3>6. HeardTo(wire', a) /\ \A k \in 1..Len(pcm') : pcm'[k] = a + k
      BY <1>1, <2>1, <2>3 DEF ChainFrom
    <3>7. producer'.frame = a + Len(pcm') + 1
      BY <3>4, <3>5
    <3> HIDE DEF InHand
    <3> QED BY <3>4, <3>5, <3>6, <3>7 DEF ChainFrom
  <2>4. Chained'
    BY <1>1, <1>2, <2>1, <2>2, <2>3 DEF Chained
  <2>5. EndedWhole'
    BY <1>1, <1>2, <2>1 DEF EndedWhole, HeardTo, AudioOf
  <2> QED BY <1>2, <2>4, <2>5
<1>5. CASE ProducerChecks
  <2>1. UNCHANGED <<capture, pcm>> /\ InHand' = InHand /\ producer.pc = "check" /\ producer'.pc = "send"
        /\ producer'.frame = producer.frame
    BY <1>2, <1>5 DEF ProducerChecks, Producing, LetBe, InHand, TypeOK, ProducerOK
  <2>2. loop'.pc = "ended" \/ (loop.pc # "ended" /\ (loop'.finishSent => loop.finishSent))
    BY <1>1
  <2>3. past'.frames = past.frames /\ (past'.undisturbed => past.undisturbed)
        /\ (past'.undisturbed => LetBe')
    BY <1>1, <1>2
  <2>4. producer.pc # "gone" /\ producer'.pc # "gone"
    BY <2>1
  <2> QED BY <1>1, <2>1, <2>2, <2>3, <2>4, StillStep DEF ImportInv
<1>6. CASE ProducerSends
  <2>1. UNCHANGED capture /\ producer.pc = "send" /\ InHand = 1
    BY <1>6 DEF ProducerSends, Producing, InHand
  <2>2. EndedWhole'
    BY <1>1, <1>2, <2>1 DEF EndedWhole, HeardTo, AudioOf
  <2>3. CASE loop.pc = "ended"
    BY <1>1, <1>2, <2>2, <2>3 DEF Chained
  <2>4. CASE loop.pc # "ended"
    <3>1. pcm' = Append(pcm, producer.frame) /\ producer'.pc = "top" /\ InHand' = 0
      BY <1>6, <2>4 DEF ProducerSends, InHand, TypeOK, ProducerOK
    <3>2. ASSUME NEW a \in Nat, ChainFrom(a)
          PROVE  ChainFrom(a)'
      <4>1. /\ pcm \in Seq(Nat) /\ \A k \in 1..Len(pcm) : pcm[k] = a + k
            /\ producer.frame = a + Len(pcm) + 1
        BY <2>1, <3>2, FrameLengths DEF ChainFrom
      <4>2. /\ Len(Append(pcm, producer.frame)) = Len(pcm) + 1 /\ Len(pcm) \in Nat
            /\ \A k \in 1..(Len(pcm) + 1) : Append(pcm, producer.frame)[k] = a + k
        BY <4>1, QueueIs
      <4>3. Len(pcm') = Len(pcm) + 1 /\ \A k \in 1..Len(pcm') : pcm'[k] = a + k
        BY <3>1, <4>2
      <4>4. a + Len(pcm') + InHand' = a + Len(pcm) + InHand
        BY <2>1, <3>1, <4>2, <4>3
      <4>5. HeardTo(wire', a) /\ past'.frames = a + Len(pcm') + InHand' + Len(capture'.frames)
        BY <1>1, <2>1, <3>2, <4>4 DEF ChainFrom
      <4>6. \A k \in 1..Len(capture'.frames) : capture'.frames[k] = a + Len(pcm') + InHand' + k
        BY <2>1, <3>2, <4>4 DEF ChainFrom
      <4> QED BY <3>1, <4>3, <4>5, <4>6 DEF ChainFrom
    <3>3. loop.finishSent => ~capture.finite
      BY <1>2, <2>1, <2>4 DEF Chained
    <3> QED BY <1>1, <1>2, <2>1, <2>2, <2>4, <3>1, <3>2, <3>3 DEF Chained
  <2> QED BY <2>3, <2>4
<1> QED BY <1>3, <1>4, <1>5, <1>6 DEF ProducerNext

\* A step of the loop that takes no frame, announces no end, and writes at most a message
\* that is neither.
LEMMA ImportWrites ==
    ASSUME TypeOK, ImportInv, UNCHANGED <<flags, caller, capture, producer, pcm, past>>,
           past.undisturbed => LetBe', loop.pc # "ended",
           NEW m \in Messages, m.kind \notin {"audio", "inputEnded"},
           wire' = wire \/ wire' = wire \o <<m>>,
           loop'.pc = "ended" \/ (loop'.finishSent => loop.finishSent)
    PROVE  ImportInv'
<1> SUFFICES ASSUME past.undisturbed PROVE LetBe' /\ Chained' /\ EndedWhole'
  BY DEF ImportInv
<1>1. LetBe' /\ Chained /\ EndedWhole
  BY DEF ImportInv
<1>2. wire \in Seq(Messages) /\ <<m>> \in Seq(Messages) /\ past.frames \in Nat
  BY FrameLengths DEF TypeOK, WireOK
<1>3. \A a \in Nat : HeardTo(wire, a) => HeardTo(wire', a)
  BY <1>2, HeardToOn
<1>4. InHand' = InHand
  BY DEF InHand
<1>5. ASSUME NEW a \in Nat, ChainFrom(a) PROVE ChainFrom(a)'
  <2>1. HeardTo(wire', a)
    BY <1>3, <1>5 DEF ChainFrom
  <2> QED BY <1>4, <1>5, <2>1 DEF ChainFrom
<1>6. Chained'
  BY <1>1, <1>5 DEF Chained
<1>7. EndedWhole'
  <2> SUFFICES ASSUME NEW i \in DOMAIN wire', wire'[i].kind = "inputEnded"
               PROVE  capture.finite /\ ~capture.open /\ HeardTo(wire', past.frames)
    BY DEF EndedWhole
  <2>1. \E j \in DOMAIN wire : wire[j].kind = "inputEnded"
    <3>1. CASE wire' = wire
      BY <3>1
    <3>2. CASE wire' = wire \o <<m>>
      <4>1. \A k \in DOMAIN <<m>> : <<m>>[k] = m
        OBVIOUS
      <4> QED BY <1>2, <3>2, <4>1, Joined
    <3> QED BY <3>1, <3>2
  <2> QED BY <1>1, <1>2, <1>3, <2>1 DEF EndedWhole
<1> QED BY <1>1, <1>6, <1>7

LEMMA ImportEnds ==
    ASSUME TypeOK, ImportInv, UNCHANGED <<flags, caller, capture, producer, pcm, past, wire>>,
           past.undisturbed => LetBe', loop'.pc = "ended"
    PROVE  ImportInv'
BY DEF ImportInv, Chained, EndedWhole, HeardTo, AudioOf

LEMMA ImportHandled ==
    ASSUME TypeOK, ImportInv, HandleCommand
    PROVE  ImportInv'
<1>1. /\ commands # <<>> /\ commands' = Tail(commands) /\ loop.pc = "run"
      /\ UNCHANGED <<flags, caller, capture, producer, past, pcm>>
  BY DEF HandleCommand, Select
<1>2. \A kind : Queued(kind) <=> Head(commands) = kind \/ Queued(kind)'
  BY <1>1, TakenCommand DEF TypeOK
<1>3. CASE ~past.undisturbed
  BY <1>1, <1>3 DEF ImportInv
<1>4. CASE past.undisturbed
  <2>1. LetBe
    BY <1>4 DEF ImportInv
  <2>2. /\ Head(commands) \in {"resume", "text", "update"}
        /\ \A i \in DOMAIN commands' : commands'[i] \in {"resume", "text", "update"}
    BY <1>2, <2>1 DEF LetBe, Queued
  <2>3. LetBe'
    BY <1>1, <2>1, <2>2 DEF LetBe
  <2> DEFINE m == Message(Head(commands), 0)
  <2>4. m \in Messages /\ m.kind \notin {"audio", "inputEnded"}
    BY <2>2, Bounds DEF Message, Messages
  <2>5. /\ wire' = wire \/ wire' = wire \o <<m>>
        /\ loop'.pc = "ended" \/ (loop'.finishSent => loop.finishSent)
    BY <2>2 DEF HandleCommand, Write, Ended, TypeOK, LoopOK
  <2> HIDE DEF m
  <2> QED BY <1>1, <2>3, <2>4, <2>5, ImportWrites
<1> QED BY <1>3, <1>4

\* The loop takes the first frame on its way, and writes it.
LEMMA ImportForwards ==
    ASSUME TypeOK, EndInv, ImportInv, ForwardAudio
    PROVE  ImportInv'
<1>1. /\ UNCHANGED <<flags, caller, commands, capture, producer, past>> /\ loop.pc = "run"
      /\ pcm # <<>> /\ pcm' = Tail(pcm)
  BY DEF ForwardAudio, Forward, Select
<1> SUFFICES ASSUME past.undisturbed PROVE LetBe' /\ Chained' /\ EndedWhole'
  BY <1>1 DEF ImportInv
<1>2. LetBe /\ LetBe' /\ Chained /\ EndedWhole
  BY <1>1 DEF ImportInv, LetBe
<1> DEFINE a == Message("audio", Head(pcm))
<1>3. a \in Messages /\ a.kind = "audio" /\ a.frame = Head(pcm)
  <2>1. Head(pcm) \in 1..MaxFrames
    BY <1>1, TailOfSeq DEF TypeOK, PcmOK
  <2> QED BY <2>1, Bounds DEF Message, Messages
<1>4. \/ loop' = loop /\ wire' = wire
      \/ Write(TurnStarted \o <<a>>, loop)
  BY DEF ForwardAudio, Forward, Quiet
<1> HIDE DEF a
<1>5. wire \in Seq(Messages) /\ TurnStarted \in Seq(Messages) /\ <<a>> \in Seq(Messages)
  <2>1. <<a>> \in Seq(Messages)
    BY <1>3
  <2> QED BY <2>1, MessagesTyped DEF TypeOK, WireOK
<1>6. \/ wire' = wire
      \/ wire' = wire \o (TurnStarted \o <<a>>) /\ loop' = loop
  BY <1>4 DEF Write
<1> DEFINE u == wire \o TurnStarted
<1>7. u \in Seq(Messages) /\ u \o <<a>> = wire \o (TurnStarted \o <<a>>)
  BY <1>5, ConcatProperties, ConcatAssociative
<1>8. \/ u = wire
      \/ \E m \in Messages : u = wire \o <<m>> /\ m.kind = "turnStarted"
  <2>1. TurnStarted \in {<<>>, <<Message("turnStarted", 0)>>}
    BY DEF TurnStarted
  <2>2. Message("turnStarted", 0) \in Messages /\ Message("turnStarted", 0).kind = "turnStarted"
    BY Bounds DEF Message, Messages
  <2>3. wire \o <<>> = wire
    BY <1>5, ConcatEmptySeq
  <2> QED BY <2>1, <2>2, <2>3
<1>9. \A n \in Nat : HeardTo(wire, n) => HeardTo(u, n)
  BY <1>5, <1>8, HeardToOn
<1> HIDE DEF u
<1>10. ASSUME NEW n \in Nat, HeardTo(wire, n), Head(pcm) = n + 1
       PROVE  HeardTo(u \o <<a>>, n + 1)
  BY <1>3, <1>7, <1>9, <1>10, HeardToOn
<1>11. EndedWhole'
  <2>1. CASE wire' = wire
    BY <1>1, <1>2, <2>1 DEF EndedWhole, HeardTo, AudioOf
  <2>2. CASE wire' = wire \o (TurnStarted \o <<a>>) /\ \A i \in DOMAIN wire : wire[i].kind # "inputEnded"
    <3>1. NoneOf({"inputEnded"}, wire')
      <4>1. NoneOf({"inputEnded"}, TurnStarted) /\ NoneOf({"inputEnded"}, <<a>>)
        BY <1>3 DEF NoneOf, TurnStarted, Message
      <4>2. NoneOf({"inputEnded"}, TurnStarted \o <<a>>) /\ TurnStarted \o <<a>> \in Seq(Messages)
        BY <1>5, <4>1, Joined, ConcatProperties DEF NoneOf
      <4> DEFINE v == TurnStarted \o <<a>>
      <4> HIDE DEF v
      <4>3. v \in Seq(Messages) /\ NoneOf({"inputEnded"}, v) /\ wire' = wire \o v
        BY <2>2, <4>2 DEF v
      <4>4. \A i \in DOMAIN (wire \o v) :
               \/ i \in DOMAIN wire /\ (wire \o v)[i] = wire[i]
               \/ \E k \in DOMAIN v : (wire \o v)[i] = v[k]
        BY <1>5, <4>3, Joined
      <4>5. NoneOf({"inputEnded"}, wire \o v)
        BY <2>2, <4>3, <4>4 DEF NoneOf
      <4> QED BY <4>3, <4>5
    <3> QED BY <3>1 DEF EndedWhole, NoneOf
  <2>3. CASE wire' # wire /\ \E i \in DOMAIN wire : wire[i].kind = "inputEnded"
    <3>1. capture.finite /\ ~loop.finishSent
      BY <1>2, <2>3 DEF EndedWhole, ForwardAudio, Forward, Quiet
    <3>2. ~NoneOf(Terminals, wire)
      BY <2>3 DEF NoneOf, Terminals
    <3> QED BY <3>1, <3>2 DEF EndInv
  <2> QED BY <1>6, <2>1, <2>2, <2>3
<1>12. Chained'
  <2> SUFFICES ASSUME capture.finite, loop'.pc # "ended"
               PROVE  /\ (\E n \in Nat : ChainFrom(n))'
                      /\ producer.pc = "gone" => ~capture.open /\ capture.frames = <<>>
                      /\ loop'.finishSent => producer.pc = "gone" /\ pcm' = <<>>
    BY <1>1 DEF Chained
  <2>1. PICK n \in Nat : ChainFrom(n)
    BY <1>1, <1>2 DEF Chained
  <2>2. ~loop.finishSent /\ ~flags.paused
    BY <1>1, <1>2 DEF Chained, LetBe
  <2>3. Write(TurnStarted \o <<a>>, loop)
    BY <2>2 DEF ForwardAudio, Forward, Suppressed, a
  <2>4. wire' = u \o <<a>> /\ loop' = loop
    BY <1>7, <2>3 DEF Write, Ended, TypeOK, LoopOK
  <2>5. /\ pcm \in Seq(Nat) /\ Len(pcm) \in Nat /\ Len(pcm) > 0
        /\ \A k \in 1..Len(pcm) : pcm[k] = n + k
        /\ Head(pcm) = n + 1 /\ Len(Tail(pcm)) = Len(pcm) - 1
        /\ \A k \in 1..Len(Tail(pcm)) : Tail(pcm)[k] = (n + 1) + k
    <3>1. pcm \in Seq(Nat) /\ Len(pcm) \in Nat
      BY FrameLengths
    <3>2. \A k \in 1..Len(pcm) : pcm[k] = n + k
      BY <2>1 DEF ChainFrom
    <3> QED BY <1>1, <3>1, <3>2, QueueIs
  <2>6. HeardTo(wire', n + 1)
    BY <1>10, <2>1, <2>4, <2>5 DEF ChainFrom
  <2>7. (n + 1) + Len(pcm') = n + Len(pcm) /\ n + 1 \in Nat
    BY <1>1, <2>5
  <2>8. InHand' = InHand
    BY <1>1 DEF InHand
  <2>9. ChainFrom(n + 1)'
    <3>1. past'.frames = (n + 1) + Len(pcm') + InHand' + Len(capture'.frames)
      BY <1>1, <2>1, <2>7, <2>8 DEF ChainFrom
    <3>2. \A k \in 1..Len(pcm') : pcm'[k] = (n + 1) + k
      BY <1>1, <2>5
    <3>3. InHand' = 1 => producer'.frame = (n + 1) + Len(pcm') + 1
      BY <1>1, <2>1, <2>7, <2>8 DEF ChainFrom
    <3>4. \A k \in 1..Len(capture'.frames) : capture'.frames[k] = (n + 1) + Len(pcm') + InHand' + k
      BY <1>1, <2>1, <2>7, <2>8 DEF ChainFrom
    <3> HIDE DEF InHand
    <3> QED BY <2>6, <3>1, <3>2, <3>3, <3>4 DEF ChainFrom
  <2>10. (\E k \in Nat : ChainFrom(k))'
    BY <2>7, <2>9
  <2> QED BY <1>1, <1>2, <2>2, <2>4, <2>10 DEF Chained
<1> QED BY <1>2, <1>11, <1>12

\* When the audio ends all of it is written.
LEMMA ImportAudioEnds ==
    ASSUME TypeOK, ImportInv, EndAudio
    PROVE  ImportInv'
<1> DEFINE closed == [loop EXCEPT !.pcmClosed = TRUE]
           done == [closed EXCEPT !.finishSent = TRUE]
           m == Message("inputEnded", 0)
<1>1. /\ UNCHANGED <<flags, caller, commands, capture, producer, pcm, past>> /\ loop.pc = "run"
      /\ producer.pc = "gone" /\ pcm = <<>>
  BY DEF EndAudio, AudioEnds, Select
<1>2. past.undisturbed => LetBe'
  BY <1>1 DEF ImportInv, LetBe
<1>3. CASE wire' = wire
  <2>1. loop'.pc = "ended" \/ (loop'.finishSent = loop.finishSent /\ loop'.pc = "run")
    <3>1. wire # wire \o <<m>>
      <4>1. <<m>> \in Seq(Messages) /\ <<m>> # <<>> /\ wire \in Seq(Messages)
        BY Bounds DEF Message, Messages, Terminals, TypeOK, WireOK
      <4> QED BY <4>1, ConcatEqualIffEmpty
    <3> QED BY <1>1, <1>3, <3>1 DEF EndAudio, AudioEnds, Write, Ended, TypeOK, LoopOK
  <2>2. past'.frames = past.frames /\ (past'.undisturbed => past.undisturbed)
    BY <1>1
  <2> QED BY <1>1, <1>2, <1>3, <2>1, <2>2, StillStep
<1>4. CASE wire' # wire
  <2>1. capture.finite /\ wire' = wire \o <<m>> /\ loop' = done
    BY <1>4 DEF EndAudio, AudioEnds, Write
  <2>2. m \in Messages /\ m.kind = "inputEnded"
    BY Bounds DEF Message, Messages, Terminals
  <2> HIDE DEF m
  <2>3. wire \in Seq(Messages) /\ <<m>> \in Seq(Messages) /\ past.frames \in Nat
    BY <2>2, FrameLengths DEF TypeOK, WireOK
  <2>4. loop'.pc = "run"
    BY <1>1, <2>1 DEF TypeOK, LoopOK
  <2> SUFFICES ASSUME past.undisturbed PROVE LetBe' /\ Chained' /\ EndedWhole'
    BY <1>1 DEF ImportInv
  <2>5. LetBe' /\ Chained
    BY <1>2 DEF ImportInv
  <2>6. ~capture.open /\ capture.frames = <<>>
    BY <1>1, <2>1, <2>5 DEF Chained
  <2>7. PICK a \in Nat : ChainFrom(a)
    BY <1>1, <2>1, <2>5 DEF Chained
  <2>8. Len(pcm) = 0 /\ Len(capture.frames) = 0 /\ InHand = 0
    BY <1>1, <2>6 DEF InHand
  <2>9. past.frames = a
    BY <2>7, <2>8 DEF ChainFrom
  <2>10. HeardTo(wire', a)
    BY <2>1, <2>2, <2>3, <2>7, HeardToOn DEF ChainFrom
  <2>11. InHand' = InHand
    BY <1>1 DEF InHand
  <2>12. ChainFrom(a)'
    BY <1>1, <2>7, <2>10, <2>11 DEF ChainFrom
  <2>13. Chained'
    BY <1>1, <2>6, <2>12 DEF Chained
  <2>14. EndedWhole'
    BY <1>1, <2>1, <2>6, <2>9, <2>10 DEF EndedWhole
  <2> QED BY <2>5, <2>13, <2>14
<1> QED BY <1>3, <1>4

\* The producer is started by the connection.
Unstarted == loop.pc = "connecting" => producer.pc = "none"

LEMMA UnstartedStep == TypeOK /\ Unstarted /\ [Next]_vars => Unstarted'
<1> SUFFICES ASSUME TypeOK, Unstarted, [Next]_vars PROVE Unstarted'
  OBVIOUS
<1>1. CASE ProducerNext
  BY <1>1 DEF ProducerNext, ProducerLooks, ProducerReceives, ProducerChecks, ProducerSends, Producing,
              Unstarted
<1>2. CASE LoopNext
  <2>1. loop'.pc # "connecting"
    BY <1>2 DEF LoopNext, LoopStep, Connect, ClearPaused, Tick, TickFor, HandleCommand, ForwardAudio,
                Forward, EndAudio, AudioEnds, ReadFinished, ReadLost, Select, Write, Ended, Quiet,
                FinishNow, TypeOK, LoopOK
  <2> QED BY <2>1 DEF Unstarted
<1>3. CASE CallerNext \/ CallerStep \/ CaptureFrame \/ CaptureEnds \/ UNCHANGED vars
  <2>1. UNCHANGED <<loop, producer>>
    BY <1>3
       DEF CallerNext, Pause, Resume, TranslateText, Update, Finish, Cancel, Request, Stop,
           Call, CallerStep, SetFlag, TrySend, SendCommand, CaptureFrame, CaptureEnds, vars
  <2> QED BY <2>1 DEF Unstarted
<1> QED BY <1>1, <1>2, <1>3 DEF Next

LEMMA ImportStep == TypeOK /\ EndInv /\ Unstarted /\ ImportInv /\ [Next]_vars => ImportInv'
<1> SUFFICES ASSUME TypeOK, EndInv, Unstarted, ImportInv, [Next]_vars PROVE ImportInv'
  OBVIOUS
<1>1. CASE CallerNext
  BY <1>1, ImportCalled
<1>2. CASE CallerStep
  BY <1>2, ImportCallerStep
<1>3. CASE CaptureFrame \/ CaptureEnds
  BY <1>3, ImportCaptured
<1>4. CASE ProducerNext
  BY <1>4, ImportProduced
<1>5. CASE UNCHANGED vars
  <2>1. UNCHANGED <<flags, caller, commands, capture, producer, pcm, past, wire, loop>>
    BY <1>5 DEF vars
  <2>2. past.undisturbed => LetBe'
    BY <2>1 DEF ImportInv, LetBe
  <2>3. loop'.pc = "ended" \/ (loop.pc # "ended" /\ (loop'.finishSent => loop.finishSent))
    BY <2>1
  <2> QED BY <2>1, <2>2, <2>3, StillStep
<1>6. CASE Connect
  <2>1. /\ UNCHANGED <<flags, caller, commands, capture, pcm, wire, past>>
        /\ loop.pc = "connecting" /\ loop'.finishSent = loop.finishSent
        /\ \/ loop'.pc = "run" /\ producer'.pc = "top"
           \/ loop'.pc = "ended" /\ UNCHANGED producer
    BY <1>6 DEF Connect, Ended, TypeOK, LoopOK, ProducerOK
  <2>2. past.undisturbed => LetBe'
    BY <2>1 DEF ImportInv, LetBe
  <2>3. past'.frames = past.frames /\ (past'.undisturbed => past.undisturbed)
    BY <2>1
  <2>4. CASE loop'.pc = "ended"
    BY <2>1, <2>2, <2>3, <2>4, ImportEnds
  <2>5. CASE loop'.pc = "run"
    <3>1. UNCHANGED <<wire, pcm, capture>> /\ producer'.pc = "top" /\ producer.pc = "none"
      BY <1>6, <2>1, <2>5 DEF Connect, Unstarted
    <3>2. InHand' = InHand /\ producer'.frame = producer.frame
      BY <1>6, <2>5, <3>1 DEF InHand, Connect, Ended, TypeOK, ProducerOK, LoopOK
    <3>3. loop.pc # "ended" /\ (loop'.finishSent => loop.finishSent)
      BY <2>1
    <3> QED BY <2>2, <2>3, <3>1, <3>2, <3>3, StillStep
  <2> QED BY <2>1, <2>4, <2>5
<1>7. CASE ClearPaused
  <2>1. /\ UNCHANGED <<caller, commands, capture, producer, pcm, wire, past>>
        /\ loop.pc = "resumed" /\ loop'.finishSent = loop.finishSent
        /\ ~flags'.paused /\ flags'.stop = flags.stop /\ flags'.cancel = flags.cancel
    BY <1>7 DEF ClearPaused, TypeOK, LoopOK, FlagsOK
  <2>2. past.undisturbed => LetBe'
    BY <2>1 DEF ImportInv, LetBe
  <2>3. past'.frames = past.frames /\ (past'.undisturbed => past.undisturbed)
    BY <2>1
  <2> QED BY <2>1, <2>2, <2>3, StillStep
<1>8. CASE ReadFinished \/ ReadLost
  <2>1. UNCHANGED <<flags, caller, commands, capture, producer, pcm, wire, past>>
        /\ loop'.pc = "ended"
    BY <1>8 DEF ReadFinished, ReadLost, Select, Ended, TypeOK, LoopOK
  <2>2. past.undisturbed => LetBe'
    BY <2>1 DEF ImportInv, LetBe
  <2> QED BY <2>1, <2>2, ImportEnds
<1>9. CASE Tick
  <2>1. flags.cancel \/ flags.stop
    BY <1>9 DEF Tick, TickFor
  <2>2. ~past.undisturbed /\ past' = past
    BY <1>9, <2>1 DEF ImportInv, LetBe, Tick, TickFor, Select
  <2> QED BY <2>2 DEF ImportInv
<1>10. CASE HandleCommand
  BY <1>10, ImportHandled
<1>11. CASE ForwardAudio
  BY <1>11, ImportForwards
<1>12. CASE EndAudio
  BY <1>12, ImportAudioEnds
<1> QED
  BY <1>1, <1>2, <1>3, <1>4, <1>5, <1>6, <1>7, <1>8, <1>9, <1>10, <1>11, <1>12
     DEF Next, LoopNext, LoopStep

\* An import that nobody pauses, finishes or cancels is heard to the end: when the loop
\* announces the end, every frame that was captured is on the wire before it, in order, for
\* all capacities of the queues between the decoder, the producer thread and the loop.
THEOREM ImportHeardWhole == Spec => []ImportIsComplete
<1>1. TypeOK /\ EndInv /\ Unstarted /\ ImportInv /\ [Next]_vars
         => (TypeOK /\ EndInv /\ Unstarted /\ ImportInv)'
  BY NextTypeOK, NextEndInv, UnstartedStep, ImportStep
<1>2. ImportInv => ImportIsComplete
  BY DEF ImportInv, EndedWhole, HeardTo, AudioOf, ImportIsComplete, AudioWritten
<1>3. Init => Unstarted
  BY DEF Init, Unstarted
<1> QED BY InitTypeOK, InitEndInv, ImportStart, <1>3, <1>1, <1>2, PTL DEF Spec
=============================================================================
