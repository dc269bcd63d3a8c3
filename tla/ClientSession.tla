--------------------------- MODULE ClientSession ---------------------------
(***************************************************************************)
(* The client's end of a session (rust-client/src/network.rs): the handle  *)
(* the application keeps, the session loop on a thread of its own and the  *)
(* thread that moves captured audio to it.  They share three atomic flags, *)
(* and nothing orders a flag with the command queued after it was set.     *)
(***************************************************************************)
EXTENDS Naturals, Sequences, Functions

CONSTANTS
    FinishAtEnd,       \* values of finish_when_audio_ends: of a finite input, e.g. a file
    CommandCapacity,   \* of the command channel
    PcmCapacity,       \* between the producer and the loop
    CaptureCapacity,   \* between the capture or the file and the producer
    LiveCalls,         \* what the application calls while it captures
    ImportCalls,       \* what it calls while it imports a finite input
    MaxCalls,          \* bound: calls of the application
    MaxFrames          \* bound: frames of audio

ASSUME CapacityAssumption ==
    /\ FinishAtEnd \subseteq BOOLEAN
    /\ {CommandCapacity, PcmCapacity, CaptureCapacity} \subseteq Nat \ {0}
    /\ {MaxCalls, MaxFrames} \subseteq Nat

VARIABLES
    flags,     \* stop_requested, cancel_requested, paused
    caller,    \* what the call in progress has yet to do
    commands,  \* command_tx
    capture,   \* audio_rx: its frames, whether its sender exists and the input is finite
    producer,  \* the thread that reads audio_rx
    pcm,       \* pcm_tx
    loop,      \* run_session
    wire,      \* all that was written to the WebSocket
    past       \* history: calls made and frames captured, whether a call other than
               \* a text or an update was made, and a crossing pause

vars == <<flags, caller, commands, capture, producer, pcm, loop, wire, past>>

\* "text" is translate_text, "update" any command that changes the configuration.
CommandKinds == {"pause", "resume", "finish", "cancel", "text", "update"}
FlagSteps == {"hold", "unhold", "markCancel"}
Terminals == {"finish", "inputEnded"}
Message(kind, frame) == [kind |-> kind, frame |-> frame]

Init ==
    /\ flags = [stop |-> FALSE, cancel |-> FALSE, paused |-> FALSE]
    /\ caller = <<>>
    /\ commands = <<>>
    /\ \E finite \in FinishAtEnd :
          capture = [frames |-> <<>>, open |-> TRUE, finite |-> finite]
    /\ producer = [pc |-> "none", frame |-> 0]
    /\ pcm = <<>>
    /\ loop = [pc |-> "connecting", finishSent |-> FALSE, pcmClosed |-> FALSE,
               outcome |-> "none"]
    /\ wire = <<>>
    /\ past = [calls |-> 0, frames |-> 0, undisturbed |-> TRUE, crossed |-> FALSE]

-----------------------------------------------------------------------------
(* The handle: calls of the application, one step for each shared access *)

ResumeOnItsWay == \/ "resume" \in Range(commands)
                  \/ loop.pc = "resumed"

Call(kind) ==
    /\ kind \in IF capture.finite THEN ImportCalls ELSE LiveCalls
    /\ caller = <<>>
    /\ past.calls < MaxCalls
    /\ past' = [past EXCEPT
          !.calls = @ + 1,
          !.undisturbed = @ /\ kind \notin {"pause", "finish", "cancel"},
          !.crossed = @ \/ /\ kind = "pause"
                           /\ flags.paused \/ ResumeOnItsWay]
    /\ UNCHANGED <<commands, capture, producer, pcm, loop, wire>>

Pause ==
    /\ Call("pause")
    /\ ~flags.stop
    /\ flags' = [flags EXCEPT !.paused = TRUE]
    /\ caller' = <<"pause">>

Request(kind) ==
    /\ Call(kind)
    /\ caller' = <<kind>>
    /\ UNCHANGED flags

Resume == ~flags.stop /\ Request("resume")
TranslateText == ~flags.stop /\ Request("text")
Update == Request("update")

\* finish and cancel: only the first of them has an effect
Stop(kind, rest) ==
    /\ Call(kind)
    /\ flags' = [flags EXCEPT !.stop = TRUE]
    /\ caller' = IF flags.stop THEN <<>> ELSE rest

Finish == Stop("finish", <<"hold", "finish">>)
Cancel == Stop("cancel", <<"markCancel", "hold", "cancel">>)

SetFlag ==
    /\ caller # <<>>
    /\ Head(caller) \in FlagSteps
    /\ flags' = CASE Head(caller) = "markCancel" -> [flags EXCEPT !.cancel = TRUE]
                  [] OTHER -> [flags EXCEPT !.paused = Head(caller) = "hold"]
    /\ caller' = Tail(caller)
    /\ UNCHANGED <<commands, capture, producer, pcm, loop, wire, past>>

SendCommand(possible, refused) ==
    /\ caller # <<>>
    /\ Head(caller) \in CommandKinds
    /\ IF possible
       THEN commands' = Append(commands, Head(caller)) /\ caller' = Tail(caller)
       ELSE caller' = refused \o Tail(caller) /\ UNCHANGED commands
    /\ UNCHANGED <<flags, capture, producer, pcm, loop, wire, past>>

Accepting == loop.pc # "ended" /\ Len(commands) < CommandCapacity

\* Mutant: a pause whose command is refused keeps its flag.
TrySendKeeps == SendCommand(Accepting, <<>>)

\* try_send: a full or closed queue loses the command; pause takes back its flag.
TrySend ==
    SendCommand(Accepting, IF Head(caller) = "pause" THEN <<"unhold">> ELSE <<>>)

CallerNext == Pause \/ Resume \/ TranslateText \/ Update \/ Finish \/ Cancel
CallerStep == SetFlag \/ TrySend

-----------------------------------------------------------------------------
(* The input, external: a capture callback or the decoder of a file *)

CaptureFrame ==
    /\ capture.open
    /\ past.frames < MaxFrames
    /\ Len(capture.frames) < CaptureCapacity
    /\ past' = [past EXCEPT !.frames = @ + 1]
    /\ capture' = [capture EXCEPT !.frames = Append(@, past.frames + 1)]
    /\ UNCHANGED <<flags, caller, commands, producer, pcm, loop, wire>>

CaptureEnds ==
    /\ capture.open
    /\ capture' = [capture EXCEPT !.open = FALSE]
    /\ UNCHANGED <<flags, caller, commands, producer, pcm, loop, wire, past>>

-----------------------------------------------------------------------------
(* The producer thread *)

Producing(pc) ==
    /\ producer.pc = pc
    /\ UNCHANGED <<flags, caller, commands, loop, wire, past>>

\* Mutant: the producer listens as long as its input does.
ProducerLooksAway ==
    /\ Producing("top")
    /\ producer' = [producer EXCEPT !.pc = "receive"]
    /\ UNCHANGED <<capture, pcm>>

ProducerLooks ==
    /\ Producing("top")
    /\ producer' = [producer EXCEPT !.pc = IF flags.stop THEN "gone" ELSE "receive"]
    /\ UNCHANGED <<capture, pcm>>

\* recv_timeout; a sender that is gone shows once the queue is empty
ProducerReceives ==
    /\ Producing("receive")
    /\ IF capture.frames # <<>>
       THEN /\ producer' = [pc |-> "check", frame |-> Head(capture.frames)]
            /\ capture' = [capture EXCEPT !.frames = Tail(@)]
       ELSE /\ producer' = [producer EXCEPT !.pc = IF capture.open THEN "top" ELSE "gone"]
            /\ UNCHANGED capture
    /\ UNCHANGED pcm

ProducerChecks ==
    /\ Producing("check")
    /\ producer' = [producer EXCEPT !.pc = IF flags.paused THEN "top" ELSE "send"]
    /\ UNCHANGED <<capture, pcm>>

\* blocking_send, which fails once the loop is gone
ProducerSends ==
    /\ Producing("send")
    /\ \/ /\ loop.pc = "ended"
          /\ producer' = [producer EXCEPT !.pc = "gone"]
          /\ UNCHANGED pcm
       \/ /\ loop.pc # "ended"
          /\ Len(pcm) < PcmCapacity
          /\ pcm' = Append(pcm, producer.frame)
          /\ producer' = [producer EXCEPT !.pc = "top"]
    /\ UNCHANGED capture

ProducerNext == ProducerLooks \/ ProducerReceives \/ ProducerChecks \/ ProducerSends

-----------------------------------------------------------------------------
(* The session loop *)

Ended(outcome) == [loop EXCEPT !.pc = "ended", !.outcome = outcome]

\* connect_async, the three configuration messages and the producer thread
Connect ==
    /\ loop.pc = "connecting"
    /\ \/ /\ loop' = [loop EXCEPT !.pc = "run"]
          /\ producer' = [producer EXCEPT !.pc = "top"]
       \/ /\ loop' = Ended("error")
          /\ UNCHANGED producer
    /\ UNCHANGED <<flags, caller, commands, capture, pcm, wire, past>>

\* The loop is at its select!, and a branch is taken.
Select ==
    /\ loop.pc = "run"
    /\ UNCHANGED <<flags, caller, capture, producer, past>>

\* The branch writes `messages`; a write that fails ends the session.
Write(messages, then) ==
    \/ wire' = wire \o messages /\ loop' = then
    \/ wire' = wire /\ loop' = Ended("error")

Quiet == UNCHANGED <<wire, loop>>
FinishNow == [loop EXCEPT !.finishSent = TRUE]

TickFor(cancel, finish) ==
    /\ Select
    /\ cancel \/ finish
    /\ IF cancel
       THEN loop' = Ended("cancelled") /\ UNCHANGED wire
       ELSE Write(<<Message("finish", 0)>>, FinishNow)
    /\ UNCHANGED <<commands, pcm>>

\* Mutant: the tick does not look whether the end was announced.
TickAgain == TickFor(flags.cancel, flags.stop)

\* Mutant: only the command queue tells the loop to finish.
TickCancelOnly == TickFor(flags.cancel, FALSE)

\* Mutant: only the command queue tells the loop to cancel.
TickFinishOnly == TickFor(FALSE, flags.stop /\ ~loop.finishSent)

\* ticker.tick(); a tick that finds nothing to do is left out
Tick == TickFor(flags.cancel, flags.stop /\ ~loop.finishSent)

\* command_rx.recv().  A resume goes on in ClearPaused.
HandleCommand ==
    /\ Select
    /\ commands # <<>>
    /\ commands' = Tail(commands)
    /\ LET command == Head(commands) IN
       CASE command = "cancel" -> loop' = Ended("cancelled") /\ UNCHANGED wire
         [] command = "finish" -> IF loop.finishSent THEN Quiet
                                  ELSE Write(<<Message("finish", 0)>>, FinishNow)
         [] command = "resume" -> Write(<<Message("resume", 0)>>,
                                        [loop EXCEPT !.pc = "resumed"])
         [] OTHER -> Write(<<Message(command, 0)>>, loop)
    /\ UNCHANGED pcm

ClearPaused ==
    /\ loop.pc = "resumed"
    /\ loop' = [loop EXCEPT !.pc = "run"]
    /\ flags' = [flags EXCEPT !.paused = FALSE]
    /\ UNCHANGED <<caller, commands, capture, producer, pcm, wire, past>>

\* Of a live input, audio heard while speech is played or the gate is shut is
\* not sent.  A finite input has neither a player nor a gate.
Suppressed == IF capture.finite THEN {FALSE} ELSE BOOLEAN

TurnStarted ==
    IF \E i \in DOMAIN wire : wire[i].kind = "turnStarted" THEN <<>>
    ELSE <<Message("turnStarted", 0)>>

Forward(ignored) ==
    /\ Select
    /\ pcm # <<>>
    /\ pcm' = Tail(pcm)
    /\ \E suppressed \in Suppressed :
          IF ignored \/ suppressed THEN Quiet
          ELSE Write(TurnStarted \o <<Message("audio", Head(pcm))>>, loop)
    /\ UNCHANGED commands

\* Mutant: only the producer looks whether the session is paused.
ForwardUnpaused == Forward(loop.finishSent)

\* pcm_rx.recv(): a frame
ForwardAudio == Forward(flags.paused \/ loop.finishSent)

AudioEnds(atEnd) ==
    /\ Select
    /\ atEnd
    /\ ~loop.pcmClosed
    /\ LET closed == [loop EXCEPT !.pcmClosed = TRUE] IN
       IF capture.finite /\ ~loop.finishSent
       THEN Write(<<Message("inputEnded", 0)>>, [closed EXCEPT !.finishSent = TRUE])
       ELSE loop' = closed /\ UNCHANGED wire
    /\ UNCHANGED <<commands, pcm>>

\* Mutant: the end of the input is announced as soon as the producer is gone.
EndAudioEarly == AudioEnds(producer.pc = "gone")

\* pcm_rx.recv(): the producer is gone and all its frames are taken
EndAudio == AudioEnds(producer.pc = "gone" /\ pcm = <<>>)

\* read.next(): the backend confirms the end, closes the connection or fails.
\* Other events, the confirmation of a pause included, are passed on.
ReadFinished ==
    /\ Select
    /\ \E i \in DOMAIN wire : wire[i].kind \in Terminals
    /\ loop' = Ended("finished")
    /\ UNCHANGED <<commands, pcm, wire>>

ReadLost ==
    /\ Select
    /\ \E outcome \in {"closed", "error"} : loop' = Ended(outcome)
    /\ UNCHANGED <<commands, pcm, wire>>

LoopStep == Tick \/ HandleCommand \/ ClearPaused \/ ForwardAudio \/ EndAudio
LoopNext == Connect \/ LoopStep \/ ReadFinished \/ ReadLost

Next == CallerNext \/ CallerStep \/ CaptureFrame \/ CaptureEnds \/ ProducerNext \/ LoopNext

Spec == Init /\ [][Next]_vars

\* A call runs to its end, the connection is made or refused, the producer and
\* the loop are scheduled and the socket takes or refuses what is written;
\* select! picks a ready branch at random, so each ready branch gets its turn.
FairSpec ==
    /\ Spec
    /\ WF_vars(CallerStep)
    /\ WF_vars(Connect)
    /\ WF_vars(ProducerNext)
    /\ WF_vars(ClearPaused)
    /\ WF_vars(Tick)
    /\ WF_vars(HandleCommand)
    /\ WF_vars(ForwardAudio)
    /\ WF_vars(EndAudio)

-----------------------------------------------------------------------------
Messages ==
    [kind : {"pause", "resume", "text", "update", "turnStarted", "audio"} \cup Terminals,
     frame : 0..MaxFrames]

FlagsOK == flags \in [stop : BOOLEAN, cancel : BOOLEAN, paused : BOOLEAN]

\* A call that queues Pause has nothing else to do.
CallerOK ==
    /\ caller \in Seq(CommandKinds \cup FlagSteps)
    /\ Len(caller) <= 3
    /\ \A i \in DOMAIN caller : caller[i] = "pause" => Len(caller) = 1

CommandsOK == commands \in Seq(CommandKinds) /\ Len(commands) <= CommandCapacity

CaptureOK ==
    /\ capture \in [frames : Seq(1..MaxFrames), open : BOOLEAN, finite : BOOLEAN]
    /\ Len(capture.frames) <= CaptureCapacity

ProducerOK ==
    /\ producer \in [pc : {"none", "top", "receive", "check", "send", "gone"},
                     frame : 0..MaxFrames]
    /\ producer.pc \in {"check", "send"} => producer.frame # 0

PcmOK == pcm \in Seq(1..MaxFrames) /\ Len(pcm) <= PcmCapacity

LoopOK ==
    loop \in [pc : {"connecting", "run", "resumed", "ended"}, finishSent : BOOLEAN,
              pcmClosed : BOOLEAN,
              outcome : {"none", "cancelled", "finished", "closed", "error"}]

WireOK == wire \in Seq(Messages)

PastOK ==
    past \in [calls : 0..MaxCalls, frames : 0..MaxFrames, undisturbed : BOOLEAN,
              crossed : BOOLEAN]

TypeOK ==
    /\ FlagsOK /\ CallerOK /\ CommandsOK /\ CaptureOK /\ ProducerOK /\ PcmOK
    /\ LoopOK /\ WireOK /\ PastOK

\* The input state of the backend once it has read the first n messages
\* (Pause, Resume and the terminal controls of serve_session).
BackendInput[n \in Nat] ==
    IF n = 0 THEN "running"
    ELSE LET before == BackendInput[n - 1]
             kind == wire[n].kind
         IN  IF before = "draining" \/ kind \in Terminals THEN "draining"
             ELSE CASE kind = "pause" -> "paused"
                    [] kind = "resume" -> "running"
                    [] OTHER -> before

AnnouncedOnce(messages) ==
    \A i, j \in DOMAIN messages :
        i < j /\ messages[i].kind \in Terminals
            => messages[j].kind \notin Terminals \cup {"audio"}

\* A finish command, a tick and the end of the audio may each announce the end
\* of the input.  One of them does, once, and no audio that was still on its way
\* is written after it.
EndIsAnnouncedOnce == AnnouncedOnce(wire)

\* No frame of audio is written for a backend that is paused and would discard
\* it, although the flag that stops audio and the messages that pause the
\* backend come from different threads.  The exception: a pause that is asked
\* for while the session is paused, or before an earlier resume is through.
AudioIsHeard ==
    \A i \in DOMAIN wire :
        wire[i].kind = "audio" /\ ~past.crossed => BackendInput[i - 1] = "running"

\* When no command is on its way the flag and the backend agree on whether the
\* session is paused.
AgreeWhenSettled ==
    /\ loop.pc = "run" /\ caller = <<>> /\ commands = <<>>
    /\ ~flags.stop /\ ~loop.finishSent /\ ~past.crossed
    => (flags.paused <=> BackendInput[Len(wire)] = "paused")

AudioWritten == {h \in DOMAIN wire : wire[h].kind = "audio"}

\* A finite input that nobody pauses or stops is heard to the end: when the end
\* is announced each captured frame has been written, in order ("Finish only
\* after every locally queued audio frame has reached the websocket writer").
ImportIsComplete ==
    \A i \in DOMAIN wire :
        wire[i].kind = "inputEnded" /\ past.undisturbed =>
            /\ {wire[h].frame : h \in AudioWritten} = 1..past.frames
            /\ \A g, h \in AudioWritten : g < h => wire[g].frame < wire[h].frame

-----------------------------------------------------------------------------
(* Liveness *)

\* A session that is told to finish tells the backend, or ends: also when the
\* command queue is full and the command is lost.
FinishIsAnnounced ==
    flags.stop ~> loop.finishSent \/ loop.pc = "ended"

\* A cancelled session ends, whatever the backend does.
CancelEnds == flags.cancel ~> loop.pc = "ended"

\* The capture thread does not outlive a session that was stopped.
ProducerEnds ==
    (flags.stop /\ loop.pc = "ended") ~> producer.pc \in {"none", "gone"}
=============================================================================
