---------------------------- MODULE SocketWriter ----------------------------
(***************************************************************************)
(* run_websocket_writer: the only task that writes to the socket.  It      *)
(* drops what was produced for a generation that is no longer current when *)
(* it takes the message; the generation may change while it writes.        *)
(***************************************************************************)
EXTENDS SessionChannels

\* stopped: its queue was closed or it was aborted; failed: the socket refused
WriterStates == {"recv", "writing", "stopped", "failed"}

WriterTypeOK ==
    /\ writer.pc \in WriterStates
    /\ writer.item \in Items(OutputKinds \cup {""})

WriterInit == writer = [pc |-> "recv", item |-> Blank]

\* outbound_is_current
OutboundIsCurrent(item) == item.gen \in {NoGeneration, generation}

\* Mutant: messages of a replaced generation are written like any other.
WriterTakeAny ==
    /\ writer.pc = "recv"
    /\ outbound # <<>>
    /\ outbound' = Tail(outbound)
    /\ writer' = [pc |-> "writing", item |-> Head(outbound)]
    /\ UNCHANGED <<generation, session, worker, batch, tts,
                   jobs, results, ttsJobs, ttsResults, out, late>>

WriterTake ==
    /\ writer.pc = "recv"
    /\ outbound # <<>>
    /\ outbound' = Tail(outbound)
    /\ writer' = IF OutboundIsCurrent(Head(outbound))
                 THEN [pc |-> "writing", item |-> Head(outbound)]
                 ELSE writer
    /\ UNCHANGED <<generation, session, worker, batch, tts,
                   jobs, results, ttsJobs, ttsResults, out, late>>

WriterWrite ==
    /\ writer.pc = "writing"
    /\ late' = IF OutboundIsCurrent(writer.item) THEN late ELSE Append(late, writer.item.gen)
    /\ writer' = [pc |-> "recv", item |-> Blank]
    /\ UNCHANGED <<generation, session, worker, batch, tts,
                   jobs, results, ttsJobs, ttsResults, outbound, out>>

\* The socket refuses the write: the task ends and its receiver is dropped.
WriterFail ==
    /\ writer.pc = "writing"
    /\ writer' = [pc |-> "failed", item |-> Blank]
    /\ outbound' = <<>>
    /\ UNCHANGED <<generation, session, worker, batch, tts,
                   jobs, results, ttsJobs, ttsResults, out, late>>

WriterClosed ==
    /\ writer.pc = "recv"
    /\ outbound = <<>>
    /\ session.loop \in {"joinWriter", "closed"}
    /\ writer' = [pc |-> "stopped", item |-> Blank]
    /\ UNCHANGED <<generation, session, worker, batch, tts,
                   jobs, results, ttsJobs, ttsResults, outbound, out, late>>

WriterNext == WriterTake \/ WriterWrite \/ WriterFail \/ WriterClosed
=============================================================================
