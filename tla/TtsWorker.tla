------------------------------ MODULE TtsWorker ------------------------------
(***************************************************************************)
(* run_tts_worker: one synthesis at a time, in the order of its jobs.  The *)
(* chunks of a job are synthesised until one fails; the session sends them *)
(* one after the other, so a result is one piece of audio or one error.    *)
(***************************************************************************)
EXTENDS SessionChannels

\* recv: awaits a job; busy: synthesises; send: awaits room for its result
TtsStates == {"recv", "busy", "send", "gone"}

TtsTypeOK ==
    /\ tts.pc \in TtsStates
    /\ tts.item \in Items({"", "speech", "audio", "ttsError"})

TtsInit == tts = [pc |-> "recv", item |-> Blank]

TtsReceive ==
    /\ tts.pc = "recv"
    /\ ttsJobs # <<>>
    /\ tts' = [pc |-> "busy", item |-> Head(ttsJobs)]
    /\ ttsJobs' = Tail(ttsJobs)
    /\ UNCHANGED <<generation, session, worker, batch, writer,
                   jobs, results, ttsResults, outbound, out, late>>

TtsSynthesize ==
    /\ tts.pc = "busy"
    /\ \E kind \in {"audio", "ttsError"} :
          tts' = [pc |-> "send", item |-> [tts.item EXCEPT !.kind = kind]]
    /\ UNCHANGED <<generation, session, worker, batch, writer,
                   jobs, results, ttsJobs, ttsResults, outbound, out, late>>

TtsSend ==
    /\ tts.pc = "send"
    /\ Room(ttsResults, TtsCapacity)
    /\ ttsResults' = Append(ttsResults, tts.item)
    /\ tts' = [pc |-> "recv", item |-> Blank]
    /\ UNCHANGED <<generation, session, worker, batch, writer,
                   jobs, results, ttsJobs, outbound, out, late>>

\* The session dropped its sender and every queued job is done.
TtsClosed ==
    /\ tts.pc = "recv"
    /\ ttsJobs = <<>>
    /\ session.loop \in {"joinTts", "joinWriter", "closed"}
    /\ tts' = [pc |-> "gone", item |-> Blank]
    /\ UNCHANGED <<generation, session, worker, batch, writer,
                   jobs, results, ttsJobs, ttsResults, outbound, out, late>>

TtsNext == TtsReceive \/ TtsSynthesize \/ TtsSend \/ TtsClosed
=============================================================================
