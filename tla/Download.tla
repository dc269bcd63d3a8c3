------------------------------ MODULE Download ------------------------------
(***************************************************************************)
(* DownloadClient::download_to (xrtranslate-download): one artifact is     *)
(* fetched into a .part file beside it, resumed after an interruption,     *)
(* verified and renamed.  Workers are threads or processes that fetch the  *)
(* same artifact: a model package has one at a time, which its lock        *)
(* enforces, while nothing keeps an update of the application to one.      *)
(*                                                                         *)
(* A chunk is its number in the artifact, 0 a chunk that is wrong there.   *)
(* A handle follows its file when the file is renamed or removed.          *)
(***************************************************************************)
EXTENDS Naturals, Sequences

CONSTANTS
    Workers,
    Cancellable,  \* the workers that have a cancellation token
    Length,       \* of the artifact, in chunks
    MaxAttempts,  \* policy.max_attempts, 4 in the code
    Digests,      \* whether the SHA-256 of the artifact may be known
    Missing,      \* in the place of a file
    MaxCalls,     \* bound: calls of download_to
    MaxCrashes    \* bound: times the application is killed

ASSUME DownloadAssumption ==
    /\ Cancellable \subseteq Workers
    /\ {Length, MaxAttempts} \subseteq Nat \ {0}
    /\ Digests \subseteq BOOLEAN
    /\ {MaxCalls, MaxCrashes} \subseteq Nat
    /\ Missing \notin Seq(Nat)

VARIABLES
    part,       \* the .part file
    complete,   \* the file with the name of the artifact
    digest,     \* whether its SHA-256 is known
    call,       \* per worker, its call of download_to
    past        \* history: calls, crashes, chunks fetched, whether ranges were
                \* always served and every answer was right

vars == <<part, complete, digest, call, past>>

Artifact == [i \in 1..Length |-> i]
Size(file) == IF file = Missing THEN 0 ELSE Len(file)

\* verify_file
Acceptable(file) ==
    /\ file # Missing
    /\ Len(file) = Length
    /\ digest => file = Artifact

\* Files an earlier release, a crash or two workers left behind
Chunks == UNION {[1..n -> 0..Length] : n \in 0..(Length + 1)}
Leftovers ==
    {Missing} \cup {file \in Chunks : \A i \in DOMAIN file : file[i] \in {0, i}}

NoCall == [pc |-> "idle", attempt |-> 0, existing |-> 0, got |-> 0, append |-> FALSE,
           handle |-> "none", cancelled |-> FALSE, undisturbed |-> FALSE, result |-> "none"]

Init ==
    /\ part \in Leftovers
    /\ complete \in {Missing, [i \in 1..Length |-> 0]}
    /\ digest \in Digests
    /\ call = [w \in Workers |-> NoCall]
    /\ past = [calls |-> 0, crashes |-> 0, fetched |-> 0,
               clean |-> part = Missing /\ complete = Missing]

-----------------------------------------------------------------------------
Set(w, fields) == call' = [call EXCEPT ![w] = fields]

\* The handles after the file of this name was removed
Unlinked(calls, name) ==
    [w \in Workers |->
        [calls[w] EXCEPT !.handle = IF @ = name THEN "orphan" ELSE @]]

\* The handles after the .part file was renamed
Renamed(calls) ==
    [w \in Workers |->
        [calls[w] EXCEPT !.handle = CASE @ = "part" -> "complete"
                                      [] @ = "complete" -> "orphan"
                                      [] OTHER -> @]]

Returned(w, result) == [call[w] EXCEPT !.pc = "done", !.handle = "none", !.result = result]
Goes(w, pc) == [call[w] EXCEPT !.pc = pc, !.handle = "none"]

\* An error ends the call, unless another attempt is worth it
Failed(w, retryable) ==
    IF retryable /\ call[w].attempt < MaxAttempts THEN Goes(w, "attempt")
    ELSE Returned(w, "error")

Disturbed(fields) == [fields EXCEPT !.undisturbed = FALSE]
At(w, pc) == call[w].pc = pc

Start(w) ==
    /\ call[w].pc \in {"idle", "done"}
    /\ past.calls < MaxCalls
    /\ Set(w, [NoCall EXCEPT !.pc = "look", !.undisturbed = TRUE])
    /\ past' = [past EXCEPT !.calls = @ + 1]
    /\ UNCHANGED <<part, complete, digest>>

Cancel(w) ==
    /\ w \in Cancellable
    /\ call[w].pc \notin {"idle", "done"}
    /\ ~call[w].cancelled
    /\ Set(w, Disturbed([call[w] EXCEPT !.cancelled = TRUE]))
    /\ UNCHANGED <<part, complete, digest, past>>

\* A file of that name is there already: is it the artifact?
Look(w) ==
    /\ At(w, "look")
    /\ Set(w, CASE complete = Missing -> Goes(w, "attempt")
                [] Acceptable(complete) -> Returned(w, "ok")
                [] OTHER -> Goes(w, "discard"))
    /\ UNCHANGED <<part, complete, digest, past>>

\* Mutant: a damaged file waits for the rename to replace it.
DiscardNothing(w) ==
    /\ At(w, "discard")
    /\ Set(w, Goes(w, "attempt"))
    /\ UNCHANGED <<part, complete, digest, past>>

Discard(w) ==
    /\ At(w, "discard")
    /\ IF complete = Missing
       THEN Set(w, Returned(w, "error"))
       ELSE call' = Unlinked([call EXCEPT ![w] = Goes(w, "attempt")], "complete")
    /\ complete' = Missing
    /\ UNCHANGED <<part, digest, past>>

\* What transfer_once makes of the .part file it finds
Attempt(w) ==
    /\ At(w, "attempt")
    /\ UNCHANGED <<complete, digest, past>>
    /\ LET next(pc, existing) == [Goes(w, pc) EXCEPT !.attempt = @ + 1, !.existing = existing]
       IN  \/ /\ call[w].cancelled
              /\ Set(w, Returned(w, "cancelled"))
              /\ UNCHANGED part
           \/ /\ ~call[w].cancelled /\ Size(part) < Length
              /\ Set(w, next("request", Size(part)))
              /\ UNCHANGED part
           \/ /\ ~call[w].cancelled /\ Size(part) = Length
              /\ Set(w, next("verify", Length))
              /\ UNCHANGED part
           \/ /\ ~call[w].cancelled /\ Size(part) > Length
              /\ call' = Unlinked([call EXCEPT ![w] = next("request", 0)], "part")
              /\ part' = Missing

\* Mutant: an attempt that got no answer does not count.
RefuseUncounted(w) ==
    /\ At(w, "request")
    /\ \E retryable \in BOOLEAN :
          Set(w, IF retryable THEN [Goes(w, "attempt") EXCEPT !.attempt = @ - 1]
                 ELSE Disturbed(Returned(w, "error")))
    /\ UNCHANGED <<part, complete, digest, past>>

\* The request fails, or the answer is a status, a range or a length that
\* cannot be used.  Some statuses are worth another attempt.
Refuse(w) ==
    /\ At(w, "request")
    /\ \E retryable \in BOOLEAN : Set(w, Disturbed(Failed(w, retryable)))
    /\ UNCHANGED <<part, complete, digest, past>>

\* Mutant: the .part file is truncated, whatever the answer is.
AnswerAnew(w) ==
    /\ At(w, "request")
    /\ \E ranged \in BOOLEAN :
          /\ Set(w, [call[w] EXCEPT !.pc = "body", !.handle = "part", !.got = 0])
          /\ past' = [past EXCEPT !.clean = @ /\ (call[w].existing > 0 => ranged)]
    /\ part' = <<>>
    /\ UNCHANGED <<complete, digest>>

\* The answer is the range that was asked for, or the whole artifact; a server
\* may also answer 206 where no range was asked for.
Answer(w) ==
    /\ At(w, "request")
    /\ \E ranged \in BOOLEAN :
          LET append == IF call[w].existing > 0 THEN ranged ELSE ~ranged IN
          /\ Set(w, [call[w] EXCEPT !.pc = "body", !.handle = "part", !.append = append,
                                    !.got = IF append THEN call[w].existing ELSE 0])
          /\ part' = IF append /\ part # Missing THEN part ELSE <<>>
          /\ past' = [past EXCEPT !.clean = @ /\ (call[w].existing > 0 => ranged)]
    /\ UNCHANGED <<complete, digest>>

\* The file after one chunk was written at the end, or at a position that may
\* lie beyond the end
Written(file, append, position, chunk) ==
    IF append THEN Append(file, chunk)
    ELSE [i \in 1..(IF position > Len(file) THEN position ELSE Len(file)) |->
            CASE i = position -> chunk
              [] i # position /\ i <= Len(file) -> file[i]
              [] OTHER -> 0]

Received(w, chunk) ==
    LET c == call[w]
        after(file) == Written(file, c.append, c.got + 1, chunk)
    IN  /\ part' = IF c.handle = "part" THEN after(part) ELSE part
        /\ complete' = IF c.handle = "complete" THEN after(complete) ELSE complete
        /\ Set(w, [c EXCEPT !.got = @ + 1, !.undisturbed = @ /\ chunk # 0])
        /\ past' = [past EXCEPT !.fetched = @ + 1, !.clean = @ /\ chunk # 0]

Receiving(w) == At(w, "body") /\ ~call[w].cancelled /\ UNCHANGED digest

\* response.chunk(): a chunk of the artifact, or a wrong one
Receive(w) ==
    /\ Receiving(w)
    /\ call[w].got < Length
    /\ \E chunk \in {call[w].got + 1, 0} : Received(w, chunk)

\* A chunk too many: the .part file is removed, and there is no other attempt
Overrun(w) ==
    /\ Receiving(w)
    /\ call[w].got = Length
    /\ call' = Unlinked([call EXCEPT ![w] = Disturbed(Returned(w, "error"))], "part")
    /\ part' = Missing
    /\ past' = [past EXCEPT !.clean = FALSE]
    /\ UNCHANGED complete

\* The connection breaks
Break(w) ==
    /\ Receiving(w)
    /\ Set(w, Disturbed(Failed(w, TRUE)))
    /\ UNCHANGED <<part, complete, past>>

\* The body ends, perhaps too early
BodyEnds(w) ==
    /\ Receiving(w)
    /\ Set(w, IF call[w].got = Length THEN Goes(w, "verify")
              ELSE Disturbed(Failed(w, TRUE)))
    /\ UNCHANGED <<part, complete, past>>

Stop(w) ==
    /\ At(w, "body") /\ call[w].cancelled
    /\ Set(w, Returned(w, "cancelled"))
    /\ UNCHANGED <<part, complete, digest, past>>

VerifyWith(w, acceptable) ==
    /\ At(w, "verify")
    /\ UNCHANGED <<complete, digest, past>>
    /\ IF acceptable
       THEN Set(w, Goes(w, "rename")) /\ UNCHANGED part
       ELSE /\ call' = Unlinked([call EXCEPT ![w] = Failed(w, part # Missing)], "part")
            /\ part' = Missing

\* Mutant: only the length is looked at.
VerifyLength(w) == VerifyWith(w, Size(part) = Length)

\* Mutant: a .part file that is not the artifact is kept.
VerifyKeeps(w) ==
    /\ At(w, "verify")
    /\ Set(w, IF Acceptable(part) THEN Goes(w, "rename") ELSE Failed(w, part # Missing))
    /\ UNCHANGED <<part, complete, digest, past>>

\* The .part file is the artifact, or it is removed and fetched from its start
Verify(w) == VerifyWith(w, Acceptable(part))

Rename(w) ==
    /\ At(w, "rename")
    /\ IF part = Missing
       THEN Set(w, Returned(w, "error")) /\ UNCHANGED <<part, complete>>
       ELSE /\ call' = Renamed([call EXCEPT ![w] = Returned(w, "ok")])
            /\ complete' = part
            /\ part' = Missing
    /\ UNCHANGED <<digest, past>>

\* The application ends.  The chunk that was written last may not have reached
\* the file: the write is handed to another thread.
Killed(file, w) ==
    {file} \cup IF call[w].handle = "part" /\ file \notin {Missing, <<>>}
                THEN {SubSeq(file, 1, Len(file) - 1)} ELSE {}

Crash ==
    /\ past.crashes < MaxCrashes
    /\ \E w \in Workers : call[w].pc \notin {"idle", "done"} /\ part' \in Killed(part, w)
    /\ call' = [w \in Workers |-> NoCall]
    /\ past' = [past EXCEPT !.crashes = @ + 1]
    /\ UNCHANGED <<complete, digest>>

Work(w) ==
    \/ Look(w) \/ Discard(w) \/ Attempt(w) \/ Refuse(w) \/ Answer(w)
    \/ Receive(w) \/ Overrun(w) \/ Break(w) \/ BodyEnds(w) \/ Stop(w)
    \/ Verify(w) \/ Rename(w)

Next == (\E w \in Workers : Start(w) \/ Cancel(w) \/ Work(w)) \/ Crash

Spec == Init /\ [][Next]_vars

\* A worker is scheduled, and a request or a read fails after its timeout when
\* the server does not answer.
FairSpec == Spec /\ \A w \in Workers : WF_vars(Work(w))

-----------------------------------------------------------------------------
\* A call that reports success leaves the artifact under its name, whatever
\* the server sent and an earlier attempt left behind ("an immutable artifact
\* contract verified by length and SHA-256").
OkIsVerified ==
    \A w \in Workers : call[w].pc = "done" /\ call[w].result = "ok" => Acceptable(complete)

\* A call that is not cancelled and gets right answers succeeds, whatever was
\* in the directory: a .part file with wrong bytes costs an attempt and does
\* not stand in the way for ever.
GoodServerSucceeds ==
    \A w \in Workers :
        call[w].pc = "done" /\ call[w].undisturbed => call[w].result = "ok"

\* Broken connections, errors, cancellations and restarts resume: of a server
\* that serves ranges nothing is fetched twice, but what was on its way to the
\* file when the application was killed.
ResumeFetchesOnce == past.clean => past.fetched <= Length + past.crashes

\* Every call returns: attempts are bounded, and so is what one attempt takes.
CallReturns ==
    \A w \in Workers : (call[w].pc = "look") ~> (call[w].pc \in {"done", "idle"})

\* Seen by its names, the directory goes through the states of an Artifact.
AsArtifact ==
    INSTANCE Artifact WITH
        file <- CASE Acceptable(complete) -> "whole"
                  [] complete # Missing /\ ~Acceptable(complete) -> "damaged"
                  [] complete = Missing /\ part # Missing -> "partial"
                  [] OTHER -> "absent"

ImplementsArtifact == AsArtifact!Spec
=============================================================================
