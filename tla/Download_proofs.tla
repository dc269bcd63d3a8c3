-------------------------- MODULE Download_proofs --------------------------
(***************************************************************************)
(* A download that reports success leaves the artifact, one that gets right *)
(* answers succeeds, what was fetched is not fetched again, and seen by its *)
(* names the directory is an Artifact: for every length, every number of   *)
(* attempts, calls and kills, and whatever the server sends, as long as one *)
(* worker at a time is on the file.                                        *)
(***************************************************************************)
EXTENDS Download, SequenceTheorems, TLAPS

Places == {"idle", "look", "discard", "attempt", "request", "body", "verify", "rename", "done"}
Handles == {"none", "part", "complete", "orphan"}
Results == {"none", "ok", "error", "cancelled"}

Calls ==
    [pc : Places, attempt : Nat, existing : Nat, got : Nat, append : BOOLEAN,
     handle : Handles, cancelled : BOOLEAN, undisturbed : BOOLEAN, result : Results]

\* What the pc of a call says of the files.  The worker has the .part file open
\* while it reads a body, and never the final one: no other worker renames it.
CallInv(c) ==
    /\ c \in Calls
    /\ c.handle \in {"none", "part"}
    /\ c.handle = "part" => c.pc = "body" /\ part # Missing
    /\ c.pc = "rename" => Acceptable(part)
    /\ c.pc = "done" /\ c.result = "ok" => Acceptable(complete)

IInv ==
    /\ part \in Seq(Nat) \cup {Missing}
    /\ call \in [Workers -> Calls]
    /\ \A w \in Workers : CallInv(call[w])

-----------------------------------------------------------------------------
(* How an action of the only worker changes its call *)

LEMMA SetCall ==
    ASSUME NEW w, Workers = {w}, call \in [Workers -> Calls], NEW r \in Calls, Set(w, r)
    PROVE  call' \in [Workers -> Calls] /\ call'[w] = r
BY DEF Set

LEMMA SameHandle ==
    ASSUME NEW r \in Calls, NEW h, h = r.handle
    PROVE  [r EXCEPT !.handle = h] = r
BY DEF Calls

LEMMA UnlinkedCall ==
    ASSUME NEW w, Workers = {w}, call \in [Workers -> Calls], NEW r \in Calls,
           r.handle = "none", NEW name \in {"part", "complete"},
           call' = Unlinked([call EXCEPT ![w] = r], name)
    PROVE  call' \in [Workers -> Calls] /\ call'[w] = r
<1> DEFINE calls == [call EXCEPT ![w] = r]
           handle == IF r.handle = name THEN "orphan" ELSE r.handle
<1>1. calls[w] = r
  OBVIOUS
<1>2. call' = [v \in Workers |->
                [calls[v] EXCEPT !.handle = IF @ = name THEN "orphan" ELSE @]]
  BY DEF Unlinked
<1> HIDE DEF calls
<1>3. call' = [v \in Workers |-> [r EXCEPT !.handle = handle]]
  BY <1>1, <1>2
<1>4. handle = r.handle
  OBVIOUS
<1> HIDE DEF handle
<1>5. [r EXCEPT !.handle = handle] = r
  BY <1>4, SameHandle
<1>6. call' = [v \in Workers |-> r]
  BY <1>3, <1>5
<1> QED BY <1>6

LEMMA RenamedCall ==
    ASSUME NEW w, Workers = {w}, call \in [Workers -> Calls], NEW r \in Calls,
           r.handle = "none", call' = Renamed([call EXCEPT ![w] = r])
    PROVE  call' \in [Workers -> Calls] /\ call'[w] = r
<1> DEFINE calls == [call EXCEPT ![w] = r]
           handle == CASE r.handle = "part" -> "complete"
                       [] r.handle = "complete" -> "orphan"
                       [] OTHER -> r.handle
<1>1. calls[w] = r
  OBVIOUS
<1>2. call' = [v \in Workers |->
                [calls[v] EXCEPT !.handle = CASE @ = "part" -> "complete"
                                              [] @ = "complete" -> "orphan"
                                              [] OTHER -> @]]
  BY DEF Renamed
<1> HIDE DEF calls
<1>3. call' = [v \in Workers |-> [r EXCEPT !.handle = handle]]
  BY <1>1, <1>2
<1>4. handle = r.handle
  OBVIOUS
<1> HIDE DEF handle
<1>5. [r EXCEPT !.handle = handle] = r
  BY <1>4, SameHandle
<1>6. call' = [v \in Workers |-> r]
  BY <1>3, <1>5
<1> QED BY <1>6

\* A call that says nothing of the files: it has not ended well, and does not
\* rename.
Harmless(r) ==
    /\ r \in Calls /\ r.handle = "none" /\ r.pc # "rename"
    /\ ~(r.pc = "done" /\ r.result = "ok")

\* The calls the actions put in the place of this one
LEMMA GoesTo ==
    ASSUME NEW w \in Workers, call[w] \in Calls, NEW pc \in Places
    PROVE  /\ Goes(w, pc) \in Calls
           /\ Goes(w, pc).pc = pc /\ Goes(w, pc).handle = "none"
BY DEF Goes, Calls, Handles

LEMMA ReturnedTo ==
    ASSUME NEW w \in Workers, call[w] \in Calls, NEW result \in Results
    PROVE  /\ Returned(w, result) \in Calls
           /\ Returned(w, result).pc = "done" /\ Returned(w, result).handle = "none"
           /\ Returned(w, result).result = result
BY DEF Returned, Calls, Handles, Places

LEMMA GoesToFacts ==
    ASSUME NEW w \in Workers, call[w] \in Calls
    PROVE  /\ Harmless(Goes(w, "attempt")) /\ Harmless(Goes(w, "discard"))
           /\ Harmless(Goes(w, "request")) /\ Harmless(Goes(w, "verify"))
           /\ Goes(w, "rename") \in Calls /\ Goes(w, "rename").pc = "rename"
           /\ Goes(w, "rename").handle = "none"
<1>1. {"attempt", "discard", "request", "verify", "rename"} \subseteq Places
  BY DEF Places
<1> QED BY <1>1, GoesTo DEF Harmless

LEMMA ReturnedToFacts ==
    ASSUME NEW w \in Workers, call[w] \in Calls
    PROVE  /\ Harmless(Returned(w, "error")) /\ Harmless(Returned(w, "cancelled"))
           /\ Returned(w, "ok") \in Calls /\ Returned(w, "ok").pc = "done"
           /\ Returned(w, "ok").handle = "none"
<1>1. {"error", "cancelled", "ok"} \subseteq Results
  BY DEF Results
<1> QED BY <1>1, ReturnedTo DEF Harmless

LEMMA DisturbedTo ==
    ASSUME NEW r \in Calls
    PROVE  /\ Disturbed(r) \in Calls
           /\ Disturbed(r).pc = r.pc /\ Disturbed(r).handle = r.handle
           /\ Disturbed(r).result = r.result
BY DEF Disturbed, Calls

LEMMA FailedIsHarmless ==
    ASSUME NEW w \in Workers, call[w] \in Calls, NEW retryable \in BOOLEAN
    PROVE  Harmless(Failed(w, retryable)) /\ Harmless(Disturbed(Failed(w, retryable)))
<1>1. Harmless(Failed(w, retryable))
  BY GoesToFacts, ReturnedToFacts DEF Failed, Harmless
<1> QED BY <1>1, DisturbedTo DEF Harmless

LEMMA HarmlessInv ==
    ASSUME NEW w, Workers = {w}, call' \in [Workers -> Calls], Harmless(call'[w]),
           part' \in Seq(Nat) \cup {Missing}
    PROVE  IInv'
BY DEF IInv, CallInv, Harmless

LEMMA HarmlessSet ==
    ASSUME NEW w, Workers = {w}, IInv, NEW r, Harmless(r), Set(w, r),
           part' \in Seq(Nat) \cup {Missing}
    PROVE  IInv'
<1>1. r \in Calls
  BY DEF Harmless
<1>2. call' \in [Workers -> Calls] /\ call'[w] = r
  BY <1>1, SetCall DEF IInv
<1> QED BY <1>2, HarmlessInv

LEMMA HarmlessUnlinked ==
    ASSUME NEW w, Workers = {w}, IInv, NEW r, Harmless(r), NEW name \in {"part", "complete"},
           call' = Unlinked([call EXCEPT ![w] = r], name),
           part' \in Seq(Nat) \cup {Missing}
    PROVE  IInv'
<1>1. r \in Calls /\ r.handle = "none"
  BY DEF Harmless
<1>2. call' \in [Workers -> Calls] /\ call'[w] = r
  BY <1>1, UnlinkedCall DEF IInv
<1> QED BY <1>2, HarmlessInv

-----------------------------------------------------------------------------
LEMMA LeftoversAreFiles == Leftovers \subseteq Seq(Nat) \cup {Missing}
<1> SUFFICES ASSUME NEW file \in Chunks
             PROVE  file \in Seq(Nat)
  BY DEF Leftovers
<1>1. PICK n \in 0..(Length + 1) : file \in [1..n -> 0..Length]
  BY DEF Chunks
<1>2. n \in Nat /\ 0..Length \subseteq Nat
  BY DownloadAssumption
<1>3. file = [i \in 1..n |-> file[i]] /\ \A i \in 1..n : file[i] \in Nat
  BY <1>1, <1>2
<1> QED BY <1>2, <1>3, IsASeq

LEMMA InitInv == Init => IInv
<1>1. NoCall \in Calls /\ NoCall.handle = "none" /\ NoCall.pc = "idle"
  BY DEF NoCall, Calls, Places, Handles, Results
<1> QED BY <1>1, LeftoversAreFiles DEF Init, IInv, CallInv

LEMMA WrittenIsFile ==
    ASSUME NEW file \in Seq(Nat), NEW append \in BOOLEAN, NEW position \in Nat \ {0},
           NEW chunk \in Nat
    PROVE  Written(file, append, position, chunk) \in Seq(Nat)
<1>1. CASE append
  BY <1>1, AppendProperties DEF Written
<1>2. CASE ~append
  <2> DEFINE n == IF position > Len(file) THEN position ELSE Len(file)
             value(i) == CASE i = position -> chunk
                           [] i # position /\ i <= Len(file) -> file[i]
                           [] OTHER -> 0
  <2>1. n \in Nat
    OBVIOUS
  <2>2. \A i \in 1..n : value(i) \in Nat
    <3> TAKE i \in 1..n
    <3>1. i \in Nat \ {0} /\ Len(file) \in Nat
      BY <2>1
    <3>2. i <= Len(file) => file[i] \in Nat
      BY <3>1, ElementOfSeq
    <3> QED BY <3>2
  <2>3. Written(file, append, position, chunk) = [i \in 1..n |-> value(i)]
    BY <1>2 DEF Written
  <2> HIDE DEF n, value
  <2> QED BY <2>1, <2>2, <2>3, IsASeq
<1> QED BY <1>1, <1>2

LEMMA WorkInv ==
    ASSUME NEW w, Workers = {w}, IInv, Work(w)
    PROVE  IInv'
<1>1. w \in Workers /\ call \in [Workers -> Calls] /\ call[w] \in Calls /\ CallInv(call[w])
  BY DEF IInv, CallInv
<1> DEFINE keeps == part' \in Seq(Nat) \cup {Missing}
<1>part. UNCHANGED part => keeps
  BY DEF IInv
<1>2. CASE Look(w)
  <2>1. CASE complete = Missing
    <3>1. ~Acceptable(complete)
      BY <2>1 DEF Acceptable
    <3>2. Set(w, Goes(w, "attempt")) /\ keeps
      BY <1>2, <2>1, <3>1, <1>part DEF Look
    <3> QED BY <1>1, <3>2, GoesToFacts, HarmlessSet
  <2>2. CASE complete # Missing /\ Acceptable(complete)
    <3>1. Set(w, Returned(w, "ok")) /\ UNCHANGED <<part, complete, digest>>
      BY <1>2, <2>2 DEF Look
    <3>2. call' \in [Workers -> Calls] /\ call'[w] = Returned(w, "ok")
      BY <1>1, <3>1, SetCall, ReturnedToFacts
    <3>3. Acceptable(complete)'
      BY <2>2, <3>1 DEF Acceptable
    <3>4. CallInv(call[w])'
      BY <1>1, <3>2, <3>3, ReturnedToFacts DEF CallInv
    <3>5. keeps
      BY <3>1, <1>part
    <3> QED BY <1>1, <3>2, <3>4, <3>5, ReturnedToFacts DEF IInv
  <2>3. CASE complete # Missing /\ ~Acceptable(complete)
    <3>1. Set(w, Goes(w, "discard")) /\ keeps
      BY <1>2, <2>3, <1>part DEF Look
    <3> QED BY <1>1, <3>1, GoesToFacts, HarmlessSet
  <2> QED BY <2>1, <2>2, <2>3
<1>3. CASE Discard(w)
  <2>1. keeps
    BY <1>3, <1>part DEF Discard
  <2>2. CASE complete = Missing
    <3>1. Set(w, Returned(w, "error"))
      BY <1>3, <2>2 DEF Discard
    <3> QED BY <1>1, <2>1, <3>1, ReturnedToFacts, HarmlessSet
  <2>3. CASE complete # Missing
    <3>1. call' = Unlinked([call EXCEPT ![w] = Goes(w, "attempt")], "complete")
      BY <1>3, <2>3 DEF Discard
    <3> QED BY <1>1, <2>1, <3>1, GoesToFacts, HarmlessUnlinked
  <2> QED BY <2>2, <2>3
<1>4. CASE Attempt(w)
  <2> DEFINE next(pc, existing) ==
               [Goes(w, pc) EXCEPT !.attempt = @ + 1, !.existing = existing]
  <2>1. ASSUME NEW pc \in {"request", "verify"}, NEW existing \in Nat
        PROVE  Harmless(next(pc, existing))
    <3> DEFINE r == Goes(w, pc)
               attempt == r.attempt + 1
    <3>1. r \in Calls /\ r.pc = pc /\ r.handle = "none"
      <4>1. pc \in Places
        BY DEF Places
      <4> QED BY <1>1, <4>1, GoesTo
    <3>2. next(pc, existing) = [r EXCEPT !.attempt = attempt, !.existing = existing]
      OBVIOUS
    <3> HIDE DEF next, r
    <3>3. attempt \in Nat
      BY <3>1 DEF Calls
    <3> HIDE DEF attempt
    <3> QED BY <3>1, <3>2, <3>3 DEF Calls, Harmless
  <2> HIDE DEF next
  <2>2. Size(part) \in Nat
    BY DEF Size, IInv
  <2>3. part' \in Seq(Nat) \cup {Missing}
    BY <1>4 DEF Attempt, IInv
  <2>4. \/ Set(w, Returned(w, "cancelled"))
        \/ Set(w, next("request", Size(part)))
        \/ Set(w, next("verify", Length))
        \/ call' = Unlinked([call EXCEPT ![w] = next("request", 0)], "part")
    BY <1>4 DEF Attempt, next
  <2>5. Length \in Nat
    BY DownloadAssumption
  <2>6. CASE Set(w, Returned(w, "cancelled"))
    BY <1>1, <2>3, <2>6, ReturnedToFacts, HarmlessSet
  <2>7. CASE Set(w, next("request", Size(part)))
    BY <2>1, <2>2, <2>3, <2>7, HarmlessSet
  <2>8. CASE Set(w, next("verify", Length))
    BY <2>1, <2>3, <2>5, <2>8, HarmlessSet
  <2>9. CASE call' = Unlinked([call EXCEPT ![w] = next("request", 0)], "part")
    <3>1. Harmless(next("request", 0))
      BY <2>1
    <3> QED BY <2>3, <2>9, <3>1, HarmlessUnlinked
  <2> QED BY <2>4, <2>6, <2>7, <2>8, <2>9
<1>5. CASE Refuse(w)
  <2>1. PICK retryable \in BOOLEAN : Set(w, Disturbed(Failed(w, retryable)))
    BY <1>5 DEF Refuse
  <2>2. keeps
    BY <1>5, <1>part DEF Refuse
  <2> QED BY <1>1, <2>1, <2>2, FailedIsHarmless, HarmlessSet
<1>6. CASE Answer(w)
  <2>1. PICK append \in BOOLEAN, got \in Nat :
          /\ Set(w, [call[w] EXCEPT !.pc = "body", !.handle = "part",
                                    !.append = append, !.got = got])
          /\ part' = IF append /\ part # Missing THEN part ELSE <<>>
    <3>1. PICK ranged \in BOOLEAN :
            LET append == IF call[w].existing > 0 THEN ranged ELSE ~ranged IN
            /\ Set(w, [call[w] EXCEPT !.pc = "body", !.handle = "part",
                                      !.append = append,
                                      !.got = IF append THEN call[w].existing ELSE 0])
            /\ part' = IF append /\ part # Missing THEN part ELSE <<>>
      BY <1>6 DEF Answer
    <3> DEFINE append == IF call[w].existing > 0 THEN ranged ELSE ~ranged
               got == IF append THEN call[w].existing ELSE 0
    <3>2. append \in BOOLEAN /\ got \in Nat
      BY <1>1 DEF Calls
    <3> HIDE DEF append, got
    <3> QED BY <3>1, <3>2 DEF append, got
  <2> DEFINE next == [call[w] EXCEPT !.pc = "body", !.handle = "part",
                                     !.append = append, !.got = got]
  <2>2. next \in Calls /\ next.pc = "body" /\ next.handle = "part"
    BY <1>1 DEF Calls, Places, Handles
  <2> HIDE DEF next
  <2>3. call' \in [Workers -> Calls] /\ call'[w] = next
    BY <1>1, <2>1, <2>2, SetCall DEF next
  <2>4. part' \in Seq(Nat) /\ part' # Missing
    <3>1. <<>> \in Seq(Nat)
      OBVIOUS
    <3>2. part' = <<>> \/ (part' = part /\ part # Missing)
      BY <2>1
    <3>3. part' \in Seq(Nat)
      BY <3>1, <3>2 DEF IInv
    <3> QED BY <3>3, DownloadAssumption
  <2> QED BY <2>2, <2>3, <2>4 DEF IInv, CallInv
<1>7. CASE Receive(w)
  <2>1. PICK chunk \in {call[w].got + 1, 0} : Received(w, chunk)
    BY <1>7 DEF Receive
  <2> DEFINE got == call[w].got + 1
             undisturbed == call[w].undisturbed /\ chunk # 0
             next == [call[w] EXCEPT !.got = got, !.undisturbed = undisturbed]
  <2>2. got \in Nat \ {0} /\ chunk \in Nat /\ undisturbed \in BOOLEAN
        /\ call[w].append \in BOOLEAN
    BY <1>1 DEF Calls
  <2>3. Set(w, next)
    BY <2>1 DEF Received
  <2>4. call[w].pc = "body"
    BY <1>7 DEF Receive, Receiving, At
  <2>5. part' \in Seq(Nat) \cup {Missing} /\ (call[w].handle = "part" => part' # Missing)
    <3>1. CASE call[w].handle = "part"
      <4>1. part \in Seq(Nat)
        BY <1>1, <3>1 DEF IInv, CallInv
      <4>2. part' = Written(part, call[w].append, got, chunk)
        BY <2>1, <3>1 DEF Received
      <4> HIDE DEF got
      <4>3. part' \in Seq(Nat)
        BY <2>2, <4>1, <4>2, WrittenIsFile
      <4> QED BY <4>3, DownloadAssumption
    <3>2. CASE call[w].handle # "part"
      BY <2>1, <3>2 DEF Received, IInv
    <3> QED BY <3>1, <3>2
  <2> HIDE DEF got, undisturbed
  <2>6. next \in Calls /\ next.pc = "body" /\ next.handle = call[w].handle
    BY <1>1, <2>2, <2>4 DEF Calls
  <2> HIDE DEF next
  <2>7. call' \in [Workers -> Calls] /\ call'[w] = next
    BY <1>1, <2>3, <2>6, SetCall
  <2> QED BY <1>1, <2>5, <2>6, <2>7 DEF IInv, CallInv
<1>8. CASE Overrun(w)
  <2>1. Harmless(Disturbed(Returned(w, "error")))
    BY <1>1, ReturnedToFacts, DisturbedTo DEF Harmless
  <2>2. call' \in [Workers -> Calls] /\ call'[w] = Disturbed(Returned(w, "error"))
    BY <1>1, <1>8, <2>1, UnlinkedCall DEF Overrun, Harmless
  <2> QED BY <1>8, <2>1, <2>2, HarmlessInv DEF Overrun
<1>9. CASE Break(w)
  BY <1>1, <1>9, <1>part, FailedIsHarmless, HarmlessSet DEF Break
<1>10. CASE BodyEnds(w)
  <2>1. Set(w, Goes(w, "verify")) \/ Set(w, Disturbed(Failed(w, TRUE)))
    BY <1>10 DEF BodyEnds
  <2>2. keeps
    BY <1>10, <1>part DEF BodyEnds
  <2>3. Harmless(Disturbed(Failed(w, TRUE)))
    BY <1>1, FailedIsHarmless
  <2> QED BY <1>1, <2>1, <2>2, <2>3, GoesToFacts, HarmlessSet
<1>11. CASE Stop(w)
  BY <1>1, <1>11, <1>part, ReturnedToFacts, HarmlessSet DEF Stop
<1>12. CASE Verify(w)
  <2>1. CASE Acceptable(part)
    <3>1. Set(w, Goes(w, "rename")) /\ UNCHANGED <<part, digest>>
      BY <1>12, <2>1 DEF Verify, VerifyWith
    <3>2. call' \in [Workers -> Calls] /\ call'[w] = Goes(w, "rename")
      BY <1>1, <3>1, SetCall, GoesToFacts
    <3>3. Acceptable(part)'
      BY <2>1, <3>1 DEF Acceptable
    <3> QED BY <1>1, <3>1, <3>2, <3>3, GoesToFacts DEF IInv, CallInv
  <2>2. CASE ~Acceptable(part)
    <3> DEFINE retryable == part # Missing
    <3>1. call' = Unlinked([call EXCEPT ![w] = Failed(w, retryable)], "part")
          /\ part' = Missing
      BY <1>12, <2>2 DEF Verify, VerifyWith
    <3>2. retryable \in BOOLEAN
      OBVIOUS
    <3> HIDE DEF retryable
    <3>3. Harmless(Failed(w, retryable))
      BY <1>1, <3>2, FailedIsHarmless
    <3>4. call' \in [Workers -> Calls] /\ call'[w] = Failed(w, retryable)
      BY <1>1, <3>1, <3>3, UnlinkedCall DEF Harmless
    <3> QED BY <3>1, <3>3, <3>4, HarmlessInv
  <2> QED BY <2>1, <2>2
<1>13. CASE Rename(w)
  <2>1. CASE part = Missing
    BY <1>1, <1>13, <2>1, ReturnedToFacts, SetCall, HarmlessInv DEF Rename, Harmless, IInv
  <2>2. CASE part # Missing
    <3>1. /\ call' = Renamed([call EXCEPT ![w] = Returned(w, "ok")])
          /\ complete' = part /\ part' = Missing /\ digest' = digest
          /\ call[w].pc = "rename"
      BY <1>13, <2>2 DEF Rename, At
    <3>2. call' \in [Workers -> Calls] /\ call'[w] = Returned(w, "ok")
      BY <1>1, <3>1, RenamedCall, ReturnedToFacts
    <3>3. Acceptable(complete)'
      BY <1>1, <3>1 DEF CallInv, Acceptable
    <3> QED BY <1>1, <3>1, <3>2, <3>3, ReturnedToFacts DEF IInv, CallInv
  <2> QED BY <2>1, <2>2
<1> QED BY <1>2, <1>3, <1>4, <1>5, <1>6, <1>7, <1>8, <1>9, <1>10, <1>11, <1>12, <1>13
        DEF Work

THEOREM Invariance ==
    ASSUME NEW worker, Workers = {worker}
    PROVE  Spec => []IInv
<1>1. IInv /\ [Next]_vars => IInv'
  <2> SUFFICES ASSUME IInv, [Next]_vars PROVE IInv'
    OBVIOUS
  <2>1. ASSUME NEW w \in Workers, Start(w) PROVE IInv'
    <3> DEFINE next == [NoCall EXCEPT !.pc = "look", !.undisturbed = TRUE]
    <3>1. Harmless(next)
      BY DEF NoCall, Calls, Places, Handles, Results, Harmless
    <3>2. Set(w, next) /\ Workers = {w}
      BY <2>1 DEF Start
    <3> HIDE DEF next
    <3>3. part' \in Seq(Nat) \cup {Missing}
      BY <2>1 DEF Start, IInv
    <3> QED BY <3>1, <3>2, <3>3, HarmlessSet
  <2>2. ASSUME NEW w \in Workers, Cancel(w) PROVE IInv'
    <3> DEFINE cancelled == [call[w] EXCEPT !.cancelled = TRUE]
               next == Disturbed(cancelled)
    <3>1. call[w] \in Calls /\ CallInv(call[w]) /\ Workers = {w}
      BY DEF IInv, CallInv
    <3>2. cancelled \in Calls /\ cancelled.pc = call[w].pc
          /\ cancelled.handle = call[w].handle /\ cancelled.result = call[w].result
      BY <3>1 DEF Calls
    <3> HIDE DEF cancelled
    <3>3. next \in Calls /\ next.pc = call[w].pc
          /\ next.handle = call[w].handle /\ next.result = call[w].result
      BY <3>2, DisturbedTo
    <3>4. Set(w, next) /\ UNCHANGED <<part, complete, digest>>
      BY <2>2 DEF Cancel, cancelled
    <3> HIDE DEF next
    <3>5. call' \in [Workers -> Calls] /\ call'[w] = next
      BY <3>1, <3>3, <3>4, SetCall DEF IInv
    <3>6. /\ Acceptable(part)' = Acceptable(part) /\ part' = part
          /\ Acceptable(complete)' = Acceptable(complete)
      BY <3>4 DEF Acceptable
    <3>7. CallInv(call[w])'
      BY <3>1, <3>3, <3>5, <3>6 DEF CallInv
    <3> QED BY <3>1, <3>5, <3>6, <3>7 DEF IInv
  <2>3. ASSUME NEW w \in Workers, Work(w) PROVE IInv'
    BY <2>3, WorkInv
  <2>4. CASE Crash
    <3>1. call' = [w \in Workers |-> NoCall]
      BY <2>4 DEF Crash
    <3>2. Harmless(NoCall)
      BY DEF NoCall, Calls, Places, Handles, Results, Harmless
    <3>3. part' \in Seq(Nat) \cup {Missing}
      <4>1. PICK w \in Workers : part' \in Killed(part, w)
        BY <2>4 DEF Crash
      <4>2. CASE part' = part
        BY <4>2 DEF IInv
      <4>3. CASE part \in Seq(Nat) /\ part' = SubSeq(part, 1, Len(part) - 1)
        <5>1. \A i \in 1 .. Len(part) - 1 : part[i] \in Nat
          BY <4>3, ElementOfSeq
        <5> QED BY <4>3, <5>1, SubSeqProperties
      <4> QED BY <4>1, <4>2, <4>3 DEF Killed, IInv
    <3> QED BY <3>1, <3>2, <3>3, HarmlessInv DEF Harmless
  <2>5. CASE UNCHANGED vars
    BY <2>5 DEF vars, IInv, CallInv, Acceptable
  <2> QED BY <2>1, <2>2, <2>3, <2>4, <2>5 DEF Next
<1> QED BY <1>1, InitInv, PTL DEF Spec

\* A call that reports success leaves the artifact under its name (lib.rs
\* 224-291), whatever the server sent and earlier attempts left, if no other
\* worker is on the same file.
THEOREM SuccessIsVerified ==
    ASSUME NEW worker, Workers = {worker}
    PROVE  Spec => []OkIsVerified
<1>1. IInv => OkIsVerified
  BY DEF IInv, CallInv, OkIsVerified
<1> QED BY <1>1, Invariance, PTL

-----------------------------------------------------------------------------
(* What else holds of the call of one worker: where it is in the directory, *)
(* why it will succeed if nothing disturbs it, and what was fetched so far  *)

\* The .part file is the first n chunks of the artifact
Upto(file, n) == file # Missing /\ Len(file) = n /\ \A i \in 1..n : file[i] = i

\* From the look at the final name on, no other worker changes what was found.
Placed(c) ==
    /\ c.pc \in {"attempt", "request", "body", "verify", "rename"} => complete = Missing
    /\ c.pc = "discard" => complete # Missing /\ ~Acceptable(complete)
    /\ c.pc \in {"request", "body", "verify"} => c.attempt > 0
    /\ c.pc = "request" => c.existing = Size(part) /\ Size(part) < Length
    /\ c.pc = "body" => /\ c.handle = "part" /\ part # Missing
                        /\ c.got = Len(part) /\ c.got <= Length
    /\ c.pc = "verify" => part # Missing /\ Len(part) = Length

\* An undisturbed call is in its first attempt, or in its second with a .part
\* file of which it has received every chunk.
Promising(c) ==
    c.undisturbed =>
        /\ ~c.cancelled
        /\ c.pc \in {"look", "discard"} => c.attempt = 0
        /\ c.pc = "attempt" => c.attempt = 0 \/ (c.attempt = 1 /\ part = Missing)
        /\ c.pc \in {"request", "body", "verify"} => c.attempt \in {1, 2}
        /\ c.attempt = 2 =>
              /\ c.pc = "request" => part = Missing
              /\ c.pc \in {"body", "verify"} => Upto(part, Len(part))
        /\ c.pc = "done" => c.result = "ok"

\* As long as every answer was right, what is on the disk is what was fetched.
Clean ==
    past.clean =>
        \/ /\ complete = Missing
           /\ part # Missing => Upto(part, Len(part)) /\ Len(part) <= Length
           /\ past.fetched <= Size(part) + past.crashes
        \/ /\ Upto(complete, Length) /\ part = Missing
           /\ past.fetched <= Length + past.crashes

Histories == [calls : Nat, crashes : Nat, fetched : Nat, clean : BOOLEAN]

FilesInv == complete \in Seq(Nat) \cup {Missing} /\ past \in Histories /\ Clean

DiskInv == IInv /\ FilesInv /\ \A w \in Workers : Placed(call[w])

-----------------------------------------------------------------------------
(* What each action makes of the call of the only worker *)

\* Nothing but pc, handle and result, and no longer undisturbed at most
Kept(c, d) ==
    /\ d.attempt = c.attempt /\ d.existing = c.existing /\ d.got = c.got
    /\ d.cancelled => c.cancelled
    /\ d.undisturbed => c.undisturbed

Moved(c, d, pc) == Kept(c, d) /\ d.pc = pc /\ d.handle = "none"
Ended(c, d, result) == Moved(c, d, "done") /\ d.result = result

\* An error: another attempt, or the end
Retried(c, d, retryable) ==
    \/ retryable /\ c.attempt < MaxAttempts /\ Moved(c, d, "attempt")
    \/ ~(retryable /\ c.attempt < MaxAttempts) /\ Ended(c, d, "error")

LEMMA GoesKeeps ==
    ASSUME NEW w \in Workers, call[w] \in Calls, NEW pc \in Places
    PROVE  Goes(w, pc) \in Calls /\ Moved(call[w], Goes(w, pc), pc)
BY GoesTo DEF Goes, Moved, Kept, Calls

LEMMA ReturnedKeeps ==
    ASSUME NEW w \in Workers, call[w] \in Calls, NEW result \in Results
    PROVE  Returned(w, result) \in Calls /\ Ended(call[w], Returned(w, result), result)
BY ReturnedTo DEF Returned, Moved, Ended, Kept, Calls

LEMMA FailedKeeps ==
    ASSUME NEW w \in Workers, call[w] \in Calls, NEW retryable \in BOOLEAN
    PROVE  /\ Failed(w, retryable) \in Calls
           /\ Retried(call[w], Failed(w, retryable), retryable)
<1>1. "attempt" \in Places /\ "error" \in Results
  BY DEF Places, Results
<1> QED BY <1>1, GoesKeeps, ReturnedKeeps DEF Failed, Retried

LEMMA DisturbedKeeps ==
    ASSUME NEW c, NEW r \in Calls
    PROVE  /\ Disturbed(r) \in Calls /\ ~Disturbed(r).undisturbed
           /\ \A pc : Moved(c, r, pc) => Moved(c, Disturbed(r), pc)
           /\ \A retryable : Retried(c, r, retryable) => Retried(c, Disturbed(r), retryable)
<1>1. /\ Disturbed(r) \in Calls /\ ~Disturbed(r).undisturbed
      /\ Disturbed(r).pc = r.pc /\ Disturbed(r).handle = r.handle
      /\ Disturbed(r).result = r.result /\ Disturbed(r).attempt = r.attempt
      /\ Disturbed(r).existing = r.existing /\ Disturbed(r).got = r.got
      /\ Disturbed(r).cancelled = r.cancelled
  BY DEF Disturbed, Calls
<1> QED BY <1>1 DEF Moved, Ended, Retried, Kept

LEMMA LookEffect ==
    ASSUME NEW w, Workers = {w}, IInv, Look(w)
    PROVE  /\ call[w].pc = "look" /\ UNCHANGED <<part, complete, digest, past>>
           /\ \/ complete = Missing /\ Moved(call[w], call'[w], "attempt")
              \/ complete # Missing /\ Acceptable(complete) /\ Ended(call[w], call'[w], "ok")
              \/ complete # Missing /\ ~Acceptable(complete)
                 /\ Moved(call[w], call'[w], "discard")
<1>1. w \in Workers /\ call[w] \in Calls /\ call \in [Workers -> Calls]
  BY DEF IInv, CallInv
<1>2. {"attempt", "discard"} \subseteq Places /\ "ok" \in Results
  BY DEF Places, Results
<1>3. \/ complete = Missing /\ Set(w, Goes(w, "attempt"))
      \/ complete # Missing /\ Acceptable(complete) /\ Set(w, Returned(w, "ok"))
      \/ complete # Missing /\ ~Acceptable(complete) /\ Set(w, Goes(w, "discard"))
  <2>1. ~(complete # Missing) => ~Acceptable(complete)
    BY DEF Acceptable
  <2>2. CASE complete = Missing
    BY <2>1, <2>2 DEF Look
  <2>3. CASE complete # Missing /\ Acceptable(complete)
    BY <2>3 DEF Look
  <2>4. CASE complete # Missing /\ ~Acceptable(complete)
    BY <2>4 DEF Look
  <2> QED BY <2>2, <2>3, <2>4
<1>4. \A r \in Calls : Set(w, r) => call'[w] = r
  BY <1>1, SetCall
<1>5. call[w].pc = "look" /\ UNCHANGED <<part, complete, digest, past>>
  BY DEF Look, At
<1> QED BY <1>1, <1>2, <1>3, <1>4, <1>5, GoesKeeps, ReturnedKeeps

LEMMA DiscardEffect ==
    ASSUME NEW w, Workers = {w}, IInv, Discard(w)
    PROVE  /\ call[w].pc = "discard" /\ complete' = Missing
           /\ UNCHANGED <<part, digest, past>>
           /\ \/ complete = Missing /\ Ended(call[w], call'[w], "error")
              \/ complete # Missing /\ Moved(call[w], call'[w], "attempt")
<1>1. w \in Workers /\ call[w] \in Calls /\ call \in [Workers -> Calls]
  BY DEF IInv, CallInv
<1>2. "attempt" \in Places /\ "error" \in Results
  BY DEF Places, Results
<1>3. /\ call[w].pc = "discard" /\ complete' = Missing
      /\ UNCHANGED <<part, digest, past>>
  BY DEF Discard, At
<1>4. CASE complete = Missing
  <2>1. Set(w, Returned(w, "error"))
    BY <1>4 DEF Discard
  <2> QED BY <1>1, <1>2, <1>3, <1>4, <2>1, SetCall, ReturnedKeeps
<1>5. CASE complete # Missing
  <2>1. call' = Unlinked([call EXCEPT ![w] = Goes(w, "attempt")], "complete")
    BY <1>5 DEF Discard
  <2>2. Goes(w, "attempt") \in Calls /\ Moved(call[w], Goes(w, "attempt"), "attempt")
    BY <1>1, <1>2, GoesKeeps
  <2>3. call'[w] = Goes(w, "attempt")
    BY <1>1, <2>1, <2>2, UnlinkedCall DEF Moved
  <2> QED BY <1>3, <1>5, <2>2, <2>3
<1> QED BY <1>4, <1>5

\* The next attempt, with what was there already
Attempted(c, d, pc, existing) ==
    /\ d.attempt = c.attempt + 1 /\ d.existing = existing /\ d.pc = pc /\ d.handle = "none"
    /\ d.cancelled => c.cancelled
    /\ d.undisturbed => c.undisturbed

LEMMA AttemptEffect ==
    ASSUME NEW w, Workers = {w}, IInv, Attempt(w)
    PROVE  /\ call[w].pc = "attempt" /\ UNCHANGED <<complete, digest, past>>
           /\ \/ /\ call[w].cancelled /\ Ended(call[w], call'[w], "cancelled")
                 /\ UNCHANGED part
              \/ /\ ~call[w].cancelled /\ Size(part) < Length /\ UNCHANGED part
                 /\ Attempted(call[w], call'[w], "request", Size(part))
              \/ /\ ~call[w].cancelled /\ Size(part) = Length /\ UNCHANGED part
                 /\ Attempted(call[w], call'[w], "verify", Length)
              \/ /\ ~call[w].cancelled /\ Size(part) > Length /\ part' = Missing
                 /\ Attempted(call[w], call'[w], "request", 0)
<1>1. w \in Workers /\ call[w] \in Calls /\ call \in [Workers -> Calls]
  BY DEF IInv, CallInv
<1> DEFINE next(pc, existing) ==
             [Goes(w, pc) EXCEPT !.attempt = @ + 1, !.existing = existing]
<1>2. ASSUME NEW pc \in {"request", "verify"}, NEW existing \in Nat
      PROVE  /\ next(pc, existing) \in Calls
             /\ Attempted(call[w], next(pc, existing), pc, existing)
  <2> DEFINE r == Goes(w, pc)
             attempt == r.attempt + 1
  <2>1. r \in Calls /\ Moved(call[w], r, pc)
    <3>1. pc \in Places
      BY DEF Places
    <3> QED BY <1>1, <3>1, GoesKeeps
  <2>2. next(pc, existing) = [r EXCEPT !.attempt = attempt, !.existing = existing]
    OBVIOUS
  <2> HIDE DEF next, r
  <2>3. attempt \in Nat /\ attempt = call[w].attempt + 1
    BY <2>1 DEF Calls, Moved, Kept
  <2> HIDE DEF attempt
  <2> QED BY <2>1, <2>2, <2>3 DEF Calls, Moved, Kept, Attempted
<1> HIDE DEF next
<1>3. Size(part) \in Nat /\ Length \in Nat
  BY DownloadAssumption DEF Size, IInv
<1>4. call[w].pc = "attempt" /\ UNCHANGED <<complete, digest, past>>
  BY DEF Attempt, At
<1>5. \/ call[w].cancelled /\ Set(w, Returned(w, "cancelled")) /\ UNCHANGED part
      \/ /\ ~call[w].cancelled /\ Size(part) < Length /\ UNCHANGED part
         /\ Set(w, next("request", Size(part)))
      \/ /\ ~call[w].cancelled /\ Size(part) = Length /\ UNCHANGED part
         /\ Set(w, next("verify", Length))
      \/ /\ ~call[w].cancelled /\ Size(part) > Length /\ part' = Missing
         /\ call' = Unlinked([call EXCEPT ![w] = next("request", 0)], "part")
  BY DEF Attempt, next
<1>6. \A r \in Calls : Set(w, r) => call'[w] = r
  BY <1>1, SetCall
<1>7. \A r \in Calls : r.handle = "none" /\ call' = Unlinked([call EXCEPT ![w] = r], "part")
          => call'[w] = r
  BY <1>1, UnlinkedCall
<1>8. next("request", 0).handle = "none"
  BY <1>2 DEF Attempted
<1>9. Returned(w, "cancelled") \in Calls /\ Ended(call[w], Returned(w, "cancelled"), "cancelled")
  <2>1. "cancelled" \in Results
    BY DEF Results
  <2> QED BY <1>1, <2>1, ReturnedKeeps
<1> QED BY <1>2, <1>3, <1>4, <1>5, <1>6, <1>7, <1>8, <1>9

LEMMA RefuseEffect ==
    ASSUME NEW w, Workers = {w}, IInv, Refuse(w)
    PROVE  /\ call[w].pc = "request" /\ UNCHANGED <<part, complete, digest, past>>
           /\ ~call'[w].undisturbed
           /\ \E retryable \in BOOLEAN : Retried(call[w], call'[w], retryable)
<1>1. w \in Workers /\ call[w] \in Calls /\ call \in [Workers -> Calls]
  BY DEF IInv, CallInv
<1>2. PICK retryable \in BOOLEAN : Set(w, Disturbed(Failed(w, retryable)))
  BY DEF Refuse
<1>3. /\ Failed(w, retryable) \in Calls
      /\ Retried(call[w], Failed(w, retryable), retryable)
  BY <1>1, FailedKeeps
<1>4. call'[w] = Disturbed(Failed(w, retryable))
  BY <1>1, <1>2, <1>3, DisturbedKeeps, SetCall
<1>5. call[w].pc = "request" /\ UNCHANGED <<part, complete, digest, past>>
  BY DEF Refuse, At
<1> QED BY <1>3, <1>4, <1>5, DisturbedKeeps

LEMMA AnswerEffect ==
    ASSUME NEW w, Workers = {w}, IInv, Answer(w)
    PROVE  /\ call[w].pc = "request" /\ UNCHANGED <<complete, digest>>
           /\ call'[w].pc = "body" /\ call'[w].handle = "part"
           /\ call'[w].attempt = call[w].attempt
           /\ call'[w].cancelled => call[w].cancelled
           /\ call'[w].undisturbed => call[w].undisturbed
           /\ past' \in Histories \/ past \notin Histories
           /\ \E ranged \in BOOLEAN, append \in BOOLEAN :
                 /\ call[w].existing > 0 => append = ranged
                 /\ part' = IF append /\ part # Missing THEN part ELSE <<>>
                 /\ call'[w].got = IF append THEN call[w].existing ELSE 0
                 /\ past \in Histories =>
                       /\ past' \in Histories
                       /\ past'.fetched = past.fetched /\ past'.crashes = past.crashes
                       /\ past'.clean => past.clean /\ (call[w].existing > 0 => ranged)
<1>1. w \in Workers /\ call[w] \in Calls /\ call \in [Workers -> Calls]
  BY DEF IInv, CallInv
<1>2. PICK ranged \in BOOLEAN :
        LET append == IF call[w].existing > 0 THEN ranged ELSE ~ranged IN
        /\ Set(w, [call[w] EXCEPT !.pc = "body", !.handle = "part",
                                  !.append = append,
                                  !.got = IF append THEN call[w].existing ELSE 0])
        /\ part' = IF append /\ part # Missing THEN part ELSE <<>>
        /\ past' = [past EXCEPT !.clean = @ /\ (call[w].existing > 0 => ranged)]
  BY DEF Answer
<1> DEFINE append == IF call[w].existing > 0 THEN ranged ELSE ~ranged
           got == IF append THEN call[w].existing ELSE 0
           clean == past.clean /\ (call[w].existing > 0 => ranged)
<1>3. /\ append \in BOOLEAN /\ got \in Nat /\ clean \in BOOLEAN
      /\ call[w].existing > 0 => append = ranged
      /\ got = IF append THEN call[w].existing ELSE 0
      /\ clean => past.clean /\ (call[w].existing > 0 => ranged)
  BY <1>1 DEF Calls
<1>4. /\ Set(w, [call[w] EXCEPT !.pc = "body", !.handle = "part",
                                !.append = append, !.got = got])
      /\ part' = IF append /\ part # Missing THEN part ELSE <<>>
      /\ past' = [past EXCEPT !.clean = clean]
  BY <1>2
<1> HIDE DEF append, got, clean
<1> DEFINE next == [call[w] EXCEPT !.pc = "body", !.handle = "part",
                                   !.append = append, !.got = got]
<1>5. /\ next \in Calls /\ next.pc = "body" /\ next.handle = "part"
      /\ next.got = got /\ next.attempt = call[w].attempt
      /\ next.cancelled = call[w].cancelled /\ next.undisturbed = call[w].undisturbed
  BY <1>1, <1>3 DEF Calls, Places, Handles
<1> HIDE DEF next
<1>6. call'[w] = next
  BY <1>1, <1>4, <1>5, SetCall DEF next
<1>7. past \in Histories =>
        /\ past' \in Histories
        /\ past'.fetched = past.fetched /\ past'.crashes = past.crashes /\ past'.clean = clean
  BY <1>3, <1>4 DEF Histories
<1>8. call[w].pc = "request" /\ UNCHANGED <<complete, digest>>
  BY DEF Answer, At
<1> QED BY <1>3, <1>4, <1>5, <1>6, <1>7, <1>8

\* A chunk at the end of a file is appended, however it was opened.
LEMMA WrittenAtEnd ==
    ASSUME NEW file \in Seq(Nat), NEW append \in BOOLEAN, NEW chunk \in Nat
    PROVE  Written(file, append, Len(file) + 1, chunk) = Append(file, chunk)
<1>1. CASE append
  BY <1>1 DEF Written
<1>2. CASE ~append
  <2> DEFINE n == Len(file) + 1
             value(i) == CASE i = n -> chunk
                           [] i # n /\ i <= Len(file) -> file[i]
                           [] OTHER -> 0
             longer == [i \in 1..n |-> value(i)]
  <2>1. Written(file, append, Len(file) + 1, chunk) = longer
    BY <1>2 DEF Written
  <2>2. Len(file) \in Nat /\ n \in Nat
    OBVIOUS
  <2>3. \A i \in 1..n : value(i) \in Nat
    <3> TAKE i \in 1..n
    <3>1. i \in Nat /\ (i <= Len(file) => i \in 1..Len(file))
      BY <2>2
    <3> QED BY <3>1, ElementOfSeq
  <2> DEFINE appended == Append(file, chunk)
  <2>4. appended \in Seq(Nat) /\ Len(appended) = n
        /\ \A i \in 1..n : appended[i] = IF i = n THEN chunk ELSE file[i]
    BY AppendProperties, <2>2
  <2>5. longer \in Seq(Nat) /\ Len(longer) = n
    <3> HIDE DEF value
    <3>1. longer \in Seq(Nat)
      BY <2>2, <2>3, IsASeq
    <3> QED BY <2>2, <3>1
  <2>6. \A i \in 1..n : longer[i] = appended[i]
    <3> TAKE i \in 1..n
    <3>1. i \in Nat /\ (i = n \/ i <= Len(file))
      BY <2>2
    <3>2. longer[i] = value(i)
      OBVIOUS
    <3> QED BY <3>1, <3>2, <2>4
  <2> HIDE DEF longer, appended, n
  <2>7. longer = appended
    BY <2>4, <2>5, <2>6, SeqEqual
  <2> QED BY <2>1, <2>7 DEF appended
<1> QED BY <1>1, <1>2

LEMMA ReceiveEffect ==
    ASSUME NEW w, Workers = {w}, IInv, Receive(w), Placed(call[w])
    PROVE  /\ call[w].pc = "body" /\ call[w].got < Length /\ UNCHANGED <<complete, digest>>
           /\ call'[w].pc = "body" /\ call'[w].handle = "part"
           /\ call'[w].attempt = call[w].attempt /\ call'[w].got = call[w].got + 1
           /\ call'[w].cancelled => call[w].cancelled
           /\ past \in Histories =>
                 /\ past' \in Histories
                 /\ past'.fetched = past.fetched + 1 /\ past'.crashes = past.crashes
           /\ \E chunk \in {call[w].got + 1, 0} :
                 /\ part' = Append(part, chunk) /\ part \in Seq(Nat) /\ part # Missing
                 /\ call'[w].undisturbed => call[w].undisturbed /\ chunk # 0
                 /\ past \in Histories => (past'.clean => past.clean /\ chunk # 0)
<1>1. w \in Workers /\ call[w] \in Calls /\ call \in [Workers -> Calls] /\ CallInv(call[w])
  BY DEF IInv, CallInv
<1>2. /\ call[w].pc = "body" /\ call[w].got < Length /\ UNCHANGED digest
  BY DEF Receive, Receiving, At
<1>3. call[w].handle = "part" /\ call[w].got = Len(part)
  BY <1>2 DEF Placed
<1>4. part \in Seq(Nat) /\ part # Missing
  BY <1>1, <1>3 DEF IInv, CallInv
<1>5. PICK chunk \in {call[w].got + 1, 0} : Received(w, chunk)
  BY DEF Receive
<1> DEFINE got == call[w].got + 1
           undisturbed == call[w].undisturbed /\ chunk # 0
           clean == past.clean /\ chunk # 0
           fetched == past.fetched + 1
<1>6. part' = Written(part, call[w].append, got, chunk) /\ complete' = complete
  BY <1>3, <1>5 DEF Received
<1>7. Set(w, [call[w] EXCEPT !.got = got, !.undisturbed = undisturbed])
  BY <1>5 DEF Received
<1>8. past' = [past EXCEPT !.fetched = fetched, !.clean = clean]
  BY <1>5 DEF Received
<1>9. /\ got \in Nat /\ chunk \in Nat /\ undisturbed \in BOOLEAN /\ clean \in BOOLEAN
      /\ call[w].append \in BOOLEAN
  BY <1>1 DEF Calls
<1>10. part' = Append(part, chunk)
  BY <1>3, <1>4, <1>6, <1>9, WrittenAtEnd
<1> HIDE DEF undisturbed, clean
<1> DEFINE next == [call[w] EXCEPT !.got = got, !.undisturbed = undisturbed]
<1>11. /\ next \in Calls /\ next.pc = "body" /\ next.handle = "part" /\ next.got = got
       /\ next.attempt = call[w].attempt /\ next.cancelled = call[w].cancelled
       /\ next.undisturbed = undisturbed
  BY <1>1, <1>2, <1>3, <1>9 DEF Calls
<1>12. call'[w] = next
  BY <1>1, <1>7, <1>11, SetCall
<1> HIDE DEF next
<1>13. ASSUME past \in Histories
       PROVE  /\ past' \in Histories
              /\ past'.fetched = past.fetched + 1 /\ past'.crashes = past.crashes
              /\ past'.clean = clean
  <2>1. past.fetched \in Nat /\ past.crashes \in Nat
    BY <1>13 DEF Histories
  <2>2. fetched \in Nat
    BY <2>1
  <2> HIDE DEF fetched
  <2>3. /\ past' \in Histories /\ past'.fetched = fetched
        /\ past'.crashes = past.crashes /\ past'.clean = clean
    BY <1>8, <1>9, <1>13, <2>2 DEF Histories
  <2> QED BY <2>3 DEF fetched
<1>14. (undisturbed => call[w].undisturbed /\ chunk # 0) /\ (clean => past.clean /\ chunk # 0)
  BY DEF undisturbed, clean
<1>15. call'[w].undisturbed = undisturbed
  BY <1>11, <1>12
<1>16. /\ part' = Append(part, chunk) /\ part \in Seq(Nat) /\ part # Missing
       /\ call'[w].undisturbed => call[w].undisturbed /\ chunk # 0
       /\ past \in Histories => (past'.clean => past.clean /\ chunk # 0)
  BY <1>4, <1>10, <1>13, <1>14, <1>15
<1>17. /\ call'[w].pc = "body" /\ call'[w].handle = "part"
       /\ call'[w].attempt = call[w].attempt /\ call'[w].got = call[w].got + 1
       /\ call'[w].cancelled => call[w].cancelled
  BY <1>11, <1>12
<1> QED BY <1>2, <1>6, <1>13, <1>16, <1>17

LEMMA OverrunEffect ==
    ASSUME NEW w, Workers = {w}, IInv, Overrun(w)
    PROVE  /\ call[w].pc = "body" /\ part' = Missing /\ UNCHANGED <<complete, digest>>
           /\ call'[w].pc = "done" /\ ~call'[w].undisturbed
           /\ past \in Histories => past' \in Histories /\ ~past'.clean
<1>1. w \in Workers /\ call[w] \in Calls /\ call \in [Workers -> Calls]
  BY DEF IInv, CallInv
<1>2. /\ call[w].pc = "body" /\ part' = Missing /\ UNCHANGED <<complete, digest>>
      /\ call' = Unlinked([call EXCEPT ![w] = Disturbed(Returned(w, "error"))], "part")
      /\ past' = [past EXCEPT !.clean = FALSE]
  BY DEF Overrun, Receiving, At
<1>3. "error" \in Results
  BY DEF Results
<1>4. Returned(w, "error") \in Calls /\ Moved(call[w], Returned(w, "error"), "done")
  BY <1>1, <1>3, ReturnedKeeps DEF Ended
<1> DEFINE next == Disturbed(Returned(w, "error"))
<1>5. /\ next \in Calls /\ ~next.undisturbed /\ next.pc = "done" /\ next.handle = "none"
  BY <1>4, DisturbedKeeps DEF Moved
<1>6. call'[w] = next
  BY <1>1, <1>2, <1>5, UnlinkedCall
<1> HIDE DEF next
<1> QED BY <1>2, <1>5, <1>6 DEF Histories

LEMMA BreakEffect ==
    ASSUME NEW w, Workers = {w}, IInv, Break(w)
    PROVE  /\ call[w].pc = "body" /\ UNCHANGED <<part, complete, digest, past>>
           /\ ~call'[w].undisturbed /\ Retried(call[w], call'[w], TRUE)
<1>1. w \in Workers /\ call[w] \in Calls /\ call \in [Workers -> Calls]
  BY DEF IInv, CallInv
<1>2. /\ Failed(w, TRUE) \in Calls /\ Retried(call[w], Failed(w, TRUE), TRUE)
  BY <1>1, FailedKeeps
<1>3. call'[w] = Disturbed(Failed(w, TRUE))
  BY <1>1, <1>2, DisturbedKeeps, SetCall DEF Break
<1>4. call[w].pc = "body" /\ UNCHANGED <<part, complete, digest, past>>
  BY DEF Break, Receiving, At
<1> QED BY <1>2, <1>3, <1>4, DisturbedKeeps

LEMMA BodyEndsEffect ==
    ASSUME NEW w, Workers = {w}, IInv, BodyEnds(w)
    PROVE  /\ call[w].pc = "body" /\ UNCHANGED <<part, complete, digest, past>>
           /\ \/ call[w].got = Length /\ Moved(call[w], call'[w], "verify")
              \/ ~call'[w].undisturbed /\ Retried(call[w], call'[w], TRUE)
<1>1. w \in Workers /\ call[w] \in Calls /\ call \in [Workers -> Calls]
  BY DEF IInv, CallInv
<1>2. call[w].pc = "body" /\ UNCHANGED <<part, complete, digest, past>>
  BY DEF BodyEnds, Receiving, At
<1>3. CASE call[w].got = Length
  <2>1. Set(w, Goes(w, "verify")) /\ "verify" \in Places
    BY <1>3 DEF BodyEnds, Places
  <2> QED BY <1>1, <1>2, <1>3, <2>1, GoesKeeps, SetCall
<1>4. CASE call[w].got # Length
  <2>1. /\ Failed(w, TRUE) \in Calls /\ Retried(call[w], Failed(w, TRUE), TRUE)
    BY <1>1, FailedKeeps
  <2>2. Set(w, Disturbed(Failed(w, TRUE)))
    BY <1>4 DEF BodyEnds
  <2>3. call'[w] = Disturbed(Failed(w, TRUE))
    BY <1>1, <2>1, <2>2, DisturbedKeeps, SetCall
  <2> QED BY <1>2, <2>1, <2>3, DisturbedKeeps
<1> QED BY <1>3, <1>4

LEMMA StopEffect ==
    ASSUME NEW w, Workers = {w}, IInv, Stop(w)
    PROVE  /\ call[w].pc = "body" /\ call[w].cancelled
           /\ UNCHANGED <<part, complete, digest, past>>
           /\ Ended(call[w], call'[w], "cancelled")
<1>1. w \in Workers /\ call[w] \in Calls /\ call \in [Workers -> Calls]
  BY DEF IInv, CallInv
<1>2. Set(w, Returned(w, "cancelled")) /\ "cancelled" \in Results
  BY DEF Stop, Results
<1>3. call[w].pc = "body" /\ call[w].cancelled /\ UNCHANGED <<part, complete, digest, past>>
  BY DEF Stop, At
<1> QED BY <1>1, <1>2, <1>3, ReturnedKeeps, SetCall

LEMMA VerifyEffect ==
    ASSUME NEW w, Workers = {w}, IInv, Verify(w)
    PROVE  /\ call[w].pc = "verify" /\ UNCHANGED <<complete, digest, past>>
           /\ \/ Acceptable(part) /\ Moved(call[w], call'[w], "rename") /\ UNCHANGED part
              \/ /\ ~Acceptable(part) /\ part' = Missing
                 /\ Retried(call[w], call'[w], part # Missing)
<1>1. w \in Workers /\ call[w] \in Calls /\ call \in [Workers -> Calls]
  BY DEF IInv, CallInv
<1>2. call[w].pc = "verify" /\ UNCHANGED <<complete, digest, past>>
  BY DEF Verify, VerifyWith, At
<1>3. CASE Acceptable(part)
  <2>1. Set(w, Goes(w, "rename")) /\ UNCHANGED part /\ "rename" \in Places
    BY <1>3 DEF Verify, VerifyWith, Places
  <2> QED BY <1>1, <1>2, <1>3, <2>1, GoesKeeps, SetCall
<1>4. CASE ~Acceptable(part)
  <2> DEFINE retryable == part # Missing
  <2>1. call' = Unlinked([call EXCEPT ![w] = Failed(w, retryable)], "part")
        /\ part' = Missing
    BY <1>4 DEF Verify, VerifyWith
  <2>2. retryable \in BOOLEAN
    OBVIOUS
  <2> HIDE DEF retryable
  <2>3. Failed(w, retryable) \in Calls /\ Retried(call[w], Failed(w, retryable), retryable)
    BY <1>1, <2>2, FailedKeeps
  <2>4. Failed(w, retryable).handle = "none"
    BY <2>3 DEF Retried, Ended, Moved
  <2>5. call'[w] = Failed(w, retryable)
    BY <1>1, <2>1, <2>3, <2>4, UnlinkedCall
  <2> QED BY <1>2, <1>4, <2>1, <2>3, <2>5 DEF retryable
<1> QED BY <1>3, <1>4

LEMMA RenameEffect ==
    ASSUME NEW w, Workers = {w}, IInv, Rename(w)
    PROVE  /\ call[w].pc = "rename" /\ Acceptable(part) /\ part # Missing
           /\ complete' = part /\ part' = Missing /\ UNCHANGED <<digest, past>>
           /\ Ended(call[w], call'[w], "ok")
<1>1. w \in Workers /\ call[w] \in Calls /\ call \in [Workers -> Calls] /\ CallInv(call[w])
  BY DEF IInv, CallInv
<1>2. call[w].pc = "rename" /\ Acceptable(part) /\ part # Missing
  BY <1>1 DEF Rename, At, CallInv, Acceptable
<1>3. /\ call' = Renamed([call EXCEPT ![w] = Returned(w, "ok")])
      /\ complete' = part /\ part' = Missing /\ UNCHANGED <<digest, past>>
  BY <1>2 DEF Rename
<1>4. "ok" \in Results
  BY DEF Results
<1>5. Returned(w, "ok") \in Calls /\ Ended(call[w], Returned(w, "ok"), "ok")
  BY <1>1, <1>4, ReturnedKeeps
<1>6. call'[w] = Returned(w, "ok")
  BY <1>1, <1>3, <1>5, RenamedCall DEF Ended, Moved
<1> QED BY <1>2, <1>3, <1>5, <1>6

LEMMA StartEffect ==
    ASSUME NEW w, Workers = {w}, IInv, Start(w)
    PROVE  /\ UNCHANGED <<part, complete, digest>>
           /\ call'[w].pc = "look" /\ call'[w].attempt = 0 /\ ~call'[w].cancelled
           /\ past \in Histories =>
                 past' \in Histories /\ past'.clean = past.clean
                 /\ past'.fetched = past.fetched /\ past'.crashes = past.crashes
<1> DEFINE next == [NoCall EXCEPT !.pc = "look", !.undisturbed = TRUE]
<1>1. next \in Calls /\ next.pc = "look" /\ next.attempt = 0 /\ ~next.cancelled
  BY DEF NoCall, Calls, Places, Handles, Results
<1>2. Set(w, next) /\ UNCHANGED <<part, complete, digest>>
      /\ past' = [past EXCEPT !.calls = @ + 1]
  BY DEF Start
<1> HIDE DEF next
<1>3. call'[w] = next
  BY <1>1, <1>2, SetCall DEF IInv
<1> QED BY <1>1, <1>2, <1>3 DEF Histories

LEMMA CancelEffect ==
    ASSUME NEW w, Workers = {w}, IInv, Cancel(w)
    PROVE  /\ UNCHANGED <<part, complete, digest, past>>
           /\ ~call'[w].undisturbed
           /\ call'[w].pc = call[w].pc /\ call'[w].handle = call[w].handle
           /\ call'[w].attempt = call[w].attempt /\ call'[w].existing = call[w].existing
           /\ call'[w].got = call[w].got
<1> DEFINE cancelled == [call[w] EXCEPT !.cancelled = TRUE]
<1>1. w \in Workers /\ call[w] \in Calls /\ call \in [Workers -> Calls]
  BY DEF IInv, CallInv
<1>2. /\ cancelled \in Calls /\ cancelled.pc = call[w].pc
      /\ cancelled.handle = call[w].handle /\ cancelled.attempt = call[w].attempt
      /\ cancelled.existing = call[w].existing /\ cancelled.got = call[w].got
  BY <1>1 DEF Calls
<1>3. Set(w, Disturbed(cancelled)) /\ UNCHANGED <<part, complete, digest, past>>
  BY DEF Cancel
<1> HIDE DEF cancelled
<1> DEFINE next == Disturbed(cancelled)
<1>4. /\ next \in Calls /\ ~next.undisturbed /\ next.pc = cancelled.pc
      /\ next.handle = cancelled.handle /\ next.attempt = cancelled.attempt
      /\ next.existing = cancelled.existing /\ next.got = cancelled.got
  BY <1>2 DEF Disturbed, Calls
<1>5. call'[w] = next
  BY <1>1, <1>3, <1>4, SetCall
<1> HIDE DEF next
<1> QED BY <1>2, <1>3, <1>4, <1>5

-----------------------------------------------------------------------------
(* Every action keeps what Placed, Promising and Clean say *)

LEMMA CallTyped ==
    ASSUME NEW w \in Workers, IInv
    PROVE  /\ call[w].attempt \in Nat /\ call[w].existing \in Nat /\ call[w].got \in Nat
           /\ Length \in Nat \ {0} /\ MaxAttempts \in Nat \ {0}
           /\ part # Missing => part \in Seq(Nat) /\ Len(part) \in Nat
           /\ Size(part) \in Nat /\ Missing \notin Seq(Nat)
BY DownloadAssumption DEF IInv, CallInv, Calls, Size

LEMMA EmptyFile ==
    Upto(<<>>, Len(<<>>)) /\ Len(<<>>) = 0 /\ Size(<<>>) = 0
<1>1. <<>> \in Seq(Nat) /\ Len(<<>>) = 0
  OBVIOUS
<1>2. <<>> # Missing
  BY <1>1, DownloadAssumption
<1> QED BY <1>1, <1>2 DEF Upto, Size

\* One more chunk of the artifact, at its place
LEMMA UptoAppend ==
    ASSUME NEW file \in Seq(Nat), Upto(file, Len(file))
    PROVE  Upto(Append(file, Len(file) + 1), Len(file) + 1)
<1> DEFINE longer == Append(file, Len(file) + 1)
<1>1. /\ longer \in Seq(Nat) /\ Len(longer) = Len(file) + 1 /\ Len(file) \in Nat
      /\ \A i \in 1..Len(file) : longer[i] = file[i]
      /\ longer[Len(file) + 1] = Len(file) + 1
  BY AppendProperties
<1>2. longer # Missing
  BY <1>1, DownloadAssumption
<1> HIDE DEF longer
<1>3. \A i \in 1..Len(file) + 1 : longer[i] = i
  <2> TAKE i \in 1..Len(file) + 1
  <2>1. i \in 1..Len(file) \/ i = Len(file) + 1
    BY <1>1
  <2> QED BY <1>1, <2>1 DEF Upto
<1> QED BY <1>1, <1>2, <1>3 DEF Upto, longer

\* A file of all the chunks is accepted, by its digest as well.
LEMMA UptoIsAcceptable ==
    ASSUME NEW file \in Seq(Nat), Upto(file, Length)
    PROVE  Acceptable(file)
<1>1. Length \in Nat
  BY DownloadAssumption
<1>2. file = Artifact
  <2>1. file = [i \in 1..Len(file) |-> file[i]]
    OBVIOUS
  <2>2. \A i \in 1..Length : file[i] = i
    BY DEF Upto
  <2> QED BY <2>1, <2>2 DEF Upto, Artifact
<1> QED BY <1>2 DEF Acceptable, Upto

LEMMA PlacedWork ==
    ASSUME NEW w, Workers = {w}, IInv, Placed(call[w]), Work(w)
    PROVE  Placed(call[w])'
<1>1. w \in Workers
  OBVIOUS
<1>t. /\ call[w].attempt \in Nat /\ call[w].existing \in Nat /\ call[w].got \in Nat
      /\ Length \in Nat \ {0} /\ Size(part) \in Nat
      /\ call'[w].handle = "part" => part' # Missing
  <2>1. IInv'
    BY WorkInv
  <2> QED BY <1>1, <2>1, CallTyped DEF IInv, CallInv
<1>2. CASE Look(w)
  BY <1>2, LookEffect DEF Placed, Moved, Ended, Kept, Acceptable
<1>3. CASE Discard(w)
  BY <1>3, DiscardEffect DEF Placed, Moved, Ended, Kept
<1>4. CASE Attempt(w)
  <2>1. /\ call[w].pc = "attempt" /\ complete' = Missing /\ call'[w].pc # "discard"
        /\ call'[w].pc # "body"
    BY <1>4, AttemptEffect DEF Placed, Ended, Moved, Attempted
  <2>2. call'[w].pc = "request" => call'[w].existing = Size(part') /\ Size(part') < Length
    BY <1>4, <1>t, AttemptEffect DEF Ended, Moved, Attempted, Size
  <2>3. /\ call'[w].pc = "verify" => part' # Missing /\ Len(part') = Length
        /\ call'[w].pc \in {"request", "verify"} => call'[w].attempt > 0
    BY <1>4, <1>t, AttemptEffect DEF Ended, Moved, Attempted, Size
  <2> QED BY <2>1, <2>2, <2>3 DEF Placed, Size
<1>5. CASE Refuse(w)
  BY <1>5, RefuseEffect DEF Placed, Retried, Ended, Moved
<1>6. CASE Answer(w)
  <2>1. PICK ranged \in BOOLEAN, append \in BOOLEAN :
          /\ call[w].existing > 0 => append = ranged
          /\ part' = IF append /\ part # Missing THEN part ELSE <<>>
          /\ call'[w].got = IF append THEN call[w].existing ELSE 0
    BY <1>6, AnswerEffect
  <2>2. call[w].pc = "request" /\ call[w].existing = Size(part) /\ complete = Missing
    BY <1>6, AnswerEffect DEF Placed
  <2>3. call'[w].got = Len(part')
    BY <2>1, <2>2 DEF Size
  <2>4. Size(part) < Length
    BY <2>2 DEF Placed
  <2>5. /\ call'[w].pc = "body" /\ call'[w].handle = "part" /\ complete' = complete
        /\ call'[w].attempt = call[w].attempt
    BY <1>6, AnswerEffect
  <2>6. call'[w].got <= Length
    BY <1>t, <2>1, <2>2, <2>4
  <2>7. call[w].attempt > 0
    BY <2>2 DEF Placed
  <2> QED BY <1>t, <2>2, <2>3, <2>5, <2>6, <2>7 DEF Placed
<1>7. CASE Receive(w)
  <2>1. PICK chunk : part' = Append(part, chunk) /\ part \in Seq(Nat) /\ part # Missing
    BY <1>7, ReceiveEffect
  <2>2. Len(part') = Len(part) + 1
    BY <2>1
  <2>3. /\ call[w].pc = "body" /\ call[w].got < Length /\ complete' = complete
        /\ call'[w].pc = "body" /\ call'[w].handle = "part"
        /\ call'[w].attempt = call[w].attempt /\ call'[w].got = call[w].got + 1
    BY <1>7, ReceiveEffect
  <2> QED BY <1>t, <2>2, <2>3 DEF Placed
<1>8. CASE Overrun(w)
  BY <1>8, OverrunEffect DEF Placed
<1>9. CASE Break(w)
  BY <1>9, BreakEffect DEF Placed, Retried, Ended, Moved
<1>10. CASE BodyEnds(w)
  BY <1>10, BodyEndsEffect DEF Placed, Retried, Ended, Moved, Kept
<1>11. CASE Stop(w)
  BY <1>11, StopEffect DEF Placed, Ended, Moved
<1>12. CASE Verify(w)
  BY <1>12, VerifyEffect DEF Placed, Retried, Ended, Moved
<1>13. CASE Rename(w)
  BY <1>13, RenameEffect DEF Placed, Ended, Moved
<1> QED BY <1>2, <1>3, <1>4, <1>5, <1>6, <1>7, <1>8, <1>9, <1>10, <1>11, <1>12, <1>13
        DEF Work

LEMMA PromisingWork ==
    ASSUME NEW w, Workers = {w}, IInv, Placed(call[w]), Promising(call[w]), Work(w),
           MaxAttempts >= 2
    PROVE  Promising(call[w])'
<1>t. /\ call[w].attempt \in Nat /\ call[w].existing \in Nat /\ call[w].got \in Nat
      /\ Length \in Nat \ {0} /\ MaxAttempts \in Nat /\ Size(part) \in Nat
      /\ part # Missing => part \in Seq(Nat) /\ Len(part) \in Nat
  BY CallTyped
<1>2. CASE Look(w)
  BY <1>2, <1>t, LookEffect DEF Promising, Moved, Ended, Kept
<1>3. CASE Discard(w)
  BY <1>3, <1>t, DiscardEffect DEF Placed, Promising, Moved, Ended, Kept
<1>4. CASE Attempt(w)
  <2>1. CASE call[w].cancelled
    BY <1>4, <2>1, AttemptEffect DEF Promising, Ended, Moved, Kept
  <2>2. CASE call'[w].undisturbed /\ ~call[w].cancelled
    <3>1. /\ call'[w].attempt = call[w].attempt + 1 /\ ~call'[w].cancelled
          /\ call'[w].pc \in {"request", "verify"} /\ call[w].pc = "attempt"
          /\ call[w].undisturbed
      BY <1>4, <2>2, AttemptEffect DEF Attempted
    <3>2. call[w].attempt = 0 \/ (call[w].attempt = 1 /\ part = Missing)
      BY <3>1 DEF Promising
    <3>3. part = Missing => part' = Missing /\ call'[w].pc = "request"
      BY <1>4, <2>2, <1>t, AttemptEffect DEF Attempted, Size
    <3> QED BY <3>1, <3>2, <3>3 DEF Promising
  <2> QED BY <2>1, <2>2 DEF Promising
<1>5. CASE Refuse(w)
  BY <1>5, RefuseEffect DEF Promising
<1>6. CASE Answer(w)
  <2>1. PICK append \in BOOLEAN : part' = IF append /\ part # Missing THEN part ELSE <<>>
    BY <1>6, AnswerEffect
  <2>2. /\ call[w].pc = "request" /\ call'[w].pc = "body"
        /\ call'[w].attempt = call[w].attempt
        /\ call'[w].cancelled => call[w].cancelled
        /\ call'[w].undisturbed => call[w].undisturbed
    BY <1>6, AnswerEffect
  <2>3. part = Missing => Upto(part', Len(part'))
    BY <2>1, EmptyFile
  <2> QED BY <2>2, <2>3 DEF Promising
<1>7. CASE Receive(w)
  <2>1. PICK chunk \in {call[w].got + 1, 0} :
          /\ part' = Append(part, chunk) /\ part \in Seq(Nat) /\ part # Missing
          /\ call'[w].undisturbed => call[w].undisturbed /\ chunk # 0
    BY <1>7, ReceiveEffect
  <2>2. /\ call[w].pc = "body" /\ call'[w].pc = "body"
        /\ call'[w].attempt = call[w].attempt
        /\ call'[w].cancelled => call[w].cancelled
        /\ call[w].got = Len(part)
    BY <1>7, ReceiveEffect DEF Placed
  <2>3. call'[w].undisturbed /\ Upto(part, Len(part)) => Upto(part', Len(part'))
    <3>1. Len(Append(part, chunk)) = Len(part) + 1
      BY <2>1
    <3> QED BY <2>1, <2>2, <3>1, UptoAppend
  <2> QED BY <2>1, <2>2, <2>3 DEF Promising
<1>8. CASE Overrun(w)
  BY <1>8, OverrunEffect DEF Promising
<1>9. CASE Break(w)
  BY <1>9, BreakEffect DEF Promising
<1>10. CASE BodyEnds(w)
  BY <1>10, BodyEndsEffect DEF Promising, Moved, Kept
<1>11. CASE Stop(w)
  BY <1>11, StopEffect DEF Promising, Ended, Moved, Kept
<1>12. CASE Verify(w)
  <2>1. CASE Acceptable(part)
    BY <1>12, <2>1, VerifyEffect DEF Promising, Moved, Kept
  <2>2. CASE ~Acceptable(part)
    <3>1. part \in Seq(Nat) /\ part # Missing /\ Len(part) = Length /\ call[w].pc = "verify"
      BY <1>12, <1>t, VerifyEffect DEF Placed
    <3>2. call[w].undisturbed => call[w].attempt = 1
      BY <2>2, <3>1, UptoIsAcceptable DEF Promising
    <3>3. part' = Missing /\ Retried(call[w], call'[w], TRUE)
      BY <1>12, <2>2, <3>1, VerifyEffect
    <3>4. CASE ~call[w].undisturbed
      BY <3>3, <3>4 DEF Retried, Promising, Ended, Moved, Kept
    <3>5. CASE call[w].undisturbed
      <4>1. Moved(call[w], call'[w], "attempt")
        BY <3>2, <3>3, <3>5, <1>t DEF Retried
      <4> QED BY <3>1, <3>2, <3>3, <3>5, <4>1 DEF Promising, Moved, Kept
    <3> QED BY <3>4, <3>5
  <2> QED BY <2>1, <2>2
<1>13. CASE Rename(w)
  BY <1>13, RenameEffect DEF Promising, Ended, Moved, Kept
<1> QED BY <1>2, <1>3, <1>4, <1>5, <1>6, <1>7, <1>8, <1>9, <1>10, <1>11, <1>12, <1>13
        DEF Work

\* Nothing about what was fetched changes with the call alone.
LEMMA FilesStay ==
    ASSUME FilesInv, UNCHANGED <<part, complete, past>>
    PROVE  FilesInv'
BY DEF FilesInv, Clean, Upto, Size

LEMMA FilesWork ==
    ASSUME NEW w, Workers = {w}, IInv, Placed(call[w]), FilesInv, Work(w)
    PROVE  FilesInv'
<1>t. /\ call[w].attempt \in Nat /\ call[w].existing \in Nat /\ call[w].got \in Nat
      /\ Length \in Nat \ {0} /\ Size(part) \in Nat
      /\ part # Missing => part \in Seq(Nat) /\ Len(part) \in Nat
      /\ past.fetched \in Nat /\ past.crashes \in Nat
      /\ Missing \notin Seq(Nat)
  BY CallTyped DEF FilesInv, Histories
<1>2. CASE Look(w)
  BY <1>2, LookEffect, FilesStay
<1>3. CASE Discard(w)
  <2>1. call[w].pc = "discard" /\ complete' = Missing /\ UNCHANGED <<part, past>>
    BY <1>3, DiscardEffect
  <2>2. complete # Missing /\ ~Acceptable(complete)
    BY <2>1 DEF Placed
  <2>3. ~past.clean
    BY <2>2, UptoIsAcceptable DEF FilesInv, Clean
  <2> QED BY <2>1, <2>3 DEF FilesInv, Clean
<1>4. CASE Attempt(w)
  <2>1. call[w].pc = "attempt" /\ UNCHANGED <<complete, past>>
    BY <1>4, AttemptEffect
  <2>2. CASE UNCHANGED part
    BY <2>1, <2>2, FilesStay
  <2>3. CASE Size(part) > Length
    <3>1. complete = Missing /\ ~past.clean
      BY <2>1, <2>3, <1>t DEF Placed, FilesInv, Clean, Upto, Size
    <3> QED BY <2>1, <3>1 DEF FilesInv, Clean
  <2> QED BY <1>4, <2>2, <2>3, AttemptEffect
<1>5. CASE Refuse(w)
  BY <1>5, RefuseEffect, FilesStay
<1>6. CASE Answer(w)
  <2>1. PICK ranged \in BOOLEAN, append \in BOOLEAN :
          /\ call[w].existing > 0 => append = ranged
          /\ part' = IF append /\ part # Missing THEN part ELSE <<>>
          /\ past' \in Histories
          /\ past'.fetched = past.fetched /\ past'.crashes = past.crashes
          /\ past'.clean => past.clean /\ (call[w].existing > 0 => ranged)
    BY <1>6, AnswerEffect DEF FilesInv
  <2>2. call[w].pc = "request" /\ complete' = complete
    BY <1>6, AnswerEffect
  <2>3. call[w].existing = Size(part) /\ complete = Missing
    BY <2>2 DEF Placed
  <2>4. CASE past'.clean
    <3>1. past.clean /\ (Size(part) > 0 => append /\ part # Missing)
      BY <2>1, <2>3, <2>4 DEF Size
    <3>2. /\ part # Missing => Upto(part, Len(part)) /\ Len(part) <= Length
          /\ past.fetched <= Size(part) + past.crashes
      BY <3>1, <2>3, <1>t DEF FilesInv, Clean, Upto
    <3>3. CASE part' = part
      BY <2>1, <2>2, <2>3, <3>1, <3>2, <3>3 DEF FilesInv, Clean
    <3>4. CASE part' = <<>> /\ Size(part) = 0
      <4>1. Upto(<<>>, Len(<<>>)) /\ Len(<<>>) <= Length /\ Size(<<>>) = 0
        BY <1>t, EmptyFile
      <4>2. Size(part') = Size(part)
        BY <3>4, <4>1
      <4> QED BY <2>1, <2>2, <2>3, <3>2, <3>4, <4>1, <4>2 DEF FilesInv, Clean
    <3> QED BY <2>1, <3>1, <3>3, <3>4, <1>t
  <2>5. CASE ~past'.clean
    BY <2>1, <2>2, <2>3, <2>5 DEF FilesInv, Clean
  <2> QED BY <2>4, <2>5
<1>7. CASE Receive(w)
  <2>1. PICK chunk \in {call[w].got + 1, 0} :
          /\ part' = Append(part, chunk) /\ part \in Seq(Nat) /\ part # Missing
          /\ past'.clean => past.clean /\ chunk # 0
    BY <1>7, ReceiveEffect DEF FilesInv
  <2>2. /\ past' \in Histories
        /\ past'.fetched = past.fetched + 1 /\ past'.crashes = past.crashes
        /\ call[w].pc = "body" /\ call[w].got < Length /\ complete' = complete
    BY <1>7, ReceiveEffect DEF FilesInv
  <2>3. complete = Missing /\ call[w].got = Len(part)
    BY <2>2 DEF Placed
  <2>4. CASE past'.clean
    <3>1. chunk = Len(part) + 1
      BY <2>1, <2>3, <2>4
    <3>2. /\ Upto(part, Len(part)) /\ past.fetched <= Size(part) + past.crashes
      BY <2>1, <2>4, <2>3, <1>t DEF FilesInv, Clean, Upto
    <3>3. Upto(part', Len(part')) /\ Len(part') = Len(part) + 1 /\ part' # Missing
      <4>1. Len(part') = Len(part) + 1
        BY <2>1
      <4> QED BY <2>1, <3>1, <3>2, <4>1, UptoAppend DEF Upto
    <3>4. Size(part') = Size(part) + 1
      BY <2>1, <3>3 DEF Size
    <3>5. /\ past'.fetched <= Size(part') + past'.crashes /\ Len(part') <= Length
      BY <1>t, <2>1, <2>2, <2>3, <3>2, <3>3, <3>4
    <3> QED BY <2>2, <2>3, <3>3, <3>5 DEF FilesInv, Clean
  <2>5. CASE ~past'.clean
    BY <2>2, <2>3, <2>5 DEF FilesInv, Clean
  <2> QED BY <2>4, <2>5
<1>8. CASE Overrun(w)
  BY <1>8, OverrunEffect DEF FilesInv, Clean
<1>9. CASE Break(w)
  BY <1>9, BreakEffect, FilesStay
<1>10. CASE BodyEnds(w)
  BY <1>10, BodyEndsEffect, FilesStay
<1>11. CASE Stop(w)
  BY <1>11, StopEffect, FilesStay
<1>12. CASE Verify(w)
  <2>1. call[w].pc = "verify" /\ UNCHANGED <<complete, past>>
    BY <1>12, VerifyEffect
  <2>2. part # Missing /\ Len(part) = Length /\ complete = Missing
    BY <2>1 DEF Placed
  <2>3. CASE UNCHANGED part
    BY <2>1, <2>3, FilesStay
  <2>4. CASE ~Acceptable(part) /\ part' = Missing
    <3>1. ~past.clean
      BY <2>2, <2>4, <1>t, UptoIsAcceptable DEF FilesInv, Clean, Upto
    <3> QED BY <2>1, <2>2, <3>1 DEF FilesInv, Clean
  <2> QED BY <1>12, <2>3, <2>4, VerifyEffect
<1>13. CASE Rename(w)
  <2>1. /\ call[w].pc = "rename" /\ Acceptable(part) /\ part # Missing
        /\ complete' = part /\ part' = Missing /\ UNCHANGED past
    BY <1>13, RenameEffect
  <2>2. complete = Missing /\ Len(part) = Length
    BY <2>1 DEF Placed, Acceptable
  <2>3. past.clean => Upto(part, Length) /\ past.fetched <= Length + past.crashes
    BY <2>1, <2>2, <1>t DEF FilesInv, Clean, Upto, Size
  <2>4. past.clean => Clean'
    BY <2>1, <2>3 DEF Clean
  <2> QED BY <2>1, <2>4, <1>t DEF FilesInv, Clean
<1> QED BY <1>2, <1>3, <1>4, <1>5, <1>6, <1>7, <1>8, <1>9, <1>10, <1>11, <1>12, <1>13
        DEF Work

\* A kill costs the .part file one chunk at most.
LEMMA CrashFiles ==
    ASSUME FilesInv, part \in Seq(Nat) \cup {Missing}, Crash
    PROVE  FilesInv'
<1>1. PICK w \in Workers : part' \in Killed(part, w)
  BY DEF Crash
<1>2. past' = [past EXCEPT !.crashes = @ + 1] /\ complete' = complete
  BY DEF Crash
<1>3. /\ past' \in Histories /\ past'.fetched = past.fetched /\ past'.clean = past.clean
      /\ past'.crashes = past.crashes + 1
      /\ past.fetched \in Nat /\ past.crashes \in Nat /\ Length \in Nat
  <2> DEFINE crashes == past.crashes + 1
  <2>1. past \in Histories /\ past.fetched \in Nat /\ past.crashes \in Nat
        /\ crashes \in Nat /\ Length \in Nat
    BY DownloadAssumption DEF FilesInv, Histories
  <2>2. past' = [past EXCEPT !.crashes = crashes]
    BY <1>2
  <2> HIDE DEF crashes
  <2>3. /\ past' \in Histories /\ past'.fetched = past.fetched /\ past'.clean = past.clean
        /\ past'.crashes = crashes
    BY <2>1, <2>2 DEF Histories
  <2> QED BY <2>1, <2>3 DEF crashes
<1>4. CASE part' = part
  <2>1. Size(part) \in Nat
    BY DEF Size
  <2> QED BY <1>2, <1>3, <1>4, <2>1 DEF FilesInv, Clean
<1>5. CASE part \in Seq(Nat) /\ part # Missing /\ part # <<>>
           /\ part' = SubSeq(part, 1, Len(part) - 1)
  <2>1. Len(part) \in Nat \ {0} /\ \A i \in 1 .. Len(part) - 1 : part[i] \in Nat
    BY <1>5, ElementOfSeq, EmptySeq
  <2> DEFINE n == Len(part) - 1
             prefix == SubSeq(part, 1, n)
  <2>a. n \in Nat /\ n \in Int /\ 1 \in Int /\ \A i \in 1..n : part[i] \in Nat
    BY <2>1
  <2>b. part' = prefix
    BY <1>5
  <2>c. /\ prefix \in Seq(Nat) /\ Len(prefix) = IF 1 <= n THEN n - 1 + 1 ELSE 0
        /\ \A i \in 1 .. n - 1 + 1 : prefix[i] = part[1 + i - 1]
    <3> HIDE DEF n
    <3> QED BY <2>a, SubSeqProperties
  <2>d. \A i \in 1..n : i \in 1 .. n - 1 + 1 /\ 1 + i - 1 = i
    BY <2>a
  <2>2. /\ part' \in Seq(Nat) /\ Len(part') = Len(part) - 1
        /\ \A i \in 1 .. Len(part) - 1 : part'[i] = part[i]
    <3>1. Len(prefix) = n
      <4> HIDE DEF n, prefix
      <4> QED BY <2>a, <2>c
    <3>2. \A i \in 1..n : prefix[i] = part[i]
      <4> HIDE DEF n, prefix
      <4> QED BY <2>a, <2>c, <2>d
    <3> QED BY <2>b, <2>c, <3>1, <3>2
  <2> HIDE DEF prefix
  <2>3. part' # Missing
    BY <2>2, DownloadAssumption
  <2>4. CASE past.clean
    <3>1. /\ complete = Missing /\ Upto(part, Len(part)) /\ Len(part) <= Length
          /\ past.fetched <= Len(part) + past.crashes
      BY <1>5, <2>4 DEF FilesInv, Clean, Size
    <3>2. Upto(part', Len(part'))
      BY <2>1, <2>2, <2>3, <3>1 DEF Upto
    <3>3. past'.fetched <= Size(part') + past'.crashes /\ Len(part') <= Length
      BY <1>3, <2>1, <2>2, <2>3, <3>1 DEF Size
    <3> QED BY <1>2, <1>3, <3>1, <3>2, <3>3 DEF FilesInv, Clean
  <2>5. CASE ~past.clean
    BY <1>2, <1>3, <2>5 DEF FilesInv, Clean
  <2> QED BY <2>4, <2>5
<1> QED BY <1>1, <1>4, <1>5 DEF Killed

LEMMA DiskInit == Init => DiskInv
<1> SUFFICES ASSUME Init PROVE DiskInv
  OBVIOUS
<1>1. IInv
  BY InitInv
<1>2. complete \in Seq(Nat) \cup {Missing}
  <2>1. Length \in Nat
    BY DownloadAssumption
  <2>2. [i \in 1..Length |-> 0] \in Seq(Nat)
    BY <2>1
  <2> QED BY <2>2 DEF Init
<1>3. past \in Histories /\ (past.clean => part = Missing /\ complete = Missing)
      /\ past.fetched = 0 /\ past.crashes = 0
  BY DEF Init, Histories
<1>4. Clean
  BY <1>3 DEF Clean, Size
<1>5. \A w \in Workers : Placed(call[w])
  BY DEF Init, NoCall, Placed
<1> QED BY <1>1, <1>2, <1>3, <1>4, <1>5 DEF DiskInv, FilesInv

LEMMA DiskNext ==
    ASSUME NEW worker, Workers = {worker}, DiskInv, IInv', [Next]_vars
    PROVE  DiskInv'
<1>1. ASSUME NEW w \in Workers, Start(w) PROVE DiskInv'
  <2>1. Workers = {w} /\ IInv /\ FilesInv
    BY DEF DiskInv
  <2>2. FilesInv'
    BY <1>1, <2>1, StartEffect DEF FilesInv, Clean, Upto, Size
  <2>3. Placed(call[w])'
    BY <1>1, <2>1, StartEffect DEF Placed
  <2> QED BY <2>1, <2>2, <2>3 DEF DiskInv
<1>2. ASSUME NEW w \in Workers, Cancel(w) PROVE DiskInv'
  <2>1. Workers = {w} /\ IInv /\ FilesInv /\ Placed(call[w])
    BY DEF DiskInv
  <2>2. FilesInv'
    BY <1>2, <2>1, CancelEffect, FilesStay
  <2>3. Placed(call[w])'
    BY <1>2, <2>1, CancelEffect DEF Placed, Acceptable, Size
  <2> QED BY <2>1, <2>2, <2>3 DEF DiskInv
<1>3. ASSUME NEW w \in Workers, Work(w) PROVE DiskInv'
  <2>1. Workers = {w} /\ IInv /\ FilesInv /\ Placed(call[w])
    BY DEF DiskInv
  <2> QED BY <1>3, <2>1, FilesWork, PlacedWork DEF DiskInv
<1>4. CASE Crash
  <2>1. FilesInv'
    BY <1>4, CrashFiles DEF DiskInv, IInv
  <2>2. \A w \in Workers : Placed(call[w])'
    BY <1>4 DEF Crash, NoCall, Placed
  <2> QED BY <2>1, <2>2 DEF DiskInv
<1>5. CASE UNCHANGED vars
  BY <1>5 DEF vars, DiskInv, FilesInv, Clean, Upto, Placed, Acceptable, Size
<1> QED BY <1>1, <1>2, <1>3, <1>4, <1>5 DEF Next

THEOREM DiskInvariance ==
    ASSUME NEW worker, Workers = {worker}
    PROVE  Spec => []DiskInv
<1>1. DiskInv /\ IInv' /\ [Next]_vars => DiskInv'
  BY DiskNext
<1> QED BY <1>1, DiskInit, Invariance, PTL DEF Spec

\* Of a server that serves ranges nothing is fetched twice (lib.rs 330-435,
\* the Range request and the append), but one chunk for each kill: for every
\* length, every number of attempts, failures, cancellations and kills.
THEOREM ResumingFetchesOnce ==
    ASSUME NEW worker, Workers = {worker}
    PROVE  Spec => []ResumeFetchesOnce
<1>1. DiskInv => ResumeFetchesOnce
  <2> SUFFICES ASSUME DiskInv, past.clean PROVE past.fetched <= Length + past.crashes
    BY DEF ResumeFetchesOnce
  <2>1. past.fetched \in Nat /\ past.crashes \in Nat /\ Length \in Nat
    BY DownloadAssumption DEF DiskInv, FilesInv, Histories
  <2>2. \/ Size(part) <= Length /\ Size(part) \in Nat
           /\ past.fetched <= Size(part) + past.crashes
        \/ past.fetched <= Length + past.crashes
    BY <2>1 DEF DiskInv, IInv, FilesInv, Clean, Size
  <2> QED BY <2>1, <2>2
<1> QED BY <1>1, DiskInvariance, PTL

\* A call that gets right answers and is not cancelled succeeds, whatever was
\* in the directory (lib.rs 224-330, the attempts): what was wrong in the .part
\* file costs one attempt, so that two are enough.  The code allows four.
THEOREM GoodServerIsEnough ==
    ASSUME NEW worker, Workers = {worker}, MaxAttempts >= 2
    PROVE  Spec => []GoodServerSucceeds
<1> DEFINE Inv == \A w \in Workers : Promising(call[w])
<1>1. Init => Inv
  BY DEF Init, NoCall, Promising
<1>2. DiskInv /\ Inv /\ [Next]_vars => Inv'
  <2> SUFFICES ASSUME DiskInv, Inv, [Next]_vars PROVE Inv'
    OBVIOUS
  <2>1. ASSUME NEW w \in Workers, Start(w) PROVE Inv'
    <3>1. Workers = {w} /\ IInv
      BY DEF DiskInv
    <3> QED BY <2>1, <3>1, StartEffect DEF Promising
  <2>2. ASSUME NEW w \in Workers, Cancel(w) PROVE Inv'
    <3>1. Workers = {w} /\ IInv
      BY DEF DiskInv
    <3> QED BY <2>2, <3>1, CancelEffect DEF Promising
  <2>3. ASSUME NEW w \in Workers, Work(w) PROVE Inv'
    <3>1. Workers = {w} /\ IInv /\ Placed(call[w])
      BY DEF DiskInv
    <3> QED BY <2>3, <3>1, PromisingWork
  <2>4. CASE Crash
    BY <2>4 DEF Crash, NoCall, Promising
  <2>5. CASE UNCHANGED vars
    BY <2>5 DEF vars, Promising, Upto
  <2> QED BY <2>1, <2>2, <2>3, <2>4, <2>5 DEF Next
<1>3. Inv => GoodServerSucceeds
  BY DEF Promising, GoodServerSucceeds
<1> QED BY <1>1, <1>2, <1>3, DiskInvariance, PTL DEF Spec

-----------------------------------------------------------------------------
(* The directory, seen by its names, is an Artifact *)

\* What Download substitutes for the variable of Artifact
Seen ==
    CASE Acceptable(complete) -> "whole"
      [] complete # Missing /\ ~Acceptable(complete) -> "damaged"
      [] complete = Missing /\ part # Missing -> "partial"
      [] OTHER -> "absent"

SeenIs ==
    /\ Acceptable(complete) => Seen = "whole"
    /\ complete # Missing /\ ~Acceptable(complete) => Seen = "damaged"
    /\ complete = Missing /\ part # Missing => Seen = "partial"
    /\ complete = Missing /\ part = Missing => Seen = "absent"

LEMMA SeenCases == SeenIs
<1> SUFFICES /\ Acceptable(complete) => Seen = "whole"
             /\ complete # Missing /\ ~Acceptable(complete) => Seen = "damaged"
             /\ complete = Missing /\ part # Missing => Seen = "partial"
             /\ complete = Missing /\ part = Missing => Seen = "absent"
  BY DEF SeenIs
<1>1. Acceptable(complete) => complete # Missing
  BY DEF Acceptable
<1>2. CASE Acceptable(complete)
  BY <1>1, <1>2 DEF Seen
<1>3. CASE ~Acceptable(complete) /\ complete # Missing
  BY <1>3 DEF Seen
<1>4. CASE complete = Missing /\ part # Missing
  BY <1>1, <1>4 DEF Seen
<1>5. CASE complete = Missing /\ part = Missing
  BY <1>1, <1>5 DEF Seen
<1> QED BY <1>1, <1>2, <1>3, <1>4, <1>5

LEMMA SeenNext ==
    /\ Acceptable(complete)' => Seen' = "whole"
    /\ complete' # Missing /\ ~Acceptable(complete)' => Seen' = "damaged"
    /\ complete' = Missing /\ part' # Missing => Seen' = "partial"
    /\ complete' = Missing /\ part' = Missing => Seen' = "absent"
<1>1. SeenIs'
  BY SeenCases, PTL
<1> QED BY <1>1 DEF SeenIs

\* A step of the abstract specification, or none
Allowed(before, after) == before = after \/ AsArtifact!FileStep(before, after)

LEMMA SeenSame ==
    ASSUME complete' = complete, digest' = digest, part' = Missing <=> part = Missing
    PROVE  Seen' = Seen
<1>1. Acceptable(complete)' <=> Acceptable(complete)
  BY DEF Acceptable
<1>2. Acceptable(complete) => complete # Missing
  BY DEF Acceptable
<1> QED BY <1>1, <1>2, SeenCases, SeenNext DEF SeenIs

LEMMA SeenFileNext ==
    ASSUME complete' = Missing, complete = Missing
    PROVE  Allowed(Seen, Seen')
<1>1. Seen \in {"absent", "partial"} /\ Seen' \in {"absent", "partial"}
  BY SeenCases, SeenNext DEF SeenIs
<1> QED BY <1>1 DEF Allowed, AsArtifact!FileStep

LEMMA SeenWork ==
    ASSUME NEW w, Workers = {w}, IInv, Placed(call[w]), Work(w)
    PROVE  Allowed(Seen, Seen')
<1>1. ASSUME UNCHANGED <<part, complete, digest>> PROVE Allowed(Seen, Seen')
  BY <1>1, SeenSame DEF Allowed
<1>2. ASSUME complete' = complete, complete = Missing PROVE Allowed(Seen, Seen')
  BY <1>2, SeenFileNext
<1>3. CASE Look(w)
  BY <1>1, <1>3, LookEffect
<1>4. CASE Discard(w)
  <2>1. call[w].pc = "discard" /\ complete' = Missing
    BY <1>4, DiscardEffect
  <2>2. Seen = "damaged" /\ Seen' \in {"absent", "partial"}
    BY <2>1, SeenCases, SeenNext DEF SeenIs, Placed
  <2> QED BY <2>2 DEF Allowed, AsArtifact!FileStep
<1>5. CASE Attempt(w)
  BY <1>2, <1>5, AttemptEffect DEF Placed
<1>6. CASE Refuse(w)
  BY <1>1, <1>6, RefuseEffect
<1>7. CASE Answer(w)
  BY <1>2, <1>7, AnswerEffect DEF Placed
<1>8. CASE Receive(w)
  BY <1>2, <1>8, ReceiveEffect DEF Placed
<1>9. CASE Overrun(w)
  BY <1>2, <1>9, OverrunEffect DEF Placed
<1>10. CASE Break(w)
  BY <1>1, <1>10, BreakEffect
<1>11. CASE BodyEnds(w)
  BY <1>1, <1>11, BodyEndsEffect
<1>12. CASE Stop(w)
  BY <1>1, <1>12, StopEffect
<1>13. CASE Verify(w)
  BY <1>2, <1>13, VerifyEffect DEF Placed
<1>14. CASE Rename(w)
  <2>1. /\ call[w].pc = "rename" /\ Acceptable(part) /\ part # Missing
        /\ complete' = part /\ digest' = digest
    BY <1>14, RenameEffect
  <2>2. complete = Missing /\ Acceptable(complete)'
    BY <2>1 DEF Placed, Acceptable
  <2>3. Seen = "partial" /\ Seen' = "whole"
    BY <2>1, <2>2, SeenCases, SeenNext DEF SeenIs
  <2> QED BY <2>3 DEF Allowed, AsArtifact!FileStep
<1> QED BY <1>3, <1>4, <1>5, <1>6, <1>7, <1>8, <1>9, <1>10, <1>11, <1>12, <1>13, <1>14
        DEF Work

\* Whoever looks at the directory sees an Artifact, at every step: a file gets
\* its name when it is whole and keeps it, and a damaged one goes first (lib.rs
\* 240-291).
THEOREM Implementation ==
    ASSUME NEW worker, Workers = {worker}
    PROVE  Spec => ImplementsArtifact
<1>1. Init => AsArtifact!Init
  <2> SUFFICES ASSUME Init PROVE Seen \in AsArtifact!FileStates
    BY DEF AsArtifact!Init, Seen
  <2> QED BY SeenCases DEF SeenIs, AsArtifact!FileStates
<1>2. DiskInv /\ [Next]_vars => Allowed(Seen, Seen')
  <2> SUFFICES ASSUME DiskInv, [Next]_vars PROVE Allowed(Seen, Seen')
    OBVIOUS
  <2>1. ASSUME NEW w \in Workers, Start(w) \/ Cancel(w) PROVE Allowed(Seen, Seen')
    <3>1. UNCHANGED <<part, complete, digest>>
      BY <2>1 DEF Start, Cancel
    <3> QED BY <3>1, SeenSame DEF Allowed
  <2>2. ASSUME NEW w \in Workers, Work(w) PROVE Allowed(Seen, Seen')
    <3>1. Workers = {w} /\ IInv /\ Placed(call[w])
      BY DEF DiskInv
    <3> QED BY <2>2, <3>1, SeenWork
  <2>3. CASE Crash
    <3>1. UNCHANGED <<complete, digest>> /\ (part' = Missing <=> part = Missing)
      <4>1. PICK w \in Workers : part' \in Killed(part, w)
        BY <2>3 DEF Crash
      <4>2. part # Missing => SubSeq(part, 1, Len(part) - 1) # Missing
        <5> SUFFICES ASSUME part \in Seq(Nat) PROVE SubSeq(part, 1, Len(part) - 1) \in Seq(Nat)
          BY DownloadAssumption DEF DiskInv, IInv
        <5>1. \A i \in 1 .. Len(part) - 1 : part[i] \in Nat
          BY ElementOfSeq
        <5> QED BY <5>1, SubSeqProperties
      <4> QED BY <2>3, <4>1, <4>2 DEF Crash, Killed
    <3> QED BY <3>1, SeenSame DEF Allowed
  <2>4. CASE UNCHANGED vars
    BY <2>4, SeenSame DEF vars, Allowed
  <2> QED BY <2>1, <2>2, <2>3, <2>4 DEF Next
<1>3. Allowed(Seen, Seen') => [AsArtifact!Next]_Seen
  <2> SUFFICES ASSUME AsArtifact!FileStep(Seen, Seen') PROVE AsArtifact!Next
    BY DEF Allowed
  <2>1. Seen' \in AsArtifact!FileStates
    BY DEF AsArtifact!FileStep, AsArtifact!FileStates
  <2>2. AsArtifact!Next <=>
          \E after \in AsArtifact!FileStates :
              AsArtifact!FileStep(Seen, after) /\ Seen' = after
    BY DEF AsArtifact!Next, Seen
  <2> QED BY <2>1, <2>2
<1> QED BY <1>1, <1>2, <1>3, DiskInvariance, PTL
        DEF Spec, ImplementsArtifact, AsArtifact!Spec, Seen
=============================================================================
