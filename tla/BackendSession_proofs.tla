----------------------- MODULE BackendSession_proofs -----------------------
(***************************************************************************)
(* What reaches the client of a session, for all capacities of the         *)
(* channels and any number of frames and segments: its order, how little   *)
(* of it can be late, that a fence is the last of its job and of all the   *)
(* jobs before it, that it leaves no translation behind, and that a        *)
(* session that ends by its own fence has nothing left to do.              *)
(***************************************************************************)
EXTENDS BackendSession, SequenceTheorems, TLAPS

-----------------------------------------------------------------------------
(* At most one late message *)

\* A message the writer has in hand was current when it was taken, so that one
\* that is late now is of a generation that has no late message yet.
LateInv ==
    /\ generation \in Nat /\ generation > NoGeneration
    /\ late \in Seq(Nat)
    /\ \A i \in DOMAIN late : NoGeneration < late[i] /\ late[i] < generation
    /\ writer.pc = "writing" =>
          /\ writer.item.gen \in Nat /\ writer.item.gen <= generation
          /\ \A i \in DOMAIN late : late[i] # writer.item.gen
    /\ AtMostOneLateMessage

LEMMA LateStep ==
    ASSUME LateInv, [Next]_vars
    PROVE  LateInv'
<1>1. CASE Reconfigure
  <2>1. generation' = generation + 1 /\ UNCHANGED <<late, writer>>
    BY <1>1 DEF Reconfigure, NoChannel
  <2> QED BY <2>1 DEF LateInv, AtMostOneLateMessage, NoGeneration
<1>2. CASE WriterTake
  <2>1. UNCHANGED <<generation, late>>
    BY <1>2 DEF WriterTake
  <2>2. writer' = writer \/ writer'.item.gen \in {NoGeneration, generation}
    BY <1>2 DEF WriterTake, OutboundIsCurrent
  <2> QED BY <2>1, <2>2 DEF LateInv, AtMostOneLateMessage, NoGeneration
<1>3. CASE WriterWrite
  <2>1. UNCHANGED generation /\ writer'.pc = "recv" /\ writer.pc = "writing"
    BY <1>3 DEF WriterWrite
  <2>2. CASE OutboundIsCurrent(writer.item)
    BY <1>3, <2>1, <2>2 DEF WriterWrite, LateInv, AtMostOneLateMessage
  <2>3. CASE ~OutboundIsCurrent(writer.item)
    <3> DEFINE gen == writer.item.gen
    <3>1. late' = Append(late, gen)
      BY <1>3, <2>3 DEF WriterWrite
    <3>2. gen \in Nat /\ NoGeneration < gen /\ gen < generation
      BY <2>1, <2>3 DEF LateInv, OutboundIsCurrent, NoGeneration
    <3>3. \A i \in DOMAIN late : late[i] # gen
      BY <2>1 DEF LateInv
    <3>4. late \in Seq(Nat)
      BY DEF LateInv
    <3> HIDE DEF gen
    <3>5. /\ late' \in Seq(Nat) /\ DOMAIN late = 1..Len(late)
          /\ DOMAIN late' = 1..(Len(late) + 1)
          /\ \A i \in 1..Len(late) : late'[i] = late[i]
          /\ late'[Len(late) + 1] = gen
      BY <3>1, <3>2, <3>4, AppendProperties
    <3>6. \A i \in DOMAIN late' : i \in DOMAIN late \/ i = Len(late) + 1
      BY <3>4, <3>5
    <3>7. \A i \in DOMAIN late' : NoGeneration < late'[i] /\ late'[i] < generation
      BY <3>2, <3>5, <3>6 DEF LateInv
    <3>8. AtMostOneLateMessage'
      BY <3>3, <3>5, <3>6 DEF LateInv, AtMostOneLateMessage
    <3> QED BY <2>1, <3>5, <3>7, <3>8 DEF LateInv
  <2> QED BY <2>2, <2>3
<1>4. CASE WriterFail \/ WriterClosed \/ JoinWriter
  <2>1. UNCHANGED <<generation, late>> /\ writer'.pc # "writing"
    BY <1>4 DEF WriterFail, WriterClosed, JoinWriter
  <2> QED BY <2>1 DEF LateInv, AtMostOneLateMessage
<1>5. CASE UNCHANGED <<generation, late, writer>>
  BY <1>5 DEF LateInv, AtMostOneLateMessage
<1>6. CASE BatchNext \/ TtsNext \/ WorkerStep
  <2>1. UNCHANGED <<generation, late, writer>>
    BY <1>6 DEF BatchNext, TtsNext, TtsReceive, TtsSynthesize, TtsSend, TtsClosed,
                WorkerStep, WorkerSend, WorkerNext, WorkerStart, WorkerSpawn, WorkerStop,
                WorkerReceive, WorkerCollect, WorkerClosed, WorkerRecognize, WorkerCommit,
                WorkerEmit, NoChannelButJobs
  <2> QED BY <1>5, <2>1
<1>7. CASE HandleResult \/ ResultsClosed \/ HandleTtsResult \/ Sends
           \/ StopWorker \/ JoinWorker \/ JoinTts
  <2>1. UNCHANGED <<generation, late, writer>>
    BY <1>7 DEF HandleResult, ResultsClosed, HandleTtsResult, Sends, SendJob, SendJobFails,
                SendTtsJob, SendOutput, SendOutputFails, CloseJobs, Leave, StopWorker,
                JoinWorker, JoinTts, NoChannel
  <2> QED BY <1>5, <2>1
<1>8. CASE Invalid \/ Pause \/ Resume \/ Finish \/ ToggleTts \/ TranslateText
           \/ Audio \/ Disconnect
  <2>1. UNCHANGED <<generation, late, writer>>
    BY <1>8 DEF Invalid, Pause, Resume, Finish, ToggleTts, TranslateText, Audio,
                Disconnect, NoChannel
  <2> QED BY <1>5, <2>1
<1>9. CASE UNCHANGED vars
  BY <1>5, <1>9 DEF vars
<1> QED BY <1>1, <1>2, <1>3, <1>4, <1>6, <1>7, <1>8, <1>9
        DEF Next, SessionNext, SessionStep, Teardown, Frames, WriterNext

\* A session that is reconfigured writes at most one message more of each
\* generation it left (main.rs, run_websocket_writer and outbound_is_current),
\* for all capacities, and however much waits to be written.
THEOREM LateMessagesAreFew == Spec => []AtMostOneLateMessage
<1>1. Init => LateInv
  BY DEF Init, SessionInit, WriterInit, LateInv, AtMostOneLateMessage,
         FirstGeneration, NoGeneration
<1>2. LateInv => AtMostOneLateMessage
  BY DEF LateInv
<1> QED BY <1>1, <1>2, LateStep, PTL DEF Spec

-----------------------------------------------------------------------------
(* The order of the stream *)

Kinds == JobKinds \cup EventKinds \cup OutputKinds \cup {"", "speech"}

Whys == Reasons \cup {""}

Things == [kind : Kinds, job : Nat, gen : Nat, made : Nat, seg : Nat,
           reason : Whys, epoch : Nat]
Sendings == [op : Ops, item : Things]

\* What may come before what
Before(x, y) ==
    Ordered(x) /\ Ordered(y) =>
        /\ x.job <= y.job
        /\ x.job = y.job =>
             /\ y.kind # "recognized"
             /\ x.kind # "streamEnded"
             /\ x.kind = "translation" /\ y.kind = "translation" => x.seg < y.seg

\* Of job n at most the recognition and the translations of segments before m have
\* been made, and nothing of later jobs.
Fits(x, n, m) ==
    Ordered(x) =>
        \/ x.job < n
        \/ /\ x.job = n /\ m > 0
           /\ x.kind = "recognized" \/ (x.kind = "translation" /\ x.seg < m)

Sorted(s) == \A i, j \in DOMAIN s : i < j => Before(s[i], s[j])
Ahead(s, t) == \A i \in DOMAIN s, j \in DOMAIN t : Before(s[i], t[j])
Within(s, n, m) == \A i \in DOMAIN s : Fits(s[i], n, m)
Silent(s) == \A i \in DOMAIN s : ~Ordered(s[i])

LEMMA Appended ==
    ASSUME NEW s \in Seq(Things), NEW e \in Things
    PROVE  /\ Append(s, e) \in Seq(Things)
           /\ DOMAIN s = 1..Len(s) /\ Len(s) \in Nat
           /\ DOMAIN Append(s, e) = 1..(Len(s) + 1)
           /\ \A i \in 1..Len(s) : Append(s, e)[i] = s[i]
           /\ Append(s, e)[Len(s) + 1] = e
           /\ \A i \in DOMAIN Append(s, e) : i \in DOMAIN s \/ i = Len(s) + 1
<1>1. /\ Append(s, e) \in Seq(Things) /\ Len(Append(s, e)) = Len(s) + 1
      /\ \A i \in 1..Len(s) : Append(s, e)[i] = s[i]
      /\ Append(s, e)[Len(s) + 1] = e
  BY AppendProperties
<1> QED BY <1>1

LEMMA AppendSorted ==
    ASSUME NEW s \in Seq(Things), NEW e \in Things, Sorted(s),
           \A i \in DOMAIN s : Before(s[i], e)
    PROVE  Sorted(Append(s, e))
BY Appended DEF Sorted

LEMMA AppendAhead ==
    ASSUME NEW s \in Seq(Things), NEW e \in Things, NEW r \in Seq(Things)
    PROVE  /\ Ahead(r, s) /\ (\A i \in DOMAIN r : Before(r[i], e)) => Ahead(r, Append(s, e))
           /\ Ahead(s, r) /\ (\A i \in DOMAIN r : Before(e, r[i])) => Ahead(Append(s, e), r)
BY Appended DEF Ahead

LEMMA AppendWithin ==
    ASSUME NEW s \in Seq(Things), NEW e \in Things, NEW n, NEW m,
           Within(s, n, m), Fits(e, n, m)
    PROVE  Within(Append(s, e), n, m)
BY Appended DEF Within

LEMMA Tailed ==
    ASSUME NEW s \in Seq(Things), s # <<>>
    PROVE  /\ Head(s) \in Things /\ Tail(s) \in Seq(Things)
           /\ Head(s) = s[1] /\ 1 \in DOMAIN s
           /\ \A i \in DOMAIN Tail(s) : i \in Nat /\ i > 0 /\ i + 1 \in DOMAIN s /\ Tail(s)[i] = s[i + 1]
<1>1. /\ Tail(s) \in Seq(Things) /\ Len(Tail(s)) = Len(s) - 1
      /\ \A i \in 1..Len(Tail(s)) : Tail(s)[i] = s[i + 1]
  BY HeadTailProperties
<1>2. Head(s) \in Things /\ Head(s) = s[1] /\ Len(s) \in Nat /\ Len(s) > 0
  BY HeadTailProperties, EmptySeq
<1> QED BY <1>1, <1>2

LEMMA TailOrder ==
    ASSUME NEW s \in Seq(Things), s # <<>>, Sorted(s)
    PROVE  Sorted(Tail(s)) /\ \A i \in DOMAIN Tail(s) : Before(Head(s), Tail(s)[i])
<1>1. \A i \in DOMAIN Tail(s) : i \in Nat /\ i > 0 /\ i + 1 \in DOMAIN s /\ Tail(s)[i] = s[i + 1]
  BY Tailed
<1>2. ASSUME NEW i \in DOMAIN Tail(s), NEW j \in DOMAIN Tail(s), i < j
      PROVE  Before(Tail(s)[i], Tail(s)[j])
  <2>1. i + 1 < j + 1
    BY <1>1, <1>2
  <2> QED BY <1>1, <1>2, <2>1 DEF Sorted
<1>3. ASSUME NEW i \in DOMAIN Tail(s)
      PROVE  Before(Head(s), Tail(s)[i])
  <2>1. 1 < i + 1
    BY <1>1, <1>3
  <2> QED BY <1>1, <1>3, <2>1, Tailed DEF Sorted
<1> QED BY <1>2, <1>3 DEF Sorted

LEMMA TailAhead ==
    ASSUME NEW s \in Seq(Things), s # <<>>, NEW r \in Seq(Things)
    PROVE  /\ Ahead(r, s) => Ahead(r, Tail(s)) /\ \A i \in DOMAIN r : Before(r[i], Head(s))
           /\ Ahead(s, r) => Ahead(Tail(s), r) /\ \A i \in DOMAIN r : Before(Head(s), r[i])
BY Tailed DEF Ahead

LEMMA TailWithin ==
    ASSUME NEW s \in Seq(Things), s # <<>>, NEW n, NEW m, Within(s, n, m)
    PROVE  Within(Tail(s), n, m) /\ Fits(Head(s), n, m)
BY Tailed DEF Within

LEMMA SilentOrder ==
    ASSUME NEW s \in Seq(Things), Silent(s)
    PROVE  /\ Sorted(s)
           /\ \A r \in Seq(Things) : Ahead(r, s) /\ Ahead(s, r)
           /\ \A n, m : Within(s, n, m)
BY DEF Silent, Sorted, Ahead, Within, Before, Fits

LEMMA EmptyIsSilent == <<>> \in Seq(Things) /\ Silent(<<>>)
<1>1. <<>> \in Seq(Things) /\ Len(<<>>) = 0
  BY EmptySeq
<1> QED BY <1>1 DEF Silent

LEMMA OneThing ==
    ASSUME NEW e \in Things
    PROVE  /\ <<e>> \in Seq(Things) /\ Sorted(<<e>>)
           /\ ~Ordered(e) => Silent(<<e>>)
           /\ \A r \in Seq(Things) :
                 /\ (\A i \in DOMAIN r : Before(r[i], e)) => Ahead(r, <<e>>)
                 /\ (\A i \in DOMAIN r : Before(e, r[i])) => Ahead(<<e>>, r)
           /\ \A n, m : Fits(e, n, m) => Within(<<e>>, n, m)
<1>1. DOMAIN <<e>> = {1} /\ <<e>>[1] = e /\ <<e>> \in Seq(Things)
  OBVIOUS
<1> HIDE DEF Things
<1> QED BY <1>1 DEF Sorted, Silent, Ahead, Within

-----------------------------------------------------------------------------
(* The stages of the stream: what is out, and what is on its way           *)

\* The output that waits at the head of the loop's sends
Written(todo) ==
    IF todo # <<>> /\ Head(todo).op = "out" THEN <<Head(todo).item>> ELSE <<>>

Stages == <<out, Written(session.todo), results, worker.todo, batch.events>>

InOrder(S) ==
    /\ \A k \in 1..5 : Sorted(S[k])
    /\ \A k, l \in 1..5 : k < l => Ahead(S[k], S[l])

Reach(S, n, m) == \A k \in 1..5 : Within(S[k], n, m)

\* The jobs the worker and its translation task have in hand
WorkNo == IF worker.pc \in {"asr", "commit", "emit", "spawn"} THEN worker.job.job ELSE 0
BatchNo == IF batch.pc = "running" THEN batch.job.job ELSE 0

\* Nothing of job w or a later one is made or in hand.
Beyond(S, work, batched, w) == Reach(S, w, 0) /\ work < w /\ batched < w

Upcoming(w) == Beyond(Stages, WorkNo, BatchNo, w)

Sessions ==
    [loop : LoopStates, input : InputStates, sender : BOOLEAN, graceful : BOOLEAN,
     ttsOn : BOOLEAN, ttsEpoch : Nat, pendingTts : Nat, pendingDrain : Things,
     frames : Nat, jobCount : Nat, todo : Seq(Sendings)]

Typed ==
    /\ generation \in Nat
    /\ session \in Sessions
    /\ worker \in [pc : WorkerStates, job : Things, todo : Seq(Things), corpus : BOOLEAN]
    /\ batch \in [pc : BatchStates, job : Things, events : Seq(Things)]
    /\ tts \in [pc : TtsStates, item : Things]
    /\ jobs \in Seq(Things) /\ results \in Seq(Things) /\ out \in Seq(Things)
    /\ ttsJobs \in Seq(Things) /\ ttsResults \in Seq(Things)

\* What is not of the stream, wherever it waits
Aside ==
    /\ ~Ordered(session.pendingDrain)
    /\ Silent(ttsResults)
    /\ tts.pc = "send" => ~Ordered(tts.item)
    /\ \A i \in DOMAIN session.todo :
          i > 1 /\ session.todo[i].op = "out" => ~Ordered(session.todo[i].item)

\* The jobs to come: those queued, those still to be sent, and those not yet made
Coming ==
    /\ Upcoming(session.jobCount + 1)
    /\ \A i \in DOMAIN jobs : Upcoming(jobs[i].job) /\ jobs[i].job <= session.jobCount
    /\ \A i, j \in DOMAIN jobs : i < j => jobs[i].job < jobs[j].job
    /\ \A i \in DOMAIN session.todo : session.todo[i].op = "job" =>
          /\ Upcoming(session.todo[i].item.job)
          /\ session.todo[i].item.job <= session.jobCount
          /\ \A j \in DOMAIN jobs : jobs[j].job < session.todo[i].item.job
          /\ \A j \in DOMAIN session.todo :
                i < j /\ session.todo[j].op = "job"
                    => session.todo[i].item.job < session.todo[j].item.job

\* The worker reports a job when all before it is reported and translated.
Working ==
    /\ worker.pc \in {"asr", "commit", "emit"} =>
          Reach(Stages, worker.job.job, 0) /\ BatchNo < worker.job.job
    /\ worker.pc \in {"emit", "spawn"} => batch.pc = "none"
    /\ worker.pc = "spawn" => Reach(Stages, worker.job.job, 1)

Translating ==
    /\ batch.pc = "running" => Reach(Stages, batch.job.job, Len(batch.events) + 1)
    /\ batch.pc = "none" => batch.events = <<>>

OrderInv == Typed /\ Aside /\ InOrder(Stages) /\ Coming /\ Working /\ Translating

-----------------------------------------------------------------------------
(* What a step may do to the stages *)

Chains == [1..5 -> Seq(Things)]

LEMMA Replaced ==
    ASSUME NEW S \in Chains, NEW T \in Chains, NEW k \in 1..5,
           \A i \in 1..5 : i # k => T[i] = S[i],
           \/ Silent(T[k])
           \/ S[k] # <<>> /\ T[k] = Tail(S[k])
    PROVE  /\ InOrder(S) => InOrder(T)
           /\ \A n, m : Reach(S, n, m) => Reach(T, n, m)
<1>1. S[k] \in Seq(Things) /\ T[k] \in Seq(Things) /\ \A i \in 1..5 : S[i] \in Seq(Things)
  BY DEF Chains
<1>2. CASE Silent(T[k])
  BY <1>1, <1>2, SilentOrder DEF InOrder, Reach
<1>3. CASE S[k] # <<>> /\ T[k] = Tail(S[k])
  BY <1>1, <1>3, TailOrder, TailAhead, TailWithin DEF InOrder, Reach
<1> QED BY <1>2, <1>3

LEMMA Moved ==
    ASSUME NEW S \in Chains, NEW T \in Chains, NEW k \in 1..4,
           \A i \in 1..5 : i # k /\ i # k + 1 => T[i] = S[i],
           S[k + 1] # <<>>, T[k] = Append(S[k], Head(S[k + 1])),
           T[k + 1] = Tail(S[k + 1]) \/ Silent(T[k + 1])
    PROVE  /\ InOrder(S) => InOrder(T)
           /\ \A n, m : Reach(S, n, m) => Reach(T, n, m)
<1> DEFINE e == Head(S[k + 1])
<1>1. /\ S[k] \in Seq(Things) /\ S[k + 1] \in Seq(Things)
      /\ T[k] \in Seq(Things) /\ T[k + 1] \in Seq(Things)
      /\ \A i \in 1..5 : S[i] \in Seq(Things)
      /\ k \in 1..5 /\ k + 1 \in 1..5
  BY SMTT(60) DEF Chains
<1>2. e \in Things /\ e = S[k + 1][1] /\ 1 \in DOMAIN S[k + 1]
  BY <1>1, Tailed
<1>3. T[k] = Append(S[k], e)
  OBVIOUS
<1> HIDE DEF e
<1>4. ASSUME InOrder(S)
      PROVE  InOrder(T)
  <2>1. Sorted(S[k]) /\ Sorted(S[k + 1]) /\ Ahead(S[k], S[k + 1])
    BY <1>1, <1>4, SMTT(60) DEF InOrder
  <2>2. Sorted(T[k])
    <3>1. \A i \in DOMAIN S[k] : Before(S[k][i], e)
      BY <1>2, <2>1 DEF Ahead
    <3> QED BY <1>1, <1>2, <1>3, <2>1, <3>1, AppendSorted
  <2>3. Sorted(T[k + 1]) /\ Ahead(T[k], T[k + 1])
    <3>1. CASE Silent(T[k + 1])
      BY <1>1, <3>1, SilentOrder
    <3>2. CASE T[k + 1] = Tail(S[k + 1])
      <4>1. Sorted(T[k + 1]) /\ \A i \in DOMAIN T[k + 1] : Before(e, T[k + 1][i])
        BY <1>1, <2>1, <3>2, TailOrder DEF e
      <4>2. Ahead(S[k], T[k + 1])
        BY <1>1, <2>1, <3>2, TailAhead
      <4> QED BY <1>1, <1>2, <1>3, <4>1, <4>2, AppendAhead
    <3> QED BY <3>1, <3>2
  <2>4. ASSUME NEW i \in 1..5, i < k
        PROVE  Ahead(T[i], T[k]) /\ Ahead(T[i], T[k + 1]) /\ T[i] = S[i]
    <3>0. i # k /\ i # k + 1 /\ i < k + 1
      BY <2>4
    <3>1. T[i] = S[i] /\ S[i] \in Seq(Things) /\ Ahead(S[i], S[k]) /\ Ahead(S[i], S[k + 1])
      BY <1>1, <1>4, <2>4, <3>0 DEF InOrder
    <3>2. \A h \in DOMAIN S[i] : Before(S[i][h], e)
      BY <1>2, <3>1 DEF Ahead
    <3>3. Ahead(S[i], T[k])
      BY <1>1, <1>2, <1>3, <3>1, <3>2, AppendAhead, SMTT(60)
    <3>4. Ahead(S[i], T[k + 1])
      BY <1>1, <3>1, TailAhead, SilentOrder
    <3> QED BY <3>1, <3>3, <3>4
  <2>5. ASSUME NEW i \in 1..5, i > k + 1
        PROVE  Ahead(T[k], T[i]) /\ Ahead(T[k + 1], T[i]) /\ T[i] = S[i]
    <3>0. i # k /\ i # k + 1 /\ k < i
      BY <2>5
    <3>1. T[i] = S[i] /\ S[i] \in Seq(Things) /\ Ahead(S[k], S[i]) /\ Ahead(S[k + 1], S[i])
      BY <1>1, <1>4, <2>5, <3>0 DEF InOrder
    <3>2. \A h \in DOMAIN S[i] : Before(e, S[i][h])
      BY <1>2, <3>1 DEF Ahead
    <3>3. Ahead(T[k], S[i])
      BY <1>1, <1>2, <1>3, <3>1, <3>2, AppendAhead, SMTT(60)
    <3>4. Ahead(T[k + 1], S[i])
      BY <1>1, <3>1, TailAhead, SilentOrder
    <3> QED BY <3>1, <3>3, <3>4
  <2>6. \A i \in 1..5 : i = k \/ i = k + 1 \/ i < k \/ i > k + 1
    OBVIOUS
  <2>7. \A i \in 1..5 : Sorted(T[i])
    BY <1>1, <1>4, <2>2, <2>3, <2>4, <2>5, <2>6 DEF InOrder
  <2>8. ASSUME NEW i \in 1..5, NEW j \in 1..5, i < j
        PROVE  Ahead(T[i], T[j])
    <3>1. CASE i = k
      <4>1. j = k + 1 \/ j > k + 1
        BY <2>8, <3>1
      <4> QED BY <2>3, <2>5, <3>1, <4>1
    <3>2. CASE i = k + 1
      <4>1. j > k + 1
        BY <2>8, <3>2
      <4> QED BY <2>5, <3>2, <4>1
    <3>4. CASE i # k /\ i # k + 1 /\ (j = k \/ j = k + 1)
      <4>1. i < k
        BY <2>8, <3>4
      <4> QED BY <2>4, <3>4, <4>1
    <3>3. CASE i # k /\ i # k + 1 /\ j # k /\ j # k + 1
      BY <1>4, <2>8, <3>3 DEF InOrder
    <3> QED BY <3>1, <3>2, <3>3, <3>4
  <2> QED BY <2>7, <2>8 DEF InOrder
<1>5. ASSUME NEW n, NEW m, Reach(S, n, m)
      PROVE  Reach(T, n, m)
  <2>1. Within(S[k], n, m) /\ Within(S[k + 1], n, m)
    BY <1>1, <1>5 DEF Reach
  <2>2. Fits(e, n, m)
    BY <1>2, <2>1 DEF Within
  <2>3. Within(T[k], n, m)
    BY <1>1, <1>2, <1>3, <2>1, <2>2, AppendWithin
  <2>4. Within(T[k + 1], n, m)
    BY <1>1, <2>1, TailWithin, SilentOrder
  <2> QED BY <1>1, <1>5, <2>3, <2>4 DEF Reach
<1> QED BY <1>4, <1>5

LEMMA Extended ==
    ASSUME NEW S \in Chains, NEW T \in Chains, NEW k \in 1..5, NEW e \in Things,
           \A i \in 1..5 : i # k => T[i] = S[i],
           T[k] = Append(S[k], e),
           \A i \in 1..5 : i > k => Silent(S[i]),
           \A i \in 1..5 : \A h \in DOMAIN S[i] : Before(S[i][h], e)
    PROVE  /\ InOrder(S) => InOrder(T)
           /\ \A n, m : Reach(S, n, m) /\ Fits(e, n, m) => Reach(T, n, m)
<1>1. \A i \in 1..5 : S[i] \in Seq(Things) /\ T[i] \in Seq(Things)
  BY DEF Chains
<1>2. ASSUME InOrder(S)
      PROVE  InOrder(T)
  <2>1. Sorted(T[k])
    BY <1>1, <1>2, AppendSorted DEF InOrder
  <2>2. ASSUME NEW i \in 1..5, i < k
        PROVE  Ahead(T[i], T[k])
    <3>1. T[i] = S[i] /\ Ahead(S[i], S[k])
      BY <1>2, <2>2 DEF InOrder
    <3> QED BY <1>1, <3>1, AppendAhead
  <2>3. ASSUME NEW i \in 1..5, i > k
        PROVE  Ahead(T[k], T[i])
    <3>1. T[i] = S[i] /\ Silent(S[i])
      BY <2>3
    <3> QED BY <1>1, <3>1, SilentOrder
  <2> QED BY <1>2, <2>1, <2>2, <2>3 DEF InOrder
<1>3. ASSUME NEW n, NEW m, Reach(S, n, m), Fits(e, n, m)
      PROVE  Reach(T, n, m)
  <2>1. Within(T[k], n, m)
    BY <1>1, <1>3, AppendWithin DEF Reach
  <2> QED BY <1>3, <2>1 DEF Reach
<1> QED BY <1>2, <1>3

\* The events of a finished translation become the worker's to send.
LEMMA Taken ==
    ASSUME NEW S \in Chains, NEW T \in Chains,
           \A i \in 1..3 : T[i] = S[i],
           T[4] = S[5], T[5] = <<>>
    PROVE  /\ InOrder(S) => InOrder(T)
           /\ \A n, m : Reach(S, n, m) => Reach(T, n, m)
<1>1. \A i \in 1..5 : S[i] \in Seq(Things) /\ T[i] \in Seq(Things)
  BY DEF Chains
<1>2. Silent(T[5])
  BY EmptyIsSilent
<1>3. ASSUME InOrder(S)
      PROVE  InOrder(T)
  <2>1. \A i \in 1..5 : Sorted(T[i])
    BY <1>1, <1>2, <1>3, SilentOrder DEF InOrder
  <2>2. \A i \in 1..4 : Ahead(T[i], T[5])
    BY <1>1, <1>2, SilentOrder
  <2>3. \A i \in 1..3 : Ahead(T[i], T[4])
    BY <1>3 DEF InOrder
  <2>4. \A i, j \in 1..3 : i < j => Ahead(T[i], T[j])
    BY <1>3 DEF InOrder
  <2> QED BY <2>1, <2>2, <2>3, <2>4 DEF InOrder
<1>4. ASSUME NEW n, NEW m, Reach(S, n, m)
      PROVE  Reach(T, n, m)
  <2>1. Within(T[5], n, m)
    BY <1>1, <1>2, SilentOrder
  <2> QED BY <1>4, <2>1 DEF Reach
<1> QED BY <1>3, <1>4

LEMMA Listed ==
    ASSUME NEW a \in Seq(Things), NEW b \in Seq(Things), NEW c \in Seq(Things),
           NEW d \in Seq(Things), NEW e \in Seq(Things)
    PROVE  /\ <<a, b, c, d, e>> \in Chains
           /\ <<a, b, c, d, e>>[1] = a /\ <<a, b, c, d, e>>[2] = b
           /\ <<a, b, c, d, e>>[3] = c /\ <<a, b, c, d, e>>[4] = d
           /\ <<a, b, c, d, e>>[5] = e
<1> HIDE DEF Things
<1> QED BY DEF Chains

-----------------------------------------------------------------------------
(* What the handlers of the session send *)

Plain(t) == \A i \in DOMAIN t : t[i].op = "out" => ~Ordered(t[i].item)
NoJob(t) == \A i \in DOMAIN t : t[i].op # "job"

LEMMA ItemIsThing ==
    ASSUME NEW kind \in Kinds, NEW job \in Nat, NEW gen \in Nat, NEW seg \in Nat,
           NEW reason \in Whys
    PROVE  /\ Item(kind, job, gen, seg, reason) \in Things
           /\ Item(kind, job, gen, seg, reason).kind = kind
           /\ Item(kind, job, gen, seg, reason).job = job
           /\ Item(kind, job, gen, seg, reason).seg = seg
BY DEF Item, Things

LEMMA AsideThings ==
    /\ Blank \in Things /\ ~Ordered(Blank)
    /\ ErrorOut \in Sendings /\ ErrorOut.op = "out" /\ ~Ordered(ErrorOut.item)
    /\ \A op \in Ops, item \in Things :
          Do(op, item) \in Sendings /\ Do(op, item).op = op /\ Do(op, item).item = item
<1>1. Blank \in Things /\ Blank.kind = ""
  BY DEF Blank, NoGeneration, Kinds, Item, Things, Whys
<1>2. Item("error", 0, NoGeneration, 0, "") \in Things
      /\ Item("error", 0, NoGeneration, 0, "").kind = "error"
  BY DEF NoGeneration, Kinds, EventKinds, Item, Things, Whys
<1>3. \A op \in Ops, item \in Things :
          Do(op, item) \in Sendings /\ Do(op, item).op = op /\ Do(op, item).item = item
  BY DEF Do, Sendings
<1>4. "out" \in Ops
  BY DEF Ops
<1>5. ErrorOut = Do("out", Item("error", 0, NoGeneration, 0, ""))
  BY DEF ErrorOut
<1>6. ~Ordered(Blank) /\ ~Ordered(Item("error", 0, NoGeneration, 0, ""))
  BY <1>1, <1>2 DEF Ordered
<1>7. ErrorOut \in Sendings /\ ErrorOut.op = "out" /\ ~Ordered(ErrorOut.item)
  BY <1>2, <1>3, <1>4, <1>5, <1>6, Zenon
<1> QED BY <1>1, <1>3, <1>6, <1>7, Zenon

LEMMA SomeSends ==
    ASSUME NEW a \in Sendings, NEW b \in Sendings
    PROVE  /\ <<>> \in Seq(Sendings) /\ Plain(<<>>) /\ NoJob(<<>>)
           /\ <<a>> \in Seq(Sendings) /\ DOMAIN <<a>> = {1} /\ <<a>>[1] = a
           /\ <<a, b>> \in Seq(Sendings) /\ DOMAIN <<a, b>> = {1, 2}
           /\ <<a, b>>[1] = a /\ <<a, b>>[2] = b
<1> HIDE DEF Sendings
<1> QED BY DEF Plain, NoJob

LEMMA Joined ==
    ASSUME NEW s \in Seq(Sendings), NEW t \in Seq(Sendings)
    PROVE  /\ s \o t \in Seq(Sendings)
           /\ Len(s) \in Nat /\ DOMAIN s = 1..Len(s)
           /\ \A i \in DOMAIN (s \o t) :
                 \/ i \in DOMAIN s /\ (s \o t)[i] = s[i]
                 \/ i > Len(s) /\ i - Len(s) \in DOMAIN t /\ (s \o t)[i] = t[i - Len(s)]
           /\ Plain(s) /\ Plain(t) => Plain(s \o t)
           /\ NoJob(s) /\ NoJob(t) => NoJob(s \o t)
<1> HIDE DEF Sendings
<1>1. /\ s \o t \in Seq(Sendings) /\ Len(s \o t) = Len(s) + Len(t)
      /\ \A i \in 1..(Len(s) + Len(t)) :
            (s \o t)[i] = IF i <= Len(s) THEN s[i] ELSE t[i - Len(s)]
  BY ConcatProperties
<1>2. /\ Len(s) \in Nat /\ DOMAIN s = 1..Len(s) /\ Len(t) \in Nat /\ DOMAIN t = 1..Len(t)
      /\ DOMAIN (s \o t) = 1..(Len(s) + Len(t))
  BY <1>1
<1>3. \A i \in DOMAIN (s \o t) :
         \/ i \in DOMAIN s /\ (s \o t)[i] = s[i]
         \/ i > Len(s) /\ i - Len(s) \in DOMAIN t /\ (s \o t)[i] = t[i - Len(s)]
  BY <1>1, <1>2
<1> QED BY <1>1, <1>2, <1>3 DEF Plain, NoJob

LEMMA OutputIs ==
    ASSUME NEW event \in Things, NEW spoken \in BOOLEAN, session.ttsEpoch \in Nat
    PROVE  /\ OutputOf(event, spoken) \in Seq(Sendings)
           /\ \A i \in DOMAIN OutputOf(event, spoken) :
                 /\ OutputOf(event, spoken)[i].op # "job"
                 /\ OutputOf(event, spoken)[i].op = "out" =>
                       /\ i = 1
                       /\ \/ OutputOf(event, spoken)[1].item = event
                          \/ ~Ordered(OutputOf(event, spoken)[1].item)
<1> DEFINE speech == [event EXCEPT !.kind = "speech", !.epoch = session.ttsEpoch]
<1>1. /\ Write(event.kind, event) = Do("out", event)
      /\ Do("out", event) \in Sendings
      /\ Write("error", event) \in Sendings /\ ~Ordered(Write("error", event).item)
      /\ Do("tts", speech) \in Sendings /\ Do("tts", speech).op = "tts"
      /\ Do("out", event).op = "out" /\ Do("out", event).item = event
      /\ Write("error", event).op = "out"
  <2>1. [event EXCEPT !.kind = event.kind] = event
    BY DEF Things
  <2>2. [event EXCEPT !.kind = "error"] \in Things
        /\ [event EXCEPT !.kind = "error"].kind = "error"
    BY DEF Things, Kinds, EventKinds
  <2>3. speech \in Things
    BY DEF Things, Kinds
  <2> HIDE DEF speech
  <2> QED BY <2>1, <2>2, <2>3 DEF Write, Ordered, Do, Sendings, Ops
<1>2. CASE event.gen # generation \/ event.kind \in {"window", "drained"}
  BY <1>1, <1>2, SomeSends DEF OutputOf
<1>3. CASE event.gen = generation /\ event.kind = "translation" /\ spoken
  <2>1. OutputOf(event, spoken) = <<Do("out", event), Do("tts", speech)>>
    BY <1>1, <1>3 DEF OutputOf
  <2> HIDE DEF speech
  <2> QED BY <1>1, <2>1, SomeSends
<1>4. CASE event.gen = generation /\ event.kind = "failed"
  <2>1. OutputOf(event, spoken) = <<Write("error", event)>>
    BY <1>4 DEF OutputOf
  <2> QED BY <1>1, <2>1, SomeSends
<1>5. CASE /\ event.gen = generation /\ event.kind \notin {"window", "drained", "failed"}
           /\ ~(event.kind = "translation" /\ spoken)
  <2>1. OutputOf(event, spoken) = <<Do("out", event)>>
    BY <1>1, <1>5 DEF OutputOf
  <2> QED BY <1>1, <2>1, SomeSends
<1> QED BY <1>2, <1>3, <1>4, <1>5

LEMMA DrainedIsPlain ==
    ASSUME NEW fence \in Things, ~Ordered(fence), generation \in Nat
    PROVE  Drained(fence) \in Seq(Sendings) /\ Plain(Drained(fence)) /\ NoJob(Drained(fence))
<1> DEFINE a == Do("out", [fence EXCEPT !.gen = generation])
           b == Do("leave", Blank)
<1>1. a \in Sendings /\ a.op = "out" /\ ~Ordered(a.item) /\ b \in Sendings /\ b.op = "leave"
  <2>1. [fence EXCEPT !.gen = generation] \in Things
        /\ [fence EXCEPT !.gen = generation].kind = fence.kind
    BY DEF Things
  <2>2. ~Ordered([fence EXCEPT !.gen = generation])
    BY <2>1 DEF Ordered
  <2> QED BY <2>1, <2>2, AsideThings DEF Do, Sendings, Ops
<1>2. Drained(fence) = <<a>> \o (IF fence.reason = "paused" THEN <<>> ELSE <<b>>)
  BY DEF Drained
<1> HIDE DEF a, b
<1>3. <<a>> \in Seq(Sendings) /\ Plain(<<a>>) /\ NoJob(<<a>>)
  BY <1>1, SomeSends DEF Plain, NoJob
<1>4. <<b>> \in Seq(Sendings) /\ Plain(<<b>>) /\ NoJob(<<b>>)
  BY <1>1, SomeSends DEF Plain, NoJob
<1>5. <<>> \in Seq(Sendings) /\ Plain(<<>>) /\ NoJob(<<>>)
  BY <1>1, SomeSends
<1> QED BY <1>2, <1>3, <1>4, <1>5, Joined

LEMMA Listing ==
    ASSUME NEW S, NEW n \in Nat, NEW q \in [1..n -> S]
    PROVE  q \in Seq(S) /\ Len(q) = n
OBVIOUS

Why(kind, reason) == IF kind = "drain" THEN reason ELSE ""
Numbered(kind, job, reason) == Do("job", Item(kind, job, generation, 0, Why(kind, reason)))

LEMMA JobIs ==
    ASSUME NEW kind \in Kinds, NEW job \in Nat, NEW reason \in Whys,
           generation \in Nat
    PROVE  /\ Numbered(kind, job, reason) \in Sendings
           /\ Numbered(kind, job, reason).op = "job"
           /\ Numbered(kind, job, reason).item.job = job
           /\ Numbered(kind, job, reason).item.kind = kind
           /\ Numbered(kind, job, reason).item.gen = generation
           /\ kind = "drain" => Numbered(kind, job, reason).item.reason = reason
<1> DEFINE it == Item(kind, job, generation, 0, Why(kind, reason))
<1>1. Why(kind, reason) \in Whys /\ (kind = "drain" => Why(kind, reason) = reason)
  BY Zenon DEF Why, Whys
<1> HIDE DEF Kinds, Whys
<1>2. it \in Things /\ it.job = job /\ it.kind = kind /\ it.reason = Why(kind, reason)
  BY <1>1 DEF Item, Things
<1>5. it.gen = generation
  BY DEF Item
<1>3. Numbered(kind, job, reason) = Do("job", it)
  BY DEF Numbered
<1> HIDE DEF it
<1>4. \A i \in Things : Do("job", i) \in Sendings /\ Do("job", i).op = "job" /\ Do("job", i).item = i
  BY AsideThings DEF Ops
<1> HIDE DEF Things, Sendings
<1> QED BY <1>1, <1>2, <1>3, <1>4, <1>5

LEMMA NumberIs == \A c, m \in Nat : \A i \in 1..m : c + i \in Nat
OBVIOUS

LEMMA QueueIs ==
    ASSUME NEW kinds, Len(kinds) \in Nat, DOMAIN kinds = 1..Len(kinds),
           \A i \in 1..Len(kinds) : kinds[i] \in Kinds,
           NEW reason \in Whys,
           session.jobCount \in Nat, generation \in Nat
    PROVE  /\ Queue(kinds, reason) \in Seq(Sendings)
           /\ Len(Queue(kinds, reason)) = Len(kinds)
           /\ \A i \in DOMAIN Queue(kinds, reason) :
                 /\ i \in 1..Len(kinds)
                 /\ Queue(kinds, reason)[i].op = "job"
                 /\ Queue(kinds, reason)[i].item.job = session.jobCount + i
                 /\ Queue(kinds, reason)[i].item.kind = kinds[i]
                 /\ Queue(kinds, reason)[i].item.gen = generation
                 /\ kinds[i] = "drain" => Queue(kinds, reason)[i].item.reason = reason
<1> DEFINE q == Queue(kinds, reason)
<1>1. ASSUME NEW i \in 1..Len(kinds)
      PROVE  /\ q[i] \in Sendings /\ q[i].op = "job" /\ q[i].item.job = session.jobCount + i
             /\ q[i].item.kind = kinds[i] /\ q[i].item.gen = generation
             /\ kinds[i] = "drain" => q[i].item.reason = reason
  <2>1. session.jobCount + i \in Nat
    BY ZenonT(20), <1>1, NumberIs
  <2>2. kinds[i] \in Kinds
    BY <1>1
  <2>3. q[i] = Numbered(kinds[i], session.jobCount + i, reason)
    BY <1>1, Zenon DEF Queue, Numbered, Why
  <2> HIDE DEF q, Sendings, Kinds, Whys
  <2> QED BY <2>1, <2>2, <2>3, JobIs
<1>2. DOMAIN q = 1..Len(kinds) /\ q = [i \in 1..Len(kinds) |-> q[i]]
  BY DEF Queue
<1> HIDE DEF q
<1>3. q \in [1..Len(kinds) -> Sendings]
  BY <1>1, <1>2
<1>4. q \in Seq(Sendings) /\ Len(q) = Len(kinds)
  BY <1>3, Listing
<1> QED BY <1>1, <1>2, <1>4 DEF q

\* An error, and the end of the jobs: nothing that stems from a job
Closing(t) ==
    \A i \in DOMAIN t :
        /\ t[i].op \in {"out", "close"} /\ t[i].item.job = 0
        /\ t[i].item.kind \notin {"drained", "recognized"}

\* What a frame lets the loop send
Frameable(request) ==
    /\ Len(request.kinds) \in Nat /\ DOMAIN request.kinds = 1..Len(request.kinds)
    /\ \A i \in 1..Len(request.kinds) : request.kinds[i] \in Kinds
    /\ \A i \in 1..Len(request.kinds) : request.kinds[i] = "drain" => i = Len(request.kinds)
    /\ request.reason \in Whys
    /\ request.then \in Seq(Sendings) /\ Plain(request.then) /\ NoJob(request.then)
    /\ Closing(request.then)

LEMMA KindLists ==
    ASSUME NEW K, NEW kinds,
           \/ kinds = <<>>
           \/ \E a \in K : kinds = <<a>>
           \/ \E a, b \in K : kinds = <<a, b>>
    PROVE  /\ Len(kinds) \in Nat /\ DOMAIN kinds = 1..Len(kinds)
           /\ \A i \in 1..Len(kinds) : kinds[i] \in K
<1>1. CASE kinds = <<>>
  BY <1>1
<1>2. ASSUME NEW a \in K, kinds = <<a>>
      PROVE  /\ Len(kinds) \in Nat /\ DOMAIN kinds = 1..Len(kinds)
             /\ \A i \in 1..Len(kinds) : kinds[i] \in K
  <2>1. /\ Len(<<a>>) \in Nat /\ DOMAIN <<a>> = 1..Len(<<a>>)
        /\ \A i \in 1..Len(<<a>>) : <<a>>[i] \in K
    OBVIOUS
  <2> QED BY <1>2, <2>1
<1>3. ASSUME NEW a \in K, NEW b \in K, kinds = <<a, b>>
      PROVE  /\ Len(kinds) \in Nat /\ DOMAIN kinds = 1..Len(kinds)
             /\ \A i \in 1..Len(kinds) : kinds[i] \in K
  <2>1. /\ Len(<<a, b>>) \in Nat /\ DOMAIN <<a, b>> = 1..Len(<<a, b>>)
        /\ \A i \in 1..Len(<<a, b>>) : <<a, b>>[i] \in K
    OBVIOUS
  <2> QED BY <1>3, <2>1
<1> QED BY <1>1, <1>2, <1>3

LEMMA FrameablePlain ==
    ASSUME NEW kinds, NEW reason \in Whys, NEW then \in Seq(Sendings),
           Plain(then), NoJob(then), Closing(then),
           \/ kinds = <<>>
           \/ \E a \in Kinds : kinds = <<a>>
           \/ \E a, b \in Kinds : a # "drain" /\ kinds = <<a, b>>
    PROVE  Frameable(Request(kinds, reason, then))
<1> HIDE DEF Kinds, Sendings, Whys
<1>1. /\ Len(kinds) \in Nat /\ DOMAIN kinds = 1..Len(kinds)
      /\ \A i \in 1..Len(kinds) : kinds[i] \in Kinds
  BY KindLists
<1>2. \A i \in 1..Len(kinds) : kinds[i] = "drain" => i = Len(kinds)
  <2>1. CASE kinds = <<>> \/ \E a \in Kinds : kinds = <<a>>
    <3>1. ASSUME NEW a \in Kinds, kinds = <<a>>
          PROVE  Len(kinds) = 1
      <4>1. Len(<<a>>) = 1
        OBVIOUS
      <4> QED BY <3>1, <4>1
    <3>2. Len(<<>>) = 0
      BY EmptySeq
    <3>3. Len(kinds) = 0 \/ Len(kinds) = 1
      BY <2>1, <3>1, <3>2
    <3>4. \A n : n = 0 \/ n = 1 => \A i \in 1..n : i = n
      OBVIOUS
    <3> QED BY <3>3, <3>4, Zenon
  <2>2. ASSUME NEW a \in Kinds, NEW b \in Kinds, a # "drain", kinds = <<a, b>>
        PROVE  \A i \in 1..Len(kinds) : kinds[i] = "drain" => i = Len(kinds)
    <3>1. Len(<<a, b>>) = 2 /\ <<a, b>>[1] = a
      OBVIOUS
    <3>2. Len(kinds) = 2 /\ kinds[1] = a
      BY <2>2, <3>1
    <3> QED BY <2>2, <3>2
  <2> QED BY <2>1, <2>2
<1> DEFINE r == Request(kinds, reason, then)
<1>3. r.kinds = kinds /\ r.reason = reason /\ r.then = then
  BY DEF Request
<1> HIDE DEF r
<1>4. Frameable(r)
  BY <1>1, <1>2, <1>3 DEF Frameable
<1> QED BY <1>4 DEF r

LEMMA FramesSend ==
    /\ Frameable(NoJobs(<<>>)) /\ Frameable(NoJobs(<<ErrorOut>>))
    /\ \A kinds \in Segmented \cup {<<"text">>} : Frameable(JobsOf(kinds))
    /\ \A reason \in Reasons, then \in {<<>>, <<Do("close", Blank)>>} :
          \A request \in QueuePipelineDrain(reason, then) :
             Frameable(request) /\ request.reason = reason
<1> DEFINE close == Do("close", Blank)
<1>0. Blank.job = 0 /\ Blank.kind \notin {"drained", "recognized"}
  BY DEF Blank, Item
<1>1. /\ close \in Sendings /\ close.op = "close" /\ close.item = Blank
      /\ ErrorOut \in Sendings /\ ErrorOut.op = "out" /\ ~Ordered(ErrorOut.item)
      /\ ErrorOut.item.job = 0 /\ ErrorOut.item.kind = "error"
  <2>1. ErrorOut.item.job = 0 /\ ErrorOut.item.kind = "error"
    BY DEF ErrorOut, Do, Item
  <2> QED BY <2>1, AsideThings DEF Ops
<1> HIDE DEF close
<1>2. ASSUME NEW e \in Sendings, e.op \in {"out", "close"}, e.op = "out" => ~Ordered(e.item),
             e.item.job = 0, e.item.kind \notin {"drained", "recognized"}
      PROVE  <<e>> \in Seq(Sendings) /\ Plain(<<e>>) /\ NoJob(<<e>>) /\ Closing(<<e>>)
  BY <1>2, SomeSends DEF Plain, NoJob, Closing
<1>3. <<>> \in Seq(Sendings) /\ Plain(<<>>) /\ NoJob(<<>>) /\ Closing(<<>>)
  <2>1. DOMAIN <<>> = {}
    OBVIOUS
  <2> QED BY <1>1, <2>1, SomeSends DEF Closing
<1>4. /\ <<ErrorOut>> \in Seq(Sendings) /\ Plain(<<ErrorOut>>) /\ NoJob(<<ErrorOut>>)
      /\ Closing(<<ErrorOut>>)
      /\ <<close>> \in Seq(Sendings) /\ Plain(<<close>>) /\ NoJob(<<close>>)
      /\ Closing(<<close>>)
  <2>1. close.item.job = 0 /\ close.item.kind \notin {"drained", "recognized"}
    BY <1>0, <1>1
  <2>2. /\ <<close>> \in Seq(Sendings) /\ Plain(<<close>>) /\ NoJob(<<close>>)
        /\ Closing(<<close>>)
    BY <1>1, <1>2, <2>1
  <2>3. /\ <<ErrorOut>> \in Seq(Sendings) /\ Plain(<<ErrorOut>>) /\ NoJob(<<ErrorOut>>)
        /\ Closing(<<ErrorOut>>)
    BY <1>1, <1>2
  <2> QED BY <2>2, <2>3
<1>5. /\ {"utterance", "text", "streamEnded", "drain"} \subseteq Kinds
      /\ "" \in Whys
  BY DEF Kinds, JobKinds, Whys
<1>6. Frameable(NoJobs(<<>>)) /\ Frameable(NoJobs(<<ErrorOut>>))
  BY <1>3, <1>4, <1>5, FrameablePlain DEF NoJobs
<1>7. ASSUME NEW kinds \in Segmented \cup {<<"text">>}
      PROVE  Frameable(JobsOf(kinds))
  <2>1. \/ \E a \in Kinds : kinds = <<a>>
        \/ \E a, b \in Kinds : a # "drain" /\ kinds = <<a, b>>
    BY <1>5, <1>7 DEF Segmented
  <2> QED BY <1>3, <1>5, <2>1, FrameablePlain DEF JobsOf
<1>8. ASSUME NEW reason \in Reasons, NEW then \in {<<>>, <<close>>},
             NEW request \in QueuePipelineDrain(reason, then)
      PROVE  Frameable(request) /\ request.reason = reason
  <2>1. PICK kinds \in {<<"drain">>, <<"utterance", "drain">>}, after \in {then, <<ErrorOut>> \o then} :
           request = Request(kinds, reason, after)
    BY <1>8 DEF QueuePipelineDrain
  <2>2. \/ \E a \in Kinds : kinds = <<a>>
        \/ \E a, b \in Kinds : a # "drain" /\ kinds = <<a, b>>
    BY <1>5, <2>1
  <2>3. then \in Seq(Sendings) /\ Plain(then) /\ NoJob(then) /\ Closing(then)
    BY <1>3, <1>4, <1>8
  <2>4. after \in Seq(Sendings) /\ Plain(after) /\ NoJob(after) /\ Closing(after)
    <3>1. CASE after = then
      BY <2>3, <3>1
    <3>2. CASE after = <<ErrorOut>> \o then
      <4>1. /\ after \in Seq(Sendings) /\ Plain(after) /\ NoJob(after)
            /\ \A i \in DOMAIN after :
                  \/ \E j \in DOMAIN <<ErrorOut>> : after[i] = <<ErrorOut>>[j]
                  \/ \E j \in DOMAIN then : after[i] = then[j]
        BY <1>4, <2>3, <3>2, Joined
      <4> QED BY <1>4, <2>3, <4>1 DEF Closing
    <3> QED BY <2>1, <3>1, <3>2
  <2>5. reason \in Whys
    BY <1>8 DEF Whys
  <2>6. request.reason = reason
    BY <2>1 DEF Request
  <2> QED BY <2>1, <2>2, <2>4, <2>5, <2>6, FrameablePlain
<1> QED BY <1>6, <1>7, <1>8 DEF close

LEMMA SessionSets ==
    ASSUME NEW s \in Sessions
    PROVE  /\ \A a, b \in Nat, t \in Seq(Sendings) :
                 [s EXCEPT !.frames = a, !.jobCount = b, !.todo = t] \in Sessions
           /\ \A input \in InputStates : [s EXCEPT !.input = input] \in Sessions
           /\ \A b \in BOOLEAN, a \in Nat :
                 [s EXCEPT !.ttsOn = b, !.ttsEpoch = a] \in Sessions
<1> HIDE DEF Things, Sendings, InputStates, LoopStates
<1>1. ASSUME NEW a \in Nat, NEW b \in Nat, NEW t \in Seq(Sendings)
      PROVE  [s EXCEPT !.frames = a, !.jobCount = b, !.todo = t] \in Sessions
  BY <1>1 DEF Sessions
<1>2. ASSUME NEW input \in InputStates
      PROVE  [s EXCEPT !.input = input] \in Sessions
  BY <1>2 DEF Sessions
<1>3. ASSUME NEW b \in BOOLEAN, NEW a \in Nat
      PROVE  [s EXCEPT !.ttsOn = b, !.ttsEpoch = a] \in Sessions
  BY <1>3 DEF Sessions
<1> QED BY <1>1, <1>2, <1>3

LEMMA HandleIs ==
    ASSUME NEW request, Frameable(request), NEW update \in Sessions,
           update.jobCount = session.jobCount, generation \in Nat,
           Handle(request, update)
    PROVE  /\ session' \in Sessions
           /\ session'.todo = Queue(request.kinds, request.reason) \o request.then
           /\ session'.jobCount = session.jobCount + Len(request.kinds)
           /\ session'.pendingDrain = update.pendingDrain
           /\ session'.pendingTts = update.pendingTts
           /\ session'.loop = update.loop /\ session'.graceful = update.graceful
           /\ session'.input = update.input
<1> DEFINE todo == Queue(request.kinds, request.reason) \o request.then
<1>1. session.jobCount \in Nat
  BY DEF Sessions
<1>2. Queue(request.kinds, request.reason) \in Seq(Sendings)
  <2> HIDE DEF Kinds, Whys
  <2> QED BY <1>1, QueueIs DEF Frameable
<1>3. todo \in Seq(Sendings)
  BY <1>2, Joined DEF Frameable
<1>4. session' = [update EXCEPT !.frames = @ + 1,
                                !.jobCount = @ + Len(request.kinds), !.todo = todo]
  BY DEF Handle
<1>5. Len(request.kinds) \in Nat
  BY DEF Frameable
<1> HIDE DEF todo, Sendings
<1>6. /\ session' \in Sessions /\ session'.todo = todo
      /\ session'.jobCount = update.jobCount + Len(request.kinds)
      /\ session'.pendingDrain = update.pendingDrain
      /\ session'.pendingTts = update.pendingTts
      /\ session'.loop = update.loop /\ session'.graceful = update.graceful
      /\ session'.input = update.input
  <2>1. session' \in Sessions
    <3>1. update.frames + 1 \in Nat /\ update.jobCount + Len(request.kinds) \in Nat
      BY <1>5 DEF Sessions
    <3>2. [update EXCEPT !.frames = update.frames + 1,
                         !.jobCount = update.jobCount + Len(request.kinds), !.todo = todo] \in Sessions
      BY <1>3, <3>1, SessionSets
    <3> QED BY <1>4, <3>2
  <2> QED BY <1>3, <1>4, <1>5, <2>1 DEF Sessions
<1> QED BY <1>6 DEF todo

FrameEffect(request) ==
    /\ session.todo = <<>>
    /\ session' \in Sessions
    /\ session'.todo = Queue(request.kinds, request.reason) \o request.then
    /\ session'.jobCount = session.jobCount + Len(request.kinds)
    /\ session'.pendingDrain = session.pendingDrain
    /\ session'.pendingTts = session.pendingTts
    /\ session.loop = "run" /\ session'.loop = "run" /\ session'.graceful = session.graceful
    /\ session.input # "draining"
    /\ (\E i \in 1..Len(request.kinds) : request.kinds[i] = "drain")
          => request.reason = "paused" \/ session'.input = "draining"
    /\ generation' \in Nat /\ generation <= generation'
    /\ UNCHANGED <<worker, batch, tts, jobs, results, ttsJobs, ttsResults, out>>

LEMMA FrameIs ==
    ASSUME Typed,
           Reconfigure \/ Invalid \/ Pause \/ Resume \/ Finish
              \/ ToggleTts \/ TranslateText \/ Audio
    PROVE  \E request : Frameable(request) /\ FrameEffect(request)
<1>1. session \in Sessions /\ generation \in Nat
  BY DEF Typed
<1>2. PICK request, update :
        /\ Frameable(request) /\ Handle(request, update)
        /\ \/ update = session
           \/ \E input \in InputStates : update = [session EXCEPT !.input = input]
           \/ update = [session EXCEPT !.ttsOn = ~@, !.ttsEpoch = @ + 1]
        /\ \/ request.reason = "paused" \/ update.input = "draining"
           \/ \A i \in 1..Len(request.kinds) : request.kinds[i] # "drain"
  <2>0. /\ \A i \in 1..Len(NoJobs(<<>>).kinds) : NoJobs(<<>>).kinds[i] # "drain"
        /\ \A i \in 1..Len(NoJobs(<<ErrorOut>>).kinds) : NoJobs(<<ErrorOut>>).kinds[i] # "drain"
        /\ \A kinds \in Segmented \cup {<<"text">>} :
              \A i \in 1..Len(JobsOf(kinds).kinds) : JobsOf(kinds).kinds[i] # "drain"
    BY DEF NoJobs, JobsOf, Request, Segmented
  <2>1. CASE Reconfigure
    BY <2>0, <2>1, FramesSend DEF Reconfigure
  <2>2. CASE Invalid
    BY <2>0, <2>2, FramesSend DEF Invalid
  <2>3. CASE Pause
    <3>1. PICK request \in QueuePipelineDrain("paused", <<>>) :
             Handle(request, [session EXCEPT !.input = "paused"])
      BY <2>3 DEF Pause
    <3>2. Frameable(request) /\ request.reason = "paused"
      BY <3>1, FramesSend DEF Reasons
    <3> QED BY <3>1, <3>2 DEF InputStates
  <2>4. CASE Resume
    BY <2>0, <2>4, FramesSend DEF Resume, InputStates
  <2>5. CASE Finish
    <3> DEFINE update == [session EXCEPT !.input = "draining"]
    <3>1. PICK request \in QueuePipelineDrain("terminal", <<Do("close", Blank)>>) :
             Handle(request, update)
      BY <2>5 DEF Finish
    <3>2. Frameable(request)
      BY <3>1, FramesSend DEF Reasons
    <3>3. update.input = "draining"
      <4> HIDE DEF Things, Sendings
      <4> QED BY <1>1 DEF Sessions
    <3> QED BY <3>1, <3>2, <3>3 DEF InputStates
  <2>6. CASE ToggleTts
    BY <2>0, <2>6, FramesSend DEF ToggleTts
  <2>7. CASE TranslateText
    BY <2>0, <2>7, FramesSend DEF TranslateText
  <2>8. CASE Audio
    BY <2>0, <2>8, FramesSend DEF Audio
  <2> QED BY <2>1, <2>2, <2>3, <2>4, <2>5, <2>6, <2>7, <2>8
<1>3. /\ update \in Sessions /\ update.jobCount = session.jobCount
      /\ update.pendingDrain = session.pendingDrain
      /\ update.pendingTts = session.pendingTts
      /\ update.loop = session.loop /\ update.graceful = session.graceful
  <2>1. CASE update = session
    BY <1>1, <2>1
  <2>2. CASE \E input \in InputStates : update = [session EXCEPT !.input = input]
    <3>1. update \in Sessions
      BY <1>1, <2>2, SessionSets
    <3> QED BY <1>1, <2>2, <3>1 DEF Sessions
  <2>3. CASE update = [session EXCEPT !.ttsOn = ~@, !.ttsEpoch = @ + 1]
    <3>1. update \in Sessions
      <4>1. (~session.ttsOn) \in BOOLEAN
        OBVIOUS
      <4>2. session.ttsEpoch + 1 \in Nat
        BY <1>1 DEF Sessions
      <4> QED BY <1>1, <2>3, <4>1, <4>2, SessionSets
    <3> QED BY <1>1, <2>3, <3>1 DEF Sessions
  <2> QED BY <1>2, <2>1, <2>2, <2>3
<1>4. /\ session' \in Sessions
      /\ session'.todo = Queue(request.kinds, request.reason) \o request.then
      /\ session'.jobCount = session.jobCount + Len(request.kinds)
      /\ session'.pendingDrain = update.pendingDrain
      /\ session'.pendingTts = update.pendingTts
      /\ session'.loop = update.loop /\ session'.graceful = update.graceful
      /\ session'.input = update.input
  BY <1>1, <1>2, <1>3, HandleIs
<1>5. /\ session.todo = <<>> /\ session.loop = "run" /\ session.input # "draining"
      /\ UNCHANGED <<worker, batch, tts, jobs, results, ttsJobs, ttsResults, out>>
      /\ generation' \in Nat /\ generation <= generation'
  BY <1>1 DEF Reconfigure, Invalid, Pause, Resume, Finish, ToggleTts, TranslateText, Audio,
         Frame, Selecting, NoChannel
<1> QED BY <1>2, <1>3, <1>4, <1>5 DEF FrameEffect

LEMMA TodoTail ==
    ASSUME NEW t \in Seq(Sendings), t # <<>>
    PROVE  /\ Head(t) \in Sendings /\ Head(t) = t[1] /\ 1 \in DOMAIN t
           /\ Tail(t) \in Seq(Sendings)
           /\ \A i \in DOMAIN Tail(t) :
                 i \in Nat /\ i > 0 /\ i + 1 \in DOMAIN t /\ Tail(t)[i] = t[i + 1]
<1> HIDE DEF Sendings
<1>1. /\ Tail(t) \in Seq(Sendings) /\ Len(Tail(t)) = Len(t) - 1
      /\ \A i \in 1..Len(Tail(t)) : Tail(t)[i] = t[i + 1]
  BY HeadTailProperties
<1>2. Head(t) \in Sendings /\ Head(t) = t[1] /\ Len(t) \in Nat /\ Len(t) > 0
  BY HeadTailProperties, EmptySeq
<1> QED BY <1>1, <1>2

TypedAside == Typed /\ Aside

LEMMA TypedFrame ==
    ASSUME TypedAside, NEW request, Frameable(request), FrameEffect(request)
    PROVE  TypedAside' /\ Plain(session'.todo)
<1>1. session.jobCount \in Nat /\ generation \in Nat
  BY DEF TypedAside, Typed, Sessions
<1>2. /\ Queue(request.kinds, request.reason) \in Seq(Sendings)
      /\ \A i \in DOMAIN Queue(request.kinds, request.reason) :
            Queue(request.kinds, request.reason)[i].op = "job"
  <2> HIDE DEF Kinds, Whys
  <2> QED BY <1>1, QueueIs DEF Frameable
<1>3. Plain(Queue(request.kinds, request.reason))
  BY <1>2 DEF Plain
<1>4. Plain(session'.todo)
  BY <1>2, <1>3, Joined DEF Frameable, FrameEffect
<1>5. Typed'
  BY DEF FrameEffect, TypedAside, Typed
<1> QED BY <1>4, <1>5 DEF FrameEffect, TypedAside, Aside, Plain

LEMMA TypedWriter ==
    ASSUME TypedAside, WriterNext \/ UNCHANGED vars
    PROVE  TypedAside'
BY DEF WriterNext, WriterTake, WriterWrite, WriterFail, WriterClosed, vars, TypedAside, Typed, Aside

LEMMA TypedTts ==
    ASSUME TypedAside, TtsNext
    PROVE  TypedAside'
<1>0. Typed /\ Aside
  BY DEF TypedAside
<1>1. /\ tts.item \in Things /\ ttsJobs \in Seq(Things) /\ ttsResults \in Seq(Things)
      /\ UNCHANGED <<generation, session, worker, batch, jobs, results, out>>
  BY <1>0 DEF TtsNext, TtsReceive, TtsSynthesize, TtsSend, TtsClosed, Typed
<1>2. Blank \in Things
  BY AsideThings
<1>3. CASE TtsReceive
  <2>1. Head(ttsJobs) \in Things /\ Tail(ttsJobs) \in Seq(Things)
    BY <1>1, <1>3, Tailed DEF TtsReceive
  <2> HIDE DEF Things
  <2>2. tts' \in [pc : TtsStates, item : Things] /\ tts'.pc = "busy" /\ ttsJobs' \in Seq(Things)
    BY <1>3, <2>1 DEF TtsReceive, TtsStates
  <2> QED BY <1>0, <1>1, <1>3, <2>2 DEF TtsReceive, TypedAside, Typed, Aside
<1>4. CASE TtsSynthesize
  <2>1. PICK kind \in {"audio", "ttsError"} : tts' = [pc |-> "send", item |-> [tts.item EXCEPT !.kind = kind]]
    BY <1>4 DEF TtsSynthesize
  <2>2. [tts.item EXCEPT !.kind = kind] \in Things /\ ~Ordered([tts.item EXCEPT !.kind = kind])
    BY <1>1 DEF Things, Kinds, OutputKinds, Ordered
  <2> HIDE DEF Things, Ordered
  <2>3. tts' \in [pc : TtsStates, item : Things] /\ ~Ordered(tts'.item)
    BY <2>1, <2>2 DEF TtsStates
  <2> QED BY <1>0, <1>1, <1>4, <2>3 DEF TtsSynthesize, TypedAside, Typed, Aside
<1>5. CASE TtsSend
  <2>1. ttsResults' \in Seq(Things) /\ Silent(ttsResults')
    BY <1>0, <1>1, <1>5, Appended DEF TtsSend, Silent, Aside
  <2> HIDE DEF Things
  <2>2. tts' \in [pc : TtsStates, item : Things] /\ tts'.pc = "recv"
    BY <1>2, <1>5 DEF TtsSend, TtsStates
  <2> QED BY <1>0, <1>1, <1>5, <2>1, <2>2 DEF TtsSend, TypedAside, Typed, Aside
<1>6. CASE TtsClosed
  <2> HIDE DEF Things
  <2>1. tts' \in [pc : TtsStates, item : Things] /\ tts'.pc = "gone"
    BY <1>2, <1>6 DEF TtsClosed, TtsStates
  <2> QED BY <1>0, <1>1, <1>6, <2>1 DEF TtsClosed, TypedAside, Typed, Aside
<1> QED BY <1>3, <1>4, <1>5, <1>6 DEF TtsNext

LEMMA GotoIs ==
    ASSUME worker \in [pc : WorkerStates, job : Things, todo : Seq(Things), corpus : BOOLEAN],
           NEW pc \in WorkerStates, NEW events \in Seq(Things), Goto(pc, events)
    PROVE  /\ worker' \in [pc : WorkerStates, job : Things, todo : Seq(Things), corpus : BOOLEAN]
           /\ worker'.pc = pc /\ worker'.todo = events
           /\ pc \notin {"recv", "stopping", "gone"} => worker'.job = worker.job
<1>1. Blank \in Things
  BY AsideThings
<1> HIDE DEF Things, WorkerStates
<1> QED BY <1>1 DEF Goto

LEMMA EventIs ==
    ASSUME NEW kind \in EventKinds, NEW job \in Things, NEW seg \in Nat
    PROVE  /\ Event(kind, job, seg) \in Things
           /\ Event(kind, job, seg).kind = kind
           /\ Event(kind, job, seg).job = job.job
           /\ Event(kind, job, seg).seg = seg
<1>1. kind \in Kinds
  BY DEF Kinds
<1> HIDE DEF Kinds, Whys, EventKinds
<1> QED BY <1>1 DEF Event, Item, Things

\* What a step of the worker makes: nothing, or the events of a finished translation, or
\* one event of its job.
LEMMA TypedWorker ==
    ASSUME TypedAside, WorkerStep
    PROVE  TypedAside'
<1>0. /\ Typed /\ Aside
      /\ worker \in [pc : WorkerStates, job : Things, todo : Seq(Things), corpus : BOOLEAN]
      /\ worker.job \in Things /\ worker.todo \in Seq(Things) /\ batch.events \in Seq(Things)
      /\ jobs \in Seq(Things) /\ results \in Seq(Things)
      /\ generation \in Nat
  BY DEF TypedAside, Typed
<1>1. /\ Blank \in Things
      /\ <<>> \in Seq(Things)
      /\ NoBatch \in [pc : BatchStates, job : Things, events : Seq(Things)]
  <2>1. Blank \in Things /\ <<>> \in Seq(Things)
    BY AsideThings, EmptyIsSilent
  <2> HIDE DEF Things
  <2> QED BY <2>1 DEF NoBatch, BatchStates
<1>2. ASSUME NEW pc \in WorkerStates, NEW events \in Seq(Things), Goto(pc, events),
             batch' = batch \/ batch' = NoBatch,
             jobs' \in Seq(Things),
             UNCHANGED <<generation, session, tts, results, out, ttsJobs, ttsResults>>
      PROVE  TypedAside'
  <2>1. worker' \in [pc : WorkerStates, job : Things, todo : Seq(Things), corpus : BOOLEAN]
    BY <1>0, <1>2, GotoIs
  <2> HIDE DEF Things, NoBatch
  <2> QED BY <1>0, <1>1, <1>2, <2>1 DEF TypedAside, Typed, Aside
<1>3. \A kind \in EventKinds, seg \in Nat : <<Event(kind, worker.job, seg)>> \in Seq(Things)
  BY <1>0, EventIs, OneThing
<1>4. CASE WorkerSend
  <2>1. /\ Head(worker.todo) \in Things /\ Tail(worker.todo) \in Seq(Things)
        /\ results' \in Seq(Things)
    BY <1>0, <1>4, Tailed, Appended DEF WorkerSend
  <2> HIDE DEF Things
  <2>2. worker' \in [pc : WorkerStates, job : Things, todo : Seq(Things), corpus : BOOLEAN]
    BY <1>0, <1>4, <2>1 DEF WorkerSend
  <2> QED BY <1>0, <1>4, <2>1, <2>2 DEF WorkerSend, TypedAside, Typed, Aside
<1>5. CASE WorkerReceive
  <2>1. Head(jobs) \in Things /\ Tail(jobs) \in Seq(Things)
    BY <1>0, <1>5, Tailed DEF WorkerReceive
  <2> HIDE DEF Things
  <2>2. worker' \in [pc : WorkerStates, job : Things, todo : Seq(Things), corpus : BOOLEAN]
    BY <1>0, <1>5, <2>1 DEF WorkerReceive, WorkerStates
  <2> QED BY <1>0, <1>5, <2>1, <2>2 DEF WorkerReceive, NoChannelButJobs, TypedAside, Typed, Aside
<1>6. CASE WorkerStart
  <2>1. CASE Goto("recv", <<>>)
    BY <1>0, <1>1, <1>2, <1>6, <2>1 DEF WorkerStart, NoChannelButJobs, WorkerStates
  <2>2. CASE worker' = [worker EXCEPT !.pc = "stopping",
                          !.todo = <<Item("error", 0, generation, 0, "")>>, !.corpus = FALSE]
    <3>1. Item("error", 0, generation, 0, "") \in Things
      BY <1>0 DEF Item, Things, Kinds, EventKinds, Whys
    <3>2. <<Item("error", 0, generation, 0, "")>> \in Seq(Things)
      BY <3>1, OneThing
    <3> HIDE DEF Things
    <3>3. worker' \in [pc : WorkerStates, job : Things, todo : Seq(Things), corpus : BOOLEAN]
      BY <1>0, <2>2, <3>2 DEF WorkerStates
    <3> QED BY <1>0, <1>6, <3>3 DEF WorkerStart, NoChannelButJobs, TypedAside, Typed, Aside
  <2> QED BY <1>6, <2>1, <2>2 DEF WorkerStart
<1>7. CASE WorkerSpawn
  <2> HIDE DEF Things
  <2>1. batch' \in [pc : BatchStates, job : Things, events : Seq(Things)]
    BY <1>0, <1>1, <1>7 DEF WorkerSpawn, BatchStates
  <2>2. worker' \in [pc : WorkerStates, job : Things, todo : Seq(Things), corpus : BOOLEAN]
    BY <1>0, <1>1, <1>7, GotoIs DEF WorkerSpawn, WorkerStates
  <2> QED BY <1>0, <1>7, <2>1, <2>2 DEF WorkerSpawn, NoChannelButJobs, TypedAside, Typed, Aside
<1>8. CASE WorkerStop \/ WorkerCollect \/ WorkerClosed \/ WorkerCommit
  BY <1>0, <1>1, <1>2, <1>8
     DEF WorkerStop, WorkerCollect, WorkerClosed, WorkerCommit, NoChannelButJobs, WorkerStates
<1>9. CASE WorkerRecognize
  BY <1>0, <1>1, <1>2, <1>3, <1>9
     DEF WorkerRecognize, NoChannelButJobs, WorkerStates, EventKinds
<1>10. CASE WorkerEmit
  <2>1. CASE EmitStale
    BY <1>0, <1>1, <1>2, <1>10, <2>1 DEF WorkerEmit, EmitStale, NoChannelButJobs, WorkerStates
  <2>2. CASE EmitMarker
    BY <1>0, <1>1, <1>2, <1>3, <1>10, <2>2
       DEF WorkerEmit, EmitMarker, NoChannelButJobs, WorkerStates, EventKinds
  <2>3. CASE EmitRecognized
    <3>1. CASE Goto("recv", <<Event("error", worker.job, 0)>>)
      BY <1>0, <1>1, <1>2, <1>3, <1>10, <3>1
         DEF WorkerEmit, NoChannelButJobs, WorkerStates, EventKinds
    <3>2. ASSUME NEW count \in 0..MaxSegments,
                 worker' = [worker EXCEPT !.pc = "spawn", !.job.seg = count,
                              !.todo = <<Event("recognized", worker.job, count)>>]
          PROVE  TypedAside'
      <4>1. [worker.job EXCEPT !.seg = count] \in Things
        <5>1. count \in Nat
          BY <3>2, CapacityAssumption
        <5> HIDE DEF Kinds, Whys
        <5> QED BY <1>0, <5>1 DEF Things
      <4>2. <<Event("recognized", worker.job, count)>> \in Seq(Things)
        BY <1>3, CapacityAssumption DEF EventKinds
      <4> HIDE DEF Things
      <4>3. worker' \in [pc : WorkerStates, job : Things, todo : Seq(Things), corpus : BOOLEAN]
        BY <1>0, <3>2, <4>1, <4>2 DEF WorkerStates
      <4> QED BY <1>0, <1>10, <4>3 DEF WorkerEmit, NoChannelButJobs, TypedAside, Typed, Aside
    <3> QED BY <2>3, <3>1, <3>2 DEF EmitRecognized
  <2> QED BY <1>10, <2>1, <2>2, <2>3 DEF WorkerEmit
<1> QED BY <1>4, <1>5, <1>6, <1>7, <1>8, <1>9, <1>10 DEF WorkerStep, WorkerNext

LEMMA TypedBatch ==
    ASSUME TypedAside, BatchNext
    PROVE  TypedAside'
<1>0. /\ Typed /\ Aside
      /\ batch \in [pc : BatchStates, job : Things, events : Seq(Things)]
      /\ batch.events \in Seq(Things) /\ batch.job \in Things
      /\ Len(batch.events) \in Nat
  <2>1. batch.events \in Seq(Things) /\ Typed /\ Aside
    BY DEF TypedAside, Typed
  <2> QED BY <2>1, LenProperties DEF Typed
<1>1. \A kind \in EventKinds, seg \in Nat : Event(kind, batch.job, seg) \in Things
  BY <1>0, EventIs
<1>2. StreamEnd(batch.job) = <<>> \/ StreamEnd(batch.job) = <<Event("streamEnded", batch.job, 0)>>
  BY DEF StreamEnd
<1>3. batch.events \o StreamEnd(batch.job) \in Seq(Things)
  <2>1. StreamEnd(batch.job) \in Seq(Things)
    BY <1>1, <1>2, OneThing, EmptyIsSilent DEF EventKinds
  <2> QED BY <1>0, <2>1, ConcatProperties
<1>4. \A kind \in {"translation", "failed"} :
         Append(batch.events, Event(kind, batch.job, Len(batch.events) + 1)) \in Seq(Things)
  <2>1. \A kind \in {"translation", "failed"} : Event(kind, batch.job, Len(batch.events) + 1) \in Things
    BY <1>0, <1>1 DEF EventKinds
  <2> QED BY <1>0, <2>1, Appended
<1>5. batch' \in [pc : BatchStates, job : Things, events : Seq(Things)]
  <2> HIDE DEF Things
  <2>1. CASE batch' = [batch EXCEPT !.pc = "done", !.events = @ \o StreamEnd(batch.job)]
    BY <1>0, <1>3, <2>1 DEF BatchStates
  <2>2. CASE \E kind \in {"translation", "failed"} :
               batch' = [batch EXCEPT !.events =
                           Append(@, Event(kind, batch.job, Len(batch.events) + 1))]
    BY <1>0, <1>4, <2>2
  <2> QED BY <2>1, <2>2 DEF BatchNext
<1> QED BY <1>0, <1>5 DEF BatchNext, NoChannelButJobs, TypedAside, Typed, Aside

LEMMA TypedResult ==
    ASSUME TypedAside, HandleResult
    PROVE  /\ TypedAside' /\ NoJob(session'.todo)
           /\ \A i \in DOMAIN session'.todo :
                 session'.todo[i].op = "out" /\ Ordered(session'.todo[i].item)
                    => i = 1 /\ session'.todo[1].item = Head(results)
<1> DEFINE event == Head(results)
<1>0. /\ Typed /\ Aside /\ session \in Sessions /\ generation \in Nat
      /\ results # <<>> /\ results \in Seq(Things)
      /\ results' = Tail(results)
      /\ session.todo = <<>>
      /\ UNCHANGED <<generation, worker, batch, tts, jobs, ttsJobs, ttsResults, out>>
  BY DEF TypedAside, Typed, HandleResult, Selecting
<1>1. event \in Things /\ results' \in Seq(Things)
  BY <1>0, Tailed
<1>2. <<>> \in Seq(Sendings) /\ Plain(<<>>) /\ NoJob(<<>>)
  BY AsideThings, SomeSends
<1> HIDE DEF event
<1>3. CASE event.kind = "drained"
  <2>1. ~Ordered(event)
    BY <1>3 DEF Ordered
  <2>2. Drained(event) \in Seq(Sendings) /\ Plain(Drained(event)) /\ NoJob(Drained(event))
    BY <1>0, <1>1, <2>1, DrainedIsPlain
  <2>3. \/ session' = [session EXCEPT !.todo = Drained(event)]
        \/ session' = [session EXCEPT !.pendingDrain = event]
    BY <1>3 DEF HandleResult, HandleDrained, event
  <2> HIDE DEF Things, Sendings
  <2>4. /\ session' \in Sessions
        /\ ~Ordered(session'.pendingDrain)
        /\ Plain(session'.todo) /\ NoJob(session'.todo)
    <3>1. CASE session' = [session EXCEPT !.todo = Drained(event)]
      BY <1>0, <2>2, <3>1 DEF Sessions, Aside
    <3>2. CASE session' = [session EXCEPT !.pendingDrain = event]
      BY <1>0, <1>1, <1>2, <2>1, <3>2 DEF Sessions
    <3> QED BY <2>3, <3>1, <3>2
  <2>5. Typed' /\ Aside'
    BY <1>0, <1>1, <2>4 DEF Typed, Aside, Plain
  <2> QED BY <2>4, <2>5 DEF TypedAside, Plain
<1>4. CASE event.kind # "drained"
  <2>1. PICK spoken \in Spoken(event) :
           session' = [session EXCEPT !.todo = OutputOf(event, spoken),
                                      !.pendingTts = IF spoken THEN @ + 1 ELSE @]
    BY <1>4 DEF HandleResult, event
  <2>2. spoken \in BOOLEAN /\ session.ttsEpoch \in Nat
    BY <1>0, <2>1, FrameAssumption DEF Spoken, Sessions
  <2>3. /\ OutputOf(event, spoken) \in Seq(Sendings)
        /\ \A i \in DOMAIN OutputOf(event, spoken) :
              /\ OutputOf(event, spoken)[i].op # "job"
              /\ OutputOf(event, spoken)[i].op = "out" =>
                    /\ i = 1
                    /\ \/ OutputOf(event, spoken)[1].item = event
                       \/ ~Ordered(OutputOf(event, spoken)[1].item)
    BY <1>1, <2>2, OutputIs
  <2>4. PICK n \in Nat : session' = [session EXCEPT !.todo = OutputOf(event, spoken), !.pendingTts = n]
    <3>1. session.pendingTts \in Nat /\ session.pendingTts + 1 \in Nat
      BY <1>0 DEF Sessions
    <3> QED BY <2>1, <3>1
  <2> HIDE DEF Things, Sendings
  <2>5. /\ session' \in Sessions
        /\ session'.pendingDrain = session.pendingDrain
        /\ session'.todo = OutputOf(event, spoken)
    BY <1>0, <2>3, <2>4 DEF Sessions
  <2>6. Typed'
    BY <1>0, <1>1, <2>5 DEF Typed
  <2>7. Aside'
    BY <1>0, <2>3, <2>5 DEF Aside
  <2> QED BY <2>3, <2>5, <2>6, <2>7 DEF TypedAside, NoJob, event
<1> QED BY <1>3, <1>4

LEMMA TypedTtsResult ==
    ASSUME TypedAside, HandleTtsResult
    PROVE  TypedAside' /\ NoJob(session'.todo) /\ Plain(session'.todo)
<1> DEFINE result == Head(ttsResults)
           fence == session.pendingDrain
<1>0. /\ Typed /\ Aside /\ session \in Sessions /\ generation \in Nat
      /\ ttsResults # <<>> /\ ttsResults \in Seq(Things)
      /\ ttsResults' = Tail(ttsResults)
      /\ UNCHANGED <<generation, worker, batch, tts, jobs, results, ttsJobs, out>>
  BY DEF TypedAside, Typed, HandleTtsResult
<1>1. result \in Things /\ ~Ordered(result) /\ ttsResults' \in Seq(Things) /\ Silent(ttsResults')
  BY <1>0, Tailed DEF Aside, Silent
<1>2. fence \in Things /\ ~Ordered(fence)
  BY <1>0 DEF Sessions, Aside
<1>3. /\ <<>> \in Seq(Sendings) /\ Plain(<<>>) /\ NoJob(<<>>)
      /\ <<Do("out", result)>> \in Seq(Sendings)
      /\ Plain(<<Do("out", result)>>) /\ NoJob(<<Do("out", result)>>)
  <2>1. /\ Do("out", result) \in Sendings /\ Do("out", result).op = "out"
        /\ Do("out", result).item = result
    BY <1>1, AsideThings DEF Ops
  <2> QED BY <1>1, <2>1, SomeSends DEF Plain, NoJob
<1>4. Drained(fence) \in Seq(Sendings) /\ Plain(Drained(fence)) /\ NoJob(Drained(fence))
  BY <1>0, <1>2, DrainedIsPlain
<1> DEFINE first == IF TtsIsCurrent(result) THEN <<Do("out", result)>> ELSE <<>>
           done == LeftAfter(result) = 0 /\ fence # Blank
           last == IF done THEN Drained(fence) ELSE <<>>
<1>5. first \o last \in Seq(Sendings) /\ Plain(first \o last) /\ NoJob(first \o last)
  <2>1. first \in Seq(Sendings) /\ Plain(first) /\ NoJob(first)
    BY <1>3
  <2>2. last \in Seq(Sendings) /\ Plain(last) /\ NoJob(last)
    BY <1>3, <1>4
  <2> HIDE DEF first, last
  <2> QED BY <2>1, <2>2, Joined
<1>6. session' = [session EXCEPT !.pendingTts = LeftAfter(result),
                                 !.pendingDrain = IF done THEN Blank ELSE fence,
                                 !.todo = first \o last]
  BY DEF HandleTtsResult
<1>7. LeftAfter(result) \in Nat
  BY <1>0 DEF LeftAfter, Sessions
<1>8. (IF done THEN Blank ELSE fence) \in Things /\ ~Ordered(IF done THEN Blank ELSE fence)
  BY <1>2, AsideThings
<1> HIDE DEF first, last, done, fence, result, Things, Sendings
<1>9. /\ session' \in Sessions /\ session'.todo = first \o last
      /\ ~Ordered(session'.pendingDrain)
  BY <1>0, <1>5, <1>6, <1>7, <1>8 DEF Sessions
<1>10. Typed'
  BY <1>0, <1>1, <1>9 DEF Typed
<1>11. Aside'
  BY <1>0, <1>1, <1>5, <1>9 DEF Aside, Plain
<1> QED BY <1>5, <1>9, <1>10, <1>11 DEF TypedAside

\* What waits behind the head of the sends is plain.
LEMMA TailIsPlain ==
    ASSUME TypedAside, session.todo # <<>>
    PROVE  Tail(session.todo) \in Seq(Sendings) /\ Plain(Tail(session.todo))
<1>1. session.todo \in Seq(Sendings)
  BY DEF TypedAside, Typed, Sessions
<1>2. Tail(session.todo) \in Seq(Sendings)
  BY <1>1, TodoTail
<1>3. ASSUME NEW i \in DOMAIN Tail(session.todo), Tail(session.todo)[i].op = "out"
      PROVE  ~Ordered(Tail(session.todo)[i].item)
  <2>1. /\ i + 1 \in DOMAIN session.todo /\ i + 1 > 1
        /\ Tail(session.todo)[i] = session.todo[i + 1]
    BY <1>1, <1>3, TodoTail
  <2> QED BY <1>3, <2>1 DEF TypedAside, Aside
<1> QED BY <1>2, <1>3 DEF Plain

\* A step of the session after which what it has left to send is plain.
LEMMA TypedPlain ==
    ASSUME TypedAside,
           session' \in Sessions, Plain(session'.todo),
           session'.pendingDrain = session.pendingDrain,
           worker' \in [pc : WorkerStates, job : Things, todo : Seq(Things), corpus : BOOLEAN],
           batch' \in [pc : BatchStates, job : Things, events : Seq(Things)],
           tts' \in [pc : TtsStates, item : Things], tts' = tts \/ tts'.pc = "gone",
           jobs' \in Seq(Things), out' \in Seq(Things), ttsJobs' \in Seq(Things),
           UNCHANGED <<generation, results, ttsResults>>
    PROVE  TypedAside'
<1>1. Typed'
  BY DEF TypedAside, Typed
<1>2. Aside'
  BY DEF TypedAside, Aside, Plain
<1> QED BY <1>1, <1>2 DEF TypedAside

LEMMA TypedSends ==
    ASSUME TypedAside, Sends
    PROVE  TypedAside' /\ Plain(session'.todo)
<1>0. /\ Typed /\ Aside
      /\ session \in Sessions /\ session.todo \in Seq(Sendings) /\ session.todo # <<>>
      /\ worker \in [pc : WorkerStates, job : Things, todo : Seq(Things), corpus : BOOLEAN]
      /\ batch \in [pc : BatchStates, job : Things, events : Seq(Things)]
      /\ tts \in [pc : TtsStates, item : Things]
      /\ jobs \in Seq(Things) /\ out \in Seq(Things) /\ ttsJobs \in Seq(Things)
  BY DEF TypedAside, Typed, Sessions, Sends, SendJob, SendJobFails, SendTtsJob, SendOutput,
         SendOutputFails, CloseJobs, Leave, Sending
<1>1. /\ Tail(session.todo) \in Seq(Sendings) /\ Plain(Tail(session.todo))
      /\ Head(session.todo).item \in Things
  <2>1. Head(session.todo) \in Sendings
    BY <1>0, TodoTail
  <2> QED BY <1>0, <2>1, TailIsPlain DEF Sendings
<1>2. <<>> \in Seq(Sendings) /\ Plain(<<>>)
  BY AsideThings, SomeSends
<1>3. /\ <<ErrorOut>> \in Seq(Sendings) /\ Plain(<<ErrorOut>>)
      /\ <<ErrorOut, Do("close", Blank)>> \in Seq(Sendings)
      /\ Plain(<<ErrorOut, Do("close", Blank)>>)
  <2>1. /\ ErrorOut \in Sendings /\ ~Ordered(ErrorOut.item)
        /\ Do("close", Blank) \in Sendings /\ Do("close", Blank).op = "close"
    BY AsideThings DEF Ops
  <2> QED BY <2>1, SomeSends DEF Plain
<1>4. /\ Append(jobs, Head(session.todo).item) \in Seq(Things)
      /\ Append(ttsJobs, Head(session.todo).item) \in Seq(Things)
      /\ Append(out, Head(session.todo).item) \in Seq(Things)
  BY <1>0, <1>1, Appended
<1> HIDE DEF Things, Sendings
<1>5. ASSUME session' = [session EXCEPT !.todo = Tail(@)]
      PROVE  /\ session' \in Sessions /\ session'.pendingDrain = session.pendingDrain
             /\ Plain(session'.todo)
  BY <1>0, <1>1, <1>5 DEF Sessions
<1>6. CASE SendJob
  BY <1>0, <1>1, <1>4, <1>5, <1>6, TypedPlain DEF SendJob, Sent, Continue
<1>7. CASE SendTtsJob
  BY <1>0, <1>1, <1>4, <1>5, <1>7, TypedPlain DEF SendTtsJob, Sent, Continue
<1>8. CASE SendOutput
  BY <1>0, <1>1, <1>4, <1>5, <1>8, TypedPlain DEF SendOutput, Sent, Continue
<1>9. CASE CloseJobs
  <2>1. /\ session' \in Sessions /\ session'.pendingDrain = session.pendingDrain
        /\ session'.todo = Tail(session.todo)
    BY <1>0, <1>1, <1>9 DEF CloseJobs, Sessions
  <2> QED BY <1>0, <1>1, <1>9, <2>1, TypedPlain DEF CloseJobs, NoChannel
<1>10. CASE SendJobFails
  <2>1. \/ session' = [session EXCEPT !.loop = "exit", !.todo = <<>>]
        \/ \E t \in {<<ErrorOut>>, <<ErrorOut, Do("close", Blank)>>} :
              session' = [session EXCEPT !.todo = t]
    BY <1>10 DEF SendJobFails
  <2>2. /\ session' \in Sessions /\ session'.pendingDrain = session.pendingDrain
        /\ Plain(session'.todo)
    <3>1. CASE session' = [session EXCEPT !.loop = "exit", !.todo = <<>>]
      BY <1>0, <1>2, <3>1 DEF Sessions, LoopStates
    <3>2. ASSUME NEW t \in {<<ErrorOut>>, <<ErrorOut, Do("close", Blank)>>},
                 session' = [session EXCEPT !.todo = t]
          PROVE  /\ session' \in Sessions /\ session'.pendingDrain = session.pendingDrain
                 /\ Plain(session'.todo)
      <4>1. t \in Seq(Sendings) /\ Plain(t)
        BY <1>3, <3>2
      <4> QED BY <1>0, <3>2, <4>1 DEF Sessions
    <3> QED BY <2>1, <3>1, <3>2
  <2> QED BY <1>0, <1>10, <2>2, TypedPlain DEF SendJobFails, NoChannel
<1>11. CASE SendOutputFails
  <2>1. /\ session' \in Sessions /\ session'.pendingDrain = session.pendingDrain
        /\ session'.todo = <<>>
    BY <1>0, <1>2, <1>11 DEF SendOutputFails, Sessions, LoopStates
  <2> QED BY <1>0, <1>2, <1>11, <2>1, TypedPlain DEF SendOutputFails, NoChannel
<1>12. CASE Leave
  <2>1. /\ session' \in Sessions /\ session'.pendingDrain = session.pendingDrain
        /\ session'.todo = <<>>
    BY <1>0, <1>2, <1>12 DEF Leave, Sessions, LoopStates
  <2> QED BY <1>0, <1>2, <1>12, <2>1, TypedPlain DEF Leave, NoChannel
<1> QED BY <1>6, <1>7, <1>8, <1>9, <1>10, <1>11, <1>12 DEF Sends

\* The loop leaves, or goes on ending: what it has left to send stays as it is.
LEMMA TypedEnd ==
    ASSUME TypedAside, ResultsClosed \/ Disconnect \/ Teardown
    PROVE  /\ TypedAside'
           /\ session'.todo = session.todo /\ session'.jobCount = session.jobCount
<1>0. /\ Typed /\ Aside /\ session \in Sessions
      /\ worker \in [pc : WorkerStates, job : Things, todo : Seq(Things), corpus : BOOLEAN]
      /\ <<>> \in Seq(Things) /\ Blank \in Things
  BY AsideThings, EmptyIsSilent DEF TypedAside, Typed
<1> HIDE DEF Things, Sendings
<1>1. /\ session' \in Sessions /\ session'.pendingDrain = session.pendingDrain
      /\ session'.todo = session.todo /\ session'.jobCount = session.jobCount
  <2>1. CASE ResultsClosed
    BY <1>0, <2>1 DEF ResultsClosed, Sessions, LoopStates
  <2>2. CASE Disconnect
    <3>1. session.frames + 1 \in Nat /\ "exit" \in LoopStates
      BY <1>0 DEF Sessions, LoopStates
    <3>2. session' = [session EXCEPT !.loop = "exit", !.frames = session.frames + 1]
      BY <2>2 DEF Disconnect
    <3> QED BY <1>0, <3>1, <3>2 DEF Sessions
  <2>3. ASSUME NEW from, NEW to \in LoopStates, At(from, to)
        PROVE  /\ session' \in Sessions /\ session'.pendingDrain = session.pendingDrain
               /\ session'.todo = session.todo /\ session'.jobCount = session.jobCount
    BY <1>0, <2>3 DEF At, Sessions
  <2>4. CASE Teardown
    <3>1. \/ At("exit", "joinWorker") \/ At("joinWorker", "joinTts")
          \/ At("joinTts", "joinWriter") \/ At("joinWriter", "closed")
      BY <2>4 DEF Teardown, StopWorker, JoinWorker, JoinTts, JoinWriter
    <3>2. {"joinWorker", "joinTts", "joinWriter", "closed"} \subseteq LoopStates
      BY DEF LoopStates
    <3> HIDE DEF LoopStates
    <3> QED BY <2>3, <3>1, <3>2
  <2> QED BY <2>1, <2>2, <2>4
<1>2. /\ UNCHANGED <<generation, results, ttsResults, out>>
      /\ worker' = worker \/ worker' = [worker EXCEPT !.pc = "gone", !.todo = <<>>, !.job = Blank]
      /\ batch' = batch \/ batch' = [pc |-> "none", job |-> Blank, events |-> <<>>]
      /\ tts' = tts \/ tts' = [pc |-> "gone", item |-> Blank]
      /\ jobs' = jobs \/ jobs' = <<>>
      /\ ttsJobs' = ttsJobs \/ ttsJobs' = <<>>
  BY DEF ResultsClosed, Disconnect, NoChannel, Teardown, StopWorker, JoinWorker, JoinTts, JoinWriter
<1>3. /\ worker' \in [pc : WorkerStates, job : Things, todo : Seq(Things), corpus : BOOLEAN]
      /\ batch' \in [pc : BatchStates, job : Things, events : Seq(Things)]
      /\ tts' \in [pc : TtsStates, item : Things]
      /\ tts' = tts \/ tts'.pc = "gone"
  <2>1. worker' \in [pc : WorkerStates, job : Things, todo : Seq(Things), corpus : BOOLEAN]
    BY <1>0, <1>2 DEF WorkerStates
  <2>2. batch' \in [pc : BatchStates, job : Things, events : Seq(Things)]
    <3>1. [pc |-> "none", job |-> Blank, events |-> <<>>]
             \in [pc : BatchStates, job : Things, events : Seq(Things)]
      BY <1>0 DEF BatchStates
    <3> QED BY <1>0, <1>2, <3>1 DEF Typed
  <2>3. tts' \in [pc : TtsStates, item : Things] /\ (tts' = tts \/ tts'.pc = "gone")
    BY <1>0, <1>2 DEF Typed, TtsStates
  <2> QED BY <2>1, <2>2, <2>3
<1>4. jobs' \in Seq(Things) /\ ttsJobs' \in Seq(Things)
  BY <1>0, <1>2 DEF Typed
<1>5. Typed'
  BY <1>0, <1>1, <1>2, <1>3, <1>4 DEF Typed
<1>6. Aside'
  BY <1>0, <1>1, <1>2, <1>3 DEF Aside
<1> QED BY <1>1, <1>5, <1>6 DEF TypedAside

-----------------------------------------------------------------------------
(* A step keeps the order *)

LEMMA WrittenIs ==
    ASSUME NEW todo \in Seq(Sendings)
    PROVE  Written(todo) \in Seq(Things) /\ (Plain(todo) => Silent(Written(todo)))
<1>1. CASE todo # <<>> /\ Head(todo).op = "out"
  <2>1. Head(todo) \in Sendings /\ Head(todo) = todo[1] /\ 1 \in DOMAIN todo
    BY <1>1, TodoTail
  <2>2. Head(todo).item \in Things
    BY <2>1 DEF Sendings
  <2>3. Plain(todo) => ~Ordered(Head(todo).item)
    BY <1>1, <2>1 DEF Plain
  <2> QED BY <1>1, <2>2, <2>3, OneThing DEF Written
<1>2. CASE ~(todo # <<>> /\ Head(todo).op = "out")
  BY <1>2, EmptyIsSilent DEF Written
<1> QED BY <1>1, <1>2

LEMMA StagesAre ==
    ASSUME Typed, Typed'
    PROVE  /\ Stages \in Chains
           /\ Stages[1] = out /\ Stages[2] = Written(session.todo) /\ Stages[3] = results
           /\ Stages[4] = worker.todo /\ Stages[5] = batch.events
           /\ Stages' \in Chains
           /\ Stages'[1] = out' /\ Stages'[2] = Written(session'.todo) /\ Stages'[3] = results'
           /\ Stages'[4] = worker'.todo /\ Stages'[5] = batch'.events
<1>1. /\ out \in Seq(Things) /\ session.todo \in Seq(Sendings) /\ results \in Seq(Things)
      /\ worker.todo \in Seq(Things) /\ batch.events \in Seq(Things)
  BY DEF Typed, Sessions
<1>2. /\ out' \in Seq(Things) /\ session'.todo \in Seq(Sendings) /\ results' \in Seq(Things)
      /\ worker'.todo \in Seq(Things) /\ batch'.events \in Seq(Things)
  BY DEF Typed, Sessions
<1>3. Written(session.todo) \in Seq(Things) /\ Written(session'.todo) \in Seq(Things)
  BY <1>1, <1>2, WrittenIs
<1>4. Stages' = <<out', Written(session'.todo), results', worker'.todo, batch'.events>>
  BY DEF Stages
<1> HIDE DEF Written
<1> QED BY <1>1, <1>2, <1>3, <1>4, Listed, SMTT(60) DEF Stages

\* The order stays, and what has been reached goes no further.
Kept ==
    /\ InOrder(Stages')
    /\ \A n, m : Reach(Stages, n, m) => Reach(Stages', n, m)

LEMMA StagesStay ==
    ASSUME Typed, Typed', InOrder(Stages),
           out' = out, results' = results,
           worker'.todo = worker.todo \/ Silent(worker'.todo),
           batch'.events = batch.events \/ Silent(batch'.events),
           Silent(Written(session'.todo)) \/ session'.todo = session.todo
    PROVE  Kept
<1>1. /\ Stages \in Chains
      /\ Stages[1] = out /\ Stages[2] = Written(session.todo) /\ Stages[3] = results
      /\ Stages[4] = worker.todo /\ Stages[5] = batch.events
      /\ Stages' \in Chains
      /\ Stages'[1] = out' /\ Stages'[2] = Written(session'.todo) /\ Stages'[3] = results'
      /\ Stages'[4] = worker'.todo /\ Stages'[5] = batch'.events
  BY StagesAre
<1>2. \A k \in 1..5 : Stages'[k] = Stages[k] \/ Silent(Stages'[k])
  <2>1. \A k \in 1..5 : k = 1 \/ k = 2 \/ k = 3 \/ k = 4 \/ k = 5
    OBVIOUS
  <2> QED BY <1>1, <2>1
<1>3. \A k \in 1..5 : Stages[k] \in Seq(Things) /\ Stages'[k] \in Seq(Things)
  BY <1>1 DEF Chains
<1>4. \A k \in 1..5 : Sorted(Stages[k])
  BY DEF InOrder
<1>5. \A k \in 1..5 : Sorted(Stages'[k])
  BY <1>2, <1>3, <1>4, SilentOrder
<1>6. ASSUME NEW k \in 1..5, NEW l \in 1..5, k < l
      PROVE  Ahead(Stages'[k], Stages'[l])
  <2>1. Ahead(Stages[k], Stages[l])
    BY <1>6 DEF InOrder
  <2>2. CASE Stages'[k] = Stages[k] /\ Stages'[l] = Stages[l]
    BY <2>1, <2>2
  <2>3. CASE Silent(Stages'[k]) \/ Silent(Stages'[l])
    BY <1>3, <2>3, SilentOrder
  <2> QED BY <1>2, <2>2, <2>3
<1>7. ASSUME NEW n, NEW m, Reach(Stages, n, m)
      PROVE  Reach(Stages', n, m)
  BY <1>2, <1>3, <1>7, SilentOrder DEF Reach
<1> QED BY <1>5, <1>6, <1>7 DEF Kept, InOrder

UpcomingNext(w) == Beyond(Stages', WorkNo', BatchNo', w)

LEMMA UpcomingStays ==
    ASSUME Typed, Typed', Kept,
           WorkNo' \in {0, WorkNo}, BatchNo' \in {0, BatchNo, WorkNo}
    PROVE  \A w \in Nat : Upcoming(w) => UpcomingNext(w)
<1>1. WorkNo \in Nat /\ BatchNo \in Nat
  BY DEF Typed, WorkNo, BatchNo, Things
<1>2. ASSUME NEW w \in Nat, Upcoming(w)
      PROVE  UpcomingNext(w)
  <2>1. Reach(Stages', w, 0)
    BY <1>2 DEF Upcoming, Beyond, Kept
  <2>2. WorkNo < w /\ BatchNo < w
    BY <1>2 DEF Upcoming, Beyond
  <2>3. WorkNo' < w /\ BatchNo' < w
    BY <1>1, <1>2, <2>2
  <2> QED BY <2>1, <2>3 DEF UpcomingNext, Beyond
<1> QED BY <1>2

\* s is t without its first elements.
Rest(s, t) ==
    \E d \in Nat : \A i \in DOMAIN s : i \in Nat /\ i + d \in DOMAIN t /\ s[i] = t[i + d]

LEMMA RestIs ==
    /\ \A s \in Seq(Things) : Rest(s, s) /\ Rest(<<>>, s)
    /\ \A s \in Seq(Things) : s # <<>> => Rest(Tail(s), s)
    /\ \A s \in Seq(Sendings) : Rest(s, s) /\ Rest(<<>>, s)
    /\ \A s \in Seq(Sendings) : s # <<>> => Rest(Tail(s), s)
<1>1. \A S : \A s \in Seq(S) : Rest(s, s)
  <2> SUFFICES ASSUME NEW S, NEW s \in Seq(S)
               PROVE  Rest(s, s)
    OBVIOUS
  <2>1. \A i \in DOMAIN s : i \in Nat /\ i + 0 \in DOMAIN s /\ s[i] = s[i + 0]
    BY LenProperties
  <2> QED BY <2>1 DEF Rest
<1>2. \A s : Rest(<<>>, s)
  <2>1. DOMAIN <<>> = {}
    OBVIOUS
  <2> QED BY <2>1 DEF Rest
<1>3. \A s \in Seq(Things) : s # <<>> => Rest(Tail(s), s)
  BY Tailed DEF Rest
<1>4. \A s \in Seq(Sendings) : s # <<>> => Rest(Tail(s), s)
  BY TodoTail DEF Rest
<1> QED BY <1>1, <1>2, <1>3, <1>4

LEMMA ComingStays ==
    ASSUME Typed, Coming,
           \A w \in Nat : Upcoming(w) => UpcomingNext(w),
           session'.jobCount = session.jobCount,
           Rest(jobs', jobs),
           Rest(session'.todo, session.todo) \/ NoJob(session'.todo)
    PROVE  Coming'
<1>1. /\ session.jobCount \in Nat
      /\ \A i \in DOMAIN jobs : i \in Nat /\ jobs[i].job \in Nat
      /\ \A i \in DOMAIN session.todo : i \in Nat /\ session.todo[i].item.job \in Nat
  <2>1. jobs \in Seq(Things) /\ session.todo \in Seq(Sendings) /\ session.jobCount \in Nat
    BY DEF Typed, Sessions
  <2>2. \A i \in DOMAIN jobs : i \in Nat /\ jobs[i] \in Things
    <3> HIDE DEF Things
    <3> QED BY <2>1
  <2>3. \A i \in DOMAIN session.todo : i \in Nat /\ session.todo[i] \in Sendings
    <3> HIDE DEF Sendings
    <3> QED BY <2>1
  <2> QED BY <2>1, <2>2, <2>3 DEF Things, Sendings
<1>2. PICK d \in Nat : \A i \in DOMAIN jobs' : i \in Nat /\ i + d \in DOMAIN jobs /\ jobs'[i] = jobs[i + d]
  BY DEF Rest
<1>3. /\ \A i \in DOMAIN jobs' : UpcomingNext(jobs'[i].job) /\ jobs'[i].job <= session'.jobCount
      /\ \A i, j \in DOMAIN jobs' : i < j => jobs'[i].job < jobs'[j].job
  <2>1. ASSUME NEW i \in DOMAIN jobs'
        PROVE  UpcomingNext(jobs'[i].job) /\ jobs'[i].job <= session'.jobCount
    BY <1>1, <1>2, <2>1 DEF Coming
  <2>2. ASSUME NEW i \in DOMAIN jobs', NEW j \in DOMAIN jobs', i < j
        PROVE  jobs'[i].job < jobs'[j].job
    <3>1. i + d < j + d
      BY <1>2, <2>2
    <3> QED BY <1>2, <2>2, <3>1 DEF Coming
  <2> QED BY <2>1, <2>2
<1>4. UpcomingNext(session'.jobCount + 1)
  <2>1. session.jobCount + 1 \in Nat
    BY <1>1
  <2> QED BY <2>1 DEF Coming
<1>5. CASE NoJob(session'.todo)
  BY <1>3, <1>4, <1>5 DEF Coming, NoJob, Upcoming, UpcomingNext
<1>6. CASE Rest(session'.todo, session.todo)
  <2>1. PICK c \in Nat : \A i \in DOMAIN session'.todo :
           i \in Nat /\ i + c \in DOMAIN session.todo /\ session'.todo[i] = session.todo[i + c]
    BY <1>6 DEF Rest
  <2>2. ASSUME NEW i \in DOMAIN session'.todo, session'.todo[i].op = "job"
        PROVE  /\ UpcomingNext(session'.todo[i].item.job)
               /\ session'.todo[i].item.job <= session'.jobCount
               /\ \A j \in DOMAIN jobs' : jobs'[j].job < session'.todo[i].item.job
               /\ \A j \in DOMAIN session'.todo :
                     i < j /\ session'.todo[j].op = "job"
                        => session'.todo[i].item.job < session'.todo[j].item.job
    <3> DEFINE job == session.todo[i + c].item.job
    <3>1. /\ i \in Nat /\ i + c \in DOMAIN session.todo /\ session'.todo[i] = session.todo[i + c]
          /\ session.todo[i + c].op = "job"
      BY <2>1, <2>2
    <3>2. /\ Upcoming(job) /\ job <= session.jobCount /\ job \in Nat
          /\ \A j \in DOMAIN jobs : jobs[j].job < job
          /\ \A j \in DOMAIN session.todo :
                i + c < j /\ session.todo[j].op = "job" => job < session.todo[j].item.job
      BY <1>1, <3>1 DEF Coming
    <3>3. \A j \in DOMAIN jobs' : jobs'[j].job < job
      BY <1>2, <3>2
    <3>4. ASSUME NEW j \in DOMAIN session'.todo, i < j, session'.todo[j].op = "job"
          PROVE  job < session'.todo[j].item.job
      <4>1. j \in Nat /\ j + c \in DOMAIN session.todo /\ session'.todo[j] = session.todo[j + c]
        BY <2>1, <3>4
      <4>2. i + c < j + c
        BY <3>1, <3>4, <4>1
      <4> QED BY <3>2, <3>4, <4>1, <4>2
    <3>5. UpcomingNext(job)
      BY <3>2
    <3> QED BY <3>1, <3>2, <3>3, <3>4, <3>5
  <2> QED BY <1>3, <1>4, <2>2 DEF Coming, Upcoming, UpcomingNext
<1> QED BY <1>5, <1>6

LEMMA BeyondMore ==
    ASSUME NEW S \in Chains, NEW work \in Nat, NEW batched \in Nat, NEW n \in Nat, NEW w \in Nat,
           n <= w, Beyond(S, work, batched, n)
    PROVE  Beyond(S, work, batched, w)
<1>1. ASSUME NEW k \in 1..5, NEW i \in DOMAIN S[k]
      PROVE  Fits(S[k][i], w, 0)
  <2>1. S[k] \in Seq(Things)
    BY <1>1 DEF Chains
  <2>2. S[k][i] \in Things
    <3> HIDE DEF Things
    <3> QED BY <1>1, <2>1
  <2>3. S[k][i].job \in Nat
    BY <2>2 DEF Things
  <2>4. Fits(S[k][i], n, 0)
    BY <1>1 DEF Beyond, Reach, Within
  <2> QED BY <2>3, <2>4 DEF Fits
<1> QED BY <1>1 DEF Beyond, Reach, Within

LEMMA NumbersAre ==
    ASSUME Typed
    PROVE  /\ session.jobCount \in Nat /\ WorkNo \in Nat /\ BatchNo \in Nat
           /\ worker.job.job \in Nat /\ batch.job.job \in Nat
           /\ \A i \in DOMAIN jobs : i \in Nat /\ jobs[i] \in Things /\ jobs[i].job \in Nat
           /\ \A i \in DOMAIN session.todo :
                 i \in Nat /\ session.todo[i] \in Sendings /\ session.todo[i].item.job \in Nat
<1>1. jobs \in Seq(Things) /\ session.todo \in Seq(Sendings) /\ session.jobCount \in Nat
  BY DEF Typed, Sessions
<1>2. \A i \in DOMAIN jobs : i \in Nat /\ jobs[i] \in Things
  <2> HIDE DEF Things
  <2> QED BY <1>1
<1>3. \A i \in DOMAIN session.todo : i \in Nat /\ session.todo[i] \in Sendings
  <2> HIDE DEF Sendings
  <2> QED BY <1>1
<1>4. worker.job.job \in Nat /\ batch.job.job \in Nat
  BY DEF Typed, Things
<1> QED BY <1>1, <1>2, <1>3, <1>4 DEF Things, Sendings, WorkNo, BatchNo

LEMMA OrderQuiet ==
    ASSUME OrderInv, TypedAside', Kept, Coming',
           worker'.pc = worker.pc, worker'.job = worker.job, batch' = batch
    PROVE  OrderInv'
<1>1. Working'
  <2>1. BatchNo' = BatchNo
    BY DEF BatchNo
  <2> QED BY <2>1 DEF OrderInv, Working, Kept
<1>2. Translating'
  BY DEF OrderInv, Translating, Kept
<1>3. InOrder(Stages)'
  BY DEF Kept
<1> QED BY <1>1, <1>2, <1>3 DEF OrderInv, TypedAside

LEMMA OrderFrame ==
    ASSUME OrderInv, NEW request, Frameable(request), FrameEffect(request)
    PROVE  OrderInv'
<1>1. TypedAside /\ Typed
  BY DEF OrderInv, TypedAside
<1>2. TypedAside' /\ Plain(session'.todo) /\ Typed'
  BY <1>1, TypedFrame DEF TypedAside
<1>3. Silent(Written(session'.todo))
  BY <1>2, WrittenIs DEF Typed, Sessions
<1>4. Kept
  BY <1>1, <1>2, <1>3, StagesStay DEF OrderInv, FrameEffect
<1>5. \A w \in Nat : Upcoming(w) => UpcomingNext(w)
  <2>1. WorkNo' = WorkNo /\ BatchNo' = BatchNo
    BY DEF FrameEffect, WorkNo, BatchNo
  <2> QED BY <1>1, <1>2, <1>4, <2>1, UpcomingStays
<1> DEFINE q == Queue(request.kinds, request.reason)
           c == session.jobCount
           n == Len(request.kinds)
<1>6. c \in Nat /\ n \in Nat /\ session'.jobCount = c + n
  BY <1>1, NumbersAre DEF Frameable, FrameEffect
<1>7. /\ q \in Seq(Sendings) /\ Len(q) = n /\ session'.todo = q \o request.then
      /\ \A i \in DOMAIN q : i \in 1..n /\ q[i].op = "job" /\ q[i].item.job = c + i
  <2>1. generation \in Nat
    BY <1>1 DEF Typed
  <2> HIDE DEF Kinds, Whys
  <2> QED BY <1>6, <2>1, QueueIs DEF Frameable, FrameEffect
<1> HIDE DEF q, c, n
<1>8. \A i \in DOMAIN session'.todo : session'.todo[i].op = "job" =>
         i \in 1..n /\ session'.todo[i].item.job = c + i
  <2>1. \A i \in DOMAIN request.then : request.then[i].op # "job"
    BY DEF Frameable, NoJob
  <2>2. request.then \in Seq(Sendings)
    BY DEF Frameable
  <2>3. \A i \in DOMAIN session'.todo :
           \/ i \in DOMAIN q /\ session'.todo[i] = q[i]
           \/ i - Len(q) \in DOMAIN request.then /\ session'.todo[i] = request.then[i - Len(q)]
    BY <1>7, <2>2, Joined
  <2> QED BY <1>7, <2>1, <2>3
<1>9. \A w \in Nat : w > c => UpcomingNext(w)
  <2>1. Upcoming(c + 1)
    BY DEF OrderInv, Coming, c
  <2>2. UpcomingNext(c + 1) /\ c + 1 \in Nat
    BY <1>5, <1>6, <2>1
  <2>3. Stages' \in Chains
    BY <1>1, <1>2, StagesAre
  <2>4. WorkNo' \in Nat /\ BatchNo' \in Nat
    BY <1>1, NumbersAre DEF FrameEffect, WorkNo, BatchNo
  <2>5. \A w \in Nat : w > c => c + 1 <= w
    BY <1>6
  <2> QED BY <2>2, <2>3, <2>4, <2>5, BeyondMore DEF UpcomingNext
<1>10. jobs' = jobs /\ \A i \in DOMAIN jobs : jobs[i].job \in Nat /\ jobs[i].job <= c
  BY <1>1, NumbersAre DEF FrameEffect, OrderInv, Coming, c
<1>11. Coming'
  <2>1. UpcomingNext(session'.jobCount + 1)
    <3>1. session'.jobCount + 1 \in Nat /\ session'.jobCount + 1 > c
      BY <1>6
    <3> QED BY <1>9, <3>1
  <2>2. \A i \in DOMAIN jobs' : UpcomingNext(jobs'[i].job) /\ jobs'[i].job <= session'.jobCount
    BY <1>1, <1>5, <1>6, <1>10 DEF OrderInv, Coming
  <2>3. \A i, j \in DOMAIN jobs' : i < j => jobs'[i].job < jobs'[j].job
    BY <1>10 DEF OrderInv, Coming
  <2>4. ASSUME NEW i \in DOMAIN session'.todo, session'.todo[i].op = "job"
        PROVE  /\ UpcomingNext(session'.todo[i].item.job)
               /\ session'.todo[i].item.job <= session'.jobCount
               /\ \A j \in DOMAIN jobs' : jobs'[j].job < session'.todo[i].item.job
               /\ \A j \in DOMAIN session'.todo :
                     i < j /\ session'.todo[j].op = "job"
                        => session'.todo[i].item.job < session'.todo[j].item.job
    <3>1. i \in 1..n /\ session'.todo[i].item.job = c + i
      BY <1>8, <2>4
    <3>2. c + i \in Nat /\ c + i > c /\ c + i <= c + n
      BY <1>6, <3>1
    <3>3. \A j \in DOMAIN jobs' : jobs'[j].job < c + i
      BY <1>6, <1>10, <3>2
    <3>4. \A j \in 1..n : i < j => c + i < c + j
      BY <1>6, <3>1
    <3> QED BY <1>6, <1>8, <1>9, <3>1, <3>2, <3>3, <3>4
  <2> QED BY <2>1, <2>2, <2>3, <2>4 DEF Coming, Upcoming, UpcomingNext
<1>12. worker' = worker /\ batch' = batch
  BY DEF FrameEffect
<1> QED BY <1>2, <1>4, <1>11, <1>12, OrderQuiet

\* Steps after which the stages are as they were, or hold less.
LEMMA OrderPlain ==
    ASSUME OrderInv, TypedAside',
           session'.jobCount = session.jobCount,
           Rest(session'.todo, session.todo) \/ NoJob(session'.todo),
           Plain(session'.todo) \/ session'.todo = session.todo,
           Rest(jobs', jobs),
           UNCHANGED <<worker, batch, results, out>>
    PROVE  OrderInv'
<1>1. Typed /\ Typed' /\ session'.todo \in Seq(Sendings)
  BY DEF OrderInv, TypedAside, Typed, Sessions
<1>2. Silent(Written(session'.todo)) \/ session'.todo = session.todo
  BY <1>1, WrittenIs
<1>3. Kept
  BY <1>1, <1>2, StagesStay DEF OrderInv
<1>4. WorkNo' = WorkNo /\ BatchNo' = BatchNo
  BY DEF WorkNo, BatchNo
<1>5. \A w \in Nat : Upcoming(w) => UpcomingNext(w)
  BY <1>1, <1>3, <1>4, UpcomingStays
<1>6. Coming'
  BY <1>1, <1>5, ComingStays DEF OrderInv
<1> QED BY <1>3, <1>6, OrderQuiet

LEMMA OrderResult ==
    ASSUME OrderInv, HandleResult
    PROVE  OrderInv'
<1>1. /\ Typed /\ TypedAside /\ results # <<>> /\ results \in Seq(Things)
      /\ results' = Tail(results) /\ session.todo = <<>>
      /\ session'.jobCount = session.jobCount
      /\ UNCHANGED <<generation, worker, batch, jobs, out>>
  <2>1. /\ Typed /\ TypedAside /\ results \in Seq(Things) /\ session \in Sessions
    BY DEF OrderInv, TypedAside, Typed
  <2>2. /\ results # <<>> /\ results' = Tail(results) /\ session.todo = <<>>
        /\ UNCHANGED <<generation, worker, batch, jobs, out>>
    BY DEF HandleResult, Selecting
  <2>3. session'.jobCount = session.jobCount
    <3>1. CASE HandleDrained(Head(results))
      <4>1. \/ session' = [session EXCEPT !.todo = Drained(Head(results))]
            \/ session' = [session EXCEPT !.pendingDrain = Head(results)]
        BY <3>1 DEF HandleDrained
      <4> QED BY <2>1, <4>1 DEF Sessions
    <3>2. ASSUME NEW spoken,
                 session' = [session EXCEPT !.todo = OutputOf(Head(results), spoken),
                               !.pendingTts = IF spoken THEN @ + 1 ELSE @]
          PROVE  session'.jobCount = session.jobCount
      BY <2>1, <3>2 DEF Sessions
    <3> QED BY <3>1, <3>2 DEF HandleResult
  <2> QED BY <2>1, <2>2, <2>3
<1>2. /\ TypedAside' /\ NoJob(session'.todo)
      /\ \A i \in DOMAIN session'.todo :
            session'.todo[i].op = "out" /\ Ordered(session'.todo[i].item)
               => i = 1 /\ session'.todo[1].item = Head(results)
  BY <1>1, TypedResult
<1>3. /\ Typed' /\ session'.todo \in Seq(Sendings)
      /\ Head(results) \in Things /\ Tail(results) \in Seq(Things)
  BY <1>1, <1>2, Tailed DEF TypedAside, Typed, Sessions
<1>4. /\ Stages \in Chains
      /\ Stages[1] = out /\ Stages[2] = Written(session.todo) /\ Stages[3] = results
      /\ Stages[4] = worker.todo /\ Stages[5] = batch.events
      /\ Stages' \in Chains
      /\ Stages'[1] = out' /\ Stages'[2] = Written(session'.todo) /\ Stages'[3] = results'
      /\ Stages'[4] = worker'.todo /\ Stages'[5] = batch'.events
  BY <1>1, <1>3, StagesAre
<1>5. Written(session.todo) = <<>>
  BY <1>1 DEF Written
<1>6. \/ Written(session'.todo) = Append(<<>>, Head(results))
      \/ Silent(Written(session'.todo))
  <2>1. CASE Plain(session'.todo)
    BY <1>3, <2>1, WrittenIs
  <2>2. CASE ~Plain(session'.todo)
    <3>1. PICK i \in DOMAIN session'.todo :
             session'.todo[i].op = "out" /\ Ordered(session'.todo[i].item)
      BY <2>2 DEF Plain
    <3>2. /\ 1 \in DOMAIN session'.todo /\ session'.todo[1].op = "out"
          /\ session'.todo[1].item = Head(results)
      BY <1>2, <3>1
    <3>3. session'.todo # <<>>
      BY <3>2
    <3>4. Head(session'.todo) = session'.todo[1]
      BY <1>3, <3>3, TodoTail
    <3>5. Written(session'.todo) = <<Head(results)>>
      BY <3>2, <3>3, <3>4 DEF Written
    <3>6. \A e : Append(<<>>, e) = <<e>>
      OBVIOUS
    <3> QED BY <3>5, <3>6
  <2> QED BY <2>1, <2>2
<1>7. \A i \in 1..5 : i # 2 /\ i # 3 => Stages'[i] = Stages[i]
  <2>1. \A i \in 1..5 : i = 1 \/ i = 2 \/ i = 3 \/ i = 4 \/ i = 5
    OBVIOUS
  <2> QED BY <1>1, <1>4, <2>1
<1>8. Kept
  <2>1. CASE Written(session'.todo) = Append(<<>>, Head(results))
    <3>1. /\ Stages[2 + 1] # <<>> /\ Stages'[2] = Append(Stages[2], Head(Stages[2 + 1]))
          /\ Stages'[2 + 1] = Tail(Stages[2 + 1])
      <4>1. 2 + 1 = 3
        OBVIOUS
      <4>2. Stages[3] # <<>> /\ Stages'[3] = Tail(Stages[3])
        BY <1>1, <1>4
      <4>3. Stages'[2] = Append(Stages[2], Head(Stages[3]))
        BY <1>4, <1>5, <2>1, Zenon
      <4> QED BY <4>1, <4>2, <4>3, Zenon
    <3>2. \A i \in 1..5 : i # 2 /\ i # 2 + 1 => Stages'[i] = Stages[i]
      BY <1>7
    <3>3. 2 \in 1..4
      OBVIOUS
    <3> QED BY <1>4, <3>1, <3>2, <3>3, Moved DEF Kept, OrderInv
  <2>2. CASE Silent(Written(session'.todo))
    <3> DEFINE U == [Stages EXCEPT ![3] = Tail(results)]
    <3>1. /\ U \in Chains /\ U[3] = Tail(Stages[3]) /\ Stages[3] # <<>>
          /\ \A i \in 1..5 : i # 3 => U[i] = Stages[i]
      BY <1>1, <1>3, <1>4, SMTT(60) DEF Chains
    <3> HIDE DEF U
    <3>2. /\ InOrder(Stages) => InOrder(U)
          /\ \A n, m : Reach(Stages, n, m) => Reach(U, n, m)
      <4>1. 3 \in 1..5
        OBVIOUS
      <4> QED BY <1>4, <3>1, <4>1, Replaced
    <3>3. \A i \in 1..5 : i # 2 => Stages'[i] = U[i]
      BY <1>1, <1>4, <1>7, <3>1
    <3>4. /\ InOrder(U) => InOrder(Stages')
          /\ \A n, m : Reach(U, n, m) => Reach(Stages', n, m)
      <4>1. 2 \in 1..5 /\ Silent(Stages'[2])
        BY <1>4, <2>2
      <4> QED BY <1>4, <3>1, <3>3, <4>1, Replaced
    <3> QED BY <3>2, <3>4 DEF Kept, OrderInv
  <2> QED BY <1>6, <2>1, <2>2
<1>9. Coming'
  <2>1. WorkNo' = WorkNo /\ BatchNo' = BatchNo
    BY <1>1 DEF WorkNo, BatchNo
  <2>2. \A w \in Nat : Upcoming(w) => UpcomingNext(w)
    BY <1>1, <1>3, <1>8, <2>1, UpcomingStays
  <2>3. Rest(jobs', jobs)
    <3>1. jobs \in Seq(Things)
      BY <1>1 DEF Typed
    <3> QED BY <1>1, <3>1, RestIs
  <2> QED BY <1>1, <1>2, <2>2, <2>3, ComingStays DEF OrderInv
<1> QED BY <1>1, <1>2, <1>8, <1>9, OrderQuiet

LEMMA OrderSendJob ==
    ASSUME OrderInv, SendJob
    PROVE  OrderInv'
<1> DEFINE todo == session.todo
           item == Head(todo).item
<1>1. /\ Typed /\ TypedAside /\ todo # <<>> /\ Head(todo).op = "job"
      /\ todo \in Seq(Sendings) /\ jobs \in Seq(Things)
      /\ session'.todo = Tail(todo) /\ session'.jobCount = session.jobCount
      /\ jobs' = Append(jobs, item)
      /\ UNCHANGED <<worker, batch, results, out>>
  BY DEF OrderInv, TypedAside, Typed, SendJob, Sending, Sent, Continue, Sessions
<1>2. TypedAside' /\ Plain(session'.todo) /\ Typed' /\ session'.todo \in Seq(Sendings)
  BY <1>1, TypedSends DEF Sends, TypedAside, Typed, Sessions
<1>3. Silent(Written(session'.todo))
  BY <1>2, WrittenIs
<1>4. Kept
  BY <1>1, <1>2, <1>3, StagesStay DEF OrderInv
<1>5. \A w \in Nat : Upcoming(w) => UpcomingNext(w)
  <2>1. WorkNo' = WorkNo /\ BatchNo' = BatchNo
    BY <1>1 DEF WorkNo, BatchNo
  <2> QED BY <1>1, <1>2, <1>4, <2>1, UpcomingStays
<1>6. /\ Head(todo) = todo[1] /\ 1 \in DOMAIN todo /\ Head(todo) \in Sendings
      /\ \A i \in DOMAIN Tail(todo) :
            i \in Nat /\ i + 1 \in DOMAIN todo /\ i + 1 > 1 /\ Tail(todo)[i] = todo[i + 1]
  BY <1>1, TodoTail
<1>7. item \in Things /\ item.job \in Nat
  BY <1>6 DEF Sendings, Things
<1>8. /\ Upcoming(item.job) /\ item.job <= session.jobCount
      /\ \A j \in DOMAIN jobs : jobs[j].job < item.job
      /\ \A j \in DOMAIN todo : 1 < j /\ todo[j].op = "job" => item.job < todo[j].item.job
  BY <1>1, <1>6 DEF OrderInv, Coming
<1>9. /\ DOMAIN jobs = 1..Len(jobs) /\ Len(jobs) \in Nat
      /\ DOMAIN jobs' = 1..(Len(jobs) + 1)
      /\ \A i \in 1..Len(jobs) : jobs'[i] = jobs[i]
      /\ jobs'[Len(jobs) + 1] = item
      /\ \A i \in DOMAIN jobs' : i \in DOMAIN jobs \/ i = Len(jobs) + 1
  BY <1>1, <1>7, Appended
<1>10. \A i \in DOMAIN jobs : jobs[i].job \in Nat
  BY <1>1, NumbersAre
<1> HIDE DEF todo, item
<1>11. Coming'
  <2>1. UpcomingNext(session'.jobCount + 1)
    <3>1. session.jobCount + 1 \in Nat /\ Upcoming(session.jobCount + 1)
      BY <1>1, NumbersAre DEF OrderInv, Coming
    <3> QED BY <1>1, <1>5, <3>1
  <2>2. \A i \in DOMAIN jobs' : UpcomingNext(jobs'[i].job) /\ jobs'[i].job <= session'.jobCount
    <3>1. \A i \in DOMAIN jobs : UpcomingNext(jobs[i].job) /\ jobs[i].job <= session.jobCount
      BY <1>5, <1>10 DEF OrderInv, Coming
    <3>2. UpcomingNext(item.job)
      BY <1>5, <1>7, <1>8
    <3> QED BY <1>1, <1>8, <1>9, <3>1, <3>2
  <2>3. ASSUME NEW i \in DOMAIN jobs', NEW j \in DOMAIN jobs', i < j
        PROVE  jobs'[i].job < jobs'[j].job
    <3>1. i \in DOMAIN jobs
      BY <1>9, <2>3
    <3>2. CASE j \in DOMAIN jobs
      BY <1>9, <2>3, <3>1, <3>2 DEF OrderInv, Coming
    <3>3. CASE j = Len(jobs) + 1
      BY <1>8, <1>9, <3>1, <3>3
    <3> QED BY <1>9, <2>3, <3>2, <3>3
  <2>4. ASSUME NEW i \in DOMAIN session'.todo, session'.todo[i].op = "job"
        PROVE  /\ UpcomingNext(session'.todo[i].item.job)
               /\ session'.todo[i].item.job <= session'.jobCount
               /\ \A j \in DOMAIN jobs' : jobs'[j].job < session'.todo[i].item.job
               /\ \A j \in DOMAIN session'.todo :
                     i < j /\ session'.todo[j].op = "job"
                        => session'.todo[i].item.job < session'.todo[j].item.job
    <3> DEFINE job == todo[i + 1].item.job
    <3>1. /\ i \in Nat /\ i + 1 \in DOMAIN todo /\ i + 1 > 1 /\ session'.todo[i] = todo[i + 1]
          /\ todo[i + 1].op = "job"
      BY <1>1, <1>6, <2>4
    <3>2. /\ Upcoming(job) /\ job <= session.jobCount
          /\ \A j \in DOMAIN jobs : jobs[j].job < job
          /\ \A j \in DOMAIN todo : i + 1 < j /\ todo[j].op = "job" => job < todo[j].item.job
      BY <3>1 DEF OrderInv, Coming, todo
    <3>3. job \in Nat
      BY <1>1, <3>1, NumbersAre DEF todo
    <3>4. item.job < job
      BY <1>8, <3>1
    <3>5. \A j \in DOMAIN jobs' : jobs'[j].job < job
      BY <1>9, <3>2, <3>4
    <3>6. ASSUME NEW j \in DOMAIN session'.todo, i < j, session'.todo[j].op = "job"
          PROVE  job < session'.todo[j].item.job
      <4>1. j \in Nat /\ j + 1 \in DOMAIN todo /\ session'.todo[j] = todo[j + 1]
        BY <1>1, <1>6, <3>6
      <4>2. i + 1 < j + 1
        BY <3>1, <3>6, <4>1
      <4> QED BY <3>2, <3>6, <4>1, <4>2
    <3>7. UpcomingNext(job)
      BY <1>5, <3>2, <3>3
    <3> QED BY <1>1, <3>1, <3>2, <3>5, <3>6, <3>7
  <2> QED BY <2>1, <2>2, <2>3, <2>4 DEF Coming, Upcoming, UpcomingNext
<1> QED BY <1>1, <1>2, <1>4, <1>11, OrderQuiet

LEMMA OrderSendOutput ==
    ASSUME OrderInv, SendOutput
    PROVE  OrderInv'
<1> DEFINE item == Head(session.todo).item
<1>1. /\ Typed /\ TypedAside /\ session.todo # <<>> /\ Head(session.todo).op = "out"
      /\ session.todo \in Seq(Sendings) /\ jobs \in Seq(Things) /\ out \in Seq(Things)
      /\ session'.todo = Tail(session.todo) /\ session'.jobCount = session.jobCount
      /\ out' = Append(out, item)
      /\ UNCHANGED <<worker, batch, results, jobs>>
  BY DEF OrderInv, TypedAside, Typed, SendOutput, Sending, Sent, Continue, Sessions
<1>2. TypedAside' /\ Plain(session'.todo) /\ Typed' /\ session'.todo \in Seq(Sendings)
  BY <1>1, TypedSends DEF Sends, TypedAside, Typed, Sessions
<1>3. Silent(Written(session'.todo))
  BY <1>2, WrittenIs
<1>4. Written(session.todo) = <<item>>
  BY <1>1 DEF Written
<1>5. <<item>> # <<>> /\ Head(<<item>>) = item
  OBVIOUS
<1> HIDE DEF item
<1>6. /\ Stages \in Chains
      /\ Stages[1] = out /\ Stages[2] = <<item>> /\ Stages[3] = results
      /\ Stages[4] = worker.todo /\ Stages[5] = batch.events
      /\ Stages' \in Chains
      /\ Stages'[1] = out' /\ Stages'[2] = Written(session'.todo) /\ Stages'[3] = results'
      /\ Stages'[4] = worker'.todo /\ Stages'[5] = batch'.events
  BY <1>1, <1>2, <1>4, StagesAre
<1>7. Kept
  <2>1. \A i \in 1..5 : i # 1 /\ i # 1 + 1 => Stages'[i] = Stages[i]
    <3>1. \A i \in 1..5 : i = 1 \/ i = 2 \/ i = 3 \/ i = 4 \/ i = 5
      OBVIOUS
    <3> QED BY <1>1, <1>6, <3>1
  <2>2. 1 + 1 = 2 /\ 1 \in 1..4
    OBVIOUS
  <2>3. Stages[2] # <<>> /\ Stages'[1] = Append(Stages[1], Head(Stages[2])) /\ Silent(Stages'[2])
    BY <1>1, <1>3, <1>5, <1>6, Zenon
  <2>4. /\ Stages[1 + 1] # <<>> /\ Stages'[1] = Append(Stages[1], Head(Stages[1 + 1]))
        /\ Silent(Stages'[1 + 1])
    BY <2>2, <2>3, Zenon
  <2> QED BY <1>6, <2>1, <2>2, <2>4, Moved DEF Kept, OrderInv
<1>8. Coming'
  <2>1. WorkNo' = WorkNo /\ BatchNo' = BatchNo
    BY <1>1 DEF WorkNo, BatchNo
  <2>2. \A w \in Nat : Upcoming(w) => UpcomingNext(w)
    BY <1>1, <1>2, <1>7, <2>1, UpcomingStays
  <2> QED BY <1>1, <2>2, RestIs, ComingStays DEF OrderInv
<1> QED BY <1>1, <1>2, <1>7, <1>8, OrderQuiet

LEMMA OrderSends ==
    ASSUME OrderInv, Sends
    PROVE  OrderInv'
<1>1. TypedAside /\ session \in Sessions /\ session.todo \in Seq(Sendings) /\ jobs \in Seq(Things)
  BY DEF OrderInv, TypedAside, Typed, Sessions
<1>2. TypedAside' /\ Plain(session'.todo)
  BY <1>1, TypedSends
<1>3. CASE SendTtsJob \/ CloseJobs \/ SendJobFails \/ SendOutputFails \/ Leave
  <2>1. session.todo # <<>> /\ UNCHANGED <<worker, batch, results, out, jobs>>
        /\ session'.jobCount = session.jobCount
    BY <1>1, <1>3 DEF SendTtsJob, CloseJobs, SendJobFails, SendOutputFails, Leave, Sending,
         Continue, NoChannel, Sessions
  <2>2. \/ session'.todo = Tail(session.todo) \/ session'.todo = <<>>
        \/ session'.todo = <<ErrorOut>> \/ session'.todo = <<ErrorOut, Do("close", Blank)>>
    BY <1>1, <1>3 DEF SendTtsJob, CloseJobs, SendJobFails, SendOutputFails, Leave,
         Continue, Sessions
  <2>3. NoJob(<<>>) /\ NoJob(<<ErrorOut>>) /\ NoJob(<<ErrorOut, Do("close", Blank)>>)
    <3>1. /\ ErrorOut \in Sendings /\ ErrorOut.op = "out"
          /\ Do("close", Blank) \in Sendings /\ Do("close", Blank).op = "close"
      BY AsideThings DEF Ops
    <3> QED BY <3>1, SomeSends DEF NoJob
  <2>4. Rest(session'.todo, session.todo) \/ NoJob(session'.todo)
    BY <1>1, <2>1, <2>2, <2>3, RestIs
  <2> QED BY <1>1, <1>2, <2>1, <2>4, RestIs, OrderPlain
<1> QED BY <1>3, OrderSendJob, OrderSendOutput DEF Sends

LEMMA OrderEnd ==
    ASSUME OrderInv, ResultsClosed \/ Disconnect \/ Teardown
    PROVE  OrderInv'
<1>1. /\ TypedAside /\ Typed /\ session.todo \in Seq(Sendings) /\ jobs \in Seq(Things)
  BY DEF OrderInv, TypedAside, Typed, Sessions
<1>2. TypedAside' /\ Typed' /\ session'.todo = session.todo /\ session'.jobCount = session.jobCount
  BY <1>1, TypedEnd DEF TypedAside
<1>3. CASE UNCHANGED <<worker, batch, results, out, jobs>>
  BY <1>1, <1>2, <1>3, RestIs, OrderPlain
<1>4. CASE /\ worker' = [worker EXCEPT !.pc = "gone", !.todo = <<>>, !.job = Blank]
           /\ batch' = [pc |-> "none", job |-> Blank, events |-> <<>>]
           /\ jobs' = <<>> /\ results' = results /\ out' = out
  <2>1. /\ worker'.pc = "gone" /\ worker'.todo = <<>>
        /\ batch'.pc = "none" /\ batch'.events = <<>>
    BY <1>1, <1>4 DEF Typed
  <2>2. Kept
    BY <1>1, <1>2, <1>4, <2>1, EmptyIsSilent, StagesStay DEF OrderInv
  <2>3. WorkNo' = 0 /\ BatchNo' = 0
    BY <2>1 DEF WorkNo, BatchNo
  <2>4. \A w \in Nat : Upcoming(w) => UpcomingNext(w)
    BY <1>1, <1>2, <2>2, <2>3, UpcomingStays
  <2>5. Coming'
    BY <1>1, <1>2, <1>4, <2>4, RestIs, ComingStays DEF OrderInv
  <2>6. Working' /\ Translating'
    BY <2>1 DEF Working, Translating
  <2> QED BY <1>2, <2>2, <2>5, <2>6 DEF OrderInv, TypedAside, Kept
<1>5. QED
  BY <1>3, <1>4 DEF ResultsClosed, Disconnect, NoChannel, Teardown, StopWorker, JoinWorker,
     JoinTts, JoinWriter

LEMMA OrderAside ==
    ASSUME OrderInv, TtsNext \/ WriterNext \/ HandleTtsResult \/ UNCHANGED vars
    PROVE  OrderInv'
<1>1. /\ TypedAside /\ session.todo \in Seq(Sendings) /\ jobs \in Seq(Things)
  BY DEF OrderInv, TypedAside, Typed, Sessions
<1>2. TypedAside'
  BY <1>1, TypedTts, TypedWriter, TypedTtsResult
<1>3. UNCHANGED <<worker, batch, results, out, jobs>>
  BY DEF TtsNext, TtsReceive, TtsSynthesize, TtsSend, TtsClosed, WriterNext, WriterTake,
     WriterWrite, WriterFail, WriterClosed, HandleTtsResult, vars
<1>4. CASE HandleTtsResult
  <2>1. NoJob(session'.todo) /\ Plain(session'.todo)
    BY <1>1, <1>4, TypedTtsResult
  <2>2. session'.jobCount = session.jobCount
    BY <1>1, <1>4 DEF HandleTtsResult, TypedAside, Typed, Sessions
  <2> QED BY <1>1, <1>2, <1>3, <2>1, <2>2, RestIs, OrderPlain
<1>5. CASE TtsNext \/ WriterNext \/ UNCHANGED vars
  <2>1. session' = session
    BY <1>5 DEF TtsNext, TtsReceive, TtsSynthesize, TtsSend, TtsClosed, WriterNext, WriterTake,
       WriterWrite, WriterFail, WriterClosed, vars
  <2> QED BY <1>1, <1>2, <1>3, <2>1, RestIs, OrderPlain
<1> QED BY <1>4, <1>5

-----------------------------------------------------------------------------
(* Steps of the worker *)

LEMMA OrderWorkerSend ==
    ASSUME OrderInv, WorkerSend
    PROVE  OrderInv'
<1>1. /\ Typed /\ TypedAside /\ worker.todo # <<>>
      /\ session.todo \in Seq(Sendings) /\ jobs \in Seq(Things)
      /\ worker'.todo = Tail(worker.todo) /\ worker'.pc = worker.pc /\ worker'.job = worker.job
      /\ results' = Append(results, Head(worker.todo))
      /\ UNCHANGED <<session, batch, jobs, out>>
  BY DEF OrderInv, TypedAside, Typed, WorkerSend, Sessions
<1>2. TypedAside' /\ Typed'
  BY <1>1, TypedWorker DEF WorkerStep, TypedAside
<1>3. /\ Stages \in Chains
      /\ Stages[1] = out /\ Stages[2] = Written(session.todo) /\ Stages[3] = results
      /\ Stages[4] = worker.todo /\ Stages[5] = batch.events
      /\ Stages' \in Chains
      /\ Stages'[1] = out' /\ Stages'[2] = Written(session'.todo) /\ Stages'[3] = results'
      /\ Stages'[4] = worker'.todo /\ Stages'[5] = batch'.events
  BY <1>1, <1>2, StagesAre
<1>4. Kept
  <2>1. \A i \in 1..5 : i # 3 /\ i # 3 + 1 => Stages'[i] = Stages[i]
    <3>1. \A i \in 1..5 : i = 1 \/ i = 2 \/ i = 3 \/ i = 4 \/ i = 5
      OBVIOUS
    <3> QED BY <1>1, <1>3, <3>1
  <2>2. 3 + 1 = 4 /\ 3 \in 1..4
    OBVIOUS
  <2>3. /\ Stages[4] # <<>> /\ Stages'[3] = Append(Stages[3], Head(Stages[4]))
        /\ Stages'[4] = Tail(Stages[4])
    BY <1>1, <1>3, Zenon
  <2>4. /\ Stages[3 + 1] # <<>> /\ Stages'[3] = Append(Stages[3], Head(Stages[3 + 1]))
        /\ Stages'[3 + 1] = Tail(Stages[3 + 1])
    BY <2>2, <2>3, Zenon
  <2> QED BY <1>3, <2>1, <2>2, <2>4, Moved DEF Kept, OrderInv
<1>5. Coming'
  <2>1. WorkNo' = WorkNo /\ BatchNo' = BatchNo
    BY <1>1 DEF WorkNo, BatchNo
  <2>2. \A w \in Nat : Upcoming(w) => UpcomingNext(w)
    BY <1>1, <1>2, <1>4, <2>1, UpcomingStays
  <2> QED BY <1>1, <2>2, RestIs, ComingStays DEF OrderInv
<1> QED BY <1>1, <1>2, <1>4, <1>5, OrderQuiet

\* The first job waiting is taken in hand.
LEMMA OrderReceive ==
    ASSUME OrderInv, WorkerReceive
    PROVE  OrderInv'
<1>1. /\ Typed /\ TypedAside /\ jobs # <<>> /\ worker.pc = "recv"
      /\ session.todo \in Seq(Sendings) /\ jobs \in Seq(Things)
      /\ jobs' = Tail(jobs)
      /\ UNCHANGED <<session, batch, results, out>>
  BY DEF OrderInv, TypedAside, Typed, WorkerReceive, Ready, NoChannelButJobs, Sessions
<1>2. TypedAside' /\ Typed'
  BY <1>1, TypedWorker DEF WorkerStep, WorkerNext, TypedAside
<1>3. \/ worker' = worker
      \/ /\ worker'.pc \in {"asr", "commit"} /\ worker'.job = Head(jobs)
         /\ worker'.todo = worker.todo
  BY <1>1 DEF WorkerReceive, Typed
<1>4. Kept
  BY <1>1, <1>2, <1>3, StagesStay DEF OrderInv
<1>5. CASE worker' = worker
  <2>1. WorkNo' = WorkNo /\ BatchNo' = BatchNo
    BY <1>1, <1>5 DEF WorkNo, BatchNo
  <2>2. \A w \in Nat : Upcoming(w) => UpcomingNext(w)
    BY <1>1, <1>2, <1>4, <2>1, UpcomingStays
  <2>3. Coming'
    BY <1>1, <2>2, RestIs, ComingStays DEF OrderInv
  <2> QED BY <1>1, <1>2, <1>4, <1>5, <2>3, OrderQuiet
<1>6. CASE worker'.pc \in {"asr", "commit"} /\ worker'.job = Head(jobs)
  <2> DEFINE h == Head(jobs).job
  <2>1. /\ Head(jobs) = jobs[1] /\ 1 \in DOMAIN jobs
        /\ \A i \in DOMAIN Tail(jobs) :
              i \in Nat /\ i > 0 /\ i + 1 \in DOMAIN jobs /\ Tail(jobs)[i] = jobs[i + 1]
    BY <1>1, Tailed
  <2>2. /\ session.jobCount \in Nat /\ h \in Nat
        /\ \A i \in DOMAIN jobs : i \in Nat /\ jobs[i].job \in Nat
        /\ \A i \in DOMAIN session.todo : i \in Nat /\ session.todo[i].item.job \in Nat
    BY <1>1, <2>1, NumbersAre
  <2>3. /\ Upcoming(h) /\ h <= session.jobCount
        /\ \A i \in DOMAIN jobs : 1 < i => h < jobs[i].job
    BY <2>1 DEF OrderInv, Coming
  <2>4. WorkNo' = h /\ BatchNo' = BatchNo
    BY <1>1, <1>6 DEF WorkNo, BatchNo
  <2> HIDE DEF h
  <2>5. \A w \in Nat : Upcoming(w) /\ h < w => UpcomingNext(w)
    BY <1>4, <2>4 DEF Upcoming, UpcomingNext, Beyond, Kept
  <2>6. \A i \in DOMAIN jobs' :
           /\ i \in Nat /\ i + 1 \in DOMAIN jobs /\ jobs'[i] = jobs[i + 1]
           /\ h < jobs'[i].job /\ jobs'[i].job \in Nat
    <3>1. ASSUME NEW i \in DOMAIN jobs'
          PROVE  /\ i \in Nat /\ i + 1 \in DOMAIN jobs /\ jobs'[i] = jobs[i + 1]
                 /\ h < jobs'[i].job /\ jobs'[i].job \in Nat
      <4>1. /\ i \in Nat /\ i > 0 /\ i + 1 \in DOMAIN jobs /\ jobs'[i] = jobs[i + 1]
        BY <1>1, <2>1, <3>1
      <4>2. 1 < i + 1
        BY <4>1
      <4> QED BY <2>2, <2>3, <4>1, <4>2
    <3> QED BY <3>1
  <2>7. Coming'
    <3>1. UpcomingNext(session'.jobCount + 1)
      <4>1. session.jobCount + 1 \in Nat /\ h < session.jobCount + 1
        BY <2>2, <2>3
      <4>2. Upcoming(session.jobCount + 1)
        BY DEF OrderInv, Coming
      <4> QED BY <1>1, <2>5, <4>1, <4>2
    <3>2. \A i \in DOMAIN jobs' : UpcomingNext(jobs'[i].job) /\ jobs'[i].job <= session'.jobCount
      BY <1>1, <2>5, <2>6 DEF OrderInv, Coming
    <3>3. ASSUME NEW i \in DOMAIN jobs', NEW j \in DOMAIN jobs', i < j
          PROVE  jobs'[i].job < jobs'[j].job
      <4>1. i + 1 < j + 1
        BY <2>6, <3>3
      <4> QED BY <2>6, <3>3, <4>1 DEF OrderInv, Coming
    <3>4. ASSUME NEW i \in DOMAIN session'.todo, session'.todo[i].op = "job"
          PROVE  /\ UpcomingNext(session'.todo[i].item.job)
                 /\ session'.todo[i].item.job <= session'.jobCount
                 /\ \A j \in DOMAIN jobs' : jobs'[j].job < session'.todo[i].item.job
                 /\ \A j \in DOMAIN session'.todo :
                       i < j /\ session'.todo[j].op = "job"
                          => session'.todo[i].item.job < session'.todo[j].item.job
      <4> DEFINE job == session.todo[i].item.job
      <4>1. /\ Upcoming(job) /\ job <= session.jobCount /\ job \in Nat
            /\ \A j \in DOMAIN jobs : jobs[j].job < job
            /\ \A j \in DOMAIN session.todo :
                  i < j /\ session.todo[j].op = "job" => job < session.todo[j].item.job
        BY <1>1, <2>2, <3>4 DEF OrderInv, Coming
      <4>2. h < job
        BY <2>1, <4>1 DEF h
      <4>3. UpcomingNext(job)
        BY <2>5, <4>1, <4>2
      <4>4. \A j \in DOMAIN jobs' : jobs'[j].job < job
        BY <2>6, <4>1
      <4> QED BY <1>1, <4>1, <4>3, <4>4
    <3> QED BY <3>1, <3>2, <3>3, <3>4 DEF Coming, Upcoming, UpcomingNext
  <2>8. Working'
    <3>1. Reach(Stages', h, 0) /\ BatchNo < h
      BY <1>4, <2>3 DEF Upcoming, Beyond, Kept
    <3>2. worker'.job.job = h
      BY <1>6 DEF h
    <3> QED BY <1>6, <2>4, <3>1, <3>2 DEF Working
  <2>9. Translating'
    BY <1>1, <1>4 DEF OrderInv, Translating, Kept
  <2> QED BY <1>2, <1>4, <2>7, <2>8, <2>9 DEF OrderInv, TypedAside, Kept
<1> QED BY <1>3, <1>5, <1>6

\* The other steps of the worker leave the channels alone: what is to come stays so when
\* no later job is in hand than before.
LEMMA OrderWorker ==
    ASSUME OrderInv, TypedAside',
           session' = session, jobs' = jobs \/ jobs' = <<>>,
           InOrder(Stages'),
           \A w \in Nat : Upcoming(w) => UpcomingNext(w),
           Working', Translating'
    PROVE  OrderInv'
<1>1. jobs \in Seq(Things) /\ session.todo \in Seq(Sendings) /\ Typed
  BY DEF OrderInv, Typed, Sessions
<1>2. Rest(jobs', jobs) /\ Rest(session'.todo, session.todo)
  BY <1>1, RestIs
<1>3. Coming'
  BY <1>1, <1>2, ComingStays DEF OrderInv
<1> QED BY <1>3 DEF OrderInv, TypedAside

\* Steps that say nothing of the stream and take no job in hand
LEMMA OrderSilent ==
    ASSUME OrderInv, TypedAside',
           session' = session, results' = results, out' = out, jobs' = jobs \/ jobs' = <<>>,
           batch' = batch, Silent(worker'.todo),
           \/ worker'.pc \in {"recv", "stopping", "gone"}
           \/ /\ worker.pc \in {"asr", "commit", "emit"} /\ worker'.job = worker.job
              /\ worker'.pc = "commit" \/ (worker'.pc = "emit" /\ batch.pc = "none")
    PROVE  OrderInv'
<1>1. Typed /\ Typed'
  BY DEF OrderInv, TypedAside
<1>2. Kept
  BY <1>1, StagesStay DEF OrderInv
<1>3. WorkNo' \in {0, WorkNo} /\ BatchNo' = BatchNo
  BY DEF WorkNo, BatchNo
<1>4. \A w \in Nat : Upcoming(w) => UpcomingNext(w)
  BY <1>1, <1>2, <1>3, UpcomingStays
<1>5. Working'
  BY <1>2, <1>3 DEF OrderInv, Working, Kept
<1>6. Translating'
  BY <1>2 DEF OrderInv, Translating, Kept
<1> QED BY <1>2, <1>4, <1>5, <1>6, OrderWorker DEF Kept

\* The events of the finished translation are taken over.
LEMMA OrderTake ==
    ASSUME OrderInv, TypedAside',
           UNCHANGED <<session, results, out, jobs>>,
           worker.todo = <<>>, worker'.todo = batch.events, batch' = NoBatch,
           \/ worker'.pc \in {"recv", "stopping"}
           \/ worker.pc = "commit" /\ worker'.pc = "emit" /\ worker'.job = worker.job
    PROVE  OrderInv'
<1>1. Typed /\ Typed'
  BY DEF OrderInv, TypedAside
<1>2. /\ Stages \in Chains
      /\ Stages[1] = out /\ Stages[2] = Written(session.todo) /\ Stages[3] = results
      /\ Stages[4] = worker.todo /\ Stages[5] = batch.events
      /\ Stages' \in Chains
      /\ Stages'[1] = out' /\ Stages'[2] = Written(session'.todo) /\ Stages'[3] = results'
      /\ Stages'[4] = worker'.todo /\ Stages'[5] = batch'.events
  BY <1>1, StagesAre
<1>3. batch'.events = <<>> /\ batch'.pc = "none"
  BY DEF NoBatch
<1>4. Kept
  <2>1. \A i \in 1..3 : Stages'[i] = Stages[i]
    <3>1. \A i \in 1..3 : i = 1 \/ i = 2 \/ i = 3
      OBVIOUS
    <3> QED BY <1>2, <3>1
  <2>2. Stages'[4] = Stages[5] /\ Stages'[5] = <<>>
    BY <1>2, <1>3
  <2> QED BY <1>2, <2>1, <2>2, Taken DEF Kept, OrderInv
<1>5. WorkNo' \in {0, WorkNo} /\ BatchNo' = 0
  BY <1>3 DEF WorkNo, BatchNo
<1>6. \A w \in Nat : Upcoming(w) => UpcomingNext(w)
  BY <1>1, <1>4, <1>5, UpcomingStays
<1>7. Working'
  <2>1. worker'.pc = "emit" => Reach(Stages', worker'.job.job, 0) /\ BatchNo' < worker'.job.job
    <3>1. CASE worker.pc = "commit" /\ worker'.job = worker.job
      <4>1. Reach(Stages, worker.job.job, 0) /\ BatchNo < worker.job.job
        BY <3>1 DEF OrderInv, Working
      <4>2. worker.job.job \in Nat /\ BatchNo \in Nat
        BY <1>1, NumbersAre
      <4> QED BY <1>4, <1>5, <3>1, <4>1, <4>2 DEF Kept
    <3> QED BY <3>1
  <2> QED BY <1>3, <2>1 DEF Working
<1>8. Translating'
  BY <1>3 DEF Translating
<1> QED BY <1>4, <1>6, <1>7, <1>8, OrderWorker DEF Kept

\* The worker reports its job: all that was made before is of earlier jobs.
LEMMA Reported ==
    ASSUME Typed, Typed', InOrder(Stages), NEW e \in Things, NEW n \in Nat, e.job = n,
           Reach(Stages, n, 0),
           worker.todo = <<>>, batch.events = <<>>, worker'.todo = <<e>>,
           UNCHANGED <<session, results, out, batch>>
    PROVE  /\ InOrder(Stages')
           /\ \A m, k : Reach(Stages, m, k) /\ Fits(e, m, k) => Reach(Stages', m, k)
<1>1. /\ Stages \in Chains
      /\ Stages[1] = out /\ Stages[2] = Written(session.todo) /\ Stages[3] = results
      /\ Stages[4] = worker.todo /\ Stages[5] = batch.events
      /\ Stages' \in Chains
      /\ Stages'[1] = out' /\ Stages'[2] = Written(session'.todo) /\ Stages'[3] = results'
      /\ Stages'[4] = worker'.todo /\ Stages'[5] = batch'.events
  BY StagesAre
<1>2. \A i \in 1..5 : i = 1 \/ i = 2 \/ i = 3 \/ i = 4 \/ i = 5
  OBVIOUS
<1>3. \A i \in 1..5 : i # 4 => Stages'[i] = Stages[i]
  BY <1>1, <1>2
<1>4. Stages'[4] = Append(Stages[4], e)
  <2>1. \A x : Append(<<>>, x) = <<x>>
    OBVIOUS
  <2> QED BY <1>1, <2>1
<1>5. \A i \in 1..5 : i > 4 => Silent(Stages[i])
  BY <1>1, <1>2, EmptyIsSilent
<1>6. ASSUME NEW i \in 1..5, NEW h \in DOMAIN Stages[i]
      PROVE  Before(Stages[i][h], e)
  <2>1. Stages[i] \in Seq(Things)
    BY <1>1, <1>6 DEF Chains
  <2>2. Stages[i][h] \in Things
    <3> HIDE DEF Things
    <3> QED BY <1>6, <2>1
  <2>3. Stages[i][h].job \in Nat
    BY <2>2 DEF Things
  <2>4. Fits(Stages[i][h], n, 0)
    BY <1>6 DEF Reach, Within
  <2> QED BY <2>3, <2>4 DEF Fits, Before
<1>7. 4 \in 1..5
  OBVIOUS
<1> QED BY <1>1, <1>3, <1>4, <1>5, <1>6, <1>7, Extended

LEMMA OrderMarker ==
    ASSUME OrderInv, TypedAside', worker.pc = "emit", worker.todo = <<>>,
           UNCHANGED <<session, results, out, batch, jobs>>,
           worker'.pc = "recv",
           worker'.todo = <<Event("streamEnded", worker.job, 0)>>
    PROVE  OrderInv'
<1> DEFINE e == Event("streamEnded", worker.job, 0)
           n == worker.job.job
<1>1. Typed /\ Typed' /\ InOrder(Stages)
  BY DEF OrderInv, TypedAside
<1>2. worker.job \in Things /\ n \in Nat
  BY <1>1, NumbersAre DEF Typed
<1>3. e \in Things /\ e.job = n
  <2>1. "streamEnded" \in EventKinds /\ 0 \in Nat
    BY DEF EventKinds
  <2> HIDE DEF EventKinds, Things
  <2> QED BY <1>2, <2>1, EventIs
<1>4. Reach(Stages, n, 0) /\ BatchNo < n /\ batch.pc = "none" /\ batch.events = <<>>
  BY DEF OrderInv, Working, Translating
<1>5. WorkNo = n
  BY DEF WorkNo
<1> HIDE DEF e, n
<1>6. /\ InOrder(Stages')
      /\ \A m, k : Reach(Stages, m, k) /\ Fits(e, m, k) => Reach(Stages', m, k)
  BY <1>1, <1>2, <1>3, <1>4, Reported DEF e
<1>7. WorkNo' = 0 /\ BatchNo' = BatchNo
  BY DEF WorkNo, BatchNo
<1>8. ASSUME NEW w \in Nat, Upcoming(w)
      PROVE  UpcomingNext(w)
  <2>1. Reach(Stages, w, 0) /\ n < w /\ BatchNo < w
    BY <1>5, <1>8 DEF Upcoming, Beyond
  <2>2. Fits(e, w, 0)
    BY <1>3, <2>1 DEF Fits
  <2>3. Reach(Stages', w, 0)
    BY <1>6, <2>1, <2>2
  <2>4. 0 < w
    BY <1>2, <2>1
  <2> QED BY <1>7, <2>1, <2>3, <2>4 DEF UpcomingNext, Beyond
<1>9. Working' /\ Translating'
  BY <1>4 DEF Working, Translating
<1> QED BY <1>6, <1>8, <1>9, OrderWorker

LEMMA OrderRecognized ==
    ASSUME OrderInv, TypedAside', worker.pc = "emit", worker.todo = <<>>,
           UNCHANGED <<session, results, out, batch, jobs>>,
           NEW count \in 0..MaxSegments,
           worker' = [worker EXCEPT !.pc = "spawn", !.job.seg = count,
                        !.todo = <<Event("recognized", worker.job, count)>>]
    PROVE  OrderInv'
<1> DEFINE e == Event("recognized", worker.job, count)
           n == worker.job.job
<1>1. Typed /\ Typed' /\ InOrder(Stages)
  BY DEF OrderInv, TypedAside
<1>2. worker.job \in Things /\ n \in Nat /\ count \in Nat
  BY <1>1, NumbersAre, CapacityAssumption DEF Typed
<1>3. e \in Things /\ e.job = n /\ e.kind = "recognized"
  <2>1. "recognized" \in EventKinds
    BY DEF EventKinds
  <2> HIDE DEF EventKinds, Things
  <2> QED BY <1>2, <2>1, EventIs
<1>4. Reach(Stages, n, 0) /\ BatchNo < n /\ batch.pc = "none" /\ batch.events = <<>>
  BY DEF OrderInv, Working, Translating
<1>5. WorkNo = n
  BY DEF WorkNo
<1>6. worker'.pc = "spawn" /\ worker'.todo = <<e>> /\ worker'.job.job = n
  BY <1>1 DEF Typed, Things
<1> HIDE DEF e, n
<1>7. /\ InOrder(Stages')
      /\ \A m, k : Reach(Stages, m, k) /\ Fits(e, m, k) => Reach(Stages', m, k)
  BY <1>1, <1>2, <1>3, <1>4, <1>6, Reported
<1>8. WorkNo' = n /\ BatchNo' = BatchNo
  BY <1>6 DEF WorkNo, BatchNo
<1>9. ASSUME NEW w \in Nat, Upcoming(w)
      PROVE  UpcomingNext(w)
  <2>1. Reach(Stages, w, 0) /\ n < w /\ BatchNo < w
    BY <1>5, <1>9 DEF Upcoming, Beyond
  <2>2. Fits(e, w, 0)
    BY <1>3, <2>1 DEF Fits
  <2>3. Reach(Stages', w, 0)
    BY <1>7, <2>1, <2>2
  <2> QED BY <1>8, <2>1, <2>3 DEF UpcomingNext, Beyond
<1>10. Reach(Stages', n, 1)
  <2>1. Reach(Stages, n, 1)
    BY <1>4 DEF Reach, Within, Fits
  <2>2. Fits(e, n, 1)
    BY <1>3 DEF Fits
  <2> QED BY <1>7, <2>1, <2>2
<1>11. Working' /\ Translating'
  BY <1>4, <1>6, <1>10 DEF Working, Translating
<1> QED BY <1>7, <1>9, <1>11, OrderWorker

LEMMA OrderSpawn ==
    ASSUME OrderInv, WorkerSpawn
    PROVE  OrderInv'
<1>1. /\ Typed /\ TypedAside /\ worker.pc = "spawn" /\ worker.todo = <<>>
      /\ worker \in [pc : WorkerStates, job : Things, todo : Seq(Things), corpus : BOOLEAN]
      /\ batch' = [pc |-> "running", job |-> worker.job, events |-> <<>>]
      /\ Goto("recv", <<>>)
      /\ UNCHANGED <<session, results, out, jobs>>
  BY DEF OrderInv, TypedAside, Typed, WorkerSpawn, Ready, NoChannelButJobs
<1>2. TypedAside' /\ Typed'
  BY <1>1, TypedWorker DEF WorkerStep, WorkerNext, TypedAside
<1>3. worker'.pc = "recv" /\ worker'.todo = <<>>
  BY <1>1 DEF Goto
<1>4. batch'.pc = "running" /\ batch'.job = worker.job /\ batch'.events = <<>>
  BY <1>1
<1>5. Kept
  BY <1>1, <1>2, <1>3, <1>4, EmptyIsSilent, StagesStay DEF OrderInv
<1>6. WorkNo' = 0 /\ BatchNo' = WorkNo
  BY <1>1, <1>3, <1>4 DEF WorkNo, BatchNo
<1>7. \A w \in Nat : Upcoming(w) => UpcomingNext(w)
  BY <1>1, <1>2, <1>5, <1>6, UpcomingStays
<1>8. Working'
  BY <1>3 DEF Working
<1>9. Translating'
  <2>1. Reach(Stages', worker.job.job, 1)
    BY <1>1, <1>5 DEF OrderInv, Working, Kept
  <2>2. Len(<<>>) + 1 = 1
    OBVIOUS
  <2> QED BY <1>4, <2>1, <2>2 DEF Translating
<1> QED BY <1>1, <1>2, <1>5, <1>7, <1>8, <1>9, OrderWorker DEF Kept

LEMMA OrderWorkerStep ==
    ASSUME OrderInv, WorkerStep
    PROVE  OrderInv'
<1>1. /\ TypedAside /\ worker.job \in Things
      /\ worker \in [pc : WorkerStates, job : Things, todo : Seq(Things), corpus : BOOLEAN]
  BY DEF OrderInv, TypedAside, Typed
<1>2. TypedAside'
  BY <1>1, TypedWorker
<1>3. /\ Silent(<<>>)
      /\ \A e \in Things : ~Ordered(e) => Silent(<<e>>)
  BY EmptyIsSilent, OneThing
<1>4. \A kind \in {"error", "window", "drained"} : Silent(<<Event(kind, worker.job, 0)>>)
  <2>1. ASSUME NEW kind \in {"error", "window", "drained"}
        PROVE  Silent(<<Event(kind, worker.job, 0)>>)
    <3>1. kind \in EventKinds
      BY <2>1 DEF EventKinds
    <3>2. Event(kind, worker.job, 0) \in Things /\ Event(kind, worker.job, 0).kind = kind
      BY <1>1, <3>1, EventIs
    <3> QED BY <1>3, <2>1, <3>2 DEF Ordered
  <2> QED BY <2>1
<1>5. \A pc, events : Goto(pc, events) =>
         /\ worker'.pc = pc /\ worker'.todo = events
         /\ pc \in {"commit", "emit", "spawn"} => worker'.job = worker.job
  BY <1>1 DEF Goto
<1>6. CASE WorkerStart
  <2>1. /\ UNCHANGED <<session, results, out, jobs, batch>>
        /\ worker'.pc \in {"recv", "stopping"}
    BY <1>1, <1>6 DEF WorkerStart, NoChannelButJobs, Goto
  <2>2. Silent(worker'.todo)
    <3>1. CASE Goto("recv", <<>>)
      BY <1>3, <1>5, <3>1
    <3>2. CASE worker' = [worker EXCEPT !.pc = "stopping",
                            !.todo = <<Item("error", 0, generation, 0, "")>>, !.corpus = FALSE]
      <4>1. Item("error", 0, generation, 0, "") \in Things /\ ~Ordered(Item("error", 0, generation, 0, ""))
        BY <1>1 DEF TypedAside, Typed, Item, Things, Kinds, EventKinds, Whys, Ordered
      <4> QED BY <1>1, <1>3, <3>2, <4>1
    <3> QED BY <1>6, <3>1, <3>2 DEF WorkerStart
  <2> QED BY <1>2, <2>1, <2>2, OrderSilent
<1>7. CASE WorkerStop \/ WorkerCollect \/ WorkerClosed \/ WorkerCommit
  <2>1. worker.todo = <<>> /\ UNCHANGED <<session, results, out>>
    BY <1>7 DEF WorkerStop, WorkerCollect, WorkerClosed, WorkerCommit, Ready, NoChannelButJobs
  <2>2. CASE /\ batch' = NoBatch /\ jobs' = jobs
             /\ \/ Goto("recv", batch.events) \/ Goto("stopping", batch.events)
                \/ worker.pc = "commit" /\ Goto("emit", batch.events)
    BY <1>2, <1>5, <2>1, <2>2, OrderTake
  <2>3. CASE /\ batch' = batch
             /\ jobs' = jobs \/ jobs' = <<>>
             /\ \/ Goto("stopping", <<>>) \/ Goto("gone", <<>>)
                \/ worker.pc = "commit" /\ batch.pc = "none" /\ Goto("emit", <<>>)
    <3>1. PICK pc \in {"stopping", "gone", "emit"} :
               /\ Goto(pc, <<>>)
               /\ pc = "emit" => worker.pc = "commit" /\ batch.pc = "none"
      BY <2>3
    <3>2. worker'.pc = pc /\ worker'.todo = <<>> /\ (pc = "emit" => worker'.job = worker.job)
      BY <1>5, <3>1
    <3> QED BY <1>2, <1>3, <2>1, <2>3, <3>1, <3>2, OrderSilent
  <2> QED BY <1>7, <2>2, <2>3 DEF WorkerStop, WorkerCollect, WorkerClosed, WorkerCommit, Ready
<1>8. CASE WorkerRecognize
  <2>1. worker.pc = "asr" /\ UNCHANGED <<session, results, out, jobs, batch>>
    BY <1>8 DEF WorkerRecognize, Ready, NoChannelButJobs
  <2>2. \/ \E events : Goto("recv", events) /\ Silent(events)
        \/ \E events : Goto("commit", events) /\ Silent(events)
    BY <1>3, <1>4, <1>8 DEF WorkerRecognize
  <2> QED BY <1>2, <1>5, <2>1, <2>2, OrderSilent
<1>9. CASE WorkerEmit
  <2>1. /\ worker.pc = "emit" /\ worker.todo = <<>>
        /\ UNCHANGED <<session, results, out, jobs, batch>>
    BY <1>9 DEF WorkerEmit, Ready, NoChannelButJobs
  <2>2. CASE \E events : Goto("recv", events) /\ Silent(events)
    BY <1>2, <1>5, <2>1, <2>2, OrderSilent
  <2>3. CASE Goto("recv", <<Event("streamEnded", worker.job, 0)>>)
    BY <1>2, <1>5, <2>1, <2>3, OrderMarker
  <2>4. CASE \E count \in 0..MaxSegments :
               worker' = [worker EXCEPT !.pc = "spawn", !.job.seg = count,
                            !.todo = <<Event("recognized", worker.job, count)>>]
    BY <1>2, <2>1, <2>4, OrderRecognized
  <2> QED BY <1>3, <1>4, <1>9, <2>2, <2>3, <2>4
          DEF WorkerEmit, EmitStale, EmitMarker, EmitRecognized
<1> QED BY <1>6, <1>7, <1>8, <1>9, OrderWorkerSend, OrderReceive, OrderSpawn
        DEF WorkerStep, WorkerNext

\* The translation task adds the next segment of its job, or the end of the stream.
LEMMA OrderBatch ==
    ASSUME OrderInv, BatchNext
    PROVE  OrderInv'
<1> DEFINE n == batch.job.job
           m == Len(batch.events) + 1
<1>1. /\ Typed /\ TypedAside /\ TypedAside' /\ Typed' /\ InOrder(Stages)
      /\ batch.pc = "running"
      /\ UNCHANGED <<session, worker, jobs, results, out>>
  <2>1. TypedAside
    BY DEF OrderInv, TypedAside
  <2> QED BY <2>1, TypedBatch DEF OrderInv, TypedAside, BatchNext, NoChannelButJobs
<1>2. /\ batch \in [pc : BatchStates, job : Things, events : Seq(Things)]
      /\ batch.job \in Things /\ batch.events \in Seq(Things)
  BY <1>1 DEF Typed
<1>3. n \in Nat /\ m \in Nat /\ m > 0 /\ m - 1 = Len(batch.events)
  BY <1>1, <1>2, NumbersAre, LenProperties
<1>4. Reach(Stages, n, m)
  BY <1>1 DEF OrderInv, Translating
<1>5. /\ Stages \in Chains /\ Stages' \in Chains
      /\ Stages[5] = batch.events /\ Stages'[5] = batch'.events
      /\ \A i \in 1..5 : i # 5 => Stages'[i] = Stages[i]
  <2>1. /\ Stages \in Chains
        /\ Stages[1] = out /\ Stages[2] = Written(session.todo) /\ Stages[3] = results
        /\ Stages[4] = worker.todo /\ Stages[5] = batch.events
        /\ Stages' \in Chains
        /\ Stages'[1] = out' /\ Stages'[2] = Written(session'.todo) /\ Stages'[3] = results'
        /\ Stages'[4] = worker'.todo /\ Stages'[5] = batch'.events
    BY <1>1, StagesAre
  <2>2. \A i \in 1..5 : i # 5 => i = 1 \/ i = 2 \/ i = 3 \/ i = 4
    OBVIOUS
  <2>3. Written(session'.todo) = Written(session.todo)
    BY <1>1
  <2> QED BY <1>1, <2>1, <2>2, <2>3
<1>6. BatchNo = n /\ WorkNo' = WorkNo
  BY <1>1 DEF BatchNo, WorkNo
<1>7. WorkNo \in Nat
  BY <1>1, NumbersAre
<1> HIDE DEF n, m
\* What the task adds belongs to the job after all that was made of it.
<1>8. ASSUME NEW e \in Things, e.job = n, batch'.events = Append(batch.events, e),
             \/ e.kind = "translation" /\ e.seg = m
             \/ e.kind = "streamEnded"
             \/ ~Ordered(e)
      PROVE  /\ InOrder(Stages')
             /\ \A k, l : Reach(Stages, k, l) /\ Fits(e, k, l) => Reach(Stages', k, l)
  <2>1. ASSUME NEW i \in 1..5, NEW h \in DOMAIN Stages[i]
        PROVE  Before(Stages[i][h], e)
    <3>1. Stages[i] \in Seq(Things)
      BY <1>5 DEF Chains
    <3>2. Stages[i][h] \in Things
      <4> HIDE DEF Things
      <4> QED BY <3>1
    <3>3. Stages[i][h].job \in Nat /\ Stages[i][h].seg \in Nat
      BY <3>2 DEF Things
    <3>4. Fits(Stages[i][h], n, m)
      BY <1>4 DEF Reach, Within
    <3> QED BY <1>3, <1>8, <3>3, <3>4 DEF Fits, Before
  <2>2. 5 \in 1..5 /\ \A i \in 1..5 : ~(i > 5)
    OBVIOUS
  <2> QED BY <1>1, <1>5, <1>8, <2>1, <2>2, Extended
\* The jobs to come and the job in hand are after it.
<1>9. ASSUME NEW w \in Nat, n < w, Reach(Stages, w, 0),
             \/ \A k, l : Reach(Stages, k, l) => Reach(Stages', k, l)
             \/ \E e \in Things : e.job = n
                  /\ \A k, l : Reach(Stages, k, l) /\ Fits(e, k, l) => Reach(Stages', k, l)
      PROVE  Reach(Stages', w, 0)
  BY <1>9 DEF Fits
<1>10. ASSUME InOrder(Stages'), BatchNo' \in {0, n}, batch'.pc \in {"running", "done"},
              Translating',
             \/ \A k, l : Reach(Stages, k, l) => Reach(Stages', k, l)
             \/ \E e \in Things : e.job = n
                  /\ \A k, l : Reach(Stages, k, l) /\ Fits(e, k, l) => Reach(Stages', k, l)
       PROVE  OrderInv'
  <2>1. ASSUME NEW w \in Nat, Upcoming(w)
        PROVE  UpcomingNext(w)
    <3>1. Reach(Stages, w, 0) /\ WorkNo < w /\ n < w
      BY <1>6, <2>1 DEF Upcoming, Beyond
    <3>2. Reach(Stages', w, 0)
      BY <1>9, <1>10, <3>1
    <3>3. BatchNo' < w /\ WorkNo' < w
      BY <1>3, <1>6, <1>10, <3>1
    <3> QED BY <3>2, <3>3 DEF UpcomingNext, Beyond
  <2>2. Working'
    <3>1. worker'.pc \notin {"emit", "spawn"}
      BY <1>1 DEF OrderInv, Working
    <3>2. ASSUME worker.pc \in {"asr", "commit"}
          PROVE  Reach(Stages', worker.job.job, 0) /\ BatchNo' < worker.job.job
      <4>1. Reach(Stages, worker.job.job, 0) /\ n < worker.job.job
        BY <1>6, <3>2 DEF OrderInv, Working
      <4>2. worker.job.job \in Nat
        BY <1>1, NumbersAre
      <4>3. Reach(Stages', worker.job.job, 0)
        BY <1>9, <1>10, <4>1, <4>2
      <4>4. BatchNo' < worker.job.job
        BY <1>3, <1>10, <4>1, <4>2
      <4> QED BY <4>3, <4>4
    <3>3. worker' = worker
      BY <1>1
    <3> QED BY <3>1, <3>2, <3>3 DEF Working
  <2>3. session' = session /\ jobs' = jobs
    BY <1>1
  <2> QED BY <1>1, <1>10, <2>1, <2>2, <2>3, OrderWorker
<1>11. ASSUME batch' = [batch EXCEPT !.pc = "done", !.events = @ \o StreamEnd(batch.job)]
       PROVE  OrderInv'
  <2>1. batch'.pc = "done" /\ batch'.events = batch.events \o StreamEnd(batch.job)
    BY <1>2, <1>11
  <2>2. BatchNo' = 0 /\ Translating'
    BY <2>1 DEF BatchNo, Translating
  <2>3. CASE StreamEnd(batch.job) = <<>>
    <3>1. batch'.events = batch.events
      BY <1>2, <2>1, <2>3, ConcatEmptySeq
    <3>2. Stages' = Stages
      <4>1. Written(session.todo)' = Written(session.todo)
        BY <1>1 DEF Written
      <4> QED BY <1>1, <3>1, <4>1 DEF Stages
    <3>3. InOrder(Stages') /\ \A k, l : Reach(Stages, k, l) => Reach(Stages', k, l)
      BY <1>1, <3>2
    <3> QED BY <1>10, <2>1, <2>2, <3>3
  <2>4. CASE StreamEnd(batch.job) = <<Event("streamEnded", batch.job, 0)>>
    <3> DEFINE e == Event("streamEnded", batch.job, 0)
    <3>1. e \in Things /\ e.job = n /\ e.kind = "streamEnded"
      <4>1. "streamEnded" \in EventKinds /\ 0 \in Nat
        BY DEF EventKinds
      <4> HIDE DEF EventKinds, Things
      <4> QED BY <1>2, <4>1, EventIs DEF n
    <3> HIDE DEF e
    <3>2. batch'.events = Append(batch.events, e)
      <4>1. batch'.events = batch.events \o <<e>>
        BY <2>1, <2>4 DEF e
      <4> HIDE DEF Things
      <4> QED BY <1>2, <3>1, <4>1, AppendIsConcat
    <3>3. /\ InOrder(Stages')
          /\ \A k, l : Reach(Stages, k, l) /\ Fits(e, k, l) => Reach(Stages', k, l)
      BY <1>8, <3>1, <3>2
    <3> QED BY <1>10, <2>1, <2>2, <3>1, <3>3
  <2> QED BY <2>3, <2>4 DEF StreamEnd
<1>12. ASSUME NEW kind \in {"translation", "failed"},
              batch' = [batch EXCEPT !.events = Append(@, Event(kind, batch.job, m))]
       PROVE  OrderInv'
  <2> DEFINE e == Event(kind, batch.job, m)
  <2>1. e \in Things /\ e.job = n /\ e.kind = kind /\ e.seg = m
    <3>1. kind \in EventKinds
      BY <1>12 DEF EventKinds
    <3> HIDE DEF EventKinds, Things
    <3> QED BY <1>2, <1>3, <3>1, EventIs DEF n
  <2>2. /\ batch'.events = Append(batch.events, e) /\ batch'.pc = "running"
        /\ batch'.job = batch.job
    BY <1>1, <1>2, <1>12
  <2> HIDE DEF e
  <2>3. kind = "translation" \/ ~Ordered(e)
    BY <2>1 DEF Ordered
  <2>4. /\ InOrder(Stages')
        /\ \A k, l : Reach(Stages, k, l) /\ Fits(e, k, l) => Reach(Stages', k, l)
    BY <1>8, <2>1, <2>2, <2>3
  <2>5. BatchNo' = n
    BY <2>2 DEF BatchNo, n
  <2>6. Len(batch'.events) + 1 = m + 1
    <3> HIDE DEF Things
    <3> QED BY <1>2, <2>1, <2>2, AppendProperties DEF m
  <2>7. Reach(Stages, n, m + 1)
    <3>1. ASSUME NEW i \in 1..5, NEW h \in DOMAIN Stages[i]
          PROVE  Fits(Stages[i][h], n, m + 1)
      <4>1. Stages[i] \in Seq(Things)
        BY <1>5 DEF Chains
      <4>2. Stages[i][h] \in Things
        <5> HIDE DEF Things
        <5> QED BY <4>1
      <4>3. Stages[i][h].seg \in Nat
        BY <4>2 DEF Things
      <4>4. Fits(Stages[i][h], n, m)
        BY <1>4 DEF Reach, Within
      <4> QED BY <1>3, <4>3, <4>4 DEF Fits
    <3> QED BY <3>1 DEF Reach, Within
  <2>8. Fits(e, n, m + 1)
    BY <1>3, <2>1, <2>3 DEF Fits
  <2>9. Reach(Stages', n, m + 1)
    BY <2>4, <2>7, <2>8
  <2>10. Translating'
    BY <2>2, <2>6, <2>9 DEF Translating, n
  <2> QED BY <1>10, <2>1, <2>2, <2>4, <2>5, <2>10
<1> QED BY <1>11, <1>12 DEF BatchNext, m

LEMMA OrderStart ==
    ASSUME Init
    PROVE  OrderInv
<1> USE DEF Init, SessionInit, WorkerInit, TtsInit
<1>1. Blank \in Things /\ ~Ordered(Blank)
  BY DEF Blank, Item, NoGeneration, Things, Kinds, Whys, Ordered
<1>2. /\ out = <<>> /\ results = <<>> /\ jobs = <<>> /\ worker.todo = <<>>
      /\ batch.events = <<>> /\ session.todo = <<>> /\ ttsJobs = <<>> /\ ttsResults = <<>>
      /\ worker.pc = "start" /\ batch.pc = "none" /\ tts.pc = "recv"
      /\ session.jobCount = 0 /\ session.pendingDrain = Blank
  BY DEF NoBatch
<1>3. \A S : <<>> \in Seq(S)
  OBVIOUS
<1>4. Typed
  <2>1. session \in Sessions
    <3> HIDE DEF Things, Sendings
    <3> QED BY <1>1, <1>3 DEF Sessions, LoopStates, InputStates
  <2>2. worker \in [pc : WorkerStates, job : Things, todo : Seq(Things), corpus : BOOLEAN]
    <3> HIDE DEF Things
    <3> QED BY <1>1, <1>3 DEF WorkerStates
  <2>3. batch \in [pc : BatchStates, job : Things, events : Seq(Things)]
    <3> HIDE DEF Things
    <3> QED BY <1>1, <1>3 DEF BatchStates, NoBatch
  <2>4. tts \in [pc : TtsStates, item : Things]
    <3> HIDE DEF Things
    <3> QED BY <1>1 DEF TtsStates
  <2>5. generation \in Nat
    BY DEF FirstGeneration
  <2> QED BY <1>2, <1>3, <2>1, <2>2, <2>3, <2>4, <2>5 DEF Typed
<1>5. Written(session.todo) = <<>>
  BY <1>2 DEF Written
<1>6. Stages = <<<<>>, <<>>, <<>>, <<>>, <<>>>>
  BY <1>2, <1>5 DEF Stages
<1>7. \A k \in 1..5 : Stages[k] = <<>>
  BY <1>6
<1>8. DOMAIN <<>> = {}
  OBVIOUS
<1>9. InOrder(Stages)
  BY <1>7, <1>8 DEF InOrder, Sorted, Ahead
<1>10. \A n, m : Reach(Stages, n, m)
  BY <1>7, <1>8 DEF Reach, Within
<1>11. Aside
  BY <1>1, <1>2, <1>8 DEF Aside, Silent
<1>12. WorkNo = 0 /\ BatchNo = 0
  BY <1>2 DEF WorkNo, BatchNo
<1>13. Upcoming(session.jobCount + 1)
  <2>1. session.jobCount + 1 = 1
    BY <1>2
  <2> QED BY <1>10, <1>12, <2>1 DEF Upcoming, Beyond
<1>14. Coming
  BY <1>2, <1>8, <1>13 DEF Coming
<1>15. Working /\ Translating
  BY <1>2 DEF Working, Translating
<1> QED BY <1>4, <1>9, <1>11, <1>14, <1>15 DEF OrderInv

LEMMA OrderStep ==
    ASSUME OrderInv, [Next]_vars
    PROVE  OrderInv'
<1>1. CASE UNCHANGED vars
  BY <1>1, OrderAside
<1>2. CASE Frames
  <2>1. CASE Disconnect
    BY <2>1, OrderEnd
  <2>2. CASE Reconfigure \/ Invalid \/ Pause \/ Resume \/ Finish
              \/ ToggleTts \/ TranslateText \/ Audio
    <3>1. Typed
      BY DEF OrderInv
    <3>2. PICK request : Frameable(request) /\ FrameEffect(request)
      BY <2>2, <3>1, FrameIs
    <3> QED BY <3>2, OrderFrame
  <2> QED BY <1>2, <2>1, <2>2 DEF Frames
<1>3. CASE SessionStep
  BY <1>3, OrderResult, OrderEnd, OrderAside, OrderSends DEF SessionStep
<1>4. CASE WorkerStep
  BY <1>4, OrderWorkerStep
<1>5. CASE BatchNext
  BY <1>5, OrderBatch
<1>6. CASE TtsNext \/ WriterNext
  BY <1>6, OrderAside
<1> QED BY <1>1, <1>2, <1>3, <1>4, <1>5, <1>6 DEF Next, SessionNext

\* Whatever the overlap of recognition and translation, the capacities of the channels
\* and the frames of the client: what reaches the client is in the order of the turns,
\* the segments of a turn in their order after its recognition, and the end of a stream
\* after all of it (run_inference_worker commits the pending translation before it
\* reports the next job).
THEOREM StreamIsInOrder == Spec => []StreamOrder
<1>1. Init => OrderInv
  BY OrderStart
<1>2. OrderInv /\ [Next]_vars => OrderInv'
  BY OrderStep
<1>3. OrderInv => StreamOrder
  <2> SUFFICES ASSUME OrderInv
               PROVE  StreamOrder
    OBVIOUS
  <2>1. Stages[1] = out /\ 1 \in 1..5
    BY DEF Stages
  <2>2. Sorted(out)
    BY <2>1 DEF OrderInv, InOrder
  <2> QED BY <2>2 DEF Sorted, Before, StreamOrder
<1> QED BY <1>1, <1>2, <1>3, PTL DEF Spec

-----------------------------------------------------------------------------
(* The last of a job: what a step does to the channels *)

Elems(s) == {s[i] : i \in DOMAIN s}

LEMMA ElemsOf ==
    ASSUME NEW S, NEW s \in Seq(S)
    PROVE  /\ Elems(s) \subseteq S
           /\ \A e \in S : Elems(Append(s, e)) = Elems(s) \cup {e}
           /\ s # <<>> => /\ Head(s) \in Elems(s) /\ Tail(s) \in Seq(S) /\ Head(s) \in S
                          /\ Elems(s) = {Head(s)} \cup Elems(Tail(s))
<1>0. DOMAIN s = 1..Len(s) /\ Len(s) \in Nat /\ \A i \in DOMAIN s : s[i] \in S
  BY LenProperties, ElementOfSeq
<1>1. ASSUME NEW e \in S
      PROVE  Elems(Append(s, e)) = Elems(s) \cup {e}
  <2>1. /\ Append(s, e) \in Seq(S) /\ Len(Append(s, e)) = Len(s) + 1
        /\ \A i \in 1..Len(s) : Append(s, e)[i] = s[i]
        /\ Append(s, e)[Len(s) + 1] = e
    BY AppendProperties
  <2>2. DOMAIN Append(s, e) = 1..(Len(s) + 1)
    BY <2>1, LenProperties
  <2> DEFINE t == Append(s, e)
  <2> HIDE DEF t
  <2>3. \A i \in 1..(Len(s) + 1) : i \in 1..Len(s) \/ i = Len(s) + 1
    BY <1>0
  <2>4. Len(s) + 1 \in 1..(Len(s) + 1) /\ \A i \in 1..Len(s) : i \in 1..(Len(s) + 1)
    BY <1>0
  <2> QED BY <1>0, <2>1, <2>2, <2>3, <2>4 DEF Elems, t
<1>2. ASSUME s # <<>>
      PROVE  /\ Head(s) \in Elems(s) /\ Tail(s) \in Seq(S) /\ Head(s) \in S
             /\ Elems(s) = {Head(s)} \cup Elems(Tail(s))
  <2>1. /\ Head(s) \in S /\ Tail(s) \in Seq(S) /\ Len(Tail(s)) = Len(s) - 1
        /\ \A i \in 1..Len(Tail(s)) : Tail(s)[i] = s[i + 1]
        /\ Head(s) = s[1] /\ Len(s) > 0
    BY <1>0, <1>2, HeadTailProperties, EmptySeq
  <2>2. DOMAIN Tail(s) = 1..(Len(s) - 1)
    BY <2>1, LenProperties
  <2> DEFINE t == Tail(s)
  <2> HIDE DEF t
  <2>3. \A i \in 1..Len(s) : i = 1 \/ (i - 1 \in 1..(Len(s) - 1) /\ (i - 1) + 1 = i)
    BY <1>0
  <2>4. 1 \in 1..Len(s) /\ \A i \in 1..(Len(s) - 1) : i + 1 \in 1..Len(s)
    BY <1>0, <2>1
  <2>5. \A i \in 1..Len(s) : s[i] = Head(s) \/ s[i] \in Elems(t)
    BY <1>0, <2>1, <2>2, <2>3 DEF Elems, t
  <2>6. \A i \in DOMAIN t : t[i] \in Elems(s)
    BY <1>0, <2>1, <2>2, <2>4 DEF Elems, t
  <2>7. Elems(s) \subseteq {Head(s)} \cup Elems(t)
    BY <1>0, <2>5 DEF Elems
  <2>8. Elems(t) \subseteq Elems(s)
    BY <2>6 DEF Elems
  <2>9. Head(s) \in Elems(s)
    BY <1>0, <2>1, <2>4 DEF Elems
  <2> QED BY <2>1, <2>7, <2>8, <2>9 DEF t
<1>3. Elems(s) \subseteq S
  BY <1>0 DEF Elems
<1> QED BY <1>1, <1>2, <1>3

LEMMA ElemsFew ==
    /\ Elems(<<>>) = {}
    /\ \A a : Elems(<<a>>) = {a}
    /\ \A a, b : Elems(<<a, b>>) = {a, b}
<1>1. Elems(<<>>) = {}
  <2>1. DOMAIN <<>> = {}
    OBVIOUS
  <2> QED BY <2>1 DEF Elems
<1>2. ASSUME NEW a
      PROVE  Elems(<<a>>) = {a}
  BY DEF Elems
<1>3. ASSUME NEW a, NEW b
      PROVE  Elems(<<a, b>>) = {a, b}
  BY DEF Elems
<1> QED BY <1>1, <1>2, <1>3

LEMMA ElemsJoined ==
    ASSUME NEW S, NEW s \in Seq(S), NEW t \in Seq(S)
    PROVE  s \o t \in Seq(S) /\ Elems(s \o t) = Elems(s) \cup Elems(t)
<1>1. /\ s \o t \in Seq(S) /\ Len(s \o t) = Len(s) + Len(t)
      /\ \A i \in 1..(Len(s) + Len(t)) :
            (s \o t)[i] = IF i <= Len(s) THEN s[i] ELSE t[i - Len(s)]
  BY ConcatProperties
<1>2. /\ Len(s) \in Nat /\ DOMAIN s = 1..Len(s) /\ Len(t) \in Nat /\ DOMAIN t = 1..Len(t)
      /\ DOMAIN (s \o t) = 1..(Len(s) + Len(t))
  BY <1>1, LenProperties
<1> DEFINE u == s \o t
<1> HIDE DEF u
<1>3. \A i \in DOMAIN u : u[i] \in Elems(s) \/ u[i] \in Elems(t)
  <2>1. \A i \in 1..(Len(s) + Len(t)) : i \in 1..Len(s) \/ (~(i <= Len(s)) /\ i - Len(s) \in 1..Len(t))
    BY <1>2
  <2> QED BY <1>1, <1>2, <2>1 DEF Elems, u
<1>4. \A i \in DOMAIN s : s[i] \in Elems(u)
  <2>1. \A i \in 1..Len(s) : i \in 1..(Len(s) + Len(t)) /\ i <= Len(s)
    BY <1>2
  <2> QED BY <1>1, <1>2, <2>1 DEF Elems, u
<1>5. \A i \in DOMAIN t : t[i] \in Elems(u)
  <2>1. \A i \in 1..Len(t) :
           i + Len(s) \in 1..(Len(s) + Len(t)) /\ ~(i + Len(s) <= Len(s)) /\ (i + Len(s)) - Len(s) = i
    BY <1>2
  <2>2. \A i \in 1..Len(t) : u[i + Len(s)] = t[i]
    BY <1>1, <2>1 DEF u
  <2> QED BY <1>2, <2>1, <2>2 DEF Elems, u
<1>6. Elems(u) \subseteq Elems(s) \cup Elems(t)
  BY <1>3 DEF Elems
<1>7. Elems(s) \subseteq Elems(u) /\ Elems(t) \subseteq Elems(u)
  BY <1>4, <1>5 DEF Elems
<1> QED BY <1>1, <1>6, <1>7 DEF u

\* The steps of the worker: it sends an event, takes a job, takes over a finished
\* translation, ends, starts, reports on its job, or has it translated.
WorkerSends ==
    /\ worker.todo # <<>> /\ results' = Append(results, Head(worker.todo))
    /\ worker'.todo = Tail(worker.todo) /\ worker'.pc = worker.pc /\ worker'.job = worker.job
    /\ UNCHANGED <<batch, jobs>>

WorkerHears ==
    /\ worker.pc = "recv" /\ worker.todo = <<>> /\ worker'.todo = <<>>
    /\ jobs # <<>> /\ jobs' = Tail(jobs)
    /\ \/ worker'.pc = "recv"
       \/ worker'.pc \in {"asr", "commit"} /\ worker'.job = Head(jobs)
    /\ UNCHANGED <<batch, results>>

WorkerTakes ==
    /\ worker.todo = <<>> /\ worker'.todo = batch.events
    /\ batch.pc = "done" /\ batch' = NoBatch
    /\ \/ worker.pc \in {"recv", "stopping"} /\ worker'.pc = worker.pc
       \/ worker.pc = "commit" /\ worker'.pc = "emit" /\ worker'.job = worker.job
    /\ UNCHANGED <<jobs, results>>

WorkerEnds ==
    /\ worker.pc \in {"recv", "stopping"} /\ worker'.pc \in {"stopping", "gone"}
    /\ worker.todo = <<>> /\ worker'.todo = <<>>
    /\ jobs' = jobs \/ jobs' = <<>>
    /\ UNCHANGED <<batch, results>>

WorkerBegins ==
    /\ worker.pc = "start" /\ worker'.pc \in {"recv", "stopping"} /\ worker.todo = <<>>
    /\ \/ worker'.todo = <<>>
       \/ \E e \in Things : worker'.todo = <<e>> /\ e.job = 0 /\ e.kind = "error"
    /\ UNCHANGED <<batch, jobs, results>>

\* What the worker says of its job
Says(e) ==
    /\ e \in Things /\ e.job = worker.job.job /\ e.gen = worker.job.gen
    /\ e.kind = "drained" =>
          /\ worker.pc = "emit" /\ worker'.pc = "recv"
          /\ worker.job.kind = "drain" /\ e.reason = worker.job.reason
    /\ e.kind = "recognized" => worker'.pc = "spawn" /\ e.seg = worker'.job.seg

SameJob ==
    /\ worker'.job.job = worker.job.job /\ worker'.job.gen = worker.job.gen
    /\ worker'.job.kind = worker.job.kind /\ worker'.job.reason = worker.job.reason

WorkerReports ==
    /\ worker.pc \in {"asr", "commit", "emit"} /\ worker'.pc \in {"recv", "commit", "emit", "spawn"}
    /\ worker'.pc # "recv" => SameJob
    /\ worker'.pc = "spawn" => worker.pc = "emit"
    /\ worker.todo = <<>>
    /\ worker'.todo = <<>> \/ \E e \in Things : worker'.todo = <<e>> /\ Says(e)
    /\ UNCHANGED <<batch, jobs, results>>

WorkerSpawns ==
    /\ worker.pc = "spawn" /\ worker'.pc = "recv"
    /\ worker.todo = <<>> /\ worker'.todo = <<>>
    /\ batch'.pc = "running" /\ batch'.job = worker.job /\ batch'.events = <<>>
    /\ UNCHANGED <<jobs, results>>

LEMMA WorkerIs ==
    ASSUME Typed, WorkerStep
    PROVE  /\ UNCHANGED <<generation, session, tts, ttsJobs, ttsResults, out>>
           /\ \/ WorkerSends \/ WorkerHears \/ WorkerTakes \/ WorkerEnds \/ WorkerBegins
              \/ WorkerReports \/ WorkerSpawns
<1>1. /\ worker \in [pc : WorkerStates, job : Things, todo : Seq(Things), corpus : BOOLEAN]
      /\ worker.job \in Things /\ generation \in Nat
  BY DEF Typed
<1>2. UNCHANGED <<generation, session, tts, ttsJobs, ttsResults, out>>
  BY DEF WorkerStep, WorkerSend, WorkerNext, WorkerStart, WorkerSpawn, WorkerStop,
         WorkerReceive, WorkerCollect, WorkerClosed, WorkerRecognize, WorkerCommit,
         WorkerEmit, NoChannelButJobs
<1>3. \A pc, events : Goto(pc, events) =>
         /\ worker'.pc = pc /\ worker'.todo = events
         /\ pc \in {"commit", "emit", "spawn"} => worker'.job = worker.job
  <2> HIDE DEF Things
  <2> QED BY <1>1 DEF Goto
<1>4. worker'.job = worker.job => SameJob
  BY DEF SameJob
<1>5. ASSUME NEW kind \in {"error", "window", "streamEnded", "drained"}
      PROVE  /\ Event(kind, worker.job, 0) \in Things
             /\ Event(kind, worker.job, 0).job = worker.job.job
             /\ Event(kind, worker.job, 0).gen = worker.job.gen
             /\ Event(kind, worker.job, 0).kind = kind
             /\ Event(kind, worker.job, 0).reason = worker.job.reason
  <2>1. kind \in EventKinds
    BY <1>5 DEF EventKinds
  <2>2. Event(kind, worker.job, 0) \in Things
    BY <1>1, <2>1, EventIs
  <2> QED BY <2>2 DEF Event, Item
<1> HIDE DEF Things
<1>6. CASE WorkerSend
  BY <1>1, <1>6 DEF WorkerSend, WorkerSends
<1>7. CASE WorkerStart
  <2>1. CASE Goto("recv", <<>>)
    BY <1>3, <1>7, <2>1 DEF WorkerStart, Ready, NoChannelButJobs, WorkerBegins
  <2>2. CASE worker' = [worker EXCEPT !.pc = "stopping",
                          !.todo = <<Item("error", 0, generation, 0, "")>>, !.corpus = FALSE]
    <3> DEFINE e == Item("error", 0, generation, 0, "")
    <3>1. e \in Things /\ e.job = 0 /\ e.kind = "error"
      <4>1. "error" \in Kinds
        BY DEF Kinds, EventKinds
      <4>2. "" \in Whys
        BY DEF Whys
      <4>3. \A why \in Whys :
               LET it == Item("error", 0, generation, 0, why)
               IN  it \in Things /\ it.job = 0 /\ it.kind = "error"
        BY <1>1, <4>1, ItemIsThing
      <4> QED BY <4>2, <4>3, Zenon
    <3> HIDE DEF e
    <3>2. worker'.pc = "stopping" /\ worker'.todo = <<e>>
      BY <1>1, <2>2 DEF e
    <3> QED BY <1>7, <3>1, <3>2 DEF WorkerStart, Ready, NoChannelButJobs, WorkerBegins
  <2> QED BY <1>7, <2>1, <2>2 DEF WorkerStart
<1>8. CASE WorkerSpawn
  BY <1>1, <1>3, <1>8 DEF WorkerSpawn, Ready, NoChannelButJobs, WorkerSpawns
<1>9. CASE WorkerReceive
  BY <1>1, <1>9 DEF WorkerReceive, Ready, NoChannelButJobs, WorkerHears
<1>10. CASE WorkerStop \/ WorkerCollect \/ WorkerClosed \/ WorkerCommit
  <2>1. CASE WorkerStop
    BY <1>3, <2>1 DEF WorkerStop, Ready, NoChannelButJobs, WorkerTakes, WorkerEnds
  <2>2. CASE WorkerCollect
    BY <1>3, <2>2 DEF WorkerCollect, Ready, NoChannelButJobs, WorkerTakes
  <2>3. CASE WorkerClosed
    BY <1>3, <2>3 DEF WorkerClosed, Ready, NoChannelButJobs, WorkerEnds
  <2>4. CASE WorkerCommit
    <3>1. CASE batch.pc = "none" /\ Goto("emit", <<>>) /\ UNCHANGED batch
      BY <1>3, <1>4, <2>4, <3>1 DEF WorkerCommit, Ready, NoChannelButJobs, WorkerReports
    <3>2. CASE batch.pc = "done" /\ Goto("emit", batch.events) /\ batch' = NoBatch
      BY <1>3, <2>4, <3>2 DEF WorkerCommit, Ready, NoChannelButJobs, WorkerTakes
    <3> QED BY <2>4, <3>1, <3>2 DEF WorkerCommit
  <2> QED BY <1>10, <2>1, <2>2, <2>3, <2>4
<1>11. CASE WorkerRecognize
  <2>1. /\ worker.pc = "asr" /\ worker.todo = <<>> /\ UNCHANGED <<batch, jobs, results>>
    BY <1>11 DEF WorkerRecognize, Ready, NoChannelButJobs
  <2>2. ASSUME Goto("recv", <<>>)
        PROVE  WorkerReports
    BY <1>3, <2>1, <2>2 DEF WorkerReports
  <2>3. ASSUME NEW kind \in {"error", "window"}, NEW pc \in {"recv", "commit"},
               Goto(pc, <<Event(kind, worker.job, 0)>>)
        PROVE  WorkerReports
    <3> DEFINE e == Event(kind, worker.job, 0)
    <3>1. e \in Things /\ e.job = worker.job.job /\ e.gen = worker.job.gen /\ e.kind = kind
      BY <1>5, <2>3
    <3>2. worker'.pc = pc /\ worker'.todo = <<e>> /\ (pc = "commit" => worker'.job = worker.job)
      BY <1>3, <2>3
    <3> HIDE DEF e
    <3>3. Says(e)
      BY <2>3, <3>1 DEF Says
    <3> QED BY <1>4, <2>1, <2>3, <3>1, <3>2, <3>3 DEF WorkerReports
  <2>4. \/ Goto("recv", <<>>)
        \/ \E kind \in {"error", "window"}, pc \in {"recv", "commit"} :
              Goto(pc, <<Event(kind, worker.job, 0)>>)
    BY <1>11, Zenon DEF WorkerRecognize
  <2> QED BY <1>2, <2>2, <2>3, <2>4
<1>12. CASE WorkerEmit
  <2>1. /\ worker.pc = "emit" /\ worker.todo = <<>> /\ UNCHANGED <<batch, jobs, results>>
    BY <1>12 DEF WorkerEmit, Ready, NoChannelButJobs
  <2>2. ASSUME EmitStale
        PROVE  WorkerReports
    BY <1>3, <2>1, <2>2 DEF EmitStale, WorkerReports
  <2>3. ASSUME NEW kind \in {"streamEnded", "drained", "error"},
               kind = "drained" => worker.job.kind = "drain",
               Goto("recv", <<Event(kind, worker.job, 0)>>)
        PROVE  WorkerReports
    <3> DEFINE e == Event(kind, worker.job, 0)
    <3>1. /\ e \in Things /\ e.job = worker.job.job /\ e.gen = worker.job.gen /\ e.kind = kind
          /\ e.reason = worker.job.reason
      BY <1>5, <2>3
    <3>2. worker'.pc = "recv" /\ worker'.todo = <<e>>
      BY <1>3, <2>3
    <3> HIDE DEF e
    <3>3. Says(e)
      BY <2>1, <2>3, <3>1, <3>2 DEF Says
    <3> QED BY <2>1, <3>1, <3>2, <3>3 DEF WorkerReports
  <2>4. ASSUME NEW count \in 0..MaxSegments,
               worker' = [worker EXCEPT !.pc = "spawn", !.job.seg = count,
                            !.todo = <<Event("recognized", worker.job, count)>>]
        PROVE  WorkerReports
    <3> DEFINE e == Event("recognized", worker.job, count)
    <3>1. /\ e \in Things /\ e.job = worker.job.job /\ e.gen = worker.job.gen
          /\ e.kind = "recognized" /\ e.seg = count
      <4>1. "recognized" \in EventKinds /\ count \in Nat
        BY <2>4, CapacityAssumption DEF EventKinds
      <4> QED BY <1>1, <4>1, EventIs DEF Event, Item
    <3> HIDE DEF e
    <3>2. /\ worker'.pc = "spawn" /\ worker'.todo = <<e>>
          /\ worker'.job = [worker.job EXCEPT !.seg = count]
      BY <1>1, <2>4 DEF e
    <3>3. worker'.job.seg = count
      BY <1>1, <3>2 DEF Things
    <3>4. Says(e)
      BY <3>1, <3>2, <3>3 DEF Says
    <3>5. SameJob
      BY <1>1, <3>2 DEF Things, SameJob
    <3> QED BY <2>1, <3>1, <3>2, <3>3, <3>4, <3>5 DEF WorkerReports
  <2>5. \/ EmitStale
        \/ \E kind \in {"streamEnded", "drained", "error"} :
              /\ kind = "drained" => worker.job.kind = "drain"
              /\ Goto("recv", <<Event(kind, worker.job, 0)>>)
        \/ \E count \in 0..MaxSegments :
              worker' = [worker EXCEPT !.pc = "spawn", !.job.seg = count,
                            !.todo = <<Event("recognized", worker.job, count)>>]
    BY <1>12, Zenon DEF WorkerEmit, EmitMarker, EmitRecognized
  <2> QED BY <1>2, <2>2, <2>3, <2>4, <2>5
<1> QED BY <1>2, <1>6, <1>7, <1>8, <1>9, <1>10, <1>11, <1>12 DEF WorkerStep, WorkerNext

\* The steps of the session: what its handlers leave it to send, and what it keeps.
Others == <<generation, worker, batch, tts, jobs, results, ttsJobs, ttsResults, out>>

Keeps ==
    /\ session'.jobCount = session.jobCount /\ session'.input = session.input
    /\ session'.pendingTts = session.pendingTts /\ session'.pendingDrain = session.pendingDrain

Stays == Keeps /\ session'.loop = session.loop /\ session'.graceful = session.graceful

\* The fence, and the end of the session unless it was a pause
FenceOf(x, fence) ==
    /\ x.op = "out"
    /\ x.item.kind = fence.kind /\ x.item.job = fence.job
    /\ x.item.gen = generation /\ x.item.reason = fence.reason

Sealed(t, fence) ==
    /\ t # <<>> /\ FenceOf(Head(t), fence)
    /\ \A x \in Elems(Tail(t)) : x.op = "leave" /\ x.item.job = 0 /\ fence.reason # "paused"

LEMMA Pairs ==
    ASSUME NEW S, NEW a \in S, NEW b \in S
    PROVE  /\ <<a>> \in Seq(S) /\ <<>> \in Seq(S) /\ <<a, b>> \in Seq(S)
           /\ <<a>> \o <<>> = <<a>> /\ <<a>> \o <<b>> = <<a, b>>
<1>1. <<a>> \in Seq(S) /\ <<>> \in Seq(S) /\ <<a, b>> \in Seq(S)
  OBVIOUS
<1>2. Len(<<a>>) = 1 /\ Len(<<b>>) = 1 /\ Len(<<>>) = 0 /\ Len(<<a, b>>) = 2
  OBVIOUS
<1>3. <<a>> \o <<>> = <<a>>
  BY <1>1, ConcatEmptySeq
<1>4. <<a>> \o <<b>> = <<a, b>>
  <2> DEFINE u == <<a>> \o <<b>>
             v == <<a, b>>
  <2>1. /\ u \in Seq(S) /\ Len(u) = 2
        /\ \A i \in 1..2 : u[i] = IF i <= 1 THEN <<a>>[i] ELSE <<b>>[i - 1]
    BY <1>1, <1>2, ConcatProperties
  <2>2. v \in Seq(S) /\ Len(v) = 2 /\ v[1] = a /\ v[2] = b
    BY <1>1
  <2> HIDE DEF u, v
  <2>3. u[1] = a /\ u[2] = b
    BY <2>1
  <2>4. \A i \in 1..2 : i = 1 \/ i = 2
    OBVIOUS
  <2>5. u = v
    BY <2>1, <2>2, <2>3, <2>4, SeqEqual
  <2> QED BY <2>5 DEF u, v
<1> QED BY <1>1, <1>3, <1>4

LEMMA DrainedIs ==
    ASSUME NEW fence \in Things, generation \in Nat
    PROVE  Drained(fence) \in Seq(Sendings) /\ Sealed(Drained(fence), fence)
<1> DEFINE a == Do("out", [fence EXCEPT !.gen = generation])
           b == Do("leave", Blank)
<1> DEFINE f == [fence EXCEPT !.gen = generation]
<1>0. "out" \in Ops /\ "leave" \in Ops
  BY DEF Ops
<1>1. a \in Sendings /\ FenceOf(a, fence)
  <2>1. /\ f \in Things /\ f.kind = fence.kind /\ f.job = fence.job
        /\ f.gen = generation /\ f.reason = fence.reason
    <3> HIDE DEF Kinds, Whys
    <3> QED BY DEF Things
  <2>2. a = Do("out", f)
    OBVIOUS
  <2> HIDE DEF f, a, Things, Sendings
  <2>3. a \in Sendings /\ a.op = "out" /\ a.item = f
    BY <1>0, <2>1, <2>2, AsideThings
  <2> QED BY <2>1, <2>3 DEF FenceOf
<1>2. b \in Sendings /\ b.op = "leave" /\ b.item.job = 0
  <2>1. Blank.job = 0
    BY DEF Blank, Item
  <2>2. Blank \in Things /\ b \in Sendings /\ b.op = "leave" /\ b.item = Blank
    BY <1>0, AsideThings, Zenon
  <2> QED BY <2>1, <2>2
<1>3. Drained(fence) = <<a>> \o (IF fence.reason = "paused" THEN <<>> ELSE <<b>>)
  BY DEF Drained
<1> HIDE DEF a, b, Sendings, Things
<1>4. /\ <<a>> \in Seq(Sendings) /\ <<>> \in Seq(Sendings) /\ <<a, b>> \in Seq(Sendings)
      /\ <<a>> \o <<>> = <<a>> /\ <<a>> \o <<b>> = <<a, b>>
  BY <1>1, <1>2, Pairs
<1>7. /\ Head(<<a>>) = a /\ Tail(<<a>>) = <<>> /\ <<a>> # <<>>
      /\ Head(<<a, b>>) = a /\ Tail(<<a, b>>) = <<b>> /\ <<a, b>> # <<>>
  OBVIOUS
<1>5. CASE fence.reason = "paused"
  <2>1. Drained(fence) = <<a>>
    BY <1>3, <1>4, <1>5
  <2> QED BY <1>1, <1>4, <1>7, <2>1, ElemsFew DEF Sealed
<1>6. CASE fence.reason # "paused"
  <2>1. Drained(fence) = <<a, b>>
    BY <1>3, <1>4, <1>6
  <2> QED BY <1>1, <1>2, <1>4, <1>6, <1>7, <2>1, ElemsFew DEF Sealed
<1> QED BY <1>5, <1>6

HearsFence ==
    LET event == Head(results) IN
    /\ session.loop = "run" /\ session.todo = <<>> /\ results # <<>> /\ results' = Tail(results)
    /\ event.kind = "drained"
    /\ \/ /\ session.pendingTts = 0 /\ Sealed(session'.todo, event)
          /\ session'.pendingDrain = session.pendingDrain
       \/ /\ session.pendingTts # 0 /\ session'.todo = <<>>
          /\ session'.pendingDrain = event
    /\ session'.loop = "run" /\ session'.graceful = session.graceful
    /\ session'.jobCount = session.jobCount /\ session'.input = session.input
    /\ session'.pendingTts = session.pendingTts
    /\ UNCHANGED <<generation, worker, batch, tts, jobs, ttsJobs, ttsResults, out>>

\* How the kind of an event is written
WrittenAs(kind) == IF kind = "failed" THEN "error" ELSE kind

\* What is sent for an event: nothing, its message, or its message and its speech
Message(x, event) ==
    /\ x.op = "out" /\ x.item.kind = WrittenAs(event.kind) /\ x.item.job = event.job
    /\ x.item.gen = event.gen /\ x.item.seg = event.seg

Answers(t, event, spoken) ==
    \/ /\ t = <<>> /\ ~spoken
       /\ event.gen # generation \/ event.kind \in {"window", "drained"}
    \/ \E a \in Sendings : t = <<a>> /\ Message(a, event) /\ ~spoken /\ event.gen = generation
    \/ \E a, b \in Sendings :
          /\ t = <<a, b>> /\ Message(a, event) /\ spoken
          /\ b.op = "tts" /\ b.item.job = event.job /\ event.gen = generation

LEMMA OutputSends ==
    ASSUME NEW event \in Things, NEW spoken \in Spoken(event), session.ttsEpoch \in Nat
    PROVE  Answers(OutputOf(event, spoken), event, spoken)
<1> DEFINE speech == [event EXCEPT !.kind = "speech", !.epoch = session.ttsEpoch]
           a == Write(event.kind, event)
           b == Do("tts", speech)
           c == Write("error", event)
<1>0. /\ spoken \in BOOLEAN
      /\ spoken => event.kind = "translation" /\ event.gen = generation
  BY FrameAssumption DEF Spoken
<1>1. /\ a \in Sendings /\ a.op = "out" /\ a.item = event
      /\ c \in Sendings /\ c.op = "out" /\ c.item.kind = "error" /\ c.item.job = event.job
      /\ c.item.gen = event.gen /\ c.item.seg = event.seg
      /\ b \in Sendings /\ b.op = "tts" /\ b.item.job = event.job
  <2> DEFINE failure == [event EXCEPT !.kind = "error"]
  <2>0. "error" \in Kinds /\ "speech" \in Kinds
    BY Zenon DEF Kinds, EventKinds
  <2>1. [event EXCEPT !.kind = event.kind] = event
    BY DEF Things
  <2>2. /\ failure \in Things /\ failure.kind = "error" /\ failure.job = event.job
        /\ failure.gen = event.gen /\ failure.seg = event.seg
    <3> HIDE DEF Kinds, Whys
    <3> QED BY <2>0 DEF Things
  <2>3. speech \in Things /\ speech.job = event.job
    <3> HIDE DEF Kinds, Whys
    <3> QED BY <2>0 DEF Things
  <2>4. a = Do("out", event) /\ b = Do("tts", speech) /\ c = Do("out", failure)
    BY <2>1 DEF Write
  <2>5. "out" \in Ops /\ "tts" \in Ops
    BY DEF Ops
  <2> HIDE DEF speech, failure, a, b, c, Things, Sendings
  <2> QED BY <2>2, <2>3, <2>4, <2>5, AsideThings
<1>2. CASE event.gen # generation \/ event.kind \in {"window", "drained"}
  <2>1. ~spoken
    BY <1>0, <1>2
  <2>2. OutputOf(event, spoken) = <<>>
    BY <1>2 DEF OutputOf
  <2> QED BY <1>2, <2>1, <2>2 DEF Answers
<1>3. CASE event.gen = generation /\ event.kind = "translation" /\ spoken
  <2>1. OutputOf(event, spoken) = <<a, b>>
    BY <1>3 DEF OutputOf
  <2>2. Message(a, event)
    BY <1>1, <1>3 DEF Message, WrittenAs
  <2> HIDE DEF a, b
  <2> QED BY <1>1, <1>3, <2>1, <2>2 DEF Answers
<1>4. CASE event.gen = generation /\ event.kind = "failed"
  <2>1. OutputOf(event, spoken) = <<c>> /\ ~spoken
    BY <1>0, <1>4 DEF OutputOf
  <2>2. Message(c, event)
    BY <1>1, <1>4 DEF Message, WrittenAs
  <2> HIDE DEF c
  <2> QED BY <1>1, <1>4, <2>1, <2>2 DEF Answers
<1>5. CASE /\ event.gen = generation /\ event.kind \notin {"window", "drained", "failed"}
           /\ ~(event.kind = "translation" /\ spoken)
  <2>1. OutputOf(event, spoken) = <<a>> /\ ~spoken
    BY <1>0, <1>5 DEF OutputOf
  <2>2. Message(a, event)
    BY <1>1, <1>5 DEF Message, WrittenAs
  <2> HIDE DEF a
  <2> QED BY <1>1, <1>5, <2>1, <2>2 DEF Answers
<1> QED BY <1>2, <1>3, <1>4, <1>5

HearsEvent ==
    LET event == Head(results) IN
    /\ session.loop = "run" /\ session.todo = <<>> /\ results # <<>> /\ results' = Tail(results)
    /\ event.kind # "drained"
    /\ \E spoken \in BOOLEAN :
          /\ Answers(session'.todo, event, spoken)
          /\ session'.pendingTts = IF spoken THEN session.pendingTts + 1 ELSE session.pendingTts
    /\ session'.loop = "run" /\ session'.graceful = session.graceful
    /\ session'.jobCount = session.jobCount /\ session'.input = session.input
    /\ session'.pendingDrain = session.pendingDrain
    /\ UNCHANGED <<generation, worker, batch, tts, jobs, ttsJobs, ttsResults, out>>

LEMMA ResultIs ==
    ASSUME Typed, HandleResult
    PROVE  HearsFence \/ HearsEvent
<1> DEFINE event == Head(results)
<1>0. /\ session \in Sessions /\ generation \in Nat /\ results \in Seq(Things)
      /\ session.loop = "run" /\ session.todo = <<>> /\ results # <<>> /\ results' = Tail(results)
      /\ UNCHANGED <<generation, worker, batch, tts, jobs, ttsJobs, ttsResults, out>>
  BY DEF Typed, HandleResult, Selecting
<1>1. event \in Things
  BY <1>0, Tailed
<1>2. Drained(event) \in Seq(Sendings) /\ Sealed(Drained(event), event)
  BY <1>0, <1>1, DrainedIs
<1>3. session.ttsEpoch \in Nat
  BY <1>0 DEF Sessions
<1> HIDE DEF Things, Sendings, event
<1>4. CASE event.kind = "drained"
  <2>1. HandleDrained(event)
    BY <1>4 DEF HandleResult, event
  <2>2. CASE session.pendingTts = 0
    <3>1. session' = [session EXCEPT !.todo = Drained(event)]
      BY <2>1, <2>2 DEF HandleDrained
    <3> QED BY <1>0, <1>2, <1>4, <2>2, <3>1 DEF HearsFence, Sessions, event
  <2>3. CASE session.pendingTts # 0
    <3>1. session' = [session EXCEPT !.pendingDrain = event]
      BY <2>1, <2>3 DEF HandleDrained
    <3> QED BY <1>0, <1>4, <2>3, <3>1 DEF HearsFence, Sessions, event
  <2> QED BY <2>2, <2>3
<1>5. CASE event.kind # "drained"
  <2>1. PICK spoken \in Spoken(event) :
           session' = [session EXCEPT !.todo = OutputOf(event, spoken),
                                      !.pendingTts = IF spoken THEN @ + 1 ELSE @]
    BY <1>5 DEF HandleResult, event
  <2>2. Answers(OutputOf(event, spoken), event, spoken)
    BY <1>1, <1>3, OutputSends
  <2>3. spoken \in BOOLEAN
    BY <2>1, FrameAssumption DEF Spoken
  <2>4. /\ session'.todo = OutputOf(event, spoken)
        /\ session'.pendingTts = IF spoken THEN session.pendingTts + 1 ELSE session.pendingTts
        /\ session'.loop = session.loop /\ session'.graceful = session.graceful
        /\ session'.jobCount = session.jobCount /\ session'.input = session.input
        /\ session'.pendingDrain = session.pendingDrain
    BY <1>0, <2>1 DEF Sessions
  <2> QED BY <1>0, <1>5, <2>2, <2>3, <2>4 DEF HearsEvent, event
<1> QED BY <1>4, <1>5

\* An item of job j may follow the fence of job n: it stems from no job before it.
Free(j, n) == j \notin 1..(n - 1)
Clear(s, n) == \A x \in Elems(s) : Free(x.job, n)

Fence(x) == x.kind = "drained"
Rear(s) == \A i, j \in DOMAIN s : i < j /\ Fence(s[i]) => Free(s[j].job, s[i].job)

FenceSent(x) == x.op = "out" /\ Fence(x.item)
TodoRear(t) ==
    \A i, j \in DOMAIN t : i < j /\ FenceSent(t[i]) => Free(t[j].item.job, t[i].item.job)

LEMMA FreeIs ==
    /\ \A n : Free(0, n)
    /\ \A j, n \in Nat : n <= j => Free(j, n)
BY DEF Free

LEMMA SealedIs ==
    ASSUME NEW t \in Seq(Sendings), NEW fence \in Things, Sealed(t, fence), generation \in Nat
    PROVE  /\ TodoRear(t)
           /\ \E a \in Elems(t) :
                 /\ FenceOf(a, fence)
                 /\ \A x \in Elems(t) :
                      x = a \/ (x.op = "leave" /\ x.item.job = 0 /\ fence.reason # "paused")
<1>1. /\ Head(t) \in Elems(t) /\ Elems(t) = {Head(t)} \cup Elems(Tail(t))
  BY ElemsOf DEF Sealed
<1>2. /\ Head(t) = t[1] /\ 1 \in DOMAIN t
      /\ DOMAIN t = 1..Len(t) /\ Len(t) \in Nat /\ Len(Tail(t)) = Len(t) - 1
      /\ DOMAIN Tail(t) = 1..Len(Tail(t))
      /\ \A i \in 1..Len(Tail(t)) : Tail(t)[i] = t[i + 1]
  <2> HIDE DEF Sendings
  <2>1. Tail(t) \in Seq(Sendings) /\ t # <<>>
    BY TodoTail DEF Sealed
  <2> QED BY <2>1, TodoTail, HeadTailProperties, LenProperties
<1>3. \A j \in DOMAIN t : j > 1 => t[j] \in Elems(Tail(t))
  <2>1. ASSUME NEW j \in DOMAIN t, j > 1
        PROVE  t[j] \in Elems(Tail(t))
    <3>1. j - 1 \in 1..Len(Tail(t)) /\ (j - 1) + 1 = j
      BY <1>2, <2>1
    <3>2. t[j] = Tail(t)[j - 1]
      BY <1>2, <3>1
    <3> QED BY <1>2, <3>1, <3>2 DEF Elems
  <2> QED BY <2>1
<1>4. \A j \in DOMAIN t : j > 1 => t[j].op = "leave" /\ t[j].item.job = 0
  BY <1>3 DEF Sealed
<1>5. TodoRear(t)
  <2>1. ASSUME NEW i \in DOMAIN t, NEW j \in DOMAIN t, i < j, FenceSent(t[i])
        PROVE  Free(t[j].item.job, t[i].item.job)
    <3>1. j > 1
      BY <1>2, <2>1
    <3> QED BY <1>4, <3>1, FreeIs
  <2> QED BY <2>1 DEF TodoRear
<1> QED BY <1>1, <1>5 DEF Sealed

\* The handler of a TTS result: what is said, and the fence that waited for it
HearsSpeech ==
    /\ session.loop = "run" /\ session.todo = <<>>
    /\ ttsResults # <<>> /\ ttsResults' = Tail(ttsResults)
    /\ session'.pendingTts = LeftAfter(Head(ttsResults))
    /\ \E said, sealed \in Seq(Sendings) :
          /\ session'.todo = said \o sealed
          /\ said = <<>> \/ \E a \in Sendings :
                said = <<a>> /\ a.op = "out" /\ a.item = Head(ttsResults)
          /\ \/ /\ sealed = <<>> /\ session'.pendingDrain = session.pendingDrain
                /\ session.pendingDrain # Blank => session'.pendingTts # 0
             \/ /\ Sealed(sealed, session.pendingDrain) /\ session.pendingDrain # Blank
                /\ session'.pendingTts = 0 /\ session'.pendingDrain = Blank
    /\ session'.loop = "run" /\ session'.graceful = session.graceful
    /\ session'.jobCount = session.jobCount /\ session'.input = session.input
    /\ UNCHANGED <<generation, worker, batch, tts, jobs, results, ttsJobs, out>>

LEMMA SpeechIs ==
    ASSUME Typed, HandleTtsResult
    PROVE  HearsSpeech
<1> DEFINE result == Head(ttsResults)
           left == LeftAfter(result)
           fence == session.pendingDrain
           done == left = 0 /\ fence # Blank
           said == IF TtsIsCurrent(result) THEN <<Do("out", result)>> ELSE <<>>
           sealed == IF done THEN Drained(fence) ELSE <<>>
<1>0. /\ session \in Sessions /\ generation \in Nat /\ ttsResults \in Seq(Things)
      /\ session.loop = "run" /\ session.todo = <<>> /\ ttsResults # <<>>
      /\ ttsResults' = Tail(ttsResults)
      /\ UNCHANGED <<generation, worker, batch, tts, jobs, results, ttsJobs, out>>
  BY DEF Typed, HandleTtsResult, Selecting
<1>1. result \in Things /\ fence \in Things
  BY <1>0, Tailed DEF Sessions
<1>2. session' = [session EXCEPT !.pendingTts = left,
                    !.pendingDrain = IF done THEN Blank ELSE @, !.todo = said \o sealed]
  BY DEF HandleTtsResult
<1>3. Drained(fence) \in Seq(Sendings) /\ Sealed(Drained(fence), fence)
  BY <1>0, <1>1, DrainedIs
<1>4. /\ Do("out", result) \in Sendings /\ Do("out", result).op = "out"
      /\ Do("out", result).item = result
  <2>1. "out" \in Ops
    BY DEF Ops
  <2> HIDE DEF Things, Sendings, result
  <2> QED BY <1>1, <2>1, AsideThings
<1> HIDE DEF Things, Sendings, result, left, fence
<1>5. /\ said \in Seq(Sendings)
      /\ said = <<>> \/ \E a \in Sendings : said = <<a>> /\ a.op = "out" /\ a.item = result
  BY <1>4, Pairs
<1>6. sealed \in Seq(Sendings)
  BY <1>3
<1> HIDE DEF said, sealed
<1>7. /\ session'.pendingTts = left /\ session'.todo = said \o sealed
      /\ session'.pendingDrain = IF done THEN Blank ELSE session.pendingDrain
      /\ session'.loop = session.loop /\ session'.graceful = session.graceful
      /\ session'.jobCount = session.jobCount /\ session'.input = session.input
  BY <1>0, <1>2 DEF Sessions
<1>8. \/ /\ sealed = <<>> /\ session'.pendingDrain = session.pendingDrain
         /\ session.pendingDrain # Blank => session'.pendingTts # 0
      \/ /\ Sealed(sealed, session.pendingDrain) /\ session.pendingDrain # Blank
         /\ session'.pendingTts = 0 /\ session'.pendingDrain = Blank
  <2>1. CASE done
    BY <1>3, <1>7, <2>1 DEF sealed, fence
  <2>2. CASE ~done
    BY <1>7, <2>2 DEF sealed, fence
  <2> QED BY <2>1, <2>2
<1> QED BY <1>0, <1>5, <1>6, <1>7, <1>8 DEF HearsSpeech, result, left

\* The sends of a handler, one by one
Passes(op) ==
    /\ session.loop = "run" /\ session.todo # <<>> /\ Head(session.todo).op = op
    /\ session'.todo = Tail(session.todo) /\ Stays

SendsJob ==
    /\ Passes("job") /\ jobs' = Append(jobs, Head(session.todo).item) /\ worker.pc # "gone"
    /\ UNCHANGED <<generation, worker, batch, tts, results, ttsJobs, ttsResults, out>>

SendsSpeech ==
    /\ Passes("tts") /\ ttsJobs' = Append(ttsJobs, Head(session.todo).item)
    /\ UNCHANGED <<generation, worker, batch, tts, jobs, results, ttsResults, out>>

SendsOut ==
    /\ Passes("out") /\ out' = Append(out, Head(session.todo).item)
    /\ UNCHANGED <<generation, worker, batch, tts, jobs, results, ttsJobs, ttsResults>>

Closes == Passes("close") /\ UNCHANGED Others

\* The worker is gone: the rest of the jobs is skipped.
Skips ==
    /\ session.loop = "run" /\ session.todo # <<>> /\ Head(session.todo).op = "job"
    /\ worker.pc = "gone" /\ session'.todo \in Seq(Sendings) /\ Closing(session'.todo)
    /\ Stays /\ UNCHANGED Others

\* The loop is left.
Exits ==
    /\ session.loop = "run" /\ session'.loop = "exit" /\ session'.todo = <<>> /\ Keeps
    /\ \/ session'.graceful = session.graceful
       \/ session.todo # <<>> /\ Head(session.todo).op = "leave"
    /\ UNCHANGED Others

\* The tasks are joined, or stopped unless the session ends gracefully.
Ends ==
    /\ session.loop # "run" /\ session'.loop # "run" /\ session'.todo = session.todo
    /\ session'.graceful = session.graceful /\ Keeps
    /\ \/ UNCHANGED <<worker, batch, jobs>>
       \/ /\ ~session.graceful /\ worker'.pc = "gone" /\ worker'.todo = <<>>
          /\ batch'.pc = "none" /\ batch'.events = <<>> /\ jobs' = <<>>
    /\ \/ UNCHANGED <<tts, ttsJobs>>
       \/ ~session.graceful /\ tts'.pc = "gone" /\ ttsJobs' = <<>>
    /\ UNCHANGED <<generation, results, ttsResults, out>>

LEMMA ErrorsOnly ==
    /\ <<ErrorOut, Do("close", Blank)>> \in Seq(Sendings)
    /\ Closing(<<ErrorOut, Do("close", Blank)>>)
    /\ <<ErrorOut>> \in Seq(Sendings) /\ Closing(<<ErrorOut>>)
<1> DEFINE b == Do("close", Blank)
<1>1. /\ ErrorOut \in Sendings /\ ErrorOut.op = "out"
      /\ ErrorOut.item.job = 0 /\ ErrorOut.item.kind = "error"
  <2>1. ErrorOut \in Sendings /\ ErrorOut.op = "out"
    BY AsideThings, Zenon
  <2>2. ErrorOut.item.job = 0 /\ ErrorOut.item.kind = "error"
    <3>1. ErrorOut.item = Item("error", 0, NoGeneration, 0, "")
      BY DEF ErrorOut, Do
    <3>2. \A r : /\ Item("error", 0, NoGeneration, 0, r).job = 0
                 /\ Item("error", 0, NoGeneration, 0, r).kind = "error"
      BY DEF Item
    <3> QED BY <3>1, <3>2, Zenon
  <2> QED BY <2>1, <2>2
<1>2. b \in Sendings /\ b.op = "close" /\ b.item.job = 0 /\ b.item.kind \notin {"drained", "recognized"}
  <2>1. "close" \in Ops
    BY DEF Ops
  <2>2. Blank \in Things /\ b \in Sendings /\ b.op = "close" /\ b.item = Blank
    BY <2>1, AsideThings, Zenon
  <2>3. Blank.job = 0 /\ Blank.kind \notin {"drained", "recognized"}
    BY DEF Blank, Item
  <2> QED BY <2>2, <2>3
<1> HIDE DEF b, Sendings
<1>3. /\ <<ErrorOut, b>> \in Seq(Sendings) /\ DOMAIN <<ErrorOut, b>> = {1, 2}
      /\ <<ErrorOut, b>>[1] = ErrorOut /\ <<ErrorOut, b>>[2] = b
      /\ <<ErrorOut>> \in Seq(Sendings) /\ DOMAIN <<ErrorOut>> = {1} /\ <<ErrorOut>>[1] = ErrorOut
  BY <1>1, <1>2, SomeSends
<1>4. Closing(<<ErrorOut, b>>) /\ Closing(<<ErrorOut>>)
  BY <1>1, <1>2, <1>3 DEF Closing
<1> QED BY <1>3, <1>4 DEF b

LEMMA SendsIs ==
    ASSUME Typed, Sends
    PROVE  SendsJob \/ SendsSpeech \/ SendsOut \/ Closes \/ Skips \/ Exits
<1>0. session \in Sessions
  BY DEF Typed
<1> DEFINE T(t) == session' = [session EXCEPT !.todo = t]
<1>1. \A t : T(t) => session'.todo = t /\ Stays
  BY <1>0 DEF Sessions, Stays, Keeps
<1>2. ASSUME NEW op, Sending(op), Continue
      PROVE  Passes(op)
  BY <1>1, <1>2 DEF Sending, Continue, Passes
<1>3. CASE SendJob
  BY <1>2, <1>3 DEF SendJob, SendsJob, Sent
<1>4. CASE SendTtsJob
  BY <1>2, <1>4 DEF SendTtsJob, SendsSpeech, Sent
<1>5. CASE SendOutput
  BY <1>2, <1>5 DEF SendOutput, SendsOut, Sent
<1>6. CASE CloseJobs
  <2>1. session'.todo = Tail(session.todo) /\ Stays
    BY <1>0, <1>6 DEF CloseJobs, Sessions, Stays, Keeps
  <2> QED BY <1>6, <2>1 DEF CloseJobs, Sending, NoChannel, Closes, Passes, Others
<1>7. CASE Leave \/ SendOutputFails
  <2>1. session'.todo = <<>> /\ session'.loop = "exit" /\ Keeps
    BY <1>0, <1>7 DEF Leave, SendOutputFails, Sessions, Keeps
  <2>2. session'.graceful = session.graceful \/ Leave
    BY <1>0, <1>7 DEF SendOutputFails, Sessions
  <2> QED BY <1>7, <2>1, <2>2 DEF Leave, SendOutputFails, Sending, NoChannel, Exits, Others
<1>8. CASE SendJobFails
  <2>1. /\ session.loop = "run" /\ session.todo # <<>> /\ Head(session.todo).op = "job"
        /\ worker.pc = "gone" /\ UNCHANGED Others
    BY <1>8 DEF SendJobFails, Sending, NoChannel, Others
  <2>2. CASE Sent.kind = "text"
    <3>1. session' = [session EXCEPT !.loop = "exit", !.todo = <<>>]
      BY <1>8, <2>2 DEF SendJobFails
    <3>2. session'.todo = <<>> /\ session'.loop = "exit" /\ session'.graceful = session.graceful /\ Keeps
      BY <1>0, <3>1 DEF Sessions, Keeps
    <3> QED BY <2>1, <3>2 DEF Exits
  <2>3. CASE Sent.kind # "text"
    <3>1. T(<<ErrorOut, Do("close", Blank)>>) \/ T(<<ErrorOut>>)
      BY <1>8, <2>3, Zenon DEF SendJobFails
    <3> HIDE DEF T
    <3> QED BY <1>1, <2>1, <3>1, ErrorsOnly DEF Skips
  <2> QED BY <2>2, <2>3
<1> QED BY <1>3, <1>4, <1>5, <1>6, <1>7, <1>8 DEF Sends

LEMMA EndsIs ==
    ASSUME Typed, Teardown \/ ResultsClosed \/ Disconnect
    PROVE  Ends \/ Exits
<1>0. session \in Sessions /\ worker \in [pc : WorkerStates, job : Things, todo : Seq(Things), corpus : BOOLEAN]
  BY DEF Typed
<1>1. ASSUME NEW from, NEW to \in LoopStates, At(from, to)
      PROVE  /\ session.loop = from /\ session'.loop = to /\ session'.todo = session.todo
             /\ session'.graceful = session.graceful /\ Keeps
  BY <1>0, <1>1 DEF At, Sessions, Keeps
<1>2. CASE StopWorker
  <2>1. /\ session.loop = "exit" /\ session'.loop = "joinWorker" /\ session'.todo = session.todo
        /\ session'.graceful = session.graceful /\ Keeps
    BY <1>1, <1>2 DEF StopWorker, LoopStates
  <2>2. \/ UNCHANGED <<worker, batch, jobs>>
        \/ /\ ~session.graceful /\ worker'.pc = "gone" /\ worker'.todo = <<>>
           /\ batch'.pc = "none" /\ batch'.events = <<>> /\ jobs' = <<>>
    <3>1. CASE session.graceful
      BY <1>2, <3>1 DEF StopWorker
    <3>2. CASE ~session.graceful
      <4>1. worker' = [worker EXCEPT !.pc = "gone", !.todo = <<>>, !.job = Blank]
            /\ batch' = [pc |-> "none", job |-> Blank, events |-> <<>>] /\ jobs' = <<>>
        BY <1>2, <3>2 DEF StopWorker
      <4>2. worker'.pc = "gone" /\ worker'.todo = <<>>
        BY <1>0, <4>1
      <4> QED BY <3>2, <4>1, <4>2
    <3> QED BY <3>1, <3>2
  <2> QED BY <1>2, <2>1, <2>2 DEF StopWorker, Ends
<1>3. CASE JoinWorker
  <2>1. /\ session.loop = "joinWorker" /\ session'.loop = "joinTts" /\ session'.todo = session.todo
        /\ session'.graceful = session.graceful /\ Keeps
    BY <1>1, <1>3 DEF JoinWorker, LoopStates
  <2> QED BY <1>3, <2>1 DEF JoinWorker, Ends
<1>4. CASE JoinTts \/ JoinWriter
  <2>1. /\ session.loop # "run" /\ session'.loop # "run" /\ session'.todo = session.todo
        /\ session'.graceful = session.graceful /\ Keeps
    BY <1>1, <1>4 DEF JoinTts, JoinWriter, LoopStates
  <2> QED BY <1>4, <2>1 DEF JoinTts, JoinWriter, NoChannel, Ends
<1>5. CASE ResultsClosed \/ Disconnect
  <2>1. session'.loop = "exit" /\ session'.todo = session.todo
        /\ session'.graceful = session.graceful /\ Keeps
    BY <1>0, <1>5 DEF ResultsClosed, Disconnect, Sessions, Keeps
  <2> QED BY <1>5, <2>1 DEF ResultsClosed, Disconnect, Frame, Selecting, NoChannel, Exits, Others
<1> QED BY <1>2, <1>3, <1>4, <1>5 DEF Teardown

\* The steps of the TTS worker
TtsMoves ==
    /\ UNCHANGED <<generation, session, worker, batch, jobs, results, out>>
    /\ \/ /\ tts.pc = "recv" /\ tts'.pc = "busy" /\ ttsJobs # <<>>
          /\ tts'.item = Head(ttsJobs) /\ ttsJobs' = Tail(ttsJobs) /\ UNCHANGED ttsResults
       \/ /\ tts.pc = "busy" /\ tts'.pc = "send"
          /\ tts'.item.job = tts.item.job /\ tts'.item.kind # "drained"
          /\ UNCHANGED <<ttsJobs, ttsResults>>
       \/ /\ tts.pc = "send" /\ tts'.pc = "recv"
          /\ ttsResults' = Append(ttsResults, tts.item) /\ UNCHANGED ttsJobs
       \/ /\ tts.pc = "recv" /\ tts'.pc = "gone" /\ session.loop # "run"
          /\ UNCHANGED <<ttsJobs, ttsResults>>

LEMMA TtsIs ==
    ASSUME Typed, TtsNext
    PROVE  TtsMoves
<1>0. tts.item \in Things
  BY DEF Typed
<1>1. CASE TtsSynthesize
  <2>1. PICK kind \in {"audio", "ttsError"} :
           tts' = [pc |-> "send", item |-> [tts.item EXCEPT !.kind = kind]]
    BY <1>1 DEF TtsSynthesize
  <2>2. tts'.pc = "send" /\ tts'.item.job = tts.item.job /\ tts'.item.kind = kind
    <3> HIDE DEF Kinds, Whys
    <3> QED BY <1>0, <2>1 DEF Things
  <2> QED BY <1>1, <2>2 DEF TtsSynthesize, TtsMoves
<1>2. CASE TtsReceive \/ TtsSend \/ TtsClosed
  BY <1>2 DEF TtsReceive, TtsSend, TtsClosed, TtsMoves
<1> QED BY <1>1, <1>2 DEF TtsNext

\* The translation task makes the next segment, or is done.
Translates ==
    /\ UNCHANGED <<generation, session, worker, tts, jobs, results, ttsJobs, ttsResults, out>>
    /\ batch.pc = "running" /\ batch'.job = batch.job
    /\ \/ /\ batch'.pc = "running"
          /\ \E e \in Things :
                /\ batch'.events = Append(batch.events, e)
                /\ e.job = batch.job.job /\ e.gen = batch.job.gen
                /\ e.kind \in {"translation", "failed"} /\ e.seg = Len(batch.events) + 1
       \/ /\ batch'.pc = "done"
          /\ generation = batch.job.gen => Len(batch.events) >= batch.job.seg
          /\ \/ batch'.events = batch.events
             \/ \E e \in Things :
                   /\ batch'.events = Append(batch.events, e)
                   /\ e.job = batch.job.job /\ e.kind = "streamEnded"

LEMMA BatchIs ==
    ASSUME Typed, BatchNext
    PROVE  Translates
<1>1. /\ batch \in [pc : BatchStates, job : Things, events : Seq(Things)]
      /\ batch.job \in Things /\ batch.job.seg \in Nat
      /\ batch.events \in Seq(Things) /\ Len(batch.events) \in Nat
  <2>1. batch \in [pc : BatchStates, job : Things, events : Seq(Things)]
    BY DEF Typed
  <2>2. batch.job \in Things /\ batch.job.seg \in Nat
    BY <2>1 DEF Things
  <2>3. Len(batch.events) \in Nat
    BY <2>1, LenProperties
  <2> QED BY <2>1, <2>2, <2>3
<1>2. /\ UNCHANGED <<generation, session, worker, tts, jobs, results, ttsJobs, ttsResults, out>>
      /\ batch.pc = "running"
  BY DEF BatchNext, NoChannelButJobs
<1>3. ASSUME NEW kind \in {"translation", "failed"},
             batch' = [batch EXCEPT
                !.events = Append(@, Event(kind, batch.job, Len(batch.events) + 1))]
      PROVE  Translates
  <2> DEFINE e == Event(kind, batch.job, Len(batch.events) + 1)
  <2>1. /\ e \in Things /\ e.job = batch.job.job /\ e.gen = batch.job.gen /\ e.kind = kind
        /\ e.seg = Len(batch.events) + 1
    <3>1. kind \in EventKinds /\ Len(batch.events) + 1 \in Nat
      BY <1>1, <1>3 DEF EventKinds
    <3> QED BY <1>1, <3>1, EventIs DEF Event, Item
  <2> HIDE DEF e, Things
  <2>2. batch'.pc = batch.pc /\ batch'.job = batch.job /\ batch'.events = Append(batch.events, e)
    BY <1>1, <1>3 DEF e
  <2> QED BY <1>2, <1>3, <2>1, <2>2 DEF Translates
<1>4. ASSUME ~(Len(batch.events) < batch.job.seg) \/ ~Current(batch.job),
             batch' = [batch EXCEPT !.pc = "done", !.events = @ \o StreamEnd(batch.job)]
      PROVE  Translates
  <2>1. generation = batch.job.gen => Len(batch.events) >= batch.job.seg
    BY <1>1, <1>4 DEF Current
  <2>2. batch'.pc = "done" /\ batch'.job = batch.job
        /\ batch'.events = batch.events \o StreamEnd(batch.job)
    <3> HIDE DEF Things
    <3> QED BY <1>1, <1>4
  <2>3. CASE batch.job.kind = "text"
    <3> DEFINE e == Event("streamEnded", batch.job, 0)
    <3>1. e \in Things /\ e.job = batch.job.job /\ e.kind = "streamEnded"
      <4>1. "streamEnded" \in EventKinds
        BY DEF EventKinds
      <4> QED BY <1>1, <4>1, EventIs DEF Event, Item
    <3>2. StreamEnd(batch.job) = <<e>>
      BY <2>3 DEF StreamEnd
    <3> HIDE DEF e, Things
    <3>3. batch.events \o <<e>> = Append(batch.events, e)
      BY <1>1, <3>1
    <3> QED BY <1>2, <2>1, <2>2, <3>1, <3>2, <3>3 DEF Translates
  <2>4. CASE batch.job.kind # "text"
    <3>1. StreamEnd(batch.job) = <<>>
      BY <2>4 DEF StreamEnd
    <3> HIDE DEF Things
    <3>2. batch.events \o <<>> = batch.events
      BY <1>1, ConcatEmptySeq
    <3> QED BY <1>2, <2>1, <2>2, <3>1, <3>2 DEF Translates
  <2> QED BY <2>3, <2>4
<1>5. \/ \E kind \in {"translation", "failed"} :
            batch' = [batch EXCEPT
                !.events = Append(@, Event(kind, batch.job, Len(batch.events) + 1))]
      \/ /\ ~(Len(batch.events) < batch.job.seg) \/ ~Current(batch.job)
         /\ batch' = [batch EXCEPT !.pc = "done", !.events = @ \o StreamEnd(batch.job)]
  BY Zenon DEF BatchNext
<1> QED BY <1>3, <1>4, <1>5

\* A step is one of these.
Shown == <<generation, session, worker, batch, tts, jobs, results, ttsJobs, ttsResults, out>>
TakesFrame == \E request : Frameable(request) /\ FrameEffect(request)

Worked ==
    /\ UNCHANGED <<generation, session, tts, ttsJobs, ttsResults, out>>
    /\ \/ WorkerSends \/ WorkerHears \/ WorkerTakes \/ WorkerEnds \/ WorkerBegins
       \/ WorkerReports \/ WorkerSpawns

Step ==
    \/ Worked \/ Translates \/ TtsMoves
    \/ HearsFence \/ HearsEvent \/ HearsSpeech \/ TakesFrame
    \/ SendsJob \/ SendsSpeech \/ SendsOut \/ Closes \/ Skips
    \/ Exits \/ Ends \/ UNCHANGED Shown

LEMMA StepIs ==
    ASSUME Typed, [Next]_vars
    PROVE  Step
<1>1. CASE WorkerStep
  BY <1>1, WorkerIs DEF Step, Worked
<1>2. CASE BatchNext
  BY <1>2, BatchIs DEF Step
<1>3. CASE TtsNext
  BY <1>3, TtsIs DEF Step
<1>4. CASE WriterNext \/ UNCHANGED vars
  BY <1>4 DEF WriterNext, WriterTake, WriterWrite, WriterFail, WriterClosed, vars, Step, Shown
<1>5. CASE HandleResult
  BY <1>5, ResultIs DEF Step
<1>6. CASE HandleTtsResult
  BY <1>6, SpeechIs DEF Step
<1>7. CASE Sends
  BY <1>7, SendsIs DEF Step
<1>8. CASE Teardown \/ ResultsClosed \/ Disconnect
  BY <1>8, EndsIs DEF Step
<1>9. CASE Reconfigure \/ Invalid \/ Pause \/ Resume \/ Finish
              \/ ToggleTts \/ TranslateText \/ Audio
  BY <1>9, FrameIs DEF Step, TakesFrame
<1> QED BY <1>1, <1>2, <1>3, <1>4, <1>5, <1>6, <1>7, <1>8, <1>9
        DEF Next, SessionNext, SessionStep, Frames

LEMMA ClearIs ==
    ASSUME NEW s \in Seq(Things), NEW n
    PROVE  /\ \A e \in Things : Clear(s, n) /\ Free(e.job, n) => Clear(Append(s, e), n)
           /\ s # <<>> /\ Clear(s, n) => Free(Head(s).job, n) /\ Clear(Tail(s), n)
           /\ Clear(<<>>, n)
           /\ \A e \in Things : Free(e.job, n) => Clear(<<e>>, n)
<1> HIDE DEF Things
<1> QED BY ElemsOf, ElemsFew DEF Clear

LEMMA RearIs ==
    ASSUME NEW s \in Seq(Things)
    PROVE  /\ \A e \in Things :
                 Rear(s) /\ (\A x \in Elems(s) : Fence(x) => Free(e.job, x.job)) => Rear(Append(s, e))
           /\ s # <<>> /\ Rear(s) =>
                 Rear(Tail(s)) /\ (Fence(Head(s)) => Clear(Tail(s), Head(s).job))
           /\ Rear(<<>>) /\ \A e \in Things : Rear(<<e>>)
<1>1. ASSUME NEW e \in Things, Rear(s), \A x \in Elems(s) : Fence(x) => Free(e.job, x.job)
      PROVE  Rear(Append(s, e))
  <2> HIDE DEF Things
  <2>1. \A i \in DOMAIN s : s[i] \in Elems(s)
    BY DEF Elems
  <2>2. /\ DOMAIN s = 1..Len(s) /\ Len(s) \in Nat
        /\ DOMAIN Append(s, e) = 1..(Len(s) + 1)
        /\ \A i \in 1..Len(s) : Append(s, e)[i] = s[i]
        /\ Append(s, e)[Len(s) + 1] = e
        /\ \A i \in DOMAIN Append(s, e) : i \in DOMAIN s \/ i = Len(s) + 1
    BY Appended
  <2>3. ASSUME NEW i \in DOMAIN Append(s, e), NEW j \in DOMAIN Append(s, e), i < j,
               Fence(Append(s, e)[i])
        PROVE  Free(Append(s, e)[j].job, Append(s, e)[i].job)
    <3>1. i \in DOMAIN s
      BY <2>2, <2>3
    <3> QED BY <1>1, <2>1, <2>2, <2>3, <3>1 DEF Rear
  <2> QED BY <2>3 DEF Rear
<1>2. ASSUME s # <<>>, Rear(s)
      PROVE  Rear(Tail(s)) /\ (Fence(Head(s)) => Clear(Tail(s), Head(s).job))
  <2> HIDE DEF Things
  <2>1. /\ Head(s) = s[1] /\ 1 \in DOMAIN s
        /\ \A i \in DOMAIN Tail(s) : i \in Nat /\ i > 0 /\ i + 1 \in DOMAIN s /\ Tail(s)[i] = s[i + 1]
    BY <1>2, Tailed
  <2>2. \A i \in DOMAIN Tail(s) : 1 < i + 1
    BY <2>1
  <2>3. \A i, j \in DOMAIN Tail(s) : i < j => i + 1 < j + 1
    BY <2>1
  <2> QED BY <1>2, <2>1, <2>2, <2>3 DEF Rear, Clear, Elems
<1>3. Rear(<<>>)
  BY EmptyIsSilent DEF Rear
<1>4. ASSUME NEW e \in Things
      PROVE  Rear(<<e>>)
  <2>1. DOMAIN <<e>> = {1}
    OBVIOUS
  <2> QED BY <2>1 DEF Rear
<1> QED BY <1>1, <1>2, <1>3, <1>4

LEMMA TodoIs ==
    ASSUME NEW t \in Seq(Sendings)
    PROVE  /\ t # <<>> => /\ Head(t) \in Elems(t) /\ Tail(t) \in Seq(Sendings) /\ Head(t) \in Sendings
                          /\ Elems(t) = {Head(t)} \cup Elems(Tail(t))
           /\ t # <<>> /\ TodoRear(t) =>
                 /\ TodoRear(Tail(t))
                 /\ FenceSent(Head(t)) => \A x \in Elems(Tail(t)) : Free(x.item.job, Head(t).item.job)
           /\ (\A x \in Elems(t) : ~FenceSent(x)) => TodoRear(t)
           /\ TodoRear(<<>>)
<1> HIDE DEF Sendings
<1>1. t # <<>> => /\ Head(t) \in Elems(t) /\ Tail(t) \in Seq(Sendings) /\ Head(t) \in Sendings
                  /\ Elems(t) = {Head(t)} \cup Elems(Tail(t))
  BY ElemsOf
<1>2. ASSUME t # <<>>, TodoRear(t)
      PROVE  /\ TodoRear(Tail(t))
             /\ FenceSent(Head(t)) => \A x \in Elems(Tail(t)) : Free(x.item.job, Head(t).item.job)
  <2>1. /\ Head(t) = t[1] /\ 1 \in DOMAIN t
        /\ \A i \in DOMAIN Tail(t) : i \in Nat /\ i > 0 /\ i + 1 \in DOMAIN t /\ Tail(t)[i] = t[i + 1]
    BY <1>2, TodoTail
  <2>2. \A i \in DOMAIN Tail(t) : 1 < i + 1
    BY <2>1
  <2>3. \A i, j \in DOMAIN Tail(t) : i < j => i + 1 < j + 1
    BY <2>1
  <2> QED BY <1>2, <2>1, <2>2, <2>3 DEF TodoRear, Elems
<1>3. (\A x \in Elems(t) : ~FenceSent(x)) => TodoRear(t)
  BY DEF Elems, TodoRear
<1>4. TodoRear(<<>>)
  BY EmptyIsSilent DEF TodoRear
<1> QED BY <1>1, <1>2, <1>3, <1>4

\* What the loop is left to send, element by element
Leaves(x, fence) == x.op = "leave" /\ x.item.job = 0 /\ fence.reason # "paused"

LEMMA FenceElems ==
    ASSUME Typed, Typed', HearsFence
    PROVE  /\ TodoRear(session'.todo)
           /\ Head(results) \in Things
           /\ \A x \in Elems(session'.todo) :
                 /\ session.pendingTts = 0
                 /\ FenceOf(x, Head(results)) \/ Leaves(x, Head(results))
<1>1. /\ session'.todo \in Seq(Sendings) /\ generation \in Nat /\ results # <<>>
      /\ results \in Seq(Things)
  BY DEF Typed, Sessions, HearsFence
<1>2. Head(results) \in Things
  BY <1>1, Tailed
<1>3. CASE session.pendingTts = 0 /\ Sealed(session'.todo, Head(results))
  BY <1>1, <1>2, <1>3, SealedIs DEF Leaves
<1>4. CASE session'.todo = <<>>
  BY <1>2, <1>4, ElemsFew, TodoIs, <1>1
<1> QED BY <1>3, <1>4 DEF HearsFence

LEMMA EventElems ==
    ASSUME Typed, Typed', HearsEvent
    PROVE  /\ TodoRear(session'.todo)
           /\ Head(results) \in Things
           /\ \A x \in Elems(session'.todo) :
                 /\ Head(results).gen = generation
                 /\ x.op \in {"out", "tts"} /\ x.item.job = Head(results).job
                 /\ x.op = "out" => Message(x, Head(results)) /\ ~Fence(x.item)
<1>1. /\ session'.todo \in Seq(Sendings) /\ generation \in Nat /\ results # <<>>
      /\ results \in Seq(Things) /\ Head(results).kind # "drained"
  BY DEF Typed, Sessions, HearsEvent
<1>2. Head(results) \in Things
  BY <1>1, Tailed
<1>3. PICK spoken \in BOOLEAN : Answers(session'.todo, Head(results), spoken)
  BY DEF HearsEvent
<1> HIDE DEF Things, Sendings
<1>4. \A x \in Elems(session'.todo) :
         /\ Head(results).gen = generation
         /\ x.op \in {"out", "tts"} /\ x.item.job = Head(results).job
         /\ x.op = "out" => Message(x, Head(results)) /\ ~Fence(x.item)
  <2>1. CASE session'.todo = <<>>
    BY <2>1, ElemsFew
  <2>2. ASSUME NEW a \in Sendings, session'.todo = <<a>>, Message(a, Head(results)),
               Head(results).gen = generation
        PROVE  <1>4!:
    BY <1>1, <2>2, ElemsFew DEF Message, WrittenAs, Fence
  <2>3. ASSUME NEW a \in Sendings, NEW b \in Sendings, session'.todo = <<a, b>>,
               Message(a, Head(results)), b.op = "tts", b.item.job = Head(results).job,
               Head(results).gen = generation
        PROVE  <1>4!:
    BY <1>1, <2>3, ElemsFew DEF Message, WrittenAs, Fence
  <2> QED BY <1>3, <2>1, <2>2, <2>3 DEF Answers
<1>5. \A x \in Elems(session'.todo) : ~FenceSent(x)
  BY <1>4 DEF FenceSent
<1> QED BY <1>1, <1>2, <1>4, <1>5, TodoIs

LEMMA SpeechElems ==
    ASSUME Typed, Typed', HearsSpeech
    PROVE  /\ Head(ttsResults) \in Things
           /\ ~Fence(Head(ttsResults)) => TodoRear(session'.todo)
           /\ \A x \in Elems(session'.todo) :
                 \/ x.op = "out" /\ x.item = Head(ttsResults)
                 \/ /\ FenceOf(x, session.pendingDrain) \/ Leaves(x, session.pendingDrain)
                    /\ session.pendingDrain # Blank
                    /\ session'.pendingTts = 0 /\ session'.pendingDrain = Blank
           /\ session'.pendingDrain = session.pendingDrain \/ session'.pendingDrain = Blank
<1>1. /\ session'.todo \in Seq(Sendings) /\ generation \in Nat /\ ttsResults # <<>>
      /\ ttsResults \in Seq(Things) /\ session.pendingDrain \in Things
  BY DEF Typed, Sessions, HearsSpeech
<1>2. Head(ttsResults) \in Things
  BY <1>1, Tailed
<1>3. PICK said, sealed \in Seq(Sendings) :
          /\ session'.todo = said \o sealed
          /\ said = <<>> \/ \E a \in Sendings :
                said = <<a>> /\ a.op = "out" /\ a.item = Head(ttsResults)
          /\ \/ sealed = <<>> /\ session'.pendingDrain = session.pendingDrain
             \/ /\ Sealed(sealed, session.pendingDrain) /\ session.pendingDrain # Blank
                /\ session'.pendingTts = 0 /\ session'.pendingDrain = Blank
  BY DEF HearsSpeech
<1> DEFINE fence == session.pendingDrain
<1> HIDE DEF Things, Sendings, fence
<1>4. Elems(session'.todo) = Elems(said) \cup Elems(sealed)
  BY <1>3, ElemsJoined
<1>5. \A x \in Elems(said) : x.op = "out" /\ x.item = Head(ttsResults)
  BY <1>3, ElemsFew
<1>6. /\ TodoRear(sealed)
      /\ \A x \in Elems(sealed) :
            /\ FenceOf(x, fence) \/ Leaves(x, fence)
            /\ fence # Blank /\ session'.pendingTts = 0 /\ session'.pendingDrain = Blank
  <2>1. CASE sealed = <<>>
    BY <2>1, ElemsFew, TodoIs
  <2>2. CASE sealed # <<>>
    <3>1. /\ Sealed(sealed, fence) /\ fence # Blank
          /\ session'.pendingTts = 0 /\ session'.pendingDrain = Blank
      BY <1>3, <2>2 DEF fence
    <3>2. /\ TodoRear(sealed)
          /\ \E a \in Elems(sealed) :
                 /\ FenceOf(a, fence)
                 /\ \A x \in Elems(sealed) :
                      x = a \/ (x.op = "leave" /\ x.item.job = 0 /\ fence.reason # "paused")
      BY <1>1, <3>1, SealedIs DEF fence
    <3> QED BY <3>1, <3>2 DEF Leaves
  <2> QED BY <2>1, <2>2
<1>7. ASSUME ~Fence(Head(ttsResults))
      PROVE  TodoRear(session'.todo)
  <2>0. /\ Len(said) \in Nat /\ DOMAIN said = 1..Len(said)
        /\ \A i \in DOMAIN (said \o sealed) :
              \/ i \in DOMAIN said /\ (said \o sealed)[i] = said[i]
              \/ i > Len(said) /\ i - Len(said) \in DOMAIN sealed
                 /\ (said \o sealed)[i] = sealed[i - Len(said)]
    BY Joined
  <2>1. \A i \in DOMAIN said : ~FenceSent(said[i])
    BY <1>5, <1>7 DEF Elems, FenceSent
  <2>2. DOMAIN (said \o sealed) \subseteq Nat
    <3>1. said \o sealed \in Seq(Sendings)
      BY ElemsJoined
    <3> QED BY <3>1, LenProperties
  <2> DEFINE t == said \o sealed
  <2> HIDE DEF t
  <2>3. ASSUME NEW i \in DOMAIN t, NEW j \in DOMAIN t, i < j, FenceSent(t[i])
        PROVE  Free(t[j].item.job, t[i].item.job)
    <3>1. i > Len(said) /\ i - Len(said) \in DOMAIN sealed /\ t[i] = sealed[i - Len(said)]
      BY <2>0, <2>1, <2>3 DEF t
    <3>2. ~(j \in DOMAIN said)
      BY <2>0, <2>2, <2>3, <3>1 DEF t
    <3>3. j - Len(said) \in DOMAIN sealed /\ t[j] = sealed[j - Len(said)]
      BY <2>0, <2>3, <3>2 DEF t
    <3>4. i - Len(said) < j - Len(said)
      BY <2>0, <2>2, <2>3 DEF t
    <3> QED BY <1>6, <2>3, <3>1, <3>3, <3>4 DEF TodoRear
  <2> QED BY <1>3, <2>3 DEF TodoRear, t
<1>8. session'.pendingDrain = session.pendingDrain \/ session'.pendingDrain = Blank
  BY <1>3
<1> QED BY <1>2, <1>4, <1>5, <1>6, <1>7, <1>8 DEF fence

LEMMA FrameElems ==
    ASSUME Typed, Typed', NEW request, Frameable(request), FrameEffect(request)
    PROVE  \A x \in Elems(session'.todo) :
              \/ /\ x.op = "job" /\ x.item.job > session.jobCount
                 /\ x.item.job <= session'.jobCount /\ x.item.gen = generation
                 /\ x.item.kind = "drain" =>
                       /\ x.item.reason = request.reason
                       /\ x.item.job = session'.jobCount
                       /\ request.reason = "paused" \/ session'.input = "draining"
              \/ /\ x.op \in {"out", "close"} /\ x.item.job = 0
                 /\ x.item.kind \notin {"drained", "recognized"}
<1>1. session.jobCount \in Nat /\ generation \in Nat
  BY DEF Typed, Sessions
<1> DEFINE q == Queue(request.kinds, request.reason)
<1>2. /\ q \in Seq(Sendings) /\ Len(q) = Len(request.kinds)
      /\ \A i \in DOMAIN q :
            /\ i \in 1..Len(request.kinds) /\ q[i].op = "job"
            /\ q[i].item.job = session.jobCount + i /\ q[i].item.kind = request.kinds[i]
            /\ q[i].item.gen = generation
            /\ request.kinds[i] = "drain" => q[i].item.reason = request.reason
  <2> HIDE DEF Kinds, Whys
  <2> QED BY <1>1, QueueIs DEF Frameable
<1>3. session'.todo = q \o request.then /\ request.then \in Seq(Sendings)
      /\ session'.jobCount = session.jobCount + Len(request.kinds)
  BY DEF Frameable, FrameEffect
<1> HIDE DEF q, Sendings, Things
<1>4. Elems(session'.todo) = Elems(q) \cup Elems(request.then)
  BY <1>2, <1>3, ElemsJoined
<1>5. ASSUME NEW i \in DOMAIN q
      PROVE  /\ q[i].op = "job" /\ q[i].item.job > session.jobCount
             /\ q[i].item.job <= session'.jobCount /\ q[i].item.gen = generation
             /\ q[i].item.kind = "drain" =>
                   /\ q[i].item.reason = request.reason
                   /\ q[i].item.job = session'.jobCount
                   /\ request.reason = "paused" \/ session'.input = "draining"
  <2>1. Len(request.kinds) \in Nat
    BY DEF Frameable
  <2>2. session.jobCount + i > session.jobCount /\ session.jobCount + i <= session'.jobCount
    BY <1>1, <1>2, <1>3, <2>1
  <2>3. request.kinds[i] = "drain" =>
           i = Len(request.kinds) /\ (request.reason = "paused" \/ session'.input = "draining")
    BY <1>2 DEF Frameable, FrameEffect
  <2> QED BY <1>2, <1>3, <2>2, <2>3
<1>6. \A x \in Elems(request.then) :
         /\ x.op \in {"out", "close"} /\ x.item.job = 0
         /\ x.item.kind \notin {"drained", "recognized"}
  BY DEF Elems, Frameable, Closing
<1> QED BY <1>4, <1>5, <1>6 DEF Elems

Busy == worker.pc \in {"asr", "commit", "emit", "spawn"}

\* No job before n is on its way to the worker, or in hand.
Up(n) ==
    /\ n <= session.jobCount
    /\ Clear(jobs, n)
    /\ \A x \in Elems(session.todo) : x.op = "job" => Free(x.item.job, n)
    /\ Busy => Free(worker.job.job, n)
    /\ batch.pc = "running" => Free(batch.job.job, n)
    /\ Clear(batch.events, n)

\* Nothing of one is on its way to the session either,
Flow(n) == Up(n) /\ Clear(worker.todo, n) /\ Clear(results, n)

\* no speech of one is made,
Said(n) ==
    /\ Clear(ttsJobs, n) /\ Clear(ttsResults, n)
    /\ tts.pc \in {"busy", "send"} => Free(tts.item.job, n)
    /\ Free(session.pendingDrain.job, n)

\* and the session has nothing of one to send.
Idle(n) == \A x \in Elems(session.todo) : x.op # "job" => Free(x.item.job, n)

\* Every sequence and every item of a state, typed
Sorts ==
    /\ session.todo \in Seq(Sendings) /\ session.jobCount \in Nat /\ session.pendingTts \in Nat
    /\ session.pendingDrain \in Things
    /\ worker.job \in Things /\ worker.todo \in Seq(Things)
    /\ batch.job \in Things /\ batch.events \in Seq(Things)
    /\ tts.item \in Things /\ tts.pc \in TtsStates
    /\ jobs \in Seq(Things) /\ results \in Seq(Things) /\ out \in Seq(Things)
    /\ ttsJobs \in Seq(Things) /\ ttsResults \in Seq(Things) /\ generation \in Nat

LEMMA SortsOf == (Typed => Sorts) /\ (Typed' => Sorts')
<1> HIDE DEF Things, Sendings
<1>1. Typed => Sorts
  BY DEF Typed, Sessions, Sorts
<1>2. Typed' => Sorts'
  BY DEF Typed, Sessions, Sorts
<1> QED BY <1>1, <1>2

LEMMA ClearFew ==
    ASSUME NEW n
    PROVE  Clear(<<>>, n) /\ \A e : Free(e.job, n) => Clear(<<e>>, n)
BY ElemsFew DEF Clear

Passing == Passes("job") \/ Passes("tts") \/ Passes("out") \/ Passes("close")

LEMMA PassIs ==
    ASSUME Sorts, Passing
    PROVE  /\ Head(session.todo) \in Elems(session.todo) /\ Head(session.todo) \in Sendings
           /\ session.todo # <<>>
           /\ Head(session.todo).item \in Things
           /\ \A x \in Elems(session'.todo) : x \in Elems(session.todo)
           /\ TodoRear(session.todo) => TodoRear(session'.todo)
           /\ session'.todo = Tail(session.todo) /\ Stays
<1>1. session.todo # <<>> /\ session'.todo = Tail(session.todo) /\ Stays
  BY DEF Passing, Passes
<1>2. session.todo \in Seq(Sendings)
  BY DEF Sorts
<1>3. \A x \in Sendings : x.item \in Things
  BY DEF Sendings
<1> HIDE DEF Sendings, Things
<1> QED BY <1>1, <1>2, <1>3, TodoIs

LEMMA JobsOfTodo ==
    ASSUME Typed, Typed', Step
    PROVE  /\ session.jobCount <= session'.jobCount
           /\ \A x \in Elems(session'.todo) :
                 x.op = "job" => x \in Elems(session.todo) \/ x.item.job > session.jobCount
<1>0. session.jobCount \in Nat /\ Sorts
  BY SortsOf DEF Typed, Sessions
<1>1. CASE Worked \/ Translates \/ TtsMoves \/ UNCHANGED Shown
  BY <1>0, <1>1 DEF Worked, Translates, TtsMoves, Shown
<1>2. CASE HearsFence
  BY <1>0, <1>2, FenceElems DEF HearsFence, FenceOf, Leaves
<1>3. CASE HearsEvent
  BY <1>0, <1>3, EventElems DEF HearsEvent
<1>4. CASE HearsSpeech
  <2>1. session'.jobCount = session.jobCount
    BY <1>4 DEF HearsSpeech
  <2>2. \A x \in Elems(session'.todo) : x.op # "job"
    BY <1>4, SpeechElems DEF FenceOf, Leaves
  <2> QED BY <1>0, <2>1, <2>2
<1>5. CASE TakesFrame
  <2>1. PICK request : Frameable(request) /\ FrameEffect(request)
    BY <1>5 DEF TakesFrame
  <2>2. session.jobCount <= session'.jobCount
    BY <1>0, <2>1 DEF FrameEffect, Frameable
  <2> QED BY <2>1, <2>2, FrameElems
<1>6. CASE SendsJob \/ SendsSpeech \/ SendsOut \/ Closes
  BY <1>0, <1>6, PassIs DEF SendsJob, SendsSpeech, SendsOut, Closes, Passing, Stays, Keeps
<1>7. CASE Skips
  BY <1>0, <1>7 DEF Skips, Stays, Keeps, Closing, Elems
<1>8. CASE Exits
  BY <1>0, <1>8, ElemsFew DEF Exits, Keeps
<1>9. CASE Ends
  BY <1>0, <1>9 DEF Ends, Keeps
<1> QED BY <1>1, <1>2, <1>3, <1>4, <1>5, <1>6, <1>7, <1>8, <1>9 DEF Step

LEMMA WorkerUp ==
    ASSUME Typed, Typed', Worked, NEW n \in Nat, Up(n)
    PROVE  /\ Clear(jobs', n)
           /\ Busy' => Free(worker'.job.job, n)
           /\ batch'.pc = "running" => Free(batch'.job.job, n)
           /\ Clear(batch'.events, n)
           /\ Clear(worker.todo, n) => Clear(worker'.todo, n)
<1>0. Sorts
  BY SortsOf
<1>1. CASE WorkerSends
  BY <1>0, <1>1, ClearIs DEF WorkerSends, Up, Busy, Sorts
<1>2. CASE WorkerHears
  BY <1>0, <1>2, ClearIs DEF WorkerHears, Up, Busy, Sorts
<1>3. CASE WorkerTakes
  BY <1>0, <1>3, ClearIs DEF WorkerTakes, Up, Busy, Sorts, NoBatch
<1>4. CASE WorkerEnds
  BY <1>0, <1>4, ClearIs DEF WorkerEnds, Up, Busy, Sorts
<1>5. CASE WorkerBegins
  <2>1. worker'.todo = <<>> \/ \E e : worker'.todo = <<e>> /\ e.job = 0
    BY <1>5 DEF WorkerBegins
  <2>2. Clear(worker'.todo, n)
    BY <2>1, ClearFew, FreeIs
  <2> QED BY <1>5, <2>2 DEF WorkerBegins, Up, Busy
<1>6. CASE WorkerReports
  <2>1. Busy /\ Free(worker.job.job, n)
    BY <1>6 DEF WorkerReports, Up, Busy
  <2>2. worker'.todo = <<>> \/ \E e : worker'.todo = <<e>> /\ e.job = worker.job.job
    BY <1>6 DEF WorkerReports, Says
  <2>3. Clear(worker'.todo, n)
    BY <2>1, <2>2, ClearFew
  <2>4. Busy' => worker'.job.job = worker.job.job
    BY <1>6 DEF WorkerReports, Busy, SameJob
  <2> QED BY <1>6, <2>1, <2>3, <2>4 DEF WorkerReports, Up
<1>7. CASE WorkerSpawns
  BY <1>0, <1>7, ClearIs DEF WorkerSpawns, Up, Busy, Sorts
<1> QED BY <1>1, <1>2, <1>3, <1>4, <1>5, <1>6, <1>7 DEF Worked

\* Once nothing before job n is on its way, nothing is later.
LEMMA UpStays ==
    ASSUME Typed, Typed', Step, NEW n \in Nat, Up(n)
    PROVE  /\ Up(n)'
           /\ Clear(worker.todo, n) => Clear(worker'.todo, n)
<1>0. Sorts /\ Sorts'
  BY SortsOf
<1>1. n <= session'.jobCount
  BY <1>0, JobsOfTodo DEF Up, Sorts
<1>2. \A x \in Elems(session'.todo) : x.op = "job" => Free(x.item.job, n)
  <2>1. ASSUME NEW x \in Elems(session'.todo), x.op = "job"
        PROVE  Free(x.item.job, n)
    <3>1. x.item.job \in Nat
      <4>1. x \in Sendings
        BY <1>0, ElemsOf DEF Sorts
      <4> QED BY <4>1 DEF Sendings, Things
    <3>2. x \in Elems(session.todo) \/ x.item.job > session.jobCount
      BY <2>1, JobsOfTodo
    <3>3. x.item.job > session.jobCount => n <= x.item.job
      BY <1>0, <3>1 DEF Up, Sorts
    <3> QED BY <2>1, <3>1, <3>2, <3>3, FreeIs DEF Up
  <2> QED BY <2>1
<1>3. /\ Clear(jobs', n)
      /\ Busy' => Free(worker'.job.job, n)
      /\ batch'.pc = "running" => Free(batch'.job.job, n)
      /\ Clear(batch'.events, n)
      /\ Clear(worker.todo, n) => Clear(worker'.todo, n)
  <2>1. CASE Worked
    BY <2>1, WorkerUp
  <2>2. CASE Translates
    <3>1. Free(batch.job.job, n) /\ batch.events \in Seq(Things) /\ Clear(batch.events, n)
      BY <1>0, <2>2 DEF Translates, Up, Sorts
    <3>2. batch'.events = batch.events
          \/ \E e \in Things : batch'.events = Append(batch.events, e) /\ e.job = batch.job.job
      BY <2>2 DEF Translates
    <3>3. \A e \in Things : Free(e.job, n) => Clear(Append(batch.events, e), n)
      BY <3>1, ClearIs
    <3>4. Clear(batch'.events, n)
      BY <3>1, <3>2, <3>3
    <3> QED BY <2>2, <3>1, <3>4 DEF Translates, Up, Busy
  <2>3. CASE SendsJob
    <3>1. Passing
      BY <2>3 DEF SendsJob, Passing
    <3>2. Free(Head(session.todo).item.job, n)
      BY <1>0, <2>3, <3>1, PassIs DEF SendsJob, Passes, Up
    <3> QED BY <1>0, <2>3, <3>1, <3>2, PassIs, ClearIs DEF SendsJob, Up, Busy, Sorts
  <2>4. CASE Ends
    BY <1>0, <2>4, ClearIs DEF Ends, Up, Busy, Sorts
  <2>5. CASE \/ TtsMoves \/ HearsFence \/ HearsEvent \/ HearsSpeech \/ TakesFrame
             \/ SendsSpeech \/ SendsOut \/ Closes \/ Skips \/ Exits \/ UNCHANGED Shown
    <3>1. UNCHANGED <<worker, batch, jobs>>
      BY <2>5 DEF TtsMoves, HearsFence, HearsEvent, HearsSpeech, TakesFrame, FrameEffect,
                  SendsSpeech, SendsOut, Closes, Skips, Exits, Others, Shown
    <3> QED BY <3>1 DEF Up, Busy
  <2> QED BY <2>1, <2>2, <2>3, <2>4, <2>5 DEF Step
<1> QED BY <1>1, <1>2, <1>3 DEF Up

LEMMA FlowStays ==
    ASSUME Typed, Typed', Step, NEW n \in Nat, Flow(n)
    PROVE  Flow(n)'
<1>0. Sorts
  BY SortsOf
<1>1. Up(n)' /\ Clear(worker'.todo, n)
  BY UpStays DEF Flow
<1>2. Clear(results', n)
  <2>1. CASE Worked
    <3>1. results' = results \/ WorkerSends
      BY <2>1 DEF Worked, WorkerHears, WorkerTakes, WorkerEnds, WorkerBegins, WorkerReports, WorkerSpawns
    <3>2. CASE WorkerSends
      BY <1>0, <3>2, ClearIs, ElemsOf DEF WorkerSends, Flow, Sorts
    <3> QED BY <3>1, <3>2 DEF Flow
  <2>2. CASE HearsFence \/ HearsEvent
    <3>1. results # <<>> /\ results' = Tail(results)
      BY <2>2 DEF HearsFence, HearsEvent
    <3> QED BY <1>0, <3>1, ClearIs DEF Flow, Sorts
  <2>3. CASE \/ Translates \/ TtsMoves \/ HearsSpeech \/ TakesFrame \/ SendsJob
             \/ SendsSpeech \/ SendsOut \/ Closes \/ Skips \/ Exits \/ Ends \/ UNCHANGED Shown
    <3>1. results' = results
      BY <2>3 DEF Translates, TtsMoves, HearsSpeech, TakesFrame, FrameEffect, SendsJob,
                  SendsSpeech, SendsOut, Closes, Skips, Exits, Ends, Others, Shown
    <3> QED BY <3>1 DEF Flow
  <2> QED BY <2>1, <2>2, <2>3 DEF Step
<1> QED BY <1>1, <1>2 DEF Flow

LEMMA SaidStays ==
    ASSUME Typed, Typed', Step, NEW n \in Nat, Flow(n), Said(n),
           session.todo # <<>> /\ Head(session.todo).op = "tts" => Free(Head(session.todo).item.job, n)
    PROVE  Said(n)'
<1>0. Sorts
  BY SortsOf
<1>1. Free(Blank.job, n)
  BY FreeIs DEF Blank, Item
<1>2. CASE HearsFence
  <2>1. Free(Head(results).job, n)
    BY <1>0, <1>2, ClearIs DEF HearsFence, Flow, Sorts
  <2> QED BY <1>2, <2>1 DEF HearsFence, Said
<1>3. CASE HearsSpeech
  <2>1. Clear(ttsResults', n)
    BY <1>0, <1>3, ClearIs DEF HearsSpeech, Said, Sorts
  <2> QED BY <1>1, <1>3, <2>1, SpeechElems DEF HearsSpeech, Said
<1>4. CASE SendsSpeech
  <2>1. Passing
    BY <1>4 DEF SendsSpeech, Passing
  <2>2. Free(Head(session.todo).item.job, n)
    BY <1>4 DEF SendsSpeech, Passes
  <2> QED BY <1>0, <1>4, <2>1, <2>2, PassIs, ClearIs DEF SendsSpeech, Said, Sorts, Stays, Keeps
<1>5. CASE TtsMoves
  <2>1. ttsJobs # <<>> => Free(Head(ttsJobs).job, n) /\ Clear(Tail(ttsJobs), n)
    BY <1>0, ClearIs DEF Said, Sorts
  <2>2. Free(tts.item.job, n) => Clear(Append(ttsResults, tts.item), n)
    BY <1>0, ClearIs DEF Said, Sorts
  <2> QED BY <1>5, <2>1, <2>2 DEF TtsMoves, Said
<1>6. CASE Ends
  BY <1>0, <1>6, ClearIs DEF Ends, Said, Sorts, Keeps
<1>7. CASE \/ Worked \/ Translates \/ HearsEvent \/ TakesFrame \/ SendsJob \/ SendsOut
           \/ Closes \/ Skips \/ Exits \/ UNCHANGED Shown
  <2>1. session'.pendingDrain = session.pendingDrain /\ UNCHANGED <<tts, ttsJobs, ttsResults>>
    BY <1>7 DEF Worked, Translates, HearsEvent, TakesFrame, FrameEffect, SendsJob, SendsOut,
                Closes, Skips, Exits, Others, Shown, Passes, Stays, Keeps
  <2> QED BY <2>1 DEF Said
<1> QED BY <1>2, <1>3, <1>4, <1>5, <1>6, <1>7 DEF Step

LEMMA IdleStays ==
    ASSUME Typed, Typed', Step, NEW n \in Nat, Flow(n), Said(n), Idle(n)
    PROVE  Idle(n)'
<1>0. Sorts
  BY SortsOf
<1>1. CASE HearsFence
  <2>1. Free(Head(results).job, n)
    BY <1>0, <1>1, ClearIs DEF HearsFence, Flow, Sorts
  <2> QED BY <1>1, <2>1, FenceElems, FreeIs DEF Idle, FenceOf, Leaves
<1>2. CASE HearsEvent
  <2>1. Free(Head(results).job, n)
    BY <1>0, <1>2, ClearIs DEF HearsEvent, Flow, Sorts
  <2> QED BY <1>2, <2>1, EventElems DEF Idle
<1>3. CASE HearsSpeech
  <2>1. Free(Head(ttsResults).job, n) /\ Free(session.pendingDrain.job, n)
    BY <1>0, <1>3, ClearIs DEF HearsSpeech, Said, Sorts
  <2> QED BY <1>3, <2>1, SpeechElems, FreeIs DEF Idle, FenceOf, Leaves
<1>4. CASE TakesFrame
  BY <1>4, FrameElems, FreeIs DEF TakesFrame, Idle
<1>5. CASE SendsJob \/ SendsSpeech \/ SendsOut \/ Closes
  BY <1>0, <1>5, PassIs DEF SendsJob, SendsSpeech, SendsOut, Closes, Passing, Idle
<1>6. CASE Skips
  BY <1>6, FreeIs DEF Skips, Closing, Elems, Idle
<1>7. CASE Exits
  BY <1>7, ElemsFew DEF Exits, Idle
<1>8. CASE Worked \/ Translates \/ TtsMoves \/ Ends \/ UNCHANGED Shown
  <2>1. session'.todo = session.todo
    BY <1>8 DEF Worked, Translates, TtsMoves, Ends, Shown
  <2> QED BY <2>1 DEF Idle
<1> QED BY <1>1, <1>2, <1>3, <1>4, <1>5, <1>6, <1>7, <1>8 DEF Step

\* Where a fence cannot be, and what a kept one is
KindInv ==
    /\ \A x \in Elems(batch.events) : x.kind \in {"translation", "failed", "streamEnded"}
    /\ \A x \in Elems(ttsResults) : ~Fence(x)
    /\ tts.pc = "send" => ~Fence(tts.item)
    /\ session.pendingDrain # Blank => Fence(session.pendingDrain)

LEMMA KindStep ==
    ASSUME Typed, Typed', Step, KindInv
    PROVE  KindInv'
<1>0. Sorts
  BY SortsOf
<1>1. \A x \in Elems(batch'.events) : x.kind \in {"translation", "failed", "streamEnded"}
  <2>1. CASE Worked
    <3>1. batch' = batch \/ batch'.events = <<>>
      BY <2>1 DEF Worked, WorkerSends, WorkerHears, WorkerTakes, WorkerEnds, WorkerBegins,
                  WorkerReports, WorkerSpawns, NoBatch
    <3> QED BY <3>1, ElemsFew DEF KindInv
  <2>2. CASE Translates
    <3>1. batch'.events = batch.events
          \/ \E e \in Things : /\ batch'.events = Append(batch.events, e)
                               /\ e.kind \in {"translation", "failed", "streamEnded"}
      BY <2>2 DEF Translates
    <3>2. \A e \in Things : Elems(Append(batch.events, e)) = Elems(batch.events) \cup {e}
      BY <1>0, ElemsOf DEF Sorts
    <3> QED BY <3>1, <3>2 DEF KindInv
  <2>3. CASE Ends
    BY <2>3, ElemsFew DEF Ends, KindInv
  <2>4. CASE \/ TtsMoves \/ HearsFence \/ HearsEvent \/ HearsSpeech \/ TakesFrame \/ SendsJob
             \/ SendsSpeech \/ SendsOut \/ Closes \/ Skips \/ Exits \/ UNCHANGED Shown
    <3>1. batch' = batch
      BY <2>4 DEF TtsMoves, HearsFence, HearsEvent, HearsSpeech, TakesFrame, FrameEffect, SendsJob,
                  SendsSpeech, SendsOut, Closes, Skips, Exits, Others, Shown
    <3> QED BY <3>1 DEF KindInv
  <2> QED BY <2>1, <2>2, <2>3, <2>4 DEF Step
<1>2. /\ \A x \in Elems(ttsResults') : ~Fence(x)
      /\ tts'.pc = "send" => ~Fence(tts'.item)
  <2>1. CASE TtsMoves
    <3>1. Elems(Append(ttsResults, tts.item)) = Elems(ttsResults) \cup {tts.item}
      BY <1>0, ElemsOf DEF Sorts
    <3> QED BY <2>1, <3>1 DEF TtsMoves, KindInv, Fence
  <2>2. CASE HearsSpeech
    <3>1. Elems(ttsResults') \subseteq Elems(ttsResults)
      BY <1>0, <2>2, ElemsOf DEF HearsSpeech, Sorts
    <3> QED BY <2>2, <3>1 DEF HearsSpeech, KindInv
  <2>3. CASE Ends
    BY <2>3 DEF Ends, KindInv
  <2>4. CASE \/ Worked \/ Translates \/ HearsFence \/ HearsEvent \/ TakesFrame \/ SendsJob
             \/ SendsSpeech \/ SendsOut \/ Closes \/ Skips \/ Exits \/ UNCHANGED Shown
    <3>1. UNCHANGED <<tts, ttsResults>>
      BY <2>4 DEF Worked, Translates, HearsFence, HearsEvent, TakesFrame, FrameEffect, SendsJob,
                  SendsSpeech, SendsOut, Closes, Skips, Exits, Others, Shown
    <3> QED BY <3>1 DEF KindInv
  <2> QED BY <2>1, <2>2, <2>3, <2>4 DEF Step
<1>3. session'.pendingDrain # Blank => Fence(session'.pendingDrain)
  <2>1. CASE HearsFence
    BY <2>1 DEF HearsFence, KindInv, Fence
  <2>2. CASE HearsSpeech
    BY <2>2, SpeechElems DEF KindInv
  <2>3. CASE \/ Worked \/ Translates \/ TtsMoves \/ HearsEvent \/ TakesFrame \/ SendsJob
             \/ SendsSpeech \/ SendsOut \/ Closes \/ Skips \/ Exits \/ Ends \/ UNCHANGED Shown
    <3>1. session'.pendingDrain = session.pendingDrain
      BY <2>3 DEF Worked, Translates, TtsMoves, HearsEvent, TakesFrame, FrameEffect, SendsJob,
                  SendsSpeech, SendsOut, Closes, Skips, Exits, Ends, Others, Shown, Passes, Stays, Keeps
    <3> QED BY <3>1 DEF KindInv
  <2> QED BY <2>1, <2>2, <2>3 DEF Step
<1> QED BY <1>1, <1>2, <1>3 DEF KindInv

-----------------------------------------------------------------------------
\* Every piece of speech on its way is counted, and a fence is kept only for speech.
ToSpeak(t) == IF \E x \in Elems(t) : x.op = "tts" THEN 1 ELSE 0
Speaking == IF tts.pc \in {"busy", "send"} THEN 1 ELSE 0


LastSpeech(t) == \A i \in DOMAIN t : t[i].op = "tts" => i = Len(t)

CountInv ==
    session.loop = "run" =>
        /\ ToSpeak(session.todo) + Len(ttsJobs) + Speaking + Len(ttsResults) <= session.pendingTts
        /\ LastSpeech(session.todo)
        /\ session.pendingDrain # Blank => session.pendingTts > 0

LEMMA SpeechTodo ==
    ASSUME NEW t \in Seq(Sendings)
    PROVE  /\ ToSpeak(t) \in {0, 1}
           /\ (\A x \in Elems(t) : x.op # "tts") => ToSpeak(t) = 0 /\ LastSpeech(t)
           /\ t # <<>> /\ LastSpeech(t) =>
                 /\ LastSpeech(Tail(t))
                 /\ ToSpeak(Tail(t)) <= ToSpeak(t)
                 /\ Head(t).op = "tts" => ToSpeak(Tail(t)) = 0 /\ ToSpeak(t) = 1
<1> HIDE DEF Sendings
<1>1. ToSpeak(t) \in {0, 1}
  BY DEF ToSpeak
<1>2. (\A x \in Elems(t) : x.op # "tts") => ToSpeak(t) = 0 /\ LastSpeech(t)
  BY DEF ToSpeak, LastSpeech, Elems
<1>3. ASSUME t # <<>>, LastSpeech(t)
      PROVE  /\ LastSpeech(Tail(t))
             /\ ToSpeak(Tail(t)) <= ToSpeak(t)
             /\ Head(t).op = "tts" => ToSpeak(Tail(t)) = 0 /\ ToSpeak(t) = 1
  <2>1. /\ Head(t) = t[1] /\ 1 \in DOMAIN t
        /\ \A i \in DOMAIN Tail(t) : i \in Nat /\ i > 0 /\ i + 1 \in DOMAIN t /\ Tail(t)[i] = t[i + 1]
    BY <1>3, TodoTail
  <2>2. Len(t) \in Nat /\ Len(Tail(t)) = Len(t) - 1
    BY <1>3, HeadTailProperties, LenProperties
  <2>3. LastSpeech(Tail(t))
    BY <1>3, <2>1, <2>2 DEF LastSpeech
  <2>4. Elems(t) = {Head(t)} \cup Elems(Tail(t))
    BY <1>3, TodoIs
  <2>5. ToSpeak(Tail(t)) <= ToSpeak(t)
    BY <2>4 DEF ToSpeak
  <2>6. Head(t).op = "tts" => ToSpeak(Tail(t)) = 0 /\ ToSpeak(t) = 1
    <3>1. ASSUME Head(t).op = "tts"
          PROVE  Tail(t) = <<>>
      <4>1. Len(Tail(t)) = 0 /\ Tail(t) \in Seq(Sendings)
        BY <1>3, <2>1, <2>2, <3>1, TodoTail DEF LastSpeech
      <4> QED BY <4>1, EmptySeq
    <3> QED BY <2>4, <3>1, ElemsFew DEF ToSpeak
  <2> QED BY <2>3, <2>5, <2>6
<1> QED BY <1>1, <1>2, <1>3

LEMMA SpeechAnswers ==
    ASSUME NEW event, NEW spoken \in BOOLEAN, NEW t, Answers(t, event, spoken)
    PROVE  LastSpeech(t) /\ ToSpeak(t) <= IF spoken THEN 1 ELSE 0
<1> HIDE DEF Sendings
<1>1. CASE t = <<>>
  <2>1. t \in Seq(Sendings) /\ \A x \in Elems(t) : x.op # "tts"
    BY <1>1, ElemsFew
  <2> QED BY <2>1, SpeechTodo
<1>2. ASSUME NEW a \in Sendings, t = <<a>>, Message(a, event)
      PROVE  LastSpeech(t) /\ ToSpeak(t) <= IF spoken THEN 1 ELSE 0
  <2>1. t \in Seq(Sendings) /\ \A x \in Elems(t) : x.op # "tts"
    BY <1>2, ElemsFew DEF Message
  <2> QED BY <2>1, SpeechTodo
<1>3. ASSUME NEW a \in Sendings, NEW b \in Sendings, t = <<a, b>>, Message(a, event), spoken
      PROVE  LastSpeech(t) /\ ToSpeak(t) <= IF spoken THEN 1 ELSE 0
  <2>1. DOMAIN t = {1, 2} /\ t[1] = a /\ Len(t) = 2
    BY <1>3
  <2>2. LastSpeech(t)
    BY <1>3, <2>1 DEF LastSpeech, Message
  <2> QED BY <1>3, <2>2 DEF ToSpeak
<1> QED BY <1>1, <1>2, <1>3 DEF Answers

\* The lengths of the queues of speech
LEMMA Lengths ==
    ASSUME NEW s \in Seq(Things)
    PROVE  /\ Len(s) \in Nat
           /\ s # <<>> => Len(Tail(s)) = Len(s) - 1 /\ Len(s) > 0
           /\ \A e \in Things : Len(Append(s, e)) = Len(s) + 1
           /\ Len(s) = 0 => s = <<>>
<1> HIDE DEF Things
<1>1. Len(s) \in Nat
  BY LenProperties
<1>2. s # <<>> => Len(Tail(s)) = Len(s) - 1 /\ Len(s) > 0
  BY HeadTailProperties, EmptySeq
<1>3. \A e \in Things : Len(Append(s, e)) = Len(s) + 1
  BY AppendProperties
<1> QED BY <1>1, <1>2, <1>3, EmptySeq

LEMMA CountStep ==
    ASSUME Typed, Typed', Step, CountInv
    PROVE  CountInv'
<1> SUFFICES ASSUME session'.loop = "run"
             PROVE  CountInv'
  BY DEF CountInv
<1>0. Sorts /\ Sorts'
  BY SortsOf
<1>1. session.loop = "run"
  BY DEF Step, Worked, Translates, TtsMoves, Shown, HearsFence, HearsEvent, HearsSpeech, TakesFrame,
         FrameEffect, SendsJob, SendsSpeech, SendsOut, Closes, Skips, Exits, Ends, Passes, Stays
<1>2. /\ ToSpeak(session.todo) + Len(ttsJobs) + Speaking + Len(ttsResults) <= session.pendingTts
      /\ LastSpeech(session.todo)
      /\ session.pendingDrain # Blank => session.pendingTts > 0
  BY <1>1 DEF CountInv
<1>3. /\ Len(ttsJobs) \in Nat /\ Len(ttsResults) \in Nat /\ session.pendingTts \in Nat
      /\ ToSpeak(session.todo) \in {0, 1} /\ ToSpeak(session'.todo) \in {0, 1}
      /\ session.todo = <<>> => ToSpeak(session.todo) = 0
      /\ Speaking \in {0, 1}
  <2>1. ToSpeak(<<>>) = 0
    BY ElemsFew DEF ToSpeak
  <2> QED BY <1>0, <2>1, Lengths DEF Sorts, ToSpeak, Speaking
<1>4. CASE Worked \/ Translates \/ UNCHANGED Shown
  <2>1. UNCHANGED <<session, tts, ttsJobs, ttsResults>>
    BY <1>4 DEF Worked, Translates, Shown
  <2> QED BY <1>2, <2>1 DEF CountInv, Speaking
<1>5. CASE TtsMoves
  <2>1. session' = session
    BY <1>5 DEF TtsMoves
  <2>2. Len(ttsJobs') + Speaking' + Len(ttsResults') = Len(ttsJobs) + Speaking + Len(ttsResults)
    <3>1. /\ ttsJobs # <<>> => Len(Tail(ttsJobs)) = Len(ttsJobs) - 1
          /\ Len(Append(ttsResults, tts.item)) = Len(ttsResults) + 1
      BY <1>0, Lengths DEF Sorts
    <3>2. CASE tts.pc = "recv" /\ tts'.pc = "busy"
      BY <1>3, <1>5, <3>1, <3>2 DEF TtsMoves, Speaking
    <3>3. CASE tts.pc = "busy" /\ tts'.pc = "send"
      BY <1>3, <1>5, <3>1, <3>3 DEF TtsMoves, Speaking
    <3>4. CASE tts.pc = "send" /\ tts'.pc = "recv"
      BY <1>3, <1>5, <3>1, <3>4 DEF TtsMoves, Speaking
    <3> QED BY <1>1, <1>5, <3>2, <3>3, <3>4 DEF TtsMoves
  <2>3. Len(ttsJobs') \in Nat /\ Len(ttsResults') \in Nat /\ Speaking' \in {0, 1}
    BY <1>0, Lengths DEF Sorts, Speaking
  <2> HIDE DEF Speaking
  <2> QED BY <1>2, <1>3, <2>1, <2>2, <2>3 DEF CountInv
<1>6. CASE HearsFence
  <2>1. ToSpeak(session'.todo) = 0 /\ LastSpeech(session'.todo)
    <3>1. \A x \in Elems(session'.todo) : x.op # "tts"
      BY <1>6, FenceElems DEF FenceOf, Leaves
    <3> QED BY <1>0, <3>1, SpeechTodo DEF Sorts
  <2>2. /\ UNCHANGED <<tts, ttsJobs, ttsResults>> /\ session'.pendingTts = session.pendingTts
        /\ session.todo = <<>>
        /\ session'.pendingDrain = session.pendingDrain \/ session.pendingTts # 0
    BY <1>6 DEF HearsFence
  <2>3. Speaking' = Speaking
    BY <2>2 DEF Speaking
  <2> HIDE DEF Speaking
  <2> QED BY <1>2, <1>3, <2>1, <2>2, <2>3 DEF CountInv
<1>7. CASE HearsEvent
  <2>1. PICK spoken \in BOOLEAN :
           /\ Answers(session'.todo, Head(results), spoken)
           /\ session'.pendingTts = IF spoken THEN session.pendingTts + 1 ELSE session.pendingTts
    BY <1>7 DEF HearsEvent
  <2>2. LastSpeech(session'.todo) /\ ToSpeak(session'.todo) <= IF spoken THEN 1 ELSE 0
    BY <2>1, SpeechAnswers
  <2>3. /\ UNCHANGED <<tts, ttsJobs, ttsResults>> /\ session.todo = <<>>
        /\ session'.pendingDrain = session.pendingDrain
    BY <1>7 DEF HearsEvent
  <2>4. Speaking' = Speaking
    BY <2>3 DEF Speaking
  <2> HIDE DEF Speaking
  <2> QED BY <1>2, <1>3, <2>1, <2>2, <2>3, <2>4 DEF CountInv
<1>8. CASE HearsSpeech
  <2>1. ToSpeak(session'.todo) = 0 /\ LastSpeech(session'.todo)
    <3>1. \A x \in Elems(session'.todo) : x.op # "tts"
      BY <1>8, SpeechElems DEF FenceOf, Leaves
    <3> QED BY <1>0, <3>1, SpeechTodo DEF Sorts
  <2>2. /\ UNCHANGED <<tts, ttsJobs>> /\ session.todo = <<>>
        /\ session'.pendingTts = LeftAfter(Head(ttsResults))
        /\ ttsResults # <<>> /\ ttsResults' = Tail(ttsResults)
        /\ session'.pendingDrain # Blank => session'.pendingTts # 0
    BY <1>8 DEF HearsSpeech
  <2>3. Len(ttsResults') = Len(ttsResults) - 1 /\ Len(ttsResults) > 0
    BY <1>0, <2>2, Lengths DEF Sorts
  <2>4. session'.pendingTts = session.pendingTts - 1
    BY <1>2, <1>3, <2>2, <2>3 DEF LeftAfter
  <2>5. Speaking' = Speaking
    BY <2>2 DEF Speaking
  <2>6. session'.pendingTts \in Nat
    BY <1>0 DEF Sorts
  <2> HIDE DEF Speaking
  <2> QED BY <1>2, <1>3, <2>1, <2>2, <2>3, <2>4, <2>5, <2>6 DEF CountInv
<1>9. CASE TakesFrame \/ Skips
  <2>1. ToSpeak(session'.todo) = 0 /\ LastSpeech(session'.todo)
    <3>1. \A x \in Elems(session'.todo) : x.op # "tts"
      BY <1>9, FrameElems DEF TakesFrame, Skips, Closing, Elems
    <3> QED BY <1>0, <3>1, SpeechTodo DEF Sorts
  <2>2. /\ UNCHANGED <<tts, ttsJobs, ttsResults>> /\ session'.pendingTts = session.pendingTts
        /\ session'.pendingDrain = session.pendingDrain
    BY <1>9 DEF TakesFrame, FrameEffect, Skips, Stays, Keeps, Others
  <2>3. Speaking' = Speaking
    BY <2>2 DEF Speaking
  <2> HIDE DEF Speaking
  <2> QED BY <1>2, <1>3, <2>1, <2>2, <2>3 DEF CountInv
<1>10. CASE SendsJob \/ SendsOut \/ Closes
  <2>1. Passing
    BY <1>10 DEF SendsJob, SendsOut, Closes, Passing
  <2>2. LastSpeech(session'.todo) /\ ToSpeak(session'.todo) <= ToSpeak(session.todo)
    BY <1>0, <1>2, <2>1, PassIs, SpeechTodo DEF Sorts
  <2>3. /\ UNCHANGED <<tts, ttsJobs, ttsResults>> /\ session'.pendingTts = session.pendingTts
        /\ session'.pendingDrain = session.pendingDrain
    BY <1>0, <1>10, <2>1, PassIs DEF SendsJob, SendsOut, Closes, Others, Stays, Keeps
  <2>4. Speaking' = Speaking
    BY <2>3 DEF Speaking
  <2> HIDE DEF Speaking
  <2> QED BY <1>2, <1>3, <2>2, <2>3, <2>4 DEF CountInv
<1>11. CASE SendsSpeech
  <2>1. Passing /\ Head(session.todo).op = "tts"
    BY <1>11 DEF SendsSpeech, Passing, Passes
  <2>2. /\ LastSpeech(session'.todo)
        /\ ToSpeak(session'.todo) = 0 /\ ToSpeak(session.todo) = 1
    BY <1>0, <1>2, <2>1, PassIs, SpeechTodo DEF Sorts
  <2>3. /\ UNCHANGED <<tts, ttsResults>> /\ session'.pendingTts = session.pendingTts
        /\ session'.pendingDrain = session.pendingDrain
        /\ Len(ttsJobs') = Len(ttsJobs) + 1
    <3>1. Head(session.todo).item \in Things /\ Stays
      BY <1>0, <2>1, PassIs
    <3>2. Len(Append(ttsJobs, Head(session.todo).item)) = Len(ttsJobs) + 1
      BY <1>0, <3>1, Lengths DEF Sorts
    <3> QED BY <1>11, <3>1, <3>2 DEF SendsSpeech, Stays, Keeps
  <2>4. Speaking' = Speaking
    BY <2>3 DEF Speaking
  <2> HIDE DEF Speaking
  <2> QED BY <1>2, <1>3, <2>2, <2>3, <2>4 DEF CountInv
<1> QED BY <1>1, <1>4, <1>5, <1>6, <1>7, <1>8, <1>9, <1>10, <1>11 DEF Step, Exits, Ends

\* No speech is on its way.
Mute ==
    /\ ttsJobs = <<>> /\ ttsResults = <<>> /\ tts.pc \notin {"busy", "send"}
    /\ session.pendingDrain = Blank

LEMMA MuteIs ==
    ASSUME Sorts, CountInv, session.loop = "run", session.pendingTts = 0
    PROVE  Mute
<1>1. /\ ToSpeak(session.todo) \in {0, 1} /\ Len(ttsJobs) \in Nat /\ Len(ttsResults) \in Nat
      /\ Speaking \in {0, 1}
  BY Lengths DEF Sorts, ToSpeak, Speaking
<1>2. /\ ToSpeak(session.todo) + Len(ttsJobs) + Speaking + Len(ttsResults) <= 0
      /\ session.pendingDrain = Blank
  BY DEF CountInv
<1>3. Len(ttsJobs) = 0 /\ Len(ttsResults) = 0 /\ Speaking = 0
  <2> HIDE DEF Speaking
  <2> QED BY <1>1, <1>2
<1> QED BY <1>2, <1>3, Lengths DEF Sorts, Mute, Speaking

\* A fence, wherever it is, has nothing of an earlier job behind it.
FenceAtWorker ==
    /\ Rear(worker.todo)
    /\ \A x \in Elems(worker.todo) : Fence(x) => Up(x.job)

FenceAtResults ==
    /\ Rear(results)
    /\ \A x \in Elems(results) : Fence(x) => Up(x.job) /\ Clear(worker.todo, x.job)

FenceKept == Fence(session.pendingDrain) => Flow(session.pendingDrain.job)

FenceToSend ==
    /\ TodoRear(session.todo)
    /\ \A x \in Elems(session.todo) : FenceSent(x) =>
          /\ Flow(x.item.job) /\ Said(x.item.job) /\ x.item.gen = generation
          /\ \A y \in Elems(session.todo) : y.op \in {"out", "leave"}

FenceOutside ==
    /\ Rear(out)
    /\ \A x \in Elems(out) : Fence(x) => Flow(x.job) /\ Said(x.job) /\ Idle(x.job)

FenceInv == FenceAtWorker /\ FenceAtResults /\ FenceKept /\ FenceToSend /\ FenceOutside

\* The worker reports a fence when all before it is reported and translated.
LEMMA FenceReported ==
    ASSUME OrderInv, Typed', WorkerReports, UNCHANGED session,
           NEW e \in Things, Says(e), Fence(e)
    PROVE  /\ Up(e.job)'
           /\ ~Busy' /\ batch'.pc = "none"
           /\ \A x \in Elems(jobs) : x.job > e.job /\ x.job <= session.jobCount
           /\ \A x \in Elems(session.todo) :
                 x.op = "job" => x.item.job > e.job /\ x.item.job <= session.jobCount
<1>0. Sorts /\ Typed
  BY SortsOf DEF OrderInv
<1>1. /\ worker.pc = "emit" /\ worker'.pc = "recv" /\ e.job = worker.job.job
      /\ UNCHANGED <<batch, jobs, results>> /\ WorkNo = e.job /\ e.job \in Nat
  <2>1. worker.pc = "emit" /\ worker'.pc = "recv" /\ e.job = worker.job.job /\ worker.job \in Things
    BY <1>0 DEF Says, Fence, Sorts
  <2>2. e.job \in Nat
    BY DEF Things
  <2> QED BY <2>1, <2>2 DEF WorkerReports, WorkNo
<1>2. batch.pc = "none" /\ batch.events = <<>>
  BY <1>1 DEF OrderInv, Working, Translating
<1>3. \A w : Upcoming(w) => e.job < w
  BY <1>1 DEF Upcoming, Beyond
<1>4. e.job < session.jobCount + 1
  BY <1>3 DEF OrderInv, Coming
<1>5. \A i \in DOMAIN jobs : e.job < jobs[i].job /\ jobs[i].job <= session.jobCount
  BY <1>3 DEF OrderInv, Coming
<1>6. \A i \in DOMAIN session.todo : session.todo[i].op = "job" =>
         e.job < session.todo[i].item.job /\ session.todo[i].item.job <= session.jobCount
  BY <1>3 DEF OrderInv, Coming
<1>7. \A x \in Elems(jobs) : x.job \in Nat /\ x.job > e.job /\ x.job <= session.jobCount
  <2>1. \A x \in Elems(jobs) : x \in Things
    BY <1>0, ElemsOf DEF Sorts
  <2>2. \A x \in Things : x.job \in Nat
    BY DEF Things
  <2> QED BY <1>1, <1>5, <2>1, <2>2 DEF Elems
<1>8. \A x \in Elems(session.todo) : x.op = "job" =>
         x.item.job \in Nat /\ x.item.job > e.job /\ x.item.job <= session.jobCount
  <2>1. \A x \in Elems(session.todo) : x \in Sendings
    BY <1>0, ElemsOf DEF Sorts
  <2>2. \A x \in Sendings : x.item.job \in Nat
    BY DEF Sendings, Things
  <2> QED BY <1>1, <1>6, <2>1, <2>2 DEF Elems
<1>9. Clear(jobs, e.job) /\ \A x \in Elems(session.todo) : x.op = "job" => Free(x.item.job, e.job)
  <2>1. \A j \in Nat : j > e.job => Free(j, e.job)
    BY <1>1, FreeIs
  <2> QED BY <1>7, <1>8, <2>1 DEF Clear
<1>10. e.job <= session.jobCount
  BY <1>0, <1>1, <1>4 DEF Sorts
<1>11. Up(e.job)'
  BY <1>1, <1>2, <1>9, <1>10, ClearFew DEF Up, Busy
<1> QED BY <1>1, <1>2, <1>7, <1>8, <1>11 DEF Busy

LEMMA JobIsNat ==
    /\ \A x \in Things : x.job \in Nat
    /\ \A x \in Sendings : x \in Sendings => x.item.job \in Nat /\ x.item \in Things
BY DEF Things, Sendings

LEMMA FenceWorkerStep ==
    ASSUME OrderInv, Typed', Step, KindInv, FenceAtWorker
    PROVE  FenceAtWorker'
<1>0. Sorts /\ Typed
  BY SortsOf DEF OrderInv
<1>1. \A x \in Elems(worker.todo) : x.job \in Nat
  <2> HIDE DEF Things
  <2> QED BY <1>0, ElemsOf, JobIsNat DEF Sorts
<1>2. ASSUME NEW x \in Elems(worker.todo), Fence(x)
      PROVE  Up(x.job)'
  BY <1>0, <1>1, <1>2, UpStays DEF FenceAtWorker
<1>3. CASE worker'.todo = worker.todo
  <2>1. \A x \in Elems(worker'.todo) : Fence(x) => Up(x.job)'
    BY <1>2, <1>3
  <2> QED BY <1>3, <2>1 DEF FenceAtWorker
<1>4. CASE worker'.todo = <<>>
  BY <1>0, <1>4, RearIs, ElemsFew DEF FenceAtWorker, Sorts
<1>5. CASE worker.todo # <<>> /\ worker'.todo = Tail(worker.todo)
  <2>1. Rear(worker'.todo) /\ \A x \in Elems(worker'.todo) : x \in Elems(worker.todo)
    BY <1>0, <1>5, RearIs, ElemsOf DEF FenceAtWorker, Sorts
  <2>2. \A x \in Elems(worker'.todo) : Fence(x) => Up(x.job)'
    BY <1>2, <2>1
  <2> QED BY <2>1, <2>2 DEF FenceAtWorker
<1>6. ASSUME \A x \in Elems(worker'.todo) : ~Fence(x)
      PROVE  FenceAtWorker'
  BY <1>6 DEF FenceAtWorker, Rear, Elems
<1>7. CASE Worked
  <2>1. CASE WorkerTakes
    BY <1>6, <2>1 DEF WorkerTakes, KindInv, Fence
  <2>2. CASE WorkerBegins
    <3>1. CASE \E e \in Things : worker'.todo = <<e>> /\ e.job = 0 /\ e.kind = "error"
      BY <1>6, <3>1, ElemsFew DEF Fence
    <3> QED BY <1>4, <2>2, <3>1 DEF WorkerBegins
  <2>3. CASE WorkerReports
    <3>1. ASSUME NEW e \in Things, worker'.todo = <<e>>, Says(e)
          PROVE  FenceAtWorker'
      <4>1. CASE ~Fence(e)
        BY <1>6, <3>1, <4>1, ElemsFew
      <4>2. CASE Fence(e)
        <5>1. Up(e.job)'
          BY <1>7, <2>3, <3>1, <4>2, FenceReported DEF Worked
        <5>2. Rear(<<e>>)
          BY <1>0, RearIs DEF Sorts
        <5>3. \A x \in Elems(worker'.todo) : x = e
          BY <3>1, ElemsFew
        <5> QED BY <3>1, <5>1, <5>2, <5>3 DEF FenceAtWorker
      <4> QED BY <4>1, <4>2
    <3> QED BY <1>4, <2>3, <3>1 DEF WorkerReports
  <2> QED BY <1>4, <1>5, <1>7, <2>1, <2>2, <2>3
          DEF Worked, WorkerSends, WorkerHears, WorkerEnds, WorkerSpawns
<1>8. CASE ~Worked
  <2>1. worker'.todo = worker.todo \/ worker'.todo = <<>>
    BY <1>8 DEF Step, Translates, TtsMoves, HearsFence, HearsEvent, HearsSpeech, TakesFrame, FrameEffect,
                SendsJob, SendsSpeech, SendsOut, Closes, Skips, Exits, Ends, Others, Shown
  <2> QED BY <1>3, <1>4, <2>1
<1> QED BY <1>7, <1>8

LEMMA FenceResultsStep ==
    ASSUME OrderInv, Typed', Step, FenceAtWorker, FenceAtResults
    PROVE  FenceAtResults'
<1>0. Sorts /\ Typed
  BY SortsOf DEF OrderInv
<1>1. \A x \in Elems(results) \cup Elems(worker.todo) : x \in Things /\ x.job \in Nat
  <2> HIDE DEF Things
  <2> QED BY <1>0, ElemsOf, JobIsNat DEF Sorts
<1>2. ASSUME NEW x \in Elems(results), Fence(x)
      PROVE  Up(x.job)' /\ Clear(worker'.todo, x.job)
  BY <1>0, <1>1, <1>2, UpStays DEF FenceAtResults
<1>3. CASE WorkerSends
  <2>0. PICK h : h = Head(worker.todo)
    OBVIOUS
  <2>1. /\ results' = Append(results, h) /\ worker.todo # <<>>
        /\ worker'.todo = Tail(worker.todo)
    BY <1>3, <2>0 DEF WorkerSends
  <2>2. h \in Elems(worker.todo) /\ h \in Things /\ Elems(results') = Elems(results) \cup {h}
    BY <1>0, <2>0, <2>1, ElemsOf DEF Sorts
  <2>3. \A x \in Elems(results) : Fence(x) => Free(h.job, x.job)
    BY <2>2 DEF FenceAtResults, Clear
  <2>4. Rear(results')
    BY <1>0, <2>1, <2>2, <2>3, RearIs DEF FenceAtResults, Sorts
  <2>5. Fence(h) => Up(h.job)'
    BY <1>0, <1>1, <2>2, UpStays DEF FenceAtWorker
  <2>6. Fence(h) => Clear(worker'.todo, h.job)
    BY <1>0, <2>0, <2>1, RearIs DEF FenceAtWorker, Sorts
  <2>7. \A x \in Elems(results') : Fence(x) => Up(x.job)' /\ Clear(worker'.todo, x.job)
    BY <1>2, <2>2, <2>5, <2>6
  <2> QED BY <2>4, <2>7 DEF FenceAtResults
<1>4. CASE results # <<>> /\ results' = Tail(results)
  <2>1. Rear(results') /\ \A x \in Elems(results') : x \in Elems(results)
    BY <1>0, <1>4, RearIs, ElemsOf DEF FenceAtResults, Sorts
  <2>2. \A x \in Elems(results') : Fence(x) => Up(x.job)' /\ Clear(worker'.todo, x.job)
    BY <1>2, <2>1
  <2> QED BY <2>1, <2>2 DEF FenceAtResults
<1>5. CASE results' = results
  <2>1. \A x \in Elems(results') : Fence(x) => Up(x.job)' /\ Clear(worker'.todo, x.job)
    BY <1>2, <1>5
  <2> QED BY <1>5, <2>1 DEF FenceAtResults
<1>6. WorkerSends \/ (results # <<>> /\ results' = Tail(results)) \/ results' = results
  BY DEF Step, Worked, WorkerHears, WorkerTakes, WorkerEnds, WorkerBegins, WorkerReports, WorkerSpawns,
         Translates, TtsMoves, HearsFence, HearsEvent, HearsSpeech, TakesFrame, FrameEffect,
         SendsJob, SendsSpeech, SendsOut, Closes, Skips, Exits, Ends, Others, Shown
<1> QED BY <1>3, <1>4, <1>5, <1>6


LEMMA FenceHeard ==
    ASSUME Typed, Typed', Step, HearsFence, FenceAtResults, NEW event, event = Head(results)
    PROVE  event.job \in Nat /\ Flow(event.job)'
<1>0. Sorts
  BY SortsOf
<1>1. /\ results # <<>> /\ results' = Tail(results) /\ Fence(event)
      /\ event \in Elems(results) /\ event \in Things
  <2>1. results # <<>> /\ results' = Tail(results) /\ Fence(event)
    BY DEF HearsFence, Fence
  <2> QED BY <1>0, <2>1, ElemsOf DEF Sorts
<1>2. event.job \in Nat
  BY <1>1, JobIsNat
<1>3. Up(event.job)' /\ Clear(worker'.todo, event.job)
  BY <1>1, <1>2, UpStays DEF FenceAtResults
<1>4. Clear(results', event.job)
  BY <1>0, <1>1, RearIs DEF FenceAtResults, Sorts
<1> QED BY <1>2, <1>3, <1>4 DEF Flow

LEMMA FenceKeptStep ==
    ASSUME Typed, Typed', Step, FenceAtResults, FenceKept
    PROVE  FenceKept'
<1>0. Sorts /\ session.pendingDrain.job \in Nat
  BY SortsOf, JobIsNat DEF Sorts
<1>1. CASE session'.pendingDrain = session.pendingDrain
  <2>1. PICK n : n = session.pendingDrain.job
    OBVIOUS
  <2>2. Fence(session.pendingDrain) => Flow(n)'
    BY <1>0, <2>1, FlowStays DEF FenceKept
  <2> QED BY <1>1, <2>1, <2>2 DEF FenceKept
<1>2. CASE session'.pendingDrain = Blank
  <2>1. ~Fence(Blank)
    BY DEF Fence, Blank, Item
  <2> QED BY <1>2, <2>1 DEF FenceKept
<1>3. CASE HearsFence
  <2>1. PICK event : event = Head(results)
    OBVIOUS
  <2>2. Flow(event.job)'
    BY <1>3, <2>1, FenceHeard
  <2>3. session'.pendingDrain = session.pendingDrain \/ session'.pendingDrain = event
    BY <1>3, <2>1 DEF HearsFence
  <2> QED BY <1>1, <2>2, <2>3 DEF FenceKept
<1>4. CASE HearsSpeech
  BY <1>1, <1>2, <1>4, SpeechElems
<1>5. CASE \/ Worked \/ Translates \/ TtsMoves \/ HearsEvent \/ TakesFrame \/ SendsJob
           \/ SendsSpeech \/ SendsOut \/ Closes \/ Skips \/ Exits \/ Ends \/ UNCHANGED Shown
  <2>1. session'.pendingDrain = session.pendingDrain
    BY <1>5 DEF Worked, Translates, TtsMoves, HearsEvent, TakesFrame, FrameEffect, SendsJob,
                SendsSpeech, SendsOut, Closes, Skips, Exits, Ends, Others, Shown, Passes, Stays, Keeps
  <2> QED BY <1>1, <2>1
<1> QED BY <1>3, <1>4, <1>5 DEF Step

LEMMA MuteSaid == Mute => \A n \in Nat : Said(n)
<1> SUFFICES ASSUME Mute, NEW n \in Nat
             PROVE  Said(n)
  OBVIOUS
<1>1. Blank.job = 0
  BY DEF Blank, Item
<1>2. Free(session.pendingDrain.job, n)
  BY <1>1, FreeIs DEF Mute
<1> QED BY <1>2, ClearFew DEF Mute, Said

LEMMA FenceSendStep ==
    ASSUME Typed, Typed', Step, KindInv, CountInv, CountInv', FenceAtResults, FenceKept, FenceToSend
    PROVE  FenceToSend'
<1>0. Sorts /\ Sorts'
  BY SortsOf
<1>1. ASSUME \A x \in Elems(session'.todo) : ~FenceSent(x)
      PROVE  FenceToSend'
  <2>1. TodoRear(session'.todo)
    BY <1>0, <1>1, TodoIs DEF Sorts
  <2> QED BY <1>1, <2>1 DEF FenceToSend
<1>2. ASSUME TodoRear(session.todo) => TodoRear(session'.todo), UNCHANGED generation,
             \A x \in Elems(session'.todo) : x \in Elems(session.todo)
      PROVE  FenceToSend'
  <2>1. ASSUME NEW x \in Elems(session'.todo), FenceSent(x)
        PROVE  /\ Flow(x.item.job)' /\ Said(x.item.job)' /\ x.item.gen = generation'
               /\ \A y \in Elems(session'.todo) : y.op \in {"out", "leave"}
    <3>1. /\ x \in Elems(session.todo) /\ x.item.job \in Nat
      <4>1. x \in Sendings
        BY <1>0, <1>2, <2>1, ElemsOf DEF Sorts
      <4> QED BY <1>2, <4>1, JobIsNat
    <3>2. /\ Flow(x.item.job) /\ Said(x.item.job) /\ x.item.gen = generation
          /\ \A y \in Elems(session.todo) : y.op \in {"out", "leave"}
      BY <2>1, <3>1 DEF FenceToSend
    <3>3. session.todo # <<>> => Head(session.todo).op # "tts"
      BY <1>0, <3>2, TodoIs DEF Sorts
    <3>4. Flow(x.item.job)' /\ Said(x.item.job)'
      BY <3>1, <3>2, <3>3, FlowStays, SaidStays
    <3> QED BY <1>2, <3>2, <3>4
  <2>2. TodoRear(session'.todo)
    BY <1>2 DEF FenceToSend
  <2> QED BY <2>1, <2>2 DEF FenceToSend
<1>3. CASE HearsFence
  <2>1. PICK event : event = Head(results)
    OBVIOUS
  <2>2. event.job \in Nat /\ Flow(event.job)'
    BY <1>3, <2>1, FenceHeard
  <2>3. /\ TodoRear(session'.todo)
        /\ \A x \in Elems(session'.todo) :
              session.pendingTts = 0 /\ (FenceOf(x, event) \/ Leaves(x, event))
    BY <1>3, <2>1, FenceElems
  <2>4. ASSUME session.pendingTts = 0
        PROVE  Mute'
    <3>1. Mute
      BY <1>0, <1>3, <2>4, MuteIs DEF HearsFence
    <3> QED BY <1>3, <2>4, <3>1 DEF HearsFence, Mute
  <2>5. ASSUME NEW x \in Elems(session'.todo), FenceSent(x)
        PROVE  /\ Flow(x.item.job)' /\ Said(x.item.job)' /\ x.item.gen = generation'
               /\ \A y \in Elems(session'.todo) : y.op \in {"out", "leave"}
    <3>1. x.item.job = event.job /\ x.item.gen = generation
      BY <2>3, <2>5 DEF FenceSent, FenceOf, Leaves
    <3>2. Said(x.item.job)'
      <4>1. (Mute => \A n \in Nat : Said(n))'
        BY MuteSaid, PTL
      <4> QED BY <2>2, <2>3, <2>4, <3>1, <4>1
    <3>3. \A y \in Elems(session'.todo) : y.op \in {"out", "leave"}
      BY <2>3 DEF FenceOf, Leaves
    <3>4. generation' = generation
      BY <1>3 DEF HearsFence
    <3> QED BY <2>2, <3>1, <3>2, <3>3, <3>4
  <2> QED BY <2>3, <2>5 DEF FenceToSend
<1>4. CASE HearsSpeech
  <2>1. ~Fence(Head(ttsResults))
    BY <1>0, <1>4, ElemsOf DEF HearsSpeech, KindInv, Sorts
  <2>2. PICK fence : fence = session.pendingDrain
    OBVIOUS
  <2>3. /\ TodoRear(session'.todo)
        /\ \A x \in Elems(session'.todo) :
              \/ x.op = "out" /\ x.item = Head(ttsResults)
              \/ /\ FenceOf(x, fence) \/ Leaves(x, fence)
                 /\ session'.pendingTts = 0
    BY <1>4, <2>1, <2>2, SpeechElems
  <2>4. ASSUME NEW x \in Elems(session'.todo), FenceSent(x)
        PROVE  /\ Flow(x.item.job)' /\ Said(x.item.job)' /\ x.item.gen = generation'
               /\ \A y \in Elems(session'.todo) : y.op \in {"out", "leave"}
    <3>1. /\ x.item.job = fence.job /\ x.item.gen = generation /\ x.item.kind = fence.kind
          /\ session'.pendingTts = 0
      BY <2>1, <2>3, <2>4 DEF FenceSent, FenceOf, Leaves
    <3>2. Fence(fence) /\ fence.job \in Nat
      BY <1>0, <2>2, <2>4, <3>1, JobIsNat DEF FenceSent, Fence, Sorts
    <3>3. Flow(fence.job)'
      BY <2>2, <3>2, FlowStays DEF FenceKept
    <3>4. session'.loop = "run" /\ generation' = generation
      BY <1>4 DEF HearsSpeech
    <3>5. Mute'
      <4>1. (Sorts /\ CountInv /\ session.loop = "run" /\ session.pendingTts = 0 => Mute)'
        BY MuteIs, PTL
      <4> QED BY <1>0, <3>1, <3>4, <4>1
    <3>6. Said(x.item.job)'
      <4>1. (Mute => \A n \in Nat : Said(n))'
        BY MuteSaid, PTL
      <4> QED BY <3>1, <3>2, <3>5, <4>1
    <3>7. \A y \in Elems(session'.todo) : y.op \in {"out", "leave"}
      BY <2>3 DEF FenceOf, Leaves
    <3> QED BY <3>1, <3>3, <3>4, <3>6, <3>7
  <2> QED BY <2>3, <2>4 DEF FenceToSend
<1>5. CASE HearsEvent
  BY <1>1, <1>5, EventElems DEF FenceSent
<1>6. CASE TakesFrame \/ Skips
  <2>1. \A x \in Elems(session'.todo) : ~FenceSent(x)
    BY <1>6, FrameElems DEF TakesFrame, Skips, Closing, Elems, FenceSent, Fence
  <2> QED BY <1>1, <2>1
<1>7. CASE SendsJob \/ SendsSpeech \/ SendsOut \/ Closes
  <2>1. Passing /\ UNCHANGED generation
    BY <1>7 DEF SendsJob, SendsSpeech, SendsOut, Closes, Passing, Others
  <2> QED BY <1>0, <1>2, <2>1, PassIs
<1>8. CASE Exits
  BY <1>1, <1>8, ElemsFew DEF Exits
<1>9. CASE Worked \/ Translates \/ TtsMoves \/ Ends \/ UNCHANGED Shown
  <2>1. session'.todo = session.todo /\ UNCHANGED generation
    BY <1>9 DEF Worked, Translates, TtsMoves, Ends, Shown
  <2> QED BY <1>2, <2>1
<1> QED BY <1>3, <1>4, <1>5, <1>6, <1>7, <1>8, <1>9 DEF Step

LEMMA FenceOutStep ==
    ASSUME Typed, Typed', Step, FenceToSend, FenceOutside
    PROVE  FenceOutside'
<1>0. Sorts
  BY SortsOf
<1>1. \A x \in Elems(out) : x.job \in Nat
  <2> HIDE DEF Things
  <2> QED BY <1>0, ElemsOf, JobIsNat DEF Sorts
<1>2. ASSUME NEW x \in Elems(out), Fence(x)
      PROVE  Flow(x.job)' /\ Said(x.job)' /\ Idle(x.job)'
  <2>1. Flow(x.job) /\ Said(x.job) /\ Idle(x.job)
    BY <1>2 DEF FenceOutside
  <2>2. session.todo # <<>> /\ Head(session.todo).op = "tts"
           => Free(Head(session.todo).item.job, x.job)
    BY <1>0, <2>1, TodoIs DEF Sorts, Idle
  <2> QED BY <1>1, <2>1, <2>2, FlowStays, SaidStays, IdleStays
<1>3. CASE SendsOut
  <2>0. PICK h : h = Head(session.todo)
    OBVIOUS
  <2>1. Passing /\ out' = Append(out, h.item) /\ h.op = "out"
    BY <1>3, <2>0 DEF SendsOut, Passing, Passes
  <2>2. /\ session.todo # <<>> /\ session'.todo = Tail(session.todo)
        /\ h \in Elems(session.todo) /\ h \in Sendings /\ h.item \in Things
    BY <1>0, <2>0, <2>1, PassIs
  <2>3. Elems(out') = Elems(out) \cup {h.item}
    BY <1>0, <2>1, <2>2, ElemsOf DEF Sorts
  <2>4. \A x \in Elems(out) : Fence(x) => Free(h.item.job, x.job)
    BY <2>1, <2>2 DEF FenceOutside, Idle
  <2>5. Rear(out')
    BY <1>0, <2>1, <2>2, <2>4, RearIs DEF FenceOutside, Sorts
  <2>6. ASSUME Fence(h.item)
        PROVE  Flow(h.item.job)' /\ Said(h.item.job)' /\ Idle(h.item.job)'
    <3>1. FenceSent(h) /\ h.item.job \in Nat
      BY <2>1, <2>2, <2>6, JobIsNat DEF FenceSent
    <3>2. Flow(h.item.job) /\ Said(h.item.job)
      BY <2>2, <3>1 DEF FenceToSend
    <3>3. Flow(h.item.job)' /\ Said(h.item.job)'
      BY <2>0, <2>1, <3>1, <3>2, FlowStays, SaidStays
    <3>4. \A y \in Elems(session'.todo) : Free(y.item.job, h.item.job)
      BY <1>0, <2>0, <2>2, <3>1, TodoIs DEF FenceToSend, Sorts
    <3> QED BY <3>3, <3>4 DEF Idle
  <2>7. \A x \in Elems(out') : Fence(x) => Flow(x.job)' /\ Said(x.job)' /\ Idle(x.job)'
    BY <1>2, <2>3, <2>6
  <2> QED BY <2>5, <2>7 DEF FenceOutside
<1>4. CASE ~SendsOut
  <2>1. out' = out
    BY <1>4 DEF Step, Worked, Translates, TtsMoves, HearsFence, HearsEvent, HearsSpeech, TakesFrame,
                FrameEffect, SendsJob, SendsSpeech, Closes, Skips, Exits, Ends, Others, Shown
  <2>2. \A x \in Elems(out') : Fence(x) => Flow(x.job)' /\ Said(x.job)' /\ Idle(x.job)'
    BY <1>2, <2>1
  <2> QED BY <2>1, <2>2 DEF FenceOutside
<1> QED BY <1>3, <1>4

\* The invariant of the fence: with the order of the stages (OrderInv), where a fence can
\* be (KindInv) and the count of the pending speech (CountInv), a fence at any place of the
\* pipeline has nothing of an earlier job behind it
LineInv == OrderInv /\ KindInv /\ CountInv /\ FenceInv

LEMMA LineStart == Init => LineInv
<1> SUFFICES ASSUME Init
             PROVE  LineInv
  OBVIOUS
<1>1. OrderInv
  BY OrderStart
<1>2. /\ session.todo = <<>> /\ session.pendingDrain = Blank /\ session.pendingTts = 0
      /\ worker.todo = <<>> /\ batch.events = <<>> /\ tts.pc = "recv"
      /\ results = <<>> /\ ttsJobs = <<>> /\ ttsResults = <<>> /\ out = <<>>
  <2> HIDE DEF Blank
  <2> QED BY DEF Init, SessionInit, WorkerInit, TtsInit, NoBatch
<1>3. ~Fence(Blank)
  BY DEF Fence, Blank, Item
<1>4. KindInv
  BY <1>2, ElemsFew DEF KindInv
<1>5. CountInv
  <2>1. ToSpeak(<<>>) = 0 /\ LastSpeech(<<>>) /\ Speaking = 0
    BY <1>2, ElemsFew, EmptyIsSilent DEF ToSpeak, LastSpeech, Speaking
  <2>2. Len(<<>>) = 0
    BY EmptySeq
  <2> QED BY <1>2, <2>1, <2>2 DEF CountInv
<1>6. Rear(<<>>) /\ TodoRear(<<>>)
  BY EmptyIsSilent DEF Rear, TodoRear
<1>7. FenceInv
  BY <1>2, <1>3, <1>6, ElemsFew
     DEF FenceInv, FenceAtWorker, FenceAtResults, FenceKept, FenceToSend, FenceOutside
<1> QED BY <1>1, <1>4, <1>5, <1>7 DEF LineInv

LEMMA LineStep == LineInv /\ [Next]_vars => LineInv'
<1> SUFFICES ASSUME LineInv, [Next]_vars
             PROVE  LineInv'
  OBVIOUS
<1>1. OrderInv /\ OrderInv' /\ Typed /\ Typed'
  BY OrderStep DEF LineInv, OrderInv
<1>2. Step
  BY <1>1, StepIs
<1>3. KindInv' /\ CountInv'
  BY <1>1, <1>2, KindStep, CountStep DEF LineInv
<1>4. FenceInv'
  BY <1>1, <1>2, <1>3, FenceWorkerStep, FenceResultsStep, FenceKeptStep, FenceSendStep, FenceOutStep
     DEF LineInv, FenceInv
<1> QED BY <1>1, <1>3, <1>4 DEF LineInv

\* What the client is told after a fence is of a job taken after it: when a pause or the
\* end of the input is acknowledged, nothing of the jobs before it can follow, neither a
\* window, a translation nor speech (the worker commits before it reports the fence, and
\* the session keeps the fence in pending_drain until the pending speech has come back).
THEOREM FencesAreLast == Spec => []FenceIsLast
<1>1. LineInv => FenceIsLast
  BY DEF LineInv, FenceInv, FenceOutside, Rear, Fence, Free, FenceIsLast
<1> QED BY <1>1, LineStart, LineStep, PTL DEF Spec

-----------------------------------------------------------------------------
(* The end of a session *)

Terminal(x) == x.reason # "paused"

\* A terminal drain is the last job, and no frame is taken after it.
LastJob(x) ==
    x.kind = "drain" /\ Terminal(x) => session.input = "draining" /\ x.job = session.jobCount

\* No job is left, and none can come.
Finished ==
    /\ jobs = <<>> /\ batch.pc = "none" /\ worker.pc \in {"recv", "stopping", "gone"}
    /\ session.input = "draining"
    /\ \A x \in Elems(session.todo) : x.op # "job"

TermFence(x) == Fence(x) /\ Terminal(x)
Final(s) == \A i, j \in DOMAIN s : i < j => ~TermFence(s[i])

JobsLast ==
    /\ \A x \in Elems(jobs) : LastJob(x)
    /\ \A x \in Elems(session.todo) : x.op = "job" => LastJob(x.item)
    /\ Busy => LastJob(worker.job)

EventsLast ==
    /\ Final(worker.todo)
    /\ \A x \in Elems(worker.todo) : TermFence(x) => Finished

ResultsLast ==
    /\ Final(results)
    /\ \A x \in Elems(results) : TermFence(x) => Finished /\ worker.todo = <<>>

KeptLast ==
    TermFence(session.pendingDrain) => Finished /\ worker.todo = <<>> /\ results = <<>>

\* The session leaves its loop for good.
Leaving == session.graceful \/ \E x \in Elems(session.todo) : x.op = "leave"

LeavingLast ==
    Leaving =>
        /\ Finished /\ worker.todo = <<>> /\ results = <<>>
        /\ ttsJobs = <<>> /\ ttsResults = <<>> /\ tts.pc \in {"recv", "gone"}
        /\ \A x \in Elems(session.todo) : x.op \in {"out", "leave"}

EndInv == JobsLast /\ EventsLast /\ ResultsLast /\ KeptLast /\ LeavingLast

LEMMA FinalIs ==
    ASSUME NEW s \in Seq(Things)
    PROVE  /\ \A e \in Things :
                 (\A x \in Elems(s) : ~TermFence(x)) => Final(Append(s, e))
           /\ s # <<>> /\ Final(s) => Final(Tail(s)) /\ (TermFence(Head(s)) => Tail(s) = <<>>)
           /\ Final(<<>>) /\ \A e \in Things : Final(<<e>>)
<1>1. ASSUME NEW e \in Things, \A x \in Elems(s) : ~TermFence(x)
      PROVE  Final(Append(s, e))
  <2> HIDE DEF Things
  <2>1. /\ DOMAIN s = 1..Len(s) /\ Len(s) \in Nat
        /\ DOMAIN Append(s, e) = 1..(Len(s) + 1)
        /\ \A i \in 1..Len(s) : Append(s, e)[i] = s[i]
    BY Appended
  <2>2. \A i \in 1..Len(s) : ~TermFence(s[i])
    BY <1>1, <2>1 DEF Elems
  <2>3. ASSUME NEW i \in 1..(Len(s) + 1), NEW j \in 1..(Len(s) + 1), i < j
        PROVE  i \in 1..Len(s)
    BY <2>1, <2>3
  <2> QED BY <2>1, <2>2, <2>3 DEF Final
<1>2. ASSUME s # <<>>, Final(s)
      PROVE  Final(Tail(s)) /\ (TermFence(Head(s)) => Tail(s) = <<>>)
  <2> HIDE DEF Things
  <2>1. /\ Head(s) = s[1] /\ 1 \in DOMAIN s /\ Tail(s) \in Seq(Things)
        /\ \A i \in DOMAIN Tail(s) : i \in Nat /\ i > 0 /\ i + 1 \in DOMAIN s /\ Tail(s)[i] = s[i + 1]
    BY <1>2, Tailed
  <2>2. \A i \in DOMAIN Tail(s) : 1 < i + 1
    BY <2>1
  <2>3. \A i, j \in DOMAIN Tail(s) : i < j => i + 1 < j + 1
    BY <2>1
  <2>4. Final(Tail(s))
    BY <1>2, <2>1, <2>3 DEF Final
  <2>5. TermFence(Head(s)) => DOMAIN Tail(s) = {}
    BY <1>2, <2>1, <2>2 DEF Final
  <2>6. DOMAIN Tail(s) = {} => Tail(s) = <<>>
    <3>1. Len(Tail(s)) \in Nat /\ DOMAIN Tail(s) = 1..Len(Tail(s))
      BY <2>1, LenProperties
    <3>2. \A n \in Nat : n # 0 => 1 \in 1..n
      OBVIOUS
    <3>3. Len(Tail(s)) # 0 => 1 \in DOMAIN Tail(s)
      BY <3>1, <3>2
    <3> QED BY <2>1, <3>3, Lengths
  <2> QED BY <2>4, <2>5, <2>6
<1>3. Final(<<>>)
  BY EmptyIsSilent DEF Final
<1>4. ASSUME NEW e \in Things
      PROVE  Final(<<e>>)
  <2>1. DOMAIN <<e>> = {1}
    OBVIOUS
  <2> QED BY <2>1 DEF Final
<1> QED BY <1>1, <1>2, <1>3, <1>4

\* Once a terminal drain is queued the frames are over.
LEMMA InputStays ==
    ASSUME Typed, Typed', Step, session.input = "draining"
    PROVE  session'.input = "draining" /\ session'.jobCount = session.jobCount
BY DEF Step, Worked, Translates, TtsMoves, HearsFence, HearsEvent, HearsSpeech, TakesFrame, FrameEffect,
       SendsJob, SendsSpeech, SendsOut, Closes, Skips, Exits, Ends, Others, Shown, Passes, Stays, Keeps

LEMMA LastStays ==
    ASSUME Typed, Typed', Step, NEW x, LastJob(x)
    PROVE  LastJob(x)'
<1>1. CASE x.kind = "drain" /\ Terminal(x)
  <2>1. session'.input = "draining" /\ session'.jobCount = session.jobCount
    BY <1>1, InputStays DEF LastJob
  <2> QED BY <1>1, <2>1 DEF LastJob
<1>2. CASE ~(x.kind = "drain" /\ Terminal(x))
  BY <1>2 DEF LastJob, Terminal
<1> QED BY <1>1, <1>2

LEMMA FinishedStays ==
    ASSUME Typed, Typed', Step, Finished
    PROVE  /\ Finished'
           /\ worker.todo # <<>> => worker'.todo = worker.todo \/ worker'.todo = Tail(worker.todo)
                                    \/ worker'.todo = <<>>
           /\ worker.todo = <<>> => worker'.todo = <<>>
<1>0. Sorts
  BY SortsOf
<1>1. /\ jobs' = <<>> /\ batch'.pc = "none" /\ worker'.pc \in {"recv", "stopping", "gone"}
      /\ worker.todo # <<>> => worker'.todo = worker.todo \/ worker'.todo = Tail(worker.todo)
                               \/ worker'.todo = <<>>
      /\ worker.todo = <<>> => worker'.todo = <<>>
  <2>1. CASE Worked
    BY <2>1 DEF Worked, WorkerSends, WorkerHears, WorkerTakes, WorkerEnds, WorkerBegins,
                WorkerReports, WorkerSpawns, Finished
  <2>2. CASE Translates
    BY <2>2 DEF Translates, Finished
  <2>3. CASE SendsJob
    <3>1. Passing /\ Head(session.todo).op = "job"
      BY <2>3 DEF SendsJob, Passing, Passes
    <3> QED BY <1>0, <3>1, PassIs DEF Finished
  <2>4. CASE Ends
    BY <2>4 DEF Ends, Finished
  <2>5. CASE \/ TtsMoves \/ HearsFence \/ HearsEvent \/ HearsSpeech \/ TakesFrame
             \/ SendsSpeech \/ SendsOut \/ Closes \/ Skips \/ Exits \/ UNCHANGED Shown
    <3>1. UNCHANGED <<worker, batch, jobs>>
      BY <2>5 DEF TtsMoves, HearsFence, HearsEvent, HearsSpeech, TakesFrame, FrameEffect,
                  SendsSpeech, SendsOut, Closes, Skips, Exits, Others, Shown
    <3> QED BY <3>1 DEF Finished
  <2> QED BY <2>1, <2>2, <2>3, <2>4, <2>5 DEF Step
<1>2. \A x \in Elems(session'.todo) : x.op # "job"
  <2>1. CASE HearsFence
    BY <2>1, FenceElems DEF FenceOf, Leaves
  <2>2. CASE HearsEvent
    BY <2>2, EventElems
  <2>3. CASE HearsSpeech
    BY <2>3, SpeechElems DEF FenceOf, Leaves
  <2>4. CASE TakesFrame
    BY <2>4 DEF TakesFrame, FrameEffect, Finished
  <2>5. CASE SendsJob \/ SendsSpeech \/ SendsOut \/ Closes
    BY <1>0, <2>5, PassIs DEF SendsJob, SendsSpeech, SendsOut, Closes, Passing, Finished
  <2>6. CASE Skips
    BY <2>6 DEF Skips, Closing, Elems
  <2>7. CASE Exits
    BY <2>7, ElemsFew DEF Exits
  <2>8. CASE Worked \/ Translates \/ TtsMoves \/ Ends \/ UNCHANGED Shown
    <3>1. session'.todo = session.todo
      BY <2>8 DEF Worked, Translates, TtsMoves, Ends, Shown
    <3> QED BY <3>1 DEF Finished
  <2> QED BY <2>1, <2>2, <2>3, <2>4, <2>5, <2>6, <2>7, <2>8 DEF Step
<1>3. session'.input = "draining"
  BY InputStays DEF Finished
<1> QED BY <1>1, <1>2, <1>3 DEF Finished

LEMMA JobsLastStep ==
    ASSUME Typed, Typed', Step, JobsLast
    PROVE  JobsLast'
<1>0. Sorts
  BY SortsOf
<1>1. \A x \in Elems(jobs') : LastJob(x)'
  <2>1. CASE SendsJob
    <3>0. PICK h : h = Head(session.todo)
      OBVIOUS
    <3>1. Passing /\ h.op = "job" /\ jobs' = Append(jobs, h.item)
      BY <2>1, <3>0 DEF SendsJob, Passing, Passes
    <3>2. LastJob(h.item) /\ h.item \in Things
      BY <1>0, <3>0, <3>1, PassIs DEF JobsLast
    <3>3. Elems(jobs') = Elems(jobs) \cup {h.item}
      BY <1>0, <3>1, <3>2, ElemsOf DEF Sorts
    <3> QED BY <3>2, <3>3, LastStays DEF JobsLast
  <2>2. CASE ~SendsJob
    <3>1. jobs' = jobs \/ jobs' = <<>> \/ (jobs # <<>> /\ jobs' = Tail(jobs))
      BY <2>2 DEF Step, Worked, WorkerSends, WorkerHears, WorkerTakes, WorkerEnds, WorkerBegins,
                  WorkerReports, WorkerSpawns, Translates, TtsMoves, HearsFence, HearsEvent,
                  HearsSpeech, TakesFrame, FrameEffect,
                  SendsSpeech, SendsOut, Closes, Skips, Exits, Ends, Others, Shown
    <3>2. \A x \in Elems(jobs') : x \in Elems(jobs)
      <4>1. jobs # <<>> => Elems(jobs) = {Head(jobs)} \cup Elems(Tail(jobs))
        BY <1>0, ElemsOf DEF Sorts
      <4> QED BY <3>1, <4>1, ElemsFew
    <3> QED BY <3>2, LastStays DEF JobsLast
  <2> QED BY <2>1, <2>2
<1>2. \A x \in Elems(session'.todo) : x.op = "job" => LastJob(x.item)'
  <2>1. CASE TakesFrame
    <3>1. PICK request : Frameable(request) /\ FrameEffect(request)
      BY <2>1 DEF TakesFrame
    <3>2. ASSUME NEW x \in Elems(session'.todo), x.op = "job"
          PROVE  LastJob(x.item)'
      <4>1. x.item.kind = "drain" =>
              /\ x.item.reason = request.reason /\ x.item.job = session'.jobCount
              /\ request.reason = "paused" \/ session'.input = "draining"
        BY <3>1, <3>2, FrameElems
      <4> QED BY <4>1 DEF LastJob, Terminal
    <3> QED BY <3>2
  <2>2. ASSUME \A x \in Elems(session'.todo) : x.op = "job" => x \in Elems(session.todo)
        PROVE  <1>2!:
    BY <2>2, LastStays DEF JobsLast
  <2>3. CASE HearsFence
    BY <2>2, <2>3, FenceElems DEF FenceOf, Leaves
  <2>4. CASE HearsEvent
    BY <2>2, <2>4, EventElems
  <2>5. CASE HearsSpeech
    BY <2>2, <2>5, SpeechElems DEF FenceOf, Leaves
  <2>6. CASE SendsJob \/ SendsSpeech \/ SendsOut \/ Closes
    BY <1>0, <2>2, <2>6, PassIs DEF SendsJob, SendsSpeech, SendsOut, Closes, Passing
  <2>7. CASE Skips
    BY <2>2, <2>7 DEF Skips, Closing, Elems
  <2>8. CASE Exits
    BY <2>2, <2>8, ElemsFew DEF Exits
  <2>9. CASE Worked \/ Translates \/ TtsMoves \/ Ends \/ UNCHANGED Shown
    <3>1. session'.todo = session.todo
      BY <2>9 DEF Worked, Translates, TtsMoves, Ends, Shown
    <3> QED BY <2>2, <3>1
  <2> QED BY <2>1, <2>3, <2>4, <2>5, <2>6, <2>7, <2>8, <2>9 DEF Step
<1>3. Busy' => LastJob(worker.job)'
  <2>1. CASE WorkerHears
    <3>0. PICK h : h = Head(jobs)
      OBVIOUS
    <3>1. jobs # <<>> /\ (Busy' => worker'.job = h)
      BY <2>1, <3>0 DEF WorkerHears, Busy
    <3>2. LastJob(h)
      BY <1>0, <3>0, <3>1, ElemsOf DEF JobsLast, Sorts
    <3>3. LastJob(h)'
      BY <3>2, LastStays
    <3> QED BY <3>1, <3>3
  <2>2. CASE ~WorkerHears
    <3>0. PICK j : j = worker.job
      OBVIOUS
    <3>1. Busy' => /\ Busy /\ worker'.job.job = j.job /\ worker'.job.kind = j.kind
                   /\ worker'.job.reason = j.reason
      BY <2>2, <3>0 DEF Step, Busy, Worked, WorkerSends, WorkerTakes, WorkerEnds, WorkerBegins,
                  WorkerReports, WorkerSpawns, SameJob, Translates, TtsMoves, HearsFence, HearsEvent,
                  HearsSpeech, TakesFrame, FrameEffect, SendsJob,
                  SendsSpeech, SendsOut, Closes, Skips, Exits, Ends, Others, Shown
    <3>2. Busy' => LastJob(j)'
      BY <3>0, <3>1, LastStays DEF JobsLast
    <3> QED BY <3>1, <3>2 DEF LastJob, Terminal
  <2> QED BY <2>1, <2>2
<1> QED BY <1>1, <1>2, <1>3 DEF JobsLast

LEMMA EventsLastStep ==
    ASSUME OrderInv, Typed', Step, KindInv, JobsLast, EventsLast
    PROVE  EventsLast'
<1>0. Sorts /\ Typed
  BY SortsOf DEF OrderInv
<1>1. Final(<<>>)
  BY <1>0, FinalIs DEF Sorts
<1>2. CASE worker'.todo = <<>>
  BY <1>1, <1>2, ElemsFew DEF EventsLast
<1>3. CASE worker'.todo = worker.todo
  BY <1>0, <1>3, FinishedStays DEF EventsLast
<1>4. CASE worker.todo # <<>> /\ worker'.todo = Tail(worker.todo)
  <2>1. Final(worker'.todo) /\ \A x \in Elems(worker'.todo) : x \in Elems(worker.todo)
    BY <1>0, <1>4, FinalIs, ElemsOf DEF EventsLast, Sorts
  <2> QED BY <1>0, <2>1, FinishedStays DEF EventsLast
<1>5. ASSUME \A x \in Elems(worker'.todo) : ~Fence(x)
      PROVE  EventsLast'
  BY <1>5 DEF EventsLast, Final, TermFence, Elems
<1>6. CASE Worked
  <2>1. CASE WorkerTakes
    BY <1>5, <2>1 DEF WorkerTakes, KindInv, Fence
  <2>2. CASE WorkerBegins
    <3>1. CASE \E e \in Things : worker'.todo = <<e>> /\ e.job = 0 /\ e.kind = "error"
      BY <1>5, <3>1, ElemsFew DEF Fence
    <3> QED BY <1>2, <2>2, <3>1 DEF WorkerBegins
  <2>3. CASE WorkerReports
    <3>1. ASSUME NEW e \in Things, worker'.todo = <<e>>, Says(e)
          PROVE  EventsLast'
      <4>1. CASE ~Fence(e)
        BY <1>5, <3>1, <4>1, ElemsFew
      <4>2. CASE Fence(e)
        <5>1. UNCHANGED session /\ UNCHANGED jobs
          BY <1>6, <2>3 DEF Worked, WorkerReports
        <5>2. /\ ~Busy' /\ batch'.pc = "none"
              /\ \A x \in Elems(jobs) : x.job > e.job /\ x.job <= session.jobCount
              /\ \A x \in Elems(session.todo) :
                    x.op = "job" => x.item.job > e.job /\ x.item.job <= session.jobCount
          BY <2>3, <3>1, <4>2, <5>1, FenceReported
        <5>3. ASSUME Terminal(e)
              PROVE  Finished'
          <6>1. /\ Busy /\ worker'.pc = "recv" /\ e.job = worker.job.job
                /\ worker.job.kind = "drain" /\ e.reason = worker.job.reason
            BY <3>1, <4>2 DEF Says, Fence, Busy
          <6>2. session.input = "draining" /\ e.job = session.jobCount
            BY <5>3, <6>1 DEF JobsLast, LastJob, Terminal
          <6>3. session.jobCount \in Nat /\ \A n \in Nat : ~(n > session.jobCount /\ n <= session.jobCount)
            BY <1>0 DEF Sorts
          <6>4. \A x \in Elems(jobs) : x.job \in Nat
            <7> HIDE DEF Things
            <7> QED BY <1>0, ElemsOf, JobIsNat DEF Sorts
          <6>5. \A x \in Elems(session.todo) : x.item.job \in Nat
            <7>1. \A x \in Elems(session.todo) : x \in Sendings
              BY <1>0, ElemsOf DEF Sorts
            <7> QED BY <7>1, JobIsNat
          <6>6. jobs = <<>>
            <7>1. jobs # <<>> => Head(jobs) \in Elems(jobs)
              BY <1>0, ElemsOf DEF Sorts
            <7> QED BY <5>2, <6>2, <6>3, <6>4, <7>1
          <6>7. \A x \in Elems(session.todo) : x.op # "job"
            BY <5>2, <6>2, <6>3, <6>5
          <6> QED BY <5>1, <5>2, <6>1, <6>2, <6>6, <6>7 DEF Finished
        <5>4. Final(worker'.todo) /\ \A x \in Elems(worker'.todo) : x = e
          BY <1>0, <3>1, FinalIs, ElemsFew DEF Sorts
        <5> QED BY <5>3, <5>4 DEF EventsLast, TermFence
      <4> QED BY <4>1, <4>2
    <3> QED BY <1>2, <2>3, <3>1 DEF WorkerReports
  <2> QED BY <1>2, <1>4, <1>6, <2>1, <2>2, <2>3
          DEF Worked, WorkerSends, WorkerHears, WorkerEnds, WorkerSpawns
<1>7. CASE ~Worked
  <2>1. worker'.todo = worker.todo \/ worker'.todo = <<>>
    BY <1>7 DEF Step, Translates, TtsMoves, HearsFence, HearsEvent, HearsSpeech, TakesFrame, FrameEffect,
                SendsJob, SendsSpeech, SendsOut, Closes, Skips, Exits, Ends, Others, Shown
  <2> QED BY <1>2, <1>3, <2>1
<1> QED BY <1>6, <1>7

LEMMA ResultsLastStep ==
    ASSUME Typed, Typed', Step, EventsLast, ResultsLast
    PROVE  ResultsLast'
<1>0. Sorts
  BY SortsOf
<1>1. ASSUME NEW x \in Elems(results), TermFence(x)
      PROVE  Finished' /\ worker'.todo = <<>>
  BY <1>1, FinishedStays DEF ResultsLast
<1>2. CASE WorkerSends
  <2>0. PICK h : h = Head(worker.todo)
    OBVIOUS
  <2>1. /\ results' = Append(results, h) /\ worker.todo # <<>>
        /\ worker'.todo = Tail(worker.todo)
    BY <1>2, <2>0 DEF WorkerSends
  <2>2. h \in Elems(worker.todo) /\ h \in Things /\ Elems(results') = Elems(results) \cup {h}
    BY <1>0, <2>0, <2>1, ElemsOf DEF Sorts
  <2>3. \A x \in Elems(results) : ~TermFence(x)
    BY <2>1 DEF ResultsLast
  <2>4. Final(results')
    BY <1>0, <2>1, <2>2, <2>3, FinalIs DEF Sorts
  <2>5. TermFence(h) => Finished' /\ worker'.todo = <<>>
    <3>1. TermFence(h) => Tail(worker.todo) = <<>>
      BY <1>0, <2>0, <2>1, FinalIs DEF EventsLast, Sorts
    <3>2. TermFence(h) => Finished'
      BY <2>2, FinishedStays DEF EventsLast
    <3> QED BY <2>1, <3>1, <3>2
  <2> QED BY <2>2, <2>3, <2>4, <2>5 DEF ResultsLast
<1>3. CASE results # <<>> /\ results' = Tail(results)
  <2>1. Final(results') /\ \A x \in Elems(results') : x \in Elems(results)
    BY <1>0, <1>3, FinalIs, ElemsOf DEF ResultsLast, Sorts
  <2> QED BY <1>1, <2>1 DEF ResultsLast
<1>4. CASE results' = results
  BY <1>1, <1>4 DEF ResultsLast
<1>5. WorkerSends \/ (results # <<>> /\ results' = Tail(results)) \/ results' = results
  BY DEF Step, Worked, WorkerHears, WorkerTakes, WorkerEnds, WorkerBegins, WorkerReports, WorkerSpawns,
         Translates, TtsMoves, HearsFence, HearsEvent, HearsSpeech, TakesFrame, FrameEffect,
         SendsJob, SendsSpeech, SendsOut, Closes, Skips, Exits, Ends, Others, Shown
<1> QED BY <1>2, <1>3, <1>4, <1>5

\* What the worker has left behind stays left behind.
LEMMA ResultsStay ==
    ASSUME Step, worker.todo = <<>>, results = <<>>
    PROVE  results' = <<>>
BY DEF Step, Worked, WorkerSends, WorkerHears, WorkerTakes, WorkerEnds, WorkerBegins, WorkerReports,
       WorkerSpawns, Translates, TtsMoves, HearsFence, HearsEvent, HearsSpeech, TakesFrame, FrameEffect,
       SendsJob, SendsSpeech, SendsOut, Closes, Skips, Exits, Ends, Others, Shown

LEMMA FenceHeardLast ==
    ASSUME Typed, Typed', Step, HearsFence, ResultsLast, NEW event, event = Head(results), Terminal(event)
    PROVE  Finished' /\ worker'.todo = <<>> /\ results' = <<>>
<1>0. Sorts
  BY SortsOf
<1>1. /\ results # <<>> /\ results' = Tail(results) /\ TermFence(event)
      /\ event \in Elems(results)
  <2>1. results # <<>> /\ results' = Tail(results) /\ Fence(event)
    BY DEF HearsFence, Fence
  <2> QED BY <1>0, <2>1, ElemsOf DEF Sorts, TermFence
<1>2. Finished /\ worker.todo = <<>>
  BY <1>1 DEF ResultsLast
<1>3. results' = <<>>
  BY <1>0, <1>1, FinalIs DEF ResultsLast, Sorts
<1> QED BY <1>2, <1>3, FinishedStays

LEMMA KeptLastStep ==
    ASSUME Typed, Typed', Step, ResultsLast, KeptLast
    PROVE  KeptLast'
<1>1. CASE session'.pendingDrain = session.pendingDrain
  BY <1>1, FinishedStays, ResultsStay DEF KeptLast
<1>2. CASE session'.pendingDrain = Blank
  <2>1. ~TermFence(Blank)
    BY DEF TermFence, Fence, Blank, Item
  <2> QED BY <1>2, <2>1 DEF KeptLast
<1>3. CASE HearsFence
  <2>1. PICK event : event = Head(results)
    OBVIOUS
  <2>2. session'.pendingDrain = session.pendingDrain \/ session'.pendingDrain = event
    BY <1>3, <2>1 DEF HearsFence
  <2>3. CASE session'.pendingDrain = event
    BY <1>3, <2>1, <2>3, FenceHeardLast DEF KeptLast, TermFence
  <2> QED BY <1>1, <2>2, <2>3
<1>4. CASE HearsSpeech
  BY <1>1, <1>2, <1>4, SpeechElems
<1>5. CASE \/ Worked \/ Translates \/ TtsMoves \/ HearsEvent \/ TakesFrame \/ SendsJob
           \/ SendsSpeech \/ SendsOut \/ Closes \/ Skips \/ Exits \/ Ends \/ UNCHANGED Shown
  <2>1. session'.pendingDrain = session.pendingDrain
    BY <1>5 DEF Worked, Translates, TtsMoves, HearsEvent, TakesFrame, FrameEffect, SendsJob,
                SendsSpeech, SendsOut, Closes, Skips, Exits, Ends, Others, Shown, Passes, Stays, Keeps
  <2> QED BY <1>1, <2>1
<1> QED BY <1>3, <1>4, <1>5 DEF Step

LEMMA LeavingLastStep ==
    ASSUME Typed, Typed', Step, KindInv, CountInv, CountInv', ResultsLast, KeptLast, LeavingLast
    PROVE  LeavingLast'
<1>0. Sorts /\ Sorts'
  BY SortsOf
<1>1. CASE Leaving
  <2>1. /\ Finished /\ worker.todo = <<>> /\ results = <<>>
        /\ ttsJobs = <<>> /\ ttsResults = <<>> /\ tts.pc \in {"recv", "gone"}
        /\ \A x \in Elems(session.todo) : x.op \in {"out", "leave"}
    BY <1>1 DEF LeavingLast
  <2>2. Finished' /\ worker'.todo = <<>> /\ results' = <<>>
    BY <2>1, FinishedStays, ResultsStay
  <2>3. \A op \in {"job", "tts", "close"} : session.todo # <<>> => Head(session.todo).op # op
    BY <1>0, <2>1, TodoIs DEF Sorts
  <2>4. ~HearsFence /\ ~HearsEvent /\ ~HearsSpeech /\ ~SendsJob /\ ~SendsSpeech /\ ~Closes /\ ~Skips
    BY <2>1, <2>3 DEF HearsFence, HearsEvent, HearsSpeech, SendsJob, SendsSpeech, Closes, Skips, Passes
  <2>5. ~TakesFrame
    BY <2>1 DEF Finished, TakesFrame, FrameEffect
  <2>6. /\ ttsJobs' = <<>> /\ ttsResults' = <<>> /\ tts'.pc \in {"recv", "gone"}
    BY <2>1, <2>4, <2>5 DEF Step, Worked, Translates, TtsMoves, SendsOut, Exits, Ends, Others, Shown
  <2>7. \A x \in Elems(session'.todo) : x.op \in {"out", "leave"}
    <3>1. CASE SendsOut
      BY <1>0, <2>1, <3>1, PassIs DEF SendsOut, Passing
    <3>2. CASE Exits
      BY <3>2, ElemsFew DEF Exits
    <3>3. CASE Worked \/ Translates \/ TtsMoves \/ Ends \/ UNCHANGED Shown
      <4>1. session'.todo = session.todo
        BY <3>3 DEF Worked, Translates, TtsMoves, Ends, Shown
      <4> QED BY <2>1, <4>1
    <3> QED BY <2>4, <2>5, <3>1, <3>2, <3>3 DEF Step
  <2> QED BY <2>2, <2>6, <2>7 DEF LeavingLast
<1>2. CASE ~Leaving
  <2>1. ASSUME session'.graceful = session.graceful,
               \A x \in Elems(session'.todo) : x.op = "leave" => x \in Elems(session.todo)
        PROVE  LeavingLast'
    <3>1. ~Leaving'
      BY <1>2, <2>1 DEF Leaving
    <3> QED BY <3>1 DEF LeavingLast
  <2>2. CASE HearsFence
    <3>1. PICK event : event = Head(results)
      OBVIOUS
    <3>2. \A x \in Elems(session'.todo) :
             session.pendingTts = 0 /\ (FenceOf(x, event) \/ Leaves(x, event))
      BY <2>2, <3>1, FenceElems
    <3>3. session'.graceful = session.graceful /\ UNCHANGED <<tts, ttsJobs, ttsResults>>
      BY <2>2 DEF HearsFence
    <3>4. CASE \E x \in Elems(session'.todo) : x.op = "leave"
      <4>1. Terminal(event) /\ session.pendingTts = 0
        BY <3>2, <3>4 DEF FenceOf, Leaves, Terminal
      <4>2. Finished' /\ worker'.todo = <<>> /\ results' = <<>>
        BY <2>2, <3>1, <4>1, FenceHeardLast
      <4>3. Mute
        BY <1>0, <2>2, <4>1, MuteIs DEF HearsFence
      <4>4. ttsJobs' = <<>> /\ ttsResults' = <<>> /\ tts'.pc \in {"recv", "gone"}
        BY <1>0, <3>3, <4>3 DEF Mute, Sorts, TtsStates
      <4>5. \A x \in Elems(session'.todo) : x.op \in {"out", "leave"}
        BY <3>2 DEF FenceOf, Leaves
      <4> QED BY <4>2, <4>4, <4>5 DEF LeavingLast
    <3> QED BY <2>1, <3>3, <3>4
  <2>3. CASE HearsSpeech
    <3>1. PICK fence : fence = session.pendingDrain
      OBVIOUS
    <3>2. \A x \in Elems(session'.todo) :
              \/ x.op = "out"
              \/ /\ FenceOf(x, fence) \/ Leaves(x, fence)
                 /\ fence # Blank /\ session'.pendingTts = 0
      BY <2>3, <3>1, SpeechElems
    <3>3. /\ session'.graceful = session.graceful /\ session'.loop = "run"
      BY <2>3 DEF HearsSpeech
    <3>4. CASE \E x \in Elems(session'.todo) : x.op = "leave"
      <4>1. Terminal(fence) /\ session'.pendingTts = 0 /\ fence # Blank
        BY <3>2, <3>4 DEF FenceOf, Leaves, Terminal
      <4>2. Finished /\ worker.todo = <<>> /\ results = <<>>
        BY <3>1, <4>1 DEF KindInv, KeptLast, TermFence
      <4>3. Finished' /\ worker'.todo = <<>> /\ results' = <<>>
        BY <4>2, FinishedStays, ResultsStay
      <4>4. Mute'
        <5>1. (Sorts /\ CountInv /\ session.loop = "run" /\ session.pendingTts = 0 => Mute)'
          BY MuteIs, PTL
        <5> QED BY <1>0, <3>3, <4>1, <5>1
      <4>5. ttsJobs' = <<>> /\ ttsResults' = <<>> /\ tts'.pc \in {"recv", "gone"}
        BY <1>0, <4>4 DEF Mute, Sorts, TtsStates
      <4>6. \A x \in Elems(session'.todo) : x.op \in {"out", "leave"}
        BY <3>2 DEF FenceOf, Leaves
      <4> QED BY <4>3, <4>5, <4>6 DEF LeavingLast
    <3> QED BY <2>1, <3>3, <3>4
  <2>4. CASE HearsEvent
    <3>1. \A x \in Elems(session'.todo) : x.op # "leave"
      BY <2>4, EventElems
    <3> QED BY <2>1, <2>4, <3>1 DEF HearsEvent
  <2>5. CASE TakesFrame \/ Skips
    <3>1. \A x \in Elems(session'.todo) : x.op # "leave"
      BY <2>5, FrameElems DEF TakesFrame, Skips, Closing, Elems
    <3>2. session'.graceful = session.graceful
      BY <2>5 DEF TakesFrame, FrameEffect, Skips, Stays
    <3> QED BY <2>1, <3>1, <3>2
  <2>6. CASE SendsJob \/ SendsSpeech \/ SendsOut \/ Closes
    <3>1. Passing
      BY <2>6 DEF SendsJob, SendsSpeech, SendsOut, Closes, Passing
    <3> QED BY <1>0, <2>1, <3>1, PassIs DEF Stays
  <2>7. CASE Exits
    <3>1. session.todo # <<>> => Head(session.todo) \in Elems(session.todo)
      BY <1>0, TodoIs DEF Sorts
    <3>2. session'.graceful = session.graceful /\ session'.todo = <<>>
      BY <1>2, <2>7, <3>1 DEF Exits, Leaving
    <3> QED BY <2>1, <3>2, ElemsFew
  <2>8. CASE Worked \/ Translates \/ TtsMoves \/ Ends \/ UNCHANGED Shown
    <3>1. session'.todo = session.todo /\ session'.graceful = session.graceful
      BY <2>8 DEF Worked, Translates, TtsMoves, Ends, Shown
    <3> QED BY <2>1, <3>1
  <2> QED BY <2>2, <2>3, <2>4, <2>5, <2>6, <2>7, <2>8 DEF Step
<1> QED BY <1>1, <1>2

LEMMA EndStart == Init => EndInv
<1> SUFFICES ASSUME Init
             PROVE  EndInv
  OBVIOUS
<1>1. /\ session.todo = <<>> /\ session.pendingDrain = Blank /\ ~session.graceful
      /\ worker.todo = <<>> /\ worker.pc = "start" /\ results = <<>> /\ jobs = <<>>
  <2> HIDE DEF Blank
  <2> QED BY DEF Init, SessionInit, WorkerInit
<1>2. ~TermFence(Blank)
  BY DEF TermFence, Fence, Blank, Item
<1>3. Final(<<>>)
  BY EmptyIsSilent DEF Final
<1> QED BY <1>1, <1>2, <1>3, ElemsFew
        DEF EndInv, JobsLast, EventsLast, ResultsLast, KeptLast, LeavingLast, Leaving, Busy

LEMMA EndStep == LineInv /\ EndInv /\ [Next]_vars => EndInv'
<1> SUFFICES ASSUME LineInv, EndInv, [Next]_vars
             PROVE  EndInv'
  OBVIOUS
<1>1. LineInv' /\ OrderInv /\ OrderInv' /\ Typed /\ Typed'
  BY LineStep DEF LineInv, OrderInv
<1>2. Step /\ KindInv /\ CountInv /\ CountInv'
  BY <1>1, StepIs DEF LineInv
<1>3. JobsLast'
  BY <1>1, <1>2, JobsLastStep DEF EndInv
<1>4. EventsLast' /\ ResultsLast'
  BY <1>1, <1>2, EventsLastStep, ResultsLastStep DEF EndInv
<1>5. KeptLast' /\ LeavingLast'
  BY <1>1, <1>2, KeptLastStep, LeavingLastStep DEF EndInv
<1> QED BY <1>3, <1>4, <1>5 DEF EndInv

\* When the loop ends by its own fence, there is nothing left of the session: no job, no
\* translation, no result, no speech in the queues of the workers.
THEOREM GracefulEnd == Spec => []GracefulIsQuiescent
<1>1. EndInv => GracefulIsQuiescent
  BY DEF EndInv, LeavingLast, Leaving, Finished, GracefulIsQuiescent
<1> QED BY <1>1, LineStart, LineStep, EndStart, EndStep, PTL DEF Spec

-----------------------------------------------------------------------------
(* Nothing is left behind *)

\* The items the client is sent, and those still on their way to the session
Told(y) == y \in Elems(out) \/ \E a \in Elems(session.todo) : a.op = "out" /\ a.item = y
Made(y) == y \in Elems(results) \/ y \in Elems(worker.todo) \/ y \in Elems(batch.events)

\* Where segment s of job j, of generation g, can be: told, made, or in work
Answered(j, s) ==
    \E y \in Things : Told(y) /\ y.kind \in {"translation", "error"} /\ y.job = j /\ y.seg = s

Translated(j, g, s) ==
    \E y \in Things :
        Made(y) /\ y.kind \in {"translation", "failed"} /\ y.job = j /\ y.gen = g /\ y.seg = s

InWork(j, g, s) ==
    \/ /\ batch.pc = "running" /\ batch.job.job = j /\ batch.job.gen = g
       /\ Len(batch.events) < s /\ s <= batch.job.seg
    \/ worker.pc = "spawn" /\ worker.job.job = j /\ worker.job.gen = g /\ s <= worker.job.seg

Placed(j, g, s) == Answered(j, s) \/ Translated(j, g, s) \/ InWork(j, g, s)

\* Jobs are numbered from 1, and no item is of a generation to come.
Known(x) == x.job > 0 /\ x.gen <= generation
Turn(x) == x.kind = "recognized" /\ (Told(x) \/ Made(x))

KnownInv ==
    /\ \A x \in Elems(jobs) : Known(x)
    /\ \A a \in Elems(session.todo) : a.op = "job" => Known(a.item)
    /\ Busy => Known(worker.job)
    /\ \A x \in Things : Turn(x) => Known(x)

\* What a handler sends after its jobs is of no job.
JobsFirst ==
    \A a, b \in Elems(session.todo) : a.op = "job" /\ b.op = "out" => b.item.job = 0

PlacedInv ==
    session.loop = "run" =>
        \A x \in Things : Turn(x) /\ x.gen = generation =>
            \A s \in 1..x.seg : Placed(x.job, x.gen, s)

CompleteOut ==
    \A x, f \in Elems(out) :
        x.kind = "recognized" /\ Fence(f) /\ x.job < f.job /\ x.gen = f.gen =>
            \A s \in 1..x.seg :
                \E y \in Elems(out) :
                    y.kind \in {"translation", "error"} /\ y.job = x.job /\ y.seg = s

CompleteInv == KnownInv /\ JobsFirst /\ PlacedInv /\ CompleteOut

LEMMA ThingIs ==
    \A x \in Things : x.job \in Nat /\ x.gen \in Nat /\ x.seg \in Nat
BY DEF Things

LEMMA JobsFirstStep ==
    ASSUME Typed, Typed', Step, JobsFirst
    PROVE  JobsFirst'
<1>0. Sorts
  BY SortsOf
<1>1. ASSUME \A x \in Elems(session'.todo) : x.op # "job"
      PROVE  JobsFirst'
  BY <1>1 DEF JobsFirst
<1>2. ASSUME \A x \in Elems(session'.todo) : x \in Elems(session.todo)
      PROVE  JobsFirst'
  BY <1>2 DEF JobsFirst
<1>3. CASE HearsFence
  BY <1>1, <1>3, FenceElems DEF FenceOf, Leaves
<1>4. CASE HearsEvent
  BY <1>1, <1>4, EventElems
<1>5. CASE HearsSpeech
  BY <1>1, <1>5, SpeechElems DEF FenceOf, Leaves
<1>6. CASE TakesFrame
  <2>1. \A x \in Elems(session'.todo) : x.op = "out" => x.item.job = 0
    BY <1>6, FrameElems DEF TakesFrame
  <2> QED BY <2>1 DEF JobsFirst
<1>7. CASE SendsJob \/ SendsSpeech \/ SendsOut \/ Closes
  BY <1>0, <1>2, <1>7, PassIs DEF SendsJob, SendsSpeech, SendsOut, Closes, Passing
<1>8. CASE Skips
  BY <1>1, <1>8 DEF Skips, Closing, Elems
<1>9. CASE Exits
  BY <1>1, <1>9, ElemsFew DEF Exits
<1>10. CASE Worked \/ Translates \/ TtsMoves \/ Ends \/ UNCHANGED Shown
  <2>1. session'.todo = session.todo
    BY <1>10 DEF Worked, Translates, TtsMoves, Ends, Shown
  <2> QED BY <1>2, <2>1
<1> QED BY <1>3, <1>4, <1>5, <1>6, <1>7, <1>8, <1>9, <1>10 DEF Step

\* An event, as the client is told it
TellsOf(x) ==
    /\ HearsEvent /\ Head(results) \in Things /\ Head(results) \in Elems(results)
    /\ x.kind = WrittenAs(Head(results).kind) /\ x.job = Head(results).job
    /\ x.gen = Head(results).gen /\ x.seg = Head(results).seg

LEMMA ToldBefore ==
    ASSUME Typed, Typed', Aside, KindInv, Step, NEW x \in Things, x.kind = "recognized", Told(x)'
    PROVE  Told(x) \/ TellsOf(x)
<1>0. Sorts
  BY SortsOf
<1>1. ASSUME out' = out, NEW a \in Elems(session'.todo), a.op = "out", a.item = x
      PROVE  Told(x) \/ TellsOf(x)
  <2>1. CASE a \in Elems(session.todo)
    BY <1>1, <2>1 DEF Told
  <2>2. CASE HearsFence
    BY <1>1, <2>2, FenceElems DEF FenceOf, Leaves, HearsFence
  <2>3. CASE HearsEvent
    <3>1. Message(a, Head(results)) /\ Head(results) \in Things
      BY <1>1, <2>3, EventElems
    <3>2. Head(results) \in Elems(results)
      BY <1>0, <2>3, ElemsOf DEF HearsEvent, Sorts
    <3> QED BY <1>1, <2>3, <3>1, <3>2 DEF Message, TellsOf
  <2>4. CASE HearsSpeech
    <3>1. \/ x = Head(ttsResults)
          \/ x.kind = session.pendingDrain.kind /\ session.pendingDrain # Blank
      BY <1>1, <2>4, SpeechElems DEF FenceOf, Leaves
    <3>2. ~Ordered(Head(ttsResults))
      <4>1. Head(ttsResults) \in Elems(ttsResults)
        BY <1>0, <2>4, ElemsOf DEF HearsSpeech, Sorts
      <4> QED BY <4>1 DEF Aside, Silent, Elems
    <3> QED BY <3>1, <3>2 DEF Ordered, KindInv, Fence
  <2>5. CASE TakesFrame
    BY <1>1, <2>5, FrameElems DEF TakesFrame
  <2>6. CASE SendsJob \/ SendsSpeech \/ SendsOut \/ Closes
    <3>1. Passing
      BY <2>6 DEF SendsJob, SendsSpeech, SendsOut, Closes, Passing
    <3> QED BY <1>0, <1>1, <2>1, <3>1, PassIs
  <2>7. CASE Skips
    BY <1>1, <2>7 DEF Skips, Closing, Elems
  <2>8. CASE Exits
    BY <1>1, <2>8, ElemsFew DEF Exits
  <2>9. CASE Worked \/ Translates \/ TtsMoves \/ Ends \/ UNCHANGED Shown
    <3>1. session'.todo = session.todo
      BY <2>9 DEF Worked, Translates, TtsMoves, Ends, Shown
    <3> QED BY <1>1, <2>1, <3>1
  <2> QED BY <2>2, <2>3, <2>4, <2>5, <2>6, <2>7, <2>8, <2>9 DEF Step
<1>2. CASE SendsOut
  <2>0. PICK h : h = Head(session.todo)
    OBVIOUS
  <2>1. Passing /\ out' = Append(out, h.item) /\ h.op = "out"
    BY <1>2, <2>0 DEF SendsOut, Passing, Passes
  <2>2. /\ h \in Elems(session.todo) /\ h.item \in Things
        /\ \A a \in Elems(session'.todo) : a \in Elems(session.todo)
    BY <1>0, <2>0, <2>1, PassIs
  <2>3. Elems(out') = Elems(out) \cup {h.item}
    BY <1>0, <2>1, <2>2, ElemsOf DEF Sorts
  <2> QED BY <2>1, <2>2, <2>3 DEF Told
<1>3. CASE ~SendsOut
  <2>1. out' = out
    BY <1>3 DEF Step, Worked, Translates, TtsMoves, HearsFence, HearsEvent, HearsSpeech, TakesFrame,
                FrameEffect, SendsJob, SendsSpeech, Closes, Skips, Exits, Ends, Others, Shown
  <2> QED BY <1>1, <2>1 DEF Told
<1> QED BY <1>2, <1>3

LEMMA ToldStays ==
    ASSUME Typed, Typed', Step, JobsFirst, session'.loop = "run",
           NEW y \in Things, y.job > 0, Told(y)
    PROVE  Told(y)'
<1>0. Sorts
  BY SortsOf
<1>1. CASE SendsOut
  <2>0. PICK h : h = Head(session.todo)
    OBVIOUS
  <2>1. Passing /\ out' = Append(out, h.item) /\ h.op = "out"
    BY <1>1, <2>0 DEF SendsOut, Passing, Passes
  <2>2. /\ h \in Elems(session.todo) /\ h.item \in Things
        /\ session.todo # <<>> /\ session'.todo = Tail(session.todo)
    BY <1>0, <2>0, <2>1, PassIs
  <2>3. Elems(out') = Elems(out) \cup {h.item}
    BY <1>0, <2>1, <2>2, ElemsOf DEF Sorts
  <2>4. Elems(session.todo) = {h} \cup Elems(session'.todo)
    BY <1>0, <2>0, <2>2, ElemsOf DEF Sorts
  <2> QED BY <2>1, <2>2, <2>3, <2>4 DEF Told
<1>2. CASE ~SendsOut
  <2>1. out' = out
    BY <1>2 DEF Step, Worked, Translates, TtsMoves, HearsFence, HearsEvent, HearsSpeech, TakesFrame,
                FrameEffect, SendsJob, SendsSpeech, Closes, Skips, Exits, Ends, Others, Shown
  <2>2. ASSUME NEW a \in Elems(session.todo), a.op = "out", a.item = y
        PROVE  a \in Elems(session'.todo)
    <3>1. session.todo # <<>>
      BY <2>2, ElemsFew
    <3>2. CASE HearsFence \/ HearsEvent \/ HearsSpeech \/ TakesFrame \/ Exits \/ Ends
      BY <3>1, <3>2 DEF HearsFence, HearsEvent, HearsSpeech, TakesFrame, FrameEffect, Exits, Ends
    <3>3. CASE SendsJob \/ SendsSpeech \/ Closes
      <4>1. PICK h : h = Head(session.todo)
        OBVIOUS
      <4>2. Passing /\ h.op # "out"
        BY <3>3, <4>1 DEF SendsJob, SendsSpeech, Closes, Passing, Passes
      <4>3. session'.todo = Tail(session.todo)
        BY <1>0, <4>2, PassIs
      <4>4. Elems(session.todo) = {h} \cup Elems(session'.todo)
        BY <1>0, <3>1, <4>1, <4>3, ElemsOf DEF Sorts
      <4> QED BY <2>2, <4>2, <4>4
    <3>4. CASE Skips
      <4>1. PICK h : h = Head(session.todo)
        OBVIOUS
      <4>2. h \in Elems(session.todo) /\ h.op = "job"
        BY <1>0, <3>4, <4>1, ElemsOf DEF Skips, Sorts
      <4> QED BY <2>2, <4>2 DEF JobsFirst
    <3>5. CASE Worked \/ Translates \/ TtsMoves \/ UNCHANGED Shown
      <4>1. session'.todo = session.todo
        BY <3>5 DEF Worked, Translates, TtsMoves, Shown
      <4> QED BY <2>2, <4>1
    <3> QED BY <1>2, <3>2, <3>3, <3>4, <3>5 DEF Step
  <2> QED BY <2>1, <2>2 DEF Told
<1> QED BY <1>1, <1>2

LEMMA MadeBefore ==
    ASSUME Typed, Step, NEW x \in Things, x.kind = "recognized", Made(x)'
    PROVE  Made(x) \/ (WorkerReports /\ Says(x))
<1>0. Sorts
  BY SortsOf
<1>1. CASE WorkerSends
  <2>0. PICK h : h = Head(worker.todo)
    OBVIOUS
  <2>1. /\ results' = Append(results, h) /\ worker.todo # <<>>
        /\ worker'.todo = Tail(worker.todo) /\ UNCHANGED batch
    BY <1>1, <2>0 DEF WorkerSends
  <2>2. /\ h \in Things /\ Elems(results') = Elems(results) \cup {h}
        /\ Elems(worker.todo) = {h} \cup Elems(worker'.todo)
    BY <1>0, <2>0, <2>1, ElemsOf DEF Sorts
  <2> QED BY <2>1, <2>2 DEF Made
<1>2. CASE WorkerTakes
  <2>1. worker'.todo = batch.events /\ batch'.events = <<>> /\ UNCHANGED results
    BY <1>2 DEF WorkerTakes, NoBatch
  <2> QED BY <2>1, ElemsFew DEF Made
<1>3. CASE WorkerReports
  <2>1. UNCHANGED <<batch, results>>
    BY <1>3 DEF WorkerReports
  <2>2. Elems(worker'.todo) = {} \/ \E e \in Things : Elems(worker'.todo) = {e} /\ Says(e)
    <3>1. CASE worker'.todo = <<>>
      BY <3>1, ElemsFew
    <3>2. ASSUME NEW e \in Things, worker'.todo = <<e>>, Says(e)
          PROVE  Elems(worker'.todo) = {e}
      BY <3>2, ElemsFew
    <3> QED BY <1>3, <3>1, <3>2 DEF WorkerReports
  <2> HIDE DEF WorkerReports
  <2> QED BY <1>3, <2>1, <2>2 DEF Made
<1>4. CASE WorkerHears \/ WorkerEnds \/ WorkerSpawns
  <2>1. /\ worker'.todo = <<>> /\ UNCHANGED results
        /\ batch'.events = batch.events \/ batch'.events = <<>>
    BY <1>4 DEF WorkerHears, WorkerEnds, WorkerSpawns
  <2> QED BY <2>1, ElemsFew DEF Made
<1>5. CASE WorkerBegins
  <2>1. UNCHANGED <<batch, results>>
    BY <1>5 DEF WorkerBegins
  <2>2. Elems(worker'.todo) = {} \/ \E e \in Things : Elems(worker'.todo) = {e} /\ e.kind = "error"
    <3>1. CASE worker'.todo = <<>>
      BY <3>1, ElemsFew
    <3>2. ASSUME NEW e \in Things, worker'.todo = <<e>>
          PROVE  Elems(worker'.todo) = {e}
      BY <3>2, ElemsFew
    <3> QED BY <1>5, <3>1, <3>2 DEF WorkerBegins
  <2> QED BY <2>1, <2>2 DEF Made
<1>6. CASE Translates
  <2>1. UNCHANGED <<results, worker>>
    BY <1>6 DEF Translates
  <2>2. batch'.events = batch.events
        \/ \E e \in Things : batch'.events = Append(batch.events, e) /\ e.kind # "recognized"
    BY <1>6 DEF Translates
  <2>3. \A e \in Things : Elems(Append(batch.events, e)) = Elems(batch.events) \cup {e}
    BY <1>0, ElemsOf DEF Sorts
  <2> QED BY <2>1, <2>2, <2>3 DEF Made
<1>7. CASE HearsFence \/ HearsEvent
  <2>1. results # <<>> /\ results' = Tail(results) /\ UNCHANGED <<worker, batch>>
    BY <1>7 DEF HearsFence, HearsEvent
  <2>2. Elems(results) = {Head(results)} \cup Elems(results')
    BY <1>0, <2>1, ElemsOf DEF Sorts
  <2> QED BY <2>1, <2>2 DEF Made
<1>8. CASE Ends
  BY <1>8, ElemsFew DEF Ends, Made
<1>9. CASE \/ TtsMoves \/ HearsSpeech \/ TakesFrame \/ SendsJob \/ SendsSpeech \/ SendsOut
           \/ Closes \/ Skips \/ Exits \/ UNCHANGED Shown
  <2>1. UNCHANGED <<results, worker, batch>>
    BY <1>9 DEF TtsMoves, HearsSpeech, TakesFrame, FrameEffect, SendsJob, SendsSpeech, SendsOut,
                Closes, Skips, Exits, Others, Shown
  <2> QED BY <2>1 DEF Made
<1> QED BY <1>1, <1>2, <1>3, <1>4, <1>5, <1>6, <1>7, <1>8, <1>9 DEF Step, Worked

LEMMA MadeStays ==
    ASSUME OrderInv, Step, session'.loop = "run",
           NEW y \in Things, y.kind # "drained", Made(y)
    PROVE  Made(y)' \/ (HearsEvent /\ y = Head(results))
<1>0. Sorts
  BY SortsOf DEF OrderInv
<1>1. CASE WorkerSends
  <2>0. PICK h : h = Head(worker.todo)
    OBVIOUS
  <2>1. /\ results' = Append(results, h) /\ worker.todo # <<>>
        /\ worker'.todo = Tail(worker.todo) /\ UNCHANGED batch
    BY <1>1, <2>0 DEF WorkerSends
  <2>2. /\ h \in Things /\ Elems(results') = Elems(results) \cup {h}
        /\ Elems(worker.todo) = {h} \cup Elems(worker'.todo)
    BY <1>0, <2>0, <2>1, ElemsOf DEF Sorts
  <2> QED BY <2>1, <2>2 DEF Made
<1>2. CASE WorkerTakes
  BY <1>2, ElemsFew DEF WorkerTakes, Made
<1>3. CASE WorkerHears \/ WorkerEnds \/ WorkerBegins \/ WorkerReports
  BY <1>3, ElemsFew DEF WorkerHears, WorkerEnds, WorkerBegins, WorkerReports, Made
<1>4. CASE WorkerSpawns
  <2>1. batch.events = <<>> /\ worker.todo = <<>> /\ UNCHANGED results
    BY <1>4 DEF WorkerSpawns, OrderInv, Working, Translating
  <2> QED BY <2>1, ElemsFew DEF Made
<1>6. CASE Translates
  <2>1. UNCHANGED <<results, worker>>
    BY <1>6 DEF Translates
  <2>2. batch'.events = batch.events \/ \E e \in Things : batch'.events = Append(batch.events, e)
    BY <1>6 DEF Translates
  <2>3. \A e \in Things : Elems(Append(batch.events, e)) = Elems(batch.events) \cup {e}
    BY <1>0, ElemsOf DEF Sorts
  <2> QED BY <2>1, <2>2, <2>3 DEF Made
<1>7. CASE HearsFence \/ HearsEvent
  <2>1. results # <<>> /\ results' = Tail(results) /\ UNCHANGED <<worker, batch>>
    BY <1>7 DEF HearsFence, HearsEvent
  <2>2. Elems(results) = {Head(results)} \cup Elems(results')
    BY <1>0, <2>1, ElemsOf DEF Sorts
  <2>3. HearsFence => Head(results).kind = "drained"
    BY DEF HearsFence
  <2> QED BY <1>7, <2>1, <2>2, <2>3 DEF Made
<1>8. CASE Ends
  BY <1>8 DEF Ends
<1>9. CASE \/ TtsMoves \/ HearsSpeech \/ TakesFrame \/ SendsJob \/ SendsSpeech \/ SendsOut
           \/ Closes \/ Skips \/ Exits \/ UNCHANGED Shown
  <2>1. UNCHANGED <<results, worker, batch>>
    BY <1>9 DEF TtsMoves, HearsSpeech, TakesFrame, FrameEffect, SendsJob, SendsSpeech, SendsOut,
                Closes, Skips, Exits, Others, Shown
  <2> QED BY <2>1 DEF Made
<1> QED BY <1>1, <1>2, <1>3, <1>4, <1>6, <1>7, <1>8, <1>9 DEF Step, Worked

\* An event of the current generation that is not a window is told.
LEMMA EventTold ==
    ASSUME Typed, Typed', HearsEvent, Head(results).gen = generation,
           Head(results).kind \notin {"window", "drained"}
    PROVE  \E y \in Things :
              /\ Told(y)' /\ y.kind = WrittenAs(Head(results).kind) /\ y.job = Head(results).job
              /\ y.gen = Head(results).gen /\ y.seg = Head(results).seg
<1>1. PICK spoken \in BOOLEAN : Answers(session'.todo, Head(results), spoken)
  BY DEF HearsEvent
<1>2. PICK a \in Sendings :
         /\ Message(a, Head(results))
         /\ session'.todo = <<a>> \/ \E b : session'.todo = <<a, b>>
  BY <1>1 DEF Answers
<1>3. a \in Elems(session'.todo)
  <2>1. CASE session'.todo = <<a>>
    BY <2>1, ElemsFew
  <2>2. ASSUME NEW b, session'.todo = <<a, b>>
        PROVE  a \in Elems(session'.todo)
    BY <2>2, ElemsFew
  <2> QED BY <1>2, <2>1, <2>2
<1>4. PICK y \in Things : y = a.item
  BY JobIsNat
<1>5. Told(y)'
  BY <1>2, <1>3, <1>4 DEF Told, Message
<1> QED BY <1>2, <1>4, <1>5 DEF Message

LEMMA WorkStays ==
    ASSUME OrderInv, Typed', Step, session'.loop = "run", NEW j, NEW g, g = generation,
           NEW s \in Nat, s > 0, InWork(j, g, s)
    PROVE  InWork(j, g, s)' \/ Translated(j, g, s)'
<1>0. Sorts /\ Typed /\ Sorts'
  BY SortsOf DEF OrderInv
<1>1. CASE worker.pc = "spawn" /\ worker.job.job = j /\ worker.job.gen = g /\ s <= worker.job.seg
  <2>1. CASE WorkerSpawns
    <3>1. Len(<<>>) = 0
      BY EmptySeq
    <3> QED BY <1>1, <2>1, <3>1 DEF WorkerSpawns, InWork
  <2>2. CASE ~WorkerSpawns
    <3>1. worker'.pc = worker.pc /\ worker'.job = worker.job
      BY <1>1, <2>2 DEF Step, Worked, WorkerSends, WorkerHears, WorkerTakes, WorkerEnds, WorkerBegins,
                  WorkerReports, Translates, TtsMoves, HearsFence, HearsEvent, HearsSpeech, TakesFrame,
                  FrameEffect, SendsJob, SendsSpeech, SendsOut, Closes, Skips, Exits, Ends, Others, Shown
    <3> QED BY <1>1, <3>1 DEF InWork
  <2> QED BY <2>1, <2>2
<1>2. CASE /\ batch.pc = "running" /\ batch.job.job = j /\ batch.job.gen = g
           /\ Len(batch.events) < s /\ s <= batch.job.seg
  <2>1. CASE Translates
    <3>1. Len(batch.events) \in Nat /\ batch.job.seg \in Nat
      BY <1>0, Lengths, ThingIs DEF Sorts
    <3>2. ~(generation = batch.job.gen => Len(batch.events) >= batch.job.seg)
      BY <1>2, <3>1
    <3>3. batch'.pc = "running" /\ batch'.job = batch.job
      BY <2>1, <3>2 DEF Translates
    <3>4. PICK e \in Things :
             /\ batch'.events = Append(batch.events, e)
             /\ e.job = batch.job.job /\ e.gen = batch.job.gen
             /\ e.kind \in {"translation", "failed"} /\ e.seg = Len(batch.events) + 1
      BY <2>1, <3>3 DEF Translates
    <3>5. /\ Elems(batch'.events) = Elems(batch.events) \cup {e}
          /\ Len(batch'.events) = Len(batch.events) + 1
      BY <1>0, <3>4, ElemsOf, Lengths DEF Sorts
    <3>6. CASE s = Len(batch.events) + 1
      BY <1>2, <3>4, <3>5, <3>6 DEF Translated, Made
    <3>7. CASE s # Len(batch.events) + 1
      <4>1. Len(batch'.events) < s
        BY <1>2, <3>1, <3>5, <3>7
      <4> QED BY <1>2, <3>3, <4>1 DEF InWork
    <3> QED BY <3>6, <3>7
  <2>2. CASE ~Translates
    <3>1. worker.pc # "spawn"
      BY <1>2 DEF OrderInv, Working
    <3>2. UNCHANGED batch
      BY <1>2, <2>2, <3>1 DEF Step, Worked, WorkerSends, WorkerHears, WorkerTakes, WorkerEnds, WorkerBegins,
                  WorkerReports, WorkerSpawns, TtsMoves, HearsFence, HearsEvent, HearsSpeech, TakesFrame,
                  FrameEffect, SendsJob, SendsSpeech, SendsOut, Closes, Skips, Exits, Ends, Others, Shown
    <3> QED BY <1>2, <3>2 DEF InWork
  <2> QED BY <2>1, <2>2
<1> QED BY <1>1, <1>2 DEF InWork

LEMMA PlacedStays ==
    ASSUME OrderInv, Typed', Step, JobsFirst, session'.loop = "run",
           NEW j \in Nat, j > 0, NEW g, g = generation, NEW s \in Nat, s > 0, Placed(j, g, s)
    PROVE  Placed(j, g, s)'
<1>0. Typed
  BY DEF OrderInv
<1>1. CASE Answered(j, s)
  <2>1. PICK y \in Things :
           Told(y) /\ y.kind \in {"translation", "error"} /\ y.job = j /\ y.seg = s
    BY <1>1 DEF Answered
  <2>2. Told(y)'
    BY <1>0, <2>1, ToldStays
  <2> QED BY <2>1, <2>2 DEF Placed, Answered
<1>2. CASE Translated(j, g, s)
  <2>1. PICK y \in Things :
           Made(y) /\ y.kind \in {"translation", "failed"} /\ y.job = j /\ y.gen = g /\ y.seg = s
    BY <1>2 DEF Translated
  <2>2. CASE Made(y)'
    BY <2>1, <2>2 DEF Placed, Translated
  <2>3. CASE HearsEvent /\ y = Head(results)
    <3>1. PICK z \in Things :
              /\ Told(z)' /\ z.kind = WrittenAs(y.kind) /\ z.job = y.job /\ z.seg = y.seg
      BY <1>0, <2>1, <2>3, EventTold
    <3>2. z.kind \in {"translation", "error"}
      BY <2>1, <3>1 DEF WrittenAs
    <3> QED BY <2>1, <3>1, <3>2 DEF Placed, Answered
  <2> QED BY <2>1, <2>2, <2>3, MadeStays
<1>3. CASE InWork(j, g, s)
  BY <1>3, WorkStays DEF Placed
<1> QED BY <1>1, <1>2, <1>3 DEF Placed

LEMMA GenerationStays ==
    ASSUME Typed, Typed', Step
    PROVE  /\ generation <= generation'
           /\ \A x \in Things : Known(x) => Known(x)'
<1>1. generation \in Nat /\ generation' \in Nat
  BY DEF Typed
<1>2. generation <= generation'
  <2>1. CASE TakesFrame
    BY <2>1 DEF TakesFrame, FrameEffect
  <2>2. CASE ~TakesFrame
    <3>1. generation' = generation
      <4>1. CASE Worked \/ Translates \/ TtsMoves
        BY <4>1 DEF Worked, Translates, TtsMoves
      <4>2. CASE HearsFence \/ HearsEvent \/ HearsSpeech
        BY <4>2 DEF HearsFence, HearsEvent, HearsSpeech
      <4>3. CASE SendsJob \/ SendsSpeech \/ SendsOut \/ Closes \/ Skips
        BY <4>3 DEF SendsJob, SendsSpeech, SendsOut, Closes, Skips, Others
      <4>4. CASE Exits \/ Ends \/ UNCHANGED Shown
        BY <4>4 DEF Exits, Ends, Others, Shown
      <4> QED BY <2>2, <4>1, <4>2, <4>3, <4>4 DEF Step
    <3> QED BY <1>1, <3>1
  <2> QED BY <2>1, <2>2
<1> QED BY <1>1, <1>2, ThingIs DEF Known

\* Only a frame makes new jobs.
LEMMA OldJobs ==
    ASSUME Typed, Typed', Step, ~TakesFrame
    PROVE  \A x \in Elems(session'.todo) : x.op = "job" => x \in Elems(session.todo)
<1>0. Sorts
  BY SortsOf
<1>3. CASE HearsFence
  BY <1>3, FenceElems DEF FenceOf, Leaves
<1>4. CASE HearsEvent
  BY <1>4, EventElems
<1>5. CASE HearsSpeech
  BY <1>5, SpeechElems DEF FenceOf, Leaves
<1>6. CASE SendsJob \/ SendsSpeech \/ SendsOut \/ Closes
  BY <1>0, <1>6, PassIs DEF SendsJob, SendsSpeech, SendsOut, Closes, Passing
<1>7. CASE Skips
  BY <1>7 DEF Skips, Closing, Elems
<1>8. CASE Exits
  BY <1>8, ElemsFew DEF Exits
<1>9. CASE Worked \/ Translates \/ TtsMoves \/ Ends \/ UNCHANGED Shown
  <2>1. session'.todo = session.todo
    BY <1>9 DEF Worked, Translates, TtsMoves, Ends, Shown
  <2> QED BY <2>1
<1> QED BY <1>3, <1>4, <1>5, <1>6, <1>7, <1>8, <1>9 DEF Step

LEMMA TurnBefore ==
    ASSUME OrderInv, Typed', KindInv, Step, NEW x \in Things, Turn(x)'
    PROVE  \/ Turn(x)
           \/ /\ HearsEvent /\ Turn(Head(results)) /\ Head(results) \in Things
              /\ x.job = Head(results).job /\ x.gen = Head(results).gen /\ x.seg = Head(results).seg
           \/ WorkerReports /\ Says(x) /\ x.kind = "recognized"
<1>0. Typed /\ Aside /\ x.kind = "recognized"
  BY DEF OrderInv, Turn
<1>1. CASE Told(x)'
  <2>1. Told(x) \/ TellsOf(x)
    BY <1>0, <1>1, ToldBefore
  <2>2. TellsOf(x) => Turn(Head(results))
    BY <1>0 DEF TellsOf, WrittenAs, Turn, Made
  <2> QED BY <1>0, <2>1, <2>2 DEF Turn, TellsOf
<1>2. CASE Made(x)'
  BY <1>0, <1>2, MadeBefore DEF Turn
<1> QED BY <1>1, <1>2 DEF Turn

LEMMA KnownStep ==
    ASSUME OrderInv, Typed', KindInv, Step, KnownInv
    PROVE  KnownInv'
<1>0. Sorts /\ Typed /\ session.jobCount \in Nat /\ Sorts'
  BY SortsOf DEF OrderInv, Sorts
<1>1. generation <= generation' /\ \A x \in Things : Known(x) => Known(x)'
  BY <1>0, GenerationStays
<1>2. \A x \in Elems(jobs') : Known(x)'
  <2>1. CASE SendsJob
    <3>0. PICK h : h = Head(session.todo)
      OBVIOUS
    <3>1. Passing /\ h.op = "job" /\ jobs' = Append(jobs, h.item)
      BY <2>1, <3>0 DEF SendsJob, Passing, Passes
    <3>2. Known(h.item) /\ h.item \in Things
      BY <1>0, <3>0, <3>1, PassIs DEF KnownInv
    <3>3. Elems(jobs') = Elems(jobs) \cup {h.item} /\ Elems(jobs) \subseteq Things
      <4>1. jobs \in Seq(Things)
        BY <1>0 DEF Sorts
      <4>2. Elems(Append(jobs, h.item)) = Elems(jobs) \cup {h.item} /\ Elems(jobs) \subseteq Things
        BY <3>2, <4>1, ElemsOf
      <4> QED BY <3>1, <4>2
    <3> QED BY <1>1, <3>2, <3>3 DEF KnownInv
  <2>2. CASE ~SendsJob
    <3>1. jobs' = jobs \/ jobs' = <<>> \/ (jobs # <<>> /\ jobs' = Tail(jobs))
      BY <2>2 DEF Step, Worked, WorkerSends, WorkerHears, WorkerTakes, WorkerEnds, WorkerBegins,
                  WorkerReports, WorkerSpawns, Translates, TtsMoves, HearsFence, HearsEvent,
                  HearsSpeech, TakesFrame, FrameEffect,
                  SendsSpeech, SendsOut, Closes, Skips, Exits, Ends, Others, Shown
    <3>2. \A x \in Elems(jobs') : x \in Elems(jobs)
      <4>1. jobs # <<>> => Elems(jobs) = {Head(jobs)} \cup Elems(Tail(jobs))
        BY <1>0, ElemsOf DEF Sorts
      <4> QED BY <3>1, <4>1, ElemsFew
    <3>3. Elems(jobs) \subseteq Things
      BY <1>0, ElemsOf DEF Sorts
    <3> QED BY <1>1, <3>2, <3>3 DEF KnownInv
  <2> QED BY <2>1, <2>2
<1>3. \A a \in Elems(session'.todo) : a.op = "job" => Known(a.item)'
  <2>1. CASE TakesFrame
    <3>1. \A a \in Elems(session'.todo) : a.op = "job" =>
             a.item.job > session.jobCount /\ a.item.gen = generation
      BY <1>0, <2>1, FrameElems DEF TakesFrame
    <3>2. \A a \in Elems(session'.todo) : a.item \in Things
      <4>1. \A a \in Elems(session'.todo) : a \in Sendings
        BY <1>0, ElemsOf DEF Sorts
      <4> QED BY <4>1, JobIsNat
    <3>3. \A n \in Nat : n > session.jobCount => n > 0
      BY <1>0
    <3>4. generation \in Nat
      BY <1>0 DEF Sorts
    <3>5. \A a \in Elems(session'.todo) : a.op = "job" => Known(a.item)
      BY <3>1, <3>2, <3>3, <3>4, ThingIs DEF Known
    <3> QED BY <1>1, <3>2, <3>5
  <2>2. CASE ~TakesFrame
    <3>1. \A a \in Elems(session'.todo) : a.op = "job" => Known(a.item) /\ a \in Sendings
      BY <1>0, <2>2, OldJobs, ElemsOf DEF KnownInv, Sorts
    <3> QED BY <1>1, <3>1, JobIsNat
  <2> QED BY <2>1, <2>2
<1>4. Busy' => Known(worker.job)'
  <2>1. CASE WorkerHears
    <3>0. PICK h : h = Head(jobs)
      OBVIOUS
    <3>1. jobs # <<>> /\ (Busy' => worker'.job = h)
      BY <2>1, <3>0 DEF WorkerHears, Busy
    <3>2. Known(h) /\ h \in Things
      BY <1>0, <3>0, <3>1, ElemsOf DEF KnownInv, Sorts
    <3>3. Known(h)'
      BY <1>1, <3>2
    <3> QED BY <3>1, <3>3 DEF Known
  <2>2. CASE ~WorkerHears
    <3>0. PICK j : j = worker.job
      OBVIOUS
    <3>1. Busy' => Busy /\ worker'.job.job = j.job /\ worker'.job.gen = j.gen
      BY <2>2, <3>0 DEF Step, Busy, Worked, WorkerSends, WorkerTakes, WorkerEnds, WorkerBegins,
                  WorkerReports, WorkerSpawns, SameJob, Translates, TtsMoves, HearsFence, HearsEvent,
                  HearsSpeech, TakesFrame, FrameEffect, SendsJob,
                  SendsSpeech, SendsOut, Closes, Skips, Exits, Ends, Others, Shown
    <3>2. j \in Things
      BY <1>0, <3>0 DEF Sorts
    <3>3. Busy' => Known(j)'
      BY <1>1, <3>0, <3>1, <3>2 DEF KnownInv
    <3> QED BY <3>1, <3>3 DEF Known
  <2> QED BY <2>1, <2>2
<1>5. ASSUME NEW x \in Things, Turn(x)'
      PROVE  Known(x)'
  <2>1. CASE Turn(x)
    BY <1>1, <2>1 DEF KnownInv
  <2>2. ASSUME NEW e \in Things, Turn(e), x.job = e.job, x.gen = e.gen
        PROVE  Known(x)'
    BY <1>1, <2>2 DEF KnownInv, Known
  <2>3. CASE WorkerReports /\ Says(x)
    <3>1. Busy /\ x.job = worker.job.job /\ x.gen = worker.job.gen
      BY <2>3 DEF WorkerReports, Says, Busy
    <3> QED BY <1>1, <3>1 DEF KnownInv, Known
  <2> QED BY <1>5, <2>1, <2>2, <2>3, TurnBefore
<1> QED BY <1>2, <1>3, <1>4, <1>5 DEF KnownInv

LEMMA PlacedStep ==
    ASSUME OrderInv, Typed', KindInv, Step, KnownInv, JobsFirst, PlacedInv
    PROVE  PlacedInv'
<1> SUFFICES ASSUME session'.loop = "run", NEW x \in Things, Turn(x)', x.gen = generation',
                    NEW s \in 1..x.seg
             PROVE  Placed(x.job, x.gen, s)'
  BY DEF PlacedInv
<1>0. /\ Typed /\ generation \in Nat /\ generation' \in Nat /\ generation <= generation'
      /\ s \in Nat /\ s > 0
  <2>1. x.seg \in Nat
    BY ThingIs
  <2> QED BY <2>1, GenerationStays DEF OrderInv, Typed
<1>1. session.loop = "run"
  BY DEF Step, Worked, Translates, TtsMoves, Shown, HearsFence, HearsEvent, HearsSpeech, TakesFrame,
         FrameEffect, SendsJob, SendsSpeech, SendsOut, Closes, Skips, Exits, Ends, Passes, Stays
<1>2. ASSUME NEW e \in Things, Turn(e), x.job = e.job, x.gen = e.gen, x.seg = e.seg
      PROVE  Placed(x.job, x.gen, s)'
  <2>1. PICK j, g : j = x.job /\ g = x.gen
    OBVIOUS
  <2>2. j \in Nat /\ j > 0 /\ g = generation
    BY <1>0, <1>2, <2>1, ThingIs DEF KnownInv, Known
  <2>3. Placed(j, g, s)
    BY <1>1, <1>2, <2>1, <2>2 DEF PlacedInv
  <2>4. Placed(j, g, s)'
    BY <1>0, <2>2, <2>3, PlacedStays
  <2> QED BY <2>1, <2>4
<1>3. CASE WorkerReports /\ Says(x) /\ x.kind = "recognized"
  <2>1. /\ worker'.pc = "spawn" /\ worker'.job.job = x.job /\ worker'.job.gen = x.gen
        /\ worker'.job.seg = x.seg
    BY <1>3 DEF WorkerReports, Says, SameJob
  <2>2. s <= x.seg
    BY <1>0, ThingIs
  <2> QED BY <2>1, <2>2 DEF Placed, InWork
<1> QED BY <1>2, <1>3, TurnBefore

LEMMA CompleteOutStep ==
    ASSUME Typed, Typed', Step, FenceToSend, FenceOutside, KnownInv, PlacedInv, CompleteOut
    PROVE  CompleteOut'
<1>0. Sorts
  BY SortsOf
<1>1. CASE ~SendsOut
  <2>1. out' = out
    BY <1>1 DEF Step, Worked, Translates, TtsMoves, HearsFence, HearsEvent, HearsSpeech, TakesFrame,
                FrameEffect, SendsJob, SendsSpeech, Closes, Skips, Exits, Ends, Others, Shown
  <2> QED BY <2>1 DEF CompleteOut
<1>2. CASE SendsOut
  <2>0. PICK h : h = Head(session.todo)
    OBVIOUS
  <2>1. Passing /\ out' = Append(out, h.item) /\ h.op = "out" /\ session.loop = "run"
    BY <1>2, <2>0 DEF SendsOut, Passing, Passes
  <2>2. /\ h \in Elems(session.todo) /\ h.item \in Things
        /\ session.todo # <<>>
    BY <1>0, <2>0, <2>1, PassIs
  <2>3. Elems(out') = Elems(out) \cup {h.item} /\ Elems(out) \subseteq Things
    BY <1>0, <2>1, <2>2, ElemsOf DEF Sorts
  <2>4. ASSUME NEW x \in Elems(out'), NEW f \in Elems(out'), x.kind = "recognized", Fence(f),
               x.job < f.job, x.gen = f.gen, NEW s \in 1..x.seg
        PROVE  \E y \in Elems(out') :
                  y.kind \in {"translation", "error"} /\ y.job = x.job /\ y.seg = s
    <3>0. /\ x \in Things /\ f \in Things /\ x.job \in Nat /\ f.job \in Nat
          /\ x.job > 0 /\ ~Free(x.job, f.job)
      <4>1. x \in Things /\ f \in Things /\ Turn(x)
        BY <2>1, <2>2, <2>3, <2>4 DEF Turn, Told
      <4>2. x.job > 0 /\ x.job \in Nat /\ f.job \in Nat
        BY <4>1, ThingIs DEF KnownInv, Known
      <4> QED BY <2>4, <4>1, <4>2 DEF Free
    <3>1. CASE x \in Elems(out) /\ f \in Elems(out)
      BY <2>3, <2>4, <3>1 DEF CompleteOut
    <3>2. CASE f \in Elems(out) /\ x = h.item
      BY <2>1, <2>2, <2>4, <3>0, <3>2 DEF FenceOutside, Idle
    <3>3. CASE f = h.item
      <4>1. FenceSent(h) /\ x \in Elems(out)
        BY <2>1, <2>3, <2>4, <3>3 DEF FenceSent, Fence
      <4>2. Flow(f.job) /\ f.gen = generation /\ TodoRear(session.todo)
        BY <2>2, <3>3, <4>1 DEF FenceToSend
      <4>3. Turn(x)
        BY <2>4, <4>1 DEF Turn, Told
      <4>4. Placed(x.job, x.gen, s)
        BY <2>1, <2>4, <3>0, <4>2, <4>3 DEF PlacedInv
      <4>5. CASE Answered(x.job, s)
        <5>1. PICK y \in Things :
                 Told(y) /\ y.kind \in {"translation", "error"} /\ y.job = x.job /\ y.seg = s
          BY <4>5 DEF Answered
        <5>2. ASSUME NEW a \in Elems(session.todo), a.item = y
              PROVE  FALSE
          <6>1. a = h \/ a \in Elems(Tail(session.todo))
            BY <1>0, <2>0, <2>2, <5>2, TodoIs DEF Sorts
          <6>2. a # h
            BY <2>4, <3>3, <5>1, <5>2 DEF Fence
          <6>3. \A b \in Elems(Tail(session.todo)) : Free(b.item.job, h.item.job)
            BY <1>0, <2>0, <2>2, <4>1, <4>2, TodoIs DEF Sorts
          <6> QED BY <3>0, <3>3, <5>1, <5>2, <6>1, <6>2, <6>3
        <5> QED BY <2>3, <5>1, <5>2 DEF Told
      <4>6. CASE Translated(x.job, x.gen, s)
        BY <3>0, <4>2, <4>6 DEF Translated, Made, Flow, Up, Clear
      <4>7. CASE InWork(x.job, x.gen, s)
        BY <3>0, <4>2, <4>7 DEF InWork, Flow, Up, Busy
      <4> QED BY <4>4, <4>5, <4>6, <4>7 DEF Placed
    <3> QED BY <2>3, <3>1, <3>2, <3>3
  <2> QED BY <2>4 DEF CompleteOut
<1> QED BY <1>1, <1>2

LEMMA CompleteStart == Init => CompleteInv
<1> SUFFICES ASSUME Init
             PROVE  CompleteInv
  OBVIOUS
<1>1. /\ session.todo = <<>> /\ worker.todo = <<>> /\ worker.pc = "start" /\ batch.events = <<>>
      /\ results = <<>> /\ jobs = <<>> /\ out = <<>>
  <2> HIDE DEF Blank
  <2> QED BY DEF Init, SessionInit, WorkerInit, NoBatch
<1>2. \A x : ~Turn(x)
  BY <1>1, ElemsFew DEF Turn, Told, Made
<1> QED BY <1>1, <1>2, ElemsFew DEF CompleteInv, KnownInv, JobsFirst, PlacedInv, CompleteOut, Busy

LEMMA CompleteStep == LineInv /\ CompleteInv /\ [Next]_vars => CompleteInv'
<1> SUFFICES ASSUME LineInv, CompleteInv, [Next]_vars
             PROVE  CompleteInv'
  OBVIOUS
<1>1. OrderInv /\ OrderInv' /\ Typed /\ Typed' /\ KindInv /\ FenceInv
  BY OrderStep DEF LineInv, OrderInv
<1>2. Step
  BY <1>1, StepIs
<1>3. KnownInv' /\ JobsFirst'
  BY <1>1, <1>2, KnownStep, JobsFirstStep DEF CompleteInv
<1>4. PlacedInv' /\ CompleteOut'
  BY <1>1, <1>2, PlacedStep, CompleteOutStep DEF CompleteInv, FenceInv
<1> QED BY <1>3, <1>4 DEF CompleteInv

LEMMA CompleteMeans == LineInv /\ CompleteInv => FenceIsComplete
<1> SUFFICES ASSUME LineInv, CompleteInv, NEW h \in DOMAIN out, NEW i \in DOMAIN out,
                    out[h].kind = "recognized", out[i].kind = "drained",
                    out[h].job < out[i].job, out[h].gen = out[i].made,
                    out[i].gen = out[i].made, NEW s \in 1..out[h].seg
             PROVE  s \in OutBefore(i, {"translation", "error"}, out[h].job)
  BY DEF FenceIsComplete
<1>1. Sorts /\ Rear(out)
  BY SortsOf DEF LineInv, OrderInv, FenceInv, FenceOutside
<1>2. out[h] \in Elems(out) /\ out[i] \in Elems(out) /\ out[h] \in Things /\ out[i] \in Things
  <2>1. out[h] \in Elems(out) /\ out[i] \in Elems(out)
    BY DEF Elems
  <2> QED BY <1>1, <2>1, ElemsOf DEF Sorts
<1>3. ~Free(out[h].job, out[i].job)
  <2>1. Turn(out[h])
    BY <1>2 DEF Turn, Told
  <2>2. out[h].job > 0 /\ out[h].job \in Nat /\ out[i].job \in Nat
    BY <1>2, <2>1, ThingIs DEF CompleteInv, KnownInv, Known
  <2> QED BY <2>2 DEF Free
<1>4. PICK k \in DOMAIN out :
         out[k].kind \in {"translation", "error"} /\ out[k].job = out[h].job /\ out[k].seg = s
  <2>1. PICK y \in Elems(out) :
           y.kind \in {"translation", "error"} /\ y.job = out[h].job /\ y.seg = s
    BY <1>2 DEF CompleteInv, CompleteOut, Fence
  <2> QED BY <2>1 DEF Elems
<1>5. k \in 1..(i - 1)
  <2>1. DOMAIN out = 1..Len(out) /\ Len(out) \in Nat
    BY <1>1, LenProperties DEF Sorts
  <2>2. ~(i < k)
    BY <1>1, <1>3, <1>4 DEF Rear, Fence
  <2>3. i # k
    BY <1>4
  <2> QED BY <2>1, <2>2, <2>3
<1> QED BY <1>4, <1>5 DEF OutBefore

\* A fence that no reconfiguration overtook (the generation PipelineDrained bears is the
\* one the fence was queued in) confirms everything before it: every segment of every
\* turn that was recognized in its generation, and queued before it, has its translation,
\* or the error of it, told before it.  For all capacities, frames and segments.
THEOREM FencesAreComplete == Spec => []FenceIsComplete
<1>1. Init => CompleteInv /\ LineInv
  BY CompleteStart, LineStart
<1> QED BY <1>1, LineStep, CompleteStep, CompleteMeans, PTL DEF Spec
=============================================================================
