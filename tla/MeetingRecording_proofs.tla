---------------------- MODULE MeetingRecording_proofs ----------------------
(***************************************************************************)
(* What a recording has reported is in its directory from then on, a WAV   *)
(* never changes, and what is finalized or recovered is complete: for      *)
(* every capacity of the queue, and any number of chunks, calls, failures, *)
(* crashes of the process and power losses.                                *)
(*                                                                         *)
(* The steps are first restated as the invariant sees them (the predicates *)
(* Did..., and StepHappens, which says that every step is one of them);    *)
(* each part of the invariant then has one lemma, ...Stays.                *)
(***************************************************************************)
EXTENDS MeetingRecording, SequenceTheorems, TLAPS

FileOps == {"open", "flush", "sync", "examine", "copy", "syncCopy", "rename", "remove"}
PublishOps == {"examine", "copy", "syncCopy", "rename", "remove"}
Steps == [op : FileOps, track : Tracks]
WavStates == {"none", "tmp", "wav"}
Files == [data : Seq(Nat), synced : Nat]
Entries == [part : BOOLEAN, wav : WavStates, pcm : Files, out : Files]
Commands == [kind : Tracks \cup CallKinds, chunk : Nat]
Places == {"idle", "opening", "live", "sending", "waiting", "down", "recovering", "recovered"}
Histories ==
    [chunks : Nat, calls : Nat, crashes : Nat, ioFailed : BOOLEAN, powerLost : BOOLEAN,
     finalized : BOOLEAN, accepted : [Tracks -> Seq(Nat)], asked : [Tracks -> Seq(Nat)],
     reported : [Tracks -> Seq(Nat)]]

FilesTyped ==
    /\ disk \in [Tracks -> Entries]
    /\ buffer \in [Tracks -> Seq(Nat)]
    /\ \A t \in Tracks : /\ disk[t].pcm.synced <= Len(disk[t].pcm.data)
                         /\ disk[t].out.synced <= Len(disk[t].out.data)

Typed ==
    /\ control \in [pc : Places, call : CallKinds \cup {"none"}]
    /\ queue \in Seq(Commands)
    /\ writer \in [pc : {"none", "loop", "serving"}, call : CallKinds \cup {"none"},
                   ok : BOOLEAN]
    /\ work \in Seq(Steps)
    /\ FilesTyped
    /\ durable \in [Tracks -> [part : BOOLEAN, wav : WavStates]]
    /\ past \in Histories

\* The control thread, its call and the writer
Protocol ==
    /\ writer.pc # "none" => control.pc \in {"live", "sending", "waiting"}
    /\ writer.pc = "none" => queue = <<>> /\ \A t \in Tracks : buffer[t] = <<>>
    /\ control.pc = "waiting" => writer.pc # "none"
    /\ control.pc \in {"sending", "waiting"} <=> control.call # "none"
    /\ writer.pc = "serving" => control.pc = "waiting" /\ control.call = writer.call
    /\ \A q \in DOMAIN queue : queue[q].kind \in CallKinds =>
          /\ control.pc = "waiting" /\ control.call = queue[q].kind
          /\ writer.pc = "loop"
          /\ \A r \in DOMAIN queue : queue[r].kind \in CallKinds => r = q
    /\ work # <<>> => \/ control.pc \in {"opening", "recovering"}
                      \/ writer.pc = "serving" /\ writer.ok

\* The operations that remain for a track
TodoIn(steps, t) == {op \in FileOps : \E i \in DOMAIN steps : steps[i] = Step(op, t)}
Todo(t) == TodoIn(work, t)

Rank ==
    [open |-> 0, flush |-> 1, sync |-> 2, examine |-> 3, copy |-> 4, syncCopy |-> 5,
     rename |-> 6, remove |-> 7]

\* What may come after an operation on the same track
Sequel(x, y) == x.track = y.track => x.op # "examine" /\ Rank[x.op] < Rank[y.op]

InPlan(steps) == \A i, j \in DOMAIN steps : i < j => Sequel(steps[i], steps[j])

PlannedOps ==
    IF control.pc = "opening" THEN {"open"}
    ELSE IF control.pc = "recovering" THEN PublishOps
    ELSE {"flush", "sync"} \cup {op \in PublishOps : writer.call = "finalize"}

Planned ==
    /\ InPlan(work)
    /\ \A t \in Tracks :
          /\ Todo(t) \subseteq PlannedOps
          /\ "flush" \in Todo(t) => "sync" \in Todo(t)
          /\ "sync" \in Todo(t) /\ writer.call = "finalize" => "examine" \in Todo(t)
          /\ "copy" \in Todo(t) => "syncCopy" \in Todo(t)
          /\ "syncCopy" \in Todo(t) => "rename" \in Todo(t)
          /\ "rename" \in Todo(t) => "remove" \in Todo(t)

\* The track has a part file that is not published yet.
Recording(t) ==
    \/ writer.pc = "loop"
    \/ /\ writer.pc = "serving"
       /\ writer.call # "finalize" \/ Todo(t) \notin {{}, {"remove"}}

Copied(t) == disk[t].wav = "tmp" /\ disk[t].out.data = disk[t].pcm.data

FiledAt(t) ==
    /\ durable[t].wav = "wav" => Published(t)
    /\ Published(t) => buffer[t] = <<>>
    /\ Recording(t) => disk[t].part /\ ~Published(t)
    /\ control.pc = "opening" =>
          ~Published(t) /\ (writer.ok => disk[t].part \/ "open" \in Todo(t))
    /\ control.pc = "recovering" /\ Todo(t) # {} => disk[t].part
    /\ writer.pc = "serving" /\ writer.ok /\ "flush" \notin Todo(t) => buffer[t] = <<>>
    /\ "copy" \in Todo(t) => ~Published(t)
    /\ "syncCopy" \in Todo(t) /\ "copy" \notin Todo(t) => Copied(t)
    /\ "rename" \in Todo(t) /\ "syncCopy" \notin Todo(t) =>
          Copied(t) /\ disk[t].out.synced = Len(disk[t].out.data)
    /\ "remove" \in Todo(t) /\ "rename" \notin Todo(t) =>
          Published(t) /\ (writer.pc = "serving" => disk[t].out.data = disk[t].pcm.data)

Filed == \A t \in Tracks : FiledAt(t)

\* Chunks are numbered in the order they are accepted in.
Rising(s) == \A i, j \in DOMAIN s : i < j => s[i] < s[j]
Numbered(s, n) == Rising(s) /\ \A i \in DOMAIN s : s[i] <= n

Written(t) == disk[t].pcm.data \o buffer[t]

\* The chunks of `s` that come after those of `w`, and the first n of a queue
After(w, s) == {s[i] : i \in (Len(w) + 1)..Len(s)}
Queued(q, t, n) == {q[j].chunk : j \in {k \in 1..n : q[k].kind = t}}

InOrder(q, t) ==
    \A j, k \in DOMAIN q : j < k /\ q[j].kind = t /\ q[k].kind = t => q[j].chunk < q[k].chunk

\* What was accepted is written, buffered or queued, in this order.
ChainAt(t) ==
    /\ Numbered(past.accepted[t], past.chunks)
    /\ IsPrefix(Written(t), past.accepted[t])
    /\ After(Written(t), past.accepted[t]) = Queued(queue, t, Len(queue))
    /\ InOrder(queue, t)

Chain ==
    \A t \in Tracks : /\ Numbered(disk[t].pcm.data, past.chunks)
                      /\ writer.pc # "none" => ChainAt(t)

\* What a call asks for was accepted before it.
Asked ==
    /\ control.pc = "waiting" =>
          /\ \A t \in Tracks : IsPrefix(past.asked[t], past.accepted[t])
          /\ control.call # "checkpoint" => past.asked = past.accepted
    /\ \A q \in DOMAIN queue : queue[q].kind \in CallKinds =>
          \A t \in Tracks : After(Written(t), past.asked[t]) \subseteq Queued(queue, t, q)

Safe(file) == SubSeq(file.data, 1, file.synced)

\* The audio is on the medium, and will be found by its names.
Keeps(t, audio) ==
    \A names \in {Names(disk)[t], durable[t]} :
        IsPrefix(audio, Held(names, Safe(disk[t].pcm), Safe(disk[t].out)))

\* What is reported is on the medium; what the call that is served has asked for is written,
\* and on the medium once its track is synced.
KeptAudio ==
    \A t \in Tracks :
        /\ Keeps(t, past.reported[t])
        /\ writer.pc = "serving" /\ writer.ok =>
              /\ IsPrefix(past.asked[t], Written(t))
              /\ "sync" \notin Todo(t) => Keeps(t, past.asked[t])

Whole(t) == Published(t) /\ ~disk[t].part /\ disk[t].out.data = past.accepted[t]

Finalized ==
    /\ writer.pc = "serving" /\ writer.ok /\ writer.call = "finalize" =>
          \A t \in Tracks : Todo(t) = {} => Whole(t)
    /\ past.finalized =>
          /\ control.pc \in {"idle", "down", "recovering", "recovered"}
          /\ \A t \in Tracks : Whole(t)

Recoverable ==
    ~past.powerLost => \A t \in Tracks :
        /\ Published(t) /\ disk[t].part => disk[t].out.data = disk[t].pcm.data
        /\ ~past.ioFailed =>
              /\ control.pc = "recovering" /\ disk[t].part => Todo(t) # {}
              /\ control.pc = "recovered" => ~disk[t].part

\* The inductive invariant: where each thread is, which file operations remain and in which
\* state they find the files, where each accepted chunk is, what a call has asked for, and
\* then what the properties say, for the call that is served as well.
IInv ==
    /\ Typed /\ Protocol /\ Planned /\ Filed /\ Chain /\ Asked /\ KeptAudio /\ Finalized
    /\ Recoverable

-----------------------------------------------------------------------------
(* Sequences of audio *)

LEMMA PrefixIs ==
    ASSUME NEW s \in Seq(Nat), NEW r \in Seq(Nat)
    PROVE  IsPrefix(s, r) <=> Len(s) <= Len(r) /\ \A i \in 1..Len(s) : s[i] = r[i]
<1>1. Len(s) \in Nat /\ Len(r) \in Nat
  OBVIOUS
<1>2. ASSUME Len(s) <= Len(r)
      PROVE  /\ \A i \in 1..Len(s) : SubSeq(s, 1, Len(s))[i] = s[i] /\ SubSeq(r, 1, Len(s))[i] = r[i]
             /\ SubSeq(s, 1, Len(s)) \in Seq(Nat) /\ SubSeq(r, 1, Len(s)) \in Seq(Nat)
             /\ Len(SubSeq(s, 1, Len(s))) = Len(s) /\ Len(SubSeq(r, 1, Len(s))) = Len(s)
  BY <1>1, <1>2, SubSeqProperties
<1>3. ASSUME Len(s) <= Len(r), \A i \in 1..Len(s) : s[i] = r[i]
      PROVE  SubSeq(s, 1, Len(s)) = SubSeq(r, 1, Len(s))
  BY <1>1, <1>2, <1>3, SeqEqual
<1> QED BY <1>1, <1>2, <1>3 DEF IsPrefix

LEMMA PrefixTrans ==
    ASSUME NEW r \in Seq(Nat), NEW s \in Seq(Nat), NEW u \in Seq(Nat),
           IsPrefix(r, s), IsPrefix(s, u)
    PROVE  IsPrefix(r, u)
BY PrefixIs

LEMMA PrefixSame ==
    ASSUME NEW r \in Seq(Nat), NEW s \in Seq(Nat), IsPrefix(r, s), IsPrefix(s, r)
    PROVE  r = s
<1>1. Len(r) = Len(s) /\ \A i \in 1..Len(r) : r[i] = s[i]
  BY PrefixIs
<1> QED BY <1>1, SeqEqual

LEMMA PrefixRefl ==
    ASSUME NEW s \in Seq(Nat)
    PROVE  IsPrefix(s, s)
BY PrefixIs

LEMMA Extends ==
    ASSUME NEW s \in Seq(Nat), NEW r \in Seq(Nat)
    PROVE  s \o r \in Seq(Nat) /\ IsPrefix(s, s \o r)
<1>1. /\ s \o r \in Seq(Nat) /\ Len(s \o r) = Len(s) + Len(r)
      /\ \A i \in 1..(Len(s) + Len(r)) : (s \o r)[i] = IF i <= Len(s) THEN s[i] ELSE r[i - Len(s)]
  BY ConcatProperties
<1>2. Len(s) \in Nat /\ Len(r) \in Nat
  OBVIOUS
<1>3. IsPrefix(s, s \o r) <=> Len(s) <= Len(s \o r) /\ \A i \in 1..Len(s) : s[i] = (s \o r)[i]
  BY <1>1, PrefixIs
<1> QED BY <1>1, <1>2, <1>3

\* The synced part of a file
LEMMA SafeIs ==
    ASSUME NEW file \in Files, file.synced <= Len(file.data)
    PROVE  /\ Safe(file) \in Seq(Nat) /\ Len(Safe(file)) = file.synced
           /\ \A i \in 1..file.synced : Safe(file)[i] = file.data[i]
           /\ IsPrefix(Safe(file), file.data)
<1>1. file.data \in Seq(Nat) /\ file.synced \in Nat /\ Len(file.data) \in Nat
  BY DEF Files
<1>2. /\ Safe(file) \in Seq(Nat) /\ Len(Safe(file)) = file.synced
      /\ \A i \in 1..file.synced : Safe(file)[i] = file.data[i]
  BY <1>1, SubSeqProperties DEF Safe
<1> QED BY <1>1, <1>2, PrefixIs

-----------------------------------------------------------------------------
(* What a step does to the files *)

\* The part file may have grown, the rest is as it was.
Grown(t) ==
    /\ disk'[t].part = disk[t].part /\ disk'[t].wav = disk[t].wav
    /\ disk'[t].out = disk[t].out
    /\ disk'[t].pcm.synced = disk[t].pcm.synced
    /\ IsPrefix(disk[t].pcm.data, disk'[t].pcm.data)

LEMMA Cut ==
    ASSUME NEW s \in Seq(Nat), NEW n \in 0..Len(s)
    PROVE  /\ SubSeq(s, 1, n) \in Seq(Nat) /\ SubSeq(s, n + 1, Len(s)) \in Seq(Nat)
           /\ SubSeq(s, 1, n) \o SubSeq(s, n + 1, Len(s)) = s
<1>1. Len(s) \in Nat /\ n \in 1 - 1..Len(s) /\ 1 \in 1..Len(s) + 1 /\ Len(s) \in n..Len(s)
  OBVIOUS
<1>2. SubSeq(s, 1, n) \o SubSeq(s, n + 1, Len(s)) = SubSeq(s, 1, Len(s))
  BY <1>1, ConcatAdjacentSubSeq
<1>3. SubSeq(s, 1, Len(s)) = s
  BY SubSeqFull
<1>4. (\A i \in 1..n : s[i] \in Nat) /\ (\A i \in n + 1..Len(s) : s[i] \in Nat)
  BY <1>1, ElementOfSeq
<1>5. SubSeq(s, 1, n) \in Seq(Nat)
  BY <1>1, <1>4, SubSeqProperties
<1>6. SubSeq(s, n + 1, Len(s)) \in Seq(Nat)
  <2>1. n + 1 \in Int /\ Len(s) \in Int
    BY <1>1
  <2> QED BY <1>4, <2>1, SubSeqProperties
<1> QED BY <1>2, <1>3, <1>5, <1>6

LEMMA Regroup ==
    ASSUME NEW r \in Seq(Nat), NEW s \in Seq(Nat), NEW u \in Seq(Nat)
    PROVE  (r \o s) \o u = r \o (s \o u)
BY ConcatAssociative, SMTT(30)

LEMMA GrowEntry ==
    ASSUME NEW e \in Entries, NEW f, NEW s, f = [e EXCEPT !.pcm.data = @ \o s],
           e.pcm.data \o s \in Seq(Nat)
    PROVE  /\ f \in Entries
           /\ f.pcm.data = e.pcm.data \o s /\ f.pcm.synced = e.pcm.synced
           /\ f.out = e.out /\ f.part = e.part /\ f.wav = e.wav
<1>1. f.pcm = [e.pcm EXCEPT !.data = e.pcm.data \o s]
  BY DEF Entries
<1>2. f.out = e.out /\ f.part = e.part /\ f.wav = e.wav
  BY DEF Entries
<1>3. f.pcm.data = e.pcm.data \o s /\ f.pcm.synced = e.pcm.synced /\ f.pcm \in Files
  BY <1>1 DEF Entries, Files
<1>4. f \in Entries
  BY <1>2, <1>3 DEF Entries
<1> QED BY <1>2, <1>3, <1>4

\* The file of a track takes the beginning `s` of what is pending, and leaves the rest.
LEMMA GrowthIs ==
    ASSUME FilesTyped, NEW k \in Tracks, NEW s \in Seq(Nat), NEW rest \in Seq(Nat),
           disk' = [disk EXCEPT ![k].pcm.data = @ \o s],
           buffer' = [buffer EXCEPT ![k] = rest]
    PROVE  /\ FilesTyped' /\ \A t \in Tracks : Grown(t)
           /\ Written(k)' = disk[k].pcm.data \o (s \o rest)
           /\ \A t \in Tracks \ {k} : Written(t)' = Written(t)
<1>1. /\ disk[k].pcm.data \in Seq(Nat) /\ disk[k].pcm.synced \in Nat
      /\ disk[k].pcm.synced <= Len(disk[k].pcm.data)
  BY DEF FilesTyped, Entries, Files
<1>2. disk[k].pcm.data \o s \in Seq(Nat) /\ IsPrefix(disk[k].pcm.data, disk[k].pcm.data \o s)
  BY <1>1, Extends
<1>3. Len(disk[k].pcm.data \o s) >= Len(disk[k].pcm.data)
  BY <1>1, ConcatProperties
<1>4. /\ disk'[k] = [disk[k] EXCEPT !.pcm.data = @ \o s]
      /\ \A t \in Tracks \ {k} : disk'[t] = disk[t] /\ buffer'[t] = buffer[t]
      /\ buffer'[k] = rest
  BY DEF FilesTyped
<1>5. /\ disk'[k].pcm.data = disk[k].pcm.data \o s /\ disk'[k].pcm.synced = disk[k].pcm.synced
      /\ disk'[k].out = disk[k].out /\ disk'[k].part = disk[k].part
      /\ disk'[k].wav = disk[k].wav
      /\ disk'[k] \in Entries
  <2>1. disk[k] \in Entries
    BY DEF FilesTyped
  <2>2. disk[k].pcm.data \o s \in Seq(Nat)
    BY <1>2
  <2>3. disk'[k] = [disk[k] EXCEPT !.pcm.data = @ \o s]
    BY <1>4
  <2> DEFINE e == disk[k]
             f == disk'[k]
  <2>4. e \in Entries /\ e.pcm.data \o s \in Seq(Nat) /\ f = [e EXCEPT !.pcm.data = @ \o s]
    BY <2>1, <2>2, <2>3
  <2> HIDE DEF e, f
  <2>5. /\ f \in Entries
        /\ f.pcm.data = e.pcm.data \o s /\ f.pcm.synced = e.pcm.synced
        /\ f.out = e.out /\ f.part = e.part /\ f.wav = e.wav
    BY <2>4, GrowEntry, Zenon
  <2> QED BY <2>5 DEF e, f
<1>6. disk' \in [Tracks -> Entries] /\ buffer' \in [Tracks -> Seq(Nat)]
  BY <1>4, <1>5 DEF FilesTyped
<1>7. ASSUME NEW t \in Tracks
      PROVE  /\ disk'[t].pcm.synced <= Len(disk'[t].pcm.data)
             /\ disk'[t].out.synced <= Len(disk'[t].out.data)
             /\ Grown(t)
  <2>1. CASE t = k
    BY <1>1, <1>2, <1>3, <1>5, <2>1 DEF FilesTyped, Grown
  <2>2. CASE t # k
    <3>1. disk[t].pcm.data \in Seq(Nat) /\ disk'[t] = disk[t]
      BY <1>4, <2>2 DEF FilesTyped, Entries, Files
    <3> QED BY <3>1, PrefixRefl DEF FilesTyped, Grown
  <2> QED BY <2>1, <2>2
<1>8. Written(k)' = disk[k].pcm.data \o (s \o rest)
  <2>1. Written(k)' = (disk[k].pcm.data \o s) \o rest
    BY <1>4, <1>5 DEF Written
  <2>2. disk[k].pcm.data \in Seq(Nat) /\ s \in Seq(Nat) /\ rest \in Seq(Nat)
    BY <1>1
  <2>3. (disk[k].pcm.data \o s) \o rest = disk[k].pcm.data \o (s \o rest)
    BY <2>2, Regroup
  <2> QED BY <2>1, <2>3, Zenon
<1>9. \A t \in Tracks \ {k} : Written(t)' = Written(t)
  BY <1>4 DEF Written
<1> QED BY <1>6, <1>7, <1>8, <1>9 DEF FilesTyped

LEMMA LeavingIs ==
    ASSUME FilesTyped, WriterLeaves
    PROVE  /\ FilesTyped'
           /\ \A t \in Tracks : Grown(t) /\ IsPrefix(disk'[t].pcm.data, Written(t))
           /\ \A t \in Tracks : buffer'[t] = <<>>
           /\ \A t \in Tracks : buffer[t] = <<>> => disk'[t] = disk[t]
           /\ writer' = NoWriter /\ queue' = <<>>
<1>1. PICK n \in Partly : disk' = Spilled(disk, n)
  BY DEF WriterLeaves
<1>2. ASSUME NEW t \in Tracks
      PROVE  /\ disk'[t] \in Entries
             /\ disk'[t].pcm.synced <= Len(disk'[t].pcm.data)
             /\ disk'[t].out.synced <= Len(disk'[t].out.data)
             /\ Grown(t) /\ IsPrefix(disk'[t].pcm.data, Written(t))
             /\ buffer[t] = <<>> => disk'[t] = disk[t]
  <2> DEFINE s == SubSeq(buffer[t], 1, n[t])
             rest == SubSeq(buffer[t], n[t] + 1, Len(buffer[t]))
  <2>1. n[t] \in 0..Len(buffer[t]) /\ buffer[t] \in Seq(Nat)
    BY <1>1, BoundsAssumption DEF Partly, FilesTyped
  <2>2. s \in Seq(Nat) /\ rest \in Seq(Nat) /\ s \o rest = buffer[t]
    BY <2>1, Cut
  <2>3. disk'[t] = [disk[t] EXCEPT !.pcm.data = @ \o s]
    BY <1>1 DEF Spilled
  <2>4. buffer[t] = <<>> => s = <<>>
    <3>1. buffer[t] = <<>> => n[t] = 0
      BY <2>1
    <3> QED BY <3>1, SubSeqEmpty
  <2> HIDE DEF s, rest
  <2>5. /\ disk[t] \in Entries /\ disk[t].pcm.data \in Seq(Nat) /\ disk[t].pcm.synced \in Nat
        /\ disk[t].pcm.synced <= Len(disk[t].pcm.data)
        /\ disk[t].out.synced <= Len(disk[t].out.data)
    BY DEF FilesTyped, Entries, Files
  <2>6. /\ disk[t].pcm.data \o s \in Seq(Nat) /\ IsPrefix(disk[t].pcm.data, disk[t].pcm.data \o s)
        /\ Len(disk[t].pcm.data \o s) >= Len(disk[t].pcm.data)
    BY <2>2, <2>5, Extends, ConcatProperties
  <2>7. /\ disk'[t].pcm.data = disk[t].pcm.data \o s
        /\ disk'[t].pcm.synced = disk[t].pcm.synced
        /\ disk'[t].out = disk[t].out /\ disk'[t].part = disk[t].part
        /\ disk'[t].wav = disk[t].wav /\ disk'[t] \in Entries
    <3>1. disk[t] \in Entries
      BY <2>5
    <3>2. disk[t].pcm.data \o s \in Seq(Nat)
      BY <2>6
    <3>3. /\ disk'[t] \in Entries
          /\ disk'[t].pcm.data = disk[t].pcm.data \o s /\ disk'[t].pcm.synced = disk[t].pcm.synced
          /\ disk'[t].out = disk[t].out /\ disk'[t].part = disk[t].part
          /\ disk'[t].wav = disk[t].wav
      BY <2>3, <3>1, <3>2, GrowEntry, ZenonT(60)
    <3> QED BY <3>3
  <2>8. s = <<>> => disk'[t] = disk[t]
    <3>1. s = <<>> => disk[t].pcm.data \o s = disk[t].pcm.data
      BY <2>5, ConcatEmptySeq
    <3>2. s = <<>> => disk'[t].pcm = disk[t].pcm
      BY <2>5, <2>7, <3>1 DEF Entries, Files
    <3> QED BY <2>5, <2>7, <3>2 DEF Entries
  <2>9. IsPrefix(disk'[t].pcm.data, Written(t))
    <3>1. (disk[t].pcm.data \o s) \o rest = disk[t].pcm.data \o (s \o rest)
      BY <2>2, <2>5, Regroup
    <3>2. IsPrefix(disk[t].pcm.data \o s, (disk[t].pcm.data \o s) \o rest)
      BY <2>2, <2>6, Extends
    <3>3. (disk[t].pcm.data \o s) \o rest = Written(t)
      BY <2>2, <3>1 DEF Written
    <3> QED BY <2>7, <3>2, <3>3
  <2> QED BY <2>4, <2>5, <2>6, <2>7, <2>8, <2>9 DEF Grown
<1>3. disk' = [t \in Tracks |-> disk'[t]]
  BY <1>1 DEF Spilled
<1>4. buffer' = [t \in Tracks |-> <<>>]
  BY DEF WriterLeaves
<1> QED BY <1>2, <1>3, <1>4 DEF FilesTyped, WriterLeaves

-----------------------------------------------------------------------------
(* What a step does to the operations that remain *)

LEMMA StepIs ==
    ASSUME NEW op \in FileOps, NEW t \in Tracks
    PROVE  Step(op, t) \in Steps /\ Step(op, t).op = op /\ Step(op, t).track = t
BY DEF Step, Steps

LEMMA HeadIs ==
    ASSUME work \in Seq(Steps), work # <<>>
    PROVE  /\ Head(work) \in Steps /\ Track \in Tracks /\ Head(work).op \in FileOps
           /\ Head(work) = Step(Head(work).op, Track)
           /\ Head(work).op \in Todo(Track)
<1>1. Head(work) \in Steps /\ Head(work) = work[1] /\ 1 \in DOMAIN work
  BY HeadTailProperties, EmptySeq
<1>2. Head(work).op \in FileOps /\ Track \in Tracks
  BY <1>1 DEF Steps, Track
<1>3. Head(work) = Step(Head(work).op, Track)
  BY <1>1 DEF Steps, Step, Track
<1> QED BY <1>1, <1>2, <1>3 DEF Todo, TodoIn

LEMMA TailIs ==
    ASSUME work \in Seq(Steps), work # <<>>
    PROVE  /\ Tail(work) \in Seq(Steps)
           /\ \A i \in DOMAIN Tail(work) :
                 i \in Nat /\ i > 0 /\ i + 1 \in DOMAIN work /\ Tail(work)[i] = work[i + 1]
           /\ \A j \in DOMAIN work : j = 1 \/ \E i \in DOMAIN Tail(work) : j = i + 1
           /\ 1 \in DOMAIN work /\ Head(work) = work[1]
<1>1. /\ Tail(work) \in Seq(Steps) /\ Len(Tail(work)) = Len(work) - 1
      /\ \A i \in 1..Len(Tail(work)) : Tail(work)[i] = work[i + 1]
  BY HeadTailProperties
<1>2. Len(work) \in Nat /\ Len(work) > 0 /\ DOMAIN work = 1..Len(work)
      /\ DOMAIN Tail(work) = 1..Len(Tail(work))
  BY <1>1, EmptySeq
<1>3. ASSUME NEW j \in DOMAIN work, j # 1
      PROVE  \E i \in DOMAIN Tail(work) : j = i + 1
  <2>1. j - 1 \in DOMAIN Tail(work) /\ j = (j - 1) + 1
    BY <1>1, <1>2, <1>3
  <2> QED BY <2>1
<1> QED BY <1>1, <1>2, <1>3

\* The operation at hand is done.
LEMMA WorkDone ==
    ASSUME work \in Seq(Steps), work # <<>>, InPlan(work), work' = Tail(work),
           NEW k \in Tracks, NEW x \in FileOps, Head(work) = Step(x, k)
    PROVE  /\ work' \in Seq(Steps) /\ InPlan(work')
           /\ \A t \in Tracks \ {k} : Todo(t)' = Todo(t)
           /\ x \in Todo(k) /\ Todo(k)' = Todo(k) \ {x}
           /\ \A op \in Todo(k)' : x # "examine" /\ Rank[x] < Rank[op]
<1>1. /\ Tail(work) \in Seq(Steps)
      /\ \A i \in DOMAIN Tail(work) :
            i \in Nat /\ i > 0 /\ i + 1 \in DOMAIN work /\ Tail(work)[i] = work[i + 1]
      /\ \A j \in DOMAIN work : j = 1 \/ \E i \in DOMAIN Tail(work) : j = i + 1
      /\ 1 \in DOMAIN work /\ work[1] = Step(x, k)
  BY TailIs
<1>2. Step(x, k) \in Steps /\ Step(x, k).op = x /\ Step(x, k).track = k
  BY StepIs
<1>3. InPlan(work')
  <2>1. ASSUME NEW i \in DOMAIN Tail(work), NEW j \in DOMAIN Tail(work), i < j
        PROVE  Sequel(Tail(work)[i], Tail(work)[j])
    <3>1. i + 1 < j + 1
      BY <1>1, <2>1
    <3> QED BY <1>1, <2>1, <3>1 DEF InPlan
  <2> QED BY <2>1 DEF InPlan
<1>4. ASSUME NEW i \in DOMAIN Tail(work)
      PROVE  Sequel(Step(x, k), Tail(work)[i])
  <2>1. 1 < i + 1
    BY <1>1
  <2> QED BY <1>1, <2>1 DEF InPlan
<1>5. \A t \in Tracks : Todo(t)' = {op \in FileOps : \E i \in DOMAIN Tail(work) : Tail(work)[i] = Step(op, t)}
  BY DEF Todo, TodoIn
<1>6. \A t \in Tracks, op \in FileOps :
         op \in Todo(t) <=> Step(x, k) = Step(op, t) \/ op \in Todo(t)'
  <2>1. ASSUME NEW t \in Tracks, NEW op \in FileOps
        PROVE  (\E j \in DOMAIN work : work[j] = Step(op, t))
                 <=> Step(x, k) = Step(op, t) \/ \E i \in DOMAIN Tail(work) : Tail(work)[i] = Step(op, t)
    BY <1>1
  <2> QED BY <1>5, <2>1 DEF Todo, TodoIn
<1>7. \A t \in Tracks, op \in FileOps : Step(x, k) = Step(op, t) <=> op = x /\ t = k
  BY <1>2, StepIs
<1>10. \A t \in Tracks : Todo(t) \subseteq FileOps /\ Todo(t)' \subseteq FileOps
  BY DEF Todo, TodoIn
<1>8. ASSUME NEW op \in Todo(k)'
      PROVE  x # "examine" /\ Rank[x] < Rank[op]
  <2>1. op \in FileOps
    BY <1>10
  <2>2. PICK i \in DOMAIN Tail(work) : Tail(work)[i] = Step(op, k)
    BY <1>5
  <2>3. Sequel(Step(x, k), Step(op, k))
    BY <1>4, <2>2
  <2> QED BY <1>2, <2>1, <2>3, StepIs DEF Sequel
<1>9. x \notin Todo(k)'
  <2>1. ~(Rank[x] < Rank[x])
    <3>1. Rank[x] \in Nat
      BY DEF Rank, FileOps
    <3> QED BY <3>1
  <2> QED BY <1>8, <2>1
<1>11. ASSUME NEW t \in Tracks \ {k}
       PROVE  Todo(t)' = Todo(t)
  BY <1>6, <1>7, <1>10
<1>12. Todo(k)' = Todo(k) \ {x}
  BY <1>6, <1>7, <1>9, <1>10
<1> QED BY <1>1, <1>3, <1>6, <1>8, <1>11, <1>12

LEMMA WorkOver ==
    ASSUME work' = <<>>
    PROVE  work' \in Seq(Steps) /\ InPlan(work') /\ \A t \in Tracks : Todo(t)' = {}
<1>1. DOMAIN work' = {} /\ work' \in Seq(Steps)
  BY EmptySeq
<1> QED BY <1>1 DEF InPlan, Todo, TodoIn

\* The examination of a track is followed by what it asks for.
LEMMA WorkAsked ==
    ASSUME work \in Seq(Steps), work # <<>>, InPlan(work),
           NEW k \in Tracks, Head(work) = Step("examine", k),
           NEW steps \in Seq(Steps), InPlan(steps),
           \A i \in DOMAIN steps : steps[i].track = k,
           work' = steps \o Tail(work)
    PROVE  /\ work' \in Seq(Steps) /\ InPlan(work')
           /\ \A t \in Tracks \ {k} : Todo(t)' = Todo(t)
           /\ Todo(k) = {"examine"}
           /\ Todo(k)' = {op \in FileOps : \E i \in DOMAIN steps : steps[i] = Step(op, k)}
<1>1. /\ Tail(work) \in Seq(Steps)
      /\ \A i \in DOMAIN Tail(work) :
            i \in Nat /\ i > 0 /\ i + 1 \in DOMAIN work /\ Tail(work)[i] = work[i + 1]
      /\ \A j \in DOMAIN work : j = 1 \/ \E i \in DOMAIN Tail(work) : j = i + 1
      /\ 1 \in DOMAIN work /\ work[1] = Step("examine", k)
  BY TailIs
<1>2. /\ "examine" \in FileOps
      /\ Step("examine", k).op = "examine" /\ Step("examine", k).track = k
  BY StepIs DEF FileOps
<1>3. ASSUME NEW i \in DOMAIN Tail(work)
      PROVE  Tail(work)[i].track # k
  <2>1. 1 < i + 1
    BY <1>1
  <2>2. Sequel(Step("examine", k), Tail(work)[i])
    BY <1>1, <2>1 DEF InPlan
  <2> QED BY <1>2, <2>2 DEF Sequel
<1>4. /\ steps \o Tail(work) \in Seq(Steps)
      /\ Len(steps \o Tail(work)) = Len(steps) + Len(Tail(work))
      /\ \A i \in 1..(Len(steps) + Len(Tail(work))) :
            (steps \o Tail(work))[i] = IF i <= Len(steps) THEN steps[i] ELSE Tail(work)[i - Len(steps)]
  BY <1>1, ConcatProperties
<1>5. /\ Len(steps) \in Nat /\ Len(Tail(work)) \in Nat /\ DOMAIN steps = 1..Len(steps)
      /\ DOMAIN Tail(work) = 1..Len(Tail(work))
      /\ DOMAIN work' = 1..(Len(steps) + Len(Tail(work)))
  BY <1>1, <1>4
<1>6. \A i \in DOMAIN work' : \/ i \in DOMAIN steps /\ work'[i] = steps[i]
                              \/ /\ i > Len(steps) /\ i - Len(steps) \in DOMAIN Tail(work)
                                 /\ work'[i] = Tail(work)[i - Len(steps)]
  BY <1>4, <1>5
<1>7. InPlan(work')
  <2>1. ASSUME NEW i \in DOMAIN work', NEW j \in DOMAIN work', i < j
        PROVE  Sequel(work'[i], work'[j])
    <3>1. CASE j \in DOMAIN steps /\ work'[j] = steps[j]
      <4>1. i \in DOMAIN steps /\ work'[i] = steps[i]
        BY <1>5, <1>6, <2>1, <3>1
      <4> QED BY <2>1, <3>1, <4>1 DEF InPlan
    <3>2. CASE /\ j > Len(steps) /\ j - Len(steps) \in DOMAIN Tail(work)
               /\ work'[j] = Tail(work)[j - Len(steps)]
      <4>1. CASE i \in DOMAIN steps /\ work'[i] = steps[i]
        <5>1. work'[j].track # k /\ work'[i].track = k
          BY <1>3, <3>2, <4>1
        <5> QED BY <5>1 DEF Sequel
      <4>2. CASE /\ i > Len(steps) /\ i - Len(steps) \in DOMAIN Tail(work)
                 /\ work'[i] = Tail(work)[i - Len(steps)]
        <5> DEFINE p == i - Len(steps)
                   q == j - Len(steps)
        <5>1. p \in DOMAIN Tail(work) /\ q \in DOMAIN Tail(work)
          BY <3>2, <4>2
        <5>4. p + 1 < q + 1
          <6>1. i \in Int /\ j \in Int /\ Len(steps) \in Int
            BY <1>5
          <6> QED BY <2>1, <6>1
        <5>2. work'[i] = Tail(work)[p] /\ work'[j] = Tail(work)[q]
          BY <3>2, <4>2
        <5> HIDE DEF p, q
        <5>3. Sequel(work[p + 1], work[q + 1])
          BY <1>1, <5>1, <5>4 DEF InPlan
        <5> QED BY <1>1, <5>1, <5>2, <5>3
      <4> QED BY <1>6, <4>1, <4>2
    <3> QED BY <1>6, <3>1, <3>2
  <2> QED BY <2>1 DEF InPlan
<1>8. \A t \in Tracks : Todo(t)' = {op \in FileOps : \E i \in DOMAIN work' : work'[i] = Step(op, t)}
  BY DEF Todo, TodoIn
<1>9. ASSUME NEW t \in Tracks, NEW op \in FileOps
      PROVE  (\E i \in DOMAIN work' : work'[i] = Step(op, t))
               <=> \/ \E i \in DOMAIN steps : steps[i] = Step(op, t)
                   \/ \E i \in DOMAIN Tail(work) : Tail(work)[i] = Step(op, t)
  <2>1. ASSUME NEW i \in DOMAIN steps
        PROVE  i \in DOMAIN work' /\ work'[i] = steps[i]
    BY <1>4, <1>5
  <2>2. ASSUME NEW i \in DOMAIN Tail(work)
        PROVE  i + Len(steps) \in DOMAIN work' /\ work'[i + Len(steps)] = Tail(work)[i]
    <3>1. i + Len(steps) \in 1..(Len(steps) + Len(Tail(work))) /\ ~(i + Len(steps) <= Len(steps))
          /\ (i + Len(steps)) - Len(steps) = i
      BY <1>5
    <3> QED BY <1>4, <1>5, <3>1
  <2>3. ASSUME NEW i \in DOMAIN work', work'[i] = Step(op, t)
        PROVE  \/ \E j \in DOMAIN steps : steps[j] = Step(op, t)
               \/ \E j \in DOMAIN Tail(work) : Tail(work)[j] = Step(op, t)
    BY <1>6, <2>3
  <2>4. ASSUME NEW j \in DOMAIN steps, steps[j] = Step(op, t)
        PROVE  \E i \in DOMAIN work' : work'[i] = Step(op, t)
    BY <2>1, <2>4
  <2>5. ASSUME NEW j \in DOMAIN Tail(work), Tail(work)[j] = Step(op, t)
        PROVE  \E i \in DOMAIN work' : work'[i] = Step(op, t)
    <3>1. j + Len(steps) \in DOMAIN work' /\ work'[j + Len(steps)] = Step(op, t)
      BY <2>2, <2>5
    <3> QED BY <3>1
  <2> QED BY <2>3, <2>4, <2>5
<1>10. ASSUME NEW t \in Tracks, NEW op \in FileOps
       PROVE  op \in Todo(t) <=> \/ op = "examine" /\ t = k
                                 \/ \E i \in DOMAIN Tail(work) : Tail(work)[i] = Step(op, t)
  <2>1. op \in Todo(t) <=> \E j \in DOMAIN work : work[j] = Step(op, t)
    BY DEF Todo, TodoIn
  <2>2. Step("examine", k) = Step(op, t) <=> op = "examine" /\ t = k
    BY <1>2, StepIs
  <2> QED BY <1>1, <2>1, <2>2
<1>11. ASSUME NEW op \in FileOps
       PROVE  ~\E i \in DOMAIN Tail(work) : Tail(work)[i] = Step(op, k)
  BY <1>3, StepIs
<1>12. ASSUME NEW op \in FileOps, NEW t \in Tracks, t # k
       PROVE  ~\E i \in DOMAIN steps : steps[i] = Step(op, t)
  BY <1>12, StepIs
<1>13. \A t \in Tracks : Todo(t) \subseteq FileOps /\ Todo(t)' \subseteq FileOps
  BY DEF Todo, TodoIn
<1>14. ASSUME NEW t \in Tracks \ {k}
       PROVE  Todo(t)' = Todo(t)
  <2>1. ASSUME NEW op \in FileOps
        PROVE  op \in Todo(t)' <=> op \in Todo(t)
    <3>1. op \in Todo(t)' <=> \E i \in DOMAIN work' : work'[i] = Step(op, t)
      BY <1>8
    <3> QED BY <3>1, <1>9, <1>10, <1>12
  <2> QED BY <2>1, <1>13
<1>15. Todo(k) = {"examine"}
  BY <1>2, <1>10, <1>11, <1>13
<1>16. Todo(k)' = {op \in FileOps : \E i \in DOMAIN steps : steps[i] = Step(op, k)}
  <2>1. ASSUME NEW op \in FileOps
        PROVE  (\E i \in DOMAIN work' : work'[i] = Step(op, k))
                 <=> \E i \in DOMAIN steps : steps[i] = Step(op, k)
    BY <1>9, <1>11
  <2>2. Todo(k)' = {op \in FileOps : \E i \in DOMAIN work' : work'[i] = Step(op, k)}
    BY <1>8
  <2> QED BY <2>1, <2>2
<1> QED BY <1>4, <1>7, <1>14, <1>15, <1>16

LEMMA WorkPublishes ==
    ASSUME NEW k \in Tracks, Track = k
    PROVE  /\ Publishing \in Seq(Steps) /\ InPlan(Publishing)
           /\ \A i \in DOMAIN Publishing : Publishing[i].track = k
           /\ {op \in FileOps : \E i \in DOMAIN Publishing : Publishing[i] = Step(op, k)}
                = {"copy", "syncCopy", "rename", "remove"}
           /\ <<Step("remove", Track)>> \in Seq(Steps) /\ InPlan(<<Step("remove", Track)>>)
           /\ \A i \in DOMAIN <<Step("remove", Track)>> : <<Step("remove", Track)>>[i].track = k
           /\ {op \in FileOps : \E i \in DOMAIN <<Step("remove", Track)>> :
                 <<Step("remove", Track)>>[i] = Step(op, k)} = {"remove"}
<1> DEFINE s == Publishing
           r == <<Step("remove", Track)>>
<1>1. /\ s \in Seq(Steps) /\ DOMAIN s = 1..4
      /\ s[1] = Step("copy", k) /\ s[2] = Step("syncCopy", k)
      /\ s[3] = Step("rename", k) /\ s[4] = Step("remove", k)
  BY DEF Publishing, Step, Steps, FileOps
<1>2. r \in Seq(Steps) /\ DOMAIN r = 1..1 /\ r[1] = Step("remove", k)
  BY DEF Step, Steps, FileOps
<1> HIDE DEF s, r
<1>3. InPlan(s) /\ InPlan(r)
  BY <1>1, <1>2 DEF InPlan, Sequel, Rank, Step
<1>4. (\A i \in DOMAIN s : s[i].track = k) /\ (\A i \in DOMAIN r : r[i].track = k)
  BY <1>1, <1>2 DEF Step
<1>5. {op \in FileOps : \E i \in DOMAIN s : s[i] = Step(op, k)}
        = {"copy", "syncCopy", "rename", "remove"}
  BY <1>1 DEF FileOps, Step
<1>6. {op \in FileOps : \E i \in DOMAIN r : r[i] = Step(op, k)} = {"remove"}
  BY <1>2 DEF FileOps, Step
<1> QED BY <1>1, <1>2, <1>3, <1>4, <1>5, <1>6 DEF s, r

LEMMA StepsDiffer ==
    /\ MicTrack # SystemTrack
    /\ \A x, y \in FileOps, k, l \in Tracks :
          /\ Step(x, k) = Step(y, l) <=> x = y /\ k = l
          /\ Sequel(Step(x, k), Step(y, l)) <=> (k = l => x # "examine" /\ Rank[x] < Rank[y])
    /\ Rank["flush"] = 1 /\ Rank["sync"] = 2 /\ Rank["examine"] = 3
    /\ FileOps # {} /\ {"open", "flush", "sync", "examine"} \subseteq FileOps
    /\ Tracks = {MicTrack, SystemTrack}
BY DEF MicTrack, SystemTrack, FileOps, Step, Sequel, Rank, Tracks

LEMMA WorkOfStart ==
    ASSUME work' = <<Step("open", MicTrack), Step("open", SystemTrack)>>
    PROVE  /\ work' \in Seq(Steps) /\ work' # <<>> /\ InPlan(work')
           /\ \A t \in Tracks : Todo(t)' = {"open"}
<1>1. /\ work' \in Seq(Steps) /\ DOMAIN work' = 1..2
      /\ work'[1] = Step("open", MicTrack) /\ work'[2] = Step("open", SystemTrack)
  BY DEF Step, Steps, FileOps, Tracks
<1>2. InPlan(work')
  BY <1>1 DEF InPlan, Sequel, Step, MicTrack, SystemTrack
<1>3. ASSUME NEW t \in Tracks
      PROVE  Todo(t)' = {"open"}
  BY <1>1 DEF Todo, TodoIn, Step, FileOps, Tracks
<1> QED BY <1>1, <1>2, <1>3

LEMMA PlansJoin ==
    ASSUME NEW s \in Seq(Steps), NEW r \in Seq(Steps), InPlan(s), InPlan(r),
           \A i \in DOMAIN s, j \in DOMAIN r : Sequel(s[i], r[j])
    PROVE  /\ s \o r \in Seq(Steps) /\ Len(s \o r) = Len(s) + Len(r) /\ InPlan(s \o r)
           /\ \A t \in Tracks : TodoIn(s \o r, t) = TodoIn(s, t) \cup TodoIn(r, t)
<1> DEFINE u == s \o r
<1>1. /\ u \in Seq(Steps) /\ Len(u) = Len(s) + Len(r)
      /\ \A i \in 1..(Len(s) + Len(r)) : u[i] = IF i <= Len(s) THEN s[i] ELSE r[i - Len(s)]
  BY ConcatProperties
<1> HIDE DEF u
<1>2. /\ Len(s) \in Nat /\ Len(r) \in Nat /\ DOMAIN s = 1..Len(s) /\ DOMAIN r = 1..Len(r)
      /\ DOMAIN u = 1..(Len(s) + Len(r))
  BY <1>1
<1>3. ASSUME NEW i \in DOMAIN u
      PROVE  \/ i \in DOMAIN s /\ u[i] = s[i]
             \/ i > Len(s) /\ i - Len(s) \in DOMAIN r /\ u[i] = r[i - Len(s)]
  BY <1>1, <1>2
<1>4. InPlan(u)
  <2>1. ASSUME NEW i \in DOMAIN u, NEW j \in DOMAIN u, i < j
        PROVE  Sequel(u[i], u[j])
    <3>1. i \in Int /\ j \in Int
      BY <1>2
    <3>2. CASE j \in DOMAIN s /\ u[j] = s[j]
      <4>1. i \in DOMAIN s /\ u[i] = s[i]
        BY <1>2, <1>3, <2>1, <3>1, <3>2
      <4> QED BY <2>1, <3>2, <4>1 DEF InPlan
    <3>3. CASE j > Len(s) /\ j - Len(s) \in DOMAIN r /\ u[j] = r[j - Len(s)]
      <4>1. CASE i \in DOMAIN s /\ u[i] = s[i]
        BY <3>3, <4>1
      <4>2. CASE i > Len(s) /\ i - Len(s) \in DOMAIN r /\ u[i] = r[i - Len(s)]
        <5>1. i - Len(s) < j - Len(s)
          BY <1>2, <2>1, <3>1
        <5> QED BY <3>3, <4>2, <5>1 DEF InPlan
      <4> QED BY <1>3, <4>1, <4>2
    <3> QED BY <1>3, <3>2, <3>3
  <2> QED BY <2>1 DEF InPlan
<1>5. ASSUME NEW t \in Tracks, NEW op \in FileOps
      PROVE  (\E i \in DOMAIN u : u[i] = Step(op, t))
               <=> \/ \E i \in DOMAIN s : s[i] = Step(op, t)
                   \/ \E i \in DOMAIN r : r[i] = Step(op, t)
  <2>1. ASSUME NEW i \in DOMAIN u, u[i] = Step(op, t)
        PROVE  (\E j \in DOMAIN s : s[j] = Step(op, t)) \/ (\E j \in DOMAIN r : r[j] = Step(op, t))
    BY <1>3, <2>1
  <2>2. ASSUME NEW j \in DOMAIN s, s[j] = Step(op, t)
        PROVE  \E i \in DOMAIN u : u[i] = Step(op, t)
    <3>1. j \in DOMAIN u /\ u[j] = s[j]
      BY <1>1, <1>2
    <3> QED BY <2>2, <3>1
  <2>3. ASSUME NEW j \in DOMAIN r, r[j] = Step(op, t)
        PROVE  \E i \in DOMAIN u : u[i] = Step(op, t)
    <3>1. j + Len(s) \in 1..(Len(s) + Len(r)) /\ ~(j + Len(s) <= Len(s)) /\ (j + Len(s)) - Len(s) = j
      BY <1>2
    <3>2. j + Len(s) \in DOMAIN u /\ u[j + Len(s)] = r[j]
      BY <1>1, <1>2, <3>1
    <3> QED BY <2>3, <3>2
  <2> QED BY <2>1, <2>2, <2>3
<1>6. ASSUME NEW t \in Tracks
      PROVE  TodoIn(u, t) = TodoIn(s, t) \cup TodoIn(r, t)
  BY <1>5 DEF TodoIn
<1> QED BY <1>1, <1>4, <1>6 DEF u

LEMMA PlanOfOne ==
    ASSUME NEW op \in FileOps, NEW t \in Tracks
    PROVE  LET s == <<Step(op, t)>>
           IN /\ s \in Seq(Steps) /\ Len(s) = 1 /\ InPlan(s)
              /\ DOMAIN s = {1} /\ s[1] = Step(op, t)
              /\ TodoIn(s, t) = {op}
              /\ \A k \in Tracks : k # t => TodoIn(s, k) = {}
<1> DEFINE s == <<Step(op, t)>>
<1>1. s \in Seq(Steps) /\ Len(s) = 1 /\ DOMAIN s = {1} /\ s[1] = Step(op, t)
  BY StepIs
<1> HIDE DEF s
<1>2. InPlan(s)
  BY <1>1 DEF InPlan
<1>3. TodoIn(s, t) = {op} /\ \A k \in Tracks : k # t => TodoIn(s, k) = {}
  BY <1>1, StepsDiffer DEF TodoIn
<1> QED BY <1>1, <1>2, <1>3 DEF s

LEMMA PlanOfNone ==
    /\ <<>> \in Seq(Steps) /\ Len(<<>>) = 0 /\ InPlan(<<>>)
    /\ \A t \in Tracks : TodoIn(<<>>, t) = {}
<1>1. <<>> \in Seq(Steps) /\ Len(<<>>) = 0 /\ DOMAIN <<>> = {}
  BY EmptySeq
<1> QED BY <1>1 DEF InPlan, TodoIn

LEMMA WorkOfCall ==
    ASSUME NEW kind \in CallKinds,
           work' = IF kind = "finalize" THEN CheckpointSteps \o FinalizeSteps ELSE CheckpointSteps
    PROVE  /\ work' \in Seq(Steps) /\ work' # <<>> /\ InPlan(work')
           /\ \A t \in Tracks :
                 Todo(t)' = {"flush", "sync"} \cup {x \in {"examine"} : kind = "finalize"}
<1> DEFINE c == CheckpointSteps
           f == FinalizeSteps
<1>1. /\ c \in Seq(Steps) /\ DOMAIN c = 1..4 /\ Len(c) = 4
      /\ c[1] = Step("flush", MicTrack) /\ c[2] = Step("sync", MicTrack)
      /\ c[3] = Step("flush", SystemTrack) /\ c[4] = Step("sync", SystemTrack)
  BY DEF CheckpointSteps, Step, Steps, FileOps, Tracks
<1>2. /\ f \in Seq(Steps) /\ DOMAIN f = 1..2 /\ Len(f) = 2
      /\ f[1] = Step("examine", MicTrack) /\ f[2] = Step("examine", SystemTrack)
  BY DEF FinalizeSteps, Step, Steps, FileOps, Tracks
<1>3. work' = IF kind = "finalize" THEN c \o f ELSE c
  OBVIOUS
<1> HIDE DEF c, f
<1>4. InPlan(c) /\ InPlan(f)
  <2>1. ASSUME NEW i \in 1..4, NEW j \in 1..4, i < j
        PROVE  Sequel(c[i], c[j])
    BY <1>1, <2>1, StepsDiffer
  <2>2. ASSUME NEW i \in 1..2, NEW j \in 1..2, i < j
        PROVE  Sequel(f[i], f[j])
    BY <1>2, <2>2, StepsDiffer
  <2> QED BY <1>1, <1>2, <2>1, <2>2 DEF InPlan
<1>5. ASSUME NEW i \in DOMAIN c, NEW j \in DOMAIN f
      PROVE  Sequel(c[i], f[j])
  BY <1>1, <1>2, StepsDiffer
<1>6. ASSUME NEW t \in Tracks
      PROVE  TodoIn(c, t) = {"flush", "sync"} /\ TodoIn(f, t) = {"examine"}
  <2>1. ASSUME NEW op \in FileOps
        PROVE  /\ (\E i \in 1..4 : c[i] = Step(op, t)) <=> op = "flush" \/ op = "sync"
               /\ (\E i \in 1..2 : f[i] = Step(op, t)) <=> op = "examine"
    BY <1>1, <1>2, StepsDiffer
  <2> QED BY <1>1, <1>2, <2>1, StepsDiffer DEF TodoIn
<1>9. /\ c \o f \in Seq(Steps) /\ Len(c \o f) = Len(c) + Len(f) /\ InPlan(c \o f)
      /\ \A t \in Tracks : TodoIn(c \o f, t) = TodoIn(c, t) \cup TodoIn(f, t)
  <2>1. \A i \in DOMAIN c, j \in DOMAIN f : Sequel(c[i], f[j])
    BY <1>5
  <2> QED BY <1>1, <1>2, <1>4, <2>1, PlansJoin
<1>7. CASE kind = "finalize"
  <2>1. work' = c \o f
    BY <1>3, <1>7
  <2>2. /\ work' \in Seq(Steps) /\ Len(work') = Len(c) + Len(f) /\ InPlan(work')
        /\ \A t \in Tracks : TodoIn(work', t) = TodoIn(c, t) \cup TodoIn(f, t)
    BY <1>9, <2>1
  <2>3. work' # <<>>
    BY <1>1, <1>2, <2>2, PlanOfNone
  <2> QED BY <1>6, <1>7, <2>2, <2>3 DEF Todo
<1>8. CASE kind # "finalize"
  <2>1. work' = c
    BY <1>3, <1>8
  <2>2. work' # <<>>
    BY <1>1, <2>1, PlanOfNone
  <2> QED BY <1>1, <1>4, <1>6, <1>8, <2>1, <2>2 DEF Todo
<1> QED BY <1>7, <1>8

LEMMA WorkOfRecovery ==
    ASSUME work' = Interrupted(MicTrack) \o Interrupted(SystemTrack)
    PROVE  /\ work' \in Seq(Steps) /\ InPlan(work')
           /\ \A t \in Tracks : Todo(t)' = {x \in {"examine"} : disk[t].part}
<1> DEFINE m == Interrupted(MicTrack)
           s == Interrupted(SystemTrack)
<1>1. ASSUME NEW t \in Tracks
      PROVE  LET r == Interrupted(t)
             IN /\ r \in Seq(Steps) /\ InPlan(r)
                /\ \A i \in DOMAIN r : r[i] = Step("examine", t)
                /\ TodoIn(r, t) = {x \in {"examine"} : disk[t].part}
                /\ \A k \in Tracks : k # t => TodoIn(r, k) = {}
  <2>1. CASE disk[t].part
    <3>1. Interrupted(t) = <<Step("examine", t)>>
      BY <2>1 DEF Interrupted
    <3>2. "examine" \in FileOps
      BY StepsDiffer
    <3>3. LET r == <<Step("examine", t)>>
          IN /\ r \in Seq(Steps) /\ Len(r) = 1 /\ InPlan(r)
             /\ DOMAIN r = {1} /\ r[1] = Step("examine", t)
             /\ TodoIn(r, t) = {"examine"}
             /\ \A k \in Tracks : k # t => TodoIn(r, k) = {}
      BY <3>2, PlanOfOne
    <3> QED BY <2>1, <3>1, <3>3
  <2>2. CASE ~disk[t].part
    <3>1. Interrupted(t) = <<>>
      BY <2>2 DEF Interrupted
    <3> QED BY <2>2, <3>1, PlanOfNone
  <2> QED BY <2>1, <2>2
<1>2. MicTrack \in Tracks /\ SystemTrack \in Tracks /\ MicTrack # SystemTrack
  BY StepsDiffer
<1>3. m \in Seq(Steps) /\ InPlan(m) /\ s \in Seq(Steps) /\ InPlan(s)
  BY <1>1, <1>2
<1>4. \A i \in DOMAIN m, j \in DOMAIN s : Sequel(m[i], s[j])
  BY <1>1, <1>2, StepsDiffer
<1>5. \A t \in Tracks : TodoIn(m, t) \cup TodoIn(s, t) = {x \in {"examine"} : disk[t].part}
  BY <1>1, <1>2, StepsDiffer
<1>6. work' = m \o s
  OBVIOUS
<1> HIDE DEF m, s
<1>7. /\ work' \in Seq(Steps) /\ InPlan(work')
      /\ \A t \in Tracks : TodoIn(work', t) = TodoIn(m, t) \cup TodoIn(s, t)
  BY <1>3, <1>4, <1>6, PlansJoin
<1> QED BY <1>5, <1>7 DEF Todo

-----------------------------------------------------------------------------
(* What a file operation does to the directory *)

\* The entry of a track is `e` now, all else is as it was.
Changed(k, e) ==
    /\ disk'[k] = e
    /\ \A t \in Tracks \ {k} : disk'[t] = disk[t]

LEMMA ChangedIs ==
    ASSUME FilesTyped, buffer' = buffer, NEW k \in Tracks, NEW e \in Entries,
           e.pcm.synced <= Len(e.pcm.data), e.out.synced <= Len(e.out.data),
           disk' = [disk EXCEPT ![k] = e]
    PROVE  FilesTyped' /\ Changed(k, e)
BY DEF FilesTyped, Changed

LEMMA OpenIs ==
    ASSUME FilesTyped, buffer' = buffer, NEW k \in Tracks, NEW yes \in BOOLEAN,
           disk' = [disk EXCEPT ![k].part = yes]
    PROVE  /\ FilesTyped' /\ \A t \in Tracks \ {k} : disk'[t] = disk[t]
           /\ disk'[k].part = yes /\ disk'[k].wav = disk[k].wav
           /\ disk'[k].pcm = disk[k].pcm /\ disk'[k].out = disk[k].out
<1> DEFINE e == [disk[k] EXCEPT !.part = yes]
<1>1. /\ e \in Entries /\ e.part = yes /\ e.wav = disk[k].wav
      /\ e.pcm = disk[k].pcm /\ e.out = disk[k].out
  BY DEF FilesTyped, Entries
<1>2. disk' = [disk EXCEPT ![k] = e]
  OBVIOUS
<1> HIDE DEF e
<1>3. FilesTyped' /\ Changed(k, e)
  BY <1>1, <1>2, ChangedIs DEF FilesTyped
<1> QED BY <1>1, <1>3 DEF Changed

LEMMA RenameIs ==
    ASSUME FilesTyped, buffer' = buffer, NEW k \in Tracks,
           disk' = [disk EXCEPT ![k].wav = "wav"]
    PROVE  /\ FilesTyped' /\ \A t \in Tracks \ {k} : disk'[t] = disk[t]
           /\ disk'[k].part = disk[k].part /\ disk'[k].wav = "wav"
           /\ disk'[k].pcm = disk[k].pcm /\ disk'[k].out = disk[k].out
<1> DEFINE e == [disk[k] EXCEPT !.wav = "wav"]
<1>1. /\ e \in Entries /\ e.part = disk[k].part /\ e.wav = "wav"
      /\ e.pcm = disk[k].pcm /\ e.out = disk[k].out
  BY DEF FilesTyped, Entries, WavStates
<1>2. disk' = [disk EXCEPT ![k] = e]
  OBVIOUS
<1> HIDE DEF e
<1>3. FilesTyped' /\ Changed(k, e)
  BY <1>1, <1>2, ChangedIs DEF FilesTyped
<1> QED BY <1>1, <1>3 DEF Changed

LEMMA CopyIs ==
    ASSUME FilesTyped, buffer' = buffer, NEW k \in Tracks,
           disk' = [disk EXCEPT ![k].wav = "tmp",
                                ![k].out = [data |-> disk[k].pcm.data, synced |-> 0]]
    PROVE  /\ FilesTyped' /\ \A t \in Tracks \ {k} : disk'[t] = disk[t]
           /\ disk'[k].part = disk[k].part /\ disk'[k].wav = "tmp"
           /\ disk'[k].pcm = disk[k].pcm
           /\ disk'[k].out.data = disk[k].pcm.data /\ disk'[k].out.synced = 0
<1> DEFINE o == [data |-> disk[k].pcm.data, synced |-> 0]
           e == [disk[k] EXCEPT !.wav = "tmp", !.out = o]
<1>1. /\ o \in Files /\ o.data = disk[k].pcm.data /\ o.synced = 0
      /\ o.synced <= Len(o.data)
  BY DEF FilesTyped, Entries, Files
<1>2. disk' = [disk EXCEPT ![k] = e]
  BY DEF FilesTyped
<1> HIDE DEF o
<1>3. /\ e \in Entries /\ e.part = disk[k].part /\ e.wav = "tmp"
      /\ e.pcm = disk[k].pcm /\ e.out = o
  BY <1>1 DEF FilesTyped, Entries, WavStates
<1> HIDE DEF e
<1>4. FilesTyped' /\ Changed(k, e)
  BY <1>1, <1>2, <1>3, ChangedIs DEF FilesTyped
<1> QED BY <1>1, <1>3, <1>4 DEF Changed

LEMMA SyncIs ==
    ASSUME FilesTyped, buffer' = buffer, NEW k \in Tracks,
           disk' = [disk EXCEPT ![k]["pcm"].synced = Len(disk[k]["pcm"].data)]
    PROVE  /\ FilesTyped' /\ \A t \in Tracks \ {k} : disk'[t] = disk[t]
           /\ disk'[k].part = disk[k].part /\ disk'[k].wav = disk[k].wav
           /\ disk'[k].out = disk[k].out
           /\ disk'[k].pcm.data = disk[k].pcm.data
           /\ disk'[k].pcm.synced = Len(disk[k].pcm.data)
<1> DEFINE f == [disk[k].pcm EXCEPT !.synced = Len(disk[k].pcm.data)]
           e == [disk[k] EXCEPT !.pcm = f]
<1>1. /\ f \in Files /\ f.data = disk[k].pcm.data /\ f.synced = Len(disk[k].pcm.data)
      /\ f.synced <= Len(f.data)
  <2>1. Len(disk[k].pcm.data) \in Nat /\ disk[k].pcm \in Files
    BY DEF FilesTyped, Entries, Files
  <2> QED BY <2>1 DEF Files
<1>2. disk' = [disk EXCEPT ![k] = e]
  BY DEF FilesTyped
<1> HIDE DEF f
<1>3. /\ e \in Entries /\ e.part = disk[k].part /\ e.wav = disk[k].wav
      /\ e.out = disk[k].out /\ e.pcm = f
  BY <1>1 DEF FilesTyped, Entries
<1> HIDE DEF e
<1>4. FilesTyped' /\ Changed(k, e)
  BY <1>1, <1>2, <1>3, ChangedIs DEF FilesTyped
<1> QED BY <1>1, <1>3, <1>4 DEF Changed

LEMMA SyncCopyIs ==
    ASSUME FilesTyped, buffer' = buffer, NEW k \in Tracks,
           disk' = [disk EXCEPT ![k]["out"].synced = Len(disk[k]["out"].data)]
    PROVE  /\ FilesTyped' /\ \A t \in Tracks \ {k} : disk'[t] = disk[t]
           /\ disk'[k].part = disk[k].part /\ disk'[k].wav = disk[k].wav
           /\ disk'[k].pcm = disk[k].pcm
           /\ disk'[k].out.data = disk[k].out.data
           /\ disk'[k].out.synced = Len(disk[k].out.data)
<1> DEFINE f == [disk[k].out EXCEPT !.synced = Len(disk[k].out.data)]
           e == [disk[k] EXCEPT !.out = f]
<1>1. /\ f \in Files /\ f.data = disk[k].out.data /\ f.synced = Len(disk[k].out.data)
      /\ f.synced <= Len(f.data)
  <2>1. Len(disk[k].out.data) \in Nat /\ disk[k].out \in Files
    BY DEF FilesTyped, Entries, Files
  <2> QED BY <2>1 DEF Files
<1>2. disk' = [disk EXCEPT ![k] = e]
  BY DEF FilesTyped
<1> HIDE DEF f
<1>3. /\ e \in Entries /\ e.part = disk[k].part /\ e.wav = disk[k].wav
      /\ e.pcm = disk[k].pcm /\ e.out = f
  BY <1>1 DEF FilesTyped, Entries
<1> HIDE DEF e
<1>4. FilesTyped' /\ Changed(k, e)
  BY <1>1, <1>2, <1>3, ChangedIs DEF FilesTyped
<1> QED BY <1>1, <1>3, <1>4 DEF Changed

\* A power loss keeps of a file what was synced and some of the rest.
LEMMA LossIs ==
    ASSUME FilesTyped, PowerLoss, buffer' = [t \in Tracks |-> <<>>]
    PROVE  /\ FilesTyped' /\ Names(disk') = durable
           /\ \A t \in Tracks :
                 /\ IsPrefix(Safe(disk[t].pcm), disk'[t].pcm.data)
                 /\ IsPrefix(disk'[t].pcm.data, disk[t].pcm.data)
                 /\ disk'[t].pcm.synced = Len(disk'[t].pcm.data)
                 /\ IsPrefix(Safe(disk[t].out), disk'[t].out.data)
                 /\ IsPrefix(disk'[t].out.data, disk[t].out.data)
                 /\ disk'[t].out.synced = Len(disk'[t].out.data)
<1>1. /\ disk' \in [Tracks -> [part : BOOLEAN, wav : {"none", "tmp", "wav"},
                               pcm : UNION {Survivors(disk[t].pcm) : t \in Tracks},
                               out : UNION {Survivors(disk[t].out) : t \in Tracks}]]
      /\ Names(disk') = durable
      /\ \A t \in Tracks : /\ disk'[t].pcm \in Survivors(disk[t].pcm)
                           /\ disk'[t].out \in Survivors(disk[t].out)
  BY DEF PowerLoss
<1>2. ASSUME NEW f \in Files, f.synced <= Len(f.data), NEW g \in Survivors(f)
      PROVE  /\ g \in Files /\ g.synced = Len(g.data)
             /\ IsPrefix(Safe(f), g.data) /\ IsPrefix(g.data, f.data)
  <2>1. f.data \in Seq(Nat) /\ f.synced \in Nat /\ Len(f.data) \in Nat
    BY DEF Files
  <2>2. PICK n \in f.synced..Len(f.data) : g = Kept(f, n)
    BY <1>2 DEF Survivors
  <2>3. n \in 0..Len(f.data) /\ n \in Nat /\ f.synced <= n
    BY <2>1, <2>2
  <2>4. g.data = SubSeq(f.data, 1, n) /\ g.synced = n /\ g = [data |-> g.data, synced |-> n]
    BY <2>2 DEF Kept
  <2>5. g.data \in Seq(Nat)
    BY <2>1, <2>3, <2>4, Cut
  <2>6. Len(g.data) = n /\ \A i \in 1..n : g.data[i] = f.data[i]
    <3>1. \A i \in 1..n : f.data[i] \in Nat
      BY <2>1, <2>3, ElementOfSeq
    <3> QED BY <2>1, <2>3, <2>4, <3>1, SubSeqProperties
  <2>7. IsPrefix(g.data, f.data)
    BY <2>1, <2>3, <2>5, <2>6, PrefixIs, SMTT(30)
  <2>8. /\ Safe(f) \in Seq(Nat) /\ Len(Safe(f)) = f.synced
        /\ \A i \in 1..f.synced : Safe(f)[i] = f.data[i]
    BY <1>2, SafeIs
  <2>9. \A i \in 1..f.synced : Safe(f)[i] = g.data[i]
    BY <2>1, <2>3, <2>6, <2>8
  <2>10. IsPrefix(Safe(f), g.data)
    BY <2>3, <2>5, <2>6, <2>8, <2>9, PrefixIs
  <2> QED BY <2>3, <2>4, <2>5, <2>6, <2>7, <2>10 DEF Files
<1>3. ASSUME NEW t \in Tracks
      PROVE  /\ disk'[t] \in Entries
             /\ disk'[t].pcm.synced = Len(disk'[t].pcm.data)
             /\ disk'[t].out.synced = Len(disk'[t].out.data)
             /\ disk'[t].pcm \in Files /\ disk'[t].out \in Files
             /\ IsPrefix(Safe(disk[t].pcm), disk'[t].pcm.data)
             /\ IsPrefix(disk'[t].pcm.data, disk[t].pcm.data)
             /\ IsPrefix(Safe(disk[t].out), disk'[t].out.data)
             /\ IsPrefix(disk'[t].out.data, disk[t].out.data)
  <2>1. /\ disk[t].pcm \in Files /\ disk[t].pcm.synced <= Len(disk[t].pcm.data)
        /\ disk[t].out \in Files /\ disk[t].out.synced <= Len(disk[t].out.data)
    BY DEF FilesTyped, Entries
  <2>2. /\ disk'[t].pcm \in Files /\ disk'[t].pcm.synced = Len(disk'[t].pcm.data)
        /\ IsPrefix(Safe(disk[t].pcm), disk'[t].pcm.data)
        /\ IsPrefix(disk'[t].pcm.data, disk[t].pcm.data)
    BY <1>1, <1>2, <2>1
  <2>3. /\ disk'[t].out \in Files /\ disk'[t].out.synced = Len(disk'[t].out.data)
        /\ IsPrefix(Safe(disk[t].out), disk'[t].out.data)
        /\ IsPrefix(disk'[t].out.data, disk[t].out.data)
    BY <1>1, <1>2, <2>1
  <2>4. disk'[t] \in Entries
    BY <1>1, <2>2, <2>3 DEF Entries, WavStates
  <2> QED BY <2>2, <2>3, <2>4
<1>4. disk' \in [Tracks -> Entries] /\ buffer' \in [Tracks -> Seq(Nat)]
  BY <1>1, <1>3
<1>5. \A t \in Tracks : /\ disk'[t].pcm.synced <= Len(disk'[t].pcm.data)
                        /\ disk'[t].out.synced <= Len(disk'[t].out.data)
  <2>1. ASSUME NEW t \in Tracks
        PROVE  Len(disk'[t].pcm.data) \in Nat /\ Len(disk'[t].out.data) \in Nat
    BY <1>3 DEF Files
  <2> QED BY <1>3, <2>1
<1> QED BY <1>1, <1>3, <1>4, <1>5 DEF FilesTyped

-----------------------------------------------------------------------------
(* Each file operation, as the invariant sees it *)

\* The operation at hand was `op` on the track k, and the call goes on.
Acted(op, k) ==
    /\ op \in Todo(k) /\ Todo(k)' = Todo(k) \ {op}
    /\ \A x \in Todo(k)' : op # "examine" /\ Rank[op] < Rank[x]
    /\ \A t \in Tracks \ {k} : Todo(t)' = Todo(t)
    /\ InPlan(work') /\ work # <<>>
    /\ UNCHANGED <<control, queue, writer, past>>

Others(k) == \A t \in Tracks \ {k} : disk'[t] = disk[t] /\ buffer'[t] = buffer[t]

DidOpen(k) ==
    /\ Acted("open", k) /\ Others(k) /\ UNCHANGED <<buffer, durable>>
    /\ disk'[k].part = TRUE /\ disk'[k].wav = disk[k].wav
    /\ disk'[k].pcm = disk[k].pcm /\ disk'[k].out = disk[k].out

DidFlush(k) ==
    /\ Acted("flush", k) /\ Others(k) /\ UNCHANGED durable
    /\ Grown(k) /\ buffer'[k] = <<>> /\ disk'[k].pcm.data = Written(k)

DidSync(k) ==
    /\ Acted("sync", k) /\ Others(k) /\ UNCHANGED buffer
    /\ disk'[k].part = disk[k].part /\ disk'[k].wav = disk[k].wav
    /\ disk'[k].out = disk[k].out /\ disk'[k].pcm.data = disk[k].pcm.data
    /\ disk'[k].pcm.synced = Len(disk[k].pcm.data)
    /\ durable' = Names(disk)

DidSyncCopy(k) ==
    /\ Acted("syncCopy", k) /\ Others(k) /\ UNCHANGED buffer
    /\ disk'[k].part = disk[k].part /\ disk'[k].wav = disk[k].wav
    /\ disk'[k].pcm = disk[k].pcm /\ disk'[k].out.data = disk[k].out.data
    /\ disk'[k].out.synced = Len(disk[k].out.data)
    /\ durable' = Names(disk)

DidCopy(k) ==
    /\ Acted("copy", k) /\ Others(k) /\ UNCHANGED <<buffer, durable>>
    /\ disk'[k].part = disk[k].part /\ disk'[k].wav = "tmp"
    /\ disk'[k].pcm = disk[k].pcm
    /\ disk'[k].out.data = disk[k].pcm.data /\ disk'[k].out.synced = 0

DidRename(k) ==
    /\ Acted("rename", k) /\ Others(k) /\ UNCHANGED <<buffer, durable>>
    /\ disk'[k].part = disk[k].part /\ disk'[k].wav = "wav"
    /\ disk'[k].pcm = disk[k].pcm /\ disk'[k].out = disk[k].out

DidRemove(k) ==
    /\ Acted("remove", k) /\ Others(k) /\ UNCHANGED <<buffer, durable>>
    /\ disk'[k].part = FALSE /\ disk'[k].wav = disk[k].wav
    /\ disk'[k].pcm = disk[k].pcm /\ disk'[k].out = disk[k].out

\* A WAV of the same length needs only the removal, otherwise all is to be done.
DidExamine(k) ==
    /\ Todo(k) = {"examine"} /\ InPlan(work') /\ work # <<>>
    /\ \A t \in Tracks \ {k} : Todo(t)' = Todo(t)
    /\ IF Published(k) THEN SameLength(k) /\ Todo(k)' = {"remove"}
       ELSE Todo(k)' = {"copy", "syncCopy", "rename", "remove"}
    /\ UNCHANGED <<control, queue, writer, past, buffer, disk, durable>>

DidRefuse(k) ==
    /\ "examine" \in Todo(k) /\ Published(k) /\ ~SameLength(k)
    /\ \A t \in Tracks : Todo(t)' = {}
    /\ work # <<>> /\ work' = <<>> /\ InPlan(work')
    /\ writer'.pc = writer.pc /\ writer'.call = writer.call /\ ~writer'.ok
    /\ UNCHANGED <<control, queue, past, buffer, disk, durable>>

\* What was pending of each track is still there, in order.
DidFail ==
    /\ \A t \in Tracks : Grown(t) /\ Written(t)' = Written(t)
    /\ \A t \in Tracks : buffer[t] = <<>> => buffer'[t] = <<>> /\ disk'[t] = disk[t]
    /\ \A t \in Tracks : Todo(t)' = {}
    /\ work # <<>> /\ work' = <<>> /\ InPlan(work')
    /\ writer'.pc = writer.pc /\ writer'.call = writer.call /\ ~writer'.ok
    /\ past' = [past EXCEPT !.ioFailed = TRUE]
    /\ UNCHANGED <<control, queue, durable>>

LEMMA RankIs ==
    /\ Rank["open"] = 0 /\ Rank["flush"] = 1 /\ Rank["sync"] = 2 /\ Rank["examine"] = 3
    /\ Rank["copy"] = 4 /\ Rank["syncCopy"] = 5 /\ Rank["rename"] = 6 /\ Rank["remove"] = 7
    /\ FileOps = {"open", "flush", "sync", "examine", "copy", "syncCopy", "rename", "remove"}
BY DEF Rank, FileOps

LEMMA ActedIs ==
    ASSUME Typed, Planned, NEW op \in FileOps, Doing(op), Done(<<>>)
    PROVE  \E k \in Tracks : Track = k /\ Acted(op, k) /\ work' \in Seq(Steps)
<1>1. work \in Seq(Steps) /\ work # <<>> /\ InPlan(work)
  BY DEF Typed, Planned, Doing
<1>2. Track \in Tracks /\ Head(work) = Step(op, Track)
  BY <1>1, HeadIs DEF Doing
<1>3. PICK k \in Tracks : k = Track
  BY <1>2
<1>4. Head(work) = Step(op, k)
  BY <1>2, <1>3
<1>5. work' = Tail(work)
  <2>1. Tail(work) \in Seq(Steps)
    BY <1>1, TailIs
  <2>2. <<>> \o Tail(work) = Tail(work)
    BY <2>1, ConcatEmptySeq
  <2> QED BY <2>2 DEF Done
<1>6. /\ work' \in Seq(Steps) /\ InPlan(work')
      /\ \A t \in Tracks \ {k} : Todo(t)' = Todo(t)
      /\ op \in Todo(k) /\ Todo(k)' = Todo(k) \ {op}
      /\ \A x \in Todo(k)' : op # "examine" /\ Rank[op] < Rank[x]
  BY <1>1, <1>4, <1>5, WorkDone
<1>7. UNCHANGED <<control, queue, writer, past>>
  BY DEF Doing, Done
<1> QED BY <1>1, <1>3, <1>6, <1>7 DEF Acted

LEMMA NamesIs ==
    ASSUME FilesTyped
    PROVE  /\ Names(disk) \in [Tracks -> [part : BOOLEAN, wav : WavStates]]
           /\ \A t \in Tracks : /\ Names(disk)[t].part = disk[t].part
                                /\ Names(disk)[t].wav = disk[t].wav
BY DEF Names, FilesTyped, Entries

LEMMA OpenEffect ==
    ASSUME Typed, Planned, OpenPart
    PROVE  Typed' /\ \E k \in Tracks : DidOpen(k)
<1>1. Doing("open") /\ Done(<<>>) /\ "open" \in FileOps
  BY RankIs DEF OpenPart
<1>2. PICK k \in Tracks : Track = k /\ Acted("open", k) /\ work' \in Seq(Steps)
  BY <1>1, ActedIs
<1>3. FilesTyped /\ UNCHANGED <<buffer, durable>> /\ disk' = [disk EXCEPT ![k].part = TRUE]
  BY <1>2 DEF OpenPart, Typed
<1>4. /\ FilesTyped' /\ \A t \in Tracks \ {k} : disk'[t] = disk[t]
      /\ disk'[k].part = TRUE /\ disk'[k].wav = disk[k].wav
      /\ disk'[k].pcm = disk[k].pcm /\ disk'[k].out = disk[k].out
  BY <1>3, OpenIs
<1>5. Typed'
  BY <1>2, <1>3, <1>4 DEF Typed, Acted
<1> QED BY <1>2, <1>3, <1>4, <1>5 DEF DidOpen, Others

LEMMA FlushEffect ==
    ASSUME Typed, Planned, FlushPart
    PROVE  Typed' /\ \E k \in Tracks : DidFlush(k)
<1>1. Doing("flush") /\ Done(<<>>) /\ "flush" \in FileOps
  BY RankIs DEF FlushPart
<1>2. PICK k \in Tracks : Track = k /\ Acted("flush", k) /\ work' \in Seq(Steps)
  BY <1>1, ActedIs
<1>3. /\ FilesTyped /\ UNCHANGED durable /\ buffer' = [buffer EXCEPT ![k] = <<>>]
      /\ disk' = [disk EXCEPT ![k].pcm.data = @ \o buffer[k]]
      /\ buffer[k] \in Seq(Nat) /\ <<>> \in Seq(Nat)
  BY <1>2, EmptySeq DEF FlushPart, Typed, FilesTyped
<1>4. FilesTyped' /\ \A t \in Tracks : Grown(t)
  BY <1>3, GrowthIs
<1>5. /\ \A t \in Tracks \ {k} : disk'[t] = disk[t] /\ buffer'[t] = buffer[t]
      /\ buffer'[k] = <<>> /\ disk'[k] = [disk[k] EXCEPT !.pcm.data = @ \o buffer[k]]
  BY <1>3 DEF FilesTyped
<1>6. disk'[k].pcm.data = Written(k)
  <2>1. disk[k] \in Entries
    BY <1>3 DEF FilesTyped
  <2>2. disk[k].pcm.data \o buffer[k] \in Seq(Nat)
    BY <1>3, <2>1, Extends DEF Entries, Files
  <2>3. disk'[k] = [disk[k] EXCEPT !.pcm.data = @ \o buffer[k]]
    BY <1>5
  <2> DEFINE b == buffer[k]
             e == disk[k]
             f == disk'[k]
  <2>4. e \in Entries /\ e.pcm.data \o b \in Seq(Nat) /\ f = [e EXCEPT !.pcm.data = @ \o b]
    BY <2>1, <2>2, <2>3
  <2> HIDE DEF b, e, f
  <2>5. f.pcm.data = e.pcm.data \o b
    BY <2>4, GrowEntry, Zenon
  <2> QED BY <2>5 DEF Written, b, e, f
<1>7. Typed'
  BY <1>2, <1>3, <1>4 DEF Typed, Acted
<1> QED BY <1>2, <1>3, <1>4, <1>5, <1>6, <1>7 DEF DidFlush, Others

LEMMA SyncEffect ==
    ASSUME Typed, Planned, SyncPart
    PROVE  Typed' /\ \E k \in Tracks : DidSync(k)
<1>1. Doing("sync") /\ Done(<<>>) /\ "sync" \in FileOps
  BY RankIs DEF SyncPart
<1>2. PICK k \in Tracks : Track = k /\ Acted("sync", k) /\ work' \in Seq(Steps)
  BY <1>1, ActedIs
<1>3. /\ FilesTyped /\ UNCHANGED buffer /\ durable' = Names(disk)
      /\ disk' = [disk EXCEPT ![k]["pcm"].synced = Len(disk[k]["pcm"].data)]
  BY <1>2 DEF SyncPart, Synced, Typed
<1>4. /\ FilesTyped' /\ \A t \in Tracks \ {k} : disk'[t] = disk[t]
      /\ disk'[k].part = disk[k].part /\ disk'[k].wav = disk[k].wav
      /\ disk'[k].out = disk[k].out
      /\ disk'[k].pcm.data = disk[k].pcm.data
      /\ disk'[k].pcm.synced = Len(disk[k].pcm.data)
  BY <1>3, SyncIs
<1>5. Typed'
  BY <1>2, <1>3, <1>4, NamesIs DEF Typed, Acted
<1> QED BY <1>2, <1>3, <1>4, <1>5 DEF DidSync, Others

LEMMA SyncCopyEffect ==
    ASSUME Typed, Planned, SyncCopy
    PROVE  Typed' /\ \E k \in Tracks : DidSyncCopy(k)
<1>1. Doing("syncCopy") /\ Done(<<>>) /\ "syncCopy" \in FileOps
  BY RankIs DEF SyncCopy
<1>2. PICK k \in Tracks : Track = k /\ Acted("syncCopy", k) /\ work' \in Seq(Steps)
  BY <1>1, ActedIs
<1>3. /\ FilesTyped /\ UNCHANGED buffer /\ durable' = Names(disk)
      /\ disk' = [disk EXCEPT ![k]["out"].synced = Len(disk[k]["out"].data)]
  BY <1>2 DEF SyncCopy, Synced, Typed
<1>4. /\ FilesTyped' /\ \A t \in Tracks \ {k} : disk'[t] = disk[t]
      /\ disk'[k].part = disk[k].part /\ disk'[k].wav = disk[k].wav
      /\ disk'[k].pcm = disk[k].pcm
      /\ disk'[k].out.data = disk[k].out.data
      /\ disk'[k].out.synced = Len(disk[k].out.data)
  BY <1>3, SyncCopyIs
<1>5. Typed'
  BY <1>2, <1>3, <1>4, NamesIs DEF Typed, Acted
<1> QED BY <1>2, <1>3, <1>4, <1>5 DEF DidSyncCopy, Others

LEMMA CopyEffect ==
    ASSUME Typed, Planned, CopyPart
    PROVE  Typed' /\ \E k \in Tracks : DidCopy(k)
<1>1. Doing("copy") /\ Done(<<>>) /\ "copy" \in FileOps
  BY RankIs DEF CopyPart
<1>2. PICK k \in Tracks : Track = k /\ Acted("copy", k) /\ work' \in Seq(Steps)
  BY <1>1, ActedIs
<1>3. /\ FilesTyped /\ UNCHANGED <<buffer, durable>>
      /\ disk' = [disk EXCEPT ![k].wav = "tmp",
                              ![k].out = [data |-> disk[k].pcm.data, synced |-> 0]]
  BY <1>2 DEF CopyPart, Typed
<1>4. /\ FilesTyped' /\ \A t \in Tracks \ {k} : disk'[t] = disk[t]
      /\ disk'[k].part = disk[k].part /\ disk'[k].wav = "tmp"
      /\ disk'[k].pcm = disk[k].pcm
      /\ disk'[k].out.data = disk[k].pcm.data /\ disk'[k].out.synced = 0
  BY <1>3, CopyIs
<1>5. Typed'
  BY <1>2, <1>3, <1>4 DEF Typed, Acted
<1> QED BY <1>2, <1>3, <1>4, <1>5 DEF DidCopy, Others

LEMMA RenameEffect ==
    ASSUME Typed, Planned, RenameCopy
    PROVE  Typed' /\ \E k \in Tracks : DidRename(k)
<1>1. Doing("rename") /\ Done(<<>>) /\ "rename" \in FileOps
  BY RankIs DEF RenameCopy
<1>2. PICK k \in Tracks : Track = k /\ Acted("rename", k) /\ work' \in Seq(Steps)
  BY <1>1, ActedIs
<1>3. FilesTyped /\ UNCHANGED <<buffer, durable>> /\ disk' = [disk EXCEPT ![k].wav = "wav"]
  BY <1>2 DEF RenameCopy, Typed
<1>4. /\ FilesTyped' /\ \A t \in Tracks \ {k} : disk'[t] = disk[t]
      /\ disk'[k].part = disk[k].part /\ disk'[k].wav = "wav"
      /\ disk'[k].pcm = disk[k].pcm /\ disk'[k].out = disk[k].out
  BY <1>3, RenameIs
<1>5. Typed'
  BY <1>2, <1>3, <1>4 DEF Typed, Acted
<1> QED BY <1>2, <1>3, <1>4, <1>5 DEF DidRename, Others

LEMMA RemoveEffect ==
    ASSUME Typed, Planned, RemovePart
    PROVE  Typed' /\ \E k \in Tracks : DidRemove(k)
<1>1. Doing("remove") /\ Done(<<>>) /\ "remove" \in FileOps
  BY RankIs DEF RemovePart
<1>2. PICK k \in Tracks : Track = k /\ Acted("remove", k) /\ work' \in Seq(Steps)
  BY <1>1, ActedIs
<1>3. FilesTyped /\ UNCHANGED <<buffer, durable>> /\ disk' = [disk EXCEPT ![k].part = FALSE]
  BY <1>2 DEF RemovePart, Typed
<1>4. /\ FilesTyped' /\ \A t \in Tracks \ {k} : disk'[t] = disk[t]
      /\ disk'[k].part = FALSE /\ disk'[k].wav = disk[k].wav
      /\ disk'[k].pcm = disk[k].pcm /\ disk'[k].out = disk[k].out
  BY <1>3, OpenIs
<1>5. Typed'
  BY <1>2, <1>3, <1>4 DEF Typed, Acted
<1> QED BY <1>2, <1>3, <1>4, <1>5 DEF DidRemove, Others

LEMMA ExamineEffect ==
    ASSUME Typed, Planned, ExaminePart
    PROVE  Typed' /\ \E k \in Tracks : DidExamine(k) \/ DidRefuse(k)
<1>1. /\ Doing("examine") /\ work \in Seq(Steps) /\ work # <<>> /\ InPlan(work)
      /\ UNCHANGED <<control, queue, past, buffer, disk, durable>>
  BY DEF ExaminePart, ExamineFor, Typed, Planned, Doing
<1>2. Track \in Tracks /\ Head(work) = Step("examine", Track) /\ "examine" \in Todo(Track)
  BY <1>1, HeadIs DEF Doing
<1>3. PICK k \in Tracks : k = Track
  BY <1>2
<1>4. FilesTyped' = FilesTyped
  BY <1>1 DEF FilesTyped
<1>5. CASE Published(k) /\ ~SameLength(k)
  <2>1. work' = <<>> /\ writer' = [writer EXCEPT !.ok = FALSE]
    BY <1>3, <1>5 DEF ExaminePart, ExamineFor
  <2>2. work' \in Seq(Steps) /\ InPlan(work') /\ \A t \in Tracks : Todo(t)' = {}
    BY <2>1, WorkOver
  <2>3. writer'.pc = writer.pc /\ writer'.call = writer.call /\ ~writer'.ok
    BY <2>1 DEF Typed
  <2>4. Typed'
    BY <1>1, <1>4, <2>1, <2>2 DEF Typed
  <2> QED BY <1>1, <1>2, <1>3, <1>5, <2>1, <2>2, <2>3, <2>4 DEF DidRefuse
<1>6. CASE ~(Published(k) /\ ~SameLength(k))
  <2>1. Done(IF Published(k) THEN <<Step("remove", Track)>> ELSE Publishing)
    BY <1>3, <1>6 DEF ExaminePart, ExamineFor
  <2>2. UNCHANGED writer
    BY <2>1 DEF Done
  <2>3. /\ Publishing \in Seq(Steps) /\ InPlan(Publishing)
        /\ \A i \in DOMAIN Publishing : Publishing[i].track = k
        /\ {op \in FileOps : \E i \in DOMAIN Publishing : Publishing[i] = Step(op, k)}
             = {"copy", "syncCopy", "rename", "remove"}
        /\ <<Step("remove", Track)>> \in Seq(Steps) /\ InPlan(<<Step("remove", Track)>>)
        /\ \A i \in DOMAIN <<Step("remove", Track)>> : <<Step("remove", Track)>>[i].track = k
        /\ {op \in FileOps : \E i \in DOMAIN <<Step("remove", Track)>> :
              <<Step("remove", Track)>>[i] = Step(op, k)} = {"remove"}
    BY <1>3, WorkPublishes
  <2>4. PICK steps \in Seq(Steps) :
           /\ steps = IF Published(k) THEN <<Step("remove", Track)>> ELSE Publishing
           /\ InPlan(steps) /\ \A i \in DOMAIN steps : steps[i].track = k
           /\ {op \in FileOps : \E i \in DOMAIN steps : steps[i] = Step(op, k)}
                = IF Published(k) THEN {"remove"} ELSE {"copy", "syncCopy", "rename", "remove"}
    <3>1. CASE Published(k)
      BY <2>3, <3>1
    <3>2. CASE ~Published(k)
      BY <2>3, <3>2
    <3> QED BY <3>1, <3>2
  <2>5. work' = steps \o Tail(work)
    BY <2>1, <2>4 DEF Done
  <2>6. /\ work' \in Seq(Steps) /\ InPlan(work')
        /\ \A t \in Tracks \ {k} : Todo(t)' = Todo(t)
        /\ Todo(k) = {"examine"}
        /\ Todo(k)' = {op \in FileOps : \E i \in DOMAIN steps : steps[i] = Step(op, k)}
    BY <1>1, <1>2, <1>3, <2>4, <2>5, WorkAsked
  <2>7. Typed'
    BY <1>1, <1>4, <2>2, <2>6 DEF Typed
  <2> QED BY <1>1, <1>6, <2>2, <2>4, <2>6, <2>7 DEF DidExamine
<1> QED BY <1>5, <1>6

LEMMA FailureEffect ==
    ASSUME Typed, Planned, OperationFails
    PROVE  Typed' /\ DidFail
<1>1. /\ work \in Seq(Steps) /\ work # <<>> /\ work' = <<>>
      /\ writer' = [writer EXCEPT !.ok = FALSE] /\ past' = [past EXCEPT !.ioFailed = TRUE]
      /\ UNCHANGED <<control, queue, durable>> /\ FilesTyped
  BY DEF OperationFails, Typed
<1>2. work' \in Seq(Steps) /\ InPlan(work') /\ \A t \in Tracks : Todo(t)' = {}
  BY <1>1, WorkOver
<1>3. writer'.pc = writer.pc /\ writer'.call = writer.call /\ ~writer'.ok
  BY <1>1 DEF Typed
<1>4. /\ FilesTyped' /\ \A t \in Tracks : Grown(t) /\ Written(t)' = Written(t)
      /\ \A t \in Tracks : buffer[t] = <<>> => buffer'[t] = <<>> /\ disk'[t] = disk[t]
  <2>1. CASE Head(work).op = "flush"
    <3>1. PICK k \in Tracks : k = Track
      BY <1>1, HeadIs
    <3>2. PICK n \in 0..Len(buffer[k]) :
             /\ disk' = [disk EXCEPT ![k].pcm.data = @ \o SubSeq(buffer[k], 1, n)]
             /\ buffer' = [buffer EXCEPT ![k] = SubSeq(@, n + 1, Len(@))]
      BY <2>1, <3>1 DEF OperationFails
    <3> DEFINE a == SubSeq(buffer[k], 1, n)
               b == SubSeq(buffer[k], n + 1, Len(buffer[k]))
    <3>3. buffer[k] \in Seq(Nat)
      BY <1>1 DEF FilesTyped
    <3>4. a \in Seq(Nat) /\ b \in Seq(Nat) /\ a \o b = buffer[k]
      BY <3>3, Cut
    <3>5. disk' = [disk EXCEPT ![k].pcm.data = @ \o a] /\ buffer' = [buffer EXCEPT ![k] = b]
      BY <3>2
    <3>6. buffer[k] = <<>> => a = <<>> /\ b = <<>>
      <4>1. buffer[k] = <<>> => n = 0 /\ Len(buffer[k]) = 0
        OBVIOUS
      <4> QED BY <4>1, SubSeqEmpty
    <3> HIDE DEF a, b
    <3>7. /\ FilesTyped' /\ \A t \in Tracks : Grown(t)
          /\ Written(k)' = disk[k].pcm.data \o (a \o b)
          /\ \A t \in Tracks \ {k} : Written(t)' = Written(t)
      BY <1>1, <3>4, <3>5, GrowthIs
    <3>8. Written(k)' = Written(k)
      BY <3>4, <3>7 DEF Written
    <3>9. buffer[k] = <<>> => buffer'[k] = <<>> /\ disk'[k] = disk[k]
      <4>1. disk' = [disk EXCEPT ![k].pcm.data = @ \o a] /\ buffer'[k] = b
        BY <1>1, <3>5 DEF FilesTyped
      <4>2. /\ disk[k] \in Entries /\ disk[k].pcm \in Files /\ disk[k].pcm.data \in Seq(Nat)
        BY <1>1 DEF FilesTyped, Entries, Files
      <4>3. disk[k].pcm.data \o <<>> = disk[k].pcm.data
        BY <4>2, ConcatEmptySeq
      <4>4. disk'[k] \in Entries /\ Grown(k)
        BY <3>7 DEF FilesTyped
      <4>5. disk'[k] = [disk[k] EXCEPT !.pcm.data = @ \o a]
        BY <1>1, <3>5 DEF FilesTyped
      <4>6. disk[k].pcm.data \o a \in Seq(Nat)
        BY <3>4, <4>2, Extends
      <4>7. disk'[k].pcm.data = disk[k].pcm.data \o a
        <5>1. disk[k] \in Entries
          BY <4>2
        <5> QED BY <4>5, <4>6, <5>1, GrowEntry, ZenonT(30)
      <4>8. a = <<>> => disk'[k].pcm = disk[k].pcm
        <5>1. disk'[k].pcm \in Files /\ disk'[k].pcm.synced = disk[k].pcm.synced
          BY <4>4 DEF Grown, Entries
        <5>2. a = <<>> => disk'[k].pcm.data = disk[k].pcm.data
          BY <4>3, <4>7
        <5> QED BY <4>2, <5>1, <5>2 DEF Files
      <4>9. a = <<>> => disk'[k] = disk[k]
        BY <4>2, <4>4, <4>8 DEF Grown, Entries
      <4> QED BY <3>6, <4>1, <4>9
    <3>10. \A t \in Tracks \ {k} : disk'[t] = disk[t] /\ buffer'[t] = buffer[t]
      BY <1>1, <3>5 DEF FilesTyped
    <3> QED BY <3>7, <3>8, <3>9, <3>10
  <2>2. CASE Head(work).op # "flush"
    <3>1. UNCHANGED <<disk, buffer>>
      BY <2>2 DEF OperationFails
    <3>2. \A t \in Tracks : IsPrefix(disk[t].pcm.data, disk[t].pcm.data)
      BY <1>1, PrefixRefl DEF FilesTyped, Entries, Files
    <3> QED BY <1>1, <3>1, <3>2 DEF FilesTyped, Grown, Written
  <2> QED BY <2>1, <2>2
<1>5. Typed'
  BY <1>1, <1>2, <1>4 DEF Typed, Histories
<1> QED BY <1>1, <1>2, <1>3, <1>4, <1>5 DEF DidFail

-----------------------------------------------------------------------------
(* The writer, a crash and a recovery, as the invariant sees them *)

\* A chunk of the track k is taken from the queue and kept.
DidWrite(k) ==
    /\ writer.pc = "loop" /\ queue # <<>> /\ Head(queue).kind = k /\ queue' = Tail(queue)
    /\ \A t \in Tracks : Grown(t)
    /\ Written(k)' = Append(Written(k), Head(queue).chunk)
    /\ \A t \in Tracks \ {k} : Written(t)' = Written(t)
    /\ UNCHANGED <<control, writer, work, durable, past>>

Left ==
    /\ \A t \in Tracks : /\ Grown(t) /\ buffer'[t] = <<>>
                         /\ IsPrefix(disk'[t].pcm.data, Written(t))
                         /\ buffer[t] = <<>> => disk'[t] = disk[t]
    /\ writer' = NoWriter /\ queue' = <<>>
    /\ UNCHANGED <<work, durable>>

\* A chunk cannot be written: the writer ends.
DidGiveUp ==
    /\ Left /\ UNCHANGED past /\ writer.pc = "loop"
    /\ control' = IF control.pc = "waiting" THEN Returned ELSE control

DidCrash ==
    /\ control.pc # "down" /\ control' = [pc |-> "down", call |-> "none"]
    /\ queue' = <<>> /\ writer' = NoWriter /\ work' = <<>> /\ UNCHANGED durable
    /\ InPlan(work') /\ \A t \in Tracks : Todo(t)' = {} /\ buffer'[t] = <<>>
    /\ past'.reported = past.reported /\ past'.accepted = past.accepted
    /\ past'.asked = past.asked /\ past'.chunks = past.chunks
    /\ past'.crashes = past.crashes + 1 /\ past'.ioFailed = past.ioFailed
    /\ \/ /\ disk' = disk
          /\ past'.powerLost = past.powerLost /\ past'.finalized = past.finalized
       \/ /\ past'.powerLost /\ ~past'.finalized
          /\ \A t \in Tracks :
                /\ disk'[t].part = durable[t].part /\ disk'[t].wav = durable[t].wav
                /\ IsPrefix(Safe(disk[t].pcm), disk'[t].pcm.data)
                /\ IsPrefix(disk'[t].pcm.data, disk[t].pcm.data)
                /\ disk'[t].pcm.synced = Len(disk'[t].pcm.data)
                /\ IsPrefix(Safe(disk[t].out), disk'[t].out.data)
                /\ IsPrefix(disk'[t].out.data, disk[t].out.data)
                /\ disk'[t].out.synced = Len(disk'[t].out.data)

SameHistory ==
    /\ past'.chunks = past.chunks /\ past'.crashes = past.crashes
    /\ past'.ioFailed = past.ioFailed /\ past'.powerLost = past.powerLost
    /\ past'.finalized = past.finalized /\ past'.accepted = past.accepted
    /\ past'.asked = past.asked /\ past'.reported = past.reported

\* The steps that leave the files alone
Quiet == UNCHANGED <<buffer, disk>>

DidStart ==
    /\ Quiet /\ UNCHANGED <<queue, durable>> /\ control.pc = "idle"
    /\ \A t \in Tracks : ~Published(t)
    /\ control'.pc = "opening" /\ control'.call = control.call
    /\ work' # <<>> /\ InPlan(work') /\ \A t \in Tracks : Todo(t)' = {"open"}
    /\ writer' = NoWriter
    /\ SameHistory

DidStarted ==
    /\ Quiet /\ control.pc = "opening" /\ work = <<>>
    /\ UNCHANGED <<queue, work, durable>> /\ control'.call = control.call
    /\ IF writer.ok
       THEN /\ control'.pc = "live" /\ writer'.pc = "loop"
            /\ writer'.call = writer.call /\ writer'.ok = writer.ok
            /\ \A t \in Tracks : past'.accepted[t] = disk[t].pcm.data
            /\ past'.reported = past.reported /\ past'.finalized = past.finalized
            /\ past'.chunks = past.chunks /\ past'.asked = past.asked
            /\ past'.ioFailed = past.ioFailed /\ past'.powerLost = past.powerLost
       ELSE control'.pc = "idle" /\ UNCHANGED <<writer, past>>

DidAppend(track) ==
    /\ Quiet /\ UNCHANGED <<control, writer, work, durable>>
    /\ control.pc = "live" \/ control.call = "checkpoint"
    /\ writer.pc # "none"
    /\ queue' = Append(queue, Command(track, past.chunks + 1))
    /\ past'.chunks = past.chunks + 1
    /\ past'.accepted = [past.accepted EXCEPT ![track] = Append(@, past.chunks + 1)]
    /\ past'.reported = past.reported /\ past'.finalized = past.finalized
    /\ past'.asked = past.asked
    /\ past'.ioFailed = past.ioFailed /\ past'.powerLost = past.powerLost

DidAsk(kind) ==
    /\ Quiet /\ UNCHANGED <<queue, writer, work, durable>> /\ SameHistory
    /\ control.pc = "live" /\ control'.pc = "sending" /\ control'.call = kind

DidSend ==
    /\ Quiet /\ UNCHANGED <<writer, work, durable>> /\ control.pc = "sending"
    /\ \/ /\ writer.pc = "none" /\ control' = Returned /\ UNCHANGED <<queue, past>>
       \/ /\ writer.pc # "none" /\ queue' = Append(queue, Command(control.call, 0))
          /\ control.call \in CallKinds
          /\ control'.pc = "waiting" /\ control'.call = control.call
          /\ past'.asked = past.accepted
          /\ past'.chunks = past.chunks /\ past'.accepted = past.accepted
          /\ past'.reported = past.reported /\ past'.finalized = past.finalized
          /\ past'.ioFailed = past.ioFailed /\ past'.powerLost = past.powerLost

DidReceive(kind) ==
    /\ Quiet /\ UNCHANGED <<control, durable, past>>
    /\ writer.pc = "loop" /\ queue # <<>> /\ queue' = Tail(queue)
    /\ Head(queue).kind = kind
    /\ writer' = [pc |-> "serving", call |-> kind, ok |-> TRUE]
    /\ work' # <<>> /\ InPlan(work')
    /\ \A t \in Tracks :
          Todo(t)' = {"flush", "sync"} \cup {x \in {"examine"} : kind = "finalize"}

DidRespond ==
    /\ writer.pc = "serving" /\ work = <<>> /\ work' = work
    /\ control' = Returned /\ durable' = durable
    /\ past'.chunks = past.chunks /\ past'.accepted = past.accepted
    /\ past'.asked = past.asked /\ past'.ioFailed = past.ioFailed
    /\ past'.powerLost = past.powerLost
    /\ IF writer.ok
       THEN past'.reported = past.asked /\ past'.finalized = (writer.call = "finalize")
       ELSE past'.reported = past.reported /\ past'.finalized = past.finalized
    /\ IF writer.call = "checkpoint"
       THEN /\ writer'.pc = "loop" /\ writer'.call = writer.call /\ writer'.ok = writer.ok
            /\ UNCHANGED <<queue, buffer, disk>>
       ELSE Left

DidSettle ==
    /\ Quiet /\ durable' = Names(disk)
    /\ UNCHANGED <<control, queue, writer, work, past>>

DidRecover ==
    /\ Quiet /\ UNCHANGED <<queue, writer, durable>> /\ control.pc = "down"
    /\ control'.pc = "recovering" /\ control'.call = control.call
    /\ InPlan(work') /\ \A t \in Tracks : Todo(t)' = {x \in {"examine"} : disk[t].part}
    /\ past'.chunks = past.chunks /\ past'.accepted = past.accepted
    /\ past'.asked = past.asked /\ ~past'.ioFailed /\ past'.powerLost = past.powerLost
    /\ past'.reported = past.reported /\ past'.finalized = past.finalized

DidEnd ==
    /\ Quiet /\ UNCHANGED <<queue, writer, work, durable, past>>
    /\ control.pc = "recovering" /\ work = <<>>
    /\ control'.pc = "recovered" /\ control'.call = control.call

LEMMA LeftIs ==
    ASSUME Typed, WriterLeaves, UNCHANGED <<work, durable>>
    PROVE  Left /\ FilesTyped' /\ writer' \in [pc : {"none", "loop", "serving"},
                                               call : CallKinds \cup {"none"}, ok : BOOLEAN]
           /\ queue' \in Seq(Commands)
<1>1. FilesTyped
  BY DEF Typed
<1>2. /\ FilesTyped'
      /\ \A t \in Tracks : Grown(t) /\ IsPrefix(disk'[t].pcm.data, Written(t))
      /\ \A t \in Tracks : buffer'[t] = <<>>
      /\ \A t \in Tracks : buffer[t] = <<>> => disk'[t] = disk[t]
      /\ writer' = NoWriter /\ queue' = <<>>
  BY <1>1, LeavingIs
<1>3. NoWriter \in [pc : {"none", "loop", "serving"}, call : CallKinds \cup {"none"}, ok : BOOLEAN]
  BY DEF NoWriter
<1>4. <<>> \in Seq(Commands)
  BY EmptySeq
<1> QED BY <1>2, <1>3, <1>4 DEF Left

LEMMA ReturnedIs ==
    /\ Returned.call = "none"
    /\ Returned.pc = IF control.call = "checkpoint" THEN "live" ELSE "idle"
    /\ Returned \in [pc : Places, call : CallKinds \cup {"none"}]
BY DEF Returned, Places

LEMMA HeadOfQueue ==
    ASSUME queue \in Seq(Commands), queue # <<>>
    PROVE  /\ Head(queue) \in Commands /\ Head(queue) = queue[1] /\ 1 \in DOMAIN queue
           /\ Tail(queue) \in Seq(Commands)
           /\ Len(Tail(queue)) = Len(queue) - 1 /\ Len(queue) \in Nat
           /\ \A i \in 1..Len(Tail(queue)) : Tail(queue)[i] = queue[i + 1]
<1>1. Head(queue) \in Commands /\ Head(queue) = queue[1] /\ 1 \in DOMAIN queue
  BY HeadTailProperties, EmptySeq
<1>2. /\ Tail(queue) \in Seq(Commands) /\ Len(Tail(queue)) = Len(queue) - 1
      /\ \A i \in 1..Len(Tail(queue)) : Tail(queue)[i] = queue[i + 1]
  BY HeadTailProperties
<1> QED BY <1>1, <1>2

LEMMA WriteEffect ==
    ASSUME Typed, WriteChunk
    PROVE  Typed' /\ ((\E k \in Tracks : DidWrite(k)) \/ DidGiveUp)
<1> DEFINE caller == IF control.pc = "waiting" THEN Returned ELSE control
<1>1. /\ writer.pc = "loop" /\ queue # <<>> /\ Head(queue).kind \in Tracks
      /\ UNCHANGED <<work, durable, past>>
  BY DEF WriteChunk, WriteChunkTelling
<1>2. FilesTyped /\ queue \in Seq(Commands)
  BY DEF Typed
<1>3. Head(queue).chunk \in Nat /\ Tail(queue) \in Seq(Commands)
  BY <1>1, <1>2, HeadOfQueue DEF Commands
<1>4. PICK k \in Tracks : k = Head(queue).kind
  BY <1>1
<1>5. PICK c \in Nat : c = Head(queue).chunk
  BY <1>3
<1> DEFINE pending == Append(buffer[k], c)
<1>6. CASE /\ \E n \in {0, Len(pending) - 1, Len(pending)} :
                 /\ disk' = [disk EXCEPT ![k].pcm.data = @ \o SubSeq(pending, 1, n)]
                 /\ buffer' = [buffer EXCEPT ![k] = SubSeq(pending, n + 1, Len(pending))]
           /\ queue' = Tail(queue)
           /\ UNCHANGED <<control, writer>>
  <2>1. pending \in Seq(Nat) /\ Len(pending) \in Nat \ {0} /\ buffer[k] \in Seq(Nat)
    BY <1>2, AppendProperties DEF FilesTyped
  <2>2. disk[k].pcm.data \o pending = Append(Written(k), c)
    <3>1. disk[k].pcm.data \in Seq(Nat)
      BY <1>2 DEF FilesTyped, Entries, Files
    <3>2. pending = buffer[k] \o <<c>>
      BY <2>1, AppendIsConcat
    <3>3. Written(k) \in Seq(Nat)
      BY <2>1, <3>1, Extends DEF Written
    <3>4. Append(Written(k), c) = Written(k) \o <<c>>
      BY <3>3, AppendIsConcat
    <3>5. <<c>> \in Seq(Nat)
      OBVIOUS
    <3>6. (disk[k].pcm.data \o buffer[k]) \o <<c>> = disk[k].pcm.data \o (buffer[k] \o <<c>>)
      BY <2>1, <3>1, <3>5, Regroup
    <3> QED BY <3>2, <3>4, <3>6 DEF Written
  <2> HIDE DEF pending
  <2>3. PICK n \in 0..Len(pending) :
           /\ disk' = [disk EXCEPT ![k].pcm.data = @ \o SubSeq(pending, 1, n)]
           /\ buffer' = [buffer EXCEPT ![k] = SubSeq(pending, n + 1, Len(pending))]
    <3>1. PICK n \in {0, Len(pending) - 1, Len(pending)} :
             /\ disk' = [disk EXCEPT ![k].pcm.data = @ \o SubSeq(pending, 1, n)]
             /\ buffer' = [buffer EXCEPT ![k] = SubSeq(pending, n + 1, Len(pending))]
      BY <1>6 DEF pending
    <3>2. n \in 0..Len(pending)
      BY <2>1
    <3> QED BY <3>1, <3>2
  <2> DEFINE a == SubSeq(pending, 1, n)
             b == SubSeq(pending, n + 1, Len(pending))
  <2>4. a \in Seq(Nat) /\ b \in Seq(Nat) /\ a \o b = pending
    BY <2>1, Cut
  <2>5. disk' = [disk EXCEPT ![k].pcm.data = @ \o a] /\ buffer' = [buffer EXCEPT ![k] = b]
    BY <2>3
  <2> HIDE DEF a, b
  <2>6. /\ FilesTyped' /\ \A t \in Tracks : Grown(t)
        /\ Written(k)' = disk[k].pcm.data \o (a \o b)
        /\ \A t \in Tracks \ {k} : Written(t)' = Written(t)
    BY <1>2, <2>4, <2>5, GrowthIs
  <2>7. Written(k)' = Append(Written(k), c)
    BY <2>2, <2>4, <2>6
  <2>8. DidWrite(k)
    BY <1>1, <1>4, <1>5, <1>6, <2>6, <2>7 DEF DidWrite
  <2>9. Typed'
    BY <1>1, <1>3, <1>6, <2>6 DEF Typed
  <2> QED BY <2>8, <2>9
<1>7. CASE WriterLeaves /\ control' = caller
  <2>1. /\ Left /\ FilesTyped'
        /\ writer' \in [pc : {"none", "loop", "serving"}, call : CallKinds \cup {"none"}, ok : BOOLEAN]
        /\ queue' \in Seq(Commands)
    BY <1>1, <1>7, LeftIs
  <2>2. control' \in [pc : Places, call : CallKinds \cup {"none"}]
    BY <1>7, ReturnedIs DEF Typed
  <2>3. Typed'
    BY <1>1, <2>1, <2>2 DEF Typed
  <2> QED BY <1>1, <1>7, <2>1, <2>3 DEF DidGiveUp
<1>8. \/ /\ \E n \in {0, Len(pending) - 1, Len(pending)} :
               /\ disk' = [disk EXCEPT ![k].pcm.data = @ \o SubSeq(pending, 1, n)]
               /\ buffer' = [buffer EXCEPT ![k] = SubSeq(pending, n + 1, Len(pending))]
         /\ queue' = Tail(queue)
         /\ UNCHANGED <<control, writer>>
      \/ WriterLeaves /\ control' = caller
  BY <1>4, <1>5 DEF WriteChunk, WriteChunkTelling
<1> QED BY <1>6, <1>7, <1>8

LEMMA RespondEffect ==
    ASSUME Typed, Respond
    PROVE  Typed' /\ DidRespond
<1>1. /\ control' = Returned /\ UNCHANGED <<work, durable>>
      /\ past' = IF writer.ok
                 THEN [past EXCEPT !.reported = past.asked,
                                   !.finalized = writer.call = "finalize"]
                 ELSE past
  BY DEF Respond
<1>2. past' \in Histories
  <2>1. past \in Histories /\ past.asked \in [Tracks -> Seq(Nat)]
        /\ (writer.call = "finalize") \in BOOLEAN
    BY DEF Typed, Histories
  <2>2. [past EXCEPT !.reported = past.asked, !.finalized = writer.call = "finalize"] \in Histories
    BY <2>1 DEF Histories
  <2> QED BY <1>1, <2>1, <2>2
<1>5. /\ past'.chunks = past.chunks /\ past'.accepted = past.accepted
      /\ past'.asked = past.asked /\ past'.ioFailed = past.ioFailed
      /\ past'.powerLost = past.powerLost
      /\ IF writer.ok
         THEN past'.reported = past.asked /\ past'.finalized = (writer.call = "finalize")
         ELSE past'.reported = past.reported /\ past'.finalized = past.finalized
  <2>1. CASE writer.ok
    BY <1>1, <2>1 DEF Typed, Histories
  <2>2. CASE ~writer.ok
    BY <1>1, <2>2 DEF Typed, Histories
  <2> QED BY <2>1, <2>2
<1>3. CASE writer.call = "checkpoint"
  <2>1. writer' = [writer EXCEPT !.pc = "loop"] /\ UNCHANGED <<queue, buffer, disk>>
    BY <1>3 DEF Respond
  <2>2. FilesTyped' = FilesTyped
    BY <2>1 DEF FilesTyped
  <2>3. Typed'
    BY <1>1, <1>2, <2>1, <2>2, ReturnedIs DEF Typed
  <2>4. writer'.pc = "loop" /\ writer'.call = writer.call /\ writer'.ok = writer.ok
    BY <2>1 DEF Typed
  <2> QED BY <1>1, <1>3, <1>5, <2>1, <2>3, <2>4 DEF Respond, DidRespond
<1>4. CASE writer.call # "checkpoint"
  <2>1. WriterLeaves
    BY <1>4 DEF Respond
  <2>2. /\ Left /\ FilesTyped'
        /\ writer' \in [pc : {"none", "loop", "serving"}, call : CallKinds \cup {"none"}, ok : BOOLEAN]
        /\ queue' \in Seq(Commands)
    BY <1>1, <2>1, LeftIs
  <2>3. Typed'
    BY <1>1, <1>2, <2>2, ReturnedIs DEF Typed
  <2> QED BY <1>1, <1>4, <1>5, <2>2, <2>3 DEF Respond, DidRespond
<1> QED BY <1>3, <1>4

LEMMA CrashEffect ==
    ASSUME Typed, NEW kind \in Crashes, Crash(kind)
    PROVE  Typed' /\ DidCrash
<1>1. /\ control.pc # "down" /\ control' = [pc |-> "down", call |-> "none"]
      /\ queue' = <<>> /\ writer' = NoWriter /\ work' = <<>> /\ UNCHANGED durable
      /\ buffer' = [t \in Tracks |-> <<>>]
      /\ past' = [past EXCEPT !.crashes = @ + 1, !.powerLost = @ \/ kind = "power",
                              !.finalized = @ /\ kind # "power"]
  BY DEF Crash
<1>2. /\ work' \in Seq(Steps) /\ queue' \in Seq(Commands) /\ InPlan(work')
      /\ \A t \in Tracks : Todo(t)' = {} /\ buffer'[t] = <<>>
  BY <1>1, WorkOver, EmptySeq
<1>3. /\ control' \in [pc : Places, call : CallKinds \cup {"none"}]
      /\ writer' \in [pc : {"none", "loop", "serving"}, call : CallKinds \cup {"none"}, ok : BOOLEAN]
  BY <1>1 DEF Places, NoWriter
<1>4. /\ past'.reported = past.reported /\ past'.accepted = past.accepted
      /\ past'.asked = past.asked /\ past'.chunks = past.chunks
      /\ past'.crashes = past.crashes + 1 /\ past'.ioFailed = past.ioFailed
      /\ past'.powerLost = (past.powerLost \/ kind = "power")
      /\ past'.finalized = (past.finalized /\ kind # "power")
  BY <1>1 DEF Typed, Histories
<1>5. past' \in Histories
  <2>1. past.crashes + 1 \in Nat
    BY DEF Typed, Histories
  <2> QED BY <1>1, <2>1 DEF Typed, Histories
<1>6. FilesTyped
  BY DEF Typed
<1>7. CASE kind = "power"
  <2>1. PowerLoss
    BY <1>7 DEF Crash
  <2>2. /\ FilesTyped' /\ Names(disk') = durable
        /\ \A t \in Tracks :
              /\ IsPrefix(Safe(disk[t].pcm), disk'[t].pcm.data)
              /\ IsPrefix(disk'[t].pcm.data, disk[t].pcm.data)
              /\ disk'[t].pcm.synced = Len(disk'[t].pcm.data)
              /\ IsPrefix(Safe(disk[t].out), disk'[t].out.data)
              /\ IsPrefix(disk'[t].out.data, disk[t].out.data)
              /\ disk'[t].out.synced = Len(disk'[t].out.data)
    BY <1>1, <1>6, <2>1, LossIs
  <2>3. \A t \in Tracks : disk'[t].part = durable[t].part /\ disk'[t].wav = durable[t].wav
    BY <2>2 DEF Names
  <2>4. Typed'
    BY <1>1, <1>2, <1>3, <1>5, <2>2 DEF Typed
  <2>5. past'.powerLost /\ ~past'.finalized
    BY <1>4, <1>7
  <2> QED BY <1>1, <1>2, <1>4, <2>2, <2>3, <2>4, <2>5 DEF DidCrash
<1>8. CASE kind # "power"
  <2>1. disk' = disk
    BY <1>8 DEF Crash
  <2>2. FilesTyped'
    BY <1>1, <1>6, <2>1, EmptySeq DEF FilesTyped
  <2>3. Typed'
    BY <1>1, <1>2, <1>3, <1>5, <2>2 DEF Typed
  <2>4. past'.powerLost = past.powerLost /\ past'.finalized = past.finalized
    BY <1>4, <1>8 DEF Typed, Histories
  <2> QED BY <1>1, <1>2, <1>4, <2>1, <2>3, <2>4 DEF DidCrash
<1> QED BY <1>7, <1>8

LEMMA StartEffect ==
    ASSUME Typed, Start
    PROVE  Typed' /\ DidStart
<1>1. /\ control' = [control EXCEPT !.pc = "opening"] /\ writer' = NoWriter
      /\ past' = [past EXCEPT !.calls = @ + 1] /\ UNCHANGED <<queue, buffer, disk, durable>>
      /\ work' = <<Step("open", MicTrack), Step("open", SystemTrack)>>
      /\ control.pc = "idle" /\ \A t \in Tracks : ~Published(t)
  BY DEF Start, Published
<1>2. /\ work' \in Seq(Steps) /\ work' # <<>> /\ InPlan(work')
      /\ \A t \in Tracks : Todo(t)' = {"open"}
  BY <1>1, WorkOfStart
<1>3. /\ control' \in [pc : Places, call : CallKinds \cup {"none"}]
      /\ control'.pc = "opening" /\ control'.call = control.call
      /\ writer' \in [pc : {"none", "loop", "serving"}, call : CallKinds \cup {"none"}, ok : BOOLEAN]
  BY <1>1 DEF Typed, Places, NoWriter
<1>4. past' \in Histories
  <2>1. past.calls + 1 \in Nat
    BY DEF Typed, Histories
  <2> QED BY <1>1, <2>1 DEF Typed, Histories
<1>5. FilesTyped' = FilesTyped
  BY <1>1 DEF FilesTyped
<1>6. SameHistory
  BY <1>1 DEF Typed, Histories, SameHistory
<1>7. Typed'
  BY <1>1, <1>2, <1>3, <1>4, <1>5 DEF Typed
<1> QED BY <1>1, <1>2, <1>3, <1>6, <1>7 DEF Quiet, DidStart

LEMMA SameWork ==
    ASSUME work' = work, InPlan(work)
    PROVE  InPlan(work') /\ \A t \in Tracks : Todo(t)' = Todo(t)
BY DEF Todo, TodoIn

LEMMA StartedEffect ==
    ASSUME Typed, Started
    PROVE  Typed' /\ DidStarted
<1>1. [t \in Tracks |-> disk[t].pcm.data] \in [Tracks -> Seq(Nat)]
  BY DEF Typed, FilesTyped, Entries, Files
<1>2. /\ control.pc = "opening" /\ work = <<>>
      /\ UNCHANGED <<queue, buffer, work, disk, durable>>
  BY DEF Started
<1>3. FilesTyped' = FilesTyped
  BY <1>2 DEF FilesTyped
<1>4. CASE writer.ok
  <2>1. /\ control' = [control EXCEPT !.pc = "live"] /\ writer' = [writer EXCEPT !.pc = "loop"]
        /\ past' = [past EXCEPT !.accepted = [t \in Tracks |-> disk[t].pcm.data]]
    BY <1>4 DEF Started
  <2>2. past' \in Histories
    BY <1>1, <2>1 DEF Typed, Histories
  <2>3. Typed'
    BY <1>2, <1>3, <2>1, <2>2 DEF Typed, Places
  <2>4. /\ control'.pc = "live" /\ control'.call = control.call
        /\ writer'.pc = "loop" /\ writer'.call = writer.call /\ writer'.ok = writer.ok
    BY <2>1 DEF Typed
  <2>5. /\ past'.accepted = [t \in Tracks |-> disk[t].pcm.data]
        /\ past'.reported = past.reported /\ past'.finalized = past.finalized
        /\ past'.chunks = past.chunks /\ past'.asked = past.asked
        /\ past'.ioFailed = past.ioFailed /\ past'.powerLost = past.powerLost
    BY <2>1 DEF Typed, Histories
  <2> QED BY <1>2, <1>4, <2>1, <2>3, <2>4, <2>5, ZenonT(60) DEF Quiet, DidStarted
<1>5. CASE ~writer.ok
  <2>1. control' = [control EXCEPT !.pc = "idle"] /\ UNCHANGED <<writer, past>>
    BY <1>5 DEF Started
  <2>2. Typed' /\ control'.pc = "idle" /\ control'.call = control.call
    BY <1>2, <1>3, <2>1 DEF Typed, Places
  <2> QED BY <1>2, <1>5, <2>1, <2>2 DEF Quiet, DidStarted
<1> QED BY <1>4, <1>5

LEMMA AppendEffect ==
    ASSUME Typed, NEW track \in Tracks, TryAppend(track)
    PROVE  Typed' /\ DidAppend(track)
<1>1. /\ queue' = Append(queue, Command(track, past.chunks + 1))
      /\ past' = [past EXCEPT !.chunks = @ + 1, !.accepted[track] = Append(@, past.chunks + 1)]
      /\ control.pc = "live" \/ control.call = "checkpoint"
      /\ writer.pc # "none"
      /\ UNCHANGED <<control, writer, buffer, work, disk, durable>>
  BY DEF TryAppend, AppendWhile
<1>2. past.chunks + 1 \in Nat /\ past.accepted \in [Tracks -> Seq(Nat)]
  BY DEF Typed, Histories
<1> DEFINE a == [past.accepted EXCEPT ![track] = Append(@, past.chunks + 1)]
<1>3. a \in [Tracks -> Seq(Nat)]
  <2>1. Append(past.accepted[track], past.chunks + 1) \in Seq(Nat)
    BY <1>2
  <2> QED BY <1>2, <2>1
<1>4. past' = [past EXCEPT !.chunks = past.chunks + 1, !.accepted = a]
  BY <1>1 DEF Typed, Histories
<1> HIDE DEF a
<1>5. /\ past' \in Histories /\ past'.chunks = past.chunks + 1 /\ past'.accepted = a
      /\ past'.reported = past.reported /\ past'.finalized = past.finalized
      /\ past'.asked = past.asked
      /\ past'.ioFailed = past.ioFailed /\ past'.powerLost = past.powerLost
  BY <1>2, <1>3, <1>4 DEF Typed, Histories
<1>6. queue' \in Seq(Commands)
  <2>1. Command(track, past.chunks + 1) \in Commands
    BY <1>2 DEF Command, Commands
  <2> QED BY <1>1, <2>1 DEF Typed
<1>7. FilesTyped' = FilesTyped
  BY <1>1 DEF FilesTyped
<1>8. Typed'
  BY <1>1, <1>5, <1>6, <1>7 DEF Typed
<1> QED BY <1>1, <1>5, <1>8 DEF Quiet, a, DidAppend

LEMMA AskEffect ==
    ASSUME Typed, NEW kind \in CallKinds, Ask(kind)
    PROVE  Typed' /\ DidAsk(kind)
<1>1. /\ UNCHANGED <<queue, writer, buffer, work, disk, durable>>
      /\ control.pc = "live" /\ control' = [pc |-> "sending", call |-> kind]
      /\ past' = [past EXCEPT !.calls = @ + 1]
  BY DEF Ask
<1>2. past.calls + 1 \in Nat
  BY DEF Typed, Histories
<1>3. past' \in Histories /\ SameHistory
  BY <1>1, <1>2 DEF Typed, Histories, SameHistory
<1>4. FilesTyped' = FilesTyped
  BY <1>1 DEF FilesTyped
<1>5. Typed'
  BY <1>1, <1>3, <1>4 DEF Typed, Places
<1> QED BY <1>1, <1>3, <1>5 DEF Quiet, DidAsk

LEMMA SendEffect ==
    ASSUME Typed, Protocol, SendCall
    PROVE  Typed' /\ DidSend
<1>1. control.pc = "sending" /\ UNCHANGED <<writer, buffer, work, disk, durable>>
  BY DEF SendCall
<1>2. FilesTyped' = FilesTyped
  BY <1>1 DEF FilesTyped
<1>3. CASE writer.pc = "none" /\ control' = Returned /\ UNCHANGED <<queue, past>>
  BY <1>1, <1>2, <1>3, ReturnedIs DEF Typed, Quiet, DidSend
<1>4. CASE /\ writer.pc # "none" /\ queue' = Append(queue, Command(control.call, 0))
           /\ control' = [control EXCEPT !.pc = "waiting"]
           /\ past' = [past EXCEPT !.asked = past.accepted]
  <2>1. control.call \in CallKinds
    BY <1>1 DEF Typed, Protocol
  <2>2. queue' \in Seq(Commands)
    <3>1. Command(control.call, 0) \in Commands
      BY <2>1 DEF Command, Commands
    <3> QED BY <1>4, <3>1 DEF Typed
  <2>3. /\ past' \in Histories /\ past'.asked = past.accepted
        /\ past'.chunks = past.chunks /\ past'.accepted = past.accepted
        /\ past'.reported = past.reported /\ past'.finalized = past.finalized
        /\ past'.ioFailed = past.ioFailed /\ past'.powerLost = past.powerLost
    BY <1>4 DEF Typed, Histories
  <2>4. control'.pc = "waiting" /\ control'.call = control.call
    BY <1>4 DEF Typed
  <2>5. Typed'
    BY <1>1, <1>2, <1>4, <2>2, <2>3 DEF Typed, Places
  <2> QED BY <1>1, <1>4, <2>1, <2>3, <2>4, <2>5 DEF Quiet, DidSend
<1> QED BY <1>3, <1>4 DEF SendCall

LEMMA ReceiveEffect ==
    ASSUME Typed, ReceiveCall
    PROVE  Typed' /\ \E kind \in CallKinds : DidReceive(kind)
<1>1. /\ writer.pc = "loop" /\ queue # <<>> /\ queue' = Tail(queue)
      /\ UNCHANGED <<control, buffer, disk, durable, past>>
      /\ Head(queue).kind \in CallKinds
  BY DEF ReceiveCall
<1>2. PICK kind \in CallKinds : kind = Head(queue).kind
  BY <1>1
<1>3. /\ writer' = [pc |-> "serving", call |-> kind, ok |-> TRUE]
      /\ work' = IF kind = "finalize" THEN CheckpointSteps \o FinalizeSteps ELSE CheckpointSteps
  BY <1>2 DEF ReceiveCall
<1>4. /\ work' \in Seq(Steps) /\ work' # <<>> /\ InPlan(work')
      /\ \A t \in Tracks :
            Todo(t)' = {"flush", "sync"} \cup {x \in {"examine"} : kind = "finalize"}
  BY <1>3, WorkOfCall
<1>5. FilesTyped' = FilesTyped
  BY <1>1 DEF FilesTyped
<1>6. queue' \in Seq(Commands)
  BY <1>1, HeadOfQueue DEF Typed
<1>7. Typed'
  BY <1>1, <1>3, <1>4, <1>5, <1>6 DEF Typed
<1> QED BY <1>1, <1>2, <1>3, <1>4, <1>7 DEF Quiet, DidReceive

LEMMA DirectoryEffect ==
    ASSUME Typed, DirectoryReachesMedium
    PROVE  Typed' /\ DidSettle
<1>1. /\ durable' = Names(disk) /\ UNCHANGED <<control, queue, writer, buffer, work, disk, past>>
  BY DEF DirectoryReachesMedium
<1>2. FilesTyped' = FilesTyped
  BY <1>1 DEF FilesTyped
<1> QED BY <1>1, <1>2, NamesIs DEF Typed, Quiet, DidSettle

LEMMA RecoverEffect ==
    ASSUME Typed, Recover
    PROVE  Typed' /\ DidRecover
<1>1. /\ control.pc = "down" /\ control' = [control EXCEPT !.pc = "recovering"]
      /\ work' = Interrupted(MicTrack) \o Interrupted(SystemTrack)
      /\ past' = [past EXCEPT !.ioFailed = FALSE]
      /\ UNCHANGED <<queue, writer, buffer, disk, durable>>
  BY DEF Recover
<1>2. /\ work' \in Seq(Steps) /\ InPlan(work')
      /\ \A t \in Tracks : Todo(t)' = {x \in {"examine"} : disk[t].part}
  BY <1>1, WorkOfRecovery
<1>3. /\ past' \in Histories
      /\ past'.chunks = past.chunks /\ past'.accepted = past.accepted
      /\ past'.asked = past.asked /\ ~past'.ioFailed /\ past'.powerLost = past.powerLost
      /\ past'.reported = past.reported /\ past'.finalized = past.finalized
  BY <1>1 DEF Typed, Histories
<1>4. FilesTyped' = FilesTyped
  BY <1>1 DEF FilesTyped
<1>5. Typed' /\ control'.pc = "recovering" /\ control'.call = control.call
  BY <1>1, <1>2, <1>3, <1>4 DEF Typed, Places
<1> QED BY <1>1, <1>2, <1>3, <1>5 DEF Quiet, DidRecover

LEMMA RecoveredEffect ==
    ASSUME Typed, Recovered
    PROVE  Typed' /\ DidEnd
<1>1. /\ control.pc = "recovering" /\ work = <<>>
      /\ control' = [control EXCEPT !.pc = "recovered"]
      /\ UNCHANGED <<queue, writer, buffer, work, disk, durable, past>>
  BY DEF Recovered
<1>2. FilesTyped' = FilesTyped
  BY <1>1 DEF FilesTyped
<1> QED BY <1>1, <1>2 DEF Typed, Places, Quiet, DidEnd

Happens ==
    \/ DidStart \/ DidStarted \/ (\E k \in Tracks : DidAppend(k))
    \/ (\E kind \in CallKinds : DidAsk(kind) \/ DidReceive(kind))
    \/ DidSend \/ DidGiveUp \/ DidRespond \/ DidFail
    \/ DidSettle \/ DidCrash \/ DidRecover \/ DidEnd
    \/ \E k \in Tracks :
          \/ DidWrite(k) \/ DidOpen(k) \/ DidFlush(k) \/ DidSync(k) \/ DidExamine(k)
          \/ DidRefuse(k) \/ DidCopy(k) \/ DidSyncCopy(k) \/ DidRename(k) \/ DidRemove(k)

LEMMA StepHappens ==
    ASSUME Typed, Protocol, Planned, Next
    PROVE  Typed' /\ Happens
<1>1. CASE Application
  BY <1>1, StartEffect, StartedEffect, AppendEffect, AskEffect, SendEffect
  DEF Application, Happens
<1>2. CASE WriterStep
  BY <1>2, WriteEffect, ReceiveEffect, RespondEffect DEF WriterStep, Happens
<1>3. CASE FileOperation
  BY <1>3, OpenEffect, FlushEffect, SyncEffect, ExamineEffect, CopyEffect, SyncCopyEffect,
     RenameEffect, RemoveEffect, FailureEffect
  DEF FileOperation, Happens
<1>4. CASE DirectoryReachesMedium \/ Recover \/ Recovered
  BY <1>4, DirectoryEffect, RecoverEffect, RecoveredEffect DEF Happens
<1>5. CASE \E kind \in Crashes : Crash(kind)
  BY <1>5, CrashEffect DEF Happens
<1> QED BY <1>1, <1>2, <1>3, <1>4, <1>5 DEF Next

\* An operation that is done leaves the tasks alone.
ActedOn(k) == \E op \in FileOps : Acted(op, k)

LEMMA ActedSome ==
    ASSUME NEW k \in Tracks,
           \/ DidOpen(k) \/ DidFlush(k) \/ DidSync(k) \/ DidCopy(k) \/ DidSyncCopy(k)
           \/ DidRename(k) \/ DidRemove(k)
    PROVE  ActedOn(k) /\ \A t \in Tracks : buffer[t] = <<>> => buffer'[t] = <<>>
BY RankIs DEF ActedOn, Others, DidOpen, DidFlush, DidSync, DidCopy, DidSyncCopy, DidRename, DidRemove

-----------------------------------------------------------------------------
(* The control thread, its call and the writer *)

LEMMA NoWork ==
    ASSUME work = <<>>
    PROVE  \A t \in Tracks : Todo(t) = {}
BY PlanOfNone DEF Todo

LEMMA ProtocolStays ==
    ASSUME Typed, Typed', Protocol, Happens
    PROVE  Protocol'
<1>0. /\ control' \in [pc : Places, call : CallKinds \cup {"none"}]
      /\ queue' \in Seq(Commands) /\ queue \in Seq(Commands)
      /\ CallKinds = {"checkpoint", "stop", "finalize"}
      /\ \A t \in Tracks : t \notin CallKinds
  BY DEF Typed, CallKinds, Tracks, MicTrack, SystemTrack
<1>1. CASE DidStart
  BY <1>0, <1>1 DEF DidStart, Protocol, Quiet, NoWriter
<1>2. CASE DidStarted
  BY <1>0, <1>2 DEF DidStarted, Protocol, Quiet
<1>3. CASE \E k \in Tracks : DidAppend(k)
  BY <1>0, <1>3 DEF DidAppend, Protocol, Quiet, Command
<1>4. CASE \E kind \in CallKinds : DidAsk(kind)
  BY <1>0, <1>4 DEF DidAsk, Protocol, Quiet
<1>5. CASE DidSend
  <2>1. CASE writer.pc = "none" /\ control' = Returned /\ UNCHANGED <<queue, past>>
    BY <1>0, <1>5, <2>1, ReturnedIs DEF DidSend, Protocol, Quiet
  <2>2. CASE /\ writer.pc # "none" /\ queue' = Append(queue, Command(control.call, 0))
             /\ control'.pc = "waiting" /\ control'.call = control.call
    <3>1. /\ Len(queue') = Len(queue) + 1 /\ Len(queue) \in Nat
          /\ \A i \in 1..Len(queue) : queue'[i] = queue[i]
          /\ queue'[Len(queue) + 1] = Command(control.call, 0)
      BY <1>0, <2>2, AppendProperties
    <3>2. control.pc = "sending" /\ UNCHANGED <<writer, work, buffer>>
      BY <1>5 DEF DidSend, Quiet
    <3>3. ASSUME NEW q \in DOMAIN queue', queue'[q].kind \in CallKinds
          PROVE  q = Len(queue) + 1
      <4>1. \A i \in 1..Len(queue) : queue[i].kind \notin CallKinds
        BY <1>0, <3>2 DEF Protocol
      <4> QED BY <1>0, <3>1, <3>3, <4>1
    <3>4. ASSUME NEW q \in DOMAIN queue', queue'[q].kind \in CallKinds
          PROVE  control'.call = queue'[q].kind
      BY <2>2, <3>1, <3>3, <3>4 DEF Command
    <3>5. writer.pc = "loop" /\ control'.call # "none"
      BY <1>0, <1>5, <2>2, <3>2 DEF Protocol, Typed, DidSend
    <3>6. \A q \in DOMAIN queue' : queue'[q].kind \in CallKinds =>
             \A r \in DOMAIN queue' : queue'[r].kind \in CallKinds => r = q
      BY <3>3
    <3> QED BY <2>2, <3>2, <3>4, <3>5, <3>6 DEF Protocol
  <2> QED BY <1>5, <2>1, <2>2 DEF DidSend
<1>6. CASE \E kind \in CallKinds : DidReceive(kind)
  BY <1>0, <1>6, HeadOfQueue DEF DidReceive, Protocol, Quiet
<1>7. CASE DidGiveUp
  BY <1>0, <1>7, ReturnedIs, EmptySeq DEF DidGiveUp, Left, Protocol, NoWriter
<1>8. CASE DidRespond
  <2>1. CASE writer.call = "checkpoint"
    BY <1>0, <1>8, <2>1, ReturnedIs DEF DidRespond, Protocol
  <2>2. CASE writer.call # "checkpoint"
    BY <1>0, <1>8, <2>2, ReturnedIs, EmptySeq DEF DidRespond, Protocol, Left, NoWriter
  <2> QED BY <2>1, <2>2
<1>9. CASE DidFail
  BY <1>9 DEF DidFail, Protocol
<1>10. CASE DidSettle
  BY <1>10 DEF DidSettle, Protocol, Quiet
<1>11. CASE DidCrash
  BY <1>11, EmptySeq DEF DidCrash, Protocol, NoWriter
<1>12. CASE DidRecover
  BY <1>12 DEF DidRecover, Protocol, Quiet
<1>13. CASE DidEnd
  BY <1>13 DEF DidEnd, Protocol, Quiet
<1>14. ASSUME NEW k \in Tracks, DidWrite(k)
       PROVE  Protocol'
  <2>1. /\ UNCHANGED <<control, writer, work>> /\ writer.pc = "loop"
        /\ queue # <<>> /\ queue' = Tail(queue)
    BY <1>14 DEF DidWrite
  <2>2. ASSUME NEW q \in DOMAIN queue', queue'[q].kind \in CallKinds
        PROVE  /\ control.pc = "waiting" /\ control.call = queue'[q].kind
               /\ \A r \in DOMAIN queue' : queue'[r].kind \in CallKinds => r = q
    <3>1. \A r \in DOMAIN queue' : r \in Nat /\ r + 1 \in DOMAIN queue /\ queue'[r] = queue[r + 1]
      BY <1>0, <2>1, HeadOfQueue
    <3>2. queue[q + 1].kind \in CallKinds /\ q + 1 \in DOMAIN queue
      BY <2>2, <3>1
    <3>3. \A r \in DOMAIN queue' : queue'[r].kind \in CallKinds => r + 1 = q + 1
      BY <3>1, <3>2 DEF Protocol
    <3> QED BY <2>2, <3>1, <3>2, <3>3 DEF Protocol
  <2> QED BY <2>1, <2>2 DEF Protocol
<1>15. ASSUME NEW k \in Tracks, ActedOn(k),
              \A t \in Tracks : buffer[t] = <<>> => buffer'[t] = <<>>
       PROVE  Protocol'
  <2>1. UNCHANGED <<control, queue, writer>> /\ work # <<>>
    BY <1>15 DEF ActedOn, Acted
  <2> QED BY <1>15, <2>1 DEF Protocol
<1>16. ASSUME NEW k \in Tracks, DidExamine(k) \/ DidRefuse(k)
       PROVE  Protocol'
  BY <1>16 DEF DidExamine, DidRefuse, Protocol
<1> QED
  BY <1>1, <1>2, <1>3, <1>4, <1>5, <1>6, <1>7, <1>8, <1>9, <1>10, <1>11, <1>12, <1>13,
     <1>14, <1>15, <1>16, ActedSome DEF Happens

LEMMA PlannedStays ==
    ASSUME Typed, Typed', Protocol, Planned, Happens
    PROVE  Planned'
<1>1. CASE UNCHANGED <<control, writer, work>>
  <2>1. InPlan(work') /\ \A t \in Tracks : Todo(t)' = Todo(t)
    BY <1>1, SameWork DEF Planned
  <2> QED BY <1>1, <2>1 DEF Planned, PlannedOps
<1>2. CASE InPlan(work') /\ \A t \in Tracks : Todo(t)' = {}
  BY <1>2 DEF Planned
<1>3. CASE work = <<>> /\ work' = work
  BY <1>2, <1>3, NoWork, SameWork DEF Planned
<1>4. CASE DidStart
  <2>1. PlannedOps' = {"open"}
    BY <1>4 DEF DidStart, PlannedOps
  <2> QED BY <1>4, <2>1 DEF DidStart, Planned
<1>5. CASE DidStarted \/ DidSend \/ DidGiveUp \/ DidRespond \/ DidEnd
           \/ \E kind \in CallKinds : DidAsk(kind)
  <2>1. work = <<>> /\ work' = work
    BY <1>5 DEF DidStarted, DidSend, DidGiveUp, Left, DidRespond, DidEnd, DidAsk, Protocol
  <2> QED BY <1>3, <2>1
<1>6. CASE (\E k \in Tracks : DidAppend(k) \/ DidWrite(k)) \/ DidSettle
  BY <1>1, <1>6 DEF DidAppend, DidWrite, DidSettle
<1>7. CASE DidFail \/ DidCrash \/ \E k \in Tracks : DidRefuse(k)
  BY <1>2, <1>7 DEF DidFail, DidCrash, DidRefuse
<1>8. ASSUME NEW kind \in CallKinds, DidReceive(kind)
      PROVE  Planned'
  <2>1. control'.pc \notin {"opening", "recovering"} /\ writer'.call = kind
    BY <1>8 DEF DidReceive, Protocol
  <2> QED BY <1>8, <2>1 DEF DidReceive, Planned, PlannedOps, PublishOps, CallKinds
<1>9. CASE DidRecover
  BY <1>9 DEF DidRecover, Planned, PlannedOps, PublishOps
<1>10. ASSUME NEW k \in Tracks, NEW op \in FileOps, Acted(op, k)
       PROVE  Planned'
  <2>1. PlannedOps' = PlannedOps /\ UNCHANGED writer /\ InPlan(work')
    BY <1>10 DEF Acted, PlannedOps
  <2>2. ASSUME NEW t \in Tracks \ {k}
        PROVE  Todo(t)' = Todo(t)
    BY <1>10 DEF Acted
  <2>3. Todo(k)' = Todo(k) \ {op} /\ \A x \in Todo(k)' : op # "examine" /\ Rank[op] < Rank[x]
    BY <1>10 DEF Acted
  <2>4. /\ "sync" \in Todo(k)' => op # "examine"
        /\ "flush" \in Todo(k)' => op # "sync"
        /\ "copy" \in Todo(k)' => op # "syncCopy"
        /\ "syncCopy" \in Todo(k)' => op # "rename"
        /\ "rename" \in Todo(k)' => op # "remove"
    BY <2>3, RankIs
  <2> QED BY <2>1, <2>2, <2>3, <2>4 DEF Planned
<1>11. ASSUME NEW k \in Tracks, DidExamine(k)
       PROVE  Planned'
  <2>1. PlannedOps' = PlannedOps /\ InPlan(work')
    BY <1>11 DEF DidExamine, PlannedOps
  <2>2. PublishOps \subseteq PlannedOps
    <3>1. "examine" \in PlannedOps
      BY <1>11 DEF DidExamine, Planned
    <3> QED BY <3>1 DEF PlannedOps, PublishOps
  <2> QED BY <1>11, <2>1, <2>2 DEF DidExamine, Planned, PublishOps
<1> QED
  BY <1>4, <1>5, <1>6, <1>7, <1>8, <1>9, <1>10, <1>11, ActedSome DEF Happens, ActedOn

-----------------------------------------------------------------------------
(* The files, and what remains to be done to them *)

\* Nothing comes after the examination of a track but what it asks for.
LEMMA ExaminedLast ==
    ASSUME Typed, Planned, NEW t \in Tracks, "examine" \in Todo(t)
    PROVE  \A op \in Todo(t) : op = "examine" \/ Rank[op] < 3
<1>1. InPlan(work) /\ work \in Seq(Steps)
  BY DEF Typed, Planned
<1>2. PICK i \in DOMAIN work : work[i] = Step("examine", t)
  BY DEF Todo, TodoIn
<1>3. ASSUME NEW op \in Todo(t), op # "examine"
      PROVE  Rank[op] < 3
  <2>1. op \in FileOps /\ "examine" \in FileOps /\ Rank["examine"] = 3
    BY RankIs DEF Todo, TodoIn
  <2>2. PICK j \in DOMAIN work : work[j] = Step(op, t)
    BY DEF Todo, TodoIn
  <2>3. i # j
    BY <1>2, <1>3, <2>1, <2>2, StepsDiffer
  <2>4. i < j \/ j < i
    BY <1>1, <2>3
  <2>5. ~(i < j)
    BY <1>1, <1>2, <2>1, <2>2, StepsDiffer DEF InPlan
  <2>6. Sequel(Step(op, t), Step("examine", t))
    BY <1>1, <1>2, <2>2, <2>4, <2>5 DEF InPlan
  <2> QED BY <2>1, <2>6, StepsDiffer
<1> QED BY <1>3

\* Where the operations of a plan belong
LEMMA PlaceIs ==
    ASSUME Typed, Protocol, Planned, NEW t \in Tracks, NEW op \in Todo(t)
    PROVE  /\ work # <<>> /\ op \in FileOps
           /\ op = "open" => control.pc = "opening" /\ Todo(t) = {"open"} /\ writer.pc = "none"
           /\ op \in {"flush", "sync"} =>
                 /\ writer.pc = "serving" /\ writer.ok /\ control.pc = "waiting"
                 /\ Todo(t) \subseteq {"flush", "sync", "examine"}
           /\ op \in PublishOps =>
                 \/ control.pc = "recovering" /\ writer.pc = "none"
                 \/ /\ writer.pc = "serving" /\ writer.ok /\ writer.call = "finalize"
                    /\ control.pc = "waiting"
<1>1. /\ op \in PlannedOps /\ Todo(t) \subseteq PlannedOps
      /\ Todo(t) \subseteq FileOps
  BY DEF Planned, Todo, TodoIn
<1>2. work # <<>>
  BY NoWork
<1>3. \/ control.pc = "opening" /\ writer.pc = "none"
      \/ control.pc = "recovering" /\ writer.pc = "none"
      \/ writer.pc = "serving" /\ writer.ok /\ control.pc = "waiting"
  BY <1>2 DEF Protocol
<1>4. CASE control.pc = "opening" /\ writer.pc = "none"
  <2>1. PlannedOps = {"open"}
    BY <1>4 DEF PlannedOps
  <2> QED BY <1>1, <1>2, <1>4, <2>1 DEF PublishOps
<1>5. CASE control.pc = "recovering" /\ writer.pc = "none"
  <2>1. PlannedOps = PublishOps
    BY <1>5 DEF PlannedOps
  <2> QED BY <1>1, <1>2, <1>5, <2>1 DEF PublishOps
<1>6. CASE writer.pc = "serving" /\ writer.ok /\ control.pc = "waiting"
  <2>1. PlannedOps = {"flush", "sync"} \cup {x \in PublishOps : writer.call = "finalize"}
    BY <1>6 DEF PlannedOps
  <2>2. op # "open" /\ (op \in PublishOps => writer.call = "finalize")
    BY <1>1, <2>1 DEF PublishOps
  <2>3. ASSUME op \in {"flush", "sync"}
        PROVE  Todo(t) \subseteq {"flush", "sync", "examine"}
    <3>1. CASE writer.call = "finalize"
      <4>1. "examine" \in Todo(t)
        BY <2>3, <3>1 DEF Planned
      <4>2. \A x \in Todo(t) : x = "examine" \/ Rank[x] < 3
        BY <4>1, ExaminedLast
      <4>3. "open" \notin Todo(t)
        BY <1>1, <2>1 DEF PublishOps
      <4> QED BY <1>1, <4>2, <4>3, RankIs
    <3>2. CASE writer.call # "finalize"
      BY <1>1, <2>1, <3>2
    <3> QED BY <3>1, <3>2
  <2> QED BY <1>1, <1>2, <1>6, <2>2, <2>3
<1> QED BY <1>3, <1>4, <1>5, <1>6

\* A track that a step does not touch
LEMMA FiledElsewhere ==
    ASSUME NEW t \in Tracks, FiledAt(t), FilesTyped,
           disk'[t] = disk[t], buffer'[t] = buffer[t], Todo(t)' = Todo(t),
           durable' \in {durable, Names(disk)}, UNCHANGED <<control, writer>>
    PROVE  FiledAt(t)'
<1>1. durable'[t].wav \in {durable[t].wav, disk[t].wav}
  BY NamesIs
<1> QED BY <1>1 DEF FiledAt, Published, Recording, Copied

\* What an operation leaves to be done
LEMMA AfterOp ==
    ASSUME NEW k \in Tracks, NEW op \in FileOps, Acted(op, k), Typed
    PROVE  /\ Todo(k)' \subseteq FileOps /\ Todo(k) = Todo(k)' \cup {op}
           /\ op \notin Todo(k)'
           /\ \A x \in Todo(k)' : Rank[op] < Rank[x]
           /\ UNCHANGED <<control, queue, writer, past>>
           /\ \A t \in Tracks \ {k} : Todo(t)' = Todo(t)
BY DEF Acted, Todo, TodoIn

LEMMA FiledStays ==
    ASSUME Typed, Typed', Protocol, Planned, Planned', Filed, Happens
    PROVE  Filed'
<1>0. FilesTyped
  BY DEF Typed
<1>a. \A t \in Tracks : FiledAt(t)
  BY DEF Filed
<1>1. CASE DidStart
  <2>1. ASSUME NEW t \in Tracks
        PROVE  FiledAt(t)'
    BY <1>1, <1>a DEF DidStart, FiledAt, Published, Recording, Copied, Quiet, NoWriter
  <2> QED BY <2>1 DEF Filed
<1>2. CASE DidStarted
  <2>1. ASSUME NEW t \in Tracks
        PROVE  FiledAt(t)'
    <3>1. Todo(t) = {} /\ Todo(t)' = {}
      BY <1>2, NoWork, SameWork DEF DidStarted, Planned
    <3> QED BY <1>2, <1>a, <3>1 DEF DidStarted, FiledAt, Published, Recording, Copied, Quiet
  <2> QED BY <2>1 DEF Filed
<1>3. CASE \E k \in Tracks : DidAppend(k)
  <2>1. \A t \in Tracks : Todo(t)' = Todo(t)
    BY <1>3, SameWork DEF DidAppend, Planned
  <2> QED BY <1>0, <1>3, <1>a, <2>1, FiledElsewhere DEF DidAppend, Quiet, Filed
<1>4. CASE (\E kind \in CallKinds : DidAsk(kind)) \/ DidSend
  <2>1. ASSUME NEW t \in Tracks
        PROVE  FiledAt(t)'
    <3>1. /\ work = <<>> /\ work' = work /\ UNCHANGED <<writer, buffer, disk, durable>>
          /\ control'.pc \notin {"opening", "recovering"}
      BY <1>4, ReturnedIs DEF DidAsk, DidSend, Protocol, Quiet
    <3>2. Todo(t) = {} /\ Todo(t)' = {}
      BY <3>1, NoWork, SameWork DEF Planned
    <3> QED BY <1>a, <3>1, <3>2 DEF FiledAt, Published, Recording, Copied
  <2> QED BY <2>1 DEF Filed
<1>5. CASE \E kind \in CallKinds : DidReceive(kind)
  <2>1. PICK kind \in CallKinds : DidReceive(kind)
    BY <1>5
  <2>2. ASSUME NEW t \in Tracks
        PROVE  FiledAt(t)'
    <3>1. /\ Todo(t)' = {"flush", "sync"} \cup {x \in {"examine"} : kind = "finalize"}
          /\ writer.pc = "loop" /\ writer'.pc = "serving"
          /\ control'.pc \notin {"opening", "recovering"}
          /\ UNCHANGED <<control, buffer, disk, durable>>
      BY <2>1 DEF DidReceive, Protocol, Quiet
    <3>2. /\ "flush" \in Todo(t)' /\ "copy" \notin Todo(t)' /\ "syncCopy" \notin Todo(t)'
          /\ "rename" \notin Todo(t)' /\ "remove" \notin Todo(t)'
      BY <3>1
    <3>3. Recording(t)
      BY <3>1 DEF Recording
    <3> QED BY <1>a, <3>1, <3>2, <3>3 DEF FiledAt, Published
  <2> QED BY <2>2 DEF Filed
<1>6. CASE DidGiveUp \/ (DidRespond /\ writer.call # "checkpoint")
  <2>1. ASSUME NEW t \in Tracks
        PROVE  FiledAt(t)'
    <3>1. /\ work = <<>> /\ work' = work /\ Left
          /\ control'.pc \notin {"opening", "recovering"}
      BY <1>6, ReturnedIs DEF DidGiveUp, Left, DidRespond, Protocol
    <3>2. Todo(t) = {} /\ Todo(t)' = {}
      BY <3>1, NoWork, SameWork DEF Planned
    <3> QED BY <1>a, <3>1, <3>2
        DEF FiledAt, Published, Recording, Copied, Left, Grown, NoWriter
  <2> QED BY <2>1 DEF Filed
<1>7. CASE DidRespond /\ writer.call = "checkpoint"
  <2>1. ASSUME NEW t \in Tracks
        PROVE  FiledAt(t)'
    <3>1. /\ work = <<>> /\ work' = work /\ UNCHANGED <<buffer, disk, durable>>
          /\ control'.pc \notin {"opening", "recovering"}
          /\ writer.pc = "serving" /\ writer'.pc = "loop"
      BY <1>7, ReturnedIs DEF DidRespond
    <3>2. Todo(t) = {} /\ Todo(t)' = {}
      BY <3>1, NoWork, SameWork DEF Planned
    <3>3. Recording(t)
      BY <1>7, <3>1 DEF Recording
    <3> QED BY <1>a, <3>1, <3>2, <3>3 DEF FiledAt, Published, Copied
  <2> QED BY <2>1 DEF Filed
<1>8. CASE DidFail
  <2>1. ASSUME NEW t \in Tracks
        PROVE  FiledAt(t)'
    <3>1. Recording(t)' => Recording(t)
      BY <1>8 DEF DidFail, Recording
    <3>2. Published(t)' = Published(t) /\ disk'[t].part = disk[t].part
      BY <1>8 DEF DidFail, Grown, Published
    <3>3. Todo(t)' = {} /\ ~writer'.ok /\ UNCHANGED <<control, durable>>
          /\ (buffer[t] = <<>> => buffer'[t] = <<>>)
      BY <1>8 DEF DidFail
    <3> QED BY <1>a, <3>1, <3>2, <3>3 DEF FiledAt
  <2> QED BY <2>1 DEF Filed
<1>9. CASE DidSettle
  <2>1. \A t \in Tracks : Todo(t)' = Todo(t)
    BY <1>9, SameWork DEF DidSettle, Planned
  <2> QED BY <1>0, <1>9, <1>a, <2>1, FiledElsewhere DEF DidSettle, Quiet, Filed
<1>10. CASE DidCrash
  <2>1. ASSUME NEW t \in Tracks
        PROVE  FiledAt(t)'
    <3>1. /\ Todo(t)' = {} /\ buffer'[t] = <<>> /\ writer'.pc = "none" /\ control'.pc = "down"
          /\ durable' = durable
          /\ disk'[t].wav \in {disk[t].wav, durable[t].wav}
      BY <1>10 DEF DidCrash, NoWriter
    <3> QED BY <1>a, <3>1 DEF FiledAt, Published, Recording
  <2> QED BY <2>1 DEF Filed
<1>11. CASE DidRecover
  <2>1. ASSUME NEW t \in Tracks
        PROVE  FiledAt(t)'
    <3>1. /\ Todo(t)' = {x \in {"examine"} : disk[t].part} /\ writer.pc = "none"
          /\ control'.pc = "recovering" /\ UNCHANGED <<writer, disk, buffer, durable>>
      BY <1>11 DEF DidRecover, Quiet, Protocol
    <3>2. /\ "copy" \notin Todo(t)' /\ "syncCopy" \notin Todo(t)'
          /\ "rename" \notin Todo(t)' /\ "remove" \notin Todo(t)'
          /\ (Todo(t)' # {} => disk[t].part)
      BY <3>1
    <3> QED BY <1>a, <3>1, <3>2 DEF FiledAt, Published, Recording
  <2> QED BY <2>1 DEF Filed
<1>12. CASE DidEnd
  <2>1. ASSUME NEW t \in Tracks
        PROVE  FiledAt(t)'
    <3>1. Todo(t) = {} /\ Todo(t)' = {}
      BY <1>12, NoWork, SameWork DEF DidEnd, Planned
    <3> QED BY <1>12, <1>a, <3>1 DEF DidEnd, FiledAt, Published, Recording, Copied, Quiet
  <2> QED BY <2>1 DEF Filed
<1>13. ASSUME NEW k \in Tracks, DidWrite(k)
       PROVE  Filed'
  <2>1. ASSUME NEW t \in Tracks
        PROVE  FiledAt(t)'
    <3>1. writer.pc = "loop" /\ work = <<>> /\ UNCHANGED <<control, writer, durable, work>>
          /\ control.pc \notin {"opening", "recovering"} /\ Grown(t)
      BY <1>13 DEF DidWrite, Protocol
    <3>2. Todo(t) = {} /\ Todo(t)' = {}
      BY <3>1, NoWork, SameWork DEF Planned
    <3>3. disk[t].part /\ ~Published(t)
      BY <1>a, <3>1 DEF FiledAt, Recording
    <3> QED BY <1>a, <3>1, <3>2, <3>3 DEF FiledAt, Published, Recording, Copied, Grown
  <2> QED BY <2>1 DEF Filed
<1>b. ASSUME NEW k \in Tracks, Others(k), FiledAt(k)',
             \A t \in Tracks \ {k} : Todo(t)' = Todo(t),
             durable' \in {durable, Names(disk)}, UNCHANGED <<control, writer>>
      PROVE  Filed'
  <2>1. ASSUME NEW t \in Tracks \ {k}
        PROVE  FiledAt(t)'
    <3>1. disk'[t] = disk[t] /\ buffer'[t] = buffer[t] /\ Todo(t)' = Todo(t)
      BY <1>b DEF Others
    <3> QED BY <1>0, <1>a, <1>b, <3>1, FiledElsewhere
  <2> QED BY <1>b, <2>1 DEF Filed
<1>d. \A k \in Tracks : Names(disk)[k].wav = disk[k].wav
  BY <1>0, NamesIs
<1>14. ASSUME NEW k \in Tracks, DidOpen(k)
       PROVE  Filed'
  <2>1. Acted("open", k) /\ "open" \in FileOps /\ "open" \in Todo(k)
    BY <1>14, RankIs DEF DidOpen, Acted
  <2>2. control.pc = "opening" /\ writer.pc = "none" /\ Todo(k) = {"open"}
    BY <2>1, PlaceIs
  <2>3. Todo(k)' = {} /\ UNCHANGED <<control, writer>>
    BY <2>1, <2>2, AfterOp
  <2>4. FiledAt(k)'
    BY <1>14, <1>a, <2>2, <2>3 DEF DidOpen, FiledAt, Published, Recording
  <2> QED BY <1>14, <1>b, <2>1, <2>4 DEF DidOpen, Acted
<1>15. ASSUME NEW k \in Tracks, DidFlush(k)
       PROVE  Filed'
  <2>1. Acted("flush", k) /\ "flush" \in FileOps /\ "flush" \in Todo(k)
    BY <1>15, RankIs DEF DidFlush, Acted
  <2>2. /\ writer.pc = "serving" /\ control.pc = "waiting"
        /\ Todo(k) \subseteq {"flush", "sync", "examine"}
    BY <2>1, PlaceIs
  <2>3. Todo(k)' \subseteq {"flush", "sync", "examine"} /\ UNCHANGED <<control, writer>>
    BY <2>1, <2>2, AfterOp
  <2>4. Recording(k)
    BY <2>1, <2>2 DEF Recording
  <2>5. FiledAt(k)'
    BY <1>15, <1>a, <2>2, <2>3, <2>4 DEF DidFlush, Grown, FiledAt, Published
  <2> QED BY <1>15, <1>b, <2>1, <2>5 DEF DidFlush, Acted
<1>16. ASSUME NEW k \in Tracks, DidSync(k)
       PROVE  Filed'
  <2>1. Acted("sync", k) /\ "sync" \in FileOps /\ "sync" \in Todo(k)
    BY <1>16, RankIs DEF DidSync, Acted
  <2>2. /\ writer.pc = "serving" /\ writer.ok /\ control.pc = "waiting"
        /\ Todo(k) \subseteq {"flush", "sync", "examine"}
    BY <2>1, PlaceIs
  <2>3. Todo(k)' \subseteq {"flush", "sync", "examine"} /\ UNCHANGED <<control, writer>>
    BY <2>1, <2>2, AfterOp
  <2>4. Recording(k)
    BY <2>1, <2>2 DEF Recording
  <2>5. "flush" \notin Todo(k)
    BY <2>1, AfterOp, RankIs
  <2>6. FiledAt(k)'
    BY <1>16, <1>a, <1>d, <2>2, <2>3, <2>4, <2>5 DEF DidSync, FiledAt, Published
  <2> QED BY <1>16, <1>b, <2>1, <2>6 DEF DidSync, Acted
<1>17. ASSUME NEW k \in Tracks, DidExamine(k)
       PROVE  Filed'
  <2>1. /\ Todo(k) = {"examine"} /\ UNCHANGED <<control, writer, buffer, disk, durable>>
        /\ IF Published(k) THEN Todo(k)' = {"remove"}
           ELSE Todo(k)' = {"copy", "syncCopy", "rename", "remove"}
    BY <1>17 DEF DidExamine
  <2>2. \/ control.pc = "recovering" /\ writer.pc = "none"
        \/ /\ writer.pc = "serving" /\ writer.ok /\ control.pc = "waiting"
    BY <2>1, PlaceIs DEF PublishOps
  <2>3. writer.pc = "serving" => Recording(k)
    BY <2>1 DEF Recording
  <2>4. writer.pc = "serving" => Todo(k)' = {"copy", "syncCopy", "rename", "remove"}
    BY <1>a, <2>1, <2>3 DEF FiledAt
  <2>7. FiledAt(k)'
    <3>1. CASE Published(k)
      BY <1>a, <2>1, <2>2, <2>3, <3>1 DEF FiledAt, Published, Recording
    <3>2. CASE ~Published(k)
      BY <1>a, <2>1, <2>2, <2>3, <3>2 DEF FiledAt, Published
    <3> QED BY <3>1, <3>2
  <2> QED BY <1>17, <1>b, <2>1, <2>7 DEF DidExamine, Others
<1>18. ASSUME NEW k \in Tracks, DidRefuse(k)
       PROVE  Filed'
  <2>1. ASSUME NEW t \in Tracks
        PROVE  FiledAt(t)'
    <3>1. Recording(t)' => Recording(t)
      BY <1>18 DEF DidRefuse, Recording
    <3>2. Todo(t)' = {} /\ ~writer'.ok /\ UNCHANGED <<control, durable, disk, buffer>>
      BY <1>18 DEF DidRefuse
    <3>3. Published(t)' = Published(t)
      BY <3>2 DEF Published
    <3> QED BY <1>a, <1>18, <3>1, <3>2, <3>3, PlaceIs DEF FiledAt, DidRefuse
  <2> QED BY <2>1 DEF Filed
<1>19. ASSUME NEW k \in Tracks, DidCopy(k)
       PROVE  Filed'
  <2>1. Acted("copy", k) /\ "copy" \in FileOps /\ "copy" \in Todo(k)
    BY <1>19, RankIs DEF DidCopy, Acted
  <2>2. \/ control.pc = "recovering" /\ writer.pc = "none"
        \/ /\ writer.pc = "serving" /\ writer.ok /\ control.pc = "waiting"
    BY <2>1, PlaceIs DEF PublishOps
  <2>3. /\ Todo(k)' \subseteq {"syncCopy", "rename", "remove"} /\ UNCHANGED <<control, writer>>
        /\ "syncCopy" \in Todo(k)' /\ "rename" \in Todo(k)'
    <3>1. \A x \in Todo(k)' : x \in FileOps /\ 4 < Rank[x]
      BY <2>1, AfterOp, RankIs
    <3>2. "syncCopy" \in Todo(k) /\ "rename" \in Todo(k)
      BY <2>1 DEF Planned
    <3> QED BY <2>1, <3>1, <3>2, AfterOp, RankIs
  <2>4. Recording(k)' => Recording(k)
    BY <2>1, <2>3 DEF Recording
  <2>5. ~Published(k)
    BY <1>a, <2>1 DEF FiledAt
  <2>6. FiledAt(k)'
    <3>1. ~Published(k)' /\ Copied(k)' /\ buffer' = buffer /\ durable' = durable
      BY <1>19 DEF DidCopy, Published, Copied
    <3>2. disk'[k].part = disk[k].part /\ disk[k].part
      <4>1. writer.pc = "serving" => Recording(k)
        BY <2>1 DEF Recording
      <4> QED BY <1>19, <1>a, <2>1, <2>2, <4>1 DEF DidCopy, FiledAt
    <3>3. writer.pc = "serving" /\ writer.ok => buffer[k] = <<>>
      <4>1. "flush" \notin Todo(k)
        BY <2>1, <2>3, AfterOp
      <4> QED BY <1>a, <4>1 DEF FiledAt
    <3> QED BY <1>a, <2>2, <2>3, <2>5, <3>1, <3>2, <3>3 DEF FiledAt
  <2> QED BY <1>19, <1>b, <2>1, <2>6 DEF DidCopy, Acted
<1>20. ASSUME NEW k \in Tracks, DidSyncCopy(k)
       PROVE  Filed'
  <2>1. Acted("syncCopy", k) /\ "syncCopy" \in FileOps /\ "syncCopy" \in Todo(k)
    BY <1>20, RankIs DEF DidSyncCopy, Acted
  <2>2. \/ control.pc = "recovering" /\ writer.pc = "none"
        \/ /\ writer.pc = "serving" /\ writer.ok /\ control.pc = "waiting"
    BY <2>1, PlaceIs DEF PublishOps
  <2>3. /\ Todo(k)' \subseteq {"rename", "remove"} /\ UNCHANGED <<control, writer>>
        /\ "rename" \in Todo(k)' /\ "copy" \notin Todo(k) /\ "flush" \notin Todo(k)
    <3>1. \A x \in Todo(k)' : x \in FileOps /\ 5 < Rank[x]
      BY <2>1, AfterOp, RankIs
    <3>2. "rename" \in Todo(k)
      BY <2>1 DEF Planned
    <3> QED BY <2>1, <3>1, <3>2, AfterOp, RankIs
  <2>4. Copied(k)
    BY <1>a, <2>1, <2>3 DEF FiledAt
  <2>5. FiledAt(k)'
    <3>1. /\ ~Published(k)' /\ Copied(k)' /\ buffer' = buffer /\ durable'[k].wav = disk[k].wav
          /\ disk'[k].out.synced = Len(disk'[k].out.data) /\ disk[k].wav # "wav"
      BY <1>20, <1>d, <2>4 DEF DidSyncCopy, Published, Copied
    <3>2. disk'[k].part = disk[k].part /\ disk[k].part
      <4>1. writer.pc = "serving" => Recording(k)
        BY <2>1 DEF Recording
      <4> QED BY <1>20, <1>a, <2>1, <2>2, <4>1 DEF DidSyncCopy, FiledAt
    <3>3. writer.pc = "serving" /\ writer.ok => buffer[k] = <<>>
      BY <1>a, <2>3 DEF FiledAt
    <3> QED BY <1>a, <2>2, <2>3, <3>1, <3>2, <3>3 DEF FiledAt
  <2> QED BY <1>20, <1>b, <2>1, <2>5 DEF DidSyncCopy, Acted
<1>21. ASSUME NEW k \in Tracks, DidRename(k)
       PROVE  Filed'
  <2>1. Acted("rename", k) /\ "rename" \in FileOps /\ "rename" \in Todo(k)
    BY <1>21, RankIs DEF DidRename, Acted
  <2>2. \/ control.pc = "recovering" /\ writer.pc = "none"
        \/ /\ writer.pc = "serving" /\ writer.ok /\ writer.call = "finalize"
           /\ control.pc = "waiting"
    BY <2>1, PlaceIs DEF PublishOps
  <2>3. /\ Todo(k)' \subseteq {"remove"} /\ UNCHANGED <<control, writer>>
        /\ "flush" \notin Todo(k) /\ "syncCopy" \notin Todo(k)
    <3>1. \A x \in Todo(k)' : x \in FileOps /\ 6 < Rank[x]
      BY <2>1, AfterOp, RankIs
    <3> QED BY <2>1, <3>1, AfterOp, RankIs
  <2>4. Copied(k)
    BY <1>a, <2>1, <2>3 DEF FiledAt
  <2>5. buffer[k] = <<>>
    BY <1>a, <2>2, <2>3 DEF FiledAt, Protocol
  <2>6. FiledAt(k)'
    <3>1. /\ Published(k)' /\ buffer' = buffer /\ durable' = durable
          /\ disk'[k].out.data = disk'[k].pcm.data
      BY <1>21, <2>4 DEF DidRename, Published, Copied
    <3>2. disk'[k].part = disk[k].part /\ (control.pc = "recovering" => disk[k].part)
      BY <1>21, <1>a, <2>1 DEF DidRename, FiledAt
    <3>3. ~Recording(k)'
      BY <2>2, <2>3 DEF Recording
    <3> QED BY <2>2, <2>3, <2>5, <3>1, <3>2, <3>3 DEF FiledAt
  <2> QED BY <1>21, <1>b, <2>1, <2>6 DEF DidRename, Acted
<1>22. ASSUME NEW k \in Tracks, DidRemove(k)
       PROVE  Filed'
  <2>1. Acted("remove", k) /\ "remove" \in FileOps /\ "remove" \in Todo(k)
    BY <1>22, RankIs DEF DidRemove, Acted
  <2>2. \/ control.pc = "recovering" /\ writer.pc = "none"
        \/ /\ writer.pc = "serving" /\ writer.ok /\ writer.call = "finalize"
           /\ control.pc = "waiting"
    BY <2>1, PlaceIs DEF PublishOps
  <2>3. /\ Todo(k)' = {} /\ UNCHANGED <<control, writer>>
        /\ "flush" \notin Todo(k) /\ "rename" \notin Todo(k)
    <3>1. \A x \in Todo(k)' : x \in FileOps /\ 7 < Rank[x]
      BY <2>1, AfterOp, RankIs
    <3> QED BY <2>1, <3>1, AfterOp, RankIs
  <2>4. Published(k)
    BY <1>a, <2>1, <2>3 DEF FiledAt
  <2>5. FiledAt(k)'
    <3>1. Published(k)' /\ buffer' = buffer /\ durable' = durable
      BY <1>22, <2>4 DEF DidRemove, Published
    <3>2. ~Recording(k)'
      BY <2>2, <2>3 DEF Recording
    <3> QED BY <1>a, <2>2, <2>3, <2>4, <3>1, <3>2 DEF FiledAt
  <2> QED BY <1>22, <1>b, <2>1, <2>5 DEF DidRemove, Acted
<1> QED
  BY <1>1, <1>2, <1>3, <1>4, <1>5, <1>6, <1>7, <1>8, <1>9, <1>10, <1>11, <1>12, <1>13,
     <1>14, <1>15, <1>16, <1>17, <1>18, <1>19, <1>20, <1>21, <1>22
  DEF Happens

-----------------------------------------------------------------------------
(* The order of the chunks *)

LEMMA NumberedPrefix ==
    ASSUME NEW s \in Seq(Nat), NEW r \in Seq(Nat), NEW n \in Nat, Numbered(r, n), IsPrefix(s, r)
    PROVE  Numbered(s, n)
<1>1. Len(s) <= Len(r) /\ \A i \in 1..Len(s) : s[i] = r[i]
  BY PrefixIs
<1>3. Len(s) \in Nat /\ Len(r) \in Nat /\ DOMAIN s = 1..Len(s) /\ DOMAIN r = 1..Len(r)
  OBVIOUS
<1>2. \A i \in DOMAIN s : i \in DOMAIN r /\ s[i] = r[i]
  BY <1>1, <1>3
<1> QED BY <1>2 DEF Numbered, Rising

LEMMA AppendIs ==
    ASSUME NEW s \in Seq(Nat), NEW c \in Nat
    PROVE  /\ Append(s, c) \in Seq(Nat) /\ Len(Append(s, c)) = Len(s) + 1 /\ Len(s) \in Nat
           /\ \A i \in 1..Len(s) : Append(s, c)[i] = s[i]
           /\ Append(s, c)[Len(s) + 1] = c
           /\ IsPrefix(s, Append(s, c))
<1>1. /\ Append(s, c) \in Seq(Nat) /\ Len(Append(s, c)) = Len(s) + 1 /\ Len(s) \in Nat
      /\ \A i \in 1..Len(s) : Append(s, c)[i] = s[i]
      /\ Append(s, c)[Len(s) + 1] = c
  BY AppendProperties
<1> DEFINE r == Append(s, c)
<1> HIDE DEF r
<1>2. Len(s) <= Len(r) /\ \A i \in 1..Len(s) : s[i] = r[i]
  BY <1>1 DEF r
<1>3. IsPrefix(s, r)
  BY <1>1, <1>2, PrefixIs DEF r
<1> QED BY <1>1, <1>3 DEF r

\* The next chunk is accepted.
LEMMA AcceptIs ==
    ASSUME NEW w \in Seq(Nat), NEW s \in Seq(Nat), NEW n \in Nat,
           Numbered(s, n), IsPrefix(w, s)
    PROVE  /\ Numbered(Append(s, n + 1), n + 1) /\ IsPrefix(w, Append(s, n + 1))
           /\ After(w, Append(s, n + 1)) = After(w, s) \cup {n + 1}
<1> DEFINE c == n + 1
           r == Append(s, c)
<1>1. /\ c \in Nat /\ r \in Seq(Nat) /\ Len(r) = Len(s) + 1 /\ Len(s) \in Nat
      /\ \A i \in 1..Len(s) : r[i] = s[i]
      /\ r[Len(s) + 1] = c /\ IsPrefix(s, r)
  BY AppendIs
<1>2. Len(w) <= Len(s) /\ Len(w) \in Nat
  BY PrefixIs
<1> HIDE DEF r
<1>3. \A i \in DOMAIN r : i \in 1..Len(s) \/ i = Len(s) + 1
  BY <1>1
<1>4. \A i \in 1..Len(s) : s[i] \in Nat /\ s[i] <= n
  BY ElementOfSeq DEF Numbered
<1>5. Rising(r)
  <2>1. ASSUME NEW i \in DOMAIN r, NEW j \in DOMAIN r, i < j
        PROVE  r[i] < r[j]
    <3>1. i \in 1..Len(s)
      BY <1>1, <1>3, <2>1
    <3>2. CASE j \in 1..Len(s)
      <4>1. s[i] < s[j]
        BY <2>1, <3>1, <3>2 DEF Numbered, Rising
      <4> QED BY <1>1, <3>1, <3>2, <4>1
    <3>3. CASE j = Len(s) + 1
      <4>1. r[i] = s[i] /\ s[i] \in Nat /\ s[i] <= n /\ r[j] = c
        BY <1>1, <1>4, <3>1, <3>3
      <4>2. s[i] < c
        BY <4>1
      <4> QED BY <4>1, <4>2
    <3> QED BY <1>3, <3>2, <3>3
  <2> QED BY <2>1 DEF Rising
<1>6. \A i \in DOMAIN r : r[i] <= c
  <2>1. ASSUME NEW i \in DOMAIN r
        PROVE  r[i] <= c
    <3>1. CASE i \in 1..Len(s)
      <4>1. s[i] <= n /\ s[i] \in Nat /\ r[i] = s[i]
        BY <1>1, <1>4, <3>1
      <4> QED BY <4>1
    <3> QED BY <1>1, <1>3, <3>1
  <2> QED BY <2>1
<1>7. IsPrefix(w, r)
  BY <1>1, PrefixTrans
<1>8. After(w, r) = After(w, s) \cup {c}
  <2>1. \A i \in (Len(w) + 1)..Len(r) : i = Len(s) + 1 \/ i \in (Len(w) + 1)..Len(s)
    BY <1>1, <1>2
  <2>2. /\ Len(s) + 1 \in (Len(w) + 1)..Len(r)
        /\ \A i \in (Len(w) + 1)..Len(s) : i \in (Len(w) + 1)..Len(r) /\ r[i] = s[i]
    BY <1>1, <1>2
  <2> QED BY <1>1, <2>1, <2>2 DEF After
<1> QED BY <1>5, <1>6, <1>7, <1>8 DEF r, Numbered

LEMMA Beyond ==
    ASSUME NEW m \in Nat, NEW n \in Nat, NEW l \in Nat, n <= l, NEW j \in ((m + 1) + 1)..n
    PROVE  j \in 1..n /\ j \in 1..l /\ m + 1 < j /\ j \in (m + 1)..n
OBVIOUS

\* The chunks accepted so far are `s`, and `w` of them are written or buffered.
Accepts(w, s, r, c) ==
    /\ Numbered(r, c) /\ IsPrefix(w, r) /\ After(w, r) = After(w, s) \cup {c}

LEMMA Accepted ==
    ASSUME NEW w \in Seq(Nat), NEW s \in Seq(Nat), NEW n \in Nat, NEW c,
           Numbered(s, n), IsPrefix(w, s), c = n + 1
    PROVE  Accepts(w, s, Append(s, c), c)
BY AcceptIs DEF Accepts

LEMMA OneChanged ==
    ASSUME NEW f \in [Tracks -> Seq(Nat)], NEW k \in Tracks, NEW v, NEW g,
           g = [f EXCEPT ![k] = v]
    PROVE  \A t \in Tracks : g[t] = IF t = k THEN v ELSE f[t]
OBVIOUS

\* The least of the chunks that are left is the next one to be written.
LEMMA NextIs ==
    ASSUME NEW w \in Seq(Nat), NEW s \in Seq(Nat), NEW n \in Nat,
           Numbered(s, n), IsPrefix(w, s),
           NEW c \in After(w, s), \A x \in After(w, s) : c <= x
    PROVE  /\ c \in Nat /\ IsPrefix(Append(w, c), s)
           /\ \A a \in Seq(Nat) : IsPrefix(a, s) => After(Append(w, c), a) = After(w, a) \ {c}
<1>1. Len(w) <= Len(s) /\ Len(w) \in Nat /\ Len(s) \in Nat /\ \A i \in 1..Len(w) : w[i] = s[i]
  BY PrefixIs
<1>2. \A i \in 1..Len(s) : s[i] \in Nat
  BY ElementOfSeq
<1>3. PICK i \in (Len(w) + 1)..Len(s) : s[i] = c
  BY DEF After
<1>4. Len(w) + 1 \in (Len(w) + 1)..Len(s) /\ i \in 1..Len(s) /\ Len(w) + 1 \in 1..Len(s)
  BY <1>1, <1>3
<1>5. i = Len(w) + 1
  <2>1. c <= s[Len(w) + 1]
    BY <1>4 DEF After
  <2>2. ASSUME i # Len(w) + 1
        PROVE  FALSE
    <3>1. Len(w) + 1 < i
      BY <1>1, <1>3, <2>2
    <3>2. s[Len(w) + 1] < s[i]
      BY <1>4, <3>1 DEF Numbered, Rising
    <3>3. s[Len(w) + 1] \in Nat /\ s[i] \in Nat
      BY <1>2, <1>4
    <3> QED BY <1>3, <2>1, <3>2, <3>3
  <2> QED BY <2>2
<1>6. c \in Nat /\ s[Len(w) + 1] = c
  BY <1>2, <1>3, <1>4, <1>5
<1> DEFINE v == Append(w, c)
<1>7. /\ v \in Seq(Nat) /\ Len(v) = Len(w) + 1
      /\ \A j \in 1..Len(w) : v[j] = w[j]
      /\ v[Len(w) + 1] = c
  BY <1>6, AppendIs
<1> HIDE DEF v
<1>8. IsPrefix(v, s)
  <2>1. ASSUME NEW j \in 1..Len(v)
        PROVE  v[j] = s[j]
    <3>1. j \in 1..Len(w) \/ j = Len(w) + 1
      BY <1>1, <1>7
    <3> QED BY <1>1, <1>6, <1>7, <3>1
  <2>2. Len(v) <= Len(s)
    BY <1>1, <1>4, <1>7
  <2> QED BY <1>7, <2>1, <2>2, PrefixIs
<1>9. ASSUME NEW a \in Seq(Nat), IsPrefix(a, s)
      PROVE  After(v, a) = After(w, a) \ {c}
  <2>1. Len(a) <= Len(s) /\ Len(a) \in Nat /\ \A j \in 1..Len(a) : a[j] = s[j]
    BY <1>9, PrefixIs
  <2>2. ASSUME NEW j \in (Len(v) + 1)..Len(a)
        PROVE  j \in (Len(w) + 1)..Len(a) /\ a[j] # c
    <3>a. j \in ((Len(w) + 1) + 1)..Len(a)
      BY <1>7
    <3>b. Len(w) \in Nat /\ Len(a) \in Nat /\ Len(s) \in Nat /\ Len(a) <= Len(s)
      BY <1>1, <2>1
    <3>1. j \in 1..Len(a) /\ j \in 1..Len(s) /\ Len(w) + 1 < j /\ j \in (Len(w) + 1)..Len(a)
      BY <3>a, <3>b, Beyond
    <3>2. s[Len(w) + 1] < s[j]
      BY <1>4, <3>1, SMTT(30) DEF Numbered, Rising
    <3>3. s[j] \in Nat /\ a[j] = s[j]
      BY <1>2, <2>1, <3>1
    <3> QED BY <1>6, <3>1, <3>2, <3>3
  <2>3. ASSUME NEW j \in (Len(w) + 1)..Len(a), a[j] # c
        PROVE  j \in (Len(v) + 1)..Len(a)
    <3>1. j # Len(w) + 1
      <4>1. Len(w) + 1 \in 1..Len(a) => a[Len(w) + 1] = c
        BY <1>6, <2>1
      <4>2. Len(w) + 1 = j => Len(w) + 1 \in 1..Len(a)
        BY <1>1, <2>1
      <4> QED BY <2>3, <4>1, <4>2
    <3> QED BY <1>1, <1>7, <2>1, <3>1
  <2> QED BY <2>2, <2>3 DEF After
<1> QED BY <1>6, <1>8, <1>9 DEF v

-----------------------------------------------------------------------------
(* The order of the queue *)

\* The queue r is q and the command c.
JoinedBy(q, t, c, r) ==
    /\ Len(r) = Len(q) + 1 /\ Len(q) \in Nat
    /\ \A i \in DOMAIN q : i \in DOMAIN r /\ r[i] = q[i]
    /\ \A i \in DOMAIN r : i \in DOMAIN q \/ i = Len(q) + 1
    /\ r[Len(q) + 1] = c
    /\ \A n \in 0..Len(q) : Queued(r, t, n) = Queued(q, t, n)
    /\ c.kind = t => Queued(r, t, Len(r)) = Queued(q, t, Len(q)) \cup {c.chunk}
    /\ c.kind # t => Queued(r, t, Len(r)) = Queued(q, t, Len(q))
    /\ InOrder(q, t) /\ (c.kind = t => \A x \in Queued(q, t, Len(q)) : x < c.chunk)
         => InOrder(r, t)

\* The queue r is q without its first command.
LeftBy(q, t, r) ==
    /\ \A i \in DOMAIN r : i \in Nat /\ i + 1 \in DOMAIN q /\ r[i] = q[i + 1]
    /\ Len(r) = Len(q) - 1 /\ Len(q) \in Nat /\ Len(r) \in Nat
    /\ \A n \in 0..Len(r) :
          /\ Head(q).kind = t => Queued(q, t, n + 1) = Queued(r, t, n) \cup {Head(q).chunk}
          /\ Head(q).kind # t => Queued(q, t, n + 1) = Queued(r, t, n)
    /\ Head(q).kind = t => Queued(q, t, Len(q)) = Queued(r, t, Len(r)) \cup {Head(q).chunk}
    /\ Head(q).kind # t => Queued(q, t, Len(q)) = Queued(r, t, Len(r))
    /\ InOrder(q, t) =>
          /\ InOrder(r, t)
          /\ Head(q).kind = t => \A x \in Queued(r, t, Len(r)) : Head(q).chunk < x

LEMMA QueueGrows ==
    ASSUME NEW q \in Seq(Commands), NEW c \in Commands, NEW t \in Tracks, NEW r,
           r = Append(q, c)
    PROVE  JoinedBy(q, t, c, r)
<1>1. /\ r \in Seq(Commands) /\ Len(r) = Len(q) + 1 /\ Len(q) \in Nat
      /\ \A i \in 1..Len(q) : r[i] = q[i]
      /\ r[Len(q) + 1] = c
  BY AppendProperties
<1>2. \A i \in DOMAIN r : i \in DOMAIN q \/ i = Len(q) + 1
  BY <1>1
<1>3. \A i \in DOMAIN q : i \in DOMAIN r /\ r[i] = q[i]
  BY <1>1
<1>4. ASSUME NEW n \in 0..Len(q)
      PROVE  Queued(r, t, n) = Queued(q, t, n)
  <2>1. \A i \in 1..n : i \in 1..Len(q)
    BY <1>1
  <2> QED BY <1>1, <2>1 DEF Queued
<1>5. /\ c.kind = t => Queued(r, t, Len(r)) = Queued(q, t, Len(q)) \cup {c.chunk}
      /\ c.kind # t => Queued(r, t, Len(r)) = Queued(q, t, Len(q))
  <2>1. \A i \in 1..Len(r) : i \in 1..Len(q) \/ i = Len(q) + 1
    BY <1>1
  <2>2. Len(q) + 1 \in 1..Len(r) /\ \A i \in 1..Len(q) : i \in 1..Len(r)
    BY <1>1
  <2> QED BY <1>1, <2>1, <2>2 DEF Queued
<1>6. ASSUME InOrder(q, t), c.kind = t => \A x \in Queued(q, t, Len(q)) : x < c.chunk
      PROVE  InOrder(r, t)
  <2>1. ASSUME NEW j \in DOMAIN r, NEW k \in DOMAIN r, j < k, r[j].kind = t, r[k].kind = t
        PROVE  r[j].chunk < r[k].chunk
    <3>1. j \in DOMAIN q
      BY <1>1, <1>2, <2>1
    <3>2. CASE k \in DOMAIN q
      BY <1>1, <1>6, <2>1, <3>1, <3>2 DEF InOrder
    <3>3. CASE k = Len(q) + 1
      <4>1. q[j].chunk \in Queued(q, t, Len(q))
        BY <1>1, <2>1, <3>1 DEF Queued
      <4> QED BY <1>1, <1>6, <2>1, <3>1, <3>3, <4>1
    <3> QED BY <1>2, <3>2, <3>3
  <2> QED BY <2>1 DEF InOrder
<1> QED BY <1>1, <1>2, <1>3, <1>4, <1>5, <1>6 DEF JoinedBy

LEMMA QueueShrinks ==
    ASSUME NEW q \in Seq(Commands), q # <<>>, NEW t \in Tracks, NEW r, r = Tail(q)
    PROVE  LeftBy(q, t, r)
<1>1. /\ r \in Seq(Commands) /\ Len(r) = Len(q) - 1 /\ Head(q) = q[1]
      /\ \A i \in 1..Len(r) : r[i] = q[i + 1]
  BY HeadTailProperties
<1>2. Len(q) \in Nat /\ Len(q) > 0 /\ Len(r) \in Nat
  BY <1>1, EmptySeq
<1>3. \A i \in DOMAIN r : i \in Nat /\ i > 0 /\ i + 1 \in DOMAIN q /\ r[i] = q[i + 1]
  BY <1>1, <1>2
<1>4. ASSUME NEW n \in 0..Len(r)
      PROVE  /\ Head(q).kind = t =>
                   Queued(q, t, n + 1) = Queued(r, t, n) \cup {Head(q).chunk}
             /\ Head(q).kind # t => Queued(q, t, n + 1) = Queued(r, t, n)
  <2>1. ASSUME NEW i \in 1..(n + 1), i # 1
        PROVE  i - 1 \in 1..n /\ q[i] = r[i - 1]
    <3>1. i - 1 \in 1..n /\ i - 1 \in 1..Len(r) /\ (i - 1) + 1 = i
      BY <1>2, <2>1
    <3> QED BY <1>1, <3>1
  <2>2. ASSUME NEW i \in 1..n
        PROVE  i + 1 \in 1..(n + 1) /\ q[i + 1] = r[i]
    BY <1>1, <1>2
  <2>3. 1 \in 1..(n + 1)
    BY <1>2
  <2>4. ASSUME NEW x \in Queued(q, t, n + 1)
        PROVE  x \in Queued(r, t, n) \/ (x = Head(q).chunk /\ Head(q).kind = t)
    <3>1. PICK i \in 1..(n + 1) : q[i].kind = t /\ q[i].chunk = x
      BY DEF Queued
    <3>2. CASE i = 1
      BY <1>1, <3>1, <3>2
    <3>3. CASE i # 1
      <4>1. i - 1 \in 1..n /\ r[i - 1].kind = t /\ r[i - 1].chunk = x
        BY <2>1, <3>1, <3>3
      <4> QED BY <4>1 DEF Queued
    <3> QED BY <3>2, <3>3
  <2>5. ASSUME NEW x \in Queued(r, t, n)
        PROVE  x \in Queued(q, t, n + 1)
    <3>1. PICK i \in 1..n : r[i].kind = t /\ r[i].chunk = x
      BY DEF Queued
    <3>2. i + 1 \in 1..(n + 1) /\ q[i + 1].kind = t /\ q[i + 1].chunk = x
      BY <2>2, <3>1
    <3> QED BY <3>2 DEF Queued
  <2>6. Head(q).kind = t => Head(q).chunk \in Queued(q, t, n + 1)
    BY <1>1, <2>3 DEF Queued
  <2> QED BY <2>4, <2>5, <2>6
<1>5. ASSUME InOrder(q, t)
      PROVE  InOrder(r, t)
  <2>1. ASSUME NEW j \in DOMAIN r, NEW k \in DOMAIN r, j < k, r[j].kind = t, r[k].kind = t
        PROVE  r[j].chunk < r[k].chunk
    <3>1. j + 1 < k + 1
      BY <1>3, <2>1
    <3> QED BY <1>3, <1>5, <2>1, <3>1 DEF InOrder
  <2> QED BY <2>1 DEF InOrder
<1>6. ASSUME InOrder(q, t), Head(q).kind = t, NEW x \in Queued(r, t, Len(r))
      PROVE  Head(q).chunk < x
  <2>1. PICK i \in 1..Len(r) : r[i].kind = t /\ r[i].chunk = x
    BY DEF Queued
  <2>2. i \in DOMAIN r /\ 1 \in DOMAIN q /\ 1 < i + 1
    BY <1>1, <1>2
  <2> QED BY <1>1, <1>3, <1>6, <2>1, <2>2 DEF InOrder
<1>7. Len(r) \in 0..Len(r) /\ Len(r) + 1 = Len(q)
  BY <1>1, <1>2
<1>8. /\ Head(q).kind = t => Queued(q, t, Len(q)) = Queued(r, t, Len(r)) \cup {Head(q).chunk}
      /\ Head(q).kind # t => Queued(q, t, Len(q)) = Queued(r, t, Len(r))
  BY <1>4, <1>7
<1> QED BY <1>1, <1>2, <1>3, <1>4, <1>5, <1>6, <1>8 DEF LeftBy

-----------------------------------------------------------------------------
(* What is accepted, buffered and queued *)

LEMMA WrittenIs ==
    ASSUME FilesTyped
    PROVE  \A t \in Tracks :
              /\ disk[t].pcm.data \in Seq(Nat) /\ disk[t].out.data \in Seq(Nat)
              /\ buffer[t] \in Seq(Nat) /\ Written(t) \in Seq(Nat)
              /\ IsPrefix(disk[t].pcm.data, Written(t))
              /\ buffer[t] = <<>> => Written(t) = disk[t].pcm.data
<1>1. ASSUME NEW t \in Tracks
      PROVE  /\ disk[t].pcm.data \in Seq(Nat) /\ disk[t].out.data \in Seq(Nat)
             /\ buffer[t] \in Seq(Nat)
  BY DEF FilesTyped, Entries, Files
<1>2. \A s \in Seq(Nat) : s \o <<>> = s
  OBVIOUS
<1> QED BY <1>1, <1>2, Extends DEF Written

LEMMA WrittenNext ==
    ASSUME FilesTyped'
    PROVE  \A t \in Tracks :
              /\ disk'[t].pcm.data \in Seq(Nat) /\ disk'[t].out.data \in Seq(Nat)
              /\ buffer'[t] \in Seq(Nat) /\ Written(t)' \in Seq(Nat)
              /\ IsPrefix(disk'[t].pcm.data, Written(t)')
              /\ buffer'[t] = <<>> => Written(t)' = disk'[t].pcm.data
<1>1. ASSUME NEW t \in Tracks
      PROVE  /\ disk'[t].pcm.data \in Seq(Nat) /\ disk'[t].out.data \in Seq(Nat)
             /\ buffer'[t] \in Seq(Nat)
  BY DEF FilesTyped, Entries, Files
<1>2. \A s \in Seq(Nat) : s \o <<>> = s
  OBVIOUS
<1> QED BY <1>1, <1>2, Extends DEF Written

LEMMA HistoryIs ==
    ASSUME Typed
    PROVE  /\ past.chunks \in Nat
           /\ \A t \in Tracks : /\ past.accepted[t] \in Seq(Nat) /\ past.asked[t] \in Seq(Nat)
                                /\ past.reported[t] \in Seq(Nat)
BY DEF Typed, Histories

LEMMA AcceptedIs ==
    ASSUME Typed, NEW k \in Tracks, NEW c,
           past'.accepted = [past.accepted EXCEPT ![k] = Append(@, c)]
    PROVE  \A t \in Tracks : past'.accepted[t] = IF t = k THEN Append(past.accepted[t], c)
                                                 ELSE past.accepted[t]
<1> DEFINE v == Append(past.accepted[k], c)
<1>1. past.accepted \in [Tracks -> Seq(Nat)]
  BY DEF Typed, Histories
<1>2. past'.accepted = [past.accepted EXCEPT ![k] = v]
  OBVIOUS
<1> HIDE DEF v
<1>3. \A t \in Tracks : past'.accepted[t] = IF t = k THEN v ELSE past.accepted[t]
  BY <1>1, <1>2, OneChanged
<1> QED BY <1>3 DEF v

\* A step that takes no chunk from one place to another
LEMMA ChainKept ==
    ASSUME Typed, Typed', Chain,
           \A t \in Tracks : /\ Written(t)' = Written(t)
                             /\ disk'[t].pcm.data = disk[t].pcm.data \/ writer.pc # "none",
           queue' = queue, past'.accepted = past.accepted, past'.chunks = past.chunks,
           writer'.pc # "none" => writer.pc # "none"
    PROVE  Chain'
<1>1. ASSUME NEW t \in Tracks
      PROVE  Numbered(disk'[t].pcm.data, past'.chunks)
  <2>1. CASE disk'[t].pcm.data = disk[t].pcm.data
    BY <2>1 DEF Chain
  <2>2. CASE writer.pc # "none"
    <3>1. /\ Numbered(past.accepted[t], past.chunks) /\ IsPrefix(Written(t), past.accepted[t])
      BY <2>2 DEF Chain, ChainAt
    <3>2. past.accepted[t] \in Seq(Nat) /\ past.chunks \in Nat
      BY HistoryIs
    <3>3. /\ disk'[t].pcm.data \in Seq(Nat) /\ Written(t) \in Seq(Nat)
          /\ IsPrefix(disk'[t].pcm.data, Written(t)')
      BY WrittenIs, WrittenNext DEF Typed
    <3>4. IsPrefix(disk'[t].pcm.data, past.accepted[t])
      BY <3>1, <3>2, <3>3, PrefixTrans
    <3> QED BY <3>1, <3>2, <3>3, <3>4, NumberedPrefix
  <2> QED BY <2>1, <2>2
<1>2. ASSUME NEW t \in Tracks, writer'.pc # "none"
      PROVE  ChainAt(t)'
  <2>1. ChainAt(t)
    BY <1>2 DEF Chain
  <2> QED BY <2>1 DEF ChainAt
<1> QED BY <1>1, <1>2 DEF Chain

\* The steps that leave what is written and pending alone
LEMMA WrittenStays ==
    ASSUME Typed, Typed', Protocol, NEW t \in Tracks,
           \/ Quiet \/ DidFail
           \/ \E k \in Tracks :
                 \/ DidOpen(k) \/ DidFlush(k) \/ DidSync(k) \/ DidExamine(k) \/ DidRefuse(k)
                 \/ DidCopy(k) \/ DidSyncCopy(k) \/ DidRename(k) \/ DidRemove(k)
    PROVE  Written(t)' = Written(t) /\ (disk'[t].pcm.data = disk[t].pcm.data \/ writer.pc # "none")
<1>1. /\ disk'[t].pcm.data \in Seq(Nat) /\ disk[t].pcm.data \in Seq(Nat)
      /\ buffer'[t] = <<>> => Written(t)' = disk'[t].pcm.data
      /\ buffer[t] = <<>> => Written(t) = disk[t].pcm.data
  BY WrittenIs, WrittenNext DEF Typed
<1>2. CASE Quiet
  BY <1>2 DEF Quiet, Written
<1>3. CASE DidFail
  BY <1>3 DEF DidFail, Protocol
<1>4. ASSUME NEW k \in Tracks, DidFlush(k)
      PROVE  Written(t)' = Written(t) /\ (disk'[t].pcm.data = disk[t].pcm.data \/ writer.pc # "none")
  <2>1. CASE t = k
    BY <1>1, <1>4, <2>1 DEF DidFlush, Protocol
  <2>2. CASE t # k
    <3>1. disk'[t] = disk[t] /\ buffer'[t] = buffer[t]
      BY <1>4, <2>2 DEF DidFlush, Others
    <3> QED BY <3>1 DEF Written
  <2> QED BY <2>1, <2>2
<1>5. ASSUME NEW k \in Tracks,
             \/ DidOpen(k) \/ DidSync(k) \/ DidExamine(k) \/ DidRefuse(k)
             \/ DidCopy(k) \/ DidSyncCopy(k) \/ DidRename(k) \/ DidRemove(k)
      PROVE  Written(t)' = Written(t) /\ (disk'[t].pcm.data = disk[t].pcm.data \/ writer.pc # "none")
  <2>1. disk'[t].pcm.data = disk[t].pcm.data /\ buffer'[t] = buffer[t]
    BY <1>5 DEF DidOpen, DidSync, DidExamine, DidRefuse, DidCopy, DidSyncCopy, DidRename,
                DidRemove, Others
  <2> QED BY <2>1 DEF Written
<1> QED BY <1>2, <1>3, <1>4, <1>5

\* The chunk at hand is the next one.
LEMMA NextWritten ==
    ASSUME Typed, Chain, NEW k \in Tracks, writer.pc # "none", queue # <<>>,
           Head(queue).kind = k
    PROVE  /\ Head(queue).chunk \in Nat
           /\ IsPrefix(Append(Written(k), Head(queue).chunk), past.accepted[k])
           /\ \A a \in Seq(Nat) : IsPrefix(a, past.accepted[k]) =>
                 After(Append(Written(k), Head(queue).chunk), a)
                   = After(Written(k), a) \ {Head(queue).chunk}
           /\ \A x \in Queued(Tail(queue), k, Len(Tail(queue))) : Head(queue).chunk < x /\ x \in Nat
<1> DEFINE c == Head(queue).chunk
           r == Tail(queue)
<1>1. queue \in Seq(Commands) /\ past.chunks \in Nat /\ past.accepted[k] \in Seq(Nat)
      /\ Written(k) \in Seq(Nat)
  BY HistoryIs, WrittenIs DEF Typed
<1>2. r \in Seq(Commands) /\ Head(queue) \in Commands
  BY <1>1
<1>3. LeftBy(queue, k, r)
  BY <1>1, QueueShrinks
<1>4. ChainAt(k)
  BY DEF Chain
<1> HIDE DEF r
<1>5. \A i \in 1..Len(r) : r[i] \in Commands
  BY <1>2, ElementOfSeq
<1>6. \A x \in Queued(r, k, Len(r)) : c < x /\ x \in Nat
  BY <1>3, <1>4, <1>5, SMTT(30) DEF LeftBy, ChainAt, Queued, Commands
<1>7. c \in Nat /\ c \in After(Written(k), past.accepted[k])
  BY <1>2, <1>3, <1>4 DEF LeftBy, ChainAt, Commands
<1>8. \A x \in After(Written(k), past.accepted[k]) : c <= x
  <2>1. ASSUME NEW x \in After(Written(k), past.accepted[k])
        PROVE  c <= x
    <3>1. x = c \/ x \in Queued(r, k, Len(r))
      BY <1>3, <1>4 DEF LeftBy, ChainAt
    <3>2. x = c \/ (x \in Nat /\ c < x)
      BY <1>6, <3>1
    <3> QED BY <1>7, <3>2
  <2> QED BY <2>1
<1>9. Numbered(past.accepted[k], past.chunks) /\ IsPrefix(Written(k), past.accepted[k])
  BY <1>4 DEF ChainAt
<1>10. /\ IsPrefix(Append(Written(k), c), past.accepted[k])
       /\ \A a \in Seq(Nat) : IsPrefix(a, past.accepted[k]) =>
             After(Append(Written(k), c), a) = After(Written(k), a) \ {c}
  BY <1>1, <1>7, <1>8, <1>9, NextIs
<1> QED BY <1>6, <1>7, <1>10 DEF r

LEMMA ChainStays ==
    ASSUME Typed, Typed', Protocol, Chain, Happens
    PROVE  Chain'
<1>0. /\ past.chunks \in Nat /\ queue \in Seq(Commands) /\ queue' \in Seq(Commands)
      /\ \A t \in Tracks : past.accepted[t] \in Seq(Nat)
  BY HistoryIs DEF Typed
<1>a. \A t \in Tracks : Written(t) \in Seq(Nat) /\ disk[t].pcm.data \in Seq(Nat)
  BY WrittenIs DEF Typed
<1>b. \A t \in Tracks : /\ disk'[t].pcm.data \in Seq(Nat)
                        /\ IsPrefix(disk'[t].pcm.data, Written(t)')
                        /\ Written(t)' \in Seq(Nat)
  BY WrittenNext DEF Typed
<1>1. CASE \/ DidStart \/ DidFail \/ DidSettle \/ DidRecover \/ DidEnd
           \/ (\E kind \in CallKinds : DidAsk(kind))
           \/ (DidRespond /\ writer.call = "checkpoint")
           \/ (DidSend /\ writer.pc = "none") \/ (DidStarted /\ ~writer.ok)
           \/ \E k \in Tracks :
                 \/ DidOpen(k) \/ DidFlush(k) \/ DidSync(k) \/ DidExamine(k) \/ DidRefuse(k)
                 \/ DidCopy(k) \/ DidSyncCopy(k) \/ DidRename(k) \/ DidRemove(k)
  <2>1. \A t \in Tracks :
           Written(t)' = Written(t) /\ (disk'[t].pcm.data = disk[t].pcm.data \/ writer.pc # "none")
    <3>1. CASE Quiet
      BY <3>1, WrittenStays
    <3>2. CASE ~Quiet
      BY <1>1, <3>2, WrittenStays
      DEF DidStart, DidSettle, DidRecover, DidEnd, DidAsk, DidSend, DidStarted, DidRespond, Quiet
    <3> QED BY <3>1, <3>2
  <2>2. queue' = queue /\ past'.accepted = past.accepted /\ past'.chunks = past.chunks
    BY <1>1, <1>0 DEF DidStart, DidFail, DidSettle, DidRecover, DidEnd, DidAsk, DidSend, DidStarted,
       DidRespond, DidOpen, DidFlush, DidSync, DidExamine, DidRefuse, DidCopy, DidSyncCopy,
       DidRename, DidRemove, Acted, SameHistory, Typed, Histories
  <2>3. writer'.pc # "none" => writer.pc # "none"
    <3>1. CASE DidStart \/ DidFail \/ (DidRespond /\ writer.call = "checkpoint")
               \/ \E k \in Tracks : DidRefuse(k)
      BY <3>1 DEF DidStart, DidFail, DidRespond, DidRefuse, NoWriter
    <3>2. CASE \/ DidSettle \/ DidRecover \/ DidEnd \/ (\E kind \in CallKinds : DidAsk(kind))
               \/ (DidSend /\ writer.pc = "none") \/ (DidStarted /\ ~writer.ok)
               \/ \E k \in Tracks : DidExamine(k)
      BY <3>2 DEF DidSettle, DidRecover, DidEnd, DidAsk, DidSend, DidStarted, DidExamine
    <3>3. CASE \E k \in Tracks :
                  \/ DidOpen(k) \/ DidFlush(k) \/ DidSync(k) \/ DidCopy(k) \/ DidSyncCopy(k)
                  \/ DidRename(k) \/ DidRemove(k)
      <4>1. writer' = writer
        BY <3>3, ActedSome DEF ActedOn, Acted
      <4> QED BY <4>1
    <3> QED BY <1>1, <3>1, <3>2, <3>3
  <2> QED BY <2>1, <2>2, <2>3, ChainKept
<1>2. CASE DidStarted /\ writer.ok
  <2>1. ASSUME NEW t \in Tracks
        PROVE  ChainAt(t)'
    <3>1. writer.pc = "none" /\ queue = <<>> /\ buffer[t] = <<>>
      BY <1>2 DEF DidStarted, Protocol
    <3>2. /\ past'.accepted[t] = disk[t].pcm.data /\ past'.chunks = past.chunks
          /\ queue' = <<>> /\ disk' = disk /\ buffer' = buffer
      BY <1>2, <3>1 DEF DidStarted, Quiet
    <3>3. Written(t)' = disk[t].pcm.data /\ Written(t) = disk[t].pcm.data
      BY <3>1, <3>2, WrittenIs DEF Typed, Written
    <3>4. Numbered(disk[t].pcm.data, past.chunks)
      BY DEF Chain
    <3>5. After(disk[t].pcm.data, disk[t].pcm.data) = {}
      <4>1. Len(disk[t].pcm.data) \in Nat
        BY <1>a
      <4>2. \A n \in Nat : (n + 1)..n = {}
        OBVIOUS
      <4> QED BY <4>1, <4>2 DEF After
    <3>6. Queued(<<>>, t, Len(<<>>)) = {} /\ InOrder(<<>>, t)
      BY DEF Queued, InOrder
    <3>7. IsPrefix(disk[t].pcm.data, disk[t].pcm.data)
      BY <1>a, PrefixRefl
    <3> QED BY <3>2, <3>3, <3>4, <3>5, <3>6, <3>7 DEF ChainAt
  <2>2. \A t \in Tracks : Numbered(disk'[t].pcm.data, past'.chunks)
    BY <1>2 DEF DidStarted, Quiet, Chain
  <2> QED BY <2>1, <2>2 DEF Chain
<1>3. ASSUME NEW k \in Tracks, DidAppend(k)
      PROVE  Chain'
  <2> DEFINE c == past.chunks + 1
             cmd == Command(k, c)
  <2>1. /\ cmd \in Commands /\ cmd.kind = k /\ cmd.chunk = c /\ c \in Nat
    BY <1>0 DEF Commands, Command
  <2>2. /\ queue' = Append(queue, cmd) /\ past'.chunks = c
        /\ past'.accepted = [past.accepted EXCEPT ![k] = Append(@, c)]
        /\ disk' = disk /\ buffer' = buffer /\ writer.pc # "none"
    BY <1>3 DEF DidAppend, Quiet
  <2>3. \A t \in Tracks : past'.accepted[t] = IF t = k THEN Append(past.accepted[t], c)
                                              ELSE past.accepted[t]
    BY <2>2, AcceptedIs
  <2>4. \A t \in Tracks : ChainAt(t)
    BY <2>2 DEF Chain
  <2>w. \A t \in Tracks : Written(t)' = Written(t)
    BY <2>2 DEF Written
  <2> HIDE DEF cmd
  <2>5. ASSUME NEW t \in Tracks
        PROVE  ChainAt(t)'
    <3>1. \A x \in Queued(queue, t, Len(queue)) : x < c
      <4>1. ASSUME NEW x \in After(Written(t), past.accepted[t])
            PROVE  x < c
        <5>1. Len(Written(t)) \in Nat /\ past.accepted[t] \in Seq(Nat)
              /\ Len(past.accepted[t]) \in Nat
          BY <1>0, <1>a
        <5>2. PICK i \in (Len(Written(t)) + 1)..Len(past.accepted[t]) : past.accepted[t][i] = x
          BY DEF After
        <5>3. i \in 1..Len(past.accepted[t])
          BY <5>1, <5>2
        <5>4. x \in Nat /\ x <= past.chunks
          BY <2>4, <5>1, <5>2, <5>3, ElementOfSeq DEF ChainAt, Numbered
        <5> QED BY <1>0, <5>4
      <4> QED BY <2>4, <4>1 DEF ChainAt
    <3>2. /\ t = k => Queued(queue', t, Len(queue')) = Queued(queue, t, Len(queue)) \cup {c}
          /\ t # k => Queued(queue', t, Len(queue')) = Queued(queue, t, Len(queue))
          /\ InOrder(queue', t)
      <4>1. InOrder(queue, t)
        BY <2>4 DEF ChainAt
      <4>2. \A x \in Queued(queue, t, Len(queue)) : x < cmd.chunk
        BY <2>1, <3>1
      <4>3. JoinedBy(queue, t, cmd, queue')
        BY <1>0, <2>1, <2>2, QueueGrows
      <4> QED BY <2>1, <4>1, <4>2, <4>3 DEF JoinedBy
    <3>3. CASE t = k
      <4>1. /\ Numbered(Append(past.accepted[t], c), c)
            /\ IsPrefix(Written(t), Append(past.accepted[t], c))
            /\ After(Written(t), Append(past.accepted[t], c))
                 = After(Written(t), past.accepted[t]) \cup {c}
        <5>1. Numbered(past.accepted[t], past.chunks) /\ IsPrefix(Written(t), past.accepted[t])
          BY <2>4 DEF ChainAt
        <5>2. Accepts(Written(t), past.accepted[t], Append(past.accepted[t], c), c)
          BY <1>0, <1>a, <5>1, Accepted
        <5> QED BY <5>2 DEF Accepts
      <4> QED BY <2>2, <2>3, <2>4, <2>w, <3>2, <3>3, <4>1 DEF ChainAt
    <3>4. CASE t # k
      <4>1. Numbered(past.accepted[t], c)
        <5>1. Numbered(past.accepted[t], past.chunks)
          BY <2>4 DEF ChainAt
        <5>2. \A i \in DOMAIN past.accepted[t] : past.accepted[t][i] \in Nat
          BY <1>0, ElementOfSeq
        <5> QED BY <1>0, <5>1, <5>2 DEF Numbered
      <4> QED BY <2>2, <2>3, <2>4, <2>w, <3>2, <3>4, <4>1 DEF ChainAt
    <3> QED BY <3>3, <3>4
  <2>6. ASSUME NEW t \in Tracks
        PROVE  Numbered(disk'[t].pcm.data, past'.chunks)
    <3>1. Numbered(disk[t].pcm.data, past.chunks)
      BY DEF Chain
    <3>2. \A i \in DOMAIN disk[t].pcm.data : disk[t].pcm.data[i] \in Nat
      BY <1>a, ElementOfSeq
    <3> QED BY <1>0, <2>2, <3>1, <3>2 DEF Numbered
  <2> QED BY <2>5, <2>6 DEF Chain
<1>4. CASE DidSend /\ writer.pc # "none"
  <2> DEFINE cmd == Command(control.call, 0)
  <2>1. control.call \in CallKinds /\ queue' = Append(queue, cmd)
        /\ past'.accepted = past.accepted /\ past'.chunks = past.chunks
        /\ disk' = disk /\ buffer' = buffer
    BY <1>4 DEF DidSend, Quiet
  <2>2. cmd \in Commands /\ \A t \in Tracks : cmd.kind # t
    BY <2>1 DEF Commands, Command, CallKinds, Tracks, MicTrack, SystemTrack
  <2> HIDE DEF cmd
  <2>3. ASSUME NEW t \in Tracks
        PROVE  ChainAt(t)'
    <3>1. ChainAt(t)
      BY <1>4 DEF Chain
    <3>2. Queued(queue', t, Len(queue')) = Queued(queue, t, Len(queue)) /\ InOrder(queue', t)
      <4>1. InOrder(queue, t) /\ cmd.kind # t
        BY <2>2, <3>1 DEF ChainAt
      <4>2. JoinedBy(queue, t, cmd, queue')
        BY <1>0, <2>1, <2>2, QueueGrows
      <4> QED BY <4>1, <4>2 DEF JoinedBy
    <3>3. Written(t)' = Written(t)
      BY <2>1 DEF Written
    <3> QED BY <2>1, <3>1, <3>2, <3>3 DEF ChainAt
  <2> QED BY <2>1, <2>3 DEF Chain
<1>5. ASSUME NEW kind \in CallKinds, DidReceive(kind)
      PROVE  Chain'
  <2>1. /\ queue # <<>> /\ queue' = Tail(queue) /\ Head(queue).kind = kind
        /\ writer.pc # "none" /\ past' = past /\ disk' = disk /\ buffer' = buffer
    BY <1>5 DEF DidReceive, Quiet
  <2>2. ASSUME NEW t \in Tracks
        PROVE  ChainAt(t)'
    <3>1. ChainAt(t) /\ kind # t
      BY <2>1 DEF Chain, CallKinds, Tracks, MicTrack, SystemTrack
    <3>2. Queued(queue', t, Len(queue')) = Queued(queue, t, Len(queue)) /\ InOrder(queue', t)
      <4>1. InOrder(queue, t)
        BY <3>1 DEF ChainAt
      <4>2. LeftBy(queue, t, queue')
        BY <1>0, <2>1, QueueShrinks
      <4> QED BY <2>1, <3>1, <4>1, <4>2 DEF LeftBy
    <3>3. Written(t)' = Written(t)
      BY <2>1 DEF Written
    <3> QED BY <2>1, <3>1, <3>2, <3>3 DEF ChainAt
  <2> QED BY <2>1, <2>2 DEF Chain
<1>6. CASE DidGiveUp \/ (DidRespond /\ writer.call # "checkpoint")
  <2>1. Left /\ past'.chunks = past.chunks /\ writer.pc # "none" /\ writer'.pc = "none"
    BY <1>6 DEF DidGiveUp, DidRespond, Left, NoWriter
  <2>2. ASSUME NEW t \in Tracks
        PROVE  Numbered(disk'[t].pcm.data, past'.chunks)
    <3>1. ChainAt(t) /\ IsPrefix(disk'[t].pcm.data, Written(t))
      BY <2>1 DEF Chain, Left
    <3>2. IsPrefix(disk'[t].pcm.data, past.accepted[t])
      BY <1>0, <1>a, <1>b, <3>1, PrefixTrans DEF ChainAt
    <3> QED BY <1>0, <1>b, <2>1, <3>1, <3>2, NumberedPrefix DEF ChainAt
  <2> QED BY <2>1, <2>2 DEF Chain
<1>7. CASE DidCrash
  <2>1. past'.chunks = past.chunks /\ writer'.pc = "none"
    BY <1>7 DEF DidCrash, NoWriter
  <2>2. ASSUME NEW t \in Tracks
        PROVE  Numbered(disk'[t].pcm.data, past'.chunks)
    <3>1. IsPrefix(disk'[t].pcm.data, disk[t].pcm.data)
      BY <1>7, <1>a, PrefixRefl DEF DidCrash
    <3> QED BY <1>0, <1>a, <1>b, <2>1, <3>1, NumberedPrefix DEF Chain
  <2> QED BY <2>1, <2>2 DEF Chain
<1>8. ASSUME NEW k \in Tracks, DidWrite(k)
      PROVE  Chain'
  <2>1. /\ queue # <<>> /\ queue' = Tail(queue) /\ Head(queue).kind = k
        /\ writer.pc # "none" /\ past' = past
        /\ Written(k)' = Append(Written(k), Head(queue).chunk)
        /\ \A t \in Tracks \ {k} : Written(t)' = Written(t)
    BY <1>8 DEF DidWrite
  <2>2. ASSUME NEW t \in Tracks
        PROVE  ChainAt(t)'
    <3>1. ChainAt(t)
      BY <2>1 DEF Chain
    <3>2. LeftBy(queue, t, queue')
      BY <1>0, <2>1, QueueShrinks
    <3>3. CASE t = k
      <4> DEFINE c == Head(queue).chunk
      <4>1. /\ c \in Nat /\ IsPrefix(Append(Written(t), c), past.accepted[t])
            /\ \A x \in Queued(queue', t, Len(queue')) : c < x
            /\ \A a \in Seq(Nat) : IsPrefix(a, past.accepted[t]) =>
                  After(Append(Written(t), c), a) = After(Written(t), a) \ {c}
        BY <2>1, <3>3, NextWritten
      <4>2. IsPrefix(past.accepted[t], past.accepted[t])
        BY <1>0, PrefixRefl
      <4>3. After(Append(Written(t), c), past.accepted[t])
               = After(Written(t), past.accepted[t]) \ {c}
        BY <1>0, <4>1, <4>2
      <4>4. c \notin Queued(queue', t, Len(queue'))
        BY <4>1
      <4>5. After(Append(Written(t), c), past.accepted[t]) = Queued(queue', t, Len(queue'))
        <5>1. Queued(queue, t, Len(queue)) = Queued(queue', t, Len(queue')) \cup {c}
          BY <2>1, <3>2, <3>3 DEF LeftBy
        <5>2. After(Written(t), past.accepted[t]) = Queued(queue, t, Len(queue))
          BY <3>1 DEF ChainAt
        <5> QED BY <4>3, <4>4, <5>1, <5>2
      <4> QED BY <2>1, <3>1, <3>2, <3>3, <4>1, <4>5 DEF ChainAt, LeftBy
    <3>4. CASE t # k
      BY <2>1, <3>1, <3>2, <3>4 DEF ChainAt, LeftBy
    <3> QED BY <3>3, <3>4
  <2>3. ASSUME NEW t \in Tracks
        PROVE  Numbered(disk'[t].pcm.data, past'.chunks)
    <3>1. IsPrefix(Written(t)', past.accepted[t]) /\ Numbered(past.accepted[t], past.chunks)
      BY <2>1, <2>2 DEF ChainAt
    <3>2. IsPrefix(disk'[t].pcm.data, past.accepted[t])
      BY <1>0, <1>b, <3>1, PrefixTrans
    <3> QED BY <1>0, <1>b, <2>1, <3>1, <3>2, NumberedPrefix
  <2> QED BY <2>2, <2>3 DEF Chain
<1> QED BY <1>1, <1>2, <1>3, <1>4, <1>5, <1>6, <1>7, <1>8 DEF Happens

\* A step that moves no chunk of what is asked for
LEMMA AskedKept ==
    ASSUME Asked, \A t \in Tracks : Written(t)' = Written(t),
           queue' = queue, control' = control,
           past'.accepted = past.accepted, past'.asked = past.asked
    PROVE  Asked'
BY DEF Asked

LEMMA AskedStays ==
    ASSUME Typed, Typed', Protocol, Protocol', Chain, Asked, Happens
    PROVE  Asked'
<1>0. /\ past.chunks \in Nat /\ queue \in Seq(Commands) /\ queue' \in Seq(Commands)
      /\ \A t \in Tracks : past.accepted[t] \in Seq(Nat) /\ past.asked[t] \in Seq(Nat)
  BY HistoryIs DEF Typed
<1>1. CASE control'.pc # "waiting"
  BY <1>1 DEF Protocol, Asked
<1>2. CASE \/ DidStart \/ DidStarted \/ DidGiveUp \/ DidRespond \/ DidCrash \/ DidRecover
           \/ DidEnd \/ (\E kind \in CallKinds : DidAsk(kind))
           \/ (DidSend /\ writer.pc = "none")
  <2>1. control'.pc # "waiting"
    BY <1>2, ReturnedIs
    DEF DidStart, DidStarted, DidGiveUp, DidRespond, DidCrash, DidRecover, DidEnd, DidAsk, DidSend
  <2> QED BY <1>1, <2>1
<1>3. CASE \/ DidFail \/ DidSettle
           \/ \E k \in Tracks :
                 \/ DidOpen(k) \/ DidFlush(k) \/ DidSync(k) \/ DidExamine(k) \/ DidRefuse(k)
                 \/ DidCopy(k) \/ DidSyncCopy(k) \/ DidRename(k) \/ DidRemove(k)
  <2>1. \A t \in Tracks : Written(t)' = Written(t)
    <3>1. DidSettle => Quiet
      BY DEF DidSettle
    <3> QED BY <1>3, <3>1, WrittenStays
  <2>2. queue' = queue /\ control' = control /\ past'.accepted = past.accepted
        /\ past'.asked = past.asked
    BY <1>3, ZenonT(60) DEF DidFail, DidSettle, DidOpen, DidFlush, DidSync, DidExamine, DidRefuse, DidCopy,
       DidSyncCopy, DidRename, DidRemove, Acted, Typed, Histories
  <2> QED BY <2>1, <2>2, AskedKept
<1>4. ASSUME NEW k \in Tracks, DidAppend(k)
      PROVE  Asked'
  <2> DEFINE c == past.chunks + 1
             cmd == Command(k, c)
  <2>1. cmd \in Commands /\ cmd.kind = k /\ cmd.kind \notin CallKinds
    BY <1>0 DEF Commands, Command, CallKinds, Tracks, MicTrack, SystemTrack
  <2>2. /\ queue' = Append(queue, cmd) /\ past'.asked = past.asked /\ control' = control
        /\ past'.accepted = [past.accepted EXCEPT ![k] = Append(@, c)]
        /\ disk' = disk /\ buffer' = buffer
        /\ control.pc = "live" \/ control.call = "checkpoint"
    BY <1>4 DEF DidAppend, Quiet
  <2> HIDE DEF cmd
  <2>3. \A t \in Tracks : IsPrefix(past.accepted[t], past'.accepted[t])
    <3>1. ASSUME NEW t \in Tracks
          PROVE  IsPrefix(past.accepted[t], past'.accepted[t])
      <4>1. past'.accepted[t] = IF t = k THEN Append(past.accepted[t], c) ELSE past.accepted[t]
        <5>1. \A u \in Tracks : past'.accepted[u] = IF u = k THEN Append(past.accepted[u], c)
                                                    ELSE past.accepted[u]
          BY <2>2, AcceptedIs
        <5> QED BY <5>1
      <4>2. c \in Nat
        BY <1>0
      <4> QED BY <1>0, <4>1, <4>2, AppendIs, PrefixRefl
    <3> QED BY <3>1
  <2>4. \A t \in Tracks : past'.accepted[t] \in Seq(Nat)
    BY DEF Typed, Histories
  <2>5. control'.pc = "waiting" => \A t \in Tracks : IsPrefix(past'.asked[t], past'.accepted[t])
    BY <1>0, <2>2, <2>3, <2>4, PrefixTrans DEF Asked
  <2>6. control'.pc = "waiting" => control'.call = "checkpoint"
    BY <2>2
  <2>7. ASSUME NEW q \in DOMAIN queue', queue'[q].kind \in CallKinds, NEW t \in Tracks
        PROVE  After(Written(t), past.asked[t])' \subseteq Queued(queue', t, q)
    <3>1. JoinedBy(queue, t, cmd, queue')
      BY <1>0, <2>1, <2>2, QueueGrows
    <3>2. q \in DOMAIN queue /\ queue[q] = queue'[q]
      BY <2>1, <2>7, <3>1 DEF JoinedBy
    <3>3. q \in 0..Len(queue)
      BY <1>0, <3>2
    <3>4. Queued(queue', t, q) = Queued(queue, t, q)
      BY <3>1, <3>3 DEF JoinedBy
    <3>5. Written(t)' = Written(t)
      BY <2>2 DEF Written
    <3> QED BY <2>2, <2>7, <3>2, <3>4, <3>5 DEF Asked
  <2> QED BY <2>5, <2>6, <2>7 DEF Asked
<1>5. CASE DidSend /\ writer.pc # "none"
  <2> DEFINE cmd == Command(control.call, 0)
  <2>1. /\ control.pc = "sending" /\ control.call \in CallKinds /\ queue' = Append(queue, cmd)
        /\ past'.accepted = past.accepted /\ past'.asked = past.accepted
        /\ disk' = disk /\ buffer' = buffer
    BY <1>5 DEF DidSend, Quiet
  <2>2. cmd \in Commands /\ \A t \in Tracks : cmd.kind # t
    BY <2>1 DEF Commands, Command, CallKinds, Tracks, MicTrack, SystemTrack
  <2> HIDE DEF cmd
  <2>3. ASSUME NEW q \in DOMAIN queue', queue'[q].kind \in CallKinds, NEW t \in Tracks
        PROVE  After(Written(t), past.asked[t])' \subseteq Queued(queue', t, q)
    <3>1. JoinedBy(queue, t, cmd, queue')
      BY <1>0, <2>1, <2>2, QueueGrows
    <3>2. q \notin DOMAIN queue
      BY <2>1, <2>3, <3>1 DEF JoinedBy, Protocol
    <3>3. q = Len(queue')
      BY <3>1, <3>2, <2>3 DEF JoinedBy
    <3>4. Queued(queue', t, q) = Queued(queue, t, Len(queue))
      BY <2>2, <3>1, <3>3 DEF JoinedBy
    <3>5. Written(t)' = Written(t)
      BY <2>1 DEF Written
    <3>6. ChainAt(t)
      BY <1>5 DEF Chain
    <3> QED BY <2>1, <3>4, <3>5, <3>6 DEF ChainAt
  <2>4. \A t \in Tracks : IsPrefix(past'.asked[t], past'.accepted[t])
    BY <1>0, <2>1, PrefixRefl
  <2> QED BY <2>1, <2>3, <2>4 DEF Asked
<1>6. ASSUME NEW kind \in CallKinds, DidReceive(kind)
      PROVE  Asked'
  <2>1. /\ queue # <<>> /\ queue' = Tail(queue) /\ Head(queue).kind = kind
        /\ past' = past /\ control' = control
    BY <1>6 DEF DidReceive
  <2>2. ASSUME NEW q \in DOMAIN queue'
        PROVE  queue'[q].kind \notin CallKinds
    <3>1. LeftBy(queue, MicTrack, queue')
      BY <1>0, <2>1, QueueShrinks DEF Tracks
    <3>2. q + 1 \in DOMAIN queue /\ queue'[q] = queue[q + 1] /\ q + 1 # 1
      <4>1. q \in Nat /\ q > 0
        BY <1>0
      <4> QED BY <2>2, <3>1, <4>1 DEF LeftBy
    <3>3. 1 \in DOMAIN queue /\ queue[1].kind = kind
      BY <1>0, <2>1
    <3> QED BY <3>2, <3>3 DEF Protocol
  <2> QED BY <2>1, <2>2 DEF Asked
<1>7. ASSUME NEW k \in Tracks, DidWrite(k)
      PROVE  Asked'
  <2>1. /\ queue # <<>> /\ queue' = Tail(queue) /\ Head(queue).kind = k
        /\ writer.pc # "none" /\ past' = past /\ control' = control
        /\ Written(k)' = Append(Written(k), Head(queue).chunk)
        /\ \A t \in Tracks \ {k} : Written(t)' = Written(t)
    BY <1>7 DEF DidWrite
  <2>2. ASSUME NEW q \in DOMAIN queue', queue'[q].kind \in CallKinds, NEW t \in Tracks
        PROVE  After(Written(t), past.asked[t])' \subseteq Queued(queue', t, q)
    <3>1. LeftBy(queue, t, queue')
      BY <1>0, <2>1, QueueShrinks
    <3>2. /\ q + 1 \in DOMAIN queue /\ queue'[q] = queue[q + 1] /\ q \in 0..Len(queue')
      <4>1. q \in 0..Len(queue')
        BY <1>0, <2>2
      <4> QED BY <2>2, <3>1, <4>1 DEF LeftBy
    <3>3. /\ After(Written(t), past.asked[t]) \subseteq Queued(queue, t, q + 1)
          /\ IsPrefix(past.asked[t], past.accepted[t])
      BY <2>2, <3>2 DEF Asked, Protocol
    <3>4. CASE t = k
      <4>1. After(Append(Written(t), Head(queue).chunk), past.asked[t])
              = After(Written(t), past.asked[t]) \ {Head(queue).chunk}
        BY <1>0, <2>1, <3>3, <3>4, NextWritten
      <4>2. Queued(queue, t, q + 1) = Queued(queue', t, q) \cup {Head(queue).chunk}
        BY <2>1, <3>1, <3>2, <3>4 DEF LeftBy
      <4> QED BY <2>1, <3>3, <3>4, <4>1, <4>2
    <3>5. CASE t # k
      <4>1. Queued(queue, t, q + 1) = Queued(queue', t, q)
        BY <2>1, <3>1, <3>2, <3>5 DEF LeftBy
      <4> QED BY <2>1, <3>3, <3>5, <4>1
    <3> QED BY <3>4, <3>5
  <2> QED BY <2>1, <2>2 DEF Asked
<1> QED BY <1>2, <1>3, <1>4, <1>5, <1>6, <1>7 DEF Happens

-----------------------------------------------------------------------------
(* What is kept stays kept *)

LEMMA SafeGrows ==
    ASSUME NEW f \in Files, NEW g \in Files, f.synced <= Len(f.data), g.synced <= Len(g.data),
           IsPrefix(f.data, g.data), f.synced <= g.synced
    PROVE  IsPrefix(Safe(f), Safe(g)) /\ Safe(f) \in Seq(Nat) /\ Safe(g) \in Seq(Nat)
<1>1. /\ Safe(f) \in Seq(Nat) /\ Len(Safe(f)) = f.synced
      /\ \A i \in 1..f.synced : Safe(f)[i] = f.data[i]
  BY SafeIs
<1>2. /\ Safe(g) \in Seq(Nat) /\ Len(Safe(g)) = g.synced
      /\ \A i \in 1..g.synced : Safe(g)[i] = g.data[i]
  BY SafeIs
<1>3. /\ f.data \in Seq(Nat) /\ g.data \in Seq(Nat) /\ f.synced \in Nat /\ g.synced \in Nat
      /\ Len(f.data) \in Nat
  BY DEF Files
<1>4. \A i \in 1..Len(f.data) : f.data[i] = g.data[i]
  BY <1>3, PrefixIs
<1>5. ASSUME NEW i \in 1..f.synced
      PROVE  Safe(f)[i] = Safe(g)[i]
  <2>1. i \in 1..g.synced /\ i \in 1..Len(f.data)
    BY <1>3, SMTT(30)
  <2> QED BY <1>1, <1>2, <1>4, <2>1
<1> QED BY <1>1, <1>2, <1>3, <1>5, PrefixIs

\* A file that is synced as a whole
LEMMA SafeAll ==
    ASSUME NEW f \in Files, f.synced = Len(f.data)
    PROVE  Safe(f) = f.data
BY DEF Safe, Files

LEMMA EmptyPrefix ==
    ASSUME NEW s \in Seq(Nat)
    PROVE  /\ IsPrefix(<<>>, s)
           /\ \A r \in Seq(Nat) : IsPrefix(r, <<>>) => IsPrefix(r, s)
<1> DEFINE e == <<>>
<1>2. e \in Seq(Nat) /\ Len(e) = 0 /\ Len(s) \in Nat
  BY EmptySeq
<1> HIDE DEF e
<1>4. Len(e) <= Len(s) /\ \A i \in 1..Len(e) : e[i] = s[i]
  BY <1>2
<1>3. IsPrefix(e, s)
  BY <1>2, <1>4, PrefixIs
<1>1. <<>> \in Seq(Nat) /\ IsPrefix(<<>>, s)
  BY <1>2, <1>3 DEF e
<1> QED BY <1>1, PrefixTrans

\* What is found by the same names, in files that hold at least as much
LEMMA HeldGrows ==
    ASSUME NEW names, NEW pcm \in Seq(Nat), NEW out \in Seq(Nat),
           NEW pcm2 \in Seq(Nat), NEW out2 \in Seq(Nat),
           IsPrefix(pcm, pcm2), IsPrefix(out, out2),
           NEW audio \in Seq(Nat), IsPrefix(audio, Held(names, pcm, out))
    PROVE  IsPrefix(audio, Held(names, pcm2, out2))
BY PrefixTrans DEF Held

LEMMA KeepsIs ==
    ASSUME FilesTyped, NEW t \in Tracks, NEW audio
    PROVE  Keeps(t, audio) <=>
              /\ IsPrefix(audio, Held(disk[t], Safe(disk[t].pcm), Safe(disk[t].out)))
              /\ IsPrefix(audio, Held(durable[t], Safe(disk[t].pcm), Safe(disk[t].out)))
<1>1. Names(disk)[t].wav = disk[t].wav /\ Names(disk)[t].part = disk[t].part
  BY DEF Names
<1> QED BY <1>1 DEF Keeps, Held

LEMMA KeepsNext ==
    ASSUME FilesTyped', NEW t \in Tracks, NEW audio
    PROVE  Keeps(t, audio)' <=>
              /\ IsPrefix(audio, Held(disk'[t], Safe(disk'[t].pcm), Safe(disk'[t].out)))
              /\ IsPrefix(audio, Held(durable'[t], Safe(disk'[t].pcm), Safe(disk'[t].out)))
<1>1. Names(disk')[t].wav = disk'[t].wav /\ Names(disk')[t].part = disk'[t].part
  BY DEF Names
<1> QED BY <1>1 DEF Keeps, Held

\* The names of the track stay, or reach the medium, and its files only grow.
LEMMA KeepsGrown ==
    ASSUME Typed, Typed', NEW t \in Tracks, NEW audio \in Seq(Nat), Keeps(t, audio),
           disk'[t].part = disk[t].part, disk'[t].wav = "wav" <=> disk[t].wav = "wav",
           durable' = durable \/ durable' = Names(disk),
           IsPrefix(disk[t].pcm.data, disk'[t].pcm.data),
           disk[t].pcm.synced <= disk'[t].pcm.synced,
           disk'[t].out = disk[t].out \/ (disk[t].wav # "wav" /\ durable'[t].wav # "wav")
    PROVE  Keeps(t, audio)'
<1>1. /\ disk[t].pcm \in Files /\ disk[t].out \in Files
      /\ disk[t].pcm.synced <= Len(disk[t].pcm.data) /\ disk[t].out.synced <= Len(disk[t].out.data)
      /\ disk'[t].pcm \in Files /\ disk'[t].out \in Files
      /\ disk'[t].pcm.synced <= Len(disk'[t].pcm.data)
      /\ disk'[t].out.synced <= Len(disk'[t].out.data)
  BY DEF Typed, FilesTyped, Entries
<1> DEFINE p == Safe(disk[t].pcm)
           q == Safe(disk'[t].pcm)
           o == Safe(disk[t].out)
           r == Safe(disk'[t].out)
<1>2. IsPrefix(p, q) /\ p \in Seq(Nat) /\ q \in Seq(Nat)
  BY <1>1, SafeGrows
<1>3. o \in Seq(Nat) /\ r \in Seq(Nat)
  BY <1>1, SafeIs
<1>4. /\ IsPrefix(audio, Held(disk[t], p, o)) /\ IsPrefix(audio, Held(durable[t], p, o))
  BY KeepsIs DEF Typed
<1>5. Keeps(t, audio)' <=> /\ IsPrefix(audio, Held(disk'[t], q, r))
                           /\ IsPrefix(audio, Held(durable'[t], q, r))
  BY KeepsNext DEF Typed
<1>6. durable'[t] = durable[t]
      \/ (durable'[t].wav = disk[t].wav /\ durable'[t].part = disk[t].part)
  BY DEF Names
<1> HIDE DEF p, q, o, r
<1>7. IsPrefix(audio, Held(disk[t], q, o)) /\ IsPrefix(audio, Held(durable[t], q, o))
  BY <1>2, <1>3, <1>4, HeldGrows, PrefixRefl
<1>8. IsPrefix(audio, Held(disk'[t], q, o)) /\ IsPrefix(audio, Held(durable'[t], q, o))
  BY <1>6, <1>7 DEF Held
<1>9. CASE disk'[t].out = disk[t].out
  BY <1>5, <1>8, <1>9 DEF o, r
<1>10. CASE disk[t].wav # "wav" /\ durable'[t].wav # "wav"
  BY <1>5, <1>8, <1>10 DEF Held
<1> QED BY <1>9, <1>10

LEMMA KeepsStays ==
    ASSUME Typed, Typed', Protocol, Planned, Filed, Happens,
           NEW t \in Tracks, NEW audio \in Seq(Nat), Keeps(t, audio)
    PROVE  Keeps(t, audio)'
<1>0. /\ disk[t].pcm \in Files /\ disk[t].out \in Files
      /\ disk[t].pcm.synced <= Len(disk[t].pcm.data) /\ disk[t].out.synced <= Len(disk[t].out.data)
      /\ disk[t].pcm.data \in Seq(Nat) /\ disk[t].pcm.synced \in Nat
      /\ Len(disk[t].pcm.data) \in Nat
      /\ disk[t].part \in BOOLEAN /\ disk[t].wav \in WavStates
  BY SMTT(30) DEF Typed, FilesTyped, Entries, Files
<1>n. /\ disk'[t].pcm \in Files /\ disk'[t].out \in Files
      /\ disk'[t].pcm.synced <= Len(disk'[t].pcm.data)
      /\ disk'[t].out.synced <= Len(disk'[t].out.data)
      /\ disk'[t].pcm.data \in Seq(Nat) /\ disk'[t].out.data \in Seq(Nat)
  BY DEF Typed, FilesTyped, Entries, Files
<1>a. FiledAt(t)
  BY DEF Filed
<1>b. /\ IsPrefix(audio, Held(disk[t], Safe(disk[t].pcm), Safe(disk[t].out)))
      /\ IsPrefix(audio, Held(durable[t], Safe(disk[t].pcm), Safe(disk[t].out)))
  BY KeepsIs DEF Typed
<1>c. Keeps(t, audio)' <=>
         /\ IsPrefix(audio, Held(disk'[t], Safe(disk'[t].pcm), Safe(disk'[t].out)))
         /\ IsPrefix(audio, Held(durable'[t], Safe(disk'[t].pcm), Safe(disk'[t].out)))
  BY KeepsNext DEF Typed
<1>d. IsPrefix(disk[t].pcm.data, disk[t].pcm.data) /\ disk[t].pcm.synced <= disk[t].pcm.synced
  BY <1>0, PrefixRefl
<1>e. ASSUME disk'[t] = disk[t], durable' = durable \/ durable' = Names(disk)
      PROVE  Keeps(t, audio)'
  BY <1>d, <1>e, KeepsGrown
<1>f. ASSUME Grown(t), durable' = durable
      PROVE  Keeps(t, audio)'
  BY <1>d, <1>f, KeepsGrown DEF Grown
<1>1. CASE Quiet /\ (durable' = durable \/ durable' = Names(disk))
  BY <1>1, <1>e DEF Quiet
<1>2. CASE \/ DidStart \/ DidStarted \/ (\E k \in Tracks : DidAppend(k))
           \/ (\E kind \in CallKinds : DidAsk(kind) \/ DidReceive(kind))
           \/ DidSend \/ DidSettle \/ DidRecover \/ DidEnd
           \/ (DidRespond /\ writer.call = "checkpoint")
           \/ \E k \in Tracks : DidExamine(k) \/ DidRefuse(k)
  BY <1>1, <1>2 DEF DidStart, DidStarted, DidAppend, DidAsk, DidReceive, DidSend, DidSettle,
     DidRecover, DidEnd, DidRespond, DidExamine, DidRefuse, Quiet
<1>3. CASE DidGiveUp \/ DidFail \/ (DidRespond /\ writer.call # "checkpoint")
           \/ \E k \in Tracks : DidWrite(k)
  BY <1>3, <1>f DEF DidGiveUp, DidFail, DidRespond, DidWrite, Left
<1>4. ASSUME NEW k \in Tracks, k # t,
             \/ DidOpen(k) \/ DidFlush(k) \/ DidSync(k) \/ DidCopy(k) \/ DidSyncCopy(k)
             \/ DidRename(k) \/ DidRemove(k)
      PROVE  Keeps(t, audio)'
  <2>1. disk'[t] = disk[t] /\ (durable' = durable \/ durable' = Names(disk))
    BY <1>4 DEF DidOpen, DidFlush, DidSync, DidCopy, DidSyncCopy, DidRename, DidRemove, Others
  <2> QED BY <1>e, <2>1
<1>5. CASE DidFlush(t)
  BY <1>5, <1>f DEF DidFlush
<1>6. CASE DidSync(t)
  <2>1. disk[t].pcm.synced <= disk'[t].pcm.synced
    BY <1>0, <1>6 DEF DidSync
  <2> QED BY <1>6, <1>d, <2>1, KeepsGrown DEF DidSync
<1>7. CASE DidOpen(t)
  <2>1. control.pc = "opening"
    BY <1>7, RankIs, PlaceIs DEF DidOpen, Acted
  <2>2. disk[t].wav # "wav" /\ durable[t].wav # "wav"
    BY <1>a, <2>1 DEF FiledAt, Published
  <2>3. Safe(disk[t].pcm) \in Seq(Nat)
    BY <1>0, SafeIs
  <2>4. IsPrefix(audio, Safe(disk[t].pcm))
    BY <1>0, <1>b, <2>2, <2>3, EmptyPrefix DEF Held
  <2> QED BY <1>7, <1>b, <1>c, <2>2, <2>4 DEF DidOpen, Held
<1>8. CASE DidCopy(t)
  <2>1. disk[t].wav # "wav" /\ durable[t].wav # "wav"
    BY <1>8, <1>a DEF DidCopy, Acted, FiledAt, Published
  <2> QED BY <1>8, <1>d, <2>1, KeepsGrown DEF DidCopy
<1>9. CASE DidSyncCopy(t)
  <2>1. "syncCopy" \in Todo(t) /\ "copy" \notin Todo(t)
    <3>1. Acted("syncCopy", t) /\ "syncCopy" \in FileOps
      BY <1>9, RankIs DEF DidSyncCopy
    <3> QED BY <3>1, AfterOp, RankIs
  <2>2. disk[t].wav = "tmp"
    BY <1>a, <2>1 DEF FiledAt, Copied
  <2>3. durable'[t].wav = disk[t].wav
    BY <1>9 DEF DidSyncCopy, Names
  <2> QED BY <1>9, <1>d, <2>2, <2>3, KeepsGrown DEF DidSyncCopy
<1>10. CASE DidRename(t)
  <2>1. "rename" \in Todo(t) /\ "syncCopy" \notin Todo(t)
    <3>1. Acted("rename", t) /\ "rename" \in FileOps
      BY <1>10, RankIs DEF DidRename
    <3> QED BY <3>1, AfterOp, RankIs, SMTT(30)
  <2>2. /\ disk[t].wav = "tmp" /\ disk[t].out.data = disk[t].pcm.data
        /\ disk[t].out.synced = Len(disk[t].out.data)
    BY <1>a, <2>1 DEF FiledAt, Copied
  <2>3. durable[t].wav # "wav"
    BY <1>a, <2>2 DEF FiledAt, Published
  <2>4. /\ Safe(disk[t].pcm) \in Seq(Nat) /\ IsPrefix(Safe(disk[t].pcm), disk[t].pcm.data)
    BY <1>0, SafeIs
  <2>5. Safe(disk[t].out) = disk[t].pcm.data
    BY <1>0, <2>2, SafeAll
  <2>6. IsPrefix(audio, Safe(disk[t].pcm))
    BY <1>b, <2>2, <2>4, EmptyPrefix DEF Held
  <2>7. IsPrefix(audio, disk[t].pcm.data)
    BY <1>0, <2>4, <2>6, PrefixTrans
  <2> QED BY <1>10, <1>b, <1>c, <2>3, <2>5, <2>7 DEF DidRename, Held
<1>11. CASE DidRemove(t)
  <2>1. "remove" \in Todo(t) /\ "rename" \notin Todo(t)
    <3>1. Acted("remove", t) /\ "remove" \in FileOps
      BY <1>11, RankIs DEF DidRemove
    <3> QED BY <3>1, AfterOp, RankIs, SMTT(30)
  <2>2. disk[t].wav = "wav"
    BY <1>a, <2>1 DEF FiledAt, Published
  <2> QED BY <1>11, <1>b, <1>c, <2>2 DEF DidRemove, Held
<1>12. CASE DidCrash /\ disk' # disk
  <2>1. /\ disk'[t].part = durable[t].part /\ disk'[t].wav = durable[t].wav
        /\ IsPrefix(Safe(disk[t].pcm), disk'[t].pcm.data)
        /\ disk'[t].pcm.synced = Len(disk'[t].pcm.data)
        /\ IsPrefix(Safe(disk[t].out), disk'[t].out.data)
        /\ disk'[t].out.synced = Len(disk'[t].out.data)
        /\ durable' = durable
    BY <1>12 DEF DidCrash
  <2>2. Safe(disk'[t].pcm) = disk'[t].pcm.data /\ Safe(disk'[t].out) = disk'[t].out.data
    BY <1>n, <2>1, SafeAll
  <2>3. Safe(disk[t].pcm) \in Seq(Nat) /\ Safe(disk[t].out) \in Seq(Nat)
    BY <1>0, SafeIs
  <2>4. IsPrefix(audio, Held(durable[t], disk'[t].pcm.data, disk'[t].out.data))
    BY <1>b, <1>n, <2>1, <2>3, HeldGrows
  <2>5. IsPrefix(audio, Held(disk'[t], disk'[t].pcm.data, disk'[t].out.data))
    BY <2>1, <2>4 DEF Held
  <2> QED BY <1>c, <2>1, <2>2, <2>4, <2>5
<1>13. CASE DidCrash /\ disk' = disk
  BY <1>13, <1>e DEF DidCrash
<1> QED
  BY <1>2, <1>3, <1>4, <1>5, <1>6, <1>7, <1>8, <1>9, <1>10, <1>11, <1>12, <1>13 DEF Happens

\* All that was asked for is written, when nothing before the call remains.
LEMMA AskedIsWritten ==
    ASSUME NEW w \in Seq(Nat), NEW s \in Seq(Nat), NEW a \in Seq(Nat),
           IsPrefix(w, s), IsPrefix(a, s), After(w, a) = {}
    PROVE  IsPrefix(a, w)
<1>1. /\ Len(w) \in Nat /\ Len(a) \in Nat /\ Len(s) \in Nat
      /\ Len(w) <= Len(s) /\ \A i \in 1..Len(w) : w[i] = s[i]
      /\ Len(a) <= Len(s) /\ \A i \in 1..Len(a) : a[i] = s[i]
  BY PrefixIs
<1>2. Len(a) <= Len(w)
  <2>1. ASSUME Len(w) < Len(a)
        PROVE  FALSE
    <3>1. Len(a) \in (Len(w) + 1)..Len(a)
      BY <1>1, <2>1
    <3> QED BY <3>1 DEF After
  <2> QED BY <1>1, <2>1
<1>3. \A i \in 1..Len(a) : a[i] = w[i]
  BY <1>1, <1>2
<1> QED BY <1>2, <1>3, PrefixIs

\* What the call that is served has asked for
Served(t) ==
    writer.pc = "serving" /\ writer.ok =>
        /\ IsPrefix(past.asked[t], Written(t))
        /\ "sync" \notin Todo(t) => Keeps(t, past.asked[t])

LEMMA ServedStays ==
    ASSUME Typed, Typed', Protocol, Protocol', Planned, Filed, Chain, Asked, Happens,
           NEW t \in Tracks, Served(t)
    PROVE  Served(t)'
<1>0. past.asked[t] \in Seq(Nat) /\ past.accepted[t] \in Seq(Nat) /\ Written(t) \in Seq(Nat)
      /\ queue \in Seq(Commands)
  BY HistoryIs, WrittenIs DEF Typed
<1>1. CASE writer'.pc # "serving" \/ ~writer'.ok
  BY <1>1 DEF Served
<1>2. ASSUME writer' = writer, past'.asked[t] = past.asked[t], Written(t)' = Written(t),
             "sync" \notin Todo(t)' => "sync" \notin Todo(t)
      PROVE  Served(t)'
  <2>1. Keeps(t, past.asked[t]) => Keeps(t, past.asked[t])'
    <3> DEFINE a == past.asked[t]
               b == past'.asked[t]
    <3>1. PICK audio \in Seq(Nat) : audio = a /\ audio = b
      BY <1>0, <1>2
    <3> HIDE DEF a, b
    <3>2. Keeps(t, audio) => Keeps(t, audio)'
      BY KeepsStays
    <3>3. (Keeps(t, a) <=> Keeps(t, audio)) /\ (Keeps(t, audio)' <=> Keeps(t, a)')
      BY <3>1 DEF Keeps, a, b
    <3> QED BY <3>2, <3>3 DEF a, b
  <2> QED BY <1>2, <2>1 DEF Served
<1>3. CASE \/ DidStart \/ DidStarted \/ DidFail \/ DidGiveUp \/ DidRespond \/ DidCrash
           \/ (\E kind \in CallKinds : DidAsk(kind)) \/ DidSend \/ DidRecover \/ DidEnd
           \/ \E k \in Tracks : DidWrite(k) \/ DidRefuse(k)
  <2>1. writer'.pc # "serving" \/ ~writer'.ok
    BY <1>3 DEF DidStart, DidStarted, DidFail, DidGiveUp, DidRespond, DidCrash, DidAsk, DidSend,
       DidRecover, DidEnd, DidWrite, DidRefuse, Left, NoWriter, Protocol
  <2> QED BY <1>1, <2>1
<1>4. CASE (\E k \in Tracks : DidAppend(k)) \/ DidSettle
  <2>1. Written(t)' = Written(t)
    BY <1>4, WrittenStays DEF DidAppend, DidSettle
  <2>2. Todo(t)' = Todo(t)
    BY <1>4, SameWork DEF DidAppend, DidSettle, Planned
  <2> QED BY <1>2, <1>4, <2>1, <2>2 DEF DidAppend, DidSettle
<1>5. ASSUME NEW k \in Tracks,
             \/ DidOpen(k) \/ DidFlush(k) \/ DidExamine(k) \/ DidCopy(k) \/ DidSyncCopy(k)
             \/ DidRename(k) \/ DidRemove(k) \/ (DidSync(k) /\ k # t)
      PROVE  Served(t)'
  <2>1. Written(t)' = Written(t)
    BY <1>5, WrittenStays
  <2>2. "sync" \notin Todo(t)' => "sync" \notin Todo(t)
    BY <1>5 DEF DidOpen, DidFlush, DidExamine, DidCopy, DidSyncCopy, DidRename, DidRemove,
       DidSync, Acted
  <2>3. writer' = writer /\ past' = past
    BY <1>5 DEF DidOpen, DidFlush, DidExamine, DidCopy, DidSyncCopy, DidRename, DidRemove,
       DidSync, Acted
  <2> QED BY <1>2, <2>1, <2>2, <2>3
<1>6. CASE DidSync(t)
  <2>1. Acted("sync", t) /\ "sync" \in FileOps /\ "sync" \in Todo(t)
    BY <1>6, RankIs DEF DidSync, Acted
  <2>2. /\ writer.pc = "serving" /\ writer.ok
        /\ Todo(t) \subseteq {"flush", "sync", "examine"}
    BY <2>1, PlaceIs
  <2>3. "flush" \notin Todo(t)
    BY <2>1, AfterOp, RankIs
  <2>4. Recording(t) /\ FiledAt(t)
    BY <2>1, <2>2 DEF Recording, Filed
  <2>5. /\ disk[t].part /\ disk[t].wav # "wav" /\ buffer[t] = <<>>
    BY <2>2, <2>3, <2>4 DEF FiledAt, Published
  <2>6. /\ disk'[t].part /\ disk'[t].wav # "wav" /\ durable'[t].wav # "wav" /\ durable'[t].part
        /\ disk'[t].pcm.data = disk[t].pcm.data
        /\ disk'[t].pcm.synced = Len(disk'[t].pcm.data)
        /\ past' = past
    BY <1>6, <2>1, <2>5 DEF DidSync, Names, Acted
  <2>7. disk'[t].pcm \in Files
    BY DEF Typed, FilesTyped, Entries
  <2>8. Safe(disk'[t].pcm) = disk[t].pcm.data
    BY <2>6, <2>7, SafeAll
  <2>9. Written(t) = disk[t].pcm.data /\ Written(t)' = Written(t)
    BY <1>6, <2>5, WrittenIs, WrittenStays DEF Typed
  <2>10. IsPrefix(past.asked[t], disk[t].pcm.data)
    BY <2>2, <2>9 DEF Served
  <2>11. Keeps(t, past.asked[t])'
    <3>1. PICK audio \in Seq(Nat) : audio = past'.asked[t]
      BY <1>0, <2>6
    <3>2. IsPrefix(audio, Safe(disk'[t].pcm))
      BY <2>6, <2>8, <2>10, <3>1
    <3>3. Keeps(t, audio)'
      BY <2>6, <3>2, KeepsNext DEF Typed, Held
    <3> QED BY <3>1, <3>3 DEF Keeps
  <2> QED BY <2>6, <2>9, <2>10, <2>11 DEF Served
<1>7. ASSUME NEW kind \in CallKinds, DidReceive(kind)
      PROVE  Served(t)'
  <2>1. /\ queue # <<>> /\ Head(queue).kind = kind /\ writer.pc = "loop" /\ past' = past
        /\ disk' = disk /\ buffer' = buffer /\ "sync" \in Todo(t)'
    BY <1>7 DEF DidReceive, Quiet
  <2>2. 1 \in DOMAIN queue /\ queue[1].kind = kind
    BY <1>0, <2>1
  <2>3. control.pc = "waiting"
    BY <2>2 DEF Protocol
  <2>4. Queued(queue, t, 1) = {}
    BY <2>2 DEF Queued, CallKinds, Tracks, MicTrack, SystemTrack
  <2>5. After(Written(t), past.asked[t]) = {} /\ IsPrefix(past.asked[t], past.accepted[t])
    BY <2>2, <2>3, <2>4 DEF Asked
  <2>6. IsPrefix(Written(t), past.accepted[t])
    BY <2>1 DEF Chain, ChainAt
  <2>7. IsPrefix(past.asked[t], Written(t))
    BY <1>0, <2>5, <2>6, AskedIsWritten
  <2>8. Written(t)' = Written(t)
    BY <2>1 DEF Written
  <2> QED BY <2>1, <2>7, <2>8 DEF Served
<1> QED BY <1>3, <1>4, <1>5, <1>6, <1>7 DEF Happens

LEMMA KeptAudioStays ==
    ASSUME Typed, Typed', Protocol, Protocol', Planned, Filed, Chain, Asked, KeptAudio, Happens
    PROVE  KeptAudio'
<1>1. ASSUME NEW t \in Tracks
      PROVE  Served(t)'
  <2>1. Served(t)
    BY DEF KeptAudio, Served
  <2> QED BY <2>1, ServedStays
<1>2. ASSUME NEW t \in Tracks
      PROVE  Keeps(t, past.reported[t])'
  <2> DEFINE a == past.reported[t]
             b == past'.reported[t]
             c == past.asked[t]
  <2>1. a \in Seq(Nat) /\ c \in Seq(Nat)
    BY HistoryIs
  <2>2. b = a \/ (b = c /\ Keeps(t, c))
    <3>1. CASE DidRespond
      <4>1. Todo(t) = {}
        BY <3>1, NoWork DEF DidRespond
      <4> QED BY <3>1, <4>1 DEF DidRespond, KeptAudio
    <3>2. CASE ~DidRespond
      BY <3>2, ZenonT(60) DEF Happens, DidStart, DidStarted, DidAppend, DidAsk, DidReceive, DidSend, DidGiveUp,
         DidFail, DidSettle, DidCrash, DidRecover, DidEnd, DidWrite, DidOpen, DidFlush, DidSync,
         DidExamine, DidRefuse, DidCopy, DidSyncCopy, DidRename, DidRemove, Acted, SameHistory,
         Typed, Histories
    <3> QED BY <3>1, <3>2
  <2>3. Keeps(t, a)
    BY DEF KeptAudio
  <2> HIDE DEF a, b, c
  <2>4. PICK audio \in Seq(Nat) : audio = b /\ Keeps(t, audio)
    BY <2>1, <2>2, <2>3
  <2>5. Keeps(t, audio)'
    BY <2>4, KeepsStays
  <2> QED BY <2>4, <2>5 DEF Keeps, b
<1> QED BY <1>1, <1>2 DEF KeptAudio, Served

-----------------------------------------------------------------------------
(* What is finalized, and what is recovered *)

\* The last operation on a track
LEMMA LastOp ==
    ASSUME Typed, Protocol, Planned, NEW k \in Tracks, NEW op \in FileOps \ {"examine"},
           Acted(op, k), Todo(k)' = {}
    PROVE  \/ op = "open" /\ control.pc = "opening"
           \/ op = "sync" /\ writer.pc = "serving" /\ writer.call # "finalize"
           \/ op = "remove" /\ "rename" \notin Todo(k)
<1>1. Todo(k) = {op}
  BY AfterOp
<1>2. op \notin {"flush", "copy", "syncCopy", "rename"}
  BY <1>1 DEF Planned
<1>3. op = "sync" => writer.call # "finalize"
  BY <1>1 DEF Planned
<1>4. op \in {"open", "sync", "remove"}
  BY <1>2 DEF FileOps
<1>6. op = "open" => control.pc = "opening"
  BY <1>1, PlaceIs
<1>7. op = "sync" => writer.pc = "serving"
  BY <1>1, PlaceIs
<1> QED BY <1>1, <1>3, <1>4, <1>6, <1>7

\* The operations that end with the track as it was found
LEMMA OpDone ==
    ASSUME Typed, Protocol, Planned, NEW k \in Tracks, Todo(k)' = {},
           \/ DidOpen(k) \/ DidFlush(k) \/ DidSync(k) \/ DidCopy(k) \/ DidSyncCopy(k)
           \/ DidRename(k) \/ DidRemove(k)
    PROVE  \/ control.pc = "opening"
           \/ writer.pc = "serving" /\ writer.call # "finalize"
           \/ DidRemove(k) /\ "remove" \in Todo(k) /\ "rename" \notin Todo(k)
<1>1. {"open", "flush", "sync", "copy", "syncCopy", "rename", "remove"} \subseteq FileOps \ {"examine"}
  BY RankIs
<1>2. \/ Acted("open", k) \/ Acted("flush", k) \/ Acted("sync", k) \/ Acted("copy", k)
      \/ Acted("syncCopy", k) \/ Acted("rename", k) \/ (Acted("remove", k) /\ DidRemove(k))
  BY DEF DidOpen, DidFlush, DidSync, DidCopy, DidSyncCopy, DidRename, DidRemove
<1>3. CASE Acted("remove", k) /\ DidRemove(k)
  BY <1>1, <1>3, LastOp DEF Acted
<1>4. CASE \/ Acted("open", k) \/ Acted("flush", k) \/ Acted("sync", k) \/ Acted("copy", k)
           \/ Acted("syncCopy", k) \/ Acted("rename", k)
  BY <1>1, <1>4, LastOp
<1> QED BY <1>2, <1>3, <1>4

\* Everything that was accepted is written when a finalize has examined its files.
LEMMA AllWritten ==
    ASSUME Typed, Protocol, Chain, Asked, Filed, NEW t \in Tracks, Served(t),
           writer.pc = "serving", writer.ok, writer.call = "finalize", Published(t)
    PROVE  disk[t].pcm.data = past.accepted[t]
<1>1. /\ past.asked[t] \in Seq(Nat) /\ past.accepted[t] \in Seq(Nat) /\ Written(t) \in Seq(Nat)
      /\ buffer[t] = <<>> => Written(t) = disk[t].pcm.data
  BY HistoryIs, WrittenIs DEF Typed
<1>2. control.pc = "waiting" /\ control.call = "finalize"
  BY DEF Protocol
<1>3. past.asked = past.accepted
  BY <1>2 DEF Asked
<1>4. IsPrefix(past.accepted[t], Written(t))
  BY <1>3 DEF Served
<1>5. IsPrefix(Written(t), past.accepted[t])
  BY DEF Chain, ChainAt
<1>6. Written(t) = past.accepted[t]
  BY <1>1, <1>4, <1>5, PrefixSame
<1>7. buffer[t] = <<>>
  BY DEF Filed, FiledAt
<1> QED BY <1>1, <1>6, <1>7

FinalizedNow ==
    writer.pc = "serving" /\ writer.ok /\ writer.call = "finalize" =>
        \A t \in Tracks : Todo(t) = {} => Whole(t)

FinalizedThen ==
    past.finalized =>
        /\ control.pc \in {"idle", "down", "recovering", "recovered"}
        /\ \A t \in Tracks : Whole(t)

LEMMA FinalizedNowStays ==
    ASSUME Typed, Typed', Protocol, Protocol', Planned, Filed, Chain, Asked, KeptAudio,
           FinalizedNow, Happens
    PROVE  FinalizedNow'
<1>1. CASE \/ DidStart \/ DidStarted \/ DidFail \/ DidGiveUp \/ DidRespond \/ DidCrash
           \/ (\E kind \in CallKinds : DidAsk(kind)) \/ DidSend \/ DidRecover \/ DidEnd
           \/ \E k \in Tracks : DidWrite(k) \/ DidRefuse(k)
  <2>1. writer'.pc # "serving" \/ ~writer'.ok
    BY <1>1 DEF DidStart, DidStarted, DidFail, DidGiveUp, DidRespond, DidCrash, DidAsk, DidSend,
       DidRecover, DidEnd, DidWrite, DidRefuse, Left, NoWriter, Protocol
  <2> QED BY <2>1 DEF FinalizedNow
<1>2. CASE \E kind \in CallKinds : DidReceive(kind)
  <2>1. \A t \in Tracks : Todo(t)' # {}
    BY <1>2 DEF DidReceive
  <2> QED BY <2>1 DEF FinalizedNow
<1>3. CASE \E k \in Tracks : DidAppend(k)
  <2>1. writer' = writer /\ (control.pc = "live" \/ control.call = "checkpoint")
    BY <1>3 DEF DidAppend
  <2>2. ~(writer.pc = "serving" /\ writer.call = "finalize")
    BY <2>1 DEF Protocol
  <2> QED BY <2>1, <2>2 DEF FinalizedNow
<1>4. CASE DidSettle
  <2>1. \A t \in Tracks : Todo(t)' = Todo(t)
    BY <1>4, SameWork DEF DidSettle, Planned
  <2> QED BY <1>4, <2>1 DEF DidSettle, Quiet, FinalizedNow, Whole, Published
<1>5. ASSUME NEW k \in Tracks, Others(k), \A t \in Tracks \ {k} : Todo(t)' = Todo(t),
             writer' = writer, past' = past,
             writer.pc = "serving" /\ writer.ok /\ writer.call = "finalize" /\ Todo(k)' = {} => Whole(k)'
      PROVE  FinalizedNow'
  <2>1. ASSUME NEW t \in Tracks \ {k}, Whole(t)
        PROVE  Whole(t)'
    BY <1>5, <2>1 DEF Others, Whole, Published
  <2> QED BY <1>5, <2>1 DEF FinalizedNow
<1>6. ASSUME NEW k \in Tracks,
             \/ DidOpen(k) \/ DidFlush(k) \/ DidSync(k) \/ DidCopy(k) \/ DidSyncCopy(k)
             \/ DidRename(k) \/ DidRemove(k)
      PROVE  FinalizedNow'
  <2>1. /\ Others(k) /\ \A t \in Tracks \ {k} : Todo(t)' = Todo(t)
        /\ writer' = writer /\ past' = past
    BY <1>6 DEF DidOpen, DidFlush, DidSync, DidCopy, DidSyncCopy, DidRename, DidRemove, Acted
  <2>2. ASSUME writer.pc = "serving", writer.ok, writer.call = "finalize", Todo(k)' = {}
        PROVE  Whole(k)'
    <3>1. control.pc = "waiting"
      BY <2>2 DEF Protocol
    <3>2. DidRemove(k) /\ "remove" \in Todo(k) /\ "rename" \notin Todo(k)
      BY <1>6, <2>2, <3>1, OpDone
    <3>3. Published(k) /\ disk[k].out.data = disk[k].pcm.data
      BY <2>2, <3>2 DEF Filed, FiledAt
    <3>4. disk[k].pcm.data = past.accepted[k]
      BY <2>2, <3>3, AllWritten DEF KeptAudio, Served
    <3> QED BY <2>1, <3>2, <3>3, <3>4 DEF DidRemove, Whole, Published
  <2> QED BY <1>5, <2>1, <2>2
<1>7. ASSUME NEW k \in Tracks, DidExamine(k)
      PROVE  FinalizedNow'
  <2>1. /\ Others(k) /\ \A t \in Tracks \ {k} : Todo(t)' = Todo(t)
        /\ writer' = writer /\ past' = past /\ Todo(k)' # {}
    BY <1>7 DEF DidExamine, Others
  <2> QED BY <1>5, <2>1
<1> QED BY <1>1, <1>2, <1>3, <1>4, <1>6, <1>7 DEF Happens

LEMMA FinalizedThenStays ==
    ASSUME Typed, Typed', Protocol, Planned, Filed, FinalizedNow, FinalizedThen, Happens
    PROVE  FinalizedThen'
<1>1. ASSUME past.finalized, past'.finalized = past.finalized,
             past'.accepted = past.accepted,
             \A t \in Tracks : /\ disk'[t].wav = disk[t].wav /\ disk'[t].part = disk[t].part
                               /\ disk'[t].out = disk[t].out,
             control'.pc \in {control.pc, "down", "recovering", "recovered"}
      PROVE  FinalizedThen'
  BY <1>1 DEF FinalizedThen, Whole, Published
<1>2. CASE past.finalized
  <2>1. /\ control.pc \in {"idle", "down", "recovering", "recovered"}
        /\ \A t \in Tracks : Published(t) /\ ~disk[t].part
    BY <1>2 DEF FinalizedThen, Whole
  <2>2. writer.pc = "none"
    BY <2>1 DEF Protocol
  <2>3. \A t \in Tracks : Todo(t) = {}
    <3>1. CASE work = <<>>
      BY <3>1, NoWork
    <3>2. CASE work # <<>>
      <4>1. control.pc = "recovering"
        BY <2>1, <2>2, <3>2 DEF Protocol
      <4> QED BY <2>1, <4>1 DEF Filed, FiledAt
    <3> QED BY <3>1, <3>2
  <2>4. /\ ~DidStart /\ ~DidStarted /\ ~DidSend /\ ~DidGiveUp /\ ~DidRespond
        /\ \A k \in Tracks : ~DidAppend(k) /\ ~DidWrite(k)
        /\ \A kind \in CallKinds : ~DidAsk(kind) /\ ~DidReceive(kind)
    BY <2>1, <2>2 DEF DidStart, DidStarted, DidSend, DidGiveUp, DidRespond, DidAppend, DidWrite,
       DidAsk, DidReceive, Tracks
  <2>5. \A k \in Tracks :
           /\ ~DidOpen(k) /\ ~DidFlush(k) /\ ~DidSync(k) /\ ~DidExamine(k) /\ ~DidRefuse(k)
           /\ ~DidCopy(k) /\ ~DidSyncCopy(k) /\ ~DidRename(k) /\ ~DidRemove(k)
    BY <2>3 DEF DidOpen, DidFlush, DidSync, DidExamine, DidRefuse, DidCopy, DidSyncCopy,
       DidRename, DidRemove, Acted
  <2>6. CASE DidFail
    <3>1. past'.finalized = past.finalized /\ past'.accepted = past.accepted /\ control' = control
      BY <2>6 DEF DidFail, Typed, Histories
    <3> QED BY <1>1, <1>2, <2>6, <3>1 DEF DidFail, Grown
  <2>7. CASE DidSettle \/ DidRecover \/ DidEnd
    BY <1>1, <1>2, <2>7 DEF DidSettle, DidRecover, DidEnd, Quiet
  <2>8. CASE DidCrash
    BY <1>1, <1>2, <2>8 DEF DidCrash, FinalizedThen
  <2> QED BY <2>4, <2>5, <2>6, <2>7, <2>8 DEF Happens
<1>3. CASE ~past.finalized
  <2>1. CASE DidRespond
    <3>1. CASE past'.finalized
      <4>1. writer.pc = "serving" /\ writer.ok /\ writer.call = "finalize" /\ Left
            /\ past'.accepted = past.accepted
        BY <1>3, <2>1, <3>1 DEF DidRespond
      <4>2. \A t \in Tracks : Whole(t)
        BY <2>1, <4>1, NoWork DEF DidRespond, FinalizedNow
      <4>3. \A t \in Tracks : Whole(t)'
        BY <4>1, <4>2 DEF Left, Grown, Whole, Published
      <4>4. control.call = "finalize"
        BY <4>1 DEF Protocol
      <4>5. control'.pc = "idle"
        BY <2>1, <4>4 DEF DidRespond, Returned
      <4> QED BY <4>3, <4>5 DEF FinalizedThen
    <3> QED BY <3>1 DEF FinalizedThen
  <2>2. CASE ~DidRespond
    <3>1. ~past'.finalized
      BY <1>3, <2>2 DEF Happens, DidStart, DidStarted, DidAppend, DidAsk, DidReceive, DidSend, DidGiveUp,
         DidFail, DidSettle, DidCrash, DidRecover, DidEnd, DidWrite, DidOpen, DidFlush, DidSync,
         DidExamine, DidRefuse, DidCopy, DidSyncCopy, DidRename, DidRemove, Acted, SameHistory,
         Typed, Histories
    <3> QED BY <3>1 DEF FinalizedThen
  <2> QED BY <2>1, <2>2
<1> QED BY <1>2, <1>3

\* A part file with its WAV beside it holds the same audio.
Beside == \A t \in Tracks : Published(t) /\ disk[t].part => disk[t].out.data = disk[t].pcm.data

\* What the recovery has left to do
Leaves(t) ==
    /\ control.pc = "recovering" /\ disk[t].part => Todo(t) # {}
    /\ control.pc = "recovered" => ~disk[t].part

LEMMA BesideStays ==
    ASSUME Typed, Typed', Protocol, Planned, Filed, Beside, Happens, ~past'.powerLost
    PROVE  Beside'
<1>1. ASSUME NEW t \in Tracks,
             \/ disk'[t].wav # "wav" \/ ~disk'[t].part
             \/ disk'[t].out.data = disk'[t].pcm.data
             \/ /\ disk'[t].wav = disk[t].wav /\ disk'[t].part = disk[t].part
                /\ disk'[t].out.data = disk[t].out.data /\ disk'[t].pcm.data = disk[t].pcm.data
      PROVE  (Published(t) /\ disk[t].part => disk[t].out.data = disk[t].pcm.data)'
  BY <1>1 DEF Beside, Published
<1>2. CASE disk' = disk
  BY <1>2 DEF Beside, Published
<1>3. CASE \/ DidStart \/ DidStarted \/ (\E k \in Tracks : DidAppend(k))
           \/ (\E kind \in CallKinds : DidAsk(kind) \/ DidReceive(kind))
           \/ DidSend \/ DidSettle \/ DidCrash \/ DidRecover \/ DidEnd
           \/ (DidRespond /\ writer.call = "checkpoint")
           \/ \E k \in Tracks : DidExamine(k) \/ DidRefuse(k)
  BY <1>2, <1>3 DEF DidStart, DidStarted, DidAppend, DidAsk, DidReceive, DidSend, DidSettle,
     DidCrash, DidRecover, DidEnd, DidRespond, DidExamine, DidRefuse, Quiet
<1>4. ASSUME NEW t \in Tracks,
             DidGiveUp \/ DidFail \/ (DidRespond /\ writer.call # "checkpoint")
      PROVE  (Published(t) /\ disk[t].part => disk[t].out.data = disk[t].pcm.data)'
  <2>1. Grown(t) /\ (buffer[t] = <<>> => disk'[t] = disk[t])
    BY <1>4 DEF DidGiveUp, DidFail, DidRespond, Left
  <2>2. Published(t) => buffer[t] = <<>>
    BY DEF Filed, FiledAt
  <2> QED BY <1>1, <2>1, <2>2 DEF Grown, Published
<1>5. ASSUME NEW t \in Tracks, NEW k \in Tracks, DidWrite(k)
      PROVE  (Published(t) /\ disk[t].part => disk[t].out.data = disk[t].pcm.data)'
  <2>1. Grown(t) /\ Recording(t)
    BY <1>5 DEF DidWrite, Recording
  <2>2. ~Published(t)
    BY <2>1 DEF Filed, FiledAt
  <2> QED BY <1>1, <2>1, <2>2 DEF Grown, Published
<1>6. ASSUME NEW t \in Tracks, NEW k \in Tracks, k # t,
             \/ DidOpen(k) \/ DidFlush(k) \/ DidSync(k) \/ DidCopy(k) \/ DidSyncCopy(k)
             \/ DidRename(k) \/ DidRemove(k)
      PROVE  (Published(t) /\ disk[t].part => disk[t].out.data = disk[t].pcm.data)'
  <2>1. disk'[t] = disk[t]
    BY <1>6 DEF DidOpen, DidFlush, DidSync, DidCopy, DidSyncCopy, DidRename, DidRemove, Others
  <2> QED BY <1>1, <2>1
<1>7. ASSUME NEW t \in Tracks, DidOpen(t)
      PROVE  (Published(t) /\ disk[t].part => disk[t].out.data = disk[t].pcm.data)'
  <2>1. control.pc = "opening"
    BY <1>7, PlaceIs DEF DidOpen, Acted
  <2>2. ~Published(t)
    BY <2>1 DEF Filed, FiledAt
  <2> QED BY <1>1, <1>7, <2>2 DEF DidOpen, Published
<1>8. ASSUME NEW t \in Tracks, DidFlush(t)
      PROVE  (Published(t) /\ disk[t].part => disk[t].out.data = disk[t].pcm.data)'
  <2>1. "flush" \in Todo(t)
    BY <1>8 DEF DidFlush, Acted
  <2>2. writer.pc = "serving"
    BY <2>1, PlaceIs
  <2>3. Recording(t)
    BY <2>1, <2>2 DEF Recording
  <2>4. ~Published(t)
    BY <2>3 DEF Filed, FiledAt
  <2> QED BY <1>1, <1>8, <2>4 DEF DidFlush, Grown, Published
<1>9. ASSUME NEW t \in Tracks, DidSync(t) \/ DidCopy(t) \/ DidSyncCopy(t) \/ DidRemove(t)
      PROVE  (Published(t) /\ disk[t].part => disk[t].out.data = disk[t].pcm.data)'
  BY <1>1, <1>9 DEF DidSync, DidCopy, DidSyncCopy, DidRemove
<1>10. ASSUME NEW t \in Tracks, DidRename(t)
      PROVE  (Published(t) /\ disk[t].part => disk[t].out.data = disk[t].pcm.data)'
  <2>1. "rename" \in Todo(t) /\ "syncCopy" \notin Todo(t)
    <3>1. Acted("rename", t) /\ "rename" \in FileOps
      BY <1>10, RankIs DEF DidRename
    <3> QED BY <3>1, AfterOp, RankIs
  <2>2. Copied(t)
    BY <2>1 DEF Filed, FiledAt
  <2> QED BY <1>1, <1>10, <2>2 DEF DidRename, Copied
<1>11. ASSUME NEW t \in Tracks, ~(disk' = disk),
              ~(\/ DidStart \/ DidStarted \/ (\E k \in Tracks : DidAppend(k))
                \/ (\E kind \in CallKinds : DidAsk(kind) \/ DidReceive(kind))
                \/ DidSend \/ DidSettle \/ DidCrash \/ DidRecover \/ DidEnd
                \/ (DidRespond /\ writer.call = "checkpoint")
                \/ \E k \in Tracks : DidExamine(k) \/ DidRefuse(k))
       PROVE  (Published(t) /\ disk[t].part => disk[t].out.data = disk[t].pcm.data)'
  BY <1>4, <1>5, <1>6, <1>7, <1>8, <1>9, <1>10, <1>11 DEF Happens
<1> QED BY <1>2, <1>3, <1>11 DEF Beside

LEMMA LeavesStays ==
    ASSUME Typed, Typed', Protocol, Planned, Filed, Beside, Happens, ~past'.ioFailed,
           NEW t \in Tracks, ~past.ioFailed => Leaves(t)
    PROVE  Leaves(t)'
<1>1. CASE control'.pc \notin {"recovering", "recovered"}
  BY <1>1 DEF Leaves
<1>2. CASE DidRecover
  BY <1>2 DEF DidRecover, Quiet, Leaves
<1>3. CASE \/ DidStart \/ DidStarted \/ (\E k \in Tracks : DidAppend(k))
           \/ (\E kind \in CallKinds : DidAsk(kind) \/ DidReceive(kind))
           \/ DidSend \/ DidGiveUp \/ DidRespond \/ DidCrash
           \/ \E k \in Tracks : DidWrite(k)
  <2>1. control'.pc \notin {"recovering", "recovered"}
    <3>1. CASE writer.pc # "none" /\ control' = control
      BY <3>1 DEF Protocol
    <3>2. CASE \/ (\E k \in Tracks : DidAppend(k) \/ DidWrite(k))
               \/ \E kind \in CallKinds : DidReceive(kind)
      BY <3>1, <3>2 DEF DidAppend, DidReceive, DidWrite
    <3>3. CASE DidStart \/ DidStarted \/ DidCrash \/ \E kind \in CallKinds : DidAsk(kind)
      BY <3>3 DEF DidStart, DidStarted, DidCrash, DidAsk
    <3>4. CASE DidSend \/ DidGiveUp \/ DidRespond
      BY <3>1, <3>4, ReturnedIs DEF DidSend, DidGiveUp, DidRespond
    <3> QED BY <1>3, <3>2, <3>3, <3>4
  <2> QED BY <1>1, <2>1
<1>4. CASE DidFail
  BY <1>4 DEF DidFail, Typed, Histories
<1>5. CASE DidSettle
  <2>1. Todo(t)' = Todo(t)
    BY <1>5, SameWork DEF DidSettle, Planned
  <2> QED BY <1>5, <2>1 DEF DidSettle, Quiet, Leaves
<1>6. CASE DidEnd
  <2>1. Todo(t) = {}
    BY <1>6, NoWork DEF DidEnd
  <2> QED BY <1>6, <2>1 DEF DidEnd, Quiet, Leaves
<1>7. ASSUME NEW k \in Tracks,
             \/ DidOpen(k) \/ DidFlush(k) \/ DidSync(k) \/ DidCopy(k) \/ DidSyncCopy(k)
             \/ DidRename(k) \/ DidRemove(k)
      PROVE  Leaves(t)'
  <2>1. /\ control' = control /\ past' = past /\ Others(k) /\ work # <<>>
        /\ \A u \in Tracks \ {k} : Todo(u)' = Todo(u)
    BY <1>7 DEF DidOpen, DidFlush, DidSync, DidCopy, DidSyncCopy, DidRename, DidRemove, Acted
  <2>2. control.pc # "recovered"
    BY <2>1 DEF Protocol
  <2>3. Leaves(t)
    BY <2>1
  <2>4. CASE control.pc # "recovering"
    BY <2>1, <2>2, <2>4 DEF Leaves
  <2>5. CASE t # k
    BY <2>1, <2>3, <2>5 DEF Leaves, Others
  <2>6. CASE control.pc = "recovering" /\ t = k /\ Todo(k)' = {}
    <3>1. writer.pc = "none"
      BY <2>6 DEF Protocol
    <3>2. DidRemove(k)
      BY <1>7, <2>6, <3>1, OpDone
    <3> QED BY <2>1, <2>6, <3>2 DEF DidRemove, Leaves
  <2>7. CASE control.pc = "recovering" /\ t = k /\ Todo(k)' # {}
    BY <2>1, <2>7 DEF Leaves
  <2> QED BY <2>4, <2>5, <2>6, <2>7
<1>8. ASSUME NEW k \in Tracks, DidExamine(k)
      PROVE  Leaves(t)'
  BY <1>8 DEF DidExamine, Leaves, Protocol
<1>9. ASSUME NEW k \in Tracks, DidRefuse(k)
      PROVE  Leaves(t)'
  <2>1. /\ "examine" \in Todo(k) /\ Published(k) /\ ~SameLength(k) /\ control' = control
    BY <1>9 DEF DidRefuse
  <2>2. control.pc # "recovering"
    <3>1. ASSUME control.pc = "recovering"
          PROVE  FALSE
      <4>1. disk[k].part
        BY <2>1, <3>1 DEF Filed, FiledAt
      <4> QED BY <2>1, <4>1 DEF Beside, SameLength
    <3> QED BY <3>1
  <2>3. control.pc # "recovered"
    BY <1>9 DEF DidRefuse, Protocol
  <2> QED BY <2>1, <2>2, <2>3 DEF Leaves
<1> QED BY <1>2, <1>3, <1>4, <1>5, <1>6, <1>7, <1>8, <1>9 DEF Happens

LEMMA RecoverableStays ==
    ASSUME Typed, Typed', Protocol, Planned, Filed, Recoverable, Happens
    PROVE  Recoverable'
<1>1. past.powerLost => past'.powerLost
  BY ZenonT(60) DEF Happens, DidStart, DidStarted, DidAppend, DidAsk, DidReceive, DidSend, DidGiveUp,
     DidFail, DidSettle, DidCrash, DidRecover, DidEnd, DidRespond, DidWrite, DidOpen, DidFlush,
     DidSync, DidExamine, DidRefuse, DidCopy, DidSyncCopy, DidRename, DidRemove, Acted,
     SameHistory, Typed, Histories
<1>2. CASE past'.powerLost
  BY <1>2 DEF Recoverable
<1>3. CASE ~past'.powerLost
  <2>1. Beside /\ \A t \in Tracks : ~past.ioFailed => Leaves(t)
    BY <1>1, <1>3 DEF Recoverable, Beside, Leaves
  <2>2. Beside'
    BY <1>3, <2>1, BesideStays
  <2>3. \A t \in Tracks : ~past'.ioFailed => Leaves(t)'
    BY <2>1, LeavesStays
  <2> QED BY <2>2, <2>3 DEF Recoverable, Beside, Leaves
<1> QED BY <1>2, <1>3

-----------------------------------------------------------------------------
(* The invariant *)

LEMMA InitHolds ==
    ASSUME Init
    PROVE  IInv
<1>1. /\ work = <<>> /\ queue = <<>> /\ writer = NoWriter /\ control.pc = "idle"
      /\ control.call = "none" /\ \A t \in Tracks : buffer[t] = <<>>
      /\ \A t \in Tracks : /\ disk[t].part = FALSE /\ disk[t].wav = "none"
                           /\ disk[t].pcm = EmptyFile /\ disk[t].out = EmptyFile
                           /\ durable[t].part = FALSE /\ durable[t].wav = "none"
      /\ ~past.finalized /\ past.chunks = 0
      /\ \A t \in Tracks : past.reported[t] = <<>>
  BY DEF Init, Names
<1>2. \A t \in Tracks : Todo(t) = {}
  BY <1>1, NoWork
<1>3. <<>> \in Seq(Nat) /\ <<>> \in Seq(Commands) /\ <<>> \in Seq(Steps)
  BY EmptySeq
<1>4. Typed
  <2>1. EmptyFile \in Files /\ EmptyFile.data = <<>> /\ EmptyFile.synced = 0
    BY <1>3 DEF EmptyFile, Files
  <2>2. FilesTyped
    <3>1. disk \in [Tracks -> Entries]
      BY <2>1 DEF Init, Entries, WavStates
    <3>2. buffer \in [Tracks -> Seq(Nat)]
      BY <1>3 DEF Init
    <3>3. \A t \in Tracks : /\ disk[t].pcm.synced <= Len(disk[t].pcm.data)
                            /\ disk[t].out.synced <= Len(disk[t].out.data)
      BY <1>1, <2>1
    <3> QED BY <3>1, <3>2, <3>3 DEF FilesTyped
  <2>3. control \in [pc : Places, call : CallKinds \cup {"none"}]
    BY DEF Init, Places
  <2>4. writer \in [pc : {"none", "loop", "serving"}, call : CallKinds \cup {"none"}, ok : BOOLEAN]
    BY DEF Init, NoWriter
  <2>5. durable \in [Tracks -> [part : BOOLEAN, wav : WavStates]]
    BY DEF Init, Names, WavStates
  <2>6. past \in Histories
    BY <1>3 DEF Init, Histories
  <2> QED BY <1>1, <1>3, <2>2, <2>3, <2>4, <2>5, <2>6 DEF Typed
<1>5. Protocol
  BY <1>1 DEF Protocol, NoWriter
<1>6. Planned
  BY <1>1, <1>2, PlanOfNone DEF Planned
<1>7. Filed
  BY <1>1, <1>2 DEF Filed, FiledAt, Published, Recording, NoWriter
<1>8. Chain
  <2>1. Numbered(<<>>, 0)
    BY DEF Numbered, Rising
  <2> QED BY <1>1, <2>1 DEF Chain, EmptyFile, NoWriter
<1>9. Asked
  BY <1>1 DEF Asked
<1>10. KeptAudio
  <2>1. ASSUME NEW t \in Tracks
        PROVE  Keeps(t, past.reported[t])
    <3>1. Held(disk[t], Safe(disk[t].pcm), Safe(disk[t].out)) = <<>>
          /\ Held(durable[t], Safe(disk[t].pcm), Safe(disk[t].out)) = <<>>
      BY <1>1 DEF Held
    <3>2. IsPrefix(<<>>, <<>>)
      BY <1>3, PrefixRefl
    <3> QED BY <1>1, <1>4, <3>1, <3>2, KeepsIs DEF Typed
  <2> QED BY <1>1, <2>1 DEF KeptAudio, NoWriter
<1>11. Finalized
  BY <1>1 DEF Finalized, NoWriter
<1>12. Recoverable
  BY <1>1 DEF Recoverable, Published
<1> QED BY <1>4, <1>5, <1>6, <1>7, <1>8, <1>9, <1>10, <1>11, <1>12 DEF IInv

LEMMA StutterHolds ==
    ASSUME IInv, UNCHANGED vars
    PROVE  IInv'
<1>1. /\ Typed' /\ Protocol' /\ Chain' /\ Asked'
  BY DEF IInv, vars, Typed, FilesTyped, Protocol, Chain, ChainAt, Written, Asked
<1>2. UNCHANGED <<control, queue, writer, buffer, work, disk, durable, past>>
  BY DEF vars
<1>3. \A t \in Tracks : Todo(t)' = Todo(t)
  BY <1>2 DEF Todo
<1>4. Planned'
  BY <1>2, <1>3 DEF IInv, Planned, PlannedOps
<1>5. Filed'
  BY <1>2, <1>3 DEF IInv, Filed, FiledAt, Published, Recording, Copied
<1>6. KeptAudio'
  BY <1>2, <1>3 DEF IInv, KeptAudio, Keeps, Written
<1>7. Finalized' /\ Recoverable'
  BY <1>2, <1>3 DEF IInv, Finalized, Recoverable, Whole, Published
<1> QED BY <1>1, <1>4, <1>5, <1>6, <1>7 DEF IInv

LEMMA StepHolds ==
    ASSUME IInv, Next
    PROVE  IInv'
<1>1. /\ Typed /\ Protocol /\ Planned /\ Filed /\ Chain /\ Asked /\ KeptAudio /\ Finalized /\ Recoverable
  BY DEF IInv
<1>2. Typed' /\ Happens
  BY <1>1, StepHappens
<1>3. Protocol'
  BY <1>1, <1>2, ProtocolStays
<1>4. Planned'
  BY <1>1, <1>2, PlannedStays
<1>5. Filed'
  BY <1>1, <1>2, <1>4, FiledStays
<1>6. Chain'
  BY <1>1, <1>2, ChainStays
<1>7. Asked'
  BY <1>1, <1>2, <1>3, AskedStays
<1>8. KeptAudio'
  BY <1>1, <1>2, <1>3, KeptAudioStays
<1>9. Finalized'
  <2>1. FinalizedNow /\ FinalizedThen
    BY <1>1 DEF Finalized, FinalizedNow, FinalizedThen
  <2>2. FinalizedNow'
    BY <1>1, <1>2, <1>3, <2>1, FinalizedNowStays
  <2>3. FinalizedThen'
    BY <1>1, <1>2, <2>1, FinalizedThenStays
  <2> QED BY <2>2, <2>3 DEF Finalized, FinalizedNow, FinalizedThen
<1>10. Recoverable'
  BY <1>1, <1>2, RecoverableStays
<1> QED BY <1>2, <1>3, <1>4, <1>5, <1>6, <1>7, <1>8, <1>9, <1>10 DEF IInv

LEMMA InvariantHolds == Spec => []IInv
<1>1. Init => IInv
  BY InitHolds
<1>2. IInv /\ [Next]_vars => IInv'
  BY StepHolds, StutterHolds
<1> QED BY <1>1, <1>2, PTL DEF Spec

\* All that was accepted before a checkpoint, a stop or a finalize that succeeded is in
\* the directory from then on, in order, under the names it has and under those that are
\* on the medium: whatever fails, crashes, is resumed or recovered afterwards.
THEOREM ReportedAudioIsKept == Spec => []ReportedIsKept
<1>1. IInv => ReportedIsKept
  <2>1. ASSUME IInv, NEW t \in Tracks
        PROVE  /\ IsPrefix(past.reported[t], Held(disk[t], disk[t].pcm.data, disk[t].out.data))
               /\ IsPrefix(past.reported[t], Held(durable[t], Safe(disk[t].pcm), Safe(disk[t].out)))
    <3>1. /\ disk[t].pcm \in Files /\ disk[t].out \in Files
          /\ disk[t].pcm.synced <= Len(disk[t].pcm.data)
          /\ disk[t].out.synced <= Len(disk[t].out.data)
          /\ disk[t].pcm.data \in Seq(Nat) /\ disk[t].out.data \in Seq(Nat)
      BY <2>1 DEF IInv, Typed, FilesTyped, Entries, Files
    <3>2. past.reported[t] \in Seq(Nat)
      BY <2>1, HistoryIs DEF IInv
    <3>3. Keeps(t, past.reported[t]) /\ FilesTyped
      BY <2>1 DEF IInv, KeptAudio, Typed
    <3>4. /\ IsPrefix(past.reported[t], Held(disk[t], Safe(disk[t].pcm), Safe(disk[t].out)))
          /\ IsPrefix(past.reported[t], Held(durable[t], Safe(disk[t].pcm), Safe(disk[t].out)))
      BY <3>3, KeepsIs
    <3>5. /\ Safe(disk[t].pcm) \in Seq(Nat) /\ IsPrefix(Safe(disk[t].pcm), disk[t].pcm.data)
          /\ Safe(disk[t].out) \in Seq(Nat) /\ IsPrefix(Safe(disk[t].out), disk[t].out.data)
      BY <3>1, SafeIs
    <3>6. IsPrefix(past.reported[t], Held(disk[t], disk[t].pcm.data, disk[t].out.data))
      BY <3>1, <3>2, <3>4, <3>5, HeldGrows
    <3> QED BY <3>4, <3>6
  <2> QED BY <2>1 DEF ReportedIsKept, Safe
<1> QED BY <1>1, InvariantHolds, PTL

\* A recording that was finalized is two WAVs that hold all that was accepted, in order,
\* and no part file, until a power loss.
THEOREM FinalizedAudioIsComplete == Spec => []FinalizedIsComplete
<1>1. IInv => FinalizedIsComplete
  BY DEF IInv, Finalized, Whole, FinalizedIsComplete
<1> QED BY <1>1, InvariantHolds, PTL

\* After a recovery in which no operation fails no part file is left, wherever in a start,
\* a finalize or an earlier recovery the process crashed.
THEOREM RecoveryLeavesNoPart == Spec => []RecoveryIsComplete
<1>1. IInv => RecoveryIsComplete
  BY DEF IInv, Recoverable, RecoveryIsComplete
<1> QED BY <1>1, InvariantHolds, PTL

\* A WAV that is published is never replaced, changed or removed by a step that is not a
\* crash.
THEOREM WavsAreFinal == Spec => PublishedIsFinal
<1> DEFINE Final == \A t \in Tracks :
             Published(t) => \/ Published(t)' /\ disk'[t].out.data = disk[t].out.data
                             \/ past'.crashes # past.crashes
<1>1. ASSUME IInv, Next
      PROVE  Final
  <2>0. Typed /\ Protocol /\ Planned /\ Filed
    BY <1>1 DEF IInv
  <2>1. Happens
    BY <1>1, <2>0, StepHappens
  <2>2. ASSUME NEW t \in Tracks, Published(t), ~DidCrash
        PROVE  Published(t)' /\ disk'[t].out.data = disk[t].out.data
    <3>1. CASE disk' = disk
      BY <2>2, <3>1 DEF Published
    <3>2. CASE Grown(t)
      BY <2>2, <3>2 DEF Published, Grown
    <3>3. CASE \/ DidStart \/ DidStarted \/ (\E k \in Tracks : DidAppend(k))
               \/ (\E kind \in CallKinds : DidAsk(kind) \/ DidReceive(kind))
               \/ DidSend \/ DidSettle \/ DidRecover \/ DidEnd
               \/ (DidRespond /\ writer.call = "checkpoint")
               \/ \E k \in Tracks : DidExamine(k) \/ DidRefuse(k)
      BY <3>1, <3>3 DEF DidStart, DidStarted, DidAppend, DidAsk, DidReceive, DidSend, DidSettle,
         DidRecover, DidEnd, DidRespond, DidExamine, DidRefuse, Quiet
    <3>4. CASE DidGiveUp \/ DidFail \/ (DidRespond /\ writer.call # "checkpoint")
               \/ \E k \in Tracks : DidWrite(k)
      BY <3>2, <3>4 DEF DidGiveUp, DidFail, DidRespond, DidWrite, Left
    <3>5. ASSUME NEW k \in Tracks,
                 \/ DidOpen(k) \/ DidFlush(k) \/ DidSync(k) \/ DidSyncCopy(k) \/ DidRename(k)
                 \/ DidRemove(k) \/ (DidCopy(k) /\ k # t)
          PROVE  Published(t)' /\ disk'[t].out.data = disk[t].out.data
      BY <2>2, <3>5
      DEF DidOpen, DidFlush, DidSync, DidSyncCopy, DidRename, DidRemove, DidCopy, Others, Grown,
          Published
    <3>6. CASE DidCopy(t)
      BY <2>0, <2>2, <3>6 DEF DidCopy, Acted, Filed, FiledAt
    <3> QED BY <2>1, <2>2, <3>3, <3>4, <3>5, <3>6 DEF Happens
  <2>3. CASE DidCrash
    <3>1. past.crashes \in Nat
      BY <2>0 DEF Typed, Histories
    <3> QED BY <2>3, <3>1 DEF DidCrash
  <2> QED BY <2>2, <2>3
<1>2. IInv /\ [Next]_vars => [Final]_vars
  BY <1>1
<1> QED BY <1>2, InvariantHolds, PTL DEF Spec, PublishedIsFinal
=============================================================================
