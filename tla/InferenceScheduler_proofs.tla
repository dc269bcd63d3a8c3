----------------------- MODULE InferenceScheduler_proofs -----------------------
(***************************************************************************)
(* Safety of the inference scheduler for any number of requests, slots and *)
(* any burst limit: type correctness, conservation of permits, the queues, *)
(* bounded overtaking, and that the limiter implements the permit pool.    *)
(***************************************************************************)
EXTENDS InferenceScheduler, FiniteSetTheorems, SequenceTheorems, TLAPS

-----------------------------------------------------------------------------
(* Queues as sets of members *)

\* A sender pushed at the back of a queue joins its members, and a queue
\* without duplicates keeps none if it did not hold the sender yet.
LEMMA AppendMembers ==
    ASSUME NEW S, NEW q \in Seq(S), NEW e \in S
    PROVE  /\ Append(q, e) \in Seq(S)
           /\ Append(q, e) # <<>>
           /\ Members(Append(q, e)) = Members(q) \cup {e}
           /\ e \notin Members(q) /\ Distinct(q) => Distinct(Append(q, e))
<1> DEFINE p == Append(q, e)
<1>1. /\ p \in Seq(S) /\ p # <<>> /\ Len(p) = Len(q) + 1
      /\ \A i \in 1..Len(q) : p[i] = q[i]
      /\ p[Len(q) + 1] = e
  BY AppendProperties
<1>2. /\ Len(q) \in Nat /\ DOMAIN q = 1..Len(q) /\ DOMAIN p = 1..(Len(q) + 1)
  BY <1>1, LenProperties
<1>3. Members(p) = Members(q) \cup {e}
  <2> HIDE DEF p
  <2>1. ASSUME NEW x \in Members(p) PROVE x \in Members(q) \cup {e}
    BY <1>1, <1>2, <2>1 DEF Members
  <2>2. ASSUME NEW x \in Members(q) PROVE x \in Members(p)
    BY <1>1, <1>2, <2>2 DEF Members
  <2>3. e \in Members(p)
    <3>1. Len(q) + 1 \in DOMAIN p
      BY <1>2
    <3> QED BY <1>1, <3>1 DEF Members
  <2> QED BY <2>1, <2>2, <2>3
<1>4. ASSUME e \notin Members(q), Distinct(q) PROVE Distinct(p)
  <2> HIDE DEF p
  <2> SUFFICES ASSUME NEW i \in DOMAIN p, NEW j \in DOMAIN p, p[i] = p[j]
               PROVE  i = j
    BY DEF Distinct
  <2>1. \A k \in 1..Len(q) : q[k] # e
    BY <1>2, <1>4 DEF Members
  <2> QED BY <1>1, <1>2, <1>4, <2>1 DEF Distinct
<1> QED BY <1>1, <1>3, <1>4

\* Popping the front of a queue without duplicates takes exactly that sender
\* out of its members.
LEMMA TailMembers ==
    ASSUME NEW S, NEW q \in Seq(S), q # <<>>, Distinct(q)
    PROVE  /\ Head(q) \in S /\ Head(q) \in Members(q)
           /\ Tail(q) \in Seq(S)
           /\ Members(Tail(q)) = Members(q) \ {Head(q)}
           /\ Distinct(Tail(q))
<1> DEFINE t == Tail(q)
<1>1. /\ Head(q) \in S /\ t \in Seq(S) /\ Len(t) = Len(q) - 1
      /\ \A i \in 1..Len(t) : t[i] = q[i + 1]
  BY HeadTailProperties
<1>2. /\ Len(q) \in Nat /\ Len(q) # 0
      /\ DOMAIN q = 1..Len(q) /\ DOMAIN t = 1..(Len(q) - 1)
  BY <1>1, LenProperties, EmptySeq
<1>3. Head(q) = q[1] /\ 1 \in DOMAIN q
  BY <1>2
<1> HIDE DEF t
<1>4. Members(t) = Members(q) \ {Head(q)}
  <2>1. ASSUME NEW x \in Members(t) PROVE x \in Members(q) \ {Head(q)}
    <3>1. PICK i \in DOMAIN t : x = t[i]
      BY DEF Members
    <3>2. /\ i + 1 \in DOMAIN q /\ x = q[i + 1] /\ i + 1 # 1
      BY <1>1, <1>2, <3>1
    <3> QED BY <1>3, <3>2 DEF Members, Distinct
  <2>2. ASSUME NEW x \in Members(q) \ {Head(q)} PROVE x \in Members(t)
    <3>1. PICK i \in DOMAIN q : x = q[i]
      BY DEF Members
    <3>2. i # 1
      BY <1>3, <3>1
    <3>3. /\ i - 1 \in DOMAIN t /\ t[i - 1] = q[(i - 1) + 1] /\ (i - 1) + 1 = i
      BY <1>1, <1>2, <3>1, <3>2
    <3> QED BY <3>1, <3>3 DEF Members
  <2> QED BY <2>1, <2>2
<1>5. Distinct(t)
  <2> SUFFICES ASSUME NEW i \in DOMAIN t, NEW j \in DOMAIN t, t[i] = t[j]
               PROVE  i = j
    BY DEF Distinct
  <2>1. /\ i + 1 \in DOMAIN q /\ j + 1 \in DOMAIN q /\ q[i + 1] = q[j + 1]
    BY <1>1, <1>2
  <2>2. i + 1 = j + 1
    BY <2>1 DEF Distinct
  <2> QED BY <1>2, <2>2
<1>6. Head(q) \in Members(q)
  BY <1>3 DEF Members
<1> QED BY <1>1, <1>4, <1>5, <1>6 DEF t

-----------------------------------------------------------------------------
(* The inductive invariant *)

TypeInv ==
    /\ available \in Nat
    /\ burst \in 0..BurstLimit
    /\ realtime \in Seq(Requests)
    /\ offline \in Seq(Requests)
    /\ lock \in {"free", "release"}
    /\ status \in [Requests -> Status]
    /\ lost \in Nat
    /\ overtaken \in [{"realtime", "offline"} -> Nat]

\* What each queue's head was passed by is accounted for by the burst counter:
\* it counts the realtime requests since the last offline one, and is zero
\* right after an offline request passed a realtime one.
BurstAccounts ==
    /\ offline # <<>> => overtaken["offline"] <= burst
    /\ realtime # <<>> => \/ overtaken["realtime"] = 0
                          \/ overtaken["realtime"] = 1 /\ burst = 0

IInv ==
    /\ TypeInv
    /\ SlotsConserved
    /\ NoIdleSlotWhileQueued
    /\ QueuesHoldWaiters
    /\ BurstAccounts

\* Where a request is, as seen by the sets the properties are about, after
\* its status changes.
LEMMA StatusChange ==
    ASSUME status \in [Requests -> Status], NEW r \in Requests, NEW s \in Status,
           status' = [status EXCEPT ![r] = s]
    PROVE  /\ status' \in [Requests -> Status]
           /\ s \in {"holding", "sent"} => InUse' = InUse \cup {r}
           /\ s \notin {"holding", "sent"} => InUse' = InUse \ {r}
           /\ s \in {"waiting", "dropped"} => Queued' = Queued \cup {r}
           /\ s \notin {"waiting", "dropped"} => Queued' = Queued \ {r}
<1>1. status' \in [Requests -> Status]
  OBVIOUS
<1>2. \A q \in Requests : status'[q] = IF q = r THEN s ELSE status[q]
  OBVIOUS
<1> QED BY <1>1, <1>2 DEF InUse, Queued, With

\* The requests that use a slot can be counted.
LEMMA InUseFinite == IsFiniteSet(InUse) /\ Cardinality(InUse) \in Nat
<1>1. InUse \in SUBSET Requests
  BY DEF InUse, With
<1>2. IsFiniteSet(InUse)
  BY <1>1, RequestsAssumption, FS_Subset
<1> QED BY <1>2, FS_CardinalityType

\* A request that starts or stops using a slot changes their number by one.
LEMMA InUseCount ==
    ASSUME NEW r \in Requests
    PROVE  /\ Cardinality(InUse) \in Nat
           /\ Cardinality(InUse \cup {r}) =
                 IF r \in InUse THEN Cardinality(InUse) ELSE Cardinality(InUse) + 1
           /\ Cardinality(InUse \ {r}) =
                 IF r \in InUse THEN Cardinality(InUse) - 1 ELSE Cardinality(InUse)
BY InUseFinite, FS_AddElement, FS_RemoveElement

\* A permit lost to a cancelled receiver moves from those in use to the lost.
LEMMA LostSlotIsCounted ==
    ASSUME NEW r \in Requests, CancelSent(r), SlotsConserved,
           available \in Nat, lost \in Nat, r \in InUse, InUse' = InUse \ {r}
    PROVE  SlotsConserved'
<1>1. Cardinality(InUse)' = Cardinality(InUse) - 1 /\ Cardinality(InUse) \in Nat
  BY InUseCount
<1>2. lost' = lost + 1 /\ available' = available /\ InHand' = InHand
  BY DEF CancelSent, InHand
<1>3. InHand \in Nat
  BY DEF InHand
<1> QED BY <1>1, <1>2, <1>3 DEF SlotsConserved

\* A new limiter has all its slots and empty queues.
LEMMA InitHolds == Init => IInv
<1> SUFFICES ASSUME Init PROVE IInv
  OBVIOUS
<1>1. InUse = {} /\ Queued = {}
  BY DEF Init, InUse, Queued, With
<1>2. Cardinality(InUse) = 0
  BY <1>1, FS_EmptySet
<1>3. Members(<<>>) = {} /\ Distinct(<<>>)
  BY DEF Members, Distinct
<1>4. TypeInv
  BY SlotsAssumption, BurstAssumption, EmptySeq DEF Init, TypeInv, Status
<1>5. SlotsConserved
  BY <1>2, SlotsAssumption DEF Init, SlotsConserved, InHand
<1>6. QueuesHoldWaiters
  BY <1>1, <1>3 DEF Init, QueuesHoldWaiters
<1> QED BY <1>4, <1>5, <1>6 DEF Init, IInv, NoIdleSlotWhileQueued, BurstAccounts

\* Steps of a request that leave the queues and the counters alone.
LEMMA RequestSteps ==
    ASSUME IInv, NEW r \in Requests,
           \/ AcquireNow(r) \/ Poll(r) \/ DropPermit(r)
           \/ CancelWaiting(r) \/ CancelSent(r)
    PROVE  IInv'
<1> USE DEF IInv, TypeInv
<1>1. CASE AcquireNow(r)
  <2>1. status' = [status EXCEPT ![r] = "holding"] /\ "holding" \in Status
    BY <1>1 DEF AcquireNow, Status
  <2>2. r \notin InUse /\ r \notin Queued
    BY <1>1 DEF AcquireNow, InUse, Queued, With
  <2>3. /\ status' \in [Requests -> Status] /\ InUse' = InUse \cup {r}
        /\ Queued' = Queued
    <3>1. /\ status' \in [Requests -> Status]
          /\ InUse' = InUse \cup {r} /\ Queued' = Queued \ {r}
      BY <2>1, StatusChange
    <3> QED BY <2>2, <3>1
  <2>4. SlotsConserved'
    BY <1>1, <2>2, <2>3, InUseCount DEF AcquireNow, SlotsConserved, InHand
  <2>5. QueuesHoldWaiters'
    BY <1>1, <2>3 DEF AcquireNow, QueuesHoldWaiters
  <2>6. NoIdleSlotWhileQueued' /\ BurstAccounts' /\ TypeInv'
    BY <1>1, <2>3 DEF AcquireNow, NoIdleSlotWhileQueued, BurstAccounts
  <2> QED BY <2>4, <2>5, <2>6
<1>2. CASE Poll(r)
  <2>1. status' = [status EXCEPT ![r] = "holding"] /\ "holding" \in Status
    BY <1>2 DEF Poll, Status
  <2>2. r \in InUse /\ r \notin Queued
    BY <1>2 DEF Poll, InUse, Queued, With
  <2>3. /\ status' \in [Requests -> Status] /\ InUse' = InUse
        /\ Queued' = Queued
    <3>1. /\ status' \in [Requests -> Status]
          /\ InUse' = InUse \cup {r} /\ Queued' = Queued \ {r}
      BY <2>1, StatusChange
    <3> QED BY <2>2, <3>1
  <2>4. SlotsConserved'
    BY <1>2, <2>3 DEF Poll, SlotsConserved, InHand
  <2>5. QueuesHoldWaiters'
    BY <1>2, <2>3 DEF Poll, QueuesHoldWaiters
  <2>6. NoIdleSlotWhileQueued' /\ BurstAccounts' /\ TypeInv'
    BY <1>2, <2>3 DEF Poll, NoIdleSlotWhileQueued, BurstAccounts
  <2> QED BY <2>4, <2>5, <2>6
<1>3. CASE DropPermit(r)
  <2>1. status' = [status EXCEPT ![r] = "idle"] /\ "idle" \in Status
    BY <1>3 DEF DropPermit, Status
  <2>2. r \in InUse /\ r \notin Queued
    BY <1>3 DEF DropPermit, InUse, Queued, With
  <2>3. /\ status' \in [Requests -> Status] /\ InUse' = InUse \ {r}
        /\ Queued' = Queued
    <3>1. /\ status' \in [Requests -> Status]
          /\ InUse' = InUse \ {r} /\ Queued' = Queued \ {r}
      BY <2>1, StatusChange, ZenonT(60)
    <3> QED BY <2>2, <3>1
  <2>4. SlotsConserved'
    BY <1>3, <2>2, <2>3, InUseCount DEF DropPermit, SlotsConserved, InHand
  <2>5. QueuesHoldWaiters'
    BY <1>3, <2>3 DEF DropPermit, QueuesHoldWaiters
  <2>6. NoIdleSlotWhileQueued' /\ BurstAccounts' /\ TypeInv'
    BY <1>3, <2>3 DEF DropPermit, NoIdleSlotWhileQueued, BurstAccounts
  <2> QED BY <2>4, <2>5, <2>6
<1>4. CASE CancelWaiting(r)
  <2>1. status' = [status EXCEPT ![r] = "dropped"] /\ "dropped" \in Status
    BY <1>4 DEF CancelWaiting, Status
  <2>2. r \notin InUse /\ r \in Queued
    BY <1>4 DEF CancelWaiting, InUse, Queued, With
  <2>3. /\ status' \in [Requests -> Status] /\ InUse' = InUse
        /\ Queued' = Queued
    <3>1. /\ status' \in [Requests -> Status]
          /\ InUse' = InUse \ {r} /\ Queued' = Queued \cup {r}
      BY <2>1, StatusChange
    <3> QED BY <2>2, <3>1
  <2>4. SlotsConserved'
    BY <1>4, <2>3 DEF CancelWaiting, SlotsConserved, InHand
  <2>5. QueuesHoldWaiters'
    BY <1>4, <2>3 DEF CancelWaiting, QueuesHoldWaiters
  <2>6. NoIdleSlotWhileQueued' /\ BurstAccounts' /\ TypeInv'
    BY <1>4, <2>3 DEF CancelWaiting, NoIdleSlotWhileQueued, BurstAccounts
  <2> QED BY <2>4, <2>5, <2>6
<1>5. CASE CancelSent(r)
  <2>1. status' = [status EXCEPT ![r] = "idle"] /\ "idle" \in Status
    BY <1>5 DEF CancelSent, Status
  <2>2. r \in InUse /\ r \notin Queued
    BY <1>5 DEF CancelSent, InUse, Queued, With
  <2>3. /\ status' \in [Requests -> Status] /\ InUse' = InUse \ {r}
        /\ Queued' = Queued
    <3>1. /\ status' \in [Requests -> Status]
          /\ InUse' = InUse \ {r} /\ Queued' = Queued \ {r}
      BY <2>1, StatusChange, ZenonT(60)
    <3> QED BY <2>2, <3>1
  <2>4. SlotsConserved'
    BY <1>5, <2>2, <2>3, LostSlotIsCounted
  <2>5. QueuesHoldWaiters'
    BY <1>5, <2>3 DEF CancelSent, QueuesHoldWaiters
  <2>6. NoIdleSlotWhileQueued' /\ BurstAccounts' /\ TypeInv'
    BY <1>5, <2>3 DEF CancelSent, NoIdleSlotWhileQueued, BurstAccounts
  <2> QED BY <2>4, <2>5, <2>6
<1> QED BY <1>1, <1>2, <1>3, <1>4, <1>5

\* A request queues only when no slot is left.
LEMMA QueueSteps ==
    ASSUME IInv, NEW r \in Requests, QueueRealtime(r) \/ QueueOffline(r)
    PROVE  IInv'
<1> USE DEF IInv, TypeInv
<1>1. status' = [status EXCEPT ![r] = "waiting"] /\ "waiting" \in Status
  BY DEF QueueRealtime, QueueOffline, Status
<1>2. r \notin InUse /\ r \notin Queued
  BY DEF QueueRealtime, QueueOffline, MustWait, InUse, Queued, With
<1>3. /\ status' \in [Requests -> Status] /\ InUse' = InUse /\ Queued' = Queued \cup {r}
  <2>1. /\ status' \in [Requests -> Status]
        /\ InUse' = InUse \ {r} /\ Queued' = Queued \cup {r}
    BY <1>1, StatusChange
  <2> QED BY <1>2, <2>1
<1>4. SlotsConserved'
  BY <1>3 DEF QueueRealtime, QueueOffline, SlotsConserved, InHand
<1>5. r \notin Members(realtime) /\ r \notin Members(offline)
  BY <1>2 DEF QueuesHoldWaiters
<1>6. available = 0
  BY DEF QueueRealtime, QueueOffline, MustWait, NoIdleSlotWhileQueued
<1>7. CASE QueueRealtime(r)
  <2>1. /\ realtime' \in Seq(Requests) /\ realtime' # <<>>
        /\ Members(realtime') = Members(realtime) \cup {r} /\ Distinct(realtime')
    BY <1>5, <1>7, AppendMembers DEF QueueRealtime, QueuesHoldWaiters
  <2>2. QueuesHoldWaiters'
    <3>1. offline' = offline
      BY <1>7 DEF QueueRealtime
    <3> QED BY <1>3, <1>5, <2>1, <3>1 DEF QueuesHoldWaiters
  <2>3. TypeInv' /\ NoIdleSlotWhileQueued' /\ BurstAccounts'
    BY <1>3, <1>6, <1>7, <2>1 DEF QueueRealtime, NoIdleSlotWhileQueued, BurstAccounts
  <2> QED BY <1>4, <2>2, <2>3
<1>8. CASE QueueOffline(r)
  <2>1. /\ offline' \in Seq(Requests) /\ offline' # <<>>
        /\ Members(offline') = Members(offline) \cup {r} /\ Distinct(offline')
    BY <1>5, <1>8, AppendMembers DEF QueueOffline, QueuesHoldWaiters
  <2>2. QueuesHoldWaiters'
    <3>1. realtime' = realtime
      BY <1>8 DEF QueueOffline
    <3> QED BY <1>3, <1>5, <2>1, <3>1 DEF QueuesHoldWaiters
  <2>3. TypeInv' /\ NoIdleSlotWhileQueued' /\ BurstAccounts'
    BY <1>3, <1>6, <1>8, <2>1 DEF QueueOffline, NoIdleSlotWhileQueued, BurstAccounts
  <2> QED BY <1>4, <2>2, <2>3
<1> QED BY <1>7, <1>8

\* Handing the permit in hand to a queued request: it is sent to a live one
\* and kept from a dead one, and either way the request leaves the queue.
LEMMA SendStep ==
    ASSUME TypeInv, SlotsConserved, lock = "release",
           NEW r \in Queued, Send(r), UNCHANGED <<available, lost>>
    PROVE  /\ status' \in [Requests -> Status]
           /\ lock' \in {"free", "release"}
           /\ Queued' = Queued \ {r}
           /\ SlotsConserved'
<1> USE DEF TypeInv
<1>1. r \in Requests /\ r \notin InUse /\ status[r] \in {"waiting", "dropped"}
  BY DEF Queued, With, InUse
<1>2. CASE status[r] = "waiting"
  <2>1. status' = [status EXCEPT ![r] = "sent"] /\ "sent" \in Status /\ lock' = "free"
    BY <1>2 DEF Send, Status
  <2>2. /\ status' \in [Requests -> Status]
        /\ InUse' = InUse \cup {r} /\ Queued' = Queued \ {r}
    BY <1>1, <2>1, StatusChange
  <2>3. Cardinality(InUse)' = Cardinality(InUse) + 1 /\ Cardinality(InUse) \in Nat
    BY <1>1, <2>2, InUseCount
  <2>4. InHand = 1 /\ InHand' = 0
    BY <2>1 DEF InHand
  <2>5. SlotsConserved'
    BY <2>3, <2>4 DEF SlotsConserved
  <2> QED BY <2>1, <2>2, <2>5
<1>3. CASE status[r] = "dropped"
  <2>1. status' = [status EXCEPT ![r] = "idle"] /\ "idle" \in Status /\ lock' = lock
    BY <1>3 DEF Send, Status
  <2>2. /\ status' \in [Requests -> Status]
        /\ InUse' = InUse \ {r} /\ Queued' = Queued \ {r}
    <3>1. "idle" \notin {"holding", "sent"} /\ "idle" \notin {"waiting", "dropped"}
      OBVIOUS
    <3>2. status \in [Requests -> Status] /\ r \in Requests
      BY <1>1
    <3> HIDE DEF TypeInv
    <3> QED BY <2>1, <3>1, <3>2, StatusChange
  <2>3. InUse' = InUse
    BY <1>1, <2>2
  <2>4. InHand' = InHand
    BY <2>1 DEF InHand
  <2>5. SlotsConserved'
    BY <2>3, <2>4 DEF SlotsConserved
  <2> QED BY <2>1, <2>2, <2>5
<1> QED BY <1>1, <1>2, <1>3

\* The turns of the loop in `release`.
LEMMA ReleaseSteps ==
    ASSUME IInv, Release
    PROVE  IInv'
<1> USE DEF IInv, TypeInv
<1>1. CASE PassToOffline
  <2>1. /\ lock = "release" /\ offline # <<>> /\ offline' = Tail(offline) /\ realtime' = realtime
        /\ Send(Head(offline)) /\ UNCHANGED <<available, lost>> /\ burst' = 0
    BY <1>1 DEF PassToOffline, PreferOffline
  <2>2. /\ Head(offline) \in Members(offline) /\ offline' \in Seq(Requests)
        /\ Members(offline') = Members(offline) \ {Head(offline)} /\ Distinct(offline')
    BY <2>1, TailMembers DEF QueuesHoldWaiters
  <2>3. /\ Head(offline) \in Queued /\ Head(offline) \notin Members(realtime)
    BY <2>2 DEF QueuesHoldWaiters
  <2>4. /\ status' \in [Requests -> Status] /\ lock' \in {"free", "release"}
        /\ Queued' = Queued \ {Head(offline)} /\ SlotsConserved'
    BY <2>1, <2>3, SendStep
  <2>5. QueuesHoldWaiters'
    BY <2>1, <2>2, <2>3, <2>4 DEF QueuesHoldWaiters
  <2>6. NoIdleSlotWhileQueued'
    BY <2>1 DEF NoIdleSlotWhileQueued
  <2>7. BurstAccounts' /\ overtaken' \in [{"realtime", "offline"} -> Nat]
    <3>1. overtaken' = [realtime |-> overtaken["realtime"] + (IF realtime = <<>> THEN 0 ELSE 1),
                        offline |-> 0]
      BY <1>1 DEF PassToOffline
    <3>2. realtime # <<>> => burst >= BurstLimit
      BY <1>1 DEF PassToOffline, PreferOffline
    <3>3. realtime # <<>> => overtaken["realtime"] = 0
      BY <3>2, BurstAssumption DEF BurstAccounts
    <3> QED BY <2>1, <3>1, <3>3 DEF BurstAccounts
  <2> QED BY <2>1, <2>2, <2>4, <2>5, <2>6, <2>7, BurstAssumption
<1>2. CASE PassToRealtime
  <2>1. /\ lock = "release" /\ realtime # <<>> /\ realtime' = Tail(realtime) /\ offline' = offline
        /\ Send(Head(realtime)) /\ UNCHANGED <<available, lost>> /\ burst' = Burst(burst)
    BY <1>2 DEF PassToRealtime
  <2>2. /\ Head(realtime) \in Members(realtime) /\ realtime' \in Seq(Requests)
        /\ Members(realtime') = Members(realtime) \ {Head(realtime)} /\ Distinct(realtime')
    BY <2>1, TailMembers DEF QueuesHoldWaiters
  <2>3. /\ Head(realtime) \in Queued /\ Head(realtime) \notin Members(offline)
    BY <2>2 DEF QueuesHoldWaiters
  <2>4. /\ status' \in [Requests -> Status] /\ lock' \in {"free", "release"}
        /\ Queued' = Queued \ {Head(realtime)} /\ SlotsConserved'
    BY <2>1, <2>3, SendStep
  <2>5. QueuesHoldWaiters'
    BY <2>1, <2>2, <2>3, <2>4 DEF QueuesHoldWaiters
  <2>6. NoIdleSlotWhileQueued'
    BY <2>1 DEF NoIdleSlotWhileQueued
  <2>7. /\ BurstAccounts' /\ overtaken' \in [{"realtime", "offline"} -> Nat]
        /\ burst' \in 0..BurstLimit
    <3>1. overtaken' = [realtime |-> 0,
                        offline |-> overtaken["offline"] + (IF offline = <<>> THEN 0 ELSE 1)]
      BY <1>2 DEF PassToRealtime
    <3>2. burst' \in 0..BurstLimit
      BY <2>1, BurstAssumption DEF Burst
    <3>3. offline # <<>> => burst' = burst + 1
      BY <1>2, <2>1, BurstAssumption DEF PassToRealtime, PreferOffline, Burst
    <3> QED BY <2>1, <3>1, <3>2, <3>3 DEF BurstAccounts
  <2> QED BY <2>1, <2>2, <2>4, <2>5, <2>6, <2>7
<1>3. CASE ReturnSlot
  <2>1. InUse' = InUse /\ Queued' = Queued
    BY <1>3 DEF ReturnSlot, InUse, Queued, With
  <2>2. InHand = 1 /\ InHand' = 0 /\ Cardinality(InUse) \in Nat
    BY <1>3, InUseFinite DEF ReturnSlot, InHand
  <2>3. SlotsConserved'
    <3>1. available' = available + 1 /\ lost' = lost
      BY <1>3 DEF ReturnSlot
    <3> QED BY <2>1, <2>2, <3>1 DEF SlotsConserved
  <2>4. QueuesHoldWaiters'
    BY <1>3, <2>1 DEF ReturnSlot, QueuesHoldWaiters
  <2>5. TypeInv' /\ NoIdleSlotWhileQueued' /\ BurstAccounts'
    BY <1>3, BurstAssumption DEF ReturnSlot, NoIdleSlotWhileQueued, BurstAccounts
  <2> QED BY <2>3, <2>4, <2>5
<1> QED BY <1>1, <1>2, <1>3 DEF Release

\* Every step of the limiter keeps the strengthened invariant.
LEMMA NextHolds == IInv /\ [Next]_vars => IInv'
<1> SUFFICES ASSUME IInv, [Next]_vars PROVE IInv'
  OBVIOUS
<1>1. ASSUME NEW r \in Requests, Acquire(r) PROVE IInv'
  BY <1>1, RequestSteps, QueueSteps DEF Acquire
<1>2. ASSUME NEW r \in Requests,
             Poll(r) \/ DropPermit(r) \/ CancelWaiting(r) \/ CancelSent(r)
      PROVE  IInv'
  BY <1>2, RequestSteps
<1>3. CASE Release
  BY <1>3, ReleaseSteps
<1>4. CASE UNCHANGED vars
  <2>1. InUse' = InUse /\ Queued' = Queued
    BY <1>4 DEF vars, InUse, Queued, With
  <2> QED BY <1>4, <2>1 DEF vars, IInv, TypeInv, SlotsConserved, InHand,
             NoIdleSlotWhileQueued, QueuesHoldWaiters, BurstAccounts
<1> QED BY <1>1, <1>2, <1>3, <1>4 DEF Next

-----------------------------------------------------------------------------
(* Theorems *)

\* The strengthened invariant holds in every reachable state.
THEOREM Invariance == Spec => []IInv
<1>1. Init => IInv
  BY InitHolds
<1>2. IInv /\ [Next]_vars => IInv'
  BY NextHolds
<1> QED BY <1>1, <1>2, PTL DEF Spec

\* The limiter's counters stay within the configured number of slots, its
\* burst counter within the limit.
THEOREM TypeCorrect == Spec => []TypeOK
<1>1. ASSUME IInv PROVE TypeOK
  <2>1. /\ available \in Nat /\ lost \in Nat /\ InHand \in Nat
        /\ Cardinality(InUse) \in Nat /\ Slots \in Nat
    BY <1>1, InUseFinite, SlotsAssumption DEF IInv, TypeInv, InHand
  <2>2. available + Cardinality(InUse) + InHand + lost = Slots
    BY <1>1 DEF IInv, SlotsConserved
  <2>3. available \in 0..Slots /\ lost \in 0..Slots
    BY <2>1, <2>2
  <2> QED BY <1>1, <2>3 DEF IInv, TypeInv, TypeOK
<1> QED BY <1>1, Invariance, PTL

\* No permit is invented or forgotten: what is free, used, on its way and
\* lost to cancelled receivers is the configured number of slots.
THEOREM SlotsAreConserved == Spec => []SlotsConserved
<1>1. IInv => SlotsConserved
  BY DEF IInv
<1> QED BY <1>1, Invariance, PTL

\* A slot is never left idle while a request waits for one, although acquire
\* looks at one of the two queues only.
THEOREM NoSlotIdles == Spec => []NoIdleSlotWhileQueued
<1>1. IInv => NoIdleSlotWhileQueued
  BY DEF IInv
<1> QED BY <1>1, Invariance, PTL

\* The queues hold every request once, and exactly the unanswered ones.
THEOREM QueuesAreExact == Spec => []QueuesHoldWaiters
<1>1. IInv => QueuesHoldWaiters
  BY DEF IInv
<1> QED BY <1>1, Invariance, PTL

\* Neither class of work starves the other: the offline head is passed by at
\* most BurstLimit realtime requests, the realtime head by one offline one.
THEOREM OvertakingIsBounded == Spec => []BoundedOvertaking
<1>1. IInv => BoundedOvertaking
  BY BurstAssumption DEF IInv, TypeInv, BurstAccounts, BoundedOvertaking
<1> QED BY <1>1, Invariance, PTL

-----------------------------------------------------------------------------
(* The limiter implements the permit pool *)

\* The place of a request follows its status.
LEMMA PlaceChange ==
    ASSUME status \in [Requests -> Status], NEW r \in Requests, NEW s \in Status,
           status' = [status EXCEPT ![r] = s]
    PROVE  /\ s \in {"idle", "dropped"} => place' = [place EXCEPT ![r] = "out"]
           /\ s = "waiting" => place' = [place EXCEPT ![r] = "queued"]
           /\ s \in {"sent", "holding"} => place' = [place EXCEPT ![r] = "in"]
<1>1. \A q \in Requests : status'[q] = IF q = r THEN s ELSE status[q]
  OBVIOUS
<1>2. DOMAIN place = Requests /\ DOMAIN place' = Requests
  BY DEF place
<1> QED BY <1>1, <1>2 DEF place, Status

\* Every request has one of the pool's places.
LEMMA PlaceType ==
    ASSUME status \in [Requests -> Status]
    PROVE  place \in [Requests -> {"out", "queued", "in"}]
BY DEF place, Status

\* What the pool has left is what is free or in the hand of a release.
LEMMA PoolLeft ==
    ASSUME TypeInv, SlotsConserved
    PROVE  Pool!Left = available + InHand
<1>1. Pool!In(place) = InUse
  BY DEF Pool!In, InUse, With, place, TypeInv, Status
<1>2. /\ Cardinality(InUse) \in Nat /\ available \in Nat /\ InHand \in Nat
      /\ lost \in Nat /\ Slots \in Nat
  BY InUseFinite, SlotsAssumption DEF TypeInv, InHand
<1>3. Pool!Left = Slots - Cardinality(InUse) - lost
  BY <1>1 DEF Pool!Left, Pool!Cardinality, Cardinality
<1> QED BY <1>2, <1>3 DEF SlotsConserved

\* A turn of the loop of `release` admits a queued request, or changes nothing
\* that the callers can see.
LEMMA SendMaps ==
    ASSUME TypeInv, SlotsConserved, lock = "release",
           NEW r \in Queued, Send(r), UNCHANGED lost
    PROVE  Pool!Next \/ UNCHANGED <<place, lost>>
<1>1. /\ r \in Requests /\ status[r] \in {"waiting", "dropped"}
      /\ status \in [Requests -> Status]
  BY DEF Queued, With, TypeInv
<1>2. CASE status[r] = "waiting"
  <2>1. status' = [status EXCEPT ![r] = "sent"] /\ "sent" \in Status
    BY <1>2 DEF Send, Status
  <2>2. place' = [place EXCEPT ![r] = "in"]
    BY <1>1, <2>1, PlaceChange
  <2>3. place[r] = "queued"
    BY <1>1, <1>2 DEF place
  <2>4. Pool!Left > 0
    BY PoolLeft DEF InHand, TypeInv
  <2>5. Pool!Admit(r)
    BY <2>2, <2>3, <2>4 DEF Pool!Admit, Pool!Move
  <2> QED BY <1>1, <2>5 DEF Pool!Next
<1>3. CASE status[r] = "dropped"
  <2>1. status' = [status EXCEPT ![r] = "idle"] /\ "idle" \in Status
    BY <1>3 DEF Send, Status
  <2>2. place' = [place EXCEPT ![r] = "out"]
    BY <1>1, <2>1, PlaceChange
  <2>3. place[r] = "out"
    BY <1>1, <1>3 DEF place
  <2>4. place' = place
    BY <1>1, <2>2, <2>3, PlaceType
  <2> QED BY <2>4
<1> QED BY <1>1, <1>2, <1>3

\* A new limiter is a pool nobody is in.
LEMMA InitMaps == Init => Pool!Init
BY DEF Init, Pool!Init, place

\* Every step of the limiter is a step of the pool or invisible in it.
LEMMA NextMaps ==
    ASSUME IInv, [Next]_vars
    PROVE  Pool!Next \/ UNCHANGED <<place, lost>>
<1>1. /\ TypeInv /\ SlotsConserved /\ status \in [Requests -> Status]
      /\ available \in Nat /\ InHand \in Nat /\ Pool!Left = available + InHand
  BY PoolLeft DEF IInv, TypeInv, InHand
<1>2. ASSUME NEW r \in Requests, AcquireNow(r) PROVE Pool!Next
  <2>1. status' = [status EXCEPT ![r] = "holding"] /\ "holding" \in Status
    BY <1>2 DEF AcquireNow, Status
  <2>2. place' = [place EXCEPT ![r] = "in"] /\ place[r] = "out"
    BY <1>1, <1>2, <2>1, PlaceChange DEF AcquireNow, place
  <2>3. Pool!Left > 0 /\ lost' = lost
    BY <1>1, <1>2 DEF AcquireNow
  <2>4. Pool!Enter(r)
    BY <2>2, <2>3 DEF Pool!Enter, Pool!Move
  <2> QED BY <2>4 DEF Pool!Next
<1>3. ASSUME NEW r \in Requests, QueueRealtime(r) \/ QueueOffline(r) PROVE Pool!Next
  <2>1. status' = [status EXCEPT ![r] = "waiting"] /\ "waiting" \in Status
    BY <1>3 DEF QueueRealtime, QueueOffline, Status
  <2>2. place' = [place EXCEPT ![r] = "queued"]
    BY <1>1, <2>1, PlaceChange
  <2>3. place[r] = "out"
    BY <1>3 DEF QueueRealtime, QueueOffline, MustWait, place
  <2>4. available = 0 /\ InHand = 0
    BY <1>1, <1>3 DEF QueueRealtime, QueueOffline, MustWait, IInv, NoIdleSlotWhileQueued, InHand
  <2>5. lost' = lost
    BY <1>3 DEF QueueRealtime, QueueOffline
  <2>6. Pool!Queue(r)
    BY <1>1, <2>2, <2>3, <2>4, <2>5 DEF Pool!Queue, Pool!Move
  <2> QED BY <2>6 DEF Pool!Next
<1>4. ASSUME NEW r \in Requests, Poll(r) PROVE UNCHANGED <<place, lost>>
  <2>1. status' = [status EXCEPT ![r] = "holding"] /\ "holding" \in Status
    BY <1>4 DEF Poll, Status
  <2>2. place' = [place EXCEPT ![r] = "in"]
    BY <1>1, <2>1, PlaceChange
  <2>3. place[r] = "in"
    BY <1>4 DEF Poll, place
  <2>4. place' = place
    BY <1>1, <2>2, <2>3, PlaceType
  <2> QED BY <1>4, <2>4 DEF Poll
<1>5. ASSUME NEW r \in Requests, DropPermit(r) PROVE Pool!Next
  <2>1. status' = [status EXCEPT ![r] = "idle"] /\ "idle" \in Status
    BY <1>5 DEF DropPermit, Status
  <2>2. place' = [place EXCEPT ![r] = "out"]
    BY <1>1, <2>1, PlaceChange
  <2>3. place[r] = "in" /\ lost' = lost
    BY <1>5 DEF DropPermit, place
  <2> QED BY <2>2, <2>3 DEF Pool!Next, Pool!Leave, Pool!Move
<1>6. ASSUME NEW r \in Requests, CancelWaiting(r) PROVE Pool!Next
  <2>1. status' = [status EXCEPT ![r] = "dropped"] /\ "dropped" \in Status
    BY <1>6 DEF CancelWaiting, Status
  <2>2. place' = [place EXCEPT ![r] = "out"]
    BY <1>1, <2>1, PlaceChange
  <2>3. place[r] = "queued" /\ lost' = lost
    BY <1>6 DEF CancelWaiting, place
  <2> QED BY <2>2, <2>3 DEF Pool!Next, Pool!GiveUp, Pool!Move
<1>7. ASSUME NEW r \in Requests, CancelSent(r) PROVE Pool!Next
  <2>1. status' = [status EXCEPT ![r] = "idle"] /\ "idle" \in Status
    BY <1>7 DEF CancelSent, Status
  <2>2. place' = [place EXCEPT ![r] = "out"]
    BY <1>1, <2>1, PlaceChange
  <2>3. place[r] = "in" /\ lost' = lost + 1
    BY <1>7 DEF CancelSent, place
  <2> QED BY <2>2, <2>3 DEF Pool!Next, Pool!Vanish, Pool!Move
<1>8. CASE PassToOffline
  <2>1. offline \in Seq(Requests) /\ offline # <<>> /\ Distinct(offline)
    BY <1>8 DEF PassToOffline, PreferOffline, IInv, TypeInv, QueuesHoldWaiters
  <2>2. Head(offline) \in Queued
    BY <2>1, TailMembers DEF IInv, QueuesHoldWaiters
  <2> QED BY <1>1, <1>8, <2>2, SendMaps DEF PassToOffline
<1>9. CASE PassToRealtime
  <2>1. realtime \in Seq(Requests) /\ realtime # <<>> /\ Distinct(realtime)
    BY <1>9 DEF PassToRealtime, IInv, TypeInv, QueuesHoldWaiters
  <2>2. Head(realtime) \in Queued
    BY <2>1, TailMembers DEF IInv, QueuesHoldWaiters
  <2> QED BY <1>1, <1>9, <2>2, SendMaps DEF PassToRealtime
<1>10. CASE ReturnSlot
  BY <1>10 DEF ReturnSlot, place
<1>11. CASE UNCHANGED vars
  BY <1>11 DEF vars, place
<1> QED BY <1>2, <1>3, <1>4, <1>5, <1>6, <1>7, <1>8, <1>9, <1>10, <1>11
        DEF Next, Acquire, Release

\* Callers of the limiter may rely on the permit pool: a request is queued only
\* while every slot is taken and admitted only into one that is not, whatever
\* the queues, the lock and the burst counter do.
THEOREM LimiterIsAPool == Spec => ImplementsPool
<1>1. Init => Pool!Init
  BY InitMaps
<1>2. IInv /\ [Next]_vars => [Pool!Next]_<<place, lost>>
  BY NextMaps
<1> QED BY <1>1, <1>2, Invariance, PTL DEF Spec, ImplementsPool, Pool!Spec
=============================================================================
