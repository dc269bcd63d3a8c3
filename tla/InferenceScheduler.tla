------------------------- MODULE InferenceScheduler -------------------------
(***************************************************************************)
(* One PriorityLimiter of apps/xrtranslate-backend/src/scheduler.rs: the   *)
(* process-wide permit pool that admits ASR or translation work of every   *)
(* session.  Realtime requests go first, but after BurstLimit of them in a *)
(* row one offline request is let through.                                 *)
(*                                                                         *)
(* A request is one call of `acquire`.  It is polled, cancelled (its       *)
(* future dropped) and answered independently of the others.  The state    *)
(* behind the mutex changes in the actions that take `lock`; receiving and *)
(* dropping a oneshot channel needs no lock, so Poll and the Cancel        *)
(* actions may fall between two iterations of the loop in `release`.       *)
(***************************************************************************)
EXTENDS Naturals, Sequences, FiniteSets

CONSTANTS
    Requests,    \* calls of `acquire` that may be outstanding together
    Slots,       \* configured number of permits
    BurstLimit   \* REALTIME_BURST_LIMIT (8 in the code)

ASSUME RequestsAssumption == IsFiniteSet(Requests)
ASSUME SlotsAssumption == Slots \in Nat \ {0}        \* assert!(slots > 0)
ASSUME BurstAssumption == BurstLimit \in Nat \ {0}

VARIABLES
    available,   \* LimiterState.available
    burst,       \* LimiterState.realtime_burst, see Burst below
    realtime,    \* LimiterState.realtime: the senders, oldest first
    offline,     \* LimiterState.offline
    lock,        \* "free", or "release" while a call of `release` is inside
    status,      \* what became of each request
    lost,        \* history: permits sent to a receiver dropped before it read
    overtaken    \* history: entries of the other class popped since the
                 \* present head of each queue became its head

vars == <<available, burst, realtime, offline, lock, status, lost, overtaken>>

\* idle     no future exists, or it is finished
\* waiting  the future awaits its oneshot receiver
\* sent     the permit is in the channel, the future has not been polled yet
\* holding  an InferencePermit exists
\* dropped  the future is gone but its sender is still queued
Status == {"idle", "waiting", "sent", "holding", "dropped"}

TypeOK ==
    /\ available \in 0..Slots
    /\ burst \in 0..BurstLimit
    /\ realtime \in Seq(Requests)
    /\ offline \in Seq(Requests)
    /\ lock \in {"free", "release"}
    /\ status \in [Requests -> Status]
    /\ lost \in 0..Slots
    /\ overtaken \in [{"realtime", "offline"} -> Nat]

Init ==
    /\ available = Slots
    /\ burst = 0
    /\ realtime = <<>>
    /\ offline = <<>>
    /\ lock = "free"
    /\ status = [r \in Requests |-> "idle"]
    /\ lost = 0
    /\ overtaken = [q \in {"realtime", "offline"} |-> 0]

-----------------------------------------------------------------------------
(* acquire *)

\* Mutant: the fast path does not count the slot it hands out.
AcquireNowUncounted(r) ==
    /\ status[r] = "idle"
    /\ lock = "free"
    /\ available > 0 /\ realtime = <<>>
    /\ status' = [status EXCEPT ![r] = "holding"]
    /\ UNCHANGED <<available, burst, realtime, offline, lock, lost, overtaken>>

\* Mutant: the fast path looks at the realtime queue alone.
AcquireNowUnguarded(r) ==
    /\ status[r] = "idle"
    /\ lock = "free"
    /\ realtime = <<>>
    /\ available' = IF available > 0 THEN available - 1 ELSE 0
    /\ status' = [status EXCEPT ![r] = "holding"]
    /\ UNCHANGED <<burst, realtime, offline, lock, lost, overtaken>>

\* A slot is free and no realtime request waits: the permit is immediate.
AcquireNow(r) ==
    /\ status[r] = "idle"
    /\ lock = "free"
    /\ available > 0 /\ realtime = <<>>
    /\ available' = available - 1
    /\ status' = [status EXCEPT ![r] = "holding"]
    /\ UNCHANGED <<burst, realtime, offline, lock, lost, overtaken>>

MustWait(r) ==
    /\ status[r] = "idle"
    /\ lock = "free"
    /\ ~(available > 0 /\ realtime = <<>>)

QueueRealtime(r) ==
    /\ MustWait(r)
    /\ realtime' = Append(realtime, r)
    /\ status' = [status EXCEPT ![r] = "waiting"]
    /\ overtaken' = [overtaken EXCEPT !["realtime"] = IF realtime = <<>> THEN 0 ELSE @]
    /\ UNCHANGED <<available, burst, offline, lock, lost>>

QueueOffline(r) ==
    /\ MustWait(r)
    /\ offline' = Append(offline, r)
    /\ status' = [status EXCEPT ![r] = "waiting"]
    /\ overtaken' = [overtaken EXCEPT !["offline"] = IF offline = <<>> THEN 0 ELSE @]
    /\ UNCHANGED <<available, burst, realtime, lock, lost>>

\* The queued future finds its permit in the channel.
Poll(r) ==
    /\ status[r] = "sent"
    /\ status' = [status EXCEPT ![r] = "holding"]
    /\ UNCHANGED <<available, burst, realtime, offline, lock, lost, overtaken>>

-----------------------------------------------------------------------------
(* release: Drop of a permit, then one action per turn of its loop *)

DropPermit(r) ==
    /\ status[r] = "holding"
    /\ lock = "free"
    /\ status' = [status EXCEPT ![r] = "idle"]
    /\ lock' = "release"
    /\ UNCHANGED <<available, burst, realtime, offline, lost, overtaken>>

PreferOffline ==
    /\ offline # <<>>
    /\ realtime = <<>> \/ burst >= BurstLimit

\* Mutant: the loop ends after the first send, whether it succeeds or not.
SendOnce(r) ==
    /\ status' = [status EXCEPT ![r] = IF status[r] = "waiting" THEN "sent" ELSE "idle"]
    /\ lock' = "free"

\* `next.send(())`: succeeds, and ends the loop, iff the receiver still exists.
Send(r) ==
    IF status[r] = "waiting"
    THEN /\ status' = [status EXCEPT ![r] = "sent"]
         /\ lock' = "free"
    ELSE /\ status' = [status EXCEPT ![r] = "idle"]
         /\ lock' = lock

\* Mutant: the burst is not reset, so offline work goes on being preferred.
PassToOfflineKeepsBurst ==
    /\ lock = "release"
    /\ PreferOffline
    /\ offline' = Tail(offline)
    /\ Send(Head(offline))
    /\ overtaken' = [realtime |-> overtaken["realtime"] + (IF realtime = <<>> THEN 0 ELSE 1),
                     offline |-> 0]
    /\ UNCHANGED <<available, burst, realtime, lost>>

PassToOffline ==
    /\ lock = "release"
    /\ PreferOffline
    /\ burst' = 0
    /\ offline' = Tail(offline)
    /\ Send(Head(offline))
    /\ overtaken' = [realtime |-> overtaken["realtime"] + (IF realtime = <<>> THEN 0 ELSE 1),
                     offline |-> 0]
    /\ UNCHANGED <<available, realtime, lost>>

\* realtime_burst is only ever reset or compared with BurstLimit, so the
\* counter is kept up to that value.
Burst(n) == IF n < BurstLimit THEN n + 1 ELSE n

PassToRealtime ==
    /\ lock = "release"
    /\ ~PreferOffline
    /\ realtime # <<>>
    /\ burst' = Burst(burst)
    /\ realtime' = Tail(realtime)
    /\ Send(Head(realtime))
    /\ overtaken' = [realtime |-> 0,
                     offline |-> overtaken["offline"] + (IF offline = <<>> THEN 0 ELSE 1)]
    /\ UNCHANGED <<available, offline, lost>>

\* Mutant: the slot is returned as soon as no realtime request waits.
ReturnSlotEarly ==
    /\ lock = "release"
    /\ realtime = <<>>
    /\ burst' = 0
    /\ available' = available + 1
    /\ lock' = "free"
    /\ UNCHANGED <<realtime, offline, status, lost, overtaken>>

ReturnSlot ==
    /\ lock = "release"
    /\ realtime = <<>> /\ offline = <<>>
    /\ burst' = 0
    /\ available' = available + 1
    /\ lock' = "free"
    /\ UNCHANGED <<realtime, offline, status, lost, overtaken>>

-----------------------------------------------------------------------------
(* Cancellation: the future returned by `acquire` is dropped.  The backend  *)
(* does this when it aborts the worker of a closed connection, and when a   *)
(* translation batch of an old generation stops polling its stream.         *)

CancelWaiting(r) ==
    /\ status[r] = "waiting"
    /\ status' = [status EXCEPT ![r] = "dropped"]
    /\ UNCHANGED <<available, burst, realtime, offline, lock, lost, overtaken>>

\* The unit value in the channel is dropped with the receiver; no
\* InferencePermit was built from it, so nothing calls `release`.
CancelSent(r) ==
    /\ status[r] = "sent"
    /\ status' = [status EXCEPT ![r] = "idle"]
    /\ lost' = lost + 1
    /\ UNCHANGED <<available, burst, realtime, offline, lock, overtaken>>

-----------------------------------------------------------------------------
Acquire(r) == AcquireNow(r) \/ QueueRealtime(r) \/ QueueOffline(r)

Release == PassToOffline \/ PassToRealtime \/ ReturnSlot

Next ==
    \/ \E r \in Requests : \/ Acquire(r)
                           \/ Poll(r)
                           \/ DropPermit(r)
                           \/ CancelWaiting(r)
                           \/ CancelSent(r)
    \/ Release

Spec == Init /\ [][Next]_vars

\* A woken future is polled, an admitted inference call ends (it has a
\* response or a transport error) and a call of `release` runs to its end.
\* Nothing forces a request to be made or cancelled.
FairSpec ==
    /\ Spec
    /\ WF_vars(Release)
    /\ \A r \in Requests : WF_vars(Poll(r)) /\ SF_vars(DropPermit(r))

-----------------------------------------------------------------------------
(* Properties *)

With(s) == {r \in Requests : status[r] = s}

InUse == With("holding") \cup With("sent")

\* Requests whose sender is queued, their future alive or not
Queued == With("waiting") \cup With("dropped")

InHand == IF lock = "release" THEN 1 ELSE 0

\* Permits are neither invented nor forgotten: the free ones, those of live
\* requests, the one a release is handing on and those lost to a cancelled
\* receiver add up to the configured number.  In particular the admitted work
\* never exceeds it (`configured_slot_limit_is_never_exceeded`).
SlotsConserved ==
    available + Cardinality(InUse) + InHand + lost = Slots

\* No slot is free while a request is queued: the fast path of acquire tests
\* the realtime queue only, yet no offline request can be passed by it.
NoIdleSlotWhileQueued ==
    available > 0 => realtime = <<>> /\ offline = <<>>

\* The queues hold each request at most once, and exactly those whose sender
\* has not been used: a permit is never sent to a request that has one.
Members(queue) == {queue[i] : i \in DOMAIN queue}

Distinct(queue) == \A i, j \in DOMAIN queue : queue[i] = queue[j] => i = j

QueuesHoldWaiters ==
    /\ Distinct(realtime) /\ Distinct(offline)
    /\ Members(realtime) \cap Members(offline) = {}
    /\ Members(realtime) \cup Members(offline) = Queued

\* The head of the offline queue is passed by at most BurstLimit realtime
\* requests, however long the realtime queue is kept full
\* (`offline_work_runs_after_a_bounded_realtime_burst`), and the head of the
\* realtime queue by at most one offline request.
BoundedOvertaking ==
    /\ offline # <<>> => overtaken["offline"] <= BurstLimit
    /\ realtime # <<>> => overtaken["realtime"] <= 1

\* Every queued request gets its permit (or is cancelled) unless all the
\* permits have been lost.
QueuedIsServed ==
    \A r \in Requests :
        (status[r] = "waiting") ~> (status[r] # "waiting" \/ lost = Slots)

\* The capacity of the scheduler is the configured one: every slot is free, in
\* use or on its way to the next request.
ConfiguredCapacityKept ==
    available + Cardinality(InUse) + InHand = Slots

\* The pool the callers see.  A dropped request is out of it although its
\* sender is still queued.
place == [r \in Requests |->
             CASE status[r] \in {"idle", "dropped"} -> "out"
               [] status[r] = "waiting" -> "queued"
               [] status[r] \in {"sent", "holding"} -> "in"]

Pool == INSTANCE PermitPool WITH gone <- lost

\* The limiter implements the pool: work is queued only when every slot is
\* taken, and admitted only into a slot that is not.
ImplementsPool == Pool!Spec
=============================================================================
