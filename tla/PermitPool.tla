----------------------------- MODULE PermitPool -----------------------------
(***************************************************************************)
(* What the inference scheduler promises its callers, without its queues,  *)
(* its lock and its burst counter: a pool of Slots permits.  Work enters   *)
(* at once while a permit is left, is queued only when none is, and is     *)
(* admitted later in some order.  Slots may be lost for good, by an        *)
(* admitted request that vanishes without giving its permit back.          *)
(***************************************************************************)
EXTENDS Naturals, FiniteSets

CONSTANTS Requests, Slots

VARIABLES
    place,   \* "out", "queued" or "in", for each request
    gone     \* number of slots lost

In(p) == {r \in Requests : p[r] = "in"}

Left == Slots - Cardinality(In(place)) - gone

Init ==
    /\ place = [r \in Requests |-> "out"]
    /\ gone = 0

Move(r, from, to) ==
    /\ place[r] = from
    /\ place' = [place EXCEPT ![r] = to]

Enter(r) == Left > 0 /\ Move(r, "out", "in") /\ UNCHANGED gone

Queue(r) == Left = 0 /\ Move(r, "out", "queued") /\ UNCHANGED gone

Admit(r) == Left > 0 /\ Move(r, "queued", "in") /\ UNCHANGED gone

Leave(r) == Move(r, "in", "out") /\ UNCHANGED gone

GiveUp(r) == Move(r, "queued", "out") /\ UNCHANGED gone

Vanish(r) == Move(r, "in", "out") /\ gone' = gone + 1

Next ==
    \E r \in Requests :
        Enter(r) \/ Queue(r) \/ Admit(r) \/ Leave(r) \/ GiveUp(r) \/ Vanish(r)

Spec == Init /\ [][Next]_<<place, gone>>
=============================================================================
