------------------------- MODULE ModelTasks_proofs -------------------------
(***************************************************************************)
(* The lock of a package is exclusive, and a package is activated whole,   *)
(* for every set of packages, files and processes, whatever they are asked *)
(* to do and wherever they are killed; and an installation that is left    *)
(* alone succeeds, whatever those before it left behind.                   *)
(***************************************************************************)
EXTENDS ModelTasks, TLAPS

Places ==
    {"idle", "look", "lock", "clear", "sweep", "prune", "fetch", "verify", "activate",
     "files", "unlock", "done"}

Sweeps ==
    [pkg : Packages \cup {"none"}, files : SUBSET Files,
     dir : {"none", "staging", "active", "gone"}, next : {"none", "fetch", "files", "done"}]

Operations ==
    [pc : Places, op : {"none", "install", "remove", "clear"},
     pkg : Packages \cup {"none"}, file : Nat \ {0}, sweep : Sweeps,
     cancelled : BOOLEAN, alone : BOOLEAN, result : {"none", "ok", "error", "cancelled"}]

\* The places of an operation at which it holds the lock of its package
Locked(o) ==
    \/ o.pc \in {"prune", "fetch", "verify", "activate", "files", "unlock"}
    \/ o.pc = "sweep" /\ o.sweep.next \in {"fetch", "files"}
    \/ o.pc = "clear" /\ o.op = "remove"

\* The files of a package that operation o has found whole
Checked(o) == {f \in Files : o.pc = "activate" \/ (o.pc = "verify" /\ f < o.file)}

StagedFile(k, f) == IF staging[k] = Missing THEN "absent" ELSE staging[k][f]

\* Operation o of p holds the lock it thinks it has, and what it has checked is
\* still whole, unless somebody without the lock swept it.
Sound(p, o) ==
    /\ o \in Operations
    /\ o.pc # "idle" => o.pkg \in Packages
    /\ o.pc = "sweep" => o.sweep.pkg \in Packages /\ o.sweep.next # "none"
    /\ Locked(o) => lock[o.pkg] = p
    /\ o.pkg \notin seen.raced => \A f \in Checked(o) : StagedFile(o.pkg, f) = "whole"

IInv ==
    /\ DOMAIN staging = Packages /\ DOMAIN active = Packages
    /\ lock \in [Packages -> Processes \cup {"free", "stale"}]
    /\ seen \in [crashes : Nat, raced : SUBSET Packages]
    /\ proc \in [Processes -> Operations]
    /\ \A p \in Processes : Sound(p, proc[p])

\* What the invariant looks at in an operation
Alike(o, r) ==
    /\ o.pc = r.pc /\ o.op = r.op /\ o.pkg = r.pkg /\ o.file = r.file
    /\ o.sweep.pkg = r.sweep.pkg /\ o.sweep.next = r.sweep.next

-----------------------------------------------------------------------------
(* What the operators of PackageInstall make of an operation *)

LEMMA GotoFacts ==
    ASSUME NEW p, proc[p] \in Operations, NEW pc \in Places
    PROVE  /\ Goto(p, pc) \in Operations /\ Goto(p, pc).pc = pc
           /\ Goto(p, pc).op = proc[p].op /\ Goto(p, pc).pkg = proc[p].pkg
           /\ Goto(p, pc).sweep = proc[p].sweep /\ Goto(p, pc).file = 1
<1>1. 1 \in Nat \ {0}
  OBVIOUS
<1> QED BY <1>1 DEF Goto, Operations

LEMMA ReleaseFacts ==
    ASSUME NEW p, proc[p] \in Operations, NEW result \in {"ok", "error"}
    PROVE  /\ Release(p, result) \in Operations /\ Release(p, result).pc = "unlock"
           /\ Release(p, result).pkg = proc[p].pkg
<1> DEFINE unlock == Goto(p, "unlock")
<1>1. unlock \in Operations /\ unlock.pc = "unlock" /\ unlock.pkg = proc[p].pkg
  BY GotoFacts DEF Places
<1>2. Release(p, result) = [unlock EXCEPT !.result = result]
  BY DEF Release
<1> HIDE DEF unlock
<1> QED BY <1>1, <1>2 DEF Operations

LEMMA FailsFacts ==
    ASSUME NEW p, proc[p] \in Operations
    PROVE  /\ Fails(p) \in Operations /\ Fails(p).pc = "unlock"
           /\ Fails(p).pkg = proc[p].pkg
<1> DEFINE released == Release(p, "error")
<1>1. /\ released \in Operations /\ released.pc = "unlock"
      /\ released.pkg = proc[p].pkg
  BY ReleaseFacts
<1>2. Fails(p) = [released EXCEPT !.alone = FALSE]
  BY DEF Fails
<1> HIDE DEF released
<1> QED BY <1>1, <1>2 DEF Operations

LEMMA OutcomeFacts ==
    ASSUME NEW p, proc[p] \in Operations,
           NEW result \in {"none", "ok", "error", "cancelled"}
    PROVE  /\ Outcome(p, result) \in Operations
           /\ Outcome(p, result).pkg = proc[p].pkg
           /\ \/ Outcome(p, result).pc = "done"
              \/ Outcome(p, result).pc = "clear" /\ Outcome(p, result).op = "install"
<1> DEFINE clear == Goto(p, "clear")
           done == Goto(p, "done")
<1>1. /\ clear \in Operations /\ clear.pc = "clear" /\ clear.pkg = proc[p].pkg
      /\ clear.op = proc[p].op
      /\ done \in Operations /\ done.pc = "done" /\ done.pkg = proc[p].pkg
  BY GotoFacts DEF Places
<1>2. \/ /\ proc[p].op = "install"
         /\ Outcome(p, result) = [clear EXCEPT !.result = "cancelled"]
      \/ Outcome(p, result) = [done EXCEPT !.result = result]
  BY DEF Outcome
<1> HIDE DEF clear, done
<1> QED BY <1>1, <1>2 DEF Operations

LEMMA NextFacts ==
    ASSUME NEW p, proc[p] \in Operations
    PROVE  /\ Next1(p) \in Operations /\ Next1(p).pc = proc[p].pc
           /\ Next1(p).op = proc[p].op /\ Next1(p).pkg = proc[p].pkg
           /\ Next1(p).sweep = proc[p].sweep /\ Next1(p).file = proc[p].file + 1
BY DEF Next1, Operations

LEMMA NoSweepIsSweep == NoSweep \in Sweeps
BY DEF NoSweep, Sweeps

LEMMA NoOperationFacts == NoOperation \in Operations /\ NoOperation.pc = "idle"
BY NoSweepIsSweep DEF NoOperation, Operations, Places

LEMMA SweepingFacts ==
    ASSUME NEW p, proc[p] \in Operations, NEW k \in Packages,
           NEW next \in {"fetch", "files", "done"}
    PROVE  /\ Sweeping(p, k, next) \in Operations
           /\ Sweeping(p, k, next).pc = "sweep"
           /\ Sweeping(p, k, next).pkg = proc[p].pkg
           /\ Sweeping(p, k, next).sweep.pkg = k
           /\ Sweeping(p, k, next).sweep.next = next
<1> DEFINE sweep == [pkg |-> k, dir |-> "staging", next |-> next,
                     files |-> {f \in Files : staging[k][f] # "absent"}]
<1>1. sweep \in Sweeps /\ sweep.pkg = k /\ sweep.next = next
  BY DEF Sweeps
<1>2. Sweeping(p, k, next) = [proc[p] EXCEPT !.pc = "sweep", !.sweep = sweep]
  BY DEF Sweeping
<1> HIDE DEF sweep
<1> QED BY <1>1, <1>2 DEF Operations, Places

LEMMA OperationFacts ==
    ASSUME NEW p, NEW op \in {"install", "remove", "clear"}, NEW k \in Packages
    PROVE  /\ Operation(p, op, k) \in Operations
           /\ Operation(p, op, k).pkg = k
           /\ \/ Operation(p, op, k).pc \in {"look", "lock"}
              \/ Operation(p, op, k).pc = "clear" /\ Operation(p, op, k).op = "clear"
<1> DEFINE alone == Undisturbed(p, k)
<1>1. alone \in BOOLEAN
  BY DEF Undisturbed
<1>2. /\ First(op) \in {"look", "lock", "clear"}
      /\ First(op) = "clear" => op = "clear"
  BY DEF First
<1>3. Operation(p, op, k) =
        [NoOperation EXCEPT !.pc = First(op), !.op = op, !.pkg = k, !.alone = alone]
  BY DEF Operation
<1> HIDE DEF alone
<1> QED BY <1>1, <1>2, <1>3, NoOperationFacts DEF Operations, Places

LEMMA MovedFacts ==
    ASSUME NEW operations \in [Processes -> Operations], NEW k, NEW dir,
           NEW to \in {"active", "gone"}
    PROVE  /\ Moved(operations, k, dir, to) \in [Processes -> Operations]
           /\ \A q \in Processes : Alike(Moved(operations, k, dir, to)[q], operations[q])
<1> SUFFICES ASSUME NEW q \in Processes
             PROVE  /\ Moved(operations, k, dir, to)[q] \in Operations
                    /\ Alike(Moved(operations, k, dir, to)[q], operations[q])
  BY DEF Moved
<1>1. operations[q] \in Operations /\ operations[q].sweep \in Sweeps
  BY DEF Operations
<1> DEFINE sweep == [operations[q].sweep EXCEPT !.dir = to]
<1>2. /\ sweep \in Sweeps /\ sweep.pkg = operations[q].sweep.pkg
      /\ sweep.next = operations[q].sweep.next
  BY <1>1 DEF Sweeps
<1>3. Moved(operations, k, dir, to)[q] \in
        {operations[q], [operations[q] EXCEPT !.sweep = sweep]}
  BY DEF Moved
<1> HIDE DEF sweep
<1> QED BY <1>1, <1>2, <1>3 DEF Operations, Alike

-----------------------------------------------------------------------------
(* A step of process p leaves the operations of others sound *)

LEMMA Others ==
    ASSUME IInv, NEW p \in Processes,
           proc' \in [Processes -> Operations],
           \A q \in Processes \ {p} : Alike(proc'[q], proc[q]),
           DOMAIN staging' = Packages, DOMAIN active' = Packages,
           lock' \in [Packages -> Processes \cup {"free", "stale"}],
           \A q \in Processes \ {p}, k \in Packages : lock[k] = q => lock'[k] = q,
           seen' \in [crashes : Nat, raced : SUBSET Packages],
           seen.raced \subseteq seen'.raced,
           \A k \in Packages \ seen'.raced, f \in Files :
               lock[k] \in Processes \ {p} /\ StagedFile(k, f) = "whole" => StagedFile(k, f)' = "whole",
           Sound(p, proc[p])'
    PROVE  IInv'
<1> SUFFICES ASSUME NEW q \in Processes \ {p} PROVE Sound(q, proc[q])'
  BY DEF IInv
<1> DEFINE o == proc[q]
           r == proc'[q]
<1>1. o \in Operations /\ r \in Operations /\ Alike(r, o) /\ Sound(q, o)
  BY DEF IInv
<1>2. Locked(r) <=> Locked(o)
  BY <1>1 DEF Alike, Locked
<1>3. Checked(r) = Checked(o)
  BY <1>1 DEF Alike, Checked
<1>4. r.pc # "idle" => r.pkg \in Packages
  BY <1>1 DEF Alike, Sound
<1>5. r.pc = "sweep" => r.sweep.pkg \in Packages /\ r.sweep.next # "none"
  BY <1>1 DEF Alike, Sound
<1>6. Locked(r) => r.pc # "idle"
  BY DEF Locked
<1>7. Locked(r) => lock[r.pkg] = q /\ lock'[r.pkg] = q
  BY <1>1, <1>2, <1>4, <1>6 DEF Alike, Sound
<1>8. ASSUME NEW k, k = r.pkg, k \notin seen'.raced, NEW f \in Checked(r)
      PROVE  StagedFile(k, f)' = "whole"
  <2>1. f \in Files /\ Locked(r)
    BY <1>8 DEF Checked, Locked
  <2>2. k \in Packages /\ lock[k] \in Processes \ {p}
    BY <1>4, <1>6, <1>7, <1>8, <2>1
  <2>3. k \notin seen.raced /\ k = o.pkg
    BY <1>1, <1>8 DEF Alike
  <2>4. StagedFile(k, f) = "whole"
    BY <1>1, <1>3, <1>8, <2>3 DEF Sound
  <2> QED BY <1>8, <2>1, <2>2, <2>4
<1>9. ASSUME r.pkg \notin seen'.raced, NEW f \in Checked(r)
      PROVE  (IF staging'[r.pkg] = Missing THEN "absent" ELSE staging'[r.pkg][f]) = "whole"
  BY <1>8, <1>9 DEF StagedFile
<1> QED BY <1>1, <1>4, <1>5, <1>7, <1>9 DEF Sound, Checked, Locked, StagedFile

\* A step that changes nothing but its own operation
LEMMA Private ==
    ASSUME IInv, NEW p \in Processes, NEW o \in Operations,
           Becomes(p, o), UNCHANGED <<staging, active, lock, seen>>,
           Sound(p, o)
    PROVE  IInv'
<1>1. proc' \in [Processes -> Operations] /\ proc'[p] = o
  BY DEF Becomes, IInv
<1>2. \A q \in Processes \ {p} : Alike(proc'[q], proc[q])
  BY DEF Becomes, IInv, Alike
<1>3. Sound(p, proc[p])'
  BY <1>1 DEF Sound, StagedFile
<1>4. \A k \in Packages, f \in Files : StagedFile(k, f)' = StagedFile(k, f)
  BY DEF StagedFile
<1> QED BY <1>1, <1>2, <1>3, <1>4, Others DEF IInv

\* An operation that has checked nothing is sound if it has its lock.
LEMMA Plain ==
    ASSUME NEW p, NEW o \in Operations, o.pkg \in Packages,
           o.pc \notin {"sweep", "verify", "activate"},
           Locked(o) => lock[o.pkg] = p
    PROVE  Sound(p, o)
BY DEF Sound, Checked

-----------------------------------------------------------------------------
(* The steps of an operation *)

LEMMA Own ==
    ASSUME IInv, NEW p \in Processes, proc[p].pc # "idle"
    PROVE  /\ proc[p] \in Operations /\ Pkg(p) \in Packages
           /\ Locked(proc[p]) => lock[Pkg(p)] = p
BY DEF IInv, Sound, Pkg

\* Steps that only look, or that go to another place
LEMMA QuietWork ==
    ASSUME IInv, NEW p \in Processes,
           \/ Look(p) \/ Prune(p) \/ Clear(p) \/ SweepFails(p)
           \/ FetchFails(p) \/ Fetched(p) \/ RemoveFails(p)
    PROVE  IInv'
<1>1. /\ proc[p] \in Operations /\ Pkg(p) \in Packages
      /\ Locked(proc[p]) => lock[Pkg(p)] = p
      /\ proc[p].pc # "idle"
  <2>1. proc[p].pc # "idle"
    BY DEF Look, Prune, Clear, SweepFails, FetchFails, Fetched, RemoveFails, At
  <2> QED BY <2>1, Own
<1>2. UNCHANGED <<staging, active, lock, seen>>
  BY DEF Look, Prune, Clear, SweepFails, FetchFails, Fetched, RemoveFails, diskVars
<1>3. ASSUME NEW o \in Operations, Becomes(p, o), o.pkg = Pkg(p), Locked(o) => Locked(proc[p]),
             o.pc \notin {"sweep", "verify", "activate"}
      PROVE  IInv'
  <2>1. Sound(p, o)
    BY <1>1, <1>3, Plain
  <2> QED BY <1>2, <1>3, <2>1, Private
<1>4. CASE Look(p)
  <2>1. CASE Becomes(p, Goto(p, "lock"))
    BY <1>1, <1>3, <2>1, GotoFacts DEF Places, Locked, Pkg
  <2>2. ASSUME NEW result \in {"ok", "error"}, Becomes(p, Outcome(p, result))
        PROVE  IInv'
    BY <1>1, <1>3, <2>2, OutcomeFacts DEF Locked, Pkg
  <2>3. \/ Becomes(p, Goto(p, "lock"))
        \/ \E result \in {"ok", "error"} : Becomes(p, Outcome(p, result))
    BY <1>4 DEF Look
  <2> QED BY <2>1, <2>2, <2>3
<1>5. ASSUME NEW k \in Packages, NEW next \in {"fetch", "files", "done"},
             next # "done" => Locked(proc[p]), Becomes(p, Sweeping(p, k, next))
      PROVE  IInv'
  <2> DEFINE o == Sweeping(p, k, next)
  <2>1. /\ o \in Operations /\ o.pc = "sweep" /\ o.pkg = Pkg(p)
        /\ o.sweep.pkg = k /\ o.sweep.next = next
    BY <1>1, SweepingFacts DEF Pkg
  <2> HIDE DEF o
  <2>2. Sound(p, o)
    BY <1>1, <1>5, <2>1 DEF Sound, Locked, Checked
  <2> QED BY <1>2, <1>5, <2>1, <2>2, Private DEF o
<1>6. CASE Prune(p)
  <2>1. Locked(proc[p])
    BY <1>6 DEF Prune, At, Locked
  <2>2. CASE Becomes(p, Goto(p, "fetch"))
    BY <1>1, <1>3, <2>1, <2>2, GotoFacts DEF Places, Pkg
  <2>3. ASSUME NEW l \in Packages, Becomes(p, Sweeping(p, l, "fetch"))
        PROVE  IInv'
    BY <1>5, <2>1, <2>3
  <2> QED BY <1>6, <2>2, <2>3 DEF Prune, Obsolete
<1>7. CASE Clear(p)
  <2> DEFINE next == IF proc[p].op = "remove" THEN "files" ELSE "done"
  <2>1. next # "done" => Locked(proc[p])
    BY <1>7 DEF Clear, At, Locked
  <2>2. CASE Becomes(p, Goto(p, next))
    <3>1. next \in Places
      BY DEF Places
    <3>2. next \in {"files", "done"}
      OBVIOUS
    <3> HIDE DEF next
    <3>3. /\ Goto(p, next) \in Operations /\ Goto(p, next).pc = next
          /\ Goto(p, next).pkg = Pkg(p)
      BY <1>1, <3>1, GotoFacts DEF Pkg
    <3>4. Locked(Goto(p, next)) => Locked(proc[p])
      BY <2>1, <3>2, <3>3 DEF Locked
    <3> QED BY <1>3, <2>2, <3>2, <3>3, <3>4
  <2>3. CASE Becomes(p, Sweeping(p, Pkg(p), next))
    BY <1>1, <1>5, <2>1, <2>3
  <2> QED BY <1>7, <2>2, <2>3 DEF Clear
<1>8. ASSUME Becomes(p, Fails(p)), Locked(proc[p])
      PROVE  IInv'
  BY <1>1, <1>3, <1>8, FailsFacts DEF Pkg
<1>9. CASE SweepFails(p)
  <2> DEFINE failed == SweepFailed(p)
             o == [failed EXCEPT !.sweep = NoSweep]
  <2>1. proc[p].sweep.next \in {"fetch", "files", "done"} /\ At(p, "sweep")
    BY <1>1, <1>9 DEF SweepFails, At, IInv, Sound, Operations, Sweeps
  <2>2. /\ failed \in Operations /\ failed.pkg = Pkg(p)
        /\ failed.pc \in {"done", "unlock"}
        /\ failed.pc = "unlock" => Locked(proc[p])
    <3>1. CASE proc[p].sweep.next = "done"
      <4> DEFINE done == Goto(p, "done")
      <4>1. done \in Operations /\ done.pc = "done" /\ done.pkg = Pkg(p)
        BY <1>1, GotoFacts DEF Places, Pkg
      <4>2. failed = [done EXCEPT !.result = "error"]
        BY <3>1 DEF SweepFailed
      <4> HIDE DEF done
      <4> QED BY <4>1, <4>2 DEF Operations
    <3>2. CASE proc[p].sweep.next # "done"
      BY <1>1, <2>1, <3>2, FailsFacts DEF SweepFailed, Pkg, Locked, At
    <3> QED BY <3>1, <3>2
  <2>3. Becomes(p, o)
    BY <1>9 DEF SweepFails
  <2> HIDE DEF failed
  <2>4. o \in Operations /\ o.pkg = Pkg(p) /\ o.pc = failed.pc
    BY <2>2, NoSweepIsSweep DEF Operations
  <2> HIDE DEF o
  <2>5. Locked(o) => Locked(proc[p])
    BY <2>2, <2>4 DEF Locked
  <2> QED BY <1>3, <2>2, <2>3, <2>4, <2>5
<1>10. CASE FetchFails(p) \/ RemoveFails(p)
  BY <1>8, <1>10 DEF FetchFails, RemoveFails, At, Locked
<1>11. CASE Fetched(p)
  <2> DEFINE o == Goto(p, "verify")
  <2>1. o \in Operations /\ o.pc = "verify" /\ o.pkg = Pkg(p) /\ o.file = 1
    BY <1>1, GotoFacts DEF Places, Pkg
  <2>2. Locked(proc[p]) /\ Becomes(p, o)
    BY <1>11 DEF Fetched, At, Locked
  <2> HIDE DEF o
  <2>3. Checked(o) = {}
    BY <2>1 DEF Checked, Files
  <2>4. Sound(p, o)
    BY <1>1, <2>1, <2>2, <2>3 DEF Sound
  <2> QED BY <1>2, <2>1, <2>2, <2>4, Private
<1> QED BY <1>4, <1>6, <1>7, <1>9, <1>10, <1>11

\* A step that keeps everything on disk but the lock of its package, which only
\* it holds, or takes
LEMMA LockStep ==
    ASSUME IInv, NEW p \in Processes, NEW o \in Operations, Becomes(p, o),
           UNCHANGED <<staging, active, seen>>,
           lock[Pkg(p)] \in {p, "free"}, proc[p].pc # "idle",
           NEW holder \in {p, "free"}, lock' = [lock EXCEPT ![Pkg(p)] = holder],
           o.pkg = Pkg(p), Locked(o) => holder = p,
           o.pc \notin {"sweep", "verify", "activate"}
    PROVE  IInv'
<1>1. Pkg(p) \in Packages
  BY Own
<1>2. lock' \in [Packages -> Processes \cup {"free", "stale"}]
  BY <1>1 DEF IInv
<1>3. \A q \in Processes \ {p}, k \in Packages : lock[k] = q => lock'[k] = q
  BY <1>1, PackageAssumption DEF IInv
<1>4. proc' \in [Processes -> Operations] /\ proc'[p] = o
  BY DEF Becomes, IInv
<1>5. \A q \in Processes \ {p} : Alike(proc'[q], proc[q])
  BY DEF Becomes, IInv, Alike
<1>6. Sound(p, proc[p])'
  BY <1>1, <1>2, <1>4 DEF Sound, Locked, Checked, IInv
<1>7. \A k \in Packages, f \in Files : StagedFile(k, f)' = StagedFile(k, f)
  BY DEF StagedFile
<1> QED BY <1>2, <1>3, <1>4, <1>5, <1>6, <1>7, Others DEF IInv

\* A step that works in staging or at the destination
LEMMA DiskStep ==
    ASSUME IInv, NEW p \in Processes, NEW o \in Operations,
           proc' \in [Processes -> Operations],
           Alike(proc'[p], o),
           \A q \in Processes \ {p} : Alike(proc'[q], proc[q]),
           DOMAIN staging' = Packages, DOMAIN active' = Packages, UNCHANGED lock,
           seen' \in [crashes : Nat, raced : SUBSET Packages],
           seen.raced \subseteq seen'.raced,
           \A k \in Packages \ seen'.raced, f \in Files :
               lock[k] \in Processes \ {p} /\ StagedFile(k, f) = "whole"
                   => StagedFile(k, f)' = "whole",
           o.pkg \in Packages, Locked(o) => lock[o.pkg] = p,
           o.pc = "sweep" => o.sweep.pkg \in Packages /\ o.sweep.next # "none",
           o.pc \notin {"verify", "activate"}
    PROVE  IInv'
<1>1. Sound(p, proc[p])'
  BY DEF Sound, Alike, Locked, Checked
<1> QED BY <1>1, Others DEF IInv

LEMMA LockWork ==
    ASSUME IInv, NEW p \in Processes, Acquire(p) \/ Unlock(p)
    PROVE  IInv'
<1>1. /\ proc[p] \in Operations /\ Pkg(p) \in Packages
      /\ Locked(proc[p]) => lock[Pkg(p)] = p
      /\ proc[p].pc # "idle"
  <2>1. proc[p].pc # "idle"
    BY DEF Acquire, Unlock, At
  <2> QED BY <2>1, Own
<1>2. UNCHANGED <<staging, active, seen>>
  BY DEF Acquire, Unlock
<1>3. CASE Acquire(p)
  <2> DEFINE place == IF proc[p].op = "install" THEN "prune" ELSE "clear"
             o == Goto(p, place)
  <2>1. CASE lock[Pkg(p)] = "free"
    <3>1. lock' = [lock EXCEPT ![Pkg(p)] = p] /\ Becomes(p, o)
      BY <1>3, <2>1 DEF Acquire
    <3>2. o \in Operations /\ o.pkg = Pkg(p) /\ o.pc \in {"prune", "clear"}
      BY <1>1, GotoFacts DEF Places, Pkg
    <3> HIDE DEF o
    <3> QED BY <1>1, <1>2, <2>1, <3>1, <3>2, LockStep
  <2>2. CASE lock[Pkg(p)] # "free"
    <3> DEFINE r == Outcome(p, "error")
    <3>1. Becomes(p, r) /\ UNCHANGED lock
      BY <1>3, <2>2 DEF Acquire
    <3>2. r \in Operations /\ r.pkg = Pkg(p) /\ ~Locked(r) /\ r.pc \in {"done", "clear"}
      BY <1>1, OutcomeFacts DEF Pkg, Locked
    <3> HIDE DEF r
    <3> QED BY <1>1, <1>2, <3>1, <3>2, Plain, Private
  <2> QED BY <2>1, <2>2
<1>4. CASE Unlock(p)
  <2> DEFINE o == Outcome(p, proc[p].result)
  <2>1. /\ lock' = [lock EXCEPT ![Pkg(p)] = "free"] /\ Becomes(p, o)
        /\ lock[Pkg(p)] = p
    BY <1>1, <1>4 DEF Unlock, At, Locked
  <2>2. proc[p].result \in {"none", "ok", "error", "cancelled"}
    BY <1>1 DEF Operations
  <2>3. o \in Operations /\ o.pkg = Pkg(p) /\ ~Locked(o) /\ o.pc \in {"done", "clear"}
    BY <1>1, <2>2, OutcomeFacts DEF Pkg, Locked
  <2> HIDE DEF o
  <2> QED BY <1>1, <1>2, <2>1, <2>3, LockStep
<1> QED BY <1>3, <1>4

LEMMA SweepWork ==
    ASSUME IInv, NEW p \in Processes, SweepFile(p) \/ SweepEnds(p)
    PROVE  IInv'
<1> DEFINE sweep == proc[p].sweep
           k == sweep.pkg
<1>1. /\ proc[p] \in Operations /\ proc[p].pc = "sweep" /\ Pkg(p) \in Packages
      /\ Locked(proc[p]) => lock[Pkg(p)] = p
  BY Own DEF SweepFile, SweepEnds, At
<1>2. /\ k \in Packages /\ sweep \in Sweeps
      /\ sweep.next \in {"fetch", "files", "done"}
  BY <1>1 DEF IInv, Sound, Operations, Sweeps
<1>3. UNCHANGED lock
  BY DEF SweepFile, SweepEnds
<1>4. CASE SweepFile(p)
  <2>1. PICK f \in sweep.files :
          /\ Becomes(p, [proc[p] EXCEPT !.sweep.files = @ \ {f}])
          /\ staging' = IF sweep.dir = "staging"
                        THEN [staging EXCEPT ![k][f] = "absent"] ELSE staging
          /\ active' = IF sweep.dir = "active" THEN [active EXCEPT ![k] = @ \ {f}] ELSE active
          /\ seen' = IF sweep.dir = "active" \/ lock[k] \in Processes \ {p}
                     THEN [seen EXCEPT !.raced = @ \cup {k}] ELSE seen
    BY <1>4 DEF SweepFile
  <2> DEFINE rest == [sweep EXCEPT !.files = @ \ {f}]
             o == [proc[p] EXCEPT !.sweep = rest]
  <2>2. rest \in Sweeps /\ rest.pkg = k /\ rest.next = sweep.next
    BY <1>2 DEF Sweeps
  <2>3. Becomes(p, o)
    BY <1>1, <2>1 DEF Operations
  <2> HIDE DEF rest
  <2>4. /\ o \in Operations /\ o.pc = "sweep" /\ o.pkg = Pkg(p)
        /\ o.sweep.pkg = k /\ o.sweep.next = sweep.next
    BY <1>1, <2>2 DEF Operations, Pkg
  <2> HIDE DEF o, k
  <2>5. /\ proc' \in [Processes -> Operations] /\ Alike(proc'[p], o)
        /\ \A q \in Processes \ {p} : Alike(proc'[q], proc[q])
    BY <2>3, <2>4 DEF Becomes, IInv, Alike
  <2>6. /\ seen' \in [crashes : Nat, raced : SUBSET Packages]
        /\ seen.raced \subseteq seen'.raced
        /\ lock[k] \in Processes \ {p} => k \in seen'.raced
    BY <1>2, <2>1 DEF IInv
  <2>7. DOMAIN staging' = Packages /\ DOMAIN active' = Packages
    BY <2>1 DEF IInv
  <2>8. \A l \in Packages, g \in Files : l # k => StagedFile(l, g)' = StagedFile(l, g)
    BY <2>1 DEF StagedFile, IInv
  <2>9. Locked(o) => lock[o.pkg] = p
    BY <1>1, <2>4 DEF Locked
  <2> QED BY <1>1, <1>2, <1>3, <2>4, <2>5, <2>6, <2>7, <2>8, <2>9, DiskStep
<1>5. CASE SweepEnds(p)
  <2> DEFINE done == Goto(p, sweep.next)
             o == [done EXCEPT !.sweep = NoSweep]
             finished == [proc EXCEPT ![p] = o]
             failed == [SweepFailed(p) EXCEPT !.sweep = NoSweep]
  <2>1. done \in Operations /\ done.pc = sweep.next /\ done.pkg = Pkg(p)
    BY <1>1, <1>2, GotoFacts DEF Places, Pkg
  <2> HIDE DEF done
  <2>2. o \in Operations /\ o.pc = sweep.next /\ o.pkg = Pkg(p)
    BY <2>1, NoSweepIsSweep DEF Operations
  <2> HIDE DEF o
  <2>3. Locked(o) => Locked(proc[p])
    BY <1>1, <1>2, <2>2 DEF Locked
  <2>4. finished \in [Processes -> Operations] /\ finished[p] = o
        /\ \A q \in Processes \ {p} : finished[q] = proc[q]
    BY <2>2 DEF IInv
  <2>5. UNCHANGED <<active, seen>>
    BY <1>5 DEF SweepEnds
  <2>6. CASE staging[k] = Missing
    <3>1. proc' = finished /\ UNCHANGED staging
      <4>1. Missing # Empty
        BY PackageAssumption DEF Empty, FileStates, Files
      <4> QED BY <1>5, <2>6, <4>1 DEF SweepEnds, o, done
    <3>2. \A l \in Packages, g \in Files : StagedFile(l, g)' = StagedFile(l, g)
      BY <3>1 DEF StagedFile
    <3> HIDE DEF finished
    <3> QED BY <1>1, <1>2, <1>3, <2>2, <2>3, <2>4, <2>5, <3>1, <3>2, DiskStep DEF Alike, IInv
  <2>7. CASE staging[k] # Missing /\ staging[k] = Empty
    <3>1. /\ proc' = Moved(finished, k, "staging", "gone")
          /\ staging' = [staging EXCEPT ![k] = Missing]
      BY <1>5, <2>7 DEF SweepEnds, o, done
    <3>2. \A l \in Packages, g \in Files :
            StagedFile(l, g) = "whole" => StagedFile(l, g)' = "whole"
      BY <1>2, <2>7, <3>1 DEF StagedFile, Empty, IInv
    <3>3. DOMAIN staging' = Packages
      BY <3>1 DEF IInv
    <3> HIDE DEF finished
    <3>4. /\ proc' \in [Processes -> Operations]
          /\ \A q \in Processes : Alike(proc'[q], finished[q])
      BY <2>4, <3>1, MovedFacts
    <3> QED BY <1>1, <1>2, <1>3, <2>2, <2>3, <2>4, <2>5, <3>2, <3>3, <3>4, DiskStep DEF IInv
  <2>8. CASE staging[k] # Missing /\ staging[k] # Empty
    <3>1. SweepFails(p)
      BY <1>3, <1>5, <2>5, <2>8 DEF SweepEnds, SweepFails, diskVars
    <3> QED BY <3>1, QuietWork
  <2> QED BY <2>6, <2>7, <2>8
<1> QED BY <1>4, <1>5

\* The files of a package that is fetched change under its lock.
LEMMA FetchWork ==
    ASSUME IInv, NEW p \in Processes, Fetch(p)
    PROVE  IInv'
<1>1. /\ proc[p] \in Operations /\ Pkg(p) \in Packages /\ lock[Pkg(p)] = p
      /\ proc[p].pc = "fetch"
  BY Own DEF Fetch, At, Locked
<1>2. UNCHANGED <<active, lock, seen>>
  BY DEF Fetch
<1>3. CASE Staged(p)[proc[p].file] = "whole"
  <2>1. Becomes(p, Next1(p)) /\ UNCHANGED staging
    BY <1>3 DEF Fetch
  <2>2. Next1(p) \in Operations /\ Next1(p).pc = "fetch" /\ Next1(p).pkg = Pkg(p)
    BY <1>1, NextFacts DEF Pkg
  <2>3. Sound(p, Next1(p))
    BY <1>1, <2>2, Plain
  <2> QED BY <1>2, <2>1, <2>2, <2>3, Private
<1>4. CASE Staged(p)[proc[p].file] # "whole"
  <2>1. PICK files : staging' = [staging EXCEPT ![Pkg(p)] = files]
    BY <1>4 DEF Fetch
  <2>2. UNCHANGED proc
    BY <1>4 DEF Fetch
  <2>3. DOMAIN staging' = Packages
    BY <2>1 DEF IInv
  <2>4. \A k \in Packages, f \in Files : k # Pkg(p) => StagedFile(k, f)' = StagedFile(k, f)
    BY <2>1 DEF StagedFile, IInv
  <2>5. \A q \in Processes : Alike(proc'[q], proc[q])
    BY <2>2 DEF Alike
  <2> QED BY <1>1, <1>2, <2>2, <2>3, <2>4, <2>5, DiskStep DEF IInv, Pkg, Locked
<1> QED BY <1>3, <1>4

\* A verification that goes on has found the files before whole.
LEMMA VerifyWork ==
    ASSUME IInv, NEW p \in Processes, Verify(p)
    PROVE  IInv'
<1>1. /\ proc[p] \in Operations /\ Pkg(p) \in Packages /\ lock[Pkg(p)] = p
      /\ proc[p].pc = "verify" /\ proc[p].file \in Nat \ {0} /\ Sound(p, proc[p])
  BY Own DEF Verify, At, Locked, Operations, IInv
<1>2. UNCHANGED <<staging, active, lock, seen>>
  BY DEF Verify, diskVars
<1>3. \A f \in Files : f < proc[p].file /\ Pkg(p) \notin seen.raced
                          => StagedFile(Pkg(p), f) = "whole"
  BY <1>1 DEF Sound, Checked, Pkg
<1>4. CASE proc[p].file \notin Files
  <2>1. Becomes(p, Goto(p, "activate"))
    BY <1>4 DEF Verify
  <2>2. Goto(p, "activate") \in Operations /\ Goto(p, "activate").pc = "activate"
        /\ Goto(p, "activate").pkg = Pkg(p)
    BY <1>1, GotoFacts DEF Places, Pkg
  <2>3. \A f \in Files : f < proc[p].file
    BY <1>1, <1>4, PackageAssumption DEF Files
  <2>4. Sound(p, Goto(p, "activate"))
    BY <1>1, <1>3, <2>2, <2>3 DEF Sound, Checked
  <2> QED BY <1>2, <2>1, <2>2, <2>4, Private
<1>5. CASE proc[p].file \in Files /\ Staged(p)[proc[p].file] = "whole"
  <2>1. Becomes(p, Next1(p))
    BY <1>5 DEF Verify
  <2>2. /\ Next1(p) \in Operations /\ Next1(p).pc = "verify"
        /\ Next1(p).pkg = Pkg(p) /\ Next1(p).file = proc[p].file + 1
    BY <1>1, NextFacts DEF Pkg
  <2>3. StagedFile(Pkg(p), proc[p].file) = "whole"
    BY <1>5 DEF Staged, StagedFile, Empty
  <2>4. \A f \in Files : f < proc[p].file + 1 => f < proc[p].file \/ f = proc[p].file
    BY <1>1 DEF Files
  <2>5. \A f \in Checked(Next1(p)) : f \in Files /\ f < proc[p].file + 1
    BY <2>2 DEF Checked
  <2>6. Sound(p, Next1(p))
    BY <1>1, <1>3, <2>2, <2>3, <2>4, <2>5 DEF Sound
  <2> QED BY <1>2, <2>1, <2>2, <2>6, Private
<1>6. CASE proc[p].file \in Files /\ Staged(p)[proc[p].file] # "whole"
  <2>1. Becomes(p, Release(p, "error"))
    BY <1>6 DEF Verify
  <2>2. /\ Release(p, "error") \in Operations /\ Release(p, "error").pc = "unlock"
        /\ Release(p, "error").pkg = Pkg(p)
    BY <1>1, ReleaseFacts DEF Pkg
  <2>3. Sound(p, Release(p, "error"))
    BY <1>1, <2>2, Plain
  <2> QED BY <1>2, <2>1, <2>2, <2>3, Private
<1> QED BY <1>4, <1>5, <1>6

\* What is activated was found whole under a lock that nobody else had.
LEMMA ActivateWork ==
    ASSUME IInv, NEW p \in Processes, Activate(p)
    PROVE  /\ IInv'
           /\ \A k \in Packages \ seen'.raced : AtomicFor(k)
<1> DEFINE k == Pkg(p)
<1>1. /\ proc[p] \in Operations /\ k \in Packages /\ lock[k] = p
      /\ proc[p].pc = "activate" /\ Sound(p, proc[p])
  BY Own DEF Activate, At, Locked, IInv
<1>2. UNCHANGED <<lock, seen>>
  BY DEF Activate
<1>3. CASE active[k] # Missing \/ staging[k] = Missing
  <2>1. Becomes(p, Release(p, "error")) /\ UNCHANGED <<staging, active>>
    BY <1>3 DEF Activate
  <2>2. /\ Release(p, "error") \in Operations /\ Release(p, "error").pc = "unlock"
        /\ Release(p, "error").pkg = k
    BY <1>1, ReleaseFacts DEF Pkg
  <2>3. Sound(p, Release(p, "error"))
    BY <1>1, <2>2, Plain
  <2> QED BY <1>2, <2>1, <2>2, <2>3, Private DEF AtomicFor
<1>4. CASE active[k] = Missing /\ staging[k] # Missing
  <2> DEFINE released == [proc EXCEPT ![p] = Release(p, "ok")]
  <2>1. /\ active' = [active EXCEPT ![k] = {f \in Files : staging[k][f] = "whole"}]
        /\ staging' = [staging EXCEPT ![k] = Missing]
        /\ proc' = Moved(released, k, "staging", "active")
    BY <1>4 DEF Activate
  <2>2. /\ Release(p, "ok") \in Operations /\ Release(p, "ok").pc = "unlock"
        /\ Release(p, "ok").pkg = k
    BY <1>1, ReleaseFacts DEF Pkg
  <2>3. /\ released \in [Processes -> Operations] /\ released[p] = Release(p, "ok")
        /\ \A q \in Processes \ {p} : released[q] = proc[q]
    BY <2>2 DEF IInv
  <2> HIDE DEF released
  <2>4. /\ proc' \in [Processes -> Operations]
        /\ \A q \in Processes : Alike(proc'[q], released[q])
    BY <2>1, <2>3, MovedFacts
  <2>5. DOMAIN staging' = Packages /\ DOMAIN active' = Packages
    BY <2>1 DEF IInv
  <2>6. \A l \in Packages, f \in Files : l # k => StagedFile(l, f)' = StagedFile(l, f)
    BY <2>1 DEF StagedFile, IInv
  <2>7. IInv'
    BY <1>1, <1>2, <2>2, <2>3, <2>4, <2>5, <2>6, DiskStep DEF IInv
  <2>8. k \notin seen.raced => active'[k] = Files
    <3>1. k \notin seen.raced => \A f \in Files : StagedFile(k, f) = "whole"
      BY <1>1 DEF Sound, Checked, Pkg
    <3>2. active'[k] = {f \in Files : staging[k][f] = "whole"}
      BY <1>1, <2>1 DEF IInv
    <3> QED BY <1>4, <3>1, <3>2 DEF StagedFile
  <2>9. \A l \in Packages \ {k} : active'[l] = active[l]
    BY <2>1 DEF IInv
  <2> QED BY <1>2, <1>4, <2>7, <2>8, <2>9 DEF AtomicFor
<1> QED BY <1>3, <1>4

LEMMA RemoveWork ==
    ASSUME IInv, NEW p \in Processes, RemoveFile(p) \/ Removed(p)
    PROVE  /\ IInv'
           /\ \A k \in Packages : AtomicFor(k)
<1> DEFINE k == Pkg(p)
<1>1. /\ proc[p] \in Operations /\ k \in Packages /\ lock[k] = p
      /\ At(p, "files") /\ proc[p].pc = "files"
  BY Own DEF RemoveFile, Removed, At, Locked
<1>2. UNCHANGED <<staging, lock, seen>>
  BY DEF RemoveFile, Removed
<1>3. \A l \in Packages, f \in Files : StagedFile(l, f)' = StagedFile(l, f)
  BY <1>2 DEF StagedFile
<1>4. Removing(k)
  BY <1>1 DEF Removing
<1>5. CASE RemoveFile(p)
  <2>1. Becomes(p, Next1(p))
    BY <1>5 DEF RemoveFile
  <2>2. Next1(p) \in Operations /\ Next1(p).pc = "files" /\ Next1(p).pkg = k
    BY <1>1, NextFacts DEF Pkg
  <2>3. /\ proc' \in [Processes -> Operations] /\ Alike(proc'[p], Next1(p))
        /\ \A q \in Processes \ {p} : Alike(proc'[q], proc[q])
    BY <2>1, <2>2 DEF Becomes, IInv, Alike
  <2>4. DOMAIN active' = Packages /\ \A l \in Packages \ {k} : active'[l] = active[l]
    BY <1>5 DEF RemoveFile, IInv
  <2>5. IInv'
    BY <1>1, <1>2, <1>3, <2>2, <2>3, <2>4, DiskStep DEF IInv
  <2> QED BY <1>4, <2>4, <2>5 DEF AtomicFor
<1>6. CASE Removed(p)
  <2> DEFINE released == [proc EXCEPT ![p] = Release(p, "ok")]
  <2>1. /\ Release(p, "ok") \in Operations /\ Release(p, "ok").pc = "unlock"
        /\ Release(p, "ok").pkg = k
    BY <1>1, ReleaseFacts DEF Pkg
  <2>2. /\ released \in [Processes -> Operations] /\ released[p] = Release(p, "ok")
        /\ \A q \in Processes \ {p} : released[q] = proc[q]
    BY <2>1 DEF IInv
  <2>3. proc' \in {released, Moved(released, k, "active", "gone")}
    BY <1>6 DEF Removed
  <2> HIDE DEF released
  <2>4. /\ proc' \in [Processes -> Operations]
        /\ \A q \in Processes : Alike(proc'[q], released[q])
    BY <2>2, <2>3, MovedFacts DEF Alike
  <2>5. DOMAIN active' = Packages /\ \A l \in Packages \ {k} : active'[l] = active[l]
    BY <1>6 DEF Removed, IInv
  <2>6. IInv'
    BY <1>1, <1>2, <1>3, <2>1, <2>2, <2>4, <2>5, DiskStep DEF IInv
  <2> QED BY <1>4, <2>5, <2>6 DEF AtomicFor
<1> QED BY <1>5, <1>6

\* The lock of a process that is killed goes to nobody who works.
LEMMA CrashWork ==
    ASSUME IInv, NEW p \in Processes, Crash(p)
    PROVE  IInv'
<1>1. /\ UNCHANGED <<staging, active>> /\ Becomes(p, NoOperation)
      /\ seen' = [seen EXCEPT !.crashes = @ + 1]
  BY DEF Crash
<1>2. PICK left \in {"free", "stale"} :
        lock' = [k \in Packages |-> IF lock[k] = p THEN left ELSE lock[k]]
  BY PackageAssumption DEF Crash
<1>3. lock' \in [Packages -> Processes \cup {"free", "stale"}]
  BY <1>2 DEF IInv
<1>4. seen' \in [crashes : Nat, raced : SUBSET Packages] /\ seen'.raced = seen.raced
  BY <1>1 DEF IInv
<1>5. /\ proc' \in [Processes -> Operations] /\ proc'[p] = NoOperation
      /\ \A q \in Processes \ {p} : Alike(proc'[q], proc[q])
  BY <1>1, NoOperationFacts DEF Becomes, IInv, Alike
<1>6. Sound(p, proc[p])'
  BY <1>5, NoOperationFacts DEF Sound, Locked, Checked
<1>7. \A k \in Packages, f \in Files : StagedFile(k, f)' = StagedFile(k, f)
  BY <1>1 DEF StagedFile
<1> QED BY <1>1, <1>2, <1>3, <1>4, <1>5, <1>6, <1>7, Others DEF IInv

-----------------------------------------------------------------------------
(* What the tasks add: a new operation, and the end of one *)

LEMMA BeganInv ==
    ASSUME IInv, NEW p \in Processes, NEW op \in {"install", "remove", "clear"},
           NEW k \in Packages, proc' = Began(p, Operation(p, op, k)),
           UNCHANGED <<staging, active, lock, seen>>
    PROVE  IInv'
<1> DEFINE o == Operation(p, op, k)
<1>1. o \in Operations /\ o.pkg \in Packages /\ ~Locked(o)
      /\ o.pc \notin {"sweep", "verify", "activate"}
  BY OperationFacts DEF Locked
<1>2. proc' = [q \in Processes |-> IF q = p THEN o ELSE [proc[q] EXCEPT !.alone = FALSE]]
  BY DEF Began
<1> HIDE DEF o
<1>3. \A q \in Processes : /\ [proc[q] EXCEPT !.alone = FALSE] \in Operations
                            /\ Alike([proc[q] EXCEPT !.alone = FALSE], proc[q])
  <2> TAKE q \in Processes
  <2>1. proc[q] \in Operations
    BY DEF IInv
  <2> QED BY <2>1 DEF Operations, Alike
<1>4. /\ proc' \in [Processes -> Operations] /\ proc'[p] = o
      /\ \A q \in Processes \ {p} : Alike(proc'[q], proc[q])
  BY <1>1, <1>2, <1>3
<1>5. \A l \in Packages, f \in Files : StagedFile(l, f)' = StagedFile(l, f)
  BY DEF StagedFile
<1> QED BY <1>1, <1>4, <1>5, DiskStep DEF Alike, IInv

LEMMA IdleInv ==
    ASSUME IInv, NEW p \in Processes, Becomes(p, NoOperation),
           UNCHANGED <<staging, active, lock, seen>>
    PROVE  IInv'
<1>1. Sound(p, NoOperation)
  BY NoOperationFacts DEF Sound, Locked, Checked
<1> QED BY <1>1, NoOperationFacts, Private

LEMMA UnchangedInv ==
    ASSUME IInv, UNCHANGED vars
    PROVE  IInv'
BY DEF IInv, vars, Sound, Locked, Checked, StagedFile

LEMMA InitInv == Init => IInv
<1> SUFFICES ASSUME Init PROVE IInv
  OBVIOUS
<1>1. PackageInit
  BY DEF Init
<1>2. proc \in [Processes -> Operations] /\ \A p \in Processes : proc[p].pc = "idle"
  BY <1>1, NoOperationFacts DEF PackageInit
<1>3. \A p \in Processes : Sound(p, proc[p])
  BY <1>2 DEF Sound, Locked, Checked
<1> QED BY <1>1, <1>2, <1>3 DEF PackageInit, IInv

LEMMA TaskWork ==
    ASSUME IInv,
           \/ Asks
           \/ \E c \in Clients : \/ Discover(c) \/ InvalidateDiscovery(c)
                                 \/ SwitchWhileInstalling(c) \/ Poll(c) \/ Discovered(c)
           \/ \E p \in Processes : Returns(p)
    PROVE  IInv' /\ UNCHANGED active
<1> USE TaskAssumption
<1>1. CASE Asks
  <2>1. PICK p \in Processes, op \in {"install", "remove", "clear"}, k \in Packages :
          Begin(p, op, k)
    BY <1>1 DEF Asks, Install, Delete, Switch, InstallerRuns, AskFor
  <2> QED BY <2>1, BeganInv DEF Begin, diskVars
<1>2. ASSUME NEW c \in Clients, Discover(c) \/ InvalidateDiscovery(c) \/ Discovered(c)
      PROVE  IInv' /\ UNCHANGED active
  BY <1>2, UnchangedInv DEF Discover, InvalidateDiscovery, Discovered, NoDiskWork, diskVars, vars
<1>3. ASSUME NEW c \in Clients, SwitchWhileInstalling(c)
      PROVE  IInv' /\ UNCHANGED active
  <2> DEFINE o == [proc[c] EXCEPT !.cancelled = TRUE, !.alone = FALSE]
  <2>1. Becomes(c, o) /\ UNCHANGED <<staging, active, lock, seen>>
    BY <1>3 DEF SwitchWhileInstalling, diskVars
  <2>2. proc[c] \in Operations /\ Sound(c, proc[c])
    BY DEF IInv
  <2>3. o \in Operations /\ Alike(o, proc[c])
    BY <2>2 DEF Operations, Alike
  <2> HIDE DEF o
  <2>4. Sound(c, o)
    BY <2>2, <2>3 DEF Sound, Locked, Checked, Alike
  <2> QED BY <2>1, <2>3, <2>4, Private
<1>4. ASSUME NEW c \in Clients, Poll(c)
      PROVE  IInv' /\ UNCHANGED active
  <2>1. UNCHANGED <<staging, active, lock, seen>> /\ proc[c].pc = "done"
    BY <1>4 DEF Poll, Result, diskVars, At
  <2>2. Pkg(c) \in Packages
    BY <2>1, Own
  <2> QED BY <1>4, <2>1, <2>2, BeganInv, IdleInv DEF Poll, Result
<1>5. ASSUME NEW p \in Processes, Returns(p)
      PROVE  IInv' /\ UNCHANGED active
  BY <1>5, IdleInv DEF Returns, diskVars
<1> QED BY <1>1, <1>2, <1>3, <1>4, <1>5

-----------------------------------------------------------------------------
\* Every step keeps the invariant, and enables a package as a whole.
LEMMA StepInv ==
    ASSUME IInv, [Next]_taskVars
    PROVE  IInv' /\ \A k \in Packages \ seen'.raced : AtomicFor(k)
<1>1. CASE UNCHANGED taskVars
  BY <1>1, UnchangedInv DEF taskVars, vars, AtomicFor
<1>2. ASSUME NEW p \in Processes, Works(p) \/ FetchEnds(p)
      PROVE  IInv' /\ \A k \in Packages \ seen'.raced : AtomicFor(k)
  <2>1. CASE \/ Look(p) \/ Prune(p) \/ Clear(p) \/ SweepFails(p)
             \/ FetchFails(p) \/ Fetched(p) \/ RemoveFails(p)
    <3>1. UNCHANGED active
      BY <2>1 DEF Look, Prune, Clear, SweepFails, FetchFails, Fetched, RemoveFails, diskVars
    <3> QED BY <2>1, <3>1, QuietWork DEF AtomicFor
  <2>2. CASE Acquire(p) \/ Unlock(p) \/ SweepEnds(p) \/ Fetch(p) \/ Verify(p)
    <3>1. UNCHANGED active
      BY <2>2 DEF Acquire, Unlock, SweepEnds, Fetch, Verify, diskVars
    <3> QED BY <2>2, <3>1, LockWork, SweepWork, FetchWork, VerifyWork DEF AtomicFor
  <2>3. CASE SweepFile(p)
    <3> DEFINE s == proc[p].sweep
    <3>1. s.dir = "active" => s.pkg \in seen'.raced
      BY <2>3 DEF SweepFile, IInv
    <3>2. \A k \in Packages \ seen'.raced : active'[k] = active[k]
      BY <2>3, <3>1 DEF SweepFile, IInv
    <3> QED BY <2>3, <3>2, SweepWork DEF AtomicFor
  <2>4. CASE Activate(p)
    BY <2>4, ActivateWork
  <2>5. CASE RemoveFile(p) \/ Removed(p)
    BY <2>5, RemoveWork
  <2> QED BY <1>2, <2>1, <2>2, <2>3, <2>4, <2>5 DEF Works, FetchEnds, Work
<1>3. ASSUME NEW p \in Processes, Killed(p)
      PROVE  IInv' /\ \A k \in Packages \ seen'.raced : AtomicFor(k)
  BY <1>3, CrashWork DEF Killed, Crash, AtomicFor
<1>4. CASE \/ Asks
           \/ \E c \in Clients : \/ Discover(c) \/ InvalidateDiscovery(c)
                                 \/ SwitchWhileInstalling(c) \/ Poll(c) \/ Discovered(c)
           \/ \E p \in Processes : Returns(p)
  BY <1>4, TaskWork DEF AtomicFor
<1> QED BY <1>1, <1>2, <1>3, <1>4 DEF Next

\* Each operation holds the lock it relies on, and what it verified stays whole.
THEOREM Invariance == Spec => []IInv
BY InitInv, StepInv, PTL DEF Spec

\* Two operations never hold the lock of a package at once (install.rs,
\* InstallLock), whoever is killed and whatever becomes of its lock.
LockIsExclusive ==
    \A p, q \in Processes :
        Locked(proc[p]) /\ Locked(proc[q]) /\ Pkg(p) = Pkg(q) => p = q

\* The lock file keeps the installations and removals of a package apart.
THEOREM LockExcludes == Spec => []LockIsExclusive
<1>1. IInv => LockIsExclusive
  BY DEF IInv, Sound, LockIsExclusive, Pkg
<1> QED BY <1>1, Invariance, PTL

\* A package that is not swept without its lock appears whole, by one rename, and
\* loses files only to a removal that holds the lock (install.rs, activate and
\* remove_model_asset).
THEOREM ActivationIsAtomic == Spec => UnsweptIsAtomic
<1>1. IInv /\ [Next]_taskVars => [\A k \in Packages \ seen'.raced : AtomicFor(k)]_taskVars
  BY StepInv
<1> QED BY <1>1, Invariance, PTL DEF Spec, UnsweptIsAtomic

-----------------------------------------------------------------------------
(* An installation that is left alone succeeds *)

\* Operation o takes the lock of its package before anything else.
LocksFirst(o) == o.pc \in {"look", "lock"}

\* The other direction: a lock that names a process is held by its operation.  A
\* sweep for another download source takes none.
LocksAreHeld ==
    /\ \A k \in Packages, p \in Processes :
          lock[k] = p => Locked(proc[p]) /\ Pkg(p) = k
    /\ \A p \in Processes : LocksFirst(proc[p]) => proc[p].op \in {"install", "remove"}

\* An installation nobody crosses finds at each place what the place before has
\* left: the destination as it needs it, the lock, the files before its own.
OnItsWay(o) ==
    LET k == o.pkg
    IN /\ ~o.cancelled
       /\ o.pc \in {"look", "lock", "prune", "sweep", "fetch", "verify", "activate",
                    "unlock", "done"}
       /\ o.pc = "look" => active[k] \in {Missing, Files}
       /\ o.pc \in {"look", "lock"} => lock[k] = "free"
       /\ o.pc \in {"lock", "prune", "sweep", "fetch", "verify", "activate"} =>
             active[k] = Missing
       /\ o.pc = "sweep" => o.sweep.next = "fetch" /\ o.sweep.dir # "active"
       /\ o.pc = "fetch" => \A f \in Files : f < o.file => StagedFile(k, f) = "whole"
       /\ o.pc \in {"verify", "activate"} => \A f \in Files : StagedFile(k, f) = "whole"
       /\ o.pc \in {"unlock", "done"} => o.result = "ok" /\ active[k] = Files

Alone(o) == o.alone /\ o.op = "install"

AloneInv ==
    \A p \in Processes : Alone(proc[p]) =>
        /\ \A q \in Processes \ {p} : Quiet(q)
        /\ OnItsWay(proc[p])

\* The handle on a staging directory that a sweep in operation o has
Open(o) ==
    o.sweep.dir = "staging" => o.sweep.pkg \in Packages /\ staging[o.sweep.pkg] # Missing

\* A staging directory holds the states of files, and is there while it is swept.
StagingInv ==
    /\ \A k \in Packages : staging[k] = Missing \/ staging[k] \in [Files -> FileStates]
    /\ \A p \in Processes : Open(proc[p])

RetryInv == IInv /\ StagingInv /\ LocksAreHeld /\ AloneInv

\* What an operation keeps from its beginning to its end
Kept(o, r) == o.op = r.op /\ o.pkg = r.pkg /\ o.alone = r.alone /\ o.cancelled = r.cancelled

-----------------------------------------------------------------------------
LEMMA GotoKeeps ==
    ASSUME NEW p, proc[p] \in Operations, NEW pc \in Places
    PROVE  Kept(Goto(p, pc), proc[p]) /\ Goto(p, pc).result = proc[p].result
BY DEF Goto, Operations, Kept

LEMMA ReleaseKeeps ==
    ASSUME NEW p, proc[p] \in Operations, NEW result \in {"ok", "error"}
    PROVE  Kept(Release(p, result), proc[p]) /\ Release(p, result).result = result
<1> DEFINE unlock == Goto(p, "unlock")
<1>1. unlock \in Operations /\ Kept(unlock, proc[p])
  BY GotoFacts, GotoKeeps DEF Places
<1>2. Release(p, result) = [unlock EXCEPT !.result = result]
  BY DEF Release
<1> HIDE DEF unlock
<1> QED BY <1>1, <1>2 DEF Operations, Kept

LEMMA FailsAlone ==
    ASSUME NEW p, proc[p] \in Operations
    PROVE  Fails(p).alone = FALSE
<1> DEFINE released == Release(p, "error")
<1>1. released \in Operations
  BY ReleaseFacts
<1>2. Fails(p) = [released EXCEPT !.alone = FALSE]
  BY DEF Fails
<1> HIDE DEF released
<1> QED BY <1>1, <1>2 DEF Operations

\* An installation that is not cancelled ends with its result.
LEMMA OutcomeKeeps ==
    ASSUME NEW p, proc[p] \in Operations,
           NEW result \in {"none", "ok", "error", "cancelled"}
    PROVE  /\ Kept(Outcome(p, result), proc[p])
           /\ ~proc[p].cancelled \/ result # "error" =>
                 Outcome(p, result).pc = "done" /\ Outcome(p, result).result = result
<1> DEFINE clear == Goto(p, "clear")
           done == Goto(p, "done")
<1>1. /\ clear \in Operations /\ Kept(clear, proc[p])
      /\ done \in Operations /\ Kept(done, proc[p]) /\ done.pc = "done"
  BY GotoFacts, GotoKeeps DEF Places
<1>2. Outcome(p, result) = IF proc[p].op = "install" /\ proc[p].cancelled /\ result = "error"
                           THEN [clear EXCEPT !.result = "cancelled"]
                           ELSE [done EXCEPT !.result = result]
  BY DEF Outcome
<1> HIDE DEF clear, done
<1> QED BY <1>1, <1>2 DEF Operations, Kept

LEMMA NextKeeps ==
    ASSUME NEW p, proc[p] \in Operations
    PROVE  Kept(Next1(p), proc[p]) /\ Next1(p).result = proc[p].result
BY DEF Next1, Operations, Kept

LEMMA SweepingKeeps ==
    ASSUME NEW p, proc[p] \in Operations, NEW k \in Packages,
           NEW next \in {"fetch", "files", "done"}
    PROVE  Kept(Sweeping(p, k, next), proc[p]) /\ Sweeping(p, k, next).sweep.dir = "staging"
BY DEF Sweeping, Operations, Kept

LEMMA MovedKeeps ==
    ASSUME NEW operations \in [Processes -> Operations], NEW k, NEW dir, NEW to,
           NEW q \in Processes
    PROVE  /\ Kept(Moved(operations, k, dir, to)[q], operations[q])
           /\ Moved(operations, k, dir, to)[q].result = operations[q].result
BY DEF Moved, Operations, Kept

-----------------------------------------------------------------------------
(* The locks *)

\* A step of p that takes no lock, and gives up none without leaving its operation
LEMMA LocksKept ==
    ASSUME IInv, LocksAreHeld, NEW p \in Processes,
           \A q \in Processes \ {p} : Alike(proc'[q], proc[q]),
           \A k \in Packages, q \in Processes \ {p} : lock'[k] = q => lock[k] = q,
           \A k \in Packages : lock'[k] = p => Locked(proc'[p]) /\ proc'[p].pkg = k,
           LocksFirst(proc'[p]) => proc'[p].op \in {"install", "remove"}
    PROVE  LocksAreHeld'
<1>1. ASSUME NEW k \in Packages, NEW q \in Processes, lock'[k] = q
      PROVE  Locked(proc'[q]) /\ proc'[q].pkg = k
  <2>1. CASE q = p
    BY <1>1, <2>1
  <2>2. CASE q # p
    <3>1. Locked(proc[q]) /\ proc[q].pkg = k
      BY <1>1, <2>2 DEF LocksAreHeld, Pkg
    <3> QED BY <2>2, <3>1 DEF Alike, Locked
  <2> QED BY <2>1, <2>2
<1>2. \A q \in Processes : LocksFirst(proc'[q]) => proc'[q].op \in {"install", "remove"}
  BY DEF LocksAreHeld, LocksFirst, Alike
<1> QED BY <1>1, <1>2 DEF LocksAreHeld, LocksFirst, Pkg, Locked

\* Alike and Kept, together, of a step of p
Stays(p) == \A q \in Processes \ {p} : /\ Alike(proc'[q], proc[q])
                                        /\ Kept(proc'[q], proc[q])
                                        /\ proc'[q].result = proc[q].result

LEMMA BecomesStays ==
    ASSUME IInv, NEW p \in Processes, NEW o, Becomes(p, o)
    PROVE  proc'[p] = o /\ Stays(p)
BY DEF Becomes, IInv, Stays, Alike, Kept

\* A step of an operation at work concerns no other that is alone.
LEMMA WorkAlone ==
    ASSUME RetryInv, NEW p \in Processes, ~Quiet(p), Stays(p),
           Alone(proc'[p]) => Alone(proc[p]) /\ OnItsWay(proc[p])'
    PROVE  AloneInv'
<1> SUFFICES ASSUME NEW q \in Processes, Alone(proc'[q])
             PROVE  /\ \A r \in Processes \ {q} : proc'[r].pc \in {"idle", "done"}
                    /\ OnItsWay(proc[q])'
  BY DEF AloneInv, Quiet, Alone, OnItsWay, StagedFile
<1>1. q = p
  BY DEF RetryInv, AloneInv, Stays, Kept, Alone
<1> QED BY <1>1 DEF RetryInv, AloneInv, Stays, Alike, Quiet

-----------------------------------------------------------------------------
LEMMA GoesOn ==
    ASSUME RetryInv, NEW p \in Processes, ~Quiet(p), Stays(p), UNCHANGED lock,
           Locked(proc[p]) => Locked(proc'[p]) /\ proc'[p].pkg = Pkg(p),
           LocksFirst(proc'[p]) => LocksFirst(proc[p]) /\ proc'[p].op = proc[p].op,
           Alone(proc'[p]) => Alone(proc[p]) /\ OnItsWay(proc[p])'
    PROVE  LocksAreHeld' /\ AloneInv'
<1>1. LocksAreHeld'
  BY LocksKept DEF RetryInv, LocksAreHeld, Stays
<1> QED BY <1>1, WorkAlone

LEMMA Working ==
    ASSUME RetryInv, NEW p \in Processes, ~Quiet(p)
    PROVE  /\ IInv /\ proc[p] \in Operations /\ Pkg(p) \in Packages /\ Pkg(p) = proc[p].pkg
           /\ Alone(proc[p]) => OnItsWay(proc[p])
BY Own DEF RetryInv, AloneInv, Quiet, Pkg

\* A step that ends badly is not alone any more.
LEMMA FailsGoesOn ==
    ASSUME RetryInv, NEW p \in Processes, ~Quiet(p), Becomes(p, Fails(p)), UNCHANGED lock
    PROVE  LocksAreHeld' /\ AloneInv'
<1>1. proc[p] \in Operations /\ IInv
  BY Working
<1>2. proc'[p] = Fails(p) /\ Stays(p)
  BY <1>1, BecomesStays
<1>3. /\ ~Alone(proc'[p]) /\ Locked(proc'[p]) /\ proc'[p].pkg = Pkg(p)
  BY <1>1, <1>2, FailsFacts, FailsAlone DEF Alone, Locked, Pkg
<1> QED BY <1>2, <1>3, FailsFacts, <1>1, GoesOn DEF LocksFirst

LEMMA LookAlone ==
    ASSUME RetryInv, NEW p \in Processes, Look(p)
    PROVE  LocksAreHeld' /\ AloneInv'
<1>1. /\ ~Quiet(p) /\ proc[p].pc = "look" /\ ~Locked(proc[p])
      /\ UNCHANGED <<staging, active, lock>>
  BY DEF Look, At, Quiet, Locked, diskVars
<1>2. /\ IInv /\ proc[p] \in Operations /\ Pkg(p) = proc[p].pkg
      /\ Alone(proc[p]) => OnItsWay(proc[p])
  BY <1>1, Working
<1>3. \/ active[Pkg(p)] = Missing /\ Becomes(p, Goto(p, "lock"))
      \/ active[Pkg(p)] = Files /\ Becomes(p, Outcome(p, "ok"))
      \/ active[Pkg(p)] \notin {Missing, Files} /\ Becomes(p, Outcome(p, "error"))
  BY DEF Look
<1>4. CASE active[Pkg(p)] = Missing /\ Becomes(p, Goto(p, "lock"))
  <2>1. proc'[p] = Goto(p, "lock") /\ Stays(p)
    BY <1>2, <1>4, BecomesStays
  <2>2. Kept(proc'[p], proc[p]) /\ proc'[p].pc = "lock"
    BY <1>2, <2>1, GotoFacts, GotoKeeps DEF Places
  <2>3. Alone(proc'[p]) => Alone(proc[p]) /\ OnItsWay(proc[p])'
    BY <1>1, <1>2, <1>4, <2>2 DEF OnItsWay, Alone, Kept
  <2> QED BY <1>1, <2>1, <2>2, <2>3, GoesOn DEF LocksFirst, Kept
<1>5. CASE \/ active[Pkg(p)] = Files /\ Becomes(p, Outcome(p, "ok"))
           \/ active[Pkg(p)] \notin {Missing, Files} /\ Becomes(p, Outcome(p, "error"))
  <2>1. PICK result \in {"ok", "error"} :
          /\ Becomes(p, Outcome(p, result))
          /\ (active[Pkg(p)] = Files /\ result = "ok") \/ active[Pkg(p)] \notin {Missing, Files}
    BY <1>5
  <2>2. proc'[p] = Outcome(p, result) /\ Stays(p)
    BY <1>2, <2>1, BecomesStays
  <2>3. /\ Kept(proc'[p], proc[p])
        /\ ~proc[p].cancelled => proc'[p].pc = "done" /\ proc'[p].result = result
    BY <1>2, <2>2, OutcomeKeeps
  <2>4. Alone(proc'[p]) => Alone(proc[p]) /\ OnItsWay(proc[p])'
    BY <1>1, <1>2, <1>5, <2>1, <2>3 DEF OnItsWay, Alone, Kept
  <2> QED BY <1>1, <1>2, <2>1, <2>2, <2>3, <2>4, OutcomeFacts, GoesOn DEF LocksFirst
<1> QED BY <1>3, <1>4, <1>5

LEMMA AcquireAlone ==
    ASSUME RetryInv, NEW p \in Processes, Acquire(p)
    PROVE  LocksAreHeld' /\ AloneInv'
<1>1. /\ ~Quiet(p) /\ proc[p].pc = "lock" /\ ~Locked(proc[p])
      /\ UNCHANGED <<staging, active>>
  BY DEF Acquire, At, Quiet, Locked
<1>2. /\ IInv /\ proc[p] \in Operations /\ Pkg(p) = proc[p].pkg /\ Pkg(p) \in Packages
      /\ Alone(proc[p]) => OnItsWay(proc[p])
  BY <1>1, Working
<1>3. CASE lock[Pkg(p)] = "free"
  <2> DEFINE place == IF proc[p].op = "install" THEN "prune" ELSE "clear"
  <2>1. lock' = [lock EXCEPT ![Pkg(p)] = p] /\ Becomes(p, Goto(p, place))
    BY <1>3 DEF Acquire
  <2>2. proc'[p] = Goto(p, place) /\ Stays(p)
    BY <1>2, <2>1, BecomesStays
  <2>3. Kept(proc'[p], proc[p]) /\ proc'[p].pc = place
    BY <1>2, <2>2, GotoFacts, GotoKeeps DEF Places
  <2>4. proc[p].op \in {"install", "remove"}
    BY <1>1 DEF RetryInv, LocksAreHeld, LocksFirst
  <2>5. Locked(proc'[p]) /\ proc'[p].pkg = Pkg(p)
    BY <1>2, <2>3, <2>4 DEF Locked, Kept
  <2>6. LocksAreHeld'
    <3>1. \A k \in Packages : lock'[k] = p => k = Pkg(p)
      BY <1>1, <1>2, <2>1 DEF RetryInv, LocksAreHeld
    <3>2. \A k \in Packages, q \in Processes \ {p} : lock'[k] = q => lock[k] = q
      BY <1>2, <2>1 DEF IInv
    <3> QED BY <2>2, <2>3, <2>5, <3>1, <3>2, LocksKept DEF RetryInv, Stays, LocksFirst
  <2>7. Alone(proc'[p]) => Alone(proc[p]) /\ OnItsWay(proc[p])'
    BY <1>1, <1>2, <2>3 DEF OnItsWay, Alone, Kept
  <2> QED BY <1>1, <2>2, <2>6, <2>7, WorkAlone
<1>4. CASE lock[Pkg(p)] # "free"
  <2>1. Becomes(p, Outcome(p, "error")) /\ UNCHANGED lock
    BY <1>4 DEF Acquire
  <2>2. proc'[p] = Outcome(p, "error") /\ Stays(p)
    BY <1>2, <2>1, BecomesStays
  <2>3. Kept(proc'[p], proc[p])
    BY <1>2, <2>2, OutcomeKeeps
  <2>4. ~Alone(proc'[p])
    BY <1>1, <1>2, <1>4, <2>3 DEF OnItsWay, Alone, Kept
  <2> QED BY <1>1, <1>2, <2>1, <2>2, <2>4, OutcomeFacts, GoesOn DEF LocksFirst
<1> QED BY <1>3, <1>4

LEMMA UnlockAlone ==
    ASSUME RetryInv, NEW p \in Processes, Unlock(p)
    PROVE  LocksAreHeld' /\ AloneInv'
<1>1. /\ ~Quiet(p) /\ proc[p].pc = "unlock" /\ UNCHANGED <<staging, active>>
      /\ lock' = [lock EXCEPT ![Pkg(p)] = "free"] /\ Becomes(p, Outcome(p, proc[p].result))
  BY DEF Unlock, At, Quiet
<1>2. /\ IInv /\ proc[p] \in Operations /\ Pkg(p) = proc[p].pkg /\ Pkg(p) \in Packages
      /\ Alone(proc[p]) => OnItsWay(proc[p])
  BY <1>1, Working
<1>3. proc'[p] = Outcome(p, proc[p].result) /\ Stays(p)
  BY <1>1, <1>2, BecomesStays
<1>4. /\ Kept(proc'[p], proc[p])
      /\ proc[p].result = "ok" => proc'[p].pc = "done" /\ proc'[p].result = "ok"
  <2>1. proc[p].result \in {"none", "ok", "error", "cancelled"}
    BY <1>2 DEF Operations
  <2> QED BY <1>2, <1>3, <2>1, OutcomeKeeps
<1>5. Alone(proc'[p]) => Alone(proc[p]) /\ OnItsWay(proc[p])'
  BY <1>1, <1>2, <1>4 DEF OnItsWay, Alone, Kept
<1>6. LocksAreHeld'
  <2>1. \A k \in Packages : lock'[k] # p
    BY <1>1, <1>2, PackageAssumption DEF RetryInv, LocksAreHeld, IInv
  <2>2. \A k \in Packages, q \in Processes \ {p} : lock'[k] = q => lock[k] = q
    BY <1>1, <1>2, PackageAssumption DEF IInv
  <2>3. proc'[p].pc \in {"done", "clear"}
    <3>1. proc[p].result \in {"none", "ok", "error", "cancelled"}
      BY <1>2 DEF Operations
    <3> QED BY <1>2, <1>3, <3>1, OutcomeFacts
  <2> QED BY <1>3, <2>1, <2>2, <2>3, LocksKept DEF RetryInv, Stays, LocksFirst
<1> QED BY <1>1, <1>3, <1>5, <1>6, WorkAlone

-----------------------------------------------------------------------------
\* An installation that is alone clears nothing and removes nothing.
LEMMA ElsewhereAlone ==
    ASSUME RetryInv, NEW p \in Processes, Clear(p) \/ RemoveFile(p) \/ RemoveFails(p) \/ Removed(p)
    PROVE  LocksAreHeld' /\ AloneInv'
<1>1. /\ ~Quiet(p) /\ proc[p].pc \in {"clear", "files"} /\ UNCHANGED lock
  BY DEF Clear, RemoveFile, RemoveFails, Removed, At, Quiet, diskVars
<1>2. /\ IInv /\ proc[p] \in Operations /\ Pkg(p) = proc[p].pkg /\ Pkg(p) \in Packages
      /\ ~Alone(proc[p])
  BY <1>1, Working DEF OnItsWay
<1>3. ASSUME proc'[p].pkg = Pkg(p), Stays(p), proc'[p].alone = proc[p].alone,
             proc'[p].op = proc[p].op,
             Locked(proc[p]) => Locked(proc'[p]), ~LocksFirst(proc'[p])
      PROVE  LocksAreHeld' /\ AloneInv'
  BY <1>1, <1>2, <1>3, GoesOn DEF Alone
<1>4. CASE Clear(p)
  <2> DEFINE next == IF proc[p].op = "remove" THEN "files" ELSE "done"
  <2>1. proc[p].pc = "clear" /\ next \in {"files", "done"} /\ (Locked(proc[p]) => next = "files")
    BY <1>4 DEF Clear, At, Locked
  <2>2. \/ Becomes(p, Goto(p, next)) \/ Becomes(p, Sweeping(p, Pkg(p), next))
    BY <1>4 DEF Clear
  <2> HIDE DEF next
  <2>3. CASE Becomes(p, Goto(p, next))
    <3>1. proc'[p] = Goto(p, next) /\ Stays(p)
      BY <1>2, <2>3, BecomesStays
    <3>2. Kept(proc'[p], proc[p]) /\ proc'[p].pc = next
      BY <1>2, <2>1, <3>1, GotoFacts, GotoKeeps DEF Places
    <3> QED BY <1>2, <1>3, <2>1, <3>1, <3>2 DEF Kept, Locked, LocksFirst
  <2>4. CASE Becomes(p, Sweeping(p, Pkg(p), next))
    <3>1. proc'[p] = Sweeping(p, Pkg(p), next) /\ Stays(p)
      BY <1>2, <2>4, BecomesStays
    <3>2. Kept(proc'[p], proc[p]) /\ proc'[p].pc = "sweep" /\ proc'[p].sweep.next = next
      BY <1>2, <2>1, <3>1, SweepingFacts, SweepingKeeps
    <3> QED BY <1>2, <1>3, <2>1, <3>1, <3>2 DEF Kept, Locked, LocksFirst
  <2> QED BY <2>2, <2>3, <2>4
<1>5. CASE RemoveFile(p)
  <2>1. proc'[p] = Next1(p) /\ Stays(p) /\ proc[p].pc = "files"
    BY <1>2, <1>5, BecomesStays DEF RemoveFile, At
  <2>2. Kept(proc'[p], proc[p]) /\ proc'[p].pc = "files"
    BY <1>2, <2>1, NextFacts, NextKeeps
  <2> QED BY <1>2, <1>3, <2>1, <2>2 DEF Kept, Locked, LocksFirst
<1>6. CASE RemoveFails(p)
  BY <1>1, <1>6, FailsGoesOn DEF RemoveFails
<1>7. CASE Removed(p)
  <2> DEFINE released == [proc EXCEPT ![p] = Release(p, "ok")]
  <2>1. /\ Release(p, "ok") \in Operations /\ Release(p, "ok").pc = "unlock"
        /\ Kept(Release(p, "ok"), proc[p])
    BY <1>2, ReleaseFacts, ReleaseKeeps
  <2>2. /\ released \in [Processes -> Operations] /\ released[p] = Release(p, "ok")
        /\ \A q \in Processes \ {p} : released[q] = proc[q]
    BY <1>2, <2>1 DEF IInv
  <2>3. proc' \in {released, Moved(released, Pkg(p), "active", "gone")}
    BY <1>7 DEF Removed
  <2> HIDE DEF released
  <2>4. \A q \in Processes : Alike(proc'[q], released[q]) /\ Kept(proc'[q], released[q])
                             /\ proc'[q].result = released[q].result
    BY <2>2, <2>3, MovedFacts, MovedKeeps DEF Alike, Kept
  <2>5. Stays(p)
    BY <2>2, <2>4 DEF Stays
  <2>6. proc'[p].pc = "unlock" /\ Kept(proc'[p], proc[p])
    BY <2>1, <2>2, <2>4 DEF Alike, Kept
  <2> QED BY <1>2, <1>3, <2>5, <2>6 DEF Kept, Locked, LocksFirst
<1> QED BY <1>4, <1>5, <1>6, <1>7

LEMMA PruneAlone ==
    ASSUME RetryInv, NEW p \in Processes, Prune(p)
    PROVE  LocksAreHeld' /\ AloneInv'
<1>1. /\ ~Quiet(p) /\ proc[p].pc = "prune" /\ UNCHANGED <<staging, active, lock>>
  BY DEF Prune, At, Quiet, diskVars
<1>2. /\ IInv /\ proc[p] \in Operations /\ Pkg(p) = proc[p].pkg
      /\ Alone(proc[p]) => OnItsWay(proc[p])
  BY <1>1, Working
<1>3. CASE Becomes(p, Goto(p, "fetch"))
  <2>1. proc'[p] = Goto(p, "fetch") /\ Stays(p)
    BY <1>2, <1>3, BecomesStays
  <2>2. Kept(proc'[p], proc[p]) /\ proc'[p].pc = "fetch" /\ proc'[p].file = 1
    BY <1>2, <2>1, GotoFacts, GotoKeeps DEF Places
  <2>3. \A f \in Files : ~(f < 1)
    BY PackageAssumption DEF Files
  <2>4. Alone(proc'[p]) => Alone(proc[p]) /\ OnItsWay(proc[p])'
    BY <1>1, <1>2, <2>2, <2>3 DEF OnItsWay, Alone, Kept
  <2> QED BY <1>1, <1>2, <2>1, <2>2, <2>4, GoesOn DEF LocksFirst, Kept, Locked
<1>4. ASSUME NEW l \in Packages, Becomes(p, Sweeping(p, l, "fetch"))
      PROVE  LocksAreHeld' /\ AloneInv'
  <2>1. proc'[p] = Sweeping(p, l, "fetch") /\ Stays(p)
    BY <1>2, <1>4, BecomesStays
  <2>2. /\ Kept(proc'[p], proc[p]) /\ proc'[p].pc = "sweep"
        /\ proc'[p].sweep.next = "fetch" /\ proc'[p].sweep.dir = "staging"
    BY <1>2, <2>1, SweepingFacts, SweepingKeeps
  <2>3. Alone(proc'[p]) => Alone(proc[p]) /\ OnItsWay(proc[p])'
    BY <1>1, <1>2, <2>2 DEF OnItsWay, Alone, Kept
  <2> QED BY <1>1, <1>2, <2>1, <2>2, <2>3, GoesOn DEF LocksFirst, Kept, Locked
<1> QED BY <1>3, <1>4 DEF Prune, Obsolete

LEMMA SweepFailsAlone ==
    ASSUME RetryInv, NEW p \in Processes, ~Quiet(p), At(p, "sweep"), UNCHANGED lock,
           Becomes(p, [SweepFailed(p) EXCEPT !.sweep = NoSweep])
    PROVE  LocksAreHeld' /\ AloneInv'
<1> DEFINE failed == SweepFailed(p)
           o == [failed EXCEPT !.sweep = NoSweep]
<1>1. /\ IInv /\ proc[p] \in Operations /\ Pkg(p) = proc[p].pkg
      /\ Alone(proc[p]) => OnItsWay(proc[p])
  BY Working
<1>2. proc[p].sweep.next \in {"fetch", "files", "done"} /\ proc[p].pc = "sweep"
  BY <1>1 DEF At, IInv, Sound, Operations, Sweeps
<1>3. /\ failed \in Operations /\ failed.pkg = Pkg(p) /\ failed.pc \in {"done", "unlock"}
      /\ ~Alone(failed) /\ (Locked(proc[p]) => failed.pc = "unlock")
  <2>1. CASE proc[p].sweep.next = "done"
    <3> DEFINE done == Goto(p, "done")
    <3>1. done \in Operations /\ done.pc = "done" /\ Kept(done, proc[p])
      BY <1>1, GotoFacts, GotoKeeps DEF Places
    <3>2. failed = [done EXCEPT !.result = "error"]
      BY <2>1 DEF SweepFailed
    <3> HIDE DEF done
    <3>3. ~Alone(proc[p]) /\ ~Locked(proc[p])
      BY <1>1, <1>2, <2>1 DEF OnItsWay, Locked
    <3> QED BY <1>1, <3>1, <3>2, <3>3 DEF Operations, Kept, Alone
  <2>2. CASE proc[p].sweep.next # "done"
    BY <1>1, <2>2, FailsFacts, FailsAlone DEF SweepFailed, Alone
  <2> QED BY <2>1, <2>2
<1>4. proc'[p] = o /\ Stays(p)
  BY <1>1, BecomesStays
<1> HIDE DEF failed
<1>5. o.pkg = Pkg(p) /\ o.pc = failed.pc /\ ~Alone(o)
  BY <1>3 DEF Operations, Alone
<1> QED BY <1>3, <1>4, <1>5, GoesOn DEF LocksFirst, Locked

LEMMA SweepAlone ==
    ASSUME RetryInv, NEW p \in Processes, SweepFile(p) \/ SweepFails(p) \/ SweepEnds(p)
    PROVE  LocksAreHeld' /\ AloneInv'
<1> DEFINE sweep == proc[p].sweep
           k == sweep.pkg
<1>1. ~Quiet(p) /\ proc[p].pc = "sweep" /\ At(p, "sweep") /\ UNCHANGED lock
  BY DEF SweepFile, SweepFails, SweepEnds, At, Quiet, diskVars
<1>2. /\ IInv /\ proc[p] \in Operations /\ Pkg(p) = proc[p].pkg
      /\ Alone(proc[p]) => OnItsWay(proc[p])
  BY <1>1, Working
<1>3. k \in Packages /\ sweep \in Sweeps /\ sweep.next \in {"fetch", "files", "done"}
  BY <1>1, <1>2 DEF IInv, Sound, Operations, Sweeps
<1>4. CASE SweepFile(p)
  <2>1. PICK f \in sweep.files :
          /\ Becomes(p, [proc[p] EXCEPT !.sweep.files = @ \ {f}])
          /\ active' = IF sweep.dir = "active" THEN [active EXCEPT ![k] = @ \ {f}] ELSE active
    BY <1>4 DEF SweepFile
  <2> DEFINE rest == [sweep EXCEPT !.files = @ \ {f}]
             o == [proc[p] EXCEPT !.sweep = rest]
  <2>2. rest.next = sweep.next /\ rest.dir = sweep.dir
    BY <1>3 DEF Sweeps
  <2>3. Becomes(p, o)
    BY <1>2, <2>1 DEF Operations
  <2> HIDE DEF rest
  <2>4. Kept(o, proc[p]) /\ o.pc = "sweep" /\ o.sweep = rest
    BY <1>1, <1>2 DEF Operations, Kept
  <2> HIDE DEF o
  <2>5. proc'[p] = o /\ Stays(p)
    BY <1>2, <2>3, BecomesStays
  <2>6. Alone(proc'[p]) => Alone(proc[p]) /\ OnItsWay(proc[p])'
    BY <1>1, <1>2, <2>1, <2>2, <2>4, <2>5 DEF OnItsWay, Alone, Kept
  <2> QED BY <1>1, <1>2, <2>2, <2>4, <2>5, <2>6, GoesOn DEF LocksFirst, Locked, Kept
<1>5. CASE SweepFails(p)
  BY <1>1, <1>5, SweepFailsAlone DEF SweepFails
<1>6. CASE SweepEnds(p)
  <2> DEFINE done == Goto(p, sweep.next)
             o == [done EXCEPT !.sweep = NoSweep]
             finished == [proc EXCEPT ![p] = o]
  <2>1. done \in Operations /\ done.pc = sweep.next /\ Kept(done, proc[p]) /\ done.file = 1
    BY <1>2, <1>3, GotoFacts, GotoKeeps DEF Places
  <2> HIDE DEF done
  <2>2. o \in Operations /\ o.pc = sweep.next /\ Kept(o, proc[p]) /\ o.file = 1
    BY <2>1, NoSweepIsSweep DEF Operations, Kept
  <2> HIDE DEF o
  <2>3. finished \in [Processes -> Operations] /\ finished[p] = o
        /\ \A q \in Processes \ {p} : finished[q] = proc[q]
    BY <1>2, <2>2 DEF IInv
  <2>4. Missing # Empty
    BY PackageAssumption DEF Empty, FileStates, Files
  <2>5. \/ proc' \in {finished, Moved(finished, k, "staging", "gone")}
        \/ Becomes(p, [SweepFailed(p) EXCEPT !.sweep = NoSweep])
    BY <1>6, <2>4 DEF SweepEnds, o, done
  <2>6. CASE proc' \in {finished, Moved(finished, k, "staging", "gone")}
    <3> HIDE DEF finished
    <3>1. \A q \in Processes : Alike(proc'[q], finished[q]) /\ Kept(proc'[q], finished[q])
                               /\ proc'[q].result = finished[q].result
      BY <2>3, <2>6, MovedFacts, MovedKeeps DEF Alike, Kept
    <3>2. Stays(p)
      BY <2>3, <3>1 DEF Stays
    <3>3. proc'[p].pc = sweep.next /\ Kept(proc'[p], proc[p]) /\ proc'[p].file = 1
      BY <2>2, <2>3, <3>1 DEF Alike, Kept
    <3>4. Locked(proc[p]) => Locked(proc'[p])
      BY <1>1, <3>3 DEF Locked
    <3>5. \A f \in Files : ~(f < 1)
      BY PackageAssumption DEF Files
    <3>6. UNCHANGED active
      BY <1>6 DEF SweepEnds
    <3>7. Alone(proc'[p]) => Alone(proc[p]) /\ OnItsWay(proc[p])'
      BY <1>1, <1>2, <3>3, <3>5, <3>6 DEF OnItsWay, Alone, Kept
    <3> QED BY <1>1, <1>2, <1>3, <3>2, <3>3, <3>4, <3>7, GoesOn DEF LocksFirst, Kept
  <2> QED BY <1>1, <2>5, <2>6, SweepFailsAlone
<1> QED BY <1>4, <1>5, <1>6

-----------------------------------------------------------------------------
\* What staging holds of a package, file by file
LEMMA StagedFacts ==
    ASSUME StagingInv, NEW p \in Processes, Pkg(p) \in Packages
    PROVE  /\ Staged(p) \in [Files -> FileStates]
           /\ \A f \in Files : Staged(p)[f] = StagedFile(Pkg(p), f)
BY DEF StagingInv, Staged, StagedFile, Empty, FileStates

LEMMA SweepUntouched ==
    ASSUME NEW p, proc[p] \in Operations
    PROVE  /\ \A pc \in Places : Goto(p, pc).sweep = proc[p].sweep
           /\ \A result \in {"ok", "error"} : Release(p, result).sweep = proc[p].sweep
           /\ Fails(p).sweep = proc[p].sweep
           /\ \A result \in {"none", "ok", "error", "cancelled"} :
                 Outcome(p, result).sweep = proc[p].sweep
           /\ Next1(p).sweep = proc[p].sweep
<1>1. \A pc \in Places : Goto(p, pc).sweep = proc[p].sweep /\ Goto(p, pc) \in Operations
  BY GotoFacts
<1>2. ASSUME NEW result \in {"ok", "error"}
      PROVE  Release(p, result).sweep = proc[p].sweep
  <2> DEFINE unlock == Goto(p, "unlock")
  <2>1. unlock \in Operations /\ unlock.sweep = proc[p].sweep
    BY <1>1 DEF Places
  <2>2. Release(p, result) = [unlock EXCEPT !.result = result]
    BY DEF Release
  <2> HIDE DEF unlock
  <2> QED BY <2>1, <2>2 DEF Operations
<1>3. Fails(p).sweep = proc[p].sweep
  <2> DEFINE released == Release(p, "error")
  <2>1. released \in Operations /\ released.sweep = proc[p].sweep
    BY <1>2, ReleaseFacts
  <2>2. Fails(p) = [released EXCEPT !.alone = FALSE]
    BY DEF Fails
  <2> HIDE DEF released
  <2> QED BY <2>1, <2>2 DEF Operations
<1>4. ASSUME NEW result \in {"none", "ok", "error", "cancelled"}
      PROVE  Outcome(p, result).sweep = proc[p].sweep
  <2> DEFINE clear == Goto(p, "clear")
             done == Goto(p, "done")
  <2>1. clear \in Operations /\ clear.sweep = proc[p].sweep
        /\ done \in Operations /\ done.sweep = proc[p].sweep
    BY <1>1 DEF Places
  <2>2. Outcome(p, result) \in {[clear EXCEPT !.result = "cancelled"], [done EXCEPT !.result = result]}
    BY DEF Outcome
  <2> HIDE DEF clear, done
  <2> QED BY <2>1, <2>2 DEF Operations
<1> QED BY <1>1, <1>2, <1>3, <1>4, NextFacts

LEMMA MovedHandles ==
    ASSUME NEW operations \in [Processes -> Operations], NEW k, NEW dir,
           NEW to \in {"active", "gone"}, NEW q \in Processes,
           Moved(operations, k, dir, to)[q].sweep.dir = "staging"
    PROVE  /\ Moved(operations, k, dir, to)[q].sweep = operations[q].sweep
           /\ dir = "staging" => operations[q].sweep.pkg # k
<1> DEFINE o == operations[q]
           sweep == [o.sweep EXCEPT !.dir = to]
<1>1. o \in Operations /\ o.sweep \in Sweeps
  BY DEF Operations
<1>2. sweep.dir = to
  BY <1>1 DEF Sweeps
<1>3. CASE o.sweep.pkg = k /\ o.sweep.dir = dir
  <2>1. Moved(operations, k, dir, to)[q] = [o EXCEPT !.sweep = sweep]
    BY <1>3 DEF Moved
  <2> HIDE DEF sweep
  <2>2. [o EXCEPT !.sweep = sweep].sweep = sweep
    BY <1>1 DEF Operations
  <2> QED BY <1>2, <2>1, <2>2
<1>4. CASE ~(o.sweep.pkg = k /\ o.sweep.dir = dir)
  <2>1. Moved(operations, k, dir, to)[q] = o
    BY <1>4 DEF Moved
  <2> QED BY <1>4, <2>1
<1> QED BY <1>3, <1>4

LEMMA StagingSame ==
    ASSUME StagingInv, UNCHANGED staging,
           \A q \in Processes : proc'[q].sweep = proc[q].sweep \/ Open(proc'[q])
    PROVE  StagingInv'
BY DEF StagingInv, Open

\* A step that changes only what is said of its own operation
LEMMA StagingOwn ==
    ASSUME IInv, StagingInv, UNCHANGED staging, NEW p \in Processes, NEW o, Becomes(p, o),
           o.sweep = proc[p].sweep \/ Open(o)
    PROVE  StagingInv'
BY StagingSame, BecomesStays DEF Becomes, IInv

LEMMA StagingWork ==
    ASSUME IInv, StagingInv, NEW p \in Processes,
           \/ Look(p) \/ Acquire(p) \/ Unlock(p) \/ Fetched(p) \/ Verify(p)
           \/ FetchFails(p) \/ RemoveFile(p) \/ RemoveFails(p)
    PROVE  StagingInv'
<1>1. proc[p] \in Operations /\ UNCHANGED staging
  BY DEF IInv, Look, Acquire, Unlock, Fetched, Verify, FetchFails, RemoveFile, RemoveFails,
         diskVars
<1>2. proc[p].result \in {"none", "ok", "error", "cancelled"}
  BY <1>1 DEF Operations
<1>3. \/ \E pc \in Places : Becomes(p, Goto(p, pc))
      \/ \E result \in {"none", "ok", "error", "cancelled"} : Becomes(p, Outcome(p, result))
      \/ Becomes(p, Next1(p)) \/ Becomes(p, Fails(p)) \/ Becomes(p, Release(p, "error"))
  <2>1. CASE Look(p) \/ Acquire(p)
    BY <2>1 DEF Look, Acquire, Places
  <2>2. CASE Unlock(p)
    BY <1>2, <2>2 DEF Unlock
  <2>3. CASE Fetched(p) \/ Verify(p)
    BY <2>3 DEF Fetched, Verify, Places
  <2>4. CASE FetchFails(p) \/ RemoveFile(p) \/ RemoveFails(p)
    BY <2>4 DEF FetchFails, RemoveFile, RemoveFails
  <2> QED BY <2>1, <2>2, <2>3, <2>4
<1> QED BY <1>1, <1>3, SweepUntouched, StagingOwn

\* A sweep begins at a directory that is there.
LEMMA StagingSwept ==
    ASSUME IInv, StagingInv, NEW p \in Processes, Prune(p) \/ Clear(p)
    PROVE  StagingInv'
<1>1. /\ proc[p] \in Operations /\ Pkg(p) \in Packages
      /\ UNCHANGED staging
  BY Own DEF Prune, Clear, diskVars, At
<1>2. ASSUME NEW k \in Packages, NEW next \in {"fetch", "files", "done"}, staging[k] # Missing,
             Becomes(p, Sweeping(p, k, next))
      PROVE  StagingInv'
  <2>1. Open(Sweeping(p, k, next))
    BY <1>1, <1>2, SweepingFacts, SweepingKeeps DEF Open
  <2> QED BY <1>1, <1>2, <2>1, StagingOwn
<1>3. ASSUME NEW pc \in Places, Becomes(p, Goto(p, pc)) PROVE StagingInv'
  BY <1>1, <1>3, SweepUntouched, StagingOwn
<1>4. CASE Prune(p)
  BY <1>2, <1>3, <1>4 DEF Prune, Obsolete, Places
<1>5. CASE Clear(p)
  <2> DEFINE next == IF proc[p].op = "remove" THEN "files" ELSE "done"
  <2>1. next \in {"fetch", "files", "done"} /\ next \in Places
    BY DEF Places
  <2>2. \/ Becomes(p, Goto(p, next))
        \/ staging[Pkg(p)] # Missing /\ Becomes(p, Sweeping(p, Pkg(p), next))
    BY <1>5 DEF Clear
  <2> HIDE DEF next
  <2> QED BY <1>1, <1>2, <1>3, <2>1, <2>2
<1> QED BY <1>4, <1>5

LEMMA NoSweepOpen ==
    ASSUME NEW o, o \in Operations
    PROVE  Open([o EXCEPT !.sweep = NoSweep]) /\ [o EXCEPT !.sweep = NoSweep] \in Operations
<1>1. NoSweep \in Sweeps /\ NoSweep.dir # "staging"
  BY NoSweepIsSweep DEF NoSweep
<1>2. [o EXCEPT !.sweep = NoSweep].sweep = NoSweep /\ [o EXCEPT !.sweep = NoSweep] \in Operations
  BY <1>1 DEF Operations
<1> QED BY <1>1, <1>2 DEF Open

LEMMA StagingSweep ==
    ASSUME IInv, StagingInv, NEW p \in Processes, SweepFile(p) \/ SweepFails(p) \/ SweepEnds(p)
    PROVE  StagingInv'
<1> DEFINE sweep == proc[p].sweep
           k == sweep.pkg
<1>1. /\ proc[p] \in Operations /\ sweep \in Sweeps /\ k \in Packages
      /\ DOMAIN staging = Packages /\ proc[p].pc = "sweep"
      /\ sweep.next \in {"fetch", "files", "done"}
  BY DEF SweepFile, SweepFails, SweepEnds, At, IInv, Sound, Operations, Sweeps
<1>2. CASE SweepFile(p)
  <2>1. PICK f \in sweep.files :
          /\ Becomes(p, [proc[p] EXCEPT !.sweep.files = @ \ {f}])
          /\ staging' = IF sweep.dir = "staging"
                        THEN [staging EXCEPT ![k][f] = "absent"] ELSE staging
    BY <1>2 DEF SweepFile
  <2> DEFINE rest == [sweep EXCEPT !.files = @ \ {f}]
             o == [proc[p] EXCEPT !.sweep = rest]
  <2>2. rest.pkg = k /\ rest.dir = sweep.dir
    BY <1>1 DEF Sweeps
  <2>3. Becomes(p, o)
    BY <1>1, <2>1 DEF Operations
  <2> HIDE DEF rest
  <2>4. o.sweep = rest
    BY <1>1 DEF Operations
  <2> HIDE DEF o
  <2>5. proc'[p] = o /\ \A q \in Processes \ {p} : proc'[q] = proc[q]
    BY <2>3 DEF Becomes, IInv
  <2>6. \A q \in Processes : proc'[q].sweep.pkg = proc[q].sweep.pkg
                              /\ proc'[q].sweep.dir = proc[q].sweep.dir
    BY <2>2, <2>4, <2>5
  <2>7. sweep.dir = "staging" => staging[k] \in [Files -> FileStates]
    BY <1>1 DEF StagingInv, Open
  <2>8. \A l \in Packages : \/ staging'[l] = staging[l]
                            \/ staging'[l] \in [Files -> FileStates]
    <3>1. \A l \in Packages : l # k => staging'[l] = staging[l]
      BY <1>1, <2>1
    <3>2. CASE sweep.dir = "staging"
      <4>1. staging'[k] = [staging[k] EXCEPT ![f] = "absent"]
        BY <1>1, <2>1, <3>2
      <4>2. staging'[k] \in [Files -> FileStates]
        BY <2>7, <3>2, <4>1 DEF FileStates
      <4> QED BY <3>1, <4>2
    <3>3. CASE sweep.dir # "staging"
      BY <2>1, <3>3
    <3> QED BY <3>2, <3>3
  <2>9. \A files \in [Files -> FileStates] : files # Missing
    BY PackageAssumption DEF Files
  <2> QED BY <2>6, <2>8, <2>9 DEF StagingInv, Open
<1>3. ASSUME Becomes(p, [SweepFailed(p) EXCEPT !.sweep = NoSweep]), UNCHANGED staging
      PROVE  StagingInv'
  <2>1. SweepFailed(p) \in Operations
    <3> DEFINE done == Goto(p, "done")
    <3>1. done \in Operations
      BY <1>1, GotoFacts DEF Places
    <3>2. SweepFailed(p) \in {[done EXCEPT !.result = "error"], Fails(p)}
      BY DEF SweepFailed
    <3> HIDE DEF done
    <3> QED BY <1>1, <3>1, <3>2, FailsFacts DEF Operations
  <2> QED BY <1>3, <2>1, NoSweepOpen, StagingOwn
<1>4. CASE SweepFails(p)
  BY <1>3, <1>4 DEF SweepFails, diskVars
<1>5. CASE SweepEnds(p)
  <2> DEFINE done == Goto(p, sweep.next)
             o == [done EXCEPT !.sweep = NoSweep]
             finished == [proc EXCEPT ![p] = o]
  <2>1. done \in Operations
    BY <1>1, GotoFacts DEF Places
  <2> HIDE DEF done
  <2>2. o \in Operations /\ o.sweep.dir # "staging"
    <3>1. NoSweep.dir # "staging"
      BY DEF NoSweep
    <3>2. o.sweep = NoSweep
      BY <2>1 DEF Operations
    <3> QED BY <2>1, <3>1, <3>2, NoSweepOpen
  <2> HIDE DEF o
  <2>3. finished \in [Processes -> Operations] /\ finished[p] = o
        /\ \A q \in Processes \ {p} : finished[q] = proc[q]
    BY <2>2 DEF IInv
  <2>4. \/ proc' = finished /\ UNCHANGED staging
        \/ /\ proc' = Moved(finished, k, "staging", "gone")
           /\ staging' = [staging EXCEPT ![k] = Missing]
        \/ Becomes(p, [SweepFailed(p) EXCEPT !.sweep = NoSweep]) /\ UNCHANGED staging
    <3>1. Missing # Empty
      BY PackageAssumption DEF Empty, FileStates, Files
    <3> QED BY <1>5, <3>1 DEF SweepEnds, o, done
  <2> HIDE DEF finished
  <2>5. CASE proc' = finished /\ UNCHANGED staging
    <3>1. Open(proc'[p])
      BY <2>2, <2>3, <2>5 DEF Open
    <3> QED BY <2>3, <2>5, <3>1, StagingSame
  <2>6. CASE /\ proc' = Moved(finished, k, "staging", "gone")
             /\ staging' = [staging EXCEPT ![k] = Missing]
    <3>1. \A q \in Processes : proc'[q].sweep.dir = "staging" =>
             proc'[q].sweep = finished[q].sweep /\ finished[q].sweep.pkg # k
      BY <2>3, <2>6, MovedHandles
    <3>2. \A q \in Processes : proc'[q].sweep.dir = "staging" =>
             proc'[q].sweep = proc[q].sweep /\ proc[q].sweep.pkg # k
      BY <2>2, <2>3, <3>1
    <3>3. staging'[k] = Missing /\ \A l \in Packages : l # k => staging'[l] = staging[l]
      BY <1>1, <2>6
    <3> QED BY <3>2, <3>3 DEF StagingInv, Open
  <2> QED BY <1>3, <2>4, <2>5, <2>6
<1> QED BY <1>2, <1>4, <1>5

LEMMA StagingMoves ==
    ASSUME IInv, StagingInv, NEW p \in Processes, Activate(p) \/ Removed(p)
    PROVE  StagingInv'
<1> DEFINE k == Pkg(p)
           released == [proc EXCEPT ![p] = Release(p, "ok")]
<1>1. proc[p] \in Operations /\ k \in Packages /\ DOMAIN staging = Packages
  BY Own DEF Activate, Removed, At, IInv
<1>2. /\ released \in [Processes -> Operations]
      /\ \A q \in Processes : released[q].sweep = proc[q].sweep
  <2>1. Release(p, "ok") \in Operations /\ Release(p, "ok").sweep = proc[p].sweep
    BY <1>1, ReleaseFacts, SweepUntouched
  <2> QED BY <2>1 DEF IInv
<1>3. \/ Becomes(p, Release(p, "error")) /\ UNCHANGED staging
      \/ proc' = released /\ UNCHANGED staging
      \/ /\ proc' = Moved(released, k, "staging", "active")
         /\ staging' = [staging EXCEPT ![k] = Missing]
      \/ proc' = Moved(released, k, "active", "gone") /\ UNCHANGED staging
  BY DEF Activate, Removed
<1> HIDE DEF released
<1>4. CASE Becomes(p, Release(p, "error")) /\ UNCHANGED staging
  BY <1>1, <1>4, SweepUntouched, StagingOwn
<1>5. CASE proc' = released /\ UNCHANGED staging
  BY <1>2, <1>5, StagingSame
<1>6. CASE proc' = Moved(released, k, "active", "gone") /\ UNCHANGED staging
  <2>1. \A q \in Processes : proc'[q].sweep.dir = "staging" => proc'[q].sweep = proc[q].sweep
    BY <1>2, <1>6, MovedHandles
  <2> QED BY <1>6, <2>1 DEF StagingInv, Open
<1>7. CASE /\ proc' = Moved(released, k, "staging", "active")
           /\ staging' = [staging EXCEPT ![k] = Missing]
  <2>1. \A q \in Processes : proc'[q].sweep.dir = "staging" =>
           proc'[q].sweep = proc[q].sweep /\ proc[q].sweep.pkg # k
    BY <1>2, <1>7, MovedHandles
  <2>2. staging'[k] = Missing /\ \A l \in Packages : l # k => staging'[l] = staging[l]
    BY <1>1, <1>7
  <2> QED BY <2>1, <2>2 DEF StagingInv, Open
<1> QED BY <1>3, <1>4, <1>5, <1>6, <1>7

LEMMA StagingFetch ==
    ASSUME IInv, StagingInv, NEW p \in Processes, Fetch(p)
    PROVE  StagingInv'
<1>1. proc[p] \in Operations /\ Pkg(p) \in Packages /\ DOMAIN staging = Packages
  BY Own DEF Fetch, At, IInv
<1>2. CASE Becomes(p, Next1(p)) /\ UNCHANGED staging
  BY <1>1, <1>2, SweepUntouched, StagingOwn
<1>3. ASSUME NEW after \in FileStates, UNCHANGED proc,
             staging' = [staging EXCEPT ![Pkg(p)] = [Staged(p) EXCEPT ![proc[p].file] = after]]
      PROVE  StagingInv'
  <2>1. staging'[Pkg(p)] \in [Files -> FileStates]
    BY <1>1, <1>3, StagedFacts
  <2>2. \A l \in Packages : l # Pkg(p) => staging'[l] = staging[l]
    BY <1>1, <1>3
  <2>3. \A files \in [Files -> FileStates] : files # Missing
    BY PackageAssumption DEF Files
  <2> QED BY <1>3, <2>1, <2>2, <2>3 DEF StagingInv, Open
<1> QED BY <1>2, <1>3 DEF Fetch

LEMMA StagingTask ==
    ASSUME IInv, StagingInv,
           \/ Asks
           \/ \E c \in Clients : \/ Discover(c) \/ InvalidateDiscovery(c)
                                 \/ SwitchWhileInstalling(c) \/ Poll(c) \/ Discovered(c)
           \/ \E p \in Processes : Returns(p) \/ Killed(p)
           \/ UNCHANGED taskVars
    PROVE  StagingInv'
<1> USE TaskAssumption
<1>1. ASSUME NEW p \in Processes, NEW op, NEW k, UNCHANGED staging,
             proc' = Began(p, Operation(p, op, k))
      PROVE  StagingInv'
  <2> DEFINE o == Operation(p, op, k)
  <2>1. o.sweep.dir = "none"
    BY DEF Operation, NoOperation, NoSweep
  <2> HIDE DEF o
  <2>2. proc'[p] = o /\ \A q \in Processes \ {p} : proc'[q] = [proc[q] EXCEPT !.alone = FALSE]
    BY <1>1 DEF Began, o
  <2>3. \A q \in Processes : [proc[q] EXCEPT !.alone = FALSE].sweep = proc[q].sweep
    <3> TAKE q \in Processes
    <3>1. proc[q] \in Operations
      BY DEF IInv
    <3> QED BY <3>1 DEF Operations
  <2>4. Open(proc'[p])
    BY <2>1, <2>2 DEF Open
  <2> QED BY <1>1, <2>2, <2>3, <2>4, StagingSame
<1>2. ASSUME NEW p \in Processes, UNCHANGED staging, Becomes(p, NoOperation)
      PROVE  StagingInv'
  <2>1. Open(NoOperation)
    BY DEF Open, NoOperation, NoSweep
  <2> QED BY <1>2, <2>1, StagingOwn
<1>3. ASSUME UNCHANGED <<staging, proc>> PROVE StagingInv'
  BY <1>3, StagingSame
<1>4. CASE Asks
  BY <1>1, <1>4 DEF Asks, Install, Delete, Switch, InstallerRuns, AskFor, Begin, diskVars
<1>5. ASSUME NEW c \in Clients, SwitchWhileInstalling(c) PROVE StagingInv'
  <2> DEFINE o == [proc[c] EXCEPT !.cancelled = TRUE, !.alone = FALSE]
  <2>1. Becomes(c, o) /\ UNCHANGED staging
    BY <1>5 DEF SwitchWhileInstalling, diskVars
  <2>2. proc[c] \in Operations
    BY DEF IInv
  <2>3. o.sweep = proc[c].sweep
    BY <2>2 DEF Operations
  <2> QED BY <2>1, <2>3, StagingOwn
<1>6. ASSUME NEW c \in Clients, Poll(c) PROVE StagingInv'
  BY <1>1, <1>2, <1>6 DEF Poll, Result, diskVars
<1>7. ASSUME NEW p \in Processes, Returns(p) \/ Killed(p) PROVE StagingInv'
  BY <1>2, <1>7 DEF Returns, Killed, Crash, diskVars
<1>8. ASSUME NEW c \in Clients, Discover(c) \/ InvalidateDiscovery(c) \/ Discovered(c)
      PROVE  StagingInv'
  BY <1>3, <1>8 DEF Discover, InvalidateDiscovery, Discovered, NoDiskWork, diskVars
<1>9. CASE UNCHANGED taskVars
  BY <1>3, <1>9 DEF taskVars, vars
<1> QED BY <1>4, <1>5, <1>6, <1>7, <1>8, <1>9

LEMMA StagingStep ==
    ASSUME IInv, StagingInv, [Next]_taskVars
    PROVE  StagingInv'
<1>1. ASSUME NEW p \in Processes, Works(p) \/ FetchEnds(p)
      PROVE  StagingInv'
  BY <1>1, StagingWork, StagingSwept, StagingSweep, StagingMoves, StagingFetch
     DEF Works, FetchEnds, Work
<1> QED BY <1>1, StagingTask DEF Next

-----------------------------------------------------------------------------
LEMMA FetchAlone ==
    ASSUME RetryInv, NEW p \in Processes, Fetch(p) \/ FetchFails(p) \/ Fetched(p)
    PROVE  LocksAreHeld' /\ AloneInv'
<1> DEFINE k == Pkg(p)
           n == proc[p].file
<1>1. /\ ~Quiet(p) /\ proc[p].pc = "fetch" /\ UNCHANGED <<active, lock>>
  BY DEF Fetch, FetchFails, Fetched, At, Quiet, diskVars
<1>2. /\ IInv /\ proc[p] \in Operations /\ k = proc[p].pkg /\ k \in Packages
      /\ Alone(proc[p]) => OnItsWay(proc[p])
      /\ n \in Nat \ {0}
  BY <1>1, Working DEF Operations
<1>3. \A f \in Files : Staged(p)[f] = StagedFile(k, f)
  BY <1>2, StagedFacts DEF RetryInv
<1>4. Alone(proc[p]) => /\ ~proc[p].cancelled /\ active[k] = Missing
                        /\ \A f \in Files : f < n => StagedFile(k, f) = "whole"
  BY <1>1, <1>2 DEF OnItsWay
<1>5. CASE Fetch(p) /\ Staged(p)[n] = "whole"
  <2>1. Becomes(p, Next1(p)) /\ UNCHANGED staging /\ n \in Files
    BY <1>5 DEF Fetch
  <2>2. proc'[p] = Next1(p) /\ Stays(p)
    BY <1>2, <2>1, BecomesStays
  <2>3. Kept(proc'[p], proc[p]) /\ proc'[p].pc = "fetch" /\ proc'[p].file = n + 1
    BY <1>1, <1>2, <2>2, NextFacts, NextKeeps
  <2>4. \A f \in Files : f < n + 1 => f < n \/ f = n
    BY <1>2 DEF Files
  <2>5. Alone(proc[p]) => \A f \in Files : f < n + 1 => StagedFile(k, f) = "whole"
    BY <1>3, <1>4, <1>5, <2>4
  <2>7. Alone(proc'[p]) => Alone(proc[p]) /\ OnItsWay(proc[p])'
    BY <1>1, <1>2, <1>4, <2>1, <2>3, <2>5 DEF OnItsWay, Alone, Kept, StagedFile
  <2> QED BY <1>1, <1>2, <2>2, <2>3, <2>7, GoesOn DEF LocksFirst, Kept, Locked
<1>6. CASE Fetch(p) /\ Staged(p)[n] # "whole"
  <2>1. PICK after \in FileStates :
          staging' = [staging EXCEPT ![k] = [Staged(p) EXCEPT ![n] = after]]
    BY <1>6 DEF Fetch
  <2>2. UNCHANGED proc /\ n \in Files
    BY <1>6 DEF Fetch
  <2>3. Stays(p)
    BY <2>2 DEF Stays, Alike, Kept
  <2>4. staging'[k] = [Staged(p) EXCEPT ![n] = after] /\ Staged(p) \in [Files -> FileStates]
    BY <1>2, <2>1, StagedFacts DEF RetryInv, IInv
  <2>5. staging'[k] # Missing /\ \A f \in Files : f # n => staging'[k][f] = Staged(p)[f]
    <3>1. staging'[k] \in [Files -> FileStates]
      BY <2>4
    <3>2. staging'[k] # Missing
      BY <3>1, PackageAssumption DEF Files
    <3> QED BY <2>4, <3>2
  <2>6. \A f \in Files : f < n => f # n
    BY <1>2 DEF Files
  <2>7. Alone(proc[p]) => \A f \in Files : f < n => staging'[k][f] = "whole"
    BY <1>3, <1>4, <2>5, <2>6
  <2>8. Alone(proc[p]) => OnItsWay(proc[p])'
    BY <1>1, <1>2, <1>4, <2>2, <2>5, <2>7 DEF OnItsWay, StagedFile
  <2> QED BY <1>1, <1>2, <2>2, <2>3, <2>8, GoesOn DEF Alone
<1>7. CASE FetchFails(p)
  BY <1>1, <1>7, FailsGoesOn DEF FetchFails
<1>8. CASE Fetched(p)
  <2>1. Becomes(p, Goto(p, "verify")) /\ UNCHANGED staging /\ n \notin Files
    BY <1>8 DEF Fetched, diskVars
  <2>2. proc'[p] = Goto(p, "verify") /\ Stays(p)
    BY <1>2, <2>1, BecomesStays
  <2>3. Kept(proc'[p], proc[p]) /\ proc'[p].pc = "verify"
    BY <1>2, <2>2, GotoFacts, GotoKeeps DEF Places
  <2>4. \A f \in Files : f < n
    BY <1>2, <2>1, PackageAssumption DEF Files
  <2>5. Alone(proc'[p]) => Alone(proc[p]) /\ OnItsWay(proc[p])'
    BY <1>1, <1>2, <1>4, <2>1, <2>3, <2>4 DEF OnItsWay, Alone, Kept, StagedFile
  <2> QED BY <1>1, <1>2, <2>2, <2>3, <2>5, GoesOn DEF LocksFirst, Kept, Locked
<1> QED BY <1>5, <1>6, <1>7, <1>8

\* The verification of an installation that is alone finds every file whole.
LEMMA VerifyAlone ==
    ASSUME RetryInv, NEW p \in Processes, Verify(p)
    PROVE  LocksAreHeld' /\ AloneInv'
<1> DEFINE k == Pkg(p)
           n == proc[p].file
<1>1. /\ ~Quiet(p) /\ proc[p].pc = "verify" /\ UNCHANGED <<staging, active, lock>>
  BY DEF Verify, At, Quiet, diskVars
<1>2. /\ IInv /\ proc[p] \in Operations /\ k = proc[p].pkg /\ k \in Packages
      /\ Alone(proc[p]) => OnItsWay(proc[p])
  BY <1>1, Working
<1>3. Alone(proc[p]) => /\ ~proc[p].cancelled /\ active[k] = Missing
                        /\ \A f \in Files : StagedFile(k, f) = "whole"
  BY <1>1, <1>2 DEF OnItsWay
<1>4. ASSUME proc'[p].pc \in {"verify", "activate"}, Kept(proc'[p], proc[p]), Stays(p)
      PROVE  LocksAreHeld' /\ AloneInv'
  <2>1. Alone(proc'[p]) => Alone(proc[p]) /\ OnItsWay(proc[p])'
    BY <1>1, <1>2, <1>3, <1>4 DEF OnItsWay, Alone, Kept, StagedFile
  <2> QED BY <1>1, <1>2, <1>4, <2>1, GoesOn DEF LocksFirst, Kept, Locked
<1>5. CASE n \notin Files
  <2>1. Becomes(p, Goto(p, "activate"))
    BY <1>5 DEF Verify
  <2>2. proc'[p] = Goto(p, "activate") /\ Stays(p)
    BY <1>2, <2>1, BecomesStays
  <2> QED BY <1>2, <1>4, <2>2, GotoFacts, GotoKeeps DEF Places
<1>6. CASE n \in Files /\ Staged(p)[n] = "whole"
  <2>1. Becomes(p, Next1(p))
    BY <1>6 DEF Verify
  <2>2. proc'[p] = Next1(p) /\ Stays(p)
    BY <1>2, <2>1, BecomesStays
  <2> QED BY <1>1, <1>2, <1>4, <2>2, NextFacts, NextKeeps
<1>7. CASE n \in Files /\ Staged(p)[n] # "whole"
  <2>1. Becomes(p, Release(p, "error"))
    BY <1>7 DEF Verify
  <2>2. proc'[p] = Release(p, "error") /\ Stays(p)
    BY <1>2, <2>1, BecomesStays
  <2>3. Kept(proc'[p], proc[p]) /\ proc'[p].pc = "unlock"
    BY <1>2, <2>2, ReleaseFacts, ReleaseKeeps
  <2>4. ~Alone(proc[p])
    BY <1>2, <1>3, <1>7, StagedFacts DEF RetryInv
  <2> QED BY <1>1, <1>2, <2>2, <2>3, <2>4, GoesOn DEF LocksFirst, Kept, Locked, Alone
<1> QED BY <1>5, <1>6, <1>7

\* Its rename finds the destination free, and leaves the package there.
LEMMA ActivateAlone ==
    ASSUME RetryInv, NEW p \in Processes, Activate(p)
    PROVE  LocksAreHeld' /\ AloneInv'
<1> DEFINE k == Pkg(p)
<1>1. /\ ~Quiet(p) /\ proc[p].pc = "activate" /\ UNCHANGED lock
  BY DEF Activate, At, Quiet
<1>2. /\ IInv /\ proc[p] \in Operations /\ k = proc[p].pkg /\ k \in Packages
      /\ Alone(proc[p]) => OnItsWay(proc[p])
  BY <1>1, Working
<1>3. Alone(proc[p]) => /\ ~proc[p].cancelled /\ active[k] = Missing
                        /\ \A f \in Files : StagedFile(k, f) = "whole"
  BY <1>1, <1>2 DEF OnItsWay
<1>4. 1 \in Files
  BY PackageAssumption DEF Files
<1>5. CASE active[k] # Missing \/ staging[k] = Missing
  <2>1. Becomes(p, Release(p, "error"))
    BY <1>5 DEF Activate
  <2>2. proc'[p] = Release(p, "error") /\ Stays(p)
    BY <1>2, <2>1, BecomesStays
  <2>3. Kept(proc'[p], proc[p]) /\ proc'[p].pc = "unlock"
    BY <1>2, <2>2, ReleaseFacts, ReleaseKeeps
  <2>4. ~Alone(proc[p])
    BY <1>3, <1>4, <1>5 DEF StagedFile
  <2> QED BY <1>1, <1>2, <2>2, <2>3, <2>4, GoesOn DEF LocksFirst, Kept, Locked, Alone
<1>6. CASE active[k] = Missing /\ staging[k] # Missing
  <2> DEFINE released == [proc EXCEPT ![p] = Release(p, "ok")]
  <2>1. /\ active' = [active EXCEPT ![k] = {f \in Files : staging[k][f] = "whole"}]
        /\ proc' = Moved(released, k, "staging", "active")
    BY <1>6 DEF Activate
  <2>2. /\ Release(p, "ok") \in Operations /\ Release(p, "ok").pc = "unlock"
        /\ Kept(Release(p, "ok"), proc[p]) /\ Release(p, "ok").result = "ok"
    BY <1>2, ReleaseFacts, ReleaseKeeps
  <2>3. /\ released \in [Processes -> Operations] /\ released[p] = Release(p, "ok")
        /\ \A q \in Processes \ {p} : released[q] = proc[q]
    BY <1>2, <2>2 DEF IInv
  <2> HIDE DEF released
  <2>4. \A q \in Processes : Alike(proc'[q], released[q]) /\ Kept(proc'[q], released[q])
                             /\ proc'[q].result = released[q].result
    BY <2>1, <2>3, MovedFacts, MovedKeeps
  <2>5. Stays(p)
    BY <2>3, <2>4 DEF Stays
  <2>6. proc'[p].pc = "unlock" /\ Kept(proc'[p], proc[p]) /\ proc'[p].result = "ok"
    BY <2>2, <2>3, <2>4 DEF Alike, Kept
  <2>7. Alone(proc[p]) => active'[k] = Files
    <3>1. active'[k] = {f \in Files : staging[k][f] = "whole"}
      BY <1>2, <2>1 DEF IInv
    <3> QED BY <1>3, <1>6, <3>1 DEF StagedFile
  <2>8. Alone(proc'[p]) => Alone(proc[p]) /\ OnItsWay(proc[p])'
    BY <1>2, <1>3, <2>6, <2>7 DEF OnItsWay, Alone, Kept
  <2> QED BY <1>1, <1>2, <2>5, <2>6, <2>8, GoesOn DEF LocksFirst, Kept, Locked
<1> QED BY <1>5, <1>6

-----------------------------------------------------------------------------
\* A process that is killed was at work, so nobody else was alone.
LEMMA CrashAlone ==
    ASSUME RetryInv, NEW p \in Processes, Crash(p)
    PROVE  LocksAreHeld' /\ AloneInv'
<1>1. ~Quiet(p) /\ Becomes(p, NoOperation) /\ IInv
  BY DEF Crash, RetryInv
<1>2. PICK left \in {"free", "stale"} :
        lock' = [k \in Packages |-> IF lock[k] = p THEN left ELSE lock[k]]
  BY PackageAssumption DEF Crash
<1>3. proc'[p] = NoOperation /\ Stays(p)
  BY <1>1, BecomesStays
<1>4. ~LocksFirst(NoOperation) /\ ~Alone(NoOperation)
  BY DEF LocksFirst, Alone, NoOperation
<1>5. /\ \A k \in Packages : lock'[k] # p
      /\ \A k \in Packages, q \in Processes \ {p} : lock'[k] = q => lock[k] = q
  BY <1>2, PackageAssumption
<1>6. LocksAreHeld'
  BY <1>3, <1>4, <1>5, LocksKept DEF RetryInv, Stays
<1> QED BY <1>1, <1>3, <1>4, <1>6, WorkAlone

\* An operation that begins ends the solitude of every other, and is alone if
\* they are all quiet: then nobody holds a lock.
LEMMA BeganAlone ==
    ASSUME RetryInv, NEW p \in Processes, Quiet(p), NEW op \in {"install", "remove", "clear"},
           NEW k \in Packages, proc' = Began(p, Operation(p, op, k)),
           UNCHANGED <<active, lock>>
    PROVE  LocksAreHeld' /\ AloneInv'
<1> DEFINE o == Operation(p, op, k)
<1>1. /\ o.op = op /\ o.pkg = k /\ o.pc = First(op) /\ o.cancelled = FALSE
      /\ o.alone = Undisturbed(p, k)
  BY DEF Operation, NoOperation
<1> HIDE DEF o
<1>2. IInv
  BY DEF RetryInv
<1>3. proc'[p] = o /\ \A q \in Processes \ {p} : proc'[q] = [proc[q] EXCEPT !.alone = FALSE]
  BY DEF Began, o
<1>4. \A q \in Processes \ {p} : Alike(proc'[q], proc[q]) /\ ~proc'[q].alone
  <2> TAKE q \in Processes \ {p}
  <2>1. proc[q] \in Operations
    BY <1>2 DEF IInv
  <2> QED BY <1>3, <2>1 DEF Operations, Alike
<1>5. \A q \in Processes : Quiet(q) => ~Locked(proc[q])
  BY DEF Quiet, Locked
<1>6. \A l \in Packages : lock[l] # p
  BY <1>5 DEF RetryInv, LocksAreHeld
<1>7. LocksFirst(o) => o.op \in {"install", "remove"}
  BY <1>1 DEF LocksFirst, First
<1>8. LocksAreHeld'
  BY <1>2, <1>3, <1>4, <1>6, <1>7, LocksKept DEF RetryInv
<1>9. ASSUME Alone(o)
      PROVE  /\ \A q \in Processes \ {p} : Quiet(q)'
             /\ OnItsWay(proc[p])'
  <2>1. op = "install" /\ Undisturbed(p, k)
    BY <1>1, <1>9 DEF Alone
  <2>2. \A q \in Processes \ {p} : Quiet(q)
    BY <2>1 DEF Undisturbed
  <2>3. \A q \in Processes \ {p} : Quiet(q)'
    BY <1>4, <2>2 DEF Quiet, Alike
  <2>4. lock[k] = "free"
    <3>1. lock[k] \in Processes \cup {"free", "stale"}
      BY <1>2 DEF IInv
    <3>2. \A q \in Processes : lock[k] # q
      BY <1>5, <1>6, <2>2 DEF RetryInv, LocksAreHeld
    <3> QED BY <2>1, <3>1, <3>2 DEF Undisturbed
  <2>5. active[k] \in {Missing, Files} /\ o.pc = "look"
    BY <1>1, <2>1 DEF Undisturbed, First
  <2>6. OnItsWay(proc[p])'
    BY <1>1, <1>3, <2>4, <2>5 DEF OnItsWay
  <2> QED BY <2>3, <2>6
<1>10. AloneInv'
  BY <1>3, <1>4, <1>9 DEF AloneInv, Alone
<1> QED BY <1>8, <1>10

\* What a task takes from an operation of its own leaves the others as alone as
\* they were.
LEMMA OwnAlone ==
    ASSUME RetryInv, NEW p \in Processes, NEW o, Becomes(p, o), UNCHANGED <<staging, active, lock>>,
           Quiet(p) => o.pc \in {"idle", "done"},
           Locked(proc[p]) => Locked(o) /\ o.pkg = proc[p].pkg,
           LocksFirst(o) => o.op \in {"install", "remove"},
           ~Alone(o)
    PROVE  LocksAreHeld' /\ AloneInv'
<1>1. proc'[p] = o /\ Stays(p) /\ IInv
  BY BecomesStays DEF RetryInv
<1>2. \A q \in Processes \ {p} : proc'[q] = proc[q]
  BY <1>1 DEF Becomes, IInv
<1>3. LocksAreHeld'
  BY <1>1, LocksKept DEF RetryInv, LocksAreHeld, Stays, Pkg
<1>4. ASSUME NEW q \in Processes, Alone(proc'[q])
      PROVE  /\ \A r \in Processes \ {q} : proc'[r].pc \in {"idle", "done"}
             /\ OnItsWay(proc[q])'
  <2>1. q # p /\ proc'[q] = proc[q]
    BY <1>1, <1>2, <1>4
  <2>2. /\ \A r \in Processes \ {q} : Quiet(r)
        /\ OnItsWay(proc[q])
    BY <1>4, <2>1 DEF RetryInv, AloneInv
  <2>3. OnItsWay(proc[q])'
    BY <2>1, <2>2 DEF OnItsWay, StagedFile
  <2> QED BY <1>1, <1>2, <2>2, <2>3 DEF Quiet
<1>5. AloneInv'
  BY <1>4 DEF AloneInv, Quiet, Alone, OnItsWay, StagedFile
<1> QED BY <1>3, <1>5

LEMMA TaskAlone ==
    ASSUME RetryInv,
           \/ Asks
           \/ \E c \in Clients : \/ Discover(c) \/ InvalidateDiscovery(c)
                                 \/ SwitchWhileInstalling(c) \/ Poll(c) \/ Discovered(c)
           \/ \E p \in Processes : Returns(p) \/ Killed(p)
           \/ UNCHANGED taskVars
    PROVE  LocksAreHeld' /\ AloneInv'
<1> USE TaskAssumption
<1>1. IInv /\ \A p \in Processes : proc[p] \in Operations
  BY DEF RetryInv, IInv
<1>2. ASSUME UNCHANGED <<diskVars, proc>> PROVE LocksAreHeld' /\ AloneInv'
  BY <1>2 DEF diskVars, RetryInv, LocksAreHeld, AloneInv, Alone, OnItsWay, Quiet, Locked, Pkg,
              LocksFirst, StagedFile
<1>3. CASE Asks
  <2>1. PICK p \in Processes, op \in {"install", "remove", "clear"}, k \in Packages :
          Begin(p, op, k)
    BY <1>3 DEF Asks, Install, Delete, Switch, InstallerRuns, AskFor
  <2> QED BY <2>1, BeganAlone DEF Begin, diskVars, At, Quiet
<1>4. ASSUME NEW p \in Processes, At(p, "done"), Becomes(p, NoOperation), UNCHANGED diskVars
      PROVE  LocksAreHeld' /\ AloneInv'
  <2>1. ~Alone(NoOperation) /\ NoOperation.pc = "idle"
    BY DEF Alone, NoOperation
  <2> QED BY <1>4, <2>1, OwnAlone DEF At, Locked, LocksFirst, diskVars
<1>5. ASSUME NEW c \in Clients, SwitchWhileInstalling(c)
      PROVE  LocksAreHeld' /\ AloneInv'
  <2> DEFINE o == [proc[c] EXCEPT !.cancelled = TRUE, !.alone = FALSE]
  <2>1. Becomes(c, o) /\ UNCHANGED <<staging, active, lock>>
    BY <1>5 DEF SwitchWhileInstalling, diskVars
  <2>2. Alike(o, proc[c]) /\ ~Alone(o)
    BY <1>1 DEF Operations, Alike, Alone
  <2> HIDE DEF o
  <2> QED BY <2>1, <2>2, OwnAlone DEF Alike, Quiet, Locked, LocksFirst, RetryInv, LocksAreHeld
<1>6. ASSUME NEW c \in Clients, Poll(c)
      PROVE  LocksAreHeld' /\ AloneInv'
  <2>1. UNCHANGED diskVars /\ At(c, "done")
    BY <1>6 DEF Poll, Result
  <2>2. Pkg(c) \in Packages /\ Quiet(c)
    BY <1>1, <2>1, Own DEF At, Quiet
  <2>3. \/ proc' = Began(c, Operation(c, "install", Pkg(c)))
        \/ Becomes(c, NoOperation)
    BY <1>6 DEF Poll, Result
  <2> QED BY <1>4, <2>1, <2>2, <2>3, BeganAlone DEF diskVars
<1>7. ASSUME NEW p \in Processes, Returns(p) \/ Killed(p)
      PROVE  LocksAreHeld' /\ AloneInv'
  BY <1>4, <1>7, CrashAlone DEF Returns, Killed
<1>8. ASSUME NEW c \in Clients, Discover(c) \/ InvalidateDiscovery(c) \/ Discovered(c)
      PROVE  LocksAreHeld' /\ AloneInv'
  BY <1>2, <1>8 DEF Discover, InvalidateDiscovery, Discovered, NoDiskWork
<1>9. CASE UNCHANGED taskVars
  BY <1>2, <1>9 DEF taskVars, vars, diskVars
<1> QED BY <1>3, <1>5, <1>6, <1>7, <1>8, <1>9

LEMMA InitRetry == Init => RetryInv
<1> SUFFICES ASSUME Init PROVE RetryInv
  OBVIOUS
<1>1. PackageInit /\ IInv
  BY InitInv DEF Init
<1>2. \A p \in Processes : proc[p] = NoOperation
  BY <1>1 DEF PackageInit
<1>3. LocksAreHeld /\ AloneInv
  BY <1>1, <1>2, PackageAssumption
     DEF PackageInit, LocksAreHeld, AloneInv, Alone, LocksFirst, NoOperation
<1>4. StagingInv
  BY <1>1, <1>2 DEF PackageInit, StagingInv, Open, NoOperation, NoSweep
<1> QED BY <1>1, <1>3, <1>4 DEF RetryInv

LEMMA StepRetry ==
    ASSUME RetryInv, [Next]_taskVars
    PROVE  RetryInv'
<1>1. IInv' /\ StagingInv'
  BY StepInv, StagingStep DEF RetryInv
<1>2. ASSUME NEW p \in Processes, Works(p) \/ FetchEnds(p)
      PROVE  LocksAreHeld' /\ AloneInv'
  BY <1>2, LookAlone, AcquireAlone, UnlockAlone, PruneAlone, ElsewhereAlone, SweepAlone,
     FetchAlone, VerifyAlone, ActivateAlone DEF Works, FetchEnds, Work
<1>3. LocksAreHeld' /\ AloneInv'
  BY <1>2, TaskAlone DEF Next
<1> QED BY <1>1, <1>3 DEF RetryInv

\* An installation that nobody crosses or cancels, whose downloads succeed and
\* which finds no lock of a dead process and no half of a removed package, ends
\* with the package at its destination, whatever earlier installations, crashes,
\* failures and cancellations left in staging (install.rs: "preserve the staging
\* directory for a safe retry").
THEOREM RetriesAreSafe == Spec => []RetryIsSafe
<1>1. RetryInv => RetryIsSafe
  BY DEF RetryInv, AloneInv, Alone, OnItsWay, RetryIsSafe, At, Pkg
<1> QED BY <1>1, InitRetry, StepRetry, PTL DEF Spec
=============================================================================
