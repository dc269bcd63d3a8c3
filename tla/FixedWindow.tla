---------------------------- MODULE FixedWindow ----------------------------
(***************************************************************************)
(* Continuous recognition: overlapping windows of fixed length between an  *)
(* idle gate that opens on activity and closes on quiet (FixedWindow in    *)
(* pipeline.rs).  A window is a record and an operation returns what it    *)
(* becomes and the events it completes.  Lengths are in frames: the code's *)
(* counts of samples are all multiples of a frame.                         *)
(***************************************************************************)
EXTENDS Naturals, Sequences, SequencesExt

CONSTANTS
    FirstWindow,     \* 62 frames in the code
    WindowFrames,    \* 94
    ExpandedWindow,  \* 126
    HopFrames,       \* 62
    WindowPreRoll,   \* 6
    ReleaseFrames,   \* 16
    OpeningFrames,   \* 3
    StreamEndFrames  \* 62

ASSUME WindowAssumption ==
    /\ {FirstWindow, WindowFrames, ExpandedWindow, HopFrames, WindowPreRoll,
        ReleaseFrames, OpeningFrames, StreamEndFrames} \subseteq Nat \ {0}
    /\ WindowFrames > HopFrames /\ ExpandedWindow > WindowFrames
    /\ OpeningFrames <= WindowPreRoll /\ WindowPreRoll < FirstWindow
    /\ FirstWindow <= WindowFrames

\* FixedWindow::new.  adaptive: the audio is that of the system.
NewWindow(adaptive) ==
    [samples |-> <<>>, preRoll |-> <<>>, open |-> FALSE, quiet |-> 0, overlap |-> 0,
     activity |-> FALSE, emitted |-> FALSE, opening |-> 0, adaptive |-> adaptive,
     expanded |-> FALSE, sparse |-> 0, dense |-> 0, streamOpen |-> FALSE, idle |-> 0]

WindowEvent(frames, overlap, reason) ==
    [frames |-> frames, overlap |-> overlap, reason |-> reason]
StreamEnded == [frames |-> <<>>, overlap |-> 0, reason |-> "ended"]
Quietly(w) == [window |-> w, out |-> <<>>]

Smaller(a, b) == IF a <= b THEN a ELSE b
NewestFrames(s, n) == SubSeq(s, Len(s) - Smaller(n, Len(s)) + 1, Len(s))
Without(s, n) == SubSeq(s, n + 1, Len(s))

CurrentWindow(w) == IF w.expanded THEN ExpandedWindow ELSE WindowFrames
Required(w) == IF w.emitted THEN CurrentWindow(w) ELSE FirstWindow

\* take_window: all but the overlap is done with.
TakeWindow(w) ==
    LET length == Required(w)
        overlap == Smaller((IF w.emitted THEN CurrentWindow(w) ELSE WindowFrames) - HopFrames,
                           length - 1)
    IN [window |-> [w EXCEPT !.samples = Without(@, length - overlap),
                             !.overlap = overlap, !.activity = FALSE, !.emitted = TRUE],
        out |-> <<WindowEvent(SubSeq(w.samples, 1, length), w.overlap, "window")>>]

\* What close_gate and reset have in common.
Closed(w, idle) ==
    [w EXCEPT !.samples = <<>>, !.preRoll = <<>>, !.open = FALSE, !.quiet = 0,
              !.overlap = 0, !.activity = FALSE, !.emitted = FALSE, !.opening = 0,
              !.idle = idle]

\* close_gate: what is left has been heard already unless there was activity.
CloseGate(w) ==
    [window |-> Closed(w, w.quiet),
     out |-> IF w.activity THEN <<WindowEvent(w.samples, w.overlap, "silence")>> ELSE <<>>]

\* push, once the frame is in the samples.
Emit(w) ==
    IF Len(w.samples) >= Required(w) THEN TakeWindow(w)
    ELSE IF w.quiet >= ReleaseFrames THEN CloseGate(w)
    ELSE Quietly(w)

\* push while the gate is closed.
Idle(w) ==
    IF w.streamOpen /\ w.idle + 1 >= StreamEndFrames
    THEN [window |-> [w EXCEPT !.opening = 0, !.streamOpen = FALSE, !.idle = 0],
          out |-> <<StreamEnded>>]
    ELSE Quietly([w EXCEPT !.opening = 0, !.idle = IF w.streamOpen THEN @ + 1 ELSE @])

Knock(w) ==
    IF w.opening + 1 < OpeningFrames
    THEN Quietly([w EXCEPT !.opening = @ + 1])
    ELSE Emit([w EXCEPT !.opening = @ + 1, !.open = TRUE, !.streamOpen = TRUE, !.idle = 0,
                        !.quiet = 0, !.activity = TRUE,
                        !.samples = @ \o w.preRoll, !.preRoll = <<>>])

PushWindow(w, frame, active) ==
    LET kept == [w EXCEPT !.preRoll = NewestFrames(Append(@, frame), WindowPreRoll)]
    IN IF ~w.open
       THEN IF active THEN Knock(kept) ELSE Idle(kept)
       ELSE Emit([w EXCEPT !.samples = Append(@, frame),
                           !.quiet = IF active THEN 0 ELSE @ + 1,
                           !.activity = @ \/ active])

\* observe_text_density.  The counters saturate far above the 2 they are
\* compared with.
Densities == {"sparse", "ordinary", "dense"}

\* Mutant: the samples are cut, the overlap is still declared.
ShrunkUndeclared(w) ==
    LET excess == IF w.overlap > WindowFrames - HopFrames
                  THEN w.overlap - (WindowFrames - HopFrames) ELSE 0
    IN [w EXCEPT !.expanded = FALSE, !.samples = Without(@, excess)]

Shrunk(w) ==
    LET excess == IF w.overlap > WindowFrames - HopFrames
                  THEN w.overlap - (WindowFrames - HopFrames) ELSE 0
    IN [w EXCEPT !.expanded = FALSE, !.samples = Without(@, excess), !.overlap = @ - excess]

Observe(w, density) ==
    LET counted == [w EXCEPT !.sparse = IF density = "sparse" THEN Smaller(@ + 1, 2) ELSE 0,
                             !.dense = IF density = "dense" THEN Smaller(@ + 1, 2) ELSE 0]
    IN CASE ~w.adaptive -> w
         [] w.adaptive /\ counted.sparse = 2 -> [counted EXCEPT !.expanded = TRUE]
         [] w.adaptive /\ counted.dense = 2 -> Shrunk(counted)
         [] OTHER -> counted

ResetWindow(w) == [Closed(w, 0) EXCEPT !.streamOpen = FALSE]

\* flush: only pre-roll is dropped while the gate is closed.
FlushWindow(w) ==
    IF ~w.open THEN Quietly([w EXCEPT !.preRoll = <<>>])
    ELSE [window |-> ResetWindow(w),
          out |-> IF w.activity THEN <<WindowEvent(w.samples, w.overlap, "flushed")>> ELSE <<>>]

HeldByWindow(w) == ToSet(w.samples) \cup ToSet(w.preRoll)
=============================================================================
