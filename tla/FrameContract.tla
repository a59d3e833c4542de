---------------------------- MODULE FrameContract ---------------------------
(***************************************************************************)
(* What presentation owes renderers, displays and the memory they use, for *)
(* every submission: acquire, render, renderer wait, flush, display wait,  *)
(* retire (the driver contract stated with Renderer and DisplayOutput in   *)
(* engine/drivers/src, and in its ABI).  Coordinator implements it.        *)
(***************************************************************************)
EXTENDS Naturals, FiniteSets

CONSTANTS Displays, Submissions, Shapes

VARIABLES
  shape,     (* of a display: does it flush early, overlap two strips       *)
  issued,    (* submissions whose memory is not released yet                *)
  drawing,   (* submissions the renderer's hardware may still execute       *)
  reading,   (* submissions whose target the display still reads            *)
  flushed    (* issued submissions whose transfer was started               *)

vars == <<shape, issued, drawing, reading, flushed>>

Init ==
  /\ shape \in [Displays -> Shapes]
  /\ issued = {} /\ drawing = {} /\ reading = {} /\ flushed = {}

Of(d) == {s \in issued : s.display = d}
Overlap(d) == IF shape[d].pipelined /\ shape[d].strips > 1 THEN 1 ELSE 0

(* A target is acquired and drawn when nothing else is drawn on that        *)
(* display, and no more than one overlapped transfer still runs.            *)
Submit(s) ==
  /\ s \notin issued
  /\ Of(s.display) \cap drawing = {}
  /\ Cardinality(Of(s.display)) <= Overlap(s.display)
  /\ issued' = issued \cup {s}
  /\ drawing' = drawing \cup {s}
  /\ UNCHANGED <<shape, reading, flushed>>

Drawn(s) ==
  /\ s \in drawing
  /\ drawing' = drawing \ {s}
  /\ UNCHANGED <<shape, issued, reading, flushed>>

(* A transfer starts once, after the drawing unless the device orders it.   *)
Flush(s) ==
  /\ s \in issued \ flushed
  /\ s \in drawing => shape[s.display].queued
  /\ reading' = reading \cup {s}
  /\ flushed' = flushed \cup {s}
  /\ UNCHANGED <<shape, issued, drawing>>

Shown(s) ==
  /\ s \in reading
  /\ reading' = reading \ {s}
  /\ UNCHANGED <<shape, issued, drawing, flushed>>

(* Memory is released once neither device uses it.                          *)
Retire(s) ==
  /\ s \in issued \ (drawing \cup reading)
  /\ issued' = issued \ {s}
  /\ flushed' = flushed \ {s}
  /\ UNCHANGED <<shape, drawing, reading>>

(* Destroying a display stops its transfers; destroying a renderer and the  *)
(* displays it draws on stops everything on them.                           *)
StopDisplay(d) ==
  /\ reading' = {s \in reading : s.display # d}
  /\ UNCHANGED <<shape, issued, drawing, flushed>>

Stop(D) ==
  /\ issued' = {s \in issued : s.display \notin D}
  /\ drawing' = {s \in drawing : s.display \notin D}
  /\ reading' = {s \in reading : s.display \notin D}
  /\ flushed' = {s \in flushed : s.display \notin D}
  /\ UNCHANGED shape

(* Output geometry changes only between frames, with nothing in flight.     *)
Configure ==
  /\ issued = {}
  /\ shape' \in [Displays -> Shapes]
  /\ UNCHANGED <<issued, drawing, reading, flushed>>

Next ==
  \/ \E s \in Submissions :
       Submit(s) \/ Drawn(s) \/ Flush(s) \/ Shown(s) \/ Retire(s)
  \/ \E d \in Displays : StopDisplay(d)
  \/ \E D \in SUBSET Displays : Stop(D)
  \/ Configure

Spec == Init /\ [][Next]_vars
=============================================================================
