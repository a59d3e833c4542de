---------------------------- MODULE MCModelTasks ----------------------------
(***************************************************************************)
(* An instance of ModelTasks for TLC: f of one region awaits calls of g,   *)
(* of another, as such or wrapped in a race against a time; g waits for    *)
(* two answers of a service that has room for one, or for an animation,    *)
(* and may start and cancel f, which waits for it.                         *)
(***************************************************************************)
EXTENDS ModelTasksProperties
CONSTANTS f, g
Homes == (f :> 1) @@ (g :> 2)
Is(k) == [kind |-> k]
Joins(x, w) == [kind |-> "join", fn |-> x, wrapped |-> w]
One(m) == [any |-> FALSE, members |-> <<m>>]
Both(m, n) == [any |-> FALSE, members |-> <<m, n>>]
Either(m, n) == [any |-> TRUE, members |-> <<m, n>>]
Menu == (f :> {One(Joins(g, FALSE)), Both(Joins(g, FALSE), Joins(g, FALSE)), Either(Joins(g, TRUE), Is("time"))})
     @@ (g :> {Both(Is("service"), Is("service")), One(Is("animate"))})
Uses == (f :> {}) @@ (g :> {f})
Most == (f :> 1) @@ (g :> 2)
Longest == (f :> 2) @@ (g :> 2)
=============================================================================
