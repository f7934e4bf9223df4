---------------------------- MODULE MCCommander -----------------------------
(***************************************************************************)
(* A small mission for TLC: pad, then boost and coast under the composite  *)
(* state ascent, then descent.  Two events may leave boost, and "apogee"   *)
(* names its target in the action, so that in boost it moves along the     *)
(* edge of "abort".                                                        *)
(***************************************************************************)
EXTENDS Commander

MCStates == {"pad", "ascent", "boost", "coast", "descent"}
MCPhases == MCStates \ {"ascent"}
MCParent == [s \in MCStates |-> IF s \in {"boost", "coast"} THEN "ascent" ELSE NoState]

MCEvents == {"liftoff", "meco", "abort", "apogee"}
Edge(from, event, to) == [from |-> from, event |-> event, to |-> to]
MCEdges == {Edge("pad", "liftoff", "boost"), Edge("boost", "meco", "coast"),
            Edge("boost", "abort", "descent"), Edge("coast", "apogee", "descent")}
MCDepth == [pad |-> 0, boost |-> 1, coast |-> 2, descent |-> 3]

Bind(event, action, once) == [event |-> event, action |-> action, once |-> once]
MCBindings == <<Bind("abort", Marker, FALSE), Bind("apogee", EnterState("descent"), FALSE),
                Bind("liftoff", Marker, TRUE), Bind("meco", RequestSafe, TRUE)>>

Lists(boost, ascent, other) ==
  [s \in MCStates |-> CASE s = "boost" -> boost [] s = "ascent" -> ascent [] OTHER -> other]

\* Actions that move the phase and the regions themselves.
MCOnEntry  == Lists(<<SetRegion("mission", "pad")>>, <<>>, 
                        <<EnterState("boost"), SetRegion("health", "nominal")>>)
MCOnExit   == Lists(<<EnterState("coast")>>, <<RaiseAlarm>>, <<>>)
MCOnActive == [Lists(<<EnterState("coast")>>, <<>>, <<>>)
                 EXCEPT !["descent"] = <<SetRegion("health", "nominal")>>]

Snap(flags, estimator, fdir, climbing) ==
  [flags |-> flags, estimator |-> estimator, fdir |-> fdir, climbing |-> climbing]
MCSnapshots == {
  Snap("none", "none", "none", FALSE), Snap("raised", "ready", "clear", FALSE),
  Snap("clear", "notready", "clear", TRUE), Snap("clear", "ready", "clear", TRUE),
  Snap("clear", "ready", "degraded", FALSE), Snap("clear", "ready", "safe", FALSE),
  Snap("raised", "ready", "safe", FALSE) }
=============================================================================
