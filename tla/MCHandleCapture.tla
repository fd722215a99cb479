-------------------------- MODULE MCHandleCapture --------------------------
(***************************************************************************)
(* Instances of HandleCapture for TLC: three handles of two variables, the *)
(* third of a type that may only read and without a variable at first.     *)
(***************************************************************************)
EXTENDS HandleCapture

CONSTANTS x, y, h1, h2, h3

TwoVariables == {x, y}
ThreeHandles == {h1, h2, h3}

OneHandleEach ==
  [h \in ThreeHandles |-> IF h = h1 THEN x ELSE IF h = h2 THEN y ELSE NoVariable]

TwoHandlesOfOne ==
  [h \in ThreeHandles |-> IF h = h3 THEN NoVariable ELSE x]

ThirdReadsOnly == [h \in ThreeHandles |-> IF h = h3 THEN {"ReadOnly"} ELSE {}]

NoStaticFlags == [h \in ThreeHandles |-> {}]

\* At most one handle is flagged, in any way.
OneHandleFlagged ==
  {[h \in ThreeHandles |-> IF h = g THEN f ELSE {}] :
     g \in ThreeHandles, f \in SUBSET {"ReadOnly", "ScheduleOnly"}}

OneHandleReads ==
  {[h \in ThreeHandles |-> IF h = g THEN f ELSE {}] :
     g \in ThreeHandles, f \in SUBSET {"ReadOnly"}}
=============================================================================
