------------------------- MODULE HandleCaptureProofs -------------------------
(***************************************************************************)
(* Theorems about HandleCapture, for every number of handles, variables    *)
(* and tasks, and every assignment of handles to variables.                *)
(*                                                                         *)
(* MarksMatch says what the marks stand for: while a task captures, the    *)
(* marked variables are those it has captured, each through one handle     *)
(* that the task mentions and whose copy is made.  FlagsKept says what     *)
(* care buys: a handle has a flag only between the create_work that asks   *)
(* for it and its capture.                                                 *)
(***************************************************************************)
EXTENDS HandleCapture, CaptureTableProofs

(***************************************************************************)
(* Types                                                                   *)
(***************************************************************************)
\* A handle that can be captured refers to a variable.
LEMMA CapturableRefers ==
  ASSUME TypeOK, NEW h \in Handles, CanBeCaptured(h)
  PROVE  holder[h] \in Variables
BY DEF TypeOK, CanBeCaptured

\* Handles that come to point elsewhere keep the types.
LEMMA PointToTyped ==
  ASSUME TypeOK, NEW g \in Handles, NEW variable \in Variables \cup {NoVariable},
         PointTo(g, variable)
  PROVE  /\ holder' \in [Handles -> Variables \cup {NoVariable}]
         /\ use' \in [Variables -> PermissionPairs]
<1>1. ReleasedUse \in PermissionPairs
  BY DEF ReleasedUse, Perms, PermissionPairs, Permissions, None, Modify
<1> QED
  BY <1>1 DEF TypeOK, PointTo

\* A capture keeps the types.
LEMMA MakeCaptureTyped ==
  ASSUME TypeOK, NEW h \in Handles, CanBeCaptured(h), CasesOf(h) # {}, MakeCapture(h)
  PROVE  /\ use' \in [Variables -> PermissionPairs]
         /\ flags' \in [Handles -> SUBSET FrontEndFlags]
         /\ captured' \subseteq CaptureRecords
         /\ remaining' \subseteq closure
<1> DEFINE case == CHOOSE c \in CasesOf(h) : TRUE
           v == holder[h]
<1>1. v \in Variables /\ use[v] \in PermissionPairs
  BY CapturableRefers DEF TypeOK
<1>2. case \in CasesOf(h)
  OBVIOUS
<1>3. case \in CaptureCases
  BY <1>2 DEF CasesOf, CasesFor
<1>4. ContinuingPermissions(case, use[v]) \in PermissionPairs
  BY <1>1, <1>3, CasesLeavePermissions DEF ContinuingPermissions, LeavesPermissions
<1>5. use' = [use EXCEPT ![v] = ContinuingPermissions(case, use[v])]
  BY DEF MakeCapture
<1>6. use' \in [Variables -> PermissionPairs]
  <2> HIDE DEF case
  <2> QED
    BY <1>4, <1>5 DEF TypeOK
<1>7. use[v].scheduling \in Permissions
  BY <1>1 DEF PermissionPairs
<1>8. MarkedFlags(h) \in SUBSET FrontEndFlags
  BY HandleAssumption DEF TypeOK, MarkedFlags
<1>9. Request(h) \in PermissionPairs
  BY <1>7, <1>8, RequestTyped DEF Request
<1>10. captured' \subseteq CaptureRecords
  BY <1>1, <1>7, <1>9 DEF TypeOK, MakeCapture, CaptureRecords
<1> QED
  BY <1>6, <1>10 DEF TypeOK, MakeCapture

\* Asking for no flags is a way of asking for flags: it has the type.
LEMMA NoFlagsTyped == NoFlags \in [Handles -> SUBSET FrontEndFlags]
BY DEF NoFlags

\* The types hold at first.
LEMMA TypeInit == Init => TypeOK
<1> SUFFICES ASSUME Init
             PROVE  TypeOK
  OBVIOUS
<1>1. SourceUses \cup {ReleasedUse} \subseteq PermissionPairs
  BY DEF SourceUses, ReleasedUse, Perms, PermissionPairs, Permissions, None, Read, Modify
<1>2. use \in [Variables -> PermissionPairs]
  BY <1>1 DEF Init, InitialUses
<1>3. 0 \in 0..MaxTasks
  BY HandleAssumption
<1>4. InitialHolder \in [Handles -> Variables \cup {NoVariable}]
  BY HandleAssumption
<1> QED
  BY <1>2, <1>3, <1>4, NoFlagsTyped DEF Init, TypeOK

\* Every step keeps the types.
LEMMA TypePreserved == TypeOK /\ [Next]_vars => TypeOK'
<1> SUFFICES ASSUME TypeOK, [Next]_vars
             PROVE  TypeOK'
  OBVIOUS
<1> USE HandleAssumption
<1>1. ASSUME NEW g \in Handles, NEW h \in Handles, Assign(g, h)
      PROVE  TypeOK'
  <2>1. holder[h] \in Variables \cup {NoVariable}
    BY DEF TypeOK
  <2> QED
    BY <1>1, <2>1, PointToTyped DEF Assign, TypeOK, taskVars, captureVars
<1>2. ASSUME NEW g \in Handles, NEW h \in Handles, CopyConstruct(g, h)
      PROVE  TypeOK'
  <2>1. holder[h] \in Variables \cup {NoVariable}
    BY DEF TypeOK
  <2> QED
    BY <1>2, <2>1, PointToTyped DEF CopyConstruct, TypeOK, taskVars, captureVars
<1>3. ASSUME NEW h \in Handles, Release(h)
      PROVE  TypeOK'
  BY <1>3, PointToTyped DEF Release, TypeOK, taskVars, captureVars
<1>4. ASSUME NEW h \in Handles, ObtainReference(h)
      PROVE  TypeOK'
  <2>1. holder[h] \in Variables /\ use[holder[h]] \in PermissionPairs
    BY <1>4 DEF TypeOK, ObtainReference
  <2>2. [use[holder[h]] EXCEPT !.scheduling = None] \in PermissionPairs
    BY <2>1 DEF PermissionPairs, Permissions, None
  <2>3. use' = [use EXCEPT ![holder[h]] = [use[holder[h]] EXCEPT !.scheduling = None]]
    BY <1>4 DEF ObtainReference
  <2>4. use' \in [Variables -> PermissionPairs]
    BY <2>2, <2>3 DEF TypeOK
  <2> QED
    BY <1>4, <2>4 DEF ObtainReference, TypeOK, taskVars, captureVars
<1>5. ASSUME NEW h \in Handles, SkipUnspecified(h)
      PROVE  TypeOK'
  BY <1>5 DEF SkipUnspecified, TypeOK, contextVars, taskVars
<1>6. ASSUME NEW h \in Handles, ShortCircuit(h)
      PROVE  TypeOK'
  <2>1. MarkedFlags(h) \in SUBSET FrontEndFlags
    BY DEF TypeOK, MarkedFlags
  <2> QED
    BY <1>6, <2>1 DEF ShortCircuit, TypeOK, taskVars
<1>7. ASSUME NEW h \in Handles, CaptureHandle(h)
      PROVE  TypeOK'
  <2>1. holder[h] \in Variables
    BY <1>7, CapturableRefers DEF CaptureHandle
  <2>2. /\ use' \in [Variables -> PermissionPairs]
        /\ flags' \in [Handles -> SUBSET FrontEndFlags]
        /\ captured' \subseteq CaptureRecords
        /\ remaining' \subseteq closure
    BY <1>7, MakeCaptureTyped DEF CaptureHandle
  <2> QED
    BY <1>7, <2>1, <2>2 DEF CaptureHandle, TypeOK, taskVars
<1>8. ASSUME NEW h \in Handles, CaptureFails(h)
      PROVE  TypeOK'
  BY <1>8 DEF CaptureFails, TypeOK, contextVars, taskVars
<1>9. ASSUME NEW mentioned \in (SUBSET Handles) \ {{}}, NEW modifications \in Modifications,
             NEW allowAliasing \in BOOLEAN, NEW mustSpecify \in BOOLEAN,
             CreateWork(mentioned, modifications, allowAliasing, mustSpecify)
      PROVE  TypeOK'
  <2>1. modifications \in [Handles -> SUBSET FrontEndFlags]
    BY DEF FrontEndFlags, CaptureFlags
  <2>2. tasks' \in 0..MaxTasks
    BY <1>9 DEF CreateWork, TypeOK
  <2> QED
    BY <1>9, <2>1, <2>2 DEF CreateWork, TypeOK
<1>10. CASE FinishCapture
  <2>1. asked' \in [Handles -> SUBSET FrontEndFlags]
    BY <1>10, NoFlagsTyped DEF FinishCapture, Registered
  <2> QED
    BY <1>10, <2>1 DEF FinishCapture, Registered, TypeOK, contextVars
<1>11. CASE UNCHANGED vars
  BY <1>11 DEF vars, TypeOK
<1> QED
  BY <1>1, <1>2, <1>3, <1>4, <1>5, <1>6, <1>7, <1>8, <1>9, <1>10, <1>11
  DEF Next, HandleStep, CopyStep

\* Type correctness: every variable of HandleCapture has its type; a capture
\* is recorded for a handle that refers to a variable, and what a case leaves
\* to its continuation are permissions.
THEOREM HandlesTyped == Spec => []TypeOK
BY TypeInit, TypePreserved, PTL DEF Spec

(***************************************************************************)
(* Marks                                                                   *)
(***************************************************************************)
\* The marked variables are those the task has captured, and what it has
\* captured is what the handles whose copies are made refer to.
MarksMatch ==
  /\ to_unmark = marked
  /\ \A v \in Variables : v \in marked <=> \E c \in captured : c.variable = v
  /\ \A c \in captured :
       c.handle \in closure \ remaining /\ holder[c.handle] = c.variable
  /\ phase = "idle" => captured = {} /\ remaining = {} /\ closure = {}
  /\ culprit # {} => phase = "aborted"

\* A step that is none of the copy constructors' leaves MarksMatch alone.
LEMMA MarksMatchBetweenTasks ==
  ASSUME TypeOK, MarksMatch, phase = "idle",
         UNCHANGED <<marked, to_unmark, captured, remaining, closure, phase, culprit>>
  PROVE  MarksMatch'
BY DEF MarksMatch

\* The captures of a task and its marks, after one more.
LEMMA CaptureMarks ==
  ASSUME TypeOK, MarksMatch, NEW h \in Handles, CaptureHandle(h)
  PROVE  MarksMatch'
<1> DEFINE new == [handle |-> h, variable |-> holder[h],
                   scheduling |-> use[holder[h]].scheduling, request |-> Request(h)]
<1>1. /\ captured' = captured \cup {new}
      /\ remaining' = remaining \ {h}
      /\ marked' = marked \cup {holder[h]}
      /\ to_unmark' = to_unmark \cup {holder[h]}
      /\ UNCHANGED <<holder, closure, phase, culprit>>
  BY DEF CaptureHandle, MakeCapture, taskVars
<1>2. new.handle = h /\ new.variable = holder[h]
  OBVIOUS
<1>3. h \in closure /\ phase = "capturing"
  BY DEF CaptureHandle, Copying, TypeOK
<1> HIDE DEF new
<1> QED
  BY <1>1, <1>2, <1>3 DEF MarksMatch

\* Every step keeps MarksMatch.
LEMMA MarksMatchPreserved == TypeOK /\ MarksMatch /\ [Next]_vars => MarksMatch'
<1> SUFFICES ASSUME TypeOK, MarksMatch, [Next]_vars
             PROVE  MarksMatch'
  OBVIOUS
<1>1. ASSUME NEW h \in Handles, HandleStep(h)
      PROVE  MarksMatch'
  BY <1>1, MarksMatchBetweenTasks
  DEF HandleStep, Assign, CopyConstruct, Release, ObtainReference, taskVars, captureVars
<1>2. ASSUME NEW h \in Handles, SkipUnspecified(h)
      PROVE  MarksMatch'
  BY <1>2 DEF SkipUnspecified, Copying, MarksMatch, contextVars, taskVars
<1>3. ASSUME NEW h \in Handles, ShortCircuit(h)
      PROVE  MarksMatch'
  BY <1>3 DEF ShortCircuit, Copying, MarksMatch, taskVars
<1>4. ASSUME NEW h \in Handles, CaptureHandle(h)
      PROVE  MarksMatch'
  BY <1>4, CaptureMarks
<1>5. ASSUME NEW h \in Handles, CaptureFails(h)
      PROVE  MarksMatch'
  BY <1>5 DEF CaptureFails, MarksMatch, contextVars, taskVars
<1>6. ASSUME NEW mentioned \in (SUBSET Handles) \ {{}}, NEW modifications \in Modifications,
             NEW allowAliasing \in BOOLEAN, NEW mustSpecify \in BOOLEAN,
             CreateWork(mentioned, modifications, allowAliasing, mustSpecify)
      PROVE  MarksMatch'
  BY <1>6 DEF CreateWork, MarksMatch
<1>7. CASE FinishCapture
  BY <1>7 DEF FinishCapture, Registered, MarksMatch, contextVars
<1>8. CASE UNCHANGED vars
  BY <1>8 DEF vars, MarksMatch
<1> QED
  BY <1>1, <1>2, <1>3, <1>4, <1>5, <1>6, <1>7, <1>8 DEF Next, CopyStep

\* At first nothing is marked.
LEMMA MarksMatchInit == Init => MarksMatch
BY DEF Init, MarksMatch

\* The marks of do_capture are right: a variable is marked (already_captured)
\* exactly while the task being created has captured it, the mark is among
\* those to be taken back, and none is left when the task is registered,
\* which is what pre_capture_setup asserts.
THEOREM MarksHold == Spec => [](TypeOK /\ MarksMatch)
<1>1. Init => TypeOK /\ MarksMatch
  BY TypeInit, MarksMatchInit
<1>2. TypeOK /\ MarksMatch /\ [Next]_vars => TypeOK' /\ MarksMatch'
  BY TypePreserved, MarksMatchPreserved
<1> QED
  BY <1>1, <1>2, PTL DEF Spec

\* Every step keeps OneCapturePerVariable.
LEMMA OneCapturePreserved ==
  TypeOK /\ MarksMatch /\ OneCapturePerVariable /\ [Next]_vars => OneCapturePerVariable'
<1> SUFFICES ASSUME TypeOK, MarksMatch, OneCapturePerVariable, [Next]_vars
             PROVE  OneCapturePerVariable'
  OBVIOUS
<1>1. ASSUME NEW h \in Handles, CaptureHandle(h)
      PROVE  OneCapturePerVariable'
  <2> DEFINE new == [handle |-> h, variable |-> holder[h],
                     scheduling |-> use[holder[h]].scheduling, request |-> Request(h)]
  <2>1. captured' = captured \cup {new}
    BY <1>1 DEF CaptureHandle, MakeCapture
  <2>2. holder[h] \in Variables /\ holder[h] \notin marked
    BY <1>1, CapturableRefers DEF CaptureHandle
  <2>3. \A c \in captured : c.variable # new.variable
    BY <2>2 DEF MarksMatch
  <2> HIDE DEF new
  <2> QED
    BY <2>1, <2>3 DEF OneCapturePerVariable
<1>2. ASSUME UNCHANGED captured
      PROVE  OneCapturePerVariable'
  BY <1>2 DEF OneCapturePerVariable
<1>3. CASE FinishCapture
  BY <1>3 DEF FinishCapture, Registered, OneCapturePerVariable
<1>4. ASSUME NEW h \in Handles,
             HandleStep(h) \/ SkipUnspecified(h) \/ ShortCircuit(h) \/ CaptureFails(h)
      PROVE  UNCHANGED captured
  BY <1>4 DEF HandleStep, Assign, CopyConstruct, Release, ObtainReference,
              SkipUnspecified, ShortCircuit, CaptureFails, captureVars
<1>5. ASSUME NEW mentioned \in (SUBSET Handles) \ {{}}, NEW modifications \in Modifications,
             NEW allowAliasing \in BOOLEAN, NEW mustSpecify \in BOOLEAN,
             CreateWork(mentioned, modifications, allowAliasing, mustSpecify)
      PROVE  UNCHANGED captured
  BY <1>5 DEF CreateWork
<1>6. CASE UNCHANGED vars
  BY <1>2, <1>6 DEF vars
<1> QED
  BY <1>1, <1>2, <1>3, <1>4, <1>5, <1>6 DEF Next, CopyStep

\* A task never depends on one variable twice, however many handles share
\* its use and whether or not they may: the mark is on the use that the
\* continuation left when the next handle of the variable is copied.
THEOREM OneCaptureEach == Spec => []OneCapturePerVariable
<1> DEFINE Inv == TypeOK /\ MarksMatch /\ OneCapturePerVariable
<1>1. Init => Inv
  BY TypeInit, MarksMatchInit DEF Init, OneCapturePerVariable
<1>2. Inv /\ [Next]_vars => Inv'
  BY TypePreserved, MarksMatchPreserved, OneCapturePreserved
<1>3. Inv => OneCapturePerVariable
  OBVIOUS
<1> QED
  BY <1>1, <1>2, <1>3, PTL DEF Spec

(***************************************************************************)
(* Flags                                                                   *)
(***************************************************************************)
\* With care, a handle has the flags its create_work asked for until its
\* copy is made, and none otherwise.
FlagsKept ==
  /\ \A h \in Handles : flags[h] = IF h \in remaining THEN asked[h] ELSE {}
  /\ Careful(closure, asked)

\* Short-circuiting a handle leaves it no flag: it is one of several.
LEMMA ShortCircuitKeepsFlags ==
  ASSUME TypeOK, MarksMatch, FlagsKept, NEW h \in Handles, ShortCircuit(h)
  PROVE  FlagsKept'
<1>1. /\ remaining' = remaining \ {h}
      /\ flags' = [flags EXCEPT ![h] = MarkedFlags(h)]
      /\ UNCHANGED <<holder, closure, asked>>
      /\ h \in remaining /\ holder[h] \in marked /\ holder[h] # NoVariable
  BY DEF ShortCircuit, Copying, CanBeCaptured, taskVars
<1>2. PICK c \in captured : c.variable = holder[h]
  BY <1>1 DEF MarksMatch, TypeOK
<1>3. c.handle \in closure /\ c.handle # h /\ holder[c.handle] = holder[h]
  BY <1>1, <1>2 DEF MarksMatch
<1>4. h \in closure
  BY <1>1 DEF TypeOK
<1>5. asked[h] = {} /\ StaticFlags[h] = {}
  BY <1>1, <1>3, <1>4 DEF FlagsKept, Careful, SameVariable
<1>6. MarkedFlags(h) = {}
  BY <1>1, <1>5 DEF FlagsKept, MarkedFlags
<1>7. \A g \in Handles : flags'[g] = IF g \in remaining' THEN asked'[g] ELSE {}
  BY <1>1, <1>6 DEF FlagsKept, TypeOK
<1>8. Careful(closure, asked)'
  BY <1>1 DEF FlagsKept, Careful, SameVariable
<1> QED
  BY <1>7, <1>8 DEF FlagsKept

\* Every step keeps FlagsKept.
LEMMA FlagsKeptPreserved ==
  ASSUME CarefulOnly
  PROVE  TypeOK /\ MarksMatch /\ FlagsKept /\ [Next]_vars => FlagsKept'
<1> SUFFICES ASSUME TypeOK, MarksMatch, FlagsKept, [Next]_vars
             PROVE  FlagsKept'
  OBVIOUS
<1>1. ASSUME NEW h \in Handles, HandleStep(h)
      PROVE  FlagsKept'
  <2>1. phase = "idle" /\ remaining = {} /\ closure = {}
    BY <1>1 DEF HandleStep, Assign, CopyConstruct, Release, ObtainReference, MarksMatch
  <2>2. UNCHANGED <<closure, asked, remaining>>
    BY <1>1 DEF HandleStep, Assign, CopyConstruct, Release, ObtainReference,
                taskVars, captureVars
  <2>3. UNCHANGED flags \/ \E g \in Handles : flags' = [flags EXCEPT ![g] = {}]
    BY <1>1 DEF HandleStep, Assign, CopyConstruct, Release, ObtainReference
  <2>4. \A g \in Handles : flags'[g] = {}
    BY <2>1, <2>3 DEF FlagsKept, TypeOK
  <2>5. Careful(closure, asked)'
    BY <2>1, <2>2 DEF FlagsKept, Careful
  <2> QED
    BY <2>1, <2>2, <2>4, <2>5 DEF FlagsKept
<1>2. ASSUME NEW h \in Handles, SkipUnspecified(h)
      PROVE  FlagsKept'
  <2>1. /\ flags[h] = {} /\ remaining' = remaining \ {h}
        /\ UNCHANGED <<holder, flags, closure, asked>>
    BY <1>2 DEF SkipUnspecified, Unspecified, contextVars, taskVars
  <2> QED
    BY <2>1 DEF FlagsKept, Careful, SameVariable
<1>3. ASSUME NEW h \in Handles, ShortCircuit(h)
      PROVE  FlagsKept'
  BY <1>3, ShortCircuitKeepsFlags
<1>4. ASSUME NEW h \in Handles, CaptureHandle(h)
      PROVE  FlagsKept'
  <2>1. /\ flags' = [flags EXCEPT ![h] = {}] /\ remaining' = remaining \ {h}
        /\ UNCHANGED <<holder, closure, asked>>
    BY <1>4 DEF CaptureHandle, MakeCapture, taskVars
  <2> QED
    BY <2>1 DEF FlagsKept, Careful, SameVariable, TypeOK
<1>5. ASSUME NEW h \in Handles, CaptureFails(h)
      PROVE  FlagsKept'
  BY <1>5 DEF CaptureFails, FlagsKept, Careful, SameVariable, contextVars, taskVars
<1>6. ASSUME NEW mentioned \in (SUBSET Handles) \ {{}}, NEW modifications \in Modifications,
             NEW allowAliasing \in BOOLEAN, NEW mustSpecify \in BOOLEAN,
             CreateWork(mentioned, modifications, allowAliasing, mustSpecify)
      PROVE  FlagsKept'
  <2>1. /\ remaining = {} /\ Careful(mentioned, modifications)
        /\ closure' = mentioned /\ remaining' = mentioned /\ asked' = modifications
        /\ flags' = [h \in Handles |-> flags[h] \cup modifications[h]]
        /\ UNCHANGED holder
    BY <1>6 DEF CreateWork, MarksMatch
  <2>2. Careful(closure, asked)'
    BY <2>1 DEF Careful, SameVariable
  <2>3. \A h \in Handles : flags[h] = {}
    BY <2>1 DEF FlagsKept
  <2>4. \A h \in Handles : flags'[h] = modifications[h]
    BY <2>1, <2>3
  <2>5. \A h \in Handles \ mentioned : modifications[h] = {}
    BY <2>1 DEF Careful
  <2> QED
    BY <2>1, <2>2, <2>4, <2>5 DEF FlagsKept
<1>7. CASE FinishCapture
  <2>1. /\ remaining = {} /\ remaining' = {} /\ closure' = {} /\ asked' = NoFlags
        /\ UNCHANGED <<holder, flags>>
    BY <1>7 DEF FinishCapture, Registered, contextVars
  <2> QED
    BY <2>1 DEF FlagsKept, Careful, SameVariable, NoFlags
<1>8. CASE UNCHANGED vars
  BY <1>8 DEF vars, FlagsKept, Careful, SameVariable
<1> QED
  BY <1>1, <1>2, <1>3, <1>4, <1>5, <1>6, <1>7, <1>8 DEF Next, CopyStep

\* At first no handle has flags.
LEMMA FlagsKeptInit == Init => FlagsKept
BY DEF Init, FlagsKept, Careful, NoFlags, SameVariable

\* What a careful create_work asks for is what the capture consults.
LEMMA ConsultedFlags ==
  ASSUME FlagsKept, NEW h \in Handles, Copying(h)
  PROVE  MarkedFlags(h) = asked[h] \cup StaticFlags[h]
BY DEF FlagsKept, Copying, MarkedFlags

\* Every step of a careful program captures as it was asked.
LEMMA CapturedAsAskedPreserved ==
  MarksMatch /\ FlagsKept /\ CapturedAsAsked /\ [Next]_vars => CapturedAsAsked'
<1> SUFFICES ASSUME MarksMatch, FlagsKept, CapturedAsAsked, [Next]_vars
             PROVE  CapturedAsAsked'
  OBVIOUS
<1>1. ASSUME NEW h \in Handles, CaptureHandle(h)
      PROVE  CapturedAsAsked'
  <2> DEFINE new == [handle |-> h, variable |-> holder[h],
                     scheduling |-> use[holder[h]].scheduling, request |-> Request(h)]
  <2>1. captured' = captured \cup {new} /\ UNCHANGED asked
    BY <1>1 DEF CaptureHandle, MakeCapture, taskVars
  <2>2. new.request = RequestedPermissions(new.scheduling,
                                           asked[new.handle] \cup StaticFlags[new.handle])
    BY <1>1, ConsultedFlags DEF CaptureHandle, Request
  <2> HIDE DEF new
  <2> QED
    BY <2>1, <2>2 DEF CapturedAsAsked
<1>2. ASSUME UNCHANGED <<captured, asked>>
      PROVE  CapturedAsAsked'
  BY <1>2 DEF CapturedAsAsked
<1>3. ASSUME captured' = {}
      PROVE  CapturedAsAsked'
  BY <1>3 DEF CapturedAsAsked
<1>4. ASSUME NEW h \in Handles,
             HandleStep(h) \/ SkipUnspecified(h) \/ ShortCircuit(h) \/ CaptureFails(h)
      PROVE  UNCHANGED <<captured, asked>>
  BY <1>4 DEF HandleStep, Assign, CopyConstruct, Release, ObtainReference,
              SkipUnspecified, ShortCircuit, CaptureFails, captureVars, taskVars
<1>5. ASSUME NEW mentioned \in (SUBSET Handles) \ {{}}, NEW modifications \in Modifications,
             NEW allowAliasing \in BOOLEAN, NEW mustSpecify \in BOOLEAN,
             CreateWork(mentioned, modifications, allowAliasing, mustSpecify)
      PROVE  captured' = {}
  BY <1>5 DEF CreateWork, MarksMatch
<1>6. CASE FinishCapture
  BY <1>3, <1>6 DEF FinishCapture, Registered
<1>7. CASE UNCHANGED vars
  BY <1>2, <1>7 DEF vars
<1> QED
  BY <1>1, <1>2, <1>3, <1>4, <1>5, <1>6, <1>7 DEF Next, CopyStep

\* In a program that asks for flags with care, a task captures exactly the
\* permissions its create_work and the types of its handles ask for: no flag
\* of an earlier create_work, and none that the capture of another handle
\* should have consulted, gets into the request.
THEOREM AskedIsCaptured == CarefulOnly => (Spec => []CapturedAsAsked)
<1> SUFFICES ASSUME CarefulOnly
             PROVE  Spec => []CapturedAsAsked
  OBVIOUS
<1> DEFINE Inv == TypeOK /\ MarksMatch /\ FlagsKept /\ CapturedAsAsked
<1>1. Init => Inv
  BY TypeInit, MarksMatchInit, FlagsKeptInit DEF Init, CapturedAsAsked
<1>2. Inv /\ [Next]_vars => Inv'
  BY TypePreserved, MarksMatchPreserved, FlagsKeptPreserved, CapturedAsAskedPreserved
<1>3. Inv => CapturedAsAsked
  OBVIOUS
<1> QED
  BY <1>1, <1>2, <1>3, PTL DEF Spec

(***************************************************************************)
(* Aborts                                                                  *)
(***************************************************************************)
\* Every step of a careful program that aborts it has a cause.
LEMMA AbortedForCausePreserved ==
  TypeOK /\ MarksMatch /\ FlagsKept /\ AbortedForCause /\ [Next]_vars => AbortedForCause'
<1> SUFFICES ASSUME TypeOK, MarksMatch, FlagsKept, AbortedForCause, [Next]_vars
             PROVE  AbortedForCause'
  OBVIOUS
<1>1. ASSUME NEW h \in Handles, CaptureFails(h)
      PROVE  AbortedForCause'
  <2>1. culprit' = {h} /\ UNCHANGED <<holder, use, aliasing, closure, asked>>
    BY <1>1 DEF CaptureFails, contextVars, taskVars
  <2>2. CASE ~CanBeCaptured(h)
    BY <2>1, <2>2 DEF CanBeCaptured, AbortedForCause
  <2>3. CASE CanBeCaptured(h) /\ holder[h] \in marked /\ ~aliasing
    <3>1. PICK c \in captured : c.variable = holder[h]
      BY <2>3, CapturableRefers DEF MarksMatch
    <3>2. c.handle \in closure \ {h} /\ SameVariable(c.handle, h)
      BY <1>1, <2>3, <3>1 DEF MarksMatch, SameVariable, CaptureFails, Copying, CanBeCaptured
    <3>3. SameVariable(c.handle, h)'
      BY <2>1, <3>2 DEF SameVariable
    <3> QED
      BY <2>1, <2>3, <3>2, <3>3 DEF AbortedForCause
  <2>4. CASE CasesOf(h) = {}
    <3>1. MarkedFlags(h) = asked[h] \cup StaticFlags[h]
      BY <1>1, ConsultedFlags DEF CaptureFails
    <3>2. CasesFor("Sequential", use[holder[h]],
                   RequestedPermissions(use[holder[h]].scheduling,
                                        asked[h] \cup StaticFlags[h])) = {}
      BY <2>4, <3>1 DEF CasesOf, Request
    <3> QED
      BY <2>1, <3>2 DEF AbortedForCause
  <2> QED
    BY <1>1, <2>2, <2>3, <2>4 DEF CaptureFails
<1>2. ASSUME culprit' = {}
      PROVE  AbortedForCause'
  BY <1>2 DEF AbortedForCause
<1>3. ASSUME phase # "aborted", UNCHANGED culprit
      PROVE  AbortedForCause'
  BY <1>2, <1>3 DEF MarksMatch
<1>4. ASSUME NEW h \in Handles,
             HandleStep(h) \/ SkipUnspecified(h) \/ ShortCircuit(h) \/ CaptureHandle(h)
      PROVE  phase # "aborted" /\ UNCHANGED culprit
  BY <1>4 DEF HandleStep, Assign, CopyConstruct, Release, ObtainReference, Copying,
              SkipUnspecified, ShortCircuit, CaptureHandle, captureVars
<1>5. ASSUME NEW mentioned \in (SUBSET Handles) \ {{}}, NEW modifications \in Modifications,
             NEW allowAliasing \in BOOLEAN, NEW mustSpecify \in BOOLEAN,
             CreateWork(mentioned, modifications, allowAliasing, mustSpecify)
      PROVE  phase # "aborted" /\ UNCHANGED culprit
  BY <1>5 DEF CreateWork
<1>6. CASE FinishCapture
  BY <1>3, <1>6 DEF FinishCapture
<1>7. CASE UNCHANGED vars
  BY <1>7 DEF vars, AbortedForCause, SameVariable
<1> QED
  BY <1>1, <1>3, <1>4, <1>5, <1>6, <1>7 DEF Next, CopyStep

\* In a program that asks for flags with care, an assertion of
\* do_capture_checks fails, or the table has no case, only for something
\* wrong with the very create_work that is aborted.
THEOREM AbortsAreForCause == CarefulOnly => (Spec => []AbortedForCause)
<1> SUFFICES ASSUME CarefulOnly
             PROVE  Spec => []AbortedForCause
  OBVIOUS
<1> DEFINE Inv == TypeOK /\ MarksMatch /\ FlagsKept /\ AbortedForCause
<1>1. Init => Inv
  BY TypeInit, MarksMatchInit, FlagsKeptInit DEF Init, AbortedForCause
<1>2. Inv /\ [Next]_vars => Inv'
  BY TypePreserved, MarksMatchPreserved, FlagsKeptPreserved, AbortedForCausePreserved
<1>3. Inv => AbortedForCause
  OBVIOUS
<1> QED
  BY <1>1, <1>2, <1>3, PTL DEF Spec
=============================================================================
