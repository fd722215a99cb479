---------------------------- MODULE HandleCapture ----------------------------
(***************************************************************************)
(* Handles in one context (a task, or the top level) and the tasks it      *)
(* creates: how create_work goes through the handles a task mentions.      *)
(* Several handles can share the use of one variable, because copies of a  *)
(* handle share its holder.  A task must not depend on a variable twice,   *)
(* so the use is marked while the task captures its handles.               *)
(*                                                                         *)
(* The permissions that a capture asks for come from flags on the handle:  *)
(* reads(...) and schedule_only(...) set them when the task is made, the   *)
(* static permissions of the handle's type add theirs, the capture clears  *)
(* them.                                                                   *)
(*                                                                         *)
(* This module looks at permissions only; DarmaTasks adds flows and other  *)
(* tasks.  Definitions whose name ends in "Slip" are not used: see         *)
(* CaptureSemantics.                                                       *)
(***************************************************************************)
EXTENDS CaptureSemantics, Naturals

CONSTANTS
  Variables,      \* what handles refer to
  Handles,        \* the handles of the context
  NoVariable,     \* what a handle without a use holder refers to
  InitialHolder,  \* which variable each handle refers to at first
  StaticFlags,    \* the flags the type of each handle (or parameter) stands for
  Modifications,  \* the flags a create_work may ask for, handle by handle
  CarefulOnly,    \* whether programs ask for flags with care (see Careful)
  MaxTasks        \* how many tasks the context creates

ASSUME HandleAssumption ==
  /\ NoVariable \notin Variables
  /\ InitialHolder \in [Handles -> Variables \cup {NoVariable}]
  /\ StaticFlags \in [Handles -> SUBSET FrontEndFlags]
  /\ Modifications \subseteq [Handles -> SUBSET {"ReadOnly", "ScheduleOnly"}]
  /\ CarefulOnly \in BOOLEAN
  /\ MaxTasks \in Nat

VARIABLES
  holder,     \* the variable whose use holder a handle points to
  flags,      \* captured_as of a handle
  use,        \* the permissions of a variable's current use
  marked,     \* the variables whose current use is already_captured
  to_unmark,  \* uses_to_unmark_already_captured of the task being created
  phase,      \* "idle", "capturing", or "aborted"
  closure,    \* the handles the task mentions
  remaining,  \* those whose copy constructor has not run
  aliasing,   \* allow_aliasing of the task
  required,   \* must_specify_permissions
  asked,      \* history: the flags the current create_work asked for
  captured,   \* history: the captures it made
  culprit,    \* history: the handles at which the program was aborted
  tasks       \* how many tasks the context began to create

vars == <<holder, flags, use, marked, to_unmark, phase, closure, remaining,
          aliasing, required, asked, captured, culprit, tasks>>

contextVars == <<holder, flags, use>>
taskVars    == <<closure, aliasing, required, asked>>
captureVars == <<marked, to_unmark, phase, remaining, captured, culprit, tasks>>

\* What initial_access gives, and what tasks that write or read are given.
SourceUses == {Perms(Modify, None), Perms(Modify, Modify), Perms(Read, Read)}
ReleasedUse == Perms(None, None)

NoFlags == [h \in Handles |-> {}]

InitialUses ==
  {u \in [Variables -> SourceUses \cup {ReleasedUse}] :
     \A v \in Variables :
       (u[v] = ReleasedUse) <=> (\A h \in Handles : InitialHolder[h] # v)}

Init ==
  /\ holder = InitialHolder
  /\ flags = NoFlags
  /\ use \in InitialUses
  /\ marked = {}
  /\ to_unmark = {}
  /\ phase = "idle"
  /\ closure = {}
  /\ remaining = {}
  /\ aliasing = FALSE
  /\ required = FALSE
  /\ asked = NoFlags
  /\ captured = {}
  /\ culprit = {}
  /\ tasks = 0

(***************************************************************************)
(* Operations on handles between tasks                                     *)
(***************************************************************************)
\* A handle comes to point elsewhere: a use that no handle is left for is
\* released.  The flags of a handle are no part of what is assigned.
PointTo(h, variable) ==
  LET now == [holder EXCEPT ![h] = variable]
  IN  /\ holder' = now
      /\ use' = [v \in Variables |->
                   IF \E g \in Handles : now[g] = v THEN use[v] ELSE ReleasedUse]

Assign(g, h) ==
  /\ phase = "idle"
  /\ PointTo(g, holder[h])
  /\ UNCHANGED <<flags, taskVars, captureVars>>

\* A new handle, in the place of one that is gone, is a copy of h.
CopyConstruct(g, h) ==
  /\ phase = "idle"
  /\ holder[g] = NoVariable
  /\ PointTo(g, holder[h])
  /\ flags' = [flags EXCEPT ![g] = {}]
  /\ UNCHANGED <<taskVars, captureVars>>

Release(h) ==
  /\ phase = "idle"
  /\ holder[h] # NoVariable
  /\ PointTo(h, NoVariable)
  /\ UNCHANGED <<flags, taskVars, captureVars>>

\* obtain_reference gives up the right to schedule.
ObtainReference(h) ==
  /\ phase = "idle"
  /\ holder[h] # NoVariable
  /\ use[holder[h]].immediate = Modify
  /\ use' = [use EXCEPT ![holder[h]].scheduling = None]
  /\ UNCHANGED <<holder, flags, taskVars, captureVars>>

(***************************************************************************)
(* create_work                                                             *)
(***************************************************************************)
SameVariable(g, h) == holder[g] = holder[h] /\ holder[g] # NoVariable

\* The program asks for flags with care: only on handles the task mentions,
\* and on none of several handles of one variable.
Careful(mentioned, modifications) ==
  /\ \A h \in Handles \ mentioned : modifications[h] = {}
  /\ \A g, h \in mentioned :
       g # h /\ SameVariable(g, h) => modifications[g] = {} /\ StaticFlags[g] = {}

\* The closure takes along every handle in sight.
EveryHandleSlip(mentioned, modifications, allowAliasing, mustSpecify) ==
  /\ phase = "idle"
  /\ tasks < MaxTasks
  /\ CarefulOnly => Careful(mentioned, modifications)
  /\ phase' = "capturing"
  /\ closure' = mentioned
  /\ remaining' = Handles
  /\ aliasing' = allowAliasing
  /\ required' = mustSpecify
  /\ asked' = modifications
  /\ flags' = [h \in Handles |-> flags[h] \cup modifications[h]]
  /\ tasks' = tasks + 1
  /\ UNCHANGED <<holder, use, marked, to_unmark, captured, culprit>>

\* The task object is made: its arguments set the flags they ask for, and
\* its capture context is set up.
CreateWork(mentioned, modifications, allowAliasing, mustSpecify) ==
  /\ phase = "idle"
  /\ tasks < MaxTasks
  /\ CarefulOnly => Careful(mentioned, modifications)
  /\ phase' = "capturing"
  /\ closure' = mentioned
  /\ remaining' = mentioned
  /\ aliasing' = allowAliasing
  /\ required' = mustSpecify
  /\ asked' = modifications
  /\ flags' = [h \in Handles |-> flags[h] \cup modifications[h]]
  /\ tasks' = tasks + 1
  /\ UNCHANGED <<holder, use, marked, to_unmark, captured, culprit>>

\* The copy constructor of a handle in the closure.
Copying(h) == phase = "capturing" /\ h \in remaining

\* In a task that must specify permissions, a handle for which it does not
\* is left without a use.
Unspecified(h) == required /\ flags[h] = {}

SkipUnspecified(h) ==
  /\ Copying(h)
  /\ Unspecified(h)
  /\ remaining' = remaining \ {h}
  /\ UNCHANGED <<contextVars, taskVars, marked, to_unmark, phase, captured,
                 culprit, tasks>>

\* prepare_for_capture
MarkedFlags(h) == flags[h] \cup StaticFlags[h]

\* The assertions of do_capture_checks.
CanBeCaptured(h) ==
  /\ holder[h] # NoVariable
  /\ use[holder[h]].scheduling # None

\* The second handle of a variable gets nothing, and its flags stay.
ShortCircuit(h) ==
  /\ Copying(h)
  /\ ~Unspecified(h)
  /\ CanBeCaptured(h)
  /\ holder[h] \in marked
  /\ aliasing
  /\ remaining' = remaining \ {h}
  /\ flags' = [flags EXCEPT ![h] = MarkedFlags(h)]
  /\ UNCHANGED <<holder, use, taskVars, marked, to_unmark, phase, captured,
                 culprit, tasks>>

Request(h) == RequestedPermissions(use[holder[h]].scheduling, MarkedFlags(h))
CasesOf(h) == CasesFor("Sequential", use[holder[h]], Request(h))

\* The capture and the continuation; what it can be marked on is the use
\* the variable has by now.
MakeCapture(h) ==
  /\ use' = [use EXCEPT ![holder[h]] =
               ContinuingPermissions(CHOOSE case \in CasesOf(h) : TRUE, @)]
  /\ flags' = [flags EXCEPT ![h] = {}]
  /\ captured' = captured \cup {[handle |-> h, variable |-> holder[h],
                                 scheduling |-> use[holder[h]].scheduling,
                                 request |-> Request(h)]}
  /\ remaining' = remaining \ {h}

\* The mark is set on the use that the capture then replaces.
EarlyMarkSlip(h) ==
  /\ Copying(h)
  /\ ~Unspecified(h)
  /\ CanBeCaptured(h)
  /\ holder[h] \notin marked
  /\ CasesOf(h) # {}
  /\ MakeCapture(h)
  /\ marked' = IF (CHOOSE case \in CasesOf(h) : TRUE).needs_new_continuation_use
               THEN marked ELSE marked \cup {holder[h]}
  /\ to_unmark' = to_unmark \cup {holder[h]}
  /\ UNCHANGED <<holder, taskVars, phase, culprit, tasks>>

\* The flags are consulted and not cleared.
KeptFlagsSlip(h) ==
  /\ Copying(h)
  /\ ~Unspecified(h)
  /\ CanBeCaptured(h)
  /\ holder[h] \notin marked
  /\ CasesOf(h) # {}
  /\ use' = [use EXCEPT ![holder[h]] =
               ContinuingPermissions(CHOOSE case \in CasesOf(h) : TRUE, @)]
  /\ captured' = captured \cup {[handle |-> h, variable |-> holder[h],
                                 scheduling |-> use[holder[h]].scheduling,
                                 request |-> Request(h)]}
  /\ remaining' = remaining \ {h}
  /\ marked' = marked \cup {holder[h]}
  /\ to_unmark' = to_unmark \cup {holder[h]}
  /\ UNCHANGED <<holder, flags, taskVars, phase, culprit, tasks>>

CaptureHandle(h) ==
  /\ Copying(h)
  /\ ~Unspecified(h)
  /\ CanBeCaptured(h)
  /\ holder[h] \notin marked
  /\ CasesOf(h) # {}
  /\ MakeCapture(h)
  /\ marked' = marked \cup {holder[h]}
  /\ to_unmark' = to_unmark \cup {holder[h]}
  /\ UNCHANGED <<holder, taskVars, phase, culprit, tasks>>

\* An assertion fails: the handle was released or may not schedule, it is
\* one of several for its variable, or the table has no case for it.
CaptureFails(h) ==
  /\ Copying(h)
  /\ ~Unspecified(h)
  /\ \/ ~CanBeCaptured(h)
     \/ holder[h] \in marked /\ ~aliasing
     \/ CanBeCaptured(h) /\ holder[h] \notin marked /\ CasesOf(h) = {}
  /\ phase' = "aborted"
  /\ culprit' = {h}
  /\ UNCHANGED <<contextVars, taskVars, marked, to_unmark, remaining, captured,
                 tasks>>

\* The new task is registered, and the context is done with it.
Registered ==
  /\ closure' = {}
  /\ aliasing' = FALSE
  /\ required' = FALSE
  /\ asked' = NoFlags
  /\ captured' = {}
  /\ phase' = "idle"

\* The marks are left for the next create_work to clear.
KeptMarksSlip ==
  /\ phase = "capturing"
  /\ remaining = {}
  /\ Registered
  /\ UNCHANGED <<contextVars, marked, to_unmark, remaining, culprit, tasks>>

\* post_capture_cleanup
FinishCapture ==
  /\ phase = "capturing"
  /\ remaining = {}
  /\ marked' = marked \ to_unmark
  /\ to_unmark' = {}
  /\ Registered
  /\ UNCHANGED <<contextVars, remaining, culprit, tasks>>

(***************************************************************************)
(* The specification                                                       *)
(***************************************************************************)
CopyStep(h) ==
  \/ SkipUnspecified(h)
  \/ ShortCircuit(h)
  \/ CaptureHandle(h)
  \/ CaptureFails(h)

HandleStep(h) ==
  \/ \E g \in Handles : Assign(g, h) \/ CopyConstruct(g, h)
  \/ Release(h)
  \/ ObtainReference(h)

Next ==
  \/ \E h \in Handles : HandleStep(h) \/ CopyStep(h)
  \/ \E mentioned \in (SUBSET Handles) \ {{}}, modifications \in Modifications,
        allowAliasing, mustSpecify \in BOOLEAN :
       CreateWork(mentioned, modifications, allowAliasing, mustSpecify)
  \/ FinishCapture

Spec == Init /\ [][Next]_vars

-----------------------------------------------------------------------------
CaptureRecords ==
  [handle : Handles, variable : Variables, scheduling : Permissions,
   request : PermissionPairs]

\* Every variable has its type.
TypeOK ==
  /\ holder \in [Handles -> Variables \cup {NoVariable}]
  /\ flags \in [Handles -> SUBSET FrontEndFlags]
  /\ use \in [Variables -> PermissionPairs]
  /\ marked \subseteq Variables
  /\ to_unmark \subseteq Variables
  /\ phase \in {"idle", "capturing", "aborted"}
  /\ closure \subseteq Handles
  /\ remaining \subseteq closure
  /\ aliasing \in BOOLEAN
  /\ required \in BOOLEAN
  /\ asked \in [Handles -> SUBSET FrontEndFlags]
  /\ captured \subseteq CaptureRecords
  /\ culprit \subseteq Handles
  /\ tasks \in 0..MaxTasks

\* A task never captures one variable through two handles: it would wait
\* for itself, as its second use of the variable follows its first.  That
\* is what already_captured is for; the capture replaces the use that the
\* mark is on.
OneCapturePerVariable ==
  \A c, d \in captured : c.variable = d.variable => c = d

\* The program is aborted at a handle only for something that is wrong with
\* this very create_work: a released handle, one that may not schedule, two
\* handles of one variable without allow_aliasing, or a request that the
\* table of capture cases does not have.  No mark or flag of an earlier
\* create_work makes do_capture_checks fail.
AbortedForCause ==
  \A h \in culprit :
    \/ holder[h] = NoVariable
    \/ use[holder[h]].scheduling = None
    \/ ~aliasing /\ \E g \in closure \ {h} : SameVariable(g, h)
    \/ CasesFor("Sequential", use[holder[h]],
                RequestedPermissions(use[holder[h]].scheduling,
                                     asked[h] \cup StaticFlags[h])) = {}

\* A capture asks for the permissions that this create_work and the type of
\* the handle call for: a modify capture unless reads(h) or a read-only type
\* says otherwise (create_work.tex).
CapturedAsAsked ==
  \A c \in captured :
    c.request =
      RequestedPermissions(c.scheduling, asked[c.handle] \cup StaticFlags[c.handle])

\* Once a task has captured, every handle that its body mentions has a use,
\* through which the body can reach the data.
EveryHandleHasUse ==
  phase = "capturing" /\ remaining = {} /\ ~required =>
    \A h \in closure : \E c \in captured : c.handle = h

=============================================================================
