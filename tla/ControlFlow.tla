----------------------------- MODULE ControlFlow -----------------------------
(***************************************************************************)
(* create_work_while and create_work_if.  A capture manager is shared by   *)
(* the task of the condition and by the tasks of the bodies.  While the    *)
(* closures are built it only describes the captures; they are made later, *)
(* the condition's before create_work_while returns, a body's when the     *)
(* condition has run.  The condition captures for its bodies what it does  *)
(* not mention itself (an implicit capture), and a loop copies both        *)
(* closures again for every iteration and redirects the descriptions.      *)
(*                                                                         *)
(* The descriptions point to handles inside closures that other threads    *)
(* destroy, so which handle a capture is made from, and whether that       *)
(* handle still has a use, depends on the order of these steps.            *)
(*                                                                         *)
(* A backend that starts any registered task at any time is assumed, which *)
(* is more than any backend may do.  Definitions whose name ends in "Slip" *)
(* are not used: see CaptureSemantics.                                     *)
(***************************************************************************)
EXTENDS CaptureSemantics, Naturals, Sequences

CONSTANTS
  Variables,      \* the variables the blocks mention
  OuterUses,      \* the uses the outer handles may have
  Programs,       \* the constructs, what their blocks mention and ask for
  MaxIterations   \* how often the condition of a loop holds

Constructs == {"while", "if"}
Blocks     == {"condition", "body", "otherwise"}

\* Flags are asked for on variables that the block mentions.
BlockPrograms(constructs) ==
  {p \in [construct : constructs, mentions : [Blocks -> SUBSET Variables],
          flags : [Blocks -> [Variables -> SUBSET FrontEndFlags]]] :
     \A b \in Blocks : \A v \in Variables \ p.mentions[b] : p.flags[b][v] = {}}

\* create_work_while(...).do_(...) has no third block.
WhilePrograms == {p \in BlockPrograms({"while"}) : p.mentions["otherwise"] = {}}

\* create_work_if(...).then_(...).else_(...); an else_ that is not given is
\* one that mentions nothing.
IfPrograms == BlockPrograms({"if"})

ASSUME ControlFlowAssumption ==
  /\ OuterUses \subseteq PermissionPairs
  /\ \A p \in Programs : p \in WhilePrograms \cup IfPrograms
  /\ MaxIterations \in Nat

Rounds     == 0 .. MaxIterations

\* Handles: the user's, those in the closures of each round, and those the
\* manager keeps for implicit captures (the first is a mere copy).
Handle(place, round, variable) ==
  [place |-> place, round |-> round, variable |-> variable]

Handles == [place : Blocks \cup {"outer", "implicit"},
            round : 0 .. (MaxIterations + 1), variable : Variables]

NoHandle == [place |-> "none"]

\* The tasks of a construct.
TaskOf(block, round) == [block |-> block, round |-> round]
Tasks == [block : Blocks, round : Rounds]

Unused == Perms(None, None)

VARIABLES
  construct,  \* "while" or "if"
  mentions,   \* the variables each block mentions
  flags,      \* the flags each block asks for
  details,    \* the manager's descriptions: while_captures_, do_captures_, ...
  implicit,   \* which handle while_implicit_captures_ has for a variable
  managed,    \* the tasks whose capture_manager_ is set
  task,       \* the state of each task
  holder,     \* the use holder of a handle, named by the capture it is from
  use,        \* the permissions of a holder's current use
  trail,      \* history: the captures made from a holder, in order
  aborted     \* the captures that found no source or no case

vars == <<construct, mentions, flags, details, implicit, managed, task,
          holder, use, trail, aborted>>

program == <<construct, mentions, flags>>

Outer(v)     == Handle("outer", 0, v)
Implicit(v)  == Handle("implicit", implicit[v], v)
NoDetails    == << >>

\* The user has a handle for every variable that a block mentions.
UsersHandles == {Outer(v) : v \in UNION {mentions[b] : b \in Blocks}}

Init ==
  /\ \E p \in Programs :
       construct = p.construct /\ mentions = p.mentions /\ flags = p.flags
  /\ details = [b \in Blocks |-> NoDetails]
  /\ implicit = [v \in Variables |-> 0]
  /\ managed = {}
  /\ task = [t \in Tasks |-> "unborn"]
  /\ holder = [h \in Handles |-> IF h \in UsersHandles THEN h ELSE NoHandle]
  /\ \E u \in [Variables -> OuterUses] :
       use = [h \in Handles |-> IF h \in UsersHandles THEN u[h.variable] ELSE Unused]
  /\ trail = [h \in Handles |-> << >>]
  /\ aborted = {}

(***************************************************************************)
(* Descriptions                                                            *)
(***************************************************************************)
Description(source, captured, request) ==
  [source |-> source, captured |-> captured, request |-> request]

SchedulingOf(v) == use[Outer(v)].scheduling

\* A condition makes read_only_captures, a body modify_captures.
ConditionRequest(v) == RequestedPermissions(Read, flags["condition"][v])
BodyRequest(b, v)   == RequestedPermissions(SchedulingOf(v), flags[b][v])

\* Variables that a body mentions and the condition does not.
ImplicitVariables == (mentions["body"] \cup mentions["otherwise"]) \ mentions["condition"]

\* The implicit capture asks for all there is, and the flags of the body it
\* is made for were cleared by then.
ImplicitRequest(v) == RequestedPermissions(SchedulingOf(v), {"ScheduleOnly"})

BodiesOf(v) == {b \in {"body", "otherwise"} : v \in mentions[b]}

\* The condition does not ask for what its bodies need.
UnscheduledBodiesSlip(v) ==
  IF v \in mentions["condition"] THEN ConditionRequest(v) ELSE ImplicitRequest(v)

\* do_capture, while the closures are built for the first time: what the
\* condition asks for in the end.
MergedRequest(v) ==
  LET own  == IF v \in mentions["condition"] THEN ConditionRequest(v) ELSE ImplicitRequest(v)
      need == UNION {BodyRequest(b, v).scheduling \cup BodyRequest(b, v).immediate :
                       b \in BodiesOf(v)}
  IN  RequireAbilityToSchedule(own, Perms(need, None))

ConditionHandle(v) ==
  IF v \in mentions["condition"] THEN Handle("condition", 0, v)
                                 ELSE Handle("implicit", 0, v)

FirstDetails ==
  [b \in Blocks |->
     IF b = "condition"
     THEN [v \in mentions[b] \cup ImplicitVariables |->
             Description(Outer(v), ConditionHandle(v), MergedRequest(v))]
     ELSE [v \in mentions[b] |->
             Description(ConditionHandle(v), Handle(b, 0, v), BodyRequest(b, v))]]

(***************************************************************************)
(* execute_..._captures.  Captures of different variables have nothing to  *)
(* do with one another, so the order of the map does not matter.           *)
(***************************************************************************)
\* The use that a description's capture is made from.
SourceUse(holders, d) == use[holders[d.source]]

CasesOf(holders, d) ==
  IF holders[d.source] = NoHandle THEN {}
  ELSE CasesFor("Sequential", SourceUse(holders, d), d.request)

CanExecute(holders, ds) == \A v \in DOMAIN ds : CasesOf(holders, ds[v]) # {}

IsCaptured(ds, h) == h.variable \in DOMAIN ds /\ ds[h.variable].captured = h
IsSource(holders, ds, h) ==
  h.variable \in DOMAIN ds /\ holders[ds[h.variable].source] = h

\* make_captured_use_holder for each description: the captured handle gets
\* a holder of its own, the source's holder the continuing use.  Handles
\* that are gone afterwards let go of theirs.
Execute(holders, ds, gone) ==
  /\ holder' = [h \in Handles |-> IF IsCaptured(ds, h) THEN h
                                  ELSE IF h \in gone THEN NoHandle ELSE holders[h]]
  /\ use' = [h \in Handles |->
       IF IsCaptured(ds, h) THEN ds[h.variable].request
       ELSE IF IsSource(holders, ds, h)
            THEN ContinuingPermissions(
                   CHOOSE case \in CasesOf(holders, ds[h.variable]) : TRUE, use[h])
            ELSE use[h]]
  /\ trail' = [h \in Handles |->
       IF IsSource(holders, ds, h)
       THEN Append(trail[h], [captured |-> ds[h.variable].captured,
                              request  |-> ds[h.variable].request])
       ELSE trail[h]]

\* The program is aborted at the captures that cannot be made.
Abort(holders, ds) ==
  /\ aborted = {}
  /\ ~CanExecute(holders, ds)
  /\ aborted' = {[source  |-> IF holders[d.source] = NoHandle THEN Unused
                                                            ELSE SourceUse(holders, d),
                  request |-> d.request] :
                   d \in {ds[v] : v \in {w \in DOMAIN ds : CasesOf(holders, ds[w]) = {}}}}
  /\ UNCHANGED <<program, details, implicit, managed, task, holder, use, trail>>

\* Handles that go out of existence let go of their holders.
Without(holders, gone) == [h \in Handles |-> IF h \in gone THEN NoHandle ELSE holders[h]]

ClosureOf(t) == {h \in Handles : h.place = t.block /\ h.round = t.round}

ManagersHandles == {h \in Handles : h.place = "implicit"}

\* With its last task the manager goes, and with it its implicit handles.
WithoutManager(holders, tasks) ==
  IF tasks = {} THEN Without(holders, ManagersHandles) ELSE holders

(***************************************************************************)
(* execute_while_captures: each implicit capture is made from the handle   *)
(* the manager has, into a copy of it that takes its place.                *)
(***************************************************************************)
NextImplicit(v) == Handle("implicit", implicit[v] + 1, v)

\* The body's description still points to the handle of the round before.
StaleBodySlip(ds) ==
  [b \in Blocks |->
     [v \in DOMAIN ds[b] |->
        IF b = "condition" /\ v \in ImplicitVariables
        THEN [ds[b][v] EXCEPT !.source = Implicit(v), !.captured = NextImplicit(v)]
        ELSE ds[b][v]]]

\* The descriptions as execute_while_captures leaves them.
WithNextImplicit(ds) ==
  [b \in Blocks |->
     [v \in DOMAIN ds[b] |->
        IF v \notin ImplicitVariables THEN ds[b][v]
        ELSE IF b = "condition"
             THEN [ds[b][v] EXCEPT !.source = Implicit(v), !.captured = NextImplicit(v)]
             ELSE [ds[b][v] EXCEPT !.source = NextImplicit(v)]]]

\* The copy that was in the manager before is let go after the capture.
ReplacedImplicit == {Implicit(v) : v \in ImplicitVariables}

ExecuteWhileCaptures(holders, ds) ==
  /\ CanExecute(holders, WithNextImplicit(ds)["condition"])
  /\ Execute(holders, WithNextImplicit(ds)["condition"], ReplacedImplicit)
  /\ details' = WithNextImplicit(ds)
  /\ implicit' = [v \in Variables |->
                    IF v \in ImplicitVariables THEN implicit[v] + 1 ELSE implicit[v]]

(***************************************************************************)
(* create_work_while(...).do_(...)                                         *)
(***************************************************************************)
\* The manager's copy of a handle for an implicit capture shares the
\* holder of the user's handle.
WithImplicitCopies ==
  [h \in Handles |->
     IF h.variable \in ImplicitVariables /\ h = Implicit(h.variable)
     THEN holder[Outer(h.variable)] ELSE holder[h]]

IsNew == \A t \in Tasks : task[t] = "unborn"

CreateWhile ==
  /\ construct = "while"
  /\ IsNew
  /\ ExecuteWhileCaptures(WithImplicitCopies, FirstDetails)
  /\ task' = [task EXCEPT ![TaskOf("condition", 0)] = "registered",
                          ![TaskOf("body", 0)] = "built"]
  /\ managed' = {TaskOf("condition", 0), TaskOf("body", 0)}
  /\ UNCHANGED <<program, aborted>>

CreateWhileAborts ==
  /\ construct = "while"
  /\ IsNew
  /\ Abort(WithImplicitCopies, WithNextImplicit(FirstDetails)["condition"])

(***************************************************************************)
(* WhileLambdaTask::run                                                    *)
(***************************************************************************)
\* A condition is captured from the handle in the closure of the body, which
\* another thread may be done with.
FromBodySlip(ds, round) ==
  [b \in Blocks |->
     [v \in DOMAIN ds[b] |->
        IF b = "condition" /\ v \in ImplicitVariables THEN ds[b][v]
        ELSE [ds[b][v] EXCEPT
                !.source = IF b = "condition"
                           THEN IF v \in DOMAIN ds["body"] THEN ds["body"][v].captured
                                                            ELSE ds[b][v].captured
                           ELSE IF v \in ImplicitVariables THEN ds["condition"][v].captured
                                ELSE Handle("condition", round, v),
                !.captured = Handle(b, round, v)]]]

\* The flags are consulted again, when the first round has cleared them.
FlagsAgainSlip(ds, round) ==
  [b \in Blocks |->
     [v \in DOMAIN ds[b] |->
        IF b = "condition" /\ v \in ImplicitVariables THEN ds[b][v]
        ELSE [ds[b][v] EXCEPT
                !.source = IF b = "condition"
                           THEN IF v \in DOMAIN ds["body"] THEN ds["body"][v].source
                                                            ELSE ds[b][v].captured
                           ELSE IF v \in ImplicitVariables THEN ds["condition"][v].captured
                                ELSE Handle("condition", round, v),
                !.captured = Handle(b, round, v),
                !.request = IF b = "condition" THEN @
                            ELSE DefaultRequest(ds["condition"][v].request.scheduling)]]]

\* recapture: both closures are copied again.  A condition's capture is
\* made from the handle its body was captured from, or, if the body does
\* not mention it, from the present condition's; a body's capture is made
\* from the new condition's.
Recaptured(ds, round) ==
  [b \in Blocks |->
     IF b = "condition"
     THEN [v \in DOMAIN ds[b] |->
             IF v \in ImplicitVariables THEN ds[b][v]
             ELSE [ds[b][v] EXCEPT
                     !.source = IF v \in DOMAIN ds["body"] THEN ds["body"][v].source
                                                           ELSE ds[b][v].captured,
                     !.captured = Handle("condition", round, v)]]
     ELSE [v \in DOMAIN ds[b] |->
             [ds[b][v] EXCEPT
                !.source = IF v \in ImplicitVariables THEN ds["condition"][v].captured
                                                      ELSE Handle("condition", round, v),
                !.captured = Handle(b, round, v)]]]

\* The condition holds: the body is captured and registered, after the
\* closures were copied for the next round.
BeginIteration(n) ==
  /\ construct = "while"
  /\ task[TaskOf("condition", n)] = "registered"
  /\ n < MaxIterations
  /\ CanExecute(holder, details["body"])
  /\ Execute(holder, details["body"], {})
  /\ details' = Recaptured(details, n + 1)
  /\ task' = [task EXCEPT ![TaskOf("condition", n)] = "running",
                          ![TaskOf("body", n)] = "registered",
                          ![TaskOf("condition", n + 1)] = "built",
                          ![TaskOf("body", n + 1)] = "built"]
  /\ managed' = managed \cup {TaskOf("condition", n + 1), TaskOf("body", n + 1)}
  /\ UNCHANGED <<program, implicit, aborted>>

\* The next condition is captured and registered, while the body may run.
NextIteration(n) ==
  /\ construct = "while"
  /\ task[TaskOf("condition", n)] = "running"
  /\ ExecuteWhileCaptures(holder, details)
  /\ task' = [task EXCEPT ![TaskOf("condition", n)] = "returned",
                          ![TaskOf("condition", n + 1)] = "registered"]
  /\ managed' = managed \ {TaskOf("condition", n)}
  /\ UNCHANGED <<program, aborted>>

IterationAborts(n) ==
  /\ construct = "while"
  /\ \/ /\ task[TaskOf("condition", n)] = "registered"
        /\ n < MaxIterations
        /\ Abort(holder, details["body"])
     \/ /\ task[TaskOf("condition", n)] = "running"
        /\ Abort(holder, WithNextImplicit(details)["condition"])

\* The body that is never run stays with the manager.
KeptBodySlip(n) ==
  /\ construct = "while"
  /\ task[TaskOf("condition", n)] = "registered"
  /\ LET left == managed \ {TaskOf("condition", n)}
     IN  /\ managed' = left
         /\ holder' = WithoutManager(holder, left)
  /\ task' = [task EXCEPT ![TaskOf("condition", n)] = "returned",
                          ![TaskOf("body", n)] = "discarded"]
  /\ UNCHANGED <<program, details, implicit, use, trail, aborted>>

\* The condition does not hold: the body is discarded, which ends the cycle
\* of the manager and the tasks it owns.
EndLoop(n) ==
  /\ construct = "while"
  /\ task[TaskOf("condition", n)] = "registered"
  /\ LET left == managed \ {TaskOf("condition", n), TaskOf("body", n)}
     IN  /\ managed' = left
         /\ holder' = WithoutManager(holder, left)
  /\ task' = [task EXCEPT ![TaskOf("condition", n)] = "returned",
                          ![TaskOf("body", n)] = "discarded"]
  /\ UNCHANGED <<program, details, implicit, use, trail, aborted>>

(***************************************************************************)
(* create_work_if(...).then_(...).else_(...)                               *)
(***************************************************************************)
CreateIf ==
  /\ construct = "if"
  /\ IsNew
  /\ CanExecute(WithImplicitCopies, FirstDetails["condition"])
  /\ Execute(WithImplicitCopies, FirstDetails["condition"], {})
  /\ details' = FirstDetails
  /\ task' = [task EXCEPT ![TaskOf("condition", 0)] = "registered",
                          ![TaskOf("body", 0)] = "built",
                          ![TaskOf("otherwise", 0)] = "built"]
  /\ managed' = {TaskOf("condition", 0)}
  /\ UNCHANGED <<program, implicit, aborted>>

IfAborts ==
  /\ construct = "if"
  /\ \/ IsNew /\ Abort(WithImplicitCopies, FirstDetails["condition"])
     \/ /\ task[TaskOf("condition", 0)] = "registered"
        /\ \E b \in {"body", "otherwise"} : Abort(holder, details[b])

OtherBody(b) == IF b = "body" THEN "otherwise" ELSE "body"

\* IfLambdaTask::run: one body is captured and registered, and the manager
\* goes with the other one.  That other one may be an else_ never given.
RunIf(b) ==
  /\ construct = "if"
  /\ task[TaskOf("condition", 0)] = "registered"
  /\ CanExecute(holder, details[b])
  /\ Execute(holder, details[b], ManagersHandles)
  /\ task' = [task EXCEPT ![TaskOf("condition", 0)] = "returned",
                          ![TaskOf(b, 0)] = "registered",
                          ![TaskOf(OtherBody(b), 0)] = "discarded"]
  /\ managed' = {}
  /\ UNCHANGED <<program, details, implicit, aborted>>

(***************************************************************************)
(* The backend and the user                                                *)
(***************************************************************************)
\* A task whose run() has returned is destroyed, and its closure with it.
DestroyCondition(n) ==
  /\ task[TaskOf("condition", n)] = "returned"
  /\ task' = [task EXCEPT ![TaskOf("condition", n)] = "destroyed"]
  /\ holder' = Without(holder, ClosureOf(TaskOf("condition", n)))
  /\ UNCHANGED <<program, details, implicit, managed, use, trail, aborted>>

\* A body runs and is destroyed; only then does it let go of the manager.
RunBody(b, n) ==
  /\ task[TaskOf(b, n)] = "registered"
  /\ task' = [task EXCEPT ![TaskOf(b, n)] = "destroyed"]
  /\ managed' = managed \ {TaskOf(b, n)}
  /\ holder' = LET closed == Without(holder, ClosureOf(TaskOf(b, n)))
               IN  WithoutManager(closed, managed \ {TaskOf(b, n)})
  /\ UNCHANGED <<program, details, implicit, use, trail, aborted>>

\* The user's handle goes out of scope after the call.
DropOuter(v) ==
  /\ ~IsNew
  /\ holder[Outer(v)] # NoHandle
  /\ holder' = Without(holder, {Outer(v)})
  /\ UNCHANGED <<program, details, implicit, managed, task, use, trail, aborted>>

Ended == \A t \in Tasks : task[t] \in {"unborn", "discarded", "destroyed"}

TaskSteps ==
  /\ aborted = {}
  /\ \/ CreateWhile \/ CreateWhileAborts \/ CreateIf \/ IfAborts
     \/ \E b \in {"body", "otherwise"} : RunIf(b)
     \/ \E n \in Rounds :
          \/ BeginIteration(n) \/ NextIteration(n) \/ IterationAborts(n)
          \/ EndLoop(n) \/ DestroyCondition(n)
          \/ \E b \in {"body", "otherwise"} : RunBody(b, n)

Next == TaskSteps \/ (aborted = {} /\ \E v \in Variables : DropOuter(v))

Spec == Init /\ [][Next]_vars

\* The backend runs what is registered, and run() returns.
FairSpec == Spec /\ WF_vars(TaskSteps)

-----------------------------------------------------------------------------
Permitted == [source : Handles, captured : Handles, request : PermissionPairs]

\* Every variable has its type.
TypeOK ==
  /\ construct \in Constructs
  /\ mentions \in [Blocks -> SUBSET Variables]
  /\ flags \in [Blocks -> [Variables -> SUBSET FrontEndFlags]]
  /\ \A b \in Blocks : \A v \in DOMAIN details[b] : details[b][v] \in Permitted
  /\ implicit \in [Variables -> 0 .. (MaxIterations + 1)]
  /\ managed \subseteq {t \in Tasks : task[t] \in {"built", "registered", "running"}}
  /\ task \in [Tasks -> {"unborn", "built", "registered", "running", "returned",
                         "discarded", "destroyed"}]
  /\ holder \in [Handles -> Handles \cup {NoHandle}]
  /\ use \in [Handles -> PermissionPairs]
  /\ \A h \in Handles : \A i \in DOMAIN trail[h] :
       trail[h][i] \in [captured : Handles, request : PermissionPairs]
  /\ aborted \subseteq [source : PermissionPairs, request : PermissionPairs]

-----------------------------------------------------------------------------
\* What the condition of a round captures a variable into.
ConditionsHandle(n, v) ==
  IF v \in mentions["condition"] THEN Handle("condition", n, v)
  ELSE Handle("implicit", IF construct = "while" THEN n + 1 ELSE n, v)

\* The captures the sequential program makes from a holder, in order: the
\* condition from the user's handle; from a condition its body and then the
\* next condition.
Unrolled(h) ==
  LET v == h.variable
  IN  IF h.place = "outer" THEN {<<ConditionsHandle(0, v)>>}
      ELSE IF h.place \in {"body", "otherwise"} THEN {<< >>}
      ELSE IF construct = "if" THEN {<<Handle(b, 0, v)>> : b \in BodiesOf(v)}
      ELSE LET n == IF h.place = "implicit" THEN h.round - 1 ELSE h.round
           IN  {(IF v \in mentions["body"] THEN <<Handle("body", n, v)>> ELSE << >>)
                  \o <<ConditionsHandle(n + 1, v)>>}

PrefixOf(s, t) == Len(s) <= Len(t) /\ \A i \in DOMAIN s : s[i] = t[i]

\* However the rounds of a loop overlap, and whether or not a block mentions
\* a variable, each block is captured from the handle that the sequential
\* program would have it read: a body from its condition, a condition from
\* what the previous body leaves.
CapturedInProgramOrder ==
  \A h \in Handles :
    trail[h] # << >> =>
      \E expected \in Unrolled(h) :
        PrefixOf([i \in DOMAIN trail[h] |-> trail[h][i].captured], expected)

\* No capture that was described while the closures were built has lost its
\* source when it is made.  What aborts a program is only the request that
\* the table of cases lacks: to schedule reads of what one is modifying.
SourcesOutliveCaptures ==
  \A a \in aborted :
    a.source.immediate = Modify /\ a.request = Perms(Read, None)

Captures == UNION {{trail[h][i] : i \in DOMAIN trail[h]} : h \in Handles}

CapturesOf(places, v) ==
  {c \in Captures : c.captured.place \in places /\ c.captured.variable = v}

\* Every round asks for what the first one did, although flags are only
\* consulted once, and a condition may schedule all that its bodies ask for.
RoundsAgree ==
  \A v \in Variables :
    LET conditions == CapturesOf({"condition", "implicit"}, v)
    IN  /\ \A c, d \in conditions : c.request = d.request
        /\ \A c, d \in CapturesOf({"body"}, v) : c.request = d.request
        /\ \A c \in conditions, d \in CapturesOf({"body", "otherwise"}, v) :
             d.request.scheduling \cup d.request.immediate \subseteq c.request.scheduling

\* Once the tasks are gone the manager is, and no handle of the construct
\* keeps a use: the manager and the tasks it owns refer to each other.
NothingKept ==
  Ended /\ ~IsNew =>
    \A h \in Handles : h.place # "outer" => holder[h] = NoHandle

\* Every construct that is not aborted comes to its end, with every body run
\* and everything it captured let go.
ComesToAnEnd ==
  <>(\/ aborted # {}
     \/ Ended /\ ~IsNew /\ \A h \in Handles : h.place # "outer" => holder[h] = NoHandle)

=============================================================================
