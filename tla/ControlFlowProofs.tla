-------------------------- MODULE ControlFlowProofs --------------------------
(***************************************************************************)
(* Conditionals and loops, for any programs, any number of iterations and  *)
(* any uses of the user's handles.                                         *)
(*                                                                         *)
(* A construct goes through phases: it has not begun; the condition of a   *)
(* round is registered and has not run; it is running; the last condition  *)
(* has returned.  What the manager's descriptions point to, which handles  *)
(* have a holder and which captures were made from them is known in each   *)
(* phase; between two phases the tasks of the rounds before may run and go *)
(* in any order.                                                           *)
(***************************************************************************)
EXTENDS ControlFlow, CaptureTableProofs, SequenceTheorems

(***************************************************************************)
(* What holds in all phases                                                *)
(***************************************************************************)
CaptureRecords == [captured : Handles, request : PermissionPairs]

\* TypeOK leaves open that a trail is a sequence.
Typed ==
  /\ TypeOK
  /\ trail \in [Handles -> Seq(CaptureRecords)]
  /\ [construct |-> construct, mentions |-> mentions, flags |-> flags] \in Programs

\* What a block captures, for itself or for the bodies.
VariablesOf(b) ==
  IF b = "condition" THEN mentions[b] \cup ImplicitVariables ELSE mentions[b]

\* The block that a handle is captured for.
BlockOf(h) == IF h.place = "implicit" THEN "condition" ELSE h.place

\* The captures that were made ask for what the manager's descriptions do.
TrailsAsDescribed ==
  \A h \in Handles : \A i \in DOMAIN trail[h] :
    LET c == trail[h][i]
        b == BlockOf(c.captured)
        v == c.captured.variable
    IN  /\ b \in Blocks
        /\ v \in DOMAIN details[b]
        /\ c.request = details[b][v].request

\* A handle of the construct has a holder only while its task or the manager
\* is there.
IsKept(h) ==
  \/ h.place = "outer"
  \/ h.place = "implicit" /\ managed # {}
  \/ \E t \in Tasks : h \in ClosureOf(t) /\ task[t] \in {"registered", "running", "returned"}

HoldersKept == \A h \in Handles : holder[h] # NoHandle => IsKept(h)

(***************************************************************************)
(* The phases                                                              *)
(***************************************************************************)
\* Nothing was described, made or captured.
NotBegun ==
  /\ IsNew
  /\ details = [b \in Blocks |-> NoDetails]
  /\ implicit = [v \in Variables |-> 0]
  /\ \A h \in Handles : /\ holder[h] = IF h \in UsersHandles THEN h ELSE NoHandle
                        /\ trail[h] = << >>
  /\ \A h \in UsersHandles : use[h] \in OuterUses

\* One description for each variable of a block.  A condition may schedule
\* what its bodies ask for.
Described ==
  /\ \A b \in Blocks : DOMAIN details[b] = VariablesOf(b)
  /\ \A b \in {"body", "otherwise"} : \A v \in mentions[b] :
       details[b][v].request.scheduling \cup details[b][v].request.immediate
         \subseteq details["condition"][v].request.scheduling

\* The rounds up to n were captured, and what the condition of round n
\* captured has a holder of its own.
CapturedUpTo(n) ==
  /\ \A v \in VariablesOf("condition") : holder[ConditionsHandle(n, v)] = ConditionsHandle(n, v)
  /\ \A h \in Handles :
       \/ h.place \in {"body", "otherwise"}
       \/ h.place = "condition" /\ h.round > n
       \/ h.place = "implicit" /\ h.round > (IF construct = "while" THEN n + 1 ELSE n)
       => trail[h] = << >>

\* A condition is captured into its handles, a body from them.
DescribesRound(ds, n) ==
  /\ \A v \in VariablesOf("condition") : ds["condition"][v].captured = ConditionsHandle(n, v)
  /\ \A b \in {"body", "otherwise"} : \A v \in mentions[b] :
       /\ ds[b][v].source = ConditionsHandle(n, v)
       /\ ds[b][v].captured = Handle(b, n, v)

\* The rounds before n are registered, and the ones from n on are not.
RoundsBefore(n) ==
  \A m \in Rounds : m < n =>
    /\ task[TaskOf("condition", m)] \in {"returned", "destroyed"}
    /\ task[TaskOf("body", m)] \in {"registered", "destroyed"}

RoundsAfter(n) ==
  /\ \A m \in Rounds : m > n => /\ task[TaskOf("condition", m)] = "unborn"
                                /\ task[TaskOf("body", m)] = "unborn"
  /\ \A m \in Rounds : task[TaskOf("otherwise", m)] = "unborn"

\* The condition of round n of a loop is registered.
Waiting(n) ==
  /\ construct = "while"
  /\ task[TaskOf("condition", n)] = "registered" /\ task[TaskOf("body", n)] = "built"
  /\ RoundsBefore(n) /\ RoundsAfter(n)
  /\ {TaskOf("condition", n), TaskOf("body", n)} \subseteq managed
  /\ Described /\ DescribesRound(details, n) /\ CapturedUpTo(n)
  /\ \A v \in ImplicitVariables : implicit[v] = n + 1
  /\ \A v \in VariablesOf("condition") : trail[ConditionsHandle(n, v)] = << >>

\* The condition of round n of a loop is running, its body is registered, and
\* the closures of the next round are copied.
Running(n) ==
  /\ construct = "while"
  /\ n < MaxIterations
  /\ task[TaskOf("condition", n)] = "running"
  /\ task[TaskOf("body", n)] \in {"registered", "destroyed"}
  /\ task[TaskOf("condition", n + 1)] = "built" /\ task[TaskOf("body", n + 1)] = "built"
  /\ RoundsBefore(n) /\ RoundsAfter(n + 1)
  /\ {TaskOf("condition", n + 1), TaskOf("body", n + 1)} \subseteq managed
  /\ Described /\ DescribesRound(WithNextImplicit(details), n + 1) /\ CapturedUpTo(n)
  /\ \A v \in VariablesOf("condition") :
       WithNextImplicit(details)["condition"][v].source = ConditionsHandle(n, v)
  /\ \A v \in ImplicitVariables : implicit[v] = n + 1
  /\ \A v \in VariablesOf("condition") :
       LET made == trail[ConditionsHandle(n, v)]
       IN  IF v \in mentions["body"]
           THEN Len(made) = 1 /\ made[1].captured = Handle("body", n, v)
           ELSE made = << >>

\* The condition of a conditional is registered.
Undecided ==
  /\ construct = "if"
  /\ task[TaskOf("condition", 0)] = "registered"
  /\ task[TaskOf("body", 0)] = "built" /\ task[TaskOf("otherwise", 0)] = "built"
  /\ \A m \in Rounds, b \in Blocks : m > 0 => task[TaskOf(b, m)] = "unborn"
  /\ TaskOf("condition", 0) \in managed
  /\ Described /\ DescribesRound(details, 0) /\ CapturedUpTo(0)
  /\ \A v \in VariablesOf("condition") : trail[ConditionsHandle(0, v)] = << >>

\* The last condition has returned.
Decided ==
  /\ Described
  /\ ~IsNew
  /\ \A n \in Rounds : task[TaskOf("condition", n)] \notin {"registered", "running"}

Phases ==
  NotBegun \/ (\E n \in Rounds : Waiting(n) \/ Running(n)) \/ Undecided \/ Decided

Construct ==
  Typed /\ TrailsAsDescribed /\ HoldersKept /\ CapturedInProgramOrder /\ Phases

(***************************************************************************)
(* Handles                                                                 *)
(***************************************************************************)
\* The fields of handles and tasks, and which of them are equal.
LEMMA HandleShape ==
  ASSUME NEW place \in Blocks \cup {"outer", "implicit"},
         NEW n \in 0 .. (MaxIterations + 1), NEW v \in Variables
  PROVE  /\ Handle(place, n, v) \in Handles
         /\ Handle(place, n, v).place = place
         /\ Handle(place, n, v).round = n
         /\ Handle(place, n, v).variable = v
         /\ Handle(place, n, v) # NoHandle
BY DEF Handle, Handles, NoHandle

\* What names a handle.
LEMMA HandleIsNamed ==
  ASSUME NEW h \in Handles
  PROVE  /\ h = Handle(h.place, h.round, h.variable)
         /\ h.place \in Blocks \cup {"outer", "implicit"}
         /\ h.round \in 0 .. (MaxIterations + 1)
         /\ h.variable \in Variables
         /\ h # NoHandle
BY DEF Handle, Handles, NoHandle

\* What names a task, and which handles are in its closure.
LEMMA TaskShape ==
  ASSUME NEW b \in Blocks, NEW n \in Rounds
  PROVE  /\ TaskOf(b, n) \in Tasks
         /\ TaskOf(b, n).block = b
         /\ TaskOf(b, n).round = n
         /\ \A h : h \in ClosureOf(TaskOf(b, n)) <=>
                     h \in Handles /\ h.place = b /\ h.round = n
         /\ \A c \in Blocks, m \in Rounds : TaskOf(c, m) = TaskOf(b, n) <=> c = b /\ m = n
BY DEF TaskOf, Tasks, ClosureOf

\* Every task has a name.
LEMMA TaskIsNamed ==
  ASSUME NEW t \in Tasks
  PROVE  t.block \in Blocks /\ t.round \in Rounds /\ t = TaskOf(t.block, t.round)
BY DEF TaskOf, Tasks

\* Rounds are numbered from zero.
LEMMA RoundsAreNumbers ==
  /\ MaxIterations \in Nat
  /\ 0 \in Rounds
  /\ \A n \in Rounds : /\ n \in Nat /\ n <= MaxIterations
                       /\ n \in 0 .. (MaxIterations + 1)
                       /\ n + 1 \in 0 .. (MaxIterations + 1)
                       /\ n < MaxIterations => n + 1 \in Rounds
BY ControlFlowAssumption DEF Rounds

\* The variables that blocks mention, and the conditions capture.
LEMMA VariablesMentioned ==
  ASSUME Typed
  PROVE  /\ \A b \in Blocks : VariablesOf(b) \subseteq Variables /\ mentions[b] \subseteq Variables
         /\ ImplicitVariables \subseteq VariablesOf("condition")
         /\ \A b \in {"body", "otherwise"} : /\ VariablesOf(b) = mentions[b]
                                             /\ mentions[b] \subseteq VariablesOf("condition")
         /\ \A v \in VariablesOf("condition") :
              v \in ImplicitVariables <=> v \notin mentions["condition"]
         /\ \A v \in VariablesOf("condition") : Outer(v) \in UsersHandles
BY DEF Typed, TypeOK, VariablesOf, ImplicitVariables, Blocks, UsersHandles

\* What the condition of a round captures into.
LEMMA ConditionsHandleShape ==
  ASSUME Typed, NEW n \in Rounds, NEW v \in VariablesOf("condition")
  PROVE  /\ ConditionsHandle(n, v) \in Handles
         /\ ConditionsHandle(n, v).variable = v
         /\ ConditionsHandle(n, v) # NoHandle
         /\ \/ /\ ConditionsHandle(n, v).place = "condition"
               /\ ConditionsHandle(n, v).round = n
               /\ v \notin ImplicitVariables
            \/ /\ ConditionsHandle(n, v).place = "implicit"
               /\ ConditionsHandle(n, v).round = (IF construct = "while" THEN n + 1 ELSE n)
               /\ v \in ImplicitVariables
<1>1. v \in Variables /\ (v \in ImplicitVariables <=> v \notin mentions["condition"])
  BY VariablesMentioned DEF Blocks
<1>2. CASE v \in mentions["condition"]
  <2>1. ConditionsHandle(n, v) = Handle("condition", n, v)
    BY <1>2 DEF ConditionsHandle
  <2>. QED
    BY <1>1, <1>2, <2>1, RoundsAreNumbers, HandleShape DEF Blocks
<1>3. CASE v \notin mentions["condition"]
  <2>1. ConditionsHandle(n, v) = Handle("implicit", IF construct = "while" THEN n + 1 ELSE n, v)
    BY <1>3 DEF ConditionsHandle
  <2>2. (IF construct = "while" THEN n + 1 ELSE n) \in 0 .. (MaxIterations + 1)
    BY RoundsAreNumbers
  <2>. QED
    BY <1>1, <1>3, <2>1, <2>2, HandleShape DEF Blocks
<1>. QED
  BY <1>2, <1>3

(***************************************************************************)
(* Captures                                                                *)
(***************************************************************************)
\* The descriptions capture variables, each from the handle "from" gives it.
MadeFrom(holders, ds, from) ==
  /\ DOMAIN ds \subseteq Variables
  /\ \A v \in DOMAIN ds :
       /\ ds[v].captured \in Handles /\ ds[v].captured.variable = v
       /\ ds[v].request \in PermissionPairs
       /\ from[v] \in Handles /\ from[v].variable = v
       /\ from[v] # ds[v].captured
       /\ holders[ds[v].source] = from[v]

\* The holders, uses and trails that captures leave.
CapturesMade(holders, ds, gone, from) ==
  /\ \A v \in DOMAIN ds :
       /\ holder'[ds[v].captured] = ds[v].captured
       /\ use'[ds[v].captured] = ds[v].request
       /\ use'[from[v]].scheduling = use[from[v]].scheduling
       /\ use'[from[v]].immediate \subseteq use[from[v]].immediate
       /\ trail'[from[v]] = Append(trail[from[v]], [captured |-> ds[v].captured,
                                                    request  |-> ds[v].request])
  /\ \A h \in Handles : (\A v \in DOMAIN ds : h # ds[v].captured) =>
       holder'[h] = IF h \in gone THEN NoHandle ELSE holders[h]
  /\ \A h \in Handles : (\A v \in DOMAIN ds : h # from[v]) => trail'[h] = trail[h]
  /\ \A h \in Handles : (\A v \in DOMAIN ds : h # from[v] /\ h # ds[v].captured) =>
       use'[h] = use[h]
  /\ use' \in [Handles -> PermissionPairs]
  /\ trail' \in [Handles -> Seq(CaptureRecords)]

\* Captures touch the handles they are made from and the captured ones.
LEMMA Executed ==
  ASSUME Typed, NEW holders, NEW ds, NEW gone, NEW from,
         MadeFrom(holders, ds, from), CanExecute(holders, ds), Execute(holders, ds, gone)
  PROVE  CapturesMade(holders, ds, gone, from)
<1> DEFINE left(h) == ContinuingPermissions(
              CHOOSE case \in CasesOf(holders, ds[h.variable]) : TRUE, use[h])
           record(v) == [captured |-> ds[v].captured, request  |-> ds[v].request]
<1>1. /\ use \in [Handles -> PermissionPairs]
      /\ trail \in [Handles -> Seq(CaptureRecords)]
  BY DEF Typed, TypeOK
<1>2. /\ \A v \in DOMAIN ds :
           /\ v \in Variables
           /\ ds[v].captured \in Handles /\ ds[v].captured.variable = v
           /\ ds[v].request \in PermissionPairs
           /\ from[v] \in Handles /\ from[v].variable = v
           /\ from[v] # ds[v].captured
           /\ holders[ds[v].source] = from[v]
  BY DEF MadeFrom
<1>3. \A h \in Handles : IsCaptured(ds, h) <=> \E v \in DOMAIN ds : h = ds[v].captured
  BY <1>2 DEF IsCaptured
<1>4. \A h \in Handles : IsSource(holders, ds, h) <=> \E v \in DOMAIN ds : h = from[v]
  BY <1>2 DEF IsSource
<1>5. ASSUME NEW v \in DOMAIN ds
      PROVE  /\ left(from[v]) \in PermissionPairs
             /\ left(from[v]).scheduling = use[from[v]].scheduling
             /\ left(from[v]).immediate \subseteq use[from[v]].immediate
  <2>1. CasesOf(holders, ds[v]) # {} /\ from[v] # NoHandle
    BY <1>2, HandleIsNamed DEF CanExecute
  <2>2. CasesOf(holders, ds[v]) = CasesFor("Sequential", use[from[v]], ds[v].request)
    BY <1>2, <2>1 DEF CasesOf, SourceUse
  <2>3. (CHOOSE case \in CasesOf(holders, ds[v]) : TRUE)
          \in CasesFor("Sequential", use[from[v]], ds[v].request)
    BY <2>1, <2>2
  <2>4. use[from[v]] \in PermissionPairs
    BY <1>1, <1>2
  <2>5. left(from[v]) = ContinuingPermissions(
              CHOOSE case \in CasesOf(holders, ds[v]) : TRUE, use[from[v]])
    BY <1>2
  <2>6. \A case \in CasesFor("Sequential", use[from[v]], ds[v].request) :
          LET continuing == ContinuingPermissions(case, use[from[v]])
          IN  /\ continuing \in PermissionPairs
              /\ continuing.scheduling = use[from[v]].scheduling
              /\ continuing.immediate \subseteq use[from[v]].immediate
    BY <1>2, <2>4, ContinuingTyped
  <2> HIDE DEF left
  <2>. QED
    BY <2>3, <2>5, <2>6
<1>6. ASSUME NEW v \in DOMAIN ds PROVE record(v) \in CaptureRecords
  BY <1>2 DEF CaptureRecords
<1>7. \A h \in Handles :
        /\ holder'[h] = IF IsCaptured(ds, h) THEN h
                        ELSE IF h \in gone THEN NoHandle ELSE holders[h]
        /\ use'[h] = IF IsCaptured(ds, h) THEN ds[h.variable].request
                     ELSE IF IsSource(holders, ds, h) THEN left(h) ELSE use[h]
        /\ trail'[h] = IF IsSource(holders, ds, h) THEN Append(trail[h], record(h.variable))
                       ELSE trail[h]
  BY DEF Execute
<1>8. use' = [h \in Handles |-> use'[h]] /\ trail' = [h \in Handles |-> trail'[h]]
  BY DEF Execute
<1> HIDE DEF left, record
<1>9. \A v \in DOMAIN ds :
       /\ holder'[ds[v].captured] = ds[v].captured
       /\ use'[ds[v].captured] = ds[v].request
  BY <1>2, <1>3, <1>7
<1>10. \A v \in DOMAIN ds : ~IsCaptured(ds, from[v])
  <2> SUFFICES ASSUME NEW v \in DOMAIN ds, NEW w \in DOMAIN ds, from[v] = ds[w].captured
               PROVE  FALSE
    BY <1>2, <1>3
  <2>. QED
    BY <1>2
<1>11. \A v \in DOMAIN ds : use'[from[v]] = left(from[v]) /\
         trail'[from[v]] = Append(trail[from[v]], record(v))
  BY <1>2, <1>4, <1>7, <1>10
<1>12. use' \in [Handles -> PermissionPairs]
  <2>1. ASSUME NEW h \in Handles PROVE use'[h] \in PermissionPairs
    BY <1>1, <1>2, <1>3, <1>4, <1>5, <1>7
  <2>. QED
    BY <1>8, <2>1
<1>13. trail' \in [Handles -> Seq(CaptureRecords)]
  <2>1. ASSUME NEW h \in Handles PROVE trail'[h] \in Seq(CaptureRecords)
    <3>1. CASE IsSource(holders, ds, h)
      <4>1. PICK v \in DOMAIN ds : h = from[v]
        BY <1>4, <3>1
      <4>2. trail'[h] = Append(trail[h], record(v))
        BY <1>11, <4>1
      <4>. QED
        BY <1>1, <1>6, <4>2, AppendProperties
    <3>2. CASE ~IsSource(holders, ds, h)
      BY <1>1, <1>7, <3>2
    <3>. QED
      BY <3>1, <3>2
  <2>. QED
    BY <1>8, <2>1
<1>14. \A v \in DOMAIN ds :
         trail'[from[v]] = Append(trail[from[v]], [captured |-> ds[v].captured,
                                                   request  |-> ds[v].request])
  BY <1>11 DEF record
<1>15. \A h \in Handles : (\A v \in DOMAIN ds : h # ds[v].captured) =>
         holder'[h] = IF h \in gone THEN NoHandle ELSE holders[h]
  BY <1>3, <1>7
<1>16. \A h \in Handles : (\A v \in DOMAIN ds : h # from[v]) => trail'[h] = trail[h]
  BY <1>4, <1>7
<1>17. \A h \in Handles : (\A v \in DOMAIN ds : h # from[v] /\ h # ds[v].captured) =>
         use'[h] = use[h]
  BY <1>3, <1>4, <1>7
<1>18. \A v \in DOMAIN ds : /\ use'[from[v]].scheduling = use[from[v]].scheduling
                            /\ use'[from[v]].immediate \subseteq use[from[v]].immediate
  BY <1>5, <1>11
<1>. QED
  BY <1>9, <1>12, <1>13, <1>14, <1>15, <1>16, <1>17, <1>18 DEF CapturesMade

(***************************************************************************)
(* The beginning                                                           *)
(***************************************************************************)
\* A construct begins with nothing described or captured.
LEMMA ConstructInit == Init => Construct
<1> SUFFICES ASSUME Init PROVE Construct
  OBVIOUS
<1>1. PICK p \in Programs : construct = p.construct /\ mentions = p.mentions /\ flags = p.flags
  BY DEF Init
<1>2. p \in [construct : Constructs, mentions : [Blocks -> SUBSET Variables],
             flags : [Blocks -> [Variables -> SUBSET FrontEndFlags]]]
  <2>1. p \in WhilePrograms \cup IfPrograms
    BY ControlFlowAssumption
  <2>. QED
    BY <2>1 DEF WhilePrograms, IfPrograms, BlockPrograms, Constructs
<1>3. PICK u \in [Variables -> OuterUses] :
        use = [h \in Handles |-> IF h \in UsersHandles THEN u[h.variable] ELSE Unused]
  BY DEF Init
<1>4. /\ details = [b \in Blocks |-> NoDetails]
      /\ implicit = [v \in Variables |-> 0]
      /\ managed = {}
      /\ task = [t \in Tasks |-> "unborn"]
      /\ holder = [h \in Handles |-> IF h \in UsersHandles THEN h ELSE NoHandle]
      /\ trail = [h \in Handles |-> << >>]
      /\ aborted = {}
  BY DEF Init
<1>5. Typed
  <2>1. use \in [Handles -> PermissionPairs]
    <3>1. Unused \in PermissionPairs
      BY DEF Unused, Perms, PermissionPairs, Permissions, None
    <3>. QED
      BY <1>3, <3>1, ControlFlowAssumption, HandleIsNamed
  <2>2. \A b \in Blocks : \A v \in DOMAIN details[b] : details[b][v] \in Permitted
    BY <1>4 DEF NoDetails
  <2>3. trail \in [Handles -> Seq(CaptureRecords)]
    BY <1>4
  <2>4. \A h \in Handles : \A i \in DOMAIN trail[h] :
          trail[h][i] \in [captured : Handles, request : PermissionPairs]
    BY <1>4
  <2>5. /\ construct \in Constructs
        /\ mentions \in [Blocks -> SUBSET Variables]
        /\ flags \in [Blocks -> [Variables -> SUBSET FrontEndFlags]]
        /\ [construct |-> construct, mentions |-> mentions, flags |-> flags] = p
    BY <1>1, <1>2
  <2>6. implicit \in [Variables -> 0 .. (MaxIterations + 1)]
    BY <1>4, RoundsAreNumbers
  <2>7. holder \in [Handles -> Handles \cup {NoHandle}]
    BY <1>4
  <2>. QED
    BY <1>4, <2>1, <2>2, <2>3, <2>4, <2>5, <2>6, <2>7 DEF Typed, TypeOK
<1>6. NotBegun
  <2>1. \A h \in UsersHandles : use[h] \in OuterUses
    <3> SUFFICES ASSUME NEW h \in UsersHandles PROVE use[h] \in OuterUses
      OBVIOUS
    <3>1. PICK v \in UNION {mentions[b] : b \in Blocks} : h = Outer(v)
      BY DEF UsersHandles
    <3>2. v \in Variables
      BY <1>5 DEF Typed, TypeOK
    <3>3. h \in Handles /\ h.variable = v
      BY <3>1, <3>2, RoundsAreNumbers, HandleShape DEF Outer
    <3>. QED
      BY <1>3, <3>2, <3>3
  <2>. QED
    BY <1>4, <2>1 DEF NotBegun, IsNew
<1>7. TrailsAsDescribed /\ CapturedInProgramOrder
  BY <1>4 DEF TrailsAsDescribed, CapturedInProgramOrder
<1>8. HoldersKept
  BY <1>4, HandleShape, RoundsAreNumbers, VariablesMentioned, <1>5
  DEF HoldersKept, IsKept, UsersHandles, Outer, Handle
<1>. QED
  BY <1>5, <1>6, <1>7, <1>8 DEF Construct, Phases

(***************************************************************************)
(* Steps that capture nothing                                              *)
(***************************************************************************)
\* The program does not change, nor do the names that depend on it.
LEMMA NamesKept ==
  ASSUME UNCHANGED program
  PROVE  /\ construct' = construct /\ mentions' = mentions /\ flags' = flags
         /\ ImplicitVariables' = ImplicitVariables
         /\ UsersHandles' = UsersHandles
         /\ \A b : VariablesOf(b)' = VariablesOf(b)
         /\ \A n, v : ConditionsHandle(n, v)' = ConditionsHandle(n, v)
         /\ \A h : Unrolled(h)' = Unrolled(h)
BY DEF program, ImplicitVariables, UsersHandles, VariablesOf, ConditionsHandle, Unrolled, BodiesOf

\* What an aborted program leaves is what it had.
LEMMA AbortKeeps ==
  ASSUME Construct, UNCHANGED <<program, details, implicit, managed, task, holder, use, trail>>,
         aborted' \subseteq [source : PermissionPairs, request : PermissionPairs]
  PROVE  Construct'
<1>1. /\ ImplicitVariables' = ImplicitVariables
      /\ UsersHandles' = UsersHandles
      /\ \A b : VariablesOf(b)' = VariablesOf(b)
      /\ \A n, v : ConditionsHandle(n, v)' = ConditionsHandle(n, v)
      /\ \A h : Unrolled(h)' = Unrolled(h)
  BY NamesKept
<1>2. WithNextImplicit(details)' = WithNextImplicit(details)
  BY <1>1 DEF WithNextImplicit, NextImplicit, Implicit
<1>3. Typed'
  BY DEF Construct, Typed, TypeOK, program
<1>4. TrailsAsDescribed' /\ HoldersKept' /\ CapturedInProgramOrder'
  BY <1>1 DEF Construct, TrailsAsDescribed, HoldersKept, IsKept, CapturedInProgramOrder
<1>5. Described' <=> Described
  BY <1>1 DEF Described, program
<1>6. \A n : CapturedUpTo(n)' <=> CapturedUpTo(n)
  BY <1>1 DEF CapturedUpTo, program
<1>7. /\ \A n : DescribesRound(details, n)' <=> DescribesRound(details, n)
      /\ \A n : DescribesRound(WithNextImplicit(details), n)' <=>
                  DescribesRound(WithNextImplicit(details), n)
  BY <1>1, <1>2 DEF DescribesRound, program
<1>8. \A n : (RoundsBefore(n)' <=> RoundsBefore(n)) /\ (RoundsAfter(n)' <=> RoundsAfter(n))
  BY DEF RoundsBefore, RoundsAfter
<1>9. NotBegun => NotBegun'
  BY <1>1 DEF NotBegun, IsNew
<1>10. \A n \in Rounds : Waiting(n) => Waiting(n)'
  BY <1>1, <1>5, <1>6, <1>7, <1>8 DEF Waiting, program
<1>11. \A n \in Rounds : Running(n) => Running(n)'
  BY <1>1, <1>2, <1>5, <1>6, <1>7, <1>8 DEF Running, program
<1>12. Undecided => Undecided'
  BY <1>1, <1>5, <1>6, <1>7 DEF Undecided, program
<1>13. Decided => Decided'
  BY <1>5 DEF Decided, IsNew
<1>. QED
  BY <1>3, <1>4, <1>9, <1>10, <1>11, <1>12, <1>13 DEF Construct, Phases

\* A task that is over: its condition has returned, or its body is run.
MayGo(t) ==
  \/ t.block = "condition" /\ task[t] = "returned"
  \/ t.block # "condition" /\ task[t] = "registered"

\* What happens besides captures: a task goes, a handle lets go of its
\* holder, and the manager's handles do with the last task.
OnlyGoing ==
  /\ UNCHANGED <<program, details, implicit, use, trail, aborted>>
  /\ task' \in [Tasks -> {"unborn", "built", "registered", "running", "returned",
                          "discarded", "destroyed"}]
  /\ \A t \in Tasks : task'[t] # task[t] => MayGo(t) /\ task'[t] = "destroyed"
  /\ managed' \subseteq managed
  /\ \A t \in managed : \/ t \in managed' /\ task'[t] = task[t]
                        \/ t \notin managed' /\ MayGo(t)
  /\ holder' \in [Handles -> Handles \cup {NoHandle}]
  /\ \A h \in Handles : holder'[h] = holder[h] \/ holder'[h] = NoHandle
  /\ \A h \in Handles : h.place = "implicit" /\ holder'[h] # holder[h] => managed' = {}
  /\ \A h \in Handles : h.place = "condition" /\ holder'[h] # holder[h] =>
       \E n \in Rounds : h.round = n /\ task[TaskOf("condition", n)] = "returned"
  /\ \A h \in Handles : holder'[h] # NoHandle => IsKept(h)'
  /\ ~IsNew

\* The phase stays what it is when only tasks of the rounds before go.
LEMMA GoingKeepsPhase ==
  ASSUME Construct, OnlyGoing
  PROVE  Construct'
<1>1. /\ ImplicitVariables' = ImplicitVariables
      /\ \A b : VariablesOf(b)' = VariablesOf(b)
      /\ \A n, v : ConditionsHandle(n, v)' = ConditionsHandle(n, v)
      /\ \A h : Unrolled(h)' = Unrolled(h)
  BY NamesKept DEF OnlyGoing
<1>2. WithNextImplicit(details)' = WithNextImplicit(details)
  BY <1>1 DEF OnlyGoing, WithNextImplicit, NextImplicit, Implicit
<1>3. Typed'
  <2>1. managed' \subseteq {t \in Tasks : task'[t] \in {"built", "registered", "running"}}
    BY DEF OnlyGoing, Construct, Typed, TypeOK
  <2>. QED
    BY <2>1 DEF OnlyGoing, Construct, Typed, TypeOK, program
<1>4. TrailsAsDescribed' /\ CapturedInProgramOrder'
  BY <1>1 DEF OnlyGoing, Construct, TrailsAsDescribed, CapturedInProgramOrder
<1>5. HoldersKept'
  BY DEF OnlyGoing, HoldersKept
<1>6. Described' <=> Described
  BY <1>1 DEF OnlyGoing, Described, program
<1>7. /\ \A n : DescribesRound(details, n)' <=> DescribesRound(details, n)
      /\ \A n : DescribesRound(WithNextImplicit(details), n)' <=>
                  DescribesRound(WithNextImplicit(details), n)
  BY <1>1, <1>2 DEF OnlyGoing, DescribesRound, program
<1>8. ASSUME NEW n \in Rounds, CapturedUpTo(n), managed' # {},
             task[TaskOf("condition", n)] # "returned"
      PROVE  CapturedUpTo(n)'
  <2>1. ASSUME NEW v \in VariablesOf("condition")
        PROVE  holder'[ConditionsHandle(n, v)] = ConditionsHandle(n, v)
    <3>1. holder[ConditionsHandle(n, v)] = ConditionsHandle(n, v)
      BY <1>8 DEF CapturedUpTo
    <3>2. Typed
      BY DEF Construct
    <3>3. /\ ConditionsHandle(n, v) \in Handles
          /\ \/ /\ ConditionsHandle(n, v).place = "condition"
                /\ ConditionsHandle(n, v).round = n
             \/ ConditionsHandle(n, v).place = "implicit"
      BY <3>2, ConditionsHandleShape
    <3>. QED
      BY <1>8, <3>1, <3>3 DEF OnlyGoing
  <2>. QED
    BY <1>1, <1>8, <2>1 DEF CapturedUpTo, OnlyGoing, program
<1>9. \A b \in Blocks, n \in Rounds : TaskOf(b, n) \in Tasks /\ TaskOf(b, n).block = b
  BY TaskShape
<1>10. ASSUME NEW n \in Rounds
       PROVE  /\ \/ task'[TaskOf("condition", n)] = task[TaskOf("condition", n)]
                 \/ /\ task[TaskOf("condition", n)] = "returned"
                    /\ task'[TaskOf("condition", n)] = "destroyed"
              /\ \A b \in {"body", "otherwise"} :
                   \/ task'[TaskOf(b, n)] = task[TaskOf(b, n)]
                   \/ task[TaskOf(b, n)] = "registered" /\ task'[TaskOf(b, n)] = "destroyed"
  <2>1. \A t \in Tasks : task'[t] # task[t] => MayGo(t) /\ task'[t] = "destroyed"
    BY DEF OnlyGoing
  <2>2. \A b \in Blocks : TaskOf(b, n) \in Tasks /\ TaskOf(b, n).block = b
    BY <1>9
  <2>. QED
    BY <2>1, <2>2 DEF MayGo, Blocks
<1>11. \A n \in Rounds : (RoundsBefore(n) => RoundsBefore(n)') /\ (RoundsAfter(n) => RoundsAfter(n)')
  BY <1>10 DEF RoundsBefore, RoundsAfter
<1>12. \A b \in Blocks, n \in Rounds :
         TaskOf(b, n) \in managed /\ task[TaskOf(b, n)] \in {"built", "running"} =>
           TaskOf(b, n) \in managed'
  BY <1>9 DEF OnlyGoing, MayGo
<1>13. \A n \in Rounds : TaskOf("condition", n) \in managed
                           /\ task[TaskOf("condition", n)] # "returned" =>
           TaskOf("condition", n) \in managed'
  BY <1>9 DEF OnlyGoing, MayGo, Blocks
<1>14. ASSUME NEW n \in Rounds, Waiting(n) PROVE Waiting(n)'
  <2>1. {TaskOf("condition", n), TaskOf("body", n)} \subseteq managed'
    BY <1>12, <1>13, <1>14 DEF Waiting, Blocks
  <2>2. CapturedUpTo(n)'
    BY <1>8, <1>14, <2>1 DEF Waiting
  <2>3. RoundsBefore(n)' /\ RoundsAfter(n)'
    BY <1>11, <1>14 DEF Waiting
  <2>. QED
    BY <1>1, <1>6, <1>7, <1>10, <1>14, <2>1, <2>2, <2>3 DEF Waiting, OnlyGoing, program
<1>15. ASSUME NEW n \in Rounds, Running(n) PROVE Running(n)'
  <2>1. n + 1 \in Rounds
    BY <1>15, RoundsAreNumbers DEF Running
  <2>2. {TaskOf("condition", n + 1), TaskOf("body", n + 1)} \subseteq managed'
    BY <1>12, <1>15, <2>1 DEF Running, Blocks
  <2>3. CapturedUpTo(n)'
    BY <1>8, <1>15, <2>2 DEF Running
  <2>4. RoundsBefore(n)' /\ RoundsAfter(n + 1)'
    BY <1>11, <1>15, <2>1 DEF Running
  <2>5. /\ task'[TaskOf("condition", n)] = "running"
        /\ task'[TaskOf("body", n)] \in {"registered", "destroyed"}
        /\ task'[TaskOf("condition", n + 1)] = "built" /\ task'[TaskOf("body", n + 1)] = "built"
    BY <1>10, <1>15, <2>1 DEF Running
  <2>. QED
    BY <1>1, <1>2, <1>6, <1>7, <1>15, <2>2, <2>3, <2>4, <2>5 DEF Running, OnlyGoing, program
<1>16. ASSUME Undecided PROVE Undecided'
  <2>1. TaskOf("condition", 0) \in managed'
    BY <1>13, <1>16, RoundsAreNumbers DEF Undecided
  <2>2. CapturedUpTo(0)'
    BY <1>8, <1>16, <2>1, RoundsAreNumbers DEF Undecided
  <2>3. /\ task'[TaskOf("condition", 0)] = "registered"
        /\ task'[TaskOf("body", 0)] = "built" /\ task'[TaskOf("otherwise", 0)] = "built"
        /\ \A m \in Rounds, b \in Blocks : m > 0 => task'[TaskOf(b, m)] = "unborn"
    BY <1>10, <1>16, RoundsAreNumbers DEF Undecided, Blocks
  <2>. QED
    BY <1>1, <1>6, <1>7, <1>16, <2>1, <2>2, <2>3 DEF Undecided, OnlyGoing, program
<1>17. ASSUME Decided PROVE Decided'
  <2>1. ~IsNew'
    BY DEF OnlyGoing, IsNew
  <2>. QED
    BY <1>6, <1>10, <1>17, <2>1 DEF Decided
<1>18. ~NotBegun
  BY DEF OnlyGoing, NotBegun
<1>. QED
  BY <1>3, <1>4, <1>5, <1>14, <1>15, <1>16, <1>17, <1>18 DEF Construct, Phases

\* A condition that has returned is destroyed, a body is run, and the user's
\* handle is dropped: nothing else of the construct lets go.
LEMMA TasksGo ==
  ASSUME Construct,
         \/ \E n \in Rounds : DestroyCondition(n)
         \/ \E n \in Rounds, b \in {"body", "otherwise"} : RunBody(b, n)
         \/ \E v \in Variables : DropOuter(v)
  PROVE  Construct'
<1>1. /\ Typed /\ HoldersKept
      /\ holder \in [Handles -> Handles \cup {NoHandle}]
      /\ managed \subseteq {t \in Tasks : task[t] \in {"built", "registered", "running"}}
      /\ task \in [Tasks -> {"unborn", "built", "registered", "running", "returned",
                             "discarded", "destroyed"}]
  BY DEF Construct, Typed, TypeOK
<1>2. ASSUME NEW n \in Rounds, DestroyCondition(n) PROVE OnlyGoing
  <2> DEFINE t == TaskOf("condition", n)
  <2>1. /\ task[t] = "returned"
        /\ task' = [task EXCEPT ![t] = "destroyed"]
        /\ holder' = [h \in Handles |-> IF h \in ClosureOf(t) THEN NoHandle ELSE holder[h]]
        /\ UNCHANGED <<program, details, implicit, managed, use, trail, aborted>>
    BY <1>2 DEF DestroyCondition, Without
  <2>2. /\ t \in Tasks /\ t.block = "condition" /\ t.round = n
        /\ \A h : h \in ClosureOf(t) <=> h \in Handles /\ h.place = "condition" /\ h.round = n
    BY TaskShape DEF Blocks
  <2>3. t \notin managed
    BY <1>1, <2>1
  <2> HIDE DEF t
  <2>4. ASSUME NEW h \in Handles, holder'[h] # NoHandle PROVE IsKept(h)'
    <3>1. h \notin ClosureOf(t) /\ IsKept(h)
      BY <1>1, <2>1, <2>4 DEF HoldersKept
    <3>2. CASE \E s \in Tasks : h \in ClosureOf(s) /\ task[s] \in {"registered", "running", "returned"}
      BY <1>1, <2>1, <3>1, <3>2 DEF IsKept
    <3>. QED
      BY <2>1, <3>1, <3>2 DEF IsKept
  <2>5. ~IsNew
    BY <2>1, <2>2 DEF IsNew
  <2>6. \A h \in Handles : h.place = "condition" /\ holder'[h] # holder[h] =>
          \E m \in Rounds : h.round = m /\ task[TaskOf("condition", m)] = "returned"
    BY <2>1, <2>2 DEF t
  <2>. QED
    BY <1>1, <2>1, <2>2, <2>3, <2>4, <2>5, <2>6 DEF OnlyGoing, MayGo
<1>3. ASSUME NEW n \in Rounds, NEW b \in {"body", "otherwise"}, RunBody(b, n) PROVE OnlyGoing
  <2> DEFINE t == TaskOf(b, n)
  <2>1. /\ task[t] = "registered"
        /\ task' = [task EXCEPT ![t] = "destroyed"]
        /\ managed' = managed \ {t}
        /\ UNCHANGED <<program, details, implicit, use, trail, aborted>>
    BY <1>3 DEF RunBody
  <2>2. /\ t \in Tasks /\ t.block = b /\ t.round = n
        /\ \A h : h \in ClosureOf(t) <=> h \in Handles /\ h.place = b /\ h.round = n
    BY TaskShape DEF Blocks
  <2>3. /\ holder' \in [Handles -> Handles \cup {NoHandle}]
        /\ \A h \in Handles : holder'[h] =
             IF h \in ClosureOf(t) \/ (managed' = {} /\ h.place = "implicit")
             THEN NoHandle ELSE holder[h]
    <3>1. holder' = WithoutManager(Without(holder, ClosureOf(t)), managed \ {t})
      BY <1>3 DEF RunBody
    <3>2. CASE managed \ {t} = {}
      BY <1>1, <2>1, <3>1, <3>2 DEF WithoutManager, Without, ManagersHandles
    <3>3. CASE managed \ {t} # {}
      BY <1>1, <2>1, <3>1, <3>3 DEF WithoutManager, Without
    <3>. QED
      BY <3>2, <3>3
  <2> HIDE DEF t
  <2>4. ASSUME NEW h \in Handles, holder'[h] # NoHandle PROVE IsKept(h)'
    <3>1. h \notin ClosureOf(t) /\ IsKept(h) /\ ~(managed' = {} /\ h.place = "implicit")
      BY <1>1, <2>3, <2>4 DEF HoldersKept
    <3>2. CASE \E s \in Tasks : h \in ClosureOf(s) /\ task[s] \in {"registered", "running", "returned"}
      BY <1>1, <2>1, <3>1, <3>2 DEF IsKept
    <3>. QED
      BY <3>1, <3>2 DEF IsKept
  <2>5. ~IsNew
    BY <2>1, <2>2 DEF IsNew
  <2>. QED
    BY <1>1, <2>1, <2>2, <2>3, <2>4, <2>5 DEF OnlyGoing, MayGo
<1>4. ASSUME NEW v \in Variables, DropOuter(v) PROVE OnlyGoing
  <2>1. /\ ~IsNew
        /\ holder' = [h \in Handles |-> IF h \in {Outer(v)} THEN NoHandle ELSE holder[h]]
        /\ UNCHANGED <<program, details, implicit, managed, task, use, trail, aborted>>
    BY <1>4 DEF DropOuter, Without
  <2>2. Outer(v).place = "outer"
    BY DEF Outer, Handle
  <2>3. \A h \in Handles : holder'[h] # NoHandle => IsKept(h)'
    BY <1>1, <2>1 DEF HoldersKept, IsKept
  <2>. QED
    BY <1>1, <2>1, <2>2, <2>3 DEF OnlyGoing
<1>. QED
  BY <1>2, <1>3, <1>4, GoingKeepsPhase

(***************************************************************************)
(* Descriptions                                                            *)
(***************************************************************************)
\* A condition may schedule all that its bodies ask for.
LEMMA RequestsMerged ==
  ASSUME Typed, NEW v \in VariablesOf("condition")
  PROVE  /\ MergedRequest(v) \in PermissionPairs
         /\ \A b \in {"body", "otherwise"} : BodyRequest(b, v) \in PermissionPairs
         /\ \A b \in BodiesOf(v) :
              BodyRequest(b, v).scheduling \cup BodyRequest(b, v).immediate
                \subseteq MergedRequest(v).scheduling
<1>1. v \in Variables
  BY VariablesMentioned DEF Blocks
<1>2. SchedulingOf(v) \in Permissions
  <2>1. Outer(v) \in Handles
    BY <1>1, HandleShape, RoundsAreNumbers DEF Outer
  <2>. QED
    BY <2>1 DEF Typed, TypeOK, SchedulingOf, PermissionPairs
<1>3. \A b \in {"body", "otherwise"} : BodyRequest(b, v) \in PermissionPairs
  BY <1>1, <1>2, RequestTyped DEF Typed, TypeOK, BodyRequest, Blocks
<1>4. ConditionRequest(v) \in PermissionPairs
  <2>1. Read \in Permissions
    BY DEF Permissions, Read, Modify
  <2>. QED
    BY <1>1, <2>1, RequestTyped DEF Typed, TypeOK, ConditionRequest, Blocks
<1>5. ImplicitRequest(v) \in PermissionPairs
  <2>1. {"ScheduleOnly"} \in SUBSET FrontEndFlags
    BY DEF FrontEndFlags, CaptureFlags
  <2>. QED
    BY <1>2, <2>1, RequestTyped DEF ImplicitRequest
<1> DEFINE own  == IF v \in mentions["condition"] THEN ConditionRequest(v) ELSE ImplicitRequest(v)
           need == UNION {BodyRequest(b, v).scheduling \cup BodyRequest(b, v).immediate :
                            b \in BodiesOf(v)}
<1>6. own \in PermissionPairs
  BY <1>4, <1>5
<1>7. need \subseteq Modify
  BY <1>3 DEF BodiesOf, PermissionPairs, Permissions
<1>8. \A b \in BodiesOf(v) :
        BodyRequest(b, v).scheduling \cup BodyRequest(b, v).immediate \subseteq need
  OBVIOUS
<1>9. MergedRequest(v) = [own EXCEPT !.scheduling = own.scheduling \cup need \cup None]
  BY DEF MergedRequest, RequireAbilityToSchedule, Perms
<1> HIDE DEF own, need
<1>10. /\ MergedRequest(v) \in PermissionPairs
       /\ MergedRequest(v).scheduling = own.scheduling \cup need \cup None
  BY <1>6, <1>7, <1>9 DEF PermissionPairs, Permissions, None
<1>. QED
  BY <1>3, <1>8, <1>10

\* What a description says.
LEMMA DescriptionShape ==
  ASSUME NEW s \in Handles, NEW c \in Handles, NEW r \in PermissionPairs
  PROVE  /\ Description(s, c, r) \in Permitted
         /\ Description(s, c, r).source = s
         /\ Description(s, c, r).captured = c
         /\ Description(s, c, r).request = r
BY DEF Description, Permitted

\* What a redirected description says.
LEMMA RedirectedShape ==
  ASSUME NEW d \in Permitted, NEW s \in Handles, NEW c \in Handles
  PROVE  /\ [d EXCEPT !.source = s, !.captured = c] \in Permitted
         /\ [d EXCEPT !.source = s, !.captured = c].source = s
         /\ [d EXCEPT !.source = s, !.captured = c].captured = c
         /\ [d EXCEPT !.source = s, !.captured = c].request = d.request
         /\ [d EXCEPT !.source = s] \in Permitted
         /\ [d EXCEPT !.source = s].source = s
         /\ [d EXCEPT !.source = s].captured = d.captured
         /\ [d EXCEPT !.source = s].request = d.request
BY DEF Permitted

\* The first descriptions: a condition captures from the user's handles, a
\* body from the condition's.
LEMMA FirstDetailsShape ==
  ASSUME Typed
  PROVE  /\ \A b \in Blocks : DOMAIN FirstDetails[b] = VariablesOf(b)
         /\ \A b \in Blocks : \A v \in VariablesOf(b) : FirstDetails[b][v] \in Permitted
         /\ \A v \in VariablesOf("condition") :
              /\ FirstDetails["condition"][v].source = Outer(v)
              /\ FirstDetails["condition"][v].captured = ConditionHandle(v)
              /\ FirstDetails["condition"][v].request = MergedRequest(v)
         /\ \A b \in {"body", "otherwise"} : \A v \in mentions[b] :
              /\ FirstDetails[b][v].source = ConditionHandle(v)
              /\ FirstDetails[b][v].captured = Handle(b, 0, v)
              /\ FirstDetails[b][v].request = BodyRequest(b, v)
              /\ FirstDetails[b][v].request.scheduling \cup FirstDetails[b][v].request.immediate
                   \subseteq FirstDetails["condition"][v].request.scheduling
<1>1. /\ \A b \in Blocks : VariablesOf(b) \subseteq Variables
      /\ \A b \in {"body", "otherwise"} : /\ VariablesOf(b) = mentions[b]
                                          /\ mentions[b] \subseteq VariablesOf("condition")
  BY VariablesMentioned
<1>2. /\ "condition" \in Blocks /\ "body" \in Blocks /\ "otherwise" \in Blocks
      /\ \A b \in Blocks : b = "condition" \/ b \in {"body", "otherwise"}
  BY DEF Blocks
<1>3. /\ DOMAIN FirstDetails["condition"] = VariablesOf("condition")
      /\ \A v \in VariablesOf("condition") :
           FirstDetails["condition"][v] = Description(Outer(v), ConditionHandle(v), MergedRequest(v))
  <2>1. FirstDetails["condition"] =
          [v \in mentions["condition"] \cup ImplicitVariables |->
             Description(Outer(v), ConditionHandle(v), MergedRequest(v))]
    BY <1>2 DEF FirstDetails
  <2>2. VariablesOf("condition") = mentions["condition"] \cup ImplicitVariables
    BY DEF VariablesOf
  <2>. QED
    BY <2>1, <2>2
<1>4. ASSUME NEW b \in {"body", "otherwise"}
      PROVE  /\ DOMAIN FirstDetails[b] = VariablesOf(b)
             /\ \A v \in mentions[b] : FirstDetails[b][v] =
                  Description(ConditionHandle(v), Handle(b, 0, v), BodyRequest(b, v))
  <2>1. FirstDetails[b] =
          [v \in mentions[b] |-> Description(ConditionHandle(v), Handle(b, 0, v), BodyRequest(b, v))]
    BY <1>2 DEF FirstDetails
  <2>. QED
    BY <1>1, <2>1
<1>5. \A v \in Variables : /\ Outer(v) \in Handles
                           /\ ConditionHandle(v) \in Handles
                           /\ \A b \in Blocks : Handle(b, 0, v) \in Handles
  BY <1>2, HandleShape, RoundsAreNumbers DEF Outer, ConditionHandle
<1>6. ASSUME NEW v \in VariablesOf("condition")
      PROVE  /\ FirstDetails["condition"][v] \in Permitted
             /\ FirstDetails["condition"][v].source = Outer(v)
             /\ FirstDetails["condition"][v].captured = ConditionHandle(v)
             /\ FirstDetails["condition"][v].request = MergedRequest(v)
  <2>1. Outer(v) \in Handles /\ ConditionHandle(v) \in Handles
    BY <1>1, <1>2, <1>5
  <2>2. MergedRequest(v) \in PermissionPairs
    BY RequestsMerged
  <2>. QED
    BY <1>3, <2>1, <2>2, DescriptionShape
<1>7. ASSUME NEW b \in {"body", "otherwise"}, NEW v \in mentions[b]
      PROVE  /\ FirstDetails[b][v] \in Permitted
             /\ FirstDetails[b][v].source = ConditionHandle(v)
             /\ FirstDetails[b][v].captured = Handle(b, 0, v)
             /\ FirstDetails[b][v].request = BodyRequest(b, v)
             /\ FirstDetails[b][v].request.scheduling \cup FirstDetails[b][v].request.immediate
                  \subseteq FirstDetails["condition"][v].request.scheduling
  <2>1. v \in VariablesOf("condition") /\ v \in Variables
    BY <1>1, <1>2
  <2>2. BodyRequest(b, v) \in PermissionPairs
    BY <2>1, RequestsMerged
  <2>3. ConditionHandle(v) \in Handles /\ Handle(b, 0, v) \in Handles
    BY <1>2, <1>5, <2>1
  <2>4. /\ FirstDetails[b][v] \in Permitted
        /\ FirstDetails[b][v].source = ConditionHandle(v)
        /\ FirstDetails[b][v].captured = Handle(b, 0, v)
        /\ FirstDetails[b][v].request = BodyRequest(b, v)
    BY <1>4, <2>2, <2>3, DescriptionShape
  <2>5. FirstDetails["condition"][v].request = MergedRequest(v)
    BY <1>6, <2>1
  <2>6. b \in BodiesOf(v)
    BY DEF BodiesOf
  <2>. QED
    BY <2>1, <2>4, <2>5, <2>6, RequestsMerged
<1>. QED
  BY <1>1, <1>2, <1>3, <1>4, <1>6, <1>7

\* Descriptions for all the blocks of a construct.
DetailsFor(ds) ==
  /\ \A b \in Blocks : DOMAIN ds[b] = VariablesOf(b)
  /\ \A b \in Blocks : \A v \in VariablesOf(b) : ds[b][v] \in Permitted

\* What is redirected for implicit captures, and what is not.
LEMMA NextImplicitShape ==
  ASSUME Typed, NEW ds, DetailsFor(ds), \A v \in ImplicitVariables : implicit[v] <= MaxIterations
  PROVE  /\ DetailsFor(WithNextImplicit(ds))
         /\ \A b \in Blocks : \A v \in VariablesOf(b) :
              /\ WithNextImplicit(ds)[b][v].request = ds[b][v].request
              /\ v \notin ImplicitVariables => WithNextImplicit(ds)[b][v] = ds[b][v]
         /\ \A v \in ImplicitVariables :
              /\ WithNextImplicit(ds)["condition"][v].source = Implicit(v)
              /\ WithNextImplicit(ds)["condition"][v].captured = NextImplicit(v)
              /\ \A b \in {"body", "otherwise"} : v \in mentions[b] =>
                   /\ WithNextImplicit(ds)[b][v].source = NextImplicit(v)
                   /\ WithNextImplicit(ds)[b][v].captured = ds[b][v].captured
<1>1. /\ \A b \in Blocks : VariablesOf(b) \subseteq Variables
      /\ ImplicitVariables \subseteq VariablesOf("condition")
      /\ \A b \in {"body", "otherwise"} : VariablesOf(b) = mentions[b]
      /\ "condition" \in Blocks /\ "body" \in Blocks /\ "otherwise" \in Blocks
      /\ \A b \in Blocks : b = "condition" \/ b \in {"body", "otherwise"}
  BY VariablesMentioned DEF Blocks
<1>2. \A v \in ImplicitVariables : Implicit(v) \in Handles /\ NextImplicit(v) \in Handles
  <2> SUFFICES ASSUME NEW v \in ImplicitVariables
               PROVE  Implicit(v) \in Handles /\ NextImplicit(v) \in Handles
    OBVIOUS
  <2>1. v \in Variables
    BY <1>1
  <2>2. implicit[v] \in 0 .. (MaxIterations + 1) /\ implicit[v] + 1 \in 0 .. (MaxIterations + 1)
    BY <2>1, RoundsAreNumbers DEF Typed, TypeOK
  <2>. QED
    BY <2>1, <2>2, HandleShape DEF Implicit, NextImplicit
<1>3. /\ \A b \in Blocks : DOMAIN ds[b] = VariablesOf(b)
      /\ \A b \in Blocks : \A v \in VariablesOf(b) : ds[b][v] \in Permitted
  BY DEF DetailsFor
<1>4. \A b \in Blocks : DOMAIN WithNextImplicit(ds)[b] = VariablesOf(b)
  BY <1>3 DEF WithNextImplicit
<1>5. ASSUME NEW b \in Blocks, NEW v \in VariablesOf(b)
      PROVE  WithNextImplicit(ds)[b][v] =
               IF v \notin ImplicitVariables THEN ds[b][v]
               ELSE IF b = "condition"
                    THEN [ds[b][v] EXCEPT !.source = Implicit(v), !.captured = NextImplicit(v)]
                    ELSE [ds[b][v] EXCEPT !.source = NextImplicit(v)]
  BY <1>3 DEF WithNextImplicit
<1>6. ASSUME NEW b \in Blocks, NEW v \in VariablesOf(b)
      PROVE  /\ WithNextImplicit(ds)[b][v] \in Permitted
             /\ WithNextImplicit(ds)[b][v].request = ds[b][v].request
             /\ v \notin ImplicitVariables => WithNextImplicit(ds)[b][v] = ds[b][v]
             /\ v \in ImplicitVariables =>
                  IF b = "condition"
                  THEN /\ WithNextImplicit(ds)[b][v].source = Implicit(v)
                       /\ WithNextImplicit(ds)[b][v].captured = NextImplicit(v)
                  ELSE /\ WithNextImplicit(ds)[b][v].source = NextImplicit(v)
                       /\ WithNextImplicit(ds)[b][v].captured = ds[b][v].captured
  <2>1. ds[b][v] \in Permitted
    BY <1>3
  <2>2. CASE v \notin ImplicitVariables
    BY <1>5, <2>1, <2>2
  <2>3. CASE v \in ImplicitVariables
    <3>1. Implicit(v) \in Handles /\ NextImplicit(v) \in Handles
      BY <1>2, <2>3
    <3>2. CASE b = "condition"
      <4>1. WithNextImplicit(ds)[b][v] =
              [ds[b][v] EXCEPT !.source = Implicit(v), !.captured = NextImplicit(v)]
        BY <1>5, <2>3, <3>2
      <4> DEFINE d == [ds[b][v] EXCEPT !.source = Implicit(v), !.captured = NextImplicit(v)]
      <4>2. /\ d \in Permitted /\ d.request = ds[b][v].request
            /\ d.source = Implicit(v) /\ d.captured = NextImplicit(v)
        BY <2>1, <3>1 DEF Permitted
      <4> HIDE DEF d
      <4>3. WithNextImplicit(ds)[b][v] = d
        BY <4>1 DEF d
      <4>. QED
        BY <2>3, <3>2, <4>2, <4>3
    <3>3. CASE b # "condition"
      <4>1. WithNextImplicit(ds)[b][v] = [ds[b][v] EXCEPT !.source = NextImplicit(v)]
        BY <1>5, <2>3, <3>3
      <4> DEFINE d == [ds[b][v] EXCEPT !.source = NextImplicit(v)]
      <4>2. /\ d \in Permitted /\ d.request = ds[b][v].request
            /\ d.source = NextImplicit(v) /\ d.captured = ds[b][v].captured
        BY <2>1, <3>1, RedirectedShape
      <4> HIDE DEF d
      <4>3. WithNextImplicit(ds)[b][v] = d
        BY <4>1 DEF d
      <4>. QED
        BY <2>3, <3>3, <4>2, <4>3
    <3>. QED
      BY <3>2, <3>3
  <2>. QED
    BY <2>2, <2>3
<1>7. DetailsFor(WithNextImplicit(ds))
  BY <1>4, <1>6 DEF DetailsFor
<1>. QED
  BY <1>1, <1>6, <1>7

(***************************************************************************)
(* The phase a guard tells                                                 *)
(***************************************************************************)
\* A registered condition is the one of the present round.
LEMMA PhaseOfRegistered ==
  ASSUME Construct, NEW n \in Rounds, task[TaskOf("condition", n)] = "registered"
  PROVE  /\ construct = "while" => Waiting(n)
         /\ construct = "if" => Undecided
<1>0. \A m \in Rounds : m \in Nat
  BY RoundsAreNumbers
<1>1. ~NotBegun
  BY TaskShape DEF NotBegun, IsNew, Blocks
<1>2. ~Decided
  BY DEF Decided
<1>3. ASSUME NEW m \in Rounds, Waiting(m) PROVE m = n
  <2>1. CASE n < m
    BY <1>3, <2>1 DEF Waiting, RoundsBefore
  <2>2. CASE n > m
    BY <1>3, <2>2 DEF Waiting, RoundsAfter
  <2>. QED
    BY <1>0, <2>1, <2>2
<1>4. ASSUME NEW m \in Rounds, Running(m) PROVE FALSE
  <2>1. CASE n = m
    BY <1>4, <2>1 DEF Running
  <2>2. CASE n < m
    BY <1>4, <2>2 DEF Running, RoundsBefore
  <2>3. CASE n = m + 1
    BY <1>4, <2>3 DEF Running
  <2>4. CASE n > m + 1
    BY <1>4, <2>4 DEF Running, RoundsAfter
  <2>. QED
    BY <1>0, <2>1, <2>2, <2>3, <2>4
<1>. QED
  BY <1>1, <1>2, <1>3, <1>4 DEF Construct, Phases, Undecided, Waiting

\* So is a running one.
LEMMA PhaseOfRunning ==
  ASSUME Construct, NEW n \in Rounds, task[TaskOf("condition", n)] = "running",
         construct = "while"
  PROVE  Running(n)
<1>0. \A m \in Rounds : m \in Nat
  BY RoundsAreNumbers
<1>1. ~NotBegun
  BY TaskShape DEF NotBegun, IsNew, Blocks
<1>2. ~Decided
  BY DEF Decided
<1>3. ASSUME NEW m \in Rounds, Waiting(m) PROVE FALSE
  <2>1. CASE n < m
    BY <1>3, <2>1 DEF Waiting, RoundsBefore
  <2>2. CASE n = m
    BY <1>3, <2>2 DEF Waiting
  <2>3. CASE n > m
    BY <1>3, <2>3 DEF Waiting, RoundsAfter
  <2>. QED
    BY <1>0, <2>1, <2>2, <2>3
<1>4. ASSUME NEW m \in Rounds, Running(m) PROVE m = n
  <2>1. CASE n < m
    BY <1>4, <2>1 DEF Running, RoundsBefore
  <2>2. CASE n = m + 1
    BY <1>4, <2>2 DEF Running
  <2>3. CASE n > m + 1
    BY <1>4, <2>3 DEF Running, RoundsAfter
  <2>. QED
    BY <1>0, <2>1, <2>2, <2>3
<1>. QED
  BY <1>1, <1>2, <1>3, <1>4 DEF Construct, Phases, Undecided

\* Before its tasks are made a construct has not begun.
LEMMA PhaseOfNew ==
  ASSUME Construct, IsNew
  PROVE  NotBegun
<1>1. \A n \in Rounds : ~Waiting(n) /\ ~Running(n)
  BY TaskShape DEF IsNew, Waiting, Running, Blocks
<1>2. ~Undecided
  BY TaskShape, RoundsAreNumbers DEF IsNew, Undecided, Blocks
<1>. QED
  BY <1>1, <1>2 DEF Construct, Phases, Decided

(***************************************************************************)
(* What captures leave of the invariants                                   *)
(***************************************************************************)
\* The captures that are added ask for what the descriptions do.
LEMMA TrailsGrow ==
  ASSUME Typed, TrailsAsDescribed,
         NEW holders, NEW ds, NEW gone, NEW from,
         MadeFrom(holders, ds, from), CapturesMade(holders, ds, gone, from),
         \A b \in Blocks : \A v \in DOMAIN details[b] :
           v \in DOMAIN details'[b] /\ details'[b][v].request = details[b][v].request,
         \A v \in DOMAIN ds : LET b == BlockOf(ds[v].captured)
                              IN  /\ b \in Blocks /\ v \in DOMAIN details'[b]
                                  /\ details'[b][v].request = ds[v].request
  PROVE  TrailsAsDescribed'
<1> DEFINE Fits(c) == LET b == BlockOf(c.captured)
                          v == c.captured.variable
                      IN  /\ b \in Blocks
                          /\ v \in DOMAIN details'[b]
                          /\ c.request = details'[b][v].request
<1>1. ASSUME NEW h \in Handles, NEW i \in DOMAIN trail[h] PROVE Fits(trail[h][i])
  BY DEF TrailsAsDescribed
<1>2. ASSUME NEW v \in DOMAIN ds
      PROVE  Fits([captured |-> ds[v].captured, request |-> ds[v].request])
  BY DEF MadeFrom
<1>3. trail \in [Handles -> Seq(CaptureRecords)]
  BY DEF Typed
<1> HIDE DEF Fits
<1>4. ASSUME NEW h \in Handles, NEW i \in DOMAIN trail'[h] PROVE Fits(trail'[h][i])
  <2>1. CASE \E v \in DOMAIN ds : h = from[v]
    <3>1. PICK v \in DOMAIN ds : h = from[v]
      BY <2>1
    <3> DEFINE c == [captured |-> ds[v].captured, request |-> ds[v].request]
    <3>2. trail'[h] = Append(trail[h], c)
      BY <3>1 DEF CapturesMade
    <3>3. Fits(c) /\ c \in CaptureRecords
      BY <1>2 DEF MadeFrom, CaptureRecords
    <3> HIDE DEF c
    <3>4. trail[h] \in Seq(CaptureRecords)
      BY <1>3
    <3>5. /\ i \in 1 .. (Len(trail[h]) + 1)
          /\ i \in 1 .. Len(trail[h]) => trail'[h][i] = trail[h][i] /\ i \in DOMAIN trail[h]
          /\ i = Len(trail[h]) + 1 => trail'[h][i] = c
      BY <1>4, <3>2, <3>3, <3>4
    <3>. QED
      BY <1>1, <3>3, <3>4, <3>5
  <2>2. CASE \A v \in DOMAIN ds : h # from[v]
    BY <1>1, <1>4, <2>2 DEF CapturesMade
  <2>. QED
    BY <2>1, <2>2
<1>. QED
  BY <1>4 DEF TrailsAsDescribed, Fits, BlockOf

\* The names of the captures in a trail.
Names(s) == [i \in DOMAIN s |-> s[i].captured]

\* The trails that do not grow follow the program as before.
LEMMA OrderGrows ==
  ASSUME UNCHANGED program, CapturedInProgramOrder,
         NEW holders, NEW ds, NEW gone, NEW from,
         CapturesMade(holders, ds, gone, from),
         \A v \in DOMAIN ds : \E expected \in Unrolled(from[v]) :
           PrefixOf(Names(trail'[from[v]]), expected)
  PROVE  CapturedInProgramOrder'
<1>1. \A h : Unrolled(h)' = Unrolled(h)
  BY NamesKept
<1>2. ASSUME NEW h \in Handles, trail'[h] # << >>
      PROVE  \E expected \in Unrolled(h) : PrefixOf(Names(trail'[h]), expected)
  <2>1. CASE \E v \in DOMAIN ds : h = from[v]
    BY <2>1
  <2>2. CASE \A v \in DOMAIN ds : h # from[v]
    BY <1>2, <2>2 DEF CapturesMade, CapturedInProgramOrder, Names
  <2>. QED
    BY <2>1, <2>2
<1>. QED
  BY <1>1, <1>2 DEF CapturedInProgramOrder, Names

(***************************************************************************)
(* Loops end                                                               *)
(***************************************************************************)
\* When the condition does not hold, the manager goes with the last body.
LEMMA LoopEnds ==
  ASSUME Construct, NEW n \in Rounds, EndLoop(n)
  PROVE  Construct'
<1> DEFINE c == TaskOf("condition", n)
           b == TaskOf("body", n)
<1>1. /\ task[c] = "registered"
      /\ managed' = managed \ {c, b}
      /\ holder' = WithoutManager(holder, managed')
      /\ task' = [task EXCEPT ![c] = "returned", ![b] = "discarded"]
      /\ UNCHANGED <<program, details, implicit, use, trail, aborted>>
  BY DEF EndLoop
<1>2. Waiting(n)
  BY <1>1, PhaseOfRegistered DEF EndLoop
<1>3. /\ Typed /\ HoldersKept
      /\ holder \in [Handles -> Handles \cup {NoHandle}]
      /\ managed \subseteq {t \in Tasks : task[t] \in {"built", "registered", "running"}}
      /\ task \in [Tasks -> {"unborn", "built", "registered", "running", "returned",
                             "discarded", "destroyed"}]
  BY DEF Construct, Typed, TypeOK
<1>4. /\ \A d : VariablesOf(d)' = VariablesOf(d)
      /\ \A h : Unrolled(h)' = Unrolled(h)
  BY <1>1, NamesKept
<1>5. /\ c \in Tasks /\ b \in Tasks /\ c # b
      /\ \A m \in Rounds : TaskOf("condition", m) \in Tasks /\ TaskOf("condition", m) # b
                             /\ (TaskOf("condition", m) = c => m = n)
  BY TaskShape DEF Blocks
<1>6. /\ holder' \in [Handles -> Handles \cup {NoHandle}]
      /\ \A h \in Handles : holder'[h] =
           IF managed' = {} /\ h.place = "implicit" THEN NoHandle ELSE holder[h]
  <2>1. CASE managed' = {}
    BY <1>1, <1>3, <2>1 DEF WithoutManager, Without, ManagersHandles
  <2>2. CASE managed' # {}
    BY <1>1, <1>3, <2>2 DEF WithoutManager
  <2>. QED
    BY <2>1, <2>2
<1>7. task[b] = "built"
  BY <1>2 DEF Waiting
<1> HIDE DEF c, b
<1>8. Typed'
  <2>1. managed' \subseteq {t \in Tasks : task'[t] \in {"built", "registered", "running"}}
    BY <1>1, <1>3, <1>5
  <2>2. task' \in [Tasks -> {"unborn", "built", "registered", "running", "returned",
                             "discarded", "destroyed"}]
    BY <1>1, <1>3
  <2>. QED
    BY <1>1, <1>3, <1>6, <2>1, <2>2 DEF Typed, TypeOK, program
<1>9. HoldersKept'
  <2> SUFFICES ASSUME NEW h \in Handles, holder'[h] # NoHandle PROVE IsKept(h)'
    BY DEF HoldersKept
  <2>1. IsKept(h) /\ ~(managed' = {} /\ h.place = "implicit")
    BY <1>3, <1>6 DEF HoldersKept
  <2>2. CASE \E s \in Tasks : h \in ClosureOf(s) /\ task[s] \in {"registered", "running", "returned"}
    <3>1. PICK s \in Tasks : h \in ClosureOf(s) /\ task[s] \in {"registered", "running", "returned"}
      BY <2>2
    <3>2. task'[s] \in {"registered", "running", "returned"}
      BY <1>1, <1>3, <1>5, <1>7, <3>1
    <3>. QED
      BY <3>1, <3>2 DEF IsKept
  <2>. QED
    BY <2>1, <2>2 DEF IsKept
<1>10. TrailsAsDescribed' /\ CapturedInProgramOrder'
  BY <1>1, <1>4 DEF Construct, TrailsAsDescribed, CapturedInProgramOrder
<1>11. Decided'
  <2>1. Described'
    BY <1>1, <1>2, <1>4 DEF Waiting, Described, program
  <2>2. ~IsNew'
    BY <1>1, <1>3, <1>5 DEF IsNew
  <2>3. ASSUME NEW m \in Rounds
        PROVE  task'[TaskOf("condition", m)] \notin {"registered", "running"}
    <3>1. CASE m = n
      BY <1>1, <1>3, <1>5, <3>1 DEF c
    <3>2. CASE m # n
      <4>1. task'[TaskOf("condition", m)] = task[TaskOf("condition", m)]
        BY <1>1, <1>3, <1>5, <3>2
      <4>2. m \in Nat /\ n \in Nat
        BY RoundsAreNumbers
      <4>3. m < n \/ m > n
        BY <3>2, <4>2
      <4>. QED
        BY <1>2, <4>1, <4>3 DEF Waiting, RoundsBefore, RoundsAfter
    <3>. QED
      BY <3>1, <3>2
  <2>. QED
    BY <2>1, <2>2, <2>3 DEF Decided
<1>. QED
  BY <1>8, <1>9, <1>10, <1>11 DEF Construct, Phases

(***************************************************************************)
(* Constructs begin                                                        *)
(***************************************************************************)
\* A function on 1 .. n is a sequence of that length.
LEMMA SequenceLength ==
  ASSUME NEW f, NEW n \in Nat, DOMAIN f = 1..n, f = [i \in 1..n |-> f[i]]
  PROVE  Len(f) = n
OBVIOUS

\* The names in a trail, one for each capture.
LEMMA NamesOfTrail ==
  ASSUME NEW t \in Seq(CaptureRecords)
  PROVE  /\ DOMAIN Names(t) = 1 .. Len(t)
         /\ Len(Names(t)) = Len(t)
         /\ \A i \in 1 .. Len(t) : Names(t)[i] = t[i].captured
<1>1. Len(t) \in Nat /\ DOMAIN t = 1 .. Len(t)
  BY LenProperties
<1>2. Names(t) = [i \in 1 .. Len(t) |-> t[i].captured]
  BY <1>1 DEF Names
<1>3. /\ DOMAIN Names(t) = 1 .. Len(t)
      /\ \A i \in 1 .. Len(t) : Names(t)[i] = t[i].captured
      /\ Names(t) = [i \in 1 .. Len(t) |-> Names(t)[i]]
  BY <1>2
<1>. QED
  BY <1>1, <1>3, SequenceLength

\* The trail of a handle that nothing was captured from, after a capture.
LEMMA FirstCapture ==
  ASSUME NEW c \in CaptureRecords, NEW t, t = Append(<< >>, c)
  PROVE  /\ t \in Seq(CaptureRecords) /\ Len(t) = 1 /\ t[1] = c
         /\ DOMAIN Names(t) = 1..1 /\ Len(Names(t)) = 1 /\ Names(t)[1] = c.captured
<1>1. << >> \in Seq(CaptureRecords) /\ Len(<< >>) = 0
  BY EmptySeq
<1>2. t \in Seq(CaptureRecords) /\ Len(t) = 1 /\ t[1] = c
  BY <1>1, AppendProperties
<1>. QED
  BY <1>2, NamesOfTrail

\* The user's handles before a construct begins, and the manager's copies.
LEMMA FirstHolders ==
  ASSUME Typed, NotBegun, NEW v \in VariablesOf("condition")
  PROVE  /\ Outer(v) \in Handles /\ Outer(v).variable = v /\ Outer(v).place = "outer"
         /\ WithImplicitCopies[Outer(v)] = Outer(v)
         /\ trail[Outer(v)] = << >>
         /\ v \in ImplicitVariables => WithImplicitCopies[Handle("implicit", 0, v)] = Outer(v)
<1>1. v \in Variables /\ Outer(v) \in UsersHandles
  BY VariablesMentioned DEF Blocks
<1>2. /\ Outer(v) \in Handles /\ Outer(v).variable = v /\ Outer(v).place = "outer"
      /\ Handle("implicit", 0, v) \in Handles /\ Handle("implicit", 0, v).variable = v
      /\ Handle("implicit", 0, v).place = "implicit"
  BY <1>1, HandleShape, RoundsAreNumbers DEF Outer
<1>3. holder[Outer(v)] = Outer(v) /\ trail[Outer(v)] = << >>
  BY <1>1, <1>2 DEF NotBegun
<1>4. Implicit(v) = Handle("implicit", 0, v)
  BY <1>1 DEF Implicit, NotBegun
<1>. QED
  BY <1>2, <1>3, <1>4 DEF WithImplicitCopies

\* The holders are handles, or none.
LEMMA FirstHoldersTyped ==
  ASSUME Typed, NotBegun
  PROVE  \A h \in Handles : WithImplicitCopies[h] \in Handles \cup {NoHandle}
<1> SUFFICES ASSUME NEW h \in Handles
             PROVE  WithImplicitCopies[h] \in Handles \cup {NoHandle}
  OBVIOUS
<1>1. \/ WithImplicitCopies[h] = holder[h]
      \/ /\ h.variable \in ImplicitVariables
         /\ h = Implicit(h.variable)
  BY DEF WithImplicitCopies
<1>2. holder[h] \in Handles \cup {NoHandle}
  BY DEF Typed, TypeOK
<1>3. ASSUME h.variable \in ImplicitVariables, h = Implicit(h.variable)
      PROVE  WithImplicitCopies[h] \in Handles
  <2>1. h.variable \in VariablesOf("condition") /\ h.variable \in Variables
    BY <1>3, HandleIsNamed, VariablesMentioned
  <2>2. h = Handle("implicit", 0, h.variable)
    BY <1>3, <2>1 DEF NotBegun, Implicit
  <2>3. /\ WithImplicitCopies[Handle("implicit", 0, h.variable)] = Outer(h.variable)
        /\ Outer(h.variable) \in Handles
    BY <1>3, <2>1, FirstHolders
  <2>. QED
    BY <2>2, <2>3
<1>. QED
  BY <1>1, <1>2, <1>3

\* The handles that have a holder when a construct begins.
LEMMA FirstHeld ==
  ASSUME Typed, NotBegun, NEW h \in Handles, WithImplicitCopies[h] # NoHandle
  PROVE  \/ h.place = "outer"
         \/ h.variable \in ImplicitVariables /\ h = Implicit(h.variable)
<1>1. CASE h.variable \in ImplicitVariables /\ h = Implicit(h.variable)
  BY <1>1
<1>2. CASE ~(h.variable \in ImplicitVariables /\ h = Implicit(h.variable))
  <2>1. holder[h] # NoHandle
    BY <1>2 DEF WithImplicitCopies
  <2>2. h \in UsersHandles
    BY <2>1 DEF NotBegun
  <2>3. PICK v \in UNION {mentions[b] : b \in Blocks} : h = Outer(v)
    BY <2>2 DEF UsersHandles
  <2>. QED
    BY <2>3 DEF Outer, Handle
<1>. QED
  BY <1>1, <1>2

\* The condition is captured from the user's handles: what that leaves, for
\* loops and for conditionals.
LEMMA FirstCaptures ==
  ASSUME Construct, NotBegun, NEW ds, NEW gone,
         UNCHANGED program, UNCHANGED aborted,
         DetailsFor(ds), details' = ds,
         \A v \in VariablesOf("condition") :
           /\ ds["condition"][v].captured = ConditionsHandle(0, v)
           /\ WithImplicitCopies[ds["condition"][v].source] = Outer(v),
         CanExecute(WithImplicitCopies, ds["condition"]),
         Execute(WithImplicitCopies, ds["condition"], gone),
         implicit' \in [Variables -> 0 .. (MaxIterations + 1)],
         task' \in [Tasks -> {"unborn", "built", "registered", "running", "returned",
                              "discarded", "destroyed"}],
         task'[TaskOf("condition", 0)] = "registered",
         managed' \subseteq {t \in Tasks : task'[t] \in {"built", "registered", "running"}},
         TaskOf("condition", 0) \in managed'
  PROVE  /\ Typed' /\ TrailsAsDescribed' /\ HoldersKept' /\ CapturedInProgramOrder'
         /\ CapturedUpTo(0)'
         /\ \A v \in VariablesOf("condition") : trail'[ConditionsHandle(0, v)] = << >>
<1> DEFINE cs == ds["condition"]
           from == [v \in VariablesOf("condition") |-> Outer(v)]
<1>1. /\ Typed /\ TrailsAsDescribed /\ CapturedInProgramOrder
      /\ DOMAIN cs = VariablesOf("condition")
      /\ \A v \in VariablesOf("condition") :
           /\ cs[v] \in Permitted
           /\ cs[v].captured = ConditionsHandle(0, v)
           /\ WithImplicitCopies[cs[v].source] = Outer(v)
  BY DEF Construct, DetailsFor, Blocks
<1>2. VariablesOf("condition") \subseteq Variables
  BY <1>1, VariablesMentioned DEF Blocks
<1>3. \A v \in VariablesOf("condition") :
        /\ ConditionsHandle(0, v) \in Handles /\ ConditionsHandle(0, v).variable = v
        /\ ConditionsHandle(0, v).place \in {"condition", "implicit"}
  BY <1>1, ConditionsHandleShape, RoundsAreNumbers
<1>4. \A v \in VariablesOf("condition") :
        /\ Outer(v) \in Handles /\ Outer(v).variable = v /\ Outer(v).place = "outer"
        /\ trail[Outer(v)] = << >>
  BY <1>1, FirstHolders
<1>5. \A v \in VariablesOf("condition") : cs[v].request \in PermissionPairs
  BY <1>1 DEF Permitted
<1>6. MadeFrom(WithImplicitCopies, cs, from)
  <2> SUFFICES ASSUME NEW v \in VariablesOf("condition")
               PROVE  /\ cs[v].captured \in Handles /\ cs[v].captured.variable = v
                      /\ cs[v].request \in PermissionPairs
                      /\ Outer(v) \in Handles /\ Outer(v).variable = v
                      /\ Outer(v) # cs[v].captured
                      /\ WithImplicitCopies[cs[v].source] = Outer(v)
    BY <1>1, <1>2 DEF MadeFrom
  <2>. QED
    BY <1>1, <1>3, <1>4, <1>5
<1> HIDE DEF cs
<1>7. CapturesMade(WithImplicitCopies, cs, gone, from)
  <2>1. CanExecute(WithImplicitCopies, cs) /\ Execute(WithImplicitCopies, cs, gone)
    BY DEF cs
  <2> HIDE DEF from
  <2>. QED
    BY <1>1, <1>6, <2>1, Executed
<1>8. \A v \in VariablesOf("condition") :
        /\ holder'[ConditionsHandle(0, v)] = ConditionsHandle(0, v)
        /\ trail'[Outer(v)] = Append(<< >>, [captured |-> ConditionsHandle(0, v),
                                             request  |-> cs[v].request])
  BY <1>1, <1>4, <1>7 DEF CapturesMade
<1>9. /\ construct' = construct
      /\ \A b : VariablesOf(b)' = VariablesOf(b)
      /\ \A n, v : ConditionsHandle(n, v)' = ConditionsHandle(n, v)
  BY NamesKept
<1>10. Typed'
  <2>1. \A b \in Blocks : \A v \in DOMAIN ds[b] : ds[b][v] \in Permitted
    BY DEF DetailsFor
  <2>2. trail' \in [Handles -> Seq(CaptureRecords)] /\ use' \in [Handles -> PermissionPairs]
    BY <1>7 DEF CapturesMade
  <2>3. \A h \in Handles : \A i \in DOMAIN trail'[h] :
          trail'[h][i] \in [captured : Handles, request : PermissionPairs]
    <3> SUFFICES ASSUME NEW h \in Handles, NEW i \in DOMAIN trail'[h]
                 PROVE  trail'[h][i] \in CaptureRecords
      BY DEF CaptureRecords
    <3>1. trail'[h] \in Seq(CaptureRecords)
      BY <2>2
    <3>. QED
      BY <3>1, LenProperties, ElementOfSeq
  <2>4. holder' \in [Handles -> Handles \cup {NoHandle}]
    <3>1. \A h \in Handles : WithImplicitCopies[h] \in Handles \cup {NoHandle}
      BY <1>1, FirstHoldersTyped
    <3>2. holder' = [h \in Handles |-> holder'[h]]
      BY DEF Execute
    <3>3. ASSUME NEW h \in Handles PROVE holder'[h] \in Handles \cup {NoHandle}
      <4>1. CASE \E v \in VariablesOf("condition") : h = ConditionsHandle(0, v)
        BY <1>8, <4>1
      <4>2. CASE \A v \in VariablesOf("condition") : h # ConditionsHandle(0, v)
        <5>1. holder'[h] = IF h \in gone THEN NoHandle ELSE WithImplicitCopies[h]
          <6>1. \A g \in Handles : (\A v \in DOMAIN cs : g # cs[v].captured) =>
                  holder'[g] = IF g \in gone THEN NoHandle ELSE WithImplicitCopies[g]
            BY <1>7 DEF CapturesMade
          <6>2. \A v \in DOMAIN cs : h # cs[v].captured
            BY <1>1, <4>2
          <6>. QED
            BY <6>1, <6>2
        <5>. QED
          BY <3>1, <5>1
      <4>. QED
        BY <4>1, <4>2
    <3>. QED
      BY <3>2, <3>3
  <2>. QED
    BY <1>1, <2>1, <2>2, <2>3, <2>4 DEF Typed, TypeOK, program
<1>11. TrailsAsDescribed'
  <2>1. \A b \in Blocks : \A v \in DOMAIN details[b] :
          v \in DOMAIN details'[b] /\ details'[b][v].request = details[b][v].request
    BY DEF NotBegun, NoDetails
  <2>2. \A v \in DOMAIN cs : BlockOf(cs[v].captured) = "condition"
    BY <1>1, <1>3 DEF BlockOf
  <2>3. details'["condition"] = cs /\ "condition" \in Blocks
    BY DEF cs, Blocks
  <2> HIDE DEF from
  <2>. QED
    BY <1>1, <1>6, <1>7, <2>1, <2>2, <2>3, TrailsGrow
<1>12. CapturedInProgramOrder'
  <2>1. ASSUME NEW v \in VariablesOf("condition")
        PROVE  \E expected \in Unrolled(Outer(v)) : PrefixOf(Names(trail'[Outer(v)]), expected)
    <3>1. <<ConditionsHandle(0, v)>> \in Unrolled(Outer(v))
      BY <1>4 DEF Unrolled
    <3>2. [captured |-> ConditionsHandle(0, v), request |-> cs[v].request] \in CaptureRecords
      BY <1>3, <1>5 DEF CaptureRecords
    <3>3. /\ DOMAIN Names(trail'[Outer(v)]) = 1..1 /\ Len(Names(trail'[Outer(v)])) = 1
          /\ Names(trail'[Outer(v)])[1] = ConditionsHandle(0, v)
      <4> DEFINE c == [captured |-> ConditionsHandle(0, v), request |-> cs[v].request]
      <4>1. c \in CaptureRecords /\ trail'[Outer(v)] = Append(<< >>, c)
            /\ c.captured = ConditionsHandle(0, v)
        BY <1>8, <3>2
      <4> HIDE DEF c
      <4>. QED
        BY <4>1, FirstCapture
    <3>4. PrefixOf(Names(trail'[Outer(v)]), <<ConditionsHandle(0, v)>>)
      BY <3>3 DEF PrefixOf
    <3>. QED
      BY <3>1, <3>4
  <2>2. \A v \in DOMAIN cs : \E expected \in Unrolled(from[v]) :
          PrefixOf(Names(trail'[from[v]]), expected)
    BY <1>1, <2>1
  <2> HIDE DEF from
  <2>. QED
    BY <1>1, <1>7, <2>2, OrderGrows
<1>13. HoldersKept'
  <2> SUFFICES ASSUME NEW h \in Handles, holder'[h] # NoHandle, h.place # "outer" PROVE IsKept(h)'
    BY DEF HoldersKept, IsKept
  <2>1. h.place \in {"condition", "implicit"}
        /\ (h.place = "condition" => \E v \in VariablesOf("condition") : h = ConditionsHandle(0, v))
    <3>1. CASE \E v \in VariablesOf("condition") : h = ConditionsHandle(0, v)
      BY <1>3, <3>1
    <3>2. CASE \A v \in VariablesOf("condition") : h # ConditionsHandle(0, v)
      <4>1. WithImplicitCopies[h] # NoHandle
        BY <1>1, <1>7, <3>2 DEF CapturesMade
      <4>2. h = Implicit(h.variable)
        BY <1>1, <4>1, FirstHeld
      <4>3. h.place = "implicit"
        BY <4>2 DEF Implicit, Handle
      <4>. QED
        BY <4>3
    <3>. QED
      BY <3>1, <3>2
  <2>2. CASE h.place = "implicit"
    BY <2>2 DEF IsKept
  <2>3. CASE h.place = "condition"
    <3>1. PICK v \in VariablesOf("condition") : h = ConditionsHandle(0, v)
      BY <2>1, <2>3
    <3>2. h.round = 0
      BY <1>1, <2>3, <3>1, ConditionsHandleShape, RoundsAreNumbers
    <3>3. TaskOf("condition", 0) \in Tasks /\ h \in ClosureOf(TaskOf("condition", 0))
      BY <2>3, <3>2, TaskShape, RoundsAreNumbers DEF Blocks
    <3>. QED
      BY <3>3 DEF IsKept
  <2>. QED
    BY <2>1, <2>2, <2>3
<1>14. \A h \in Handles : h.place # "outer" => trail'[h] = << >>
  <2>1. \A h \in Handles : trail[h] = << >>
    BY DEF NotBegun
  <2>. QED
    BY <1>1, <1>4, <1>7, <2>1 DEF CapturesMade
<1>15. CapturedUpTo(0)'
  BY <1>8, <1>9, <1>14 DEF CapturedUpTo
<1>16. \A v \in VariablesOf("condition") : trail'[ConditionsHandle(0, v)] = << >>
  BY <1>3, <1>14
<1>. QED
  BY <1>10, <1>11, <1>12, <1>13, <1>15, <1>16

\* The states a task can be in.
TaskStates == {"unborn", "built", "registered", "running", "returned", "discarded", "destroyed"}

\* The first descriptions of a loop, with the copies its implicit captures
\* are made into.
LEMMA LoopDescribed ==
  ASSUME Typed, NotBegun, construct = "while"
  PROVE  /\ DetailsFor(WithNextImplicit(FirstDetails))
         /\ \A b \in Blocks : \A v \in VariablesOf(b) :
              WithNextImplicit(FirstDetails)[b][v].request = FirstDetails[b][v].request
         /\ \A v \in VariablesOf("condition") :
              /\ WithNextImplicit(FirstDetails)["condition"][v].captured = ConditionsHandle(0, v)
              /\ WithImplicitCopies[WithNextImplicit(FirstDetails)["condition"][v].source] = Outer(v)
         /\ \A b \in {"body", "otherwise"} : \A v \in mentions[b] :
              /\ WithNextImplicit(FirstDetails)[b][v].source = ConditionsHandle(0, v)
              /\ WithNextImplicit(FirstDetails)[b][v].captured = Handle(b, 0, v)
<1> DEFINE ds == WithNextImplicit(FirstDetails)
<1>1. /\ \A b \in Blocks : VariablesOf(b) \subseteq Variables
      /\ ImplicitVariables \subseteq VariablesOf("condition")
      /\ \A b \in {"body", "otherwise"} : /\ VariablesOf(b) = mentions[b]
                                          /\ mentions[b] \subseteq VariablesOf("condition")
      /\ \A v \in VariablesOf("condition") : v \in ImplicitVariables <=> v \notin mentions["condition"]
      /\ "condition" \in Blocks /\ "body" \in Blocks /\ "otherwise" \in Blocks
  BY VariablesMentioned DEF Blocks
<1>2. \A v \in ImplicitVariables : /\ v \in Variables /\ implicit[v] = 0
                                   /\ Implicit(v) = Handle("implicit", 0, v)
                                   /\ NextImplicit(v) = Handle("implicit", 1, v)
  BY <1>1 DEF NotBegun, Implicit, NextImplicit
<1>3. \A v \in VariablesOf("condition") :
        /\ v \in ImplicitVariables => ConditionsHandle(0, v) = Handle("implicit", 1, v)
        /\ v \notin ImplicitVariables => /\ ConditionsHandle(0, v) = Handle("condition", 0, v)
                                         /\ ConditionHandle(v) = Handle("condition", 0, v)
  BY <1>1 DEF ConditionsHandle, ConditionHandle
<1>4. DetailsFor(FirstDetails)
  BY FirstDetailsShape DEF DetailsFor
<1>5. \A v \in ImplicitVariables : implicit[v] <= MaxIterations
  BY <1>2, RoundsAreNumbers
<1>6. /\ DetailsFor(ds)
      /\ \A b \in Blocks : \A v \in VariablesOf(b) :
           /\ ds[b][v].request = FirstDetails[b][v].request
           /\ v \notin ImplicitVariables => ds[b][v] = FirstDetails[b][v]
      /\ \A v \in ImplicitVariables :
           /\ ds["condition"][v].source = Implicit(v)
           /\ ds["condition"][v].captured = NextImplicit(v)
           /\ \A b \in {"body", "otherwise"} : v \in mentions[b] =>
                /\ ds[b][v].source = NextImplicit(v)
                /\ ds[b][v].captured = FirstDetails[b][v].captured
  BY <1>4, <1>5, NextImplicitShape
<1> HIDE DEF ds
<1>7. /\ \A v \in VariablesOf("condition") :
           /\ FirstDetails["condition"][v].source = Outer(v)
           /\ FirstDetails["condition"][v].captured = ConditionHandle(v)
      /\ \A b \in {"body", "otherwise"} : \A v \in mentions[b] :
           /\ FirstDetails[b][v].source = ConditionHandle(v)
           /\ FirstDetails[b][v].captured = Handle(b, 0, v)
           /\ FirstDetails[b][v].request.scheduling \cup FirstDetails[b][v].request.immediate
                \subseteq FirstDetails["condition"][v].request.scheduling
  BY FirstDetailsShape
<1>8. ASSUME NEW v \in VariablesOf("condition")
      PROVE  /\ ds["condition"][v].captured = ConditionsHandle(0, v)
             /\ WithImplicitCopies[ds["condition"][v].source] = Outer(v)
  <2>1. /\ WithImplicitCopies[Outer(v)] = Outer(v)
        /\ v \in ImplicitVariables => WithImplicitCopies[Handle("implicit", 0, v)] = Outer(v)
    BY FirstHolders
  <2>2. CASE v \in ImplicitVariables
    BY <1>2, <1>3, <1>6, <2>1, <2>2
  <2>3. CASE v \notin ImplicitVariables
    BY <1>1, <1>3, <1>6, <1>7, <2>1, <2>3
  <2>. QED
    BY <2>2, <2>3
<1>9. ASSUME NEW b \in {"body", "otherwise"}, NEW v \in mentions[b]
      PROVE  /\ ds[b][v].source = ConditionsHandle(0, v)
             /\ ds[b][v].captured = Handle(b, 0, v)
  <2>1. b \in Blocks /\ v \in VariablesOf(b) /\ v \in VariablesOf("condition")
    BY <1>1
  <2>2. CASE v \in ImplicitVariables
    BY <1>2, <1>3, <1>6, <1>7, <2>1, <2>2
  <2>3. CASE v \notin ImplicitVariables
    BY <1>3, <1>6, <1>7, <2>1, <2>3
  <2>. QED
    BY <2>2, <2>3
<1>. QED
  BY <1>6, <1>8, <1>9 DEF ds

\* A loop begins with its first condition.
LEMMA LoopBegins ==
  ASSUME Construct, CreateWhile
  PROVE  Construct'
<1> DEFINE ds == WithNextImplicit(FirstDetails)
<1>1. /\ construct = "while" /\ IsNew
      /\ CanExecute(WithImplicitCopies, ds["condition"])
      /\ Execute(WithImplicitCopies, ds["condition"], ReplacedImplicit)
      /\ details' = ds
      /\ implicit' = [v \in Variables |->
                        IF v \in ImplicitVariables THEN implicit[v] + 1 ELSE implicit[v]]
      /\ task' = [task EXCEPT ![TaskOf("condition", 0)] = "registered",
                              ![TaskOf("body", 0)] = "built"]
      /\ managed' = {TaskOf("condition", 0), TaskOf("body", 0)}
      /\ UNCHANGED program /\ UNCHANGED aborted
  BY DEF CreateWhile, ExecuteWhileCaptures
<1>2. NotBegun /\ Typed
  BY <1>1, PhaseOfNew DEF Construct
<1>3. /\ \A b \in {"body", "otherwise"} : mentions[b] \subseteq VariablesOf("condition")
      /\ \A b \in {"body", "otherwise"} : VariablesOf(b) = mentions[b]
      /\ "condition" \in Blocks /\ "body" \in Blocks /\ "otherwise" \in Blocks
  BY <1>2, VariablesMentioned DEF Blocks
<1>4. \A v \in ImplicitVariables : v \in Variables /\ implicit[v] = 0
  <2>1. ImplicitVariables \subseteq VariablesOf("condition") /\ VariablesOf("condition") \subseteq Variables
    BY <1>2, VariablesMentioned DEF Blocks
  <2>. QED
    BY <1>2, <2>1 DEF NotBegun
<1>5. /\ DetailsFor(ds)
      /\ \A b \in Blocks : \A v \in VariablesOf(b) : ds[b][v].request = FirstDetails[b][v].request
      /\ \A v \in VariablesOf("condition") :
           /\ ds["condition"][v].captured = ConditionsHandle(0, v)
           /\ WithImplicitCopies[ds["condition"][v].source] = Outer(v)
      /\ \A b \in {"body", "otherwise"} : \A v \in mentions[b] :
           /\ ds[b][v].source = ConditionsHandle(0, v)
           /\ ds[b][v].captured = Handle(b, 0, v)
  BY <1>1, <1>2, LoopDescribed
<1> HIDE DEF ds
<1>6. \A b \in {"body", "otherwise"} : \A v \in mentions[b] :
        FirstDetails[b][v].request.scheduling \cup FirstDetails[b][v].request.immediate
          \subseteq FirstDetails["condition"][v].request.scheduling
  BY <1>2, FirstDetailsShape
<1>7. /\ task \in [Tasks -> TaskStates]
      /\ \A t \in Tasks : task[t] = "unborn"
      /\ TaskOf("condition", 0) \in Tasks /\ TaskOf("body", 0) \in Tasks
      /\ \A m \in Rounds, b \in Blocks :
           /\ TaskOf(b, m) \in Tasks
           /\ b = "otherwise" \/ m > 0 => TaskOf(b, m) \notin {TaskOf("condition", 0), TaskOf("body", 0)}
      /\ TaskOf("condition", 0) # TaskOf("body", 0)
  <2>1. \A m \in Rounds, b \in Blocks :
          /\ TaskOf(b, m) \in Tasks
          /\ \A c \in Blocks, n \in Rounds : TaskOf(c, n) = TaskOf(b, m) <=> c = b /\ n = m
    BY TaskShape
  <2>2. 0 \in Rounds
    BY RoundsAreNumbers
  <2>. QED
    BY <1>1, <1>2, <1>3, <2>1, <2>2 DEF IsNew, Typed, TypeOK, TaskStates
<1>8. /\ task' \in [Tasks -> TaskStates]
      /\ task'[TaskOf("condition", 0)] = "registered"
      /\ task'[TaskOf("body", 0)] = "built"
      /\ \A m \in Rounds, b \in Blocks :
           b = "otherwise" \/ m > 0 => task'[TaskOf(b, m)] = "unborn"
  BY <1>1, <1>7 DEF TaskStates
<1>9. managed' \subseteq {t \in Tasks : task'[t] \in {"built", "registered", "running"}}
  BY <1>1, <1>7, <1>8
<1>10. implicit' \in [Variables -> 0 .. (MaxIterations + 1)]
  <2>1. \A v \in Variables : implicit[v] = 0
    BY <1>2 DEF NotBegun
  <2>. QED
    BY <1>1, <2>1, RoundsAreNumbers
<1>11. /\ Typed' /\ TrailsAsDescribed' /\ HoldersKept' /\ CapturedInProgramOrder'
       /\ CapturedUpTo(0)'
       /\ \A v \in VariablesOf("condition") : trail'[ConditionsHandle(0, v)] = << >>
  <2>1. TaskOf("condition", 0) \in managed'
    BY <1>1
  <2>. QED
    BY <1>1, <1>2, <1>5, <1>8, <1>9, <1>10, <2>1, FirstCaptures DEF TaskStates
<1>12. /\ construct' = construct /\ mentions' = mentions
       /\ ImplicitVariables' = ImplicitVariables
       /\ \A b : VariablesOf(b)' = VariablesOf(b)
       /\ \A n, v : ConditionsHandle(n, v)' = ConditionsHandle(n, v)
  BY <1>1, NamesKept
<1>13. Described'
  <2>1. \A b \in Blocks : DOMAIN ds[b] = VariablesOf(b)
    BY <1>5 DEF DetailsFor
  <2>2. \A b \in {"body", "otherwise"} : \A v \in mentions[b] :
          /\ ds[b][v].request = FirstDetails[b][v].request
          /\ ds["condition"][v].request = FirstDetails["condition"][v].request
    BY <1>3, <1>5
  <2>. QED
    BY <1>1, <1>6, <1>12, <2>1, <2>2 DEF Described
<1>14. DescribesRound(details, 0)'
  BY <1>1, <1>5, <1>12 DEF DescribesRound
<1>15. RoundsBefore(0)' /\ RoundsAfter(0)'
  <2>1. \A m \in Rounds : ~(m < 0)
    BY RoundsAreNumbers
  <2>. QED
    BY <1>3, <1>8, <2>1 DEF RoundsBefore, RoundsAfter
<1>16. \A v \in ImplicitVariables : implicit'[v] = 0 + 1
  BY <1>1, <1>4
<1>17. Waiting(0)'
  BY <1>1, <1>8, <1>11, <1>12, <1>13, <1>14, <1>15, <1>16 DEF Waiting
<1>. QED
  BY <1>11, <1>17, RoundsAreNumbers DEF Construct, Phases

\* A conditional begins with its condition.
LEMMA ConditionalBegins ==
  ASSUME Construct, CreateIf
  PROVE  Construct'
<1>1. /\ construct = "if" /\ IsNew
      /\ CanExecute(WithImplicitCopies, FirstDetails["condition"])
      /\ Execute(WithImplicitCopies, FirstDetails["condition"], {})
      /\ details' = FirstDetails
      /\ task' = [task EXCEPT ![TaskOf("condition", 0)] = "registered",
                              ![TaskOf("body", 0)] = "built",
                              ![TaskOf("otherwise", 0)] = "built"]
      /\ managed' = {TaskOf("condition", 0)}
      /\ UNCHANGED program /\ UNCHANGED implicit /\ UNCHANGED aborted
  BY DEF CreateIf
<1>2. NotBegun /\ Typed
  BY <1>1, PhaseOfNew DEF Construct
<1>3. /\ \A v \in VariablesOf("condition") : v \in ImplicitVariables <=> v \notin mentions["condition"]
      /\ "condition" \in Blocks /\ "body" \in Blocks /\ "otherwise" \in Blocks
      /\ \A b \in {"body", "otherwise"} : mentions[b] \subseteq VariablesOf("condition")
  BY <1>2, VariablesMentioned DEF Blocks
<1>4. \A v \in VariablesOf("condition") : ConditionsHandle(0, v) = ConditionHandle(v)
  BY <1>1 DEF ConditionsHandle, ConditionHandle
<1>5. /\ DetailsFor(FirstDetails)
      /\ \A v \in VariablesOf("condition") :
           /\ FirstDetails["condition"][v].source = Outer(v)
           /\ FirstDetails["condition"][v].captured = ConditionHandle(v)
      /\ \A b \in {"body", "otherwise"} : \A v \in mentions[b] :
           /\ FirstDetails[b][v].source = ConditionHandle(v)
           /\ FirstDetails[b][v].captured = Handle(b, 0, v)
           /\ FirstDetails[b][v].request.scheduling \cup FirstDetails[b][v].request.immediate
                \subseteq FirstDetails["condition"][v].request.scheduling
  BY <1>2, FirstDetailsShape DEF DetailsFor
<1>6. ASSUME NEW v \in VariablesOf("condition")
      PROVE  /\ FirstDetails["condition"][v].captured = ConditionsHandle(0, v)
             /\ WithImplicitCopies[FirstDetails["condition"][v].source] = Outer(v)
  BY <1>2, <1>4, <1>5, FirstHolders
<1>7. /\ task \in [Tasks -> TaskStates]
      /\ \A t \in Tasks : task[t] = "unborn"
      /\ \A m \in Rounds, b \in Blocks :
           /\ TaskOf(b, m) \in Tasks
           /\ m > 0 => \A c \in Blocks : TaskOf(b, m) # TaskOf(c, 0)
      /\ \A b, c \in Blocks : TaskOf(b, 0) \in Tasks /\ (TaskOf(b, 0) = TaskOf(c, 0) => b = c)
  <2>1. \A m \in Rounds, b \in Blocks :
          /\ TaskOf(b, m) \in Tasks
          /\ \A c \in Blocks, n \in Rounds : TaskOf(c, n) = TaskOf(b, m) <=> c = b /\ n = m
    BY TaskShape
  <2>2. 0 \in Rounds
    BY RoundsAreNumbers
  <2>. QED
    BY <1>1, <1>2, <2>1, <2>2 DEF IsNew, Typed, TypeOK, TaskStates
<1>8. /\ task' \in [Tasks -> TaskStates]
      /\ task'[TaskOf("condition", 0)] = "registered"
      /\ task'[TaskOf("body", 0)] = "built" /\ task'[TaskOf("otherwise", 0)] = "built"
      /\ \A m \in Rounds, b \in Blocks : m > 0 => task'[TaskOf(b, m)] = "unborn"
  BY <1>1, <1>3, <1>7 DEF TaskStates
<1>9. /\ managed' \subseteq {t \in Tasks : task'[t] \in {"built", "registered", "running"}}
      /\ TaskOf("condition", 0) \in managed'
  BY <1>1, <1>3, <1>7, <1>8
<1>10. implicit' \in [Variables -> 0 .. (MaxIterations + 1)]
  BY <1>1, <1>2 DEF Typed, TypeOK
<1>11. /\ Typed' /\ TrailsAsDescribed' /\ HoldersKept' /\ CapturedInProgramOrder'
       /\ CapturedUpTo(0)'
       /\ \A v \in VariablesOf("condition") : trail'[ConditionsHandle(0, v)] = << >>
  BY <1>1, <1>2, <1>5, <1>6, <1>8, <1>9, <1>10, FirstCaptures DEF TaskStates
<1>12. /\ construct' = construct /\ mentions' = mentions
       /\ \A b : VariablesOf(b)' = VariablesOf(b)
       /\ \A n, v : ConditionsHandle(n, v)' = ConditionsHandle(n, v)
  BY <1>1, NamesKept
<1>13. Described'
  <2>1. \A b \in Blocks : DOMAIN FirstDetails[b] = VariablesOf(b)
    BY <1>5 DEF DetailsFor
  <2>. QED
    BY <1>1, <1>5, <1>12, <2>1 DEF Described
<1>14. DescribesRound(details, 0)'
  BY <1>1, <1>3, <1>4, <1>5, <1>12 DEF DescribesRound
<1>15. Undecided'
  BY <1>1, <1>8, <1>9, <1>11, <1>12, <1>13, <1>14 DEF Undecided
<1>. QED
  BY <1>11, <1>15 DEF Construct, Phases

(***************************************************************************)
(* Constructs go on                                                        *)
(***************************************************************************)
\* Captures made from handles that have a holder of their own: what they
\* leave in any phase.
LEMMA LaterCaptures ==
  ASSUME Typed, TrailsAsDescribed, HoldersKept, CapturedInProgramOrder,
         UNCHANGED program, UNCHANGED aborted,
         NEW ds, NEW gone, NEW from,
         Execute(holder, ds, gone),
         MadeFrom(holder, ds, from), CapturesMade(holder, ds, gone, from),
         DetailsFor(details'),
         \A b \in Blocks : \A v \in DOMAIN details[b] :
           v \in DOMAIN details'[b] /\ details'[b][v].request = details[b][v].request,
         \A v \in DOMAIN ds : LET b == BlockOf(ds[v].captured)
                              IN  /\ b \in Blocks /\ v \in DOMAIN details'[b]
                                  /\ details'[b][v].request = ds[v].request,
         \A v \in DOMAIN ds : \E expected \in Unrolled(from[v]) :
           PrefixOf(Names(trail'[from[v]]), expected),
         implicit' \in [Variables -> 0 .. (MaxIterations + 1)],
         task' \in [Tasks -> TaskStates],
         managed' \subseteq {t \in Tasks : task'[t] \in {"built", "registered", "running"}},
         \A h \in Handles : (\E v \in DOMAIN ds : h = ds[v].captured) => IsKept(h)',
         \A h \in Handles : IsKept(h) /\ h \notin gone => IsKept(h)'
  PROVE  Typed' /\ TrailsAsDescribed' /\ HoldersKept' /\ CapturedInProgramOrder'
<1>1. /\ trail' \in [Handles -> Seq(CaptureRecords)] /\ use' \in [Handles -> PermissionPairs]
      /\ \A v \in DOMAIN ds : holder'[ds[v].captured] = ds[v].captured
      /\ \A h \in Handles : (\A v \in DOMAIN ds : h # ds[v].captured) =>
           holder'[h] = IF h \in gone THEN NoHandle ELSE holder[h]
  BY DEF CapturesMade
<1>2. holder' \in [Handles -> Handles \cup {NoHandle}]
  <2>1. holder' = [h \in Handles |-> holder'[h]]
    BY DEF Execute
  <2>2. holder \in [Handles -> Handles \cup {NoHandle}]
    BY DEF Typed, TypeOK
  <2>3. ASSUME NEW h \in Handles PROVE holder'[h] \in Handles \cup {NoHandle}
    BY <1>1, <2>2
  <2>. QED
    BY <2>1, <2>3
<1>3. \A h \in Handles : \A i \in DOMAIN trail'[h] :
        trail'[h][i] \in [captured : Handles, request : PermissionPairs]
  <2> SUFFICES ASSUME NEW h \in Handles, NEW i \in DOMAIN trail'[h]
               PROVE  trail'[h][i] \in CaptureRecords
    BY DEF CaptureRecords
  <2>1. trail'[h] \in Seq(CaptureRecords)
    BY <1>1
  <2>. QED
    BY <2>1, LenProperties, ElementOfSeq
<1>4. \A b \in Blocks : \A v \in DOMAIN details'[b] : details'[b][v] \in Permitted
  BY DEF DetailsFor
<1>5. Typed'
  BY <1>1, <1>2, <1>3, <1>4 DEF Typed, TypeOK, program, TaskStates
<1>6. TrailsAsDescribed'
  BY TrailsGrow
<1>7. CapturedInProgramOrder'
  BY OrderGrows
<1>8. HoldersKept'
  <2> SUFFICES ASSUME NEW h \in Handles, holder'[h] # NoHandle PROVE IsKept(h)'
    BY DEF HoldersKept
  <2>1. CASE \E v \in DOMAIN ds : h = ds[v].captured
    BY <2>1
  <2>2. CASE \A v \in DOMAIN ds : h # ds[v].captured
    <3>1. h \notin gone /\ holder[h] # NoHandle
      BY <1>1, <2>2
    <3>. QED
      BY <3>1 DEF HoldersKept
  <2>. QED
    BY <2>1, <2>2
<1>. QED
  BY <1>5, <1>6, <1>7, <1>8

\* The descriptions of the next round: what is redirected.
LEMMA RecapturedShape ==
  ASSUME Typed, NEW ds, DetailsFor(ds), NEW m \in 0 .. (MaxIterations + 1)
  PROVE  /\ DetailsFor(Recaptured(ds, m))
         /\ \A b \in Blocks : \A v \in VariablesOf(b) :
              Recaptured(ds, m)[b][v].request = ds[b][v].request
         /\ \A v \in VariablesOf("condition") \ ImplicitVariables :
              /\ Recaptured(ds, m)["condition"][v].source =
                   (IF v \in mentions["body"] THEN ds["body"][v].source
                                              ELSE ds["condition"][v].captured)
              /\ Recaptured(ds, m)["condition"][v].captured = Handle("condition", m, v)
         /\ \A b \in {"body", "otherwise"} : \A v \in mentions[b] :
              /\ v \notin ImplicitVariables =>
                   Recaptured(ds, m)[b][v].source = Handle("condition", m, v)
              /\ Recaptured(ds, m)[b][v].captured = Handle(b, m, v)
<1>1. /\ \A b \in Blocks : VariablesOf(b) \subseteq Variables
      /\ \A b \in {"body", "otherwise"} : /\ VariablesOf(b) = mentions[b]
                                          /\ mentions[b] \subseteq VariablesOf("condition")
      /\ "condition" \in Blocks /\ "body" \in Blocks /\ "otherwise" \in Blocks
      /\ \A b \in Blocks : b = "condition" \/ b \in {"body", "otherwise"}
  BY VariablesMentioned DEF Blocks
<1>2. /\ \A b \in Blocks : DOMAIN ds[b] = VariablesOf(b)
      /\ \A b \in Blocks : \A v \in VariablesOf(b) : ds[b][v] \in Permitted
  BY DEF DetailsFor
<1>3. \A v \in Variables, b \in Blocks : Handle(b, m, v) \in Handles
  BY HandleShape
<1>4. \A b \in Blocks : DOMAIN Recaptured(ds, m)[b] = VariablesOf(b)
  BY <1>2 DEF Recaptured
<1>5. ASSUME NEW v \in VariablesOf("condition")
      PROVE  /\ Recaptured(ds, m)["condition"][v] \in Permitted
             /\ Recaptured(ds, m)["condition"][v].request = ds["condition"][v].request
             /\ v \notin ImplicitVariables =>
                  /\ Recaptured(ds, m)["condition"][v].source =
                       (IF v \in mentions["body"] THEN ds["body"][v].source
                                                  ELSE ds["condition"][v].captured)
                  /\ Recaptured(ds, m)["condition"][v].captured = Handle("condition", m, v)
  <2>1. ds["condition"][v] \in Permitted
    BY <1>1, <1>2
  <2>2. CASE v \in ImplicitVariables
    BY <1>1, <1>2, <2>1, <2>2 DEF Recaptured
  <2>3. CASE v \notin ImplicitVariables
    <3> DEFINE s == IF v \in mentions["body"] THEN ds["body"][v].source
                                              ELSE ds["condition"][v].captured
               d == [ds["condition"][v] EXCEPT !.source = s, !.captured = Handle("condition", m, v)]
    <3>1. s \in Handles /\ Handle("condition", m, v) \in Handles
      BY <1>1, <1>2, <1>3, <2>1 DEF Permitted
    <3>2. Recaptured(ds, m)["condition"][v] = d
      <4> DEFINE redirected(w) == [ds["condition"][w] EXCEPT
                         !.source = IF w \in DOMAIN ds["body"] THEN ds["body"][w].source
                                                               ELSE ds["condition"][w].captured,
                         !.captured = Handle("condition", m, w)]
      <4>1. Recaptured(ds, m)["condition"] =
              [w \in DOMAIN ds["condition"] |->
                 IF w \in ImplicitVariables THEN ds["condition"][w] ELSE redirected(w)]
        BY <1>1 DEF Recaptured
      <4>2. v \in DOMAIN ds["condition"] /\ DOMAIN ds["body"] = mentions["body"]
        BY <1>1, <1>2
      <4>3. redirected(v) = d
        BY <4>2
      <4> HIDE DEF redirected, d, s
      <4>. QED
        BY <2>3, <4>1, <4>2, <4>3
    <3> HIDE DEF s
    <3>3. /\ d \in Permitted /\ d.request = ds["condition"][v].request
          /\ d.source = s /\ d.captured = Handle("condition", m, v)
      BY <2>1, <3>1 DEF Permitted
    <3>4. s = IF v \in mentions["body"] THEN ds["body"][v].source
                                        ELSE ds["condition"][v].captured
      BY DEF s
    <3> HIDE DEF d
    <3>. QED
      BY <3>2, <3>3, <3>4
  <2>. QED
    BY <2>2, <2>3
<1>6. ASSUME NEW b \in {"body", "otherwise"}, NEW v \in mentions[b]
      PROVE  /\ Recaptured(ds, m)[b][v] \in Permitted
             /\ Recaptured(ds, m)[b][v].request = ds[b][v].request
             /\ v \notin ImplicitVariables =>
                  Recaptured(ds, m)[b][v].source = Handle("condition", m, v)
             /\ Recaptured(ds, m)[b][v].captured = Handle(b, m, v)
  <2> DEFINE s == IF v \in ImplicitVariables THEN ds["condition"][v].captured
                                             ELSE Handle("condition", m, v)
             d == [ds[b][v] EXCEPT !.source = s, !.captured = Handle(b, m, v)]
  <2>1. v \in Variables /\ ds[b][v] \in Permitted /\ ds["condition"][v] \in Permitted
    BY <1>1, <1>2
  <2>2. s \in Handles /\ Handle(b, m, v) \in Handles
    BY <1>1, <1>3, <2>1 DEF Permitted
  <2>3. Recaptured(ds, m)[b][v] = d
    <3> DEFINE redirected(w) == [ds[b][w] EXCEPT
                  !.source = IF w \in ImplicitVariables THEN ds["condition"][w].captured
                                                        ELSE Handle("condition", m, w),
                  !.captured = Handle(b, m, w)]
    <3>1. Recaptured(ds, m)[b] = [w \in DOMAIN ds[b] |-> redirected(w)]
      BY <1>1 DEF Recaptured
    <3>2. v \in DOMAIN ds[b]
      BY <1>1, <1>2
    <3>3. redirected(v) = d
      OBVIOUS
    <3> HIDE DEF redirected, d, s
    <3>. QED
      BY <3>1, <3>2, <3>3
  <2>4. v \notin ImplicitVariables => s = Handle("condition", m, v)
    OBVIOUS
  <2> HIDE DEF s
  <2>5. /\ d \in Permitted /\ d.request = ds[b][v].request
        /\ d.source = s /\ d.captured = Handle(b, m, v)
    BY <2>1, <2>2 DEF Permitted
  <2> HIDE DEF d
  <2>. QED
    BY <2>3, <2>4, <2>5
<1>7. \A b \in Blocks : \A v \in VariablesOf(b) :
        /\ Recaptured(ds, m)[b][v] \in Permitted
        /\ Recaptured(ds, m)[b][v].request = ds[b][v].request
  BY <1>1, <1>5, <1>6
<1>. QED
  BY <1>4, <1>5, <1>6, <1>7 DEF DetailsFor

\* What a loop captures from the handles of one round.
LEMMA LoopUnrolled ==
  ASSUME Typed, construct = "while", NEW n \in Rounds, NEW v \in VariablesOf("condition")
  PROVE  \E expected \in Unrolled(ConditionsHandle(n, v)) :
           IF v \in mentions["body"]
           THEN /\ Len(expected) = 2
                /\ expected[1] = Handle("body", n, v)
                /\ expected[2] = ConditionsHandle(n + 1, v)
           ELSE Len(expected) = 1 /\ expected[1] = ConditionsHandle(n + 1, v)
<1> DEFINE h == ConditionsHandle(n, v)
           expected == (IF v \in mentions["body"] THEN <<Handle("body", n, v)>> ELSE << >>)
                         \o <<ConditionsHandle(n + 1, v)>>
<1>0. n \in Nat
  BY RoundsAreNumbers
<1>1. /\ h.variable = v
      /\ \/ h.place = "condition" /\ h.round = n
         \/ h.place = "implicit" /\ h.round = n + 1
  BY ConditionsHandleShape
<1> HIDE DEF h
<1>2. /\ h.place # "outer" /\ h.place \notin {"body", "otherwise"}
      /\ (IF h.place = "implicit" THEN h.round - 1 ELSE h.round) = n
  BY <1>0, <1>1
<1>3. expected \in Unrolled(h)
  BY <1>1, <1>2 DEF Unrolled
<1>4. IF v \in mentions["body"]
      THEN /\ Len(expected) = 2
           /\ expected[1] = Handle("body", n, v)
           /\ expected[2] = ConditionsHandle(n + 1, v)
      ELSE Len(expected) = 1 /\ expected[1] = ConditionsHandle(n + 1, v)
  <2> DEFINE b == Handle("body", n, v)
             c == ConditionsHandle(n + 1, v)
  <2> HIDE DEF b, c
  <2>1. Len(<<b>> \o <<c>>) = 2 /\ (<<b>> \o <<c>>)[1] = b /\ (<<b>> \o <<c>>)[2] = c
    OBVIOUS
  <2>2. Len(<< >> \o <<c>>) = 1 /\ (<< >> \o <<c>>)[1] = c
    OBVIOUS
  <2>. QED
    BY <2>1, <2>2 DEF b, c
<1>. QED
  BY <1>3, <1>4 DEF h

\* The condition of a loop holds: its body is captured and registered, and
\* the closures are copied for the next round.
LEMMA IterationBegins ==
  ASSUME Construct, NEW n \in Rounds, BeginIteration(n)
  PROVE  Construct'
<1> DEFINE ds == details["body"]
           from == [v \in mentions["body"] |-> ConditionsHandle(n, v)]
           next == Recaptured(details, n + 1)
<1>1. /\ construct = "while" /\ task[TaskOf("condition", n)] = "registered"
      /\ n < MaxIterations
      /\ CanExecute(holder, ds) /\ Execute(holder, ds, {})
      /\ details' = next
      /\ task' = [task EXCEPT ![TaskOf("condition", n)] = "running",
                              ![TaskOf("body", n)] = "registered",
                              ![TaskOf("condition", n + 1)] = "built",
                              ![TaskOf("body", n + 1)] = "built"]
      /\ managed' = managed \cup {TaskOf("condition", n + 1), TaskOf("body", n + 1)}
      /\ UNCHANGED program /\ UNCHANGED aborted /\ UNCHANGED implicit
  BY DEF BeginIteration
<1>2. /\ Waiting(n) /\ Typed /\ TrailsAsDescribed /\ HoldersKept /\ CapturedInProgramOrder
  BY <1>1, PhaseOfRegistered DEF Construct
<1>3. /\ \A b \in Blocks : VariablesOf(b) \subseteq Variables
      /\ ImplicitVariables \subseteq VariablesOf("condition")
      /\ \A b \in {"body", "otherwise"} : /\ VariablesOf(b) = mentions[b]
                                          /\ mentions[b] \subseteq VariablesOf("condition")
      /\ \A v \in VariablesOf("condition") : v \in ImplicitVariables <=> v \notin mentions["condition"]
      /\ "condition" \in Blocks /\ "body" \in Blocks /\ "otherwise" \in Blocks
  BY <1>2, VariablesMentioned DEF Blocks
<1>4. /\ n \in Nat /\ n + 1 \in Rounds /\ n \in 0 .. (MaxIterations + 1)
      /\ n + 1 \in 0 .. (MaxIterations + 1) /\ MaxIterations \in Nat
  BY <1>1, RoundsAreNumbers
<1>5. DetailsFor(details)
  BY <1>2 DEF DetailsFor, Waiting, Described, Typed, TypeOK
<1>6. \A v \in VariablesOf("condition") :
        /\ ConditionsHandle(n, v) \in Handles
        /\ ConditionsHandle(n, v).variable = v
        /\ \/ /\ ConditionsHandle(n, v).place = "condition"
              /\ ConditionsHandle(n, v).round = n
           \/ /\ ConditionsHandle(n, v).place = "implicit"
              /\ ConditionsHandle(n, v).round = n + 1
        /\ holder[ConditionsHandle(n, v)] = ConditionsHandle(n, v)
        /\ trail[ConditionsHandle(n, v)] = << >>
        /\ details["condition"][v].captured = ConditionsHandle(n, v)
  BY <1>1, <1>2, ConditionsHandleShape DEF Waiting, CapturedUpTo, DescribesRound
<1>7. \A v \in mentions["body"] :
        /\ v \in Variables /\ v \in VariablesOf("condition")
        /\ ds[v].source = ConditionsHandle(n, v)
        /\ ds[v].captured = Handle("body", n, v)
        /\ Handle("body", n, v) \in Handles
        /\ Handle("body", n, v).place = "body"
        /\ Handle("body", n, v).round = n
        /\ Handle("body", n, v).variable = v
        /\ ds[v].request \in PermissionPairs
  <2>1. \A v \in mentions["body"] :
          /\ v \in Variables /\ v \in VariablesOf("condition")
          /\ ds[v].source = ConditionsHandle(n, v)
          /\ ds[v].captured = Handle("body", n, v)
    BY <1>2, <1>3 DEF Waiting, DescribesRound
  <2>2. \A v \in mentions["body"] : ds[v] \in Permitted
    BY <1>3, <1>5 DEF DetailsFor
  <2>3. \A v \in mentions["body"] : ds[v].request \in PermissionPairs
    BY <2>2 DEF Permitted
  <2>4. \A v \in Variables : /\ Handle("body", n, v) \in Handles
                             /\ Handle("body", n, v).place = "body"
                             /\ Handle("body", n, v).round = n
                             /\ Handle("body", n, v).variable = v
    BY <1>3, <1>4, HandleShape
  <2>. QED
    BY <2>1, <2>3, <2>4
<1>8. DOMAIN ds = mentions["body"]
  BY <1>3, <1>5 DEF DetailsFor
<1>9. MadeFrom(holder, ds, from)
  BY <1>6, <1>7, <1>8 DEF MadeFrom
<1> HIDE DEF ds, from, next
<1>10. CapturesMade(holder, ds, {}, from)
  BY <1>1, <1>2, <1>9, Executed
<1>11. \A v \in mentions["body"] : from[v] = ConditionsHandle(n, v)
  BY DEF from
<1>12. /\ DetailsFor(next)
       /\ \A b \in Blocks : \A v \in VariablesOf(b) : next[b][v].request = details[b][v].request
       /\ \A v \in VariablesOf("condition") \ ImplicitVariables :
            /\ next["condition"][v].source =
                 (IF v \in mentions["body"] THEN details["body"][v].source
                                            ELSE details["condition"][v].captured)
            /\ next["condition"][v].captured = Handle("condition", n + 1, v)
       /\ \A b \in {"body", "otherwise"} : \A v \in mentions[b] :
            /\ v \notin ImplicitVariables => next[b][v].source = Handle("condition", n + 1, v)
            /\ next[b][v].captured = Handle(b, n + 1, v)
  BY <1>2, <1>4, <1>5, RecapturedShape DEF next
<1>13. /\ task \in [Tasks -> TaskStates]
       /\ managed \subseteq {t \in Tasks : task[t] \in {"built", "registered", "running"}}
       /\ task[TaskOf("body", n)] = "built"
       /\ task[TaskOf("condition", n + 1)] = "unborn"
       /\ task[TaskOf("body", n + 1)] = "unborn"
  BY <1>2, <1>4 DEF Typed, TypeOK, TaskStates, Waiting, RoundsAfter
<1>14. /\ \A m \in Rounds, b \in Blocks : TaskOf(b, m) \in Tasks
       /\ \A m, k \in Rounds, b, c \in Blocks : TaskOf(b, m) = TaskOf(c, k) => b = c /\ m = k
  BY TaskShape
<1>15. /\ TaskOf("condition", n) \in Tasks /\ TaskOf("body", n) \in Tasks
       /\ TaskOf("condition", n + 1) \in Tasks /\ TaskOf("body", n + 1) \in Tasks
       /\ TaskOf("condition", n) # TaskOf("body", n)
       /\ TaskOf("condition", n) # TaskOf("condition", n + 1)
       /\ TaskOf("condition", n) # TaskOf("body", n + 1)
       /\ TaskOf("body", n) # TaskOf("condition", n + 1)
       /\ TaskOf("body", n) # TaskOf("body", n + 1)
       /\ TaskOf("condition", n + 1) # TaskOf("body", n + 1)
  <2>1. n # n + 1
    BY <1>4
  <2>. QED
    BY <1>3, <1>4, <1>14, <2>1
<1>16. /\ task' \in [Tasks -> TaskStates]
       /\ task'[TaskOf("condition", n)] = "running"
       /\ task'[TaskOf("body", n)] = "registered"
       /\ task'[TaskOf("condition", n + 1)] = "built"
       /\ task'[TaskOf("body", n + 1)] = "built"
       /\ \A t \in Tasks : t \notin {TaskOf("condition", n), TaskOf("body", n),
                                     TaskOf("condition", n + 1), TaskOf("body", n + 1)} =>
            task'[t] = task[t]
  BY <1>1, <1>13, <1>15 DEF TaskStates
<1>17. managed' \subseteq {t \in Tasks : task'[t] \in {"built", "registered", "running"}}
  BY <1>1, <1>13, <1>15, <1>16
<1>18. \A v \in mentions["body"] :
         trail'[ConditionsHandle(n, v)] =
           Append(<< >>, [captured |-> Handle("body", n, v), request |-> ds[v].request])
  <2>1. \A v \in DOMAIN ds :
          trail'[from[v]] = Append(trail[from[v]], [captured |-> ds[v].captured,
                                                    request  |-> ds[v].request])
    BY <1>10 DEF CapturesMade
  <2> SUFFICES ASSUME NEW v \in mentions["body"]
               PROVE  trail'[ConditionsHandle(n, v)] =
                        Append(<< >>, [captured |-> Handle("body", n, v), request |-> ds[v].request])
    OBVIOUS
  <2>2. /\ v \in DOMAIN ds /\ from[v] = ConditionsHandle(n, v)
        /\ ds[v].captured = Handle("body", n, v) /\ trail[ConditionsHandle(n, v)] = << >>
    BY <1>6, <1>7, <1>8, <1>11
  <2>. QED
    BY <2>1, <2>2
<1>19. ASSUME NEW v \in mentions["body"]
       PROVE  /\ Len(trail'[ConditionsHandle(n, v)]) = 1
              /\ trail'[ConditionsHandle(n, v)][1].captured = Handle("body", n, v)
              /\ DOMAIN Names(trail'[ConditionsHandle(n, v)]) = 1..1
              /\ Len(Names(trail'[ConditionsHandle(n, v)])) = 1
              /\ Names(trail'[ConditionsHandle(n, v)])[1] = Handle("body", n, v)
  <2> DEFINE c == [captured |-> Handle("body", n, v), request |-> ds[v].request]
  <2>1. c \in CaptureRecords /\ c.captured = Handle("body", n, v)
    BY <1>7 DEF CaptureRecords
  <2>2. trail'[ConditionsHandle(n, v)] = Append(<< >>, c)
    BY <1>18
  <2> HIDE DEF c
  <2>. QED
    BY <2>1, <2>2, FirstCapture
<1>20. ASSUME NEW v \in DOMAIN ds
       PROVE  \E expected \in Unrolled(from[v]) : PrefixOf(Names(trail'[from[v]]), expected)
  <2>1. v \in mentions["body"] /\ v \in VariablesOf("condition") /\ from[v] = ConditionsHandle(n, v)
    BY <1>7, <1>8, <1>11
  <2>2. PICK expected \in Unrolled(ConditionsHandle(n, v)) :
          Len(expected) = 2 /\ expected[1] = Handle("body", n, v)
    BY <1>1, <1>2, <2>1, LoopUnrolled
  <2>3. PrefixOf(Names(trail'[ConditionsHandle(n, v)]), expected)
    <3> DEFINE names == Names(trail'[ConditionsHandle(n, v)])
    <3>1. DOMAIN names = 1..1 /\ Len(names) = 1 /\ names[1] = Handle("body", n, v)
      BY <1>19, <2>1
    <3> HIDE DEF names
    <3>2. Len(names) <= Len(expected) /\ \A i \in DOMAIN names : names[i] = expected[i]
      BY <2>2, <3>1
    <3>. QED
      BY <3>2 DEF PrefixOf, names
  <2>. QED
    BY <2>1, <2>2, <2>3
<1>21. \A h \in Handles : (\E v \in DOMAIN ds : h = ds[v].captured) => IsKept(h)'
  <2> SUFFICES ASSUME NEW h \in Handles, NEW v \in DOMAIN ds, h = ds[v].captured
               PROVE  IsKept(h)'
    OBVIOUS
  <2>1. v \in mentions["body"]
    BY <1>8
  <2>2. h.place = "body" /\ h.round = n
    BY <1>7, <2>1
  <2>3. h \in ClosureOf(TaskOf("body", n))
    BY <1>3, <2>2, TaskShape
  <2>. QED
    BY <1>15, <1>16, <2>3 DEF IsKept
<1>22. ASSUME NEW h \in Handles, IsKept(h), h \notin {} PROVE IsKept(h)'
  <2>1. CASE h.place = "outer" \/ (h.place = "implicit" /\ managed # {})
    BY <1>1, <2>1 DEF IsKept
  <2>2. CASE \E t \in Tasks : h \in ClosureOf(t) /\ task[t] \in {"registered", "running", "returned"}
    <3>1. PICK t \in Tasks : h \in ClosureOf(t) /\ task[t] \in {"registered", "running", "returned"}
      BY <2>2
    <3>2. task'[t] \in {"registered", "running", "returned"}
      BY <1>13, <1>16, <3>1
    <3>. QED
      BY <3>1, <3>2 DEF IsKept
  <2>. QED
    BY <1>22, <2>1, <2>2 DEF IsKept
<1>23. \A b \in Blocks : \A v \in DOMAIN details[b] :
         v \in DOMAIN details'[b] /\ details'[b][v].request = details[b][v].request
  BY <1>1, <1>5, <1>12 DEF DetailsFor
<1>24. \A v \in DOMAIN ds : LET b == BlockOf(ds[v].captured)
                            IN  /\ b \in Blocks /\ v \in DOMAIN details'[b]
                                /\ details'[b][v].request = ds[v].request
  <2>1. \A v \in DOMAIN ds : BlockOf(ds[v].captured) = "body"
    BY <1>7, <1>8 DEF BlockOf
  <2>2. \A v \in DOMAIN ds : v \in DOMAIN details'["body"]
                               /\ details'["body"][v].request = ds[v].request
    BY <1>3, <1>23 DEF ds
  <2>. QED
    BY <1>3, <2>1, <2>2
<1>25. implicit' \in [Variables -> 0 .. (MaxIterations + 1)]
  BY <1>1, <1>2 DEF Typed, TypeOK
<1>26. Typed' /\ TrailsAsDescribed' /\ HoldersKept' /\ CapturedInProgramOrder'
  <2>1. DetailsFor(details')
    BY <1>1, <1>12
  <2>2. Execute(holder, ds, {}) /\ MadeFrom(holder, ds, from) /\ CapturesMade(holder, ds, {}, from)
    BY <1>1, <1>9, <1>10
  <2>3. Typed /\ TrailsAsDescribed /\ HoldersKept /\ CapturedInProgramOrder
    BY <1>2
  <2>4. UNCHANGED program /\ UNCHANGED aborted
    BY <1>1
  <2>5. task' \in [Tasks -> TaskStates]
    BY <1>16
  <2>6. \A h \in Handles : IsKept(h) /\ h \notin {} => IsKept(h)'
    BY <1>22
  <2>7. \A v \in DOMAIN ds : \E expected \in Unrolled(from[v]) :
          PrefixOf(Names(trail'[from[v]]), expected)
    BY <1>20
  <2>. QED
    BY <1>17, <1>21, <1>23, <1>24, <1>25, <2>1, <2>2, <2>3, <2>4, <2>5, <2>6, <2>7,
       LaterCaptures, SMTT(30)
<1>27. /\ construct' = construct /\ mentions' = mentions
       /\ ImplicitVariables' = ImplicitVariables
       /\ \A b : VariablesOf(b)' = VariablesOf(b)
       /\ \A m, v : ConditionsHandle(m, v)' = ConditionsHandle(m, v)
  BY <1>1, NamesKept
<1>28. Described'
  <2>1. \A b \in Blocks : DOMAIN next[b] = VariablesOf(b)
    BY <1>12 DEF DetailsFor
  <2>2. \A b \in {"body", "otherwise"} : \A v \in mentions[b] :
          /\ next[b][v].request = details[b][v].request
          /\ next["condition"][v].request = details["condition"][v].request
    BY <1>3, <1>12
  <2>3. Described
    BY <1>2 DEF Waiting
  <2>. QED
    BY <1>1, <1>27, <2>1, <2>2, <2>3 DEF Described
<1>29. WithNextImplicit(details)' = WithNextImplicit(next)
  BY <1>1, <1>27 DEF WithNextImplicit, NextImplicit, Implicit
<1>30. \A v \in ImplicitVariables : /\ implicit[v] = n + 1
                                    /\ Implicit(v) = Handle("implicit", n + 1, v)
                                    /\ NextImplicit(v) = Handle("implicit", n + 1 + 1, v)
  BY <1>2 DEF Waiting, Implicit, NextImplicit
<1>31. \A v \in VariablesOf("condition") :
         /\ v \in ImplicitVariables => /\ ConditionsHandle(n, v) = Handle("implicit", n + 1, v)
                                       /\ ConditionsHandle(n + 1, v) = Handle("implicit", n + 1 + 1, v)
         /\ v \notin ImplicitVariables => ConditionsHandle(n + 1, v) = Handle("condition", n + 1, v)
  BY <1>1, <1>3 DEF ConditionsHandle
<1>32. /\ \A b \in Blocks : \A v \in VariablesOf(b) :
            v \notin ImplicitVariables => WithNextImplicit(next)[b][v] = next[b][v]
       /\ \A v \in ImplicitVariables :
            /\ WithNextImplicit(next)["condition"][v].source = Implicit(v)
            /\ WithNextImplicit(next)["condition"][v].captured = NextImplicit(v)
            /\ \A b \in {"body", "otherwise"} : v \in mentions[b] =>
                 /\ WithNextImplicit(next)[b][v].source = NextImplicit(v)
                 /\ WithNextImplicit(next)[b][v].captured = next[b][v].captured
  <2>1. \A v \in ImplicitVariables : implicit[v] <= MaxIterations
    BY <1>1, <1>4, <1>30
  <2>. QED
    BY <1>2, <1>12, <2>1, NextImplicitShape
<1>33. ASSUME NEW v \in VariablesOf("condition")
       PROVE  /\ WithNextImplicit(next)["condition"][v].captured = ConditionsHandle(n + 1, v)
              /\ WithNextImplicit(next)["condition"][v].source = ConditionsHandle(n, v)
  <2>1. CASE v \in ImplicitVariables
    BY <1>30, <1>31, <1>32, <2>1
  <2>2. CASE v \notin ImplicitVariables
    <3>1. WithNextImplicit(next)["condition"][v] = next["condition"][v]
      BY <1>3, <1>32, <2>2
    <3>. QED
      BY <1>6, <1>7, <1>12, <1>31, <2>2, <3>1 DEF ds
  <2>. QED
    BY <2>1, <2>2
<1>34. ASSUME NEW b \in {"body", "otherwise"}, NEW v \in mentions[b]
       PROVE  /\ WithNextImplicit(next)[b][v].source = ConditionsHandle(n + 1, v)
              /\ WithNextImplicit(next)[b][v].captured = Handle(b, n + 1, v)
  <2>0. v \in VariablesOf("condition") /\ v \in VariablesOf(b) /\ b \in Blocks
    BY <1>3
  <2>1. CASE v \in ImplicitVariables
    BY <1>12, <1>30, <1>31, <1>32, <2>0, <2>1
  <2>2. CASE v \notin ImplicitVariables
    <3>1. WithNextImplicit(next)[b][v] = next[b][v]
      BY <1>32, <2>0, <2>2
    <3>. QED
      BY <1>12, <1>31, <2>0, <2>2, <3>1
  <2>. QED
    BY <2>1, <2>2
<1>35. DescribesRound(WithNextImplicit(details), n + 1)'
  BY <1>27, <1>29, <1>33, <1>34 DEF DescribesRound
<1>36. CapturedUpTo(n)'
  <2>1. ASSUME NEW v \in VariablesOf("condition")
        PROVE  holder'[ConditionsHandle(n, v)] = ConditionsHandle(n, v)
    <3>1. \A w \in DOMAIN ds : ConditionsHandle(n, v) # ds[w].captured
      BY <1>6, <1>7, <1>8
    <3>2. holder'[ConditionsHandle(n, v)] = holder[ConditionsHandle(n, v)]
      BY <1>6, <1>10, <3>1 DEF CapturesMade
    <3>. QED
      BY <1>6, <3>2
  <2>2. ASSUME NEW h \in Handles, ~(h.place \in {"body", "otherwise"}),
               \/ h.place = "condition" /\ h.round > n
               \/ h.place = "implicit" /\ h.round > n + 1
        PROVE  trail'[h] = << >>
    <3>1. \A w \in DOMAIN ds : h # from[w]
      BY <1>4, <1>6, <1>7, <1>8, <1>11, <2>2
    <3>2. trail'[h] = trail[h]
      BY <1>10, <3>1 DEF CapturesMade
    <3>3. trail[h] = << >>
      BY <1>1, <1>2, <2>2 DEF Waiting, CapturedUpTo
    <3>. QED
      BY <3>2, <3>3
  <2>3. ASSUME NEW h \in Handles, h.place \in {"body", "otherwise"}
        PROVE  trail'[h] = << >>
    <3>1. \A w \in DOMAIN ds : h # from[w]
      BY <1>6, <1>7, <1>8, <1>11, <2>3
    <3>2. trail'[h] = trail[h]
      BY <1>10, <3>1 DEF CapturesMade
    <3>3. trail[h] = << >>
      BY <1>2, <2>3 DEF Waiting, CapturedUpTo
    <3>. QED
      BY <3>2, <3>3
  <2>. QED
    BY <1>1, <1>27, <2>1, <2>2, <2>3 DEF CapturedUpTo
<1>37. ASSUME NEW v \in VariablesOf("condition"), v \notin mentions["body"]
       PROVE  trail'[ConditionsHandle(n, v)] = << >>
  <2>1. \A w \in DOMAIN ds : ConditionsHandle(n, v) # from[w]
    BY <1>6, <1>7, <1>8, <1>11, <1>37
  <2>. QED
    BY <1>6, <1>10, <2>1 DEF CapturesMade
<1>38. RoundsBefore(n)' /\ RoundsAfter(n + 1)'
  <2>1. \A m \in Rounds : m \in Nat
    BY RoundsAreNumbers
  <2>2. ASSUME NEW m \in Rounds, m < n \/ m > n + 1, NEW b \in Blocks
        PROVE  task'[TaskOf(b, m)] = task[TaskOf(b, m)]
    <3>1. m # n /\ m # n + 1
      BY <1>4, <2>1, <2>2
    <3>. QED
      BY <1>3, <1>4, <1>14, <1>16, <3>1
  <2>3. \A m \in Rounds : m > n + 1 => m > n
    BY <1>4, <2>1
  <2>4. \A m \in Rounds : task'[TaskOf("otherwise", m)] = task[TaskOf("otherwise", m)]
    BY <1>3, <1>4, <1>14, <1>16
  <2>5. RoundsBefore(n) /\ RoundsAfter(n)
    BY <1>2 DEF Waiting
  <2>6. RoundsBefore(n)'
    BY <1>3, <2>2, <2>5 DEF RoundsBefore
  <2>7. RoundsAfter(n + 1)'
    BY <1>3, <2>2, <2>3, <2>4, <2>5 DEF RoundsAfter
  <2>. QED
    BY <2>6, <2>7
<1>39. {TaskOf("condition", n + 1), TaskOf("body", n + 1)} \subseteq managed'
  BY <1>1
<1>40. \A v \in VariablesOf("condition") :
         LET made == trail'[ConditionsHandle(n, v)]
         IN  IF v \in mentions["body"]
             THEN Len(made) = 1 /\ made[1].captured = Handle("body", n, v)
             ELSE made = << >>
  BY <1>19, <1>37
<1>41. Running(n)'
  BY <1>1, <1>16, <1>27, <1>28, <1>29, <1>30, <1>33, <1>35, <1>36, <1>38, <1>39, <1>40 DEF Running
<1>. QED
  BY <1>26, <1>41 DEF Construct, Phases

\* The trail of a handle after a first or a second capture.
LEMMA OneMoreCapture ==
  ASSUME NEW c \in CaptureRecords, NEW s \in Seq(CaptureRecords), NEW t, t = Append(s, c)
  PROVE  /\ Len(s) = 0 => /\ DOMAIN Names(t) = 1..1 /\ Len(Names(t)) = 1
                          /\ Names(t)[1] = c.captured
         /\ Len(s) = 1 => /\ DOMAIN Names(t) = 1..2 /\ Len(Names(t)) = 2
                          /\ Names(t)[1] = s[1].captured /\ Names(t)[2] = c.captured
<1>1. /\ t \in Seq(CaptureRecords) /\ Len(t) = Len(s) + 1 /\ Len(s) \in Nat
      /\ \A i \in 1 .. Len(s) : t[i] = s[i]
      /\ t[Len(s) + 1] = c
  BY AppendProperties, LenProperties
<1>2. /\ DOMAIN Names(t) = 1 .. Len(t) /\ Len(Names(t)) = Len(t)
      /\ \A i \in 1 .. Len(t) : Names(t)[i] = t[i].captured
  BY <1>1, NamesOfTrail
<1>3. ASSUME Len(s) = 0
      PROVE  /\ DOMAIN Names(t) = 1..1 /\ Len(Names(t)) = 1
             /\ Names(t)[1] = c.captured
  BY <1>1, <1>2, <1>3
<1>4. ASSUME Len(s) = 1
      PROVE  /\ DOMAIN Names(t) = 1..2 /\ Len(Names(t)) = 2
             /\ Names(t)[1] = s[1].captured /\ Names(t)[2] = c.captured
  BY <1>1, <1>2, <1>4
<1>. QED
  BY <1>3, <1>4

\* A prefix of one or of two captures.
LEMMA ShortPrefix ==
  ASSUME NEW names, NEW expected,
         \/ /\ DOMAIN names = 1..1 /\ Len(names) = 1 /\ Len(expected) = 1
            /\ names[1] = expected[1]
         \/ /\ DOMAIN names = 1..2 /\ Len(names) = 2 /\ Len(expected) = 2
            /\ names[1] = expected[1] /\ names[2] = expected[2]
  PROVE  PrefixOf(names, expected)
<1>1. CASE /\ DOMAIN names = 1..1 /\ Len(names) = 1 /\ Len(expected) = 1
           /\ names[1] = expected[1]
  BY <1>1 DEF PrefixOf
<1>2. CASE /\ DOMAIN names = 1..2 /\ Len(names) = 2 /\ Len(expected) = 2
           /\ names[1] = expected[1] /\ names[2] = expected[2]
  BY <1>2 DEF PrefixOf
<1>. QED
  BY <1>1, <1>2

\* The next condition of a loop is captured and registered.
LEMMA NextRound ==
  ASSUME Construct, NEW n \in Rounds, NextIteration(n)
  PROVE  Construct'
<1> DEFINE next == WithNextImplicit(details)
           ds == next["condition"]
           from == [v \in VariablesOf("condition") |-> ConditionsHandle(n, v)]
<1>1. /\ construct = "while" /\ task[TaskOf("condition", n)] = "running"
      /\ CanExecute(holder, ds) /\ Execute(holder, ds, ReplacedImplicit)
      /\ details' = next
      /\ implicit' = [v \in Variables |->
                        IF v \in ImplicitVariables THEN implicit[v] + 1 ELSE implicit[v]]
      /\ task' = [task EXCEPT ![TaskOf("condition", n)] = "returned",
                              ![TaskOf("condition", n + 1)] = "registered"]
      /\ managed' = managed \ {TaskOf("condition", n)}
      /\ UNCHANGED program /\ UNCHANGED aborted
  BY DEF NextIteration, ExecuteWhileCaptures
<1>2. /\ Running(n) /\ Typed /\ TrailsAsDescribed /\ HoldersKept /\ CapturedInProgramOrder
  BY <1>1, PhaseOfRunning DEF Construct
<1>3. /\ \A b \in Blocks : VariablesOf(b) \subseteq Variables
      /\ ImplicitVariables \subseteq VariablesOf("condition")
      /\ \A b \in {"body", "otherwise"} : /\ VariablesOf(b) = mentions[b]
                                          /\ mentions[b] \subseteq VariablesOf("condition")
      /\ \A v \in VariablesOf("condition") : v \in ImplicitVariables <=> v \notin mentions["condition"]
      /\ "condition" \in Blocks /\ "body" \in Blocks /\ "otherwise" \in Blocks
  BY <1>2, VariablesMentioned DEF Blocks
<1>4. /\ n \in Nat /\ n + 1 \in Rounds /\ n < MaxIterations /\ MaxIterations \in Nat
  BY <1>2, RoundsAreNumbers DEF Running
<1>5. DetailsFor(details)
  BY <1>2 DEF DetailsFor, Running, Described, Typed, TypeOK
<1>6. \A v \in VariablesOf("condition") :
        /\ ConditionsHandle(n, v) \in Handles
        /\ ConditionsHandle(n, v).variable = v
        /\ \/ /\ ConditionsHandle(n, v).place = "condition"
              /\ ConditionsHandle(n, v).round = n
              /\ v \notin ImplicitVariables
           \/ /\ ConditionsHandle(n, v).place = "implicit"
              /\ ConditionsHandle(n, v).round = n + 1
              /\ v \in ImplicitVariables
        /\ holder[ConditionsHandle(n, v)] = ConditionsHandle(n, v)
  BY <1>1, <1>2, ConditionsHandleShape DEF Running, CapturedUpTo
<1>7. \A v \in VariablesOf("condition") :
        /\ ConditionsHandle(n + 1, v) \in Handles
        /\ ConditionsHandle(n + 1, v).variable = v
        /\ \/ /\ ConditionsHandle(n + 1, v).place = "condition"
              /\ ConditionsHandle(n + 1, v).round = n + 1
              /\ v \notin ImplicitVariables
           \/ /\ ConditionsHandle(n + 1, v).place = "implicit"
              /\ ConditionsHandle(n + 1, v).round = n + 1 + 1
              /\ v \in ImplicitVariables
  BY <1>1, <1>2, <1>4, ConditionsHandleShape
<1>8. /\ DetailsFor(next)
      /\ \A b \in Blocks : \A v \in VariablesOf(b) : next[b][v].request = details[b][v].request
  <2>1. \A v \in ImplicitVariables : implicit[v] <= MaxIterations
    BY <1>2, <1>4 DEF Running
  <2>. QED
    BY <1>2, <1>5, <2>1, NextImplicitShape
<1>9. \A v \in VariablesOf("condition") :
        /\ ds[v].source = ConditionsHandle(n, v)
        /\ ds[v].captured = ConditionsHandle(n + 1, v)
  BY <1>2 DEF Running, DescribesRound
<1>10. DOMAIN ds = VariablesOf("condition")
  BY <1>3, <1>8 DEF DetailsFor
<1>11. \A v \in VariablesOf("condition") : ds[v].request \in PermissionPairs
  <2>1. \A v \in VariablesOf("condition") : ds[v] \in Permitted
    BY <1>3, <1>8 DEF DetailsFor
  <2>. QED
    BY <2>1 DEF Permitted
<1>12. \A v, w \in VariablesOf("condition") : ConditionsHandle(n, v) # ConditionsHandle(n + 1, w)
  <2>1. n # n + 1 /\ n + 1 # n + 1 + 1
    BY <1>4
  <2>. QED
    BY <1>6, <1>7, <2>1
<1>13. \A v \in VariablesOf("condition") : from[v] = ConditionsHandle(n, v)
  OBVIOUS
<1> HIDE DEF from, ds, next
<1>14. MadeFrom(holder, ds, from)
  BY <1>3, <1>6, <1>7, <1>9, <1>10, <1>11, <1>12, <1>13 DEF MadeFrom
<1>15. CapturesMade(holder, ds, ReplacedImplicit, from)
  BY <1>1, <1>2, <1>14, Executed
<1>16. /\ task \in [Tasks -> TaskStates]
       /\ managed \subseteq {t \in Tasks : task[t] \in {"built", "registered", "running"}}
       /\ task[TaskOf("body", n)] \in {"registered", "destroyed"}
       /\ task[TaskOf("condition", n + 1)] = "built"
       /\ task[TaskOf("body", n + 1)] = "built"
       /\ {TaskOf("condition", n + 1), TaskOf("body", n + 1)} \subseteq managed
       /\ RoundsBefore(n) /\ RoundsAfter(n + 1)
  BY <1>2, <1>4 DEF Typed, TypeOK, TaskStates, Running
<1>17. /\ \A m \in Rounds, b \in Blocks : TaskOf(b, m) \in Tasks
       /\ \A m, k \in Rounds, b, c \in Blocks : TaskOf(b, m) = TaskOf(c, k) => b = c /\ m = k
  BY TaskShape
<1>18. /\ TaskOf("condition", n) \in Tasks /\ TaskOf("condition", n + 1) \in Tasks
       /\ TaskOf("condition", n) # TaskOf("condition", n + 1)
       /\ \A m \in Rounds, b \in Blocks : b # "condition" =>
            TaskOf(b, m) \notin {TaskOf("condition", n), TaskOf("condition", n + 1)}
  <2>1. n # n + 1
    BY <1>4
  <2>. QED
    BY <1>3, <1>4, <1>17, <2>1
<1>19. /\ task' \in [Tasks -> TaskStates]
       /\ task'[TaskOf("condition", n)] = "returned"
       /\ task'[TaskOf("condition", n + 1)] = "registered"
       /\ \A t \in Tasks : t \notin {TaskOf("condition", n), TaskOf("condition", n + 1)} =>
            task'[t] = task[t]
  BY <1>1, <1>16, <1>18 DEF TaskStates
<1>20. managed' \subseteq {t \in Tasks : task'[t] \in {"built", "registered", "running"}}
  BY <1>1, <1>16, <1>18, <1>19
<1>21. {TaskOf("condition", n + 1), TaskOf("body", n + 1)} \subseteq managed'
  BY <1>1, <1>3, <1>4, <1>16, <1>18
<1>22. ASSUME NEW v \in DOMAIN ds
       PROVE  \E expected \in Unrolled(from[v]) : PrefixOf(Names(trail'[from[v]]), expected)
  <2>1. v \in VariablesOf("condition") /\ from[v] = ConditionsHandle(n, v)
    BY <1>10, <1>13
  <2>2. PICK c \in CaptureRecords : c = [captured |-> ds[v].captured, request |-> ds[v].request]
    BY <1>7, <1>9, <1>11, <2>1 DEF CaptureRecords
  <2>3. PICK made \in Seq(CaptureRecords) : made = trail[ConditionsHandle(n, v)]
    BY <1>2, <1>6, <2>1 DEF Typed
  <2>4. PICK t : t = trail'[from[v]]
    OBVIOUS
  <2>5. t = Append(made, c)
    <3>1. \A w \in DOMAIN ds :
            trail'[from[w]] = Append(trail[from[w]], [captured |-> ds[w].captured,
                                                      request  |-> ds[w].request])
      BY <1>15 DEF CapturesMade
    <3>. QED
      BY <2>1, <2>2, <2>3, <2>4, <3>1
  <2>6. IF v \in mentions["body"]
        THEN Len(made) = 1 /\ made[1].captured = Handle("body", n, v)
        ELSE made = << >>
    BY <1>2, <2>1, <2>3 DEF Running
  <2>7. PICK expected \in Unrolled(ConditionsHandle(n, v)) :
          IF v \in mentions["body"]
          THEN /\ Len(expected) = 2
               /\ expected[1] = Handle("body", n, v)
               /\ expected[2] = ConditionsHandle(n + 1, v)
          ELSE Len(expected) = 1 /\ expected[1] = ConditionsHandle(n + 1, v)
    BY <1>1, <1>2, <2>1, LoopUnrolled
  <2>8. PICK names : names = Names(t)
    OBVIOUS
  <2>9. c.captured = ConditionsHandle(n + 1, v)
    BY <1>9, <2>1, <2>2
  <2>10. PrefixOf(names, expected)
    <3>1. CASE v \in mentions["body"]
      <4>1. Len(made) = 1 /\ made[1].captured = Handle("body", n, v)
        BY <2>6, <3>1
      <4>2. /\ DOMAIN names = 1..2 /\ Len(names) = 2
            /\ names[1] = Handle("body", n, v) /\ names[2] = ConditionsHandle(n + 1, v)
        BY <2>5, <2>8, <2>9, <4>1, OneMoreCapture
      <4>. QED
        BY <2>7, <3>1, <4>2, ShortPrefix
    <3>2. CASE v \notin mentions["body"]
      <4>1. Len(made) = 0
        BY <2>6, <3>2
      <4>2. DOMAIN names = 1..1 /\ Len(names) = 1 /\ names[1] = ConditionsHandle(n + 1, v)
        BY <2>5, <2>8, <2>9, <4>1, OneMoreCapture
      <4>. QED
        BY <2>7, <3>2, <4>2, ShortPrefix
    <3>. QED
      BY <3>1, <3>2
  <2>. QED
    BY <2>1, <2>4, <2>7, <2>8, <2>10
<1>23. \A h \in Handles : (\E v \in DOMAIN ds : h = ds[v].captured) => IsKept(h)'
  <2> SUFFICES ASSUME NEW h \in Handles, NEW v \in DOMAIN ds, h = ds[v].captured
               PROVE  IsKept(h)'
    OBVIOUS
  <2>1. \/ h.place = "condition" /\ h.round = n + 1
        \/ h.place = "implicit"
    BY <1>7, <1>9, <1>10
  <2>2. CASE h.place = "condition" /\ h.round = n + 1
    <3>1. h \in ClosureOf(TaskOf("condition", n + 1))
      BY <1>3, <1>4, <2>2, TaskShape
    <3>. QED
      BY <1>18, <1>19, <3>1 DEF IsKept
  <2>3. CASE h.place = "implicit"
    BY <1>21, <2>3 DEF IsKept
  <2>. QED
    BY <2>1, <2>2, <2>3
<1>24. ASSUME NEW h \in Handles, IsKept(h), h \notin ReplacedImplicit PROVE IsKept(h)'
  <2>1. CASE h.place = "outer" \/ (h.place = "implicit" /\ managed # {})
    BY <1>21, <2>1 DEF IsKept
  <2>2. CASE \E t \in Tasks : h \in ClosureOf(t) /\ task[t] \in {"registered", "running", "returned"}
    <3>1. PICK t \in Tasks : h \in ClosureOf(t) /\ task[t] \in {"registered", "running", "returned"}
      BY <2>2
    <3>2. task'[t] \in {"registered", "running", "returned"}
      BY <1>19, <3>1
    <3>. QED
      BY <3>1, <3>2 DEF IsKept
  <2>. QED
    BY <1>24, <2>1, <2>2 DEF IsKept
<1>25. \A b \in Blocks : \A v \in DOMAIN details[b] :
         v \in DOMAIN details'[b] /\ details'[b][v].request = details[b][v].request
  BY <1>1, <1>5, <1>8 DEF DetailsFor
<1>26. \A v \in DOMAIN ds : LET b == BlockOf(ds[v].captured)
                            IN  /\ b \in Blocks /\ v \in DOMAIN details'[b]
                                /\ details'[b][v].request = ds[v].request
  <2>1. \A v \in DOMAIN ds : BlockOf(ds[v].captured) = "condition"
    BY <1>7, <1>9, <1>10 DEF BlockOf
  <2>2. details'["condition"] = ds
    BY <1>1 DEF ds
  <2>. QED
    BY <1>3, <2>1, <2>2
<1>27. /\ implicit' \in [Variables -> 0 .. (MaxIterations + 1)]
       /\ \A v \in ImplicitVariables : implicit'[v] = n + 1 + 1
  <2>1. implicit \in [Variables -> 0 .. (MaxIterations + 1)]
    BY <1>2 DEF Typed, TypeOK
  <2>2. \A v \in ImplicitVariables : implicit[v] = n + 1 /\ v \in Variables
    BY <1>2, <1>3 DEF Running
  <2>. QED
    BY <1>1, <1>4, <2>1, <2>2
<1>28. Typed' /\ TrailsAsDescribed' /\ HoldersKept' /\ CapturedInProgramOrder'
  <2>1. DetailsFor(details')
    BY <1>1, <1>8
  <2> DEFINE gone == ReplacedImplicit
  <2>2. Execute(holder, ds, gone) /\ CapturesMade(holder, ds, gone, from)
    BY <1>1, <1>15
  <2>3. \A h \in Handles : IsKept(h) /\ h \notin gone => IsKept(h)'
    BY <1>24
  <2>4. UNCHANGED program /\ UNCHANGED aborted
    BY <1>1
  <2> HIDE DEF gone
  <2>. QED
    BY <1>2, <1>14, <1>19, <1>20, <1>22, <1>23, <1>25, <1>26, <1>27, <2>1, <2>2, <2>3, <2>4,
       LaterCaptures, SMTT(30)
<1>29. /\ construct' = construct /\ mentions' = mentions
       /\ ImplicitVariables' = ImplicitVariables
       /\ \A b : VariablesOf(b)' = VariablesOf(b)
       /\ \A m, v : ConditionsHandle(m, v)' = ConditionsHandle(m, v)
  BY <1>1, NamesKept
<1>30. Described'
  <2>1. \A b \in Blocks : DOMAIN next[b] = VariablesOf(b)
    BY <1>8 DEF DetailsFor
  <2>2. \A b \in {"body", "otherwise"} : \A v \in mentions[b] :
          /\ next[b][v].request = details[b][v].request
          /\ next["condition"][v].request = details["condition"][v].request
    BY <1>3, <1>8
  <2>3. Described
    BY <1>2 DEF Running
  <2>. QED
    BY <1>1, <1>29, <2>1, <2>2, <2>3 DEF Described
<1>31. DescribesRound(details, n + 1)'
  <2>1. DescribesRound(next, n + 1)
    BY <1>2 DEF Running, next
  <2>. QED
    BY <1>1, <1>29, <2>1 DEF DescribesRound
<1>32. ASSUME NEW h \in Handles,
              \/ h.place \in {"body", "otherwise"}
              \/ h.place = "condition" /\ h.round > n
              \/ h.place = "implicit" /\ h.round > n + 1
       PROVE  trail'[h] = << >>
  <2>1. \A w \in DOMAIN ds : h # from[w]
    BY <1>4, <1>6, <1>10, <1>13, <1>32
  <2>2. trail'[h] = trail[h]
    BY <1>15, <2>1 DEF CapturesMade
  <2>3. trail[h] = << >>
    BY <1>1, <1>2, <1>32 DEF Running, CapturedUpTo
  <2>. QED
    BY <2>2, <2>3
<1>33. CapturedUpTo(n + 1)'
  <2>1. \A v \in VariablesOf("condition") :
          holder'[ConditionsHandle(n + 1, v)] = ConditionsHandle(n + 1, v)
    BY <1>9, <1>10, <1>15 DEF CapturesMade
  <2>2. \A h \in Handles : h.round \in Nat
    BY <1>4, HandleIsNamed
  <2>3. \A h \in Handles : /\ h.round > n + 1 => h.round > n
                           /\ h.round > n + 1 + 1 => h.round > n + 1
    BY <1>4, <2>2
  <2>. QED
    BY <1>1, <1>29, <1>32, <2>1, <2>3 DEF CapturedUpTo
<1>34. \A v \in VariablesOf("condition") : trail'[ConditionsHandle(n + 1, v)] = << >>
  <2>1. n + 1 > n /\ n + 1 + 1 > n + 1
    BY <1>4
  <2>. QED
    BY <1>7, <1>32, <2>1
<1>35. RoundsBefore(n + 1)' /\ RoundsAfter(n + 1)'
  <2>1. \A m \in Rounds : m \in Nat
    BY RoundsAreNumbers
  <2>2. ASSUME NEW m \in Rounds, m # n, m # n + 1
        PROVE  task'[TaskOf("condition", m)] = task[TaskOf("condition", m)]
    <3>1. /\ TaskOf("condition", m) \in Tasks
          /\ TaskOf("condition", m) \notin {TaskOf("condition", n), TaskOf("condition", n + 1)}
      BY <1>3, <1>4, <1>17, <2>2
    <3>. QED
      BY <1>19, <3>1
  <2>3. \A m \in Rounds, b \in {"body", "otherwise"} : task'[TaskOf(b, m)] = task[TaskOf(b, m)]
    BY <1>3, <1>17, <1>18, <1>19 DEF Blocks
  <2>4. ASSUME NEW m \in Rounds, m < n + 1
        PROVE  /\ task'[TaskOf("condition", m)] \in {"returned", "destroyed"}
               /\ task'[TaskOf("body", m)] \in {"registered", "destroyed"}
    <3>1. CASE m = n
      BY <1>16, <1>19, <2>3, <3>1
    <3>2. CASE m # n
      <4>1. m < n /\ m # n + 1
        BY <1>4, <2>1, <2>4, <3>2
      <4>. QED
        BY <1>16, <2>2, <2>3, <3>2, <4>1 DEF RoundsBefore
    <3>. QED
      BY <3>1, <3>2
  <2>5. ASSUME NEW m \in Rounds, m > n + 1
        PROVE  /\ task'[TaskOf("condition", m)] = "unborn" /\ task'[TaskOf("body", m)] = "unborn"
    <3>1. m # n /\ m # n + 1
      BY <1>4, <2>1, <2>5
    <3>. QED
      BY <1>16, <2>2, <2>3, <2>5, <3>1 DEF RoundsAfter
  <2>6. \A m \in Rounds : task'[TaskOf("otherwise", m)] = "unborn"
    BY <1>16, <2>3 DEF RoundsAfter
  <2>. QED
    BY <2>4, <2>5, <2>6 DEF RoundsBefore, RoundsAfter
<1>36. task'[TaskOf("condition", n + 1)] = "registered" /\ task'[TaskOf("body", n + 1)] = "built"
  BY <1>3, <1>4, <1>16, <1>17, <1>18, <1>19
<1>37. Waiting(n + 1)'
  BY <1>1, <1>21, <1>27, <1>29, <1>30, <1>31, <1>33, <1>34, <1>35, <1>36 DEF Waiting
<1>. QED
  BY <1>4, <1>28, <1>37 DEF Construct, Phases

\* The condition of a conditional has run: one body is captured and
\* registered, and the manager goes.
LEMMA ConditionalDecides ==
  ASSUME Construct, NEW b \in {"body", "otherwise"}, RunIf(b)
  PROVE  Construct'
<1> DEFINE ds == details[b]
           from == [v \in mentions[b] |-> ConditionsHandle(0, v)]
           other == OtherBody(b)
<1>1. /\ construct = "if" /\ task[TaskOf("condition", 0)] = "registered"
      /\ CanExecute(holder, ds) /\ Execute(holder, ds, ManagersHandles)
      /\ task' = [task EXCEPT ![TaskOf("condition", 0)] = "returned",
                              ![TaskOf(b, 0)] = "registered",
                              ![TaskOf(other, 0)] = "discarded"]
      /\ managed' = {}
      /\ UNCHANGED program /\ UNCHANGED details /\ UNCHANGED implicit /\ UNCHANGED aborted
  BY DEF RunIf
<1>2. 0 \in Rounds /\ 0 \in 0 .. (MaxIterations + 1)
  BY RoundsAreNumbers
<1>3. /\ Undecided /\ Typed /\ TrailsAsDescribed /\ HoldersKept /\ CapturedInProgramOrder
  BY <1>1, <1>2, PhaseOfRegistered DEF Construct
<1>4. /\ \A c \in Blocks : VariablesOf(c) \subseteq Variables
      /\ VariablesOf(b) = mentions[b] /\ mentions[b] \subseteq VariablesOf("condition")
      /\ "condition" \in Blocks /\ b \in Blocks /\ other \in Blocks
      /\ b # "condition" /\ other # "condition" /\ other # b
  BY <1>3, VariablesMentioned DEF Blocks, OtherBody
<1>5. DetailsFor(details)
  BY <1>3 DEF DetailsFor, Undecided, Described, Typed, TypeOK
<1>6. \A v \in VariablesOf("condition") :
        /\ ConditionsHandle(0, v) \in Handles
        /\ ConditionsHandle(0, v).variable = v
        /\ ConditionsHandle(0, v).place \in {"condition", "implicit"}
        /\ holder[ConditionsHandle(0, v)] = ConditionsHandle(0, v)
        /\ trail[ConditionsHandle(0, v)] = << >>
  BY <1>2, <1>3, ConditionsHandleShape DEF Undecided, CapturedUpTo
<1>7. \A v \in mentions[b] :
        /\ v \in Variables /\ v \in VariablesOf("condition")
        /\ ds[v].source = ConditionsHandle(0, v)
        /\ ds[v].captured = Handle(b, 0, v)
        /\ Handle(b, 0, v) \in Handles
        /\ Handle(b, 0, v).place = b
        /\ Handle(b, 0, v).round = 0
        /\ Handle(b, 0, v).variable = v
        /\ ds[v].request \in PermissionPairs
  <2>1. \A v \in mentions[b] :
          /\ v \in Variables /\ v \in VariablesOf("condition")
          /\ ds[v].source = ConditionsHandle(0, v)
          /\ ds[v].captured = Handle(b, 0, v)
    BY <1>3, <1>4 DEF Undecided, DescribesRound
  <2>2. \A v \in mentions[b] : ds[v] \in Permitted
    BY <1>4, <1>5 DEF DetailsFor
  <2>3. \A v \in mentions[b] : ds[v].request \in PermissionPairs
    BY <2>2 DEF Permitted
  <2>4. \A v \in Variables : /\ Handle(b, 0, v) \in Handles
                             /\ Handle(b, 0, v).place = b
                             /\ Handle(b, 0, v).round = 0
                             /\ Handle(b, 0, v).variable = v
    BY <1>2, <1>4, HandleShape
  <2>. QED
    BY <2>1, <2>3, <2>4
<1>8. DOMAIN ds = mentions[b]
  BY <1>4, <1>5 DEF DetailsFor
<1>9. \A v \in mentions[b] : from[v] = ConditionsHandle(0, v)
  OBVIOUS
<1> HIDE DEF ds, from, other
<1>10. MadeFrom(holder, ds, from)
  <2> SUFFICES ASSUME NEW v \in mentions[b]
               PROVE  /\ ds[v].captured \in Handles /\ ds[v].captured.variable = v
                      /\ ds[v].request \in PermissionPairs
                      /\ from[v] \in Handles /\ from[v].variable = v
                      /\ from[v] # ds[v].captured
                      /\ holder[ds[v].source] = from[v]
    BY <1>7, <1>8 DEF MadeFrom
  <2>1. /\ from[v] = ConditionsHandle(0, v) /\ v \in VariablesOf("condition")
        /\ ds[v].captured = Handle(b, 0, v) /\ ds[v].source = ConditionsHandle(0, v)
    BY <1>7, <1>9
  <2>2. ConditionsHandle(0, v).place # Handle(b, 0, v).place
    BY <1>6, <1>7, <2>1
  <2>. QED
    BY <1>6, <1>7, <2>1, <2>2
<1>11. CapturesMade(holder, ds, ManagersHandles, from)
  BY <1>1, <1>3, <1>10, Executed
<1>12. /\ task \in [Tasks -> TaskStates]
       /\ task[TaskOf(b, 0)] = "built" /\ task[TaskOf(other, 0)] = "built"
       /\ \A m \in Rounds : m > 0 => task[TaskOf("condition", m)] = "unborn"
  BY <1>3, <1>4 DEF Typed, TypeOK, TaskStates, Undecided, other, OtherBody
<1>13. /\ TaskOf("condition", 0) \in Tasks /\ TaskOf(b, 0) \in Tasks /\ TaskOf(other, 0) \in Tasks
       /\ TaskOf("condition", 0) # TaskOf(b, 0)
       /\ TaskOf("condition", 0) # TaskOf(other, 0)
       /\ TaskOf(b, 0) # TaskOf(other, 0)
       /\ \A m \in Rounds : m # 0 =>
            /\ TaskOf("condition", m) \in Tasks
            /\ TaskOf("condition", m) \notin {TaskOf("condition", 0), TaskOf(b, 0), TaskOf(other, 0)}
  BY <1>2, <1>4, TaskShape
<1>14. /\ task' \in [Tasks -> TaskStates]
       /\ task'[TaskOf("condition", 0)] = "returned"
       /\ task'[TaskOf(b, 0)] = "registered"
       /\ \A t \in Tasks : t \notin {TaskOf("condition", 0), TaskOf(b, 0), TaskOf(other, 0)} =>
            task'[t] = task[t]
  BY <1>1, <1>12, <1>13 DEF TaskStates
<1>15. managed' \subseteq {t \in Tasks : task'[t] \in {"built", "registered", "running"}}
  BY <1>1
<1>16. ASSUME NEW v \in DOMAIN ds
       PROVE  \E expected \in Unrolled(from[v]) : PrefixOf(Names(trail'[from[v]]), expected)
  <2>1. /\ v \in mentions[b] /\ v \in VariablesOf("condition") /\ from[v] = ConditionsHandle(0, v)
        /\ ds[v].captured = Handle(b, 0, v)
    BY <1>7, <1>8, <1>9
  <2>2. PICK c \in CaptureRecords : c = [captured |-> ds[v].captured, request |-> ds[v].request]
    BY <1>7, <2>1 DEF CaptureRecords
  <2>3. c.captured = Handle(b, 0, v)
    BY <2>1, <2>2
  <2>4. PICK t : t = trail'[from[v]]
    OBVIOUS
  <2>5. t = Append(<< >>, c)
    <3>1. \A w \in DOMAIN ds :
            trail'[from[w]] = Append(trail[from[w]], [captured |-> ds[w].captured,
                                                      request  |-> ds[w].request])
      BY <1>11 DEF CapturesMade
    <3>2. trail[from[v]] = << >>
      BY <1>6, <2>1
    <3>. QED
      BY <2>2, <2>4, <3>1, <3>2
  <2>6. PICK names : names = Names(t)
    OBVIOUS
  <2>7. DOMAIN names = 1..1 /\ Len(names) = 1 /\ names[1] = Handle(b, 0, v)
    BY <2>3, <2>5, <2>6, FirstCapture
  <2>8. <<Handle(b, 0, v)>> \in Unrolled(ConditionsHandle(0, v))
    <3>1. /\ ConditionsHandle(0, v).variable = v
          /\ ConditionsHandle(0, v).place \in {"condition", "implicit"}
      BY <1>6, <2>1
    <3>2. b \in BodiesOf(v)
      BY <2>1 DEF BodiesOf
    <3>. QED
      BY <1>1, <3>1, <3>2 DEF Unrolled
  <2>9. PICK expected : expected = <<Handle(b, 0, v)>>
    OBVIOUS
  <2>10. PrefixOf(names, expected)
    <3>1. Len(expected) = 1 /\ expected[1] = Handle(b, 0, v)
      BY <2>9
    <3>. QED
      BY <2>7, <3>1, ShortPrefix
  <2>. QED
    BY <2>1, <2>4, <2>6, <2>8, <2>9, <2>10
<1>17. \A h \in Handles : (\E v \in DOMAIN ds : h = ds[v].captured) => IsKept(h)'
  <2> SUFFICES ASSUME NEW h \in Handles, NEW v \in DOMAIN ds, h = ds[v].captured
               PROVE  IsKept(h)'
    OBVIOUS
  <2>1. h.place = b /\ h.round = 0
    BY <1>7, <1>8
  <2>2. h \in ClosureOf(TaskOf(b, 0))
    BY <1>2, <1>4, <2>1, TaskShape
  <2>. QED
    BY <1>13, <1>14, <2>2 DEF IsKept
<1>18. ASSUME NEW h \in Handles, IsKept(h), h \notin ManagersHandles PROVE IsKept(h)'
  <2>1. h.place # "implicit"
    BY <1>18 DEF ManagersHandles
  <2>2. CASE h.place = "outer"
    BY <2>2 DEF IsKept
  <2>3. CASE \E t \in Tasks : h \in ClosureOf(t) /\ task[t] \in {"registered", "running", "returned"}
    <3>1. PICK t \in Tasks : h \in ClosureOf(t) /\ task[t] \in {"registered", "running", "returned"}
      BY <2>3
    <3>2. task'[t] \in {"registered", "running", "returned"}
      BY <1>12, <1>14, <3>1
    <3>. QED
      BY <3>1, <3>2 DEF IsKept
  <2>. QED
    BY <1>18, <2>1, <2>2, <2>3 DEF IsKept
<1>19. \A c \in Blocks : \A v \in DOMAIN details[c] :
         v \in DOMAIN details'[c] /\ details'[c][v].request = details[c][v].request
  BY <1>1
<1>20. \A v \in DOMAIN ds : LET c == BlockOf(ds[v].captured)
                            IN  /\ c \in Blocks /\ v \in DOMAIN details'[c]
                                /\ details'[c][v].request = ds[v].request
  <2>1. \A v \in DOMAIN ds : BlockOf(ds[v].captured) = b
    BY <1>7, <1>8 DEF BlockOf
  <2>2. details'[b] = ds
    BY <1>1 DEF ds
  <2>. QED
    BY <1>4, <2>1, <2>2
<1>21. implicit' \in [Variables -> 0 .. (MaxIterations + 1)]
  BY <1>1, <1>3 DEF Typed, TypeOK
<1>22. Typed' /\ TrailsAsDescribed' /\ HoldersKept' /\ CapturedInProgramOrder'
  <2>1. DetailsFor(details')
    BY <1>1, <1>5
  <2> DEFINE gone == ManagersHandles
  <2>2. Execute(holder, ds, gone) /\ CapturesMade(holder, ds, gone, from)
    BY <1>1, <1>11
  <2>3. \A h \in Handles : IsKept(h) /\ h \notin gone => IsKept(h)'
    BY <1>18
  <2>4. UNCHANGED program /\ UNCHANGED aborted
    BY <1>1
  <2> HIDE DEF gone
  <2>. QED
    BY <1>3, <1>10, <1>14, <1>15, <1>16, <1>17, <1>19, <1>20, <1>21, <2>1, <2>2, <2>3, <2>4,
       LaterCaptures, SMTT(30)
<1>23. Decided'
  <2>1. Described'
    <3>1. \A c : VariablesOf(c)' = VariablesOf(c)
      BY <1>1, NamesKept
    <3>. QED
      BY <1>1, <1>3, <3>1 DEF Undecided, Described, program
  <2>2. ~IsNew'
    BY <1>13, <1>14 DEF IsNew
  <2>3. ASSUME NEW m \in Rounds
        PROVE  task'[TaskOf("condition", m)] \notin {"registered", "running"}
    <3>1. CASE m = 0
      BY <1>14, <3>1
    <3>2. CASE m # 0
      <4>1. m \in Nat
        BY RoundsAreNumbers
      <4>2. m > 0
        BY <3>2, <4>1
      <4>. QED
        BY <1>12, <1>13, <1>14, <3>2, <4>2
    <3>. QED
      BY <3>1, <3>2
  <2>. QED
    BY <2>1, <2>2, <2>3 DEF Decided
<1>. QED
  BY <1>22, <1>23 DEF Construct, Phases

(***************************************************************************)
(* Programs that are aborted                                               *)
(***************************************************************************)
\* What is told of an aborted program are permissions.
LEMMA AbortTyped ==
  ASSUME Typed, NEW holders, NEW ds, Abort(holders, ds),
         \A v \in DOMAIN ds : ds[v] \in Permitted,
         \A h \in Handles : holders[h] \in Handles \cup {NoHandle}
  PROVE  /\ aborted' \subseteq [source : PermissionPairs, request : PermissionPairs]
         /\ UNCHANGED <<program, details, implicit, managed, task, holder, use, trail>>
<1>1. Unused \in PermissionPairs
  BY DEF Unused, Perms, PermissionPairs, Permissions, None
<1>2. use \in [Handles -> PermissionPairs]
  BY DEF Typed, TypeOK
<1>3. ASSUME NEW v \in DOMAIN ds
      PROVE  [source  |-> IF holders[ds[v].source] = NoHandle THEN Unused
                                                             ELSE SourceUse(holders, ds[v]),
              request |-> ds[v].request]
               \in [source : PermissionPairs, request : PermissionPairs]
  <2>1. ds[v].source \in Handles /\ ds[v].request \in PermissionPairs
    BY DEF Permitted
  <2>2. holders[ds[v].source] # NoHandle => SourceUse(holders, ds[v]) \in PermissionPairs
    BY <1>2, <2>1 DEF SourceUse
  <2>. QED
    BY <1>1, <2>1, <2>2
<1>4. UNCHANGED <<program, details, implicit, managed, task, holder, use, trail>>
  BY DEF Abort
<1>5. aborted' \subseteq [source : PermissionPairs, request : PermissionPairs]
  <2>1. aborted' = {[source  |-> IF holders[d.source] = NoHandle THEN Unused
                                                                 ELSE SourceUse(holders, d),
                     request |-> d.request] :
                      d \in {ds[v] : v \in {w \in DOMAIN ds : CasesOf(holders, ds[w]) = {}}}}
    BY DEF Abort
  <2>. QED
    BY <1>3, <2>1
<1>. QED
  BY <1>4, <1>5

\* A program that is aborted leaves the construct as it is.
LEMMA AbortsKeepConstruct ==
  ASSUME Construct, CreateWhileAborts \/ IfAborts \/ \E n \in Rounds : IterationAborts(n)
  PROVE  Construct'
<1>1. Typed /\ (\A h \in Handles : holder[h] \in Handles \cup {NoHandle})
  BY DEF Construct, Typed, TypeOK
<1>2. "condition" \in Blocks /\ "body" \in Blocks /\ "otherwise" \in Blocks
  BY DEF Blocks
<1>3. ASSUME NEW b \in Blocks, Abort(holder, details[b]) PROVE Construct'
  <2>1. \A v \in DOMAIN details[b] : details[b][v] \in Permitted
    BY <1>1 DEF Typed, TypeOK
  <2> DEFINE ds == details[b]
  <2>2. (\A v \in DOMAIN ds : ds[v] \in Permitted) /\ Abort(holder, ds)
    BY <1>3, <2>1
  <2> HIDE DEF ds
  <2>. QED
    BY <1>1, <2>2, AbortTyped, AbortKeeps
<1>4. ASSUME NEW ds, DetailsFor(ds), IsNew, Abort(WithImplicitCopies, ds["condition"])
      PROVE  Construct'
  <2>1. NotBegun
    BY <1>4, PhaseOfNew
  <2>2. \A h \in Handles : WithImplicitCopies[h] \in Handles \cup {NoHandle}
    BY <1>1, <2>1, FirstHoldersTyped
  <2>3. \A v \in DOMAIN ds["condition"] : ds["condition"][v] \in Permitted
    BY <1>2, <1>4 DEF DetailsFor
  <2>. QED
    BY <1>1, <1>4, <2>2, <2>3, AbortTyped, AbortKeeps
<1>5. DetailsFor(FirstDetails)
  BY <1>1, FirstDetailsShape DEF DetailsFor
<1>6. ASSUME CreateWhileAborts PROVE Construct'
  <2>1. IsNew /\ Abort(WithImplicitCopies, WithNextImplicit(FirstDetails)["condition"])
    BY <1>6 DEF CreateWhileAborts
  <2>2. NotBegun
    BY <2>1, PhaseOfNew
  <2>3. \A v \in ImplicitVariables : implicit[v] <= MaxIterations
    <3>1. ImplicitVariables \subseteq Variables
      BY <1>1, <1>2, VariablesMentioned
    <3>. QED
      BY <2>2, <3>1, RoundsAreNumbers DEF NotBegun
  <2>4. DetailsFor(WithNextImplicit(FirstDetails))
    BY <1>1, <1>5, <2>3, NextImplicitShape
  <2>. QED
    BY <1>4, <2>1, <2>4
<1>7. ASSUME IfAborts PROVE Construct'
  BY <1>2, <1>3, <1>4, <1>5, <1>7 DEF IfAborts
<1>8. ASSUME NEW n \in Rounds, IterationAborts(n) PROVE Construct'
  <2>1. CASE Abort(holder, details["body"])
    BY <1>2, <1>3, <2>1
  <2>2. CASE /\ construct = "while" /\ task[TaskOf("condition", n)] = "running"
             /\ Abort(holder, WithNextImplicit(details)["condition"])
    <3>1. Running(n)
      BY <2>2, PhaseOfRunning
    <3>2. DetailsFor(details)
      BY <1>1, <3>1 DEF DetailsFor, Running, Described, Typed, TypeOK
    <3>3. \A v \in ImplicitVariables : implicit[v] <= MaxIterations
      BY <3>1, RoundsAreNumbers DEF Running
    <3> DEFINE ds == WithNextImplicit(details)["condition"]
    <3>4. \A v \in DOMAIN ds : ds[v] \in Permitted
      BY <1>1, <1>2, <3>2, <3>3, NextImplicitShape DEF DetailsFor
    <3>5. Abort(holder, ds)
      BY <2>2
    <3> HIDE DEF ds
    <3>. QED
      BY <1>1, <3>4, <3>5, AbortTyped, AbortKeeps
  <2>. QED
    BY <1>8, <2>1, <2>2 DEF IterationAborts
<1>. QED
  BY <1>6, <1>7, <1>8

(***************************************************************************)
(* The invariant, and what follows from it                                 *)
(***************************************************************************)
\* Every step leads from one of the phases to one of the phases.
LEMMA ConstructPreserved == Construct /\ [Next]_vars => Construct'
<1> SUFFICES ASSUME Construct, [Next]_vars PROVE Construct'
  OBVIOUS
<1>1. CASE CreateWhile
  BY <1>1, LoopBegins
<1>2. CASE CreateIf
  BY <1>2, ConditionalBegins
<1>3. CASE CreateWhileAborts \/ IfAborts \/ \E n \in Rounds : IterationAborts(n)
  BY <1>3, AbortsKeepConstruct
<1>4. CASE \E b \in {"body", "otherwise"} : RunIf(b)
  BY <1>4, ConditionalDecides
<1>5. CASE \E n \in Rounds : BeginIteration(n)
  BY <1>5, IterationBegins
<1>6. CASE \E n \in Rounds : NextIteration(n)
  BY <1>6, NextRound
<1>7. CASE \E n \in Rounds : EndLoop(n)
  BY <1>7, LoopEnds
<1>8. CASE \/ \E n \in Rounds : DestroyCondition(n)
           \/ \E n \in Rounds, b \in {"body", "otherwise"} : RunBody(b, n)
           \/ \E v \in Variables : DropOuter(v)
  BY <1>8, TasksGo
<1>9. CASE UNCHANGED vars
  <2>1. UNCHANGED <<program, details, implicit, managed, task, holder, use, trail>>
        /\ aborted' = aborted
    BY <1>9 DEF vars, program
  <2>2. aborted \subseteq [source : PermissionPairs, request : PermissionPairs]
    BY DEF Construct, Typed, TypeOK
  <2>. QED
    BY <2>1, <2>2, AbortKeeps
<1>. QED
  BY <1>1, <1>2, <1>3, <1>4, <1>5, <1>6, <1>7, <1>8, <1>9 DEF Next, TaskSteps

\* Every construct is in one of the phases, in every state of every behaviour.
THEOREM ConstructHolds == Spec => []Construct
<1>1. Init => Construct
  BY ConstructInit
<1>2. Construct /\ [Next]_vars => Construct'
  BY ConstructPreserved
<1>. QED
  BY <1>1, <1>2, PTL DEF Spec

\* The manager's descriptions, the handles and the tasks of a conditional or
\* a loop have their types, whatever the rounds do.
THEOREM ConstructsTyped == Spec => []TypeOK
<1>1. Construct => TypeOK
  BY DEF Construct, Typed
<1>. QED
  BY <1>1, ConstructHolds, PTL

\* Each block is captured from the handle the sequential program would have
\* it read, in the order of the sequential program, for every program and
\* every number of iterations.
THEOREM CapturesFollowProgram == Spec => []CapturedInProgramOrder
<1>1. Construct => CapturedInProgramOrder
  BY DEF Construct
<1>. QED
  BY <1>1, ConstructHolds, PTL

\* Once the tasks of a construct are gone, so is its manager, and none of
\* its handles keeps a use.
THEOREM NoHandleIsKept == Spec => []NothingKept
<1>1. Construct => NothingKept
  <2> SUFFICES ASSUME Construct, Ended, NEW h \in Handles, h.place # "outer"
               PROVE  holder[h] = NoHandle
    BY DEF NothingKept
  <2>1. managed = {}
    BY DEF Construct, Typed, TypeOK, Ended
  <2>2. ~IsKept(h)
    BY <2>1 DEF IsKept, Ended
  <2>. QED
    BY <2>2 DEF Construct, HoldersKept
<1>. QED
  BY <1>1, ConstructHolds, PTL

\* Every round asks for what the first one did, and a condition may schedule
\* all that its bodies ask for.
THEOREM EveryRoundAgrees == Spec => []RoundsAgree
<1>1. Construct => RoundsAgree
  <2> SUFFICES ASSUME Construct PROVE RoundsAgree
    OBVIOUS
  <2>1. ASSUME NEW c \in Captures
        PROVE  /\ c.captured.variable \in DOMAIN details[BlockOf(c.captured)]
               /\ c.request = details[BlockOf(c.captured)][c.captured.variable].request
    <3>1. PICK h \in Handles : \E i \in DOMAIN trail[h] : c = trail[h][i]
      BY DEF Captures
    <3>. QED
      BY <3>1 DEF Construct, TrailsAsDescribed
  <2>2. CASE NotBegun
    <3>1. Captures = {}
      BY <2>2 DEF NotBegun, Captures
    <3>. QED
      BY <3>1 DEF RoundsAgree, CapturesOf
  <2>3. CASE Described
    <3> SUFFICES ASSUME NEW v \in Variables
                 PROVE  LET conditions == CapturesOf({"condition", "implicit"}, v)
                        IN  /\ \A c, d \in conditions : c.request = d.request
                            /\ \A c, d \in CapturesOf({"body"}, v) : c.request = d.request
                            /\ \A c \in conditions, d \in CapturesOf({"body", "otherwise"}, v) :
                                 d.request.scheduling \cup d.request.immediate
                                   \subseteq c.request.scheduling
      BY DEF RoundsAgree
    <3>1. \A c \in CapturesOf({"condition", "implicit"}, v) :
            c.request = details["condition"][v].request
      BY <2>1 DEF CapturesOf, BlockOf
    <3>2. \A c \in CapturesOf({"body"}, v) : c.request = details["body"][v].request
      BY <2>1 DEF CapturesOf, BlockOf
    <3>3. \A c \in CapturesOf({"body", "otherwise"}, v) :
            \E b \in {"body", "otherwise"} :
              v \in DOMAIN details[b] /\ c.request = details[b][v].request
      BY <2>1 DEF CapturesOf, BlockOf
    <3>4. \A b \in {"body", "otherwise"} : v \in DOMAIN details[b] =>
            details[b][v].request.scheduling \cup details[b][v].request.immediate
              \subseteq details["condition"][v].request.scheduling
      <4>1. \A b \in {"body", "otherwise"} : DOMAIN details[b] = mentions[b]
        BY <2>3 DEF Described, VariablesOf, Blocks
      <4>. QED
        BY <2>3, <4>1 DEF Described
    <3>. QED
      BY <3>1, <3>2, <3>3, <3>4
  <2>. QED
    BY <2>2, <2>3 DEF Construct, Phases, Waiting, Running, Undecided, Decided
<1>. QED
  BY <1>1, ConstructHolds, PTL

(***************************************************************************)
(* Which captures abort a program                                          *)
(*                                                                         *)
(* The theorem is about the uses a handle can have in a task or at the top *)
(* level, and about blocks that ask for no leaf captures: a leaf is what   *)
(* the static type of a handle asks for, and no block can capture from it. *)
(***************************************************************************)
SequentialUses ==
  {u \in [scheduling : {Read, Modify}, immediate : FrontEndPermissions] :
     u.immediate \subseteq u.scheduling}

SequentialPrograms ==
  /\ OuterUses \subseteq SequentialUses
  /\ \A p \in Programs : \A b \in Blocks, v \in Variables : "Leaf" \notin p.flags[b][v]

\* A condition reads or only schedules, and a body may schedule what it asks
\* for.
RequestsServed ==
  /\ \A v \in VariablesOf("condition") :
       details["condition"][v].request \in [scheduling : {Read, Modify}, immediate : {None, Read}]
  /\ \A b \in {"body", "otherwise"} : \A v \in mentions[b] :
       details[b][v].request \in SequentialUses

\* What the condition of round n captured schedules what it was asked to.
UsesReady(n) ==
  \A v \in VariablesOf("condition") :
    LET u == use[ConditionsHandle(n, v)]
    IN  /\ u.scheduling = details["condition"][v].request.scheduling
        /\ u.immediate \in {None, Read}

Served ==
  /\ SourcesOutliveCaptures
  /\ ~IsNew => RequestsServed
  /\ \A n \in Rounds : task[TaskOf("condition", n)] \in {"registered", "running"} => UsesReady(n)

\* The request that has no case.
InTheGap(source, request) == source.immediate = Modify /\ request = Perms(Read, None)

\* The table serves what a sequential use may schedule, but for the gap.
LEMMA ServedOrInTheGap ==
  ASSUME NEW source \in SequentialUses,
         NEW request \in [scheduling : {Read, Modify}, immediate : FrontEndPermissions],
         request.scheduling \cup request.immediate \subseteq source.scheduling,
         ~InTheGap(source, request)
  PROVE  CasesFor("Sequential", source, request) # {}
<1>1. /\ source = Perms(source.scheduling, source.immediate)
      /\ request = Perms(request.scheduling, request.immediate)
  BY DEF SequentialUses, Perms
<1> DEFINE a == source.scheduling
           i == source.immediate
           s == request.scheduling
           j == request.immediate
<1>2. /\ a \in {Read, Modify} /\ i \in FrontEndPermissions /\ i \subseteq a
      /\ s \in FrontEndPermissions /\ j \in FrontEndPermissions
      /\ s \subseteq a /\ j \subseteq a
      /\ s # None
  BY DEF SequentialUses, FrontEndPermissions, None, Read, Modify
<1>3. ~(i = Modify /\ s = Read /\ j = None)
  BY <1>1 DEF InTheGap
<1> HIDE DEF a, i, s, j
<1>4. CasesFor("Sequential", Perms(a, i), Perms(s, j)) # {}
  BY <1>2, <1>3, TableServes
<1>. QED
  BY <1>1, <1>4 DEF a, i, s, j

\* What a capture is aborted for, when its source has a holder and may
\* schedule what it asks for.
LEMMA OnlyTheGap ==
  ASSUME NEW holders, NEW ds, Abort(holders, ds),
         \A v \in DOMAIN ds :
           /\ holders[ds[v].source] # NoHandle
           /\ SourceUse(holders, ds[v]) \in SequentialUses
           /\ ds[v].request \in [scheduling : {Read, Modify}, immediate : FrontEndPermissions]
           /\ ds[v].request.scheduling \cup ds[v].request.immediate
                \subseteq SourceUse(holders, ds[v]).scheduling
  PROVE  SourcesOutliveCaptures'
<1>1. aborted' = {[source  |-> IF holders[d.source] = NoHandle THEN Unused
                                                               ELSE SourceUse(holders, d),
                   request |-> d.request] :
                    d \in {ds[v] : v \in {w \in DOMAIN ds : CasesOf(holders, ds[w]) = {}}}}
  BY DEF Abort
<1>2. ASSUME NEW v \in DOMAIN ds, CasesOf(holders, ds[v]) = {}
      PROVE  InTheGap(SourceUse(holders, ds[v]), ds[v].request)
  <2>1. CasesFor("Sequential", SourceUse(holders, ds[v]), ds[v].request) = {}
    BY <1>2 DEF CasesOf
  <2>. QED
    BY <2>1, ServedOrInTheGap
<1>3. ASSUME NEW a \in aborted' PROVE InTheGap(a.source, a.request)
  <2>1. PICK v \in DOMAIN ds :
          /\ CasesOf(holders, ds[v]) = {}
          /\ a = [source  |-> IF holders[ds[v].source] = NoHandle THEN Unused
                                                                  ELSE SourceUse(holders, ds[v]),
                  request |-> ds[v].request]
    BY <1>1
  <2>2. a.source = SourceUse(holders, ds[v]) /\ a.request = ds[v].request
    BY <2>1
  <2>. QED
    BY <1>2, <2>1, <2>2
<1>. QED
  BY <1>3 DEF SourcesOutliveCaptures, InTheGap

\* A capture takes from its source only what it touches at once, and gives
\* the captured handle what it asked for.
LEMMA UsesAfter ==
  ASSUME Typed, NEW holders, NEW ds, NEW gone,
         CanExecute(holders, ds), Execute(holders, ds, gone),
         \A v \in DOMAIN ds : ds[v].request \in PermissionPairs,
         NEW h \in Handles
  PROVE  IF IsCaptured(ds, h) THEN use'[h] = ds[h.variable].request
         ELSE /\ use'[h].scheduling = use[h].scheduling
              /\ use'[h].immediate \subseteq use[h].immediate
<1>1. use'[h] = IF IsCaptured(ds, h) THEN ds[h.variable].request
                ELSE IF IsSource(holders, ds, h)
                THEN ContinuingPermissions(
                       CHOOSE case \in CasesOf(holders, ds[h.variable]) : TRUE, use[h])
                ELSE use[h]
  BY DEF Execute
<1>2. use[h] \in PermissionPairs
  BY DEF Typed, TypeOK
<1>3. ASSUME IsSource(holders, ds, h), ~IsCaptured(ds, h)
      PROVE  /\ use'[h].scheduling = use[h].scheduling
             /\ use'[h].immediate \subseteq use[h].immediate
  <2> DEFINE d == ds[h.variable]
  <2>1. /\ h.variable \in DOMAIN ds /\ holders[d.source] = h /\ h # NoHandle
        /\ d.request \in PermissionPairs
    BY <1>3, HandleIsNamed DEF IsSource
  <2>2. CasesOf(holders, d) # {}
    BY <2>1 DEF CanExecute
  <2> HIDE DEF d
  <2>3. CasesOf(holders, d) = CasesFor("Sequential", use[h], d.request)
    BY <2>1 DEF CasesOf, SourceUse
  <2>4. PICK case \in CasesFor("Sequential", use[h], d.request) :
          use'[h] = ContinuingPermissions(case, use[h])
    BY <1>1, <1>3, <2>2, <2>3 DEF d
  <2>. QED
    BY <1>2, <2>1, <2>4, ContinuingTyped
<1>. QED
  BY <1>1, <1>3

\* What is asked for while the closures are built, and the uses it is asked
\* of.
LEMMA FirstRequestsServed ==
  ASSUME SequentialPrograms, Typed, NotBegun, NEW v \in VariablesOf("condition")
  PROVE  /\ use[Outer(v)] \in SequentialUses
         /\ MergedRequest(v) \in [scheduling : {Read, Modify}, immediate : {None, Read}]
         /\ MergedRequest(v).scheduling \cup MergedRequest(v).immediate
              \subseteq use[Outer(v)].scheduling
         /\ \A b \in {"body", "otherwise"} : BodyRequest(b, v) \in SequentialUses
<1>1. v \in Variables /\ Outer(v) \in UsersHandles
  BY VariablesMentioned DEF Blocks
<1>2. use[Outer(v)] \in SequentialUses
  BY <1>1 DEF NotBegun, SequentialPrograms
<1>3. SchedulingOf(v) = use[Outer(v)].scheduling /\ SchedulingOf(v) \in {Read, Modify}
  BY <1>2 DEF SchedulingOf, SequentialUses
<1>4. \A b \in Blocks : flags[b][v] \in SUBSET FrontEndFlags /\ "Leaf" \notin flags[b][v]
  BY <1>1 DEF SequentialPrograms, Typed, TypeOK
<1>5. ASSUME NEW b \in {"body", "otherwise"}
      PROVE  /\ BodyRequest(b, v) \in SequentialUses
             /\ BodyRequest(b, v).scheduling \cup BodyRequest(b, v).immediate
                  \subseteq SchedulingOf(v)
  <2>1. b \in Blocks
    BY DEF Blocks
  <2>2. LET request == BodyRequest(b, v)
        IN  /\ request \in [scheduling : FrontEndPermissions, immediate : FrontEndPermissions]
            /\ request.scheduling \subseteq SchedulingOf(v)
            /\ request.immediate \subseteq SchedulingOf(v)
            /\ request.scheduling # None
            /\ request.immediate \subseteq request.scheduling
    BY <1>3, <1>4, <2>1, FlagsOnlyRestrict DEF BodyRequest
  <2>. QED
    BY <2>2 DEF SequentialUses, FrontEndPermissions
<1> DEFINE own  == IF v \in mentions["condition"] THEN ConditionRequest(v) ELSE ImplicitRequest(v)
           need == UNION {BodyRequest(b, v).scheduling \cup BodyRequest(b, v).immediate :
                            b \in BodiesOf(v)}
<1>6. /\ ConditionRequest(v) \in [scheduling : {Read}, immediate : {None, Read}]
  <2>1. LET request == ConditionRequest(v)
        IN  /\ request \in [scheduling : FrontEndPermissions, immediate : FrontEndPermissions]
            /\ request.scheduling \subseteq Read
            /\ request.immediate \subseteq Read
            /\ request.scheduling # None
    BY <1>4, FlagsOnlyRestrict DEF ConditionRequest, Blocks
  <2>2. Modify \notin SUBSET Read
    BY DEF Modify, Read
  <2>. QED
    BY <2>1, <2>2 DEF FrontEndPermissions
<1>7. /\ ImplicitRequest(v) \in [scheduling : {Read, Modify}, immediate : {None}]
      /\ ImplicitRequest(v).scheduling \subseteq SchedulingOf(v)
  <2>1. {"ScheduleOnly"} \in SUBSET FrontEndFlags
    BY DEF FrontEndFlags, CaptureFlags
  <2>2. LET request == ImplicitRequest(v)
        IN  /\ request \in [scheduling : FrontEndPermissions, immediate : FrontEndPermissions]
            /\ request.scheduling \subseteq SchedulingOf(v)
            /\ request.scheduling # None
    BY <1>3, <2>1, FlagsOnlyRestrict DEF ImplicitRequest
  <2>3. ImplicitRequest(v).immediate = None
    BY DEF ImplicitRequest, RequestedPermissions, DefaultRequest, Perms
  <2>. QED
    BY <2>2, <2>3 DEF FrontEndPermissions
<1>8. /\ own \in [scheduling : {Read, Modify}, immediate : {None, Read}]
      /\ own.scheduling \subseteq SchedulingOf(v)
  <2>1. Read \subseteq SchedulingOf(v)
    BY <1>3 DEF Read, Modify
  <2>. QED
    BY <1>6, <1>7, <2>1
<1>9. need \subseteq SchedulingOf(v)
  BY <1>5 DEF BodiesOf
<1>10. MergedRequest(v) = [own EXCEPT !.scheduling = own.scheduling \cup need \cup None]
  BY DEF MergedRequest, RequireAbilityToSchedule, Perms
<1> HIDE DEF own, need
<1>11. /\ MergedRequest(v).scheduling = own.scheduling \cup need \cup None
       /\ MergedRequest(v).immediate = own.immediate
       /\ MergedRequest(v) \in [scheduling : {own.scheduling \cup need \cup None},
                                immediate : {own.immediate}]
  BY <1>8, <1>10
<1>12. /\ own.scheduling \cup need \cup None \in {Read, Modify}
       /\ own.scheduling \cup need \cup None \subseteq SchedulingOf(v)
       /\ own.immediate \in {None, Read} /\ own.immediate \subseteq SchedulingOf(v)
  BY <1>3, <1>8, <1>9 DEF Read, Modify, None
<1>. QED
  BY <1>2, <1>3, <1>5, <1>11, <1>12

\* What a condition captured serves its bodies and the next condition.
LEMMA ReadyUses ==
  ASSUME Typed, NEW n \in Rounds, RequestsServed, UsesReady(n), NEW v \in VariablesOf("condition")
  PROVE  /\ use[ConditionsHandle(n, v)] \in SequentialUses
         /\ use[ConditionsHandle(n, v)].scheduling = details["condition"][v].request.scheduling
         /\ details["condition"][v].request \in [scheduling : {Read, Modify}, immediate : {None, Read}]
<1>1. use[ConditionsHandle(n, v)] \in PermissionPairs
  BY ConditionsHandleShape DEF Typed, TypeOK
<1>2. /\ use[ConditionsHandle(n, v)].scheduling = details["condition"][v].request.scheduling
      /\ use[ConditionsHandle(n, v)].immediate \in {None, Read}
  BY DEF UsesReady
<1>3. details["condition"][v].request \in [scheduling : {Read, Modify}, immediate : {None, Read}]
  BY DEF RequestsServed
<1> DEFINE u == use[ConditionsHandle(n, v)]
<1> HIDE DEF u
<1>4. u \in PermissionPairs /\ u.scheduling \in {Read, Modify} /\ u.immediate \in {None, Read}
  BY <1>1, <1>2, <1>3 DEF u
<1>5. u \in SequentialUses
  BY <1>4 DEF SequentialUses, PermissionPairs, FrontEndPermissions, None, Read, Modify
<1>. QED
  BY <1>2, <1>3, <1>5 DEF u

\* No body and no later condition is what a program is aborted for; the
\* first condition is, if it asks for what has no case.
LEMMA AbortsInTheGap ==
  ASSUME SequentialPrograms, Construct, Served,
         CreateWhileAborts \/ IfAborts \/ \E n \in Rounds : IterationAborts(n)
  PROVE  SourcesOutliveCaptures'
<1>1. Typed
  BY DEF Construct
<1>2. "condition" \in Blocks /\ "body" \in Blocks /\ "otherwise" \in Blocks
  BY DEF Blocks
<1>3. ASSUME NotBegun, NEW ds, Abort(WithImplicitCopies, ds),
             \A v \in DOMAIN ds : /\ v \in VariablesOf("condition")
                                  /\ WithImplicitCopies[ds[v].source] = Outer(v)
                                  /\ ds[v].request = MergedRequest(v)
      PROVE  SourcesOutliveCaptures'
  <2>1. ASSUME NEW v \in DOMAIN ds
        PROVE  /\ WithImplicitCopies[ds[v].source] # NoHandle
               /\ SourceUse(WithImplicitCopies, ds[v]) \in SequentialUses
               /\ ds[v].request \in [scheduling : {Read, Modify}, immediate : FrontEndPermissions]
               /\ ds[v].request.scheduling \cup ds[v].request.immediate
                    \subseteq SourceUse(WithImplicitCopies, ds[v]).scheduling
    <3>1. /\ v \in VariablesOf("condition")
          /\ WithImplicitCopies[ds[v].source] = Outer(v)
          /\ ds[v].request = MergedRequest(v)
          /\ SourceUse(WithImplicitCopies, ds[v]) = use[Outer(v)]
      BY <1>3 DEF SourceUse
    <3>2. /\ use[Outer(v)] \in SequentialUses
          /\ MergedRequest(v) \in [scheduling : {Read, Modify}, immediate : {None, Read}]
          /\ MergedRequest(v).scheduling \cup MergedRequest(v).immediate
               \subseteq use[Outer(v)].scheduling
      BY <1>1, <1>3, <3>1, FirstRequestsServed
    <3>3. Outer(v) # NoHandle
      BY <1>1, <1>3, <3>1, FirstHolders, HandleIsNamed
    <3>. QED
      BY <3>1, <3>2, <3>3 DEF FrontEndPermissions
  <2>. QED
    BY <1>3, <2>1, OnlyTheGap
<1>4. ASSUME NEW n \in Rounds, Described, CapturedUpTo(n), RequestsServed, UsesReady(n),
             NEW ds, Abort(holder, ds),
             \A v \in DOMAIN ds :
               /\ v \in VariablesOf("condition")
               /\ ds[v].source = ConditionsHandle(n, v)
               /\ ds[v].request \in [scheduling : {Read, Modify}, immediate : FrontEndPermissions]
               /\ ds[v].request.scheduling \cup ds[v].request.immediate
                    \subseteq details["condition"][v].request.scheduling
      PROVE  SourcesOutliveCaptures'
  <2>1. ASSUME NEW v \in DOMAIN ds
        PROVE  /\ holder[ds[v].source] # NoHandle
               /\ SourceUse(holder, ds[v]) \in SequentialUses
               /\ ds[v].request \in [scheduling : {Read, Modify}, immediate : FrontEndPermissions]
               /\ ds[v].request.scheduling \cup ds[v].request.immediate
                    \subseteq SourceUse(holder, ds[v]).scheduling
    <3>1. v \in VariablesOf("condition") /\ ds[v].source = ConditionsHandle(n, v)
      BY <1>4
    <3>2. /\ holder[ConditionsHandle(n, v)] = ConditionsHandle(n, v)
          /\ ConditionsHandle(n, v) # NoHandle
      BY <1>1, <1>4, <3>1, ConditionsHandleShape DEF CapturedUpTo
    <3>3. /\ use[ConditionsHandle(n, v)] \in SequentialUses
          /\ use[ConditionsHandle(n, v)].scheduling = details["condition"][v].request.scheduling
      BY <1>1, <1>4, <3>1, ReadyUses
    <3>4. SourceUse(holder, ds[v]) = use[ConditionsHandle(n, v)]
      BY <3>1, <3>2 DEF SourceUse
    <3>. QED
      BY <1>4, <3>1, <3>2, <3>3, <3>4
  <2>. QED
    BY <1>4, <2>1, OnlyTheGap
<1>5. ASSUME NEW n \in Rounds, task[TaskOf("condition", n)] = "registered",
             NEW b \in {"body", "otherwise"}, Abort(holder, details[b])
      PROVE  SourcesOutliveCaptures'
  <2>1. Described /\ CapturedUpTo(n) /\ DescribesRound(details, n)
    <3>1. Waiting(n) \/ Undecided
      BY <1>1, <1>5, PhaseOfRegistered DEF Typed, TypeOK, Constructs
    <3>2. ASSUME Undecided PROVE n = 0
      <4>1. n # 0 => n > 0
        BY RoundsAreNumbers
      <4>2. n > 0 => task[TaskOf("condition", n)] = "unborn"
        BY <1>2, <3>2 DEF Undecided
      <4>. QED
        BY <1>5, <4>1, <4>2
    <3>. QED
      BY <3>1, <3>2 DEF Waiting, Undecided
  <2>2. RequestsServed /\ UsesReady(n)
    BY <1>2, <1>5, TaskShape DEF Served, IsNew
  <2> DEFINE ds == details[b]
  <2>3. ASSUME NEW v \in DOMAIN ds
        PROVE  /\ v \in VariablesOf("condition")
               /\ ds[v].source = ConditionsHandle(n, v)
               /\ ds[v].request \in [scheduling : {Read, Modify}, immediate : FrontEndPermissions]
               /\ ds[v].request.scheduling \cup ds[v].request.immediate
                    \subseteq details["condition"][v].request.scheduling
    <3>1. v \in mentions[b] /\ v \in VariablesOf("condition")
      BY <1>1, <1>2, <2>1, VariablesMentioned DEF Described
    <3>2. ds[v].request \in SequentialUses
      BY <2>2, <3>1 DEF RequestsServed
    <3>. QED
      BY <2>1, <3>1, <3>2 DEF DescribesRound, Described, SequentialUses
  <2>4. Abort(holder, ds)
    BY <1>5
  <2> HIDE DEF ds
  <2>. QED
    BY <1>4, <2>1, <2>2, <2>3, <2>4
<1>6. ASSUME NEW n \in Rounds, Running(n), Abort(holder, WithNextImplicit(details)["condition"])
      PROVE  SourcesOutliveCaptures'
  <2>1. Described /\ CapturedUpTo(n) /\ task[TaskOf("condition", n)] = "running"
    BY <1>6 DEF Running
  <2>2. RequestsServed /\ UsesReady(n)
    BY <1>2, <2>1, TaskShape DEF Served, IsNew
  <2>3. DetailsFor(details)
    BY <1>1, <2>1 DEF DetailsFor, Described, Typed, TypeOK
  <2>4. \A v \in ImplicitVariables : implicit[v] <= MaxIterations
    BY <1>6, RoundsAreNumbers DEF Running
  <2> DEFINE ds == WithNextImplicit(details)["condition"]
  <2>5. ASSUME NEW v \in DOMAIN ds
        PROVE  /\ v \in VariablesOf("condition")
               /\ ds[v].source = ConditionsHandle(n, v)
               /\ ds[v].request = details["condition"][v].request
    <3>1. v \in VariablesOf("condition")
      BY <1>1, <1>2, <2>3, <2>4, NextImplicitShape DEF DetailsFor
    <3>. QED
      BY <1>1, <1>2, <1>6, <2>3, <2>4, <3>1, NextImplicitShape DEF Running
  <2>6. Abort(holder, ds)
    BY <1>6
  <2> HIDE DEF ds
  <2>7. ASSUME NEW v \in DOMAIN ds
        PROVE  /\ ds[v].request \in [scheduling : {Read, Modify}, immediate : FrontEndPermissions]
               /\ ds[v].request.scheduling \cup ds[v].request.immediate
                    \subseteq details["condition"][v].request.scheduling
    <3>1. details["condition"][v].request \in [scheduling : {Read, Modify}, immediate : {None, Read}]
      BY <2>2, <2>5 DEF RequestsServed
    <3> DEFINE r == details["condition"][v].request
    <3> HIDE DEF r
    <3>2. r \in [scheduling : {Read, Modify}, immediate : {None, Read}]
      BY <3>1 DEF r
    <3>3. /\ r \in [scheduling : {Read, Modify}, immediate : FrontEndPermissions]
          /\ r.scheduling \cup r.immediate \subseteq r.scheduling
      BY <3>2 DEF FrontEndPermissions, None, Read, Modify
    <3>. QED
      BY <2>5, <3>3 DEF r
  <2>. QED
    BY <1>4, <2>1, <2>2, <2>5, <2>6, <2>7
<1>7. CASE CreateWhileAborts
  <2>1. /\ construct = "while" /\ IsNew
        /\ Abort(WithImplicitCopies, WithNextImplicit(FirstDetails)["condition"])
    BY <1>7 DEF CreateWhileAborts
  <2>2. NotBegun
    BY <2>1, PhaseOfNew
  <2> DEFINE ds == WithNextImplicit(FirstDetails)["condition"]
  <2>3. ASSUME NEW v \in DOMAIN ds
        PROVE  /\ v \in VariablesOf("condition")
               /\ WithImplicitCopies[ds[v].source] = Outer(v)
               /\ ds[v].request = MergedRequest(v)
    <3>1. v \in VariablesOf("condition")
      BY <1>1, <1>2, <2>1, <2>2, LoopDescribed DEF DetailsFor
    <3>2. FirstDetails["condition"][v].request = MergedRequest(v)
      BY <1>1, <3>1, FirstDetailsShape
    <3>. QED
      BY <1>1, <1>2, <2>1, <2>2, <3>1, <3>2, LoopDescribed
  <2>4. Abort(WithImplicitCopies, ds)
    BY <2>1
  <2> HIDE DEF ds
  <2>. QED
    BY <1>3, <2>2, <2>3, <2>4
<1>8. CASE IfAborts
  <2>1. CASE IsNew /\ Abort(WithImplicitCopies, FirstDetails["condition"])
    <3>1. NotBegun
      BY <2>1, PhaseOfNew
    <3> DEFINE ds == FirstDetails["condition"]
    <3>2. ASSUME NEW v \in DOMAIN ds
          PROVE  /\ v \in VariablesOf("condition")
                 /\ WithImplicitCopies[ds[v].source] = Outer(v)
                 /\ ds[v].request = MergedRequest(v)
      <4>1. v \in VariablesOf("condition")
        BY <1>1, <1>2, FirstDetailsShape
      <4>. QED
        BY <1>1, <3>1, <4>1, FirstDetailsShape, FirstHolders
    <3>3. Abort(WithImplicitCopies, ds)
      BY <2>1
    <3> HIDE DEF ds
    <3>. QED
      BY <1>3, <3>1, <3>2, <3>3
  <2>2. CASE /\ construct = "if" /\ task[TaskOf("condition", 0)] = "registered"
             /\ \E b \in {"body", "otherwise"} : Abort(holder, details[b])
    BY <1>5, <2>2, RoundsAreNumbers
  <2>. QED
    BY <1>8, <2>1, <2>2 DEF IfAborts
<1>9. CASE \E n \in Rounds : IterationAborts(n)
  <2>1. PICK m \in Rounds : IterationAborts(m)
    BY <1>9
  <2>2. CASE /\ construct = "while" /\ task[TaskOf("condition", m)] = "registered"
             /\ Abort(holder, details["body"])
    BY <1>5, <2>1, <2>2
  <2>3. CASE /\ construct = "while" /\ task[TaskOf("condition", m)] = "running"
             /\ Abort(holder, WithNextImplicit(details)["condition"])
    BY <1>6, <2>3, PhaseOfRunning
  <2>. QED
    BY <2>1, <2>2, <2>3 DEF IterationAborts
<1>. QED
  BY <1>7, <1>8, <1>9

\* What the handles of a later round need is there whatever the rounds do.
LEMMA ServedPreserved ==
  ASSUME SequentialPrograms, Construct, Served, [Next]_vars
  PROVE  Served'
<1>1. Typed /\ ("condition" \in Blocks /\ "body" \in Blocks /\ "otherwise" \in Blocks)
  BY DEF Construct, Blocks
<1>2. \A n \in Rounds, b \in Blocks : TaskOf(b, n) \in Tasks
  BY TaskShape
<1>3. task \in [Tasks -> TaskStates]
  BY <1>1 DEF Typed, TypeOK, TaskStates
<1>4. ASSUME UNCHANGED program
      PROVE  /\ VariablesOf("condition")' = VariablesOf("condition") /\ mentions' = mentions
             /\ \A n, v : ConditionsHandle(n, v)' = ConditionsHandle(n, v)
  BY <1>4, NamesKept
\* Nothing is captured, and no condition is registered or starts.
<1>5. ASSUME UNCHANGED <<program, details, use>>, SourcesOutliveCaptures',
             \A t \in Tasks : task'[t] \in {"registered", "running"} => task[t] = task'[t],
             IsNew => IsNew'
      PROVE  Served'
  <2>1. /\ VariablesOf("condition")' = VariablesOf("condition") /\ mentions' = mentions
        /\ \A n, v : ConditionsHandle(n, v)' = ConditionsHandle(n, v)
    BY <1>4, <1>5
  <2>2. RequestsServed' <=> RequestsServed
    BY <1>5, <2>1 DEF RequestsServed
  <2>3. \A n \in Rounds : UsesReady(n)' <=> UsesReady(n)
    BY <1>5, <2>1 DEF UsesReady
  <2>4. \A n \in Rounds : task'[TaskOf("condition", n)] \in {"registered", "running"} =>
          task[TaskOf("condition", n)] \in {"registered", "running"}
    BY <1>1, <1>2, <1>5
  <2>. QED
    BY <1>5, <2>2, <2>3, <2>4 DEF Served
\* The first condition is captured.
<1>6. ASSUME NotBegun, UNCHANGED program, UNCHANGED aborted,
             NEW ds, NEW gone, DetailsFor(ds), details' = ds,
             \A b \in Blocks : \A v \in VariablesOf(b) :
               ds[b][v].request = FirstDetails[b][v].request,
             \A v \in VariablesOf("condition") : ds["condition"][v].captured = ConditionsHandle(0, v),
             CanExecute(WithImplicitCopies, ds["condition"]),
             Execute(WithImplicitCopies, ds["condition"], gone),
             \A n \in Rounds : n # 0 => task'[TaskOf("condition", n)] = "unborn"
      PROVE  Served'
  <2>1. /\ VariablesOf("condition")' = VariablesOf("condition") /\ mentions' = mentions
        /\ \A n, v : ConditionsHandle(n, v)' = ConditionsHandle(n, v)
    BY <1>4, <1>6
  <2>2. ASSUME NEW v \in VariablesOf("condition")
        PROVE  /\ ds["condition"][v].request = MergedRequest(v)
               /\ MergedRequest(v) \in [scheduling : {Read, Modify}, immediate : {None, Read}]
    BY <1>1, <1>6, FirstDetailsShape, FirstRequestsServed
  <2>3. ASSUME NEW b \in {"body", "otherwise"}, NEW v \in mentions[b]
        PROVE  ds[b][v].request \in SequentialUses
    <3>1. v \in VariablesOf(b) /\ v \in VariablesOf("condition") /\ b \in Blocks
      BY <1>1, VariablesMentioned
    <3>2. ds[b][v].request = BodyRequest(b, v)
      BY <1>1, <1>6, <3>1, FirstDetailsShape
    <3>. QED
      BY <1>1, <1>6, <3>1, <3>2, FirstRequestsServed
  <2>4. RequestsServed'
    BY <1>6, <2>1, <2>2, <2>3 DEF RequestsServed
  <2>5. UsesReady(0)'
    <3> DEFINE cs == ds["condition"]
    <3>1. DOMAIN cs = VariablesOf("condition") /\ CanExecute(WithImplicitCopies, cs)
          /\ Execute(WithImplicitCopies, cs, gone)
      BY <1>1, <1>6 DEF DetailsFor
    <3>2. \A v \in VariablesOf("condition") : cs[v].request \in PermissionPairs
      BY <1>1, <1>6 DEF DetailsFor, Permitted
    <3>3. \A v \in VariablesOf("condition") : IsCaptured(cs, ConditionsHandle(0, v))
                                              /\ ConditionsHandle(0, v) \in Handles
                                              /\ ConditionsHandle(0, v).variable = v
      BY <1>1, <1>6, <3>1, ConditionsHandleShape, RoundsAreNumbers DEF IsCaptured
    <3>4. \A v \in VariablesOf("condition") :
            cs[v].request = MergedRequest(v) /\ cs[v].request.immediate \in {None, Read}
      BY <2>2
    <3>5. details'["condition"] = cs
      BY <1>6
    <3> HIDE DEF cs
    <3>6. \A v \in VariablesOf("condition") : use'[ConditionsHandle(0, v)] = cs[v].request
      BY <1>1, <3>1, <3>2, <3>3, UsesAfter
    <3>. QED
      BY <2>1, <3>4, <3>5, <3>6 DEF UsesReady
  <2>6. SourcesOutliveCaptures'
    BY <1>6 DEF Served, SourcesOutliveCaptures
  <2>. QED
    BY <1>6, <2>4, <2>5, <2>6 DEF Served
\* Later captures: what a condition or a body asks for is what it was, and a
\* round that goes on has what its condition captured.
<1>7. ASSUME ~IsNew, UNCHANGED program, UNCHANGED aborted,
             NEW ds, NEW gone, DOMAIN ds \subseteq VariablesOf("condition"),
             Described, CanExecute(holder, ds), Execute(holder, ds, gone),
             \A b \in Blocks : \A v \in VariablesOf(b) :
               details'[b][v].request = details[b][v].request,
             \A v \in DOMAIN ds : ds[v].request \in PermissionPairs,
             \A n \in Rounds : task'[TaskOf("condition", n)] \in {"registered", "running"} =>
               \A v \in VariablesOf("condition") :
                 \/ /\ IsCaptured(ds, ConditionsHandle(n, v))
                    /\ ds[v].request = details["condition"][v].request
                 \/ /\ ~IsCaptured(ds, ConditionsHandle(n, v))
                    /\ task[TaskOf("condition", n)] \in {"registered", "running"}
      PROVE  Served'
  <2>1. /\ VariablesOf("condition")' = VariablesOf("condition") /\ mentions' = mentions
        /\ \A n, v : ConditionsHandle(n, v)' = ConditionsHandle(n, v)
    BY <1>4, <1>7
  <2>2. RequestsServed
    BY <1>7 DEF Served
  <2>3. RequestsServed'
    BY <1>1, <1>7, <2>1, <2>2, VariablesMentioned DEF RequestsServed
  <2>4. ASSUME NEW n \in Rounds, task'[TaskOf("condition", n)] \in {"registered", "running"},
               NEW v \in VariablesOf("condition")
        PROVE  /\ use'[ConditionsHandle(n, v)].scheduling = details["condition"][v].request.scheduling
               /\ use'[ConditionsHandle(n, v)].immediate \in {None, Read}
    <3> DEFINE h == ConditionsHandle(n, v)
    <3>1. h \in Handles /\ h.variable = v
      BY <1>1, ConditionsHandleShape
    <3>2. \/ IsCaptured(ds, h) /\ ds[v].request = details["condition"][v].request
          \/ ~IsCaptured(ds, h) /\ task[TaskOf("condition", n)] \in {"registered", "running"}
      BY <1>7, <2>4
    <3> HIDE DEF h
    <3>3. IF IsCaptured(ds, h) THEN use'[h] = ds[h.variable].request
          ELSE /\ use'[h].scheduling = use[h].scheduling
               /\ use'[h].immediate \subseteq use[h].immediate
      BY <1>1, <1>7, <3>1, UsesAfter
    <3>4. CASE IsCaptured(ds, h)
      BY <2>2, <3>1, <3>2, <3>3, <3>4 DEF RequestsServed, h
    <3>5. CASE ~IsCaptured(ds, h)
      <4>1. UsesReady(n)
        BY <3>2, <3>5 DEF Served
      <4>2. /\ use[h].scheduling = details["condition"][v].request.scheduling
            /\ use[h].immediate \in {None, Read}
        BY <4>1 DEF UsesReady, h
      <4>3. use'[h].immediate \in {None, Read}
        BY <3>3, <3>5, <4>2 DEF None, Read
      <4>. QED
        BY <3>3, <3>5, <4>2, <4>3 DEF h
    <3>. QED
      BY <3>4, <3>5
  <2>5. \A n \in Rounds : task'[TaskOf("condition", n)] \in {"registered", "running"} => UsesReady(n)'
    BY <1>1, <1>7, <2>1, <2>4 DEF UsesReady
  <2>6. SourcesOutliveCaptures'
    BY <1>7 DEF Served, SourcesOutliveCaptures
  <2>. QED
    BY <2>3, <2>5, <2>6 DEF Served
<1>8. CASE CreateWhile
  <2> DEFINE ds == WithNextImplicit(FirstDetails)
  <2>1. /\ construct = "while" /\ IsNew
        /\ CanExecute(WithImplicitCopies, ds["condition"])
        /\ Execute(WithImplicitCopies, ds["condition"], ReplacedImplicit)
        /\ details' = ds
        /\ task' = [task EXCEPT ![TaskOf("condition", 0)] = "registered",
                                ![TaskOf("body", 0)] = "built"]
        /\ UNCHANGED program /\ UNCHANGED aborted
    BY <1>8 DEF CreateWhile, ExecuteWhileCaptures
  <2>2. NotBegun
    BY <2>1, PhaseOfNew
  <2>3. /\ DetailsFor(ds)
        /\ \A b \in Blocks : \A v \in VariablesOf(b) : ds[b][v].request = FirstDetails[b][v].request
        /\ \A v \in VariablesOf("condition") : ds["condition"][v].captured = ConditionsHandle(0, v)
    BY <1>1, <2>1, <2>2, LoopDescribed
  <2>4. \A n \in Rounds : n # 0 => task'[TaskOf("condition", n)] = "unborn"
    BY <1>1, <1>2, <1>3, <2>1, TaskShape, RoundsAreNumbers DEF IsNew
  <2> HIDE DEF ds
  <2>. QED
    BY <1>6, <2>1, <2>2, <2>3, <2>4
<1>9. CASE CreateIf
  <2>1. /\ construct = "if" /\ IsNew
        /\ CanExecute(WithImplicitCopies, FirstDetails["condition"])
        /\ Execute(WithImplicitCopies, FirstDetails["condition"], {})
        /\ details' = FirstDetails
        /\ task' = [task EXCEPT ![TaskOf("condition", 0)] = "registered",
                                ![TaskOf("body", 0)] = "built",
                                ![TaskOf("otherwise", 0)] = "built"]
        /\ UNCHANGED program /\ UNCHANGED aborted
    BY <1>9 DEF CreateIf
  <2>2. NotBegun
    BY <2>1, PhaseOfNew
  <2>3. /\ DetailsFor(FirstDetails)
        /\ \A v \in VariablesOf("condition") :
             FirstDetails["condition"][v].captured = ConditionsHandle(0, v)
    <3>1. \A v \in VariablesOf("condition") : ConditionHandle(v) = ConditionsHandle(0, v)
      BY <2>1 DEF ConditionHandle, ConditionsHandle
    <3>. QED
      BY <1>1, <3>1, FirstDetailsShape DEF DetailsFor
  <2>4. \A n \in Rounds : n # 0 => task'[TaskOf("condition", n)] = "unborn"
    BY <1>1, <1>2, <1>3, <2>1, TaskShape, RoundsAreNumbers DEF IsNew
  <2>5. \A b \in Blocks : \A v \in VariablesOf(b) : FirstDetails[b][v].request = FirstDetails[b][v].request
    OBVIOUS
  <2> DEFINE ds == FirstDetails
  <2>6. /\ CanExecute(WithImplicitCopies, ds["condition"])
        /\ Execute(WithImplicitCopies, ds["condition"], {})
        /\ details' = ds /\ DetailsFor(ds)
        /\ \A b \in Blocks : \A v \in VariablesOf(b) : ds[b][v].request = FirstDetails[b][v].request
        /\ \A v \in VariablesOf("condition") : ds["condition"][v].captured = ConditionsHandle(0, v)
    BY <2>1, <2>3, <2>5
  <2> HIDE DEF ds
  <2>. QED
    BY <1>6, <2>1, <2>2, <2>4, <2>6
<1>10. ASSUME NEW n \in Rounds, BeginIteration(n) PROVE Served'
  <2> DEFINE ds == details["body"]
  <2>1. /\ construct = "while" /\ task[TaskOf("condition", n)] = "registered"
        /\ n < MaxIterations
        /\ CanExecute(holder, ds) /\ Execute(holder, ds, {})
        /\ details' = Recaptured(details, n + 1)
        /\ task' = [task EXCEPT ![TaskOf("condition", n)] = "running",
                                ![TaskOf("body", n)] = "registered",
                                ![TaskOf("condition", n + 1)] = "built",
                                ![TaskOf("body", n + 1)] = "built"]
        /\ UNCHANGED program /\ UNCHANGED aborted
    BY <1>10 DEF BeginIteration
  <2>2. Waiting(n)
    BY <2>1, PhaseOfRegistered
  <2>3. Described /\ DescribesRound(details, n)
    BY <2>2 DEF Waiting
  <2>4. n + 1 \in Rounds /\ n + 1 \in 0 .. (MaxIterations + 1)
    BY <2>1, RoundsAreNumbers
  <2>5. DetailsFor(details)
    BY <1>1, <2>3 DEF DetailsFor, Described, Typed, TypeOK
  <2>6. \A b \in Blocks : \A v \in VariablesOf(b) : details'[b][v].request = details[b][v].request
    BY <1>1, <2>1, <2>4, <2>5, RecapturedShape
  <2>7. /\ DOMAIN ds = mentions["body"] /\ DOMAIN ds \subseteq VariablesOf("condition")
        /\ \A v \in DOMAIN ds : ds[v].request \in PermissionPairs
        /\ \A v \in DOMAIN ds : ds[v].captured = Handle("body", n, v)
    BY <1>1, <2>3, <2>5, VariablesMentioned DEF DetailsFor, Permitted, DescribesRound
  <2> HIDE DEF ds
  <2>8. ASSUME NEW m \in Rounds, task'[TaskOf("condition", m)] \in {"registered", "running"}
        PROVE  task[TaskOf("condition", m)] \in {"registered", "running"}
    BY <1>1, <1>2, <1>3, <2>1, <2>4, <2>8, TaskShape
  <2>9. ASSUME NEW m \in Rounds, NEW v \in VariablesOf("condition")
        PROVE  ~IsCaptured(ds, ConditionsHandle(m, v))
    <3>1. /\ ConditionsHandle(m, v).variable = v
          /\ ConditionsHandle(m, v).place \in {"condition", "implicit"}
      BY <1>1, ConditionsHandleShape
    <3>2. v \in DOMAIN ds => ds[v].captured.place = "body"
      <4>1. \A w \in DOMAIN ds : Handle("body", n, w).place = "body"
        BY DEF Handle
      <4>. QED
        BY <2>7, <4>1
    <3>. QED
      BY <3>1, <3>2 DEF IsCaptured
  <2>10. ~IsNew
    BY <1>1, <1>2, <2>1 DEF IsNew
  <2>. QED
    BY <1>7, <2>1, <2>3, <2>6, <2>7, <2>8, <2>9, <2>10
<1>11. ASSUME NEW n \in Rounds, NextIteration(n) PROVE Served'
  <2> DEFINE ds == WithNextImplicit(details)["condition"]
  <2>1. /\ construct = "while" /\ task[TaskOf("condition", n)] = "running"
        /\ CanExecute(holder, ds) /\ Execute(holder, ds, ReplacedImplicit)
        /\ details' = WithNextImplicit(details)
        /\ task' = [task EXCEPT ![TaskOf("condition", n)] = "returned",
                                ![TaskOf("condition", n + 1)] = "registered"]
        /\ UNCHANGED program /\ UNCHANGED aborted
    BY <1>11 DEF NextIteration, ExecuteWhileCaptures
  <2>2. Running(n)
    BY <2>1, PhaseOfRunning
  <2>3. /\ Described /\ RoundsBefore(n) /\ RoundsAfter(n + 1)
        /\ DescribesRound(WithNextImplicit(details), n + 1)
        /\ n < MaxIterations
    BY <2>2 DEF Running
  <2>4. /\ n + 1 \in Rounds /\ n \in Nat
    BY <2>3, RoundsAreNumbers
  <2>5. DetailsFor(details)
    BY <1>1, <2>3 DEF DetailsFor, Described, Typed, TypeOK
  <2>6. \A v \in ImplicitVariables : implicit[v] <= MaxIterations
    BY <2>2, RoundsAreNumbers DEF Running
  <2>7. /\ DetailsFor(WithNextImplicit(details))
        /\ \A b \in Blocks : \A v \in VariablesOf(b) :
             WithNextImplicit(details)[b][v].request = details[b][v].request
    BY <1>1, <2>5, <2>6, NextImplicitShape
  <2>8. /\ DOMAIN ds = VariablesOf("condition")
        /\ \A v \in DOMAIN ds : ds[v].request \in PermissionPairs
        /\ \A v \in DOMAIN ds : ds[v].request = details["condition"][v].request
        /\ \A v \in DOMAIN ds : ds[v].captured = ConditionsHandle(n + 1, v)
    BY <1>1, <2>3, <2>7 DEF DetailsFor, Permitted, DescribesRound
  <2> HIDE DEF ds
  <2>9. ASSUME NEW m \in Rounds, task'[TaskOf("condition", m)] \in {"registered", "running"}
        PROVE  m = n + 1
    <3>1. m \in Nat
      BY RoundsAreNumbers
    <3>2. CASE m < n
      <4>1. task'[TaskOf("condition", m)] = task[TaskOf("condition", m)]
        BY <1>1, <1>2, <1>3, <2>1, <2>4, <3>2, TaskShape
      <4>. QED
        BY <2>3, <2>9, <3>2, <4>1 DEF RoundsBefore
    <3>3. CASE m = n
      <4>1. TaskOf("condition", n) # TaskOf("condition", n + 1)
        BY <1>1, <2>4, TaskShape
      <4>. QED
        BY <1>1, <1>2, <1>3, <2>1, <2>4, <2>9, <3>3, <4>1
    <3>4. CASE m > n + 1
      <4>1. task'[TaskOf("condition", m)] = task[TaskOf("condition", m)]
        BY <1>1, <1>2, <1>3, <2>1, <2>4, <3>1, <3>4, TaskShape
      <4>. QED
        BY <2>3, <2>9, <3>4, <4>1 DEF RoundsAfter
    <3>. QED
      BY <2>4, <3>1, <3>2, <3>3, <3>4
  <2>10. \A v \in VariablesOf("condition") : IsCaptured(ds, ConditionsHandle(n + 1, v))
    BY <1>1, <2>4, <2>8, ConditionsHandleShape DEF IsCaptured
  <2>11. ~IsNew
    BY <1>1, <1>2, <2>1 DEF IsNew
  <2>12. \A b \in Blocks : \A v \in VariablesOf(b) : details'[b][v].request = details[b][v].request
    BY <2>1, <2>7
  <2>13. ASSUME NEW m \in Rounds, task'[TaskOf("condition", m)] \in {"registered", "running"},
                NEW v \in VariablesOf("condition")
         PROVE  /\ IsCaptured(ds, ConditionsHandle(m, v))
                /\ ds[v].request = details["condition"][v].request
    <3>1. m = n + 1
      BY <2>9, <2>13
    <3>. QED
      BY <2>8, <2>10, <3>1
  <2>. QED
    BY <1>7, <2>1, <2>3, <2>8, <2>11, <2>12, <2>13
<1>12. ASSUME NEW b \in {"body", "otherwise"}, RunIf(b) PROVE Served'
  <2> DEFINE ds == details[b]
  <2>1. /\ construct = "if" /\ task[TaskOf("condition", 0)] = "registered"
        /\ CanExecute(holder, ds) /\ Execute(holder, ds, ManagersHandles)
        /\ task' = [task EXCEPT ![TaskOf("condition", 0)] = "returned",
                                ![TaskOf(b, 0)] = "registered",
                                ![TaskOf(OtherBody(b), 0)] = "discarded"]
        /\ UNCHANGED program /\ UNCHANGED details /\ UNCHANGED aborted
    BY <1>12 DEF RunIf
  <2>2. Undecided /\ 0 \in Rounds
    BY <2>1, PhaseOfRegistered, RoundsAreNumbers
  <2>3. Described
    BY <2>2 DEF Undecided
  <2>4. /\ b \in Blocks /\ OtherBody(b) \in Blocks /\ b # "condition" /\ OtherBody(b) # "condition"
    BY <1>1 DEF OtherBody
  <2>5. /\ DOMAIN ds \subseteq VariablesOf("condition")
        /\ \A v \in DOMAIN ds : ds[v].request \in PermissionPairs
    BY <1>1, <2>3, <2>4, VariablesMentioned DEF Described, Typed, TypeOK, Permitted
  <2>6. ASSUME NEW m \in Rounds
        PROVE  task'[TaskOf("condition", m)] \notin {"registered", "running"}
    <3>0. /\ TaskOf("condition", m) # TaskOf(b, 0)
          /\ TaskOf("condition", m) # TaskOf(OtherBody(b), 0)
          /\ TaskOf("condition", m) \in Tasks
      BY <2>4 DEF TaskOf, Tasks, Blocks
    <3>1. task'[TaskOf("condition", m)] = IF TaskOf("condition", m) = TaskOf("condition", 0)
                                          THEN "returned" ELSE task[TaskOf("condition", m)]
      BY <1>3, <2>1, <3>0
    <3>2. m # 0 => TaskOf("condition", m) # TaskOf("condition", 0) /\ m > 0
      BY RoundsAreNumbers DEF TaskOf
    <3>3. m > 0 => task[TaskOf("condition", m)] = "unborn"
      BY <1>1, <2>2 DEF Undecided
    <3>. QED
      BY <3>1, <3>2, <3>3
  <2>7. ~IsNew
    BY <1>1, <1>2, <2>1, <2>2 DEF IsNew
  <2> HIDE DEF ds
  <2>. QED
    BY <1>7, <2>1, <2>3, <2>5, <2>6, <2>7
<1>13. CASE CreateWhileAborts \/ IfAborts \/ \E n \in Rounds : IterationAborts(n)
  <2>1. UNCHANGED <<program, details, use, task>>
    BY <1>13 DEF CreateWhileAborts, IfAborts, IterationAborts, Abort
  <2>. QED
    BY <1>5, <1>13, <2>1, AbortsInTheGap DEF IsNew
<1>14. ASSUME \/ \E n \in Rounds : EndLoop(n) \/ DestroyCondition(n)
              \/ \E n \in Rounds, b \in {"body", "otherwise"} : RunBody(b, n)
              \/ \E v \in Variables : DropOuter(v)
              \/ UNCHANGED vars
       PROVE  Served'
  <2>1. UNCHANGED <<program, details, use>> /\ UNCHANGED aborted
    BY <1>14 DEF EndLoop, DestroyCondition, RunBody, DropOuter, vars, program
  <2>2. SourcesOutliveCaptures'
    BY <2>1 DEF Served, SourcesOutliveCaptures
  <2> DEFINE NoneStarts ==
        \A t \in Tasks : task'[t] \in {"registered", "running"} => task[t] = task'[t]
  <2>3. NoneStarts
    <3>1. ASSUME NEW n \in Rounds, EndLoop(n) PROVE NoneStarts
      BY <1>3, <3>1 DEF EndLoop
    <3>2. ASSUME NEW n \in Rounds, DestroyCondition(n) PROVE NoneStarts
      BY <1>3, <3>2 DEF DestroyCondition
    <3>3. ASSUME NEW n \in Rounds, NEW b \in {"body", "otherwise"}, RunBody(b, n) PROVE NoneStarts
      BY <1>3, <3>3 DEF RunBody
    <3>. QED
      BY <1>14, <3>1, <3>2, <3>3 DEF DropOuter, vars
  <2>4. IsNew => IsNew'
    <3> SUFFICES ASSUME IsNew PROVE IsNew'
      OBVIOUS
    <3>1. \A n \in Rounds, b \in Blocks : task[TaskOf(b, n)] = "unborn"
      BY <1>2 DEF IsNew
    <3>2. task' = task
      BY <1>1, <1>14, <3>1 DEF EndLoop, DestroyCondition, RunBody, DropOuter, vars
    <3>. QED
      BY <3>2 DEF IsNew
  <2>. QED
    BY <1>5, <2>1, <2>2, <2>3, <2>4
<1>. QED
  BY <1>8, <1>9, <1>10, <1>11, <1>12, <1>13, <1>14 DEF Next, TaskSteps

\* Whatever the rounds do, no capture that a construct described has lost
\* its source when it is made, and every source serves what is asked of it,
\* but for the one request that has no case: for every program that asks for
\* no leaf captures, from handles with the uses a sequential task has.
THEOREM SourcesAreThere ==
  ASSUME SequentialPrograms
  PROVE  Spec => []SourcesOutliveCaptures
<1>1. Init => Served
  <2> SUFFICES ASSUME Init PROVE Served
    OBVIOUS
  <2>1. aborted = {} /\ task = [t \in Tasks |-> "unborn"]
    BY DEF Init
  <2>2. \A n \in Rounds : TaskOf("condition", n) \in Tasks
    BY TaskShape DEF Blocks
  <2>. QED
    BY <2>1, <2>2 DEF Served, SourcesOutliveCaptures, IsNew
<1>2. Construct /\ Served /\ [Next]_vars => Served'
  BY ServedPreserved
<1>3. Served => SourcesOutliveCaptures
  BY DEF Served
<1>. QED
  BY <1>1, <1>2, <1>3, ConstructHolds, PTL DEF Spec

=============================================================================
