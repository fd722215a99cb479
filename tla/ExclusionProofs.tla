-------------------------- MODULE ExclusionProofs --------------------------
(***************************************************************************)
(* Exclusive access and program order, for every program, depth and number *)
(* of tasks, and for both kinds of backend, and with tasks that move.      *)
(*                                                                         *)
(* The argument divides the uses into generations: what follows a use that *)
(* may schedule writers is the next generation.  A backend that goes by    *)
(* input flows tells the generation of a use by its input; one that goes   *)
(* by anti-flows tells it by the anti-flow in which the readers of its     *)
(* input are counted.  Two tasks that may touch the data are of the same   *)
(* generation, unless one is the parent that is creating the other, and a  *)
(* writer runs only when nothing else of its generation is left.           *)
(*                                                                         *)
(* Program order adds where tasks stand in the program: a task has passed  *)
(* whatever produces its input, and waits as long as anything that it has  *)
(* passed is still to produce an output.  So what touches the data comes   *)
(* before all that may still conflict with it.                             *)
(*                                                                         *)
(* As long as no task moves whose use could be an alias, moving tasks      *)
(* implements DarmaTasks, for any number of moves, and what is proved of   *)
(* programs without moves holds with them.                                 *)
(***************************************************************************)
EXTENDS Migration, DarmaTasksProofs

\* The cases that the backend can tell apart are all that the program asks
\* for.
CasesSuffice == Cases \subseteq SufficientCases(Backend)

\* What the front end asks for is nothing, to read, or to modify.
LEMMA FrontEndAsks ==
  ASSUME NEW scheduling \in FrontEndPermissions, NEW request \in RequestsOf[scheduling]
  PROVE  request \in FrontEndPairs
<1>1. ASSUME NEW p \in FrontEndPermissions, NEW q \in FrontEndPermissions
      PROVE  p \cup q \in FrontEndPermissions /\ p \ Write \in FrontEndPermissions
  BY DEF FrontEndPermissions, None, Read, Write, Modify
<1>2. ASSUME NEW flags \in SUBSET FrontEndFlags
      PROVE  RequestedPermissions(scheduling, flags) \in FrontEndPairs
  <2>1. "WriteOnly" \notin flags
    BY <1>2 DEF FrontEndFlags
  <2>2. DroppedRights(flags) = None \/ DroppedRights(flags) = Write
    BY <2>1 DEF DroppedRights, None
  <2>3. scheduling \ DroppedRights(flags) \in FrontEndPermissions
    BY <1>1, <2>2 DEF None
  <2>4. None \in FrontEndPermissions
    BY DEF FrontEndPermissions
  <2> QED
    BY <2>3, <2>4 DEF RequestedPermissions, DefaultRequest, Perms, FrontEndPairs, PermissionsAmong
<1>3. ASSUME NEW asked \in FrontEndPairs, NEW nested \in FrontEndPairs
      PROVE  RequireAbilityToSchedule(asked, nested) \in FrontEndPairs
  <2>1. asked.scheduling \cup nested.scheduling \cup nested.immediate \in FrontEndPermissions
    BY <1>1 DEF FrontEndPairs, PermissionsAmong
  <2> QED
    BY <2>1 DEF RequireAbilityToSchedule, FrontEndPairs, PermissionsAmong
<1>4. RequestsOf[scheduling] = FrontEndRequests(scheduling)
  BY DEF RequestsOf, FrontEndPermissions, Permissions, None, Read, Modify
<1>5. FrontEndRequests(scheduling) \subseteq FrontEndPairs
  BY <1>2, <1>3 DEF FrontEndRequests
<1> QED
  BY <1>4, <1>5

(***************************************************************************)
(* Uses and tasks in terms of generations                                  *)
(***************************************************************************)
Live(s)      == use[s].in # NoFlow
Producing(s) == use[s].out # NoFlow
MayWrite(s)  == "write" \in use[s].scheduling
Writing(s)   == "write" \in use[s].immediate

LevelFlow(s) == LevelOf(Backend, use[s], Writing(s))
NextLevel(s) == NextOf(Backend, use[s], Writing(s))

FlowsOf(u) == {u.in, u.out, u.anti_in, u.anti_out}

\* A use has an out flow as long as it may write or schedule writers, and one
\* that has no in flow was released or never made.
UsesInShape ==
  \A s \in Tasks :
    /\ use[s].scheduling \in FrontEndPermissions
    /\ use[s].immediate \in FrontEndPermissions
    /\ Producing(s) <=> MayWrite(s) \/ Writing(s)
    /\ ~Live(s) => use[s].scheduling = None /\ use[s].immediate = None
    /\ Live(s) => LevelFlow(s) # NoFlow
    /\ status[s] = "unborn" => ~Live(s)

\* No other use has a flow of a task that is not there yet, and none of its
\* flows has another name, or is one.
FlowsUntouched ==
  \A o \in Tasks : Unseen(o) =>
    /\ \A s \in Tasks \ {o} : \A f \in FlowsOf(use[s]) : f = NoFlow \/ f.owner # o
    /\ \A f \in DOMAIN alias : f.owner # o /\ alias[f].owner # o

\* Between the two halves of make_captured_use_holder, the captured use is as
\* the case that was found for it registered it.
CapturedAsFound ==
  \A s \in Tasks :
    step[s] = "captured" =>
      LET child == Child(s)
          case == CaseOf(use[s], PermissionsOf(use[child]))
      IN  /\ case \in Cases
          /\ AsRegistered(use[child], case.captured, FlowsOfSource(use[s]), child)

Registered == UsesInShape /\ FlowsUntouched /\ CapturedAsFound

\* What RegisterCaptured changes, but for the flag and the histories.
CaptureChanges(t, child, new) ==
  /\ child = Append(t, ops[t] + 1)
  /\ child # t
  /\ status[t] = "running"
  /\ status[child] = "unborn"
  /\ status' = [status EXCEPT ![child] = "captured"]
  /\ step[t] = "idle"
  /\ step' = [step EXCEPT ![t] = step'[t]]
  /\ ops' = [ops EXCEPT ![t] = ops[t] + 1]
  /\ alias' = alias
  /\ use' = [use EXCEPT ![child] = new]

\* The same of RegisterContinuation.
ContinuationChanges(t, child, new) ==
  /\ child = Child(t)
  /\ child # t
  /\ status[t] = "running"
  /\ status[child] = "captured"
  /\ step[t] = "captured"
  /\ step' = [step EXCEPT ![t] = "continued"]
  /\ use' = [use EXCEPT ![t] = new]
  /\ UNCHANGED <<status, ops, alias>>

\* A capture, in terms of generations.
LEMMA GenerationsCaptured ==
  ASSUME CasesSuffice, Control, UsesInShape, NEW t \in Tasks, RegisterCaptured(t)
  PROVE  \E child \in Tasks : \E new :
           /\ CaptureChanges(t, child, new)
           /\ use[t].scheduling # None
           /\ CapturedFrom(Backend, use[t], new, child)
           /\ "write" \in new.scheduling \cup new.immediate \/ Writing(t) => step'[t] = "captured"
           /\ step'[t] = "captured" => MayWrite(t)
           /\ LET case == CaseOf(use[t], PermissionsOf(new))
              IN  /\ case \in Cases
                  /\ AsRegistered(new, case.captured, FlowsOfSource(use[t]), child)
<1>1. PICK child \in Tasks, request \in PermissionPairs, case \in CaptureCases :
        /\ child = Append(t, ops[t] + 1)
        /\ child # t
        /\ use[t].scheduling # None
        /\ request \in RequestsOf[use[t].scheduling]
        /\ case = CaseOf(use[t], request)
        /\ case \in Cases
        /\ Matches(case, "Sequential", PermissionsOf(use[t]), request)
        /\ use' = [use EXCEPT ![child] =
             MakeUse(request,
                     RegisteredFlows(case.captured, FlowsOfSource(use[t]), child, CapturedPlaces),
                     FALSE)]
        /\ status[t] = "running"
        /\ status[child] = "unborn"
        /\ status' = [status EXCEPT ![child] = "captured"]
        /\ step[t] = "idle"
        /\ step' = [step EXCEPT ![t] =
             IF case.needs_new_continuation_use THEN "captured" ELSE "submit"]
        /\ ops' = [ops EXCEPT ![t] = ops[t] + 1]
        /\ alias' = alias
  BY CaptureStep
<1> DEFINE new == MakeUse(request,
                     RegisteredFlows(case.captured, FlowsOfSource(use[t]), child, CapturedPlaces),
                     FALSE)
<1>2. use[t].scheduling \in FrontEndPermissions /\ use[t].immediate \in FrontEndPermissions
  BY DEF UsesInShape
<1>3. request \in FrontEndPairs /\ PermissionsOf(use[t]) \in FrontEndPairs
  BY <1>1, <1>2, FrontEndAsks DEF FrontEndPairs, PermissionsAmong, PermissionsOf, Perms
<1>4. Generations(Backend, case)
  BY <1>1, CaseGenerations, BackendAssumption DEF CasesSuffice
<1>5. CapturesInGeneration(Backend, case, PermissionsOf(use[t]), request)
  BY <1>1, <1>3, <1>4 DEF Generations
<1>6. CapturesInGeneration(Backend, case, use[t], request)
  BY <1>5 DEF CapturesInGeneration, PermissionsOf, Perms
<1>7. /\ AsRegistered(new, case.captured, FlowsOfSource(use[t]), child)
      /\ new.scheduling = request.scheduling
      /\ new.immediate = request.immediate
  BY DEF AsRegistered, MakeUse, RegisteredFlows, UseFlows, CapturedPlaces
<1>8. use' = [use EXCEPT ![child] = new]
  BY <1>1
<1> HIDE DEF new
<1>9. CapturedFrom(Backend, use[t], new, child)
  BY <1>3, <1>6, <1>7, EstablishedCaptures
<1>10. PermissionsOf(new) = request
  BY <1>7 DEF PermissionsOf, Perms, PermissionPairs
<1>11. case.needs_new_continuation_use \in BOOLEAN
  BY CaseShape DEF WellShaped
<1>12. step' = [step EXCEPT ![t] = step'[t]]
       /\ (step'[t] = "captured" <=> case.needs_new_continuation_use)
  BY <1>1, <1>11 DEF Control, TypeOK
<1>13. /\ "write" \in new.scheduling \cup new.immediate \/ Writing(t) => step'[t] = "captured"
       /\ step'[t] = "captured" => MayWrite(t)
  BY <1>6, <1>7, <1>12 DEF CapturesInGeneration, Writing, MayWrite
<1>14. CaptureChanges(t, child, new)
  BY <1>1, <1>8, <1>12 DEF CaptureChanges
<1> WITNESS child \in Tasks
<1> WITNESS new
<1> QED
  BY <1>1, <1>7, <1>9, <1>10, <1>13, <1>14

\* A continuation, in terms of generations.
LEMMA GenerationsContinued ==
  ASSUME CasesSuffice, Control, UsesInShape, CapturedAsFound,
         NEW t \in Tasks, RegisterContinuation(t)
  PROVE  \E child \in Tasks : \E new :
           /\ ContinuationChanges(t, child, new)
           /\ ContinuedFrom(Backend, use[t], use[child], new, child)
           /\ FlowsOf(new) \subseteq
                FlowsOf(use[t]) \cup FlowsOf(use[child]) \cup {NoFlow}
                  \cup {Flow(child, place) : place \in Places}
<1>1. PICK child \in Tasks, case \in CaptureCases :
        /\ child = Child(t)
        /\ child # t
        /\ status[t] = "running"
        /\ status[child] = "captured"
        /\ case = CaseOf(use[t], PermissionsOf(use[child]))
        /\ Matches(case, "Sequential", PermissionsOf(use[t]), PermissionsOf(use[child]))
        /\ case.needs_new_continuation_use
        /\ use' = [use EXCEPT ![t] =
             MakeUse(case.continuation,
                     RegisteredFlows(case.continuing, FlowsOfCapture(use[t], use[child]),
                                     child, ContinuingPlaces),
                     FALSE)]
        /\ step[t] = "captured"
        /\ step' = [step EXCEPT ![t] = "continued"]
        /\ UNCHANGED <<status, ops, alias>>
  BY ContinuationStep
<1> DEFINE known == FlowsOfCapture(use[t], use[child])
           new == MakeUse(case.continuation,
                          RegisteredFlows(case.continuing, known, child, ContinuingPlaces), FALSE)
<1>2. case \in Cases /\ AsRegistered(use[child], case.captured, FlowsOfSource(use[t]), child)
  BY <1>1 DEF CapturedAsFound
<1>3. PermissionsOf(use[t]) \in FrontEndPairs /\ PermissionsOf(use[child]) \in FrontEndPairs
  BY DEF UsesInShape, FrontEndPairs, PermissionsAmong, PermissionsOf, Perms
<1>4. ContinuesGenerations(Backend, case, PermissionsOf(use[t]), PermissionsOf(use[child]))
  BY <1>1, <1>2, <1>3, CaseGenerations, BackendAssumption DEF CasesSuffice, Generations
<1>5. ContinuesGenerations(Backend, case, use[t], use[child])
  BY <1>4 DEF ContinuesGenerations, PermissionsOf, Perms
<1>6. ContinuedFrom(Backend, use[t], use[child], new, child)
  BY <1>2, <1>5, EstablishedContinues
<1>7. /\ new.in = Establish(case.continuing.in, known, Flow(child, "cont_in"))
      /\ new.out = Establish(case.continuing.out, known, Flow(child, "cont_out"))
      /\ new.anti_in = Establish(case.continuing.anti_in, known, Flow(child, "cont_anti_in"))
      /\ new.anti_out = Establish(case.continuing.anti_out, known, Flow(child, "cont_anti_out"))
  BY DEF MakeUse, RegisteredFlows, UseFlows, ContinuingPlaces
<1>8. RelationshipsOver(case.continuing, CaptureNames)
  BY CaseShape DEF WellShaped
<1>9. \A name \in CaptureNames : known[name] \in FlowsOf(use[t]) \cup FlowsOf(use[child])
  BY DEF FlowsOfCapture, CaptureNames, SourceNames, FlowsOf
<1>10. use' = [use EXCEPT ![t] = new]
  BY <1>1
<1> HIDE DEF known, new
<1>11. FlowsOf(new) \subseteq FlowsOf(use[t]) \cup FlowsOf(use[child]) \cup {NoFlow}
         \cup {Flow(child, place) : place \in Places}
  <2>1. ASSUME NEW r, Within(r, CaptureNames), NEW place \in Places
        PROVE  Establish(r, known, Flow(child, place)) \in
                 FlowsOf(use[t]) \cup FlowsOf(use[child]) \cup {NoFlow}
                   \cup {Flow(child, p) : p \in Places}
    BY <1>9, <2>1 DEF Within, Establish
  <2>2. {"cont_in", "cont_out", "cont_anti_in", "cont_anti_out"} \subseteq Places
    BY DEF Places
  <2>3. /\ new.in \in FlowsOf(use[t]) \cup FlowsOf(use[child]) \cup {NoFlow}
             \cup {Flow(child, p) : p \in Places}
        /\ new.out \in FlowsOf(use[t]) \cup FlowsOf(use[child]) \cup {NoFlow}
             \cup {Flow(child, p) : p \in Places}
        /\ new.anti_in \in FlowsOf(use[t]) \cup FlowsOf(use[child]) \cup {NoFlow}
             \cup {Flow(child, p) : p \in Places}
        /\ new.anti_out \in FlowsOf(use[t]) \cup FlowsOf(use[child]) \cup {NoFlow}
             \cup {Flow(child, p) : p \in Places}
    BY <1>7, <1>8, <2>1, <2>2 DEF RelationshipsOver
  <2> QED
    BY <2>3 DEF FlowsOf
<1>12. ContinuationChanges(t, child, new)
  BY <1>1, <1>10 DEF ContinuationChanges
<1> WITNESS child \in Tasks
<1> WITNESS new
<1> QED
  BY <1>6, <1>11, <1>12

(***************************************************************************)
(* What was registered stays so                                            *)
(***************************************************************************)
\* The child a task is creating is another task, and captured.
LEMMA ChildCaptured ==
  ASSUME Control, NEW s \in Tasks, step[s] = "captured"
  PROVE  /\ status[s] = "running"
         /\ Child(s) \in Tasks
         /\ status[Child(s)] = "captured"
         /\ Child(s) # s
BY DEF Control, InCreateWork, Creating

\* A running task is not one that is not there yet.
LEMMA RunningIsSeen ==
  ASSUME Control, NEW t \in Tasks, status[t] = "running"
  PROVE  ~Unseen(t)
BY ChildCaptured DEF Unseen

\* Making flows equivalent gives no name to a flow of a task that has none.
LEMMA AliasOwners ==
  ASSUME NEW a, NEW o, NEW f, NEW g,
         \A h \in DOMAIN a : h.owner # o /\ a[h].owner # o,
         f = NoFlow \/ f.owner # o,
         g = NoFlow \/ g.owner # o
  PROVE  LET b == EstablishAlias(a, f, g)
         IN  \A h \in DOMAIN b : h.owner # o /\ b[h].owner # o
BY DEF EstablishAlias, Representative

\* At the start only the top level has a use.
LEMMA RegisteredInit == Init => Registered
<1> SUFFICES ASSUME Init PROVE Registered
  OBVIOUS
<1>1. /\ InitialUse.in = Flow(Root, "in")
      /\ InitialUse.out = Flow(Root, "out")
      /\ InitialUse.anti_in = NoFlow
      /\ InitialUse.anti_out = Flow(Root, "anti_out")
      /\ InitialUse.scheduling = Modify
      /\ InitialUse.immediate = None
  BY DEF InitialUse, MakeUse, RegisteredFlows, UseFlows, Establish, Initial, Null,
     Insignificant, CapturedPlaces, Perms
<1>2. /\ NoUse.in = NoFlow /\ NoUse.out = NoFlow
      /\ NoUse.anti_in = NoFlow /\ NoUse.anti_out = NoFlow
      /\ NoUse.scheduling = None /\ NoUse.immediate = None
  BY DEF NoUse, MakeUse, UseFlows, Perms
<1>3. \A s \in Tasks : /\ s = Root => use[s] = InitialUse /\ status[s] = "running"
                       /\ s # Root => use[s] = NoUse /\ status[s] = "unborn"
                       /\ step[s] = "idle"
  BY DEF Init
<1>4. DOMAIN alias = {}
  BY DEF Init
<1>5. Flow(Root, "in") # NoFlow /\ Flow(Root, "out") # NoFlow /\ Flow(Root, "anti_out") # NoFlow
      /\ \A place : Flow(Root, place).owner = Root
  BY DEF Flow, NoFlow
<1>6. UsesInShape
  <2>1. ASSUME NEW s \in Tasks, s = Root
        PROVE  /\ use[s].scheduling \in FrontEndPermissions
               /\ use[s].immediate \in FrontEndPermissions
               /\ Producing(s) /\ MayWrite(s) /\ Live(s)
               /\ LevelFlow(s) # NoFlow
               /\ status[s] # "unborn"
    <3>1. use[s] = InitialUse /\ status[s] = "running"
      BY <1>3, <2>1
    <3>2. ~Writing(s)
      BY <1>1, <3>1 DEF Writing, None
    <3> QED
      BY <1>1, <1>5, <3>1, <3>2
      DEF FrontEndPermissions, Producing, MayWrite, Live, LevelFlow, LevelOf, Modify
  <2>2. ASSUME NEW s \in Tasks, s # Root
        PROVE  /\ use[s].scheduling = None /\ use[s].immediate = None
               /\ ~Producing(s) /\ ~MayWrite(s) /\ ~Writing(s) /\ ~Live(s)
    BY <1>2, <1>3, <2>2 DEF Producing, MayWrite, Writing, Live, None
  <2>3. None \in FrontEndPermissions
    BY DEF FrontEndPermissions
  <2> QED
    BY <2>1, <2>2, <2>3 DEF UsesInShape
<1>7. FlowsUntouched
  <2>1. \A o \in Tasks : Unseen(o) => o # Root
    BY <1>3 DEF Unseen
  <2>2. \A s \in Tasks : \A f \in FlowsOf(use[s]) : f = NoFlow \/ f.owner = Root
    <3> SUFFICES ASSUME NEW s \in Tasks
                 PROVE  \A f \in FlowsOf(use[s]) : f = NoFlow \/ f.owner = Root
      OBVIOUS
    <3>1. CASE s = Root
      BY <1>1, <1>3, <1>5, <3>1 DEF FlowsOf
    <3>2. CASE s # Root
      BY <1>2, <1>3, <3>2 DEF FlowsOf
    <3> QED
      BY <3>1, <3>2
  <2> QED
    BY <1>4, <2>1, <2>2 DEF FlowsUntouched
<1>8. CapturedAsFound
  BY <1>3 DEF CapturedAsFound
<1> QED
  BY <1>6, <1>7, <1>8 DEF Registered

\* A step that changes no flow keeps what was registered.
LEMMA RegisteredQuiet ==
  ASSUME Control, Registered, Quiet
  PROVE  Registered'
<1>1. \A s \in Tasks : step'[s] = "captured" =>
        /\ step[s] = "captured"
        /\ Child(s)' = Child(s)
        /\ Child(s) \in Tasks
        /\ status[Child(s)] = "captured"
  BY DEF Quiet, Child, Control, InCreateWork, Creating
<1>2. \A o \in Tasks : Unseen(o)' => Unseen(o)
  BY <1>1 DEF Unseen, Quiet
<1>3. \A s \in Tasks : FlowsOf(use'[s]) = FlowsOf(use[s])
  BY DEF Quiet, FlowsOf
<1>4. FlowsUntouched'
  BY <1>2, <1>3 DEF Registered, FlowsUntouched, Quiet
<1>5. UsesInShape'
  <2> SUFFICES ASSUME NEW s \in Tasks
               PROVE  /\ use'[s].scheduling \in FrontEndPermissions
                      /\ use'[s].immediate \in FrontEndPermissions
                      /\ Producing(s)' <=> MayWrite(s)' \/ Writing(s)'
                      /\ ~Live(s)' => use'[s].scheduling = None /\ use'[s].immediate = None
                      /\ Live(s)' => LevelFlow(s)' # NoFlow
                      /\ status'[s] = "unborn" => ~Live(s)'
    BY DEF UsesInShape
  <2>1. /\ use'[s].scheduling \in {use[s].scheduling, None}
        /\ use'[s].scheduling = use[s].scheduling \/ use[s].immediate = Modify
        /\ use'[s].immediate = use[s].immediate
        /\ status'[s] = "unborn" <=> status[s] = "unborn"
    BY DEF Quiet
  <2>2. /\ Producing(s)' = Producing(s)
        /\ Live(s)' = Live(s)
        /\ Writing(s)' = Writing(s)
        /\ LevelFlow(s)' = LevelFlow(s)
    BY DEF Quiet, Producing, Live, Writing, LevelFlow, LevelOf
  <2>3. /\ use[s].scheduling \in FrontEndPermissions
        /\ use[s].immediate \in FrontEndPermissions
        /\ Producing(s) <=> MayWrite(s) \/ Writing(s)
        /\ ~Live(s) => use[s].scheduling = None /\ use[s].immediate = None
        /\ Live(s) => LevelFlow(s) # NoFlow
        /\ status[s] = "unborn" => ~Live(s)
    BY DEF Registered, UsesInShape
  <2>4. CASE use'[s].scheduling = use[s].scheduling
    BY <2>1, <2>2, <2>3, <2>4 DEF MayWrite
  <2>5. CASE use'[s].scheduling = None /\ use[s].immediate = Modify
    <3>1. Writing(s) /\ ~MayWrite(s)' /\ None \in FrontEndPermissions
      BY <2>5 DEF Writing, MayWrite, Modify, None, FrontEndPermissions
    <3> QED
      BY <2>1, <2>2, <2>3, <2>5, <3>1
  <2> QED
    BY <2>1, <2>4, <2>5
<1>6. CapturedAsFound'
  <2> SUFFICES ASSUME NEW s \in Tasks, step'[s] = "captured"
               PROVE  LET child == Child(s)'
                          case == CaseOf(use'[s], PermissionsOf(use'[child]))
                      IN  /\ case \in Cases
                          /\ AsRegistered(use'[child], case.captured,
                                          FlowsOfSource(use'[s]), child)
    BY DEF CapturedAsFound, CaseOf, AsRegistered, FlowsOfSource
  <2>1. step[s] = "captured" /\ Child(s)' = Child(s) /\ Child(s) \in Tasks
        /\ status[Child(s)] = "captured"
    BY <1>1
  <2>2. /\ PermissionsOf(use'[s]) = PermissionsOf(use[s])
        /\ PermissionsOf(use'[Child(s)]) = PermissionsOf(use[Child(s)])
        /\ FlowsOfSource(use'[s]) = FlowsOfSource(use[s])
    BY <2>1 DEF PermissionsOf, FlowsOfSource, Quiet
  <2>3. CaseOf(use'[s], PermissionsOf(use'[Child(s)]))
          = CaseOf(use[s], PermissionsOf(use[Child(s)]))
    BY <2>2 DEF CaseOf
  <2>4. LET case == CaseOf(use[s], PermissionsOf(use[Child(s)]))
        IN  /\ case \in Cases
            /\ AsRegistered(use[Child(s)], case.captured, FlowsOfSource(use[s]), Child(s))
    BY <2>1 DEF Registered, CapturedAsFound
  <2>5. \A case : AsRegistered(use[Child(s)], case.captured, FlowsOfSource(use[s]), Child(s))
          => AsRegistered(use'[Child(s)], case.captured, FlowsOfSource(use[s]), Child(s))
    BY <2>1 DEF AsRegistered, Quiet
  <2> QED
    BY <2>1, <2>2, <2>3, <2>4, <2>5
<1> QED
  BY <1>4, <1>5, <1>6 DEF Registered

\* The release of a handle adds names only to flows that tasks have seen.
LEMMA RegisteredReleased ==
  ASSUME Control, Registered, NEW t \in Tasks, ReleaseHandle(t)
  PROVE  Registered'
<1>1. /\ status[t] = "running" /\ step[t] = "idle"
      /\ use' = [use EXCEPT ![t] = NoUse]
      /\ status' = [status EXCEPT ![t] = "done"]
      /\ alias' \in {alias, ReleaseAlias(alias, use[t])}
      /\ UNCHANGED <<step, ops>>
  BY ReleaseStep
<1>2. /\ \A s \in Tasks \ {t} : use'[s] = use[s] /\ status'[s] = status[s]
      /\ use'[t] = NoUse /\ status'[t] = "done"
  BY <1>1 DEF Control, TypeOK
<1>3. /\ NoUse.in = NoFlow /\ NoUse.out = NoFlow
      /\ NoUse.anti_in = NoFlow /\ NoUse.anti_out = NoFlow
      /\ NoUse.scheduling = None /\ NoUse.immediate = None
  BY DEF NoUse, MakeUse, UseFlows, Perms
<1>4. \A o \in Tasks : Unseen(o)' => Unseen(o) /\ o # t
  <2>1. \A o \in Tasks : Unseen(o)' => Unseen(o)
    BY <1>1, <1>2 DEF Unseen, Child
  <2> QED
    BY <1>1, <2>1, RunningIsSeen
<1>5. UsesInShape'
  <2>1. ASSUME NEW s \in Tasks \ {t}
        PROVE  /\ Producing(s)' = Producing(s) /\ Live(s)' = Live(s) /\ MayWrite(s)' = MayWrite(s)
               /\ Writing(s)' = Writing(s) /\ LevelFlow(s)' = LevelFlow(s)
    BY <1>2 DEF Producing, Live, MayWrite, Writing, LevelFlow
  <2>2. /\ ~Producing(t)' /\ ~Live(t)' /\ ~MayWrite(t)' /\ ~Writing(t)'
        /\ use'[t].scheduling = None /\ use'[t].immediate = None /\ None \in FrontEndPermissions
    BY <1>2, <1>3 DEF Producing, Live, MayWrite, Writing, None, FrontEndPermissions
  <2> QED
    BY <1>2, <2>1, <2>2 DEF Registered, UsesInShape
<1>6. FlowsUntouched'
  <2> SUFFICES ASSUME NEW o \in Tasks, Unseen(o)'
               PROVE  /\ \A s \in Tasks \ {o} : \A f \in FlowsOf(use'[s]) : f = NoFlow \/ f.owner # o
                      /\ \A f \in DOMAIN alias' : f.owner # o /\ alias'[f].owner # o
    BY DEF FlowsUntouched
  <2>1. /\ \A s \in Tasks \ {o} : \A f \in FlowsOf(use[s]) : f = NoFlow \/ f.owner # o
        /\ \A f \in DOMAIN alias : f.owner # o /\ alias[f].owner # o
        /\ o # t
    BY <1>4 DEF Registered, FlowsUntouched
  <2>2. \A f \in FlowsOf(NoUse) : f = NoFlow
    BY <1>3 DEF FlowsOf
  <2>3. \A f \in FlowsOf(use[t]) : f = NoFlow \/ f.owner # o
    BY <2>1
  <2>4. LET a == EstablishAlias(alias, use[t].out, use[t].in)
        IN  \A f \in DOMAIN a : f.owner # o /\ a[f].owner # o
    BY <2>1, <2>3, AliasOwners DEF FlowsOf
  <2>5. LET a == ReleaseAlias(alias, use[t])
        IN  \A f \in DOMAIN a : f.owner # o /\ a[f].owner # o
    BY <2>3, <2>4, AliasOwners DEF FlowsOf, ReleaseAlias
  <2>6. \A f \in DOMAIN alias' : f.owner # o /\ alias'[f].owner # o
    BY <1>1, <2>1, <2>5
  <2> QED
    BY <1>2, <2>1, <2>2, <2>6
<1>7. CapturedAsFound'
  <2> SUFFICES ASSUME NEW s \in Tasks, step[s] = "captured"
               PROVE  use'[s] = use[s] /\ Child(s)' = Child(s) /\ use'[Child(s)] = use[Child(s)]
    BY <1>1 DEF Registered, CapturedAsFound, CaseOf
  <2> QED
    BY <1>1, <1>2, ChildCaptured DEF Child
<1> QED
  BY <1>5, <1>6, <1>7 DEF Registered

\* What every step of a capture leaves of the tasks that are there.
LEMMA OthersKept ==
  ASSUME Control, NEW t \in Tasks, NEW child \in Tasks, NEW new,
         CaptureChanges(t, child, new)
  PROVE  /\ use'[child] = new /\ \A s \in Tasks \ {child} : use'[s] = use[s]
         /\ status'[child] = "captured"
         /\ \A s \in Tasks \ {child} : status'[s] = status[s]
         /\ \A s \in Tasks \ {t} : step'[s] = step[s] /\ Child(s)' = Child(s)
         /\ Child(t)' = child
         /\ \A s \in Tasks : step[s] = "captured" =>
              s \notin {t, child} /\ Child(s) \in Tasks \ {t, child}
         /\ Unseen(child)
         /\ \A o \in Tasks : Unseen(o)' => Unseen(o) /\ o # t
<1>0. /\ child = Append(t, ops[t] + 1)
      /\ child # t
      /\ status[t] = "running"
      /\ status[child] = "unborn"
      /\ status' = [status EXCEPT ![child] = "captured"]
      /\ step[t] = "idle"
      /\ step' = [step EXCEPT ![t] = step'[t]]
      /\ ops' = [ops EXCEPT ![t] = ops[t] + 1]
      /\ use' = [use EXCEPT ![child] = new]
  BY DEF CaptureChanges
<1>1. /\ use \in [Tasks -> UseRecords]
      /\ status \in [Tasks -> {"unborn", "captured", "pending", "running", "done"}]
      /\ step \in [Tasks -> {"idle", "captured", "continued", "submit", "referenced"}]
      /\ ops \in [Tasks -> 0..MaxOps]
  BY DEF Control, TypeOK
<1>2. /\ use'[child] = new /\ \A s \in Tasks \ {child} : use'[s] = use[s]
      /\ status'[child] = "captured"
      /\ \A s \in Tasks \ {child} : status'[s] = status[s]
      /\ \A s \in Tasks \ {t} : step'[s] = step[s] /\ ops'[s] = ops[s]
      /\ ops'[t] = ops[t] + 1
  BY <1>0, <1>1
<1>3. /\ \A s \in Tasks \ {t} : Child(s)' = Child(s)
      /\ Child(t)' = child
  BY <1>0, <1>2 DEF Child
<1>4. \A s \in Tasks : step[s] = "captured" =>
        s \notin {t, child} /\ Child(s) \in Tasks \ {t, child}
  BY <1>0, ChildCaptured
<1>5. Unseen(child)
  BY <1>0 DEF Unseen
<1>6. ASSUME NEW o \in Tasks, Unseen(o)'
      PROVE  Unseen(o) /\ o # t
  <2>1. CASE status'[o] = "unborn"
    BY <1>0, <1>2, <2>1 DEF Unseen
  <2>2. CASE \E s \in Tasks : step'[s] = "captured" /\ o = Child(s)'
    <3>1. PICK s \in Tasks : step'[s] = "captured" /\ o = Child(s)'
      BY <2>2
    <3>2. CASE s = t
      BY <1>0, <1>3, <1>5, <3>1, <3>2
    <3>3. CASE s # t
      <4>1. step[s] = "captured" /\ o = Child(s) /\ o # t
        BY <1>2, <1>3, <1>4, <3>1, <3>3
      <4> QED
        BY <4>1 DEF Unseen
    <3> QED
      BY <3>2, <3>3
  <2> QED
    BY <1>0, <1>6, <2>1, <2>2 DEF Unseen
<1> QED
  BY <1>2, <1>3, <1>4, <1>5, <1>6

\* The flows of a captured use are those of its source, or its own.
LEMMA CapturedUseFlows ==
  ASSUME NEW source, NEW new, NEW case \in CaptureCases, NEW child,
         AsRegistered(new, case.captured, FlowsOfSource(source), child)
  PROVE  FlowsOf(new) \subseteq
           FlowsOf(source) \cup {NoFlow} \cup {Flow(child, place) : place \in Places}
<1> DEFINE known == FlowsOfSource(source)
           mine == FlowsOf(source) \cup {NoFlow} \cup {Flow(child, place) : place \in Places}
<1>1. RelationshipsOver(case.captured, SourceNames)
  BY CaseShape DEF WellShaped
<1>2. \A name \in SourceNames : known[name] \in FlowsOf(source)
  BY DEF FlowsOfSource, SourceNames, FlowsOf
<1> HIDE DEF known
<1>3. ASSUME NEW r, Within(r, SourceNames), NEW place \in Places
      PROVE  Establish(r, known, Flow(child, place)) \in mine
  BY <1>2, <1>3 DEF Within, Establish
<1>4. {"in", "out", "anti_in", "anti_out"} \subseteq Places
  BY DEF Places
<1> HIDE DEF mine
<1>5. new.in \in mine /\ new.out \in mine /\ new.anti_in \in mine /\ new.anti_out \in mine
  BY <1>1, <1>3, <1>4 DEF AsRegistered, RelationshipsOver, known
<1> QED
  BY <1>5 DEF FlowsOf, mine

\* A captured use is what its case makes of it.
LEMMA RegisteredCaptured ==
  ASSUME CasesSuffice, Control, Registered, NEW t \in Tasks, RegisterCaptured(t)
  PROVE  Registered'
<1>0. UsesInShape
  BY DEF Registered
<1>1. PICK child \in Tasks : \E new :
        /\ CaptureChanges(t, child, new)
        /\ use[t].scheduling # None
        /\ CapturedFrom(Backend, use[t], new, child)
        /\ LET case == CaseOf(use[t], PermissionsOf(new))
           IN  /\ case \in Cases
               /\ AsRegistered(new, case.captured, FlowsOfSource(use[t]), child)
  BY <1>0, GenerationsCaptured
<1>2. PICK new :
        /\ CaptureChanges(t, child, new)
        /\ use[t].scheduling # None
        /\ CapturedFrom(Backend, use[t], new, child)
        /\ LET case == CaseOf(use[t], PermissionsOf(new))
           IN  /\ case \in Cases
               /\ AsRegistered(new, case.captured, FlowsOfSource(use[t]), child)
  BY <1>1
<1>a. child # t /\ status[t] = "running" /\ alias' = alias
  BY <1>2 DEF CaptureChanges
<1>3. /\ use'[child] = new /\ \A s \in Tasks \ {child} : use'[s] = use[s]
      /\ status'[child] = "captured"
      /\ \A s \in Tasks \ {child} : status'[s] = status[s]
      /\ \A s \in Tasks \ {t} : step'[s] = step[s] /\ Child(s)' = Child(s)
      /\ Child(t)' = child
      /\ \A s \in Tasks : step[s] = "captured" =>
           s \notin {t, child} /\ Child(s) \in Tasks \ {t, child}
      /\ Unseen(child)
      /\ \A o \in Tasks : Unseen(o)' => Unseen(o) /\ o # t
  BY <1>2, OthersKept
<1>4. UsesInShape'
  <2>1. ASSUME NEW s \in Tasks \ {child}
        PROVE  /\ Producing(s)' = Producing(s) /\ Live(s)' = Live(s) /\ MayWrite(s)' = MayWrite(s)
               /\ Writing(s)' = Writing(s) /\ LevelFlow(s)' = LevelFlow(s)
    BY <1>3 DEF Producing, Live, MayWrite, Writing, LevelFlow
  <2>2. /\ Producing(child)' <=> new.out # NoFlow
        /\ MayWrite(child)' <=> "write" \in new.scheduling
        /\ Writing(child)' <=> "write" \in new.immediate
        /\ Live(child)' <=> new.in # NoFlow
        /\ LevelFlow(child)' = LevelOf(Backend, new, "write" \in new.immediate)
    BY <1>3 DEF Producing, Live, MayWrite, Writing, LevelFlow
  <2>3. \A place \in {"in", "out", "anti_in", "anti_out"} : Flow(child, place) # NoFlow
    BY DEF Flow, NoFlow
  <2>4. LevelOf(Backend, CapturedPlaces, "write" \in new.immediate) \in {"in", "anti_in", "anti_out"}
    BY DEF LevelOf, CapturedPlaces
  <2>5. Live(t) /\ LevelFlow(t) # NoFlow
    BY <1>0, <1>2 DEF UsesInShape
  <2>6. use[t].in # NoFlow /\ LevelOf(Backend, use[t], "write" \in use[t].immediate) # NoFlow
    BY <2>5 DEF Live, LevelFlow, Writing
  <2>7. new.in # NoFlow /\ LevelOf(Backend, new, "write" \in new.immediate) # NoFlow
    BY <1>2, <2>3, <2>4, <2>6 DEF CapturedFrom
  <2>8. Producing(child)' <=> MayWrite(child)' \/ Writing(child)'
    BY <1>2, <2>2, <2>3 DEF CapturedFrom
  <2>9. new.scheduling \in FrontEndPermissions /\ new.immediate \in FrontEndPermissions
    BY <1>2 DEF CapturedFrom
  <2> QED
    BY <1>0, <1>3, <2>1, <2>2, <2>7, <2>8, <2>9 DEF UsesInShape
<1>5. FlowsUntouched'
  <2> SUFFICES ASSUME NEW o \in Tasks, Unseen(o)'
               PROVE  /\ \A s \in Tasks \ {o} : \A f \in FlowsOf(use'[s]) : f = NoFlow \/ f.owner # o
                      /\ \A f \in DOMAIN alias' : f.owner # o /\ alias'[f].owner # o
    BY DEF FlowsUntouched
  <2>1. /\ \A s \in Tasks \ {o} : \A f \in FlowsOf(use[s]) : f = NoFlow \/ f.owner # o
        /\ \A f \in DOMAIN alias : f.owner # o /\ alias[f].owner # o
        /\ o # t
    BY <1>3 DEF Registered, FlowsUntouched
  <2>2. \A place : Flow(child, place).owner = child
    BY DEF Flow
  <2>3. FlowsOf(new) \subseteq
          FlowsOf(use[t]) \cup {NoFlow} \cup {Flow(child, place) : place \in Places}
    BY <1>2, CapturedUseFlows, ProgramAssumption
  <2>4. o # child => \A f \in FlowsOf(new) : f = NoFlow \/ f.owner # o
    BY <2>1, <2>2, <2>3
  <2> QED
    BY <1>a, <1>3, <2>1, <2>4
<1>6. CapturedAsFound'
  <2> SUFFICES ASSUME NEW s \in Tasks, step'[s] = "captured"
               PROVE  LET c == Child(s)'
                          case == CaseOf(use'[s], PermissionsOf(use'[c]))
                      IN  /\ case \in Cases
                          /\ AsRegistered(use'[c], case.captured, FlowsOfSource(use'[s]), c)
    BY DEF CapturedAsFound, CaseOf, AsRegistered, FlowsOfSource
  <2>1. CASE s = t
    <3>1. Child(s)' = child /\ use'[child] = new /\ use'[s] = use[t]
      BY <1>a, <1>3, <2>1
    <3>2. LET case == CaseOf(use[t], PermissionsOf(new))
          IN  /\ case \in Cases
              /\ AsRegistered(new, case.captured, FlowsOfSource(use[t]), child)
      BY <1>2
    <3> QED
      BY <3>1, <3>2
  <2>2. CASE s # t
    <3>1. step[s] = "captured" /\ Child(s)' = Child(s) /\ Child(s) # child /\ s # child
          /\ Child(s) \in Tasks
      BY <1>3, <2>2
    <3>2. use'[s] = use[s] /\ use'[Child(s)] = use[Child(s)]
      BY <1>3, <3>1
    <3> QED
      BY <3>1, <3>2 DEF Registered, CapturedAsFound
  <2> QED
    BY <2>1, <2>2
<1> QED
  BY <1>4, <1>5, <1>6 DEF Registered

\* What registering a continuation leaves of the other tasks.
LEMMA OthersContinue ==
  ASSUME Control, NEW t \in Tasks, NEW child \in Tasks, NEW new,
         ContinuationChanges(t, child, new)
  PROVE  /\ use'[t] = new /\ \A s \in Tasks \ {t} : use'[s] = use[s]
         /\ step'[t] = "continued"
         /\ \A s \in Tasks \ {t} : step'[s] = step[s]
         /\ \A s \in Tasks : Child(s)' = Child(s)
         /\ \A s \in Tasks \ {t} : step[s] = "captured" => Child(s) \in Tasks \ {t, child}
         /\ Unseen(child)
         /\ \A o \in Tasks : Unseen(o)' => Unseen(o) /\ o # child
<1>0. /\ child = Child(t)
      /\ child # t
      /\ status[t] = "running" /\ status[child] = "captured"
      /\ step[t] = "captured"
      /\ step' = [step EXCEPT ![t] = "continued"]
      /\ use' = [use EXCEPT ![t] = new]
      /\ UNCHANGED <<status, ops, alias>>
  BY DEF ContinuationChanges
<1>1. /\ use \in [Tasks -> UseRecords]
      /\ step \in [Tasks -> {"idle", "captured", "continued", "submit", "referenced"}]
  BY DEF Control, TypeOK
<1>2. /\ use'[t] = new /\ \A s \in Tasks \ {t} : use'[s] = use[s]
      /\ step'[t] = "continued"
      /\ \A s \in Tasks \ {t} : step'[s] = step[s]
      /\ \A s \in Tasks : Child(s)' = Child(s)
  BY <1>0, <1>1 DEF Child
<1>4. ASSUME NEW s \in Tasks \ {t}, step[s] = "captured"
      PROVE  Child(s) \in Tasks \ {t, child}
  <2>1. Child(s) \in Tasks /\ Child(s) # t
    BY <1>0, <1>4, ChildCaptured
  <2>2. Child(s) # child
    BY <1>0, <1>4, ParentsDiffer DEF Creating
  <2> QED
    BY <2>1, <2>2
<1>5. Unseen(child)
  BY <1>0 DEF Unseen
<1>6. ASSUME NEW o \in Tasks, Unseen(o)'
      PROVE  Unseen(o) /\ o # child
  <2>1. CASE status[o] = "unborn"
    BY <1>0, <2>1 DEF Unseen
  <2>2. CASE \E s \in Tasks : step'[s] = "captured" /\ o = Child(s)'
    <3>1. PICK s \in Tasks : step'[s] = "captured" /\ o = Child(s)'
      BY <2>2
    <3>2. s # t /\ step[s] = "captured" /\ o = Child(s)
      BY <1>2, <3>1
    <3> QED
      BY <1>4, <3>2 DEF Unseen
  <2> QED
    BY <1>0, <1>6, <2>1, <2>2 DEF Unseen
<1> QED
  BY <1>2, <1>4, <1>5, <1>6

\* A continuation is what its case makes of it.
LEMMA RegisteredContinuing ==
  ASSUME CasesSuffice, Control, Registered, NEW t \in Tasks, RegisterContinuation(t)
  PROVE  Registered'
<1>0. UsesInShape /\ CapturedAsFound
  BY DEF Registered
<1>1. PICK child \in Tasks : \E new :
        /\ ContinuationChanges(t, child, new)
        /\ ContinuedFrom(Backend, use[t], use[child], new, child)
        /\ FlowsOf(new) \subseteq
             FlowsOf(use[t]) \cup FlowsOf(use[child]) \cup {NoFlow}
               \cup {Flow(child, place) : place \in Places}
  BY <1>0, GenerationsContinued
<1>2. PICK new :
        /\ ContinuationChanges(t, child, new)
        /\ ContinuedFrom(Backend, use[t], use[child], new, child)
        /\ FlowsOf(new) \subseteq
             FlowsOf(use[t]) \cup FlowsOf(use[child]) \cup {NoFlow}
               \cup {Flow(child, place) : place \in Places}
  BY <1>1
<1>a. /\ status[t] = "running"
      /\ UNCHANGED <<status, ops, alias>>
  BY <1>2 DEF ContinuationChanges
<1>3. /\ use'[t] = new /\ \A s \in Tasks \ {t} : use'[s] = use[s]
      /\ step'[t] = "continued"
      /\ \A s \in Tasks \ {t} : step'[s] = step[s]
      /\ \A s \in Tasks : Child(s)' = Child(s)
      /\ \A s \in Tasks \ {t} : step[s] = "captured" => Child(s) \in Tasks \ {t, child}
      /\ Unseen(child)
      /\ \A o \in Tasks : Unseen(o)' => Unseen(o) /\ o # child
  BY <1>2, OthersContinue
<1>4. UsesInShape'
  <2>1. ASSUME NEW s \in Tasks \ {t}
        PROVE  /\ Producing(s)' = Producing(s) /\ Live(s)' = Live(s) /\ MayWrite(s)' = MayWrite(s)
               /\ Writing(s)' = Writing(s) /\ LevelFlow(s)' = LevelFlow(s)
    BY <1>3 DEF Producing, Live, MayWrite, Writing, LevelFlow
  <2>2. new.immediate \in {None, Read}
    BY <1>2 DEF ContinuedFrom
  <2>3. new.scheduling = Modify /\ new.out = use[t].out
    BY <1>2 DEF ContinuedFrom
  <2>4. /\ MayWrite(t)' /\ ~Writing(t)'
        /\ Live(t)' <=> new.in # NoFlow
        /\ LevelFlow(t)' = LevelOf(Backend, new, FALSE)
        /\ Producing(t)' <=> Producing(t)
    <3>1. use'[t].in = new.in /\ use'[t].out = use[t].out
      BY <1>3, <2>3
    <3>2. MayWrite(t)' /\ ~Writing(t)'
      BY <1>3, <2>2, <2>3 DEF MayWrite, Writing, None, Read, Modify
    <3>3. LevelFlow(t)' = LevelOf(Backend, new, FALSE)
      BY <1>3, <3>2 DEF LevelFlow, LevelOf
    <3> QED
      BY <3>1, <3>2, <3>3 DEF Live, Producing
  <2>5. \A place \in {"in", "out", "anti_in", "anti_out", "cont_in", "cont_anti_out"} :
          Flow(child, place) # NoFlow
    BY DEF Flow, NoFlow
  <2>6. /\ \A b : NextOf(Backend, CapturedPlaces, b) \in {"out", "anti_in", "anti_out"}
        /\ LevelOf(Backend, ContinuingPlaces, FALSE) \in {"cont_in", "cont_anti_out"}
    BY DEF NextOf, LevelOf, CapturedPlaces, ContinuingPlaces
  <2>7. new.in # NoFlow
    BY <1>2, <2>5 DEF ContinuedFrom
  <2>8. LevelOf(Backend, new, FALSE) # NoFlow
    <3>1. CASE Backend = "flows"
      BY <2>7, <3>1 DEF LevelOf
    <3>2. CASE Backend # "flows"
      BY <1>2, <2>5, <2>6, <3>2 DEF ContinuedFrom
    <3> QED
      BY <3>1, <3>2
  <2>9. Producing(t)
    <3>1. MayWrite(t)
      <4>1. "write" \in new.scheduling /\ new.scheduling = use[t].scheduling
        BY <1>3, ContinuingUse
      <4> QED
        BY <4>1 DEF MayWrite
    <3> QED
      BY <1>0, <3>1 DEF UsesInShape
  <2>10. Modify \in FrontEndPermissions /\ new.immediate \in FrontEndPermissions
    BY <2>2 DEF FrontEndPermissions
  <2>11. ASSUME NEW s \in Tasks \ {t}
         PROVE  /\ use'[s].scheduling \in FrontEndPermissions
                /\ use'[s].immediate \in FrontEndPermissions
                /\ Producing(s)' <=> MayWrite(s)' \/ Writing(s)'
                /\ ~Live(s)' => use'[s].scheduling = None /\ use'[s].immediate = None
                /\ Live(s)' => LevelFlow(s)' # NoFlow
                /\ status'[s] = "unborn" => ~Live(s)'
    BY <1>0, <1>a, <1>3, <2>1 DEF UsesInShape
  <2>12. /\ use'[t].scheduling \in FrontEndPermissions
         /\ use'[t].immediate \in FrontEndPermissions
         /\ Producing(t)' /\ MayWrite(t)' /\ Live(t)'
         /\ LevelFlow(t)' # NoFlow
    BY <1>3, <2>3, <2>4, <2>7, <2>8, <2>9, <2>10
  <2>13. status'[t] # "unborn"
    BY <1>a
  <2> QED
    BY <2>11, <2>12, <2>13 DEF UsesInShape
<1>5. FlowsUntouched'
  <2> SUFFICES ASSUME NEW o \in Tasks, Unseen(o)'
               PROVE  /\ \A s \in Tasks \ {o} : \A f \in FlowsOf(use'[s]) : f = NoFlow \/ f.owner # o
                      /\ \A f \in DOMAIN alias' : f.owner # o /\ alias'[f].owner # o
    BY DEF FlowsUntouched
  <2>1. /\ \A s \in Tasks \ {o} : \A f \in FlowsOf(use[s]) : f = NoFlow \/ f.owner # o
        /\ \A f \in DOMAIN alias : f.owner # o /\ alias[f].owner # o
        /\ o # child
    BY <1>3 DEF Registered, FlowsUntouched
  <2>2. \A place : Flow(child, place).owner = child
    BY DEF Flow
  <2>3. o # t => \A f \in FlowsOf(new) : f = NoFlow \/ f.owner # o
    BY <1>2, <2>1, <2>2
  <2> QED
    BY <1>a, <1>3, <2>1, <2>3
<1>6. CapturedAsFound'
  <2> SUFFICES ASSUME NEW s \in Tasks, step'[s] = "captured"
               PROVE  use'[s] = use[s] /\ Child(s)' = Child(s) /\ use'[Child(s)] = use[Child(s)]
                      /\ step[s] = "captured"
    BY <1>0 DEF CapturedAsFound, CaseOf
  <2> QED
    BY <1>3
<1> QED
  BY <1>4, <1>5, <1>6 DEF Registered

\* Every step keeps what was registered.
LEMMA RegisteredPreserved ==
  ASSUME CasesSuffice
  PROVE  Control /\ Registered /\ [Next]_vars => Registered'
BY StepKinds, RegisteredQuiet, RegisteredCaptured, RegisteredContinuing, RegisteredReleased

(***************************************************************************)
(* The exclusion of writers                                                *)
(***************************************************************************)
\* What the flows of a task's use stand for, through the aliases.
Stands(flow) == Representative(alias, flow)

Input(s)   == Stands(use[s].in)
Output(s)  == Stands(use[s].out)
Level(s)   == Stands(LevelFlow(s))
Beyond(s)   == Stands(NextLevel(s))
Counted(s) == Stands(CountedOf(Backend, use[s]))

HasNext(s)  == NextLevel(s) # NoFlow
Running(s)  == status[s] = "running"
Touching(s) == use[s].immediate # None

\* Nobody is still to produce the input of a task.
Arrived(s) == \A p \in Tasks : Producing(p) => Output(p) # Input(s)

\* A task is between the two halves of make_captured_use_holder for a child,
\* which then comes before what the task goes on to.
Captures(s, child) == step[s] = "captured" /\ child = Child(s)
Kin(s, t) == Captures(s, t) \/ Captures(t, s)

\* A running task that may touch the data has its input, and so has the child
\* of a task that writes.
InputsArrived ==
  /\ \A s \in Tasks : Running(s) /\ Touching(s) => Arrived(s)
  /\ \A s, child \in Tasks : Captures(s, child) /\ Writing(s) => Arrived(child)

\* Nothing that a running writer had to wait for is left.
WritersAlone ==
  \A s, t \in Tasks :
    s # t /\ Running(s) /\ Writing(s) /\ Live(t) => Counted(t) # Level(s)

\* Uses whose input has arrived are of the same generation, and no two of them
\* have an output.
ArrivedTogether ==
  \A s, t \in Tasks :
    Live(s) /\ Live(t) /\ Arrived(s) /\ Arrived(t) => Level(s) = Level(t) \/ Kin(s, t)

OneArrivedProducer ==
  \A s, t \in Tasks :
    s # t /\ Producing(s) /\ Producing(t) /\ Arrived(s) /\ Arrived(t) => Kin(s, t)

\* So are uses that have the same input, arrived or not.
SameInput ==
  \A s, t \in Tasks :
    Input(s) = Input(t) =>
      /\ Live(s) /\ Live(t) => Level(s) = Level(t)
      /\ s # t /\ Producing(s) /\ Producing(t) => Kin(s, t)

\* The uses whose input is what a use may still schedule are those of its next
\* generation; only the top level can be without one.
NextGeneration ==
  \A s, t \in Tasks :
    MayWrite(s) /\ Live(t) =>
      (Input(t) = Output(s) <=> HasNext(s) /\ Level(t) = Beyond(s))

NextGenerationsDiffer ==
  \A s, t \in Tasks :
    s # t /\ MayWrite(s) /\ MayWrite(t) /\ HasNext(s) /\ HasNext(t) => Beyond(s) # Beyond(t)

\* The tasks can be put in an order in which each produces what later ones take
\* as input.
Order(before) ==
  /\ \A s \in Tasks : <<s, s>> \notin before
  /\ \A r, s, t \in Tasks : <<r, s>> \in before /\ <<s, t>> \in before => <<r, t>> \in before
  /\ \A s, t \in Tasks :
       <<s, t>> \in before => status[s] # "unborn" /\ status[t] # "unborn"
  /\ \A s, t \in Tasks : Captures(s, t) => <<t, s>> \in before
  /\ \A s, t \in Tasks :
       Producing(s) /\ Producing(t) /\ Input(t) = Output(s) => <<s, t>> \in before

InputsOrdered == \E before \in SUBSET (Tasks \X Tasks) : Order(before)

\* The inductive form of ExclusiveAccess.
Exclusion ==
  /\ InputsArrived
  /\ WritersAlone
  /\ ArrivedTogether
  /\ OneArrivedProducer
  /\ SameInput
  /\ NextGeneration
  /\ NextGenerationsDiffer
  /\ InputsOrdered

\* What a flow stands for, and that a null flow_t stands for nothing else.
LEMMA StandsForFlows ==
  ASSUME Producers
  PROVE  /\ Stands(NoFlow) = NoFlow
         /\ \A f : f # NoFlow => Stands(f) # NoFlow
         /\ \A f : IsDataFlow(f) => IsDataFlow(Stands(f))
         /\ \A f : IsAntiFlow(f) => IsAntiFlow(Stands(f))
<1>1. \A f \in DOMAIN alias : SameKind(f, alias[f])
  BY DEF Producers
<1>2. NoFlow \notin DOMAIN alias /\ \A f \in DOMAIN alias : alias[f] # NoFlow
  BY <1>1, NoFlowIsNone DEF SameKind
<1>3. Stands(NoFlow) = NoFlow /\ \A f : f # NoFlow => Stands(f) # NoFlow
  BY <1>2 DEF Stands, Representative
<1>4. ASSUME NEW f, IsDataFlow(f) PROVE IsDataFlow(Stands(f))
  BY <1>1, <1>2, <1>4 DEF Stands, Representative, IsDataFlow, SameKind, DataPlaces, AntiPlaces
<1>5. ASSUME NEW f, IsAntiFlow(f) PROVE IsAntiFlow(Stands(f))
  BY <1>1, <1>2, <1>5 DEF Stands, Representative, IsAntiFlow, SameKind, DataPlaces, AntiPlaces
<1> QED
  BY <1>3, <1>4, <1>5

\* A flow of a task that is not there yet stands for itself, and nothing that
\* others have stands for it.
LEMMA FreshFlows ==
  ASSUME Producers, FlowsUntouched, NEW o \in Tasks, Unseen(o),
         NEW f, f # NoFlow, f.owner = o
  PROVE  /\ Stands(f) = f
         /\ \A g : g = NoFlow \/ g.owner # o => Stands(g) # f
<1>1. \A h \in DOMAIN alias : h.owner # o /\ alias[h].owner # o
  BY DEF FlowsUntouched
<1>2. Stands(NoFlow) = NoFlow
  BY StandsForFlows
<1> QED
  BY <1>1, <1>2 DEF Stands, Representative

\* The producers of different tasks are different.
LEMMA OutputsDiffer ==
  ASSUME Producers, NEW s \in Tasks, NEW t \in Tasks, s # t, Producing(s), Producing(t)
  PROVE  Output(s) # Output(t)
<1>1. \A r \in {s, t} : use[r].out = Flow(r, "out") /\ use[r].out \notin DOMAIN alias
  BY NoFlowIsNone DEF Producers, Producing
<1> QED
  BY <1>1, NoFlowIsNone DEF Output, Stands, Representative

\* A use that does not write is counted in its own generation.
LEMMA ReadersCounted ==
  ASSUME NEW s \in Tasks, ~Writing(s)
  PROVE  Counted(s) = Level(s)
BY DEF Counted, Level, LevelFlow, LevelOf, CountedOf

\* No producer waits for itself.
LEMMA NoneOwnInput ==
  ASSUME InputsOrdered, NEW s \in Tasks, Producing(s)
  PROVE  Output(s) # Input(s)
BY DEF InputsOrdered, Order

\* Next to a running writer, nothing whose input has arrived is left but the
\* child it is creating.
LEMMA OnlyKinLeft ==
  ASSUME Registered, Exclusion,
         NEW t \in Tasks, Running(t), Writing(t),
         NEW s \in Tasks, s # t, Live(s), Arrived(s)
  PROVE  Kin(s, t)
<1>1. UsesInShape
  BY DEF Registered
<1>2. Producing(t) /\ Live(t) /\ Touching(t)
  BY <1>1 DEF UsesInShape, Writing, Touching, None
<1>3. Arrived(t)
  BY <1>2 DEF Exclusion, InputsArrived
<1>4. CASE Writing(s)
  <2>1. Producing(s)
    BY <1>1, <1>4 DEF UsesInShape
  <2> QED
    BY <1>2, <1>3, <2>1 DEF Exclusion, OneArrivedProducer
<1>5. CASE ~Writing(s)
  <2>1. Counted(s) = Level(s)
    BY <1>5, ReadersCounted
  <2>2. Counted(s) # Level(t)
    BY DEF Exclusion, WritersAlone
  <2> QED
    BY <1>2, <1>3, <2>1, <2>2 DEF Exclusion, ArrivedTogether
<1> QED
  BY <1>4, <1>5

\* Only running tasks capture, and what they capture for does not run.
LEMMA KinRuns ==
  ASSUME Control, NEW s \in Tasks, NEW t \in Tasks, Captures(s, t)
  PROVE  Running(s) /\ ~Running(t) /\ step[s] = "captured" /\ status[t] = "captured"
BY ChildCaptured DEF Captures, Running

\* At the start only the top level has a use, and it does not run into itself.
LEMMA ExclusionInit == Init => Exclusion
<1> SUFFICES ASSUME Init PROVE Exclusion
  OBVIOUS
<1>1. /\ InitialUse.in = Flow(Root, "in")
      /\ InitialUse.out = Flow(Root, "out")
      /\ InitialUse.immediate = None
      /\ InitialUse.anti_in = NoFlow
      /\ InitialUse.anti_out = Flow(Root, "anti_out")
  BY DEF InitialUse, MakeUse, RegisteredFlows, UseFlows, Establish, Initial, Null,
     Insignificant, CapturedPlaces, Perms
<1>2. /\ NoUse.in = NoFlow /\ NoUse.out = NoFlow
      /\ NoUse.scheduling = None /\ NoUse.immediate = None
  BY DEF NoUse, MakeUse, UseFlows, Perms
<1>3. \A s \in Tasks : /\ s = Root => use[s] = InitialUse
                       /\ s # Root => use[s] = NoUse
                       /\ step[s] = "idle"
  BY DEF Init
<1>4. /\ \A s \in Tasks : Live(s) \/ Producing(s) \/ MayWrite(s) => s = Root
      /\ \A s \in Tasks : ~Writing(s) /\ ~Touching(s)
      /\ \A s, t \in Tasks : ~Captures(s, t)
  BY <1>1, <1>2, <1>3 DEF Live, Producing, MayWrite, Writing, Touching, Captures, None
<1>5. \A f : Stands(f) = f
  BY DEF Init, Stands, Representative
<1>6. /\ Input(Root) = Flow(Root, "in") /\ Output(Root) = Flow(Root, "out")
      /\ Flow(Root, "in") # Flow(Root, "out")
  BY <1>1, <1>3, <1>5, RootIsTask DEF Input, Output, Flow
<1>7. HasNext(Root) => Level(Root) # Beyond(Root)
  <2>1. ~Writing(Root) /\ use[Root] = InitialUse
    BY <1>3, <1>4, RootIsTask
  <2>2. CASE Backend = "flows"
    BY <1>1, <1>5, <1>6, <2>1, <2>2 DEF Level, Beyond, LevelFlow, NextLevel, LevelOf, NextOf
  <2>3. CASE Backend # "flows"
    BY <1>1, <1>5, <2>1, <2>3 DEF HasNext, NextLevel, NextOf
  <2> QED
    BY <2>2, <2>3
<1>8. InputsArrived /\ WritersAlone /\ ArrivedTogether /\ OneArrivedProducer
      /\ SameInput /\ NextGenerationsDiffer
  BY <1>4 DEF InputsArrived, WritersAlone, ArrivedTogether, OneArrivedProducer,
     SameInput, NextGenerationsDiffer
<1>9. NextGeneration
  BY <1>4, <1>6, <1>7 DEF NextGeneration
<1>10. Order({})
  BY <1>4, <1>6 DEF Order
<1> QED
  BY <1>8, <1>9, <1>10 DEF Exclusion, InputsOrdered

\* A step that changes no flow starts no writer next to another.
LEMMA ExclusionQuiet ==
  ASSUME Control, Producers, Registered, Exclusion, Quiet
  PROVE  Exclusion'
<1>1. \A s \in Tasks :
        /\ use'[s].in = use[s].in
        /\ use'[s].out = use[s].out
        /\ use'[s].anti_in = use[s].anti_in
        /\ use'[s].anti_out = use[s].anti_out
        /\ use'[s].scheduling \in {use[s].scheduling, None}
        /\ use'[s].immediate = use[s].immediate
        /\ status'[s] = "unborn" <=> status[s] = "unborn"
        /\ step'[s] = "captured" <=> step[s] = "captured"
        /\ step[s] = "captured" => ops'[s] = ops[s]
        /\ status'[s] = "running" =>
             status[s] = "running" \/ Satisfied(Backend, alias, LiveUsesBut(s), use[s])
  BY DEF Quiet
<1>2. alias' = alias
  BY DEF Quiet
<1>3. \A s \in Tasks : /\ Live(s)' = Live(s) /\ Producing(s)' = Producing(s)
                       /\ Writing(s)' = Writing(s) /\ Touching(s)' = Touching(s)
                       /\ MayWrite(s)' => MayWrite(s)
                       /\ LevelFlow(s)' = LevelFlow(s) /\ NextLevel(s)' = NextLevel(s)
                       /\ CountedOf(Backend, use'[s]) = CountedOf(Backend, use[s])
  BY <1>1 DEF Live, Producing, Writing, Touching, MayWrite, LevelFlow, NextLevel,
     LevelOf, NextOf, CountedOf, None
<1>4. \A s \in Tasks : /\ Input(s)' = Input(s) /\ Output(s)' = Output(s)
                       /\ Level(s)' = Level(s) /\ Beyond(s)' = Beyond(s)
                       /\ Counted(s)' = Counted(s) /\ HasNext(s)' = HasNext(s)
  BY <1>1, <1>2, <1>3 DEF Input, Output, Level, Beyond, Counted, HasNext, Stands
<1>5. \A s \in Tasks : Arrived(s)' = Arrived(s)
  BY <1>3, <1>4 DEF Arrived
<1>6. \A s, t \in Tasks : Captures(s, t)' = Captures(s, t) /\ Kin(s, t)' = Kin(s, t)
  BY <1>1 DEF Kin, Captures, Child
<1>7. \A s \in Tasks : Running(s)' =>
        Running(s) \/ Satisfied(Backend, alias, LiveUsesBut(s), use[s])
  BY <1>1 DEF Running
<1>8. ASSUME NEW s \in Tasks, NEW t \in Tasks, s # t, Live(t) \/ Producing(t)
      PROVE  use[t] \in LiveUsesBut(s)
  <2>1. use[t] # NoUse
    BY <1>8 DEF Live, Producing, NoUse, MakeUse, UseFlows
  <2> QED
    BY <1>8, <2>1 DEF LiveUsesBut, IsUse
<1>9. ASSUME NEW s \in Tasks, Satisfied(Backend, alias, LiveUsesBut(s), use[s]), Touching(s)
      PROVE  Arrived(s)
  <2>1. use[s].immediate \in FrontEndPermissions
    BY DEF Registered, UsesInShape
  <2>2. is_dependency(use[s])
    BY <1>9, <2>1 DEF is_dependency, Touching, FrontEndPermissions, None, Read, Modify
  <2>3. \A u \in LiveUsesBut(s) : ~Equivalent(alias, u.out, use[s].in)
    BY <1>9, <2>2 DEF Satisfied, Available
  <2>4. \A p \in Tasks \ {s} : Producing(p) => Output(p) # Input(s)
    BY <1>8, <2>3 DEF Equivalent, Output, Input, Stands
  <2>5. Producing(s) => Output(s) # Input(s)
    BY NoneOwnInput DEF Exclusion
  <2> QED
    BY <2>4, <2>5 DEF Arrived
<1>10. ASSUME NEW s \in Tasks, Satisfied(Backend, alias, LiveUsesBut(s), use[s]), Writing(s),
              NEW t \in Tasks, s # t, Live(t)
       PROVE  Counted(t) # Level(s)
  <2>1. is_anti_dependency(use[s])
    BY <1>10 DEF is_anti_dependency, Writing
  <2>2. use[t] \in LiveUsesBut(s)
    BY <1>8, <1>10
  <2>3. CASE Backend = "flows"
    <3>1. ~Equivalent(alias, use[t].in, use[s].in)
      BY <1>10, <2>1, <2>2, <2>3 DEF Satisfied, InputUnused
    <3> QED
      BY <2>3, <3>1 DEF Equivalent, Counted, Level, LevelFlow, LevelOf, CountedOf, Stands
  <2>4. CASE Backend # "flows"
    <3>1. Live(s)
      BY <1>10 DEF Registered, UsesInShape, Writing, None
    <3>2. use[s].anti_in # NoFlow
      BY <1>10, <2>4, <3>1 DEF Registered, UsesInShape, LevelFlow, LevelOf
    <3>3. ~Equivalent(alias, use[t].anti_out, use[s].anti_in)
      BY <1>10, <2>1, <2>2, <2>4, <3>2 DEF Satisfied, AntiFlowCleared
    <3> QED
      BY <1>10, <2>4, <3>3 DEF Equivalent, Counted, Level, LevelFlow, LevelOf, CountedOf, Stands
  <2> QED
    BY <2>3, <2>4
<1>11. InputsArrived'
  BY <1>3, <1>5, <1>6, <1>7, <1>9 DEF Exclusion, InputsArrived
<1>12. WritersAlone'
  <2> SUFFICES ASSUME NEW s \in Tasks, NEW t \in Tasks, s # t, Running(s)', Writing(s), Live(t)
               PROVE  Counted(t) # Level(s)
    BY <1>3, <1>4 DEF WritersAlone
  <2> QED
    BY <1>7, <1>10 DEF Exclusion, WritersAlone
<1>13. ArrivedTogether' /\ OneArrivedProducer'
  BY <1>3, <1>4, <1>5, <1>6 DEF Exclusion, ArrivedTogether, OneArrivedProducer
<1>14. SameInput'
  BY <1>3, <1>4, <1>6 DEF Exclusion, SameInput
<1>15. NextGeneration' /\ NextGenerationsDiffer'
  BY <1>3, <1>4 DEF Exclusion, NextGeneration, NextGenerationsDiffer
<1>16. InputsOrdered'
  <2>1. PICK before \in SUBSET (Tasks \X Tasks) : Order(before)
    BY DEF Exclusion, InputsOrdered
  <2>2. Order(before)'
    BY <1>1, <1>3, <1>4, <1>6, <2>1 DEF Order
  <2> QED
    BY <2>2 DEF InputsOrdered
<1> QED
  BY <1>11, <1>12, <1>13, <1>14, <1>15, <1>16 DEF Exclusion

\* What flows stand for after two of them were made equivalent.
LEMMA AliasStands ==
  ASSUME NEW a, NEW f, NEW g, f # NoFlow, g # NoFlow, NEW h
  PROVE  Representative(EstablishAlias(a, f, g), h)
           = IF Representative(a, h) = Representative(a, f)
             THEN Representative(a, g) ELSE Representative(a, h)
BY DEF EstablishAlias, Representative

\* The release of a use that may schedule writers and does not write gives its
\* output the name of its input, and its next generation becomes its own.
LEMMA AliasReleases ==
  ASSUME Producers, UsesInShape, NEW t \in Tasks, MayWrite(t), ~Writing(t),
         alias' = ReleaseAlias(alias, use[t])
  PROVE  /\ \A h : IsDataFlow(h) =>
              Stands(h)' = IF Stands(h) = Output(t) THEN Input(t) ELSE Stands(h)
         /\ \A h : IsAntiFlow(h) /\ Backend # "flows" =>
              Stands(h)' = IF HasNext(t) /\ Stands(h) = Beyond(t) THEN Level(t) ELSE Stands(h)
<1> DEFINE u == use[t]
           a == EstablishAlias(alias, u.out, u.in)
<1>1. u.out # NoFlow /\ u.in # NoFlow
  BY DEF UsesInShape, Producing, MayWrite, Live, None
<1>2. IsDataFlow(u.in) /\ IsDataFlow(u.out) /\ IsAntiFlow(u.anti_in) /\ IsAntiFlow(u.anti_out)
  BY DEF Producers, KindsKept
<1>3. /\ Stands(NoFlow) = NoFlow
      /\ \A f : f # NoFlow => Stands(f) # NoFlow
      /\ \A f : IsDataFlow(f) => IsDataFlow(Stands(f))
      /\ \A f : IsAntiFlow(f) => IsAntiFlow(Stands(f))
  BY StandsForFlows
<1>4. \A f : IsDataFlow(f) /\ IsAntiFlow(f) => f = NoFlow
  BY DEF IsDataFlow, IsAntiFlow, DataPlaces, AntiPlaces
<1>5. alias' = EstablishAlias(a, u.anti_in, u.anti_out)
  BY DEF ReleaseAlias
<1>6. Output(t) = Stands(u.out) /\ Input(t) = Stands(u.in)
  BY DEF Output, Input
<1> HIDE DEF u
<1>7. \A h : Representative(a, h) = IF Stands(h) = Stands(u.out) THEN Stands(u.in) ELSE Stands(h)
  BY <1>1, AliasStands DEF Stands
<1> HIDE DEF a
<1>8. \A h : IsAntiFlow(h) => Representative(a, h) = Stands(h)
  <2> SUFFICES ASSUME NEW h, IsAntiFlow(h) PROVE Stands(h) # Stands(u.out)
    BY <1>7
  <2>1. IsAntiFlow(Stands(h)) /\ IsDataFlow(Stands(u.out)) /\ Stands(u.out) # NoFlow
    BY <1>1, <1>2, <1>3
  <2> QED
    BY <1>4, <2>1
<1>9. \A h : Stands(h)' =
        IF u.anti_in # NoFlow /\ u.anti_out # NoFlow /\ Representative(a, h) = Stands(u.anti_in)
        THEN Stands(u.anti_out) ELSE Representative(a, h)
  <2>1. CASE u.anti_in = NoFlow \/ u.anti_out = NoFlow
    <3>1. alias' = a
      BY <1>5, <2>1 DEF EstablishAlias
    <3> QED
      BY <2>1, <3>1 DEF Stands
  <2>2. CASE u.anti_in # NoFlow /\ u.anti_out # NoFlow
    <3>1. \A h : Representative(alias', h) =
            IF Representative(a, h) = Representative(a, u.anti_in)
            THEN Representative(a, u.anti_out) ELSE Representative(a, h)
      BY <1>5, <2>2, AliasStands
    <3>2. Representative(a, u.anti_in) = Stands(u.anti_in)
          /\ Representative(a, u.anti_out) = Stands(u.anti_out)
      BY <1>2, <1>8
    <3> QED
      BY <2>2, <3>1, <3>2 DEF Stands
  <2> QED
    BY <2>1, <2>2
<1>10. ASSUME NEW h, IsDataFlow(h)
       PROVE  Stands(h)' = IF Stands(h) = Output(t) THEN Input(t) ELSE Stands(h)
  <2>1. IsDataFlow(Representative(a, h))
    BY <1>2, <1>3, <1>7, <1>10
  <2>2. u.anti_in # NoFlow => Representative(a, h) # Stands(u.anti_in)
    BY <1>2, <1>3, <1>4, <2>1
  <2> QED
    BY <1>6, <1>7, <1>9, <2>2
<1>11. ASSUME NEW h, IsAntiFlow(h), Backend # "flows"
       PROVE  Stands(h)' = IF HasNext(t) /\ Stands(h) = Beyond(t) THEN Level(t) ELSE Stands(h)
  <2>1. LevelFlow(t) = u.anti_out /\ NextLevel(t) = u.anti_in
    BY <1>11 DEF LevelFlow, NextLevel, LevelOf, NextOf, u
  <2>2. u.anti_out # NoFlow
    BY <1>1, <2>1 DEF UsesInShape, Live, u
  <2>3. Stands(h)' = IF u.anti_in # NoFlow /\ Stands(h) = Stands(u.anti_in)
                     THEN Stands(u.anti_out) ELSE Stands(h)
    BY <1>8, <1>9, <1>11, <2>2
  <2> QED
    BY <2>1, <2>3 DEF HasNext, Beyond, Level
<1> QED
  BY <1>10, <1>11

\* The release of a handle: what every other task has stays, but for the names.
LEMMA OthersReleased ==
  ASSUME Control, NEW t \in Tasks, ReleaseHandle(t)
  PROVE  /\ Running(t) /\ ~Running(t)'
         /\ ~Live(t)' /\ ~Producing(t)' /\ ~MayWrite(t)'
         /\ \A s \in Tasks \ {t} :
              /\ use'[s] = use[s]
              /\ Running(s)' = Running(s) /\ Live(s)' = Live(s) /\ Producing(s)' = Producing(s)
              /\ MayWrite(s)' = MayWrite(s) /\ Writing(s)' = Writing(s)
              /\ Touching(s)' = Touching(s)
              /\ LevelFlow(s)' = LevelFlow(s) /\ NextLevel(s)' = NextLevel(s)
              /\ HasNext(s)' = HasNext(s)
         /\ \A s \in Tasks : status'[s] = "unborn" <=> status[s] = "unborn"
         /\ \A r, s \in Tasks : Captures(r, s)' = Captures(r, s) /\ Kin(r, s)' = Kin(r, s)
         /\ \A s \in Tasks : ~Captures(t, s) /\ ~Captures(s, t)
<1>1. /\ status[t] = "running" /\ step[t] = "idle"
      /\ use' = [use EXCEPT ![t] = NoUse]
      /\ status' = [status EXCEPT ![t] = "done"]
      /\ UNCHANGED <<step, ops>>
  BY ReleaseStep
<1>2. /\ \A s \in Tasks \ {t} : use'[s] = use[s] /\ status'[s] = status[s]
      /\ use'[t] = NoUse /\ status'[t] = "done"
  BY <1>1 DEF Control, TypeOK
<1>3. NoUse.in = NoFlow /\ NoUse.out = NoFlow /\ NoUse.scheduling = None
  BY DEF NoUse, MakeUse, UseFlows, Perms
<1>4. \A s \in Tasks \ {t} :
        /\ Live(s)' = Live(s) /\ Producing(s)' = Producing(s)
        /\ MayWrite(s)' = MayWrite(s) /\ Writing(s)' = Writing(s)
        /\ Touching(s)' = Touching(s)
        /\ LevelFlow(s)' = LevelFlow(s) /\ NextLevel(s)' = NextLevel(s)
  BY <1>2 DEF Live, Producing, MayWrite, Writing, Touching, LevelFlow, NextLevel
<1>5. ~Live(t)' /\ ~Producing(t)' /\ ~MayWrite(t)'
  BY <1>2, <1>3 DEF Live, Producing, MayWrite, None
<1>6. \A r, s \in Tasks : Captures(r, s)' = Captures(r, s)
  BY <1>1 DEF Captures, Child
<1>7. \A s \in Tasks : ~Captures(t, s) /\ ~Captures(s, t)
  BY <1>1, KinRuns DEF Captures
<1>8. \A r, s \in Tasks : Kin(r, s)' = Kin(r, s)
  BY <1>6 DEF Kin
<1>9. /\ Running(t) /\ ~Running(t)'
      /\ \A s \in Tasks \ {t} : Running(s)' = Running(s)
      /\ \A s \in Tasks : status'[s] = "unborn" <=> status[s] = "unborn"
  BY <1>1, <1>2 DEF Running
<1>10. \A s \in Tasks \ {t} : HasNext(s)' = HasNext(s)
  BY <1>4 DEF HasNext
<1> QED
  BY <1>2, <1>4, <1>5, <1>6, <1>7, <1>8, <1>9, <1>10

\* A release that is no alias: either the use produced nothing, or it is that of
\* a writer, next to which nothing that had its input was left.
LEMMA ExclusionReleased ==
  ASSUME Control, Registered, Exclusion, NEW t \in Tasks, ReleaseHandle(t),
         alias' = alias,
         Producing(t) => Writing(t)
  PROVE  Exclusion'
<1>1. /\ Running(t) /\ ~Running(t)'
      /\ ~Live(t)' /\ ~Producing(t)' /\ ~MayWrite(t)'
      /\ \A s \in Tasks \ {t} :
           /\ use'[s] = use[s]
           /\ Running(s)' = Running(s) /\ Live(s)' = Live(s) /\ Producing(s)' = Producing(s)
           /\ MayWrite(s)' = MayWrite(s) /\ Writing(s)' = Writing(s)
           /\ Touching(s)' = Touching(s)
           /\ LevelFlow(s)' = LevelFlow(s) /\ NextLevel(s)' = NextLevel(s)
           /\ HasNext(s)' = HasNext(s)
      /\ \A s \in Tasks : status'[s] = "unborn" <=> status[s] = "unborn"
      /\ \A r, s \in Tasks : Captures(r, s)' = Captures(r, s) /\ Kin(r, s)' = Kin(r, s)
      /\ \A s \in Tasks : ~Captures(t, s) /\ ~Captures(s, t)
  BY OthersReleased
<1>2. \A s \in Tasks \ {t} :
        /\ Input(s)' = Input(s) /\ Output(s)' = Output(s) /\ Level(s)' = Level(s)
        /\ Beyond(s)' = Beyond(s) /\ Counted(s)' = Counted(s)
  BY <1>1 DEF Input, Output, Level, Beyond, Counted, CountedOf, Stands
<1>3. \A s \in Tasks \ {t} : Arrived(s) => Arrived(s)'
  BY <1>1, <1>2 DEF Arrived
<1>4. \A s \in Tasks \ {t} : Arrived(s)' =>
        Arrived(s) \/ (Producing(t) /\ Writing(t) /\ Input(s) = Output(t))
  BY <1>1, <1>2 DEF Arrived
<1>5. \A s \in Tasks \ {t} : Arrived(s) /\ Live(s) => ~Writing(t)
  <2> SUFFICES ASSUME NEW s \in Tasks \ {t}, Arrived(s), Live(s), Writing(t) PROVE FALSE
    OBVIOUS
  <2>1. Kin(s, t)
    BY <1>1, OnlyKinLeft
  <2> QED
    BY <1>1, <2>1 DEF Kin
<1>6. \A s \in Tasks : Producing(s) \/ Writing(s) \/ Touching(s) => Live(s)
  BY DEF Registered, UsesInShape, Producing, MayWrite, Writing, Touching, None
<1>7. InputsArrived'
  <2>1. \A s \in Tasks : Running(s)' /\ Touching(s)' => Arrived(s)'
    BY <1>1, <1>3 DEF Exclusion, InputsArrived
  <2>2. \A s, child \in Tasks : Captures(s, child)' /\ Writing(s)' => Arrived(child)'
    BY <1>1, <1>3 DEF Exclusion, InputsArrived
  <2> QED
    BY <2>1, <2>2 DEF InputsArrived
<1>8. WritersAlone'
  BY <1>1, <1>2 DEF Exclusion, WritersAlone
<1>9. ArrivedTogether'
  <2> SUFFICES ASSUME NEW r \in Tasks \ {t}, NEW s \in Tasks \ {t}, Live(r), Live(s),
                      Arrived(r)', Arrived(s)'
               PROVE  Level(r) = Level(s) \/ Kin(r, s)
    BY <1>1, <1>2 DEF ArrivedTogether
  <2>1. CASE Arrived(r) /\ Arrived(s)
    BY <2>1 DEF Exclusion, ArrivedTogether
  <2>2. CASE ~Arrived(r) /\ ~Arrived(s)
    <3>1. Input(r) = Input(s)
      BY <1>4, <2>2
    <3> QED
      BY <3>1 DEF Exclusion, SameInput
  <2>3. CASE Arrived(r) /\ ~Arrived(s)
    BY <1>4, <1>5, <2>3
  <2>4. CASE ~Arrived(r) /\ Arrived(s)
    BY <1>4, <1>5, <2>4
  <2> QED
    BY <2>1, <2>2, <2>3, <2>4, Zenon
<1>10. OneArrivedProducer'
  <2> SUFFICES ASSUME NEW r \in Tasks \ {t}, NEW s \in Tasks \ {t}, r # s,
                      Producing(r), Producing(s), Arrived(r)', Arrived(s)'
               PROVE  Kin(r, s)
    BY <1>1 DEF OneArrivedProducer
  <2>1. CASE Arrived(r) /\ Arrived(s)
    BY <2>1 DEF Exclusion, OneArrivedProducer
  <2>2. CASE ~Arrived(r) /\ ~Arrived(s)
    <3>1. Input(r) = Input(s)
      BY <1>4, <2>2
    <3> QED
      BY <3>1 DEF Exclusion, SameInput
  <2>3. CASE Arrived(r) /\ ~Arrived(s)
    BY <1>4, <1>5, <1>6, <2>3
  <2>4. CASE ~Arrived(r) /\ Arrived(s)
    BY <1>4, <1>5, <1>6, <2>4
  <2> QED
    BY <2>1, <2>2, <2>3, <2>4, Zenon
<1>11. SameInput'
  <2> SUFFICES ASSUME NEW r \in Tasks, NEW s \in Tasks, Input(r)' = Input(s)'
               PROVE  /\ Live(r)' /\ Live(s)' => Level(r)' = Level(s)'
                      /\ r # s /\ Producing(r)' /\ Producing(s)' => Kin(r, s)'
    BY DEF SameInput
  <2>1. CASE r = t \/ s = t
    BY <1>1, <2>1
  <2>2. CASE r # t /\ s # t
    BY <1>1, <1>2, <2>2 DEF Exclusion, SameInput
  <2> QED
    BY <2>1, <2>2
<1>12. NextGeneration'
  <2> SUFFICES ASSUME NEW r \in Tasks \ {t}, NEW s \in Tasks \ {t}, MayWrite(r), Live(s)
               PROVE  Input(s)' = Output(r)' <=> HasNext(r)' /\ Level(s)' = Beyond(r)'
    BY <1>1 DEF NextGeneration
  <2> QED
    BY <1>1, <1>2 DEF Exclusion, NextGeneration
<1>13. NextGenerationsDiffer'
  BY <1>1, <1>2 DEF Exclusion, NextGenerationsDiffer
<1>14. InputsOrdered'
  <2>1. PICK before \in SUBSET (Tasks \X Tasks) : Order(before)
    BY DEF Exclusion, InputsOrdered
  <2>2. Order(before)'
    BY <1>1, <1>2, <2>1 DEF Order
  <2> QED
    BY <2>2 DEF InputsOrdered
<1> QED
  BY <1>7, <1>8, <1>9, <1>10, <1>11, <1>12, <1>13, <1>14 DEF Exclusion

\* What the tasks have after a release as an alias: what waited for the output
\* now has, or waits for, the input, and its generation is that of the use.
LEMMA Renamed ==
  ASSUME Control, Producers, Registered, Exclusion, NEW t \in Tasks, ReleaseHandle(t),
         MayWrite(t), ~Writing(t),
         alias' = ReleaseAlias(alias, use[t]),
         NEW s \in Tasks \ {t}
  PROVE  /\ Input(s)' = IF Input(s) = Output(t) THEN Input(t) ELSE Input(s)
         /\ Output(s)' = Output(s)
         /\ Producing(s) => Output(s) # Output(t)
         /\ Level(s)' = IF HasNext(t) /\ Level(s) = Beyond(t) THEN Level(t) ELSE Level(s)
         /\ Beyond(s)' = IF HasNext(t) /\ Beyond(s) = Beyond(t) THEN Level(t) ELSE Beyond(s)
         /\ Counted(s)' = IF HasNext(t) /\ Counted(s) = Beyond(t) THEN Level(t) ELSE Counted(s)
<1>1. UsesInShape
  BY DEF Registered
<1>2. /\ \A h : IsDataFlow(h) =>
           Stands(h)' = IF Stands(h) = Output(t) THEN Input(t) ELSE Stands(h)
      /\ \A h : IsAntiFlow(h) /\ Backend # "flows" =>
           Stands(h)' = IF HasNext(t) /\ Stands(h) = Beyond(t) THEN Level(t) ELSE Stands(h)
  BY <1>1, AliasReleases
<1>3. KindsKept(use[s]) /\ use'[s] = use[s]
      /\ LevelFlow(s)' = LevelFlow(s) /\ NextLevel(s)' = NextLevel(s)
  BY OthersReleased DEF Producers
<1>4. Input(s)' = IF Input(s) = Output(t) THEN Input(t) ELSE Input(s)
  BY <1>2, <1>3 DEF Input, KindsKept, Stands
<1>5. Producing(t)
  BY <1>1 DEF UsesInShape
<1>6. Producing(s) => Output(s) # Output(t)
  BY <1>5, OutputsDiffer
<1>7. Output(s)' = Output(s)
  <2>1. Output(s)' = IF Output(s) = Output(t) THEN Input(t) ELSE Output(s)
    BY <1>2, <1>3 DEF Output, KindsKept, Stands
  <2>2. ~Producing(s) => Output(s) = NoFlow /\ Output(t) # NoFlow
    BY <1>5, StandsForFlows DEF Producing, Output
  <2> QED
    BY <1>6, <2>1, <2>2
<1>8. \A h : h \in {LevelFlow(s), NextLevel(s), CountedOf(Backend, use[s])} =>
        Stands(h)' = IF HasNext(t) /\ Stands(h) = Beyond(t) THEN Level(t) ELSE Stands(h)
  <2>1. CASE Backend = "flows"
    <3>1. LevelFlow(t) = use[t].in /\ NextLevel(t) = use[t].out
      BY <2>1 DEF LevelFlow, NextLevel, LevelOf, NextOf
    <3>2. HasNext(t) /\ Beyond(t) = Output(t) /\ Level(t) = Input(t)
      BY <1>5, <3>1 DEF HasNext, Producing, Beyond, Output, Level, Input
    <3>3. \A h \in {LevelFlow(s), NextLevel(s), CountedOf(Backend, use[s])} : IsDataFlow(h)
      BY <1>3, <2>1 DEF LevelFlow, NextLevel, LevelOf, NextOf, CountedOf, KindsKept
    <3> QED
      BY <1>2, <3>2, <3>3
  <2>2. CASE Backend # "flows"
    <3>1. \A h \in {LevelFlow(s), NextLevel(s), CountedOf(Backend, use[s])} : IsAntiFlow(h)
      BY <1>3, <2>2 DEF LevelFlow, NextLevel, LevelOf, NextOf, CountedOf, KindsKept
    <3> QED
      BY <1>2, <2>2, <3>1
  <2> QED
    BY <2>1, <2>2
<1>9. Level(s)' = Stands(LevelFlow(s))' /\ Beyond(s)' = Stands(NextLevel(s))'
      /\ Counted(s)' = Stands(CountedOf(Backend, use[s]))'
  BY <1>3 DEF Level, Beyond, Counted, CountedOf
<1>10. Level(s)' = IF HasNext(t) /\ Level(s) = Beyond(t) THEN Level(t) ELSE Level(s)
  BY <1>3, <1>8, <1>9 DEF Level, Stands
<1>11. Beyond(s)' = IF HasNext(t) /\ Beyond(s) = Beyond(t) THEN Level(t) ELSE Beyond(s)
  BY <1>3, <1>8, <1>9 DEF Beyond, Stands
<1>12. Counted(s)' = IF HasNext(t) /\ Counted(s) = Beyond(t) THEN Level(t) ELSE Counted(s)
  BY <1>3, <1>8, <1>9 DEF Counted, Stands, CountedOf
<1> QED
  BY <1>4, <1>6, <1>7, <1>10, <1>11, <1>12

\* A release as an alias: the next generation becomes that of the use, and takes
\* its place among those that have arrived, or among those it waits with.
LEMMA ExclusionRenamed ==
  ASSUME Control, Producers, Registered, Exclusion, NEW t \in Tasks, ReleaseHandle(t),
         MayWrite(t), ~Writing(t),
         alias' = ReleaseAlias(alias, use[t])
  PROVE  Exclusion'
<1>1. /\ Running(t) /\ ~Running(t)'
      /\ ~Live(t)' /\ ~Producing(t)' /\ ~MayWrite(t)'
      /\ \A s \in Tasks \ {t} :
           /\ Running(s)' = Running(s) /\ Live(s)' = Live(s) /\ Producing(s)' = Producing(s)
           /\ MayWrite(s)' = MayWrite(s) /\ Writing(s)' = Writing(s)
           /\ Touching(s)' = Touching(s)
           /\ HasNext(s)' = HasNext(s)
      /\ \A s \in Tasks : status'[s] = "unborn" <=> status[s] = "unborn"
      /\ \A r, s \in Tasks : Captures(r, s)' = Captures(r, s) /\ Kin(r, s)' = Kin(r, s)
      /\ \A s \in Tasks : ~Captures(t, s) /\ ~Captures(s, t)
  BY OthersReleased
<1>2. /\ \A s \in Tasks \ {t} :
           Input(s)' = IF Input(s) = Output(t) THEN Input(t) ELSE Input(s)
      /\ \A s \in Tasks \ {t} : Output(s)' = Output(s)
      /\ \A s \in Tasks \ {t} : Producing(s) => Output(s) # Output(t)
  BY Renamed
<1>3. /\ \A s \in Tasks \ {t} :
           Level(s)' = IF HasNext(t) /\ Level(s) = Beyond(t) THEN Level(t) ELSE Level(s)
      /\ \A s \in Tasks \ {t} :
           Beyond(s)' = IF HasNext(t) /\ Beyond(s) = Beyond(t) THEN Level(t) ELSE Beyond(s)
      /\ \A s \in Tasks \ {t} :
           Counted(s)' = IF HasNext(t) /\ Counted(s) = Beyond(t) THEN Level(t) ELSE Counted(s)
  BY Renamed
<1>4. Producing(t) /\ Live(t)
  BY DEF Registered, UsesInShape, MayWrite, None
<1>5. \A s \in Tasks : /\ MayWrite(s) => Producing(s)
                       /\ Producing(s) \/ Writing(s) \/ Touching(s) => Live(s)
                       /\ Writing(s) => Touching(s)
  BY DEF Registered, UsesInShape, Producing, MayWrite, Writing, Touching, None
<1>6. Output(t) # Input(t)
  BY <1>4, NoneOwnInput DEF Exclusion
<1>7. \A s \in Tasks \ {t} : Arrived(s)' <=>
        IF Input(s) = Output(t) THEN Arrived(t) ELSE Arrived(s)
  <2> SUFFICES ASSUME NEW s \in Tasks \ {t}
               PROVE  Arrived(s)' <=> IF Input(s) = Output(t) THEN Arrived(t) ELSE Arrived(s)
    OBVIOUS
  <2>1. Arrived(s)' <=> \A p \in Tasks \ {t} : Producing(p) => Output(p) # Input(s)'
    BY <1>1, <1>2 DEF Arrived
  <2>2. CASE Input(s) = Output(t)
    <3>1. Input(s)' = Input(t)
      BY <1>2, <2>2
    <3> QED
      BY <1>6, <2>1, <2>2, <3>1 DEF Arrived
  <2>3. CASE Input(s) # Output(t)
    <3>1. Input(s)' = Input(s)
      BY <1>2, <2>3
    <3> QED
      BY <2>1, <2>3, <3>1 DEF Arrived
  <2> QED
    BY <2>2, <2>3
<1>8. \A s \in Tasks : Arrived(s) => Input(s) # Output(t)
  BY <1>4 DEF Arrived
<1>9. \A s \in Tasks : Live(s) => (Input(s) = Output(t) <=> HasNext(t) /\ Level(s) = Beyond(t))
  BY DEF Exclusion, NextGeneration
<1>10. \A s \in Tasks \ {t} : Arrived(t) /\ Arrived(s) =>
         /\ Live(s) => Level(s) = Level(t)
         /\ ~Producing(s)
  <2>1. \A s \in Tasks : ~Kin(t, s) /\ ~Kin(s, t)
    BY <1>1 DEF Kin
  <2> QED
    BY <1>4, <2>1 DEF Exclusion, ArrivedTogether, OneArrivedProducer
<1>11. \A s \in Tasks \ {t} : Input(s) = Input(t) =>
         /\ Live(s) => Level(s) = Level(t)
         /\ ~Producing(s)
  <2>1. \A s \in Tasks : ~Kin(t, s) /\ ~Kin(s, t)
    BY <1>1 DEF Kin
  <2> QED
    BY <1>4, <2>1 DEF Exclusion, SameInput
<1>12. InputsArrived'
  <2>1. \A s \in Tasks : Running(s)' /\ Touching(s)' => Arrived(s)'
    BY <1>1, <1>7, <1>8 DEF Exclusion, InputsArrived
  <2>2. \A s, child \in Tasks : Captures(s, child)' /\ Writing(s)' => Arrived(child)'
    BY <1>1, <1>7, <1>8 DEF Exclusion, InputsArrived
  <2> QED
    BY <2>1, <2>2 DEF InputsArrived
<1>13. WritersAlone'
  <2> SUFFICES ASSUME NEW r \in Tasks \ {t}, NEW s \in Tasks \ {t}, r # s,
                      Running(r), Writing(r), Live(s)
               PROVE  Counted(s)' # Level(r)'
    BY <1>1 DEF WritersAlone
  <2>1. Arrived(r) /\ Live(r)
    BY <1>5 DEF Exclusion, InputsArrived
  <2>2. Level(r)' = Level(r)
    BY <1>3, <1>8, <1>9, <2>1
  <2>3. Counted(s) # Level(r) /\ Counted(t) # Level(r)
    BY <1>4 DEF Exclusion, WritersAlone
  <2>4. Counted(t) = Level(t)
    BY ReadersCounted
  <2>5. Counted(s)' \in {Counted(s), Level(t)}
    BY <1>3
  <2> QED
    BY <2>2, <2>3, <2>4, <2>5
<1>14. ASSUME NEW r \in Tasks \ {t}, NEW s \in Tasks \ {t}, Live(r), Live(s),
              Level(r) = Level(s)
       PROVE  Level(r)' = Level(s)'
  BY <1>3, <1>14
<1>15. ASSUME NEW r \in Tasks \ {t}, NEW s \in Tasks \ {t}, Live(r), Live(s),
              Input(r) = Output(t), Level(s) = Level(t)
       PROVE  Level(r)' = Level(s)'
  BY <1>3, <1>9, <1>15
<1>16. ArrivedTogether'
  <2> SUFFICES ASSUME NEW r \in Tasks \ {t}, NEW s \in Tasks \ {t}, Live(r), Live(s),
                      Arrived(r)', Arrived(s)'
               PROVE  Level(r)' = Level(s)' \/ Kin(r, s)
    BY <1>1 DEF ArrivedTogether
  <2>1. CASE Input(r) # Output(t) /\ Input(s) # Output(t)
    BY <1>7, <1>14, <2>1 DEF Exclusion, ArrivedTogether
  <2>2. CASE Input(r) = Output(t) /\ Input(s) = Output(t)
    BY <1>14, <2>2 DEF Exclusion, SameInput
  <2>3. CASE Input(r) = Output(t) /\ Input(s) # Output(t)
    BY <1>7, <1>10, <1>15, <2>3
  <2>4. CASE Input(r) # Output(t) /\ Input(s) = Output(t)
    BY <1>7, <1>10, <1>15, <2>4
  <2> QED
    BY <2>1, <2>2, <2>3, <2>4
<1>17. OneArrivedProducer'
  <2> SUFFICES ASSUME NEW r \in Tasks \ {t}, NEW s \in Tasks \ {t}, r # s,
                      Producing(r), Producing(s), Arrived(r)', Arrived(s)'
               PROVE  Kin(r, s)
    BY <1>1 DEF OneArrivedProducer
  <2>1. CASE Input(r) # Output(t) /\ Input(s) # Output(t)
    BY <1>7, <2>1 DEF Exclusion, OneArrivedProducer
  <2>2. CASE Input(r) = Output(t) /\ Input(s) = Output(t)
    BY <2>2 DEF Exclusion, SameInput
  <2>3. CASE Input(r) = Output(t) /\ Input(s) # Output(t)
    BY <1>7, <1>10, <2>3
  <2>4. CASE Input(r) # Output(t) /\ Input(s) = Output(t)
    BY <1>7, <1>10, <2>4
  <2> QED
    BY <2>1, <2>2, <2>3, <2>4
<1>18. SameInput'
  <2> SUFFICES ASSUME NEW r \in Tasks, NEW s \in Tasks, Input(r)' = Input(s)'
               PROVE  /\ Live(r)' /\ Live(s)' => Level(r)' = Level(s)'
                      /\ r # s /\ Producing(r)' /\ Producing(s)' => Kin(r, s)'
    BY DEF SameInput
  <2>1. CASE r = t \/ s = t
    BY <1>1, <2>1
  <2>2. CASE r # t /\ s # t
    <3>1. CASE Input(r) = Input(s)
      BY <1>1, <1>14, <2>2, <3>1 DEF Exclusion, SameInput
    <3>2. CASE Input(r) = Output(t) /\ Input(s) = Input(t)
      BY <1>1, <1>11, <1>15, <2>2, <3>2
    <3>3. CASE Input(s) = Output(t) /\ Input(r) = Input(t)
      BY <1>1, <1>11, <1>15, <2>2, <3>3
    <3> QED
      BY <1>2, <2>2, <3>1, <3>2, <3>3
  <2> QED
    BY <2>1, <2>2
<1>19. \A s \in Tasks \ {t} : MayWrite(s) /\ HasNext(s) => Beyond(s)' = Beyond(s)
  BY <1>3 DEF Exclusion, NextGenerationsDiffer
<1>20. NextGeneration'
  <2> SUFFICES ASSUME NEW r \in Tasks \ {t}, NEW s \in Tasks \ {t}, MayWrite(r), Live(s)
               PROVE  Input(s)' = Output(r) <=> HasNext(r) /\ Level(s)' = Beyond(r)
    BY <1>1, <1>2, <1>19 DEF NextGeneration
  <2>1. /\ Input(s) = Output(r) <=> HasNext(r) /\ Level(s) = Beyond(r)
        /\ Input(t) = Output(r) <=> HasNext(r) /\ Level(t) = Beyond(r)
    BY <1>4 DEF Exclusion, NextGeneration
  <2> QED
    BY <1>2, <1>3, <1>9, <2>1
<1>21. NextGenerationsDiffer'
  BY <1>1, <1>19 DEF Exclusion, NextGenerationsDiffer
<1>22. InputsOrdered'
  <2>1. PICK before \in SUBSET (Tasks \X Tasks) : Order(before)
    BY DEF Exclusion, InputsOrdered
  <2>2. ASSUME NEW r \in Tasks \ {t}, NEW s \in Tasks \ {t}, Producing(r), Producing(s),
               Input(s)' = Output(r)
        PROVE  <<r, s>> \in before
    <3>1. CASE Input(s) = Output(r)
      BY <2>1, <2>2, <3>1 DEF Order
    <3>2. CASE Input(s) = Output(t) /\ Input(t) = Output(r)
      <4>1. <<t, s>> \in before /\ <<r, t>> \in before
        BY <1>4, <2>1, <2>2, <3>2 DEF Order
      <4> QED
        BY <2>1, <4>1 DEF Order
    <3> QED
      BY <1>2, <2>2, <3>1, <3>2
  <2>3. Order(before)'
    <3>1. \A r, s \in Tasks : Producing(r)' /\ Producing(s)' /\ Input(s)' = Output(r)'
            => <<r, s>> \in before
      BY <1>1, <1>2, <2>2
    <3> QED
      BY <1>1, <2>1, <3>1 DEF Order
  <2> QED
    BY <2>3 DEF InputsOrdered
<1> QED
  BY <1>12, <1>13, <1>16, <1>17, <1>18, <1>20, <1>21, <1>22 DEF Exclusion

(***************************************************************************)
(* A capture                                                               *)
(***************************************************************************)
\* What a capture leaves as it is, and that the captured use is new: its flows
\* are not what anything else stands for.
CapturedApart(t, c) ==
  /\ Running(t) /\ t # c
  /\ ~Running(c)' /\ ~Producing(c) /\ ~Live(c)
  /\ alias' = alias
  /\ \A s \in Tasks \ {c} :
       /\ use'[s] = use[s]
       /\ Running(s)' = Running(s) /\ Live(s)' = Live(s) /\ Producing(s)' = Producing(s)
       /\ MayWrite(s)' = MayWrite(s) /\ Writing(s)' = Writing(s) /\ Touching(s)' = Touching(s)
       /\ Input(s)' = Input(s) /\ Output(s)' = Output(s) /\ Level(s)' = Level(s)
       /\ Beyond(s)' = Beyond(s) /\ Counted(s)' = Counted(s) /\ HasNext(s)' = HasNext(s)
  /\ \A f : f # NoFlow /\ f.owner = c =>
       /\ Stands(f)' = f
       /\ \A s \in Tasks \ {c} :
            f \notin {Input(s), Output(s), Level(s), Beyond(s), Counted(s)}
  /\ \A s, r \in Tasks : ~Captures(s, c) /\ (s # t => Captures(s, r)' = Captures(s, r))
  /\ \A s \in Tasks : ~Captures(t, s) /\ ~Captures(s, t)
  /\ \A r \in Tasks : Captures(t, r)' <=> step'[t] = "captured" /\ r = c
  /\ \A s \in Tasks \ {c} : status'[s] = status[s]
  /\ status[c] = "unborn" /\ status'[c] # "unborn"

\* The captured use in terms of what its flows stand for: it has the input of
\* its source, or a forwarded one that has arrived; it is of the generation of
\* its source, unless that writes; and it is counted there.
CapturedUseStands(t, c) ==
  /\ Live(t)
  /\ Producing(c)' => MayWrite(t) /\ step'[t] = "captured"
  /\ step'[t] = "captured" => MayWrite(t)
  /\ Writing(t) => step'[t] = "captured"
  /\ Output(c)' \in {NoFlow, Flow(c, "out")}
  /\ Producing(c)' => Output(c)' = Flow(c, "out")
  /\ MayWrite(c)' => Producing(c)'
  /\ Input(c)' # Output(c)'
  /\ \/ Input(c)' = Input(t) /\ ~Writing(t)
     \/ Input(c)' = Flow(c, "in") /\ Touching(t)
  /\ IF Writing(t) THEN Level(c)' # NoFlow /\ Level(c)'.owner = c ELSE Level(c)' = Level(t)
  /\ \/ Counted(c)' = Level(c)'
     \/ Counted(c)' = NoFlow
     \/ Counted(c)' # NoFlow /\ Counted(c)'.owner = c
  /\ MayWrite(c)' => Beyond(c)' # NoFlow /\ Beyond(c)'.owner = c /\ Beyond(c)' # Level(c)'

\* A capture leaves the others as they are.
LEMMA CapturesApart ==
  ASSUME Control, Producers, Registered,
         NEW t \in Tasks, NEW c \in Tasks, NEW new,
         CaptureChanges(t, c, new)
  PROVE  CapturedApart(t, c)
<1>0. c # t /\ status[t] = "running" /\ status[c] = "unborn" /\ step[t] = "idle"
      /\ alias' = alias
  BY DEF CaptureChanges
<1>1. /\ use'[c] = new /\ \A s \in Tasks \ {c} : use'[s] = use[s]
      /\ status'[c] = "captured"
      /\ \A s \in Tasks \ {c} : status'[s] = status[s]
      /\ \A s \in Tasks \ {t} : step'[s] = step[s] /\ Child(s)' = Child(s)
      /\ Child(t)' = c
      /\ \A s \in Tasks : step[s] = "captured" =>
           s \notin {t, c} /\ Child(s) \in Tasks \ {t, c}
      /\ Unseen(c)
      /\ \A o \in Tasks : Unseen(o)' => Unseen(o) /\ o # t
  BY OthersKept
<1>2. \A s \in Tasks \ {c} :
        /\ Running(s)' = Running(s) /\ Live(s)' = Live(s) /\ Producing(s)' = Producing(s)
        /\ MayWrite(s)' = MayWrite(s) /\ Writing(s)' = Writing(s) /\ Touching(s)' = Touching(s)
  BY <1>1 DEF Running, Live, Producing, MayWrite, Writing, Touching
<1>3. \A s \in Tasks \ {c} :
        /\ Input(s)' = Input(s) /\ Output(s)' = Output(s) /\ Level(s)' = Level(s)
        /\ Beyond(s)' = Beyond(s) /\ Counted(s)' = Counted(s) /\ HasNext(s)' = HasNext(s)
  <2> SUFFICES ASSUME NEW s \in Tasks \ {c}
               PROVE  /\ Input(s)' = Input(s) /\ Output(s)' = Output(s) /\ Level(s)' = Level(s)
                      /\ Beyond(s)' = Beyond(s) /\ Counted(s)' = Counted(s)
                      /\ HasNext(s)' = HasNext(s)
    OBVIOUS
  <2>1. use'[s] = use[s]
    BY <1>1
  <2>2. LevelFlow(s)' = LevelFlow(s) /\ NextLevel(s)' = NextLevel(s)
    BY <2>1 DEF LevelFlow, NextLevel, Writing
  <2> QED
    BY <1>0, <2>1, <2>2 DEF Input, Output, Level, Beyond, Counted, HasNext, Stands
<1>4. ASSUME NEW f, f # NoFlow, f.owner = c
      PROVE  /\ Stands(f)' = f
             /\ \A s \in Tasks \ {c} :
                  f \notin {Input(s), Output(s), Level(s), Beyond(s), Counted(s)}
  <2>1. Stands(f) = f /\ \A g : g = NoFlow \/ g.owner # c => Stands(g) # f
    BY <1>1, <1>4, FreshFlows DEF Registered
  <2>2. ASSUME NEW s \in Tasks \ {c}
        PROVE  f \notin {Input(s), Output(s), Level(s), Beyond(s), Counted(s)}
    <3>1. \A g \in FlowsOf(use[s]) : g = NoFlow \/ g.owner # c
      BY <1>1 DEF Registered, FlowsUntouched
    <3>2. {use[s].in, use[s].out, LevelFlow(s), NextLevel(s), CountedOf(Backend, use[s])}
            \subseteq FlowsOf(use[s])
      BY DEF FlowsOf, LevelFlow, LevelOf, NextLevel, NextOf, CountedOf
    <3> QED
      BY <2>1, <3>1, <3>2 DEF Input, Output, Level, Beyond, Counted
  <2> QED
    BY <1>0, <2>1, <2>2 DEF Stands
<1>5. ~Producing(c) /\ ~Live(c)
  <2>1. ~Live(c) /\ use[c].scheduling = None /\ use[c].immediate = None
    BY <1>0 DEF Registered, UsesInShape
  <2> QED
    BY <2>1 DEF Registered, UsesInShape, MayWrite, Writing, None
<1>6. \A s, r \in Tasks : ~Captures(s, c) /\ (s # t => Captures(s, r)' = Captures(s, r))
  BY <1>0, <1>1 DEF Captures
<1>7. \A s \in Tasks : ~Captures(t, s) /\ ~Captures(s, t)
  BY <1>0, <1>1 DEF Captures
<1>8. \A r \in Tasks : Captures(t, r)' <=> step'[t] = "captured" /\ r = c
  BY <1>1 DEF Captures
<1>9. Running(t) /\ ~Running(c)'
  BY <1>0, <1>1 DEF Running
<1> QED
  BY <1>0, <1>1, <1>2, <1>3, <1>4, <1>5, <1>6, <1>7, <1>8, <1>9 DEF CapturedApart

\* What the captured use stands for.
LEMMA CapturesStand ==
  ASSUME Producers, Registered, NEW t \in Tasks, NEW c \in Tasks, NEW new,
         CapturedApart(t, c),
         CapturedFrom(Backend, use[t], new, c),
         use'[c] = new,
         use[t].scheduling # None,
         "write" \in new.scheduling \cup new.immediate \/ Writing(t) => step'[t] = "captured",
         step'[t] = "captured" => MayWrite(t)
  PROVE  CapturedUseStands(t, c)
<1> DEFINE nw == "write" \in new.immediate
<1>1. /\ Live(c)' <=> new.in # NoFlow
      /\ Producing(c)' <=> new.out # NoFlow
      /\ MayWrite(c)' <=> "write" \in new.scheduling
      /\ Writing(c)' <=> nw
      /\ LevelFlow(c)' = LevelOf(Backend, new, nw)
      /\ NextLevel(c)' = NextOf(Backend, new, nw)
  BY DEF Live, Producing, MayWrite, Writing, LevelFlow, NextLevel
<1>2. /\ Input(c)' = Stands(new.in)'
      /\ Output(c)' = Stands(new.out)'
      /\ Level(c)' = Stands(LevelOf(Backend, new, nw))'
      /\ Beyond(c)' = Stands(NextOf(Backend, new, nw))'
      /\ Counted(c)' = Stands(CountedOf(Backend, new))'
  BY <1>1 DEF Input, Output, Level, Beyond, Counted, Stands
<1>3. \A f : Stands(f)' = Stands(f)
  BY DEF CapturedApart, Stands
<1>4. \A place \in {"in", "out", "anti_in", "anti_out"} :
        /\ Flow(c, place) # NoFlow
        /\ Flow(c, place).owner = c
        /\ Stands(Flow(c, place))' = Flow(c, place)
  BY DEF CapturedApart, Flow, NoFlow
<1>5. Stands(NoFlow)' = NoFlow
  BY <1>3, StandsForFlows
<1>6. Live(t)
  BY DEF Registered, UsesInShape
<1>7. /\ LevelOf(Backend, CapturedPlaces, nw) \in {"in", "anti_in", "anti_out"}
      /\ NextOf(Backend, CapturedPlaces, nw) \in {"out", "anti_in", "anti_out"}
      /\ CountedOf(Backend, CapturedPlaces) \in {"in", "anti_out"}
      /\ LevelOf(Backend, CapturedPlaces, nw) # NextOf(Backend, CapturedPlaces, nw)
  BY DEF LevelOf, NextOf, CountedOf, CapturedPlaces
<1>8. \A p, q : p # q => Flow(c, p) # Flow(c, q)
  BY DEF Flow
<1>9. new.out = IF "write" \in new.scheduling \cup new.immediate THEN Flow(c, "out") ELSE NoFlow
  BY DEF CapturedFrom
<1>10. /\ Output(c)' \in {NoFlow, Flow(c, "out")}
       /\ Producing(c)' => Output(c)' = Flow(c, "out")
       /\ MayWrite(c)' => Producing(c)'
       /\ Producing(c)' => step'[t] = "captured" /\ MayWrite(t)
  BY <1>1, <1>2, <1>4, <1>5, <1>9
<1>11. \/ /\ Input(c)' = Input(t) /\ ~Writing(t)
          /\ LevelOf(Backend, new, nw) = LevelFlow(t)
       \/ /\ Input(c)' = Flow(c, "in") /\ Touching(t)
          /\ LevelOf(Backend, new, nw) = IF Writing(t) THEN Flow(c, LevelOf(Backend, CapturedPlaces, nw))
                                             ELSE LevelFlow(t)
  BY <1>2, <1>3, <1>4 DEF CapturedFrom, Writing, Touching, LevelFlow, Input
<1>12. IF Writing(t) THEN Level(c)' = Flow(c, LevelOf(Backend, CapturedPlaces, nw))
                     ELSE Level(c)' = Level(t)
  BY <1>2, <1>3, <1>4, <1>7, <1>11 DEF Level
<1>13. Input(c)' # Output(c)'
  <2>1. Input(t) # Flow(c, "out") /\ Input(t) # NoFlow
    BY <1>4, <1>6, StandsForFlows DEF CapturedApart, Input, Live
  <2> QED
    BY <1>4, <1>8, <1>10, <1>11, <2>1
<1>14. \/ Counted(c)' = Level(c)'
       \/ Counted(c)' = NoFlow
       \/ Counted(c)' # NoFlow /\ Counted(c)'.owner = c
  BY <1>2, <1>4, <1>5, <1>7 DEF CapturedFrom
<1>15. ASSUME MayWrite(c)'
       PROVE  Beyond(c)' # NoFlow /\ Beyond(c)'.owner = c /\ Beyond(c)' # Level(c)'
  <2>1. Beyond(c)' = Flow(c, NextOf(Backend, CapturedPlaces, nw))
    BY <1>1, <1>2, <1>4, <1>7, <1>15 DEF CapturedFrom
  <2>2. Level(t) # Flow(c, NextOf(Backend, CapturedPlaces, nw))
    BY <1>4, <1>7 DEF CapturedApart
  <2> QED
    BY <1>4, <1>7, <1>8, <1>12, <2>1, <2>2
<1> QED
  BY <1>4, <1>6, <1>7, <1>10, <1>11, <1>12, <1>13, <1>14, <1>15 DEF CapturedUseStands

\* A capture keeps the order: the captured use comes right before its source.
LEMMA OrderCaptured ==
  ASSUME Registered, Exclusion, NEW t \in Tasks, NEW c \in Tasks,
         CapturedApart(t, c), CapturedUseStands(t, c)
  PROVE  InputsOrdered'
<1>1. PICK R \in SUBSET (Tasks \X Tasks) : Order(R)
  BY DEF Exclusion, InputsOrdered
<1>2. /\ \A s \in Tasks : <<s, s>> \notin R
      /\ \A r, s, u \in Tasks : <<r, s>> \in R /\ <<s, u>> \in R => <<r, u>> \in R
      /\ \A s, u \in Tasks : <<s, u>> \in R => status[s] # "unborn" /\ status[u] # "unborn"
      /\ \A s, u \in Tasks : Captures(s, u) => <<u, s>> \in R
      /\ \A s, u \in Tasks :
           Producing(s) /\ Producing(u) /\ Input(u) = Output(s) => <<s, u>> \in R
  BY <1>1 DEF Order
<1>3. \A s \in Tasks : <<s, c>> \notin R /\ <<c, s>> \notin R
  BY <1>2 DEF CapturedApart
<1>4. \A s, u \in Tasks : status'[s] = "unborn" => s # c /\ status[s] = "unborn"
  BY DEF CapturedApart
<1>5. \A s, u \in Tasks \ {c} : Producing(s)' /\ Producing(u)' /\ Input(u)' = Output(s)'
        => <<s, u>> \in R
  BY <1>2 DEF CapturedApart
<1>6. \A u \in Tasks : Producing(c)' /\ Producing(u)' => Input(u)' # Output(c)'
  <2>1. \A u \in Tasks \ {c} : Input(u) # Flow(c, "out")
    BY DEF CapturedApart, Flow, NoFlow
  <2> QED
    BY <2>1 DEF CapturedApart, CapturedUseStands
<1>7. \A s \in Tasks \ {c} : Producing(s)' /\ Producing(c)' /\ Input(c)' = Output(s)'
        => <<s, t>> \in R
  <2> SUFFICES ASSUME NEW s \in Tasks \ {c}, Producing(s)', Producing(c)',
                      Input(c)' = Output(s)'
               PROVE  <<s, t>> \in R
    OBVIOUS
  <2>1. Producing(s) /\ Output(s)' = Output(s)
    BY DEF CapturedApart
  <2>2. Producing(t)
    BY DEF CapturedUseStands, Registered, UsesInShape
  <2>3. Output(s) # Flow(c, "in")
    BY DEF CapturedApart, Flow, NoFlow
  <2>4. Input(t) = Output(s)
    BY <2>1, <2>3 DEF CapturedUseStands
  <2> QED
    BY <1>2, <2>1, <2>2, <2>4
<1>8. CASE step'[t] # "captured"
  <2>1. ~Producing(c)'
    BY <1>8 DEF CapturedUseStands
  <2>2. \A s, u \in Tasks : Captures(s, u)' => Captures(s, u)
    BY <1>8 DEF CapturedApart
  <2>3. Order(R)'
    BY <1>2, <1>4, <1>5, <2>1, <2>2 DEF Order
  <2> QED
    BY <2>3 DEF InputsOrdered
<1>9. CASE step'[t] = "captured"
  <2> DEFINE S == {p \in Tasks \X Tasks :
                     \/ p \in R
                     \/ p[2] = c /\ <<p[1], t>> \in R
                     \/ p[1] = c /\ <<t, p[2]>> \in R
                     \/ p = <<c, t>>}
  <2>1. \A s, u \in Tasks : <<s, u>> \in S <=>
          \/ <<s, u>> \in R
          \/ u = c /\ <<s, t>> \in R
          \/ s = c /\ <<t, u>> \in R
          \/ s = c /\ u = t
    OBVIOUS
  <2>2. S \in SUBSET (Tasks \X Tasks)
    OBVIOUS
  <2> HIDE DEF S
  <2>3. t # c /\ status'[c] # "unborn" /\ status'[t] # "unborn"
    BY DEF CapturedApart, Running
  <2>4. \A s \in Tasks : <<s, s>> \notin S
    BY <1>2, <1>3, <2>1, <2>3
  <2>5. ASSUME NEW r \in Tasks, NEW s \in Tasks, NEW u \in Tasks, <<r, s>> \in S, <<s, u>> \in S
        PROVE  <<r, u>> \in S
    <3>1. CASE s = c
      BY <1>2, <1>3, <2>1, <2>3, <2>5, <3>1
    <3>2. CASE s # c /\ r = c
      BY <1>2, <1>3, <2>1, <2>3, <2>5, <3>2
    <3>3. CASE s # c /\ r # c
      BY <1>2, <1>3, <2>1, <2>3, <2>5, <3>3
    <3> QED
      BY <3>1, <3>2, <3>3
  <2>6. \A s, u \in Tasks : <<s, u>> \in S => status'[s] # "unborn" /\ status'[u] # "unborn"
    BY <1>2, <1>4, <2>1, <2>3
  <2>7. ASSUME NEW s \in Tasks, NEW u \in Tasks, Captures(s, u)'
        PROVE  <<u, s>> \in S
    <3>1. CASE s = t
      <4>1. u = c
        BY <2>7, <3>1 DEF CapturedApart
      <4> QED
        BY <2>1, <3>1, <4>1
    <3>2. CASE s # t
      <4>1. Captures(s, u)
        BY <2>7, <3>2 DEF CapturedApart
      <4> QED
        BY <1>2, <2>1, <4>1
    <3> QED
      BY <3>1, <3>2
  <2>8. \A s, u \in Tasks :
          Producing(s)' /\ Producing(u)' /\ Input(u)' = Output(s)' => <<s, u>> \in S
    BY <1>5, <1>6, <1>7, <2>1
  <2>9. Order(S)'
    BY <2>4, <2>5, <2>6, <2>7, <2>8 DEF Order
  <2> QED
    BY <2>2, <2>9 DEF InputsOrdered
<1> QED
  BY <1>8, <1>9

\* A capture keeps writers apart: the captured use joins the generation of its
\* source, or takes the place of a source that writes.
LEMMA ExclusionCaptured ==
  ASSUME Control, Producers, Registered, Exclusion, NEW t \in Tasks, NEW c \in Tasks,
         CapturedApart(t, c), CapturedUseStands(t, c)
  PROVE  Exclusion'
<1>1. /\ Running(t) /\ t # c
      /\ ~Running(c)' /\ ~Producing(c) /\ ~Live(c)
      /\ \A s \in Tasks \ {c} :
           /\ Running(s)' = Running(s) /\ Live(s)' = Live(s) /\ Producing(s)' = Producing(s)
           /\ MayWrite(s)' = MayWrite(s) /\ Writing(s)' = Writing(s) /\ Touching(s)' = Touching(s)
           /\ Input(s)' = Input(s) /\ Output(s)' = Output(s) /\ Level(s)' = Level(s)
           /\ Beyond(s)' = Beyond(s) /\ Counted(s)' = Counted(s) /\ HasNext(s)' = HasNext(s)
  BY DEF CapturedApart
<1>2. \A f : f # NoFlow /\ f.owner = c =>
        \A s \in Tasks \ {c} : f \notin {Input(s), Output(s), Level(s), Beyond(s), Counted(s)}
  BY DEF CapturedApart
<1>3. /\ \A s, r \in Tasks : ~Captures(s, c) /\ (s # t => Captures(s, r)' = Captures(s, r))
      /\ \A s \in Tasks : ~Captures(t, s) /\ ~Captures(s, t)
      /\ \A r \in Tasks : Captures(t, r)' <=> step'[t] = "captured" /\ r = c
  BY DEF CapturedApart
<1>4. /\ \A r, s \in Tasks : Kin(r, s) => Kin(r, s)'
      /\ \A s \in Tasks : ~Kin(s, t) /\ ~Kin(t, s)
      /\ step'[t] = "captured" => Kin(c, t)' /\ Kin(t, c)'
  BY <1>3 DEF Kin
<1>5. /\ Flow(c, "in") # NoFlow /\ Flow(c, "in").owner = c
      /\ Flow(c, "out") # NoFlow /\ Flow(c, "out").owner = c
      /\ Flow(c, "in") # Flow(c, "out")
  BY DEF Flow, NoFlow
<1>6. /\ Live(t)
      /\ Producing(c)' => MayWrite(t) /\ step'[t] = "captured"
      /\ Writing(t) => step'[t] = "captured"
      /\ Output(c)' \in {NoFlow, Flow(c, "out")}
      /\ Producing(c)' => Output(c)' = Flow(c, "out")
      /\ MayWrite(c)' => Producing(c)'
      /\ Input(c)' # Output(c)'
  BY DEF CapturedUseStands
<1>7. \/ Input(c)' = Input(t) /\ ~Writing(t)
      \/ Input(c)' = Flow(c, "in") /\ Touching(t)
  BY DEF CapturedUseStands
<1>8. IF Writing(t) THEN Level(c)' # NoFlow /\ Level(c)'.owner = c ELSE Level(c)' = Level(t)
  BY DEF CapturedUseStands
<1>9. /\ \/ Counted(c)' = Level(c)'
         \/ Counted(c)' = NoFlow
         \/ Counted(c)' # NoFlow /\ Counted(c)'.owner = c
      /\ MayWrite(c)' => Beyond(c)' # NoFlow /\ Beyond(c)'.owner = c /\ Beyond(c)' # Level(c)'
  BY DEF CapturedUseStands
<1>10. \A s \in Tasks : /\ MayWrite(s) => Producing(s)
                        /\ Producing(s) \/ Writing(s) \/ Touching(s) => Live(s)
                        /\ Writing(s) => Touching(s)
                        /\ Live(s) => Level(s) # NoFlow
  BY StandsForFlows
  DEF Registered, UsesInShape, Producing, MayWrite, Writing, Touching, None, Level
<1>11. Touching(t) => Arrived(t)
  BY <1>1 DEF Exclusion, InputsArrived
<1>12. \A s \in Tasks \ {c} : Arrived(s)' = Arrived(s)
  BY <1>1, <1>2, <1>5, <1>6 DEF Arrived
<1>13. Arrived(c)' <=> Arrived(t)
  <2>1. CASE Input(c)' = Input(t)
    BY <1>1, <1>6, <2>1 DEF Arrived
  <2>2. CASE Input(c)' = Flow(c, "in") /\ Touching(t)
    <3>1. Arrived(c)'
      BY <1>1, <1>2, <1>5, <1>6, <2>2 DEF Arrived
    <3> QED
      BY <1>11, <2>2, <3>1
  <2> QED
    BY <1>7, <2>1, <2>2
<1>14. \A s \in Tasks \ {c} : s # t /\ Live(s) /\ Arrived(s) => ~Writing(t)
  BY <1>1, <1>4, OnlyKinLeft
<1>15. \A s \in Tasks \ {c} : s # t /\ Arrived(t) /\ Arrived(s) =>
         /\ Live(s) => Level(s) = Level(t)
         /\ Producing(s) => ~Producing(t)
  BY <1>4, <1>6 DEF Exclusion, ArrivedTogether, OneArrivedProducer
<1>16. \A s \in Tasks \ {c} : s # t /\ Input(s) = Input(t) =>
         /\ Live(s) => Level(s) = Level(t)
         /\ Producing(s) => ~Producing(t)
  BY <1>4, <1>6 DEF Exclusion, SameInput
<1>17. InputsArrived'
  <2>1. \A s \in Tasks : Running(s)' /\ Touching(s)' => Arrived(s)'
    BY <1>1, <1>12 DEF Exclusion, InputsArrived
  <2>2. ASSUME NEW s \in Tasks, NEW child \in Tasks, Captures(s, child)', Writing(s)'
        PROVE  Arrived(child)'
    <3>1. CASE s = t
      BY <1>1, <1>3, <1>10, <1>11, <1>13, <2>2, <3>1
    <3>2. CASE s = c
      <4>1. Captures(c, child) /\ ~Running(c)
        BY <1>1, <1>3, <2>2, <3>2 DEF CapturedApart, Running
      <4> QED
        BY <4>1, KinRuns
    <3>3. CASE s # t /\ s # c
      BY <1>1, <1>3, <1>12, <2>2, <3>3 DEF Exclusion, InputsArrived
    <3> QED
      BY <3>1, <3>2, <3>3
  <2> QED
    BY <2>1, <2>2 DEF InputsArrived
<1>18. WritersAlone'
  <2> SUFFICES ASSUME NEW r \in Tasks \ {c}, NEW s \in Tasks, r # s,
                      Running(r), Writing(r), Live(s)'
               PROVE  Counted(s)' # Level(r)
    BY <1>1 DEF WritersAlone
  <2>1. CASE s # c
    BY <1>1, <2>1 DEF Exclusion, WritersAlone
  <2>2. CASE s = c
    <3>1. Level(r) # NoFlow
      BY <1>10
    <3>2. Level(c)' # Level(r)
      <4>1. CASE Writing(t)
        BY <1>2, <1>8, <4>1
      <4>2. CASE ~Writing(t)
        <5>1. Counted(t) # Level(r)
          BY <1>6, <4>2 DEF Exclusion, WritersAlone
        <5> QED
          BY <1>8, <4>2, <5>1, ReadersCounted
      <4> QED
        BY <4>1, <4>2
    <3> QED
      BY <1>2, <1>9, <2>2, <3>1, <3>2
  <2> QED
    BY <2>1, <2>2
<1>19. ASSUME NEW s \in Tasks \ {c}, Live(s), Arrived(c)', Arrived(s)
       PROVE  Level(c)' = Level(s) \/ (s = t /\ Kin(c, t)' /\ Kin(t, c)')
  <2>1. Arrived(t)
    BY <1>13, <1>19
  <2>2. CASE s = t
    BY <1>4, <1>6, <1>8, <2>2
  <2>3. CASE s # t
    <3>1. ~Writing(t) /\ Level(s) = Level(t)
      BY <1>14, <1>15, <1>19, <2>1, <2>3
    <3> QED
      BY <1>8, <3>1
  <2> QED
    BY <2>2, <2>3
<1>20. ArrivedTogether'
  <2> SUFFICES ASSUME NEW r \in Tasks, NEW s \in Tasks, Live(r)', Live(s)',
                      Arrived(r)', Arrived(s)'
               PROVE  Level(r)' = Level(s)' \/ Kin(r, s)'
    BY DEF ArrivedTogether
  <2>1. CASE r # c /\ s # c
    BY <1>1, <1>4, <1>12, <2>1 DEF Exclusion, ArrivedTogether
  <2>2. CASE r = c /\ s = c
    BY <2>2
  <2>3. CASE r = c /\ s # c
    BY <1>1, <1>12, <1>19, <2>3
  <2>4. CASE r # c /\ s = c
    BY <1>1, <1>12, <1>19, <2>4
  <2> QED
    BY <2>1, <2>2, <2>3, <2>4
<1>21. ASSUME NEW s \in Tasks \ {c}, Producing(c)', Producing(s),
              (Arrived(c)' /\ Arrived(s)) \/ Input(c)' = Input(s)
       PROVE  Kin(c, s)' /\ Kin(s, c)'
  <2>1. step'[t] = "captured" /\ Producing(t)
    BY <1>6, <1>10, <1>21
  <2>2. CASE Arrived(c)' /\ Arrived(s)
    BY <1>4, <1>13, <1>15, <1>21, <2>1, <2>2
  <2>3. CASE Input(c)' = Input(s)
    <3>1. Input(s) = Input(t)
      BY <1>2, <1>5, <1>7, <2>3
    <3> QED
      BY <1>4, <1>16, <1>21, <2>1, <3>1
  <2> QED
    BY <1>21, <2>2, <2>3
<1>22. OneArrivedProducer'
  <2> SUFFICES ASSUME NEW r \in Tasks, NEW s \in Tasks, r # s, Producing(r)', Producing(s)',
                      Arrived(r)', Arrived(s)'
               PROVE  Kin(r, s)'
    BY DEF OneArrivedProducer
  <2>1. CASE r # c /\ s # c
    BY <1>1, <1>4, <1>12, <2>1 DEF Exclusion, OneArrivedProducer
  <2>2. CASE r = c \/ s = c
    BY <1>1, <1>12, <1>21, <2>2
  <2> QED
    BY <2>1, <2>2
<1>23. SameInput'
  <2>1. ASSUME NEW s \in Tasks \ {c}, Input(c)' = Input(s), Live(s)
        PROVE  Level(c)' = Level(s)
    <3>1. Input(s) = Input(t) /\ ~Writing(t)
      BY <1>2, <1>5, <1>7, <2>1
    <3> QED
      BY <1>8, <1>16, <2>1, <3>1
  <2> SUFFICES ASSUME NEW r \in Tasks, NEW s \in Tasks, Input(r)' = Input(s)'
               PROVE  /\ Live(r)' /\ Live(s)' => Level(r)' = Level(s)'
                      /\ r # s /\ Producing(r)' /\ Producing(s)' => Kin(r, s)'
    BY DEF SameInput
  <2>2. CASE r # c /\ s # c
    BY <1>1, <1>4, <2>2 DEF Exclusion, SameInput
  <2>3. CASE r = c /\ s # c
    BY <1>1, <1>21, <2>1, <2>3
  <2>4. CASE r # c /\ s = c
    BY <1>1, <1>21, <2>1, <2>4
  <2> QED
    BY <2>2, <2>3, <2>4
<1>24. NextGeneration'
  <2> SUFFICES ASSUME NEW r \in Tasks, NEW s \in Tasks, MayWrite(r)', Live(s)'
               PROVE  Input(s)' = Output(r)' <=> HasNext(r)' /\ Level(s)' = Beyond(r)'
    BY DEF NextGeneration
  <2>1. CASE r # c /\ s # c
    BY <1>1, <2>1 DEF Exclusion, NextGeneration
  <2>2. CASE r = c
    <3>1. Input(s)' # Output(c)'
      BY <1>1, <1>2, <1>5, <1>6, <2>2
    <3>2. Level(s)' # Beyond(c)'
      BY <1>1, <1>2, <1>9, <2>2
    <3> QED
      BY <2>2, <3>1, <3>2
  <2>3. CASE r # c /\ s = c
    <3>1. MayWrite(r) /\ Producing(r) /\ Output(r)' = Output(r) /\ Beyond(r)' = Beyond(r)
          /\ HasNext(r)' = HasNext(r)
      BY <1>1, <1>10, <2>3
    <3>2. Input(t) = Output(r) <=> HasNext(r) /\ Level(t) = Beyond(r)
      BY <1>6, <3>1 DEF Exclusion, NextGeneration
    <3>3. CASE Input(c)' = Input(t) /\ ~Writing(t)
      BY <1>8, <2>3, <3>1, <3>2, <3>3
    <3>4. CASE Input(c)' = Flow(c, "in") /\ Touching(t)
      <4>1. Input(c)' # Output(r)
        BY <1>2, <1>5, <2>3, <3>4
      <4>2. Input(t) # Output(r)
        BY <1>11, <3>1, <3>4 DEF Arrived
      <4>3. ~(HasNext(r) /\ Level(c)' = Beyond(r))
        BY <1>2, <1>8, <2>3, <3>2, <4>2
      <4> QED
        BY <2>3, <3>1, <4>1, <4>3
    <3> QED
      BY <1>7, <3>3, <3>4
  <2> QED
    BY <2>1, <2>2, <2>3
<1>25. NextGenerationsDiffer'
  <2> SUFFICES ASSUME NEW r \in Tasks, NEW s \in Tasks, r # s, MayWrite(r)', MayWrite(s)',
                      HasNext(r)', HasNext(s)'
               PROVE  Beyond(r)' # Beyond(s)'
    BY DEF NextGenerationsDiffer
  <2>1. CASE r # c /\ s # c
    BY <1>1, <2>1 DEF Exclusion, NextGenerationsDiffer
  <2>2. CASE r = c \/ s = c
    BY <1>1, <1>2, <1>9, <2>2
  <2> QED
    BY <2>1, <2>2
<1>26. InputsOrdered'
  BY OrderCaptured
<1> QED
  BY <1>17, <1>18, <1>20, <1>22, <1>23, <1>24, <1>25, <1>26 DEF Exclusion

(***************************************************************************)
(* A continuation                                                          *)
(***************************************************************************)
\* What registering a continuation leaves as it is, and that the flows of the
\* captured use belong to no other.
ContinuedApart(t, c) ==
  /\ t # c /\ Running(t) /\ ~Running(c) /\ Captures(t, c)
  /\ \A s \in Tasks \ {t} :
       /\ Live(s)' = Live(s) /\ Producing(s)' = Producing(s)
       /\ MayWrite(s)' = MayWrite(s) /\ Writing(s)' = Writing(s) /\ Touching(s)' = Touching(s)
       /\ Input(s)' = Input(s) /\ Level(s)' = Level(s) /\ Counted(s)' = Counted(s)
  /\ MayWrite(t) /\ Producing(t) /\ Producing(t)'
  /\ \A s \in Tasks :
       /\ Running(s)' = Running(s) /\ status'[s] = status[s]
       /\ Output(s)' = Output(s) /\ Beyond(s)' = Beyond(s) /\ HasNext(s)' = HasNext(s)
  /\ \A f : f # NoFlow /\ f.owner = c =>
       \A s \in Tasks \ {c} : f \notin {Input(s), Output(s), Level(s), Beyond(s), Counted(s)}
  /\ \A s, r \in Tasks : Captures(s, r)' <=> s # t /\ Captures(s, r)
  /\ \A s \in Tasks : /\ Captures(t, s) => s = c
                      /\ ~Captures(s, t)
                      /\ Captures(s, c) => s = t

\* The continuation in terms of what its flows stand for: it waits for the
\* captured use, and is of its next generation; or it reads along with it what
\* its source wrote.
ContinuationStands(t, c) ==
  /\ ~Writing(t)'
  /\ \/ /\ Producing(c)
        /\ Input(t)' = Output(c)
        /\ Output(c) # NoFlow /\ Output(c).owner = c
        /\ ~Touching(t)'
        /\ Level(t)' # NoFlow /\ Level(t)'.owner = c
        /\ MayWrite(c) => HasNext(c) /\ Level(t)' = Beyond(c)
     \/ /\ ~Producing(c)
        /\ Writing(t)
        /\ Input(c) # NoFlow /\ Input(c).owner = c
        /\ Input(t)' = Input(c)
        /\ Level(t)' = Level(c)
        /\ Level(c) # NoFlow /\ Level(c).owner = c

\* A continuation leaves the others as they are, and goes on to what its source
\* would have gone on to.
LEMMA ContinuesApart ==
  ASSUME Control, Producers, Registered,
         NEW t \in Tasks, NEW c \in Tasks, NEW new,
         ContinuationChanges(t, c, new),
         MayWrite(t),
         ContinuedFrom(Backend, use[t], use[c], new, c)
  PROVE  ContinuedApart(t, c)
<1>0. /\ c = Child(t) /\ c # t
      /\ status[t] = "running" /\ status[c] = "captured"
      /\ step[t] = "captured"
      /\ UNCHANGED <<status, ops, alias>>
  BY DEF ContinuationChanges
<1>1. /\ use'[t] = new /\ \A s \in Tasks \ {t} : use'[s] = use[s]
      /\ step'[t] = "continued"
      /\ \A s \in Tasks \ {t} : step'[s] = step[s]
      /\ \A s \in Tasks : Child(s)' = Child(s)
      /\ \A s \in Tasks \ {t} : step[s] = "captured" => Child(s) \in Tasks \ {t, c}
      /\ Unseen(c)
  BY OthersContinue
<1>2. \A s \in Tasks \ {t} :
        /\ Live(s)' = Live(s) /\ Producing(s)' = Producing(s)
        /\ MayWrite(s)' = MayWrite(s) /\ Writing(s)' = Writing(s) /\ Touching(s)' = Touching(s)
  BY <1>1 DEF Live, Producing, MayWrite, Writing, Touching
<1>3. \A s \in Tasks \ {t} :
        /\ Input(s)' = Input(s) /\ Output(s)' = Output(s) /\ Level(s)' = Level(s)
        /\ Beyond(s)' = Beyond(s) /\ Counted(s)' = Counted(s) /\ HasNext(s)' = HasNext(s)
  <2> SUFFICES ASSUME NEW s \in Tasks \ {t}
               PROVE  /\ Input(s)' = Input(s) /\ Output(s)' = Output(s) /\ Level(s)' = Level(s)
                      /\ Beyond(s)' = Beyond(s) /\ Counted(s)' = Counted(s)
                      /\ HasNext(s)' = HasNext(s)
    OBVIOUS
  <2>1. use'[s] = use[s]
    BY <1>1
  <2>2. LevelFlow(s)' = LevelFlow(s) /\ NextLevel(s)' = NextLevel(s)
    BY <2>1 DEF LevelFlow, NextLevel, Writing
  <2> QED
    BY <1>0, <2>1, <2>2 DEF Input, Output, Level, Beyond, Counted, HasNext, Stands
<1>4. ~Writing(t)' /\ new.out = use[t].out
      /\ NextOf(Backend, new, FALSE) = NextLevel(t)
  <2>1. /\ new.immediate \in {None, Read}
        /\ new.out = use[t].out
        /\ NextOf(Backend, new, FALSE) = NextOf(Backend, use[t], "write" \in use[t].immediate)
    BY DEF ContinuedFrom
  <2>2. ~Writing(t)'
    BY <1>1, <2>1 DEF Writing, None, Read
  <2>3. NextOf(Backend, new, FALSE) = NextLevel(t)
    BY <2>1 DEF NextLevel, Writing, NextOf
  <2> QED
    BY <2>1, <2>2, <2>3
<1>5. Output(t)' = Output(t) /\ Beyond(t)' = Beyond(t) /\ HasNext(t)' = HasNext(t)
      /\ Producing(t)' = Producing(t)
  <2>1. NextLevel(t)' = NextLevel(t)
    BY <1>1, <1>4 DEF NextLevel, NextOf
  <2> QED
    BY <1>0, <1>1, <1>4, <2>1 DEF Output, Beyond, HasNext, Producing, Stands
<1>6. Producing(t)
  BY DEF Registered, UsesInShape
<1>7. ASSUME NEW f, f # NoFlow, f.owner = c, NEW s \in Tasks \ {c}
      PROVE  f \notin {Input(s), Output(s), Level(s), Beyond(s), Counted(s)}
  <2>1. \A g : g = NoFlow \/ g.owner # c => Stands(g) # f
    BY <1>1, <1>7, FreshFlows DEF Registered
  <2>2. \A g \in FlowsOf(use[s]) : g = NoFlow \/ g.owner # c
    BY <1>1 DEF Registered, FlowsUntouched
  <2>3. {use[s].in, use[s].out, LevelFlow(s), NextLevel(s), CountedOf(Backend, use[s])}
          \subseteq FlowsOf(use[s])
    BY DEF FlowsOf, LevelFlow, LevelOf, NextLevel, NextOf, CountedOf
  <2> QED
    BY <2>1, <2>2, <2>3 DEF Input, Output, Level, Beyond, Counted
<1>8. \A s, r \in Tasks : Captures(s, r)' <=> s # t /\ Captures(s, r)
  BY <1>0, <1>1 DEF Captures
<1>9. \A s \in Tasks : /\ Captures(t, s) => s = c
                       /\ ~Captures(s, t)
                       /\ Captures(s, c) => s = t
  BY <1>0, <1>1 DEF Captures
<1>10. Captures(t, c) /\ Running(t) /\ ~Running(c)
  BY <1>0 DEF Captures, Running
<1>11. \A s \in Tasks : Running(s)' = Running(s) /\ status'[s] = status[s]
  BY <1>0 DEF Running
<1> QED
  BY <1>0, <1>2, <1>3, <1>5, <1>6, <1>7, <1>8, <1>9, <1>10, <1>11 DEF ContinuedApart

\* What the continuation stands for.
LEMMA ContinuesStand ==
  ASSUME Control, Producers, Registered,
         NEW t \in Tasks, NEW c \in Tasks, NEW new,
         t # c,
         Unseen(c),
         use'[t] = new,
         alias' = alias,
         ContinuedFrom(Backend, use[t], use[c], new, c)
  PROVE  ContinuationStands(t, c)
<1> DEFINE cw == "write" \in use[c].immediate
<1>1. \A place : /\ Flow(c, place).owner = c
                 /\ Flow(c, place) # NoFlow => Stands(Flow(c, place)) = Flow(c, place)
  BY FreshFlows DEF Registered, Flow
<1>2. \A place : place # "none" => Flow(c, place) # NoFlow
  BY DEF Flow, NoFlow
<1>3. "none" \notin {"in", "out", NextOf(Backend, CapturedPlaces, cw), LevelOf(Backend, ContinuingPlaces, FALSE)}
  BY DEF NextOf, LevelOf, CapturedPlaces, ContinuingPlaces
<1>4. new.immediate \in {None, Read} /\ ~Writing(t)'
  <2>1. new.immediate \in {None, Read}
    BY DEF ContinuedFrom
  <2> QED
    BY <2>1 DEF Writing, None, Read
<1>5. Input(t)' = Stands(new.in) /\ Level(t)' = Stands(LevelOf(Backend, new, FALSE))
  BY <1>4 DEF Input, Level, LevelFlow, Stands, LevelOf
<1>6. CASE /\ use[c].out = Flow(c, "out")
           /\ new.in = use[c].out
           /\ new.immediate = None
           /\ \/ /\ LevelOf(Backend, new, FALSE) = NextOf(Backend, use[c], cw)
                 /\ LevelOf(Backend, new, FALSE) = Flow(c, NextOf(Backend, CapturedPlaces, cw))
              \/ /\ LevelOf(Backend, new, FALSE) = Flow(c, LevelOf(Backend, ContinuingPlaces, FALSE))
                 /\ "write" \notin use[c].scheduling
  <2>1. Producing(c) /\ Input(t)' = Output(c) /\ Output(c) = Flow(c, "out") /\ ~Touching(t)'
    BY <1>1, <1>2, <1>3, <1>5, <1>6 DEF Producing, Output, Touching
  <2>2. Level(t)' # NoFlow /\ Level(t)'.owner = c
    BY <1>1, <1>2, <1>3, <1>5, <1>6
  <2>3. NextLevel(c) = NextOf(Backend, use[c], cw)
    BY DEF NextLevel, Writing
  <2>4. MayWrite(c) => HasNext(c) /\ Level(t)' = Beyond(c)
    BY <1>2, <1>3, <1>5, <1>6, <2>3 DEF MayWrite, HasNext, Beyond
  <2> QED
    BY <1>1, <1>2, <1>3, <1>4, <2>1, <2>2, <2>4 DEF ContinuationStands
<1>7. CASE /\ Backend = "flows"
           /\ use[c].in = Flow(c, "in")
           /\ new.in = use[c].in
           /\ "write" \in use[t].immediate
           /\ "write" \notin use[c].scheduling \cup use[c].immediate
  <2>1. ~Producing(c) /\ Writing(t)
    BY <1>7 DEF Registered, UsesInShape, MayWrite, Writing
  <2>2. Input(c) = Flow(c, "in") /\ Input(t)' = Input(c)
    BY <1>1, <1>2, <1>3, <1>5, <1>7 DEF Input
  <2>3. Level(t)' = Input(t)' /\ Level(c) = Input(c)
    BY <1>5, <1>7 DEF Level, LevelFlow, LevelOf, Input
  <2> QED
    BY <1>1, <1>2, <1>3, <1>4, <2>1, <2>2, <2>3 DEF ContinuationStands
<1> QED
  BY <1>6, <1>7 DEF ContinuedFrom

\* A continuation keeps writers apart: it comes after the captured use, or reads
\* with it, when nothing else is left that could touch the data.
LEMMA ExclusionContinuing ==
  ASSUME Control, Producers, Registered, Exclusion, NEW t \in Tasks, NEW c \in Tasks,
         ContinuedApart(t, c), ContinuationStands(t, c)
  PROVE  Exclusion'
<1>1. /\ t # c /\ Running(t) /\ ~Running(c) /\ Captures(t, c)
      /\ \A s \in Tasks \ {t} :
           /\ Live(s)' = Live(s) /\ Producing(s)' = Producing(s)
           /\ MayWrite(s)' = MayWrite(s) /\ Writing(s)' = Writing(s)
           /\ Touching(s)' = Touching(s)
           /\ Input(s)' = Input(s) /\ Level(s)' = Level(s) /\ Counted(s)' = Counted(s)
      /\ MayWrite(t) /\ Producing(t) /\ Producing(t)'
  BY DEF ContinuedApart
<1>2. \A s \in Tasks :
        /\ Running(s)' = Running(s) /\ status'[s] = status[s]
        /\ Output(s)' = Output(s) /\ Beyond(s)' = Beyond(s) /\ HasNext(s)' = HasNext(s)
  BY DEF ContinuedApart
<1>3. \A f : f # NoFlow /\ f.owner = c =>
        \A s \in Tasks \ {c} : f \notin {Input(s), Output(s), Level(s), Beyond(s), Counted(s)}
  BY DEF ContinuedApart
<1>4. /\ \A s, r \in Tasks : Captures(s, r)' <=> s # t /\ Captures(s, r)
      /\ \A s \in Tasks : /\ Captures(t, s) => s = c
                          /\ ~Captures(s, t)
                          /\ Captures(s, c) => s = t
  BY DEF ContinuedApart
<1>5. \A r, s \in Tasks \ {t} : Kin(r, s) => Kin(r, s)'
  BY <1>4 DEF Kin
<1>6. \A s \in Tasks : /\ MayWrite(s) => Producing(s)
                       /\ Producing(s) \/ Writing(s) \/ Touching(s) => Live(s)
                       /\ Writing(s) => Touching(s)
  BY DEF Registered, UsesInShape, Producing, MayWrite, Writing, Touching, None
<1>7. ~Writing(t)'
  BY DEF ContinuationStands
<1>8. \A s \in Tasks : Producing(s)' <=> Producing(s)
  BY <1>1
<1>9. \A s \in Tasks \ {t} : Arrived(s)' = Arrived(s)
  BY <1>1, <1>2, <1>8 DEF Arrived
<1>10. Counted(t)' = Level(t)'
  BY <1>7 DEF Counted, Level, LevelFlow, LevelOf, CountedOf, Stands
<1>11. Writing(t) => \A s \in Tasks \ {t} : Live(s) /\ Arrived(s) => s = c
  BY <1>1, <1>4, OnlyKinLeft DEF Kin
<1>12. \/ Arrived(t)' /\ Writing(t) /\ ~Producing(c) /\ Input(t)' = Input(c) /\ Level(t)' = Level(c)
       \/ ~Arrived(t)' /\ ~Touching(t)' /\ Producing(c) /\ Input(t)' = Output(c)
  <2>1. CASE Producing(c) /\ Input(t)' = Output(c) /\ ~Touching(t)'
    BY <1>2, <1>8, <2>1 DEF Arrived
  <2>2. CASE /\ ~Producing(c) /\ Writing(t)
             /\ Input(c) # NoFlow /\ Input(c).owner = c
             /\ Input(t)' = Input(c)
             /\ Level(t)' = Level(c)
    <3>1. \A p \in Tasks : Producing(p) => Output(p) # Input(c)
      BY <1>3, <2>2
    <3>2. Arrived(t)'
      BY <1>2, <1>8, <2>2, <3>1 DEF Arrived
    <3> QED
      BY <2>2, <3>2
  <2> QED
    BY <2>1, <2>2 DEF ContinuationStands
<1>13. /\ Input(t)' # NoFlow /\ Input(t)'.owner = c
       /\ Level(t)' # NoFlow /\ Level(t)'.owner = c
  BY DEF ContinuationStands
<1>14. InputsArrived'
  <2>1. \A s \in Tasks : Running(s)' /\ Touching(s)' => Arrived(s)'
    BY <1>1, <1>2, <1>9, <1>12 DEF Exclusion, InputsArrived
  <2>2. \A s, child \in Tasks : Captures(s, child)' /\ Writing(s)' => Arrived(child)'
    BY <1>1, <1>4, <1>9 DEF Exclusion, InputsArrived
  <2> QED
    BY <2>1, <2>2 DEF InputsArrived
<1>15. WritersAlone'
  <2> SUFFICES ASSUME NEW r \in Tasks \ {t}, NEW s \in Tasks, r # s,
                      Running(r), Writing(r), Live(s)'
               PROVE  Counted(s)' # Level(r)
    BY <1>1, <1>2, <1>7 DEF WritersAlone
  <2>1. CASE s # t
    BY <1>1, <2>1 DEF Exclusion, WritersAlone
  <2>2. CASE s = t
    <3>1. r # c
      BY <1>1
    <3> QED
      BY <1>3, <1>10, <1>13, <2>2, <3>1
  <2> QED
    BY <2>1, <2>2
<1>16. ASSUME NEW s \in Tasks \ {t}, Live(s), Arrived(t)', Arrived(s)
       PROVE  Level(t)' = Level(s) /\ ~Producing(s)
  BY <1>11, <1>12, <1>16
<1>17. ArrivedTogether'
  <2> SUFFICES ASSUME NEW r \in Tasks, NEW s \in Tasks, Live(r)', Live(s)',
                      Arrived(r)', Arrived(s)'
               PROVE  Level(r)' = Level(s)' \/ Kin(r, s)'
    BY DEF ArrivedTogether
  <2>1. CASE r # t /\ s # t
    BY <1>1, <1>5, <1>9, <2>1 DEF Exclusion, ArrivedTogether
  <2>2. CASE r = t \/ s = t
    BY <1>1, <1>9, <1>16, <2>2
  <2> QED
    BY <2>1, <2>2
<1>18. OneArrivedProducer'
  <2> SUFFICES ASSUME NEW r \in Tasks, NEW s \in Tasks, r # s, Producing(r), Producing(s),
                      Arrived(r)', Arrived(s)'
               PROVE  Kin(r, s)'
    BY <1>8 DEF OneArrivedProducer
  <2>1. CASE r # t /\ s # t
    BY <1>5, <1>9, <2>1 DEF Exclusion, OneArrivedProducer
  <2>2. CASE r = t \/ s = t
    BY <1>6, <1>9, <1>16, <2>2
  <2> QED
    BY <2>1, <2>2
<1>19. ASSUME NEW s \in Tasks \ {t}, Input(t)' = Input(s)
       PROVE  Level(t)' = Level(s) /\ ~Producing(s)
  <2>1. s = c
    BY <1>3, <1>13, <1>19
  <2>2. Producing(c) => Output(c) # Input(c)
    BY NoneOwnInput DEF Exclusion
  <2> QED
    BY <1>12, <1>19, <2>1, <2>2
<1>20. SameInput'
  <2> SUFFICES ASSUME NEW r \in Tasks, NEW s \in Tasks, Input(r)' = Input(s)'
               PROVE  /\ Live(r)' /\ Live(s)' => Level(r)' = Level(s)'
                      /\ r # s /\ Producing(r) /\ Producing(s) => Kin(r, s)'
    BY <1>8 DEF SameInput
  <2>1. CASE r # t /\ s # t
    BY <1>1, <1>5, <2>1 DEF Exclusion, SameInput
  <2>2. CASE r = t /\ s = t
    BY <2>2
  <2>3. CASE r = t /\ s # t
    BY <1>1, <1>19, <2>3
  <2>4. CASE r # t /\ s = t
    BY <1>1, <1>19, <2>4
  <2> QED
    BY <2>1, <2>2, <2>3, <2>4
<1>21. NextGeneration'
  <2> SUFFICES ASSUME NEW r \in Tasks, NEW s \in Tasks, MayWrite(r), Live(s)'
               PROVE  Input(s)' = Output(r) <=> HasNext(r) /\ Level(s)' = Beyond(r)
    BY <1>1, <1>2 DEF NextGeneration
  <2>1. CASE s # t
    BY <1>1, <2>1 DEF Exclusion, NextGeneration
  <2>2. CASE s = t /\ r # c
    BY <1>3, <1>13, <2>2
  <2>3. CASE s = t /\ r = c
    BY <1>6, <2>3 DEF ContinuationStands
  <2> QED
    BY <2>1, <2>2, <2>3
<1>22. NextGenerationsDiffer'
  BY <1>1, <1>2 DEF Exclusion, NextGenerationsDiffer
<1>23. InputsOrdered'
  <2>1. PICK before \in SUBSET (Tasks \X Tasks) : Order(before)
    BY DEF Exclusion, InputsOrdered
  <2>2. ASSUME NEW r \in Tasks, NEW s \in Tasks, Producing(r), Producing(s),
               Input(s)' = Output(r)
        PROVE  <<r, s>> \in before
    <3>1. CASE s # t
      BY <1>1, <2>1, <2>2, <3>1 DEF Order
    <3>2. CASE s = t
      <4>1. r = c
        BY <1>3, <1>13, <2>2, <3>2
      <4> QED
        BY <1>1, <2>1, <3>2, <4>1 DEF Order
    <3> QED
      BY <3>1, <3>2
  <2>3. Order(before)'
    BY <1>2, <1>4, <1>8, <2>1, <2>2 DEF Order
  <2> QED
    BY <2>3 DEF InputsOrdered
<1> QED
  BY <1>14, <1>15, <1>17, <1>18, <1>20, <1>21, <1>22, <1>23 DEF Exclusion

\* What a capture makes, in terms of what flows stand for.
LEMMA CaptureInGenerations ==
  ASSUME CasesSuffice, Control, Producers, Registered, NEW t \in Tasks, RegisterCaptured(t)
  PROVE  \E c \in Tasks :
           /\ CapturedApart(t, c)
           /\ CapturedUseStands(t, c)
           /\ c = Append(t, ops[t] + 1)
           /\ ops' = [ops EXCEPT ![t] = ops[t] + 1]
<1>1. UsesInShape
  BY DEF Registered
<1>2. PICK c \in Tasks : \E new :
        /\ CaptureChanges(t, c, new)
        /\ use[t].scheduling # None
        /\ CapturedFrom(Backend, use[t], new, c)
        /\ "write" \in new.scheduling \cup new.immediate \/ Writing(t) => step'[t] = "captured"
        /\ step'[t] = "captured" => MayWrite(t)
  BY <1>1, GenerationsCaptured
<1>3. PICK new :
        /\ CaptureChanges(t, c, new)
        /\ use[t].scheduling # None
        /\ CapturedFrom(Backend, use[t], new, c)
        /\ "write" \in new.scheduling \cup new.immediate \/ Writing(t) => step'[t] = "captured"
        /\ step'[t] = "captured" => MayWrite(t)
  BY <1>2
<1>4. CapturedApart(t, c)
  BY <1>3, CapturesApart
<1>5. /\ use'[c] = new
      /\ c = Append(t, ops[t] + 1)
      /\ ops' = [ops EXCEPT ![t] = ops[t] + 1]
  BY <1>3 DEF CaptureChanges, Control, TypeOK
<1>6. CapturedUseStands(t, c)
  BY <1>3, <1>4, <1>5, CapturesStand
<1> QED
  BY <1>4, <1>5, <1>6

\* What a continuation makes.
LEMMA ContinuationInGenerations ==
  ASSUME CasesSuffice, Control, Producers, Registered, NEW t \in Tasks, RegisterContinuation(t)
  PROVE  \E c \in Tasks :
           /\ ContinuedApart(t, c)
           /\ ContinuationStands(t, c)
           /\ c = Child(t)
           /\ ops' = ops
<1>1. UsesInShape /\ CapturedAsFound
  BY DEF Registered
<1>2. PICK c \in Tasks : \E new :
        /\ ContinuationChanges(t, c, new)
        /\ ContinuedFrom(Backend, use[t], use[c], new, c)
  BY <1>1, GenerationsContinued
<1>3. PICK new :
        /\ ContinuationChanges(t, c, new)
        /\ ContinuedFrom(Backend, use[t], use[c], new, c)
  BY <1>2
<1>4. MayWrite(t)
  BY ContinuingUse DEF MayWrite
<1>5. ContinuedApart(t, c)
  BY <1>3, <1>4, ContinuesApart
<1>6. /\ use'[t] = new /\ Unseen(c) /\ t # c /\ alias' = alias
      /\ c = Child(t) /\ ops' = ops
  BY <1>3 DEF ContinuationChanges, Control, TypeOK, Unseen
<1>7. ContinuationStands(t, c)
  BY <1>3, <1>6, ContinuesStand
<1> QED
  BY <1>5, <1>6, <1>7

\* What a release does to the names of flows: it is an alias exactly when the
\* use may schedule writers and does not write, and otherwise it has an output
\* only if it writes.
LEMMA ReleaseInGenerations ==
  ASSUME AliasKept, Control, Registered, NEW t \in Tasks, ReleaseHandle(t)
  PROVE  \/ /\ alias' = alias
            /\ Producing(t) => Writing(t)
         \/ /\ MayWrite(t) /\ ~Writing(t)
            /\ alias' = ReleaseAlias(alias, use[t])
<1>1. UsesInShape
  BY DEF Registered
<1>2. /\ status[t] = "running" /\ step[t] = "idle"
      /\ alias' = IF could_be_alias[t] THEN ReleaseAlias(alias, use[t]) ELSE alias
  BY ReleaseStep
<1>3. could_be_alias[t] <=> MayWrite(t) /\ ~Writing(t)
  BY <1>2 DEF AliasKept, HasHandle, MayWrite, Writing
<1>4. ~could_be_alias[t] => (Producing(t) => Writing(t))
  BY <1>1, <1>3 DEF UsesInShape
<1> QED
  BY <1>2, <1>3, <1>4

\* Every step keeps writers apart.
LEMMA ExclusionPreserved ==
  ASSUME CasesSuffice
  PROVE  Control /\ AliasKept /\ Producers /\ Registered /\ Exclusion /\ [Next]_vars => Exclusion'
<1> SUFFICES ASSUME Control, AliasKept, Producers, Registered, Exclusion, [Next]_vars
             PROVE  Exclusion'
  OBVIOUS
<1>1. ASSUME NEW t \in Tasks, RegisterCaptured(t) PROVE Exclusion'
  BY <1>1, CaptureInGenerations, ExclusionCaptured
<1>2. ASSUME NEW t \in Tasks, RegisterContinuation(t) PROVE Exclusion'
  BY <1>2, ContinuationInGenerations, ExclusionContinuing
<1>3. ASSUME NEW t \in Tasks, ReleaseHandle(t) PROVE Exclusion'
  BY <1>3, ReleaseInGenerations, ExclusionReleased, ExclusionRenamed
<1> QED
  BY <1>1, <1>2, <1>3, StepKinds, ExclusionQuiet

\* No task touches the data while another runs that may write it: a writer runs
\* only when its input has arrived, and then nothing of its generation is left
\* but a child it is creating, which does not run yet.
LEMMA WritersExclude ==
  Control /\ Registered /\ Exclusion => ExclusiveAccess
<1> SUFFICES ASSUME Control, Registered, Exclusion,
                    NEW s \in Tasks, NEW t \in Tasks, s # t,
                    Running(s), Running(t), Writing(s), Touching(t)
             PROVE  FALSE
  BY DEF ExclusiveAccess, Running, Writing, Touching
<1>1. Live(t) /\ Arrived(t)
  BY DEF Registered, UsesInShape, Touching, Exclusion, InputsArrived
<1>2. Kin(t, s)
  BY <1>1, OnlyKinLeft
<1> QED
  BY <1>2, KinRuns DEF Kin

\* Sequential semantics (the Use interface): while a task runs that may write
\* the data, no other running task may touch it, for every program and every
\* backend that goes by the flows of the captures it is asked for.
THEOREM WritersAccessExclusively ==
  ASSUME CasesSuffice
  PROVE  Spec => []ExclusiveAccess
<1> DEFINE Inv == Control /\ AliasKept /\ Producers /\ Registered /\ Exclusion
<1>1. Init => Inv
  BY ControlInit, AliasKeptInit, ProducersInit, RegisteredInit, ExclusionInit
<1>2. Inv /\ [Next]_vars => Inv'
  <2>1. Control /\ [Next]_vars => Control'
    BY TypePreserved, InCreateWorkPreserved, ChildrenToComePreserved, CaseInUsePreserved
    DEF Control
  <2> QED
    BY <2>1, AliasKeptPreserved, ProducersPreserved, RegisteredPreserved, ExclusionPreserved
<1>3. Inv => ExclusiveAccess
  BY WritersExclude
<1> QED
  BY <1>1, <1>2, <1>3, PTL DEF Spec

(***************************************************************************)
(* Positions in the program                                                *)
(***************************************************************************)
\* A position and what extends it by one operation.
LEMMA Extended ==
  ASSUME NEW p \in Seq(Nat), NEW n \in Nat
  PROVE  /\ Append(p, n) \in Seq(Nat)
         /\ DOMAIN p = 1..Len(p) /\ Len(p) \in Nat
         /\ DOMAIN Append(p, n) = 1..(Len(p) + 1)
         /\ \A i \in 1..Len(p) : Append(p, n)[i] = p[i] /\ p[i] \in Nat
         /\ Append(p, n)[Len(p) + 1] = n
OBVIOUS

\* Where positions first differ, the lesser one comes before.
LEMMA DiffersAt ==
  ASSUME NEW p, NEW q, PO!Before(p, q)
  PROVE  \E i \in DOMAIN p \cap DOMAIN q :
           p[i] < q[i] /\ \A j \in 1..(i - 1) : p[j] = q[j]
BY DEF PO!Before

\* What comes before a position comes before all that extends it, and so does
\* what extends that.
LEMMA BeforeExtensions ==
  ASSUME NEW p \in Seq(Nat), NEW q \in Seq(Nat), NEW n \in Nat, PO!Before(p, q)
  PROVE  PO!Before(p, Append(q, n)) /\ PO!Before(Append(p, n), q)
<1>1. PICK i \in DOMAIN p \cap DOMAIN q : p[i] < q[i] /\ \A j \in 1..(i - 1) : p[j] = q[j]
  BY DiffersAt
<1>2. /\ DOMAIN p = 1..Len(p) /\ Len(p) \in Nat
      /\ DOMAIN q = 1..Len(q) /\ Len(q) \in Nat
      /\ DOMAIN Append(p, n) = 1..(Len(p) + 1)
      /\ DOMAIN Append(q, n) = 1..(Len(q) + 1)
      /\ \A j \in 1..Len(p) : Append(p, n)[j] = p[j]
      /\ \A j \in 1..Len(q) : Append(q, n)[j] = q[j]
  BY Extended
<1>3. i \in 1..Len(p) /\ i \in 1..Len(q)
  BY <1>1, <1>2
<1>4. /\ i \in DOMAIN p \cap DOMAIN Append(q, n)
      /\ p[i] < Append(q, n)[i]
      /\ \A j \in 1..(i - 1) : p[j] = Append(q, n)[j]
  BY <1>1, <1>2, <1>3
<1>5. /\ i \in DOMAIN Append(p, n) \cap DOMAIN q
      /\ Append(p, n)[i] < q[i]
      /\ \A j \in 1..(i - 1) : Append(p, n)[j] = q[j]
  BY <1>1, <1>2, <1>3
<1>6. PO!Before(p, Append(q, n))
  BY <1>4 DEF PO!Before
<1>7. PO!Before(Append(p, n), q)
  BY <1>5 DEF PO!Before
<1> QED
  BY <1>6, <1>7

\* The operations of a task come one after the other.
LEMMA BeforeNext ==
  ASSUME NEW p \in Seq(Nat), NEW m \in Nat, NEW n \in Nat, m < n
  PROVE  PO!Before(Append(p, m), Append(p, n))
<1>1. /\ Len(p) + 1 \in DOMAIN Append(p, m) \cap DOMAIN Append(p, n)
      /\ Append(p, m)[Len(p) + 1] < Append(p, n)[Len(p) + 1]
      /\ \A j \in 1..((Len(p) + 1) - 1) : Append(p, m)[j] = Append(p, n)[j]
  BY Extended
<1> QED
  BY <1>1 DEF PO!Before

\* What comes before an operation comes before the later ones of its task.
LEMMA BeforeLater ==
  ASSUME NEW p \in Seq(Nat), NEW q \in Seq(Nat), NEW m \in Nat, NEW n \in Nat, m <= n,
         PO!Before(p, Append(q, m))
  PROVE  PO!Before(p, Append(q, n))
<1>1. PICK i \in DOMAIN p \cap DOMAIN Append(q, m) :
        p[i] < Append(q, m)[i] /\ \A j \in 1..(i - 1) : p[j] = Append(q, m)[j]
  BY DiffersAt
<1>2. /\ DOMAIN p = 1..Len(p) /\ Len(p) \in Nat /\ Len(q) \in Nat
      /\ \A j \in 1..Len(p) : p[j] \in Nat
      /\ \A j \in 1..Len(q) : q[j] \in Nat
      /\ DOMAIN Append(q, m) = 1..(Len(q) + 1)
      /\ DOMAIN Append(q, n) = 1..(Len(q) + 1)
      /\ \A j \in 1..Len(q) : Append(q, m)[j] = q[j]
      /\ \A j \in 1..Len(q) : Append(q, n)[j] = q[j]
      /\ Append(q, m)[Len(q) + 1] = m
      /\ Append(q, n)[Len(q) + 1] = n
  BY Extended
<1>3. i \in 1..Len(p) /\ i \in 1..(Len(q) + 1)
  BY <1>1, <1>2
<1>4. /\ i \in DOMAIN p \cap DOMAIN Append(q, n)
      /\ p[i] < Append(q, n)[i]
      /\ \A j \in 1..(i - 1) : p[j] = Append(q, n)[j]
  BY <1>1, <1>2, <1>3
<1> QED
  BY <1>4 DEF PO!Before

\* Of two tasks, only one comes before what the other does next.
LEMMA BeforeOneWay ==
  ASSUME NEW p \in Seq(Nat), NEW q \in Seq(Nat), NEW m \in Nat, NEW n \in Nat,
         PO!Before(p, Append(q, m)), PO!Before(q, Append(p, n))
  PROVE  FALSE
<1>1. PICK i \in DOMAIN p \cap DOMAIN Append(q, m) :
        p[i] < Append(q, m)[i] /\ \A j \in 1..(i - 1) : p[j] = Append(q, m)[j]
  BY DiffersAt
<1>2. PICK k \in DOMAIN q \cap DOMAIN Append(p, n) :
        q[k] < Append(p, n)[k] /\ \A j \in 1..(k - 1) : q[j] = Append(p, n)[j]
  BY DiffersAt
<1>3. /\ DOMAIN p = 1..Len(p) /\ Len(p) \in Nat
      /\ DOMAIN q = 1..Len(q) /\ Len(q) \in Nat
      /\ \A j \in 1..Len(p) : p[j] \in Nat /\ Append(p, n)[j] = p[j]
      /\ \A j \in 1..Len(q) : q[j] \in Nat /\ Append(q, m)[j] = q[j]
  BY Extended
<1>4. i \in 1..Len(p) /\ k \in 1..Len(q)
  BY <1>1, <1>2, <1>3
<1>5. CASE i < k
  <2>1. i \in 1..Len(q) /\ i \in 1..(k - 1)
    BY <1>4, <1>5
  <2> QED
    BY <1>1, <1>2, <1>3, <1>4, <2>1
<1>6. CASE k < i
  <2>1. k \in 1..Len(p) /\ k \in 1..(i - 1)
    BY <1>4, <1>6
  <2> QED
    BY <1>1, <1>2, <1>3, <1>4, <2>1
<1>7. CASE i = k
  BY <1>1, <1>2, <1>3, <1>4, <1>7
<1> QED
  BY <1>4, <1>5, <1>6, <1>7

\* No task comes before what it does itself.
LEMMA NotBeforeItself ==
  ASSUME NEW p \in Seq(Nat), NEW n \in Nat
  PROVE  ~PO!Before(p, Append(p, n))
BY BeforeOneWay

\* Tasks follow one another.
LEMMA BeforeTransitive ==
  ASSUME NEW p \in Seq(Nat), NEW q \in Seq(Nat), NEW r \in Seq(Nat),
         NEW m \in Nat, NEW n \in Nat,
         PO!Before(p, Append(q, m)), PO!Before(q, Append(r, n))
  PROVE  PO!Before(p, Append(r, n))
<1>1. PICK i \in DOMAIN p \cap DOMAIN Append(q, m) :
        p[i] < Append(q, m)[i] /\ \A j \in 1..(i - 1) : p[j] = Append(q, m)[j]
  BY DiffersAt
<1>2. PICK k \in DOMAIN q \cap DOMAIN Append(r, n) :
        q[k] < Append(r, n)[k] /\ \A j \in 1..(k - 1) : q[j] = Append(r, n)[j]
  BY DiffersAt
<1> DEFINE z == Append(r, n)
<1>3. /\ DOMAIN p = 1..Len(p) /\ Len(p) \in Nat
      /\ DOMAIN q = 1..Len(q) /\ Len(q) \in Nat
      /\ DOMAIN Append(q, m) = 1..(Len(q) + 1)
      /\ DOMAIN z = 1..(Len(r) + 1) /\ Len(r) \in Nat
      /\ \A j \in 1..Len(p) : p[j] \in Nat
      /\ \A j \in 1..Len(q) : q[j] \in Nat /\ Append(q, m)[j] = q[j]
      /\ \A j \in 1..(Len(r) + 1) : z[j] \in Nat
  BY Extended
<1> HIDE DEF z
<1>4. /\ i \in 1..Len(p) /\ i \in 1..(Len(q) + 1)
      /\ k \in 1..Len(q) /\ k \in 1..(Len(r) + 1)
      /\ i \in Nat /\ k \in Nat
  <2>1. i \in 1..Len(p) /\ i \in 1..(Len(q) + 1)
    BY <1>1, <1>3
  <2>2. k \in 1..Len(q) /\ k \in 1..(Len(r) + 1)
    BY <1>2, <1>3 DEF z
  <2> QED
    BY <1>3, <2>1, <2>2
<1>5. q[k] < z[k] /\ \A j \in 1..(k - 1) : q[j] = z[j]
  BY <1>2 DEF z
<1>6. CASE i < k
  <2>1. i \in 1..Len(q) /\ i \in 1..(k - 1) /\ i \in 1..(Len(r) + 1)
    BY <1>4, <1>6
  <2>3. ASSUME NEW j \in 1..(i - 1) PROVE p[j] = z[j]
    <3>1. j \in 1..Len(q) /\ j \in 1..(k - 1)
      BY <1>4, <1>6
    <3> QED
      BY <1>1, <1>3, <1>5, <3>1
  <2>4. p[i] < z[i]
    BY <1>1, <1>3, <1>5, <2>1
  <2> QED
    BY <1>3, <1>4, <2>1, <2>3, <2>4 DEF PO!Before, z
<1>7. CASE k <= i
  <2>1. k \in 1..Len(p)
    BY <1>4, <1>7
  <2>3. ASSUME NEW j \in 1..(k - 1) PROVE p[j] = z[j]
    <3>1. j \in 1..Len(q) /\ j \in 1..(i - 1)
      BY <1>4, <1>7
    <3> QED
      BY <1>1, <1>3, <1>5, <3>1
  <2>4. p[k] <= q[k]
    <3>1. Append(q, m)[k] = q[k] /\ p[k] \in Nat /\ q[k] \in Nat
      BY <1>3, <1>4, <2>1
    <3>2. CASE k = i
      BY <1>1, <3>1, <3>2
    <3>3. CASE k < i
      <4>1. k \in 1..(i - 1)
        BY <1>4, <3>3
      <4>2. p[k] = Append(q, m)[k]
        BY <1>1, <4>1
      <4> QED
        BY <3>1, <4>2
    <3> QED
      BY <1>4, <1>7, <3>2, <3>3
  <2>5. p[k] < z[k]
    BY <1>3, <1>4, <1>5, <2>1, <2>4
  <2> QED
    BY <1>3, <1>4, <2>1, <2>3, <2>5 DEF PO!Before, z
<1> QED
  BY <1>4, <1>6, <1>7

\* Nothing comes between two operations of a task but what the first leads to.
LEMMA NothingBetween ==
  ASSUME NEW p \in Seq(Nat), NEW q \in Seq(Nat), NEW m \in Nat, NEW n \in Nat,
         PO!Before(Append(p, m), Append(q, n)), PO!Before(q, Append(p, m + 1))
  PROVE  FALSE
<1> DEFINE x == Append(p, m)
           y == Append(p, m + 1)
           z == Append(q, n)
<1>1. PICK i \in DOMAIN x \cap DOMAIN z : x[i] < z[i] /\ \A j \in 1..(i - 1) : x[j] = z[j]
  BY DiffersAt
<1>2. PICK k \in DOMAIN q \cap DOMAIN y : q[k] < y[k] /\ \A j \in 1..(k - 1) : q[j] = y[j]
  BY DiffersAt
<1>3. /\ Len(p) \in Nat /\ DOMAIN q = 1..Len(q) /\ Len(q) \in Nat
      /\ DOMAIN x = 1..(Len(p) + 1) /\ DOMAIN y = 1..(Len(p) + 1)
      /\ DOMAIN z = 1..(Len(q) + 1)
      /\ \A j \in 1..Len(p) : p[j] \in Nat /\ x[j] = p[j] /\ y[j] = p[j]
      /\ \A j \in 1..Len(q) : q[j] \in Nat /\ z[j] = q[j]
      /\ x[Len(p) + 1] = m /\ y[Len(p) + 1] = m + 1
  BY Extended
<1> HIDE DEF x, y, z
<1>4. /\ i \in 1..(Len(p) + 1) /\ i \in 1..(Len(q) + 1)
      /\ k \in 1..Len(q) /\ k \in 1..(Len(p) + 1)
  BY <1>1, <1>2, <1>3
<1>5. CASE k < i
  <2>1. k \in 1..Len(p) /\ k \in 1..(i - 1)
    BY <1>3, <1>4, <1>5
  <2> QED
    BY <1>1, <1>2, <1>3, <1>4, <2>1
<1>6. CASE i < k
  <2>1. i \in 1..Len(p) /\ i \in 1..(k - 1) /\ i \in 1..Len(q)
    BY <1>3, <1>4, <1>6
  <2> QED
    BY <1>1, <1>2, <1>3, <1>4, <2>1
<1>7. CASE i = k
  <2>1. x[k] < q[k] /\ q[k] < y[k] /\ q[k] \in Nat
    BY <1>1, <1>2, <1>3, <1>4, <1>7
  <2>2. CASE k \in 1..Len(p)
    <3>1. x[k] = p[k] /\ y[k] = p[k] /\ p[k] \in Nat
      BY <1>3, <2>2
    <3> QED
      BY <2>1, <3>1
  <2>3. CASE k = Len(p) + 1
    BY <1>3, <2>1, <2>3
  <2> QED
    BY <1>3, <1>4, <2>2, <2>3
<1> QED
  BY <1>4, <1>5, <1>6, <1>7

(***************************************************************************)
(* Accesses in program order                                               *)
(***************************************************************************)
\* What a task does next comes after a position; for another task, what that
\* one was created for is over and done with, or left to others.
Passed(s, p) == PO!Before(p, Append(s, ops[s] + 1))

\* Of two tasks, one has passed the other.
TasksOrdered ==
  \A s, t \in Born : s # t => Passed(s, t) \/ Passed(t, s)

\* A task has passed the one that produces its input.
InputsPassed ==
  \A s, t \in Tasks :
    Producing(s) /\ Live(t) /\ Input(t) = Output(s) => Passed(t, s)

\* A task waits as long as one that it has passed is still to produce its
\* output: for that one or for a later one, or it is just creating it.
PassedAwaited ==
  \A s, t \in Tasks :
    Producing(s) /\ Live(t) /\ Passed(t, s) /\ ~Captures(t, s) =>
      \E u \in Tasks : Producing(u) /\ Output(u) = Input(t) /\ (s = u \/ Passed(u, s))

\* What may still conflict with an access comes after it.
AccessesPassed ==
  \A b \in accesses : \A s \in Tasks :
    Live(s) /\ "write" \in b.rights \cup use[s].scheduling \cup use[s].immediate
    => Passed(s, b.at)

\* The inductive form of InProgramOrder.
InputsInOrder  == TasksOrdered /\ InputsPassed /\ PassedAwaited
ProgramOrdered == InputsInOrder /\ AccessesPassed

\* Tasks and positions are sequences of numbers.
LEMMA PositionsAreNumbers ==
  ASSUME NEW n \in Nat, NEW p \in SequencesUpTo(n)
  PROVE  p \in Seq(Nat)
<1>1. p \in Seq(1..MaxOps)
  BY TaskIsSequence
<1>2. Len(p) \in Nat /\ p \in [1..Len(p) -> 1..MaxOps]
  BY <1>1, LenProperties
<1>3. 1..MaxOps \subseteq Nat
  BY BoundsAssumption
<1>4. p \in [1..Len(p) -> Nat]
  BY <1>2, <1>3
<1> QED
  BY <1>2, <1>4, SeqDef

\* So are tasks, and so is what they count.
LEMMA TasksAreNumbers ==
  ASSUME Control, NEW s \in Tasks
  PROVE  s \in Seq(Nat) /\ ops[s] \in Nat /\ ops[s] + 1 \in Nat
<1>1. s \in Seq(Nat)
  BY PositionsAreNumbers, BoundsAssumption DEF Tasks
<1>2. ops[s] \in 0..MaxOps
  BY DEF Control, TypeOK
<1> QED
  BY <1>1, <1>2, BoundsAssumption

\* No task passes itself or one that has passed it, and passing is transitive.
LEMMA PassedIsOrder ==
  ASSUME Control
  PROVE  /\ \A s \in Tasks : ~Passed(s, s)
         /\ \A s, t \in Tasks : ~(Passed(s, t) /\ Passed(t, s))
         /\ \A r, s, t \in Tasks : Passed(r, s) /\ Passed(s, t) => Passed(r, t)
<1>1. ASSUME NEW s \in Tasks, NEW t \in Tasks, Passed(s, t), Passed(t, s) PROVE FALSE
  <2>1. /\ s \in Seq(Nat) /\ ops[s] + 1 \in Nat
        /\ t \in Seq(Nat) /\ ops[t] + 1 \in Nat
    BY TasksAreNumbers
  <2>2. PO!Before(t, Append(s, ops[s] + 1)) /\ PO!Before(s, Append(t, ops[t] + 1))
    BY <1>1 DEF Passed
  <2> QED
    BY <2>1, <2>2, BeforeOneWay
<1>2. ASSUME NEW r \in Tasks, NEW s \in Tasks, NEW t \in Tasks, Passed(r, s), Passed(s, t)
      PROVE  Passed(r, t)
  <2>1. /\ r \in Seq(Nat) /\ ops[r] + 1 \in Nat
        /\ s \in Seq(Nat) /\ ops[s] + 1 \in Nat
        /\ t \in Seq(Nat)
    BY TasksAreNumbers
  <2>2. PO!Before(s, Append(r, ops[r] + 1)) /\ PO!Before(t, Append(s, ops[s] + 1))
    BY <1>2 DEF Passed
  <2>3. PO!Before(t, Append(r, ops[r] + 1))
    BY <2>1, <2>2, BeforeTransitive
  <2> QED
    BY <2>3 DEF Passed
<1>3. \A s \in Tasks : ~Passed(s, s)
  BY <1>1
<1> QED
  BY <1>1, <1>2, <1>3

\* Tasks go on, and keep what is behind them behind them.
LEMMA PassedStays ==
  ASSUME Control, Control', NEW s \in Tasks, ops[s] <= ops'[s],
         NEW p \in Seq(Nat), Passed(s, p)
  PROVE  Passed(s, p)'
<1>1. /\ s \in Seq(Nat)
      /\ ops[s] + 1 \in Nat /\ ops[s] \in Nat
  BY TasksAreNumbers
<1>2. ops'[s] \in 0..MaxOps
  BY DEF Control, TypeOK
<1>3. ops'[s] + 1 \in Nat /\ ops[s] + 1 <= ops'[s] + 1
  BY <1>1, <1>2, BoundsAssumption
<1>4. PO!Before(p, Append(s, ops[s] + 1))
  BY DEF Passed
<1>5. PO!Before(p, Append(s, ops'[s] + 1))
  BY <1>1, <1>3, <1>4, BeforeLater
<1> QED
  BY <1>5 DEF Passed

\* Which of two tasks has passed the other never changes.
LEMMA PassedFixed ==
  ASSUME Control, Control', TasksOrdered, \A s \in Tasks : ops[s] <= ops'[s],
         NEW s \in Born, NEW t \in Born
  PROVE  Passed(s, t)' <=> Passed(s, t)
<1>1. s \in Tasks /\ t \in Tasks /\ s \in Seq(Nat) /\ t \in Seq(Nat)
  BY TasksAreNumbers DEF Born
<1>2. Passed(s, t) => Passed(s, t)'
  BY <1>1, PassedStays
<1>3. Passed(t, s) => Passed(t, s)'
  BY <1>1, PassedStays
<1>4. \A x, y \in {s, t} : ~(Passed(x, y)' /\ Passed(y, x)')
  <2> SUFFICES ASSUME NEW x \in {s, t}, NEW y \in {s, t}, Passed(x, y)', Passed(y, x)'
               PROVE  FALSE
    OBVIOUS
  <2>1. ops'[x] \in 0..MaxOps /\ ops'[y] \in 0..MaxOps
    BY <1>1 DEF Control, TypeOK
  <2>2. ops'[x] + 1 \in Nat /\ ops'[y] + 1 \in Nat /\ x \in Seq(Nat) /\ y \in Seq(Nat)
    BY <1>1, <2>1, BoundsAssumption
  <2>3. PO!Before(y, Append(x, ops'[x] + 1)) /\ PO!Before(x, Append(y, ops'[y] + 1))
    BY DEF Passed
  <2> QED
    BY <2>2, <2>3, BeforeOneWay
<1>5. s # t => Passed(s, t) \/ Passed(t, s)
  BY DEF TasksOrdered
<1> QED
  BY <1>2, <1>3, <1>4, <1>5

\* Tasks only go on.
LEMMA OpsGrow ==
  ASSUME Control, [Next]_vars
  PROVE  \A s \in Tasks : ops[s] <= ops'[s]
<1>1. ops \in [Tasks -> 0..MaxOps] /\ MaxOps \in Nat
  BY BoundsAssumption DEF Control, TypeOK
<1>2. \/ ops' = ops
      \/ \E t \in Tasks : ops' = [ops EXCEPT ![t] = @ + 1]
  BY DEF Next, TaskStep, RegisterCaptured, RegisterContinuation, ReleaseSource, SubmitTask,
     Access, ObtainReference, ReleaseReferenced, ReleaseHandle, RunTask, Terminated, vars
<1> QED
  BY <1>1, <1>2

\* A task that has a use was created.
LEMMA LiveAreBorn ==
  ASSUME Registered, NEW s \in Tasks, Live(s) \/ Producing(s)
  PROVE  s \in Born /\ Live(s)
BY DEF Registered, UsesInShape, Born, MayWrite, Writing, Producing, None

\* When a task touches the data, it has passed all that may still conflict.
LEMMA ConflictsPassed ==
  ASSUME Control, Registered, Exclusion, InputsInOrder,
         NEW t \in Tasks, Running(t), step[t] = "idle", Touching(t),
         NEW s \in Tasks \ {t}, Live(s),
         "write" \in use[t].immediate \cup use[s].scheduling \cup use[s].immediate
  PROVE  Passed(s, t)
<1> SUFFICES ASSUME ~Passed(s, t) PROVE FALSE
  OBVIOUS
<1>1. Live(t) /\ Arrived(t)
  BY DEF Registered, UsesInShape, Touching, Exclusion, InputsArrived
<1>2. Passed(t, s)
  BY <1>1, LiveAreBorn DEF InputsInOrder, TasksOrdered
<1>3. \A r \in Tasks : ~Captures(t, r)
  BY DEF Captures
<1>4. \A p \in Tasks : Producing(p) => ~Passed(t, p)
  BY <1>1, <1>3 DEF InputsInOrder, PassedAwaited, Arrived
<1>5. ~Producing(s)
  BY <1>2, <1>4
<1>6. Writing(t)
  BY <1>5 DEF Registered, UsesInShape, MayWrite, Writing
<1>7. \A p \in Tasks : Producing(p) => Output(p) # Input(s)
  <2> SUFFICES ASSUME NEW p \in Tasks, Producing(p), Output(p) = Input(s) PROVE FALSE
    OBVIOUS
  <2>1. Passed(s, p)
    BY DEF InputsInOrder, InputsPassed
  <2>2. Passed(t, p)
    BY <1>2, <2>1, PassedIsOrder
  <2> QED
    BY <1>4, <2>2
<1>8. Kin(s, t)
  BY <1>6, <1>7, OnlyKinLeft DEF Arrived
<1> QED
  BY <1>3, <1>8, KinRuns DEF Kin

\* A step that changes no flow leaves the order as it is.
LEMMA InOrderQuiet ==
  ASSUME Control, Control', Registered, InputsInOrder, Quiet,
         \A s \in Tasks : ops[s] <= ops'[s]
  PROVE  InputsInOrder'
<1>1. \A s \in Tasks :
        /\ use'[s].in = use[s].in
        /\ use'[s].out = use[s].out
        /\ status'[s] = "unborn" <=> status[s] = "unborn"
        /\ step'[s] = "captured" <=> step[s] = "captured"
        /\ step[s] = "captured" => ops'[s] = ops[s]
  BY DEF Quiet
<1>2. alias' = alias
  BY DEF Quiet
<1>3. \A s \in Tasks : /\ Live(s)' = Live(s) /\ Producing(s)' = Producing(s)
                       /\ Input(s)' = Input(s) /\ Output(s)' = Output(s)
  BY <1>1, <1>2 DEF Live, Producing, Input, Output, Stands
<1>4. \A s, t \in Tasks : Captures(s, t)' = Captures(s, t)
  BY <1>1 DEF Captures, Child
<1>5. Born' = Born
  BY <1>1 DEF Born
<1>6. TasksOrdered /\ InputsPassed /\ PassedAwaited
  BY DEF InputsInOrder
<1>7. \A s, t \in Born : Passed(s, t)' <=> Passed(s, t)
  BY <1>6, PassedFixed
<1>8. \A s \in Tasks : Live(s) \/ Producing(s) => s \in Born
  BY LiveAreBorn
<1>9. TasksOrdered'
  BY <1>5, <1>6, <1>7 DEF TasksOrdered
<1>10. InputsPassed'
  BY <1>3, <1>6, <1>7, <1>8 DEF InputsPassed
<1>11. PassedAwaited'
  <2> SUFFICES ASSUME NEW s \in Tasks, NEW t \in Tasks,
                      Producing(s), Live(t), Passed(t, s)', ~Captures(t, s)
               PROVE  \E u \in Tasks : /\ Producing(u) /\ Output(u) = Input(t)
                                       /\ s = u \/ Passed(u, s)'
    BY <1>3, <1>4 DEF PassedAwaited
  <2>1. Passed(t, s)
    BY <1>7, <1>8
  <2>2. PICK u \in Tasks : Producing(u) /\ Output(u) = Input(t) /\ (s = u \/ Passed(u, s))
    BY <1>6, <2>1 DEF PassedAwaited
  <2> QED
    BY <1>7, <1>8, <2>2
<1> QED
  BY <1>9, <1>10, <1>11 DEF InputsInOrder

\* A release leaves the others in order.  What waited for the output of the use
\* now waits for its input, if that is still to be produced; when the use is no
\* alias, nothing that the task had passed is left.
LEMMA InOrderReleased ==
  ASSUME Control, Control', Producers, Registered, Exclusion, InputsInOrder,
         NEW t \in Tasks, ReleaseHandle(t),
         \/ /\ alias' = alias
            /\ Producing(t) => Writing(t)
         \/ /\ MayWrite(t) /\ ~Writing(t)
            /\ alias' = ReleaseAlias(alias, use[t])
  PROVE  InputsInOrder'
<1>1. /\ Running(t)
      /\ ~Live(t)' /\ ~Producing(t)'
      /\ \A s \in Tasks \ {t} : /\ Live(s)' = Live(s) /\ Producing(s)' = Producing(s)
                                /\ use'[s] = use[s]
      /\ \A s \in Tasks : status'[s] = "unborn" <=> status[s] = "unborn"
      /\ \A r, s \in Tasks : Captures(r, s)' = Captures(r, s)
      /\ \A s \in Tasks : ~Captures(t, s) /\ ~Captures(s, t)
  BY OthersReleased
<1>2. ops' = ops
  BY ReleaseStep
<1>3. \A s, r \in Tasks : Passed(s, r)' <=> Passed(s, r)
  BY <1>2 DEF Passed
<1>4. Born' = Born
  BY <1>1 DEF Born
<1>5. TasksOrdered /\ InputsPassed /\ PassedAwaited
  BY DEF InputsInOrder
<1>6. TasksOrdered'
  BY <1>3, <1>4, <1>5 DEF TasksOrdered, Born
<1>7. ASSUME Producing(t), NEW s \in Tasks \ {t}, Producing(s), Passed(t, s)
      PROVE  \E u \in Tasks \ {t} : /\ Producing(u) /\ Output(u) = Input(t)
                                    /\ s = u \/ Passed(u, s)
  <2>1. Live(t)
    BY <1>7, LiveAreBorn
  <2>2. PICK u \in Tasks : Producing(u) /\ Output(u) = Input(t) /\ (s = u \/ Passed(u, s))
    BY <1>1, <1>5, <1>7, <2>1 DEF PassedAwaited
  <2>3. u # t
    BY <2>2, NoneOwnInput DEF Exclusion
  <2> QED
    BY <2>2, <2>3
<1>8. CASE /\ alias' = alias
           /\ Producing(t) => Writing(t)
  <2>1. \A s \in Tasks \ {t} : Input(s)' = Input(s) /\ Output(s)' = Output(s)
    BY <1>1, <1>8 DEF Input, Output, Stands
  <2>2. InputsPassed'
    BY <1>1, <1>3, <1>5, <2>1 DEF InputsPassed
  <2>3. PassedAwaited'
    <3> SUFFICES ASSUME NEW s \in Tasks \ {t}, NEW r \in Tasks \ {t},
                        Producing(s), Live(r), Passed(r, s), ~Captures(r, s)
                 PROVE  \E u \in Tasks \ {t} : /\ Producing(u) /\ Output(u) = Input(r)
                                               /\ s = u \/ Passed(u, s)
      BY <1>1, <1>3, <2>1 DEF PassedAwaited
    <3>1. PICK u \in Tasks : Producing(u) /\ Output(u) = Input(r) /\ (s = u \/ Passed(u, s))
      BY <1>5 DEF PassedAwaited
    <3>2. CASE u = t
      <4>1. Producing(t) /\ Passed(t, s)
        BY <3>1, <3>2
      <4>2. Arrived(t)
        <5>1. Touching(t)
          BY <1>8, <4>1 DEF Writing, Touching, None
        <5> QED
          BY <1>1, <5>1 DEF Exclusion, InputsArrived
      <4> QED
        BY <1>7, <4>1, <4>2 DEF Arrived
    <3> QED
      BY <3>1, <3>2
  <2> QED
    BY <1>6, <2>2, <2>3 DEF InputsInOrder
<1>9. CASE /\ MayWrite(t) /\ ~Writing(t)
           /\ alias' = ReleaseAlias(alias, use[t])
  <2>1. /\ \A s \in Tasks \ {t} :
             Input(s)' = IF Input(s) = Output(t) THEN Input(t) ELSE Input(s)
        /\ \A s \in Tasks \ {t} : Output(s)' = Output(s)
        /\ \A s \in Tasks \ {t} : Producing(s) => Output(s) # Output(t)
    BY <1>9, Renamed
  <2>2. Producing(t) /\ Live(t)
    BY <1>9 DEF Registered, UsesInShape, None, MayWrite
  <2>3. InputsPassed'
    <3> SUFFICES ASSUME NEW s \in Tasks \ {t}, NEW r \in Tasks \ {t},
                        Producing(s), Live(r), Input(r)' = Output(s)
                 PROVE  Passed(r, s)
      BY <1>1, <1>3, <2>1 DEF InputsPassed
    <3>1. CASE Input(r) = Output(t)
      <4>1. Passed(r, t)
        BY <1>5, <2>2, <3>1 DEF InputsPassed
      <4>2. Passed(t, s)
        BY <1>5, <2>1, <2>2, <3>1 DEF InputsPassed
      <4> QED
        BY <4>1, <4>2, PassedIsOrder
    <3>2. CASE Input(r) # Output(t)
      BY <1>5, <2>1, <3>2 DEF InputsPassed
    <3> QED
      BY <3>1, <3>2
  <2>4. PassedAwaited'
    <3> SUFFICES ASSUME NEW s \in Tasks \ {t}, NEW r \in Tasks \ {t},
                        Producing(s), Live(r), Passed(r, s), ~Captures(r, s)
                 PROVE  \E u \in Tasks \ {t} : /\ Producing(u) /\ Output(u) = Input(r)'
                                               /\ s = u \/ Passed(u, s)
      BY <1>1, <1>3, <2>1 DEF PassedAwaited
    <3>1. PICK u \in Tasks : Producing(u) /\ Output(u) = Input(r) /\ (s = u \/ Passed(u, s))
      BY <1>5 DEF PassedAwaited
    <3>2. CASE u = t
      <4>1. Input(r)' = Input(t) /\ Passed(t, s)
        BY <2>1, <3>1, <3>2
      <4> QED
        BY <1>7, <2>2, <4>1
    <3>3. CASE u # t
      <4>1. Input(r)' = Input(r)
        BY <2>1, <3>1, <3>3
      <4> QED
        BY <3>1, <3>3, <4>1
    <3> QED
      BY <3>2, <3>3
  <2> QED
    BY <1>6, <2>3, <2>4 DEF InputsInOrder
<1> QED
  BY <1>8, <1>9

\* A capture leaves the tasks in order: what the new task does comes right
\* before what its creator goes on to, and after all that one has passed.
LEMMA InOrderCaptured ==
  ASSUME Control, Control', Registered, Exclusion, InputsInOrder,
         NEW t \in Tasks, NEW c \in Tasks,
         CapturedApart(t, c), CapturedUseStands(t, c),
         c = Append(t, ops[t] + 1),
         ops' = [ops EXCEPT ![t] = ops[t] + 1]
  PROVE  InputsInOrder'
<1>1. /\ Running(t) /\ t # c
      /\ ~Producing(c) /\ ~Live(c)
      /\ \A s \in Tasks \ {c} :
           /\ Live(s)' = Live(s) /\ Producing(s)' = Producing(s)
           /\ Input(s)' = Input(s) /\ Output(s)' = Output(s)
      /\ \A s \in Tasks : \A r \in Tasks : s # t => Captures(s, r)' = Captures(s, r)
      /\ \A s \in Tasks : ~Captures(t, s) /\ ~Captures(s, t)
      /\ \A r \in Tasks : Captures(t, r)' <=> step'[t] = "captured" /\ r = c
      /\ \A s \in Tasks \ {c} : status'[s] = status[s]
      /\ status[c] = "unborn" /\ status'[c] # "unborn"
  BY DEF CapturedApart
<1>2. /\ Flow(c, "in") # NoFlow /\ Flow(c, "in").owner = c
      /\ Flow(c, "out") # NoFlow /\ Flow(c, "out").owner = c
  BY DEF Flow, NoFlow
<1>3. \A s \in Tasks \ {c} : Input(s) # Flow(c, "out") /\ Output(s) # Flow(c, "in")
  BY <1>2 DEF CapturedApart
<1>4. /\ Live(t)
      /\ Producing(c)' => MayWrite(t) /\ step'[t] = "captured"
      /\ Producing(c)' => Output(c)' = Flow(c, "out")
      /\ Input(c)' # Output(c)'
      /\ \/ Input(c)' = Input(t)
         \/ Input(c)' = Flow(c, "in") /\ Touching(t)
  BY DEF CapturedUseStands
<1>5. TasksOrdered /\ InputsPassed /\ PassedAwaited
  BY DEF InputsInOrder
<1>6. Born' = Born \cup {c} /\ c \notin Born /\ t \in Born /\ Born \subseteq Tasks
  BY <1>1 DEF Born, Running
<1>7. \A s \in Tasks : ops[s] <= ops'[s]
  <2>1. \A s \in Tasks : ops[s] \in Nat
    BY TasksAreNumbers
  <2> QED
    BY <2>1
<1>8. \A s, r \in Born : Passed(s, r)' <=> Passed(s, r)
  BY <1>5, <1>7, PassedFixed
<1>9. \A s \in Tasks : Live(s) \/ Producing(s) => s \in Born
  BY LiveAreBorn
<1>10. \A s \in Born : s # t =>
         /\ Passed(s, t) => Passed(s, c)'
         /\ Passed(t, s) => Passed(c, s)'
  <2> SUFFICES ASSUME NEW s \in Born, s # t
               PROVE  /\ Passed(s, t) => Passed(s, c)'
                      /\ Passed(t, s) => Passed(c, s)'
    OBVIOUS
  <2>1. /\ s \in Tasks /\ s # c /\ s \in Seq(Nat) /\ t \in Seq(Nat) /\ c \in Seq(Nat)
        /\ ops[t] + 1 \in Nat /\ ops[s] + 1 \in Nat
    BY <1>6, TasksAreNumbers
  <2>2. ops'[c] + 1 \in Nat /\ ops'[s] = ops[s]
    <3>1. ops'[c] = ops[c] /\ ops'[s] = ops[s]
      BY <1>1, <2>1 DEF Control, TypeOK
    <3> QED
      BY <3>1, TasksAreNumbers
  <2>3. ASSUME Passed(s, t) PROVE Passed(s, c)'
    <3>1. PO!Before(t, Append(s, ops[s] + 1))
      BY <2>3 DEF Passed
    <3>2. Append(s, ops[s] + 1) \in Seq(Nat)
      BY <2>1
    <3>3. PO!Before(c, Append(s, ops[s] + 1))
      BY <2>1, <3>1, <3>2, BeforeExtensions
    <3> QED
      BY <2>2, <3>3 DEF Passed
  <2>4. ASSUME Passed(t, s) PROVE Passed(c, s)'
    <3>1. PO!Before(s, c)
      BY <2>4 DEF Passed
    <3>2. PO!Before(s, Append(c, ops'[c] + 1))
      BY <2>1, <2>2, <3>1, BeforeExtensions
    <3> QED
      BY <3>2 DEF Passed
  <2> QED
    BY <2>3, <2>4
<1>11. Passed(t, c)'
  <2>1. ops[t] + 1 \in Nat /\ ops'[t] + 1 \in Nat /\ ops[t] + 1 < ops'[t] + 1 /\ t \in Seq(Nat)
    <3>1. ops'[t] = ops[t] + 1
      BY DEF Control, TypeOK
    <3> QED
      BY <3>1, TasksAreNumbers
  <2>2. PO!Before(c, Append(t, ops'[t] + 1))
    BY <2>1, BeforeNext
  <2> QED
    BY <2>2 DEF Passed
<1>12. \A s, r \in Tasks : ~(Passed(s, r)' /\ Passed(r, s)')
  <2> SUFFICES ASSUME NEW x \in Tasks, NEW y \in Tasks, Passed(x, y)', Passed(y, x)'
               PROVE  FALSE
    OBVIOUS
  <2>1. /\ ops'[x] \in 0..MaxOps /\ ops'[y] \in 0..MaxOps
    BY DEF Control, TypeOK
  <2>2. ops'[x] + 1 \in Nat /\ ops'[y] + 1 \in Nat /\ x \in Seq(Nat) /\ y \in Seq(Nat)
    BY <2>1, BoundsAssumption, TasksAreNumbers
  <2>3. PO!Before(y, Append(x, ops'[x] + 1)) /\ PO!Before(x, Append(y, ops'[y] + 1))
    BY DEF Passed
  <2> QED
    BY <2>2, <2>3, BeforeOneWay
<1>13. ASSUME NEW s \in Born, s # t, Passed(s, c)' PROVE Passed(s, t)
  BY <1>5, <1>6, <1>10, <1>12, <1>13 DEF TasksOrdered
<1>14. ASSUME NEW s \in Born, s # t, Passed(c, s)' PROVE Passed(t, s)
  BY <1>5, <1>6, <1>10, <1>12, <1>14 DEF TasksOrdered
<1>15. ~Passed(c, t)' /\ ~Passed(c, c)'
  BY <1>11, <1>12
<1>16. TasksOrdered'
  <2> SUFFICES ASSUME NEW s \in Born \cup {c}, NEW r \in Born \cup {c}, s # r
               PROVE  Passed(s, r)' \/ Passed(r, s)'
    BY <1>6 DEF TasksOrdered
  <2>1. \A x \in Born : x # t => Passed(x, t) \/ Passed(t, x)
    BY <1>5, <1>6 DEF TasksOrdered
  <2>2. \A x \in Born : Passed(x, c)' \/ Passed(c, x)'
    BY <1>10, <1>11, <2>1
  <2>3. CASE s \in Born /\ r \in Born
    BY <1>5, <1>8, <2>3 DEF TasksOrdered
  <2> QED
    BY <2>2, <2>3
<1>17. InputsPassed'
  <2> SUFFICES ASSUME NEW s \in Tasks, NEW r \in Tasks,
                      Producing(s)', Live(r)', Input(r)' = Output(s)'
               PROVE  Passed(r, s)'
    BY DEF InputsPassed
  <2>1. CASE s = c
    <3>1. Output(c)' = Flow(c, "out") /\ Input(c)' # Flow(c, "out")
      BY <1>4, <2>1
    <3>2. CASE r = c
      BY <2>1, <3>1, <3>2
    <3>3. CASE r # c
      BY <1>1, <1>3, <2>1, <3>1, <3>3
    <3> QED
      BY <3>2, <3>3
  <2>2. CASE s # c /\ r # c
    BY <1>1, <1>5, <1>8, <1>9, <2>2 DEF InputsPassed
  <2>3. CASE s # c /\ r = c
    <3>1. Producing(s) /\ Output(s)' = Output(s) /\ Output(s) # Flow(c, "in")
      BY <1>1, <1>3, <2>3
    <3>2. Input(t) = Output(s)
      BY <1>4, <2>3, <3>1
    <3>3. Passed(t, s)
      BY <1>4, <1>5, <3>1, <3>2 DEF InputsPassed
    <3>4. s # t
      BY <3>3, PassedIsOrder
    <3> QED
      BY <1>9, <1>10, <2>3, <3>1, <3>3, <3>4
  <2> QED
    BY <2>1, <2>2, <2>3
<1>18. PassedAwaited'
  <2> SUFFICES ASSUME NEW s \in Tasks, NEW r \in Tasks,
                      Producing(s)', Live(r)', Passed(r, s)', ~Captures(r, s)'
               PROVE  \E u \in Tasks : /\ Producing(u)' /\ Output(u)' = Input(r)'
                                       /\ s = u \/ Passed(u, s)'
    BY DEF PassedAwaited
  <2>1. CASE s # c /\ r # c
    <3>1. Producing(s) /\ Live(r) /\ Passed(r, s) /\ ~Captures(r, s)
      BY <1>1, <1>8, <1>9, <2>1
    <3>2. PICK u \in Tasks : Producing(u) /\ Output(u) = Input(r) /\ (s = u \/ Passed(u, s))
      BY <1>5, <3>1 DEF PassedAwaited
    <3>3. u # c
      BY <1>1, <3>2
    <3> QED
      BY <1>1, <1>8, <1>9, <2>1, <3>1, <3>2, <3>3
  <2>2. CASE s = c
    <3>1. MayWrite(t) /\ Producing(c)' /\ Captures(t, c)'
      BY <1>1, <1>4, <2>2
    <3>2. r # c
      BY <1>15, <2>2
    <3>3. r # t
      BY <2>2, <3>1
    <3>4. Live(r) /\ r \in Born /\ Passed(r, t) /\ ~Captures(r, t)
      <4>1. Live(r) /\ r \in Born /\ ~Captures(r, t)
        BY <1>1, <1>9, <3>2
      <4>2. Passed(r, c)'
        BY <2>2
      <4>3. Passed(r, t)
        BY <1>13, <3>3, <4>1, <4>2
      <4> QED
        BY <4>1, <4>3
    <3>5. Producing(t)
      BY <3>1 DEF Registered, UsesInShape
    <3>6. PICK u \in Tasks : Producing(u) /\ Output(u) = Input(r) /\ (t = u \/ Passed(u, t))
      BY <1>5, <3>4, <3>5 DEF PassedAwaited
    <3>7. u # c /\ u \in Born
      BY <1>1, <1>9, <3>6
    <3>8. Passed(u, c)'
      BY <1>10, <1>11, <3>6, <3>7
    <3> QED
      BY <1>1, <2>2, <3>2, <3>6, <3>7, <3>8
  <2>3. CASE s # c /\ r = c
    <3>1. Producing(s) /\ s \in Born
      BY <1>1, <1>9, <2>3
    <3>2. s # t /\ Passed(t, s)
      <4>1. s # t
        BY <1>15, <2>3
      <4>2. Passed(c, s)'
        BY <2>3
      <4> QED
        BY <1>14, <3>1, <4>1, <4>2
    <3>3. PICK u \in Tasks : Producing(u) /\ Output(u) = Input(t) /\ (s = u \/ Passed(u, s))
      BY <1>1, <1>4, <1>5, <3>1, <3>2 DEF PassedAwaited
    <3>4. u # c /\ u \in Born
      BY <1>1, <1>9, <3>3
    <3>5. ~Touching(t)
      BY <1>1, <3>3 DEF Exclusion, InputsArrived, Arrived
    <3> QED
      BY <1>1, <1>4, <1>8, <2>3, <3>1, <3>3, <3>4, <3>5
  <2> QED
    BY <2>1, <2>2, <2>3
<1> QED
  BY <1>16, <1>17, <1>18 DEF InputsInOrder

\* A continuation leaves the tasks in order: it has passed the captured use
\* only, which comes before all that its source had still to pass.
LEMMA InOrderContinuing ==
  ASSUME Control, Control', Producers, Registered, Exclusion, InputsInOrder,
         NEW t \in Tasks, NEW c \in Tasks,
         ContinuedApart(t, c), ContinuationStands(t, c),
         c = Child(t),
         ops' = ops
  PROVE  InputsInOrder'
<1>1. /\ t # c /\ Running(t) /\ Captures(t, c)
      /\ Producing(t) /\ Producing(t)'
      /\ \A s \in Tasks \ {t} : /\ Live(s)' = Live(s) /\ Producing(s)' = Producing(s)
                                /\ Input(s)' = Input(s)
      /\ \A s \in Tasks : status'[s] = status[s] /\ Output(s)' = Output(s)
      /\ \A s, r \in Tasks : Captures(s, r)' <=> s # t /\ Captures(s, r)
      /\ \A s \in Tasks : Captures(t, s) => s = c
  BY DEF ContinuedApart
<1>2. \/ Producing(c) /\ Input(t)' = Output(c)
      \/ ~Producing(c) /\ Writing(t) /\ Input(t)' = Input(c)
  BY DEF ContinuationStands
<1>3. TasksOrdered /\ InputsPassed /\ PassedAwaited
  BY DEF InputsInOrder
<1>4. \A s, r \in Tasks : Passed(s, r)' <=> Passed(s, r)
  BY DEF Passed
<1>5. Born' = Born
  BY <1>1 DEF Born
<1>6. \A s \in Tasks : Producing(s)' <=> Producing(s)
  BY <1>1
<1>7. c \in Born /\ t \in Born /\ Live(t)
  <2>1. status[c] = "captured" /\ Running(t)
    BY <1>1, KinRuns
  <2> QED
    BY <1>1, <2>1, LiveAreBorn DEF Born
<1>8. /\ t \in Seq(Nat) /\ ops[t] \in Nat /\ ops[t] + 1 \in Nat
      /\ c = Append(t, ops[t])
  BY TasksAreNumbers DEF Child
<1>9. Passed(t, c)
  <2>1. ops[t] < ops[t] + 1
    BY <1>8
  <2>2. PO!Before(c, Append(t, ops[t] + 1))
    BY <1>8, <2>1, BeforeNext
  <2> QED
    BY <2>2 DEF Passed
<1>10. ASSUME NEW s \in Tasks, s # c, Producing(s), Passed(t, s) PROVE Passed(c, s)
  <2>1. s \in Born
    BY <1>10, LiveAreBorn
  <2>2. s \in Seq(Nat) /\ ops[s] + 1 \in Nat
    BY TasksAreNumbers
  <2>3. ~Passed(s, c)
    <3> SUFFICES ASSUME Passed(s, c) PROVE FALSE
      OBVIOUS
    <3>1. /\ PO!Before(Append(t, ops[t]), Append(s, ops[s] + 1))
          /\ PO!Before(s, Append(t, ops[t] + 1))
      BY <1>8, <1>10 DEF Passed
    <3> QED
      BY <1>8, <2>2, <3>1, NothingBetween
  <2> QED
    BY <1>3, <1>7, <1>10, <2>1, <2>3 DEF TasksOrdered
<1>11. Writing(t) => Arrived(t) /\ Arrived(c)
  BY <1>1 DEF Exclusion, InputsArrived, Writing, Touching, None
<1>12. TasksOrdered'
  BY <1>3, <1>4, <1>5 DEF TasksOrdered, Born
<1>13. InputsPassed'
  <2> SUFFICES ASSUME NEW s \in Tasks, NEW r \in Tasks,
                      Producing(s), Live(r)', Input(r)' = Output(s)
               PROVE  Passed(r, s)
    BY <1>1, <1>4, <1>6 DEF InputsPassed
  <2>1. CASE r # t
    BY <1>1, <1>3, <2>1 DEF InputsPassed
  <2>2. CASE r = t
    <3>1. CASE Producing(c) /\ Input(t)' = Output(c)
      <4>1. s = c
        BY <2>2, <3>1, OutputsDiffer
      <4> QED
        BY <1>9, <2>2, <4>1
    <3>2. CASE ~Producing(c) /\ Writing(t) /\ Input(t)' = Input(c)
      BY <1>11, <2>2, <3>2 DEF Arrived
    <3> QED
      BY <1>2, <3>1, <3>2
  <2> QED
    BY <2>1, <2>2
<1>14. PassedAwaited'
  <2> SUFFICES ASSUME NEW s \in Tasks, NEW r \in Tasks,
                      Producing(s), Live(r)', Passed(r, s), ~Captures(r, s)'
               PROVE  \E u \in Tasks : /\ Producing(u) /\ Output(u) = Input(r)'
                                       /\ s = u \/ Passed(u, s)
    BY <1>1, <1>4, <1>6 DEF PassedAwaited
  <2>1. CASE r # t
    <3>1. Live(r) /\ Input(r)' = Input(r) /\ ~Captures(r, s)
      BY <1>1, <2>1
    <3> QED
      BY <1>3, <3>1 DEF PassedAwaited
  <2>2. CASE r = t /\ Producing(c) /\ Input(t)' = Output(c)
    <3>1. s = c \/ Passed(c, s)
      BY <1>10, <2>2
    <3> QED
      BY <2>2, <3>1
  <2>3. CASE r = t /\ ~Producing(c) /\ Writing(t) /\ Input(t)' = Input(c)
    <3>1. ~Captures(t, s)
      BY <1>1, <2>3
    <3> QED
      BY <1>3, <1>7, <1>11, <2>3, <3>1 DEF PassedAwaited, Arrived
  <2> QED
    BY <1>2, <2>1, <2>2, <2>3
<1> QED
  BY <1>12, <1>13, <1>14 DEF InputsInOrder

\* Every step leaves the tasks in order.
LEMMA InOrderPreserved ==
  ASSUME CasesSuffice, Control, Control', AliasKept, Producers, Registered, Exclusion,
         InputsInOrder, [Next]_vars
  PROVE  InputsInOrder'
<1>1. ASSUME NEW t \in Tasks, RegisterCaptured(t) PROVE InputsInOrder'
  BY <1>1, CaptureInGenerations, InOrderCaptured
<1>2. ASSUME NEW t \in Tasks, RegisterContinuation(t) PROVE InputsInOrder'
  BY <1>2, ContinuationInGenerations, InOrderContinuing
<1>3. ASSUME NEW t \in Tasks, ReleaseHandle(t) PROVE InputsInOrder'
  BY <1>3, ReleaseInGenerations, InOrderReleased
<1>4. CASE Quiet
  BY <1>4, OpsGrow, InOrderQuiet
<1> QED
  BY <1>1, <1>2, <1>3, <1>4, StepKinds

\* An access is the only step that adds one.
LEMMA OnlyAccesses ==
  ASSUME [Next]_vars
  PROVE  accesses' = accesses \/ \E t \in Tasks : Access(t)
BY DEF Next, TaskStep, RegisterCaptured, RegisterContinuation, ReleaseSource, SubmitTask,
   ObtainReference, ReleaseReferenced, ReleaseHandle, RunTask, Terminated, vars

\* What was accessed was accessed at a position, with rights.
LEMMA AccessPositions ==
  ASSUME Control, NEW b \in accesses
  PROVE  b.at \in Seq(Nat)
<1>1. b.at \in SequencesUpTo(MaxDepth + 1)
  BY DEF Control, TypeOK
<1>2. MaxDepth + 1 \in Nat
  BY BoundsAssumption
<1> QED
  BY <1>1, <1>2, PositionsAreNumbers

\* A step other than a capture gives nobody a right, or a use.
LEMMA RightsOnlyShrink ==
  ASSUME Control, [Next]_vars, NEW s \in Tasks, Live(s)',
         \A t \in Tasks : ~RegisterCaptured(t)
  PROVE  /\ use'[s].scheduling \cup use'[s].immediate
              \subseteq use[s].scheduling \cup use[s].immediate
         /\ Live(s) \/ MayWrite(s)
<1>1. ASSUME NEW t \in Tasks, RegisterContinuation(t)
      PROVE  /\ use'[s].scheduling \cup use'[s].immediate
                  \subseteq use[s].scheduling \cup use[s].immediate
             /\ Live(s) \/ MayWrite(s)
  <2>1. CASE s = t
    BY <1>1, <2>1, ContinuingUse DEF MayWrite
  <2>2. CASE s # t
    BY <1>1, <2>2, ContinuingUse DEF Live
  <2> QED
    BY <2>1, <2>2
<1>2. ASSUME NEW t \in Tasks, ReleaseHandle(t)
      PROVE  /\ use'[s].scheduling \cup use'[s].immediate
                  \subseteq use[s].scheduling \cup use[s].immediate
             /\ Live(s) \/ MayWrite(s)
  <2>1. s # t /\ use'[s] = use[s]
    BY <1>2, OthersReleased
  <2> QED
    BY <2>1 DEF Live
<1>3. CASE Quiet
  BY <1>3 DEF Quiet, Live, None
<1> QED
  BY <1>1, <1>2, <1>3, StepKinds

\* A task that has passed an access still has, and a new one has passed all that
\* its creator has; neither gets a right that its creator or itself had not.
LEMMA AccessesStayPassed ==
  ASSUME Control, Control', Registered, AccessesPassed, [Next]_vars,
         NEW b \in accesses, NEW s \in Tasks, Live(s)',
         "write" \in b.rights \cup use'[s].scheduling \cup use'[s].immediate
  PROVE  Passed(s, b.at)'
<1>0. b.at \in Seq(Nat) /\ ops[s] <= ops'[s]
  BY AccessPositions, OpsGrow
<1>1. \A r \in Tasks : MayWrite(r) => Live(r)
  BY DEF Registered, UsesInShape, MayWrite, None
<1>2. CASE \E t \in Tasks : RegisterCaptured(t)
  <2>1. PICK t \in Tasks : RegisterCaptured(t)
    BY <1>2
  <2> DEFINE child == Append(t, ops[t] + 1)
  <2>2. /\ child \in Tasks
        /\ \A u \in Tasks \ {child} : use'[u] = use[u]
        /\ use'[child].scheduling \cup use'[child].immediate \subseteq use[t].scheduling
    BY <2>1, CapturedUse
  <2>3. CASE s # child
    <3>1. use'[s] = use[s]
      BY <2>2, <2>3
    <3>2. Live(s) /\ "write" \in b.rights \cup use[s].scheduling \cup use[s].immediate
      BY <3>1 DEF Live
    <3>3. Passed(s, b.at)
      BY <3>2 DEF AccessesPassed
    <3> QED
      BY <1>0, <3>3, PassedStays
  <2>4. CASE s = child
    <3>1. use[t].scheduling # None /\ status[t] = "running"
      BY <2>1 DEF RegisterCaptured, MayOperate
    <3>2. Live(t)
      BY <3>1 DEF Registered, UsesInShape
    <3>3. "write" \in b.rights \cup use[t].scheduling \cup use[t].immediate
      BY <2>2, <2>4
    <3>4. Passed(t, b.at)
      BY <3>2, <3>3 DEF AccessesPassed
    <3>5. PO!Before(b.at, child)
      BY <3>4 DEF Passed
    <3>6. child \in Seq(Nat) /\ ops'[s] + 1 \in Nat
      <4>1. ops'[s] \in 0..MaxOps
        BY DEF Control, TypeOK
      <4> QED
        BY <2>2, <4>1, TasksAreNumbers, BoundsAssumption
    <3> HIDE DEF child
    <3>7. PO!Before(b.at, Append(child, ops'[s] + 1))
      BY <1>0, <3>5, <3>6, BeforeExtensions
    <3> QED
      BY <2>4, <3>7 DEF Passed
  <2> QED
    BY <2>3, <2>4
<1>3. CASE \A t \in Tasks : ~RegisterCaptured(t)
  <2>1. /\ use'[s].scheduling \cup use'[s].immediate
             \subseteq use[s].scheduling \cup use[s].immediate
        /\ Live(s) \/ MayWrite(s)
    BY <1>3, RightsOnlyShrink
  <2>2. Live(s) /\ "write" \in b.rights \cup use[s].scheduling \cup use[s].immediate
    BY <1>1, <2>1
  <2>3. Passed(s, b.at)
    BY <2>2 DEF AccessesPassed
  <2> QED
    BY <1>0, <2>3, PassedStays
<1> QED
  BY <1>2, <1>3

\* An access happens after all that it conflicts with, and before all that may
\* still conflict with it.
LEMMA AccessInOrder ==
  ASSUME Control, Control', Registered, Exclusion, ProgramOrdered,
         NEW t \in Tasks, Access(t)
  PROVE  AccessesPassed' /\ PO!Next
<1>0. PICK a : a = [at |-> Append(t, ops[t] + 1), rights |-> use[t].immediate]
  OBVIOUS
<1>1. /\ status[t] = "running" /\ step[t] = "idle"
      /\ ops[t] < MaxOps
      /\ use[t].immediate # None
      /\ ops' = [ops EXCEPT ![t] = @ + 1]
      /\ accesses' = accesses \cup {a}
      /\ use' = use
  BY <1>0 DEF Access, MayOperate
<1>2. InputsInOrder /\ AccessesPassed
  BY DEF ProgramOrdered
<1>3. /\ t \in Seq(Nat) /\ ops[t] \in Nat /\ ops[t] + 1 \in Nat /\ ops[t] + 1 \in 1..MaxOps
      /\ a.at = Append(t, ops[t] + 1) /\ a.rights = use[t].immediate
  BY <1>0, <1>1, TasksAreNumbers, BoundsAssumption
<1>4. a \in PO!Accesses
  <2>1. a.at \in SequencesUpTo(MaxDepth + 1)
    BY <1>3, AppendIsTask, BoundsAssumption DEF Tasks
  <2>2. a.rights \in (SUBSET PO!Rights) \ {{}}
    <3>1. use[t].immediate \in {Read, Modify}
      BY <1>1 DEF Registered, UsesInShape, FrontEndPermissions
    <3> QED
      BY <1>3, <3>1 DEF Read, Modify, PO!Rights
  <2> QED
    BY <1>0, <2>1, <2>2 DEF PO!Accesses
<1>5. Live(t)
  BY <1>1 DEF Registered, UsesInShape
<1>6. \A b \in accesses : PO!Conflict(a, b) => PO!Before(b.at, a.at)
  <2> SUFFICES ASSUME NEW b \in accesses, PO!Conflict(a, b) PROVE PO!Before(b.at, a.at)
    OBVIOUS
  <2>1. "write" \in b.rights \cup use[t].scheduling \cup use[t].immediate
    BY <1>3 DEF PO!Conflict
  <2>2. Passed(t, b.at)
    BY <1>2, <1>5, <2>1 DEF AccessesPassed
  <2> QED
    BY <1>3, <2>2 DEF Passed
<1>7. PO!Next
  BY <1>1, <1>4, <1>6 DEF PO!Next, PO!Access
<1>8. ops'[t] = ops[t] + 1 /\ \A s \in Tasks \ {t} : ops'[s] = ops[s]
  BY <1>1 DEF Control, TypeOK
<1>9. ASSUME NEW b \in accesses, NEW s \in Tasks, Live(s),
             "write" \in b.rights \cup use[s].scheduling \cup use[s].immediate
      PROVE  Passed(s, b.at)'
  <2>1. Passed(s, b.at) /\ b.at \in Seq(Nat)
    BY <1>2, <1>9, AccessPositions DEF AccessesPassed
  <2>2. ops[s] <= ops'[s]
    BY <1>8, TasksAreNumbers
  <2> QED
    BY <2>1, <2>2, PassedStays
<1>10. ASSUME NEW s \in Tasks, Live(s),
              "write" \in a.rights \cup use[s].scheduling \cup use[s].immediate
       PROVE  Passed(s, a.at)'
  <2>1. CASE s = t
    <3>1. ops'[t] + 1 \in Nat /\ ops[t] + 1 < ops'[t] + 1
      BY <1>3, <1>8
    <3>2. PO!Before(a.at, Append(t, ops'[t] + 1))
      BY <1>3, <3>1, BeforeNext
    <3> QED
      BY <2>1, <3>2 DEF Passed
  <2>2. CASE s # t
    <3>1. Passed(s, t)
      BY <1>1, <1>2, <1>3, <1>10, <2>2, ConflictsPassed DEF Running, Touching
    <3>2. s \in Seq(Nat) /\ ops[s] + 1 \in Nat /\ ops'[s] = ops[s]
      BY <1>8, <2>2, TasksAreNumbers
    <3>3. PO!Before(t, Append(s, ops[s] + 1))
      BY <3>1 DEF Passed
    <3>4. Append(s, ops[s] + 1) \in Seq(Nat)
      BY <3>2
    <3>5. PO!Before(a.at, Append(s, ops[s] + 1))
      BY <1>3, <3>3, <3>4, BeforeExtensions
    <3> QED
      BY <3>2, <3>5 DEF Passed
  <2> QED
    BY <2>1, <2>2
<1>11. AccessesPassed'
  <2> SUFFICES ASSUME NEW b \in accesses', NEW s \in Tasks, Live(s)',
                      "write" \in b.rights \cup use'[s].scheduling \cup use'[s].immediate
               PROVE  Passed(s, b.at)'
    BY DEF AccessesPassed
  <2>1. Live(s) /\ use'[s] = use[s]
    BY <1>1 DEF Live
  <2>2. CASE b \in accesses
    BY <1>9, <2>1, <2>2
  <2>3. CASE b = a
    BY <1>10, <2>1, <2>3
  <2> QED
    BY <1>1, <2>2, <2>3
<1> QED
  BY <1>7, <1>11

\* Every step keeps the program order, and is one of ProgramOrder or changes no
\* accesses.
LEMMA ProgramOrderPreserved ==
  ASSUME CasesSuffice, Control, Control', AliasKept, Producers, Registered, Exclusion,
         ProgramOrdered, [Next]_vars
  PROVE  ProgramOrdered' /\ [PO!Next]_accesses
<1>1. InputsInOrder'
  BY InOrderPreserved DEF ProgramOrdered
<1>2. CASE accesses' = accesses
  <2>1. AccessesPassed'
    BY <1>2, AccessesStayPassed DEF AccessesPassed, ProgramOrdered
  <2> QED
    BY <1>1, <1>2, <2>1 DEF ProgramOrdered
<1>3. CASE \E t \in Tasks : Access(t)
  BY <1>1, <1>3, AccessInOrder DEF ProgramOrdered
<1> QED
  BY <1>2, <1>3, OnlyAccesses

\* At the start there is the top level, which nothing is to come before.
LEMMA ProgramOrderInit == Init => ProgramOrdered /\ PO!Init
<1> SUFFICES ASSUME Init PROVE ProgramOrdered /\ PO!Init
  OBVIOUS
<1>1. accesses = {} /\ \A s \in Tasks : s # Root => status[s] = "unborn" /\ use[s] = NoUse
  BY DEF Init
<1>2. NoUse.in = NoFlow /\ NoUse.out = NoFlow
  BY DEF NoUse, MakeUse, UseFlows, Perms
<1>3. \A s \in Tasks : Live(s) \/ Producing(s) \/ s \in Born => s = Root
  BY <1>1, <1>2 DEF Live, Producing, Born
<1>4. Control /\ Exclusion
  BY ControlInit, ExclusionInit
<1>5. \A s \in Tasks : Producing(s) => Output(s) # Input(s)
  BY <1>4, NoneOwnInput DEF Exclusion
<1>6. \A s \in Tasks : ~Passed(s, s)
  BY <1>4, PassedIsOrder
<1>7. TasksOrdered
  BY <1>3 DEF TasksOrdered, Born
<1>8. InputsPassed
  BY <1>3, <1>5 DEF InputsPassed
<1>9. PassedAwaited
  BY <1>3, <1>6 DEF PassedAwaited
<1>10. AccessesPassed /\ PO!Init
  BY <1>1 DEF AccessesPassed, PO!Init
<1> QED
  BY <1>7, <1>8, <1>9, <1>10 DEF InputsInOrder, ProgramOrdered

\* Accesses that conflict, made through get_value, get_reference and the like,
\* happen in the order of the sequential program, whatever the order in which
\* the backend runs tasks: DarmaTasks implements ProgramOrder.
THEOREM AccessesInProgramOrder ==
  ASSUME CasesSuffice
  PROVE  Spec => InProgramOrder
<1> DEFINE Inv == /\ Control /\ AliasKept /\ Producers /\ Registered /\ Exclusion
                  /\ ProgramOrdered
<1>1. Init => Inv /\ PO!Init
  BY ControlInit, AliasKeptInit, ProducersInit, RegisteredInit, ExclusionInit, ProgramOrderInit
<1>2. Inv /\ [Next]_vars => Inv' /\ [PO!Next]_accesses
  <2>1. Control /\ [Next]_vars => Control'
    BY TypePreserved, InCreateWorkPreserved, ChildrenToComePreserved, CaseInUsePreserved
    DEF Control
  <2> QED
    BY <2>1, AliasKeptPreserved, ProducersPreserved, RegisteredPreserved, ExclusionPreserved,
       ProgramOrderPreserved
<1> QED
  BY <1>1, <1>2, PTL DEF Spec, InProgramOrder, PO!Spec

(***************************************************************************)
(* Migration                                                               *)
(*                                                                         *)
(* The invariant is Control and AliasKept of DarmaTasksProofs, and Moving, *)
(* which says what is on its way: a use without data, of a pending task,   *)
(* that is no alias.  With it, packing, unpacking and the release of an    *)
(* original are seen to stutter, and the other steps to be those of        *)
(* DarmaTasks, whose lemmas apply.                                         *)
(***************************************************************************)
Waiting(t) == status[t] \in {"captured", "pending"}

\* What is on its way.
Moving ==
  /\ transit \in [Tasks -> {"home", "packed", "moved"}]
  /\ origin \in [Tasks -> [use : UseRecords, could_be_alias : BOOLEAN]]
  /\ \A t \in Tasks :
       /\ Waiting(t) => use[t].data = FALSE
       /\ transit[t] = "packed" =>
            status[t] = "pending" /\ PermissionsOf(use[t]) \in Migratable
       /\ origin[t].could_be_alias = FALSE

MigrationInv == Control /\ AliasKept /\ Moving

\* Nothing is on its way at first.
LEMMA MovingInit == MigrationInit => Moving
BY NoUseIsUse DEF MigrationInit, Init, Moving, Waiting, NoHolder, Holder

(***************************************************************************)
(* Packing and unpacking                                                   *)
(***************************************************************************)
\* A task that waits to run and may move is no alias, by its permissions.
LEMMA MovingIsNoAlias ==
  ASSUME NothingLost, Control, AliasKept, NEW t \in Tasks,
         status[t] = "pending", PermissionsOf(use[t]) \in Migratable
  PROVE  could_be_alias[t] = FALSE
<1>1. step[t] # "continued"
  BY DEF Control, InCreateWork
<1>2. HasHandle(t)
  BY DEF HasHandle
<1>3. could_be_alias[t] <=> "write" \in use[t].scheduling /\ "write" \notin use[t].immediate
  BY <1>1, <1>2 DEF AliasKept
<1>4. ~("write" \in use[t].scheduling /\ "write" \notin use[t].immediate)
  BY DEF NothingLost, PermissionsOf, Perms
<1>5. could_be_alias[t] \in BOOLEAN
  BY DEF Control, TypeOK
<1> QED
  BY <1>3, <1>4, <1>5

\* What serialising a use keeps is all there is to a use without data.
LEMMA MigratedIsSame ==
  ASSUME NEW u \in UseRecords, u.data = FALSE
  PROVE  MigratedUse(u) = u
BY DEF MigratedUse, MakeUse, PermissionsOf, Perms, UseFlows, UseRecords

\* Packing a task changes nothing but where it is.
LEMMA PackStutters ==
  ASSUME NothingLost, MigrationInv, NEW t \in Tasks, PackTask(t)
  PROVE  UNCHANGED vars /\ Moving'
<1>1. /\ status[t] = "pending"
      /\ PermissionsOf(use[t]) \in Migratable
      /\ transit' = [transit EXCEPT ![t] = "packed"]
      /\ origin' = [origin EXCEPT ![t] = Holder(use[t], could_be_alias[t])]
      /\ UNCHANGED vars
  BY DEF PackTask
<1>2. could_be_alias[t] = FALSE
  BY <1>1, MovingIsNoAlias DEF MigrationInv
<1>3. use[t] \in UseRecords
  BY DEF MigrationInv, Control, TypeOK
<1>4. UNCHANGED <<status, use>>
  BY <1>1 DEF vars
<1> QED
  BY <1>1, <1>2, <1>3, <1>4 DEF MigrationInv, Moving, Waiting, Holder, PermissionsOf, Perms

\* The task that is unpacked has the use and the holder of the one packed.
LEMMA UnpackStutters ==
  ASSUME NothingLost, MigrationInv, NEW t \in Tasks, UnpackTask(t)
  PROVE  UNCHANGED vars /\ Moving'
<1>1. /\ transit[t] = "packed"
      /\ transit' = [transit EXCEPT ![t] = "moved"]
      /\ use' = [use EXCEPT ![t] = MigratedUse(use[t])]
      /\ could_be_alias' = [could_be_alias EXCEPT ![t] = FALSE]
      /\ UNCHANGED <<status, step, ops, replaced, alias, forwardings, granted, accesses, origin>>
  BY DEF UnpackTask
<1>2. status[t] = "pending" /\ PermissionsOf(use[t]) \in Migratable /\ use[t].data = FALSE
  BY <1>1 DEF MigrationInv, Moving, Waiting
<1>3. could_be_alias[t] = FALSE
  BY <1>2, MovingIsNoAlias DEF MigrationInv
<1>4. use \in [Tasks -> UseRecords] /\ could_be_alias \in [Tasks -> BOOLEAN]
  BY DEF MigrationInv, Control, TypeOK
<1>5. MigratedUse(use[t]) = use[t]
  BY <1>2, <1>4, MigratedIsSame
<1>6. use' = use /\ could_be_alias' = could_be_alias
  BY <1>1, <1>3, <1>4, <1>5
<1>7. UNCHANGED vars
  BY <1>1, <1>6 DEF vars
<1> QED
  BY <1>1, <1>6, <1>7 DEF MigrationInv, Moving, Waiting, PermissionsOf, Perms

\* The release of an original establishes no alias.
LEMMA ReleaseOriginalStutters ==
  ASSUME MigrationInv, NEW t \in Tasks, ReleaseOriginal(t)
  PROVE  UNCHANGED vars /\ Moving'
<1>1. origin[t].could_be_alias = FALSE
  BY DEF MigrationInv, Moving
<1>2. UNCHANGED vars /\ UNCHANGED transit /\ origin' = [origin EXCEPT ![t] = NoHolder]
  BY <1>1 DEF ReleaseOriginal, vars
<1>3. UNCHANGED <<status, use>>
  BY <1>2 DEF vars
<1>4. NoHolder \in [use : UseRecords, could_be_alias : BOOLEAN] /\ NoHolder.could_be_alias = FALSE
  BY NoUseIsUse DEF NoHolder, Holder
<1> QED
  BY <1>2, <1>3, <1>4 DEF MigrationInv, Moving, Waiting, PermissionsOf, Perms

(***************************************************************************)
(* The other steps                                                         *)
(***************************************************************************)
\* No step of a program touches what is on its way, and new tasks come
\* without data.
LEMMA MovingKept ==
  ASSUME MigrationInv, UNCHANGED migrationVars,
         NEW t \in Tasks, TaskStep(t) \/ (RunTask(t) /\ transit[t] # "packed")
  PROVE  Moving'
<1> DEFINE Kept(s) == /\ Waiting(s)' => use'[s].data = FALSE
                      /\ transit[s] = "packed" =>
                           status'[s] = "pending" /\ PermissionsOf(use'[s]) \in Migratable
<1>0. UNCHANGED <<transit, origin>>
  BY DEF migrationVars
<1>a. /\ status \in [Tasks -> {"unborn", "captured", "pending", "running", "done"}]
      /\ step \in [Tasks -> {"idle", "captured", "continued", "submit", "referenced"}]
      /\ use \in [Tasks -> UseRecords]
  BY DEF MigrationInv, Control, TypeOK
<1>b. \A s \in Tasks :
        /\ Waiting(s) => use[s].data = FALSE
        /\ transit[s] = "packed" => status[s] = "pending" /\ PermissionsOf(use[s]) \in Migratable
  BY DEF MigrationInv, Moving
<1>c. step[t] # "idle" => status[t] = "running"
  BY DEF MigrationInv, Control, InCreateWork
<1> SUFFICES ASSUME NEW s \in Tasks PROVE Kept(s)
  BY <1>0 DEF MigrationInv, Moving, Waiting, PermissionsOf, Perms
<1>1. CASE RegisterCaptured(t)
  <2>1. PICK child \in Tasks : child = Append(t, ops[t] + 1) /\ status[child] = "unborn"
    BY <1>1, ChildIsNew DEF MigrationInv
  <2>2. /\ \A u \in Tasks \ {child} : use'[u] = use[u]
        /\ status' = [status EXCEPT ![child] = "captured"]
    BY <1>1, <2>1, CapturedUse DEF MigrationInv
  <2>3. use'[child].data = FALSE
    <3>1. \E request, flows : use' = [use EXCEPT ![child] = MakeUse(request, flows, FALSE)]
      BY <1>1, <2>1 DEF RegisterCaptured
    <3> QED
      BY <3>1, <2>1, <1>a DEF MakeUse
  <2>4. CASE s = child
    BY <2>1, <2>3, <2>4, <1>b
  <2>5. CASE s # child
    BY <2>2, <2>5, <1>a, <1>b DEF Waiting
  <2> QED
    BY <2>4, <2>5
<1>2. CASE RegisterContinuation(t)
  <2>1. step[t] = "captured" /\ UNCHANGED status
    BY <1>2 DEF RegisterContinuation
  <2>2. \A u \in Tasks \ {t} : use'[u] = use[u]
    BY <1>2, ContinuingUse DEF MigrationInv
  <2> QED
    BY <2>1, <2>2, <1>a, <1>b, <1>c DEF Waiting
<1>3. CASE ReleaseSource(t)
  <2>1. step[t] = "continued" /\ UNCHANGED status
    BY <1>3 DEF ReleaseSource
  <2>2. \A u \in Tasks \ {t} : use'[u] = use[u]
    BY <1>3, <1>a DEF ReleaseSource
  <2> QED
    BY <2>1, <2>2, <1>a, <1>b, <1>c DEF Waiting
<1>4. CASE SubmitTask(t)
  <2>1. Child(t) \in Tasks /\ status[Child(t)] = "captured"
    BY <1>4 DEF SubmitTask, Creating, MigrationInv, Control, InCreateWork
  <2>2. status' = [status EXCEPT ![Child(t)] = "pending"] /\ UNCHANGED use
    BY <1>4 DEF SubmitTask
  <2> QED
    BY <2>1, <2>2, <1>a, <1>b DEF Waiting
<1>5. CASE Access(t)
  BY <1>5, <1>b DEF Access, Waiting
<1>6. CASE ObtainReference(t)
  <2>1. status[t] = "running" /\ UNCHANGED status
    BY <1>6 DEF ObtainReference, MayOperate
  <2>2. \A u \in Tasks \ {t} : use'[u] = use[u]
    BY <1>6, <1>a DEF ObtainReference, Replace
  <2> QED
    BY <2>1, <2>2, <1>a, <1>b DEF Waiting
<1>7. CASE ReleaseReferenced(t)
  BY <1>7, <1>b DEF ReleaseReferenced, Waiting
<1>8. CASE ReleaseHandle(t)
  <2>1. status[t] = "running" /\ status' = [status EXCEPT ![t] = "done"]
    BY <1>8 DEF ReleaseHandle
  <2>2. \A u \in Tasks \ {t} : use'[u] = use[u]
    BY <1>8, <1>a DEF ReleaseHandle
  <2> QED
    BY <2>1, <2>2, <1>a, <1>b DEF Waiting
<1>9. CASE RunTask(t) /\ transit[t] # "packed"
  <2>1. status[t] = "pending" /\ status' = [status EXCEPT ![t] = "running"]
    BY <1>9 DEF RunTask, Runnable
  <2>2. \A u \in Tasks \ {t} : use'[u] = use[u]
    BY <1>9, <1>a DEF RunTask
  <2> QED
    BY <2>1, <2>2, <1>9, <1>a, <1>b DEF Waiting
<1> QED
  BY <1>1, <1>2, <1>3, <1>4, <1>5, <1>6, <1>7, <1>8, <1>9 DEF TaskStep

(***************************************************************************)
(* The theorems                                                            *)
(***************************************************************************)
\* Every step with moves is a step without, or none.
LEMMA StepIsStep ==
  ASSUME NothingLost, MigrationInv, [MigrationNext]_allVars
  PROVE  [Next]_vars /\ Moving'
<1>1. CASE \E t \in Tasks : TaskStepInPlace(t) \/ RunTaskInPlace(t)
  <2>1. PICK t \in Tasks : TaskStepInPlace(t) \/ RunTaskInPlace(t)
    BY <1>1
  <2>2. /\ UNCHANGED migrationVars
        /\ TaskStep(t) \/ (RunTask(t) /\ transit[t] # "packed")
    BY <2>1 DEF TaskStepInPlace, RunTaskInPlace
  <2> QED
    BY <2>2, MovingKept DEF Next
<1>2. CASE \E t \in Tasks : Migrate(t)
  BY <1>2, PackStutters, UnpackStutters, ReleaseOriginalStutters DEF Migrate
<1>3. CASE UNCHANGED allVars
  <2>1. UNCHANGED vars /\ UNCHANGED <<status, use, transit, origin>>
    BY <1>3 DEF allVars, vars, migrationVars
  <2> QED
    BY <2>1 DEF MigrationInv, Moving, Waiting, PermissionsOf, Perms
<1> QED
  BY <1>1, <1>2, <1>3 DEF MigrationNext, MigrationTerminated

\* The invariant in every reachable state, and no step but those of DarmaTasks.
THEOREM MigrationInvHolds ==
  ASSUME NothingLost PROVE MigrationSpec => []MigrationInv
<1>1. MigrationInit => MigrationInv
  BY ControlInit, AliasKeptInit, MovingInit DEF MigrationInit, MigrationInv
<1>2. MigrationInv /\ [MigrationNext]_allVars => MigrationInv'
  BY StepIsStep, TypePreserved, InCreateWorkPreserved, ChildrenToComePreserved,
     CaseInUsePreserved, AliasKeptPreserved
  DEF MigrationInv, Control
<1> QED
  BY <1>1, <1>2, PTL DEF MigrationSpec

\* A program whose tasks move (Task::pack and unpack, and the release of the
\* originals' uses) behaves like one whose tasks do not, unless a task moves
\* whose use could be an alias.
THEOREM MovesAreUnnoticed ==
  ASSUME NothingLost PROVE MigrationSpec => MovesUnnoticed
<1>1. MigrationInit => Init
  BY DEF MigrationInit
<1>2. MigrationInv /\ [MigrationNext]_allVars => [Next]_vars
  BY StepIsStep
<1> QED
  BY <1>1, <1>2, MigrationInvHolds, PTL DEF MigrationSpec, MovesUnnoticed, Spec

\* Type correctness, and nothing but pending tasks on its way.
THEOREM MigrationTypeCorrect ==
  ASSUME NothingLost PROVE MigrationSpec => []MigrationTypeOK
<1>1. MigrationInv => MigrationTypeOK
  BY DEF MigrationInv, Control, Moving, MigrationTypeOK
<1> QED
  BY <1>1, MigrationInvHolds, PTL

\* What holds of programs whose tasks stay holds of those whose tasks move:
\* whoever may touch the data has it, on whichever side it runs.
THEOREM DataMovesAlong ==
  ASSUME NothingLost PROVE MigrationSpec => []DataInPlace
<1>1. Spec => []DataInPlace
  BY DataAlwaysInPlace
<1> QED
  BY <1>1, MovesAreUnnoticed, PTL DEF MovesUnnoticed

\* While a task may write the data no other one may touch it, whichever of
\* them runs where it was made and whichever elsewhere, and with the uses of
\* originals still there.
THEOREM ExclusionMovesAlong ==
  ASSUME NothingLost, CasesSuffice PROVE MigrationSpec => []ExclusiveAccess
<1>1. Spec => []ExclusiveAccess
  BY WritersAccessExclusively
<1> QED
  BY <1>1, MovesAreUnnoticed, PTL DEF MovesUnnoticed

\* Moving a task overtakes nothing: conflicting accesses happen in the order
\* of the sequential program.
THEOREM OrderMovesAlong ==
  ASSUME NothingLost, CasesSuffice PROVE MigrationSpec => InProgramOrder
<1>1. Spec => InProgramOrder
  BY AccessesInProgramOrder
<1> QED
  BY <1>1, MovesAreUnnoticed, PTL DEF MovesUnnoticed

=============================================================================
