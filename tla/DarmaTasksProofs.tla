-------------------------- MODULE DarmaTasksProofs --------------------------
(***************************************************************************)
(* Theorems about DarmaTasks, for every program, depth and number of       *)
(* tasks, and for both kinds of backend.                                   *)
(*                                                                         *)
(* The argument has two layers.  Control follows a task through            *)
(* create_work: the task being created is new, nothing else changes it or  *)
(* its source in between, and the case found for the captured use is the   *)
(* one the continuation is made from.  The properties rest on Control and  *)
(* on lemmas about the capture table, proved case by case.                 *)
(***************************************************************************)
EXTENDS DarmaTasks, CaptureTableProofs, SequenceTheorems, TLAPS

(***************************************************************************)
(* Names of tasks                                                          *)
(***************************************************************************)
\* SequencesUpTo, which TLC can enumerate, is what it looks like.
LEMMA TaskIsSequence ==
  ASSUME NEW n \in Nat, NEW t
  PROVE  t \in SequencesUpTo(n) <=> t \in Seq(1..MaxOps) /\ Len(t) <= n
<1>1. ASSUME t \in SequencesUpTo(n)
      PROVE  t \in Seq(1..MaxOps) /\ Len(t) <= n
  <2>1. PICK k \in 0..n : t \in [1..k -> 1..MaxOps]
    BY <1>1 DEF SequencesUpTo
  <2>2. k \in Nat
    BY <2>1
  <2>3. t \in UNION {[1..m -> 1..MaxOps] : m \in Nat}
    BY <2>1, <2>2, Zenon
  <2>4. t \in Seq(1..MaxOps)
    BY <2>3, SeqDef, Zenon
  <2>5. DOMAIN t = 1..k
    BY <2>1
  <2>6. Len(t) \in Nat /\ DOMAIN t = 1..Len(t)
    BY <2>4, LenProperties
  <2>7. k = Len(t)
    BY <2>2, <2>5, <2>6
  <2> QED
    BY <2>1, <2>4, <2>7
<1>2. ASSUME t \in Seq(1..MaxOps), Len(t) <= n
      PROVE  t \in SequencesUpTo(n)
  <2>1. Len(t) \in Nat /\ t \in [1..Len(t) -> 1..MaxOps]
    BY <1>2, LenProperties
  <2>2. Len(t) \in 0..n
    BY <2>1, <1>2
  <2> QED
    BY <2>1, <2>2, Zenon DEF SequencesUpTo
<1> QED
  BY <1>1, <1>2

\* An operation of a task names a position, and a task if there is room.
LEMMA AppendIsTask ==
  ASSUME NEW n \in Nat, NEW t \in SequencesUpTo(n), NEW k \in 1..MaxOps
  PROVE  /\ Append(t, k) \in SequencesUpTo(n + 1)
         /\ Len(t) < n => Append(t, k) \in SequencesUpTo(n)
<1>1. t \in Seq(1..MaxOps) /\ Len(t) <= n
  BY TaskIsSequence
<1>2. Append(t, k) \in Seq(1..MaxOps) /\ Len(Append(t, k)) = Len(t) + 1
  BY <1>1, AppendProperties
<1>3. Len(t) \in Nat
  BY <1>1, LenProperties
<1>4. n + 1 \in Nat /\ Len(Append(t, k)) <= n + 1
  BY <1>1, <1>2, <1>3
<1>5. Append(t, k) \in SequencesUpTo(n + 1)
  BY <1>2, <1>4, TaskIsSequence, Zenon
<1>6. ASSUME Len(t) < n
      PROVE  Append(t, k) \in SequencesUpTo(n)
  <2>1. Len(Append(t, k)) <= n
    BY <1>2, <1>3, <1>6
  <2> QED
    BY <1>2, <2>1, TaskIsSequence, Zenon
<1> QED
  BY <1>5, <1>6

\* The tasks above a task are tasks.
LEMMA PrefixIsTask ==
  ASSUME NEW t \in Tasks, NEW n \in 0..Len(t)
  PROVE  SubSeq(t, 1, n) \in Tasks
<1>1. t \in Seq(1..MaxOps) /\ Len(t) <= MaxDepth /\ Len(t) \in Nat
  BY TaskIsSequence, LenProperties, BoundsAssumption DEF Tasks
<1>2. \A i \in 1..n : t[i] \in 1..MaxOps
  <2>1. t \in [1..Len(t) -> 1..MaxOps]
    BY <1>1, LenProperties
  <2> QED
    BY <1>1, <2>1
<1>3. SubSeq(t, 1, n) \in Seq(1..MaxOps)
  BY <1>1, <1>2, SubSeqProperties, Z3
<1>4. Len(SubSeq(t, 1, n)) = n
  BY <1>1, <1>2, SubSeqProperties, Z3
<1>5. Len(SubSeq(t, 1, n)) <= MaxDepth
  BY <1>1, <1>4, BoundsAssumption
<1> QED
  BY <1>3, <1>5, TaskIsSequence, BoundsAssumption, Zenon DEF Tasks

\* The tasks above a child are its creator and those above its creator.
LEMMA PrefixOfAppend ==
  ASSUME NEW t \in Tasks, NEW k \in 1..MaxOps, NEW n \in 0..Len(t)
  PROVE  SubSeq(Append(t, k), 1, n) = IF n = Len(t) THEN t ELSE SubSeq(t, 1, n)
<1>1. t \in Seq(1..MaxOps) /\ Len(t) \in Nat
  BY TaskIsSequence, LenProperties, BoundsAssumption DEF Tasks
<1>2. SubSeq(Append(t, k), 1, n) = SubSeq(t, 1, n)
  BY <1>1
<1>3. SubSeq(t, 1, Len(t)) = t
  BY <1>1, SubSeqFull
<1> QED
  BY <1>2, <1>3

\* Two operations create two tasks.
LEMMA ChildrenDiffer ==
  ASSUME NEW s \in Tasks, NEW t \in Tasks, NEW j \in 1..MaxOps, NEW k \in 1..MaxOps,
         Append(s, j) = Append(t, k)
  PROVE  s = t /\ j = k
<1>1. s \in Seq(1..MaxOps) /\ t \in Seq(1..MaxOps)
  BY TaskIsSequence, BoundsAssumption DEF Tasks
<1> QED
  BY <1>1, AppendInjective

(***************************************************************************)
(* Uses and flows                                                          *)
(***************************************************************************)
\* The top level is a task, so there are flows.
LEMMA RootIsTask == Root \in Tasks
<1>1. << >> \in Seq(1..MaxOps) /\ Len(<< >>) = 0
  BY EmptySeq
<1>2. Len(<< >>) <= MaxDepth
  BY <1>1, BoundsAssumption
<1> QED
  BY <1>1, <1>2, TaskIsSequence, BoundsAssumption, Zenon DEF Tasks, Root

\* The null flow_t is a flow, as far as types go.
LEMMA NoFlowIsFlow == NoFlow \in Flows
BY RootIsTask DEF NoFlow, Flow, Flows, Places, Root

FlowRecords == [in : Flows, out : Flows, anti_in : Flows, anti_out : Flows]
PlaceRecords == [in : Places, out : Places, anti_in : Places, anti_out : Places]

\* register_use turns relationships to known flows into flows.
LEMMA EstablishedIsFlow ==
  ASSUME NEW names, NEW known \in [names -> Flows], NEW relationship,
         Within(relationship, names), NEW made \in Flows
  PROVE  Establish(relationship, known, made) \in Flows
BY NoFlowIsFlow DEF Establish, Within

\* The four flows of a registered use are flows.
LEMMA RegisteredAreFlows ==
  ASSUME NEW names, NEW known \in [names -> Flows], NEW relationships,
         RelationshipsOver(relationships, names),
         NEW owner \in Tasks, NEW places \in PlaceRecords
  PROVE  RegisteredFlows(relationships, known, owner, places) \in FlowRecords
<1>1. /\ Flow(owner, places.in) \in Flows
      /\ Flow(owner, places.out) \in Flows
      /\ Flow(owner, places.anti_in) \in Flows
      /\ Flow(owner, places.anti_out) \in Flows
  BY DEF Flow, Flows, PlaceRecords
<1>2. /\ Establish(relationships.in, known, Flow(owner, places.in)) \in Flows
      /\ Establish(relationships.out, known, Flow(owner, places.out)) \in Flows
      /\ Establish(relationships.anti_in, known, Flow(owner, places.anti_in)) \in Flows
      /\ Establish(relationships.anti_out, known, Flow(owner, places.anti_out)) \in Flows
  BY <1>1, EstablishedIsFlow DEF RelationshipsOver
<1> QED
  BY <1>2 DEF RegisteredFlows, UseFlows, FlowRecords

\* What a use forwards is a known flow.
LEMMA ForwardedAreFlows ==
  ASSUME NEW names, NEW known \in [names -> Flows], NEW relationships,
         RelationshipsOver(relationships, names)
  PROVE  ForwardedFlows(relationships, known) \subseteq Flows
<1> SUFFICES ASSUME NEW r \in {relationships.in, relationships.anti_in},
                    r.description = "Forwarding"
             PROVE  known[r.of] \in Flows
  BY DEF ForwardedFlows
<1>1. r.of \in names
  BY DEF RelationshipsOver, Within
<1> QED
  BY <1>1

\* The flows of uses are flows.
LEMMA KnownFlows ==
  ASSUME NEW source \in UseRecords, NEW captured \in UseRecords
  PROVE  /\ FlowsOfSource(source) \in [SourceNames -> Flows]
         /\ FlowsOfCapture(source, captured) \in [CaptureNames -> Flows]
BY DEF FlowsOfSource, FlowsOfCapture, UseRecords, SourceNames, CaptureNames

\* A use made of permissions and flows is a use.
LEMMA MadeUse ==
  ASSUME NEW permissions \in PermissionPairs, NEW flows \in FlowRecords,
         NEW data \in BOOLEAN
  PROVE  MakeUse(permissions, flows, data) \in UseRecords
BY DEF MakeUse, UseRecords, PermissionPairs, FlowRecords

\* A released use is a use, as far as types go.
LEMMA NoUseIsUse == NoUse \in UseRecords
BY NoFlowIsFlow DEF NoUse, MakeUse, UseRecords, UseFlows, Perms, Permissions, None

\* The places of captured and continuing uses are places.
LEMMA PlacesOfUses == CapturedPlaces \in PlaceRecords /\ ContinuingPlaces \in PlaceRecords
BY DEF CapturedPlaces, ContinuingPlaces, PlaceRecords, Places

AliasType(a) == DOMAIN a \subseteq Flows /\ \A f \in DOMAIN a : a[f] \in Flows

\* Aliases relate flows.
LEMMA AliasTyped ==
  ASSUME NEW a, AliasType(a), NEW f \in Flows, NEW g \in Flows
  PROVE  AliasType(EstablishAlias(a, f, g))
BY DEF AliasType, EstablishAlias, Representative

(***************************************************************************)
(* The control of create_work, and type correctness                        *)
(***************************************************************************)
\* A task that is within create_work.
Creating(t) == step[t] \in {"captured", "continued", "submit"}

\* Only a running task creates tasks, and the task it is creating is not yet
\* registered.
InCreateWork ==
  \A t \in Tasks :
    /\ step[t] # "idle" => status[t] = "running"
    /\ Creating(t) =>
         /\ ops[t] \in 1..MaxOps
         /\ Child(t) \in Tasks
         /\ status[Child(t)] = "captured"

\* A task has not created the children of its later operations.
ChildrenToCome ==
  \A t \in Tasks : \A k \in 1..MaxOps :
    k > ops[t] /\ Append(t, k) \in Tasks => status[Append(t, k)] = "unborn"

Found(case, source, request) ==
  case \in CasesFor("Sequential", PermissionsOf(source), request)

\* The case that was found for the captured use is found again for the
\* continuation.
CaseReady(source, captured) ==
  LET request == PermissionsOf(captured)
      case == CaseOf(source, request)
  IN  Found(case, source, request) /\ case.needs_new_continuation_use

CaseInUse ==
  \A t \in Tasks : step[t] = "captured" => CaseReady(use[t], use[Child(t)])

\* The part of the inductive invariant that follows tasks through create_work.
Control == TypeOK /\ InCreateWork /\ ChildrenToCome /\ CaseInUse

\* The top level starts with no task created.
LEMMA ControlInit == Init => Control
<1> SUFFICES ASSUME Init PROVE Control
  OBVIOUS
<1>1. InitialUse \in UseRecords
  <2>1. RelationshipsOver(UseFlows(Initial, Null, Insignificant, Initial), {"nothing"})
    BY DEF RelationshipsOver, Within, UseFlows, Initial, Null, Insignificant
  <2>2. [nothing |-> NoFlow] \in [{"nothing"} -> Flows]
    BY NoFlowIsFlow
  <2>3. Perms(Modify, None) \in PermissionPairs
    BY DEF Perms, PermissionPairs, Permissions, Modify, None
  <2> QED
    BY <2>1, <2>2, <2>3, RegisteredAreFlows, MadeUse, RootIsTask, PlacesOfUses
    DEF InitialUse
<1>2. TypeOK
  <2>1. DOMAIN alias = {}
    BY DEF Init
  <2> QED
    BY <1>1, <2>1, NoUseIsUse, BoundsAssumption
    DEF Init, TypeOK, Perms, PermissionPairs, Permissions, Modify, None
<1>3. InCreateWork /\ CaseInUse
  BY DEF Init, InCreateWork, CaseInUse, Creating
<1>4. ChildrenToCome
  <2>1. \A t \in Tasks : \A k \in 1..MaxOps : Append(t, k) # Root
    BY TaskIsSequence, AppendProperties, BoundsAssumption DEF Tasks, Root
  <2> QED
    BY <2>1 DEF Init, ChildrenToCome
<1> QED
  BY <1>2, <1>3, <1>4 DEF Control

\* When the table has a case for a capture, CaseOf is one.
LEMMA CaseOfFound ==
  ASSUME NEW source, NEW request,
         CasesFor("Sequential", PermissionsOf(source), request) # {}
  PROVE  /\ CaseOf(source, request) \in CaptureCases
         /\ Matches(CaseOf(source, request), "Sequential", PermissionsOf(source), request)
         /\ Found(CaseOf(source, request), source, request)
<1>1. CaseOf(source, request) \in CasesFor("Sequential", PermissionsOf(source), request)
  BY DEF CaseOf
<1> QED
  BY <1>1 DEF CasesFor, Found

\* Every request the front end makes is a pair of permissions.
LEMMA RequestIsPermissions ==
  ASSUME NEW scheduling \in Permissions, NEW request \in RequestsOf[scheduling]
  PROVE  request \in PermissionPairs
BY DEF RequestsOf, FrontEndRequests, RequestedPermissions, RequireAbilityToSchedule,
   DefaultRequest, DroppedRights, Perms, PermissionPairs, Permissions, Modify, None, Read, Write

\* A task that may operate has an operation left, so its child has a name.
LEMMA MayOperateTyped ==
  ASSUME TypeOK, NEW t \in Tasks, MayOperate(t)
  PROVE  /\ ops[t] + 1 \in 1..MaxOps
         /\ [ops EXCEPT ![t] = @ + 1] \in [Tasks -> 0..MaxOps]
         /\ Append(t, ops[t] + 1) \in SequencesUpTo(MaxDepth + 1)
         /\ Len(t) < MaxDepth => Append(t, ops[t] + 1) \in Tasks
<1>1. ops[t] \in 0..MaxOps /\ ops[t] < MaxOps
  BY DEF TypeOK, MayOperate
<1>2. ops[t] + 1 \in 1..MaxOps
  BY <1>1, BoundsAssumption
<1>3. [ops EXCEPT ![t] = @ + 1] \in [Tasks -> 0..MaxOps]
  BY <1>2 DEF TypeOK
<1> QED
  BY <1>2, <1>3, AppendIsTask, BoundsAssumption DEF Tasks

\* Registering the captured use keeps the types.
LEMMA CapturedTyped ==
  ASSUME Control, NEW t \in Tasks, RegisterCaptured(t)
  PROVE  TypeOK'
<1> DEFINE child == Append(t, ops[t] + 1)
<1>1. use[t] \in UseRecords
  BY DEF Control, TypeOK
<1>2. PICK request \in RequestsOf[use[t].scheduling] :
        LET source == use[t]
            case == CaseOf(source, request)
            flows == RegisteredFlows(case.captured, FlowsOfSource(source),
                                     child, CapturedPlaces)
        IN  /\ CasesFor("Sequential", PermissionsOf(source), request) # {}
            /\ use' = [use EXCEPT ![child] = MakeUse(request, flows, FALSE)]
            /\ could_be_alias' = [could_be_alias EXCEPT ![child] = case.could_be_alias]
            /\ forwardings' = forwardings \cup
                 Forwardings(case.captured, FlowsOfSource(source), child)
            /\ granted' = [granted EXCEPT ![child] = request]
            /\ status' = [status EXCEPT ![child] = "captured"]
            /\ step' = [step EXCEPT ![t] =
                 IF case.needs_new_continuation_use THEN "captured" ELSE "submit"]
  BY DEF RegisterCaptured
<1> DEFINE case == CaseOf(use[t], request)
           known == FlowsOfSource(use[t])
           flows == RegisteredFlows(case.captured, known, child, CapturedPlaces)
<1>3. MayOperate(t) /\ child \in Tasks
  BY MayOperateTyped DEF RegisterCaptured, Control
<1>4. request \in PermissionPairs
  BY <1>1, RequestIsPermissions DEF UseRecords
<1>5. case \in CaptureCases /\ WellShaped(case)
  BY <1>2, CaseOfFound, CaseShape
<1>6. known \in [SourceNames -> Flows]
  BY <1>1, KnownFlows
<1>7. flows \in FlowRecords
  BY <1>3, <1>5, <1>6, RegisteredAreFlows, PlacesOfUses DEF WellShaped
<1>8. MakeUse(request, flows, FALSE) \in UseRecords
  BY <1>4, <1>7, MadeUse
<1>9. Forwardings(case.captured, known, child) \subseteq [from : Flows, by : Tasks]
  <2>1. ForwardedFlows(case.captured, known) \subseteq Flows
    BY <1>5, <1>6, ForwardedAreFlows DEF WellShaped
  <2> HIDE DEF child, case, known
  <2> QED
    BY <1>3, <2>1 DEF Forwardings
<1> HIDE DEF child, case, known, flows
<1>10. ops' \in [Tasks -> 0..MaxOps]
  BY <1>3, MayOperateTyped DEF RegisterCaptured, Control
<1>11. /\ use' \in [Tasks -> UseRecords]
       /\ granted' \in [Tasks -> PermissionPairs]
       /\ status' \in [Tasks -> {"unborn", "captured", "pending", "running", "done"}]
       /\ step' \in [Tasks -> {"idle", "captured", "continued", "submit", "referenced"}]
  BY <1>2, <1>3, <1>4, <1>8 DEF Control, TypeOK, case, known, flows
<1>12. could_be_alias' \in [Tasks -> BOOLEAN]
  BY <1>2, <1>3, <1>5 DEF Control, TypeOK, case, WellShaped
<1>13. forwardings' \subseteq [from : Flows, by : Tasks]
  BY <1>2, <1>9 DEF Control, TypeOK, case, known
<1> QED
  BY <1>10, <1>11, <1>12, <1>13 DEF Control, TypeOK, RegisterCaptured

\* Registering the continuation keeps the types.
LEMMA ContinuationTyped ==
  ASSUME Control, NEW t \in Tasks, RegisterContinuation(t)
  PROVE  TypeOK'
<1> DEFINE request == PermissionsOf(use[Child(t)])
           case == CaseOf(use[t], request)
           known == FlowsOfCapture(use[t], use[Child(t)])
           flows == RegisteredFlows(case.continuing, known, Child(t), ContinuingPlaces)
<1>1. use[t] \in UseRecords /\ use[Child(t)] \in UseRecords /\ Child(t) \in Tasks
  BY DEF Control, TypeOK, InCreateWork, Creating, RegisterContinuation
<1>2. Found(case, use[t], request)
  BY DEF Control, CaseInUse, CaseReady, RegisterContinuation
<1>3. case \in CaptureCases /\ WellShaped(case)
  BY <1>2, CaseShape DEF Found, CasesFor
<1>4. flows \in FlowRecords
  BY <1>1, <1>3, KnownFlows, RegisteredAreFlows, PlacesOfUses DEF WellShaped
<1>5. MakeUse(case.continuation, flows, FALSE) \in UseRecords
  BY <1>3, <1>4, MadeUse DEF WellShaped
<1>6. use' = [use EXCEPT ![t] = MakeUse(case.continuation, flows, FALSE)]
  BY DEF RegisterContinuation, Replace
<1> HIDE DEF request, case, known, flows
<1>7. use' \in [Tasks -> UseRecords] /\ replaced' \in [Tasks -> UseRecords]
  BY <1>1, <1>5, <1>6 DEF Control, TypeOK, RegisterContinuation, Replace
<1> QED
  BY <1>7 DEF Control, TypeOK, RegisterContinuation

\* Every step keeps the types.
LEMMA TypePreserved == Control /\ [Next]_vars => TypeOK'
<1> SUFFICES ASSUME Control, [Next]_vars PROVE TypeOK'
  OBVIOUS
<1> USE DEF Control
<1>1. ASSUME NEW t \in Tasks, RegisterCaptured(t) PROVE TypeOK'
  BY <1>1, CapturedTyped
<1>2. ASSUME NEW t \in Tasks, RegisterContinuation(t) PROVE TypeOK'
  BY <1>2, ContinuationTyped
<1>3. ASSUME NEW t \in Tasks, ReleaseSource(t) PROVE TypeOK'
  <2>1. use' \in [Tasks -> UseRecords] /\ replaced' \in [Tasks -> UseRecords]
    BY <1>3, NoUseIsUse DEF TypeOK, ReleaseSource, UseRecords
  <2> QED
    BY <1>3, <2>1 DEF TypeOK, ReleaseSource
<1>4. ASSUME NEW t \in Tasks, SubmitTask(t) PROVE TypeOK'
  BY <1>4 DEF TypeOK, SubmitTask
<1>5. ASSUME NEW t \in Tasks, Access(t) PROVE TypeOK'
  <2>1. MayOperate(t) /\ use[t].immediate # None
    BY <1>5 DEF Access
  <2>2. use[t].immediate \in Permissions
    BY DEF TypeOK, UseRecords
  <2>3. ops[t] + 1 \in 1..MaxOps
        /\ Append(t, ops[t] + 1) \in SequencesUpTo(MaxDepth + 1)
        /\ ops' \in [Tasks -> 0..MaxOps]
    BY <1>5, <2>1, MayOperateTyped DEF Access
  <2> DEFINE Accesses ==
               [at : SequencesUpTo(MaxDepth + 1), rights : Permissions \ {None}]
             access == [at |-> Append(t, ops[t] + 1), rights |-> use[t].immediate]
  <2>4. access \in Accesses
    BY <2>1, <2>2, <2>3
  <2>5. accesses \subseteq Accesses /\ accesses' = accesses \cup {access}
    BY <1>5 DEF TypeOK, Access
  <2> HIDE DEF Accesses, access
  <2>6. accesses' \subseteq Accesses
    BY <2>4, <2>5
  <2> QED
    BY <1>5, <2>3, <2>6 DEF TypeOK, Access, Accesses
<1>6. ASSUME NEW t \in Tasks, ObtainReference(t) PROVE TypeOK'
  <2>0. use[t] \in UseRecords /\ MayOperate(t)
    BY <1>6 DEF ObtainReference, TypeOK
  <2>1. WithDifferentPermissions(use[t], None, use[t].immediate) \in UseRecords
    BY <2>0 DEF UseRecords, WithDifferentPermissions, Permissions, None
  <2>2. ops' \in [Tasks -> 0..MaxOps]
    BY <1>6, <2>0, MayOperateTyped DEF ObtainReference
  <2>3. use' \in [Tasks -> UseRecords] /\ replaced' \in [Tasks -> UseRecords]
    BY <1>6, <2>1 DEF TypeOK, ObtainReference, Replace
  <2> QED
    BY <1>6, <2>2, <2>3 DEF TypeOK, ObtainReference
<1>7. ASSUME NEW t \in Tasks, ReleaseReferenced(t) PROVE TypeOK'
  BY <1>7, NoUseIsUse DEF TypeOK, ReleaseReferenced
<1>8. ASSUME NEW t \in Tasks, ReleaseHandle(t) PROVE TypeOK'
  <2>1. use[t].in \in Flows /\ use[t].out \in Flows
        /\ use[t].anti_in \in Flows /\ use[t].anti_out \in Flows
    BY DEF TypeOK, UseRecords
  <2>2. AliasType(ReleaseAlias(alias, use[t]))
    BY <2>1, AliasTyped DEF TypeOK, AliasType, ReleaseAlias
  <2>3. AliasType(alias')
    BY <1>8, <2>2 DEF TypeOK, AliasType, ReleaseHandle
  <2> QED
    BY <1>8, <2>3, NoUseIsUse DEF TypeOK, AliasType, ReleaseHandle
<1>9. ASSUME NEW t \in Tasks, RunTask(t) PROVE TypeOK'
  <2>1. use[t] \in UseRecords
    BY DEF TypeOK
  <2>2. [use[t] EXCEPT !.data = use[t].immediate # None] \in UseRecords
    BY <2>1 DEF UseRecords
  <2>3. use' = [use EXCEPT ![t] = [use[t] EXCEPT !.data = use[t].immediate # None]]
    BY <1>9 DEF RunTask
  <2>4. use' \in [Tasks -> UseRecords]
    BY <2>2, <2>3 DEF TypeOK
  <2> QED
    BY <1>9, <2>4 DEF TypeOK, RunTask
<1>10. ASSUME UNCHANGED vars PROVE TypeOK'
  BY <1>10 DEF TypeOK, vars
<1> QED
  BY <1>1, <1>2, <1>3, <1>4, <1>5, <1>6, <1>7, <1>8, <1>9, <1>10
  DEF Next, TaskStep, Terminated

\* The child a task starts to create does not exist yet.
LEMMA ChildIsNew ==
  ASSUME Control, NEW t \in Tasks, RegisterCaptured(t)
  PROVE  LET child == Append(t, ops[t] + 1)
         IN  /\ ops[t] + 1 \in 1..MaxOps
             /\ child \in Tasks
             /\ status[child] = "unborn"
<1>1. MayOperate(t) /\ Len(t) < MaxDepth
  BY DEF RegisterCaptured
<1>2. ops[t] + 1 \in 1..MaxOps /\ Append(t, ops[t] + 1) \in Tasks
  BY <1>1, MayOperateTyped DEF Control
<1>3. ops[t] + 1 > ops[t]
  BY DEF Control, TypeOK
<1> QED
  BY <1>2, <1>3 DEF Control, ChildrenToCome

\* Two tasks never create the same child.
LEMMA ParentsDiffer ==
  ASSUME Control, NEW s \in Tasks, NEW t \in Tasks, Creating(s), Creating(t),
         Child(s) = Child(t)
  PROVE  s = t
BY ChildrenDiffer DEF Control, InCreateWork, Child

\* No step of another task disturbs a task within create_work.
LEMMA InCreateWorkPreserved == Control /\ [Next]_vars => InCreateWork'
<1> SUFFICES ASSUME Control, [Next]_vars, NEW s \in Tasks
             PROVE  /\ step'[s] # "idle" => status'[s] = "running"
                    /\ Creating(s)' =>
                         /\ ops'[s] \in 1..MaxOps
                         /\ Child(s)' \in Tasks
                         /\ status'[Child(s)'] = "captured"
  BY DEF InCreateWork
<1> DEFINE Goal == /\ step'[s] # "idle" => status'[s] = "running"
                   /\ Creating(s)' =>
                        /\ ops'[s] \in 1..MaxOps
                        /\ Child(s)' \in Tasks
                        /\ status'[Child(s)'] = "captured"
<1>0. /\ step[s] # "idle" => status[s] = "running"
      /\ Creating(s) =>
           /\ ops[s] \in 1..MaxOps
           /\ Child(s) \in Tasks
           /\ status[Child(s)] = "captured"
  BY DEF Control, InCreateWork
<1>a. /\ status \in [Tasks -> {"unborn", "captured", "pending", "running", "done"}]
      /\ step \in [Tasks -> {"idle", "captured", "continued", "submit", "referenced"}]
      /\ ops \in [Tasks -> 0..MaxOps]
  BY DEF Control, TypeOK
<1>1. ASSUME NEW t \in Tasks, RegisterCaptured(t) PROVE Goal
  <2> DEFINE child == Append(t, ops[t] + 1)
  <2>1. ops[t] + 1 \in 1..MaxOps /\ child \in Tasks /\ status[child] = "unborn"
    BY <1>1, ChildIsNew
  <2>2. /\ status' = [status EXCEPT ![child] = "captured"]
        /\ ops' = [ops EXCEPT ![t] = ops[t] + 1]
        /\ \A u \in Tasks \ {t} : step'[u] = step[u]
        /\ status[t] = "running"
    BY <1>1, <1>a DEF RegisterCaptured, MayOperate
  <2>3. CASE s = t
    BY <2>1, <2>2, <2>3, <1>a DEF Child, Creating
  <2>4. CASE s # t
    BY <2>1, <2>2, <2>4, <1>0, <1>a DEF Child, Creating
  <2> QED
    BY <2>3, <2>4
<1>2. ASSUME NEW t \in Tasks, RegisterContinuation(t) PROVE Goal
  BY <1>2, <1>0, <1>a DEF RegisterContinuation, Child, Creating
<1>3. ASSUME NEW t \in Tasks, ReleaseSource(t) PROVE Goal
  BY <1>3, <1>0, <1>a DEF ReleaseSource, Child, Creating
<1>4. ASSUME NEW t \in Tasks, SubmitTask(t) PROVE Goal
  <2>1. Creating(t) /\ Child(t) \in Tasks /\ status[Child(t)] = "captured"
    BY <1>4 DEF SubmitTask, Creating, Control, InCreateWork
  <2>2. Creating(s) /\ s # t => Child(s) # Child(t)
    BY <2>1, ParentsDiffer
  <2> QED
    BY <1>4, <2>1, <2>2, <1>0, <1>a DEF SubmitTask, Child, Creating
<1>5. ASSUME NEW t \in Tasks, Access(t) PROVE Goal
  BY <1>5, <1>0, <1>a DEF Access, MayOperate, Child, Creating
<1>6. ASSUME NEW t \in Tasks, ObtainReference(t) PROVE Goal
  BY <1>6, <1>0, <1>a DEF ObtainReference, MayOperate, Child, Creating
<1>7. ASSUME NEW t \in Tasks, ReleaseReferenced(t) PROVE Goal
  BY <1>7, <1>0, <1>a DEF ReleaseReferenced, Child, Creating
<1>8. ASSUME NEW t \in Tasks, ReleaseHandle(t) PROVE Goal
  BY <1>8, <1>0, <1>a DEF ReleaseHandle, Child, Creating
<1>9. ASSUME NEW t \in Tasks, RunTask(t) PROVE Goal
  BY <1>9, <1>0, <1>a DEF RunTask, Runnable, Child, Creating
<1>10. ASSUME UNCHANGED vars PROVE Goal
  BY <1>10, <1>0 DEF vars, Child, Creating
<1> QED
  BY <1>1, <1>2, <1>3, <1>4, <1>5, <1>6, <1>7, <1>8, <1>9, <1>10
  DEF Next, TaskStep, Terminated

\* No step creates a task ahead of the operation that names it.
LEMMA ChildrenToComePreserved == Control /\ [Next]_vars => ChildrenToCome'
<1> SUFFICES ASSUME Control, [Next]_vars, NEW s \in Tasks, NEW k \in 1..MaxOps,
                    k > ops'[s], Append(s, k) \in Tasks
             PROVE  status'[Append(s, k)] = "unborn"
  BY DEF ChildrenToCome
<1> DEFINE Goal == status'[Append(s, k)] = "unborn"
<1>0. k > ops[s] => status[Append(s, k)] = "unborn"
  BY DEF Control, ChildrenToCome
<1>a. /\ status \in [Tasks -> {"unborn", "captured", "pending", "running", "done"}]
      /\ ops \in [Tasks -> 0..MaxOps]
  BY DEF Control, TypeOK
<1>1. ASSUME NEW t \in Tasks, RegisterCaptured(t) PROVE Goal
  <2> DEFINE child == Append(t, ops[t] + 1)
  <2>1. ops[t] + 1 \in 1..MaxOps
    BY <1>1, ChildIsNew
  <2>2. /\ status' = [status EXCEPT ![child] = "captured"]
        /\ ops' = [ops EXCEPT ![t] = ops[t] + 1]
    BY <1>1 DEF RegisterCaptured
  <2>3. k > ops[s] /\ ~(s = t /\ k = ops[t] + 1)
    BY <2>1, <2>2, <1>a
  <2>4. Append(s, k) # child
    BY <2>1, <2>3, ChildrenDiffer
  <2> QED
    BY <2>2, <2>3, <2>4, <1>0, <1>a
<1>2. ASSUME NEW t \in Tasks, RegisterContinuation(t) PROVE Goal
  BY <1>2, <1>0 DEF RegisterContinuation
<1>3. ASSUME NEW t \in Tasks, ReleaseSource(t) PROVE Goal
  BY <1>3, <1>0 DEF ReleaseSource
<1>4. ASSUME NEW t \in Tasks, SubmitTask(t) PROVE Goal
  <2>1. Creating(t) /\ Child(t) \in Tasks /\ status[Child(t)] = "captured"
    BY <1>4 DEF SubmitTask, Creating, Control, InCreateWork
  <2> QED
    BY <1>4, <2>1, <1>0, <1>a DEF SubmitTask
<1>5. ASSUME NEW t \in Tasks, Access(t) PROVE Goal
  BY <1>5, <1>0, <1>a DEF Access
<1>6. ASSUME NEW t \in Tasks, ObtainReference(t) PROVE Goal
  BY <1>6, <1>0, <1>a DEF ObtainReference
<1>7. ASSUME NEW t \in Tasks, ReleaseReferenced(t) PROVE Goal
  BY <1>7, <1>0 DEF ReleaseReferenced
<1>8. ASSUME NEW t \in Tasks, ReleaseHandle(t) PROVE Goal
  BY <1>8, <1>0, <1>a DEF ReleaseHandle
<1>9. ASSUME NEW t \in Tasks, RunTask(t) PROVE Goal
  BY <1>9, <1>0, <1>a DEF RunTask, Runnable
<1>10. ASSUME UNCHANGED vars PROVE Goal
  BY <1>10, <1>0 DEF vars
<1> QED
  BY <1>1, <1>2, <1>3, <1>4, <1>5, <1>6, <1>7, <1>8, <1>9, <1>10
  DEF Next, TaskStep, Terminated

\* Between the two halves of make_captured_use_holder neither the source nor
\* the captured use changes, whatever other tasks do.
LEMMA CaseInUsePreserved == Control /\ [Next]_vars => CaseInUse'
<1> SUFFICES ASSUME Control, [Next]_vars, NEW s \in Tasks, step'[s] = "captured"
             PROVE  CaseReady(use'[s], use'[Child(s)'])
  BY DEF CaseInUse, CaseReady, CaseOf, Found
<1> DEFINE Goal == CaseReady(use'[s], use'[Child(s)'])
<1>0. step[s] = "captured" => /\ status[s] = "running"
                              /\ Child(s) \in Tasks
                              /\ status[Child(s)] = "captured"
                              /\ CaseReady(use[s], use[Child(s)])
  BY DEF Control, InCreateWork, Creating, CaseInUse
<1>a. /\ status \in [Tasks -> {"unborn", "captured", "pending", "running", "done"}]
      /\ step \in [Tasks -> {"idle", "captured", "continued", "submit", "referenced"}]
      /\ ops \in [Tasks -> 0..MaxOps]
      /\ use \in [Tasks -> UseRecords]
  BY DEF Control, TypeOK
<1>b. ASSUME step[s] = "captured", ops'[s] = ops[s],
             use'[s] = use[s], use'[Child(s)] = use[Child(s)]
      PROVE  Goal
  BY <1>0, <1>b DEF Child
<1>1. ASSUME NEW t \in Tasks, RegisterCaptured(t) PROVE Goal
  <2> DEFINE child == Append(t, ops[t] + 1)
  <2>1. ops[t] + 1 \in 1..MaxOps /\ child \in Tasks /\ status[child] = "unborn"
    BY <1>1, ChildIsNew
  <2>2. /\ use[t] \in UseRecords
        /\ status[t] = "running"
        /\ ops' = [ops EXCEPT ![t] = ops[t] + 1]
        /\ \A u \in Tasks \ {child} : use'[u] = use[u]
        /\ \A u \in Tasks \ {t} : step'[u] = step[u]
    BY <1>1, <1>a DEF RegisterCaptured, MayOperate
  <2>3. CASE s = t
    <3>1. PICK request \in RequestsOf[use[t].scheduling] :
            LET case == CaseOf(use[t], request)
                flows == RegisteredFlows(case.captured, FlowsOfSource(use[t]),
                                         child, CapturedPlaces)
            IN  /\ CasesFor("Sequential", PermissionsOf(use[t]), request) # {}
                /\ use' = [use EXCEPT ![child] = MakeUse(request, flows, FALSE)]
                /\ step' = [step EXCEPT ![t] =
                     IF case.needs_new_continuation_use THEN "captured" ELSE "submit"]
      BY <1>1 DEF RegisterCaptured
    <3>2. request \in PermissionPairs
      BY <2>2, RequestIsPermissions DEF UseRecords
    <3>3. PermissionsOf(use'[child]) = request
      BY <2>1, <3>1, <3>2, <1>a DEF PermissionsOf, MakeUse, Perms, PermissionPairs
    <3>4. CaseOf(use[t], request).needs_new_continuation_use
      BY <2>3, <3>1, <1>a, CaseOfFound, CaseShape DEF WellShaped
    <3>5. use'[t] = use[t] /\ Child(t)' = child
      BY <2>1, <2>2, <1>a DEF Child
    <3> QED
      BY <2>3, <3>1, <3>3, <3>4, <3>5, CaseOfFound DEF CaseReady
  <2>4. CASE s # t
    BY <2>1, <2>2, <2>4, <1>0, <1>b, <1>a
  <2> QED
    BY <2>3, <2>4
<1>2. ASSUME NEW t \in Tasks, RegisterContinuation(t) PROVE Goal
  <2>1. \A u \in Tasks \ {t} : use'[u] = use[u]
    BY <1>2, <1>a DEF RegisterContinuation, Replace
  <2>2. status[t] = "running"
    BY <1>2 DEF RegisterContinuation, Control, InCreateWork
  <2> QED
    BY <1>2, <2>1, <2>2, <1>0, <1>b, <1>a DEF RegisterContinuation
<1>3. ASSUME NEW t \in Tasks, ReleaseSource(t) PROVE Goal
  <2>1. \A u \in Tasks \ {t} : use'[u] = use[u]
    BY <1>3, <1>a DEF ReleaseSource
  <2>2. status[t] = "running"
    BY <1>3 DEF ReleaseSource, Control, InCreateWork
  <2> QED
    BY <1>3, <2>1, <2>2, <1>0, <1>b, <1>a DEF ReleaseSource
<1>4. ASSUME NEW t \in Tasks, SubmitTask(t) PROVE Goal
  BY <1>4, <1>0, <1>b, <1>a DEF SubmitTask
<1>5. ASSUME NEW t \in Tasks, Access(t) PROVE Goal
  BY <1>5, <1>0, <1>b, <1>a DEF Access, MayOperate
<1>6. ASSUME NEW t \in Tasks, ObtainReference(t) PROVE Goal
  BY <1>6, <1>0, <1>b, <1>a DEF ObtainReference, MayOperate, Replace
<1>7. ASSUME NEW t \in Tasks, ReleaseReferenced(t) PROVE Goal
  BY <1>7, <1>0, <1>b, <1>a DEF ReleaseReferenced
<1>8. ASSUME NEW t \in Tasks, ReleaseHandle(t) PROVE Goal
  BY <1>8, <1>0, <1>b, <1>a DEF ReleaseHandle
<1>9. ASSUME NEW t \in Tasks, RunTask(t) PROVE Goal
  BY <1>9, <1>0, <1>b, <1>a DEF RunTask, Runnable
<1>10. ASSUME UNCHANGED vars PROVE Goal
  BY <1>10, <1>0, <1>b DEF vars
<1> QED
  BY <1>1, <1>2, <1>3, <1>4, <1>5, <1>6, <1>7, <1>8, <1>9, <1>10
  DEF Next, TaskStep, Terminated

\* The control of create_work in every reachable state, for every bound,
\* program and backend.
THEOREM ControlHolds == Spec => []Control
<1>1. Control /\ [Next]_vars => Control'
  BY TypePreserved, InCreateWorkPreserved, ChildrenToComePreserved, CaseInUsePreserved
  DEF Control
<1> QED
  BY ControlInit, <1>1, PTL DEF Spec

\* Type correctness: every variable of DarmaTasks has its type, accesses happen
\* only with immediate rights (the checks of the accessors of AccessHandle), and
\* no capture or continuation refers to a flow it does not have.
THEOREM TypeCorrect == Spec => []TypeOK
<1>1. Control => TypeOK
  BY DEF Control
<1> QED
  BY ControlHolds, <1>1, PTL

(***************************************************************************)
(* Rights                                                                  *)
(***************************************************************************)
\* What registering a captured use changes, without the table of cases.
LEMMA CapturedUse ==
  ASSUME Control, NEW t \in Tasks, RegisterCaptured(t)
  PROVE  LET child == Append(t, ops[t] + 1)
         IN  /\ child \in Tasks
             /\ child # t
             /\ status[child] = "unborn"
             /\ status' = [status EXCEPT ![child] = "captured"]
             /\ granted'[child] \in PermissionPairs
             /\ granted' = [granted EXCEPT ![child] = granted'[child]]
             /\ \A u \in Tasks \ {child} : use'[u] = use[u]
             /\ use'[child].scheduling = granted'[child].scheduling
             /\ use'[child].immediate = granted'[child].immediate
             /\ granted'[child].scheduling \cup granted'[child].immediate
                  \subseteq use[t].scheduling
             /\ \A u \in Tasks \ {child} : could_be_alias'[u] = could_be_alias[u]
             /\ could_be_alias'[child] <=>
                  "write" \in use'[child].scheduling /\ "write" \notin use'[child].immediate
             /\ \A u \in Tasks \ {t} : step'[u] = step[u]
             /\ step'[t] # "continued"
<1> DEFINE child == Append(t, ops[t] + 1)
<1>1. /\ child \in Tasks
      /\ status[child] = "unborn"
  BY ChildIsNew
<1>2. PICK request \in RequestsOf[use[t].scheduling] :
        LET case == CaseOf(use[t], request)
            flows == RegisteredFlows(case.captured, FlowsOfSource(use[t]),
                                     child, CapturedPlaces)
        IN  /\ CasesFor("Sequential", PermissionsOf(use[t]), request) # {}
            /\ use' = [use EXCEPT ![child] = MakeUse(request, flows, FALSE)]
            /\ could_be_alias' = [could_be_alias EXCEPT ![child] = case.could_be_alias]
            /\ granted' = [granted EXCEPT ![child] = request]
            /\ status' = [status EXCEPT ![child] = "captured"]
            /\ step' = [step EXCEPT ![t] =
                 IF case.needs_new_continuation_use THEN "captured" ELSE "submit"]
  BY DEF RegisterCaptured
<1> DEFINE case == CaseOf(use[t], request)
<1>3. /\ status \in [Tasks -> {"unborn", "captured", "pending", "running", "done"}]
      /\ step \in [Tasks -> {"idle", "captured", "continued", "submit", "referenced"}]
      /\ use \in [Tasks -> UseRecords]
      /\ granted \in [Tasks -> PermissionPairs]
      /\ could_be_alias \in [Tasks -> BOOLEAN]
  BY DEF Control, TypeOK
<1>4. use[t] \in UseRecords
  BY <1>3
<1>5. request \in PermissionPairs /\ PermissionsOf(use[t]) \in PermissionPairs
  BY <1>4, RequestIsPermissions DEF UseRecords, PermissionsOf, Perms, PermissionPairs
<1>6. case \in CaptureCases /\ Matches(case, "Sequential", PermissionsOf(use[t]), request)
  BY <1>2, CaseOfFound
<1>7. /\ request.scheduling \cup request.immediate \subseteq PermissionsOf(use[t]).scheduling
      /\ case.could_be_alias <=>
           "write" \in request.scheduling /\ "write" \notin request.immediate
  BY <1>5, <1>6, CaseRights DEF RespectsRights
<1>8. /\ use'[child].scheduling = request.scheduling
      /\ use'[child].immediate = request.immediate
      /\ granted'[child] = request
      /\ could_be_alias'[child] = case.could_be_alias
      /\ granted' = [granted EXCEPT ![child] = granted'[child]]
  BY <1>1, <1>2, <1>3 DEF MakeUse
<1>9. status[t] = "running"
  BY DEF RegisterCaptured, MayOperate
<1>10. /\ \A u \in Tasks \ {child} : use'[u] = use[u]
       /\ \A u \in Tasks \ {child} : could_be_alias'[u] = could_be_alias[u]
       /\ \A u \in Tasks \ {t} : step'[u] = step[u]
       /\ step'[t] # "continued"
  BY <1>2, <1>3
<1>11. PermissionsOf(use[t]).scheduling = use[t].scheduling
  BY DEF PermissionsOf, Perms
<1> HIDE DEF case
<1> QED
  BY <1>1, <1>2, <1>5, <1>7, <1>8, <1>9, <1>10, <1>11

\* What registering a continuation changes, without the table of cases.
LEMMA ContinuingUse ==
  ASSUME Control, NEW t \in Tasks, RegisterContinuation(t)
  PROVE  /\ use'[t].scheduling = use[t].scheduling
         /\ use'[t].immediate \subseteq use[t].immediate
         /\ "write" \in use'[t].scheduling
         /\ "write" \notin use'[t].immediate
         /\ replaced'[t] = use[t]
         /\ \A u \in Tasks \ {t} : use'[u] = use[u] /\ replaced'[u] = replaced[u]
<1> DEFINE request == PermissionsOf(use[Child(t)])
           case == CaseOf(use[t], request)
<1>1. use[t] \in UseRecords /\ use[Child(t)] \in UseRecords
  BY DEF Control, TypeOK, InCreateWork, Creating, RegisterContinuation
<1>2. request \in PermissionPairs /\ PermissionsOf(use[t]) \in PermissionPairs
  BY <1>1 DEF UseRecords, PermissionsOf, Perms, PermissionPairs
<1>3. case \in CaptureCases /\ Matches(case, "Sequential", PermissionsOf(use[t]), request)
      /\ case.needs_new_continuation_use
  BY DEF Control, CaseInUse, CaseReady, RegisterContinuation, Found, CasesFor
<1>4. /\ case.continuation.scheduling = PermissionsOf(use[t]).scheduling
      /\ case.continuation.immediate \subseteq PermissionsOf(use[t]).immediate
      /\ "write" \in case.continuation.scheduling
      /\ "write" \notin case.continuation.immediate
  BY <1>2, <1>3, CaseRights DEF RespectsRights
<1>5. use \in [Tasks -> UseRecords] /\ replaced \in [Tasks -> UseRecords]
  BY DEF Control, TypeOK
<1>6. /\ use'[t].scheduling = case.continuation.scheduling
      /\ use'[t].immediate = case.continuation.immediate
      /\ replaced'[t] = use[t]
      /\ \A u \in Tasks \ {t} : use'[u] = use[u] /\ replaced'[u] = replaced[u]
  BY <1>5 DEF RegisterContinuation, Replace, MakeUse
<1> HIDE DEF case
<1> QED
  BY <1>4, <1>6 DEF PermissionsOf, Perms

\* The inductive form of RightsInherited: the use a task holds now may schedule
\* no more than its capture asked for.
RightsKept ==
  \A s \in Tasks :
    /\ use[s].scheduling \subseteq Scheduled(s)
    /\ use[s].scheduling \cup use[s].immediate \subseteq Allowed(s)
    /\ status[s] = "unborn" => Allowed(s) = {}
    /\ \A n \in 0..(Len(s) - 1) : Allowed(s) \subseteq Scheduled(SubSeq(s, 1, n))

\* The top level was granted what initial_access gives.
LEMMA RightsKeptInit == Init => RightsKept
<1> SUFFICES ASSUME Init, NEW s \in Tasks
             PROVE  /\ use[s].scheduling \subseteq Scheduled(s)
                    /\ use[s].scheduling \cup use[s].immediate \subseteq Allowed(s)
                    /\ status[s] = "unborn" => Allowed(s) = {}
                    /\ \A n \in 0..(Len(s) - 1) :
                         Allowed(s) \subseteq Scheduled(SubSeq(s, 1, n))
  BY DEF RightsKept
<1>1. CASE s = Root
  <2>1. Len(Root) = 0
    BY EmptySeq DEF Root
  <2> QED
    BY <1>1, <2>1 DEF Init, InitialUse, MakeUse, Perms, Scheduled, Allowed
<1>2. CASE s # Root
  <2>1. use[s] = NoUse /\ granted[s] = Perms(None, None)
    BY <1>2 DEF Init
  <2>2. /\ use[s].scheduling = {} /\ use[s].immediate = {}
        /\ Scheduled(s) = {} /\ Allowed(s) = {}
    BY <2>1 DEF NoUse, MakeUse, Perms, None, Scheduled, Allowed
  <2> QED
    BY <2>2
<1> QED
  BY <1>1, <1>2

\* A capture asks for no more than its source may schedule, which is no more
\* than the creator and everything above it may.
LEMMA RightsKeptCaptured ==
  ASSUME Control, RightsKept, NEW t \in Tasks, RegisterCaptured(t)
  PROVE  RightsKept'
<1>0. PICK child \in Tasks : child = Append(t, ops[t] + 1)
  BY ChildIsNew
<1>1. /\ child \in Tasks
      /\ child # t
      /\ status[child] = "unborn"
      /\ status' = [status EXCEPT ![child] = "captured"]
      /\ granted' = [granted EXCEPT ![child] = granted'[child]]
      /\ \A u \in Tasks \ {child} : use'[u] = use[u]
      /\ use'[child].scheduling = granted'[child].scheduling
      /\ use'[child].immediate = granted'[child].immediate
      /\ granted'[child].scheduling \cup granted'[child].immediate
           \subseteq use[t].scheduling
  BY <1>0, CapturedUse
<1>2. granted \in [Tasks -> PermissionPairs] /\ ops[t] + 1 \in 1..MaxOps
      /\ status \in [Tasks -> {"unborn", "captured", "pending", "running", "done"}]
  BY ChildIsNew DEF Control, TypeOK
<1>3. Allowed(child) = {}
  BY <1>1 DEF RightsKept
<1>4. \A u \in Tasks \ {child} : Scheduled(u)' = Scheduled(u) /\ Allowed(u)' = Allowed(u)
  BY <1>1, <1>2 DEF Scheduled, Allowed
<1>5. \A u \in Tasks : Scheduled(u) \subseteq Scheduled(u)'
  BY <1>1, <1>3, <1>4 DEF Scheduled, Allowed
<1>6. Allowed(child)' \subseteq Scheduled(t) /\ Scheduled(t) \subseteq Allowed(t)
  BY <1>1 DEF RightsKept, Scheduled, Allowed
<1> SUFFICES ASSUME NEW s \in Tasks
             PROVE  /\ use'[s].scheduling \subseteq Scheduled(s)'
                    /\ use'[s].scheduling \cup use'[s].immediate \subseteq Allowed(s)'
                    /\ status'[s] = "unborn" => Allowed(s)' = {}
                    /\ \A n \in 0..(Len(s) - 1) :
                         Allowed(s)' \subseteq Scheduled(SubSeq(s, 1, n))'
  BY DEF RightsKept
<1>7. CASE s = child
  <2>1. ASSUME NEW n \in 0..(Len(child) - 1)
        PROVE  Allowed(child)' \subseteq Scheduled(SubSeq(child, 1, n))'
    <3>1. Len(child) = Len(t) + 1 /\ Len(t) \in Nat
      BY <1>0, <1>2, TaskIsSequence, AppendProperties, LenProperties, BoundsAssumption DEF Tasks
    <3>2. n \in 0..Len(t)
      BY <3>1
    <3>3. SubSeq(child, 1, n) = IF n = Len(t) THEN t ELSE SubSeq(t, 1, n)
      BY <1>0, <1>2, <3>2, PrefixOfAppend
    <3>4. CASE n = Len(t)
      BY <1>5, <1>6, <3>3, <3>4
    <3>5. CASE n # Len(t)
      <4>1. n \in 0..(Len(t) - 1) /\ SubSeq(t, 1, n) \in Tasks
        BY <3>1, <3>2, <3>5, PrefixIsTask
      <4>2. Allowed(t) \subseteq Scheduled(SubSeq(t, 1, n))
        BY <4>1 DEF RightsKept
      <4> QED
        BY <1>5, <1>6, <3>3, <3>5, <4>1, <4>2
    <3> QED
      BY <3>4, <3>5
  <2>2. status'[child] # "unborn"
    BY <1>1, <1>2
  <2>3. /\ use'[child].scheduling \subseteq Scheduled(child)'
        /\ use'[child].scheduling \cup use'[child].immediate \subseteq Allowed(child)'
    BY <1>1 DEF Scheduled, Allowed
  <2> QED
    BY <1>7, <2>1, <2>2, <2>3
<1>8. CASE s # child
  <2>1. ASSUME NEW n \in 0..(Len(s) - 1)
        PROVE  Allowed(s)' \subseteq Scheduled(SubSeq(s, 1, n))'
    <3>1. n \in 0..Len(s)
      BY TaskIsSequence, LenProperties, BoundsAssumption DEF Tasks
    <3>2. SubSeq(s, 1, n) \in Tasks
      BY <3>1, PrefixIsTask
    <3>3. Allowed(s) \subseteq Scheduled(SubSeq(s, 1, n))
      BY DEF RightsKept
    <3> QED
      BY <1>4, <1>5, <1>8, <3>2, <3>3
  <2>2. /\ use'[s] = use[s] /\ status'[s] = status[s]
        /\ Scheduled(s)' = Scheduled(s) /\ Allowed(s)' = Allowed(s)
    BY <1>1, <1>2, <1>4, <1>8
  <2> QED
    BY <2>1, <2>2 DEF RightsKept
<1> QED
  BY <1>7, <1>8

\* Steps that only take rights away keep the rule.
LEMMA RightsShrink ==
  ASSUME RightsKept, UNCHANGED granted,
         \A u \in Tasks : /\ use'[u].scheduling \subseteq use[u].scheduling
                          /\ use'[u].immediate \subseteq use[u].immediate
                          /\ status'[u] = "unborn" => status[u] = "unborn"
  PROVE  RightsKept'
BY DEF RightsKept, Scheduled, Allowed

\* Every step keeps the rule.
LEMMA RightsKeptPreserved == Control /\ RightsKept /\ [Next]_vars => RightsKept'
<1> SUFFICES ASSUME Control, RightsKept, [Next]_vars PROVE RightsKept'
  OBVIOUS
<1>0. /\ status \in [Tasks -> {"unborn", "captured", "pending", "running", "done"}]
      /\ use \in [Tasks -> UseRecords]
  BY DEF Control, TypeOK
<1>1. ASSUME NEW t \in Tasks, RegisterCaptured(t) PROVE RightsKept'
  BY <1>1, RightsKeptCaptured
<1>2. ASSUME NEW t \in Tasks, RegisterContinuation(t) PROVE RightsKept'
  <2>1. UNCHANGED <<granted, status>>
    BY <1>2 DEF RegisterContinuation
  <2> QED
    BY <1>2, <2>1, ContinuingUse, RightsShrink
<1>3. ASSUME NEW t \in Tasks, ReleaseSource(t) PROVE RightsKept'
  <2>1. UNCHANGED <<granted, status>>
        /\ \A u \in Tasks : /\ use'[u].scheduling = use[u].scheduling
                            /\ use'[u].immediate = use[u].immediate
    BY <1>3, <1>0 DEF ReleaseSource, UseRecords
  <2> QED
    BY <2>1, RightsShrink
<1>4. ASSUME NEW t \in Tasks, SubmitTask(t) PROVE RightsKept'
  BY <1>4, <1>0, RightsShrink DEF SubmitTask
<1>5. ASSUME NEW t \in Tasks, Access(t) PROVE RightsKept'
  BY <1>5, RightsShrink DEF Access
<1>6. ASSUME NEW t \in Tasks, ObtainReference(t) PROVE RightsKept'
  <2>1. UNCHANGED <<granted, status>>
        /\ \A u \in Tasks : /\ use'[u].scheduling \subseteq use[u].scheduling
                            /\ use'[u].immediate = use[u].immediate
    BY <1>6, <1>0 DEF ObtainReference, Replace, WithDifferentPermissions, UseRecords, None
  <2> QED
    BY <2>1, RightsShrink
<1>7. ASSUME NEW t \in Tasks, ReleaseReferenced(t) PROVE RightsKept'
  BY <1>7, RightsShrink DEF ReleaseReferenced
<1>8. ASSUME NEW t \in Tasks, ReleaseHandle(t) PROVE RightsKept'
  <2>1. NoUse.scheduling = {} /\ NoUse.immediate = {}
    BY DEF NoUse, MakeUse, Perms, None
  <2>2. \A u \in Tasks : use'[u] = use[u] \/ use'[u] = NoUse
    BY <1>8, <1>0 DEF ReleaseHandle
  <2>3. UNCHANGED granted /\ \A u \in Tasks : status'[u] = "unborn" => status[u] = "unborn"
    BY <1>8, <1>0 DEF ReleaseHandle
  <2>4. \A u \in Tasks : /\ use'[u].scheduling \subseteq use[u].scheduling
                         /\ use'[u].immediate \subseteq use[u].immediate
    BY <2>1, <2>2
  <2> QED
    BY <2>3, <2>4, RightsShrink
<1>9. ASSUME NEW t \in Tasks, RunTask(t) PROVE RightsKept'
  <2>1. UNCHANGED granted
        /\ \A u \in Tasks : status'[u] = "unborn" => status[u] = "unborn"
    BY <1>9, <1>0 DEF RunTask
  <2>2. \A u \in Tasks : /\ use'[u].scheduling \subseteq use[u].scheduling
                         /\ use'[u].immediate \subseteq use[u].immediate
    BY <1>9, <1>0 DEF RunTask, UseRecords
  <2> QED
    BY <2>1, <2>2, RightsShrink
<1>10. ASSUME UNCHANGED vars PROVE RightsKept'
  BY <1>10, RightsShrink DEF vars
<1> QED
  BY <1>1, <1>2, <1>3, <1>4, <1>5, <1>6, <1>7, <1>8, <1>9, <1>10
  DEF Next, TaskStep, Terminated

\* No sequence of captures, continuations and conditionals (make_captured_use_
\* holder, need_ability_to_schedule) gives a task, however deep, a right that a
\* task above it could not schedule.
THEOREM RightsAlwaysInherited == Spec => []RightsInherited
<1>1. RightsKept => RightsInherited
  BY DEF RightsKept, RightsInherited, Born
<1> QED
  BY ControlHolds, RightsKeptInit, RightsKeptPreserved, <1>1, PTL DEF Spec

(***************************************************************************)
(* Aliases                                                                 *)
(***************************************************************************)
HasHandle(t) == status[t] \in {"captured", "pending", "running"}

\* The inductive form of AliasOnRelease, from the capture of a handle to its
\* release.  While a source is replaced the flag is down, but it will be up.
AliasKept ==
  \A s \in Tasks :
    /\ HasHandle(s) /\ step[s] # "continued" =>
         (could_be_alias[s] <=>
           "write" \in use[s].scheduling /\ "write" \notin use[s].immediate)
    /\ step[s] = "continued" =>
         "write" \in use[s].scheduling /\ "write" \notin use[s].immediate

\* The use of initial_access may schedule writers, and could be an alias.
LEMMA AliasKeptInit == Init => AliasKept
<1> SUFFICES ASSUME Init, NEW s \in Tasks
             PROVE  /\ HasHandle(s) => s = Root
                    /\ step[s] # "continued"
                    /\ could_be_alias[Root]
                    /\ use[Root].scheduling = Modify /\ use[Root].immediate = None
  BY RootIsTask DEF AliasKept, Modify, None
<1>1. InitialUse.scheduling = Modify /\ InitialUse.immediate = None
  BY DEF InitialUse, MakeUse, Perms
<1> QED
  BY <1>1, RootIsTask DEF Init, HasHandle

\* Every step keeps the flag of UseHolder and the permissions of its use together.
LEMMA AliasKeptPreserved == Control /\ AliasKept /\ [Next]_vars => AliasKept'
<1> SUFFICES ASSUME Control, AliasKept, [Next]_vars, NEW s \in Tasks
             PROVE  /\ HasHandle(s)' /\ step'[s] # "continued" =>
                         (could_be_alias'[s] <=>
                           "write" \in use'[s].scheduling /\ "write" \notin use'[s].immediate)
                    /\ step'[s] = "continued" =>
                         "write" \in use'[s].scheduling /\ "write" \notin use'[s].immediate
  BY DEF AliasKept
<1> DEFINE Goal ==
      /\ HasHandle(s)' /\ step'[s] # "continued" =>
           (could_be_alias'[s] <=>
             "write" \in use'[s].scheduling /\ "write" \notin use'[s].immediate)
      /\ step'[s] = "continued" =>
           "write" \in use'[s].scheduling /\ "write" \notin use'[s].immediate
<1>0. /\ HasHandle(s) /\ step[s] # "continued" =>
           (could_be_alias[s] <=>
             "write" \in use[s].scheduling /\ "write" \notin use[s].immediate)
      /\ step[s] = "continued" =>
           "write" \in use[s].scheduling /\ "write" \notin use[s].immediate
      /\ step[s] # "idle" => HasHandle(s)
  BY DEF AliasKept, HasHandle, Control, InCreateWork
<1>a. /\ status \in [Tasks -> {"unborn", "captured", "pending", "running", "done"}]
      /\ step \in [Tasks -> {"idle", "captured", "continued", "submit", "referenced"}]
      /\ use \in [Tasks -> UseRecords]
      /\ could_be_alias \in [Tasks -> BOOLEAN]
  BY DEF Control, TypeOK
<1>1. ASSUME NEW t \in Tasks, RegisterCaptured(t) PROVE Goal
  <2>1. PICK child \in Tasks : child = Append(t, ops[t] + 1)
    BY <1>1, ChildIsNew
  <2>2. /\ child # t
        /\ status[child] = "unborn"
        /\ status' = [status EXCEPT ![child] = "captured"]
        /\ \A u \in Tasks \ {child} : use'[u] = use[u]
        /\ \A u \in Tasks \ {child} : could_be_alias'[u] = could_be_alias[u]
        /\ could_be_alias'[child] <=>
             "write" \in use'[child].scheduling /\ "write" \notin use'[child].immediate
        /\ \A u \in Tasks \ {t} : step'[u] = step[u]
        /\ step'[t] # "continued"
    BY <1>1, <2>1, CapturedUse
  <2>3. status[t] = "running" /\ step[t] = "idle"
    BY <1>1 DEF RegisterCaptured, MayOperate
  <2>4. CASE s = child
    BY <2>2, <2>4, <1>0 DEF HasHandle
  <2>5. CASE s # child
    BY <2>2, <2>3, <2>5, <1>0, <1>a DEF HasHandle
  <2> QED
    BY <2>4, <2>5
<1>2. ASSUME NEW t \in Tasks, RegisterContinuation(t) PROVE Goal
  <2>1. /\ "write" \in use'[t].scheduling
        /\ "write" \notin use'[t].immediate
        /\ \A u \in Tasks \ {t} : use'[u] = use[u]
    BY <1>2, ContinuingUse
  <2>2. /\ step' = [step EXCEPT ![t] = "continued"]
        /\ could_be_alias' = [could_be_alias EXCEPT ![t] = FALSE]
        /\ UNCHANGED status
    BY <1>2 DEF RegisterContinuation
  <2> QED
    BY <2>1, <2>2, <1>0, <1>a DEF HasHandle
<1>3. ASSUME NEW t \in Tasks, ReleaseSource(t) PROVE Goal
  <2>1. /\ step[t] = "continued"
        /\ step' = [step EXCEPT ![t] = "submit"]
        /\ could_be_alias' = [could_be_alias EXCEPT ![t] = TRUE]
        /\ UNCHANGED status
    BY <1>3 DEF ReleaseSource
  <2>2. \A u \in Tasks : /\ use'[u].scheduling = use[u].scheduling
                         /\ use'[u].immediate = use[u].immediate
    BY <1>3, <1>a DEF ReleaseSource, UseRecords
  <2> QED
    BY <2>1, <2>2, <1>0, <1>a DEF HasHandle
<1>4. ASSUME NEW t \in Tasks, SubmitTask(t) PROVE Goal
  <2>1. Child(t) \in Tasks /\ status[Child(t)] = "captured"
    BY <1>4 DEF SubmitTask, Creating, Control, InCreateWork
  <2> QED
    BY <1>4, <2>1, <1>0, <1>a DEF SubmitTask, HasHandle
<1>5. ASSUME NEW t \in Tasks, Access(t) PROVE Goal
  BY <1>5, <1>0 DEF Access, HasHandle
<1>6. ASSUME NEW t \in Tasks, ObtainReference(t) PROVE Goal
  <2>1. /\ use[t].immediate = Modify
        /\ step[t] = "idle" /\ status[t] = "running"
        /\ step' = [step EXCEPT ![t] = "referenced"]
        /\ UNCHANGED <<status, could_be_alias>>
    BY <1>6 DEF ObtainReference, MayOperate
  <2>2. /\ \A u \in Tasks \ {t} : use'[u] = use[u]
        /\ use'[t].scheduling = {} /\ use'[t].immediate = Modify
    BY <1>6, <2>1, <1>a DEF ObtainReference, Replace, WithDifferentPermissions, None, UseRecords
  <2> QED
    BY <2>1, <2>2, <1>0, <1>a DEF HasHandle, Modify
<1>7. ASSUME NEW t \in Tasks, ReleaseReferenced(t) PROVE Goal
  BY <1>7, <1>0, <1>a DEF ReleaseReferenced, HasHandle
<1>8. ASSUME NEW t \in Tasks, ReleaseHandle(t) PROVE Goal
  BY <1>8, <1>0, <1>a DEF ReleaseHandle, HasHandle
<1>9. ASSUME NEW t \in Tasks, RunTask(t) PROVE Goal
  <2>1. \A u \in Tasks : /\ use'[u].scheduling = use[u].scheduling
                         /\ use'[u].immediate = use[u].immediate
    BY <1>9, <1>a DEF RunTask, UseRecords
  <2> QED
    BY <1>9, <2>1, <1>0, <1>a DEF RunTask, Runnable, HasHandle
<1>10. ASSUME UNCHANGED vars PROVE Goal
  BY <1>10, <1>0 DEF vars, HasHandle
<1> QED
  BY <1>1, <1>2, <1>3, <1>4, <1>5, <1>6, <1>7, <1>8, <1>9, <1>10
  DEF Next, TaskStep, Terminated

\* UseHolder::could_be_alias is set, whenever the destructor can look at it,
\* exactly for the uses that may schedule writers without writing themselves.
THEOREM AliasesOnRelease == Spec => []AliasOnRelease
<1>1. AliasKept => AliasOnRelease
  BY DEF AliasKept, AliasOnRelease, HasHandle
<1> QED
  BY ControlHolds, AliasKeptInit, AliasKeptPreserved, <1>1, PTL DEF Spec

(***************************************************************************)
(* Data                                                                    *)
(***************************************************************************)
\* The inductive form of DataInPlace: while a source is replaced, its data is in
\* the use that is about to be released.
DataKept ==
  \A s \in Tasks :
    /\ status[s] = "running" /\ step[s] # "continued" /\ use[s].immediate # None
         => use[s].data
    /\ step[s] = "continued" /\ use[s].immediate # None => replaced[s].data

\* The top level touches no data.
LEMMA DataKeptInit == Init => DataKept
BY DEF Init, DataKept, InitialUse, MakeUse, Perms, None

\* Every step keeps the data with whoever may touch it.
LEMMA DataKeptPreserved == Control /\ DataKept /\ [Next]_vars => DataKept'
<1> SUFFICES ASSUME Control, DataKept, [Next]_vars, NEW s \in Tasks
             PROVE  /\ status'[s] = "running" /\ step'[s] # "continued"
                         /\ use'[s].immediate # None => use'[s].data
                    /\ step'[s] = "continued" /\ use'[s].immediate # None
                         => replaced'[s].data
  BY DEF DataKept
<1> DEFINE Goal == /\ status'[s] = "running" /\ step'[s] # "continued"
                        /\ use'[s].immediate # None => use'[s].data
                   /\ step'[s] = "continued" /\ use'[s].immediate # None
                        => replaced'[s].data
<1>0. /\ status[s] = "running" /\ step[s] # "continued" /\ use[s].immediate # None
           => use[s].data
      /\ step[s] = "continued" /\ use[s].immediate # None => replaced[s].data
      /\ step[s] # "idle" => status[s] = "running"
  BY DEF DataKept, Control, InCreateWork
<1>a. /\ status \in [Tasks -> {"unborn", "captured", "pending", "running", "done"}]
      /\ step \in [Tasks -> {"idle", "captured", "continued", "submit", "referenced"}]
      /\ use \in [Tasks -> UseRecords]
      /\ replaced \in [Tasks -> UseRecords]
  BY DEF Control, TypeOK
<1>1. ASSUME NEW t \in Tasks, RegisterCaptured(t) PROVE Goal
  <2>1. PICK child \in Tasks : child = Append(t, ops[t] + 1)
    BY <1>1, ChildIsNew
  <2>2. /\ status[child] = "unborn"
        /\ status' = [status EXCEPT ![child] = "captured"]
        /\ \A u \in Tasks \ {child} : use'[u] = use[u]
        /\ \A u \in Tasks \ {t} : step'[u] = step[u]
        /\ step'[t] # "continued"
    BY <1>1, <2>1, CapturedUse
  <2>3. status[t] = "running" /\ step[t] = "idle" /\ UNCHANGED replaced
    BY <1>1 DEF RegisterCaptured, MayOperate
  <2> QED
    BY <2>2, <2>3, <1>0, <1>a
<1>2. ASSUME NEW t \in Tasks, RegisterContinuation(t) PROVE Goal
  <2>1. /\ use'[t].immediate \subseteq use[t].immediate
        /\ replaced'[t] = use[t]
        /\ \A u \in Tasks \ {t} : use'[u] = use[u] /\ replaced'[u] = replaced[u]
    BY <1>2, ContinuingUse
  <2>2. /\ step[t] = "captured"
        /\ step' = [step EXCEPT ![t] = "continued"]
        /\ UNCHANGED status
    BY <1>2 DEF RegisterContinuation
  <2> QED
    BY <2>1, <2>2, <1>0, <1>a DEF None
<1>3. ASSUME NEW t \in Tasks, ReleaseSource(t) PROVE Goal
  <2>1. /\ step[t] = "continued"
        /\ step' = [step EXCEPT ![t] = "submit"]
        /\ UNCHANGED status
        /\ \A u \in Tasks \ {t} : use'[u] = use[u] /\ replaced'[u] = replaced[u]
    BY <1>3, <1>a DEF ReleaseSource
  <2>2. /\ use'[t].immediate = use[t].immediate
        /\ use'[t].data <=> use[t].immediate # None /\ replaced[t].data
    BY <1>3, <1>a DEF ReleaseSource, UseRecords
  <2> QED
    BY <2>1, <2>2, <1>0, <1>a
<1>4. ASSUME NEW t \in Tasks, SubmitTask(t) PROVE Goal
  <2>1. Child(t) \in Tasks /\ status[Child(t)] = "captured"
    BY <1>4 DEF SubmitTask, Creating, Control, InCreateWork
  <2> QED
    BY <1>4, <2>1, <1>0, <1>a DEF SubmitTask
<1>5. ASSUME NEW t \in Tasks, Access(t) PROVE Goal
  BY <1>5, <1>0 DEF Access
<1>6. ASSUME NEW t \in Tasks, ObtainReference(t) PROVE Goal
  <2>1. /\ step[t] = "idle" /\ status[t] = "running"
        /\ step' = [step EXCEPT ![t] = "referenced"]
        /\ UNCHANGED status
        /\ \A u \in Tasks \ {t} : use'[u] = use[u] /\ replaced'[u] = replaced[u]
    BY <1>6, <1>a DEF ObtainReference, MayOperate, Replace
  <2>2. use'[t].immediate = use[t].immediate /\ use'[t].data = use[t].data
    BY <1>6, <1>a DEF ObtainReference, Replace, WithDifferentPermissions, UseRecords
  <2> QED
    BY <2>1, <2>2, <1>0, <1>a
<1>7. ASSUME NEW t \in Tasks, ReleaseReferenced(t) PROVE Goal
  BY <1>7, <1>0, <1>a DEF ReleaseReferenced
<1>8. ASSUME NEW t \in Tasks, ReleaseHandle(t) PROVE Goal
  BY <1>8, <1>0, <1>a DEF ReleaseHandle
<1>9. ASSUME NEW t \in Tasks, RunTask(t) PROVE Goal
  <2>1. /\ status[t] = "pending"
        /\ status' = [status EXCEPT ![t] = "running"]
        /\ UNCHANGED <<step, replaced>>
        /\ \A u \in Tasks \ {t} : use'[u] = use[u]
    BY <1>9, <1>a DEF RunTask, Runnable
  <2>2. use'[t].immediate = use[t].immediate /\ (use'[t].data <=> use[t].immediate # None)
    BY <1>9, <1>a DEF RunTask, UseRecords
  <2> QED
    BY <2>1, <2>2, <1>0, <1>a
<1>10. ASSUME UNCHANGED vars PROVE Goal
  BY <1>10, <1>0 DEF vars
<1> QED
  BY <1>1, <1>2, <1>3, <1>4, <1>5, <1>6, <1>7, <1>8, <1>9, <1>10
  DEF Next, TaskStep, Terminated

\* The data pointer is never lost on the way from a source to its continuation
\* (make_captured_use_holder, replace_use, obtain_reference).
THEOREM DataAlwaysInPlace == Spec => []DataInPlace
<1>1. DataKept => DataInPlace
  BY DEF DataKept, DataInPlace
<1> QED
  BY ControlHolds, DataKeptInit, DataKeptPreserved, <1>1, PTL DEF Spec

(***************************************************************************)
(* Who produces which flow                                                 *)
(***************************************************************************)
\* The inductive form of OneProducer: the out flow of a task is its own for as
\* long as it has one, and it has one until it is done; so only the out flows
\* of tasks that are done have become other names of a flow.
Producers ==
  /\ \A s \in Tasks : KindsKept(use[s])
  /\ \A s \in Tasks : use[s].out \in {NoFlow, Flow(s, "out")}
  /\ \A s \in Tasks : status[s] = "done" => use[s].out = NoFlow
  /\ \A f \in DOMAIN alias : SameKind(f, alias[f])
  /\ \A f \in DOMAIN alias : f.place = "out" => status[f.owner] = "done"

\* The steps other than captures, continuations and releases leave the flows
\* as they are: they may take away permissions, change whether data_ is set, or
\* start a task whose use is satisfied.
Quiet ==
  /\ UNCHANGED <<alias, forwardings>>
  /\ \A s \in Tasks :
       /\ use'[s].in = use[s].in
       /\ use'[s].out = use[s].out
       /\ use'[s].anti_in = use[s].anti_in
       /\ use'[s].anti_out = use[s].anti_out
       /\ use'[s].scheduling \in {use[s].scheduling, None}
       /\ use'[s].immediate = use[s].immediate
       /\ status'[s] = "unborn" <=> status[s] = "unborn"
       /\ status'[s] = "done" <=> status[s] = "done"
       /\ step'[s] = "captured" <=> step[s] = "captured"
       /\ step[s] = "captured" => ops'[s] = ops[s]
       /\ step[s] = "captured" \/ status[s] = "captured" =>
            use'[s].scheduling = use[s].scheduling
       /\ use'[s].scheduling = use[s].scheduling \/ use[s].immediate = Modify
       /\ status'[s] = "running" =>
            status[s] = "running" \/ Satisfied(Backend, alias, LiveUsesBut(s), use[s])

\* Every step is a capture, a continuation, a release, or changes no flow.
LEMMA StepKinds ==
  ASSUME Control, [Next]_vars
  PROVE  \/ \E t \in Tasks : RegisterCaptured(t)
         \/ \E t \in Tasks : RegisterContinuation(t)
         \/ \E t \in Tasks : ReleaseHandle(t)
         \/ Quiet
<1>a. /\ status \in [Tasks -> {"unborn", "captured", "pending", "running", "done"}]
      /\ step \in [Tasks -> {"idle", "captured", "continued", "submit", "referenced"}]
      /\ ops \in [Tasks -> 0..MaxOps]
      /\ use \in [Tasks -> UseRecords]
  BY DEF Control, TypeOK
<1>3. ASSUME NEW t \in Tasks, ReleaseSource(t) PROVE Quiet
  BY <1>3, <1>a DEF ReleaseSource, Quiet, UseRecords
<1>4. ASSUME NEW t \in Tasks, SubmitTask(t) PROVE Quiet
  <2>1. Child(t) \in Tasks /\ status[Child(t)] = "captured"
    BY <1>4 DEF SubmitTask, Creating, Control, InCreateWork
  <2> QED
    BY <1>4, <2>1, <1>a DEF SubmitTask, Quiet
<1>5. ASSUME NEW t \in Tasks, Access(t) PROVE Quiet
  BY <1>5, <1>a DEF Access, MayOperate, Quiet
<1>6. ASSUME NEW t \in Tasks, ObtainReference(t) PROVE Quiet
  BY <1>6, <1>a DEF ObtainReference, MayOperate, Replace, WithDifferentPermissions,
     Quiet, UseRecords
<1>7. ASSUME NEW t \in Tasks, ReleaseReferenced(t) PROVE Quiet
  BY <1>7, <1>a DEF ReleaseReferenced, Quiet
<1>9. ASSUME NEW t \in Tasks, RunTask(t) PROVE Quiet
  BY <1>9, <1>a DEF RunTask, Runnable, Quiet, UseRecords
<1>10. ASSUME UNCHANGED vars PROVE Quiet
  BY <1>10 DEF vars, Quiet
<1> QED
  BY <1>3, <1>4, <1>5, <1>6, <1>7, <1>9, <1>10 DEF Next, TaskStep, Terminated

\* What registering a captured use does, with the case that was found.
LEMMA CaptureStep ==
  ASSUME Control, NEW t \in Tasks, RegisterCaptured(t)
  PROVE  \E child \in Tasks, request \in PermissionPairs, case \in CaptureCases :
           /\ child = Append(t, ops[t] + 1)
           /\ child # t
           /\ use[t].scheduling # None
           /\ request \in RequestsOf[use[t].scheduling]
           /\ case = CaseOf(use[t], request)
           /\ case \in Cases
           /\ Matches(case, "Sequential", PermissionsOf(use[t]), request)
           /\ use' = [use EXCEPT ![child] =
                MakeUse(request,
                        RegisteredFlows(case.captured, FlowsOfSource(use[t]), child, CapturedPlaces),
                        FALSE)]
           /\ forwardings' = forwardings \cup
                Forwardings(case.captured, FlowsOfSource(use[t]), child)
           /\ status[t] = "running"
           /\ status[child] = "unborn"
           /\ status' = [status EXCEPT ![child] = "captured"]
           /\ step[t] = "idle"
           /\ step' = [step EXCEPT ![t] =
                IF case.needs_new_continuation_use THEN "captured" ELSE "submit"]
           /\ ops' = [ops EXCEPT ![t] = ops[t] + 1]
           /\ UNCHANGED alias
<1> DEFINE child == Append(t, ops[t] + 1)
<1>1. child \in Tasks /\ status[child] = "unborn"
  BY ChildIsNew
<1>2. status[t] = "running" /\ step[t] = "idle"
  BY DEF RegisterCaptured, MayOperate
<1>3. PICK request \in RequestsOf[use[t].scheduling] :
        LET case == CaseOf(use[t], request)
            flows == RegisteredFlows(case.captured, FlowsOfSource(use[t]),
                                     child, CapturedPlaces)
        IN  /\ CasesFor("Sequential", PermissionsOf(use[t]), request) # {}
            /\ case \in Cases
            /\ use' = [use EXCEPT ![child] = MakeUse(request, flows, FALSE)]
            /\ forwardings' = forwardings \cup
                 Forwardings(case.captured, FlowsOfSource(use[t]), child)
            /\ status' = [status EXCEPT ![child] = "captured"]
            /\ step' = [step EXCEPT ![t] =
                 IF case.needs_new_continuation_use THEN "captured" ELSE "submit"]
  BY DEF RegisterCaptured
<1>4. request \in PermissionPairs
  BY RequestIsPermissions DEF Control, TypeOK, UseRecords
<1>5. /\ CaseOf(use[t], request) \in CaptureCases
      /\ Matches(CaseOf(use[t], request), "Sequential", PermissionsOf(use[t]), request)
  BY <1>3, CaseOfFound
<1>6. ops' = [ops EXCEPT ![t] = ops[t] + 1] /\ UNCHANGED alias /\ use[t].scheduling # None
  BY DEF RegisterCaptured
<1> QED
  BY <1>1, <1>2, <1>3, <1>4, <1>5, <1>6

\* What registering a continuation does, with the case that was found.
LEMMA ContinuationStep ==
  ASSUME Control, NEW t \in Tasks, RegisterContinuation(t)
  PROVE  \E child \in Tasks, case \in CaptureCases :
           /\ child = Child(t)
           /\ child # t
           /\ status[t] = "running"
           /\ status[child] = "captured"
           /\ case = CaseOf(use[t], PermissionsOf(use[child]))
           /\ Matches(case, "Sequential", PermissionsOf(use[t]), PermissionsOf(use[child]))
           /\ case.needs_new_continuation_use
           /\ use' = [use EXCEPT ![t] =
                MakeUse(case.continuation,
                        RegisteredFlows(case.continuing, FlowsOfCapture(use[t], use[child]),
                                        child, ContinuingPlaces),
                        FALSE)]
           /\ step[t] = "captured"
           /\ step' = [step EXCEPT ![t] = "continued"]
           /\ UNCHANGED <<status, ops, alias, forwardings>>
<1>1. /\ Child(t) \in Tasks
      /\ status[t] = "running"
      /\ status[Child(t)] = "captured"
  BY DEF Control, InCreateWork, Creating, RegisterContinuation
<1>2. LET case == CaseOf(use[t], PermissionsOf(use[Child(t)]))
      IN  Found(case, use[t], PermissionsOf(use[Child(t)])) /\ case.needs_new_continuation_use
  BY DEF Control, CaseInUse, CaseReady, RegisterContinuation
<1> QED
  BY <1>1, <1>2 DEF Found, CasesFor, RegisterContinuation, Replace

\* What the destructor of a handle's last copy does.
LEMMA ReleaseStep ==
  ASSUME Control, NEW t \in Tasks, ReleaseHandle(t)
  PROVE  /\ status[t] = "running" /\ step[t] = "idle"
         /\ use' = [use EXCEPT ![t] = NoUse]
         /\ status' = [status EXCEPT ![t] = "done"]
         /\ alias' = IF could_be_alias[t] THEN ReleaseAlias(alias, use[t]) ELSE alias
         /\ UNCHANGED <<step, ops, forwardings>>
BY DEF ReleaseHandle

\* The top level produces its own out flow.
LEMMA ProducersInit == Init => Producers
<1> SUFFICES ASSUME Init PROVE Producers
  OBVIOUS
<1>1. /\ InitialUse.in = Flow(Root, "in")
      /\ InitialUse.out = Flow(Root, "out")
      /\ InitialUse.anti_in = NoFlow
      /\ InitialUse.anti_out = Flow(Root, "anti_out")
  BY DEF InitialUse, MakeUse, RegisteredFlows, UseFlows, Establish, Initial, Null,
     Insignificant, CapturedPlaces
<1>2. NoUse.in = NoFlow /\ NoUse.out = NoFlow /\ NoUse.anti_in = NoFlow /\ NoUse.anti_out = NoFlow
  BY DEF NoUse, MakeUse, UseFlows
<1>3. \A s \in Tasks : IF s = Root THEN use[s] = InitialUse ELSE use[s] = NoUse
  BY DEF Init
<1>4. \A s \in Tasks : KindsKept(use[s])
  BY <1>1, <1>2, <1>3 DEF KindsKept, IsDataFlow, IsAntiFlow, DataPlaces, AntiPlaces, Flow
<1>5. \A s \in Tasks : use[s].out \in {NoFlow, Flow(s, "out")} /\ status[s] # "done"
  BY <1>1, <1>2, <1>3 DEF Init
<1>6. DOMAIN alias = {}
  BY DEF Init
<1> QED
  BY <1>4, <1>5, <1>6 DEF Producers

\* A captured use keeps the kinds of flows apart and has its own out flow.
LEMMA ProducersCaptured ==
  ASSUME Control, Producers, NEW t \in Tasks, RegisterCaptured(t)
  PROVE  Producers'
<1>1. PICK child \in Tasks, request \in PermissionPairs, case \in CaptureCases :
        /\ Matches(case, "Sequential", PermissionsOf(use[t]), request)
        /\ use' = [use EXCEPT ![child] =
             MakeUse(request,
                     RegisteredFlows(case.captured, FlowsOfSource(use[t]), child, CapturedPlaces),
                     FALSE)]
        /\ status[child] = "unborn"
        /\ status' = [status EXCEPT ![child] = "captured"]
        /\ UNCHANGED alias
  BY CaptureStep
<1> DEFINE known == FlowsOfSource(use[t])
           new == MakeUse(request, RegisteredFlows(case.captured, known, child, CapturedPlaces),
                          FALSE)
<1>2. ProducesItsOwn(case) /\ WellShaped(case) /\ case.coherence_mode = "Sequential"
  BY <1>1, CaseProduces, CaseShape DEF Matches
<1>3. KindsKept(use[t])
  BY DEF Producers
<1>4. /\ \A name \in {"source_in", "source_out"} : IsDataFlow(known[name])
      /\ \A name \in {"source_anti_in", "source_anti_out"} : IsAntiFlow(known[name])
  BY <1>3 DEF KindsKept, FlowsOfSource
<1>5. /\ Within(case.captured.in, {"source_in", "source_out"})
      /\ Within(case.captured.out, {"source_in", "source_out"})
      /\ Within(case.captured.anti_in, {"source_anti_in", "source_anti_out"})
      /\ Within(case.captured.anti_out, {"source_anti_in", "source_anti_out"})
  BY <1>2 DEF ProducesItsOwn, WellShaped, RelationshipsOver, Within, SourceNames,
     DataNames, AntiNames, CaptureNames
<1>6. /\ new.in = Establish(case.captured.in, known, Flow(child, "in"))
      /\ new.out = Establish(case.captured.out, known, Flow(child, "out"))
      /\ new.anti_in = Establish(case.captured.anti_in, known, Flow(child, "anti_in"))
      /\ new.anti_out = Establish(case.captured.anti_out, known, Flow(child, "anti_out"))
  BY DEF MakeUse, RegisteredFlows, UseFlows, CapturedPlaces
<1>7. /\ "in" \in DataPlaces /\ "out" \in DataPlaces
      /\ "anti_in" \in AntiPlaces /\ "anti_out" \in AntiPlaces
  BY DEF DataPlaces, AntiPlaces
<1> HIDE DEF known, new
<1>8. KindsKept(new)
  <2>1. IsDataFlow(new.in) /\ IsDataFlow(new.out)
    BY <1>4, <1>5, <1>6, <1>7, EstablishedData
  <2>2. IsAntiFlow(new.anti_in) /\ IsAntiFlow(new.anti_out)
    BY <1>4, <1>5, <1>6, <1>7, EstablishedAnti
  <2> QED
    BY <2>1, <2>2 DEF KindsKept
<1>9. new.out \in {NoFlow, Flow(child, "out")}
  BY <1>2, <1>6 DEF ProducesItsOwn, Establish
<1>10. use' = [use EXCEPT ![child] = new] /\ use \in [Tasks -> UseRecords]
       /\ status \in [Tasks -> {"unborn", "captured", "pending", "running", "done"}]
  BY <1>1 DEF new, known, Control, TypeOK
<1>11. /\ \A s \in Tasks : KindsKept(use'[s])
       /\ \A s \in Tasks : use'[s].out \in {NoFlow, Flow(s, "out")}
       /\ \A s \in Tasks : status'[s] = "done" => use'[s].out = NoFlow
  BY <1>1, <1>8, <1>9, <1>10 DEF Producers
<1>12. ASSUME NEW f \in DOMAIN alias, f.place = "out"
       PROVE  status'[f.owner] = "done"
  <2>1. status[f.owner] = "done"
    BY <1>12 DEF Producers
  <2>2. f.owner \in Tasks
    BY <1>12 DEF Control, TypeOK, Flows
  <2> QED
    BY <2>1, <2>2, <1>1, <1>10
<1> QED
  BY <1>1, <1>11, <1>12 DEF Producers

\* A continuation keeps the kinds of flows apart and the out flow of its source.
LEMMA ProducersContinuing ==
  ASSUME Control, Producers, NEW t \in Tasks, RegisterContinuation(t)
  PROVE  Producers'
<1>1. PICK child \in Tasks, case \in CaptureCases :
        /\ status[t] = "running"
        /\ Matches(case, "Sequential", PermissionsOf(use[t]), PermissionsOf(use[child]))
        /\ case.needs_new_continuation_use
        /\ use' = [use EXCEPT ![t] =
             MakeUse(case.continuation,
                     RegisteredFlows(case.continuing, FlowsOfCapture(use[t], use[child]),
                                     child, ContinuingPlaces),
                     FALSE)]
        /\ UNCHANGED <<status, alias>>
  BY ContinuationStep
<1> DEFINE known == FlowsOfCapture(use[t], use[child])
           new == MakeUse(case.continuation,
                          RegisteredFlows(case.continuing, known, child, ContinuingPlaces), FALSE)
<1>2. ProducesItsOwn(case) /\ case.coherence_mode = "Sequential"
  BY <1>1, CaseProduces DEF Matches
<1>3. KindsKept(use[t]) /\ KindsKept(use[child])
  BY DEF Producers
<1>4. /\ \A name \in DataNames : IsDataFlow(known[name])
      /\ \A name \in AntiNames : IsAntiFlow(known[name])
  BY <1>3 DEF KindsKept, FlowsOfCapture, DataNames, AntiNames, CaptureNames, SourceNames
<1>5. /\ new.in = Establish(case.continuing.in, known, Flow(child, "cont_in"))
      /\ new.out = Establish(case.continuing.out, known, Flow(child, "cont_out"))
      /\ new.anti_in = Establish(case.continuing.anti_in, known, Flow(child, "cont_anti_in"))
      /\ new.anti_out = Establish(case.continuing.anti_out, known, Flow(child, "cont_anti_out"))
  BY DEF MakeUse, RegisteredFlows, UseFlows, ContinuingPlaces
<1>6. "cont_in" \in DataPlaces /\ "cont_anti_in" \in AntiPlaces /\ "cont_anti_out" \in AntiPlaces
  BY DEF DataPlaces, AntiPlaces
<1>7. new.out = use[t].out
  <2>1. case.continuing.out.description = "Same" /\ case.continuing.out.of = "source_out"
    BY <1>1, <1>2 DEF ProducesItsOwn, Same
  <2>2. known["source_out"] = use[t].out
    BY DEF FlowsOfCapture
  <2> HIDE DEF known, new
  <2> QED
    BY <1>5, <2>1, <2>2 DEF Establish
<1> HIDE DEF known, new
<1>8. KindsKept(new)
  <2>1. IsDataFlow(new.in) /\ IsAntiFlow(new.anti_in) /\ IsAntiFlow(new.anti_out)
    BY <1>1, <1>2, <1>4, <1>5, <1>6, EstablishedData, EstablishedAnti DEF ProducesItsOwn
  <2> QED
    BY <2>1, <1>3, <1>7 DEF KindsKept
<1>9. use' = [use EXCEPT ![t] = new] /\ use \in [Tasks -> UseRecords]
  BY <1>1 DEF new, known, Control, TypeOK
<1> QED
  BY <1>1, <1>7, <1>8, <1>9 DEF Producers

\* The release of a handle makes its out flow another name, when the task is
\* done, and otherwise gives new names to anti-flows only.
LEMMA ProducersReleased ==
  ASSUME Control, Producers, NEW t \in Tasks, ReleaseHandle(t)
  PROVE  Producers'
<1> DEFINE u == use[t]
           a == EstablishAlias(alias, u.out, u.in)
           b == EstablishAlias(a, u.anti_in, u.anti_out)
<1>1. /\ use' = [use EXCEPT ![t] = NoUse]
      /\ status' = [status EXCEPT ![t] = "done"]
      /\ alias' \in {alias, b}
  BY ReleaseStep DEF ReleaseAlias
<1>2. /\ use \in [Tasks -> UseRecords]
      /\ status \in [Tasks -> {"unborn", "captured", "pending", "running", "done"}]
  BY DEF Control, TypeOK
<1>3. NoUse.in = NoFlow /\ NoUse.out = NoFlow /\ NoUse.anti_in = NoFlow /\ NoUse.anti_out = NoFlow
  BY DEF NoUse, MakeUse, UseFlows
<1>4. /\ \A s \in Tasks : KindsKept(use'[s])
      /\ \A s \in Tasks : use'[s].out \in {NoFlow, Flow(s, "out")}
      /\ \A s \in Tasks : status'[s] = "done" => use'[s].out = NoFlow
  BY <1>1, <1>2, <1>3 DEF Producers, KindsKept, IsDataFlow, IsAntiFlow
<1>5. KindsKept(u) /\ u.out \in {NoFlow, Flow(t, "out")}
  BY DEF Producers
<1>6. /\ u.out = NoFlow \/ u.in = NoFlow \/ SameKind(u.out, u.in)
      /\ u.anti_in = NoFlow \/ u.anti_out = NoFlow \/ SameKind(u.anti_in, u.anti_out)
  BY <1>5 DEF KindsKept, IsDataFlow, IsAntiFlow, SameKind
<1> HIDE DEF u, a, b
<1>7. /\ \A f \in DOMAIN a : SameKind(f, a[f])
      /\ \A f \in DOMAIN a \ DOMAIN alias : f = Representative(alias, u.out) /\ SameKind(u.out, f)
  BY <1>6, AliasKinds DEF Producers, a
<1>8. /\ \A f \in DOMAIN b : SameKind(f, b[f])
      /\ \A f \in DOMAIN b \ DOMAIN a : SameKind(u.anti_in, f)
  BY <1>6, <1>7, AliasKinds DEF b
<1>9. ASSUME NEW f \in DOMAIN b, f.place = "out", f \notin DOMAIN alias
      PROVE  f.owner = t
  <2>1. f \in DOMAIN a
    BY <1>5, <1>8, <1>9, NoFlowIsNone DEF SameKind, DataPlaces, AntiPlaces, KindsKept, IsAntiFlow
  <2>2. f = Representative(alias, u.out) /\ SameKind(u.out, f)
    BY <1>7, <1>9, <2>1
  <2>3. u.out = Flow(t, "out")
    BY <1>5, <2>2, NoFlowIsNone DEF SameKind
  <2>4. u.out \notin DOMAIN alias \/ status[t] = "done"
    BY <2>3, NoFlowIsNone DEF Producers
  <2>5. status[t] = "running"
    BY ReleaseStep
  <2> QED
    BY <2>2, <2>3, <2>4, <2>5, NoFlowIsNone DEF Representative
<1>10. ASSUME NEW f \in DOMAIN alias', f.place = "out"
       PROVE  status'[f.owner] = "done"
  <2>1. CASE f \in DOMAIN alias
    <3>1. status[f.owner] = "done" /\ f.owner \in Tasks
      BY <1>10, <2>1 DEF Producers, Control, TypeOK, Flows
    <3> QED
      BY <1>1, <1>2, <3>1
  <2>2. CASE f \notin DOMAIN alias
    BY <1>1, <1>2, <1>9, <1>10, <2>2
  <2> QED
    BY <2>1, <2>2
<1> QED
  BY <1>1, <1>4, <1>8, <1>10 DEF Producers

\* Every step keeps the rule.
LEMMA ProducersPreserved == Control /\ Producers /\ [Next]_vars => Producers'
<1> SUFFICES ASSUME Control, Producers, [Next]_vars PROVE Producers'
  OBVIOUS
<1>1. ASSUME Quiet PROVE Producers'
  <2>1. \A s \in Tasks : KindsKept(use'[s])
    BY <1>1 DEF Producers, KindsKept, Quiet
  <2>2. \A f \in DOMAIN alias : f.owner \in Tasks
    BY DEF Control, TypeOK, Flows
  <2> QED
    BY <1>1, <2>1, <2>2 DEF Producers, Quiet
<1> QED
  BY <1>1, StepKinds, ProducersCaptured, ProducersContinuing, ProducersReleased

\* No two handles ever produce the same flow, through whatever aliases
\* release_use establishes: captures (the capture cases) give each captured use
\* an out flow of its own, and ~UseHolder gives away only that of a task that
\* is done.
THEOREM OneProducerPerFlow == Spec => []OneProducer
<1>1. Control /\ Producers => OneProducer
  <2> SUFFICES ASSUME Control, Producers, NEW s \in Tasks, NEW t \in Tasks,
                      s # t, use[s].out # NoFlow, use[t].out # NoFlow
               PROVE  ~Equivalent(alias, use[s].out, use[t].out)
    BY DEF OneProducer
  <2>1. \A r \in {s, t} : use[r].out = Flow(r, "out") /\ use[r].out \notin DOMAIN alias
    BY NoFlowIsNone DEF Producers
  <2> QED
    BY <2>1, NoFlowIsNone DEF Equivalent, Representative
<1> QED
  BY ControlHolds, ProducersInit, ProducersPreserved, <1>1, PTL DEF Spec

(***************************************************************************)
(* What is forwarded                                                       *)
(***************************************************************************)
\* What a case of the table does with the flows that can be forwarded.  Only
\* sources that may schedule writers forward their in flow, only those that
\* write their anti-out flow, and they are replaced by a continuation whose in
\* flow is a new one.  A captured use that keeps the in flow of a source that is
\* not replaced, or the new one, may not schedule writers.
ForwardsItsOwn(case) ==
  \A source, request \in PermissionPairs :
    Matches(case, "Sequential", source, request) =>
      /\ case.captured.in \in {Same("source_in"), Forwarding("source_in")}
      /\ case.captured.in.description = "Forwarding" \/ case.needs_new_continuation_use
           => "write" \in source.scheduling
      /\ case.captured.in.description = "Forwarding" => case.needs_new_continuation_use
      /\ ~case.needs_new_continuation_use => "write" \notin request.scheduling
      /\ case.captured.anti_in.description = "Forwarding" =>
           /\ case.captured.anti_in.of = "source_anti_out"
           /\ source = Perms(Modify, Modify)
           /\ case.needs_new_continuation_use
      /\ request = Perms(Modify, Modify) => case.captured.anti_out.description = "Next"
      /\ case.needs_new_continuation_use =>
           \/ /\ case.continuing.in = Same("captured_out")
              /\ case.captured.out.description = "Next"
           \/ /\ case.continuing.in = Same("captured_in")
              /\ case.captured.in.description = "Forwarding"
              /\ "write" \notin request.scheduling

\* Every case of the table replaces the sources whose flows it forwards.
LEMMA CaseForwards == \A case \in CaptureCases : ForwardsItsOwn(case)
<1> USE DEF ForwardsItsOwn, Matches, CaptureCase, CaptureCaseNoNewContinuationUse,
        UseFlows, Same, NextFlow, Forwarding, Insignificant, NextOfInFlow,
        NextAntiFlowOfAntiIn, PermissionsAmong, Perms, PermissionPairs, Permissions,
        None, Read, Modify
<1>1. ForwardsItsOwn(ScheduleReadFromScheduleOnly)
  BY DEF ScheduleReadFromScheduleOnly
<1>2. ForwardsItsOwn(ModifyFromScheduleModify)
  BY DEF ModifyFromScheduleModify
<1>3. ForwardsItsOwn(LeafModifyFromScheduleModify)
  BY DEF LeafModifyFromScheduleModify
<1>4. ForwardsItsOwn(ScheduleReadFromRead)
  BY DEF ScheduleReadFromRead
<1>5. ForwardsItsOwn(ScheduleModifyFromScheduleModify)
  BY DEF ScheduleModifyFromScheduleModify
<1>6. ForwardsItsOwn(ScheduleModifyFromModifyRead)
  BY DEF ScheduleModifyFromModifyRead
<1>7. ForwardsItsOwn(ScheduleModifyFromModify)
  BY DEF ScheduleModifyFromModify
<1>8. ForwardsItsOwn(ReadFromReadOrScheduleOnly)
  BY DEF ReadFromReadOrScheduleOnly
<1>9. ForwardsItsOwn(ReadFromModify)
  BY DEF ReadFromModify
<1>10. ForwardsItsOwn(ModifyReadFromScheduleModify)
  BY DEF ModifyReadFromScheduleModify
<1>11. ForwardsItsOwn(ModifyReadFromModifyRead)
  BY DEF ModifyReadFromModifyRead
<1>12. ForwardsItsOwn(ModifyReadFromModify)
  BY DEF ModifyReadFromModify
<1>13. ForwardsItsOwn(ModifyFromModifyRead)
  BY DEF ModifyFromModifyRead
<1>14. ForwardsItsOwn(ModifyFromModify)
  BY DEF ModifyFromModify
<1>15. ForwardsItsOwn(CommutativeModify)
  BY DEF CommutativeModify
<1> HIDE DEF ForwardsItsOwn
<1> QED
  BY <1>1, <1>2, <1>3, <1>4, <1>5, <1>6, <1>7, <1>8, <1>9, <1>10,
     <1>11, <1>12, <1>13, <1>14, <1>15, Zenon
  DEF CaptureCases

\* A use that a capture may take away in flows from.
MayForward(s) == "write" \in use[s].scheduling /\ step[s] # "captured"

Writes(s) == PermissionsOf(use[s]) = Perms(Modify, Modify)

\* A task that is not there yet, or whose flows only its use has seen.
Unseen(o) ==
  \/ status[o] = "unborn"
  \/ \E s \in Tasks : step[s] = "captured" /\ o = Child(s)

\* Two uses that may be captured from never have the same in flow.
InFlowsDiffer ==
  \A s, t \in Tasks :
    s # t /\ MayForward(s) /\ MayForward(t) => use[s].in # use[t].in

\* The in flow of a use that may be captured from was not forwarded yet.
InFlowsNotForwarded ==
  \A s \in Tasks :
    MayForward(s) => /\ use[s].in # NoFlow
                     /\ \A a \in forwardings : a.from # use[s].in

\* Between the two halves of make_captured_use_holder, the flow that the
\* continuation is to have is one that was made for the captured use.
FlowsToContinue ==
  \A s \in Tasks :
    step[s] = "captured" =>
      LET child == Child(s)
          case == CaseOf(use[s], PermissionsOf(use[child]))
      IN  /\ case.captured.out.description = "Next" => use[child].out = Flow(child, "out")
          /\ case.captured.in.description = "Forwarding" => use[child].in = Flow(child, "in")

\* No other use has a flow of a task that is not there yet, and none is
\* forwarded; no use waits for its own out flow.
UnseenUntouched ==
  /\ \A o \in Tasks : Unseen(o) =>
       /\ \A s \in Tasks \ {o} : use[s].in = NoFlow \/ use[s].in.owner # o
       /\ \A a \in forwardings : a.from.owner # o
  /\ \A s \in Tasks : use[s].in # Flow(s, "out")

\* A use that reads and writes was made by its own capture, and when its
\* anti-out flow is forwarded it will no longer read and write.
AntiOutsNotForwarded ==
  /\ \A s \in Tasks : Writes(s) => use[s].anti_out = Flow(s, "anti_out")
  /\ \A a \in forwardings : a.from.place \in AntiPlaces =>
       /\ a.from.place = "anti_out"
       /\ status[a.from.owner] # "unborn"
       /\ step[a.from.owner] = "captured" \/ ~Writes(a.from.owner)

\* The inductive form of ForwardedOnce.
Forwards ==
  /\ ForwardedOnce
  /\ InFlowsDiffer
  /\ InFlowsNotForwarded
  /\ FlowsToContinue
  /\ UnseenUntouched
  /\ AntiOutsNotForwarded

\* Nothing is forwarded at the start, and only the top level has flows.
LEMMA ForwardsInit == Init => Forwards
<1> SUFFICES ASSUME Init PROVE Forwards
  OBVIOUS
<1>1. InitialUse.in = Flow(Root, "in") /\ PermissionsOf(InitialUse) = Perms(Modify, None)
  BY DEF InitialUse, MakeUse, RegisteredFlows, UseFlows, Establish, Initial,
     CapturedPlaces, PermissionsOf, Perms
<1>2. NoUse.in = NoFlow /\ NoUse.scheduling = None /\ PermissionsOf(NoUse) = Perms(None, None)
  BY DEF NoUse, MakeUse, UseFlows, PermissionsOf, Perms
<1>3. \A s \in Tasks : /\ s = Root => use[s] = InitialUse /\ status[s] = "running"
                       /\ s # Root => use[s] = NoUse /\ status[s] = "unborn"
                       /\ step[s] = "idle"
  BY DEF Init
<1>4. forwardings = {}
  BY DEF Init
<1>5. \A s \in Tasks : ~Writes(s)
  BY <1>1, <1>2, <1>3 DEF Writes, Perms, Modify, None
<1>6. \A s \in Tasks : s # Root => ~MayForward(s)
  BY <1>2, <1>3 DEF MayForward, None
<1>7. Flow(Root, "in") # NoFlow /\ Flow(Root, "in").owner = Root
      /\ \A s \in Tasks : Flow(Root, "in") # Flow(s, "out") /\ NoFlow # Flow(s, "out")
  BY DEF Flow, NoFlow
<1>8. InFlowsDiffer /\ InFlowsNotForwarded
  BY <1>1, <1>3, <1>4, <1>6, <1>7 DEF InFlowsDiffer, InFlowsNotForwarded
<1>9. UnseenUntouched
  BY <1>1, <1>2, <1>3, <1>4, <1>7, Zenon DEF UnseenUntouched, Unseen
<1> QED
  BY <1>3, <1>4, <1>5, <1>8, <1>9
  DEF Forwards, ForwardedOnce, FlowsToContinue, AntiOutsNotForwarded

\* Steps that change no flow keep the rule.
LEMMA ForwardsQuiet ==
  ASSUME Control, Forwards, Quiet
  PROVE  Forwards'
<1>0. /\ use \in [Tasks -> UseRecords]
      /\ \A a \in forwardings : a.from.owner \in Tasks
  BY DEF Control, TypeOK, Flows
<1>1. \A s \in Tasks : MayForward(s)' => MayForward(s)
  BY DEF MayForward, Quiet, None
<1>2. \A s \in Tasks : Writes(s)' => Writes(s)
  BY DEF Writes, Quiet, PermissionsOf, Perms, Modify, None
<1>3. \A s \in Tasks : step'[s] = "captured" =>
        /\ step[s] = "captured"
        /\ Child(s)' = Child(s)
        /\ Child(s) \in Tasks
        /\ status[Child(s)] = "captured"
  BY DEF Quiet, Child, Control, InCreateWork, Creating
<1>4. \A o \in Tasks : Unseen(o)' => Unseen(o)
  BY <1>3 DEF Unseen, Quiet
<1>5. ForwardedOnce' /\ InFlowsDiffer' /\ InFlowsNotForwarded'
  BY <1>1 DEF Forwards, ForwardedOnce, InFlowsDiffer, InFlowsNotForwarded, Quiet
<1>6. UnseenUntouched'
  BY <1>4 DEF Forwards, UnseenUntouched, Quiet
<1>7. AntiOutsNotForwarded'
  BY <1>0, <1>2 DEF Forwards, AntiOutsNotForwarded, Quiet
<1>8. FlowsToContinue'
  <2> SUFFICES ASSUME NEW s \in Tasks, step'[s] = "captured"
               PROVE  LET child == Child(s)'
                          case == CaseOf(use'[s], PermissionsOf(use'[child]))
                      IN  /\ case.captured.out.description = "Next" =>
                               use'[child].out = Flow(child, "out")
                          /\ case.captured.in.description = "Forwarding" =>
                               use'[child].in = Flow(child, "in")
    BY DEF FlowsToContinue, CaseOf
  <2>1. step[s] = "captured" /\ Child(s)' = Child(s) /\ Child(s) \in Tasks
        /\ status[Child(s)] = "captured"
    BY <1>3
  <2>2. /\ PermissionsOf(use'[s]) = PermissionsOf(use[s])
        /\ PermissionsOf(use'[Child(s)]) = PermissionsOf(use[Child(s)])
        /\ use'[Child(s)].out = use[Child(s)].out
        /\ use'[Child(s)].in = use[Child(s)].in
    BY <2>1 DEF PermissionsOf, Quiet
  <2>3. CaseOf(use'[s], PermissionsOf(use'[Child(s)]))
          = CaseOf(use[s], PermissionsOf(use[Child(s)]))
    BY <2>2 DEF CaseOf
  <2> QED
    BY <2>1, <2>2, <2>3 DEF Forwards, FlowsToContinue
<1> QED
  BY <1>5, <1>6, <1>7, <1>8 DEF Forwards

\* The release of a handle takes its use out of consideration.
LEMMA ForwardsReleased ==
  ASSUME Control, Forwards, NEW t \in Tasks, ReleaseHandle(t)
  PROVE  Forwards'
<1>1. /\ status[t] = "running" /\ step[t] = "idle"
      /\ use' = [use EXCEPT ![t] = NoUse]
      /\ status' = [status EXCEPT ![t] = "done"]
      /\ UNCHANGED <<step, ops, forwardings>>
  BY ReleaseStep
<1>2. /\ use \in [Tasks -> UseRecords]
      /\ status \in [Tasks -> {"unborn", "captured", "pending", "running", "done"}]
      /\ \A a \in forwardings : a.from.owner \in Tasks
  BY DEF Control, TypeOK, Flows
<1>3. NoUse.in = NoFlow /\ NoUse.scheduling = None /\ PermissionsOf(NoUse) = Perms(None, None)
  BY DEF NoUse, MakeUse, UseFlows, PermissionsOf, Perms
<1>4. \A s \in Tasks \ {t} : use'[s] = use[s] /\ status'[s] = status[s]
  BY <1>1, <1>2
<1>5. use'[t] = NoUse /\ status'[t] = "done"
  BY <1>1, <1>2
<1>6. \A s \in Tasks : MayForward(s)' => s # t /\ MayForward(s)
  BY <1>1, <1>3, <1>4, <1>5 DEF MayForward, None
<1>7. \A s \in Tasks : Writes(s)' => s # t /\ Writes(s)
  BY <1>3, <1>4, <1>5 DEF Writes, Perms, Modify, None
<1>8. \A o \in Tasks : Unseen(o)' => Unseen(o)
  BY <1>1, <1>4, <1>5 DEF Unseen, Child
<1>9. ForwardedOnce' /\ InFlowsDiffer' /\ InFlowsNotForwarded'
  BY <1>1, <1>4, <1>6
  DEF Forwards, ForwardedOnce, InFlowsDiffer, InFlowsNotForwarded
<1>10. UnseenUntouched'
  <2>1. \A s \in Tasks : NoFlow # Flow(s, "out")
    BY DEF NoFlow, Flow
  <2> QED
    BY <1>1, <1>3, <1>4, <1>5, <1>8, <2>1 DEF Forwards, UnseenUntouched
<1>11. AntiOutsNotForwarded'
  BY <1>1, <1>2, <1>4, <1>5, <1>7 DEF Forwards, AntiOutsNotForwarded
<1>12. FlowsToContinue'
  <2> SUFFICES ASSUME NEW s \in Tasks, step[s] = "captured"
               PROVE  use'[s] = use[s] /\ Child(s)' = Child(s) /\ use'[Child(s)] = use[Child(s)]
    BY <1>1 DEF Forwards, FlowsToContinue, CaseOf
  <2>1. Child(s) \in Tasks /\ status[Child(s)] = "captured"
    BY DEF Control, InCreateWork, Creating
  <2> QED
    BY <1>1, <1>4, <2>1 DEF Child
<1> QED
  BY <1>9, <1>10, <1>11, <1>12 DEF Forwards

\* What a capture does with the flows that can be forwarded.
LEMMA CaptureFlows ==
  ASSUME Control, Forwards, NEW t \in Tasks, RegisterCaptured(t)
  PROVE  \E child \in Tasks : \E new, added :
           /\ child = Append(t, ops[t] + 1)
           /\ child # t
           /\ status[t] = "running"
           /\ status[child] = "unborn"
           /\ status' = [status EXCEPT ![child] = "captured"]
           /\ step[t] = "idle"
           /\ step' = [step EXCEPT ![t] = step'[t]]
           /\ ops' = [ops EXCEPT ![t] = ops[t] + 1]
           /\ use' = [use EXCEPT ![child] = new]
           /\ forwardings' = forwardings \cup added
           /\ new.in \in {use[t].in, Flow(child, "in")}
           /\ "write" \in new.scheduling => MayForward(t) /\ step'[t] = "captured"
           /\ PermissionsOf(new) = Perms(Modify, Modify) => new.anti_out = Flow(child, "anti_out")
           /\ \A a \in added :
                /\ a = [from |-> a.from, by |-> child]
                /\ step'[t] = "captured"
                /\ \/ MayForward(t) /\ a.from = use[t].in /\ new.in = Flow(child, "in")
                   \/ Writes(t) /\ a.from = Flow(t, "anti_out")
           /\ step'[t] = "captured" =>
                LET case == CaseOf(use[t], PermissionsOf(new))
                IN  /\ case.captured.out.description = "Next" => new.out = Flow(child, "out")
                    /\ case.captured.in.description = "Forwarding" => new.in = Flow(child, "in")
<1>1. PICK child \in Tasks, request \in PermissionPairs, case \in CaptureCases :
        /\ child = Append(t, ops[t] + 1)
        /\ child # t
        /\ case = CaseOf(use[t], request)
        /\ Matches(case, "Sequential", PermissionsOf(use[t]), request)
        /\ use' = [use EXCEPT ![child] =
             MakeUse(request,
                     RegisteredFlows(case.captured, FlowsOfSource(use[t]), child, CapturedPlaces),
                     FALSE)]
        /\ forwardings' = forwardings \cup
             Forwardings(case.captured, FlowsOfSource(use[t]), child)
        /\ status[t] = "running"
        /\ status[child] = "unborn"
        /\ status' = [status EXCEPT ![child] = "captured"]
        /\ step[t] = "idle"
        /\ step' = [step EXCEPT ![t] =
             IF case.needs_new_continuation_use THEN "captured" ELSE "submit"]
        /\ ops' = [ops EXCEPT ![t] = ops[t] + 1]
  BY CaptureStep
<1> DEFINE known == FlowsOfSource(use[t])
           new == MakeUse(request, RegisteredFlows(case.captured, known, child, CapturedPlaces),
                          FALSE)
           added == Forwardings(case.captured, known, child)
<1>2. PermissionsOf(use[t]) \in PermissionPairs
  BY DEF Control, TypeOK, UseRecords, PermissionsOf, Perms, PermissionPairs
<1>3. ForwardsItsOwn(case) /\ case.needs_new_continuation_use \in BOOLEAN
  BY CaseForwards, CaseShape DEF WellShaped
<1>4. /\ case.captured.in \in {Same("source_in"), Forwarding("source_in")}
      /\ case.captured.in.description = "Forwarding" \/ case.needs_new_continuation_use
           => "write" \in use[t].scheduling
      /\ case.captured.in.description = "Forwarding" => case.needs_new_continuation_use
      /\ ~case.needs_new_continuation_use => "write" \notin request.scheduling
      /\ case.captured.anti_in.description = "Forwarding" =>
           /\ case.captured.anti_in.of = "source_anti_out"
           /\ Writes(t)
           /\ case.needs_new_continuation_use
      /\ request = Perms(Modify, Modify) => case.captured.anti_out.description = "Next"
  <2>1. PermissionsOf(use[t]).scheduling = use[t].scheduling
    BY DEF PermissionsOf, Perms
  <2> QED
    BY <1>1, <1>2, <1>3, <2>1 DEF ForwardsItsOwn, Writes
<1>5. step'[t] = "captured" <=> case.needs_new_continuation_use
  BY <1>1, <1>3 DEF Control, TypeOK
<1>6. /\ new.in = Establish(case.captured.in, known, Flow(child, "in"))
      /\ new.out = Establish(case.captured.out, known, Flow(child, "out"))
      /\ new.anti_out = Establish(case.captured.anti_out, known, Flow(child, "anti_out"))
      /\ new.scheduling = request.scheduling
      /\ new.immediate = request.immediate
  BY DEF MakeUse, RegisteredFlows, UseFlows, CapturedPlaces
<1>7. known["source_in"] = use[t].in /\ known["source_anti_out"] = use[t].anti_out
  BY DEF FlowsOfSource
<1>8. added = {[from |-> f, by |-> child] : f \in
                 {known[r.of] : r \in {q \in {case.captured.in, case.captured.anti_in} :
                                         q.description = "Forwarding"}}}
  BY DEF Forwardings, ForwardedFlows
<1>9. use' = [use EXCEPT ![child] = new] /\ forwardings' = forwardings \cup added
  BY <1>1
<1> HIDE DEF known, new, added
<1>10. PermissionsOf(new) = request
  BY <1>6 DEF PermissionsOf, Perms, PermissionPairs
<1>11. /\ case.captured.in.description = "Forwarding" => new.in = Flow(child, "in")
       /\ case.captured.in.description # "Forwarding" => new.in = use[t].in
       /\ case.captured.out.description = "Next" => new.out = Flow(child, "out")
       /\ case.captured.anti_out.description = "Next" => new.anti_out = Flow(child, "anti_out")
  BY <1>4, <1>6, <1>7 DEF Establish, Same, Forwarding
<1>12. case.captured.in.description = "Forwarding" => case.captured.in.of = "source_in"
  BY <1>4 DEF Same, Forwarding
<1>13. MayForward(t) <=> "write" \in use[t].scheduling
  BY <1>1 DEF MayForward
<1>14. Writes(t) => use[t].anti_out = Flow(t, "anti_out")
  BY DEF Forwards, AntiOutsNotForwarded
<1>15. ASSUME NEW a \in added
       PROVE  /\ a = [from |-> a.from, by |-> child]
              /\ step'[t] = "captured"
              /\ \/ MayForward(t) /\ a.from = use[t].in /\ new.in = Flow(child, "in")
                 \/ Writes(t) /\ a.from = Flow(t, "anti_out")
  <2>1. PICK r \in {case.captured.in, case.captured.anti_in} :
          r.description = "Forwarding" /\ a = [from |-> known[r.of], by |-> child]
    BY <1>8
  <2>2. CASE r = case.captured.in
    BY <2>1, <2>2, <1>4, <1>5, <1>7, <1>11, <1>12, <1>13
  <2>3. CASE r = case.captured.anti_in
    BY <2>1, <2>3, <1>4, <1>5, <1>7, <1>14
  <2> QED
    BY <2>1, <2>2, <2>3
<1>16. "write" \in new.scheduling => MayForward(t) /\ step'[t] = "captured"
  BY <1>4, <1>5, <1>6, <1>13
<1>17. step' = [step EXCEPT ![t] = step'[t]]
  BY <1>1, <1>5 DEF Control, TypeOK
<1>18. CaseOf(use[t], PermissionsOf(new)) = case
  BY <1>1, <1>10
<1>19. PermissionsOf(new) = Perms(Modify, Modify) => new.anti_out = Flow(child, "anti_out")
  BY <1>4, <1>10, <1>11
<1> WITNESS child \in Tasks
<1> WITNESS new, added
<1> QED
  BY <1>1, <1>9, <1>11, <1>15, <1>16, <1>17, <1>18, <1>19

\* A capture keeps the rule.
LEMMA ForwardsCaptured ==
  ASSUME Control, Producers, Forwards, NEW t \in Tasks, RegisterCaptured(t)
  PROVE  Forwards'
<1>0. PICK child \in Tasks : \E new, added :
        /\ child = Append(t, ops[t] + 1)
        /\ child # t
        /\ status[t] = "running"
        /\ status[child] = "unborn"
        /\ status' = [status EXCEPT ![child] = "captured"]
        /\ step[t] = "idle"
        /\ step' = [step EXCEPT ![t] = step'[t]]
        /\ ops' = [ops EXCEPT ![t] = ops[t] + 1]
        /\ use' = [use EXCEPT ![child] = new]
        /\ forwardings' = forwardings \cup added
        /\ new.in \in {use[t].in, Flow(child, "in")}
        /\ "write" \in new.scheduling => MayForward(t) /\ step'[t] = "captured"
        /\ PermissionsOf(new) = Perms(Modify, Modify) => new.anti_out = Flow(child, "anti_out")
        /\ \A a \in added :
             /\ a = [from |-> a.from, by |-> child]
             /\ step'[t] = "captured"
             /\ \/ MayForward(t) /\ a.from = use[t].in /\ new.in = Flow(child, "in")
                \/ Writes(t) /\ a.from = Flow(t, "anti_out")
        /\ step'[t] = "captured" =>
             LET case == CaseOf(use[t], PermissionsOf(new))
             IN  /\ case.captured.out.description = "Next" => new.out = Flow(child, "out")
                 /\ case.captured.in.description = "Forwarding" => new.in = Flow(child, "in")
  BY CaptureFlows
<1>1. PICK new, added :
        /\ child = Append(t, ops[t] + 1)
        /\ child # t
        /\ status[t] = "running"
        /\ status[child] = "unborn"
        /\ status' = [status EXCEPT ![child] = "captured"]
        /\ step[t] = "idle"
        /\ step' = [step EXCEPT ![t] = step'[t]]
        /\ ops' = [ops EXCEPT ![t] = ops[t] + 1]
        /\ use' = [use EXCEPT ![child] = new]
        /\ forwardings' = forwardings \cup added
        /\ new.in \in {use[t].in, Flow(child, "in")}
        /\ "write" \in new.scheduling => MayForward(t) /\ step'[t] = "captured"
        /\ PermissionsOf(new) = Perms(Modify, Modify) => new.anti_out = Flow(child, "anti_out")
        /\ \A a \in added :
             /\ a = [from |-> a.from, by |-> child]
             /\ step'[t] = "captured"
             /\ \/ MayForward(t) /\ a.from = use[t].in /\ new.in = Flow(child, "in")
                \/ Writes(t) /\ a.from = Flow(t, "anti_out")
        /\ step'[t] = "captured" =>
             LET case == CaseOf(use[t], PermissionsOf(new))
             IN  /\ case.captured.out.description = "Next" => new.out = Flow(child, "out")
                 /\ case.captured.in.description = "Forwarding" => new.in = Flow(child, "in")
  BY <1>0
<1>2. /\ use \in [Tasks -> UseRecords]
      /\ status \in [Tasks -> {"unborn", "captured", "pending", "running", "done"}]
      /\ step \in [Tasks -> {"idle", "captured", "continued", "submit", "referenced"}]
      /\ ops \in [Tasks -> 0..MaxOps]
      /\ \A a \in forwardings : a.from.owner \in Tasks
  BY DEF Control, TypeOK, Flows
<1>3. /\ \A s \in Tasks \ {child} : use'[s] = use[s] /\ status'[s] = status[s]
      /\ use'[child] = new
      /\ \A s \in Tasks \ {t} : step'[s] = step[s]
  BY <1>1, <1>2
<1>4. \A s \in Tasks : step[s] = "captured" =>
        /\ s # t
        /\ Child(s)' = Child(s)
        /\ Child(s) \in Tasks \ {child, t}
        /\ status[Child(s)] = "captured"
        /\ status[s] = "running"
  <2> SUFFICES ASSUME NEW s \in Tasks, step[s] = "captured"
               PROVE  /\ s # t
                      /\ Child(s)' = Child(s)
                      /\ Child(s) \in Tasks \ {child, t}
                      /\ status[Child(s)] = "captured"
                      /\ status[s] = "running"
    OBVIOUS
  <2>1. Child(s) \in Tasks /\ status[Child(s)] = "captured" /\ status[s] = "running"
    BY DEF Control, InCreateWork, Creating
  <2>2. s # t /\ ops'[s] = ops[s]
    BY <1>1, <1>2
  <2> QED
    BY <1>1, <2>1, <2>2 DEF Child
<1>5. Child(t)' = child
  BY <1>1, <1>2 DEF Child
<1>6. /\ \A f : f.place \in DataPlaces => f.place \notin AntiPlaces
      /\ Flow(t, "anti_out").place \in AntiPlaces
      /\ Flow(t, "anti_out").place = "anti_out"
      /\ Flow(t, "anti_out").owner = t
      /\ Flow(child, "in").place \in DataPlaces
      /\ Flow(child, "in").owner = child
      /\ Flow(child, "in") # NoFlow
      /\ Flow(child, "in") # Flow(child, "out")
      /\ Flow(child, "out").owner = child
      /\ NoFlow # Flow(child, "out")
      /\ NoFlow.place \notin AntiPlaces
  BY DEF Flow, NoFlow, DataPlaces, AntiPlaces
<1>7. \A s \in Tasks : use[s].in = NoFlow \/ use[s].in.place \in DataPlaces
  BY DEF Producers, KindsKept, IsDataFlow
<1>8. /\ \A s \in Tasks \ {child} : use[s].in = NoFlow \/ use[s].in.owner # child
      /\ \A a \in forwardings : a.from.owner # child
  BY <1>1 DEF Forwards, UnseenUntouched, Unseen
<1>9. /\ MayForward(t) => use[t].in # NoFlow /\ \A a \in forwardings : a.from # use[t].in
      /\ Writes(t) => \A a \in forwardings : a.from # Flow(t, "anti_out")
  BY <1>1, <1>6 DEF Forwards, InFlowsNotForwarded, AntiOutsNotForwarded
<1>10. ForwardedOnce'
  <2>1. \A a \in forwardings, b \in added : a.from # b.from
    BY <1>1, <1>9
  <2>2. \A a, b \in added : a.from = b.from => a = b
    BY <1>1, Zenon
  <2> QED
    BY <1>1, <2>1, <2>2 DEF ForwardedOnce, Forwards
<1>11. /\ \A s \in Tasks \ {child} : MayForward(s)' => MayForward(s) /\ step'[s] # "captured"
       /\ MayForward(child)' => MayForward(t) /\ step'[t] = "captured"
  BY <1>1, <1>3 DEF MayForward
<1>12. InFlowsDiffer'
  <2>1. \A s, u \in Tasks \ {child} : s # u /\ MayForward(s)' /\ MayForward(u)' =>
          use'[s].in # use'[u].in
    BY <1>3, <1>11 DEF Forwards, InFlowsDiffer
  <2>2. \A u \in Tasks \ {child} : MayForward(child)' /\ MayForward(u)' => new.in # use[u].in
    <3> SUFFICES ASSUME NEW u \in Tasks \ {child}, MayForward(child)', MayForward(u)'
                 PROVE  new.in # use[u].in
      OBVIOUS
    <3>1. u # t /\ MayForward(u) /\ MayForward(t)
      BY <1>11
    <3>2. use[u].in # use[t].in
      BY <3>1 DEF Forwards, InFlowsDiffer
    <3>3. use[u].in # Flow(child, "in")
      BY <1>6, <1>8
    <3> QED
      BY <1>1, <3>2, <3>3
  <2> QED
    BY <1>3, <2>1, <2>2 DEF InFlowsDiffer
<1>13. InFlowsNotForwarded'
  <2> SUFFICES ASSUME NEW s \in Tasks, MayForward(s)'
               PROVE  /\ use'[s].in # NoFlow
                      /\ \A a \in forwardings \cup added : a.from # use'[s].in
    BY <1>1 DEF InFlowsNotForwarded
  <2>1. CASE s # child
    <3>1. MayForward(s) /\ step'[s] # "captured" /\ use'[s].in = use[s].in
      BY <1>3, <1>11, <2>1
    <3>2. use[s].in # NoFlow /\ \A a \in forwardings : a.from # use[s].in
      BY <3>1 DEF Forwards, InFlowsNotForwarded
    <3>3. ASSUME NEW a \in added PROVE a.from # use[s].in
      <4>1. s # t
        BY <1>1, <3>1
      <4>2. MayForward(t) => use[t].in # use[s].in
        BY <3>1, <4>1 DEF Forwards, InFlowsDiffer
      <4>3. Flow(t, "anti_out") # use[s].in
        BY <1>6, <1>7, <3>2
      <4> QED
        BY <1>1, <4>2, <4>3
    <3> QED
      BY <3>1, <3>2, <3>3
  <2>2. CASE s = child
    <3>1. MayForward(t)
      BY <1>11, <2>2
    <3>2. use[t].in # Flow(child, "in") /\ use[t].in # Flow(t, "anti_out")
      BY <1>1, <1>6, <1>7, <1>8, <1>9, <3>1
    <3>3. new.in # NoFlow
      BY <1>1, <1>6, <1>9, <3>1
    <3>4. ASSUME NEW a \in forwardings PROVE a.from # new.in
      <4>1. CASE new.in = use[t].in
        BY <1>9, <3>1, <4>1
      <4>2. CASE new.in = Flow(child, "in")
        BY <1>6, <1>8, <4>2
      <4> QED
        BY <1>1, <4>1, <4>2
    <3>5. \A a \in added : a.from # new.in
      BY <1>1, <1>6, <3>2
    <3> QED
      BY <1>3, <2>2, <3>3, <3>4, <3>5
  <2> QED
    BY <2>1, <2>2
<1>14. FlowsToContinue'
  <2> SUFFICES ASSUME NEW s \in Tasks, step'[s] = "captured"
               PROVE  LET c == Child(s)'
                          case == CaseOf(use'[s], PermissionsOf(use'[c]))
                      IN  /\ case.captured.out.description = "Next" =>
                               use'[c].out = Flow(c, "out")
                          /\ case.captured.in.description = "Forwarding" =>
                               use'[c].in = Flow(c, "in")
    BY DEF FlowsToContinue, CaseOf
  <2>1. CASE s = t
    BY <1>1, <1>3, <1>5, <2>1
  <2>2. CASE s # t
    <3>1. step[s] = "captured" /\ Child(s)' = Child(s) /\ Child(s) # child /\ s # child
          /\ Child(s) \in Tasks
      BY <1>1, <1>3, <1>4, <2>2
    <3>2. use'[s] = use[s] /\ use'[Child(s)] = use[Child(s)]
      BY <1>3, <3>1
    <3> QED
      BY <3>1, <3>2 DEF Forwards, FlowsToContinue
  <2> QED
    BY <2>1, <2>2
<1>15. \A o \in Tasks : Unseen(o)' => Unseen(o) /\ o # t
  <2> SUFFICES ASSUME NEW o \in Tasks, Unseen(o)'
               PROVE  Unseen(o) /\ o # t
    OBVIOUS
  <2>1. Unseen(child)
    BY <1>1 DEF Unseen
  <2>2. CASE status'[o] = "unborn"
    <3>1. status[o] = "unborn"
      BY <1>1, <1>3, <2>2
    <3> QED
      BY <1>1, <3>1 DEF Unseen
  <2>3. CASE status'[o] # "unborn"
    <3>1. PICK s \in Tasks : step'[s] = "captured" /\ o = Child(s)'
      BY <2>3 DEF Unseen
    <3>2. CASE s = t
      BY <1>1, <1>5, <2>1, <3>1, <3>2
    <3>3. CASE s # t
      <4>1. step[s] = "captured" /\ o = Child(s) /\ o # t
        BY <1>3, <1>4, <3>1, <3>3
      <4> QED
        BY <4>1 DEF Unseen
    <3> QED
      BY <3>2, <3>3
  <2> QED
    BY <2>2, <2>3
<1>16. UnseenUntouched'
  <2>1. ASSUME NEW o \in Tasks, Unseen(o)'
        PROVE  /\ \A s \in Tasks \ {o} : use'[s].in = NoFlow \/ use'[s].in.owner # o
               /\ \A a \in forwardings \cup added : a.from.owner # o
    <3>1. Unseen(o) /\ o # t
      BY <1>15, <2>1
    <3>2. /\ \A s \in Tasks \ {o} : use[s].in = NoFlow \/ use[s].in.owner # o
          /\ \A a \in forwardings : a.from.owner # o
      BY <3>1 DEF Forwards, UnseenUntouched
    <3>3. o # child => new.in = NoFlow \/ new.in.owner # o
      BY <1>1, <1>6, <3>1, <3>2
    <3>4. \A a \in added : a.from.owner # o
      BY <1>1, <1>6, <1>9, <3>1, <3>2
    <3> QED
      BY <1>3, <3>2, <3>3, <3>4
  <2>2. \A s \in Tasks : use'[s].in # Flow(s, "out")
    <3>1. new.in # Flow(child, "out")
      BY <1>1, <1>6, <1>8
    <3> QED
      BY <1>3, <3>1 DEF Forwards, UnseenUntouched
  <2> QED
    BY <1>1, <2>1, <2>2 DEF UnseenUntouched
<1>17. AntiOutsNotForwarded'
  <2>1. \A s \in Tasks : Writes(s)' => use'[s].anti_out = Flow(s, "anti_out")
    <3>1. Writes(child)' => use'[child].anti_out = Flow(child, "anti_out")
      BY <1>1, <1>3 DEF Writes
    <3>2. ASSUME NEW s \in Tasks \ {child}, Writes(s)'
          PROVE  use'[s].anti_out = Flow(s, "anti_out")
      <4>1. use'[s] = use[s]
        BY <1>3
      <4>2. Writes(s)
        BY <3>2, <4>1 DEF Writes
      <4> QED
        BY <4>1, <4>2 DEF Forwards, AntiOutsNotForwarded
    <3> QED
      BY <3>1, <3>2
  <2>2. ASSUME NEW a \in forwardings, a.from.place \in AntiPlaces
        PROVE  /\ a.from.place = "anti_out"
               /\ status'[a.from.owner] # "unborn"
               /\ step'[a.from.owner] = "captured" \/ ~Writes(a.from.owner)'
    <3>1. /\ a.from.place = "anti_out"
          /\ status[a.from.owner] # "unborn"
          /\ step[a.from.owner] = "captured" \/ ~Writes(a.from.owner)
          /\ a.from.owner \in Tasks
      BY <1>2, <2>2 DEF Forwards, AntiOutsNotForwarded
    <3> QED
      BY <1>1, <1>3, <3>1 DEF Writes
  <2>3. ASSUME NEW a \in added, a.from.place \in AntiPlaces
        PROVE  a.from = Flow(t, "anti_out") /\ step'[t] = "captured"
    BY <1>1, <1>6, <1>7, <2>3
  <2> QED
    BY <1>1, <1>3, <1>6, <2>1, <2>2, <2>3 DEF AntiOutsNotForwarded
<1> QED
  BY <1>10, <1>12, <1>13, <1>14, <1>16, <1>17 DEF Forwards

\* What a continuation does with the flows that can be forwarded.
LEMMA ContinuationFlows ==
  ASSUME Control, Producers, Forwards, NEW t \in Tasks, RegisterContinuation(t)
  PROVE  \E child \in Tasks : \E new :
           /\ child = Child(t)
           /\ child # t
           /\ status[child] = "captured"
           /\ step[t] = "captured"
           /\ step' = [step EXCEPT ![t] = "continued"]
           /\ use' = [use EXCEPT ![t] = new]
           /\ UNCHANGED <<status, ops, forwardings>>
           /\ PermissionsOf(new) # Perms(Modify, Modify)
           /\ \/ new.in = Flow(child, "out")
              \/ new.in = Flow(child, "in") /\ "write" \notin use[child].scheduling
<1>1. PICK child \in Tasks, case \in CaptureCases :
        /\ child = Child(t)
        /\ child # t
        /\ status[child] = "captured"
        /\ case = CaseOf(use[t], PermissionsOf(use[child]))
        /\ Matches(case, "Sequential", PermissionsOf(use[t]), PermissionsOf(use[child]))
        /\ case.needs_new_continuation_use
        /\ use' = [use EXCEPT ![t] =
             MakeUse(case.continuation,
                     RegisteredFlows(case.continuing, FlowsOfCapture(use[t], use[child]),
                                     child, ContinuingPlaces),
                     FALSE)]
        /\ step[t] = "captured"
        /\ step' = [step EXCEPT ![t] = "continued"]
        /\ UNCHANGED <<status, ops, forwardings>>
  BY ContinuationStep
<1> DEFINE known == FlowsOfCapture(use[t], use[child])
           new == MakeUse(case.continuation,
                          RegisteredFlows(case.continuing, known, child, ContinuingPlaces), FALSE)
<1>2. PermissionsOf(use[t]) \in PermissionPairs /\ PermissionsOf(use[child]) \in PermissionPairs
  BY DEF Control, TypeOK, UseRecords, PermissionsOf, Perms, PermissionPairs
<1>3. ForwardsItsOwn(case) /\ RespectsRights(case)
  BY CaseForwards, CaseRights
<1>4. \/ case.continuing.in = Same("captured_out") /\ case.captured.out.description = "Next"
      \/ /\ case.continuing.in = Same("captured_in")
         /\ case.captured.in.description = "Forwarding"
         /\ "write" \notin PermissionsOf(use[child]).scheduling
  BY <1>1, <1>2, <1>3 DEF ForwardsItsOwn
<1>5. "write" \notin case.continuation.immediate
  BY <1>1, <1>2, <1>3 DEF RespectsRights
<1>6. /\ new.in = Establish(case.continuing.in, known, Flow(child, "cont_in"))
      /\ new.immediate = case.continuation.immediate
  BY DEF MakeUse, RegisteredFlows, UseFlows, ContinuingPlaces
<1>7. known["captured_in"] = use[child].in /\ known["captured_out"] = use[child].out
  BY DEF FlowsOfCapture
<1>8. use' = [use EXCEPT ![t] = new]
  BY <1>1
<1> HIDE DEF known, new
<1>9. PermissionsOf(new) # Perms(Modify, Modify)
  BY <1>5, <1>6 DEF PermissionsOf, Perms, Modify
<1>10. /\ case.captured.out.description = "Next" => use[child].out = Flow(child, "out")
       /\ case.captured.in.description = "Forwarding" => use[child].in = Flow(child, "in")
  BY <1>1 DEF Forwards, FlowsToContinue
<1>11. \/ new.in = Flow(child, "out")
       \/ new.in = Flow(child, "in") /\ "write" \notin use[child].scheduling
  <2>1. CASE case.continuing.in = Same("captured_out") /\ case.captured.out.description = "Next"
    BY <1>6, <1>7, <1>10, <2>1 DEF Establish, Same
  <2>2. CASE /\ case.continuing.in = Same("captured_in")
             /\ case.captured.in.description = "Forwarding"
             /\ "write" \notin PermissionsOf(use[child]).scheduling
    BY <1>6, <1>7, <1>10, <2>2 DEF Establish, Same, PermissionsOf, Perms
  <2> QED
    BY <1>4, <2>1, <2>2
<1> WITNESS child \in Tasks
<1> WITNESS new
<1> QED
  BY <1>1, <1>8, <1>9, <1>11

\* A continuation goes on from a flow that no other use has and that was not
\* forwarded.
LEMMA ForwardsContinuing ==
  ASSUME Control, Producers, Forwards, NEW t \in Tasks, RegisterContinuation(t)
  PROVE  Forwards'
<1>0. PICK child \in Tasks : \E new :
        /\ child = Child(t)
        /\ child # t
        /\ status[child] = "captured"
        /\ step[t] = "captured"
        /\ step' = [step EXCEPT ![t] = "continued"]
        /\ use' = [use EXCEPT ![t] = new]
        /\ UNCHANGED <<status, ops, forwardings>>
        /\ PermissionsOf(new) # Perms(Modify, Modify)
        /\ \/ new.in = Flow(child, "out")
           \/ new.in = Flow(child, "in") /\ "write" \notin use[child].scheduling
  BY ContinuationFlows
<1>1. PICK new :
        /\ child = Child(t)
        /\ child # t
        /\ status[child] = "captured"
        /\ step[t] = "captured"
        /\ step' = [step EXCEPT ![t] = "continued"]
        /\ use' = [use EXCEPT ![t] = new]
        /\ UNCHANGED <<status, ops, forwardings>>
        /\ PermissionsOf(new) # Perms(Modify, Modify)
        /\ \/ new.in = Flow(child, "out")
           \/ new.in = Flow(child, "in") /\ "write" \notin use[child].scheduling
  BY <1>0
<1>2. /\ use \in [Tasks -> UseRecords]
      /\ step \in [Tasks -> {"idle", "captured", "continued", "submit", "referenced"}]
      /\ \A a \in forwardings : a.from.owner \in Tasks
  BY DEF Control, TypeOK, Flows
<1>3. /\ \A s \in Tasks \ {t} : use'[s] = use[s] /\ step'[s] = step[s]
      /\ use'[t] = new /\ step'[t] = "continued"
  BY <1>1, <1>2
<1>4. new.in # NoFlow /\ new.in.owner = child /\ \A s \in Tasks \ {child} : new.in # Flow(s, "out")
  BY <1>1 DEF Flow, NoFlow
<1>5. /\ \A s \in Tasks \ {child} : use[s].in = NoFlow \/ use[s].in.owner # child
      /\ \A a \in forwardings : a.from.owner # child
  BY <1>1 DEF Forwards, UnseenUntouched, Unseen
<1>6. \A s \in Tasks \ {t} : step[s] = "captured" =>
        Child(s) \in Tasks \ {child, t} /\ Child(s)' = Child(s)
  <2> SUFFICES ASSUME NEW s \in Tasks \ {t}, step[s] = "captured"
               PROVE  Child(s) \in Tasks \ {child, t} /\ Child(s)' = Child(s)
    OBVIOUS
  <2>1. Child(s) \in Tasks /\ status[Child(s)] = "captured" /\ status[t] = "running"
    BY <1>1 DEF Control, InCreateWork, Creating
  <2>2. Child(s) # child
    BY <1>1, ParentsDiffer DEF Creating
  <2> QED
    BY <1>1, <2>1, <2>2 DEF Child
<1>7. ForwardedOnce'
  BY <1>1 DEF Forwards, ForwardedOnce
<1>8. \A s \in Tasks \ {t} : MayForward(s)' => MayForward(s)
  BY <1>3 DEF MayForward
<1>9. \A s \in Tasks \ {t} : MayForward(s) => use[s].in # new.in
  <2> SUFFICES ASSUME NEW s \in Tasks \ {t}, MayForward(s)
               PROVE  use[s].in # new.in
    OBVIOUS
  <2>1. CASE s = child
    <3>1. "write" \in use[child].scheduling
      BY <2>1 DEF MayForward
    <3>2. new.in = Flow(child, "out")
      BY <1>1, <3>1
    <3> QED
      BY <2>1, <3>2 DEF Forwards, UnseenUntouched
  <2>2. CASE s # child
    BY <1>4, <1>5, <2>2
  <2> QED
    BY <2>1, <2>2
<1>10. InFlowsDiffer'
  <2>1. \A s, u \in Tasks \ {t} : s # u /\ MayForward(s)' /\ MayForward(u)' =>
          use'[s].in # use'[u].in
    BY <1>3, <1>8 DEF Forwards, InFlowsDiffer
  <2> QED
    BY <1>3, <1>8, <1>9, <2>1 DEF InFlowsDiffer
<1>11. InFlowsNotForwarded'
  <2>1. new.in # NoFlow /\ \A a \in forwardings : a.from # new.in
    BY <1>4, <1>5
  <2> QED
    BY <1>1, <1>3, <1>8, <2>1 DEF Forwards, InFlowsNotForwarded
<1>12. FlowsToContinue'
  <2> SUFFICES ASSUME NEW s \in Tasks, step'[s] = "captured"
               PROVE  LET c == Child(s)'
                          case == CaseOf(use'[s], PermissionsOf(use'[c]))
                      IN  /\ case.captured.out.description = "Next" =>
                               use'[c].out = Flow(c, "out")
                          /\ case.captured.in.description = "Forwarding" =>
                               use'[c].in = Flow(c, "in")
    BY DEF FlowsToContinue, CaseOf
  <2>1. s # t /\ step[s] = "captured"
    BY <1>3
  <2>2. Child(s)' = Child(s) /\ Child(s) \in Tasks \ {t}
    BY <1>6, <2>1
  <2>3. use'[s] = use[s] /\ use'[Child(s)] = use[Child(s)]
    BY <1>3, <2>1, <2>2
  <2> QED
    BY <2>1, <2>2, <2>3 DEF Forwards, FlowsToContinue
<1>13. \A o \in Tasks : Unseen(o)' => Unseen(o) /\ o # child
  <2> SUFFICES ASSUME NEW o \in Tasks, Unseen(o)'
               PROVE  Unseen(o) /\ o # child
    OBVIOUS
  <2>1. CASE status[o] = "unborn"
    BY <1>1, <2>1 DEF Unseen
  <2>2. CASE status[o] # "unborn"
    <3>1. PICK s \in Tasks : step'[s] = "captured" /\ o = Child(s)'
      BY <1>1, <2>2 DEF Unseen
    <3>2. s # t /\ step[s] = "captured"
      BY <1>3, <3>1
    <3>3. o = Child(s) /\ o # child
      BY <1>6, <3>1, <3>2
    <3> QED
      BY <3>2, <3>3 DEF Unseen
  <2> QED
    BY <2>1, <2>2
<1>14. UnseenUntouched'
  <2>1. ASSUME NEW o \in Tasks, Unseen(o)'
        PROVE  /\ \A s \in Tasks \ {o} : use'[s].in = NoFlow \/ use'[s].in.owner # o
               /\ \A a \in forwardings : a.from.owner # o
    <3>1. Unseen(o) /\ o # child
      BY <1>13, <2>1
    <3> QED
      BY <1>3, <1>4, <3>1 DEF Forwards, UnseenUntouched
  <2>2. \A s \in Tasks : use'[s].in # Flow(s, "out")
    BY <1>1, <1>3, <1>4 DEF Forwards, UnseenUntouched
  <2> QED
    BY <1>1, <2>1, <2>2 DEF UnseenUntouched
<1>15. AntiOutsNotForwarded'
  <2>1. ~Writes(t)' /\ \A s \in Tasks \ {t} : Writes(s)' => Writes(s)
    BY <1>1, <1>3 DEF Writes
  <2>2. \A s \in Tasks : Writes(s)' => use'[s].anti_out = Flow(s, "anti_out")
    BY <1>3, <2>1 DEF Forwards, AntiOutsNotForwarded
  <2>3. ASSUME NEW a \in forwardings, a.from.place \in AntiPlaces
        PROVE  /\ a.from.place = "anti_out"
               /\ status[a.from.owner] # "unborn"
               /\ step'[a.from.owner] = "captured" \/ ~Writes(a.from.owner)'
    <3>1. /\ a.from.place = "anti_out"
          /\ status[a.from.owner] # "unborn"
          /\ step[a.from.owner] = "captured" \/ ~Writes(a.from.owner)
          /\ a.from.owner \in Tasks
      BY <1>2, <2>3 DEF Forwards, AntiOutsNotForwarded
    <3> QED
      BY <1>3, <2>1, <3>1
  <2> QED
    BY <1>1, <2>2, <2>3 DEF AntiOutsNotForwarded
<1> QED
  BY <1>7, <1>10, <1>11, <1>12, <1>14, <1>15 DEF Forwards

\* Every step keeps the rule.
LEMMA ForwardsPreserved == Control /\ Producers /\ Forwards /\ [Next]_vars => Forwards'
<1> SUFFICES ASSUME Control, Producers, Forwards, [Next]_vars PROVE Forwards'
  OBVIOUS
<1> QED
  BY StepKinds, ForwardsQuiet, ForwardsCaptured, ForwardsContinuing, ForwardsReleased

\* A backend never has to forward a flow or an anti-flow twice
\* (make_forwarding_flow, make_anti_forwarding): whatever the program, a capture
\* that forwards what its source has replaces the source, before anything else
\* is captured from it, by a continuation that cannot forward the same again.
THEOREM NeverForwardedTwice == Spec => []ForwardedOnce
<1>1. Forwards => ForwardedOnce
  BY DEF Forwards
<1> QED
  BY ControlHolds, ProducersInit, ProducersPreserved, ForwardsInit, ForwardsPreserved,
     <1>1, PTL DEF Spec
=============================================================================
