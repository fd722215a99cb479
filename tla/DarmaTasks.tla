----------------------------- MODULE DarmaTasks -----------------------------
(***************************************************************************)
(* Tasks that share one variable through an AccessHandle.  The top level   *)
(* has the use of initial_access; a running task may touch the data, give  *)
(* up its right to schedule (obtain_reference), or create a child task,    *)
(* which captures the handle.  The program is any such program: what a     *)
(* task does next is chosen nondeterministically.                          *)
(*                                                                         *)
(* Creating a task takes several calls to the backend (register the        *)
(* captured use, register the continuation, release the source, register   *)
(* the task), each a step of its own here, between which other tasks run.  *)
(* The backend starts a pending task when its use is satisfied.            *)
(*                                                                         *)
(* A task is named by its place in the program: Append(t, n) is the task   *)
(* that operation n of t creates, << >> the top level.                     *)
(*                                                                         *)
(* Definitions whose name ends in "Slip" are not used: see                 *)
(* CaptureSemantics.                                                       *)
(***************************************************************************)
EXTENDS Uses, Sequences, FiniteSets

CONSTANTS
  MaxDepth,    \* how deep tasks nest
  MaxOps,      \* how many operations a task performs
  MaxTasks,    \* how many tasks there are, the top level included
  MaxAccesses, \* how many accesses to the data happen; two can conflict
  Program,     \* the tasks the program may create, and what they ask for
  Cases,       \* the capture cases the program uses
  Backend      \* by what the backend knows anti-dependencies

ASSUME BoundsAssumption ==
  /\ MaxDepth \in Nat
  /\ MaxOps \in Nat
  /\ MaxTasks \in Nat
  /\ MaxAccesses \in Nat

ASSUME BackendAssumption == Backend \in BackendKinds

SequencesUpTo(n) == UNION {[1..k -> 1..MaxOps] : k \in 0..n}

Tasks == SequencesUpTo(MaxDepth)
Root  == << >>

\* A program creates a task, which captures the handle with a request.
ASSUME ProgramAssumption ==
  /\ Program \subseteq [task : Tasks, request : PermissionPairs]
  /\ Cases \subseteq CaptureCases

Flows == [owner : Tasks, place : Places]

VARIABLES
  status,       \* "unborn", "captured", "pending", "running" or "done"
  step,         \* where a running task is within create_work
  ops,          \* the operations a task has performed
  use,          \* the use in the holder of a task's handle
  replaced,     \* the use being replaced in that holder, until released
  could_be_alias,  \* of that holder
  alias,        \* the backend's equivalent flows
  forwardings,  \* history: which flow each forwarding flow was made from
  granted,      \* history: the permissions a task's capture asked for
  accesses      \* history: what tasks did to the data

vars == <<status, step, ops, use, replaced, could_be_alias, alias,
          forwardings, granted, accesses>>

(***************************************************************************)
(* The state of the uses                                                   *)
(***************************************************************************)
Born == {t \in Tasks : status[t] # "unborn"}

\* The child that a task is creating, or created last.
Child(t) == Append(t, ops[t])

IsUse(u) == u # NoUse

LiveUsesBut(t) ==
  {u \in {use[s] : s \in Tasks \ {t}} \cup {replaced[s] : s \in Tasks} : IsUse(u)}

\* What a source with these scheduling permissions can be asked for.
RequestsOf == [scheduling \in Permissions |-> FrontEndRequests(scheduling)]

\* The case that the capture of a source use with a request selects.
CaseOf(source, request) ==
  CHOOSE case \in CasesFor("Sequential", PermissionsOf(source), request) : TRUE

\* The flows in terms of which the use of a new child is registered.
Forwardings(relationships, known, by) ==
  {[from |-> f, by |-> by] : f \in ForwardedFlows(relationships, known)}

(***************************************************************************)
(* initial_access                                                          *)
(***************************************************************************)
InitialUse ==
  MakeUse(Perms(Modify, None),
          RegisteredFlows(UseFlows(Initial, Null, Insignificant, Initial),
                          [nothing |-> NoFlow], Root, CapturedPlaces),
          FALSE)

Init ==
  /\ status = [t \in Tasks |-> IF t = Root THEN "running" ELSE "unborn"]
  /\ step = [t \in Tasks |-> "idle"]
  /\ ops = [t \in Tasks |-> 0]
  /\ use = [t \in Tasks |-> IF t = Root THEN InitialUse ELSE NoUse]
  /\ replaced = [t \in Tasks |-> NoUse]
  /\ could_be_alias = [t \in Tasks |-> t = Root]
  /\ alias = << >>
  /\ forwardings = {}
  /\ granted = [t \in Tasks |-> IF t = Root THEN Perms(Modify, None)
                                           ELSE Perms(None, None)]
  /\ accesses = {}

(***************************************************************************)
(* create_work                                                             *)
(***************************************************************************)
\* A running task between two operations, with an operation to spend.
MayOperate(t) ==
  /\ status[t] = "running"
  /\ step[t] = "idle"
  /\ ops[t] < MaxOps
  /\ IsUse(use[t])

\* do_capture and the first half of make_captured_use_holder: the handle
\* must be schedulable, a case must be found, and the captured use is made
\* and registered.
RegisterCaptured(t) ==
  /\ MayOperate(t)
  /\ Len(t) < MaxDepth
  /\ Cardinality(Born) < MaxTasks
  /\ use[t].scheduling # None
  /\ \E request \in RequestsOf[use[t].scheduling] :
       LET source == use[t]
           child == Append(t, ops[t] + 1)
           case == CaseOf(source, request)
           flows == RegisteredFlows(case.captured, FlowsOfSource(source),
                                    child, CapturedPlaces)
       IN  /\ [task |-> child, request |-> request] \in Program
           /\ CasesFor("Sequential", PermissionsOf(source), request) # {}
           /\ case \in Cases
           /\ use' = [use EXCEPT ![child] = MakeUse(request, flows, FALSE)]
           /\ could_be_alias' = [could_be_alias EXCEPT ![child] = case.could_be_alias]
           /\ forwardings' = forwardings \cup
                Forwardings(case.captured, FlowsOfSource(source), child)
           /\ granted' = [granted EXCEPT ![child] = request]
           /\ status' = [status EXCEPT ![child] = "captured"]
           /\ step' = [step EXCEPT ![t] =
                IF case.needs_new_continuation_use THEN "captured" ELSE "submit"]
  /\ ops' = [ops EXCEPT ![t] = @ + 1]
  /\ UNCHANGED <<replaced, alias, accesses>>

\* replace_use: the new use is registered, and takes the place of the old
\* one, before the old one is released.
Replace(t, new) ==
  /\ use' = [use EXCEPT ![t] = new]
  /\ replaced' = [replaced EXCEPT ![t] = use[t]]

\* The second half of make_captured_use_holder, for a case that makes a new
\* continuation: no alias on the source, whose flows live on.
RegisterContinuation(t) ==
  /\ step[t] = "captured"
  /\ LET source == use[t]
         captured == use[Child(t)]
         case == CaseOf(source, PermissionsOf(captured))
         flows == RegisteredFlows(case.continuing, FlowsOfCapture(source, captured),
                                  Child(t), ContinuingPlaces)
     IN  Replace(t, MakeUse(case.continuation, flows, FALSE))
  /\ could_be_alias' = [could_be_alias EXCEPT ![t] = FALSE]
  /\ step' = [step EXCEPT ![t] = "continued"]
  /\ UNCHANGED <<status, ops, alias, forwardings, granted, accesses>>

\* The data pointer is not handed on to the continuation.
LostDataSlip(t) ==
  /\ step[t] = "continued"
  /\ replaced' = [replaced EXCEPT ![t] = NoUse]
  /\ could_be_alias' = [could_be_alias EXCEPT ![t] = TRUE]
  /\ step' = [step EXCEPT ![t] = "submit"]
  /\ UNCHANGED <<status, ops, use, alias, forwardings, granted, accesses>>

\* The continuation is never marked as one that could be an alias.
NeverAliasSlip(t) ==
  /\ step[t] = "continued"
  /\ replaced' = [replaced EXCEPT ![t] = NoUse]
  /\ use' = [use EXCEPT ![t].data = use[t].immediate # None /\ replaced[t].data]
  /\ step' = [step EXCEPT ![t] = "submit"]
  /\ UNCHANGED <<status, ops, could_be_alias, alias, forwardings, granted, accesses>>

\* ... after which the source is released, its data goes to a continuation
\* that may still touch it, and the continuation may become an alias.
ReleaseSource(t) ==
  /\ step[t] = "continued"
  /\ replaced' = [replaced EXCEPT ![t] = NoUse]
  /\ use' = [use EXCEPT ![t].data = use[t].immediate # None /\ replaced[t].data]
  /\ could_be_alias' = [could_be_alias EXCEPT ![t] = TRUE]
  /\ step' = [step EXCEPT ![t] = "submit"]
  /\ UNCHANGED <<status, ops, alias, forwardings, granted, accesses>>

\* register_task, once the task has captured its handles.
SubmitTask(t) ==
  /\ step[t] = "submit"
  /\ status' = [status EXCEPT ![Child(t)] = "pending"]
  /\ step' = [step EXCEPT ![t] = "idle"]
  /\ UNCHANGED <<ops, use, replaced, could_be_alias, alias, forwardings, granted, accesses>>

(***************************************************************************)
(* Operations on the handle in a running task                              *)
(***************************************************************************)
\* The accessor does not check the immediate permissions.
UncheckedSlip(t) ==
  /\ MayOperate(t)
  /\ Cardinality(accesses) < MaxAccesses
  /\ ops' = [ops EXCEPT ![t] = @ + 1]
  /\ accesses' = accesses \cup
       {[at |-> Append(t, ops[t] + 1), rights |-> use[t].immediate]}
  /\ UNCHANGED <<status, step, use, replaced, could_be_alias, alias, forwardings, granted>>

\* get_value, set_value, get_reference, ...: the task uses the immediate
\* rights it has.
Access(t) ==
  /\ MayOperate(t)
  /\ use[t].immediate # None
  /\ Cardinality(accesses) < MaxAccesses
  /\ ops' = [ops EXCEPT ![t] = @ + 1]
  /\ accesses' = accesses \cup
       {[at |-> Append(t, ops[t] + 1), rights |-> use[t].immediate]}
  /\ UNCHANGED <<status, step, use, replaced, could_be_alias, alias, forwardings, granted>>

\* obtain_reference: the use is replaced by one that cannot schedule.
ObtainReference(t) ==
  /\ MayOperate(t)
  /\ use[t].immediate = Modify
  /\ use[t].scheduling # None
  /\ Replace(t, WithDifferentPermissions(use[t], None, use[t].immediate))
  /\ step' = [step EXCEPT ![t] = "referenced"]
  /\ ops' = [ops EXCEPT ![t] = @ + 1]
  /\ UNCHANGED <<status, could_be_alias, alias, forwardings, granted, accesses>>

ReleaseReferenced(t) ==
  /\ step[t] = "referenced"
  /\ replaced' = [replaced EXCEPT ![t] = NoUse]
  /\ step' = [step EXCEPT ![t] = "idle"]
  /\ UNCHANGED <<status, ops, use, could_be_alias, alias, forwardings, granted, accesses>>

\* The last copy of the handle goes, with the task or by release(): the use
\* is released, as an alias if it could be one.
ReleaseHandle(t) ==
  /\ status[t] = "running"
  /\ step[t] = "idle"
  /\ alias' = IF could_be_alias[t] THEN ReleaseAlias(alias, use[t]) ELSE alias
  /\ use' = [use EXCEPT ![t] = NoUse]
  /\ status' = [status EXCEPT ![t] = "done"]
  /\ UNCHANGED <<step, ops, replaced, could_be_alias, forwardings, granted, accesses>>

(***************************************************************************)
(* The backend                                                             *)
(***************************************************************************)
Runnable(t) ==
  /\ status[t] = "pending"
  /\ Satisfied(Backend, alias, LiveUsesBut(t), use[t])

\* Task::run, with the data of the dependencies in place.
RunTask(t) ==
  /\ Runnable(t)
  /\ status' = [status EXCEPT ![t] = "running"]
  /\ use' = [use EXCEPT ![t].data = use[t].immediate # None]
  /\ UNCHANGED <<step, ops, replaced, could_be_alias, alias, forwardings, granted, accesses>>

(***************************************************************************)
(* The specification                                                       *)
(***************************************************************************)
TaskStep(t) ==
  \/ RegisterCaptured(t)
  \/ RegisterContinuation(t)
  \/ ReleaseSource(t)
  \/ SubmitTask(t)
  \/ Access(t)
  \/ ObtainReference(t)
  \/ ReleaseReferenced(t)
  \/ ReleaseHandle(t)

Terminated ==
  /\ \A t \in Born : status[t] = "done"
  /\ UNCHANGED vars

Next == (\E t \in Tasks : TaskStep(t) \/ RunTask(t)) \/ Terminated

Spec == Init /\ [][Next]_vars

\* Task bodies go on, and the backend runs what it can, at least as long as
\* nothing else happens.
Fairness == WF_vars(\E t \in Tasks : TaskStep(t) \/ RunTask(t))

FairSpec == Spec /\ Fairness

-----------------------------------------------------------------------------
UseRecords ==
  [scheduling : Permissions, immediate : Permissions,
   in : Flows, out : Flows, anti_in : Flows, anti_out : Flows,
   data : BOOLEAN]

\* Every variable has its type: the uses, the holder state and the
\* histories that create_work, the handle's operations and the backend keep.
TypeOK ==
  /\ status \in [Tasks -> {"unborn", "captured", "pending", "running", "done"}]
  /\ step \in [Tasks -> {"idle", "captured", "continued", "submit", "referenced"}]
  /\ ops \in [Tasks -> 0..MaxOps]
  /\ use \in [Tasks -> UseRecords]
  /\ replaced \in [Tasks -> UseRecords]
  /\ could_be_alias \in [Tasks -> BOOLEAN]
  /\ DOMAIN alias \subseteq Flows
  /\ \A f \in DOMAIN alias : alias[f] \in Flows
  /\ forwardings \subseteq [from : Flows, by : Tasks]
  /\ granted \in [Tasks -> PermissionPairs]
  /\ accesses \subseteq
       [at : SequencesUpTo(MaxDepth + 1), rights : Permissions \ {None}]

\* While a task runs with the immediate right to write, no other running
\* task can touch the data: what the Use interface says of Sequential
\* semantics.  It depends on the flows that every capture case asks for and
\* on the backend's going by them.
ExclusiveAccess ==
  \A s, t \in Tasks :
    /\ s # t
    /\ status[s] = "running"
    /\ status[t] = "running"
    /\ "write" \in use[s].immediate
    => use[t].immediate = None

\* Conflicting accesses, the ones made through get_value, get_reference and
\* the like, happen in the order in which a sequential run of the program
\* makes them, whatever the order in which the backend runs tasks.
PO == INSTANCE ProgramOrder WITH Positions <- SequencesUpTo(MaxDepth + 1)
InProgramOrder == PO!Spec

\* A task never has more rights than any task above it could schedule when
\* it was created, whatever captures, continuations and conditionals lie
\* between them; in particular nothing beneath a read-only task writes.
Scheduled(t) == granted[t].scheduling
Allowed(t)   == granted[t].scheduling \cup granted[t].immediate

RightsInherited ==
  \A t \in Born :
    /\ use[t].scheduling \cup use[t].immediate \subseteq Allowed(t)
    /\ \A n \in 0..(Len(t) - 1) : Allowed(t) \subseteq Scheduled(SubSeq(t, 1, n))

\* What ~UseHolder is to find: a handle is released as an alias exactly when its use may schedule
\* writers but did not write itself.  Otherwise whoever waits for its out
\* flow would wait for nobody, or would get the data from the wrong use.
AliasOnRelease ==
  \A t \in Tasks :
    status[t] = "running" /\ step[t] = "idle" =>
      (could_be_alias[t] <=>
        "write" \in use[t].scheduling /\ "write" \notin use[t].immediate)

\* No two handles produce the same flow, not even through the aliases that
\* release_use established: every out flow has one last writer.
OneProducer ==
  \A s, t \in Tasks :
    s # t /\ use[s].out # NoFlow /\ use[t].out # NoFlow
    => ~Equivalent(alias, use[s].out, use[t].out)

\* A flow or an anti-flow is forwarded at most once: what the backend's
\* make_forwarding_flow and make_anti_forwarding rely on, and what every
\* capture has to see to by replacing the use it captured from.
ForwardedOnce ==
  \A a, b \in forwardings : a.from = b.from => a = b

\* A running task whose permissions let it touch the data has the data: the
\* data_ pointer, which the accessors follow unchecked, survives the uses
\* that replace one another in the task's handle.
DataInPlace ==
  \A t \in Tasks :
    /\ status[t] = "running"
    /\ step[t] \in {"idle", "referenced"}
    /\ use[t].immediate # None
    => use[t].data

\* As long as a task waits, some task is running or can be run: register_use
\* never leaves uses that wait for one another.
NotStuck ==
  \/ \A t \in Tasks : status[t] # "pending"
  \/ \E t \in Tasks : status[t] = "running" \/ Runnable(t)

\* Every task that is created runs and ends, whatever the order in which
\* tasks are run.
EveryTaskEnds ==
  <>[](\A t \in Tasks : status[t] \in {"unborn", "done"})

=============================================================================
