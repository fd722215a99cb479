# A formal model of the DARMA front end

DARMA lets a C++ program be written sequentially and run as tasks.  A variable
shared by tasks is an `AccessHandle`; a task that mentions a handle *captures*
it.  At every capture the front end works out which permissions the task gets
and which are left to the code that goes on, and describes both to a backend
as *uses* connected by *flows* and *anti-flows*.  The backend may run a task
when the flows of its uses say so.  That the parallel run means what the
sequential program says depends on a table of fifteen capture cases, in which
each case names the relationships of up to eight flows.  This project models
that machinery, checks it with TLC and proves parts of it with TLAPS.

Paths are relative to `src/src/include/darma/` unless they start with `src/`.

## 1. Inventory

### The components that carry the program's own logic

| Component | State it keeps | Operations | What makes it correct |
|---|---|---|---|
| **Capture semantics**: `impl/capture/semantics*.h` | the table of capture cases, filled by static registrars | look up (source permissions, requested permissions, coherence mode) | one case per input; every request the front end makes has one; captured and continuing permissions are compatible; the flows order conflicting uses |
| **Requested permissions**: `impl/create_work/capture_permissions.h`, `permissions_downgrades.h`, `impl/access_handle_base.h`, `impl/access_handle/access_handle_capture_description.h` | flags on a handle, set by parameter types, `reads(...)`, `schedule_only(...)` and consulted once | set, consult and clear; merge of the capture of a body into that of its condition | flags affect the next capture only; a body's needs are covered by the capture of its condition |
| **Capture** of a handle: `impl/capture.h` | none of its own | `make_captured_use_holder`: register the captured use, register the continuation, release the source, hand on the data | atomic for the program although it is several calls to the backend |
| **Uses and flows**: `impl/use.h`, `impl/handle_use_base.h`, `impl/use/flow_relationship.h` | permissions, four flows, `data_`, `establishes_alias_`, `already_captured`, dependency bits | construct from relationships, clone with different permissions | the flows name who produces and who consumes the data |
| **Use holders**: `impl/use/use_holder.h` | the current use, `is_registered`, `could_be_alias`, `captured_but_not_handled` | `create`, `replace_use`, `release_use`, `relinquish_into_destructible_use`, destruction, migration | every registered use is released once; it is an alias exactly when nobody wrote through it |
| **Tasks and `create_work`**: `impl/task/`, `impl/create_work/create_work*.h` | the dependencies of a task, the running task of the thread, the list of uses to be cleaned up after capture | create, capture, register, run, migrate | captures happen against the creating context; aliasing captures are found |
| **Access handles**: `interface/app/access_handle.h`, `impl/access_handle/` | variable handle, current use holder, value reference of a captured functor | accessors, `obtain_reference`, `release`, copy (which captures), `publish` | an accessor is reached only with the permissions it needs |
| **Backend contract**: `interface/backend/`, `interface/frontend/use.h`, `interface/backend/legacy_runtime.h` | flows | `register_use`, `release_use`, `register_task`, forwarding and aliasing of flows | the paragraphs in `use.h` and `flow.h` on when a use is satisfied |
| **Conditionals and loops**: `impl/create_work/create_if_then*.h`, `create_work_while*.h` | capture managers shared by condition and body, alive across iterations | outer capture, capture of each body, recapture for the next iteration | each body sees what the condition left; the chain of iterations ends |
| **Commutative regions**: `impl/commutative_access.h` | the use before the region | begin and end of a region | sequential and commutative uses never overlap |
| **Publication, fetching, collectives**: `impl/publication_details.h`, `interface/app/read_access.h`, `impl/collective/` | publication details: version, number of fetchers | `publish`, `read_access`, `allreduce` | a published version is read before it is overwritten |
| **Task collections**: `impl/task_collection/`, `impl/use_collection.h` | collection uses, index mappings, local handles of a task | capture of a collection, `local_access`, `read_access`, migration | each element is modified by one task |
| **Index ranges and mappings**: `impl/index_range/`, `impl/array/index_range.h` | none | dense mappings and their composition | forward and backward agree on who has an element |
| **Migration**: `impl/task/lambda_task.h`, `functor_task.h`, `impl/access_handle/access_handle_serialization.h` | uses in archives, two holders of one use | pack, unpack, drop the original | nothing that the use or its holder knew is lost |
| **Keys**: `key/` | bytes, in one of three layouts | build, compare, hash, take components | equal components give equal keys in whichever layout |
| **Managed pointers**: `impl/util/managing_ptr.h`, `impl/handle.h` | a base pointer kept in step with a smart pointer | assign, swap, cast | the base pointer never dangles |
| **MPI interoperation**: `impl/mpi/` | acquired pieces of a collection | acquire, release, convert | a piece is released as it was acquired |

Parallel for, regions, asynchronous members, data stores, arrays,
serialization, keyword arguments and metaprogramming have no protocol of their
own (thin layers, conversions of user data, or compile-time computation).  The
threads runtime that the documentation mentions is not part of the repository:
the front end is exercised against mocks (`src/src/tests/frontend_validation/`).

### How they interact

A capture starts in the copy constructor of a handle while a task object is
being built (`running_task`, `TaskBase::do_capture`).  It reads the source's
use through its holder, forms the request from scheduling permissions and
flags, and calls `make_captured_use_holder`, which looks up the case and calls
the backend's `register_use` for the captured use and, if the case makes a new
continuation, `replace_use` on the source's holder (`register_use` of the new
use, `release_use` of the old one).  After the captures `register_task` hands
the task over.  When the last copy of a handle goes, its holder releases the
use, first setting `establishes_alias_` if `could_be_alias`; the backend then
treats the out flow as another name of the in flow.

A conditional or a loop has a *capture manager* that its tasks share.  While
the closures are built the manager only describes the captures; it makes them
when the condition's task is registered or has run, from handles inside closures
that other threads may be done with.  A task collection captures a collection
of handles as a whole; its index tasks are created later, by the backend, and
each takes the elements that the mapping gives it, with the collection's flows
indexed by the element.  A task that is registered and has not begun may be
packed, and unpacked elsewhere with holders that know only what was archived.

### Hard behaviours

* **Interleaving.** A capture is three or four backend calls.  Between any two
  of them other tasks capture, run and release.
* **Ordering at a distance.** A wrong flow in one case orders wrongly a pair of
  tasks that are created much later, at other depths; no test of one capture
  shows it.
* **Deadlock.** Anti-flows let uses wait for one another.
* **Release from the inside out.** Chains of aliases are built by destructors.
* **Stale state.** The data pointer moves from use to use; flags and
  `already_captured` outlive the call they are for.
* **Protocol sequences.** Rights, alias flags and flows depend on the whole
  history of captures of a handle.
* **Two views of one thing.** The flows of a collection are in use next to those
  of its elements; who has an element is asked forward and backward; a task
  that moves has an original.

`PROJECT.json` lists each hazard at its line.

## 2. What is modelled

| Module | What it is | Code |
|---|---|---|
| `CaptureSemantics` | constant operators: permissions, flags and requests, flow relationships, the fifteen capture cases | `impl/capture/semantics.h` and its macros, `capture_permissions.h`, `flow_relationship.h` |
| `CaptureLookup` | one lookup, for every input the table's key can hold | `make_captured_use_holder`, first half |
| `Uses` | uses, `register_use` and `release_use` as operators on flows, when a use is satisfied | `handle_use_base.h`, `legacy_runtime.h`, the contract in `use.h` and `flow.h` |
| `DarmaTasks` | the state machine: tasks, holders, the backend's aliases | `capture.h`, `use_holder.h`, `access_handle.h`, `task_base.h` |
| `HandleCapture` | the state machine of one context: handles, flags, marks, and `create_work` copy by copy | `task_do_capture.impl.h`, `copy_captured_object.h`, `report_capture` and `prepare_for_capture` of `access_handle.h`, `capture_permissions.h` |
| `ProgramOrder` | abstract specification: conflicting accesses happen in the order of the sequential program | what the front end promises of one variable |
| `ControlFlow` | the state machine of one `create_work_if` or `create_work_while`: descriptions, closures, implicit captures, rounds | `create_if_then*.h`, `create_work_while*.h` |
| `IndexMappings` | constant operators: ranges, dense mappings, their composition, and who has an element | `impl/array/index_range.h`, `impl/index_range/mapping.h`, `impl/use_collection.h`, `argument_to_tc_storage.h` |
| `Collections` | the state machine of programs of task collections over one handle collection and a plain handle | `impl/task_collection/`, `impl/access_handle/access_handle_collection.impl.h`, `indexed_access_handle.h`, `access_handle_publish.impl.h` |
| `Migration` | `DarmaTasks` with tasks that are packed, unpacked and dropped | `lambda_task.h`, `task_base.h`, `handle_use_base.h`, `access_handle_serialization.h`, `use_holder.h` |
| `MCDarmaTasks`, `MCHandleCapture`, `MCControlFlow`, `MCCollections`, `MCMigration` | programs, sets of cases, handles, blocks and mappings for TLC | |
| `CaptureTableProofs` | lemmas about the table, case by case | |
| `CaptureLookupProofs`, `DarmaTasksProofs`, `ExclusionProofs`, `HandleCaptureProofs`, `ControlFlowProofs`, `CollectionsProofs`, `CollectionsExclusionProofs` | theorems; `ExclusionProofs` goes on from `DarmaTasksProofs`, to `Migration` as well, `CollectionsProofs` is also about `IndexMappings`, `CollectionsExclusionProofs` goes on from there | |

`CaptureSemantics` is below all of them.  `Uses` extends it; `DarmaTasks` and
`Collections` extend `Uses`, `Migration` extends `DarmaTasks`, `Collections`
also extends `IndexMappings`; `DarmaTasks` and `Collections` both instantiate
`ProgramOrder`.  `ControlFlow` works on the permissions of `CaptureSemantics`
alone.

**State.** `DarmaTasks` follows one variable through every program of a bounded
size.  A task is named by its place in the program: `<<2, 1>>` is the task that
the first operation of the second child of the top level creates.  `use[t]` is
the use in the holder of task `t`'s handle, `replaced[t]` the one that
`replace_use` took out and has not released, `could_be_alias[t]` the holder's
flag, `alias` the backend's equivalent flows.  `status` and `step` say where a
task is; `granted`, `forwardings` and `accesses` are histories that no action
reads (except that `accesses` bounds their number).

**Actions.** Creating a task is `RegisterCaptured` (flags, request, lookup,
`register_use` of the captured use), `RegisterContinuation` (`register_use` of
the continuation, if the case makes one), `ReleaseSource` (`release_use` of the
source, hand-over of `data_`, `could_be_alias`) and `SubmitTask`
(`register_task`): one step per call to the backend, as other threads can run
between the calls.  `Access` stands for the accessors, `ObtainReference` and
`ReleaseReferenced` for `obtain_reference`, `ReleaseHandle` for the destruction
of the last copy or `release()`, `RunTask` for the backend's running a task.

**Several handles.** `DarmaTasks` gives each task one handle.  `HandleCapture`
is about what happens before flows come in: a context has handles, some of
which are copies that share the holder of one variable, and creates tasks that
mention any of them.  `holder[h]` is the variable whose holder `h` points to,
`flags[h]` is `captured_as`, `marked` the variables whose current use has
`already_captured` set, `to_unmark` the task's list of uses to unmark.
`CreateWork` makes the task object (its arguments set flags);
`SkipUnspecified`, `ShortCircuit`, `CaptureHandle` and `CaptureFails` are the
outcomes of one handle's copy constructor, and the copies of one closure are
made in any order, as C++ does not fix the order of the captures of a lambda;
`FinishCapture` is `post_capture_cleanup`.  Between tasks handles are assigned,
copied, released, and referenced by `obtain_reference`.  `closure`, `asked`,
`captured` and `culprit` record what the current `create_work` asked for and
did.  A program is *careful* (`CarefulOnly`) if it asks for flags only on
handles the task mentions, and on none of several handles of one variable;
two of the properties need that.  One handle object passed twice is modelled
as two handles of one variable.

**Conditionals and loops.** `ControlFlow` follows the capture manager of one
construct.  A block (`condition`, `body`, `otherwise`) mentions variables and
asks for flags.  `details` are the manager's maps of descriptions, each with the
handle to capture from, the handle to capture into and the request;
`holder[h]` is the holder that handle `h` points to, or none once its closure is
gone; `implicit` counts the copies of the handle that the manager keeps for
what only a body mentions; `managed` are the tasks that own the manager.
`CreateWhile` and `CreateIf` build the closures and capture for the condition.
`BeginIteration` is the first part of `WhileLambdaTask::run` (capture and
register the body, copy both closures for the next round), `NextIteration` the
second (capture and register the next condition), which other threads can
come between; `EndLoop` discards the body, `RunIf` captures one body and
discards the other.  `DestroyCondition`, `RunBody` and `DropOuter` take handles
away.  `trail` records which captures were made from each handle's holder.  One
capture is one step here; `DarmaTasks` takes it apart.

**Collections.** `Collections` runs programs over a collection of elements and a
plain handle, the *parameter*.  A program gives an operation for each place:
`CreateTask`, `CreateConcurrentWork`, `Reduce` in contexts, `CreateChild`,
`Allreduce`, `Publish` and `Fetch` in index tasks.  `CreateTaskForIndex` is the backend's
call; it makes the uses of the local elements (`_setup_local_uses`) and of
handles that all read.  `collections` and `handles` are holders, of the whole
and of single data; flows of elements are the collection's with an index, and
with a version if they are fetched.  `DropTaskCollection` and `EndTask` release
what was held, `ReleasePublication` and `PerformAllreduce` are the backend's.
What an index task contributes to an allreduce is a use without a task.  Creating
a task is one step.  Which elements an index task has follows from the mapping of the work by
`LocalIndicesFor`, as in the code; the backend asks `TaskIndexFor` until when
the use of the whole collection speaks for an element.  Elements are counted
by their backend (dense) indices.

**Migration.** In `Migration` a pending task is at home, packed or moved
(`transit`).  `PackTask` serialises its use and leaves the original its holder
(`origin`); `UnpackTask` makes the use again from what was archived, and a
holder with a fresh `could_be_alias`; `ReleaseOriginal` releases the original's
use, before or after the other one.  A packed task cannot run.  The
uses of originals count as live for the backend.

**The backend is external.** `LegacyRuntime` fixes how relationships become
flows and what an alias does; the scheduler is not in the repository.  Two
kinds are modelled, both as permissive as the sources allow, so that what holds
for them holds for stricter ones:

* `"flows"` follows `interface/backend/flow.h:77-83`: a use that reads waits
  until no live use is to produce its in flow, a use that writes until no other
  live use has an equivalent in flow.  `LegacyRuntime` can be served only this
  way, as it establishes in and out flows only.
* `"anti_flows"` goes by what the cases' anti-flows say: a use that writes
  waits until no live use counts in its anti-in flow.  The repository shows
  this contract only through `src/src/tests/frontend_validation/test_anti_flows.cc`;
  that the release of an alias also joins its anti-in group to its anti-out
  group is inferred from the first example there.

Of a backend with collections is assumed what the head of `Collections` says: it
creates an index task at any time after its work is registered, a fetch gets
what is published with its version, a published use is released when its
fetchers have come and gone, and an allreduce is performed when every index task
of the work has contributed and every contribution is satisfied.  Of one that moves tasks, that flows keep their
identity and that a use and the one it was packed from are not in one
another's way.  `ControlFlow` has a backend that starts any registered task at
any time, which is more than any may do.

**The definitions called `...Slip`** are variants of an action or a capture
case as a plausible mistake would have it.  No specification uses them.  Each
shows, put in the place of the definition it stands before, that a run notices
the difference.

## 3. The runs

| Run | Question | Distinct states |
|---|---|---|
| `capture_lookup` | all 512 inputs of the table | 896 |
| `migration` | two levels of tasks, one of which moves, backend `"flows"` | 176,693 |
| `any_program_anti_flows` | any program of two levels, backend `"anti_flows"` | 189,150 |
| `levels` | readers and writers after tasks that leave the writing to tasks of tasks, three levels; everything ends | 29,960 |
| `careful_handles` | three handles of two variables, two tasks, careful programs | 298,859 |
| `control_flow` | loops of two rounds and conditionals, all ways to mention a variable and all flags | 17,870 |
| `collections` | a stencil, a relay, an allreduce, three mappings, nested works, a reduction, backend `"anti_flows"` | 35,013 |
| `read_write_read`, `write_in_conditional`, `stale_flags`, `aliased_handles`, `moved_alias` | disagreements, see below | until the first violation |

`migration` has programs without moves among its behaviours (no move has to
be made), so it is also the run of `DarmaTasks` with backend `"flows"`.

What the properties say:

* `NoDuplicateCase`: the registrar's assertion can never fire, so the table
  does not depend on the order of static initialization.
* `FrontEndRequestsAreServed`: a request that the front end can form does not
  abort the program, with two exceptions that the property names: a request
  for nothing, and a schedule-only read of a handle under modification.
* `ContinuationNeverConflicts`, `RightsAreInherited`: what each case gives to
  the task and leaves to the continuation is compatible and not more than the
  source had.
* `ExclusiveAccess`: `interface/frontend/use.h:109-113`, immediate Modify
  permissions are exclusive, whatever the interleaving of captures and releases.
* `InProgramOrder`: `DarmaTasks` implements `ProgramOrder` (a refinement;
  `accesses` maps to itself): conflicting accesses happen in the order of the
  sequential program.
* `RightsInherited`: through captures, continuations and conditionals a task
  never has a right that a task above it could not schedule.
* `AliasOnRelease`: the holder's flag, set and cleared at three places, is what
  `~UseHolder` needs it to be.
* `OneProducer`, `ForwardedOnce`: a flow has one last producer, aliases
  included, and is forwarded at most once.
* `DataInPlace`: an accessor never follows a null `data_`.
* `EveryTaskEnds`: no deadlock and no task left behind.  All passing runs of
  `DarmaTasks`, `Migration` and `Collections` also check deadlock; a step like
  `Terminated` is the only one of a program that has ended.

* `OneCapturePerVariable`: whatever handles share a use, a task captures the
  variable once.  A second use would follow the first, and the task would wait
  for itself.  The mark that prevents it is on a use that the capture replaces.
* `AbortedForCause`: a failed assertion of `do_capture_checks` or a missing case
  is explained by the present `create_work` alone, never by a mark or flag
  that an earlier one left.
* `CapturedAsAsked`: the request of a capture follows from the flags that this
  `create_work` asked for and the types of its handles.
* `EveryHandleHasUse` (fails, see below): in a task that captured, every handle
  the body mentions has a use.

The runs of `HandleCapture` and `ControlFlow` do not check deadlock: a program
may be aborted, and it ends when its tasks are created or have run.
`moved_alias` does not either: it is about what a release says.

* `CapturedInProgramOrder`: however rounds overlap, each block is captured from
  the handle that the unrolled sequential program would have it read: a body
  from its condition, a condition from what the previous body leaves.
* `SourcesOutliveCaptures`: the description of a capture points into a closure
  of another task; the handle there still has its use when the capture is made.
  The one reason to abort is a request that the table lacks (MM to RN).
* `RoundsAgree`: flags are consulted and cleared in the first round; the later
  ones ask for the same, and a condition may schedule what its bodies ask for.
* `NothingKept`, `ComesToAnEnd`: the manager owns the tasks, the tasks own the
  manager; the cycle is broken at the end, in whatever order things go.
* `SharedOut`: when an index task is created, each of its elements goes from the
  use of the whole collection to that task and to no other, and none is
  left with nobody once all are created.  The front end asks backward, the
  backend forward.
* `ExclusiveAccess`, `OneProducer`, `InProgramOrder` of `Collections`: the same
  as above, for each element and for the parameter; a fetched element is read
  as it was published, and a published use keeps writers out.
* `ReducesEverything`: when an allreduce is performed, nothing that the index
  tasks made before they contributed has still to run or to end, readers in
  other index tasks included, which the contributor knows nothing of.
* `MovesUnnoticed`: `Migration` implements `DarmaTasks`: every step of a program
  whose tasks move is a step of the program whose tasks do not, or none.

### Bounds, and why they are enough

* `HandleCapture`: three handles are two that share a variable and one that
  does not, or three that share; two variables are one to share and one to
  confuse it with; two tasks are one to leave a mark or a flag and one to
  find it.  The third handle is of a read-only type.  At most one handle is
  flagged by a `create_work` (`Modifications`): with `ReadOnly` and
  `ScheduleOnly` in any combination in `careful_handles`, with `ReadOnly` in
  the two disagreements.  `OneCapturePerVariable` does not need careful
  programs: it is proved for all of them.

* `MaxDepth`, `MaxOps`, `MaxTasks`: a conflict or a wait needs two tasks, the
  captures between them, and a captor above them.  Two levels with two
  operations each reach every case of the table but those that need a sibling
  after two others; `levels` (three siblings at the top, three levels, the
  upper ones mostly scheduling) goes further in each direction.
* `MaxAccesses = 2`: a violation of program order needs two accesses, and an
  access changes nothing else that an action reads.  `write_in_conditional`
  and `moved_alias` have none, as accesses do not make a task wait.
* `Program` names the tasks a run may create and the requests they may make:
  `AnyProgram` has all of MM, RR, MN, MR and NM at the first level, MM, RR and
  MN at the second; `MovingProgram` has those of the first level with children
  that read and write, and a reader or writer after it.
* `Cases` is the set of cases that the program may use.  The runs with nested
  tasks leave out the cases that go wrong with their backend, and only those:
  `AntiFlowCases` lacks `ReadFromModify` and `ModifyReadFromModify`, which the
  first two disagreements below are about; `FlowCases` lacks
  `ScheduleModifyFromModifyRead`, which forwards the input flow of a source that
  only reads, so that a backend that goes by input flows alone lets the writer in
  the body run beside an earlier reader of the variable.
* `MaxMoves = 1`, `Migratable`: a move involves one task and its original, and
  others only through the flows; what is proved (section 4) holds of
  any number of moves.  `TouchingUses` leaves out the uses that lose their alias
  when they move, which is the last disagreement below; `moved_alias` moves
  every kind (`AnyUses`), with one level of tasks.
* `ControlFlow`: `MaxIterations = 2` has a first round, one captured from a
  round, and one captured from a round that was; captures of different
  variables only meet in what a block mentions, so one variable is anywhere with
  any flags, and a second one is only in the body, the way that makes an
  implicit capture.  `OuterUses` are what writers, readers and the top level
  have.  Flags `ReadOnly` and `ScheduleOnly`; `Leaf` takes scheduling away,
  which a condition does not look at.
* `Collections`: two elements are one to have and one to fetch; two index tasks
  or one, on the default mapping, an identity, an exchange and all on one.  Six
  programs, as any program of two works would be too many: each puts together
  what only meets there (publication and fetch with a write after it, with a task
  before it that what is published still waits for, or with an
  allreduce; works of different mappings with children; works nested in a task; a
  parameter written, read by all, reduced into and read again).  `Word = 256` stands for the number
  of values of a `size_t`, and is larger than any range.

### Fairness

In `DarmaTasks` and `Migration`,
`WF_vars(\E t \in Tasks : TaskStep(t) \/ RunTask(t))`: as long as something can
be done, something is.  Nothing weaker would let any program progress, and
nothing stronger is needed: a task body runs to its end, a backend with a task
that is ready runs some task in the end, and no task waits within its body.
Programs are finite, so that what fails under this fairness is exactly a set of
tasks that wait for one another for ever.

`Collections` has the same over the steps of contexts and of the backend, which
creates the index tasks of registered works, runs what is ready and releases
publications.  `ControlFlow` has `WF_vars(TaskSteps)`: registered tasks run,
`run()` returns, finished tasks are destroyed; nothing is assumed of when the
user's handles go.

### Disagreements found

Each is a run that TLC ends with a counterexample.

1. `read_write_read`: a task with MM creates a reader, a writer and a reader; a
   writer follows the task.  `ReadFromModify` leaves the continuation without an
   anti-in flow (`impl/capture/semantics.h:303`, which carries the comment
   "Could be wrong about the anti-in flow?!??"), so by anti-flows the last two
   run together.
2. `write_in_conditional`: `ModifyReadFromModify` (`semantics.h:378`, "TODO
   check the in flow here") registers the conditional with the anti-out flow of
   the source; the body and a later reader wait for each other.
3. `stale_flags`: `reads(h)` in a `create_work` that does not capture `h` leaves
   the flag on the handle (only the capture clears it,
   `impl/create_work/capture_permissions.h:379`), and the next task that does
   captures it read-only; `src/docs/spec/front_end/API/create_work.tex:68-73`
   knows only the constraint expressions of the call itself.
4. `aliased_handles`: with `allow_aliasing` the second handle of a variable is
   short-circuited and left without a use (`task_do_capture.impl.h:84`, "TODO get
   the maximum permissions and pass those on"); a body that uses it, as the one
   in `src/src/tests/frontend_validation/test_create_work.cc:508` would, fails an
   assertion when it runs.
5. `moved_alias`: `could_be_alias` is a member of the holder and is not
   serialised with the use; `recreate_migrated` (`impl/use/use_holder.h:152`)
   makes a holder without it.  A task that captured a handle to schedule writers,
   and moved before it ran, releases its use without the alias that
   `interface/backend/runtime.h:190-193` describes.

1 and 2 depend on the `"anti_flows"` contract above.

## 4. Proofs

The proofs are in eight modules, whose heads give the arguments in short.

### The table and its lookup

`CaptureTableProofs` goes through the fifteen cases once and has no assumptions:
`CaseRights` (what a case gives is within what the source may schedule, and it
marks as a possible alias exactly what schedules writers without writing),
`CaseLeavesNoConflict` (the continuation neither writes what is read nor reads
what is written) and `CaseIsUnique` (a function, `TheCase`, names the one case
that can match an input, so no two patterns overlap).  `CaptureLookupProofs`
brings the requests of the front end into a form in which the case that
serves them can be named, and concludes, for every lookup (the lemma
`LookupHolds` only carries the facts about the table over to the state of a
lookup):

| Theorem | Statement |
|---|---|
| `PatternsDoNotOverlap` | `Spec => []NoDuplicateCase` |
| `FrontEndIsServed` | `Spec => []FrontEndRequestsAreServed` |
| `NoConflictIsLeft` | `Spec => []ContinuationNeverConflicts` |
| `CapturesInherit` | `Spec => []RightsAreInherited` |

### Tasks

`DarmaTasksProofs` holds for every value of the constants, under
`BoundsAssumption` (the bounds are natural numbers), `BackendAssumption` (one
of the two kinds) and `ProgramAssumption` (the program creates tasks, and
`Cases` is a subset of the table: all of the table included).

| Theorem | Statement |
|---|---|
| `TypeCorrect` | `Spec => []TypeOK` |
| `ControlHolds` | `Spec => []Control`: a task within `create_work` works on a new child and on an unchanged source, and the case its continuation is made from is the one its capture found |
| `RightsAlwaysInherited` | `Spec => []RightsInherited` |
| `AliasesOnRelease` | `Spec => []AliasOnRelease` |
| `DataAlwaysInPlace` | `Spec => []DataInPlace` |
| `OneProducerPerFlow` | `Spec => []OneProducer` |
| `NeverForwardedTwice` | `Spec => []ForwardedOnce` |

**The argument.** The capture of a handle looks up its case twice, once for the
captured use and once, possibly much later, for the continuation, and the table
is a `CHOOSE`.  The lemmas about the table (`CaseShape`, `CaseRights` and those
they rest on) go through its fifteen entries once and give what every case
has in common.  `Control` ties the step a task is in to the uses involved:
no one but the creating task touches them between its steps, because the child
is not yet pending and a task steps only its own holder.  None of the
properties is inductive without it: after `RegisterCaptured` the uses alone do
not say which case is under way.  Each of `RightsKept`, `AliasKept` and
`DataKept` extends its property to the tasks in the middle of a step and is
inductive together with `TypeOK` and `Control`; each step lemma has one step
per action.

The flows need no more than two further invariants, `Producers` and `Forwards`.
They look at the steps of four kinds only: captures, continuations, releases,
and the quiet rest that leaves the flows alone (`StepKinds`).

`Producers` says who produces which flow.  Every case keeps data flows and
anti-flows apart, gives a captured use an out flow of its own, and lets a
continuation go on to produce what its source would have
(`ProducesItsOwn`, checked for the fifteen cases one by one).  So the out flow of
a task is its own or none (its name is that of the task that it was made for), and
is none when the task is done; and an alias takes an out flow away only from a task that is done.
Two live out flows are then representatives of different classes.

`Forwards` says why no flow is forwarded twice:

* `InFlowsDiffer`, `InFlowsNotForwarded`: of the uses that may schedule writers,
  and that are not being captured from, no two have one in flow, and it was
  not forwarded;
* `AntiOutsNotForwarded`: a use that reads and writes has the anti-out flow that
  its own capture made, and no longer reads and writes once it is forwarded;
* `FlowsToContinue`, `UnseenUntouched`: the state between the two halves of
  `make_captured_use_holder`, where the source still has what was forwarded;
  nobody has a flow that is named for a task that is not there yet.

### Exclusion and program order

`ExclusionProofs` proves, for every program, depth and number of tasks,

| Theorem | Statement |
|---|---|
| `WritersAccessExclusively` | `ASSUME CasesSuffice PROVE Spec => []ExclusiveAccess` |
| `AccessesInProgramOrder` | `ASSUME CasesSuffice PROVE Spec => InProgramOrder`: `DarmaTasks` implements `ProgramOrder` |

`CasesSuffice` says that a backend goes by flows and `Cases` is within
`FlowCases`, or by anti-flows and `Cases` is within `AntiFlowCases`: the sets
of the runs (see "Bounds").  With the cases left out the statement is false:
two of them are the first two disagreements of section 3, and the third lets a
backend that goes by input flows alone run a writer beside an earlier reader.

**Exclusion.** The uses of a program are divided into generations: what
follows a use that may schedule writers is the next generation.  A backend that
goes by input flows tells the generation of a use by its input flow; one that
goes by anti-flows tells it by the anti-flow in which the readers of its input
are counted: the anti-in flow of a writer, the anti-out flow of a reader
(`LevelOf`, `NextOf`).  `CaseGenerations` checks, for the cases that suffice, that
a captured use is of its source's generation unless the source wrote (then a
generation of its own begins), and that its continuation is of the next one,
or, if both only read, of the same.  The inductive invariant, together with `Control`,
`AliasKept` and `Producers`, has two parts:

* `Registered`, about single uses: which of them have which flows
  (`UsesInShape`), that nobody else has a flow of a task that is not there yet
  (`FlowsUntouched`), and that the captured use is as its case made it until the
  continuation is registered (`CapturedAsFound`);
* `Exclusion`, about pairs of uses.  `InputsArrived`: the input of a running
  task that may touch the data has arrived, and that of the child that a writer
  is creating.  `WritersAlone`: of what a running writer had to wait for
  nothing is left.  `ArrivedTogether`, `OneArrivedProducer`: uses whose input
  has arrived are of one generation, and only one of them has an output, but
  for a task and the child that it is creating.  `SameInput`: the same holds for uses that
  have the same input, arrived or not.  `NextGeneration`,
  `NextGenerationsDiffer`: the uses that wait for the output of a use are those of its next
  generation, and no two uses go on to one generation.  `InputsOrdered`: the tasks
  can be put in an order in which each produces what later ones take, so that
  aliases never close a circle.

Two running tasks that may touch the data are of one generation, unless one is
creating the other, which then does not run yet; and if one of them may write,
nothing that it had to wait for is left, which the other would be.

**Program order.** Exclusion says nothing of who comes first.  `ProgramOrdered`
relates uses to places in the program: a task has *passed* what comes before
the next operation of its own.  `TasksOrdered`: of two tasks one has passed
the other.  `InputsPassed`: a task has passed the one that produces its input.
`PassedAwaited`: as long as a task that it has passed is still to produce its
output, a task waits, for that one or for one in between, unless it is
just creating it.  `AccessesPassed`: a task that may still conflict with an
access of the past has passed it.  So when a task touches the data, nobody that it has
passed and that could conflict is still to come, and those that have not been passed
come later in the program: an `Access` is one step of `ProgramOrder`, every other
action leaves `accesses` alone.

### Handles

`HandleCaptureProofs` holds for every set of handles and variables, every
number of tasks and every initial assignment, under `HandleAssumption` (the
types of the constants).

| Theorem | Statement |
|---|---|
| `HandlesTyped` | `Spec => []TypeOK` |
| `MarksHold` | `Spec => [](TypeOK /\ MarksMatch)`: a variable is marked exactly while the task being created has captured it |
| `OneCaptureEach` | `Spec => []OneCapturePerVariable` |
| `AskedIsCaptured` | `CarefulOnly => (Spec => []CapturedAsAsked)` |
| `AbortsAreForCause` | `CarefulOnly => (Spec => []AbortedForCause)` |

**The argument.** `MarksMatch` relates the marks, the list of uses to unmark
and the captures made, and places each captured handle among those whose copy
is made; with it a handle that finds its variable marked has a sibling in the
same closure.  `FlagsKept` says that a careful program's handle has the flags
asked for until its copy is made, and none otherwise; its only hard step is
the short-circuited capture, which keeps the flags of its handle: by
`MarksMatch` that handle has a sibling, and a careful program asks nothing of
it.

### Tasks that move

The theorems about `Migration`, at the end of `ExclusionProofs`, hold for every
program, every number of moves, and any `Migratable` under the assumption `NothingLost` of each theorem: no use moves
that may schedule writers without writing.  `TouchingUses` satisfies it; without
it the theorems are false, as `moved_alias` shows.

| Theorem | Statement |
|---|---|
| `MigrationInvHolds` | `MigrationSpec => []MigrationInv` |
| `MovesAreUnnoticed` | `MigrationSpec => MovesUnnoticed`, which is `Spec` of `DarmaTasks` |
| `MigrationTypeCorrect` | `MigrationSpec => []MigrationTypeOK` |
| `DataMovesAlong` | `MigrationSpec => []DataInPlace` |
| `ExclusionMovesAlong` | `ASSUME CasesSuffice`: `MigrationSpec => []ExclusiveAccess` |
| `OrderMovesAlong` | `ASSUME CasesSuffice`: `MigrationSpec => InProgramOrder` |

**The argument.** The invariant is `Control` and `AliasKept` of
`DarmaTasksProofs` with `Moving`: what is packed is the use of a pending task,
has no data, and its original is no possible alias.  `AliasKept` is needed as it
ties the holder's flag to the permissions, so that `NothingLost` says something
of the flag.  Then packing, unpacking and the release of an original change
nothing of `DarmaTasks` (one lemma each), the other steps are its steps, and
its step lemmas apply as they are.  With `MovesAreUnnoticed` every theorem
about `DarmaTasks` carries over; the last three are those that the run of
`Migration` checks.

### Conditionals and loops

`ControlFlowProofs` holds for any variables, any programs of typed requests,
any uses of the user's handles and any number of iterations.

| Theorem | Statement |
|---|---|
| `ConstructHolds` | `Spec => []Construct`: the inductive invariant |
| `ConstructsTyped` | `Spec => []TypeOK` |
| `CapturesFollowProgram` | `Spec => []CapturedInProgramOrder` |
| `EveryRoundAgrees` | `Spec => []RoundsAgree` |
| `NoHandleIsKept` | `Spec => []NothingKept` |
| `SourcesAreThere` | `ASSUME SequentialPrograms PROVE Spec => []SourcesOutliveCaptures` |

**The argument.** A construct goes through phases: `NotBegun`; `Waiting(n)`, the
condition of round n is registered; `Running(n)`, it runs, its body is
registered, and the closures of the next round are copied; `Undecided`, the same
for a conditional; `Decided`, the last condition has returned.  Each phase says
what the manager's descriptions point to (`DescribesRound`: a condition is captured
into its own handles, a body from them), which captures were made from which
handle, which tasks of the rounds before and after are there, and which of them
the manager owns.  `Construct` adds what holds in all phases: the types, that a
handle of the construct has a holder only while its task or the manager is
there (`HoldersKept`), and that every capture asked for what its description
does (`TrailsAsDescribed`).  None of the properties is inductive without the
phases: the descriptions are pointers, and what they point to changes when the
closures of the next round are copied.  The steps that only end tasks and let go of holders are treated at once
(`OnlyGoing`), as they leave every phase alone.

`SourcesAreThere` needs more than types.  `SequentialPrograms` says that the
user's handles have uses as tasks of sequential programs have them (they schedule
reading or modifying, and have no more immediate rights than scheduling ones), and
that no block asks for leaf captures: a leaf leaves nothing to schedule from, and
flags of the static type of a handle ask for it, not a block.  The instance of the run
satisfies it.  The inductive invariant `Served` adds that the conditions that
are to run have what they were described to have (`UsesReady`).  With it, only
the capture of the first condition, from a user's handle, can ask for what the
table lacks.

### Mappings and the sharing out of elements

The first part of `CollectionsProofs` is about ranges of any size and any mapping; `Word` is any
positive number (`WordAssumption`).

| Theorem | Statement |
|---|---|
| `DenseIsOneToOne` | the dense mapping of a range without an offset is one-to-one |
| `OffsetIsLost` | with an offset it is not: the index made for number 0 is numbered `Word - offset` |
| `CompositeIsOneToOne`, `FullIsManyToOne` | compositions of one-to-one mappings are one-to-one; a program's mapping keeps its property when it is composed with the dense one of the tasks |
| `DefaultKeepsNumbers` | the default mapping takes an element to the index task of its number |
| `SharesAgree` | `local_indices_for` of a task are the elements whose `task_index_for` it is |

The rest is about `Collections`, for every collection, both kinds of backend
and any programs, under `HandleRangeAssumption` (no offset),
`BackendAssumption` and `ProgramsAssumption`: the mapping of a work has,
backward, all that goes to an index forward (`FullIsManyToOne` shows it of the
mappings the front end makes); beneath the place of a work there is what its index
tasks do and nothing else; and an index task publishes once at most, because
`publish` and `read_access` have the version of the work and another publication would need one
of its own.

| Theorem | Statement |
|---|---|
| `ElementsSharedOut` | `Spec => []SharedOut` |
| `KeptHolds` | `Spec => []Kept`: what contexts are called and hold |
| `CollectionsTyped` | `Spec => []TypeOK` |
| `OutsHold` | `Spec => []OutsKept`: who is to produce what |
| `OneProducerPerElement` | `Spec => []OneProducer` |

**The argument.** `SharedOut` needs `SharesAgree` for each work, and that the name
of an index task tells its work and its number.

A capture that no case serves aborts the program (`make_captured_use_holder`),
so the actions that capture ask that one does (`Served`); the programs of the
run never abort, as no deadlock is found.  Two things can still be missing
when an index task goes on: its name among the contexts, and the holder of its
work's collection.  So `Kept` says of names what made them (`Named`,
`Numbered`), which makes a new place that of no context (`PlaceIsNew`), and
that the collection of a work is held as long as the task collection or an index
task of it is not done (`CollectionsHeld`); `EndTask` of the last one
and `DropTaskCollection` keep that between them whichever is last.  Whatever
is captured is then typed, by the lemmas about the table (`OutcomeTyped`).

`OutsKept` says who is to produce which flow.  A context's own captures have
out flows named for it (`OwnOut`, `PartOut`).  An index task is to produce the
part of the work's out flow about an element that is local to it, and no other
index task is (`TakersOfElements`, from `SharesAgree`); what is not
handed out is the work's.  A version that is fetched and not yet published is
that of its publication.  An out flow gets another name only when whoever was to produce it is
done (`OutsSettled`), and a version only when it is published
(`VersionsPublished`), which is why a second publication by one index task has to be
excluded.  Two uses that are to produce equivalent flows then have flows that are
equal, and names that differ (`ProducersDiffer`).

### Collections: exclusion and allreduces

`CollectionsExclusionProofs` goes on from the last part of `CollectionsProofs`, with
its assumptions.
`ProgramsAssumption` also says what the front end has of works, tasks and bodies:
a work that may schedule writers of its collection writes itself, what all its index tasks share is
only read, and a task that takes the collection as a whole cannot touch its elements,
but make works.

| Theorem | Statement |
|---|---|
| `SoundHolds` | `Spec => []Sound`: who holds what, and whose flows are whose |
| `ExclusionHolds` | `Spec /\ []CapturesSuffice => []Exclusion`: generations are apart |
| `AccessIsExclusive` | `Spec /\ []CapturesSuffice => []ExclusiveAccess` |
| `EverythingIsReduced` | if all programs publish before they fetch: `Spec /\ []CapturesSuffice => []ReducesEverything` |
| `FlowsSuffice` | `ASSUME FlowsEnough PROVE Spec => []CapturesSuffice` |
| `AccessIsExclusiveByInputs` | `ASSUME FlowsEnough PROVE Spec => []ExclusiveAccess` |
| `EverythingIsReducedByInputs` | `ASSUME FlowsEnough`, all programs publish before they fetch: `Spec => []ReducesEverything` |

**The hypotheses.** `CapturesSuffice` is what `CasesSuffice` is for `DarmaTasks`: what
running contexts go on to capture is captured by a case that tells the backend enough.
`DarmaTasks` gets its cases from a constant; `Collections` uses all of the table,
so it is said of the states.  `FlowsEnough` is a condition on constants from which it
follows: the backend goes by input flows, and no program has a task that can only
schedule writers of a single datum (`NoneOnlySchedules`), as such a task, captured from a
reader of the same input, is in the one case that is not enough.  All six programs of
`collections` satisfy it but for the backend; with `Backend = "flows"` in
`MCCollections.cfg`, TLC finds the same properties to hold in 35,317 states.  With anti-flows the hypothesis fails as soon as an
index task that may write an element also publishes it, or reads it in a task.
`PublishesFirst` is about bodies: a fetch has a publication before it.  Without it
`ReducesEverything` is false: for a body that fetches, reads, contributes
and then publishes TLC finds an allreduce performed while the reader still waits
for that publication.

**Who has what.** `Sound` needs no hypothesis.  Over `Kept` and `OutsKept` it says
which contexts have single elements and which have whole collections
(`HoldersApart`), that a holder's flag agrees with its permissions (`HoldersInShape`),
at which place of a body a context or a publication was made (`BeneathKept`), that a
use has only flows made for its own datum (`FlowsOwned`), so that an
alias of one element changes nothing for another, and how fetches, versions and publications
belong together (`FetchedAsPublished`, `PublishedAsMade`, `FetchesKept`): a
publication is released only when all its fetchers have come and gone, and a task that reads
what was fetched runs only while the publication is there.

**Exclusion.** A datum has uses of three kinds (`Own`): of contexts, of works for the elements
that are not handed out yet, and of publications.  A fetched use is none of them: its
publication stands for it, as long as a task runs that reads it (`Readings`,
`Active`).  The first part of the module knows nothing of this.  It is about
faces, which are what the backend sees of a use once aliases are resolved, and shows that a
capture, a release, an alias and a start keep the generations apart (`Apart`, the invariant of
`ExclusionProofs` with a set of runners beside the set of faces).  The rest shows, action by action,
that each datum sees a step as one of these changes or as none: `CreateTaskForIndex`
replaces a part of the work's use by that of an index task, `Publish` is a capture, and the
release of a publication is a release.  `AccessIsExclusive` follows as for single tasks.

**Allreduces.** An allreduce is performed when its contributions, which write, are
satisfied.  For each of them exclusion says that nothing else of its
element is running, and nothing of its generation is waiting; it does not say that what the index task made before is over,
as that could be waiting for the contribution.  `InOrder` excludes it: of two uses
beneath an index task the earlier one is chained to the later one by outputs and
inputs (`Chained`), so that nothing earlier is left of an element when a writer of it
runs (`RunningAlone`).  That leaves the readers of what was
fetched, of which the contribution knows nothing.  `DoneSoFar` says that what an index task has gone
past is done: it has published what it should (`PublishedInTime`), what is
made beneath it has elements that it has or fetched (`HeldBeneath`), what was fetched was
fetched by an operation before (`FetchedInTime`), and a contribution keeps its elements
until it is over (`ContributionsHold`).  With `PublishesFirst`, such a reader keeps a publication unreleased that is
earlier than the contribution of whoever published, which then would not run
(`EverythingReached`).  Once an allreduce is performed this stays so (`ReachedStays`).

### What stays with TLC

* `InProgramOrder` of `Collections`.  What is proved of the order of accesses is
  what allreduces need of it, the order beneath one index task.
* `ExclusiveAccess` and `ReducesEverything` of `Collections` where captures do not
  suffice: in `collections`, the index tasks of three of the programs read or publish what
  they may write, which with anti-flows is the case of the first disagreement.  There
  TLC shows that the programs do not run into that disagreement.
* Liveness (`EveryTaskEnds`, `ComesToAnEnd`), which is outside the prover's
  reach, as are `ENABLED`, induction over data and recursive operators (none of
  the modules declares one).

## 5. What is not modelled, and the plan

Left out on purpose: compile-time permissions (they reject programs and change
no run), serialization of user data, formatting, logging, names; the several
overloads of one operation are one action.  A quarter of the implementation's
lines are licence headers, and a good part of the rest is keyword arguments,
type traits and other computation of the compiler (`impl/capture.h` has commented
out code from line 211 to its end).

Switched off in the one configuration that the repository has
(`src/src/tests/frontend_validation/darma_features.h`): commutative regions
(`impl/commutative_access.h` would not
compile: line 134 sets a flag through a member that has none), publication of
single handles, regions, `parallel_for`, unmanaged data, resilient tasks.  The
entry of the table for commutative captures is modelled.

`impl/mpi/` is a thin layer over the calls of a host program: a holder is made
unregistered, registered by `collection()`, and released through a token.

Ranges: `Range2D` has no `index_type`, so it is no index range for
`index_range_traits` (and its constructor of four arguments gives `begin_[1]` the
end of the other dimension); `range_1d.h` is unfinished and used nowhere, the
ranges of one dimension are those of `impl/array/index_range.h`.

Seen on the way and outside what a run can show:

* an index range with an offset is not numbered one-to-one (`OffsetIsLost`);
  no program of the repository has one;
* `CompositeMapping::_serialize` (`impl/index_range/mapping.h:123-128`) archives
  `m1_to_range_` where it should `m2_from_range_`;
* `has_same_mapping_as` (`impl/use_collection.h:398`) compares the mapping with
  the other collection;
* a task created in an index task that captures the whole mapped collection, when
  the work modifies it, asks MM for RN and aborts
  (`access_handle_collection_capture_description.h:101`);
* the pack of a task collection leaves out its token, and its unpack adds no
  dependency for a collection that is not mapped
  (`impl/task_collection/task_collection.h:163`).

In order of importance, for the next steps:

1. `Collections` with the steps of `DarmaTasks` within a capture, and with index
   tasks and works that move.
2. `HandleCapture` composed with `DarmaTasks`: several handles with flows, so
   that what a task waits for follows from all of its captures;
   `captured_but_not_handled`.
3. `ControlFlow` shown to implement `DarmaTasks` with the unrolled sequence of
   tasks, and blocks with two handles of one variable.
4. `PiecewiseCollections`: the life of the holders of the MPI interface, with a
   host program in any order.
5. `Keys`: the three layouts as operators, equality and component access
   against sequences of components.

Theorems worth proving next: `InProgramOrder` of `Collections`, from the
generations of `CollectionsExclusionProofs` and the places that `ExclusionProofs`
compares, element by element: the order of `Chained` for all that counts for an element,
and of the accesses of the past.
