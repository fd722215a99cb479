---------------------------- MODULE Collections ----------------------------
(***************************************************************************)
(* Task collections and handle collections: a variable of many elements,   *)
(* the works (create_concurrent_work) whose index tasks share it out by a  *)
(* mapping, and the ways around the mapping: publish and read_access,      *)
(* which let an index task read an element of another one, allreduce, to   *)
(* which all of them contribute, reduce, and a plain handle, the parameter *)
(* that works read and reductions write.                                   *)
(*                                                                         *)
(* A program gives the operation at each of its positions.  The operation  *)
(* n of a context c, and the task it creates, are at Append(c, n); the     *)
(* index task i of the work at w is Append(w, i).  A work has the range of *)
(* its tasks and the full mapping of the collection.  Creating a task is   *)
(* one step here: DarmaTasks takes it apart.                               *)
(*                                                                         *)
(* The runtime is not part of the repository.  What is assumed of it: an   *)
(* index task is created at any time after its work is registered; until   *)
(* then the use of the whole collection speaks for the element; a fetch    *)
(* gets what the publication with its version publishes; a published use   *)
(* is released once its fetchers have come and gone; and an allreduce is   *)
(* performed when all index tasks have contributed.                        *)
(***************************************************************************)
EXTENDS Uses, SequencesExt, IndexMappings

CONSTANTS
  HandleRange, \* the index range of the collection
  Programs,    \* the programs to run
  Backend      \* by what the backend knows anti-dependencies

ASSUME HandleRangeAssumption == PlainRange(HandleRange)

\* What index tasks can do.
BodyOperations ==
  [do : {"child"}, of : {"local", "fetched"}, request : PermissionPairs]
    \cup [do : {"allreduce", "publish", "fetch"}]

\* The mapping of a work is put together from one that a program gives.
\* It asks for no right to schedule writers without the one to write, and a
\* plain handle is read by all of its index tasks.  A task that captures the
\* collection, which is mapped to no tasks there, can only schedule others
\* with it.  Beneath a work there is
\* what its index tasks do, who publish once if at all: another publication
\* would need a version of its own.
ASSUME ProgramsAssumption ==
  \A prog \in Programs :
    /\ DOMAIN prog \subseteq Seq(Nat \ {0}) \ {<< >>}
    /\ \A p \in DOMAIN prog :
         /\ prog[p].do \in {"task", "reduce", "work"}
         /\ prog[p].do = "task" => prog[p].collection.immediate = None
    /\ \A w \in DOMAIN prog : prog[w].do = "work" =>
         /\ PlainRange(prog[w].tasks)
         /\ ManyToOne(prog[w].mapping, Indices(HandleRange), DenseIndices(prog[w].tasks))
         /\ "write" \in prog[w].request.scheduling => "write" \in prog[w].request.immediate
         /\ "write" \notin prog[w].shared.scheduling \cup prog[w].shared.immediate
         /\ prog[w].readers \in
              [DenseIndices(HandleRange) -> SUBSET DenseIndices(prog[w].tasks)]
         /\ prog[w].body \in Seq(BodyOperations)
         /\ \A m, n \in DOMAIN prog[w].body :
              prog[w].body[m].do = "publish" /\ prog[w].body[n].do = "publish" => m = n
         /\ \A p \in DOMAIN prog : ~IsStrictPrefix(w, p)

ASSUME BackendAssumption == Backend \in BackendKinds

\* Elements go by their backend indices; the parameter comes after them.
Root      == << >>
Elements  == DenseIndices(HandleRange)
Parameter == HandleRange.size
Data      == Elements \cup {Parameter}

\* The request of a capture that is not made.
NoRequest == Perms(None, None)

VARIABLES
  program,      \* the program that runs
  status,       \* the contexts there are: "pending", "running" or "done";
                \* a work is "registered", then "done"
  ops,          \* the operations each context has performed
  collections,  \* the holder of the whole collection, of a context or a work
  handles,      \* the holders of single data, by context and datum
  alias,        \* the backend's equivalent flows
  publications, \* the published uses the backend keeps, by work and element
  fetches,      \* who has fetched which publication
  accesses      \* history: what tasks did to the data

vars == <<program, status, ops, collections, handles, alias, publications,
          fetches, accesses>>

\* A function of one argument, one function laid over another, and a part of
\* one.
Single(x, value) == [y \in {x} |-> value]
With(f, over)    == [x \in DOMAIN f \cup DOMAIN over |->
                       IF x \in DOMAIN over THEN over[x] ELSE f[x]]
Without(f, xs)   == [x \in DOMAIN f \ xs |-> f[x]]

(***************************************************************************)
(* The program                                                             *)
(***************************************************************************)
Contexts == DOMAIN status

IsWork(c)      == c \in DOMAIN program /\ program[c].do = "work"
IsIndexTask(c) == c # Root /\ IsWork(Front(c))

IndexTasks(w) == {Append(w, i) : i \in DenseIndices(program[w].tasks)}

\* The elements an index task has to itself, and those it reads of others.
LocalElements(t) == LocalIndicesFor(program[Front(t)].mapping, Last(t))
FetchedElements(t) == {e \in Elements : Last(t) \in program[Front(t)].readers[e]}

\* The next operation of a context, and where its task goes.
Place(c) == Append(c, ops[c] + 1)

HasOperation(c) ==
  IF IsIndexTask(c) THEN ops[c] < Len(program[Front(c)].body)
                    ELSE Place(c) \in DOMAIN program

Operation(c) ==
  IF IsIndexTask(c) THEN program[Front(c)].body[ops[c] + 1] ELSE program[Place(c)]

\* A running context is about to do this.
About(c, do) ==
  /\ c \in Contexts
  /\ status[c] = "running"
  /\ HasOperation(c)
  /\ Operation(c).do = do

(***************************************************************************)
(* Flows of elements                                                       *)
(***************************************************************************)
\* The index is dropped: all elements have the flow of the collection.
SameFlowSlip(flow, element) == flow

\* A null flow is indexed like any other.
IndexesNullFlowSlip(flow, element) ==
  [owner |-> flow.owner, place |-> flow.place, element |-> element]

\* IndexedLocal: the part of a collection's flow that is about one element.
Indexed(flow, element) ==
  IF flow = NoFlow THEN NoFlow
  ELSE [owner |-> flow.owner, place |-> flow.place, element |-> element]

\* IndexedFetching, with the version that a work's publication has.
Fetching(flow, work, element) ==
  IF flow = NoFlow THEN NoFlow
  ELSE [owner |-> flow.owner, place |-> flow.place, element |-> element, version |-> work]

ElementView(use, element) ==
  [use EXCEPT !.in = Indexed(@, element), !.out = Indexed(@, element),
              !.anti_in = Indexed(@, element), !.anti_out = Indexed(@, element)]

(***************************************************************************)
(* Holders and captures                                                    *)
(***************************************************************************)
Holder(use, could_be_alias) == [use |-> use, could_be_alias |-> could_be_alias]

\* The capture cases by the permissions of the source and of the request.
CaseFor ==
  [asked \in {asked \in PermissionPairs \X PermissionPairs :
               CasesFor("Sequential", asked[1], asked[2]) # {}} |->
     CHOOSE case \in CasesFor("Sequential", asked[1], asked[2]) : TRUE]

\* make_captured_use_holder: the holder the capture makes, and what the
\* source is left with.
Outcome(case, source, captured, owner) ==
  [captured |-> Holder(captured, case.could_be_alias),
   source |->
     IF case.needs_new_continuation_use
     THEN Holder(MakeUse(case.continuation,
                         RegisteredFlows(case.continuing,
                                         FlowsOfCapture(source.use, captured),
                                         owner, ContinuingPlaces),
                         FALSE),
                 TRUE)
     ELSE source]

CapturedUse(case, source, request, owner) ==
  MakeUse(request,
          RegisteredFlows(case.captured, FlowsOfSource(source.use), owner, CapturedPlaces),
          FALSE)

Outcomes(source, request, owner) ==
  UNION {{Outcome(case, source, captured, owner) :
            captured \in {CapturedUse(case, source, request, owner)}} :
         case \in {CaseFor[<<PermissionsOf(source.use), request>>]}}

OutcomeOf(source, request, owner) == CHOOSE o \in Outcomes(source, request, owner) : TRUE

\* There is a use to capture from, and a case: otherwise the program aborts.
Served(holders, from, request) ==
  /\ from \in DOMAIN holders
  /\ <<PermissionsOf(holders[from].use), request>> \in DOMAIN CaseFor

Serves(holders, from, request) ==
  request = NoRequest \/ Served(holders, from, request)

\* The holders once "to" has captured from "from".
Capture(holders, from, to, request, owner) ==
  IF request = NoRequest THEN holders
  ELSE LET outcome == OutcomeOf(holders[from], request, owner)
       IN  With([holders EXCEPT ![from] = outcome.source], Single(to, outcome.captured))

\* Each element (of a set) captured from one context by another.
CaptureElements(elements, from, to, request) ==
  LET outcome(e) == OutcomeOf(handles[<<from, e>>], request, Append(to, e))
  IN  With([k \in DOMAIN handles |->
              IF k[1] = from /\ k[2] \in elements THEN outcome(k[2]).source ELSE handles[k]],
           [k \in {<<to, e>> : e \in elements} |-> outcome(k[2]).captured])

\* What releasing a holder's use tells of flows: that one is only another
\* name of the other, if the use could be an alias.
Links(holder) ==
  IF holder.could_be_alias
  THEN {<<holder.use.out, holder.use.in>>, <<holder.use.anti_in, holder.use.anti_out>>}
  ELSE {}

ElementLinks(holder) ==
  UNION {Links([holder EXCEPT !.use = ElementView(@, e)]) : e \in Elements}

\* EstablishAlias of independent links at once.
EstablishAliases(links) ==
  LET new == {l \in links : NoFlow \notin {l[1], l[2]} /\ ~Equivalent(alias, l[1], l[2])}
      of(f) == {l \in new : Equivalent(alias, l[1], f)}
  IN  [f \in DOMAIN alias \cup {Representative(alias, l[1]) : l \in new} |->
         IF of(f) = {} THEN alias[f]
         ELSE Representative(alias, (CHOOSE l \in of(f) : TRUE)[2])]

\* initial_access, and initial_access_collection with its collection flows.
Initially(owner) ==
  Holder(MakeUse(Perms(Modify, None),
                 RegisteredFlows(UseFlows(Initial, Null, Insignificant, Initial),
                                 [nothing |-> NoFlow], owner, CapturedPlaces),
                 FALSE),
         TRUE)

(***************************************************************************)
(* The uses that concern a datum, and by whom they are held                *)
(***************************************************************************)
HandedOut(c, element) ==
  IsWork(c) /\ Append(c, TaskIndexFor(HandleRange, program[c].mapping, element)) \in Contexts

Held(datum) ==
  {[by |-> k[1], use |-> handles[k].use] : k \in {k \in DOMAIN handles : k[2] = datum}}

Shared(element) ==
  {[by |-> c, use |-> ElementView(collections[c].use, element)] :
     c \in {c \in DOMAIN collections : ~HandedOut(c, element)}}

Published(element) ==
  {[by |-> publications[p].at, use |-> publications[p].use] :
     p \in {p \in DOMAIN publications : p[2] = element /\ ~publications[p].released}}

\* What was fetched is still to be produced as long as it is not published.
Awaited(element) ==
  {[by |-> f.of[1],
    use |-> MakeUse(NoRequest, UseFlows(NoFlow, f.in, NoFlow, NoFlow), FALSE)] :
     f \in {f \in fetches : f.of[2] = element /\ f.in \notin DOMAIN alias}}

UsesOf(datum) ==
  Held(datum) \cup
    (IF datum = Parameter THEN {}
     ELSE Shared(datum) \cup Published(datum) \cup Awaited(datum))

UsesBut(c, datum) == {u.use : u \in {u \in UsesOf(datum) : u.by # c}}
UsesBy(c, datum)  == {u.use : u \in {u \in UsesOf(datum) : u.by = c}}

Init ==
  /\ program \in Programs
  /\ status = Single(Root, "running")
  /\ ops = Single(Root, 0)
  /\ collections = Single(Root, Initially(Root))
  /\ handles = Single(<<Root, Parameter>>, Initially(Append(Root, Parameter)))
  /\ alias = << >>
  /\ publications = << >>
  /\ fetches = {}
  /\ accesses = {}

(***************************************************************************)
(* Creating tasks and works                                                *)
(***************************************************************************)
\* A context performs its next operation, which makes a new context or not.
Proceed(c, made, state) ==
  /\ ops' = [x \in DOMAIN ops \cup made |-> IF x = c THEN ops[c] + 1
                                            ELSE IF x \in made THEN 0 ELSE ops[x]]
  /\ status' = With(status, [x \in made |-> state])

\* create_work.  The whole of a collection that is not mapped can only be
\* captured to schedule.
CreateTask(c) ==
  /\ About(c, "task")
  /\ LET p == Place(c)
         op == Operation(c)
     IN  /\ Serves(collections, c, op.collection)
         /\ Serves(handles, <<c, Parameter>>, op.parameter)
         /\ collections' = Capture(collections, c, p, op.collection, p)
         /\ handles' = Capture(handles, <<c, Parameter>>, <<p, Parameter>>,
                               op.parameter, Append(p, Parameter))
         /\ Proceed(c, {p}, "pending")
  /\ UNCHANGED <<program, alias, publications, fetches, accesses>>

\* reduce: both captured uses are relinquished to the backend.
Reduce(c) ==
  /\ About(c, "reduce")
  /\ Served(handles, <<c, Parameter>>, Perms(None, Modify))
  /\ Served(collections, c, Perms(None, Read))
  /\ LET p == Place(c)
     IN  /\ handles' = Capture(handles, <<c, Parameter>>, <<p, Parameter>>,
                               Perms(None, Modify), Append(p, Parameter))
         /\ collections' = Capture(collections, c, p, Perms(None, Read), p)
         /\ Proceed(c, {p}, "pending")
  /\ UNCHANGED <<program, alias, publications, fetches, accesses>>

\* create_concurrent_work: the task collection captures its arguments, the
\* collection with the permissions of the parameter it is for, the plain
\* handle to be read by all.
CreateConcurrentWork(c) ==
  /\ About(c, "work")
  /\ LET w == Place(c)
         op == Operation(c)
     IN  /\ Served(collections, c, op.request)
         /\ Serves(handles, <<c, Parameter>>, op.shared)
         /\ collections' = Capture(collections, c, w, op.request, w)
         /\ handles' = Capture(handles, <<c, Parameter>>, <<w, Parameter>>,
                               op.shared, Append(w, Parameter))
         /\ Proceed(c, {w}, "registered")
  /\ UNCHANGED <<program, alias, publications, fetches, accesses>>

\* _setup_local_uses: the use of one local element.
LocalUse(collection, element) ==
  LET view == ElementView(collection.use, element)
  IN  IF "write" \in view.scheduling \cup view.immediate
      THEN Holder(view, FALSE)
      ELSE Holder([view EXCEPT !.out = NoFlow, !.anti_in = NoFlow], FALSE)

\* The index task's use of a plain handle is not counted as a reader.
UncountedReaderOfAllSlip(captured) ==
  Holder([captured.use EXCEPT !.out = NoFlow, !.anti_in = NoFlow, !.anti_out = NoFlow], FALSE)

\* The use an index task gets of a plain handle that all read.
SharedReadUse(captured) ==
  Holder([captured.use EXCEPT !.out = NoFlow, !.anti_in = NoFlow], FALSE)

\* create_task_for_index.
CreateTaskForIndex(w) ==
  /\ w \in Contexts
  /\ IsWork(w)
  /\ \E t \in IndexTasks(w) \ Contexts :
       /\ handles' =
            With(IF <<w, Parameter>> \in DOMAIN handles
                 THEN With(handles,
                           Single(<<t, Parameter>>, SharedReadUse(handles[<<w, Parameter>>])))
                 ELSE handles,
                 [k \in {<<t, e>> : e \in LocalElements(t)} |-> LocalUse(collections[w], k[2])])
       /\ status' = With(status, Single(t, "pending"))
       /\ ops' = With(ops, Single(t, 0))
  /\ UNCHANGED <<program, collections, alias, publications, fetches, accesses>>

\* The holder of a work's collection is shared by the task collection and
\* its index tasks; the last of them to go, with the others done, drops it.
DropsCollection(w, last) ==
  \A x \in (IndexTasks(w) \cup {w}) \ {last} : x \in Contexts /\ status[x] = "done"

\* The backend is through with a task collection.  What it captured can be
\* no alias.
DropTaskCollection(w) ==
  /\ w \in Contexts
  /\ IsWork(w)
  /\ status[w] = "registered"
  /\ IndexTasks(w) \subseteq Contexts
  /\ status' = [status EXCEPT ![w] = "done"]
  /\ handles' = Without(handles, {<<w, Parameter>>})
  /\ collections' = IF DropsCollection(w, w) THEN Without(collections, {w}) ELSE collections
  /\ UNCHANGED <<program, ops, alias, publications, fetches, accesses>>

(***************************************************************************)
(* What index tasks do                                                     *)
(***************************************************************************)
\* create_work with the handles that local_access or read_access gave.
CreateChild(t) ==
  /\ About(t, "child")
  /\ LET op == Operation(t)
         elements == IF op.of = "fetched" THEN FetchedElements(t) ELSE LocalElements(t)
     IN  /\ \A e \in elements : Served(handles, <<t, e>>, op.request)
         /\ handles' = CaptureElements(elements, t, Place(t), op.request)
         /\ Proceed(t, {Place(t)}, "pending")
  /\ UNCHANGED <<program, collections, alias, publications, fetches, accesses>>

\* allreduce of what is local, in and out: the captured use is relinquished
\* to the backend as a contribution.
Allreduce(t) ==
  /\ About(t, "allreduce")
  /\ \A e \in LocalElements(t) :
       /\ handles[<<t, e>>].use.scheduling = Modify
       /\ Served(handles, <<t, e>>, Perms(None, Modify))
  /\ handles' = CaptureElements(LocalElements(t), t, Place(t), Perms(None, Modify))
  /\ Proceed(t, {Place(t)}, "pending")
  /\ UNCHANGED <<program, collections, alias, publications, fetches, accesses>>

PublishedElements(t) == {e \in LocalElements(t) : program[Front(t)].readers[e] # {}}

\* publish: a captured use for the backend, and the number of fetchers it is
\* for.  Publishing is scheduling a reader.
Publish(t) ==
  /\ About(t, "publish")
  /\ LET w == Front(t)
         readers == program[w].readers
         outcome(e) == OutcomeOf(handles[<<t, e>>], Perms(None, Read), Append(Place(t), e))
     IN  /\ \A e \in PublishedElements(t) : Served(handles, <<t, e>>, Perms(None, Read))
         /\ handles' = [k \in DOMAIN handles |->
                          IF k[1] = t /\ k[2] \in PublishedElements(t)
                          THEN outcome(k[2]).source
                          ELSE handles[k]]
         /\ publications' =
              With(publications,
                   [p \in {<<w, e>> : e \in PublishedElements(t)} |->
                      [at |-> Place(t),
                       use |-> outcome(p[2]).captured.use,
                       n_fetchers |-> Cardinality(readers[p[2]]),
                       anti_out |-> Fetching(collections[w].use.anti_out, w, p[2]),
                       released |-> FALSE]])
         /\ alias' = EstablishAliases(
              {<<Fetching(collections[w].use.in, w, e), outcome(e).captured.use.in>> :
                 e \in PublishedElements(t)})
         /\ Proceed(t, {}, "pending")
  /\ UNCHANGED <<program, collections, fetches, accesses>>

\* The fetched use is not counted as a reader of the publication.
UncountedFetchSlip(collection, work, element) ==
  Holder(MakeUse(Perms(Read, None),
                 UseFlows(Fetching(collection.use.in, work, element), NoFlow, NoFlow, NoFlow),
                 FALSE),
         FALSE)

\* What is fetched is looked for under what the collection will produce.
FetchesOutputSlip(collection, work, element) ==
  Holder(MakeUse(Perms(Read, None),
                 UseFlows(Fetching(collection.use.out, work, element), NoFlow,
                          NoFlow, Fetching(collection.use.anti_out, work, element)),
                 FALSE),
         FALSE)

\* The use that read_access makes.
FetchedUse(collection, work, element) ==
  Holder(MakeUse(Perms(Read, None),
                 UseFlows(Fetching(collection.use.in, work, element), NoFlow,
                          NoFlow, Fetching(collection.use.anti_out, work, element)),
                 FALSE),
         FALSE)

\* read_access of elements that are not local.
Fetch(t) ==
  /\ About(t, "fetch")
  /\ FetchedElements(t) \cap LocalElements(t) = {}
  /\ LET w == Front(t)
     IN  /\ handles' = With(handles, [k \in {<<t, e>> : e \in FetchedElements(t)} |->
                                        FetchedUse(collections[w], w, k[2])])
         /\ fetches' = fetches \cup
              {[of |-> <<w, e>>, by |-> t, in |-> FetchedUse(collections[w], w, e).use.in] :
                 e \in FetchedElements(t)}
         /\ Proceed(t, {}, "pending")
  /\ UNCHANGED <<program, collections, alias, publications, accesses>>

(***************************************************************************)
(* The backend                                                             *)
(***************************************************************************)
\* A published use is released when its fetchers have come and have gone.
ReleasePublication(p) ==
  /\ p \in DOMAIN publications
  /\ ~publications[p].released
  /\ Cardinality({f \in fetches : f.of = p}) >= publications[p].n_fetchers
  /\ \A u \in UsesOf(p[2]) : ~Equivalent(alias, u.use.anti_out, publications[p].anti_out)
  /\ publications' = [publications EXCEPT ![p].released = TRUE]
  /\ UNCHANGED <<program, status, ops, collections, handles, alias, fetches, accesses>>

Runnable(c) ==
  /\ status[c] = "pending"
  /\ \A d \in Data : \A use \in UsesBy(c, d) :
       Satisfied(Backend, alias, UsesBut(c, d), use)

\* Where in the program a task's access to a datum belongs: what was fetched
\* is read as it was published.
ReadsFetched(c) ==
  /\ c # Root
  /\ IsIndexTask(Front(c))
  /\ program[Front(Front(c))].body[Last(c)].do = "child"
  /\ program[Front(Front(c))].body[Last(c)].of = "fetched"

PlaceOfAccess(c, datum) ==
  IF ReadsFetched(c) THEN publications[<<Front(Front(c)), datum>>].at
                     ELSE Append(c, 0)

\* Contexts run, using the immediate rights they have.
Run(contexts) ==
  /\ status' = With(status, [c \in contexts |-> "running"])
  /\ accesses' = accesses \cup UNION {UNION
       {{[datum |-> d, at |-> PlaceOfAccess(c, d), rights |-> use.immediate] :
           use \in {u \in UsesBy(c, d) : u.immediate # None}} : d \in Data} : c \in contexts}
  /\ UNCHANGED <<program, ops, collections, handles, alias, publications, fetches>>

\* What index tasks give to an allreduce is no task.
IsContribution(c) ==
  /\ c # Root
  /\ IsIndexTask(Front(c))
  /\ program[Front(Front(c))].body[Last(c)].do = "allreduce"

\* A task runs, or a reduction is performed.
RunTask(c) ==
  /\ ~IsContribution(c)
  /\ Runnable(c)
  /\ Run({c})

Contributions(w, n) == {Append(t, n) : t \in IndexTasks(w)}

\* The backend knows by the token of the task collection who contributes.
PerformAllreduce(w) ==
  /\ IsWork(w)
  /\ \E n \in DOMAIN program[w].body :
       /\ program[w].body[n].do = "allreduce"
       /\ Contributions(w, n) \subseteq Contexts
       /\ \A c \in Contributions(w, n) : Runnable(c)
       /\ Run(Contributions(w, n))

HoldersOf(c) == {k \in DOMAIN handles : k[1] = c}

\* A task ends: its holders release their uses, and the last task of a work
\* that of the work's collection.
EndTask(c) ==
  /\ status[c] = "running"
  /\ ~HasOperation(c)
  /\ alias' = EstablishAliases(
       (UNION {Links(handles[k]) : k \in HoldersOf(c)})
         \cup (UNION {ElementLinks(collections[x]) : x \in {c} \cap DOMAIN collections}))
  /\ handles' = Without(handles, HoldersOf(c))
  /\ collections' = Without(collections,
       {c} \cup (IF IsIndexTask(c) /\ DropsCollection(Front(c), c) THEN {Front(c)} ELSE {}))
  /\ status' = [status EXCEPT ![c] = "done"]
  /\ UNCHANGED <<program, ops, publications, fetches, accesses>>

(***************************************************************************)
(* The specification                                                       *)
(***************************************************************************)
ContextStep(c) ==
  \/ CreateTask(c)
  \/ Reduce(c)
  \/ CreateConcurrentWork(c)
  \/ CreateChild(c)
  \/ Allreduce(c)
  \/ Publish(c)
  \/ Fetch(c)
  \/ EndTask(c)

BackendStep ==
  \/ \E c \in Contexts : CreateTaskForIndex(c) \/ DropTaskCollection(c) \/ RunTask(c)
  \/ \E w \in Contexts : PerformAllreduce(w)
  \/ \E p \in DOMAIN publications : ReleasePublication(p)

Terminated ==
  /\ \A c \in Contexts : status[c] = "done"
  /\ \A p \in DOMAIN publications : publications[p].released
  /\ UNCHANGED vars

Next == (\E c \in Contexts : ContextStep(c)) \/ BackendStep \/ Terminated

Spec == Init /\ [][Next]_vars

\* Task bodies go on, and the backend creates and runs what it can, at least
\* as long as nothing else happens.
Fairness == WF_vars((\E c \in Contexts : ContextStep(c)) \/ BackendStep)

FairSpec == Spec /\ Fairness

-----------------------------------------------------------------------------
IsFlow(f) ==
  /\ DOMAIN f \in {{"owner", "place"} \cup more :
                     more \in {{}, {"element"}, {"element", "version"}}}
  /\ f.owner \in Seq(Nat)
  /\ f.place \in Places
  /\ "element" \in DOMAIN f => f.element \in Elements /\ f.place # "none"

IsHolder(h) ==
  /\ PermissionsOf(h.use) \in PermissionPairs
  /\ IsFlow(h.use.in) /\ IsFlow(h.use.out)
  /\ IsFlow(h.use.anti_in) /\ IsFlow(h.use.anti_out)
  /\ h.could_be_alias \in BOOLEAN

\* Every variable has its type: contexts with their state, holders of what
\* they have, and the backend's aliases, publications and fetches.  A null
\* flow has no part for an element.
TypeOK ==
  /\ program \in Programs
  /\ \A c \in Contexts : status[c] \in {"pending", "running", "registered", "done"}
  /\ DOMAIN ops = Contexts
  /\ DOMAIN collections \subseteq Contexts
  /\ DOMAIN handles \subseteq Contexts \X Data
  /\ \A c \in DOMAIN collections : IsHolder(collections[c])
  /\ \A k \in DOMAIN handles : IsHolder(handles[k])
  /\ \A f \in DOMAIN alias : IsFlow(f) /\ IsFlow(alias[f])
  /\ DOMAIN publications \subseteq Contexts \X Elements
  /\ \A f \in fetches : f.of \in Contexts \X Elements /\ f.by \in Contexts /\ IsFlow(f.in)

\* What was published and is there to be fetched.
Offered(element) ==
  {u \in Published(element) :
     Available(alias, {v.use : v \in UsesOf(element)}, u.use.in)}

\* While a task runs with the right to write an element, or the parameter,
\* no other running task can touch it, and no publication offers it to
\* fetchers: index tasks of one work have different elements, works wait for
\* one another element by element, and what is published stays as it is.
ExclusiveAccess ==
  \A d \in Data : \A u, v \in Held(d) \cup (IF d = Parameter THEN {} ELSE Offered(d)) :
    /\ u.by # v.by
    /\ u.by \in Contexts /\ status[u.by] = "running"
    /\ v.by \in Contexts => status[v.by] = "running"
    /\ "write" \in u.use.immediate
    => v.use.immediate = None

\* The backend hands an element out by task_index_for, the index task takes
\* it by local_indices_for: when an index task is created, each of its
\* elements goes from the use of the whole collection to that task, no other
\* index task has it too, and none is left with nobody once all are created.
SharedOut ==
  \A w \in {c \in Contexts : IsWork(c)} : \A e \in Elements :
    LET takers == {t \in IndexTasks(w) \cap Contexts : e \in LocalElements(t)}
    IN  /\ IF HandedOut(w, e) THEN Cardinality(takers) = 1 ELSE takers = {}
        /\ IndexTasks(w) \subseteq Contexts => HandedOut(w, e)

\* What an allreduce gives to every index task has in it all that any of them
\* did before: when it is performed all have contributed, and of what they made
\* before (which has an element that another one contributes, or reads what
\* another one published) nothing has still to run or to end.
ReducesEverything ==
  \A c \in {c \in Contexts : IsContribution(c) /\ status[c] # "pending"} :
    \A t \in IndexTasks(Front(Front(c))) :
      /\ t \in Contexts
      /\ ops[t] >= Last(c)
      /\ \A n \in 1 .. (Last(c) - 1) : HoldersOf(Append(t, n)) = {}

\* No two live uses produce the same flow: not the use of the whole
\* collection, nor those of its local elements, nor what continues, and two
\* elements never have one flow between them.
Producers ==
  UNION {{<<d, u.by, u.use.out>> : u \in {u \in UsesOf(d) : u.use.out # NoFlow}} : d \in Data}

OneProducer ==
  \A p, q \in Producers : Equivalent(alias, p[3], q[3]) => p = q

\* Accesses to one datum that conflict happen in the order of the sequential
\* program, where a fetched element is read as it was published: the works,
\* the tasks between and beneath them, reductions and the fetches across
\* index tasks of all programs put together.
ProgramPositions ==
  LET of(prog, p) ==
        IF prog[p].do # "work" THEN {Append(p, 0)}
        ELSE UNION {LET t == Append(p, i)
                    IN  {Append(t, 0)} \cup
                        UNION {{Append(t, n), Append(Append(t, n), 0)} :
                                 n \in DOMAIN prog[p].body} :
                    i \in DenseIndices(prog[p].tasks)}
  IN  UNION {UNION {of(prog, p) : p \in DOMAIN prog} : prog \in Programs}

AccessesTo(datum) ==
  {[at |-> a.at, rights |-> a.rights] : a \in {a \in accesses : a.datum = datum}}

PO(datum) == INSTANCE ProgramOrder
  WITH Positions <- ProgramPositions, accesses <- AccessesTo(datum)

InProgramOrder ==
  /\ \A d \in Data : PO(d)!Init
  /\ [][\A d \in Data : UNCHANGED AccessesTo(d) \/ PO(d)!Next]_accesses

\* Every task, work and reduction ends and every publication is released,
\* in whatever order the runtime creates and runs index tasks.
EveryTaskEnds ==
  <>[](/\ \A c \in Contexts : status[c] = "done"
       /\ \A p \in DOMAIN publications : publications[p].released)

=============================================================================
