------------------------- MODULE CollectionsProofs -------------------------
(***************************************************************************)
(* Which mappings are what the sharing out of elements relies on, for      *)
(* ranges of any size and any mapping that a program gives; and, for every *)
(* collection and all programs, the sharing out of a collection, the types *)
(* of the variables, and who produces which flow.                          *)
(*                                                                         *)
(* Steps are taken by kind (StepKinds): captures of all sorts, publishing  *)
(* included, fetches, the making of index tasks, the two ways something    *)
(* ends, and those that leave all holders alone.  Each invariant, Named,   *)
(* Kept and then OutsKept, has one lemma for each kind.                    *)
(*                                                                         *)
(* The last part, Sound, is about what holders, flows, publications and    *)
(* fetches have to do with one another.  It is what the generations of     *)
(* CollectionsExclusionProofs rest on.                                     *)
(***************************************************************************)
EXTENDS Collections, CaptureTableProofs, FiniteSetTheorems, SequenceTheorems, TLAPS

\* Forward and backward between two sets, each undoing the other.
OneToOne(m, from, to) ==
  /\ m.forward \in [from -> to]
  /\ m.backward \in [to -> from]
  /\ \A x \in from : m.backward[m.forward[x]] = x
  /\ \A y \in to : m.forward[m.backward[y]] = y

(***************************************************************************)
(* Dense mappings                                                          *)
(***************************************************************************)
\* What fits into a size_t is not changed by being taken into one.
LEMMA SmallRemainder ==
  ASSUME NEW n \in Nat, NEW w \in Nat, n < w
  PROVE  n % w = n
BY Z3

\* The index made for a number has that number.
LEMMA DenseOfIndex ==
  ASSUME WordAssumption, NEW range, PlainRange(range), NEW n \in DenseIndices(range)
  PROVE  DenseIndex(IndexOf(range, n)) = n
<1>1. n \in Nat /\ n < Word
  BY DEF DenseIndices, PlainRange, WordAssumption
<1>2. DenseIndex(IndexOf(range, n)) = (n - 0) % Word
  BY DEF DenseIndex, IndexOf, ContiguousIndex, PlainRange
<1>3. n - 0 = n
  BY <1>1
<1>. QED
  BY <1>1, <1>2, <1>3, SmallRemainder DEF WordAssumption

\* A range without an offset is numbered densely: to the index of a number
\* belongs that number, and the other way round (ContiguousIndexMapping).
THEOREM DenseIsOneToOne ==
  ASSUME WordAssumption, NEW range, PlainRange(range)
  PROVE  OneToOne(MappingToDense(range), Indices(range), DenseIndices(range))
<1>. DEFINE m == MappingToDense(range)
<1>1. /\ m.forward = [index \in Indices(range) |-> DenseIndex(index)]
      /\ m.backward = [n \in DenseIndices(range) |-> IndexOf(range, n)]
  BY DEF MappingToDense, Mapping
<1>2. \A index \in Indices(range) : \E n \in DenseIndices(range) :
        index = IndexOf(range, n) /\ DenseIndex(index) = n
  BY DenseOfIndex DEF Indices
<1>3. \A n \in DenseIndices(range) : IndexOf(range, n) \in Indices(range)
  BY DEF Indices
<1>4. m.forward \in [Indices(range) -> DenseIndices(range)]
  BY <1>1, <1>2
<1>5. m.backward \in [DenseIndices(range) -> Indices(range)]
  BY <1>1, <1>3
<1>6. \A x \in Indices(range) : m.backward[m.forward[x]] = x
  BY <1>1, <1>2
<1>7. \A n \in DenseIndices(range) : m.forward[m.backward[n]] = n
  BY <1>1, <1>3, DenseOfIndex
<1>. QED
  BY <1>4, <1>5, <1>6, <1>7 DEF OneToOne

\* With an offset it is not: map_backward leaves the offset out of the value
\* that map_forward takes it from, so that the index made for the first number
\* has one of the last numbers that there are (ContiguousIndexMapping).
THEOREM OffsetIsLost ==
  ASSUME WordAssumption, NEW range, range.size \in Nat, range.offset \in Nat,
         0 < range.offset, range.offset < Word
  PROVE  DenseIndex(IndexOf(range, 0)) = Word - range.offset
<1>1. DenseIndex(IndexOf(range, 0)) = (0 - range.offset) % Word
  BY DEF DenseIndex, IndexOf, ContiguousIndex
<1>2. ASSUME NEW o \in Nat, NEW w \in Nat, 0 < o, o < w
      PROVE  (0 - o) % w = w - o
  BY <1>2, Z3
<1>. QED
  BY <1>1, <1>2 DEF WordAssumption

(***************************************************************************)
(* Composition                                                             *)
(***************************************************************************)
\* The reverse of a one-to-one mapping is one (ReverseMapping).
THEOREM ReverseIsOneToOne ==
  ASSUME NEW m, NEW from, NEW to, OneToOne(m, from, to)
  PROVE  OneToOne(ReverseMapping(m), to, from)
BY DEF OneToOne, ReverseMapping, Mapping

\* What the two functions of a composition are.
LEMMA CompositeFunctions ==
  ASSUME NEW m1, NEW m2, NEW from, NEW between, NEW to, NEW back,
         m1.forward \in [from -> between], m1.backward \in [between -> back],
         m2.forward \in [between -> to], m2.backward \in [to -> between]
  PROVE  LET m == CompositeMapping(m1, m2)
         IN  /\ m.forward = [x \in from |-> m2.forward[m1.forward[x]]]
             /\ m.backward = [y \in to |-> m1.backward[m2.backward[y]]]
             /\ m.forward \in [from -> to]
             /\ m.backward \in [to -> back]
<1>1. DOMAIN m1.forward = from /\ DOMAIN m2.backward = to
  OBVIOUS
<1>2. /\ CompositeMapping(m1, m2).forward = [x \in from |-> m2.forward[m1.forward[x]]]
      /\ CompositeMapping(m1, m2).backward = [y \in to |-> m1.backward[m2.backward[y]]]
  BY <1>1 DEF CompositeMapping, Mapping
<1>. QED
  BY <1>2

\* One-to-one mappings compose (CompositeMapping).
THEOREM CompositeIsOneToOne ==
  ASSUME NEW m1, NEW m2, NEW from, NEW between, NEW to,
         OneToOne(m1, from, between), OneToOne(m2, between, to)
  PROVE  OneToOne(CompositeMapping(m1, m2), from, to)
<1>. DEFINE m == CompositeMapping(m1, m2)
<1>1. /\ m.forward = [x \in from |-> m2.forward[m1.forward[x]]]
      /\ m.backward = [y \in to |-> m1.backward[m2.backward[y]]]
      /\ m.forward \in [from -> to]
      /\ m.backward \in [to -> from]
  BY CompositeFunctions DEF OneToOne
<1>2. \A x \in from : m.backward[m.forward[x]] = x
  BY <1>1 DEF OneToOne
<1>3. \A y \in to : m.forward[m.backward[y]] = y
  BY <1>1 DEF OneToOne
<1>. QED
  BY <1>1, <1>2, <1>3 DEF OneToOne

\* A program's mapping that has all the indices of a task backward still has
\* them when it is composed with the dense mapping of the tasks.
THEOREM FullIsManyToOne ==
  ASSUME WordAssumption, NEW tasks, PlainRange(tasks), NEW from, NEW mapping,
         ManyToOne(mapping, from, Indices(tasks))
  PROVE  ManyToOne(FullMapping(mapping, tasks), from, DenseIndices(tasks))
<1>. DEFINE dense == MappingToDense(tasks)
            m == CompositeMapping(mapping, dense)
<1>1. OneToOne(dense, Indices(tasks), DenseIndices(tasks))
  BY DenseIsOneToOne
<1>2. /\ m.forward = [x \in from |-> dense.forward[mapping.forward[x]]]
      /\ m.backward = [y \in DenseIndices(tasks) |-> mapping.backward[dense.backward[y]]]
      /\ m.forward \in [from -> DenseIndices(tasks)]
      /\ m.backward \in [DenseIndices(tasks) -> SUBSET from]
  BY <1>1, CompositeFunctions DEF OneToOne, ManyToOne
<1>3. ASSUME NEW x \in from, NEW y \in DenseIndices(tasks)
      PROVE  x \in m.backward[y] <=> m.forward[x] = y
  <2>1. x \in m.backward[y] <=> mapping.forward[x] = dense.backward[y]
    BY <1>1, <1>2 DEF OneToOne, ManyToOne
  <2>2. mapping.forward[x] = dense.backward[y] <=> dense.forward[mapping.forward[x]] = y
    BY <1>1 DEF OneToOne, ManyToOne
  <2>. QED
    BY <1>2, <2>1, <2>2
<1>. QED
  BY <1>2, <1>3 DEF ManyToOne, FullMapping

(***************************************************************************)
(* The use collection                                                      *)
(***************************************************************************)
\* What the front end gives to an index task (local_indices_for) are the
\* elements that the backend is told belong to it (task_index_for).
THEOREM SharesAgree ==
  ASSUME WordAssumption, NEW range, PlainRange(range), NEW tasks, NEW full,
         ManyToOne(full, Indices(range), tasks), NEW task \in tasks
  PROVE  LocalIndicesFor(full, task) =
           {e \in DenseIndices(range) : TaskIndexFor(range, full, e) = task}
<1>1. \A e \in DenseIndices(range) :
        /\ IndexOf(range, e) \in Indices(range)
        /\ DenseIndex(IndexOf(range, e)) = e
  BY DenseOfIndex DEF Indices
<1>2. ASSUME NEW index \in full.backward[task]
      PROVE  \E e \in DenseIndices(range) :
               /\ index = IndexOf(range, e)
               /\ e = DenseIndex(index)
               /\ TaskIndexFor(range, full, e) = task
  <2>1. index \in Indices(range) /\ full.forward[index] = task
    BY <1>2 DEF ManyToOne
  <2>2. PICK e \in DenseIndices(range) : index = IndexOf(range, e)
    BY <2>1 DEF Indices
  <2>. QED
    BY <1>1, <2>1, <2>2 DEF TaskIndexFor
<1>3. ASSUME NEW e \in DenseIndices(range), TaskIndexFor(range, full, e) = task
      PROVE  \E index \in full.backward[task] : e = DenseIndex(index)
  BY <1>1, <1>3 DEF TaskIndexFor, ManyToOne
<1>. QED
  BY <1>2, <1>3 DEF LocalIndicesFor

\* With the default mapping element and task have the same number.
THEOREM DefaultKeepsNumbers ==
  ASSUME WordAssumption, NEW range, PlainRange(range),
         NEW tasks, PlainRange(tasks), range.size = tasks.size,
         NEW e \in DenseIndices(range)
  PROVE  TaskIndexFor(range, FullMapping(DefaultMapping(range, tasks), tasks), e) = e
<1>. DEFINE dense == MappingToDense(tasks)
            one == CompositeMapping(MappingToDense(range), ReverseMapping(dense))
            full == CompositeMapping(Several(one), dense)
<1>1. DenseIndices(range) = DenseIndices(tasks)
  BY DEF DenseIndices
<1>2. OneToOne(MappingToDense(range), Indices(range), DenseIndices(range))
  BY DenseIsOneToOne
<1>3. OneToOne(dense, Indices(tasks), DenseIndices(tasks))
  BY DenseIsOneToOne
<1>4. OneToOne(ReverseMapping(dense), DenseIndices(range), Indices(tasks))
  BY <1>1, <1>3, ReverseIsOneToOne
<1>5. one.forward = [x \in Indices(range) |-> dense.backward[MappingToDense(range).forward[x]]]
  <2>1. ReverseMapping(dense).forward = dense.backward
    BY DEF ReverseMapping, Mapping
  <2>2. DOMAIN MappingToDense(range).forward = Indices(range)
    BY <1>2 DEF OneToOne
  <2>. QED
    BY <2>1, <2>2 DEF CompositeMapping, Mapping
<1>6. one.forward \in [Indices(range) -> Indices(tasks)]
  BY <1>2, <1>4, CompositeIsOneToOne DEF OneToOne
<1>7. full.forward = [x \in Indices(range) |-> dense.forward[one.forward[x]]]
  <2>1. Several(one).forward = one.forward
    BY DEF Several, Mapping
  <2>. QED
    BY <1>6, <2>1 DEF CompositeMapping, Mapping
<1>8. IndexOf(range, e) \in Indices(range) /\ MappingToDense(range).forward[IndexOf(range, e)] = e
  BY DenseOfIndex DEF Indices, MappingToDense, Mapping
<1>. QED
  BY <1>1, <1>3, <1>5, <1>7, <1>8 DEF TaskIndexFor, FullMapping, DefaultMapping, OneToOne

(***************************************************************************)
(* The sharing out of a collection                                         *)
(***************************************************************************)
\* No step changes the program.
LEMMA ProgramStays == Spec => [](program \in Programs)
<1>1. Init => program \in Programs
  BY DEF Init
<1>2. program \in Programs /\ [Next]_vars => (program \in Programs)'
  <2>. SUFFICES ASSUME program \in Programs, [Next]_vars PROVE program' = program
    OBVIOUS
  <2>1. ASSUME NEW c \in Contexts, ContextStep(c) PROVE program' = program
    BY <2>1 DEF ContextStep, CreateTask, Reduce, CreateConcurrentWork, CreateChild,
                Allreduce, Publish, Fetch, EndTask
  <2>2. ASSUME BackendStep PROVE program' = program
    BY <2>2 DEF BackendStep, CreateTaskForIndex, DropTaskCollection, RunTask,
                PerformAllreduce, Run, ReleasePublication
  <2>3. CASE Terminated \/ UNCHANGED vars
    BY <2>3 DEF Terminated, vars
  <2>. QED
    BY <2>1, <2>2, <2>3 DEF Next
<1>. QED
  BY <1>1, <1>2, PTL DEF Spec

\* The name of an index task tells its work and its number.
LEMMA IndexTaskNames ==
  ASSUME program \in Programs, NEW w, IsWork(w), NEW i \in DenseIndices(program[w].tasks)
  PROVE  Front(Append(w, i)) = w /\ Last(Append(w, i)) = i
<1>1. w \in Seq(Nat)
  BY ProgramsAssumption DEF IsWork
<1>2. i \in Nat
  BY DEF DenseIndices
<1>. QED
  BY <1>1, <1>2 DEF Front, Last

\* What the backend is told of the index task that an element belongs to, and
\* the front end of the elements of an index task, agree.
LEMMA TaskOfElement ==
  ASSUME program \in Programs, NEW w, IsWork(w), NEW e \in Elements
  PROVE  /\ TaskIndexFor(HandleRange, program[w].mapping, e) \in DenseIndices(program[w].tasks)
         /\ \A i \in DenseIndices(program[w].tasks) :
              e \in LocalIndicesFor(program[w].mapping, i)
                <=> i = TaskIndexFor(HandleRange, program[w].mapping, e)
<1>1. ManyToOne(program[w].mapping, Indices(HandleRange), DenseIndices(program[w].tasks))
  BY ProgramsAssumption DEF IsWork
<1>2. IndexOf(HandleRange, e) \in Indices(HandleRange)
  BY DEF Elements, Indices
<1>3. TaskIndexFor(HandleRange, program[w].mapping, e) \in DenseIndices(program[w].tasks)
  BY <1>1, <1>2 DEF TaskIndexFor, ManyToOne
<1>4. ASSUME NEW i \in DenseIndices(program[w].tasks)
      PROVE  LocalIndicesFor(program[w].mapping, i) =
               {x \in Elements : TaskIndexFor(HandleRange, program[w].mapping, x) = i}
  BY <1>1, SharesAgree, WordAssumption, HandleRangeAssumption DEF Elements
<1>. QED
  BY <1>3, <1>4

\* Whatever the ranges and mappings, if a program's mappings have all the
\* indices of a task backward: each element goes to exactly one index task,
\* the one the backend is told of (local_indices_for, task_index_for).
THEOREM ElementsSharedOut == Spec => []SharedOut
<1>1. ASSUME program \in Programs PROVE SharedOut
  <2>. SUFFICES ASSUME NEW w \in Contexts, IsWork(w), NEW e \in Elements
                PROVE  LET takers == {t \in IndexTasks(w) \cap Contexts : e \in LocalElements(t)}
                       IN  /\ IF HandedOut(w, e) THEN Cardinality(takers) = 1
                                                 ELSE takers = {}
                           /\ IndexTasks(w) \subseteq Contexts => HandedOut(w, e)
    BY <1>1 DEF SharedOut
  <2>. DEFINE i == TaskIndexFor(HandleRange, program[w].mapping, e)
              takers == {t \in IndexTasks(w) \cap Contexts : e \in LocalElements(t)}
  <2>1. i \in DenseIndices(program[w].tasks)
    BY <1>1, TaskOfElement
  <2>2. Append(w, i) \in IndexTasks(w)
    BY <2>1 DEF IndexTasks
  <2>3. HandedOut(w, e) <=> Append(w, i) \in Contexts
    BY DEF HandedOut
  <2>4. \A t \in IndexTasks(w) : e \in LocalElements(t) <=> t = Append(w, i)
    <3>. SUFFICES ASSUME NEW j \in DenseIndices(program[w].tasks)
                  PROVE  e \in LocalElements(Append(w, j)) <=> Append(w, j) = Append(w, i)
      BY DEF IndexTasks
    <3>1. /\ Front(Append(w, j)) = w /\ Last(Append(w, j)) = j
          /\ Last(Append(w, i)) = i
      BY <1>1, <2>1, IndexTaskNames
    <3>2. e \in LocalElements(Append(w, j)) <=> e \in LocalIndicesFor(program[w].mapping, j)
      BY <3>1 DEF LocalElements
    <3>3. e \in LocalIndicesFor(program[w].mapping, j) <=> j = i
      BY <1>1, TaskOfElement
    <3>4. j = i <=> Append(w, j) = Append(w, i)
      BY <3>1
    <3>. QED
      BY <3>2, <3>3, <3>4
  <2>5. takers = {Append(w, i)} \cap Contexts
    BY <2>2, <2>4
  <2>6. CASE Append(w, i) \in Contexts
    <3>1. takers = {Append(w, i)}
      BY <2>5, <2>6
    <3>2. Cardinality(takers) = 1
      BY <3>1, FS_Singleton
    <3>. QED
      BY <2>3, <2>6, <3>2
  <2>7. CASE Append(w, i) \notin Contexts
    BY <2>2, <2>3, <2>5, <2>7
  <2>. QED
    BY <2>6, <2>7
<1>. QED
  BY <1>1, ProgramStays, PTL

(***************************************************************************)
(* Names of contexts                                                       *)
(***************************************************************************)
\* A name that is made from another: it tells what it was made from, and is
\* beneath what that one is beneath.
LEMMA NamesMade ==
  ASSUME NEW c \in Seq(Nat), NEW n \in Nat
  PROVE  /\ Append(c, n) \in Seq(Nat)
         /\ Append(c, n) # << >>
         /\ Append(c, n) # c
         /\ Front(Append(c, n)) = c
         /\ Last(Append(c, n)) = n
         /\ IsStrictPrefix(c, Append(c, n))
         /\ \A w \in Seq(Nat) : IsStrictPrefix(w, c) => IsStrictPrefix(w, Append(c, n))
<1>1. /\ Append(c, n) \in Seq(Nat)
      /\ Append(c, n) # << >>
      /\ Len(Append(c, n)) = Len(c) + 1
      /\ \A i \in 1..Len(c) : Append(c, n)[i] = c[i]
      /\ Append(c, n)[Len(c) + 1] = n
      /\ Len(c) \in Nat
  BY AppendProperties, LenProperties
<1>2. Append(c, n) # c
  BY <1>1
<1>3. Front(Append(c, n)) = c /\ Last(Append(c, n)) = n
  BY <1>1 DEF Front, Last
<1>4. ASSUME NEW w \in Seq(Nat), w = c \/ IsStrictPrefix(w, c)
      PROVE  IsStrictPrefix(w, Append(c, n))
  <2>1. Len(w) \in Nat /\ Len(w) <= Len(c)
    BY <1>1, <1>4, LenProperties DEF IsStrictPrefix, IsPrefix
  <2>2. SubSeq(w, 1, Len(w)) = SubSeq(c, 1, Len(w))
    BY <1>4 DEF IsStrictPrefix, IsPrefix
  <2>3. SubSeq(Append(c, n), 1, Len(w)) = SubSeq(c, 1, Len(w))
    <3>1. 1..Len(w) \subseteq 1..Len(c)
      BY <1>1, <2>1
    <3>2. \A i \in 1..Len(w) : Append(c, n)[i] = c[i]
      BY <1>1, <3>1
    <3>. QED
      BY <1>1, <2>1, <3>2
  <2>4. w # Append(c, n)
    BY <1>1, <2>1
  <2>5. Len(w) <= Len(Append(c, n))
    BY <1>1, <2>1
  <2>6. SubSeq(w, 1, Len(w)) = SubSeq(Append(c, n), 1, Len(w))
    BY <2>2, <2>3
  <2>. QED
    BY <2>4, <2>5, <2>6, Zenon DEF IsStrictPrefix, IsPrefix
<1>. QED
  BY <1>1, <1>2, <1>3, <1>4

\* The index tasks of works, and what index tasks make.
IsIndexName(c) == \E w \in Contexts : IsWork(w) /\ c \in IndexTasks(w)
IsChildName(c) ==
  \E t \in Contexts : IsIndexName(t) /\
    \E n \in DOMAIN program[Front(t)].body : c = Append(t, n)

\* Contexts have names, by what made them.
Named ==
  /\ program \in Programs
  /\ \A c \in Contexts : c = Root \/ c \in DOMAIN program \/ IsIndexName(c) \/ IsChildName(c)

\* A name of the program is a sequence, and nothing of the program is beneath
\* a work.
LEMMA ProgramNames ==
  ASSUME Named, NEW p \in DOMAIN program
  PROVE  /\ p \in Seq(Nat)
         /\ p # Root
         /\ program[p].do \in {"task", "reduce", "work"}
         /\ \A w : IsWork(w) => ~IsStrictPrefix(w, p)
<1>1. p \in Seq(Nat \ {0}) /\ p # << >>
  BY ProgramsAssumption DEF Named
<1>2. p \in Seq(Nat)
  <2>1. \A i \in 1..Len(p) : p[i] \in Nat
    BY <1>1
  <2>. QED
    BY <1>1, <2>1
<1>3. ASSUME NEW w, IsWork(w) PROVE ~IsStrictPrefix(w, p)
  BY <1>3, ProgramsAssumption DEF Named, IsWork
<1>. QED
  BY <1>1, <1>2, <1>3, ProgramsAssumption DEF Named, Root

\* What is known of a work.
LEMMA WorkNames ==
  ASSUME Named, NEW w, IsWork(w)
  PROVE  /\ w \in Seq(Nat)
         /\ w \in DOMAIN program
         /\ w # Root
         /\ program[w].body \in Seq(BodyOperations)
         /\ \A i \in DenseIndices(program[w].tasks) :
              i \in Nat /\ Append(w, i) \in Seq(Nat) /\ IsStrictPrefix(w, Append(w, i))
<1>1. w \in DOMAIN program
  BY DEF IsWork
<1>2. w \in Seq(Nat) /\ w # Root
  BY <1>1, ProgramNames
<1>3. program[w].body \in Seq(BodyOperations)
  BY <1>1, ProgramsAssumption DEF Named, IsWork
<1>4. ASSUME NEW i \in DenseIndices(program[w].tasks)
      PROVE  i \in Nat /\ Append(w, i) \in Seq(Nat) /\ IsStrictPrefix(w, Append(w, i))
  <2>1. i \in Nat
    BY DEF DenseIndices
  <2>. QED
    BY <1>2, <2>1, NamesMade
<1>. QED
  BY <1>1, <1>2, <1>3, <1>4

\* What is known of an index task of a work.
LEMMA IndexNames ==
  ASSUME Named, NEW w, IsWork(w), NEW t \in IndexTasks(w)
  PROVE  /\ t \in Seq(Nat)
         /\ t # Root
         /\ Front(t) = w
         /\ Last(t) \in DenseIndices(program[w].tasks)
         /\ IsIndexTask(t)
         /\ ~IsWork(t)
         /\ t \notin DOMAIN program
         /\ \A n \in Nat : /\ Append(t, n) \in Seq(Nat)
                           /\ IsStrictPrefix(w, Append(t, n))
                           /\ Append(t, n) \notin DOMAIN program
<1>1. PICK i \in DenseIndices(program[w].tasks) : t = Append(w, i)
  BY DEF IndexTasks
<1>2. w \in Seq(Nat) /\ i \in Nat /\ t \in Seq(Nat) /\ IsStrictPrefix(w, t)
  BY <1>1, WorkNames
<1>3. t # Root /\ Front(t) = w /\ Last(t) = i
  BY <1>1, <1>2, NamesMade DEF Root
<1>4. t \notin DOMAIN program
  BY <1>2, ProgramNames
<1>5. IsIndexTask(t) /\ ~IsWork(t)
  BY <1>3, <1>4 DEF IsIndexTask, IsWork
<1>6. ASSUME NEW n \in Nat
      PROVE  /\ Append(t, n) \in Seq(Nat)
             /\ IsStrictPrefix(w, Append(t, n))
             /\ Append(t, n) \notin DOMAIN program
  <2>1. Append(t, n) \in Seq(Nat) /\ IsStrictPrefix(w, Append(t, n))
    BY <1>2, NamesMade
  <2>. QED
    BY <2>1, ProgramNames
<1>. QED
  BY <1>1, <1>2, <1>3, <1>4, <1>5, <1>6

\* What is known of what an index task makes: it makes nothing.
LEMMA ChildNames ==
  ASSUME Named, NEW w, IsWork(w), NEW t \in IndexTasks(w), NEW n \in Nat
  PROVE  /\ Append(t, n) \in Seq(Nat)
         /\ Append(t, n) # Root
         /\ Front(Append(t, n)) = t
         /\ Last(Append(t, n)) = n
         /\ ~IsIndexTask(Append(t, n))
         /\ ~IsWork(Append(t, n))
         /\ Append(t, n) \notin DOMAIN program
         /\ \A k \in Nat : Append(Append(t, n), k) \notin DOMAIN program
<1>1. t \in Seq(Nat) /\ ~IsWork(t) /\ w \in Seq(Nat)
  BY IndexNames, WorkNames
<1>2. /\ Append(t, n) \in Seq(Nat) /\ Append(t, n) # Root
      /\ Front(Append(t, n)) = t /\ Last(Append(t, n)) = n
  BY <1>1, NamesMade DEF Root
<1>3. Append(t, n) \notin DOMAIN program /\ IsStrictPrefix(w, Append(t, n))
  BY IndexNames
<1>4. ASSUME NEW k \in Nat PROVE Append(Append(t, n), k) \notin DOMAIN program
  <2>1. IsStrictPrefix(w, Append(Append(t, n), k))
    BY <1>1, <1>2, <1>3, NamesMade
  <2>. QED
    BY <2>1, ProgramNames
<1>. QED
  BY <1>1, <1>2, <1>3, <1>4 DEF IsIndexTask, IsWork

\* A context that is named as an index task would be is one.
LEMMA IndexTasksNamed ==
  ASSUME Named, NEW c \in Contexts, IsIndexTask(c)
  PROVE  /\ Front(c) \in Contexts
         /\ IsWork(Front(c))
         /\ c \in IndexTasks(Front(c))
<1>1. c # Root /\ IsWork(Front(c))
  BY DEF IsIndexTask
<1>2. CASE c \in DOMAIN program
  <2>1. c \in Seq(Nat) /\ c # << >>
    BY <1>2, ProgramNames DEF Root
  <2>2. PICK s \in Seq(Nat), e \in Nat : c = Append(s, e)
    BY <2>1, SequenceEmptyOrAppend
  <2>3. Front(c) = s /\ IsStrictPrefix(s, c)
    BY <2>2, NamesMade
  <2>. QED
    BY <1>1, <1>2, <2>3, ProgramNames
<1>3. CASE IsIndexName(c)
  <2>1. PICK w \in Contexts : IsWork(w) /\ c \in IndexTasks(w)
    BY <1>3 DEF IsIndexName
  <2>2. Front(c) = w
    BY <2>1, IndexNames
  <2>. QED
    BY <2>1, <2>2
<1>4. CASE IsChildName(c)
  <2>5. PICK t \in Contexts :
          IsIndexName(t) /\ \E n \in DOMAIN program[Front(t)].body : c = Append(t, n)
    BY <1>4 DEF IsChildName
  <2>1. PICK n \in DOMAIN program[Front(t)].body : c = Append(t, n)
    BY <2>5
  <2>2. PICK w \in Contexts : IsWork(w) /\ t \in IndexTasks(w)
    BY <2>5 DEF IsIndexName
  <2>3. Front(t) = w
    BY <2>2, IndexNames
  <2>4. n \in Nat
    BY <2>1, <2>2, <2>3, WorkNames
  <2>. QED
    BY <1>1, <2>1, <2>2, <2>4, ChildNames
<1>. QED
  BY <1>1, <1>2, <1>3, <1>4 DEF Named

(***************************************************************************)
(* Flows and holders                                                       *)
(***************************************************************************)
FlowPlaces   == Places \ {"none"}
WholeFlows   == {NoFlow} \cup [owner : Seq(Nat), place : FlowPlaces]
ElementFlows == [owner : Seq(Nat), place : FlowPlaces, element : Elements]
FetchFlows   == [owner : Seq(Nat), place : FlowPlaces, element : Elements, version : Seq(Nat)]
AllFlows     == WholeFlows \cup ElementFlows \cup FetchFlows

\* A set of flows has those that a capture for an owner makes, or that any make.
HasMadeBy(flows, owner) ==
  NoFlow \in flows /\ \A place \in FlowPlaces : Flow(owner, place) \in flows

HasMade(flows) == WholeFlows \subseteq flows

HasFlows(use, flows) ==
  use.in \in flows /\ use.out \in flows /\ use.anti_in \in flows /\ use.anti_out \in flows

\* The fields of holders and of uses.
HasFields(holder) ==
  /\ DOMAIN holder = {"use", "could_be_alias"}
  /\ DOMAIN holder.use = {"scheduling", "immediate", "in", "out", "anti_in", "anti_out", "data"}

IsHolderOf(holder, flows) ==
  /\ HasFields(holder)
  /\ PermissionsOf(holder.use) \in PermissionPairs
  /\ HasFlows(holder.use, flows)
  /\ holder.could_be_alias \in BOOLEAN

HoldersHave(holders, flows) == \A k \in DOMAIN holders : IsHolderOf(holders[k], flows)

\* What the proofs call flows has the type of one.
LEMMA FlowsAreFlows ==
  /\ NoFlow \in WholeFlows
  /\ \A f \in AllFlows : IsFlow(f)
<1>1. NoFlow \in WholeFlows
  BY DEF WholeFlows
<1>2. IsFlow(NoFlow)
  <2>1. DOMAIN NoFlow = {"owner", "place"} /\ NoFlow.owner = << >> /\ NoFlow.place = "none"
    BY DEF NoFlow, Flow
  <2>. QED
    BY <2>1 DEF IsFlow, Places
<1>3. ASSUME NEW f \in [owner : Seq(Nat), place : FlowPlaces] PROVE IsFlow(f)
  <2>1. DOMAIN f = {"owner", "place"} /\ f.owner \in Seq(Nat) /\ f.place \in Places
    BY DEF FlowPlaces
  <2>. QED
    BY <2>1 DEF IsFlow
<1>4. ASSUME NEW f \in ElementFlows PROVE IsFlow(f)
  <2>1. /\ DOMAIN f = {"owner", "place"} \cup {"element"}
        /\ f.owner \in Seq(Nat) /\ f.place \in Places /\ f.place # "none" /\ f.element \in Elements
    BY DEF FlowPlaces, ElementFlows
  <2>. QED
    BY <2>1 DEF IsFlow
<1>5. ASSUME NEW f \in FetchFlows PROVE IsFlow(f)
  <2>1. /\ DOMAIN f = {"owner", "place"} \cup {"element", "version"}
        /\ f.owner \in Seq(Nat) /\ f.place \in Places /\ f.place # "none" /\ f.element \in Elements
        /\ f.version \in Seq(Nat)
    BY DEF FlowPlaces, FetchFlows
  <2>. QED
    BY <2>1 DEF IsFlow
<1>. QED
  BY <1>1, <1>2, <1>3, <1>4, <1>5 DEF AllFlows, WholeFlows

\* The part of a flow that is about one element, or about its publication.
LEMMA PartsAreFlows ==
  ASSUME NEW f \in WholeFlows, NEW e \in Elements, NEW w \in Seq(Nat)
  PROVE  /\ Indexed(f, e) \in {NoFlow} \cup ElementFlows
         /\ Fetching(f, w, e) \in {NoFlow} \cup FetchFlows
         /\ f # NoFlow => Fetching(f, w, e) \in FetchFlows
         /\ Indexed(f, e) = NoFlow <=> f = NoFlow
<1>1. ASSUME f # NoFlow
      PROVE  Indexed(f, e) \in ElementFlows /\ Fetching(f, w, e) \in FetchFlows
  BY <1>1 DEF WholeFlows, Indexed, Fetching, ElementFlows, FetchFlows
<1>2. ASSUME f = NoFlow PROVE Indexed(f, e) = NoFlow /\ Fetching(f, w, e) = NoFlow
  BY <1>2 DEF Indexed, Fetching
<1>3. NoFlow \notin ElementFlows
  <2>1. DOMAIN NoFlow = {"owner", "place"}
    BY DEF NoFlow, Flow
  <2>2. \A f1 \in ElementFlows : DOMAIN f1 = {"owner", "place", "element"}
    BY DEF ElementFlows
  <2>3. "element" \notin {"owner", "place"}
    OBVIOUS
  <2>. QED
    BY <2>1, <2>2, <2>3
<1>. QED
  BY <1>1, <1>2, <1>3

\* register_use makes flows of a set out of flows of that set.
LEMMA EstablishedWithin ==
  ASSUME NEW flows, NEW owner, HasMadeBy(flows, owner), NEW names, NEW known,
         \A name \in names : known[name] \in flows,
         NEW relationship, Within(relationship, names),
         NEW place \in FlowPlaces
  PROVE  Establish(relationship, known, Flow(owner, place)) \in flows
<1>1. Flow(owner, place) \in flows /\ NoFlow \in flows
  BY DEF HasMadeBy
<1>. QED
  BY <1>1 DEF Establish, Within

\* So are all flows of a use that is registered.
LEMMA RegisteredWithin ==
  ASSUME NEW flows, NEW owner, HasMadeBy(flows, owner), NEW names, NEW known,
         \A name \in names : known[name] \in flows,
         NEW relationships, RelationshipsOver(relationships, names),
         NEW places \in {CapturedPlaces, ContinuingPlaces}
  PROVE  HasFlows(RegisteredFlows(relationships, known, owner, places), flows)
<1>1. /\ places.in \in FlowPlaces /\ places.out \in FlowPlaces
      /\ places.anti_in \in FlowPlaces /\ places.anti_out \in FlowPlaces
  BY DEF CapturedPlaces, ContinuingPlaces, FlowPlaces, Places
<1>2. /\ Establish(relationships.in, known, Flow(owner, places.in)) \in flows
      /\ Establish(relationships.out, known, Flow(owner, places.out)) \in flows
      /\ Establish(relationships.anti_in, known, Flow(owner, places.anti_in)) \in flows
      /\ Establish(relationships.anti_out, known, Flow(owner, places.anti_out)) \in flows
  BY <1>1, EstablishedWithin DEF RelationshipsOver
<1>. QED
  BY <1>2 DEF RegisteredFlows, UseFlows, HasFlows

\* What a use is made with.
LEMMA UseMade ==
  ASSUME NEW permissions \in PermissionPairs, NEW flows, NEW data
  PROVE  LET use == MakeUse(permissions, flows, data)
         IN  /\ use.in = flows.in /\ use.out = flows.out
             /\ use.anti_in = flows.anti_in /\ use.anti_out = flows.anti_out
             /\ use.scheduling = permissions.scheduling
             /\ use.immediate = permissions.immediate
             /\ PermissionsOf(use) = permissions
BY DEF MakeUse, PermissionsOf, Perms, PermissionPairs

\* A use made with typed flows is one.
LEMMA UseTyped ==
  ASSUME NEW permissions \in PermissionPairs, NEW made, NEW flows, HasFlows(made, flows),
         NEW data
  PROVE  /\ HasFlows(MakeUse(permissions, made, data), flows)
         /\ PermissionsOf(MakeUse(permissions, made, data)) = permissions
BY UseMade DEF HasFlows

(***************************************************************************)
(* Captures                                                                *)
(***************************************************************************)
\* The case for a capture that is served is one of the table.
LEMMA CaseServes ==
  ASSUME NEW source, NEW request, <<source, request>> \in DOMAIN CaseFor
  PROVE  /\ source \in PermissionPairs
         /\ request \in PermissionPairs
         /\ CaseFor[<<source, request>>] \in CaptureCases
         /\ Matches(CaseFor[<<source, request>>], "Sequential", source, request)
         /\ request # NoRequest
<1> DEFINE asked == <<source, request>>
<1>1. /\ asked \in PermissionPairs \X PermissionPairs
      /\ CasesFor("Sequential", asked[1], asked[2]) # {}
      /\ CaseFor[asked] = CHOOSE case \in CasesFor("Sequential", asked[1], asked[2]) : TRUE
  BY Zenon DEF CaseFor
<1>2. CaseFor[asked] \in CasesFor("Sequential", source, request)
  BY <1>1
<1>3. source \in PermissionPairs /\ request \in PermissionPairs
  BY <1>1
<1>4. /\ CaseFor[asked] \in CaptureCases
      /\ Matches(CaseFor[asked], "Sequential", source, request)
  BY <1>2 DEF CasesFor
<1>5. ASSUME request = NoRequest PROVE FALSE
  <2>1. CaseFor[asked] \in {ScheduleReadFromRead, ScheduleReadFromScheduleOnly}
    <3>1. CaseFor[asked] = TheCase("Sequential", source, request)
      BY <1>4, CaseIsUnique DEF IsTheCase
    <3>2. request.immediate = None /\ request.scheduling # Modify
      BY <1>5 DEF NoRequest, Perms, None, Modify
    <3>3. TheCase("Sequential", source, request) \in {ScheduleReadFromRead, ScheduleReadFromScheduleOnly}
      BY <3>2 DEF TheCase, Among, SchedulersCase
    <3>. QED
      BY <3>1, <3>3
  <2>2. \A case \in {ScheduleReadFromRead, ScheduleReadFromScheduleOnly} :
          NoRequest \notin case.requests
    BY DEF ScheduleReadFromRead, ScheduleReadFromScheduleOnly, CaptureCaseNoNewContinuationUse,
           PermissionsAmong, NoRequest, Perms, None, Read
  <2>. QED
    BY <1>4, <1>5, <2>1, <2>2 DEF Matches
<1>. QED
  BY <1>3, <1>4, <1>5

\* What a capture makes, with the case that serves it.
LEMMA OutcomeIs ==
  ASSUME NEW source, NEW request, NEW owner
  PROVE  LET case == CaseFor[<<PermissionsOf(source.use), request>>]
         IN  OutcomeOf(source, request, owner) =
               Outcome(case, source, CapturedUse(case, source, request, owner), owner)
<1> DEFINE case == CaseFor[<<PermissionsOf(source.use), request>>]
           made == Outcome(case, source, CapturedUse(case, source, request, owner), owner)
           captured == CapturedUse(case, source, request, owner)
<1>1. Outcomes(source, request, owner) =
        UNION {{Outcome(c, source, use, owner) : use \in {CapturedUse(c, source, request, owner)}} :
               c \in {case}}
  BY DEF Outcomes
<1>2. {Outcome(case, source, use, owner) : use \in {captured}} = {made}
  OBVIOUS
<1>3. {{Outcome(c, source, use, owner) : use \in {CapturedUse(c, source, request, owner)}} :
         c \in {case}} = {{made}}
  BY <1>2
<1>4. UNION {{made}} = {made}
  OBVIOUS
<1>. QED
  BY <1>1, <1>3, <1>4 DEF OutcomeOf

\* The two holders of a capture: what they are made of.
MadeBy(case, source, request, owner, outcome) ==
  /\ Matches(case, "Sequential", PermissionsOf(source.use), request)
  /\ outcome.captured.use = CapturedUse(case, source, request, owner)
  /\ outcome.captured.could_be_alias = case.could_be_alias
  /\ HasFields(outcome.captured)
  /\ IF case.needs_new_continuation_use
     THEN /\ outcome.source.use =
               MakeUse(case.continuation,
                       RegisteredFlows(case.continuing,
                                       FlowsOfCapture(source.use, outcome.captured.use),
                                       owner, ContinuingPlaces),
                       FALSE)
          /\ outcome.source.could_be_alias = TRUE
          /\ HasFields(outcome.source)
     ELSE outcome.source = source

\* A capture that is served makes its holders by a case of the table.
LEMMA OutcomeMade ==
  ASSUME NEW source, NEW request,
         <<PermissionsOf(source.use), request>> \in DOMAIN CaseFor,
         NEW owner
  PROVE  \E case \in CaptureCases :
           MadeBy(case, source, request, owner, OutcomeOf(source, request, owner))
<1> DEFINE case == CaseFor[<<PermissionsOf(source.use), request>>]
           new == CapturedUse(case, source, request, owner)
           outcome == OutcomeOf(source, request, owner)
<1>1. case \in CaptureCases /\ Matches(case, "Sequential", PermissionsOf(source.use), request)
  BY CaseServes
<1>2. outcome = Outcome(case, source, new, owner)
  BY OutcomeIs
<1> HIDE DEF case, new, outcome
<1>3. /\ outcome.captured = Holder(new, case.could_be_alias)
      /\ outcome.source =
           IF case.needs_new_continuation_use
           THEN Holder(MakeUse(case.continuation,
                               RegisteredFlows(case.continuing, FlowsOfCapture(source.use, new),
                                               owner, ContinuingPlaces),
                               FALSE),
                       TRUE)
           ELSE source
  BY <1>2 DEF Outcome
<1>4. /\ outcome.captured.use = new
      /\ outcome.captured.could_be_alias = case.could_be_alias
      /\ HasFields(outcome.captured)
  BY <1>3 DEF Holder, HasFields, new, CapturedUse, MakeUse
<1>5. case.needs_new_continuation_use =>
        /\ outcome.source.use =
             MakeUse(case.continuation,
                     RegisteredFlows(case.continuing, FlowsOfCapture(source.use, new),
                                     owner, ContinuingPlaces),
                     FALSE)
        /\ outcome.source.could_be_alias = TRUE
        /\ HasFields(outcome.source)
  BY <1>3 DEF Holder, HasFields, MakeUse
<1>6. ~case.needs_new_continuation_use => outcome.source = source
  BY <1>3
<1>7. MadeBy(case, source, request, owner, outcome)
  BY <1>1, <1>4, <1>5, <1>6 DEF MadeBy, new
<1>. QED
  BY <1>1, <1>7 DEF outcome

\* Captures from holders of typed uses make such holders.
LEMMA OutcomeTyped ==
  ASSUME NEW flows, NEW owner, HasMadeBy(flows, owner),
         NEW source, IsHolderOf(source, flows),
         NEW request, <<PermissionsOf(source.use), request>> \in DOMAIN CaseFor
  PROVE  /\ IsHolderOf(OutcomeOf(source, request, owner).captured, flows)
         /\ IsHolderOf(OutcomeOf(source, request, owner).source, flows)
<1> DEFINE outcome == OutcomeOf(source, request, owner)
<1>1. PICK case \in CaptureCases : MadeBy(case, source, request, owner, outcome)
  BY OutcomeMade
<1> DEFINE new  == outcome.captured.use
           made == RegisteredFlows(case.captured, FlowsOfSource(source.use), owner, CapturedPlaces)
           left == RegisteredFlows(case.continuing, FlowsOfCapture(source.use, new),
                                   owner, ContinuingPlaces)
<1>2. WellShaped(case) /\ request \in PermissionPairs
  BY CaseShape, CaseServes
<1>3. HasFlows(made, flows)
  <2>1. \A name \in SourceNames : FlowsOfSource(source.use)[name] \in flows
    BY DEF IsHolderOf, HasFlows, SourceNames, FlowsOfSource
  <2>. QED
    BY <1>2, <2>1, RegisteredWithin DEF WellShaped
<1>4. HasFlows(new, flows) /\ PermissionsOf(new) = request
  <2>1. new = MakeUse(request, made, FALSE)
    BY <1>1 DEF MadeBy, CapturedUse
  <2> HIDE DEF new, made
  <2>. QED
    BY <1>2, <1>3, <2>1, UseTyped
<1>5. HasFlows(left, flows)
  <2>1. \A name \in CaptureNames : FlowsOfCapture(source.use, new)[name] \in flows
    BY <1>4 DEF IsHolderOf, HasFlows, SourceNames, CaptureNames, FlowsOfCapture
  <2>. QED
    BY <1>2, <2>1, RegisteredWithin DEF WellShaped
<1>6. IsHolderOf(outcome.captured, flows)
  BY <1>1, <1>2, <1>4 DEF IsHolderOf, WellShaped, MadeBy
<1>7. IsHolderOf(outcome.source, flows)
  <2>1. CASE case.needs_new_continuation_use
    <3>1. outcome.source.use = MakeUse(case.continuation, left, FALSE)
          /\ outcome.source.could_be_alias = TRUE
          /\ HasFields(outcome.source)
      BY <1>1, <2>1 DEF MadeBy
    <3>2. HasFlows(outcome.source.use, flows) /\ PermissionsOf(outcome.source.use) = case.continuation
      <4>1. case.continuation \in PermissionPairs
        BY <1>2 DEF WellShaped
      <4> HIDE DEF outcome, left
      <4>. QED
        BY <1>5, <3>1, <4>1, UseTyped
    <3>. QED
      BY <1>2, <3>1, <3>2 DEF IsHolderOf, WellShaped
  <2>2. CASE ~case.needs_new_continuation_use
    BY <1>1, <2>2 DEF MadeBy
  <2>. QED
    BY <2>1, <2>2
<1>. QED
  BY <1>6, <1>7

(***************************************************************************)
(* What stays so of contexts and holders                                   *)
(***************************************************************************)
\* A context was made by another one: an index task of a work, or at an
\* operation that was performed.
Numbered ==
  \A c \in Contexts \ {Root} :
    /\ Front(c) \in Contexts
    /\ ~IsWork(Front(c)) => Last(c) <= ops[Front(c)]

Stages ==
  \A c \in Contexts :
    status[c] \in IF IsWork(c) THEN {"registered", "done"}
                               ELSE {"pending", "running", "done"}

ContextsKept ==
  /\ Named
  /\ Root \in Contexts
  /\ DOMAIN ops = Contexts
  /\ \A c \in Contexts : ops[c] \in Nat
  /\ Numbered
  /\ Stages

Over(c) == c \in Contexts /\ status[c] = "done"

\* The holder of a work's collection is there for whoever may still use it.
CollectionsHeld ==
  \A w \in Contexts :
    IsWork(w) /\ (\E x \in IndexTasks(w) \cup {w} : ~Over(x)) => w \in DOMAIN collections

HoldersKept ==
  /\ DOMAIN collections \subseteq Contexts
  /\ HoldersHave(collections, WholeFlows)
  /\ DOMAIN handles \subseteq Contexts \X Data
  /\ HoldersHave(handles, AllFlows)

BackendKept ==
  /\ \A f \in DOMAIN alias : f \in AllFlows /\ alias[f] \in AllFlows
  /\ DOMAIN publications \subseteq Contexts \X Elements
  /\ \A f \in fetches : /\ f.of \in Contexts \X Elements
                        /\ f.by \in Contexts
                        /\ f.in \in {NoFlow} \cup FetchFlows

Kept == ContextsKept /\ CollectionsHeld /\ HoldersKept /\ BackendKept

(***************************************************************************)
(* What stays so of the flows that are produced                            *)
(***************************************************************************)
\* The flow that a context's capture of a single datum is to produce, and
\* the part of that of a whole collection that is about one element.
OwnOut(c, datum)   == Flow(Append(c, datum), "out")
PartOut(c, element) == Indexed(Flow(c, "out"), element)

TakerOf(w, element) == Append(w, TaskIndexFor(HandleRange, program[w].mapping, element))

KindsOfHolders ==
  /\ \A c \in DOMAIN collections : KindsKept(collections[c].use)
  /\ \A k \in DOMAIN handles : KindsKept(handles[k].use)
  /\ \A f \in DOMAIN alias : SameKind(f, alias[f])

OutsNamed ==
  /\ \A c \in DOMAIN collections : collections[c].use.out \in {NoFlow, Flow(c, "out")}
  /\ \A k \in DOMAIN handles :
       \/ handles[k].use.out = NoFlow
       \/ ~IsIndexTask(k[1]) /\ handles[k].use.out = OwnOut(k[1], k[2])
       \/ /\ IsIndexTask(k[1]) /\ k[2] \in LocalElements(k[1])
          /\ handles[k].use.out = PartOut(Front(k[1]), k[2])

\* Who is done holds nothing, but for works, whose collection may be used on,
\* and who hold no single elements.
LiveHolders ==
  /\ \A c \in DOMAIN collections : IsWork(c) \/ ~Over(c)
  /\ \A k \in DOMAIN handles : ~Over(k[1]) /\ (IsWork(k[1]) => k[2] = Parameter)

\* An element is published by the index task it is local to.
PublicationsMade ==
  \A p \in DOMAIN publications :
    /\ DOMAIN publications[p] = {"at", "use", "n_fetchers", "anti_out", "released"}
    /\ publications[p].use.out = NoFlow
    /\ IsWork(p[1])
    /\ \E n \in 1..ops[TakerOf(p[1], p[2])] :
         n \in DOMAIN program[p[1]].body /\ program[p[1]].body[n].do = "publish"
    /\ TakerOf(p[1], p[2]) \in Contexts

FetchesNamed ==
  \A f \in fetches : f.in # NoFlow => f.in.version = f.of[1] /\ f.in.element = f.of[2]

\* What was to be fetched has another name only once it is published.
VersionsPublished ==
  \A f \in DOMAIN alias :
    f \in FetchFlows /\ f.place \in DataPlaces => <<f.version, f.element>> \in DOMAIN publications

\* Out flows have another name only once nobody is to produce them any more.
OutsSettled ==
  \A f \in DOMAIN alias : f.place = "out" /\ f \notin FetchFlows =>
    \/ \E c \in Contexts : Over(c) /\ \E d \in Data : f = OwnOut(c, d)
    \/ \E c \in Contexts : \E e \in Elements :
         /\ f = PartOut(c, e)
         /\ IF IsWork(c) THEN Over(TakerOf(c, e)) ELSE Over(c)

OutsKept ==
  /\ KindsOfHolders
  /\ OutsNamed
  /\ LiveHolders
  /\ PublicationsMade
  /\ FetchesNamed
  /\ VersionsPublished
  /\ OutsSettled

(***************************************************************************)
(* Steps of contexts                                                       *)
(***************************************************************************)
\* What is known of the name of a context.
LEMMA ContextNames ==
  ASSUME ContextsKept, NEW c \in Contexts
  PROVE  /\ c \in Seq(Nat)
         /\ ops[c] \in Nat
         /\ Place(c) = Append(c, ops[c] + 1)
         /\ Place(c) \in Seq(Nat)
         /\ Place(c) # Root
         /\ Front(Place(c)) = c
         /\ Last(Place(c)) = ops[c] + 1
<1>1. c \in Seq(Nat)
  <2>1. CASE c = Root
    BY <2>1, EmptySeq DEF Root
  <2>2. CASE c \in DOMAIN program
    BY <2>2, ProgramNames DEF ContextsKept
  <2>3. CASE IsIndexName(c)
    BY <2>3, IndexNames DEF ContextsKept, IsIndexName
  <2>4. CASE IsChildName(c)
    <3>1. PICK t \in Contexts :
            IsIndexName(t) /\ \E n \in DOMAIN program[Front(t)].body : c = Append(t, n)
      BY <2>4 DEF IsChildName
    <3>2. PICK w \in Contexts : IsWork(w) /\ t \in IndexTasks(w)
      BY <3>1 DEF IsIndexName
    <3>3. PICK n \in DOMAIN program[Front(t)].body : c = Append(t, n)
      BY <3>1
    <3>4. Front(t) = w /\ n \in Nat
      BY <3>2, <3>3, IndexNames, WorkNames DEF ContextsKept
    <3>. QED
      BY <3>2, <3>3, <3>4, ChildNames DEF ContextsKept
  <2>. QED
    BY <2>1, <2>2, <2>3, <2>4 DEF ContextsKept, Named
<1>2. ops[c] \in Nat
  BY DEF ContextsKept
<1>. QED
  BY <1>1, <1>2, NamesMade DEF Place, Root

\* The place of what a running context makes next is that of no context.
LEMMA PlaceIsNew ==
  ASSUME ContextsKept, NEW c \in Contexts, status[c] = "running"
  PROVE  ~IsWork(c) /\ Place(c) \notin Contexts
<1>1. ~IsWork(c)
  BY DEF ContextsKept, Stages
<1>2. ASSUME Place(c) \in Contexts PROVE FALSE
  <2>1. Last(Place(c)) <= ops[c]
    BY <1>1, <1>2, ContextNames DEF ContextsKept, Numbered
  <2>. QED
    BY <2>1, ContextNames
<1>. QED
  BY <1>1, <1>2

\* Who creates tasks and works is no index task, and the operation is the one
\* at the next place.
LEMMA AboutProgram ==
  ASSUME ContextsKept, NEW c, NEW do \in {"task", "reduce", "work"}, About(c, do)
  PROVE  /\ c \in Contexts
         /\ status[c] = "running"
         /\ ~IsIndexTask(c)
         /\ Place(c) \in DOMAIN program
         /\ Operation(c) = program[Place(c)]
         /\ program[Place(c)].do = do
<1>1. c \in Contexts /\ status[c] = "running" /\ HasOperation(c) /\ Operation(c).do = do
  BY DEF About
<1>2. ASSUME IsIndexTask(c) PROVE FALSE
  <2>1. IsWork(Front(c))
    BY <1>2 DEF IsIndexTask
  <2>2. program[Front(c)].body \in Seq(BodyOperations)
    BY <2>1, WorkNames DEF ContextsKept
  <2>3. ops[c] + 1 \in 1..Len(program[Front(c)].body)
    BY <1>1, <1>2, <2>2 DEF HasOperation, ContextsKept
  <2>4. Operation(c) \in BodyOperations
    BY <1>2, <2>2, <2>3 DEF Operation
  <2>. QED
    BY <1>1, <2>4 DEF BodyOperations
<1>. QED
  BY <1>1, <1>2 DEF HasOperation, Operation

\* Who does what index tasks do is an index task, and has the operation in
\* the body of its work.
LEMMA AboutIndex ==
  ASSUME ContextsKept, NEW t, NEW do \in {"child", "allreduce", "publish", "fetch"}, About(t, do)
  PROVE  /\ t \in Contexts
         /\ status[t] = "running"
         /\ IsIndexTask(t)
         /\ Front(t) \in Contexts
         /\ IsWork(Front(t))
         /\ t \in IndexTasks(Front(t))
         /\ ops[t] + 1 \in DOMAIN program[Front(t)].body
         /\ Operation(t) = program[Front(t)].body[ops[t] + 1]
         /\ Operation(t) \in BodyOperations
         /\ Operation(t).do = do
<1>1. t \in Contexts /\ status[t] = "running" /\ HasOperation(t) /\ Operation(t).do = do
  BY DEF About
<1>2. ASSUME ~IsIndexTask(t) PROVE FALSE
  <2>1. Place(t) \in DOMAIN program /\ Operation(t) = program[Place(t)]
    BY <1>1, <1>2 DEF HasOperation, Operation
  <2>2. program[Place(t)].do \in {"task", "reduce", "work"}
    BY <2>1, ProgramNames DEF ContextsKept
  <2>. QED
    BY <1>1, <2>1, <2>2
<1>3. Front(t) \in Contexts /\ IsWork(Front(t)) /\ t \in IndexTasks(Front(t))
  BY <1>1, <1>2, IndexTasksNamed DEF ContextsKept
<1>4. program[Front(t)].body \in Seq(BodyOperations)
  BY <1>3, WorkNames DEF ContextsKept
<1>5. ops[t] + 1 \in 1..Len(program[Front(t)].body)
  BY <1>1, <1>2, <1>4 DEF HasOperation, ContextsKept
<1>. QED
  BY <1>1, <1>2, <1>3, <1>4, <1>5 DEF Operation

\* Elements and the parameter are numbers, and different ones.
LEMMA ElementsAreNumbers ==
  /\ Elements \subseteq Nat
  /\ Parameter \in Nat
  /\ Parameter \notin Elements
  /\ Elements \subseteq Data
  /\ Parameter \in Data
  /\ Data \subseteq Nat
BY HandleRangeAssumption DEF Elements, Parameter, Data, DenseIndices, PlainRange

\* New contexts, each with a name that tells what made it.
LEMMA ContextsGrow ==
  ASSUME ContextsKept, program' = program,
         NEW made, Contexts' = Contexts \cup made, DOMAIN ops' = Contexts',
         \A c \in Contexts' : ops'[c] \in Nat,
         \A c \in Contexts : ops[c] <= ops'[c],
         \A c \in made : c \in DOMAIN program \/ IsIndexName(c) \/ IsChildName(c),
         \A c \in made : /\ c # Root
                         /\ Front(c) \in Contexts
                         /\ ~IsWork(Front(c)) => Last(c) <= ops'[Front(c)],
         Stages'
  PROVE  ContextsKept'
<1>1. \A c : IsIndexName(c) => IsIndexName(c)'
  BY Zenon DEF IsIndexName, IsWork, IndexTasks
<1>2. \A c : IsChildName(c) => IsChildName(c)'
  <2>. SUFFICES ASSUME NEW c, IsChildName(c) PROVE IsChildName(c)'
    OBVIOUS
  <2>1. PICK t \in Contexts :
          IsIndexName(t) /\ \E n \in DOMAIN program[Front(t)].body : c = Append(t, n)
    BY DEF IsChildName
  <2>2. t \in Contexts' /\ IsIndexName(t)'
    BY <1>1, <2>1
  <2>3. \E n \in DOMAIN program'[Front(t)].body : c = Append(t, n)
    BY <2>1
  <2>. QED
    BY <2>2, <2>3 DEF IsChildName
<1>3. Named'
  <2>1. (program \in Programs)'
    BY DEF ContextsKept, Named
  <2>2. ASSUME NEW c \in Contexts'
        PROVE  (c = Root \/ c \in DOMAIN program \/ IsIndexName(c) \/ IsChildName(c))'
    <3>1. c = Root \/ c \in DOMAIN program \/ IsIndexName(c) \/ IsChildName(c)
      BY <2>2 DEF ContextsKept, Named
    <3>. QED
      BY <1>1, <1>2, <3>1 DEF Root
  <2>. QED
    BY <2>1, <2>2 DEF Named
<1>4. Numbered'
  <2>1. ASSUME NEW c \in Contexts', c # Root
        PROVE  Front(c) \in Contexts' /\ (~IsWork(Front(c))' => Last(c) <= ops'[Front(c)])
    <3>1. CASE c \in Contexts
      <4>1. Front(c) \in Contexts /\ (~IsWork(Front(c)) => Last(c) <= ops[Front(c)])
        BY <2>1, <3>1 DEF ContextsKept, Numbered
      <4>2. IsWork(Front(c))' <=> IsWork(Front(c))
        BY DEF IsWork
      <4>3. c \in Seq(Nat) /\ Last(c) \in Nat
        <5>1. c \in Seq(Nat) /\ c # << >>
          BY <2>1, <3>1, ContextNames DEF Root
        <5>. QED
          BY <5>1 DEF Last
      <4>4. ops[Front(c)] \in Nat /\ ops'[Front(c)] \in Nat /\ ops[Front(c)] <= ops'[Front(c)]
        BY <4>1 DEF ContextsKept
      <4>. QED
        BY <4>1, <4>2, <4>3, <4>4
    <3>2. CASE c \in made
      BY <3>2 DEF IsWork
    <3>. QED
      BY <3>1, <3>2
  <2>. QED
    BY <2>1 DEF Numbered, Root
<1>. QED
  BY <1>3, <1>4 DEF ContextsKept

\* What keeps contexts and their operations keeps what is known of them.
LEMMA ContextsStay ==
  ASSUME ContextsKept, program' = program, ops' = ops, Contexts' = Contexts, Stages'
  PROVE  ContextsKept'
<1>. DEFINE made == {}
<1>1. DOMAIN ops' = Contexts' /\ Contexts' = Contexts \cup made
  BY DEF ContextsKept
<1>2. \A c \in Contexts : ops[c] \in Nat /\ ops[c] <= ops'[c]
  BY DEF ContextsKept
<1>3. \A c \in Contexts' : ops'[c] \in Nat
  BY <1>2
<1>4. \A c \in Contexts : ops[c] <= ops'[c]
  BY <1>2
<1>5. \A c \in made : FALSE
  OBVIOUS
<1>. HIDE DEF made
<1>. QED
  BY <1>1, <1>3, <1>4, <1>5, ContextsGrow

\* A running context performs its next operation.
LEMMA ContextsProceed ==
  ASSUME ContextsKept, program' = program, NEW c \in Contexts, status[c] = "running",
         NEW made \in {{}, {Place(c)}}, NEW state,
         made # {} =>
           /\ state = IF IsWork(Place(c)) THEN "registered" ELSE "pending"
           /\ \/ ~IsIndexTask(c) /\ Place(c) \in DOMAIN program
              \/ IsIndexTask(c) /\ ops[c] + 1 \in DOMAIN program[Front(c)].body,
         Proceed(c, made, state)
  PROVE  /\ ContextsKept'
         /\ Contexts' = Contexts \cup made
         /\ \A x \in Contexts : status'[x] = status[x]
         /\ \A x \in made : status'[x] = state
         /\ \A x \in Contexts : ops'[x] = IF x = c THEN ops[c] + 1 ELSE ops[x]
<1>1. Place(c) \notin Contexts
  BY PlaceIsNew
<1>2. /\ Contexts' = Contexts \cup made
      /\ \A x \in Contexts : status'[x] = status[x]
      /\ \A x \in made : status'[x] = state
  <2>1. status' = With(status, [x \in made |-> state])
    BY DEF Proceed
  <2>2. /\ DOMAIN status' = DOMAIN status \cup made
        /\ \A x \in made : status'[x] = state
        /\ \A x \in DOMAIN status \ made : status'[x] = status[x]
    BY <2>1 DEF With
  <2>. QED
    BY <1>1, <2>2 DEF Contexts
<1>3. /\ DOMAIN ops' = Contexts'
      /\ \A x \in Contexts : ops'[x] = IF x = c THEN ops[c] + 1 ELSE ops[x]
      /\ \A x \in made : ops'[x] = 0
  <2>1. ops' = [x \in DOMAIN ops \cup made |-> IF x = c THEN ops[c] + 1
                                               ELSE IF x \in made THEN 0 ELSE ops[x]]
    BY DEF Proceed
  <2>. QED
    BY <1>1, <1>2, <2>1 DEF ContextsKept
<1>4. \A x \in Contexts : ops[x] \in Nat
  BY DEF ContextsKept
<1>5. Stages'
  <2>1. \A x : IsWork(x)' <=> IsWork(x)
    BY DEF IsWork
  <2>. QED
    BY <1>2, <2>1 DEF Stages, ContextsKept
<1>6. ASSUME NEW x \in made
      PROVE  /\ x \in DOMAIN program \/ IsChildName(x)
             /\ x # Root /\ Front(x) \in Contexts
             /\ Last(x) <= ops'[Front(x)]
  <2>1. x = Place(c)
    BY <1>6
  <2>2. x # Root /\ Front(x) = c /\ Last(x) = ops[c] + 1 /\ x = Append(c, ops[c] + 1)
    BY <2>1, ContextNames
  <2>3. ASSUME IsIndexTask(c), ops[c] + 1 \in DOMAIN program[Front(c)].body PROVE IsChildName(x)
    <3>1. IsIndexName(c)
      BY <2>3, IndexTasksNamed DEF ContextsKept, IsIndexName
    <3>. QED
      BY <2>2, <2>3, <3>1 DEF IsChildName
  <2>4. ops'[c] = ops[c] + 1 /\ ops[c] \in Nat
    BY <1>3, <1>4
  <2>. QED
    BY <1>6, <2>1, <2>2, <2>3, <2>4
<1>7. ContextsKept'
  <2>1. \A x \in Contexts' : ops'[x] \in Nat
    BY <1>2, <1>3, <1>4
  <2>2. \A x \in Contexts : ops[x] <= ops'[x]
    BY <1>3, <1>4
  <2>. QED
    BY <1>2, <1>3, <1>5, <1>6, <2>1, <2>2, ContextsGrow
<1>. QED
  BY <1>2, <1>3, <1>7

(***************************************************************************)
(* Captures of a step                                                      *)
(***************************************************************************)
\* The elements an index task has to itself are those whose taker it is.
LEMMA TakersOfElements ==
  ASSUME Named, NEW w, IsWork(w)
  PROVE  /\ \A e \in Elements : TakerOf(w, e) \in IndexTasks(w)
         /\ \A t \in IndexTasks(w) :
              /\ LocalElements(t) \subseteq Elements
              /\ FetchedElements(t) \subseteq Elements
              /\ \A e \in Elements : e \in LocalElements(t) <=> t = TakerOf(w, e)
<1>1. program \in Programs
  BY DEF Named
<1>2. \A e \in Elements : TakerOf(w, e) \in IndexTasks(w)
  BY <1>1, TaskOfElement DEF TakerOf, IndexTasks
<1>3. ASSUME NEW t \in IndexTasks(w)
      PROVE  /\ LocalElements(t) \subseteq Elements
             /\ \A e \in Elements : e \in LocalElements(t) <=> t = TakerOf(w, e)
  <2>1. PICK i \in DenseIndices(program[w].tasks) : t = Append(w, i)
    BY DEF IndexTasks
  <2>2. Front(t) = w /\ Last(t) = i
    BY <1>1, <2>1, IndexTaskNames
  <2>3. LocalElements(t) = LocalIndicesFor(program[w].mapping, i)
    BY <2>2 DEF LocalElements
  <2>4. ManyToOne(program[w].mapping, Indices(HandleRange), DenseIndices(program[w].tasks))
    BY <1>1, ProgramsAssumption DEF IsWork
  <2>5. LocalIndicesFor(program[w].mapping, i) =
          {e \in Elements : TaskIndexFor(HandleRange, program[w].mapping, e) = i}
    BY <2>4, SharesAgree, WordAssumption, HandleRangeAssumption DEF Elements
  <2>6. ASSUME NEW e \in Elements
        PROVE  t = TakerOf(w, e) <=> TaskIndexFor(HandleRange, program[w].mapping, e) = i
    <3>1. TaskIndexFor(HandleRange, program[w].mapping, e) \in DenseIndices(program[w].tasks)
      BY <1>1, TaskOfElement
    <3>2. Last(TakerOf(w, e)) = TaskIndexFor(HandleRange, program[w].mapping, e)
      BY <1>1, <3>1, IndexTaskNames DEF TakerOf
    <3>. QED
      BY <2>1, <2>2, <3>2 DEF TakerOf
  <2>. QED
    BY <2>3, <2>5, <2>6
<1>. QED
  BY <1>2, <1>3 DEF FetchedElements

\* A holder stays as it is, or is what a capture leaves.
Continued(h, h2, k) ==
  \/ h2[k] = h[k]
  \/ \E request \in PermissionPairs, owner \in Seq(Nat) :
       Served(h, k, request) /\ h2[k] = OutcomeOf(h[k], request, owner).source

\* A holder is what a capture makes.
CapturedAt(h, h2, from, to, owner) ==
  \E request \in PermissionPairs :
    Served(h, from, request) /\ h2[to] = OutcomeOf(h[from], request, owner).captured

\* A context captures from what it holds, for what goes to a place.
CapturesHandles(h, h2, c, p) ==
  /\ DOMAIN h \subseteq DOMAIN h2
  /\ \A k \in DOMAIN h : Continued(h, h2, k)
  /\ \A k \in DOMAIN h2 \ DOMAIN h :
       \E d \in Data : k = <<p, d>> /\ CapturedAt(h, h2, <<c, d>>, k, Append(p, d))

CapturesCollection(h, h2, c, p) ==
  /\ DOMAIN h \subseteq DOMAIN h2
  /\ \A k \in DOMAIN h : Continued(h, h2, k)
  /\ \A k \in DOMAIN h2 \ DOMAIN h : k = p /\ CapturedAt(h, h2, c, p, p)

OneCapture(h, h2, from, to, request, owner) ==
  /\ DOMAIN h \subseteq DOMAIN h2
  /\ \A k \in DOMAIN h : Continued(h, h2, k)
  /\ \A k \in DOMAIN h2 \ DOMAIN h : k = to /\ CapturedAt(h, h2, from, to, owner)
  /\ request # NoRequest => to \in DOMAIN h2

\* One capture.
LEMMA CaptureIs ==
  ASSUME NEW h, NEW from, NEW to, to \notin DOMAIN h, NEW request, NEW owner \in Seq(Nat),
         Serves(h, from, request),
         NEW h2, h2 = Capture(h, from, to, request, owner)
  PROVE  OneCapture(h, h2, from, to, request, owner)
<1>1. CASE request = NoRequest
  <2>1. h2 = h
    BY <1>1 DEF Capture
  <2>. QED
    BY <1>1, <2>1 DEF OneCapture, Continued
<1>2. CASE request # NoRequest
  <2>. DEFINE outcome == OutcomeOf(h[from], request, owner)
              left    == [h EXCEPT ![from] = outcome.source]
              over    == Single(to, outcome.captured)
  <2>1. Served(h, from, request) /\ from \in DOMAIN h
    BY <1>2 DEF Serves, Served
  <2>2. request \in PermissionPairs
    BY <2>1, CaseServes DEF Served
  <2>3. h2 = With(left, over)
    BY <1>2 DEF Capture
  <2>4. DOMAIN left = DOMAIN h /\ DOMAIN over = {to} /\ over[to] = outcome.captured
    BY DEF Single
  <2>5. left[from] = outcome.source /\ \A k \in DOMAIN h \ {from} : left[k] = h[k]
    BY <2>1
  <2>. HIDE DEF left, over
  <2>6. /\ DOMAIN h2 = DOMAIN h \cup {to}
        /\ h2[to] = outcome.captured
        /\ \A k \in DOMAIN h : h2[k] = left[k]
    BY <2>3, <2>4 DEF With
  <2>7. \A k \in DOMAIN h : Continued(h, h2, k)
    BY <2>1, <2>2, <2>5, <2>6 DEF Continued
  <2>8. CapturedAt(h, h2, from, to, owner)
    BY <2>1, <2>2, <2>6 DEF CapturedAt
  <2>9. /\ DOMAIN h \subseteq DOMAIN h2
        /\ \A k \in DOMAIN h2 \ DOMAIN h : k = to
        /\ to \in DOMAIN h2
    BY <2>6
  <2>. QED
    BY <2>7, <2>8, <2>9 DEF OneCapture
<1>. QED
  BY <1>1, <1>2

\* The captures of single elements.
LEMMA CaptureElementsIs ==
  ASSUME NEW t \in Seq(Nat), NEW p \in Seq(Nat), NEW elements \in SUBSET Elements, NEW request,
         \A e \in elements : Served(handles, <<t, e>>, request),
         DOMAIN handles \subseteq Contexts \X Data,
         \A d \in Data : <<p, d>> \notin DOMAIN handles
  PROVE  CapturesHandles(handles, CaptureElements(elements, t, p, request), t, p)
<1>. DEFINE outcome(e) == OutcomeOf(handles[<<t, e>>], request, Append(p, e))
            left == [k \in DOMAIN handles |->
                       IF k[1] = t /\ k[2] \in elements THEN outcome(k[2]).source ELSE handles[k]]
            over == [k \in {<<p, e>> : e \in elements} |-> outcome(k[2]).captured]
            h2   == CaptureElements(elements, t, p, request)
<1>1. h2 = With(left, over)
  BY DEF CaptureElements
<1>2. ASSUME NEW e \in elements
      PROVE  e \in Data /\ Append(p, e) \in Seq(Nat) /\ request \in PermissionPairs
  <2>1. e \in Data /\ e \in Nat
    BY ElementsAreNumbers
  <2>2. <<PermissionsOf(handles[<<t, e>>].use), request>> \in DOMAIN CaseFor
    BY DEF Served
  <2>3. request \in PermissionPairs
    BY <2>2, CaseServes
  <2>. QED
    BY <2>1, <2>3
<1>3. ASSUME NEW k \in DOMAIN handles PROVE Continued(handles, left, k)
  <2>1. CASE k[1] = t /\ k[2] \in elements
    <3>1. k = <<t, k[2]>>
      BY <2>1
    <3>2. Served(handles, k, request)
      BY <2>1, <3>1
    <3>3. left[k] = OutcomeOf(handles[k], request, Append(p, k[2])).source
      BY <2>1, <3>1
    <3>4. request \in PermissionPairs /\ Append(p, k[2]) \in Seq(Nat)
      BY <1>2, <2>1
    <3>. QED
      BY <3>2, <3>3, <3>4 DEF Continued
  <2>2. CASE ~(k[1] = t /\ k[2] \in elements)
    <3>1. left[k] = handles[k]
      BY <2>2
    <3>. QED
      BY <3>1 DEF Continued
  <2>. QED
    BY <2>1, <2>2
<1>4. /\ DOMAIN left = DOMAIN handles
      /\ DOMAIN over = {<<p, e>> : e \in elements}
      /\ \A e \in elements : over[<<p, e>>] = outcome(e).captured
  OBVIOUS
<1>. HIDE DEF left, over, h2
<1>5. /\ DOMAIN h2 = DOMAIN handles \cup {<<p, e>> : e \in elements}
      /\ \A e \in elements : h2[<<p, e>>] = outcome(e).captured
  BY <1>1, <1>4 DEF With
<1>6. \A k \in DOMAIN handles : h2[k] = left[k]
  <2>1. \A k \in DOMAIN handles : k \notin DOMAIN over
    BY <1>2, <1>4
  <2>. QED
    BY <1>1, <1>4, <2>1 DEF With
<1>7. \A k \in DOMAIN handles : Continued(handles, h2, k)
  BY <1>3, <1>6 DEF Continued
<1>8. ASSUME NEW k \in DOMAIN h2 \ DOMAIN handles
      PROVE  \E d \in Data : k = <<p, d>> /\ CapturedAt(handles, h2, <<t, d>>, k, Append(p, d))
  <2>1. PICK e \in elements : k = <<p, e>>
    BY <1>5
  <2>2. Served(handles, <<t, e>>, request) /\ h2[k] = outcome(e).captured
    BY <1>5, <2>1
  <2>3. CapturedAt(handles, h2, <<t, e>>, k, Append(p, e))
    BY <1>2, <2>2 DEF CapturedAt
  <2>. QED
    BY <1>2, <2>1, <2>3
<1>9. CapturesHandles(handles, h2, t, p)
  BY <1>5, <1>7, <1>8 DEF CapturesHandles
<1>. QED
  BY <1>9 DEF h2

(***************************************************************************)
(* Kinds of steps                                                          *)
(***************************************************************************)
\* A running context performs its next operation.
Operates(c, made, state) ==
  /\ c \in Contexts
  /\ status[c] = "running"
  /\ made \in {{}, {Place(c)}}
  /\ made # {} =>
       /\ state = IF IsWork(Place(c)) THEN "registered" ELSE "pending"
       /\ \/ ~IsIndexTask(c) /\ Place(c) \in DOMAIN program
          \/ IsIndexTask(c) /\ ops[c] + 1 \in DOMAIN program[Front(c)].body
  /\ Proceed(c, made, state)
  /\ program' = program

\* It captures for a new context, or publishes.
Captures(c, made, state) ==
  /\ Operates(c, made, state)
  /\ CapturesHandles(handles, handles', c, Place(c))
  /\ CapturesCollection(collections, collections', c, Place(c))
  /\ made = {} => DOMAIN handles' = DOMAIN handles /\ collections' = collections
  /\ made # {} /\ IsWork(Place(c)) => Place(c) \in DOMAIN collections'
  /\ IsWork(Place(c)) => \A k \in DOMAIN handles' \ DOMAIN handles : k[2] = Parameter
  /\ fetches' = fetches
  /\ UNCHANGED <<alias, publications>> \/ Publish(c)

RunsPending(contexts) ==
  /\ contexts \subseteq Contexts
  /\ \A c \in contexts : status[c] = "pending"
  /\ Run(contexts)

\* Creating a task, a reduction or a work.
LEMMA CreatesCaptures ==
  ASSUME Kept, NEW c, NEW do \in {"task", "reduce", "work"}, About(c, do),
         NEW whole, Serves(collections, c, whole), do = "work" => Served(collections, c, whole),
         NEW single, Serves(handles, <<c, Parameter>>, single),
         collections' = Capture(collections, c, Place(c), whole, Place(c)),
         handles' = Capture(handles, <<c, Parameter>>, <<Place(c), Parameter>>, single,
                            Append(Place(c), Parameter)),
         NEW state, state = (IF do = "work" THEN "registered" ELSE "pending"),
         Proceed(c, {Place(c)}, state),
         UNCHANGED <<program, alias, publications, fetches>>
  PROVE  Captures(c, {Place(c)}, state)
<1>1. /\ c \in Contexts /\ status[c] = "running" /\ ~IsIndexTask(c)
      /\ Place(c) \in DOMAIN program /\ program[Place(c)].do = do
  BY AboutProgram DEF Kept
<1>2. IsWork(Place(c)) <=> do = "work"
  BY <1>1 DEF IsWork
<1>3. Operates(c, {Place(c)}, state)
  BY <1>1, <1>2 DEF Operates
<1>4. Place(c) \in Seq(Nat) /\ Append(Place(c), Parameter) \in Seq(Nat)
  BY <1>1, ContextNames, ElementsAreNumbers DEF Kept
<1>5. Place(c) \notin DOMAIN collections /\ <<Place(c), Parameter>> \notin DOMAIN handles
  BY <1>1, PlaceIsNew DEF Kept, HoldersKept
<1>6. OneCapture(collections, collections', c, Place(c), whole, Place(c))
  BY <1>4, <1>5, CaptureIs
<1>7. OneCapture(handles, handles', <<c, Parameter>>, <<Place(c), Parameter>>, single,
                 Append(Place(c), Parameter))
  BY <1>4, <1>5, CaptureIs
<1>8. IsWork(Place(c)) => Place(c) \in DOMAIN collections'
  <2>. SUFFICES ASSUME do = "work" PROVE Place(c) \in DOMAIN collections'
    BY <1>2
  <2>1. whole # NoRequest
    BY CaseServes DEF Served
  <2>. QED
    BY <1>6, <2>1 DEF OneCapture
<1>9. CapturesCollection(collections, collections', c, Place(c))
  BY <1>6 DEF OneCapture, CapturesCollection
<1>10. CapturesHandles(handles, handles', c, Place(c))
  BY <1>7, ElementsAreNumbers DEF OneCapture, CapturesHandles
<1>11. \A k \in DOMAIN handles' \ DOMAIN handles : k[2] = Parameter
  BY <1>7 DEF OneCapture
<1>. QED
  BY <1>3, <1>8, <1>9, <1>10, <1>11 DEF Captures

\* Captures of elements by an index task.
LEMMA IndexTaskCaptures ==
  ASSUME Kept, NEW t, NEW do \in {"child", "allreduce"}, About(t, do),
         NEW elements \in SUBSET Elements, NEW request,
         \A e \in elements : Served(handles, <<t, e>>, request),
         handles' = CaptureElements(elements, t, Place(t), request),
         Proceed(t, {Place(t)}, "pending"),
         UNCHANGED <<program, collections, alias, publications, fetches>>
  PROVE  Captures(t, {Place(t)}, "pending")
<1>1. /\ t \in Contexts /\ status[t] = "running" /\ IsIndexTask(t)
      /\ ops[t] + 1 \in DOMAIN program[Front(t)].body
      /\ Front(t) \in Contexts /\ IsWork(Front(t)) /\ t \in IndexTasks(Front(t))
  BY AboutIndex DEF Kept
<1>2. t \in Seq(Nat) /\ Place(t) \in Seq(Nat) /\ ops[t] \in Nat /\ Place(t) = Append(t, ops[t] + 1)
  BY <1>1, ContextNames DEF Kept
<1>3. ~IsWork(Place(t))
  BY <1>1, <1>2, ChildNames DEF Kept, ContextsKept
<1>4. Operates(t, {Place(t)}, "pending")
  BY <1>1, <1>3 DEF Operates
<1>5. DOMAIN handles \subseteq Contexts \X Data /\ \A d \in Data : <<Place(t), d>> \notin DOMAIN handles
  BY <1>1, PlaceIsNew DEF Kept, HoldersKept
<1>6. CapturesHandles(handles, handles', t, Place(t))
  BY <1>2, <1>5, CaptureElementsIs
<1>7. CapturesCollection(collections, collections', t, Place(t))
  BY DEF CapturesCollection, Continued
<1>. QED
  BY <1>3, <1>4, <1>6, <1>7 DEF Captures

\* Publishing.
LEMMA PublishCaptures ==
  ASSUME Kept, NEW t, Publish(t)
  PROVE  Captures(t, {}, "pending")
<1>1. /\ t \in Contexts /\ status[t] = "running"
      /\ Front(t) \in Contexts /\ IsWork(Front(t)) /\ t \in IndexTasks(Front(t))
  BY AboutIndex DEF Kept, Publish
<1>2. Place(t) \in Seq(Nat)
  BY <1>1, ContextNames DEF Kept
<1>. DEFINE outcome(e) == OutcomeOf(handles[<<t, e>>], Perms(None, Read), Append(Place(t), e))
<1>3. /\ handles' = [k \in DOMAIN handles |->
                       IF k[1] = t /\ k[2] \in PublishedElements(t)
                       THEN outcome(k[2]).source
                       ELSE handles[k]]
      /\ \A e \in PublishedElements(t) : Served(handles, <<t, e>>, Perms(None, Read))
      /\ Proceed(t, {}, "pending")
      /\ program' = program /\ collections' = collections /\ fetches' = fetches
  BY DEF Publish
<1>4. Operates(t, {}, "pending")
  BY <1>1, <1>3 DEF Operates
<1>5. PublishedElements(t) \subseteq Elements
  BY <1>1, TakersOfElements DEF PublishedElements, Kept, ContextsKept
<1>6. ASSUME NEW k \in DOMAIN handles PROVE Continued(handles, handles', k)
  <2>1. CASE k[1] = t /\ k[2] \in PublishedElements(t)
    <3>1. k = <<t, k[2]>>
      BY <2>1 DEF Kept, HoldersKept
    <3>2. Served(handles, k, Perms(None, Read))
      BY <1>3, <2>1, <3>1
    <3>3. handles'[k] = OutcomeOf(handles[k], Perms(None, Read), Append(Place(t), k[2])).source
      BY <1>3, <2>1, <3>1
    <3>4. Perms(None, Read) \in PermissionPairs
      BY DEF Perms, PermissionPairs, Permissions, None, Read, Modify
    <3>5. Append(Place(t), k[2]) \in Seq(Nat)
      <4>1. k[2] \in Nat
        BY <1>5, <2>1, ElementsAreNumbers
      <4>. QED
        BY <1>2, <4>1
    <3>. QED
      BY <3>2, <3>3, <3>4, <3>5 DEF Continued
  <2>2. CASE ~(k[1] = t /\ k[2] \in PublishedElements(t))
    <3>1. handles'[k] = handles[k]
      BY <1>3, <2>2
    <3>. QED
      BY <3>1 DEF Continued
  <2>. QED
    BY <2>1, <2>2
<1>7. DOMAIN handles' = DOMAIN handles
  BY <1>3
<1>8. CapturesHandles(handles, handles', t, Place(t))
  BY <1>6, <1>7 DEF CapturesHandles
<1>9. CapturesCollection(collections, collections', t, Place(t))
  BY <1>3 DEF CapturesCollection, Continued
<1>. QED
  BY <1>3, <1>4, <1>7, <1>8, <1>9 DEF Captures

\* What any step is.
LEMMA StepKinds ==
  ASSUME Kept, [Next]_vars
  PROVE  \/ \E c : \E made, state : Captures(c, made, state)
         \/ \E t \in Contexts : Fetch(t)
         \/ \E w \in Contexts : CreateTaskForIndex(w)
         \/ \E w \in Contexts : DropTaskCollection(w)
         \/ \E c \in Contexts : EndTask(c)
         \/ \E contexts : RunsPending(contexts)
         \/ \E p \in DOMAIN publications : ReleasePublication(p)
         \/ UNCHANGED vars
<1>1. ASSUME NEW c \in Contexts, CreateTask(c) PROVE \E made, state : Captures(c, made, state)
  <2>1. Captures(c, {Place(c)}, "pending")
    <3>1. /\ About(c, "task")
          /\ Serves(collections, c, Operation(c).collection)
          /\ Serves(handles, <<c, Parameter>>, Operation(c).parameter)
          /\ collections' = Capture(collections, c, Place(c), Operation(c).collection, Place(c))
          /\ handles' = Capture(handles, <<c, Parameter>>, <<Place(c), Parameter>>,
                                Operation(c).parameter, Append(Place(c), Parameter))
          /\ Proceed(c, {Place(c)}, "pending")
          /\ UNCHANGED <<program, alias, publications, fetches>>
      BY <1>1 DEF CreateTask
    <3>. QED
      BY <3>1, CreatesCaptures
  <2>. QED
    BY <2>1
<1>2. ASSUME NEW c \in Contexts, Reduce(c) PROVE \E made, state : Captures(c, made, state)
  <2>1. Captures(c, {Place(c)}, "pending")
    <3>1. /\ About(c, "reduce")
          /\ Serves(collections, c, Perms(None, Read))
          /\ Serves(handles, <<c, Parameter>>, Perms(None, Modify))
          /\ collections' = Capture(collections, c, Place(c), Perms(None, Read), Place(c))
          /\ handles' = Capture(handles, <<c, Parameter>>, <<Place(c), Parameter>>,
                                Perms(None, Modify), Append(Place(c), Parameter))
          /\ Proceed(c, {Place(c)}, "pending")
          /\ UNCHANGED <<program, alias, publications, fetches>>
      BY <1>2 DEF Reduce, Serves
    <3>. QED
      BY <3>1, CreatesCaptures
  <2>. QED
    BY <2>1
<1>3. ASSUME NEW c \in Contexts, CreateConcurrentWork(c)
      PROVE  \E made, state : Captures(c, made, state)
  <2>1. Captures(c, {Place(c)}, "registered")
    <3>1. /\ About(c, "work")
          /\ Serves(collections, c, Operation(c).request)
          /\ Served(collections, c, Operation(c).request)
          /\ Serves(handles, <<c, Parameter>>, Operation(c).shared)
          /\ collections' = Capture(collections, c, Place(c), Operation(c).request, Place(c))
          /\ handles' = Capture(handles, <<c, Parameter>>, <<Place(c), Parameter>>,
                                Operation(c).shared, Append(Place(c), Parameter))
          /\ Proceed(c, {Place(c)}, "registered")
          /\ UNCHANGED <<program, alias, publications, fetches>>
      BY <1>3 DEF CreateConcurrentWork, Serves
    <3>. QED
      BY <3>1, CreatesCaptures
  <2>. QED
    BY <2>1
<1>4. ASSUME NEW t \in Contexts, CreateChild(t) PROVE \E made, state : Captures(t, made, state)
  <2>. DEFINE elements == IF Operation(t).of = "fetched" THEN FetchedElements(t) ELSE LocalElements(t)
  <2>1. /\ About(t, "child")
        /\ \A e \in elements : Served(handles, <<t, e>>, Operation(t).request)
        /\ handles' = CaptureElements(elements, t, Place(t), Operation(t).request)
        /\ Proceed(t, {Place(t)}, "pending")
        /\ UNCHANGED <<program, collections, alias, publications, fetches>>
    BY <1>4 DEF CreateChild
  <2>2. elements \in SUBSET Elements
    BY <2>1, AboutIndex, TakersOfElements DEF Kept, ContextsKept
  <2>. HIDE DEF elements
  <2>3. Captures(t, {Place(t)}, "pending")
    BY <2>1, <2>2, IndexTaskCaptures
  <2>. QED
    BY <2>3
<1>5. ASSUME NEW t \in Contexts, Allreduce(t) PROVE \E made, state : Captures(t, made, state)
  <2>1. /\ About(t, "allreduce")
        /\ \A e \in LocalElements(t) : Served(handles, <<t, e>>, Perms(None, Modify))
        /\ handles' = CaptureElements(LocalElements(t), t, Place(t), Perms(None, Modify))
        /\ Proceed(t, {Place(t)}, "pending")
        /\ UNCHANGED <<program, collections, alias, publications, fetches>>
    BY <1>5 DEF Allreduce
  <2>2. LocalElements(t) \in SUBSET Elements
    BY <2>1, AboutIndex, TakersOfElements DEF Kept, ContextsKept
  <2>3. Captures(t, {Place(t)}, "pending")
    BY <2>1, <2>2, IndexTaskCaptures
  <2>. QED
    BY <2>3
<1>6. ASSUME NEW t \in Contexts, Publish(t) PROVE \E made, state : Captures(t, made, state)
  BY <1>6, PublishCaptures
<1>7. ASSUME NEW c \in Contexts, RunTask(c) PROVE \E contexts : RunsPending(contexts)
  <2>1. RunsPending({c})
    BY <1>7 DEF RunTask, Runnable, RunsPending
  <2>. QED
    BY <2>1
<1>8. ASSUME NEW w \in Contexts, PerformAllreduce(w) PROVE \E contexts : RunsPending(contexts)
  <2>1. PICK n \in DOMAIN program[w].body :
          /\ Contributions(w, n) \subseteq Contexts
          /\ \A c \in Contributions(w, n) : Runnable(c)
          /\ Run(Contributions(w, n))
    BY <1>8 DEF PerformAllreduce
  <2>2. RunsPending(Contributions(w, n))
    BY <2>1 DEF Runnable, RunsPending
  <2>. QED
    BY <2>2
<1>9. ASSUME NEW c \in Contexts, ContextStep(c)
      PROVE  \/ \E made, state : Captures(c, made, state)
             \/ Fetch(c)
             \/ EndTask(c)
  BY <1>1, <1>2, <1>3, <1>4, <1>5, <1>6, <1>9 DEF ContextStep
<1>10. CASE \E c \in Contexts : ContextStep(c)
  BY <1>9, <1>10
<1>11. CASE BackendStep
  BY <1>7, <1>8, <1>11 DEF BackendStep
<1>12. CASE Terminated \/ UNCHANGED vars
  BY <1>12 DEF Terminated
<1>. QED
  BY <1>10, <1>11, <1>12 DEF Next

(***************************************************************************)
(* Every step keeps the types                                              *)
(***************************************************************************)
\* All flows and those of whole collections have what captures make.
LEMMA AllAreMade == HasMade(WholeFlows) /\ HasMade(AllFlows)
BY DEF HasMade, AllFlows

\* They have what any owner makes.
LEMMA MadeByEach ==
  ASSUME NEW flows, HasMade(flows), NEW owner \in Seq(Nat)
  PROVE  HasMadeBy(flows, owner)
BY DEF HasMade, HasMadeBy, WholeFlows, Flow

\* What is left to a typed holder is one.
LEMMA ContinuedTyped ==
  ASSUME NEW flows, HasMade(flows), NEW h, NEW h2, NEW k, IsHolderOf(h[k], flows),
         Continued(h, h2, k)
  PROVE  IsHolderOf(h2[k], flows)
<1>1. CASE h2[k] = h[k]
  BY <1>1
<1>2. CASE h2[k] # h[k]
  <2>1. PICK request \in PermissionPairs, owner \in Seq(Nat) :
          Served(h, k, request) /\ h2[k] = OutcomeOf(h[k], request, owner).source
    BY <1>2 DEF Continued
  <2>2. <<PermissionsOf(h[k].use), request>> \in DOMAIN CaseFor
    BY <2>1 DEF Served
  <2>. QED
    BY <2>1, <2>2, MadeByEach, OutcomeTyped
<1>. QED
  BY <1>1, <1>2

\* What is captured from a typed holder is one.
LEMMA CapturedTyped ==
  ASSUME NEW flows, HasMade(flows), NEW h, NEW h2, HoldersHave(h, flows), NEW from, NEW to,
         NEW owner \in Seq(Nat), CapturedAt(h, h2, from, to, owner)
  PROVE  IsHolderOf(h2[to], flows) /\ from \in DOMAIN h
<1>1. PICK request \in PermissionPairs :
        Served(h, from, request) /\ h2[to] = OutcomeOf(h[from], request, owner).captured
  BY DEF CapturedAt
<1>2. <<PermissionsOf(h[from].use), request>> \in DOMAIN CaseFor /\ from \in DOMAIN h
  BY <1>1 DEF Served
<1>3. IsHolderOf(h[from], flows)
  BY <1>2 DEF HoldersHave
<1>. QED
  BY <1>1, <1>2, <1>3, MadeByEach, OutcomeTyped

\* What has another name once links are established, and which.
LEMMA AliasesAre ==
  ASSUME NEW links, NEW f \in DOMAIN EstablishAliases(links)
  PROVE  /\ \/ f \in DOMAIN alias
            \/ \E l \in links : NoFlow \notin {l[1], l[2]} /\ f = Representative(alias, l[1])
         /\ \/ f \in DOMAIN alias /\ EstablishAliases(links)[f] = alias[f]
            \/ \E l \in links :
                 /\ NoFlow \notin {l[1], l[2]}
                 /\ Representative(alias, l[1]) = Representative(alias, f)
                 /\ EstablishAliases(links)[f] = Representative(alias, l[2])
<1>. DEFINE new == {l \in links : NoFlow \notin {l[1], l[2]} /\ ~Equivalent(alias, l[1], l[2])}
            of(g) == {l \in new : Equivalent(alias, l[1], g)}
            b == [g \in DOMAIN alias \cup {Representative(alias, l[1]) : l \in new} |->
                    IF of(g) = {} THEN alias[g]
                    ELSE Representative(alias, (CHOOSE l \in of(g) : TRUE)[2])]
<1>1. EstablishAliases(links) = b
  BY DEF EstablishAliases
<1>2. f \in DOMAIN alias \/ \E l \in new : f = Representative(alias, l[1])
  BY <1>1
<1>3. CASE of(f) = {}
  <2>1. f \in DOMAIN alias
    BY <1>2, <1>3 DEF Equivalent, Representative
  <2>2. b[f] = alias[f]
    BY <1>3, <2>1
  <2>. QED
    BY <1>1, <2>1, <2>2
<1>4. CASE of(f) # {}
  <2>1. PICK l \in of(f) : b[f] = Representative(alias, l[2])
    <3>1. (CHOOSE l \in of(f) : TRUE) \in of(f)
      BY <1>4
    <3>2. b[f] = Representative(alias, (CHOOSE l \in of(f) : TRUE)[2])
      BY <1>1, <1>4
    <3>. QED
      BY <3>1, <3>2
  <2>2. /\ l \in links /\ NoFlow \notin {l[1], l[2]}
        /\ Representative(alias, l[1]) = Representative(alias, f)
    BY DEF Equivalent
  <2>3. EstablishAliases(links)[f] = Representative(alias, l[2])
    BY <1>1, <2>1
  <2>. QED
    BY <1>2, <2>2, <2>3
<1>. QED
  BY <1>3, <1>4

AliasOf(flows) == \A f \in DOMAIN alias : f \in flows /\ alias[f] \in flows

\* Links of typed flows make typed aliases.
LEMMA AliasesTyped ==
  ASSUME NEW flows, AliasOf(flows), NEW links, \A l \in links : l[1] \in flows /\ l[2] \in flows,
         alias' = EstablishAliases(links)
  PROVE  AliasOf(flows)'
<1>1. \A g \in flows : Representative(alias, g) \in flows
  BY DEF Representative, AliasOf
<1>2. ASSUME NEW f \in DOMAIN alias' PROVE f \in flows /\ alias'[f] \in flows
  BY <1>1, <1>2, AliasesAre DEF AliasOf
<1>. QED
  BY <1>2 DEF AliasOf

\* What an index task of a work that goes on has of the work.
LEMMA WorkIsThere ==
  ASSUME Kept, NEW t, IsIndexTask(t), t \in Contexts, status[t] # "done"
  PROVE  /\ Front(t) \in Contexts
         /\ IsWork(Front(t))
         /\ t \in IndexTasks(Front(t))
         /\ Front(t) \in Seq(Nat)
         /\ Front(t) \in DOMAIN collections
         /\ IsHolderOf(collections[Front(t)], WholeFlows)
<1>1. Front(t) \in Contexts /\ IsWork(Front(t)) /\ t \in IndexTasks(Front(t))
  BY IndexTasksNamed DEF Kept, ContextsKept
<1>2. Front(t) \in DOMAIN collections
  BY <1>1 DEF Kept, CollectionsHeld, Over
<1>. QED
  BY <1>1, <1>2, ContextNames DEF Kept, HoldersKept, HoldersHave

\* The part of a use that is about one element.
LEMMA ViewOf ==
  ASSUME NEW holder, IsHolderOf(holder, WholeFlows), NEW e \in Elements
  PROVE  LET view == ElementView(holder.use, e)
         IN  /\ DOMAIN view = DOMAIN holder.use
             /\ view.in = Indexed(holder.use.in, e) /\ view.out = Indexed(holder.use.out, e)
             /\ view.anti_in = Indexed(holder.use.anti_in, e)
             /\ view.anti_out = Indexed(holder.use.anti_out, e)
             /\ view.scheduling = holder.use.scheduling
             /\ view.immediate = holder.use.immediate
             /\ PermissionsOf(view) \in PermissionPairs
             /\ HasFlows(view, AllFlows)
<1>. DEFINE view == ElementView(holder.use, e)
<1>1. DOMAIN holder.use = {"scheduling", "immediate", "in", "out", "anti_in", "anti_out", "data"}
  BY DEF IsHolderOf, HasFields
<1>2. /\ DOMAIN view = DOMAIN holder.use
      /\ view.in = Indexed(holder.use.in, e) /\ view.out = Indexed(holder.use.out, e)
      /\ view.anti_in = Indexed(holder.use.anti_in, e)
      /\ view.anti_out = Indexed(holder.use.anti_out, e)
      /\ view.scheduling = holder.use.scheduling
      /\ view.immediate = holder.use.immediate
  BY <1>1 DEF ElementView
<1>3. PermissionsOf(view) = PermissionsOf(holder.use)
  BY <1>2 DEF PermissionsOf
<1>4. HasFlows(view, AllFlows)
  <2>1. \A f \in WholeFlows : Indexed(f, e) \in AllFlows
    BY PartsAreFlows, EmptySeq, FlowsAreFlows DEF AllFlows
  <2>. QED
    BY <1>2, <2>1 DEF HasFlows, IsHolderOf
<1>. QED
  BY <1>2, <1>3, <1>4 DEF IsHolderOf

\* The flows that a publication of an element has.
LEMMA FetchingOf ==
  ASSUME NEW holder, IsHolderOf(holder, WholeFlows), NEW e \in Elements, NEW w \in Seq(Nat)
  PROVE  /\ Fetching(holder.use.in, w, e) \in {NoFlow} \cup FetchFlows
         /\ Fetching(holder.use.anti_out, w, e) \in {NoFlow} \cup FetchFlows
BY PartsAreFlows DEF IsHolderOf, HasFlows

\* Whatever is published, the backend's flows stay typed.
LEMMA PublishTyped ==
  ASSUME Kept, NEW t, Publish(t), DOMAIN status \subseteq DOMAIN status'
  PROVE  BackendKept'
<1>1. /\ t \in Contexts /\ status[t] = "running" /\ IsIndexTask(t)
  BY AboutIndex DEF Kept, Publish
<1>. DEFINE w == Front(t)
            outcome(e) == OutcomeOf(handles[<<t, e>>], Perms(None, Read), Append(Place(t), e))
            elements == PublishedElements(t)
            published == [p \in {<<w, e>> : e \in elements} |->
                           [at |-> Place(t),
                            use |-> outcome(p[2]).captured.use,
                            n_fetchers |-> Cardinality(program[w].readers[p[2]]),
                            anti_out |-> Fetching(collections[w].use.anti_out, w, p[2]),
                            released |-> FALSE]]
            links == {<<Fetching(collections[w].use.in, w, e), outcome(e).captured.use.in>> :
                        e \in elements}
<1>2. /\ \A e \in elements : Served(handles, <<t, e>>, Perms(None, Read))
      /\ publications' = With(publications, published)
      /\ alias' = EstablishAliases(links)
      /\ fetches' = fetches
  BY DEF Publish
<1>3. /\ w \in Contexts /\ w \in Seq(Nat) /\ IsHolderOf(collections[w], WholeFlows)
      /\ elements \subseteq Elements
  <2>1. w \in Contexts /\ w \in Seq(Nat) /\ IsHolderOf(collections[w], WholeFlows)
    BY <1>1, WorkIsThere
  <2>2. LocalElements(t) \subseteq Elements
    BY <1>1, WorkIsThere, TakersOfElements DEF Kept, ContextsKept
  <2>. QED
    BY <2>1, <2>2 DEF PublishedElements
<1>4. ASSUME NEW e \in elements
      PROVE  /\ Fetching(collections[w].use.in, w, e) \in AllFlows
             /\ outcome(e).captured.use.in \in AllFlows
  <2>1. <<PermissionsOf(handles[<<t, e>>].use), Perms(None, Read)>> \in DOMAIN CaseFor
        /\ <<t, e>> \in DOMAIN handles
    BY <1>2 DEF Served
  <2>2. Append(Place(t), e) \in Seq(Nat)
    <3>1. Place(t) \in Seq(Nat) /\ e \in Nat
      BY <1>1, <1>3, ContextNames, ElementsAreNumbers DEF Kept
    <3>. QED
      BY <3>1
  <2>3. IsHolderOf(handles[<<t, e>>], AllFlows)
    BY <2>1 DEF Kept, HoldersKept, HoldersHave
  <2>4. IsHolderOf(outcome(e).captured, AllFlows)
    BY <2>1, <2>2, <2>3, AllAreMade, MadeByEach, OutcomeTyped
  <2>5. Fetching(collections[w].use.in, w, e) \in {NoFlow} \cup FetchFlows
    BY <1>3, FetchingOf
  <2>. QED
    BY <2>4, <2>5, FlowsAreFlows DEF IsHolderOf, HasFlows, AllFlows
<1>5. AliasOf(AllFlows)'
  <2>1. AliasOf(AllFlows)
    BY DEF Kept, BackendKept, AliasOf
  <2>2. ASSUME NEW l \in links PROVE l[1] \in AllFlows /\ l[2] \in AllFlows
    <3>1. PICK e \in elements :
            l = <<Fetching(collections[w].use.in, w, e), outcome(e).captured.use.in>>
      OBVIOUS
    <3>. HIDE DEF links, elements, outcome
    <3>. QED
      BY <1>4, <3>1
  <2>. HIDE DEF links
  <2>. QED
    BY <1>2, <2>1, <2>2, AliasesTyped
<1>6. DOMAIN publications' \subseteq Contexts' \X Elements
  <2>1. DOMAIN published = {<<w, e>> : e \in elements}
    OBVIOUS
  <2>. HIDE DEF published
  <2>2. DOMAIN publications' = DOMAIN publications \cup {<<w, e>> : e \in elements}
    BY <1>2, <2>1 DEF With
  <2>3. DOMAIN publications \subseteq Contexts \X Elements
    BY DEF Kept, BackendKept
  <2>. QED
    BY <1>3, <2>2, <2>3 DEF Contexts
<1>7. \A f \in fetches' : /\ f.of \in Contexts' \X Elements /\ f.by \in Contexts'
                          /\ f.in \in {NoFlow} \cup FetchFlows
  BY <1>2 DEF Kept, BackendKept, Contexts
<1>. QED
  BY <1>5, <1>6, <1>7 DEF BackendKept, AliasOf

\* Creating contexts and capturing keeps the types.
LEMMA KeptCaptures ==
  ASSUME Kept, NEW c, NEW made, NEW state, Captures(c, made, state)
  PROVE  Kept'
<1>. USE DEF Kept
<1>1. /\ c \in Contexts /\ status[c] = "running"
      /\ CapturesHandles(handles, handles', c, Place(c))
      /\ CapturesCollection(collections, collections', c, Place(c))
      /\ made = {} => DOMAIN handles' = DOMAIN handles /\ collections' = collections
      /\ made \in {{}, {Place(c)}}
      /\ program' = program
  BY DEF Captures, Operates
<1>2. /\ ContextsKept'
      /\ Contexts' = Contexts \cup made
      /\ \A x \in Contexts : status'[x] = status[x]
  BY ContextsProceed DEF Captures, Operates
<1>3. Place(c) \in Seq(Nat)
  BY <1>1, ContextNames
<1>4. CollectionsHeld'
  <2>1. \A x : Over(x) => Over(x)'
    BY <1>2 DEF Over
  <2>. SUFFICES ASSUME NEW w \in Contexts', IsWork(w)',
                       NEW x \in (IndexTasks(w) \cup {w})', ~Over(x)'
                PROVE  w \in DOMAIN collections'
    BY DEF CollectionsHeld
  <2>2. IsWork(w) /\ x \in IndexTasks(w) \cup {w}
    BY <1>1 DEF IsWork, IndexTasks
  <2>3. CASE w \in Contexts
    <3>1. w \in DOMAIN collections
      BY <2>1, <2>2, <2>3 DEF CollectionsHeld
    <3>. QED
      BY <1>1, <3>1 DEF CapturesCollection
  <2>4. CASE w \notin Contexts
    <3>1. w = Place(c) /\ made # {}
      BY <1>1, <1>2, <2>4
    <3>. QED
      BY <2>2, <3>1 DEF Captures
  <2>. QED
    BY <2>3, <2>4
<1>5. DOMAIN collections' \subseteq Contexts' /\ DOMAIN handles' \subseteq Contexts' \X Data
  <2>1. DOMAIN collections \subseteq Contexts /\ DOMAIN handles \subseteq Contexts \X Data
    BY DEF HoldersKept
  <2>2. CASE made = {}
    BY <1>1, <1>2, <2>1, <2>2
  <2>3. CASE made = {Place(c)}
    <3>1. \A k \in DOMAIN collections' \ DOMAIN collections : k = Place(c)
      BY <1>1 DEF CapturesCollection
    <3>2. \A k \in DOMAIN handles' \ DOMAIN handles : \E d \in Data : k = <<Place(c), d>>
      BY <1>1 DEF CapturesHandles
    <3>3. Place(c) \in Contexts' /\ Contexts \subseteq Contexts'
      BY <1>2, <2>3
    <3>. QED
      BY <2>1, <3>1, <3>2, <3>3
  <2>. QED
    BY <1>1, <2>2, <2>3
<1>6. HoldersHave(collections', WholeFlows)
  <2>. SUFFICES ASSUME NEW k \in DOMAIN collections' PROVE IsHolderOf(collections'[k], WholeFlows)
    BY DEF HoldersHave
  <2>1. CASE k \in DOMAIN collections
    <3>1. Continued(collections, collections', k) /\ IsHolderOf(collections[k], WholeFlows)
      BY <1>1, <2>1 DEF CapturesCollection, HoldersKept, HoldersHave
    <3>. QED
      BY <3>1, AllAreMade, ContinuedTyped
  <2>2. CASE k \notin DOMAIN collections
    <3>1. k = Place(c) /\ CapturedAt(collections, collections', c, Place(c), Place(c))
      BY <1>1, <2>2 DEF CapturesCollection
    <3>. QED
      BY <1>3, <3>1, AllAreMade, CapturedTyped DEF HoldersKept
  <2>. QED
    BY <2>1, <2>2
<1>7. HoldersHave(handles', AllFlows)
  <2>. SUFFICES ASSUME NEW k \in DOMAIN handles' PROVE IsHolderOf(handles'[k], AllFlows)
    BY DEF HoldersHave
  <2>1. CASE k \in DOMAIN handles
    <3>1. Continued(handles, handles', k) /\ IsHolderOf(handles[k], AllFlows)
      BY <1>1, <2>1 DEF CapturesHandles, HoldersKept, HoldersHave
    <3>. QED
      BY <3>1, AllAreMade, ContinuedTyped
  <2>2. CASE k \notin DOMAIN handles
    <3>1. PICK d \in Data :
            k = <<Place(c), d>> /\ CapturedAt(handles, handles', <<c, d>>, k, Append(Place(c), d))
      BY <1>1, <2>2 DEF CapturesHandles
    <3>2. d \in Nat
      BY ElementsAreNumbers
    <3>3. Append(Place(c), d) \in Seq(Nat)
      BY <1>3, <3>2
    <3>. QED
      BY <3>1, <3>3, AllAreMade, CapturedTyped DEF HoldersKept
  <2>. QED
    BY <2>1, <2>2
<1>8. BackendKept'
  <2>1. Contexts \subseteq Contexts'
    BY <1>2
  <2>2. CASE UNCHANGED <<alias, publications>>
    <3>1. alias' = alias /\ publications' = publications /\ fetches' = fetches
      BY <2>2 DEF Captures
    <3>2. AliasOf(AllFlows)'
      BY <3>1 DEF BackendKept, AliasOf
    <3>3. DOMAIN publications' \subseteq Contexts' \X Elements
      BY <2>1, <3>1 DEF BackendKept
    <3>4. \A f \in fetches' : /\ f.of \in Contexts' \X Elements /\ f.by \in Contexts'
                              /\ f.in \in {NoFlow} \cup FetchFlows
      BY <2>1, <3>1 DEF BackendKept
    <3>. QED
      BY <3>2, <3>3, <3>4 DEF BackendKept, AliasOf
  <2>3. CASE Publish(c)
    BY <2>1, <2>3, PublishTyped DEF Contexts
  <2>. QED
    BY <2>2, <2>3 DEF Captures
<1>. QED
  BY <1>2, <1>4, <1>5, <1>6, <1>7, <1>8 DEF HoldersKept

\* The use of a fetched element.
LEMMA FetchedIs ==
  ASSUME NEW holder, IsHolderOf(holder, WholeFlows), NEW e \in Elements, NEW w \in Seq(Nat)
  PROVE  LET fetched == FetchedUse(holder, w, e)
         IN  /\ IsHolderOf(fetched, AllFlows)
             /\ fetched.use.in = Fetching(holder.use.in, w, e)
             /\ fetched.use.anti_out = Fetching(holder.use.anti_out, w, e)
             /\ fetched.use.out = NoFlow
             /\ fetched.use.anti_in = NoFlow
             /\ fetched.could_be_alias = FALSE
<1>. DEFINE flows == UseFlows(Fetching(holder.use.in, w, e), NoFlow, NoFlow,
                              Fetching(holder.use.anti_out, w, e))
            use == MakeUse(Perms(Read, None), flows, FALSE)
            fetched == FetchedUse(holder, w, e)
<1>1. Perms(Read, None) \in PermissionPairs
  BY DEF Perms, PermissionPairs, Permissions, None, Read, Modify
<1>2. /\ flows.in = Fetching(holder.use.in, w, e)
      /\ flows.anti_out = Fetching(holder.use.anti_out, w, e)
      /\ flows.out = NoFlow /\ flows.anti_in = NoFlow
  BY DEF UseFlows
<1>3. /\ Fetching(holder.use.in, w, e) \in AllFlows
      /\ Fetching(holder.use.anti_out, w, e) \in AllFlows
      /\ NoFlow \in AllFlows
  BY FetchingOf, FlowsAreFlows DEF AllFlows
<1>4. HasFlows(flows, AllFlows)
  BY <1>2, <1>3 DEF HasFlows
<1>5. /\ fetched.use = use /\ fetched.could_be_alias = FALSE
      /\ DOMAIN fetched = {"use", "could_be_alias"}
      /\ DOMAIN use = {"scheduling", "immediate", "in", "out", "anti_in", "anti_out", "data"}
  BY DEF FetchedUse, Holder, MakeUse
<1>. HIDE DEF flows
<1>6. /\ use.in = flows.in /\ use.out = flows.out
      /\ use.anti_in = flows.anti_in /\ use.anti_out = flows.anti_out
  BY DEF MakeUse
<1>7. HasFlows(use, AllFlows) /\ PermissionsOf(use) = Perms(Read, None)
  BY <1>1, <1>4, UseTyped
<1>. HIDE DEF use, fetched
<1>8. IsHolderOf(fetched, AllFlows)
  BY <1>1, <1>5, <1>7 DEF IsHolderOf, HasFields
<1>. QED
  BY <1>2, <1>5, <1>6, <1>8 DEF fetched

\* Fetching keeps the types.
LEMMA KeptFetch ==
  ASSUME Kept, NEW t, Fetch(t)
  PROVE  Kept'
<1>. DEFINE w == Front(t)
            got == [k \in {<<t, e>> : e \in FetchedElements(t)} |-> FetchedUse(collections[w], w, k[2])]
<1>1. /\ t \in Contexts /\ status[t] = "running" /\ IsIndexTask(t)
  BY AboutIndex DEF Kept, Fetch
<1>2. /\ w \in Contexts /\ IsWork(w) /\ t \in IndexTasks(w) /\ w \in Seq(Nat)
      /\ IsHolderOf(collections[w], WholeFlows)
  BY <1>1, WorkIsThere
<1>3. FetchedElements(t) \subseteq Elements
  BY DEF FetchedElements
<1>4. /\ Proceed(t, {}, "pending") /\ program' = program
      /\ UNCHANGED <<collections, alias, publications>>
      /\ handles' = With(handles, got)
      /\ fetches' = fetches \cup
           {[of |-> <<w, e>>, by |-> t, in |-> FetchedUse(collections[w], w, e).use.in] :
              e \in FetchedElements(t)}
  BY DEF Fetch
<1>5. /\ ContextsKept'
      /\ Contexts' = Contexts
      /\ \A x \in Contexts : status'[x] = status[x]
  <2>. DEFINE made == {}
  <2>1. made \in {{}, {Place(t)}} /\ made = {} /\ Proceed(t, made, "pending")
    BY <1>4
  <2>2. Contexts \cup made = Contexts
    OBVIOUS
  <2>. HIDE DEF made
  <2>. QED
    BY <1>1, <1>4, <2>1, <2>2, ContextsProceed DEF Kept
<1>6. CollectionsHeld'
  <2>1. \A x : Over(x)' <=> Over(x)
    BY <1>5 DEF Over
  <2>2. \A x : (IsWork(x)' <=> IsWork(x)) /\ IndexTasks(x)' = IndexTasks(x)
    BY <1>4 DEF IsWork, IndexTasks
  <2>3. CollectionsHeld
    BY DEF Kept
  <2>4. collections' = collections
    BY <1>4
  <2>. QED
    BY <1>5, <2>1, <2>2, <2>3, <2>4 DEF CollectionsHeld
<1>7. HoldersKept'
  <2>1. DOMAIN got = {<<t, e>> : e \in FetchedElements(t)}
    OBVIOUS
  <2>2. ASSUME NEW k \in DOMAIN got PROVE IsHolderOf(got[k], AllFlows) /\ k \in Contexts \X Data
    <3>1. PICK e \in FetchedElements(t) : k = <<t, e>>
      BY <2>1, <2>2
    <3>2. got[k] = FetchedUse(collections[w], w, e)
      BY <3>1
    <3>. QED
      BY <1>1, <1>2, <1>3, <3>1, <3>2, FetchedIs, ElementsAreNumbers
  <2>. HIDE DEF got
  <2>3. HoldersKept
    BY DEF Kept
  <2>4. /\ DOMAIN handles' = DOMAIN handles \cup DOMAIN got
        /\ \A k \in DOMAIN handles' : handles'[k] = IF k \in DOMAIN got THEN got[k] ELSE handles[k]
    BY <1>4 DEF With
  <2>5. HoldersHave(handles', AllFlows) /\ DOMAIN handles' \subseteq Contexts' \X Data
    BY <1>5, <2>2, <2>3, <2>4 DEF HoldersKept, HoldersHave
  <2>. QED
    BY <1>4, <1>5, <2>3, <2>5 DEF HoldersKept
<1>8. BackendKept'
  <2>1. BackendKept
    BY DEF Kept
  <2>2. ASSUME NEW f \in fetches'
        PROVE  /\ f.of \in Contexts' \X Elements
               /\ f.by \in Contexts'
               /\ f.in \in {NoFlow} \cup FetchFlows
    <3>1. CASE f \in fetches
      BY <1>5, <2>1, <3>1 DEF BackendKept
    <3>2. CASE f \notin fetches
      <4>1. PICK e \in FetchedElements(t) :
              f = [of |-> <<w, e>>, by |-> t, in |-> FetchedUse(collections[w], w, e).use.in]
        BY <1>4, <2>2, <3>2
      <4>2. f.of = <<w, e>> /\ f.by = t /\ f.in = FetchedUse(collections[w], w, e).use.in
        BY <4>1
      <4>3. f.in = Fetching(collections[w].use.in, w, e)
        BY <1>2, <1>3, <4>2, FetchedIs
      <4>4. f.in \in {NoFlow} \cup FetchFlows
        BY <1>2, <1>3, <4>3, FetchingOf
      <4>. QED
        BY <1>1, <1>2, <1>3, <1>5, <4>2, <4>4
    <3>. QED
      BY <3>1, <3>2
  <2>3. alias' = alias /\ publications' = publications
    BY <1>4
  <2>. QED
    BY <1>5, <2>1, <2>2, <2>3 DEF BackendKept
<1>. QED
  BY <1>5, <1>6, <1>7, <1>8 DEF Kept

\* The use of a local element.
LEMMA LocalIs ==
  ASSUME NEW holder, IsHolderOf(holder, WholeFlows), NEW e \in Elements
  PROVE  LET local == LocalUse(holder, e)
         IN  /\ IsHolderOf(local, AllFlows)
             /\ local.could_be_alias = FALSE
             /\ local.use.in = Indexed(holder.use.in, e)
             /\ local.use.out \in {NoFlow, Indexed(holder.use.out, e)}
             /\ local.use.anti_in \in {NoFlow, Indexed(holder.use.anti_in, e)}
             /\ local.use.anti_out = Indexed(holder.use.anti_out, e)
<1>. DEFINE view == ElementView(holder.use, e)
            read == [view EXCEPT !.out = NoFlow, !.anti_in = NoFlow]
            local == LocalUse(holder, e)
<1>1. /\ DOMAIN view = {"scheduling", "immediate", "in", "out", "anti_in", "anti_out", "data"}
      /\ view.in = Indexed(holder.use.in, e) /\ view.out = Indexed(holder.use.out, e)
      /\ view.anti_in = Indexed(holder.use.anti_in, e)
      /\ view.anti_out = Indexed(holder.use.anti_out, e)
      /\ PermissionsOf(view) \in PermissionPairs
      /\ HasFlows(view, AllFlows)
  BY ViewOf DEF IsHolderOf, HasFields
<1>2. local = Holder(view, FALSE) \/ local = Holder(read, FALSE)
  BY DEF LocalUse
<1>. HIDE DEF view, local
<1>3. /\ DOMAIN read = DOMAIN view
      /\ read.in = view.in /\ read.out = NoFlow /\ read.anti_in = NoFlow
      /\ read.anti_out = view.anti_out
      /\ read.scheduling = view.scheduling /\ read.immediate = view.immediate
  BY <1>1
<1>. HIDE DEF read
<1>4. PermissionsOf(read) = PermissionsOf(view) /\ HasFlows(read, AllFlows)
  BY <1>1, <1>3, FlowsAreFlows DEF PermissionsOf, HasFlows, AllFlows
<1>5. /\ local.use \in {view, read} /\ local.could_be_alias = FALSE
      /\ DOMAIN local = {"use", "could_be_alias"}
  BY <1>2 DEF Holder
<1>6. IsHolderOf(local, AllFlows)
  BY <1>1, <1>3, <1>4, <1>5 DEF IsHolderOf, HasFields
<1>. QED
  BY <1>1, <1>3, <1>5, <1>6 DEF local

\* The use of a plain handle that all index tasks read.
LEMMA SharedIs ==
  ASSUME NEW holder, IsHolderOf(holder, AllFlows)
  PROVE  LET shared == SharedReadUse(holder)
         IN  /\ IsHolderOf(shared, AllFlows)
             /\ shared.could_be_alias = FALSE
             /\ shared.use.in = holder.use.in
             /\ shared.use.out = NoFlow
             /\ shared.use.anti_in = NoFlow
             /\ shared.use.anti_out = holder.use.anti_out
<1>. DEFINE use == [holder.use EXCEPT !.out = NoFlow, !.anti_in = NoFlow]
            shared == SharedReadUse(holder)
<1>1. DOMAIN holder.use = {"scheduling", "immediate", "in", "out", "anti_in", "anti_out", "data"}
  BY DEF IsHolderOf, HasFields
<1>2. /\ DOMAIN use = DOMAIN holder.use
      /\ use.in = holder.use.in /\ use.out = NoFlow /\ use.anti_in = NoFlow
      /\ use.anti_out = holder.use.anti_out
      /\ use.scheduling = holder.use.scheduling /\ use.immediate = holder.use.immediate
  BY <1>1
<1>3. /\ shared.use = use /\ shared.could_be_alias = FALSE
      /\ DOMAIN shared = {"use", "could_be_alias"}
  BY DEF SharedReadUse, Holder
<1>. HIDE DEF use, shared
<1>4. PermissionsOf(use) = PermissionsOf(holder.use) /\ HasFlows(use, AllFlows)
  BY <1>2, FlowsAreFlows DEF PermissionsOf, HasFlows, IsHolderOf, AllFlows
<1>5. IsHolderOf(shared, AllFlows)
  BY <1>1, <1>2, <1>3, <1>4 DEF IsHolderOf, HasFields
<1>. QED
  BY <1>2, <1>3, <1>5 DEF shared

\* Creating an index task keeps the types.
LEMMA KeptIndexTask ==
  ASSUME Kept, NEW w \in Contexts, CreateTaskForIndex(w)
  PROVE  Kept'
<1>1. /\ IsWork(w) /\ program' = program
      /\ UNCHANGED <<collections, alias, publications, fetches>>
  BY DEF CreateTaskForIndex
<1>2. PICK t \in IndexTasks(w) \ Contexts :
        /\ handles' =
             With(IF <<w, Parameter>> \in DOMAIN handles
                  THEN With(handles,
                            Single(<<t, Parameter>>, SharedReadUse(handles[<<w, Parameter>>])))
                  ELSE handles,
                  [k \in {<<t, e>> : e \in LocalElements(t)} |-> LocalUse(collections[w], k[2])])
        /\ status' = With(status, Single(t, "pending"))
        /\ ops' = With(ops, Single(t, 0))
  BY DEF CreateTaskForIndex
<1>. DEFINE shared == Single(<<t, Parameter>>, SharedReadUse(handles[<<w, Parameter>>]))
            all    == IF <<w, Parameter>> \in DOMAIN handles THEN With(handles, shared) ELSE handles
            local  == [k \in {<<t, e>> : e \in LocalElements(t)} |-> LocalUse(collections[w], k[2])]
<1>3. /\ Contexts' = Contexts \cup {t}
      /\ \A x \in Contexts : status'[x] = status[x]
      /\ status'[t] = "pending"
  <2>1. /\ DOMAIN status' = DOMAIN status \cup {t}
        /\ \A x \in DOMAIN status \ {t} : status'[x] = status[x]
        /\ status'[t] = "pending"
    BY <1>2 DEF With, Single
  <2>. QED
    BY <2>1 DEF Contexts
<1>4. /\ DOMAIN ops' = DOMAIN ops \cup {t}
      /\ \A x \in DOMAIN ops \ {t} : ops'[x] = ops[x]
      /\ ops'[t] = 0
  BY <1>2 DEF With, Single
<1>5. /\ t \in Seq(Nat) /\ t # Root /\ Front(t) = w /\ ~IsWork(t)
      /\ w \in Seq(Nat)
      /\ IsHolderOf(collections[w], WholeFlows)
      /\ LocalElements(t) \subseteq Elements
  <2>1. t \in Seq(Nat) /\ t # Root /\ Front(t) = w /\ ~IsWork(t) /\ w \in Seq(Nat)
    BY <1>1, IndexNames, WorkNames DEF Kept, ContextsKept
  <2>2. w \in DOMAIN collections
    BY <1>1 DEF Kept, CollectionsHeld, Over
  <2>3. IsHolderOf(collections[w], WholeFlows)
    BY <2>2 DEF Kept, HoldersKept, HoldersHave
  <2>. QED
    BY <1>1, <2>1, <2>3, TakersOfElements DEF Kept, ContextsKept
<1>6. ContextsKept'
  <2>. DEFINE made == {t}
  <2>1. DOMAIN ops = Contexts /\ \A x \in Contexts : ops[x] \in Nat
    BY DEF Kept, ContextsKept
  <2>2. DOMAIN ops' = Contexts' /\ \A x \in Contexts' : ops'[x] \in Nat
    BY <1>3, <1>4, <2>1
  <2>3. \A x \in Contexts : ops[x] <= ops'[x]
    BY <1>4, <2>1
  <2>4. Stages'
    <3>1. \A x : IsWork(x)' <=> IsWork(x)
      BY <1>1 DEF IsWork
    <3>2. Stages
      BY DEF Kept, ContextsKept
    <3>. QED
      BY <1>3, <1>5, <3>1, <3>2 DEF Stages
  <2>5. \A x \in made : /\ IsIndexName(x)
                        /\ x # Root /\ Front(x) \in Contexts /\ IsWork(Front(x))
    BY <1>1, <1>5 DEF IsIndexName
  <2>6. Contexts' = Contexts \cup made
    BY <1>3
  <2>. HIDE DEF made
  <2>. QED
    BY <1>1, <2>2, <2>3, <2>4, <2>5, <2>6, ContextsGrow DEF Kept
<1>7. CollectionsHeld'
  <2>1. \A x : Over(x) => Over(x)'
    BY <1>3 DEF Over
  <2>2. \A x : (IsWork(x)' <=> IsWork(x)) /\ IndexTasks(x)' = IndexTasks(x)
    BY <1>1 DEF IsWork, IndexTasks
  <2>3. CollectionsHeld
    BY DEF Kept
  <2>4. ASSUME NEW v \in Contexts', IsWork(v), \E x \in IndexTasks(v) \cup {v} : ~Over(x)'
        PROVE  v \in DOMAIN collections
    <3>1. v \in Contexts
      BY <1>3, <1>5, <2>4
    <3>. QED
      BY <2>1, <2>3, <2>4, <3>1 DEF CollectionsHeld
  <2>. QED
    BY <1>1, <2>2, <2>4 DEF CollectionsHeld
<1>8. HoldersKept'
  <2>0. HoldersKept
    BY DEF Kept
  <2>1. DOMAIN all \subseteq Contexts' \X Data /\ HoldersHave(all, AllFlows)
    <3>1. CASE <<w, Parameter>> \in DOMAIN handles
      <4>1. DOMAIN shared = {<<t, Parameter>>}
            /\ shared[<<t, Parameter>>] = SharedReadUse(handles[<<w, Parameter>>])
        BY DEF Single
      <4>2. IsHolderOf(shared[<<t, Parameter>>], AllFlows)
        BY <2>0, <3>1, <4>1, SharedIs DEF HoldersKept, HoldersHave
      <4>. HIDE DEF shared
      <4>3. /\ DOMAIN all = DOMAIN handles \cup {<<t, Parameter>>}
            /\ \A k \in DOMAIN all : all[k] = IF k = <<t, Parameter>> THEN shared[k] ELSE handles[k]
        BY <3>1, <4>1 DEF With
      <4>. HIDE DEF all
      <4>4. HoldersHave(all, AllFlows)
        BY <2>0, <4>2, <4>3 DEF HoldersKept, HoldersHave
      <4>5. DOMAIN all \subseteq Contexts' \X Data
        BY <1>3, <2>0, <4>3, ElementsAreNumbers DEF HoldersKept
      <4>. QED
        BY <4>4, <4>5
    <3>2. CASE <<w, Parameter>> \notin DOMAIN handles
      <4>1. all = handles
        BY <3>2
      <4>. QED
        BY <1>3, <2>0, <4>1 DEF HoldersKept
    <3>. QED
      BY <3>1, <3>2
  <2>2. DOMAIN local = {<<t, e>> : e \in LocalElements(t)}
    OBVIOUS
  <2>3. ASSUME NEW k \in DOMAIN local PROVE IsHolderOf(local[k], AllFlows) /\ k \in Contexts' \X Data
    <3>1. PICK e \in LocalElements(t) : k = <<t, e>>
      BY <2>2, <2>3
    <3>2. local[k] = LocalUse(collections[w], e)
      BY <3>1
    <3>3. e \in Elements /\ e \in Data /\ t \in Contexts'
      BY <1>3, <1>5, ElementsAreNumbers
    <3>. QED
      BY <1>5, <3>1, <3>2, <3>3, LocalIs
  <2>4. handles' = With(all, local)
    BY <1>2
  <2>. HIDE DEF all, local
  <2>5. /\ DOMAIN handles' = DOMAIN all \cup DOMAIN local
        /\ \A k \in DOMAIN handles' : handles'[k] = IF k \in DOMAIN local THEN local[k] ELSE all[k]
    BY <2>4 DEF With
  <2>6. HoldersHave(handles', AllFlows) /\ DOMAIN handles' \subseteq Contexts' \X Data
    BY <2>1, <2>3, <2>5 DEF HoldersHave
  <2>7. DOMAIN collections' \subseteq Contexts' /\ HoldersHave(collections', WholeFlows)
    BY <1>1, <1>3, <2>0 DEF HoldersKept
  <2>. QED
    BY <2>6, <2>7 DEF HoldersKept
<1>9. BackendKept'
  <2>1. BackendKept /\ Contexts \subseteq Contexts'
    BY <1>3 DEF Kept
  <2>2. \A f \in fetches : /\ f.of \in Contexts' \X Elements
                           /\ f.by \in Contexts'
                           /\ f.in \in {NoFlow} \cup FetchFlows
    BY <2>1 DEF BackendKept
  <2>3. DOMAIN publications \subseteq Contexts' \X Elements
    BY <2>1 DEF BackendKept
  <2>. QED
    BY <1>1, <2>1, <2>2, <2>3 DEF BackendKept
<1>. QED
  BY <1>6, <1>7, <1>8, <1>9 DEF Kept

\* The end of a task collection keeps the types.
LEMMA KeptDrop ==
  ASSUME Kept, NEW w \in Contexts, DropTaskCollection(w)
  PROVE  Kept'
<1>1. /\ IsWork(w) /\ program' = program /\ ops' = ops
      /\ UNCHANGED <<alias, publications, fetches>>
      /\ status' = [status EXCEPT ![w] = "done"]
      /\ handles' = Without(handles, {<<w, Parameter>>})
      /\ collections' = IF DropsCollection(w, w) THEN Without(collections, {w}) ELSE collections
  BY DEF DropTaskCollection
<1>2. /\ Contexts' = Contexts
      /\ status'[w] = "done"
      /\ \A x \in Contexts \ {w} : status'[x] = status[x]
  BY <1>1 DEF Contexts
<1>3. \A x : (IsWork(x)' <=> IsWork(x)) /\ IndexTasks(x)' = IndexTasks(x)
  BY <1>1 DEF IsWork, IndexTasks
<1>4. ContextsKept'
  <2>1. Stages
    BY DEF Kept, ContextsKept
  <2>2. Stages'
    BY <1>1, <1>2, <1>3, <2>1 DEF Stages
  <2>. QED
    BY <1>1, <1>2, <2>2, ContextsStay DEF Kept
<1>5. CollectionsHeld'
  <2>1. \A x : Over(x)' <=> Over(x) \/ x = w
    BY <1>2 DEF Over
  <2>. SUFFICES ASSUME NEW v \in Contexts, IsWork(v), NEW x \in IndexTasks(v) \cup {v}, ~Over(x)'
                PROVE  v \in DOMAIN collections'
    BY <1>2, <1>3 DEF CollectionsHeld
  <2>2. ~Over(x) /\ x # w
    BY <2>1
  <2>3. v \in DOMAIN collections
    BY <2>2 DEF Kept, CollectionsHeld
  <2>4. CASE DropsCollection(w, w)
    <3>1. v # w
      BY <2>2, <2>4 DEF DropsCollection, Over
    <3>2. DOMAIN collections' = DOMAIN collections \ {w}
      BY <1>1, <2>4 DEF Without
    <3>. QED
      BY <2>3, <3>1, <3>2
  <2>5. CASE ~DropsCollection(w, w)
    BY <1>1, <2>3, <2>5
  <2>. QED
    BY <2>4, <2>5
<1>6. HoldersKept'
  <2>1. HoldersKept
    BY DEF Kept
  <2>2. DOMAIN handles' \subseteq Contexts' \X Data /\ HoldersHave(handles', AllFlows)
    BY <1>1, <1>2, <2>1 DEF HoldersKept, HoldersHave, Without
  <2>3. DOMAIN collections' \subseteq Contexts' /\ HoldersHave(collections', WholeFlows)
    BY <1>1, <1>2, <2>1 DEF HoldersKept, HoldersHave, Without
  <2>. QED
    BY <2>2, <2>3 DEF HoldersKept
<1>7. BackendKept'
  BY <1>1, <1>2 DEF Kept, BackendKept
<1>. QED
  BY <1>4, <1>5, <1>6, <1>7 DEF Kept

\* The links of a typed holder.
LEMMA LinksTyped ==
  ASSUME NEW holder, IsHolderOf(holder, AllFlows), NEW l \in Links(holder)
  PROVE  /\ l[1] \in AllFlows /\ l[2] \in AllFlows
         /\ holder.could_be_alias
         /\ \/ l[1] = holder.use.out /\ l[2] = holder.use.in
            \/ l[1] = holder.use.anti_in /\ l[2] = holder.use.anti_out
<1>1. holder.could_be_alias
  BY DEF Links
<1>2. l \in {<<holder.use.out, holder.use.in>>, <<holder.use.anti_in, holder.use.anti_out>>}
  BY <1>1 DEF Links
<1>. QED
  BY <1>1, <1>2 DEF IsHolderOf, HasFlows

\* The links of the holder of a whole collection, element by element.
LEMMA ElementLinksTyped ==
  ASSUME NEW holder, IsHolderOf(holder, WholeFlows), NEW l \in ElementLinks(holder)
  PROVE  /\ l[1] \in AllFlows /\ l[2] \in AllFlows
         /\ holder.could_be_alias
         /\ \E e \in Elements :
              \/ l[1] = Indexed(holder.use.out, e) /\ l[2] = Indexed(holder.use.in, e)
              \/ l[1] = Indexed(holder.use.anti_in, e) /\ l[2] = Indexed(holder.use.anti_out, e)
<1>1. PICK e \in Elements : l \in Links([holder EXCEPT !.use = ElementView(@, e)])
  BY DEF ElementLinks
<1>. DEFINE part == [holder EXCEPT !.use = ElementView(@, e)]
<1>2. DOMAIN holder = {"use", "could_be_alias"} /\ holder.could_be_alias \in BOOLEAN
  BY DEF IsHolderOf, HasFields
<1>3. /\ DOMAIN part = DOMAIN holder
      /\ part.use = ElementView(holder.use, e) /\ part.could_be_alias = holder.could_be_alias
  BY <1>2
<1>. HIDE DEF part
<1>4. /\ DOMAIN part.use = DOMAIN holder.use
      /\ part.use.in = Indexed(holder.use.in, e) /\ part.use.out = Indexed(holder.use.out, e)
      /\ part.use.anti_in = Indexed(holder.use.anti_in, e)
      /\ part.use.anti_out = Indexed(holder.use.anti_out, e)
      /\ PermissionsOf(part.use) \in PermissionPairs
      /\ HasFlows(part.use, AllFlows)
  BY <1>3, ViewOf
<1>5. IsHolderOf(part, AllFlows)
  BY <1>2, <1>3, <1>4 DEF IsHolderOf, HasFields
<1>6. l \in Links(part)
  BY <1>1 DEF part
<1>. QED
  BY <1>3, <1>4, <1>5, <1>6, LinksTyped

\* What the end of a task releases.
EndLinks(c) ==
  (UNION {Links(handles[k]) : k \in HoldersOf(c)})
    \cup (UNION {ElementLinks(collections[x]) : x \in {c} \cap DOMAIN collections})

\* The end of a task keeps the types.
LEMMA KeptEnd ==
  ASSUME Kept, NEW c \in Contexts, EndTask(c)
  PROVE  Kept'
<1>. DEFINE gone == {c} \cup (IF IsIndexTask(c) /\ DropsCollection(Front(c), c)
                              THEN {Front(c)} ELSE {})
<1>1. /\ status[c] = "running"
      /\ program' = program /\ ops' = ops
      /\ UNCHANGED <<publications, fetches>>
      /\ status' = [status EXCEPT ![c] = "done"]
      /\ handles' = Without(handles, HoldersOf(c))
      /\ collections' = Without(collections, gone)
      /\ alias' = EstablishAliases(EndLinks(c))
  BY DEF EndTask, EndLinks
<1>2. /\ Contexts' = Contexts
      /\ status'[c] = "done"
      /\ \A x \in Contexts \ {c} : status'[x] = status[x]
  BY <1>1 DEF Contexts
<1>3. \A x : (IsWork(x)' <=> IsWork(x)) /\ IndexTasks(x)' = IndexTasks(x)
  BY <1>1 DEF IsWork, IndexTasks
<1>4. ~IsWork(c)
  BY <1>1, PlaceIsNew DEF Kept
<1>5. ContextsKept'
  <2>1. Stages
    BY DEF Kept, ContextsKept
  <2>2. Stages'
    BY <1>2, <1>3, <1>4, <2>1 DEF Stages
  <2>. QED
    BY <1>1, <1>2, <2>2, ContextsStay DEF Kept
<1>6. CollectionsHeld'
  <2>1. \A x : Over(x)' <=> Over(x) \/ x = c
    BY <1>2 DEF Over
  <2>. SUFFICES ASSUME NEW v \in Contexts, IsWork(v), NEW x \in IndexTasks(v) \cup {v}, ~Over(x)'
                PROVE  v \in DOMAIN collections'
    BY <1>2, <1>3 DEF CollectionsHeld
  <2>2. ~Over(x) /\ x # c
    BY <2>1
  <2>3. v \in DOMAIN collections
    BY <2>2 DEF Kept, CollectionsHeld
  <2>4. v # c
    BY <1>4
  <2>5. IsIndexTask(c) /\ DropsCollection(Front(c), c) => v # Front(c)
    BY <2>2 DEF DropsCollection, Over
  <2>6. v \notin gone
    BY <2>4, <2>5
  <2>. QED
    BY <1>1, <2>3, <2>6 DEF Without
<1>7. HoldersKept'
  <2>1. HoldersKept
    BY DEF Kept
  <2>2. DOMAIN handles' \subseteq Contexts' \X Data /\ HoldersHave(handles', AllFlows)
    BY <1>1, <1>2, <2>1 DEF HoldersKept, HoldersHave, Without
  <2>. HIDE DEF gone
  <2>3. DOMAIN collections' \subseteq Contexts' /\ HoldersHave(collections', WholeFlows)
    BY <1>1, <1>2, <2>1 DEF HoldersKept, HoldersHave, Without
  <2>. QED
    BY <2>2, <2>3 DEF HoldersKept
<1>8. BackendKept'
  <2>1. ASSUME NEW l \in EndLinks(c) PROVE l[1] \in AllFlows /\ l[2] \in AllFlows
    <3>1. CASE \E k \in HoldersOf(c) : l \in Links(handles[k])
      BY <3>1, LinksTyped DEF HoldersOf, Kept, HoldersKept, HoldersHave
    <3>2. CASE \E x \in {c} \cap DOMAIN collections : l \in ElementLinks(collections[x])
      BY <3>2, ElementLinksTyped DEF Kept, HoldersKept, HoldersHave
    <3>. QED
      BY <2>1, <3>1, <3>2 DEF EndLinks
  <2>2. AliasOf(AllFlows)
    BY DEF Kept, BackendKept, AliasOf
  <2>3. AliasOf(AllFlows)'
    BY <1>1, <2>1, <2>2, AliasesTyped
  <2>. QED
    BY <1>1, <1>2, <2>3 DEF Kept, BackendKept, AliasOf
<1>. QED
  BY <1>5, <1>6, <1>7, <1>8 DEF Kept

\* Running what was pending keeps the types.
LEMMA KeptRun ==
  ASSUME Kept, NEW contexts, RunsPending(contexts)
  PROVE  Kept'
<1>1. /\ contexts \subseteq Contexts /\ \A x \in contexts : status[x] = "pending"
      /\ status' = With(status, [x \in contexts |-> "running"])
      /\ UNCHANGED <<program, ops, collections, handles, alias, publications, fetches>>
  BY DEF RunsPending, Run
<1>2. /\ Contexts' = Contexts
      /\ \A x \in contexts : status'[x] = "running"
      /\ \A x \in Contexts \ contexts : status'[x] = status[x]
  BY <1>1 DEF Contexts, With
<1>3. \A x : (IsWork(x)' <=> IsWork(x)) /\ IndexTasks(x)' = IndexTasks(x)
  BY <1>1 DEF IsWork, IndexTasks
<1>4. ContextsKept'
  <2>1. Stages
    BY DEF Kept, ContextsKept
  <2>2. Stages'
    BY <1>1, <1>2, <1>3, <2>1 DEF Stages
  <2>. QED
    BY <1>1, <1>2, <2>2, ContextsStay DEF Kept
<1>5. CollectionsHeld'
  <2>1. \A x : Over(x)' <=> Over(x)
    BY <1>1, <1>2 DEF Over
  <2>. QED
    BY <1>1, <1>2, <1>3, <2>1 DEF Kept, CollectionsHeld
<1>6. HoldersKept'
  BY <1>1, <1>2 DEF Kept, HoldersKept
<1>7. BackendKept'
  BY <1>1, <1>2 DEF Kept, BackendKept
<1>. QED
  BY <1>4, <1>5, <1>6, <1>7 DEF Kept

\* Steps that leave contexts and holders alone keep the types.
LEMMA KeptQuiet ==
  ASSUME Kept, UNCHANGED <<program, status, ops, collections, handles, alias, fetches>>,
         DOMAIN publications' = DOMAIN publications
  PROVE  Kept'
<1>1. /\ Contexts' = Contexts
      /\ \A x : (IsWork(x)' <=> IsWork(x)) /\ IndexTasks(x)' = IndexTasks(x)
      /\ \A x : Over(x)' <=> Over(x)
  BY DEF Contexts, IsWork, IndexTasks, Over
<1>2. ContextsKept'
  <2>1. Stages
    BY DEF Kept, ContextsKept
  <2>2. Stages'
    BY <1>1, <2>1 DEF Stages
  <2>. QED
    BY <1>1, <2>2, ContextsStay DEF Kept
<1>3. CollectionsHeld'
  BY <1>1 DEF Kept, CollectionsHeld
<1>4. HoldersKept'
  BY <1>1 DEF Kept, HoldersKept
<1>5. BackendKept'
  BY <1>1 DEF Kept, BackendKept
<1>. QED
  BY <1>2, <1>3, <1>4, <1>5 DEF Kept

\* What the initial access gives.
LEMMA InitialIs ==
  ASSUME NEW owner \in Seq(Nat)
  PROVE  /\ IsHolderOf(Initially(owner), WholeFlows)
         /\ IsHolderOf(Initially(owner), AllFlows)
         /\ Initially(owner).use.in = Flow(owner, "in")
         /\ Initially(owner).use.out = Flow(owner, "out")
         /\ Initially(owner).use.anti_in = NoFlow
         /\ Initially(owner).use.anti_out = Flow(owner, "anti_out")
<1>. DEFINE flows == RegisteredFlows(UseFlows(Initial, Null, Insignificant, Initial),
                                     [nothing |-> NoFlow], owner, CapturedPlaces)
            use == MakeUse(Perms(Modify, None), flows, FALSE)
<1>1. /\ flows.in = Flow(owner, "in") /\ flows.out = Flow(owner, "out")
      /\ flows.anti_in = NoFlow /\ flows.anti_out = Flow(owner, "anti_out")
  BY DEF RegisteredFlows, UseFlows, Establish, Initial, Null, Insignificant, CapturedPlaces
<1>2. /\ Initially(owner).use = use /\ Initially(owner).could_be_alias = TRUE
      /\ HasFields(Initially(owner))
  BY DEF Initially, Holder, HasFields, MakeUse
<1>3. Perms(Modify, None) \in PermissionPairs
  BY DEF Perms, PermissionPairs, Permissions, None, Modify
<1>4. HasFlows(flows, WholeFlows)
  <2>1. /\ Flow(owner, "in") \in WholeFlows /\ Flow(owner, "out") \in WholeFlows
        /\ Flow(owner, "anti_out") \in WholeFlows /\ NoFlow \in WholeFlows
    BY DEF WholeFlows, FlowPlaces, Places, Flow
  <2>. HIDE DEF flows
  <2>. QED
    BY <1>1, <2>1 DEF HasFlows
<1>. HIDE DEF flows
<1>5. /\ use.in = flows.in /\ use.out = flows.out
      /\ use.anti_in = flows.anti_in /\ use.anti_out = flows.anti_out
  BY DEF MakeUse
<1>6. HasFlows(use, WholeFlows) /\ PermissionsOf(use) = Perms(Modify, None)
  BY <1>3, <1>4, UseTyped
<1>. HIDE DEF use
<1>7. IsHolderOf(Initially(owner), WholeFlows)
  BY <1>2, <1>3, <1>6 DEF IsHolderOf
<1>8. IsHolderOf(Initially(owner), AllFlows)
  BY <1>7 DEF IsHolderOf, HasFlows, AllFlows
<1>. QED
  BY <1>1, <1>2, <1>5, <1>7, <1>8

\* Everything is typed to begin with.
LEMMA KeptInit == Init => Kept
<1>. SUFFICES ASSUME Init PROVE Kept
  OBVIOUS
<1>1. /\ program \in Programs
      /\ status = Single(Root, "running") /\ ops = Single(Root, 0)
      /\ collections = Single(Root, Initially(Root))
      /\ handles = Single(<<Root, Parameter>>, Initially(Append(Root, Parameter)))
      /\ alias = << >> /\ publications = << >> /\ fetches = {}
  BY DEF Init
<1>2. /\ Contexts = {Root} /\ status[Root] = "running"
      /\ DOMAIN ops = {Root} /\ ops[Root] = 0
  BY <1>1 DEF Contexts, Single
<1>3. /\ DOMAIN collections = {Root} /\ collections[Root] = Initially(Root)
      /\ DOMAIN handles = {<<Root, Parameter>>}
      /\ handles[<<Root, Parameter>>] = Initially(Append(Root, Parameter))
  BY <1>1 DEF Single
<1>4. DOMAIN alias = {} /\ DOMAIN publications = {}
  BY <1>1
<1>5. Named
  BY <1>1, <1>2 DEF Named
<1>6. ~IsWork(Root)
  BY <1>5, WorkNames
<1>7. ContextsKept
  BY <1>2, <1>5, <1>6 DEF ContextsKept, Numbered, Stages
<1>8. CollectionsHeld
  BY <1>2, <1>6 DEF CollectionsHeld
<1>9. HoldersKept
  <2>1. Root \in Seq(Nat) /\ Append(Root, Parameter) \in Seq(Nat) /\ Parameter \in Data
    BY EmptySeq, ElementsAreNumbers DEF Root
  <2>2. /\ IsHolderOf(Initially(Root), WholeFlows)
        /\ IsHolderOf(Initially(Append(Root, Parameter)), AllFlows)
    BY <2>1, InitialIs
  <2>. QED
    BY <1>2, <1>3, <2>1, <2>2 DEF HoldersKept, HoldersHave
<1>10. BackendKept
  BY <1>1, <1>4 DEF BackendKept
<1>. QED
  BY <1>7, <1>8, <1>9, <1>10 DEF Kept

\* Every step keeps the types.
LEMMA KeptPreserved == Kept /\ [Next]_vars => Kept'
<1>. SUFFICES ASSUME Kept, [Next]_vars PROVE Kept'
  OBVIOUS
<1>1. CASE \E c : \E made, state : Captures(c, made, state)
  BY <1>1, KeptCaptures
<1>2. CASE \E t \in Contexts : Fetch(t)
  BY <1>2, KeptFetch
<1>3. CASE \E w \in Contexts : CreateTaskForIndex(w)
  BY <1>3, KeptIndexTask
<1>4. CASE \E w \in Contexts : DropTaskCollection(w)
  BY <1>4, KeptDrop
<1>5. CASE \E c \in Contexts : EndTask(c)
  BY <1>5, KeptEnd
<1>6. CASE \E contexts : RunsPending(contexts)
  BY <1>6, KeptRun
<1>7. CASE \E p \in DOMAIN publications : ReleasePublication(p)
  <2>1. DOMAIN publications' = DOMAIN publications
    BY <1>7 DEF ReleasePublication
  <2>. QED
    BY <1>7, <2>1, KeptQuiet DEF ReleasePublication
<1>8. CASE UNCHANGED vars
  BY <1>8, KeptQuiet DEF vars
<1>. QED
  BY <1>1, <1>2, <1>3, <1>4, <1>5, <1>6, <1>7, <1>8, StepKinds

\* Contexts have the names of what made them, the collection of a work is
\* there as long as somebody may use it, and every flow has its parts.
THEOREM KeptHolds == Spec => []Kept
BY KeptInit, KeptPreserved, PTL DEF Spec

\* Every variable of the collections' model has its type, for every collection
\* and all programs: contexts, holders, and what the backend knows.
THEOREM CollectionsTyped == Spec => []TypeOK
<1>1. Kept => TypeOK
  <2>. SUFFICES ASSUME Kept PROVE TypeOK
    OBVIOUS
  <2>1. \A f \in AllFlows : IsFlow(f)
    BY FlowsAreFlows
  <2>2. ASSUME NEW holder, IsHolderOf(holder, AllFlows) PROVE IsHolder(holder)
    BY <2>1, <2>2 DEF IsHolderOf, HasFlows, IsHolder
  <2>3. ASSUME NEW holder, IsHolderOf(holder, WholeFlows) PROVE IsHolder(holder)
    BY <2>2, <2>3 DEF IsHolderOf, HasFlows, AllFlows
  <2>4. \A c \in Contexts : status[c] \in {"pending", "running", "registered", "done"}
    BY DEF Kept, ContextsKept, Stages
  <2>5. \A f \in fetches : f.of \in Contexts \X Elements /\ f.by \in Contexts /\ IsFlow(f.in)
    BY <2>1, FlowsAreFlows DEF Kept, BackendKept, AllFlows
  <2>6. /\ \A c \in DOMAIN collections : IsHolder(collections[c])
        /\ \A k \in DOMAIN handles : IsHolder(handles[k])
    BY <2>2, <2>3 DEF Kept, HoldersKept, HoldersHave
  <2>7. program \in Programs /\ DOMAIN ops = Contexts
    BY DEF Kept, ContextsKept, Named
  <2>. QED
    BY <2>1, <2>4, <2>5, <2>6, <2>7 DEF TypeOK, Kept, HoldersKept, BackendKept
<1>. QED
  BY <1>1, KeptHolds, PTL

(***************************************************************************)
(* Who produces which flow                                                 *)
(***************************************************************************)
\* A captured use keeps data flows and anti-flows apart and has a flow of its
\* own to produce, if any; what only reads has none.
LEMMA CapturedProduces ==
  ASSUME NEW case \in CaptureCases, NEW source, KindsKept(source.use),
         NEW request, Matches(case, "Sequential", PermissionsOf(source.use), request),
         NEW owner
  PROVE  /\ KindsKept(CapturedUse(case, source, request, owner))
         /\ CapturedUse(case, source, request, owner).out \in {NoFlow, Flow(owner, "out")}
         /\ request = Perms(None, Read) => CapturedUse(case, source, request, owner).out = NoFlow
<1>. DEFINE known == FlowsOfSource(source.use)
            new   == CapturedUse(case, source, request, owner)
<1>1. ProducesItsOwn(case) /\ WellShaped(case) /\ case.coherence_mode = "Sequential"
  BY CaseProduces, CaseShape DEF Matches
<1>2. /\ \A name \in {"source_in", "source_out"} : IsDataFlow(known[name])
      /\ \A name \in {"source_anti_in", "source_anti_out"} : IsAntiFlow(known[name])
  BY DEF KindsKept, FlowsOfSource
<1>3. /\ Within(case.captured.in, {"source_in", "source_out"})
      /\ Within(case.captured.out, {"source_in", "source_out"})
      /\ Within(case.captured.anti_in, {"source_anti_in", "source_anti_out"})
      /\ Within(case.captured.anti_out, {"source_anti_in", "source_anti_out"})
  BY <1>1 DEF ProducesItsOwn, WellShaped, RelationshipsOver, Within, SourceNames,
     DataNames, AntiNames, CaptureNames
<1>4. /\ new.in = Establish(case.captured.in, known, Flow(owner, "in"))
      /\ new.out = Establish(case.captured.out, known, Flow(owner, "out"))
      /\ new.anti_in = Establish(case.captured.anti_in, known, Flow(owner, "anti_in"))
      /\ new.anti_out = Establish(case.captured.anti_out, known, Flow(owner, "anti_out"))
  BY DEF CapturedUse, MakeUse, RegisteredFlows, UseFlows, CapturedPlaces
<1>5. /\ "in" \in DataPlaces /\ "out" \in DataPlaces
      /\ "anti_in" \in AntiPlaces /\ "anti_out" \in AntiPlaces
  BY DEF DataPlaces, AntiPlaces
<1>. HIDE DEF known, new
<1>6. KindsKept(new)
  <2>1. IsDataFlow(new.in) /\ IsDataFlow(new.out)
    BY <1>2, <1>3, <1>4, <1>5, EstablishedData
  <2>2. IsAntiFlow(new.anti_in) /\ IsAntiFlow(new.anti_out)
    BY <1>2, <1>3, <1>4, <1>5, EstablishedAnti
  <2>. QED
    BY <2>1, <2>2 DEF KindsKept
<1>7. new.out \in {NoFlow, Flow(owner, "out")}
  BY <1>1, <1>4 DEF ProducesItsOwn, Establish
<1>8. ASSUME request = Perms(None, Read) PROVE new.out = NoFlow
  <2>1. case = TheCase("Sequential", PermissionsOf(source.use), request)
    BY CaseIsUnique DEF IsTheCase
  <2>2. request.immediate = Read /\ request.scheduling = None
    BY <1>8 DEF Perms
  <2>3. case \in {ReadFromModify, ReadFromReadOrScheduleOnly}
    BY <2>1, <2>2 DEF TheCase, Among, ReadersCase, None, Read, Modify
  <2>4. case.captured.out = Insignificant
    BY <2>3 DEF ReadFromModify, ReadFromReadOrScheduleOnly, CaptureCase,
       CaptureCaseNoNewContinuationUse, UseFlows
  <2>. QED
    BY <1>4, <2>4 DEF Establish, Insignificant
<1>. QED
  BY <1>6, <1>7, <1>8 DEF new

\* A capture leaves the source what it is to produce, and its flows of their
\* kinds.
LEMMA OutcomeProduces ==
  ASSUME NEW source, KindsKept(source.use),
         NEW request, <<PermissionsOf(source.use), request>> \in DOMAIN CaseFor,
         NEW owner
  PROVE  LET outcome == OutcomeOf(source, request, owner)
         IN  /\ KindsKept(outcome.captured.use)
             /\ KindsKept(outcome.source.use)
             /\ outcome.captured.use.out \in {NoFlow, Flow(owner, "out")}
             /\ request = Perms(None, Read) => outcome.captured.use.out = NoFlow
             /\ outcome.source.use.out = source.use.out
<1>. DEFINE outcome == OutcomeOf(source, request, owner)
            new     == outcome.captured.use
            known   == FlowsOfCapture(source.use, new)
<1>1. PICK case \in CaptureCases : MadeBy(case, source, request, owner, outcome)
  BY OutcomeMade
<1>2. /\ KindsKept(new)
      /\ new.out \in {NoFlow, Flow(owner, "out")}
      /\ request = Perms(None, Read) => new.out = NoFlow
  BY <1>1, CapturedProduces DEF MadeBy
<1>3. ProducesItsOwn(case) /\ case.coherence_mode = "Sequential"
  BY <1>1, CaseProduces DEF MadeBy, Matches
<1>4. CASE case.needs_new_continuation_use
  <2>. DEFINE left == outcome.source.use
  <2>1. left = MakeUse(case.continuation,
                       RegisteredFlows(case.continuing, known, owner, ContinuingPlaces), FALSE)
    BY <1>1, <1>4 DEF MadeBy
  <2>2. /\ \A name \in DataNames : IsDataFlow(known[name])
        /\ \A name \in AntiNames : IsAntiFlow(known[name])
        /\ known["source_out"] = source.use.out
    BY <1>2 DEF KindsKept, FlowsOfCapture, DataNames, AntiNames, CaptureNames, SourceNames
  <2>. HIDE DEF known, outcome, new, left
  <2>3. /\ left.in = Establish(case.continuing.in, known, Flow(owner, "cont_in"))
        /\ left.out = Establish(case.continuing.out, known, Flow(owner, "cont_out"))
        /\ left.anti_in = Establish(case.continuing.anti_in, known, Flow(owner, "cont_anti_in"))
        /\ left.anti_out = Establish(case.continuing.anti_out, known, Flow(owner, "cont_anti_out"))
    BY <2>1 DEF MakeUse, RegisteredFlows, UseFlows, ContinuingPlaces
  <2>4. "cont_in" \in DataPlaces /\ "cont_anti_in" \in AntiPlaces /\ "cont_anti_out" \in AntiPlaces
    BY DEF DataPlaces, AntiPlaces
  <2>5. left.out = source.use.out
    <3>1. case.continuing.out.description = "Same" /\ case.continuing.out.of = "source_out"
      BY <1>3, <1>4 DEF ProducesItsOwn, Same
    <3>. QED
      BY <2>2, <2>3, <3>1 DEF Establish
  <2>6. KindsKept(left)
    <3>1. IsDataFlow(left.in) /\ IsAntiFlow(left.anti_in) /\ IsAntiFlow(left.anti_out)
      BY <1>3, <1>4, <2>2, <2>3, <2>4, EstablishedData, EstablishedAnti DEF ProducesItsOwn
    <3>. QED
      BY <2>5, <3>1 DEF KindsKept
  <2>. QED
    BY <1>2, <2>5, <2>6 DEF left, new, outcome
<1>5. CASE ~case.needs_new_continuation_use
  BY <1>1, <1>2, <1>5 DEF MadeBy
<1>. QED
  BY <1>4, <1>5

\* The flows to be produced have the names of those who are to produce them.
LEMMA OutNames ==
  ASSUME NEW c \in Seq(Nat), NEW d \in Data
  PROVE  /\ OwnOut(c, d) \in WholeFlows /\ OwnOut(c, d) \notin FetchFlows
         /\ OwnOut(c, d).place = "out" /\ OwnOut(c, d) # NoFlow
         /\ \A b \in Seq(Nat) : \A a \in Data : OwnOut(c, d) = OwnOut(b, a) => c = b /\ d = a
<1>1. d \in Nat
  BY ElementsAreNumbers
<1>2. Append(c, d) \in Seq(Nat)
  BY <1>1
<1>3. /\ OwnOut(c, d) = Flow(Append(c, d), "out") /\ OwnOut(c, d) # NoFlow
      /\ OwnOut(c, d).owner = Append(c, d) /\ OwnOut(c, d).place = "out"
  BY NoFlowIsNone DEF OwnOut
<1>4. OwnOut(c, d) \in WholeFlows
  BY <1>2, <1>3 DEF WholeFlows, FlowPlaces, Places, Flow
<1>5. OwnOut(c, d) \notin FetchFlows
  <2>1. DOMAIN OwnOut(c, d) = {"owner", "place"}
    BY <1>3 DEF Flow
  <2>2. \A f \in FetchFlows : DOMAIN f = {"owner", "place", "element", "version"}
    BY DEF FetchFlows
  <2>3. "element" \notin {"owner", "place"}
    OBVIOUS
  <2>. QED
    BY <2>1, <2>2, <2>3
<1>6. ASSUME NEW b \in Seq(Nat), NEW a \in Data, OwnOut(c, d) = OwnOut(b, a)
      PROVE  c = b /\ d = a
  <2>1. a \in Nat
    BY ElementsAreNumbers
  <2>2. Append(c, d) = Append(b, a)
    BY <1>6 DEF OwnOut, Flow
  <2>3. Front(Append(c, d)) = c /\ Last(Append(c, d)) = d
        /\ Front(Append(b, a)) = b /\ Last(Append(b, a)) = a
    BY <1>1, <2>1, NamesMade
  <2>. QED
    BY <2>2, <2>3
<1>. QED
  BY <1>3, <1>4, <1>5, <1>6

\* So have their parts about an element.
LEMMA PartNames ==
  ASSUME NEW c \in Seq(Nat), NEW e \in Elements
  PROVE  /\ PartOut(c, e) \in ElementFlows /\ PartOut(c, e) \notin FetchFlows
         /\ PartOut(c, e).place = "out" /\ PartOut(c, e) # NoFlow
         /\ \A b \in Seq(Nat) : \A a \in Elements : PartOut(c, e) = PartOut(b, a) => c = b /\ e = a
         /\ \A b \in Seq(Nat) : \A d \in Data : PartOut(c, e) # OwnOut(b, d)
<1>1. \A b \in Seq(Nat) : \A a \in Elements :
        PartOut(b, a) = [owner |-> b, place |-> "out", element |-> a]
  BY NoFlowIsNone DEF PartOut, Indexed
<1>2. PartOut(c, e) \in ElementFlows
  BY <1>1 DEF ElementFlows, FlowPlaces, Places
<1>3. \A f \in ElementFlows : DOMAIN f = {"owner", "place", "element"}
  BY DEF ElementFlows
<1>4. \A f \in FetchFlows : DOMAIN f = {"owner", "place", "element", "version"}
  BY DEF FetchFlows
<1>5. "version" \notin {"owner", "place", "element"} /\ "element" \notin {"owner", "place"}
  OBVIOUS
<1>6. PartOut(c, e) \notin FetchFlows
  BY <1>2, <1>3, <1>4, <1>5
<1>7. PartOut(c, e) # NoFlow
  <2>1. DOMAIN NoFlow = {"owner", "place"}
    BY DEF NoFlow, Flow
  <2>. QED
    BY <1>2, <1>3, <1>5, <2>1
<1>8. ASSUME NEW b \in Seq(Nat), NEW d \in Data PROVE PartOut(c, e) # OwnOut(b, d)
  <2>1. DOMAIN OwnOut(b, d) = {"owner", "place"}
    BY DEF OwnOut, Flow
  <2>. QED
    BY <1>2, <1>3, <1>5, <2>1
<1>9. ASSUME NEW b \in Seq(Nat), NEW a \in Elements, PartOut(c, e) = PartOut(b, a)
      PROVE  c = b /\ e = a
  <2>1. PartOut(c, e).owner = c /\ PartOut(c, e).element = e
        /\ PartOut(b, a).owner = b /\ PartOut(b, a).element = a
    BY <1>1
  <2>. QED
    BY <1>9, <2>1
<1>10. PartOut(c, e).place = "out"
  BY <1>1
<1>. QED
  BY <1>2, <1>6, <1>7, <1>8, <1>9, <1>10

\* Parts of a flow are of its kind.
LEMMA PartKinds ==
  ASSUME NEW f, NEW e, NEW w
  PROVE  /\ IsDataFlow(f) => IsDataFlow(Indexed(f, e)) /\ IsDataFlow(Fetching(f, w, e))
         /\ IsAntiFlow(f) => IsAntiFlow(Indexed(f, e)) /\ IsAntiFlow(Fetching(f, w, e))
BY DEF IsDataFlow, IsAntiFlow, Indexed, Fetching

\* Links between flows of one kind keep the kinds apart.
LEMMA LinksKeepKinds ==
  ASSUME \A f \in DOMAIN alias : SameKind(f, alias[f]),
         NEW links,
         \A l \in links : NoFlow \notin {l[1], l[2]} => SameKind(l[1], l[2]),
         alias' = EstablishAliases(links)
  PROVE  \A f \in DOMAIN alias' : SameKind(f, alias'[f])
<1>. DEFINE IsKind(f) == f.place \in DataPlaces \/ f.place \in AntiPlaces
<1>1. ASSUME NEW f, IsKind(f) PROVE SameKind(f, Representative(alias, f))
  BY <1>1 DEF Representative, SameKind
<1>2. \A f, g, h : SameKind(f, g) /\ SameKind(g, h) => SameKind(f, h)
  BY DEF SameKind, DataPlaces, AntiPlaces
<1>3. \A f, g : SameKind(f, g) => SameKind(g, f)
  BY DEF SameKind
<1>4. ASSUME NEW f \in DOMAIN alias' PROVE SameKind(f, alias'[f])
  <2>1. CASE f \in DOMAIN alias /\ alias'[f] = alias[f]
    BY <2>1
  <2>2. CASE \E l \in links : /\ NoFlow \notin {l[1], l[2]}
                              /\ Representative(alias, l[1]) = Representative(alias, f)
                              /\ alias'[f] = Representative(alias, l[2])
    <3>1. PICK l \in links : /\ NoFlow \notin {l[1], l[2]}
                             /\ Representative(alias, l[1]) = Representative(alias, f)
                             /\ alias'[f] = Representative(alias, l[2])
      BY <2>2
    <3>2. SameKind(l[1], l[2])
      BY <3>1
    <3>3. SameKind(l[1], Representative(alias, l[1])) /\ SameKind(l[2], Representative(alias, l[2]))
      BY <1>1, <3>2 DEF SameKind
    <3>4. SameKind(f, Representative(alias, f)) \/ f = Representative(alias, f)
      BY DEF Representative
    <3>5. SameKind(f, l[1])
      BY <1>2, <1>3, <3>1, <3>3, <3>4
    <3>. QED
      BY <1>2, <3>1, <3>2, <3>3, <3>5
  <2>. QED
    BY <1>4, <2>1, <2>2, AliasesAre
<1>. QED
  BY <1>4

\* What is captured, and what continues, of what keeps kinds apart.
LEMMA HoldersProduce ==
  ASSUME NEW h, NEW h2, \A k \in DOMAIN h : KindsKept(h[k].use)
  PROVE  /\ \A k \in DOMAIN h : Continued(h, h2, k) =>
              KindsKept(h2[k].use) /\ h2[k].use.out = h[k].use.out
         /\ \A from, to, owner : CapturedAt(h, h2, from, to, owner) =>
              KindsKept(h2[to].use) /\ h2[to].use.out \in {NoFlow, Flow(owner, "out")}
<1>1. ASSUME NEW k \in DOMAIN h, Continued(h, h2, k)
      PROVE  KindsKept(h2[k].use) /\ h2[k].use.out = h[k].use.out
  <2>1. CASE h2[k] = h[k]
    BY <2>1
  <2>2. CASE h2[k] # h[k]
    <3>1. PICK request \in PermissionPairs, owner \in Seq(Nat) :
            Served(h, k, request) /\ h2[k] = OutcomeOf(h[k], request, owner).source
      BY <1>1, <2>2 DEF Continued
    <3>2. <<PermissionsOf(h[k].use), request>> \in DOMAIN CaseFor
      BY <3>1 DEF Served
    <3>. QED
      BY <3>1, <3>2, OutcomeProduces
  <2>. QED
    BY <2>1, <2>2
<1>2. ASSUME NEW from, NEW to, NEW owner, CapturedAt(h, h2, from, to, owner)
      PROVE  KindsKept(h2[to].use) /\ h2[to].use.out \in {NoFlow, Flow(owner, "out")}
  <2>1. PICK request \in PermissionPairs :
          Served(h, from, request) /\ h2[to] = OutcomeOf(h[from], request, owner).captured
    BY <1>2 DEF CapturedAt
  <2>2. from \in DOMAIN h /\ <<PermissionsOf(h[from].use), request>> \in DOMAIN CaseFor
    BY <2>1 DEF Served
  <2>. QED
    BY <2>1, <2>2, OutcomeProduces
<1>. QED
  BY <1>1, <1>2

\* What publishing does to the backend's aliases and publications.
LEMMA OutsPublished ==
  ASSUME Kept, OutsKept, NEW t, Publish(t), ops'[t] = ops[t] + 1,
         \A x \in Contexts : ops'[x] \in Nat /\ ops'[x] >= ops[x], Contexts' = Contexts
  PROVE  /\ \A f \in DOMAIN alias' : SameKind(f, alias'[f])
         /\ \A f \in DOMAIN alias' \ DOMAIN alias : f \in FetchFlows
         /\ PublicationsMade'
         /\ VersionsPublished'
<1>. DEFINE w == Front(t)
            elements == PublishedElements(t)
            outcome(e) == OutcomeOf(handles[<<t, e>>], Perms(None, Read), Append(Place(t), e))
            flow(e) == Fetching(collections[w].use.in, w, e)
            published == [p \in {<<w, e>> : e \in elements} |->
                           [at |-> Place(t),
                            use |-> outcome(p[2]).captured.use,
                            n_fetchers |-> Cardinality(program[w].readers[p[2]]),
                            anti_out |-> Fetching(collections[w].use.anti_out, w, p[2]),
                            released |-> FALSE]]
            links == {<<flow(e), outcome(e).captured.use.in>> : e \in elements}
<1>1. /\ t \in Contexts /\ status[t] = "running" /\ IsIndexTask(t)
      /\ ops[t] + 1 \in DOMAIN program[w].body
      /\ program[w].body[ops[t] + 1].do = "publish"
  BY AboutIndex DEF Kept, Publish
<1>2. /\ w \in Contexts /\ w \in Seq(Nat) /\ IsWork(w) /\ t \in IndexTasks(w)
      /\ w \in DOMAIN collections /\ IsHolderOf(collections[w], WholeFlows)
  BY <1>1, WorkIsThere
<1>3. /\ \A e \in elements : Served(handles, <<t, e>>, Perms(None, Read))
      /\ publications' = With(publications, published)
      /\ alias' = EstablishAliases(links)
      /\ program' = program
  BY DEF Publish
<1>4. \A e \in elements : e \in Elements /\ TakerOf(w, e) = t
  BY <1>2, TakersOfElements DEF PublishedElements, Kept, ContextsKept
<1>5. ASSUME NEW e \in elements
      PROVE  /\ outcome(e).captured.use.out = NoFlow
             /\ IsDataFlow(outcome(e).captured.use.in)
             /\ IsDataFlow(flow(e))
             /\ flow(e) # NoFlow => /\ flow(e) \in FetchFlows
                                    /\ flow(e).version = w /\ flow(e).element = e
  <2>1. /\ <<t, e>> \in DOMAIN handles
        /\ <<PermissionsOf(handles[<<t, e>>].use), Perms(None, Read)>> \in DOMAIN CaseFor
    BY <1>3 DEF Served
  <2>2. KindsKept(handles[<<t, e>>].use) /\ KindsKept(collections[w].use)
    BY <1>2, <2>1 DEF OutsKept, KindsOfHolders
  <2>3. outcome(e).captured.use.out = NoFlow /\ KindsKept(outcome(e).captured.use)
    BY <2>1, <2>2, OutcomeProduces
  <2>4. IsDataFlow(flow(e))
    BY <2>2, PartKinds DEF KindsKept
  <2>5. flow(e) # NoFlow => flow(e) \in FetchFlows
    BY <1>2, <1>4, FetchingOf
  <2>6. flow(e) # NoFlow => flow(e).version = w /\ flow(e).element = e
    BY DEF Fetching
  <2>. QED
    BY <2>3, <2>4, <2>5, <2>6 DEF KindsKept
<1>6. \A e \in elements : flow(e) \notin DOMAIN alias \/ flow(e) = NoFlow
  <2>. SUFFICES ASSUME NEW e \in elements, flow(e) \in DOMAIN alias, flow(e) # NoFlow PROVE FALSE
    OBVIOUS
  <2>. HIDE DEF elements, flow
  <2>1. flow(e).place \in DataPlaces
    BY <1>5 DEF IsDataFlow
  <2>2. <<w, e>> \in DOMAIN publications
    BY <1>5, <2>1 DEF OutsKept, VersionsPublished
  <2>3. PICK n \in 1..ops[t] : n \in DOMAIN program[w].body /\ program[w].body[n].do = "publish"
    BY <1>4, <2>2 DEF OutsKept, PublicationsMade
  <2>4. n = ops[t] + 1
    BY <1>1, <1>2, <2>3, ProgramsAssumption DEF Kept, ContextsKept, Named, IsWork
  <2>5. ops[t] \in Nat
    BY <1>1 DEF Kept, ContextsKept
  <2>. QED
    BY <2>3, <2>4, <2>5

<1>7. \A f \in DOMAIN alias' : SameKind(f, alias'[f])
  <2>1. \A f \in DOMAIN alias : SameKind(f, alias[f])
    BY DEF OutsKept, KindsOfHolders
  <2>2. ASSUME NEW l \in links, NoFlow \notin {l[1], l[2]} PROVE SameKind(l[1], l[2])
    <3>1. PICK e \in elements : l = <<flow(e), outcome(e).captured.use.in>>
      BY <2>2
    <3>. HIDE DEF links, elements, outcome, flow
    <3>2. IsDataFlow(l[1]) /\ IsDataFlow(l[2])
      BY <1>5, <3>1
    <3>. QED
      BY <2>2, <3>2 DEF IsDataFlow, SameKind
  <2>. HIDE DEF links
  <2>. QED
    BY <1>3, <2>1, <2>2, LinksKeepKinds
<1>8. ASSUME NEW f \in DOMAIN alias' \ DOMAIN alias
      PROVE  \E e \in elements : f = flow(e) /\ f # NoFlow
  <2>1. PICK l \in links : NoFlow \notin {l[1], l[2]} /\ f = Representative(alias, l[1])
    <3>. HIDE DEF links
    <3>. QED
      BY <1>3, <1>8, AliasesAre
  <2>2. PICK e \in elements : l = <<flow(e), outcome(e).captured.use.in>>
    OBVIOUS
  <2>. HIDE DEF links, elements, outcome, flow
  <2>3. l[1] = flow(e) /\ flow(e) # NoFlow
    BY <2>1, <2>2
  <2>. QED
    BY <1>6, <2>1, <2>3 DEF Representative
<1>9. /\ DOMAIN publications' = DOMAIN publications \cup {<<w, e>> : e \in elements}
      /\ \A p \in DOMAIN publications :
           p \notin {<<w, e>> : e \in elements} => publications'[p] = publications[p]
      /\ \A p \in {<<w, e>> : e \in elements} : publications'[p] = published[p]
  <2>1. DOMAIN published = {<<w, e>> : e \in elements}
    OBVIOUS
  <2>. HIDE DEF published
  <2>. QED
    BY <1>3, <2>1 DEF With
<1>10. PublicationsMade'
  <2>1. \A x, e : TakerOf(x, e)' = TakerOf(x, e) /\ (IsWork(x)' <=> IsWork(x))
    BY <1>3 DEF TakerOf, IsWork
  <2>2. ASSUME NEW p \in DOMAIN publications'
        PROVE  /\ DOMAIN publications'[p] = {"at", "use", "n_fetchers", "anti_out", "released"}
               /\ publications'[p].use.out = NoFlow
               /\ IsWork(p[1])
               /\ \E n \in 1..ops'[TakerOf(p[1], p[2])] :
                    n \in DOMAIN program[p[1]].body /\ program[p[1]].body[n].do = "publish"
               /\ TakerOf(p[1], p[2]) \in Contexts
    <3>1. CASE p \in {<<w, e>> : e \in elements}
      <4>1. PICK e \in elements : p = <<w, e>>
        BY <3>1
      <4>2. p[1] = w /\ p[2] = e /\ TakerOf(p[1], p[2]) = t
        BY <1>4, <4>1
      <4>3. publications'[p] = published[p]
        BY <1>9, <3>1
      <4>4. /\ DOMAIN publications'[p] = {"at", "use", "n_fetchers", "anti_out", "released"}
            /\ publications'[p].use = outcome(e).captured.use
        BY <3>1, <4>2, <4>3
      <4>5. ops[t] + 1 \in 1..ops'[t]
        BY <1>1 DEF Kept, ContextsKept
      <4>. HIDE DEF elements, outcome
      <4>. QED
        BY <1>1, <1>2, <1>5, <4>2, <4>4, <4>5
    <3>2. CASE p \notin {<<w, e>> : e \in elements}
      <4>1. p \in DOMAIN publications /\ publications'[p] = publications[p]
        BY <1>9, <2>2, <3>2
      <4>2. /\ DOMAIN publications[p] = {"at", "use", "n_fetchers", "anti_out", "released"}
            /\ publications[p].use.out = NoFlow
            /\ IsWork(p[1])
            /\ \E n \in 1..ops[TakerOf(p[1], p[2])] :
                 n \in DOMAIN program[p[1]].body /\ program[p[1]].body[n].do = "publish"
            /\ TakerOf(p[1], p[2]) \in Contexts
        BY <4>1 DEF OutsKept, PublicationsMade
      <4>3. /\ ops[TakerOf(p[1], p[2])] \in Nat
            /\ ops'[TakerOf(p[1], p[2])] \in Nat
            /\ ops'[TakerOf(p[1], p[2])] >= ops[TakerOf(p[1], p[2])]
        BY <4>2 DEF Kept, ContextsKept
      <4>4. \E n \in 1..ops'[TakerOf(p[1], p[2])] :
              n \in DOMAIN program[p[1]].body /\ program[p[1]].body[n].do = "publish"
        <5>1. PICK n \in 1..ops[TakerOf(p[1], p[2])] :
                n \in DOMAIN program[p[1]].body /\ program[p[1]].body[n].do = "publish"
          BY <4>2
        <5>2. n \in 1..ops'[TakerOf(p[1], p[2])]
          BY <4>3, <5>1
        <5>. QED
          BY <5>1, <5>2
      <4>. QED
        BY <4>1, <4>2, <4>4
    <3>. QED
      BY <3>1, <3>2
  <2>. QED
    BY <1>3, <2>1, <2>2, Zenon DEF PublicationsMade
<1>11. VersionsPublished'
  <2>1. ASSUME NEW f \in DOMAIN alias', f \in FetchFlows, f.place \in DataPlaces
        PROVE  <<f.version, f.element>> \in DOMAIN publications'
    <3>1. CASE f \in DOMAIN alias
      BY <1>9, <2>1, <3>1 DEF OutsKept, VersionsPublished
    <3>2. CASE f \notin DOMAIN alias
      <4>1. PICK e \in elements : f = flow(e) /\ f # NoFlow
        BY <1>8, <3>2
      <4>2. f.version = w /\ f.element = e
        BY <1>5, <4>1
      <4>. QED
        BY <1>9, <4>2
    <3>. QED
      BY <3>1, <3>2
  <2>. QED
    BY <2>1 DEF VersionsPublished
<1>12. \A f \in DOMAIN alias' \ DOMAIN alias : f \in FetchFlows
  <2>. HIDE DEF elements, flow
  <2>. QED
    BY <1>5, <1>8
<1>. QED
  BY <1>7, <1>10, <1>11, <1>12

\* Publications stay made by those who made them.
LEMMA PublicationsGoOn ==
  ASSUME Kept, PublicationsMade, program' = program, Contexts \subseteq Contexts',
         \A x \in Contexts : ops'[x] \in Nat /\ ops'[x] >= ops[x],
         DOMAIN publications' = DOMAIN publications,
         \A p \in DOMAIN publications : /\ DOMAIN publications'[p] = DOMAIN publications[p]
                                        /\ publications'[p].use = publications[p].use
  PROVE  PublicationsMade'
<1>1. \A x, e : TakerOf(x, e)' = TakerOf(x, e) /\ (IsWork(x)' <=> IsWork(x))
  BY DEF TakerOf, IsWork
<1>2. ASSUME NEW p \in DOMAIN publications
      PROVE  /\ DOMAIN publications'[p] = {"at", "use", "n_fetchers", "anti_out", "released"}
             /\ publications'[p].use.out = NoFlow
             /\ IsWork(p[1])
             /\ \E n \in 1..ops'[TakerOf(p[1], p[2])] :
                  n \in DOMAIN program[p[1]].body /\ program[p[1]].body[n].do = "publish"
             /\ TakerOf(p[1], p[2]) \in Contexts'
  <2>1. /\ DOMAIN publications[p] = {"at", "use", "n_fetchers", "anti_out", "released"}
        /\ publications[p].use.out = NoFlow
        /\ IsWork(p[1])
        /\ TakerOf(p[1], p[2]) \in Contexts
    BY DEF PublicationsMade
  <2>2. PICK n \in 1..ops[TakerOf(p[1], p[2])] :
          n \in DOMAIN program[p[1]].body /\ program[p[1]].body[n].do = "publish"
    BY DEF PublicationsMade
  <2>3. /\ ops[TakerOf(p[1], p[2])] \in Nat
        /\ ops'[TakerOf(p[1], p[2])] \in Nat
        /\ ops'[TakerOf(p[1], p[2])] >= ops[TakerOf(p[1], p[2])]
    BY <2>1 DEF Kept, ContextsKept
  <2>4. n \in 1..ops'[TakerOf(p[1], p[2])]
    BY <2>2, <2>3
  <2>. QED
    BY <2>1, <2>2, <2>4
<1>. QED
  BY <1>1, <1>2, Zenon DEF PublicationsMade

\* Out flows that have another name stay those of who is done.
LEMMA SettledGoOn ==
  ASSUME OutsSettled, program' = program, Contexts \subseteq Contexts',
         \A x : Over(x) => Over(x)',
         \A f \in DOMAIN alias' \ DOMAIN alias : f \in FetchFlows
  PROVE  OutsSettled'
<1>1. \A x, e : TakerOf(x, e)' = TakerOf(x, e) /\ (IsWork(x)' <=> IsWork(x))
  BY DEF TakerOf, IsWork
<1>2. ASSUME NEW f \in DOMAIN alias', f.place = "out", f \notin FetchFlows
      PROVE  \/ \E c \in Contexts' : Over(c)' /\ \E d \in Data : f = OwnOut(c, d)
             \/ \E c \in Contexts' : \E e \in Elements :
                  /\ f = PartOut(c, e)
                  /\ IF IsWork(c) THEN Over(TakerOf(c, e))' ELSE Over(c)'
  <2>1. f \in DOMAIN alias
    BY <1>2
  <2>2. CASE \E c \in Contexts : Over(c) /\ \E d \in Data : f = OwnOut(c, d)
    BY <2>2
  <2>3. CASE \E c \in Contexts : \E e \in Elements :
               /\ f = PartOut(c, e)
               /\ IF IsWork(c) THEN Over(TakerOf(c, e)) ELSE Over(c)
    <3>1. PICK c \in Contexts, e \in Elements :
                 /\ f = PartOut(c, e)
                 /\ IF IsWork(c) THEN Over(TakerOf(c, e)) ELSE Over(c)
      BY <2>3
    <3>2. IF IsWork(c) THEN Over(TakerOf(c, e))' ELSE Over(c)'
      BY <1>1, <3>1
    <3>. QED
      BY <3>1, <3>2
  <2>. QED
    BY <1>2, <2>1, <2>2, <2>3 DEF OutsSettled
<1>. QED
  BY <1>1, <1>2, Zenon DEF OutsSettled, OwnOut, PartOut

\* Creating contexts and capturing keeps what is known of the flows to be
\* produced: a capture produces a flow of its own.
LEMMA OutsCaptures ==
  ASSUME Kept, OutsKept, NEW c, NEW made, NEW state, Captures(c, made, state)
  PROVE  OutsKept'
<1>1. /\ c \in Contexts /\ status[c] = "running"
      /\ CapturesHandles(handles, handles', c, Place(c))
      /\ CapturesCollection(collections, collections', c, Place(c))
      /\ made = {} => DOMAIN handles' = DOMAIN handles /\ collections' = collections
      /\ IsWork(Place(c)) => \A k \in DOMAIN handles' \ DOMAIN handles : k[2] = Parameter
      /\ made \in {{}, {Place(c)}}
      /\ made # {} => state \in {"registered", "pending"}
      /\ program' = program /\ fetches' = fetches
      /\ UNCHANGED <<alias, publications>> \/ Publish(c)
  BY DEF Captures, Operates
<1>2. /\ Contexts' = Contexts \cup made
      /\ \A x \in Contexts : status'[x] = status[x]
      /\ \A x \in made : status'[x] = state
      /\ \A x \in Contexts : ops'[x] = IF x = c THEN ops[c] + 1 ELSE ops[x]
  BY ContextsProceed, Zenon DEF Captures, Operates, Kept
<1>3. /\ \A x : IsWork(x)' <=> IsWork(x)
      /\ \A x : IsIndexTask(x)' <=> IsIndexTask(x)
      /\ \A x : LocalElements(x)' = LocalElements(x)
      /\ \A x, e : OwnOut(x, e)' = OwnOut(x, e) /\ PartOut(x, e)' = PartOut(x, e)
      /\ \A x : Over(x) => Over(x)'
      /\ \A x \in Contexts : Over(x)' => Over(x)
      /\ \A x \in made : ~Over(x)'
  BY <1>1, <1>2 DEF IsWork, IsIndexTask, LocalElements, OwnOut, PartOut, Over
<1>4. /\ Place(c) \in Seq(Nat) /\ Front(Place(c)) = c /\ ~IsWork(c) /\ ~IsIndexTask(Place(c))
      /\ \A x \in Contexts : ops'[x] \in Nat /\ ops'[x] >= ops[x]
  <2>1. Place(c) \in Seq(Nat) /\ Front(Place(c)) = c
    BY <1>1, ContextNames DEF Kept
  <2>2. ~IsWork(c)
    BY <1>1, PlaceIsNew DEF Kept
  <2>3. \A x \in Contexts : ops[x] \in Nat
    BY DEF Kept, ContextsKept
  <2>. QED
    BY <1>2, <2>1, <2>2, <2>3 DEF IsIndexTask
<1>5. /\ \A k \in DOMAIN handles : /\ KindsKept(handles'[k].use)
                                   /\ handles'[k].use.out = handles[k].use.out
      /\ \A k \in DOMAIN handles' \ DOMAIN handles : \E d \in Data :
           /\ k = <<Place(c), d>>
           /\ KindsKept(handles'[k].use)
           /\ handles'[k].use.out \in {NoFlow, OwnOut(Place(c), d)}
  <2>1. \A k \in DOMAIN handles : KindsKept(handles[k].use)
    BY DEF OutsKept, KindsOfHolders
  <2>. QED
    BY <1>1, <2>1, HoldersProduce DEF CapturesHandles, OwnOut
<1>6. /\ \A x \in DOMAIN collections : /\ KindsKept(collections'[x].use)
                                       /\ collections'[x].use.out = collections[x].use.out
      /\ \A x \in DOMAIN collections' \ DOMAIN collections :
           /\ x = Place(c)
           /\ KindsKept(collections'[x].use)
           /\ collections'[x].use.out \in {NoFlow, Flow(Place(c), "out")}
  <2>1. \A x \in DOMAIN collections : KindsKept(collections[x].use)
    BY DEF OutsKept, KindsOfHolders
  <2>. QED
    BY <1>1, <2>1, HoldersProduce DEF CapturesCollection
<1>7. OutsNamed'
  <2>1. ASSUME NEW k \in DOMAIN handles'
        PROVE  \/ handles'[k].use.out = NoFlow
               \/ ~IsIndexTask(k[1]) /\ handles'[k].use.out = OwnOut(k[1], k[2])
               \/ /\ IsIndexTask(k[1]) /\ k[2] \in LocalElements(k[1])
                  /\ handles'[k].use.out = PartOut(Front(k[1]), k[2])
    <3>1. CASE k \in DOMAIN handles
      BY <1>5, <3>1 DEF OutsKept, OutsNamed
    <3>2. CASE k \notin DOMAIN handles
      BY <1>4, <1>5, <2>1, <3>2
    <3>. QED
      BY <3>1, <3>2
  <2>2. ASSUME NEW x \in DOMAIN collections'
        PROVE  collections'[x].use.out \in {NoFlow, Flow(x, "out")}
    BY <1>6, <2>2 DEF OutsKept, OutsNamed
  <2>. QED
    BY <1>3, <2>1, <2>2 DEF OutsNamed
<1>8. LiveHolders'
  <2>1. ASSUME NEW k \in DOMAIN handles' PROVE ~Over(k[1])' /\ (IsWork(k[1]) => k[2] = Parameter)
    <3>1. CASE k \in DOMAIN handles
      <4>1. ~Over(k[1]) /\ (IsWork(k[1]) => k[2] = Parameter) /\ k[1] \in Contexts
        BY <3>1 DEF OutsKept, LiveHolders, Kept, HoldersKept
      <4>. QED
        BY <1>3, <4>1
    <3>2. CASE k \notin DOMAIN handles
      BY <1>1, <1>3, <1>5, <2>1, <3>2
    <3>. QED
      BY <3>1, <3>2
  <2>2. ASSUME NEW x \in DOMAIN collections' PROVE IsWork(x) \/ ~Over(x)'
    <3>1. CASE x \in DOMAIN collections
      BY <1>3, <3>1 DEF OutsKept, LiveHolders, Kept, HoldersKept
    <3>2. CASE x \notin DOMAIN collections
      BY <1>1, <1>3, <1>6, <2>2, <3>2
    <3>. QED
      BY <3>1, <3>2
  <2>. QED
    BY <1>3, <2>1, <2>2 DEF LiveHolders
<1>9. FetchesNamed'
  BY <1>1 DEF OutsKept, FetchesNamed
<1>10. CASE UNCHANGED <<alias, publications>>
  <2>1. PublicationsMade'
    BY <1>1, <1>2, <1>4, <1>10, PublicationsGoOn DEF OutsKept
  <2>2. VersionsPublished'
    BY <1>10 DEF OutsKept, VersionsPublished
  <2>3. OutsSettled'
    <3>1. \A f \in DOMAIN alias' \ DOMAIN alias : f \in FetchFlows
      BY <1>10
    <3>. QED
      BY <1>1, <1>2, <1>3, <3>1, SettledGoOn DEF OutsKept
  <2>4. KindsOfHolders'
    BY <1>5, <1>6, <1>10 DEF OutsKept, KindsOfHolders
  <2>. QED
    BY <1>7, <1>8, <1>9, <2>1, <2>2, <2>3, <2>4 DEF OutsKept
<1>11. CASE Publish(c)
  <2>1. Contexts' = Contexts /\ ops'[c] = ops[c] + 1
    <3>1. Proceed(c, {}, "pending")
      BY <1>11 DEF Publish
    <3>2. status' = With(status, [x \in {} |-> "pending"])
      BY <3>1 DEF Proceed
    <3>. QED
      BY <1>1, <1>2, <3>2 DEF With, Contexts
  <2>2. /\ \A f \in DOMAIN alias' : SameKind(f, alias'[f])
        /\ \A f \in DOMAIN alias' \ DOMAIN alias : f \in FetchFlows
        /\ PublicationsMade'
        /\ VersionsPublished'
    BY <1>4, <1>11, <2>1, OutsPublished
  <2>3. OutsSettled'
    BY <1>1, <1>2, <1>3, <2>2, SettledGoOn DEF OutsKept
  <2>4. KindsOfHolders'
    BY <1>5, <1>6, <2>2 DEF OutsKept, KindsOfHolders
  <2>. QED
    BY <1>7, <1>8, <1>9, <2>2, <2>3, <2>4 DEF OutsKept
<1>. QED
  BY <1>1, <1>10, <1>11

\* Fetching keeps what is known of the flows to be produced: what fetches
\* produces nothing.
LEMMA OutsFetch ==
  ASSUME Kept, OutsKept, NEW t, Fetch(t)
  PROVE  OutsKept'
<1>. DEFINE w == Front(t)
            got == [k \in {<<t, e>> : e \in FetchedElements(t)} |-> FetchedUse(collections[w], w, k[2])]
<1>1. /\ t \in Contexts /\ status[t] = "running" /\ IsIndexTask(t)
      /\ w \in Contexts /\ IsWork(w) /\ t \in IndexTasks(w)
  BY AboutIndex DEF Kept, Fetch
<1>2. /\ w \in Seq(Nat) /\ w \in DOMAIN collections
      /\ IsHolderOf(collections[w], WholeFlows)
  BY <1>1, WorkIsThere
<1>3. FetchedElements(t) \subseteq Elements
  BY DEF FetchedElements
<1>4. /\ Proceed(t, {}, "pending") /\ program' = program
      /\ UNCHANGED <<collections, alias, publications>>
      /\ handles' = With(handles, got)
      /\ fetches' = fetches \cup
           {[of |-> <<w, e>>, by |-> t, in |-> FetchedUse(collections[w], w, e).use.in] :
              e \in FetchedElements(t)}
  BY DEF Fetch
<1>5. /\ Contexts' = Contexts
      /\ \A x \in Contexts : status'[x] = status[x]
      /\ \A x \in Contexts : ops'[x] = IF x = t THEN ops[t] + 1 ELSE ops[x]
  <2>. DEFINE made == {}
  <2>1. made \in {{}, {Place(t)}} /\ made = {} /\ Proceed(t, made, "pending")
    BY <1>4
  <2>2. Contexts \cup made = Contexts
    OBVIOUS
  <2>. HIDE DEF made
  <2>. QED
    BY <1>1, <1>4, <2>1, <2>2, ContextsProceed DEF Kept
<1>6. /\ \A x : IsWork(x)' <=> IsWork(x)
      /\ \A x : IsIndexTask(x)' <=> IsIndexTask(x)
      /\ \A x : LocalElements(x)' = LocalElements(x)
      /\ \A x : Over(x)' <=> Over(x)
  BY <1>4, <1>5 DEF IsWork, IsIndexTask, LocalElements, Over
<1>7. \A x \in Contexts : ops'[x] \in Nat /\ ops'[x] >= ops[x]
  <2>1. \A x \in Contexts : ops[x] \in Nat
    BY DEF Kept, ContextsKept
  <2>. QED
    BY <1>5, <2>1
<1>8. ASSUME NEW e \in FetchedElements(t)
      PROVE  /\ KindsKept(FetchedUse(collections[w], w, e).use)
             /\ FetchedUse(collections[w], w, e).use.out = NoFlow
             /\ FetchedUse(collections[w], w, e).use.in = Fetching(collections[w].use.in, w, e)
  <2>1. KindsKept(collections[w].use)
    BY <1>2 DEF OutsKept, KindsOfHolders
  <2>2. LET fetched == FetchedUse(collections[w], w, e)
        IN  /\ fetched.use.in = Fetching(collections[w].use.in, w, e)
            /\ fetched.use.anti_out = Fetching(collections[w].use.anti_out, w, e)
            /\ fetched.use.out = NoFlow
            /\ fetched.use.anti_in = NoFlow
    BY <1>2, <1>3, FetchedIs
  <2>. QED
    BY <2>1, <2>2, PartKinds DEF KindsKept, IsDataFlow, IsAntiFlow
<1>9. /\ DOMAIN handles' = DOMAIN handles \cup {<<t, e>> : e \in FetchedElements(t)}
      /\ \A k \in DOMAIN handles : k \notin {<<t, e>> : e \in FetchedElements(t)} =>
           handles'[k] = handles[k]
      /\ \A e \in FetchedElements(t) : handles'[<<t, e>>] = FetchedUse(collections[w], w, e)
  <2>1. /\ DOMAIN got = {<<t, e>> : e \in FetchedElements(t)}
        /\ \A e \in FetchedElements(t) : got[<<t, e>>] = FetchedUse(collections[w], w, e)
    OBVIOUS
  <2>. HIDE DEF got
  <2>. QED
    BY <1>4, <2>1 DEF With
<1>10. ASSUME NEW k \in DOMAIN handles'
       PROVE  /\ KindsKept(handles'[k].use)
              /\ \/ handles'[k].use.out = NoFlow
                 \/ ~IsIndexTask(k[1]) /\ handles'[k].use.out = OwnOut(k[1], k[2])
                 \/ /\ IsIndexTask(k[1]) /\ k[2] \in LocalElements(k[1])
                    /\ handles'[k].use.out = PartOut(Front(k[1]), k[2])
              /\ ~Over(k[1])
              /\ IsWork(k[1]) => k[2] = Parameter
  <2>1. CASE k \in {<<t, e>> : e \in FetchedElements(t)}
    <3>1. PICK e \in FetchedElements(t) : k = <<t, e>>
      BY <2>1
    <3>2. handles'[k].use = FetchedUse(collections[w], w, e).use
      BY <1>9, <3>1
    <3>3. ~IsWork(t) /\ ~Over(t)
      BY <1>1, IndexNames DEF Over, Kept, ContextsKept
    <3>. QED
      BY <1>8, <3>1, <3>2, <3>3
  <2>2. CASE k \notin {<<t, e>> : e \in FetchedElements(t)}
    <3>1. k \in DOMAIN handles /\ handles'[k] = handles[k]
      BY <1>9, <1>10, <2>2
    <3>. QED
      BY <3>1 DEF OutsKept, KindsOfHolders, OutsNamed, LiveHolders
  <2>. QED
    BY <2>1, <2>2
<1>11. KindsOfHolders'
  BY <1>4, <1>10 DEF OutsKept, KindsOfHolders
<1>12. OutsNamed'
  BY <1>4, <1>6, <1>10 DEF OutsKept, OutsNamed, OwnOut, PartOut
<1>13. LiveHolders'
  BY <1>4, <1>6, <1>10 DEF OutsKept, LiveHolders
<1>14. PublicationsMade' /\ VersionsPublished'
  <2>1. PublicationsMade'
    BY <1>4, <1>5, <1>7, PublicationsGoOn DEF OutsKept
  <2>. QED
    BY <1>4, <2>1 DEF OutsKept, VersionsPublished
<1>15. FetchesNamed'
  <2>1. ASSUME NEW f \in fetches', f.in # NoFlow PROVE f.in.version = f.of[1] /\ f.in.element = f.of[2]
    <3>1. CASE f \in fetches
      BY <2>1, <3>1 DEF OutsKept, FetchesNamed
    <3>2. CASE f \notin fetches
      <4>1. PICK e \in FetchedElements(t) :
              f = [of |-> <<w, e>>, by |-> t, in |-> FetchedUse(collections[w], w, e).use.in]
        BY <1>4, <2>1, <3>2
      <4>2. f.of = <<w, e>> /\ f.in = Fetching(collections[w].use.in, w, e)
        BY <1>8, <4>1
      <4>. QED
        BY <2>1, <4>2 DEF Fetching
    <3>. QED
      BY <3>1, <3>2
  <2>. QED
    BY <2>1 DEF FetchesNamed
<1>16. OutsSettled'
  <2>1. \A f \in DOMAIN alias' \ DOMAIN alias : f \in FetchFlows
    BY <1>4
  <2>. QED
    BY <1>4, <1>5, <1>6, <2>1, SettledGoOn DEF OutsKept
<1>. QED
  BY <1>11, <1>12, <1>13, <1>14, <1>15, <1>16 DEF OutsKept

\* An index task is to produce the parts of what the work is to produce that
\* are about its own elements.
LEMMA OutsIndexTask ==
  ASSUME Kept, OutsKept, NEW w \in Contexts, CreateTaskForIndex(w)
  PROVE  OutsKept'
<1>1. /\ IsWork(w) /\ program' = program
      /\ UNCHANGED <<collections, alias, publications, fetches>>
  BY DEF CreateTaskForIndex
<1>2. PICK t \in IndexTasks(w) \ Contexts :
        /\ handles' =
             With(IF <<w, Parameter>> \in DOMAIN handles
                  THEN With(handles,
                            Single(<<t, Parameter>>, SharedReadUse(handles[<<w, Parameter>>])))
                  ELSE handles,
                  [k \in {<<t, e>> : e \in LocalElements(t)} |-> LocalUse(collections[w], k[2])])
        /\ status' = With(status, Single(t, "pending"))
        /\ ops' = With(ops, Single(t, 0))
  BY DEF CreateTaskForIndex
<1>. DEFINE shared == Single(<<t, Parameter>>, SharedReadUse(handles[<<w, Parameter>>]))
            all    == IF <<w, Parameter>> \in DOMAIN handles THEN With(handles, shared) ELSE handles
            local  == [k \in {<<t, e>> : e \in LocalElements(t)} |-> LocalUse(collections[w], k[2])]
<1>3. /\ Contexts' = Contexts \cup {t}
      /\ \A x \in Contexts : status'[x] = status[x]
      /\ status'[t] = "pending"
      /\ \A x \in Contexts : ops'[x] = ops[x]
  <2>1. /\ DOMAIN status' = DOMAIN status \cup {t}
        /\ \A x \in DOMAIN status \ {t} : status'[x] = status[x]
        /\ status'[t] = "pending"
        /\ \A x \in DOMAIN ops \ {t} : ops'[x] = ops[x]
    BY <1>2 DEF With, Single
  <2>. QED
    BY <1>2, <2>1 DEF Contexts, Kept, ContextsKept
<1>4. /\ Front(t) = w /\ ~IsWork(t) /\ IsIndexTask(t)
      /\ w \in DOMAIN collections /\ IsHolderOf(collections[w], WholeFlows)
      /\ LocalElements(t) \subseteq Elements
  <2>1. Front(t) = w /\ ~IsWork(t) /\ IsIndexTask(t)
    BY <1>1, IndexNames DEF Kept, ContextsKept
  <2>2. w \in DOMAIN collections
    BY <1>1 DEF Kept, CollectionsHeld, Over
  <2>3. IsHolderOf(collections[w], WholeFlows)
    BY <2>2 DEF Kept, HoldersKept, HoldersHave
  <2>. QED
    BY <1>1, <2>1, <2>2, <2>3, TakersOfElements DEF Kept, ContextsKept
<1>5. /\ \A x : IsWork(x)' <=> IsWork(x)
      /\ \A x : IsIndexTask(x)' <=> IsIndexTask(x)
      /\ \A x : LocalElements(x)' = LocalElements(x)
      /\ \A x : Over(x)' <=> Over(x)
      /\ ~Over(t)
  BY <1>1, <1>2, <1>3 DEF IsWork, IsIndexTask, LocalElements, Over
<1>6. \A x \in Contexts : ops'[x] \in Nat /\ ops'[x] >= ops[x]
  BY <1>3 DEF Kept, ContextsKept
<1>7. ASSUME NEW e \in LocalElements(t)
      PROVE  /\ KindsKept(LocalUse(collections[w], e).use)
             /\ LocalUse(collections[w], e).use.out \in {NoFlow, PartOut(w, e)}
  <2>1. KindsKept(collections[w].use) /\ collections[w].use.out \in {NoFlow, Flow(w, "out")}
    BY <1>4 DEF OutsKept, KindsOfHolders, OutsNamed
  <2>2. LET one == LocalUse(collections[w], e)
        IN  /\ one.use.in = Indexed(collections[w].use.in, e)
            /\ one.use.out \in {NoFlow, Indexed(collections[w].use.out, e)}
            /\ one.use.anti_in \in {NoFlow, Indexed(collections[w].use.anti_in, e)}
            /\ one.use.anti_out = Indexed(collections[w].use.anti_out, e)
    BY <1>4, LocalIs
  <2>3. Indexed(collections[w].use.out, e) \in {NoFlow, PartOut(w, e)}
    BY <2>1 DEF PartOut, Indexed
  <2>4. IsDataFlow(NoFlow) /\ IsAntiFlow(NoFlow)
    BY DEF IsDataFlow, IsAntiFlow
  <2>. QED
    BY <2>1, <2>2, <2>3, <2>4, PartKinds DEF KindsKept
<1>8. <<w, Parameter>> \in DOMAIN handles =>
        /\ KindsKept(SharedReadUse(handles[<<w, Parameter>>]).use)
        /\ SharedReadUse(handles[<<w, Parameter>>]).use.out = NoFlow
  <2>. SUFFICES ASSUME <<w, Parameter>> \in DOMAIN handles
                PROVE  /\ KindsKept(SharedReadUse(handles[<<w, Parameter>>]).use)
                       /\ SharedReadUse(handles[<<w, Parameter>>]).use.out = NoFlow
    OBVIOUS
  <2>1. KindsKept(handles[<<w, Parameter>>].use) /\ IsHolderOf(handles[<<w, Parameter>>], AllFlows)
    BY DEF OutsKept, KindsOfHolders, Kept, HoldersKept, HoldersHave
  <2>2. LET one == SharedReadUse(handles[<<w, Parameter>>])
        IN  /\ one.use.in = handles[<<w, Parameter>>].use.in
            /\ one.use.out = NoFlow
            /\ one.use.anti_in = NoFlow
            /\ one.use.anti_out = handles[<<w, Parameter>>].use.anti_out
    BY <2>1, SharedIs
  <2>3. IsDataFlow(NoFlow) /\ IsAntiFlow(NoFlow)
    BY DEF IsDataFlow, IsAntiFlow
  <2>. QED
    BY <2>1, <2>2, <2>3 DEF KindsKept
<1>9. \A k \in DOMAIN handles' :
        \/ \E e \in LocalElements(t) : k = <<t, e>> /\ handles'[k] = LocalUse(collections[w], e)
        \/ /\ <<w, Parameter>> \in DOMAIN handles
           /\ k = <<t, Parameter>> /\ handles'[k] = SharedReadUse(handles[<<w, Parameter>>])
        \/ k \in DOMAIN handles /\ handles'[k] = handles[k]
  <2>1. \A k \in DOMAIN all :
          \/ /\ <<w, Parameter>> \in DOMAIN handles
             /\ k = <<t, Parameter>> /\ all[k] = SharedReadUse(handles[<<w, Parameter>>])
          \/ k \in DOMAIN handles /\ all[k] = handles[k]
    <3>1. CASE <<w, Parameter>> \in DOMAIN handles
      <4>1. DOMAIN shared = {<<t, Parameter>>}
            /\ shared[<<t, Parameter>>] = SharedReadUse(handles[<<w, Parameter>>])
        BY DEF Single
      <4>. HIDE DEF shared
      <4>. QED
        BY <3>1, <4>1 DEF With
    <3>2. CASE <<w, Parameter>> \notin DOMAIN handles
      BY <3>2
    <3>. QED
      BY <3>1, <3>2
  <2>2. \A k \in DOMAIN local : \E e \in LocalElements(t) :
          k = <<t, e>> /\ local[k] = LocalUse(collections[w], e)
    OBVIOUS
  <2>3. handles' = With(all, local)
    BY <1>2
  <2>. HIDE DEF all, local
  <2>4. /\ DOMAIN handles' = DOMAIN all \cup DOMAIN local
        /\ \A k \in DOMAIN handles' : handles'[k] = IF k \in DOMAIN local THEN local[k] ELSE all[k]
    BY <2>3 DEF With
  <2>. QED
    BY <2>1, <2>2, <2>4
<1>10. ASSUME NEW k \in DOMAIN handles'
       PROVE  /\ KindsKept(handles'[k].use)
              /\ \/ handles'[k].use.out = NoFlow
                 \/ ~IsIndexTask(k[1]) /\ handles'[k].use.out = OwnOut(k[1], k[2])
                 \/ /\ IsIndexTask(k[1]) /\ k[2] \in LocalElements(k[1])
                    /\ handles'[k].use.out = PartOut(Front(k[1]), k[2])
              /\ ~Over(k[1])
              /\ IsWork(k[1]) => k[2] = Parameter
  <2>1. CASE \E e \in LocalElements(t) : k = <<t, e>> /\ handles'[k] = LocalUse(collections[w], e)
    <3>1. PICK e \in LocalElements(t) : k = <<t, e>> /\ handles'[k] = LocalUse(collections[w], e)
      BY <2>1
    <3>2. k[1] = t /\ k[2] = e
      BY <3>1
    <3>. QED
      BY <1>4, <1>5, <1>7, <3>1, <3>2
  <2>2. CASE /\ <<w, Parameter>> \in DOMAIN handles
             /\ k = <<t, Parameter>> /\ handles'[k] = SharedReadUse(handles[<<w, Parameter>>])
    BY <1>4, <1>5, <1>8, <2>2
  <2>3. CASE k \in DOMAIN handles /\ handles'[k] = handles[k]
    BY <2>3 DEF OutsKept, KindsOfHolders, OutsNamed, LiveHolders
  <2>. QED
    BY <1>9, <1>10, <2>1, <2>2, <2>3
<1>11. KindsOfHolders'
  BY <1>1, <1>10 DEF OutsKept, KindsOfHolders
<1>12. OutsNamed'
  BY <1>1, <1>5, <1>10 DEF OutsKept, OutsNamed, OwnOut, PartOut
<1>13. LiveHolders'
  BY <1>1, <1>5, <1>10 DEF OutsKept, LiveHolders
<1>14. PublicationsMade' /\ VersionsPublished' /\ FetchesNamed'
  <2>1. PublicationsMade'
    BY <1>1, <1>3, <1>6, PublicationsGoOn DEF OutsKept
  <2>. QED
    BY <1>1, <2>1 DEF OutsKept, VersionsPublished, FetchesNamed
<1>15. OutsSettled'
  <2>1. \A f \in DOMAIN alias' \ DOMAIN alias : f \in FetchFlows
    BY <1>1
  <2>. QED
    BY <1>1, <1>3, <1>5, <2>1, SettledGoOn DEF OutsKept
<1>. QED
  BY <1>11, <1>12, <1>13, <1>14, <1>15 DEF OutsKept

\* The end of a task collection, whose own capture of the plain handle goes.
LEMMA OutsDrop ==
  ASSUME Kept, OutsKept, NEW w \in Contexts, DropTaskCollection(w)
  PROVE  OutsKept'
<1>1. /\ IsWork(w) /\ program' = program /\ ops' = ops
      /\ UNCHANGED <<alias, publications, fetches>>
      /\ status' = [status EXCEPT ![w] = "done"]
      /\ handles' = Without(handles, {<<w, Parameter>>})
      /\ collections' = IF DropsCollection(w, w) THEN Without(collections, {w}) ELSE collections
  BY DEF DropTaskCollection
<1>2. /\ Contexts' = Contexts
      /\ \A x : IsWork(x)' <=> IsWork(x)
      /\ \A x : IsIndexTask(x)' <=> IsIndexTask(x)
      /\ \A x : LocalElements(x)' = LocalElements(x)
      /\ \A x : Over(x)' <=> Over(x) \/ x = w
  BY <1>1 DEF Contexts, IsWork, IsIndexTask, LocalElements, Over
<1>3. /\ \A k \in DOMAIN handles' : k \in DOMAIN handles /\ handles'[k] = handles[k] /\ k # <<w, Parameter>>
      /\ \A x \in DOMAIN collections' : x \in DOMAIN collections /\ collections'[x] = collections[x]
  BY <1>1 DEF Without
<1>4. KindsOfHolders'
  BY <1>1, <1>3 DEF OutsKept, KindsOfHolders
<1>5. OutsNamed'
  BY <1>2, <1>3 DEF OutsKept, OutsNamed, OwnOut, PartOut
<1>6. LiveHolders'
  <2>1. ASSUME NEW k \in DOMAIN handles' PROVE k[1] # w
    <3>1. k \in DOMAIN handles /\ k # <<w, Parameter>>
      BY <1>3, <2>1
    <3>2. k = <<k[1], k[2]>>
      BY <3>1 DEF Kept, HoldersKept
    <3>. QED
      BY <1>1, <3>1, <3>2 DEF OutsKept, LiveHolders
  <2>. QED
    BY <1>1, <1>2, <1>3, <2>1 DEF OutsKept, LiveHolders
<1>7. PublicationsMade' /\ VersionsPublished' /\ FetchesNamed'
  <2>1. \A x \in Contexts : ops'[x] \in Nat /\ ops'[x] >= ops[x]
    BY <1>1 DEF Kept, ContextsKept
  <2>2. PublicationsMade'
    BY <1>1, <1>2, <2>1, PublicationsGoOn DEF OutsKept
  <2>. QED
    BY <1>1, <2>2 DEF OutsKept, VersionsPublished, FetchesNamed
<1>8. OutsSettled'
  <2>1. \A f \in DOMAIN alias' \ DOMAIN alias : f \in FetchFlows
    BY <1>1
  <2>. QED
    BY <1>1, <1>2, <2>1, SettledGoOn DEF OutsKept
<1>. QED
  BY <1>4, <1>5, <1>6, <1>7, <1>8 DEF OutsKept

\* What a context is to produce: what it captured itself, of single data and
\* of a whole collection, and as an index task what is its own of the work's.
ProducedBy(c, f) ==
  \/ \E d \in Data : f = OwnOut(c, d)
  \/ ~IsWork(c) /\ \E e \in Elements : f = PartOut(c, e)
  \/ /\ IsIndexTask(c) /\ Front(c) \in Contexts /\ IsWork(Front(c))
     /\ \E e \in Elements : c = TakerOf(Front(c), e) /\ f = PartOut(Front(c), e)

\* The part of a collection's flow that somebody is still to produce has no
\* other name yet.
LEMMA PartNotSettled ==
  ASSUME Kept, OutsSettled, NEW c \in Contexts, NEW e \in Elements,
         ~(IF IsWork(c) THEN Over(TakerOf(c, e)) ELSE Over(c))
  PROVE  PartOut(c, e) \notin DOMAIN alias
<1>1. \A x \in Contexts : x \in Seq(Nat)
  BY ContextNames DEF Kept
<1>2. PartOut(c, e).place = "out" /\ PartOut(c, e) \notin FetchFlows
  BY <1>1, PartNames
<1>3. ASSUME NEW b \in Contexts, NEW a \in Data PROVE PartOut(c, e) # OwnOut(b, a)
  BY <1>1, PartNames
<1>4. ASSUME NEW b \in Contexts, NEW a \in Elements, PartOut(c, e) = PartOut(b, a)
      PROVE  b = c /\ a = e
  BY <1>1, <1>4, PartNames
<1>. QED
  BY <1>2, <1>3, <1>4 DEF OutsSettled

\* What somebody is still to produce has no other name yet.
LEMMA NotSettled ==
  ASSUME Kept, OutsSettled, NEW c \in Contexts, ~Over(c), NEW f, ProducedBy(c, f)
  PROVE  f \notin DOMAIN alias /\ f.place = "out" /\ f \notin FetchFlows
<1>1. \A x \in Contexts : x \in Seq(Nat)
  BY ContextNames DEF Kept
<1>2. CASE \E d \in Data : f = OwnOut(c, d)
  <2>1. PICK d \in Data : f = OwnOut(c, d)
    BY <1>2
  <2>2. f.place = "out" /\ f \notin FetchFlows
    BY <1>1, <2>1, OutNames
  <2>3. ASSUME NEW b \in Contexts, NEW a \in Data, Over(b) PROVE f # OwnOut(b, a)
    BY <1>1, <2>1, <2>3, OutNames
  <2>4. ASSUME NEW b \in Contexts, NEW e \in Elements PROVE f # PartOut(b, e)
    BY <1>1, <2>1, PartNames
  <2>. QED
    BY <2>2, <2>3, <2>4 DEF OutsSettled
<1>3. CASE \E x \in Contexts : \E e \in Elements :
             f = PartOut(x, e) /\ ~(IF IsWork(x) THEN Over(TakerOf(x, e)) ELSE Over(x))
  BY <1>1, <1>3, PartNotSettled, PartNames
<1>. QED
  BY <1>2, <1>3 DEF ProducedBy

\* What the end of a task links: its flows to others of their kinds, and of
\* data flows those that it was to produce.
LEMMA EndLinksProduce ==
  ASSUME Kept, OutsKept, NEW c \in Contexts, status[c] = "running",
         NEW l \in EndLinks(c), NoFlow \notin {l[1], l[2]}
  PROVE  /\ SameKind(l[1], l[2])
         /\ l[1].place \in AntiPlaces \/ ProducedBy(c, l[1])
<1>1. ~IsWork(c) /\ c \in Seq(Nat)
  BY PlaceIsNew, ContextNames DEF Kept
<1>2. CASE \E k \in HoldersOf(c) : l \in Links(handles[k])
  <2>1. PICK k \in DOMAIN handles : k[1] = c /\ l \in Links(handles[k])
    BY <1>2 DEF HoldersOf
  <2>2. IsHolderOf(handles[k], AllFlows) /\ k[2] \in Data
    BY <2>1 DEF Kept, HoldersKept, HoldersHave
  <2>3. KindsKept(handles[k].use)
    BY <2>1 DEF OutsKept, KindsOfHolders
  <2>4. \/ l[1] = handles[k].use.out /\ l[2] = handles[k].use.in
        \/ l[1] = handles[k].use.anti_in /\ l[2] = handles[k].use.anti_out
    BY <2>1, <2>2, LinksTyped
  <2>5. SameKind(l[1], l[2])
    BY <2>3, <2>4 DEF KindsKept, IsDataFlow, IsAntiFlow, SameKind
  <2>6. CASE l[1] = handles[k].use.out
    <3>1. CASE l[1] = OwnOut(c, k[2])
      BY <2>2, <2>5, <3>1 DEF ProducedBy
    <3>2. CASE IsIndexTask(c) /\ k[2] \in LocalElements(c) /\ l[1] = PartOut(Front(c), k[2])
      <4>1. Front(c) \in Contexts /\ IsWork(Front(c)) /\ c \in IndexTasks(Front(c))
        BY <3>2, IndexTasksNamed DEF Kept, ContextsKept
      <4>2. k[2] \in Elements /\ c = TakerOf(Front(c), k[2])
        BY <3>2, <4>1, TakersOfElements DEF Kept, ContextsKept
      <4>. QED
        BY <2>5, <3>2, <4>1, <4>2 DEF ProducedBy
    <3>. QED
      BY <2>1, <2>5, <2>6, <3>1, <3>2 DEF OutsKept, OutsNamed
  <2>7. CASE l[1] = handles[k].use.anti_in
    BY <2>3, <2>5, <2>7 DEF KindsKept, IsAntiFlow
  <2>. QED
    BY <2>4, <2>5, <2>6, <2>7
<1>3. CASE c \in DOMAIN collections /\ l \in ElementLinks(collections[c])
  <2>1. IsHolderOf(collections[c], WholeFlows)
    BY <1>3 DEF Kept, HoldersKept, HoldersHave
  <2>2. KindsKept(collections[c].use) /\ collections[c].use.out \in {NoFlow, Flow(c, "out")}
    BY <1>3 DEF OutsKept, KindsOfHolders, OutsNamed
  <2>3. PICK e \in Elements :
          \/ l[1] = Indexed(collections[c].use.out, e) /\ l[2] = Indexed(collections[c].use.in, e)
          \/ l[1] = Indexed(collections[c].use.anti_in, e)
             /\ l[2] = Indexed(collections[c].use.anti_out, e)
    BY <1>3, <2>1, ElementLinksTyped
  <2>4. CASE l[1] = Indexed(collections[c].use.out, e) /\ l[2] = Indexed(collections[c].use.in, e)
    <3>1. IsDataFlow(l[1]) /\ IsDataFlow(l[2])
      BY <2>2, <2>4, PartKinds DEF KindsKept
    <3>2. l[1] = PartOut(c, e)
      BY <2>2, <2>4 DEF PartOut, Indexed
    <3>. QED
      BY <1>1, <3>1, <3>2 DEF ProducedBy, IsDataFlow, SameKind
  <2>5. CASE l[1] = Indexed(collections[c].use.anti_in, e)
             /\ l[2] = Indexed(collections[c].use.anti_out, e)
    <3>1. IsAntiFlow(l[1]) /\ IsAntiFlow(l[2])
      BY <2>2, <2>5, PartKinds DEF KindsKept
    <3>. QED
      BY <3>1 DEF IsAntiFlow, SameKind
  <2>. QED
    BY <2>3, <2>4, <2>5
<1>. QED
  BY <1>2, <1>3 DEF EndLinks

\* The end of a task keeps what is known of the flows to be produced: it is
\* what that task was to produce that gets another name.
LEMMA OutsEnd ==
  ASSUME Kept, OutsKept, NEW c \in Contexts, EndTask(c)
  PROVE  OutsKept'
<1>. DEFINE gone == {c} \cup (IF IsIndexTask(c) /\ DropsCollection(Front(c), c)
                              THEN {Front(c)} ELSE {})
<1>1. /\ status[c] = "running"
      /\ program' = program /\ ops' = ops
      /\ UNCHANGED <<publications, fetches>>
      /\ status' = [status EXCEPT ![c] = "done"]
      /\ handles' = Without(handles, HoldersOf(c))
      /\ collections' = Without(collections, gone)
      /\ alias' = EstablishAliases(EndLinks(c))
  BY DEF EndTask, EndLinks
<1>2. /\ Contexts' = Contexts
      /\ \A x : IsWork(x)' <=> IsWork(x)
      /\ \A x : IsIndexTask(x)' <=> IsIndexTask(x)
      /\ \A x : LocalElements(x)' = LocalElements(x)
      /\ \A x, e : TakerOf(x, e)' = TakerOf(x, e)
      /\ \A x : Over(x)' <=> Over(x) \/ x = c
      /\ ~Over(c)
  BY <1>1 DEF Contexts, IsWork, IsIndexTask, LocalElements, TakerOf, Over
<1>3. /\ \A k \in DOMAIN handles' : k \in DOMAIN handles /\ handles'[k] = handles[k] /\ k[1] # c
      /\ \A x \in DOMAIN collections' :
           x \in DOMAIN collections /\ collections'[x] = collections[x] /\ x # c
  BY <1>1 DEF Without, HoldersOf
<1>4. \A f \in DOMAIN alias' : SameKind(f, alias'[f])
  <2>1. \A f \in DOMAIN alias : SameKind(f, alias[f])
    BY DEF OutsKept, KindsOfHolders
  <2>. QED
    BY <1>1, <2>1, EndLinksProduce, LinksKeepKinds
<1>5. ASSUME NEW f \in DOMAIN alias' \ DOMAIN alias
      PROVE  f.place \in AntiPlaces \/ ProducedBy(c, f)
  <2>1. PICK l \in EndLinks(c) : NoFlow \notin {l[1], l[2]} /\ f = Representative(alias, l[1])
    BY <1>1, <1>5, AliasesAre
  <2>2. SameKind(l[1], l[2])
    BY <1>1, <2>1, EndLinksProduce
  <2>3. CASE l[1].place \in AntiPlaces
    <3>1. l[1].place \notin DataPlaces
      BY <2>3 DEF AntiPlaces, DataPlaces
    <3>2. CASE l[1] \in DOMAIN alias
      <4>1. SameKind(l[1], alias[l[1]])
        BY <3>2 DEF OutsKept, KindsOfHolders
      <4>. QED
        BY <2>1, <3>1, <3>2, <4>1 DEF Representative, SameKind
    <3>3. CASE l[1] \notin DOMAIN alias
      BY <2>1, <2>3, <3>3 DEF Representative
    <3>. QED
      BY <3>2, <3>3
  <2>4. CASE ProducedBy(c, l[1])
    <3>1. l[1] \notin DOMAIN alias
      BY <1>2, <2>4, NotSettled DEF OutsKept
    <3>. QED
      BY <2>1, <2>4, <3>1 DEF Representative
  <2>. QED
    BY <1>1, <2>1, <2>3, <2>4, EndLinksProduce
<1>6. KindsOfHolders'
  BY <1>3, <1>4 DEF OutsKept, KindsOfHolders
<1>7. OutsNamed'
  BY <1>2, <1>3 DEF OutsKept, OutsNamed, OwnOut, PartOut
<1>8. LiveHolders'
  BY <1>2, <1>3 DEF OutsKept, LiveHolders
<1>9. PublicationsMade' /\ FetchesNamed'
  <2>1. \A x \in Contexts : ops'[x] \in Nat /\ ops'[x] >= ops[x]
    BY <1>1 DEF Kept, ContextsKept
  <2>2. PublicationsMade'
    BY <1>1, <1>2, <2>1, PublicationsGoOn DEF OutsKept
  <2>. QED
    BY <1>1, <2>2 DEF OutsKept, FetchesNamed
<1>10. VersionsPublished'
  <2>1. ASSUME NEW f \in DOMAIN alias', f \in FetchFlows, f.place \in DataPlaces
        PROVE  f \in DOMAIN alias
    <3>1. ~ProducedBy(c, f)
      BY <1>2, <2>1, NotSettled DEF OutsKept
    <3>2. f.place \notin AntiPlaces
      BY <2>1 DEF DataPlaces, AntiPlaces
    <3>. QED
      BY <1>5, <2>1, <3>1, <3>2
  <2>. QED
    BY <1>1, <2>1 DEF OutsKept, VersionsPublished
<1>11. OutsSettled'
  <2>1. ASSUME NEW f \in DOMAIN alias', f.place = "out", f \notin FetchFlows
        PROVE  \/ \E x \in Contexts : Over(x)' /\ \E d \in Data : f = OwnOut(x, d)
               \/ \E x \in Contexts : \E e \in Elements :
                    /\ f = PartOut(x, e)
                    /\ IF IsWork(x) THEN Over(TakerOf(x, e))' ELSE Over(x)'
    <3>1. CASE f \in DOMAIN alias
      <4>1. CASE \E x \in Contexts : Over(x) /\ \E d \in Data : f = OwnOut(x, d)
        BY <1>2, <4>1
      <4>2. CASE \E x \in Contexts : \E e \in Elements :
                   /\ f = PartOut(x, e)
                   /\ IF IsWork(x) THEN Over(TakerOf(x, e)) ELSE Over(x)
        <5>1. PICK x \in Contexts, e \in Elements :
                   /\ f = PartOut(x, e)
                   /\ IF IsWork(x) THEN Over(TakerOf(x, e)) ELSE Over(x)
          BY <4>2
        <5>2. IF IsWork(x) THEN Over(TakerOf(x, e))' ELSE Over(x)'
          BY <1>2, <5>1
        <5>. QED
          BY <5>1, <5>2
      <4>. QED
        BY <2>1, <3>1, <4>1, <4>2 DEF OutsKept, OutsSettled
    <3>2. CASE f \notin DOMAIN alias
      <4>1. f.place \notin AntiPlaces
        BY <2>1 DEF AntiPlaces
      <4>2. ProducedBy(c, f)
        BY <1>5, <2>1, <3>2, <4>1
      <4>3. Over(c)'
        BY <1>2
      <4>4. CASE \E d \in Data : f = OwnOut(c, d)
        BY <4>3, <4>4
      <4>5. CASE ~IsWork(c) /\ \E e \in Elements : f = PartOut(c, e)
        BY <4>3, <4>5
      <4>6. CASE /\ IsIndexTask(c) /\ Front(c) \in Contexts /\ IsWork(Front(c))
                 /\ \E e \in Elements : c = TakerOf(Front(c), e) /\ f = PartOut(Front(c), e)
        <5>1. PICK e \in Elements : c = TakerOf(Front(c), e) /\ f = PartOut(Front(c), e)
          BY <4>6
        <5>2. Over(TakerOf(Front(c), e))'
          BY <1>2, <5>1
        <5>. QED
          BY <4>6, <5>1, <5>2
      <4>. QED
        BY <4>2, <4>4, <4>5, <4>6 DEF ProducedBy
    <3>. QED
      BY <3>1, <3>2
  <2>. QED
    BY <1>2, <2>1, Zenon DEF OutsSettled, OwnOut, PartOut
<1>. QED
  BY <1>6, <1>7, <1>8, <1>9, <1>10, <1>11 DEF OutsKept

\* Running what was pending keeps what is known of the flows to be produced.
LEMMA OutsRun ==
  ASSUME Kept, OutsKept, NEW contexts, RunsPending(contexts)
  PROVE  OutsKept'
<1>1. /\ contexts \subseteq Contexts /\ \A x \in contexts : status[x] = "pending"
      /\ status' = With(status, [x \in contexts |-> "running"])
      /\ UNCHANGED <<program, ops, collections, handles, alias, publications, fetches>>
  BY DEF RunsPending, Run
<1>2. /\ Contexts' = Contexts
      /\ \A x \in contexts : status'[x] = "running"
      /\ \A x \in Contexts \ contexts : status'[x] = status[x]
  BY <1>1 DEF Contexts, With
<1>3. /\ \A x : IsWork(x)' <=> IsWork(x)
      /\ \A x : IsIndexTask(x)' <=> IsIndexTask(x)
      /\ \A x : LocalElements(x)' = LocalElements(x)
      /\ \A x : Over(x)' <=> Over(x)
  BY <1>1, <1>2 DEF IsWork, IsIndexTask, LocalElements, Over
<1>4. KindsOfHolders' /\ FetchesNamed' /\ VersionsPublished'
  BY <1>1 DEF OutsKept, KindsOfHolders, FetchesNamed, VersionsPublished
<1>5. OutsNamed' /\ LiveHolders'
  BY <1>1, <1>3 DEF OutsKept, OutsNamed, LiveHolders, OwnOut, PartOut
<1>6. PublicationsMade'
  <2>1. \A x \in Contexts : ops'[x] \in Nat /\ ops'[x] >= ops[x]
    BY <1>1 DEF Kept, ContextsKept
  <2>. QED
    BY <1>1, <1>2, <2>1, PublicationsGoOn DEF OutsKept
<1>7. OutsSettled'
  <2>1. \A f \in DOMAIN alias' \ DOMAIN alias : f \in FetchFlows
    BY <1>1
  <2>. QED
    BY <1>1, <1>2, <1>3, <2>1, SettledGoOn DEF OutsKept
<1>. QED
  BY <1>4, <1>5, <1>6, <1>7 DEF OutsKept

\* So does releasing what was published, and what does nothing.
LEMMA OutsQuiet ==
  ASSUME Kept, OutsKept, UNCHANGED <<program, status, ops, collections, handles, alias, fetches>>,
         DOMAIN publications' = DOMAIN publications,
         \A p \in DOMAIN publications : /\ DOMAIN publications'[p] = DOMAIN publications[p]
                                        /\ publications'[p].use = publications[p].use
  PROVE  OutsKept'
<1>1. /\ Contexts' = Contexts
      /\ \A x : IsWork(x)' <=> IsWork(x)
      /\ \A x : IsIndexTask(x)' <=> IsIndexTask(x)
      /\ \A x : LocalElements(x)' = LocalElements(x)
      /\ \A x : Over(x)' <=> Over(x)
  BY DEF Contexts, IsWork, IsIndexTask, LocalElements, Over
<1>2. KindsOfHolders' /\ FetchesNamed' /\ VersionsPublished'
  BY DEF OutsKept, KindsOfHolders, FetchesNamed, VersionsPublished
<1>3. OutsNamed' /\ LiveHolders'
  BY <1>1 DEF OutsKept, OutsNamed, LiveHolders, OwnOut, PartOut
<1>4. PublicationsMade'
  <2>1. \A x \in Contexts : ops'[x] \in Nat /\ ops'[x] >= ops[x]
    BY DEF Kept, ContextsKept
  <2>. QED
    BY <1>1, <2>1, PublicationsGoOn DEF OutsKept
<1>5. OutsSettled'
  <2>1. \A f \in DOMAIN alias' \ DOMAIN alias : f \in FetchFlows
    OBVIOUS
  <2>. QED
    BY <1>1, <2>1, SettledGoOn DEF OutsKept
<1>. QED
  BY <1>2, <1>3, <1>4, <1>5 DEF OutsKept

\* To begin with it is the program that produces everything.
LEMMA OutsInit == Init => OutsKept
<1>. SUFFICES ASSUME Init PROVE OutsKept
  OBVIOUS
<1>1. /\ status = Single(Root, "running")
      /\ collections = Single(Root, Initially(Root))
      /\ handles = Single(<<Root, Parameter>>, Initially(Append(Root, Parameter)))
      /\ alias = << >> /\ publications = << >> /\ fetches = {}
  BY DEF Init
<1>2. /\ DOMAIN collections = {Root} /\ collections[Root] = Initially(Root)
      /\ DOMAIN handles = {<<Root, Parameter>>}
      /\ handles[<<Root, Parameter>>] = Initially(Append(Root, Parameter))
      /\ DOMAIN alias = {} /\ DOMAIN publications = {}
      /\ status[Root] = "running"
  BY <1>1 DEF Single
<1>3. ~IsIndexTask(Root) /\ ~Over(Root) /\ ~IsWork(Root)
  <2>1. Kept
    BY KeptInit
  <2>. QED
    BY <1>2, <2>1 DEF IsIndexTask, Over, Kept, ContextsKept, Stages
<1>4. Root \in Seq(Nat) /\ Append(Root, Parameter) \in Seq(Nat)
  BY EmptySeq, ElementsAreNumbers DEF Root
<1>5. ASSUME NEW owner \in Seq(Nat)
      PROVE  KindsKept(Initially(owner).use) /\ Initially(owner).use.out = Flow(owner, "out")
  <2>1. \A place : Flow(owner, place).place = place
    BY DEF Flow
  <2>. QED
    BY <2>1, InitialIs DEF KindsKept, IsDataFlow, IsAntiFlow, DataPlaces, AntiPlaces
<1>6. KindsOfHolders
  BY <1>2, <1>4, <1>5 DEF KindsOfHolders
<1>7. OutsNamed
  <2>1. <<Root, Parameter>>[1] = Root /\ <<Root, Parameter>>[2] = Parameter
    OBVIOUS
  <2>2. handles[<<Root, Parameter>>].use.out = OwnOut(Root, Parameter)
    BY <1>2, <1>4, <1>5 DEF OwnOut
  <2>3. collections[Root].use.out = Flow(Root, "out")
    BY <1>2, <1>4, <1>5
  <2>. QED
    BY <1>2, <1>3, <2>1, <2>2, <2>3 DEF OutsNamed
<1>8. LiveHolders
  BY <1>2, <1>3 DEF LiveHolders
<1>9. PublicationsMade /\ FetchesNamed /\ VersionsPublished /\ OutsSettled
  BY <1>1, <1>2 DEF PublicationsMade, FetchesNamed, VersionsPublished, OutsSettled
<1>. QED
  BY <1>6, <1>7, <1>8, <1>9 DEF OutsKept

\* Every step keeps what is known of the flows to be produced.
LEMMA OutsPreserved == Kept /\ OutsKept /\ [Next]_vars => OutsKept'
<1>. SUFFICES ASSUME Kept, OutsKept, [Next]_vars PROVE OutsKept'
  OBVIOUS
<1>1. CASE \E c : \E made, state : Captures(c, made, state)
  BY <1>1, OutsCaptures
<1>2. CASE \E t \in Contexts : Fetch(t)
  BY <1>2, OutsFetch
<1>3. CASE \E w \in Contexts : CreateTaskForIndex(w)
  BY <1>3, OutsIndexTask
<1>4. CASE \E w \in Contexts : DropTaskCollection(w)
  BY <1>4, OutsDrop
<1>5. CASE \E c \in Contexts : EndTask(c)
  BY <1>5, OutsEnd
<1>6. CASE \E contexts : RunsPending(contexts)
  BY <1>6, OutsRun
<1>7. CASE \E p \in DOMAIN publications : ReleasePublication(p)
  <2>1. PICK p \in DOMAIN publications : ReleasePublication(p)
    BY <1>7
  <2>2. publications' = [publications EXCEPT ![p].released = TRUE]
    BY <2>1 DEF ReleasePublication
  <2>3. \A q \in DOMAIN publications :
          DOMAIN publications[q] = {"at", "use", "n_fetchers", "anti_out", "released"}
    BY DEF OutsKept, PublicationsMade
  <2>4. DOMAIN publications' = DOMAIN publications
    BY <2>2
  <2>5. \A q \in DOMAIN publications : /\ DOMAIN publications'[q] = DOMAIN publications[q]
                                       /\ publications'[q].use = publications[q].use
    BY <2>2, <2>3
  <2>. QED
    BY <2>1, <2>4, <2>5, OutsQuiet DEF ReleasePublication
<1>8. CASE UNCHANGED vars
  BY <1>8, OutsQuiet DEF vars
<1>. QED
  BY <1>1, <1>2, <1>3, <1>4, <1>5, <1>6, <1>7, <1>8, StepKinds

\* Every flow that is to be produced has the name of who is to produce it: a
\* context's own, or the part of its work's that is about an element the index
\* task has to itself.  It has another name only once that context is done,
\* and a version that is fetched only once it is published.
THEOREM OutsHold == Spec => []OutsKept
<1>1. Init => Kept /\ OutsKept
  BY KeptInit, OutsInit
<1>2. (Kept /\ OutsKept) /\ [Next]_vars => (Kept /\ OutsKept)'
  BY KeptPreserved, OutsPreserved
<1>. QED
  BY <1>1, <1>2, PTL DEF Spec

\* Who is to produce which flow of a datum: a context what it captured itself,
\* an index task its elements' parts of what its work is to produce, who holds
\* the whole collection those of the elements it has not handed out, and a work
\* the versions that are to be fetched.
Produces(c, d, f) ==
  \/ c \in Contexts /\ ~IsIndexTask(c) /\ f = OwnOut(c, d)
  \/ /\ c \in Contexts /\ Front(c) \in Contexts /\ IsWork(Front(c)) /\ d \in Elements
     /\ c = TakerOf(Front(c), d) /\ f = PartOut(Front(c), d)
  \/ c \in Contexts /\ d \in Elements /\ ~HandedOut(c, d) /\ f = PartOut(c, d)
  \/ f \in FetchFlows /\ f.version = c /\ f.element = d

\* What a use of a datum is to produce is its holder's to produce, and has no
\* other name yet.
LEMMA ProducerIs ==
  ASSUME Kept, OutsKept, NEW d \in Data, NEW u \in UsesOf(d), u.use.out # NoFlow
  PROVE  u.use.out \notin DOMAIN alias /\ Produces(u.by, d, u.use.out)
<1>1. CASE u \in Held(d)
  <2>1. PICK k \in DOMAIN handles : k[2] = d /\ u = [by |-> k[1], use |-> handles[k].use]
    BY <1>1 DEF Held
  <2>2. u.by = k[1] /\ u.use.out = handles[k].use.out /\ k[1] \in Contexts
    BY <2>1 DEF Kept, HoldersKept
  <2>3. ~Over(k[1])
    BY <2>1 DEF OutsKept, LiveHolders
  <2>4. CASE ~IsIndexTask(k[1]) /\ u.use.out = OwnOut(k[1], d)
    <3>1. ProducedBy(k[1], u.use.out)
      BY <2>4 DEF ProducedBy
    <3>2. u.use.out \notin DOMAIN alias
      BY <2>2, <2>3, <3>1, NotSettled DEF OutsKept
    <3>. QED
      BY <2>2, <2>4, <3>2 DEF Produces
  <2>5. CASE IsIndexTask(k[1]) /\ d \in LocalElements(k[1]) /\ u.use.out = PartOut(Front(k[1]), d)
    <3>1. Front(k[1]) \in Contexts /\ IsWork(Front(k[1])) /\ k[1] \in IndexTasks(Front(k[1]))
      BY <2>2, <2>5, IndexTasksNamed DEF Kept, ContextsKept
    <3>2. d \in Elements /\ k[1] = TakerOf(Front(k[1]), d)
      BY <2>5, <3>1, TakersOfElements DEF Kept, ContextsKept
    <3>3. u.use.out \notin DOMAIN alias
      BY <2>3, <2>5, <3>1, <3>2, PartNotSettled DEF OutsKept
    <3>. QED
      BY <2>2, <2>5, <3>1, <3>2, <3>3 DEF Produces
  <2>. QED
    BY <2>1, <2>2, <2>4, <2>5 DEF OutsKept, OutsNamed
<1>2. CASE d \in Elements /\ u \in Shared(d)
  <2>1. PICK c \in DOMAIN collections :
          ~HandedOut(c, d) /\ u = [by |-> c, use |-> ElementView(collections[c].use, d)]
    BY <1>2 DEF Shared
  <2>2. c \in Contexts /\ IsHolderOf(collections[c], WholeFlows)
    BY <2>1 DEF Kept, HoldersKept, HoldersHave
  <2>3. u.by = c /\ u.use.out = Indexed(collections[c].use.out, d)
    BY <1>2, <2>1, <2>2, ViewOf
  <2>4. collections[c].use.out = Flow(c, "out")
    BY <2>1, <2>3 DEF OutsKept, OutsNamed, Indexed
  <2>5. u.use.out = PartOut(c, d)
    BY <2>3, <2>4 DEF PartOut
  <2>6. ~(IF IsWork(c) THEN Over(TakerOf(c, d)) ELSE Over(c))
    BY <2>1 DEF OutsKept, LiveHolders, HandedOut, Over, TakerOf
  <2>7. u.use.out \notin DOMAIN alias
    BY <1>2, <2>2, <2>5, <2>6, PartNotSettled DEF OutsKept
  <2>. QED
    BY <1>2, <2>1, <2>2, <2>3, <2>5, <2>7 DEF Produces
<1>3. CASE u \in Published(d)
  BY <1>3 DEF Published, OutsKept, PublicationsMade
<1>4. CASE u \in Awaited(d)
  <2>1. PICK f \in fetches :
          /\ f.of[2] = d /\ f.in \notin DOMAIN alias
          /\ u = [by |-> f.of[1],
                  use |-> MakeUse(NoRequest, UseFlows(NoFlow, f.in, NoFlow, NoFlow), FALSE)]
    BY <1>4 DEF Awaited
  <2>2. u.by = f.of[1] /\ u.use.out = f.in
    BY <2>1 DEF MakeUse, UseFlows
  <2>3. f.in \in FetchFlows
    BY <2>2 DEF Kept, BackendKept
  <2>. QED
    BY <2>1, <2>2, <2>3 DEF OutsKept, FetchesNamed, Produces
<1>5. d # Parameter => d \in Elements
  BY DEF Data
<1>. QED
  BY <1>1, <1>2, <1>3, <1>4, <1>5 DEF UsesOf

\* A flow has one producer, of one datum.
LEMMA ProducersDiffer ==
  ASSUME Kept, NEW c, NEW b, NEW d \in Data, NEW a \in Data, NEW f,
         Produces(c, d, f), Produces(b, a, f)
  PROVE  c = b /\ d = a
<1>1. \A x \in Contexts : x \in Seq(Nat)
  BY ContextNames DEF Kept
<1>2. ASSUME NEW x \in Contexts, NEW z \in Contexts, NEW y \in Elements, NEW v \in Elements,
              PartOut(x, y) = PartOut(z, v)
       PROVE  x = z /\ y = v
  <2>1. x \in Seq(Nat) /\ z \in Seq(Nat)
    BY <1>1
  <2>. QED
    BY <1>2, <2>1, PartNames
<1>. DEFINE Own(x, y)    == x \in Contexts /\ f = OwnOut(x, y)
            Local(x, y)  == /\ x \in Contexts /\ Front(x) \in Contexts /\ IsWork(Front(x))
                            /\ y \in Elements
                            /\ x = TakerOf(Front(x), y) /\ f = PartOut(Front(x), y)
            Whole(x, y)  == /\ x \in Contexts /\ y \in Elements /\ ~HandedOut(x, y)
                            /\ f = PartOut(x, y)
            Version(x, y) == f \in FetchFlows /\ f.version = x /\ f.element = y
<1>3. /\ Own(c, d) \/ Local(c, d) \/ Whole(c, d) \/ Version(c, d)
      /\ Own(b, a) \/ Local(b, a) \/ Whole(b, a) \/ Version(b, a)
  BY DEF Produces
<1>4. ASSUME NEW x, NEW y \in Data, Local(x, y) \/ Whole(x, y)
      PROVE  \E w \in Contexts : y \in Elements /\ f = PartOut(w, y)
  BY <1>4
<1>5. ASSUME NEW x, NEW y \in Data, NEW z, NEW v \in Data, Own(x, y)
      PROVE  ~Local(z, v) /\ ~Whole(z, v) /\ ~Version(z, v)
  <2>1. f \notin FetchFlows
    BY <1>1, <1>5, OutNames
  <2>2. ASSUME Local(z, v) \/ Whole(z, v) PROVE FALSE
    <3>1. PICK w \in Contexts : v \in Elements /\ f = PartOut(w, v)
      BY <1>4, <2>2
    <3>. QED
      BY <1>1, <1>5, <3>1, PartNames
  <2>. QED
    BY <2>1, <2>2
<1>6. ASSUME NEW x, NEW y \in Data, NEW z, NEW v \in Data, Version(x, y)
      PROVE  ~Local(z, v) /\ ~Whole(z, v)
  <2>. SUFFICES ASSUME Local(z, v) \/ Whole(z, v) PROVE FALSE
    OBVIOUS
  <2>1. PICK w \in Contexts : v \in Elements /\ f = PartOut(w, v)
    BY <1>4
  <2>. QED
    BY <1>1, <1>6, <2>1, PartNames
<1>7. ASSUME NEW x, NEW y \in Data, NEW z, NEW v \in Data, Local(x, y) PROVE ~Whole(z, v)
  <2>. SUFFICES ASSUME Whole(z, v) PROVE FALSE
    OBVIOUS
  <2>1. PartOut(Front(x), y) = PartOut(z, v)
    BY <1>7
  <2>2. /\ Front(x) \in Contexts /\ z \in Contexts /\ y \in Elements /\ v \in Elements
        /\ x = TakerOf(Front(x), y) /\ x \in Contexts /\ IsWork(Front(x)) /\ ~HandedOut(z, v)
    BY <1>7
  <2>. HIDE DEF Own, Local, Whole, Version
  <2>3. Front(x) = z /\ y = v
    BY <1>2, <2>1, <2>2
  <2>. QED
    BY <2>2, <2>3 DEF TakerOf, HandedOut
<1>8. CASE Own(c, d) /\ Own(b, a)
  <2>1. OwnOut(c, d) = OwnOut(b, a) /\ c \in Seq(Nat) /\ b \in Seq(Nat)
    BY <1>1, <1>8
  <2>. HIDE DEF Own, Local, Whole, Version
  <2>2. \A x \in Seq(Nat) : \A y \in Data : OwnOut(c, d) = OwnOut(x, y) => c = x /\ d = y
    BY <2>1, OutNames
  <2>. QED
    BY <2>1, <2>2
<1>9. CASE Local(c, d) /\ Local(b, a)
  <2>1. PartOut(Front(c), d) = PartOut(Front(b), a)
    BY <1>9
  <2>2. Front(c) = Front(b) /\ d = a
    BY <1>2, <1>9, <2>1
  <2>. QED
    BY <1>9, <2>2
<1>10. CASE Whole(c, d) /\ Whole(b, a)
  <2>1. PartOut(c, d) = PartOut(b, a)
    BY <1>10
  <2>. QED
    BY <1>2, <1>10, <2>1
<1>11. CASE Version(c, d) /\ Version(b, a)
  BY <1>11
<1>. HIDE DEF Own, Local, Whole, Version
<1>. QED
  BY <1>3, <1>5, <1>6, <1>7, <1>8, <1>9, <1>10, <1>11

\* No flow has two live uses that are to produce it, for every collection, all
\* mappings and all programs: not that of the whole collection and that of a
\* local element, nor those of two index tasks, nor what continues.
THEOREM OneProducerPerElement == Spec => []OneProducer
<1>1. ASSUME Kept, OutsKept PROVE OneProducer
  <2>1. ASSUME NEW p \in Producers
        PROVE  \E d \in Data : \E u \in UsesOf(d) :
                 /\ u.use.out # NoFlow /\ p = <<d, u.by, u.use.out>>
                 /\ u.use.out \notin DOMAIN alias /\ Produces(u.by, d, u.use.out)
    <3>1. PICK d \in Data :
            p \in {<<d, u.by, u.use.out>> : u \in {u \in UsesOf(d) : u.use.out # NoFlow}}
      BY <2>1 DEF Producers
    <3>2. PICK u \in UsesOf(d) : u.use.out # NoFlow /\ p = <<d, u.by, u.use.out>>
      BY <3>1
    <3>. QED
      BY <1>1, <3>2, ProducerIs
  <2>2. ASSUME NEW p \in Producers, NEW q \in Producers, Equivalent(alias, p[3], q[3])
        PROVE  p = q
    <3>1. PICK d \in Data : \E u \in UsesOf(d) :
            /\ p = <<d, u.by, u.use.out>>
            /\ u.use.out \notin DOMAIN alias /\ Produces(u.by, d, u.use.out)
      BY <2>1
    <3>2. PICK u \in UsesOf(d) :
            /\ p = <<d, u.by, u.use.out>>
            /\ u.use.out \notin DOMAIN alias /\ Produces(u.by, d, u.use.out)
      BY <3>1
    <3>3. PICK a \in Data : \E v \in UsesOf(a) :
            /\ q = <<a, v.by, v.use.out>>
            /\ v.use.out \notin DOMAIN alias /\ Produces(v.by, a, v.use.out)
      BY <2>1
    <3>4. PICK v \in UsesOf(a) :
            /\ q = <<a, v.by, v.use.out>>
            /\ v.use.out \notin DOMAIN alias /\ Produces(v.by, a, v.use.out)
      BY <3>3
    <3>5. p[3] = u.use.out /\ q[3] = v.use.out
      BY <3>2, <3>4
    <3>6. u.use.out = v.use.out
      BY <2>2, <3>2, <3>4, <3>5 DEF Equivalent, Representative
    <3>7. u.by = v.by /\ d = a
      BY <1>1, <3>2, <3>4, <3>6, ProducersDiffer
    <3>. QED
      BY <3>2, <3>4, <3>6, <3>7
  <2>. QED
    BY <2>2 DEF OneProducer
<1>2. Kept /\ OutsKept => OneProducer
  BY <1>1
<1>. QED
  BY <1>2, KeptHolds, OutsHold, PTL

(***************************************************************************)
(* Who has what                                                            *)
(***************************************************************************)
\* What was fetched is not the holder's own: it is the use that was published
\* that counts.
Fetched(u) == u.in \in FetchFlows

Running(c) == c \in Contexts /\ status[c] = "running"

\* The publication of which something was fetched.
VersionOf(k) == <<handles[k].use.in.version, k[2]>>

IsBeneath(c) == c # Root /\ IsIndexTask(Front(c))

MayNotWrite(u) == "write" \notin u.scheduling \cup u.immediate

\* Tasks beneath a work have single elements, others whole collections; index
\* tasks have what is local to them as their own, and works and index tasks can
\* only read a parameter.
HoldersApart ==
  /\ \A c \in DOMAIN collections : ~IsIndexTask(c) /\ ~IsBeneath(c)
  /\ \A k \in DOMAIN handles :
       IF k[2] = Parameter
       THEN /\ ~Fetched(handles[k].use)
            /\ IsIndexTask(k[1]) \/ IsWork(k[1]) => MayNotWrite(handles[k].use)
       ELSE /\ IsIndexTask(k[1]) \/ IsBeneath(k[1])
            /\ IsIndexTask(k[1]) => (k[2] \in LocalElements(k[1]) <=> ~Fetched(handles[k].use))

\* Permissions are the front end's, and a use could be an alias exactly if it may
\* only schedule writers.
InShape(u) == PermissionsOf(u) \in FrontEndPairs

IsHolderInShape(h) ==
  /\ InShape(h.use)
  /\ h.could_be_alias <=> "write" \in h.use.scheduling /\ "write" \notin h.use.immediate

HoldersInShape ==
  /\ \A c \in DOMAIN collections :
       /\ IsHolderInShape(collections[c])
       /\ IsWork(c) => ~collections[c].could_be_alias
  /\ \A k \in DOMAIN handles : IsHolderInShape(handles[k])
  /\ \A p \in DOMAIN publications : PermissionsOf(publications[p].use) = Perms(None, Read)

\* Beneath index tasks there are contexts for what makes some, and a publication
\* is made where there is none.
BeneathKept ==
  /\ \A c \in Contexts :
       IsBeneath(c) => program[Front(Front(c))].body[Last(c)].do \in {"child", "allreduce"}
  /\ \A p \in DOMAIN publications :
       \E n \in 1 .. ops[TakerOf(p[1], p[2])] :
         /\ publications[p].at = Append(TakerOf(p[1], p[2]), n)
         /\ program[p[1]].body[n].do = "publish"

(***************************************************************************)
(* Whose flows there are                                                   *)
(***************************************************************************)
\* An operation was performed, at its place in the program.
Performed(p) ==
  p = Root \/ (p # << >> /\ Front(p) \in Contexts /\ Last(p) \in 1 .. ops[Front(p)])

\* A flow is of a datum if a capture of it made it, or one of the whole
\* collection.
IsFlowOf(f, d) ==
  \/ /\ f \in WholeFlows \ {NoFlow}
     /\ f.owner # << >> /\ Last(f.owner) = d /\ Performed(Front(f.owner))
  \/ f \in ElementFlows /\ f.element = d /\ Performed(f.owner)

HasFlowsOf(u, d) == \A f \in {u.in, u.out, u.anti_in, u.anti_out} : f = NoFlow \/ IsFlowOf(f, d)

\* It is so for what single holders have, and what was published; what whole
\* collections have was made for an operation, too.
FlowsOwned ==
  /\ \A k \in DOMAIN handles : ~Fetched(handles[k].use) => HasFlowsOf(handles[k].use, k[2])
  /\ \A c \in DOMAIN collections :
       LET u == collections[c].use
       IN  \A f \in {u.in, u.out, u.anti_in, u.anti_out} : f = NoFlow \/ Performed(f.owner)
  /\ \A p \in DOMAIN publications : HasFlowsOf(publications[p].use, p[2])
  /\ \A f \in DOMAIN alias :
       f \in FetchFlows \/ \E d \in Data : IsFlowOf(f, d) /\ IsFlowOf(alias[f], d)

(***************************************************************************)
(* What is fetched                                                         *)
(***************************************************************************)
\* The flows by which what a work publishes of an element is fetched.
VersionIn(w, e)   == Fetching(collections[w].use.in, w, e)
VersionAnti(w, e) == Fetching(collections[w].use.anti_out, w, e)

\* What was fetched of a work's publication of an element is what is published, if
\* it is, and keeps it from being released.
IsFetchedAs(u, w, e) ==
  /\ u.in.element = e
  /\ IsWork(w)
  /\ MayNotWrite(u)
  /\ w \in DOMAIN collections => u.in = VersionIn(w, e) /\ u.anti_out = VersionAnti(w, e)
  /\ <<w, e>> \in DOMAIN publications =>
       /\ ~publications[<<w, e>>].released
       /\ Equivalent(alias, u.in, publications[<<w, e>>].use.in)
       /\ u.anti_out = publications[<<w, e>>].anti_out
  /\ \E x \in fetches : x.of = <<w, e>> /\ x.in = u.in

\* It is read only then.
FetchedAsPublished ==
  \A k \in DOMAIN handles : Fetched(handles[k].use) =>
    /\ IsFetchedAs(handles[k].use, handles[k].use.in.version, k[2])
    /\ Running(k[1]) /\ handles[k].use.immediate # None => VersionOf(k) \in DOMAIN publications

\* A publication is what its work's collection says, and is released when its
\* readers are over.
PublishedAsMade ==
  \A p \in DOMAIN publications :
    /\ p[1] \in DOMAIN collections =>
         /\ Equivalent(alias, VersionIn(p[1], p[2]), publications[p].use.in)
         /\ publications[p].anti_out = VersionAnti(p[1], p[2])
    /\ publications[p].n_fetchers = Cardinality(program[p[1]].readers[p[2]])
    /\ publications[p].released =>
         \A i \in program[p[1]].readers[p[2]] : Over(Append(p[1], i))

\* Every holder has an input.  A fetch is by a reader of the element, who keeps
\* what it has fetched.
FetchesKept ==
  /\ \A w \in DOMAIN collections : collections[w].use.in # NoFlow
  /\ \A k \in DOMAIN handles : handles[k].use.in # NoFlow
  /\ \A x \in fetches :
       /\ x = [of |-> x.of, by |-> x.by, in |-> x.in]
       /\ x.in \in FetchFlows
       /\ IsWork(x.of[1])
       /\ \E i \in program[x.of[1]].readers[x.of[2]] : x.by = Append(x.of[1], i)
       /\ x.of[1] \in DOMAIN collections => x.in = VersionIn(x.of[1], x.of[2])
       /\ ~Over(x.by) =>
            /\ <<x.by, x.of[2]>> \in DOMAIN handles
            /\ handles[<<x.by, x.of[2]>>].use.in = x.in
  /\ \A x, y \in fetches : x.of = y.of /\ x.by = y.by => x = y

(***************************************************************************)
(* What steps capture                                                      *)
(***************************************************************************)
\* What the next operation of a context asks of the collection, and of single
\* data.
RequestOfWhole(c) ==
  CASE Operation(c).do = "task"   -> Operation(c).collection
    [] Operation(c).do = "reduce" -> Perms(None, Read)
    [] Operation(c).do = "work"   -> Operation(c).request
    [] OTHER                      -> NoRequest

RequestsOf(c) ==
  CASE Operation(c).do = "task"      -> Single(Parameter, Operation(c).parameter)
    [] Operation(c).do = "reduce"    -> Single(Parameter, Perms(None, Modify))
    [] Operation(c).do = "work"      -> Single(Parameter, Operation(c).shared)
    [] Operation(c).do = "child"     ->
         [e \in IF Operation(c).of = "fetched" THEN FetchedElements(c) ELSE LocalElements(c) |->
            Operation(c).request]
    [] Operation(c).do = "allreduce" -> [e \in LocalElements(c) |-> Perms(None, Modify)]
    [] Operation(c).do = "publish"   -> [e \in PublishedElements(c) |-> Perms(None, Read)]
    [] OTHER                         -> << >>

Requested(c) == {d \in DOMAIN RequestsOf(c) : RequestsOf(c)[d] # NoRequest}

\* One of the holders is captured from, for a new one.
Taken(holders, after, from, to, request, owner) ==
  /\ Served(holders, from, request)
  /\ to \in DOMAIN after \ DOMAIN holders
  /\ after[from] = OutcomeOf(holders[from], request, owner).source
  /\ after[to] = OutcomeOf(holders[from], request, owner).captured

TakenOnce(holders, after, from, to, request, owner) ==
  IF request = NoRequest THEN after = holders
  ELSE /\ DOMAIN after = DOMAIN holders \cup {to}
       /\ Taken(holders, after, from, to, request, owner)
       /\ \A k \in DOMAIN holders \ {from} : after[k] = holders[k]

WholeTaken(c) ==
  TakenOnce(collections, collections', c, Place(c), RequestOfWhole(c), Place(c))

HandlesTaken(c) ==
  /\ Requested(c) \subseteq Data
  /\ DOMAIN handles' = DOMAIN handles \cup {<<Place(c), d>> : d \in Requested(c)}
  /\ \A d \in Requested(c) :
       Taken(handles, handles', <<c, d>>, <<Place(c), d>>, RequestsOf(c)[d], Append(Place(c), d))
  /\ \A k \in DOMAIN handles : handles'[k] = handles[k] \/ (k[1] = c /\ k[2] \in Requested(c))

\* A task outside of works creates a task, a reduction or a work.
Creates(c, state) ==
  /\ Operates(c, {Place(c)}, state)
  /\ HasOperation(c)
  /\ ~IsIndexTask(c) /\ Place(c) \in DOMAIN program /\ Operation(c) = program[Place(c)]
  /\ Requested(c) \subseteq {Parameter}
  /\ WholeTaken(c)
  /\ HandlesTaken(c)
  /\ UNCHANGED <<alias, publications, fetches>>

\* An index task creates a task, or contributes to an allreduce.
CreatesBeneath(t) ==
  /\ Operates(t, {Place(t)}, "pending")
  /\ HasOperation(t)
  /\ IsIndexTask(t) /\ Operation(t) = program[Front(t)].body[ops[t] + 1]
  /\ Operation(t).do \in {"child", "allreduce"}
  /\ Requested(t) \subseteq Elements
  /\ HandlesTaken(t)
  /\ UNCHANGED <<collections, alias, publications, fetches>>

\* What is made known of an element.
PublicationOf(t, e) ==
  LET outcome == OutcomeOf(handles[<<t, e>>], Perms(None, Read), Append(Place(t), e))
  IN  [at         |-> Place(t),
       use        |-> outcome.captured.use,
       n_fetchers |-> Cardinality(program[Front(t)].readers[e]),
       anti_out   |-> VersionAnti(Front(t), e),
       released   |-> FALSE]

Publishes(t) ==
  LET w == Front(t)
      data == PublishedElements(t)
  IN  /\ Operates(t, {}, "pending")
      /\ HasOperation(t)
      /\ IsIndexTask(t) /\ Operation(t) = program[Front(t)].body[ops[t] + 1]
      /\ Operation(t).do = "publish"
      /\ data \subseteq Elements
      /\ DOMAIN handles' = DOMAIN handles
      /\ \A e \in data :
           /\ Served(handles, <<t, e>>, Perms(None, Read))
           /\ handles'[<<t, e>>] =
                OutcomeOf(handles[<<t, e>>], Perms(None, Read), Append(Place(t), e)).source
      /\ \A k \in DOMAIN handles : handles'[k] = handles[k] \/ (k[1] = t /\ k[2] \in data)
      /\ DOMAIN publications' = DOMAIN publications \cup {<<w, e>> : e \in data}
      /\ \A e \in data : publications'[<<w, e>>] = PublicationOf(t, e)
      /\ \A p \in DOMAIN publications : p \notin {<<w, e>> : e \in data} => publications'[p] = publications[p]
      /\ alias' = EstablishAliases({<<VersionIn(w, e), PublicationOf(t, e).use.in>> : e \in data})
      /\ UNCHANGED <<collections, fetches>>

\* Contexts run whose uses have what they need.
RunsReady(contexts) == RunsPending(contexts) /\ \A c \in contexts : Runnable(c)

\* What Capture does to holders.
LEMMA CaptureTakes ==
  ASSUME NEW h, NEW from, NEW to, to \notin DOMAIN h, NEW request, NEW owner,
         Serves(h, from, request),
         NEW h2, h2 = Capture(h, from, to, request, owner)
  PROVE  TakenOnce(h, h2, from, to, request, owner)
<1>1. CASE request = NoRequest
  BY <1>1 DEF Capture, TakenOnce
<1>2. CASE request # NoRequest
  <2> DEFINE outcome == OutcomeOf(h[from], request, owner)
             left    == [h EXCEPT ![from] = outcome.source]
             over    == Single(to, outcome.captured)
  <2>1. Served(h, from, request) /\ from \in DOMAIN h
    BY <1>2 DEF Serves, Served
  <2>2. h2 = With(left, over)
    BY <1>2 DEF Capture
  <2>3. DOMAIN left = DOMAIN h /\ DOMAIN over = {to} /\ over[to] = outcome.captured
    BY DEF Single
  <2>4. left[from] = outcome.source /\ \A k \in DOMAIN h \ {from} : left[k] = h[k]
    BY <2>1
  <2> HIDE DEF left, over
  <2>5. /\ DOMAIN h2 = DOMAIN h \cup {to}
        /\ h2[to] = outcome.captured
        /\ \A k \in DOMAIN h : h2[k] = left[k]
    BY <2>2, <2>3 DEF With
  <2>6. h2[from] = outcome.source /\ \A k \in DOMAIN h \ {from} : h2[k] = h[k]
    BY <2>1, <2>4, <2>5
  <2>7. Taken(h, h2, from, to, request, owner)
    BY <2>1, <2>5, <2>6 DEF Taken
  <2> QED
    BY <1>2, <2>5, <2>6, <2>7 DEF TakenOnce
<1> QED
  BY <1>1, <1>2

\* What CaptureElements does.
LEMMA CaptureElementsTakes ==
  ASSUME DOMAIN handles \subseteq Contexts \X Data,
         NEW t, NEW p, p \notin Contexts, NEW elements \in SUBSET Elements, NEW request,
         \A e \in elements : Served(handles, <<t, e>>, request),
         NEW h2, h2 = CaptureElements(elements, t, p, request)
  PROVE  /\ DOMAIN h2 = DOMAIN handles \cup {<<p, e>> : e \in elements}
         /\ \A e \in elements : Taken(handles, h2, <<t, e>>, <<p, e>>, request, Append(p, e))
         /\ \A k \in DOMAIN handles : h2[k] = handles[k] \/ (k[1] = t /\ k[2] \in elements)
<1> DEFINE outcome(e) == OutcomeOf(handles[<<t, e>>], request, Append(p, e))
           left == [k \in DOMAIN handles |->
                      IF k[1] = t /\ k[2] \in elements THEN outcome(k[2]).source ELSE handles[k]]
           over == [k \in {<<p, e>> : e \in elements} |-> outcome(k[2]).captured]
<1>1. h2 = With(left, over)
  BY DEF CaptureElements
<1>2. /\ DOMAIN left = DOMAIN handles
      /\ DOMAIN over = {<<p, e>> : e \in elements}
      /\ \A e \in elements : over[<<p, e>>] = outcome(e).captured
      /\ \A k \in DOMAIN handles : left[k] = handles[k] \/ (k[1] = t /\ k[2] \in elements)
  OBVIOUS
<1>3. \A e \in elements : left[<<t, e>>] = outcome(e).source
  <2> TAKE e \in elements
  <2>1. <<t, e>> \in DOMAIN handles
    BY DEF Served
  <2>2. <<t, e>>[1] = t /\ <<t, e>>[2] = e
    OBVIOUS
  <2> QED
    BY <2>1, <2>2
<1> HIDE DEF left, over
<1>4. /\ DOMAIN h2 = DOMAIN handles \cup {<<p, e>> : e \in elements}
      /\ \A e \in elements : h2[<<p, e>>] = outcome(e).captured
  BY <1>1, <1>2 DEF With
<1>5. \A k \in DOMAIN handles : k \notin DOMAIN over
  BY <1>2
<1>6. \A k \in DOMAIN handles : h2[k] = left[k]
  BY <1>1, <1>2, <1>5 DEF With
<1>7. ASSUME NEW e \in elements
      PROVE  Taken(handles, h2, <<t, e>>, <<p, e>>, request, Append(p, e))
  <2>1. <<p, e>> \notin DOMAIN handles /\ <<p, e>> \in DOMAIN h2
    BY <1>4
  <2>2. Served(handles, <<t, e>>, request) /\ <<t, e>> \in DOMAIN handles
    BY DEF Served
  <2> QED
    BY <1>3, <1>4, <1>6, <2>1, <2>2 DEF Taken
<1> QED
  BY <1>2, <1>4, <1>6, <1>7

\* The creation of a task, a reduction or a work.
LEMMA CreatesBy ==
  ASSUME Kept, NEW c, NEW do \in {"task", "reduce", "work"}, About(c, do),
         NEW single, RequestsOf(c) = Single(Parameter, single),
         Serves(collections, c, RequestOfWhole(c)),
         do = "work" => Served(collections, c, RequestOfWhole(c)),
         Serves(handles, <<c, Parameter>>, single),
         collections' = Capture(collections, c, Place(c), RequestOfWhole(c), Place(c)),
         handles' = Capture(handles, <<c, Parameter>>, <<Place(c), Parameter>>, single,
                            Append(Place(c), Parameter)),
         NEW state, state = (IF do = "work" THEN "registered" ELSE "pending"),
         Proceed(c, {Place(c)}, state),
         UNCHANGED <<program, alias, publications, fetches>>
  PROVE  Creates(c, state)
<1>1. /\ c \in Contexts /\ status[c] = "running" /\ ~IsIndexTask(c)
      /\ Place(c) \in DOMAIN program /\ Operation(c) = program[Place(c)]
  BY AboutProgram DEF Kept
<1>2. HasOperation(c)
  BY DEF About
<1>3. Operates(c, {Place(c)}, state)
  BY CreatesCaptures DEF Captures
<1>4. Place(c) \notin DOMAIN collections /\ <<Place(c), Parameter>> \notin DOMAIN handles
  BY <1>1, PlaceIsNew DEF Kept, HoldersKept
<1>5. WholeTaken(c)
  BY <1>4, CaptureTakes DEF WholeTaken
<1>6. DOMAIN RequestsOf(c) = {Parameter} /\ RequestsOf(c)[Parameter] = single
  BY DEF Single
<1>7. TakenOnce(handles, handles', <<c, Parameter>>, <<Place(c), Parameter>>, single,
                Append(Place(c), Parameter))
  BY <1>4, CaptureTakes
<1>8. HandlesTaken(c)
  <2>1. CASE single = NoRequest
    <3>1. Requested(c) = {}
      BY <1>6, <2>1 DEF Requested
    <3> QED
      BY <1>7, <2>1, <3>1 DEF HandlesTaken, TakenOnce
  <2>2. CASE single # NoRequest
    <3>1. Requested(c) = {Parameter}
      BY <1>6, <2>2 DEF Requested
    <3>2. {<<Place(c), d>> : d \in Requested(c)} = {<<Place(c), Parameter>>}
      BY <3>1
    <3>3. \A k \in DOMAIN handles : k # <<c, Parameter>> => handles'[k] = handles[k]
      BY <1>7, <2>2 DEF TakenOnce
    <3>4. \A d \in Requested(c) :
            Taken(handles, handles', <<c, d>>, <<Place(c), d>>, RequestsOf(c)[d], Append(Place(c), d))
      BY <1>6, <1>7, <2>2, <3>1 DEF TakenOnce
    <3>5. <<c, Parameter>>[1] = c /\ <<c, Parameter>>[2] = Parameter
      OBVIOUS
    <3>6. Requested(c) \subseteq Data
      BY <3>1 DEF Data
    <3> QED
      BY <1>7, <2>2, <3>1, <3>2, <3>3, <3>4, <3>5, <3>6 DEF HandlesTaken, TakenOnce
  <2> QED
    BY <2>1, <2>2
<1>9. Requested(c) \subseteq {Parameter}
  BY <1>6 DEF Requested
<1> QED
  BY <1>1, <1>2, <1>3, <1>5, <1>8, <1>9 DEF Creates

\* What index tasks make.
LEMMA CreatesBeneathBy ==
  ASSUME Kept, NEW t, NEW do \in {"child", "allreduce"}, About(t, do),
         NEW elements \in SUBSET Elements, NEW request,
         RequestsOf(t) = [e \in elements |-> request],
         \A e \in elements : Served(handles, <<t, e>>, request),
         handles' = CaptureElements(elements, t, Place(t), request),
         Proceed(t, {Place(t)}, "pending"),
         UNCHANGED <<program, collections, alias, publications, fetches>>
  PROVE  CreatesBeneath(t)
<1>1. /\ t \in Contexts /\ status[t] = "running" /\ IsIndexTask(t)
      /\ Operation(t) = program[Front(t)].body[ops[t] + 1]
      /\ Operation(t).do = do
  BY AboutIndex DEF Kept
<1>2. HasOperation(t)
  BY DEF About
<1>3. Operates(t, {Place(t)}, "pending")
  BY IndexTaskCaptures DEF Captures
<1>4. Place(t) \notin Contexts /\ DOMAIN handles \subseteq Contexts \X Data
  BY <1>1, PlaceIsNew DEF Kept, HoldersKept
<1>5. /\ DOMAIN handles' = DOMAIN handles \cup {<<Place(t), e>> : e \in elements}
      /\ \A e \in elements :
           Taken(handles, handles', <<t, e>>, <<Place(t), e>>, request, Append(Place(t), e))
      /\ \A k \in DOMAIN handles : handles'[k] = handles[k] \/ (k[1] = t /\ k[2] \in elements)
  BY <1>4, CaptureElementsTakes
<1>6. Requested(t) = elements
  <2>1. \A e \in elements : request # NoRequest
    BY CaseServes DEF Served
  <2> QED
    BY <2>1 DEF Requested
<1>7. HandlesTaken(t)
  <2>1. elements \subseteq Data
    BY DEF Data
  <2> QED
    BY <1>5, <1>6, <2>1 DEF HandlesTaken
<1> QED
  BY <1>1, <1>2, <1>3, <1>6, <1>7 DEF CreatesBeneath

\* An element has been published by those whose next operation comes later, and
\* only once.
LEMMA NotYetPublished ==
  ASSUME Kept, OutsKept, NEW t, About(t, "publish")
  PROVE  \A e \in LocalElements(t) : <<Front(t), e>> \notin DOMAIN publications
<1>1. /\ t \in Contexts /\ IsWork(Front(t)) /\ t \in IndexTasks(Front(t))
      /\ ops[t] + 1 \in DOMAIN program[Front(t)].body
      /\ program[Front(t)].body[ops[t] + 1].do = "publish"
  BY AboutIndex DEF Kept
<1>2. ops[t] \in Nat
  BY <1>1 DEF Kept, ContextsKept
<1> SUFFICES ASSUME NEW e \in LocalElements(t), <<Front(t), e>> \in DOMAIN publications PROVE FALSE
  OBVIOUS
<1>3. e \in Elements /\ TakerOf(Front(t), e) = t
  BY <1>1, TakersOfElements DEF Kept, ContextsKept
<1>4. PICK n \in 1..ops[t] :
        n \in DOMAIN program[Front(t)].body /\ program[Front(t)].body[n].do = "publish"
  BY <1>3 DEF OutsKept, PublicationsMade
<1>5. n = ops[t] + 1
  BY <1>1, <1>4, ProgramsAssumption DEF IsWork, Kept, ContextsKept, Named
<1> QED
  BY <1>2, <1>4, <1>5

\* What publishing does.
LEMMA PublishMakes ==
  ASSUME Kept, OutsKept, NEW t, Publish(t)
  PROVE  Publishes(t)
<1> DEFINE w == Front(t)
           data == PublishedElements(t)
           made == {<<w, e>> : e \in data}
           outcome(e) == OutcomeOf(handles[<<t, e>>], Perms(None, Read), Append(Place(t), e))
           new == [p \in made |->
                     [at         |-> Place(t),
                      use        |-> outcome(p[2]).captured.use,
                      n_fetchers |-> Cardinality(program[w].readers[p[2]]),
                      anti_out   |-> Fetching(collections[w].use.anti_out, w, p[2]),
                      released   |-> FALSE]]
<1>1. About(t, "publish")
  BY DEF Publish
<1>2. /\ t \in Contexts /\ status[t] = "running" /\ IsIndexTask(t)
      /\ IsWork(w) /\ t \in IndexTasks(w)
      /\ Operation(t) = program[w].body[ops[t] + 1]
      /\ Operation(t).do = "publish"
  BY <1>1, AboutIndex DEF Kept
<1>3. HasOperation(t)
  BY <1>1 DEF About
<1>4. Operates(t, {}, "pending")
  BY PublishCaptures DEF Captures
<1>5. data \subseteq LocalElements(t) /\ data \subseteq Elements
  BY <1>2, TakersOfElements DEF PublishedElements, Kept, ContextsKept
<1>6. /\ \A e \in data : Served(handles, <<t, e>>, Perms(None, Read))
      /\ handles' = [k \in DOMAIN handles |->
                       IF k[1] = t /\ k[2] \in data THEN outcome(k[2]).source ELSE handles[k]]
      /\ publications' = With(publications, new)
      /\ alias' = EstablishAliases({<<Fetching(collections[w].use.in, w, e),
                                      outcome(e).captured.use.in>> : e \in data})
      /\ UNCHANGED <<collections, fetches>>
  BY DEF Publish
<1>7. DOMAIN handles' = DOMAIN handles
  BY <1>6
<1>8. ASSUME NEW e \in data PROVE handles'[<<t, e>>] = outcome(e).source
  <2>1. <<t, e>> \in DOMAIN handles
    BY <1>6 DEF Served
  <2>2. <<t, e>>[1] = t /\ <<t, e>>[2] = e
    OBVIOUS
  <2> HIDE DEF data, outcome
  <2> QED
    BY <1>6, <2>1, <2>2
<1>9. \A k \in DOMAIN handles : handles'[k] = handles[k] \/ (k[1] = t /\ k[2] \in data)
  <2> HIDE DEF data, outcome
  <2> QED
    BY <1>6
<1>10. ASSUME NEW e \in data PROVE new[<<w, e>>] = PublicationOf(t, e)
  <2>1. <<w, e>> \in made /\ <<w, e>>[2] = e
    OBVIOUS
  <2> QED
    BY <2>1 DEF PublicationOf, VersionAnti
<1>11. DOMAIN new = made
  OBVIOUS
<1>12. \A p \in DOMAIN publications : p \notin made => publications'[p] = publications[p]
  <2> HIDE DEF new, made
  <2> QED
    BY <1>6, <1>11 DEF With
<1>13. DOMAIN publications' = DOMAIN publications \cup made
  <2> HIDE DEF new, made
  <2> QED
    BY <1>6, <1>11 DEF With
<1>14. ASSUME NEW e \in data PROVE publications'[<<w, e>>] = PublicationOf(t, e)
  <2>1. <<w, e>> \in made
    OBVIOUS
  <2> HIDE DEF new, made, w, data
  <2> QED
    BY <1>6, <1>10, <1>11, <2>1 DEF With
<1>15. alias' = EstablishAliases({<<VersionIn(w, e), PublicationOf(t, e).use.in>> : e \in data})
  <2>1. \A e \in data : /\ VersionIn(w, e) = Fetching(collections[w].use.in, w, e)
                        /\ PublicationOf(t, e).use.in = outcome(e).captured.use.in
    BY DEF VersionIn, PublicationOf
  <2>2. {<<VersionIn(w, e), PublicationOf(t, e).use.in>> : e \in data}
          = {<<Fetching(collections[w].use.in, w, e), outcome(e).captured.use.in>> : e \in data}
    <3> HIDE DEF w, data, outcome
    <3> QED
      BY <2>1
  <2> QED
    BY <1>6, <2>2
<1>16. /\ \A e \in data : Served(handles, <<t, e>>, Perms(None, Read))
       /\ UNCHANGED <<collections, fetches>>
  BY <1>6
<1> HIDE DEF new
<1> QED
  BY <1>2, <1>3, <1>4, <1>5, <1>7, <1>8, <1>9, <1>12, <1>13, <1>14, <1>15, <1>16 DEF Publishes

\* What any step does.
AnyStep ==
  \/ \E c : \E state : Creates(c, state)
  \/ \E t : CreatesBeneath(t)
  \/ \E t : Publishes(t)
  \/ \E t \in Contexts : Fetch(t)
  \/ \E w \in Contexts : CreateTaskForIndex(w)
  \/ \E w \in Contexts : DropTaskCollection(w)
  \/ \E c \in Contexts : EndTask(c)
  \/ \E contexts : RunsReady(contexts)
  \/ \E p \in DOMAIN publications : ReleasePublication(p)
  \/ UNCHANGED vars

\* Every step is of one of these kinds.
LEMMA StepCases ==
  ASSUME Kept, OutsKept, [Next]_vars
  PROVE  AnyStep
<1>1. ASSUME NEW c \in Contexts, CreateTask(c) PROVE \E state : Creates(c, state)
  <2>1. Operation(c).do = "task" /\ About(c, "task")
    BY <1>1 DEF CreateTask, About
  <2>2. RequestOfWhole(c) = Operation(c).collection
        /\ RequestsOf(c) = Single(Parameter, Operation(c).parameter)
    BY <2>1 DEF RequestOfWhole, RequestsOf
  <2>3. /\ Serves(collections, c, RequestOfWhole(c))
        /\ Serves(handles, <<c, Parameter>>, Operation(c).parameter)
        /\ collections' = Capture(collections, c, Place(c), RequestOfWhole(c), Place(c))
        /\ handles' = Capture(handles, <<c, Parameter>>, <<Place(c), Parameter>>,
                              Operation(c).parameter, Append(Place(c), Parameter))
        /\ Proceed(c, {Place(c)}, "pending")
        /\ UNCHANGED <<program, alias, publications, fetches>>
    BY <1>1, <2>2 DEF CreateTask
  <2>4. Creates(c, "pending")
    BY <2>1, <2>2, <2>3, CreatesBy
  <2> QED
    BY <2>4
<1>2. ASSUME NEW c \in Contexts, Reduce(c) PROVE \E state : Creates(c, state)
  <2>1. Operation(c).do = "reduce" /\ About(c, "reduce")
    BY <1>2 DEF Reduce, About
  <2>2. RequestOfWhole(c) = Perms(None, Read)
        /\ RequestsOf(c) = Single(Parameter, Perms(None, Modify))
    BY <2>1 DEF RequestOfWhole, RequestsOf
  <2>3. /\ Serves(collections, c, RequestOfWhole(c))
        /\ Serves(handles, <<c, Parameter>>, Perms(None, Modify))
        /\ collections' = Capture(collections, c, Place(c), RequestOfWhole(c), Place(c))
        /\ handles' = Capture(handles, <<c, Parameter>>, <<Place(c), Parameter>>,
                              Perms(None, Modify), Append(Place(c), Parameter))
        /\ Proceed(c, {Place(c)}, "pending")
        /\ UNCHANGED <<program, alias, publications, fetches>>
    BY <1>2, <2>2 DEF Reduce, Serves
  <2>4. Creates(c, "pending")
    BY <2>1, <2>2, <2>3, CreatesBy
  <2> QED
    BY <2>4
<1>3. ASSUME NEW c \in Contexts, CreateConcurrentWork(c) PROVE \E state : Creates(c, state)
  <2>1. Operation(c).do = "work" /\ About(c, "work")
    BY <1>3 DEF CreateConcurrentWork, About
  <2>2. RequestOfWhole(c) = Operation(c).request
        /\ RequestsOf(c) = Single(Parameter, Operation(c).shared)
    BY <2>1 DEF RequestOfWhole, RequestsOf
  <2>3. /\ Served(collections, c, RequestOfWhole(c))
        /\ Serves(collections, c, RequestOfWhole(c))
        /\ Serves(handles, <<c, Parameter>>, Operation(c).shared)
        /\ collections' = Capture(collections, c, Place(c), RequestOfWhole(c), Place(c))
        /\ handles' = Capture(handles, <<c, Parameter>>, <<Place(c), Parameter>>,
                              Operation(c).shared, Append(Place(c), Parameter))
        /\ Proceed(c, {Place(c)}, "registered")
        /\ UNCHANGED <<program, alias, publications, fetches>>
    BY <1>3, <2>2 DEF CreateConcurrentWork, Serves
  <2>4. Creates(c, "registered")
    BY <2>1, <2>2, <2>3, CreatesBy
  <2> QED
    BY <2>4
<1>4. ASSUME NEW t \in Contexts, CreateChild(t) PROVE CreatesBeneath(t)
  <2> DEFINE elements == IF Operation(t).of = "fetched" THEN FetchedElements(t) ELSE LocalElements(t)
  <2>1. /\ About(t, "child")
        /\ \A e \in elements : Served(handles, <<t, e>>, Operation(t).request)
        /\ handles' = CaptureElements(elements, t, Place(t), Operation(t).request)
        /\ Proceed(t, {Place(t)}, "pending")
        /\ UNCHANGED <<program, collections, alias, publications, fetches>>
    BY <1>4 DEF CreateChild
  <2>2. elements \in SUBSET Elements
    BY <2>1, AboutIndex, TakersOfElements DEF Kept, ContextsKept
  <2>3. Operation(t).do = "child"
    BY <2>1 DEF About
  <2>4. RequestsOf(t) = [e \in elements |-> Operation(t).request]
    BY <2>3 DEF RequestsOf
  <2> HIDE DEF elements
  <2> QED
    BY <2>1, <2>2, <2>4, CreatesBeneathBy
<1>5. ASSUME NEW t \in Contexts, Allreduce(t) PROVE CreatesBeneath(t)
  <2>1. /\ About(t, "allreduce")
        /\ \A e \in LocalElements(t) : Served(handles, <<t, e>>, Perms(None, Modify))
        /\ handles' = CaptureElements(LocalElements(t), t, Place(t), Perms(None, Modify))
        /\ Proceed(t, {Place(t)}, "pending")
        /\ UNCHANGED <<program, collections, alias, publications, fetches>>
    BY <1>5 DEF Allreduce
  <2>2. LocalElements(t) \in SUBSET Elements
    BY <2>1, AboutIndex, TakersOfElements DEF Kept, ContextsKept
  <2>3. Operation(t).do = "allreduce"
    BY <2>1 DEF About
  <2>4. RequestsOf(t) = [e \in LocalElements(t) |-> Perms(None, Modify)]
    BY <2>3 DEF RequestsOf
  <2> QED
    BY <2>1, <2>2, <2>4, CreatesBeneathBy
<1>6. ASSUME NEW t \in Contexts, Publish(t) PROVE Publishes(t)
  BY <1>6, PublishMakes
<1>7. ASSUME NEW c \in Contexts, RunTask(c) PROVE \E contexts : RunsReady(contexts)
  <2>1. RunsReady({c})
    BY <1>7 DEF RunTask, Runnable, RunsPending, RunsReady
  <2> QED
    BY <2>1
<1>8. ASSUME NEW w \in Contexts, PerformAllreduce(w) PROVE \E contexts : RunsReady(contexts)
  <2>1. PICK n \in DOMAIN program[w].body :
          /\ Contributions(w, n) \subseteq Contexts
          /\ \A c \in Contributions(w, n) : Runnable(c)
          /\ Run(Contributions(w, n))
    BY <1>8 DEF PerformAllreduce
  <2>2. RunsReady(Contributions(w, n))
    BY <2>1 DEF Runnable, RunsPending, RunsReady
  <2> QED
    BY <2>2
<1>9. ASSUME NEW c \in Contexts, ContextStep(c) PROVE AnyStep
  BY <1>1, <1>2, <1>3, <1>4, <1>5, <1>6, <1>9 DEF ContextStep, AnyStep
<1>10. CASE \E c \in Contexts : ContextStep(c)
  BY <1>9, <1>10
<1>11. CASE BackendStep
  BY <1>7, <1>8, <1>11 DEF BackendStep, AnyStep
<1>12. CASE Terminated \/ UNCHANGED vars
  BY <1>12 DEF Terminated, AnyStep
<1> QED
  BY <1>10, <1>11, <1>12 DEF Next

(***************************************************************************)
(* Captures keep the shape of holders                                      *)
(***************************************************************************)
\* What a capture from a holder of the front end makes and leaves; from one that
\* schedules no writers it makes one that reads the same.
OutcomeInShape(source, request, captured, left) ==
  /\ IsHolderInShape(captured)
  /\ PermissionsOf(captured.use) = request
  /\ IsHolderInShape(left)
  /\ \/ left = source
     \/ "write" \in source.use.scheduling /\ "write" \notin left.use.immediate
  /\ "write" \notin source.use.scheduling =>
       /\ left = source
       /\ ~captured.could_be_alias
       /\ MayNotWrite(captured.use)
       /\ captured.use.in = source.use.in
       /\ captured.use.out = NoFlow
       /\ captured.use.anti_in = NoFlow
       /\ captured.use.anti_out = source.use.anti_out

\* A capture that is served makes holders in shape from one in shape.
LEMMA OutcomeShaped ==
  ASSUME NEW source, NEW request, IsHolderInShape(source),
         <<PermissionsOf(source.use), request>> \in DOMAIN CaseFor,
         NEW owner
  PROVE  LET o == OutcomeOf(source, request, owner)
         IN  OutcomeInShape(source, request, o.captured, o.source)
<1> DEFINE o == OutcomeOf(source, request, owner)
           captured == o.captured
           left == o.source
<1>1. PICK case \in CaptureCases : MadeBy(case, source, request, owner, o)
  BY OutcomeMade
<1> HIDE DEF o
<1>2. ServesInShape(case) /\ Matches(case, "Sequential", PermissionsOf(source.use), request)
  BY <1>1, CaseInShape DEF MadeBy
<1>3. request \in PermissionPairs
  BY CaseServes
<1>4. /\ source.use.scheduling = PermissionsOf(source.use).scheduling
      /\ request \in FrontEndPairs
      /\ case.could_be_alias <=> "write" \in request.scheduling /\ "write" \notin request.immediate
      /\ case.needs_new_continuation_use =>
           /\ "write" \in source.use.scheduling
           /\ case.continuation \in FrontEndPairs
           /\ "write" \in case.continuation.scheduling
           /\ "write" \notin case.continuation.immediate
      /\ "write" \notin source.use.scheduling =>
           /\ "write" \notin request.scheduling \cup request.immediate
           /\ case.captured.in = Same("source_in")
           /\ case.captured.out = Insignificant
           /\ case.captured.anti_in = Insignificant
           /\ case.captured.anti_out = Same("source_anti_out")
  <2>1. source.use.scheduling = PermissionsOf(source.use).scheduling
    BY DEF PermissionsOf, Perms
  <2> DEFINE permissions == PermissionsOf(source.use)
  <2> HIDE DEF permissions
  <2> QED
    BY <1>2, <2>1 DEF ServesInShape, permissions
<1> DEFINE made == RegisteredFlows(case.captured, FlowsOfSource(source.use), owner, CapturedPlaces)
<1>5. captured.use = MakeUse(request, made, FALSE)
  BY <1>1 DEF MadeBy, CapturedUse
<1>6. /\ PermissionsOf(captured.use) = request
      /\ captured.use.scheduling = request.scheduling
      /\ captured.use.immediate = request.immediate
      /\ captured.use.in = made.in /\ captured.use.out = made.out
      /\ captured.use.anti_in = made.anti_in /\ captured.use.anti_out = made.anti_out
  <2> HIDE DEF captured, made
  <2> QED
    BY <1>3, <1>5 DEF MakeUse, PermissionsOf, Perms, PermissionPairs
<1>7. captured.could_be_alias = case.could_be_alias
  BY <1>1 DEF MadeBy
<1>8. IsHolderInShape(captured)
  <2> HIDE DEF captured, made
  <2> QED
    BY <1>4, <1>6, <1>7 DEF IsHolderInShape, InShape
<1>9. ASSUME ~case.needs_new_continuation_use PROVE left = source
  BY <1>1, <1>9 DEF MadeBy
<1>10. ASSUME case.needs_new_continuation_use
       PROVE  IsHolderInShape(left) /\ "write" \notin left.use.immediate
  <2> DEFINE flows == RegisteredFlows(case.continuing, FlowsOfCapture(source.use, captured.use),
                                      owner, ContinuingPlaces)
  <2>1. left.use = MakeUse(case.continuation, flows, FALSE) /\ left.could_be_alias = TRUE
    BY <1>1, <1>10 DEF MadeBy
  <2>2. case.continuation \in PermissionPairs
    <3>1. FrontEndPairs \subseteq PermissionPairs
      BY DEF FrontEndPairs, FrontEndPermissions, PermissionPairs, Permissions, PermissionsAmong,
             Perms, None, Read, Modify
    <3> QED
      BY <1>4, <1>10, <3>1
  <2> HIDE DEF flows, left
  <2>3. /\ PermissionsOf(left.use) = case.continuation
        /\ left.use.scheduling = case.continuation.scheduling
        /\ left.use.immediate = case.continuation.immediate
    BY <2>1, <2>2 DEF MakeUse, PermissionsOf, Perms, PermissionPairs
  <2> QED
    BY <1>4, <1>10, <2>1, <2>3 DEF IsHolderInShape, InShape
<1>11. ASSUME "write" \notin source.use.scheduling
       PROVE  /\ left = source
              /\ ~captured.could_be_alias
              /\ MayNotWrite(captured.use)
              /\ captured.use.in = source.use.in
              /\ captured.use.out = NoFlow
              /\ captured.use.anti_in = NoFlow
              /\ captured.use.anti_out = source.use.anti_out
  <2>1. left = source
    BY <1>4, <1>9, <1>11
  <2>2. made.in = source.use.in /\ made.out = NoFlow
        /\ made.anti_in = NoFlow /\ made.anti_out = source.use.anti_out
    BY <1>4, <1>11 DEF RegisteredFlows, UseFlows, Establish, Same, Insignificant, FlowsOfSource
  <2> HIDE DEF captured, made, left
  <2> QED
    BY <1>4, <1>6, <1>7, <1>11, <2>1, <2>2 DEF MayNotWrite
<1>12. IsHolderInShape(left) /\ (\/ left = source
                                 \/ "write" \in source.use.scheduling
                                    /\ "write" \notin left.use.immediate)
  BY <1>4, <1>9, <1>10
<1>13. OutcomeInShape(source, request, captured, left)
  <2> HIDE DEF captured, left, made
  <2> QED
    BY <1>6, <1>8, <1>11, <1>12 DEF OutcomeInShape
<1> QED
  BY <1>13 DEF o

(***************************************************************************)
(* Contexts of any step                                                    *)
(***************************************************************************)
\* The contexts a step makes: at the place of an operation, or index tasks.
MadeAt(c) ==
  \/ \E x \in Contexts :
       /\ c = Place(x)
       /\ (\E state : Creates(x, state)) \/ CreatesBeneath(x)
  \/ \E w \in Contexts : IsWork(w) /\ c \in IndexTasks(w)

ContextsGoOn ==
  /\ program' = program
  /\ Contexts \subseteq Contexts'
  /\ \A c \in Contexts : ops'[c] \in Nat /\ ops[c] <= ops'[c]
  /\ \A c : Over(c) => Over(c)'
  /\ \A c \in Contexts : Running(c)' =>
       Running(c) \/ \E contexts : RunsReady(contexts) /\ c \in contexts
  /\ \A c \in Contexts' \ Contexts : ~Running(c)' /\ ~Over(c)' /\ MadeAt(c)

\* What operates goes on, and so do others.
LEMMA OperatesGoOn ==
  ASSUME Kept, NEW c, NEW made, NEW state, Operates(c, made, state)
  PROVE  /\ program' = program
         /\ Contexts' = Contexts \cup made
         /\ \A x \in Contexts : status'[x] = status[x]
         /\ \A x \in made : status'[x] = state
         /\ \A x \in Contexts : /\ ops'[x] = IF x = c THEN ops[c] + 1 ELSE ops[x]
                                /\ ops'[x] \in Nat /\ ops[x] <= ops'[x]
<1>1. /\ c \in Contexts /\ status[c] = "running" /\ made \in {{}, {Place(c)}}
      /\ made # {} =>
           /\ state = IF IsWork(Place(c)) THEN "registered" ELSE "pending"
           /\ \/ ~IsIndexTask(c) /\ Place(c) \in DOMAIN program
              \/ IsIndexTask(c) /\ ops[c] + 1 \in DOMAIN program[Front(c)].body
      /\ Proceed(c, made, state)
      /\ program' = program
  BY DEF Operates
<1>2. /\ Contexts' = Contexts \cup made
      /\ \A x \in Contexts : status'[x] = status[x]
      /\ \A x \in made : status'[x] = state
      /\ \A x \in Contexts : ops'[x] = IF x = c THEN ops[c] + 1 ELSE ops[x]
  BY <1>1, ContextsProceed DEF Kept
<1>3. \A x \in Contexts : ops[x] \in Nat
  BY DEF Kept, ContextsKept
<1>4. \A x \in Contexts : ops'[x] \in Nat /\ ops[x] <= ops'[x]
  BY <1>1, <1>2, <1>3
<1> QED
  BY <1>1, <1>2, <1>4

\* Contexts only come, operate, and end.
LEMMA ContextsOfStep ==
  ASSUME Kept, AnyStep
  PROVE  ContextsGoOn
<1>0. \A c \in Contexts : ops[c] \in Nat
  BY DEF Kept, ContextsKept
<1>1. ASSUME NEW c, NEW state, Creates(c, state) PROVE ContextsGoOn
  <2>1. Operates(c, {Place(c)}, state) /\ c \in Contexts
        /\ state = IF IsWork(Place(c)) THEN "registered" ELSE "pending"
    BY <1>1 DEF Creates, Operates
  <2>2. MadeAt(Place(c))
    BY <1>1, <2>1 DEF MadeAt
  <2> QED
    BY <2>1, <2>2, OperatesGoOn DEF ContextsGoOn, Running, Over
<1>2. ASSUME NEW t, CreatesBeneath(t) PROVE ContextsGoOn
  <2>1. Operates(t, {Place(t)}, "pending") /\ t \in Contexts
    BY <1>2 DEF CreatesBeneath, Operates
  <2>2. MadeAt(Place(t))
    BY <1>2, <2>1 DEF MadeAt
  <2> QED
    BY <2>1, <2>2, OperatesGoOn DEF ContextsGoOn, Running, Over
<1>3. ASSUME NEW t, Publishes(t) PROVE ContextsGoOn
  <2>1. Operates(t, {}, "pending")
    BY <1>3 DEF Publishes
  <2> QED
    BY <2>1, OperatesGoOn DEF ContextsGoOn, Running, Over
<1>4. ASSUME NEW t \in Contexts, Fetch(t) PROVE ContextsGoOn
  <2>1. Operates(t, {}, "pending")
    BY <1>4 DEF Fetch, About, Operates
  <2> QED
    BY <2>1, OperatesGoOn DEF ContextsGoOn, Running, Over
<1>5. ASSUME NEW w \in Contexts, CreateTaskForIndex(w) PROVE ContextsGoOn
  <2>1. PICK t \in IndexTasks(w) \ Contexts :
          status' = With(status, Single(t, "pending")) /\ ops' = With(ops, Single(t, 0))
    BY <1>5 DEF CreateTaskForIndex
  <2>2. IsWork(w) /\ program' = program
    BY <1>5 DEF CreateTaskForIndex
  <2>3. /\ Contexts' = Contexts \cup {t} /\ status'[t] = "pending"
        /\ \A c \in Contexts : status'[c] = status[c]
        /\ \A c \in Contexts : ops'[c] = ops[c]
    BY <2>1 DEF With, Single, Kept, ContextsKept, Contexts
  <2>4. MadeAt(t)
    BY <2>1, <2>2 DEF MadeAt
  <2> QED
    BY <1>0, <2>2, <2>3, <2>4 DEF ContextsGoOn, Running, Over
<1>6. ASSUME NEW c \in Contexts, DropTaskCollection(c) \/ EndTask(c) PROVE ContextsGoOn
  <2>1. status' = [status EXCEPT ![c] = "done"] /\ ops' = ops /\ program' = program
    BY <1>6 DEF DropTaskCollection, EndTask
  <2> QED
    BY <1>0, <2>1 DEF ContextsGoOn, Running, Over, Contexts
<1>7. ASSUME NEW contexts, RunsReady(contexts) PROVE ContextsGoOn
  <2>1. /\ contexts \subseteq Contexts /\ \A c \in contexts : status[c] = "pending"
        /\ status' = With(status, [c \in contexts |-> "running"])
        /\ ops' = ops /\ program' = program
    BY <1>7 DEF RunsReady, RunsPending, Run
  <2>2. /\ Contexts' = Contexts
        /\ \A c \in Contexts \ contexts : status'[c] = status[c]
    BY <2>1 DEF With, Contexts
  <2> QED
    BY <1>0, <1>7, <2>1, <2>2 DEF ContextsGoOn, Running, Over
<1>8. CASE (\E p \in DOMAIN publications : ReleasePublication(p)) \/ UNCHANGED vars
  <2>1. status' = status /\ ops' = ops /\ program' = program
    BY <1>8 DEF ReleasePublication, vars
  <2> QED
    BY <1>0, <2>1 DEF ContextsGoOn, Running, Over, Contexts
<1> QED
  BY <1>1, <1>2, <1>3, <1>4, <1>5, <1>6, <1>7, <1>8 DEF AnyStep

\* What the names of contexts say stays as it is.
LEMMA NamesStay ==
  ASSUME program' = program
  PROVE  /\ \A c : IsWork(c)' <=> IsWork(c)
         /\ \A c : IsIndexTask(c)' <=> IsIndexTask(c)
         /\ \A c : IsBeneath(c)' <=> IsBeneath(c)
         /\ \A c : LocalElements(c)' = LocalElements(c)
         /\ \A w, e : TakerOf(w, e)' = TakerOf(w, e)
BY DEF IsWork, IsIndexTask, IsBeneath, LocalElements, TakerOf

\* A work is no index task, and neither is nor makes what is made beneath one.
LEMMA NamesApart ==
  ASSUME ContextsKept
  PROVE  /\ \A w \in Contexts : IsWork(w) => ~IsIndexTask(w)
         /\ \A w \in Contexts : \A t \in IndexTasks(w) :
              IsWork(w) => /\ IsIndexTask(t) /\ ~IsWork(t) /\ ~IsBeneath(t) /\ Front(t) = w
                           /\ Last(t) \in DenseIndices(program[w].tasks)
         /\ \A c \in Contexts : status[c] = "running" =>
              /\ Place(c) \in Seq(Nat) /\ Front(Place(c)) = c /\ Last(Place(c)) = ops[c] + 1
              /\ ~IsWork(c) /\ Place(c) \notin Contexts
              /\ ~IsIndexTask(Place(c))
              /\ IsBeneath(Place(c)) <=> IsIndexTask(c)
              /\ IsIndexTask(c) => ~IsWork(Place(c))
<1>1. ASSUME NEW w \in Contexts, IsWork(w) PROVE ~IsIndexTask(w)
  <2> SUFFICES ASSUME IsIndexTask(w) PROVE FALSE
    OBVIOUS
  <2>1. IsWork(Front(w)) /\ w \in IndexTasks(Front(w))
    BY IndexTasksNamed DEF ContextsKept
  <2> QED
    BY <1>1, <2>1, IndexNames DEF ContextsKept
<1>2. ASSUME NEW w \in Contexts, NEW t \in IndexTasks(w), IsWork(w)
      PROVE  /\ IsIndexTask(t) /\ ~IsWork(t) /\ ~IsBeneath(t) /\ Front(t) = w
             /\ Last(t) \in DenseIndices(program[w].tasks)
  <2>1. /\ IsIndexTask(t) /\ ~IsWork(t) /\ Front(t) = w
        /\ Last(t) \in DenseIndices(program[w].tasks)
    BY <1>2, IndexNames DEF ContextsKept
  <2> QED
    BY <1>1, <1>2, <2>1 DEF IsBeneath
<1>3. ASSUME NEW c \in Contexts, status[c] = "running"
      PROVE  /\ Place(c) \in Seq(Nat) /\ Front(Place(c)) = c /\ Last(Place(c)) = ops[c] + 1
             /\ ~IsWork(c) /\ Place(c) \notin Contexts
             /\ ~IsIndexTask(Place(c))
             /\ IsBeneath(Place(c)) <=> IsIndexTask(c)
             /\ IsIndexTask(c) => ~IsWork(Place(c))
  <2>1. /\ Place(c) \in Seq(Nat) /\ Front(Place(c)) = c /\ Last(Place(c)) = ops[c] + 1
        /\ Place(c) # Root /\ Place(c) = Append(c, ops[c] + 1) /\ ops[c] \in Nat
    BY ContextNames
  <2>2. ~IsWork(c) /\ Place(c) \notin Contexts
    BY <1>3, PlaceIsNew
  <2>3. ~IsIndexTask(Place(c)) /\ (IsBeneath(Place(c)) <=> IsIndexTask(c))
    BY <2>1, <2>2 DEF IsIndexTask, IsBeneath
  <2>4. ASSUME IsIndexTask(c) PROVE ~IsWork(Place(c))
    <3>1. IsWork(Front(c)) /\ c \in IndexTasks(Front(c))
      BY <2>4, IndexTasksNamed DEF ContextsKept
    <3> QED
      BY <2>1, <3>1, ChildNames DEF ContextsKept
  <2> QED
    BY <2>1, <2>2, <2>3, <2>4
<1> QED
  BY <1>1, <1>2, <1>3

\* What was performed stays so, and flows stay those of their datum.
LEMMA FlowsStayOwned ==
  ASSUME Kept, ContextsGoOn
  PROVE  /\ \A p : Performed(p) => Performed(p)'
         /\ \A f, d : IsFlowOf(f, d) => IsFlowOf(f, d)'
         /\ \A u, d : HasFlowsOf(u, d) => HasFlowsOf(u, d)'
<1>1. ASSUME NEW p, Performed(p) PROVE Performed(p)'
  <2>1. CASE p = Root
    BY <2>1 DEF Performed
  <2>2. CASE p # << >> /\ Front(p) \in Contexts /\ Last(p) \in 1 .. ops[Front(p)]
    <3>1. /\ Front(p) \in Contexts' /\ ops'[Front(p)] \in Nat /\ ops[Front(p)] <= ops'[Front(p)]
          /\ ops[Front(p)] \in Nat
      BY <2>2 DEF ContextsGoOn, Kept, ContextsKept
    <3>2. Last(p) \in 1 .. ops'[Front(p)]
      BY <2>2, <3>1
    <3> QED
      BY <2>2, <3>1, <3>2 DEF Performed
  <2> QED
    BY <1>1, <2>1, <2>2 DEF Performed
<1>2. ASSUME NEW f, NEW d, IsFlowOf(f, d) PROVE IsFlowOf(f, d)'
  BY <1>1, <1>2 DEF IsFlowOf
<1>3. ASSUME NEW u, NEW d, HasFlowsOf(u, d) PROVE HasFlowsOf(u, d)'
  BY <1>2, <1>3 DEF HasFlowsOf
<1> QED
  BY <1>1, <1>2, <1>3

\* What operates performs its next operation, for which its flows are made.
LEMMA NowPerformed ==
  ASSUME Kept, NEW c, NEW made, NEW state, Operates(c, made, state), NEW p, p = Place(c)
  PROVE  Performed(p)' /\ ~Performed(p)
<1>1. /\ Contexts' = Contexts \cup made
      /\ ops'[c] = ops[c] + 1 /\ c \in Contexts /\ status[c] = "running"
  BY OperatesGoOn DEF Operates
<1>2. /\ Front(p) = c /\ Last(p) = ops[c] + 1 /\ ops[c] \in Nat
      /\ p # << >> /\ p # Root
  BY <1>1, ContextNames DEF Kept, Root
<1>3. Performed(p)'
  BY <1>1, <1>2 DEF Performed
<1>4. ~Performed(p)
  BY <1>1, <1>2 DEF Performed
<1> QED
  BY <1>3, <1>4

(***************************************************************************)
(* Where holders come from                                                 *)
(***************************************************************************)
Making(c)    == (\E state : Creates(c, state)) \/ CreatesBeneath(c)
Capturing(c) == Making(c) \/ Publishes(c)

CaptureOf(c, d) == OutcomeOf(handles[<<c, d>>], RequestsOf(c)[d], Append(Place(c), d))

HandleStays(k) == k \in DOMAIN handles /\ handles'[k] = handles[k]

HandleLeft(c, k) ==
  /\ Capturing(c) /\ k[2] \in Requested(c)
  /\ k = <<c, k[2]>> /\ Served(handles, <<c, k[2]>>, RequestsOf(c)[k[2]])
  /\ handles'[k] = CaptureOf(c, k[2]).source

HandleCaptured(c, k) ==
  /\ Making(c) /\ k[2] \in Requested(c)
  /\ k = <<Place(c), k[2]>> /\ Served(handles, <<c, k[2]>>, RequestsOf(c)[k[2]])
  /\ handles'[k] = CaptureOf(c, k[2]).captured

HandleFetched(t, k) ==
  /\ t \in Contexts /\ Fetch(t)
  /\ k = <<t, k[2]>> /\ k[2] \in FetchedElements(t)
  /\ handles'[k] = FetchedUse(collections[Front(t)], Front(t), k[2])

HandleShared(w, k) ==
  /\ w \in Contexts /\ IsWork(w) /\ k[1] \in IndexTasks(w) \ Contexts
  /\ k = <<k[1], Parameter>> /\ <<w, Parameter>> \in DOMAIN handles
  /\ handles'[k] = SharedReadUse(handles[<<w, Parameter>>])

HandleLocal(w, k) ==
  /\ w \in Contexts /\ IsWork(w) /\ k[1] \in IndexTasks(w) \ Contexts
  /\ k = <<k[1], k[2]>> /\ k[2] \in LocalElements(k[1]) /\ k[2] # Parameter
  /\ handles'[k] = LocalUse(collections[w], k[2])

HandleCame(k) ==
  \/ HandleStays(k)
  \/ \E c : HandleLeft(c, k) \/ HandleCaptured(c, k)
  \/ \E t : HandleFetched(t, k)
  \/ \E w : HandleShared(w, k) \/ HandleLocal(w, k)

\* The data of captures, and by whom they are made.
LEMMA CapturingIs ==
  ASSUME Kept, NEW c, Capturing(c)
  PROVE  /\ c \in Contexts /\ status[c] = "running" /\ HasOperation(c)
         /\ Requested(c) \subseteq (IF IsIndexTask(c) THEN Elements ELSE {Parameter})
         /\ \E made, state : Operates(c, made, state)
         /\ IsIndexTask(c) <=> ~\E state : Creates(c, state)
         /\ Publishes(c) =>
              Requested(c) = PublishedElements(c) /\ RequestsOf(c)
                = [e \in PublishedElements(c) |-> Perms(None, Read)]
         /\ Making(c) => HandlesTaken(c)
<1>1. ASSUME NEW state, Creates(c, state)
      PROVE  /\ ~IsIndexTask(c) /\ HasOperation(c) /\ Operates(c, {Place(c)}, state)
             /\ Requested(c) \subseteq {Parameter} /\ HandlesTaken(c)
  BY <1>1 DEF Creates
<1>2. ASSUME CreatesBeneath(c)
      PROVE  /\ IsIndexTask(c) /\ HasOperation(c) /\ Operates(c, {Place(c)}, "pending")
             /\ Requested(c) \subseteq Elements /\ HandlesTaken(c)
             /\ Operation(c).do \in {"child", "allreduce"}
  BY <1>2 DEF CreatesBeneath
<1>3. ASSUME Publishes(c)
      PROVE  /\ IsIndexTask(c) /\ HasOperation(c) /\ Operates(c, {}, "pending")
             /\ PublishedElements(c) \subseteq Elements
             /\ Requested(c) = PublishedElements(c)
             /\ RequestsOf(c) = [e \in PublishedElements(c) |-> Perms(None, Read)]
             /\ Operation(c).do = "publish"
  <2>1. /\ IsIndexTask(c) /\ HasOperation(c) /\ Operates(c, {}, "pending")
        /\ PublishedElements(c) \subseteq Elements /\ Operation(c).do = "publish"
    BY <1>3 DEF Publishes
  <2>2. RequestsOf(c) = [e \in PublishedElements(c) |-> Perms(None, Read)]
    BY <2>1 DEF RequestsOf
  <2>3. Perms(None, Read) # NoRequest
    BY DEF NoRequest, Perms, None, Read
  <2>4. Requested(c) = PublishedElements(c)
    BY <2>2, <2>3 DEF Requested
  <2> QED
    BY <2>1, <2>2, <2>4
<1>4. ASSUME NEW made, NEW state, Operates(c, made, state)
      PROVE  c \in Contexts /\ status[c] = "running"
  BY <1>4 DEF Operates
<1>5. ~(CreatesBeneath(c) /\ Publishes(c))
  BY <1>2, <1>3
<1>6. CASE \E state : Creates(c, state)
  <2>1. PICK state : Creates(c, state)
    BY <1>6
  <2>2. ~Publishes(c) /\ ~CreatesBeneath(c)
    BY <1>1, <1>2, <1>3, <2>1
  <2> QED
    BY <1>1, <1>4, <1>6, <2>1, <2>2 DEF Making
<1>7. CASE ~\E state : Creates(c, state)
  <2>1. CASE CreatesBeneath(c)
    BY <1>2, <1>4, <1>5, <1>7, <2>1
  <2>2. CASE ~CreatesBeneath(c)
    <3>1. Publishes(c) /\ ~Making(c)
      BY <1>7, <2>2 DEF Making, Capturing
    <3> QED
      BY <1>3, <1>4, <1>7, <3>1
  <2> QED
    BY <2>1, <2>2
<1> QED
  BY <1>6, <1>7

\* Whence single holders are after a step.
LEMMA HandlesCome ==
  ASSUME Kept, AnyStep
  PROVE  \A k \in DOMAIN handles' : HandleCame(k)
<1>1. ASSUME NEW c, Making(c), NEW k \in DOMAIN handles' PROVE HandleCame(k)
  <2>1. HandlesTaken(c) /\ c \in Contexts /\ status[c] = "running" /\ Capturing(c)
    BY <1>1, CapturingIs DEF Capturing
  <2>2. CASE k \in DOMAIN handles
    <3>1. CASE k[1] = c /\ k[2] \in Requested(c)
      <4>1. k = <<c, k[2]>>
        BY <2>2, <3>1 DEF Kept, HoldersKept
      <4>2. Taken(handles, handles', <<c, k[2]>>, <<Place(c), k[2]>>, RequestsOf(c)[k[2]],
                  Append(Place(c), k[2]))
        BY <2>1, <3>1 DEF HandlesTaken
      <4>3. handles'[k] = CaptureOf(c, k[2]).source
            /\ Served(handles, <<c, k[2]>>, RequestsOf(c)[k[2]])
        BY <4>1, <4>2 DEF Taken, CaptureOf
      <4>4. HandleLeft(c, k)
        BY <2>1, <3>1, <4>1, <4>3 DEF HandleLeft
      <4> QED
        BY <4>4 DEF HandleCame
    <3>2. CASE ~(k[1] = c /\ k[2] \in Requested(c))
      BY <2>1, <2>2, <3>2 DEF HandlesTaken, HandleCame, HandleStays
    <3> QED
      BY <3>1, <3>2
  <2>3. CASE k \notin DOMAIN handles
    <3>1. PICK d \in Requested(c) : k = <<Place(c), d>>
      BY <2>1, <2>3 DEF HandlesTaken
    <3>2. k[2] = d /\ k = <<Place(c), k[2]>>
      BY <3>1
    <3>3. Taken(handles, handles', <<c, d>>, <<Place(c), d>>, RequestsOf(c)[d], Append(Place(c), d))
      BY <2>1 DEF HandlesTaken
    <3>4. handles'[k] = CaptureOf(c, d).captured /\ Served(handles, <<c, d>>, RequestsOf(c)[d])
      BY <3>1, <3>3 DEF Taken, CaptureOf
    <3>5. HandleCaptured(c, k)
      BY <1>1, <3>2, <3>4 DEF HandleCaptured
    <3> QED
      BY <3>5 DEF HandleCame
  <2> QED
    BY <2>2, <2>3
<1>2. ASSUME NEW t, Publishes(t), NEW k \in DOMAIN handles' PROVE HandleCame(k)
  <2>1. /\ DOMAIN handles' = DOMAIN handles
        /\ \A e \in PublishedElements(t) :
             /\ Served(handles, <<t, e>>, Perms(None, Read))
             /\ handles'[<<t, e>>] =
                  OutcomeOf(handles[<<t, e>>], Perms(None, Read), Append(Place(t), e)).source
        /\ \A x \in DOMAIN handles :
             handles'[x] = handles[x] \/ (x[1] = t /\ x[2] \in PublishedElements(t))
    BY <1>2 DEF Publishes
  <2>2. /\ Capturing(t) /\ Requested(t) = PublishedElements(t)
        /\ RequestsOf(t) = [e \in PublishedElements(t) |-> Perms(None, Read)]
    <3>1. Capturing(t)
      BY <1>2 DEF Capturing
    <3> QED
      BY <1>2, <3>1, CapturingIs
  <2>3. CASE k[1] = t /\ k[2] \in PublishedElements(t)
    <3>1. k = <<t, k[2]>>
      BY <2>1, <2>3 DEF Kept, HoldersKept
    <3>2. RequestsOf(t)[k[2]] = Perms(None, Read)
      BY <2>2, <2>3
    <3>3. HandleLeft(t, k)
      BY <2>1, <2>2, <2>3, <3>1, <3>2 DEF HandleLeft, CaptureOf
    <3> QED
      BY <3>3 DEF HandleCame
  <2>4. CASE ~(k[1] = t /\ k[2] \in PublishedElements(t))
    BY <2>1, <2>4 DEF HandleCame, HandleStays
  <2> QED
    BY <2>3, <2>4
<1>3. ASSUME NEW t \in Contexts, Fetch(t), NEW k \in DOMAIN handles' PROVE HandleCame(k)
  <2> DEFINE over == [x \in {<<t, e>> : e \in FetchedElements(t)} |->
                        FetchedUse(collections[Front(t)], Front(t), x[2])]
  <2>1. handles' = With(handles, over)
    BY <1>3 DEF Fetch
  <2>2. CASE k \in DOMAIN over
    <3>1. PICK e \in FetchedElements(t) : k = <<t, e>>
      BY <2>2
    <3>2. k[2] = e /\ k = <<t, k[2]>>
      BY <3>1
    <3>3. over[k] = FetchedUse(collections[Front(t)], Front(t), k[2])
      BY <2>2
    <3> HIDE DEF over
    <3>4. handles'[k] = over[k]
      BY <2>1, <2>2 DEF With
    <3>5. HandleFetched(t, k)
      BY <1>3, <3>2, <3>3, <3>4 DEF HandleFetched
    <3> QED
      BY <3>5 DEF HandleCame
  <2>3. CASE k \notin DOMAIN over
    <3> HIDE DEF over
    <3> QED
      BY <2>1, <2>3 DEF With, HandleCame, HandleStays
  <2> QED
    BY <2>2, <2>3
<1>4. ASSUME NEW w \in Contexts, CreateTaskForIndex(w), NEW k \in DOMAIN handles'
      PROVE  HandleCame(k)
  <2>1. PICK t \in IndexTasks(w) \ Contexts :
          handles' =
            With(IF <<w, Parameter>> \in DOMAIN handles
                 THEN With(handles,
                           Single(<<t, Parameter>>, SharedReadUse(handles[<<w, Parameter>>])))
                 ELSE handles,
                 [x \in {<<t, e>> : e \in LocalElements(t)} |-> LocalUse(collections[w], x[2])])
    BY <1>4 DEF CreateTaskForIndex
  <2> DEFINE shared == Single(<<t, Parameter>>, SharedReadUse(handles[<<w, Parameter>>]))
             before == IF <<w, Parameter>> \in DOMAIN handles THEN With(handles, shared) ELSE handles
             over == [x \in {<<t, e>> : e \in LocalElements(t)} |-> LocalUse(collections[w], x[2])]
  <2>2. handles' = With(before, over)
    BY <2>1
  <2>3. IsWork(w)
    BY <1>4 DEF CreateTaskForIndex
  <2>4. CASE k \in DOMAIN over
    <3>1. PICK e \in LocalElements(t) : k = <<t, e>>
      BY <2>4
    <3>2. k[1] = t /\ k[2] = e /\ k = <<k[1], k[2]>>
      BY <3>1
    <3>3. e \in Elements
      BY <2>3, TakersOfElements DEF Kept, ContextsKept
    <3>4. e # Parameter
      BY <3>3, ElementsAreNumbers
    <3>5. over[k] = LocalUse(collections[w], k[2])
      BY <2>4
    <3> HIDE DEF over, before
    <3>6. handles'[k] = over[k]
      BY <2>2, <2>4 DEF With
    <3>7. HandleLocal(w, k)
      BY <2>3, <3>1, <3>2, <3>4, <3>5, <3>6 DEF HandleLocal
    <3> QED
      BY <3>7 DEF HandleCame
  <2>5. CASE k \notin DOMAIN over
    <3>1. k \in DOMAIN before /\ handles'[k] = before[k]
      <4> HIDE DEF over, before
      <4> QED
        BY <2>2, <2>5 DEF With
    <3>2. CASE <<w, Parameter>> \in DOMAIN handles /\ k = <<t, Parameter>>
      <4>1. before[k] = SharedReadUse(handles[<<w, Parameter>>])
        BY <3>2 DEF With, Single
      <4>2. k[1] = t /\ k = <<k[1], Parameter>>
        BY <3>2
      <4> HIDE DEF before
      <4>3. HandleShared(w, k)
        BY <2>3, <3>1, <3>2, <4>1, <4>2 DEF HandleShared
      <4> QED
        BY <4>3 DEF HandleCame
    <3>3. CASE <<w, Parameter>> \in DOMAIN handles /\ k # <<t, Parameter>>
      <4>1. before[k] = handles[k] /\ k \in DOMAIN handles
        BY <3>1, <3>3 DEF With, Single
      <4> QED
        BY <3>1, <4>1 DEF HandleCame, HandleStays
    <3>4. CASE <<w, Parameter>> \notin DOMAIN handles
      BY <3>1, <3>4 DEF HandleCame, HandleStays
    <3> QED
      BY <3>2, <3>3, <3>4
  <2> QED
    BY <2>4, <2>5
<1>5. ASSUME NEW gone, handles' = Without(handles, gone), NEW k \in DOMAIN handles'
      PROVE  HandleCame(k)
  BY <1>5 DEF Without, HandleCame, HandleStays
<1>6. ASSUME handles' = handles, NEW k \in DOMAIN handles' PROVE HandleCame(k)
  BY <1>6 DEF HandleCame, HandleStays
<1>7. CASE \E c \in Contexts : DropTaskCollection(c) \/ EndTask(c)
  BY <1>5, <1>7 DEF DropTaskCollection, EndTask
<1>8. CASE \/ \E contexts : RunsReady(contexts)
           \/ \E p \in DOMAIN publications : ReleasePublication(p)
           \/ UNCHANGED vars
  BY <1>6, <1>8 DEF RunsReady, RunsPending, Run, ReleasePublication, vars
<1> QED
  BY <1>1, <1>2, <1>3, <1>4, <1>7, <1>8 DEF AnyStep, Making

WholeCapture(c) == OutcomeOf(collections[c], RequestOfWhole(c), Place(c))

WholeCaptured(c) ==
  /\ \E state : Creates(c, state)
  /\ RequestOfWhole(c) # NoRequest
  /\ Served(collections, c, RequestOfWhole(c))

CollectionCame(x) ==
  \/ x \in DOMAIN collections /\ collections'[x] = collections[x]
  \/ WholeCaptured(x) /\ collections'[x] = WholeCapture(x).source
  \/ \E c : WholeCaptured(c) /\ x = Place(c) /\ collections'[x] = WholeCapture(c).captured

\* Whence the holders of the whole collection are after a step.
LEMMA CollectionsCome ==
  ASSUME Kept, AnyStep
  PROVE  /\ \A x \in DOMAIN collections' : CollectionCame(x)
         /\ \A w \in Contexts : IsWork(w) /\ w \in DOMAIN collections' =>
              w \in DOMAIN collections /\ collections'[w] = collections[w]
<1>1. ASSUME NEW c, NEW state, Creates(c, state), NEW x \in DOMAIN collections'
      PROVE  CollectionCame(x)
  <2>1. TakenOnce(collections, collections', c, Place(c), RequestOfWhole(c), Place(c))
    BY <1>1 DEF Creates, WholeTaken
  <2>2. CASE RequestOfWhole(c) = NoRequest
    BY <2>1, <2>2 DEF TakenOnce, CollectionCame
  <2>3. CASE RequestOfWhole(c) # NoRequest
    <3>1. /\ DOMAIN collections' = DOMAIN collections \cup {Place(c)}
          /\ Taken(collections, collections', c, Place(c), RequestOfWhole(c), Place(c))
          /\ \A y \in DOMAIN collections \ {c} : collections'[y] = collections[y]
      BY <2>1, <2>3 DEF TakenOnce
    <3>2. WholeCaptured(c)
      BY <1>1, <2>3, <3>1 DEF WholeCaptured, Taken
    <3>3. /\ collections'[c] = WholeCapture(c).source
          /\ collections'[Place(c)] = WholeCapture(c).captured
      BY <3>1 DEF Taken, WholeCapture
    <3> QED
      BY <3>1, <3>2, <3>3 DEF CollectionCame
  <2> QED
    BY <2>2, <2>3
<1>2. ASSUME NEW gone, collections' = Without(collections, gone), NEW x \in DOMAIN collections'
      PROVE  CollectionCame(x)
  BY <1>2 DEF Without, CollectionCame
<1>3. ASSUME collections' = collections, NEW x \in DOMAIN collections' PROVE CollectionCame(x)
  BY <1>3 DEF CollectionCame
<1>4. ASSUME NEW c \in Contexts, DropTaskCollection(c) \/ EndTask(c), NEW x \in DOMAIN collections'
      PROVE  CollectionCame(x)
  <2>1. (\E gone : collections' = Without(collections, gone)) \/ collections' = collections
    BY <1>4 DEF DropTaskCollection, EndTask
  <2> QED
    BY <1>2, <1>3, <2>1
<1>5. ASSUME NEW x \in DOMAIN collections' PROVE CollectionCame(x)
  BY <1>1, <1>3, <1>4, <1>5 DEF AnyStep, CreatesBeneath, Publishes, Fetch, CreateTaskForIndex,
     RunsReady, RunsPending, Run, ReleasePublication, vars
<1>6. ASSUME NEW w \in Contexts, IsWork(w), w \in DOMAIN collections'
      PROVE  w \in DOMAIN collections /\ collections'[w] = collections[w]
  <2>1. ASSUME NEW c, WholeCaptured(c) PROVE w # c /\ w # Place(c)
    <3>1. PICK state : Creates(c, state)
      BY <2>1 DEF WholeCaptured
    <3>2. c \in Contexts /\ status[c] = "running"
      BY <3>1 DEF Creates, Operates
    <3> QED
      BY <1>6, <3>2, PlaceIsNew DEF Kept
  <2>2. CollectionCame(w)
    BY <1>5, <1>6
  <2> QED
    BY <2>1, <2>2 DEF CollectionCame
<1> QED
  BY <1>5, <1>6

(***************************************************************************)
(* Flows are of the datum they are captured for                            *)
(***************************************************************************)
\* The sets of flows are apart, and a flow is of one datum.
LEMMA FlowSetsApart ==
  /\ \A f \in FetchFlows : f \notin WholeFlows /\ f \notin ElementFlows /\ f # NoFlow
  /\ \A f \in WholeFlows : f \notin ElementFlows
  /\ NoFlow \in WholeFlows /\ NoFlow \notin ElementFlows
<1>1. \A f \in FetchFlows : DOMAIN f = {"owner", "place", "element", "version"}
  BY DEF FetchFlows
<1>2. \A f \in ElementFlows : DOMAIN f = {"owner", "place", "element"}
  BY DEF ElementFlows
<1>3. DOMAIN NoFlow = {"owner", "place"}
  BY DEF NoFlow, Flow
<1>4. \A f \in WholeFlows : DOMAIN f = {"owner", "place"}
  BY <1>3 DEF WholeFlows
<1>5. {"owner", "place"} # {"owner", "place", "element"}
      /\ {"owner", "place"} # {"owner", "place", "element", "version"}
      /\ {"owner", "place", "element"} # {"owner", "place", "element", "version"}
  <2>1. "element" \notin {"owner", "place"} /\ "version" \notin {"owner", "place", "element"}
        /\ "element" \in {"owner", "place", "element"}
        /\ "element" \in {"owner", "place", "element", "version"}
        /\ "version" \in {"owner", "place", "element", "version"}
    OBVIOUS
  <2> QED
    BY <2>1
<1>6. NoFlow \in WholeFlows
  BY DEF WholeFlows
<1> HIDE DEF NoFlow
<1> QED
  BY <1>1, <1>2, <1>3, <1>4, <1>5, <1>6

\* A flow is of one datum at most, and none of a datum was fetched.
LEMMA OwnedIsApart ==
  ASSUME NEW f, NEW d
  PROVE  /\ IsFlowOf(f, d) => /\ f \in (WholeFlows \cup ElementFlows) \ {NoFlow} /\ f \notin FetchFlows
                              /\ \A e : IsFlowOf(f, e) => e = d
         /\ IsFlowOf(f, d)' => /\ f \in (WholeFlows \cup ElementFlows) \ {NoFlow}
                               /\ f \notin FetchFlows
                               /\ \A e : IsFlowOf(f, e)' => e = d
BY FlowSetsApart DEF IsFlowOf

\* What has flows of a datum is not what was fetched.
LEMMA OwnedNotFetched ==
  ASSUME NEW u, NEW d
  PROVE  /\ HasFlowsOf(u, d) => ~Fetched(u)
         /\ HasFlowsOf(u, d)' => ~Fetched(u)
BY OwnedIsApart, FlowSetsApart DEF HasFlowsOf, Fetched

\* A capture from what has flows of its datum makes and leaves such.
LEMMA CaptureOwned ==
  ASSUME Kept, ContextsGoOn, NEW c, Capturing(c), NEW d \in Requested(c),
         Served(handles, <<c, d>>, RequestsOf(c)[d]),
         HasFlowsOf(handles[<<c, d>>].use, d),
         NEW u, u \in {CaptureOf(c, d).captured.use, CaptureOf(c, d).source.use}
  PROVE  HasFlowsOf(u, d)'
<1> DEFINE owner == Append(Place(c), d)
           flows == {NoFlow} \cup {f \in AllFlows : IsFlowOf(f, d)'}
<1>1. c \in Contexts /\ (\E made, state : Operates(c, made, state)) /\ d \in Data /\ d \in Nat
  BY CapturingIs, ElementsAreNumbers
<1>2. /\ Place(c) \in Seq(Nat) /\ owner \in Seq(Nat) /\ owner # << >>
      /\ Front(owner) = Place(c) /\ Last(owner) = d
  <2>1. Place(c) \in Seq(Nat)
    BY <1>1, ContextNames DEF Kept
  <2> QED
    BY <1>1, <2>1, NamesMade
<1>3. \A p : p = Place(c) => Performed(p)'
  BY <1>1, NowPerformed
<1>4. ASSUME NEW place \in FlowPlaces PROVE Flow(owner, place) \in flows
  <2> DEFINE f == Flow(owner, place)
  <2>1. f \in WholeFlows /\ f.owner = owner /\ f.place = place
    BY <1>2 DEF WholeFlows, Flow
  <2>2. f # NoFlow
    BY <2>1 DEF NoFlow, Flow, FlowPlaces, Places
  <2>3. ASSUME NEW g, g = f PROVE IsFlowOf(g, d)'
    <3>1. g \in WholeFlows \ {NoFlow} /\ g.owner # << >> /\ Last(g.owner) = d
          /\ Front(g.owner) = Place(c)
      BY <1>2, <2>1, <2>2, <2>3
    <3>2. \A p : p = Front(g.owner) => Performed(p)'
      BY <1>3, <3>1
    <3>3. Performed(Front(g.owner))'
      BY <3>2
    <3> QED
      BY <3>1, <3>3 DEF IsFlowOf
  <2>4. f \in AllFlows
    BY <2>1 DEF AllFlows
  <2> HIDE DEF f
  <2> QED
    BY <2>3, <2>4 DEF f
<1>5. HasMadeBy(flows, owner)
  BY <1>4 DEF HasMadeBy
<1>6. IsHolderOf(handles[<<c, d>>], flows)
  <2>1. <<c, d>> \in DOMAIN handles
    BY DEF Served
  <2>2. IsHolderOf(handles[<<c, d>>], AllFlows)
    BY <2>1 DEF Kept, HoldersKept, HoldersHave
  <2>3. \A f : IsFlowOf(f, d) => IsFlowOf(f, d)'
    BY FlowsStayOwned
  <2> QED
    BY <2>2, <2>3 DEF IsHolderOf, HasFlows, HasFlowsOf
<1>7. /\ IsHolderOf(CaptureOf(c, d).captured, flows)
      /\ IsHolderOf(CaptureOf(c, d).source, flows)
  <2>1. <<PermissionsOf(handles[<<c, d>>].use), RequestsOf(c)[d]>> \in DOMAIN CaseFor
    BY DEF Served
  <2> HIDE DEF flows
  <2> QED
    BY <1>5, <1>6, <2>1, OutcomeTyped DEF CaptureOf
<1>8. HasFlows(u, flows)
  BY <1>7 DEF IsHolderOf
<1> QED
  BY <1>8 DEF HasFlows, HasFlowsOf

\* The shape of what steps capture.
LEMMA CaptureShaped ==
  ASSUME HoldersInShape, NEW c, NEW d, Served(handles, <<c, d>>, RequestsOf(c)[d])
  PROVE  OutcomeInShape(handles[<<c, d>>], RequestsOf(c)[d],
                        CaptureOf(c, d).captured, CaptureOf(c, d).source)
<1>1. /\ <<c, d>> \in DOMAIN handles
      /\ <<PermissionsOf(handles[<<c, d>>].use), RequestsOf(c)[d]>> \in DOMAIN CaseFor
  BY DEF Served
<1>2. IsHolderInShape(handles[<<c, d>>])
  BY <1>1 DEF HoldersInShape
<1> QED
  BY <1>1, <1>2, OutcomeShaped DEF CaptureOf

\* So it is for a capture of the whole collection.
LEMMA WholeCaptureShaped ==
  ASSUME HoldersInShape, NEW c, WholeCaptured(c)
  PROVE  OutcomeInShape(collections[c], RequestOfWhole(c),
                        WholeCapture(c).captured, WholeCapture(c).source)
<1>1. /\ c \in DOMAIN collections
      /\ <<PermissionsOf(collections[c].use), RequestOfWhole(c)>> \in DOMAIN CaseFor
  BY DEF Served, WholeCaptured
<1>2. IsHolderInShape(collections[c])
  BY <1>1 DEF HoldersInShape
<1> QED
  BY <1>1, <1>2, OutcomeShaped DEF WholeCapture

\* What a work asks for.
LEMMA WorkRequests ==
  ASSUME Kept, NEW c, NEW state, Creates(c, state), IsWork(Place(c))
  PROVE  /\ "write" \in RequestOfWhole(c).scheduling => "write" \in RequestOfWhole(c).immediate
         /\ "write" \notin RequestsOf(c)[Parameter].scheduling \cup RequestsOf(c)[Parameter].immediate
<1>1. /\ Place(c) \in DOMAIN program /\ program[Place(c)].do = "work"
      /\ Operation(c) = program[Place(c)]
  BY DEF Creates, IsWork
<1>2. program \in Programs
  BY DEF Kept, ContextsKept, Named
<1>3. /\ "write" \in program[Place(c)].request.scheduling =>
           "write" \in program[Place(c)].request.immediate
      /\ "write" \notin program[Place(c)].shared.scheduling \cup program[Place(c)].shared.immediate
  BY <1>1, <1>2, ProgramsAssumption
<1>4. RequestOfWhole(c) = program[Place(c)].request
      /\ RequestsOf(c) = Single(Parameter, program[Place(c)].shared)
  BY <1>1 DEF RequestOfWhole, RequestsOf
<1>5. RequestsOf(c)[Parameter] = program[Place(c)].shared
  BY <1>4 DEF Single
<1> QED
  BY <1>3, <1>4, <1>5

\* What is fetched, and its shape.
LEMMA FetchIs ==
  ASSUME Kept, FetchesKept, NEW t \in Contexts, Fetch(t), NEW e \in FetchedElements(t)
  PROVE  LET w == Front(t)
             fetched == FetchedUse(collections[w], w, e)
         IN  /\ w \in Contexts /\ IsWork(w) /\ t \in IndexTasks(w) /\ w \in DOMAIN collections
             /\ IsIndexTask(t) /\ status[t] = "running" /\ w \in Seq(Nat)
             /\ e \in Elements /\ e \notin LocalElements(t) /\ Last(t) \in program[w].readers[e]
             /\ fetched.use.in = VersionIn(w, e) /\ fetched.use.anti_out = VersionAnti(w, e)
             /\ VersionIn(w, e) \in FetchFlows
             /\ VersionIn(w, e).version = w /\ VersionIn(w, e).element = e
             /\ fetched.use.out = NoFlow /\ fetched.use.anti_in = NoFlow
             /\ PermissionsOf(fetched.use) = Perms(Read, None)
             /\ MayNotWrite(fetched.use) /\ IsHolderInShape(fetched) /\ ~fetched.could_be_alias
<1> DEFINE w == Front(t)
           fetched == FetchedUse(collections[w], w, e)
<1>1. About(t, "fetch") /\ FetchedElements(t) \cap LocalElements(t) = {}
  BY DEF Fetch
<1>2. /\ t \in Contexts /\ status[t] = "running" /\ IsIndexTask(t)
      /\ w \in Contexts /\ IsWork(w) /\ t \in IndexTasks(w)
  BY <1>1, AboutIndex DEF Kept
<1>3. w \in DOMAIN collections /\ w \in Seq(Nat) /\ IsHolderOf(collections[w], WholeFlows)
  BY <1>2, WorkIsThere
<1>4. e \in Elements /\ e \notin LocalElements(t) /\ Last(t) \in program[w].readers[e]
  BY <1>1, <1>2, TakersOfElements DEF FetchedElements, Kept, ContextsKept
<1>5. /\ fetched.use.in = VersionIn(w, e) /\ fetched.use.anti_out = VersionAnti(w, e)
      /\ fetched.use.out = NoFlow /\ fetched.use.anti_in = NoFlow
      /\ fetched.could_be_alias = FALSE
  BY <1>3, <1>4, FetchedIs DEF VersionIn, VersionAnti
<1>6. VersionIn(w, e) \in FetchFlows
  <2>1. collections[w].use.in \in WholeFlows /\ collections[w].use.in # NoFlow
    BY <1>3 DEF IsHolderOf, HasFlows, FetchesKept
  <2> QED
    BY <1>3, <1>4, <2>1, PartsAreFlows DEF VersionIn
<1>7. VersionIn(w, e).version = w /\ VersionIn(w, e).element = e
  <2>1. collections[w].use.in # NoFlow
    BY <1>3 DEF FetchesKept
  <2> QED
    BY <2>1 DEF VersionIn, Fetching
<1>8. PermissionsOf(fetched.use) = Perms(Read, None) /\ fetched.use.scheduling = Read
      /\ fetched.use.immediate = None
  BY DEF FetchedUse, Holder, MakeUse, PermissionsOf, Perms
<1> HIDE DEF fetched
<1>9. MayNotWrite(fetched.use)
  BY <1>8 DEF MayNotWrite, Read, None
<1>10. IsHolderInShape(fetched)
  <2>1. Perms(Read, None) \in FrontEndPairs
    BY DEF FrontEndPairs, FrontEndPermissions, PermissionsAmong, Perms, None, Read, Modify
  <2> QED
    BY <1>5, <1>8, <1>9, <2>1 DEF IsHolderInShape, InShape, MayNotWrite
<1> HIDE DEF w
<1> QED
  BY <1>2, <1>3, <1>4, <1>5, <1>6, <1>7, <1>8, <1>9, <1>10 DEF w, fetched

\* Index tasks get uses of the shape of what their work captured.
LEMMA LocalShaped ==
  ASSUME NEW holder, IsHolderOf(holder, WholeFlows), IsHolderInShape(holder),
         ~holder.could_be_alias, NEW e \in Elements
  PROVE  /\ IsHolderInShape(LocalUse(holder, e))
         /\ LocalUse(holder, e).use.scheduling = holder.use.scheduling
         /\ LocalUse(holder, e).use.immediate = holder.use.immediate
<1> DEFINE view == ElementView(holder.use, e)
           local == LocalUse(holder, e)
<1>1. /\ view.scheduling = holder.use.scheduling /\ view.immediate = holder.use.immediate
      /\ DOMAIN view = DOMAIN holder.use
  BY ViewOf
<1>2. {"out", "anti_in", "scheduling", "immediate"} \subseteq DOMAIN view
  BY <1>1 DEF IsHolderOf, HasFields
<1>3. local.could_be_alias = FALSE
  BY LocalIs
<1>4. local.use.scheduling = view.scheduling /\ local.use.immediate = view.immediate
  <2>1. local = IF "write" \in view.scheduling \cup view.immediate THEN Holder(view, FALSE)
                ELSE Holder([view EXCEPT !.out = NoFlow, !.anti_in = NoFlow], FALSE)
    BY DEF LocalUse
  <2>2. [view EXCEPT !.out = NoFlow, !.anti_in = NoFlow].scheduling = view.scheduling
        /\ [view EXCEPT !.out = NoFlow, !.anti_in = NoFlow].immediate = view.immediate
    BY <1>2
  <2> HIDE DEF view, local
  <2> QED
    BY <2>1, <2>2 DEF Holder
<1>5. IsHolderInShape(local)
  <2> HIDE DEF view, local
  <2> QED
    BY <1>1, <1>3, <1>4 DEF IsHolderInShape, InShape, PermissionsOf
<1> QED
  BY <1>1, <1>4, <1>5

\* What index tasks get of a plain handle is in shape, as it can only be read.
LEMMA SharedShaped ==
  ASSUME NEW holder, IsHolderOf(holder, AllFlows), IsHolderInShape(holder), MayNotWrite(holder.use)
  PROVE  /\ IsHolderInShape(SharedReadUse(holder))
         /\ SharedReadUse(holder).use.scheduling = holder.use.scheduling
         /\ SharedReadUse(holder).use.immediate = holder.use.immediate
         /\ MayNotWrite(SharedReadUse(holder).use)
<1> DEFINE shared == SharedReadUse(holder)
<1>1. shared.could_be_alias = FALSE
  BY SharedIs
<1>2. shared.use.scheduling = holder.use.scheduling /\ shared.use.immediate = holder.use.immediate
  <2>1. {"out", "anti_in", "scheduling", "immediate"} \subseteq DOMAIN holder.use
    BY DEF IsHolderOf, HasFields
  <2> DEFINE use == [holder.use EXCEPT !.out = NoFlow, !.anti_in = NoFlow]
  <2>2. use.scheduling = holder.use.scheduling /\ use.immediate = holder.use.immediate
    BY <2>1
  <2>3. shared.use = use
    BY DEF SharedReadUse, Holder
  <2> HIDE DEF use, shared
  <2> QED
    BY <2>2, <2>3
<1> HIDE DEF shared
<1>3. IsHolderInShape(shared) /\ MayNotWrite(shared.use)
  BY <1>1, <1>2 DEF IsHolderInShape, InShape, PermissionsOf, MayNotWrite
<1> QED
  BY <1>2, <1>3 DEF shared

(***************************************************************************)
(* Every step keeps holders apart and in shape                             *)
(***************************************************************************)
\* The invariants that make no use of what is equivalent to what.
Sound ==
  /\ Kept /\ OutsKept
  /\ HoldersApart /\ HoldersInShape /\ BeneathKept
  /\ FlowsOwned /\ FetchedAsPublished /\ PublishedAsMade /\ FetchesKept

\* What is fetched is captured from only to be read, and stays as it is.
LEMMA FetchedStays ==
  ASSUME Sound, NEW c, NEW d, Served(handles, <<c, d>>, RequestsOf(c)[d])
  PROVE  /\ Fetched(handles[<<c, d>>].use) =>
              /\ CaptureOf(c, d).source = handles[<<c, d>>]
              /\ MayNotWrite(CaptureOf(c, d).captured.use)
              /\ ~CaptureOf(c, d).captured.could_be_alias
              /\ CaptureOf(c, d).captured.use.in = handles[<<c, d>>].use.in
              /\ CaptureOf(c, d).captured.use.out = NoFlow
              /\ CaptureOf(c, d).captured.use.anti_in = NoFlow
              /\ CaptureOf(c, d).captured.use.anti_out = handles[<<c, d>>].use.anti_out
         /\ ~Fetched(handles[<<c, d>>].use) => HasFlowsOf(handles[<<c, d>>].use, d)
<1> DEFINE k == <<c, d>>
<1>1. k \in DOMAIN handles /\ k[2] = d
  BY DEF Served
<1>2. OutcomeInShape(handles[k], RequestsOf(c)[d], CaptureOf(c, d).captured, CaptureOf(c, d).source)
  BY CaptureShaped DEF Sound
<1>3. Fetched(handles[k].use) => "write" \notin handles[k].use.scheduling
  BY <1>1 DEF Sound, FetchedAsPublished, IsFetchedAs, MayNotWrite
<1>4. ~Fetched(handles[k].use) => HasFlowsOf(handles[k].use, k[2])
  BY <1>1 DEF Sound, FlowsOwned
<1> QED
  BY <1>1, <1>2, <1>3, <1>4 DEF OutcomeInShape

\* Every step keeps the holders of single data and those of collections apart.
LEMMA HoldersStayApart ==
  ASSUME Sound, AnyStep, ContextsGoOn
  PROVE  HoldersApart'
<1>1. ContextsKept /\ Kept
  BY DEF Sound, Kept
<1>2. program' = program
  BY DEF ContextsGoOn
<1>3. /\ \A c : IsWork(c)' <=> IsWork(c)
      /\ \A c : IsIndexTask(c)' <=> IsIndexTask(c)
      /\ \A c : IsBeneath(c)' <=> IsBeneath(c)
      /\ \A c : LocalElements(c)' = LocalElements(c)
  BY <1>2, NamesStay
<1>4. ASSUME NEW x \in DOMAIN collections' PROVE ~IsIndexTask(x) /\ ~IsBeneath(x)
  <2>1. CollectionCame(x)
    BY <1>1, CollectionsCome
  <2>2. CASE x \in DOMAIN collections
    BY <2>2 DEF Sound, HoldersApart
  <2>3. CASE WholeCaptured(x)
    BY <2>3 DEF Sound, HoldersApart, WholeCaptured, Served
  <2>4. ASSUME NEW c, WholeCaptured(c), x = Place(c) PROVE ~IsIndexTask(x) /\ ~IsBeneath(x)
    <3>1. c \in Contexts /\ status[c] = "running" /\ ~IsIndexTask(c)
      BY <2>4 DEF WholeCaptured, Creates, Operates
    <3> QED
      BY <1>1, <2>4, <3>1, NamesApart
  <2> QED
    BY <2>1, <2>2, <2>3, <2>4 DEF CollectionCame
<1> DEFINE Good(k) ==
      IF k[2] = Parameter
      THEN /\ ~Fetched(handles'[k].use)
           /\ IsIndexTask(k[1]) \/ IsWork(k[1]) => MayNotWrite(handles'[k].use)
      ELSE /\ IsIndexTask(k[1]) \/ IsBeneath(k[1])
           /\ IsIndexTask(k[1]) => (k[2] \in LocalElements(k[1]) <=> ~Fetched(handles'[k].use))
<1>5. ASSUME NEW k \in DOMAIN handles' PROVE Good(k)
  <2>1. HandleCame(k)
    BY <1>1, <1>5, HandlesCome
  <2>2. CASE HandleStays(k)
    BY <2>2 DEF Sound, HoldersApart, HandleStays
  <2>3. ASSUME NEW c, HandleLeft(c, k) PROVE Good(k)
    <3> DEFINE d == k[2]
    <3>1. /\ Capturing(c) /\ d \in Requested(c) /\ k = <<c, d>> /\ k[1] = c
          /\ Served(handles, <<c, d>>, RequestsOf(c)[d])
          /\ handles'[k] = CaptureOf(c, d).source /\ k \in DOMAIN handles
      BY <2>3 DEF HandleLeft, Served
    <3>2. /\ c \in Contexts /\ status[c] = "running"
          /\ d \in (IF IsIndexTask(c) THEN Elements ELSE {Parameter})
      BY <1>1, <3>1, CapturingIs
    <3>3. Fetched(handles[k].use) <=> Fetched(handles'[k].use)
      <4>1. CASE Fetched(handles[k].use)
        BY <3>1, <4>1, FetchedStays
      <4>2. CASE ~Fetched(handles[k].use)
        <5>1. HasFlowsOf(handles[<<c, d>>].use, d)
          BY <3>1, <4>2, FetchedStays
        <5>2. \A u : u = CaptureOf(c, d).source.use => HasFlowsOf(u, d)'
          BY <1>1, <3>1, <5>1, CaptureOwned
        <5>3. ~Fetched(CaptureOf(c, d).source.use)
          BY <5>2, OwnedNotFetched
        <5> QED
          BY <3>1, <4>2, <5>3
      <4> QED
        BY <4>1, <4>2
    <3>4. CASE IsIndexTask(c)
      <4>1. d # Parameter
        BY <3>2, <3>4, ElementsAreNumbers
      <4> QED
        BY <3>1, <3>3, <3>4, <4>1 DEF Sound, HoldersApart
    <3>5. CASE ~IsIndexTask(c)
      <4>1. d = Parameter /\ ~IsWork(c)
        BY <1>1, <3>2, <3>5, NamesApart
      <4> QED
        BY <3>1, <3>3, <3>5, <4>1 DEF Sound, HoldersApart
    <3> QED
      BY <3>4, <3>5
  <2>4. ASSUME NEW c, HandleCaptured(c, k) PROVE Good(k)
    <3> DEFINE d == k[2]
    <3>1. /\ Making(c) /\ Capturing(c) /\ d \in Requested(c) /\ k[1] = Place(c)
          /\ Served(handles, <<c, d>>, RequestsOf(c)[d]) /\ <<c, d>> \in DOMAIN handles
          /\ handles'[k] = CaptureOf(c, d).captured
      BY <2>4 DEF HandleCaptured, Served, Capturing
    <3>2. /\ c \in Contexts /\ status[c] = "running"
          /\ d \in (IF IsIndexTask(c) THEN Elements ELSE {Parameter})
          /\ IsIndexTask(c) <=> ~\E state : Creates(c, state)
      BY <1>1, <3>1, CapturingIs
    <3>3. CASE IsIndexTask(c)
      <4>1. d # Parameter
        BY <3>2, <3>3, ElementsAreNumbers
      <4>2. IsBeneath(Place(c)) /\ ~IsIndexTask(Place(c))
        BY <1>1, <3>2, <3>3, NamesApart
      <4> QED
        BY <3>1, <4>1, <4>2
    <3>4. CASE ~IsIndexTask(c)
      <4>1. d = Parameter /\ ~IsIndexTask(Place(c))
        BY <1>1, <3>2, <3>4, NamesApart
      <4>2. ~Fetched(handles[<<c, d>>].use)
        <5>1. <<c, d>>[2] = Parameter
          BY <4>1
        <5> QED
          BY <3>1, <5>1 DEF Sound, HoldersApart
      <4>3. ~Fetched(handles'[k].use)
        <5>1. HasFlowsOf(handles[<<c, d>>].use, d)
          BY <3>1, <4>2, FetchedStays
        <5>2. \A u : u = CaptureOf(c, d).captured.use => HasFlowsOf(u, d)'
          BY <1>1, <3>1, <5>1, CaptureOwned
        <5>3. ~Fetched(CaptureOf(c, d).captured.use)
          BY <5>2, OwnedNotFetched
        <5> QED
          BY <3>1, <5>3
      <4>4. ASSUME IsWork(Place(c)) PROVE MayNotWrite(handles'[k].use)
        <5>1. PICK state : Creates(c, state)
          BY <3>2, <3>4
        <5>2. "write" \notin RequestsOf(c)[d].scheduling \cup RequestsOf(c)[d].immediate
          BY <1>1, <4>1, <4>4, <5>1, WorkRequests
        <5>3. PermissionsOf(handles'[k].use) = RequestsOf(c)[d]
          BY <3>1, CaptureShaped DEF Sound, OutcomeInShape
        <5>4. /\ handles'[k].use.scheduling = PermissionsOf(handles'[k].use).scheduling
              /\ handles'[k].use.immediate = PermissionsOf(handles'[k].use).immediate
          BY DEF PermissionsOf, Perms
        <5> QED
          BY <5>2, <5>3, <5>4 DEF MayNotWrite
      <4> QED
        BY <3>1, <4>1, <4>3, <4>4
    <3> QED
      BY <3>3, <3>4
  <2>5. ASSUME NEW t, HandleFetched(t, k) PROVE Good(k)
    <3>1. /\ t \in Contexts /\ Fetch(t) /\ k[2] \in FetchedElements(t) /\ k[1] = t
          /\ handles'[k] = FetchedUse(collections[Front(t)], Front(t), k[2])
      BY <2>5 DEF HandleFetched
    <3>2. /\ IsIndexTask(t) /\ k[2] \in Elements /\ k[2] \notin LocalElements(t)
          /\ handles'[k].use.in \in FetchFlows
      BY <1>1, <3>1, FetchIs DEF Sound
    <3>3. k[2] # Parameter
      BY <3>2, ElementsAreNumbers
    <3> QED
      BY <3>1, <3>2, <3>3 DEF Fetched
  <2>6. ASSUME NEW w, HandleShared(w, k) PROVE Good(k)
    <3> DEFINE h == handles[<<w, Parameter>>]
    <3>1. /\ w \in Contexts /\ IsWork(w) /\ k[1] \in IndexTasks(w) /\ k[2] = Parameter
          /\ <<w, Parameter>> \in DOMAIN handles /\ handles'[k] = SharedReadUse(h)
      BY <2>6 DEF HandleShared
    <3>2. <<w, Parameter>>[1] = w /\ <<w, Parameter>>[2] = Parameter
      OBVIOUS
    <3>3. ~Fetched(h.use) /\ MayNotWrite(h.use)
      BY <3>1, <3>2 DEF Sound, HoldersApart
    <3>4. IsHolderOf(h, AllFlows) /\ IsHolderInShape(h)
      BY <3>1 DEF Sound, Kept, HoldersKept, HoldersHave, HoldersInShape
    <3>5. MayNotWrite(SharedReadUse(h).use) /\ SharedReadUse(h).use.in = h.use.in
      BY <3>3, <3>4, SharedShaped, SharedIs
    <3> QED
      BY <3>1, <3>3, <3>5 DEF Fetched
  <2>7. ASSUME NEW w, HandleLocal(w, k) PROVE Good(k)
    <3>1. /\ w \in Contexts /\ IsWork(w) /\ k[1] \in IndexTasks(w) \ Contexts
          /\ k[2] \in LocalElements(k[1]) /\ k[2] # Parameter
          /\ handles'[k] = LocalUse(collections[w], k[2])
      BY <2>7 DEF HandleLocal
    <3>2. IsIndexTask(k[1])
      BY <1>1, <3>1, NamesApart
    <3>3. k[2] \in Elements
      BY <3>1, TakersOfElements DEF Sound, Kept, ContextsKept
    <3>4. IsHolderOf(collections[w], WholeFlows)
      <4>1. w \in DOMAIN collections
        BY <3>1 DEF Sound, Kept, CollectionsHeld, Over
      <4> QED
        BY <4>1 DEF Sound, Kept, HoldersKept, HoldersHave
    <3>5. handles'[k].use.in = Indexed(collections[w].use.in, k[2])
      <4>1. LocalUse(collections[w], k[2]).use.in = Indexed(collections[w].use.in, k[2])
        BY <3>3, <3>4, LocalIs
      <4> QED
        BY <3>1, <4>1
    <3>6. collections[w].use.in \in WholeFlows /\ w \in Seq(Nat)
      BY <1>1, <3>1, <3>4, WorkNames DEF IsHolderOf, HasFlows, ContextsKept
    <3>7. handles'[k].use.in \in {NoFlow} \cup ElementFlows
      BY <3>3, <3>5, <3>6, PartsAreFlows
    <3>8. ~Fetched(handles'[k].use)
      BY <3>7, FlowSetsApart DEF Fetched
    <3> QED
      BY <3>1, <3>2, <3>8
  <2> QED
    BY <2>1, <2>2, <2>3, <2>4, <2>5, <2>6, <2>7 DEF HandleCame
<1> QED
  BY <1>3, <1>4, <1>5 DEF HoldersApart, MayNotWrite, Fetched

\* What the holders that index tasks get have of those of their work.
LEMMA LocalFrom ==
  ASSUME Sound, NEW w, NEW k, HandleLocal(w, k)
  PROVE  LET local == handles'[k]
             u == collections[w].use
         IN  /\ k[1] \notin Contexts /\ IsIndexTask(k[1]) /\ Front(k[1]) = w
             /\ k[2] \in Elements /\ k[2] \in LocalElements(k[1])
             /\ w \in DOMAIN collections /\ w \in Contexts /\ IsWork(w)
             /\ IsHolderOf(collections[w], WholeFlows) /\ IsHolderInShape(local)
             /\ local.use.scheduling = u.scheduling /\ local.use.immediate = u.immediate
             /\ local.use.in = Indexed(u.in, k[2])
             /\ local.use.out \in {NoFlow, Indexed(u.out, k[2])}
             /\ local.use.anti_in \in {NoFlow, Indexed(u.anti_in, k[2])}
             /\ local.use.anti_out = Indexed(u.anti_out, k[2])
<1> DEFINE u == collections[w].use
           e == k[2]
           local == LocalUse(collections[w], e)
<1>0. ContextsKept
  BY DEF Sound, Kept
<1>1. /\ w \in Contexts /\ IsWork(w) /\ k[1] \in IndexTasks(w) \ Contexts
      /\ e \in LocalElements(k[1]) /\ handles'[k] = local
  BY DEF HandleLocal
<1>2. IsIndexTask(k[1]) /\ Front(k[1]) = w
  BY <1>0, <1>1, NamesApart
<1>3. e \in Elements
  BY <1>1, TakersOfElements DEF Sound, Kept, ContextsKept
<1>4. w \in DOMAIN collections
  BY <1>1 DEF Sound, Kept, CollectionsHeld, Over
<1>5. IsHolderOf(collections[w], WholeFlows)
  BY <1>4 DEF Sound, Kept, HoldersKept, HoldersHave
<1>6. IsHolderInShape(collections[w]) /\ ~collections[w].could_be_alias
  BY <1>1, <1>4 DEF Sound, HoldersInShape
<1>7. /\ IsHolderInShape(local)
      /\ local.use.scheduling = u.scheduling /\ local.use.immediate = u.immediate
  BY <1>3, <1>5, <1>6, LocalShaped
<1>8. /\ local.use.in = Indexed(u.in, e)
      /\ local.use.out \in {NoFlow, Indexed(u.out, e)}
      /\ local.use.anti_in \in {NoFlow, Indexed(u.anti_in, e)}
      /\ local.use.anti_out = Indexed(u.anti_out, e)
  BY <1>3, <1>5, LocalIs
<1> HIDE DEF local
<1> QED
  BY <1>1, <1>2, <1>3, <1>4, <1>5, <1>7, <1>8

\* What an index task gets of a plain handle, and from what.
LEMMA SharedFrom ==
  ASSUME Sound, NEW w, NEW k, HandleShared(w, k)
  PROVE  LET shared == handles'[k]
             h == handles[<<w, Parameter>>]
         IN  /\ k[1] \notin Contexts /\ IsIndexTask(k[1]) /\ Front(k[1]) = w /\ k[2] = Parameter
             /\ w \in Contexts /\ IsWork(w) /\ <<w, Parameter>> \in DOMAIN handles
             /\ IsHolderInShape(shared) /\ MayNotWrite(shared.use) /\ MayNotWrite(h.use)
             /\ shared.use.scheduling = h.use.scheduling /\ shared.use.immediate = h.use.immediate
             /\ shared.use.in = h.use.in /\ shared.use.anti_out = h.use.anti_out
             /\ shared.use.out = NoFlow /\ shared.use.anti_in = NoFlow
             /\ ~Fetched(h.use)
<1> DEFINE h == handles[<<w, Parameter>>]
           shared == SharedReadUse(h)
<1>0. ContextsKept
  BY DEF Sound, Kept
<1>1. /\ w \in Contexts /\ IsWork(w) /\ k[1] \in IndexTasks(w) \ Contexts /\ k[2] = Parameter
      /\ <<w, Parameter>> \in DOMAIN handles /\ handles'[k] = shared
  BY DEF HandleShared
<1>2. IsIndexTask(k[1]) /\ Front(k[1]) = w
  BY <1>0, <1>1, NamesApart
<1>3. ~Fetched(h.use) /\ MayNotWrite(h.use)
  <2>1. <<w, Parameter>>[1] = w /\ <<w, Parameter>>[2] = Parameter
    OBVIOUS
  <2> QED
    BY <1>1, <2>1 DEF Sound, HoldersApart
<1>4. IsHolderOf(h, AllFlows) /\ IsHolderInShape(h)
  BY <1>1 DEF Sound, Kept, HoldersKept, HoldersHave, HoldersInShape
<1>5. /\ IsHolderInShape(shared) /\ MayNotWrite(shared.use)
      /\ shared.use.scheduling = h.use.scheduling /\ shared.use.immediate = h.use.immediate
  BY <1>3, <1>4, SharedShaped
<1>6. /\ shared.use.in = h.use.in /\ shared.use.anti_out = h.use.anti_out
      /\ shared.use.out = NoFlow /\ shared.use.anti_in = NoFlow
  BY <1>4, SharedIs
<1> HIDE DEF shared, h
<1> QED
  BY <1>1, <1>2, <1>3, <1>5, <1>6 DEF h

\* Publications of a step: those there were, released or not, and what is
\* published.
PublicationStays(p) ==
  /\ p \in DOMAIN publications
  /\ \/ publications'[p] = publications[p]
     \/ /\ ReleasePublication(p)
        /\ publications'[p] = [publications[p] EXCEPT !.released = TRUE]

PublicationMade(t, p) ==
  /\ Publishes(t) /\ p[2] \in PublishedElements(t) /\ p = <<Front(t), p[2]>>
  /\ p \notin DOMAIN publications
  /\ publications'[p] = PublicationOf(t, p[2])

\* Publications stay, but for being released, or are made by a step that publishes.
LEMMA PublicationsCome ==
  ASSUME Kept, OutsKept, AnyStep
  PROVE  /\ DOMAIN publications \subseteq DOMAIN publications'
         /\ \A p \in DOMAIN publications' : PublicationStays(p) \/ \E t : PublicationMade(t, p)
<1>1. ASSUME NEW t, Publishes(t)
      PROVE  /\ DOMAIN publications \subseteq DOMAIN publications'
             /\ \A p \in DOMAIN publications' : PublicationStays(p) \/ PublicationMade(t, p)
  <2> DEFINE made == {<<Front(t), e>> : e \in PublishedElements(t)}
  <2>1. /\ DOMAIN publications' = DOMAIN publications \cup made
        /\ \A e \in PublishedElements(t) : publications'[<<Front(t), e>>] = PublicationOf(t, e)
        /\ \A p \in DOMAIN publications : p \notin made => publications'[p] = publications[p]
    BY <1>1 DEF Publishes
  <2>2. About(t, "publish")
    BY <1>1 DEF Publishes, Operates, About
  <2>3. \A e \in PublishedElements(t) : <<Front(t), e>> \notin DOMAIN publications
    BY <2>2, NotYetPublished DEF PublishedElements
  <2>4. ASSUME NEW p \in DOMAIN publications' PROVE PublicationStays(p) \/ PublicationMade(t, p)
    <3>1. CASE p \in made
      <4>1. PICK e \in PublishedElements(t) : p = <<Front(t), e>>
        BY <3>1
      <4>2. p[2] = e /\ p = <<Front(t), p[2]>>
        BY <4>1
      <4> QED
        BY <1>1, <2>1, <2>3, <4>1, <4>2 DEF PublicationMade
    <3>2. CASE p \notin made
      BY <2>1, <3>2 DEF PublicationStays
    <3> QED
      BY <3>1, <3>2
  <2> QED
    BY <2>1, <2>4
<1>2. ASSUME NEW q \in DOMAIN publications, ReleasePublication(q)
      PROVE  /\ DOMAIN publications \subseteq DOMAIN publications'
             /\ \A p \in DOMAIN publications' : PublicationStays(p)
  BY <1>2 DEF ReleasePublication, PublicationStays
<1>3. ASSUME publications' = publications
      PROVE  /\ DOMAIN publications \subseteq DOMAIN publications'
             /\ \A p \in DOMAIN publications' : PublicationStays(p)
  BY <1>3 DEF PublicationStays
<1>4. \/ publications' = publications
      \/ \E t : Publishes(t)
      \/ \E p \in DOMAIN publications : ReleasePublication(p)
  BY DEF AnyStep, Creates, CreatesBeneath, Fetch, CreateTaskForIndex, DropTaskCollection, EndTask,
         RunsReady, RunsPending, Run, vars
<1>5. ASSUME NEW t, Publishes(t)
      PROVE  /\ DOMAIN publications \subseteq DOMAIN publications'
             /\ \A p \in DOMAIN publications' : PublicationStays(p) \/ \E s : PublicationMade(s, p)
  BY <1>1, <1>5
<1> QED
  BY <1>2, <1>3, <1>4, <1>5

\* Every step keeps the holders in shape.
LEMMA HoldersStayInShape ==
  ASSUME Sound, AnyStep, ContextsGoOn
  PROVE  HoldersInShape'
<1>1. ContextsKept /\ Kept /\ OutsKept /\ HoldersInShape
  BY DEF Sound, Kept
<1>2. \A c : IsWork(c)' <=> IsWork(c)
  BY NamesStay DEF ContextsGoOn
<1>3. ASSUME NEW x \in DOMAIN collections'
      PROVE  IsHolderInShape(collections'[x]) /\ (IsWork(x) => ~collections'[x].could_be_alias)
  <2>1. CollectionCame(x)
    BY <1>1, CollectionsCome
  <2>2. CASE x \in DOMAIN collections /\ collections'[x] = collections[x]
    BY <1>1, <2>2 DEF HoldersInShape
  <2>3. CASE WholeCaptured(x) /\ collections'[x] = WholeCapture(x).source
    <3>1. x \in Contexts /\ status[x] = "running"
      BY <2>3 DEF WholeCaptured, Creates, Operates
    <3> QED
      BY <1>1, <2>3, <3>1, NamesApart, WholeCaptureShaped DEF OutcomeInShape
  <2>4. ASSUME NEW c, WholeCaptured(c), x = Place(c), collections'[x] = WholeCapture(c).captured
        PROVE  IsHolderInShape(collections'[x]) /\ (IsWork(x) => ~collections'[x].could_be_alias)
    <3>1. IsHolderInShape(collections'[x]) /\ PermissionsOf(collections'[x].use) = RequestOfWhole(c)
      BY <1>1, <2>4, WholeCaptureShaped DEF OutcomeInShape
    <3>2. ASSUME IsWork(x) PROVE ~collections'[x].could_be_alias
      <4>1. PICK state : Creates(c, state)
        BY <2>4 DEF WholeCaptured
      <4>2. "write" \in RequestOfWhole(c).scheduling => "write" \in RequestOfWhole(c).immediate
        BY <1>1, <2>4, <3>2, <4>1, WorkRequests
      <4>3. /\ collections'[x].use.scheduling = PermissionsOf(collections'[x].use).scheduling
            /\ collections'[x].use.immediate = PermissionsOf(collections'[x].use).immediate
        BY DEF PermissionsOf, Perms
      <4> QED
        BY <3>1, <4>2, <4>3 DEF IsHolderInShape
    <3> QED
      BY <3>1, <3>2
  <2> QED
    BY <2>1, <2>2, <2>3, <2>4 DEF CollectionCame
<1>4. ASSUME NEW k \in DOMAIN handles' PROVE IsHolderInShape(handles'[k])
  <2>1. HandleCame(k)
    BY <1>1, <1>4, HandlesCome
  <2>2. CASE HandleStays(k)
    BY <1>1, <2>2 DEF HoldersInShape, HandleStays
  <2>3. ASSUME NEW c, HandleLeft(c, k) \/ HandleCaptured(c, k) PROVE IsHolderInShape(handles'[k])
    BY <1>1, <2>3, CaptureShaped DEF HandleLeft, HandleCaptured, OutcomeInShape
  <2>4. ASSUME NEW t, HandleFetched(t, k) PROVE IsHolderInShape(handles'[k])
    BY <1>1, <2>4, FetchIs DEF HandleFetched, Sound
  <2>5. ASSUME NEW w, HandleShared(w, k) \/ HandleLocal(w, k) PROVE IsHolderInShape(handles'[k])
    BY <2>5, SharedFrom, LocalFrom
  <2> QED
    BY <2>1, <2>2, <2>3, <2>4, <2>5 DEF HandleCame
<1>5. ASSUME NEW p \in DOMAIN publications'
      PROVE  PermissionsOf(publications'[p].use) = Perms(None, Read)
  <2>1. PublicationStays(p) \/ \E t : PublicationMade(t, p)
    BY <1>1, <1>5, PublicationsCome
  <2>2. CASE PublicationStays(p)
    <3>1. publications'[p].use = publications[p].use
      <4>1. "use" \in DOMAIN publications[p]
        BY <1>1, <2>2 DEF OutsKept, PublicationsMade, PublicationStays
      <4> QED
        BY <2>2, <4>1 DEF PublicationStays
    <3> QED
      BY <1>1, <2>2, <3>1 DEF HoldersInShape, PublicationStays
  <2>3. ASSUME NEW t, PublicationMade(t, p)
        PROVE  PermissionsOf(publications'[p].use) = Perms(None, Read)
    <3> DEFINE e == p[2]
               o == OutcomeOf(handles[<<t, e>>], Perms(None, Read), Append(Place(t), e))
    <3>1. /\ Served(handles, <<t, e>>, Perms(None, Read)) /\ publications'[p].use = o.captured.use
      BY <2>3 DEF PublicationMade, Publishes, PublicationOf
    <3>2. /\ <<t, e>> \in DOMAIN handles
          /\ <<PermissionsOf(handles[<<t, e>>].use), Perms(None, Read)>> \in DOMAIN CaseFor
      BY <3>1 DEF Served
    <3>3. IsHolderInShape(handles[<<t, e>>])
      BY <1>1, <3>2 DEF HoldersInShape
    <3>4. OutcomeInShape(handles[<<t, e>>], Perms(None, Read), o.captured, o.source)
      BY <3>2, <3>3, OutcomeShaped
    <3> QED
      BY <3>1, <3>4 DEF OutcomeInShape
  <2> QED
    BY <2>1, <2>2, <2>3
<1> QED
  BY <1>2, <1>3, <1>4, <1>5 DEF HoldersInShape, IsHolderInShape, InShape, PermissionsOf

\* What is beneath index tasks, and where publications are made.
LEMMA BeneathStays ==
  ASSUME Sound, AnyStep, ContextsGoOn
  PROVE  BeneathKept'
<1>1. ContextsKept /\ Kept /\ OutsKept /\ BeneathKept
  BY DEF Sound, Kept
<1>2. program' = program
  BY DEF ContextsGoOn
<1>3. /\ \A c : IsBeneath(c)' <=> IsBeneath(c)
      /\ \A w, e : TakerOf(w, e)' = TakerOf(w, e)
  BY <1>2, NamesStay
<1>4. ASSUME NEW c \in Contexts', IsBeneath(c)
      PROVE  program[Front(Front(c))].body[Last(c)].do \in {"child", "allreduce"}
  <2>1. CASE c \in Contexts
    BY <1>1, <1>4, <2>1 DEF BeneathKept
  <2>2. CASE c \notin Contexts
    <3>1. MadeAt(c)
      BY <2>2 DEF ContextsGoOn
    <3>2. ASSUME NEW x \in Contexts, c = Place(x), NEW state, Creates(x, state) PROVE FALSE
      <4>1. status[x] = "running" /\ ~IsIndexTask(x)
        BY <3>2 DEF Creates, Operates
      <4> QED
        BY <1>1, <1>4, <3>2, <4>1, NamesApart
    <3>3. ASSUME NEW x \in Contexts, c = Place(x), CreatesBeneath(x)
          PROVE  program[Front(Front(c))].body[Last(c)].do \in {"child", "allreduce"}
      <4>1. /\ status[x] = "running"
            /\ program[Front(x)].body[ops[x] + 1].do \in {"child", "allreduce"}
        BY <3>3 DEF CreatesBeneath, Operates
      <4>2. Front(c) = x /\ Last(c) = ops[x] + 1
        BY <1>1, <3>3, <4>1, NamesApart
      <4> QED
        BY <4>1, <4>2
    <3>4. ASSUME NEW w \in Contexts, IsWork(w), c \in IndexTasks(w) PROVE FALSE
      BY <1>1, <1>4, <3>4, NamesApart
    <3> QED
      BY <3>1, <3>2, <3>3, <3>4 DEF MadeAt
  <2> QED
    BY <2>1, <2>2
<1> DEFINE Made(p, t) ==
      \E n \in 1 .. ops'[t] :
        publications'[p].at = Append(t, n) /\ program[p[1]].body[n].do = "publish"
<1>5. ASSUME NEW p \in DOMAIN publications' PROVE Made(p, TakerOf(p[1], p[2]))
  <2> DEFINE t == TakerOf(p[1], p[2])
  <2>1. PublicationStays(p) \/ \E x : PublicationMade(x, p)
    BY <1>1, <1>5, PublicationsCome
  <2>2. CASE PublicationStays(p)
    <3>1. PICK n \in 1 .. ops[t] :
            publications[p].at = Append(t, n) /\ program[p[1]].body[n].do = "publish"
      BY <1>1, <2>2 DEF BeneathKept, PublicationStays
    <3>2. publications'[p].at = publications[p].at
      <4>1. "at" \in DOMAIN publications[p]
        BY <1>1, <2>2 DEF OutsKept, PublicationsMade, PublicationStays
      <4> QED
        BY <2>2, <4>1 DEF PublicationStays
    <3>3. t \in Contexts
      BY <1>1, <2>2 DEF OutsKept, PublicationsMade, PublicationStays
    <3>4. ops[t] \in Nat /\ ops'[t] \in Nat /\ ops[t] <= ops'[t]
      BY <1>1, <3>3 DEF ContextsGoOn, ContextsKept
    <3>5. n \in 1 .. ops'[t]
      BY <3>1, <3>4
    <3> QED
      BY <3>1, <3>2, <3>5
  <2>3. ASSUME NEW x, PublicationMade(x, p) PROVE Made(p, t)
    <3>1. /\ Publishes(x) /\ p[2] \in PublishedElements(x) /\ p[1] = Front(x)
          /\ publications'[p] = PublicationOf(x, p[2])
      BY <2>3 DEF PublicationMade
    <3>2. /\ x \in Contexts /\ status[x] = "running" /\ IsIndexTask(x)
          /\ Operates(x, {}, "pending")
          /\ program[Front(x)].body[ops[x] + 1].do = "publish"
      BY <3>1 DEF Publishes, Operates
    <3>3. Place(x) = Append(x, ops[x] + 1) /\ ops[x] \in Nat
      BY <1>1, <3>2, ContextNames
    <3>4. ops'[x] = ops[x] + 1
      BY <1>1, <3>2, OperatesGoOn
    <3>5. t = x
      <4>1. p[2] \in LocalElements(x)
        BY <3>1 DEF PublishedElements
      <4>2. IsWork(Front(x)) /\ x \in IndexTasks(Front(x)) /\ Named
        BY <1>1, <3>2, IndexTasksNamed DEF ContextsKept
      <4>3. p[2] \in Elements
        BY <4>1, <4>2, TakersOfElements
      <4>4. x = TakerOf(Front(x), p[2])
        BY <4>1, <4>2, <4>3, TakersOfElements
      <4> QED
        BY <3>1, <4>4
    <3>6. publications'[p].at = Append(x, ops[x] + 1)
      BY <3>1, <3>3 DEF PublicationOf
    <3> QED
      BY <3>1, <3>2, <3>3, <3>4, <3>5, <3>6
  <2> QED
    BY <2>1, <2>2, <2>3
<1> QED
  BY <1>2, <1>3, <1>4, <1>5 DEF BeneathKept

(***************************************************************************)
(* Aliases are between flows of one datum                                  *)
(***************************************************************************)
AliasesOwned ==
  \A f \in DOMAIN alias :
    f \in FetchFlows \/ \E d \in Data : IsFlowOf(f, d) /\ IsFlowOf(alias[f], d)

\* A link is between flows of one datum, or gives what is fetched a meaning.
LinkOwned(l) ==
  \/ NoFlow \in {l[1], l[2]}
  \/ l[1] \in FetchFlows /\ l[1] \notin DOMAIN alias
  \/ \E d \in Data : IsFlowOf(l[1], d) /\ IsFlowOf(l[2], d)

\* A flow is of a datum exactly if the one it stands for is.
LEMMA StandsForOwned ==
  ASSUME AliasesOwned, NEW f, NEW d
  PROVE  IsFlowOf(f, d) <=> f \notin FetchFlows /\ IsFlowOf(Representative(alias, f), d)
<1>1. IsFlowOf(f, d) => f \notin FetchFlows
  BY OwnedIsApart
<1>2. CASE f \notin DOMAIN alias
  BY <1>1, <1>2 DEF Representative
<1>3. CASE f \in DOMAIN alias /\ f \notin FetchFlows
  <2>1. PICK a \in Data : IsFlowOf(f, a) /\ IsFlowOf(alias[f], a)
    BY <1>3 DEF AliasesOwned
  <2>2. Representative(alias, f) = alias[f]
    BY <1>3 DEF Representative
  <2>3. (IsFlowOf(f, d) => d = a) /\ (IsFlowOf(alias[f], d) => d = a)
    BY <2>1, OwnedIsApart
  <2> QED
    BY <1>3, <2>1, <2>2, <2>3
<1> QED
  BY <1>1, <1>2, <1>3

\* Links between flows of one datum make aliases of one datum.
LEMMA LinksOwned ==
  ASSUME AliasesOwned, NEW links, \A l \in links : LinkOwned(l),
         NEW a, a = EstablishAliases(links)
  PROVE  \A f \in DOMAIN a : f \in FetchFlows \/ \E d \in Data : IsFlowOf(f, d) /\ IsFlowOf(a[f], d)
<1> SUFFICES ASSUME NEW f \in DOMAIN a, f \notin FetchFlows
             PROVE  \E d \in Data : IsFlowOf(f, d) /\ IsFlowOf(a[f], d)
  OBVIOUS
<1>1. CASE f \in DOMAIN alias /\ a[f] = alias[f]
  BY <1>1 DEF AliasesOwned
<1>2. ASSUME NEW l \in links, NoFlow \notin {l[1], l[2]},
             Representative(alias, l[1]) = Representative(alias, f),
             a[f] = Representative(alias, l[2])
      PROVE  \E d \in Data : IsFlowOf(f, d) /\ IsFlowOf(a[f], d)
  <2>1. CASE l[1] \in FetchFlows /\ l[1] \notin DOMAIN alias
    <3>1. Representative(alias, f) = l[1]
      BY <1>2, <2>1 DEF Representative
    <3>2. f \in DOMAIN alias /\ alias[f] \in FetchFlows
      BY <2>1, <3>1 DEF Representative
    <3> QED
      BY <3>2, OwnedIsApart DEF AliasesOwned
  <2>2. ASSUME NEW d \in Data, IsFlowOf(l[1], d), IsFlowOf(l[2], d)
        PROVE  IsFlowOf(f, d) /\ IsFlowOf(a[f], d)
    <3>1. IsFlowOf(Representative(alias, l[1]), d) /\ IsFlowOf(Representative(alias, l[2]), d)
      BY <2>2, StandsForOwned
    <3>2. IsFlowOf(f, d)
      BY <1>2, <3>1, StandsForOwned
    <3> QED
      BY <1>2, <3>1, <3>2
  <2> QED
    BY <1>2, <2>1, <2>2 DEF LinkOwned
<1> QED
  BY <1>1, <1>2, AliasesAre

\* What is given a meaning only for what is fetched leaves the others as they are.
LEMMA FetchLinks ==
  ASSUME AliasesOwned, NEW links, \A l \in links : l[1] \in FetchFlows /\ l[1] \notin DOMAIN alias,
         NEW a, a = EstablishAliases(links)
  PROVE  \A f : f \notin FetchFlows =>
           /\ f \in DOMAIN a <=> f \in DOMAIN alias
           /\ Representative(a, f) = Representative(alias, f)
<1> SUFFICES ASSUME NEW f, f \notin FetchFlows
             PROVE  /\ f \in DOMAIN a <=> f \in DOMAIN alias
                    /\ Representative(a, f) = Representative(alias, f)
  OBVIOUS
<1>1. \A l \in links : Representative(alias, l[1]) = l[1] /\ l[1] \in FetchFlows
  BY DEF Representative
<1>2. f \in DOMAIN a <=> f \in DOMAIN alias
  <2>1. f \in DOMAIN alias => f \in DOMAIN a
    BY DEF EstablishAliases
  <2>2. f \in DOMAIN a => f \in DOMAIN alias
    BY <1>1, AliasesAre
  <2> QED
    BY <2>1, <2>2
<1>3. ASSUME f \in DOMAIN alias PROVE a[f] = alias[f]
  <2>1. alias[f] \notin FetchFlows
    BY <1>3, OwnedIsApart DEF AliasesOwned
  <2>2. Representative(alias, f) = alias[f]
    BY <1>3 DEF Representative
  <2>3. \A l \in links : Representative(alias, l[1]) # Representative(alias, f)
    BY <1>1, <2>1, <2>2
  <2> QED
    BY <1>2, <1>3, <2>3, AliasesAre
<1> QED
  BY <1>2, <1>3 DEF Representative

\* The part of a collection's flow is a flow of the element.
LEMMA PartOwned ==
  ASSUME NEW f \in WholeFlows, f = NoFlow \/ Performed(f.owner), NEW e \in Elements
  PROVE  Indexed(f, e) = NoFlow \/ IsFlowOf(Indexed(f, e), e)
<1>1. CASE f = NoFlow
  BY <1>1 DEF Indexed
<1>2. CASE f # NoFlow
  <2>1. /\ Indexed(f, e) = [owner |-> f.owner, place |-> f.place, element |-> e]
        /\ Indexed(f, e).owner = f.owner /\ Indexed(f, e).element = e
    BY <1>2 DEF Indexed
  <2>2. f.owner \in Seq(Nat) /\ f.place \in FlowPlaces
    BY <1>2 DEF WholeFlows
  <2>3. Indexed(f, e) \in ElementFlows
    BY <2>1, <2>2 DEF ElementFlows
  <2> QED
    BY <1>2, <2>1, <2>3 DEF IsFlowOf
<1> QED
  BY <1>1, <1>2

\* So is what a task tells of flows when it ends.
LEMMA EndLinksOwned ==
  ASSUME Sound, NEW c
  PROVE  \A l \in EndLinks(c) : LinkOwned(l)
<1>1. /\ HoldersHave(collections, WholeFlows) /\ HoldersHave(handles, AllFlows)
      /\ DOMAIN handles \subseteq Contexts \X Data
  BY DEF Sound, Kept, HoldersKept
<1>2. ASSUME NEW k \in HoldersOf(c), NEW l \in Links(handles[k]) PROVE LinkOwned(l)
  <2>1. k \in DOMAIN handles /\ k[2] \in Data
    BY <1>1 DEF HoldersOf
  <2>2. IsHolderOf(handles[k], AllFlows) /\ IsHolderInShape(handles[k])
    BY <1>1, <2>1 DEF HoldersHave, Sound, HoldersInShape
  <2>3. /\ handles[k].could_be_alias
        /\ \/ l[1] = handles[k].use.out /\ l[2] = handles[k].use.in
           \/ l[1] = handles[k].use.anti_in /\ l[2] = handles[k].use.anti_out
    BY <1>2, <2>2, LinksTyped
  <2>4. "write" \in handles[k].use.scheduling
    BY <2>2, <2>3 DEF IsHolderInShape
  <2>5. ~Fetched(handles[k].use)
    BY <2>1, <2>4 DEF Sound, FetchedAsPublished, IsFetchedAs, MayNotWrite
  <2>6. HasFlowsOf(handles[k].use, k[2])
    BY <2>1, <2>5 DEF Sound, FlowsOwned
  <2> QED
    BY <2>1, <2>3, <2>6 DEF HasFlowsOf, LinkOwned
<1>3. ASSUME NEW x \in {c} \cap DOMAIN collections, NEW l \in ElementLinks(collections[x])
      PROVE  LinkOwned(l)
  <2> DEFINE u == collections[x].use
  <2>1. IsHolderOf(collections[x], WholeFlows)
    BY <1>1 DEF HoldersHave
  <2>2. PICK e \in Elements :
          \/ l[1] = Indexed(u.out, e) /\ l[2] = Indexed(u.in, e)
          \/ l[1] = Indexed(u.anti_in, e) /\ l[2] = Indexed(u.anti_out, e)
    BY <1>3, <2>1, ElementLinksTyped
  <2>3. \A f \in {u.in, u.out, u.anti_in, u.anti_out} :
          f \in WholeFlows /\ (f = NoFlow \/ Performed(f.owner))
    BY <2>1 DEF IsHolderOf, HasFlows, Sound, FlowsOwned
  <2>4. \A f \in {u.in, u.out, u.anti_in, u.anti_out} :
          Indexed(f, e) = NoFlow \/ IsFlowOf(Indexed(f, e), e)
    BY <2>3, PartOwned
  <2>5. e \in Data
    BY ElementsAreNumbers
  <2> QED
    BY <2>2, <2>4, <2>5 DEF LinkOwned
<1> QED
  BY <1>2, <1>3 DEF EndLinks

\* What is published, and under which version.
LEMMA PublicationIs ==
  ASSUME Sound, NEW t, Publishes(t), NEW e \in PublishedElements(t)
  PROVE  LET w == Front(t)
         IN  /\ t \in Contexts /\ status[t] = "running" /\ IsIndexTask(t) /\ t \in IndexTasks(w)
             /\ w \in Contexts /\ IsWork(w) /\ w \in DOMAIN collections
             /\ e \in Elements /\ e \in LocalElements(t) /\ t = TakerOf(w, e)
             /\ Capturing(t) /\ e \in Requested(t) /\ RequestsOf(t)[e] = Perms(None, Read)
             /\ Served(handles, <<t, e>>, RequestsOf(t)[e])
             /\ CaptureOf(t, e).captured.use = PublicationOf(t, e).use
             /\ ~Fetched(handles[<<t, e>>].use) /\ HasFlowsOf(handles[<<t, e>>].use, e)
             /\ <<w, e>> \notin DOMAIN publications
             /\ VersionIn(w, e) \in FetchFlows /\ VersionIn(w, e) \notin DOMAIN alias
             /\ VersionIn(w, e).version = w /\ VersionIn(w, e).element = e
<1> DEFINE w == Front(t)
<1>0. Kept /\ OutsKept /\ ContextsKept
  BY DEF Sound, Kept
<1>1. /\ t \in Contexts /\ status[t] = "running" /\ IsIndexTask(t)
      /\ Served(handles, <<t, e>>, Perms(None, Read)) /\ About(t, "publish")
  BY DEF Publishes, Operates, About
<1>2. Capturing(t)
  BY DEF Capturing
<1>3. /\ w \in Contexts /\ IsWork(w) /\ t \in IndexTasks(w) /\ w \in DOMAIN collections
      /\ w \in Seq(Nat) /\ IsHolderOf(collections[w], WholeFlows)
  BY <1>0, <1>1, WorkIsThere
<1>4. /\ e \in Elements /\ e \in LocalElements(t) /\ t = TakerOf(w, e)
  <2>1. e \in LocalElements(t)
    BY DEF PublishedElements
  <2> QED
    BY <1>0, <1>3, <2>1, TakersOfElements DEF ContextsKept
<1>5. /\ Requested(t) = PublishedElements(t)
      /\ RequestsOf(t) = [x \in PublishedElements(t) |-> Perms(None, Read)]
  BY <1>0, <1>2, CapturingIs
<1>6. e \in Requested(t) /\ RequestsOf(t)[e] = Perms(None, Read)
  BY <1>5
<1>7. CaptureOf(t, e).captured.use = PublicationOf(t, e).use
  BY <1>6 DEF CaptureOf, PublicationOf
<1>8. <<t, e>> \in DOMAIN handles /\ <<t, e>>[1] = t /\ <<t, e>>[2] = e
  BY <1>1 DEF Served
<1>9. e # Parameter
  BY <1>4, ElementsAreNumbers
<1>10. ~Fetched(handles[<<t, e>>].use)
  BY <1>1, <1>4, <1>8, <1>9 DEF Sound, HoldersApart
<1>11. HasFlowsOf(handles[<<t, e>>].use, e)
  BY <1>8, <1>10 DEF Sound, FlowsOwned
<1>12. <<w, e>> \notin DOMAIN publications
  BY <1>0, <1>1, <1>4, NotYetPublished
<1>13. collections[w].use.in \in WholeFlows /\ collections[w].use.in # NoFlow
  BY <1>3 DEF IsHolderOf, HasFlows, Sound, FetchesKept
<1>14. /\ VersionIn(w, e) \in FetchFlows
       /\ VersionIn(w, e).version = w /\ VersionIn(w, e).element = e
       /\ VersionIn(w, e).place = collections[w].use.in.place
  <2>1. VersionIn(w, e) \in FetchFlows
    BY <1>3, <1>4, <1>13, PartsAreFlows DEF VersionIn
  <2> QED
    BY <1>13, <2>1 DEF VersionIn, Fetching
<1>15. VersionIn(w, e) \notin DOMAIN alias
  <2>1. VersionIn(w, e).place \in DataPlaces
    BY <1>0, <1>3, <1>13, <1>14 DEF OutsKept, KindsOfHolders, KindsKept, IsDataFlow
  <2> QED
    BY <1>0, <1>12, <1>14, <2>1 DEF OutsKept, VersionsPublished
<1> HIDE DEF w
<1> QED
  BY <1>1, <1>2, <1>3, <1>4, <1>6, <1>7, <1>10, <1>11, <1>12, <1>14, <1>15 DEF w

\* Aliases stay, or are established by what is published or what ends.
LEMMA AliasesCome ==
  ASSUME Sound, AnyStep
  PROVE  \/ alias' = alias
         \/ \E t : /\ Publishes(t)
                   /\ alias' = EstablishAliases({<<VersionIn(Front(t), e), PublicationOf(t, e).use.in>> :
                                                  e \in PublishedElements(t)})
         \/ \E c \in Contexts : EndTask(c) /\ alias' = EstablishAliases(EndLinks(c))
<1>1. ASSUME NEW t, Publishes(t)
      PROVE  alias' = EstablishAliases({<<VersionIn(Front(t), e), PublicationOf(t, e).use.in>> :
                                         e \in PublishedElements(t)})
  BY <1>1 DEF Publishes
<1>2. ASSUME NEW c \in Contexts, EndTask(c) PROVE alias' = EstablishAliases(EndLinks(c))
  BY <1>2 DEF EndTask, EndLinks
<1>3. \/ alias' = alias
      \/ \E t : Publishes(t)
      \/ \E c \in Contexts : EndTask(c)
  BY DEF AnyStep, Creates, CreatesBeneath, Fetch, CreateTaskForIndex, DropTaskCollection,
         RunsReady, RunsPending, Run, ReleasePublication, vars
<1> QED
  BY <1>1, <1>2, <1>3

\* What is captured of a whole collection has flows of operations.
LEMMA WholeOwned ==
  ASSUME Sound, ContextsGoOn, NEW c, WholeCaptured(c),
         NEW u, u \in {WholeCapture(c).captured.use, WholeCapture(c).source.use},
         NEW f \in {u.in, u.out, u.anti_in, u.anti_out}
  PROVE  f \in WholeFlows /\ (f = NoFlow \/ Performed(f.owner)')
<1> DEFINE flows == {NoFlow} \cup {x \in WholeFlows : Performed(x.owner)'}
<1>0. Kept /\ ContextsKept /\ NoFlow \in WholeFlows
  BY FlowSetsApart DEF Sound, Kept
<1>1. PICK state : Operates(c, {Place(c)}, state)
  BY DEF WholeCaptured, Creates
<1>2. Place(c) \in Seq(Nat)
  <2>1. c \in Contexts
    BY <1>1 DEF Operates
  <2> QED
    BY <1>0, <2>1, ContextNames
<1>3. \A p : p = Place(c) => Performed(p)'
  BY <1>0, <1>1, NowPerformed
<1>4. ASSUME NEW place \in FlowPlaces PROVE Flow(Place(c), place) \in flows
  <2>1. \A x : x = Flow(Place(c), place) => x \in WholeFlows /\ x.owner = Place(c)
    BY <1>2 DEF WholeFlows, Flow
  <2>2. \A x : x = Flow(Place(c), place) => Performed(x.owner)'
    <3> SUFFICES ASSUME NEW x, x = Flow(Place(c), place) PROVE Performed(x.owner)'
      OBVIOUS
    <3>1. \A p : p = x.owner => Performed(p)'
      BY <1>3, <2>1
    <3> QED
      BY <3>1
  <2> QED
    BY <2>1, <2>2
<1>5. HasMadeBy(flows, Place(c))
  BY <1>4 DEF HasMadeBy
<1>6. IsHolderOf(collections[c], flows)
  <2>1. c \in DOMAIN collections
    BY DEF WholeCaptured, Served
  <2>2. IsHolderOf(collections[c], WholeFlows)
    BY <1>0, <2>1 DEF Kept, HoldersKept, HoldersHave
  <2>3. \A x \in {collections[c].use.in, collections[c].use.out,
                  collections[c].use.anti_in, collections[c].use.anti_out} :
          x \in WholeFlows /\ (x = NoFlow \/ Performed(x.owner)')
    <3>1. \A p : Performed(p) => Performed(p)'
      BY <1>0, FlowsStayOwned
    <3> QED
      BY <2>1, <2>2, <3>1 DEF Sound, FlowsOwned, IsHolderOf, HasFlows
  <2> QED
    BY <2>2, <2>3 DEF IsHolderOf, HasFlows
<1>7. /\ IsHolderOf(WholeCapture(c).captured, flows)
      /\ IsHolderOf(WholeCapture(c).source, flows)
  <2>1. <<PermissionsOf(collections[c].use), RequestOfWhole(c)>> \in DOMAIN CaseFor
    BY DEF WholeCaptured, Served
  <2> HIDE DEF flows
  <2> QED
    BY <1>5, <1>6, <2>1, OutcomeTyped DEF WholeCapture
<1>8. f \in flows
  BY <1>7 DEF IsHolderOf, HasFlows
<1> QED
  BY <1>0, <1>8

\* Every step leaves flows with the data they are of.
LEMMA FlowsAreOwned ==
  ASSUME Sound, AnyStep, ContextsGoOn
  PROVE  FlowsOwned'
<1>1. ContextsKept /\ Kept /\ OutsKept /\ FlowsOwned
  BY DEF Sound, Kept
<1>2. /\ \A p : Performed(p) => Performed(p)'
      /\ \A f, d : IsFlowOf(f, d) => IsFlowOf(f, d)'
      /\ \A u, d : HasFlowsOf(u, d) => HasFlowsOf(u, d)'
  BY <1>1, FlowsStayOwned
<1>3. ASSUME NEW k, k \in DOMAIN handles', NEW u, u = handles'[k].use, ~Fetched(u)
      PROVE  HasFlowsOf(u, k[2])'
  <2>1. HandleCame(k)
    BY <1>1, <1>3, HandlesCome
  <2>2. CASE HandleStays(k)
    <3>1. HasFlowsOf(u, k[2])
      BY <1>1, <1>3, <2>2 DEF FlowsOwned, HandleStays
    <3> QED
      BY <1>2, <3>1
  <2>3. ASSUME NEW c, HandleLeft(c, k) \/ HandleCaptured(c, k) PROVE HasFlowsOf(u, k[2])'
    <3> DEFINE d == k[2]
    <3>1. /\ Capturing(c) /\ d \in Requested(c)
          /\ Served(handles, <<c, d>>, RequestsOf(c)[d])
          /\ u \in {CaptureOf(c, d).captured.use, CaptureOf(c, d).source.use}
      BY <1>3, <2>3 DEF HandleLeft, HandleCaptured, Capturing
    <3>2. ~Fetched(handles[<<c, d>>].use)
      <4>1. Fetched(handles[<<c, d>>].use) =>
              /\ CaptureOf(c, d).source = handles[<<c, d>>]
              /\ CaptureOf(c, d).captured.use.in = handles[<<c, d>>].use.in
        BY <3>1, FetchedStays
      <4> QED
        BY <1>3, <3>1, <4>1 DEF Fetched
    <3>3. HasFlowsOf(handles[<<c, d>>].use, d)
      BY <3>1, <3>2, FetchedStays
    <3> QED
      BY <1>1, <3>1, <3>3, CaptureOwned
  <2>4. ASSUME NEW t, HandleFetched(t, k) PROVE FALSE
    <3>1. /\ t \in Contexts /\ Fetch(t) /\ k[2] \in FetchedElements(t)
          /\ handles'[k] = FetchedUse(collections[Front(t)], Front(t), k[2])
      BY <2>4 DEF HandleFetched
    <3>2. handles'[k].use.in \in FetchFlows
      BY <1>1, <3>1, FetchIs DEF Sound
    <3> QED
      BY <1>3, <3>2 DEF Fetched
  <2>5. ASSUME NEW w, HandleShared(w, k) PROVE HasFlowsOf(u, k[2])'
    <3> DEFINE h == handles[<<w, Parameter>>]
    <3>1. /\ k[2] = Parameter /\ <<w, Parameter>> \in DOMAIN handles /\ ~Fetched(h.use)
          /\ u.in = h.use.in /\ u.anti_out = h.use.anti_out
          /\ u.out = NoFlow /\ u.anti_in = NoFlow
      BY <1>3, <2>5, SharedFrom
    <3>2. <<w, Parameter>>[2] = Parameter
      OBVIOUS
    <3>3. HasFlowsOf(h.use, Parameter)
      BY <1>1, <3>1, <3>2 DEF FlowsOwned
    <3>4. HasFlowsOf(u, Parameter)
      BY <3>1, <3>3 DEF HasFlowsOf
    <3> QED
      BY <1>2, <3>1, <3>4
  <2>6. ASSUME NEW w, HandleLocal(w, k) PROVE HasFlowsOf(u, k[2])'
    <3> DEFINE e == k[2]
               v == collections[w].use
    <3>1. /\ e \in Elements /\ w \in DOMAIN collections
          /\ IsHolderOf(collections[w], WholeFlows)
          /\ u.in = Indexed(v.in, e)
          /\ u.out \in {NoFlow, Indexed(v.out, e)}
          /\ u.anti_in \in {NoFlow, Indexed(v.anti_in, e)}
          /\ u.anti_out = Indexed(v.anti_out, e)
      BY <1>3, <2>6, LocalFrom
    <3>2. \A f \in {v.in, v.out, v.anti_in, v.anti_out} :
            f \in WholeFlows /\ (f = NoFlow \/ Performed(f.owner))
      BY <1>1, <3>1 DEF FlowsOwned, IsHolderOf, HasFlows
    <3>3. \A f \in {v.in, v.out, v.anti_in, v.anti_out} :
            Indexed(f, e) = NoFlow \/ IsFlowOf(Indexed(f, e), e)
      BY <3>1, <3>2, PartOwned
    <3>4. HasFlowsOf(u, e)
      BY <3>1, <3>3 DEF HasFlowsOf
    <3> QED
      BY <1>2, <3>4
  <2> QED
    BY <2>1, <2>2, <2>3, <2>4, <2>5, <2>6 DEF HandleCame
<1>4. ASSUME NEW c, c \in DOMAIN collections', NEW u, u = collections'[c].use,
             NEW f, f \in {u.in, u.out, u.anti_in, u.anti_out}
      PROVE  f = NoFlow \/ Performed(f.owner)'
  <2>1. CollectionCame(c)
    BY <1>1, <1>4, CollectionsCome
  <2>2. CASE c \in DOMAIN collections /\ collections'[c] = collections[c]
    BY <1>1, <1>2, <1>4, <2>2 DEF FlowsOwned
  <2>3. ASSUME NEW x, WholeCaptured(x),
               collections'[c] = WholeCapture(x).captured \/ collections'[c] = WholeCapture(x).source
        PROVE  f = NoFlow \/ Performed(f.owner)'
    BY <1>4, <2>3, WholeOwned
  <2> QED
    BY <2>1, <2>2, <2>3 DEF CollectionCame
<1>5. ASSUME NEW p, p \in DOMAIN publications', NEW u, u = publications'[p].use
      PROVE  HasFlowsOf(u, p[2])'
  <2>1. PublicationStays(p) \/ \E t : PublicationMade(t, p)
    BY <1>1, <1>5, PublicationsCome
  <2>2. CASE PublicationStays(p)
    <3>1. u = publications[p].use
      <4>1. "use" \in DOMAIN publications[p]
        BY <1>1, <2>2 DEF OutsKept, PublicationsMade, PublicationStays
      <4> QED
        BY <1>5, <2>2, <4>1 DEF PublicationStays
    <3> QED
      BY <1>1, <1>2, <2>2, <3>1 DEF FlowsOwned, PublicationStays
  <2>3. ASSUME NEW t, PublicationMade(t, p) PROVE HasFlowsOf(u, p[2])'
    <3>0. Publishes(t) /\ p[2] \in PublishedElements(t) /\ u = PublicationOf(t, p[2]).use
      BY <1>5, <2>3 DEF PublicationMade
    <3>1. PICK e \in PublishedElements(t) : e = p[2] /\ u = PublicationOf(t, e).use
      BY <3>0
    <3>2. /\ Capturing(t) /\ e \in Requested(t)
          /\ Served(handles, <<t, e>>, RequestsOf(t)[e])
          /\ CaptureOf(t, e).captured.use = PublicationOf(t, e).use
          /\ HasFlowsOf(handles[<<t, e>>].use, e)
      BY <3>0, PublicationIs
    <3>3. HasFlowsOf(u, e)'
      BY <1>1, <3>1, <3>2, CaptureOwned
    <3> QED
      BY <3>1, <3>3
  <2> QED
    BY <2>1, <2>2, <2>3
<1>6. AliasesOwned
  BY <1>1 DEF FlowsOwned, AliasesOwned
<1>7. ASSUME NEW a, a = alias'
      PROVE  \A f \in DOMAIN a : f \in FetchFlows \/ \E d \in Data : IsFlowOf(f, d) /\ IsFlowOf(a[f], d)
  <2>1. CASE alias' = alias
    BY <1>6, <1>7, <2>1 DEF AliasesOwned
  <2>2. ASSUME NEW t, Publishes(t),
               NEW links, links = {<<VersionIn(Front(t), e), PublicationOf(t, e).use.in>> :
                                     e \in PublishedElements(t)},
               a = EstablishAliases(links)
        PROVE  \A f \in DOMAIN a :
                 f \in FetchFlows \/ \E d \in Data : IsFlowOf(f, d) /\ IsFlowOf(a[f], d)
    <3>0. \A e \in PublishedElements(t) :
            VersionIn(Front(t), e) \in FetchFlows /\ VersionIn(Front(t), e) \notin DOMAIN alias
      BY <2>2, PublicationIs
    <3>1. \A l \in links : l[1] \in FetchFlows /\ l[1] \notin DOMAIN alias
      BY <2>2, <3>0
    <3>2. \A l \in links : LinkOwned(l)
      BY <3>1 DEF LinkOwned
    <3> QED
      BY <1>6, <2>2, <3>2, LinksOwned
  <2>3. ASSUME NEW c \in Contexts, a = EstablishAliases(EndLinks(c))
        PROVE  \A f \in DOMAIN a :
                 f \in FetchFlows \/ \E d \in Data : IsFlowOf(f, d) /\ IsFlowOf(a[f], d)
    BY <1>6, <2>3, EndLinksOwned, LinksOwned
  <2> QED
    BY <1>7, <2>1, <2>2, <2>3, AliasesCome
<1>8. \A f \in DOMAIN alias' :
        f \in FetchFlows \/ \E d \in Data : IsFlowOf(f, d) /\ IsFlowOf(alias'[f], d)
  BY <1>7
<1>9. ASSUME NEW f, f \in DOMAIN alias', f \notin FetchFlows, NEW g, g = alias'[f]
      PROVE  \E d \in Data : IsFlowOf(f, d)' /\ IsFlowOf(g, d)'
  BY <1>2, <1>8, <1>9
<1>10. \A c \in DOMAIN collections' :
         \A f \in {collections'[c].use.in, collections'[c].use.out,
                   collections'[c].use.anti_in, collections'[c].use.anti_out} :
           f = NoFlow \/ Performed(f.owner)'
  BY <1>4
<1>11. \A k \in DOMAIN handles' : \A u : u = handles'[k].use /\ ~Fetched(u) => HasFlowsOf(u, k[2])'
  BY <1>3
<1>12. \A p \in DOMAIN publications' : \A u : u = publications'[p].use => HasFlowsOf(u, p[2])'
  BY <1>5
<1>13. \A f \in DOMAIN alias' : \A g : f \notin FetchFlows /\ g = alias'[f] =>
         \E d \in Data : IsFlowOf(f, d)' /\ IsFlowOf(g, d)'
  BY <1>9
<1> QED
  BY <1>10, <1>11, <1>12, <1>13 DEF FlowsOwned, Fetched

(***************************************************************************)
(* Fetches                                                                 *)
(***************************************************************************)
\* The places there are in the kinds of backends.
LEMMA PlacesMade ==
  \A nw \in BOOLEAN :
    /\ "in" \in FlowPlaces /\ "out" \in FlowPlaces
    /\ LevelOf(Backend, CapturedPlaces, nw) \in FlowPlaces
    /\ NextOf(Backend, CapturedPlaces, nw) \in FlowPlaces
    /\ CountedOf(Backend, CapturedPlaces) \in FlowPlaces
    /\ LevelOf(Backend, ContinuingPlaces, FALSE) \in FlowPlaces
BY DEF FlowPlaces, Places, LevelOf, NextOf, CountedOf, CapturedPlaces, ContinuingPlaces

\* What a capture makes has an input, and what it leaves, if its source has.
LEMMA OutcomeHasInput ==
  ASSUME NEW source, source.use.in # NoFlow, NEW request, NEW owner,
         <<PermissionsOf(source.use), request>> \in DOMAIN CaseFor
  PROVE  /\ OutcomeOf(source, request, owner).captured.use.in # NoFlow
         /\ OutcomeOf(source, request, owner).source.use.in # NoFlow
<1> DEFINE o == OutcomeOf(source, request, owner)
           n == o.captured.use
<1>1. PICK case \in CaptureCases : MadeBy(case, source, request, owner, o)
  BY OutcomeMade
<1>2. KeepsInput(case) /\ WellShaped(case)
  BY CaseKeepsInput, CaseShape
<1>3. request \in PermissionPairs
  BY CaseServes
<1>4. \A place \in FlowPlaces : Flow(owner, place) # NoFlow
  BY DEF Flow, NoFlow, FlowPlaces, Places
<1>5. Flow(owner, "in") # NoFlow /\ Flow(owner, "out") # NoFlow
  BY <1>4, PlacesMade
<1>6. /\ n.in = Establish(case.captured.in, FlowsOfSource(source.use), Flow(owner, "in"))
      /\ n.out = Establish(case.captured.out, FlowsOfSource(source.use), Flow(owner, "out"))
  <2>1. n = MakeUse(request, RegisteredFlows(case.captured, FlowsOfSource(source.use), owner,
                                             CapturedPlaces), FALSE)
    BY <1>1 DEF MadeBy, CapturedUse
  <2> HIDE DEF o
  <2> QED
    BY <2>1 DEF MakeUse, RegisteredFlows, UseFlows, CapturedPlaces
<1>7. n.in # NoFlow
  <2>1. n.in \in {source.use.in, Flow(owner, "in")}
    BY <1>2, <1>6 DEF KeepsInput, Establish, Same, Forwarding, FlowsOfSource
  <2> QED
    BY <1>5, <2>1
<1>8. ASSUME case.needs_new_continuation_use PROVE o.source.use.in # NoFlow
  <2> DEFINE known == FlowsOfCapture(source.use, n)
  <2>1. o.source.use = MakeUse(case.continuation,
                               RegisteredFlows(case.continuing, known, owner, ContinuingPlaces), FALSE)
    BY <1>1, <1>8 DEF MadeBy
  <2>2. o.source.use.in = Establish(case.continuing.in, known, Flow(owner, "cont_in"))
    <3> HIDE DEF o, known
    <3> QED
      BY <2>1 DEF MakeUse, RegisteredFlows, UseFlows, ContinuingPlaces
  <2>3. known["source_in"] = source.use.in /\ known["captured_in"] = n.in
        /\ known["captured_out"] = n.out
    BY DEF FlowsOfCapture
  <2>4. CASE case.continuing.in \in {Same("source_in"), Same("captured_in")}
    BY <1>7, <2>2, <2>3, <2>4 DEF Establish, Same
  <2>5. CASE case.continuing.in = Same("captured_out") /\ case.captured.out.description = "Next"
    <3>1. n.out = Flow(owner, "out")
      BY <1>6, <2>5 DEF Establish
    <3> QED
      BY <1>5, <2>2, <2>3, <2>5, <3>1 DEF Establish, Same
  <2> QED
    BY <1>2, <1>8, <2>4, <2>5 DEF KeepsInput
<1>9. ASSUME ~case.needs_new_continuation_use PROVE o.source.use.in # NoFlow
  BY <1>1, <1>9 DEF MadeBy
<1> QED
  BY <1>7, <1>8, <1>9

\* Holders go when their context ends, or its work is dropped.
LEMMA HandlesGo ==
  ASSUME AnyStep, NEW k \in DOMAIN handles
  PROVE  k \in DOMAIN handles' \/ Over(k[1])' \/ IsWork(k[1])
<1>1. ASSUME NEW c, NEW state, Creates(c, state) PROVE k \in DOMAIN handles'
  BY <1>1 DEF Creates, HandlesTaken
<1>2. ASSUME NEW t, CreatesBeneath(t) PROVE k \in DOMAIN handles'
  BY <1>2 DEF CreatesBeneath, HandlesTaken
<1>3. ASSUME NEW t, Publishes(t) PROVE k \in DOMAIN handles'
  BY <1>3 DEF Publishes
<1>4. ASSUME NEW t \in Contexts, Fetch(t) PROVE k \in DOMAIN handles'
  BY <1>4 DEF Fetch, With
<1>5. ASSUME NEW w \in Contexts, CreateTaskForIndex(w) PROVE k \in DOMAIN handles'
  BY <1>5 DEF CreateTaskForIndex, With
<1>6. ASSUME NEW w \in Contexts, DropTaskCollection(w)
      PROVE  k \in DOMAIN handles' \/ IsWork(k[1])
  <2>1. IsWork(w) /\ handles' = Without(handles, {<<w, Parameter>>})
    BY <1>6 DEF DropTaskCollection
  <2>2. k = <<w, Parameter>> => k[1] = w
    OBVIOUS
  <2> QED
    BY <2>1, <2>2 DEF Without
<1>7. ASSUME NEW c \in Contexts, EndTask(c) PROVE k \in DOMAIN handles' \/ Over(k[1])'
  <2>1. handles' = Without(handles, HoldersOf(c)) /\ status' = [status EXCEPT ![c] = "done"]
    BY <1>7 DEF EndTask
  <2>2. CASE k[1] = c
    BY <1>7, <2>1, <2>2 DEF Over, Contexts
  <2>3. CASE k[1] # c
    BY <2>1, <2>3 DEF Without, HoldersOf
  <2> QED
    BY <2>2, <2>3
<1> QED
  BY <1>1, <1>2, <1>3, <1>4, <1>5, <1>6, <1>7
  DEF AnyStep, RunsReady, RunsPending, Run, ReleasePublication, vars

\* An index task keeps what it has fetched until it ends.
LEMMA FetchedKept ==
  ASSUME Sound, AnyStep, ContextsGoOn, NEW t, NEW e, <<t, e>> \in DOMAIN handles, IsIndexTask(t),
         Fetched(handles[<<t, e>>].use),
         \A x \in fetches : x.of = <<Front(t), e>> /\ x.by = t => x.in = handles[<<t, e>>].use.in,
         \E x \in fetches : x.of = <<Front(t), e>> /\ x.by = t,
         ~Over(t)'
  PROVE  /\ <<t, e>> \in DOMAIN handles'
         /\ handles'[<<t, e>>].use.in = handles[<<t, e>>].use.in
<1> DEFINE k == <<t, e>>
<1>0. Kept /\ ContextsKept /\ FetchesKept
  BY DEF Sound, Kept
<1>1. k[1] = t /\ k[2] = e /\ k \in DOMAIN handles /\ t \in Contexts
  BY <1>0 DEF Kept, HoldersKept
<1>2. ~IsWork(t)
  <2>1. IsWork(Front(t)) /\ t \in IndexTasks(Front(t))
    BY <1>0, <1>1, IndexTasksNamed DEF ContextsKept
  <2> QED
    BY <1>0, <2>1, IndexNames DEF ContextsKept
<1>3. k \in DOMAIN handles'
  BY <1>1, <1>2, HandlesGo
<1>4. HandleCame(k)
  BY <1>0, <1>3, HandlesCome
<1>5. CASE HandleStays(k)
  BY <1>3, <1>5 DEF HandleStays
<1>6. ASSUME NEW c, HandleLeft(c, k) PROVE handles'[k].use.in = handles[k].use.in
  <2>1. /\ k = <<c, e>> /\ Served(handles, <<c, e>>, RequestsOf(c)[e])
        /\ handles'[k] = CaptureOf(c, e).source
    BY <1>1, <1>6 DEF HandleLeft
  <2>2. CaptureOf(c, e).source = handles[<<c, e>>]
    BY <2>1, FetchedStays
  <2> QED
    BY <2>1, <2>2
<1>7. ASSUME NEW c, HandleCaptured(c, k) PROVE FALSE
  <2>1. Making(c) /\ t = Place(c)
    BY <1>1, <1>7 DEF HandleCaptured
  <2>2. c \in Contexts /\ status[c] = "running"
    BY <1>0, <2>1, CapturingIs DEF Capturing
  <2> QED
    BY <1>0, <1>1, <2>1, <2>2, PlaceIsNew
<1>8. ASSUME NEW s, HandleFetched(s, k) PROVE handles'[k].use.in = handles[k].use.in
  <2>1. /\ s = t /\ t \in Contexts /\ Fetch(t) /\ e \in FetchedElements(t)
        /\ handles'[k] = FetchedUse(collections[Front(t)], Front(t), e)
    BY <1>1, <1>8 DEF HandleFetched
  <2>2. handles'[k].use.in = VersionIn(Front(t), e) /\ Front(t) \in DOMAIN collections
    BY <1>0, <2>1, FetchIs
  <2>3. PICK x \in fetches : x.of = <<Front(t), e>> /\ x.by = t
    OBVIOUS
  <2>4. x.of[1] = Front(t) /\ x.of[2] = e
    BY <2>3
  <2>5. x.in = VersionIn(Front(t), e)
    BY <1>0, <2>2, <2>4 DEF FetchesKept
  <2> QED
    BY <2>2, <2>3, <2>5
<1>9. ASSUME NEW w, HandleShared(w, k) \/ HandleLocal(w, k) PROVE FALSE
  BY <1>1, <1>9 DEF HandleShared, HandleLocal
<1> QED
  BY <1>3, <1>4, <1>5, <1>6, <1>7, <1>8, <1>9 DEF HandleCame

\* Fetches of a step.
LEMMA FetchesCome ==
  ASSUME AnyStep
  PROVE  fetches' = fetches \/ \E t \in Contexts : Fetch(t)
<1>1. ASSUME NEW c, NEW state, Creates(c, state) PROVE fetches' = fetches
  BY <1>1 DEF Creates
<1>2. ASSUME NEW t, CreatesBeneath(t) \/ Publishes(t) PROVE fetches' = fetches
  BY <1>2 DEF CreatesBeneath, Publishes
<1>3. ASSUME NEW w, CreateTaskForIndex(w) \/ DropTaskCollection(w) \/ EndTask(w) \/ ReleasePublication(w)
      PROVE  fetches' = fetches
  BY <1>3 DEF CreateTaskForIndex, DropTaskCollection, EndTask, ReleasePublication
<1>4. ASSUME NEW contexts, RunsReady(contexts) PROVE fetches' = fetches
  BY <1>4 DEF RunsReady, RunsPending, Run
<1>5. ASSUME UNCHANGED vars PROVE fetches' = fetches
  BY <1>5 DEF vars
<1> QED
  BY <1>1, <1>2, <1>3, <1>4, <1>5 DEF AnyStep

\* A fetch of a step: one there was, or one that is made of what is there.
FetchMade(t, x) ==
  /\ t \in Contexts /\ Fetch(t)
  /\ x.of[2] \in FetchedElements(t)
  /\ x = [of |-> <<Front(t), x.of[2]>>, by |-> t, in |-> VersionIn(Front(t), x.of[2])]

\* Whence fetches are after a step.
LEMMA FetchesMade ==
  ASSUME Kept, FetchesKept, AnyStep, NEW x, x \in fetches'
  PROVE  x \in fetches \/ \E t : FetchMade(t, x)
<1>1. CASE fetches' = fetches
  BY <1>1
<1>2. ASSUME NEW t \in Contexts, Fetch(t) PROVE x \in fetches \/ FetchMade(t, x)
  <2>1. fetches' = fetches \cup
          {[of |-> <<Front(t), e>>, by |-> t,
            in |-> FetchedUse(collections[Front(t)], Front(t), e).use.in] : e \in FetchedElements(t)}
    BY <1>2 DEF Fetch
  <2>2. CASE x \in fetches
    BY <2>2
  <2>3. CASE x \notin fetches
    <3>1. PICK e \in FetchedElements(t) :
            x = [of |-> <<Front(t), e>>, by |-> t,
                 in |-> FetchedUse(collections[Front(t)], Front(t), e).use.in]
      BY <2>1, <2>3
    <3>2. FetchedUse(collections[Front(t)], Front(t), e).use.in = VersionIn(Front(t), e)
      BY <1>2, FetchIs
    <3>3. x.of[2] = e
      BY <3>1
    <3> QED
      BY <1>2, <3>1, <3>2, <3>3 DEF FetchMade
  <2> QED
    BY <2>2, <2>3
<1> QED
  BY <1>1, <1>2, FetchesCome

\* Who has fetched: an index task of the work, a reader of the element.
LEMMA FetchedBy ==
  ASSUME Kept, FetchesKept, NEW x \in fetches
  PROVE  /\ x.of[1] \in Contexts /\ x.of[2] \in Elements /\ x.of = <<x.of[1], x.of[2]>>
         /\ IsWork(x.of[1]) /\ x.by \in IndexTasks(x.of[1]) /\ x.by \in Contexts
         /\ IsIndexTask(x.by) /\ Front(x.by) = x.of[1]
         /\ Last(x.by) \in program[x.of[1]].readers[x.of[2]]
<1>1. x.of \in Contexts \X Elements /\ x.by \in Contexts
  BY DEF Kept, BackendKept
<1>2. x.of[1] \in Contexts /\ x.of[2] \in Elements /\ x.of = <<x.of[1], x.of[2]>> /\ IsWork(x.of[1])
  <2>1. IsWork(x.of[1])
    BY DEF FetchesKept
  <2>2. PICK p \in Contexts \X Elements : p = x.of
    BY <1>1
  <2> QED
    BY <2>1, <2>2
<1>3. PICK i \in program[x.of[1]].readers[x.of[2]] : x.by = Append(x.of[1], i)
  BY DEF FetchesKept
<1>4. program \in Programs /\ Named
  BY DEF Kept, ContextsKept, Named
<1>5. program[x.of[1]].readers \in [Elements -> SUBSET DenseIndices(program[x.of[1]].tasks)]
  BY <1>2, <1>4, ProgramsAssumption DEF IsWork, Elements
<1>6. i \in DenseIndices(program[x.of[1]].tasks)
  BY <1>2, <1>3, <1>5
<1>7. x.by \in IndexTasks(x.of[1])
  BY <1>3, <1>6 DEF IndexTasks
<1>8. Front(x.by) = x.of[1] /\ Last(x.by) = i
  BY <1>2, <1>3, <1>4, <1>6, IndexTaskNames
<1>9. IsIndexTask(x.by)
  BY <1>2, <1>4, <1>7, IndexNames
<1> QED
  BY <1>1, <1>2, <1>3, <1>7, <1>8, <1>9

\* Every step keeps what is known of fetches.
LEMMA FetchesStay ==
  ASSUME Sound, AnyStep, ContextsGoOn
  PROVE  FetchesKept'
<1>0. Kept /\ ContextsKept /\ FetchesKept /\ HoldersKept /\ program' = program
  BY DEF Sound, Kept, ContextsGoOn
<1>1. ASSUME NEW c, WholeCaptured(c)
      PROVE  WholeCapture(c).captured.use.in # NoFlow /\ WholeCapture(c).source.use.in # NoFlow
  <2>1. c \in DOMAIN collections
        /\ <<PermissionsOf(collections[c].use), RequestOfWhole(c)>> \in DOMAIN CaseFor
    BY <1>1 DEF WholeCaptured, Served
  <2>2. collections[c].use.in # NoFlow
    BY <1>0, <2>1 DEF FetchesKept
  <2> QED
    BY <2>1, <2>2, OutcomeHasInput DEF WholeCapture
<1>2. ASSUME NEW x, x \in DOMAIN collections' PROVE collections'[x].use.in # NoFlow
  <2>1. CollectionCame(x)
    BY <1>0, <1>2, CollectionsCome
  <2> QED
    BY <1>0, <1>1, <2>1 DEF CollectionCame, FetchesKept
<1>3. ASSUME NEW w \in Contexts, IsWork(w), NEW e, w \in DOMAIN collections'
      PROVE  w \in DOMAIN collections /\ VersionIn(w, e)' = VersionIn(w, e)
  <2>1. w \in DOMAIN collections /\ collections'[w] = collections[w]
    BY <1>0, <1>3, CollectionsCome
  <2> QED
    BY <2>1 DEF VersionIn
<1>4. ASSUME NEW x \in fetches
      PROVE  /\ x = [of |-> x.of, by |-> x.by, in |-> x.in]
             /\ x.in \in FetchFlows
             /\ IsWork(x.of[1])'
             /\ \E i \in program'[x.of[1]].readers[x.of[2]] : x.by = Append(x.of[1], i)
             /\ x.of[1] \in DOMAIN collections' => x.in = VersionIn(x.of[1], x.of[2])'
             /\ ~Over(x.by)' =>
                  /\ <<x.by, x.of[2]>> \in DOMAIN handles'
                  /\ handles'[<<x.by, x.of[2]>>].use.in = x.in
  <2>1. /\ x.of[1] \in Contexts /\ x.of[2] \in Elements /\ x.of = <<x.of[1], x.of[2]>>
        /\ IsWork(x.of[1]) /\ x.by \in Contexts
        /\ IsIndexTask(x.by) /\ Front(x.by) = x.of[1]
    BY <1>0, FetchedBy
  <2>2. /\ x = [of |-> x.of, by |-> x.by, in |-> x.in]
        /\ x.in \in FetchFlows
        /\ \E i \in program[x.of[1]].readers[x.of[2]] : x.by = Append(x.of[1], i)
        /\ x.of[1] \in DOMAIN collections => x.in = VersionIn(x.of[1], x.of[2])
    BY <1>0 DEF FetchesKept
  <2>3. IsWork(x.of[1])'
    BY <1>0, <2>1, NamesStay
  <2>4. x.of[1] \in DOMAIN collections' => x.in = VersionIn(x.of[1], x.of[2])'
    BY <1>3, <2>1, <2>2
  <2>5. ASSUME ~Over(x.by)'
        PROVE  /\ <<x.by, x.of[2]>> \in DOMAIN handles'
               /\ handles'[<<x.by, x.of[2]>>].use.in = x.in
    <3>1. ~Over(x.by)
      BY <2>5 DEF ContextsGoOn
    <3>2. <<x.by, x.of[2]>> \in DOMAIN handles /\ handles[<<x.by, x.of[2]>>].use.in = x.in
      BY <1>0, <3>1 DEF FetchesKept
    <3>3. Fetched(handles[<<x.by, x.of[2]>>].use)
      BY <2>2, <3>2 DEF Fetched
    <3>4. \A y \in fetches : y.of = <<Front(x.by), x.of[2]>> /\ y.by = x.by =>
            y.in = handles[<<x.by, x.of[2]>>].use.in
      BY <1>0, <2>1, <3>2 DEF FetchesKept
    <3>5. \E y \in fetches : y.of = <<Front(x.by), x.of[2]>> /\ y.by = x.by
      BY <2>1
    <3> QED
      BY <2>1, <2>5, <3>2, <3>3, <3>4, <3>5, FetchedKept
  <2> QED
    BY <1>0, <2>2, <2>3, <2>4, <2>5
<1>5. ASSUME NEW x, NEW t, FetchMade(t, x)
      PROVE  /\ x = [of |-> x.of, by |-> x.by, in |-> x.in]
             /\ x.in \in FetchFlows
             /\ IsWork(x.of[1])'
             /\ \E i \in program'[x.of[1]].readers[x.of[2]] : x.by = Append(x.of[1], i)
             /\ x.of[1] \in DOMAIN collections' /\ x.in = VersionIn(x.of[1], x.of[2])'
             /\ <<x.by, x.of[2]>> \in DOMAIN handles'
             /\ handles'[<<x.by, x.of[2]>>].use.in = x.in
  <2> DEFINE w == Front(t)
             e == x.of[2]
  <2>1. /\ t \in Contexts /\ Fetch(t) /\ e \in FetchedElements(t)
        /\ x = [of |-> <<w, e>>, by |-> t, in |-> VersionIn(w, e)]
    BY <1>5 DEF FetchMade
  <2>2. x.of[1] = w /\ x.by = t /\ x.in = VersionIn(w, e)
    BY <2>1
  <2> HIDE DEF e
  <2>3. /\ w \in Contexts /\ IsWork(w) /\ t \in IndexTasks(w) /\ w \in DOMAIN collections
        /\ Last(t) \in program[w].readers[e]
        /\ FetchedUse(collections[w], w, e).use.in = VersionIn(w, e)
        /\ VersionIn(w, e) \in FetchFlows
    BY <1>0, <2>1, FetchIs
  <2>4. t = Append(w, Last(t))
    <3>1. PICK i \in DenseIndices(program[w].tasks) : t = Append(w, i)
      BY <2>3 DEF IndexTasks
    <3> QED
      BY <1>0, <2>3, <3>1, IndexTaskNames DEF ContextsKept, Named
  <2>5. collections' = collections
    BY <2>1 DEF Fetch
  <2>6. VersionIn(w, e)' = VersionIn(w, e)
    BY <2>5 DEF VersionIn, w
  <2>7. IsWork(w)'
    BY <1>0, <2>3, NamesStay
  <2>8. <<t, e>> \in DOMAIN handles' /\ handles'[<<t, e>>] = FetchedUse(collections[w], w, e)
    <3>1. handles' = With(handles, [k \in {<<t, y>> : y \in FetchedElements(t)} |->
                                      FetchedUse(collections[w], w, k[2])])
      BY <2>1 DEF Fetch
    <3>2. <<t, e>> \in {<<t, y>> : y \in FetchedElements(t)} /\ <<t, e>>[2] = e
      BY <2>1
    <3> QED
      BY <3>1, <3>2 DEF With
  <2>9. x = [of |-> x.of, by |-> x.by, in |-> x.in]
    BY <2>1
  <2>10. handles'[<<x.by, e>>].use.in = x.in
    BY <2>2, <2>3, <2>8
  <2>11. VersionIn(x.of[1], e)' = VersionIn(w, e)
    BY <2>2, <2>5 DEF VersionIn
  <2>12. IsWork(x.of[1])'
    BY <2>2, <2>7 DEF IsWork
  <2>13. \E i \in program'[x.of[1]].readers[e] : x.by = Append(x.of[1], i)
    BY <1>0, <2>2, <2>3, <2>4
  <2>14. <<x.by, e>> \in DOMAIN handles' /\ x.of[1] \in DOMAIN collections'
    BY <2>2, <2>3, <2>5, <2>8
  <2> QED
    BY <2>2, <2>3, <2>9, <2>10, <2>11, <2>12, <2>13, <2>14 DEF e
<1>6. \A x \in fetches' : x \in fetches \/ \E t : FetchMade(t, x)
  BY <1>0, FetchesMade
<1>7. ASSUME NEW x \in fetches', NEW y \in fetches', x.of = y.of, x.by = y.by
      PROVE  x = y
  <2>1. CASE x \in fetches /\ y \in fetches
    BY <1>0, <1>7, <2>1 DEF FetchesKept
  <2>2. CASE x \notin fetches \/ y \notin fetches
    <3>1. /\ x = [of |-> x.of, by |-> x.by, in |-> x.in]
          /\ y = [of |-> y.of, by |-> y.by, in |-> y.in]
      BY <1>4, <1>5, <1>6
    <3>2. x.of[1] \in DOMAIN collections'
      BY <1>5, <1>6, <1>7, <2>2
    <3>3. x.in = VersionIn(x.of[1], x.of[2])' /\ y.in = VersionIn(x.of[1], x.of[2])'
      <4>1. x.in = VersionIn(x.of[1], x.of[2])'
        BY <1>4, <1>5, <1>6, <3>2
      <4>2. y.in = VersionIn(y.of[1], y.of[2])'
        BY <1>4, <1>5, <1>6, <1>7, <3>2
      <4>3. VersionIn(x.of[1], x.of[2])' = VersionIn(y.of[1], y.of[2])'
        BY <1>7 DEF VersionIn
      <4> QED
        BY <4>1, <4>2, <4>3
    <3> QED
      BY <1>7, <3>1, <3>3
  <2> QED
    BY <2>1, <2>2
<1>8. ASSUME NEW x \in fetches'
      PROVE  /\ x = [of |-> x.of, by |-> x.by, in |-> x.in]
             /\ x.in \in FetchFlows
             /\ IsWork(x.of[1])'
             /\ \E i \in program'[x.of[1]].readers[x.of[2]] : x.by = Append(x.of[1], i)
             /\ x.of[1] \in DOMAIN collections' => x.in = VersionIn(x.of[1], x.of[2])'
             /\ ~Over(x.by)' =>
                  /\ <<x.by, x.of[2]>> \in DOMAIN handles'
                  /\ handles'[<<x.by, x.of[2]>>].use.in = x.in
  BY <1>4, <1>5, <1>6
<1>9. ASSUME NEW k, k \in DOMAIN handles' PROVE handles'[k].use.in # NoFlow
  <2>1. HandleCame(k)
    BY <1>0, <1>9, HandlesCome
  <2>2. CASE HandleStays(k)
    BY <1>0, <2>2 DEF HandleStays, FetchesKept
  <2>3. ASSUME NEW c, HandleLeft(c, k) \/ HandleCaptured(c, k)
        PROVE  handles'[k].use.in # NoFlow
    <3>1. /\ Served(handles, <<c, k[2]>>, RequestsOf(c)[k[2]])
          /\ handles'[k] \in {CaptureOf(c, k[2]).source, CaptureOf(c, k[2]).captured}
      BY <2>3 DEF HandleLeft, HandleCaptured
    <3>2. handles[<<c, k[2]>>].use.in # NoFlow
      BY <1>0, <3>1 DEF Served, FetchesKept
    <3> QED
      BY <3>1, <3>2, OutcomeHasInput DEF CaptureOf, Served
  <2>4. ASSUME NEW t, HandleFetched(t, k) PROVE handles'[k].use.in # NoFlow
    BY <1>0, <2>4, FetchIs, FlowSetsApart DEF HandleFetched
  <2>5. ASSUME NEW w, HandleShared(w, k) PROVE handles'[k].use.in # NoFlow
    <3>1. <<w, Parameter>> \in DOMAIN handles /\ handles'[k].use.in = handles[<<w, Parameter>>].use.in
      BY <2>5, SharedFrom
    <3> QED
      BY <1>0, <3>1 DEF FetchesKept
  <2>6. ASSUME NEW w, HandleLocal(w, k) PROVE handles'[k].use.in # NoFlow
    <3>1. /\ k[2] \in Elements /\ w \in DOMAIN collections /\ IsHolderOf(collections[w], WholeFlows)
          /\ handles'[k].use.in = Indexed(collections[w].use.in, k[2])
      BY <2>6, LocalFrom
    <3>2. collections[w].use.in \in WholeFlows /\ collections[w].use.in # NoFlow
      BY <1>0, <3>1 DEF FetchesKept, IsHolderOf, HasFlows
    <3>3. << >> \in Seq(Nat)
      OBVIOUS
    <3> QED
      BY <3>1, <3>2, <3>3, PartsAreFlows
  <2> QED
    BY <2>1, <2>2, <2>3, <2>4, <2>5, <2>6 DEF HandleCame
<1> QED
  BY <1>2, <1>7, <1>8, <1>9 DEF FetchesKept

(***************************************************************************)
(* What is equivalent stays so                                             *)
(***************************************************************************)
\* The links of a set that concern what a flow stands for.
LinksFor(links, f) ==
  {l \in links : /\ NoFlow \notin {l[1], l[2]}
                 /\ ~Equivalent(alias, l[1], l[2])
                 /\ Equivalent(alias, l[1], f)}

\* What a flow stands for once links are established.
LEMMA LinkedIs ==
  ASSUME NEW links, NEW f
  PROVE  Representative(EstablishAliases(links), f) =
           IF LinksFor(links, f) = {} THEN Representative(alias, f)
           ELSE Representative(alias, (CHOOSE l \in LinksFor(links, f) : TRUE)[2])
<1> DEFINE new == {l \in links : NoFlow \notin {l[1], l[2]} /\ ~Equivalent(alias, l[1], l[2])}
           of(g) == {l \in new : Equivalent(alias, l[1], g)}
           a == EstablishAliases(links)
<1>1. /\ DOMAIN a = DOMAIN alias \cup {Representative(alias, l[1]) : l \in new}
      /\ \A g \in DOMAIN a :
           a[g] = IF of(g) = {} THEN alias[g]
                  ELSE Representative(alias, (CHOOSE l \in of(g) : TRUE)[2])
  BY DEF EstablishAliases
<1>2. of(f) = LinksFor(links, f)
  BY DEF LinksFor
<1> HIDE DEF a, of
<1>3. CASE f \in DOMAIN alias
  <2>1. f \in DOMAIN a /\ Representative(a, f) = a[f] /\ Representative(alias, f) = alias[f]
    BY <1>1, <1>3 DEF Representative
  <2> QED
    BY <1>1, <1>2, <2>1 DEF a
<1>4. CASE f \notin DOMAIN alias /\ f \in DOMAIN a
  <2>1. PICK l \in new : f = Representative(alias, l[1])
    BY <1>1, <1>4
  <2>2. Representative(alias, f) = f
    BY <1>4 DEF Representative
  <2>3. l \in of(f)
    BY <2>1, <2>2 DEF of, Equivalent
  <2>4. Representative(a, f) = a[f] /\ of(f) # {}
    BY <1>4, <2>3 DEF Representative
  <2> QED
    BY <1>1, <1>2, <1>4, <2>4 DEF a
<1>5. CASE f \notin DOMAIN a
  <2>1. f \notin DOMAIN alias /\ Representative(a, f) = f /\ Representative(alias, f) = f
    BY <1>1, <1>5 DEF Representative
  <2>2. of(f) = {}
    BY <1>1, <1>5, <2>1 DEF of, Equivalent
  <2> QED
    BY <1>2, <2>1, <2>2 DEF a
<1> QED
  BY <1>3, <1>4, <1>5

\* What is equivalent stays so when aliases are established.
LEMMA EquivalentStays ==
  ASSUME NEW links, NEW f, NEW g, Equivalent(alias, f, g)
  PROVE  Equivalent(EstablishAliases(links), f, g)
<1>1. LinksFor(links, f) = LinksFor(links, g)
  BY DEF LinksFor, Equivalent
<1>2. Representative(alias, f) = Representative(alias, g)
  BY DEF Equivalent
<1> QED
  BY <1>1, <1>2, LinkedIs DEF Equivalent

\* So it does in every step.
LEMMA EquivalenceGoesOn ==
  ASSUME Sound, AnyStep, NEW f, NEW g, Equivalent(alias, f, g)
  PROVE  Equivalent(alias', f, g)
BY AliasesCome, EquivalentStays

\* What is fetched and what is published are equivalent from then on.
LEMMA PublishedIsFetched ==
  ASSUME Sound, NEW t, Publishes(t), NEW e \in PublishedElements(t)
  PROVE  Equivalent(alias', VersionIn(Front(t), e), PublicationOf(t, e).use.in)
<1> DEFINE w == Front(t)
           data == PublishedElements(t)
           links == {<<VersionIn(w, x), PublicationOf(t, x).use.in>> : x \in data}
           f == VersionIn(w, e)
           g == PublicationOf(t, e).use.in
<1>1. alias' = EstablishAliases(links)
  BY DEF Publishes
<1>2. \A x \in data : VersionIn(w, x) \in FetchFlows /\ VersionIn(w, x) \notin DOMAIN alias
                      /\ VersionIn(w, x).element = x
  BY PublicationIs
<1>3. g # NoFlow /\ g \notin FetchFlows
  <2>1. /\ Served(handles, <<t, e>>, RequestsOf(t)[e]) /\ t \in Contexts
        /\ CaptureOf(t, e).captured.use = PublicationOf(t, e).use
        /\ Capturing(t) /\ e \in Requested(t)
        /\ ~Fetched(handles[<<t, e>>].use) /\ HasFlowsOf(handles[<<t, e>>].use, e)
    BY PublicationIs
  <2>2. handles[<<t, e>>].use.in # NoFlow
    BY <2>1 DEF Served, Sound, FetchesKept
  <2>3. g # NoFlow
    <3>1. CaptureOf(t, e).captured.use.in # NoFlow
      BY <2>1, <2>2, OutcomeHasInput DEF Served, CaptureOf
    <3> QED
      BY <2>1, <3>1
  <2>4. g \notin FetchFlows
    <3>1. AnyStep /\ Kept
      BY DEF AnyStep, Sound
    <3>2. ContextsGoOn
      BY <3>1, ContextsOfStep
    <3>3. \A u : u = PublicationOf(t, e).use => ~Fetched(u)
      BY <2>1, <3>1, <3>2, CaptureOwned, OwnedNotFetched
    <3> QED
      BY <3>3 DEF Fetched
  <2> QED
    BY <2>3, <2>4
<1>4. AliasesOwned
  BY DEF Sound, FlowsOwned, AliasesOwned
<1>5. \A l \in links : l[1] \in FetchFlows /\ l[1] \notin DOMAIN alias
  BY <1>2
<1>6. Representative(alias', g) = Representative(alias, g)
  BY <1>1, <1>3, <1>4, <1>5, FetchLinks
<1>7. Representative(alias, f) = f /\ f # NoFlow
  BY <1>2, FlowSetsApart DEF Representative
<1>8. Representative(alias, g) \notin FetchFlows
  BY <1>3, <1>4, OwnedIsApart DEF AliasesOwned, Representative
<1>9. ~Equivalent(alias, f, g)
  BY <1>2, <1>7, <1>8 DEF Equivalent
<1>10. \A l \in LinksFor(links, f) : l[2] = g
  <2> SUFFICES ASSUME NEW l \in LinksFor(links, f) PROVE l[2] = g
    OBVIOUS
  <2>1. PICK x \in data : l = <<VersionIn(w, x), PublicationOf(t, x).use.in>>
    BY DEF LinksFor
  <2>2. Equivalent(alias, VersionIn(w, x), f)
    BY <2>1 DEF LinksFor
  <2>3. VersionIn(w, x) = f
    BY <1>2, <1>7, <2>2 DEF Equivalent, Representative
  <2> QED
    BY <1>2, <2>1, <2>3
<1>11. <<f, g>> \in LinksFor(links, f)
  BY <1>3, <1>7, <1>9 DEF LinksFor, Equivalent
<1>12. Representative(alias', f) = Representative(alias, g)
  BY <1>1, <1>10, <1>11, LinkedIs
<1> QED
  BY <1>6, <1>12 DEF Equivalent

(***************************************************************************)
(* What is fetched stays what is published                                 *)
(***************************************************************************)
\* As long as somebody holds what was fetched.
LEMMA FetchedGoesOn ==
  ASSUME Sound, AnyStep, ContextsGoOn, NEW k \in DOMAIN handles, NEW u, NEW w, NEW e,
         k[2] = e, e \in Elements, handles[k].use.anti_out = u.anti_out,
         IsFetchedAs(u, w, e)
  PROVE  IsFetchedAs(u, w, e)'
<1> DEFINE p == <<w, e>>
<1>0. Kept /\ OutsKept /\ FetchesKept /\ program' = program
  BY DEF Sound, ContextsGoOn
<1>1. PICK x \in fetches : x.of = <<w, e>> /\ x.in = u.in
  BY DEF IsFetchedAs
<1>2. w \in Contexts /\ IsWork(w)
  <2>1. x.of[1] = w
    BY <1>1
  <2> QED
    BY <1>0, <2>1, FetchedBy
<1>3. IsWork(w)'
  BY <1>0, <1>2, NamesStay
<1>4. \E y \in fetches' : y.of = <<w, e>> /\ y.in = u.in
  <2>1. fetches \subseteq fetches'
    <3>1. ASSUME NEW t, Fetch(t) PROVE fetches \subseteq fetches'
      BY <3>1 DEF Fetch
    <3> QED
      BY <3>1, FetchesCome
  <2> QED
    BY <1>1, <2>1
<1>5. w \in DOMAIN collections' => u.in = VersionIn(w, e)' /\ u.anti_out = VersionAnti(w, e)'
  <2> SUFFICES ASSUME w \in DOMAIN collections'
               PROVE  u.in = VersionIn(w, e)' /\ u.anti_out = VersionAnti(w, e)'
    OBVIOUS
  <2>1. w \in DOMAIN collections /\ collections'[w] = collections[w]
    BY <1>0, <1>2, CollectionsCome
  <2> QED
    BY <2>1 DEF IsFetchedAs, VersionIn, VersionAnti
<1>6. ASSUME p \in DOMAIN publications'
      PROVE  /\ ~publications'[p].released
             /\ Equivalent(alias', u.in, publications'[p].use.in)
             /\ u.anti_out = publications'[p].anti_out
  <2>1. p[1] = w /\ p[2] = e
    OBVIOUS
  <2> HIDE DEF p
  <2>2. PublicationStays(p) \/ \E t : PublicationMade(t, p)
    BY <1>0, <1>6, PublicationsCome
  <2>3. CASE PublicationStays(p)
    <3>1. /\ p \in DOMAIN publications
          /\ ~publications[p].released
          /\ Equivalent(alias, u.in, publications[p].use.in)
          /\ u.anti_out = publications[p].anti_out
      BY <2>3 DEF IsFetchedAs, p, PublicationStays
    <3>2. CASE publications'[p] = publications[p]
      BY <3>1, <3>2, EquivalenceGoesOn
    <3>3. CASE ReleasePublication(p)
      <4>1. [by |-> k[1], use |-> handles[k].use] \in Held(e)
        BY DEF Held
      <4>2. [by |-> k[1], use |-> handles[k].use] \in UsesOf(p[2])
        BY <2>1, <4>1 DEF UsesOf
      <4>3. ~Equivalent(alias, handles[k].use.anti_out, publications[p].anti_out)
        BY <3>3, <4>2 DEF ReleasePublication
      <4> QED
        BY <3>1, <4>3 DEF Equivalent
    <3> QED
      BY <2>3, <3>2, <3>3 DEF PublicationStays
  <2>4. ASSUME NEW t, PublicationMade(t, p)
        PROVE  /\ ~publications'[p].released
               /\ Equivalent(alias', u.in, publications'[p].use.in)
               /\ u.anti_out = publications'[p].anti_out
    <3>1. /\ Publishes(t) /\ e \in PublishedElements(t) /\ w = Front(t)
          /\ publications'[p] = PublicationOf(t, e)
      BY <2>1, <2>4 DEF PublicationMade
    <3>2. w \in DOMAIN collections
      BY <3>1, PublicationIs
    <3>3. u.in = VersionIn(w, e) /\ u.anti_out = VersionAnti(w, e)
      BY <3>2 DEF IsFetchedAs
    <3>4. /\ ~PublicationOf(t, e).released
          /\ PublicationOf(t, e).anti_out = VersionAnti(Front(t), e)
      BY DEF PublicationOf
    <3>5. Equivalent(alias', VersionIn(Front(t), e), PublicationOf(t, e).use.in)
      BY <3>1, PublishedIsFetched
    <3> QED
      BY <3>1, <3>3, <3>4, <3>5
  <2> QED
    BY <2>2, <2>3, <2>4
<1>7. u.in.element = e /\ MayNotWrite(u)
  BY DEF IsFetchedAs
<1> QED
  BY <1>3, <1>4, <1>5, <1>6, <1>7 DEF IsFetchedAs, MayNotWrite

\* What is only read is a dependency, if it is touched at all.
LEMMA ReadIsDependency ==
  ASSUME NEW u, InShape(u), MayNotWrite(u), u.immediate # None
  PROVE  is_dependency(u)
<1>1. u.immediate \in FrontEndPermissions
  BY DEF InShape, FrontEndPairs, PermissionsAmong, PermissionsOf, Perms
<1> QED
  BY <1>1 DEF FrontEndPermissions, None, Read, Modify, MayNotWrite, is_dependency

\* What runs and reads what it has fetched finds it published.
LEMMA RunsPublished ==
  ASSUME Sound, NEW contexts, RunsReady(contexts), NEW k \in DOMAIN handles,
         k[1] \in contexts, Fetched(handles[k].use), handles[k].use.immediate # None
  PROVE  VersionOf(k) \in DOMAIN publications
<1> DEFINE u == handles[k].use
           c == k[1]
           e == k[2]
           w == u.in.version
<1>0. Kept /\ OutsKept /\ HoldersInShape /\ HoldersApart /\ FetchesKept
  BY DEF Sound
<1>1. c \in Contexts /\ status[c] = "pending" /\ Runnable(c)
  BY DEF RunsReady, RunsPending
<1>2. ~IsWork(c)
  BY <1>0, <1>1 DEF Kept, ContextsKept, Stages
<1>3. e \in Data /\ e # Parameter /\ e \in Elements /\ k = <<c, e>>
  <2>1. k \in Contexts \X Data
    BY <1>0 DEF Kept, HoldersKept
  <2>2. e # Parameter
    BY <1>0 DEF HoldersApart
  <2> QED
    BY <2>1, <2>2 DEF Data
<1>4. IsFetchedAs(u, w, e)
  BY DEF Sound, FetchedAsPublished
<1>5. PICK x \in fetches : x.of = <<w, e>> /\ x.in = u.in
  BY <1>4 DEF IsFetchedAs
<1>6. is_dependency(u)
  BY <1>0, <1>4, ReadIsDependency DEF HoldersInShape, IsHolderInShape, IsFetchedAs
<1>7. u \in UsesBy(c, e)
  <2>1. [by |-> c, use |-> u] \in Held(e)
    BY DEF Held
  <2>2. [by |-> c, use |-> u] \in UsesOf(e)
    BY <2>1 DEF UsesOf
  <2> QED
    BY <2>2 DEF UsesBy
<1>8. Available(alias, UsesBut(c, e), u.in)
  BY <1>1, <1>3, <1>6, <1>7 DEF Runnable, Satisfied
<1>9. x.in \in DOMAIN alias
  <2> SUFFICES ASSUME x.in \notin DOMAIN alias PROVE FALSE
    OBVIOUS
  <2> DEFINE v == MakeUse(NoRequest, UseFlows(NoFlow, x.in, NoFlow, NoFlow), FALSE)
  <2>1. x.of[1] = w /\ x.of[2] = e /\ IsWork(w)
    BY <1>4, <1>5 DEF IsFetchedAs
  <2>2. v.out = x.in
    BY DEF MakeUse, UseFlows
  <2> HIDE DEF v
  <2>3. [by |-> w, use |-> v] \in Awaited(e)
    BY <2>1 DEF Awaited, v
  <2>4. [by |-> w, use |-> v] \in UsesOf(e)
    BY <1>3, <2>3 DEF UsesOf
  <2>5. v \in UsesBut(c, e)
    BY <1>2, <2>1, <2>4 DEF UsesBut
  <2> QED
    BY <1>5, <1>8, <2>2, <2>5 DEF Available, Equivalent
<1>10. u.in \in FetchFlows /\ IsDataFlow(u.in)
  BY <1>0 DEF Fetched, OutsKept, KindsOfHolders, KindsKept
<1>11. <<u.in.version, u.in.element>> \in DOMAIN publications
  BY <1>0, <1>5, <1>9, <1>10, FlowSetsApart DEF OutsKept, VersionsPublished, IsDataFlow
<1> QED
  BY <1>4, <1>11 DEF VersionOf, IsFetchedAs

\* Every step keeps what was fetched as it is published.
LEMMA FetchedStayPublished ==
  ASSUME Sound, AnyStep, ContextsGoOn
  PROVE  FetchedAsPublished'
<1>0. Kept /\ ContextsKept /\ OutsKept /\ FetchesKept /\ program' = program
  BY DEF Sound, Kept, ContextsGoOn
<1>1. DOMAIN publications \subseteq DOMAIN publications'
  BY <1>0, PublicationsCome
<1>2. ASSUME NEW k \in DOMAIN handles, Fetched(handles[k].use)
      PROVE  /\ IsFetchedAs(handles[k].use, handles[k].use.in.version, k[2])
             /\ k[2] \in Elements /\ k[1] \in Contexts
  <2>1. k \in Contexts \X Data /\ k[2] # Parameter
    BY <1>0, <1>2 DEF Sound, HoldersApart, Kept, HoldersKept
  <2> QED
    BY <1>2, <2>1 DEF Sound, FetchedAsPublished, Data
<1>3. ASSUME NEW k \in DOMAIN handles, NEW u, u = handles[k].use, Fetched(u), NEW w, w = u.in.version
      PROVE  /\ IsFetchedAs(u, w, k[2])'
             /\ Running(k[1])' /\ u.immediate # None => <<w, k[2]>> \in DOMAIN publications'
  <2>1. IsFetchedAs(u, w, k[2]) /\ k[2] \in Elements /\ k[1] \in Contexts
    BY <1>2, <1>3
  <2>2. ASSUME Running(k[1])', u.immediate # None
        PROVE  <<w, k[2]>> \in DOMAIN publications'
    <3>1. CASE Running(k[1])
      BY <1>1, <1>3, <2>2, <3>1 DEF Sound, FetchedAsPublished, VersionOf
    <3>2. ASSUME NEW contexts, RunsReady(contexts), k[1] \in contexts
          PROVE  <<w, k[2]>> \in DOMAIN publications'
      <4>1. VersionOf(k) \in DOMAIN publications
        BY <1>3, <2>2, <3>2, RunsPublished
      <4> QED
        BY <1>1, <1>3, <4>1 DEF VersionOf
    <3> QED
      BY <2>1, <2>2, <3>1, <3>2 DEF ContextsGoOn
  <2> QED
    BY <1>3, <2>1, <2>2, FetchedGoesOn
<1>4. ASSUME NEW k, k \in DOMAIN handles', NEW u, u = handles'[k].use, Fetched(u), NEW w, w = u.in.version
      PROVE  /\ IsFetchedAs(u, w, k[2])'
             /\ Running(k[1])' /\ u.immediate # None => <<w, k[2]>> \in DOMAIN publications'
  <2>0. HandleCame(k)
    BY <1>0, <1>4, HandlesCome
  <2>1. CASE HandleStays(k)
    BY <1>3, <1>4, <2>1 DEF HandleStays
  <2>2. ASSUME NEW c, HandleLeft(c, k) \/ HandleCaptured(c, k)
        PROVE  Fetched(handles[<<c, k[2]>>].use)
    <3>1. /\ Capturing(c) /\ k[2] \in Requested(c) /\ Served(handles, <<c, k[2]>>, RequestsOf(c)[k[2]])
          /\ handles'[k] \in {CaptureOf(c, k[2]).source, CaptureOf(c, k[2]).captured}
      BY <2>2 DEF HandleLeft, HandleCaptured, Capturing
    <3> SUFFICES ASSUME ~Fetched(handles[<<c, k[2]>>].use) PROVE FALSE
      OBVIOUS
    <3>2. HasFlowsOf(handles[<<c, k[2]>>].use, k[2])
      BY <3>1, FetchedStays
    <3>3. HasFlowsOf(u, k[2])'
      BY <1>0, <1>4, <3>1, <3>2, CaptureOwned
    <3> QED
      BY <1>4, <3>3, OwnedNotFetched
  <2>3. ASSUME NEW c, HandleLeft(c, k)
        PROVE  /\ IsFetchedAs(u, w, k[2])'
               /\ Running(k[1])' /\ u.immediate # None => <<w, k[2]>> \in DOMAIN publications'
    <3>1. /\ k = <<c, k[2]>> /\ Served(handles, <<c, k[2]>>, RequestsOf(c)[k[2]])
          /\ handles'[k] = CaptureOf(c, k[2]).source
      BY <2>3 DEF HandleLeft
    <3>2. handles'[k] = handles[k] /\ k \in DOMAIN handles
      BY <2>2, <2>3, <3>1, FetchedStays DEF Served
    <3> QED
      BY <1>3, <1>4, <3>2
  <2>4. ASSUME NEW c, HandleCaptured(c, k)
        PROVE  /\ IsFetchedAs(u, w, k[2])'
               /\ ~Running(k[1])'
    <3> DEFINE e == k[2]
               s == handles[<<c, e>>].use
    <3>1. /\ Making(c) /\ k = <<Place(c), e>> /\ Served(handles, <<c, e>>, RequestsOf(c)[e])
          /\ handles'[k] = CaptureOf(c, e).captured
      BY <2>4 DEF HandleCaptured
    <3>2. Fetched(s) /\ <<c, e>> \in DOMAIN handles
      BY <2>2, <2>4, <3>1 DEF Served
    <3>3. MayNotWrite(u) /\ u.in = s.in /\ u.anti_out = s.anti_out
      BY <1>4, <3>1, <3>2, FetchedStays
    <3>4. <<c, e>>[2] = e /\ <<c, e>>[1] = c
      OBVIOUS
    <3>5. IsFetchedAs(s, w, e) /\ e \in Elements
      BY <1>2, <1>4, <3>2, <3>3, <3>4
    <3>6. IsFetchedAs(u, w, e)
      BY <3>3, <3>5 DEF IsFetchedAs
    <3>7. IsFetchedAs(u, w, e)'
      BY <3>2, <3>3, <3>4, <3>5, <3>6, FetchedGoesOn
    <3>8. c \in Contexts /\ status[c] = "running" /\ Place(c) \notin Contexts
      BY <1>0, <3>1, CapturingIs, PlaceIsNew DEF Capturing
    <3>9. \A x \in Contexts' \ Contexts : ~Running(x)'
      BY DEF ContextsGoOn
    <3>10. \A x : x \notin Contexts => ~Running(x)'
      BY <3>9 DEF Running
    <3>11. k[1] \notin Contexts
      BY <3>1, <3>8
    <3> QED
      BY <3>7, <3>10, <3>11
  <2>5. ASSUME NEW t, HandleFetched(t, k)
        PROVE  /\ IsFetchedAs(u, w, k[2])'
               /\ u.immediate = None
    <3> DEFINE e == k[2]
               v == Front(t)
               made == FetchedUse(collections[v], v, e)
    <3>1. t \in Contexts /\ Fetch(t) /\ e \in FetchedElements(t) /\ u = made.use
      BY <1>4, <2>5 DEF HandleFetched
    <3>2. /\ v \in Contexts /\ IsWork(v) /\ t \in IndexTasks(v) /\ v \in DOMAIN collections
          /\ status[t] = "running"
          /\ e \in Elements /\ Last(t) \in program[v].readers[e]
          /\ u.in = VersionIn(v, e) /\ u.anti_out = VersionAnti(v, e)
          /\ u.in.version = v /\ u.in.element = e
          /\ PermissionsOf(u) = Perms(Read, None) /\ MayNotWrite(u)
      BY <1>0, <3>1, FetchIs
    <3>3. w = v
      BY <1>4, <3>2
    <3> HIDE DEF v, e, made
    <3>4. UNCHANGED <<program, collections, alias, publications>>
      BY <3>1 DEF Fetch
    <3>5. IsWork(w)'
      BY <1>0, <3>2, <3>3, NamesStay
    <3>6. VersionIn(w, e)' = VersionIn(w, e) /\ VersionAnti(w, e)' = VersionAnti(w, e)
      BY <3>4 DEF VersionIn, VersionAnti
    <3>7. ASSUME <<w, e>> \in DOMAIN publications
          PROVE  /\ ~publications[<<w, e>>].released
                 /\ Equivalent(alias, u.in, publications[<<w, e>>].use.in)
                 /\ u.anti_out = publications[<<w, e>>].anti_out
      <4>1. <<w, e>>[1] = w /\ <<w, e>>[2] = e
        OBVIOUS
      <4>2. /\ Equivalent(alias, VersionIn(w, e), publications[<<w, e>>].use.in)
            /\ publications[<<w, e>>].anti_out = VersionAnti(w, e)
            /\ publications[<<w, e>>].released =>
                 \A i \in program[w].readers[e] : Over(Append(w, i))
        BY <3>2, <3>3, <3>7, <4>1 DEF Sound, PublishedAsMade
      <4>3. t = Append(w, Last(t))
        <5>1. PICK i \in DenseIndices(program[w].tasks) : t = Append(w, i)
          BY <3>2, <3>3 DEF IndexTasks
        <5> QED
          BY <1>0, <3>2, <3>3, <5>1, IndexTaskNames DEF ContextsKept, Named
      <4>4. ~Over(t)
        BY <3>2 DEF Over
      <4> QED
        BY <3>2, <3>3, <4>2, <4>3, <4>4
    <3>8. \E x \in fetches' : x.of = <<w, e>> /\ x.in = u.in
      <4>1. [of |-> <<v, e>>, by |-> t, in |-> FetchedUse(collections[v], v, e).use.in] \in fetches'
        BY <3>1 DEF Fetch, v
      <4> QED
        BY <3>1, <3>3, <4>1 DEF made
    <3>9. u.immediate = None
      BY <3>2 DEF PermissionsOf, Perms
    <3>10. w \in DOMAIN collections' => u.in = VersionIn(w, e)' /\ u.anti_out = VersionAnti(w, e)'
      BY <3>2, <3>3, <3>6
    <3>11. IsFetchedAs(u, w, e)'
      BY <3>2, <3>4, <3>5, <3>7, <3>8, <3>10 DEF IsFetchedAs, MayNotWrite
    <3> QED
      BY <3>9, <3>11 DEF e
  <2>6. ASSUME NEW v, HandleShared(v, k) PROVE FALSE
    <3>1. u.in = handles[<<v, Parameter>>].use.in /\ ~Fetched(handles[<<v, Parameter>>].use)
      BY <1>4, <2>6, SharedFrom
    <3> QED
      BY <1>4, <3>1 DEF Fetched
  <2>7. ASSUME NEW v, HandleLocal(v, k) PROVE FALSE
    <3>1. /\ k[2] \in Elements /\ IsHolderOf(collections[v], WholeFlows)
          /\ u.in = Indexed(collections[v].use.in, k[2])
      BY <1>4, <2>7, LocalFrom
    <3>2. << >> \in Seq(Nat)
      OBVIOUS
    <3>3. u.in \in {NoFlow} \cup ElementFlows
      BY <3>1, <3>2, PartsAreFlows DEF IsHolderOf, HasFlows
    <3> QED
      BY <1>4, <3>3, FlowSetsApart DEF Fetched
  <2> QED
    BY <2>0, <2>1, <2>3, <2>4, <2>5, <2>6, <2>7 DEF HandleCame
<1> SUFFICES ASSUME NEW k, k \in DOMAIN handles', Fetched(handles[k].use)'
             PROVE  /\ IsFetchedAs(handles[k].use, handles[k].use.in.version, k[2])'
                    /\ (Running(k[1]) /\ handles[k].use.immediate # None
                          => VersionOf(k) \in DOMAIN publications)'
  BY DEF FetchedAsPublished
<1>5. \A u, w : u = handles'[k].use /\ w = u.in.version /\ Fetched(u) =>
        /\ IsFetchedAs(u, w, k[2])'
        /\ Running(k[1])' /\ u.immediate # None => <<w, k[2]>> \in DOMAIN publications'
  BY <1>4
<1> QED
  BY <1>5 DEF IsFetchedAs, VersionOf, Fetched, VersionIn, VersionAnti, MayNotWrite, Running, IsWork, Equivalent

\* A publication that has been fetched as often as it has readers was fetched by
\* each of them.
LEMMA AllHaveFetched ==
  ASSUME Kept, FetchesKept, NEW w \in Contexts, NEW e \in Elements, IsWork(w),
         Cardinality({f \in fetches : f.of = <<w, e>>}) >= Cardinality(program[w].readers[e]),
         NEW i \in program[w].readers[e]
  PROVE  \E x \in fetches : x.of = <<w, e>> /\ x.by = Append(w, i)
<1> DEFINE S == {f \in fetches : f.of = <<w, e>>}
           R == program[w].readers[e]
           T == R \ {i}
           g == [f \in S |-> Last(f.by)]
<1>1. program \in Programs
  BY DEF Kept, ContextsKept, Named
<1>2. IsFiniteSet(R)
  <2>1. program[w].readers \in [Elements -> SUBSET DenseIndices(program[w].tasks)]
        /\ program[w].tasks.size \in Nat
    BY <1>1, ProgramsAssumption DEF IsWork, Elements, PlainRange
  <2>2. R \subseteq 0 .. (program[w].tasks.size - 1)
    BY <2>1 DEF DenseIndices
  <2>3. IsFiniteSet(0 .. (program[w].tasks.size - 1))
    <3>1. 0 \in Int /\ program[w].tasks.size - 1 \in Int
      BY <2>1
    <3> QED
      BY <3>1, FS_Interval
  <2> QED
    BY <2>2, <2>3, FS_Subset
<1>3. IsFiniteSet(T) /\ Cardinality(T) = Cardinality(R) - 1 /\ Cardinality(R) \in Nat
  BY <1>2, FS_RemoveElement, FS_CardinalityType
<1> SUFFICES ASSUME \A x \in S : x.by # Append(w, i) PROVE FALSE
  OBVIOUS
<1>4. \A x \in S : Last(x.by) \in R /\ x.by = Append(w, Last(x.by))
  <2> TAKE x \in S
  <2>1. x.of[1] = w /\ x.of[2] = e
    OBVIOUS
  <2>2. x.by \in IndexTasks(w) /\ Last(x.by) \in R
    BY <2>1, FetchedBy
  <2>3. PICK j \in DenseIndices(program[w].tasks) : x.by = Append(w, j)
    BY <2>2 DEF IndexTasks
  <2> QED
    BY <1>1, <2>2, <2>3, IndexTaskNames
<1>5. g \in [S -> T]
  BY <1>4
<1>6. \A x, y \in S : g[x] = g[y] => x = y
  <2>1. \A x, y \in S : x.by = y.by => x = y
    BY DEF FetchesKept
  <2> QED
    BY <1>4, <2>1
<1>7. g \in Injection(S, T)
  BY <1>5, <1>6 DEF Injection, IsInjective
<1>8. IsFiniteSet(S) /\ Cardinality(S) <= Cardinality(T)
  BY <1>3, <1>7, FS_Injection
<1>9. Cardinality(S) \in Nat
  BY <1>8, FS_CardinalityType
<1> QED
  BY <1>3, <1>8, <1>9

\* Publications stay what their works' collections say.
LEMMA PublishedStayMade ==
  ASSUME Sound, AnyStep, ContextsGoOn
  PROVE  PublishedAsMade'
<1>0. Kept /\ ContextsKept /\ OutsKept /\ FetchesKept /\ program' = program
  BY DEF Sound, Kept, ContextsGoOn
<1>1. ASSUME NEW p \in DOMAIN publications, ReleasePublication(p), NEW i \in program[p[1]].readers[p[2]]
      PROVE  Over(Append(p[1], i))
  <2> DEFINE w == p[1]
             e == p[2]
             t == Append(w, i)
  <2>1. p \in Contexts \X Elements /\ IsWork(w)
    BY <1>0 DEF Kept, BackendKept, OutsKept, PublicationsMade
  <2>2. p = <<w, e>> /\ w \in Contexts /\ e \in Elements
    BY <2>1
  <2>3. publications[p].n_fetchers = Cardinality(program[w].readers[e])
    BY DEF Sound, PublishedAsMade
  <2>4. Cardinality({f \in fetches : f.of = <<w, e>>}) >= Cardinality(program[w].readers[e])
    BY <1>1, <2>2, <2>3 DEF ReleasePublication
  <2>5. PICK x \in fetches : x.of = <<w, e>> /\ x.by = t
    BY <1>0, <2>1, <2>2, <2>4, AllHaveFetched
  <2> SUFFICES ASSUME ~Over(t) PROVE FALSE
    OBVIOUS
  <2>6. x.of[1] = w /\ x.of[2] = e
    BY <2>5
  <2> DEFINE k == <<t, e>>
  <2>7. k \in DOMAIN handles /\ handles[k].use.in = x.in /\ x.in \in FetchFlows
    BY <1>0, <2>5, <2>6 DEF FetchesKept
  <2>8. k[1] = t /\ k[2] = e
    OBVIOUS
  <2> HIDE DEF k, t
  <2>9. x.in.version = w
    BY <1>0, <2>6, <2>7, FlowSetsApart DEF OutsKept, FetchesNamed
  <2>10. IsFetchedAs(handles[k].use, w, e)
    BY <2>7, <2>8, <2>9 DEF Sound, FetchedAsPublished, Fetched
  <2>11. handles[k].use.anti_out = publications[p].anti_out
    BY <2>2, <2>10 DEF IsFetchedAs
  <2>12. [by |-> k[1], use |-> handles[k].use] \in UsesOf(e)
    BY <2>7, <2>8 DEF UsesOf, Held
  <2>13. ~Equivalent(alias, handles[k].use.anti_out, publications[p].anti_out)
    BY <1>1, <2>12 DEF ReleasePublication
  <2> QED
    BY <2>11, <2>13 DEF Equivalent
<1>2. ASSUME NEW w, NEW e, w \in DOMAIN collections', w \in Contexts, IsWork(w)
      PROVE  /\ w \in DOMAIN collections
             /\ VersionIn(w, e)' = VersionIn(w, e)
             /\ VersionAnti(w, e)' = VersionAnti(w, e)
  <2>1. w \in DOMAIN collections /\ collections'[w] = collections[w]
    BY <1>0, <1>2, CollectionsCome
  <2> QED
    BY <2>1 DEF VersionIn, VersionAnti
<1>3. ASSUME NEW p, p \in DOMAIN publications'
      PROVE  /\ p[1] \in DOMAIN collections' =>
                  /\ Equivalent(alias', VersionIn(p[1], p[2])', publications'[p].use.in)
                  /\ publications'[p].anti_out = VersionAnti(p[1], p[2])'
             /\ publications'[p].n_fetchers = Cardinality(program[p[1]].readers[p[2]])
             /\ publications'[p].released =>
                  \A i \in program[p[1]].readers[p[2]] : Over(Append(p[1], i))'
  <2>1. PublicationStays(p) \/ \E t : PublicationMade(t, p)
    BY <1>0, <1>3, PublicationsCome
  <2>2. ASSUME PublicationStays(p)
        PROVE  /\ p \in DOMAIN publications
               /\ publications'[p].use = publications[p].use
               /\ publications'[p].anti_out = publications[p].anti_out
               /\ publications'[p].n_fetchers = publications[p].n_fetchers
               /\ publications'[p].released => publications[p].released \/ ReleasePublication(p)
    <3>1. DOMAIN publications[p] = {"at", "use", "n_fetchers", "anti_out", "released"}
      BY <1>0, <2>2 DEF PublicationStays, OutsKept, PublicationsMade
    <3> QED
      BY <2>2, <3>1 DEF PublicationStays
  <2>3. CASE PublicationStays(p)
    <3>1. p \in Contexts \X Elements /\ IsWork(p[1])
      BY <1>0, <2>2, <2>3 DEF Kept, BackendKept, OutsKept, PublicationsMade
    <3>2. p[1] \in Contexts
      BY <3>1
    <3>3. ASSUME p[1] \in DOMAIN collections'
          PROVE  /\ Equivalent(alias', VersionIn(p[1], p[2])', publications'[p].use.in)
                 /\ publications'[p].anti_out = VersionAnti(p[1], p[2])'
      <4>1. /\ p[1] \in DOMAIN collections
            /\ VersionIn(p[1], p[2])' = VersionIn(p[1], p[2])
            /\ VersionAnti(p[1], p[2])' = VersionAnti(p[1], p[2])
        BY <1>2, <3>1, <3>2, <3>3
      <4>2. /\ Equivalent(alias, VersionIn(p[1], p[2]), publications[p].use.in)
            /\ publications[p].anti_out = VersionAnti(p[1], p[2])
        BY <2>2, <2>3, <4>1 DEF Sound, PublishedAsMade
      <4>3. Equivalent(alias', VersionIn(p[1], p[2]), publications[p].use.in)
        BY <4>2, EquivalenceGoesOn
      <4> QED
        BY <2>2, <2>3, <4>1, <4>2, <4>3
    <3>4. publications'[p].released =>
            \A i \in program[p[1]].readers[p[2]] : Over(Append(p[1], i))'
      <4>1. publications'[p].released =>
              \A i \in program[p[1]].readers[p[2]] : Over(Append(p[1], i))
        BY <1>1, <2>2, <2>3 DEF Sound, PublishedAsMade
      <4>2. \A c : Over(c) => Over(c)'
        BY DEF ContextsGoOn
      <4> QED
        BY <4>1, <4>2
    <3>5. publications[p].n_fetchers = Cardinality(program[p[1]].readers[p[2]])
      BY <2>2, <2>3 DEF Sound, PublishedAsMade
    <3> QED
      BY <2>2, <2>3, <3>3, <3>4, <3>5
  <2>4. ASSUME NEW t, PublicationMade(t, p)
        PROVE  /\ Equivalent(alias', VersionIn(p[1], p[2])', publications'[p].use.in)
               /\ publications'[p].anti_out = VersionAnti(p[1], p[2])'
               /\ publications'[p].n_fetchers = Cardinality(program[p[1]].readers[p[2]])
               /\ ~publications'[p].released
    <3>1. /\ Publishes(t) /\ p[2] \in PublishedElements(t) /\ p = <<Front(t), p[2]>>
          /\ publications'[p] = PublicationOf(t, p[2])
      BY <2>4 DEF PublicationMade
    <3>2. p[1] = Front(t)
      BY <3>1
    <3>3. collections' = collections
      BY <3>1 DEF Publishes
    <3>4. VersionIn(p[1], p[2])' = VersionIn(p[1], p[2]) /\ VersionAnti(p[1], p[2])' = VersionAnti(p[1], p[2])
      BY <3>3 DEF VersionIn, VersionAnti
    <3>5. Equivalent(alias', VersionIn(p[1], p[2]), PublicationOf(t, p[2]).use.in)
      BY <3>1, <3>2, PublishedIsFetched
    <3>6. /\ PublicationOf(t, p[2]).anti_out = VersionAnti(p[1], p[2])
          /\ PublicationOf(t, p[2]).n_fetchers = Cardinality(program[p[1]].readers[p[2]])
          /\ ~PublicationOf(t, p[2]).released
      BY <3>2 DEF PublicationOf
    <3> QED
      BY <3>1, <3>4, <3>5, <3>6
  <2> QED
    BY <2>1, <2>3, <2>4
<1> SUFFICES ASSUME NEW p, p \in DOMAIN publications'
             PROVE  (/\ p[1] \in DOMAIN collections =>
                          /\ Equivalent(alias, VersionIn(p[1], p[2]), publications[p].use.in)
                          /\ publications[p].anti_out = VersionAnti(p[1], p[2])
                     /\ publications[p].n_fetchers = Cardinality(program[p[1]].readers[p[2]])
                     /\ publications[p].released =>
                          \A i \in program[p[1]].readers[p[2]] : Over(Append(p[1], i)))'
  BY DEF PublishedAsMade
<1>4. /\ p[1] \in DOMAIN collections' =>
           /\ Equivalent(alias', VersionIn(p[1], p[2])', publications'[p].use.in)
           /\ publications'[p].anti_out = VersionAnti(p[1], p[2])'
      /\ publications'[p].n_fetchers = Cardinality(program[p[1]].readers[p[2]])
      /\ publications'[p].released =>
           \A i \in program[p[1]].readers[p[2]] : Over(Append(p[1], i))'
  BY <1>3
<1> QED
  BY <1>0, <1>4 DEF Equivalent

(***************************************************************************)
(* What is known of holders, flows, publications and fetches holds always  *)
(***************************************************************************)
LEMMA SoundInit == Init => Sound
<1> SUFFICES ASSUME Init PROVE Sound
  OBVIOUS
<1>1. /\ collections = Single(Root, Initially(Root))
      /\ handles = Single(<<Root, Parameter>>, Initially(Append(Root, Parameter)))
      /\ alias = << >> /\ publications = << >> /\ fetches = {}
      /\ status = Single(Root, "running")
  BY DEF Init
<1>2. /\ DOMAIN collections = {Root} /\ collections[Root] = Initially(Root)
      /\ DOMAIN handles = {<<Root, Parameter>>}
      /\ handles[<<Root, Parameter>>] = Initially(Append(Root, Parameter))
      /\ DOMAIN alias = {} /\ DOMAIN publications = {}
      /\ Contexts = {Root}
  BY <1>1 DEF Single, Contexts
<1>3. Kept /\ OutsKept
  BY KeptInit, OutsInit
<1>4. ~IsIndexTask(Root) /\ ~IsBeneath(Root) /\ ~IsWork(Root)
  <2>1. ~IsWork(Root)
    BY <1>3, WorkNames DEF Kept, ContextsKept
  <2> QED
    BY <2>1 DEF IsIndexTask, IsBeneath
<1> DEFINE own == Append(Root, Parameter)
           k == <<Root, Parameter>>
<1>5. /\ Root \in Seq(Nat) /\ own \in Seq(Nat) /\ own # << >>
      /\ Front(own) = Root /\ Last(own) = Parameter
  <2>1. Root \in Seq(Nat) /\ Parameter \in Nat
    BY EmptySeq, ElementsAreNumbers DEF Root
  <2> QED
    BY <2>1, NamesMade
<1>6. k[1] = Root /\ k[2] = Parameter
  OBVIOUS
<1> HIDE DEF own, k
<1>7. ASSUME NEW owner \in Seq(Nat)
      PROVE  /\ Initially(owner).use.in = Flow(owner, "in")
             /\ Initially(owner).use.in # NoFlow
             /\ ~Fetched(Initially(owner).use)
             /\ IsHolderInShape(Initially(owner))
             /\ \A f \in {Initially(owner).use.in, Initially(owner).use.out,
                          Initially(owner).use.anti_in, Initially(owner).use.anti_out} :
                  f = NoFlow \/ (f \in WholeFlows /\ f.owner = owner)
  <2> DEFINE h == Initially(owner)
  <2>1. /\ IsHolderOf(h, WholeFlows)
        /\ h.use.in = Flow(owner, "in") /\ h.use.out = Flow(owner, "out")
        /\ h.use.anti_in = NoFlow /\ h.use.anti_out = Flow(owner, "anti_out")
    BY InitialIs
  <2>2. h.use.scheduling = Modify /\ h.use.immediate = None /\ h.could_be_alias = TRUE
    BY DEF Initially, Holder, MakeUse, Perms
  <2> HIDE DEF h
  <2>3. IsHolderInShape(h)
    <3>1. Perms(Modify, None) \in FrontEndPairs
      BY DEF FrontEndPairs, FrontEndPermissions, PermissionsAmong, Perms, None, Read, Modify
    <3>2. "write" \in Modify /\ "write" \notin None
      BY DEF Modify, None
    <3> QED
      BY <2>2, <3>1, <3>2 DEF IsHolderInShape, InShape, PermissionsOf
  <2>4. \A place : Flow(owner, place).owner = owner /\ Flow(owner, place).place = place
    BY DEF Flow
  <2>5. h.use.in # NoFlow
    <3>1. h.use.in.place = "in" /\ NoFlow.place = "none"
      BY <2>1, <2>4 DEF NoFlow, Flow
    <3> QED
      BY <3>1
  <2>6. ~Fetched(h.use)
    BY <2>1, FlowSetsApart DEF Fetched, IsHolderOf, HasFlows
  <2>7. \A f \in {h.use.in, h.use.out, h.use.anti_in, h.use.anti_out} :
          f = NoFlow \/ (f \in WholeFlows /\ f.owner = owner)
    BY <2>1, <2>4 DEF IsHolderOf, HasFlows
  <2> QED
    BY <2>1, <2>3, <2>5, <2>6, <2>7 DEF h
<1>8. DOMAIN handles = {k} /\ handles[k] = Initially(own)
  BY <1>2 DEF own, k
<1>9. HoldersApart
  <2>1. ~Fetched(handles[k].use)
    BY <1>5, <1>7, <1>8
  <2> QED
    BY <1>2, <1>4, <1>6, <1>8, <2>1 DEF HoldersApart
<1>10. HoldersInShape
  <2>1. IsHolderInShape(Initially(Root)) /\ IsHolderInShape(Initially(own))
    BY <1>5, <1>7
  <2> QED
    BY <1>2, <1>4, <1>8, <2>1, Zenon DEF HoldersInShape
<1>11. BeneathKept
  BY <1>2, <1>4 DEF BeneathKept
<1>12. FlowsOwned
  <2>1. Performed(Root)
    BY DEF Performed
  <2>2. HasFlowsOf(handles[k].use, k[2])
    BY <1>5, <1>6, <1>7, <1>8, <2>1 DEF HasFlowsOf, IsFlowOf
  <2>3. \A f \in {collections[Root].use.in, collections[Root].use.out,
                  collections[Root].use.anti_in, collections[Root].use.anti_out} :
          f = NoFlow \/ Performed(f.owner)
    BY <1>2, <1>5, <1>7, <2>1
  <2>4. \A c \in DOMAIN collections : c = Root
    BY <1>2
  <2>5. \A x \in DOMAIN handles : x = k
    BY <1>8
  <2>6. \A x \in DOMAIN handles : ~Fetched(handles[x].use) => HasFlowsOf(handles[x].use, x[2])
    BY <2>2, <2>5
  <2>7. ASSUME NEW c \in DOMAIN collections
        PROVE  \A f \in {collections[c].use.in, collections[c].use.out,
                         collections[c].use.anti_in, collections[c].use.anti_out} :
                 f = NoFlow \/ Performed(f.owner)
    BY <2>3, <2>4
  <2>8. \A p \in DOMAIN publications : HasFlowsOf(publications[p].use, p[2])
    BY <1>2
  <2>9. \A f \in DOMAIN alias :
          f \in FetchFlows \/ \E d \in Data : IsFlowOf(f, d) /\ IsFlowOf(alias[f], d)
    BY <1>2
  <2> QED
    BY <2>6, <2>7, <2>8, <2>9 DEF FlowsOwned
<1>13. FetchedAsPublished
  BY <1>5, <1>7, <1>8 DEF FetchedAsPublished
<1>14. PublishedAsMade
  BY <1>2 DEF PublishedAsMade
<1>15. FetchesKept
  BY <1>1, <1>2, <1>5, <1>7, <1>8 DEF FetchesKept
<1> QED
  BY <1>3, <1>9, <1>10, <1>11, <1>12, <1>13, <1>14, <1>15 DEF Sound

\* Every step keeps what makes no use of generations.
LEMMA SoundPreserved == Sound /\ [Next]_vars => Sound'
<1> SUFFICES ASSUME Sound, [Next]_vars PROVE Sound'
  OBVIOUS
<1>1. Kept /\ OutsKept
  BY DEF Sound
<1>2. AnyStep
  BY <1>1, StepCases
<1>3. ContextsGoOn
  BY <1>1, <1>2, ContextsOfStep
<1>4. Kept' /\ OutsKept'
  BY <1>1, KeptPreserved, OutsPreserved
<1>5. HoldersApart' /\ HoldersInShape' /\ BeneathKept'
  BY <1>2, <1>3, HoldersStayApart, HoldersStayInShape, BeneathStays
<1>6. FlowsOwned' /\ FetchesKept'
  BY <1>2, <1>3, FlowsAreOwned, FetchesStay
<1>7. FetchedAsPublished' /\ PublishedAsMade'
  BY <1>2, <1>3, FetchedStayPublished, PublishedStayMade
<1> QED
  BY <1>4, <1>5, <1>6, <1>7 DEF Sound

\* Whoever holds a datum holds flows that were made for it, publications are as
\* their works' collections say, and what is fetched is what was published and
\* keeps it from being released.
THEOREM SoundHolds == Spec => []Sound
BY SoundInit, SoundPreserved, PTL DEF Spec

=============================================================================
