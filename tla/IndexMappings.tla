--------------------------- MODULE IndexMappings ---------------------------
(***************************************************************************)
(* How the elements of a handle collection are shared out among the index  *)
(* tasks of a work.  The front end numbers elements and tasks by indices,  *)
(* the backend densely, from 0.  A mapping goes forward and backward; that *)
(* of a use collection is put together from the mapping the program gives, *)
(* indices of elements to indices of tasks, and the ranges' dense ones.    *)
(*                                                                         *)
(* A mapping is a record of two functions.  Backward, one that the program *)
(* gives has sets of indices, as several elements may share a task.        *)
(***************************************************************************)
EXTENDS Integers, FiniteSets

CONSTANT Word \* the number of values of a dense index (size_t)

ASSUME WordAssumption == Word \in Nat \ {0}

Mapping(forward, backward) == [forward |-> forward, backward |-> backward]

(***************************************************************************)
(* Ranges and their dense mappings                                         *)
(***************************************************************************)
Range1D(size, offset) == [size |-> size, offset |-> offset]

\* An index knows the range it is from.
ContiguousIndex(value, min, max) == [value |-> value, min_value |-> min, max_value |-> max]

DenseIndices(range) == 0..(range.size - 1)

\* ContiguousIndexMapping::map_forward.
DenseIndex(index) == (index.value - index.min_value) % Word

\* ContiguousIndexMapping::map_backward.  The minimum goes into the index,
\* but not into its value.
IndexOf(range, dense) ==
  ContiguousIndex(dense, range.offset, range.offset + range.size - 1)

\* The indices that the front end makes for a range.
Indices(range) == {IndexOf(range, n) : n \in DenseIndices(range)}

MappingToDense(range) ==
  Mapping([index \in Indices(range) |-> DenseIndex(index)],
          [n \in DenseIndices(range) |-> IndexOf(range, n)])

(***************************************************************************)
(* Mappings made of others                                                 *)
(***************************************************************************)
IdentityMapping(indices) == Mapping([x \in indices |-> x], [x \in indices |-> x])

ReverseMapping(m) == Mapping(m.backward, m.forward)

CompositeMapping(m1, m2) ==
  Mapping([x \in DOMAIN m1.forward |-> m2.forward[m1.forward[x]]],
          [y \in DOMAIN m2.backward |-> m1.backward[m2.backward[y]]])

\* A one-to-one mapping where one may be asked for several indices.
Several(m) == Mapping(m.forward, [y \in DOMAIN m.backward |-> {m.backward[y]}])

\* What a collection is mapped with that the program gives no mapping for.
\* The ranges must be of one size.
DefaultMapping(handles, tasks) ==
  Several(CompositeMapping(MappingToDense(handles), ReverseMapping(MappingToDense(tasks))))

\* mapping_fe_handle_to_be_task_: from the index of an element to the dense
\* index of a task.
FullMapping(mapping, tasks) == CompositeMapping(mapping, MappingToDense(tasks))

(***************************************************************************)
(* What is expected of programs                                            *)
(***************************************************************************)
\* A range whose dense indices fit into a size_t, and that starts from 0.
PlainRange(range) == range.size \in Nat /\ range.size <= Word /\ range.offset = 0

\* Backward, a mapping has all that goes to the same index forward.
ManyToOne(m, from, to) ==
  /\ m.forward \in [from -> to]
  /\ m.backward \in [to -> SUBSET from]
  /\ \A x \in from : \A y \in to : x \in m.backward[y] <=> m.forward[x] = y

(***************************************************************************)
(* MappedUseCollection                                                     *)
(***************************************************************************)
\* One index is taken where the mapping gives several.
FirstIndexSlip(full, task) ==
  IF full.backward[task] = {} THEN {}
  ELSE {DenseIndex(CHOOSE index \in full.backward[task] : TRUE)}

\* The elements, by backend index, that are local to a task.
LocalIndicesFor(full, task) == {DenseIndex(index) : index \in full.backward[task]}

\* The task that an element belongs to.
TaskIndexFor(handles, full, element) == full.forward[IndexOf(handles, element)]

=============================================================================
