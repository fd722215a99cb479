---------------------------- MODULE CaptureLookup ----------------------------
(***************************************************************************)
(* One lookup of the capture table (make_captured_use_holder), for every   *)
(* source use, request and coherence mode the input type can hold.  The    *)
(* properties are about what the table decides: that its patterns do not   *)
(* overlap, that it serves the requests the front end makes, and that what *)
(* it gives to the captured and to the continuing use is compatible.       *)
(***************************************************************************)
EXTENDS CaptureSemantics, Naturals, FiniteSets

VARIABLES input,    \* the CaptureCaseInput that is looked up
          decided,  \* whether the lookup took place
          found     \* the cases of the table it matched

vars == <<input, decided, found>>

Inputs == [coherence_mode : CoherenceModes,
           source : PermissionPairs,
           request : PermissionPairs]

Init ==
  /\ input \in Inputs
  /\ decided = FALSE
  /\ found = {}

\* The assertion of make_captured_use_holder comes before the lookup.
Lookup ==
  /\ ~decided
  /\ input.source.scheduling # None
  /\ found' = CasesFor(input.coherence_mode, input.source, input.request)
  /\ decided' = TRUE
  /\ UNCHANGED input

Next == Lookup

Spec == Init /\ [][Next]_vars

Rights(permissions) == permissions.scheduling \cup permissions.immediate

\* Two patterns never match the same input: the registrar's "Duplicate
\* capture case" assertion cannot fire.
NoDuplicateCase == decided => Cardinality(found) <= 1

\* The uses a sequential program can hold: what initial_access gives, and
\* what captures and continuations of such uses give.
SequentialSources ==
  {Perms(Modify, None), Perms(Modify, Read), Perms(Modify, Modify),
   Perms(Read, None), Perms(Read, Read)}

\* Every request the front end can make of a sequential use finds a case,
\* but for two kinds: a capture that asks for nothing, and a schedule-only
\* read of a handle that is being modified (MM -> { RN }).  A miss aborts
\* the program at run time.
FrontEndRequestsAreServed ==
  /\ decided
  /\ input.coherence_mode = "Sequential"
  /\ input.source \in SequentialSources
  /\ input.request \in FrontEndRequests(input.source.scheduling)
  /\ input.request # Perms(None, None)
  /\ <<input.source, input.request>> # <<Perms(Modify, Modify), Perms(Read, None)>>
  => found # {}

\* Between a capture and the next one the two contexts never conflict: if
\* the task may write, the continuation touches no data; if it may read,
\* the continuation does not write.  (Commutative captures, whose order is
\* left to the backend, obey the same rule.)
ContinuationNeverConflicts ==
  decided =>
    \A case \in found :
      LET left == ContinuingPermissions(case, input.source).immediate
      IN  /\ "write" \in Rights(input.request) => left = None
          /\ "read" \in Rights(input.request) => "write" \notin left

\* Capturing neither creates rights nor loses the right to schedule: the
\* task gets no more than the source may schedule, the continuation may
\* schedule what the source could, and touch no more than it did.
RightsAreInherited ==
  decided =>
    \A case \in found :
      LET left == ContinuingPermissions(case, input.source)
      IN  /\ Rights(input.request) \subseteq input.source.scheduling
          /\ left.scheduling = input.source.scheduling
          /\ left.immediate \subseteq input.source.immediate

=============================================================================
