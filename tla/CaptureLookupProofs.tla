------------------------ MODULE CaptureLookupProofs ------------------------
(***************************************************************************)
(* Theorems about CaptureLookup.  What was found is what the table has for *)
(* the input, and what the table has was settled in CaptureTableProofs     *)
(* case by case; the requests of the front end are first brought into a    *)
(* form in which the case that serves them can be named.                   *)
(***************************************************************************)
EXTENDS CaptureLookup, CaptureTableProofs, FiniteSetTheorems

\* The invariant that carries what is known of the table over to a lookup: what
\* was found is what the table has for the input.  It says nothing of the table.
LookedUp ==
  /\ input \in Inputs
  /\ decided => found = CasesFor(input.coherence_mode, input.source, input.request)

\* What make_captured_use_holder has looked up is, from then on, what the table
\* has for its input.  What the theorems below say comes from the lemmas about
\* the table; this one only lets them be applied to a state.
LEMMA LookupHolds == Spec => []LookedUp
<1>1. Init => LookedUp
  BY DEF Init, LookedUp
<1>2. LookedUp /\ [Next]_vars => LookedUp'
  BY DEF LookedUp, Next, Lookup, vars
<1> QED
  BY <1>1, <1>2, PTL DEF Spec

\* What is found is a case of the table that matches the input.
LEMMA FoundMatches ==
  ASSUME LookedUp, decided, NEW case \in found
  PROVE  /\ case \in CaptureCases
         /\ Matches(case, input.coherence_mode, input.source, input.request)
         /\ input.source \in PermissionPairs /\ input.request \in PermissionPairs
BY DEF LookedUp, CasesFor, Inputs

(***************************************************************************)
(* The requests of the front end                                           *)
(***************************************************************************)
\* What the front end asks for is within what the source may schedule, and
\* never writing without reading: the flag WriteOnly is not set by anybody.
LEMMA RequestsOfFrontEnd ==
  ASSUME NEW scheduling \in {Read, Modify}, NEW request \in FrontEndRequests(scheduling)
  PROVE  /\ request \in [scheduling : FrontEndPermissions, immediate : FrontEndPermissions]
         /\ request.scheduling \subseteq scheduling
         /\ request.immediate \subseteq scheduling
<1> DEFINE Fits(r) == /\ r \in [scheduling : FrontEndPermissions, immediate : FrontEndPermissions]
                      /\ r.scheduling \subseteq scheduling
                      /\ r.immediate \subseteq scheduling
           plain == {RequestedPermissions(scheduling, flags) : flags \in SUBSET FrontEndFlags}
<1>1. ASSUME NEW flags \in SUBSET FrontEndFlags
      PROVE  Fits(RequestedPermissions(scheduling, flags))
  BY FlagsOnlyRestrict
<1>2. ASSUME NEW r \in plain PROVE Fits(r)
  BY <1>1, <1>2
<1>3. ASSUME NEW r \in plain, NEW nested \in plain
      PROVE  Fits(RequireAbilityToSchedule(r, nested))
  <2>1. Fits(r) /\ Fits(nested)
    BY <1>2
  <2>2. RequireAbilityToSchedule(r, nested) =
          Perms(r.scheduling \cup nested.scheduling \cup nested.immediate, r.immediate)
    <3>1. \A x : [r EXCEPT !.scheduling = x] = Perms(x, r.immediate)
      <4>1. r \in [scheduling : FrontEndPermissions, immediate : FrontEndPermissions]
        BY <2>1
      <4> HIDE DEF plain
      <4> QED
        BY <4>1 DEF Perms
    <3>2. RequireAbilityToSchedule(r, nested) =
            [r EXCEPT !.scheduling = r.scheduling \cup nested.scheduling \cup nested.immediate]
      BY DEF RequireAbilityToSchedule
    <3> QED
      BY <3>1, <3>2
  <2>3. r.scheduling \cup nested.scheduling \cup nested.immediate \in FrontEndPermissions
    BY <2>1 DEF FrontEndPermissions, None, Read, Modify
  <2> HIDE DEF plain
  <2> QED
    BY <2>1, <2>2, <2>3 DEF Perms
<1>4. request \in plain \/ \E r \in plain, nested \in plain :
                              request = RequireAbilityToSchedule(r, nested)
  BY DEF FrontEndRequests
<1> HIDE DEF plain
<1> QED
  BY <1>2, <1>3, <1>4

\* The case that serves a request of a sequential program.
LEMMA ServedBy ==
  ASSUME NEW source \in SequentialSources, NEW request \in FrontEndRequests(source.scheduling),
         request # Perms(None, None),
         <<source, request>> # <<Perms(Modify, Modify), Perms(Read, None)>>
  PROVE  CasesFor("Sequential", source, request) # {}
<1>1. source.scheduling \in {Read, Modify}
  BY DEF SequentialSources, Perms
<1>2. /\ request \in [scheduling : FrontEndPermissions, immediate : FrontEndPermissions]
      /\ request.scheduling \subseteq source.scheduling
      /\ request.immediate \subseteq source.scheduling
  BY <1>1, RequestsOfFrontEnd
<1>3. /\ request = Perms(request.scheduling, request.immediate)
      /\ source = Perms(source.scheduling, source.immediate)
  BY <1>2 DEF Perms, SequentialSources
<1>4. source.immediate \in FrontEndPermissions /\ source.immediate \subseteq source.scheduling
  BY DEF SequentialSources, Perms, FrontEndPermissions, None, Read, Modify
<1>5. source.immediate = Modify => source = Perms(Modify, Modify)
  BY <1>1, <1>3, <1>4 DEF Read, Modify
<1>6. /\ ~(request.scheduling = None /\ request.immediate = None)
      /\ ~(source.immediate = Modify /\ request.scheduling = Read /\ request.immediate = None)
  BY <1>3, <1>5
<1> QED
  BY <1>1, <1>2, <1>3, <1>4, <1>6, TableServes

(***************************************************************************)
(* The theorems                                                            *)
(***************************************************************************)
\* The patterns of the macros do not overlap: CaptureSetupHelper's assertion
\* against duplicate cases cannot fire, in any order of registration.
THEOREM PatternsDoNotOverlap == Spec => []NoDuplicateCase
<1>1. LookedUp => NoDuplicateCase
  <2> SUFFICES ASSUME LookedUp, decided PROVE Cardinality(found) <= 1
    BY DEF NoDuplicateCase
  <2> DEFINE case == TheCase(input.coherence_mode, input.source, input.request)
  <2>1. found \subseteq {case}
    BY FoundMatches, CaseIsUnique DEF IsTheCase
  <2>2. IsFiniteSet({case}) /\ Cardinality({case}) = 1
    BY FS_Singleton
  <2>3. Cardinality(found) <= Cardinality({case})
    BY <2>1, <2>2, FS_Subset
  <2> QED
    BY <2>2, <2>3
<1> QED
  BY <1>1, LookupHolds, PTL

\* No request that the front end can make of a sequential use aborts the
\* program for want of a case, but for the two kinds that are excepted.
THEOREM FrontEndIsServed == Spec => []FrontEndRequestsAreServed
<1>1. LookedUp => FrontEndRequestsAreServed
  BY ServedBy DEF LookedUp, FrontEndRequestsAreServed
<1> QED
  BY <1>1, LookupHolds, PTL

\* What a task may do with the data does not conflict with what its creator
\* goes on doing, whatever the permissions.
THEOREM NoConflictIsLeft == Spec => []ContinuationNeverConflicts
<1>1. LookedUp => ContinuationNeverConflicts
  <2> SUFFICES ASSUME LookedUp, decided, NEW case \in found
               PROVE  LET left == ContinuingPermissions(case, input.source).immediate
                      IN  /\ "write" \in Rights(input.request) => left = None
                          /\ "read" \in Rights(input.request) => "write" \notin left
    BY DEF ContinuationNeverConflicts
  <2> QED
    BY FoundMatches, CaseLeavesNoConflict DEF LeavesNoConflict, Rights
<1> QED
  BY <1>1, LookupHolds, PTL

\* A capture gives no right the source could not schedule, and takes no right
\* to schedule from whoever goes on.
THEOREM CapturesInherit == Spec => []RightsAreInherited
<1>1. LookedUp => RightsAreInherited
  <2> SUFFICES ASSUME LookedUp, decided, NEW case \in found
               PROVE  LET left == ContinuingPermissions(case, input.source)
                      IN  /\ Rights(input.request) \subseteq input.source.scheduling
                          /\ left.scheduling = input.source.scheduling
                          /\ left.immediate \subseteq input.source.immediate
    BY DEF RightsAreInherited
  <2>1. /\ Matches(case, input.coherence_mode, input.source, input.request)
        /\ input.source \in PermissionPairs /\ input.request \in PermissionPairs
        /\ RespectsRights(case)
    BY FoundMatches, CaseRights
  <2> QED
    BY <2>1 DEF RespectsRights, Rights, ContinuingPermissions
<1> QED
  BY <1>1, LookupHolds, PTL
=============================================================================
