------------------------- MODULE CaptureTableProofs -------------------------
(***************************************************************************)
(* Lemmas about the capture table, proved case by case: what the cases do  *)
(* with rights, that none leaves a conflict behind, that no two of them    *)
(* match the same input, from what they make the flows of uses, and into   *)
(* what generations they divide them; and about flows as register_use and  *)
(* release_use treat them.                                                 *)
(***************************************************************************)
EXTENDS Uses, TLAPS

(***************************************************************************)
(* Rights                                                                  *)
(***************************************************************************)
\* What a case does with rights, and when it marks its captured use as one
\* that could be an alias.
RespectsRights(case) ==
  \A mode : \A source, request \in PermissionPairs :
    Matches(case, mode, source, request) =>
      /\ request.scheduling \cup request.immediate \subseteq source.scheduling
      /\ case.could_be_alias <=>
           "write" \in request.scheduling /\ "write" \notin request.immediate
      /\ case.needs_new_continuation_use =>
           /\ case.continuation.scheduling = source.scheduling
           /\ case.continuation.immediate \subseteq source.immediate
           /\ "write" \in case.continuation.scheduling
           /\ "write" \notin case.continuation.immediate

\* Every case of the table asks no more than the source may schedule, marks
\* exactly the uses that schedule writers without writing, and leaves a new
\* continuation with the rights to schedule of the source, and no write access.
LEMMA CaseRights == \A case \in CaptureCases : RespectsRights(case)
<1> USE DEF RespectsRights, Matches, CaptureCase, CaptureCaseNoNewContinuationUse,
        PermissionsAmong, Perms, PermissionPairs, Permissions, None, Read, Modify
<1>1. RespectsRights(ScheduleReadFromScheduleOnly)
  BY DEF ScheduleReadFromScheduleOnly
<1>2. RespectsRights(ModifyFromScheduleModify)
  BY DEF ModifyFromScheduleModify
<1>3. RespectsRights(LeafModifyFromScheduleModify)
  BY DEF LeafModifyFromScheduleModify
<1>4. RespectsRights(ScheduleReadFromRead)
  BY DEF ScheduleReadFromRead
<1>5. RespectsRights(ScheduleModifyFromScheduleModify)
  BY DEF ScheduleModifyFromScheduleModify
<1>6. RespectsRights(ScheduleModifyFromModifyRead)
  BY DEF ScheduleModifyFromModifyRead
<1>7. RespectsRights(ScheduleModifyFromModify)
  BY DEF ScheduleModifyFromModify
<1>8. RespectsRights(ReadFromReadOrScheduleOnly)
  BY DEF ReadFromReadOrScheduleOnly
<1>9. RespectsRights(ReadFromModify)
  BY DEF ReadFromModify
<1>10. RespectsRights(ModifyReadFromScheduleModify)
  BY DEF ModifyReadFromScheduleModify
<1>11. RespectsRights(ModifyReadFromModifyRead)
  BY DEF ModifyReadFromModifyRead
<1>12. RespectsRights(ModifyReadFromModify)
  BY DEF ModifyReadFromModify
<1>13. RespectsRights(ModifyFromModifyRead)
  BY DEF ModifyFromModifyRead
<1>14. RespectsRights(ModifyFromModify)
  BY DEF ModifyFromModify
<1>15. RespectsRights(CommutativeModify)
  BY DEF CommutativeModify
<1> HIDE DEF RespectsRights
<1> QED
  BY <1>1, <1>2, <1>3, <1>4, <1>5, <1>6, <1>7, <1>8, <1>9, <1>10,
     <1>11, <1>12, <1>13, <1>14, <1>15, Zenon
  DEF CaptureCases

\* What the captured use and the continuation may do at the same time.
LeavesNoConflict(case) ==
  \A mode : \A source, request \in PermissionPairs :
    Matches(case, mode, source, request) =>
      LET asked == request.scheduling \cup request.immediate
          left  == ContinuingPermissions(case, source).immediate
      IN  /\ "write" \in asked => left = None
          /\ "read" \in asked => "write" \notin left

\* No case lets the source go on writing what the captured use reads, or
\* reading what it writes.
LEMMA CaseLeavesNoConflict == \A case \in CaptureCases : LeavesNoConflict(case)
<1> USE DEF LeavesNoConflict, ContinuingPermissions, Matches, CaptureCase, CaptureCaseNoNewContinuationUse,
        PermissionsAmong, Perms, PermissionPairs, Permissions, None, Read, Modify
<1>1. LeavesNoConflict(ScheduleReadFromScheduleOnly)
  BY DEF ScheduleReadFromScheduleOnly
<1>2. LeavesNoConflict(ModifyFromScheduleModify)
  BY DEF ModifyFromScheduleModify
<1>3. LeavesNoConflict(LeafModifyFromScheduleModify)
  BY DEF LeafModifyFromScheduleModify
<1>4. LeavesNoConflict(ScheduleReadFromRead)
  BY DEF ScheduleReadFromRead
<1>5. LeavesNoConflict(ScheduleModifyFromScheduleModify)
  BY DEF ScheduleModifyFromScheduleModify
<1>6. LeavesNoConflict(ScheduleModifyFromModifyRead)
  BY DEF ScheduleModifyFromModifyRead
<1>7. LeavesNoConflict(ScheduleModifyFromModify)
  BY DEF ScheduleModifyFromModify
<1>8. LeavesNoConflict(ReadFromReadOrScheduleOnly)
  BY DEF ReadFromReadOrScheduleOnly
<1>9. LeavesNoConflict(ReadFromModify)
  BY DEF ReadFromModify
<1>10. LeavesNoConflict(ModifyReadFromScheduleModify)
  BY DEF ModifyReadFromScheduleModify
<1>11. LeavesNoConflict(ModifyReadFromModifyRead)
  BY DEF ModifyReadFromModifyRead
<1>12. LeavesNoConflict(ModifyReadFromModify)
  BY DEF ModifyReadFromModify
<1>13. LeavesNoConflict(ModifyFromModifyRead)
  BY DEF ModifyFromModifyRead
<1>14. LeavesNoConflict(ModifyFromModify)
  BY DEF ModifyFromModify
<1>15. LeavesNoConflict(CommutativeModify)
  BY DEF CommutativeModify
<1> HIDE DEF LeavesNoConflict
<1> QED
  BY <1>1, <1>2, <1>3, <1>4, <1>5, <1>6, <1>7, <1>8,
     <1>9, <1>10, <1>11, <1>12, <1>13, <1>14, <1>15, Zenon
  DEF CaptureCases

(***************************************************************************)
(* The table as a function                                                 *)
(***************************************************************************)
\* By what the request does at once, and how far the source has gone.
Among(immediate, ofNone, ofRead, ofModify) ==
  IF immediate = None THEN ofNone ELSE IF immediate = Read THEN ofRead ELSE ofModify

WritersCase(source, request) ==
  Among(source.immediate,
        IF request.scheduling = None THEN LeafModifyFromScheduleModify
                                     ELSE ModifyFromScheduleModify,
        ModifyFromModifyRead,
        ModifyFromModify)

ReadersCase(source, request) ==
  IF request.scheduling = Modify
  THEN Among(source.immediate, ModifyReadFromScheduleModify,
             ModifyReadFromModifyRead, ModifyReadFromModify)
  ELSE IF source.immediate = Modify THEN ReadFromModify ELSE ReadFromReadOrScheduleOnly

SchedulersCase(source, request) ==
  IF request.scheduling = Modify
  THEN Among(source.immediate, ScheduleModifyFromScheduleModify,
             ScheduleModifyFromModifyRead, ScheduleModifyFromModify)
  ELSE IF source.immediate = Read THEN ScheduleReadFromRead ELSE ScheduleReadFromScheduleOnly

TheCase(mode, source, request) ==
  IF mode = "Commutative" THEN CommutativeModify
  ELSE Among(request.immediate, SchedulersCase(source, request),
             ReadersCase(source, request), WritersCase(source, request))

IsTheCase(case) ==
  \A mode, source, request :
    Matches(case, mode, source, request) => case = TheCase(mode, source, request)

\* Whatever case matches an input, it is the one that TheCase gives: the
\* patterns of the table do not overlap.
LEMMA CaseIsUnique == \A case \in CaptureCases : IsTheCase(case)
<1> USE DEF IsTheCase, Matches, CaptureCase, CaptureCaseNoNewContinuationUse,
        PermissionsAmong, Perms, PermissionPairs, Permissions, None, Read, Modify,
        TheCase, Among, WritersCase, ReadersCase, SchedulersCase
<1>1. IsTheCase(ScheduleReadFromScheduleOnly)
  BY DEF ScheduleReadFromScheduleOnly
<1>2. IsTheCase(ModifyFromScheduleModify)
  BY DEF ModifyFromScheduleModify
<1>3. IsTheCase(LeafModifyFromScheduleModify)
  BY DEF LeafModifyFromScheduleModify
<1>4. IsTheCase(ScheduleReadFromRead)
  BY DEF ScheduleReadFromRead
<1>5. IsTheCase(ScheduleModifyFromScheduleModify)
  BY DEF ScheduleModifyFromScheduleModify
<1>6. IsTheCase(ScheduleModifyFromModifyRead)
  BY DEF ScheduleModifyFromModifyRead
<1>7. IsTheCase(ScheduleModifyFromModify)
  BY DEF ScheduleModifyFromModify
<1>8. IsTheCase(ReadFromReadOrScheduleOnly)
  BY DEF ReadFromReadOrScheduleOnly
<1>9. IsTheCase(ReadFromModify)
  BY DEF ReadFromModify
<1>10. IsTheCase(ModifyReadFromScheduleModify)
  BY DEF ModifyReadFromScheduleModify
<1>11. IsTheCase(ModifyReadFromModifyRead)
  BY DEF ModifyReadFromModifyRead
<1>12. IsTheCase(ModifyReadFromModify)
  BY DEF ModifyReadFromModify
<1>13. IsTheCase(ModifyFromModifyRead)
  BY DEF ModifyFromModifyRead
<1>14. IsTheCase(ModifyFromModify)
  BY DEF ModifyFromModify
<1>15. IsTheCase(CommutativeModify)
  BY DEF CommutativeModify
<1> HIDE DEF IsTheCase
<1> QED
  BY <1>1, <1>2, <1>3, <1>4, <1>5, <1>6, <1>7, <1>8,
     <1>9, <1>10, <1>11, <1>12, <1>13, <1>14, <1>15, Zenon
  DEF CaptureCases

(***************************************************************************)
(* Permissions                                                             *)
(***************************************************************************)
LeavesPermissions(case) ==
  /\ case.needs_new_continuation_use \in BOOLEAN
  /\ case.continuation \in PermissionPairs

\* Every case of the table leaves permissions to its continuation.
LEMMA CasesLeavePermissions == \A case \in CaptureCases : LeavesPermissions(case)
<1> USE DEF LeavesPermissions, CaptureCase, CaptureCaseNoNewContinuationUse,
        Perms, PermissionPairs, Permissions, None, Read, Modify
<1>1. LeavesPermissions(ScheduleReadFromScheduleOnly)
  BY DEF ScheduleReadFromScheduleOnly
<1>2. LeavesPermissions(ModifyFromScheduleModify)
  BY DEF ModifyFromScheduleModify
<1>3. LeavesPermissions(LeafModifyFromScheduleModify)
  BY DEF LeafModifyFromScheduleModify
<1>4. LeavesPermissions(ScheduleReadFromRead)
  BY DEF ScheduleReadFromRead
<1>5. LeavesPermissions(ScheduleModifyFromScheduleModify)
  BY DEF ScheduleModifyFromScheduleModify
<1>6. LeavesPermissions(ScheduleModifyFromModifyRead)
  BY DEF ScheduleModifyFromModifyRead
<1>7. LeavesPermissions(ScheduleModifyFromModify)
  BY DEF ScheduleModifyFromModify
<1>8. LeavesPermissions(ReadFromReadOrScheduleOnly)
  BY DEF ReadFromReadOrScheduleOnly
<1>9. LeavesPermissions(ReadFromModify)
  BY DEF ReadFromModify
<1>10. LeavesPermissions(ModifyReadFromScheduleModify)
  BY DEF ModifyReadFromScheduleModify
<1>11. LeavesPermissions(ModifyReadFromModifyRead)
  BY DEF ModifyReadFromModifyRead
<1>12. LeavesPermissions(ModifyReadFromModify)
  BY DEF ModifyReadFromModify
<1>13. LeavesPermissions(ModifyFromModifyRead)
  BY DEF ModifyFromModifyRead
<1>14. LeavesPermissions(ModifyFromModify)
  BY DEF ModifyFromModify
<1>15. LeavesPermissions(CommutativeModify)
  BY DEF CommutativeModify
<1> HIDE DEF LeavesPermissions
<1> QED
  BY <1>1, <1>2, <1>3, <1>4, <1>5, <1>6, <1>7, <1>8, <1>9, <1>10,
     <1>11, <1>12, <1>13, <1>14, <1>15, Zenon
  DEF CaptureCases

\* A request of the front end is a pair of permissions.
LEMMA RequestTyped ==
  ASSUME NEW scheduling \in Permissions, NEW f \in SUBSET FrontEndFlags
  PROVE  RequestedPermissions(scheduling, f) \in PermissionPairs
BY DEF RequestedPermissions, DefaultRequest, DroppedRights, Perms, PermissionPairs,
   Permissions, Modify, None, Read, Write

\* Permissions of the front end: nobody sets the flag WriteOnly.
FrontEndPermissions == {None, Read, Modify}

\* Flags only take rights away, and leave no right to write without the one
\* to read.
LEMMA FlagsOnlyRestrict ==
  ASSUME NEW scheduling \in {Read, Modify}, NEW flags \in SUBSET FrontEndFlags
  PROVE  LET request == RequestedPermissions(scheduling, flags)
         IN  /\ request \in [scheduling : FrontEndPermissions, immediate : FrontEndPermissions]
             /\ request.scheduling \subseteq scheduling
             /\ request.immediate \subseteq scheduling
             /\ "Leaf" \notin flags => request.scheduling # None
             /\ "Leaf" \notin flags => request.immediate \subseteq request.scheduling
<1>1. DroppedRights(flags) \in {None, Write}
  BY DEF DroppedRights, FrontEndFlags, CaptureFlags, None, Write
<1>2. /\ scheduling \ DroppedRights(flags) \in FrontEndPermissions
      /\ scheduling \ DroppedRights(flags) # None
      /\ scheduling \ DroppedRights(flags) \subseteq scheduling
  BY <1>1 DEF FrontEndPermissions, None, Read, Write, Modify
<1>3. RequestedPermissions(scheduling, flags) =
        Perms(IF "Leaf" \in flags THEN None ELSE scheduling \ DroppedRights(flags),
              IF "ScheduleOnly" \in flags THEN None ELSE scheduling \ DroppedRights(flags))
  BY DEF RequestedPermissions, DefaultRequest, Perms
<1> QED
  BY <1>2, <1>3 DEF Perms, FrontEndPermissions, None

\* What a sequential use may have serves what may be asked of it, but for
\* two requests: one for nothing, and one that schedules reads of what is
\* being modified.
LEMMA TableServes ==
  ASSUME NEW scheduling \in {Read, Modify}, NEW immediate \in FrontEndPermissions,
         immediate \subseteq scheduling,
         NEW s \in FrontEndPermissions, NEW i \in FrontEndPermissions,
         s \subseteq scheduling, i \subseteq scheduling,
         ~(s = None /\ i = None),
         ~(immediate = Modify /\ s = Read /\ i = None)
  PROVE  CasesFor("Sequential", Perms(scheduling, immediate), Perms(s, i)) # {}
<1> DEFINE source  == Perms(scheduling, immediate)
           request == Perms(s, i)
           case    == TheCase("Sequential", source, request)
<1>1. case \in CaptureCases
  BY DEF TheCase, Among, WritersCase, ReadersCase, SchedulersCase, CaptureCases
<1>2. /\ None # Read /\ None # Modify /\ Read # Modify
      /\ scheduling = Read => s # Modify /\ i # Modify /\ immediate # Modify
  BY DEF None, Read, Modify
<1>3. source \in case.sources /\ request \in case.requests /\ case.coherence_mode = "Sequential"
  <2> USE DEF CaptureCase, CaptureCaseNoNewContinuationUse, PermissionsAmong, Perms,
          TheCase, Among, FrontEndPermissions
  <2>1. CASE i = Modify
    BY <1>2, <2>1 DEF WritersCase, LeafModifyFromScheduleModify,
       ModifyFromScheduleModify, ModifyFromModifyRead, ModifyFromModify
  <2>2. CASE i = Read
    BY <1>2, <2>2 DEF ReadersCase, ModifyReadFromScheduleModify,
       ModifyReadFromModifyRead, ModifyReadFromModify, ReadFromModify, ReadFromReadOrScheduleOnly
  <2>3. CASE i = None
    BY <1>2, <2>3 DEF SchedulersCase, ScheduleModifyFromScheduleModify,
       ScheduleModifyFromModifyRead, ScheduleModifyFromModify, ScheduleReadFromRead,
       ScheduleReadFromScheduleOnly
  <2> QED
    BY <2>1, <2>2, <2>3 DEF FrontEndPermissions
<1> QED
  BY <1>1, <1>3 DEF CasesFor, Matches

\* Whatever case serves a capture, the continuation schedules what the source
\* could, touches no more than it did, and does not write if it is a new one.
LEMMA ContinuingTyped ==
  ASSUME NEW source \in PermissionPairs, NEW request \in PermissionPairs,
         NEW case \in CasesFor("Sequential", source, request)
  PROVE  /\ ContinuingPermissions(case, source) \in PermissionPairs
         /\ ContinuingPermissions(case, source).scheduling = source.scheduling
         /\ ContinuingPermissions(case, source).immediate \subseteq source.immediate
<1>1. case \in CaptureCases /\ Matches(case, "Sequential", source, request)
  BY DEF CasesFor
<1>2. LeavesPermissions(case) /\ RespectsRights(case)
  BY <1>1, CasesLeavePermissions, CaseRights
<1> QED
  BY <1>1, <1>2 DEF LeavesPermissions, RespectsRights, ContinuingPermissions

(***************************************************************************)
(* Flows of the table                                                      *)
(***************************************************************************)
\* A relationship that refers to a flow refers to one of those named.
Within(relationship, names) ==
  relationship.description \in {"Same", "Forwarding"} => relationship.of \in names

RelationshipsOver(relationships, names) ==
  /\ Within(relationships.in, names)
  /\ Within(relationships.out, names)
  /\ Within(relationships.anti_in, names)
  /\ Within(relationships.anti_out, names)

SourceNames == {"source_in", "source_out", "source_anti_in", "source_anti_out"}
CaptureNames ==
  SourceNames \cup {"captured_in", "captured_out", "captured_anti_in", "captured_anti_out"}

\* What the types of the code say of a capture case.
WellShaped(case) ==
  /\ case.could_be_alias \in BOOLEAN
  /\ case.needs_new_continuation_use \in BOOLEAN
  /\ case.continuation \in PermissionPairs
  /\ RelationshipsOver(case.captured, SourceNames)
  /\ RelationshipsOver(case.continuing, CaptureNames)

\* Every case of the table is well shaped: the captured use refers to flows
\* of the source only, the continuation also to flows of the captured use.
LEMMA CaseShape == \A case \in CaptureCases : WellShaped(case)
<1> USE DEF WellShaped, CaptureCase, CaptureCaseNoNewContinuationUse, NoFlows,
        UseFlows, Same, NextFlow, Forwarding, Insignificant, NextOfInFlow,
        NextAntiFlowOfAntiIn, Perms, PermissionPairs, Permissions, None, Read,
        Modify, RelationshipsOver, Within, SourceNames, CaptureNames
<1>1. WellShaped(ScheduleReadFromScheduleOnly)
  BY DEF ScheduleReadFromScheduleOnly
<1>2. WellShaped(ModifyFromScheduleModify)
  BY DEF ModifyFromScheduleModify
<1>3. WellShaped(LeafModifyFromScheduleModify)
  BY DEF LeafModifyFromScheduleModify
<1>4. WellShaped(ScheduleReadFromRead)
  BY DEF ScheduleReadFromRead
<1>5. WellShaped(ScheduleModifyFromScheduleModify)
  BY DEF ScheduleModifyFromScheduleModify
<1>6. WellShaped(ScheduleModifyFromModifyRead)
  BY DEF ScheduleModifyFromModifyRead
<1>7. WellShaped(ScheduleModifyFromModify)
  BY DEF ScheduleModifyFromModify
<1>8. WellShaped(ReadFromReadOrScheduleOnly)
  BY DEF ReadFromReadOrScheduleOnly
<1>9. WellShaped(ReadFromModify)
  BY DEF ReadFromModify
<1>10. WellShaped(ModifyReadFromScheduleModify)
  BY DEF ModifyReadFromScheduleModify
<1>11. WellShaped(ModifyReadFromModifyRead)
  BY DEF ModifyReadFromModifyRead
<1>12. WellShaped(ModifyReadFromModify)
  BY DEF ModifyReadFromModify
<1>13. WellShaped(ModifyFromModifyRead)
  BY DEF ModifyFromModifyRead
<1>14. WellShaped(ModifyFromModify)
  BY DEF ModifyFromModify
<1>15. WellShaped(CommutativeModify)
  BY DEF CommutativeModify
<1> HIDE DEF WellShaped
<1> QED
  BY <1>1, <1>2, <1>3, <1>4, <1>5, <1>6, <1>7, <1>8, <1>9, <1>10,
     <1>11, <1>12, <1>13, <1>14, <1>15, Zenon
  DEF CaptureCases

DataNames == {"source_in", "source_out", "captured_in", "captured_out"}
AntiNames == CaptureNames \ DataNames

\* What a case of the table does with flows: data flows are related to data
\* flows and anti-flows to anti-flows; the out flow of a captured use is a
\* new one, if it has one at all, and a continuation goes on to produce what
\* its source would have.
ProducesItsOwn(case) ==
  /\ Within(case.captured.in, DataNames)
  /\ Within(case.captured.out, DataNames)
  /\ Within(case.captured.anti_in, AntiNames)
  /\ Within(case.captured.anti_out, AntiNames)
  /\ case.needs_new_continuation_use =>
       /\ Within(case.continuing.in, DataNames)
       /\ Within(case.continuing.anti_in, AntiNames)
       /\ Within(case.continuing.anti_out, AntiNames)
  /\ case.coherence_mode = "Sequential" =>
       /\ case.captured.out.description \in {"Next", "Insignificant"}
       /\ case.needs_new_continuation_use => case.continuing.out = Same("source_out")

\* Every case of the table keeps data flows and anti-flows apart, and gives
\* the out flow of the source to no captured use.
LEMMA CaseProduces == \A case \in CaptureCases : ProducesItsOwn(case)
<1> USE DEF ProducesItsOwn, Within, DataNames, AntiNames, CaptureNames, SourceNames,
        CaptureCase, CaptureCaseNoNewContinuationUse, UseFlows, Same, NextFlow,
        Forwarding, Insignificant, NextOfInFlow, NextAntiFlowOfAntiIn
<1>1. ProducesItsOwn(ScheduleReadFromScheduleOnly)
  BY DEF ScheduleReadFromScheduleOnly
<1>2. ProducesItsOwn(ModifyFromScheduleModify)
  BY DEF ModifyFromScheduleModify
<1>3. ProducesItsOwn(LeafModifyFromScheduleModify)
  BY DEF LeafModifyFromScheduleModify
<1>4. ProducesItsOwn(ScheduleReadFromRead)
  BY DEF ScheduleReadFromRead
<1>5. ProducesItsOwn(ScheduleModifyFromScheduleModify)
  BY DEF ScheduleModifyFromScheduleModify
<1>6. ProducesItsOwn(ScheduleModifyFromModifyRead)
  BY DEF ScheduleModifyFromModifyRead
<1>7. ProducesItsOwn(ScheduleModifyFromModify)
  BY DEF ScheduleModifyFromModify
<1>8. ProducesItsOwn(ReadFromReadOrScheduleOnly)
  BY DEF ReadFromReadOrScheduleOnly
<1>9. ProducesItsOwn(ReadFromModify)
  BY DEF ReadFromModify
<1>10. ProducesItsOwn(ModifyReadFromScheduleModify)
  BY DEF ModifyReadFromScheduleModify
<1>11. ProducesItsOwn(ModifyReadFromModifyRead)
  BY DEF ModifyReadFromModifyRead
<1>12. ProducesItsOwn(ModifyReadFromModify)
  BY DEF ModifyReadFromModify
<1>13. ProducesItsOwn(ModifyFromModifyRead)
  BY DEF ModifyFromModifyRead
<1>14. ProducesItsOwn(ModifyFromModify)
  BY DEF ModifyFromModify
<1>15. ProducesItsOwn(CommutativeModify)
  BY DEF CommutativeModify
<1> HIDE DEF ProducesItsOwn
<1> QED
  BY <1>1, <1>2, <1>3, <1>4, <1>5, <1>6, <1>7, <1>8, <1>9, <1>10,
     <1>11, <1>12, <1>13, <1>14, <1>15, Zenon
  DEF CaptureCases

DataPlaces == {"in", "out", "cont_in", "cont_out"}
AntiPlaces == {"anti_in", "anti_out", "cont_anti_in", "cont_anti_out"}

IsDataFlow(f) == f = NoFlow \/ f.place \in DataPlaces
IsAntiFlow(f) == f = NoFlow \/ f.place \in AntiPlaces

KindsKept(u) ==
  /\ IsDataFlow(u.in)
  /\ IsDataFlow(u.out)
  /\ IsAntiFlow(u.anti_in)
  /\ IsAntiFlow(u.anti_out)

SameKind(f, g) ==
  \/ f.place \in DataPlaces /\ g.place \in DataPlaces
  \/ f.place \in AntiPlaces /\ g.place \in AntiPlaces

\* NoFlow is neither a data flow nor an anti-flow, and no flow of a task.
LEMMA NoFlowIsNone ==
  /\ NoFlow.place \notin DataPlaces
  /\ NoFlow.place \notin AntiPlaces
  /\ \A s : Flow(s, "out") # NoFlow /\ Flow(s, "out").place = "out" /\ Flow(s, "out").owner = s
BY DEF NoFlow, Flow, DataPlaces, AntiPlaces

\* What is established for a relationship to data flows is a data flow.
LEMMA EstablishedData ==
  ASSUME NEW relationship, NEW known, NEW owner, NEW place \in DataPlaces,
         NEW names, Within(relationship, names),
         \A name \in names : IsDataFlow(known[name])
  PROVE  IsDataFlow(Establish(relationship, known, Flow(owner, place)))
BY DEF Establish, Within, IsDataFlow, Flow

\* What is established for a relationship to anti-flows is an anti-flow.
LEMMA EstablishedAnti ==
  ASSUME NEW relationship, NEW known, NEW owner, NEW place \in AntiPlaces,
         NEW names, Within(relationship, names),
         \A name \in names : IsAntiFlow(known[name])
  PROVE  IsAntiFlow(Establish(relationship, known, Flow(owner, place)))
BY DEF Establish, Within, IsAntiFlow, Flow

\* Making one flow another name of a flow of its kind keeps the kinds apart,
\* and gives another name to no flow but what stood for it.
LEMMA AliasKinds ==
  ASSUME NEW a, \A f \in DOMAIN a : SameKind(f, a[f]),
         NEW flow, NEW actual,
         flow = NoFlow \/ actual = NoFlow \/ SameKind(flow, actual)
  PROVE  LET b == EstablishAlias(a, flow, actual)
         IN  /\ \A f \in DOMAIN b : SameKind(f, b[f])
             /\ \A f \in DOMAIN b \ DOMAIN a : f = Representative(a, flow) /\ SameKind(flow, f)
<1> DEFINE from == Representative(a, flow)
           to == Representative(a, actual)
           b == EstablishAlias(a, flow, actual)
<1>1. CASE NoFlow \in {flow, actual} \/ from = to
  BY <1>1 DEF EstablishAlias
<1>2. CASE ~(NoFlow \in {flow, actual} \/ from = to)
  <2>1. b = [f \in DOMAIN a \cup {from} |-> IF Representative(a, f) = from THEN to ELSE a[f]]
    BY <1>2 DEF EstablishAlias
  <2>2. SameKind(flow, actual)
    BY <1>2
  <2>3. SameKind(flow, from) /\ SameKind(actual, to)
    BY <2>2 DEF Representative, SameKind
  <2>4. SameKind(from, to)
    BY <2>2, <2>3, NoFlowIsNone DEF SameKind, DataPlaces, AntiPlaces
  <2>5. ASSUME NEW f \in DOMAIN b PROVE SameKind(f, b[f])
    <3>1. CASE Representative(a, f) = from
      <4>1. SameKind(f, from) \/ f = from
        BY <3>1 DEF Representative
      <4> QED
        BY <2>1, <2>4, <2>5, <3>1, <4>1 DEF SameKind, DataPlaces, AntiPlaces
    <3>2. CASE Representative(a, f) # from
      <4>1. f \in DOMAIN a
        BY <2>1, <2>5, <3>2 DEF Representative
      <4> QED
        BY <2>1, <2>5, <3>2, <4>1
    <3> QED
      BY <3>1, <3>2
  <2> QED
    BY <2>1, <2>3, <2>5
<1> QED
  BY <1>1, <1>2

(***************************************************************************)
(* Generations                                                             *)
(***************************************************************************)
\* The cases for which what the backend goes by tells it enough: input flows
\* do not tell a reader from the readers that a forwarded flow leaves behind,
\* and anti-flows do not tell the readers of a continuation that is left
\* without an anti-in flow.
SufficientCases(kind) ==
  CaptureCases \ IF kind = "flows" THEN {ScheduleModifyFromModifyRead}
                 ELSE {ReadFromModify, ModifyReadFromModify}

\* The flow that tells the generation of a use, the one that tells the next
\* generation, and the one a writer of its generation waits for.  They apply to
\* uses, and to the names, the relationships and the places of their flows.
LevelOf(kind, flows, writes) ==
  IF kind = "flows" THEN flows.in
  ELSE IF writes THEN flows.anti_in ELSE flows.anti_out

NextOf(kind, flows, writes) ==
  IF kind = "flows" THEN flows.out
  ELSE IF writes THEN flows.anti_out ELSE flows.anti_in

CountedOf(kind, flows) == IF kind = "flows" THEN flows.in ELSE flows.anti_out

SourceFlows ==
  [in |-> "source_in", out |-> "source_out",
   anti_in |-> "source_anti_in", anti_out |-> "source_anti_out"]

CapturedFlows ==
  [in |-> "captured_in", out |-> "captured_out",
   anti_in |-> "captured_anti_in", anti_out |-> "captured_anti_out"]

\* A relationship for which register_use makes a flow.
Makes(relationship) == relationship.description \in {"Next", "Forwarding"}

FrontEndPairs == PermissionsAmong(FrontEndPermissions, FrontEndPermissions)

\* What the captured use of a case is to its source: of the same generation,
\* unless the source wrote; then of one of its own.  It has an out flow if it
\* may write or schedule writers, and if it may schedule writers, a next
\* generation of its own.
CapturesInGeneration(kind, case, source, request) ==
  LET writes  == "write" \in source.immediate
      level   == LevelOf(kind, case.captured, "write" \in request.immediate)
      counted == CountedOf(kind, case.captured)
  IN  /\ IF "write" \in request.scheduling \cup request.immediate
         THEN case.captured.out.description = "Next" /\ case.needs_new_continuation_use
         ELSE case.captured.out.description = "Insignificant"
      /\ case.needs_new_continuation_use => "write" \in source.scheduling
      /\ \/ /\ case.captured.in = Same("source_in")
            /\ ~writes
            /\ level = Same(LevelOf(kind, SourceFlows, writes))
         \/ /\ case.captured.in = Forwarding("source_in")
            /\ case.needs_new_continuation_use
            /\ source.immediate # None
            /\ IF writes THEN Makes(level) ELSE level = Same(LevelOf(kind, SourceFlows, writes))
      /\ counted = level \/ Makes(counted) \/ counted = Insignificant
      /\ "write" \notin request.immediate => counted = level
      /\ "write" \in request.scheduling =>
           Makes(NextOf(kind, case.captured, "write" \in request.immediate))

\* What the continuation of a case is to its source and the captured use: it
\* goes on to what the source would have gone on to; and either it is what
\* follows the captured use, and of the next generation, or both only read what
\* the source wrote.
ContinuesGenerations(kind, case, source, request) ==
  LET level == LevelOf(kind, case.continuing, FALSE)
      next  == NextOf(kind, CapturedFlows, "write" \in request.immediate)
  IN  /\ NextOf(kind, case.continuing, FALSE)
           = Same(NextOf(kind, SourceFlows, "write" \in source.immediate))
      /\ case.continuing.out = Same("source_out")
      /\ case.continuation.scheduling = Modify
      /\ \/ /\ case.continuing.in = Same("captured_out")
            /\ case.captured.out.description = "Next"
            /\ case.continuation.immediate = None
            /\ \/ Makes(level) /\ "write" \notin request.scheduling
               \/ /\ level = Same(next)
                  /\ Makes(NextOf(kind, case.captured, "write" \in request.immediate))
         \/ /\ kind = "flows"
            /\ case.continuing.in = Same("captured_in")
            /\ case.captured.in = Forwarding("source_in")
            /\ case.continuation.immediate = Read
            /\ "write" \in source.immediate
            /\ "write" \notin request.scheduling \cup request.immediate

Generations(kind, case) ==
  \A source, request \in FrontEndPairs :
    Matches(case, "Sequential", source, request) =>
      /\ CapturesInGeneration(kind, case, source, request)
      /\ case.needs_new_continuation_use => ContinuesGenerations(kind, case, source, request)

\* Every case keeps the generations apart, for the backends it suffices for.
LEMMA CaseGenerations ==
  ASSUME NEW kind \in BackendKinds
  PROVE  \A case \in SufficientCases(kind) : Generations(kind, case)
<1> USE DEF Generations, CapturesInGeneration, ContinuesGenerations, Makes, LevelOf, NextOf,
        CountedOf, SourceFlows, CapturedFlows, FrontEndPairs, FrontEndPermissions, Matches,
        CaptureCase, CaptureCaseNoNewContinuationUse, UseFlows, Same, NextFlow,
        Forwarding, Insignificant, NextOfInFlow, NextAntiFlowOfAntiIn, PermissionsAmong,
        Perms, None, Read, Modify
<1>1. Generations(kind, ScheduleReadFromScheduleOnly)
  BY DEF ScheduleReadFromScheduleOnly
<1>2. Generations(kind, ModifyFromScheduleModify)
  BY DEF ModifyFromScheduleModify
<1>3. Generations(kind, LeafModifyFromScheduleModify)
  BY DEF LeafModifyFromScheduleModify
<1>4. Generations(kind, ScheduleReadFromRead)
  BY DEF ScheduleReadFromRead
<1>5. Generations(kind, ScheduleModifyFromScheduleModify)
  BY DEF ScheduleModifyFromScheduleModify
<1>6. kind = "anti_flows" => Generations(kind, ScheduleModifyFromModifyRead)
  BY DEF ScheduleModifyFromModifyRead
<1>7. Generations(kind, ScheduleModifyFromModify)
  BY DEF ScheduleModifyFromModify
<1>8. Generations(kind, ReadFromReadOrScheduleOnly)
  BY DEF ReadFromReadOrScheduleOnly
<1>9. kind = "flows" => Generations(kind, ReadFromModify)
  BY DEF ReadFromModify
<1>10. Generations(kind, ModifyReadFromScheduleModify)
  BY DEF ModifyReadFromScheduleModify
<1>11. Generations(kind, ModifyReadFromModifyRead)
  BY DEF ModifyReadFromModifyRead
<1>12. kind = "flows" => Generations(kind, ModifyReadFromModify)
  BY DEF ModifyReadFromModify
<1>13. Generations(kind, ModifyFromModifyRead)
  BY DEF ModifyFromModifyRead
<1>14. Generations(kind, ModifyFromModify)
  BY DEF ModifyFromModify
<1>15. Generations(kind, CommutativeModify)
  BY DEF CommutativeModify
<1> HIDE DEF Generations
<1>16. CaptureCases =
         {ScheduleReadFromScheduleOnly, ModifyFromScheduleModify,
          LeafModifyFromScheduleModify, ScheduleReadFromRead,
          ScheduleModifyFromScheduleModify, ScheduleModifyFromModifyRead,
          ScheduleModifyFromModify, ReadFromReadOrScheduleOnly, ReadFromModify,
          ModifyReadFromScheduleModify, ModifyReadFromModifyRead,
          ModifyReadFromModify, ModifyFromModifyRead, ModifyFromModify,
          CommutativeModify}
  BY Zenon DEF CaptureCases
<1>17. /\ ScheduleModifyFromModifyRead \in SufficientCases(kind) => kind # "flows"
       /\ ReadFromModify \in SufficientCases(kind) => kind = "flows"
       /\ ModifyReadFromModify \in SufficientCases(kind) => kind = "flows"
       /\ SufficientCases(kind) \subseteq CaptureCases
  BY Zenon DEF SufficientCases
<1>18. kind # "flows" => kind = "anti_flows"
  BY DEF BackendKinds
<1> QED
  BY <1>1, <1>2, <1>3, <1>4, <1>5, <1>6, <1>7, <1>8, <1>9, <1>10,
     <1>11, <1>12, <1>13, <1>14, <1>15, <1>16, <1>17, <1>18, Zenon

\* A use registered for a task in terms of known flows.
AsRegistered(u, relationships, known, owner) ==
  /\ u.in       = Establish(relationships.in, known, Flow(owner, "in"))
  /\ u.out      = Establish(relationships.out, known, Flow(owner, "out"))
  /\ u.anti_in  = Establish(relationships.anti_in, known, Flow(owner, "anti_in"))
  /\ u.anti_out = Establish(relationships.anti_out, known, Flow(owner, "anti_out"))

\* What the capture of a source use for a child makes of the captured use.
CapturedFrom(kind, source, new, child) ==
  LET writes == "write" \in source.immediate
      level  == LevelOf(kind, new, "write" \in new.immediate)
  IN  /\ new.scheduling \in FrontEndPermissions
      /\ new.immediate \in FrontEndPermissions
      /\ new.out = IF "write" \in new.scheduling \cup new.immediate
                     THEN Flow(child, "out") ELSE NoFlow
      /\ \/ /\ new.in = source.in
            /\ ~writes
            /\ level = LevelOf(kind, source, writes)
         \/ /\ new.in = Flow(child, "in")
            /\ source.immediate # None
            /\ level = IF writes
                         THEN Flow(child, LevelOf(kind, CapturedPlaces, "write" \in new.immediate))
                         ELSE LevelOf(kind, source, writes)
      /\ CountedOf(kind, new) \in {level, NoFlow, Flow(child, CountedOf(kind, CapturedPlaces))}
      /\ "write" \notin new.immediate => CountedOf(kind, new) = level
      /\ "write" \in new.scheduling =>
           NextOf(kind, new, "write" \in new.immediate)
             = Flow(child, NextOf(kind, CapturedPlaces, "write" \in new.immediate))

\* What register_use makes of the relationships of a captured use.
LEMMA EstablishedCaptures ==
  ASSUME NEW kind, NEW source, NEW case, NEW request, NEW child,
         CapturesInGeneration(kind, case, source, request),
         request \in FrontEndPairs,
         NEW new,
         AsRegistered(new, case.captured, FlowsOfSource(source), child),
         new.scheduling = request.scheduling,
         new.immediate = request.immediate
  PROVE  CapturedFrom(kind, source, new, child)
<1> DEFINE known == FlowsOfSource(source)
           nw == "write" \in new.immediate
           writes == "write" \in source.immediate
<1>1. /\ LevelOf(kind, new, nw) = Establish(LevelOf(kind, case.captured, nw), known,
                                      Flow(child, LevelOf(kind, CapturedPlaces, nw)))
      /\ NextOf(kind, new, nw) = Establish(NextOf(kind, case.captured, nw), known,
                                     Flow(child, NextOf(kind, CapturedPlaces, nw)))
      /\ CountedOf(kind, new) = Establish(CountedOf(kind, case.captured), known,
                                    Flow(child, CountedOf(kind, CapturedPlaces)))
  BY DEF AsRegistered, LevelOf, NextOf, CountedOf, CapturedPlaces
<1>2. /\ known[LevelOf(kind, SourceFlows, writes)] = LevelOf(kind, source, writes)
      /\ known["source_in"] = source.in
  BY DEF FlowsOfSource, SourceFlows, LevelOf
<1>3. /\ new.in = Establish(case.captured.in, known, Flow(child, "in"))
      /\ new.out = Establish(case.captured.out, known, Flow(child, "out"))
  BY DEF AsRegistered
<1>4. /\ new.scheduling \in FrontEndPermissions
      /\ new.immediate \in FrontEndPermissions
  BY DEF FrontEndPairs, PermissionsAmong
<1> HIDE DEF known
<1>5. \A r, made : Makes(r) => Establish(r, known, made) = made
  BY DEF Makes, Establish
<1>6. /\ \A name, made : Establish(Same(name), known, made) = known[name]
      /\ \A made : Establish(Insignificant, known, made) = NoFlow
      /\ \A name : Makes(Forwarding(name))
  BY DEF Establish, Same, Insignificant, Forwarding, Makes
<1>7. new.out = IF "write" \in new.scheduling \cup new.immediate
                  THEN Flow(child, "out") ELSE NoFlow
  BY <1>3, <1>5 DEF CapturesInGeneration, Makes, Establish
<1>8. \/ /\ new.in = source.in
         /\ ~writes
         /\ LevelOf(kind, new, nw) = LevelOf(kind, source, writes)
      \/ /\ new.in = Flow(child, "in")
         /\ source.immediate # None
         /\ LevelOf(kind, new, nw) = IF writes THEN Flow(child, LevelOf(kind, CapturedPlaces, nw))
                                         ELSE LevelOf(kind, source, writes)
  <2>1. CASE /\ case.captured.in = Same("source_in")
             /\ ~writes
             /\ LevelOf(kind, case.captured, nw) = Same(LevelOf(kind, SourceFlows, writes))
    <3>1. new.in = source.in
      BY <1>2, <1>3, <1>6, <2>1
    <3>2. LevelOf(kind, new, nw) = LevelOf(kind, source, writes)
      BY <1>1, <1>2, <1>6, <2>1
    <3> QED
      BY <2>1, <3>1, <3>2
  <2>2. CASE /\ case.captured.in = Forwarding("source_in")
             /\ source.immediate # None
             /\ IF writes THEN Makes(LevelOf(kind, case.captured, nw))
                          ELSE LevelOf(kind, case.captured, nw) = Same(LevelOf(kind, SourceFlows, writes))
    <3>1. new.in = Flow(child, "in")
      BY <1>3, <1>5, <1>6, <2>2
    <3>2. writes => LevelOf(kind, new, nw) = Flow(child, LevelOf(kind, CapturedPlaces, nw))
      BY <1>1, <1>5, <2>2
    <3>3. ~writes => LevelOf(kind, new, nw) = LevelOf(kind, source, writes)
      BY <1>1, <1>2, <1>6, <2>2
    <3> QED
      BY <2>2, <3>1, <3>2, <3>3
  <2> QED
    BY <2>1, <2>2 DEF CapturesInGeneration
<1>9. nw <=> "write" \in request.immediate
  OBVIOUS
<1>10. ~nw => CountedOf(kind, new) = LevelOf(kind, new, nw)
  <2> SUFFICES ASSUME ~nw PROVE CountedOf(kind, new) = LevelOf(kind, new, nw)
    OBVIOUS
  <2> QED
    BY DEF CountedOf, LevelOf
<1>11. CountedOf(kind, new) \in {LevelOf(kind, new, nw), NoFlow, Flow(child, CountedOf(kind, CapturedPlaces))}
  <2>1. CASE CountedOf(kind, case.captured) = LevelOf(kind, case.captured, nw)
    <3>1. CASE kind = "flows" \/ ~nw
      BY <3>1 DEF CountedOf, LevelOf
    <3>2. CASE kind # "flows" /\ nw
      <4>1. LevelOf(kind, case.captured, nw) = Same(LevelOf(kind, SourceFlows, writes))
            \/ Makes(LevelOf(kind, case.captured, nw))
        BY DEF CapturesInGeneration
      <4>2. CASE Makes(LevelOf(kind, case.captured, nw))
        BY <1>1, <1>5, <2>1, <4>2
      <4>3. CASE LevelOf(kind, case.captured, nw) = Same(LevelOf(kind, SourceFlows, writes))
        BY <1>1, <1>6, <2>1, <4>3
      <4> QED
        BY <4>1, <4>2, <4>3
    <3> QED
      BY <3>1, <3>2
  <2>2. CASE Makes(CountedOf(kind, case.captured))
    BY <1>1, <1>5, <2>2
  <2>3. CASE CountedOf(kind, case.captured) = Insignificant
    BY <1>1, <1>6, <2>3
  <2> QED
    BY <2>1, <2>2, <2>3 DEF CapturesInGeneration
<1>12. "write" \in new.scheduling => NextOf(kind, new, nw) = Flow(child, NextOf(kind, CapturedPlaces, nw))
  BY <1>1, <1>5 DEF CapturesInGeneration
<1> QED
  BY <1>4, <1>7, <1>8, <1>10, <1>11, <1>12 DEF CapturedFrom

\* What the continuation of a source use is, next to the captured use.
ContinuedFrom(kind, source, captured, new, child) ==
  LET level == LevelOf(kind, new, FALSE)
      next  == NextOf(kind, captured, "write" \in captured.immediate)
  IN  /\ new.out = source.out
      /\ NextOf(kind, new, FALSE) = NextOf(kind, source, "write" \in source.immediate)
      /\ new.scheduling = Modify
      /\ \/ /\ captured.out = Flow(child, "out")
            /\ new.in = captured.out
            /\ new.immediate = None
            /\ \/ /\ level = next
                  /\ level = Flow(child, NextOf(kind, CapturedPlaces, "write" \in captured.immediate))
               \/ /\ level = Flow(child, LevelOf(kind, ContinuingPlaces, FALSE))
                  /\ "write" \notin captured.scheduling
         \/ /\ kind = "flows"
            /\ captured.in = Flow(child, "in")
            /\ new.in = captured.in
            /\ new.immediate = Read
            /\ "write" \in source.immediate
            /\ "write" \notin captured.scheduling \cup captured.immediate

\* What register_use makes of the relationships of a continuation.
LEMMA EstablishedContinues ==
  ASSUME NEW kind, NEW source, NEW captured, NEW case, NEW child, NEW data,
         ContinuesGenerations(kind, case, source, captured),
         AsRegistered(captured, case.captured, FlowsOfSource(source), child),
         NEW new,
         new = MakeUse(case.continuation,
                       RegisteredFlows(case.continuing, FlowsOfCapture(source, captured),
                                       child, ContinuingPlaces),
                       data)
  PROVE  ContinuedFrom(kind, source, captured, new, child)
<1> DEFINE known == FlowsOfCapture(source, captured)
           before == FlowsOfSource(source)
           cw == "write" \in captured.immediate
           writes == "write" \in source.immediate
<1>1. /\ new.in = Establish(case.continuing.in, known, Flow(child, "cont_in"))
      /\ new.out = Establish(case.continuing.out, known, Flow(child, "cont_out"))
      /\ new.scheduling = case.continuation.scheduling
      /\ new.immediate = case.continuation.immediate
  BY DEF MakeUse, RegisteredFlows, UseFlows, ContinuingPlaces
<1>2. /\ LevelOf(kind, new, FALSE) = Establish(LevelOf(kind, case.continuing, FALSE), known,
                                         Flow(child, LevelOf(kind, ContinuingPlaces, FALSE)))
      /\ NextOf(kind, new, FALSE) = Establish(NextOf(kind, case.continuing, FALSE), known,
                                        Flow(child, NextOf(kind, ContinuingPlaces, FALSE)))
  BY DEF MakeUse, RegisteredFlows, UseFlows, ContinuingPlaces, LevelOf, NextOf
<1>3. /\ known[NextOf(kind, SourceFlows, writes)] = NextOf(kind, source, writes)
      /\ known[NextOf(kind, CapturedFlows, cw)] = NextOf(kind, captured, cw)
      /\ known["source_out"] = source.out
      /\ known["captured_in"] = captured.in
      /\ known["captured_out"] = captured.out
  BY DEF FlowsOfCapture, SourceFlows, CapturedFlows, NextOf
<1>4. /\ captured.in = Establish(case.captured.in, before, Flow(child, "in"))
      /\ captured.out = Establish(case.captured.out, before, Flow(child, "out"))
      /\ NextOf(kind, captured, cw) = Establish(NextOf(kind, case.captured, cw), before,
                                          Flow(child, NextOf(kind, CapturedPlaces, cw)))
  BY DEF AsRegistered, NextOf, CapturedPlaces
<1> HIDE DEF known, before
<1>5. /\ \A r, made : Makes(r) => Establish(r, known, made) = made
      /\ \A r, made : Makes(r) => Establish(r, before, made) = made
      /\ \A name, made : Establish(Same(name), known, made) = known[name]
      /\ \A name : Makes(Forwarding(name))
  BY DEF Makes, Establish, Same, Forwarding
<1>6. /\ new.out = source.out
      /\ NextOf(kind, new, FALSE) = NextOf(kind, source, writes)
      /\ new.scheduling = Modify
  <2>1. /\ NextOf(kind, case.continuing, FALSE) = Same(NextOf(kind, SourceFlows, writes))
        /\ case.continuing.out = Same("source_out")
        /\ case.continuation.scheduling = Modify
    BY DEF ContinuesGenerations
  <2>2. new.out = known["source_out"]
    BY <1>1, <1>5, <2>1
  <2>3. NextOf(kind, new, FALSE) = known[NextOf(kind, SourceFlows, writes)]
    BY <1>2, <1>5, <2>1
  <2> QED
    BY <1>1, <1>3, <2>1, <2>2, <2>3
<1>7. CASE /\ case.continuing.in = Same("captured_out")
           /\ case.captured.out.description = "Next"
           /\ case.continuation.immediate = None
           /\ \/ Makes(LevelOf(kind, case.continuing, FALSE)) /\ "write" \notin captured.scheduling
              \/ /\ LevelOf(kind, case.continuing, FALSE) = Same(NextOf(kind, CapturedFlows, cw))
                 /\ Makes(NextOf(kind, case.captured, cw))
  <2>1. /\ captured.out = Flow(child, "out")
        /\ new.in = captured.out
        /\ new.immediate = None
    BY <1>1, <1>3, <1>4, <1>5, <1>7 DEF Makes
  <2>2. CASE Makes(LevelOf(kind, case.continuing, FALSE)) /\ "write" \notin captured.scheduling
    <3>1. LevelOf(kind, new, FALSE) = Flow(child, LevelOf(kind, ContinuingPlaces, FALSE))
      BY <1>2, <1>5, <2>2
    <3> QED
      BY <1>6, <2>1, <2>2, <3>1 DEF ContinuedFrom
  <2>3. CASE /\ LevelOf(kind, case.continuing, FALSE) = Same(NextOf(kind, CapturedFlows, cw))
             /\ Makes(NextOf(kind, case.captured, cw))
    <3>1. LevelOf(kind, new, FALSE) = NextOf(kind, captured, cw)
      BY <1>2, <1>3, <1>5, <2>3
    <3>2. NextOf(kind, captured, cw) = Flow(child, NextOf(kind, CapturedPlaces, cw))
      BY <1>4, <1>5, <2>3
    <3> QED
      BY <1>6, <2>1, <3>1, <3>2 DEF ContinuedFrom
  <2> QED
    BY <1>7, <2>2, <2>3
<1>8. CASE /\ kind = "flows"
           /\ case.continuing.in = Same("captured_in")
           /\ case.captured.in = Forwarding("source_in")
           /\ case.continuation.immediate = Read
           /\ writes
           /\ "write" \notin captured.scheduling \cup captured.immediate
  <2>1. /\ captured.in = Flow(child, "in")
        /\ new.in = captured.in
        /\ new.immediate = Read
    BY <1>1, <1>3, <1>4, <1>5, <1>8
  <2> QED
    BY <1>6, <1>8, <2>1 DEF ContinuedFrom
<1> QED
  BY <1>7, <1>8 DEF ContinuesGenerations

\* What a case has of permissions, its captured use and its continuation: a use
\* could be an alias exactly if it may only schedule writers, and what can only
\* read is handed on as it is.
ServesInShape(case) ==
  \A source, request :
    Matches(case, "Sequential", source, request) =>
      /\ source \in FrontEndPairs /\ request \in FrontEndPairs
      /\ case.could_be_alias <=> "write" \in request.scheduling /\ "write" \notin request.immediate
      /\ case.needs_new_continuation_use =>
           /\ "write" \in source.scheduling
           /\ case.continuation \in FrontEndPairs
           /\ "write" \in case.continuation.scheduling
           /\ "write" \notin case.continuation.immediate
      /\ "write" \notin source.scheduling =>
           /\ "write" \notin request.scheduling \cup request.immediate
           /\ case.captured.in = Same("source_in")
           /\ case.captured.out = Insignificant
           /\ case.captured.anti_in = Insignificant
           /\ case.captured.anti_out = Same("source_anti_out")

\* So it is for every case.
LEMMA CaseInShape ==
  \A case \in CaptureCases : ServesInShape(case)
<1> USE DEF ServesInShape, FrontEndPairs, FrontEndPermissions, Matches,
        CaptureCase, CaptureCaseNoNewContinuationUse, UseFlows, Same, NextFlow,
        Forwarding, Insignificant, NextOfInFlow, NextAntiFlowOfAntiIn, PermissionsAmong,
        Perms, None, Read, Modify
<1>1. ServesInShape(ScheduleReadFromScheduleOnly)
  BY DEF ScheduleReadFromScheduleOnly
<1>2. ServesInShape(ModifyFromScheduleModify)
  BY DEF ModifyFromScheduleModify
<1>3. ServesInShape(LeafModifyFromScheduleModify)
  BY DEF LeafModifyFromScheduleModify
<1>4. ServesInShape(ScheduleReadFromRead)
  BY DEF ScheduleReadFromRead
<1>5. ServesInShape(ScheduleModifyFromScheduleModify)
  BY DEF ScheduleModifyFromScheduleModify
<1>6. ServesInShape(ScheduleModifyFromModifyRead)
  BY DEF ScheduleModifyFromModifyRead
<1>7. ServesInShape(ScheduleModifyFromModify)
  BY DEF ScheduleModifyFromModify
<1>8. ServesInShape(ReadFromReadOrScheduleOnly)
  BY DEF ReadFromReadOrScheduleOnly
<1>9. ServesInShape(ReadFromModify)
  BY DEF ReadFromModify
<1>10. ServesInShape(ModifyReadFromScheduleModify)
  BY DEF ModifyReadFromScheduleModify
<1>11. ServesInShape(ModifyReadFromModifyRead)
  BY DEF ModifyReadFromModifyRead
<1>12. ServesInShape(ModifyReadFromModify)
  BY DEF ModifyReadFromModify
<1>13. ServesInShape(ModifyFromModifyRead)
  BY DEF ModifyFromModifyRead
<1>14. ServesInShape(ModifyFromModify)
  BY DEF ModifyFromModify
<1>15. ServesInShape(CommutativeModify)
  BY DEF CommutativeModify
<1> HIDE DEF ServesInShape
<1> QED
  BY <1>1, <1>2, <1>3, <1>4, <1>5, <1>6, <1>7, <1>8, <1>9, <1>10,
     <1>11, <1>12, <1>13, <1>14, <1>15, Zenon DEF CaptureCases

\* A captured use has an input, the one of its source or a new one, and so has
\* what continues.
KeepsInput(case) ==
  /\ case.captured.in \in {Same("source_in"), Forwarding("source_in")}
  /\ case.needs_new_continuation_use =>
       \/ case.continuing.in \in {Same("source_in"), Same("captured_in")}
       \/ /\ case.continuing.in = Same("captured_out")
          /\ case.captured.out.description = "Next"

\* So it is for every case.
LEMMA CaseKeepsInput == \A case \in CaptureCases : KeepsInput(case)
<1> USE DEF KeepsInput, CaptureCase, CaptureCaseNoNewContinuationUse, UseFlows, Same, NextFlow,
        Forwarding, Insignificant, NextOfInFlow, NextAntiFlowOfAntiIn
<1>1. KeepsInput(ScheduleReadFromScheduleOnly)
  BY DEF ScheduleReadFromScheduleOnly
<1>2. KeepsInput(ModifyFromScheduleModify)
  BY DEF ModifyFromScheduleModify
<1>3. KeepsInput(LeafModifyFromScheduleModify)
  BY DEF LeafModifyFromScheduleModify
<1>4. KeepsInput(ScheduleReadFromRead)
  BY DEF ScheduleReadFromRead
<1>5. KeepsInput(ScheduleModifyFromScheduleModify)
  BY DEF ScheduleModifyFromScheduleModify
<1>6. KeepsInput(ScheduleModifyFromModifyRead)
  BY DEF ScheduleModifyFromModifyRead
<1>7. KeepsInput(ScheduleModifyFromModify)
  BY DEF ScheduleModifyFromModify
<1>8. KeepsInput(ReadFromReadOrScheduleOnly)
  BY DEF ReadFromReadOrScheduleOnly
<1>9. KeepsInput(ReadFromModify)
  BY DEF ReadFromModify
<1>10. KeepsInput(ModifyReadFromScheduleModify)
  BY DEF ModifyReadFromScheduleModify
<1>11. KeepsInput(ModifyReadFromModifyRead)
  BY DEF ModifyReadFromModifyRead
<1>12. KeepsInput(ModifyReadFromModify)
  BY DEF ModifyReadFromModify
<1>13. KeepsInput(ModifyFromModifyRead)
  BY DEF ModifyFromModifyRead
<1>14. KeepsInput(ModifyFromModify)
  BY DEF ModifyFromModify
<1>15. KeepsInput(CommutativeModify)
  BY DEF CommutativeModify
<1> HIDE DEF KeepsInput
<1> QED
  BY <1>1, <1>2, <1>3, <1>4, <1>5, <1>6, <1>7, <1>8, <1>9, <1>10,
     <1>11, <1>12, <1>13, <1>14, <1>15, Zenon DEF CaptureCases

=============================================================================
