-------------------------- MODULE CaptureSemantics --------------------------
(***************************************************************************)
(* What capturing an AccessHandle does, as a function of permissions: the  *)
(* request a capture makes (capture flags, downgrades, merged conditional  *)
(* captures) and the table of capture cases of                             *)
(* darma/impl/capture/semantics.h, which gives for every supported         *)
(* (source, request, coherence mode) the permissions of the continuation   *)
(* and the relationship that creates each flow and anti-flow of the        *)
(* captured and of the continuing use.                                     *)
(*                                                                         *)
(* Nothing here has state.  A permission is the set of rights it grants;   *)
(* the code keeps the same set as a two-bit mask.                          *)
(***************************************************************************)

(***************************************************************************)
(* frontend::Permissions                                                   *)
(***************************************************************************)
None   == {}
Read   == {"read"}
Write  == {"write"}
Modify == {"read", "write"}

Permissions == SUBSET Modify

CoherenceModes == {"Sequential", "Commutative"}

\* The scheduling and immediate permissions of a use, or those a capture
\* asks for.
Perms(scheduling, immediate) ==
  [scheduling |-> scheduling, immediate |-> immediate]

PermissionPairs == [scheduling : Permissions, immediate : Permissions]

(***************************************************************************)
(* The request.  Flags are set on the source handle by the parameter types *)
(* of the task and by reads(...) and schedule_only(...), consulted once by *)
(* the capture, and cleared.  Nothing in the front end sets WriteOnly.     *)
(***************************************************************************)
CaptureFlags  == {"ReadOnly", "WriteOnly", "ScheduleOnly", "Leaf"}
FrontEndFlags == CaptureFlags \ {"WriteOnly"}

\* modify_capture, the operation every capture manager starts from, asks
\* for the most the source may schedule: both permissions default to the
\* scheduling permissions of the source.
DefaultRequest(sourceScheduling) ==
  Perms(sourceScheduling, sourceScheduling)

\* The right a flag takes away from both permissions.
DroppedRights(flags) ==
  (IF "ReadOnly" \in flags THEN Write ELSE None)
    \cup (IF "WriteOnly" \in flags THEN Read ELSE None)

RequestedPermissions(sourceScheduling, flags) ==
  LET asked == DefaultRequest(sourceScheduling)
      kept(permission) == permission \ DroppedRights(flags)
  IN  Perms(IF "Leaf" \in flags THEN None ELSE kept(asked.scheduling),
            IF "ScheduleOnly" \in flags THEN None ELSE kept(asked.immediate))

\* The condition of a conditional or of a loop captures the handle for
\* itself and must be able to schedule the capture of its body.
RequireAbilityToSchedule(request, nested) ==
  [request EXCEPT !.scheduling = @ \cup nested.scheduling \cup nested.immediate]

\* The requests a source with these scheduling permissions can receive: a
\* plain capture, or the outer capture of a conditional or of a loop.
FrontEndRequests(sourceScheduling) ==
  LET plain == {RequestedPermissions(sourceScheduling, flags) :
                  flags \in SUBSET FrontEndFlags}
  IN  plain \cup {RequireAbilityToSchedule(request, nested) :
                    request \in plain, nested \in plain}

(***************************************************************************)
(* Flow relationships.  "of" names the flow the new one is related to: a   *)
(* flow of the source use, of the captured use, or the in (anti-in) flow   *)
(* of the very use the relationship belongs to.                            *)
(***************************************************************************)
Same(flow)       == [description |-> "Same",       of |-> flow]
NextFlow(flow)   == [description |-> "Next",       of |-> flow]
Forwarding(flow) == [description |-> "Forwarding", of |-> flow]
Initial          == [description |-> "Initial",       of |-> "nothing"]
Null             == [description |-> "Null",          of |-> "nothing"]
Insignificant    == [description |-> "Insignificant", of |-> "nothing"]

NextOfInFlow         == NextFlow("own_in")
NextAntiFlowOfAntiIn == NextFlow("own_anti_in")

\* The four relationships a use is registered with.
UseFlows(in, out, antiIn, antiOut) ==
  [in |-> in, out |-> out, anti_in |-> antiIn, anti_out |-> antiOut]

(***************************************************************************)
(* Capture cases.  A case applies to the sources and requests it lists     *)
(* (the pattern parameters of its macro) in one coherence mode.            *)
(*                                                                         *)
(* A definition whose name ends in "Slip" is a case as a plausible slip    *)
(* would have it.  Nothing uses it: it stands before the case it spoils,   *)
(* so that a run can be shown to notice the difference.                    *)
(***************************************************************************)
PermissionsAmong(scheduling, immediate) ==
  [scheduling : scheduling, immediate : immediate]

\* The continuation of a case that makes none: the macro registers
\* functions that must not be called in its place.
NoFlows == UseFlows(Insignificant, Insignificant, Insignificant, Insignificant)

\* A case whose source use stays the continuation.
CaptureCaseNoNewContinuationUse(sources, requests, captured) ==
  [coherence_mode |-> "Sequential",
   sources        |-> sources,
   requests       |-> requests,
   captured       |-> captured,
   needs_new_continuation_use |-> FALSE,
   continuation   |-> Perms(None, None),
   continuing     |-> NoFlows,
   could_be_alias |-> FALSE]

\* A case whose source use is replaced by a new continuation use.
CaptureCase(mode, sources, requests, continuation, captured, continuing, alias) ==
  [coherence_mode |-> mode,
   sources        |-> sources,
   requests       |-> requests,
   captured       |-> captured,
   needs_new_continuation_use |-> TRUE,
   continuation   |-> continuation,
   continuing     |-> continuing,
   could_be_alias |-> alias]

ScheduleReadFromScheduleOnly ==                    \* RN, MN -> { RN }
  CaptureCaseNoNewContinuationUse(
    PermissionsAmong({Read, Modify}, {None}),
    PermissionsAmong({Read}, {None}),
    UseFlows(Same("source_in"), Insignificant,
             Insignificant, Same("source_anti_out")))

\* The patterns of the case also take leaf captures.
LeafTooSlip ==
  CaptureCase("Sequential",
    PermissionsAmong({Modify}, {None}),
    PermissionsAmong({None, Read, Modify}, {Modify}),
    Perms(Modify, None),
    UseFlows(Same("source_in"), NextOfInFlow,
             Same("source_anti_out"), NextAntiFlowOfAntiIn),
    UseFlows(Same("captured_out"), Same("source_out"),
             Same("source_anti_in"), Same("captured_anti_out")),
    FALSE)

\* The patterns of the case also take sources that may only read.
ReaderTooSlip ==
  [LeafTooSlip EXCEPT
     !.sources  = PermissionsAmong({Read, Modify}, {None}),
     !.requests = PermissionsAmong({Read, Modify}, {Modify})]

\* The continuation goes on from the input of the task, not its output.
StaleContinuationSlip ==
  [LeafTooSlip EXCEPT
     !.requests      = PermissionsAmong({Read, Modify}, {Modify}),
     !.continuing.in = Same("source_in")]

\* The task produces the flow its continuation produces.
SharedOutSlip ==
  [LeafTooSlip EXCEPT
     !.requests     = PermissionsAmong({Read, Modify}, {Modify}),
     !.captured.out = Same("source_out")]

ModifyFromScheduleModify ==                        \* MN -> { RM, MM } -> MN
  CaptureCase("Sequential",
    PermissionsAmong({Modify}, {None}),
    PermissionsAmong({Read, Modify}, {Modify}),
    Perms(Modify, None),
    UseFlows(Same("source_in"), NextOfInFlow,
             Same("source_anti_out"), NextAntiFlowOfAntiIn),
    UseFlows(Same("captured_out"), Same("source_out"),
             Same("source_anti_in"), Same("captured_anti_out")),
    FALSE)

LeafModifyFromScheduleModify ==                    \* MN -> { NM } -> MN
  CaptureCase("Sequential",
    PermissionsAmong({Modify}, {None}),
    PermissionsAmong({None}, {Modify}),
    Perms(Modify, None),
    UseFlows(Same("source_in"), NextOfInFlow,
             Same("source_anti_out"), Insignificant),
    UseFlows(Same("captured_out"), Same("source_out"),
             Same("source_anti_in"), NextFlow("source_anti_out")),
    FALSE)

ScheduleReadFromRead ==                            \* RR, MR -> { RN }
  CaptureCaseNoNewContinuationUse(
    PermissionsAmong({Read, Modify}, {Read}),
    PermissionsAmong({Read}, {None}),
    UseFlows(Same("source_in"), Insignificant,
             Insignificant, Same("source_anti_out")))

\* The captured use is not marked as one that could be an alias.
NoAliasSlip ==
  CaptureCase("Sequential",
    PermissionsAmong({Modify}, {None}),
    PermissionsAmong({Modify}, {None}),
    Perms(Modify, None),
    UseFlows(Same("source_in"), NextOfInFlow,
             NextFlow("source_anti_out"), Same("source_anti_out")),
    UseFlows(Same("captured_out"), Same("source_out"),
             Same("source_anti_in"), Same("captured_anti_in")),
    FALSE)

\* What the task schedules waits for no reader that came before it.
SwappedAntiSlip ==
  [NoAliasSlip EXCEPT
     !.captured.anti_in  = Same("source_anti_in"),
     !.captured.anti_out = NextFlow("source_anti_out"),
     !.could_be_alias    = TRUE]

ScheduleModifyFromScheduleModify ==                \* MN -> { MN } -> MN
  CaptureCase("Sequential",
    PermissionsAmong({Modify}, {None}),
    PermissionsAmong({Modify}, {None}),
    Perms(Modify, None),
    UseFlows(Same("source_in"), NextOfInFlow,
             NextFlow("source_anti_out"), Same("source_anti_out")),
    UseFlows(Same("captured_out"), Same("source_out"),
             Same("source_anti_in"), Same("captured_anti_in")),
    TRUE)

ScheduleModifyFromModifyRead ==                    \* MR -> { MN } -> MN
  CaptureCase("Sequential",
    PermissionsAmong({Modify}, {Read}),
    PermissionsAmong({Modify}, {None}),
    Perms(Modify, None),
    UseFlows(Forwarding("source_in"), NextOfInFlow,
             NextFlow("source_anti_out"), Same("source_anti_out")),
    UseFlows(Same("captured_out"), Same("source_out"),
             Same("source_anti_in"), Same("captured_anti_in")),
    TRUE)

ScheduleModifyFromModify ==                        \* MM -> { MN } -> MN
  CaptureCase("Sequential",
    PermissionsAmong({Modify}, {Modify}),
    PermissionsAmong({Modify}, {None}),
    Perms(Modify, None),
    UseFlows(Forwarding("source_in"), NextOfInFlow,
             NextFlow("source_anti_out"), NextAntiFlowOfAntiIn),
    UseFlows(Same("captured_out"), Same("source_out"),
             Same("source_anti_out"), Same("captured_anti_in")),
    TRUE)

\* The reader is not counted in the anti-flow of the source.
UncountedReaderSlip ==
  CaptureCaseNoNewContinuationUse(
    PermissionsAmong({Read, Modify}, {None, Read}),
    PermissionsAmong({None, Read}, {Read}),
    UseFlows(Same("source_in"), Insignificant, Insignificant, Insignificant))

\* The reader waits for what the continuation will produce.
ReadsOutputSlip ==
  [UncountedReaderSlip EXCEPT
     !.captured.in       = Same("source_out"),
     !.captured.anti_out = Same("source_anti_out")]

\* The patterns of the case leave out leaf captures.
NoLeafReaderSlip ==
  [UncountedReaderSlip EXCEPT
     !.requests          = PermissionsAmong({Read}, {Read}),
     !.captured.anti_out = Same("source_anti_out")]

\* The case makes the continuation of ReadFromModify, whatever the source.
ModifyContinuationSlip ==
  CaptureCase("Sequential",
    PermissionsAmong({Read, Modify}, {None, Read}),
    PermissionsAmong({None, Read}, {Read}),
    Perms(Modify, Read),
    UseFlows(Same("source_in"), Insignificant,
             Insignificant, Same("source_anti_out")),
    UseFlows(Same("source_in"), Same("source_out"),
             Same("source_anti_in"), Same("source_anti_out")),
    FALSE)

ReadFromReadOrScheduleOnly ==      \* RN, MN, RR, MR -> { NR, RR }
  CaptureCaseNoNewContinuationUse(
    PermissionsAmong({Read, Modify}, {None, Read}),
    PermissionsAmong({None, Read}, {Read}),
    UseFlows(Same("source_in"), Insignificant,
             Insignificant, Same("source_anti_out")))

\* The continuation keeps the immediate permissions of the source.
StillWritesSlip ==
  CaptureCase("Sequential",
    PermissionsAmong({Modify}, {Modify}),
    PermissionsAmong({None, Read}, {Read}),
    Perms(Modify, Modify),
    UseFlows(Forwarding("source_in"), Insignificant,
             Insignificant, Same("source_anti_out")),
    UseFlows(Same("captured_in"), Same("source_out"),
             Insignificant, Same("captured_anti_out")),
    FALSE)

ReadFromModify ==                                  \* MM -> { NR, RR } -> MR
  CaptureCase("Sequential",
    PermissionsAmong({Modify}, {Modify}),
    PermissionsAmong({None, Read}, {Read}),
    Perms(Modify, Read),
    UseFlows(Forwarding("source_in"), Insignificant,
             Insignificant, Same("source_anti_out")),
    UseFlows(Same("captured_in"), Same("source_out"),
             Insignificant, Same("captured_anti_out")),
    FALSE)

\* The captured use is not marked as one that could be an alias.
NoAliasConditionSlip ==
  [NoAliasSlip EXCEPT !.requests = PermissionsAmong({Modify}, {Read})]

ModifyReadFromScheduleModify ==                    \* MN -> { MR } -> MN
  CaptureCase("Sequential",
    PermissionsAmong({Modify}, {None}),
    PermissionsAmong({Modify}, {Read}),
    Perms(Modify, None),
    UseFlows(Same("source_in"), NextOfInFlow,
             NextFlow("source_anti_out"), Same("source_anti_out")),
    UseFlows(Same("captured_out"), Same("source_out"),
             Same("source_anti_in"), Same("captured_anti_in")),
    TRUE)

ModifyReadFromModifyRead ==                        \* MR -> { MR } -> MN
  CaptureCase("Sequential",
    PermissionsAmong({Modify}, {Read}),
    PermissionsAmong({Modify}, {Read}),
    Perms(Modify, None),
    UseFlows(Same("source_in"), NextOfInFlow,
             NextFlow("source_anti_out"), Same("source_anti_out")),
    UseFlows(Same("captured_out"), Same("source_out"),
             Same("source_anti_in"), Same("captured_anti_in")),
    TRUE)

ModifyReadFromModify ==                            \* MM -> { MR } -> MN
  CaptureCase("Sequential",
    PermissionsAmong({Modify}, {Modify}),
    PermissionsAmong({Modify}, {Read}),
    Perms(Modify, None),
    UseFlows(Forwarding("source_in"), NextOfInFlow,
             NextFlow("source_anti_out"), Same("source_anti_out")),
    UseFlows(Same("captured_out"), Same("source_out"),
             Insignificant, Same("captured_anti_in")),
    TRUE)

ModifyFromModifyRead ==                            \* MR -> { NM, RM, MM } -> MN
  CaptureCase("Sequential",
    PermissionsAmong({Modify}, {Read}),
    PermissionsAmong({None, Read, Modify}, {Modify}),
    Perms(Modify, None),
    UseFlows(Same("source_in"), NextOfInFlow,
             Same("source_anti_out"), NextAntiFlowOfAntiIn),
    UseFlows(Same("captured_out"), Same("source_out"),
             Same("source_anti_in"), Same("captured_anti_out")),
    FALSE)

ModifyFromModify ==                                \* MM -> { NM, RM, MM } -> MN
  CaptureCase("Sequential",
    PermissionsAmong({Modify}, {Modify}),
    PermissionsAmong({None, Read, Modify}, {Modify}),
    Perms(Modify, None),
    UseFlows(Forwarding("source_in"), NextOfInFlow,
             Forwarding("source_anti_out"), NextAntiFlowOfAntiIn),
    UseFlows(Same("captured_out"), Same("source_out"),
             Same("source_anti_out"), Same("captured_anti_out")),
    FALSE)

CommutativeModify ==                               \* MN -> { MM } -> MN
  CaptureCase("Commutative",
    PermissionsAmong({Modify}, {None}),
    PermissionsAmong({Modify}, {Modify}),
    Perms(Modify, None),
    UseFlows(Same("source_in"), Same("source_out"),
             Same("source_anti_in"), Same("source_anti_out")),
    UseFlows(Same("source_in"), Same("source_out"),
             Same("source_anti_in"), Same("source_anti_out")),
    FALSE)

(***************************************************************************)
(* The table.  The registrars of the cases fill it before main(); a lookup *)
(* that finds nothing aborts the program (_capture_case_not_implemented).  *)
(***************************************************************************)
CaptureCases ==
  {ScheduleReadFromScheduleOnly, ModifyFromScheduleModify,
   LeafModifyFromScheduleModify, ScheduleReadFromRead,
   ScheduleModifyFromScheduleModify, ScheduleModifyFromModifyRead,
   ScheduleModifyFromModify, ReadFromReadOrScheduleOnly, ReadFromModify,
   ModifyReadFromScheduleModify, ModifyReadFromModifyRead,
   ModifyReadFromModify, ModifyFromModifyRead, ModifyFromModify,
   CommutativeModify}

Matches(case, mode, source, request) ==
  /\ case.coherence_mode = mode
  /\ source \in case.sources
  /\ request \in case.requests

CasesFor(mode, source, request) ==
  {case \in CaptureCases : Matches(case, mode, source, request)}

\* The permissions the continuing context is left with.
ContinuingPermissions(case, source) ==
  IF case.needs_new_continuation_use THEN case.continuation ELSE source

=============================================================================
