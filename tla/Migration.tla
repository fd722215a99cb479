----------------------------- MODULE Migration -----------------------------
(***************************************************************************)
(* Tasks of DarmaTasks that the backend moves before it runs them: it      *)
(* packs a pending task, unpacks a copy of it elsewhere, and drops the     *)
(* original, before or after.  The use of the task's handle is serialised  *)
(* with it, and a new holder is made for it; the original's holder         *)
(* releases its use like any other.                                        *)
(*                                                                         *)
(* The specification in the introduction of the documentation allows no    *)
(* migration once a task has begun.  Of the backend it is assumed that a   *)
(* packed use counts as live, that its flows keep their identity, and that *)
(* a use and the one it was packed from are not in one another's way.      *)
(***************************************************************************)
EXTENDS DarmaTasks

CONSTANTS
  Migratable, \* what permissions the uses of tasks that move may have
  MaxMoves    \* how many tasks are moved

ASSUME MigratableAssumption == Migratable \subseteq PermissionPairs /\ MaxMoves \in Nat

VARIABLES
  transit, \* a task is at "home", "packed" or "moved"
  origin   \* the holder in the original of a task that was packed

migrationVars == <<transit, origin>>
allVars       == <<vars, migrationVars>>

Holder(held, alias_possible) == [use |-> held, could_be_alias |-> alias_possible]
NoHolder == Holder(NoUse, FALSE)

MigrationInit ==
  /\ Init
  /\ transit = [t \in Tasks |-> "home"]
  /\ origin = [t \in Tasks |-> NoHolder]

(***************************************************************************)
(* Packing and unpacking                                                   *)
(***************************************************************************)
\* A task is packed that has not been registered yet, or runs already.
PacksAnyTaskSlip(t) ==
  /\ status[t] \in {"captured", "pending", "running"}
  /\ transit[t] = "home"
  /\ PermissionsOf(use[t]) \in Migratable
  /\ Cardinality({s \in Tasks : transit[s] # "home"}) < MaxMoves
  /\ transit' = [transit EXCEPT ![t] = "packed"]
  /\ origin' = [origin EXCEPT ![t] = Holder(use[t], could_be_alias[t])]
  /\ UNCHANGED vars

\* Task::pack.  From now on the use in the buffer is the task's; the handle
\* of the original keeps its holder.
PackTask(t) ==
  /\ status[t] = "pending"
  /\ transit[t] = "home"
  /\ PermissionsOf(use[t]) \in Migratable
  /\ Cardinality({s \in Tasks : transit[s] # "home"}) < MaxMoves
  /\ transit' = [transit EXCEPT ![t] = "packed"]
  /\ origin' = [origin EXCEPT ![t] = Holder(use[t], could_be_alias[t])]
  /\ UNCHANGED vars

\* The anti-out flow is not serialised.
UncountedMigrantSlip(packed) ==
  MakeUse(PermissionsOf(packed),
          UseFlows(packed.in, packed.out, packed.anti_in, NoFlow), FALSE)

\* The in flow and the out flow are unpacked in the other order.
SwappedFlowsSlip(packed) ==
  MakeUse(PermissionsOf(packed),
          UseFlows(packed.out, packed.in, packed.anti_in, packed.anti_out), FALSE)

\* do_serialize and the unpacking constructor: permissions and flows.
MigratedUse(packed) ==
  MakeUse(PermissionsOf(packed),
          UseFlows(packed.in, packed.out, packed.anti_in, packed.anti_out), FALSE)

\* unpack_from_archive, recreate_migrated: a holder that is as a new holder
\* is, in particular no alias.
UnpackTask(t) ==
  /\ transit[t] = "packed"
  /\ transit' = [transit EXCEPT ![t] = "moved"]
  /\ use' = [use EXCEPT ![t] = MigratedUse(use[t])]
  /\ could_be_alias' = [could_be_alias EXCEPT ![t] = FALSE]
  /\ UNCHANGED <<status, step, ops, replaced, alias, forwardings, granted, accesses, origin>>

\* The original is dropped.
ReleaseOriginal(t) ==
  /\ origin[t] # NoHolder
  /\ origin' = [origin EXCEPT ![t] = NoHolder]
  /\ alias' = IF origin[t].could_be_alias
              THEN ReleaseAlias(alias, origin[t].use)
              ELSE alias
  /\ UNCHANGED <<status, step, ops, use, replaced, could_be_alias, forwardings,
                 granted, accesses, transit>>

\* The backend runs a task where it is, if it is anywhere.  The uses that
\* originals have left count as well.
Left(t) == {origin[s].use : s \in {s \in Tasks \ {t} : origin[s] # NoHolder}}

RunTaskInPlace(t) ==
  /\ transit[t] # "packed"
  /\ Satisfied(Backend, alias, LiveUsesBut(t) \cup Left(t), use[t])
  /\ RunTask(t)
  /\ UNCHANGED migrationVars

TaskStepInPlace(t) == TaskStep(t) /\ UNCHANGED migrationVars

(***************************************************************************)
(* The specification                                                       *)
(***************************************************************************)
Migrate(t) == PackTask(t) \/ UnpackTask(t) \/ ReleaseOriginal(t)

MigrationTerminated ==
  /\ \A t \in Born : status[t] = "done"
  /\ \A t \in Tasks : origin[t] = NoHolder
  /\ UNCHANGED allVars

MigrationNext ==
  \/ \E t \in Tasks : TaskStepInPlace(t) \/ RunTaskInPlace(t) \/ Migrate(t)
  \/ MigrationTerminated

MigrationSpec == MigrationInit /\ [][MigrationNext]_allVars

-----------------------------------------------------------------------------
\* Every variable has its type, and only a pending task is on its way.
MigrationTypeOK ==
  /\ TypeOK
  /\ transit \in [Tasks -> {"home", "packed", "moved"}]
  /\ origin \in [Tasks -> [use : UseRecords, could_be_alias : BOOLEAN]]
  /\ \A t \in Tasks : transit[t] = "packed" => status[t] = "pending"

\* A program whose tasks are moved does nothing that it could not do with
\* every task where it was made: packing, unpacking and the releases of the
\* originals, in whatever order, change neither the uses nor the aliases.
MovesUnnoticed == Spec

\* The tasks that move have no use that could be an alias: one that may
\* schedule writers without writing.
NothingLost ==
  \A permissions \in Migratable :
    ~("write" \in permissions.scheduling /\ "write" \notin permissions.immediate)

=============================================================================
