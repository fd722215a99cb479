---------------------------- MODULE MCMigration ----------------------------
(***************************************************************************)
(* Instances of Migration for TLC.                                         *)
(***************************************************************************)
EXTENDS MCDarmaTasks, Migration

\* Tasks that touch the data themselves, or read on behalf of others: what
\* can be moved without loss.
TouchingUses == {MM, NM, RR, Perms(None, Read), Perms(Read, None)}

\* A task of any kind with children that read and write, then a task of
\* either kind.
MovingProgram ==
  Asks(<<1>>, {MM, RR, MN, MR, NM}) \cup Asks(<<1, 1>>, {MM, RR})
    \cup Asks(<<1, 2>>, {MM, RR}) \cup Asks(<<2>>, {MM, RR})

\* All tasks move.
AnyUses == PermissionPairs
=============================================================================
