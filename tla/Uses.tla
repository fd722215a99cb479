------------------------------- MODULE Uses -------------------------------
(***************************************************************************)
(* Uses and their flows: what a HandleUse carries, how registering it      *)
(* turns flow relationships into flows (abstract::backend::Runtime::       *)
(* register_use), and when a backend that honours the documented contract  *)
(* of uses lets a task run.                                                *)
(*                                                                         *)
(* A flow made on behalf of a task is named by that task and by the place  *)
(* of the use that asked for it, so that every flow of a run has one name  *)
(* whatever the order in which tasks register their uses.                  *)
(***************************************************************************)
EXTENDS CaptureSemantics, Naturals

\* Flows and anti-flows.  The flow of an insignificant relationship is a
\* null flow_t.
Flow(owner, place) == [owner |-> owner, place |-> place]
NoFlow             == Flow(<<>>, "none")

\* Where the uses of a capture put the flows they make.
CapturedPlaces ==
  [in |-> "in", out |-> "out", anti_in |-> "anti_in", anti_out |-> "anti_out"]
ContinuingPlaces ==
  [in |-> "cont_in", out |-> "cont_out",
   anti_in |-> "cont_anti_in", anti_out |-> "cont_anti_out"]

Places == {"in", "out", "anti_in", "anti_out", "cont_in", "cont_out",
           "cont_anti_in", "cont_anti_out", "none"}

\* HandleUseBase: permissions, flows, and whether data_ points to data.
MakeUse(permissions, flows, data) ==
  [scheduling |-> permissions.scheduling,
   immediate  |-> permissions.immediate,
   in |-> flows.in, out |-> flows.out,
   anti_in |-> flows.anti_in, anti_out |-> flows.anti_out,
   data |-> data]

\* A holder whose use was released, or never made.
NoUse ==
  MakeUse(Perms(None, None), UseFlows(NoFlow, NoFlow, NoFlow, NoFlow), FALSE)

PermissionsOf(use) == Perms(use.scheduling, use.immediate)

is_dependency(use)      == "read" \in use.immediate
is_anti_dependency(use) == "write" \in use.immediate

\* The use of with_different_permissions: every flow the same.
WithDifferentPermissions(use, scheduling, immediate) ==
  [use EXCEPT !.scheduling = scheduling, !.immediate = immediate]

(***************************************************************************)
(* register_use.  "known" gives the flows a relationship may refer to.     *)
(***************************************************************************)
\* The flow of one relationship: an existing one, none, or one made now.
Establish(relationship, known, made) ==
  IF relationship.description = "Same" THEN known[relationship.of]
  ELSE IF relationship.description = "Insignificant" THEN NoFlow
  ELSE made

RegisteredFlows(relationships, known, owner, places) ==
  UseFlows(
    Establish(relationships.in,       known, Flow(owner, places.in)),
    Establish(relationships.out,      known, Flow(owner, places.out)),
    Establish(relationships.anti_in,  known, Flow(owner, places.anti_in)),
    Establish(relationships.anti_out, known, Flow(owner, places.anti_out)))

\* The flows of a source use, as relationships name them.
FlowsOfSource(use) ==
  [source_in |-> use.in, source_out |-> use.out,
   source_anti_in |-> use.anti_in, source_anti_out |-> use.anti_out]

\* The flows a continuation may refer to.
FlowsOfCapture(source, captured) ==
  [source_in |-> source.in, source_out |-> source.out,
   source_anti_in |-> source.anti_in, source_anti_out |-> source.anti_out,
   captured_in |-> captured.in, captured_out |-> captured.out,
   captured_anti_in |-> captured.anti_in,
   captured_anti_out |-> captured.anti_out]

\* The (anti-)flows a use forwards when it is registered.
ForwardedFlows(relationships, known) ==
  {known[relationship.of] :
     relationship \in {r \in {relationships.in, relationships.anti_in} :
                         r.description = "Forwarding"}}

(***************************************************************************)
(* The backend.  Flows made equivalent by aliases are represented by one   *)
(* of them.                                                                *)
(***************************************************************************)
Representative(alias, flow) ==
  IF flow \in DOMAIN alias THEN alias[flow] ELSE flow

\* From now on "flow" stands for whatever "actual" stands for.
EstablishAlias(alias, flow, actual) ==
  LET from == Representative(alias, flow)
      to   == Representative(alias, actual)
  IN  IF NoFlow \in {flow, actual} \/ from = to
      THEN alias
      ELSE [f \in DOMAIN alias \cup {from} |->
              IF Representative(alias, f) = from THEN to ELSE alias[f]]

\* release_use of a use that establishes an alias: its out flow is only
\* another name of its in flow, and whoever waits for the readers its
\* anti-in flow stands for waits for those of its anti-out flow.
ReleaseAlias(alias, use) ==
  EstablishAlias(EstablishAlias(alias, use.out, use.in), use.anti_in, use.anti_out)

Equivalent(alias, f, g) == Representative(alias, f) = Representative(alias, g)

\* A flow is available once no live use is still to produce it.
Available(alias, live, flow) ==
  \A use \in live : ~Equivalent(alias, use.out, flow)

(***************************************************************************)
(* When the anti-dependencies of a use that writes are cleared.  A backend *)
(* can go by the input flows, as flow.h describes: every other use of the  *)
(* same input was released.  Or it can go by the anti-flows: every use     *)
(* counted in the anti-in flow was released; a use with no anti-in flow    *)
(* has no anti-dependencies.                                               *)
(***************************************************************************)
BackendKinds == {"flows", "anti_flows"}

InputUnused(alias, others, use) ==
  \A other \in others : ~Equivalent(alias, other.in, use.in)

AntiFlowCleared(alias, others, use) ==
  \/ use.anti_in = NoFlow
  \/ \A other \in others : ~Equivalent(alias, other.anti_out, use.anti_in)

\* The preconditions of a use are satisfied.  A use is not in its own way.
Satisfied(kind, alias, others, use) ==
  /\ is_dependency(use) => Available(alias, others, use.in)
  /\ is_anti_dependency(use) =>
       IF kind = "flows" THEN InputUnused(alias, others, use)
                         ELSE AntiFlowCleared(alias, others, use)

=============================================================================
