--------------------------- MODULE MCControlFlow ---------------------------
(***************************************************************************)
(* Instances of ControlFlow for TLC.                                       *)
(***************************************************************************)
EXTENDS ControlFlow

CONSTANTS x, y

TwoVariables == {x, y}

\* What tasks that write or read have, and the top level.
SchedulableUses ==
  {Perms(Modify, None), Perms(Modify, Modify), Perms(Read, Read)}

Mentioning(bx, by) ==
  [b \in Blocks |-> (IF b \in bx THEN {x} ELSE {}) \cup (IF b \in by THEN {y} ELSE {})]

\* Any blocks mention x and ask for any flags but Leaf.
OneVariablePrograms ==
  {p \in [construct : Constructs, mentions : {Mentioning(bx, {}) : bx \in SUBSET Blocks},
          flags : {[b \in Blocks |-> [v \in TwoVariables |-> IF v = x THEN fs[b] ELSE {}]] :
                     fs \in [Blocks -> SUBSET {"ReadOnly", "ScheduleOnly"}]}] :
     /\ \A b \in Blocks : x \notin p.mentions[b] => p.flags[b][x] = {}
     /\ p.construct = "while" => p.mentions["otherwise"] = {}}

\* The body, and not the condition, mentions y; x is anywhere.
TwoVariablePrograms ==
  {p \in [construct : Constructs,
          mentions : {Mentioning(bx, {"body"}) : bx \in {{"body"}, {"condition"},
                                                       {"condition", "body"}}},
          flags : {[b \in Blocks |-> [v \in TwoVariables |-> {}]]}] : TRUE}

MixedPrograms == OneVariablePrograms \cup TwoVariablePrograms
=============================================================================
