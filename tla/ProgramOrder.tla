---------------------------- MODULE ProgramOrder ----------------------------
(***************************************************************************)
(* What the front end promises of one variable: accesses that conflict     *)
(* happen in the order of the sequential program.  The body of a task      *)
(* stands, in that order, where the task was created, so an access is      *)
(* placed by the operations that lead to it: <<2, 1>> is the first         *)
(* operation of the task that the second operation of the top level        *)
(* creates.                                                                *)
(***************************************************************************)
EXTENDS Naturals, Sequences

CONSTANT Positions  \* the places of the program, as sequences of numbers

VARIABLE accesses   \* the accesses that have happened

Rights == {"read", "write"}

Accesses == [at : Positions, rights : (SUBSET Rights) \ {{}}]

\* p comes before q.  Neither extends the other when both are accesses.
Before(p, q) ==
  \E i \in DOMAIN p \cap DOMAIN q :
    /\ p[i] < q[i]
    /\ \A j \in 1..(i - 1) : p[j] = q[j]

Conflict(a, b) == "write" \in a.rights \cup b.rights

Init == accesses = {}

\* An access may happen if it overtakes no later access it conflicts with.
Access(a) ==
  /\ \A b \in accesses : Conflict(a, b) => Before(b.at, a.at)
  /\ accesses' = accesses \cup {a}

Next == \E a \in Accesses : Access(a)

Spec == Init /\ [][Next]_accesses

=============================================================================
