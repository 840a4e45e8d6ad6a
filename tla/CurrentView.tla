---------------------------- MODULE CurrentView ----------------------------
(***************************************************************************)
(* What ingestion promises the readers of a tenant's projections, with no  *)
(* transactions, failures or row layouts: facts become visible one whole   *)
(* batch at a time, a batch at most once, nothing visible is withdrawn,    *)
(* and every load shows a fact that no visible fact about it outranks.     *)
(*                                                                         *)
(* docs/architecture/database.md states these rules for load_versions and  *)
(* loads; the coordinators and the rebuild are shown to implement them.    *)
(***************************************************************************)
CONSTANTS
  Loads, Batches, None,
  Facts,            \* everything a source may ever state
  Subject(_),       \* the load a fact is about
  Origin(_),        \* the batch that carries it
  Outranks(_, _)    \* the strict precedence order between facts

VARIABLES
  published,        \* the facts readers can see
  current           \* the fact each load shows, or None

vars == <<published, current>>

\* A choice of current facts that is right for a set P of visible facts.
Selects(choice, P) ==
  \A l \in Loads :
    LET about == {x \in P : Subject(x) = l}
    IN  IF about = {} THEN choice[l] = None
        ELSE choice[l] \in about /\ \A x \in about : ~Outranks(x, choice[l])

Init ==
  /\ published = {}
  /\ current = [l \in Loads |-> None]

\* All new facts of one batch appear together, and a load moves only to a
\* fact that outranks the one it showed.
Publish(b) ==
  /\ \A x \in published : Origin(x) # b
  /\ published \subseteq published'
  /\ published' \ published \subseteq {x \in Facts : Origin(x) = b}
  /\ Selects(current', published')
  /\ \A l \in Loads :
       \/ current'[l] = current[l]
       \/ current[l] = None
       \/ Outranks(current'[l], current[l])

\* A rebuild may choose again among facts that tie.
Reselect ==
  /\ published' = published
  /\ Selects(current', published)

Next == Reselect \/ \E b \in Batches : Publish(b)

Spec == Init /\ [][Next]_vars
=============================================================================
