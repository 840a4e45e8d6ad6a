---------------------------- MODULE MCDecisions ----------------------------
(***************************************************************************)
(* Two tenants.  t1 has a load a, which is active, then corrected, then    *)
(* covered, and a load b, which is completed and corrected once.  t2 has a *)
(* load x with two files of one sync time: x2, the older modification, is  *)
(* covered and has the greater random id.  A run may leave versions out.   *)
(***************************************************************************)
EXTENDS Decisions

CONSTANTS t1, t2

MCTenants == <<t1, t2>>

MCLoads == {"a", "b", "x"}

MCTenantOf == [l \in MCLoads |-> IF l = "x" THEN t2 ELSE t1]

Row(l, sync, modified, status, id) ==
  [load |-> l, sync |-> sync, modified |-> modified, status |-> status, id |-> id]

Rows ==
  [a1 |-> Row("a", 2, 2, "ACTIVE", 6),    b1 |-> Row("b", 1, 1, "COMPLETED", 5),
   a2 |-> Row("a", 4, 4, "ACTIVE", 1),    b2 |-> Row("b", 3, 3, "COMPLETED", 2),
   a3 |-> Row("a", 6, 6, "COVERED", 3),   x1 |-> Row("x", 2, 2, "ACTIVE", 4),
   x2 |-> Row("x", 2, 1, "COVERED", 7)]

MCLoadOf     == [v \in Versions |-> Rows[v].load]
MCSyncAt     == [v \in Versions |-> Rows[v].sync]
MCModifiedAt == [v \in Versions |-> Rows[v].modified]
MCStatusOf   == [v \in Versions |-> Rows[v].status]
MCIdOf       == [v \in Versions |-> Rows[v].id]
=============================================================================
