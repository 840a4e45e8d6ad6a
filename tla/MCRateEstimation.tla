-------------------------- MODULE MCRateEstimation --------------------------
(***************************************************************************)
(* Seven loads of a tenant with at most two versions each.  Four of them   *)
(* can be near enough to make a rich tier, at the boundaries of its miles; *)
(* a is corrected upward, c moves to the next tier, d loses its completion *)
(* and f its rate.  e has a ledger whose sum can be negative, g is of      *)
(* other equipment.  One target is a van, one is of unknown equipment.     *)
(***************************************************************************)
EXTENDS RateEstimation

MCLoads == {"a", "b", "c", "d", "e", "f", "g"}

Fact(load, equipment, miles, distance, weight, amount) ==
  [load |-> load, completed |-> TRUE, equipment |-> equipment, miles |-> miles,
   metros |-> None, distance |-> distance, weight |-> weight, amount |-> amount]

MCVersions ==
  {Fact("a", "VAN", <<5, 5>>, 200, 2, 6),
   Fact("a", "VAN", <<5, 5>>, 200, 2, 9),
   Fact("b", "VAN", <<25, 25>>, 210, 2, 8),
   Fact("c", "VAN", <<25, 20>>, 205, 2, 4),
   Fact("c", "VAN", <<26, 20>>, 205, 1, 5),
   Fact("d", "VAN", <<2, 2>>, 200, 2, 7),
   [Fact("d", "VAN", <<2, 2>>, 200, 2, 7) EXCEPT !.completed = FALSE],
   Fact("e", "VAN", None, 230, 1, None),
   [Fact("f", "VAN", <<60, 10>>, 250, 1, 5) EXCEPT !.metros = <<"DFW", "HOUSTON">>],
   [Fact("f", "VAN", <<60, 10>>, 250, 1, None) EXCEPT !.metros = <<"DFW", "HOUSTON">>],
   Fact("g", "UNKNOWN", <<1, 1>>, None, 1, 3)}

MCRateRows ==
  {[id |-> "r1", load |-> "e", amount |-> 6],
   [id |-> "r2", load |-> "e", amount |-> 3],
   [id |-> "r3", load |-> "e", amount |-> -7]}

MCTargets ==
  {[equipment |-> e, distance |-> 200, metros |-> <<"DFW", "HOUSTON">>] :
     e \in {"VAN", "UNKNOWN"}}
=============================================================================
