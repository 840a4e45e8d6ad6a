------------------------ MODULE MCHaulDeskIngestion ------------------------
(***************************************************************************)
(* Small instance of HaulDeskIngestion.  s1 delivers load h1 with its line *)
(* haul; s2 and s3 are rate-only syncs, a surcharge and an adjustment that *)
(* takes it back; s4 delivers a later body of h1 and sends the surcharge   *)
(* again with another amount; s5 delivers load h2 with one PAY row and one *)
(* BILL row for h1, so that it needs h1.                                   *)
(***************************************************************************)
EXTENDS HaulDeskIngestion

CONSTANTS h1, h2

MCFiles == {"s1", "s2", "s3", "s4", "s5"}

MCSyncAt == [s1 |-> 1, s2 |-> 2, s3 |-> 3, s4 |-> 4, s5 |-> 5]

MCBodiesIn == [s1 |-> {"A"}, s2 |-> {}, s3 |-> {}, s4 |-> {"B"}, s5 |-> {"C"}]

RateRow(id, load, side, amount) ==
  [id |-> id, load |-> load, side |-> side, amount |-> amount]

MCRatesIn ==
  [s1 |-> {RateRow(1, h1, "PAY", 9)},
   s2 |-> {RateRow(2, h1, "PAY", 2)},
   s3 |-> {RateRow(3, h1, "PAY", -2)},
   s4 |-> {RateRow(2, h1, "PAY", 9)},
   s5 |-> {RateRow(4, h2, "PAY", 9), RateRow(5, h1, "BILL", 2)}]

MCAmounts == {9, 2, -2}

MCLoadOf == [A |-> h1, B |-> h1, C |-> h2]

MCModifiedAt == [A |-> 1, B |-> 4, C |-> 5]

MCStatusOf == [A |-> "ACTIVE", B |-> "COVERED", C |-> "ACTIVE"]
=============================================================================
