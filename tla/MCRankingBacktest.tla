-------------------------- MODULE MCRankingBacktest --------------------------
(***************************************************************************)
(* Three carriers, four loads, up to seven syncs in every order.  A tick   *)
(* is fifteen days: the tables hold exp(-15 n / 14), exp(-15 n / 30) and   *)
(* exp(-15 n / 45) in percent.  "x" and "y" are close, "z" is far and      *)
(* "w" has a ZIP code nobody knows.                                        *)
(***************************************************************************)
EXTENDS RankingBacktest

MCLanes == {"x", "y", "z", "w"}

Pair(a, b, same, near, far, unknown) ==
  IF "w" \in {a, b} THEN unknown
  ELSE IF a = b THEN same ELSE IF "z" \in {a, b} THEN far ELSE near

MCCloseness == [p \in MCLanes \X MCLanes |-> Pair(p[1], p[2], 1, 2, 4, 5)]

MCNearness == [p \in MCLanes \X MCLanes |-> Pair(p[1], p[2], 100, 30, 2, 100)]

MCProximity == [p \in MCLanes \X MCLanes |-> Pair(p[1], p[2], 4, 10, 80, None)]

MCDecay ==
  14 :> (0 :> 100 @@ 1 :> 34 @@ 2 :> 12 @@ 3 :> 4 @@ 4 :> 1 @@ 5 :> 1 @@ 6 :> 1 @@ 7 :> 1
         @@ 8 :> 1)
  @@ 30 :> (0 :> 100 @@ 1 :> 61 @@ 2 :> 37 @@ 3 :> 22 @@ 4 :> 14 @@ 5 :> 8 @@ 6 :> 5 @@ 7 :> 3
            @@ 8 :> 2)
  @@ 45 :> (0 :> 100 @@ 1 :> 72 @@ 2 :> 51 @@ 3 :> 37 @@ 4 :> 26 @@ 5 :> 19 @@ 6 :> 14 @@ 7 :> 10
            @@ 8 :> 7)

Is(status, carrier, equipment, lane) ==
  [status |-> status, carrier |-> carrier, equipment |-> equipment, lane |-> lane]

\* One target; a load corrected from one equipment to another; a load that is
\* a case of its own; a carrier with one load.
Corrected ==
  "t" :> <<Is("ACTIVE", None, "van", "x"), Is("COVERED", 2, "van", "x")>>
  @@ "a" :> <<Is("COMPLETED", 1, "van", "x"), Is("COMPLETED", 1, "reefer", "x")>>
  @@ "b" :> <<Is("ACTIVE", None, "reefer", "y"), Is("COMPLETED", 2, "reefer", "y")>>
  @@ "c" :> <<Is("COMPLETED", 3, "van", "z")>>

\* A target of unknown equipment, and three carriers that are close.
Unknown ==
  "t" :> <<Is("ACTIVE", None, "UNKNOWN", "x"), Is("COMPLETED", 3, "van", "x")>>
  @@ "a" :> <<Is("COMPLETED", 1, "van", "x")>>
  @@ "b" :> <<Is("ACTIVE", None, "van", "y"), Is("COMPLETED", 2, "van", "y")>>
  @@ "c" :> <<Is("COMPLETED", 3, "van", "w")>>

MCStories == {Corrected, Unknown}
=============================================================================
