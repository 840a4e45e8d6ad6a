----------------------- MODULE MCConcurrentIngestion -----------------------
(***************************************************************************)
(* Two sessions and four files.  f1 and f2 carry versions of loads l1 and  *)
(* l2 in opposite order, f3 the newest version of l1, f4 that of l2 after  *)
(* one that f1 sent already.                                               *)
(*                                                                         *)
(* "mixed": every version of l1 names one customer; the versions of l2     *)
(*          name different ones, so f4 can overtake f2.                    *)
(* "moved": one snapshot per file, all of l1, and the newest version names *)
(*          another customer.                                              *)
(***************************************************************************)
EXTENDS ConcurrentIngestion

CONSTANTS l1, l2, c1, c2

MCSyncAt == [f1 |-> 1, f2 |-> 2, f3 |-> 3, f4 |-> 4]

MovedSyncAt == [f1 |-> 1, f2 |-> 2, f3 |-> 3]

MCLines ==
  [f1 |-> <<"b1", "a1">>, f2 |-> <<"a2", "b2">>, f3 |-> <<"a3">>, f4 |-> <<"b1", "b3">>]

MovedLines == [f1 |-> <<"a1">>, f2 |-> <<"a2">>, f3 |-> <<"a3">>]

MCSnapshots == {"a1", "a2", "a3", "b1", "b2", "b3"}

MCLoadOf == [s \in MCSnapshots |-> IF s \in {"b1", "b2", "b3"} THEN l2 ELSE l1]

MCModifiedAt == [a1 |-> 1, a2 |-> 2, a3 |-> 3, b1 |-> 1, b2 |-> 2, b3 |-> 3]

MCStatusOf == [a1 |-> "ACTIVE", a2 |-> "ACTIVE", a3 |-> "COVERED",
               b1 |-> "ACTIVE", b2 |-> "ACTIVE", b3 |-> "COVERED"]

MixedParties == [s \in MCSnapshots |-> IF s \in {"b1", "b3"} THEN <<c2>> ELSE <<c1>>]

MovedParties == [s \in MCSnapshots |-> IF s = "a3" THEN <<c2>> ELSE <<c1>>]
=============================================================================
