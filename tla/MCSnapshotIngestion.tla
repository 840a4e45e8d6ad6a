------------------------ MODULE MCSnapshotIngestion ------------------------
(***************************************************************************)
(* A small instance of SnapshotIngestion.                                  *)
(*                                                                         *)
(* Two loads and five files.  f1 and f3 both send load l1 at sync 2 with   *)
(* the same modification time (a corrected re-delivery, so the two         *)
(* versions tie); f4 is the newest file, moves l1 back to ACTIVE and       *)
(* re-sends b1 unchanged; bad cannot be parsed.  One customer is shared by *)
(* the loads and is renamed; a carrier changes its contact.                *)
(*                                                                         *)
(* So l1 has ties but no snapshot that is sent twice, and l2 the opposite. *)
(***************************************************************************)
EXTENDS SnapshotIngestion, TLC

CONSTANTS l1, l2, cust, carr

MCFiles == {"f1", "f2", "f3", "f4", "bad"}

MCSyncAt == [f1 |-> 1, f2 |-> 2, f3 |-> 2, f4 |-> 3, bad |-> 2]

MCLines == [f1 |-> <<"a1">>, f2 |-> <<"a2", "b1">>, f3 |-> <<"a3", "b2">>,
             f4 |-> <<"b1", "a4">>, bad |-> <<>>]

MCSnapshots == {"a1", "a2", "a3", "a4", "b1", "b2"}

MCLoadOf == [s \in MCSnapshots |-> IF s \in {"b1", "b2"} THEN l2 ELSE l1]

MCModifiedAt == [a1 |-> 1, a2 |-> 2, a3 |-> 2, a4 |-> 3, b1 |-> 2,
                 b2 |-> 3]

MCStatusOf == [a1 |-> "ACTIVE", a2 |-> "COVERED", a3 |-> "COVERED",
               a4 |-> "ACTIVE", b1 |-> "PLANNED",
               b2 |-> "ACTIVE"]

Says(name, contact) == [name |-> name, contact |-> contact]

MCPartyFacts ==
  [a1 |-> cust :> Says("n1", "c1") @@ carr :> None,
   a2 |-> cust :> Says("n2", "c1") @@ carr :> Says("n1", "c1"),
   a3 |-> cust :> Says("n2", "c1") @@ carr :> Says("n1", "c2"),
   a4 |-> cust :> Says("n2", "c1") @@ carr :> None,
   b1 |-> cust :> Says("n1", "c1") @@ carr :> Says("n1", "c2"),
   b2 |-> cust :> Says("n1", "c1") @@ carr :> None]
=============================================================================
