----------------------------- MODULE Precedence -----------------------------
(***************************************************************************)
(* ingestion/precedence.py: which of two immutable versions of one load    *)
(* the mutable projection shows.  A version is ranked by the triple        *)
(* (source sync, source modification, observation); its lifecycle status   *)
(* never takes part in the ranking, only in the anomaly that is recorded.  *)
(***************************************************************************)
EXTENDS Integers

CONSTANT None   \* "no version", "no row", "no anomaly"

\* The six lifecycle statuses and their order, _STATUS_ORDER.
StatusOrder == [PLANNED |-> 0, ACTIVE |-> 1, COVERED |-> 2,
                IN_TRANSIT |-> 3, DELIVERED |-> 4, COMPLETED |-> 5]

Statuses == DOMAIN StatusOrder

\* Timestamps are natural numbers: only their order matters.
VersionTiming ==
  [source_sync_at: Nat, source_modified_at: Nat, observed_at: Nat,
   status: Statuses]

Anomalies == {"OUT_OF_ORDER_SNAPSHOT", "STATUS_REGRESSION_CORRECTION"}

PrecedenceDecision ==
  [becomes_current: BOOLEAN, anomaly_code: Anomalies \cup {None}]

\* Python compares the two key tuples lexicographically.
KeyLess(a, b) ==
  \/ a.source_sync_at < b.source_sync_at
  \/ /\ a.source_sync_at = b.source_sync_at
     /\ \/ a.source_modified_at < b.source_modified_at
        \/ /\ a.source_modified_at = b.source_modified_at
           /\ a.observed_at < b.observed_at

\* Faulty variant of Regresses: the comparison is the wrong way round.
AdvancesInstead(current, candidate) ==
  StatusOrder[candidate.status] > StatusOrder[current.status]

Regresses(current, candidate) ==
  StatusOrder[candidate.status] < StatusOrder[current.status]

\* Faulty variant of ChooseCurrentVersion: the last arrival wins.
LastArrivalWins(current, candidate) ==
  [becomes_current |-> TRUE,
   anomaly_code |-> IF current # None /\ Regresses(current, candidate)
                    THEN "STATUS_REGRESSION_CORRECTION" ELSE None]

\* choose_current_version: a candidate must be strictly later than the
\* current version; a tie keeps the version that was there first.
ChooseCurrentVersion(current, candidate) ==
  IF current = None
  THEN [becomes_current |-> TRUE, anomaly_code |-> None]
  ELSE [becomes_current |-> KeyLess(current, candidate),
        anomaly_code |->
          IF ~KeyLess(current, candidate) THEN "OUT_OF_ORDER_SNAPSHOT"
          ELSE IF Regresses(current, candidate)
               THEN "STATUS_REGRESSION_CORRECTION"
               ELSE None]
=============================================================================
