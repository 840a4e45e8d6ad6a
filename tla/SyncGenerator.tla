---------------------------- MODULE SyncGenerator ----------------------------
(***************************************************************************)
(* generator/scheduler.py: what happens to which load in which sync file.  *)
(*                                                                         *)
(* A file is <<tick, source>>.  Ticks 0..39 are the historical slots, four *)
(* a day for ten days; tick 40 is the sync of day 11.  Times are hours     *)
(* since the first of July, in UTC.                                        *)
(***************************************************************************)
EXTENDS ScenarioCatalog, Precedence

SlotHours == 6
DAY11 == 40
Ticks == 0..DAY11

Files == Ticks \X Sources

SyncAt(tick) == IF tick = DAY11 THEN 246 ELSE SlotHours * tick

\* SourceSystem sorts by its name.
SourceRank == [BROKEROS |-> 1, FREIGHTFLOW |-> 2, HAULDESK |-> 3]

\* The order of build_schedule, in which the files are written.
Before(f, g) ==
  \/ SyncAt(f[1]) < SyncAt(g[1])
  \/ f[1] = g[1] /\ SourceRank[f[2]] < SourceRank[g[2]]

\* Faulty variant of First: all files of a source before those of the next.
FirstOfSource(files) ==
  CHOOSE f \in files : \A g \in files :
    \/ SourceRank[f[2]] < SourceRank[g[2]]
    \/ f[2] = g[2] /\ f[1] <= g[1]

First(files) == CHOOSE f \in files : \A g \in files \ {f} : Before(f, g)

-----------------------------------------------------------------------------
(* Authored outcomes. *)

\* _RATE_OUTCOMES: the carrier pay booked and the pay finally settled.
RateOutcomes ==
  [FREIGHTFLOW |->
     {<<901, 1190, 1190>>, <<902, 1215, 1215>>, <<903, 1205, 1205>>,
      <<904, 1220, 1220>>, <<905, 1200, 1200>>, <<906, 1215, 1215>>,
      <<907, 1195, 1195>>, <<908, 1230, 1230>>, <<909, 1210, 1210>>,
      <<990, 1185, 1185>>, <<1001, 1180, 1180>>, <<1101, 1210, 1265>>,
      <<1201, 1235, 1210>>, <<1301, 1660, 1695>>, <<1401, 1120, 1175>>,
      <<1402, 1160, 1160>>, <<1501, 1240, 1260>>, <<1502, 1185, 1165>>,
      <<1503, 1740, 1810>>},
   HAULDESK |->
     {<<1901, 1260, 1260>>, <<1902, 1285, 1285>>, <<1903, 1270, 1270>>,
      <<1904, 1240, 1240>>, <<1905, 1225, 1225>>, <<1906, 1535, 1535>>,
      <<1907, 1490, 1490>>, <<1908, 1570, 1570>>, <<1909, 1210, 1210>>,
      <<1910, 1230, 1230>>, <<2001, 1280, 1280>>, <<2002, 1190, 1225>>,
      <<2003, 1250, 1250>>, <<2004, 1480, 1540>>, <<2005, 1600, 1575>>,
      <<2101, 1150, 1150>>, <<2201, 1305, 1335>>, <<2202, 1180, 1180>>,
      <<2203, 1540, 1500>>},
   BROKEROS |->
     {<<2901, 1540, 1540>>, <<2902, 1560, 1560>>, <<2903, 1555, 1555>>,
      <<2904, 1515, 1515>>, <<2905, 1580, 1580>>, <<2906, 1545, 1545>>,
      <<2907, 1280, 1280>>, <<2908, 1530, 1530>>, <<2909, 1265, 1265>>,
      <<2910, 1310, 1310>>, <<3001, 1550, 1550>>, <<3002, 1490, 1520>>,
      <<3003, 1630, 1660>>, <<3004, 1880, 1935>>, <<3005, 1260, 1240>>,
      <<3101, 1510, 1510>>, <<3201, 1575, 1610>>, <<3202, 1535, 1505>>,
      <<3203, 1300, 1340>>}]

RateOutcome(l) ==
  LET row == CHOOSE r \in RateOutcomes[l[1]] : r[1] = l[2]
  IN  [booking |-> row[2], final |-> row[3]]

AnchorCarriers ==
  [FREIGHTFLOW |->
     {<<901, 201>>, <<902, 201>>, <<903, 201>>, <<904, 201>>, <<905, 201>>,
      <<906, 201>>, <<907, 202>>, <<908, 204>>, <<909, 205>>, <<990, 201>>},
   HAULDESK |->
     {<<1901, 401>>, <<1902, 401>>, <<1903, 401>>, <<1904, 404>>, <<1905, 405>>,
      <<1906, 405>>, <<1907, 402>>, <<1908, 402>>, <<1909, 408>>, <<1910, 408>>},
   BROKEROS |->
     {<<2901, 601>>, <<2902, 601>>, <<2903, 601>>, <<2904, 602>>, <<2905, 603>>,
      <<2906, 605>>, <<2907, 602>>, <<2908, 606>>, <<2909, 606>>, <<2910, 607>>}]

\* _holdout_carrier: anchors have an authored carrier, all other loads the
\* label of their holdout.
BookedCarrier(l) ==
  (CHOOSE r \in AnchorCarriers[l[1]] \cup RankingHoldouts[l[1]] : r[1] = l[2])[2]

-----------------------------------------------------------------------------
(* The schedule. *)

Stages ==
  <<"PLANNED", "ACTIVE", "COVERED", "IN_TRANSIT", "DELIVERED", "COMPLETED">>

\* Evaluation probes skip two stages to end inside the last day.
ProbeStages == <<"PLANNED", "ACTIVE", "COVERED", "COMPLETED">>

Margin == 280    \* the customer pays the carrier's rate and this

\* Only HaulDesk keeps a ledger: the booked amount as LINEHAUL when the load is
\* covered and, if the final pay differs, the difference as ADJUSTMENT.
FinancialEntry(l, status) ==
  LET rate == RateOutcome(l)
  IN  IF l[1] # "HAULDESK" THEN None
      ELSE IF status = "COVERED" THEN [code |-> "LINEHAUL", amount |-> rate.booking]
      ELSE IF status = "COMPLETED" /\ rate.final # rate.booking
      THEN [code |-> "ADJUSTMENT", amount |-> rate.final - rate.booking]
      ELSE None

\* The lifecycle event of a load that reaches a status, with the ledger entry
\* scheduled beside it.  A field that is None is left as it is.
EventOf(l, status, booked, quoted) ==
  LET pay == IF status = "COMPLETED" THEN RateOutcome(l).final
             ELSE RateOutcome(l).booking
  IN  [load          |-> l,
       status        |-> status,
       carrier       |-> IF booked THEN BookedCarrier(l) ELSE None,
       customer_rate |-> IF quoted THEN pay + Margin ELSE None,
       carrier_rate  |-> IF booked THEN pay ELSE None,
       entry         |-> FinancialEntry(l, status)]

\* _historical_sync: the stage of a load, counted from 0.
HistoricalEvent(l, stage) ==
  EventOf(l, Stages[stage + 1], stage >= 2, stage >= 1)

\* _anchor_batches, with indexes from 0 as in the code: three anchors at the
\* start, then two in each window of six slots.
AnchorBatches(anchors) ==
  {[start |-> 0, members |-> {anchors[i].load : i \in 1..3}]} \cup
  {[start   |-> 6 * ((index - 1) \div 2),
    members |-> {anchors[i].load :
                   i \in {index + 1, index + 2} \cap DOMAIN anchors}] :
     index \in {i \in 3..(Len(anchors) - 1) : i % 2 = 1}}

AnchorEvents(source, slot) ==
  UNION {{HistoricalEvent(l, slot - batch.start) : l \in batch.members} :
    batch \in {batch \in AnchorBatches(Anchors[source]) :
                 batch.start <= slot /\ slot < batch.start + Len(Stages)}}

\* _ordinary_event_indexes: one ordinary load at a time after the first anchors;
\* the last two share a window.
OrdinaryEventIndexes(slot) ==
  IF 6 <= slot /\ slot < 30 THEN {slot - 6}
  ELSE IF 30 <= slot /\ slot < 36 THEN {24 + slot - 30, 30 + slot - 30}
  ELSE {}

\* _ORDINARY_LIFECYCLE_ORDER for FreightFlow: Heritage's load first, Metro's
\* last.  The other sources go by the load's id.
OrdinaryOrder ==
  [FREIGHTFLOW |-> <<1402, 1001, 1101, 1301, 1201, 1401>>,
   HAULDESK    |-> <<2001, 2002, 2003, 2004, 2005, 2101>>,
   BROKEROS    |-> <<3001, 3002, 3003, 3004, 3005, 3101>>]

\* _historical_event with _scheduled_historical_load: a block of six stages
\* for each load.
OrdinaryEvents(source, slot) ==
  {HistoricalEvent(<<source, OrdinaryOrder[source][index \div 6 + 1]>>, index % 6) :
     index \in OrdinaryEventIndexes(slot)}

\* _holdout_probe_sync: the three probes of a source fill its last four slots.
ProbeEvents(source, stage) ==
  {EventOf(Probes[source][i].load, ProbeStages[stage + 1], stage >= 2, stage >= 2) :
     i \in DOMAIN Probes[source]}

\* On day 11 each target becomes active, and nothing more is known of it.
TargetEvent(source) ==
  [load |-> Targets[source].load, status |-> "ACTIVE", carrier |-> None,
   customer_rate |-> None, carrier_rate |-> None, entry |-> None]

\* build_schedule: the events of a file.
EventsOf(f) ==
  LET tick == f[1]  source == f[2]
  IN  IF tick = DAY11 THEN {TargetEvent(source)}
      ELSE IF tick >= 36 THEN ProbeEvents(source, tick - 36)
      ELSE AnchorEvents(source, tick) \cup OrdinaryEvents(source, tick)

\* The whole schedule, an event with the file it is in.
Schedule == UNION {{[file |-> f, event |-> e] : e \in EventsOf(f)} : f \in Files}

\* _manifest_scenario: the files that show a scenario, those of its loads or,
\* if it has none, those of its carriers' tenants.
ScenarioFiles(scenario) ==
  {h.file : h \in {h \in Schedule :
                     \/ h.event.load \in scenario[2]
                     \/ scenario[2] = {} /\ h.file[2] \in {c[1] : c \in scenario[3]}}}
=============================================================================
