------------------------------ MODULE SyncFiles ------------------------------
(***************************************************************************)
(* From the schedule to the files that are written.                        *)
(*                                                                         *)
(*   generator/lifecycle.py    the state of a load after each file         *)
(*   generator/serializers.py  that state in the words of its source       *)
(*                                                                         *)
(* External ids, hashes in the code, are the names themselves.  The three  *)
(* formats name their time and loads alike here; what differs in substance *)
(* is kept: status words and codes, local and universal time, the carriers *)
(* and rates of HaulDesk, the references of BrokerOS.  A load is created   *)
(* and modified at its file's time; a location stands for its ZIP code.    *)
(***************************************************************************)
EXTENDS SyncGenerator

\* What the history says last of a field; None if it was never told.
Latest(history, field) ==
  LET told == {h \in history : h.event[field] # None}
  IN  IF told = {} THEN None
      ELSE (CHOOSE h \in told : \A g \in told : g.file[1] <= h.file[1]).event[field]

\* LifecycleEngine.apply: each event replaces the fields it states and leaves
\* the others; the status never restricts what may come next.
LifecycleAfter(l, tick) ==
  LET history == {h \in Schedule : h.event.load = l /\ h.file[1] <= tick}
  IN  [status        |-> Latest(history, "status"),
       carrier       |-> Latest(history, "carrier"),
       customer_rate |-> Latest(history, "customer_rate"),
       carrier_rate  |-> Latest(history, "carrier_rate")]

\* What _apply_lifecycle_event and _apply_financial_event would refuse: a
\* target that changes after it became active.
ASSUME TargetsAreLeftActive ==
  \A s \in Sources :
    Cardinality({h \in Schedule : h.event.load = Targets[s].load}) = 1

-----------------------------------------------------------------------------
(* The words of the sources, as the serializers write them. *)

CentralOffset == 5    \* hours behind UTC, in July

FreightFlowStatus ==
  [PLANNED |-> "Quoting", ACTIVE |-> "Booking", COVERED |-> "Dispatched",
   IN_TRANSIT |-> "En Route", DELIVERED |-> "Delivered", COMPLETED |-> "Completed"]

HaulDeskStatus ==
  [PLANNED |-> 10, ACTIVE |-> 20, COVERED |-> 30,
   IN_TRANSIT |-> 40, DELIVERED |-> 50, COMPLETED |-> 90]

BrokerOSStatus ==
  [PLANNED |-> "Quotes Requested", ACTIVE |-> "Ready to Book",
   COVERED |-> "Booked", IN_TRANSIT |-> "In Transit",
   DELIVERED |-> "Delivered", COMPLETED |-> "Paid"]

FreightFlowEquipment ==
  [DRY_VAN |-> "53 ft Van | Dry", REEFER |-> "53 ft Van | Reefer",
   FLATBED |-> "48 ft Flatbed"]

HaulDeskEquipment == [DRY_VAN |-> "V", REEFER |-> "R", FLATBED |-> "F"]

BrokerOSEquipment ==
  [DRY_VAN |-> "Dry Van", REEFER |-> "Reefer", FLATBED |-> "Flatbed"]

\* _offset_timestamp, _hauldesk_timestamp and _brokeros_timestamp.
OffsetStamp(at) == [local |-> at - CentralOffset, offset |-> -CentralOffset]
NaiveStamp(at) == at - CentralOffset
UniversalStamp(at) == at

FreightFlowLoad(lane, tick, state) ==
  [load     |-> lane.load,
   status   |-> FreightFlowStatus[state.status],
   sell     |-> IF state.customer_rate = None THEN 1450 ELSE state.customer_rate,
   buy      |-> state.carrier_rate,
   customer |-> lane.customer,
   carrier  |-> state.carrier,
   equip    |-> FreightFlowEquipment[lane.equipment],
   stops    |-> [i \in DOMAIN lane.stops |->
                   [type |-> IF lane.stops[i].pickup THEN "First Pickup"
                             ELSE "Last Drop",
                    zip  |-> lane.stops[i].location]],
   modified |-> OffsetStamp(SyncAt(tick))]

FreightFlowFile(tick, states) ==
  [synced_at |-> OffsetStamp(SyncAt(tick)),
   loads     |-> {FreightFlowLoad(s.lane, tick, s.state) : s \in states}]

\* A HaulDesk load states neither money nor the carrier, only a reference.
HaulDeskLoad(lane, tick, state) ==
  LET stops == lane.stops
  IN  [load        |-> lane.load,
       status_code |-> HaulDeskStatus[state.status],
       customer    |-> lane.customer,
       carrier_ref |-> state.carrier,
       equip       |-> HaulDeskEquipment[lane.equipment],
       pu_zip      |-> stops[1].location,
       del_zip     |-> stops[Len(stops)].location,
       modified    |-> NaiveStamp(SyncAt(tick))]

\* _hauldesk_rate: the financial events of this sync alone.  A rate id is a
\* hash of the load and the time it was entered at.
HaulDeskRates(tick) ==
  {[id |-> <<e.load, tick>>, load |-> e.load, amount |-> e.entry.amount,
    created |-> NaiveStamp(SyncAt(tick))] :
     e \in {e \in EventsOf(<<tick, "HAULDESK">>) : e.entry # None}}

\* LifecycleEngine.apply would refuse a financial entry whose id it has seen.
ASSUME EntriesComeOnce ==
  \A tick \in Ticks : \A r, q \in HaulDeskRates(tick) : r.id = q.id => r = q

\* _hauldesk_carriers: the carriers its loads refer to.
HaulDeskFile(tick, states) ==
  [synced_at |-> NaiveStamp(SyncAt(tick)),
   loads     |-> {HaulDeskLoad(s.lane, tick, s.state) : s \in states},
   carriers  |-> {s.state.carrier : s \in states} \ {None},
   rates     |-> HaulDeskRates(tick)]

BrokerOSLoad(lane, tick, state) ==
  [load          |-> lane.load,
   status        |-> BrokerOSStatus[state.status],
   customer      |-> lane.customer,
   carrier       |-> state.carrier,
   equip         |-> BrokerOSEquipment[lane.equipment],
   customer_rate |-> state.customer_rate,
   carrier_rate  |-> state.carrier_rate,
   stops         |-> lane.stops,
   modified      |-> UniversalStamp(SyncAt(tick))]

\* _brokeros_references: the accounts and locations its loads refer to.
BrokerOSReferences(states) ==
  {<<"Customer", s.lane.customer>> : s \in states}
    \cup {<<"Carrier", s.state.carrier>> : s \in {s \in states : s.state.carrier # None}}
    \cup UNION {{<<"Location", s.lane.stops[i].location>> :
                   i \in DOMAIN s.lane.stops} : s \in states}

BrokerOSFile(tick, states) ==
  [synced_at  |-> UniversalStamp(SyncAt(tick)),
   loads      |-> {BrokerOSLoad(s.lane, tick, s.state) : s \in states},
   references |-> BrokerOSReferences(states)]

\* serialize_sync: the loads that changed, as they are after the sync.
SerializeSync(f) ==
  LET states == {[lane |-> LaneOf[l], state |-> LifecycleAfter(l, f[1])] :
                   l \in {e.load : e \in EventsOf(f)}}
  IN  CASE f[2] = "FREIGHTFLOW" -> FreightFlowFile(f[1], states)
        [] f[2] = "HAULDESK"    -> HaulDeskFile(f[1], states)
        [] f[2] = "BROKEROS"    -> BrokerOSFile(f[1], states)

=============================================================================
