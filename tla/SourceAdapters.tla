---------------------------- MODULE SourceAdapters ----------------------------
(***************************************************************************)
(* The three source adapters: whether a file parses, and the canonical     *)
(* loads, ledger entries and warnings it is normalised to.  They know      *)
(* nothing of the generator: what a file holds is SyncFiles.               *)
(*                                                                         *)
(*   ingestion/freightflow.py, hauldesk.py, brokeros.py, mappings.py       *)
(*                                                                         *)
(* A canonical load has carrier_ref beside carrier: the reference that the *)
(* HaulDesk coordinator may still resolve from the carriers it knows.      *)
(***************************************************************************)
EXTENDS Precedence, Sequences

\* FREIGHTFLOW_STATUS_MAP, HAULDESK_STATUS_MAP, BROKEROS_STATUS_MAP.
FreightFlowStatusMap ==
  [w \in {"Quoting", "Booking", "Dispatched", "At Shipper", "En Route",
          "At Receiver", "Delivered", "Completed"} |->
     CASE w = "Quoting"                      -> "PLANNED"
       [] w = "Booking"                      -> "ACTIVE"
       [] w \in {"Dispatched", "At Shipper"} -> "COVERED"
       [] w \in {"En Route", "At Receiver"}  -> "IN_TRANSIT"
       [] w = "Delivered"                    -> "DELIVERED"
       [] w = "Completed"                    -> "COMPLETED"]

HaulDeskStatusMap ==
  [c \in {10, 20, 30, 40, 50, 90} |->
     CASE c = 10 -> "PLANNED"    [] c = 20 -> "ACTIVE"
       [] c = 30 -> "COVERED"    [] c = 40 -> "IN_TRANSIT"
       [] c = 50 -> "DELIVERED"  [] c = 90 -> "COMPLETED"]

BrokerOSStatusMap ==
  [w \in {"Quotes Requested", "Ready to Book", "Booked", "In Transit",
          "Delivered", "Invoiced", "Paid"} |->
     CASE w = "Quotes Requested"            -> "PLANNED"
       [] w = "Ready to Book"               -> "ACTIVE"
       [] w = "Booked"                      -> "COVERED"
       [] w = "In Transit"                  -> "IN_TRANSIT"
       [] w \in {"Delivered", "Invoiced"}   -> "DELIVERED"
       [] w = "Paid"                        -> "COMPLETED"]

FreightFlowEquipmentMap ==
  [w \in {"53 ft Van | Dry", "53 ft Van | Reefer", "48 ft Flatbed"} |->
     CASE w = "53 ft Van | Dry"    -> "DRY_VAN"
       [] w = "53 ft Van | Reefer" -> "REEFER"
       [] w = "48 ft Flatbed"      -> "FLATBED"]

HaulDeskEquipmentMap == [V |-> "DRY_VAN", R |-> "REEFER", F |-> "FLATBED"]

BrokerOSEquipmentMap ==
  [w \in {"Dry Van", "Reefer", "Flatbed"} |->
     CASE w = "Dry Van" -> "DRY_VAN" [] w = "Reefer" -> "REEFER"
       [] w = "Flatbed" -> "FLATBED"]

\* The source's local time in July, parse_hauldesk_datetime.
CentralHours == 5

FromOffset(stamp) == stamp.local - stamp.offset
FromNaive(stamp) == stamp + CentralHours

-----------------------------------------------------------------------------
(* FreightFlow. *)

\* An unknown status or equipment fails the whole file.
FreightFlowParses(file) ==
  \A l \in file.loads : /\ l.status \in DOMAIN FreightFlowStatusMap
                        /\ l.equip \in DOMAIN FreightFlowEquipmentMap

\* _normalize_load: a stop type that is neither word is neither role.
FreightFlowNormalLoad(l) ==
  [load          |-> l.load,
   status        |-> FreightFlowStatusMap[l.status],
   customer      |-> l.customer,
   carrier       |-> l.carrier,
   carrier_ref   |-> l.carrier,
   equipment     |-> FreightFlowEquipmentMap[l.equip],
   stops         |-> [i \in DOMAIN l.stops |->
                        [location |-> l.stops[i].zip,
                         pickup   |-> l.stops[i].type = "First Pickup",
                         dropoff  |-> l.stops[i].type = "Last Drop"]],
   customer_rate |-> l.sell,
   carrier_rate  |-> l.buy,
   modified      |-> FromOffset(l.modified)]

FreightFlowNormalize(file) ==
  [sync_at  |-> FromOffset(file.synced_at),
   loads    |-> {FreightFlowNormalLoad(l) : l \in file.loads},
   entries  |-> {},
   warnings |->
     IF \E l \in file.loads : \E i \in DOMAIN l.stops :
          l.stops[i].type \notin {"First Pickup", "Last Drop"}
     THEN {"STOP_ROLE_UNRECOGNIZED"} ELSE {}]

-----------------------------------------------------------------------------
(* HaulDesk. *)

\* parse_hauldesk_file: a load or a rate id that comes twice fails the file,
\* like an unknown code.  (The carriers are a set of ids here.)
HaulDeskParses(file) ==
  /\ \A l, m \in file.loads : l.load = m.load => l = m
  /\ \A r, q \in file.rates : r.id = q.id => r = q
  /\ \A l \in file.loads : /\ l.status_code \in DOMAIN HaulDeskStatusMap
                           /\ l.equip \in DOMAIN HaulDeskEquipmentMap

\* normalize_hauldesk: two stops, the carrier only if the file holds its row,
\* no money on the load.
HaulDeskNormalLoad(l, carriers) ==
  [load          |-> l.load,
   status        |-> HaulDeskStatusMap[l.status_code],
   customer      |-> l.customer,
   carrier       |-> IF l.carrier_ref \in carriers THEN l.carrier_ref ELSE None,
   carrier_ref   |-> l.carrier_ref,
   equipment     |-> HaulDeskEquipmentMap[l.equip],
   stops         |-> <<[location |-> l.pu_zip, pickup |-> TRUE, dropoff |-> FALSE],
                       [location |-> l.del_zip, pickup |-> FALSE, dropoff |-> TRUE]>>,
   customer_rate |-> None,
   carrier_rate  |-> None,
   modified      |-> FromNaive(l.modified)]

\* The warnings are those of a reader that knows no carriers, the validator.
HaulDeskNormalize(file) ==
  [sync_at  |-> FromNaive(file.synced_at),
   loads    |-> {HaulDeskNormalLoad(l, file.carriers) : l \in file.loads},
   entries  |-> {[r EXCEPT !.created = FromNaive(@)] : r \in file.rates},
   warnings |-> IF {l.carrier_ref : l \in file.loads} \subseteq
                     (file.carriers \cup {None})
                THEN {} ELSE {"UNKNOWN_CARRIER_REF"}]

-----------------------------------------------------------------------------
(* BrokerOS. *)

\* _resolve_load: every reference must be in the file, with the right type.
BrokerOSResolves(l, references) ==
  /\ <<"Customer", l.customer>> \in references
  /\ l.carrier # None => <<"Carrier", l.carrier>> \in references
  /\ \A i \in DOMAIN l.stops : <<"Location", l.stops[i].location>> \in references

BrokerOSParses(file) ==
  \A l \in file.loads : /\ BrokerOSResolves(l, file.references)
                        /\ l.status \in DOMAIN BrokerOSStatusMap
                        /\ l.equip \in DOMAIN BrokerOSEquipmentMap

BrokerOSNormalLoad(l) ==
  [load          |-> l.load,
   status        |-> BrokerOSStatusMap[l.status],
   customer      |-> l.customer,
   carrier       |-> l.carrier,
   carrier_ref   |-> l.carrier,
   equipment     |-> BrokerOSEquipmentMap[l.equip],
   stops         |-> l.stops,
   customer_rate |-> l.customer_rate,
   carrier_rate  |-> l.carrier_rate,
   modified      |-> l.modified]

BrokerOSNormalize(file) ==
  [sync_at  |-> file.synced_at,
   loads    |-> {BrokerOSNormalLoad(l) : l \in file.loads},
   entries  |-> {},
   warnings |-> {}]

-----------------------------------------------------------------------------
(* The adapter of a source. *)

Parses(source, file) ==
  \/ source = "FREIGHTFLOW" /\ FreightFlowParses(file)
  \/ source = "HAULDESK" /\ HaulDeskParses(file)
  \/ source = "BROKEROS" /\ BrokerOSParses(file)

Normalize(source, file) ==
  CASE source = "FREIGHTFLOW" -> FreightFlowNormalize(file)
    [] source = "HAULDESK"    -> HaulDeskNormalize(file)
    [] source = "BROKEROS"    -> BrokerOSNormalize(file)
=============================================================================
