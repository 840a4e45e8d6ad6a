--------------------------- MODULE ScenarioCatalog ---------------------------
(***************************************************************************)
(* generator/catalog.py: the hand-authored world the sync files are made   *)
(* from.  Three tenants, one per source system; their customers, carriers  *)
(* and loads, with the equipment and the stops of every load.              *)
(*                                                                         *)
(* A load, a carrier and a customer are named by their source and the      *)
(* number in their logical id: FF-0901 is <<"FREIGHTFLOW", 901>>.  Names,   *)
(* authority numbers, miles, weights and history profiles are left out.    *)
(***************************************************************************)
EXTENDS Integers, Sequences, FiniteSets

\* SourceSystem; each tenant is bound to one of them.
Sources == {"BROKEROS", "FREIGHTFLOW", "HAULDESK"}

Equipment == {"DRY_VAN", "REEFER", "FLATBED"}

Locations ==
  {"DFW-GP", "DFW-IRV", "DFW-DAL", "DFW-FTW", "DFW-ARL", "DFW-PLN",
   "HOU-KAT", "HOU-SUG", "HOU-HOU", "HOU-PAS", "HOU-BAY", "HOU-GLV",
   "SAT-NBR", "SAT-SCH", "SAT-SAT", "SAT-SEG"}

CustomersOf ==
  [FREIGHTFLOW |-> {101, 102, 103},
   HAULDESK    |-> {301, 302, 303},
   BROKEROS    |-> {501, 502, 503}]

\* HaulDesk's carrier 206 is FreightFlow's 206 under the same authority: the
\* two tenants know it by identities of their own.
CarriersOf ==
  [FREIGHTFLOW |-> 201..208,
   HAULDESK    |-> (401..405) \cup {206, 407, 408},
   BROKEROS    |-> 601..608]

-----------------------------------------------------------------------------
(* The loads, in the order the catalog lists them. *)

\* A stop at each location of a route: the first is the pickup, the last the
\* dropoff, one in between neither.
Route(locations) ==
  [i \in DOMAIN locations |->
     [location |-> locations[i],
      pickup   |-> i = 1,
      dropoff  |-> i = Len(locations)]]

Lane(source, number, customer, equipment, locations) ==
  [load |-> <<source, number>>, customer |-> customer,
   equipment |-> equipment, stops |-> Route(locations)]

FF(number, customer, equipment, locations) ==
  Lane("FREIGHTFLOW", number, customer, equipment, locations)

HD(number, customer, equipment, locations) ==
  Lane("HAULDESK", number, customer, equipment, locations)

BO(number, customer, equipment, locations) ==
  Lane("BROKEROS", number, customer, equipment, locations)

FreightFlowAnchors ==
  <<FF(901, 101, "DRY_VAN", <<"DFW-GP", "HOU-KAT">>),
    FF(902, 101, "DRY_VAN", <<"DFW-GP", "HOU-KAT">>),
    FF(903, 101, "DRY_VAN", <<"DFW-GP", "HOU-KAT">>),
    FF(904, 101, "DRY_VAN", <<"DFW-GP", "HOU-KAT">>),
    FF(905, 101, "DRY_VAN", <<"DFW-GP", "HOU-KAT">>),
    FF(906, 101, "DRY_VAN", <<"DFW-GP", "HOU-KAT">>),
    FF(907, 101, "DRY_VAN", <<"DFW-GP", "HOU-KAT">>),
    FF(908, 101, "DRY_VAN", <<"DFW-GP", "HOU-KAT">>),
    FF(909, 101, "DRY_VAN", <<"DFW-GP", "HOU-KAT">>),
    FF(990, 101, "DRY_VAN", <<"HOU-KAT", "DFW-GP">>)>>

HaulDeskAnchors ==
  <<HD(1901, 302, "DRY_VAN", <<"DFW-FTW", "HOU-HOU">>),
    HD(1902, 302, "DRY_VAN", <<"DFW-FTW", "HOU-HOU">>),
    HD(1903, 302, "DRY_VAN", <<"DFW-FTW", "HOU-HOU">>),
    HD(1904, 302, "DRY_VAN", <<"DFW-GP", "HOU-KAT">>),
    HD(1905, 301, "DRY_VAN", <<"DFW-GP", "HOU-KAT">>),
    HD(1906, 301, "DRY_VAN", <<"HOU-HOU", "SAT-SAT">>),
    HD(1907, 301, "DRY_VAN", <<"DFW-GP", "HOU-KAT">>),
    HD(1908, 302, "DRY_VAN", <<"DFW-GP", "HOU-KAT">>),
    HD(1909, 302, "DRY_VAN", <<"DFW-GP", "HOU-KAT">>),
    HD(1910, 302, "DRY_VAN", <<"HOU-BAY", "DFW-PLN">>)>>

BrokerOSAnchors ==
  <<BO(2901, 501, "REEFER", <<"HOU-KAT", "SAT-SAT">>),
    BO(2902, 501, "REEFER", <<"HOU-KAT", "SAT-SAT">>),
    BO(2903, 501, "REEFER", <<"HOU-KAT", "SAT-SAT">>),
    BO(2904, 501, "REEFER", <<"HOU-GLV", "SAT-SAT">>),
    BO(2905, 501, "REEFER", <<"HOU-GLV", "SAT-SAT">>),
    BO(2906, 501, "REEFER", <<"HOU-GLV", "SAT-SAT">>),
    BO(2907, 501, "REEFER", <<"HOU-GLV", "SAT-SAT">>),
    BO(2908, 501, "REEFER", <<"SAT-SAT", "HOU-KAT">>),
    BO(2909, 501, "REEFER", <<"SAT-SAT", "HOU-KAT">>),
    BO(2910, 501, "REEFER", <<"HOU-HOU", "DFW-GP">>)>>

FreightFlowOrdinary ==
  <<FF(1001, 101, "DRY_VAN", <<"DFW-GP", "HOU-KAT">>),
    FF(1101, 101, "DRY_VAN", <<"DFW-GP", "HOU-KAT">>),
    FF(1201, 101, "DRY_VAN", <<"DFW-GP", "HOU-KAT">>),
    FF(1301, 102, "REEFER", <<"HOU-HOU", "SAT-SAT">>),
    FF(1401, 103, "DRY_VAN", <<"HOU-PAS", "DFW-GP">>),
    FF(1402, 103, "DRY_VAN", <<"HOU-HOU", "DFW-GP">>)>>

HaulDeskOrdinary ==
  <<HD(2001, 302, "DRY_VAN", <<"DFW-FTW", "HOU-HOU">>),
    HD(2002, 301, "DRY_VAN", <<"DFW-GP", "HOU-KAT">>),
    HD(2003, 301, "DRY_VAN", <<"DFW-DAL", "HOU-HOU">>),
    HD(2004, 303, "FLATBED", <<"SAT-SAT", "DFW-FTW">>),
    HD(2005, 303, "REEFER", <<"HOU-HOU", "SAT-SAT">>),
    HD(2101, 302, "DRY_VAN", <<"DFW-PLN", "HOU-BAY">>)>>

BrokerOSOrdinary ==
  <<BO(3001, 501, "REEFER", <<"HOU-KAT", "SAT-SAT">>),
    BO(3002, 501, "REEFER", <<"HOU-SUG", "SAT-SCH">>),
    BO(3003, 502, "REEFER", <<"HOU-GLV", "SAT-SAT">>),
    BO(3005, 502, "DRY_VAN", <<"SAT-SAT", "DFW-DAL">>),
    BO(3101, 501, "REEFER", <<"HOU-SUG", "SAT-SCH">>),
    BO(3004, 501, "REEFER", <<"HOU-SUG", "HOU-HOU", "SAT-SCH">>)>>

FreightFlowProbes ==
  <<FF(1501, 101, "DRY_VAN", <<"DFW-GP", "HOU-KAT">>),
    FF(1502, 101, "DRY_VAN", <<"DFW-DAL", "HOU-HOU">>),
    FF(1503, 102, "REEFER", <<"HOU-HOU", "SAT-SAT">>)>>

HaulDeskProbes ==
  <<HD(2201, 302, "DRY_VAN", <<"DFW-FTW", "HOU-HOU">>),
    HD(2202, 301, "DRY_VAN", <<"DFW-GP", "HOU-KAT">>),
    HD(2203, 303, "FLATBED", <<"SAT-SAT", "DFW-FTW">>)>>

BrokerOSProbes ==
  <<BO(3201, 501, "REEFER", <<"HOU-KAT", "SAT-SAT">>),
    BO(3202, 501, "REEFER", <<"HOU-SUG", "SAT-SCH">>),
    BO(3203, 502, "DRY_VAN", <<"SAT-SAT", "DFW-DAL">>)>>

\* The loads a dispatcher decides on: active on day 11, at six in the morning.
Targets ==
  [FREIGHTFLOW |-> FF(9001, 101, "DRY_VAN", <<"DFW-GP", "HOU-KAT">>),
   HAULDESK    |-> HD(9001, 302, "DRY_VAN", <<"DFW-PLN", "HOU-BAY">>),
   BROKEROS    |-> BO(9001, 501, "REEFER", <<"HOU-KAT", "SAT-SAT">>)]

Anchors ==
  [FREIGHTFLOW |-> FreightFlowAnchors, HAULDESK |-> HaulDeskAnchors,
   BROKEROS |-> BrokerOSAnchors]

Ordinary ==
  [FREIGHTFLOW |-> FreightFlowOrdinary, HAULDESK |-> HaulDeskOrdinary,
   BROKEROS |-> BrokerOSOrdinary]

Probes ==
  [FREIGHTFLOW |-> FreightFlowProbes, HAULDESK |-> HaulDeskProbes,
   BROKEROS |-> BrokerOSProbes]

Lanes ==
  UNION {{Anchors[s][i] : i \in DOMAIN Anchors[s]} : s \in Sources}
    \cup UNION {{Ordinary[s][i] : i \in DOMAIN Ordinary[s]} : s \in Sources}
    \cup UNION {{Probes[s][i] : i \in DOMAIN Probes[s]} : s \in Sources}
    \cup {Targets[s] : s \in Sources}

LoadIds == {lane.load : lane \in Lanes}

LaneOf == [l \in LoadIds |-> CHOOSE lane \in Lanes : lane.load = l]

\* _ranking_holdouts: the carrier that later booked each ordinary load and
\* probe; who hauled it does not depend on how the carriers rank.
RankingHoldouts ==
  [FREIGHTFLOW |->
     {<<1001, 201>>, <<1101, 202>>, <<1201, 202>>, <<1301, 203>>, <<1401, 204>>,
      <<1402, 205>>, <<1501, 202>>, <<1502, 202>>, <<1503, 203>>},
   HAULDESK |->
     {<<2001, 401>>, <<2002, 404>>, <<2003, 401>>, <<2004, 407>>, <<2005, 402>>,
      <<2101, 404>>, <<2201, 401>>, <<2202, 401>>, <<2203, 407>>},
   BROKEROS |->
     {<<3001, 601>>, <<3002, 607>>, <<3003, 605>>, <<3004, 605>>, <<3005, 604>>,
      <<3101, 601>>, <<3201, 601>>, <<3202, 601>>, <<3203, 604>>}]

\* _scenarios: the number of each scenario, with the loads and the carriers
\* that show it.
Scenarios ==
  {<<1, {<<"FREIGHTFLOW", 1101>>}, {<<"FREIGHTFLOW", 201>>}>>,
   <<2, {<<"HAULDESK", 2101>>}, {<<"HAULDESK", 401>>}>>,
   <<3, {<<"BROKEROS", 3101>>}, {<<"BROKEROS", 601>>}>>,
   <<4, {<<"FREIGHTFLOW", 1201>>}, {<<"FREIGHTFLOW", 207>>}>>,
   <<5, {<<"FREIGHTFLOW", 1101>>}, {}>>,
   <<6, {<<"FREIGHTFLOW", 1301>>}, {<<"FREIGHTFLOW", 208>>}>>,
   <<7, {<<"FREIGHTFLOW", 1101>>}, {<<"FREIGHTFLOW", 201>>}>>,
   <<8, {<<"BROKEROS", 3101>>}, {<<"BROKEROS", 606>>}>>,
   <<9, {<<"HAULDESK", 2101>>}, {<<"HAULDESK", 402>>}>>,
   <<10, {<<"HAULDESK", 2101>>}, {<<"HAULDESK", 402>>}>>,
   <<11, {<<"BROKEROS", 3101>>}, {<<"BROKEROS", 602>>}>>,
   <<12, {<<"FREIGHTFLOW", 1101>>}, {<<"FREIGHTFLOW", 201>>}>>,
   <<13, {<<"BROKEROS", 3101>>}, {<<"BROKEROS", 601>>}>>,
   <<14, {<<"HAULDESK", 2101>>}, {<<"HAULDESK", 404>>}>>,
   <<15, {<<"FREIGHTFLOW", 1101>>}, {<<"FREIGHTFLOW", 201>>}>>,
   <<16, {<<"FREIGHTFLOW", 1201>>}, {<<"FREIGHTFLOW", 202>>}>>,
   <<17, {<<"FREIGHTFLOW", 1301>>}, {<<"FREIGHTFLOW", 203>>}>>,
   <<18, {<<"FREIGHTFLOW", 1401>>}, {<<"FREIGHTFLOW", 204>>}>>,
   <<19, {<<"FREIGHTFLOW", 1402>>}, {<<"FREIGHTFLOW", 205>>}>>,
   <<20, {<<"BROKEROS", 3004>>}, {<<"BROKEROS", 603>>}>>,
   <<21, {<<"BROKEROS", 3101>>}, {}>>,
   <<22, {<<"FREIGHTFLOW", 1201>>}, {}>>,
   <<23, {}, {<<"FREIGHTFLOW", 206>>, <<"HAULDESK", 206>>}>>,
   <<24, {<<"FREIGHTFLOW", 9001>>}, {}>>,
   <<25, {<<"BROKEROS", 9001>>}, {}>>,
   <<26, {<<"HAULDESK", 9001>>}, {}>>}

\* The checks of ScenarioCatalog and GeneratorLoad: ids are unique, every
\* reference is to something of the same tenant, every load has a stop.
ASSUME CatalogIsConsistent ==
  /\ Cardinality(Lanes) = Cardinality(LoadIds)
  /\ \A lane \in Lanes :
       /\ lane.customer \in CustomersOf[lane.load[1]]
       /\ lane.equipment \in Equipment
       /\ lane.stops # <<>>
       /\ \A i \in DOMAIN lane.stops : lane.stops[i].location \in Locations
  /\ \A s \in Sources : \A row \in RankingHoldouts[s] :
       <<s, row[1]>> \in LoadIds /\ row[2] \in CarriersOf[s]
  /\ \A scenario \in Scenarios :
       scenario[2] \subseteq LoadIds /\ \A c \in scenario[3] : c[2] \in CarriersOf[c[1]]
=============================================================================
