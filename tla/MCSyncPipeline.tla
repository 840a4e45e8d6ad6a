--------------------------- MODULE MCSyncPipeline ---------------------------
(***************************************************************************)
(* The whole catalogue and schedule, 123 files.  One file may be damaged,  *)
(* each in a way of its own, at a point where a load is being covered or   *)
(* settled; the commands may be killed after the first file, in the middle *)
(* of the history, and when generate has yet to finish its manifest.       *)
(***************************************************************************)
EXTENDS SyncPipeline

MCSpots ==
  {<<<<8, "FREIGHTFLOW">>, "broken">>,
   <<<<14, "FREIGHTFLOW">>, "roles">>,
   <<<<2, "HAULDESK">>, "orphan">>,
   <<<<2, "HAULDESK">>, "stray">>,
   <<<<8, "HAULDESK">>, "twice">>,
   <<<<12, "HAULDESK">>, "surcharge">>,
   <<<<17, "HAULDESK">>, "late">>,
   <<<<20, "BROKEROS">>, "orphan">>,
   <<<<26, "BROKEROS">>, "backdated">>,
   <<<<9, "BROKEROS">>, "late">>}
=============================================================================
