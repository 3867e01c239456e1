------------------------------- MODULE Portal -------------------------------
(***************************************************************************)
(* The API server and the ingestions over one database: accounts and       *)
(* profiles (Profile), tracked applications (Applications), matching and   *)
(* AI services (Intelligence), and the ingestion of a source (Ingestion).  *)
(*                                                                         *)
(* Requests of every kind are answered by threads with sessions of their   *)
(* own, and each commit is a step, so the steps of the components          *)
(* interleave.  Applications and matches are open to users with a profile, *)
(* and embed the skills that profile requests attach.                      *)
(***************************************************************************)
EXTENDS Applications, Intelligence, Ingestion

portal == <<profileVars, appVars, aiVars, ingestionVars>>

PortalInit == ProfileInit /\ AppInit /\ AIInit /\ IngestionInit

ProfileActs == ProfileNext /\ UNCHANGED <<appVars, aiVars, ingestionVars>>
AppActs == AppNext /\ UNCHANGED <<profileVars, aiVars, ingestionVars>>
AIActs == AINext /\ UNCHANGED <<profileVars, appVars, ingestionVars>>
IngestionActs == IngestionNext /\ UNCHANGED <<profileVars, appVars, aiVars>>

PortalNext == ProfileActs \/ AppActs \/ AIActs \/ IngestionActs

PortalSpec == PortalInit /\ [][PortalNext]_portal

-----------------------------------------------------------------------------

PortalTypeOK == ProfileTypeOK /\ AppTypeOK /\ AITypeOK /\ IngestionTypeOK

=============================================================================
