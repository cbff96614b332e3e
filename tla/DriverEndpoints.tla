-------------------------- MODULE DriverEndpoints --------------------------
(* The endpoints of the driver's app: driverDelivery and driverShift.  What the   *)
(* tasks, the van and the cash go through is module Delivery; here is what a call *)
(* leaves and answers.  Rows: module EndpointRows.                                *)
EXTENDS EndpointRows

\* driverDelivery.ts.  A declined task goes to another driver, whose event is module
\* Delivery's.
GetManifest    == Shows
AcceptTask     == Do(<<"keyed", "finish", "tell">>)
DeclineTask    == Do(<<"take", "finish">>)
GetTask        == ShowsOne
GetRoute       == <<"begin", "read", "call", "commit">>
TransitionTask == Do(<<"keyed", "finish", "tell">>)

\* The pings are committed, then the latest is pushed to the map; a push that fails is
\* answered 500 although the pings are kept.
PostPings       == Do(<<"need", "claim">>) \o <<"call">>
GetPublishToken == ShowsOne
CapturePod      == Do(<<"keyed", "finish", "side", "tell">>)
RegenerateOtp   == Do(<<"take", "write">>)
FailTask        == Do(<<"keyed", "finish", "tell">>)
ReturnToHub     == Do(<<"take", "side">>)
GetAudits       == Shows
CountAudit      == Do(<<"need", "take", "finish", "tell">>)
GetKpis         == Shows

\* driverShift.ts.  The load is moved onto the van before the shift is inserted; the
\* custody rows of a remittance are read unlocked and claimed one by one.
StartShift     == Do(<<"isopen", "exists", "side", "unique">>)
GetShift       == Shows
PutAvailable   == Do(<<"write", "matched">>)
ReconcileShift == Do(<<"take", "side", "finish">>)
RemitCustody   == Do(<<"read", "claim", "tellMatch">>)
CloseShift     == Do(<<"take", "finish">>)

DriverRoutes ==
  [GetManifest |-> GetManifest, AcceptTask |-> AcceptTask, DeclineTask |-> DeclineTask,
   GetTask |-> GetTask, GetRoute |-> GetRoute, TransitionTask |-> TransitionTask,
   PostPings |-> PostPings, GetPublishToken |-> GetPublishToken, CapturePod |-> CapturePod,
   RegenerateOtp |-> RegenerateOtp, FailTask |-> FailTask, ReturnToHub |-> ReturnToHub,
   GetAudits |-> GetAudits, CountAudit |-> CountAudit, GetKpis |-> GetKpis,
   StartShift |-> StartShift, GetShift |-> GetShift, PutAvailable |-> PutAvailable,
   ReconcileShift |-> ReconcileShift, RemitCustody |-> RemitCustody,
   CloseShift |-> CloseShift]
=============================================================================
