--------------------------- MODULE AdminEndpoints ---------------------------
(* The endpoints of the admin console: adminCatalog, adminOrders, adminUsers,     *)
(* adminFleet, adminPromotions, adminAnalytics, adminGovernance, adminFinance,    *)
(* adminCredit and adminInterventions.  Rows: module EndpointRows.                *)
EXTENDS EndpointRows

\* adminCatalog.ts.
GetSkus       == Shows
PostSku       == Do(<<"free", "need", "unique", "side", "note">>)
PatchSku      == Do(<<"need", "write", "side", "note">>)
UpsertPack    == Do(<<"need", "add", "side", "note">>)
PutPrice      == Do(<<"need", "aim", "swap", "tell", "note">>)
PutTierPrices == Do(<<"need", "add", "tell", "note">>)
\* The new quantity is applied as a difference from the one read; the stock-out and
\* restock events depend on the amounts and are left out.
PutInventory  == Do(<<"need", "write", "note">>)

\* adminOrders.ts, adminUsers.ts.
ReadyForPickup == Do(<<"claim", "must", "tell">>)
ProvisionUser  == Do(<<"free", "unique", "side", "tell", "note">>)
RoleGrant      == Do(<<"need", "claim", "tell", "note">>)
PutUserStatus  == Do(<<"need", "write", "side", "note">>)

\* adminFleet.ts.
GetMapToken  == <<>>
GetFleetKpis == Shows
PutCadence   == Do(<<"add", "note", "tell">>)
GetAlerts    == Shows
ReassignTask == Do(<<"exists", "write", "note">>)

\* adminPromotions.ts: a campaign is only recorded.
PutCouponConfig == Do(<<"add", "note">>)
PutCampaign     == Do(<<"add">>)
PostRule        == Do(<<"isopen", "add">>)

\* adminAnalytics.ts.
GetSales       == Shows
GetBestsellers == Shows
GetFulfillment == Shows
ExportReport   == Shows

\* adminGovernance.ts.  Reading a customer is the entry in the audit log; no customer,
\* no entry.
GetAuditLog        == Shows
VerifyChain        == Shows
ReadCustomer       == Do(<<"add", "exists">>)
PostPdplRequest    == Do(<<"add", "note">>)
AdvancePdpl        == Do(<<"take", "write", "note">>)
PostBreach         == Do(<<"add", "note">>)
GetPdplRequests    == Shows
GetBreaches        == Shows
AdvanceBreach      == Do(<<"take", "write", "note">>)
GetAggregation     == Shows

\* adminFinance.ts.
GetReceivables           == Shows
GetVerificationQueue     == Shows
VerifyBankTransfer       == Do(<<"take", "side", "finish", "tell">>)
VerifySupplierRemittance == Do(<<"read", "isopen", "claim", "must", "tell", "note">>)
VerifyDriverRemittance   == Do(<<"read", "isopen", "finish", "note">>)
WriteOffInvoice          == Do(<<"claim", "must", "side">>)
GetCustodyFunds          == Shows

\* adminCredit.ts.  A limit above the threshold waits for an approval; an approval is
\* acknowledged by its id alone.
GetSuppliers      == Shows
PutCreditLimit    == Do(<<"aim", "swap", "note", "tell">>)
AskCreditLimit    == Do(<<"read", "add">>)
GetDualControl    == Shows
Acknowledge       == Do(<<"need", "free", "finish">>)
PutSupplierTier   == Do(<<"read", "write", "note">>)
CreditOverride    == Do(<<"add">>)

\* adminInterventions.ts.
GetInterventions == Shows
ForceCancel      == Do(<<"claim", "must", "tell", "note">>)
EditAddress      == Do(<<"exists", "isopen", "write", "note">>)
ApproveReturn    == Do(<<"take", "finish", "side", "tell", "note">>)
RejectReturn     == Do(<<"take", "finish", "note">>)
ModerateReview   == Do(<<"exists", "write", "note">>)

AdminRoutes ==
  [GetSkus |-> GetSkus, PostSku |-> PostSku, PatchSku |-> PatchSku, UpsertPack |-> UpsertPack,
   PutPrice |-> PutPrice, PutTierPrices |-> PutTierPrices, PutInventory |-> PutInventory,
   ReadyForPickup |-> ReadyForPickup, ProvisionUser |-> ProvisionUser,
   RoleGrant |-> RoleGrant, PutUserStatus |-> PutUserStatus, GetMapToken |-> GetMapToken,
   GetFleetKpis |-> GetFleetKpis, PutCadence |-> PutCadence, GetAlerts |-> GetAlerts,
   ReassignTask |-> ReassignTask, PutCouponConfig |-> PutCouponConfig,
   PutCampaign |-> PutCampaign, PostRule |-> PostRule, GetSales |-> GetSales,
   GetBestsellers |-> GetBestsellers, GetFulfillment |-> GetFulfillment,
   ExportReport |-> ExportReport, GetAuditLog |-> GetAuditLog, VerifyChain |-> VerifyChain,
   ReadCustomer |-> ReadCustomer, PostPdplRequest |-> PostPdplRequest,
   AdvancePdpl |-> AdvancePdpl, PostBreach |-> PostBreach,
   GetPdplRequests |-> GetPdplRequests, GetBreaches |-> GetBreaches,
   AdvanceBreach |-> AdvanceBreach, GetAggregation |-> GetAggregation,
   GetReceivables |-> GetReceivables, GetVerificationQueue |-> GetVerificationQueue,
   VerifyBankTransfer |-> VerifyBankTransfer,
   VerifySupplierRemittance |-> VerifySupplierRemittance,
   VerifyDriverRemittance |-> VerifyDriverRemittance, WriteOffInvoice |-> WriteOffInvoice,
   GetCustodyFunds |-> GetCustodyFunds, GetSuppliers |-> GetSuppliers,
   PutCreditLimit |-> PutCreditLimit, AskCreditLimit |-> AskCreditLimit,
   GetDualControl |-> GetDualControl, Acknowledge |-> Acknowledge,
   PutSupplierTier |-> PutSupplierTier, CreditOverride |-> CreditOverride,
   GetInterventions |-> GetInterventions, ForceCancel |-> ForceCancel,
   EditAddress |-> EditAddress, ApproveReturn |-> ApproveReturn,
   RejectReturn |-> RejectReturn, ModerateReview |-> ModerateReview]
=============================================================================
