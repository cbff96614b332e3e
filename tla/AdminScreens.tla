---------------------------- MODULE AdminScreens ----------------------------
(* The admin console's pages, each as a row of Pages.                          *)
EXTENDS ScreenRows

\* app/catalog/page.tsx: one slot names the row and the field that are being saved.
CatalogRowOps == [price |-> Keeps(Does("busy", "own", "load")),
                  stock |-> Keeps(Does("busy", "own", "load"))]
CatalogFormOps == [createSku  |-> OwnError(Does("createSkuBusy", "on", "load")),
                   createPack |-> OwnError(Does("createPackBusy", "on", "load"))]
CatalogOps == [o \in DOMAIN CatalogRowOps \union DOMAIN CatalogFormOps |->
                 IF o \in DOMAIN CatalogRowOps THEN CatalogRowOps[o] ELSE CatalogFormOps[o]]
CatalogView == [InPlace EXCEPT !.rows = DOMAIN CatalogRowOps, !.forms = DOMAIN CatalogFormOps]
Catalog == Row(Loads, CatalogOps, CatalogView)

\* app/finance/page.tsx: three loads at once, and one slot for every row and the form.
FinanceOps == [verifyTransfer   |-> Keeps(Does("busy", "own", "load")),
               verifyRemittance |-> Keeps(Does("busy", "own", "load")),
               writeOff         |-> Keeps(Does("busy", "own", "load"))]
FinanceView == [InPlace EXCEPT !.rows = {"verifyTransfer", "verifyRemittance"}, !.forms = {"writeOff"}]
Finance == Row(Loads, FinanceOps, FinanceView)

\* app/suppliers-credit/page.tsx: approving a change acknowledges it and sends it again.
CreditLimitOps == [saveLimit   |-> Does("busyId", "line", "load"),
                   acknowledge |-> Does("ackBusyId", "line", "load")]
CreditTierOps  == [applyTier   |-> Does("tierBusyId", "line", "load"),
                   override    |-> OwnError(Does("overrideBusy", "on", "note"))]
CreditOps == [o \in DOMAIN CreditLimitOps \union DOMAIN CreditTierOps |->
                IF o \in DOMAIN CreditLimitOps THEN CreditLimitOps[o] ELSE CreditTierOps[o]]
CreditView == [InPlace EXCEPT !.rows = {"saveLimit", "acknowledge", "applyTier"},
                              !.forms = {"override", "acknowledge"}]
SuppliersCredit == Row(Loads, CreditOps, CreditView)

\* app/privacy/pdpl/page.tsx: the requests and the breaches share nothing.
RequestsOps == [createRequest  |-> OwnError(Does("createRequestBusy", "on", "load")),
                advanceRequest |-> Does("advanceRequestBusyId", "line", "load")]
RequestsView == [InPlace EXCEPT !.rows = {"advanceRequest"}, !.forms = {"createRequest"}]
Requests == Row(Loads, RequestsOps, RequestsView)
BreachesOps == [createBreach  |-> OwnError(Does("createBreachBusy", "on", "load")),
                advanceBreach |-> Does("advanceBreachBusyId", "line", "load")]
BreachesView == [InPlace EXCEPT !.rows = {"advanceBreach"}, !.forms = {"createBreach"}]
Breaches == Row(Loads, BreachesOps, BreachesView)

\* app/users/page.tsx.
ProvisionOps == [provision |-> Does("busy", "on", "note")]
Provision == Row(LoadsNothing, ProvisionOps, [Beside EXCEPT !.forms = {"provision"}])
ManageOps == [grant     |-> Does("busy", "own", "note"), revoke     |-> Does("busy", "own", "note"),
              suspended |-> Does("busy", "own", "note"), active     |-> Does("busy", "own", "note")]
ManageView == [Beside EXCEPT !.forms = DOMAIN ManageOps]
ManageUser == Row(LoadsNothing, ManageOps, ManageView)

\* app/interventions/page.tsx: run(key, path, body).
InterventionsOps == [o \in {"cancel", "return", "review"} |-> Does("busy", "own", "load")]
InterventionsView == [InPlace EXCEPT !.forms = DOMAIN InterventionsOps]
Interventions == Row(Loads, InterventionsOps, InterventionsView)

\* app/promotions/page.tsx: post(key, path, body).
PromotionsOps == [o \in {"coupon", "campaign", "rule"} |-> Does("busy", "own", "note")]
PromotionsView == [Beside EXCEPT !.forms = DOMAIN PromotionsOps]
Promotions == Row(LoadsNothing, PromotionsOps, PromotionsView)

\* app/settings/page.tsx: a panel, and put(path, key, value).
SettingsOps == [save |-> Keeps(Does("savingKey", "line", "load"))]
SettingsView == [InPlace EXCEPT !.rows = {"save"}]
Settings == Row(Loads, SettingsOps, SettingsView)

\* app/settings/security/page.tsx: a second factor, for the first time or again.
SecurityOps == [enroll  |-> Does("enrollBusy", "on", "note"),
                reset   |-> OwnError(Does("resetBusy", "on", "note")),
                confirm |-> OwnError(Does("confirmBusy", "on", "load"))]
Security == Row(Loads, SecurityOps, Beside)

\* app/settings/audit/page.tsx: two requests, one list, for the actor applied last.
ConfigAuditLoad == [Loads EXCEPT !.keyed = TRUE, !.blanks = "load"]
ConfigAudit == Row(ConfigAuditLoad, NoOps, InPlace)

\* app/audit/page.tsx and app/privacy/page.tsx.
AuditOps == [verifyChain |-> Does("busy", "on", "note")]
Audit == Row(Loads, AuditOps, [InPlace EXCEPT !.forms = {"verifyChain"}])
LookupOps == [lookup |-> Does("busy", "on", "replace")]
Lookup == Row(LoadsNothing, LookupOps, [Beside EXCEPT !.forms = {"lookup"}])

\* app/fleet/page.tsx and app/dashboard/page.tsx.
FleetOps == [reassign |-> Does("reassignBusyRef", "line", "load")]
Fleet == Row(Loads, FleetOps, [InPlace EXCEPT !.rows = {"reassign"}])
AdminDashboard == Row(Loads, NoOps, InPlace)

AdminPages ==
  [catalog |-> Catalog, finance |-> Finance, suppliersCredit |-> SuppliersCredit,
   requests |-> Requests, breaches |-> Breaches, provision |-> Provision,
   manageUser |-> ManageUser, interventions |-> Interventions, promotions |-> Promotions,
   settings |-> Settings, security |-> Security, configAudit |-> ConfigAudit, audit |-> Audit,
   lookup |-> Lookup, fleet |-> Fleet, adminDashboard |-> AdminDashboard]
=============================================================================
