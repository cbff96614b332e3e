------------------------- MODULE SupplierEndpoints -------------------------
(* The endpoints of the supplier portal: supplier, supplierInvoicing,             *)
(* supplierTracking and supplierStatement.  Rows: module EndpointRows.            *)
EXTENDS EndpointRows

\* supplier.ts.  The cart is opened as the store's is.
GetSupplierCatalog == Shows \o Shows
SupplierCart       == <<"ask", "begin", "seekCart", "openCart">>
GetSupplierCart    == SupplierCart \o <<"read", "commit">>
AddSupplierLine    == SupplierCart \o <<"need", "add", "commit">>
PatchSupplierLine  == SupplierCart \o <<"write", "matched", "commit">>
DeleteSupplierLine == SupplierCart \o <<"write", "commit">>

\* issueInvoiceAndStamp is a transaction of its own: what it throws is logged, and the
\* supplier is told the order is placed, with or without its invoice.
PlaceWholesale  == Do(<<"again", "must", "side", "unique", "tell">>) \o <<"attempt">>
CancelWholesale == Do(<<"claim", "must", "tell">>)
GetWholesale    == Shows
GetProfile      == ShowsOne
PatchProfile    == UpdatesIfThere
GetPickupPoints == Shows
GetTierPrice    == ShowsOne

\* supplierInvoicing.ts.  A proof is refused while another is pending, which is read
\* without a lock.
GetInvoices      == Shows
GetInvoice       == ShowsOne
GetInvoicePdf    == ShowsOne
GetInvoiceUbl    == ShowsOne \o <<"free">>
PostInvoiceProof == Do(<<"exists", "isopen", "enter", "tell">>)
GetPayments      == Shows
GetCustodyLedger == Shows
VerifyPayment    == Do(<<"take", "side", "finish", "tell">>)

\* supplierTracking.ts.
GetWholesaleTracking == ShowsOne
GetTrackToken        == ShowsOne
GetSupplierPod       == ShowsOne
GetTemplates         == Shows
PostTemplate         == Do(<<"add">>)
PatchTemplate        == Updates
DeleteTemplate       == UpdatesIfThere
ReorderTemplate      == ShowsOne
ReorderWholesale     == ShowsOne

\* supplierStatement.ts: the statement is computed and kept, then its lines are read in
\* a second transaction, which may see payments the totals do not.
GetStatement    == Do(<<"add", "read">>) \o Shows
GetStatementPdf == <<>>
GetDashboard    == Shows \o Shows

SupplierRoutes ==
  [GetSupplierCatalog |-> GetSupplierCatalog, GetSupplierCart |-> GetSupplierCart,
   AddSupplierLine |-> AddSupplierLine, PatchSupplierLine |-> PatchSupplierLine,
   DeleteSupplierLine |-> DeleteSupplierLine, PlaceWholesale |-> PlaceWholesale,
   CancelWholesale |-> CancelWholesale, GetWholesale |-> GetWholesale,
   GetProfile |-> GetProfile, PatchProfile |-> PatchProfile,
   GetPickupPoints |-> GetPickupPoints, GetTierPrice |-> GetTierPrice,
   GetInvoices |-> GetInvoices, GetInvoice |-> GetInvoice, GetInvoicePdf |-> GetInvoicePdf,
   GetInvoiceUbl |-> GetInvoiceUbl, PostInvoiceProof |-> PostInvoiceProof,
   GetPayments |-> GetPayments, GetCustodyLedger |-> GetCustodyLedger,
   VerifyPayment |-> VerifyPayment, GetWholesaleTracking |-> GetWholesaleTracking,
   GetTrackToken |-> GetTrackToken, GetSupplierPod |-> GetSupplierPod,
   GetTemplates |-> GetTemplates, PostTemplate |-> PostTemplate,
   PatchTemplate |-> PatchTemplate, DeleteTemplate |-> DeleteTemplate,
   ReorderTemplate |-> ReorderTemplate, ReorderWholesale |-> ReorderWholesale,
   GetStatement |-> GetStatement, GetStatementPdf |-> GetStatementPdf,
   GetDashboard |-> GetDashboard]
=============================================================================
