--------------------------- MODULE SupplierScreens ---------------------------
(* The supplier portal's pages, each as a row of Pages.                        *)
EXTENDS ScreenRows

\* app/cart/page.tsx: placing the order keeps the page busy until it has left.
SupplierCartLoad == [Loads EXCEPT !.hush = "answered"]
SupplierCartOps == [qty    |-> Keeps(Does("lineBusy", "line", "await")),
                    remove |-> Keeps(Does("lineBusy", "line", "await")),
                    place  |-> [Does("busy", "on", "note") EXCEPT !.leaves = "success", !.frees = "failure"]]
SupplierCartView == [Beside EXCEPT !.rows = {"qty", "remove"}]
SupplierCart == Row(SupplierCartLoad, SupplierCartOps, SupplierCartView)

\* app/templates/page.tsx: a reorder fills the cart and goes there.
TemplatesOps == [create  |-> Does("creating", "on", "load"),
                 delete  |-> Keeps(Does("busyId", "line", "load")),
                 reorder |-> [Keeps(Does("busyId", "line", "note")) EXCEPT !.leaves = "success"]]
TemplatesView == [InPlace EXCEPT !.rows = {"delete", "reorder"}, !.forms = {"create"}]
Templates == Row(Loads, TemplatesOps, TemplatesView)

\* app/orders/page.tsx.
SupplierOrdersLoad == [Loads EXCEPT !.blanks = "load"]
SupplierOrdersOps == [cancel  |-> Keeps(Does("busyId", "line", "load")),
                      reorder |-> [Keeps(Does("busyId", "line", "note")) EXCEPT !.leaves = "success"]]
SupplierOrders == Row(SupplierOrdersLoad, SupplierOrdersOps, [InPlace EXCEPT !.rows = {"cancel", "reorder"}])

\* app/orders/[id]/page.tsx: the order, then its proof of delivery.
SupplierTracking == Row(Loads, NoOps, Beside)

\* app/invoices/[id]/page.tsx.
InvoiceOps == [proof |-> Does("busy", "on", "note")]
InvoiceView == [Beside EXCEPT !.retry = "first"]
Invoice == Row(Loads, InvoiceOps, InvoiceView)

\* app/profile/page.tsx.
ProfileOps == [save |-> Does("busy", "on", "load")]
Profile == Row(Loads, ProfileOps, Beside)

\* app/catalog/page.tsx.
SupplierCatalogOps == [add |-> Does("busy", "line", "note")]
SupplierCatalog == Row(Loads, SupplierCatalogOps, [Beside EXCEPT !.rows = {"add"}])

\* app/pickup-points/page.tsx: the list again once the visitor is located.
PickupLoad == [Loads EXCEPT !.keyed = TRUE]
PickupPoints == Row(PickupLoad, NoOps, InPlace)

\* app/statement/page.tsx.
StatementOps == [generate |-> Does("busy", "on", "replace")]
Statement == Row(LoadsNothing, StatementOps, [Beside EXCEPT !.forms = {"generate"}, !.hides = TRUE])

\* app/invoices and app/payments/page.tsx.
InvoicesLoad == [Loads EXCEPT !.blanks = "load"]
Invoices == Row(InvoicesLoad, NoOps, InPlace)
PaymentsLoad == [Loads EXCEPT !.blanks = "load"]
Payments == Row(PaymentsLoad, NoOps, InPlace)

\* app/dashboard, app/custody and app/rewards/page.tsx.
SupplierDashboard == Row(Loads, NoOps, Beside)
Custody == Row(Loads, NoOps, InPlace)
Rewards == Row(Loads, NoOps, InPlace)

SupplierPages ==
  [supplierCart |-> SupplierCart, templates |-> Templates, supplierOrders |-> SupplierOrders,
   supplierTracking |-> SupplierTracking, invoice |-> Invoice, profile |-> Profile,
   supplierCatalog |-> SupplierCatalog, pickupPoints |-> PickupPoints, statement |-> Statement,
   invoices |-> Invoices, payments |-> Payments, supplierDashboard |-> SupplierDashboard,
   custody |-> Custody, rewards |-> Rewards]
=============================================================================
