---------------------------- MODULE MCEndpoints ----------------------------
(* Every endpoint of the four applications, called twice about one row.          *)
EXTENDS TLC, Endpoints, ShopEndpoints, SupplierEndpoints, DriverEndpoints, AdminEndpoints

MCEndpointTable == ShopRoutes @@ SupplierRoutes @@ DriverRoutes @@ AdminRoutes

\* A refusal after a write in the same transaction, or after one that is committed: the
\* default mark taken from the other addresses, the cart opened on the way, the event and
\* entry of an unknown setting; pings whose push failed and an order whose coupon did.
MCLeaves ==
  {"PatchAddress", "AddLine", "PatchLine", "AddSupplierLine", "PatchSupplierLine",
   "PutSetting", "PutFlag", "PostPings", "PlaceOrder"}

\* Events and audit entries that do not depend on what the statement before did: a role
\* granted twice, the tier of no supplier, a remittance two admins verify.
MCBlind == {"PutSetting", "PutFlag", "RoleGrant", "PutSupplierTier", "VerifyDriverRemittance"}

\* A check of the state without a lock, then an update by id (or an insert).
MCLoose ==
  {"PlaceOrder", "ConfirmReceipt", "VerifyTransfer", "PostInvoiceProof", "Acknowledge",
   "VerifyDriverRemittance"}
MCUnlocked ==
  {"PlaceOrder", "ConfirmReceipt", "VerifyTransfer", "Acknowledge", "VerifyDriverRemittance",
   "PutCoupon", "PutSetting", "PutFlag", "PatchReview", "DeleteReview", "PatchSku",
   "PutInventory", "PutUserStatus", "ReassignTask", "PutSupplierTier", "EditAddress",
   "ModerateReview"}

\* A unique constraint no handler translates: the open cart, the current price or limit,
\* the slug, the e-mail address, the review, the open shift, the order's key.
MCColliding ==
  {"GetCart", "AddLine", "PatchLine", "DeleteLine", "PutCoupon", "DeleteCoupon",
   "ReorderLines", "GetSupplierCart", "AddSupplierLine", "PatchSupplierLine",
   "DeleteSupplierLine", "PutPrice", "PutCreditLimit", "PostSku", "ProvisionUser",
   "PostReview", "StartShift", "PlaceWholesale"}
=============================================================================
