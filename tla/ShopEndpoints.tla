--------------------------- MODULE ShopEndpoints ---------------------------
(* The endpoints of the store: one row per route of me, addresses, account,      *)
(* notifications, media, i18n, config, catalog, cart, checkout, orders,          *)
(* storefrontFull and loyalty.  Rows: module EndpointRows.                       *)
EXTENDS EndpointRows

\* me.ts and account.ts.
GetMe             == ShowsOne \o Shows
PatchMe           == Updates \o Shows
GetOverview       == Shows
GetLoyaltySummary == Shows
GetPreferences    == Shows
PutPreferences    == Do(<<"add", "read">>)
GetConsents       == Shows
PatchConsents     == Do(<<"add">>)
ExportAccount     == Shows

\* addresses.ts.  A patch that makes an address the default takes the mark from the
\* others first, and keeps that when there is no such address.
GetAddresses  == Shows
PostAddress   == Do(<<"side", "add">>)
PatchAddress  == Do(<<"side", "write">>) \o <<"matched">>
DeleteAddress == UpdatesIfThere

\* notifications.ts, media.ts and i18n.ts.
GetNotifications == Shows
MarkRead    == Do(<<"claim">>)
MarkAllRead == Do(<<"claim">>)
PostUpload  == <<"call">> \o Do(<<"add">>)
GetMediaUrl == ShowsOne \o <<"call">>
GetMessages == Shows

\* config.ts.  The event and the audit entry of a change do not wait for the update to
\* have matched.
GetSettings == Shows
PutSetting  == Do(<<"read", "write", "tell", "note">>) \o <<"matched">>
GetFlags    == Shows
PutFlag     == Do(<<"read", "write", "tell", "note">>) \o <<"matched">>

\* catalog.ts: the VAT rate is read in a transaction of its own.
GetFamilies  == Shows
GetProducts  == Shows \o Shows
SearchSkus   == Shows \o Shows
SuggestSkus  == Shows \o Shows
GetProduct   == Shows \o ShowsOne
GetPackSizes == ShowsOne
GetRelated   == Shows \o Shows

\* cart.ts: every call opens the cart if need be.  What a refused line leaves is the
\* cart; the first two calls of a customer both insert one.
WithCart == <<"ask", "begin", "seekCart", "openCart">>
GetCart    == WithCart \o <<"read", "commit">>
AddLine    == WithCart \o <<"need", "add", "commit">>
PatchLine  == WithCart \o <<"write", "matched", "commit">>
DeleteLine == WithCart \o <<"write", "commit">>
PutCoupon    == WithCart \o <<"read", "write", "commit">>
DeleteCoupon == WithCart \o <<"write", "commit">>

\* checkout.ts.  The coupon and the points are recorded after the order is committed,
\* so the caller can be told 500 about an order that was placed.
QuoteDelivery == ShowsOne \o Shows
PlaceOrder    == ShowsOne \o Shows \o Do(<<"isopen", "side", "finish", "tell">>) \o <<"call">>
PostProof     == Do(<<"need", "free", "add", "tell">>)

\* orders.ts.
GetOrders      == Shows
GetOrder       == ShowsOne \o Shows
CancelOrder    == Do(<<"claim", "must", "tell">>)
ConfirmReceipt == Do(<<"exists", "isopen", "finish">>)
ReorderLines   == <<"begin", "need", "seekCart", "openCart", "add", "commit">>
GetReceipt     == ShowsOne
VerifyTransfer == Do(<<"exists", "isopen", "finish", "tell">>)

\* storefrontFull.ts.  Nothing ties a return to the ones before it, and a refund row is
\* inserted "on conflict do nothing" with no constraint it could conflict with.
GetTracking        == ShowsOne
GetStreamToken     == ShowsOne
GetEligibility     == ShowsOne
RequestReturn      == Do(<<"exists", "isopen", "add", "tell">>)
GetReturns         == Shows
GetReturn          == ShowsOne
PutRefundIban      == Do(<<"need", "add">>)
PostReview         == Do(<<"need", "exists", "isopen", "unique", "tell">>)
GetReviews         == Shows
PatchReview        == Do(<<"exists", "isopen", "write">>)
DeleteReview       == Do(<<"exists", "isopen", "write">>)
GetWishlist        == Shows
AddWish            == Do(<<"claim">>)
RemoveWish         == UpdatesIfThere
PutBackInStock     == Updates

\* loyalty.ts.
GetPoints         == Shows
GetPointsHistory  == Shows
QuoteRedemption   == Shows
GetRewards        == Shows
GetCampaigns      == Shows

ShopRoutes ==
  [GetMe |-> GetMe, PatchMe |-> PatchMe, GetOverview |-> GetOverview,
   GetLoyaltySummary |-> GetLoyaltySummary, GetPreferences |-> GetPreferences,
   PutPreferences |-> PutPreferences, GetConsents |-> GetConsents,
   PatchConsents |-> PatchConsents, ExportAccount |-> ExportAccount,
   GetAddresses |-> GetAddresses, PostAddress |-> PostAddress, PatchAddress |-> PatchAddress,
   DeleteAddress |-> DeleteAddress, GetNotifications |-> GetNotifications,
   MarkRead |-> MarkRead, MarkAllRead |-> MarkAllRead, PostUpload |-> PostUpload,
   GetMediaUrl |-> GetMediaUrl, GetMessages |-> GetMessages, GetSettings |-> GetSettings,
   PutSetting |-> PutSetting, GetFlags |-> GetFlags, PutFlag |-> PutFlag,
   GetFamilies |-> GetFamilies, GetProducts |-> GetProducts, SearchSkus |-> SearchSkus,
   SuggestSkus |-> SuggestSkus, GetProduct |-> GetProduct, GetPackSizes |-> GetPackSizes,
   GetRelated |-> GetRelated, GetCart |-> GetCart, AddLine |-> AddLine,
   PatchLine |-> PatchLine, DeleteLine |-> DeleteLine, PutCoupon |-> PutCoupon,
   DeleteCoupon |-> DeleteCoupon, QuoteDelivery |-> QuoteDelivery, PlaceOrder |-> PlaceOrder,
   PostProof |-> PostProof, GetOrders |-> GetOrders, GetOrder |-> GetOrder,
   CancelOrder |-> CancelOrder, ConfirmReceipt |-> ConfirmReceipt,
   ReorderLines |-> ReorderLines, GetReceipt |-> GetReceipt,
   VerifyTransfer |-> VerifyTransfer, GetTracking |-> GetTracking,
   GetStreamToken |-> GetStreamToken, GetEligibility |-> GetEligibility,
   RequestReturn |-> RequestReturn, GetReturns |-> GetReturns, GetReturn |-> GetReturn,
   PutRefundIban |-> PutRefundIban, PostReview |-> PostReview, GetReviews |-> GetReviews,
   PatchReview |-> PatchReview, DeleteReview |-> DeleteReview, GetWishlist |-> GetWishlist,
   AddWish |-> AddWish, RemoveWish |-> RemoveWish, PutBackInStock |-> PutBackInStock,
   GetPoints |-> GetPoints, GetPointsHistory |-> GetPointsHistory,
   QuoteRedemption |-> QuoteRedemption, GetRewards |-> GetRewards,
   GetCampaigns |-> GetCampaigns]
=============================================================================
