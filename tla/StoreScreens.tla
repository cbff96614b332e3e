---------------------------- MODULE StoreScreens ----------------------------
(* The storefront's pages and the components on them that keep state, each as  *)
(* a row of Pages: how it loads, what its handlers do, and what it renders.     *)
EXTENDS ScreenRows

\* app/cart/page.tsx: the lines share one slot that holds a line's id.
CartLoad == [Loads EXCEPT !.hush = "answered"]
CartLineOps == [qty    |-> Keeps(Does("lineBusy", "line", "await")),
                remove |-> Keeps(Does("lineBusy", "line", "await"))]
CartCouponOps == [apply    |-> OwnError(Does("couponBusy", "on", "await")),
                  unapply  |-> Keeps(Does("couponBusy", "on", "await"))]
CartView == [Beside EXCEPT !.rows = {"qty", "remove"}]
CartOps == [o \in DOMAIN CartLineOps \union DOMAIN CartCouponOps |->
              IF o \in DOMAIN CartLineOps THEN CartLineOps[o] ELSE CartCouponOps[o]]
Cart == Row(CartLoad, CartOps, CartView)

\* app/account/page.tsx.
AccountOps == [profile   |-> Does("busy", "on", "patch"),
               marketing |-> [Does("none", "no", "replace") EXCEPT !.paints = "item"]]
AccountView == [Beside EXCEPT !.bare = {"marketing"}]
Account == Row(Loads, AccountOps, AccountView)

\* app/account/preferences/page.tsx: a switch that fails puts back the list its
\* handler closed over.
PreferencesToggle == [toggle |-> [Keeps(Does("none", "no", "replace")) EXCEPT !.paints = "list"]]
PreferencesDataOps == [withdraw |-> Keeps(Does("busy", "on", "load")),
                       export   |-> Keeps(Does("busy", "on", "note")),
                       delete   |-> Keeps(Does("busy", "on", "note"))]
PreferencesOps == [o \in {"toggle", "withdraw", "export", "delete"} |->
                     IF o = "toggle" THEN PreferencesToggle[o] ELSE PreferencesDataOps[o]]
PreferencesView == [Beside EXCEPT !.rows = {"toggle"}, !.bare = {"toggle"}]
Preferences == Row(Loads, PreferencesOps, PreferencesView)

\* app/orders/[id]/page.tsx: cancel and confirm-receipt change the status in place.
OrderOps == [cancel  |-> Does("busy", "on", "patch"),
             confirm |-> Does("busy", "on", "patch"),
             proof   |-> Does("busy", "on", "note")]
OrderView == [Beside EXCEPT !.retry = "first"]
Order == Row(Loads, OrderOps, OrderView)

\* app/orders/page.tsx.
OrdersLoad == [Loads EXCEPT !.blanks = "load"]
Orders == Row(OrdersLoad, NoOps, InPlace)

\* app/orders/[id]/tracking/page.tsx: polls, and a ref keeps the polls apart.
TrackingLoad == [Loads EXCEPT !.single = TRUE, !.polls = TRUE, !.hush = "answered"]
Tracking == Row(TrackingLoad, NoOps, [Beside EXCEPT !.retry = "always"])

\* app/returns/page.tsx, and its RefundIban, one of which each approved return has.
ReturnsOps == [submit |-> OwnError(Does("busy", "on", "load"))]
Returns == Row(Loads, ReturnsOps, Beside)
RefundIban == Row(LoadsNothing, [save |-> Does("busy", "on", "note")], [Beside EXCEPT !.forms = {"save"}])

\* app/wishlist/page.tsx: a switch that fails flips itself back.
WishlistOps == [remove |-> Keeps(Does("busy", "line", "patch")),
                optin  |-> [Keeps(Does("none", "no", "note")) EXCEPT !.paints = "item"]]
WishlistView == [Beside EXCEPT !.rows = {"remove", "optin"}, !.bare = {"optin"}]
Wishlist == Row(Loads, WishlistOps, WishlistView)

\* app/notifications/page.tsx, one page of the list at a time.
NotificationsLoad == [Loads EXCEPT !.keyed = TRUE, !.blanks = "choice"]
NotificationsOps == [readAll |-> Keeps(Does("busy", "on", "patch")),
                     read    |-> Keeps(Does("none", "no", "patch"))]
NotificationsView == [InPlace EXCEPT !.bare = {"read"}]
Notifications == Row(NotificationsLoad, NotificationsOps, NotificationsView)

\* components/ProductReviews.tsx.
ReviewsOps == [submit |-> OwnError(Does("busy", "on", "note"))]
Reviews == Row(Loads, ReviewsOps, [InPlace EXCEPT !.forms = {"submit"}])

\* components/AddToCartButton.tsx: once added, the button stays closed.
AddToCart == Row(LoadsNothing,
                 [add |-> [Does("state", "on", "note") EXCEPT !.frees = "failure"]],
                 [Beside EXCEPT !.forms = {"add"}])

\* components/SearchBox.tsx: the effect's cleanup aborts the request before the last.
SuggestionsLoad == [Loads EXCEPT !.keyed = TRUE, !.drops = TRUE, !.mute = TRUE]
Suggestions == Row(SuggestionsLoad, NoOps, [Beside EXCEPT !.retry = "never"])

\* components/HeaderBell.tsx and components/CampaignBanner.tsx.
BellLoad == [Loads EXCEPT !.polls = TRUE, !.mute = TRUE]
Bell     == Row(BellLoad, NoOps, [Beside EXCEPT !.retry = "never"])
Campaign == Row([Loads EXCEPT !.mute = TRUE], NoOps, [Beside EXCEPT !.retry = "never"])

\* app/register, app/reset-password and app/verify-email/page.tsx.
Register == Row(LoadsNothing, [submit |-> Does("busy", "on", "note")], [Beside EXCEPT !.forms = {"submit"}])
ResetOps == [request |-> Does("busy", "on", "note"), confirm |-> Does("busy", "on", "note")]
Reset == Row(LoadsNothing, ResetOps, [Beside EXCEPT !.forms = {"request", "confirm"}])
VerifyEmail == Row(Loads, NoOps, [Beside EXCEPT !.retry = "never"])

StorePages ==
  [cart |-> Cart, account |-> Account, preferences |-> Preferences, order |-> Order,
   orders |-> Orders, tracking |-> Tracking, returns |-> Returns, refundIban |-> RefundIban,
   wishlist |-> Wishlist, notifications |-> Notifications, reviews |-> Reviews,
   addToCart |-> AddToCart, suggestions |-> Suggestions, bell |-> Bell, campaign |-> Campaign,
   register |-> Register, reset |-> Reset, verifyEmail |-> VerifyEmail]
=============================================================================
