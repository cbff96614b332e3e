---------------------------- MODULE DriverScreens ----------------------------
(* The driver app's pages, each as a row of Pages.  What becomes of an action   *)
(* without a signal is DriverQueue's subject; here sendOrQueue is one call.     *)
EXTENDS ScreenRows

\* app/task/[id]/page.tsx: call() catches its error, and the buttons that decline
\* a task or return it leave the page after it whatever came of it.
TaskCalls == [otp     |-> Does("busy", "own", "load"),
              accept  |-> Does("busy", "own", "load"),
              decline |-> [Does("busy", "own", "load") EXCEPT !.leaves = "always"],
              return  |-> [Does("busy", "own", "load") EXCEPT !.leaves = "always"]]
TaskCommits == [pod        |-> Does("busy", "own", "load"),
                transition |-> Does("busy", "own", "load")]
TaskOps == [o \in DOMAIN TaskCalls \union DOMAIN TaskCommits |->
              IF o \in DOMAIN TaskCalls THEN TaskCalls[o] ELSE TaskCommits[o]]
TaskView == [Beside EXCEPT !.retry = "first"]
Task == Row(Loads, TaskOps, TaskView)

\* app/task/[id]/handover and .../exception/page.tsx.
HandoverOps == [submit |-> [Does("busy", "on", "note") EXCEPT !.leaves = "success"]]
Handover == Row(Loads, HandoverOps, Beside)
ExceptionOps == [submit |-> [Does("busy", "on", "note") EXCEPT !.leaves = "success"]]
Exception == Row(LoadsNothing, ExceptionOps, [Beside EXCEPT !.forms = {"submit"}])

\* app/shift/page.tsx, its LoadOutForm, and the pack sizes of the product chosen there.
ShiftOps == [availability |-> Keeps(Does("availabilityBusy", "on", "patch"))]
Shift == Row(Loads, ShiftOps, Beside)
LoadOutOps == [start |-> Does("busy", "on", "note")]
LoadOut == Row(LoadsNothing, LoadOutOps, [Beside EXCEPT !.forms = {"start"}])
PackSizesLoad == [Loads EXCEPT !.keyed = TRUE, !.mute = TRUE]
PackSizes == Row(PackSizesLoad, NoOps, [Beside EXCEPT !.retry = "never"])

\* app/shift/close/page.tsx: reconcile, remit, close.
CloseShiftOps == [reconcile |-> Does("busy", "on", "load"),
                  remit     |-> Does("busy", "on", "load"),
                  close     |-> Does("busy", "on", "patch")]
CloseShift == Row(Loads, CloseShiftOps, Beside)

\* app/audits/[id]/page.tsx.
CountOps == [submit |-> Does("busy", "on", "note")]
Count == Row(LoadsNothing, CountOps, [Beside EXCEPT !.forms = {"submit"}])

\* app/manifest, app/map, app/van, app/kpis and app/audits/page.tsx.
Manifest == Row(Loads, NoOps, Beside)
RouteMap == Row(Loads, NoOps, [Beside EXCEPT !.retry = "always"])
Van      == Row(Loads, NoOps, InPlace)
Kpis     == Row(Loads, NoOps, Beside)
Audits   == Row(Loads, NoOps, InPlace)

DriverPages ==
  [task |-> Task, handover |-> Handover, exception |-> Exception, shift |-> Shift,
   loadOut |-> LoadOut, packSizes |-> PackSizes, closeShift |-> CloseShift, count |-> Count,
   manifest |-> Manifest, routeMap |-> RouteMap, van |-> Van, kpis |-> Kpis, audits |-> Audits]
=============================================================================
