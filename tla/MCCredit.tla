------------------------------- MODULE MCCredit -------------------------------
(* Two calls with one key and a third with its own, against a limit of one    *)
(* or two orders.                                                             *)
EXTENDS Credit, TLC

CONSTANTS c1, c2, c3, o1, o2, d1, d2
MCCalls  == {c1, c2, c3}
MCOrders == {o1, o2}
MCKeyOf  == (c1 :> o1) @@ (c2 :> o1) @@ (c3 :> o2)
MCDesks  == {d1, d2}
MCLimits == {2, 4}
\* What places orders and moves the limit, what settles one invoice, and what
\* revives an invoice beside a placement.
MCScenarios == {{c1, c2, c3, "limit", "cancel", "dispatch"},
                {c1, "pay", "write off", "sweep"},
                {c1, c2, c3, "dispatch", "write off", "sweep"}}
=============================================================================
