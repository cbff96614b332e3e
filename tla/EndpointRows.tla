---------------------------- MODULE EndpointRows ----------------------------
(* The forms most handlers of services/api have.  A row is the sequence of a     *)
(* handler's statements; module Endpoints carries them out.                      *)
(*                                                                               *)
(*   begin, commit     the transaction of db.ts                                  *)
(*   ask, read         a select, in a transaction of its own or in this one      *)
(*   need, free        select, then throw ApiError unless the row is there, or   *)
(*                     unless its state allows the operation                     *)
(*   matched           throw ApiError unless the last statement found its row    *)
(*   exists, isopen,   the same three in a database function, which raises       *)
(*   must                                                                        *)
(*   take              select ... for update, with both checks                   *)
(*   keyed, again      the same, answering again what was done under this key;   *)
(*                     again reads it without a lock                             *)
(*   write, finish     update ... where id; finish ends the state that allowed it*)
(*   claim             update ... where the state allows it                      *)
(*   unique            insert under a unique constraint                          *)
(*   aim, swap         retire the current row and insert the next one            *)
(*   add, enter        insert a row of the request's own, or an upsert; enter    *)
(*                     ends the state that allowed it                            *)
(*   seekCart,         getOrCreateOpenCart                                       *)
(*   openCart                                                                    *)
(*   side              change another row on the way                             *)
(*   tell, tellMatch   an event in core.outbox; only if the last update matched  *)
(*   note              an entry of audit.audit_log                               *)
(*   call              a request to another service                              *)
(*   attempt           a transaction whose failure is only logged                *)
EXTENDS Sequences

Do(work) == <<"begin">> \o work \o <<"commit">>

\* A select and nothing else; one row, which must be there.
Shows    == <<"ask">>
ShowsOne == <<"ask", "matched">>
\* A change of one of the caller's rows, reported when there is none to change.
Updates  == Do(<<"write">>) \o <<"matched">>
\* A change that is answered the same whether or not there was a row.
UpdatesIfThere == Do(<<"write">>)
=============================================================================
