----------------------------- MODULE TableStore -----------------------------
(***************************************************************************)
(* What the Move tables of the Topo framework promise a program            *)
(* (aptos-stdlib/sources/table.move, table_with_length.move): a store of   *)
(* tables, on a copy of which a transaction works alone.  A commit makes   *)
(* the copy the store, an abort leaves the store as it was.  A new table   *)
(* is empty and nobody else's, and only an empty table can be destroyed.   *)
(***************************************************************************)
CONSTANTS Handles,      \* the names a table may have
          Keys, Vals,
          NoVal         \* what a key without an entry has

VARIABLES committed,    \* the store: [tables |-> those that exist, entry |-> their entries]
          view,         \* the running transaction's copy of it
          running,      \* is there a transaction?
          result        \* what its last call returned

vars == <<committed, view, running, result>>

Nothing == [tables |-> {}, entry |-> [e \in Handles \X Keys |-> NoVal]]

Init == /\ committed = Nothing
        /\ view = Nothing
        /\ running = FALSE
        /\ result = NoVal

Begin == /\ ~running
         /\ running' = TRUE
         /\ view' = committed
         /\ result' = NoVal
         /\ UNCHANGED committed

Within(call) == running /\ call /\ UNCHANGED <<committed, running>>

New(h) == /\ h \notin view.tables \cup committed.tables
          /\ \A k \in Keys : view.entry[<<h, k>>] = NoVal
          /\ view' = [view EXCEPT !.tables = view.tables \cup {h}]
          /\ result' = NoVal

Put(h, k, v) == view' = [view EXCEPT !.entry[<<h, k>>] = v]

Add(h, k, v) == /\ view.entry[<<h, k>>] = NoVal
                /\ Put(h, k, v)
                /\ result' = NoVal

Get(h, k) == /\ view.entry[<<h, k>>] # NoVal
             /\ result' = view.entry[<<h, k>>]
             /\ UNCHANGED view

Update(h, k, v) == /\ view.entry[<<h, k>>] # NoVal
                   /\ Put(h, k, v)
                   /\ result' = view.entry[<<h, k>>]

Contains(h, k) == /\ result' = (view.entry[<<h, k>>] # NoVal)
                  /\ UNCHANGED view

Remove(h, k) == /\ view.entry[<<h, k>>] # NoVal
                /\ Put(h, k, NoVal)
                /\ result' = view.entry[<<h, k>>]

DestroyEmpty(h) == /\ \A k \in Keys : view.entry[<<h, k>>] = NoVal
                   /\ view' = [view EXCEPT !.tables = view.tables \ {h}]
                   /\ result' = NoVal

Call == \/ \E h \in Handles : New(h)
        \/ \E h \in view.tables : \/ DestroyEmpty(h)
                                  \/ \E k \in Keys : Get(h, k) \/ Contains(h, k) \/ Remove(h, k)
                                  \/ \E k \in Keys, v \in Vals : Add(h, k, v) \/ Update(h, k, v)

\* A transaction ends: what it did is there for the next one, or it never happened.
End == /\ running
       /\ running' = FALSE
       /\ committed' \in {view, committed}
       /\ view' = committed'
       /\ result' = NoVal

Next == Begin \/ Within(Call) \/ End

Spec == Init /\ [][Next]_vars
=============================================================================
