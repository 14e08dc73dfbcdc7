------------------------------- MODULE Tables -------------------------------
(***************************************************************************)
(* The native table extension of a Move VM session                         *)
(* (table-natives/src/lib.rs).  The session reads storage through a        *)
(* resolver and keeps every entry it touched as a GlobalValue; the values' *)
(* effects become the change set of the transaction.  TableWithLength of   *)
(* aptos-stdlib stands for the program: it counts the entries of its table *)
(* and destroys only a table it counts as empty.                           *)
(*                                                                         *)
(* A table is known by a handle, the hash of the session's hash and of a   *)
(* counter.  Hashes are taken as injective, so the pair itself is the      *)
(* handle here.  Keys compare as their serialised bytes do (BCS is         *)
(* canonical).  An abort of a native aborts the transaction: the native is *)
(* not enabled, and Abort is.                                              *)
(***************************************************************************)
EXTENDS Naturals, FiniteSets

CONSTANTS Keys, Vals, NoVal,
          FixMemoryDoubleCounting,   \* the timed feature of that name
          MaxHash,                   \* bound: sessions, and their hashes
          MaxNew,                    \* bound: tables made by one transaction
          MaxHeap                    \* bound: how often a value is counted

ASSUME TablesAssumption ==
  /\ NoVal \notin Vals /\ NoVal \notin BOOLEAN
  /\ FixMemoryDoubleCounting \in BOOLEAN
  /\ MaxHash \in Nat /\ MaxNew \in Nat /\ MaxHeap \in Nat

VARIABLES
  store,            \* the entries in storage
  lengths,          \* the tables in storage, with the length each claims to have
  session_hash,     \* hash of the running session, 0 when there is none
  hashes,           \* the last hash given to a session
  new_tables, removed_tables,
  content,          \* the entries touched, as global values
  my_lengths,       \* the tables the transaction sees, with their lengths
  heap,             \* how often a stored value was counted as heap memory
  result            \* what the last call returned

table_context == <<session_hash, new_tables, removed_tables, content, my_lengths, heap>>
table_vars == <<store, lengths, hashes, table_context, result>>

Handles == (1 .. MaxHash) \X (0 .. MaxNew - 1)
Entries == Handles \X Keys

(* Global values.  A "None" was looked up and not found, a "Clean" value is as in storage. *)
Statuses == {"None", "Fresh", "Clean", "Dirty", "Deleted"}
GlobalValue == [status : Statuses, val : Vals \cup {NoVal}]
Gone == {"None", "Deleted"}

Cached(v) == [status |-> IF v = NoVal THEN "None" ELSE "Clean", val |-> v]

MoveTo(gv, v) ==
  [status |-> IF gv.status = "Deleted" THEN "Dirty" ELSE "Fresh", val |-> v]

MoveFrom(gv) ==
  [status |-> IF gv.status = "Fresh" THEN "None" ELSE "Deleted", val |-> NoVal]

WriteRef(gv, v) ==
  [status |-> IF gv.status = "Fresh" THEN "Fresh" ELSE "Dirty", val |-> v]

Exists(gv) == gv.status \notin Gone

\* Mutant: every use reads storage again.
ReadGlobalValue(e) == Cached(store[e])

\* The entry as the session has it, or read from storage on its first use.
GetOrCreateGlobalValue(e) == IF e \in DOMAIN content THEN content[e] ELSE Cached(store[e])

FirstUse(e) == e \notin DOMAIN content

Keep(e, gv) == content' = [x \in DOMAIN content \cup {e} |-> IF x = e THEN gv ELSE content[x]]

\* The memory a native reports for the value it found: for every call, or for the one that
\* loads it.
UseHeapMemory(e) ==
  LET found == Exists(GetOrCreateGlobalValue(e))
      counted == found /\ (FixMemoryDoubleCounting => FirstUse(e))
  IN  /\ counted => heap[e] < MaxHeap
      /\ heap' = IF counted THEN [heap EXCEPT ![e] = heap[e] + 1] ELSE heap

-----------------------------------------------------------------------------
TablesInit ==
  /\ store = [e \in Entries |-> NoVal]
  /\ lengths = << >>
  /\ hashes = 0
  /\ session_hash = 0
  /\ new_tables = {} /\ removed_tables = {}
  /\ content = << >>
  /\ my_lengths = << >>
  /\ heap = [e \in Entries |-> 0]
  /\ result = NoVal

\* NativeTableContext::new, for a transaction's first session.
Begin == /\ session_hash = 0
         /\ hashes < MaxHash
         /\ hashes' = hashes + 1
         /\ session_hash' = hashes + 1
         /\ new_tables' = {} /\ removed_tables' = {}
         /\ content' = << >>
         /\ my_lengths' = lengths
         /\ heap' = [e \in Entries |-> 0]
         /\ result' = NoVal
         /\ UNCHANGED <<store, lengths>>

\* SessionListener::start: the next session of the same transaction goes on with the data.
StartSession ==
  /\ session_hash # 0
  /\ hashes < MaxHash
  /\ hashes' = hashes + 1
  /\ session_hash' = hashes + 1
  /\ UNCHANGED <<store, lengths, new_tables, removed_tables, content, my_lengths, heap,
                 result>>

Session == session_hash # 0 /\ UNCHANGED <<store, lengths, hashes, session_hash>>

NewHandle == <<session_hash, Cardinality(new_tables)>>

NewTableHandle ==
  /\ Cardinality(new_tables) < MaxNew
  /\ NewHandle \notin new_tables
  /\ new_tables' = new_tables \cup {NewHandle}
  /\ my_lengths' = [h \in DOMAIN my_lengths \cup {NewHandle} |->
                      IF h = NewHandle THEN 0 ELSE my_lengths[h]]
  /\ result' = NoVal
  /\ UNCHANGED <<removed_tables, content, heap>>

AddBox(h, k, v) ==
  LET e == <<h, k>>  gv == GetOrCreateGlobalValue(e)
  IN  /\ ~Exists(gv)
      /\ Keep(e, MoveTo(gv, v))
      /\ UseHeapMemory(e)
      /\ my_lengths' = [my_lengths EXCEPT ![h] = my_lengths[h] + 1]
      /\ result' = NoVal
      /\ UNCHANGED <<new_tables, removed_tables>>

BorrowBox(h, k) ==
  LET e == <<h, k>>  gv == GetOrCreateGlobalValue(e)
  IN  /\ Exists(gv)
      /\ Keep(e, gv)
      /\ UseHeapMemory(e)
      /\ result' = gv.val
      /\ UNCHANGED <<new_tables, removed_tables, my_lengths>>

\* borrow_box_mut, and a write through the reference it returns.
BorrowBoxMut(h, k, v) ==
  LET e == <<h, k>>  gv == GetOrCreateGlobalValue(e)
  IN  /\ Exists(gv)
      /\ Keep(e, WriteRef(gv, v))
      /\ UseHeapMemory(e)
      /\ result' = gv.val
      /\ UNCHANGED <<new_tables, removed_tables, my_lengths>>

ContainsBox(h, k) ==
  LET e == <<h, k>>  gv == GetOrCreateGlobalValue(e)
  IN  /\ Keep(e, gv)
      /\ UseHeapMemory(e)
      /\ result' = Exists(gv)
      /\ UNCHANGED <<new_tables, removed_tables, my_lengths>>

RemoveBox(h, k) ==
  LET e == <<h, k>>  gv == GetOrCreateGlobalValue(e)
  IN  /\ Exists(gv)
      /\ Keep(e, MoveFrom(gv))
      /\ UseHeapMemory(e)
      /\ my_lengths[h] > 0
      /\ my_lengths' = [my_lengths EXCEPT ![h] = my_lengths[h] - 1]
      /\ result' = gv.val
      /\ UNCHANGED <<new_tables, removed_tables>>

\* TableWithLength::destroy_empty, with the native's own assertion.
DestroyEmptyBox(h) ==
  /\ my_lengths[h] = 0
  /\ h \notin removed_tables
  /\ removed_tables' = removed_tables \cup {h}
  /\ my_lengths' = [t \in DOMAIN my_lengths \ {h} |-> my_lengths[t]]
  /\ result' = NoVal
  /\ UNCHANGED <<new_tables, content, heap>>

(* The change set: an operation for each entry whose global value has an effect. *)
IntoEffect(gv) ==
  CASE gv.status = "Fresh"   -> [op |-> "New", val |-> gv.val]
    [] gv.status = "Dirty"   -> [op |-> "Modify", val |-> gv.val]
    [] gv.status = "Deleted" -> [op |-> "Delete", val |-> NoVal]

Changes == LET changed == {e \in DOMAIN content : content[e].status \notin {"None", "Clean"}}
           IN  [e \in changed |-> IntoEffect(content[e])]

Reset == /\ session_hash' = 0
         /\ new_tables' = {} /\ removed_tables' = {}
         /\ content' = << >>
         /\ heap' = [e \in Entries |-> 0]
         /\ result' = NoVal
         /\ UNCHANGED hashes

\* NativeTableContext::into_change_set, and the transaction's outputs written to storage.
IntoChangeSet ==
  /\ session_hash # 0
  /\ store' = [e \in Entries |-> IF e \in DOMAIN Changes THEN Changes[e].val ELSE store[e]]
  /\ lengths' = my_lengths
  /\ UNCHANGED my_lengths
  /\ Reset

\* The transaction aborts, for any reason: its context is dropped.
Abort == /\ session_hash # 0
         /\ my_lengths' = lengths
         /\ Reset
         /\ UNCHANGED <<store, lengths>>

OnTable(h) ==
  \/ DestroyEmptyBox(h)
  \/ \E k \in Keys : BorrowBox(h, k) \/ ContainsBox(h, k) \/ RemoveBox(h, k)
  \/ \E k \in Keys, v \in Vals : AddBox(h, k, v) \/ BorrowBoxMut(h, k, v)

TablesNext ==
  \/ Begin \/ StartSession \/ IntoChangeSet \/ Abort
  \/ Session /\ (NewTableHandle \/ \E h \in DOMAIN my_lengths : OnTable(h))

TablesSpec == TablesInit /\ [][TablesNext]_table_vars

-----------------------------------------------------------------------------
(* Properties *)

TablesTypeOK ==
  /\ store \in [Entries -> Vals \cup {NoVal}]
  /\ DOMAIN lengths \subseteq Handles /\ \A h \in DOMAIN lengths : lengths[h] \in Nat
  /\ DOMAIN my_lengths \subseteq Handles /\ \A h \in DOMAIN my_lengths : my_lengths[h] \in Nat
  /\ hashes \in 0 .. MaxHash /\ session_hash \in 0 .. hashes
  /\ new_tables \subseteq Handles /\ removed_tables \subseteq Handles
  /\ DOMAIN content \subseteq Entries /\ \A e \in DOMAIN content : content[e] \in GlobalValue
  /\ heap \in [Entries -> 0 .. MaxHeap]
  /\ result \in Vals \cup BOOLEAN \cup {NoVal}

\* Every operation of the change set fits what storage has (lib.rs:155-180): New an absent
\* entry, Modify and Delete a present one, whatever was added, removed and added again in the
\* session; storage refuses, or charges for, anything else.
OpsFitStorage ==
  \A e \in DOMAIN Changes : (Changes[e].op = "New") <=> (store[e] = NoVal)

\* A value read from storage and not written is still what storage has, so no entry is
\* written back that was only read.
CleanIsAsStored ==
  \A e \in DOMAIN content : content[e].status = "Clean" => content[e].val = store[e]

\* No entry outlives its table: a table counted as empty has no entries, and an entry in
\* storage belongs to a table that exists (table_with_length.move:31).
NoOrphans == \A e \in Entries : store[e] # NoVal => e[1] \in DOMAIN lengths

\* With the fix, a value loaded from storage is counted as heap memory at most once in a
\* transaction, however often it is used (lib.rs:385).
HeapIsCountedOnce == FixMemoryDoubleCounting => \A e \in Entries : heap[e] <= 1

(* The extension implements the store of tables. *)
Seen(e) == GetOrCreateGlobalValue(e).val
Committed == [tables |-> DOMAIN lengths, entry |-> store]
View == [tables |-> DOMAIN my_lengths, entry |-> [e \in Entries |-> Seen(e)]]

Promise == INSTANCE TableStore WITH
  committed <- Committed, view <- View, running <- session_hash # 0

\* A program sees its own writes over what is committed, all of them or none are committed,
\* and handles name new, empty tables.
TableStoreInit == Promise!Init
TableStoreStep == [Promise!Next]_(Promise!vars)
TableStoreSpec == TableStoreInit /\ [][TableStoreStep]_table_vars

\* A transaction sees its own writes to tables over what is committed, all of them or none are
\* committed, an entry's operation fits what storage has of it, no entry outlives its table, and what
\* is loaded is charged once (table-natives/src/lib.rs).
TablesAreTransactional ==
  /\ TableStoreSpec
  /\ [](TablesTypeOK /\ OpsFitStorage /\ CleanIsAsStored /\ NoOrphans /\ HeapIsCountedOnce)
=============================================================================
