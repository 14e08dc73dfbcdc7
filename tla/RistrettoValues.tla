-------------------------- MODULE RistrettoValues --------------------------
(***************************************************************************)
(* What `aptos_std::ristretto255` promises a Move program: a variable of   *)
(* type RistrettoPoint holds an element of the group, an operation sets    *)
(* ONE variable to the combination it documents and leaves every other as  *)
(* it was, a compressed point read back from storage is the point that was *)
(* saved, and a call aborts only in a session that has created as many     *)
(* points as it may.  Nothing is said of handles or of a store: module     *)
(* Ristretto implements this.                                              *)
(*                                                                         *)
(* The group is cyclic of prime order; the element k stands for k times    *)
(* the base point, so addition of points is addition modulo the order.     *)
(***************************************************************************)
EXTENDS Integers, SequencesExt

CONSTANTS Names,    \* the Move variables of a script
          Order,    \* the order of the group
          Limit,    \* points a session may create
          Unset      \* "holds no point", "no call"

ValuesAssumption == Order \in Nat \ {0} /\ Limit \in Nat

VARIABLES value,    \* the point each variable holds
          stored,   \* the compressed point in global storage
          created,  \* points created in this session
          status,   \* "running", "done" or "aborted"
          call      \* the last call, as its documentation describes it

valueVars == <<value, stored, created, status, call>>

Group == 0 .. (Order - 1)

(* base * B + the sum of coefficient * variable over the call's terms       *)
Combination(c, v) ==
    (c.base + SumFunction([i \in DOMAIN c.terms |-> c.terms[i][1] * v[c.terms[i][2]]]))
        % Order

Nothing == [n \in Names |-> Unset]

Init == value = Nothing /\ stored = Unset /\ created = 0
        /\ status = "done" /\ call = Unset

Start == /\ status # "running" /\ status' = "running"
         /\ value' = Nothing /\ created' = 0 /\ call' = Unset
         /\ UNCHANGED stored

Finish == /\ status = "running"
          /\ \/ status' = "done"
             \/ status' = "aborted" /\ created = Limit
          /\ value' = Nothing /\ call' = Unset
          /\ UNCHANGED <<stored, created>>

Running == status = "running" /\ status' = "running" /\ call' # Unset

Combine ==
    /\ Running /\ call'.op = "combine"
    /\ value' = [value EXCEPT ![call'.to] = Combination(call', value)]
    /\ created' = created + (IF call'.fresh THEN 1 ELSE 0)
    /\ created' <= Limit
    /\ UNCHANGED stored

Save == /\ Running /\ call'.op = "save"
        /\ stored' = value[call'.from] /\ stored' \in Group
        /\ UNCHANGED <<value, created>>

Load == /\ Running /\ call'.op = "load"
        /\ stored # Unset /\ value' = [value EXCEPT ![call'.to] = stored]
        /\ created' = created + 1 /\ created' <= Limit
        /\ UNCHANGED stored

Compare == /\ Running /\ call'.op = "equals"
           /\ call'.result = (value[call'.left] = value[call'.right])
           /\ UNCHANGED <<value, stored, created>>

Next == Start \/ Finish \/ Combine \/ Save \/ Load \/ Compare

Values == Init /\ [][Next]_valueVars
============================================================================
