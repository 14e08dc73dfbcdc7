--------------------------- MODULE SessionsProofs ---------------------------
(***************************************************************************)
(* Proofs about the extensions of a session.                               *)
(*                                                                         *)
(* SessionContexts: nothing that Move code draws is drawn twice, although  *)
(* every counter starts again, because time, the index of the transaction  *)
(* and the session grow in lexicographic order and each draw names its     *)
(* place in it.                                                            *)
(*                                                                         *)
(* Tables: the sessions implement the store of tables.  What the session   *)
(* has of an entry fits what storage has of it, and the length of a table  *)
(* is the number of its entries; with both, each call is one of the store, *)
(* and the change set makes storage what the transaction saw.              *)
(***************************************************************************)
EXTENDS SessionContexts, Tables, FiniteSetTheorems, WellFoundedInduction, TLAPS

-----------------------------------------------------------------------------
(* The layout of the counter *)

\* A number with a greater leading part is greater, whatever the last digits are.
LEMMA LeadingDigits ==
  ASSUME NEW R \in Nat, NEW a \in Nat, NEW b \in Nat, a < b, NEW c \in 0 .. R, NEW d \in Nat
  PROVE  a * (R + 1) + c < b * (R + 1) + d
<1>1. \A k, m \in Nat : k * m \in Nat
  OBVIOUS
<1>2. \A k, m \in Nat : (a + 1 + k) * m = a * m + m + k * m
  OBVIOUS
<1> DEFINE k == b - a - 1
           m == R + 1
<1>3. k \in Nat /\ m \in Nat /\ b = a + 1 + k /\ c < m
  OBVIOUS
<1>4. b * m = a * m + m + k * m /\ a * m \in Nat /\ k * m \in Nat /\ b * m \in Nat
  BY <1>1, <1>2, <1>3
<1> HIDE DEF k, m
<1>5. a * m + c < b * m + d
  BY <1>3, <1>4
<1> QED BY <1>5 DEF m

LEMMA LayoutNat ==
  ASSUME NEW r \in Nat, NEW t \in Nat, NEW i \in Nat, NEW n \in Nat, NEW l \in Nat
  PROVE  Layout(r, t, i, n, l) \in Nat
<1>1. \A k, m, d \in Nat : k * (m + 1) + d \in Nat
  OBVIOUS
<1> DEFINE A == r * (TimeMax + 1) + t
           B == A * (IndexMax + 1) + i
           C == B * (SessionMax + 1) + n
<1>2. TimeMax \in Nat /\ IndexMax \in Nat /\ SessionMax \in Nat /\ LocalMax \in Nat
  BY SessionContextsAssumption
<1>3. A \in Nat
  BY <1>1, <1>2
<1>4. B \in Nat
  <2> HIDE DEF A
  <2> QED BY <1>1, <1>2, <1>3
<1>5. C \in Nat
  <2> HIDE DEF B
  <2> QED BY <1>1, <1>2, <1>4
<1>6. C * (LocalMax + 1) + l \in Nat
  <2> HIDE DEF C
  <2> QED BY <1>1, <1>2, <1>5
<1> QED BY <1>6 DEF Layout

\* A later time, transaction, session or call, in this order, has a greater counter.
Later(r, t, i, n, l, q, u, j, m, k) ==
  \/ r < q
  \/ r = q /\ t < u
  \/ r = q /\ t = u /\ i < j
  \/ r = q /\ t = u /\ i = j /\ n < m
  \/ r = q /\ t = u /\ i = j /\ n = m /\ l < k

LEMMA LayoutGrows ==
  ASSUME NEW r \in Nat, NEW t \in 0 .. TimeMax, NEW i \in 0 .. IndexMax,
         NEW n \in 0 .. SessionMax, NEW l \in 0 .. LocalMax,
         NEW q \in Nat, NEW u \in Nat, NEW j \in Nat, NEW m \in Nat, NEW k \in Nat,
         Later(r, t, i, n, l, q, u, j, m, k)
  PROVE  Layout(r, t, i, n, l) < Layout(q, u, j, m, k)
<1>1. \A x, y, d \in Nat : x * (y + 1) + d \in Nat
  OBVIOUS
<1> DEFINE A == r * (TimeMax + 1) + t
           B == A * (IndexMax + 1) + i
           C == B * (SessionMax + 1) + n
           D == q * (TimeMax + 1) + u
           E == D * (IndexMax + 1) + j
           F == E * (SessionMax + 1) + m
<1>2. /\ TimeMax \in Nat /\ IndexMax \in Nat /\ SessionMax \in Nat /\ LocalMax \in Nat
      /\ t \in Nat /\ i \in Nat /\ n \in Nat /\ l \in Nat
  BY SessionContextsAssumption
<1>3. A \in Nat /\ D \in Nat
  BY <1>1, <1>2
<1>4. /\ r < q \/ (r = q /\ t < u) => A < D
      /\ r = q /\ t = u => A = D
  <2>1. CASE r < q
    BY <1>2, <2>1, LeadingDigits
  <2>2. CASE r = q
    <3>1. r * (TimeMax + 1) = q * (TimeMax + 1)
      BY <2>2
    <3>2. r * (TimeMax + 1) \in Nat
      BY <1>1, <1>2
    <3> DEFINE z == r * (TimeMax + 1)
    <3>3. z \in Nat /\ A = z + t /\ D = z + u
      BY <3>1, <3>2
    <3> HIDE DEF z, A, D
    <3> QED BY <1>2, <2>2, <3>3
  <2> QED BY <2>1, <2>2
<1> HIDE DEF A, D
<1>5. B \in Nat /\ E \in Nat
  BY <1>1, <1>2, <1>3
<1>6. /\ A < D \/ (A = D /\ i < j) => B < E
      /\ A = D /\ i = j => B = E
  <2>1. CASE A < D
    BY <1>2, <1>3, <2>1, LeadingDigits
  <2>2. CASE A = D
    <3> DEFINE z == A * (IndexMax + 1)
    <3>1. z \in Nat /\ B = z + i /\ E = z + j
      BY <1>1, <1>2, <1>3, <2>2
    <3> HIDE DEF z, B, E
    <3> QED BY <1>2, <1>3, <2>2, <3>1
  <2> QED BY <2>1, <2>2
<1> HIDE DEF B, E
<1>7. C \in Nat /\ F \in Nat
  BY <1>1, <1>2, <1>5
<1>8. /\ B < E \/ (B = E /\ n < m) => C < F
      /\ B = E /\ n = m => C = F
  <2>1. CASE B < E
    BY <1>2, <1>5, <2>1, LeadingDigits
  <2>2. CASE B = E
    <3> DEFINE z == B * (SessionMax + 1)
    <3>1. z \in Nat /\ C = z + n /\ F = z + m
      BY <1>1, <1>2, <1>5, <2>2
    <3> HIDE DEF z, C, F
    <3> QED BY <1>2, <1>5, <2>2, <3>1
  <2> QED BY <2>1, <2>2
<1> HIDE DEF C, F
<1>9. C < F \/ (C = F /\ l < k) => C * (LocalMax + 1) + l < F * (LocalMax + 1) + k
  <2>1. CASE C < F
    BY <1>2, <1>7, <2>1, LeadingDigits
  <2>2. CASE C = F /\ l < k
    <3> DEFINE z == C * (LocalMax + 1)
    <3>1. z \in Nat /\ z = F * (LocalMax + 1)
      BY <1>1, <1>2, <1>7, <2>2
    <3>2. z + l < z + k
      <4> HIDE DEF z
      <4> QED BY <1>2, <2>2, <3>1
    <3> QED BY <3>1, <3>2
  <2> QED BY <2>1, <2>2
<1>10. C < F \/ (C = F /\ l < k)
  BY <1>4, <1>6, <1>8 DEF Later
<1>11. C * (LocalMax + 1) + l < F * (LocalMax + 1) + k
  BY <1>9, <1>10
<1> QED BY <1>11 DEF Layout, A, B, C, D, E, F

-----------------------------------------------------------------------------
(* The counter of random blobs *)

States == [1 .. StateBytes -> 0 .. ByteMax]

\* The order of the numbers that the bytes, little endian, stand for.
Smaller(a, b) ==
  \E i \in 1 .. StateBytes : a[i] < b[i] /\ \A j \in 1 .. StateBytes : i < j => a[j] = b[j]

\* Numbers below a bound have a least one: of the intervals up to each, one has none below it.
LEMMA LeastNumber ==
  ASSUME NEW N \in Nat, NEW T, T \subseteq 1 .. N, T # {}
  PROVE  \E x \in T : \A y \in T : x <= y
<1> DEFINE B == {1 .. x : x \in T}
<1>1. IsFiniteSet(1 .. N)
  BY FS_Interval
<1>2. IsWellFoundedOn(StrictSubsetOrdering(1 .. N), FiniteSubsetsOf(1 .. N))
  BY <1>1, FS_StrictSubsetOrderingWellFounded
<1>3. \A x \in T : 1 .. x \subseteq 1 .. N /\ IsFiniteSet(1 .. x)
  BY FS_Interval
<1>4. B \subseteq FiniteSubsetsOf(1 .. N) /\ B # {}
  BY <1>3 DEF FiniteSubsetsOf
<1>5. PICK U \in B : \A V \in B : ~(<<V, U>> \in StrictSubsetOrdering(1 .. N))
  BY <1>2, <1>4, WFMin
<1>6. PICK x \in T : U = 1 .. x
  BY <1>5
<1>7. ASSUME NEW y \in T, y < x
      PROVE  FALSE
  <2>1. 1 .. y \subseteq U /\ x \in U /\ x \notin 1 .. y /\ 1 .. y \subseteq 1 .. N /\ U \subseteq 1 .. N
    BY <1>6, <1>7
  <2>2. <<1 .. y, U>> \in StrictSubsetOrdering(1 .. N)
    BY <2>1 DEF StrictSubsetOrdering
  <2> QED BY <1>5, <2>2
<1> QED BY <1>7

LEMMA IncrementGrows ==
  ASSUME NEW s \in States, NEW f \in 1 .. StateBytes, s[f] < ByteMax
  PROVE  Increment(s) \in States /\ Smaller(s, Increment(s))
<1> DEFINE free == {i \in DOMAIN s : s[i] < ByteMax}
           first == CHOOSE i \in free : \A j \in free : i <= j
<1>1. DOMAIN s = 1 .. StateBytes /\ ByteMax \in Nat /\ StateBytes \in Nat
  BY SessionContextsAssumption DEF States
<1>2. free # {} /\ free \subseteq 1 .. StateBytes
  BY <1>1
<1>3. first \in free /\ \A j \in free : first <= j
  <2>1. \E i \in free : \A j \in free : i <= j
    <3> HIDE DEF free
    <3> QED BY <1>1, <1>2, LeastNumber
  <2> QED BY <2>1
<1>4. Increment(s) = [i \in 1 .. StateBytes |->
                        IF i < first THEN 0 ELSE IF i = first THEN s[i] + 1 ELSE s[i]]
  BY <1>1, <1>2 DEF Increment
<1>5. first \in 1 .. StateBytes /\ s[first] < ByteMax
  BY <1>1, <1>3
<1> HIDE DEF first, free
<1>6. Increment(s) \in States
  <2>1. \A i \in 1 .. StateBytes : s[i] \in 0 .. ByteMax
    BY DEF States
  <2> QED BY <1>1, <1>4, <1>5, <2>1 DEF States
<1>7. Smaller(s, Increment(s))
  <2>1. s[first] \in 0 .. ByteMax
    BY <1>5 DEF States
  <2>2. s[first] < Increment(s)[first]
    BY <1>4, <1>5, <2>1
  <2>3. \A j \in 1 .. StateBytes : first < j => s[j] = Increment(s)[j]
    BY <1>1, <1>4, <1>5
  <2> QED BY <1>5, <2>2, <2>3 DEF Smaller
<1> QED BY <1>6, <1>7

LEMMA SmallerTransitive ==
  ASSUME NEW a \in States, NEW b \in States, NEW c \in States, Smaller(a, b), Smaller(b, c)
  PROVE  Smaller(a, c)
<1>1. PICK i \in 1 .. StateBytes : a[i] < b[i] /\ \A j \in 1 .. StateBytes : i < j => a[j] = b[j]
  BY DEF Smaller
<1>2. PICK k \in 1 .. StateBytes : b[k] < c[k] /\ \A j \in 1 .. StateBytes : k < j => b[j] = c[j]
  BY DEF Smaller
<1>3. \A j \in 1 .. StateBytes : a[j] \in Nat /\ b[j] \in Nat /\ c[j] \in Nat
  <2>1. 0 .. ByteMax \subseteq Nat
    BY SessionContextsAssumption
  <2> QED BY <2>1 DEF States
<1>4. StateBytes \in Nat
  BY SessionContextsAssumption
<1>5. CASE i < k
  <2>1. a[k] < c[k]
    BY <1>1, <1>2, <1>3, <1>5
  <2>2. \A j \in 1 .. StateBytes : k < j => a[j] = c[j]
    BY <1>1, <1>2, <1>4, <1>5
  <2> QED BY <2>1, <2>2 DEF Smaller
<1>6. CASE k < i
  <2>1. a[i] < c[i]
    BY <1>1, <1>2, <1>3, <1>6
  <2>2. \A j \in 1 .. StateBytes : i < j => a[j] = c[j]
    BY <1>1, <1>2, <1>4, <1>6
  <2> QED BY <2>1, <2>2 DEF Smaller
<1>7. CASE k = i
  <2>1. a[i] < c[i]
    BY <1>1, <1>2, <1>3, <1>7
  <2>2. \A j \in 1 .. StateBytes : i < j => a[j] = c[j]
    BY <1>1, <1>2, <1>7
  <2> QED BY <2>1, <2>2 DEF Smaller
<1> QED BY <1>4, <1>5, <1>6, <1>7

LEMMA SmallerIrreflexive == ASSUME NEW a \in States PROVE ~Smaller(a, a)
<1>1. \A j \in 1 .. StateBytes : a[j] \in Nat
  BY SessionContextsAssumption DEF States
<1> QED BY <1>1 DEF Smaller

-----------------------------------------------------------------------------
(* The inductive invariant *)

Zeros == [i \in 1 .. StateBytes |-> 0]

Transaction ==
  [kind : {"None", "user", "validators", "simulated"}, index : 0 .. IndexMax, annotated : BOOLEAN]

Users == [kind : {"user", "simulated"}, sender : Nat, index : Nat]

\* The running transaction, its session, and what the contexts know of them.
ContextsOK ==
  /\ now \in 1 .. TimeMax /\ seed \in {NoSeed, now}
  /\ txn \in Transaction /\ session \in 0 .. SessionMax
  /\ context = [session_hash |-> context.session_hash, auid_counter |-> context.auid_counter,
                local_counter |-> context.local_counter,
                session_counter |-> context.session_counter, user |-> context.user]
  /\ context.auid_counter \in Nat /\ context.local_counter \in 0 .. LocalMax
  /\ context.session_counter = session
  /\ randomness = [txn_local_state |-> randomness.txn_local_state,
                   unbiasable |-> randomness.unbiasable]
  /\ randomness.txn_local_state \in States /\ randomness.unbiasable \in BOOLEAN
  /\ txn.kind # "None" => context.session_hash = Hash(<<now, txn.index>>, session)
  /\ txn.kind = "None" => txn.index = 0 /\ ~txn.annotated
  /\ ContextIsTheTransactions

\* The mark is that of the session.
MarkOK == randomness.unbiasable => txn.annotated /\ session = 1

\* The latest counter lies at or below the place the chain has reached.
IssuedBelow ==
  /\ issued \in [last : Nat, increasing : {TRUE}]
  /\ issued.last <= Layout(0, now, txn.index, session, context.local_counter)

Precedes(n, i, s) == n < now \/ (n = now /\ i < txn.index) \/ (n = now /\ i = txn.index /\ s < session)
Here(n, i, s) == n = now /\ i = txn.index /\ s = session

\* Every address given comes from an earlier session, or from an earlier call of this one.
AddressesBefore ==
  /\ ~auids.repeated
  /\ \A x \in auids.given : \E n, i, s, c \in Nat :
       /\ x = <<Hash(<<n, i>>, s), c>>
       /\ Precedes(n, i, s) \/ (Here(n, i, s) /\ c <= context.auid_counter)

\* Every blob was drawn in an earlier session, or with a smaller counter in this one.
BlobsBefore ==
  /\ ~draws.repeated /\ marked
  /\ \A x \in draws.given : \E n, i, s, d \in Nat, b \in States :
       /\ x = <<d, Hash(<<n, i>>, s), b>>
       /\ Precedes(n, i, s) \/ (Here(n, i, s) /\ Smaller(b, randomness.txn_local_state))

DrawsInv == ContextsOK /\ MarkOK /\ IssuedBelow /\ AddressesBefore /\ BlobsBefore

\* The widths, as numbers.
LEMMA Widths ==
  /\ TimeMax \in Nat /\ IndexMax \in Nat /\ SessionMax \in Nat /\ LocalMax \in Nat
  /\ StateBytes \in Nat /\ ByteMax \in Nat /\ MaxCalls \in Nat /\ TimeMax > 0
  BY SessionContextsAssumption

LEMMA ZerosOK == Zeros \in States
  BY Widths DEF Zeros, States

LEMMA InitDrawsInv == DrawsInit => DrawsInv
<1> SUFFICES ASSUME DrawsInit PROVE DrawsInv
  OBVIOUS
<1> USE DEF DrawsInit, Idle
<1>1. ContextsOK
  <2>1. txn \in Transaction
    BY Widths DEF Transaction
  <2>2. randomness.txn_local_state \in States /\ randomness.unbiasable \in BOOLEAN
    BY ZerosOK DEF Zeros
  <2>3. ContextIsTheTransactions
    BY DEF ContextIsTheTransactions, UserTransactionContext
  <2> QED BY <2>1, <2>2, <2>3, Widths DEF ContextsOK
<1>2. IssuedBelow
  <2>1. Layout(0, now, txn.index, session, context.local_counter) \in Nat
    BY LayoutNat
  <2> QED BY <2>1 DEF IssuedBelow
<1> QED BY <1>1, <1>2 DEF DrawsInv, MarkOK, AddressesBefore, BlobsBefore

-----------------------------------------------------------------------------
(* A step to a later place *)

Advanced ==
  \/ now < now'
  \/ now' = now /\ txn.index < txn'.index
  \/ now' = now /\ txn'.index = txn.index /\ session < session'

LEMMA AdvanceKeeps ==
  ASSUME DrawsInv, now' \in Nat, txn'.index \in Nat, session' \in Nat,
         context'.local_counter \in Nat, Advanced, UNCHANGED <<issued, auids, draws, marked>>
  PROVE  IssuedBelow' /\ AddressesBefore' /\ BlobsBefore'
<1> USE DEF DrawsInv
<1>1. now \in 0 .. TimeMax /\ txn.index \in 0 .. IndexMax /\ session \in 0 .. SessionMax
      /\ context.local_counter \in 0 .. LocalMax
  BY Widths DEF ContextsOK, Transaction
<1>2. now \in Nat /\ txn.index \in Nat /\ session \in Nat
  BY <1>1, Widths
<1>3. \A n, i, s \in Nat : Precedes(n, i, s) \/ Here(n, i, s) => Precedes(n, i, s)'
  BY <1>2 DEF Advanced, Precedes, Here
<1>4. IssuedBelow'
  <2> DEFINE old == Layout(0, now, txn.index, session, context.local_counter)
             new == Layout(0, now', txn'.index, session', context'.local_counter)
  <2>1. Later(0, now, txn.index, session, context.local_counter,
              0, now', txn'.index, session', context'.local_counter)
    BY DEF Advanced, Later
  <2>2. old < new
    BY <1>1, <2>1, LayoutGrows
  <2>3. context.local_counter \in Nat
    BY <1>1, Widths
  <2>4. old \in Nat /\ new \in Nat
    BY <1>2, <2>3, LayoutNat
  <2>5. issued \in [last : Nat, increasing : {TRUE}] /\ issued.last <= old
    BY DEF IssuedBelow
  <2> HIDE DEF old, new
  <2>6. issued'.last <= new
    BY <2>2, <2>4, <2>5
  <2> QED BY <2>5, <2>6 DEF new, IssuedBelow
<1>5. AddressesBefore'
  BY <1>3 DEF AddressesBefore
<1>6. BlobsBefore'
  <2>1. ~draws'.repeated /\ marked' /\ draws'.given = draws.given
    BY DEF BlobsBefore
  <2>2. ASSUME NEW x \in draws.given
        PROVE  \E n, i, s, d \in Nat, b \in States :
                 x = <<d, Hash(<<n, i>>, s), b>> /\ Precedes(n, i, s)'
    <3>1. PICK n \in Nat, i \in Nat, s \in Nat, d \in Nat, b \in States :
            x = <<d, Hash(<<n, i>>, s), b>> /\ (Precedes(n, i, s) \/ Here(n, i, s))
      BY <2>2 DEF BlobsBefore
    <3>2. Precedes(n, i, s)'
      BY <1>3, <3>1
    <3> QED BY <3>1, <3>2, Zenon
  <2>3. ASSUME NEW x \in draws'.given
        PROVE  \E n, i, s, d \in Nat, b \in States :
                 /\ x = <<d, Hash(<<n, i>>, s), b>>
                 /\ Precedes(n, i, s)' \/ (Here(n, i, s)' /\ Smaller(b, randomness'.txn_local_state))
    <3>1. x \in draws.given
      BY <2>1, <2>3
    <3> QED BY <2>2, <3>1, Zenon
  <2> QED BY <2>1, <2>3 DEF BlobsBefore
<1> QED BY <1>4, <1>5, <1>6

\* A new context is that of a new session, without a mark.
LEMMA NewContextOK ==
  ASSUME NEW hash, NEW user, NewContext(hash, user), session' = 0
  PROVE  /\ context' = [session_hash |-> context'.session_hash, auid_counter |-> context'.auid_counter,
                        local_counter |-> context'.local_counter,
                        session_counter |-> context'.session_counter, user |-> context'.user]
         /\ context'.auid_counter \in Nat /\ context'.local_counter \in 0 .. LocalMax
         /\ context'.session_counter = session' /\ context'.local_counter = 0
         /\ context'.session_hash = hash /\ context'.user = user
         /\ randomness' = [txn_local_state |-> randomness'.txn_local_state,
                           unbiasable |-> randomness'.unbiasable]
         /\ randomness'.txn_local_state \in States /\ randomness'.unbiasable = FALSE
  BY Widths, ZerosOK DEF NewContext, Zeros

LEMMA NewBlockStep == DrawsInv /\ NewBlock => DrawsInv'
<1> SUFFICES ASSUME DrawsInv, NewBlock PROVE DrawsInv'
  OBVIOUS
<1>1. /\ now < TimeMax /\ now' = now + 1 /\ seed' \in {NoSeed, now + 1} /\ txn' = Idle /\ session' = 0
      /\ NewContext(<<>>, None) /\ UNCHANGED <<issued, auids, draws, marked>>
  BY DEF NewBlock
<1>2. now \in 1 .. TimeMax
  BY DEF DrawsInv, ContextsOK
<1>3. ContextsOK'
  <2>1. txn' \in Transaction /\ txn'.kind = "None" /\ txn'.index = 0 /\ ~txn'.annotated
    BY <1>1, Widths DEF Idle, Transaction
  <2>2. ContextIsTheTransactions'
    BY <1>1, <2>1, NewContextOK DEF ContextIsTheTransactions, UserTransactionContext
  <2>3. now' \in 1 .. TimeMax /\ seed' \in {NoSeed, now'} /\ session' \in 0 .. SessionMax
    BY <1>1, <1>2, Widths
  <2> QED BY <1>1, <2>1, <2>2, <2>3, NewContextOK DEF ContextsOK
<1>4. MarkOK'
  BY <1>1, NewContextOK DEF MarkOK
<1>5. Advanced /\ now' \in Nat /\ txn'.index \in Nat /\ session' \in Nat /\ context'.local_counter \in Nat
  <2>1. now' = now + 1 /\ txn'.index = 0 /\ session' = 0
    BY <1>1 DEF Idle
  <2>2. context'.local_counter = 0
    BY <1>1, NewContextOK
  <2>3. now \in Nat
    BY <1>2, Widths
  <2> QED BY <2>1, <2>2, <2>3 DEF Advanced
<1> QED BY <1>1, <1>3, <1>4, <1>5, AdvanceKeeps DEF DrawsInv

LEMMA NewTransactionStep == DrawsInv /\ NewTransaction => DrawsInv'
<1> SUFFICES ASSUME DrawsInv, NewTransaction PROVE DrawsInv'
  OBVIOUS
<1>1. PICK kind \in {"user", "validators", "simulated"}, annotated \in BOOLEAN :
        LET t == [kind |-> kind, index |-> txn.index + 1, annotated |-> annotated]
        IN  /\ txn.index < IndexMax /\ txn' = t /\ session' = 0
            /\ NewContext(Hash(<<now, t.index>>, 0), IF kind = "validators" THEN None ELSE User(t))
            /\ UNCHANGED <<now, seed, issued, auids, draws, marked>>
  BY DEF NewTransaction
<1> DEFINE t == [kind |-> kind, index |-> txn.index + 1, annotated |-> annotated]
           user == IF kind = "validators" THEN None ELSE User(t)
<1>2. /\ txn.index < IndexMax /\ txn' = t /\ session' = 0 /\ NewContext(Hash(<<now, t.index>>, 0), user)
      /\ UNCHANGED <<now, seed, issued, auids, draws, marked>>
  BY <1>1
<1>3. now \in 1 .. TimeMax /\ seed \in {NoSeed, now} /\ txn.index \in 0 .. IndexMax
  BY DEF DrawsInv, ContextsOK, Transaction
<1>4. txn' \in Transaction /\ txn'.kind = kind /\ txn'.index = txn.index + 1
  BY <1>2, <1>3, Widths DEF Transaction
<1>5. context'.user = user /\ context'.session_hash = Hash(<<now, t.index>>, 0)
      /\ context'.local_counter = 0 /\ randomness'.unbiasable = FALSE
  <2> HIDE DEF user
  <2> QED BY <1>2, NewContextOK
<1>6. ContextsOK'
  <2>1. ContextIsTheTransactions'
    BY <1>2, <1>4, <1>5 DEF ContextIsTheTransactions, UserTransactionContext
  <2>2. context'.session_hash = Hash(<<now', txn'.index>>, session')
    BY <1>2, <1>5
  <2>3. session' \in 0 .. SessionMax
    BY <1>2, Widths
  <2>4. kind # "None"
    OBVIOUS
  <2> HIDE DEF user, t
  <2> QED BY <1>2, <1>3, <1>4, <2>1, <2>2, <2>3, <2>4, NewContextOK DEF ContextsOK
<1>7. MarkOK'
  BY <1>5 DEF MarkOK
<1>8. Advanced /\ now' \in Nat /\ txn'.index \in Nat /\ session' \in Nat /\ context'.local_counter \in Nat
  <2>1. now' = now /\ session' = 0
    BY <1>2
  <2>2. context'.local_counter = 0 /\ txn'.index = txn.index + 1
    BY <1>4, <1>5
  <2> HIDE DEF user, t
  <2>3. txn.index \in Nat /\ now \in Nat
    BY <1>3, Widths
  <2>4. txn.index < txn'.index /\ txn'.index \in Nat
    BY <2>2, <2>3
  <2> QED BY <2>1, <2>2, <2>3, <2>4 DEF Advanced
<1> QED BY <1>2, <1>6, <1>7, <1>8, AdvanceKeeps DEF DrawsInv

LEMMA NextSessionStep == DrawsInv /\ NextSession => DrawsInv'
<1> SUFFICES ASSUME DrawsInv, NextSession PROVE DrawsInv'
  OBVIOUS
<1>1. /\ txn.kind \in {"user", "simulated"} /\ session < SessionMax /\ session' = session + 1
      /\ Start(Hash(<<now, txn.index>>, session'), session')
      /\ UNCHANGED <<now, seed, txn, issued, auids, draws, marked>>
  BY DEF NextSession
<1>2. ContextsOK
  BY DEF DrawsInv
<1>3. session \in 0 .. SessionMax /\ now \in 1 .. TimeMax /\ txn.index \in 0 .. IndexMax
  BY <1>2 DEF ContextsOK, Transaction
<1>4. context' = [session_hash |-> Hash(<<now, txn.index>>, session'), auid_counter |-> 0,
                  local_counter |-> 0, session_counter |-> session', user |-> context.user]
  BY <1>1, <1>2 DEF Start, ContextsOK
<1>5. randomness' = [txn_local_state |-> Zeros, unbiasable |-> FALSE]
  BY <1>1 DEF Start, Zeros
<1>6. ContextsOK'
  <2>1. ContextIsTheTransactions'
    BY <1>1, <1>2, <1>4 DEF ContextsOK, ContextIsTheTransactions, UserTransactionContext, User
  <2>2. session' \in 0 .. SessionMax
    BY <1>1, <1>3, Widths
  <2> QED BY <1>1, <1>2, <1>4, <1>5, <2>1, <2>2, Widths, ZerosOK DEF ContextsOK
<1>7. MarkOK'
  BY <1>5 DEF MarkOK
<1>8. Advanced /\ now' \in Nat /\ txn'.index \in Nat /\ session' \in Nat /\ context'.local_counter \in Nat
  BY <1>1, <1>3, <1>4 DEF Advanced
<1> QED BY <1>1, <1>6, <1>7, <1>8, AdvanceKeeps DEF DrawsInv

-----------------------------------------------------------------------------
(* Steps within a session *)

\* A step of the same session that keeps the contexts' types need not look at the place again.
LEMMA SamePlace ==
  ASSUME UNCHANGED <<now, txn, session>>, NEW n, NEW i, NEW s
  PROVE  (Precedes(n, i, s)' <=> Precedes(n, i, s)) /\ (Here(n, i, s)' <=> Here(n, i, s))
  BY DEF Precedes, Here

LEMMA SameContexts ==
  ASSUME ContextsOK, UNCHANGED <<now, seed, txn, session, context, randomness>>
  PROVE  ContextsOK'
  BY DEF ContextsOK, ContextIsTheTransactions, UserTransactionContext, User

LEMMA SameAddresses ==
  ASSUME DrawsInv, UNCHANGED <<now, txn, session, auids>>,
         context'.auid_counter = context.auid_counter
  PROVE  AddressesBefore'
<1>1. ~auids'.repeated
  BY DEF DrawsInv, AddressesBefore
<1> SUFFICES ASSUME NEW x \in auids'.given
             PROVE  \E n, i, s, c \in Nat :
                      /\ x = <<Hash(<<n, i>>, s), c>>
                      /\ Precedes(n, i, s)' \/ (Here(n, i, s)' /\ c <= context'.auid_counter)
  BY <1>1 DEF AddressesBefore
<1>2. PICK n, i, s, c \in Nat :
        /\ x = <<Hash(<<n, i>>, s), c>>
        /\ Precedes(n, i, s) \/ (Here(n, i, s) /\ c <= context.auid_counter)
  BY DEF DrawsInv, AddressesBefore
<1>3. Precedes(n, i, s)' \/ (Here(n, i, s)' /\ c <= context'.auid_counter)
  BY <1>2, SamePlace
<1> QED BY <1>2, <1>3

LEMMA SameBlobs ==
  ASSUME DrawsInv, UNCHANGED <<now, txn, session, draws, marked>>,
         randomness'.txn_local_state = randomness.txn_local_state
  PROVE  BlobsBefore'
<1>1. BlobsBefore
  BY DEF DrawsInv
<1> QED BY <1>1, SamePlace DEF BlobsBefore

LEMMA MarkUnbiasableStep == DrawsInv /\ MarkUnbiasable => DrawsInv'
<1> SUFFICES ASSUME DrawsInv, MarkUnbiasable PROVE DrawsInv'
  OBVIOUS
<1>1. /\ session = 1 /\ txn.annotated
      /\ randomness' = [randomness EXCEPT !.unbiasable = TRUE]
      /\ UNCHANGED <<now, seed, txn, session, context, issued, auids, draws, marked>>
  BY DEF MarkUnbiasable
<1>2. ContextsOK
  BY DEF DrawsInv
<1>3. randomness' = [txn_local_state |-> randomness.txn_local_state, unbiasable |-> TRUE]
  BY <1>1, <1>2 DEF ContextsOK
<1>4. ContextsOK'
  BY <1>1, <1>2, <1>3 DEF ContextsOK, ContextIsTheTransactions, UserTransactionContext, User
<1>5. MarkOK' /\ IssuedBelow'
  BY <1>1 DEF MarkOK, DrawsInv, IssuedBelow, Layout
<1> QED BY <1>1, <1>3, <1>4, <1>5, SameAddresses, SameBlobs DEF DrawsInv

\* A user on the chain has a counter with the reserved bits zero.
LEMMA CounterStep == DrawsInv /\ MonotonicallyIncreasingCounter => DrawsInv'
<1> SUFFICES ASSUME DrawsInv, MonotonicallyIncreasingCounter PROVE DrawsInv'
  OBVIOUS
<1> DEFINE local == context.local_counter
           reserved == IF context.user.kind = "user" THEN 0 ELSE 1
           value == Layout(reserved, now, context.user.index, context.session_counter, local + 1)
<1>1. /\ txn.kind # "None" /\ local < LocalMax
      /\ context' = [context EXCEPT !.local_counter = local + 1]
      /\ IF context.user = None THEN issued' = issued ELSE Issue(value)
      /\ UNCHANGED <<now, seed, txn, session, randomness, auids, draws, marked>>
  BY DEF MonotonicallyIncreasingCounter
<1>2. ContextsOK
  BY DEF DrawsInv
<1>3. context' = [session_hash |-> context.session_hash, auid_counter |-> context.auid_counter,
                  local_counter |-> local + 1, session_counter |-> context.session_counter,
                  user |-> context.user]
  BY <1>1, <1>2 DEF ContextsOK
<1>4. /\ local \in 0 .. LocalMax /\ local + 1 \in 0 .. LocalMax
      /\ now \in 0 .. TimeMax /\ txn.index \in 0 .. IndexMax /\ session \in 0 .. SessionMax
      /\ now \in Nat /\ txn.index \in Nat /\ session \in Nat /\ local + 1 \in Nat /\ local \in Nat
  BY <1>1, <1>2, Widths DEF ContextsOK, Transaction
<1>5. ContextsOK'
  BY <1>1, <1>2, <1>3, <1>4 DEF ContextsOK, ContextIsTheTransactions, UserTransactionContext, User
<1>6. IssuedBelow'
  <2> DEFINE old == Layout(0, now, txn.index, session, local)
             next == Layout(0, now, txn.index, session, local + 1)
  <2>1. old \in Nat /\ next \in Nat
    BY <1>4, LayoutNat
  <2>2. old < next
    <3>1. Later(0, now, txn.index, session, local, 0, now, txn.index, session, local + 1)
      BY <1>4 DEF Later
    <3> QED BY <1>4, <3>1, LayoutGrows
  <2>3. issued \in [last : Nat, increasing : {TRUE}] /\ issued.last <= old
    BY DEF DrawsInv, IssuedBelow
  <2>4. issued.last < next
    <3> HIDE DEF old, next
    <3> QED BY <2>1, <2>2, <2>3
  <2>5. issued' = issued \/ issued' = [last |-> next, increasing |-> issued.last < next]
    <3>1. CASE context.user = None \/ ~OnChain
      BY <1>1, <3>1 DEF Issue
    <3>2. CASE context.user # None /\ OnChain
      <4>1. txn.kind = "user"
        BY <1>2, <3>2 DEF OnChain, ContextsOK, ContextIsTheTransactions, UserTransactionContext
      <4>2. context.user = User(txn)
        BY <1>2, <4>1 DEF ContextsOK, ContextIsTheTransactions, UserTransactionContext
      <4>3. context.user.kind = "user" /\ context.user.index = txn.index
            /\ context.session_counter = session
        BY <1>2, <4>1, <4>2 DEF User, ContextsOK
      <4>4. value = next
        BY <4>3
      <4>5. issued' = [last |-> value, increasing |-> issued.last < value]
        BY <1>1, <3>2 DEF Issue
      <4> QED BY <4>4, <4>5
    <3> QED BY <3>1, <3>2
  <2>6. issued' \in [last : Nat, increasing : {TRUE}] /\ issued'.last <= next
    <3>1. CASE issued' = issued
      <4>1. issued.last \in Nat
        BY <2>3
      <4>2. issued.last <= next
        <5> HIDE DEF old, next
        <5> QED BY <2>1, <2>4, <4>1
      <4> HIDE DEF old, next
      <4> QED BY <2>3, <3>1, <4>2
    <3>2. CASE issued' = [last |-> next, increasing |-> issued.last < next]
      <4>1. (issued.last < next) = TRUE
        BY <2>4
      <4>2. issued' = [last |-> next, increasing |-> TRUE]
        BY <3>2, <4>1
      <4> HIDE DEF next
      <4> QED BY <2>1, <4>2
    <3> QED BY <2>5, <3>1, <3>2
  <2>7. Layout(0, now, txn.index, session, context.local_counter)' = next
    BY <1>1, <1>3 DEF Layout
  <2> QED BY <2>6, <2>7 DEF IssuedBelow
<1>7. MarkOK'
  BY <1>1 DEF MarkOK, DrawsInv
<1> QED BY <1>1, <1>3, <1>5, <1>6, <1>7, SameAddresses, SameBlobs DEF DrawsInv

\* The address names its session and a call later than those before.
LEMMA GenerateUniqueAddressStep == DrawsInv /\ GenerateUniqueAddress => DrawsInv'
<1> SUFFICES ASSUME DrawsInv, GenerateUniqueAddress PROVE DrawsInv'
  OBVIOUS
<1> DEFINE address == <<context.session_hash, context.auid_counter + 1>>
<1>1. /\ txn.kind # "None"
      /\ context' = [context EXCEPT !.auid_counter = context.auid_counter + 1]
      /\ auids' = Give(auids, address)
      /\ UNCHANGED <<now, seed, txn, session, randomness, issued, draws, marked>>
  BY DEF GenerateUniqueAddress
<1>2. ContextsOK
  BY DEF DrawsInv
<1>3. context' = [session_hash |-> context.session_hash, auid_counter |-> context.auid_counter + 1,
                  local_counter |-> context.local_counter,
                  session_counter |-> context.session_counter, user |-> context.user]
  BY <1>1, <1>2 DEF ContextsOK
<1>4. context.auid_counter \in Nat /\ context.auid_counter + 1 \in Nat
      /\ context'.auid_counter = context.auid_counter + 1
  BY <1>2, <1>3 DEF ContextsOK
<1>5. ContextsOK'
  BY <1>1, <1>2, <1>3, <1>4 DEF ContextsOK, ContextIsTheTransactions, UserTransactionContext, User
<1>6. address = <<Hash(<<now, txn.index>>, session), context.auid_counter + 1>>
  BY <1>1, <1>2 DEF ContextsOK
<1>7. now \in Nat /\ txn.index \in Nat /\ session \in Nat
  BY <1>2, Widths DEF ContextsOK, Transaction
<1>8. address \notin auids.given
  <2> SUFFICES ASSUME address \in auids.given PROVE FALSE
    OBVIOUS
  <2>1. PICK n, i, s, c \in Nat :
          /\ address = <<Hash(<<n, i>>, s), c>>
          /\ Precedes(n, i, s) \/ (Here(n, i, s) /\ c <= context.auid_counter)
    BY DEF DrawsInv, AddressesBefore
  <2>2. n = now /\ i = txn.index /\ s = session /\ c = context.auid_counter + 1
    BY <1>6, <2>1 DEF Hash
  <2> QED BY <1>4, <1>7, <2>1, <2>2 DEF Precedes, Here
<1>9. AddressesBefore'
  <2>1. ~auids'.repeated
    BY <1>1, <1>8 DEF Give, DrawsInv, AddressesBefore
  <2> SUFFICES ASSUME NEW x \in auids'.given
               PROVE  \E n, i, s, c \in Nat :
                        /\ x = <<Hash(<<n, i>>, s), c>>
                        /\ Precedes(n, i, s)' \/ (Here(n, i, s)' /\ c <= context'.auid_counter)
    BY <2>1 DEF AddressesBefore
  <2>2. x \in auids.given \/ x = address
    BY <1>1 DEF Give
  <2>3. CASE x \in auids.given
    <3>1. PICK n, i, s, c \in Nat :
            /\ x = <<Hash(<<n, i>>, s), c>>
            /\ Precedes(n, i, s) \/ (Here(n, i, s) /\ c <= context.auid_counter)
      BY <2>3 DEF DrawsInv, AddressesBefore
    <3>2. c <= context.auid_counter => c <= context'.auid_counter
      BY <1>4
    <3>3. Precedes(n, i, s)' \/ (Here(n, i, s)' /\ c <= context'.auid_counter)
      BY <1>1, <3>1, <3>2, SamePlace
    <3> QED BY <3>1, <3>3
  <2>4. CASE x = address
    <3>1. Here(now, txn.index, session)'
      BY <1>1 DEF Here
    <3>2. context.auid_counter + 1 <= context'.auid_counter
      BY <1>4
    <3>3. Here(now, txn.index, session)
      BY DEF Here
    <3>4. now' = now /\ txn' = txn /\ session' = session
      BY <1>1
    <3>5. \E n, i, s, c \in Nat :
            /\ x = <<Hash(<<n, i>>, s), c>> /\ n = now /\ i = txn.index /\ s = session
            /\ c <= context'.auid_counter
      BY <1>4, <1>6, <1>7, <2>4, <3>2
    <3> QED BY <3>4, <3>5 DEF Here
  <2> QED BY <2>2, <2>3, <2>4
<1>10. IssuedBelow'
  BY <1>1, <1>3 DEF DrawsInv, IssuedBelow, Layout
<1>11. MarkOK'
  BY <1>1 DEF MarkOK, DrawsInv
<1> QED BY <1>1, <1>5, <1>9, <1>10, <1>11, SameBlobs DEF DrawsInv

\* The blob's counter is greater than those of its session's earlier blobs.
LEMMA FetchAndIncrementStep == DrawsInv /\ FetchAndIncrementTxnCounter => DrawsInv'
<1> SUFFICES ASSUME DrawsInv, FetchAndIncrementTxnCounter PROVE DrawsInv'
  OBVIOUS
<1> DEFINE state == randomness.txn_local_state
           blob == <<seed, context.session_hash, state>>
<1>1. /\ \E i \in 1 .. StateBytes : state[i] < ByteMax
      /\ randomness.unbiasable /\ seed # NoSeed
      /\ randomness' = [randomness EXCEPT !.txn_local_state = Increment(state)]
      /\ draws' = Give(draws, blob)
      /\ marked' = (marked /\ txn.annotated /\ session = 1)
      /\ UNCHANGED <<now, seed, txn, session, context, issued, auids>>
  BY DEF FetchAndIncrementTxnCounter, GetTransactionHash
<1>2. ContextsOK
  BY DEF DrawsInv
<1>3. state \in States /\ randomness.unbiasable \in BOOLEAN
      /\ randomness' = [txn_local_state |-> Increment(state), unbiasable |-> randomness.unbiasable]
  BY <1>1, <1>2 DEF ContextsOK
<1>4. Increment(state) \in States /\ Smaller(state, Increment(state))
  <2> HIDE DEF state
  <2> QED BY <1>1, <1>3, IncrementGrows
<1>5. randomness'.txn_local_state = Increment(state) /\ randomness'.unbiasable = randomness.unbiasable
  BY <1>3
<1>6. ContextsOK'
  <2> HIDE DEF state
  <2> QED BY <1>1, <1>2, <1>3, <1>4, <1>5
          DEF ContextsOK, ContextIsTheTransactions, UserTransactionContext, User
<1>7. txn.annotated /\ session = 1
  BY <1>1 DEF DrawsInv, MarkOK
<1>8. txn.kind # "None" /\ context.session_hash = Hash(<<now, txn.index>>, session)
  BY <1>2, <1>7 DEF ContextsOK
<1>9. now \in Nat /\ txn.index \in Nat /\ session \in Nat /\ seed \in Nat
  BY <1>2, Widths DEF ContextsOK, Transaction, NoSeed
<1>10. blob \notin draws.given
  <2> SUFFICES ASSUME blob \in draws.given PROVE FALSE
    OBVIOUS
  <2>1. PICK n, i, s, d \in Nat, b \in States :
          /\ blob = <<d, Hash(<<n, i>>, s), b>>
          /\ Precedes(n, i, s) \/ (Here(n, i, s) /\ Smaller(b, state))
    BY DEF DrawsInv, BlobsBefore
  <2>2. n = now /\ i = txn.index /\ s = session /\ b = state
    BY <1>8, <2>1 DEF Hash
  <2>3. ~Smaller(b, state)
    BY <1>3, <2>2, SmallerIrreflexive
  <2>4. ~Precedes(n, i, s)
    BY <1>9, <2>2 DEF Precedes
  <2> QED BY <2>1, <2>3, <2>4
<1>11. BlobsBefore'
  <2>1. ~draws'.repeated
    BY <1>1, <1>10 DEF Give, DrawsInv, BlobsBefore
  <2>2. marked'
    BY <1>1, <1>7 DEF DrawsInv, BlobsBefore
  <2> SUFFICES ASSUME NEW x \in draws'.given
               PROVE  \E n, i, s, d \in Nat, b \in States :
                        /\ x = <<d, Hash(<<n, i>>, s), b>>
                        /\ \/ Precedes(n, i, s)'
                           \/ Here(n, i, s)' /\ Smaller(b, randomness'.txn_local_state)
    BY <2>1, <2>2 DEF BlobsBefore, Smaller
  <2>3. x \in draws.given \/ x = blob
    BY <1>1 DEF Give
  <2>4. CASE x \in draws.given
    <3>1. PICK n, i, s, d \in Nat, b \in States :
            /\ x = <<d, Hash(<<n, i>>, s), b>>
            /\ Precedes(n, i, s) \/ (Here(n, i, s) /\ Smaller(b, state))
      BY <2>4 DEF DrawsInv, BlobsBefore
    <3>2. Smaller(b, state) => Smaller(b, randomness'.txn_local_state)
      <4> HIDE DEF state
      <4> QED BY <1>3, <1>4, <1>5, SmallerTransitive
    <3>3. Precedes(n, i, s)' \/ (Here(n, i, s)' /\ Smaller(b, randomness'.txn_local_state))
      BY <1>1, <3>1, <3>2, SamePlace
    <3> QED BY <3>1, <3>3
  <2>5. CASE x = blob
    <3>1. now' = now /\ txn' = txn /\ session' = session
      BY <1>1
    <3>2. x = <<seed, Hash(<<now, txn.index>>, session), state>>
      BY <1>8, <2>5
    <3>3. Here(now, txn.index, session)'
      BY <3>1 DEF Here
    <3>4. Smaller(state, randomness'.txn_local_state)
      BY <1>4, <1>5
    <3> HIDE DEF state, blob
    <3>5. \E n, i, s, d \in Nat, b \in States :
            /\ x = <<d, Hash(<<n, i>>, s), b>> /\ n = now /\ i = txn.index /\ s = session
            /\ Smaller(b, randomness'.txn_local_state)
      BY <1>3, <1>9, <3>2, <3>4
    <3> QED BY <3>1, <3>5 DEF Here
  <2> QED BY <2>3, <2>4, <2>5
<1>12. MarkOK'
  BY <1>1, <1>7 DEF MarkOK
<1>13. IssuedBelow'
  BY <1>1 DEF DrawsInv, IssuedBelow, Layout
<1> QED BY <1>1, <1>6, <1>11, <1>12, <1>13, SameAddresses DEF DrawsInv

LEMMA NextKeepsDrawsInv == DrawsInv /\ [DrawsNext]_draw_vars => DrawsInv'
<1>1. DrawsInv /\ UNCHANGED draw_vars => DrawsInv'
  <2> SUFFICES ASSUME DrawsInv, UNCHANGED draw_vars PROVE DrawsInv'
    OBVIOUS
  <2>1. UNCHANGED <<now, seed, txn, session, context, randomness, issued, auids, draws, marked>>
    BY DEF draw_vars
  <2>2. ContextsOK'
    BY <2>1, SameContexts DEF DrawsInv
  <2>3. MarkOK' /\ IssuedBelow'
    BY <2>1 DEF DrawsInv, MarkOK, IssuedBelow, Layout
  <2> QED BY <2>1, <2>2, <2>3, SameAddresses, SameBlobs DEF DrawsInv
<1> QED
  BY <1>1, NewBlockStep, NewTransactionStep, NextSessionStep, MarkUnbiasableStep, CounterStep,
     GenerateUniqueAddressStep, FetchAndIncrementStep DEF DrawsNext

THEOREM DrawsInvariance == DrawsSpec => []DrawsInv
  BY InitDrawsInv, NextKeepsDrawsInv, PTL DEF DrawsSpec

\* What was issued leaves the reserved bits of the layout zero.
LEMMA DrawsInvTypes == DrawsInv => DrawsTypeOK
<1> SUFFICES ASSUME DrawsInv PROVE DrawsTypeOK
  OBVIOUS
<1>1. ContextsOK
  BY DEF DrawsInv
<1> DEFINE place == Layout(0, now, txn.index, session, context.local_counter)
           above == Layout(1, 0, 0, 0, 0)
<1>2. /\ now \in 0 .. TimeMax /\ txn.index \in 0 .. IndexMax /\ session \in 0 .. SessionMax
      /\ context.local_counter \in 0 .. LocalMax
      /\ now \in Nat /\ txn.index \in Nat /\ session \in Nat /\ context.local_counter \in Nat
  BY <1>1, Widths DEF ContextsOK, Transaction
<1>3. place < above
  <2>1. Later(0, now, txn.index, session, context.local_counter, 1, 0, 0, 0, 0)
    BY DEF Later
  <2> QED BY <1>2, <2>1, LayoutGrows
<1>4. place \in Nat /\ above \in Nat
  BY <1>2, LayoutNat
<1>5. issued.last \in Nat /\ issued.last <= place
  BY DEF DrawsInv, IssuedBelow
<1>6. issued.last < above
  <2> HIDE DEF place, above
  <2> QED BY <1>3, <1>4, <1>5
<1> QED BY <1>1, <1>2, <1>6 DEF ContextsOK, DrawsTypeOK, States

\* Over calls, sessions, transactions and blocks of any number, the counters, addresses and random
\* blobs that Move code is given never repeat, randomness is drawn by annotated payloads only, and
\* the user context is the transaction's (transaction_context.rs, randomness.rs).
THEOREM DrawsCorrectness == DrawsSpec => []DrawsAreUnique
<1>1. DrawsInv => CounterIncreases /\ AddressesAreUnique /\ BlobsAreIndependent
                    /\ OnlyAnnotatedPayloadsDraw
  BY DEF DrawsInv, IssuedBelow, AddressesBefore, BlobsBefore, CounterIncreases, AddressesAreUnique,
         BlobsAreIndependent, OnlyAnnotatedPayloadsDraw
<1>2. DrawsInv => ContextIsTheTransactions
  BY DEF DrawsInv, ContextsOK
<1>3. DrawsInv => DrawsAreUnique
  BY <1>1, <1>2, DrawsInvTypes DEF DrawsAreUnique
<1> QED BY <1>3, DrawsInvariance, PTL

-----------------------------------------------------------------------------
(* Tables: the inductive invariant *)

\* gv describes an entry of which storage has v.
Fits(gv, v) ==
  /\ gv \in GlobalValue
  /\ gv.status \in Gone <=> gv.val = NoVal
  /\ gv.status \in {"None", "Fresh"} <=> v = NoVal
  /\ gv.status = "Clean" => gv.val = v

EntriesOK == \A e \in DOMAIN content : Fits(content[e], store[e])

Counted(h) == {k \in Keys : Seen(<<h, k>>) # NoVal}
Stored(h) == {k \in Keys : store[<<h, k>>] # NoVal}

\* A table's length is the number of its entries, in the transaction's view and in storage.
ViewCounted ==
  /\ \A h \in DOMAIN my_lengths :
       IsFiniteSet(Counted(h)) /\ my_lengths[h] = Cardinality(Counted(h))
  /\ \A e \in Entries : Seen(e) # NoVal => e[1] \in DOMAIN my_lengths

StoreCounted ==
  /\ \A h \in DOMAIN lengths : IsFiniteSet(Stored(h)) /\ lengths[h] = Cardinality(Stored(h))
  /\ NoOrphans

\* Handles of other sessions have other hashes.
HandlesOK ==
  /\ IsFiniteSet(new_tables)
  /\ DOMAIN my_lengths \subseteq DOMAIN lengths \cup new_tables
  /\ \A h \in DOMAIN lengths : h[1] <= hashes /\ (session_hash # 0 => h[1] < session_hash)
  /\ \A h \in new_tables : h[1] <= hashes

\* Between transactions nothing is left of the last.
IdleOK == session_hash = 0 => DOMAIN content = {} /\ my_lengths = lengths /\ new_tables = {}

HeapOK ==
  FixMemoryDoubleCounting =>
    \A e \in Entries : heap[e] <= 1 /\ (e \notin DOMAIN content => heap[e] = 0)

TablesInv ==
  TablesTypeOK /\ EntriesOK /\ ViewCounted /\ StoreCounted /\ HandlesOK /\ IdleOK /\ HeapOK

-----------------------------------------------------------------------------
(* Global values *)

LEMMA CachedFits == ASSUME NEW v \in Vals \cup {NoVal} PROVE Fits(Cached(v), v) /\ Cached(v).val = v
  BY DEF Fits, Cached, GlobalValue, Statuses, Gone

LEMMA MoveToFits ==
  ASSUME NEW gv, NEW v, Fits(gv, v), ~Exists(gv), NEW w \in Vals
  PROVE  Fits(MoveTo(gv, w), v) /\ MoveTo(gv, w).val = w
  BY TablesAssumption DEF Fits, MoveTo, Exists, GlobalValue, Statuses, Gone

LEMMA MoveFromFits ==
  ASSUME NEW gv, NEW v, Fits(gv, v), Exists(gv)
  PROVE  Fits(MoveFrom(gv), v) /\ MoveFrom(gv).val = NoVal
  BY DEF Fits, MoveFrom, Exists, GlobalValue, Statuses, Gone

LEMMA WriteRefFits ==
  ASSUME NEW gv, NEW v, Fits(gv, v), Exists(gv), NEW w \in Vals
  PROVE  Fits(WriteRef(gv, w), v) /\ WriteRef(gv, w).val = w
  BY TablesAssumption DEF Fits, WriteRef, Exists, GlobalValue, Statuses, Gone

\* What the session has of an entry fits storage, and exists if a value is seen.
LEMMA GlobalFits ==
  ASSUME TablesTypeOK, EntriesOK, NEW e \in Entries
  PROVE  /\ Fits(GetOrCreateGlobalValue(e), store[e])
         /\ Exists(GetOrCreateGlobalValue(e)) <=> Seen(e) # NoVal
         /\ Seen(e) \in Vals \cup {NoVal}
<1>1. store[e] \in Vals \cup {NoVal}
  BY DEF TablesTypeOK
<1>2. Fits(GetOrCreateGlobalValue(e), store[e])
  BY <1>1, CachedFits DEF GetOrCreateGlobalValue, EntriesOK
<1> QED BY <1>2 DEF Fits, Exists, Seen, GlobalValue

\* Keeping a value that fits changes what is seen of its entry, and of no other.
LEMMA KeepStep ==
  ASSUME TablesTypeOK, EntriesOK, UNCHANGED store, NEW e \in Entries, NEW gv, Fits(gv, store[e]), Keep(e, gv)
  PROVE  /\ DOMAIN content' = DOMAIN content \cup {e} /\ DOMAIN content' \subseteq Entries
         /\ EntriesOK'
         /\ \A x \in DOMAIN content' : content'[x] \in GlobalValue
         /\ \A x \in Entries : Seen(x)' = IF x = e THEN gv.val ELSE Seen(x)
<1>1. content' = [x \in DOMAIN content \cup {e} |-> IF x = e THEN gv ELSE content[x]]
  BY DEF Keep
<1>2. DOMAIN content' = DOMAIN content \cup {e} /\ DOMAIN content' \subseteq Entries
  BY <1>1 DEF TablesTypeOK
<1>3. \A x \in DOMAIN content' : Fits(content'[x], store'[x])
  BY <1>1, <1>2 DEF EntriesOK
<1>4. \A x \in Entries : Seen(x)' = IF x = e THEN gv.val ELSE Seen(x)
  BY <1>1, <1>2 DEF Seen, GetOrCreateGlobalValue
<1> QED BY <1>2, <1>3, <1>4 DEF EntriesOK, Fits

\* Memory is counted when an entry that was not touched is found.
LEMMA HeapStep ==
  ASSUME TablesTypeOK, HeapOK, NEW e \in Entries, UseHeapMemory(e),
         DOMAIN content' = DOMAIN content \cup {e}
  PROVE  heap' \in [Entries -> 0 .. MaxHeap] /\ HeapOK'
<1> DEFINE counted == Exists(GetOrCreateGlobalValue(e)) /\ (FixMemoryDoubleCounting => FirstUse(e))
<1>1. /\ counted => heap[e] < MaxHeap
      /\ heap' = IF counted THEN [heap EXCEPT ![e] = heap[e] + 1] ELSE heap
  BY DEF UseHeapMemory
<1>2. heap \in [Entries -> 0 .. MaxHeap] /\ MaxHeap \in Nat
  BY TablesAssumption DEF TablesTypeOK
<1>3. FixMemoryDoubleCounting /\ counted => e \notin DOMAIN content
  BY DEF FirstUse
<1>4. heap[e] \in 0 .. MaxHeap
  BY <1>2
<1> HIDE DEF counted
<1>5. heap' \in [Entries -> 0 .. MaxHeap]
  <2>1. CASE counted
    <3>1. heap[e] + 1 \in 0 .. MaxHeap
      BY <1>1, <1>2, <1>4, <2>1
    <3> QED BY <1>1, <1>2, <2>1, <3>1
  <2>2. CASE ~counted
    BY <1>1, <1>2, <2>2
  <2> QED BY <2>1, <2>2
<1>6. HeapOK'
  <2> SUFFICES ASSUME FixMemoryDoubleCounting, NEW x \in Entries
               PROVE  heap'[x] <= 1 /\ (x \notin DOMAIN content' => heap'[x] = 0)
    BY DEF HeapOK
  <2>1. heap[x] <= 1 /\ (x \notin DOMAIN content => heap[x] = 0)
    BY DEF HeapOK
  <2>2. CASE counted /\ x = e
    <3>1. heap[e] = 0
      BY <1>3, <2>1, <2>2
    <3>2. heap'[e] = 1
      BY <1>1, <1>2, <2>2, <3>1
    <3> QED BY <2>2, <3>2
  <2>3. CASE ~(counted /\ x = e)
    <3>1. heap'[x] = heap[x]
      BY <1>1, <1>2, <2>3
    <3> QED BY <2>1, <3>1
  <2> QED BY <2>2, <2>3
<1> QED BY <1>5, <1>6

-----------------------------------------------------------------------------
(* Steps on one entry of a table *)

\* What a transaction's step on an entry leaves alone.
OnEntry == session_hash # 0 /\ UNCHANGED <<store, lengths, hashes, session_hash, new_tables, removed_tables>>

\* The tables' entries in the view after an entry is kept.
LEMMA CountedStep ==
  ASSUME TablesInv, OnEntry, NEW h \in DOMAIN my_lengths, NEW k \in Keys, NEW gv,
         Fits(gv, store[<<h, k>>]), Keep(<<h, k>>, gv)
  PROVE  /\ gv.val # NoVal => Counted(h)' = Counted(h) \cup {k}
         /\ gv.val = NoVal => Counted(h)' = Counted(h) \ {k}
         /\ \A t \in DOMAIN my_lengths : t # h => Counted(t)' = Counted(t)
         /\ k \in Counted(h) <=> Seen(<<h, k>>) # NoVal
<1>1. DOMAIN my_lengths \subseteq Handles /\ <<h, k>> \in Entries
  BY DEF TablesInv, TablesTypeOK, Entries
<1>2. \A x \in Entries : Seen(x)' = IF x = <<h, k>> THEN gv.val ELSE Seen(x)
  BY <1>1, KeepStep DEF TablesInv, OnEntry
<1>3. \A t \in Handles : \A j \in Keys : <<t, j>> \in Entries
  BY DEF Entries
<1>4. \A j \in Keys : Seen(<<h, j>>)' = IF j = k THEN gv.val ELSE Seen(<<h, j>>)
  BY <1>1, <1>2, <1>3
<1>5. \A t \in DOMAIN my_lengths : t # h => \A j \in Keys : Seen(<<t, j>>)' = Seen(<<t, j>>)
  BY <1>1, <1>2, <1>3
<1>6. Counted(h)' = {j \in Keys : Seen(<<h, j>>)' # NoVal}
  BY DEF Counted
<1>7. \A t : Counted(t) = {j \in Keys : Seen(<<t, j>>) # NoVal} /\ Counted(t)' = {j \in Keys : Seen(<<t, j>>)' # NoVal}
  BY DEF Counted
<1>8. \A t \in DOMAIN my_lengths : t # h => Counted(t)' = Counted(t)
  BY <1>5, <1>7
<1> HIDE DEF Counted
<1>9. gv.val # NoVal => Counted(h)' = Counted(h) \cup {k}
  BY <1>4, <1>7
<1>10. gv.val = NoVal => Counted(h)' = Counted(h) \ {k}
  BY <1>4, <1>7
<1>11. k \in Counted(h) <=> Seen(<<h, k>>) # NoVal
  BY <1>7
<1> QED BY <1>8, <1>9, <1>10, <1>11

\* A step that keeps an entry preserves the invariant if it keeps the count, and puts the kept value in
\* the view.
LEMMA EntryStep ==
  ASSUME TablesInv, OnEntry, NEW h \in DOMAIN my_lengths, NEW k \in Keys, NEW gv,
         Fits(gv, store[<<h, k>>]), Keep(<<h, k>>, gv), UseHeapMemory(<<h, k>>),
         DOMAIN my_lengths' = DOMAIN my_lengths, \A t \in DOMAIN my_lengths : my_lengths'[t] \in Nat,
         \A t \in DOMAIN my_lengths : IsFiniteSet(Counted(t)') /\ my_lengths'[t] = Cardinality(Counted(t)'),
         result' \in Vals \cup BOOLEAN \cup {NoVal}
  PROVE  TablesInv' /\ Promise!Put(h, k, gv.val)
<1>1. DOMAIN my_lengths \subseteq Handles /\ <<h, k>> \in Entries
  BY DEF TablesInv, TablesTypeOK, Entries
<1>2. /\ DOMAIN content' = DOMAIN content \cup {<<h, k>>} /\ DOMAIN content' \subseteq Entries
      /\ EntriesOK'
      /\ \A x \in DOMAIN content' : content'[x] \in GlobalValue
      /\ \A x \in Entries : Seen(x)' = IF x = <<h, k>> THEN gv.val ELSE Seen(x)
  BY <1>1, KeepStep DEF TablesInv, OnEntry
<1>3. heap' \in [Entries -> 0 .. MaxHeap] /\ HeapOK'
  BY <1>1, <1>2, HeapStep DEF TablesInv
<1>4. TablesTypeOK'
  BY <1>1, <1>2, <1>3 DEF TablesInv, TablesTypeOK, OnEntry
<1>5. ViewCounted'
  <2>1. \A x \in Entries : Seen(x)' # NoVal => x[1] \in DOMAIN my_lengths'
    BY <1>2 DEF TablesInv, ViewCounted
  <2> QED BY <2>1 DEF ViewCounted
<1>6. StoreCounted'
  BY DEF TablesInv, StoreCounted, Stored, NoOrphans, OnEntry
<1>7. HandlesOK' /\ IdleOK'
  BY DEF TablesInv, HandlesOK, IdleOK, OnEntry
<1>8. Promise!Put(h, k, gv.val)
  <2>1. [x \in Entries |-> Seen(x)]' = [[x \in Entries |-> Seen(x)] EXCEPT ![<<h, k>>] = gv.val]
    <3>1. [x \in Entries |-> Seen(x)]' = [x \in Entries |-> Seen(x)']
      OBVIOUS
    <3> QED BY <1>1, <1>2, <3>1
  <2>2. View' = [tables |-> DOMAIN my_lengths', entry |-> [x \in Entries |-> Seen(x)]']
    BY DEF View
  <2>3. View = [tables |-> DOMAIN my_lengths, entry |-> [x \in Entries |-> Seen(x)]]
    BY DEF View
  <2>4. View' = [View EXCEPT !.entry[<<h, k>>] = gv.val]
    BY <2>1, <2>2, <2>3
  <2> QED BY <2>4 DEF Promise!Put
<1> QED BY <1>2, <1>3, <1>4, <1>5, <1>6, <1>7, <1>8 DEF TablesInv

\* The view's tables and entries.
LEMMA ViewHas ==
  /\ View.tables = DOMAIN my_lengths
  /\ \A e \in Entries : View.entry[e] = Seen(e)
  BY DEF View

LEMMA EntryOf ==
  ASSUME TablesInv, NEW h \in DOMAIN my_lengths, NEW k \in Keys
  PROVE  /\ <<h, k>> \in Entries /\ View.entry[<<h, k>>] = Seen(<<h, k>>)
         /\ Seen(<<h, k>>) = GetOrCreateGlobalValue(<<h, k>>).val
         /\ Fits(GetOrCreateGlobalValue(<<h, k>>), store[<<h, k>>])
         /\ Exists(GetOrCreateGlobalValue(<<h, k>>)) <=> Seen(<<h, k>>) # NoVal
         /\ Seen(<<h, k>>) \in Vals \cup {NoVal}
         /\ IsFiniteSet(Counted(h)) /\ my_lengths[h] = Cardinality(Counted(h)) /\ my_lengths[h] \in Nat
<1>1. <<h, k>> \in Entries
  BY DEF TablesInv, TablesTypeOK, Entries
<1>2. View.entry[<<h, k>>] = Seen(<<h, k>>)
  BY <1>1, ViewHas
<1>3. /\ Fits(GetOrCreateGlobalValue(<<h, k>>), store[<<h, k>>])
      /\ Exists(GetOrCreateGlobalValue(<<h, k>>)) <=> Seen(<<h, k>>) # NoVal
      /\ Seen(<<h, k>>) \in Vals \cup {NoVal}
  BY <1>1, GlobalFits DEF TablesInv
<1>4. IsFiniteSet(Counted(h)) /\ my_lengths[h] = Cardinality(Counted(h)) /\ my_lengths[h] \in Nat
  BY DEF TablesInv, TablesTypeOK, ViewCounted
<1> QED BY <1>1, <1>2, <1>3, <1>4 DEF Seen

\* A step that keeps an entry, and an entry where there was one or none where there was none, leaves
\* every count as it is.
LEMMA SameCount ==
  ASSUME TablesInv, OnEntry, UNCHANGED my_lengths, NEW h \in DOMAIN my_lengths, NEW k \in Keys, NEW gv,
         Fits(gv, store[<<h, k>>]), Keep(<<h, k>>, gv), gv.val = NoVal <=> Seen(<<h, k>>) = NoVal
  PROVE  /\ DOMAIN my_lengths' = DOMAIN my_lengths
         /\ \A t \in DOMAIN my_lengths :
              /\ my_lengths'[t] \in Nat
              /\ IsFiniteSet(Counted(t)') /\ my_lengths'[t] = Cardinality(Counted(t)')
<1>1. /\ gv.val # NoVal => Counted(h)' = Counted(h) \cup {k}
      /\ gv.val = NoVal => Counted(h)' = Counted(h) \ {k}
      /\ \A t \in DOMAIN my_lengths : t # h => Counted(t)' = Counted(t)
      /\ k \in Counted(h) <=> Seen(<<h, k>>) # NoVal
  BY CountedStep
<1>2. Counted(h)' = Counted(h)
  <2>1. CASE gv.val = NoVal
    BY <1>1, <2>1
  <2>2. CASE gv.val # NoVal
    BY <1>1, <2>2
  <2> QED BY <2>1, <2>2
<1>3. \A t \in DOMAIN my_lengths : Counted(t)' = Counted(t)
  BY <1>1, <1>2
<1>4. \A t \in DOMAIN my_lengths : IsFiniteSet(Counted(t)) /\ my_lengths[t] = Cardinality(Counted(t)) /\ my_lengths[t] \in Nat
  BY DEF TablesInv, TablesTypeOK, ViewCounted
<1>5. my_lengths' = my_lengths
  OBVIOUS
<1> HIDE DEF Counted
<1> QED BY <1>3, <1>4, <1>5

\* An action that reads an entry.
LEMMA BorrowStep ==
  ASSUME TablesInv, Session, NEW h \in DOMAIN my_lengths, NEW k \in Keys, BorrowBox(h, k)
  PROVE  TablesInv' /\ Promise!Get(h, k)
<1> DEFINE e == <<h, k>>
           gv == GetOrCreateGlobalValue(e)
<1>1. Exists(gv) /\ Keep(e, gv) /\ UseHeapMemory(e) /\ result' = gv.val
      /\ UNCHANGED <<new_tables, removed_tables, my_lengths>> /\ OnEntry
  BY DEF BorrowBox, Session, OnEntry
<1>2. /\ View.entry[e] = Seen(e) /\ Seen(e) = gv.val /\ Fits(gv, store[e])
      /\ Exists(gv) <=> Seen(e) # NoVal
      /\ Seen(e) \in Vals \cup {NoVal}
  BY EntryOf
<1> HIDE DEF gv
<1>3. /\ DOMAIN my_lengths' = DOMAIN my_lengths
      /\ \A t \in DOMAIN my_lengths :
           /\ my_lengths'[t] \in Nat
           /\ IsFiniteSet(Counted(t)') /\ my_lengths'[t] = Cardinality(Counted(t)')
  BY <1>1, <1>2, SameCount
<1>4. TablesInv' /\ Promise!Put(h, k, gv.val)
  BY <1>1, <1>2, <1>3, EntryStep
<1>5. View' = View
  BY <1>2, <1>4 DEF Promise!Put, View
<1> QED BY <1>1, <1>2, <1>4, <1>5 DEF Promise!Get

LEMMA ContainsStep ==
  ASSUME TablesInv, Session, NEW h \in DOMAIN my_lengths, NEW k \in Keys, ContainsBox(h, k)
  PROVE  TablesInv' /\ Promise!Contains(h, k)
<1> DEFINE e == <<h, k>>
           gv == GetOrCreateGlobalValue(e)
<1>1. Keep(e, gv) /\ UseHeapMemory(e) /\ UNCHANGED <<new_tables, removed_tables, my_lengths>> /\ OnEntry
  BY DEF ContainsBox, Session, OnEntry
<1>2. result' = Exists(gv)
  BY DEF ContainsBox
<1>3. /\ View.entry[e] = Seen(e) /\ Seen(e) = gv.val /\ Fits(gv, store[e])
      /\ Exists(gv) <=> Seen(e) # NoVal
      /\ Seen(e) \in Vals \cup {NoVal}
  BY EntryOf
<1>4. result' \in BOOLEAN
  BY <1>2 DEF Exists
<1>5. result' = (View.entry[<<h, k>>] # NoVal)
  <2>1. Exists(gv) <=> View.entry[<<h, k>>] # NoVal
    BY <1>3
  <2>2. Exists(gv) \in BOOLEAN
    BY DEF Exists
  <2>3. Exists(gv) = (View.entry[<<h, k>>] # NoVal)
    BY <2>1, <2>2, Zenon
  <2> QED BY <1>2, <2>3, Zenon
<1> HIDE DEF gv
<1>6. /\ DOMAIN my_lengths' = DOMAIN my_lengths
      /\ \A t \in DOMAIN my_lengths :
           /\ my_lengths'[t] \in Nat
           /\ IsFiniteSet(Counted(t)') /\ my_lengths'[t] = Cardinality(Counted(t)')
  BY <1>1, <1>3, SameCount
<1>7. TablesInv' /\ Promise!Put(h, k, gv.val)
  BY <1>1, <1>3, <1>4, <1>6, EntryStep
<1>8. View' = View
  BY <1>3, <1>7 DEF Promise!Put, View
<1> QED BY <1>5, <1>7, <1>8 DEF Promise!Contains

LEMMA BorrowMutStep ==
  ASSUME TablesInv, Session, NEW h \in DOMAIN my_lengths, NEW k \in Keys, NEW v \in Vals,
         BorrowBoxMut(h, k, v)
  PROVE  TablesInv' /\ Promise!Update(h, k, v)
<1> DEFINE e == <<h, k>>
           gv == GetOrCreateGlobalValue(e)
           new == WriteRef(gv, v)
<1>1. Exists(gv) /\ Keep(e, new) /\ UseHeapMemory(e) /\ result' = gv.val
      /\ UNCHANGED <<new_tables, removed_tables, my_lengths>> /\ OnEntry
  BY DEF BorrowBoxMut, Session, OnEntry
<1>2. /\ View.entry[e] = Seen(e) /\ Seen(e) = gv.val /\ Fits(gv, store[e])
      /\ Exists(gv) <=> Seen(e) # NoVal
      /\ Seen(e) \in Vals \cup {NoVal}
  BY EntryOf
<1>3. Fits(new, store[e]) /\ new.val = v /\ v # NoVal
  BY <1>1, <1>2, WriteRefFits, TablesAssumption
<1> HIDE DEF gv, new
<1>4. /\ DOMAIN my_lengths' = DOMAIN my_lengths
      /\ \A t \in DOMAIN my_lengths :
           /\ my_lengths'[t] \in Nat
           /\ IsFiniteSet(Counted(t)') /\ my_lengths'[t] = Cardinality(Counted(t)')
  BY <1>1, <1>2, <1>3, SameCount
<1>5. TablesInv' /\ Promise!Put(h, k, new.val)
  BY <1>1, <1>2, <1>3, <1>4, EntryStep
<1> QED BY <1>1, <1>2, <1>3, <1>5 DEF Promise!Update

LEMMA AddStep ==
  ASSUME TablesInv, Session, NEW h \in DOMAIN my_lengths, NEW k \in Keys, NEW v \in Vals, AddBox(h, k, v)
  PROVE  TablesInv' /\ Promise!Add(h, k, v)
<1> DEFINE e == <<h, k>>
           gv == GetOrCreateGlobalValue(e)
           new == MoveTo(gv, v)
<1>1. ~Exists(gv) /\ Keep(e, new) /\ UseHeapMemory(e) /\ result' = NoVal
      /\ my_lengths' = [my_lengths EXCEPT ![h] = my_lengths[h] + 1] /\ OnEntry
  BY DEF AddBox, Session, OnEntry
<1>2. /\ View.entry[e] = Seen(e) /\ Seen(e) = gv.val /\ Fits(gv, store[e])
      /\ Exists(gv) <=> Seen(e) # NoVal
      /\ IsFiniteSet(Counted(h)) /\ my_lengths[h] = Cardinality(Counted(h)) /\ my_lengths[h] \in Nat
  BY EntryOf
<1>3. Fits(new, store[e]) /\ new.val = v /\ v # NoVal
  BY <1>1, <1>2, MoveToFits, TablesAssumption
<1> HIDE DEF gv, new
<1>4. /\ Counted(h)' = Counted(h) \cup {k} /\ k \notin Counted(h)
      /\ \A t \in DOMAIN my_lengths : t # h => Counted(t)' = Counted(t)
  BY <1>1, <1>2, <1>3, CountedStep
<1>5. IsFiniteSet(Counted(h)') /\ Cardinality(Counted(h)') = Cardinality(Counted(h)) + 1
  BY <1>2, <1>4, FS_AddElement
<1>6. /\ DOMAIN my_lengths' = DOMAIN my_lengths
      /\ \A t \in DOMAIN my_lengths :
           /\ my_lengths'[t] \in Nat
           /\ IsFiniteSet(Counted(t)') /\ my_lengths'[t] = Cardinality(Counted(t)')
  <2>1. \A t \in DOMAIN my_lengths : IsFiniteSet(Counted(t)) /\ my_lengths[t] = Cardinality(Counted(t)) /\ my_lengths[t] \in Nat
    BY DEF TablesInv, TablesTypeOK, ViewCounted
  <2> HIDE DEF Counted
  <2> QED BY <1>1, <1>2, <1>4, <1>5, <2>1
<1>7. TablesInv' /\ Promise!Put(h, k, new.val)
  BY <1>1, <1>2, <1>3, <1>6, EntryStep
<1> QED BY <1>1, <1>2, <1>3, <1>7 DEF Promise!Add

LEMMA RemoveStep ==
  ASSUME TablesInv, Session, NEW h \in DOMAIN my_lengths, NEW k \in Keys, RemoveBox(h, k)
  PROVE  TablesInv' /\ Promise!Remove(h, k)
<1> DEFINE e == <<h, k>>
           gv == GetOrCreateGlobalValue(e)
           new == MoveFrom(gv)
<1>1. Exists(gv) /\ Keep(e, new) /\ UseHeapMemory(e) /\ result' = gv.val
      /\ my_lengths' = [my_lengths EXCEPT ![h] = my_lengths[h] - 1] /\ my_lengths[h] > 0 /\ OnEntry
  BY DEF RemoveBox, Session, OnEntry
<1>2. /\ View.entry[e] = Seen(e) /\ Seen(e) = gv.val /\ Fits(gv, store[e])
      /\ Exists(gv) <=> Seen(e) # NoVal
      /\ Seen(e) \in Vals \cup {NoVal}
      /\ IsFiniteSet(Counted(h)) /\ my_lengths[h] = Cardinality(Counted(h)) /\ my_lengths[h] \in Nat
  BY EntryOf
<1>3. Fits(new, store[e]) /\ new.val = NoVal
  BY <1>1, <1>2, MoveFromFits
<1> HIDE DEF gv, new
<1>4. /\ Counted(h)' = Counted(h) \ {k} /\ k \in Counted(h)
      /\ \A t \in DOMAIN my_lengths : t # h => Counted(t)' = Counted(t)
  BY <1>1, <1>2, <1>3, CountedStep
<1>5. IsFiniteSet(Counted(h)') /\ Cardinality(Counted(h)') = Cardinality(Counted(h)) - 1
  BY <1>2, <1>4, FS_RemoveElement
<1>6. /\ DOMAIN my_lengths' = DOMAIN my_lengths
      /\ \A t \in DOMAIN my_lengths :
           /\ my_lengths'[t] \in Nat
           /\ IsFiniteSet(Counted(t)') /\ my_lengths'[t] = Cardinality(Counted(t)')
  <2>1. \A t \in DOMAIN my_lengths : IsFiniteSet(Counted(t)) /\ my_lengths[t] = Cardinality(Counted(t)) /\ my_lengths[t] \in Nat
    BY DEF TablesInv, TablesTypeOK, ViewCounted
  <2> HIDE DEF Counted
  <2> QED BY <1>1, <1>2, <1>4, <1>5, <2>1
<1>7. TablesInv' /\ Promise!Put(h, k, new.val)
  BY <1>1, <1>2, <1>3, <1>6, EntryStep
<1> QED BY <1>1, <1>2, <1>3, <1>7 DEF Promise!Remove

-----------------------------------------------------------------------------
(* Steps on whole tables *)

\* What is seen depends on storage and on the entries touched only.
LEMMA SeenStays ==
  ASSUME UNCHANGED <<store, content>>
  PROVE  /\ \A e \in Entries : Seen(e)' = Seen(e)
         /\ \A h : Counted(h)' = Counted(h)
         /\ \A h : Stored(h)' = Stored(h)
         /\ [e \in Entries |-> Seen(e)]' = [e \in Entries |-> Seen(e)]
  BY DEF Seen, Counted, Stored, GetOrCreateGlobalValue

\* A new handle is no table's, in storage or in the transaction.
LEMMA NewHandleIsFresh ==
  ASSUME TablesInv, session_hash # 0, Cardinality(new_tables) < MaxNew, NewHandle \notin new_tables
  PROVE  /\ NewHandle \in Handles /\ NewHandle \notin DOMAIN my_lengths \cup DOMAIN lengths
         /\ NewHandle[1] = session_hash /\ session_hash <= hashes
         /\ \A k \in Keys : Seen(<<NewHandle, k>>) = NoVal
<1>1. Cardinality(new_tables) \in Nat
  BY FS_CardinalityType DEF TablesInv, HandlesOK
<1>2. session_hash \in 1 .. MaxHash /\ session_hash <= hashes
  BY TablesAssumption DEF TablesInv, TablesTypeOK
<1>3. Cardinality(new_tables) \in 0 .. MaxNew - 1
  BY <1>1, TablesAssumption
<1>4. NewHandle \in Handles /\ NewHandle[1] = session_hash
  BY <1>2, <1>3 DEF NewHandle, Handles
<1>5. NewHandle \notin DOMAIN lengths
  BY <1>2, <1>4, TablesAssumption DEF TablesInv, HandlesOK
<1>6. NewHandle \notin DOMAIN my_lengths
  BY <1>5 DEF TablesInv, HandlesOK
<1>7. \A k \in Keys : Seen(<<NewHandle, k>>) = NoVal
  <2> SUFFICES ASSUME NEW k \in Keys PROVE Seen(<<NewHandle, k>>) = NoVal
    OBVIOUS
  <2>1. <<NewHandle, k>> \in Entries /\ <<NewHandle, k>>[1] = NewHandle
    BY <1>4 DEF Entries
  <2> QED BY <1>6, <2>1 DEF TablesInv, ViewCounted
<1> QED BY <1>2, <1>4, <1>5, <1>6, <1>7

LEMMA NewTableStep ==
  ASSUME TablesInv, Session, NewTableHandle
  PROVE  TablesInv' /\ \E h \in Handles : Promise!New(h)
<1> DEFINE new == NewHandle
<1>1. /\ Cardinality(new_tables) < MaxNew /\ new \notin new_tables
      /\ new_tables' = new_tables \cup {new}
      /\ my_lengths' = [h \in DOMAIN my_lengths \cup {new} |-> IF h = new THEN 0 ELSE my_lengths[h]]
      /\ result' = NoVal
      /\ UNCHANGED <<store, lengths, hashes, session_hash, removed_tables, content, heap>>
      /\ session_hash # 0
  BY DEF NewTableHandle, Session
<1>2. /\ new \in Handles /\ new \notin DOMAIN my_lengths \cup DOMAIN lengths
      /\ new[1] = session_hash /\ session_hash <= hashes
      /\ \A k \in Keys : Seen(<<new, k>>) = NoVal
  BY <1>1, NewHandleIsFresh
<1> HIDE DEF new
<1>3. /\ \A e \in Entries : Seen(e)' = Seen(e)
      /\ \A h : Counted(h)' = Counted(h)
      /\ [e \in Entries |-> Seen(e)]' = [e \in Entries |-> Seen(e)]
  BY <1>1, SeenStays
<1>4. TablesTypeOK'
  BY <1>1, <1>2 DEF TablesInv, TablesTypeOK
<1>5. Counted(new) = {} /\ IsFiniteSet(Counted(new)) /\ Cardinality(Counted(new)) = 0
  <2>1. Counted(new) = {}
    BY <1>2 DEF Counted
  <2> QED BY <2>1, FS_EmptySet
<1>6. ViewCounted'
  <2>1. \A h \in DOMAIN my_lengths' : IsFiniteSet(Counted(h)') /\ my_lengths'[h] = Cardinality(Counted(h)')
    <3>1. \A h \in DOMAIN my_lengths : IsFiniteSet(Counted(h)) /\ my_lengths[h] = Cardinality(Counted(h))
      BY DEF TablesInv, ViewCounted
    <3> QED BY <1>1, <1>3, <1>5, <3>1
  <2>2. \A e \in Entries : Seen(e)' # NoVal => e[1] \in DOMAIN my_lengths'
    BY <1>1, <1>3 DEF TablesInv, ViewCounted
  <2> QED BY <2>1, <2>2 DEF ViewCounted
<1>7. EntriesOK' /\ StoreCounted' /\ IdleOK' /\ HeapOK'
  BY <1>1 DEF TablesInv, EntriesOK, StoreCounted, Stored, NoOrphans, IdleOK, HeapOK
<1>8. HandlesOK'
  <2>1. IsFiniteSet(new_tables')
    BY <1>1, FS_AddElement DEF TablesInv, HandlesOK
  <2> QED BY <1>1, <1>2, <2>1 DEF TablesInv, HandlesOK
<1>9. Promise!New(new)
  <2>1. new \notin View.tables \cup Committed.tables
    BY <1>2 DEF View, Committed
  <2>2. \A k \in Keys : View.entry[<<new, k>>] = NoVal
    BY <1>2, ViewHas DEF Entries
  <2>3. View' = [View EXCEPT !.tables = View.tables \cup {new}]
    <3>1. DOMAIN my_lengths' = DOMAIN my_lengths \cup {new}
      BY <1>1
    <3>2. View' = [tables |-> DOMAIN my_lengths', entry |-> [x \in Entries |-> Seen(x)]']
      BY DEF View
    <3>3. View = [tables |-> DOMAIN my_lengths, entry |-> [x \in Entries |-> Seen(x)]]
      BY DEF View
    <3> QED BY <1>3, <3>1, <3>2, <3>3
  <2> QED BY <1>1, <2>1, <2>2, <2>3 DEF Promise!New
<1> QED BY <1>2, <1>4, <1>6, <1>7, <1>8, <1>9 DEF TablesInv

LEMMA DestroyStep ==
  ASSUME TablesInv, Session, NEW h \in DOMAIN my_lengths, DestroyEmptyBox(h)
  PROVE  TablesInv' /\ Promise!DestroyEmpty(h)
<1>1. /\ my_lengths[h] = 0
      /\ removed_tables' = removed_tables \cup {h}
      /\ my_lengths' = [t \in DOMAIN my_lengths \ {h} |-> my_lengths[t]]
      /\ result' = NoVal
      /\ UNCHANGED <<store, lengths, hashes, session_hash, new_tables, content, heap>>
      /\ session_hash # 0
  BY DEF DestroyEmptyBox, Session
<1>2. /\ \A e \in Entries : Seen(e)' = Seen(e)
      /\ \A t : Counted(t)' = Counted(t)
      /\ [e \in Entries |-> Seen(e)]' = [e \in Entries |-> Seen(e)]
  BY <1>1, SeenStays
<1>3. h \in Handles
  BY DEF TablesInv, TablesTypeOK
<1>4. \A k \in Keys : Seen(<<h, k>>) = NoVal
  <2>1. Counted(h) = {}
    BY <1>1, FS_EmptySet DEF TablesInv, ViewCounted
  <2> QED BY <2>1 DEF Counted
<1>5. DOMAIN my_lengths' = DOMAIN my_lengths \ {h} /\ \A t \in DOMAIN my_lengths' : my_lengths'[t] = my_lengths[t]
  BY <1>1
<1>6. TablesTypeOK'
  BY <1>1, <1>3, <1>5 DEF TablesInv, TablesTypeOK
<1>7. ViewCounted'
  <2>1. \A t \in DOMAIN my_lengths' : IsFiniteSet(Counted(t)') /\ my_lengths'[t] = Cardinality(Counted(t)')
    <3>1. \A t \in DOMAIN my_lengths : IsFiniteSet(Counted(t)) /\ my_lengths[t] = Cardinality(Counted(t))
      BY DEF TablesInv, ViewCounted
    <3> QED BY <1>2, <1>5, <3>1
  <2>2. ASSUME NEW e \in Entries, Seen(e)' # NoVal PROVE e[1] \in DOMAIN my_lengths'
    <3>1. Seen(e) # NoVal /\ e[1] \in DOMAIN my_lengths
      BY <1>2, <2>2 DEF TablesInv, ViewCounted
    <3>2. e[1] # h
      <4>1. e = <<e[1], e[2]>> /\ e[2] \in Keys
        BY DEF Entries
      <4> QED BY <1>4, <3>1, <4>1
    <3> QED BY <1>5, <3>1, <3>2
  <2> QED BY <2>1, <2>2 DEF ViewCounted
<1>8. EntriesOK' /\ StoreCounted' /\ IdleOK' /\ HeapOK'
  BY <1>1 DEF TablesInv, EntriesOK, StoreCounted, Stored, NoOrphans, IdleOK, HeapOK
<1>9. HandlesOK'
  BY <1>1, <1>5 DEF TablesInv, HandlesOK
<1>10. Promise!DestroyEmpty(h)
  <2>1. \A k \in Keys : View.entry[<<h, k>>] = NoVal
    BY <1>3, <1>4, ViewHas DEF Entries
  <2>2. View' = [View EXCEPT !.tables = View.tables \ {h}]
    <3>1. View' = [tables |-> DOMAIN my_lengths', entry |-> [x \in Entries |-> Seen(x)]']
      BY DEF View
    <3>2. View = [tables |-> DOMAIN my_lengths, entry |-> [x \in Entries |-> Seen(x)]]
      BY DEF View
    <3> QED BY <1>2, <1>5, <3>1, <3>2
  <2> QED BY <1>1, <2>1, <2>2 DEF Promise!DestroyEmpty
<1> QED BY <1>6, <1>7, <1>8, <1>9, <1>10 DEF TablesInv

-----------------------------------------------------------------------------
(* Steps on whole transactions *)

\* With nothing touched, a transaction sees what is stored.
Untouched == content = << >>

LEMMA SeenIsStored ==
  ASSUME Untouched
  PROVE  /\ \A e \in Entries : Seen(e) = store[e]
         /\ \A h : Counted(h) = Stored(h)
         /\ store \in [Entries -> Vals \cup {NoVal}] => [e \in Entries |-> Seen(e)] = store
<1>1. DOMAIN content = {}
  BY DEF Untouched
<1>2. \A e : Seen(e) = store[e]
  BY <1>1 DEF Seen, GetOrCreateGlobalValue, Cached
<1>3. \A h : Counted(h) = Stored(h)
  BY <1>2 DEF Counted, Stored
<1> QED BY <1>2, <1>3

\* A context with nothing touched and storage's own tables is sound when storage is.
Clear ==
  /\ Untouched /\ TablesTypeOK /\ StoreCounted
  /\ my_lengths = lengths /\ new_tables = {} /\ heap = [e \in Entries |-> 0]
  /\ \A h \in DOMAIN lengths : h[1] <= hashes /\ (session_hash # 0 => h[1] < session_hash)

LEMMA ClearIsSound == Clear => TablesInv /\ View = Committed
<1> SUFFICES ASSUME Clear PROVE TablesInv /\ View = Committed
  OBVIOUS
<1> USE DEF Clear
<1>1. DOMAIN content = {}
  BY DEF Untouched
<1>2. EntriesOK /\ IdleOK /\ HeapOK
  BY <1>1 DEF EntriesOK, IdleOK, HeapOK
<1>3. HandlesOK
  BY FS_EmptySet DEF HandlesOK
<1>4. ViewCounted
  <2>1. \A h : Counted(h) = Stored(h)
    BY SeenIsStored
  <2>2. \A h \in DOMAIN my_lengths : IsFiniteSet(Counted(h)) /\ my_lengths[h] = Cardinality(Counted(h))
    BY <2>1 DEF StoreCounted
  <2>3. \A e \in Entries : Seen(e) # NoVal => e[1] \in DOMAIN my_lengths
    BY SeenIsStored DEF StoreCounted, NoOrphans
  <2> QED BY <2>2, <2>3 DEF ViewCounted
<1>5. View = Committed
  BY SeenIsStored DEF View, Committed, TablesTypeOK
<1> QED BY <1>2, <1>3, <1>4, <1>5 DEF TablesInv

LEMMA ClearIsSoundNext == Clear' => TablesInv' /\ View' = Committed'
<1>1. Clear' => (TablesInv /\ View = Committed)'
  BY ClearIsSound, PTL
<1> QED BY <1>1

LEMMA TablesInitOK == TablesInit => TablesInv /\ TableStoreInit
<1> SUFFICES ASSUME TablesInit PROVE TablesInv /\ TableStoreInit
  OBVIOUS
<1>1. Untouched /\ DOMAIN lengths = {} /\ DOMAIN content = {} /\ my_lengths = lengths
  BY DEF TablesInit, Untouched
<1>2. TablesTypeOK
  BY <1>1, TablesAssumption DEF TablesInit, TablesTypeOK
<1>3. StoreCounted
  BY <1>1 DEF TablesInit, StoreCounted, NoOrphans
<1>4. TablesInv /\ View = Committed
  BY <1>1, <1>2, <1>3, ClearIsSound DEF TablesInit, Clear
<1>5. Committed = Promise!Nothing
  BY <1>1 DEF Committed, Promise!Nothing, TablesInit, Entries
<1> QED BY <1>4, <1>5 DEF TableStoreInit, Promise!Init, TablesInit

LEMMA BeginStep ==
  ASSUME TablesInv, Begin
  PROVE  TablesInv' /\ Promise!Begin
<1>1. Untouched' /\ DOMAIN content' = {} /\ my_lengths' = lengths' /\ UNCHANGED <<store, lengths>>
  BY DEF Begin, Untouched
<1>2. hashes \in Nat /\ MaxHash \in Nat /\ hashes' = hashes + 1 /\ session_hash' = hashes + 1 /\ hashes < MaxHash
  BY TablesAssumption DEF TablesInv, TablesTypeOK, Begin
<1>3. hashes' \in 0 .. MaxHash /\ session_hash' \in 0 .. hashes' /\ session_hash' # 0
  BY <1>2
<1>4. TablesTypeOK'
  BY <1>1, <1>3, TablesAssumption DEF TablesInv, TablesTypeOK, Begin
<1>5. StoreCounted'
  BY <1>1 DEF TablesInv, StoreCounted, NoOrphans, Stored
<1>6. \A h \in DOMAIN lengths' : h[1] <= hashes' /\ h[1] < session_hash'
  <2> SUFFICES ASSUME NEW h \in DOMAIN lengths PROVE h[1] <= hashes' /\ h[1] < session_hash'
    BY <1>1
  <2>1. h \in Handles /\ h[1] <= hashes
    BY DEF TablesInv, TablesTypeOK, HandlesOK
  <2>2. h[1] \in Nat
    BY <2>1, TablesAssumption DEF Handles
  <2> QED BY <1>2, <2>1, <2>2
<1>7. TablesInv' /\ View' = Committed'
  BY <1>1, <1>4, <1>5, <1>6, ClearIsSoundNext DEF Begin, Clear
<1>8. Committed' = Committed
  BY <1>1 DEF Committed
<1>9. ~(session_hash # 0) /\ (session_hash # 0)'
  BY <1>3 DEF Begin
<1>10. (session_hash # 0)' = TRUE
  BY <1>9
<1> QED BY <1>7, <1>8, <1>9, <1>10 DEF Promise!Begin, Begin

LEMMA StartStep ==
  ASSUME TablesInv, StartSession
  PROVE  TablesInv' /\ UNCHANGED Promise!vars
<1>1. UNCHANGED <<store, lengths, new_tables, removed_tables, content, my_lengths, heap, result>>
  BY DEF StartSession
<1>2. hashes \in Nat /\ MaxHash \in Nat /\ hashes' = hashes + 1 /\ session_hash' = hashes + 1 /\ hashes < MaxHash
      /\ session_hash # 0
  BY TablesAssumption DEF TablesInv, TablesTypeOK, StartSession
<1>3. hashes' \in 0 .. MaxHash /\ session_hash' \in 0 .. hashes' /\ session_hash' # 0
  BY <1>2
<1>4. TablesTypeOK'
  BY <1>1, <1>3 DEF TablesInv, TablesTypeOK
<1>5. EntriesOK' /\ StoreCounted' /\ IdleOK' /\ HeapOK'
  BY <1>1, <1>3 DEF TablesInv, EntriesOK, StoreCounted, Stored, NoOrphans, IdleOK, HeapOK
<1>6. /\ \A e \in Entries : Seen(e)' = Seen(e)
      /\ \A t : Counted(t)' = Counted(t)
      /\ [e \in Entries |-> Seen(e)]' = [e \in Entries |-> Seen(e)]
  BY <1>1, SeenStays
<1>7. ViewCounted'
  BY <1>1, <1>6 DEF TablesInv, ViewCounted
<1>8. HandlesOK'
  <2>1. ASSUME NEW h \in Handles, h[1] <= hashes PROVE h[1] <= hashes' /\ h[1] < session_hash'
    <3>1. h[1] \in Nat
      BY TablesAssumption DEF Handles
    <3> QED BY <1>2, <2>1, <3>1
  <2>2. DOMAIN lengths \subseteq Handles /\ new_tables \subseteq Handles
    BY DEF TablesInv, TablesTypeOK
  <2>3. \A h \in DOMAIN lengths : h[1] <= hashes' /\ h[1] < session_hash'
    BY <2>1, <2>2 DEF TablesInv, HandlesOK
  <2>4. \A h \in new_tables : h[1] <= hashes'
    BY <2>1, <2>2 DEF TablesInv, HandlesOK
  <2> QED BY <1>1, <2>3, <2>4 DEF TablesInv, HandlesOK
<1>9. View' = View /\ Committed' = Committed
  BY <1>1, <1>6 DEF View, Committed
<1>10. (session_hash # 0)' = (session_hash # 0)
  BY <1>2, <1>3
<1> QED BY <1>1, <1>4, <1>5, <1>7, <1>8, <1>9, <1>10 DEF TablesInv, Promise!vars

\* What the end of a transaction leaves.
LEMMA EndStep ==
  ASSUME TablesInv, session_hash # 0, Reset, my_lengths' = lengths', StoreCounted',
         store' \in [Entries -> Vals \cup {NoVal}],
         DOMAIN lengths' \subseteq Handles, \A h \in DOMAIN lengths' : lengths'[h] \in Nat /\ h[1] <= hashes,
         Committed' \in {View, Committed}
  PROVE  TablesInv' /\ Promise!End
<1>1. Untouched' /\ DOMAIN content' = {} /\ session_hash' = 0 /\ UNCHANGED hashes
  BY DEF Reset, Untouched
<1>2. TablesTypeOK'
  BY <1>1, TablesAssumption DEF TablesInv, TablesTypeOK, Reset
<1>3. TablesInv' /\ View' = Committed'
  BY <1>1, <1>2, ClearIsSoundNext DEF Reset, Clear
<1>4. (session_hash # 0)' = FALSE
  BY <1>1
<1> QED BY <1>3, <1>4 DEF Promise!End, Reset

LEMMA AbortStep ==
  ASSUME TablesInv, Abort
  PROVE  TablesInv' /\ Promise!End
<1>1. session_hash # 0 /\ Reset /\ my_lengths' = lengths' /\ UNCHANGED <<store, lengths>>
  BY DEF Abort
<1>2. StoreCounted'
  BY <1>1 DEF TablesInv, StoreCounted, Stored, NoOrphans
<1>3. \A h \in DOMAIN lengths' : lengths'[h] \in Nat /\ h[1] <= hashes
  BY <1>1 DEF TablesInv, TablesTypeOK, HandlesOK
<1>4. store' \in [Entries -> Vals \cup {NoVal}] /\ DOMAIN lengths' \subseteq Handles
  BY <1>1 DEF TablesInv, TablesTypeOK
<1>5. Committed' = Committed
  BY <1>1 DEF Committed
<1> QED BY <1>1, <1>2, <1>3, <1>4, <1>5, EndStep

\* The change set makes storage what the transaction saw.
LEMMA ChangesAreSeen ==
  ASSUME TablesInv, NEW e \in Entries
  PROVE  (IF e \in DOMAIN Changes THEN Changes[e].val ELSE store[e]) = Seen(e)
<1>1. e \in DOMAIN Changes <=> e \in DOMAIN content /\ content[e].status \notin {"None", "Clean"}
  BY DEF Changes
<1>2. CASE e \notin DOMAIN content
  BY <1>1, <1>2 DEF Seen, GetOrCreateGlobalValue, Cached
<1>3. CASE e \in DOMAIN content
  <2>1. Fits(content[e], store[e]) /\ Seen(e) = content[e].val
    BY <1>3 DEF TablesInv, EntriesOK, Seen, GetOrCreateGlobalValue
  <2>2. CASE content[e].status \in {"None", "Clean"}
    BY <1>1, <2>1, <2>2 DEF Fits, Gone
  <2>3. CASE content[e].status \notin {"None", "Clean"}
    <3>1. Changes[e] = IntoEffect(content[e]) /\ e \in DOMAIN Changes
      BY <1>3, <2>3 DEF Changes
    <3>2. content[e].status \in {"Fresh", "Dirty", "Deleted"}
      BY <2>1, <2>3 DEF Fits, GlobalValue, Statuses
    <3>3. IntoEffect(content[e]).val = content[e].val
      BY <2>1, <3>2 DEF IntoEffect, Fits, Gone
    <3> QED BY <2>1, <3>1, <3>3
  <2> QED BY <2>2, <2>3
<1> QED BY <1>2, <1>3

LEMMA CommitStep ==
  ASSUME TablesInv, IntoChangeSet
  PROVE  TablesInv' /\ Promise!End
<1>1. session_hash # 0 /\ Reset /\ lengths' = my_lengths /\ my_lengths' = my_lengths
  BY DEF IntoChangeSet
<1>2. store' = [e \in Entries |-> Seen(e)]
  BY ChangesAreSeen DEF IntoChangeSet
<1>3. \A e \in Entries : Seen(e) \in Vals \cup {NoVal}
  BY GlobalFits DEF TablesInv
<1>4. StoreCounted'
  <2>1. ASSUME NEW h \in DOMAIN my_lengths PROVE Stored(h)' = Counted(h)
    <3>1. \A k \in Keys : <<h, k>> \in Entries
      BY DEF TablesInv, TablesTypeOK, Entries
    <3>2. \A k \in Keys : store'[<<h, k>>] = Seen(<<h, k>>)
      BY <1>2, <3>1
    <3> QED BY <3>2 DEF Stored, Counted
  <2>2. NoOrphans'
    BY <1>1, <1>2 DEF NoOrphans, TablesInv, ViewCounted
  <2>3. \A h \in DOMAIN lengths' : IsFiniteSet(Stored(h)') /\ lengths'[h] = Cardinality(Stored(h)')
    BY <1>1, <2>1 DEF TablesInv, ViewCounted
  <2> QED BY <2>2, <2>3 DEF StoreCounted
<1>5. DOMAIN lengths' \subseteq Handles /\ \A h \in DOMAIN lengths' : lengths'[h] \in Nat /\ h[1] <= hashes
  BY <1>1 DEF TablesInv, TablesTypeOK, HandlesOK
<1>6. Committed' = View
  BY <1>1, <1>2 DEF Committed, View
<1> QED BY <1>1, <1>2, <1>3, <1>4, <1>5, <1>6, EndStep

-----------------------------------------------------------------------------
(* The refinement *)

\* A native's call is a call of the store.
LEMMA CallStep ==
  ASSUME TablesInv, Session, NewTableHandle \/ \E h \in DOMAIN my_lengths : OnTable(h)
  PROVE  TablesInv' /\ TableStoreStep
<1>1. SUFFICES TablesInv' /\ Promise!Call
  <2>1. session_hash # 0 /\ UNCHANGED <<store, lengths, session_hash>>
    BY DEF Session
  <2>2. Committed' = Committed /\ (session_hash # 0)' = (session_hash # 0)
    BY <2>1 DEF Committed
  <2> QED BY <1>1, <2>1, <2>2 DEF TableStoreStep, Promise!Next, Promise!Within
<1>2. View.tables = DOMAIN my_lengths
  BY ViewHas
<1>3. CASE NewTableHandle
  BY <1>3, NewTableStep DEF Promise!Call
<1>4. ASSUME NEW h \in DOMAIN my_lengths, OnTable(h)
      PROVE  TablesInv' /\ Promise!Call
  <2>1. CASE DestroyEmptyBox(h)
    BY <1>2, <2>1, DestroyStep DEF Promise!Call
  <2>2. ASSUME NEW k \in Keys, BorrowBox(h, k) PROVE TablesInv' /\ Promise!Call
    BY <1>2, <2>2, BorrowStep DEF Promise!Call
  <2>3. ASSUME NEW k \in Keys, ContainsBox(h, k) PROVE TablesInv' /\ Promise!Call
    BY <1>2, <2>3, ContainsStep DEF Promise!Call
  <2>4. ASSUME NEW k \in Keys, RemoveBox(h, k) PROVE TablesInv' /\ Promise!Call
    BY <1>2, <2>4, RemoveStep DEF Promise!Call
  <2>5. ASSUME NEW k \in Keys, NEW v \in Vals, AddBox(h, k, v) PROVE TablesInv' /\ Promise!Call
    BY <1>2, <2>5, AddStep DEF Promise!Call
  <2>6. ASSUME NEW k \in Keys, NEW v \in Vals, BorrowBoxMut(h, k, v) PROVE TablesInv' /\ Promise!Call
    BY <1>2, <2>6, BorrowMutStep DEF Promise!Call
  <2> QED BY <1>4, <2>1, <2>2, <2>3, <2>4, <2>5, <2>6 DEF OnTable
<1> QED BY <1>3, <1>4

LEMMA TablesStutter ==
  ASSUME TablesInv, UNCHANGED table_vars
  PROVE  TablesInv' /\ UNCHANGED Promise!vars
<1>1. UNCHANGED <<store, lengths, hashes, session_hash, new_tables, removed_tables, content, my_lengths,
                  heap, result>>
  BY DEF table_vars, table_context
<1>2. /\ \A e \in Entries : Seen(e)' = Seen(e)
      /\ \A t : Counted(t)' = Counted(t)
      /\ [e \in Entries |-> Seen(e)]' = [e \in Entries |-> Seen(e)]
  BY <1>1, SeenStays
<1>3. TablesTypeOK' /\ EntriesOK' /\ StoreCounted' /\ IdleOK' /\ HeapOK' /\ HandlesOK'
  BY <1>1 DEF TablesInv, TablesTypeOK, EntriesOK, StoreCounted, Stored, NoOrphans, IdleOK, HeapOK, HandlesOK
<1>4. ViewCounted'
  BY <1>1, <1>2 DEF TablesInv, ViewCounted
<1>5. View' = View /\ Committed' = Committed /\ (session_hash # 0)' = (session_hash # 0)
  BY <1>1, <1>2 DEF View, Committed
<1> QED BY <1>1, <1>3, <1>4, <1>5 DEF TablesInv, Promise!vars

LEMMA TablesStep == TablesInv /\ [TablesNext]_table_vars => TablesInv' /\ TableStoreStep
<1> SUFFICES ASSUME TablesInv, [TablesNext]_table_vars
             PROVE  TablesInv' /\ TableStoreStep
  OBVIOUS
<1>1. CASE Begin
  BY <1>1, BeginStep DEF TableStoreStep, Promise!Next
<1>2. CASE StartSession
  BY <1>2, StartStep DEF TableStoreStep
<1>3. CASE IntoChangeSet
  BY <1>3, CommitStep DEF TableStoreStep, Promise!Next
<1>4. CASE Abort
  BY <1>4, AbortStep DEF TableStoreStep, Promise!Next
<1>5. CASE Session /\ (NewTableHandle \/ \E h \in DOMAIN my_lengths : OnTable(h))
  BY <1>5, CallStep
<1>6. CASE UNCHANGED table_vars
  BY <1>6, TablesStutter DEF TableStoreStep
<1> QED BY <1>1, <1>2, <1>3, <1>4, <1>5, <1>6 DEF TablesNext

\* What the invariant says of the change set, of storage and of the memory counted.
LEMMA TablesInvImplies ==
  TablesInv => TablesTypeOK /\ OpsFitStorage /\ CleanIsAsStored /\ NoOrphans /\ HeapIsCountedOnce
<1> SUFFICES ASSUME TablesInv
             PROVE  TablesTypeOK /\ OpsFitStorage /\ CleanIsAsStored /\ NoOrphans /\ HeapIsCountedOnce
  OBVIOUS
<1>1. CleanIsAsStored
  BY DEF TablesInv, EntriesOK, Fits, CleanIsAsStored
<1>2. HeapIsCountedOnce
  BY DEF TablesInv, HeapOK, HeapIsCountedOnce
<1>3. OpsFitStorage
  <2> SUFFICES ASSUME NEW e \in DOMAIN Changes
               PROVE  (Changes[e].op = "New") <=> (store[e] = NoVal)
    BY DEF OpsFitStorage
  <2>1. e \in DOMAIN content /\ content[e].status \notin {"None", "Clean"} /\ Changes[e] = IntoEffect(content[e])
    BY DEF Changes
  <2>2. Fits(content[e], store[e])
    BY <2>1 DEF TablesInv, EntriesOK
  <2>3. content[e].status \in {"Fresh", "Dirty", "Deleted"}
    BY <2>1, <2>2 DEF Fits, GlobalValue, Statuses
  <2>4. (Changes[e].op = "New") <=> (content[e].status = "Fresh")
    BY <2>1, <2>3 DEF IntoEffect
  <2> QED BY <2>2, <2>3, <2>4 DEF Fits
<1> QED BY <1>1, <1>2, <1>3 DEF TablesInv, StoreCounted

\* The table extension's sessions implement a store of tables whose transactions are all or nothing.
THEOREM TablesImplementTheirStore == TablesSpec => TableStoreSpec
<1>1. TablesInit => TablesInv /\ TableStoreInit
  BY TablesInitOK
<1>2. TablesInv /\ [TablesNext]_table_vars => TablesInv' /\ TableStoreStep
  BY TablesStep
<1> QED BY <1>1, <1>2, PTL DEF TablesSpec, TableStoreSpec

\* Tables are transactional, for every set of keys and values and however many sessions, tables and
\* calls there are: programs see their own writes over the committed store, the change set's operations
\* fit it, no entry is left of a destroyed table, and what is loaded is counted once.
THEOREM SessionTablesCorrectness == TablesSpec => TablesAreTransactional
<1>1. TablesSpec => []TablesInv
  BY TablesInitOK, TablesStep, PTL DEF TablesSpec
<1>2. TablesInv => TablesTypeOK /\ OpsFitStorage /\ CleanIsAsStored /\ NoOrphans /\ HeapIsCountedOnce
  BY TablesInvImplies
<1> QED BY <1>1, <1>2, TablesImplementTheirStore, PTL DEF TablesAreTransactional
=============================================================================
