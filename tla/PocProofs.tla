----------------------------- MODULE PocProofs -----------------------------
(***************************************************************************)
(* Proofs about Poc: the type invariant, the agreement of the registry's   *)
(* tables, the token every application was listed with and what a          *)
(* ContributionEvent stands for and where it comes from.  Then             *)
(* about PocPowerStore: the store keeps, for any users, powers, operators  *)
(* and number of periods, the newest power written, and its events say so. *)
(***************************************************************************)
EXTENDS Poc, PocPowerStore, TLAPS

AppAddressOf == [a \in DOMAIN apps |-> apps[a].app_address]
CustodyOf == [a \in DOMAIN apps |-> apps[a].custody_address]
EquityTokenOf == [a \in DOMAIN apps |-> apps[a].equity_token_address]

PocInv == TypeOK /\ TablesAgree /\ WhitelistedTokenIsListed

-----------------------------------------------------------------------------
(* Tables *)

\* Adding a fresh key for a fresh admin keeps a table the inverse of its field.
LEMMA AddedInverse ==
  ASSUME NEW table, NEW f, Inverse(table, f),
         NEW key, key \notin DOMAIN table, NEW admin, admin \notin DOMAIN f
  PROVE  Inverse(Added(table, key, admin),
                 [a \in DOMAIN f \cup {admin} |-> IF a = admin THEN key ELSE f[a]])
  BY DEF Inverse, Added

\* Moving an admin's key to a fresh one does, too.
LEMMA MovedInverse ==
  ASSUME NEW table, NEW f, Inverse(table, f),
         NEW admin \in DOMAIN f, NEW key, key \notin DOMAIN table
  PROVE  Inverse(Moved(table, f[admin], key, admin),
                 [a \in DOMAIN f |-> IF a = admin THEN key ELSE f[a]])
  BY DEF Inverse, Moved

\* TablesAgree with its fields named.
LEMMA TablesAgreeNamed ==
  TablesAgree <=> /\ Inverse(app_address_to_admin, AppAddressOf)
                  /\ Inverse(custody_address_to_admin, CustodyOf)
                  /\ Inverse(equity_token_to_admin, EquityTokenOf)
  BY DEF TablesAgree, AppAddressOf, CustodyOf, EquityTokenOf

\* A step that leaves the tables and the fields they index alone keeps their agreement.
LEMMA FieldsUnchanged ==
  ASSUME TablesAgree, UNCHANGED <<tables, AppAddressOf, CustodyOf, EquityTokenOf>>
  PROVE  TablesAgree'
<1>1. TablesAgree' <=> /\ Inverse(app_address_to_admin', AppAddressOf')
                       /\ Inverse(custody_address_to_admin', CustodyOf')
                       /\ Inverse(equity_token_to_admin', EquityTokenOf')
  BY DEF TablesAgree, AppAddressOf, CustodyOf, EquityTokenOf
<1> QED
  BY <1>1, TablesAgreeNamed DEF tables

-----------------------------------------------------------------------------
(* Init *)

LEMMA InitPocInv == Init => PocInv
<1> SUFFICES ASSUME Init PROVE PocInv
  OBVIOUS
<1>1. DOMAIN apps = {}
  BY DEF Init, EmptyTable
<1>2. TypeOK
  BY <1>1, PocAssumption DEF PocAssumption, TypeOK, Init, EmptyTable, Holders
<1>3. TablesAgree
  BY <1>1 DEF TablesAgree, Inverse, Init, EmptyTable
<1>4. WhitelistedTokenIsListed
  BY <1>1 DEF WhitelistedTokenIsListed
<1> QED
  BY <1>2, <1>3, <1>4 DEF PocInv

-----------------------------------------------------------------------------
(* The administrator's transactions *)

LEMMA RegisterAppKeepsPocInv ==
  ASSUME PocInv, NEW admin \in Admins, NEW app_address \in AppAddresses,
         NEW token \in Tokens, NEW custody \in Custodies,
         RegisterApp(admin, app_address, token, custody)
  PROVE  PocInv'
<1> DEFINE info == [app_address |-> app_address, equity_token_address |-> token,
                    custody_address |-> custody, app_state |-> "ACTIVE",
                    poc_listing_status |-> "REGISTERED"]
<1>1. /\ admin \notin DOMAIN apps
      /\ apps' = [a \in DOMAIN apps \cup {admin} |-> IF a = admin THEN info ELSE apps[a]]
  BY DEF RegisterApp, Added
<1>2. info \in AppInfo
  BY DEF AppInfo
<1>3. TypeOK'
  <2>1. DOMAIN apps' \subseteq Admins /\ apps' \in [DOMAIN apps' -> AppInfo]
    BY <1>1, <1>2 DEF PocInv, TypeOK
  <2>2. UNCHANGED <<reviewed, listed, balance, contributed>>
    BY DEF RegisterApp, money, review_history
  <2> QED
    BY <2>1, <2>2 DEF PocInv, TypeOK
<1>4. TablesAgree'
  <2>1. AppAddressOf' = [a \in DOMAIN AppAddressOf \cup {admin} |->
                           IF a = admin THEN app_address ELSE AppAddressOf[a]]
    BY <1>1 DEF AppAddressOf
  <2>2. CustodyOf' = [a \in DOMAIN CustodyOf \cup {admin} |->
                        IF a = admin THEN custody ELSE CustodyOf[a]]
    BY <1>1 DEF CustodyOf
  <2>3. EquityTokenOf' = [a \in DOMAIN EquityTokenOf \cup {admin} |->
                            IF a = admin THEN token ELSE EquityTokenOf[a]]
    BY <1>1 DEF EquityTokenOf
  <2>4. /\ admin \notin DOMAIN AppAddressOf
        /\ admin \notin DOMAIN CustodyOf
        /\ admin \notin DOMAIN EquityTokenOf
    BY <1>1 DEF AppAddressOf, CustodyOf, EquityTokenOf
  <2>5. Inverse(app_address_to_admin', AppAddressOf')
    <3>1. /\ Inverse(app_address_to_admin, AppAddressOf)
          /\ app_address \notin DOMAIN app_address_to_admin
          /\ app_address_to_admin' = Added(app_address_to_admin, app_address, admin)
      BY TablesAgreeNamed DEF PocInv, RegisterApp
    <3> QED
      BY <2>1, <2>4, <3>1, AddedInverse
  <2>6. Inverse(custody_address_to_admin', CustodyOf')
    <3>1. /\ Inverse(custody_address_to_admin, CustodyOf)
          /\ custody \notin DOMAIN custody_address_to_admin
          /\ custody_address_to_admin' = Added(custody_address_to_admin, custody, admin)
      BY TablesAgreeNamed DEF PocInv, RegisterApp
    <3> QED
      BY <2>2, <2>4, <3>1, AddedInverse
  <2>7. Inverse(equity_token_to_admin', EquityTokenOf')
    <3>1. /\ Inverse(equity_token_to_admin, EquityTokenOf)
          /\ token \notin DOMAIN equity_token_to_admin
          /\ equity_token_to_admin' = Added(equity_token_to_admin, token, admin)
      BY TablesAgreeNamed DEF PocInv, RegisterApp
    <3> QED
      BY <2>3, <2>4, <3>1, AddedInverse
  <2> QED
    BY <2>5, <2>6, <2>7 DEF TablesAgree, AppAddressOf, CustodyOf, EquityTokenOf
<1>5. WhitelistedTokenIsListed'
  <2>1. \A a \in DOMAIN apps' : apps'[a].poc_listing_status = "WHITELISTED" =>
           a \in DOMAIN apps /\ apps'[a] = apps[a]
    BY <1>1
  <2> QED
    BY <2>1 DEF RegisterApp, review_history, PocInv, WhitelistedTokenIsListed
<1> QED
  BY <1>3, <1>4, <1>5 DEF PocInv

LEMMA UpdateAppAddressKeepsPocInv ==
  ASSUME PocInv, NEW admin \in Admins, NEW new \in AppAddresses, UpdateAppAddress(admin, new)
  PROVE  PocInv'
<1>1. /\ admin \in DOMAIN apps
      /\ apps' = [apps EXCEPT ![admin].app_address = new]
      /\ new \notin DOMAIN app_address_to_admin
      /\ app_address_to_admin' = Moved(app_address_to_admin, apps[admin].app_address, new, admin)
      /\ UNCHANGED <<custody_address_to_admin, equity_token_to_admin, reviewed, listed, balance,
                     contributed>>
  BY DEF UpdateAppAddress, money, review_history
<1>2. DOMAIN apps \subseteq Admins /\ apps \in [DOMAIN apps -> AppInfo]
  BY DEF PocInv, TypeOK
<1>3. /\ DOMAIN apps' = DOMAIN apps
      /\ \A a \in DOMAIN apps : a # admin => apps'[a] = apps[a]
      /\ apps'[admin] = [apps[admin] EXCEPT !.app_address = new]
  BY <1>1, <1>2
<1>4. apps'[admin] \in AppInfo
  BY <1>1, <1>2, <1>3 DEF AppInfo
<1>5. TypeOK'
  BY <1>1, <1>2, <1>3, <1>4 DEF PocInv, TypeOK
<1>6. TablesAgree'
  <2>1. /\ AppAddressOf' = [a \in DOMAIN AppAddressOf |->
                              IF a = admin THEN new ELSE AppAddressOf[a]]
        /\ UNCHANGED <<CustodyOf, EquityTokenOf>>
    BY <1>1, <1>2, <1>3 DEF AppAddressOf, CustodyOf, EquityTokenOf, AppInfo
  <2>2. admin \in DOMAIN AppAddressOf /\ AppAddressOf[admin] = apps[admin].app_address
    BY <1>1 DEF AppAddressOf
  <2>3. /\ Inverse(app_address_to_admin, AppAddressOf)
        /\ Inverse(custody_address_to_admin, CustodyOf)
        /\ Inverse(equity_token_to_admin, EquityTokenOf)
    BY TablesAgreeNamed DEF PocInv
  <2>4. Inverse(app_address_to_admin', AppAddressOf')
    BY <1>1, <2>1, <2>2, <2>3, MovedInverse
  <2>5. /\ Inverse(custody_address_to_admin', CustodyOf')
        /\ Inverse(equity_token_to_admin', EquityTokenOf')
    BY <1>1, <2>1, <2>3
  <2> QED
    BY <2>4, <2>5 DEF TablesAgree, AppAddressOf, CustodyOf, EquityTokenOf
<1>7. WhitelistedTokenIsListed'
  <2>1. \A a \in DOMAIN apps : /\ apps'[a].poc_listing_status = apps[a].poc_listing_status
                               /\ apps'[a].equity_token_address = apps[a].equity_token_address
    BY <1>1, <1>2, <1>3 DEF AppInfo
  <2> QED
    BY <1>1, <1>3, <2>1 DEF PocInv, WhitelistedTokenIsListed
<1> QED
  BY <1>5, <1>6, <1>7 DEF PocInv

LEMMA UpdateCustodyAddressKeepsPocInv ==
  ASSUME PocInv, NEW admin \in Admins, NEW new \in Custodies,
         UpdateCustodyAddress(admin, new)
  PROVE  PocInv'
<1>1. /\ admin \in DOMAIN apps
      /\ apps' = [apps EXCEPT ![admin].custody_address = new]
      /\ new \notin DOMAIN custody_address_to_admin
      /\ custody_address_to_admin' =
           Moved(custody_address_to_admin, apps[admin].custody_address, new, admin)
      /\ UNCHANGED <<app_address_to_admin, equity_token_to_admin, reviewed, listed, balance,
                     contributed>>
  BY DEF UpdateCustodyAddress, money, review_history
<1>2. DOMAIN apps \subseteq Admins /\ apps \in [DOMAIN apps -> AppInfo]
  BY DEF PocInv, TypeOK
<1>3. /\ DOMAIN apps' = DOMAIN apps
      /\ \A a \in DOMAIN apps : a # admin => apps'[a] = apps[a]
      /\ apps'[admin] = [apps[admin] EXCEPT !.custody_address = new]
  BY <1>1, <1>2
<1>4. apps'[admin] \in AppInfo
  BY <1>1, <1>2, <1>3 DEF AppInfo
<1>5. TypeOK'
  BY <1>1, <1>2, <1>3, <1>4 DEF PocInv, TypeOK
<1>6. TablesAgree'
  <2>1. /\ CustodyOf' = [a \in DOMAIN CustodyOf |-> IF a = admin THEN new ELSE CustodyOf[a]]
        /\ UNCHANGED <<AppAddressOf, EquityTokenOf>>
    BY <1>1, <1>2, <1>3 DEF AppAddressOf, CustodyOf, EquityTokenOf, AppInfo
  <2>2. admin \in DOMAIN CustodyOf /\ CustodyOf[admin] = apps[admin].custody_address
    BY <1>1 DEF CustodyOf
  <2>3. /\ Inverse(app_address_to_admin, AppAddressOf)
        /\ Inverse(custody_address_to_admin, CustodyOf)
        /\ Inverse(equity_token_to_admin, EquityTokenOf)
    BY TablesAgreeNamed DEF PocInv
  <2>4. Inverse(custody_address_to_admin', CustodyOf')
    BY <1>1, <2>1, <2>2, <2>3, MovedInverse
  <2>5. /\ Inverse(app_address_to_admin', AppAddressOf')
        /\ Inverse(equity_token_to_admin', EquityTokenOf')
    BY <1>1, <2>1, <2>3
  <2> QED
    BY <2>4, <2>5 DEF TablesAgree, AppAddressOf, CustodyOf, EquityTokenOf
<1>7. WhitelistedTokenIsListed'
  <2>1. \A a \in DOMAIN apps : /\ apps'[a].poc_listing_status = apps[a].poc_listing_status
                               /\ apps'[a].equity_token_address = apps[a].equity_token_address
    BY <1>1, <1>2, <1>3 DEF AppInfo
  <2> QED
    BY <1>1, <1>3, <2>1 DEF PocInv, WhitelistedTokenIsListed
<1> QED
  BY <1>5, <1>6, <1>7 DEF PocInv

\* The reset of the listing keeps the review when the token changes.
LEMMA UpdateEquityTokenAddressKeepsPocInv ==
  ASSUME PocInv, NEW admin \in Admins, NEW new \in Tokens,
         UpdateEquityTokenAddress(admin, new)
  PROVE  PocInv'
<1> DEFINE info == [apps[admin] EXCEPT !.equity_token_address = new,
                                       !.poc_listing_status = "REGISTERED"]
<1>1. /\ admin \in DOMAIN apps
      /\ apps' = [apps EXCEPT ![admin] = info]
      /\ new \notin DOMAIN equity_token_to_admin
      /\ equity_token_to_admin' =
           Moved(equity_token_to_admin, apps[admin].equity_token_address, new, admin)
      /\ UNCHANGED <<app_address_to_admin, custody_address_to_admin, reviewed, listed, balance,
                     contributed>>
  BY DEF UpdateEquityTokenAddress, ResetListingStatus, money, review_history
<1>2. DOMAIN apps \subseteq Admins /\ apps \in [DOMAIN apps -> AppInfo]
  BY DEF PocInv, TypeOK
<1>3. /\ DOMAIN apps' = DOMAIN apps
      /\ \A a \in DOMAIN apps : a # admin => apps'[a] = apps[a]
      /\ apps'[admin] = info
  BY <1>1, <1>2
<1>4. /\ info \in AppInfo
      /\ info.app_address = apps[admin].app_address
      /\ info.custody_address = apps[admin].custody_address
      /\ info.equity_token_address = new
      /\ info.poc_listing_status = "REGISTERED"
  BY <1>1, <1>2 DEF AppInfo
<1> HIDE DEF info
<1>5. TypeOK'
  BY <1>1, <1>2, <1>3, <1>4 DEF PocInv, TypeOK
<1>6. TablesAgree'
  <2>1. /\ EquityTokenOf' = [a \in DOMAIN EquityTokenOf |->
                               IF a = admin THEN new ELSE EquityTokenOf[a]]
        /\ UNCHANGED <<AppAddressOf, CustodyOf>>
    BY <1>1, <1>3, <1>4 DEF AppAddressOf, CustodyOf, EquityTokenOf
  <2>2. admin \in DOMAIN EquityTokenOf /\ EquityTokenOf[admin] = apps[admin].equity_token_address
    BY <1>1 DEF EquityTokenOf
  <2>3. /\ Inverse(app_address_to_admin, AppAddressOf)
        /\ Inverse(custody_address_to_admin, CustodyOf)
        /\ Inverse(equity_token_to_admin, EquityTokenOf)
    BY TablesAgreeNamed DEF PocInv
  <2>4. Inverse(equity_token_to_admin', EquityTokenOf')
    BY <1>1, <2>1, <2>2, <2>3, MovedInverse
  <2>5. /\ Inverse(app_address_to_admin', AppAddressOf')
        /\ Inverse(custody_address_to_admin', CustodyOf')
    BY <1>1, <2>1, <2>3
  <2> QED
    BY <2>4, <2>5 DEF TablesAgree, AppAddressOf, CustodyOf, EquityTokenOf
<1>7. WhitelistedTokenIsListed'
  BY <1>1, <1>3, <1>4 DEF PocInv, WhitelistedTokenIsListed
<1> QED
  BY <1>5, <1>6, <1>7 DEF PocInv

LEMMA UpdateAppStateKeepsPocInv ==
  ASSUME PocInv, NEW admin \in Admins, NEW new \in {"ACTIVE", "PAUSED", "STOPPED"},
         UpdateAppState(admin, new)
  PROVE  PocInv'
<1>1. /\ admin \in DOMAIN apps
      /\ apps' = [apps EXCEPT ![admin].app_state = new]
      /\ UNCHANGED <<tables, reviewed, listed, balance, contributed>>
  BY DEF UpdateAppState, money, review_history
<1>2. DOMAIN apps \subseteq Admins /\ apps \in [DOMAIN apps -> AppInfo]
  BY DEF PocInv, TypeOK
<1>3. /\ DOMAIN apps' = DOMAIN apps
      /\ \A a \in DOMAIN apps : a # admin => apps'[a] = apps[a]
      /\ apps'[admin] = [apps[admin] EXCEPT !.app_state = new]
  BY <1>1, <1>2
<1>4. apps'[admin] \in AppInfo
  BY <1>1, <1>2, <1>3 DEF AppInfo
<1>5. TypeOK'
  BY <1>1, <1>2, <1>3, <1>4 DEF PocInv, TypeOK
<1>6. TablesAgree'
  <2>1. UNCHANGED <<AppAddressOf, CustodyOf, EquityTokenOf>>
    BY <1>1, <1>2, <1>3 DEF AppAddressOf, CustodyOf, EquityTokenOf, AppInfo
  <2> QED
    BY <1>1, <2>1, FieldsUnchanged DEF PocInv
<1>7. WhitelistedTokenIsListed'
  <2>1. \A a \in DOMAIN apps : /\ apps'[a].poc_listing_status = apps[a].poc_listing_status
                               /\ apps'[a].equity_token_address = apps[a].equity_token_address
    BY <1>1, <1>2, <1>3 DEF AppInfo
  <2> QED
    BY <1>1, <1>3, <2>1 DEF PocInv, WhitelistedTokenIsListed
<1> QED
  BY <1>5, <1>6, <1>7 DEF PocInv

-----------------------------------------------------------------------------
(* The platform *)

\* What a review or a listing does to the registry: nothing but the status changes.
LEMMA StatusKeepsTables ==
  ASSUME PocInv, NEW admin \in DOMAIN apps,
         NEW status \in {"REGISTERED", "WHITELISTED", "SUSPENDED"},
         apps' = [apps EXCEPT ![admin].poc_listing_status = status],
         listed' \in [Admins -> Tokens \cup {NoToken}], UNCHANGED <<tables, reviewed, money>>
  PROVE  /\ TypeOK' /\ TablesAgree'
         /\ DOMAIN apps' = DOMAIN apps
         /\ \A a \in DOMAIN apps : a # admin => apps'[a] = apps[a]
         /\ apps'[admin].poc_listing_status = status
         /\ apps'[admin].equity_token_address = apps[admin].equity_token_address
<1>1. DOMAIN apps \subseteq Admins /\ apps \in [DOMAIN apps -> AppInfo]
  BY DEF PocInv, TypeOK
<1>2. /\ DOMAIN apps' = DOMAIN apps
      /\ \A a \in DOMAIN apps : a # admin => apps'[a] = apps[a]
      /\ apps'[admin] = [apps[admin] EXCEPT !.poc_listing_status = status]
  BY <1>1
<1>3. /\ apps'[admin] \in AppInfo
      /\ apps'[admin].poc_listing_status = status
      /\ apps'[admin].equity_token_address = apps[admin].equity_token_address
  BY <1>1, <1>2 DEF AppInfo
<1>4. TypeOK'
  <2>1. apps' \in [DOMAIN apps' -> AppInfo] /\ DOMAIN apps' \subseteq Admins
    BY <1>1, <1>2, <1>3
  <2> QED
    BY <2>1 DEF PocInv, TypeOK, money
<1>5. TablesAgree'
  <2>1. UNCHANGED <<AppAddressOf, CustodyOf, EquityTokenOf>>
    BY <1>1, <1>2 DEF AppAddressOf, CustodyOf, EquityTokenOf, AppInfo
  <2> QED
    BY <2>1, FieldsUnchanged DEF PocInv
<1> QED
  BY <1>2, <1>3, <1>4, <1>5

LEMMA ReviewKeepsPocInv ==
  ASSUME PocInv, NEW admin \in Admins, Review(admin)
  PROVE  PocInv'
<1>1. /\ admin \in DOMAIN apps
      /\ reviewed' = [reviewed EXCEPT ![admin] = apps[admin].equity_token_address]
      /\ UNCHANGED <<apps, tables, listed, balance, contributed>>
  BY DEF Review, money
<1>2. apps[admin].equity_token_address \in Tokens /\ reviewed \in [Admins -> Tokens \cup {NoToken}]
  BY <1>1 DEF PocInv, TypeOK, AppInfo
<1>3. TypeOK'
  BY <1>1, <1>2 DEF PocInv, TypeOK
<1>4. TablesAgree'
  BY <1>1 DEF PocInv, TablesAgree, tables
<1>5. WhitelistedTokenIsListed'
  BY <1>1 DEF PocInv, WhitelistedTokenIsListed
<1> QED
  BY <1>3, <1>4, <1>5 DEF PocInv

\* A listing is of the token of that moment; other states leave what was listed alone.
LEMMA UpdatePocListingStatusKeepsPocInv ==
  ASSUME PocInv, NEW admin \in Admins, NEW status \in {"REGISTERED", "WHITELISTED", "SUSPENDED"},
         UpdatePocListingStatus(admin, status)
  PROVE  PocInv'
<1>1. /\ admin \in DOMAIN apps
      /\ apps' = [apps EXCEPT ![admin].poc_listing_status = status]
      /\ UNCHANGED <<tables, reviewed, money>>
      /\ listed' = IF status = "WHITELISTED"
                   THEN [listed EXCEPT ![admin] = apps[admin].equity_token_address] ELSE listed
  BY DEF UpdatePocListingStatus
<1>2. apps[admin].equity_token_address \in Tokens /\ listed \in [Admins -> Tokens \cup {NoToken}]
  BY <1>1 DEF PocInv, TypeOK, AppInfo
<1>3. listed' \in [Admins -> Tokens \cup {NoToken}]
  BY <1>1, <1>2
<1>4. /\ TypeOK' /\ TablesAgree'
      /\ DOMAIN apps' = DOMAIN apps
      /\ \A a \in DOMAIN apps : a # admin => apps'[a] = apps[a]
      /\ apps'[admin].poc_listing_status = status
      /\ apps'[admin].equity_token_address = apps[admin].equity_token_address
  BY <1>1, <1>3, StatusKeepsTables
<1>5. \A a \in DOMAIN apps : a # admin => listed'[a] = listed[a]
  BY <1>1, <1>2 DEF PocInv, TypeOK
<1>6. status = "WHITELISTED" => listed'[admin] = apps[admin].equity_token_address
  BY <1>1, <1>2
<1>7. WhitelistedTokenIsListed'
  BY <1>4, <1>5, <1>6 DEF PocInv, WhitelistedTokenIsListed
<1> QED
  BY <1>4, <1>7 DEF PocInv

-----------------------------------------------------------------------------
(* Contributions *)

\* A covered transfer leaves every balance a natural number, also to oneself.
LEMMA TransferredType ==
  ASSUME NEW token \in Tokens, NEW from \in Holders, NEW to \in Holders, NEW amount \in Nat,
         balance \in [Tokens -> [Holders -> Nat]],
         Covers(token, from, amount), Fee[token] <= amount
  PROVE  Transferred(token, from, to, amount) \in [Holders -> Nat]
<1> DEFINE withdrawn == [balance[token] EXCEPT ![from] = balance[token][from] - amount]
<1>1. Fee[token] \in Nat
  BY PocAssumption DEF PocAssumption
<1>2. balance[token] \in [Holders -> Nat] /\ balance[token][from] >= amount
  BY DEF Covers
<1>3. withdrawn \in [Holders -> Nat]
  BY <1>2
<1>4. Transferred(token, from, to, amount)
        = [withdrawn EXCEPT ![to] = withdrawn[to] + amount - Fee[token]]
  BY DEF Transferred
<1> HIDE DEF withdrawn
<1>5. withdrawn[to] + amount - Fee[token] \in Nat
  BY <1>1, <1>3
<1> QED
  BY <1>3, <1>4, <1>5

\* One entry of a table of amounts is replaced by another amount.
LEMMA EntryType ==
  ASSUME NEW table \in [Tokens -> [Holders -> Nat]],
         NEW token \in Tokens, NEW holder \in Holders, NEW n \in Nat
  PROVE  [table EXCEPT ![token][holder] = n] \in [Tokens -> [Holders -> Nat]]
<1>1. [table[token] EXCEPT ![holder] = n] \in [Holders -> Nat]
  OBVIOUS
<1>2. [table EXCEPT ![token][holder] = n]
        = [table EXCEPT ![token] = [table[token] EXCEPT ![holder] = n]]
  OBVIOUS
<1> QED
  BY <1>1, <1>2

LEMMA GrantKeepsPocInv ==
  ASSUME PocInv, Grant
  PROVE  PocInv'
<1> PICK app_address \in AppAddresses, custody \in Custodies, contributor \in Contributors,
         amount \in Amounts :
           GrantEquityWithContribution(app_address, custody, contributor, amount)
  BY DEF Grant
<1> DEFINE admin == app_address_to_admin[app_address]
           token == apps[admin].equity_token_address
           stores == Transferred(token, custody, contributor, amount)
<1>1. /\ app_address \in DOMAIN app_address_to_admin
      /\ Covers(token, custody, amount)
      /\ Fee[token] <= amount
      /\ balance' = [balance EXCEPT ![token] = stores]
      /\ \/ contributed' = [contributed EXCEPT ![token][contributor] =
                              contributed[token][contributor] + amount]
         \/ contributed' = contributed
      /\ UNCHANGED <<apps, tables, reviewed, listed>>
  BY DEF GrantEquityWithContribution, review_history
<1>2. amount \in Nat /\ custody \in Holders /\ contributor \in Holders
  BY PocAssumption DEF PocAssumption, Holders
<1>3. admin \in DOMAIN apps
  BY <1>1 DEF PocInv, TablesAgree, Inverse
<1>4. token \in Tokens
  BY <1>3 DEF PocInv, TypeOK, AppInfo
<1> HIDE DEF admin, token
<1>5. /\ balance \in [Tokens -> [Holders -> Nat]]
      /\ contributed \in [Tokens -> [Holders -> Nat]]
  BY DEF PocInv, TypeOK
<1>6. stores \in [Holders -> Nat]
  BY <1>1, <1>2, <1>4, <1>5, TransferredType
<1> HIDE DEF stores
<1>7. balance' \in [Tokens -> [Holders -> Nat]]
  BY <1>1, <1>5, <1>6
<1>8. contributed' \in [Tokens -> [Holders -> Nat]]
  <2>1. contributed[token][contributor] + amount \in Nat
    BY <1>2, <1>4, <1>5
  <2> DEFINE sum == contributed[token][contributor] + amount
  <2>2. [contributed EXCEPT ![token][contributor] = sum] \in [Tokens -> [Holders -> Nat]]
    <3> sum \in Nat
      BY <2>1
    <3> HIDE DEF sum
    <3> QED
      BY <1>2, <1>4, <1>5, EntryType
  <2>3. contributed' = [contributed EXCEPT ![token][contributor] = sum]
          \/ contributed' = contributed
    BY <1>1
  <2> HIDE DEF sum
  <2> QED
    BY <1>5, <2>2, <2>3
<1>9. TypeOK'
  BY <1>1, <1>7, <1>8 DEF PocInv, TypeOK
<1>10. TablesAgree'
  BY <1>1 DEF PocInv, TablesAgree, tables
<1>11. WhitelistedTokenIsListed'
  BY <1>1 DEF PocInv, WhitelistedTokenIsListed
<1> QED
  BY <1>9, <1>10, <1>11 DEF PocInv

-----------------------------------------------------------------------------
(* The theorems *)

LEMMA NextKeepsPocInv == PocInv /\ [Next]_vars => PocInv'
<1> SUFFICES ASSUME PocInv, [Next]_vars PROVE PocInv'
  OBVIOUS
<1>1. ASSUME NEW admin \in Admins, AdminStep(admin) PROVE PocInv'
  BY <1>1, RegisterAppKeepsPocInv, UpdateAppAddressKeepsPocInv,
     UpdateCustodyAddressKeepsPocInv, UpdateEquityTokenAddressKeepsPocInv,
     UpdateAppStateKeepsPocInv DEF AdminStep
<1>2. ASSUME NEW admin \in Admins, PlatformStep(admin) PROVE PocInv'
  BY <1>2, ReviewKeepsPocInv, UpdatePocListingStatusKeepsPocInv
     DEF PlatformStep, WhitelistAppForPoc
<1>3. CASE Grant
  BY <1>3, GrantKeepsPocInv
<1>4. CASE UNCHANGED vars
  BY <1>4 DEF PocInv, TypeOK, TablesAgree, WhitelistedTokenIsListed, vars,
     tables, review_history, money
<1> QED
  BY <1>1, <1>2, <1>3, <1>4 DEF Next

\* The registry's inductive invariant.
THEOREM PocInvariance == Spec => []PocInv
  BY InitPocInv, NextKeepsPocInv, PTL DEF Spec

\* Every variable keeps its type: no grant, whatever the hooks keep and whoever pays whom,
\* leaves a balance below zero.
THEOREM PocTypeCorrectness == Spec => []TypeOK
<1>1. PocInv => TypeOK
  BY DEF PocInv
<1> QED
  BY <1>1, PocInvariance, PTL

\* The three reverse tables are inverse to the applications' fields, for any number of
\* applications and address changes (poc_registry.move:94-98).
THEOREM TablesCorrectness == Spec => []TablesAgree
<1>1. PocInv => TablesAgree
  BY DEF PocInv
<1> QED
  BY <1>1, PocInvariance, PTL

\* Whatever the administrators change, and whenever the platform's transactions run, a
\* whitelisted application has the token it was listed with (poc_registry.move:351).
THEOREM ListingCorrectness == Spec => []WhitelistedTokenIsListed
<1>1. PocInv => WhitelistedTokenIsListed
  BY DEF PocInv
<1> QED
  BY <1>1, PocInvariance, PTL

-----------------------------------------------------------------------------
(* Events *)

\* Only a grant of a listed application out of its own custody emits an event.
LEMMA EventStep ==
  ASSUME PocInv, [Next]_vars, NEW t \in Tokens, NEW h \in Holders,
         contributed'[t][h] # contributed[t][h]
  PROVE  \E app_address \in DOMAIN app_address_to_admin, amount \in Amounts :
           LET a == app_address_to_admin[app_address]
               custody == apps[a].custody_address
               stores == Transferred(t, custody, h, amount)
           IN /\ a \in DOMAIN apps /\ t = apps[a].equity_token_address
              /\ IsAppEligibleForPoc(a)
              /\ Fee[t] <= amount
              /\ MinimumDeposit(t, h, stores, amount)
              /\ balance' = [balance EXCEPT ![t] = stores]
              /\ contributed'[t][h] = contributed[t][h] + amount
<1>1. contributed' # contributed
  OBVIOUS
<1>2. Grant
  BY <1>1 DEF Next, AdminStep, PlatformStep, RegisterApp, UpdateAppAddress, UpdateCustodyAddress,
              UpdateEquityTokenAddress, UpdateAppState, Review, WhitelistAppForPoc, UpdatePocListingStatus,
              money, vars
<1>3. PICK app_address \in AppAddresses, custody \in Custodies, contributor \in Contributors,
           amount \in Amounts :
             GrantEquityWithContribution(app_address, custody, contributor, amount)
  BY <1>2 DEF Grant
<1> DEFINE a == app_address_to_admin[app_address]
           token == apps[a].equity_token_address
<1>4. /\ app_address \in DOMAIN app_address_to_admin
      /\ IsAppEligibleForPoc(a) /\ custody = apps[a].custody_address
      /\ Fee[token] <= amount
      /\ MinimumDeposit(token, contributor, Transferred(token, custody, contributor, amount), amount)
      /\ balance' = [balance EXCEPT ![token] = Transferred(token, custody, contributor, amount)]
      /\ contributed' = [contributed EXCEPT ![token][contributor] =
                           contributed[token][contributor] + amount]
  BY <1>1, <1>3 DEF GrantEquityWithContribution
<1>5. a \in DOMAIN apps
  BY <1>4 DEF PocInv, TablesAgree, Inverse
<1>6. token \in Tokens
  BY <1>5 DEF PocInv, TypeOK, AppInfo
<1>7. contributed \in [Tokens -> [Holders -> Nat]] /\ contributor \in Holders
  BY DEF PocInv, TypeOK, Holders
<1> HIDE DEF a, token
<1>8. t = token /\ h = contributor
  BY <1>4, <1>6, <1>7
<1>9. contributed'[t][h] = contributed[t][h] + amount
  BY <1>4, <1>6, <1>7, <1>8
<1> QED
  BY <1>4, <1>5, <1>8, <1>9 DEF a, token

\* The event's amount was deposited, and only the custody paid.
LEMMA EventStepProperties ==
  ASSUME PocInv, [Next]_vars
  PROVE  EventsAreReceipts /\ EventsComeFromListedApps
<1>1. ASSUME NEW t \in Tokens, NEW h \in Holders, contributed'[t][h] # contributed[t][h]
      PROVE  /\ balance'[t][h] - balance[t][h] >= contributed'[t][h] - contributed[t][h]
             /\ \E a \in DOMAIN apps :
                  /\ listed[a] = t /\ equity_token_to_admin[t] = a
                  /\ apps[a].app_state = "ACTIVE"
                  /\ \A payer \in Holders :
                       balance'[t][payer] < balance[t][payer] => custody_address_to_admin[payer] = a
  <2>1. PICK app_address \in DOMAIN app_address_to_admin, amount \in Amounts :
               LET a == app_address_to_admin[app_address]
                   custody == apps[a].custody_address
                   stores == Transferred(t, custody, h, amount)
               IN /\ a \in DOMAIN apps /\ t = apps[a].equity_token_address
                  /\ IsAppEligibleForPoc(a)
                  /\ Fee[t] <= amount
                  /\ MinimumDeposit(t, h, stores, amount)
                  /\ balance' = [balance EXCEPT ![t] = stores]
                  /\ contributed'[t][h] = contributed[t][h] + amount
    BY <1>1, EventStep
  <2> DEFINE a == app_address_to_admin[app_address]
             custody == apps[a].custody_address
             stores == Transferred(t, custody, h, amount)
  <2>2. /\ a \in DOMAIN apps /\ t = apps[a].equity_token_address /\ IsAppEligibleForPoc(a)
        /\ Fee[t] <= amount /\ stores[h] - balance[t][h] >= amount
        /\ balance' = [balance EXCEPT ![t] = stores]
        /\ contributed'[t][h] = contributed[t][h] + amount
    BY <2>1 DEF MinimumDeposit
  <2> HIDE DEF a
  <2>3. /\ balance \in [Tokens -> [Holders -> Nat]] /\ contributed[t][h] \in Nat
        /\ amount \in Nat /\ Fee[t] \in Nat
    BY PocAssumption DEF PocAssumption, PocInv, TypeOK
  <2>4. balance'[t] = stores
    BY <2>2, <2>3
  <2>5. balance'[t][h] - balance[t][h] >= contributed'[t][h] - contributed[t][h]
    <3>1. contributed'[t][h] - contributed[t][h] = amount
      BY <2>2, <2>3
    <3> HIDE DEF stores
    <3> QED
      BY <2>2, <2>4, <3>1
  <2>6. ASSUME NEW payer \in Holders, balance'[t][payer] < balance[t][payer]
        PROVE  payer = custody
    <3> SUFFICES ASSUME payer # custody PROVE FALSE
      OBVIOUS
    <3>1. balance[t] \in [Holders -> Nat] /\ balance[t][payer] \in Nat
      BY <2>3
    <3>2. CASE payer = h
      <4>1. stores[payer] = balance[t][payer] + amount - Fee[t]
        BY <3>1, <3>2 DEF Transferred
      <4> QED
        BY <2>2, <2>3, <2>4, <2>6, <3>1, <4>1
    <3>3. CASE payer # h
      <4>1. stores[payer] = balance[t][payer]
        BY <3>1, <3>3 DEF Transferred
      <4> QED
        BY <2>4, <2>6, <3>1, <4>1
    <3> QED
      BY <3>2, <3>3
  <2>7. listed[a] = t
    BY <2>2 DEF PocInv, WhitelistedTokenIsListed, IsAppEligibleForPoc
  <2>8. equity_token_to_admin[t] = a /\ custody_address_to_admin[custody] = a
    BY <2>2 DEF PocInv, TablesAgree, Inverse
  <2> QED
    BY <2>2, <2>5, <2>6, <2>7, <2>8 DEF IsAppEligibleForPoc
<1> QED
  BY <1>1 DEF EventsAreReceipts, EventsComeFromListedApps

\* Whatever a token's hooks keep and whoever pays whom, the contributor received what its
\* ContributionEvent says (poc_contribution.move:93-96).
THEOREM ReceiptCorrectness == Spec => [][EventsAreReceipts]_vars
<1>1. PocInv /\ [Next]_vars => EventsAreReceipts
  BY EventStepProperties
<1> QED
  BY <1>1, PocInvariance, PTL DEF Spec

\* Every ContributionEvent is paid in a token the platform listed, by the custody of the
\* active application it was listed with.
THEOREM EventOrigin == Spec => [][EventsComeFromListedApps]_vars
<1>1. PocInv /\ [Next]_vars => EventsComeFromListedApps
  BY EventStepProperties
<1> QED
  BY <1>1, PocInvariance, PTL DEF Spec

\* Both: every ContributionEvent of an execution tells of a receipt and of where it came from.
THEOREM ContributionEventsCorrectness == Spec => EventsTellTheContributions
<1>1. PocInv /\ [Next]_vars => EventsAreReceipts /\ EventsComeFromListedApps
  BY EventStepProperties
<1> QED
  BY <1>1, PocInvariance, PTL DEF Spec, EventsTellTheContributions

-----------------------------------------------------------------------------
(* The power store *)

PowerStoreInv == PowerStoreTypeOK /\ NewestWrittenWins /\ EventsTellTheStore

\* A user is written unless the store is newer, and keeps its entry otherwise.
LEMMA WrittenOrNewer ==
  ASSUME NEW period \in Periods, PowerStoreTypeOK, NewestWrittenWins,
         NEW u \in DOMAIN users \cup written(period)
  PROVE  LET new == Upsert(users, written(period), period) IN
         /\ u \in DOMAIN new
         /\ u \in written(period) => new[u] = Info(computed[period][u], period)
         /\ u \notin written(period) => u \in DOMAIN users /\ new[u] = users[u]
<1> QED BY DEF Upsert

\* Batches are not changed by computing another.
LEMMA BatchesStay ==
  ASSUME PowerStoreTypeOK, Compute
  PROVE  Periods \subseteq DOMAIN computed' /\ \A p \in Periods : computed'[p] = computed[p]
<1>1. PICK batch \in Batches : computed' = Append(computed, batch) BY DEF Compute
<1> QED BY <1>1 DEF PowerStoreTypeOK, Periods

\* Type correctness is kept by every step.
LEMMA PowerStoreTypeStep == PowerStoreTypeOK /\ [PowerStoreNext]_power_store_vars => PowerStoreTypeOK'
<1> SUFFICES ASSUME PowerStoreTypeOK, [PowerStoreNext]_power_store_vars PROVE PowerStoreTypeOK' OBVIOUS
<1>1. CASE Compute
  <2>1. PICK batch \in Batches : computed' = Append(computed, batch) BY <1>1 DEF Compute
  <2>2. computed' \in Seq(Batches) BY <2>1 DEF PowerStoreTypeOK
  <2>3. Periods \subseteq Periods' BY <1>1, BatchesStay DEF Periods
  <2> QED BY <1>1, <2>2, <2>3 DEF Compute, PowerStoreTypeOK
<1>2. ASSUME NEW new_operator \in Operators, set_operator(new_operator) PROVE PowerStoreTypeOK'
  BY <1>2 DEF set_operator, PowerStoreTypeOK, Periods
<1>3. ASSUME NEW period \in Periods, WriteBack(period) PROVE PowerStoreTypeOK'
  <2>1. PICK caller \in Operators : batch_update(caller, period) BY <1>3 DEF WriteBack
  <2>2. computed[period] \in Batches BY DEF PowerStoreTypeOK, Periods
  <2>3. written(period) \subseteq Users BY <2>2 DEF written, Batches
  <2>4. DOMAIN users' = DOMAIN users \cup written(period) BY <2>1 DEF batch_update, Upsert
  <2> QED BY <2>1, <2>3, <2>4 DEF batch_update, PowerStoreTypeOK, Periods
<1>4. CASE UNCHANGED power_store_vars BY <1>4 DEF power_store_vars, PowerStoreTypeOK, Periods
<1> QED BY <1>1, <1>2, <1>3, <1>4 DEF PowerStoreNext

\* The newest batch written wins, whichever batch is written now.
LEMMA NewestStep == PowerStoreTypeOK /\ NewestWrittenWins /\ [PowerStoreNext]_power_store_vars => NewestWrittenWins'
<1> SUFFICES ASSUME PowerStoreTypeOK, NewestWrittenWins, [PowerStoreNext]_power_store_vars PROVE NewestWrittenWins' OBVIOUS
<1>1. CASE Compute
  <2>1. users' = users /\ delivered' = delivered BY <1>1 DEF Compute
  <2>2. \A p \in delivered : computed'[p] = computed[p] BY <1>1, BatchesStay DEF PowerStoreTypeOK
  <2> QED BY <2>1, <2>2 DEF NewestWrittenWins
<1>2. ASSUME NEW new_operator \in Operators, set_operator(new_operator) PROVE NewestWrittenWins'
  BY <1>2 DEF set_operator, NewestWrittenWins
<1>3. ASSUME NEW period \in Periods, WriteBack(period) PROVE NewestWrittenWins'
  <2>1. PICK caller \in Operators : batch_update(caller, period) BY <1>3 DEF WriteBack
  <2>2. users' = Upsert(users, written(period), period) /\ computed' = computed
        /\ delivered' = delivered \cup {period} BY <2>1 DEF batch_update
  <2>3. period \in Nat /\ delivered \subseteq Nat BY DEF PowerStoreTypeOK, Periods
  <2>4. \A u \in DOMAIN users : users[u].last_updated_period \in delivered
    BY DEF NewestWrittenWins, Info
  <2>5. ASSUME NEW p \in delivered', NEW u \in DOMAIN computed[p]
        PROVE  u \in DOMAIN users' /\ users'[u].last_updated_period >= p
    <3>1. CASE u \in written(period)
      <4>1. users'[u] = Info(computed[period][u], period) /\ u \in DOMAIN users' BY <2>2, <3>1, WrittenOrNewer
      <4>2. u \in DOMAIN users => period >= users[u].last_updated_period
        <5> SUFFICES ASSUME u \in DOMAIN users PROVE period >= users[u].last_updated_period OBVIOUS
        <5>1. ~(period < users[u].last_updated_period) BY <3>1 DEF written
        <5>2. users[u].last_updated_period \in Nat BY <2>3, <2>4
        <5> QED BY <5>1, <5>2, <2>3
      <4>3. p = period \/ (u \in DOMAIN users /\ users[u].last_updated_period >= p)
        BY <2>2 DEF NewestWrittenWins
      <4>4. p \in Nat BY <2>2, <2>3
      <4>5. period >= p
        <5>1. CASE p = period BY <5>1, <2>3
        <5>2. CASE u \in DOMAIN users /\ users[u].last_updated_period >= p
          <6>1. users[u].last_updated_period \in Nat BY <5>2, <2>3, <2>4
          <6> QED BY <5>2, <6>1, <4>2, <4>4, <2>3
        <5> QED BY <4>3, <5>1, <5>2
      <4> QED BY <4>1, <4>5 DEF Info
    <3>2. CASE u \notin written(period)
      <4>1. u \in DOMAIN users
        BY <3>2, <2>2 DEF NewestWrittenWins, written
      <4>2. users'[u] = users[u] /\ u \in DOMAIN users' BY <4>1, <3>2, <2>2, WrittenOrNewer
      <4>3. p = period => period < users[u].last_updated_period BY <3>2, <4>1 DEF written
      <4>4. p # period => users[u].last_updated_period >= p BY <2>2 DEF NewestWrittenWins
      <4>5. users[u].last_updated_period \in Nat /\ p \in Nat BY <4>1, <2>3, <2>4, <2>2
      <4> QED BY <4>2, <4>3, <4>4, <4>5
    <3> QED BY <3>1, <3>2
  <2>6. ASSUME NEW u \in DOMAIN users'
        PROVE  \E p \in delivered' : u \in DOMAIN computed[p] /\ users'[u] = Info(computed[p][u], p)
    <3>1. u \in DOMAIN users \cup written(period) BY <2>2 DEF Upsert
    <3>2. CASE u \in written(period)
      <4>1. u \in DOMAIN computed[period] BY <3>2 DEF written
      <4>2. users'[u] = Info(computed[period][u], period) BY <2>2, <3>2, WrittenOrNewer
      <4> QED BY <4>1, <4>2, <2>2
    <3>3. CASE u \notin written(period)
      <4>1. u \in DOMAIN users /\ users'[u] = users[u] BY <2>2, <3>1, <3>3, WrittenOrNewer
      <4> QED BY <4>1, <2>2 DEF NewestWrittenWins
    <3> QED BY <3>2, <3>3
  <2> QED BY <2>5, <2>6, <2>2 DEF NewestWrittenWins
<1>4. CASE UNCHANGED power_store_vars BY <1>4 DEF power_store_vars, NewestWrittenWins
<1> QED BY <1>1, <1>2, <1>3, <1>4 DEF PowerStoreNext

\* Events and store are written together.
LEMMA EventsStep == EventsTellTheStore /\ [PowerStoreNext]_power_store_vars => EventsTellTheStore'
<1> SUFFICES ASSUME EventsTellTheStore, [PowerStoreNext]_power_store_vars PROVE EventsTellTheStore' OBVIOUS
<1>1. CASE Compute BY <1>1 DEF Compute, EventsTellTheStore
<1>2. ASSUME NEW new_operator \in Operators, set_operator(new_operator) PROVE EventsTellTheStore'
  BY <1>2 DEF set_operator, EventsTellTheStore
<1>3. ASSUME NEW period \in Periods, WriteBack(period) PROVE EventsTellTheStore'
  <2>1. PICK caller \in Operators : batch_update(caller, period) BY <1>3 DEF WriteBack
  <2> QED BY <2>1 DEF batch_update, emit_events, EventsTellTheStore
<1>4. CASE UNCHANGED power_store_vars BY <1>4 DEF power_store_vars, EventsTellTheStore
<1> QED BY <1>1, <1>2, <1>3, <1>4 DEF PowerStoreNext

LEMMA PowerStoreInvInit == PowerStoreInit => PowerStoreInv
<1> SUFFICES ASSUME PowerStoreInit PROVE PowerStoreInv OBVIOUS
<1>1. PowerStoreTypeOK BY DEF PowerStoreInit, PowerStoreTypeOK
<1>2. NewestWrittenWins BY DEF PowerStoreInit, NewestWrittenWins
<1> QED BY <1>1, <1>2 DEF PowerStoreInit, PowerStoreInv, EventsTellTheStore

LEMMA PowerStoreInvAlways == PowerStoreSpec => []PowerStoreInv
<1>1. PowerStoreInv /\ [PowerStoreNext]_power_store_vars => PowerStoreInv' BY PowerStoreTypeStep, NewestStep, EventsStep DEF PowerStoreInv
<1> QED BY PowerStoreInvInit, <1>1, PTL DEF PowerStoreSpec

\* The store holds the newest power written for every user (poc_power_store.move:batch_update).
THEOREM NewestWrittenWinsAlways == PowerStoreSpec => []NewestWrittenWins
<1>1. PowerStoreInv => NewestWrittenWins BY DEF PowerStoreInv
<1> QED BY PowerStoreInvAlways, <1>1, PTL

\* The events written say what the store holds (poc_power_store.move:PowerUpdatedEvent).
THEOREM EventsTellTheStoreAlways == PowerStoreSpec => []EventsTellTheStore
<1>1. PowerStoreInv => EventsTellTheStore BY DEF PowerStoreInv
<1> QED BY PowerStoreInvAlways, <1>1, PTL
=============================================================================
