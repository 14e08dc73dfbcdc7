-------------------------------- MODULE Poc --------------------------------
(***************************************************************************)
(* aptos-framework/sources/poc: the registry of applications               *)
(* (poc_registry.move) and the one path by which an application emits a    *)
(* ContributionEvent (poc_contribution.move), with the token transfers it  *)
(* makes (dispatchable_fungible_asset.move) and the platform's review of   *)
(* applications, which is external.                                        *)
(*                                                                         *)
(* One action is one transaction; an abort is an action not enabled, a     *)
(* call that returns early changes nothing and is left out.                *)
(*                                                                         *)
(* Abstractions.                                                           *)
(*  - Tables are functions on the set of their keys.  metadata_uri is left *)
(*    out, and app_admin, which only repeats the key of the apps table.    *)
(*  - initialize_registry has run; signers are who they must be.           *)
(*  - A token's dispatchable hooks keep Fee[token] of every transfer.      *)
(*  - contributed[t][h] sums the ContributionEvents for h, by the token    *)
(*    they were paid in.  Two more variables are there for the properties: *)
(*    reviewed[a] is the token the platform saw when it last looked at a,  *)
(*    listed[a] the one a had when it was last whitelisted.  No action     *)
(*    compares either with the token a has.                                *)
(***************************************************************************)
EXTENDS Integers, FiniteSets

CONSTANTS
  Admins, AppAddresses, Custodies, Contributors,
  Tokens,            \* the addresses that hold fungible asset metadata
  Fee,               \* what the hooks of each token keep of a transfer
  Supply,            \* each custody's balance in every token at first
  Amounts,           \* the amounts an application may grant
  NoToken

ASSUME PocAssumption ==
  /\ Fee \in [Tokens -> Nat] /\ Supply \in [Custodies -> Nat] /\ Amounts \subseteq Nat
  /\ NoToken \notin Tokens

Holders == Custodies \cup Contributors

VARIABLES
  apps,                                      \* Registry: admin -> AppInfo
  app_address_to_admin, custody_address_to_admin, equity_token_to_admin,
  reviewed, listed, balance, contributed

tables == <<app_address_to_admin, custody_address_to_admin, equity_token_to_admin>>
money == <<balance, contributed>>
review_history == <<reviewed, listed>>
vars == <<apps, tables, review_history, money>>

-----------------------------------------------------------------------------
(* Tables *)

EmptyTable == [k \in {} |-> NoToken]

Added(table, key, value) ==
  [k \in DOMAIN table \cup {key} |-> IF k = key THEN value ELSE table[k]]

\* Mutant: the old key left behind.
MovedKeepingOld(table, old, new, value) ==
  [k \in DOMAIN table \cup {new} |-> IF k = new THEN value ELSE table[k]]

\* remove of the old key, then add of the new one
Moved(table, old, new, value) ==
  [k \in (DOMAIN table \ {old}) \cup {new} |-> IF k = new THEN value ELSE table[k]]

-----------------------------------------------------------------------------
(* Transactions of an application's administrator *)

RegisterApp(admin, app_address, token, custody) ==
  /\ admin \notin DOMAIN apps
  /\ app_address \notin DOMAIN app_address_to_admin
  /\ custody \notin DOMAIN custody_address_to_admin
  /\ token \notin DOMAIN equity_token_to_admin
  /\ apps' = Added(apps, admin,
       [app_address |-> app_address, equity_token_address |-> token,
        custody_address |-> custody, app_state |-> "ACTIVE",
        poc_listing_status |-> "REGISTERED"])
  /\ app_address_to_admin' = Added(app_address_to_admin, app_address, admin)
  /\ custody_address_to_admin' = Added(custody_address_to_admin, custody, admin)
  /\ equity_token_to_admin' = Added(equity_token_to_admin, token, admin)
  /\ UNCHANGED <<review_history, money>>

UpdateAppAddress(admin, new) ==
  LET old == apps[admin].app_address
  IN /\ admin \in DOMAIN apps
     /\ new # old
     /\ new \notin DOMAIN app_address_to_admin
     /\ app_address_to_admin' = Moved(app_address_to_admin, old, new, admin)
     /\ apps' = [apps EXCEPT ![admin].app_address = new]
     /\ UNCHANGED <<custody_address_to_admin, equity_token_to_admin, review_history, money>>

UpdateCustodyAddress(admin, new) ==
  LET old == apps[admin].custody_address
  IN /\ admin \in DOMAIN apps
     /\ new # old
     /\ new \notin DOMAIN custody_address_to_admin
     /\ custody_address_to_admin' = Moved(custody_address_to_admin, old, new, admin)
     /\ apps' = [apps EXCEPT ![admin].custody_address = new]
     /\ UNCHANGED <<app_address_to_admin, equity_token_to_admin, review_history, money>>

\* Mutant: without the reset.
ResetListingStatusNever(status) == status

\* reset_poc_listing_status_if_needed
ResetListingStatus(status) == "REGISTERED"

UpdateEquityTokenAddress(admin, new) ==
  LET info == apps[admin]
      old == info.equity_token_address
  IN /\ admin \in DOMAIN apps
     /\ new # old
     /\ new \notin DOMAIN equity_token_to_admin
     /\ equity_token_to_admin' = Moved(equity_token_to_admin, old, new, admin)
     /\ apps' = [apps EXCEPT ![admin] =
          [info EXCEPT !.equity_token_address = new,
                       !.poc_listing_status = ResetListingStatus(info.poc_listing_status)]]
     /\ UNCHANGED <<app_address_to_admin, custody_address_to_admin, review_history, money>>

\* pause_app, resume_app and stop_app; only resume_app looks at the state it leaves.
UpdateAppState(admin, new) ==
  /\ admin \in DOMAIN apps
  /\ new = "ACTIVE" => apps[admin].app_state # "STOPPED"
  /\ apps' = [apps EXCEPT ![admin].app_state = new]
  /\ UNCHANGED <<tables, review_history, money>>

-----------------------------------------------------------------------------
(* The platform *)

\* External: the platform looks at an application.
Review(admin) ==
  /\ admin \in DOMAIN apps
  /\ reviewed' = [reviewed EXCEPT ![admin] = apps[admin].equity_token_address]
  /\ UNCHANGED <<apps, tables, listed, money>>

\* External: it lists only what it has looked at, in a transaction of its own.
MayBeListed(admin) == reviewed[admin] # NoToken

\* update_poc_listing_status: whatever the application's token is by now.
UpdatePocListingStatus(admin, status) ==
  /\ admin \in DOMAIN apps
  /\ apps[admin].poc_listing_status # status
  /\ apps' = [apps EXCEPT ![admin].poc_listing_status = status]
  /\ listed' = IF status = "WHITELISTED"
               THEN [listed EXCEPT ![admin] = apps[admin].equity_token_address] ELSE listed
  /\ UNCHANGED <<tables, reviewed, money>>

\* whitelist_app_for_poc, by set_poc_listing_status
WhitelistAppForPoc(admin) == UpdatePocListingStatus(admin, "WHITELISTED")

-----------------------------------------------------------------------------
(* Contributions *)

IsAppEligibleForPoc(admin) ==
  apps[admin].app_state = "ACTIVE" /\ apps[admin].poc_listing_status = "WHITELISTED"

\* withdraw from one primary store, deposit what the hooks leave into the other
Transferred(token, from, to, amount) ==
  LET withdrawn == [balance[token] EXCEPT ![from] = @ - amount]
  IN [withdrawn EXCEPT ![to] = @ + amount - Fee[token]]

\* withdraw aborts on an insufficient balance
Covers(token, from, amount) == balance[token][from] >= amount

\* Mutant: without the assertion on what was deposited.
AnyDeposit(token, to, stores, amount) == TRUE

\* the assertion of transfer_assert_minimum_deposit
MinimumDeposit(token, to, stores, amount) == stores[to] - balance[token][to] >= amount

GrantEquityWithContribution(app_address, custody, contributor, amount) ==
  LET admin == app_address_to_admin[app_address]
      token == apps[admin].equity_token_address
      stores == Transferred(token, custody, contributor, amount)
      trusted == IsAppEligibleForPoc(admin) /\ custody = apps[admin].custody_address
  IN /\ amount > 0
     /\ app_address \in DOMAIN app_address_to_admin
     /\ Covers(token, custody, amount)
     /\ Fee[token] <= amount
     /\ MinimumDeposit(token, contributor, stores, amount)
     /\ balance' = [balance EXCEPT ![token] = stores]
     /\ contributed' = IF trusted THEN [contributed EXCEPT ![token][contributor] = @ + amount]
                                  ELSE contributed
     /\ UNCHANGED <<apps, tables, review_history>>

-----------------------------------------------------------------------------
Init ==
  /\ apps = EmptyTable
  /\ app_address_to_admin = EmptyTable
  /\ custody_address_to_admin = EmptyTable
  /\ equity_token_to_admin = EmptyTable
  /\ reviewed = [admin \in Admins |-> NoToken]
  /\ listed = [admin \in Admins |-> NoToken]
  /\ balance = [t \in Tokens |-> [h \in Holders |-> IF h \in Custodies THEN Supply[h] ELSE 0]]
  /\ contributed = [t \in Tokens |-> [h \in Holders |-> 0]]

AdminStep(admin) ==
  \/ \E app_address \in AppAddresses, token \in Tokens, custody \in Custodies :
       RegisterApp(admin, app_address, token, custody)
  \/ \E new \in AppAddresses : UpdateAppAddress(admin, new)
  \/ \E new \in Custodies : UpdateCustodyAddress(admin, new)
  \/ \E new \in Tokens : UpdateEquityTokenAddress(admin, new)
  \/ \E new \in {"ACTIVE", "PAUSED", "STOPPED"} : UpdateAppState(admin, new)

PlatformStep(admin) ==
  \/ Review(admin)
  \/ MayBeListed(admin) /\ WhitelistAppForPoc(admin)
  \/ \E status \in {"REGISTERED", "SUSPENDED"} : UpdatePocListingStatus(admin, status)

Grant ==
  \E app_address \in AppAddresses, custody \in Custodies, contributor \in Contributors,
     amount \in Amounts :
    GrantEquityWithContribution(app_address, custody, contributor, amount)

Next == (\E admin \in Admins : AdminStep(admin) \/ PlatformStep(admin)) \/ Grant

Spec == Init /\ [][Next]_vars

-----------------------------------------------------------------------------
(* Properties *)

AppInfo ==
  [app_address : AppAddresses, equity_token_address : Tokens, custody_address : Custodies,
   app_state : {"ACTIVE", "PAUSED", "STOPPED"},
   poc_listing_status : {"REGISTERED", "WHITELISTED", "SUSPENDED"}]

\* Every variable keeps its type; in particular no balance goes below zero.
TypeOK ==
  /\ DOMAIN apps \subseteq Admins
  /\ apps \in [DOMAIN apps -> AppInfo]
  /\ reviewed \in [Admins -> Tokens \cup {NoToken}]
  /\ listed \in [Admins -> Tokens \cup {NoToken}]
  /\ balance \in [Tokens -> [Holders -> Nat]]
  /\ contributed \in [Tokens -> [Holders -> Nat]]

\* f maps admins to keys, table maps exactly those keys back.
Inverse(table, f) ==
  /\ \A admin \in DOMAIN f : f[admin] \in DOMAIN table /\ table[f[admin]] = admin
  /\ \A k \in DOMAIN table : table[k] \in DOMAIN f /\ f[table[k]] = k

\* Through registrations and address changes of any applications, also to addresses others
\* gave up, the three reverse tables lead from every key in use, and from no other, to the
\* one application that has it (poc_registry.move:94-96).
TablesAgree ==
  /\ Inverse(app_address_to_admin, [a \in DOMAIN apps |-> apps[a].app_address])
  /\ Inverse(custody_address_to_admin, [a \in DOMAIN apps |-> apps[a].custody_address])
  /\ Inverse(equity_token_to_admin, [a \in DOMAIN apps |-> apps[a].equity_token_address])

\* A whitelisted application has the token the platform listed it with: a listing does not
\* survive the token, whoever gave it up, took it or brought it back in between
\* (update_equity_token_address, poc_registry.move:351).
WhitelistedTokenIsListed ==
  \A a \in DOMAIN apps :
    apps[a].poc_listing_status = "WHITELISTED" => listed[a] = apps[a].equity_token_address

\* "After a change ... the platform has to review again" (poc_registry.move:110, :314-316, in
\* Chinese): an application is whitelisted only with the token the platform has looked at.
WhitelistedTokenIsReviewed ==
  \A a \in DOMAIN apps :
    apps[a].poc_listing_status = "WHITELISTED" => reviewed[a] = apps[a].equity_token_address

\* A ContributionEvent stands for a receipt: its amount reached the contributor in the same
\* transaction, whatever the token's hooks keep and whoever pays whom.
EventsAreReceipts == \A t \in Tokens, h \in Holders :
  contributed'[t][h] # contributed[t][h] =>
    balance'[t][h] - balance[t][h] >= contributed'[t][h] - contributed[t][h]

\* A ContributionEvent is paid in a token the platform listed, out of the custody of the
\* active application it listed with it, and out of no other account.
EventsComeFromListedApps == \A t \in Tokens, h \in Holders :
  contributed'[t][h] # contributed[t][h] =>
    \E a \in DOMAIN apps :
      /\ listed[a] = t /\ equity_token_to_admin[t] = a
      /\ apps[a].app_state = "ACTIVE"
      /\ \A payer \in Holders :
           balance'[t][payer] < balance[t][payer] => custody_address_to_admin[payer] = a

\* A ContributionEvent tells of a receipt, in a listed token, from the custody of its application
\* (poc_contribution.move, poc_registry.move).
EventsTellTheContributions == [][EventsAreReceipts /\ EventsComeFromListedApps]_vars

\* "Cannot be reversed: after a stop, neither running nor paused again"
\* (stop_app, poc_registry.move:411, in Chinese).
StopIsFinal ==
  [][\A a \in DOMAIN apps :
       apps[a].app_state = "STOPPED" => apps'[a].app_state = "STOPPED"]_vars
=============================================================================
