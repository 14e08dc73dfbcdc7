-------------------------- MODULE MCExtendedChecks --------------------------
(* Small packages for the extended checks: each slice varies one concern.  *)
EXTENDS ExtendedChecks

TheModules == <<"randomness", "framework", "lib", "app", "other">>
TheAddresses == [m \in {"randomness", "framework", "lib", "app", "other"} |->
                CASE m \in {"randomness", "framework"} -> "0x1" [] m = "other" -> "0xb" [] OTHER -> "0xa"]
TheFuns == <<"next", "roll", "f", "g", "h">>
TheStructs == <<"G", "S">>
TheConstants == <<"E_ONE", "E_TWO">>

Ty(n, b) == [vectors |-> n, base |-> b]
NoFun == [module |-> "app", visibility |-> "private", entry |-> FALSE, init |-> FALSE, inline |-> FALSE,
          attributes |-> {}, randomness |-> NoAttribute, params |-> <<>>, returns |-> 0, type_params |-> 0,
          calls |-> {}, emits |-> {}]
NoStruct == [module |-> "app", visibility |-> "private", abilities |-> {}, fields |-> 0, type_params |-> 0,
             event |-> FALSE, resource_group |-> NoAttribute, member |-> NoAttribute]
NoConstant == [module |-> "app", e_prefix |-> TRUE, value |-> 1]
Base == [primary |-> {"app"}, public_structs |-> TRUE,
         fun |-> [next |-> [NoFun EXCEPT !.module = "randomness", !.visibility = "public"],
                  roll |-> [NoFun EXCEPT !.module = "framework", !.visibility = "public", !.calls = {"next"}],
                  f |-> NoFun, g |-> NoFun, h |-> NoFun],
         struct |-> [G |-> NoStruct, S |-> NoStruct],
         constant |-> [E_ONE |-> NoConstant, E_TWO |-> NoConstant]]

(* Call graphs over three functions and two ways to randomness. *)
Private == NoFun
Public == [NoFun EXCEPT !.visibility = "public"]
Allowed == [Public EXCEPT !.attributes = {"lint::allow_unsafe_randomness"}]
Entry == [NoFun EXCEPT !.entry = TRUE]
Random == [Entry EXCEPT !.randomness = <<>>]
Graphs ==
    {[Base EXCEPT !.fun["f"] = [kf EXCEPT !.calls = cf],
                  !.fun["g"] = [kg EXCEPT !.calls = cg],
                  !.fun["h"] = [kh EXCEPT !.calls = ch]] :
        kf \in {Private, Public, Allowed, Entry, Random}, kg \in {Public, Entry}, kh \in {Private, Public},
        cf \in SUBSET {"roll", "g", "h"}, cg \in SUBSET {"roll", "f", "h"}, ch \in SUBSET {"next", "f", "g"}}
TwoModules ==
    {[Base EXCEPT !.primary = p,
                  !.fun["f"] = [kf EXCEPT !.module = "lib", !.calls = cf],
                  !.fun["g"] = [kg EXCEPT !.calls = cg]] :
        p \in {{"app"}, {"lib", "app"}, {"framework", "lib", "app"}}, kf \in {Private, Public, Allowed},
        kg \in {Public, Entry}, cf \in SUBSET {"roll"}, cg \in SUBSET {"f", "h"}}

(* One function in every role. *)
Params == {<<>>, <<Ty(0, "signer")>>, <<Ty(0, "&signer")>>, <<Ty(0, "u64"), Ty(0, "&signer")>>, <<Ty(1, "S")>>}
Roles ==
    {[Base EXCEPT !.public_structs = p, !.struct["S"].visibility = "public", !.struct["S"].abilities = a,
                  !.fun["f"] = [NoFun EXCEPT !.visibility = v, !.entry = e, !.attributes = marks, !.randomness = r,
                                             !.params = ps, !.returns = n, !.init = i]] :
        p \in BOOLEAN, a \in {{"copy"}, {"copy", "key"}}, v \in {"private", "friend", "public"}, e \in BOOLEAN,
        marks \in SUBSET {"view", "legacy_entry_fun"},
        r \in {NoAttribute, <<>>, <<[key |-> "max_gas", value |-> 4]>>},
        ps \in Params, n \in {0, 1}, i \in BOOLEAN}
Gas ==
    {[Base EXCEPT !.fun["f"] = [Entry EXCEPT !.randomness = r]] :
        r \in UNION {[1 .. n -> [key : {"max_gas", "other", "not_assign"}, value : {0 - 1, 0, 3, 4}]] : n \in 1 .. 2}}

(* A group, a member and their attributes. *)
Arg(k, v) == [key |-> k, value |-> v]
Groups ==
    {[Base EXCEPT !.primary = p,
                  !.struct["G"] = [NoStruct EXCEPT !.module = m, !.resource_group = g, !.fields = n, !.abilities = a],
                  !.struct["S"] = [NoStruct EXCEPT !.abilities = b, !.member = member]] :
        p \in {{"app"}, {"lib", "app", "other"}}, m \in {"lib", "app", "other"},
        g \in {NoAttribute, <<>>, <<Arg("scope", "global")>>, <<Arg("scope", "address")>>, <<Arg("scope", "module_")>>,
               <<Arg("scope", "nowhere")>>, <<Arg("other", "global")>>, <<Arg("not_assign", "scope")>>},
        n \in {0, 1}, a \in {{}, {"store"}}, b \in {{}, {"key"}},
        member \in {<<>>, <<Arg("group", "G")>>, <<Arg("other", "G")>>, <<Arg("not_assign", "G")>>,
                    <<Arg("group", "unknown")>>, <<Arg("group", "G"), Arg("group", "G")>>}}

(* Events of this and of another module. *)
Events ==
    {[Base EXCEPT !.primary = {"lib", "app"}, !.struct["G"].module = m, !.struct["G"].event = eg, !.struct["S"].event = es,
                  !.fun["f"].emits = emits, !.fun["f"].inline = inline, !.fun["g"].emits = expanded] :
        m \in {"lib", "app"}, eg \in BOOLEAN, es \in BOOLEAN, emits \in SUBSET {"G", "S", "u64"}, inline \in BOOLEAN,
        expanded \in {{}, {"S"}}}

(* Abort codes. *)
Codes ==
    {[Base EXCEPT !.constant["E_ONE"] = [NoConstant EXCEPT !.module = m, !.value = v],
                  !.constant["E_TWO"] = [NoConstant EXCEPT !.module = m, !.value = w, !.e_prefix = e]] :
        m \in {"app", "lib"}, v \in {0 - 1, 0, 1}, w \in {1, 4}, e \in BOOLEAN}

SmallPackages == {{Base}, Graphs, TwoModules, Roles, Gas, Groups, Events, Codes}

=============================================================================
