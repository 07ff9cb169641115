----------------------------- MODULE MCServices -----------------------------
(***************************************************************************)
(* Small instances of the services, for one run: three people and two      *)
(* roles without overwrites, two people and one role with an overwrite.    *)
(*                                                                         *)
(* ada and ben stand for people, devices, uploads or requests that nothing *)
(* tells apart, r1 and r2 for roles or connections; cyd is a third of the  *)
(* first kind, fay founds servers, ema and gil are addresses.              *)
(***************************************************************************)
EXTENDS Services, TLC

CONSTANTS ada, ben, cyd, fay, r1, r2, ema, gil

Two == {ada, ben}
Three == {ada, ben, cyd}
Staff == {fay, ada, ben}
Pair == {fay, ada}
Speakers == {fay, cyd}
Connections == {r1, r2}
OneRole == {r1}
Addresses == {ema, gil}
OneAddress == {ema}
OneName == {gil}
OneFlow == {fay}
OneContent == {cyd}
Identities == {"i", "j"}
VerifiedEmail == "i" :> ema @@ "j" :> gil
SameName == [p \in Three |-> gil]

Delegations == {{}, {"view", "manage_roles", "moderate"}}
Channelled == {{}, {"view", "manage_channels", "manage_roles"}, {"administrator"}}
Granted == {{}, {"view", "history", "converse"}, {"administrator"},
            {"converse", "manage", "e2ee"}}
Rule(allow, deny) == [allow |-> allow, deny |-> deny]
Overrides == {Rule({}, {}), Rule({}, {"view"}), Rule({"view"}, {}), Rule({"converse"}, {}),
              Rule({"manage"}, {"view", "converse"})}
Ban == [trigger |-> "pattern", action |-> "ban"]
Timeout == [trigger |-> "repeat", action |-> "timeout"]
BanAndTimeout == {Ban, Timeout}

\* the variables that change; who made a change is told by properties of steps alone
View ==
    <<part,
      CASE part = "mls" -> mlsVars
        [] part = "roles" -> roleTables
        [] part = "overwrites" -> roleTables
        [] part = "resolver" -> resolverVars
        [] part = "key" -> keyVars
        [] part = "gateway" -> gatewayVars
        [] part = "signin" -> signInVars
        [] part = "pairs" -> pairsVars
        [] part = "files" -> filesVars
        [] part = "automod" -> automodVars
        [] part = "voice" -> voiceVars
        [] part = "registration" -> registrationVars
        [] part = "history" -> historyVars
        [] part = "cache" -> cacheVars>>
Symmetry == Permutations(Two) \cup Permutations(Connections)

=============================================================================
