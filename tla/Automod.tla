------------------------------ MODULE Automod ------------------------------
(***************************************************************************)
(* Automatic moderation of one server (lib.rs, repository.rs, exo-safety): *)
(* rules in the repository, the compiled engine that lib.rs caches, the    *)
(* evaluation of messages by it, and the action that is applied to their   *)
(* authors.                                                                *)
(*                                                                         *)
(* A request reads the cache, loads the rules when it is empty, and puts   *)
(* the compiled engine there, each in a step of its own; a change of the   *)
(* rules is committed first and empties the cache afterwards.  Nothing is  *)
(* awaited between taking an engine and asking it, which is one step here. *)
(* The messages have one text, which every pattern matches; how a message  *)
(* that passes is stored is in MessageDelivery.                            *)
(***************************************************************************)
EXTENDS Naturals, Sequences, FiniteSets

CONSTANTS
    Authors, Founder,
    Requests,     \* create_message and update_message at once
    Rules,        \* [trigger, action] of rules that are made
    Threshold,    \* of the rules against repeated content
    MaxChanges,   \* bound: changes of the rules
    MaxEvents     \* bound: changes of owner and members by people, and content forgotten

VARIABLES
    rules,        \* the enabled rules
    changing,     \* changes that are committed and have not emptied the cache
    cache,        \* automod_engines: the rules of the engine, and what it has seen
    request,
    owner, members, timedOut,
    ban,          \* author -> none, expiring or permanent
    changes, events,
    passed,       \* history: messages of an author let through since the rules changed
    raced         \* history: an engine of older rules was cached after a change

guild == <<owner, members, timedOut, ban>>
mvars == <<rules, changing, cache, request, guild, changes, events, passed, raced>>

Severity == <<"ban", "kick", "timeout", "block", "flag">>   \* action_priority
Action == {Severity[i] : i \in 1 .. Len(Severity)}

\* what the theorems ask of the constants
Parameters ==
    /\ MaxChanges \in Nat /\ MaxEvents \in Nat
    /\ Threshold \in Nat \ {0}
    /\ Founder \in Authors
    /\ Rules \subseteq [trigger : {"pattern", "repeat"}, action : Action]
Idle == [step |-> "idle", author |-> Founder, loaded |-> {}, action |-> "none", late |-> FALSE]
Empty == [full |-> FALSE, rules |-> {}, seen |-> [a \in Authors |-> 0]]

Steps == {"idle", "look", "load", "put", "enforce"}
Engine == [full : BOOLEAN, rules : SUBSET Rules, seen : [Authors -> 0 .. Threshold]]
Request == [step : Steps, author : Authors, loaded : SUBSET Rules, action : Action \cup {"none"},
            late : BOOLEAN]

TypeOK ==
    /\ rules \subseteq Rules /\ changes \in 0 .. MaxChanges /\ changing \in 0 .. changes
    /\ events \in 0 .. MaxEvents
    /\ cache \in Engine /\ (cache.full \/ cache = Empty)
    /\ request \in [Requests -> Request]
    /\ owner \in Authors /\ members \subseteq Authors /\ timedOut \subseteq members
    /\ ban \in [Authors -> {"none", "expiring", "permanent"}]
    /\ \A a \in members : ban[a] = "none"
    /\ passed \in [Authors -> 0 .. Threshold] /\ raced \in BOOLEAN

Init ==
    /\ rules = {} /\ changing = 0 /\ changes = 0 /\ events = 0
    /\ cache = Empty
    /\ request = [q \in Requests |-> Idle]
    /\ owner = Founder /\ members = Authors /\ timedOut = {}
    /\ ban = [a \in Authors |-> "none"]
    /\ passed = [a \in Authors |-> 0] /\ raced = FALSE

-----------------------------------------------------------------------------
(* Rules *)

\* committed, and the cache not emptied yet
Committed(S) ==
    /\ changes < MaxChanges /\ changes' = changes + 1
    /\ rules' = S /\ changing' = changing + 1
    /\ UNCHANGED <<cache, request, guild, events, passed, raced>>

CreateRule(r) == r \notin rules /\ Committed(rules \cup {r})

\* update_automod_rule: changed, enabled, or disabled when nothing of it is left
UpdateRule(r, new) == new # {r} /\ Committed((rules \ {r}) \cup new)

DeleteRule(r) == r \in rules /\ Committed(rules \ {r})

\* mutant: the cache is left to itself
Emptied_Never == cache
\* what invalidate_automod_engine leaves in the cache
Emptied == Empty

Invalidate ==
    /\ changing > 0 /\ changing' = changing - 1
    /\ cache' = Emptied
    /\ request' = [q \in Requests |->
                     IF request[q].step = "put"
                     THEN [request[q] EXCEPT !.late = TRUE] ELSE request[q]]
    /\ passed' = [a \in Authors |-> 0]
    /\ UNCHANGED <<rules, guild, changes, events, raced>>

-----------------------------------------------------------------------------
(* Messages *)

At(q, step) == request[q].step = step
Go(q, step) == request' = [request EXCEPT ![q].step = step]

\* message_safety_context: who may write; a nonce that is known ends here
Begin(q, a) ==
    /\ At(q, "idle") /\ a \in members \ timedOut
    /\ request' = [request EXCEPT ![q] = [Idle EXCEPT !.step = "look", !.author = a]]
    /\ UNCHANGED <<rules, changing, cache, guild, changes, events, passed, raced>>

Capped(n) == IF n < Threshold THEN n ELSE Threshold

\* matcher_matches
Matches(r, e, a) == r.trigger = "repeat" => e.seen[a] + 1 >= Threshold

\* AutomodEngine::evaluate: the most severe action of the rules that match
Judged(e, a) ==
    LET asked == {r.action : r \in {x \in e.rules : Matches(x, e, a)}}
        ranks == {i \in 1 .. Len(Severity) : Severity[i] \in asked}
    IN  IF ranks = {} THEN "none" ELSE Severity[CHOOSE i \in ranks : \A j \in ranks : i <= j]

\* the engine judges the message, remembers it and goes on in the cache
Evaluate(q, e) ==
    LET a == request[q].author
        action == Judged(e, a)
    IN  /\ cache' = [e EXCEPT !.seen[a] = Capped(@ + 1)]
        /\ request' = [request EXCEPT ![q] = IF action = "none" THEN Idle
                           ELSE [@ EXCEPT !.step = "enforce", !.action = action]]
        /\ passed' = [passed EXCEPT ![a] = IF action \in {"none", "flag"} THEN Capped(@ + 1) ELSE @]

\* automod_engine reads the cache
Hit(q) ==
    /\ At(q, "look") /\ cache.full
    /\ Evaluate(q, cache)
    /\ UNCHANGED <<rules, changing, guild, changes, events, raced>>

Miss(q) ==
    /\ At(q, "look") /\ ~cache.full /\ Go(q, "load")
    /\ UNCHANGED <<rules, changing, cache, guild, changes, events, passed, raced>>

\* active_automod_rules
Load(q) ==
    /\ At(q, "load")
    /\ request' = [request EXCEPT ![q].step = "put", ![q].loaded = rules]
    /\ UNCHANGED <<rules, changing, cache, guild, changes, events, passed, raced>>

\* mutant: whoever compiled last replaces the engine
Kept_Last == FALSE
\* or_insert: whoever came first has put an engine already
Kept == cache.full

Put(q) ==
    LET new == [Empty EXCEPT !.full = TRUE, !.rules = request[q].loaded]
    IN  /\ At(q, "put")
        /\ Evaluate(q, IF Kept THEN cache ELSE new)
        /\ raced' = (raced \/ (~Kept /\ request[q].late /\ new.rules # rules))
        /\ UNCHANGED <<rules, changing, guild, changes, events>>

\* a rule never removes or silences whoever owns the server by now
Applied(a, action) ==
    IF a = owner /\ action \in {"timeout", "kick", "ban"} THEN "block" ELSE action

\* apply_automod_match, under the lock of the server; a ban replaces any other ban
Enforce(q) ==
    LET a == request[q].author
        action == Applied(a, request[q].action)
        goes == IF action \in {"kick", "ban"} THEN {a} ELSE {}
    IN  /\ At(q, "enforce")
        /\ ban' = [ban EXCEPT ![a] = IF action = "ban" THEN "expiring" ELSE @]
        /\ members' = members \ goes
        /\ timedOut' = (IF action = "timeout" /\ a \in members THEN timedOut \cup {a}
                        ELSE timedOut) \ goes
        /\ request' = [request EXCEPT ![q] = Idle]
        /\ UNCHANGED <<rules, changing, cache, owner, changes, events, passed, raced>>

Happens == events < MaxEvents /\ events' = events + 1

\* the content seen leaves the window of the rule
Forget ==
    /\ Happens
    /\ passed' = [a \in Authors |-> 0]
    /\ cache' = [cache EXCEPT !.seen = Empty.seen]
    /\ UNCHANGED <<rules, changing, request, guild, changes, raced>>

-----------------------------------------------------------------------------
(* The members meanwhile *)

\* transfer_guild_ownership
Transfer(a) ==
    /\ a \in members \ {owner} /\ Happens /\ owner' = a
    /\ UNCHANGED <<rules, changing, cache, request, members, timedOut, ban, changes, passed, raced>>

\* ban_member
BanMember(a) ==
    /\ a # owner /\ Happens
    /\ ban' = [ban EXCEPT ![a] = "permanent"]
    /\ members' = members \ {a} /\ timedOut' = timedOut \ {a}
    /\ UNCHANGED <<rules, changing, cache, request, owner, changes, passed, raced>>

\* a ban that is lifted or over, and a new invite
Return(a) ==
    /\ a \notin members /\ Happens
    /\ ban' = [ban EXCEPT ![a] = "none"] /\ members' = members \cup {a}
    /\ UNCHANGED <<rules, changing, cache, request, owner, timedOut, changes, passed, raced>>

TimeoutEnds(a) ==
    /\ a \in timedOut /\ Happens /\ timedOut' = timedOut \ {a}
    /\ UNCHANGED <<rules, changing, cache, request, owner, members, ban, changes, passed, raced>>

Next ==
    \/ \E r \in Rules : CreateRule(r) \/ DeleteRule(r)
    \/ \E r \in Rules, new \in {{}} \cup {{x} : x \in Rules} : UpdateRule(r, new)
    \/ Invalidate \/ Forget
    \/ \E q \in Requests :
          \/ \E a \in Authors : Begin(q, a)
          \/ Hit(q) \/ Miss(q) \/ Load(q) \/ Put(q) \/ Enforce(q)
    \/ \E a \in Authors : Transfer(a) \/ BanMember(a) \/ Return(a) \/ TimeoutEnds(a)

Spec == Init /\ [][Next]_mvars

-----------------------------------------------------------------------------
\* messages are judged by the rules in force: "Updating, disabling, or deleting a rule
\* invalidates that cache before the next message evaluation" (docs/abuse-controls.md).
\* A request that loaded the rules before the change puts them back after it.
RulesTakeEffect == changing = 0 /\ cache.full => cache.rules = rules

\* the same, unless that happened (automod_engine, invalidate_automod_engine)
CacheIsCurrent == raced \/ RulesTakeEffect

\* requests that compile an engine at once still count repeats together: under a rule
\* against repeated content fewer messages than its threshold pass (automod_engine)
RepeatsAreStopped ==
    ~raced /\ changing = 0 /\ (\E r \in rules : r.trigger = "repeat" /\ r.action # "flag")
    => \A a \in Authors : passed[a] < Threshold

=============================================================================
