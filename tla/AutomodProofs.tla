---------------------------- MODULE AutomodProofs ----------------------------
(***************************************************************************)
(* For any authors, rules and requests, messages are judged by the rules   *)
(* in force unless a request put older ones back after a change, and with  *)
(* the rules in force repeated content is stopped at the threshold.        *)
(*                                                                         *)
(* The first needs that a request that holds loaded rules, and did not     *)
(* miss an invalidation meanwhile, holds the rules there are once every    *)
(* change has emptied the cache.  The second needs that the engine has     *)
(* seen at least what passed, which a second engine would not.             *)
(***************************************************************************)
EXTENDS Automod, TLAPS

\* with every change through, what is cached, or still to be, is current
Current ==
    ~raced /\ changing = 0 =>
        /\ cache.full => cache.rules = rules
        /\ \A q \in Requests : At(q, "put") /\ ~request[q].late => request[q].loaded = rules

SeenWhatPassed == \A a \in Authors : passed[a] <= cache.seen[a]

Inv == TypeOK /\ Current /\ SeenWhatPassed /\ RepeatsAreStopped

-----------------------------------------------------------------------------
(* The engine *)

LEMMA ActionsAre == Action = {"ban", "kick", "timeout", "block", "flag"} /\ Len(Severity) = 5
<1>1. Len(Severity) = 5
  BY DEF Severity
<1>2. /\ Severity[1] = "ban" /\ Severity[2] = "kick" /\ Severity[3] = "timeout"
      /\ Severity[4] = "block" /\ Severity[5] = "flag"
  BY DEF Severity
<1>3. 1 .. 5 = {1, 2, 3, 4, 5}
  OBVIOUS
<1>4. Action = {Severity[i] : i \in {1, 2, 3, 4, 5}}
  BY <1>1, <1>3 DEF Action
<1> HIDE DEF Severity
<1> QED
  BY <1>1, <1>2, <1>4

\* the action of some rule that matches, or none
LEMMA JudgedIs ==
    ASSUME Parameters, NEW e \in Engine, NEW a \in Authors
    PROVE  /\ Judged(e, a) \in Action \cup {"none"}
           /\ (\E x \in e.rules : x.action # "flag" /\ Matches(x, e, a))
              => Judged(e, a) \notin {"none", "flag"}
<1> DEFINE asked == {x.action : x \in {y \in e.rules : Matches(y, e, a)}}
           ranks == {i \in 1 .. Len(Severity) : Severity[i] \in asked}
           first == CHOOSE i \in ranks : \A j \in ranks : i <= j
<1>1. ranks \subseteq 1 .. 5
  BY ActionsAre
<1>2. Judged(e, a) = IF ranks = {} THEN "none" ELSE Severity[first]
  BY DEF Judged
<1>3. asked \subseteq Action
  BY DEF Parameters, Engine
<1>4. /\ Severity[1] = "ban" /\ Severity[2] = "kick" /\ Severity[3] = "timeout"
      /\ Severity[4] = "block" /\ Severity[5] = "flag"
  BY DEF Severity
<1>5. (\E x \in e.rules : x.action # "flag" /\ Matches(x, e, a)) => \E i \in ranks : i <= 4
  <2> SUFFICES ASSUME NEW x \in e.rules, x.action # "flag", Matches(x, e, a)
               PROVE  \E i \in ranks : i <= 4
    OBVIOUS
  <2>1. x.action \in asked /\ x.action \in {"ban", "kick", "timeout", "block"}
    BY <1>3, ActionsAre
  <2> QED
    BY <1>4, <2>1, ActionsAre
<1> HIDE DEF ranks
<1>6. ranks # {} => first \in ranks /\ \A j \in ranks : first <= j
  <2>1. ranks # {} => \E i \in ranks : \A j \in ranks : i <= j
    <3>1. CASE 1 \in ranks
      BY <1>1, <3>1
    <3>2. CASE 1 \notin ranks /\ 2 \in ranks
      BY <1>1, <3>2
    <3>3. CASE 1 \notin ranks /\ 2 \notin ranks /\ 3 \in ranks
      BY <1>1, <3>3
    <3>4. CASE 1 \notin ranks /\ 2 \notin ranks /\ 3 \notin ranks /\ 4 \in ranks
      BY <1>1, <3>4
    <3>5. CASE ranks = {5} \/ ranks = {}
      BY <3>5
    <3>6. 1 .. 5 = {1, 2, 3, 4, 5}
      OBVIOUS
    <3> QED
      BY <1>1, <3>1, <3>2, <3>3, <3>4, <3>5, <3>6
  <2> QED
    BY <2>1
<1> HIDE DEF first
<1>7. first \in ranks => Severity[first] \in Action
  BY <1>1, <1>4, ActionsAre
<1>8. first \in ranks /\ first <= 4 => Severity[first] \notin {"none", "flag"}
  BY <1>1, <1>4
<1>9. ASSUME NEW i \in ranks, i <= 4 PROVE first \in ranks /\ first <= 4
  <2>1. first \in ranks /\ first <= i
    BY <1>6, <1>9
  <2> QED
    BY <1>1, <1>9, <2>1
<1> QED
  BY <1>2, <1>5, <1>6, <1>7, <1>8, <1>9

LEMMA EmptyIs ==
    ASSUME Parameters
    PROVE  Empty \in Engine /\ ~Empty.full /\ \A a \in Authors : Empty.seen[a] = 0
BY DEF Empty, Engine, Parameters

\* some rule in force stops repeated content
Stops(S) == \E r \in S : r.trigger = "repeat" /\ r.action # "flag"

LEMMA EvaluateIs ==
    ASSUME Parameters, TypeOK, NEW q \in Requests, NEW e \in Engine, Evaluate(q, e),
           NEW a, a = request[q].author
    PROVE  /\ a \in Authors
           /\ cache' \in Engine /\ cache'.full = e.full /\ cache'.rules = e.rules
           /\ cache'.seen[a] = Capped(e.seen[a] + 1)
           /\ \A b \in Authors : b # a => cache'.seen[b] = e.seen[b]
           /\ request' \in [Requests -> Request] /\ request'[q].step \in {"idle", "enforce"}
           /\ \A p \in Requests : p # q => request'[p] = request[p]
           /\ passed' \in [Authors -> 0 .. Threshold]
           /\ \A b \in Authors : b # a => passed'[b] = passed[b]
           /\ passed'[a] = passed[a] \/ passed'[a] = Capped(passed[a] + 1)
           /\ Stops(e.rules) /\ e.seen[a] + 1 >= Threshold => passed'[a] = passed[a]
<1> DEFINE action == Judged(e, a)
           seen == [e.seen EXCEPT ![a] = Capped(@ + 1)]
           next == [request[q] EXCEPT !.step = "enforce", !.action = action]
<1>1. a \in Authors /\ request[q] \in Request
  BY DEF TypeOK, Request
<1>2. /\ action \in Action \cup {"none"}
      /\ Stops(e.rules) /\ e.seen[a] + 1 >= Threshold => action \notin {"none", "flag"}
  BY <1>1, JudgedIs DEF Stops, Matches
<1>3. \A n \in 0 .. Threshold : Capped(n + 1) \in 0 .. Threshold
  BY DEF Capped, Parameters
<1>4. /\ cache' = [e EXCEPT !.seen = seen]
      /\ request' = [request EXCEPT ![q] = IF action = "none" THEN Idle ELSE next]
      /\ passed' = [passed EXCEPT ![a] = IF action \in {"none", "flag"} THEN Capped(@ + 1) ELSE @]
  BY DEF Evaluate
<1> HIDE DEF action
<1>5. e.seen \in [Authors -> 0 .. Threshold]
  BY DEF Engine
<1>6. /\ seen \in [Authors -> 0 .. Threshold] /\ seen[a] = Capped(e.seen[a] + 1)
      /\ \A b \in Authors : b # a => seen[b] = e.seen[b]
  BY <1>1, <1>3, <1>5
<1> HIDE DEF seen
<1>7. /\ cache' \in Engine /\ cache'.full = e.full /\ cache'.rules = e.rules /\ cache'.seen = seen
  BY <1>4, <1>6 DEF Engine
<1>8. Idle \in Request /\ Idle.step = "idle"
  BY DEF Idle, Request, Steps, Parameters
<1>9. next \in Request /\ next.step = "enforce"
  BY <1>1, <1>2 DEF Request, Steps
<1> HIDE DEF next
<1>10. /\ request' \in [Requests -> Request] /\ request'[q].step \in {"idle", "enforce"}
       /\ \A p \in Requests : p # q => request'[p] = request[p]
  BY <1>4, <1>8, <1>9 DEF TypeOK
<1>11. /\ passed' \in [Authors -> 0 .. Threshold]
       /\ \A b \in Authors : b # a => passed'[b] = passed[b]
       /\ passed'[a] = IF action \in {"none", "flag"} THEN Capped(passed[a] + 1) ELSE passed[a]
  BY <1>1, <1>3, <1>4 DEF TypeOK
<1> QED
  BY <1>1, <1>2, <1>6, <1>7, <1>10, <1>11

\* judged by an engine of the rules in force
LEMMA EvaluateKeeps ==
    ASSUME Parameters, Inv, NEW q \in Requests, NEW e \in Engine, Evaluate(q, e), e.full,
           UNCHANGED <<rules, changing, guild, changes, events>>, raced' \in BOOLEAN,
           \A b \in Authors : passed[b] <= e.seen[b],
           ~raced' => ~raced,
           ~raced' /\ changing = 0 => e.rules = rules
    PROVE  Inv'
<1> DEFINE a == request[q].author
<1>1. TypeOK
  BY DEF Inv
<1>2. /\ a \in Authors
      /\ cache' \in Engine /\ cache'.full = e.full /\ cache'.rules = e.rules
      /\ cache'.seen[a] = Capped(e.seen[a] + 1)
      /\ \A b \in Authors : b # a => cache'.seen[b] = e.seen[b]
      /\ request' \in [Requests -> Request] /\ request'[q].step \in {"idle", "enforce"}
      /\ \A p \in Requests : p # q => request'[p] = request[p]
      /\ passed' \in [Authors -> 0 .. Threshold]
      /\ \A b \in Authors : b # a => passed'[b] = passed[b]
      /\ passed'[a] = passed[a] \/ passed'[a] = Capped(passed[a] + 1)
      /\ Stops(e.rules) /\ e.seen[a] + 1 >= Threshold => passed'[a] = passed[a]
  BY <1>1, EvaluateIs
<1> HIDE DEF a
<1>3. TypeOK'
  BY <1>1, <1>2 DEF TypeOK, guild
<1>4. Current'
  BY <1>2 DEF Inv, Current, At
<1>5. \A b \in Authors : passed[b] \in 0 .. Threshold /\ e.seen[b] \in 0 .. Threshold
  BY <1>1 DEF TypeOK, Engine
<1>6. SeenWhatPassed'
  <2> SUFFICES ASSUME NEW b \in Authors PROVE passed'[b] <= cache'.seen[b]
    BY DEF SeenWhatPassed
  <2>1. CASE b # a
    BY <1>2, <2>1
  <2>2. CASE b = a
    BY <1>2, <1>5, <2>2 DEF Capped, Parameters
  <2> QED
    BY <2>1, <2>2
<1>7. RepeatsAreStopped'
  <2> SUFFICES ASSUME ~raced', changing = 0, Stops(rules), NEW b \in Authors
               PROVE  passed'[b] < Threshold
    BY DEF RepeatsAreStopped, Stops
  <2>1. e.rules = rules /\ passed[b] < Threshold
    BY DEF Inv, RepeatsAreStopped, Stops
  <2>2. CASE b # a \/ passed'[b] = passed[b]
    BY <1>2, <2>1, <2>2
  <2>3. CASE b = a /\ passed'[b] # passed[b]
    <3>1. ~(e.seen[a] + 1 >= Threshold) /\ passed'[a] = Capped(passed[a] + 1)
      BY <1>2, <2>1, <2>3
    <3>2. passed[a] <= e.seen[a]
      BY <1>2
    <3> QED
      BY <1>2, <1>5, <2>3, <3>1, <3>2 DEF Capped, Parameters
  <2> QED
    BY <2>2, <2>3
<1> QED
  BY <1>3, <1>4, <1>6, <1>7 DEF Inv

LEMMA HitKeeps ==
    ASSUME Parameters, Inv, NEW q \in Requests, Hit(q)
    PROVE  Inv'
BY EvaluateKeeps DEF Hit, Inv, TypeOK, Current, SeenWhatPassed

LEMMA PutKeeps ==
    ASSUME Parameters, Inv, NEW q \in Requests, Put(q)
    PROVE  Inv'
<1> DEFINE new == [Empty EXCEPT !.full = TRUE, !.rules = request[q].loaded]
           e == IF cache.full THEN cache ELSE new
<1>1. TypeOK /\ request[q] \in Request
  BY DEF Inv, TypeOK
<1>2. /\ request[q].step = "put" /\ Evaluate(q, e)
      /\ raced' = (raced \/ (~cache.full /\ request[q].late /\ new.rules # rules))
      /\ UNCHANGED <<rules, changing, guild, changes, events>>
  BY DEF Put, Kept, At
<1>3. new \in Engine /\ new.full /\ new.rules = request[q].loaded
      /\ \A b \in Authors : new.seen[b] = 0
  BY <1>1, EmptyIs DEF Engine, Request
<1>4. ~cache.full => \A b \in Authors : cache.seen[b] = 0
  BY <1>1, EmptyIs DEF TypeOK
<1> HIDE DEF new
<1>5. e \in Engine /\ e.full
  BY <1>1, <1>3 DEF TypeOK
<1>6. \A b \in Authors : passed[b] <= e.seen[b]
  BY <1>3, <1>4 DEF Inv, SeenWhatPassed
<1>7. request[q].late \in BOOLEAN /\ raced \in BOOLEAN
  BY <1>1 DEF TypeOK, Request
<1>8. ~raced' => ~raced /\ (cache.full \/ ~request[q].late \/ request[q].loaded = rules)
  BY <1>2, <1>3
<1>9. ~raced' /\ changing = 0 => e.rules = rules
  BY <1>2, <1>3, <1>8 DEF Inv, Current, At
<1>10. raced' \in BOOLEAN
  BY <1>2, <1>7
<1> HIDE DEF e
<1> QED
  BY <1>2, <1>5, <1>6, <1>8, <1>9, <1>10, EvaluateKeeps

-----------------------------------------------------------------------------
(* What does not evaluate a message *)

LEMMA CommittedKeeps ==
    ASSUME Parameters, Inv, NEW S \in SUBSET Rules, Committed(S)
    PROVE  Inv'
BY DEF Committed, guild, Inv, TypeOK, Current, SeenWhatPassed, RepeatsAreStopped, Parameters

LEMMA InvalidateKeeps ==
    ASSUME Parameters, Inv, Invalidate
    PROVE  Inv'
<1>1. /\ changing > 0 /\ changing' = changing - 1 /\ cache' = Empty
      /\ UNCHANGED <<rules, guild, changes, events, raced>>
      /\ passed' = [a \in Authors |-> 0]
      /\ request' = [q \in Requests |-> IF request[q].step = "put"
                                        THEN [request[q] EXCEPT !.late = TRUE] ELSE request[q]]
  BY DEF Invalidate, Emptied
<1>2. Empty \in Engine /\ ~Empty.full /\ \A a \in Authors : Empty.seen[a] = 0
  BY EmptyIs
<1>3. ASSUME NEW q \in Requests
      PROVE  request'[q] \in Request /\ (request'[q].step = "put" => request'[q].late)
  <2> DEFINE missed == [request[q] EXCEPT !.late = TRUE]
  <2>1. request[q] \in Request
    BY DEF Inv, TypeOK
  <2>2. missed \in Request /\ missed.late
    BY <2>1 DEF Request
  <2>3. request'[q] = IF request[q].step = "put" THEN missed ELSE request[q]
    BY <1>1
  <2> HIDE DEF missed
  <2> QED
    BY <2>1, <2>2, <2>3
<1>4. request' \in [Requests -> Request]
  <2>1. request' = [q \in Requests |-> request'[q]]
    BY <1>1
  <2> QED
    BY <1>3, <2>1
<1>5. TypeOK'
  BY <1>1, <1>2, <1>4 DEF Inv, TypeOK, guild, Parameters
<1>6. Current'
  BY <1>1, <1>2, <1>3 DEF Current, At
<1>7. SeenWhatPassed' /\ RepeatsAreStopped'
  BY <1>1, <1>2 DEF SeenWhatPassed, RepeatsAreStopped, Parameters
<1> QED
  BY <1>5, <1>6, <1>7 DEF Inv

\* one request goes on; what it holds when it is to put it is current
LEMMA RequestKeeps ==
    ASSUME Parameters, Inv, NEW q \in Requests, NEW next \in Request,
           request' = [request EXCEPT ![q] = next],
           next.step = "put" => next.loaded = rules,
           UNCHANGED <<rules, changing, cache, guild, changes, events, passed, raced>>
    PROVE  Inv'
<1>1. /\ request' \in [Requests -> Request] /\ request'[q] = next
      /\ \A p \in Requests : p # q => request'[p] = request[p]
  BY DEF Inv, TypeOK
<1>2. TypeOK'
  BY <1>1 DEF Inv, TypeOK, guild
<1>3. Current'
  BY <1>1 DEF Inv, Current, At
<1> QED
  BY <1>2, <1>3 DEF Inv, SeenWhatPassed, RepeatsAreStopped

LEMMA BeginKeeps ==
    ASSUME Parameters, Inv, NEW q \in Requests, NEW a \in Authors, Begin(q, a)
    PROVE  Inv'
<1> DEFINE next == [Idle EXCEPT !.step = "look", !.author = a]
<1>1. next \in Request /\ next.step = "look"
  BY DEF Idle, Request, Steps, Parameters
<1>2. /\ request' = [request EXCEPT ![q] = next]
      /\ UNCHANGED <<rules, changing, cache, guild, changes, events, passed, raced>>
  BY DEF Begin
<1> HIDE DEF next
<1> QED
  BY <1>1, <1>2, RequestKeeps

LEMMA MissKeeps ==
    ASSUME Parameters, Inv, NEW q \in Requests, Miss(q)
    PROVE  Inv'
<1> DEFINE next == [request[q] EXCEPT !.step = "load"]
<1>1. request[q] \in Request
  BY DEF Inv, TypeOK
<1>2. next \in Request /\ next.step = "load"
  BY <1>1 DEF Request, Steps
<1>3. /\ request' = [request EXCEPT ![q] = next]
      /\ UNCHANGED <<rules, changing, cache, guild, changes, events, passed, raced>>
  BY DEF Miss, Go
<1> HIDE DEF next
<1> QED
  BY <1>2, <1>3, RequestKeeps

LEMMA LoadKeeps ==
    ASSUME Parameters, Inv, NEW q \in Requests, Load(q)
    PROVE  Inv'
<1> DEFINE next == [request[q] EXCEPT !.step = "put", !.loaded = rules]
<1>1. request[q] \in Request /\ rules \subseteq Rules
  BY DEF Inv, TypeOK
<1>2. next \in Request /\ next.loaded = rules
  BY <1>1 DEF Request, Steps
<1>3. /\ request' = [request EXCEPT ![q] = next]
      /\ UNCHANGED <<rules, changing, cache, guild, changes, events, passed, raced>>
  BY DEF Load
<1> HIDE DEF next
<1> QED
  BY <1>2, <1>3, RequestKeeps

LEMMA EnforceKeeps ==
    ASSUME Parameters, Inv, NEW q \in Requests, Enforce(q)
    PROVE  Inv'
<1> DEFINE a == request[q].author
           action == Applied(a, request[q].action)
           goes == IF action \in {"kick", "ban"} THEN {a} ELSE {}
<1>1. /\ ban' = [ban EXCEPT ![a] = IF action = "ban" THEN "expiring" ELSE @]
      /\ members' = members \ goes
      /\ timedOut' = (IF action = "timeout" /\ a \in members THEN timedOut \cup {a}
                      ELSE timedOut) \ goes
      /\ request' = [request EXCEPT ![q] = Idle]
      /\ UNCHANGED <<rules, changing, cache, owner, changes, events, passed, raced>>
  BY DEF Enforce
<1>2. a \in Authors /\ Idle \in Request /\ Idle.step = "idle"
  BY DEF Inv, TypeOK, Request, Idle, Steps, Parameters
<1> HIDE DEF action, a
<1>3. /\ ban' \in [Authors -> {"none", "expiring", "permanent"}]
      /\ \A b \in members' : ban'[b] = "none"
      /\ members' \subseteq Authors /\ timedOut' \subseteq members'
  BY <1>1, <1>2 DEF Inv, TypeOK
<1>4. /\ request' \in [Requests -> Request] /\ request'[q] = Idle
      /\ \A p \in Requests : p # q => request'[p] = request[p]
  BY <1>1, <1>2 DEF Inv, TypeOK
<1>5. TypeOK'
  BY <1>1, <1>3, <1>4 DEF Inv, TypeOK
<1>6. Current'
  BY <1>1, <1>2, <1>4 DEF Inv, Current, At
<1> QED
  BY <1>1, <1>5, <1>6 DEF Inv, SeenWhatPassed, RepeatsAreStopped

LEMMA ForgetKeeps ==
    ASSUME Parameters, Inv, Forget
    PROVE  Inv'
<1>1. /\ cache' = [cache EXCEPT !.seen = Empty.seen] /\ passed' = [a \in Authors |-> 0]
      /\ UNCHANGED <<rules, changing, request, guild, changes, raced>>
      /\ events < MaxEvents /\ events' = events + 1
  BY DEF Forget, Happens
<1>2. Empty \in Engine /\ \A a \in Authors : Empty.seen[a] = 0
  BY EmptyIs
<1>3. /\ cache' \in Engine /\ cache'.full = cache.full /\ cache'.rules = cache.rules
      /\ cache'.seen = Empty.seen
  BY <1>1, <1>2 DEF Inv, TypeOK, Engine
<1>4. cache = Empty => cache' = Empty
  BY <1>1 DEF Empty
<1>5. TypeOK'
  BY <1>1, <1>3, <1>4 DEF Inv, TypeOK, guild, Parameters
<1>6. Current'
  BY <1>1, <1>3 DEF Inv, Current, At
<1>7. SeenWhatPassed' /\ RepeatsAreStopped'
  BY <1>1, <1>2, <1>3 DEF SeenWhatPassed, RepeatsAreStopped, Parameters
<1> QED
  BY <1>5, <1>6, <1>7 DEF Inv

LEMMA MembersKeep ==
    ASSUME Parameters, Inv, NEW a \in Authors,
           Transfer(a) \/ BanMember(a) \/ Return(a) \/ TimeoutEnds(a)
    PROVE  Inv'
<1>1. /\ UNCHANGED <<rules, changing, cache, request, changes, passed, raced>>
      /\ events < MaxEvents /\ events' = events + 1
  BY DEF Transfer, BanMember, Return, TimeoutEnds, Happens
<1>2. TypeOK'
  BY <1>1 DEF Transfer, BanMember, Return, TimeoutEnds, Inv, TypeOK, Parameters
<1> QED
  BY <1>1, <1>2 DEF Inv, Current, At, SeenWhatPassed, RepeatsAreStopped

-----------------------------------------------------------------------------

LEMMA Start == ASSUME Parameters PROVE Init => Inv
<1> SUFFICES ASSUME Init PROVE Inv
  OBVIOUS
<1>1. Empty \in Engine /\ ~Empty.full /\ \A a \in Authors : Empty.seen[a] = 0
  BY EmptyIs
<1>2. Idle \in Request /\ Idle.step = "idle"
  BY DEF Idle, Request, Steps, Parameters
<1>3. TypeOK
  <2>1. /\ request \in [Requests -> Request] /\ cache \in Engine /\ cache = Empty
    BY <1>1, <1>2 DEF Init
  <2>2. /\ ban \in [Authors -> {"none", "expiring", "permanent"}]
        /\ passed \in [Authors -> 0 .. Threshold] /\ \A a \in Authors : ban[a] = "none"
    BY DEF Init, Parameters
  <2>3. changes \in 0 .. MaxChanges /\ changing \in 0 .. changes /\ events \in 0 .. MaxEvents
    BY DEF Init, Parameters
  <2>4. /\ rules \subseteq Rules /\ owner \in Authors /\ members \subseteq Authors
        /\ timedOut \subseteq members /\ raced \in BOOLEAN
    BY DEF Init, Parameters
  <2> QED
    BY <2>1, <2>2, <2>3, <2>4 DEF TypeOK
<1>4. Current
  BY <1>1, <1>2 DEF Init, Current, At
<1>5. SeenWhatPassed /\ RepeatsAreStopped
  BY <1>1 DEF Init, SeenWhatPassed, RepeatsAreStopped, Parameters
<1> QED
  BY <1>3, <1>4, <1>5 DEF Inv

LEMMA Step == ASSUME Parameters PROVE Inv /\ [Next]_mvars => Inv'
<1> SUFFICES ASSUME Inv, [Next]_mvars PROVE Inv'
  OBVIOUS
<1>1. CASE UNCHANGED mvars
  BY <1>1 DEF mvars, guild, Inv, TypeOK, Current, At, SeenWhatPassed, RepeatsAreStopped
<1>2. ASSUME NEW r \in Rules, CreateRule(r) \/ DeleteRule(r) PROVE Inv'
  <2>1. \E S \in SUBSET Rules : Committed(S)
    BY <1>2 DEF CreateRule, DeleteRule, Inv, TypeOK
  <2> QED
    BY <2>1, CommittedKeeps
<1>3. ASSUME NEW r \in Rules, NEW new \in {{}} \cup {{x} : x \in Rules}, UpdateRule(r, new)
      PROVE  Inv'
  <2>1. (rules \ {r}) \cup new \in SUBSET Rules
    BY DEF Inv, TypeOK
  <2>2. Committed((rules \ {r}) \cup new)
    BY <1>3 DEF UpdateRule
  <2> QED
    BY <2>1, <2>2, CommittedKeeps
<1> QED
  BY <1>1, <1>2, <1>3, InvalidateKeeps, ForgetKeeps, BeginKeeps, HitKeeps, MissKeeps, LoadKeeps,
     PutKeeps, EnforceKeeps, MembersKeep DEF Next

LEMMA TypeCorrect == ASSUME Parameters PROVE Spec => []TypeOK
<1>1. Inv => TypeOK
  BY DEF Inv
<1> QED BY <1>1, Start, Step, PTL DEF Spec

(***************************************************************************)
(* With every change of the rules through, messages are judged by the      *)
(* rules in force, unless a request put the engine of older rules into the *)
(* emptied cache (automod_engine, invalidate_automod_engine).              *)
(***************************************************************************)
THEOREM CacheIsCurrentThm ==
    ASSUME Parameters
    PROVE  Spec => []CacheIsCurrent
<1>1. Inv => CacheIsCurrent
  BY DEF Inv, Current, CacheIsCurrent, RulesTakeEffect
<1> QED
  BY <1>1, Start, Step, PTL DEF Spec

(***************************************************************************)
(* Under a rule that stops repeated content fewer messages than its        *)
(* threshold pass, however many requests compile an engine at once: they   *)
(* all count in the one that is cached (automod_engine, or_insert).        *)
(***************************************************************************)
THEOREM RepeatsAreStoppedThm ==
    ASSUME Parameters
    PROVE  Spec => []RepeatsAreStopped
<1>1. Inv => RepeatsAreStopped
  BY DEF Inv
<1> QED
  BY <1>1, Start, Step, PTL DEF Spec

=============================================================================
