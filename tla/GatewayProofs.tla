--------------------------- MODULE GatewayProofs ---------------------------
(***************************************************************************)
(* For any devices, any finite set of connections and any bounds, a barred *)
(* account hears nothing, and friends end up knowing whether a session is  *)
(* open.                                                                   *)
(*                                                                         *)
(* That nothing leaked is not inductive: it takes that an event published  *)
(* under a bar waits in its queue behind the check of Receive, and that    *)
(* the sets of the gateway hold the device by then (Behind).  They do,     *)
(* since whoever barred it has told the gateway, or is still to (Told).    *)
(*                                                                         *)
(* The presence heard last is settled by counting: connections is the      *)
(* number of sessions between opening and closing, so exactly one session  *)
(* at a time is the first or the last, unless an announcement is late.     *)
(***************************************************************************)
EXTENDS Gateway, FiniteSetTheorems, TLAPS

Up == {"opening", "open", "sending"}
Connection == [stage : Stages, device : Devices \cup {"none"}, queue : Seq(BOOLEAN)]
Counted == {s \in Sockets : socket[s].stage \in Up}
Active == {s \in Sockets : socket[s].stage \in Up \cup {"accepted"}}

GateTyped ==
    /\ TypeOK
    /\ socket \in [Sockets -> Connection]
    /\ \A s \in Sockets : socket[s].stage = "sending" => socket[s].queue # <<>>

\* a handler is still to cut the device off
Cutting(kind, d) == \E h \in handlers : h.kind = kind /\ d \in h.devices

\* who is barred has been cut off, or a handler is still to do it
Told(d) ==
    /\ authority.deleting /\ d \notin unlisted => d \in cutDevices \/ Cutting("schedule", d)
    /\ d \in authority.revoked => d \in cutDevices \/ Cutting("revoke", d)
    /\ authority.suspended => cutUser \/ Busy("suspend")

Watched(s) == Told(socket[s].device)

\* the gateway has heard of a bar: the next event ends a session
Held(d) == d \in cutDevices \/ (authority.suspended /\ cutUser)

\* a marked event waits behind a check that will find the bar
Behind(s) ==
    /\ \A i \in DOMAIN socket[s].queue : socket[s].queue[i] => Held(socket[s].device)
    /\ socket[s].stage = "sending" => socket[s].queue # <<>> /\ ~socket[s].queue[1]
    /\ s \notin Active => socket[s].queue = <<>>

Unlifted == authority.suspended => ~Busy("reinstate")

CutOff ==
    overlapped \/ /\ Unlifted /\ ~leaked
                  /\ \A s \in Active : Watched(s)
                  /\ \A s \in Sockets : Behind(s)

Owned == \A s \in Active : socket[s].device \in Devices

Guarded == Owned /\ CutOff

\* the friends know, but for an announcement that is still to come
Settling ==
    crossed \/ Announces("opening")
        \/ IF Announces("closing") THEN connections = 0
           ELSE heard = "nothing" \/ heard = (IF connections > 0 THEN "online" ELSE "offline")

-----------------------------------------------------------------------------
\* what a connection that is set to r does to the count
LEMMA SetOne ==
    ASSUME Parameters, GateTyped, NEW s \in Sockets, NEW r \in Connection,
           socket' = [socket EXCEPT ![s] = r]
    PROVE  /\ socket' \in [Sockets -> Connection] /\ socket'[s] = r
           /\ \A t \in Sockets \ {s} : socket'[t] = socket[t]
           /\ connections \in Nat
           /\ s \in Counted => connections > 0
           /\ Cardinality(Counted') =
                IF r.stage \in Up
                THEN (IF s \in Counted THEN connections ELSE connections + 1)
                ELSE (IF s \in Counted THEN connections - 1 ELSE connections)
<1>1. /\ socket' \in [Sockets -> Connection] /\ socket'[s] = r
      /\ \A t \in Sockets \ {s} : socket'[t] = socket[t]
  BY DEF GateTyped
<1>2. Counted' = IF r.stage \in Up THEN Counted \cup {s} ELSE Counted \ {s}
  BY <1>1 DEF Counted
<1>3. IsFiniteSet(Counted) /\ connections = Cardinality(Counted)
  BY FS_Subset DEF Counted, Parameters, GateTyped, TypeOK, Up
<1>4. connections \in Nat
  BY <1>3, FS_CardinalityType
<1>5. s \in Counted => connections > 0
  BY <1>3, <1>4, FS_EmptySet
<1>6. Cardinality(Counted \cup {s}) = IF s \in Counted THEN connections ELSE connections + 1
  BY <1>3, FS_AddElement
<1>7. Cardinality(Counted \ {s}) = IF s \in Counted THEN connections - 1 ELSE connections
  BY <1>3, FS_RemoveElement
<1> QED BY <1>1, <1>2, <1>4, <1>5, <1>6, <1>7

\* the queues may change, the stages and devices not
LEMMA SameStages ==
    ASSUME GateTyped, socket' \in [Sockets -> Connection],
           \A s \in Sockets : socket'[s].stage = socket[s].stage /\ socket'[s].device = socket[s].device
    PROVE  /\ Counted' = Counted /\ Active' = Active
           /\ \A g \in {"opening", "closing"} : Announces(g)' <=> Announces(g)
BY DEF Counted, Active, Announces

LEMMA Restaged ==
    ASSUME Parameters, GateTyped, NEW s \in Sockets, NEW g \in Stages, Becomes(s, g)
    PROVE  /\ socket' \in [Sockets -> Connection]
           /\ \A t \in Sockets \ {s} : socket'[t] = socket[t]
           /\ socket'[s].stage = g /\ socket'[s].device = socket[s].device
           /\ socket'[s].queue = socket[s].queue
           /\ (s \in Counted <=> g \in Up) => Cardinality(Counted') = connections
           /\ (s \notin Counted /\ g \in Up) => Cardinality(Counted') = connections + 1
           /\ connections \in Nat /\ (s \in Counted => connections > 0)
<1>1. PICK r : r = [stage |-> g, device |-> socket[s].device, queue |-> socket[s].queue]
  OBVIOUS
<1>2. socket[s] \in Connection
  BY DEF GateTyped
<1>3. r \in Connection /\ r.stage = g
  BY <1>1, <1>2 DEF Connection
<1>4. [socket[s] EXCEPT !.stage = g] = r
  BY <1>1, <1>2 DEF Connection
<1>5. socket' = [socket EXCEPT ![s] = r]
  BY <1>4 DEF Becomes
<1> QED BY <1>1, <1>3, <1>5, SetOne

\* the last session that ends is to tell so
LEMMA Closed ==
    ASSUME Parameters, GateTyped, NEW s \in Counted, Close(s)
    PROVE  /\ socket' \in [Sockets -> Connection]
           /\ \A t \in Sockets \ {s} : socket'[t] = socket[t]
           /\ socket'[s].stage = (IF connections = 1 THEN "closing" ELSE "none") /\ socket'[s].device = "none"
           /\ socket'[s].queue = <<>>
           /\ connections \in Nat /\ connections > 0 /\ connections' = connections - 1
           /\ Cardinality(Counted') = connections'
           /\ UNCHANGED <<limits, heard, history>>
<1>1. PICK r : r = [stage |-> IF connections = 1 THEN "closing" ELSE "none",
                    device |-> "none", queue |-> <<>>]
  OBVIOUS
<1>2. r \in Connection /\ r.stage \notin Up
  BY <1>1 DEF Connection, Stages, Up
<1>5. [NoSocket EXCEPT !.stage = "closing"]
        = [stage |-> "closing", device |-> "none", queue |-> <<>>]
  BY DEF NoSocket
<1>3. socket' = [socket EXCEPT ![s] = r] /\ connections' = connections - 1
  BY <1>1, <1>5 DEF Close, Last, NoSocket
<1>4. s \in Sockets
  BY DEF Counted
<1>6. r.stage = (IF connections = 1 THEN "closing" ELSE "none") /\ r.device = "none" /\ r.queue = <<>>
  BY <1>1
<1>7. UNCHANGED <<limits, heard, history>>
  BY DEF Close
<1> QED BY <1>2, <1>3, <1>4, <1>6, <1>7, SetOne

Dropped(s) == socket' = [socket EXCEPT ![s] = NoSocket]

LEMMA Hung ==
    ASSUME Parameters, GateTyped, NEW s \in Sockets, Dropped(s), s \notin Counted
    PROVE  /\ socket' \in [Sockets -> Connection]
           /\ \A t \in Sockets \ {s} : socket'[t] = socket[t]
           /\ socket'[s].stage = "none" /\ socket'[s].device = "none"
           /\ socket'[s].queue = <<>>
           /\ Cardinality(Counted') = connections /\ connections \in Nat
<1>1. PICK r : r = NoSocket
  OBVIOUS
<1>2. r = [stage |-> "none", device |-> "none", queue |-> <<>>]
  BY <1>1 DEF NoSocket
<1>3. r \in Connection /\ r.stage \notin Up
  BY <1>2 DEF Connection, Stages, Up
<1>4. r.stage = "none" /\ r.device = "none" /\ r.queue = <<>>
  BY <1>2
<1>5. socket' = [socket EXCEPT ![s] = r]
  BY <1>1 DEF Dropped
<1> QED BY <1>3, <1>4, <1>5, SetOne

LEMMA Accepted ==
    ASSUME Parameters, GateTyped, NEW s \in Sockets, NEW d \in Devices, Accept(s, d)
    PROVE  /\ socket' \in [Sockets -> Connection]
           /\ \A t \in Sockets \ {s} : socket'[t] = socket[t]
           /\ socket'[s].stage = "accepted" /\ socket'[s].device = d
           /\ socket'[s].queue = <<>>
           /\ Cardinality(Counted') = connections
<1>1. PICK r : r = [stage |-> "accepted", device |-> d, queue |-> <<>>]
  OBVIOUS
<1>2. r \in Connection /\ r.stage \notin Up
  BY <1>1 DEF Connection, Stages, Up
<1>3. socket[s].stage = "none" /\ s \notin Counted
  BY DEF Accept, NoSocket, Counted, Up
<1>5. socket' = [socket EXCEPT ![s] = r]
  BY <1>1 DEF Accept
<1> QED BY <1>1, <1>2, <1>3, <1>5, SetOne

LEMMA Sent ==
    ASSUME Parameters, GateTyped, NEW s \in Sockets, Send(s), socket[s].queue # <<>>
    PROVE  /\ socket' \in [Sockets -> Connection]
           /\ \A t \in Sockets \ {s} : socket'[t] = socket[t]
           /\ socket'[s].stage = "open" /\ socket'[s].device = socket[s].device
           /\ socket'[s].queue = Tail(socket[s].queue)
           /\ Cardinality(Counted') = connections
<1>1. PICK r : r = [stage |-> "open", device |-> socket[s].device, queue |-> Tail(socket[s].queue)]
  OBVIOUS
<1>2. socket[s] \in Connection
  BY DEF GateTyped
<1>3. PICK q : q = socket[s].queue
  OBVIOUS
<1>4. q \in Seq(BOOLEAN) /\ q # <<>>
  BY <1>2, <1>3 DEF Connection
<1>9. Tail(q) \in Seq(BOOLEAN)
  BY <1>4
<1>5. r \in Connection /\ r.stage \in Up
  BY <1>1, <1>2, <1>3, <1>9 DEF Connection, Stages, Up
<1>6. s \in Counted
  BY DEF Send, Counted, Up
<1>8. socket' = [socket EXCEPT ![s] = r]
  BY <1>1 DEF Send
<1> QED BY <1>1, <1>5, <1>6, <1>8, SetOne

\* the queues alone change
LEMMA Queued ==
    ASSUME GateTyped, Publish
    PROVE  /\ socket' \in [Sockets -> Connection]
           /\ \A s \in Sockets : /\ socket'[s].stage = socket[s].stage
                                 /\ socket'[s].device = socket[s].device
           /\ \A s \in Sockets \ Counted : socket'[s] = socket[s]
           /\ \A s \in Counted : socket'[s].queue = Append(socket[s].queue, Barred(authority, socket[s].device))
<1>1. ASSUME NEW d PROVE Barred(authority, d) \in BOOLEAN
  BY DEF Barred, Busy
<1>2. ASSUME NEW s \in Counted
      PROVE  /\ socket'[s].stage = socket[s].stage /\ socket'[s].device = socket[s].device
             /\ socket'[s].queue = Append(socket[s].queue, Barred(authority, socket[s].device))
             /\ socket'[s] \in Connection
  <2>1. socket[s] \in Connection /\ s \in Sockets /\ socket[s].stage \in Up
    BY DEF Counted, GateTyped
  <2>2. PICK q : q = Append(socket[s].queue, Barred(authority, socket[s].device))
    OBVIOUS
  <2>3. q \in Seq(BOOLEAN)
    BY <2>1, <2>2, <1>1 DEF Connection
  <2>4. socket'[s] = [socket[s] EXCEPT !.queue = q]
    BY <2>1, <2>2 DEF Publish, Up
  <2> QED BY <2>1, <2>2, <2>3, <2>4 DEF Connection
<1>3. ASSUME NEW s \in Sockets \ Counted PROVE socket'[s] = socket[s]
  BY DEF Publish, Counted, Up
<1>4. \E f : socket' = [s \in Sockets |-> f[s]]
  <2>1. PICK f : f = [s \in Sockets |->
                    IF socket[s].stage \in {"opening", "open", "sending"}
                    THEN [socket[s] EXCEPT !.queue = Append(@, Barred(authority, socket[s].device))]
                    ELSE socket[s]]
    OBVIOUS
  <2>2. socket' = f
    BY <2>1 DEF Publish
  <2>3. f = [s \in Sockets |-> f[s]]
    BY <2>1
  <2> QED BY <2>2, <2>3
<1>5. ASSUME NEW s \in Sockets PROVE socket'[s] \in Connection
  BY <1>2, <1>3 DEF GateTyped
<1>6. socket' \in [Sockets -> Connection]
  BY <1>4, <1>5
<1>7. Counted \subseteq Sockets
  BY DEF Counted
<1>8. ASSUME NEW s \in Sockets
      PROVE  socket'[s].stage = socket[s].stage /\ socket'[s].device = socket[s].device
  BY <1>2, <1>3
<1>9. \A s \in Counted : socket'[s].queue = Append(socket[s].queue, Barred(authority, socket[s].device))
  BY <1>2
<1> QED BY <1>3, <1>6, <1>8, <1>9

LEMMA Forgave ==
    ASSUME GateTyped, NEW a, socket' = Forgiven(a)
    PROVE  /\ socket' \in [Sockets -> Connection]
           /\ \A s \in Sockets :
                /\ socket'[s].stage = socket[s].stage /\ socket'[s].device = socket[s].device
                /\ DOMAIN socket'[s].queue = DOMAIN socket[s].queue
                /\ socket[s].queue = <<>> <=> socket'[s].queue = <<>>
                /\ \A i \in DOMAIN socket'[s].queue :
                      socket'[s].queue[i] <=> socket[s].queue[i] /\ Barred(a, socket[s].device)
<1>1. ASSUME NEW s \in Sockets
      PROVE  /\ socket'[s] \in Connection
             /\ socket'[s].stage = socket[s].stage /\ socket'[s].device = socket[s].device
             /\ DOMAIN socket'[s].queue = DOMAIN socket[s].queue
             /\ socket[s].queue = <<>> <=> socket'[s].queue = <<>>
             /\ \A i \in DOMAIN socket'[s].queue :
                   socket'[s].queue[i] <=> socket[s].queue[i] /\ Barred(a, socket[s].device)
  <2>1. PICK q : q = socket[s].queue
    OBVIOUS
  <2>2. socket[s] \in Connection /\ q \in Seq(BOOLEAN)
    BY <2>1 DEF GateTyped, Connection
  <2>3. CASE Barred(a, socket[s].device)
    BY <2>2, <2>3 DEF Forgiven
  <2>4. CASE ~Barred(a, socket[s].device)
    <3>1. PICK p : p = [i \in DOMAIN q |-> FALSE]
      OBVIOUS
    <3>2. DOMAIN q = 1 .. Len(q) /\ Len(q) \in Nat
      BY <2>2
    <3>3. p \in Seq(BOOLEAN) /\ DOMAIN p = DOMAIN q
      BY <3>1, <3>2
    <3>4. p = <<>> <=> q = <<>>
      BY <2>2, <3>1, <3>2, <3>3
    <3>5. socket'[s] = [socket[s] EXCEPT !.queue = p]
      BY <2>1, <2>4, <3>1 DEF Forgiven
    <3>6. socket'[s] = [stage |-> socket[s].stage, device |-> socket[s].device, queue |-> p]
      BY <2>2, <3>5 DEF Connection
    <3> QED BY <2>1, <2>2, <2>4, <3>1, <3>3, <3>4, <3>6 DEF Connection
  <2> QED BY <2>3, <2>4
<1> QED BY <1>1 DEF Forgiven

-----------------------------------------------------------------------------
\* what TypeOK says but for the connections
Limited ==
    /\ authority \in [deleting : BOOLEAN, suspended : BOOLEAN, revoked : SUBSET Devices]
    /\ tokens \subseteq Devices \ authority.revoked
    /\ authority.suspended => tokens = {}
    /\ identities \subseteq Devices /\ unlisted \subseteq Devices
    /\ cutDevices \subseteq Devices /\ cutUser \in BOOLEAN
    /\ handlers \subseteq Handler
    /\ heard \in {"online", "offline", "nothing"}
    /\ published \in 0 .. MaxPublished /\ requests \in 0 .. MaxRequests

Linked ==
    /\ socket \in [Sockets -> Connection]
    /\ connections = Cardinality(Counted)
    /\ \A s \in Sockets : socket[s].stage = "sending" => socket[s].queue # <<>>

LEMMA TypedIs == GateTyped <=> Limited /\ Linked
<1>1. ASSUME socket \in [Sockets -> Connection]
      PROVE  \A s \in Sockets : /\ socket[s].stage \in Stages /\ socket[s].device \in Devices \cup {"none"}
                                /\ socket[s].queue \in Seq(BOOLEAN)
  BY <1>1 DEF Connection
<1> QED BY <1>1 DEF GateTyped, Limited, Linked, TypeOK, Counted, Up

LEMMA LimitedStep ==
    ASSUME Parameters, Limited, Next PROVE Limited'
<1> USE DEF Limited, Parameters
<1>0. \A kind \in {"suspend", "reinstate", "list", "schedule", "revoke"}, ds \in SUBSET Devices :
         Begin(kind, ds) => handlers' \subseteq Handler
  BY DEF Begin, Handler
<1>1. CASE SuspendAccount
  <2>1. handlers' \subseteq Handler
    BY <1>0, <1>1 DEF SuspendAccount
  <2>2. requests' \in 0 .. MaxRequests
    BY <1>1 DEF SuspendAccount, Request
  <2> QED BY <2>1, <2>2, <1>1 DEF SuspendAccount, registry
<1>2. CASE ReinstateAccount
  <2>1. handlers' \subseteq Handler
    BY <1>0, <1>2 DEF ReinstateAccount
  <2>2. requests' \in 0 .. MaxRequests
    BY <1>2 DEF ReinstateAccount, Request
  <2> QED BY <2>1, <2>2, <1>2 DEF ReinstateAccount, registry
<1>3. ASSUME NEW h \in handlers, ScheduleDeletion(h) PROVE Limited'
  <2>1. h.devices \subseteq Devices
    BY DEF Handler
  <2>2. handlers' \subseteq Handler
    BY <1>3, <2>1 DEF ScheduleDeletion, Handler
  <2> QED BY <1>3, <2>2 DEF ScheduleDeletion, history
<1>3a. CASE ListDevices
  <2>1. handlers' \subseteq Handler
    BY <1>0, <1>3a DEF ListDevices
  <2>2. requests' \in 0 .. MaxRequests
    BY <1>3a DEF ListDevices, Request
  <2> QED BY <2>1, <2>2, <1>3a DEF ListDevices, registry
<1>3b. ASSUME NEW d \in Devices, RegisterIdentity(d) PROVE Limited'
  BY <1>3b DEF RegisterIdentity, Request
<1>4. CASE Publish
  BY <1>4 DEF Publish, limits, registry
<1>5. CASE Restart
  <2>1. requests' \in 0 .. MaxRequests
    BY <1>5 DEF Restart, Request
  <2>2. handlers' = {} /\ cutDevices' = {} /\ cutUser' = FALSE /\ heard' = "offline"
        /\ UNCHANGED <<authority, tokens, identities, unlisted, published>>
    BY <1>5 DEF Restart, registry
  <2> QED BY <2>1, <2>2
<1>6. ASSUME NEW d \in Devices, SignIn(d) PROVE Limited'
  BY <1>6 DEF SignIn, registry, history
<1>7. ASSUME NEW d \in Devices, RevokeDevice(d) PROVE Limited'
  <2>1. handlers' \subseteq Handler
    BY <1>0, <1>7 DEF RevokeDevice
  <2>2. requests' \in 0 .. MaxRequests
    BY <1>7 DEF RevokeDevice, Request
  <2> QED BY <2>1, <2>2, <1>7 DEF RevokeDevice, registry
<1>8. ASSUME NEW d \in Devices, CancelDeletion(d) PROVE Limited'
  BY <1>8 DEF CancelDeletion, registry, history
<1>9. ASSUME NEW h \in handlers, TellGateway(h) PROVE Limited'
  <2>1. Cut(h) \subseteq Devices
    BY DEF Cut, Handler
  <2> QED BY <1>9, <2>1 DEF TellGateway, registry, history
<1>10. ASSUME NEW s \in Sockets,
              \/ \E d \in Devices : Accept(s, d)
              \/ Open(s) \/ AnnounceOnline(s) \/ AnnounceOffline(s)
              \/ HangUp(s) \/ Receive(s) \/ Send(s)
       PROVE  Limited'
  BY <1>10 DEF Accept, Open, AnnounceOnline, AnnounceOffline, HangUp, Receive, Send, Close,
               Publishes, limits, registry, history
<1> QED BY <1>1, <1>2, <1>3, <1>3a, <1>3b, <1>4, <1>5, <1>6, <1>7, <1>8, <1>9, <1>10 DEF Next

LEMMA Relinked ==
    ASSUME Linked, NEW s \in Sockets, socket' \in [Sockets -> Connection],
           \A t \in Sockets \ {s} : socket'[t] = socket[t],
           Cardinality(Counted') = connections',
           socket'[s].stage = "sending" => socket'[s].queue # <<>>
    PROVE  Linked'
<1>1. \A t \in Sockets : socket'[t].stage = "sending" => socket'[t].queue # <<>>
  BY DEF Linked
<1> QED BY <1>1 DEF Linked

LEMMA LinkedStep ==
    ASSUME Parameters, GateTyped, Next PROVE Linked'
<1>1. Linked /\ connections \in Nat
  BY TypedIs, FS_Subset, FS_CardinalityType DEF Linked, Counted, Parameters
<1>2. CASE UNCHANGED <<socket, connections>>
  BY <1>1, <1>2 DEF Linked, Counted
<1>3. ASSUME ReinstateAccount \/ \E d \in Devices : CancelDeletion(d) PROVE Linked'
  <2>1. socket' = Forgiven(authority') /\ UNCHANGED connections
    BY <1>3 DEF ReinstateAccount, CancelDeletion
  <2>2. PICK a : a = authority'
    OBVIOUS
  <2>3. socket' = Forgiven(a)
    BY <2>1, <2>2
  <2> QED BY <1>1, <2>1, <2>3, Forgave, SameStages DEF Linked
<1>4. ASSUME Publish PROVE Linked'
  <2>1. Counted' = Counted /\ UNCHANGED connections
    BY <1>4, Queued, SameStages DEF Publish
  <2>2. ASSUME NEW s \in Sockets, socket'[s].stage = "sending" PROVE socket'[s].queue # <<>>
    <3>1. s \in Counted /\ socket[s].queue \in Seq(BOOLEAN)
      BY <1>4, <2>2, Queued DEF Counted, Up, GateTyped, Connection
    <3>2. socket'[s].queue = Append(socket[s].queue, Barred(authority, socket[s].device))
      BY <1>4, <3>1, Queued
    <3> QED BY <3>1, <3>2
  <2> QED BY <1>1, <1>4, <2>1, <2>2, Queued DEF Linked
<1>5. ASSUME Restart PROVE Linked'
  <2>1. NoSocket \in Connection /\ NoSocket.stage = "none"
    <3>1. PICK r : r = NoSocket
      OBVIOUS
    <3>2. r = [stage |-> "none", device |-> "none", queue |-> <<>>]
      BY <3>1 DEF NoSocket
    <3>3. r \in Connection /\ r.stage = "none"
      BY <3>2 DEF Connection, Stages
    <3> QED BY <3>1, <3>3
  <2>2. socket' = [s \in Sockets |-> NoSocket] /\ connections' = 0
    BY <1>5 DEF Restart
  <2>3. Counted' = {}
    BY <2>1, <2>2 DEF Counted, Up
  <2> QED BY <2>1, <2>2, <2>3, FS_EmptySet DEF Linked
<1>6. ASSUME NEW s \in Sockets, NEW d \in Devices, Accept(s, d) PROVE Linked'
  <2>7. /\ socket' \in [Sockets -> Connection] /\ \A t \in Sockets \ {s} : socket'[t] = socket[t]
        /\ Cardinality(Counted') = connections' /\ socket'[s].stage # "sending"
    BY <1>6, Accepted DEF Accept
  <2> QED BY <1>1, <2>7, Relinked
<1>7. ASSUME NEW s \in Sockets, Open(s) PROVE Linked'
  <2>1. PICK g \in {"opening", "open"} : Becomes(s, g)
    BY <1>7 DEF Open
  <2>3. g # "sending"
    BY <2>1
  <2>2. s \notin Counted /\ g \in Up /\ g \in Stages
    BY <1>7 DEF Open, Counted, Up, Stages
  <2>7. /\ socket' \in [Sockets -> Connection] /\ \A t \in Sockets \ {s} : socket'[t] = socket[t]
        /\ Cardinality(Counted') = connections' /\ socket'[s].stage # "sending"
    <3>1. connections' = connections + 1
      BY <1>7 DEF Open
    <3>2. Cardinality(Counted') = connections + 1
      BY <2>1, <2>2, Restaged
    <3>3. socket' \in [Sockets -> Connection] /\ \A t \in Sockets \ {s} : socket'[t] = socket[t]
      BY <2>1, <2>2, Restaged
    <3>4. socket'[s].stage = g
      BY <2>1, <2>2, Restaged
    <3> QED BY <2>3, <3>1, <3>2, <3>3, <3>4
  <2> QED BY <1>1, <2>7, Relinked
<1>8. ASSUME NEW s \in Sockets, AnnounceOnline(s) PROVE Linked'
  <2>1. Becomes(s, "open") /\ s \in Counted /\ "open" \in Up /\ "open" \in Stages
    BY <1>8 DEF AnnounceOnline, Counted, Up, Stages
  <2>7. /\ socket' \in [Sockets -> Connection] /\ \A t \in Sockets \ {s} : socket'[t] = socket[t]
        /\ Cardinality(Counted') = connections' /\ socket'[s].stage # "sending"
    BY <1>8, <2>1, Restaged DEF AnnounceOnline
  <2> QED BY <1>1, <2>7, Relinked
<1>9. ASSUME NEW s \in Sockets, AnnounceOffline(s) PROVE Linked'
  <2>1. s \notin Counted /\ Dropped(s) /\ UNCHANGED connections
    BY <1>9 DEF AnnounceOffline, Dropped, Counted, Up
  <2>7. /\ socket' \in [Sockets -> Connection] /\ \A t \in Sockets \ {s} : socket'[t] = socket[t]
        /\ Cardinality(Counted') = connections' /\ socket'[s].stage # "sending"
    BY <2>1, Hung
  <2> QED BY <1>1, <2>7, Relinked
<1>10. ASSUME NEW s \in Sockets, s \in Counted, Close(s) PROVE Linked'
  <2>7. /\ socket' \in [Sockets -> Connection] /\ \A t \in Sockets \ {s} : socket'[t] = socket[t]
        /\ Cardinality(Counted') = connections' /\ socket'[s].stage # "sending"
    BY <1>10, Closed
  <2> QED BY <1>1, <2>7, Relinked
<1>11. ASSUME NEW s \in Sockets, HangUp(s) PROVE Linked'
  <2>1. CASE socket[s].stage \in {"open", "sending"} /\ Close(s)
    BY <1>10, <2>1 DEF Counted, Up
  <2>2. CASE socket[s].stage = "accepted" /\ socket' = [socket EXCEPT ![s] = NoSocket]
             /\ UNCHANGED connections
    <3>1. s \notin Counted /\ Dropped(s) /\ UNCHANGED connections
      BY <2>2 DEF Counted, Up, Dropped
    <3>7. /\ socket' \in [Sockets -> Connection] /\ \A t \in Sockets \ {s} : socket'[t] = socket[t]
          /\ Cardinality(Counted') = connections' /\ socket'[s].stage # "sending"
      BY <3>1, Hung
    <3> QED BY <1>1, <3>7, Relinked
  <2> QED BY <1>11, <2>1, <2>2 DEF HangUp
<1>12. ASSUME NEW s \in Sockets, Receive(s) PROVE Linked'
  <2>1. s \in Counted /\ "sending" \in Up /\ "sending" \in Stages
    BY <1>12 DEF Receive, Counted, Up, Stages
  <2>2. CASE Close(s)
    BY <1>10, <2>1, <2>2
  <2>3. CASE Becomes(s, "sending") /\ UNCHANGED connections
    <3>7. /\ socket' \in [Sockets -> Connection] /\ \A t \in Sockets \ {s} : socket'[t] = socket[t]
          /\ Cardinality(Counted') = connections' /\ socket'[s].queue = socket[s].queue
      BY <2>1, <2>3, Restaged
    <3> QED BY <1>1, <1>12, <3>7, Relinked DEF Receive
  <2> QED BY <1>12, <2>2, <2>3 DEF Receive
<1>13. ASSUME NEW s \in Sockets, Send(s) PROVE Linked'
  <2>1. socket[s].queue # <<>>
    BY <1>13 DEF Send, GateTyped
  <2>7. /\ socket' \in [Sockets -> Connection] /\ \A t \in Sockets \ {s} : socket'[t] = socket[t]
        /\ Cardinality(Counted') = connections' /\ socket'[s].stage # "sending"
    BY <1>13, <2>1, Sent DEF Send
  <2> QED BY <1>1, <2>7, Relinked
<1>14. ASSUME \/ SuspendAccount \/ ListDevices
              \/ \E d \in Devices : SignIn(d) \/ RegisterIdentity(d) \/ RevokeDevice(d)
              \/ \E h \in handlers : ScheduleDeletion(h) \/ TellGateway(h)
       PROVE  UNCHANGED <<socket, connections>>
  BY <1>14 DEF SuspendAccount, ListDevices, ScheduleDeletion, SignIn, RegisterIdentity,
               RevokeDevice, TellGateway
<1> QED
  BY <1>2, <1>3, <1>4, <1>5, <1>6, <1>7, <1>8, <1>9, <1>11, <1>12, <1>13, <1>14 DEF Next

-----------------------------------------------------------------------------
(* Presence.  An announcement under way of the other kind is recorded in crossed, so that *)
(* without it at most one kind of announcement is under way when it is made.              *)

\* what a step does to the announcements that are under way
LEMMA AnnouncesAfter ==
    ASSUME NEW s \in Sockets, \A t \in Sockets \ {s} : socket'[t] = socket[t], NEW g
    PROVE  /\ socket'[s].stage = g => Announces(g)'
           /\ socket'[s].stage # g /\ socket[s].stage # g => (Announces(g)' <=> Announces(g))
           /\ Announces(g)' => Announces(g) \/ socket'[s].stage = g
           /\ Announces(g) /\ socket[s].stage # g => Announces(g)'
BY DEF Announces

LEMMA SettlingStep ==
    ASSUME Parameters, GateTyped, Settling, Next PROVE Settling'
<1>1. CASE UNCHANGED <<connections, heard, crossed>>
           /\ (\A g \in {"opening", "closing"} : Announces(g)' <=> Announces(g))
  BY <1>1 DEF Settling
<1>2. ASSUME NEW s \in Sockets, Open(s) PROVE Settling'
  <2>1. PICK g : /\ g = IF connections' = 1 THEN "opening" ELSE "open"
                 /\ Becomes(s, g)
    BY <1>2 DEF Open
  <2>2. g \in Stages
    BY <2>1 DEF Stages
  <2>3. /\ \A t \in Sockets \ {s} : socket'[t] = socket[t]
        /\ socket'[s].stage = g /\ connections \in Nat
    BY <2>1, <2>2, Restaged
  <2>4. /\ connections' = connections + 1 /\ UNCHANGED <<heard, crossed>>
        /\ socket[s].stage = "accepted"
    BY <1>2 DEF Open, history
  <2>5. CASE connections = 0
    <3>1. Announces("opening")'
      BY <2>1, <2>3, <2>4, <2>5, AnnouncesAfter
    <3> QED BY <3>1 DEF Settling
  <2>6. CASE connections > 0
    <3>1. \A a \in {"opening", "closing"} : Announces(a)' <=> Announces(a)
      BY <2>1, <2>3, <2>4, <2>6, AnnouncesAfter
    <3> QED BY <2>3, <2>4, <2>6, <3>1 DEF Settling
  <2> QED BY <2>3, <2>5, <2>6
<1>3. ASSUME NEW s \in Sockets, AnnounceOnline(s) PROVE Settling'
  <2>1. Becomes(s, "open") /\ s \in Counted /\ "open" \in Stages /\ socket[s].stage = "opening"
    BY <1>3 DEF AnnounceOnline, Counted, Up, Stages
  <2>2. /\ \A t \in Sockets \ {s} : socket'[t] = socket[t]
        /\ socket'[s].stage = "open" /\ connections > 0
    BY <2>1, Restaged
  <2>3. Announces("closing")' <=> Announces("closing")
    BY <2>1, <2>2, AnnouncesAfter
  <2> QED BY <1>3, <2>2, <2>3 DEF Settling, AnnounceOnline, Publishes
<1>4. ASSUME NEW s \in Sockets, AnnounceOffline(s) PROVE Settling'
  <2>1. Dropped(s) /\ s \notin Counted /\ socket[s].stage = "closing"
    BY <1>4 DEF AnnounceOffline, Counted, Up, Dropped
  <2>2. /\ \A t \in Sockets \ {s} : socket'[t] = socket[t]
        /\ socket'[s].stage = "none"
    BY <2>1, Hung
  <2>3. Announces("opening")' <=> Announces("opening")
    BY <2>1, <2>2, AnnouncesAfter
  <2>4. Announces("closing")
    BY <2>1 DEF Announces
  <2>5. heard' \in {"offline", "nothing"}
    BY <1>4 DEF AnnounceOffline, Publishes
  <2>5a. UNCHANGED connections /\ crossed' = (crossed \/ Announces("opening"))
    BY <1>4 DEF AnnounceOffline
  <2>6. CASE crossed \/ Announces("opening")
    BY <2>3, <2>5a, <2>6 DEF Settling
  <2>7. CASE ~crossed /\ ~Announces("opening")
    <3>1. connections = 0
      BY <2>4, <2>7 DEF Settling
    <3> QED BY <2>5, <2>5a, <3>1 DEF Settling
  <2> QED BY <2>6, <2>7
<1>5. ASSUME NEW s \in Sockets, socket[s].stage \in {"open", "sending"}, Close(s) PROVE Settling'
  <2>1. s \in Counted
    BY <1>5 DEF Counted, Up
  <2>2. /\ \A t \in Sockets \ {s} : socket'[t] = socket[t]
        /\ socket'[s].stage = (IF connections = 1 THEN "closing" ELSE "none")
        /\ connections \in Nat /\ connections > 0 /\ connections' = connections - 1
    BY <2>1, <1>5, Closed
  <2>3. UNCHANGED <<heard, crossed>>
    BY <1>5 DEF Close, history
  <2>4. Announces("opening")' <=> Announces("opening")
    BY <1>5, <2>2, AnnouncesAfter
  <2>5. CASE connections = 1
    <3>1. Announces("closing")'
      BY <2>2, <2>5, AnnouncesAfter
    <3> QED BY <2>2, <2>3, <2>4, <2>5, <3>1 DEF Settling
  <2>6. CASE connections # 1
    <3>1. Announces("closing")' <=> Announces("closing")
      BY <1>5, <2>2, <2>6, AnnouncesAfter
    <3> QED BY <2>2, <2>3, <2>4, <2>6, <3>1 DEF Settling
  <2> QED BY <2>5, <2>6
<1>6. ASSUME NEW s \in Sockets, NEW b, socket[s].stage = b, b \notin {"opening", "closing"},
             \A t \in Sockets \ {s} : socket'[t] = socket[t],
             NEW a, socket'[s].stage = a, a \notin {"opening", "closing"},
             UNCHANGED <<connections, heard, crossed>>
      PROVE  Settling'
  <2>1. \A g \in {"opening", "closing"} : Announces(g)' <=> Announces(g)
    BY <1>6, AnnouncesAfter
  <2> QED BY <1>1, <1>6, <2>1
<1>7. ASSUME NEW s \in Sockets, HangUp(s) PROVE Settling'
  <2>1. CASE socket[s].stage \in {"open", "sending"} /\ Close(s)
    BY <2>1, <1>5
  <2>2. CASE socket[s].stage = "accepted" /\ socket' = [socket EXCEPT ![s] = NoSocket]
             /\ UNCHANGED <<limits, connections, heard, history>>
    <3>1. s \notin Counted /\ Dropped(s)
      BY <2>2 DEF Counted, Up, Dropped
    <3>2. /\ \A t \in Sockets \ {s} : socket'[t] = socket[t]
          /\ socket'[s].stage = "none"
      BY <3>1, Hung
    <3> QED BY <1>6, <2>2, <3>2 DEF history
  <2> QED BY <1>7, <2>1, <2>2 DEF HangUp
<1>8. ASSUME NEW s \in Sockets, Receive(s) PROVE Settling'
  <2>1. CASE Close(s)
    BY <1>8, <1>5, <2>1 DEF Receive
  <2>2. CASE Becomes(s, "sending") /\ UNCHANGED <<limits, connections, heard, history>>
    <3>1. "sending" \in Stages /\ socket[s].stage = "open"
      BY <1>8 DEF Stages, Receive
    <3>2. /\ \A t \in Sockets \ {s} : socket'[t] = socket[t]
          /\ socket'[s].stage = "sending"
      BY <2>2, <3>1, Restaged
    <3> QED BY <1>6, <2>2, <3>1, <3>2 DEF history
  <2> QED BY <1>8, <2>1, <2>2 DEF Receive
<1>9. ASSUME NEW s \in Sockets, Send(s) PROVE Settling'
  <2>1. socket[s].queue # <<>> /\ socket[s].stage = "sending"
        /\ UNCHANGED <<connections, heard, crossed>>
    BY <1>9 DEF Send, GateTyped, limits
  <2>2. /\ \A t \in Sockets \ {s} : socket'[t] = socket[t]
        /\ socket'[s].stage = "open"
    BY <1>9, <2>1, Sent
  <2> QED BY <1>6, <2>1, <2>2
<1>10. ASSUME NEW s \in Sockets, NEW d \in Devices, Accept(s, d) PROVE Settling'
  <2>1. socket[s].stage = "none" /\ UNCHANGED <<connections, heard, crossed>>
    BY <1>10 DEF Accept, NoSocket, history
  <2>2. /\ \A t \in Sockets \ {s} : socket'[t] = socket[t]
        /\ socket'[s].stage = "accepted"
    BY <1>10, Accepted
  <2> QED BY <1>6, <2>1, <2>2
<1>11. ASSUME Restart PROVE Settling'
  <2>1. socket' = [s \in Sockets |-> NoSocket] /\ connections' = 0 /\ heard' = "offline"
    BY <1>11 DEF Restart
  <2>2. \A g \in {"opening", "closing"} : ~Announces(g)'
    BY <2>1 DEF Announces, NoSocket
  <2> QED BY <2>1, <2>2 DEF Settling
<1>12. ASSUME Publish PROVE Settling'
  <2>1. UNCHANGED <<connections, heard, crossed>>
    BY <1>12 DEF Publish
  <2> QED BY <1>1, <1>12, <2>1, Queued, SameStages
<1>13. ASSUME ReinstateAccount \/ \E d \in Devices : CancelDeletion(d) PROVE Settling'
  <2>1. socket' = Forgiven(authority') /\ UNCHANGED <<connections, heard, crossed>>
    BY <1>13 DEF ReinstateAccount, CancelDeletion, history
  <2>2. PICK a : a = authority'
    OBVIOUS
  <2>3. socket' = Forgiven(a)
    BY <2>1, <2>2
  <2> QED BY <1>1, <2>1, <2>3, Forgave, SameStages
<1>14. ASSUME \/ SuspendAccount \/ ListDevices
              \/ \E d \in Devices : SignIn(d) \/ RegisterIdentity(d) \/ RevokeDevice(d)
              \/ \E h \in handlers : ScheduleDeletion(h) \/ TellGateway(h)
       PROVE  Settling'
  <2>1. UNCHANGED <<socket, connections, heard, crossed>>
    BY <1>14 DEF SuspendAccount, ListDevices, ScheduleDeletion, SignIn, RegisterIdentity,
                 RevokeDevice, TellGateway, history
  <2>2. \A g \in {"opening", "closing"} : Announces(g)' <=> Announces(g)
    BY <2>1 DEF Announces
  <2> QED BY <1>1, <2>1, <2>2
<1> QED
  BY <1>2, <1>3, <1>4, <1>7, <1>8, <1>9, <1>10, <1>11, <1>12, <1>13, <1>14 DEF Next

-----------------------------------------------------------------------------
(* Suspension, revocation and deletion. *)

\* the part of the state that says who is barred and cut off
BarsKeep ==
    /\ \A d \in Devices : Told(d) => Told(d)'
    /\ \A d : Held(d) => Held(d)'
    /\ Unlifted => Unlifted'
    /\ (leaked' => leaked) /\ (overlapped' <=> overlapped)

LEMMA LimitsSame ==
    ASSUME UNCHANGED limits, leaked' = leaked, overlapped' = overlapped PROVE BarsKeep
BY DEF BarsKeep, Told, Held, Unlifted, Cutting, Busy, limits, registry

LEMMA LiftsKeep ==
    ASSUME GateTyped, Guarded, BarsKeep, UNCHANGED socket PROVE Guarded'
<1>1. Owned' /\ Active' = Active
  BY DEF Guarded, Owned, Active
<1>2. ASSUME ~overlapped, NEW s \in Active PROVE Watched(s)'
  <2>1. PICK d \in Devices : d = socket[s].device
    BY DEF Guarded, Owned
  <2>2. Told(d)
    BY <1>2, <2>1 DEF Guarded, CutOff, Watched
  <2>3. Told(d)'
    BY <2>2 DEF BarsKeep
  <2> QED BY <2>1, <2>3 DEF Watched, Told
<1>3. ASSUME ~overlapped, NEW s \in Sockets PROVE Behind(s)'
  BY <1>1, <1>3 DEF Guarded, CutOff, Behind, BarsKeep
<1>4. (overlapped' <=> overlapped) /\ (leaked' => leaked) /\ (Unlifted => Unlifted')
  BY DEF BarsKeep
<1>5. CutOff'
  BY <1>1, <1>2, <1>3, <1>4 DEF Guarded, CutOff
<1> QED BY <1>1, <1>5 DEF Guarded

\* one connection changes, and neither the bars nor its device
LEMMA OneKeeps ==
    ASSUME Guarded, GateTyped, BarsKeep, NEW s \in Sockets, socket' \in [Sockets -> Connection],
           \A t \in Sockets \ {s} : socket'[t] = socket[t],
           s \in Active' => socket'[s].device \in Devices,
           ~overlapped => (s \in Active' => Watched(s)') /\ Behind(s)'
    PROVE  Guarded'
<1>0. Owned'
  BY DEF Guarded, Owned, Active
<1>1. CASE overlapped
  BY <1>0, <1>1 DEF BarsKeep, CutOff, Guarded
<1>2. CASE ~overlapped
  <2>1. ~overlapped' /\ ~leaked' /\ Unlifted'
    BY <1>2 DEF BarsKeep, CutOff, Guarded
  <2>2. ASSUME NEW t \in Active' PROVE Watched(t)'
    <3>1. CASE t = s
      BY <1>2, <2>2, <3>1
    <3>2. CASE t # s
      <4>1. socket'[t] = socket[t] /\ t \in Active
        BY <2>2, <3>2 DEF Active
      <4>2. PICK d \in Devices : d = socket[t].device
        BY <4>1 DEF Guarded, Owned
      <4>3. Told(d)
        BY <1>2, <4>1, <4>2 DEF Guarded, CutOff, Watched
      <4>4. Told(d)'
        BY <4>3 DEF BarsKeep
      <4> QED BY <4>1, <4>2, <4>4 DEF Watched, Told
    <3> QED BY <3>1, <3>2
  <2>3. ASSUME NEW t \in Sockets PROVE Behind(t)'
    <3>1. CASE t = s
      BY <1>2, <3>1
    <3>2. CASE t # s
      <4>1. socket'[t] = socket[t] /\ Behind(t)
        BY <1>2, <3>2 DEF Guarded, CutOff
      <4>2. t \in Active' <=> t \in Active
        BY <4>1 DEF Active
      <4> QED BY <4>1, <4>2 DEF BarsKeep, Behind
    <3> QED BY <3>1, <3>2
  <2> QED BY <1>0, <2>1, <2>2, <2>3 DEF CutOff, Guarded
<1> QED BY <1>1, <1>2

\* what a new handler is to do
LEMMA Begun ==
    ASSUME NEW kind, NEW ds, NEW hs, [kind |-> kind, devices |-> ds] \in hs
    PROVE  /\ \E h \in hs : h.kind = kind
           /\ \A d \in ds : \E h \in hs : h.kind = kind /\ d \in h.devices
<1>1. PICK g : g = [kind |-> kind, devices |-> ds]
  OBVIOUS
<1>2. g \in hs /\ g.kind = kind /\ g.devices = ds
  BY <1>1
<1> QED BY <1>2

\* the requests to the auth store, and what the gateway is told
LEMMA RequestsKeep ==
    ASSUME GateTyped, Guarded,
           \/ SuspendAccount \/ ListDevices
           \/ \E d \in Devices : SignIn(d) \/ RegisterIdentity(d) \/ RevokeDevice(d)
           \/ \E h \in handlers : ScheduleDeletion(h) \/ TellGateway(h)
    PROVE  Guarded'
<1>0. /\ authority \in [deleting : BOOLEAN, suspended : BOOLEAN, revoked : SUBSET Devices]
      /\ authority.suspended => tokens = {}
  BY DEF GateTyped, TypeOK
<1> USE DEF Cutting, Busy
<1>1. ASSUME SuspendAccount PROVE Guarded'
  <2>1. /\ ~authority.suspended /\ authority' = [authority EXCEPT !.suspended = TRUE]
        /\ handlers' = handlers \cup {[kind |-> "suspend", devices |-> {}]}
        /\ UNCHANGED <<unlisted, cutDevices, cutUser, socket>> /\ leaked' = leaked
        /\ overlapped' = (overlapped \/ Busy("reinstate"))
    BY <1>1 DEF SuspendAccount, Begin, registry
  <2>2. authority'.suspended /\ authority'.deleting = authority.deleting
        /\ authority'.revoked = authority.revoked
    BY <1>0, <2>1
  <2>3. CASE overlapped'
    BY <2>1, <2>3 DEF Guarded, CutOff, Owned, Active
  <2>4. CASE ~overlapped'
    <3>1. ~overlapped /\ \A h \in handlers : h.kind # "reinstate"
      BY <2>1, <2>4
    <3>2. Unlifted'
      BY <2>1, <3>1 DEF Unlifted
    <3>3. ASSUME NEW d \in Devices, Told(d) PROVE Told(d)'
      <4>1. ASSUME NEW kind
            PROVE  (Cutting(kind, d) => Cutting(kind, d)') /\ (Busy(kind) => Busy(kind)')
        BY <2>1
      <4>2. Busy("suspend")'
        <5>1. [kind |-> "suspend", devices |-> {}] \in handlers'
          BY <2>1
        <5> QED BY <5>1, Begun
      <4> HIDE DEF Cutting, Busy
      <4> QED BY <2>1, <2>2, <3>3, <4>1, <4>2 DEF Told
    <3>4. \A d : Held(d) => Held(d)'
      BY <2>1, <2>2 DEF Held
    <3>5. overlapped' <=> overlapped
      BY <2>4, <3>1
    <3> QED BY <2>1, <3>2, <3>3, <3>4, <3>5, LiftsKeep DEF BarsKeep
  <2> QED BY <2>3, <2>4
<1>2. ASSUME NEW h \in handlers, ScheduleDeletion(h) PROVE Guarded'
  <2>1. /\ h.kind = "list" /\ authority' = [authority EXCEPT !.deleting = TRUE]
        /\ handlers' = (handlers \ {h}) \cup {[kind |-> "schedule", devices |-> h.devices]}
        /\ unlisted' = (IF authority.deleting THEN unlisted ELSE Devices) \ h.devices
        /\ UNCHANGED <<cutDevices, cutUser, socket>> /\ leaked' = leaked
        /\ overlapped' = overlapped
    BY <1>2 DEF ScheduleDeletion, history
  <2>2. /\ authority'.suspended = authority.suspended /\ authority'.deleting
        /\ authority'.revoked = authority.revoked
    BY <1>0, <2>1
  <2>3. ASSUME NEW d \in Devices, Told(d) PROVE Told(d)'
    <3>1. ASSUME NEW kind, kind # "list"
          PROVE  /\ Cutting(kind, d) => Cutting(kind, d)'
                 /\ Busy(kind) => Busy(kind)'
      BY <2>1, <3>1
    <3>2. d \in h.devices => Cutting("schedule", d)'
      <4>1. [kind |-> "schedule", devices |-> h.devices] \in handlers'
        BY <2>1
      <4> QED BY <4>1, Begun
    <3>3. d \notin unlisted' => d \in h.devices \/ (authority.deleting /\ d \notin unlisted)
      BY <2>1
    <3>4. authority'.deleting /\ d \notin unlisted'
            => d \in cutDevices' \/ Cutting("schedule", d)'
      <4>1. Cutting("schedule", d) => Cutting("schedule", d)'
        BY <3>1
      <4> HIDE DEF Cutting
      <4> QED BY <2>1, <2>3, <3>2, <3>3, <4>1 DEF Told
    <3>5. /\ Cutting("revoke", d) => Cutting("revoke", d)'
          /\ Busy("suspend") => Busy("suspend")'
      BY <3>1
    <3> HIDE DEF Cutting, Busy
    <3> QED BY <2>1, <2>2, <2>3, <3>4, <3>5 DEF Told
  <2>4. \A d : Held(d) => Held(d)'
    BY <2>1, <2>2 DEF Held
  <2>5. Unlifted => Unlifted'
    BY <2>1, <2>2 DEF Unlifted
  <2> QED BY <2>1, <2>3, <2>4, <2>5, LiftsKeep DEF BarsKeep
<1>3. ASSUME NEW d \in Devices, SignIn(d) \/ RegisterIdentity(d) PROVE Guarded'
  <2>1. UNCHANGED <<authority, unlisted, cutDevices, cutUser, handlers, socket>>
        /\ leaked' = leaked /\ overlapped' = overlapped
    BY <1>3 DEF SignIn, RegisterIdentity, registry, history
  <2>2. BarsKeep
    BY <2>1 DEF BarsKeep, Told, Held, Unlifted
  <2> QED BY <2>1, <2>2, LiftsKeep
<1>4. ASSUME NEW e \in Devices, RevokeDevice(e) PROVE Guarded'
  <2>1. /\ ~authority.suspended /\ authority' = [authority EXCEPT !.revoked = @ \cup {e}]
        /\ handlers' = handlers \cup {[kind |-> "revoke", devices |-> {e}]}
        /\ UNCHANGED <<unlisted, cutDevices, cutUser, socket>> /\ leaked' = leaked
        /\ overlapped' = overlapped
    BY <1>0, <1>4 DEF RevokeDevice, Begin, registry
  <2>2. ~authority'.suspended /\ authority'.deleting = authority.deleting
        /\ authority'.revoked = authority.revoked \cup {e}
    BY <1>0, <2>1
  <2>3. ASSUME NEW d \in Devices, Told(d) PROVE Told(d)'
    <3>1. ASSUME NEW kind PROVE Cutting(kind, d) => Cutting(kind, d)'
      BY <2>1
    <3>2. Cutting("revoke", e)'
      <4>1. [kind |-> "revoke", devices |-> {e}] \in handlers'
        BY <2>1
      <4> QED BY <4>1, Begun
    <3> HIDE DEF Cutting, Busy
    <3> QED BY <2>1, <2>2, <2>3, <3>1, <3>2 DEF Told
  <2>4. \A d : Held(d) => Held(d)'
    BY <2>1, <2>2 DEF Held
  <2>5. Unlifted'
    BY <2>2 DEF Unlifted
  <2> QED BY <2>1, <2>3, <2>4, <2>5, LiftsKeep DEF BarsKeep
<1>5. ASSUME NEW h \in handlers, TellGateway(h) PROVE Guarded'
  <2>1. /\ handlers' = handlers \ {h} /\ cutDevices' = cutDevices \cup h.devices
        /\ cutUser' = (IF h.kind = "suspend" THEN TRUE
                       ELSE IF h.kind = "reinstate" THEN FALSE ELSE cutUser)
        /\ UNCHANGED <<authority, unlisted, socket>> /\ leaked' = leaked
        /\ overlapped' = overlapped
    BY <1>5 DEF TellGateway, Cut, registry, history
  <2>2. CASE overlapped
    BY <2>1, <2>2 DEF Guarded, CutOff, Owned, Active
  <2>3. CASE ~overlapped
    <3>1. Unlifted /\ (authority.suspended => h.kind # "reinstate")
      BY <2>3 DEF Guarded, CutOff, Unlifted
    <3>2. Unlifted'
      BY <2>1, <3>1 DEF Unlifted
    <3>3. authority.suspended /\ cutUser => cutUser'
      BY <2>1, <3>1
    <3>4. \A d : Held(d) => Held(d)'
      BY <2>1, <3>3 DEF Held
    <3>5. ASSUME NEW d \in Devices, Told(d) PROVE Told(d)'
      <4>1. ASSUME NEW kind, Cutting(kind, d) PROVE d \in cutDevices' \/ Cutting(kind, d)'
        <5>1. PICK g \in handlers : g.kind = kind /\ d \in g.devices
          BY <4>1
        <5> QED BY <2>1, <5>1
      <4>2. authority.suspended /\ Busy("suspend") => cutUser' \/ Busy("suspend")'
        BY <2>1
      <4>3. d \in cutDevices => d \in cutDevices'
        BY <2>1
      <4> HIDE DEF Cutting, Busy
      <4> QED BY <2>1, <3>3, <3>5, <4>1, <4>2, <4>3 DEF Told
    <3> QED BY <2>1, <3>2, <3>4, <3>5, LiftsKeep DEF BarsKeep
  <2> QED BY <2>2, <2>3
<1>6. ASSUME ListDevices PROVE Guarded'
  <2>1. /\ handlers' = handlers \cup {[kind |-> "list", devices |-> identities]}
        /\ UNCHANGED <<authority, unlisted, cutDevices, cutUser, socket>>
        /\ leaked' = leaked /\ overlapped' = overlapped
    BY <1>6 DEF ListDevices, Begin, registry
  <2>2. \A d \in Devices : Told(d) => Told(d)'
    <3>1. ASSUME NEW d, NEW kind
          PROVE  (Cutting(kind, d) => Cutting(kind, d)') /\ (Busy(kind) => Busy(kind)')
      BY <2>1
    <3> HIDE DEF Cutting, Busy
    <3> QED BY <2>1, <3>1 DEF Told
  <2>3. \A d : Held(d) => Held(d)'
    BY <2>1 DEF Held
  <2>4. Unlifted => Unlifted'
    BY <2>1 DEF Unlifted
  <2> QED BY <2>1, <2>2, <2>3, <2>4, LiftsKeep DEF BarsKeep
<1> QED BY <1>1, <1>2, <1>3, <1>4, <1>5, <1>6

\* a lifted bar takes the marks away that it gave
LEMMA ForgivingKeeps ==
    ASSUME GateTyped, Guarded, ReinstateAccount \/ \E d \in Devices : CancelDeletion(d)
    PROVE  Guarded'
<1>1. PICK a : a = authority'
  OBVIOUS
<1>2. /\ socket' = Forgiven(a) /\ UNCHANGED <<cutDevices, cutUser>>
      /\ leaked' = leaked /\ (a.deleting => UNCHANGED unlisted)
  <2>1. CASE ReinstateAccount
    BY <1>1, <2>1 DEF ReinstateAccount, registry
  <2>2. ASSUME NEW d \in Devices, CancelDeletion(d)
        PROVE  /\ socket' = Forgiven(a) /\ UNCHANGED <<cutDevices, cutUser>>
               /\ leaked' = leaked /\ (a.deleting => UNCHANGED unlisted)
    <3>1. ~a.deleting
      BY <1>1, <2>2 DEF CancelDeletion, GateTyped, TypeOK
    <3> QED BY <1>1, <2>2, <3>1 DEF CancelDeletion, history
  <2> QED BY <2>1, <2>2
<1>3. /\ ~a.suspended /\ a.revoked = authority.revoked /\ (a.deleting => authority.deleting)
      /\ handlers \subseteq handlers' /\ (overlapped => overlapped')
  <2>1. /\ authority \in [deleting : BOOLEAN, suspended : BOOLEAN, revoked : SUBSET Devices]
        /\ authority.suspended => tokens = {}
    BY DEF GateTyped, TypeOK
  <2>2. CASE ReinstateAccount
    BY <1>1, <2>1, <2>2 DEF ReinstateAccount, Begin
  <2>3. ASSUME NEW d \in Devices, CancelDeletion(d)
        PROVE  /\ ~a.suspended /\ a.revoked = authority.revoked /\ (a.deleting => authority.deleting)
               /\ handlers \subseteq handlers' /\ (overlapped => overlapped')
    BY <1>1, <2>1, <2>3 DEF CancelDeletion, history
  <2> QED BY <2>2, <2>3
<1>5. /\ socket' \in [Sockets -> Connection]
      /\ \A s \in Sockets :
           /\ socket'[s].stage = socket[s].stage /\ socket'[s].device = socket[s].device
           /\ DOMAIN socket'[s].queue = DOMAIN socket[s].queue
           /\ socket[s].queue = <<>> <=> socket'[s].queue = <<>>
           /\ \A i \in DOMAIN socket'[s].queue :
                 socket'[s].queue[i] <=> (socket[s].queue[i] /\ Barred(a, socket[s].device))
  BY <1>2, Forgave
<1>6. Active' = Active /\ Owned'
  BY <1>5 DEF Active, Owned, Guarded
<1>7. CASE overlapped
  BY <1>3, <1>6, <1>7 DEF Guarded, CutOff
<1>8. CASE ~overlapped
  <2>1. Unlifted' /\ ~leaked'
    BY <1>1, <1>2, <1>3, <1>8 DEF Guarded, CutOff, Unlifted
  <2>2. ASSUME NEW s \in Active PROVE Watched(s)'
    <3>1. PICK d : d = socket[s].device
      OBVIOUS
    <3>2. Told(d) /\ s \in Sockets
      BY <1>8, <3>1 DEF Guarded, CutOff, Watched, Active
    <3>3. socket'[s].device = d
      BY <1>5, <3>1, <3>2
    <3> QED BY <1>1, <1>2, <1>3, <3>2, <3>3 DEF Watched, Told, Cutting, Busy
  <2>3. ASSUME NEW s \in Sockets PROVE Behind(s)'
    <3>1. PICK d : d = socket[s].device
      OBVIOUS
    <3>2. ASSUME NEW i \in DOMAIN socket'[s].queue, socket'[s].queue[i] PROVE Held(d)'
      <4>1. socket[s].queue[i] /\ Barred(a, d) /\ i \in DOMAIN socket[s].queue
        BY <1>5, <3>1, <3>2
      <4>2. socket[s].queue # <<>>
        <5>1. socket[s].queue \in Seq(BOOLEAN)
          BY DEF GateTyped, Connection
        <5> QED BY <4>1, <5>1
      <4>3. s \in Active
        BY <1>8, <4>2 DEF Guarded, CutOff, Behind
      <4>4. Told(d)
        BY <1>8, <3>1, <4>3 DEF Guarded, CutOff, Watched
      <4>5. d \in cutDevices
        <5>1. Cutting("schedule", d) => Busy("schedule")
          BY DEF Cutting, Busy
        <5>2. Cutting("revoke", d) => Busy("revoke")
          BY DEF Cutting, Busy
        <5> QED BY <1>3, <4>1, <4>4, <5>1, <5>2 DEF Barred, Told
      <4> QED BY <1>2, <4>5 DEF Held
    <3>3. ASSUME socket'[s].stage = "sending"
          PROVE  socket'[s].queue # <<>> /\ ~socket'[s].queue[1]
      <4>1. socket[s].queue # <<>> /\ ~socket[s].queue[1]
        BY <1>5, <1>8, <3>3 DEF Guarded, CutOff, Behind
      <4>2. socket[s].queue \in Seq(BOOLEAN)
        BY DEF GateTyped, Connection
      <4>3. 1 \in DOMAIN socket[s].queue
        BY <4>1, <4>2
      <4> QED BY <1>5, <4>1, <4>3
    <3>4. socket'[s].device = d
      BY <1>5, <3>1
    <3>5. s \notin Active' => socket'[s].queue = <<>>
      BY <1>5, <1>6, <1>8 DEF Guarded, CutOff, Behind
    <3> QED BY <3>2, <3>3, <3>4, <3>5 DEF Behind, Held
  <2> QED BY <1>6, <2>1, <2>2, <2>3 DEF Guarded, CutOff
<1> QED BY <1>7, <1>8

\* an event is marked only when everybody who bars the device has told the gateway
LEMMA PublishKeeps ==
    ASSUME GateTyped, Guarded, Publish PROVE Guarded'
<1>1. UNCHANGED limits /\ leaked' = leaked /\ overlapped' = overlapped
  BY DEF Publish
<1>2. Active' = Active /\ Owned'
  BY Queued, SameStages DEF Active, Owned, Guarded
<1>3. CASE overlapped
  BY <1>1, <1>2, <1>3 DEF Guarded, CutOff
<1>4. CASE ~overlapped
  <2>1. Unlifted' /\ ~leaked'
    BY <1>1, <1>4 DEF Guarded, CutOff, Unlifted, Busy, limits, registry
  <2>2. ASSUME NEW s \in Active PROVE Watched(s)'
    <3>1. Watched(s) /\ s \in Sockets
      BY <1>4 DEF Guarded, CutOff, Active
    <3>2. socket'[s].device = socket[s].device
      BY <3>1, Queued
    <3> QED BY <1>1, <3>1, <3>2 DEF Watched, Told, Cutting, Busy, limits, registry
  <2>3. ASSUME NEW s \in Sockets PROVE Behind(s)'
    <3>1. Behind(s)
      BY <1>4 DEF Guarded, CutOff
    <3>2. CASE s \notin Counted
      <4>1. socket'[s] = socket[s]
        BY <3>2, Queued
      <4> QED BY <1>1, <1>2, <3>1, <4>1 DEF Behind, Held, limits
    <3>3. CASE s \in Counted
      <4>1. PICK d, q, b : d = socket[s].device /\ q = socket[s].queue /\ b = Barred(authority, d)
        OBVIOUS
      <4>2. q \in Seq(BOOLEAN)
        BY <4>1 DEF GateTyped, Connection
      <4>3. socket'[s].queue = Append(q, b) /\ socket'[s].device = d
            /\ socket'[s].stage = socket[s].stage
        BY <3>3, <4>1, Queued DEF Counted
      <4>4. b => Held(d)
        <5>1. SUFFICES ASSUME Barred(authority, d) PROVE Held(d)
          BY <4>1
        <5>2. Told(d)
          BY <1>4, <3>3, <4>1 DEF Guarded, CutOff, Watched, Counted, Active, Up
        <5>3. Cutting("schedule", d) => Busy("schedule")
          BY DEF Cutting, Busy
        <5>4. Cutting("revoke", d) => Busy("revoke")
          BY DEF Cutting, Busy
        <5> QED BY <5>1, <5>2, <5>3, <5>4 DEF Barred, Told, Held
      <4>5. ASSUME NEW i \in DOMAIN Append(q, b), Append(q, b)[i] PROVE Held(d)
        <5>1. CASE i \in DOMAIN q
          BY <3>1, <4>1, <4>2, <4>5, <5>1 DEF Behind
        <5>2. CASE i \notin DOMAIN q
          <6>1. Append(q, b)[i] = b
            BY <4>2, <5>2
          <6> QED BY <4>4, <4>5, <6>1
        <5> QED BY <5>1, <5>2
      <4>6. ASSUME socket[s].stage = "sending"
            PROVE  Append(q, b) # <<>> /\ ~Append(q, b)[1]
        <5>1. q # <<>> /\ ~q[1]
          BY <3>1, <4>1, <4>6 DEF Behind
        <5>2. Append(q, b)[1] = q[1] /\ Append(q, b) # <<>>
          BY <4>2, <5>1
        <5> QED BY <5>1, <5>2
      <4>7. s \in Active'
        BY <1>2, <3>3 DEF Active, Counted
      <4> QED BY <1>1, <4>3, <4>5, <4>6, <4>7 DEF Behind, Held, limits
    <3> QED BY <3>2, <3>3
  <2> QED BY <1>1, <1>2, <1>4, <2>1, <2>2, <2>3 DEF Guarded, CutOff
<1> QED BY <1>3, <1>4

\* the sessions themselves: whoever is cut off does not get to send
LEMMA SessionsKeep ==
    ASSUME Parameters, GateTyped, Guarded, NEW s \in Sockets,
           \/ \E d \in Devices : Accept(s, d)
           \/ Open(s) \/ AnnounceOnline(s) \/ AnnounceOffline(s)
           \/ HangUp(s) \/ Receive(s) \/ Send(s)
    PROVE  Guarded'
<1>0. socket[s] \in Connection
  BY DEF GateTyped
\* a session that goes on with the same device and queue
<1>1. ASSUME NEW g \in Stages, Becomes(s, g), s \in Active,
             g \in Up, (g = "sending" /\ ~overlapped) => socket[s].queue # <<>> /\ ~socket[s].queue[1],
             UNCHANGED limits, leaked' = leaked, overlapped' = overlapped
      PROVE  Guarded'
  <2>1. /\ socket' \in [Sockets -> Connection] /\ \A t \in Sockets \ {s} : socket'[t] = socket[t]
        /\ socket'[s].stage = g /\ socket'[s].device = socket[s].device
        /\ socket'[s].queue = socket[s].queue
    BY <1>1, Restaged
  <2>2. BarsKeep
    BY <1>1, LimitsSame
  <2>3. socket[s].device \in Devices
    BY <1>1 DEF Guarded, Owned
  <2>4. ASSUME ~overlapped PROVE Watched(s)' /\ Behind(s)'
    <3>1. Watched(s) /\ Behind(s)
      BY <1>1, <2>4 DEF Guarded, CutOff
    <3>2. s \in Active'
      BY <1>1, <2>1 DEF Active
    <3>3. Watched(s)'
      BY <1>1, <2>1, <3>1 DEF Watched, Told, Cutting, Busy, limits, registry
    <3>4. Behind(s)'
      BY <1>1, <2>1, <2>4, <3>1, <3>2 DEF Behind, Held, limits
    <3> QED BY <3>3, <3>4
  <2> QED BY <2>1, <2>2, <2>3, <2>4, OneKeeps
\* one that ends
<1>2. ASSUME socket' \in [Sockets -> Connection], \A t \in Sockets \ {s} : socket'[t] = socket[t],
             socket'[s].stage \in {"none", "closing"}, socket'[s].queue = <<>>,
             UNCHANGED limits, leaked' = leaked, overlapped' = overlapped
      PROVE  Guarded'
  <2>1. BarsKeep
    BY <1>2, LimitsSame
  <2>2. s \notin Active'
    BY <1>2 DEF Active, Up
  <2>3. Behind(s)'
    BY <1>2 DEF Behind
  <2> QED BY <1>2, <2>1, <2>2, <2>3, OneKeeps
<1>3. ASSUME socket[s].stage \in Up, Close(s) PROVE Guarded'
  <2>1. s \in Counted
    BY <1>3 DEF Counted
  <2>2. /\ socket' \in [Sockets -> Connection] /\ \A t \in Sockets \ {s} : socket'[t] = socket[t]
        /\ socket'[s].stage = (IF connections = 1 THEN "closing" ELSE "none")
        /\ socket'[s].queue = <<>> /\ UNCHANGED <<limits, heard, history>>
    BY <1>3, <2>1, Closed
  <2>3. UNCHANGED limits /\ leaked' = leaked /\ overlapped' = overlapped
    BY <2>2 DEF history
  <2> QED BY <1>2, <2>2, <2>3
<1>4. ASSUME NEW d \in Devices, Accept(s, d) PROVE Guarded'
  <2>1. /\ socket' \in [Sockets -> Connection] /\ \A t \in Sockets \ {s} : socket'[t] = socket[t]
        /\ socket'[s].stage = "accepted" /\ socket'[s].device = d /\ socket'[s].queue = <<>>
    BY <1>4, Accepted
  <2>2. UNCHANGED limits /\ leaked' = leaked /\ overlapped' = overlapped
    BY <1>4 DEF Accept, history
  <2>3. ~authority.deleting /\ d \notin authority.revoked /\ ~authority.suspended
    BY <1>4 DEF Accept, GateTyped, TypeOK
  <2>4. Watched(s)' /\ Behind(s)'
    BY <2>1, <2>2, <2>3 DEF Watched, Told, Cutting, Busy, Behind, limits, registry
  <2>5. BarsKeep
    BY <2>2, LimitsSame
  <2> QED BY <2>1, <2>4, <2>5, OneKeeps
<1>5. ASSUME Open(s) PROVE Guarded'
  <2>1. PICK g \in {"opening", "open"} : Becomes(s, g)
    BY <1>5 DEF Open
  <2>2. g \in Stages /\ g \in Up /\ g # "sending" /\ s \in Active
    BY <1>5 DEF Open, Stages, Active, Up
  <2>3. UNCHANGED limits /\ leaked' = leaked /\ overlapped' = overlapped
    BY <1>5 DEF Open, history
  <2> QED BY <1>1, <2>1, <2>2, <2>3
<1>6. ASSUME AnnounceOnline(s) PROVE Guarded'
  <2>1. Becomes(s, "open") /\ "open" \in Stages /\ "open" \in Up /\ s \in Active
        /\ UNCHANGED limits /\ leaked' = leaked /\ overlapped' = overlapped
    BY <1>6 DEF AnnounceOnline, Stages, Active, Up
  <2> QED BY <1>1, <2>1
<1>7. ASSUME Dropped(s), s \notin Counted, UNCHANGED limits, leaked' = leaked, overlapped' = overlapped
      PROVE  Guarded'
  <2>1. /\ socket' \in [Sockets -> Connection] /\ \A t \in Sockets \ {s} : socket'[t] = socket[t]
        /\ socket'[s].stage = "none" /\ socket'[s].queue = <<>>
    BY <1>7, Hung
  <2> QED BY <1>2, <1>7, <2>1
<1>8. ASSUME AnnounceOffline(s) PROVE Guarded'
  BY <1>7, <1>8 DEF AnnounceOffline, Dropped, Counted, Up
<1>9. ASSUME HangUp(s) PROVE Guarded'
  <2>1. CASE socket[s].stage \in {"open", "sending"} /\ Close(s)
    BY <1>3, <2>1 DEF Up
  <2>2. CASE socket[s].stage = "accepted" /\ socket' = [socket EXCEPT ![s] = NoSocket]
             /\ UNCHANGED <<limits, connections, heard, history>>
    BY <1>7, <2>2 DEF Dropped, Counted, Up, history
  <2> QED BY <1>9, <2>1, <2>2 DEF HangUp
<1>10. ASSUME Receive(s) PROVE Guarded'
  <2>1. socket[s].stage = "open" /\ socket[s].queue # <<>>
    BY <1>10 DEF Receive
  <2>2. CASE Close(s)
    BY <1>3, <2>1, <2>2 DEF Up
  <2>3. CASE /\ ~(socket[s].device \in cutDevices \/ cutUser) /\ Becomes(s, "sending")
             /\ UNCHANGED <<limits, connections, heard, history>>
    <3>1. ASSUME ~overlapped PROVE ~socket[s].queue[1]
      <4>1. 1 \in DOMAIN socket[s].queue
        BY <1>0, <2>1 DEF Connection
      <4>2. ~Held(socket[s].device)
        BY <2>3 DEF Held
      <4> QED BY <3>1, <4>1, <4>2 DEF Guarded, CutOff, Behind
    <3>2. "sending" \in Stages /\ "sending" \in Up /\ s \in Active
      BY <2>1 DEF Stages, Active, Up
    <3>3. UNCHANGED limits /\ leaked' = leaked /\ overlapped' = overlapped
      BY <2>3 DEF history
    <3> QED BY <1>1, <2>1, <2>3, <3>1, <3>2, <3>3
  <2> QED BY <1>10, <2>2, <2>3 DEF Receive
<1>11. ASSUME Send(s) PROVE Guarded'
  <2>1. PICK q : q = socket[s].queue
    OBVIOUS
  <2>2. q \in Seq(BOOLEAN) /\ q # <<>> /\ socket[s].stage = "sending"
    BY <1>0, <1>11, <2>1 DEF Send, GateTyped, Connection
  <2>3. /\ socket' \in [Sockets -> Connection] /\ \A t \in Sockets \ {s} : socket'[t] = socket[t]
        /\ socket'[s].stage = "open" /\ socket'[s].device = socket[s].device
        /\ socket'[s].queue = Tail(q)
    BY <1>11, <2>1, <2>2, Sent
  <2>4. UNCHANGED limits /\ overlapped' = overlapped
        /\ leaked' \in {leaked, leaked \/ Head(q)}
    BY <1>11, <2>1 DEF Send
  <2>5. s \in Active /\ socket[s].device \in Devices
    BY <2>2 DEF Active, Up, Guarded, Owned
  <2>6. CASE overlapped
    BY <2>3, <2>4, <2>5, <2>6 DEF Guarded, Owned, CutOff, Active
  <2>7. CASE ~overlapped
    <3>1. Watched(s) /\ Behind(s) /\ ~leaked
      BY <2>5, <2>7 DEF Guarded, CutOff
    <3>2. ~Head(q)
      <4>1. ~q[1]
        BY <2>1, <2>2, <3>1 DEF Behind
      <4>2. Head(q) = q[1]
        BY <2>2
      <4> QED BY <4>1, <4>2
    <3>3. ~leaked'
      BY <2>4, <3>1, <3>2
    <3>4. BarsKeep
      BY <2>4, <3>1, <3>3 DEF BarsKeep, Told, Held, Unlifted, Cutting, Busy, limits, registry
    <3>5. ASSUME NEW i \in DOMAIN Tail(q), Tail(q)[i] PROVE Held(socket[s].device)
      <4>1. Tail(q)[i] = q[i + 1] /\ i + 1 \in DOMAIN q
        BY <2>2
      <4> QED BY <2>1, <3>1, <3>5, <4>1 DEF Behind
    <3>6. Watched(s)' /\ Behind(s)'
      <4>1. Watched(s)'
        BY <2>3, <2>4, <3>1 DEF Watched, Told, Cutting, Busy, limits, registry
      <4>2. s \in Active'
        BY <2>3 DEF Active, Up
      <4> QED BY <2>3, <2>4, <3>1, <3>5, <4>1, <4>2 DEF Behind, Held, limits
    <3> QED BY <2>3, <2>5, <3>4, <3>6, OneKeeps
  <2> QED BY <2>6, <2>7
<1> QED BY <1>4, <1>5, <1>6, <1>8, <1>9, <1>10, <1>11

LEMMA RestartKeeps ==
    ASSUME Guarded, Restart PROVE Guarded'
<1>1. /\ handlers' = {} /\ leaked' = leaked /\ overlapped' = overlapped
      /\ \A s \in Sockets : socket'[s].stage = "none" /\ socket'[s].queue = <<>>
  BY DEF Restart, NoSocket
<1>2. Active' = {} /\ Owned'
  BY <1>1 DEF Active, Up, Owned
<1>3. \A s \in Sockets : Behind(s)'
  BY <1>1 DEF Behind
<1> QED BY <1>1, <1>2, <1>3 DEF Guarded, CutOff, Unlifted, Busy

-----------------------------------------------------------------------------
\* the inductive invariant
GateInv == GateTyped /\ Settling /\ Guarded

LEMMA GateStart == ASSUME Parameters, Init PROVE GateInv
<1>1. /\ socket = [s \in Sockets |-> NoSocket] /\ connections = 0 /\ heard = "offline"
      /\ ~leaked /\ ~authority.suspended /\ handlers = {}
  BY DEF Init
<1>2. PICK r : r = NoSocket
  OBVIOUS
<1>3. r.stage = "none" /\ r.queue = <<>> /\ r \in Connection
  <2>1. r = [stage |-> "none", device |-> "none", queue |-> <<>>]
    BY <1>2 DEF NoSocket
  <2> QED BY <2>1 DEF Connection, Stages
<1>4. \A s \in Sockets : socket[s].stage = "none" /\ socket[s].queue = <<>>
  BY <1>1, <1>2, <1>3
<1>5. Counted = {} /\ Active = {}
  BY <1>4 DEF Counted, Active, Up
<1>6. Linked
  BY <1>1, <1>2, <1>3, <1>4, <1>5, FS_EmptySet DEF Linked
<1>7. Limited
  <2>1. /\ authority = [deleting |-> FALSE, suspended |-> FALSE, revoked |-> {}]
        /\ authority.revoked = {} /\ ~authority.suspended
    BY DEF Init
  <2>2. authority \in [deleting : BOOLEAN, suspended : BOOLEAN, revoked : SUBSET Devices]
    BY <2>1
  <2>3. published \in 0 .. MaxPublished /\ requests \in 0 .. MaxRequests
    BY DEF Init, Parameters
  <2>4. /\ cutDevices = {} /\ cutUser = FALSE /\ handlers = {} /\ heard = "offline"
        /\ tokens = Devices /\ identities \subseteq Devices /\ unlisted = {}
    BY DEF Init
  <2> QED BY <2>1, <2>2, <2>3, <2>4 DEF Limited
<1>8. Guarded
  BY <1>1, <1>4, <1>5 DEF Guarded, Owned, CutOff, Behind, Unlifted, Busy
<1>9. Settling
  BY <1>1, <1>4 DEF Settling, Announces
<1> QED BY <1>6, <1>7, <1>8, <1>9, TypedIs DEF GateInv

LEMMA GateStep == ASSUME Parameters, GateInv, [Next]_gvars PROVE GateInv'
<1>1. CASE UNCHANGED gvars
  BY <1>1 DEF gvars, limits, history, GateInv, GateTyped, TypeOK, Counted, Active, Settling,
       Announces, Guarded, Owned, CutOff, Unlifted, Watched, Told, Cutting, Busy, Behind, Held, registry
<1>2. CASE Next
  <2>1. GateTyped'
    <3>1. Limited' /\ Linked'
      BY <1>2, TypedIs, LimitedStep, LinkedStep DEF GateInv
    <3>2. (Limited /\ Linked => GateTyped)'
      BY TypedIs, PTL
    <3> QED BY <3>1, <3>2
  <2>2. Settling'
    BY <1>2, SettlingStep DEF GateInv
  <2>3. Guarded'
    BY <1>2, RequestsKeep, ForgivingKeeps, PublishKeeps, SessionsKeep, RestartKeeps DEF GateInv, Next
  <2> QED BY <2>1, <2>2, <2>3 DEF GateInv
<1> QED BY <1>1, <1>2

LEMMA TypeCorrect == ASSUME Parameters PROVE Spec => []TypeOK
<1>1. GateInv => TypeOK
  BY DEF GateInv, GateTyped
<1> QED BY <1>1, GateStart, GateStep, PTL DEF Spec

(***************************************************************************)
(* A suspended or leaving account, and a revoked device, are sent no event *)
(* published after the request that barred them was answered, unless a     *)
(* suspension and a reinstatement were under way together, or the list of  *)
(* identities that a scheduled deletion goes by did not have the device    *)
(* (gateway_session, suspend_account, schedule_account_deletion).          *)
(***************************************************************************)
THEOREM BarredHearNothingThm == ASSUME Parameters PROVE Spec => []BarredHearNothing
<1>1. GateInv => BarredHearNothing
  BY DEF GateInv, Guarded, CutOff, BarredHearNothing
<1> QED BY <1>1, GateStart, GateStep, PTL DEF Spec

(***************************************************************************)
(* While no session opens or closes, the friends heard last what is true,  *)
(* unless two announcements crossed or the last one was dropped, its       *)
(* audience unknown (publish_presence, release_presence).                  *)
(***************************************************************************)
THEOREM PresenceSettlesThm == ASSUME Parameters PROVE Spec => []PresenceSettles
<1>1. GateInv => PresenceSettles
  BY DEF GateInv, Settling, PresenceSettles
<1> QED BY <1>1, GateStart, GateStep, PTL DEF Spec
=============================================================================
