------------------------------ MODULE Gateway ------------------------------
(***************************************************************************)
(* The gateway sessions of one account (lib.rs): who may open one, which   *)
(* events reach it, how suspension, device revocation and a scheduled      *)
(* deletion cut it off, and the presence that follows from the number of   *)
(* open sessions.                                                          *)
(*                                                                         *)
(* The auth store decides when a session is opened.  An open session only  *)
(* looks at two sets in memory, whenever an event goes out; the handlers   *)
(* fill them after their transaction on the auth store.  The scheduling of *)
(* a deletion cuts off the devices it listed before that transaction, and  *)
(* the list holds those that have registered an MLS identity.              *)
(***************************************************************************)
EXTENDS Naturals, Sequences, FiniteSets

CONSTANTS
    Devices,        \* of the account
    Sockets,        \* gateway connections at once
    MaxPublished,   \* bound: events published for the account
    MaxRequests     \* bound: operator and account requests, registrations, and restarts

\* what the theorems ask of the constants
Parameters == IsFiniteSet(Sockets) /\ MaxPublished \in Nat /\ MaxRequests \in Nat

VARIABLES
    authority,      \* auth store: deletion scheduled, account suspended, devices revoked
    tokens,         \* devices with a session that authenticates
    identities,     \* repository: devices with a row in device_identities, revoked or not
    cutDevices,     \* revoked_gateway_devices
    cutUser,        \* the account is in suspended_gateway_users
    handlers,       \* requests that are still to write the auth store or these sets
    socket,         \* stage, device and events not yet received of each connection
    connections,    \* presence_connections
    heard,          \* what the friends were told when that number last went to or from zero
    published, requests,
    leaked,         \* history: a barred device was sent an event published since then
    unlisted,       \* history: devices the scheduling of the deletion did not list
    crossed,        \* history: presence was published while the opposite was under way
    overlapped      \* history: suspension and reinstatement were under way together

registry == <<identities, unlisted>>
limits == <<authority, tokens, registry, cutDevices, cutUser, handlers>>
history == <<published, requests, leaked, crossed, overlapped>>
gvars == <<limits, socket, connections, heard, history>>

Stages == {"none", "accepted", "opening", "open", "sending", "closing"}
NoSocket == [stage |-> "none", device |-> "none", queue |-> <<>>]
\* with the devices it is to cut off; "list" has not written the auth store yet
Handler == [kind : {"suspend", "reinstate", "list", "schedule", "revoke"},
            devices : SUBSET Devices]

TypeOK ==
    /\ authority \in [deleting : BOOLEAN, suspended : BOOLEAN, revoked : SUBSET Devices]
    /\ tokens \subseteq Devices \ authority.revoked
    /\ authority.suspended => tokens = {}
    /\ identities \subseteq Devices /\ unlisted \subseteq Devices
    /\ cutDevices \subseteq Devices /\ cutUser \in BOOLEAN
    /\ handlers \subseteq Handler
    /\ \A s \in Sockets :
          /\ socket[s].stage \in Stages /\ socket[s].device \in Devices \cup {"none"}
          /\ socket[s].queue \in Seq(BOOLEAN)
    /\ connections = Cardinality({s \in Sockets : socket[s].stage \in {"opening", "open", "sending"}})
    /\ heard \in {"online", "offline", "nothing"}
    /\ published \in 0 .. MaxPublished /\ requests \in 0 .. MaxRequests

\* some devices have registered an identity before
Init ==
    /\ authority = [deleting |-> FALSE, suspended |-> FALSE, revoked |-> {}]
    /\ tokens = Devices /\ identities \in SUBSET Devices /\ unlisted = {}
    /\ cutDevices = {} /\ cutUser = FALSE /\ handlers = {}
    /\ socket = [s \in Sockets |-> NoSocket]
    /\ connections = 0 /\ heard = "offline"
    /\ published = 0 /\ requests = 0
    /\ leaked = FALSE /\ crossed = FALSE /\ overlapped = FALSE

-----------------------------------------------------------------------------
(* Requests *)

Request == requests < MaxRequests /\ requests' = requests + 1
Begin(kind, ds) == handlers' = handlers \cup {[kind |-> kind, devices |-> ds]}
Busy(kind) == \E h \in handlers : h.kind = kind

\* the auth store, as it is in a, bars the device, and whoever did that has been answered
Barred(a, d) ==
    \/ a.suspended /\ ~Busy("suspend")
    \/ d \in a.revoked /\ ~Busy("revoke")
    \/ a.deleting /\ d \notin unlisted /\ ~Busy("schedule")

\* events published under a bar are owed to nobody once it is lifted, but they may go out
Forgiven(a) ==
    [s \in Sockets |->
        IF Barred(a, socket[s].device) THEN socket[s]
        ELSE [socket[s] EXCEPT !.queue = [i \in DOMAIN @ |-> FALSE]]]

\* login_password: also while the deletion is scheduled
SignIn(d) ==
    /\ ~authority.suspended /\ d \notin authority.revoked /\ d \notin tokens
    /\ tokens' = tokens \cup {d}
    /\ UNCHANGED <<authority, registry, cutDevices, cutUser, handlers, socket, connections, heard,
                   history>>

\* register_device_identity: authenticated at any time before the row is written
RegisterIdentity(d) ==
    /\ d \notin authority.revoked /\ d \notin identities /\ Request
    /\ identities' = identities \cup {d}
    /\ UNCHANGED <<authority, tokens, unlisted, cutDevices, cutUser, handlers, socket, connections,
                   heard, published, leaked, crossed, overlapped>>

\* suspend_account and reinstate_account, then the set of the gateway
SuspendAccount ==
    /\ ~authority.suspended /\ Request
    /\ authority' = [authority EXCEPT !.suspended = TRUE] /\ tokens' = {}
    /\ Begin("suspend", {})
    /\ overlapped' = (overlapped \/ Busy("reinstate"))
    /\ UNCHANGED <<registry, cutDevices, cutUser, socket, connections, heard,
                   published, leaked, crossed>>

ReinstateAccount ==
    /\ authority.suspended /\ Request
    /\ authority' = [authority EXCEPT !.suspended = FALSE]
    /\ Begin("reinstate", {}) /\ socket' = Forgiven(authority')
    /\ overlapped' = (overlapped \/ Busy("suspend"))
    /\ UNCHANGED <<tokens, registry, cutDevices, cutUser, connections, heard,
                   published, leaked, crossed>>

\* revoke_device_identity, from another device of the account
RevokeDevice(d) ==
    /\ d \in identities \ authority.revoked
    /\ tokens \ {d} # {} /\ ~authority.deleting /\ Request
    /\ authority' = [authority EXCEPT !.revoked = @ \cup {d}] /\ tokens' = tokens \ {d}
    /\ Begin("revoke", {d})
    /\ UNCHANGED <<registry, cutDevices, cutUser, socket, connections, heard,
                   published, leaked, crossed, overlapped>>

\* schedule_account_deletion, which a pending deletion does not refuse: the devices are
\* listed by their identities
ListDevices ==
    /\ tokens # {} /\ Request
    /\ Begin("list", identities)
    /\ UNCHANGED <<authority, tokens, registry, cutDevices, cutUser, socket, connections, heard,
                   published, leaked, crossed, overlapped>>

\* then the auth store is written; the session is not asked again
ScheduleDeletion(h) ==
    /\ h.kind = "list"
    /\ authority' = [authority EXCEPT !.deleting = TRUE] /\ tokens' = {}
    /\ handlers' = (handlers \ {h}) \cup {[kind |-> "schedule", devices |-> h.devices]}
    /\ unlisted' = (IF authority.deleting THEN unlisted ELSE Devices) \ h.devices
    /\ UNCHANGED <<identities, cutDevices, cutUser, socket, connections, heard, history>>

\* mutant: the gateway is not told
Cut_Forgotten(h) == {}
\* devices a handler adds to revoked_gateway_devices
Cut(h) == h.devices

TellGateway(h) ==
    /\ h.kind # "list"
    /\ handlers' = handlers \ {h}
    /\ cutDevices' = cutDevices \cup Cut(h)
    /\ cutUser' = IF h.kind = "suspend" THEN TRUE
                  ELSE IF h.kind = "reinstate" THEN FALSE ELSE cutUser
    /\ UNCHANGED <<authority, tokens, registry, socket, connections, heard, history>>

\* cancel_account_deletion, after signing in again; the sets are left as they are
CancelDeletion(d) ==
    /\ d \in tokens /\ authority.deleting
    /\ authority' = [authority EXCEPT !.deleting = FALSE]
    /\ socket' = Forgiven(authority') /\ unlisted' = {}
    /\ UNCHANGED <<tokens, identities, cutDevices, cutUser, handlers, connections, heard, history>>

-----------------------------------------------------------------------------
(* Sessions *)

Becomes(s, stage) == socket' = [socket EXCEPT ![s].stage = stage]
Announces(stage) == \E s \in Sockets : socket[s].stage = stage

\* gateway: the request is authenticated, the upgrade follows
Accept(s, d) ==
    /\ socket[s] = NoSocket /\ d \in tokens /\ ~authority.deleting
    /\ socket' = [socket EXCEPT ![s] = [stage |-> "accepted", device |-> d, queue |-> <<>>]]
    /\ UNCHANGED <<limits, connections, heard, history>>

\* gateway_session: subscribe and count
Open(s) ==
    /\ socket[s].stage = "accepted"
    /\ connections' = connections + 1
    /\ Becomes(s, IF connections' = 1 THEN "opening" ELSE "open")
    /\ UNCHANGED <<limits, heard, history>>

\* publish_presence, after the count is released: it says nothing when presence_audience fails
Publishes(status) == heard' \in {status, "nothing"}

AnnounceOnline(s) ==
    /\ socket[s].stage = "opening"
    /\ Publishes("online") /\ Becomes(s, "open")
    /\ crossed' = (crossed \/ Announces("closing"))
    /\ UNCHANGED <<limits, connections, published, requests, leaked, overlapped>>

\* mutant: whoever closes a session tells that the account is offline
Last_Any == TRUE
Last == connections = 1

\* release_presence
Close(s) ==
    /\ connections' = connections - 1
    /\ socket' = [socket EXCEPT ![s] =
                    IF Last THEN [NoSocket EXCEPT !.stage = "closing"] ELSE NoSocket]
    /\ UNCHANGED <<limits, heard, history>>

\* the client hangs up, or its first list of servers cannot be loaded
HangUp(s) ==
    \/ socket[s].stage \in {"open", "sending"} /\ Close(s)
    \/ socket[s].stage = "accepted" /\ socket' = [socket EXCEPT ![s] = NoSocket]
       /\ UNCHANGED <<limits, connections, heard, history>>

AnnounceOffline(s) ==
    /\ socket[s].stage = "closing"
    /\ Publishes("offline") /\ socket' = [socket EXCEPT ![s] = NoSocket]
    /\ crossed' = (crossed \/ Announces("opening"))
    /\ UNCHANGED <<limits, connections, published, requests, leaked, overlapped>>

\* an event goes to every subscriber, marked here when it should not arrive
Publish ==
    /\ published < MaxPublished /\ published' = published + 1
    /\ socket' = [s \in Sockets |->
                    IF socket[s].stage \in {"opening", "open", "sending"}
                    THEN [socket[s] EXCEPT !.queue = Append(@, Barred(authority, socket[s].device))]
                    ELSE socket[s]]
    /\ UNCHANGED <<limits, connections, heard, requests, leaked, crossed, overlapped>>

\* an event is received: a session that was cut off ends, another one goes on to check
\* whether the account may see the server and the channel
Receive(s) ==
    /\ socket[s].stage = "open" /\ socket[s].queue # <<>>
    /\ IF socket[s].device \in cutDevices \/ cutUser
       THEN Close(s)
       ELSE Becomes(s, "sending") /\ UNCHANGED <<limits, connections, heard, history>>

\* sent, or withheld because the account may not see it
Send(s) ==
    /\ socket[s].stage = "sending"
    /\ socket' = [socket EXCEPT ![s] =
                    [stage |-> "open", device |-> @.device, queue |-> Tail(@.queue)]]
    /\ leaked' \in {leaked, leaked \/ Head(socket[s].queue)}
    /\ UNCHANGED <<limits, connections, heard, published, requests, crossed, overlapped>>

\* the monolith stops and starts: its memory is gone
Restart ==
    /\ Request
    /\ cutDevices' = {} /\ cutUser' = FALSE /\ handlers' = {}
    /\ socket' = [s \in Sockets |-> NoSocket]
    /\ connections' = 0 /\ heard' = "offline"
    /\ UNCHANGED <<authority, tokens, registry, published, leaked, crossed, overlapped>>

Next ==
    \/ SuspendAccount \/ ReinstateAccount \/ ListDevices
    \/ Publish \/ Restart
    \/ \E d \in Devices : SignIn(d) \/ RegisterIdentity(d) \/ RevokeDevice(d) \/ CancelDeletion(d)
    \/ \E h \in handlers : ScheduleDeletion(h) \/ TellGateway(h)
    \/ \E s \in Sockets :
          \/ \E d \in Devices : Accept(s, d)
          \/ Open(s) \/ AnnounceOnline(s) \/ AnnounceOffline(s)
          \/ HangUp(s) \/ Receive(s) \/ Send(s)

Spec == Init /\ [][Next]_gvars

-----------------------------------------------------------------------------
\* no event published after a suspension, a revocation or the scheduling of a deletion
\* was answered reaches a device it concerns, even on a session opened in between
\* (gateway_session; "cuts off the gateway", docs/implementation-status.md).  Excepted are
\* a suspension and a reinstatement under way together, and a device whose MLS identity
\* schedule_account_deletion did not find: it stays connected to the leaving account
BarredHearNothing == overlapped \/ ~leaked

\* what the friends heard last is whether a session is open, once nothing is being
\* announced: "The first connection publishes online; the last disconnect publishes
\* offline" (docs/direct-messages-presence.md), unless two announcements crossed or the
\* last one was dropped because its audience could not be loaded
PresenceSettles ==
    crossed \/ heard = "nothing" \/ Announces("opening") \/ Announces("closing")
        \/ heard = (IF connections > 0 THEN "online" ELSE "offline")

=============================================================================
