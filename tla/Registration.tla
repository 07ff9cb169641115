---------------------------- MODULE Registration ----------------------------
(***************************************************************************)
(* How a person gets an account and a name (lib.rs, auth.rs,               *)
(* repository.rs).  The auth store holds the account, its password and     *)
(* the name that was chosen; the repository holds the profile and the name *)
(* others see.  A registration writes one after the other under a lock,    *)
(* and the client repeats it with the same account id when no answer       *)
(* comes; sign-ins make a missing profile without the lock.                *)
(*                                                                         *)
(* Each person has one address; the name a person chooses is also the      *)
(* local part of that address.                                             *)
(***************************************************************************)
EXTENDS Naturals, FiniteSets

CONSTANTS
    Persons, Names, None,
    Own,          \* the name of each person
    MaxAttempts,  \* of a registration, by register_password_provisioned of the client
    MaxFaults     \* bound: database errors, lost replies and restarts

VARIABLES
    auth,       \* auth_users: none, code (no password, no name) or password
    profile,    \* users: the name, None without a profile, or a name with a suffix
    lock,       \* registration_lock
    request,    \* what the request of each person is about to do
    faults,
    refused,    \* history: persons whose account was there and whose repeat was turned down
    overtaken   \* history: persons whose name a sign-in by code took

zvars == <<auth, profile, lock, request, faults, refused, overtaken>>

Suffixed == "suffixed"

\* what the theorems ask of the constants
Parameters ==
    /\ Own \in [Persons -> Names] /\ MaxAttempts \in Nat \ {0} /\ MaxFaults \in Nat
    /\ None \notin Names /\ Suffixed \notin Names /\ None # Suffixed /\ None \notin Persons

Idle == [step |-> "idle", attempt |-> 0, created |-> FALSE, name |-> None]

TypeOK ==
    /\ auth \in [Persons -> {"none", "code", "password"}]
    /\ profile \in [Persons -> Names \cup {None, Suffixed}]
    /\ \A p, q \in Persons : profile[p] = profile[q] => p = q \/ profile[p] \in {None, Suffixed}
    /\ request \in [Persons -> [step : {"idle", "lock", "check", "create", "compare", "insert"},
                                attempt : 0 .. MaxAttempts, created : BOOLEAN,
                                name : Names \cup {None, Suffixed}]]
    /\ \A p \in Persons :
          lock = p <=> request[p].attempt > 0 /\ request[p].step \notin {"lock", "idle"}
    /\ lock \in Persons \cup {None} /\ faults \in 0 .. MaxFaults
    /\ refused \subseteq Persons /\ overtaken \subseteq Persons

Init ==
    /\ auth = [p \in Persons |-> "none"] /\ profile = [p \in Persons |-> None]
    /\ lock = None /\ request = [p \in Persons |-> Idle]
    /\ faults = 0 /\ refused = {} /\ overtaken = {}

-----------------------------------------------------------------------------
At(p, step) == request[p].step = step
Go(p, step) == request' = [request EXCEPT ![p].step = step]
Unlock(p) == lock' = IF lock = p THEN None ELSE lock

End(p) == request' = [request EXCEPT ![p] = Idle] /\ Unlock(p)

\* after an error that is not permanent the client repeats the registration, twice at most
Again(r) ==
    IF r.attempt \in 1 .. MaxAttempts - 1
    THEN [r EXCEPT !.step = "lock", !.attempt = @ + 1] ELSE Idle
Retry(p) == request' = [request EXCEPT ![p] = Again(@)] /\ Unlock(p)

\* register_with_password picks an account id and calls register_password
Register(p) ==
    /\ At(p, "idle")
    /\ request' = [request EXCEPT ![p] =
                     [step |-> "lock", attempt |-> 1, created |-> FALSE, name |-> None]]
    /\ UNCHANGED <<auth, profile, lock, faults, refused, overtaken>>

TakeLock(p) ==
    /\ At(p, "lock") /\ lock = None
    /\ lock' = p /\ Go(p, "check")
    /\ UNCHANGED <<auth, profile, faults, refused, overtaken>>

\* mutant: the profile of the account itself counts
Available_Strictly(p) == \A q \in Persons : profile[q] # Own[p]
\* username_available
Available(p) == \A q \in Persons \ {p} : profile[q] # Own[p]

\* mutant: the auth store leaves names to the repository
Unclaimed_Always(p) == TRUE
\* lower(username) is unique among the accounts of the auth store
Unclaimed(p) == \A q \in Persons \ {p} : auth[q] = "password" => Own[q] # Own[p]

CheckName(p) ==
    /\ At(p, "check") /\ Available(p)
    /\ Go(p, "create")
    /\ UNCHANGED <<auth, profile, lock, faults, refused, overtaken>>

\* register_password_provisioned_named, one transaction: a new account, or the
\* account that the same material made before
CreateAccount(p) ==
    /\ At(p, "create")
    /\ \/ auth[p] = "none" /\ Unclaimed(p)
       \/ auth[p] = "password" /\ request[p].created
    /\ auth' = [auth EXCEPT ![p] = "password"]
    /\ request' = [request EXCEPT ![p].step = "compare", ![p].created = TRUE]
    /\ UNCHANGED <<profile, lock, faults, refused, overtaken>>

\* a name or an address that is taken is a permanent error
Refuse(p) ==
    /\ \/ At(p, "check") /\ ~Available(p)
       \/ At(p, "create") /\ auth[p] = "none" /\ ~Unclaimed(p)
       \/ At(p, "create") /\ auth[p] = "password" /\ ~request[p].created
    /\ refused' = IF request[p].created THEN refused \cup {p} ELSE refused
    /\ End(p)
    /\ UNCHANGED <<auth, profile, faults, overtaken>>

\* an address with an account without a password: its NULL hash is a storage error
RegisterOverCode(p) ==
    /\ At(p, "create") /\ auth[p] = "code" /\ Retry(p)
    /\ UNCHANGED <<auth, profile, faults, refused, overtaken>>

\* login_password and verify_email_code, up to ensure_authenticated_user
SignIn(p) ==
    /\ At(p, "idle") /\ auth[p] # "none" /\ Go(p, "compare")
    /\ UNCHANGED <<auth, profile, lock, faults, refused, overtaken>>

FirstCode(p) ==
    /\ At(p, "idle") /\ auth[p] = "none"
    /\ auth' = [auth EXCEPT ![p] = "code"] /\ Go(p, "compare")
    /\ UNCHANGED <<profile, lock, faults, refused, overtaken>>

\* ensure_user: a name somebody else has gets a suffix
CompareName(p) ==
    /\ At(p, "compare")
    /\ request' = [request EXCEPT ![p].step = "insert",
                                  ![p].name = IF Available(p) THEN Own[p] ELSE Suffixed]
    /\ UNCHANGED <<auth, profile, lock, faults, refused, overtaken>>

\* who registers with a name, or has
Claimants(n) ==
    {q \in Persons : Own[q] = n /\ (auth[q] = "password" \/ At(q, "create"))}

\* ON CONFLICT (id): a profile that exists keeps its name
InsertProfile(p) ==
    LET name == request[p].name
        new == profile[p] = None
    IN  /\ At(p, "insert")
        /\ new /\ name # Suffixed => \A q \in Persons : profile[q] # name
        /\ profile' = IF new THEN [profile EXCEPT ![p] = name] ELSE profile
        /\ overtaken' = IF new /\ auth[p] = "code" THEN overtaken \cup Claimants(name)
                        ELSE overtaken
        /\ End(p)
        /\ UNCHANGED <<auth, faults, refused>>

\* username_key is unique: somebody inserted the name since the comparison
InsertCollides(p) ==
    /\ At(p, "insert") /\ profile[p] = None /\ request[p].name # Suffixed
    /\ \E q \in Persons : profile[q] = request[p].name
    /\ Retry(p)
    /\ UNCHANGED <<auth, profile, faults, refused, overtaken>>

\* a query fails, or the reply to a registration that is complete is lost
Fault(p) ==
    /\ faults < MaxFaults /\ faults' = faults + 1
    /\ ~At(p, "idle") /\ Retry(p)
    /\ \/ UNCHANGED profile
       \/ /\ At(p, "insert") /\ profile[p] = None
          /\ request[p].name = Suffixed \/ \A q \in Persons : profile[q] # request[p].name
          /\ auth[p] = "password"
          /\ profile' = [profile EXCEPT ![p] = request[p].name]
    /\ UNCHANGED <<auth, refused, overtaken>>

\* the monolith stops and starts; clients repeat what they were doing
Restart ==
    /\ faults < MaxFaults /\ faults' = faults + 1
    /\ lock' = None
    /\ request' = [p \in Persons |-> Again(request[p])]
    /\ UNCHANGED <<auth, profile, refused, overtaken>>

Next ==
    \/ \E p \in Persons :
          \/ Register(p) \/ TakeLock(p) \/ CheckName(p) \/ CreateAccount(p)
          \/ Refuse(p) \/ RegisterOverCode(p) \/ SignIn(p) \/ FirstCode(p)
          \/ CompareName(p) \/ InsertProfile(p) \/ InsertCollides(p) \/ Fault(p)
    \/ Restart
Spec == Init /\ [][Next]_zvars

-----------------------------------------------------------------------------
\* a registration that is repeated because its answer was lost is recognised, not taken
\* for a second person who wants the same name, unless a sign-in by code took that name
\* (register_password, username_available, provisioning_matches)
RetriesAreRecognised == refused \subseteq overtaken

\* who registered under a name gets it, though the profile may be made long after the
\* account, unless a sign-in by code took the name (ensure_authenticated_user)
NamesAreKept ==
    \A p \in Persons \ overtaken : auth[p] = "password" => profile[p] \in {None, Own[p]}
=============================================================================
