----------------------------- MODULE RemoteSession -----------------------------
(***************************************************************************)
(* The connect button.  A session request starts the VM, waits for its      *)
(* address, makes sure of the user's Guacamole account, makes or refreshes  *)
(* the Guacamole connection of the instance, grants it to the user and logs *)
(* in as the user.  Requests interleave at every await: they share one      *)
(* connection cache, whose listing is fetched once for all that wait, and   *)
(* a secret that is kept both in the users row and in Guacamole.  Beside    *)
(* them instances are started, stopped, quarantined and deleted.            *)
(***************************************************************************)
EXTENDS Naturals, Sequences

CONSTANTS
    Instance, User, Session,
    UserOf, InstanceOf,     \* whose request it is, and for which instance
    Fresh,                  \* users whose row may hold no secret yet
    Address,                \* what DHCP may hand to a VM
    Secret,                 \* random passwords: as many as can be in use
    None,
    MaxEvents               \* bound: stops, reboots, edits, failures, crashes

ASSUME SessionAssumption ==
    /\ UserOf \in [Session -> User] /\ InstanceOf \in [Session -> Instance]
    /\ Fresh \subseteq User /\ None \notin Secret \cup Address
    /\ \E h \in [User -> Secret] : \A u, w \in User : h[u] = h[w] => u = w
    /\ \A stored, made \in [User -> Secret \cup {None}],
          held \in [Session -> Secret \cup {None}] :
        \E x \in Secret : /\ \A u \in User : x # stored[u] /\ x # made[u]
                         /\ \A s \in Session : x # held[s]
    /\ MaxEvents \in Nat

VARIABLES
    row,        \* [Instance -> "live", "quarantined", "gone"]
    kind,       \* [Instance -> connection_type of its template]
    status,     \* [Instance -> the row's copy of: the VM is running]
    vm,         \* [Instance -> "off", "on", "gone"]
    addr,       \* [Instance -> the address of the VM]
    proxied,    \* [Instance -> the proxy's cached address, or None]
    secret,     \* [User -> guac_password of the row, or None]
    account,    \* [User -> the Guacamole account, or NoAccount]
    conns,      \* Guacamole's connections, by identifier; deleted ones stay
    cache,      \* identifiers in the backend's connection cache
    outdated,   \* the cache has to be fetched again
    fetch,      \* [Slot -> the listing in flight]
    session,    \* [Session -> the request's local state]
    removal,    \* [Instance -> deleteInstance's local state]
    events

machines == <<vm, addr>>
rows == <<row, kind, status>>
guac == <<account, conns>>
cached == <<cache, outdated, fetch>>
vars == <<rows, machines, proxied, secret, guac, cached, session, removal, events>>

\* there, read: the two halves of ensureGuacamoleAccount's Promise.all.
Idle == [pc |-> "idle", kind |-> "web", host |-> None, secret |-> None,
         there |-> FALSE, read |-> {}, id |-> 0, waits |-> FALSE]
NoRemoval == [pc |-> "none", kind |-> "rdp", id |-> 0, waits |-> FALSE]
NoAccount == [password |-> None, grants |-> {}]

\* The shared listing of the cache, and the one the admin page asks for.
Slot == {"shared", "page"}
NoFetch == [step |-> "none", ids |-> {}]

Event == events < MaxEvents /\ events' = events + 1

-----------------------------------------------------------------------------
(* Helpers. *)

Name(i, k) == <<i, k>>
MyName(s) == Name(InstanceOf[s], session[s].kind)

\* What the listing returns now.
Listing == {id \in DOMAIN conns : conns[id].live}

\* getConnectionSummary; identifier 0 is the code's "undefined".
Lookup(ids, name) ==
    IF \E id \in ids : conns[id].name = name
    THEN CHOOSE id \in ids : conns[id].name = name ELSE 0

\* randomBytes: a secret nobody has.
NewSecret ==
    CHOOSE x \in Secret :
        /\ \A u \in User : x # secret[u] /\ x # account[u].password
        /\ \A s \in Session : x # session[s].secret

Goto(s, pc) == session' = [session EXCEPT ![s].pc = pc]
Fail(s) == session' = [session EXCEPT ![s] = Idle]

\* The call took effect: its answer arrives, or is lost and the request ends.
Answered(s, next) ==
    \/ session' = [session EXCEPT ![s] = next] /\ UNCHANGED events
    \/ Event /\ Fail(s)

-----------------------------------------------------------------------------
(* Any user here may reach the instance of any of its sessions.  A user with *)
(* a stored secret has the account it opens, or the account is gone; one     *)
(* without may have the account of old, with a derived password.             *)
Init ==
    /\ row = [i \in Instance |-> "live"]
    /\ kind \in [Instance -> {"web", "ssh", "rdp"}]
    /\ vm \in [Instance -> {"off", "on"}]
    /\ status = [i \in Instance |-> vm[i] = "on"]
    /\ addr \in [Instance -> Address]
    /\ proxied = [i \in Instance |-> None]
    /\ LET held == CHOOSE h \in [User -> Secret] : \A u, w \in User : h[u] = h[w] => u = w
       IN
        /\ \E blank \in SUBSET Fresh :
            secret = [u \in User |-> IF u \in blank THEN None ELSE held[u]]
        /\ \E there \in SUBSET User :
            account = [u \in User |->
                IF u \in there THEN [password |-> held[u], grants |-> {}] ELSE NoAccount]
    /\ conns = <<>> /\ cache = {} /\ outdated = TRUE
    /\ fetch = [f \in Slot |-> NoFetch]
    /\ session = [s \in Session |-> Idle]
    /\ removal = [i \in Instance |-> NoRemoval]
    /\ events = 0

-----------------------------------------------------------------------------
(* Around the sessions. *)

\* A VM that was down may come back with another lease.
Boot(i) == vm' = [vm EXCEPT ![i] = "on"]
NewLease(i) == \E a \in Address : addr' = [addr EXCEPT ![i] = a]

Start(i) == vm[i] = "off" /\ Boot(i)
Stop(i) == vm' = [vm EXCEPT ![i] = "off"] /\ NewLease(i)
Reboot(i) == Boot(i) /\ NewLease(i)

StartInstance(i) ==
    /\ row[i] = "live" /\ Start(i)
    /\ UNCHANGED <<rows, addr, proxied, secret, guac, cached, session, removal, events>>

StopInstance(i) ==
    /\ row[i] # "gone" /\ vm[i] = "on" /\ Event
    /\ Stop(i)
    /\ UNCHANGED <<rows, proxied, secret, guac, cached, session, removal>>

RebootInstance(i) ==
    /\ row[i] # "gone" /\ vm[i] = "on" /\ Event
    /\ Reboot(i)
    /\ UNCHANGED <<rows, proxied, secret, guac, cached, session, removal>>

\* The create handler could neither filter nor remove the VM.
MarkQuarantined(i) ==
    /\ row[i] = "live" /\ Event
    /\ row' = [row EXCEPT ![i] = "quarantined"]
    /\ UNCHANGED <<kind, status, machines, proxied, secret, guac, cached, session, removal>>

\* PATCH of the template.
EditTemplate(i) ==
    /\ kind[i] = "rdp" /\ Event
    /\ kind' = [kind EXCEPT ![i] = "ssh"]
    /\ UNCHANGED <<row, status, machines, proxied, secret, guac, cached, session, removal>>

\* The status job, every 15 s.
FetchAndUpdateStatuses ==
    /\ status' = [i \in Instance |->
            IF vm[i] = "gone" THEN status[i] ELSE vm[i] = "on"]
    /\ status' # status
    /\ UNCHANGED <<row, kind, machines, proxied, secret, guac, cached, session,
                   removal, events>>

\* 30 s later.
ProxyEntryExpires(i) ==
    /\ proxied[i] # None /\ proxied' = [proxied EXCEPT ![i] = None]
    /\ UNCHANGED <<rows, machines, secret, guac, cached, session, removal, events>>

-----------------------------------------------------------------------------
(* The session request. *)

\* hasAccessTo, the row, the quarantine.
Ask(s) ==
    /\ session[s].pc = "idle" /\ row[InstanceOf[s]] = "live"
    /\ session' = [session EXCEPT ![s] =
            [Idle EXCEPT !.pc = "start", !.kind = kind[InstanceOf[s]]]]
    /\ UNCHANGED <<rows, machines, proxied, secret, guac, cached, removal, events>>

\* startVM; a web session is answered here, and the proxy asks on.
StartVM(s) ==
    LET i == InstanceOf[s] IN
    /\ session[s].pc = "start"
    /\ \/ vm[i] = "off" /\ Boot(i)
       \/ vm[i] # "off" /\ UNCHANGED vm
    /\ IF vm[i] = "gone" THEN Fail(s)
       ELSE Goto(s, IF session[s].kind = "web" THEN "proxy" ELSE "address")
    /\ UNCHANGED <<rows, addr, proxied, secret, guac, cached, removal, events>>

\* forward-auth of the web proxy: 30 s of the last address, else a new poll.
ProxyAuth(s) ==
    LET i == InstanceOf[s] IN
    /\ session[s].pc = "proxy"
    /\ LET host == IF proxied[i] # None THEN proxied[i]
                   ELSE IF vm[i] = "on" THEN addr[i] ELSE None
           known == row[i] # "gone" /\ status[i] /\ kind[i] = "web"
       IN IF known /\ host # None
          THEN /\ session' = [session EXCEPT ![s] = [@ EXCEPT !.pc = "answered", !.host = host]]
               /\ proxied' = [proxied EXCEPT ![i] = host]
          ELSE Fail(s) /\ UNCHANGED proxied
    /\ UNCHANGED <<rows, machines, secret, guac, cached, removal, events>>

\* getInsideNetIPv4: the guest agent's address, or the wait runs out.
GetInsideNetIPv4(s) ==
    LET i == InstanceOf[s] IN
    /\ session[s].pc = "address"
    /\ IF vm[i] = "on"
       THEN session' = [session EXCEPT ![s] = [@ EXCEPT !.pc = "ensure", !.host = addr[i]]]
       ELSE Fail(s)
    /\ UNCHANGED <<rows, machines, proxied, secret, guac, cached, removal, events>>

-----------------------------------------------------------------------------
(* ensureGuacamoleAccount: the row's secret and the account are asked for    *)
(* together and answered in either order.                                    *)

Me(s) == UserOf[s]

\* Mutant: the account goes first in any case, since deleting one that is not
\* there succeeds.
EnsuredAfresh(s, next) ==
    IF next.read # {"secret", "account"} THEN next
    ELSE IF next.secret # None /\ next.there
    THEN [next EXCEPT !.pc = "summary", !.there = FALSE, !.read = {}]
    ELSE [next EXCEPT !.pc = "drop", !.secret = None, !.there = FALSE, !.read = {}]

\* Both are there: the secret is used.  Else an account that is there goes
\* first, and a new one is made.
Ensured(s, next) ==
    IF next.read # {"secret", "account"} THEN next
    ELSE IF next.secret # None /\ next.there
    THEN [next EXCEPT !.pc = "summary", !.there = FALSE, !.read = {}]
    ELSE [next EXCEPT !.pc = IF next.there THEN "drop" ELSE "mint",
                      !.secret = None, !.there = FALSE, !.read = {}]

ReadSecret(s) ==
    /\ session[s].pc = "ensure" /\ "secret" \notin session[s].read
    /\ LET next == [session[s] EXCEPT !.secret = secret[Me(s)], !.read = @ \cup {"secret"}]
       IN session' = [session EXCEPT ![s] = Ensured(s, next)]
    /\ UNCHANGED <<rows, machines, proxied, secret, guac, cached, removal, events>>

GetUser(s) ==
    /\ session[s].pc = "ensure" /\ "account" \notin session[s].read
    /\ LET next == [session[s] EXCEPT !.there = account[Me(s)] # NoAccount,
                                      !.read = @ \cup {"account"}]
       IN session' = [session EXCEPT ![s] = Ensured(s, next)]
    /\ UNCHANGED <<rows, machines, proxied, secret, guac, cached, removal, events>>

\* An account that is gone already is as good as deleted.
DeleteUser(s) ==
    /\ session[s].pc = "drop"
    /\ account' = [account EXCEPT ![Me(s)] = NoAccount]
    /\ Answered(s, [session[s] EXCEPT !.pc = "mint"])
    /\ UNCHANGED <<rows, machines, proxied, secret, conns, cached, removal>>

\* Guacamole refuses a name it has.
CreateUser(s) ==
    /\ session[s].pc = "mint"
    /\ IF account[Me(s)] # NoAccount
       THEN Fail(s) /\ UNCHANGED <<account, events>>
       ELSE /\ account' = [account EXCEPT ![Me(s)] = [password |-> NewSecret, grants |-> {}]]
            /\ \/ /\ session' = [session EXCEPT ![s] = [@ EXCEPT !.pc = "store",
                                                               !.secret = NewSecret]]
                  /\ UNCHANGED events
               \/ Event /\ Fail(s)
    /\ UNCHANGED <<rows, machines, proxied, secret, conns, cached, removal>>

SetGuacPassword(s) ==
    /\ session[s].pc = "store"
    /\ secret' = [secret EXCEPT ![Me(s)] = session[s].secret]
    /\ Goto(s, "summary")
    /\ UNCHANGED <<rows, machines, proxied, guac, cached, removal, events>>

-----------------------------------------------------------------------------
(* The connection cache. *)

\* What a caller does with the cache: a session's first look decides between
\* create and update, its second one takes the identifier as it is; a removal
\* deletes what it found.
\* Mutant: a connection that is there is taken as it is.
SessionLooksTrusting(s, ids) ==
    LET id == Lookup(ids, MyName(s)) IN
    [session[s] EXCEPT !.waits = FALSE, !.id = id,
        !.pc = IF @ = "again" THEN "grant" ELSE IF id = 0 THEN "create" ELSE "login"]
SessionLooks(s, ids) ==
    LET id == Lookup(ids, MyName(s)) IN
    [session[s] EXCEPT !.waits = FALSE, !.id = id,
        !.pc = IF @ = "again" THEN "grant" ELSE IF id = 0 THEN "create" ELSE "update"]

\* After the RDP name comes the SSH name, and then the row.
NextName(r) ==
    [r EXCEPT !.waits = FALSE, !.kind = "ssh", !.pc = IF r.kind = "rdp" THEN "look" ELSE "row"]
RemovalLooks(i, ids) ==
    LET r == removal[i]
        id == Lookup(ids, Name(i, r.kind))
    IN IF id = 0 THEN NextName(r) ELSE [r EXCEPT !.waits = FALSE, !.pc = "drop", !.id = id]

\* One listing for all that ask while it is in flight.
Joined == [fetch EXCEPT !["shared"] =
              IF @ = NoFetch THEN [NoFetch EXCEPT !.step = "asked"] ELSE @]

GetConnectionSummary(s) ==
    /\ session[s].pc \in {"summary", "again"} /\ ~session[s].waits
    /\ IF outdated
       THEN session' = [session EXCEPT ![s].waits = TRUE] /\ fetch' = Joined
       ELSE session' = [session EXCEPT ![s] = SessionLooks(s, cache)] /\ UNCHANGED fetch
    /\ UNCHANGED <<rows, machines, proxied, secret, guac, cache, outdated, removal, events>>

\* The metrics poller fetches in any case.
PollConnections ==
    /\ fetch["shared"] = NoFetch /\ Event /\ fetch' = Joined
    /\ UNCHANGED <<rows, machines, proxied, secret, guac, cache, outdated, session, removal>>

\* GET /guacamole/connections does not join the shared listing.
ListForPage ==
    /\ fetch["page"] = NoFetch /\ Event
    /\ fetch' = [fetch EXCEPT !["page"].step = "asked"]
    /\ UNCHANGED <<rows, machines, proxied, secret, guac, cache, outdated, session, removal>>

GuacamoleLists(f) ==
    /\ fetch[f].step = "asked"
    /\ fetch' = [fetch EXCEPT ![f] = [step |-> "listed", ids |-> Listing]]
    /\ UNCHANGED <<rows, machines, proxied, secret, guac, cache, outdated, session,
                   removal, events>>

\* Whoever waits for the shared listing goes on with the cache as rebuilt.
Deliver(f, sessions, removals) ==
    IF f = "shared"
    THEN /\ session' = [s \in Session |-> IF session[s].waits THEN sessions[s] ELSE session[s]]
         /\ removal' = [i \in Instance |-> IF removal[i].waits THEN removals[i] ELSE removal[i]]
    ELSE UNCHANGED <<session, removal>>

ListConnections(f) ==
    /\ fetch[f].step = "listed"
    /\ fetch' = [fetch EXCEPT ![f] = NoFetch]
    /\ cache' = fetch[f].ids /\ outdated' = FALSE
    /\ Deliver(f, [s \in Session |-> SessionLooks(s, fetch[f].ids)],
                  [i \in Instance |-> RemovalLooks(i, fetch[f].ids)])
    /\ UNCHANGED <<rows, machines, proxied, secret, guac, events>>

\* The GET and its retries fail: the sessions end, a removal goes on without.
ListingFails(f) ==
    /\ fetch[f].step # "none" /\ Event
    /\ fetch' = [fetch EXCEPT ![f] = NoFetch]
    /\ Deliver(f, [s \in Session |-> Idle], [i \in Instance |-> NextName(removal[i])])
    /\ UNCHANGED <<rows, machines, proxied, secret, guac, cache, outdated>>

-----------------------------------------------------------------------------
(* The connection. *)

\* The cache is outdated from before the call is made.
\* Mutant: it is not.
NotInvalidated(s) ==
    /\ session[s].pc \in {"create", "update"}
    /\ Goto(s, IF session[s].pc = "create" THEN "post" ELSE "put")
    /\ UNCHANGED <<rows, machines, proxied, secret, guac, cached, removal, events>>
Invalidate(s) ==
    /\ session[s].pc \in {"create", "update"}
    /\ Goto(s, IF session[s].pc = "create" THEN "post" ELSE "put")
    /\ outdated' = TRUE
    /\ UNCHANGED <<rows, machines, proxied, secret, guac, cache, fetch, removal, events>>

\* Guacamole refuses a name it has.
Post(s, sheet) ==
    /\ session[s].pc = "post"
    /\ IF Lookup(Listing, sheet.name) # 0
       THEN Fail(s) /\ UNCHANGED <<conns, events>>
       ELSE /\ conns' = Append(conns, sheet)
            /\ Answered(s, [session[s] EXCEPT !.pc = "again", !.host = None])
    /\ UNCHANGED <<rows, machines, proxied, secret, account, cached, removal>>

\* An identifier that is gone is refused.
Put(s, sheet) ==
    /\ session[s].pc = "put"
    /\ IF conns[session[s].id].live
       THEN /\ conns' = [conns EXCEPT ![session[s].id] = sheet]
            /\ Answered(s, [session[s] EXCEPT !.pc = "again", !.host = None])
       ELSE Fail(s) /\ UNCHANGED <<conns, events>>
    /\ UNCHANGED <<rows, machines, proxied, secret, account, cached, removal>>

Rdp(s) == [name |-> Name(InstanceOf[s], "rdp"), host |-> session[s].host, live |-> TRUE]
Ssh(s) == [name |-> Name(InstanceOf[s], "ssh"), host |-> session[s].host, live |-> TRUE]

CreateConnection(s) == session[s].kind = "rdp" /\ Post(s, Rdp(s))
CreateSshConnection(s) == session[s].kind = "ssh" /\ Post(s, Ssh(s))
UpdateConnectionIp(s) == session[s].kind = "rdp" /\ Put(s, Rdp(s))
UpdateSshConnection(s) == session[s].kind = "ssh" /\ Put(s, Ssh(s))

\* getUserPerms and the grant.  No account, no such connection: refused.
GiveUserAccessToMachine(s) ==
    LET id == session[s].id IN
    /\ session[s].pc = "grant"
    /\ IF account[Me(s)] # NoAccount /\ id \in Listing
       THEN /\ account' = [account EXCEPT ![Me(s)].grants = @ \cup {id}]
            /\ Answered(s, [session[s] EXCEPT !.pc = "login"])
       ELSE Fail(s) /\ UNCHANGED <<account, events>>
    /\ UNCHANGED <<rows, machines, proxied, secret, conns, cached, removal>>

\* getToken as the user: Guacamole compares the password.
GetSessionUrl(s) ==
    /\ session[s].pc = "login"
    /\ IF account[Me(s)].password = session[s].secret THEN Goto(s, "answered") ELSE Fail(s)
    /\ UNCHANGED <<rows, machines, proxied, secret, guac, cached, removal, events>>

\* The user connects once more.
AskAgain(s) ==
    /\ session[s].pc = "answered" /\ Fail(s)
    /\ UNCHANGED <<rows, machines, proxied, secret, guac, cached, removal, events>>

\* A call fails before it has an effect.
CallFails(s) ==
    /\ session[s].pc \notin {"idle", "answered"} /\ ~session[s].waits
    /\ Event /\ Fail(s)
    /\ UNCHANGED <<rows, machines, proxied, secret, guac, cached, removal>>

-----------------------------------------------------------------------------
(* deleteInstance.  A Guacamole call that fails is logged and passed over.   *)

Remove(i, next) == removal' = [removal EXCEPT ![i] = next]

AskRemoval(i) ==
    /\ removal[i] = NoRemoval /\ row[i] # "gone"
    /\ Remove(i, [NoRemoval EXCEPT !.pc = "vm"])
    /\ UNCHANGED <<rows, machines, proxied, secret, guac, cached, session, events>>

\* Stopped and deleted, or the request ends with its error.
RemoveVM(i) ==
    /\ removal[i].pc = "vm"
    /\ \/ /\ vm' = [vm EXCEPT ![i] = "gone"]
          /\ Remove(i, [removal[i] EXCEPT !.pc = "look"]) /\ UNCHANGED events
       \/ Event /\ Remove(i, NoRemoval) /\ UNCHANGED vm
    /\ UNCHANGED <<rows, addr, proxied, secret, guac, cached, session>>

RemovalSummary(i) ==
    /\ removal[i].pc = "look" /\ ~removal[i].waits
    /\ IF outdated
       THEN Remove(i, [removal[i] EXCEPT !.waits = TRUE]) /\ fetch' = Joined
       ELSE Remove(i, RemovalLooks(i, cache)) /\ UNCHANGED fetch
    /\ UNCHANGED <<rows, machines, proxied, secret, guac, cache, outdated, session, events>>

\* Its grants go with a connection.
DeleteConnection(i) ==
    LET id == removal[i].id IN
    /\ removal[i].pc = "drop"
    /\ conns' = [conns EXCEPT ![id].live = FALSE]
    /\ account' = [u \in User |-> [account[u] EXCEPT !.grants = @ \ {id}]]
    /\ \/ Remove(i, [removal[i] EXCEPT !.pc = "dropped"]) /\ UNCHANGED events
       \/ Event /\ Remove(i, NextName([removal[i] EXCEPT !.id = 0]))
    /\ UNCHANGED <<rows, machines, proxied, secret, cached, session>>

\* Here the cache is outdated from after the call.
ConnectionDeleted(i) ==
    /\ removal[i].pc = "dropped"
    /\ outdated' = TRUE /\ Remove(i, NextName([removal[i] EXCEPT !.id = 0]))
    /\ UNCHANGED <<rows, machines, proxied, secret, guac, cache, fetch, session, events>>

DeleteRow(i) ==
    /\ removal[i].pc = "row"
    /\ row' = [row EXCEPT ![i] = "gone"] /\ Remove(i, NoRemoval)
    /\ UNCHANGED <<kind, status, machines, proxied, secret, guac, cached, session, events>>

\* The backend restarts: the requests and the caches are gone, the rows and
\* Guacamole stay.
Crash ==
    /\ Event
    /\ session' = [s \in Session |-> Idle]
    /\ removal' = [i \in Instance |-> NoRemoval]
    /\ proxied' = [i \in Instance |-> None]
    /\ cache' = {} /\ outdated' = TRUE /\ fetch' = [f \in Slot |-> NoFetch]
    /\ UNCHANGED <<rows, machines, secret, guac>>

-----------------------------------------------------------------------------
SessionStep(s) ==
    \/ StartVM(s) \/ ProxyAuth(s) \/ GetInsideNetIPv4(s)
    \/ ReadSecret(s) \/ GetUser(s) \/ DeleteUser(s) \/ CreateUser(s)
    \/ SetGuacPassword(s) \/ GetConnectionSummary(s) \/ Invalidate(s)
    \/ CreateConnection(s) \/ CreateSshConnection(s)
    \/ UpdateConnectionIp(s) \/ UpdateSshConnection(s)
    \/ GiveUserAccessToMachine(s) \/ GetSessionUrl(s) \/ CallFails(s)

RemovalStep(i) ==
    \/ RemoveVM(i) \/ RemovalSummary(i) \/ DeleteConnection(i)
    \/ ConnectionDeleted(i) \/ DeleteRow(i)

ListingStep(f) == GuacamoleLists(f) \/ ListConnections(f) \/ ListingFails(f)

Next ==
    \/ \E i \in Instance :
        \/ StartInstance(i) \/ StopInstance(i) \/ RebootInstance(i)
        \/ MarkQuarantined(i) \/ EditTemplate(i) \/ ProxyEntryExpires(i)
        \/ AskRemoval(i) \/ RemovalStep(i)
    \/ \E s \in Session : Ask(s) \/ SessionStep(s) \/ AskAgain(s)
    \/ \E f \in Slot : ListingStep(f)
    \/ FetchAndUpdateStatuses \/ PollConnections \/ ListForPage \/ Crash

Spec == Init /\ [][Next]_vars

\* Calls are answered, the timers of the status job and of the proxy's entries
\* fire, and the user keeps connecting.
Fairness ==
    /\ \A s \in Session : WF_vars(SessionStep(s)) /\ WF_vars(Ask(s)) /\ WF_vars(AskAgain(s))
    /\ \A f \in Slot : WF_vars(ListingStep(f))
    /\ \A i \in Instance : WF_vars(ProxyEntryExpires(i))
    /\ WF_vars(FetchAndUpdateStatuses)
FairSpec == Spec /\ Fairness

-----------------------------------------------------------------------------
TypeOK ==
    /\ row \in [Instance -> {"live", "quarantined", "gone"}]
    /\ kind \in [Instance -> {"web", "ssh", "rdp"}]
    /\ vm \in [Instance -> {"off", "on", "gone"}] /\ addr \in [Instance -> Address]
    /\ proxied \in [Instance -> Address \cup {None}]
    /\ secret \in [User -> Secret \cup {None}]
    /\ \A u \in User : account[u].grants \subseteq Listing
    /\ cache \cup fetch["shared"].ids \cup fetch["page"].ids \subseteq DOMAIN conns
    /\ \A s \in Session :
        /\ session[s].id \in 0..Len(conns)
        /\ session[s].waits => session[s].pc \in {"summary", "again"}
    /\ \A c, d \in Listing : conns[c].name = conns[d].name => c = d
    /\ events \in 0..MaxEvents

Opens(u) == secret[u] # None /\ account[u].password = secret[u]

\* The request has read that the row holds no secret, removes the account, or has
\* the secret of a new one still to write.
Renews(s) ==
    \/ session[s].pc \in {"drop", "store"}
    \/ session[s].pc = "ensure" /\ "secret" \in session[s].read /\ session[s].secret = None
Settled(u) == Opens(u) /\ \A s \in Session : Me(s) = u => ~Renews(s)

\* A secret that opens its account opens it for good, once no request is left that
\* found none: whatever tabs read before the account was made anew, whatever fails
\* or crashes, none of them replaces the one half or the other.
\* (ensureGuacamoleAccount.)
OpeningSecretStays == [][\A u \in User : Settled(u) => Settled(u)']_vars

\* A session that is answered with an URL leads to a connection of its own
\* instance that its user was granted, unless that connection was deleted or
\* the account was made anew meanwhile.  (POST /:instanceId/session.)
AnswerOpensTheMachine ==
    [][\A s \in Session :
        session[s].pc = "login" /\ session'[s].pc = "answered" =>
            /\ conns[session[s].id].name = Name(InstanceOf[s], session[s].kind)
            /\ conns[session[s].id].live => session[s].id \in account[Me(s)].grants]_vars

Reaches(s) ==
    LET i == InstanceOf[s] IN
    /\ session[s].pc = "answered"
    /\ addr[i] = IF session[s].kind = "web" THEN session[s].host
                 ELSE conns[session[s].id].host

\* The row and the account are both there, and differ.
LockedOut(u) ==
    secret[u] # None /\ account[u] # NoAccount /\ account[u].password # secret[u]

\* A user who keeps connecting to an instance that stays, with its VM, is let through to the
\* address the VM has, again and again: whatever the cache missed, whatever
\* failed, however often the VM moved; unless the two halves of the secret came
\* apart, which no request repairs.
UserGetsIn ==
    \A s \in Session :
        <>[](row[InstanceOf[s]] = "live" /\ vm[InstanceOf[s]] # "gone" /\ ~LockedOut(Me(s)))
            => []<>Reaches(s)

\* While nobody is about to write it, the secret of a users row opens the
\* user's Guacamole account, if both are there: so that "both present" may be
\* taken for "consistent".  (The comment of ensureGuacamoleAccount.)
StoredSecretOpens ==
    \A u \in User :
        \/ secret[u] = None \/ account[u] = NoAccount
        \/ secret[u] = account[u].password
        \/ \E s \in Session : Me(s) = u /\ session[s].pc = "store"

\* No connection outlives its instance.  (The comment of deleteInstance.)
NeitherIsOrphaned ==
    \A id \in Listing : row[conns[id].name[1]] # "gone"

=============================================================================
