------------------------- MODULE RemoteSession_proofs -------------------------
(***************************************************************************)
(* For every number of users, sessions, instances, secrets and events:     *)
(*   - the state of the sessions, of the cache and of Guacamole keeps its  *)
(*     types, and no two live connections have one name;                   *)
(*   - a session that is answered leads to a connection of its own         *)
(*     instance that its user was granted;                                 *)
(*   - a secret that opens its account opens it for good, once no request  *)
(*     is left that found none.                                            *)
(***************************************************************************)
EXTENDS RemoteSession, SequenceTheorems, TLAPS

-----------------------------------------------------------------------------
\* The types.

Kind == {"web", "ssh", "rdp"}
Step == {"idle", "start", "proxy", "address", "ensure", "drop", "mint", "store", "summary",
         "again", "create", "update", "post", "put", "grant", "login", "answered"}
Request == [pc : Step, kind : Kind, host : Address \cup {None}, secret : Secret \cup {None},
            there : BOOLEAN, read : SUBSET {"secret", "account"}, id : Nat, waits : BOOLEAN]
Account == [password : Secret \cup {None}, grants : SUBSET Nat]
Connection == [name : Instance \X Kind, host : Address \cup {None}, live : BOOLEAN]

AroundTyped ==
    /\ row \in [Instance -> {"live", "quarantined", "gone"}]
    /\ kind \in [Instance -> Kind]
    /\ vm \in [Instance -> {"off", "on", "gone"}] /\ addr \in [Instance -> Address]
    /\ proxied \in [Instance -> Address \cup {None}]
    /\ events \in 0..MaxEvents

GuacTyped ==
    /\ secret \in [User -> Secret \cup {None}]
    /\ account \in [User -> Account]
    /\ conns \in Seq(Connection)

\* No account has a grant on a connection that is gone, and a name is used once.
ListingInv ==
    /\ \A u \in User : account[u].grants \subseteq Listing
    /\ \A c, d \in Listing : conns[c].name = conns[d].name => c = d

CacheTyped ==
    /\ fetch \in [Slot -> [step : {"none", "asked", "listed"}, ids : SUBSET Nat]]
    /\ cache \subseteq DOMAIN conns /\ \A f \in Slot : fetch[f].ids \subseteq DOMAIN conns

SessionsTyped == session \in [Session -> Request]

\* Where a session has a secret of its own.
Keyed == {"store", "summary", "again", "create", "update", "post", "put", "grant", "login"}

\* A session that knows an identifier knows it by the name of its own instance,
\* and whoever is past the account has a secret; the questions about the account
\* are asked anew.
Known(s, r, cs) ==
    /\ r.id # 0 => r.id \in DOMAIN cs /\ cs[r.id].name = Name(InstanceOf[s], r.kind)
    /\ r.pc \in {"update", "put", "login"} => r.id # 0
    /\ r.pc \in Keyed => r.secret # None
    /\ r.waits => r.pc \in {"summary", "again"}
    /\ r.pc \in {"start", "address"} => r.read = {}

KnownInv == \A s \in Session : Known(s, session[s], conns)

SessionInv ==
    AroundTyped /\ GuacTyped /\ ListingInv /\ CacheTyped /\ SessionsTyped /\ KnownInv

LEMMA IdleTyped == SessionAssumption => Idle \in Request
BY DEF SessionAssumption, Idle, Request, Step, Kind

LEMMA TypesFollow == SessionInv => TypeOK
<1> SUFFICES ASSUME SessionInv PROVE TypeOK
  OBVIOUS
<1>1. cache \cup fetch["shared"].ids \cup fetch["page"].ids \subseteq DOMAIN conns
  BY DEF SessionInv, CacheTyped, Slot
<1>2. ASSUME NEW s \in Session
      PROVE  /\ session[s].id \in 0..Len(conns)
             /\ session[s].waits => session[s].pc \in {"summary", "again"}
  <2>1. Known(s, session[s], conns) /\ session[s].id \in Nat
    BY DEF SessionInv, KnownInv, SessionsTyped, Request
  <2>2. DOMAIN conns = 1..Len(conns) /\ Len(conns) \in Nat
    BY DEF SessionInv, GuacTyped
  <2> QED
    BY <2>1, <2>2 DEF Known
<1> QED
  BY <1>1, <1>2 DEF SessionInv, AroundTyped, GuacTyped, ListingInv, TypeOK, Kind

-----------------------------------------------------------------------------
\* What the lookups return, and what happens to identifiers.

LEMMA LookupFinds ==
    ASSUME NEW ids, NEW name
    PROVE  \/ Lookup(ids, name) = 0 /\ \A id \in ids : conns[id].name # name
           \/ Lookup(ids, name) \in ids /\ conns[Lookup(ids, name)].name = name
BY DEF Lookup

\* Identifiers keep their names and never come back.
Kept ==
    \A id \in DOMAIN conns : /\ id \in DOMAIN conns'
                             /\ conns'[id].name = conns[id].name
                             /\ conns'[id].live => conns[id].live

LEMMA KnownStays ==
    ASSUME NEW s, NEW r, Known(s, r, conns), Kept
    PROVE  Known(s, r, conns')
BY DEF Known, Kept

LEMMA IdleKnown == ASSUME NEW s, NEW cs PROVE Known(s, Idle, cs) /\ Idle.pc = "idle"
BY DEF Known, Idle, Keyed

\* A step of one session.
Becomes(s, n) == session' = [session EXCEPT ![s] = n]

LEMMA SessionMoves ==
    ASSUME SessionsTyped, KnownInv, Kept, NEW s \in Session, NEW n,
           Becomes(s, n), n \in Request, Known(s, n, conns')
    PROVE  SessionsTyped' /\ KnownInv'
BY KnownStays DEF SessionsTyped, KnownInv, Becomes

LEMMA SessionsStay ==
    ASSUME SessionsTyped, KnownInv, Kept,
           session' \in [Session -> Request],
           \A s \in Session : session'[s] = session[s] \/ session'[s] = Idle
    PROVE  SessionsTyped' /\ KnownInv'
<1>1. ASSUME NEW s \in Session PROVE Known(s, session'[s], conns')
  BY KnownStays, IdleKnown DEF KnownInv
<1> QED
  BY <1>1 DEF SessionsTyped, KnownInv

\* What the cache returns, a session may use.
LEMMA LooksKnown ==
    ASSUME SessionAssumption, SessionsTyped, KnownInv, GuacTyped, NEW s \in Session,
           session[s].pc \in {"summary", "again"},
           NEW ids, ids \subseteq DOMAIN conns
    PROVE  SessionLooks(s, ids) \in Request /\ Known(s, SessionLooks(s, ids), conns)
<1> DEFINE id == Lookup(ids, MyName(s))
           n == SessionLooks(s, ids)
           pc == IF session[s].pc = "again" THEN "grant"
                 ELSE IF id = 0 THEN "create" ELSE "update"
<1>1. id \in Nat /\ (id # 0 => id \in DOMAIN conns /\ conns[id].name = MyName(s))
  BY LookupFinds DEF GuacTyped
<1>2. n = [session[s] EXCEPT !.waits = FALSE, !.id = id, !.pc = pc]
  BY DEF SessionLooks
<1> HIDE DEF id, n
<1>4. session[s] \in Request /\ Known(s, session[s], conns)
  BY DEF SessionsTyped, KnownInv
<1>5. /\ n \in Request /\ n.id = id /\ n.pc = pc /\ n.waits = FALSE
      /\ n.secret = session[s].secret /\ n.kind = session[s].kind
  BY <1>1, <1>2, <1>4 DEF Request, Step
<1>6. Known(s, n, conns)
  BY <1>1, <1>4, <1>5 DEF Known, Keyed, MyName
<1> QED
  BY <1>5, <1>6 DEF n

-----------------------------------------------------------------------------
\* The types and names are kept, by each kind of step.

\* Machines, rows and the removal's own state.
LEMMA AroundSteps ==
    ASSUME SessionAssumption, SessionInv, NEW i \in Instance,
           \/ StartInstance(i) \/ StopInstance(i) \/ RebootInstance(i)
           \/ MarkQuarantined(i) \/ EditTemplate(i) \/ ProxyEntryExpires(i)
           \/ AskRemoval(i) \/ RemoveVM(i) \/ ConnectionDeleted(i) \/ DeleteRow(i)
    PROVE  SessionInv' /\ UNCHANGED <<secret, guac, session>>
<1>1. UNCHANGED <<secret, guac, cache, fetch, session>>
  BY DEF StartInstance, StopInstance, RebootInstance, MarkQuarantined, EditTemplate,
         ProxyEntryExpires, AskRemoval, RemoveVM, ConnectionDeleted,
         DeleteRow, cached, guac
<1>2. AroundTyped'
  <2> USE DEF SessionInv, AroundTyped, Event, rows, machines, SessionAssumption
  <2>1. CASE StartInstance(i) \/ StopInstance(i) \/ RebootInstance(i)
    BY <2>1 DEF StartInstance, StopInstance, RebootInstance, Start, Stop, Reboot, Boot, NewLease
  <2>2. CASE MarkQuarantined(i) \/ EditTemplate(i) \/ ProxyEntryExpires(i)
    BY <2>2 DEF MarkQuarantined, EditTemplate, ProxyEntryExpires, Kind
  <2>3. CASE AskRemoval(i) \/ RemoveVM(i) \/ ConnectionDeleted(i) \/ DeleteRow(i)
    BY <2>3 DEF AskRemoval, RemoveVM, ConnectionDeleted, DeleteRow
  <2> QED
    BY <2>1, <2>2, <2>3
<1>3. GuacTyped' /\ ListingInv' /\ CacheTyped' /\ SessionsTyped' /\ KnownInv'
  BY <1>1 DEF SessionInv, GuacTyped, ListingInv, CacheTyped, SessionsTyped, KnownInv, Known,
              guac, Listing
<1> QED
  BY <1>1, <1>2, <1>3 DEF SessionInv

LEMMA QuietSteps ==
    ASSUME SessionInv, FetchAndUpdateStatuses \/ UNCHANGED vars
    PROVE  SessionInv' /\ UNCHANGED <<secret, guac, session>>
<1>1. UNCHANGED <<row, kind, machines, proxied, events, secret, guac, cache, fetch, session>>
  BY DEF FetchAndUpdateStatuses, vars, rows, cached
<1>2. AroundTyped'
  BY <1>1 DEF SessionInv, AroundTyped, machines
<1>3. GuacTyped' /\ ListingInv' /\ CacheTyped' /\ SessionsTyped' /\ KnownInv'
  BY <1>1 DEF SessionInv, GuacTyped, ListingInv, CacheTyped, SessionsTyped, KnownInv, Known,
              guac, Listing
<1> QED
  BY <1>1, <1>2, <1>3 DEF SessionInv

\* A listing is asked for, or made.
LEMMA ListingSteps ==
    ASSUME SessionAssumption, SessionInv,
           \/ PollConnections \/ ListForPage
           \/ \E f \in Slot : GuacamoleLists(f)
           \/ \E i \in Instance : RemovalSummary(i)
    PROVE  SessionInv' /\ UNCHANGED <<secret, guac, session>>
<1>1. UNCHANGED <<secret, guac, cache, session, rows, machines, proxied>>
  BY DEF PollConnections, ListForPage, GuacamoleLists, RemovalSummary
<1>2. AroundTyped'
  <2>1. UNCHANGED events \/ Event
    BY DEF PollConnections, ListForPage, GuacamoleLists, RemovalSummary
  <2> QED
    BY <1>1, <2>1 DEF SessionInv, AroundTyped, Event, rows, machines, SessionAssumption
<1>3. CacheTyped'
  <2>1. Listing \subseteq DOMAIN conns /\ DOMAIN conns \subseteq Nat
    BY DEF Listing, SessionInv, GuacTyped
  <2> USE <1>1, <2>1 DEF SessionInv, CacheTyped, guac, NoFetch
  <2>2. CASE PollConnections
    BY <2>2 DEF PollConnections, Joined
  <2>3. CASE ListForPage
    BY <2>3 DEF ListForPage
  <2>4. CASE \E f \in Slot : GuacamoleLists(f)
    BY <2>4 DEF GuacamoleLists
  <2>5. CASE \E i \in Instance : RemovalSummary(i)
    <3>1. fetch' = Joined \/ fetch' = fetch
      BY <2>5 DEF RemovalSummary
    <3> QED
      BY <3>1 DEF Joined, Slot
  <2> QED
    BY <2>2, <2>3, <2>4, <2>5
<1>4. GuacTyped' /\ ListingInv' /\ SessionsTyped' /\ KnownInv'
  BY <1>1 DEF SessionInv, GuacTyped, ListingInv, SessionsTyped, KnownInv, Known, guac, Listing
<1> QED
  BY <1>1, <1>2, <1>3, <1>4 DEF SessionInv

\* A listing arrives, or never will.
LEMMA DeliverySteps ==
    ASSUME SessionAssumption, SessionInv, NEW f \in Slot, ListConnections(f) \/ ListingFails(f)
    PROVE  /\ SessionInv' /\ UNCHANGED <<secret, guac>>
           /\ \A s \in Session : session'[s] # session[s] =>
                /\ session[s].pc \in {"summary", "again"}
                /\ session'[s].pc \in {"idle", "grant", "create", "update"}
<1>1. UNCHANGED <<secret, guac, rows, machines, proxied>>
  BY DEF ListConnections, ListingFails
<1>2. AroundTyped'
  BY <1>1 DEF ListConnections, ListingFails, SessionInv,
              AroundTyped, Event, rows, machines, SessionAssumption
<1>3. CacheTyped'
  <2> USE <1>1 DEF SessionInv, CacheTyped, guac, NoFetch
  <2>1. CASE ListConnections(f)
    BY <2>1 DEF ListConnections
  <2>2. CASE ListingFails(f)
    BY <2>2 DEF ListingFails
  <2> QED
    BY <2>1, <2>2
<1>4. GuacTyped' /\ ListingInv'
  BY <1>1 DEF SessionInv, GuacTyped, ListingInv, guac, Listing
<1>5. /\ session' \in [Session -> Request]
      /\ \A s \in Session :
          \/ session'[s] = session[s]
          \/ /\ session[s].pc \in {"summary", "again"}
             /\ Known(s, session'[s], conns)
             /\ session'[s].pc \in {"idle", "grant", "create", "update"}
  <2>1. CASE ListConnections(f)
    <3> DEFINE ids == fetch[f].ids
    <3>1. ids \subseteq DOMAIN conns
      BY DEF SessionInv, CacheTyped
    <3> HIDE DEF ids
    <3>2. ASSUME NEW s \in Session, session[s].waits
          PROVE  /\ session[s].pc \in {"summary", "again"}
                 /\ SessionLooks(s, ids) \in Request /\ Known(s, SessionLooks(s, ids), conns)
                 /\ SessionLooks(s, ids).pc \in {"grant", "create", "update"}
      <4>1. session[s].pc \in {"summary", "again"} /\ session[s] \in Request
        BY <3>2 DEF SessionInv, KnownInv, Known, SessionsTyped
      <4>2. SessionLooks(s, ids) \in Request /\ Known(s, SessionLooks(s, ids), conns)
        BY <3>1, <4>1, LooksKnown DEF SessionInv
      <4>3. SessionLooks(s, ids).pc \in {"grant", "create", "update"}
        BY <4>1 DEF SessionLooks, Request
      <4> QED
        BY <4>1, <4>2, <4>3
    <3>3. \/ session' = session
          \/ session' = [s \in Session |->
                            IF session[s].waits THEN SessionLooks(s, ids) ELSE session[s]]
      BY <2>1 DEF ListConnections, Deliver, ids
    <3> QED
      BY <3>2, <3>3 DEF SessionInv, SessionsTyped
  <2>2. CASE ListingFails(f)
    <3>1. \/ session' = session
          \/ session' = [s \in Session |-> IF session[s].waits THEN Idle ELSE session[s]]
      BY <2>2 DEF ListingFails, Deliver
    <3>2. \A s \in Session : session[s].waits => session[s].pc \in {"summary", "again"}
      BY DEF SessionInv, KnownInv, Known
    <3>3. Idle.pc = "idle"
      BY DEF Idle
    <3> QED
      BY <3>1, <3>2, <3>3, IdleTyped, IdleKnown DEF SessionInv, SessionsTyped
  <2> QED
    BY <2>1, <2>2
<1>6. SessionsTyped' /\ KnownInv'
  <2>1. UNCHANGED conns
    BY <1>1 DEF guac
  <2>2. \A s \in Session : Known(s, session'[s], conns)
    BY <1>5 DEF SessionInv, KnownInv
  <2> QED
    BY <1>5, <2>1, <2>2 DEF SessionsTyped, KnownInv
<1> QED
  BY <1>1, <1>2, <1>3, <1>4, <1>5, <1>6 DEF SessionInv

-----------------------------------------------------------------------------
\* The steps of a session.

\* What no step but its own does to a session.
OthersStay(s) == \A t \in Session \ {s} : session'[t] = session[t]

\* A step that leaves connections and cache.
LEMMA QuietSession ==
    ASSUME SessionInv, NEW s \in Session, NEW n, Becomes(s, n), n \in Request,
           Known(s, n, conns), AroundTyped', UNCHANGED <<conns, cache, fetch>>,
           secret' \in [User -> Secret \cup {None}],
           account' \in [User -> Account], \A u \in User : account'[u].grants \subseteq Listing
    PROVE  SessionInv' /\ session'[s] = n /\ OthersStay(s)
<1>1. Kept
  BY DEF Kept
<1>2. SessionsTyped' /\ KnownInv'
  BY <1>1, SessionMoves DEF SessionInv
<1>3. GuacTyped' /\ ListingInv' /\ CacheTyped'
  BY DEF SessionInv, GuacTyped, ListingInv, CacheTyped, Listing
<1> QED
  BY <1>2, <1>3 DEF SessionInv, SessionsTyped, Becomes, OthersStay

\* What a session becomes after a call.
LEMMA GotoKnown ==
    ASSUME NEW s \in Session, NEW r, r \in Request, Known(s, r, conns), ~r.waits,
           NEW pc \in Step, pc \in {"update", "put", "login"} => r.id # 0,
           pc \in Keyed => r.secret # None, pc \in {"start", "address"} => r.read = {}
    PROVE  /\ [r EXCEPT !.pc = pc] \in Request /\ [r EXCEPT !.pc = pc].pc = pc
           /\ [r EXCEPT !.pc = pc].id = r.id /\ [r EXCEPT !.pc = pc].secret = r.secret
           /\ Known(s, [r EXCEPT !.pc = pc], conns)
<1> DEFINE n == [r EXCEPT !.pc = pc]
<1>1. /\ n \in Request /\ n.pc = pc /\ n.id = r.id /\ n.kind = r.kind
      /\ n.waits = r.waits /\ n.secret = r.secret /\ n.read = r.read
  BY DEF Request
<1> HIDE DEF n
<1>2. Known(s, n, conns)
  BY <1>1 DEF Known
<1> QED
  BY <1>1, <1>2 DEF n

LEMMA EventsTyped ==
    ASSUME SessionAssumption, AroundTyped, UNCHANGED events \/ Event
    PROVE  events' \in 0..MaxEvents
BY DEF SessionAssumption, AroundTyped, Event

\* Before the account is looked at.
LEMMA OpeningSteps ==
    ASSUME SessionAssumption, SessionInv, NEW s \in Session,
           Ask(s) \/ StartVM(s) \/ ProxyAuth(s) \/ GetInsideNetIPv4(s)
    PROVE  /\ SessionInv' /\ UNCHANGED <<secret, guac>> /\ OthersStay(s)
           /\ \/ session'[s] = Idle
              \/ session'[s].pc \in {"start", "proxy", "address", "answered"}
              \/ session'[s].pc = "ensure" /\ session'[s].read = {}
           /\ session[s].pc \in {"idle", "start", "proxy", "address"}
<1> DEFINE i == InstanceOf[s]
           r == session[s]
<1>1. i \in Instance /\ r \in Request /\ Known(s, r, conns) /\ kind[i] \in Kind
      /\ addr[i] \in Address
  BY DEF SessionInv, SessionsTyped, KnownInv, SessionAssumption, AroundTyped
<1>2. PICK n : /\ Becomes(s, n) /\ n \in Request /\ Known(s, n, conns)
               /\ \/ n = Idle
                  \/ n.pc \in {"start", "proxy", "address", "answered"}
                  \/ n.pc = "ensure" /\ n.read = {}
  <2>1. CASE Ask(s)
    <3> DEFINE n == [Idle EXCEPT !.pc = "start", !.kind = kind[i]]
    <3>1. Becomes(s, n)
      BY <2>1 DEF Ask, Becomes
    <3>2. n \in Request /\ n.pc = "start" /\ n.id = 0 /\ n.waits = FALSE /\ n.read = {}
      BY <1>1, IdleTyped DEF Request, Step, Idle
    <3> HIDE DEF n
    <3> QED
      BY <3>1, <3>2 DEF Known, Keyed
  <2>2. CASE StartVM(s)
    <3>1. r.pc = "start" /\ ~r.waits /\ r.read = {}
      BY <1>1, <2>2 DEF StartVM, Known
    <3>2. \E pc \in {"proxy", "address"} : Becomes(s, Idle) \/ Becomes(s, [r EXCEPT !.pc = pc])
      BY <2>2 DEF StartVM, Fail, Goto, Becomes
    <3>3. ASSUME NEW pc \in {"proxy", "address"}
          PROVE  /\ [r EXCEPT !.pc = pc] \in Request /\ [r EXCEPT !.pc = pc].pc = pc
                 /\ Known(s, [r EXCEPT !.pc = pc], conns)
      <4>1. pc \in Step /\ pc \notin {"update", "put", "login"} /\ pc \notin Keyed
        BY DEF Step, Keyed
      <4> HIDE DEF r
      <4> QED
        BY <1>1, <3>1, <4>1, GotoKnown
    <3> QED
      BY <3>2, <3>3, IdleTyped, IdleKnown
  <2>3. CASE ProxyAuth(s)
    <3> DEFINE host == IF proxied[i] # None THEN proxied[i]
                       ELSE IF vm[i] = "on" THEN addr[i] ELSE None
               n == [r EXCEPT !.pc = "answered", !.host = host]
    <3>1. host \in Address \cup {None}
      BY <1>1 DEF SessionInv, AroundTyped
    <3>2. Becomes(s, n) \/ Becomes(s, Idle)
      BY <2>3 DEF ProxyAuth, Fail, Becomes
    <3> HIDE DEF host
    <3>3. n \in Request /\ n.pc = "answered"
      BY <1>1, <3>1 DEF Request, Step
    <3>4. Known(s, n, conns)
      <4>1. r.pc = "proxy"
        BY <2>3 DEF ProxyAuth
      <4> QED
        BY <1>1, <4>1 DEF Known, Keyed, Request
    <3> HIDE DEF n
    <3> QED
      BY <3>2, <3>3, <3>4, IdleTyped, IdleKnown
  <2>4. CASE GetInsideNetIPv4(s)
    <3> DEFINE n == [r EXCEPT !.pc = "ensure", !.host = addr[i]]
    <3>1. Becomes(s, n) \/ Becomes(s, Idle)
      BY <2>4 DEF GetInsideNetIPv4, Fail, Becomes
    <3>2. n \in Request /\ n.pc = "ensure" /\ n.read = {}
      BY <1>1, <2>4 DEF Request, Step, GetInsideNetIPv4, Known
    <3>3. Known(s, n, conns)
      BY <1>1, <2>4 DEF Known, Keyed, Request, GetInsideNetIPv4
    <3> QED
      BY <3>1, <3>2, <3>3, IdleTyped, IdleKnown
  <2> QED
    BY <2>1, <2>2, <2>3, <2>4
<1>3. AroundTyped' /\ UNCHANGED <<secret, guac, cache, fetch>>
  <2>1. CASE Ask(s) \/ GetInsideNetIPv4(s)
    BY <2>1 DEF Ask, GetInsideNetIPv4, SessionInv, AroundTyped, rows, machines, cached
  <2>2. CASE StartVM(s)
    BY <1>1, <2>2 DEF StartVM, Boot, SessionInv, AroundTyped, rows, machines, cached
  <2>3. CASE ProxyAuth(s)
    BY <1>1, <2>3 DEF ProxyAuth, SessionInv, AroundTyped, rows, machines, cached
  <2> QED
    BY <2>1, <2>2, <2>3
<1>4. /\ secret' \in [User -> Secret \cup {None}] /\ account' \in [User -> Account]
      /\ \A u \in User : account'[u].grants \subseteq Listing
      /\ UNCHANGED conns
  BY <1>3 DEF SessionInv, GuacTyped, ListingInv, guac
<1>5. SessionInv' /\ session'[s] = n /\ OthersStay(s)
  BY <1>2, <1>3, <1>4, QuietSession
<1>6. r.pc \in {"idle", "start", "proxy", "address"}
  BY DEF Ask, StartVM, ProxyAuth, GetInsideNetIPv4
<1> QED
  BY <1>2, <1>3, <1>5, <1>6

\* It has found the row without a secret.
Unkeyed(r) ==
    \/ r.pc = "drop"
    \/ r.pc = "ensure" /\ "secret" \in r.read /\ r.secret = None

LEMMA EnsuredKeeps ==
    ASSUME NEW s \in Session, NEW r, r \in Request, Known(s, r, conns), r.pc = "ensure"
    PROVE  /\ Ensured(s, r) \in Request /\ Known(s, Ensured(s, r), conns)
           /\ Ensured(s, r).pc \in {"ensure", "summary", "drop", "mint"}
           /\ Unkeyed(Ensured(s, r)) => "secret" \in r.read /\ r.secret = None
<1> DEFINE n == Ensured(s, r)
<1>1. CASE r.read # {"secret", "account"}
  BY <1>1 DEF Ensured, Unkeyed
<1>2. CASE r.read = {"secret", "account"} /\ r.secret # None /\ r.there
  <2>1. n = [r EXCEPT !.pc = "summary", !.there = FALSE, !.read = {}]
    BY <1>2 DEF Ensured
  <2> HIDE DEF n
  <2>2. /\ n \in Request /\ n.pc = "summary" /\ n.secret = r.secret /\ n.id = r.id
        /\ n.kind = r.kind /\ n.waits = r.waits
    BY <2>1 DEF Request, Step
  <2> QED
    BY <1>2, <2>2 DEF n, Known, Unkeyed
<1>3. CASE r.read = {"secret", "account"} /\ ~(r.secret # None /\ r.there)
  <2>1. n = [r EXCEPT !.pc = IF r.there THEN "drop" ELSE "mint",
                      !.secret = None, !.there = FALSE, !.read = {}]
    BY <1>3 DEF Ensured
  <2> HIDE DEF n
  <2>2. /\ n \in Request /\ n.id = r.id /\ n.kind = r.kind /\ n.waits = r.waits
        /\ n.pc = IF r.there THEN "drop" ELSE "mint"
    BY <2>1 DEF Request, Step
  <2> QED
    BY <1>3, <2>2 DEF n, Known, Unkeyed, Keyed
<1> QED
  BY <1>1, <1>2, <1>3

\* The two questions about the account.
LEMMA EnsureSteps ==
    ASSUME SessionAssumption, SessionInv, NEW s \in Session, ReadSecret(s) \/ GetUser(s)
    PROVE  /\ SessionInv' /\ UNCHANGED <<secret, guac>> /\ OthersStay(s)
           /\ session[s].pc = "ensure"
           /\ session'[s].pc \in {"ensure", "summary", "drop", "mint"}
           /\ Unkeyed(session'[s]) => Unkeyed(session[s]) \/ secret[Me(s)] = None
<1> DEFINE r == session[s]
<1>1. r \in Request /\ Known(s, r, conns) /\ secret[Me(s)] \in Secret \cup {None}
  BY DEF SessionInv, SessionsTyped, KnownInv, GuacTyped, SessionAssumption, Me
<1>2. r.pc = "ensure" /\ UNCHANGED <<secret, guac, cache, fetch, rows, machines, proxied, events>>
  BY DEF ReadSecret, GetUser, cached
<1>3. PICK m : /\ Becomes(s, Ensured(s, m)) /\ m \in Request /\ Known(s, m, conns)
               /\ m.pc = "ensure"
               /\ "secret" \in m.read /\ m.secret = None => Unkeyed(r) \/ secret[Me(s)] = None
  <2>1. CASE ReadSecret(s)
    <3> DEFINE m == [r EXCEPT !.secret = secret[Me(s)], !.read = @ \cup {"secret"}]
    <3>1. Becomes(s, Ensured(s, m))
      BY <2>1 DEF ReadSecret, Becomes
    <3>2. /\ m \in Request /\ m.pc = r.pc /\ m.id = r.id /\ m.kind = r.kind
          /\ m.waits = r.waits /\ m.secret = secret[Me(s)]
      <4>1. r.read \cup {"secret"} \in SUBSET {"secret", "account"}
        BY <1>1 DEF Request
      <4> QED
        BY <1>1, <4>1 DEF Request
    <3> HIDE DEF m
    <3>3. Known(s, m, conns)
      BY <1>1, <1>2, <3>2 DEF Known, Keyed
    <3> QED
      BY <1>2, <3>1, <3>2, <3>3
  <2>2. CASE GetUser(s)
    <3> DEFINE m == [r EXCEPT !.there = account[Me(s)] # NoAccount, !.read = @ \cup {"account"}]
    <3>1. Becomes(s, Ensured(s, m))
      BY <2>2 DEF GetUser, Becomes
    <3>2. /\ m \in Request /\ m.pc = r.pc /\ m.id = r.id /\ m.kind = r.kind
          /\ m.waits = r.waits /\ m.secret = r.secret /\ m.read = r.read \cup {"account"}
      <4>1. r.read \cup {"account"} \in SUBSET {"secret", "account"}
        BY <1>1 DEF Request
      <4> QED
        BY <1>1, <4>1 DEF Request
    <3> HIDE DEF m
    <3>3. Known(s, m, conns)
      BY <1>1, <1>2, <3>2 DEF Known, Keyed
    <3> QED
      BY <1>2, <3>1, <3>2, <3>3 DEF Unkeyed
  <2> QED
    BY <2>1, <2>2
<1>4. /\ Ensured(s, m) \in Request /\ Known(s, Ensured(s, m), conns)
      /\ Ensured(s, m).pc \in {"ensure", "summary", "drop", "mint"}
      /\ Unkeyed(Ensured(s, m)) => "secret" \in m.read /\ m.secret = None
  BY <1>3, EnsuredKeeps
<1>5. /\ AroundTyped' /\ UNCHANGED conns
      /\ secret' \in [User -> Secret \cup {None}] /\ account' \in [User -> Account]
      /\ \A u \in User : account'[u].grants \subseteq Listing
  BY <1>2 DEF SessionInv, AroundTyped, GuacTyped, ListingInv, guac, rows, machines
<1>6. SessionInv' /\ session'[s] = Ensured(s, m) /\ OthersStay(s)
  BY <1>2, <1>3, <1>4, <1>5, QuietSession
<1> QED
  BY <1>2, <1>3, <1>4, <1>6

\* Whether the answer arrives or is lost.
LEMMA AnsweredBecomes ==
    ASSUME SessionAssumption, AroundTyped, UNCHANGED <<rows, machines, proxied>>,
           NEW s \in Session, NEW n,
           Answered(s, n)
    PROVE  AroundTyped' /\ (Becomes(s, n) \/ Becomes(s, Idle))
<1>1. UNCHANGED events \/ Event
  BY DEF Answered
<1>2. AroundTyped'
  BY <1>1, EventsTyped DEF AroundTyped, rows, machines
<1>3. Becomes(s, n) \/ Becomes(s, Idle)
  BY DEF Answered, Fail, Becomes
<1> QED
  BY <1>2, <1>3

\* An account that stood in the way is deleted.
LEMMA DropSteps ==
    ASSUME SessionAssumption, SessionInv, NEW s \in Session, DeleteUser(s)
    PROVE  /\ SessionInv' /\ UNCHANGED <<secret, conns>> /\ OthersStay(s)
           /\ account' = [account EXCEPT ![Me(s)] = NoAccount]
           /\ session[s].pc = "drop" /\ session'[s].pc \in {"mint", "idle"}
<1> DEFINE r == session[s]
           n == [r EXCEPT !.pc = "mint"]
<1>1. r \in Request /\ Known(s, r, conns) /\ r.pc = "drop" /\ ~r.waits
  BY DEF SessionInv, SessionsTyped, KnownInv, DeleteUser, Known
<1>2. /\ UNCHANGED <<secret, conns, cache, fetch>>
      /\ account' = [account EXCEPT ![Me(s)] = NoAccount]
  BY DEF DeleteUser, cached
<1>3. AroundTyped' /\ (Becomes(s, n) \/ Becomes(s, Idle))
  <2>1. Answered(s, n) /\ UNCHANGED <<rows, machines, proxied>> /\ AroundTyped
    BY DEF DeleteUser, SessionInv
  <2> HIDE DEF n
  <2> QED
    BY <2>1, AnsweredBecomes
<1>4. "mint" \in Step /\ "mint" \notin Keyed
  BY DEF Step, Keyed
<1>5. n \in Request /\ n.pc = "mint" /\ Known(s, n, conns)
  <2> HIDE DEF r
  <2> QED
    BY <1>1, <1>4, GotoKnown
<1>6. NoAccount \in Account /\ NoAccount.grants = {}
  BY DEF NoAccount, Account
<1>7. /\ secret' \in [User -> Secret \cup {None}] /\ account' \in [User -> Account]
      /\ \A u \in User : account'[u].grants \subseteq Listing
  BY <1>2, <1>6 DEF SessionInv, GuacTyped, ListingInv
<1> HIDE DEF n
<1>8. PICK m \in {n, Idle} : Becomes(s, m)
  BY <1>3
<1>9. m \in Request /\ Known(s, m, conns) /\ m.pc \in {"mint", "idle"}
  BY <1>5, <1>8, IdleTyped, IdleKnown
<1>10. SessionInv' /\ session'[s] = m /\ OthersStay(s)
  BY <1>2, <1>3, <1>7, <1>8, <1>9, QuietSession
<1> QED
  BY <1>1, <1>2, <1>9, <1>10

\* There is always a secret that nobody has.
LEMMA SecretIsNew ==
    ASSUME SessionAssumption, SessionInv
    PROVE  /\ NewSecret \in Secret /\ NewSecret # None
           /\ \A u \in User : NewSecret # secret[u] /\ NewSecret # account[u].password
           /\ \A s \in Session : NewSecret # session[s].secret
<1> DEFINE made == [u \in User |-> account[u].password]
           held == [s \in Session |-> session[s].secret]
<1>1. /\ secret \in [User -> Secret \cup {None}] /\ made \in [User -> Secret \cup {None}]
      /\ held \in [Session -> Secret \cup {None}]
  BY DEF SessionInv, GuacTyped, SessionsTyped, Account, Request
<1>2. \E x \in Secret : /\ \A u \in User : x # secret[u] /\ x # made[u]
                       /\ \A s \in Session : x # held[s]
  <2> HIDE DEF made, held
  <2> QED
    BY <1>1 DEF SessionAssumption
<1>3. \E x \in Secret : /\ \A u \in User : x # secret[u] /\ x # account[u].password
                       /\ \A s \in Session : x # session[s].secret
  BY <1>2
<1>4. None \notin Secret
  BY DEF SessionAssumption
<1> QED
  BY <1>3, <1>4 DEF NewSecret

\* What making an account does to it.
Made(s, r) ==
    /\ account' = [account EXCEPT ![Me(s)] = [password |-> NewSecret, grants |-> {}]]
    /\ account[Me(s)] = NoAccount
    /\ \/ r.pc = "store" /\ r.secret = NewSecret
       \/ r = Idle

LEMMA MintSteps ==
    ASSUME SessionAssumption, SessionInv, NEW s \in Session, CreateUser(s)
    PROVE  /\ SessionInv' /\ UNCHANGED <<secret, conns>> /\ OthersStay(s)
           /\ session[s].pc = "mint"
           /\ Made(s, session'[s]) \/ (UNCHANGED account /\ session'[s] = Idle)
<1> DEFINE r == session[s]
           n == [r EXCEPT !.pc = "store", !.secret = NewSecret]
<1>1. r \in Request /\ Known(s, r, conns) /\ r.pc = "mint" /\ ~r.waits
  BY DEF SessionInv, SessionsTyped, KnownInv, CreateUser, Known
<1>2. UNCHANGED <<secret, conns, cache, fetch, rows, machines, proxied>>
  BY DEF CreateUser, cached
<1>3. NewSecret \in Secret /\ NewSecret # None
  BY SecretIsNew
<1>4. /\ n \in Request /\ n.pc = "store" /\ n.secret = NewSecret
      /\ n.id = r.id /\ n.kind = r.kind /\ n.waits = r.waits
  BY <1>1, <1>3 DEF Request, Step
<1>5. Known(s, n, conns)
  <2> HIDE DEF n
  <2> QED
    BY <1>1, <1>3, <1>4 DEF Known
<1>6. AroundTyped'
  <2>1. UNCHANGED events \/ Event
    BY DEF CreateUser
  <2> QED
    BY <1>2, <2>1, EventsTyped DEF SessionInv, AroundTyped, rows, machines
<1>7. PICK m \in {n, Idle} : /\ Becomes(s, m)
                             /\ Made(s, m) \/ (UNCHANGED account /\ m = Idle)
  <2>1. CASE account[Me(s)] # NoAccount
    <3>1. Becomes(s, Idle) /\ UNCHANGED account
      BY <2>1 DEF CreateUser, Fail, Becomes
    <3> QED
      BY <3>1
  <2>2. CASE account[Me(s)] = NoAccount
    <3>1. account' = [account EXCEPT ![Me(s)] = [password |-> NewSecret, grants |-> {}]]
      BY <2>2 DEF CreateUser
    <3>2. Becomes(s, n) \/ Becomes(s, Idle)
      BY <2>2 DEF CreateUser, Fail, Becomes
    <3>3. n.pc = "store" /\ n.secret = NewSecret
      BY <1>4
    <3> HIDE DEF n
    <3> QED
      BY <2>2, <3>1, <3>2, <3>3 DEF Made
  <2> QED
    BY <2>1, <2>2
<1> HIDE DEF n
<1>8. m \in Request /\ Known(s, m, conns)
  <2>1. n \in Request /\ Known(s, n, conns)
    BY <1>4, <1>5
  <2> QED
    BY <1>7, <2>1, IdleTyped, IdleKnown
<1>9. /\ secret' \in [User -> Secret \cup {None}] /\ account' \in [User -> Account]
      /\ \A u \in User : account'[u].grants \subseteq Listing
  <2> DEFINE made == [password |-> NewSecret, grants |-> {}]
  <2>1. made \in Account /\ made.grants = {}
    BY <1>3 DEF Account
  <2>2. account' = account \/ account' = [account EXCEPT ![Me(s)] = made]
    BY <1>7 DEF Made
  <2> HIDE DEF made
  <2> QED
    BY <1>2, <2>1, <2>2 DEF SessionInv, GuacTyped, ListingInv
<1>10. SessionInv' /\ session'[s] = m /\ OthersStay(s)
  BY <1>2, <1>6, <1>7, <1>8, <1>9, QuietSession
<1> QED
  BY <1>1, <1>2, <1>7, <1>10

\* The secret goes to the row.
LEMMA StoreSteps ==
    ASSUME SessionAssumption, SessionInv, NEW s \in Session, SetGuacPassword(s)
    PROVE  /\ SessionInv' /\ UNCHANGED guac /\ OthersStay(s)
           /\ secret' = [secret EXCEPT ![Me(s)] = session[s].secret]
           /\ session[s].pc = "store" /\ session[s].secret # None
           /\ session'[s].pc = "summary"
<1> DEFINE r == session[s]
           n == [r EXCEPT !.pc = "summary"]
<1>1. /\ r \in Request /\ Known(s, r, conns) /\ r.pc = "store" /\ ~r.waits
      /\ r.secret # None
  BY DEF SessionInv, SessionsTyped, KnownInv, SetGuacPassword, Known, Keyed
<1>2. /\ UNCHANGED <<guac, cache, fetch>> /\ Becomes(s, n)
      /\ secret' = [secret EXCEPT ![Me(s)] = r.secret]
  BY DEF SetGuacPassword, cached, Goto, Becomes
<1>3. AroundTyped'
  BY DEF SetGuacPassword, SessionInv, AroundTyped, rows, machines
<1>4. n \in Request /\ n.pc = "summary" /\ Known(s, n, conns)
  <2>1. "summary" \in Step /\ "summary" \notin {"update", "put", "login"}
    BY DEF Step
  <2> HIDE DEF r
  <2> QED
    BY <1>1, <2>1, GotoKnown
<1>5. /\ secret' \in [User -> Secret \cup {None}] /\ account' \in [User -> Account]
      /\ UNCHANGED conns /\ \A u \in User : account'[u].grants \subseteq Listing
  BY <1>1, <1>2 DEF SessionInv, GuacTyped, ListingInv, guac, Request
<1> HIDE DEF n
<1>6. SessionInv' /\ session'[s] = n /\ OthersStay(s)
  BY <1>2, <1>3, <1>4, <1>5, QuietSession
<1> QED
  BY <1>1, <1>2, <1>4, <1>6

\* A session looks into the cache, or has it fetched.
LEMMA LookSteps ==
    ASSUME SessionAssumption, SessionInv, NEW s \in Session, GetConnectionSummary(s)
    PROVE  /\ SessionInv' /\ UNCHANGED <<secret, guac>> /\ OthersStay(s)
           /\ session[s].pc \in {"summary", "again"}
           /\ session'[s].pc \in {"summary", "again", "grant", "create", "update"}
<1> DEFINE r == session[s]
           w == [r EXCEPT !.waits = TRUE]
           n == SessionLooks(s, cache)
<1>1. /\ r \in Request /\ Known(s, r, conns) /\ r.pc \in {"summary", "again"}
      /\ UNCHANGED <<secret, guac, cache, rows, machines, proxied, events>>
  BY DEF SessionInv, SessionsTyped, KnownInv, GetConnectionSummary
<1>2. w \in Request /\ Known(s, w, conns) /\ w.pc \in {"summary", "again"}
  <2>1. /\ w \in Request /\ w.pc = r.pc /\ w.id = r.id /\ w.kind = r.kind
        /\ w.secret = r.secret
    BY <1>1 DEF Request
  <2> HIDE DEF w
  <2> QED
    BY <1>1, <2>1 DEF Known
<1>3. n \in Request /\ Known(s, n, conns) /\ n.pc \in {"grant", "create", "update"}
  <2>1. cache \subseteq DOMAIN conns
    BY DEF SessionInv, CacheTyped
  <2>2. n \in Request /\ Known(s, n, conns)
    <3> HIDE DEF n
    <3> QED
      BY <1>1, <2>1, LooksKnown DEF SessionInv, n
  <2>3. n.pc \in {"grant", "create", "update"}
    BY <1>1 DEF SessionLooks, Request
  <2> QED
    BY <2>2, <2>3
<1>4. Becomes(s, w) \/ Becomes(s, n)
  BY DEF GetConnectionSummary, Becomes
<1> HIDE DEF w, n
<1>5. PICK m \in {w, n} : Becomes(s, m)
  BY <1>4
<1>6. /\ m \in Request /\ Known(s, m, conns)
      /\ m.pc \in {"summary", "again", "grant", "create", "update"}
  BY <1>2, <1>3
<1>7. Kept /\ UNCHANGED conns
  BY <1>1 DEF Kept, guac
<1>8. SessionsTyped' /\ KnownInv'
  BY <1>5, <1>6, <1>7, SessionMoves DEF SessionInv
<1>9. AroundTyped' /\ GuacTyped' /\ ListingInv'
  BY <1>1 DEF SessionInv, AroundTyped, GuacTyped, ListingInv, Listing, guac, rows, machines
<1>10. CacheTyped'
  BY <1>1, <1>7 DEF GetConnectionSummary, SessionInv, CacheTyped, Joined, NoFetch
<1> QED
  BY <1>1, <1>5, <1>6, <1>8, <1>9, <1>10 DEF SessionInv, SessionsTyped, Becomes, OthersStay

\* A step of the session alone; the cache may be outdated.
LEMMA OwnSteps ==
    ASSUME SessionAssumption, SessionInv, NEW s \in Session,
           Invalidate(s) \/ GetSessionUrl(s) \/ AskAgain(s) \/ CallFails(s)
    PROVE  /\ SessionInv' /\ UNCHANGED <<secret, guac>> /\ OthersStay(s)
           /\ session'[s] = Idle \/ session'[s].pc \in {"post", "put", "answered"}
           /\ session[s].pc = "login" /\ session'[s].pc = "answered" =>
                account[Me(s)].password = session[s].secret
<1> DEFINE r == session[s]
<1>1. r \in Request /\ Known(s, r, conns)
  BY DEF SessionInv, SessionsTyped, KnownInv
<1>2. /\ UNCHANGED <<secret, guac, cache, fetch, rows, machines, proxied>>
      /\ UNCHANGED events \/ Event
  BY DEF Invalidate, GetSessionUrl, AskAgain, CallFails, cached
<1>3. AroundTyped'
  BY <1>2, EventsTyped DEF SessionInv, AroundTyped, rows, machines
<1>4. PICK n : /\ Becomes(s, n) /\ n \in Request /\ Known(s, n, conns)
               /\ n = Idle \/ n.pc \in {"post", "put", "answered"}
  <2>1. CASE Becomes(s, Idle)
    BY <2>1, IdleTyped, IdleKnown
  <2>2. CASE Invalidate(s)
    <3> DEFINE pc == IF r.pc = "create" THEN "post" ELSE "put"
               n == [r EXCEPT !.pc = pc]
    <3>1. /\ Becomes(s, n) /\ ~r.waits /\ r.secret # None /\ pc \in Step
          /\ pc \in {"post", "put"} /\ (pc = "put" => r.id # 0)
      BY <1>1, <2>2 DEF Invalidate, Goto, Becomes, Known, Keyed, Step
    <3> HIDE DEF r, pc
    <3>2. n \in Request /\ Known(s, n, conns) /\ n.pc = pc
      BY <1>1, <3>1, GotoKnown
    <3> HIDE DEF n
    <3> QED
      BY <3>1, <3>2
  <2>3. CASE GetSessionUrl(s) /\ ~Becomes(s, Idle)
    <3> DEFINE n == [r EXCEPT !.pc = "answered"]
    <3>1. Becomes(s, n) /\ ~r.waits /\ "answered" \in Step /\ "answered" \notin Keyed
      BY <1>1, <2>3 DEF GetSessionUrl, Goto, Fail, Becomes, Known, Keyed, Step
    <3> HIDE DEF r
    <3>2. n \in Request /\ Known(s, n, conns) /\ n.pc = "answered"
      BY <1>1, <3>1, GotoKnown
    <3> HIDE DEF n
    <3> QED
      BY <3>1, <3>2
  <2>4. CASE AskAgain(s) \/ CallFails(s)
    BY <2>1, <2>4 DEF AskAgain, CallFails, Fail, Becomes
  <2> QED
    BY <2>1, <2>2, <2>3, <2>4
<1>5. /\ secret' \in [User -> Secret \cup {None}] /\ account' \in [User -> Account]
      /\ UNCHANGED conns /\ \A u \in User : account'[u].grants \subseteq Listing
  BY <1>2 DEF SessionInv, GuacTyped, ListingInv, guac
<1>6. SessionInv' /\ session'[s] = n /\ OthersStay(s)
  BY <1>2, <1>3, <1>4, <1>5, QuietSession
<1>8. r.pc = "login" /\ session'[s].pc = "answered" => account[Me(s)].password = r.secret
  <2> SUFFICES ASSUME r.pc = "login", account[Me(s)].password # r.secret
               PROVE  session'[s].pc # "answered"
    OBVIOUS
  <2>1. Becomes(s, Idle)
    BY DEF Invalidate, GetSessionUrl, AskAgain, CallFails, Fail, Becomes
  <2> QED
    BY <2>1, IdleKnown DEF Becomes, SessionInv, SessionsTyped
<1> QED
  BY <1>2, <1>4, <1>6, <1>8

\* A connection is made, under a name that is free, or rewritten under its own.
Sheet(s, k) == [name |-> Name(InstanceOf[s], k), host |-> session[s].host, live |-> TRUE]

LEMMA PostListing ==
    ASSUME SessionInv, NEW sheet \in Connection, sheet.live,
           Lookup(Listing, sheet.name) = 0, conns' = Append(conns, sheet)
    PROVE  /\ Kept /\ conns' \in Seq(Connection) /\ Listing \subseteq Listing'
           /\ \A c, d \in Listing' : conns'[c].name = conns'[d].name => c = d
<1> DEFINE k == Len(conns) + 1
<1>1. conns \in Seq(Connection)
  BY DEF SessionInv, GuacTyped
<1>2. /\ conns' \in Seq(Connection) /\ DOMAIN conns = 1..Len(conns) /\ Len(conns) \in Nat
      /\ DOMAIN conns' = 1..k /\ conns'[k] = sheet
      /\ \A id \in DOMAIN conns : conns'[id] = conns[id]
  BY <1>1
<1>3. DOMAIN conns' = DOMAIN conns \cup {k} /\ k \notin DOMAIN conns /\ DOMAIN conns \subseteq Nat
  BY <1>2
<1>4. Listing' = Listing \cup {k}
  BY <1>2, <1>3 DEF Listing
<1>5. \A c \in Listing : c \in DOMAIN conns /\ conns[c].name # sheet.name
  <2>1. 0 \notin Listing
    BY <1>2 DEF Listing
  <2> QED
    BY <2>1, LookupFinds DEF Listing
<1> HIDE DEF k
<1>6. \A c, d \in Listing' : conns'[c].name = conns'[d].name => c = d
  <2>1. \A c \in Listing : conns'[c].name = conns[c].name /\ conns[c].name # sheet.name
    BY <1>2, <1>5
  <2>2. conns'[k].name = sheet.name
    BY <1>2
  <2>3. \A c, d \in Listing : conns[c].name = conns[d].name => c = d
    BY DEF SessionInv, ListingInv
  <2>4. ASSUME NEW c \in Listing \cup {k}, NEW d \in Listing \cup {k},
               conns'[c].name = conns'[d].name
        PROVE  c = d
    <3>1. CASE c \in Listing /\ d \in Listing
      BY <2>1, <2>3, <2>4, <3>1
    <3>2. CASE c = k \/ d = k
      BY <2>1, <2>2, <2>4, <3>2
    <3> QED
      BY <3>1, <3>2
  <2> QED
    BY <1>4, <2>4
<1> QED
  BY <1>2, <1>3, <1>4, <1>6 DEF Kept

LEMMA PutListing ==
    ASSUME SessionInv, NEW sheet \in Connection, NEW id \in DOMAIN conns, conns[id].live,
           sheet.live, sheet.name = conns[id].name, conns' = [conns EXCEPT ![id] = sheet]
    PROVE  /\ Kept /\ conns' \in Seq(Connection) /\ Listing \subseteq Listing'
           /\ \A c, d \in Listing' : conns'[c].name = conns'[d].name => c = d
<1>1. conns \in Seq(Connection)
  BY DEF SessionInv, GuacTyped
<1>2. /\ conns' \in Seq(Connection) /\ DOMAIN conns' = DOMAIN conns /\ conns'[id] = sheet
      /\ \A c \in DOMAIN conns : conns'[c] = IF c = id THEN sheet ELSE conns[c]
  BY <1>1
<1>3. \A c \in DOMAIN conns : conns'[c].name = conns[c].name /\ conns'[c].live = conns[c].live
  BY <1>2
<1>4. Listing' = Listing
  BY <1>2, <1>3 DEF Listing
<1>5. \A c, d \in Listing' : conns'[c].name = conns'[d].name => c = d
  BY <1>3, <1>4 DEF Listing, SessionInv, ListingInv
<1> QED
  BY <1>2, <1>3, <1>4, <1>5 DEF Kept

LEMMA ConnectionSteps ==
    ASSUME SessionAssumption, SessionInv, NEW s \in Session,
           \/ CreateConnection(s) \/ CreateSshConnection(s)
           \/ UpdateConnectionIp(s) \/ UpdateSshConnection(s)
    PROVE  /\ SessionInv' /\ UNCHANGED <<secret, account>> /\ OthersStay(s) /\ Kept
           /\ session[s].pc \in {"post", "put"} /\ session'[s].pc \in {"again", "idle"}
<1> DEFINE r == session[s]
           sheet == Sheet(s, r.kind)
           n == [r EXCEPT !.pc = "again", !.host = None]
<1>1. r \in Request /\ Known(s, r, conns) /\ InstanceOf[s] \in Instance
  BY DEF SessionInv, SessionsTyped, KnownInv, SessionAssumption
<1>2. Post(s, sheet) \/ Put(s, sheet)
  BY DEF CreateConnection, CreateSshConnection, UpdateConnectionIp, UpdateSshConnection,
         Rdp, Ssh, Sheet
<1>3. /\ sheet \in Connection /\ sheet.live /\ sheet.name = MyName(s)
      /\ MyName(s) = Name(InstanceOf[s], r.kind)
  BY <1>1 DEF Sheet, Connection, Request, Name, MyName
<1> HIDE DEF sheet
<1>4. /\ r.pc \in {"post", "put"} /\ UNCHANGED <<secret, account, cache, fetch>>
      /\ UNCHANGED <<rows, machines, proxied>>
  BY <1>2 DEF Post, Put, cached
<1>5. CASE Fail(s) /\ UNCHANGED <<conns, events>>
  <2>1. Becomes(s, Idle) /\ Kept /\ AroundTyped'
    BY <1>4, <1>5 DEF Fail, Becomes, Kept, SessionInv, AroundTyped, rows, machines
  <2>2. /\ secret' \in [User -> Secret \cup {None}] /\ account' \in [User -> Account]
        /\ \A u \in User : account'[u].grants \subseteq Listing
    BY <1>4 DEF SessionInv, GuacTyped, ListingInv
  <2>3. SessionInv' /\ session'[s] = Idle /\ OthersStay(s)
    BY <1>4, <1>5, <2>1, <2>2, IdleTyped, IdleKnown, QuietSession
  <2> QED
    BY <1>4, <2>1, <2>3, IdleKnown
<1>6. CASE ~(Fail(s) /\ UNCHANGED <<conns, events>>)
  <2>1. /\ Kept /\ conns' \in Seq(Connection) /\ Listing \subseteq Listing'
        /\ \A c, d \in Listing' : conns'[c].name = conns'[d].name => c = d
    <3>1. CASE Post(s, sheet)
      <4>1. Lookup(Listing, sheet.name) = 0 /\ conns' = Append(conns, sheet)
        BY <1>6, <3>1 DEF Post
      <4> QED
        BY <1>3, <4>1, PostListing
    <3>2. CASE Put(s, sheet)
      <4>1. conns[r.id].live /\ conns' = [conns EXCEPT ![r.id] = sheet] /\ r.pc = "put"
        BY <1>6, <3>2 DEF Put
      <4>2. r.id \in DOMAIN conns /\ conns[r.id].name = MyName(s)
        BY <1>1, <1>3, <4>1 DEF Known
      <4> HIDE DEF r
      <4> QED
        BY <1>3, <4>1, <4>2, PutListing
    <3> QED
      BY <1>2, <3>1, <3>2
  <2>2. Answered(s, n)
    BY <1>2, <1>6 DEF Post, Put
  <2>3. AroundTyped' /\ (Becomes(s, n) \/ Becomes(s, Idle))
    <3>1. AroundTyped
      BY DEF SessionInv
    <3> HIDE DEF n
    <3> QED
      BY <1>4, <2>2, <3>1, AnsweredBecomes
  <2>4. n \in Request /\ n.pc = "again" /\ Known(s, n, conns')
    <3>1. /\ n \in Request /\ n.pc = "again" /\ n.id = r.id /\ n.kind = r.kind
          /\ n.secret = r.secret /\ n.waits = r.waits
      BY <1>1 DEF Request, Step
    <3> HIDE DEF n
    <3>2. Known(s, n, conns)
      BY <1>1, <1>4, <3>1 DEF Known, Keyed
    <3> QED
      BY <2>1, <3>1, <3>2, KnownStays
  <2> HIDE DEF n
  <2>5. PICK m \in {n, Idle} : Becomes(s, m)
    BY <2>3
  <2>6. m \in Request /\ m.pc \in {"again", "idle"} /\ Known(s, m, conns')
    BY <2>4, IdleTyped, IdleKnown
  <2>7. SessionsTyped' /\ KnownInv'
    BY <2>1, <2>5, <2>6, SessionMoves DEF SessionInv
  <2>8. GuacTyped' /\ ListingInv'
    BY <1>4, <2>1 DEF SessionInv, GuacTyped, ListingInv
  <2>9. CacheTyped'
    BY <1>4, <2>1 DEF SessionInv, CacheTyped, Kept
  <2>10. session'[s] = m /\ OthersStay(s)
    BY <2>5 DEF Becomes, SessionInv, SessionsTyped, OthersStay
  <2> QED
    BY <1>4, <2>1, <2>3, <2>6, <2>7, <2>8, <2>9, <2>10 DEF SessionInv
<1> QED
  BY <1>5, <1>6

\* The user is given what its request knows.
LEMMA GrantSteps ==
    ASSUME SessionAssumption, SessionInv, NEW s \in Session, GiveUserAccessToMachine(s)
    PROVE  /\ SessionInv' /\ UNCHANGED <<secret, conns>> /\ OthersStay(s)
           /\ session[s].pc = "grant"
           /\ \/ session'[s] = Idle
              \/ session'[s].pc = "login" /\ session'[s].id \in account'[Me(s)].grants
           /\ \/ UNCHANGED account
              \/ /\ account[Me(s)] # NoAccount
                 /\ \E id : account' = [account EXCEPT ![Me(s)].grants = @ \cup {id}]
<1> DEFINE r == session[s]
           n == [r EXCEPT !.pc = "login"]
<1>1. /\ r \in Request /\ Known(s, r, conns) /\ r.pc = "grant" /\ ~r.waits
      /\ r.secret # None /\ Me(s) \in User
  BY DEF SessionInv, SessionsTyped, KnownInv, GiveUserAccessToMachine, Known, Keyed,
         SessionAssumption, Me
<1>2. UNCHANGED <<secret, conns, cache, fetch, rows, machines, proxied>>
  BY DEF GiveUserAccessToMachine, cached
<1>3. CASE Fail(s) /\ UNCHANGED <<account, events>>
  <2>1. Becomes(s, Idle) /\ AroundTyped'
    BY <1>2, <1>3 DEF Fail, Becomes, SessionInv, AroundTyped, rows, machines
  <2>2. /\ secret' \in [User -> Secret \cup {None}] /\ account' \in [User -> Account]
        /\ \A u \in User : account'[u].grants \subseteq Listing
    BY <1>2, <1>3 DEF SessionInv, GuacTyped, ListingInv
  <2>3. SessionInv' /\ session'[s] = Idle /\ OthersStay(s)
    BY <1>2, <2>1, <2>2, IdleTyped, IdleKnown, QuietSession
  <2> QED
    BY <1>1, <1>2, <1>3, <2>3
<1>4. CASE ~(Fail(s) /\ UNCHANGED <<account, events>>)
  <2>1. /\ account[Me(s)] # NoAccount /\ r.id \in Listing
        /\ account' = [account EXCEPT ![Me(s)].grants = @ \cup {r.id}]
        /\ Answered(s, n)
    BY <1>4 DEF GiveUserAccessToMachine
  <2>2. AroundTyped' /\ (Becomes(s, n) \/ Becomes(s, Idle))
    <3>1. AroundTyped
      BY DEF SessionInv
    <3> HIDE DEF n
    <3> QED
      BY <1>2, <2>1, <3>1, AnsweredBecomes
  <2>3. r.id \in Nat /\ r.id # 0
    BY <2>1 DEF Listing, SessionInv, GuacTyped
  <2>4. n \in Request /\ n.pc = "login" /\ n.id = r.id /\ Known(s, n, conns)
    <3>1. "login" \in Step
      BY DEF Step
    <3> HIDE DEF r
    <3> QED
      BY <1>1, <2>3, <3>1, GotoKnown
  <2>5. account \in [User -> Account] /\ \A u \in User : account[u].grants \subseteq Listing
    BY DEF SessionInv, GuacTyped, ListingInv
  <2>6. /\ secret' \in [User -> Secret \cup {None}] /\ account' \in [User -> Account]
        /\ \A u \in User : account'[u].grants \subseteq Listing
        /\ r.id \in account'[Me(s)].grants
    <3> HIDE DEF r
    <3>1. account' \in [User -> Account]
      BY <2>1, <2>3, <2>5, <1>1 DEF Account
    <3>2. \A u \in User : account'[u].grants = IF u = Me(s) THEN account[u].grants \cup {r.id}
                                              ELSE account[u].grants
      BY <2>1, <2>5, <1>1 DEF Account
    <3> QED
      BY <1>1, <1>2, <2>1, <2>5, <3>1, <3>2 DEF SessionInv, GuacTyped
  <2> HIDE DEF n
  <2>7. PICK m \in {n, Idle} : Becomes(s, m)
    BY <2>2
  <2>8. m \in Request /\ Known(s, m, conns)
    BY <2>4, IdleTyped, IdleKnown
  <2>9. SessionInv' /\ session'[s] = m /\ OthersStay(s)
    BY <1>2, <2>2, <2>6, <2>7, <2>8, QuietSession
  <2>10. \E id : account' = [account EXCEPT ![Me(s)].grants = @ \cup {id}]
    BY <2>1
  <2> QED
    BY <1>1, <1>2, <2>1, <2>4, <2>6, <2>7, <2>9, <2>10
<1> QED
  BY <1>3, <1>4

-----------------------------------------------------------------------------
\* The steps around them, and the beginning.

\* What no removal and no restart does to an account: it keeps its password.
PasswordsKept ==
    \A u \in User : /\ account'[u].password = account[u].password
                    /\ account[u] = NoAccount => account'[u] = NoAccount

\* A grant goes only with its connection.
GrantsKept ==
    \A u \in User : \A id \in account[u].grants :
        id \in account'[u].grants \/ ~conns'[id].live

LEMMA RemovalSteps ==
    ASSUME SessionAssumption, SessionInv, NEW i \in Instance, DeleteConnection(i)
    PROVE  SessionInv' /\ Kept /\ PasswordsKept /\ GrantsKept /\ UNCHANGED <<secret, session>>
<1> DEFINE id == removal[i].id
<1>1. /\ conns' = [conns EXCEPT ![id].live = FALSE]
      /\ account' = [u \in User |-> [account[u] EXCEPT !.grants = @ \ {id}]]
      /\ UNCHANGED <<rows, machines, proxied, secret, cache, fetch, session>>
      /\ UNCHANGED events \/ Event
  BY DEF DeleteConnection, cached
<1> HIDE DEF id
<1>2. AroundTyped'
  BY <1>1, EventsTyped DEF SessionInv, AroundTyped, rows, machines
<1>3. conns \in Seq(Connection) /\ account \in [User -> Account]
  BY DEF SessionInv, GuacTyped
<1>4. /\ conns' \in Seq(Connection) /\ DOMAIN conns' = DOMAIN conns
      /\ \A c \in DOMAIN conns : conns'[c] = IF c = id THEN [conns[c] EXCEPT !.live = FALSE]
                                             ELSE conns[c]
  <2> DEFINE x == [conns[id] EXCEPT !.live = FALSE]
  <2>1. conns' = [conns EXCEPT ![id] = x]
    BY <1>1
  <2>2. ASSUME id \in DOMAIN conns PROVE x \in Connection
    <3>1. conns[id] \in Connection
      BY <1>3, <2>2
    <3> QED
      BY <3>1 DEF Connection
  <2> HIDE DEF x
  <2>3. CASE id \in DOMAIN conns
    <3>1. conns' \in Seq(Connection) /\ DOMAIN conns' = DOMAIN conns
      BY <1>3, <2>1, <2>2, <2>3
    <3>2. \A c \in DOMAIN conns : conns'[c] = IF c = id THEN x ELSE conns[c]
      BY <1>3, <2>1
    <3> QED
      BY <3>1, <3>2 DEF x
  <2>4. CASE id \notin DOMAIN conns
    <3>1. conns' = conns
      BY <1>3, <2>1, <2>4
    <3> QED
      BY <1>3, <2>4, <3>1
  <2> QED
    BY <2>3, <2>4
<1>5. \A c \in DOMAIN conns : /\ conns'[c].name = conns[c].name
                              /\ conns'[c].live = (conns[c].live /\ c # id)
  <2>1. \A c \in DOMAIN conns : conns[c] \in Connection
    BY <1>3
  <2> QED
    BY <1>4, <2>1 DEF Connection
<1>6. Listing' = Listing \ {id}
  BY <1>4, <1>5 DEF Listing
<1>7. /\ account' \in [User -> Account]
      /\ \A u \in User : /\ account'[u].grants = account[u].grants \ {id}
                         /\ account'[u].password = account[u].password
  <2>1. ASSUME NEW u \in User
        PROVE  /\ [account[u] EXCEPT !.grants = @ \ {id}] \in Account
               /\ [account[u] EXCEPT !.grants = @ \ {id}].grants = account[u].grants \ {id}
               /\ [account[u] EXCEPT !.grants = @ \ {id}].password = account[u].password
    <3>1. account[u] \in Account
      BY <1>3
    <3>2. account[u].grants \ {id} \in SUBSET Nat
      BY <3>1 DEF Account
    <3> QED
      BY <3>1, <3>2 DEF Account
  <2> QED
    BY <1>1, <2>1
<1>8. Kept
  BY <1>4, <1>5 DEF Kept
<1>9. SessionsTyped' /\ KnownInv'
  <2>1. session' \in [Session -> Request] /\ \A s \in Session : session'[s] = session[s]
    BY <1>1 DEF SessionInv, SessionsTyped
  <2> QED
    BY <1>8, <2>1, SessionsStay DEF SessionInv
<1>10. GuacTyped' /\ CacheTyped'
  BY <1>1, <1>4, <1>7 DEF SessionInv, GuacTyped, CacheTyped
<1>11. ListingInv'
  BY <1>5, <1>6, <1>7 DEF SessionInv, ListingInv, Listing
<1>12. PasswordsKept
  <2>1. ASSUME NEW u \in User, account[u] = NoAccount PROVE account'[u] = NoAccount
    <3>1. account'[u] = [account[u] EXCEPT !.grants = account[u].grants \ {id}]
      BY <1>1
    <3>2. account[u].grants = {} /\ account[u].grants \ {id} = account[u].grants
      BY <2>1 DEF NoAccount
    <3>3. account'[u] = account[u]
      BY <1>3, <3>1, <3>2 DEF Account
    <3> QED
      BY <2>1, <3>3
  <2> QED
    BY <1>7, <2>1 DEF PasswordsKept
<1>13. GrantsKept
  BY <1>5, <1>7 DEF GrantsKept, SessionInv, ListingInv, Listing
<1> QED
  BY <1>1, <1>2, <1>8, <1>9, <1>10, <1>11, <1>12, <1>13 DEF SessionInv

\* The backend restarts.
LEMMA CrashSteps ==
    ASSUME SessionAssumption, SessionInv, Crash
    PROVE  /\ SessionInv' /\ UNCHANGED <<secret, guac>>
           /\ \A s \in Session : session'[s] = Idle
<1>1. /\ UNCHANGED <<rows, machines, secret, guac>> /\ Event
      /\ session' = [s \in Session |-> Idle] /\ proxied' = [i \in Instance |-> None]
      /\ cache' = {} /\ fetch' = [f \in Slot |-> NoFetch]
  BY DEF Crash
<1>2. AroundTyped'
  BY <1>1, EventsTyped DEF SessionInv, AroundTyped, rows, machines
<1>3. Kept
  BY <1>1 DEF Kept, guac
<1>4. SessionsTyped' /\ KnownInv'
  BY <1>1, <1>3, IdleTyped, SessionsStay DEF SessionInv
<1>5. GuacTyped' /\ ListingInv'
  BY <1>1 DEF SessionInv, GuacTyped, ListingInv, Listing, guac
<1>6. CacheTyped'
  BY <1>1 DEF CacheTyped, NoFetch
<1> QED
  BY <1>1, <1>2, <1>4, <1>5, <1>6 DEF SessionInv

LEMMA SessionBegins ==
    ASSUME SessionAssumption, Init
    PROVE  SessionInv /\ session = [s \in Session |-> Idle]
<1> DEFINE Inj(h) == \A u, w \in User : h[u] = h[w] => u = w
           held == CHOOSE h \in [User -> Secret] : Inj(h)
<1>1. held \in [User -> Secret]
  <2>1. \E h \in [User -> Secret] : Inj(h)
    BY DEF SessionAssumption
  <2> HIDE DEF Inj
  <2> QED
    BY <2>1
<1>2. PICK blank \in SUBSET Fresh, there \in SUBSET User :
        /\ secret = [u \in User |-> IF u \in blank THEN None ELSE held[u]]
        /\ account = [u \in User |->
               IF u \in there THEN [password |-> held[u], grants |-> {}] ELSE NoAccount]
  BY DEF Init
<1> HIDE DEF held
<1>3. AroundTyped
  BY DEF Init, AroundTyped, Kind, SessionAssumption
<1>4. /\ conns = <<>> /\ cache = {} /\ fetch = [f \in Slot |-> NoFetch]
      /\ session = [s \in Session |-> Idle]
  BY DEF Init
<1>5. account \in [User -> Account] /\ \A u \in User : account[u].grants = {}
  BY <1>1, <1>2 DEF Account, NoAccount
<1>6. secret \in [User -> Secret \cup {None}]
  BY <1>1, <1>2
<1>7. conns \in Seq(Connection) /\ DOMAIN conns = {}
  BY <1>4
<1>8. GuacTyped /\ ListingInv
  BY <1>5, <1>6, <1>7 DEF GuacTyped, ListingInv, Listing
<1>9. CacheTyped
  BY <1>4 DEF CacheTyped, NoFetch
<1>10. SessionsTyped /\ KnownInv
  BY <1>4, IdleTyped, IdleKnown DEF SessionsTyped, KnownInv
<1> QED
  BY <1>3, <1>4, <1>8, <1>9, <1>10 DEF SessionInv

-----------------------------------------------------------------------------
\* An answer leads to the machine.

\* Whoever is about to log in, as the user it was granted to, has the grant
\* while the connection is there.
GrantInv ==
    \A s \in Session :
        session[s].pc = "login" /\ account[Me(s)].password = session[s].secret
        /\ conns[session[s].id].live
            => session[s].id \in account[Me(s)].grants

\* An account loses a grant only with the connection, or is made anew with a
\* secret that no session has.
AccountMoves ==
    \A u \in User :
        \/ /\ account'[u].password = account[u].password
           /\ \A id \in account[u].grants : id \in account'[u].grants \/ ~conns'[id].live
        \/ account'[u].password = None
        \/ \A s \in Session : account'[u].password # session[s].secret

LoginMoves ==
    \A s \in Session :
        /\ session'[s].pc = "login" =>
              session'[s] = session[s] \/ session'[s].id \in account'[Me(s)].grants
        /\ session[s].pc = "login" /\ session'[s].pc = "answered" =>
              account[Me(s)].password = session[s].secret

Moves == Kept /\ AccountMoves /\ LoginMoves

LEMMA GrantKept ==
    ASSUME SessionAssumption, SessionInv, GrantInv, Moves
    PROVE  GrantInv'
<1> SUFFICES ASSUME NEW s \in Session, session'[s].pc = "login",
                    account'[Me(s)].password = session'[s].secret,
                    conns'[session'[s].id].live
             PROVE  session'[s].id \in account'[Me(s)].grants
  BY DEF GrantInv, Me
<1> DEFINE id == session[s].id
<1>1. CASE session'[s] = session[s]
  <2>1. Known(s, session[s], conns) /\ Me(s) \in User
    BY DEF SessionInv, KnownInv, SessionAssumption, Me
  <2>2. session[s].secret # None /\ id \in DOMAIN conns
    BY <1>1, <2>1 DEF Known, Keyed
  <2>3. conns[id].live
    BY <1>1, <2>2 DEF Moves, Kept
  <2>4. /\ account'[Me(s)].password = account[Me(s)].password
        /\ id \in account[Me(s)].grants => id \in account'[Me(s)].grants
    BY <1>1, <2>1, <2>2 DEF Moves, AccountMoves
  <2> QED
    BY <1>1, <2>3, <2>4 DEF GrantInv
<1> QED
  BY <1>1 DEF Moves, LoginMoves

\* Neither Guacamole nor who is logged in changes.
LEMMA QuietMoves ==
    ASSUME UNCHANGED guac,
           \A s \in Session :
              \/ session'[s] = session[s]
              \/ /\ session'[s].pc # "login"
                 /\ session[s].pc = "login" /\ session'[s].pc = "answered" =>
                       account[Me(s)].password = session[s].secret
    PROVE  Moves
<1>1. account' = account /\ conns' = conns
  BY DEF guac
<1>2. Kept
  BY <1>1 DEF Kept
<1>3. AccountMoves
  BY <1>1 DEF AccountMoves
<1>4. LoginMoves
  BY DEF LoginMoves
<1> QED
  BY <1>2, <1>3, <1>4 DEF Moves

LEMMA SessionMovesOn ==
    ASSUME SessionAssumption, SessionInv, NEW s \in Session, Ask(s) \/ SessionStep(s) \/ AskAgain(s)
    PROVE  SessionInv' /\ Moves
<1>0. Idle.pc = "idle" /\ Me(s) \in User /\ account \in [User -> Account]
  BY IdleKnown DEF Me, SessionAssumption, SessionInv, GuacTyped
<1>1. CASE Ask(s) \/ StartVM(s) \/ ProxyAuth(s) \/ GetInsideNetIPv4(s)
  BY <1>0, <1>1, OpeningSteps, QuietMoves DEF OthersStay
<1>2. CASE ReadSecret(s) \/ GetUser(s)
  BY <1>2, EnsureSteps, QuietMoves DEF OthersStay
<1>3. CASE DeleteUser(s)
  <2>1. /\ SessionInv' /\ UNCHANGED conns /\ OthersStay(s)
        /\ account' = [account EXCEPT ![Me(s)] = NoAccount]
        /\ session[s].pc = "drop" /\ session'[s].pc \in {"mint", "idle"}
    BY <1>3, DropSteps
  <2>2. Kept
    BY <2>1 DEF Kept
  <2>3. AccountMoves
    BY <1>0, <2>1 DEF AccountMoves, NoAccount
  <2>4. LoginMoves
    BY <2>1 DEF LoginMoves, OthersStay
  <2> QED
    BY <2>1, <2>2, <2>3, <2>4 DEF Moves
<1>4. CASE CreateUser(s)
  <2>1. /\ SessionInv' /\ UNCHANGED conns /\ OthersStay(s) /\ session[s].pc = "mint"
        /\ Made(s, session'[s]) \/ (UNCHANGED account /\ session'[s] = Idle)
    BY <1>4, MintSteps
  <2>2. Kept
    BY <2>1 DEF Kept
  <2>3. AccountMoves
    <3>1. \A t \in Session : NewSecret # session[t].secret
      BY SecretIsNew
    <3>2. \/ UNCHANGED account
          \/ account' = [account EXCEPT ![Me(s)] = [password |-> NewSecret, grants |-> {}]]
      BY <2>1 DEF Made
    <3> QED
      BY <1>0, <3>1, <3>2 DEF AccountMoves
  <2>4. session'[s].pc \notin {"login", "answered"}
    BY <1>0, <2>1 DEF Made
  <2>5. LoginMoves
    BY <2>1, <2>4 DEF LoginMoves, OthersStay
  <2> QED
    BY <2>1, <2>2, <2>3, <2>5 DEF Moves
<1>5. CASE SetGuacPassword(s)
  BY <1>5, StoreSteps, QuietMoves DEF OthersStay
<1>6. CASE GetConnectionSummary(s)
  BY <1>6, LookSteps, QuietMoves DEF OthersStay
<1>7. CASE Invalidate(s) \/ GetSessionUrl(s) \/ AskAgain(s) \/ CallFails(s)
  BY <1>0, <1>7, OwnSteps, QuietMoves DEF OthersStay
<1>8. CASE \/ CreateConnection(s) \/ CreateSshConnection(s)
           \/ UpdateConnectionIp(s) \/ UpdateSshConnection(s)
  <2>1. /\ SessionInv' /\ UNCHANGED account /\ OthersStay(s) /\ Kept
        /\ session'[s].pc \in {"again", "idle"}
    BY <1>8, ConnectionSteps
  <2>2. AccountMoves
    BY <2>1 DEF AccountMoves
  <2>3. LoginMoves
    BY <2>1 DEF LoginMoves, OthersStay
  <2> QED
    BY <2>1, <2>2, <2>3 DEF Moves
<1>9. CASE GiveUserAccessToMachine(s)
  <2>1. /\ SessionInv' /\ UNCHANGED conns /\ OthersStay(s) /\ session[s].pc = "grant"
        /\ \/ session'[s] = Idle
           \/ session'[s].pc = "login" /\ session'[s].id \in account'[Me(s)].grants
        /\ \/ UNCHANGED account
           \/ \E id : account' = [account EXCEPT ![Me(s)].grants = @ \cup {id}]
    BY <1>9, GrantSteps
  <2>2. Kept
    BY <2>1 DEF Kept
  <2>3. AccountMoves
    <3>1. CASE UNCHANGED account
      BY <3>1 DEF AccountMoves
    <3>2. CASE \E id : account' = [account EXCEPT ![Me(s)].grants = @ \cup {id}]
      <4>1. \A u \in User : /\ account'[u].password = account[u].password
                            /\ account[u].grants \subseteq account'[u].grants
        BY <1>0, <3>2 DEF Account
      <4> QED
        BY <4>1 DEF AccountMoves
    <3> QED
      BY <2>1, <3>1, <3>2
  <2>4. LoginMoves
    BY <1>0, <2>1 DEF LoginMoves, OthersStay
  <2> QED
    BY <2>1, <2>2, <2>3, <2>4 DEF Moves
<1> QED
  BY <1>1, <1>2, <1>3, <1>4, <1>5, <1>6, <1>7, <1>8, <1>9 DEF SessionStep

LEMMA StepMoves ==
    ASSUME SessionAssumption, SessionInv, [Next]_vars
    PROVE  SessionInv' /\ Moves
<1>1. ASSUME NEW i \in Instance,
             \/ StartInstance(i) \/ StopInstance(i) \/ RebootInstance(i)
             \/ MarkQuarantined(i) \/ EditTemplate(i) \/ ProxyEntryExpires(i)
             \/ AskRemoval(i) \/ RemovalStep(i)
      PROVE  SessionInv' /\ Moves
  <2>1. CASE DeleteConnection(i)
    <3>1. /\ SessionInv' /\ Kept /\ PasswordsKept /\ GrantsKept /\ UNCHANGED session
      BY <2>1, RemovalSteps
    <3>2. AccountMoves /\ LoginMoves
      BY <3>1 DEF AccountMoves, LoginMoves, PasswordsKept, GrantsKept
    <3> QED
      BY <3>1, <3>2 DEF Moves
  <2>2. CASE RemovalSummary(i)
    BY <2>2, ListingSteps, QuietMoves
  <2>3. CASE ~DeleteConnection(i) /\ ~RemovalSummary(i)
    <3>1. SessionInv' /\ UNCHANGED <<secret, guac, session>>
      BY <1>1, <2>3, AroundSteps DEF RemovalStep
    <3> QED
      BY <3>1, QuietMoves
  <2> QED
    BY <2>1, <2>2, <2>3
<1>2. ASSUME NEW s \in Session, Ask(s) \/ SessionStep(s) \/ AskAgain(s)
      PROVE  SessionInv' /\ Moves
  BY <1>2, SessionMovesOn
<1>3. ASSUME NEW f \in Slot, ListingStep(f) PROVE SessionInv' /\ Moves
  <2>1. CASE GuacamoleLists(f)
    BY <2>1, ListingSteps, QuietMoves
  <2>2. CASE ListConnections(f) \/ ListingFails(f)
    BY <2>2, DeliverySteps, QuietMoves
  <2> QED
    BY <1>3, <2>1, <2>2 DEF ListingStep
<1>4. CASE PollConnections \/ ListForPage
  BY <1>4, ListingSteps, QuietMoves
<1>5. CASE FetchAndUpdateStatuses
  BY <1>5, QuietSteps, QuietMoves
<1>6. CASE Crash
  BY <1>6, CrashSteps, QuietMoves, IdleKnown
<1>7. CASE UNCHANGED vars
  BY <1>7, QuietSteps, QuietMoves
<1> QED
  BY <1>1, <1>2, <1>3, <1>4, <1>5, <1>6, <1>7 DEF Next

-----------------------------------------------------------------------------
\* A secret that opens its account stays.

\* Renews, of a request's record.
Renewing(r) == r.pc = "store" \/ Unkeyed(r)

LEMMA RenewsAsRecord == \A s \in Session : Renews(s) <=> Renewing(session[s])
BY DEF Renews, Renewing, Unkeyed

\* A step that neither makes an account, nor deletes one, nor stores a secret.
LEMMA SettledKept ==
    ASSUME SessionAssumption, SessionInv, NEW u \in User, Settled(u), UNCHANGED secret, PasswordsKept,
           \A s \in Session : Me(s) = u /\ Renewing(session'[s]) =>
              Renewing(session[s]) \/ secret[u] = None
    PROVE  Settled(u)'
<1>1. Opens(u)'
  BY DEF Settled, Opens, PasswordsKept
<1>2. \A s \in Session : Me(s) = u => ~Renewing(session'[s])
  BY RenewsAsRecord DEF Settled, Opens
<1>3. \A s \in Session : Me(s) = u => ~Renews(s)'
  BY <1>2 DEF Renews, Renewing, Unkeyed
<1> QED
  BY <1>1, <1>3 DEF Settled, Me

\* A step of another user's request.
LEMMA SettledBeside ==
    ASSUME SessionAssumption, NEW u \in User, Settled(u), NEW s \in Session, Me(s) # u, OthersStay(s),
           secret'[u] = secret[u], account'[u] = account[u]
    PROVE  Settled(u)'
<1>1. Opens(u)'
  BY DEF Settled, Opens
<1>2. \A t \in Session : Me(t) = u => ~Renews(t)'
  BY DEF Settled, Renews, OthersStay
<1> QED
  BY <1>1, <1>2 DEF Settled, Me

\* A request beside which secrets and passwords stay.
LEMMA SettledQuiet ==
    ASSUME SessionAssumption, SessionInv, NEW u \in User, Settled(u), NEW s \in Session,
           UNCHANGED <<secret, account>>, OthersStay(s),
           Renewing(session'[s]) => Renewing(session[s]) \/ secret[Me(s)] = None
    PROVE  Settled(u)'
BY SettledKept DEF OthersStay, PasswordsKept

LEMMA SettledInSession ==
    ASSUME SessionAssumption, SessionInv, NEW u \in User, Settled(u),
           NEW s \in Session, Ask(s) \/ SessionStep(s) \/ AskAgain(s)
    PROVE  Settled(u)'
<1>0. Idle.pc = "idle" /\ ~Renewing(Idle)
  BY IdleKnown DEF Renewing, Unkeyed
<1>a. /\ secret \in [User -> Secret \cup {None}] /\ account \in [User -> Account]
      /\ Me(s) \in User /\ (Me(s) = u => ~Renewing(session[s]))
      /\ secret[u] # None /\ account[u].password = secret[u]
  BY RenewsAsRecord DEF SessionInv, GuacTyped, SessionAssumption, Me, Settled, Opens
<1>1. CASE Ask(s) \/ StartVM(s) \/ ProxyAuth(s) \/ GetInsideNetIPv4(s)
  <2>1. UNCHANGED <<secret, account>> /\ OthersStay(s) /\ ~Renewing(session'[s])
    BY <1>0, <1>1, OpeningSteps DEF guac, Renewing, Unkeyed
  <2> QED
    BY <2>1, SettledQuiet
<1>2. CASE ReadSecret(s) \/ GetUser(s)
  <2>1. /\ UNCHANGED <<secret, account>> /\ OthersStay(s)
        /\ Renewing(session'[s]) => Renewing(session[s]) \/ secret[Me(s)] = None
    BY <1>2, EnsureSteps DEF guac, Renewing
  <2> QED
    BY <2>1, SettledQuiet
<1>3. CASE DeleteUser(s)
  <2>1. /\ UNCHANGED secret /\ OthersStay(s) /\ session[s].pc = "drop"
        /\ account' = [account EXCEPT ![Me(s)] = NoAccount]
    BY <1>3, DropSteps
  <2>2. Me(s) # u
    BY <1>a, <2>1 DEF Renewing, Unkeyed
  <2> QED
    BY <1>a, <2>1, <2>2, SettledBeside
<1>4. CASE CreateUser(s)
  <2>1. /\ UNCHANGED secret /\ OthersStay(s)
        /\ Made(s, session'[s]) \/ (UNCHANGED account /\ session'[s] = Idle)
    BY <1>4, MintSteps
  <2>2. CASE UNCHANGED account /\ session'[s] = Idle
    BY <1>0, <2>1, <2>2, SettledQuiet
  <2>3. CASE Made(s, session'[s])
    <3>1. Me(s) # u
      BY <1>a, <2>3 DEF Made, NoAccount
    <3>2. account'[u] = account[u]
      BY <1>a, <2>3, <3>1 DEF Made
    <3> QED
      BY <2>1, <3>1, <3>2, SettledBeside
  <2> QED
    BY <2>1, <2>2, <2>3
<1>5. CASE SetGuacPassword(s)
  <2>1. /\ UNCHANGED account /\ OthersStay(s) /\ session[s].pc = "store"
        /\ secret' = [secret EXCEPT ![Me(s)] = session[s].secret]
    BY <1>5, StoreSteps DEF guac
  <2>2. Me(s) # u
    BY <1>a, <2>1 DEF Renewing
  <2> QED
    BY <1>a, <2>1, <2>2, SettledBeside
<1>6. CASE GetConnectionSummary(s)
  <2>1. UNCHANGED <<secret, account>> /\ OthersStay(s) /\ ~Renewing(session'[s])
    BY <1>6, LookSteps DEF guac, Renewing, Unkeyed
  <2> QED
    BY <2>1, SettledQuiet
<1>7. CASE Invalidate(s) \/ GetSessionUrl(s) \/ AskAgain(s) \/ CallFails(s)
  <2>1. UNCHANGED <<secret, account>> /\ OthersStay(s) /\ ~Renewing(session'[s])
    BY <1>0, <1>7, OwnSteps DEF guac, Renewing, Unkeyed
  <2> QED
    BY <2>1, SettledQuiet
<1>8. CASE \/ CreateConnection(s) \/ CreateSshConnection(s)
           \/ UpdateConnectionIp(s) \/ UpdateSshConnection(s)
  <2>1. UNCHANGED <<secret, account>> /\ OthersStay(s) /\ ~Renewing(session'[s])
    BY <1>8, ConnectionSteps DEF Renewing, Unkeyed
  <2> QED
    BY <2>1, SettledQuiet
<1>9. CASE GiveUserAccessToMachine(s)
  <2>1. /\ UNCHANGED secret /\ OthersStay(s)
        /\ session'[s] = Idle \/ session'[s].pc = "login"
        /\ \/ UNCHANGED account
           \/ /\ account[Me(s)] # NoAccount
              /\ \E id : account' = [account EXCEPT ![Me(s)].grants = @ \cup {id}]
    BY <1>9, GrantSteps
  <2>2. ~Renewing(session'[s])
    BY <1>0, <2>1 DEF Renewing, Unkeyed
  <2>3. PasswordsKept
    <3>1. CASE UNCHANGED account
      BY <3>1 DEF PasswordsKept
    <3>2. CASE /\ account[Me(s)] # NoAccount
               /\ \E id : account' = [account EXCEPT ![Me(s)].grants = @ \cup {id}]
      <4>1. \A w \in User : /\ account'[w].password = account[w].password
                            /\ w # Me(s) => account'[w] = account[w]
        BY <1>a, <3>2 DEF Account
      <4> QED
        BY <3>2, <4>1 DEF PasswordsKept
    <3> QED
      BY <2>1, <3>1, <3>2
  <2> QED
    BY <2>1, <2>2, <2>3, SettledKept DEF OthersStay
<1> QED
  BY <1>1, <1>2, <1>3, <1>4, <1>5, <1>6, <1>7, <1>8, <1>9 DEF SessionStep

LEMMA SettledStep ==
    ASSUME SessionAssumption, SessionInv, NEW u \in User, Settled(u), [Next]_vars
    PROVE  Settled(u)'
<1>1. ASSUME UNCHANGED <<secret, session>>, PasswordsKept PROVE Settled(u)'
  BY <1>1, SettledKept
<1>2. ASSUME UNCHANGED <<secret, guac, session>> PROVE Settled(u)'
  <2>1. PasswordsKept
    BY <1>2 DEF guac, PasswordsKept
  <2> QED
    BY <1>1, <1>2, <2>1
<1>3. ASSUME NEW i \in Instance,
             \/ StartInstance(i) \/ StopInstance(i) \/ RebootInstance(i)
             \/ MarkQuarantined(i) \/ EditTemplate(i) \/ ProxyEntryExpires(i)
             \/ AskRemoval(i) \/ RemovalStep(i)
      PROVE  Settled(u)'
  <2>1. CASE DeleteConnection(i)
    BY <1>1, <2>1, RemovalSteps
  <2>2. CASE RemovalSummary(i)
    BY <1>2, <2>2, ListingSteps
  <2>3. CASE ~DeleteConnection(i) /\ ~RemovalSummary(i)
    BY <1>2, <1>3, <2>3, AroundSteps DEF RemovalStep
  <2> QED
    BY <2>1, <2>2, <2>3
<1>4. ASSUME NEW s \in Session, Ask(s) \/ SessionStep(s) \/ AskAgain(s)
      PROVE  Settled(u)'
  BY <1>4, SettledInSession
<1>5. ASSUME NEW f \in Slot, ListingStep(f) PROVE Settled(u)'
  <2>1. CASE GuacamoleLists(f)
    BY <1>2, <2>1, ListingSteps
  <2>2. CASE ListConnections(f) \/ ListingFails(f)
    <3>1. /\ UNCHANGED <<secret, guac>>
          /\ \A s \in Session : session'[s] # session[s] =>
                session'[s].pc \in {"idle", "grant", "create", "update"}
      BY <2>2, DeliverySteps
    <3>2. PasswordsKept
      BY <3>1 DEF guac, PasswordsKept
    <3>3. \A s \in Session : Renewing(session'[s]) => Renewing(session[s])
      <4>1. \A s \in Session : session'[s] # session[s] => ~Renewing(session'[s])
        BY <3>1 DEF Renewing, Unkeyed
      <4> QED
        BY <4>1
    <3> QED
      BY <3>1, <3>2, <3>3, SettledKept
  <2> QED
    BY <1>5, <2>1, <2>2 DEF ListingStep
<1>6. CASE PollConnections \/ ListForPage
  BY <1>2, <1>6, ListingSteps
<1>7. CASE Crash
  <2>1. UNCHANGED <<secret, guac>> /\ \A s \in Session : session'[s] = Idle
    BY <1>7, CrashSteps
  <2>2. PasswordsKept /\ ~Renewing(Idle)
    BY <2>1, IdleKnown DEF guac, PasswordsKept, Renewing, Unkeyed
  <2> QED
    BY <2>1, <2>2, SettledKept
<1>8. CASE FetchAndUpdateStatuses \/ UNCHANGED vars
  BY <1>2, <1>8, QuietSteps
<1> QED
  BY <1>3, <1>4, <1>5, <1>6, <1>7, <1>8 DEF Next

-----------------------------------------------------------------------------
\* The state of the sessions, of the cache and of Guacamole keeps its types;
\* grants and cached identifiers are those of connections, and no two live
\* connections have one name.
THEOREM SessionTypesHold == Spec => []TypeOK
<1>1. Init => SessionInv
  BY SessionAssumption, SessionBegins
<1>2. SessionInv /\ [Next]_vars => SessionInv'
  BY SessionAssumption, StepMoves
<1>3. SessionInv => TypeOK
  BY TypesFollow
<1> QED
  BY <1>1, <1>2, <1>3, PTL DEF Spec

\* A session that is answered leads to a connection of its own instance that its
\* user was granted, unless that connection was deleted or the account was made
\* anew meanwhile: with any number of requests, removals, restarts and lost
\* answers between the look into the cache and the login.
THEOREM AnswersHold == Spec => AnswerOpensTheMachine
<1>1. Init => SessionInv /\ GrantInv
  <2> SUFFICES ASSUME Init PROVE SessionInv /\ GrantInv
    OBVIOUS
  <2>1. SessionInv /\ session = [s \in Session |-> Idle]
    BY SessionAssumption, SessionBegins
  <2>2. GrantInv
    BY <2>1, IdleKnown DEF GrantInv
  <2> QED
    BY <2>1, <2>2
<1>2. SessionInv /\ GrantInv /\ [Next]_vars => SessionInv' /\ GrantInv'
  BY SessionAssumption, StepMoves, GrantKept
<1>3. SessionInv /\ GrantInv /\ [Next]_vars =>
        [\A s \in Session :
            session[s].pc = "login" /\ session'[s].pc = "answered" =>
                /\ conns[session[s].id].name = Name(InstanceOf[s], session[s].kind)
                /\ conns[session[s].id].live => session[s].id \in account[Me(s)].grants]_vars
  <2> SUFFICES ASSUME SessionInv, GrantInv, [Next]_vars,
                      NEW s \in Session, session[s].pc = "login", session'[s].pc = "answered"
               PROVE  /\ conns[session[s].id].name = Name(InstanceOf[s], session[s].kind)
                      /\ conns[session[s].id].live => session[s].id \in account[Me(s)].grants
    OBVIOUS
  <2>1. account[Me(s)].password = session[s].secret
    BY SessionAssumption, StepMoves DEF Moves, LoginMoves
  <2>2. conns[session[s].id].live => session[s].id \in account[Me(s)].grants
    BY <2>1 DEF GrantInv
  <2>3. conns[session[s].id].name = Name(InstanceOf[s], session[s].kind)
    BY DEF SessionInv, KnownInv, Known
  <2> QED
    BY <2>2, <2>3
<1> QED
  BY <1>1, <1>2, <1>3, PTL DEF Spec, AnswerOpensTheMachine

\* A secret that opens its account, beside no request that found none, opens it
\* for good: of any number of tabs that saw the account gone before one of them
\* made it anew, none makes it once more, whatever is lost or crashes.
THEOREM OpeningSecretsStay == Spec => OpeningSecretStays
<1>1. Init => SessionInv
  BY SessionAssumption, SessionBegins
<1>2. SessionInv /\ [Next]_vars => SessionInv'
  BY SessionAssumption, StepMoves
<1>3. SessionInv /\ [Next]_vars => [\A u \in User : Settled(u) => Settled(u)']_vars
  BY SessionAssumption, SettledStep
<1> QED
  BY <1>1, <1>2, <1>3, PTL DEF Spec, OpeningSecretStays

=============================================================================
