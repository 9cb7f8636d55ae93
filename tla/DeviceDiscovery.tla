---------------------------- MODULE DeviceDiscovery ----------------------------
(***************************************************************************)
(* Device discovery (internal/device/discovery): managers that ask the ARP *)
(* table, the router and the list of static devices and merge what they    *)
(* find into the policy store, by MAC address, and into the device cache   *)
(* (internal/device/devicecache.go).  Meanwhile devices come, go and       *)
(* change addresses, administrators edit the policy, and SIGHUP starts a   *)
(* new manager while a refresh of the old one may still be under way.      *)
(*                                                                         *)
(* A record is a pair of a MAC and an IP address; names, vendors and       *)
(* times are left out.  Static devices have a MAC address.                 *)
(***************************************************************************)
EXTENDS PolicyEdits, FiniteSets

CONSTANTS
    MACs, IPs, Users,
    ZeroMAC,                    \* what the ARP table shows for no answer
    Asked,                      \* the addresses the server itself tries to reach
    NewId, NewRule,             \* the IDs of a device and a rule that are made up
    Boot, Nets,                 \* the policy data and the network at the start
    StaticLists,                \* the static devices a reload may find
    MaxEvents, MaxHups          \* bounds: moves, edits and reloads, and reloads alone

Away == "away"

\* There are finitely many addresses; an ID that the server makes up is no MAC
\* address, and no ID is the empty string.
ASSUME DiscoveryAssumption ==
    /\ MaxEvents \in Nat /\ MaxHups \in Nat
    /\ IsFiniteSet(MACs) /\ IsFiniteSet(Asked) /\ Asked \subseteq IPs
    /\ ZeroMAC \notin MACs /\ NewId \notin MACs \cup {ZeroMAC}
    /\ NoField \notin Users \cup MACs \cup {ZeroMAC}
ASSUME BootAssumption ==
    \A d \in Boot :
        /\ DOMAIN d = {"users", "devices", "rules"} /\ DOMAIN d.users \subseteq Users
        /\ \A id \in DOMAIN d.devices : DOMAIN d.devices[id] = {"mac", "ip", "user"}
ASSUME NetworkAssumption ==
    /\ Nets \subseteq [MACs -> IPs \cup {Away}]
    /\ \A list \in StaticLists : DOMAIN list \subseteq MACs /\ list \in [DOMAIN list -> IPs]

VARIABLES
    data,       \* the policy data
    net,        \* MAC -> its address, Away if it is not on the network
    cache,      \* the device cache: [ofMAC, ofIP]
    mgr,        \* generation of the manager -> its state
    gen,        \* the current generation
    events,     \* how many moves, edits and reloads there were
    strays,     \* devices that were given to a user who did not exist
    moved       \* a record was given another MAC than the one it is under

discoveryVars == <<data, net, cache, mgr, gen, events, strays, moved>>
admin == <<strays, moved>>

Gens == 0..MaxHups
Priority == [router |-> 3, static |-> 2, arp |-> 1]
Found(source, mac, ip) == [source |-> source, mac |-> mac, ip |-> ip]
Pairs(recs) == {<<r.mac, r.ip>> : r \in recs}
Present == {m \in MACs : net[m] # Away}
Attached(source) == {Found(source, m, net[m]) : m \in Present}
\* The devices whose user does not exist.
Dangling(d) ==
    {id \in DOMAIN d.devices : d.devices[id].user \notin DOMAIN d.users \cup {NoField}}
Static(list) == {Found("static", m, list[m]) : m \in DOMAIN list}

NoStatic == [m \in {} |-> NoField]
Manager(list) == [pc |-> "idle", cancelled |-> FALSE, static |-> list, recs |-> {}]
NoManager == [pc |-> "none"]

DiscoveryInit ==
    /\ data \in Boot
    /\ net \in Nets
    /\ mgr = [g \in Gens |-> IF g = 0 THEN Manager(NoStatic) ELSE NoManager]
    /\ cache = [ofMAC |-> NoStatic, ofIP |-> NoStatic]
    /\ gen = 0
    /\ events = 0
    /\ strays = Dangling(data)
    /\ moved = \E id \in DOMAIN data.devices :
                  id \in MACs \cup {ZeroMAC} /\ data.devices[id].mac \notin {id, NoField}

Event == events < MaxEvents /\ events' = events + 1

\* A device joins, leaves or gets another address.
Move(m, ip) ==
    /\ Event
    /\ ip = Away \/ \A n \in Present : net[n] # ip
    /\ net[m] # ip
    /\ net' = [net EXCEPT ![m] = ip]
    /\ UNCHANGED <<data, cache, mgr, gen, admin>>

-----------------------------------------------------------------------------
\* The ARP table shows the devices of the network, and the zero MAC beside an
\* address that was asked for and that nobody has.
DiscoverARP(g) ==
    /\ mgr[g].pc = "idle"
    /\ mgr' = [mgr EXCEPT ![g].pc = "rest", ![g].recs =
                 Attached("arp") \cup {Found("arp", ZeroMAC, ip) :
                                          ip \in Asked \ {net[m] : m \in Present}}]
    /\ UNCHANGED <<data, net, cache, gen, events, admin>>

\* The router answers or fails; the static devices are those of the
\* configuration the manager was made with.
DiscoverRest(g) ==
    /\ mgr[g].pc = "rest"
    /\ \E recs \in {Static(mgr[g].static), Static(mgr[g].static) \cup Attached("router")} :
         mgr' = [mgr EXCEPT ![g].pc = IF mgr[g].recs \cup recs = {} THEN "idle" ELSE "merge",
                            ![g].recs = @ \cup recs]
    /\ UNCHANGED <<data, net, cache, gen, events, admin>>

\* Of the records of one MAC one of the best source: the first, and the
\* sources list them in any order.
Collapses(recs) ==
    LET best == {r \in recs :
                   \A s \in recs : s.mac = r.mac => Priority[s.source] <= Priority[r.source]}
    IN  {S \in SUBSET best : \A r \in best : Cardinality({s \in S : s.mac = r.mac}) = 1}

\* Mutant: the record is always the one under the MAC itself.
IdsForKey(devices, mac) == {mac}

\* existingByMAC keeps any of several records with one MAC; a MAC that has
\* none gets a record under the MAC itself.
IdsFor(devices, mac) ==
    LET known == {id \in DOMAIN devices : devices[id].mac = mac}
    IN  IF known # {} THEN known ELSE {mac}

\* Mutant: the MAC of a record that has one is kept.
MergedKeepsMAC(devices, id, rec) ==
    [mac |-> IF id \in DOMAIN devices THEN OrElse(devices[id].mac, rec.mac) ELSE rec.mac,
     ip |-> rec.ip,
     user |-> IF id \in DOMAIN devices THEN devices[id].user ELSE NoField]

Merged(devices, id, rec) ==
    [mac |-> rec.mac, ip |-> rec.ip,
     user |-> IF id \in DOMAIN devices THEN devices[id].user ELSE NoField]

\* upsertLocked: an address is never forgotten, only taken over.
Upsert(c, rec) ==
    [ofMAC |-> Set(c.ofMAC, rec.mac, rec.ip), ofIP |-> Set(c.ofIP, rec.ip, rec.mac)]
UpsertAll(c, order) == FoldLeft(Upsert, c, order)

\* Mutant: only devices that have a record are followed.
MergeIntoKnown(devices, idOf, order) ==
    LET writes(id) == {k \in DOMAIN order : idOf[order[k].mac] = id}
    IN  [id \in DOMAIN devices |->
           IF writes(id) # {} THEN Merged(devices, id, order[Max(writes(id))]) ELSE devices[id]]

\* merge goes through the records in any order; idOf is fixed before.  Of the
\* records that are written under one ID the last stays; each keeps the user.
MergeInto(devices, idOf, order) ==
    LET writes(id) == {k \in DOMAIN order : idOf[order[k].mac] = id}
    IN  [id \in DOMAIN devices \cup {idOf[order[k].mac] : k \in DOMAIN order} |->
           IF writes(id) # {} THEN Merged(devices, id, order[Max(writes(id))]) ELSE devices[id]]

\* The cache is updated inside the function: it keeps the records even when
\* the store does not save them.  Then the policy runtime is reloaded.
Merge(g, saved) ==
    /\ mgr[g].pc = "merge"
    /\ LET macs == {r.mac : r \in mgr[g].recs}
           ids == UNION {IdsFor(data.devices, m) : m \in macs}
       IN  \E recs \in Collapses(mgr[g].recs), idOf \in [macs -> ids] :
           \E order \in SetToSeqs(recs) :
             /\ \A m \in macs : idOf[m] \in IdsFor(data.devices, m)
             /\ data' = IF saved
                        THEN [data EXCEPT !.devices = MergeInto(@, idOf, order)] ELSE data
             /\ cache' = UpsertAll(cache, order)
    /\ mgr' = [mgr EXCEPT ![g].pc = "idle", ![g].recs = {}]
    /\ UNCHANGED <<net, gen, events, admin>>

\* A cancelled manager stops where it waits for the next tick; when the tick
\* is due as well it may refresh once more.
Stop(g) ==
    /\ mgr[g].pc = "idle" /\ mgr[g].cancelled
    /\ mgr' = [mgr EXCEPT ![g] = NoManager]
    /\ UNCHANGED <<data, net, cache, gen, events, admin>>

\* startDiscoveryManager, on SIGHUP: the cache is handed on.
StartDiscoveryManager(list) ==
    /\ Event
    /\ gen < MaxHups
    /\ gen' = gen + 1
    /\ mgr' = [mgr EXCEPT ![gen].cancelled = TRUE, ![gen + 1] = Manager(list)]
    /\ UNCHANGED <<data, net, cache, admin>>

-----------------------------------------------------------------------------
\* A request of an administrator that is not refused.  A PUT of a device
\* gives one field, a POST no address, and a list one device at most.  The ID
\* in a POST is made up, or the administrator's: here a MAC or a known ID.
Edit(result) ==
    /\ Event
    /\ result.ok
    /\ data' = result.data
    /\ UNCHANGED <<net, cache, mgr, gen>>

EditUsers(user, ids) ==
    /\ \/ Edit(PostUser(data, user, 0, ids)) \/ Edit(PutUser(data, user, 1, ids))
       \/ ids = {} /\ (Edit(PutUserFields(data, user, 1)) \/ Edit(DeleteUser(data, user)))
    /\ UNCHANGED admin

EditDevice(id, mac, ip, user) ==
    /\ \/ ip = NoField /\ Edit(PostDevice(data, id, mac, ip, user))
       \/ /\ Cardinality({x \in {mac, ip, user} : x # NoField}) = 1
          /\ Edit(PutDevice(data, id, mac, ip, user))
    /\ strays' = IF id \in Dangling(data') THEN strays \cup {id} ELSE strays \ {id}
    /\ moved' = (moved \/ (id \in MACs \cup {ZeroMAC} /\ mac \notin {id, NoField}))

RemoveDevice(id) ==
    /\ id \in DOMAIN data.devices
    /\ Edit(DeleteDevice(data, id))
    /\ UNCHANGED admin

EditRules(id) ==
    /\ \/ \E user \in Users, sqlite \in BOOLEAN :
            Edit(PostRule(data, [id |-> NewRule, user |-> user, action |-> "block"], sqlite))
       \/ Edit(DeleteRule(data, id))
       \/ Edit(PutRule(data, id, NoField, "allow"))
    /\ UNCHANGED admin

AdminStep ==
    \/ \E user \in Users, ids \in {{}} \cup {{id} : id \in DOMAIN data.devices} :
          EditUsers(user, ids)
    \/ \E id \in DOMAIN data.devices \cup MACs \cup {NewId}, mac \in MACs \cup {NoField},
          ip \in IPs \cup {NoField}, user \in Users \cup {NoField} : EditDevice(id, mac, ip, user)
    \/ \E id \in DOMAIN data.devices : RemoveDevice(id)
    \/ \E i \in DOMAIN data.rules : EditRules(data.rules[i].id)

ManagerStep(g) == DiscoverARP(g) \/ DiscoverRest(g) \/ Stop(g)

DiscoveryNext ==
    \/ \E m \in MACs, ip \in IPs \cup {Away} : Move(m, ip)
    \/ \E g \in Gens : ManagerStep(g) \/ \E saved \in BOOLEAN : Merge(g, saved)
    \/ \E list \in StaticLists : StartDiscoveryManager(list)
    \/ AdminStep

\* The ticker wakes a manager again and again; the scheduler runs the step it
\* is at; select takes ctx.Done when it is ready often enough; and the store
\* does not fail to save for ever.
Fairness ==
    \A g \in Gens :
        /\ WF_discoveryVars(DiscoverARP(g) \/ DiscoverRest(g))
        /\ SF_discoveryVars(Stop(g)) /\ SF_discoveryVars(Merge(g, TRUE))

DiscoverySpec == DiscoveryInit /\ [][DiscoveryNext]_discoveryVars /\ Fairness

-----------------------------------------------------------------------------
\* Discovery never couples the MAC of one device with the address of another:
\* a pair it writes was reported by one source, although sources disagree and
\* records are found by MAC, by ID or not at all.
PairsWereReported ==
    [][mgr' # mgr =>
         \A id \in DOMAIN data'.devices :
            \/ id \in DOMAIN data.devices /\ data'.devices[id] = data.devices[id]
            \/ \E g \in Gens : mgr[g].pc = "merge" /\
                  <<data'.devices[id].mac, data'.devices[id].ip>> \in Pairs(mgr[g].recs)]_discoveryVars

OwnersOf(d, m) ==
    [id \in {i \in DOMAIN d.devices : d.devices[i].mac = m} |-> d.devices[id].user]

\* Discovery never takes a device away from its user or gives it to another,
\* and never makes a second record for it, whichever manager merges; unless
\* an administrator put another device's MAC into the record under a MAC.
DiscoveryKeepsOwners ==
    [][mgr' # mgr /\ ~moved =>
         \A m \in MACs :
            DOMAIN OwnersOf(data, m) # {} => OwnersOf(data', m) = OwnersOf(data, m)]_discoveryVars

\* A device belongs to a user who does not exist only when it was given to
\* one: deleting a user releases every device, those that discovery is
\* merging meanwhile too.
DanglingOnlyIfGiven == Dangling(data) \subseteq strays

\* Whatever the assignment was before, the list in a PUT of a user is what
\* GET /policy shows afterwards, and every other device keeps its owner or
\* becomes free.
ListIsTheAssignment ==
    \A user \in DOMAIN data.users, ids \in SUBSET DOMAIN data.devices :
        LET d == PutUser(data, user, 0, ids).data
        IN  /\ DeviceRefs(d)[user] = ids
            /\ \A other \in DOMAIN data.users \ {user} :
                 DeviceRefs(d)[other] = DeviceRefs(data)[other] \ ids

\* The device m is where the store and the cache say it is.
Known(m) ==
    /\ \E id \in DOMAIN data.devices :
         data.devices[id].mac = m /\ data.devices[id].ip = net[m]
    /\ m \in DOMAIN cache.ofMAC /\ cache.ofMAC[m] = net[m]
    /\ net[m] \in DOMAIN cache.ofIP /\ cache.ofIP[net[m]] = m

\* Once devices, administrators and configuration are quiet, store and cache
\* find every device that is present at its address, although the cancelled
\* manager may have merged after the new one.  A device with a static entry,
\* or at the address of one, is where the entry says.
Converges ==
    <>[](~moved =>
           \A m \in Present :
             LET list == mgr[gen].static
             IN  m \in DOMAIN list \/ net[m] \in {list[n] : n \in DOMAIN list} \/ Known(m))
=============================================================================
