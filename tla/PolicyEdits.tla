------------------------------ MODULE PolicyEdits ------------------------------
(***************************************************************************)
(* The changes the admin server's handlers make to the policy data         *)
(* (internal/adminserver/adminserver.go), each a function given to         *)
(* UpdateMutate: data has users (ID -> daily budget), devices (ID ->       *)
(* [mac, ip, user]) and the list rules of [id, user, action].  NoField is  *)
(* a field that the request leaves out, and a field that is not set.       *)
(* Names, notes, windows, vendors and timestamps are left out: they are    *)
(* copied like the fields that are modelled.                               *)
(***************************************************************************)
EXTENDS Integers, SequencesExt

NoField == ""

\* A function that fails leaves the data of the SQLite store alone (what it
\* leaves behind in the JSON store is JSONStore's subject).
Done(data) == [ok |-> TRUE, data |-> data]
Refused(data) == [ok |-> FALSE, data |-> data]

Set(f, key, value) == [k \in DOMAIN f \cup {key} |-> IF k = key THEN value ELSE f[k]]
Without(f, key) == [k \in DOMAIN f \ {key} |-> f[k]]
OrElse(new, old) == IF new # NoField THEN new ELSE old

Owned(data, user) == {id \in DOMAIN data.devices : data.devices[id].user = user}
Assign(data, ids, user) ==
    [data EXCEPT !.devices =
        [id \in DOMAIN @ |-> IF id \in ids THEN [@[id] EXCEPT !.user = user] ELSE @[id]]]

\* A user of that ID is replaced.
PostUser(data, user, budget, ids) ==
    IF ids \subseteq DOMAIN data.devices
    THEN Done(Assign([data EXCEPT !.users = Set(@, user, budget)], ids, user))
    ELSE Refused(data)

\* Mutant: the devices of the list are added to those the user has.
PutUserAdds(data, user, budget, ids) ==
    IF user \in DOMAIN data.users /\ ids \subseteq DOMAIN data.devices
    THEN Done(Assign(data, ids, user))
    ELSE Refused(data)

\* A PUT without a list of devices; a budget of zero means none was given.
PutUserFields(data, user, budget) ==
    IF user \in DOMAIN data.users
    THEN Done([data EXCEPT !.users[user] = IF budget > 0 THEN budget ELSE @])
    ELSE Refused(data)

\* A PUT with a list, which replaces the assignment.
PutUser(data, user, budget, ids) ==
    IF user \in DOMAIN data.users /\ ids \subseteq DOMAIN data.devices
    THEN LET cleared == Assign(data, Owned(data, user), NoField)
         IN  Done(Assign(PutUserFields(cleared, user, budget).data, ids, user))
    ELSE Refused(data)

\* Mutant: the devices keep their owner.
DeleteUserOnly(data, user) == Done([data EXCEPT !.users = Without(@, user)])

\* The user's rules, usage and session stay.
DeleteUser(data, user) ==
    Done(Assign([data EXCEPT !.users = Without(@, user)], Owned(data, user), NoField))

\* A record under that ID is replaced.
PostDevice(data, id, mac, ip, user) ==
    Done([data EXCEPT !.devices = Set(@, id, [mac |-> mac, ip |-> ip, user |-> user])])

\* The owner need not exist.
PutDevice(data, id, mac, ip, user) ==
    IF id \in DOMAIN data.devices
    THEN LET cur == data.devices[id]
         IN  Done([data EXCEPT !.devices[id] =
                     [mac |-> OrElse(mac, cur.mac), ip |-> OrElse(ip, cur.ip),
                      user |-> OrElse(user, cur.user)]])
    ELSE Refused(data)

DeleteDevice(data, id) == Done([data EXCEPT !.devices = Without(@, id)])

\* The table of the SQLite store has the ID as its primary key; the JSON store
\* takes a second rule of the same ID.
PostRule(data, rule, sqlite) ==
    IF sqlite /\ \E i \in DOMAIN data.rules : data.rules[i].id = rule.id THEN Refused(data)
    ELSE Done([data EXCEPT !.rules = Append(@, rule)])

DeleteRule(data, id) ==
    Done([data EXCEPT !.rules = SelectSeq(@, LAMBDA r : r.id # id)])

PutRule(data, id, user, action) ==
    LET i == SelectInSeq(data.rules, LAMBDA r : r.id = id)
    IN  IF i = 0 THEN Refused(data)
        ELSE Done([data EXCEPT !.rules[i].user = OrElse(user, @),
                               !.rules[i].action = OrElse(action, @)])

\* PopulateUserDeviceRefs: what GET /policy shows as a user's devices.
DeviceRefs(data) == [user \in DOMAIN data.users |-> Owned(data, user)]
=============================================================================
