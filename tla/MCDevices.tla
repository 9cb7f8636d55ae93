------------------------------ MODULE MCDevices ------------------------------
(***************************************************************************)
(* DeviceDiscovery for TLC: two devices and two addresses.                 *)
(***************************************************************************)
EXTENDS DeviceDiscovery

CONSTANTS m1, m2, i1, i2, u1, r1, r2

None == [k \in {} |-> NoField]
RuleOf(id) == [id |-> id, user |-> u1, action |-> "block"]

\* Nothing discovered yet, or one device that was entered with its owner.
MCBoot ==
    {[users |-> [u \in {u1} |-> 0], rules |-> <<RuleOf(r1), RuleOf(r2)>>, devices |-> d] :
        d \in {None, [id \in {NewId} |-> [mac |-> m1, ip |-> i1, user |-> u1]]}}
MCNets == {[m \in {m1, m2} |-> IF m = m1 THEN i1 ELSE ip] : ip \in {i2, Away}}
MCStatic == {None, [m \in {m2} |-> i2]}
=============================================================================
