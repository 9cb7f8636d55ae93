-------------------------- MODULE AdminServerProofs --------------------------
(***************************************************************************)
(* Proofs about the admin server, for any clients, passwords, lifetimes    *)
(* and bounds.  Each invariant speaks of one moment, of the store or of a  *)
(* request that is being served; what keeps it true is what holds of the   *)
(* requests on their way there (Requests, PastTheGate) and of the tokens   *)
(* and sessions they show (Credentials).                                   *)
(***************************************************************************)
EXTENDS AdminServer, TLAPS

\* A request that passed the gate asks for something, with a login that was
\* issued at some time.
Requests ==
    \A c \in Clients : pc[c] \in {"check", "serve"} =>
        ask[c] \in Asks /\ ask[c].login <= logins

\* Who wants to edit passed the gate after the password was changed, and
\* nothing but a restart, which ends all requests, brings first boot back.
PastTheGate ==
    \A c \in Clients :
        pc[c] \in {"check", "serve"} /\ ask[c].want = "edit" => ~data.admin.firstBoot

\* No edit was made while first boot was on, and as long as the store has
\* its first-boot flag, that flag is on while the factory password is valid.
NoEditYet == \A d \in {data, saved} : d.admin.firstBoot => d.edits = 0
FlagKept ==
    ~flagLost => \A d \in {data, saved} : IsDefaultAdmin(d.admin) => d.admin.firstBoot

\* What a change of the password that was answered with ok wrote, in memory
\* and on disk.
Changed(password) ==
    [legacy |-> FALSE, password |-> password, secret |-> NoSecret, firstBoot |-> FALSE]
AckedIsStored == acked # "unknown" => data.admin = Changed(acked) /\ saved.admin = Changed(acked)

\* A token or session lives no longer than its lifetime after the login; a
\* login that was not issued yet has none, one that was logged out has no
\* session.
Credentials ==
    /\ \A n \in Logins :
         /\ tokens[n] # Absent => issued[n] # Absent /\ tokens[n] <= issued[n] + TokenTTL
         /\ sessions[n] # Absent => issued[n] # Absent /\ sessions[n] <= issued[n] + SessionTTL
    /\ \A n \in loggedOut : n <= logins /\ sessions[n] = Absent

\* A late request shows the session of a login that was logged out.
LateMeansLoggedOut ==
    \A c \in Clients : pc[c] = "check" /\ ask[c].late =>
        ask[c].by # "bearer" /\ ask[c].login \in loggedOut

Inv ==
    /\ TypeOK /\ Requests
    /\ NoEditYet /\ FlagKept /\ PastTheGate
    /\ AckedIsStored
    /\ Credentials /\ ServedAfterLogin
    /\ LateMeansLoggedOut /\ LoggedOutStaysOut

LEMMA Constants ==
    /\ TokenTTL \in Nat /\ SessionTTL \in Nat /\ MaxTime \in Nat /\ MaxLogins \in Nat
    /\ MaxEdits \in Nat /\ MaxRestarts \in Nat
  BY AdminAssumption

LEMMA InitInv ==
    Init => Inv
  <1> SUFFICES ASSUME Init PROVE Inv
    OBVIOUS
  <1>1. PICK admin \in {Factory, [Factory EXCEPT !.secret = NoSecret], Upgraded} \cup
                       [legacy : {TRUE}, password : Passwords, secret : {NoSecret},
                        firstBoot : {FALSE}] :
          /\ data = [admin |-> admin, edits |-> 0]
          /\ flagLost = (data.admin = Upgraded)
    BY DEF Init
  <1>2. admin \in Admins
    <2>1. /\ Factory \in Admins /\ [Factory EXCEPT !.secret = NoSecret] \in Admins
          /\ Upgraded \in Admins
      BY DEF Factory, Upgraded, NoSecret, Admins
    <2> QED
      BY <2>1 DEF Admins
  <1>3. data \in [admin : Admins, edits : 0..MaxEdits] /\ data.edits = 0
    BY <1>1, <1>2, Constants
  <1>4. TypeOK
    <2>1. now \in 0..MaxTime /\ restarts \in 0..MaxRestarts /\ logins \in 0..MaxLogins
      BY Constants DEF Init
    <2>2. /\ tokens \in [Logins -> Int] /\ sessions \in [Logins -> Int]
          /\ issued \in [Logins -> {Absent} \cup 0..MaxTime]
      BY DEF Init, Absent
    <2>3. flagLost \in BOOLEAN
      BY <1>1
    <2> QED
      BY <1>3, <2>1, <2>2, <2>3 DEF Init, TypeOK
  <1>5. FlagKept
    <2>1. ~flagLost /\ IsDefaultAdmin(admin) => admin.firstBoot
      <3>1. data.admin = admin
        BY <1>1
      <3>2. CASE admin \in {Factory, [Factory EXCEPT !.secret = NoSecret]}
        BY <3>2 DEF Factory
      <3>3. CASE admin = Upgraded
        BY <1>1, <3>1, <3>3
      <3>4. CASE admin \in [legacy : {TRUE}, password : Passwords, secret : {NoSecret},
                            firstBoot : {FALSE}]
        BY <3>4, AdminAssumption DEF IsDefaultAdmin
      <3> QED
        BY <1>1, <3>2, <3>3, <3>4
    <2> QED
      BY <1>1, <2>1 DEF Init, FlagKept
  <1> QED
    BY <1>3, <1>4, <1>5
    DEF Init, Inv, Requests, NoEditYet, PastTheGate, AckedIsStored, Credentials,
        ServedAfterLogin, LateMeansLoggedOut, LoggedOutStaysOut, Logins

-----------------------------------------------------------------------------
\* What the steps of a client change, value by value.

\* Every other client's request stays where it is.
Others(c) == \A d \in Clients : d # c => pc'[d] = pc[d] /\ ask'[d] = ask[d]

LEMMA ReplyStep ==
    ASSUME TypeOK, NEW c \in Clients, Reply(c)
    PROVE  /\ pc'[c] = "idle" /\ Others(c)
           /\ pc' \in [Clients -> {"idle", "issue", "check", "serve"}]
           /\ ask' \in [Clients -> Asks \cup {NoAsk}]
  BY DEF TypeOK, Reply, Others

LEMMA GateStep ==
    ASSUME TypeOK, NEW c \in Clients, NEW want \in Wants, NEW by \in Rights, NEW n \in 1..logins,
           Gate(c, want, by, n)
    PROVE  /\ pc'[c] = "check" /\ Others(c)
           /\ ask'[c] \in Asks
           /\ ask'[c].want = want /\ ask'[c].by = by /\ ask'[c].login = n
           /\ ask'[c].late <=> by # "bearer" /\ n \in loggedOut
           /\ pc' \in [Clients -> {"idle", "issue", "check", "serve"}]
           /\ ask' \in [Clients -> Asks \cup {NoAsk}]
  <1> DEFINE late == by # "bearer" /\ n \in loggedOut
             new == [want |-> want, by |-> by, login |-> n, late |-> late, at |-> 0]
  <1>1. n \in Logins
    BY Constants DEF TypeOK, Logins
  <1>2. ask' = [ask EXCEPT ![c] = new]
    BY DEF Gate
  <1>3. late \in BOOLEAN
    OBVIOUS
  <1>4. late <=> by # "bearer" /\ n \in loggedOut
    OBVIOUS
  <1> HIDE DEF late
  <1>5. /\ new \in Asks
        /\ new.want = want /\ new.by = by /\ new.login = n /\ new.late = late
    BY <1>1, <1>3, Constants DEF Asks
  <1> HIDE DEF new
  <1>6. /\ pc'[c] = "check" /\ ask'[c] = new /\ Others(c)
        /\ pc' \in [Clients -> {"idle", "issue", "check", "serve"}]
        /\ ask' \in [Clients -> Asks \cup {NoAsk}]
    BY <1>2, <1>5 DEF TypeOK, Gate, Others
  <1> QED
    BY <1>4, <1>5, <1>6

\* check serves a request only while its token or session is alive, and
\* deletes nothing but what has expired.
LEMMA CheckStep ==
    ASSUME TypeOK, Requests, NEW c \in Clients, Check(c)
    PROVE  /\ ask[c] \in Asks /\ ask[c].login \in Logins
           /\ Others(c)
           /\ pc' \in [Clients -> {"idle", "issue", "check", "serve"}]
           /\ ask' \in [Clients -> Asks \cup {NoAsk}]
           /\ pc'[c] \in {"idle", "serve"}
           /\ pc'[c] = "serve" =>
                /\ ask'[c] \in Asks /\ ask'[c].at = now
                /\ ask'[c].want = ask[c].want /\ ask'[c].by = ask[c].by
                /\ ask'[c].login = ask[c].login /\ ask'[c].late = ask[c].late
                /\ IF ask[c].by = "bearer" THEN ValidToken(ask[c].login)
                   ELSE SessionFromRequest(ask[c].login)
           /\ tokens' \in [Logins -> Int] /\ sessions' \in [Logins -> Int]
           /\ \A n \in Logins : /\ tokens'[n] \in {tokens[n], Absent}
                                /\ sessions'[n] \in {sessions[n], Absent}
  <1> DEFINE n == ask[c].login
             ok == IF ask[c].by = "bearer" THEN ValidToken(n)
                   ELSE SessionFromRequest(n) /\ (ask[c].want = "read" \/ ask[c].by = "cookie+csrf")
             new == [ask[c] EXCEPT !.at = now]
  <1>1. ask[c] \in Asks /\ n \in Logins
    BY DEF Requests, Check, Asks
  <1>2. /\ new \in Asks /\ new.at = now
        /\ new.want = ask[c].want /\ new.by = ask[c].by
        /\ new.login = ask[c].login /\ new.late = ask[c].late
    BY <1>1 DEF TypeOK, Asks
  <1>3. /\ pc' = [pc EXCEPT ![c] = IF ok THEN "serve" ELSE "idle"]
        /\ ask' = [ask EXCEPT ![c] = IF ok THEN new ELSE NoAsk]
        /\ \/ tokens' = tokens
           \/ tokens' = [tokens EXCEPT ![n] = Absent]
        /\ \/ sessions' = sessions
           \/ sessions' = [sessions EXCEPT ![n] = Absent]
    BY DEF Check, TypeOK
  <1>4. ok => IF ask[c].by = "bearer" THEN ValidToken(n) ELSE SessionFromRequest(n)
    OBVIOUS
  <1>5. /\ tokens' \in [Logins -> Int] /\ sessions' \in [Logins -> Int]
        /\ \A m \in Logins : /\ tokens'[m] \in {tokens[m], Absent}
                             /\ sessions'[m] \in {sessions[m], Absent}
    BY <1>1, <1>3 DEF TypeOK, Absent
  <1> HIDE DEF n, ok, new
  <1>6. /\ Others(c)
        /\ pc' \in [Clients -> {"idle", "issue", "check", "serve"}]
        /\ ask' \in [Clients -> Asks \cup {NoAsk}]
        /\ pc'[c] \in {"idle", "serve"}
        /\ pc'[c] = "serve" => ok /\ ask'[c] = new
    BY <1>2, <1>3 DEF TypeOK, Others
  <1> QED
    BY <1>1, <1>2, <1>4, <1>5, <1>6 DEF n

LEMMA IssueStep ==
    ASSUME TypeOK, NEW c \in Clients, IssueLogin(c)
    PROVE  LET n == logins + 1
           IN  /\ n \in Logins /\ logins' = n
               /\ pc'[c] = "idle" /\ Others(c)
               /\ pc' \in [Clients -> {"idle", "issue", "check", "serve"}]
               /\ tokens'[n] = now + TokenTTL /\ sessions'[n] = now + SessionTTL
               /\ issued'[n] = now
               /\ \A m \in Logins : m # n =>
                    tokens'[m] = tokens[m] /\ sessions'[m] = sessions[m] /\ issued'[m] = issued[m]
               /\ tokens' \in [Logins -> Int] /\ sessions' \in [Logins -> Int]
               /\ issued' \in [Logins -> {Absent} \cup 0..MaxTime]
  <1>1. logins + 1 \in Logins
    BY Constants DEF IssueLogin, TypeOK, Logins
  <1>2. now \in Int /\ now + TokenTTL \in Int /\ now + SessionTTL \in Int
    BY Constants DEF TypeOK
  <1> QED
    BY <1>1, <1>2 DEF IssueLogin, TypeOK, Others

-----------------------------------------------------------------------------
\* The types are preserved; requests past the gate keep what they ask for.
LEMMA TypePreserved ==
    ASSUME TypeOK, Requests, [Next]_vars PROVE TypeOK' /\ Requests'
  <1>1. CASE Tick
    BY <1>1, Constants DEF Tick, TypeOK, Requests, store, process, access
  <1>2. CASE MaybeLogInitialSecret
    <2>1. [data EXCEPT !.admin.secret = "secret"] \in [admin : Admins, edits : 0..MaxEdits]
      BY DEF TypeOK, Admins
    <2>2. data' \in [admin : Admins, edits : 0..MaxEdits] /\ saved' \in [admin : Admins, edits : 0..MaxEdits]
      BY <1>2, <2>1 DEF MaybeLogInitialSecret, TypeOK
    <2> QED
      BY <1>2, <2>2 DEF MaybeLogInitialSecret, TypeOK, Requests, access
  <1>3. ASSUME NEW reset \in BOOLEAN, Restart(reset) PROVE TypeOK' /\ Requests'
    <2>1. [admin |-> Factory, edits |-> 0] \in [admin : Admins, edits : 0..MaxEdits]
      BY Constants DEF Factory, Admins, NoSecret
    <2>2. data' \in [admin : Admins, edits : 0..MaxEdits] /\ saved' \in [admin : Admins, edits : 0..MaxEdits]
      BY <1>3, <2>1 DEF Restart, TypeOK
    <2>3. restarts' \in 0..MaxRestarts
      BY <1>3, Constants DEF Restart, TypeOK
    <2>4. acked' \in Passwords \cup {"unknown"}
      BY <1>3 DEF Restart, TypeOK
    <2>5. Absent \in Int
      BY DEF Absent
    <2> QED
      BY <1>3, <2>2, <2>3, <2>4, <2>5 DEF Restart, TypeOK, Requests
  <1>4. ASSUME NEW c \in Clients, NEW password, Login(c, password) PROVE TypeOK' /\ Requests'
    BY <1>4 DEF Login, TypeOK, Requests, store, process, access
  <1>5. ASSUME NEW c \in Clients, IssueLogin(c) PROVE TypeOK' /\ Requests'
    <2>1. logins' \in 0..MaxLogins
      BY <1>5, IssueStep, Constants DEF Logins
    <2>2. TypeOK'
      BY <1>5, <2>1, IssueStep DEF IssueLogin, TypeOK, store, process
    <2>3. \A d \in Clients : ask[d] \in Asks /\ ask[d].login <= logins => ask[d].login <= logins'
      BY <1>5, Constants DEF IssueLogin, TypeOK, Asks, Logins
    <2> QED
      BY <1>5, <2>2, <2>3, IssueStep DEF IssueLogin, Requests, Others
  <1>6. ASSUME NEW c \in Clients, NEW n \in 1..logins, Logout(c, n) PROVE TypeOK' /\ Requests'
    <2>1. n \in Logins /\ Absent \in Int
      BY Constants DEF TypeOK, Logins, Absent
    <2> QED
      BY <1>6, <2>1 DEF Logout, TypeOK, Requests, store, process
  <1>7. ASSUME NEW c \in Clients, NEW want \in Wants, NEW by \in Rights, NEW n \in 1..logins,
               Gate(c, want, by, n)
        PROVE  TypeOK' /\ Requests'
    <2>1. TypeOK'
      BY <1>7, GateStep DEF Gate, TypeOK, store, process, access
    <2>2. n <= logins
      BY DEF TypeOK
    <2>3. ask'[c] \in Asks /\ ask'[c].login = n /\ Others(c)
      BY <1>7, GateStep
    <2> QED
      BY <1>7, <2>1, <2>2, <2>3 DEF Gate, Requests, Others, access
  <1>8. ASSUME NEW c \in Clients, Check(c) PROVE TypeOK' /\ Requests'
    <2>1. TypeOK'
      BY <1>8, CheckStep DEF Check, TypeOK, store, process
    <2>2. pc'[c] = "serve" => ask'[c] \in Asks /\ ask'[c].login = ask[c].login
      BY <1>8, CheckStep
    <2>3. ask[c].login <= logins
      BY <1>8 DEF Check, Requests
    <2> QED
      BY <1>8, <2>1, <2>2, <2>3, CheckStep DEF Check, Requests, Others
  <1>9. ASSUME NEW c \in Clients, Read(c) \/ SetPasswordFails(c) \/ EditRefused(c) PROVE TypeOK' /\ Requests'
    BY <1>9, ReplyStep DEF Read, SetPasswordFails, EditRefused, TypeOK, Requests, Others, store, process, access
  <1>10. ASSUME NEW c \in Clients, NEW password \in Passwords, SetPassword(c, password)
         PROVE  TypeOK' /\ Requests'
    <2>1. [legacy |-> FALSE, password |-> password, secret |-> NoSecret, firstBoot |-> FALSE]
            \in Admins
      BY DEF Admins
    <2>2. data' \in [admin : Admins, edits : 0..MaxEdits]
      BY <1>10, <2>1 DEF SetPassword, TypeOK
    <2> QED
      BY <1>10, <2>2, ReplyStep DEF SetPassword, TypeOK, Requests, Others, process, access
  <1>11. ASSUME NEW c \in Clients, EditPolicy(c) PROVE TypeOK' /\ Requests'
    <2>1. data' \in [admin : Admins, edits : 0..MaxEdits]
      BY <1>11, Constants DEF EditPolicy, TypeOK
    <2> QED
      BY <1>11, <2>1, ReplyStep DEF EditPolicy, TypeOK, Requests, Others, process, access
  <1>12. CASE UNCHANGED vars
    BY <1>12 DEF vars, TypeOK, Requests
  <1> QED
    BY <1>1, <1>2, <1>3, <1>4, <1>5, <1>6, <1>7, <1>8, <1>9, <1>10, <1>11, <1>12
    DEF Next, ClientStep

\* No step brings first boot back while requests are under way, edits the
\* policy before the password was changed, or takes back a change that was
\* answered with ok.
LEMMA StorePreserved ==
    ASSUME Inv, [Next]_vars PROVE (NoEditYet /\ FlagKept /\ PastTheGate /\ AckedIsStored)'
  <1> DEFINE Goal == NoEditYet /\ FlagKept /\ PastTheGate /\ AckedIsStored
  <1>0. TypeOK /\ Requests /\ NoEditYet /\ FlagKept /\ PastTheGate /\ AckedIsStored
    BY DEF Inv
  <1> USE DEF NoEditYet, FlagKept, IsDefaultAdmin, PastTheGate, AckedIsStored
  <1>1. CASE Tick
    BY <1>0, <1>1 DEF Tick, store, process, access
  <1>2. CASE MaybeLogInitialSecret
    <2>1. CASE data.admin.firstBoot /\ data.admin.secret = NoSecret
      <3>1. data' = [data EXCEPT !.admin.secret = "secret"] /\ saved' \in {saved, data'}
        BY <1>2, <2>1 DEF MaybeLogInitialSecret
      <3>2. /\ data'.admin.firstBoot = data.admin.firstBoot /\ data'.edits = data.edits
            /\ data'.admin.legacy = data.admin.legacy /\ data'.admin.password = data.admin.password
        BY <1>0, <3>1 DEF TypeOK, Admins
      <3>3. acked = "unknown"
        BY <1>0, <2>1 DEF Changed
      <3>4. flagLost' = flagLost
        BY <1>2 DEF MaybeLogInitialSecret
      <3>5. saved' = saved \/ saved' = data'
        BY <3>1
      <3>6. UNCHANGED <<acked, pc, ask>>
        BY <1>2 DEF MaybeLogInitialSecret
      <3>7. NoEditYet' /\ FlagKept'
        BY <1>0, <3>2, <3>4, <3>5
      <3> QED
        BY <1>0, <3>2, <3>3, <3>6, <3>7
    <2>2. CASE ~(data.admin.firstBoot /\ data.admin.secret = NoSecret)
      BY <1>0, <1>2, <2>2 DEF MaybeLogInitialSecret
    <2> QED BY <2>1, <2>2
  <1>3. ASSUME NEW reset \in BOOLEAN, Restart(reset) PROVE Goal'
    <2>1. CASE reset
      <3>1. data' = [admin |-> Factory, edits |-> 0] /\ saved' = data'
        BY <1>3, <2>1 DEF Restart
      <3>2. data'.admin.firstBoot /\ data'.edits = 0
        BY <3>1 DEF Factory
      <3> QED
        BY <1>3, <2>1, <3>1, <3>2 DEF Restart
    <2>2. CASE ~reset
      <3>1. saved' = saved /\ data' = saved /\ flagLost' = flagLost /\ acked' = acked
        BY <1>0, <1>3, <2>2 DEF Restart, TypeOK
      <3>2. \A c \in Clients : pc'[c] = "idle"
        BY <1>3 DEF Restart
      <3> QED
        BY <1>0, <3>1, <3>2
    <2> QED BY <2>1, <2>2
  <1>4. ASSUME NEW c \in Clients, NEW password, Login(c, password) PROVE Goal'
    BY <1>0, <1>4 DEF Login, TypeOK, store
  <1>5. ASSUME NEW c \in Clients, IssueLogin(c) PROVE Goal'
    BY <1>0, <1>5, IssueStep DEF IssueLogin, Others, store
  <1>6. ASSUME NEW c \in Clients, NEW n, Logout(c, n) PROVE Goal'
    BY <1>0, <1>6 DEF Logout, store
  <1>7. ASSUME NEW c \in Clients, NEW want \in Wants, NEW by \in Rights, NEW n \in 1..logins,
               Gate(c, want, by, n)
        PROVE  Goal'
    <2>1. ask'[c].want = want /\ Others(c)
      BY <1>0, <1>7, GateStep
    <2> QED
      BY <1>0, <1>7, <2>1 DEF Gate, Others, store
  <1>8. ASSUME NEW c \in Clients, Check(c) PROVE Goal'
    <2>1. pc'[c] = "serve" => ask'[c].want = ask[c].want
      BY <1>0, <1>8, CheckStep
    <2>2. Others(c) /\ pc[c] = "check" /\ pc'[c] # "check" /\ UNCHANGED store
      BY <1>0, <1>8, CheckStep DEF Check
    <2> QED
      BY <1>0, <2>1, <2>2 DEF Others, store
  <1>9. ASSUME NEW c \in Clients, Read(c) \/ SetPasswordFails(c) \/ EditRefused(c) PROVE Goal'
    BY <1>0, <1>9, ReplyStep DEF Read, SetPasswordFails, EditRefused, Others, store
  <1>10. ASSUME NEW c \in Clients, NEW password \in Passwords, SetPassword(c, password)
         PROVE  Goal'
    <2>1. data'.admin = Changed(password)
      BY <1>0, <1>10 DEF SetPassword, TypeOK, Changed
    <2>2. ~data'.admin.firstBoot /\ ~data'.admin.legacy
      BY <2>1 DEF Changed
    <2> QED
      BY <1>0, <1>10, <2>1, <2>2, ReplyStep DEF SetPassword, Others
  <1>11. ASSUME NEW c \in Clients, EditPolicy(c) PROVE Goal'
    <2>1. ~data.admin.firstBoot
      BY <1>0, <1>11 DEF EditPolicy
    <2>2. data'.admin = data.admin /\ (saved' = saved \/ saved' = data')
      BY <1>0, <1>11 DEF EditPolicy, TypeOK
    <2>3. flagLost' = flagLost /\ acked' = acked
      BY <1>11 DEF EditPolicy
    <2>4. NoEditYet' /\ FlagKept' /\ AckedIsStored'
      BY <1>0, <2>1, <2>2, <2>3
    <2> QED
      BY <1>0, <1>11, <2>2, <2>4, ReplyStep DEF EditPolicy, Others
  <1>12. CASE UNCHANGED vars
    BY <1>0, <1>12 DEF vars
  <1> QED
    BY <1>1, <1>2, <1>3, <1>4, <1>5, <1>6, <1>7, <1>8, <1>9, <1>10, <1>11, <1>12
    DEF Next, ClientStep

\* The steps that touch neither the credentials nor a request that passed
\* the gate, except to end it.
LEMMA CredentialsFrame ==
    ASSUME Inv, NEW c \in Clients,
           Others(c), pc'[c] \in {"idle", "issue"}, UNCHANGED access
    PROVE  (Credentials /\ ServedAfterLogin /\ LateMeansLoggedOut /\ LoggedOutStaysOut)'
  BY DEF Inv, Others, access, Credentials, ServedAfterLogin, LateMeansLoggedOut, LoggedOutStaysOut

\* No step gives a login more than its lifetime, or a logged-out session back.
LEMMA CredentialsPreserved ==
    ASSUME Inv, [Next]_vars
    PROVE  (Credentials /\ ServedAfterLogin /\ LateMeansLoggedOut /\ LoggedOutStaysOut)'
  <1> DEFINE Goal == Credentials /\ ServedAfterLogin /\ LateMeansLoggedOut /\ LoggedOutStaysOut
  <1>0. TypeOK /\ Requests /\ Goal
    BY DEF Inv
  <1>1. ASSUME UNCHANGED <<access, pc, ask>> PROVE Goal'
    BY <1>0, <1>1 DEF Credentials, ServedAfterLogin, LateMeansLoggedOut, LoggedOutStaysOut, access
  <1>2. CASE Tick \/ MaybeLogInitialSecret \/ UNCHANGED vars
    BY <1>1, <1>2 DEF Tick, MaybeLogInitialSecret, vars, access
  <1>3. ASSUME NEW reset \in BOOLEAN, Restart(reset) PROVE Goal'
    BY <1>0, <1>3
    DEF Restart, TypeOK, Credentials, ServedAfterLogin, LateMeansLoggedOut, LoggedOutStaysOut
  <1>4. ASSUME NEW c \in Clients, NEW password, Login(c, password) PROVE Goal'
    BY <1>0, <1>4, CredentialsFrame DEF Login, TypeOK, Others
  <1>5. ASSUME NEW c \in Clients, IssueLogin(c) PROVE Goal'
    <2> DEFINE new == logins + 1
    <2>1. /\ new \in Logins /\ logins' = new /\ logins \in Nat
          /\ \A m \in Logins : m \in Nat
      BY <1>0, <1>5, IssueStep, Constants DEF TypeOK, Logins
    <2>2. /\ tokens'[new] = now + TokenTTL /\ sessions'[new] = now + SessionTTL
          /\ issued'[new] = now /\ now \in Nat
          /\ \A m \in Logins : m # new =>
               tokens'[m] = tokens[m] /\ sessions'[m] = sessions[m] /\ issued'[m] = issued[m]
      BY <1>0, <1>5, IssueStep, Constants DEF TypeOK
    <2>3. \A n \in loggedOut : n \in Logins /\ n # new /\ n <= logins'
      BY <1>0, <2>1 DEF Credentials, TypeOK
    <2>4. loggedOut' = loggedOut /\ ask' = ask /\ Others(c) /\ pc'[c] = "idle"
      BY <1>0, <1>5, IssueStep DEF IssueLogin
    <2>5. Credentials'
      <3>1. now # Absent
        BY <2>2 DEF Absent
      <3> QED
        BY <1>0, <2>1, <2>2, <2>3, <2>4, <3>1, Constants DEF Credentials
    <2>6. \A d \in Clients : pc'[d] = "serve" =>
             pc[d] = "serve" /\ ask[d].login \in Logins /\ ask[d].login # new
      BY <1>0, <2>1, <2>4 DEF Requests, Others, Asks
    <2>7. ServedAfterLogin'
      BY <1>0, <2>2, <2>4, <2>6 DEF ServedAfterLogin
    <2> QED
      BY <1>0, <2>4, <2>5, <2>7 DEF LateMeansLoggedOut, LoggedOutStaysOut, Others
  <1>6. ASSUME NEW c \in Clients, NEW n \in 1..logins, Logout(c, n) PROVE Goal'
    <2>1. n \in Logins /\ n <= logins
      BY <1>0, Constants DEF TypeOK, Logins
    <2> QED
      BY <1>0, <1>6, <2>1
      DEF Logout, TypeOK, Credentials, ServedAfterLogin, LateMeansLoggedOut, LoggedOutStaysOut
  <1>7. ASSUME NEW c \in Clients, NEW want \in Wants, NEW by \in Rights, NEW n \in 1..logins,
               Gate(c, want, by, n)
        PROVE  Goal'
    <2>1. /\ ask'[c].by = by /\ ask'[c].login = n
          /\ ask'[c].late <=> by # "bearer" /\ n \in loggedOut
          /\ pc'[c] = "check" /\ Others(c)
      BY <1>0, <1>7, GateStep
    <2>2. UNCHANGED access
      BY <1>7 DEF Gate
    <2> QED
      BY <1>0, <2>1, <2>2
      DEF access, Others, Credentials, ServedAfterLogin, LateMeansLoggedOut, LoggedOutStaysOut
  <1>8. ASSUME NEW c \in Clients, Check(c) PROVE Goal'
    <2> DEFINE n == ask[c].login
    <2>1. Credentials'
      BY <1>0, <1>8, CheckStep DEF Check, Credentials, TypeOK
    <2>2. n \in Logins /\ ask[c] \in Asks /\ Others(c) /\ pc[c] = "check"
      BY <1>0, <1>8, CheckStep DEF Check
    <2>3. ASSUME pc'[c] = "serve"
          PROVE  /\ issued'[n] # Absent /\ ask'[c].login = n
                 /\ ask'[c].at - issued'[n] <= IF ask'[c].by = "bearer" THEN TokenTTL ELSE SessionTTL
                 /\ ~ask'[c].late
      <3>1. /\ ask'[c].at = now /\ ask'[c].by = ask[c].by /\ ask'[c].login = n
            /\ ask'[c].late = ask[c].late /\ issued' = issued
            /\ IF ask[c].by = "bearer" THEN ValidToken(n) ELSE SessionFromRequest(n)
        BY <1>0, <1>8, <2>3, CheckStep DEF Check
      <3>2. now \in Int /\ tokens[n] \in Int /\ sessions[n] \in Int /\ issued[n] \in Int
        BY <1>0, <2>2, Constants DEF TypeOK, Absent
      <3>3. CASE ask[c].by = "bearer"
        <4>1. issued[n] # Absent /\ now <= tokens[n] /\ tokens[n] <= issued[n] + TokenTTL
          BY <1>0, <2>2, <3>1, <3>3 DEF ValidToken, Credentials
        <4>2. now - issued[n] <= TokenTTL
          BY <3>2, <4>1, Constants
        <4>3. ~ask[c].late
          BY <1>0, <2>2, <3>3 DEF LateMeansLoggedOut
        <4> QED BY <3>1, <3>3, <4>1, <4>2, <4>3
      <3>4. CASE ask[c].by # "bearer"
        <4>1. /\ issued[n] # Absent /\ now <= sessions[n] /\ sessions[n] <= issued[n] + SessionTTL
              /\ sessions[n] # Absent
          BY <1>0, <2>2, <3>1, <3>4 DEF SessionFromRequest, Credentials
        <4>2. now - issued[n] <= SessionTTL
          BY <3>2, <4>1, Constants
        <4>3. ~ask[c].late
          BY <1>0, <2>2, <4>1 DEF LateMeansLoggedOut, Credentials
        <4> QED BY <3>1, <3>4, <4>1, <4>2, <4>3
      <3> QED BY <3>3, <3>4
    <2>4. pc'[c] # "check" /\ UNCHANGED <<issued, loggedOut>>
      BY <1>0, <1>8, CheckStep DEF Check
    <2> QED
      BY <1>0, <2>1, <2>2, <2>3, <2>4
      DEF Others, ServedAfterLogin, LateMeansLoggedOut, LoggedOutStaysOut
  <1>9. ASSUME NEW c \in Clients, NEW password,
               Read(c) \/ SetPasswordFails(c) \/ EditRefused(c) \/ EditPolicy(c) \/ SetPassword(c, password)
        PROVE  Goal'
    <2>1. Reply(c) /\ UNCHANGED access
      BY <1>9 DEF Read, SetPasswordFails, EditRefused, EditPolicy, SetPassword
    <2> QED
      BY <1>0, <2>1, ReplyStep, CredentialsFrame
  <1> QED
    BY <1>2, <1>3, <1>4, <1>5, <1>6, <1>7, <1>8, <1>9 DEF Next, ClientStep

-----------------------------------------------------------------------------
\* The inductive invariant holds in every state.
THEOREM Invariant == Spec => []Inv
  <1>1. Inv /\ [Next]_vars => Inv'
    <2> SUFFICES ASSUME Inv, [Next]_vars PROVE Inv'
      OBVIOUS
    <2>1. TypeOK' /\ Requests'
      BY TypePreserved DEF Inv
    <2> QED
      BY <2>1, StorePreserved, CredentialsPreserved DEF Inv
  <1> QED
    BY InitInv, <1>1, PTL DEF Spec

\* The admin server's state has its types; its password is one that was set
\* or the factory's.
THEOREM TypeCorrect == Spec => []TypeOK
  BY Invariant, PTL DEF Inv

\* While the factory password is valid nobody has edited the policy, in
\* memory or on disk, however many clients race with the change, a failing
\* save and restarts, unless the store came without its first-boot flag
\* (sqlite_store.go:209 after an upgrade) and was not reset since: the edits
\* go through the flag (NoEditYet), and the flag stays with the password
\* (FlagKept).
THEOREM NoEditOnFirstBoot == Spec => []FirstBootGate
  <1>1. Inv => FirstBootGate
    BY DEF Inv, FirstBootGate, NoEditYet, FlagKept
  <1> QED
    BY <1>1, Invariant, PTL

\* After a password change that was answered with ok exactly this password
\* logs in.
THEOREM AckedPasswordSticks == Spec => []PasswordChangeSticks
  <1>1. Inv => PasswordChangeSticks
    <2> SUFFICES ASSUME Inv, acked # "unknown"
                 PROVE  /\ ~MustChange(data.admin)
                        /\ \A password \in Passwords \cup {"admin", "secret"} :
                             ValidatePasswordRecord(data.admin, password) => password = acked
      BY DEF PasswordChangeSticks
    <2>1. data.admin = Changed(acked)
      BY DEF Inv, AckedIsStored
    <2> QED
      BY <2>1 DEF Changed, MustChange, IsDefaultAdmin, ValidatePasswordRecord
  <1> QED
    BY <1>1, Invariant, PTL

\* Whoever is served logged in since the process started, within the lifetime
\* of the token or session it shows.
THEOREM ServedOnlyAfterLogin == Spec => []ServedAfterLogin
  BY Invariant, PTL DEF Inv

\* The session of a login that was logged out before the request is not served.
THEOREM LogoutHolds == Spec => []LoggedOutStaysOut
  BY Invariant, PTL DEF Inv
=============================================================================
