------------------------------ MODULE AdminServer ------------------------------
(***************************************************************************)
(* The admin server (internal/adminserver/adminserver.go): logins, tokens, *)
(* sessions, the first-boot gate and the administrator's password          *)
(* (internal/policy/store.go).  Each client has at most one request in     *)
(* progress, and requests interleave between the steps of login and auth.  *)
(*                                                                         *)
(* data is what the store answers, saved what it would read after a        *)
(* restart: on the JSON store a change whose save failed stays in memory.  *)
(* Edits of the policy are counted; what they do is DeviceDiscovery's      *)
(* subject.                                                                *)
(***************************************************************************)
EXTENDS Integers

CONSTANTS
    Clients,
    Passwords,                  \* the passwords an administrator may choose
    TokenTTL, SessionTTL,
    MaxTime, MaxLogins, MaxEdits, MaxRestarts    \* bounds of the model

ASSUME AdminAssumption ==
    /\ TokenTTL \in Nat /\ SessionTTL \in Nat /\ TokenTTL <= SessionTTL
    /\ MaxTime \in Nat /\ MaxLogins \in Nat /\ MaxEdits \in Nat /\ MaxRestarts \in Nat
    /\ Passwords \cap {"admin", "secret", "none"} = {}

VARIABLES
    data, saved,        \* [admin, edits], in the store and on disk
    flagLost,           \* the store came without its first-boot flag
    now, up, restarts,
    tokens, sessions,   \* login -> when it expires, Absent if there is none
    issued,             \* login -> when it was issued by this process
    logins,             \* how many were issued
    loggedOut,          \* the logins whose session was logged out
    pc, ask,            \* client -> the step of its request, and what it asks
    acked               \* the last password change that was answered with ok

vars == <<data, saved, flagLost, now, up, restarts, tokens, sessions, issued, logins,
          loggedOut, pc, ask, acked>>
store == <<data, saved, flagLost, acked>>
process == <<up, restarts>>
access == <<tokens, sessions, issued, logins, loggedOut>>

Absent == -1
Logins == 1..MaxLogins
NoSecret == "none"
Factory == [legacy |-> TRUE, password |-> "admin", secret |-> "secret", firstBoot |-> TRUE]
Admins == [legacy : BOOLEAN, password : Passwords \cup {"admin"},
           secret : {NoSecret, "secret"}, firstBoot : BOOLEAN]

\* What a request wants, and by which right: the bearer token of a login, its
\* session, or its session with the CSRF token.
Wants == {"password", "edit", "read"}
Rights == {"bearer", "cookie", "cookie+csrf"}
Asks == [want : Wants, by : Rights, login : Logins, late : BOOLEAN, at : 0..MaxTime]
NoAsk == [want |-> "nothing"]

\* validatePasswordRecord: the initial secret only counts beside a legacy hash.
ValidatePasswordRecord(admin, password) ==
    \/ password = admin.password
    \/ admin.legacy /\ admin.secret # NoSecret /\ password = admin.secret

IsDefaultAdmin(admin) == admin.legacy /\ admin.password = "admin"
\* What SQLite reads of a factory store that was upgraded from version 2: the
\* initial secret is NULL, the Scan stops there, and first_boot is not read.
Upgraded == [Factory EXCEPT !.secret = NoSecret, !.firstBoot = FALSE]
MustChange(admin) == admin.firstBoot \/ IsDefaultAdmin(admin) \/ admin.secret # NoSecret

\* A new store, one of a version without initial secrets (a JSON file, or
\* SQLite upgraded from version 2), and one whose password was set by an
\* older version.
Init ==
    /\ \E admin \in {Factory, [Factory EXCEPT !.secret = NoSecret], Upgraded} \cup
                    [legacy : {TRUE}, password : Passwords, secret : {NoSecret},
                     firstBoot : {FALSE}] :
         data = [admin |-> admin, edits |-> 0]
    /\ saved = data
    /\ flagLost = (data.admin = Upgraded)
    /\ now = 0 /\ up = FALSE /\ restarts = 0
    /\ tokens = [n \in Logins |-> Absent]
    /\ sessions = [n \in Logins |-> Absent]
    /\ issued = [n \in Logins |-> Absent]
    /\ logins = 0
    /\ loggedOut = {}
    /\ pc = [c \in Clients |-> "idle"]
    /\ ask = [c \in Clients |-> NoAsk]
    /\ acked = "unknown"

Tick ==
    /\ now < MaxTime
    /\ now' = now + 1
    /\ UNCHANGED <<store, process, access, pc, ask>>

-----------------------------------------------------------------------------
\* Mutant: a missing secret is made on every start.
MaybeLogInitialSecretAlways ==
    /\ ~up
    /\ up' = TRUE
    /\ data' = [data EXCEPT !.admin.secret = "secret"]
    /\ saved' \in {saved, data'}
    /\ UNCHANGED <<flagLost, acked, now, restarts, access, pc, ask>>

\* maybeLogInitialSecret, before the server listens.  A save that fails is
\* not noticed.
MaybeLogInitialSecret ==
    /\ ~up
    /\ up' = TRUE
    /\ IF data.admin.firstBoot /\ data.admin.secret = NoSecret
       THEN /\ data' = [data EXCEPT !.admin.secret = "secret"]
            /\ saved' \in {saved, data'}
       ELSE UNCHANGED <<data, saved>>
    /\ UNCHANGED <<flagLost, acked, now, restarts, access, pc, ask>>

\* The process ends and starts again, with -factory-reset or without: tokens
\* and sessions lived in its memory.
Restart(reset) ==
    /\ restarts < MaxRestarts
    /\ restarts' = restarts + 1
    /\ up' = FALSE
    /\ saved' = IF reset THEN [admin |-> Factory, edits |-> 0] ELSE saved
    /\ data' = saved'
    /\ flagLost' = (flagLost /\ ~reset)
    /\ acked' = IF reset THEN "unknown" ELSE acked
    /\ tokens' = [n \in Logins |-> Absent]
    /\ sessions' = [n \in Logins |-> Absent]
    /\ issued' = [n \in Logins |-> Absent]
    /\ pc' = [c \in Clients |-> "idle"]
    /\ ask' = [c \in Clients |-> NoAsk]
    /\ UNCHANGED <<now, logins, loggedOut>>

-----------------------------------------------------------------------------
\* login: a wrong password is refused and changes nothing.
Login(c, password) ==
    /\ up /\ pc[c] = "idle"
    /\ ValidatePasswordRecord(data.admin, password)
    /\ pc' = [pc EXCEPT ![c] = "issue"]
    /\ UNCHANGED <<store, now, process, access, ask>>

\* ... the token and the session get names nobody had before.
IssueLogin(c) ==
    /\ pc[c] = "issue"
    /\ logins < MaxLogins
    /\ LET n == logins + 1
       IN  /\ logins' = n
           /\ tokens' = [tokens EXCEPT ![n] = now + TokenTTL]
           /\ sessions' = [sessions EXCEPT ![n] = now + SessionTTL]
           /\ issued' = [issued EXCEPT ![n] = now]
    /\ pc' = [pc EXCEPT ![c] = "idle"]
    /\ UNCHANGED <<store, now, process, loggedOut, ask>>

\* Mutant: the session is not deleted, it expires.
LogoutExpires(c, n) ==
    /\ up /\ pc[c] = "idle"
    /\ sessions' = [sessions EXCEPT ![n] = IF @ = Absent THEN @ ELSE now]
    /\ loggedOut' = loggedOut \cup {n}
    /\ UNCHANGED <<store, now, process, tokens, issued, logins, pc, ask>>

\* logout deletes the session; the bearer token stays.
Logout(c, n) ==
    /\ up /\ pc[c] = "idle"
    /\ sessions' = [sessions EXCEPT ![n] = Absent]
    /\ loggedOut' = loggedOut \cup {n}
    /\ UNCHANGED <<store, now, process, tokens, issued, logins, pc, ask>>

\* Mutant: the gate lets everyone through who has logged in.
GateOpen(c, want, by, n) ==
    /\ up /\ pc[c] = "idle"
    /\ ask' = [ask EXCEPT ![c] =
                 [want |-> want, by |-> by, login |-> n,
                  late |-> by # "bearer" /\ n \in loggedOut, at |-> 0]]
    /\ pc' = [pc EXCEPT ![c] = "check"]
    /\ UNCHANGED <<store, now, process, access>>

\* auth: on first boot only the password may be changed.
Gate(c, want, by, n) ==
    /\ up /\ pc[c] = "idle"
    /\ data.admin.firstBoot => want = "password"
    /\ ask' = [ask EXCEPT ![c] =
                 [want |-> want, by |-> by, login |-> n,
                  late |-> by # "bearer" /\ n \in loggedOut, at |-> 0]]
    /\ pc' = [pc EXCEPT ![c] = "check"]
    /\ UNCHANGED <<store, now, process, access>>

\* Mutant: an expired token is deleted only after it was used once more.
ValidTokenOnceMore(n) == tokens[n] # Absent

ValidToken(n) == tokens[n] # Absent /\ now <= tokens[n]
SessionFromRequest(n) == sessions[n] # Absent /\ now <= sessions[n]

\* ... then the bearer token or the session is looked up; an expired one is
\* deleted.  A session needs its CSRF token for anything but reading.
Check(c) ==
    /\ pc[c] = "check"
    /\ LET n == ask[c].login
           ok == IF ask[c].by = "bearer" THEN ValidToken(n)
                 ELSE SessionFromRequest(n) /\ (ask[c].want = "read" \/ ask[c].by = "cookie+csrf")
       IN  /\ pc' = [pc EXCEPT ![c] = IF ok THEN "serve" ELSE "idle"]
           /\ tokens' = IF ask[c].by = "bearer" /\ ~ValidToken(n)
                        THEN [tokens EXCEPT ![n] = Absent] ELSE tokens
           /\ sessions' = IF ask[c].by # "bearer" /\ ~SessionFromRequest(n)
                          THEN [sessions EXCEPT ![n] = Absent] ELSE sessions
           /\ ask' = [ask EXCEPT ![c] = IF ok THEN [@ EXCEPT !.at = now] ELSE NoAsk]
    /\ UNCHANGED <<store, now, process, issued, logins, loggedOut>>

Reply(c) ==
    /\ pc' = [pc EXCEPT ![c] = "idle"]
    /\ ask' = [ask EXCEPT ![c] = NoAsk]

\* Reading, and a method the path does not have, change nothing.
Read(c) ==
    /\ pc[c] = "serve" /\ ask[c].want = "read"
    /\ Reply(c)
    /\ UNCHANGED <<store, now, process, access>>

\* setPassword.  A save that fails is answered with an error, but the JSON
\* store goes on with the new password.  Nothing is revoked.
SetPassword(c, password) ==
    /\ pc[c] = "serve" /\ ask[c].want = "password"
    /\ data' = [data EXCEPT !.admin =
                  [legacy |-> FALSE, password |-> password, secret |-> NoSecret, firstBoot |-> FALSE]]
    /\ \/ saved' = data' /\ acked' = password
       \/ saved' = saved /\ acked' = "unknown"
    /\ Reply(c)
    /\ UNCHANGED <<flagLost, now, process, access>>

\* Mutant: the hash is stored although bcrypt returned an error.
SetPasswordFailsEmpty(c) ==
    /\ pc[c] = "serve" /\ ask[c].want = "password"
    /\ data' = [data EXCEPT !.admin.password = ""]
    /\ Reply(c)
    /\ UNCHANGED <<saved, flagLost, acked, now, process, access>>

\* bcrypt refuses the password, or SQLite does not save it.
SetPasswordFails(c) ==
    /\ pc[c] = "serve" /\ ask[c].want = "password"
    /\ Reply(c)
    /\ UNCHANGED <<store, now, process, access>>

\* Any other handler; a save writes all the store holds.  A failing save
\* leaves the change in the memory of the JSON store.
EditPolicy(c) ==
    /\ pc[c] = "serve" /\ ask[c].want = "edit"
    /\ data.edits < MaxEdits
    /\ data' = [data EXCEPT !.edits = @ + 1]
    /\ saved' \in {saved, data'}
    /\ Reply(c)
    /\ UNCHANGED <<flagLost, acked, now, process, access>>

\* The handler refuses the edit, or SQLite does not save it.
EditRefused(c) ==
    /\ pc[c] = "serve" /\ ask[c].want = "edit"
    /\ Reply(c)
    /\ UNCHANGED <<store, now, process, access>>

\* Names of tokens and sessions cannot be guessed: a request that shows one
\* that was not issued, or none, is refused and changes nothing.
ClientStep(c) ==
    \/ \E password \in Passwords \cup {"admin", "secret"} : Login(c, password)
    \/ IssueLogin(c)
    \/ \E n \in 1..logins : Logout(c, n)
    \/ \E want \in Wants, by \in Rights, n \in 1..logins : Gate(c, want, by, n)
    \/ Check(c) \/ Read(c) \/ EditPolicy(c) \/ EditRefused(c) \/ SetPasswordFails(c)
    \/ \E password \in Passwords : SetPassword(c, password)

Next ==
    \/ Tick \/ MaybeLogInitialSecret
    \/ \E reset \in BOOLEAN : Restart(reset)
    \/ \E c \in Clients : ClientStep(c)

Spec == Init /\ [][Next]_vars

-----------------------------------------------------------------------------
\* Types of the state; the password is one that was set, or the factory's.
TypeOK ==
    /\ data \in [admin : Admins, edits : 0..MaxEdits]
    /\ saved \in [admin : Admins, edits : 0..MaxEdits]
    /\ flagLost \in BOOLEAN
    /\ now \in 0..MaxTime /\ up \in BOOLEAN /\ restarts \in 0..MaxRestarts
    /\ tokens \in [Logins -> Int] /\ sessions \in [Logins -> Int]
    /\ issued \in [Logins -> {Absent} \cup 0..MaxTime]
    /\ logins \in 0..MaxLogins /\ loggedOut \in SUBSET Logins
    /\ pc \in [Clients -> {"idle", "issue", "check", "serve"}]
    /\ ask \in [Clients -> Asks \cup {NoAsk}]
    /\ acked \in Passwords \cup {"unknown"}

\* While the factory password is valid the policy has not been edited, in
\* memory or on disk, however requests, failing saves and restarts fall
\* between the gate and the edit.  A store that came without its first-boot
\* flag is exempt until a factory reset: the gate reads only that flag.
FirstBootGate ==
    ~flagLost => \A d \in {data, saved} : IsDefaultAdmin(d.admin) => d.edits = 0

\* A password change that was answered with ok holds until the next change
\* or a factory reset: exactly this password logs in, neither "admin" nor the
\* initial secret, and the server asks for no further change, after any
\* number of restarts.
PasswordChangeSticks ==
    acked # "unknown" =>
        /\ ~MustChange(data.admin)
        /\ \A password \in Passwords \cup {"admin", "secret"} :
             ValidatePasswordRecord(data.admin, password) => password = acked

\* Whoever is served has logged in since the process started, and not longer
\* ago than the lifetime of the right it used.
ServedAfterLogin ==
    \A c \in Clients : pc[c] = "serve" =>
        LET n == ask[c].login
        IN  /\ issued[n] # Absent
            /\ ask[c].at - issued[n] <= IF ask[c].by = "bearer" THEN TokenTTL ELSE SessionTTL

\* A request with the session of a login that was already logged out is not
\* served, although the session may have been used a moment before.
LoggedOutStaysOut == \A c \in Clients : pc[c] = "serve" => ~ask[c].late
=============================================================================
