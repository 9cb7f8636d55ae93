------------------------------ MODULE JSONStore ------------------------------
(***************************************************************************)
(* The JSON store (internal/policy/store.go), used with -policy=*.json:    *)
(* UpdateMutate runs the caller's function on the data in memory, writes   *)
(* all of it to a temporary file and renames that over the store's file.   *)
(* The function may fail half-way, writing and renaming may fail, and the  *)
(* process may stop between any two steps and in the middle of the write.  *)
(***************************************************************************)
EXTENDS Integers

CONSTANTS Callers, Mutations, NumTables

ASSUME TablesAssumption == NumTables \in Nat \ {0}
ASSUME CallersAssumption == "none" \notin Callers

VARIABLES
    mem,        \* JSONStore.data: table -> mutations
    file,       \* the store's file
    tmp,        \* the temporary file
    mu,         \* who holds the store's mutex
    call,       \* caller -> progress of its UpdateMutate
    acked,      \* history: mutations whose call returned nil
    failed      \* history: mutations whose call returned an error

vars == <<mem, file, tmp, mu, call, acked, failed>>

Tables == 1..NumTables
Empty == [t \in Tables |-> {}]
\* A file holds all of some data, or its contents are cut off.
Whole(d) == [whole |-> TRUE, data |-> d]
Torn == [whole |-> FALSE, data |-> Empty]
None == "none"
Idle == [pc |-> "idle"]

Return(c) ==
    /\ mu' = None
    /\ call' = [call EXCEPT ![c] = Idle]

\* The call ends with an error; memory keeps what fn has done to it.
ReturnError(c) ==
    /\ failed' = failed \cup {call[c].m}
    /\ Return(c)
    /\ UNCHANGED <<mem, acked>>

-----------------------------------------------------------------------------
\* LoadOrInitJSON on a new path: defaults, saved.
Init ==
    /\ mem = Empty
    /\ file = Whole(Empty)
    /\ tmp = Torn
    /\ mu = None
    /\ call = [c \in Callers |-> Idle]
    /\ acked = {}
    /\ failed = {}

\* Every mutation is tried once.
Lock(c, m) ==
    /\ call[c] = Idle
    /\ mu = None
    /\ m \notin acked \cup failed
    /\ mu' = c
    /\ call' = [call EXCEPT ![c] = [pc |-> "fn", m |-> m, table |-> 1]]
    /\ UNCHANGED <<mem, file, tmp, acked, failed>>

\* fn changes one table of the data in memory.
Mutate(c) ==
    /\ call[c].pc = "fn"
    /\ mem' = [mem EXCEPT ![call[c].table] = @ \cup {call[c].m}]
    /\ call' = IF call[c].table < NumTables
                THEN [call EXCEPT ![c].table = call[c].table + 1]
                ELSE [call EXCEPT ![c].pc = "write"]
    /\ UNCHANGED <<file, tmp, mu, acked, failed>>

\* fn returns an error, possibly after having changed some tables.
MutateFails(c) ==
    /\ call[c].pc = "fn"
    /\ ReturnError(c)
    /\ UNCHANGED <<file, tmp>>

\* os.WriteFile truncates the temporary file ...
Write(c) ==
    /\ call[c].pc = "write"
    /\ tmp' = Torn
    /\ call' = [call EXCEPT ![c].pc = "writing"]
    /\ UNCHANGED <<mem, file, mu, acked, failed>>

\* ... and completes it.
Written(c) ==
    /\ call[c].pc = "writing"
    /\ tmp' = Whole(mem)
    /\ call' = [call EXCEPT ![c].pc = "rename"]
    /\ UNCHANGED <<mem, file, mu, acked, failed>>

\* Marshalling, writing or renaming fails.
SaveFails(c) ==
    /\ call[c].pc \in {"write", "writing", "rename"}
    /\ ReturnError(c)
    /\ UNCHANGED <<file, tmp>>

\* Mutant: the call is acknowledged before the rename.
RenameAfterwards(c) ==
    /\ call[c].pc = "rename"
    /\ acked' = acked \cup {call[c].m}
    /\ Return(c)
    /\ UNCHANGED <<mem, file, tmp, failed>>

\* Mutant: the last table of the data is left out of the saved document.
RenameWithoutLast(c) ==
    /\ call[c].pc = "rename"
    /\ file' = [tmp EXCEPT !.data[NumTables] = file.data[NumTables]]
    /\ tmp' = Torn
    /\ acked' = acked \cup {call[c].m}
    /\ Return(c)
    /\ UNCHANGED <<mem, failed>>

\* os.Rename, and UpdateMutate returns nil.
Rename(c) ==
    /\ call[c].pc = "rename"
    /\ file' = tmp
    /\ tmp' = Torn
    /\ acked' = acked \cup {call[c].m}
    /\ Return(c)
    /\ UNCHANGED <<mem, failed>>

\* The process stops at any point; LoadOrInitJSON reads the file.  A mutation
\* in progress has no outcome: its caller is gone.
Restart ==
    /\ file.whole
    /\ mem' = file.data
    /\ mu' = None
    /\ call' = [c \in Callers |-> Idle]
    /\ UNCHANGED <<file, tmp, acked, failed>>

\* initPolicyLayer with -factory-reset: the file is removed and recreated.
Reset ==
    /\ mem' = Empty
    /\ file' = Whole(Empty)
    /\ mu' = None
    /\ call' = [c \in Callers |-> Idle]
    /\ acked' = {}
    /\ UNCHANGED <<tmp, failed>>

Next ==
    \/ \E c \in Callers, m \in Mutations : Lock(c, m)
    \/ \E c \in Callers :
          \/ Mutate(c) \/ MutateFails(c)
          \/ Write(c) \/ Written(c) \/ SaveFails(c) \/ Rename(c)
    \/ Restart
    \/ Reset

Spec == Init /\ [][Next]_vars

-----------------------------------------------------------------------------
Contents == [Tables -> SUBSET Mutations]
Files == [whole : BOOLEAN, data : Contents]
Running == [pc : {"fn", "write", "writing", "rename"}, m : Mutations, table : Tables]

\* Types of the state.
TypeOK ==
    /\ mem \in Contents
    /\ file \in Files
    /\ tmp \in Files
    /\ mu \in Callers \cup {None}
    /\ call \in [Callers -> Running \cup {Idle}]
    /\ acked \subseteq Mutations
    /\ failed \subseteq Mutations

\* A process that starts always finds a complete file: no crash and no failing
\* write leaves a torn one for LoadOrInitJSON to reject.
FileNeverTorn == file.whole

\* A mutation for which UpdateMutate returned nil survives every later failure
\* and crash, in full, in a file that can be read.
AckedSurvive == FileNeverTorn /\ \A m \in acked, t \in Tables : m \in file.data[t]

\* A mutation found in part of the file only is one whose function failed
\* half-way: nothing takes it back from memory, so the next successful save
\* makes it durable; but a crash never tears a mutation apart.
PartialOnlyAfterError ==
    \A s, t \in Tables : file.data[s] \ file.data[t] \subseteq failed

\* Between calls, what readers see and a restart would forget comes from
\* mutations that reported an error, and from nothing else.
MemoryAheadOnlyByErrors ==
    mu = None => \A t \in Tables :
        /\ file.data[t] \subseteq mem[t]
        /\ mem[t] \ file.data[t] \subseteq failed
=============================================================================
