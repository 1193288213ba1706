---------------------------- MODULE LocalInstall ----------------------------
(***************************************************************************)
(* The installations on the machine of the service                         *)
(* (src/internal/core/install.go and install_agents.go).                   *)
(*                                                                         *)
(* InstallAgent and Uninstall hold the engine's mutex: they read the entry, *)
(* write it without looking again, and then commit the record and its      *)
(* audit line; if the commit fails, they write back what they had read.    *)
(* The service may be killed in between, and may come up again under       *)
(* another path, which is another command (IntegrationBinary).             *)
(***************************************************************************)
EXTENDS HookFiles

CONSTANTS
    LocalEntries,   \* the entries the console offers
    Programs,       \* commands of the service, one for each path it is started from
    Loader,         \* what Pi and OpenCode are given: a file in the data directory
    MaxMoves        \* bound: restarts of the service

ASSUME LocalAssumption ==
    /\ LocalEntries \subseteq Entries
    /\ Programs \subseteq Commands /\ Loader \in Commands
    /\ MaxMoves \in Nat

VARIABLES
    records,   \* the installations table, by entry
    program,   \* the command of the running service
    lop,       \* the operation that holds the mutex
    moves

localVars == <<records, program, lop, moves>>

NoRecord == [installed |-> FALSE, command |-> "none"]
Record(c) == [installed |-> TRUE, command |-> c]

LocalIdle == [pc |-> "off"]

LocalInit ==
    /\ records = [e \in LocalEntries |-> NoRecord]
    /\ program \in Programs
    /\ lop = LocalIdle
    /\ moves = 0

(* The command that an installation of entry e writes ... *)
LocalCommand(e) == IF e \in Documents THEN program ELSE Loader

(* ... and the one its removal looks for. *)
RecordedCommand(e) == IF e \in Documents THEN records[e].command ELSE Loader

-----------------------------------------------------------------------------
(* The checks of InstallAgent and Install. *)
ScopeIsFree(e) ==
    AgentOf[e] \in Exclusive =>
        \A f \in LocalEntries \ {e} : ~(SameAgent(e, f) /\ records[f].installed)

(* Mutant: an installation replaces what another program has installed. *)
AnyProgram(e) == TRUE

(* A hook of another program is its own; Install, for Pi, keeps no command. *)
SameProgram(e) ==
    records[e].installed /\ e \notin Links => records[e].command = program

LocalAccepted(e) ==
    /\ ScopeIsFree(e)
    /\ SameProgram(e)
    /\ Installable(e, entry[e], LocalCommand(e))

LocalInstall(e) ==
    /\ lop.pc = "off"
    /\ LocalAccepted(e)
    /\ lop' = [pc |-> "write", entry |-> e, seen |-> entry[e],
               after |-> Hooked(e, entry[e], LocalCommand(e)),
               record |-> Record(program)]
    /\ UNCHANGED <<fileVars, records, program, moves, faults>>

(* Uninstall and uninstallAgent; the record may say that it is gone already. *)
LocalRemovable(e) ==
    Removable(e, entry[e], RecordedCommand(e), records[e].installed)

LocalUninstall(e) ==
    /\ lop.pc = "off"
    /\ records[e] # NoRecord
    /\ LocalRemovable(e)
    /\ lop' = [pc |-> "write", entry |-> e, seen |-> entry[e],
               after |-> Unhooked(e, entry[e], RecordedCommand(e), FALSE),
               record |-> [records[e] EXCEPT !.installed = FALSE]]
    /\ UNCHANGED <<fileVars, records, program, moves, faults>>

(* What is already as it should be is not written again: a missing entry    *)
(* that is to be removed, a link that is to be made.                        *)
Untouched == lop.seen = lop.after /\ (lop.entry \in Links \/ ~lop.seen.exists)

LocalWrite ==
    /\ lop.pc = "write"
    /\ \/ Untouched /\ UNCHANGED fileVars
       \/ ~Untouched /\ Replace(lop.entry, lop.after)
    /\ lop' = [lop EXCEPT !.pc = "commit"]
    /\ UNCHANGED <<records, program, moves, faults>>

LocalWriteFails ==
    /\ lop.pc = "write"
    /\ \/ Fault
       \/ ~Untouched /\ ~Replaceable(lop.entry, lop.after) /\ UNCHANGED faults
    /\ lop' = LocalIdle
    /\ UNCHANGED <<fileVars, records, program, moves>>

LocalCommit ==
    /\ lop.pc = "commit"
    /\ \/ /\ records' = [records EXCEPT ![lop.entry] = lop.record]
          /\ lop' = LocalIdle
          /\ UNCHANGED faults
       \/ /\ Fault
          /\ lop' = [lop EXCEPT !.pc = "restore"]
          /\ UNCHANGED records
    /\ UNCHANGED <<fileVars, program, moves>>

(* The commit has failed: back to what had been read, if that can be written. *)
LocalRestore ==
    /\ lop.pc = "restore"
    /\ \/ Untouched /\ UNCHANGED <<fileVars, faults>>
       \/ ~Untouched /\ Replace(lop.entry, lop.seen) /\ UNCHANGED faults
       \/ /\ Fault \/ (~Replaceable(lop.entry, lop.seen) /\ UNCHANGED faults)
          /\ LeaveDisturbed(lop.entry)
    /\ lop' = LocalIdle
    /\ UNCHANGED <<records, program, moves>>

(* The service stops, in an operation or not, and is started from a path.   *)
Restart(p) ==
    /\ moves < MaxMoves
    /\ moves' = moves + 1
    /\ program' = p
    /\ lop' = LocalIdle
    /\ IF lop.pc \in {"commit", "restore"} THEN LeaveDisturbed(lop.entry)
                                          ELSE UNCHANGED fileVars
    /\ UNCHANGED <<records, faults>>

LocalNext ==
    \/ \E e \in LocalEntries : LocalInstall(e)
    \/ \E e \in LocalEntries : LocalUninstall(e)
    \/ LocalWrite
    \/ LocalWriteFails
    \/ LocalCommit
    \/ LocalRestore
    \/ \E p \in Programs : Restart(p)
=============================================================================
