---------------------------- MODULE ClientInstall ----------------------------
(***************************************************************************)
(* The installer of remote hooks (src/internal/core/client_install.go and  *)
(* the first part of client_connection.go): `aegishook client install` and *)
(* `uninstall`.                                                            *)
(*                                                                         *)
(* An operation holds client.lock, reads everything it is going to change, *)
(* and then applies a list of edits, each of which is checked against what *)
(* was read.  If one fails, those already applied are undone in reverse.   *)
(* Each edit is atomic (AtomicFile renames), the list is not: the process  *)
(* may be killed between two of them, and other programs may write the     *)
(* agents' entries at any time, also between the check and the write.      *)
(***************************************************************************)
EXTENDS HookFiles, Functions

CONSTANTS
    Client,       \* the command of the client's hooks
    Versions,     \* releases of the program, with their adapter files
    MaxNodes,     \* bound: credentials ever issued to this device
    MaxCrashes    \* bound: operations that are killed

(* The adapter: one file stands for those that come with the program, the   *)
(* other is connection.json, whose content is the node it belongs to.       *)
Adapter == {"code", "connection"}
OwnFiles == Adapter \cup {"manifest", "enrolled"}

ASSUME ClientAssumption ==
    /\ Client \in Commands
    /\ Versions \subseteq Nat \ {0}
    /\ Entries \cap OwnFiles = {}
    /\ MaxNodes \in Nat /\ MaxCrashes \in Nat

VARIABLES
    own,        \* the files in the client's directory
    op,         \* the operation that holds the lock
    nodes,      \* credentials issued so far
    crashes,    \* operations that were killed
    leftovers   \* history: an operation could not undo or delete something

clientVars == <<own, op, nodes, crashes, leftovers>>

(* client.json; there is none when no entry is recorded.  Its list names no *)
(* entry twice; all that depends on its order is the order in which a       *)
(* switch gives entries up, for which any will do.                          *)
NoManifest == [entries |-> {}, made |-> {}, adapter |-> [r \in Adapter |-> 0]]
Recorded == own["manifest"].entries

Idle == [pc |-> "off", edits |-> <<>>, at |-> 0, left |-> {}]

ClientInit ==
    /\ own = [f \in OwnFiles |-> IF f = "manifest" THEN NoManifest ELSE 0]
    /\ op = Idle
    /\ nodes = 0
    /\ crashes = 0
    /\ leftovers = FALSE

At(pc) == op.pc = pc
Goto(pc) == op' = [op EXCEPT !.pc = pc]

(* The files an edit can name. *)
Content(f) == IF f \in Entries THEN entry[f] ELSE own[f]
SetContent(f, content) ==
    IF f \in Entries
      THEN Replace(f, content) /\ UNCHANGED own
      ELSE own' = [own EXCEPT ![f] = content] /\ UNCHANGED fileVars

Edit(f, after) == [file |-> f, before |-> Content(f), after |-> after]
Current == op.edits[op.at]

Blocked(content) == Current.file \in Entries /\ ~Replaceable(Current.file, content)

-----------------------------------------------------------------------------
(* Mutant: only an unused credential is looked for. *)
CredentialUnused == own["enrolled"]

(* prepareClientConnection: the credential of the connection in use, or one *)
(* an earlier installation was issued and did not use.                      *)
Credential == IF own["connection"] # 0 THEN own["connection"] ELSE own["enrolled"]

Start(e, switch, v) ==
    /\ At("off")
    /\ op' = [pc |-> IF Credential = 0 THEN "connect" ELSE "plan",
              target |-> e, switch |-> switch, version |-> v,
              edits |-> <<>>, at |-> 0, left |-> {}]
    /\ UNCHANGED <<fileVars, own, nodes, faults, crashes, leftovers>>

(* The enrollment, which Enrollment.tla models, is over: the credential is  *)
(* stored before anything is installed; or there is none.                   *)
Connect ==
    /\ At("connect")
    /\ \/ /\ nodes < MaxNodes
          /\ nodes' = nodes + 1
          /\ own' = [own EXCEPT !["enrolled"] = nodes + 1]
          /\ Goto("plan")
       \/ op' = Idle /\ UNCHANGED <<own, nodes>>
    /\ UNCHANGED <<fileVars, faults, crashes, leftovers>>

-----------------------------------------------------------------------------
(* What an installation of entry e would do, and when it is refused. *)

Wanted(r, v) == IF r = "connection" THEN Credential ELSE v

(* The entries that --switch gives up. *)
GivenUp(e, switch) ==
    {x \in Recorded : /\ switch /\ x # e /\ SameAgent(x, e)
                      /\ ScopeOf[x] # ScopeOf[e] \/ AgentOf[e] \in Exclusive}

Orders(S) == Bijection(1..Cardinality(S), S)

AdapterAccepted(v) ==
    \A r \in Adapter : own[r] # 0 =>
        /\ Recorded # {}
        /\ own["manifest"].adapter[r] = own[r]
        /\ own[r] = Wanted(r, v)

Accepted(e, switch, v) ==
    /\ AgentOf[e] \in Exclusive /\ ~switch =>
          \A x \in Recorded : SameAgent(x, e) => x = e
    /\ \A x \in GivenUp(e, switch) : Removable(x, entry[x], Client, TRUE)
    /\ Installable(e, entry[e], Client)
    /\ AdapterAccepted(v)

Removal(e) == Edit(e, Unhooked(e, entry[e], Client, e \in own["manifest"].made))

Installed(e, switch, v) ==
    LET m == own["manifest"]
        gone == GivenUp(e, switch)
    IN [entries |-> (Recorded \ gone) \cup {e},
        made |-> (m.made \ gone)
                    \cup (IF e \notin Recorded /\ ~entry[e].exists THEN {e} ELSE {}),
        adapter |-> [r \in Adapter |-> Wanted(r, v)]]

(* Mutant: that the installer made the entry stays recorded. *)
UninstalledStillMade(e) ==
    IF Recorded = {e} THEN NoManifest
                      ELSE [own["manifest"] EXCEPT !.entries = Recorded \ {e}]

Uninstalled(e) ==
    IF Recorded = {e}
      THEN NoManifest
      ELSE [entries |-> Recorded \ {e}, made |-> own["manifest"].made \ {e},
            adapter |-> own["manifest"].adapter]

(* The adapter comes first, in any order, the manifest last. *)
(* Mutant: the record comes before the adapter. *)
InstallEditsRecordFirst(e, switch, v, r1, r2, gone) ==
    <<Edit("manifest", Installed(e, switch, v)),
         Edit(r1, Wanted(r1, v)), Edit(r2, Wanted(r2, v))>>
         \o [k \in DOMAIN gone |-> Removal(gone[k])]
         \o <<Edit(e, Hooked(e, entry[e], Client))>>

(* Mutant: the new scope is entered before the old ones are left. *)
InstallEditsFirst(e, switch, v, r1, r2, gone) ==
    <<Edit(r1, Wanted(r1, v)), Edit(r2, Wanted(r2, v)),
         Edit(e, Hooked(e, entry[e], Client))>>
         \o [k \in DOMAIN gone |-> Removal(gone[k])]
         \o <<Edit("manifest", Installed(e, switch, v))>>

InstallEdits(e, switch, v, r1, r2, gone) ==
    <<Edit(r1, Wanted(r1, v)), Edit(r2, Wanted(r2, v))>>
         \o [k \in DOMAIN gone |-> Removal(gone[k])]
         \o <<Edit(e, Hooked(e, entry[e], Client)),
              Edit("manifest", Installed(e, switch, v))>>

(* ClientOperation("install"), once the connection is there. *)
Plan ==
    /\ At("plan")
    /\ IF Accepted(op.target, op.switch, op.version)
         THEN \E r1, r2 \in Adapter, gone \in Orders(GivenUp(op.target, op.switch)) :
                /\ r1 # r2
                /\ op' = [pc |-> "apply", at |-> 1, left |-> {"enrolled"},
                          edits |-> InstallEdits(op.target, op.switch, op.version, r1, r2, gone)]
         ELSE op' = Idle
    /\ UNCHANGED <<fileVars, own, nodes, faults, crashes, leftovers>>

(* ClientOperation("uninstall") of an entry that is recorded. *)
Uninstall(e) ==
    /\ At("off")
    /\ e \in Recorded
    /\ Removable(e, entry[e], Client, TRUE)
    /\ op' = [pc |-> "apply", at |-> 1,
              left |-> IF Recorded = {e} THEN Adapter ELSE {},
              edits |-> <<Removal(e), Edit("manifest", Uninstalled(e))>>]
    /\ UNCHANGED <<fileVars, own, nodes, faults, crashes, leftovers>>

(* ... and when nothing is recorded: the credential that was never used and *)
(* the ticket, which is not modelled here, are deleted.                     *)
ForgetPending ==
    /\ At("off")
    /\ Recorded = {}
    /\ own["enrolled"] # 0
    /\ own' = [own EXCEPT !["enrolled"] = 0]
    /\ UNCHANGED <<fileVars, op, nodes, faults, crashes, leftovers>>

-----------------------------------------------------------------------------
(* Mutant: only whether the file is there is compared. *)
UnchangedExistence(f, content) ==
    IF f \in Entries THEN entry[f].exists = content.exists ELSE own[f] = content

(* applyClientEdit compares the file with what was read ... *)
Unchanged(f, content) == Content(f) = content

Check ==
    /\ At("apply") /\ op.at <= Len(op.edits)
    /\ Current.file \in Entries
    /\ Unchanged(Current.file, Current.before)
    /\ Goto("write")
    /\ UNCHANGED <<fileVars, own, nodes, faults, crashes, leftovers>>

(* ... and replaces it.  What the lock protects cannot change in between.   *)
Write ==
    /\ \/ At("write")
       \/ At("apply") /\ op.at <= Len(op.edits) /\ Current.file \notin Entries
    /\ SetContent(Current.file, Current.after)
    /\ op' = [op EXCEPT !.pc = "apply", !.at = @ + 1]
    /\ UNCHANGED <<nodes, faults, crashes, leftovers>>

(* Mutant: the last edit that was applied is not undone. *)
FailForgetsLast ==
    /\ op.pc \in {"apply", "write"} /\ op.at \in 2..Len(op.edits)
    /\ \/ Fault
       \/ At("apply") /\ ~Unchanged(Current.file, Current.before) /\ UNCHANGED faults
    /\ op' = [op EXCEPT !.pc = "undo", !.at = @ - 2]
    /\ UNCHANGED <<fileVars, own, nodes, crashes, leftovers>>

(* The file has changed, or cannot be written. *)
Fail ==
    /\ op.pc \in {"apply", "write"} /\ op.at <= Len(op.edits)
    /\ \/ Fault
       \/ At("apply") /\ ~Unchanged(Current.file, Current.before) /\ UNCHANGED faults
       \/ At("write") /\ Blocked(Current.after) /\ UNCHANGED faults
    /\ op' = [op EXCEPT !.pc = "undo", !.at = @ - 1]
    /\ UNCHANGED <<fileVars, own, nodes, crashes, leftovers>>

CheckUndo ==
    /\ At("undo") /\ op.at > 0
    /\ Current.file \in Entries
    /\ Unchanged(Current.file, Current.after)
    /\ Goto("unwrite")
    /\ UNCHANGED <<fileVars, own, nodes, faults, crashes, leftovers>>

Unwrite ==
    /\ \/ At("unwrite")
       \/ At("undo") /\ op.at > 0 /\ Current.file \notin Entries
    /\ SetContent(Current.file, Current.before)
    /\ op' = [op EXCEPT !.pc = "undo", !.at = @ - 1]
    /\ UNCHANGED <<nodes, faults, crashes, leftovers>>

(* A rollback goes on after an edit that it cannot undo. *)
FailUndo ==
    /\ op.pc \in {"undo", "unwrite"} /\ op.at > 0
    /\ \/ Fault
       \/ At("undo") /\ ~Unchanged(Current.file, Current.after) /\ UNCHANGED faults
       \/ At("unwrite") /\ Blocked(Current.before) /\ UNCHANGED faults
    /\ op' = [op EXCEPT !.pc = "undo", !.at = @ - 1]
    /\ leftovers' = TRUE
    /\ UNCHANGED <<fileVars, own, nodes, crashes>>

Undone ==
    /\ At("undo") /\ op.at = 0
    /\ op' = Idle
    /\ UNCHANGED <<fileVars, own, nodes, faults, crashes, leftovers>>

-----------------------------------------------------------------------------
(* After the edits: the credential file that connection.json replaces, or   *)
(* the adapter when the last entry has gone.                                *)
Applied ==
    /\ At("apply") /\ op.at > Len(op.edits)
    /\ op' = [op EXCEPT !.pc = "tidy"]
    /\ UNCHANGED <<fileVars, own, nodes, faults, crashes, leftovers>>

Tidy(f) ==
    /\ At("tidy") /\ f \in op.left
    /\ op' = [op EXCEPT !.left = @ \ {f}]
    /\ \/ own' = [own EXCEPT ![f] = 0] /\ UNCHANGED <<faults, leftovers>>
       \/ Fault /\ leftovers' = TRUE /\ UNCHANGED own
    /\ UNCHANGED <<fileVars, nodes, crashes>>

Finish ==
    /\ At("tidy") /\ op.left = {}
    /\ op' = Idle
    /\ UNCHANGED <<fileVars, own, nodes, faults, crashes, leftovers>>

(* The process is killed; its lock goes with it. *)
Killed ==
    /\ ~At("off")
    /\ crashes < MaxCrashes
    /\ crashes' = crashes + 1
    /\ op' = Idle
    /\ UNCHANGED <<fileVars, own, nodes, faults, leftovers>>

ClientNext ==
    \/ \E e \in Entries, switch \in BOOLEAN, v \in Versions : Start(e, switch, v)
    \/ Connect
    \/ Plan
    \/ \E e \in Entries : Uninstall(e)
    \/ ForgetPending
    \/ Check
    \/ Write
    \/ Fail
    \/ CheckUndo
    \/ Unwrite
    \/ FailUndo
    \/ Undone
    \/ Applied
    \/ \E f \in OwnFiles : Tidy(f)
    \/ Finish
    \/ Killed
=============================================================================
