---------------------------- MODULE Installations ----------------------------
(***************************************************************************)
(* Both installers, the users and the agents of one machine.  They share   *)
(* nothing but the agents' entries (HookFiles).                            *)
(***************************************************************************)
EXTENDS ClientInstall, LocalInstall

(* The client's hooks name its connection file, the service's do not. *)
ASSUME InstallerAssumption == Client \notin Programs \cup {Loader}

VARIABLE
    raced   \* history: entries written by another between the last look of an
            \* installer and its write, which replaces what was written

vars == <<fileVars, faults, clientVars, localVars, raced>>

Init == FilesInit /\ ClientInit /\ LocalInit /\ raced = {}

(* The entries an installer will write without looking again. *)
ClientWindow == IF op.pc \in {"write", "unwrite"} THEN {Current.file} ELSE {}
LocalWindow == IF lop.pc # "off" THEN {lop.entry} ELSE {}

Races(window) == raced' = raced \cup {e \in window : entry'[e] # entry[e]}

Next ==
    \/ ClientNext /\ Races(LocalWindow) /\ UNCHANGED localVars
    \/ LocalNext /\ Races(ClientWindow) /\ UNCHANGED clientVars
    \/ /\ \E e \in Entries : UserWrites(e)
       /\ Races(ClientWindow \cup LocalWindow)
       /\ UNCHANGED <<clientVars, localVars>>

Spec == Init /\ [][Next]_vars

(* Entries whose content is the work of the installers alone. *)
Calm == Entries \ (disturbed \cup raced)

-----------------------------------------------------------------------------
(* Properties. *)

OpStates == {"off", "connect", "plan", "apply", "write", "undo", "unwrite", "tidy"}

Manifests ==
    [entries : SUBSET Entries, made : SUBSET Entries, adapter : [Adapter -> Nat]]

(* Every file and record has content of its kind, and what client.json says *)
(* the installer has made is an entry that it names.                        *)
TypeOK ==
    /\ entry \in [Entries -> Contents]
    /\ disturbed \subseteq Entries /\ raced \subseteq Entries /\ edits \in 0..MaxEdits
    /\ DOMAIN own = OwnFiles
    /\ own["code"] \in Versions \cup {0}
    /\ own["connection"] \in 0..nodes /\ own["enrolled"] \in 0..nodes
    /\ own["manifest"] \in Manifests
    /\ own["manifest"].made \subseteq Recorded
    /\ op.pc \in OpStates /\ op.at \in 0..(Len(op.edits) + 1)
    /\ op.left \subseteq OwnFiles
    /\ \A e \in LocalEntries :
          records[e] = NoRecord \/ records[e].command \in Programs
    /\ program \in Programs
    /\ lop.pc \in {"off", "write", "commit", "restore"}

(* Whatever write fails and wherever the installer is killed, as long as    *)
(* client.json names an entry the adapter and the connection its hook needs *)
(* are there, as recorded, so that the hook does not fail to start.         *)
RecordedHooksHaveAdapter ==
    Recorded # {} =>
        \A r \in Adapter : own[r] # 0 /\ own[r] = own["manifest"].adapter[r]

(* When no operation runs, an entry that nobody else has disturbed has the  *)
(* client's hook just if client.json names it, and the last hook takes the  *)
(* adapter with it: a failed installation or removal leaves nothing behind. *)
(* Assumes that no installer was killed and that no rollback failed.        *)
ClientHooksAreRecorded ==
    op.pc = "off" /\ crashes = 0 /\ ~leftovers =>
        /\ \A e \in Calm :
              entry[e].hooks[Client] = IF e \in Recorded THEN "full" ELSE "none"
        /\ Recorded = {} => own["code"] = 0 /\ own["connection"] = 0

(* The console's table says of every undisturbed entry which program's hook *)
(* is in it, although the file and the database are written one after the   *)
(* other and the service may be restarted from other paths.                 *)
LocalHooksAreRecorded ==
    lop.pc = "off" =>
        \A e \in LocalEntries \cap Calm, c \in (Programs \cup {Loader}) :
            entry[e].hooks[c] =
                IF records[e].installed /\ RecordedCommand(e) = c
                  THEN "full" ELSE "none"

(* docs/remote-clients.md: Grok allows one scope only.  Also in the middle  *)
(* of a switch no agent of that kind finds the hook in two of its entries,  *)
(* because a call without an ID would be reviewed twice.  (An installer     *)
(* killed in the middle of a switch leaves a hook that is not recorded.)    *)
OneScope ==
    crashes = 0 /\ ~leftovers =>
        \A e, f \in Calm :
            e # f /\ SameAgent(e, f) /\ AgentOf[e] \in Exclusive =>
                ~(Holds(entry[e], Client) /\ Holds(entry[f], Client))

(* The service's installer has put its plugin or link where the client's was *)
(* missing, because a removal was interrupted.                              *)
TakenOver(e) == e \notin Documents /\ \E c \in Commands \ {Client} : Holds(entry[e], c)

(* Adapter files that no client.json names.  Every installation is refused   *)
(* then (AdapterAccepted), and an uninstallation finds nothing to do.        *)
Stranded == Recorded = {} /\ \E r \in Adapter : own[r] # 0

(* The only recorded entry of an agent that allows one scope at a time. *)
OnlyScope(e) == AgentOf[e] \in Exclusive => \A x \in Recorded : SameAgent(x, e) => x = e

(* Whatever an interrupted operation leaves, unless it is stranded, any entry *)
(* that nobody has disturbed or taken over can be installed or installed      *)
(* again: with the installed version, with any if there is none, and without  *)
(* a switch if no other scope is recorded.  (A switch that was interrupted    *)
(* may be refused until the old scope has been installed again: README.)      *)
RepairsAreAccepted ==
    op.pc = "off" /\ ~Stranded =>
        \A e \in Calm, v \in Versions :
            /\ ~TakenOver(e) /\ OnlyScope(e)
            /\ Recorded # {} => v = own["manifest"].adapter["code"]
            => Accepted(e, FALSE, v)

(* Not so.  client_install.go:476: an interrupted first installation may have *)
(* left only a pending ticket or a credential, which is what an uninstallation *)
(* deletes when nothing is recorded.  It can have left adapter files, after   *)
(* which nothing can be installed (Stranded).                                 *)
InterruptedLeavesOnlyPending == op.pc = "off" /\ ~leftovers => ~Stranded

(* No step of an installer changes the rest of a document or another        *)
(* installer's hook, not even a rollback after the user has edited it,      *)
(* unless the document was written between its last look and its write.     *)
OtherContentIsKept ==
    [][\A e \in Entries \ raced :
          entry'[e] # entry[e] /\ edits' = edits =>
             /\ entry'[e].other = entry[e].other
             /\ \A c \in Commands :
                   entry'[e].hooks[c] # entry[e].hooks[c] =>
                       c \in (IF op' # op THEN {Client} ELSE Programs \cup {Loader})]_vars

(* docs/remote-clients.md: installing again keeps the identity of the       *)
(* device.  A connection is never replaced by another one, and an issued    *)
(* credential that was not used yet is never lost to a new enrollment.      *)
OneIdentity ==
    [][/\ own["connection"] # 0 => own'["connection"] \in {0, own["connection"]}
       /\ own["enrolled"] # 0 => own'["enrolled"] \in {0, own["enrolled"]}
       /\ nodes' # nodes => own["connection"] = 0 /\ own["enrolled"] = 0]_vars
=============================================================================
