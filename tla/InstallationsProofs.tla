------------------------- MODULE InstallationsProofs -------------------------
(***************************************************************************)
(* Proofs about the two installers: hooks and records agree, a recorded    *)
(* hook has its adapter, and nothing of others is lost, whatever fails,    *)
(* wherever an installer is killed and whoever else writes the files.      *)
(***************************************************************************)
EXTENDS Installations, FiniteSetTheorems, SequenceTheorems, TLAPS

Claimed == Programs \cup {Loader}    \* the service's hooks

-----------------------------------------------------------------------------
(* Contents. *)

IsContent(x) == x \in Contents /\ (~x.exists => x = Absent)

(* What only the installers have written. *)
Neat(e, x) ==
    /\ \A c \in Commands : x.hooks[c] \in {"none", "full"}
    /\ e \notin Documents => x \in {Absent, Own(Client), Own(Loader)}

FilesInv ==
    /\ DOMAIN entry = Entries /\ entry = [e \in Entries |-> entry[e]]
    /\ \A e \in Entries : IsContent(entry[e]) /\ (e \in Calm => Neat(e, entry[e]))
    /\ disturbed \subseteq Entries /\ raced \subseteq Entries /\ edits \in 0..MaxEdits

-----------------------------------------------------------------------------
(* The files of the client. *)

IsManifest(m) ==
    /\ m \in Manifests /\ m.made \subseteq m.entries
    /\ \A e, f \in m.entries : e # f /\ SameAgent(e, f) => AgentOf[e] \notin Exclusive

OwnInv ==
    /\ DOMAIN own = OwnFiles /\ own = [f \in OwnFiles |-> own[f]]
    /\ nodes \in Nat /\ crashes \in Nat
    /\ own["code"] \in Versions \cup {0}
    /\ own["connection"] \in 0..nodes /\ own["enrolled"] \in 0..nodes
    /\ IsManifest(own["manifest"])
    /\ RecordedHooksHaveAdapter

-----------------------------------------------------------------------------
(* The client's operation. *)

Waiting == op.pc \in {"connect", "plan"}
Forward == op.pc \in {"apply", "write"}
Backward == op.pc \in {"undo", "unwrite"}
Working == Forward \/ Backward

Last == Len(op.edits)
Steps == 1..Last
File(k) == op.edits[k].file
Before(k) == op.edits[k].before
After(k) == op.edits[k].after
Old == Before(Last).entries
New == After(Last).entries
IsApplied(k) == IF Forward THEN k < op.at ELSE k <= op.at

Unmarred == crashes = 0 /\ ~leftovers

OpInv ==
    /\ op.pc \in OpStates
    /\ op.pc = "off" => op = Idle
    /\ Waiting =>
          /\ op = [pc |-> op.pc, target |-> op.target, switch |-> op.switch,
                   version |-> op.version, edits |-> <<>>, at |-> 0, left |-> {}]
          /\ op.target \in Entries /\ op.switch \in BOOLEAN /\ op.version \in Versions
    /\ op.pc = "connect" => Credential = 0
    /\ op.pc = "plan" => Credential # 0
    /\ ~Waiting => op = [pc |-> op.pc, edits |-> op.edits, at |-> op.at, left |-> op.left]
    /\ op.left \subseteq OwnFiles
    /\ Last \in Nat
    /\ op.pc = "apply" => op.at \in 1..(Last + 1)
    /\ op.pc = "write" => op.at \in Steps /\ File(op.at) \in Entries
    /\ op.pc = "undo" => op.at \in 0..(Last - 1)
    /\ op.pc = "unwrite" => op.at \in 1..(Last - 1) /\ File(op.at) \in Entries
    /\ op.pc = "tidy" => op.at = Last + 1

(* An edit of an entry touches no hook but the client's, and nothing else.  *)
EntryEdit(k) ==
    /\ IsContent(Before(k)) /\ IsContent(After(k))
    /\ After(k).other = Before(k).other
    /\ \A c \in Commands \ {Client} : After(k).hooks[c] = Before(k).hooks[c]
    /\ File(k) \in Calm => Neat(File(k), Before(k)) /\ Neat(File(k), After(k))
    /\ After(k).hooks[Client] = IF File(k) \in New THEN "full" ELSE "none"
    /\ Unmarred /\ File(k) \in Calm =>
          Before(k).hooks[Client] = IF File(k) \in Old THEN "full" ELSE "none"

(* The adapter is not exchanged under a hook.                               *)
AdapterEdit(k) ==
    /\ File(k) = "code" => Before(k) \in Versions \cup {0} /\ After(k) \in Versions \cup {0}
    /\ File(k) = "connection" =>
          /\ Before(k) \in 0..nodes /\ After(k) \in 0..nodes
          /\ Before(k) # 0 => After(k) = Before(k)
    /\ Old # {} => After(k) = Before(k)
    /\ Old = {} => Before(k) = 0

(* The plan: the record comes last and says what the edits before it do.    *)
PlanInv ==
    /\ Last > 0
    /\ \A k \in Steps : File(k) \in Entries \cup Adapter \cup {"manifest"}
    /\ \A k \in Steps : File(k) = "manifest" <=> k = Last
    /\ \A j, k \in Steps : File(j) = File(k) => j = k
    /\ \A k \in Steps : File(k) \in Entries => EntryEdit(k)
    /\ \A k \in Steps : File(k) \in Adapter => AdapterEdit(k)
    /\ IsManifest(Before(Last)) /\ IsManifest(After(Last))
    /\ \A e \in Entries : (\A k \in Steps : File(k) # e) => (e \in Old <=> e \in New)
    /\ \A k \in 1..(Last - 2) : File(k) \in Entries => File(k) \notin New

Installing ==
    /\ op.left = {"enrolled"} /\ New # {}
    /\ \A r \in Adapter :
          /\ After(Last).adapter[r] # 0
          /\ \E k \in Steps : File(k) = r /\ After(k) = After(Last).adapter[r]

Uninstalling ==
    /\ Old # {}
    /\ \A k \in Steps : File(k) \notin Adapter
    /\ \/ New = {} /\ op.left = Adapter
       \/ New # {} /\ op.left = {} /\ After(Last).adapter = Before(Last).adapter

(* What is applied is what the lock protects; what is not, is as it was.    *)
ProgressInv ==
    \A k \in Steps : File(k) \in OwnFiles =>
        IF IsApplied(k)
          THEN own[File(k)] = After(k)
          ELSE \/ own[File(k)] = Before(k)
               \/ leftovers /\ Backward /\ k < Last /\ own[File(k)] = After(k)

WorkInv == Working => PlanInv /\ (Installing \/ Uninstalling) /\ ProgressInv

(* A look at an entry still holds when it is written, or the write is a race. *)
WindowInv ==
    /\ op.pc = "write" /\ File(op.at) \notin raced => entry[File(op.at)] = Before(op.at)
    /\ op.pc = "unwrite" /\ File(op.at) \notin raced => entry[File(op.at)] = After(op.at)

(* Tidying the adapter away needs that no hook is recorded.                 *)
TidyInv ==
    op.pc = "tidy" => \/ op.left \subseteq {"enrolled"} /\ Recorded # {}
                      \/ op.left \subseteq Adapter /\ Recorded = {}

Expected(e) ==
    IF Working
      THEN IF \E k \in Steps : File(k) = e /\ IsApplied(k) THEN e \in New ELSE e \in Old
      ELSE e \in Recorded

HooksInv ==
    Unmarred =>
        \A e \in Calm : entry[e].hooks[Client] = IF Expected(e) THEN "full" ELSE "none"

GoneInv ==
    Unmarred /\ ~Working /\ Recorded = {} =>
        \A r \in Adapter : own[r] = 0 \/ (op.pc = "tidy" /\ r \in op.left)

-----------------------------------------------------------------------------
(* The service's installer. *)

Busy(e) == lop.pc # "off" /\ lop.entry = e

Says(e, x, r) ==
    \A c \in Claimed :
        x.hooks[c] = IF r.installed /\ (IF e \in Documents THEN r.command ELSE Loader) = c
                       THEN "full" ELSE "none"

IsRecord(r) ==
    /\ r = [installed |-> r.installed, command |-> r.command]
    /\ r.installed \in BOOLEAN
    /\ r = NoRecord \/ r.command \in Programs

LopInv ==
    /\ lop = [pc |-> lop.pc, entry |-> lop.entry, seen |-> lop.seen, after |-> lop.after,
              record |-> lop.record]
    /\ lop.entry \in LocalEntries
    /\ IsContent(lop.seen) /\ IsContent(lop.after)
    /\ lop.after.other = lop.seen.other
    /\ \A c \in Commands \ Claimed : lop.after.hooks[c] = lop.seen.hooks[c]
    /\ IsRecord(lop.record)
    /\ lop.entry \in Calm =>
          /\ Neat(lop.entry, lop.seen) /\ Neat(lop.entry, lop.after)
          /\ Says(lop.entry, lop.seen, records[lop.entry])
          /\ Says(lop.entry, lop.after, lop.record)
    /\ lop.entry \notin raced =>
          entry[lop.entry] = IF lop.pc = "write" THEN lop.seen ELSE lop.after

LocalInv ==
    /\ lop.pc \in {"off", "write", "commit", "restore"} /\ program \in Programs
    /\ lop.pc = "off" => lop = LocalIdle
    /\ lop.pc # "off" => LopInv
    /\ DOMAIN records = LocalEntries /\ records = [e \in LocalEntries |-> records[e]]
    /\ \A e \in LocalEntries : IsRecord(records[e])
    /\ \A e \in LocalEntries \cap Calm : ~Busy(e) => Says(e, entry[e], records[e])

Inv ==
    /\ FilesInv
    /\ OwnInv
    /\ OpInv
    /\ WorkInv
    /\ WindowInv
    /\ TidyInv
    /\ HooksInv
    /\ GoneInv
    /\ LocalInv

-----------------------------------------------------------------------------
(* What an installer makes of an entry.                                     *)
LEMMA Constants ==
    /\ Client \in Commands /\ Loader \in Commands /\ Programs \subseteq Commands
    /\ Claimed \subseteq Commands /\ Client \notin Claimed
    /\ MaxEdits \in Nat
  BY ClientAssumption, LocalAssumption, InstallerAssumption, EntryAssumption DEF Claimed

LEMMA OwnContent ==
    /\ IsContent(Absent) /\ \A c \in Commands : Absent.hooks[c] = "none"
    /\ Absent.other = 0 /\ ~Absent.exists
    /\ IsContent(Blank) /\ Blank.other = 0 /\ \A c \in Commands : Blank.hooks[c] = "none"
    /\ \A c \in Commands :
          /\ IsContent(Own(c)) /\ Own(c).other = 0 /\ Own(c).exists
          /\ \A d \in Commands : Own(c).hooks[d] = IF d = c THEN "full" ELSE "none"
<1>1. Absent \in Contents /\ Blank \in Contents
  BY Constants DEF Absent, Blank, Contents, NoHooks, HookStates
<1>2. ASSUME NEW c \in Commands
      PROVE  /\ Own(c) \in Contents /\ Own(c).other = 0 /\ Own(c).exists
             /\ \A d \in Commands : Own(c).hooks[d] = IF d = c THEN "full" ELSE "none"
  <2>1. Own(c).hooks = [NoHooks EXCEPT ![c] = "full"] /\ Own(c).other = 0
    BY DEF Own, Blank
  <2>2. Own(c).exists
    BY DEF Own, Blank
  <2>3. Own(c) \in Contents
    BY <1>1 DEF Own, Contents, HookStates
  <2> QED BY <2>1, <2>2, <2>3 DEF NoHooks
<1> QED BY <1>1, <1>2 DEF IsContent, Absent, Blank, NoHooks

LEMMA NeatContent ==
  ASSUME NEW e \in Entries
  PROVE  Neat(e, Absent) /\ Neat(e, Own(Client)) /\ Neat(e, Own(Loader))
  BY OwnContent, Constants DEF Neat

LEMMA WithoutContent ==
  ASSUME NEW x, IsContent(x), x.exists, NEW c \in Commands
  PROVE  /\ IsContent(Without(x, c)) /\ Without(x, c).other = x.other
         /\ \A d \in Commands :
               Without(x, c).hooks[d] = IF d = c THEN "none" ELSE x.hooks[d]
<1>1. Without(x, c).hooks = [x.hooks EXCEPT ![c] = "none"] /\ Without(x, c).other = x.other
  BY DEF Without, IsContent, Contents
<1>2. Without(x, c).exists
  BY DEF Without, IsContent, Contents
<1>3. Without(x, c) \in Contents
  BY DEF Without, IsContent, Contents, HookStates
<1> QED BY <1>1, <1>2, <1>3 DEF IsContent, Contents

LEMMA HookedContent ==
  ASSUME NEW e \in Entries, NEW x, IsContent(x), NEW c \in Commands, Installable(e, x, c)
  PROVE  /\ IsContent(Hooked(e, x, c)) /\ Hooked(e, x, c).other = x.other
         /\ \A d \in Commands : Hooked(e, x, c).hooks[d] = IF d = c THEN "full" ELSE x.hooks[d]
         /\ (c \in {Client, Loader} \/ e \in Documents) /\ Neat(e, x) =>
               Neat(e, Hooked(e, x, c))
<1>1. CASE e \in Documents
  <2>1. Hooked(e, x, c) = [exists |-> TRUE, other |-> x.other,
                           hooks |-> [x.hooks EXCEPT ![c] = "full"]]
    BY <1>1 DEF Hooked, IsContent, Contents
  <2>2. IsContent(Hooked(e, x, c))
    BY <2>1 DEF IsContent, Contents, HookStates
  <2>3. \A d \in Commands : Hooked(e, x, c).hooks[d] = IF d = c THEN "full" ELSE x.hooks[d]
    BY <2>1 DEF IsContent, Contents
  <2> QED BY <1>1, <2>1, <2>2, <2>3 DEF Neat
<1>2. CASE e \notin Documents
  <2>1. Hooked(e, x, c) = Own(c) /\ x \in {Absent, Own(c)}
    BY <1>2 DEF Hooked, Installable
  <2> QED BY <1>2, <2>1, OwnContent, NeatContent
<1> QED BY <1>1, <1>2

LEMMA UnhookedContent ==
  ASSUME NEW e \in Entries, NEW x, IsContent(x), NEW c \in Commands, NEW made \in BOOLEAN,
         e \notin Documents => x \in {Absent, Own(c)}
  PROVE  /\ IsContent(Unhooked(e, x, c, made)) /\ Unhooked(e, x, c, made).other = x.other
         /\ \A d \in Commands :
               Unhooked(e, x, c, made).hooks[d] = IF d = c THEN "none" ELSE x.hooks[d]
         /\ Neat(e, x) => Neat(e, Unhooked(e, x, c, made))
<1>1. CASE e \in Documents /\ x.exists /\ ~(made /\ Without(x, c) = Blank)
  <2>1. Unhooked(e, x, c, made) = Without(x, c)
    BY <1>1 DEF Unhooked
  <2> QED BY <1>1, <2>1, WithoutContent DEF Neat
<1>2. CASE e \in Documents /\ x.exists /\ made /\ Without(x, c) = Blank
  <2>1. Unhooked(e, x, c, made) = Absent
    BY <1>2 DEF Unhooked
  <2>2. x.other = 0 /\ \A d \in Commands : (IF d = c THEN "none" ELSE x.hooks[d]) = "none"
    BY <1>2, WithoutContent, OwnContent
  <2> QED BY <2>1, <2>2, OwnContent, NeatContent
<1>3. CASE e \in Documents /\ ~x.exists
  BY <1>3, OwnContent, NeatContent DEF Unhooked, IsContent
<1>4. CASE e \notin Documents
  <2>1. Unhooked(e, x, c, made) = Absent /\ x \in {Absent, Own(c)}
    BY <1>4 DEF Unhooked
  <2> QED BY <2>1, OwnContent, NeatContent
<1> QED BY <1>1, <1>2, <1>3, <1>4

-----------------------------------------------------------------------------
(* What a step does to the entries. *)
LEMMA CalmShrinks ==
  ASSUME disturbed \subseteq disturbed', raced \subseteq raced'
  PROVE  Calm' \subseteq Calm
  BY DEF Calm

(* The client writes an entry only after it has looked at it. *)
LEMMA ClientFiles ==
  ASSUME OpInv, ClientNext
  PROVE  /\ UNCHANGED <<edits, disturbed>>
         /\ \/ UNCHANGED entry
            \/ /\ op.pc = "write" /\ Write
               /\ entry' = [entry EXCEPT ![File(op.at)] = After(op.at)]
            \/ /\ op.pc = "unwrite" /\ Unwrite
               /\ entry' = [entry EXCEPT ![File(op.at)] = Before(op.at)]
<1>1. CASE Write
  <2>1. CASE At("write")
    <3>1. Current.file = File(op.at) /\ Current.after = After(op.at) /\ File(op.at) \in Entries
      BY <2>1 DEF Current, File, After, At, OpInv
    <3> QED BY <1>1, <2>1, <3>1 DEF Write, SetContent, Replace, At
  <2>2. CASE At("apply") /\ Current.file \notin Entries
    BY <1>1, <2>2 DEF Write, SetContent, fileVars
  <2> QED BY <1>1, <2>1, <2>2 DEF Write
<1>2. CASE Unwrite
  <2>1. CASE At("unwrite")
    <3>1. Current.file = File(op.at) /\ Current.before = Before(op.at) /\ File(op.at) \in Entries
      BY <2>1 DEF Current, File, Before, At, OpInv
    <3> QED BY <1>2, <2>1, <3>1 DEF Unwrite, SetContent, Replace, At
  <2>2. CASE At("undo") /\ Current.file \notin Entries
    BY <1>2, <2>2 DEF Unwrite, SetContent, fileVars
  <2> QED BY <1>2, <2>1, <2>2 DEF Unwrite
<1>3. CASE \E e \in Entries, switch \in BOOLEAN, v \in Versions : Start(e, switch, v)
  BY <1>3 DEF Start, fileVars
<1>4. CASE \E e \in Entries : Uninstall(e)
  BY <1>4 DEF Uninstall, fileVars
<1>5. CASE \E f \in OwnFiles : Tidy(f)
  BY <1>5 DEF Tidy, fileVars
<1> QED
  BY <1>1, <1>2, <1>3, <1>4, <1>5
  DEF ClientNext, Connect, Plan, ForgetPending, Check, Fail, CheckUndo, FailUndo, Undone, Applied,
      Finish, Killed, fileVars

(* The service writes the entry it has read, or puts back what it had read. *)
LEMMA LocalFiles ==
  ASSUME LocalInv, LocalNext
  PROVE  /\ UNCHANGED edits
         /\ \/ UNCHANGED disturbed
            \/ /\ lop.pc # "off" /\ lop'.pc = "off"
               /\ disturbed' = disturbed \cup {lop.entry} /\ UNCHANGED entry
         /\ \/ UNCHANGED entry
            \/ /\ lop.pc = "write" /\ LocalWrite
               /\ entry' = [entry EXCEPT ![lop.entry] = lop.after]
            \/ /\ lop.pc = "restore" /\ LocalRestore
               /\ entry' = [entry EXCEPT ![lop.entry] = lop.seen]
<1>1. CASE \E e \in LocalEntries : LocalInstall(e)
  BY <1>1 DEF LocalInstall, fileVars
<1>2. CASE \E e \in LocalEntries : LocalUninstall(e)
  BY <1>2 DEF LocalUninstall, fileVars
<1>3. CASE LocalWrite
  BY <1>3 DEF LocalWrite, Replace, fileVars
<1>4. CASE LocalWriteFails
  BY <1>4 DEF LocalWriteFails, fileVars
<1>5. CASE LocalCommit
  BY <1>5 DEF LocalCommit, fileVars
<1>6. CASE LocalRestore
  BY <1>6 DEF LocalRestore, Replace, LeaveDisturbed, LocalIdle, fileVars
<1>7. CASE \E p \in Programs : Restart(p)
  BY <1>7 DEF Restart, LeaveDisturbed, LocalIdle, fileVars
<1> QED BY <1>1, <1>2, <1>3, <1>4, <1>5, <1>6, <1>7 DEF LocalNext

LEMMA UserFiles ==
  ASSUME FilesInv, NEW e \in Entries, UserWrites(e)
  PROVE  /\ disturbed' = disturbed \cup {e} /\ edits' \in 0..MaxEdits /\ edits' # edits
         /\ DOMAIN entry' = Entries /\ entry' = [f \in Entries |-> entry'[f]]
         /\ IsContent(entry'[e])
         /\ \A f \in Entries \ {e} : entry'[f] = entry[f]
<1>1. edits' = edits + 1 /\ edits' \in 0..MaxEdits /\ disturbed' = disturbed \cup {e}
  BY Constants DEF UserWrites, FilesInv
<1>2. \E x : IsContent(x) /\ entry' = [entry EXCEPT ![e] = x]
  <2>1. CASE \E c \in Commands, s \in HookStates :
               entry' = [entry EXCEPT ![e] = [exists |-> TRUE, other |-> edits + 1,
                                              hooks |-> [entry[e].hooks EXCEPT ![c] = s]]]
    <3> PICK c \in Commands, s \in HookStates :
               entry' = [entry EXCEPT ![e] = [exists |-> TRUE, other |-> edits + 1,
                                              hooks |-> [entry[e].hooks EXCEPT ![c] = s]]]
      BY <2>1
    <3>1. IsContent([exists |-> TRUE, other |-> edits + 1,
                     hooks |-> [entry[e].hooks EXCEPT ![c] = s]])
      BY <1>1 DEF FilesInv, IsContent, Contents
    <3> QED BY <3>1
  <2>2. IsContent([Blank EXCEPT !.other = edits + 1])
    BY <1>1, OwnContent DEF Blank, IsContent, Contents
  <2> QED BY <2>1, <2>2, OwnContent DEF UserWrites
<1>3. PICK x : IsContent(x) /\ entry' = [entry EXCEPT ![e] = x]
  BY <1>2
<1>4. entry'[e] = x /\ DOMAIN entry' = Entries /\ \A f \in Entries \ {e} : entry'[f] = entry[f]
  BY <1>3 DEF FilesInv
<1>5. entry' = [f \in Entries |-> entry'[f]]
  BY <1>3, <1>4 DEF FilesInv
<1>6. edits' # edits
  BY <1>1 DEF UserWrites, FilesInv
<1> QED BY <1>1, <1>3, <1>4, <1>5, <1>6

(* One entry is written. *)
LEMMA OneEntryWritten ==
  ASSUME FilesInv, NEW f \in Entries, NEW x, IsContent(x), f \in Calm' => Neat(f, x),
         entry' = [entry EXCEPT ![f] = x], UNCHANGED <<edits, disturbed>>,
         raced \subseteq raced', raced' \subseteq Entries
  PROVE  FilesInv' /\ entry'[f] = x /\ \A e \in Entries \ {f} : entry'[e] = entry[e]
<1>1. entry'[f] = x /\ DOMAIN entry' = Entries /\ \A e \in Entries \ {f} : entry'[e] = entry[e]
  BY DEF FilesInv
<1>2. entry' = [e \in Entries |-> entry'[e]]
  BY <1>1 DEF FilesInv
<1>3. Calm' \subseteq Calm
  BY CalmShrinks
<1>4. ASSUME NEW e \in Entries PROVE IsContent(entry'[e]) /\ (e \in Calm' => Neat(e, entry'[e]))
  BY <1>1, <1>3 DEF FilesInv
<1> QED BY <1>1, <1>2, <1>4 DEF FilesInv

LEMMA EntriesUnchanged ==
  ASSUME FilesInv, UNCHANGED <<entry, edits>>, disturbed \subseteq disturbed',
         raced \subseteq raced', disturbed' \subseteq Entries, raced' \subseteq Entries
  PROVE  FilesInv'
<1>1. Calm' \subseteq Calm
  BY CalmShrinks
<1>2. \A e \in Entries : IsContent(entry'[e]) /\ (e \in Calm' => Neat(e, entry'[e]))
  BY <1>1 DEF FilesInv
<1> QED BY <1>2 DEF FilesInv

(* Where the client stands when it writes an entry. *)
LEMMA WriteIsPlanned ==
  ASSUME OpInv, WorkInv, op.pc \in {"write", "unwrite"}
  PROVE  op.at \in Steps /\ File(op.at) \in Entries /\ EntryEdit(op.at) /\ PlanInv
<1>1. Working /\ op.at \in Steps /\ File(op.at) \in Entries
  BY DEF Working, Forward, Backward, OpInv, Steps
<1> QED BY <1>1 DEF WorkInv, PlanInv

LEMMA Windows ==
  ASSUME OpInv, WorkInv, LocalInv
  PROVE  ClientWindow \subseteq Entries /\ LocalWindow \subseteq Entries
<1>1. ClientWindow \subseteq Entries
  BY WriteIsPlanned DEF ClientWindow, Current, File
<1>2. LocalWindow \subseteq Entries
  BY LocalAssumption DEF LocalWindow, LocalInv, LopInv
<1> QED BY <1>1, <1>2

(* Histories only grow. *)
LEMMA Histories ==
  ASSUME Inv, Next
  PROVE  /\ disturbed \subseteq disturbed' /\ raced \subseteq raced'
         /\ disturbed' \subseteq Entries /\ raced' \subseteq Entries
         /\ Calm' \subseteq Calm
<1>1. disturbed \subseteq Entries /\ raced \subseteq Entries
  BY DEF Inv, FilesInv
<1>2. raced \subseteq raced' /\ raced' \subseteq Entries
  <2>1. Races(LocalWindow) \/ Races(ClientWindow) \/ Races(ClientWindow \cup LocalWindow)
    BY DEF Next
  <2>2. ClientWindow \subseteq Entries /\ LocalWindow \subseteq Entries
    BY Windows DEF Inv
  <2> QED BY <1>1, <2>1, <2>2 DEF Races
<1>3. disturbed \subseteq disturbed' /\ disturbed' \subseteq Entries
  <2>1. CASE ClientNext
    BY <1>1, <2>1, ClientFiles DEF Inv
  <2>2. CASE LocalNext
    <3>1. lop.pc # "off" => lop.entry \in Entries
      BY LocalAssumption DEF Inv, LocalInv, LopInv
    <3> QED BY <1>1, <2>2, <3>1, LocalFiles DEF Inv
  <2>3. CASE \E e \in Entries : UserWrites(e)
    BY <1>1, <2>3, UserFiles DEF Inv
  <2> QED BY <2>1, <2>2, <2>3 DEF Next
<1> QED BY <1>2, <1>3, CalmShrinks

LEMMA FilesStep ==
  ASSUME Inv, Next
  PROVE  FilesInv'
<1>1. CASE ClientNext
  <2>1. CASE UNCHANGED entry
    BY <1>1, <2>1, ClientFiles, Histories, EntriesUnchanged DEF Inv
  <2>2. CASE op.pc = "write" /\ entry' = [entry EXCEPT ![File(op.at)] = After(op.at)]
    <3>1. op.at \in Steps /\ File(op.at) \in Entries /\ EntryEdit(op.at)
      BY <2>2, WriteIsPlanned DEF Inv
    <3> QED BY <1>1, <2>2, <3>1, ClientFiles, Histories, OneEntryWritten DEF Inv, EntryEdit
  <2>3. CASE op.pc = "unwrite" /\ entry' = [entry EXCEPT ![File(op.at)] = Before(op.at)]
    <3>1. op.at \in Steps /\ File(op.at) \in Entries /\ EntryEdit(op.at)
      BY <2>3, WriteIsPlanned DEF Inv
    <3> QED BY <1>1, <2>3, <3>1, ClientFiles, Histories, OneEntryWritten DEF Inv, EntryEdit
  <2> QED BY <1>1, <2>1, <2>2, <2>3, ClientFiles DEF Inv
<1>2. CASE LocalNext
  <2>1. CASE UNCHANGED entry
    BY <1>2, <2>1, LocalFiles, Histories, EntriesUnchanged DEF Inv
  <2>2. ASSUME lop.pc # "off", NEW x \in {lop.seen, lop.after},
               entry' = [entry EXCEPT ![lop.entry] = x], disturbed' = disturbed
        PROVE  FilesInv'
    <3>1. lop.entry \in Entries /\ IsContent(x) /\ (lop.entry \in Calm => Neat(lop.entry, x))
      BY <2>2, LocalAssumption DEF Inv, LocalInv, LopInv
    <3> QED BY <1>2, <2>2, <3>1, LocalFiles, Histories, OneEntryWritten DEF Inv
  <2>3. UNCHANGED entry \/ UNCHANGED disturbed
    BY <1>2, LocalFiles DEF Inv
  <2> QED BY <1>2, <2>1, <2>2, <2>3, LocalFiles DEF Inv
<1>3. CASE \E e \in Entries : UserWrites(e)
  <2> PICK e \in Entries : UserWrites(e)
    BY <1>3
  <2>1. e \notin Calm'
    BY UserFiles DEF Inv, Calm
  <2>2. ASSUME NEW f \in Entries
        PROVE  IsContent(entry'[f]) /\ (f \in Calm' => Neat(f, entry'[f]))
    BY <2>1, UserFiles, Histories DEF Inv, FilesInv
  <2> QED BY <2>2, UserFiles, Histories DEF Inv, FilesInv
<1> QED BY <1>1, <1>2, <1>3 DEF Next

-----------------------------------------------------------------------------
(* The list of edits of an installation. *)
IsList(F, n) == F \in [1..n -> {F[k] : k \in 1..n}]
Around(a, b, F, c, d) == <<a, b>> \o F \o <<c, d>>
IsAround(s, a, b, F, c, d, n) ==
    /\ Len(s) = n + 4 /\ s[1] = a /\ s[2] = b
    /\ \A k \in 1..n : s[k + 2] = F[k]
    /\ s[n + 3] = c /\ s[n + 4] = d

LEMMA AroundSequence ==
  ASSUME NEW a, NEW b, NEW c, NEW d, NEW n \in Nat, NEW F, IsList(F, n)
  PROVE  IsAround(Around(a, b, F, c, d), a, b, F, c, d, n)
<1> DEFINE S == {a, b, c, d} \cup {F[k] : k \in 1..n}
           front == <<a, b>>
           back == <<c, d>>
           head == front \o F
<1>1. front \in Seq(S) /\ back \in Seq(S) /\ Len(front) = 2 /\ Len(back) = 2
  OBVIOUS
<1>2. F \in Seq(S) /\ Len(F) = n
  BY DEF IsList
<1>3. /\ head \in Seq(S) /\ Len(head) = n + 2
      /\ \A i \in 1..(n + 2) : head[i] = IF i <= 2 THEN front[i] ELSE F[i - 2]
  BY <1>1, <1>2, ConcatProperties
<1>4. /\ Len(head \o back) = n + 4
      /\ \A i \in 1..(n + 4) : (head \o back)[i] = IF i <= n + 2 THEN head[i] ELSE back[i - (n + 2)]
  <2> HIDE DEF head, back, S
  <2>1. /\ Len(head \o back) = Len(head) + Len(back)
        /\ \A i \in 1..(Len(head) + Len(back)) :
              (head \o back)[i] = IF i <= Len(head) THEN head[i] ELSE back[i - Len(head)]
    BY <1>1, <1>3, ConcatProperties
  <2>2. Len(head) = n + 2 /\ Len(head) + Len(back) = n + 4
    BY <1>1, <1>3
  <2> QED BY <2>1, <2>2
<1>5. front[1] = a /\ front[2] = b /\ back[1] = c /\ back[2] = d
  OBVIOUS
<1> HIDE DEF head, front, back
<1>6. (head \o back)[1] = a /\ (head \o back)[2] = b
  <2>1. 1 \in 1..(n + 2) /\ 2 \in 1..(n + 2) /\ 1 \in 1..(n + 4) /\ 2 \in 1..(n + 4)
        /\ 1 <= n + 2 /\ 2 <= n + 2
    OBVIOUS
  <2>2. head[1] = front[1] /\ head[2] = front[2]
    BY <1>3, <2>1
  <2>3. head[1] = a /\ head[2] = b
    BY <1>5, <2>2
  <2>4. (head \o back)[1] = head[1] /\ (head \o back)[2] = head[2]
    BY <1>4, <2>1
  <2> QED BY <2>3, <2>4
<1>7. ASSUME NEW k \in 1..n PROVE (head \o back)[k + 2] = F[k]
  <2>1. k + 2 \in 1..(n + 2) /\ k + 2 \in 1..(n + 4) /\ ~(k + 2 <= 2) /\ (k + 2) - 2 = k
    OBVIOUS
  <2>2. head[k + 2] = F[(k + 2) - 2]
    BY <1>3, <2>1
  <2>3. (head \o back)[k + 2] = head[k + 2]
    BY <1>4, <2>1
  <2> QED BY <2>1, <2>2, <2>3
<1>8. (head \o back)[n + 3] = c /\ (head \o back)[n + 4] = d
  <2>1. n + 3 \in 1..(n + 4) /\ n + 4 \in 1..(n + 4) /\ ~(n + 3 <= n + 2) /\ ~(n + 4 <= n + 2)
        /\ (n + 3) - (n + 2) = 1 /\ (n + 4) - (n + 2) = 2
    OBVIOUS
  <2> QED BY <1>4, <1>5, <2>1
<1>9. Around(a, b, F, c, d) = head \o back
  BY DEF Around, head, front, back
<1> QED BY <1>4, <1>6, <1>7, <1>8, <1>9 DEF IsAround

LEMMA OrdersOf ==
  ASSUME NEW S, IsFiniteSet(S), NEW gone \in Orders(S)
  PROVE  /\ Cardinality(S) \in Nat /\ DOMAIN gone = 1..Cardinality(S)
         /\ \A k \in 1..Cardinality(S) : gone[k] \in S
         /\ \A x \in S : \E k \in 1..Cardinality(S) : gone[k] = x
         /\ \A j, k \in 1..Cardinality(S) : gone[j] = gone[k] => j = k
<1>1. Cardinality(S) \in Nat
  BY FS_CardinalityType
<1>2. gone \in [1..Cardinality(S) -> S]
  BY DEF Orders, Bijection, Surjection
<1>3. \A x \in S : \E k \in 1..Cardinality(S) : gone[k] = x
  BY DEF Orders, Bijection, Surjection
<1>4. \A j, k \in 1..Cardinality(S) : gone[j] = gone[k] => j = k
  BY <1>2 DEF Orders, Bijection, Injection, IsInjective
<1> QED BY <1>1, <1>2, <1>3, <1>4

LEMMA GivenUpEntries ==
  ASSUME OwnInv, NEW e, NEW switch
  PROVE  GivenUp(e, switch) \subseteq Entries /\ IsFiniteSet(GivenUp(e, switch))
<1>1. GivenUp(e, switch) \subseteq Entries
  BY DEF GivenUp, Recorded, OwnInv, IsManifest, Manifests
<1> QED BY <1>1, EntryAssumption, FS_Subset

LEMMA InstallPlan ==
  ASSUME OwnInv, NEW e \in Entries, NEW switch, NEW v, NEW r1, NEW r2,
         NEW gone \in Orders(GivenUp(e, switch)), NEW n, n = Cardinality(GivenUp(e, switch))
  PROVE  LET E == InstallEdits(e, switch, v, r1, r2, gone)
         IN  /\ n \in Nat /\ Len(E) = n + 4
             /\ E[1] = Edit(r1, Wanted(r1, v)) /\ E[2] = Edit(r2, Wanted(r2, v))
             /\ \A k \in 1..n : E[k + 2] = Removal(gone[k])
             /\ E[n + 3] = Edit(e, Hooked(e, entry[e], Client))
             /\ E[n + 4] = Edit("manifest", Installed(e, switch, v))
<1>1. n \in Nat /\ DOMAIN gone = 1..n
  BY GivenUpEntries, OrdersOf
<1> DEFINE F == [k \in DOMAIN gone |-> Removal(gone[k])]
<1>2. IsList(F, n) /\ \A k \in 1..n : F[k] = Removal(gone[k])
  BY <1>1 DEF IsList
<1> HIDE DEF F
<1>3. PICK a, b, c, d : /\ a = Edit(r1, Wanted(r1, v)) /\ b = Edit(r2, Wanted(r2, v))
                        /\ c = Edit(e, Hooked(e, entry[e], Client))
                        /\ d = Edit("manifest", Installed(e, switch, v))
  OBVIOUS
<1>4. InstallEdits(e, switch, v, r1, r2, gone) = <<a, b>> \o F \o <<c, d>>
  BY <1>3 DEF InstallEdits, F
<1>5. PICK f : f = F
  OBVIOUS
<1>6. IsList(f, n)
  BY <1>2, <1>5
<1>7. IsAround(Around(a, b, f, c, d), a, b, f, c, d, n)
  BY <1>1, <1>6, AroundSequence
<1>8. InstallEdits(e, switch, v, r1, r2, gone) = Around(a, b, f, c, d)
  BY <1>4, <1>5 DEF Around
<1> QED BY <1>1, <1>2, <1>3, <1>5, <1>7, <1>8 DEF IsAround

LEMMA OwnNames ==
    /\ Adapter = {"code", "connection"} /\ OwnFiles = {"code", "connection", "manifest", "enrolled"}
    /\ \A f \in OwnFiles : f \notin Entries
    /\ \A v \in Versions : v \in Nat /\ v # 0
  BY ClientAssumption DEF Adapter, OwnFiles

LEMMA CredentialType ==
  ASSUME OwnInv
  PROVE  Credential \in 0..nodes /\ Credential \in Nat /\ nodes \in Nat
  BY DEF Credential, OwnInv

LEMMA EditOf ==
  ASSUME NEW f, NEW x
  PROVE  /\ Edit(f, x).file = f /\ Edit(f, x).after = x
         /\ Edit(f, x).before = IF f \in Entries THEN entry[f] ELSE own[f]
  BY DEF Edit, Content

(* client.json after an installation, and after a removal. *)
LEMMA InstalledManifest ==
  ASSUME OwnInv, NEW e \in Entries, NEW switch \in BOOLEAN, NEW v \in Versions,
         Accepted(e, switch, v), Credential # 0
  PROVE  LET m == Installed(e, switch, v)
         IN  /\ IsManifest(m)
             /\ m.entries = (Recorded \ GivenUp(e, switch)) \cup {e}
             /\ \A r \in Adapter : m.adapter[r] = Wanted(r, v) /\ m.adapter[r] # 0
<1> DEFINE m == Installed(e, switch, v)
           old == own["manifest"]
<1>1. /\ m.entries = (Recorded \ GivenUp(e, switch)) \cup {e}
      /\ m.made = (old.made \ GivenUp(e, switch))
                     \cup (IF e \notin Recorded /\ ~entry[e].exists THEN {e} ELSE {})
      /\ m.adapter = [r \in Adapter |-> Wanted(r, v)]
      /\ m = [entries |-> m.entries, made |-> m.made, adapter |-> m.adapter]
  BY DEF Installed
<1>2. /\ old.entries = Recorded /\ Recorded \subseteq Entries /\ old.made \subseteq Recorded
      /\ \A x, y \in Recorded : x # y /\ SameAgent(x, y) => AgentOf[x] \notin Exclusive
  BY DEF Recorded, OwnInv, IsManifest, Manifests
<1>3. \A r \in Adapter : Wanted(r, v) \in Nat /\ Wanted(r, v) # 0
  BY CredentialType, OwnNames DEF Wanted
<1> HIDE DEF m, old
<1>4. m.entries \in SUBSET Entries /\ m.made \in SUBSET Entries /\ m.made \subseteq m.entries
  BY <1>1, <1>2
<1>5. m.adapter \in [Adapter -> Nat] /\ \A r \in Adapter : m.adapter[r] = Wanted(r, v)
  BY <1>1, <1>3
<1>6. m \in Manifests
  BY <1>1, <1>4, <1>5 DEF Manifests
<1>7. ASSUME NEW x \in Recorded \ GivenUp(e, switch), x # e, SameAgent(x, e)
      PROVE  AgentOf[x] \notin Exclusive /\ AgentOf[e] \notin Exclusive
  <2>1. AgentOf[x] = AgentOf[e]
    BY <1>7 DEF SameAgent
  <2>2. AgentOf[e] \in Exclusive => FALSE
    BY <1>7 DEF Accepted, GivenUp
  <2> QED BY <2>1, <2>2
<1>8. \A x, y \in m.entries : x # y /\ SameAgent(x, y) => AgentOf[x] \notin Exclusive
  BY <1>1, <1>2, <1>7 DEF SameAgent
<1>9. IsManifest(m)
  BY <1>4, <1>6, <1>8 DEF IsManifest
<1> QED BY <1>1, <1>3, <1>5, <1>9 DEF m

LEMMA UninstalledManifest ==
  ASSUME OwnInv, NEW e \in Recorded
  PROVE  LET m == Uninstalled(e)
         IN  /\ IsManifest(m) /\ m.entries = Recorded \ {e}
             /\ m.entries # {} => m.adapter = own["manifest"].adapter
<1>1. CASE Recorded = {e}
  <2>1. Uninstalled(e) = NoManifest
    BY <1>1 DEF Uninstalled
  <2>2. IsManifest(NoManifest) /\ NoManifest.entries = {}
    BY DEF NoManifest, IsManifest, Manifests
  <2> QED BY <1>1, <2>1, <2>2
<1>2. CASE Recorded # {e}
  <2> DEFINE m == Uninstalled(e)
             old == own["manifest"]
  <2>1. /\ m = [entries |-> Recorded \ {e}, made |-> old.made \ {e}, adapter |-> old.adapter]
        /\ m.entries = Recorded \ {e} /\ m.made = old.made \ {e} /\ m.adapter = old.adapter
    BY <1>2 DEF Uninstalled
  <2>2. /\ Recorded \subseteq Entries /\ old.made \subseteq Recorded
        /\ old.adapter \in [Adapter -> Nat]
        /\ \A x, y \in Recorded : x # y /\ SameAgent(x, y) => AgentOf[x] \notin Exclusive
    BY DEF Recorded, OwnInv, IsManifest, Manifests
  <2> HIDE DEF m
  <2>3. m \in Manifests
    BY <2>1, <2>2 DEF Manifests
  <2>4. IsManifest(m)
    BY <2>1, <2>2, <2>3 DEF IsManifest
  <2> QED BY <2>1, <2>4 DEF m
<1> QED BY <1>1, <1>2

(* The edit that takes the client's hook out of a recorded entry, and the    *)
(* edit that puts it in.                                                     *)
OnlyClientChanges(old, new) ==
    /\ IsContent(old) /\ IsContent(new) /\ new.other = old.other
    /\ \A c \in Commands \ {Client} : new.hooks[c] = old.hooks[c]

LEMMA RemovalEdit ==
  ASSUME FilesInv, NEW e \in Entries, Removable(e, entry[e], Client, TRUE)
  PROVE  /\ Removal(e).file = e /\ Removal(e).before = entry[e]
         /\ OnlyClientChanges(entry[e], Removal(e).after)
         /\ Removal(e).after.hooks[Client] = "none"
         /\ e \in Calm => Neat(e, entry[e]) /\ Neat(e, Removal(e).after)
<1>1. PICK made \in BOOLEAN : made <=> (e \in own["manifest"].made)
  <2>1. CASE e \in own["manifest"].made
    BY <2>1, TRUE \in BOOLEAN
  <2>2. CASE e \notin own["manifest"].made
    BY <2>2, FALSE \in BOOLEAN
  <2> QED BY <2>1, <2>2
<1>2. /\ Removal(e).file = e /\ Removal(e).before = entry[e]
      /\ Removal(e).after = Unhooked(e, entry[e], Client, made)
  BY <1>1, EditOf DEF Removal
<1>3. IsContent(entry[e]) /\ (e \in Calm => Neat(e, entry[e]))
  BY DEF FilesInv
<1>4. /\ IsContent(Removal(e).after) /\ Removal(e).after.other = entry[e].other
      /\ \A d \in Commands :
            Removal(e).after.hooks[d] = IF d = Client THEN "none" ELSE entry[e].hooks[d]
      /\ Neat(e, entry[e]) => Neat(e, Removal(e).after)
  <2>1. e \notin Documents => entry[e] \in {Absent, Own(Client)}
    BY DEF Removable
  <2> QED BY <1>2, <1>3, <2>1, UnhookedContent, Constants
<1> QED BY <1>2, <1>3, <1>4, Constants DEF OnlyClientChanges

LEMMA HookEdit ==
  ASSUME FilesInv, NEW e \in Entries, Installable(e, entry[e], Client)
  PROVE  LET new == Hooked(e, entry[e], Client)
         IN  /\ OnlyClientChanges(entry[e], new)
             /\ new.hooks[Client] = "full"
             /\ e \in Calm => Neat(e, entry[e]) /\ Neat(e, new)
<1>1. IsContent(entry[e]) /\ (e \in Calm => Neat(e, entry[e]))
  BY DEF FilesInv
<1> QED BY <1>1, HookedContent, Constants DEF OnlyClientChanges

(* What a new plan is: the conditions of PlanInv in terms of the state in    *)
(* which it is made.                                                         *)
LEMMA NewEntryEdit ==
  ASSUME Inv, NEW k, NEW e \in Entries, NEW E, E[k].file = e, E[k].before = entry[e],
         OnlyClientChanges(entry[e], E[k].after),
         E[k].after.hooks[Client] = IF e \in E[Len(E)].after.entries THEN "full" ELSE "none",
         e \in Calm => Neat(e, entry[e]) /\ Neat(e, E[k].after),
         E[Len(E)].before.entries = Recorded,
         op'.edits = E, Calm' \subseteq Calm, UNCHANGED <<crashes, leftovers>>, ~Working
  PROVE  EntryEdit(k)'
<1>1. File(k)' = e /\ Before(k)' = entry[e] /\ After(k)' = E[k].after
  BY DEF File, Before, After
<1>2. Old' = Recorded /\ New' = E[Len(E)].after.entries
  BY DEF Old, New, Before, After, Last
<1>3. Unmarred' = Unmarred
  BY DEF Unmarred
<1>4. Unmarred /\ e \in Calm => entry[e].hooks[Client] = IF e \in Recorded THEN "full" ELSE "none"
  BY DEF Inv, HooksInv, Expected
<1> QED BY <1>1, <1>2, <1>3, <1>4 DEF EntryEdit, OnlyClientChanges

LEMMA InstallationIsPlanned ==
  ASSUME Inv, Plan, Next, op' # Idle
  PROVE  OpInv' /\ WorkInv'
<1> PICK e, switch, v : e = op.target /\ switch = op.switch /\ v = op.version
  OBVIOUS
<1>1. /\ op.pc = "plan" /\ e \in Entries /\ switch \in BOOLEAN /\ v \in Versions
      /\ Credential # 0 /\ ~Working
  BY DEF Plan, At, Inv, OpInv, Waiting, Working, Forward, Backward
<1>2. Accepted(e, switch, v)
  BY DEF Plan
<1>3. PICK r1 \in Adapter, r2 \in Adapter, gone \in Orders(GivenUp(e, switch)) :
         /\ r1 # r2
         /\ op' = [pc |-> "apply", at |-> 1, left |-> {"enrolled"},
                   edits |-> InstallEdits(e, switch, v, r1, r2, gone)]
  BY DEF Plan
<1>4. UNCHANGED <<own, nodes, crashes, leftovers>> /\ Calm' \subseteq Calm
  BY Histories DEF Plan
<1>5. PICK n, E : n = Cardinality(GivenUp(e, switch))
                  /\ E = InstallEdits(e, switch, v, r1, r2, gone)
  OBVIOUS
<1>6. op'.pc = "apply" /\ op'.at = 1 /\ op'.left = {"enrolled"} /\ op'.edits = E
      /\ op' = [pc |-> op'.pc, edits |-> op'.edits, at |-> op'.at, left |-> op'.left]
  BY <1>3, <1>5
<1>7. /\ n \in Nat /\ Len(E) = n + 4
      /\ E[1] = Edit(r1, Wanted(r1, v)) /\ E[2] = Edit(r2, Wanted(r2, v))
      /\ \A k \in 1..n : E[k + 2] = Removal(gone[k])
      /\ E[n + 3] = Edit(e, Hooked(e, entry[e], Client))
      /\ E[n + 4] = Edit("manifest", Installed(e, switch, v))
  BY <1>1, <1>5, InstallPlan DEF Inv
<1>8. /\ GivenUp(e, switch) \subseteq Entries /\ GivenUp(e, switch) \subseteq Recorded
      /\ e \notin GivenUp(e, switch)
      /\ \A k \in 1..n : gone[k] \in GivenUp(e, switch)
      /\ \A x \in GivenUp(e, switch) : \E k \in 1..n : gone[k] = x
      /\ \A j, k \in 1..n : gone[j] = gone[k] => j = k
  <2>1. GivenUp(e, switch) \subseteq Entries /\ IsFiniteSet(GivenUp(e, switch))
    BY GivenUpEntries DEF Inv
  <2>2. GivenUp(e, switch) \subseteq Recorded /\ e \notin GivenUp(e, switch)
    BY DEF GivenUp
  <2> QED BY <1>5, <2>1, <2>2, OrdersOf
<1>9. PICK M : M = Installed(e, switch, v)
  OBVIOUS
<1>10. /\ IsManifest(M) /\ M.entries = (Recorded \ GivenUp(e, switch)) \cup {e}
       /\ \A r \in Adapter : M.adapter[r] = Wanted(r, v) /\ M.adapter[r] # 0
  BY <1>1, <1>2, <1>9, InstalledManifest DEF Inv
<1>11. /\ E[1].file = r1 /\ E[1].before = own[r1] /\ E[1].after = Wanted(r1, v)
       /\ E[2].file = r2 /\ E[2].before = own[r2] /\ E[2].after = Wanted(r2, v)
       /\ E[n + 4].file = "manifest" /\ E[n + 4].before = own["manifest"] /\ E[n + 4].after = M
       /\ E[n + 3].file = e /\ E[n + 3].before = entry[e]
       /\ E[n + 3].after = Hooked(e, entry[e], Client)
  BY <1>1, <1>7, <1>9, EditOf, OwnNames
<1>12. ASSUME NEW k \in 1..n
       PROVE  /\ E[k + 2].file = gone[k] /\ E[k + 2].before = entry[gone[k]]
              /\ OnlyClientChanges(entry[gone[k]], E[k + 2].after)
              /\ E[k + 2].after.hooks[Client] = "none"
              /\ gone[k] \in Calm => Neat(gone[k], entry[gone[k]]) /\ Neat(gone[k], E[k + 2].after)
  <2>1. gone[k] \in Entries /\ Removable(gone[k], entry[gone[k]], Client, TRUE)
    BY <1>2, <1>8 DEF Accepted
  <2> QED BY <1>7, <2>1, RemovalEdit DEF Inv
<1>13. \A k \in 1..(n + 4) : k = 1 \/ k = 2 \/ k = n + 3 \/ k = n + 4 \/ \E j \in 1..n : k = j + 2
  <2> TAKE k \in 1..(n + 4)
  <2>1. k - 2 \in 1..n \/ k = 1 \/ k = 2 \/ k = n + 3 \/ k = n + 4
    BY <1>7
  <2>2. k = (k - 2) + 2
    OBVIOUS
  <2> QED BY <2>1, <2>2
<1>14. Last' = n + 4 /\ Steps' = 1..(n + 4) /\ Forward' /\ ~Waiting' /\ Working'
  BY <1>6, <1>7 DEF Last, Steps, Forward, Waiting, Working
<1>15. OpInv'
  <2>1. op'.left \subseteq OwnFiles
    BY <1>6, OwnNames
  <2>2. op'.at \in 1..(Last' + 1) /\ Last' \in Nat
    BY <1>6, <1>7, <1>14
  <2> QED BY <1>6, <1>14, <2>1, <2>2 DEF OpInv, OpStates
<1>16. \A k \in 1..(n + 4) : File(k)' = E[k].file /\ Before(k)' = E[k].before /\ After(k)' = E[k].after
  BY <1>6 DEF File, Before, After
<1>17. Old' = Recorded /\ New' = M.entries /\ Before(Last)' = own["manifest"] /\ After(Last)' = M
  <2>1. n + 4 \in 1..(n + 4)
    BY <1>7
  <2>2. Before(n + 4)' = own["manifest"] /\ After(n + 4)' = M
    BY <1>11, <1>16, <2>1
  <2>3. Before(Last)' = own["manifest"] /\ After(Last)' = M
    BY <1>6, <1>7, <1>11 DEF Before, After, Last
  <2> QED BY <2>3 DEF Old, New, Recorded
<1>18. ASSUME NEW k \in 1..(n + 4), E[k].file \in Entries
       PROVE  EntryEdit(k)' /\ (k <= n + 2 => E[k].file \notin M.entries)
  <2>1. E[Len(E)].after.entries = M.entries /\ E[Len(E)].before.entries = Recorded
    BY <1>7, <1>11 DEF Recorded
  <2>2. ASSUME NEW j \in 1..n, k = j + 2
        PROVE  EntryEdit(k)' /\ E[k].file \notin M.entries
    <3>1. gone[j] \notin M.entries /\ gone[j] \in Entries
      BY <1>8, <1>10
    <3>2. /\ E[k].file = gone[j] /\ E[k].before = entry[gone[j]]
          /\ OnlyClientChanges(entry[gone[j]], E[k].after)
          /\ E[k].after.hooks[Client] = "none"
          /\ gone[j] \in Calm => Neat(gone[j], entry[gone[j]]) /\ Neat(gone[j], E[k].after)
      BY <1>12, <2>2
    <3> HIDE DEF OnlyClientChanges
    <3> QED BY <1>1, <1>4, <1>6, <2>1, <3>1, <3>2, NewEntryEdit
  <2>3. CASE k = n + 3
    <3>1. e \in M.entries
      BY <1>10
    <3>2. /\ OnlyClientChanges(entry[e], E[k].after)
          /\ E[k].after.hooks[Client] = "full"
          /\ e \in Calm => Neat(e, entry[e]) /\ Neat(e, E[k].after)
      BY <1>1, <1>2, <1>11, <2>3, HookEdit DEF Accepted, Inv
    <3>3. EntryEdit(k)'
      BY <1>1, <1>4, <1>6, <1>11, <2>1, <2>3, <3>1, <3>2, NewEntryEdit
    <3> QED BY <1>7, <2>3, <3>3
  <2>4. k # 1 /\ k # 2 /\ k # n + 4
    BY <1>11, <1>18, OwnNames
  <2> QED BY <1>13, <2>2, <2>3, <2>4
<1>19. ASSUME NEW k \in {1, 2}, NEW r \in {r1, r2}, k = IF r = r1 THEN 1 ELSE 2
       PROVE  /\ File(k)' = r /\ Before(k)' = own[r] /\ After(k)' = Wanted(r, v)
              /\ k \in 1..(n + 4) /\ AdapterEdit(k)'
  <2>1. File(k)' = r /\ Before(k)' = own[r] /\ After(k)' = Wanted(r, v) /\ k \in 1..(n + 4)
    BY <1>3, <1>7, <1>11, <1>16, <1>19
  <2>2. Recorded # {} => Wanted(r, v) = own[r]
    BY <1>2, <1>3 DEF Accepted, AdapterAccepted, Inv, OwnInv, RecordedHooksHaveAdapter
  <2>3. Recorded = {} => own[r] = 0
    BY <1>2, <1>3 DEF Accepted, AdapterAccepted
  <2>4. r = "code" => own[r] \in Versions \cup {0} /\ Wanted(r, v) \in Versions \cup {0}
    BY <1>1 DEF Wanted, Inv, OwnInv
  <2>5. r = "connection" => /\ own[r] \in 0..nodes /\ Wanted(r, v) \in 0..nodes
                            /\ own[r] # 0 => Wanted(r, v) = own[r]
    BY CredentialType DEF Wanted, Credential, Inv, OwnInv
  <2> QED BY <1>4, <1>17, <2>1, <2>2, <2>3, <2>4, <2>5 DEF AdapterEdit
<1>20. /\ File(1)' = r1 /\ Before(1)' = own[r1] /\ After(1)' = Wanted(r1, v) /\ AdapterEdit(1)'
       /\ File(2)' = r2 /\ Before(2)' = own[r2] /\ After(2)' = Wanted(r2, v) /\ AdapterEdit(2)'
       /\ 1 \in 1..(n + 4) /\ 2 \in 1..(n + 4)
  BY <1>3, <1>19
<1>21. {r1, r2} = Adapter /\ r1 \notin Entries /\ r2 \notin Entries /\ "manifest" \notin Entries
       /\ r1 # "manifest" /\ r2 # "manifest"
  BY <1>3, OwnNames
<1>22. \A k \in 1..(n + 4) :
          File(k)' = IF k = 1 THEN r1 ELSE IF k = 2 THEN r2 ELSE IF k = n + 3 THEN e
                     ELSE IF k = n + 4 THEN "manifest" ELSE gone[k - 2]
  <2> TAKE k \in 1..(n + 4)
  <2>1. CASE \E j \in 1..n : k = j + 2
    <3> PICK j \in 1..n : k = j + 2
      BY <2>1
    <3>1. File(k)' = gone[j] /\ k - 2 = j /\ k # 1 /\ k # 2 /\ k # n + 3 /\ k # n + 4
      BY <1>7, <1>12, <1>16
    <3> QED BY <3>1
  <2> QED BY <1>7, <1>11, <1>13, <1>16, <2>1
<1>23. \A k \in 3..(n + 2) : k - 2 \in 1..n /\ gone[k - 2] \in Entries /\ gone[k - 2] # e
  BY <1>7, <1>8
<1>24. \A k \in 1..(n + 4) : File(k)' \in Entries \cup Adapter \cup {"manifest"}
                             /\ (File(k)' = "manifest" <=> k = n + 4)
                             /\ (File(k)' \in Adapter <=> k \in {1, 2})
                             /\ (File(k)' \in Entries <=> k \in 3..(n + 3))
  <2> TAKE k \in 1..(n + 4)
  <2>1. k \in {1, 2} \/ k \in 3..(n + 2) \/ k = n + 3 \/ k = n + 4
    BY <1>7
  <2>2. CASE k \in 3..(n + 2)
    <3>1. File(k)' = gone[k - 2] /\ gone[k - 2] \in Entries
      BY <1>7, <1>22, <1>23, <2>2
    <3> QED BY <1>7, <1>21, <2>2, <3>1, OwnNames
  <2> QED BY <1>1, <1>7, <1>21, <1>22, <2>1, <2>2, OwnNames
<1>25. ASSUME NEW j \in 1..(n + 4), NEW k \in 1..(n + 4), File(j)' = File(k)'
       PROVE  j = k
  <2>1. CASE j \in 3..(n + 2) /\ k \in 3..(n + 2)
    <3>1. gone[j - 2] = gone[k - 2]
      BY <1>7, <1>22, <1>25, <2>1
    <3>2. j - 2 = k - 2
      BY <1>8, <1>23, <2>1, <3>1
    <3> QED BY <1>7, <3>2
  <2>2. CASE (j \in 3..(n + 2) /\ k = n + 3) \/ (k \in 3..(n + 2) /\ j = n + 3)
    BY <1>7, <1>22, <1>23, <1>25, <2>2
  <2>3. CASE j \in {1, 2} /\ k \in {1, 2}
    BY <1>3, <1>20, <1>25, <2>3
  <2>4. j \in {1, 2} \/ j \in 3..(n + 2) \/ j = n + 3 \/ j = n + 4
    BY <1>7
  <2>5. k \in {1, 2} \/ k \in 3..(n + 2) \/ k = n + 3 \/ k = n + 4
    BY <1>7
  <2>6. (j \in {1, 2} <=> k \in {1, 2}) /\ (j = n + 4 <=> k = n + 4)
    BY <1>24, <1>25
  <2>7. CASE j = n + 3 /\ k = n + 3
    BY <2>7
  <2> QED BY <2>1, <2>2, <2>3, <2>4, <2>5, <2>6, <2>7
<1>26. ASSUME NEW x \in Entries, \A k \in 1..(n + 4) : File(k)' # x
       PROVE  x \in Old' <=> x \in New'
  <2>1. x # e
    <3>1. n + 3 \in 1..(n + 4) /\ E[n + 3].file = e
      BY <1>7, <1>11
    <3> QED BY <1>16, <1>26, <3>1
  <2>2. x \notin GivenUp(e, switch)
    <3>1. ASSUME NEW k \in 1..n PROVE gone[k] # x
      <4>1. k + 2 \in 1..(n + 4) /\ E[k + 2].file = gone[k]
        BY <1>7, <1>12
      <4> QED BY <1>16, <1>26, <4>1
    <3> QED BY <1>8, <3>1
  <2> QED BY <1>10, <1>17, <2>1, <2>2
<1>27. PlanInv'
  <2>1. Last' > 0 /\ Last' - 2 = n + 2
    BY <1>7, <1>14
  <2>2. \A k \in Steps' : File(k)' \in Entries => EntryEdit(k)'
    BY <1>14, <1>16, <1>18
  <2>3. \A k \in 1..(Last' - 2) : File(k)' \in Entries => File(k)' \notin New'
    <3> TAKE k \in 1..(Last' - 2)
    <3>1. k \in 1..(n + 4) /\ k <= n + 2
      BY <1>7, <2>1
    <3> QED BY <1>16, <1>17, <1>18, <3>1
  <2>4. \A k \in Steps' : File(k)' \in Adapter => AdapterEdit(k)'
    BY <1>14, <1>20, <1>24
  <2>5. IsManifest(Before(Last)') /\ IsManifest(After(Last)')
    BY <1>10, <1>17 DEF Inv, OwnInv
  <2> QED BY <1>14, <1>24, <1>25, <1>26, <2>1, <2>2, <2>3, <2>4, <2>5 DEF PlanInv
<1>28. Installing'
  <2>1. New' # {}
    BY <1>10, <1>17
  <2>2. ASSUME NEW r \in Adapter
        PROVE  /\ After(Last)'.adapter[r] # 0
               /\ \E k \in Steps' : File(k)' = r /\ After(k)' = After(Last)'.adapter[r]
    BY <1>10, <1>14, <1>17, <1>20, <1>21
  <2> QED BY <1>6, <2>1, <2>2 DEF Installing
<1>29. ProgressInv'
  <2>1. ASSUME NEW k \in 1..(n + 4), File(k)' \in OwnFiles
        PROVE  own[File(k)'] = Before(k)' /\ ~(k < op'.at)
    <3>1. k \in {1, 2} \/ k = n + 4
      BY <1>7, <1>24, <2>1, OwnNames
    <3> QED BY <1>6, <1>7, <1>11, <1>16, <1>20, <2>1, <3>1
  <2> QED BY <1>4, <1>14, <2>1 DEF ProgressInv, IsApplied
<1> QED BY <1>15, <1>27, <1>28, <1>29 DEF WorkInv

LEMMA RemovalIsPlanned ==
  ASSUME Inv, NEW e \in Entries, Uninstall(e), Next
  PROVE  OpInv' /\ WorkInv'
<1>1. /\ op.pc = "off" /\ e \in Recorded /\ Removable(e, entry[e], Client, TRUE) /\ ~Working
      /\ UNCHANGED <<own, nodes, crashes, leftovers>> /\ Calm' \subseteq Calm
  BY Histories DEF Uninstall, At, Working, Forward, Backward
<1>2. PICK R, M, E : R = Removal(e) /\ M = Uninstalled(e) /\ E = <<R, Edit("manifest", M)>>
  OBVIOUS
<1>3. /\ op'.pc = "apply" /\ op'.at = 1 /\ op'.edits = E
      /\ op'.left = IF Recorded = {e} THEN Adapter ELSE {}
      /\ op' = [pc |-> op'.pc, edits |-> op'.edits, at |-> op'.at, left |-> op'.left]
  BY <1>2 DEF Uninstall
<1>4. Len(E) = 2 /\ E[1] = R /\ E[2] = Edit("manifest", M)
  BY <1>2
<1>5. /\ E[2].file = "manifest" /\ E[2].before = own["manifest"] /\ E[2].after = M
      /\ E[1].file = e /\ E[1].before = entry[e]
      /\ OnlyClientChanges(entry[e], E[1].after) /\ E[1].after.hooks[Client] = "none"
      /\ e \in Calm => Neat(e, entry[e]) /\ Neat(e, E[1].after)
  <2>1. E[2].file = "manifest" /\ E[2].before = own["manifest"] /\ E[2].after = M
    <3>1. "manifest" \notin Entries
      BY OwnNames
    <3> QED BY <1>4, <3>1, EditOf
  <2>2. /\ R.file = e /\ R.before = entry[e]
        /\ OnlyClientChanges(entry[e], R.after) /\ R.after.hooks[Client] = "none"
        /\ e \in Calm => Neat(e, entry[e]) /\ Neat(e, R.after)
    <3> HIDE DEF OnlyClientChanges
    <3> QED BY <1>1, <1>2, RemovalEdit DEF Inv
  <2> QED BY <1>4, <2>1, <2>2
<1>6. /\ IsManifest(M) /\ M.entries = Recorded \ {e}
      /\ M.entries # {} => M.adapter = own["manifest"].adapter
  BY <1>1, <1>2, UninstalledManifest DEF Inv
<1>7. Last' = 2 /\ Steps' = {1, 2} /\ Forward' /\ ~Waiting' /\ Working'
  BY <1>3, <1>4 DEF Last, Steps, Forward, Waiting, Working
<1>8. OpInv'
  BY <1>3, <1>7, OwnNames DEF OpInv, OpStates
<1>9. /\ File(1)' = e /\ File(2)' = "manifest"
      /\ Before(2)' = own["manifest"] /\ After(2)' = M
      /\ Before(Last)' = own["manifest"] /\ After(Last)' = M
  BY <1>3, <1>4, <1>5 DEF File, Before, After, Last
<1>10. Old' = Recorded /\ New' = Recorded \ {e}
  BY <1>6, <1>9 DEF Old, New, Recorded
<1>11. EntryEdit(1)'
  <2>1. E[Len(E)].after.entries = Recorded \ {e} /\ E[Len(E)].before.entries = Recorded
    BY <1>4, <1>5, <1>6 DEF Recorded
  <2> HIDE DEF OnlyClientChanges
  <2> QED BY <1>1, <1>3, <1>5, <2>1, NewEntryEdit
<1>12. e \notin Adapter /\ e # "manifest" /\ "manifest" \notin Entries \cup Adapter
  BY OwnNames
<1>13. PlanInv'
  <2>1. Last' > 0 /\ 1..(Last' - 2) = {}
    BY <1>7
  <2>2. IsManifest(Before(Last)') /\ IsManifest(After(Last)')
    BY <1>6, <1>9 DEF Inv, OwnInv
  <2> QED BY <1>7, <1>9, <1>10, <1>11, <1>12, <2>1, <2>2 DEF PlanInv
<1>14. Uninstalling'
  <2>1. CASE Recorded = {e}
    BY <1>1, <1>3, <1>7, <1>9, <1>10, <1>12, <2>1, OwnNames DEF Uninstalling
  <2>2. CASE Recorded # {e}
    <3>1. New' # {} /\ op'.left = {} /\ After(Last)'.adapter = Before(Last)'.adapter
      BY <1>1, <1>3, <1>6, <1>9, <1>10, <2>2
    <3> QED BY <1>1, <1>7, <1>9, <1>10, <1>12, <3>1, OwnNames DEF Uninstalling
  <2> QED BY <2>1, <2>2
<1>15. ProgressInv'
  BY <1>1, <1>3, <1>7, <1>9, OwnNames DEF ProgressInv, IsApplied
<1> QED BY <1>8, <1>13, <1>14, <1>15 DEF WorkInv

-----------------------------------------------------------------------------
(* The steps of an operation. *)
LEMMA PlanKept ==
  ASSUME PlanInv, Calm' \subseteq Calm, UNCHANGED <<crashes, nodes>>, op'.edits = op.edits,
         leftovers => leftovers'
  PROVE  PlanInv'
<1>1. /\ Last' = Last /\ Steps' = Steps /\ Old' = Old /\ New' = New
      /\ \A k : File(k)' = File(k) /\ Before(k)' = Before(k) /\ After(k)' = After(k)
      /\ Before(Last)' = Before(Last) /\ After(Last)' = After(Last)
  BY DEF Last, Steps, Old, New, File, Before, After
<1>2. Unmarred' => Unmarred
  BY DEF Unmarred
<1>3. ASSUME NEW k \in Steps, File(k) \in Entries PROVE EntryEdit(k)'
  <2>1. EntryEdit(k)
    BY <1>3 DEF PlanInv
  <2> QED BY <1>1, <1>2, <2>1 DEF EntryEdit
<1>4. ASSUME NEW k \in Steps, File(k) \in Adapter PROVE AdapterEdit(k)'
  <2>1. AdapterEdit(k)
    BY <1>4 DEF PlanInv
  <2> QED BY <1>1, <2>1 DEF AdapterEdit
<1> QED BY <1>1, <1>3, <1>4 DEF PlanInv

LEMMA KindKept ==
  ASSUME Installing \/ Uninstalling, op'.edits = op.edits, op'.left = op.left
  PROVE  (Installing \/ Uninstalling)'
<1>1. /\ Last' = Last /\ Steps' = Steps /\ Old' = Old /\ New' = New
      /\ \A k : File(k)' = File(k) /\ Before(k)' = Before(k) /\ After(k)' = After(k)
      /\ Before(Last)' = Before(Last) /\ After(Last)' = After(Last)
  BY DEF Last, Steps, Old, New, File, Before, After
<1>2. CASE Installing
  BY <1>1, <1>2 DEF Installing
<1>3. CASE Uninstalling
  BY <1>1, <1>3 DEF Uninstalling
<1> QED BY <1>2, <1>3

(* An operation that goes on applying or undoing its edits. *)
LEMMA WorkGoesOn ==
  ASSUME Inv, Next, Working, NEW p \in {"apply", "write", "undo", "unwrite"}, NEW a \in Nat,
         op' = [op EXCEPT !.pc = p, !.at = a],
         UNCHANGED <<crashes, nodes>>, leftovers => leftovers',
         p = "apply" => a \in 1..(Last + 1),
         p = "write" => a \in Steps /\ File(a) \in Entries,
         p = "undo" => a \in 0..(Last - 1),
         p = "unwrite" => a \in 1..(Last - 1) /\ File(a) \in Entries,
         ProgressInv'
  PROVE  OpInv' /\ WorkInv'
<1>1. ~Waiting /\ op = [pc |-> op.pc, edits |-> op.edits, at |-> op.at, left |-> op.left]
  BY DEF Inv, OpInv, Waiting, Working, Forward, Backward
<1>2. /\ op'.pc = p /\ op'.at = a /\ op'.edits = op.edits /\ op'.left = op.left
      /\ op' = [pc |-> op'.pc, edits |-> op'.edits, at |-> op'.at, left |-> op'.left]
  BY <1>1
<1>3. Last' = Last /\ Steps' = Steps /\ \A k : File(k)' = File(k)
  BY <1>2 DEF Last, Steps, File
<1>4. OpInv'
  BY <1>2, <1>3 DEF Inv, OpInv, OpStates, Waiting
<1>5. PlanInv'
  BY <1>2, PlanKept, Histories DEF Inv, WorkInv
<1>6. (Installing \/ Uninstalling)'
  BY <1>2, KindKept DEF Inv, WorkInv
<1> QED BY <1>4, <1>5, <1>6 DEF WorkInv

(* The operation is over, and nothing is worked on. *)
LEMMA WorkIsOver ==
  ASSUME op' = Idle
  PROVE  OpInv' /\ WorkInv'
<1>1. op'.pc = "off" /\ op'.left = {} /\ Last' = 0
  BY DEF Idle, Last
<1> QED BY <1>1 DEF OpInv, OpStates, Waiting, WorkInv, Working, Forward, Backward, Idle

(* Steps of others. *)
LEMMA WorkIsKept ==
  ASSUME Inv, Calm' \subseteq Calm, UNCHANGED clientVars
  PROVE  OpInv' /\ WorkInv'
<1>1. UNCHANGED <<own, op, nodes, crashes, leftovers>>
  BY DEF clientVars
<1>2. /\ Last' = Last /\ Steps' = Steps /\ \A k : File(k)' = File(k) /\ After(k)' = After(k)
      /\ \A k : Before(k)' = Before(k) /\ IsApplied(k)' = IsApplied(k)
      /\ Credential' = Credential
  BY <1>1 DEF Last, Steps, File, Before, After, IsApplied, Forward, Credential
<1>3. OpInv'
  BY <1>1, <1>2 DEF Inv, OpInv, Waiting
<1>4. ASSUME Working PROVE PlanInv' /\ (Installing \/ Uninstalling)' /\ ProgressInv'
  <2>1. PlanInv'
    BY <1>1, <1>4, PlanKept DEF Inv, WorkInv
  <2>2. (Installing \/ Uninstalling)'
    BY <1>1, <1>4, KindKept DEF Inv, WorkInv
  <2>3. ProgressInv'
    BY <1>1, <1>2, <1>4 DEF Inv, WorkInv, ProgressInv, Backward
  <2> QED BY <2>1, <2>2, <2>3
<1> QED BY <1>1, <1>3, <1>4 DEF WorkInv, Working, Forward, Backward

(* Where the operation stands in its list. *)
LEMMA CurrentEdit ==
    Current.file = File(op.at) /\ Current.before = Before(op.at) /\ Current.after = After(op.at)
  BY DEF Current, File, Before, After

(* The edit at hand is applied, or undone. *)
LEMMA OneEditDone ==
  ASSUME Inv, Working, op.at \in Steps, op'.edits = op.edits,
         leftovers => leftovers',
         NEW x \in {Before(op.at), After(op.at)},
         \/ File(op.at) \in Entries /\ UNCHANGED own
         \/ File(op.at) \notin Entries /\ own' = [own EXCEPT ![File(op.at)] = x],
         \/ Forward /\ Forward' /\ op'.at = op.at + 1 /\ x = After(op.at)
         \/ Backward /\ Backward' /\ op'.at = op.at - 1 /\ x = Before(op.at)
  PROVE  ProgressInv'
<1>1. /\ Last' = Last /\ Steps' = Steps
      /\ \A k : File(k)' = File(k) /\ Before(k)' = Before(k) /\ After(k)' = After(k)
  BY DEF Last, Steps, File, Before, After
<1>2. PlanInv /\ ProgressInv /\ (Forward => ~Backward) /\ (Forward' => ~Backward')
  BY DEF Inv, WorkInv, Forward, Backward
<1>3. op.at \in Nat /\ Steps \subseteq Nat
  BY DEF Steps
<1>4. ASSUME NEW k \in Steps, File(k) \in OwnFiles, k # op.at
      PROVE  own'[File(k)] = own[File(k)] /\ IsApplied(k)' = IsApplied(k)
  <2>1. File(k) # File(op.at)
    BY <1>2, <1>4 DEF PlanInv
  <2>2. own'[File(k)] = own[File(k)]
    BY <2>1, <1>4 DEF Inv, OwnInv
  <2>3. IsApplied(k)' = IsApplied(k)
    BY <1>2, <1>3, <1>4 DEF IsApplied
  <2> QED BY <2>2, <2>3
<1>5. ASSUME NEW k \in Steps, File(k) \in OwnFiles, k = op.at
      PROVE  own'[File(k)] = x /\ (Forward => IsApplied(k)') /\ (Backward => ~IsApplied(k)')
  <2>1. File(k) \notin Entries
    BY <1>5, OwnNames
  <2>2. own'[File(k)] = x
    BY <1>5, <2>1 DEF Inv, OwnInv
  <2>3. (Forward => IsApplied(k)') /\ (Backward => ~IsApplied(k)')
    BY <1>2, <1>3, <1>5 DEF IsApplied
  <2> QED BY <2>2, <2>3
<1>6. \A k \in Steps : File(k) \in OwnFiles /\ k # op.at =>
         IF IsApplied(k)' THEN own'[File(k)] = After(k)
         ELSE \/ own'[File(k)] = Before(k)
              \/ leftovers' /\ Backward' /\ k < Last /\ own'[File(k)] = After(k)
  BY <1>2, <1>4 DEF ProgressInv
<1> QED BY <1>1, <1>2, <1>5, <1>6 DEF ProgressInv

LEMMA ProgressIsKept ==
  ASSUME Inv, Working, Working', UNCHANGED own, op'.edits = op.edits,
         leftovers => leftovers', Backward => Backward',
         \A k \in Steps : File(k) \in OwnFiles =>
            \/ IsApplied(k)' = IsApplied(k)
            \/ IsApplied(k) /\ ~IsApplied(k)' /\ leftovers' /\ Backward' /\ k < Last
  PROVE  ProgressInv'
<1>1. /\ Last' = Last /\ Steps' = Steps
      /\ \A k : File(k)' = File(k) /\ Before(k)' = Before(k) /\ After(k)' = After(k)
  BY DEF Last, Steps, File, Before, After
<1> QED BY <1>1 DEF Inv, WorkInv, ProgressInv

LEMMA EditsAreDone ==
  ASSUME Inv, Next, Write \/ Unwrite
  PROVE  OpInv' /\ WorkInv'
<1>1. CASE Write
  <2>1. op.at \in Steps /\ Forward /\ Working /\ Last \in Nat
    BY <1>1 DEF Write, At, Inv, OpInv, Forward, Working, Last, Steps
  <2>2. op' = [op EXCEPT !.pc = "apply", !.at = op.at + 1] /\ UNCHANGED <<nodes, crashes, leftovers>>
    BY <1>1 DEF Write
  <2>3. op'.pc = "apply" /\ op'.at = op.at + 1 /\ op'.edits = op.edits /\ Forward'
    BY <2>2, <2>1 DEF Inv, OpInv, Waiting, Working, Forward, Backward
  <2>4. \/ File(op.at) \in Entries /\ UNCHANGED own
        \/ File(op.at) \notin Entries /\ own' = [own EXCEPT ![File(op.at)] = After(op.at)]
    BY <1>1, CurrentEdit DEF Write, SetContent
  <2>5. ProgressInv'
    BY <2>1, <2>2, <2>3, <2>4, OneEditDone
  <2>6. op.at + 1 \in 1..(Last + 1) /\ op.at + 1 \in Nat
    BY <2>1 DEF Steps
  <2> QED BY <2>1, <2>2, <2>5, <2>6, WorkGoesOn
<1>2. CASE Unwrite
  <2>1. op.at \in Steps /\ op.at \in 1..(Last - 1) /\ Backward /\ Working /\ Last \in Nat
    BY <1>2 DEF Unwrite, At, Inv, OpInv, Backward, Working, Last, Steps
  <2>2. op' = [op EXCEPT !.pc = "undo", !.at = op.at - 1] /\ UNCHANGED <<nodes, crashes, leftovers>>
    BY <1>2 DEF Unwrite
  <2>3. op'.pc = "undo" /\ op'.at = op.at - 1 /\ op'.edits = op.edits /\ Backward'
    BY <2>2, <2>1 DEF Inv, OpInv, Waiting, Working, Forward, Backward
  <2>4. \/ File(op.at) \in Entries /\ UNCHANGED own
        \/ File(op.at) \notin Entries /\ own' = [own EXCEPT ![File(op.at)] = Before(op.at)]
    BY <1>2, CurrentEdit DEF Unwrite, SetContent
  <2>5. ProgressInv'
    BY <2>1, <2>2, <2>3, <2>4, OneEditDone
  <2>6. op.at - 1 \in 0..(Last - 1) /\ op.at - 1 \in Nat
    BY <2>1 DEF Steps
  <2> QED BY <2>1, <2>2, <2>5, <2>6, WorkGoesOn
<1> QED BY <1>1, <1>2

LEMMA EditsAreLookedAt ==
  ASSUME Inv, Next, Check \/ CheckUndo \/ Fail \/ FailUndo
  PROVE  OpInv' /\ WorkInv'
<1>1. /\ Working /\ Last \in Nat /\ op.at \in Nat /\ op.at \in Steps /\ (Forward => ~Backward)
      /\ UNCHANGED <<own, nodes, crashes>> /\ (leftovers => leftovers')
  BY DEF Check, CheckUndo, Fail, FailUndo, At, Inv, OpInv, Forward, Backward, Working, Last, Steps
<1>2. Steps \subseteq Nat
  BY DEF Steps
<1>3. CASE Check
  <2>1. op.pc = "apply" /\ Forward /\ op' = [op EXCEPT !.pc = "write", !.at = op.at]
    BY <1>1, <1>3 DEF Check, Goto, At, Forward, Inv, OpInv, Waiting
  <2>2. op'.pc = "write" /\ op'.at = op.at /\ op'.edits = op.edits /\ Forward' /\ Working'
    BY <1>1, <2>1 DEF Inv, OpInv, Waiting, Forward, Working
  <2>3. File(op.at) \in Entries
    BY <1>3, CurrentEdit DEF Check
  <2>4. ProgressInv'
    BY <1>1, <2>1, <2>2, ProgressIsKept DEF IsApplied
  <2> QED BY <1>1, <2>1, <2>3, <2>4, WorkGoesOn
<1>4. CASE CheckUndo
  <2>0. op.pc = "undo" /\ Backward /\ op.at \in 1..(Last - 1)
    BY <1>1, <1>4 DEF CheckUndo, At, Backward, Inv, OpInv
  <2>1. op.pc = "undo" /\ op' = [op EXCEPT !.pc = "unwrite", !.at = op.at]
    BY <1>4, <2>0 DEF CheckUndo, Goto, Inv, OpInv, Waiting
  <2>2. op'.pc = "unwrite" /\ op'.at = op.at /\ op'.edits = op.edits /\ Backward' /\ Working' /\ ~Forward'
    BY <1>1, <2>0, <2>1 DEF Inv, OpInv, Waiting, Forward, Backward, Working
  <2>3. File(op.at) \in Entries
    BY <1>4, CurrentEdit DEF CheckUndo
  <2>4. ProgressInv'
    BY <1>1, <2>0, <2>1, <2>2, ProgressIsKept DEF IsApplied
  <2> QED BY <1>1, <2>0, <2>1, <2>3, <2>4, WorkGoesOn
<1>5. CASE Fail
  <2>1. /\ Forward /\ op' = [op EXCEPT !.pc = "undo", !.at = op.at - 1]
        /\ op.at - 1 \in 0..(Last - 1) /\ op.at - 1 \in Nat
    BY <1>1, <1>5 DEF Fail, Forward, Steps
  <2>2. op'.pc = "undo" /\ op'.at = op.at - 1 /\ op'.edits = op.edits /\ Backward' /\ Working' /\ ~Forward'
    BY <1>1, <2>1 DEF Inv, OpInv, Waiting, Forward, Backward, Working
  <2>3. ProgressInv'
    <3>1. \A k \in Steps : IsApplied(k)' = IsApplied(k)
      BY <1>1, <1>2, <2>1, <2>2 DEF IsApplied
    <3> QED BY <1>1, <2>1, <2>2, <3>1, ProgressIsKept
  <2> QED BY <1>1, <2>1, <2>3, WorkGoesOn
<1>6. CASE FailUndo
  <2>1. /\ Backward /\ op' = [op EXCEPT !.pc = "undo", !.at = op.at - 1] /\ leftovers'
        /\ op.at \in 1..(Last - 1) /\ op.at - 1 \in 0..(Last - 1) /\ op.at - 1 \in Nat
    BY <1>1, <1>6 DEF FailUndo, Backward, Inv, OpInv, At
  <2>2. op'.pc = "undo" /\ op'.at = op.at - 1 /\ op'.edits = op.edits /\ Backward' /\ Working' /\ ~Forward'
    BY <1>1, <2>1 DEF Inv, OpInv, Waiting, Forward, Backward, Working
  <2>3. ProgressInv'
    <3>1. \A k \in Steps : \/ IsApplied(k)' = IsApplied(k)
                           \/ IsApplied(k) /\ ~IsApplied(k)' /\ k < Last
      BY <1>1, <1>2, <2>1, <2>2 DEF IsApplied
    <3> QED BY <1>1, <2>1, <2>2, <3>1, ProgressIsKept
  <2> QED BY <1>1, <2>1, <2>3, WorkGoesOn
<1> QED BY <1>3, <1>4, <1>5, <1>6

LEMMA OperationStep ==
  ASSUME Inv, Next, ClientNext
  PROVE  OpInv' /\ WorkInv'
<1>1. CASE \E e \in Entries, switch \in BOOLEAN, v \in Versions : Start(e, switch, v)
  <2> PICK e \in Entries, switch \in BOOLEAN, v \in Versions : Start(e, switch, v)
    BY <1>1
  <2>1. PICK p \in {"connect", "plan"} : p = IF Credential = 0 THEN "connect" ELSE "plan"
    OBVIOUS
  <2>2. /\ op'.pc = p /\ op'.target = e /\ op'.switch = switch /\ op'.version = v
        /\ op'.edits = <<>> /\ op'.at = 0 /\ op'.left = {} /\ Len(op'.edits) = 0
        /\ op' = [pc |-> op'.pc, target |-> op'.target, switch |-> op'.switch,
                  version |-> op'.version, edits |-> <<>>, at |-> 0, left |-> {}]
    BY <2>1 DEF Start
  <2>3. Credential' = Credential
    BY DEF Start, Credential
  <2>4. OpInv'
    BY <2>1, <2>2, <2>3 DEF OpInv, OpStates, Waiting, Last
  <2> QED BY <2>1, <2>2, <2>4 DEF WorkInv, Working, Forward, Backward
<1>2. CASE Connect /\ op' # Idle
  <2>1. /\ op.pc = "connect" /\ op' = [op EXCEPT !.pc = "plan"]
        /\ own' = [own EXCEPT !["enrolled"] = nodes + 1]
    BY <1>2 DEF Connect, Goto, At
  <2>2. /\ op = [pc |-> op.pc, target |-> op.target, switch |-> op.switch,
                 version |-> op.version, edits |-> <<>>, at |-> 0, left |-> {}]
        /\ op.target \in Entries /\ op.switch \in BOOLEAN /\ op.version \in Versions
    BY <2>1 DEF Inv, OpInv, Waiting
  <2>3. /\ op'.pc = "plan" /\ op'.target = op.target /\ op'.switch = op.switch
        /\ op'.version = op.version /\ op'.edits = <<>> /\ op'.at = 0 /\ op'.left = {}
        /\ op' = [pc |-> op'.pc, target |-> op'.target, switch |-> op'.switch,
                  version |-> op'.version, edits |-> <<>>, at |-> 0, left |-> {}]
    <3>1. PICK t, s, v : t = op.target /\ s = op.switch /\ v = op.version
      OBVIOUS
    <3>2. op = [pc |-> "connect", target |-> t, switch |-> s, version |-> v,
                edits |-> <<>>, at |-> 0, left |-> {}]
      BY <2>1, <2>2, <3>1
    <3>3. op' = [pc |-> "plan", target |-> t, switch |-> s, version |-> v,
                 edits |-> <<>>, at |-> 0, left |-> {}]
      BY <2>1, <3>2
    <3> QED BY <3>1, <3>3
  <2>4. Credential' # 0
    <3>1. own["connection"] = 0 \/ own["connection"] # 0
      OBVIOUS
    <3>2. own'["enrolled"] = nodes + 1 /\ own'["connection"] = own["connection"] /\ nodes + 1 # 0
      BY <2>1, OwnNames DEF Inv, OwnInv
    <3> QED BY <3>1, <3>2 DEF Credential
  <2>5. Len(op'.edits) = 0
    BY <2>3
  <2>6. OpInv'
    BY <2>2, <2>3, <2>4, <2>5 DEF OpInv, OpStates, Waiting, Last
  <2> QED BY <2>3, <2>6 DEF WorkInv, Working, Forward, Backward
<1>3. CASE Plan /\ op' # Idle
  BY <1>3, InstallationIsPlanned
<1>4. CASE \E e \in Entries : Uninstall(e)
  BY <1>4, RemovalIsPlanned
<1>5. CASE ForgetPending
  <2>1. op' = op /\ op.pc = "off"
    BY <1>5 DEF ForgetPending, At
  <2>2. OpInv'
    <3>1. op'.pc = "off" /\ Last' = Last
      BY <2>1 DEF Last
    <3> QED BY <2>1, <3>1 DEF Inv, OpInv, Waiting
  <2> QED BY <2>1, <2>2 DEF WorkInv, Working, Forward, Backward
<1>6. CASE Applied
  <2>1. /\ op.pc = "apply" /\ op' = [op EXCEPT !.pc = "tidy"] /\ op.at = Last + 1 /\ Last \in Nat
        /\ op.left \subseteq OwnFiles
        /\ op = [pc |-> op.pc, edits |-> op.edits, at |-> op.at, left |-> op.left]
    BY <1>6 DEF Applied, At, Last, Inv, OpInv, Waiting
  <2>2. /\ op'.pc = "tidy" /\ op'.edits = op.edits /\ op'.at = op.at /\ op'.left = op.left
        /\ op' = [pc |-> op'.pc, edits |-> op'.edits, at |-> op'.at, left |-> op'.left]
    BY <2>1
  <2>3. Last' = Last
    BY <2>2 DEF Last
  <2>4. OpInv'
    BY <2>1, <2>2, <2>3 DEF OpInv, OpStates, Waiting
  <2> QED BY <2>2, <2>4 DEF WorkInv, Working, Forward, Backward
<1>7. CASE \E f \in OwnFiles : Tidy(f)
  <2> PICK f \in OwnFiles : Tidy(f)
    BY <1>7
  <2>1. /\ op.pc = "tidy" /\ op' = [op EXCEPT !.left = op.left \ {f}] /\ op.at = Last + 1 /\ Last \in Nat
        /\ op.left \subseteq OwnFiles
        /\ op = [pc |-> op.pc, edits |-> op.edits, at |-> op.at, left |-> op.left]
    BY DEF Tidy, At, Inv, OpInv, Waiting
  <2>2. /\ op'.pc = "tidy" /\ op'.edits = op.edits /\ op'.at = op.at /\ op'.left = op.left \ {f}
        /\ op' = [pc |-> op'.pc, edits |-> op'.edits, at |-> op'.at, left |-> op'.left]
    BY <2>1
  <2>3. Last' = Last
    BY <2>2 DEF Last
  <2>4. OpInv'
    BY <2>1, <2>2, <2>3 DEF OpInv, OpStates, Waiting
  <2> QED BY <2>2, <2>4 DEF WorkInv, Working, Forward, Backward
<1>8. CASE Undone \/ Finish \/ Killed \/ op' = Idle
  BY <1>8, WorkIsOver DEF Undone, Finish, Killed
<1> QED
  BY <1>1, <1>2, <1>3, <1>4, <1>5, <1>6, <1>7, <1>8, EditsAreDone, EditsAreLookedAt
  DEF ClientNext

-----------------------------------------------------------------------------
(* What a step does to the client's files. *)
OwnWrite(f, x) == own' = [own EXCEPT ![f] = x]

LEMMA OneFileWritten ==
  ASSUME OwnInv, NEW f \in OwnFiles, NEW x, OwnWrite(f, x)
  PROVE  /\ own'[f] = x /\ \A g \in OwnFiles \ {f} : own'[g] = own[g]
         /\ DOMAIN own' = OwnFiles /\ own' = [g \in OwnFiles |-> own'[g]]
<1>1. own'[f] = x /\ DOMAIN own' = OwnFiles /\ \A g \in OwnFiles \ {f} : own'[g] = own[g]
  BY DEF OwnInv, OwnWrite
<1>2. own' = [g \in OwnFiles |-> own'[g]]
  BY <1>1 DEF OwnInv, OwnWrite
<1> QED BY <1>1, <1>2

(* The operation has not come to the manifest. *)
LEMMA ManifestIsNext ==
  ASSUME OpInv, WorkInv, Working, op.at \in Steps \cup {0}
  PROVE  /\ own["manifest"] = Before(Last) /\ Recorded = Old
         /\ File(Last) = "manifest" /\ Last \in Steps /\ Last \in Nat
         /\ \A k \in Steps : k # Last => k < Last
<1>1. PlanInv /\ ProgressInv /\ Last \in Nat /\ Last > 0 /\ Last \in Steps
  BY DEF WorkInv, PlanInv, OpInv, Steps
<1>2. \A k \in Steps : k # Last => k < Last
  BY <1>1 DEF Steps
<1>3. File(Last) = "manifest"
  BY <1>1 DEF PlanInv
<1>4. \A k : k = Last => ~IsApplied(k)
  BY <1>1 DEF IsApplied, Working, Forward, Backward, OpInv, Steps
<1>5. own["manifest"] = Before(Last)
  BY <1>1, <1>3, <1>4, OwnNames DEF ProgressInv
<1> QED BY <1>1, <1>2, <1>3, <1>5 DEF Recorded, Old

LEMMA OwnSteps ==
  ASSUME Inv, ClientNext
  PROVE  \/ UNCHANGED <<own, nodes>>
         \/ op.pc = "connect" /\ nodes' = nodes + 1 /\ OwnWrite("enrolled", nodes + 1)
         \/ op.pc = "off" /\ nodes' = nodes /\ OwnWrite("enrolled", 0)
         \/ /\ op.pc = "tidy" /\ nodes' = nodes
            /\ \E f \in op.left : OwnWrite(f, 0) /\ op'.left = op.left \ {f} /\ op'.pc = "tidy"
         \/ /\ Write /\ op.pc = "apply" /\ op.at \in Steps /\ File(op.at) \in Adapter \cup {"manifest"}
            /\ nodes' = nodes /\ OwnWrite(File(op.at), After(op.at))
         \/ /\ Unwrite /\ op.pc = "undo" /\ op.at \in 1..(Last - 1) /\ File(op.at) \in Adapter
            /\ nodes' = nodes /\ OwnWrite(File(op.at), Before(op.at))
<1>1. CASE Write
  <2>1. op.at \in Steps /\ Working /\ nodes' = nodes
    BY <1>1 DEF Write, At, Inv, OpInv, Forward, Working, Last, Steps
  <2>2. File(op.at) \in Entries \cup Adapter \cup {"manifest"}
    BY <2>1 DEF Inv, WorkInv, PlanInv
  <2> QED BY <1>1, <2>1, <2>2, CurrentEdit DEF Write, SetContent, OwnWrite, At, Inv, OpInv
<1>2. CASE Unwrite
  <2>1. op.at \in 1..(Last - 1) /\ Working /\ nodes' = nodes /\ Last \in Nat
    BY <1>2 DEF Unwrite, At, Inv, OpInv, Backward, Working, Last, Steps
  <2>2. op.at \in Steps /\ op.at # Last
    BY <2>1 DEF Steps
  <2>3. File(op.at) \in Entries \cup Adapter
    BY <2>1, <2>2 DEF Inv, WorkInv, PlanInv
  <2> QED BY <1>2, <2>1, <2>3, CurrentEdit DEF Unwrite, SetContent, OwnWrite, At, Inv, OpInv
<1>3. CASE \E f \in OwnFiles : Tidy(f)
  <2> PICK f \in OwnFiles : Tidy(f)
    BY <1>3
  <2>1. op.pc = "tidy" /\ f \in op.left /\ op' = [op EXCEPT !.left = op.left \ {f}]
    BY DEF Tidy, At
  <2>2. op'.left = op.left \ {f} /\ op'.pc = "tidy"
    BY <2>1 DEF Inv, OpInv, Waiting
  <2> QED BY <2>1, <2>2 DEF Tidy, OwnWrite
<1>4. CASE \E e \in Entries, switch \in BOOLEAN, v \in Versions : Start(e, switch, v)
  BY <1>4 DEF Start
<1>5. CASE \E e \in Entries : Uninstall(e)
  BY <1>5 DEF Uninstall
<1>6. CASE Connect \/ ForgetPending
  BY <1>6 DEF Connect, ForgetPending, At, OwnWrite
<1> QED
  BY <1>1, <1>2, <1>3, <1>4, <1>5, <1>6
  DEF ClientNext, Plan, Check, Fail, CheckUndo, FailUndo, Undone, Applied, Finish, Killed

(* The adapter does not change under a hook; the record changes last.       *)
LEMMA AdapterWrite ==
  ASSUME Inv, Working, op.at \in Steps, File(op.at) \in Adapter,
         NEW x \in {Before(op.at), After(op.at)}
  PROVE  /\ Recorded # {} => own[File(op.at)] = x
         /\ File(op.at) = "code" => x \in Versions \cup {0}
         /\ File(op.at) = "connection" => x \in 0..nodes
<1>1. Recorded = Old /\ AdapterEdit(op.at) /\ ProgressInv
  BY ManifestIsNext DEF Inv, WorkInv, PlanInv
<1>2. own[File(op.at)] \in {Before(op.at), After(op.at)}
  <2>1. \A k \in Steps : File(k) \in OwnFiles => own[File(k)] \in {Before(k), After(k)}
    BY <1>1 DEF ProgressInv
  <2> QED BY <2>1, OwnNames
<1> QED BY <1>1, <1>2 DEF AdapterEdit

LEMMA OwnStep ==
  ASSUME Inv, ClientNext
  PROVE  OwnInv'
<1>1. OwnInv /\ nodes \in Nat /\ crashes' \in Nat
  <2>1. OwnInv /\ nodes \in Nat /\ crashes \in Nat
    BY DEF Inv, OwnInv
  <2>2. crashes' = crashes \/ crashes' = crashes + 1
    BY DEF ClientNext, Start, Connect, Plan, Uninstall, ForgetPending, Check, Write, Fail,
           CheckUndo, Unwrite, FailUndo, Undone, Applied, Tidy, Finish, Killed
  <2> QED BY <2>1, <2>2
<1>2. ASSUME NEW f \in {"enrolled", "code", "connection"}, NEW x, OwnWrite(f, x),
             nodes' \in {nodes, nodes + 1},
             f = "enrolled" => x \in 0..nodes',
             f = "code" => x \in Versions \cup {0},
             f = "connection" => x \in 0..nodes',
             f # "enrolled" /\ Recorded # {} => x = own[f]
      PROVE  OwnInv'
  <2>1. /\ own'[f] = x /\ \A g \in OwnFiles \ {f} : own'[g] = own[g]
        /\ DOMAIN own' = OwnFiles /\ own' = [g \in OwnFiles |-> own'[g]]
    BY <1>1, <1>2, OneFileWritten, OwnNames
  <2>2. own'["manifest"] = own["manifest"]
    BY <1>2, <2>1, OwnNames
  <2>3. own'["code"] \in Versions \cup {0}
    BY <1>1, <1>2, <2>1, OwnNames DEF OwnInv
  <2>4. own'["connection"] \in 0..nodes' /\ own'["enrolled"] \in 0..nodes' /\ nodes' \in Nat
    <3>1. \A n \in 0..nodes : n \in 0..nodes'
      BY <1>1, <1>2
    <3>2. own'["connection"] \in 0..nodes'
      BY <1>1, <1>2, <2>1, <3>1, OwnNames DEF OwnInv
    <3>3. own'["enrolled"] \in 0..nodes'
      BY <1>1, <1>2, <2>1, <3>1, OwnNames DEF OwnInv
    <3>4. nodes' \in Nat
      BY <1>1, <1>2
    <3> QED BY <3>2, <3>3, <3>4
  <2>5. RecordedHooksHaveAdapter'
    <3>1. Recorded' = Recorded
      BY <2>2 DEF Recorded
    <3>2. \A r \in Adapter : Recorded # {} => own'[r] = own[r]
      BY <1>2, <2>1, OwnNames
    <3> QED BY <1>1, <2>2, <3>1, <3>2 DEF OwnInv, RecordedHooksHaveAdapter
  <2> QED BY <1>1, <2>1, <2>2, <2>3, <2>4, <2>5 DEF OwnInv
<1>3. CASE UNCHANGED <<own, nodes>>
  BY <1>1, <1>3 DEF OwnInv, RecordedHooksHaveAdapter, Recorded
<1>4. CASE op.pc = "connect" /\ nodes' = nodes + 1 /\ OwnWrite("enrolled", nodes + 1)
  BY <1>1, <1>2, <1>4
<1>5. CASE op.pc = "off" /\ nodes' = nodes /\ OwnWrite("enrolled", 0)
  BY <1>1, <1>2, <1>5
<1>6. CASE op.pc = "tidy" /\ nodes' = nodes /\ \E f \in op.left : OwnWrite(f, 0)
  <2> PICK f \in op.left : OwnWrite(f, 0)
    BY <1>6
  <2>1. f \in {"enrolled", "code", "connection"} /\ (f # "enrolled" => Recorded = {})
    BY <1>6, OwnNames DEF Inv, TidyInv
  <2> QED BY <1>1, <1>2, <1>6, <2>1
<1>7. CASE /\ op.pc = "apply" /\ op.at \in Steps /\ File(op.at) \in Adapter
           /\ nodes' = nodes /\ OwnWrite(File(op.at), After(op.at))
  <2>1. Working
    BY <1>7 DEF Working, Forward
  <2> QED BY <1>1, <1>2, <1>7, <2>1, AdapterWrite, OwnNames
<1>8. CASE /\ op.pc = "undo" /\ op.at \in 1..(Last - 1) /\ File(op.at) \in Adapter
           /\ nodes' = nodes /\ OwnWrite(File(op.at), Before(op.at))
  <2>1. Working /\ op.at \in Steps
    BY <1>8 DEF Working, Backward, Steps, Inv, OpInv
  <2> QED BY <1>1, <1>2, <1>8, <2>1, AdapterWrite, OwnNames
<1>9. CASE /\ op.pc = "apply" /\ op.at \in Steps /\ File(op.at) = "manifest"
           /\ nodes' = nodes /\ OwnWrite(File(op.at), After(op.at))
  <2>1. Working /\ Forward
    BY <1>9 DEF Working, Forward
  <2>2. /\ own["manifest"] = Before(Last) /\ Recorded = Old
        /\ Last \in Steps /\ \A k \in Steps : k # Last => k < Last
    BY <1>9, <2>1, ManifestIsNext DEF Inv
  <2>3. PlanInv /\ ProgressInv /\ (Installing \/ Uninstalling)
    BY <2>1 DEF Inv, WorkInv
  <2>4. op.at = Last
    BY <1>9, <2>3 DEF PlanInv
  <2>5. /\ own'["manifest"] = After(Last) /\ \A g \in OwnFiles \ {"manifest"} : own'[g] = own[g]
        /\ DOMAIN own' = OwnFiles /\ own' = [g \in OwnFiles |-> own'[g]]
    BY <1>1, <1>9, <2>4, OneFileWritten, OwnNames
  <2>6. RecordedHooksHaveAdapter'
    <3>1. Recorded' = New /\ \A r \in Adapter : own'[r] = own[r]
      BY <2>5, OwnNames DEF Recorded, New
    <3>2. ASSUME New # {}, NEW r \in Adapter
          PROVE  own[r] # 0 /\ own[r] = After(Last).adapter[r]
      <4>1. CASE Installing
        <5> PICK k \in Steps : File(k) = r /\ After(k) = After(Last).adapter[r]
          BY <4>1 DEF Installing
        <5>1. k < op.at
          BY <2>2, <2>3, <2>4, OwnNames DEF PlanInv
        <5>2. own[r] = After(k)
          BY <2>1, <2>3, <5>1, OwnNames DEF ProgressInv, IsApplied
        <5> QED BY <4>1, <5>2 DEF Installing
      <4>2. CASE Uninstalling
        <5>1. Recorded # {} /\ After(Last).adapter = own["manifest"].adapter
          BY <2>2, <3>2, <4>2 DEF Uninstalling
        <5> QED BY <1>1, <5>1 DEF OwnInv, RecordedHooksHaveAdapter
      <4> QED BY <2>3, <4>1, <4>2
    <3> QED BY <2>5, <3>1, <3>2 DEF RecordedHooksHaveAdapter
  <2>7. IsManifest(own'["manifest"])
    BY <2>3, <2>5 DEF PlanInv
  <2> QED BY <1>1, <1>9, <2>5, <2>6, <2>7, OwnNames DEF OwnInv
<1> QED BY <1>3, <1>4, <1>5, <1>6, <1>7, <1>8, <1>9, OwnSteps

(* docs/remote-clients.md: a connection is not replaced by another, and an  *)
(* unused credential not by a new enrollment.                               *)
IdentityIsKept ==
    /\ own["connection"] # 0 => own'["connection"] \in {0, own["connection"]}
    /\ own["enrolled"] # 0 => own'["enrolled"] \in {0, own["enrolled"]}
    /\ nodes' # nodes => own["connection"] = 0 /\ own["enrolled"] = 0

LEMMA IdentityStep ==
  ASSUME Inv, ClientNext
  PROVE  IdentityIsKept
<1>1. OwnInv
  BY DEF Inv
<1>2. ASSUME NEW f \in OwnFiles, NEW x, OwnWrite(f, x), nodes' = nodes,
             f \in {"connection", "enrolled"} /\ own[f] # 0 => x \in {0, own[f]}
      PROVE  IdentityIsKept
  BY <1>1, <1>2, OneFileWritten, OwnNames DEF IdentityIsKept
<1>3. CASE UNCHANGED <<own, nodes>>
  BY <1>3 DEF IdentityIsKept
<1>4. CASE op.pc = "connect" /\ nodes' = nodes + 1 /\ OwnWrite("enrolled", nodes + 1)
  <2>1. own["connection"] = 0 /\ own["enrolled"] = 0
    BY <1>4 DEF Inv, OpInv, Credential
  <2> QED BY <2>1 DEF IdentityIsKept
<1>5. CASE op.pc = "off" /\ nodes' = nodes /\ OwnWrite("enrolled", 0)
  BY <1>2, <1>5, OwnNames
<1>6. CASE op.pc = "tidy" /\ nodes' = nodes /\ \E f \in op.left : OwnWrite(f, 0)
  BY <1>2, <1>6 DEF Inv, OpInv
<1>7. ASSUME Working, op.at \in Steps, File(op.at) = "connection", own["connection"] # 0,
             NEW x \in {Before(op.at), After(op.at)}
      PROVE  x \in {0, own["connection"]}
  <2>1. AdapterEdit(op.at) /\ ProgressInv
    BY <1>7, OwnNames DEF Inv, WorkInv, PlanInv
  <2>2. own["connection"] \in {Before(op.at), After(op.at)}
    <3>1. \A k \in Steps : File(k) \in OwnFiles => own[File(k)] \in {Before(k), After(k)}
      BY <2>1 DEF ProgressInv
    <3> QED BY <1>7, <3>1, OwnNames
  <2>3. Before(op.at) # 0 => After(op.at) = Before(op.at)
    BY <1>7, <2>1 DEF AdapterEdit
  <2> QED BY <1>7, <2>2, <2>3
<1>8. CASE /\ op.pc = "apply" /\ op.at \in Steps /\ File(op.at) \in Adapter \cup {"manifest"}
           /\ nodes' = nodes /\ OwnWrite(File(op.at), After(op.at))
  <2>1. Working
    BY <1>8 DEF Working, Forward
  <2> QED BY <1>2, <1>7, <1>8, <2>1, OwnNames
<1>9. CASE /\ op.pc = "undo" /\ op.at \in 1..(Last - 1) /\ File(op.at) \in Adapter
           /\ nodes' = nodes /\ OwnWrite(File(op.at), Before(op.at))
  <2>1. Working /\ op.at \in Steps
    BY <1>9 DEF Working, Backward, Steps, Inv, OpInv
  <2> QED BY <1>2, <1>7, <1>9, <2>1, OwnNames
<1> QED BY <1>3, <1>4, <1>5, <1>6, <1>8, <1>9, OwnSteps

-----------------------------------------------------------------------------
(* What a look is worth, and what is left when an operation is over. *)
LEMMA NextState ==
  ASSUME Inv, ClientNext
  PROVE  /\ op'.pc \in {"write", "unwrite"} => Check \/ CheckUndo
         /\ op'.pc = "tidy" => Applied \/ \E f \in OwnFiles : Tidy(f)
<1>1. Idle.pc = "off"
  BY DEF Idle
<1>2. CASE \E e \in Entries, switch \in BOOLEAN, v \in Versions : Start(e, switch, v)
  <2> PICK p \in {"connect", "plan"} : p = IF Credential = 0 THEN "connect" ELSE "plan"
    OBVIOUS
  <2>1. op'.pc = p
    BY <1>2 DEF Start
  <2> QED BY <2>1
<1>3. CASE Connect
  <2>1. op.pc = "connect"
    BY <1>3 DEF Connect, At
  <2>2. ASSUME op' = [op EXCEPT !.pc = "plan"] PROVE op'.pc = "plan"
    BY <2>1, <2>2 DEF Inv, OpInv, Waiting
  <2> QED BY <1>1, <1>3, <2>2 DEF Connect, Goto
<1>4. CASE Plan \/ (\E e \in Entries : Uninstall(e)) \/ ForgetPending
  <2>1. CASE Plan
    <3>1. op' = Idle \/ op'.pc = "apply"
      BY <2>1 DEF Plan
    <3> QED BY <1>1, <3>1
  <2>2. CASE \E e \in Entries : Uninstall(e)
    <3>1. op'.pc = "apply"
      BY <2>2 DEF Uninstall
    <3> QED BY <3>1
  <2>3. CASE ForgetPending
    BY <2>3 DEF ForgetPending, At
  <2> QED BY <1>4, <2>1, <2>2, <2>3
<1>5. CASE Undone \/ Finish \/ Killed
  BY <1>1, <1>5 DEF Undone, Finish, Killed
<1>6. CASE Write \/ Unwrite \/ Fail \/ FailUndo
  <2>1. op = [pc |-> op.pc, edits |-> op.edits, at |-> op.at, left |-> op.left]
    BY <1>6 DEF Write, Unwrite, Fail, FailUndo, At, Inv, OpInv, Waiting
  <2> QED BY <1>6, <2>1 DEF Write, Unwrite, Fail, FailUndo
<1>7. CASE (\E f \in OwnFiles : Tidy(f)) \/ Applied \/ Check \/ CheckUndo
  <2>1. op.pc \in {"apply", "undo", "tidy"}
    BY <1>7 DEF Tidy, Applied, Check, CheckUndo, At
  <2>2. op = [pc |-> op.pc, edits |-> op.edits, at |-> op.at, left |-> op.left]
    BY <2>1 DEF Inv, OpInv, Waiting
  <2>3. CASE \E f \in OwnFiles : Tidy(f)
    BY <2>2, <2>3 DEF Tidy, At
  <2>4. CASE Applied
    BY <2>2, <2>4 DEF Applied
  <2>5. CASE Check \/ CheckUndo
    BY <2>2, <2>5 DEF Check, CheckUndo, Goto
  <2> QED BY <1>7, <2>3, <2>4, <2>5
<1> QED BY <1>2, <1>3, <1>4, <1>5, <1>6, <1>7 DEF ClientNext

LEMMA WindowOfOperation ==
  ASSUME Inv, ClientNext
  PROVE  WindowInv'
<1>1. op'.pc \in {"write", "unwrite"} => Check \/ CheckUndo
  BY NextState
<1>2. CASE Check
  <2>1. /\ op.pc = "apply" /\ op' = [op EXCEPT !.pc = "write"] /\ UNCHANGED entry
        /\ File(op.at) \in Entries /\ entry[File(op.at)] = Before(op.at)
    BY <1>2, CurrentEdit DEF Check, Goto, At, Unchanged, Content, fileVars
  <2>2. op'.pc = "write" /\ op'.at = op.at /\ op'.edits = op.edits
    BY <2>1 DEF Inv, OpInv, Waiting
  <2> QED BY <2>1, <2>2 DEF WindowInv, File, Before
<1>3. CASE CheckUndo
  <2>1. /\ op.pc = "undo" /\ op' = [op EXCEPT !.pc = "unwrite"] /\ UNCHANGED entry
        /\ File(op.at) \in Entries /\ entry[File(op.at)] = After(op.at)
    BY <1>3, CurrentEdit DEF CheckUndo, Goto, At, Unchanged, Content, fileVars
  <2>2. op'.pc = "unwrite" /\ op'.at = op.at /\ op'.edits = op.edits
    BY <2>1 DEF Inv, OpInv, Waiting
  <2> QED BY <2>1, <2>2 DEF WindowInv, File, After
<1> QED BY <1>1, <1>2, <1>3 DEF WindowInv

LEMMA WindowOfOthers ==
  ASSUME Inv, Next, UNCHANGED clientVars, NEW W, ClientWindow \subseteq W, Races(W)
  PROVE  WindowInv'
<1>1. UNCHANGED op
  BY DEF clientVars
<1>2. \A k : File(k)' = File(k) /\ Before(k)' = Before(k) /\ After(k)' = After(k)
  BY <1>1 DEF File, Before, After
<1>3. ASSUME op.pc \in {"write", "unwrite"}
      PROVE  /\ File(op.at) \in raced => File(op.at) \in raced'
             /\ File(op.at) \in raced' \/ entry'[File(op.at)] = entry[File(op.at)]
  <2>1. File(op.at) \in W
    BY <1>3, CurrentEdit DEF ClientWindow
  <2> QED BY <2>1 DEF Races
<1>4. PICK f, b, a : f = File(op.at) /\ b = Before(op.at) /\ a = After(op.at)
  OBVIOUS
<1>5. File(op.at)' = f /\ Before(op.at)' = b /\ After(op.at)' = a
  BY <1>1, <1>4 DEF File, Before, After
<1> QED BY <1>1, <1>3, <1>4, <1>5 DEF WindowInv, Inv

(* All edits are applied. *)
LEMMA AllApplied ==
  ASSUME Inv, Applied
  PROVE  /\ own["manifest"] = After(Last) /\ Recorded = New
         /\ op'.pc = "tidy" /\ op'.left = op.left /\ UNCHANGED own
         /\ PlanInv /\ (Installing \/ Uninstalling) /\ Forward /\ Working
         /\ \A k \in Steps : IsApplied(k)
<1>1. op.pc = "apply" /\ op.at = Last + 1 /\ Last \in Nat /\ Forward /\ Working
  BY DEF Applied, At, Last, Inv, OpInv, Forward, Working
<1>2. PlanInv /\ (Installing \/ Uninstalling) /\ ProgressInv
  BY <1>1 DEF Inv, WorkInv
<1>3. Last \in Steps /\ File(Last) = "manifest"
  BY <1>1, <1>2 DEF PlanInv, Steps
<1>4. \A k \in Steps : IsApplied(k)
  BY <1>1 DEF IsApplied, Steps
<1>5. own["manifest"] = After(Last)
  BY <1>2, <1>3, <1>4, OwnNames DEF ProgressInv
<1>6. op'.pc = "tidy" /\ op'.left = op.left /\ UNCHANGED own
  BY <1>1 DEF Applied, Inv, OpInv, Waiting
<1> QED BY <1>1, <1>2, <1>4, <1>5, <1>6 DEF Recorded, New

(* No edit is applied. *)
LEMMA NoneApplied ==
  ASSUME Inv, Undone
  PROVE  /\ Recorded = Old /\ Working /\ Backward /\ PlanInv /\ (Installing \/ Uninstalling)
         /\ op' = Idle /\ UNCHANGED own
         /\ \A k \in Steps : ~IsApplied(k)
         /\ ~leftovers => \A k \in Steps : File(k) \in OwnFiles => own[File(k)] = Before(k)
<1>1. op.pc = "undo" /\ op.at = 0 /\ Backward /\ ~Forward /\ Working /\ op.at \in Steps \cup {0}
  BY DEF Undone, At, Forward, Backward, Working
<1>2. PlanInv /\ (Installing \/ Uninstalling) /\ ProgressInv
  BY <1>1 DEF Inv, WorkInv
<1>3. Recorded = Old
  BY <1>1, ManifestIsNext DEF Inv
<1>4. \A k \in Steps : ~IsApplied(k)
  BY <1>1 DEF IsApplied, Steps
<1>5. ~leftovers => \A k \in Steps : File(k) \in OwnFiles => own[File(k)] = Before(k)
  BY <1>2, <1>4 DEF ProgressInv
<1> QED BY <1>1, <1>2, <1>3, <1>4, <1>5 DEF Undone

LEMMA RecordKept ==
  ASSUME Inv, ClientNext, ~Working
  PROVE  UNCHANGED own["manifest"] /\ Recorded' = Recorded /\ UNCHANGED entry
<1>1. ~Write /\ ~Unwrite
  BY DEF Working, Forward, Backward, Write, Unwrite, At
<1>2. UNCHANGED entry
  BY <1>1, ClientFiles DEF Inv
<1>3. \A x : \A f \in {"enrolled", "code", "connection"} :
         OwnWrite(f, x) => own'["manifest"] = own["manifest"]
  BY OneFileWritten, OwnNames DEF Inv
<1>4. CASE op.pc = "tidy"
  <2>1. op.left \subseteq {"enrolled", "code", "connection"}
    BY <1>4, OwnNames DEF Inv, TidyInv
  <2>2. own'["manifest"] = own["manifest"]
    BY <1>1, <1>3, <1>4, <2>1, OwnSteps
  <2> QED BY <1>2, <2>2 DEF Recorded
<1>5. CASE op.pc # "tidy"
  <2>1. own'["manifest"] = own["manifest"]
    BY <1>1, <1>3, <1>5, OwnSteps
  <2> QED BY <1>2, <2>1 DEF Recorded
<1> QED BY <1>4, <1>5

LEMMA TidyStep ==
  ASSUME Inv, ClientNext
  PROVE  TidyInv'
<1>1. op'.pc = "tidy" => Applied \/ \E f \in OwnFiles : Tidy(f)
  BY NextState
<1>2. CASE Applied
  <2>1. Recorded' = New /\ op'.left = op.left /\ (Installing \/ Uninstalling)
    BY <1>2, AllApplied DEF Recorded
  <2> QED BY <2>1 DEF TidyInv, Installing, Uninstalling
<1>3. CASE \E f \in OwnFiles : Tidy(f)
  <2> PICK f \in OwnFiles : Tidy(f)
    BY <1>3
  <2>1. op.pc = "tidy" /\ op' = [op EXCEPT !.left = op.left \ {f}] /\ ~Working
    BY DEF Tidy, At, Working, Forward, Backward
  <2>2. op'.left = op.left \ {f}
    BY <2>1 DEF Inv, OpInv, Waiting
  <2>3. Recorded' = Recorded
    BY <2>1, RecordKept
  <2> QED BY <2>1, <2>2, <2>3 DEF Inv, TidyInv
<1> QED BY <1>1, <1>2, <1>3 DEF TidyInv

(* The first and the last step of the list. *)
LEMMA PlanSteps ==
  ASSUME Inv, ClientNext, ~Working, Working'
  PROVE  /\ UNCHANGED <<own, entry, crashes, leftovers>>
         /\ op'.pc = "apply" /\ op'.at = 1
<1>1. ~Waiting \/ op.pc = "plan" \/ op.pc = "connect"
  BY DEF Waiting
<1>2. (Plan /\ op' # Idle) \/ \E e \in Entries : Uninstall(e)
  <2>1. Idle.pc = "off" /\ op'.pc \in {"apply", "write", "undo", "unwrite"}
    BY DEF Idle, Working, Forward, Backward
  <2>2. ~(Check \/ CheckUndo \/ Write \/ Unwrite \/ Fail \/ FailUndo \/ Undone \/ Applied)
    BY DEF Check, CheckUndo, Write, Unwrite, Fail, FailUndo, Undone, Applied, At,
           Working, Forward, Backward
  <2>3. ~(Finish \/ Killed) /\ ~(Plan /\ op' = Idle) /\ ~ForgetPending
    BY <2>1 DEF Finish, Killed, ForgetPending, At
  <2>4. ~Connect
    <3>1. ASSUME op' = [op EXCEPT !.pc = "plan"], op.pc = "connect" PROVE op'.pc = "plan"
      BY <3>1 DEF Inv, OpInv, Waiting
    <3> QED BY <2>1, <3>1 DEF Connect, Goto, At
  <2>5. ~\E e \in Entries, switch \in BOOLEAN, v \in Versions : Start(e, switch, v)
    <3> PICK p \in {"connect", "plan"} : p = IF Credential = 0 THEN "connect" ELSE "plan"
      OBVIOUS
    <3>1. ASSUME NEW e \in Entries, NEW switch \in BOOLEAN, NEW v \in Versions, Start(e, switch, v)
          PROVE  op'.pc = p
      BY <3>1 DEF Start
    <3> QED BY <2>1, <3>1
  <2>6. ~\E f \in OwnFiles : Tidy(f)
    <3>1. ASSUME NEW f \in OwnFiles, Tidy(f) PROVE op'.pc = "tidy"
      BY <3>1 DEF Tidy, At, Inv, OpInv, Waiting
    <3> QED BY <2>1, <3>1
  <2> QED BY <2>2, <2>3, <2>4, <2>5, <2>6 DEF ClientNext
<1>3. CASE Plan /\ op' # Idle
  <2>1. op'.pc = "apply" /\ op'.at = 1
    BY <1>3 DEF Plan
  <2> QED BY <1>3, <2>1 DEF Plan, fileVars
<1>4. CASE \E e \in Entries : Uninstall(e)
  BY <1>4 DEF Uninstall, fileVars
<1> QED BY <1>2, <1>3, <1>4

OldIsRecorded == OpInv /\ WorkInv /\ Working /\ op.at \in Steps => Recorded = Old

LEMMA NextOldIsRecorded == OldIsRecorded'
<1>1. OldIsRecorded
  BY ManifestIsNext DEF OldIsRecorded
<1> QED BY <1>1, PTL

LEMMA GoneStep ==
  ASSUME Inv, ClientNext
  PROVE  GoneInv'
<1> SUFFICES ASSUME Unmarred', ~Working', Recorded' = {}, NEW r \in Adapter
             PROVE  own'[r] = 0 \/ (op'.pc = "tidy" /\ r \in op'.left)
  BY DEF GoneInv
<1>1. crashes' = 0 /\ ~leftovers' /\ crashes \in Nat
  BY DEF Unmarred, Inv, OwnInv
<1>2. crashes = 0 /\ ~leftovers /\ ~Killed
  <2>1. crashes' = crashes \/ (crashes' = crashes + 1 /\ Killed)
    BY DEF ClientNext, Start, Connect, Plan, Uninstall, ForgetPending, Check, Write, Fail,
           CheckUndo, Unwrite, FailUndo, Undone, Applied, Tidy, Finish, Killed
  <2>2. leftovers' = leftovers \/ leftovers' = TRUE
    BY DEF ClientNext, Start, Connect, Plan, Uninstall, ForgetPending, Check, Write, Fail,
           CheckUndo, Unwrite, FailUndo, Undone, Applied, Tidy, Finish, Killed
  <2> QED BY <1>1, <2>1, <2>2 DEF Killed
<1>3. CASE Applied
  <2>1. Recorded = New /\ op'.pc = "tidy" /\ op'.left = op.left /\ UNCHANGED own
        /\ (Installing \/ Uninstalling)
    BY <1>3, AllApplied
  <2>2. New = {}
    BY <2>1 DEF Recorded
  <2> QED BY <2>1, <2>2 DEF Installing, Uninstalling
<1>4. CASE Undone
  <2>1. /\ Recorded = Old /\ UNCHANGED own /\ PlanInv /\ (Installing \/ Uninstalling)
        /\ \A k \in Steps : File(k) \in OwnFiles => own[File(k)] = Before(k)
    BY <1>2, <1>4, NoneApplied
  <2>2. Old = {} /\ Installing
    BY <2>1 DEF Recorded, Uninstalling
  <2> PICK k \in Steps : File(k) = r
    BY <2>2 DEF Installing
  <2>3. AdapterEdit(k)
    BY <2>1 DEF PlanInv
  <2> QED BY <2>1, <2>2, <2>3, OwnNames DEF AdapterEdit
<1>5. CASE Working /\ ~Applied /\ ~Undone
  <2>1. FALSE
    <3>1. Working'
      <4>1. op = [pc |-> op.pc, edits |-> op.edits, at |-> op.at, left |-> op.left]
            /\ op.pc \in {"apply", "write", "undo", "unwrite"}
        BY <1>5 DEF Inv, OpInv, Waiting, Working, Forward, Backward
      <4>2. Check \/ CheckUndo \/ Write \/ Unwrite \/ Fail \/ FailUndo
        BY <1>2, <1>5, <4>1 DEF ClientNext, Start, Connect, Plan, Uninstall, ForgetPending,
           Tidy, Finish, At
      <4>3. op'.pc \in {"apply", "write", "undo", "unwrite"}
        BY <4>1, <4>2 DEF Check, CheckUndo, Write, Unwrite, Fail, FailUndo, Goto
      <4> QED BY <4>3 DEF Working, Forward, Backward
    <3> QED BY <3>1
  <2> QED BY <2>1
<1>6. CASE ~Working
  <2>1. Recorded = {} /\ (own[r] = 0 \/ (op.pc = "tidy" /\ r \in op.left))
    BY <1>2, <1>6, RecordKept DEF Inv, GoneInv, Unmarred
  <2>2. CASE \E f \in OwnFiles : Tidy(f)
    <3> PICK f \in OwnFiles : Tidy(f)
      BY <2>2
    <3>1. op.pc = "tidy" /\ op' = [op EXCEPT !.left = op.left \ {f}]
      BY DEF Tidy, At
    <3>2. op'.left = op.left \ {f} /\ op'.pc = "tidy"
      BY <3>1 DEF Inv, OpInv, Waiting
    <3>3. own' = [own EXCEPT ![f] = 0]
      BY <1>1 DEF Tidy
    <3>4. own'[f] = 0 /\ (r # f => own'[r] = own[r])
      BY <3>3, OwnNames DEF Inv, OwnInv
    <3> QED BY <2>1, <3>2, <3>4
  <2>3. CASE ~\E f \in OwnFiles : Tidy(f)
    <3>1. own'[r] = own[r]
      <4>1. \/ UNCHANGED own
            \/ OwnWrite("enrolled", nodes + 1) \/ OwnWrite("enrolled", 0)
        BY <1>6, <2>3 DEF ClientNext, Start, Connect, Plan, Uninstall, ForgetPending, Check, Write,
           Fail, CheckUndo, Unwrite, FailUndo, Undone, Applied, Finish, Killed, OwnWrite,
           At, Working, Forward, Backward
      <4> QED BY <4>1, OneFileWritten, OwnNames DEF Inv
    <3>2. op.pc = "tidy" => Finish
      BY <1>2, <1>6, <2>3 DEF ClientNext, Start, Connect, Plan, Uninstall, ForgetPending, Check,
         Write, Fail, CheckUndo, Unwrite, FailUndo, Undone, Applied, At
    <3> QED BY <2>1, <3>1, <3>2 DEF Finish
  <2> QED BY <2>2, <2>3
<1> QED BY <1>3, <1>4, <1>5, <1>6

-----------------------------------------------------------------------------
(* The client's hooks. *)
LEMMA HooksOfOthers ==
  ASSUME Inv, UNCHANGED clientVars, Calm' \subseteq Calm,
         \A e \in Calm' : entry'[e].hooks[Client] = entry[e].hooks[Client]
  PROVE  HooksInv' /\ GoneInv' /\ TidyInv'
<1>1. UNCHANGED <<own, op, nodes, crashes, leftovers>>
  BY DEF clientVars
<1>2. /\ Steps' = Steps /\ Old' = Old /\ New' = New /\ Working' = Working /\ Recorded' = Recorded
      /\ \A k : File(k)' = File(k) /\ IsApplied(k)' = IsApplied(k)
      /\ Unmarred' = Unmarred
  BY <1>1 DEF Steps, Last, Old, New, File, Before, After, IsApplied, Forward, Backward, Working,
     Recorded, Unmarred
<1>3. \A e : Expected(e)' = Expected(e)
  BY <1>1, <1>2 DEF Expected
<1>4. HooksInv'
  BY <1>2, <1>3 DEF Inv, HooksInv
<1> QED BY <1>1, <1>2, <1>4 DEF Inv, GoneInv, TidyInv

(* What a step that works on the list does to it. *)
LEMMA WorkSteps ==
  ASSUME Inv, Next, ClientNext, Working, Working', Unmarred'
  PROVE  /\ op'.edits = op.edits
         /\ \/ /\ UNCHANGED <<entry, own>> /\ \A k \in Steps : IsApplied(k)' = IsApplied(k)
            \/ /\ op.at \in Steps /\ ~IsApplied(op.at)
               /\ \A k \in Steps : IsApplied(k)' <=> (IsApplied(k) \/ k = op.at)
               /\ \/ File(op.at) \notin Entries /\ UNCHANGED entry
                  \/ File(op.at) \in Entries /\ entry' = [entry EXCEPT ![File(op.at)] = After(op.at)]
            \/ /\ op.at \in Steps /\ IsApplied(op.at)
               /\ \A k \in Steps : IsApplied(k)' <=> (IsApplied(k) /\ k # op.at)
               /\ \/ File(op.at) \notin Entries /\ UNCHANGED entry
                  \/ File(op.at) \in Entries /\ entry' = [entry EXCEPT ![File(op.at)] = Before(op.at)]
<1>1. /\ op = [pc |-> op.pc, edits |-> op.edits, at |-> op.at, left |-> op.left]
      /\ op.pc \in {"apply", "write", "undo", "unwrite"} /\ Last \in Nat
  BY DEF Inv, OpInv, Waiting, Working, Forward, Backward
<1>2. \A k \in Steps : k \in Nat
  BY DEF Steps
<1>3. ~leftovers'
  BY DEF Unmarred
<1>4. CASE Check \/ CheckUndo
  <2>1. op' = [op EXCEPT !.pc = "write"] \/ op' = [op EXCEPT !.pc = "unwrite"]
    BY <1>4 DEF Check, CheckUndo, Goto
  <2>2. op'.edits = op.edits /\ op'.at = op.at
    BY <1>1, <2>1
  <2>3. Forward' <=> Forward
    BY <1>1, <1>4 DEF Check, CheckUndo, Goto, At, Forward
  <2> QED BY <1>4, <2>2, <2>3 DEF Check, CheckUndo, fileVars, IsApplied
<1>5. CASE Fail
  <2>1. /\ op'.edits = op.edits /\ op'.at = op.at - 1 /\ op'.pc = "undo" /\ Forward /\ ~Forward'
        /\ op.at \in Nat /\ UNCHANGED <<entry, own>>
    BY <1>1, <1>5 DEF Fail, Forward, fileVars, Inv, OpInv, Steps
  <2>2. \A k \in Steps : IsApplied(k)' = IsApplied(k)
    BY <1>2, <2>1 DEF IsApplied
  <2> QED BY <2>1, <2>2
<1>6. CASE Write
  <2>1. /\ op'.edits = op.edits /\ op'.at = op.at + 1 /\ Forward /\ Forward'
        /\ op.at \in Steps
    BY <1>1, <1>6 DEF Write, At, Forward, Inv, OpInv, Last, Steps
  <2>2. ~IsApplied(op.at) /\ \A k \in Steps : IsApplied(k)' <=> (IsApplied(k) \/ k = op.at)
    BY <1>2, <2>1 DEF IsApplied
  <2>3. \/ File(op.at) \notin Entries /\ UNCHANGED entry
        \/ File(op.at) \in Entries /\ entry' = [entry EXCEPT ![File(op.at)] = After(op.at)]
    BY <1>6, CurrentEdit DEF Write, SetContent, Replace, fileVars
  <2> QED BY <2>1, <2>2, <2>3
<1>7. CASE Unwrite
  <2>1. /\ op'.edits = op.edits /\ op'.at = op.at - 1 /\ Backward /\ ~Forward /\ ~Forward'
        /\ op.at \in Steps
    BY <1>1, <1>7 DEF Unwrite, At, Forward, Backward, Inv, OpInv, Last, Steps
  <2>2. IsApplied(op.at) /\ \A k \in Steps : IsApplied(k)' <=> (IsApplied(k) /\ k # op.at)
    BY <1>2, <2>1 DEF IsApplied
  <2>3. \/ File(op.at) \notin Entries /\ UNCHANGED entry
        \/ File(op.at) \in Entries /\ entry' = [entry EXCEPT ![File(op.at)] = Before(op.at)]
    BY <1>7, CurrentEdit DEF Unwrite, SetContent, Replace, fileVars
  <2> QED BY <2>1, <2>2, <2>3
<1>8. Check \/ CheckUndo \/ Fail \/ Write \/ Unwrite
  <2>1. ~FailUndo
    BY <1>3 DEF FailUndo
  <2>2. ~(Undone \/ Finish \/ Killed \/ Applied)
    <3>1. ASSUME op' = [op EXCEPT !.pc = "tidy"] PROVE ~Working'
      <4>1. op'.pc = "tidy"
        BY <1>1, <3>1
      <4> QED BY <4>1 DEF Working, Forward, Backward
    <3>2. op' # Idle
      BY DEF Idle, Working, Forward, Backward
    <3> QED BY <3>1, <3>2 DEF Undone, Finish, Killed, Applied
  <2> QED BY <1>1, <2>1, <2>2 DEF ClientNext, Start, Connect, Plan, Uninstall, ForgetPending, Tidy, At
<1> QED BY <1>4, <1>5, <1>6, <1>7, <1>8

LEMMA HooksOfWork ==
  ASSUME Inv, Next, ClientNext, Working, Working'
  PROVE  HooksInv'
<1> SUFFICES ASSUME Unmarred', NEW e \in Calm'
             PROVE  entry'[e].hooks[Client] = IF Expected(e)' THEN "full" ELSE "none"
  BY DEF HooksInv
<1>1. Unmarred
  <2>1. leftovers => leftovers'
    BY DEF ClientNext, Start, Connect, Plan, Uninstall, ForgetPending, Check, Write, Fail,
       CheckUndo, Unwrite, FailUndo, Undone, Applied, Tidy, Finish, Killed
  <2>2. crashes' = crashes \/ crashes' = crashes + 1
    BY DEF ClientNext, Start, Connect, Plan, Uninstall, ForgetPending, Check, Write, Fail,
       CheckUndo, Unwrite, FailUndo, Undone, Applied, Tidy, Finish, Killed
  <2> QED BY <2>1, <2>2 DEF Unmarred, Inv, OwnInv
<1>2. e \in Calm /\ e \in Entries /\ PlanInv /\ FilesInv
  BY Histories DEF Calm, Inv, WorkInv
<1>3. entry[e].hooks[Client] = IF Expected(e) THEN "full" ELSE "none"
  BY <1>1, <1>2 DEF Inv, HooksInv
<1>4. op'.edits = op.edits
  BY WorkSteps
<1>5. Steps' = Steps /\ Old' = Old /\ New' = New /\ \A k : File(k)' = File(k)
  BY <1>4 DEF Steps, Last, Old, New, File, Before, After
<1>6. Expected(e) <=> IF \E k \in Steps : File(k) = e /\ IsApplied(k) THEN e \in New ELSE e \in Old
  BY DEF Expected
<1>7. Expected(e)' <=> IF \E k \in Steps : File(k) = e /\ IsApplied(k)' THEN e \in New ELSE e \in Old
  BY <1>5 DEF Expected
<1>8. CASE UNCHANGED <<entry, own>> /\ \A k \in Steps : IsApplied(k)' = IsApplied(k)
  BY <1>3, <1>6, <1>7, <1>8
<1>9. ASSUME op.at \in Steps, e = File(op.at)
       PROVE  EntryEdit(op.at) /\ \A k \in Steps : File(k) = e => k = op.at
  BY <1>2, <1>9 DEF PlanInv
<1>10. CASE /\ op.at \in Steps /\ ~IsApplied(op.at)
            /\ \A k \in Steps : IsApplied(k)' <=> (IsApplied(k) \/ k = op.at)
            /\ \/ File(op.at) \notin Entries /\ UNCHANGED entry
               \/ File(op.at) \in Entries /\ entry' = [entry EXCEPT ![File(op.at)] = After(op.at)]
  <2>1. CASE e = File(op.at)
    <3>1. entry'[e] = After(op.at)
      BY <1>2, <1>10, <2>1 DEF FilesInv
    <3>2. entry'[e].hooks[Client] = IF e \in New THEN "full" ELSE "none"
      BY <1>9, <1>10, <2>1, <3>1 DEF EntryEdit
    <3> QED BY <1>7, <1>10, <2>1, <3>2
  <2>2. CASE e # File(op.at)
    <3>1. entry'[e] = entry[e]
      BY <1>2, <1>10, <2>2 DEF FilesInv
    <3> QED BY <1>3, <1>6, <1>7, <1>10, <2>2, <3>1
  <2> QED BY <2>1, <2>2
<1>11. CASE /\ op.at \in Steps /\ IsApplied(op.at)
            /\ \A k \in Steps : IsApplied(k)' <=> (IsApplied(k) /\ k # op.at)
            /\ \/ File(op.at) \notin Entries /\ UNCHANGED entry
               \/ File(op.at) \in Entries /\ entry' = [entry EXCEPT ![File(op.at)] = Before(op.at)]
  <2>1. CASE e = File(op.at)
    <3>1. entry'[e] = Before(op.at)
      BY <1>2, <1>11, <2>1 DEF FilesInv
    <3>2. entry'[e].hooks[Client] = IF e \in Old THEN "full" ELSE "none"
      BY <1>1, <1>2, <1>9, <1>11, <2>1, <3>1 DEF EntryEdit
    <3>3. ~\E k \in Steps : File(k) = e /\ IsApplied(k)'
      BY <1>9, <1>11, <2>1
    <3> QED BY <1>7, <3>2, <3>3
  <2>2. CASE e # File(op.at)
    <3>1. entry'[e] = entry[e]
      BY <1>2, <1>11, <2>2 DEF FilesInv
    <3> QED BY <1>3, <1>6, <1>7, <1>11, <2>2, <3>1
  <2> QED BY <2>1, <2>2
<1> QED BY <1>8, <1>10, <1>11, WorkSteps

LEMMA HooksOfOperation ==
  ASSUME Inv, Next, ClientNext
  PROVE  HooksInv'
<1> SUFFICES ASSUME Unmarred', NEW e \in Calm'
             PROVE  entry'[e].hooks[Client] = IF Expected(e)' THEN "full" ELSE "none"
  BY DEF HooksInv
<1>1. Unmarred /\ ~Killed
  <2>1. leftovers => leftovers'
    BY DEF ClientNext, Start, Connect, Plan, Uninstall, ForgetPending, Check, Write, Fail,
       CheckUndo, Unwrite, FailUndo, Undone, Applied, Tidy, Finish, Killed
  <2>2. crashes' = crashes \/ (Killed /\ crashes' = crashes + 1)
    BY DEF ClientNext, Start, Connect, Plan, Uninstall, ForgetPending, Check, Write, Fail,
       CheckUndo, Unwrite, FailUndo, Undone, Applied, Tidy, Finish, Killed
  <2> QED BY <2>1, <2>2 DEF Unmarred, Inv, OwnInv, Killed
<1>2. e \in Calm /\ e \in Entries
  BY Histories DEF Calm
<1>3. entry[e].hooks[Client] = IF Expected(e) THEN "full" ELSE "none"
  BY <1>1, <1>2 DEF Inv, HooksInv
<1>4. CASE ~Working
  <2>1. Expected(e) <=> e \in Recorded
    BY <1>4 DEF Expected
  <2>2. UNCHANGED entry /\ Recorded' = Recorded
    BY <1>4, RecordKept
  <2>3. CASE ~Working'
    BY <1>3, <2>1, <2>2, <2>3 DEF Expected
  <2>4. CASE Working'
    <3>1. op'.pc = "apply" /\ op'.at = 1
      BY <1>4, <2>4, PlanSteps
    <3>2. OpInv' /\ WorkInv'
      BY OperationStep
    <3>3. PlanInv'
      BY <2>4, <3>2 DEF WorkInv
    <3>4. op'.at \in Steps'
      BY <3>1, <3>2, <3>3 DEF OpInv, PlanInv, Steps
    <3>5. Recorded' = Old'
      BY <2>4, <3>2, <3>4, NextOldIsRecorded DEF OldIsRecorded
    <3>6. \A k \in Steps' : ~IsApplied(k)'
      BY <3>1 DEF IsApplied, Forward, Steps
    <3> QED BY <1>3, <2>1, <2>2, <2>4, <3>5, <3>6 DEF Expected
  <2> QED BY <2>3, <2>4
<1>5. CASE Working /\ ~Working'
  <2>1. Applied \/ Undone
    <3>1. op = [pc |-> op.pc, edits |-> op.edits, at |-> op.at, left |-> op.left]
          /\ op.pc \in {"apply", "write", "undo", "unwrite"}
      BY <1>5 DEF Inv, OpInv, Waiting, Working, Forward, Backward
    <3>2. ASSUME Check \/ CheckUndo \/ Write \/ Unwrite \/ Fail \/ FailUndo PROVE FALSE
      <4>1. op'.pc \in {"apply", "write", "undo", "unwrite"}
        BY <3>1, <3>2 DEF Check, CheckUndo, Write, Unwrite, Fail, FailUndo, Goto
      <4> QED BY <1>5, <4>1 DEF Working, Forward, Backward
    <3> QED BY <1>1, <3>1, <3>2 DEF ClientNext, Start, Connect, Plan, Uninstall, ForgetPending,
        Tidy, Finish, At
  <2>2. UNCHANGED entry
    BY <2>1 DEF Applied, Undone, fileVars
  <2>3. CASE Applied
    <3>1. Recorded = New /\ UNCHANGED own /\ PlanInv /\ \A k \in Steps : IsApplied(k)
      BY <2>3, AllApplied
    <3>2. Recorded' = New
      BY <3>1 DEF Recorded
    <3>3. Expected(e) <=> e \in New
      BY <1>2, <1>5, <3>1 DEF Expected, PlanInv
    <3> QED BY <1>3, <1>5, <2>2, <3>2, <3>3 DEF Expected
  <2>4. CASE Undone
    <3>1. Recorded = Old /\ UNCHANGED own /\ \A k \in Steps : ~IsApplied(k)
      BY <2>4, NoneApplied
    <3>2. Recorded' = Old
      BY <3>1 DEF Recorded
    <3>3. Expected(e) <=> e \in Old
      BY <1>5, <3>1 DEF Expected
    <3> QED BY <1>3, <1>5, <2>2, <3>2, <3>3 DEF Expected
  <2> QED BY <2>1, <2>3, <2>4
<1>6. CASE Working /\ Working'
  <2>1. HooksInv'
    BY <1>6, HooksOfWork
  <2> QED BY <2>1 DEF HooksInv
<1> QED BY <1>4, <1>5, <1>6

-----------------------------------------------------------------------------
(* The service's records. *)
LEMMA CommandsOfService ==
  ASSUME LocalInv, NEW e \in LocalEntries
  PROVE  /\ LocalCommand(e) \in Claimed /\ LocalCommand(e) \in Commands
         /\ e \notin Documents => LocalCommand(e) = Loader /\ RecordedCommand(e) = Loader
         /\ records[e] # NoRecord => RecordedCommand(e) \in Claimed /\ RecordedCommand(e) \in Commands
         /\ e \in Entries
  BY Constants, LocalAssumption
  DEF LocalInv, LocalCommand, RecordedCommand, Claimed, IsRecord

(* A step of another that leaves the service's own hooks alone, or that the  *)
(* histories show.                                                           *)
LEMMA RecordsOfOthers ==
  ASSUME Inv, Next, UNCHANGED localVars, Races(LocalWindow) \/ Races(ClientWindow \cup LocalWindow),
         \A e \in Calm' : \A c \in Claimed : entry'[e].hooks[c] = entry[e].hooks[c]
  PROVE  LocalInv'
<1>1. UNCHANGED <<records, program, lop, moves>>
  BY DEF localVars
<1>2. Calm' \subseteq Calm /\ raced \subseteq raced'
  BY Histories
<1>3. \A e : Busy(e)' = Busy(e)
  BY <1>1 DEF Busy
<1>4. \A e \in LocalEntries \cap Calm' : ~Busy(e)' => Says(e, entry[e], records[e])'
  BY <1>1, <1>2, <1>3 DEF Inv, LocalInv, Says
<1>5. ASSUME lop.pc # "off"
      PROVE  LopInv'
  <2>1. LopInv /\ lop.entry \in LocalWindow /\ lop.entry \in Entries
    BY <1>5, LocalAssumption DEF Inv, LocalInv, LopInv, LocalWindow
  <2>2. lop.entry \in raced' \/ entry'[lop.entry] = entry[lop.entry]
    BY <2>1 DEF Races
  <2>3. lop.entry \notin raced' =>
           entry'[lop.entry] = IF lop.pc = "write" THEN lop.seen ELSE lop.after
    BY <1>2, <2>1, <2>2 DEF LopInv
  <2>4. lop.entry \in Calm' =>
          /\ Neat(lop.entry, lop.seen) /\ Neat(lop.entry, lop.after)
          /\ Says(lop.entry, lop.seen, records[lop.entry])
          /\ Says(lop.entry, lop.after, lop.record)
    BY <1>2, <2>1 DEF LopInv
  <2> QED BY <1>1, <2>1, <2>3, <2>4 DEF LopInv
<1> QED BY <1>1, <1>4, <1>5 DEF Inv, LocalInv

LEMMA RecordsOfClient ==
  ASSUME Inv, Next, ClientNext, UNCHANGED localVars, Races(LocalWindow)
  PROVE  LocalInv'
<1>1. ASSUME NEW e \in Calm', NEW c \in Claimed
      PROVE  entry'[e].hooks[c] = entry[e].hooks[c]
  <2>1. e \in Entries /\ e \in Calm /\ e \notin raced /\ FilesInv /\ c \in Commands \ {Client}
    BY Histories, Constants DEF Calm, Inv
  <2>2. CASE UNCHANGED entry
    BY <2>2
  <2>3. ASSUME op.pc \in {"write", "unwrite"}, NEW x \in {Before(op.at), After(op.at)},
               entry' = [entry EXCEPT ![File(op.at)] = x], File(op.at) = e,
               entry[e] \in {Before(op.at), After(op.at)}
        PROVE  entry'[e].hooks[c] = entry[e].hooks[c]
    <3>1. EntryEdit(op.at)
      BY <2>3, WriteIsPlanned DEF Inv
    <3>2. entry'[e] = x
      BY <2>1, <2>3 DEF FilesInv
    <3> QED BY <2>1, <2>3, <3>1, <3>2 DEF EntryEdit
  <2>4. CASE op.pc = "write" /\ entry' = [entry EXCEPT ![File(op.at)] = After(op.at)]
    <3>1. CASE File(op.at) = e
      BY <2>1, <2>3, <2>4, <3>1 DEF Inv, WindowInv
    <3>2. CASE File(op.at) # e
      BY <2>1, <2>4, <3>2 DEF FilesInv
    <3> QED BY <3>1, <3>2
  <2>5. CASE op.pc = "unwrite" /\ entry' = [entry EXCEPT ![File(op.at)] = Before(op.at)]
    <3>1. CASE File(op.at) = e
      BY <2>1, <2>3, <2>5, <3>1 DEF Inv, WindowInv
    <3>2. CASE File(op.at) # e
      BY <2>1, <2>5, <3>2 DEF FilesInv
    <3> QED BY <3>1, <3>2
  <2> QED BY <2>2, <2>4, <2>5, ClientFiles DEF Inv
<1> QED BY <1>1, RecordsOfOthers

LEMMA UserStep ==
  ASSUME Inv, Next, NEW f \in Entries, UserWrites(f), Races(ClientWindow \cup LocalWindow),
         UNCHANGED <<clientVars, localVars>>
  PROVE  Inv'
<1>1. Calm' \subseteq Calm /\ \A e \in Calm' : entry'[e] = entry[e]
  BY UserFiles, Histories DEF Inv, Calm
<1>2. FilesInv'
  BY FilesStep
<1>3. OwnInv'
  BY DEF clientVars, Inv, OwnInv, RecordedHooksHaveAdapter, Recorded
<1>4. OpInv' /\ WorkInv'
  BY <1>1, WorkIsKept
<1>5. WindowInv'
  BY WindowOfOthers
<1>6. HooksInv' /\ GoneInv' /\ TidyInv'
  BY <1>1, HooksOfOthers
<1>7. LocalInv'
  BY <1>1, RecordsOfOthers
<1> QED BY <1>2, <1>3, <1>4, <1>5, <1>6, <1>7 DEF Inv

LEMMA ClientStep ==
  ASSUME Inv, Next, ClientNext, Races(LocalWindow), UNCHANGED localVars
  PROVE  Inv'
<1> QED
  BY FilesStep, OwnStep, OperationStep, WindowOfOperation, TidyStep, HooksOfOperation, GoneStep,
     RecordsOfClient DEF Inv

(* The record of a removal. *)
LEMMA RemovedRecord ==
  ASSUME NEW r, IsRecord(r)
  PROVE  LET s == [r EXCEPT !.installed = FALSE] IN IsRecord(s) /\ ~s.installed
<1> DEFINE s == [r EXCEPT !.installed = FALSE]
<1>1. PICK i, c, b : i = r.installed /\ c = r.command /\ b = FALSE
  OBVIOUS
<1>2. r = [installed |-> i, command |-> c] /\ (r = NoRecord \/ c \in Programs)
  BY <1>1 DEF IsRecord
<1>3. s = [installed |-> FALSE, command |-> c]
  <2>1. [r EXCEPT !.installed = b] = [installed |-> b, command |-> c]
    BY <1>2
  <2> QED BY <1>1, <2>1
<1>4. s.installed = FALSE /\ s.command = c
  BY <1>3
<1>5. r = NoRecord => c = "none"
  BY <1>2 DEF NoRecord
<1>6. s = NoRecord \/ c \in Programs
  BY <1>2, <1>3, <1>5 DEF NoRecord
<1>7. IsRecord(s)
  BY <1>3, <1>4, <1>6 DEF IsRecord
<1> QED BY <1>4, <1>7

(* What the service has read and will write. *)
IsWork(e, seen, after, r) ==
    /\ IsContent(seen) /\ IsContent(after) /\ after.other = seen.other
    /\ \A c \in Commands \ Claimed : after.hooks[c] = seen.hooks[c]
    /\ IsRecord(r)
    /\ e \in Calm => /\ Neat(e, seen) /\ Neat(e, after)
                     /\ Says(e, seen, records[e]) /\ Says(e, after, r)

LEMMA InstallationWork ==
  ASSUME FilesInv, LocalInv, lop.pc = "off", NEW e \in LocalEntries, LocalAccepted(e)
  PROVE  IsWork(e, entry[e], Hooked(e, entry[e], LocalCommand(e)), Record(program))
<1>1. PICK x, c, y : x = entry[e] /\ c = LocalCommand(e) /\ y = Hooked(e, x, c)
  OBVIOUS
<1>2. /\ c \in Claimed /\ c \in Commands /\ e \in Entries
      /\ IsContent(x) /\ (e \in Calm => Neat(e, x)) /\ Installable(e, x, c)
      /\ c \in {Client, Loader} \/ e \in Documents
  BY <1>1, CommandsOfService DEF FilesInv, LocalAccepted
<1>3. /\ IsContent(y) /\ y.other = x.other
      /\ \A d \in Commands : y.hooks[d] = IF d = c THEN "full" ELSE x.hooks[d]
      /\ Neat(e, x) => Neat(e, y)
  BY <1>1, <1>2, HookedContent
<1>4. IsRecord(Record(program)) /\ Record(program).installed /\ Record(program).command = program
  <2>1. Record(program).installed = TRUE /\ Record(program).command = program
    BY DEF Record
  <2> QED BY <2>1 DEF Record, IsRecord, LocalInv
<1>5. ASSUME e \in Calm PROVE Says(e, x, records[e]) /\ Says(e, y, Record(program))
  <2>1. Says(e, x, records[e])
    BY <1>1, <1>5 DEF LocalInv, Busy
  <2>2. ASSUME NEW d \in Claimed, d # c PROVE x.hooks[d] = "none"
    <3>1. records[e].installed => (IF e \in Documents THEN records[e].command ELSE Loader) = c
      <4>1. CASE e \in Documents
        BY <1>1, <4>1, EntryAssumption DEF LocalAccepted, SameProgram, LocalCommand
      <4>2. CASE e \notin Documents
        BY <1>1, <4>2 DEF LocalCommand
      <4> QED BY <4>1, <4>2
    <3> QED BY <2>1, <2>2, <3>1 DEF Says
  <2>3. (IF e \in Documents THEN Record(program).command ELSE Loader) = c
    BY <1>1, <1>4 DEF LocalCommand
  <2>4. \A d \in Claimed : y.hooks[d] = IF d = c THEN "full" ELSE "none"
    BY <1>3, <2>2, Constants
  <2>5. Says(e, y, Record(program))
    BY <1>4, <2>3, <2>4 DEF Says
  <2> QED BY <2>1, <2>5
<1>6. \A d \in Commands \ Claimed : y.hooks[d] = x.hooks[d]
  BY <1>2, <1>3
<1> QED BY <1>1, <1>2, <1>3, <1>4, <1>5, <1>6 DEF IsWork

LEMMA RemovalWork ==
  ASSUME FilesInv, LocalInv, lop.pc = "off", NEW e \in LocalEntries, records[e] # NoRecord,
         LocalRemovable(e)
  PROVE  IsWork(e, entry[e], Unhooked(e, entry[e], RecordedCommand(e), FALSE),
                [records[e] EXCEPT !.installed = FALSE])
<1>1. PICK x, c, y, no, r :
         /\ x = entry[e] /\ c = RecordedCommand(e)
         /\ no \in BOOLEAN /\ no = FALSE /\ y = Unhooked(e, x, c, no)
         /\ r = [records[e] EXCEPT !.installed = FALSE]
  OBVIOUS
<1>2. /\ c \in Claimed /\ c \in Commands /\ e \in Entries
      /\ IsContent(x) /\ (e \in Calm => Neat(e, x))
      /\ e \notin Documents => x \in {Absent, Own(c)}
  BY <1>1, CommandsOfService DEF FilesInv, LocalRemovable, Removable
<1>3. /\ IsContent(y) /\ y.other = x.other
      /\ \A d \in Commands : y.hooks[d] = IF d = c THEN "none" ELSE x.hooks[d]
      /\ Neat(e, x) => Neat(e, y)
  BY <1>1, <1>2, UnhookedContent
<1>4. IsRecord(r) /\ ~r.installed
  BY <1>1, RemovedRecord DEF LocalInv
<1>5. ASSUME e \in Calm PROVE Says(e, x, records[e]) /\ Says(e, y, r)
  <2>1. Says(e, x, records[e])
    BY <1>1, <1>5 DEF LocalInv, Busy
  <2>2. ASSUME NEW d \in Claimed, d # c PROVE x.hooks[d] = "none"
    BY <1>1, <2>1, <2>2 DEF Says, RecordedCommand
  <2>3. \A d \in Claimed : y.hooks[d] = "none"
    BY <1>3, <2>2, Constants
  <2>4. Says(e, y, r)
    BY <1>4, <2>3 DEF Says
  <2> QED BY <2>1, <2>4
<1>6. \A d \in Commands \ Claimed : y.hooks[d] = x.hooks[d]
  BY <1>2, <1>3
<1> QED BY <1>1, <1>2, <1>3, <1>4, <1>5, <1>6 DEF IsWork

(* An operation of the service begins. *)
LEMMA ServiceBegins ==
  ASSUME Inv, Next, lop.pc = "off", NEW e \in LocalEntries, NEW after, NEW r,
         IsWork(e, entry[e], after, r),
         lop' = [pc |-> "write", entry |-> e, seen |-> entry[e], after |-> after, record |-> r],
         UNCHANGED <<fileVars, records, program>>
  PROVE  LocalInv'
<1>1. /\ lop'.pc = "write" /\ lop'.entry = e /\ lop'.seen = entry[e] /\ lop'.after = after
      /\ lop'.record = r /\ UNCHANGED <<entry, records, program>>
      /\ lop' = [pc |-> lop'.pc, entry |-> lop'.entry, seen |-> lop'.seen,
                 after |-> lop'.after, record |-> lop'.record]
  BY DEF fileVars
<1>2. Calm' \subseteq Calm
  BY Histories
<1>3. \A f : ~Busy(f)
  BY DEF Busy
<1>4. LopInv'
  BY <1>1, <1>2 DEF LopInv, IsWork, Says
<1>5. \A f \in LocalEntries \cap Calm' : Says(f, entry[f], records[f])'
  BY <1>1, <1>2, <1>3 DEF Inv, LocalInv, Says
<1> QED BY <1>1, <1>4, <1>5 DEF Inv, LocalInv

(* An operation of the service is over.  Its entry says what its record says. *)
LEMMA ServiceEnds ==
  ASSUME Inv, Next, lop.pc # "off", lop' = LocalIdle, program' \in Programs,
         NEW r, IsRecord(r), records' = [records EXCEPT ![lop.entry] = r],
         NEW x, entry' = [entry EXCEPT ![lop.entry] = x],
         lop.entry \in Calm' => Says(lop.entry, x, r)
  PROVE  LocalInv'
<1>1. lop'.pc = "off" /\ LopInv /\ lop.entry \in LocalEntries /\ lop.entry \in Entries
  BY LocalAssumption DEF LocalIdle, Inv, LocalInv, LopInv
<1>2. Calm' \subseteq Calm
  BY Histories
<1>3. /\ DOMAIN records' = LocalEntries /\ records'[lop.entry] = r
      /\ \A f \in LocalEntries \ {lop.entry} : records'[f] = records[f]
  BY <1>1 DEF Inv, LocalInv
<1>4. records' = [f \in LocalEntries |-> records'[f]]
  BY <1>1, <1>3 DEF Inv, LocalInv
<1>5. entry'[lop.entry] = x /\ \A f \in Entries \ {lop.entry} : entry'[f] = entry[f]
  BY <1>1 DEF Inv, FilesInv
<1>6. ASSUME NEW f \in LocalEntries, f \in Calm'
      PROVE  Says(f, entry[f], records[f])'
  <2>1. CASE f = lop.entry
    BY <1>3, <1>5, <1>6, <2>1 DEF Says
  <2>2. CASE f # lop.entry
    <3>1. Says(f, entry[f], records[f]) /\ f \in Entries
      BY <1>2, <1>6, <2>2, LocalAssumption DEF Inv, LocalInv, Busy
    <3> QED BY <1>3, <1>5, <1>6, <2>2, <3>1 DEF Says
  <2> QED BY <2>1, <2>2
<1>7. \A f \in LocalEntries : IsRecord(records'[f])
  BY <1>3 DEF Inv, LocalInv
<1> QED BY <1>1, <1>3, <1>4, <1>6, <1>7 DEF Inv, LocalInv

(* An operation of the service goes on. *)
LEMMA ServiceGoesOn ==
  ASSUME Inv, Next, lop.pc # "off", NEW p \in {"commit", "restore"},
         lop' = [lop EXCEPT !.pc = p], UNCHANGED <<records, program>>,
         \/ lop.pc # "write" /\ UNCHANGED entry
         \/ lop.pc = "write" /\ lop.seen = lop.after /\ UNCHANGED entry
         \/ lop.pc = "write" /\ entry' = [entry EXCEPT ![lop.entry] = lop.after]
  PROVE  LocalInv'
<1>1. LopInv /\ lop.entry \in LocalEntries /\ lop.entry \in Entries
      /\ lop = [pc |-> lop.pc, entry |-> lop.entry, seen |-> lop.seen, after |-> lop.after,
                record |-> lop.record]
  BY LocalAssumption DEF Inv, LocalInv, LopInv
<1>2. Calm' \subseteq Calm /\ raced \subseteq raced'
  BY Histories
<1>3. /\ lop'.pc = p /\ lop'.entry = lop.entry /\ lop'.seen = lop.seen /\ lop'.after = lop.after
      /\ lop'.record = lop.record
      /\ lop' = [pc |-> lop'.pc, entry |-> lop'.entry, seen |-> lop'.seen, after |-> lop'.after,
                 record |-> lop'.record]
  BY <1>1
<1>4. \A f \in Entries \ {lop.entry} : entry'[f] = entry[f]
  BY DEF Inv, FilesInv
<1>5. lop.entry \notin raced' => entry'[lop.entry] = lop.after
  BY <1>1, <1>2 DEF LopInv, Inv, FilesInv
<1>6. LopInv'
  <2>1. lop.entry \in Calm' =>
          /\ Neat(lop.entry, lop.seen) /\ Neat(lop.entry, lop.after)
          /\ Says(lop.entry, lop.seen, records[lop.entry])
          /\ Says(lop.entry, lop.after, lop.record)
    BY <1>1, <1>2 DEF LopInv
  <2> QED BY <1>1, <1>3, <1>5, <2>1 DEF LopInv
<1>7. ASSUME NEW f \in LocalEntries, f \in Calm', ~Busy(f)'
      PROVE  Says(f, entry[f], records[f])'
  <2>1. f # lop.entry /\ f \in Entries
    BY <1>3, <1>7, LocalAssumption DEF Busy
  <2>2. Says(f, entry[f], records[f])
    BY <1>2, <1>7, <2>1 DEF Inv, LocalInv, Busy
  <2> QED BY <1>4, <2>1, <2>2 DEF Says
<1> QED BY <1>3, <1>6, <1>7 DEF Inv, LocalInv

LEMMA RecordsOfService ==
  ASSUME Inv, Next, LocalNext
  PROVE  LocalInv'
<1>1. /\ lop.pc \in {"off", "write", "commit", "restore"}
      /\ lop.pc # "off" => LopInv /\ lop.entry \in LocalEntries /\ lop.entry \in Entries
      /\ program \in Programs
  BY LocalAssumption DEF Inv, LocalInv, LopInv
<1>2. /\ Calm' \subseteq Calm /\ raced \subseteq raced'
      /\ \A e : e \in Calm' => e \notin raced /\ e \notin disturbed'
  BY Histories DEF Calm
<1>3. ASSUME NEW e \in LocalEntries PROVE records = [records EXCEPT ![e] = records[e]]
  BY <1>3 DEF Inv, LocalInv
<1>4. ASSUME NEW e \in Entries PROVE entry = [entry EXCEPT ![e] = entry[e]]
  BY <1>4 DEF Inv, FilesInv
<1>5. ASSUME NEW e \in LocalEntries, LocalInstall(e) PROVE LocalInv'
  <2>1. lop.pc = "off" /\ LocalAccepted(e)
    BY <1>5 DEF LocalInstall
  <2>2. PICK x, r : x = Hooked(e, entry[e], LocalCommand(e)) /\ r = Record(program)
    OBVIOUS
  <2>3. IsWork(e, entry[e], x, r)
    BY <2>1, <2>2, InstallationWork DEF Inv
  <2>4. /\ lop' = [pc |-> "write", entry |-> e, seen |-> entry[e], after |-> x, record |-> r]
        /\ UNCHANGED <<fileVars, records, program>>
    BY <1>5, <2>2 DEF LocalInstall
  <2> QED BY <2>1, <2>3, <2>4, ServiceBegins
<1>6. ASSUME NEW e \in LocalEntries, LocalUninstall(e) PROVE LocalInv'
  <2>1. lop.pc = "off" /\ LocalRemovable(e) /\ records[e] # NoRecord
    BY <1>6 DEF LocalUninstall
  <2>2. PICK x, r : /\ x = Unhooked(e, entry[e], RecordedCommand(e), FALSE)
                    /\ r = [records[e] EXCEPT !.installed = FALSE]
    OBVIOUS
  <2>3. IsWork(e, entry[e], x, r)
    BY <2>1, <2>2, RemovalWork DEF Inv
  <2>4. /\ lop' = [pc |-> "write", entry |-> e, seen |-> entry[e], after |-> x, record |-> r]
        /\ UNCHANGED <<fileVars, records, program>>
    BY <1>6, <2>2 DEF LocalUninstall
  <2> QED BY <2>1, <2>3, <2>4, ServiceBegins
<1>7. CASE LocalWrite
  <2>1. /\ lop.pc = "write" /\ lop' = [lop EXCEPT !.pc = "commit"] /\ UNCHANGED <<records, program>>
        /\ \/ lop.seen = lop.after /\ UNCHANGED entry
           \/ entry' = [entry EXCEPT ![lop.entry] = lop.after]
    BY <1>7 DEF LocalWrite, Untouched, Replace, fileVars
  <2> QED BY <2>1, ServiceGoesOn
(* The operation ends, and the record stays. *)
<1>8. ASSUME lop.pc # "off", lop' = LocalIdle, program' \in Programs, UNCHANGED records,
             NEW x, entry' = [entry EXCEPT ![lop.entry] = x],
             lop.entry \in Calm' => x = lop.seen
      PROVE  LocalInv'
  <2>1. PICK r : r = records[lop.entry]
    OBVIOUS
  <2>2. IsRecord(r) /\ records' = [records EXCEPT ![lop.entry] = r]
    BY <1>1, <1>3, <1>8, <2>1 DEF Inv, LocalInv
  <2>3. lop.entry \in Calm' => Says(lop.entry, x, r)
    BY <1>1, <1>2, <1>8, <2>1 DEF LopInv
  <2> QED BY <1>8, <2>2, <2>3, ServiceEnds
<1>9. CASE LocalWriteFails
  <2>1. /\ lop.pc = "write" /\ lop' = LocalIdle /\ UNCHANGED <<entry, records, program>>
    BY <1>9 DEF LocalWriteFails, fileVars
  <2>2. entry' = [entry EXCEPT ![lop.entry] = entry[lop.entry]]
    BY <1>1, <1>4, <2>1
  <2>3. lop.entry \in Calm' => entry[lop.entry] = lop.seen
    BY <1>1, <1>2, <2>1 DEF LopInv
  <2> QED BY <1>1, <1>8, <2>1, <2>2, <2>3
<1>10. CASE LocalCommit
  <2>1. lop.pc = "commit" /\ UNCHANGED <<entry, program>>
    BY <1>10 DEF LocalCommit, fileVars
  <2>2. CASE records' = [records EXCEPT ![lop.entry] = lop.record] /\ lop' = LocalIdle
    <3>1. entry' = [entry EXCEPT ![lop.entry] = entry[lop.entry]]
      BY <1>1, <1>4, <2>1
    <3>2. IsRecord(lop.record) /\ program' \in Programs
      BY <1>1, <2>1 DEF LopInv
    <3>3. lop.entry \in Calm' => Says(lop.entry, entry[lop.entry], lop.record)
      BY <1>1, <1>2, <2>1 DEF LopInv
    <3> QED BY <2>1, <2>2, <3>1, <3>2, <3>3, ServiceEnds
  <2>3. CASE lop' = [lop EXCEPT !.pc = "restore"] /\ UNCHANGED records
    BY <2>1, <2>3, ServiceGoesOn
  <2> QED BY <1>10, <2>2, <2>3 DEF LocalCommit
<1>11. CASE LocalRestore
  <2>1. lop.pc = "restore" /\ lop' = LocalIdle /\ UNCHANGED <<records, program>>
    BY <1>11 DEF LocalRestore
  <2>2. CASE Untouched /\ UNCHANGED entry
    <3>1. entry' = [entry EXCEPT ![lop.entry] = entry[lop.entry]]
      BY <1>1, <1>4, <2>1, <2>2
    <3>2. lop.entry \in Calm' => entry[lop.entry] = lop.seen
      BY <1>1, <1>2, <2>1, <2>2 DEF LopInv, Untouched
    <3> QED BY <1>1, <1>8, <2>1, <3>1, <3>2
  <2>3. CASE entry' = [entry EXCEPT ![lop.entry] = lop.seen]
    BY <1>1, <1>8, <2>1, <2>3
  <2>4. CASE LeaveDisturbed(lop.entry)
    <3>1. entry' = [entry EXCEPT ![lop.entry] = entry[lop.entry]]
      BY <1>1, <1>4, <2>1, <2>4 DEF LeaveDisturbed
    <3>2. lop.entry \notin Calm'
      BY <1>2, <2>4 DEF LeaveDisturbed
    <3> QED BY <1>1, <1>8, <2>1, <3>1, <3>2
  <2> QED BY <1>11, <2>2, <2>3, <2>4 DEF LocalRestore, Replace, fileVars
<1>12. ASSUME NEW p \in Programs, Restart(p) PROVE LocalInv'
  <2>1. lop' = LocalIdle /\ UNCHANGED <<entry, records>> /\ program' = p
    BY <1>12 DEF Restart, LeaveDisturbed, fileVars
  <2>2. CASE lop.pc = "off"
    <3>1. lop'.pc = "off" /\ \A f : ~Busy(f) /\ ~Busy(f)'
      BY <2>1, <2>2 DEF Busy, LocalIdle
    <3>2. \A f \in LocalEntries \cap Calm' : Says(f, entry[f], records[f])'
      BY <1>2, <2>1, <3>1 DEF Inv, LocalInv, Says
    <3> QED BY <2>1, <3>1, <3>2 DEF Inv, LocalInv
  <2>3. CASE lop.pc # "off"
    <3>1. entry' = [entry EXCEPT ![lop.entry] = entry[lop.entry]]
      BY <1>1, <1>4, <2>1, <2>3
    <3>2. lop.pc = "write" \/ lop.entry \notin Calm'
      BY <1>1, <1>2, <1>12, <2>3 DEF Restart, LeaveDisturbed
    <3>3. lop.entry \in Calm' => entry[lop.entry] = lop.seen
      BY <1>1, <1>2, <2>3, <3>2 DEF LopInv
    <3> QED BY <1>1, <1>8, <2>1, <2>3, <3>1, <3>3
  <2> QED BY <2>2, <2>3
<1> QED BY <1>5, <1>6, <1>7, <1>9, <1>10, <1>11, <1>12 DEF LocalNext

LEMMA ServiceStep ==
  ASSUME Inv, Next, LocalNext, Races(ClientWindow), UNCHANGED clientVars
  PROVE  Inv'
<1>1. Calm' \subseteq Calm
  BY Histories
<1>2. ASSUME NEW e \in Calm' PROVE entry'[e].hooks[Client] = entry[e].hooks[Client]
  <2>1. e \in Entries /\ e \notin raced /\ Client \in Commands \ Claimed
    BY Histories, Constants DEF Calm
  <2>2. ASSUME lop.pc \in {"write", "restore"}, NEW x \in {lop.seen, lop.after},
               entry' = [entry EXCEPT ![lop.entry] = x]
        PROVE  entry'[e].hooks[Client] = entry[e].hooks[Client]
    <3>1. LopInv
      BY <2>2 DEF Inv, LocalInv
    <3>2. CASE e = lop.entry
      <4>1. entry'[e] = x /\ entry[e] \in {lop.seen, lop.after}
        BY <2>1, <2>2, <3>1, <3>2 DEF LopInv, Inv, FilesInv
      <4> QED BY <2>1, <2>2, <3>1, <4>1 DEF LopInv
    <3>3. CASE e # lop.entry
      BY <2>1, <2>2, <3>3 DEF Inv, FilesInv
    <3> QED BY <3>2, <3>3
  <2> QED BY <2>2, LocalFiles DEF Inv
<1>3. FilesInv'
  BY FilesStep
<1>4. OwnInv'
  BY DEF clientVars, Inv, OwnInv, RecordedHooksHaveAdapter, Recorded
<1>5. OpInv' /\ WorkInv'
  BY <1>1, WorkIsKept
<1>6. WindowInv'
  BY WindowOfOthers
<1>7. HooksInv' /\ GoneInv' /\ TidyInv'
  BY <1>1, <1>2, HooksOfOthers
<1>8. LocalInv'
  BY RecordsOfService
<1> QED BY <1>3, <1>4, <1>5, <1>6, <1>7, <1>8 DEF Inv

-----------------------------------------------------------------------------
LEMMA FirstState ==
  ASSUME Init
  PROVE  Inv
<1>1. /\ entry = [e \in Entries |-> Absent] /\ edits = 0 /\ disturbed = {} /\ raced = {}
      /\ own = [f \in OwnFiles |-> IF f = "manifest" THEN NoManifest ELSE 0]
      /\ op = Idle /\ nodes = 0 /\ crashes = 0 /\ leftovers = FALSE
      /\ records = [e \in LocalEntries |-> NoRecord] /\ program \in Programs /\ lop = LocalIdle
  BY DEF Init, FilesInit, ClientInit, LocalInit
<1>2. \A e \in Entries : entry[e] = Absent
  BY <1>1
<1>3. FilesInv
  BY <1>1, <1>2, OwnContent, NeatContent, Constants DEF FilesInv
<1>4. /\ own["manifest"] = NoManifest /\ own["code"] = 0 /\ own["connection"] = 0
      /\ own["enrolled"] = 0 /\ DOMAIN own = OwnFiles
  BY <1>1, OwnNames
<1>5. Recorded = {} /\ IsManifest(NoManifest)
  BY <1>4 DEF Recorded, NoManifest, IsManifest, Manifests
<1>6. OwnInv
  BY <1>1, <1>4, <1>5, OwnNames DEF OwnInv, RecordedHooksHaveAdapter
<1>7. op.pc = "off" /\ op.at = 0 /\ op.left = {} /\ op.edits = <<>> /\ Last = 0
  BY <1>1 DEF Idle, Last
<1>8. ~Working /\ ~Waiting
  BY <1>7 DEF Working, Waiting, Forward, Backward
<1>9. OpInv /\ WorkInv /\ WindowInv /\ TidyInv
  BY <1>1, <1>7, <1>8 DEF OpInv, OpStates, WorkInv, WindowInv, TidyInv, Idle
<1>10. HooksInv
  BY <1>2, <1>5, <1>8, OwnContent, Constants DEF HooksInv, Expected, Calm
<1>11. GoneInv
  BY <1>4, OwnNames DEF GoneInv
<1>12. LocalInv
  <2>1. lop.pc = "off"
    BY <1>1 DEF LocalIdle
  <2>2. NoRecord.installed = FALSE /\ NoRecord.command = "none"
    BY DEF NoRecord
  <2>3. IsRecord(NoRecord)
    BY <2>2 DEF IsRecord, NoRecord
  <2>4. \A e \in LocalEntries : records[e] = NoRecord /\ e \in Entries
    BY <1>1, LocalAssumption
  <2>5. \A e \in LocalEntries : Says(e, entry[e], records[e])
    BY <1>2, <2>2, <2>4, OwnContent, Constants DEF Says
  <2> QED BY <1>1, <2>1, <2>3, <2>4, <2>5 DEF LocalInv
<1> QED BY <1>3, <1>6, <1>9, <1>10, <1>11, <1>12 DEF Inv

LEMMA NothingHappens ==
  ASSUME Inv, UNCHANGED vars
  PROVE  Inv'
<1>1. UNCHANGED <<entry, edits, disturbed, raced, clientVars, localVars>>
  BY DEF vars, fileVars
<1>2. Calm' = Calm
  BY <1>1 DEF Calm
<1>3. FilesInv'
  BY <1>1, <1>2 DEF Inv, FilesInv
<1>4. OwnInv'
  BY <1>1 DEF clientVars, Inv, OwnInv, RecordedHooksHaveAdapter, Recorded
<1>5. OpInv' /\ WorkInv'
  BY <1>1, <1>2, WorkIsKept
<1>6. WindowInv'
  BY <1>1 DEF clientVars, Inv, WindowInv, File, Before, After
<1>7. HooksInv' /\ GoneInv' /\ TidyInv'
  BY <1>1, <1>2, HooksOfOthers
<1>8. LocalInv'
  BY <1>1, <1>2 DEF localVars, Inv, LocalInv, LopInv, Busy, Says
<1> QED BY <1>3, <1>4, <1>5, <1>6, <1>7, <1>8 DEF Inv

(* Whatever is installed, removed, edited, killed or restarted, in any order *)
(* and between any two writes, the state is one the code's steps can         *)
(* continue from: a plan, how far it has come, and what every file says.     *)
THEOREM InstallationsInvariantHolds == Spec => []Inv
<1>1. Init => Inv
  BY FirstState
<1>2. Inv /\ [Next]_vars => Inv'
  <2> SUFFICES ASSUME Inv, [Next]_vars PROVE Inv'
    OBVIOUS
  <2>1. CASE ClientNext /\ Races(LocalWindow) /\ UNCHANGED localVars
    BY <2>1, ClientStep DEF Next
  <2>2. CASE LocalNext /\ Races(ClientWindow) /\ UNCHANGED clientVars
    BY <2>2, ServiceStep DEF Next
  <2>3. CASE /\ \E e \in Entries : UserWrites(e)
             /\ Races(ClientWindow \cup LocalWindow) /\ UNCHANGED <<clientVars, localVars>>
    BY <2>3, UserStep DEF Next
  <2> QED BY <2>1, <2>2, <2>3, NothingHappens DEF Next
<1> QED BY <1>1, <1>2, PTL DEF Spec

(* Files, records and operations are of their kinds, and client.json says    *)
(* "made" only of entries that it names.                                     *)
THEOREM InstallationsTypesCorrect == Spec => []TypeOK
<1>1. Inv => TypeOK
  <2> SUFFICES ASSUME Inv PROVE TypeOK
    OBVIOUS
  <2>1. entry \in [Entries -> Contents]
    BY DEF Inv, FilesInv, IsContent
  <2>2. disturbed \subseteq Entries /\ raced \subseteq Entries /\ edits \in 0..MaxEdits
    BY DEF Inv, FilesInv
  <2>3. /\ DOMAIN own = OwnFiles /\ own["code"] \in Versions \cup {0}
        /\ own["connection"] \in 0..nodes /\ own["enrolled"] \in 0..nodes
        /\ own["manifest"] \in Manifests /\ own["manifest"].made \subseteq Recorded
    BY DEF Inv, OwnInv, IsManifest, Recorded
  <2>4. op.pc \in OpStates /\ op.left \subseteq OwnFiles
    BY DEF Inv, OpInv
  <2>5. op.at \in 0..(Len(op.edits) + 1)
    <3>1. op.pc = "off" => op.at = 0
      BY DEF Inv, OpInv, Idle
    <3>2. Waiting => op.at = 0
      BY DEF Inv, OpInv
    <3>3. Last = Len(op.edits) /\ Last \in Nat
      BY DEF Inv, OpInv, Last
    <3> QED BY <3>1, <3>2, <3>3 DEF Inv, OpInv, OpStates, Waiting, Steps
  <2>6. /\ \A e \in LocalEntries : records[e] = NoRecord \/ records[e].command \in Programs
        /\ program \in Programs /\ lop.pc \in {"off", "write", "commit", "restore"}
    BY DEF Inv, LocalInv, IsRecord
  <2> QED BY <2>1, <2>2, <2>3, <2>4, <2>5, <2>6 DEF TypeOK
<1> QED BY <1>1, InstallationsInvariantHolds, PTL

(* While client.json names an entry, the adapter is there as it was recorded, *)
(* in the middle of any operation and after any failure or kill.              *)
THEOREM RecordedHooksKeepAdapter == Spec => []RecordedHooksHaveAdapter
<1>1. Inv => RecordedHooksHaveAdapter
  BY DEF Inv, OwnInv
<1> QED BY <1>1, InstallationsInvariantHolds, PTL

(* Between operations, and unless a kill or a failed rollback has been, the   *)
(* client's hooks are those in client.json, and nothing stays when none is.   *)
THEOREM ClientHooksStayRecorded == Spec => []ClientHooksAreRecorded
<1>1. Inv => ClientHooksAreRecorded
  <2> SUFFICES ASSUME Inv, op.pc = "off", crashes = 0, ~leftovers
               PROVE  /\ \A e \in Calm :
                            entry[e].hooks[Client] = IF e \in Recorded THEN "full" ELSE "none"
                      /\ Recorded = {} => own["code"] = 0 /\ own["connection"] = 0
    BY DEF ClientHooksAreRecorded
  <2>1. ~Working /\ Unmarred
    BY DEF Working, Forward, Backward, Unmarred
  <2>2. \A e \in Calm : entry[e].hooks[Client] = IF e \in Recorded THEN "full" ELSE "none"
    BY <2>1 DEF Inv, HooksInv, Expected
  <2>3. Recorded = {} => own["code"] = 0 /\ own["connection"] = 0
    BY <2>1, OwnNames DEF Inv, GoneInv
  <2> QED BY <2>2, <2>3
<1> QED BY <1>1, InstallationsInvariantHolds, PTL

(* Between operations the installations table says of every entry nobody has *)
(* disturbed whose hook it holds.                                             *)
THEOREM LocalHooksStayRecorded == Spec => []LocalHooksAreRecorded
<1>1. Inv => LocalHooksAreRecorded
  <2> SUFFICES ASSUME Inv, lop.pc = "off", NEW e \in LocalEntries \cap Calm,
                      NEW c \in Programs \cup {Loader}
               PROVE  entry[e].hooks[c] = IF records[e].installed /\ RecordedCommand(e) = c
                                            THEN "full" ELSE "none"
    BY DEF LocalHooksAreRecorded
  <2>1. Says(e, entry[e], records[e])
    BY DEF Inv, LocalInv, Busy
  <2> QED BY <2>1 DEF Says, RecordedCommand, Claimed
<1> QED BY <1>1, InstallationsInvariantHolds, PTL

(* Grok finds the client's hook in one of its entries at most, also between   *)
(* the two writes of a switch and of its rollback.                            *)
THEOREM OneScopeAtATime == Spec => []OneScope
<1>1. Inv => OneScope
  <2> SUFFICES ASSUME Inv, crashes = 0, ~leftovers, NEW e \in Calm, NEW f \in Calm,
                      e # f, SameAgent(e, f), AgentOf[e] \in Exclusive,
                      Holds(entry[e], Client), Holds(entry[f], Client)
               PROVE  FALSE
    BY DEF OneScope
  <2>1. Expected(e) /\ Expected(f) /\ e \in Entries /\ f \in Entries
    BY DEF Inv, HooksInv, Unmarred, Holds, Calm
  <2>2. SameAgent(f, e) /\ AgentOf[f] \in Exclusive
    BY DEF SameAgent
  <2>3. CASE ~Working
    BY <2>1, <2>3 DEF Expected, Recorded, Inv, OwnInv, IsManifest
  <2>4. CASE Working
    <3>1. PlanInv /\ Last \in Nat
      BY <2>4 DEF Inv, WorkInv, OpInv
    <3>2. ~(e \in New /\ f \in New) /\ ~(e \in Old /\ f \in Old)
      BY <3>1 DEF PlanInv, IsManifest, New, Old
    <3>3. ASSUME NEW x \in Entries, NEW y \in Entries, x \in New, y \in Old, y \notin New,
                 Expected(x), Expected(y), x \notin Old
          PROVE  FALSE
      <4>1. PICK k \in Steps : File(k) = x /\ IsApplied(k)
        BY <2>4, <3>3 DEF Expected
      <4>2. PICK j \in Steps : File(j) = y
        BY <3>1, <3>3 DEF PlanInv
      <4>3. ~IsApplied(j)
        BY <2>4, <3>3, <4>2 DEF Expected
      <4>4. k < j
        <5>1. op.at \in Nat
          BY <2>4, <3>1 DEF Inv, OpInv, Steps, Working, Forward, Backward
        <5>2. k \in Nat /\ j \in Nat
          BY DEF Steps
        <5> QED BY <4>1, <4>3, <5>1, <5>2 DEF IsApplied
      <4>5. j # Last
        BY <3>1, <3>3, <4>2, OwnNames DEF PlanInv
      <4>6. k \in 1..(Last - 2)
        BY <3>1, <4>4, <4>5 DEF Steps
      <4> QED BY <3>1, <3>3, <4>1, <4>6 DEF PlanInv
    <3>4. ASSUME NEW x \in Entries, Expected(x) PROVE x \in New \/ x \in Old
      BY <2>4, <3>4 DEF Expected
    <3> QED BY <2>1, <3>2, <3>3, <3>4
  <2> QED BY <2>3, <2>4
<1> QED BY <1>1, InstallationsInvariantHolds, PTL

(* Whatever an interrupted operation leaves, unless it is stranded, every     *)
(* entry that nobody disturbed or took over can be installed.                 *)
THEOREM InstallingAgainRepairs == Spec => []RepairsAreAccepted
<1>1. Inv => RepairsAreAccepted
  <2> SUFFICES ASSUME Inv, ~Stranded, NEW e \in Calm, NEW v \in Versions,
                      ~TakenOver(e), OnlyScope(e),
                      Recorded # {} => v = own["manifest"].adapter["code"],
                      NEW no, no = FALSE
               PROVE  Accepted(e, no, v)
    BY DEF RepairsAreAccepted
  <2>1. e \in Entries /\ Neat(e, entry[e]) /\ OwnInv
    BY DEF Inv, FilesInv, Calm
  <2>2. AgentOf[e] \in Exclusive => \A x \in Recorded : SameAgent(x, e) => x = e
    BY DEF OnlyScope
  <2>3. GivenUp(e, no) = {}
    BY DEF GivenUp
  <2>4. Installable(e, entry[e], Client)
    <3>1. CASE e \in Documents
      BY <2>1, <3>1, Constants DEF Neat, Installable
    <3>2. CASE e \notin Documents
      <4>1. entry[e] # Own(Loader)
        <5>1. Loader \in Commands \ {Client} /\ Own(Loader).hooks[Loader] = "full"
          BY OwnContent, Constants DEF Claimed
        <5> QED BY <3>2, <5>1 DEF TakenOver, Holds
      <4> QED BY <2>1, <3>2, <4>1 DEF Neat, Installable
    <3> QED BY <3>1, <3>2
  <2>5. AdapterAccepted(v)
    <3> SUFFICES ASSUME NEW r \in Adapter, own[r] # 0
                 PROVE  Recorded # {} /\ own["manifest"].adapter[r] = own[r] /\ own[r] = Wanted(r, v)
      BY DEF AdapterAccepted
    <3>1. Recorded # {}
      BY DEF Stranded
    <3>2. own["manifest"].adapter[r] = own[r]
      BY <2>1, <3>1 DEF OwnInv, RecordedHooksHaveAdapter
    <3> QED BY <3>1, <3>2, OwnNames DEF Wanted, Credential
  <2> QED BY <2>2, <2>3, <2>4, <2>5 DEF Accepted
<1> QED BY <1>1, InstallationsInvariantHolds, PTL

(* No step of an installer changes the rest of a document or another's hook,  *)
(* unless somebody wrote the document between its last look and its write.    *)
THEOREM OthersContentKept == Spec => OtherContentIsKept
<1> DEFINE Kept ==
      \A e \in Entries \ raced :
          entry'[e] # entry[e] /\ edits' = edits =>
             /\ entry'[e].other = entry[e].other
             /\ \A c \in Commands :
                   entry'[e].hooks[c] # entry[e].hooks[c] =>
                       c \in (IF op' # op THEN {Client} ELSE Programs \cup {Loader})
<1>1. Inv /\ [Next]_vars => [Kept]_vars
  <2> SUFFICES ASSUME Inv, Next, NEW e \in Entries \ raced, entry'[e] # entry[e], edits' = edits
               PROVE  /\ entry'[e].other = entry[e].other
                      /\ \A c \in Commands :
                            entry'[e].hooks[c] # entry[e].hooks[c] =>
                                c \in (IF op' # op THEN {Client} ELSE Programs \cup {Loader})
    OBVIOUS
  <2>1. FilesInv
    BY DEF Inv
  <2>2. CASE ClientNext
    <3>1. \/ op.pc = "write" /\ Write /\ entry' = [entry EXCEPT ![File(op.at)] = After(op.at)]
          \/ op.pc = "unwrite" /\ Unwrite /\ entry' = [entry EXCEPT ![File(op.at)] = Before(op.at)]
      BY <2>2, ClientFiles DEF Inv
    <3>2. /\ op.at \in Steps /\ File(op.at) \in Entries /\ EntryEdit(op.at)
          /\ op = [pc |-> op.pc, edits |-> op.edits, at |-> op.at, left |-> op.left]
      BY <3>1, WriteIsPlanned DEF Inv, OpInv, Waiting
    <3>3. op' # op
      <4>1. op'.pc \in {"apply", "undo"}
        BY <3>1, <3>2 DEF Write, Unwrite
      <4> QED BY <3>1, <4>1
    <3>4. e = File(op.at)
      BY <2>1, <3>1 DEF FilesInv
    <3>5. /\ entry[e] \in {Before(op.at), After(op.at)} /\ entry'[e] \in {Before(op.at), After(op.at)}
      BY <2>1, <3>1, <3>2, <3>4 DEF FilesInv, Inv, WindowInv
    <3> QED BY <3>2, <3>3, <3>5 DEF EntryEdit
  <2>3. CASE LocalNext /\ UNCHANGED clientVars
    <3>1. \/ lop.pc = "write" /\ entry' = [entry EXCEPT ![lop.entry] = lop.after]
          \/ lop.pc = "restore" /\ entry' = [entry EXCEPT ![lop.entry] = lop.seen]
      BY <2>3, LocalFiles DEF Inv
    <3>2. LopInv /\ lop.entry \in Entries
      BY <3>1, LocalAssumption DEF Inv, LocalInv, LopInv
    <3>3. e = lop.entry /\ op' = op
      BY <2>1, <2>3, <3>1 DEF FilesInv, clientVars
    <3>4. entry[e] \in {lop.seen, lop.after} /\ entry'[e] \in {lop.seen, lop.after}
      BY <2>1, <3>1, <3>2, <3>3 DEF FilesInv, LopInv
    <3> QED BY <3>2, <3>3, <3>4 DEF LopInv, Claimed
  <2>4. CASE \E f \in Entries : UserWrites(f)
    BY <2>1, <2>4, UserFiles
  <2> QED BY <2>2, <2>3, <2>4 DEF Next
<1>2. Spec => [][Kept]_vars
  BY <1>1, InstallationsInvariantHolds, PTL DEF Spec
<1> QED BY <1>2 DEF OtherContentIsKept

(* Installing again never exchanges the connection or loses a credential, and *)
(* a device is enrolled only when it has neither.                             *)
THEOREM IdentityIsOne == Spec => OneIdentity
<1>1. Inv /\ [Next]_vars => [IdentityIsKept]_vars
  <2> SUFFICES ASSUME Inv, Next PROVE IdentityIsKept
    OBVIOUS
  <2>1. CASE ClientNext
    BY <2>1, IdentityStep
  <2>2. CASE UNCHANGED clientVars
    BY <2>2 DEF clientVars, IdentityIsKept
  <2> QED BY <2>1, <2>2 DEF Next
<1>2. Spec => [][IdentityIsKept]_vars
  BY <1>1, InstallationsInvariantHolds, PTL DEF Spec
<1> QED BY <1>2 DEF OneIdentity, IdentityIsKept
=============================================================================
