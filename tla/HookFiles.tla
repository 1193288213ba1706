------------------------------ MODULE HookFiles ------------------------------
(***************************************************************************)
(* The files by which an agent starts a hook, and what an installer may do *)
(* to them (src/internal/core/install_agents.go and client_install.go).    *)
(*                                                                         *)
(* A document (claude, codex, grok) is a configuration file that also holds *)
(* other settings; an installer adds a group with its command to the list  *)
(* of each event and takes the groups out again.  The other entries (the   *)
(* plugin of OpenCode, the link of Pi) are nothing but the hook.           *)
(*                                                                         *)
(* The content of an entry is abstracted to what the installers tell       *)
(* apart: for each command whether its groups are complete ("full"), whether *)
(* some events miss theirs ("part"), or whether a group contains the       *)
(* command and something else ("edited"); and the edition of everything    *)
(* else.  An unreadable document is refused like an edited one.            *)
(***************************************************************************)
EXTENDS Naturals, Sequences, FiniteSets

CONSTANTS
    Entries,     \* the entries of all agents and scopes
    Documents,   \* those that are documents
    Links,       \* those that are symbolic links: Pi
    AgentOf,     \* the agent of each entry
    ScopeOf,     \* "global" or "project"; an agent has one global entry
    Exclusive,   \* agents that allow one scope at a time: grok
    Commands,    \* hook commands: of the client, and of each program of the service
    MaxEdits,    \* bound: edits by the user
    MaxFaults    \* bound: writes and commits that fail

ASSUME EntryAssumption ==
    /\ IsFiniteSet(Entries)
    /\ Documents \subseteq Entries
    /\ Links \subseteq Entries \ Documents
    /\ AgentOf \in [Entries -> STRING]
    /\ ScopeOf \in [Entries -> {"global", "project"}]
    /\ MaxEdits \in Nat /\ MaxFaults \in Nat

VARIABLES
    entry,   \* the content of each entry
    edits,   \* how often the user has edited one
    faults,    \* how many writes have failed
    disturbed  \* history: the entries that the user has edited, and those
               \* that an installer could not put back

fileVars == <<entry, edits, disturbed>>   \* without faults

HookStates == {"none", "part", "full", "edited"}
NoHooks == [c \in Commands |-> "none"]

Contents == [exists : BOOLEAN, other : 0..MaxEdits, hooks : [Commands -> HookStates]]

Absent == [exists |-> FALSE, other |-> 0, hooks |-> NoHooks]

(* A document without settings: {}. *)
Blank == [exists |-> TRUE, other |-> 0, hooks |-> NoHooks]

Holds(content, c) == content.hooks[c] # "none"

(* An entry that is nothing but the hook of command c. *)
Own(c) == [Blank EXCEPT !.hooks[c] = "full"]

Without(content, c) == [content EXCEPT !.hooks[c] = "none"]

SameAgent(e, f) == AgentOf[e] = AgentOf[f]

(* modifyHookDocument and the checks of the other entries: what an          *)
(* installer refuses to touch.  `recorded` says that it believes its hook   *)
(* to be there.                                                             *)
(* Mutant: an entry that has the hook already is refused. *)
InstallableOnce(e, content, c) ==
    IF e \in Documents THEN content.hooks[c] = "none" ELSE content = Absent

Installable(e, content, c) ==
    IF e \in Documents THEN content.hooks[c] # "edited"
                       ELSE content \in {Absent, Own(c)}

Removable(e, content, c, recorded) ==
    IF e \in Documents
      THEN /\ content.hooks[c] # "edited"
           /\ recorded /\ content.exists => content.hooks[c] = "full"
      ELSE content \in {Absent, Own(c)}

Hooked(e, content, c) ==
    IF e \in Documents THEN [content EXCEPT !.exists = TRUE, !.hooks[c] = "full"]
                       ELSE Own(c)

(* A document stays, unless the installer made it and nothing is left in it. *)
Unhooked(e, content, c, made) ==
    IF e \in Documents /\ content.exists /\ ~(made /\ Without(content, c) = Blank)
      THEN Without(content, c)
      ELSE Absent

(* AtomicFile replaces whatever is there, Symlink does not. *)
Replaceable(e, content) == e \in Links /\ content.exists => entry[e] \in {Absent, content}

Replace(e, content) ==
    /\ Replaceable(e, content)
    /\ entry' = [entry EXCEPT ![e] = content]
    /\ UNCHANGED <<edits, disturbed>>

Fault == faults < MaxFaults /\ faults' = faults + 1

LeaveDisturbed(e) == disturbed' = disturbed \cup {e} /\ UNCHANGED <<entry, edits>>

FilesInit ==
    /\ entry = [e \in Entries |-> Absent]
    /\ edits = 0
    /\ faults = 0
    /\ disturbed = {}

-----------------------------------------------------------------------------
(* The user, or the agent itself, writes an entry: other settings, and      *)
(* perhaps a hook that is changed, damaged or taken out.                    *)
UserWrites(e) ==
    /\ edits < MaxEdits
    /\ edits' = edits + 1
    /\ disturbed' = disturbed \cup {e}
    /\ UNCHANGED faults
    /\ \/ /\ e \in Documents
          /\ \E c \in Commands, s \in HookStates :
                /\ s = entry[e].hooks[c] \/ entry[e].hooks[c] = "full"
                /\ entry' = [entry EXCEPT ![e] =
                                [exists |-> TRUE, other |-> edits + 1,
                                 hooks |-> [entry[e].hooks EXCEPT ![c] = s]]]
       \/ /\ e \notin Documents
          /\ entry' = [entry EXCEPT ![e] = [Blank EXCEPT !.other = edits + 1]]
       \/ /\ entry[e].exists
          /\ entry' = [entry EXCEPT ![e] = Absent]
=============================================================================
