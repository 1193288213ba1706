--------------------------- MODULE ReviewSettings ---------------------------
(***************************************************************************)
(* The configuration of the review engine (src/internal/core): the         *)
(* settings in memory (Engine.Settings), their record in the database, the *)
(* model's key in a file of its own, the snapshots of each version, and    *)
(* the policy rules whose changes count as versions of the settings.       *)
(*                                                                         *)
(* SaveSettings writes the key file before the database, so a crash or a   *)
(* failed rollback can part the two; TestModel works on a copy of the      *)
(* settings while the mutex is free; Open seeds the rules record by record *)
(* and upgrades what an older version left.                                *)
(***************************************************************************)
EXTENDS Integers

CONSTANTS
    Endpoints,   \* protocol, base URL and model name of a ModelConfig
    Keys,        \* API keys
    NoKey,       \* the empty key
    None,        \* no save, no test, no rules
    MaxVersion,  \* bound: settings versions
    MaxCrashes   \* bound: crashes of the process

VARIABLES
    phase,     \* "down", "seeding" (inside Open) or "up"
    mem,       \* Engine.Settings
    disk,      \* the record settings/current, which has no key
    keyFile,   \* the file model.key
    versions,  \* the records settings_versions
    rules,     \* the rule set: None, partly seeded, complete or edited
    saving,    \* SaveSettings between its two writes, holding Engine.mu
    test,      \* the settings a running TestModel works with
    crashes,
    passed,    \* history: endpoints and keys a test call succeeded with
    torn,      \* history: a key was written and its settings were not
    used       \* history: what reviews were submitted under

vars == <<phase, mem, disk, keyFile, versions, rules, saving, test, crashes,
          passed, torn, used>>

-----------------------------------------------------------------------------
Prompts == {"legacy", "current"}   \* whether upgradeDataGuard finds its block
RuleSets == {"none", "partial", "old", "builtin", "edited"}

Config ==
    [mode : {"human", "model"}, endpoint : Endpoints, tested : BOOLEAN,
     prompt : Prompts, version : Nat]

(* Settings with the key, which never reaches the database. *)
Settings ==
    [mode : {"human", "model"}, endpoint : Endpoints, tested : BOOLEAN,
     prompt : Prompts, version : Nat, key : Keys \cup {NoKey}]
Saves == [settings : Settings, keyWritten : BOOLEAN]

ASSUME SettingsAssumption ==
    /\ NoKey \notin Keys
    /\ None \notin Keys \cup {NoKey} \cup Settings \cup Saves
    /\ Endpoints # {}
    /\ MaxVersion \in Nat
    /\ MaxCrashes \in Nat

WithKey(s, k) ==
    [mode |-> s.mode, endpoint |-> s.endpoint, tested |-> s.tested,
     prompt |-> s.prompt, version |-> s.version, key |-> k]

Stored(s) ==
    [mode |-> s.mode, endpoint |-> s.endpoint, tested |-> s.tested,
     prompt |-> s.prompt, version |-> s.version]

Free == phase = "up" /\ saving = None   \* Engine.mu can be taken

(* Mutant: the snapshot is taken of the settings with their key. *)
SnapshotWithKey(known, s) == known \cup {s}

(* ON CONFLICT DO NOTHING. *)
Snapshot(known, s) ==
    IF \E v \in known : v.version = s.version THEN known ELSE known \cup {Stored(s)}

(* change(): the settings record and its snapshot in one transaction. *)
Store(s) ==
    /\ mem' = s
    /\ disk' = Stored(s)
    /\ versions' = Snapshot(versions, s)

-----------------------------------------------------------------------------
(* A fresh data directory, or one an older release left. *)
Init ==
    /\ phase = "down"
    /\ \E e \in Endpoints, p \in Prompts, r \in {"none", "old"} :
          /\ disk = [mode |-> "human", endpoint |-> e, tested |-> FALSE,
                     prompt |-> p, version |-> 1]
          /\ rules = r
    /\ mem = WithKey(disk, NoKey)
    /\ keyFile = NoKey
    /\ versions = {}
    /\ saving = None
    /\ test = None
    /\ crashes = 0
    /\ passed = {}
    /\ torn = FALSE
    /\ used = {}

(* Open reads the settings and the key, and migrates an unchanged legacy   *)
(* prompt as a new version, keeping a snapshot of the old one.             *)
OpenLoad ==
    LET s == WithKey(disk, keyFile)
        upgraded == [s EXCEPT !.prompt = "current", !.version = @ + 1]
    IN
    /\ phase = "down"
    /\ phase' = "seeding"
    /\ \/ /\ s.prompt = "legacy"
          /\ s.version < MaxVersion
          /\ mem' = upgraded
          /\ disk' = Stored(upgraded)
          /\ versions' = Snapshot(Snapshot(versions, s), upgraded)
       \/ /\ s.prompt = "current"
          /\ mem' = s
          /\ UNCHANGED <<disk, versions>>
    /\ UNCHANGED <<keyFile, rules, saving, test, crashes, passed, torn, used>>

(* An empty rule table is filled one put after the other. *)
SeedSome ==
    /\ phase = "seeding"
    /\ rules = "none"
    /\ rules' = "partial"
    /\ UNCHANGED <<phase, mem, disk, keyFile, versions, saving, test, crashes,
                   passed, torn, used>>

SeedRest ==
    /\ phase = "seeding"
    /\ rules = "partial"
    /\ rules' = "builtin"
    /\ phase' = "up"
    /\ UNCHANGED <<mem, disk, keyFile, versions, saving, test, crashes, passed,
                   torn, used>>

(* A table that holds rules gets the missing ones as one new version: the  *)
(* rules of an older release, or those of a seeding that was cut short.    *)
UpgradeRules ==
    /\ phase = "seeding"
    /\ rules \in {"partial", "old"}
    /\ mem.version < MaxVersion
    /\ Store([mem EXCEPT !.version = @ + 1])
    /\ rules' = "builtin"
    /\ phase' = "up"
    /\ UNCHANGED <<keyFile, saving, test, crashes, passed, torn, used>>

RulesComplete ==
    /\ phase = "seeding"
    /\ rules \in {"builtin", "edited"}
    /\ phase' = "up"
    /\ UNCHANGED <<mem, disk, keyFile, versions, rules, saving, test, crashes,
                   passed, torn, used>>

(* Mutant: a new key or model is taken for as good as the tested one. *)
TestedUnlessEndpointChanges(e, k) == mem.tested /\ e = mem.endpoint

(* Tested survives only if nothing the test depended on has changed. *)
StillTested(e, k) == mem.tested /\ e = mem.endpoint /\ k = mem.key

(* Mutant: whether the model was tested is not asked. *)
MayUseModel(m, tested) == TRUE

MayUse(m, tested) == m = "model" => tested

(* SaveSettings up to its first write; k = None leaves the key alone. *)
BeginSave(m, e, p, k) ==
    LET key == IF k = None THEN mem.key ELSE k
        s == [mode |-> m, endpoint |-> e, tested |-> StillTested(e, key),
              prompt |-> p, version |-> mem.version + 1, key |-> key]
    IN
    /\ Free
    /\ mem.version < MaxVersion
    /\ MayUse(m, s.tested)
    /\ saving' = [settings |-> s, keyWritten |-> k # None]
    /\ keyFile' = IF k = None THEN keyFile ELSE key
    /\ UNCHANGED <<phase, mem, disk, versions, rules, test, crashes, passed,
                   torn, used>>

CommitSave ==
    /\ saving # None
    /\ Store(saving.settings)
    /\ saving' = None
    /\ UNCHANGED <<phase, keyFile, rules, test, crashes, passed, torn, used>>

(* Mutant: the new key stays in its file. *)
AbortSaveKeepsKey(rolledBack) ==
    /\ saving # None
    /\ saving' = None
    /\ torn' = (torn \/ (saving.keyWritten /\ ~ rolledBack))
    /\ UNCHANGED <<phase, mem, disk, keyFile, versions, rules, test, crashes,
                   passed, used>>

(* The database refuses: the key is put back, unless that fails as well. *)
AbortSave(rolledBack) ==
    /\ saving # None
    /\ saving' = None
    /\ keyFile' = IF saving.keyWritten /\ rolledBack THEN mem.key ELSE keyFile
    /\ torn' = (torn \/ (saving.keyWritten /\ ~ rolledBack))
    /\ UNCHANGED <<phase, mem, disk, versions, rules, test, crashes, passed, used>>

(* Mutant: the rules change and the version stays. *)
SaveRuleSilently(r) ==
    /\ Free
    /\ rules' = r
    /\ Store(mem)
    /\ UNCHANGED <<phase, keyFile, saving, test, crashes, passed, torn, used>>

(* SaveRule, DeleteRule, and likewise SaveScope and DeleteScope. *)
SaveRule(r) ==
    /\ Free
    /\ mem.version < MaxVersion
    /\ rules' = r
    /\ Store([mem EXCEPT !.version = @ + 1])
    /\ UNCHANGED <<phase, keyFile, saving, test, crashes, passed, torn, used>>

(* TestModel copies the settings and lets the mutex go for the model call. *)
BeginTest ==
    /\ Free
    /\ test = None
    /\ test' = mem
    /\ UNCHANGED <<phase, mem, disk, keyFile, versions, rules, saving, crashes,
                   passed, torn, used>>

(* Mutant: the copy is stored whatever happened to the settings. *)
SameVersionIgnored == TRUE

SameVersion == mem.version = test.version

(* The call succeeded; the copy is stored if it is still the current one.  *)
TestPassed ==
    /\ Free
    /\ test # None
    /\ passed' = passed \cup {<<test.endpoint, test.key>>}
    /\ IF SameVersion THEN Store([test EXCEPT !.tested = TRUE])
                      ELSE UNCHANGED <<mem, disk, versions>>
    /\ test' = None
    /\ UNCHANGED <<phase, keyFile, rules, saving, crashes, torn, used>>

TestFailed ==
    /\ Free
    /\ test # None
    /\ test' = None
    /\ UNCHANGED <<phase, mem, disk, keyFile, versions, rules, saving, crashes,
                   passed, torn, used>>

(* Submit records what the review is judged under. *)
Use ==
    /\ Free
    /\ used' = used \cup {[config |-> Stored(mem), rules |-> rules]}
    /\ UNCHANGED <<phase, mem, disk, keyFile, versions, rules, saving, test,
                   crashes, passed, torn>>

Crash ==
    /\ phase # "down"
    /\ crashes < MaxCrashes
    /\ crashes' = crashes + 1
    /\ phase' = "down"
    /\ torn' = (torn \/ (saving # None /\ saving.keyWritten))
    /\ saving' = None
    /\ test' = None
    /\ UNCHANGED <<mem, disk, keyFile, versions, rules, passed, used>>

Next ==
    \/ OpenLoad \/ SeedSome \/ SeedRest \/ UpgradeRules \/ RulesComplete
    \/ \E m \in {"human", "model"}, e \in Endpoints, k \in Keys \cup {NoKey, None},
          p \in {mem.prompt, "current"} : BeginSave(m, e, p, k)
    \/ CommitSave
    \/ \E rolledBack \in BOOLEAN : AbortSave(rolledBack)
    \/ \E r \in {"builtin", "edited"} : SaveRule(r)
    \/ BeginTest \/ TestPassed \/ TestFailed
    \/ Use
    \/ Crash

Spec == Init /\ [][Next]_vars

-----------------------------------------------------------------------------
(* Properties *)

(* The kinds of all records; those of the database never hold a key. *)
TypeOK ==
    /\ phase \in {"down", "seeding", "up"}
    /\ mem \in Settings
    /\ disk \in Config
    /\ keyFile \in Keys \cup {NoKey}
    /\ versions \subseteq Config
    /\ rules \in RuleSets
    /\ saving \in Saves \cup {None}
    /\ test \in Settings \cup {None}
    /\ crashes \in 0..MaxCrashes
    /\ passed \subseteq Endpoints \X (Keys \cup {NoKey})
    /\ torn \in BOOLEAN

(* The mark Tested stands for a model call that succeeded with exactly the *)
(* endpoint and the key in use, unless a crash or a failed rollback parted *)
(* the key file from the settings.                                         *)
TestedMeansPassed ==
    phase # "down" /\ mem.tested /\ ~ torn => <<mem.endpoint, mem.key>> \in passed

(* Reviews go to the model only under settings that were tested, in memory *)
(* and after any restart.                                                  *)
ModelModeIsTested ==
    /\ mem.mode = "model" => mem.tested
    /\ disk.mode = "model" => disk.tested

(* Between two handlers the engine in memory is what a restart would read. *)
MemoryIsDurable ==
    Free => /\ Stored(mem) = disk
            /\ ~ torn => mem.key = keyFile

(* A version names one configuration and one rule set: two reviews of the  *)
(* same version were judged under the same policy, across crashes, tests   *)
(* and upgrades, and the snapshot of that version is theirs.  Only the     *)
(* mark Tested may be set within a version.                                *)
SamePolicy(a, b) == a.mode = b.mode /\ a.endpoint = b.endpoint /\ a.prompt = b.prompt

VersionNamesPolicy ==
    /\ \A u, w \in used :
          u.config.version = w.config.version =>
              SamePolicy(u.config, w.config) /\ u.rules = w.rules
    /\ \A u \in used, v \in versions :
          u.config.version = v.version => SamePolicy(u.config, v)

(* README.md: changing the key clears the mark Tested. *)
TestedKeyIsTheTestedKey ==
    phase # "down" /\ mem.tested => <<mem.endpoint, mem.key>> \in passed
=============================================================================
