------------------------ MODULE ReviewSettingsProofs ------------------------
(***************************************************************************)
(* Machine-checked proofs about the settings, for every set of endpoints   *)
(* and keys and every number of versions and crashes: what the mark Tested *)
(* stands for, what a restart finds, and what a version names.             *)
(***************************************************************************)
EXTENDS ReviewSettings, TLAPS

Reviewed == [config : Config, rules : RuleSets]

(* The handler that saves holds the mutex, so the settings are still those *)
(* it started from; only the key file may have moved.                      *)
SavingInv ==
    saving # None =>
       LET s == saving.settings IN
       /\ phase = "up"
       /\ s.version = mem.version + 1
       /\ s.tested => mem.tested /\ s.endpoint = mem.endpoint /\ s.key = mem.key
       /\ s.mode = "model" => s.tested
       /\ ~ saving.keyWritten => s.key = mem.key
       /\ saving.keyWritten => keyFile = s.key

(* The copy of a model test is of the current settings if the versions are *)
(* equal: whatever changes the settings, but the test itself, counts up.   *)
TestInv ==
    test # None =>
       /\ phase = "up"
       /\ test.version <= mem.version
       /\ test.version = mem.version => SamePolicy(test, mem) /\ test.key = mem.key

(* Memory and record agree always, the key file whenever no save is under  *)
(* way, unless a key was written whose settings were not.                  *)
DurableInv ==
    /\ disk = Stored(mem)
    /\ ~ torn /\ (saving = None \/ ~ saving.keyWritten) => keyFile = mem.key

MarkInv ==
    /\ mem.tested /\ ~ torn => <<mem.endpoint, mem.key>> \in passed
    /\ mem.mode = "model" => mem.tested

(* No review and no snapshot is ahead of the settings; those of the        *)
(* current version are of the current policy.                              *)
VersionInv ==
    /\ phase = "up" \/ used # {} => rules \in {"builtin", "edited"}
    /\ \A u \in used :
          /\ u.config.version <= mem.version
          /\ u.config.version = mem.version => SamePolicy(u.config, mem) /\ u.rules = rules
    /\ \A v \in versions :
          v.version <= mem.version /\ (v.version = mem.version => SamePolicy(v, mem))

SettingsInv ==
    /\ TypeOK /\ used \subseteq Reviewed
    /\ SavingInv /\ TestInv /\ DurableInv /\ MarkInv
    /\ VersionInv /\ VersionNamesPolicy

-----------------------------------------------------------------------------
(* Settings that only count up, or only become tested. *)
LEMMA StoredFields ==
    ASSUME NEW s \in Settings
    PROVE  /\ Stored(s) \in Config
           /\ Stored(s).version = s.version /\ Stored(s).mode = s.mode
           /\ Stored(s).endpoint = s.endpoint /\ Stored(s).prompt = s.prompt
           /\ Stored(s).tested = s.tested
           /\ s.version \in Nat /\ s.tested \in BOOLEAN /\ s.endpoint \in Endpoints
           /\ s.key \in Keys \cup {NoKey} /\ s.mode \in {"human", "model"}
           /\ s.prompt \in Prompts
BY DEF Stored, Settings, Config

Counted(s, t) ==
    /\ t \in Settings /\ t.version = s.version + 1
    /\ t.mode = s.mode /\ t.tested = s.tested /\ t.endpoint = s.endpoint /\ t.key = s.key

LEMMA CountOne ==
    ASSUME NEW s \in Settings
    PROVE  Counted(s, [s EXCEPT !.version = @ + 1])
BY DEF Counted, Settings

LEMMA CountUp ==
    ASSUME NEW s \in Settings
    PROVE  Counted(s, [s EXCEPT !.prompt = "current", !.version = @ + 1])
<1> DEFINE u == [s EXCEPT !.prompt = "current"]
<1>1. /\ u \in Settings /\ u.version = s.version /\ u.mode = s.mode /\ u.tested = s.tested
      /\ u.endpoint = s.endpoint /\ u.key = s.key
  BY DEF Settings, Prompts
<1>2. [s EXCEPT !.prompt = "current", !.version = @ + 1] = [u EXCEPT !.version = @ + 1]
  BY DEF Settings
<1> HIDE DEF u
<1>3. Counted(u, [u EXCEPT !.version = @ + 1])
  BY <1>1, CountOne
<1> QED BY <1>1, <1>2, <1>3 DEF Counted

LEMMA MarkTested ==
    ASSUME NEW s \in Settings
    PROVE  LET t == [s EXCEPT !.tested = TRUE] IN
           /\ t \in Settings /\ t.version = s.version /\ t.tested
           /\ t.mode = s.mode /\ t.endpoint = s.endpoint /\ t.prompt = s.prompt /\ t.key = s.key
BY DEF Settings

LEMMA WithStoredKey ==
    ASSUME NEW s \in Settings, NEW k \in Keys \cup {NoKey}
    PROVE  LET t == WithKey(Stored(s), k) IN
           /\ t \in Settings /\ t.version = s.version /\ t.tested = s.tested
           /\ t.mode = s.mode /\ t.endpoint = s.endpoint /\ t.prompt = s.prompt /\ t.key = k
           /\ Stored(t) = Stored(s)
BY DEF Settings, WithKey, Stored

LEMMA SnapshotAdds ==
    ASSUME NEW known \in SUBSET Config, NEW s \in Settings
    PROVE  Snapshot(known, s) \in SUBSET Config /\ Snapshot(known, s) \subseteq known \cup {Stored(s)}
BY StoredFields DEF Snapshot

-----------------------------------------------------------------------------
(* What a step does to the settings: they stay, they stay but become       *)
(* tested, or they count up; the snapshots are of the old and the new ones.*)
Renewed ==
    /\ mem' \in Settings /\ disk' = Stored(mem')
    /\ versions' \subseteq Config
    /\ versions' \subseteq versions \cup {Stored(mem), Stored(mem')}
    /\ \/ mem'.version = mem.version /\ SamePolicy(mem', mem)
       \/ mem'.version = mem.version + 1

LEMMA StoreRenews ==
    ASSUME SettingsInv, NEW s \in Settings, Store(s),
           \/ s.version = mem.version /\ SamePolicy(s, mem)
           \/ s.version = mem.version + 1
    PROVE  Renewed /\ mem' = s
BY SnapshotAdds, StoredFields DEF Store, Renewed, SettingsInv, TypeOK

LEMMA LoadRenews ==
    ASSUME SettingsInv, OpenLoad
    PROVE  /\ Renewed
           /\ mem'.mode = mem.mode /\ mem'.tested = mem.tested /\ mem'.endpoint = mem.endpoint
           /\ mem'.key = keyFile
<1> DEFINE s == WithKey(disk, keyFile)
           t == [s EXCEPT !.prompt = "current", !.version = @ + 1]
<1>1. /\ mem \in Settings /\ keyFile \in Keys \cup {NoKey} /\ versions \subseteq Config
      /\ disk = Stored(mem)
  BY DEF SettingsInv, TypeOK, DurableInv
<1>2. /\ s \in Settings /\ s.version = mem.version /\ s.tested = mem.tested
      /\ s.mode = mem.mode /\ s.endpoint = mem.endpoint /\ s.prompt = mem.prompt
      /\ s.key = keyFile /\ Stored(s) = Stored(mem)
  BY <1>1, WithStoredKey
<1>3. Counted(s, t)
  BY <1>2, CountUp
<1>4. \/ mem' = t /\ disk' = Stored(t) /\ versions' = Snapshot(Snapshot(versions, s), t)
      \/ mem' = s /\ UNCHANGED <<disk, versions>>
  BY DEF OpenLoad
<1> HIDE DEF s, t
<1>5. CASE mem' = s /\ UNCHANGED <<disk, versions>>
  BY <1>1, <1>2, <1>5, StoredFields DEF Renewed, SamePolicy
<1>6. CASE mem' = t /\ disk' = Stored(t) /\ versions' = Snapshot(Snapshot(versions, s), t)
  <2>1. t \in Settings
    BY <1>3 DEF Counted
  <2>2. /\ Snapshot(versions, s) \in SUBSET Config
        /\ Snapshot(versions, s) \subseteq versions \cup {Stored(s)}
    BY <1>1, <1>2, SnapshotAdds
  <2>3. /\ versions' \in SUBSET Config
        /\ versions' \subseteq Snapshot(versions, s) \cup {Stored(t)}
    BY <1>6, <2>1, <2>2, SnapshotAdds
  <2> QED BY <1>2, <1>3, <1>6, <2>1, <2>2, <2>3 DEF Renewed, Counted
<1> QED BY <1>4, <1>5, <1>6

(* The steps that leave the settings and their snapshots alone. *)
Quiet ==
    \/ SeedSome \/ SeedRest \/ RulesComplete
    \/ \E m \in {"human", "model"}, e \in Endpoints, k \in Keys \cup {NoKey, None},
          p \in {mem.prompt, "current"} : BeginSave(m, e, p, k)
    \/ \E rolledBack \in BOOLEAN : AbortSave(rolledBack)
    \/ BeginTest \/ TestFailed \/ Use \/ Crash \/ UNCHANGED vars

LEMMA QuietStep ==
    ASSUME SettingsInv, Quiet
    PROVE  Renewed /\ UNCHANGED <<mem, disk, versions>>
<1>1. UNCHANGED <<mem, disk, versions>>
  BY DEF Quiet, SeedSome, SeedRest, RulesComplete, BeginSave, AbortSave, BeginTest,
         TestFailed, Use, Crash, vars
<1> QED
  BY <1>1 DEF Renewed, SettingsInv, TypeOK, DurableInv, SamePolicy

LEMMA UpgradeRenews ==
    ASSUME SettingsInv, UpgradeRules \/ \E r \in {"builtin", "edited"} : SaveRule(r)
    PROVE  Renewed /\ Counted(mem, mem')
<1>1. mem \in Settings /\ Store([mem EXCEPT !.version = @ + 1])
  BY DEF SettingsInv, TypeOK, UpgradeRules, SaveRule
<1>2. Counted(mem, [mem EXCEPT !.version = @ + 1])
  BY <1>1, CountOne
<1> QED BY <1>1, <1>2, StoreRenews DEF Counted

LEMMA CommitRenews ==
    ASSUME SettingsInv, CommitSave
    PROVE  Renewed /\ mem' = saving.settings /\ mem'.version = mem.version + 1
<1>1. saving \in Saves /\ saving.settings \in Settings
  BY DEF CommitSave, SettingsInv, TypeOK, Saves
<1> QED BY <1>1, StoreRenews DEF CommitSave, SettingsInv, SavingInv

LEMMA TestRenews ==
    ASSUME SettingsInv, TestPassed
    PROVE  /\ Renewed /\ mem'.version = mem.version /\ SamePolicy(mem', mem) /\ mem'.key = mem.key
           /\ mem'.tested => mem.tested \/ <<mem'.endpoint, mem'.key>> \in passed'
           /\ mem.tested => mem'.tested
<1>1. test \in Settings /\ mem \in Settings
  BY DEF TestPassed, SettingsInv, TypeOK
<1>2. CASE SameVersion
  <2> DEFINE t == [test EXCEPT !.tested = TRUE]
  <2>1. /\ t \in Settings /\ t.version = test.version /\ t.tested
        /\ t.mode = test.mode /\ t.endpoint = test.endpoint /\ t.prompt = test.prompt
        /\ t.key = test.key
    BY <1>1, MarkTested
  <2>2. Store(t) /\ passed' = passed \cup {<<test.endpoint, test.key>>}
    BY <1>2 DEF TestPassed
  <2>3. test.version = mem.version /\ SamePolicy(test, mem) /\ test.key = mem.key
    BY <1>2 DEF SameVersion, SettingsInv, TestInv, TestPassed
  <2> HIDE DEF t
  <2>4. SamePolicy(t, mem)
    BY <2>1, <2>3 DEF SamePolicy
  <2> QED BY <2>1, <2>2, <2>3, <2>4, StoreRenews
<1>3. CASE ~ SameVersion
  BY <1>1, <1>3 DEF TestPassed, Renewed, SettingsInv, TypeOK, DurableInv, SamePolicy
<1> QED BY <1>2, <1>3

(* Every step of the system is one of these. *)
LEMMA Steps ==
    ASSUME [Next]_vars
    PROVE  \/ OpenLoad \/ UpgradeRules \/ CommitSave \/ TestPassed \/ Quiet
           \/ \E r \in {"builtin", "edited"} : SaveRule(r)
BY DEF Next, Quiet

LEMMA StepRenews ==
    ASSUME SettingsInv, [Next]_vars
    PROVE  Renewed
BY Steps, LoadRenews, UpgradeRenews, CommitRenews, TestRenews, QuietStep

-----------------------------------------------------------------------------
(* The parts of the invariant, one after the other. *)

LEMMA SaveIsWellFormed ==
    ASSUME SettingsInv, NEW m \in {"human", "model"}, NEW e \in Endpoints,
           NEW k \in Keys \cup {NoKey, None}, NEW p \in {mem.prompt, "current"},
           BeginSave(m, e, p, k)
    PROVE  /\ saving' \in Saves /\ keyFile' \in Keys \cup {NoKey}
           /\ saving' # None
           /\ LET s == saving'.settings IN
              /\ s.version = mem.version + 1
              /\ s.tested => mem.tested /\ s.endpoint = mem.endpoint /\ s.key = mem.key
              /\ s.mode = "model" => s.tested
              /\ ~ saving'.keyWritten => s.key = mem.key /\ keyFile' = keyFile
              /\ saving'.keyWritten => keyFile' = s.key
<1> DEFINE key == IF k = None THEN mem.key ELSE k
           s == [mode |-> m, endpoint |-> e, tested |-> StillTested(e, key),
                 prompt |-> p, version |-> mem.version + 1, key |-> key]
<1>1. /\ mem \in Settings /\ keyFile \in Keys \cup {NoKey}
  BY DEF SettingsInv, TypeOK
<1>2. key \in Keys \cup {NoKey} /\ p \in Prompts /\ mem.version + 1 \in Nat
  BY <1>1, StoredFields DEF Prompts
<1>3. StillTested(e, key) \in BOOLEAN
  BY <1>1, StoredFields DEF StillTested
<1>4. s \in Settings
  BY <1>2, <1>3 DEF Settings
<1>5. /\ saving' = [settings |-> s, keyWritten |-> k # None]
      /\ keyFile' = IF k = None THEN keyFile ELSE key
      /\ MayUse(m, s.tested)
  BY DEF BeginSave
<1>6. saving' \in Saves
  BY <1>4, <1>5 DEF Saves
<1>7. saving' # None
  BY <1>6, SettingsAssumption
<1> QED
  BY <1>1, <1>2, <1>5, <1>6, <1>7 DEF StillTested, MayUse

LEMMA TypesKept ==
    ASSUME SettingsInv, [Next]_vars
    PROVE  TypeOK' /\ used' \subseteq Reviewed
<1> USE DEF TypeOK
<1>0. /\ TypeOK /\ used \subseteq Reviewed
      /\ mem' \in Settings /\ disk' \in Config /\ versions' \subseteq Config
  BY StepRenews, StoredFields DEF Renewed, SettingsInv
<1>1. CASE OpenLoad
  BY <1>0, <1>1 DEF OpenLoad
<1>2. CASE UpgradeRules
  BY <1>0, <1>2 DEF UpgradeRules, RuleSets
<1>3. CASE CommitSave
  BY <1>0, <1>3 DEF CommitSave
<1>4. CASE TestPassed
  <2>1. test \in Settings
    BY <1>4, <1>0 DEF TestPassed
  <2>2. <<test.endpoint, test.key>> \in Endpoints \X (Keys \cup {NoKey})
    BY <2>1, StoredFields
  <2>3. /\ passed' = passed \cup {<<test.endpoint, test.key>>} /\ test' = None
        /\ UNCHANGED <<phase, keyFile, rules, saving, crashes, torn, used>>
    BY <1>4 DEF TestPassed
  <2> QED BY <1>0, <2>2, <2>3
<1>5. CASE \E r \in {"builtin", "edited"} : SaveRule(r)
  BY <1>0, <1>5 DEF SaveRule, RuleSets
<1>6. CASE Quiet
  <2>1. CASE SeedSome \/ SeedRest \/ RulesComplete \/ BeginTest \/ TestFailed \/ UNCHANGED vars
    BY <1>0, <2>1 DEF SeedSome, SeedRest, RulesComplete, BeginTest, TestFailed, vars, RuleSets
  <2>2. CASE Use
    <3>1. [config |-> Stored(mem), rules |-> rules] \in Reviewed
      BY <1>0, StoredFields DEF Reviewed
    <3> QED BY <1>0, <2>2, <3>1 DEF Use
  <2>3. CASE Crash
    BY <1>0, <2>3, SettingsAssumption DEF Crash, Saves
  <2>4. ASSUME NEW rolledBack \in BOOLEAN, AbortSave(rolledBack) PROVE TypeOK' /\ used' \subseteq Reviewed
    <3>1. saving.keyWritten \in BOOLEAN /\ mem.key \in Keys \cup {NoKey}
      BY <1>0, <2>4, StoredFields DEF AbortSave, Saves
    <3> QED BY <1>0, <2>4, <3>1 DEF AbortSave
  <2>5. ASSUME NEW m \in {"human", "model"}, NEW e \in Endpoints,
               NEW k \in Keys \cup {NoKey, None}, NEW p \in {mem.prompt, "current"},
               BeginSave(m, e, p, k)
        PROVE  TypeOK' /\ used' \subseteq Reviewed
    <3>1. saving' \in Saves /\ keyFile' \in Keys \cup {NoKey}
      BY <2>5, SaveIsWellFormed
    <3> QED BY <1>0, <2>5, <3>1 DEF BeginSave
  <2> QED BY <1>6, <2>1, <2>2, <2>3, <2>4, <2>5 DEF Quiet
<1> QED BY <1>1, <1>2, <1>3, <1>4, <1>5, <1>6, Steps

LEMMA SavingKept ==
    ASSUME SettingsInv, [Next]_vars
    PROVE  SavingInv'
<1> USE DEF SavingInv
<1>0. SavingInv /\ TypeOK
  BY DEF SettingsInv
<1>1. CASE OpenLoad
  BY <1>0, <1>1 DEF OpenLoad
<1>2. CASE UpgradeRules \/ SeedSome \/ SeedRest \/ RulesComplete
  BY <1>0, <1>2 DEF UpgradeRules, SeedSome, SeedRest, RulesComplete
<1>3. CASE CommitSave \/ Crash \/ \E rolledBack \in BOOLEAN : AbortSave(rolledBack)
  BY <1>3 DEF CommitSave, Crash, AbortSave
<1>4. CASE TestPassed \/ TestFailed \/ BeginTest \/ Use \/ \E r \in {"builtin", "edited"} : SaveRule(r)
  BY <1>4 DEF TestPassed, TestFailed, BeginTest, Use, SaveRule, Free
<1>5. ASSUME NEW m \in {"human", "model"}, NEW e \in Endpoints,
             NEW k \in Keys \cup {NoKey, None}, NEW p \in {mem.prompt, "current"},
             BeginSave(m, e, p, k)
      PROVE  SavingInv'
  <2>1. UNCHANGED <<phase, mem>> /\ phase = "up"
    BY <1>5 DEF BeginSave, Free
  <2> QED BY <1>5, <2>1, SaveIsWellFormed
<1>6. CASE UNCHANGED vars
  BY <1>0, <1>6 DEF vars
<1> QED BY <1>1, <1>2, <1>3, <1>4, <1>5, <1>6 DEF Next

LEMMA TestKept ==
    ASSUME SettingsInv, [Next]_vars
    PROVE  TestInv'
<1> USE DEF TestInv
<1>0. /\ TestInv /\ TypeOK /\ test \in Settings \cup {None}
      /\ mem.version \in Nat /\ (test # None => test.version \in Nat)
  BY StoredFields DEF SettingsInv, TypeOK
<1>1. CASE OpenLoad
  BY <1>0, <1>1 DEF OpenLoad
<1>2. CASE UpgradeRules \/ \E r \in {"builtin", "edited"} : SaveRule(r)
  <2>1. mem'.version = mem.version + 1 /\ test' = test /\ phase' = "up"
    BY <1>2, UpgradeRenews DEF UpgradeRules, SaveRule, Counted, Free
  <2> QED BY <1>0, <2>1
<1>3. CASE CommitSave
  <2>1. mem'.version = mem.version + 1 /\ test' = test /\ phase' = phase
    BY <1>3, CommitRenews DEF CommitSave
  <2> QED BY <1>0, <2>1
<1>4. CASE TestPassed
  BY <1>4 DEF TestPassed
<1>5. CASE Quiet
  <2>1. CASE BeginTest
    <3>1. test' = mem /\ mem' = mem /\ phase' = "up"
      BY <2>1 DEF BeginTest, Free
    <3> QED BY <1>0, <3>1 DEF SamePolicy
  <2>2. CASE Crash \/ TestFailed
    BY <2>2 DEF Crash, TestFailed
  <2>3. CASE ~ (BeginTest \/ Crash \/ TestFailed)
    <3>1. mem' = mem /\ test' = test /\ (phase = "up" => phase' = "up")
      BY <1>5, <2>3 DEF Quiet, SeedSome, SeedRest, RulesComplete, BeginSave, AbortSave, Use, vars
    <3> QED BY <1>0, <3>1 DEF SamePolicy
  <2> QED BY <2>1, <2>2, <2>3
<1> QED BY <1>1, <1>2, <1>3, <1>4, <1>5, Steps

LEMMA DurableKept ==
    ASSUME SettingsInv, [Next]_vars
    PROVE  DurableInv'
<1> DEFINE KeyIsKept == ~ torn /\ (saving = None \/ ~ saving.keyWritten) => keyFile = mem.key
<1>0. DurableInv /\ SavingInv /\ TypeOK /\ KeyIsKept
  BY DEF SettingsInv, DurableInv
<1>1. disk' = Stored(mem')
  BY StepRenews DEF Renewed
<1>2. KeyIsKept'
  <2>1. CASE OpenLoad
    BY <2>1, LoadRenews DEF OpenLoad
  <2>2. CASE UpgradeRules \/ \E r \in {"builtin", "edited"} : SaveRule(r)
    BY <1>0, <2>2, UpgradeRenews DEF UpgradeRules, SaveRule, Counted
  <2>3. CASE CommitSave
    BY <1>0, <2>3, CommitRenews DEF CommitSave, SavingInv, TypeOK, Saves
  <2>4. CASE TestPassed
    BY <1>0, <2>4, TestRenews DEF TestPassed
  <2>5. CASE Quiet
    <3>1. CASE SeedSome \/ SeedRest \/ RulesComplete \/ BeginTest \/ TestFailed \/ Use \/ UNCHANGED vars
      BY <1>0, <3>1 DEF SeedSome, SeedRest, RulesComplete, BeginTest, TestFailed, Use, vars
    <3>2. CASE Crash
      BY <1>0, <3>2 DEF Crash, TypeOK, Saves
    <3>3. ASSUME NEW rolledBack \in BOOLEAN, AbortSave(rolledBack) PROVE KeyIsKept'
      BY <1>0, <3>3 DEF AbortSave, TypeOK, Saves
    <3>4. ASSUME NEW m \in {"human", "model"}, NEW e \in Endpoints,
                 NEW k \in Keys \cup {NoKey, None}, NEW p \in {mem.prompt, "current"},
                 BeginSave(m, e, p, k)
          PROVE  KeyIsKept'
      <4>1. saving = None /\ UNCHANGED <<mem, torn>>
        BY <3>4 DEF BeginSave, Free
      <4> QED BY <1>0, <3>4, <4>1, SaveIsWellFormed
    <3> QED BY <2>5, <3>1, <3>2, <3>3, <3>4 DEF Quiet
  <2> QED BY <2>1, <2>2, <2>3, <2>4, <2>5, Steps
<1> QED BY <1>1, <1>2 DEF DurableInv

LEMMA MarkKept ==
    ASSUME SettingsInv, [Next]_vars
    PROVE  MarkInv'
<1> USE DEF MarkInv
<1>0. /\ MarkInv /\ SavingInv /\ DurableInv /\ TypeOK
      /\ test = None \/ phase = "up"
  BY DEF SettingsInv, TestInv
<1>1. CASE OpenLoad
  <2>1. saving = None
    BY <1>0, <1>1 DEF OpenLoad, SavingInv
  <2> QED BY <1>0, <1>1, <2>1, LoadRenews DEF OpenLoad, DurableInv
<1>2. CASE UpgradeRules \/ \E r \in {"builtin", "edited"} : SaveRule(r)
  BY <1>0, <1>2, UpgradeRenews DEF UpgradeRules, SaveRule, Counted
<1>3. CASE CommitSave
  BY <1>0, <1>3, CommitRenews DEF CommitSave, SavingInv
<1>4. CASE TestPassed
  <2>1. torn' = torn /\ passed \subseteq passed'
    BY <1>4 DEF TestPassed
  <2> QED BY <1>0, <1>4, <2>1, TestRenews DEF SamePolicy
<1>5. CASE Quiet
  <2>1. UNCHANGED <<mem, passed>>
    BY <1>5 DEF Quiet, SeedSome, SeedRest, RulesComplete, BeginSave, AbortSave, BeginTest,
           TestFailed, Use, Crash, vars
  <2>2. torn => torn'
    <3>1. CASE Crash \/ \E rolledBack \in BOOLEAN : AbortSave(rolledBack)
      BY <3>1 DEF Crash, AbortSave
    <3>2. CASE ~ (Crash \/ \E rolledBack \in BOOLEAN : AbortSave(rolledBack))
      <4>1. torn' = torn
        BY <1>5, <3>2 DEF Quiet, SeedSome, SeedRest, RulesComplete, BeginSave, BeginTest,
               TestFailed, Use, vars
      <4> QED BY <4>1
    <3> QED BY <3>1, <3>2
  <2> QED BY <1>0, <2>1, <2>2
<1> QED BY <1>1, <1>2, <1>3, <1>4, <1>5, Steps

LEMMA VersionKept ==
    ASSUME SettingsInv, [Next]_vars
    PROVE  VersionInv' /\ VersionNamesPolicy'
<1>0. /\ VersionInv /\ VersionNamesPolicy /\ mem \in Settings /\ mem.version \in Nat
      /\ used \subseteq Reviewed /\ versions \subseteq Config
      /\ \A u \in used : u.config.version \in Nat
      /\ \A v \in versions : v.version \in Nat
  BY StoredFields DEF SettingsInv, TypeOK, Reviewed, Config
<1>1. /\ Renewed /\ mem'.version \in Nat
  BY StepRenews, StoredFields DEF Renewed
<1>2. \/ used' = used
      \/ Use /\ used' = used \cup {[config |-> Stored(mem), rules |-> rules]}
  BY DEF Next, OpenLoad, SeedSome, SeedRest, UpgradeRules, RulesComplete, BeginSave, CommitSave,
     AbortSave, SaveRule, BeginTest, TestPassed, TestFailed, Use, Crash, vars
<1>3. \/ rules' = rules
      \/ used = {}
      \/ mem'.version = mem.version + 1
  <2>1. CASE UpgradeRules \/ \E r \in {"builtin", "edited"} : SaveRule(r)
    BY <2>1, UpgradeRenews DEF Counted
  <2>2. CASE SeedSome \/ SeedRest
    BY <1>0, <2>2 DEF SeedSome, SeedRest, VersionInv
  <2>3. CASE ~ (UpgradeRules \/ (\E r \in {"builtin", "edited"} : SaveRule(r)) \/ SeedSome \/ SeedRest)
    BY <2>3 DEF Next, OpenLoad, RulesComplete, BeginSave, CommitSave, AbortSave, BeginTest,
       TestPassed, TestFailed, Use, Crash, vars
  <2> QED BY <2>1, <2>2, <2>3
<1>4. phase' = "up" \/ used' # {} => rules' \in {"builtin", "edited"}
  <2>1. CASE UpgradeRules \/ SeedRest \/ \E r \in {"builtin", "edited"} : SaveRule(r)
    BY <2>1 DEF UpgradeRules, SeedRest, SaveRule
  <2>2. CASE SeedSome \/ RulesComplete \/ OpenLoad
    BY <1>0, <2>2 DEF SeedSome, RulesComplete, OpenLoad, VersionInv
  <2>3. CASE Use
    BY <1>0, <2>3 DEF Use, Free, VersionInv
  <2>4. CASE ~ (UpgradeRules \/ SeedRest \/ (\E r \in {"builtin", "edited"} : SaveRule(r))
                \/ SeedSome \/ RulesComplete \/ OpenLoad \/ Use)
    <3>1. rules' = rules /\ used' = used /\ (phase' = "up" => phase = "up")
      BY <2>4 DEF Next, BeginSave, CommitSave, AbortSave, BeginTest, TestPassed, TestFailed,
         Crash, vars, Free
    <3> QED BY <1>0, <3>1 DEF VersionInv
  <2> QED BY <2>1, <2>2, <2>3, <2>4
<1>5. \A v \in versions' :
         v.version <= mem'.version /\ (v.version = mem'.version => SamePolicy(v, mem'))
  <2> TAKE v \in versions'
  <2>1. CASE v \in versions
    BY <1>0, <1>1, <2>1 DEF Renewed, VersionInv, SamePolicy
  <2>2. CASE v = Stored(mem)
    BY <1>0, <1>1, <2>2, StoredFields DEF Renewed, SamePolicy
  <2>3. CASE v = Stored(mem')
    BY <1>1, <2>3, StoredFields DEF Renewed, SamePolicy
  <2> QED BY <1>1, <2>1, <2>2, <2>3 DEF Renewed
<1>6. \A u \in used :
         /\ u.config.version <= mem'.version
         /\ u.config.version = mem'.version => SamePolicy(u.config, mem') /\ u.rules = rules'
  BY <1>0, <1>1, <1>3 DEF Renewed, VersionInv, SamePolicy
<1>7. ASSUME Use
      PROVE  mem' = mem /\ versions' = versions /\ rules' = rules
  BY <1>7 DEF Use
<1>8. \A u \in used, v \in versions' :
         u.config.version = v.version => SamePolicy(u.config, v)
  <2> TAKE u \in used, v \in versions'
  <2>1. CASE v \in versions
    BY <1>0, <2>1 DEF VersionNamesPolicy
  <2>2. CASE v = Stored(mem)
    BY <1>0, <2>2, StoredFields DEF VersionInv, SamePolicy
  <2>3. CASE v = Stored(mem')
    BY <1>1, <1>6, <2>3, StoredFields DEF Renewed, SamePolicy
  <2> QED BY <1>1, <2>1, <2>2, <2>3 DEF Renewed
<1>9. CASE used' = used
  BY <1>0, <1>4, <1>5, <1>6, <1>8, <1>9 DEF VersionInv, VersionNamesPolicy
<1>10. CASE Use /\ used' = used \cup {[config |-> Stored(mem), rules |-> rules]}
  <2> DEFINE n == [config |-> Stored(mem), rules |-> rules]
  <2>1. /\ n.config.version = mem.version /\ SamePolicy(n.config, mem) /\ n.rules = rules
    BY <1>0, StoredFields DEF SamePolicy
  <2>2. mem' = mem /\ versions' = versions /\ rules' = rules /\ used' = used \cup {n}
    BY <1>7, <1>10
  <2> HIDE DEF n
  <2>3. VersionInv'
    BY <1>0, <1>4, <2>1, <2>2 DEF VersionInv, SamePolicy
  <2>4. VersionNamesPolicy'
    BY <1>0, <2>1, <2>2 DEF VersionInv, VersionNamesPolicy, SamePolicy
  <2> QED BY <2>3, <2>4
<1> QED BY <1>2, <1>9, <1>10

-----------------------------------------------------------------------------
(* Theorems. *)

LEMMA InitialSettings == Init => SettingsInv
<1> SUFFICES ASSUME Init PROVE SettingsInv
  OBVIOUS
<1>1. PICK e \in Endpoints, p \in Prompts, r \in {"none", "old"} :
         /\ disk = [mode |-> "human", endpoint |-> e, tested |-> FALSE,
                    prompt |-> p, version |-> 1]
         /\ rules = r
  BY DEF Init
<1>2. disk \in Config /\ disk.mode = "human" /\ disk.tested = FALSE
  BY <1>1 DEF Config
<1>3. /\ mem \in Settings /\ disk = Stored(mem) /\ mem.key = NoKey
      /\ mem.mode = "human" /\ mem.tested = FALSE
  BY <1>1, <1>2 DEF Init, WithKey, Stored, Settings
<1>4. TypeOK /\ used \subseteq Reviewed
  <2>1. rules \in RuleSets
    BY <1>1 DEF RuleSets
  <2>2. crashes \in 0..MaxCrashes
    BY SettingsAssumption DEF Init
  <2>3. /\ phase = "down" /\ keyFile = NoKey /\ versions = {} /\ saving = None /\ test = None
        /\ passed = {} /\ torn = FALSE /\ used = {}
    BY DEF Init
  <2> QED BY <1>2, <1>3, <2>1, <2>2, <2>3 DEF TypeOK
<1>5. SavingInv /\ TestInv /\ DurableInv /\ MarkInv
  BY <1>3 DEF Init, SavingInv, TestInv, DurableInv, MarkInv
<1>6. VersionInv /\ VersionNamesPolicy
  BY DEF Init, VersionInv, VersionNamesPolicy
<1> QED BY <1>4, <1>5, <1>6 DEF SettingsInv

(* The inductive invariant of the settings. *)
THEOREM SettingsInvariantHolds == Spec => []SettingsInv
<1>1. SettingsInv /\ [Next]_vars => SettingsInv'
  BY TypesKept, SavingKept, TestKept, DurableKept, MarkKept, VersionKept DEF SettingsInv
<1> QED BY <1>1, InitialSettings, PTL DEF Spec

(* The records keep their kinds and the database never holds a key. *)
THEOREM SettingsTypesCorrect == Spec => []TypeOK
<1>1. SettingsInv => TypeOK
  BY DEF SettingsInv
<1> QED BY <1>1, SettingsInvariantHolds, PTL

(* Tested stands for a test of the endpoint and key in use, unless a key   *)
(* was written whose settings were not (SaveSettings, TestModel).          *)
THEOREM MarkIsEarned == Spec => []TestedMeansPassed
<1>1. SettingsInv => TestedMeansPassed
  BY DEF SettingsInv, MarkInv, TestedMeansPassed
<1> QED BY <1>1, SettingsInvariantHolds, PTL

(* Nothing goes to a model that was not tested, after any restart. *)
THEOREM ModelIsTested == Spec => []ModelModeIsTested
<1>1. SettingsInv => ModelModeIsTested
  BY StoredFields DEF SettingsInv, TypeOK, MarkInv, DurableInv, ModelModeIsTested
<1> QED BY <1>1, SettingsInvariantHolds, PTL

(* Between two handlers a restart would find what is in memory. *)
THEOREM RestartFindsTheSettings == Spec => []MemoryIsDurable
<1>1. SettingsInv => MemoryIsDurable
  BY DEF SettingsInv, DurableInv, MemoryIsDurable, Free
<1> QED BY <1>1, SettingsInvariantHolds, PTL

(* Two reviews of one version were judged under one policy. *)
THEOREM VersionsNameOnePolicy == Spec => []VersionNamesPolicy
<1>1. SettingsInv => VersionNamesPolicy
  BY DEF SettingsInv
<1> QED BY <1>1, SettingsInvariantHolds, PTL
=============================================================================
