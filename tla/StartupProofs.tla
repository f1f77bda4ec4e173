---------------------------- MODULE StartupProofs ----------------------------
(***************************************************************************)
(* Proofs about the start of server processes, for any number of them, any *)
(* releases and any number of starts.                                      *)
(*                                                                         *)
(* The versions that travel through the caches are what makes the          *)
(* invariant: whatever a process has read of BASIC, at whatever time, the  *)
(* tables reflect by now, because they only grow.  So the files that       *)
(* follow a version read long ago close the gap to the release, and a row  *)
(* written back from an old copy still records no more than there is.      *)
(***************************************************************************)
EXTENDS Startup, TLAPS

Label == {"off", "check", "latest", "minimum", "plan", "migrate", "read", "readLatest", "stamp",
          "stampLatest", "access", "secret", "generate", "serving", "failed", "tooOld", "downgrade"}

Basic == [version : Nat, secret : Nat \cup {None}]

\* A Boolean that no step of a proof looks into.
Flag == BOOLEAN

Process == [pc : Label, code : Nat, url : Flag, start : Nat,
            cache : Basic \cup {None}, held : Basic \cup {None}]

TablesTyped == applied \subseteq Nat /\ basic \in Basic /\ starts \in Nat

\* The tables reflect the version v when a are the migrations applied.
Reached(a, v) == 1..v \subseteq a

\* A value of BASIC as it is or once was: it records a version the tables have
\* reached, which on a database that is too old is below the minimum.
SoundBasic(a, b) == b \in Basic /\ Reached(a, b.version) /\ (legacy => b.version < Minimum)

\* Where a process works with the copy of BASIC it holds, and where the
\* migrations of its release are behind it.
Holding == {"migrate", "stamp", "stampLatest", "generate", "serving"}
Migrated == {"read", "readLatest", "stamp", "stampLatest", "access", "secret", "generate", "serving"}

\* A process that is in order; on a database that is too old it does not get
\* past the check for that.
Sound(a, q) == /\ q \in Process
               /\ q.cache # None => SoundBasic(a, q.cache)
               /\ q.pc \in Holding => SoundBasic(a, q.held)
               /\ q.pc \in Migrated => Reached(a, q.code)
               /\ legacy => q.pc \in {"off", "check", "minimum", "tooOld"}

ProcessesSound == proc \in [Proc -> Process] /\ \A p \in Proc : Sound(applied, proc[p])

\* The inductive invariant.
StartupInv == /\ TablesTyped /\ VersionNotAhead /\ SoundBasic(applied, basic)
              /\ legacy => Initialized
              /\ ProcessesSound

\* Once the installation has a secret, every copy of BASIC has it and nobody
\* is about to make another.
SecretEverywhere ==
  /\ basic.secret = 0
  /\ \A p \in Proc : /\ proc[p].pc # "generate"
                     /\ proc[p].cache # None => proc[p].cache.secret = 0
                     /\ proc[p].pc \in Holding => proc[p].held.secret = 0

-----------------------------------------------------------------------------
(* Facts about copies of BASIC and processes.                              *)

LEMMA OffSound == Sound(applied, Off)
<1>1. Off \in Process BY DEF Off, Process, Label, Flag
<1> QED BY <1>1 DEF Off, Sound, Holding, Migrated

\* What a process reads of BASIC, cached or not, is sound.
LEMMA ReadSound ==
  ASSUME StartupInv, NEW p \in Proc
  PROVE  Sound(applied, proc[p]) /\ SoundBasic(applied, GetBasic(p))
BY DEF StartupInv, ProcessesSound, Sound, GetBasic

\* A step of one process: the tables only grow, so what was reached stays
\* reached, and only the process itself has to be looked at.
LEMMA TablesStep ==
  ASSUME StartupInv, NEW p \in Proc, NEW q, Sound(applied', q), proc' = [proc EXCEPT ![p] = q],
         applied \subseteq applied', applied' \subseteq Nat, VersionNotAhead',
         SoundBasic(applied', basic'), starts' \in Nat, legacy' = legacy
  PROVE  StartupInv'
<1>1. TablesTyped' /\ SoundBasic(applied, basic)'
  BY DEF TablesTyped, SoundBasic
<1>2. (legacy => Initialized)' BY DEF StartupInv, Initialized
<1>3. proc' \in [Proc -> Process] BY DEF StartupInv, ProcessesSound, Sound
<1>4. ASSUME NEW o \in Proc PROVE Sound(applied, proc[o])'
  <2>1. Sound(applied, proc[o]) /\ proc'[o] = IF o = p THEN q ELSE proc[o]
    BY DEF StartupInv, ProcessesSound
  <2>2. Sound(applied', proc'[o])
    <3>1. CASE o = p BY <2>1, <3>1
    <3>2. CASE o # p BY <2>1, <3>2 DEF Sound, SoundBasic, Reached
    <3> QED BY <3>1, <3>2
  <2> QED BY <2>2 DEF Sound, SoundBasic
<1> QED BY <1>1, <1>2, <1>3, <1>4 DEF StartupInv, ProcessesSound

\* The same when the tables stay as they are.
LEMMA ProcessStep ==
  ASSUME StartupInv, NEW p \in Proc, NEW q, Sound(applied, q), proc' = [proc EXCEPT ![p] = q],
         UNCHANGED <<applied, basic, legacy>>, starts' \in Nat
  PROVE  StartupInv'
<1>1. applied \subseteq Nat /\ VersionNotAhead' /\ SoundBasic(applied, basic)
  BY DEF StartupInv, TablesTyped, VersionNotAhead
<1>2. Sound(applied', q) /\ SoundBasic(applied', basic') BY <1>1
<1> QED BY <1>1, <1>2, TablesStep

\* ... and the process only moves on.
LEMMA GotoStep ==
  ASSUME StartupInv, NEW p \in Proc, NEW l \in Label, Goto(p, l),
         l \in Holding => SoundBasic(applied, proc[p].held),
         l \in Migrated => Reached(applied, proc[p].code),
         legacy => l \in {"off", "check", "minimum", "tooOld"},
         UNCHANGED <<applied, basic, legacy, starts>>
  PROVE  StartupInv'
<1> DEFINE q == [proc[p] EXCEPT !.pc = l]
<1>1. Sound(applied, proc[p]) BY ReadSound
<1>2. /\ q \in Process /\ q.pc = l /\ q.cache = proc[p].cache
      /\ q.held = proc[p].held /\ q.code = proc[p].code
  BY <1>1 DEF Sound, Process
<1>3. Sound(applied, q) BY <1>1, <1>2 DEF Sound
<1> QED BY <1>3, ProcessStep DEF Goto, StartupInv, TablesTyped

\* ... and the process keeps and holds what it has just read of BASIC.
LEMMA ReadStep ==
  ASSUME StartupInv, NEW p \in Proc, NEW l \in Label,
         proc' = [proc EXCEPT ![p].pc = l, ![p].cache = GetBasic(p), ![p].held = GetBasic(p)],
         l \in Migrated => Reached(applied, proc[p].code),
         legacy => l \in {"off", "check", "minimum", "tooOld"},
         UNCHANGED <<applied, basic, legacy, starts>>
  PROVE  StartupInv'
<1> DEFINE b == GetBasic(p)
           q == [proc[p] EXCEPT !.pc = l, !.cache = b, !.held = b]
<1>1. Sound(applied, proc[p]) /\ SoundBasic(applied, b) BY ReadSound
<1> HIDE DEF b
<1>2. proc[p] \in Process /\ b \in Basic BY <1>1 DEF Sound, SoundBasic
<1>3. /\ q \in Process /\ q.pc = l /\ q.cache = b /\ q.held = b /\ q.code = proc[p].code
  BY <1>2 DEF Process
<1>4. proc' = [proc EXCEPT ![p] = q] BY DEF b
<1> HIDE DEF q
<1>5. Sound(applied, q) BY <1>1, <1>3 DEF Sound
<1> QED BY <1>4, <1>5, ProcessStep DEF StartupInv, TablesTyped

-----------------------------------------------------------------------------
(* preMigrate.                                                             *)

LEMMA BootStep ==
  ASSUME StartupInv, NEW p \in Proc, NEW r \in Release, NEW url \in Flag, NEW off \in Process,
         off.cache = None, starts' = starts + 1, UNCHANGED <<applied, basic, access, legacy>>,
         proc' = [proc EXCEPT ![p] = [off EXCEPT !.pc = "check", !.code = r, !.url = url,
                                                 !.start = starts + 1]]
  PROVE  StartupInv'
<1> DEFINE q == [off EXCEPT !.pc = "check", !.code = r, !.url = url, !.start = starts + 1]
<1>1. starts + 1 \in Nat /\ r \in Nat BY StartupAssumption DEF StartupInv, TablesTyped
<1>2. q \in Process /\ q.pc = "check" /\ q.cache = None BY <1>1 DEF Process, Label
<1>3. proc' = [proc EXCEPT ![p] = q] OBVIOUS
<1> HIDE DEF q
<1>4. Sound(applied, q) BY <1>2 DEF Sound, Holding, Migrated
<1> QED BY <1>1, <1>3, <1>4, ProcessStep

LEMMA IsInitializedStep ==
  ASSUME StartupInv, NEW p \in Proc, IsInitialized(p)
  PROVE  StartupInv'
<1>1. legacy => Initialized BY DEF StartupInv
<1> QED BY <1>1, GotoStep DEF IsInitialized, Label, Holding, Migrated

LEMMA ApplyLatestStep ==
  ASSUME StartupInv, NEW p \in Proc, ApplyLatest(p)
  PROVE  StartupInv'
<1>1. Sound(applied, proc[p]) BY ReadSound
<1>2. ~ legacy BY <1>1 DEF ApplyLatest, Sound
<1>3. CASE Initialized
  BY <1>2, <1>3, GotoStep DEF ApplyLatest, Label, Holding, Migrated
<1>4. CASE ~ Initialized
  <2> DEFINE q == [proc[p] EXCEPT !.pc = "readLatest"]
  <2>1. /\ applied = {} /\ applied' = 1..proc[p].code /\ proc' = [proc EXCEPT ![p] = q]
        /\ UNCHANGED <<basic, legacy, starts>>
    BY <1>4 DEF ApplyLatest, Initialized, Goto
  <2>2. proc[p].code \in Nat BY <1>1 DEF Sound, Process
  <2>3. basic \in Basic /\ 1..basic.version \subseteq {} /\ starts \in Nat
    BY <2>1 DEF StartupInv, TablesTyped, VersionNotAhead
  <2>4. VersionNotAhead' BY <2>1, <2>2, <2>3 DEF VersionNotAhead
  <2>5. SoundBasic(applied', basic') BY <1>2, <2>1, <2>3 DEF SoundBasic, Reached
  <2>6. q \in Process /\ q.pc = "readLatest" /\ q.cache = proc[p].cache /\ q.code = proc[p].code
    BY <1>1 DEF Sound, Process, Label
  <2>7. Sound(applied', q)
    BY <1>1, <1>2, <2>1, <2>6 DEF Sound, SoundBasic, Reached, Holding
  <2> HIDE DEF q
  <2>8. applied \subseteq applied' /\ applied' \subseteq Nat /\ starts' \in Nat BY <2>1, <2>2, <2>3
  <2> QED BY <2>1, <2>4, <2>5, <2>7, <2>8, TablesStep
<1> QED BY <1>3, <1>4

\* On a database that is too old the version read is below the minimum, and
\* there are tables: the check refuses.
LEMMA CheckMinimumStep ==
  ASSUME StartupInv, NEW p \in Proc, CheckMinimum(p)
  PROVE  StartupInv'
<1> DEFINE b == GetBasic(p)
           l == IF b.version # 0 /\ b.version >= Minimum THEN "plan"
                ELSE IF b.version = 0 /\ ~ Initialized THEN "plan" ELSE "tooOld"
           q == [proc[p] EXCEPT !.pc = l, !.cache = b]
<1>1. Sound(applied, proc[p]) /\ SoundBasic(applied, b) BY ReadSound
<1>2. proc' = [proc EXCEPT ![p] = q] BY DEF CheckMinimum
<1>3. legacy => l = "tooOld"
  BY <1>1, StartupAssumption DEF SoundBasic, Basic, StartupInv
<1>4. l \in {"plan", "tooOld"} OBVIOUS
<1> HIDE DEF b, l
<1>5. proc[p] \in Process /\ b \in Basic BY <1>1 DEF Sound, SoundBasic
<1>6. q \in Process /\ q.pc = l /\ q.cache = b BY <1>4, <1>5 DEF Process, Label
<1> HIDE DEF q
<1>7. Sound(applied, q) BY <1>1, <1>3, <1>4, <1>6 DEF Sound, Holding, Migrated
<1> QED BY <1>2, <1>7, ProcessStep DEF CheckMinimum, StartupInv, TablesTyped

-----------------------------------------------------------------------------
(* Migrations.                                                             *)

LEMMA PlanMigrationStep ==
  ASSUME StartupInv, NEW p \in Proc, PlanMigration(p)
  PROVE  StartupInv'
<1> DEFINE b == GetBasic(p)
           l == IF b.version > proc[p].code THEN "downgrade"
                ELSE IF b.version < proc[p].code THEN "migrate" ELSE "access"
<1>1. Sound(applied, proc[p]) /\ SoundBasic(applied, b) BY ReadSound
<1>2. ~ legacy BY <1>1 DEF PlanMigration, Sound
<1>3. b.version \in Nat /\ proc[p].code \in Nat BY <1>1 DEF Sound, SoundBasic, Basic, Process
<1>4. l \in {"downgrade", "migrate", "access"} /\ (l = "access" => b.version = proc[p].code)
  BY <1>3
<1>5. l \in Label /\ (l \in Migrated => Reached(applied, proc[p].code))
  BY <1>1, <1>4 DEF Label, Migrated, SoundBasic
<1>6. proc' = [proc EXCEPT ![p].pc = l, ![p].cache = b, ![p].held = b] BY DEF PlanMigration
<1> HIDE DEF l
<1> QED BY <1>2, <1>5, <1>6, ReadStep DEF PlanMigration

\* The files after the version read before close the gap up to the release: the
\* tables have reached that version, whatever other processes did since.
LEMMA ApplyMigrationsStep ==
  ASSUME StartupInv, NEW p \in Proc, ApplyMigrations(p)
  PROVE  StartupInv'
<1>1. Sound(applied, proc[p]) BY ReadSound
<1>2. ~ legacy BY <1>1 DEF ApplyMigrations, Sound
<1>3. CASE Goto(p, "failed") /\ UNCHANGED applied
  BY <1>2, <1>3, GotoStep DEF ApplyMigrations, Label, Holding, Migrated
<1>4. CASE Goto(p, "read") /\ applied' = applied \cup MissingFiles(p)
  <2> DEFINE q == [proc[p] EXCEPT !.pc = "read"]
             h == proc[p].held.version
             c == proc[p].code
  <2>1. h \in Nat /\ c \in Nat /\ 1..h \subseteq applied
    BY <1>1 DEF ApplyMigrations, Holding, Sound, SoundBasic, Reached, Basic, Process
  <2>2. applied' = applied \cup {f \in 1..c : f > h} BY <1>4 DEF MissingFiles
  <2>3. 1..c \subseteq applied' /\ applied \subseteq applied' /\ applied' \subseteq Nat
    BY <2>1, <2>2 DEF StartupInv, TablesTyped
  <2>4. UNCHANGED <<basic, legacy, starts>> /\ starts \in Nat
    BY DEF ApplyMigrations, StartupInv, TablesTyped
  <2>5. VersionNotAhead'
    <3>1. ASSUME NEW f \in applied' PROVE 1..f \subseteq applied'
      <4>1. CASE f \in applied BY <2>3, <4>1 DEF StartupInv, VersionNotAhead
      <4>2. CASE f \in 1..c BY <2>1, <2>3, <4>2
      <4> QED BY <2>2, <3>1, <4>1, <4>2
    <3>2. 1..basic'.version \subseteq applied' BY <2>3, <2>4 DEF StartupInv, VersionNotAhead
    <3> QED BY <3>1, <3>2 DEF VersionNotAhead
  <2>6. SoundBasic(applied', basic') BY <2>3, <2>4 DEF StartupInv, SoundBasic, Reached
  <2>7. q \in Process /\ q.pc = "read" /\ q.cache = proc[p].cache /\ q.code = c
    BY <1>1 DEF Sound, Process, Label
  <2>8. proc' = [proc EXCEPT ![p] = q] BY <1>4 DEF Goto
  <2> HIDE DEF q
  <2>9. Sound(applied', q)
    BY <1>1, <1>2, <2>3, <2>7 DEF Sound, SoundBasic, Reached, Holding
  <2> QED BY <2>3, <2>4, <2>5, <2>6, <2>8, <2>9, TablesStep
<1> QED BY <1>3, <1>4 DEF ApplyMigrations

LEMMA ReadBasicStep ==
  ASSUME StartupInv, NEW p \in Proc, ReadBasic(p)
  PROVE  StartupInv'
<1> DEFINE l == IF proc[p].pc = "read" THEN "stamp" ELSE "stampLatest"
<1>1. Sound(applied, proc[p]) BY ReadSound
<1>2. ~ legacy /\ Reached(applied, proc[p].code) BY <1>1 DEF ReadBasic, Sound, Migrated
<1>3. l \in Label BY DEF Label
<1>4. proc' = [proc EXCEPT ![p].pc = l, ![p].cache = GetBasic(p), ![p].held = GetBasic(p)]
  BY DEF ReadBasic
<1> HIDE DEF l
<1> QED BY <1>2, <1>3, <1>4, ReadStep DEF ReadBasic

\* A row written back, kept in the cache of the process that wrote it.
LEMMA WriteBackStep ==
  ASSUME StartupInv, NEW p \in Proc, NEW q, Sound(applied, q), proc' = [proc EXCEPT ![p] = q],
         SoundBasic(applied, basic'), UNCHANGED <<applied, legacy, starts>>
  PROVE  StartupInv'
<1>1. applied \subseteq Nat /\ starts \in Nat BY DEF StartupInv, TablesTyped
<1>2. VersionNotAhead' BY DEF StartupInv, VersionNotAhead, SoundBasic, Reached
<1>3. Sound(applied', q) /\ SoundBasic(applied', basic') BY <1>1
<1> QED BY <1>1, <1>2, <1>3, TablesStep

LEMMA StampVersionStep ==
  ASSUME StartupInv, NEW p \in Proc, StampVersion(p)
  PROVE  StartupInv'
<1> DEFINE l == IF proc[p].pc = "stamp" THEN "access" ELSE "minimum"
           b == [proc[p].held EXCEPT !.version = proc[p].code]
           q == [proc[p] EXCEPT !.pc = l, !.cache = b]
<1>1. Sound(applied, proc[p]) BY ReadSound
<1>2. ~ legacy /\ Reached(applied, proc[p].code) /\ proc[p].held \in Basic /\ proc[p] \in Process
  BY <1>1 DEF StampVersion, Sound, SoundBasic, Holding, Migrated
<1>3. proc[p].code \in Nat BY <1>2 DEF Process
<1>4. b \in Basic /\ b.version = proc[p].code BY <1>2, <1>3 DEF Basic
<1>5. basic' = b /\ proc' = [proc EXCEPT ![p] = q] BY DEF StampVersion
<1>6. l \in {"access", "minimum"} OBVIOUS
<1> HIDE DEF b, l
<1>7. SoundBasic(applied, b) BY <1>2, <1>4 DEF SoundBasic
<1>8. q \in Process /\ q.pc = l /\ q.cache = b /\ q.code = proc[p].code
  BY <1>2, <1>4, <1>6 DEF Process, Label
<1> HIDE DEF q
<1>9. Sound(applied, q) BY <1>2, <1>6, <1>7, <1>8 DEF Sound, Holding
<1> QED BY <1>5, <1>7, <1>9, WriteBackStep DEF StampVersion

-----------------------------------------------------------------------------
(* The ACCESS setting, the secret and the surroundings.                    *)

LEMMA InitializeAccessStep ==
  ASSUME StartupInv, NEW p \in Proc, InitializeAccess(p)
  PROVE  StartupInv'
<1>1. Sound(applied, proc[p]) BY ReadSound
<1>2. ~ legacy /\ Reached(applied, proc[p].code) BY <1>1 DEF InitializeAccess, Sound, Migrated
<1> QED BY <1>2, GotoStep DEF InitializeAccess, Label, Holding

LEMMA AdoptSecretStep ==
  ASSUME StartupInv, NEW p \in Proc, AdoptSecret(p)
  PROVE  StartupInv'
<1> DEFINE l == IF GetBasic(p).secret = None THEN "generate" ELSE "serving"
<1>1. Sound(applied, proc[p]) BY ReadSound
<1>2. ~ legacy /\ Reached(applied, proc[p].code) BY <1>1 DEF AdoptSecret, Sound, Migrated
<1>3. l \in Label BY DEF Label
<1>4. proc' = [proc EXCEPT ![p].pc = l, ![p].cache = GetBasic(p), ![p].held = GetBasic(p)]
  BY DEF AdoptSecret
<1> HIDE DEF l
<1> QED BY <1>2, <1>3, <1>4, ReadStep DEF AdoptSecret

LEMMA GenerateSecretStep ==
  ASSUME StartupInv, NEW p \in Proc, GenerateSecret(p)
  PROVE  StartupInv'
<1> DEFINE b == [proc[p].held EXCEPT !.secret = proc[p].start]
           q == [proc[p] EXCEPT !.pc = "serving", !.cache = b, !.held = b]
<1>1. Sound(applied, proc[p]) BY ReadSound
<1>2. /\ ~ legacy /\ Reached(applied, proc[p].code) /\ proc[p] \in Process
      /\ SoundBasic(applied, proc[p].held) /\ proc[p].held \in Basic
  BY <1>1 DEF GenerateSecret, Sound, SoundBasic, Holding, Migrated
<1>3. proc[p].start \in Nat BY <1>2 DEF Process
<1>4. b \in Basic /\ b.version = proc[p].held.version BY <1>2, <1>3 DEF Basic
<1>5. basic' = b /\ proc' = [proc EXCEPT ![p] = q] BY DEF GenerateSecret
<1> HIDE DEF b
<1>6. SoundBasic(applied, b) BY <1>2, <1>4 DEF SoundBasic
<1>7. q \in Process /\ q.pc = "serving" /\ q.cache = b /\ q.held = b /\ q.code = proc[p].code
  BY <1>2, <1>4 DEF Process, Label
<1> HIDE DEF q
<1>8. Sound(applied, q) BY <1>2, <1>6, <1>7 DEF Sound
<1> QED BY <1>5, <1>6, <1>8, WriteBackStep DEF GenerateSecret

LEMMA ExpireStep ==
  ASSUME StartupInv, NEW p \in Proc, Expire(p)
  PROVE  StartupInv'
<1> DEFINE q == [proc[p] EXCEPT !.cache = None]
<1>1. Sound(applied, proc[p]) BY ReadSound
<1>2. /\ q \in Process /\ q.pc = proc[p].pc /\ q.cache = None
      /\ q.held = proc[p].held /\ q.code = proc[p].code
  BY <1>1 DEF Sound, Process
<1>3. proc' = [proc EXCEPT ![p] = q] BY DEF Expire
<1> HIDE DEF q
<1>4. Sound(applied, q) BY <1>1, <1>2 DEF Sound
<1> QED BY <1>3, <1>4, ProcessStep DEF Expire, StartupInv, TablesTyped

LEMMA SameStep ==
  ASSUME StartupInv, UNCHANGED <<applied, basic, legacy, starts, proc>>
  PROVE  StartupInv'
BY DEF StartupInv, TablesTyped, VersionNotAhead, SoundBasic, Initialized, ProcessesSound, Sound

-----------------------------------------------------------------------------
(* The invariant and what follows from it.                                 *)

LEMMA StartupStep ==
  ASSUME StartupInv, StartupNext
  PROVE  StartupInv'
<1>1. ASSUME NEW p \in Proc, NEW r \in Release, NEW url \in Flag, Boot(p, r, url) PROVE StartupInv'
  <2>1. Off \in Process BY OffSound DEF Sound
  <2>2. Off.cache = None BY DEF Off
  <2> QED BY <1>1, <2>1, <2>2, BootStep DEF Boot
<1>2. ASSUME NEW p \in Proc, IsInitialized(p) \/ ApplyLatest(p) \/ CheckMinimum(p) PROVE StartupInv'
  BY <1>2, IsInitializedStep, ApplyLatestStep, CheckMinimumStep
<1>3. ASSUME NEW p \in Proc,
             PlanMigration(p) \/ ApplyMigrations(p) \/ ReadBasic(p) \/ StampVersion(p)
      PROVE  StartupInv'
  BY <1>3, PlanMigrationStep, ApplyMigrationsStep, ReadBasicStep, StampVersionStep
<1>4. ASSUME NEW p \in Proc, InitializeAccess(p) \/ AdoptSecret(p) \/ GenerateSecret(p) \/ Expire(p)
      PROVE  StartupInv'
  BY <1>4, InitializeAccessStep, AdoptSecretStep, GenerateSecretStep, ExpireStep
<1>5. ASSUME NEW p \in Proc, NEW mode \in Mode, SetAccess(p, mode) PROVE StartupInv'
  BY <1>5, SameStep DEF SetAccess
<1>6. ASSUME NEW p \in Proc, End(p) PROVE StartupInv'
  BY <1>6, OffSound, ProcessStep DEF End, StartupInv, TablesTyped
<1>7. BOOLEAN = Flag BY DEF Flag
<1> QED BY <1>1, <1>2, <1>3, <1>4, <1>5, <1>6, <1>7 DEF StartupNext

LEMMA StartupInitial == StartupInit => StartupInv
<1> SUFFICES ASSUME StartupInit PROVE StartupInv OBVIOUS
<1>1. ProcessesSound
  <2>1. Sound(applied, Off) /\ Off \in Process BY OffSound DEF Sound
  <2> QED BY <2>1 DEF StartupInit, ProcessesSound
<1>2. CASE /\ applied = {} /\ basic = [version |-> 0, secret |-> None]
           /\ legacy = FALSE
  BY <1>1, <1>2 DEF StartupInit, StartupInv, TablesTyped, VersionNotAhead, SoundBasic, Basic, Reached
<1>3. ASSUME NEW r \in Release, applied = 1..r, basic = [version |-> r, secret |-> 0],
             legacy = FALSE
      PROVE  StartupInv
  BY <1>1, <1>3, StartupAssumption
     DEF StartupInit, StartupInv, TablesTyped, VersionNotAhead, SoundBasic, Basic, Reached
<1>4. ASSUME NEW r \in 1..(Minimum - 1), applied = 1..r,
             basic \in [version : {0, r}, secret : {0}], legacy = TRUE
      PROVE  StartupInv
  BY <1>1, <1>4, StartupAssumption
     DEF StartupInit, StartupInv, TablesTyped, VersionNotAhead, SoundBasic, Basic, Reached, Initialized
<1> QED BY <1>2, <1>3, <1>4 DEF StartupInit

LEMMA StartupInductive == StartupInv /\ [StartupNext]_startVars => StartupInv'
<1>1. ASSUME StartupInv, UNCHANGED startVars PROVE StartupInv' BY <1>1, SameStep DEF startVars
<1> QED BY <1>1, StartupStep

\* However many processes of whatever releases start, crash and start again on
\* one database, the recorded version never runs ahead of the tables and no
\* migration is skipped.
THEOREM NoMigrationSkipped == StartupSpec => []VersionNotAhead
<1>1. StartupInv => VersionNotAhead BY DEF StartupInv
<1> QED BY StartupInitial, StartupInductive, <1>1, PTL DEF StartupSpec

\* A process that has passed Migrate finds every migration of its release in the
\* tables, and never serves on a database that is too old to be upgraded.
THEOREM ServesOnlyMigrated == StartupSpec => []ServesMigratedSchema
<1>1. StartupInv => ServesMigratedSchema
  BY DEF StartupInv, ProcessesSound, Sound, ServesMigratedSchema, Migrated, Reached
<1> QED BY StartupInitial, StartupInductive, <1>1, PTL DEF StartupSpec

-----------------------------------------------------------------------------
(* The secret.                                                             *)

\* A step of one process after which every copy of BASIC still has the secret.
LEMMA SecretStays ==
  ASSUME StartupInv, SecretEverywhere, NEW p \in Proc, NEW q, proc' = [proc EXCEPT ![p] = q],
         basic'.secret = 0, q.pc # "generate", q.cache # None => q.cache.secret = 0,
         q.pc \in Holding => q.held.secret = 0
  PROVE  SecretEverywhere'
BY DEF StartupInv, ProcessesSound, SecretEverywhere

\* What a process reads has the secret, so it makes no other.
LEMMA SecretRead ==
  ASSUME StartupInv, SecretEverywhere, NEW p \in Proc
  PROVE  /\ proc[p] \in Process /\ GetBasic(p) \in Basic /\ GetBasic(p).secret = 0
         /\ proc[p].pc # "generate"
         /\ proc[p].cache # None => proc[p].cache.secret = 0
         /\ proc[p].pc \in Holding => proc[p].held \in Basic /\ proc[p].held.secret = 0
<1>1. Sound(applied, proc[p]) /\ SoundBasic(applied, GetBasic(p)) BY ReadSound
<1> QED BY <1>1 DEF Sound, SoundBasic, SecretEverywhere, GetBasic

\* A process that moves to a place where it need hold nothing.
LEMMA SecretGoto ==
  ASSUME StartupInv, SecretEverywhere, NEW p \in Proc, NEW l \in Label, Goto(p, l),
         l \notin Holding, UNCHANGED basic
  PROVE  SecretEverywhere'
<1> DEFINE q == [proc[p] EXCEPT !.pc = l]
<1>1. q.pc = l /\ q.cache = proc[p].cache BY SecretRead DEF Process
<1>2. proc' = [proc EXCEPT ![p] = q] BY DEF Goto
<1> HIDE DEF q
<1>3. l # "generate" BY DEF Holding
<1> QED BY <1>1, <1>2, <1>3, SecretRead, SecretStays DEF SecretEverywhere

\* A process that keeps what it has read.
LEMMA SecretKeep ==
  ASSUME StartupInv, SecretEverywhere, NEW p \in Proc, NEW l \in Label \ {"generate"},
         proc' = [proc EXCEPT ![p].pc = l, ![p].cache = GetBasic(p), ![p].held = GetBasic(p)],
         UNCHANGED basic
  PROVE  SecretEverywhere'
<1> DEFINE b == GetBasic(p)
           q == [proc[p] EXCEPT !.pc = l, !.cache = b, !.held = b]
<1>1. proc[p] \in Process /\ b.secret = 0 BY SecretRead
<1>2. proc' = [proc EXCEPT ![p] = q] OBVIOUS
<1> HIDE DEF b
<1>3. q.pc = l /\ q.cache = b /\ q.held = b BY <1>1 DEF Process
<1> HIDE DEF q
<1>4. basic'.secret = 0 /\ l # "generate" BY DEF SecretEverywhere
<1> QED BY <1>1, <1>2, <1>3, <1>4, SecretStays

LEMMA SecretStep ==
  ASSUME StartupInv, SecretEverywhere, StartupNext
  PROVE  SecretEverywhere'
<1>1. ASSUME NEW p \in Proc, NEW r \in Release, NEW url \in Flag, NEW off \in Process,
             off.cache = None, UNCHANGED basic,
             proc' = [proc EXCEPT ![p] = [off EXCEPT !.pc = "check", !.code = r, !.url = url,
                                                     !.start = starts + 1]]
      PROVE  SecretEverywhere'
  <2> DEFINE q == [off EXCEPT !.pc = "check", !.code = r, !.url = url, !.start = starts + 1]
  <2>1. q.pc = "check" /\ q.cache = None BY <1>1 DEF Process
  <2>2. proc' = [proc EXCEPT ![p] = q] BY <1>1
  <2> HIDE DEF q
  <2> QED BY <1>1, <2>1, <2>2, SecretStays DEF SecretEverywhere, Holding
<1>2. ASSUME NEW p \in Proc, NEW r \in Release, NEW url \in Flag, Boot(p, r, url)
      PROVE  SecretEverywhere'
  <2>1. Off \in Process BY OffSound DEF Sound
  <2>2. Off.cache = None BY DEF Off
  <2> QED BY <1>1, <1>2, <2>1, <2>2 DEF Boot
<1>3. ASSUME NEW p \in Proc, IsInitialized(p) \/ ApplyLatest(p) \/ ApplyMigrations(p) \/ InitializeAccess(p)
      PROVE  SecretEverywhere'
  BY <1>3, SecretGoto DEF IsInitialized, ApplyLatest, ApplyMigrations, InitializeAccess, Label, Holding
<1>4. ASSUME NEW p \in Proc, CheckMinimum(p) PROVE SecretEverywhere'
  <2> DEFINE b == GetBasic(p)
             l == IF b.version # 0 /\ b.version >= Minimum THEN "plan"
                  ELSE IF b.version = 0 /\ ~ Initialized THEN "plan" ELSE "tooOld"
             q == [proc[p] EXCEPT !.pc = l, !.cache = b]
  <2>1. proc[p] \in Process /\ b.secret = 0 /\ l \in {"plan", "tooOld"} BY SecretRead
  <2>2. proc' = [proc EXCEPT ![p] = q] /\ UNCHANGED basic BY <1>4 DEF CheckMinimum
  <2> HIDE DEF b, l
  <2>3. q.pc = l /\ q.cache = b BY <2>1 DEF Process
  <2> HIDE DEF q
  <2> QED BY <2>1, <2>2, <2>3, SecretStays DEF SecretEverywhere, Holding
<1>5. ASSUME NEW p \in Proc, PlanMigration(p) \/ ReadBasic(p) PROVE SecretEverywhere'
  <2>1. \E l \in Label \ {"generate"} :
          proc' = [proc EXCEPT ![p].pc = l, ![p].cache = GetBasic(p), ![p].held = GetBasic(p)]
    BY <1>5 DEF PlanMigration, ReadBasic, Label
  <2>2. UNCHANGED basic BY <1>5 DEF PlanMigration, ReadBasic
  <2> QED BY <2>1, <2>2, SecretKeep
<1>6. ASSUME NEW p \in Proc, AdoptSecret(p) PROVE SecretEverywhere'
  <2>1. GetBasic(p).secret # None BY SecretRead, StartupAssumption
  <2>2. /\ proc' = [proc EXCEPT ![p].pc = "serving", ![p].cache = GetBasic(p), ![p].held = GetBasic(p)]
        /\ UNCHANGED basic
    BY <1>6, <2>1 DEF AdoptSecret
  <2>3. "serving" \in Label \ {"generate"} BY DEF Label
  <2> QED BY <2>2, <2>3, SecretKeep
<1>7. ASSUME NEW p \in Proc, StampVersion(p) PROVE SecretEverywhere'
  <2> DEFINE l == IF proc[p].pc = "stamp" THEN "access" ELSE "minimum"
             b == [proc[p].held EXCEPT !.version = proc[p].code]
             q == [proc[p] EXCEPT !.pc = l, !.cache = b]
  <2>1. proc[p] \in Process /\ proc[p].held \in Basic /\ proc[p].held.secret = 0
    BY <1>7, SecretRead DEF StampVersion, Holding
  <2>2. b.secret = 0 /\ l \in {"access", "minimum"} BY <2>1 DEF Basic
  <2>3. proc' = [proc EXCEPT ![p] = q] /\ basic' = b BY <1>7 DEF StampVersion
  <2> HIDE DEF b, l
  <2>4. q.pc = l /\ q.cache = b BY <2>1 DEF Process
  <2> HIDE DEF q
  <2> QED BY <2>2, <2>3, <2>4, SecretStays DEF SecretEverywhere, Holding
<1>8. ASSUME NEW p \in Proc, GenerateSecret(p) PROVE SecretEverywhere'
  BY <1>8, SecretRead DEF GenerateSecret
<1>9. ASSUME NEW p \in Proc, NEW mode \in Mode, SetAccess(p, mode) PROVE SecretEverywhere'
  BY <1>9 DEF SetAccess, SecretEverywhere
<1>10. ASSUME NEW p \in Proc, Expire(p) PROVE SecretEverywhere'
  <2> DEFINE q == [proc[p] EXCEPT !.cache = None]
  <2>1. proc' = [proc EXCEPT ![p] = q] /\ UNCHANGED basic BY <1>10 DEF Expire
  <2>2. q.pc = proc[p].pc /\ q.cache = None /\ q.held = proc[p].held BY SecretRead DEF Process
  <2> HIDE DEF q
  <2> QED BY <2>1, <2>2, SecretRead, SecretStays DEF SecretEverywhere
<1>11. ASSUME NEW p \in Proc, End(p) PROVE SecretEverywhere'
  <2>1. Off.pc = "off" /\ Off.cache = None BY DEF Off
  <2> QED BY <1>11, <2>1, SecretStays DEF End, SecretEverywhere, Holding
<1>12. BOOLEAN = Flag BY DEF Flag
<1> QED BY <1>2, <1>3, <1>4, <1>5, <1>6, <1>7, <1>8, <1>9, <1>10, <1>11, <1>12 DEF StartupNext

\* An installation that has a secret keeps it through every start, upgrade and
\* crash of any number of processes, and every process that serves uses it.
THEOREM SecretSurvives == StartupSpec => SecretKept
<1>1. StartupInit /\ basic.secret = 0 => SecretEverywhere
  <2>1. Off.pc = "off" /\ Off.cache = None BY DEF Off
  <2> QED BY <2>1 DEF StartupInit, SecretEverywhere, Holding
<1>2. StartupInv /\ SecretEverywhere /\ [StartupNext]_startVars => SecretEverywhere'
  <2>1. ASSUME SecretEverywhere, UNCHANGED startVars PROVE SecretEverywhere'
    BY <2>1 DEF startVars, SecretEverywhere
  <2> QED BY <2>1, SecretStep
<1>3. SecretEverywhere =>
        basic.secret = 0 /\ \A p \in Proc : proc[p].pc = "serving" => proc[p].held.secret = 0
  BY DEF SecretEverywhere, Holding
<1> QED BY StartupInitial, StartupInductive, <1>1, <1>2, <1>3, PTL DEF StartupSpec, SecretKept

\* A start, of whatever process and however often, never changes an access mode
\* that is set.
THEOREM AccessModeKept == StartupSpec => AccessDecidedOnce
<1>1. [StartupNext]_startVars => [access # None /\ access' # access => UNCHANGED proc]_startVars
  BY DEF StartupNext, startVars, Boot, IsInitialized, ApplyLatest, CheckMinimum, PlanMigration,
         ApplyMigrations, ReadBasic, StampVersion, InitializeAccess, AdoptSecret, GenerateSecret,
         SetAccess, Expire, End
<1> QED BY <1>1, PTL DEF StartupSpec, AccessDecidedOnce

=============================================================================
