------------------------------- MODULE Startup -------------------------------
(***************************************************************************)
(* The start of a server process: Migrate initializes an empty database    *)
(* with the latest schema or applies the migration files that are missing, *)
(* records the schema version in the BASIC setting, creates the ACCESS     *)
(* setting, and NewServer makes the secret that signs access tokens.       *)
(* Several processes, of several releases, start on one database and may   *)
(* end at any point.                                                       *)
(*                                                                         *)
(* Schema versions are numbered; 0 is the empty version.  A migration file *)
(* is known by the version it leads to.  The drivers are the ones whose    *)
(* DDL is transactional (SQLite, PostgreSQL): a transaction of migrations  *)
(* is one step, and fails when a statement finds its change already made.  *)
(* BASIC is read through the process's setting cache and written back      *)
(* whole, without a lock between processes.                                *)
(***************************************************************************)
EXTENDS Naturals

CONSTANTS Proc,        \* server processes
          Release,     \* schema versions of the releases that are deployed
          Minimum,     \* the version that tracking starts with (0.22.0)
          Repeatable,  \* migration files that can be executed again (only UPDATE, IF EXISTS, ...)
          MaxStarts,   \* bound on the number of process starts, for TLC
          None

ASSUME StartupAssumption == /\ Release \subseteq Nat \ {0}
                            /\ \A r \in Release : Minimum <= r
                            /\ Minimum \in Nat /\ MaxStarts \in Nat
                            /\ None \notin Nat

VARIABLES applied,  \* the migrations the tables reflect; {} when there is no memo table
          basic,    \* the BASIC row: schema version and secret
          access,   \* the ACCESS row
          legacy,   \* was the database set up by a release before Minimum?
          starts,   \* number of process starts so far
          proc      \* proc[p]: a process and its setting cache

startVars == <<applied, basic, access, legacy, starts, proc>>

Mode == {"PRIVATE", "PUBLIC"}
Off == [pc |-> "off", code |-> 0, url |-> FALSE, start |-> 0, cache |-> None, held |-> None]
Initialized == applied # {}

\* GetInstanceBasicSetting: the cached row, or the stored one.
GetBasic(p) == IF proc[p].cache = None THEN basic ELSE proc[p].cache

Goto(p, label) == proc' = [proc EXCEPT ![p].pc = label]

-----------------------------------------------------------------------------
(* preMigrate.                                                             *)

Boot(p, release, url) ==
  /\ proc[p].pc \in {"off", "failed", "tooOld", "downgrade"}
  /\ starts < MaxStarts
  /\ starts' = starts + 1
  /\ proc' = [proc EXCEPT ![p] = [Off EXCEPT !.pc = "check", !.code = release, !.url = url,
                                             !.start = starts + 1]]
  /\ UNCHANGED <<applied, basic, access, legacy>>

IsInitialized(p) ==
  /\ proc[p].pc = "check"
  /\ Goto(p, IF Initialized THEN "minimum" ELSE "latest")
  /\ UNCHANGED <<applied, basic, access, legacy, starts>>

\* The transaction that executes LATEST.sql; its tables may exist by now.
ApplyLatest(p) ==
  /\ proc[p].pc = "latest"
  /\ IF Initialized
       THEN Goto(p, "failed") /\ UNCHANGED applied
       ELSE Goto(p, "readLatest") /\ applied' = 1..proc[p].code
  /\ UNCHANGED <<basic, access, legacy, starts>>

\* checkMinimumUpgradeVersion.
CheckMinimum(p) ==
  /\ proc[p].pc = "minimum"
  /\ LET known == GetBasic(p).version
     IN  proc' = [proc EXCEPT
           ![p].pc = IF known # 0 /\ known >= Minimum THEN "plan"
                     ELSE IF known = 0 /\ ~ Initialized THEN "plan" ELSE "tooOld",
           ![p].cache = GetBasic(p)]
  /\ UNCHANGED <<applied, basic, access, legacy, starts>>

-----------------------------------------------------------------------------
(* The version of the schema and the migrations.                           *)

\* (a plausible slip) the check for a downgrade and the comparison are swapped
PlanMigrationSwapped(p) ==
  /\ proc[p].pc = "plan"
  /\ LET known == GetBasic(p)
     IN  proc' = [proc EXCEPT
           ![p].pc = IF known.version # 0 /\ proc[p].code > known.version THEN "access"
                     ELSE "migrate",
           ![p].cache = known, ![p].held = known]
  /\ UNCHANGED <<applied, basic, access, legacy, starts>>

\* Migrate: refuse a downgrade, or decide whether to apply migrations.
PlanMigration(p) ==
  /\ proc[p].pc = "plan"
  /\ LET known == GetBasic(p)
     IN  proc' = [proc EXCEPT
           ![p].pc = IF known.version > proc[p].code THEN "downgrade"
                     ELSE IF known.version < proc[p].code THEN "migrate" ELSE "access",
           ![p].cache = known, ![p].held = known]
  /\ UNCHANGED <<applied, basic, access, legacy, starts>>

\* shouldApplyMigration, for the version read before.
MissingFiles(p) == {f \in 1..proc[p].code : f > proc[p].held.version}

\* (a plausible slip) the file that leads to the target version is left out
ApplyMigrationsShort(p) ==
  /\ proc[p].pc = "migrate"
  /\ IF MissingFiles(p) \cap applied \subseteq Repeatable
       THEN Goto(p, "read") /\ applied' = applied \cup (MissingFiles(p) \ {proc[p].code})
       ELSE Goto(p, "failed") /\ UNCHANGED applied
  /\ UNCHANGED <<basic, access, legacy, starts>>

\* applyMigrations, up to its commit.
ApplyMigrations(p) ==
  /\ proc[p].pc = "migrate"
  /\ IF MissingFiles(p) \cap applied \subseteq Repeatable
       THEN Goto(p, "read") /\ applied' = applied \cup MissingFiles(p)
       ELSE Goto(p, "failed") /\ UNCHANGED applied
  /\ UNCHANGED <<basic, access, legacy, starts>>

\* updateCurrentSchemaVersion reads BASIC ...
ReadBasic(p) ==
  /\ proc[p].pc \in {"read", "readLatest"}
  /\ proc' = [proc EXCEPT ![p].pc = IF @ = "read" THEN "stamp" ELSE "stampLatest",
                          ![p].cache = GetBasic(p), ![p].held = GetBasic(p)]
  /\ UNCHANGED <<applied, basic, access, legacy, starts>>

\* (a plausible slip) the secret is left out of the row written back
StampVersionAlone(p) ==
  /\ proc[p].pc \in {"stamp", "stampLatest"}
  /\ basic' = [version |-> proc[p].code, secret |-> None]
  /\ proc' = [proc EXCEPT ![p].pc = IF @ = "stamp" THEN "access" ELSE "minimum", ![p].cache = basic']
  /\ UNCHANGED <<applied, access, legacy, starts>>

\* ... and writes it back with the version of this release.
StampVersion(p) ==
  /\ proc[p].pc \in {"stamp", "stampLatest"}
  /\ basic' = [proc[p].held EXCEPT !.version = proc[p].code]
  /\ proc' = [proc EXCEPT ![p].pc = IF @ = "stamp" THEN "access" ELSE "minimum", ![p].cache = basic']
  /\ UNCHANGED <<applied, access, legacy, starts>>

-----------------------------------------------------------------------------
(* The ACCESS setting and the secret.                                      *)

\* (a plausible slip) an upsert: the mode follows the URL at every start
InitializeAccessAlways(p) ==
  /\ proc[p].pc = "access"
  /\ access' = IF proc[p].url THEN "PUBLIC" ELSE "PRIVATE"
  /\ Goto(p, "secret")
  /\ UNCHANGED <<applied, basic, legacy, starts>>

\* initializeInstanceAccessSetting: INSERT ... ON CONFLICT DO NOTHING.
InitializeAccess(p) ==
  /\ proc[p].pc = "access"
  /\ access' = IF access # None THEN access ELSE IF proc[p].url THEN "PUBLIC" ELSE "PRIVATE"
  /\ Goto(p, "secret")
  /\ UNCHANGED <<applied, basic, legacy, starts>>

\* getOrUpsertInstanceBasicSetting: the stored secret is kept ...
AdoptSecret(p) ==
  /\ proc[p].pc = "secret"
  /\ proc' = [proc EXCEPT ![p].pc = IF GetBasic(p).secret = None THEN "generate" ELSE "serving",
                          ![p].cache = GetBasic(p), ![p].held = GetBasic(p)]
  /\ UNCHANGED <<applied, basic, access, legacy, starts>>

\* ... or BASIC, as it was read, is written back with a new one.
GenerateSecret(p) ==
  /\ proc[p].pc = "generate"
  /\ basic' = [proc[p].held EXCEPT !.secret = proc[p].start]
  /\ proc' = [proc EXCEPT ![p].pc = "serving", ![p].cache = basic', ![p].held = basic']
  /\ UNCHANGED <<applied, access, legacy, starts>>

-----------------------------------------------------------------------------
(* The surroundings.                                                       *)

\* An admin changes ACCESS with UpdateInstanceSetting.
SetAccess(p, mode) ==
  /\ proc[p].pc = "serving"
  /\ access' = mode
  /\ UNCHANGED <<applied, basic, legacy, starts, proc>>

\* The entry of the setting cache passes its TTL.
Expire(p) ==
  /\ proc[p].cache # None
  /\ proc' = [proc EXCEPT ![p].cache = None]
  /\ UNCHANGED <<applied, basic, access, legacy, starts>>

\* The process ends: a crash, a failed probe, a new rollout.
End(p) ==
  /\ proc[p].pc # "off"
  /\ proc' = [proc EXCEPT ![p] = Off]
  /\ UNCHANGED <<applied, basic, access, legacy, starts>>

StartupInit ==
  /\ \/ /\ applied = {} /\ basic = [version |-> 0, secret |-> None]
        /\ access = None /\ legacy = FALSE
     \/ /\ \E r \in Release : applied = 1..r /\ basic = [version |-> r, secret |-> 0]
        /\ access \in {None} \cup Mode /\ legacy = FALSE
     \/ /\ \E r \in 1..(Minimum - 1) :
             applied = 1..r /\ basic \in [version : {0, r}, secret : {0}]
        /\ access = None /\ legacy = TRUE
  /\ starts = 0
  /\ proc = [p \in Proc |-> Off]

StartupNext ==
  \E p \in Proc :
     \/ \E release \in Release, url \in BOOLEAN : Boot(p, release, url)
     \/ IsInitialized(p)
     \/ ApplyLatest(p)
     \/ CheckMinimum(p)
     \/ PlanMigration(p)
     \/ ApplyMigrations(p)
     \/ ReadBasic(p)
     \/ StampVersion(p)
     \/ InitializeAccess(p)
     \/ AdoptSecret(p)
     \/ GenerateSecret(p)
     \/ \E mode \in Mode : SetAccess(p, mode)
     \/ Expire(p)
     \/ End(p)

StartupSpec == StartupInit /\ [][StartupNext]_startVars

-----------------------------------------------------------------------------
(* Properties.                                                             *)

\* No migration is ever skipped: the recorded version is never ahead of the
\* tables, which always reflect an unbroken run of migrations, whatever the
\* releases that start together and wherever one of them ends.
VersionNotAhead ==
  /\ \A f \in applied : 1..f \subseteq applied
  /\ 1..basic.version \subseteq applied

\* A process that serves requests finds every migration of its release in
\* the tables, and on a database that can be upgraded at all.
ServesMigratedSchema ==
  \A p \in Proc : proc[p].pc \in {"secret", "generate", "serving"} =>
    1..proc[p].code \subseteq applied /\ ~ legacy

\* initializeInstanceAccessSetting "captures the pre-ACCESS behavior exactly
\* once": a start never changes a mode that is set, only an admin does.
AccessDecidedOnce == [][access # None /\ access' # access => UNCHANGED proc]_startVars

\* The secret of an installation that has one survives every start, upgrade
\* and crash: all processes sign and verify with it, although each writes
\* BASIC back whole from its own cache.
SecretKept ==
  basic.secret = 0 => [](basic.secret = 0 /\ \A p \in Proc : proc[p].pc = "serving" => proc[p].held.secret = 0)
=============================================================================
