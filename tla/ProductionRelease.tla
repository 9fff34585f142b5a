--------------------------- MODULE ProductionRelease ---------------------------
(***************************************************************************)
(* scripts/production-release.sh on the production host, and the backups   *)
(* of its database by the scripts next to it.                              *)
(*                                                                         *)
(* A run of the script is a sequence of steps: with `set -e` the first one *)
(* that fails ends it, and what the script's `if`s then undo is undone; a  *)
(* kill or a reboot undoes nothing.  The stage gate, the backup hook and   *)
(* Docker are external: they may fail at any step.  A release is the       *)
(* environment file a run is bound to.                                     *)
(*                                                                         *)
(* Data is a number that every write raises, so that a copy that holds     *)
(* less than the database is one that was dumped before the last writes.   *)
(***************************************************************************)
EXTENDS Naturals, Sequences, FiniteSets

CONSTANTS
  ScriptRuns,   \* who invokes the script, again and again
  Commands,     \* what they may be asked
  ReleaseFiles, \* the environment files they may be bound to
  DataBound     \* bound on the search: writes

VARIABLES
  host,         \* the lock, the database and its last migration, Admin
  script,       \* each invocation
  backup        \* the newest backup, and the copy kept off the host

releaseVars == <<host, script, backup>>

WriteModes == {"readonly", "content-draft", "full"}

\* An environment file: the optional providers, the backup hook, the
\* confirmation of an empty database, and the modes.
Files ==
  [cobalt : BOOLEAN, ytdlp : BOOLEAN, hook : BOOLEAN, empty : BOOLEAN,
   mode : WriteModes, expected : WriteModes \cup {""}, alwaysOn : BOOLEAN]

\* What an environment file without a line has.
Defaults ==
  [cobalt |-> FALSE, ytdlp |-> FALSE, hook |-> FALSE, empty |-> FALSE,
   mode |-> "readonly", expected |-> "", alwaysOn |-> FALSE]

\* What the properties need of the constants.
ReleaseWorkload == ReleaseFiles \subseteq Files /\ DataBound \in Nat

---------------------------------------------------------------------------
(* The steps of each command.                                              *)

Staged(service) == <<service, "gate">>
When(condition, steps) == IF condition THEN steps ELSE <<>>
Cobalt(f) == When(f.cobalt, <<"cobalt">>)
YtDlp(f) == When(f.ytdlp, <<"ytdlp">>)
Optional(steps) == When(steps # <<>>, <<"pull">> \o steps \o <<"gate">>)

DeploySteps(f) ==
  <<"validate", "gate", "safety", "pull", "gate">> \o Staged("postgres") \o Staged("redis")
  \o <<"migration", "gate">> \o Staged("api") \o Staged("delivery")
  \o Optional(Cobalt(f)) \o Optional(YtDlp(f))
  \o Staged("worker") \o Staged("web") \o <<"verify", "gate">>

RollbackSteps ==
  <<"confirmed", "gate", "validate", "pull">>
  \o Staged("api") \o Staged("delivery") \o Staged("worker") \o Staged("web")

AdminSteps(c) ==
  IF c = "admin-start" THEN <<"validate", "pull", "admin", "mode", "open gate">>
  ELSE IF c = "admin-stop" THEN <<"stop admin", "closed gate">>
  ELSE <<"validate", "account">>  \* admin-account

\* The lock comes first in all of them.
CommandSteps(c, f) ==
  <<"lock">> \o
  (IF c = "deploy" THEN DeploySteps(f)
   ELSE IF c = "rollback" THEN RollbackSteps
   ELSE IF c = "worker-config-apply"
     THEN <<"validate">> \o Cobalt(f) \o YtDlp(f) \o <<"worker", "verify">>
   ELSE IF c = "cobalt-runtime-probe" THEN <<"validate", "pull", "cobalt", "verify">>
   ELSE IF c = "cobalt-runtime-stop" THEN <<"validate", "stop cobalt">>
   ELSE IF c \in {"cobalt-multimode-qualification", "cobalt-tunnel-audit"}
     THEN <<"validate", "verify", "pull", "cobalt", "qualify">>
   ELSE IF c = "ytdlp-youtube-qualification"
     THEN <<"validate", "verify", "pull", "ytdlp", "qualify">>
   ELSE AdminSteps(c))

\* Steps after which the host is, for this model, what it was.
Quiet ==
  {"validate", "verify", "pull", "confirmed", "qualify", "redis", "cobalt", "ytdlp", "stop cobalt"}

\* Steps that bring up the database, by itself or as what a service depends on.
NeedDatabase == {"postgres", "api", "delivery", "worker", "web", "account"}

StepNames ==
  Quiet \cup NeedDatabase \cup
  {"lock", "gate", "safety", "migration", "admin", "mode", "open gate", "stop admin", "closed gate"}

\* The copy off the host.  A partial one was cut short, or has no checksum.
Copy == [state : {"none", "partial", "whole"}, holds : 0 .. DataBound]
NoCopy == [state |-> "none", holds |-> 0]

\* What let the last migration pass: the empty data directory, the verifier that is
\* next to the script, with the copy it looked at, or another command.
Finding == [by : {"none", "empty", "verifier", "command"}, copy : Copy]
NoFinding == [by |-> "none", copy |-> NoCopy]

\* A migration, with the data it found.
Migration == [data : 0 .. DataBound, finding : Finding]

Host == [lock : SUBSET ScriptRuns, database : BOOLEAN, schema : BOOLEAN, data : 0 .. DataBound,
         migration : Migration, admin : {"stopped", "open", "checked"},
         adminMode : WriteModes \cup {""}, left : BOOLEAN]
Script == [phase : {"idle", "running"}, file : Files, finding : Finding, todo : Seq(StepNames)]
Backup == [phase : {"none", "dumped", "named", "sealed"}, holds : 0 .. DataBound, copy : Copy]

ReleaseTypeOK ==
  /\ host \in Host /\ backup \in Backup
  /\ script \in [ScriptRuns -> Script]

\* Before a run, and after it is over.
NoScript == [phase |-> "idle", file |-> Defaults, finding |-> NoFinding, todo |-> <<>>]

\* The host is new, or an earlier release has been there.
ReleaseInit ==
  /\ \E used \in BOOLEAN :
       host = [lock |-> {}, database |-> used, schema |-> used, data |-> 0,
               migration |-> [data |-> 0, finding |-> NoFinding],
               admin |-> "stopped", adminMode |-> "", left |-> FALSE]
  /\ script = [r \in ScriptRuns |-> NoScript]
  /\ backup = [phase |-> "none", holds |-> 0, copy |-> NoCopy]

Invoke(r, c, f) ==
  /\ script[r].phase = "idle"
  /\ script' = [script EXCEPT ![r] = [phase |-> "running", file |-> f, finding |-> NoFinding,
                                      todo |-> CommandSteps(c, f)]]
  /\ UNCHANGED <<host, backup>>

AtStep(r, step) == script[r].phase = "running" /\ Head(script[r].todo) = step
File(r) == script[r].file

\* The run is over, whether its steps are done or not, and the lock is free.
Ends(r, h) ==
  /\ script' = [script EXCEPT ![r] = NoScript]
  /\ host' = [h EXCEPT !.lock = h.lock \ {r}]
  /\ UNCHANGED backup

\* One step is done.
Proceed(r, h, finding) ==
  IF Len(script[r].todo) = 1 THEN Ends(r, h)
  ELSE /\ script' = [script EXCEPT ![r] = [phase |-> "running", file |-> File(r),
                                           finding |-> finding, todo |-> Tail(script[r].todo)]]
       /\ host' = h
       /\ UNCHANGED backup
Advance(r, h) == Proceed(r, h, script[r].finding)

---------------------------------------------------------------------------
\* acquire_lock
AcquireLock(r) ==
  /\ AtStep(r, "lock") /\ host.lock = {}
  /\ Advance(r, [host EXCEPT !.lock = {r}])

Look(r) ==
  /\ \E step \in Quiet : AtStep(r, step)
  /\ Advance(r, host)

StartDatabase(r) ==
  /\ \E step \in NeedDatabase : AtStep(r, step)
  /\ Advance(r, [host EXCEPT !.database = TRUE])

\* run_stage_gate: among others, Admin is reachable when it should be.
StageGate(r) ==
  LET expected(open) == (host.admin # "stopped") = open
  IN \/ AtStep(r, "gate") /\ expected(File(r).alwaysOn) /\ Advance(r, host)
     \/ AtStep(r, "open gate") /\ expected(TRUE) /\ Advance(r, [host EXCEPT !.admin = "checked"])
     \/ AtStep(r, "closed gate") /\ expected(FALSE) /\ Advance(r, host)

\* verify-postgres-backup.sh: the artifact is there with its checksum, which
\* agrees, and it can be decrypted and listed.  How old it is does not matter.
VerifyBackup == backup.copy.state = "whole"

\* A fault: what is confirmed is not looked at.
ConfirmedEmpty(f) == f.empty

\* A directory that was confirmed to be empty must also have no entry.
FreshEmpty(f) == f.empty /\ ~host.database

\* verify_migration_safety: the hook decides alone where there is one, whatever
\* command it is.
MigrationSafety(r) ==
  \E by \in {"empty", "verifier", "command"} :
    /\ AtStep(r, "safety")
    /\ (by = "empty") = ~File(r).hook
    /\ by = "empty" => FreshEmpty(File(r))
    /\ by = "verifier" => VerifyBackup
    /\ Proceed(r, host, [by |-> by, copy |-> IF by = "verifier" THEN backup.copy ELSE NoCopy])

\* The migration's files are applied one by one, each as a whole: it may fail
\* after some of them.  Compose brings up the database for it.
Migrate(r) ==
  LET migration == [data |-> host.data, finding |-> script[r].finding]
      migrated == [host EXCEPT !.database = TRUE, !.schema = TRUE, !.migration = migration]
  IN /\ AtStep(r, "migration")
     /\ Advance(r, migrated) \/ Ends(r, migrated)

StartAdmin(r) ==
  /\ AtStep(r, "admin")
  /\ Advance(r, [host EXCEPT !.database = TRUE, !.admin = "open", !.adminMode = File(r).mode])

\* verify_admin_write_mode
VerifyMode(r) ==
  /\ AtStep(r, "mode")
  /\ File(r).expected \in {"", host.adminMode}
  /\ Advance(r, host)

StopAdmin(r) ==
  /\ AtStep(r, "stop admin")
  /\ Advance(r, [host EXCEPT !.admin = "stopped", !.adminMode = ""])

---------------------------------------------------------------------------
(* A step fails, or the script is killed.                                  *)

\* The step fails, and an Admin that was just started is stopped.  It is left as
\* it is when Docker fails in the stopping, too, which the script ignores, or when
\* no command is set for the stage gate: the script then exits inside it.
FailStep(r) ==
  LET opening == \E step \in {"admin", "mode", "open gate"} : AtStep(r, step)
  IN /\ script[r].phase = "running"
     /\ \/ ~opening /\ Ends(r, host)
        \/ opening /\ Ends(r, [host EXCEPT !.admin = "stopped", !.adminMode = ""])
        \/ opening /\ Ends(r, [host EXCEPT !.left = TRUE])

KillScript(r) ==
  /\ script[r].phase = "running"
  /\ Ends(r, [host EXCEPT !.left = TRUE])

\* The services and the account command write, once there is a schema.
WriteData ==
  /\ host.schema /\ host.data < DataBound
  /\ host' = [host EXCEPT !.data = host.data + 1]
  /\ UNCHANGED <<script, backup>>

---------------------------------------------------------------------------
(* production-backup-postgres.sh, and the copy an operator takes.          *)

\* Another backup may begin when the last one ended or died.
Dump ==
  /\ backup.phase # "dumped" /\ host.database
  /\ backup' = [phase |-> "dumped", holds |-> host.data, copy |-> backup.copy]
  /\ UNCHANGED <<host, script>>

BackupBecomes(phase) ==
  /\ backup' = [phase |-> phase, holds |-> backup.holds, copy |-> backup.copy]
  /\ UNCHANGED <<host, script>>

\* The archive is listed and encrypted, and then gets its name; the checksum
\* follows.
Seal ==
  \/ backup.phase = "dumped" /\ BackupBecomes("named")
  \/ backup.phase = "named" /\ BackupBecomes("sealed")

\* A crash, or a failure, from which cleanup leaves what has its name.
BackupStops == backup.phase = "dumped" /\ BackupBecomes("none")

\* The copy replaces the last one.  It may be cut short, or taken before there
\* is a checksum.
CopyOff ==
  /\ backup.phase \in {"named", "sealed"}
  /\ \E state \in {"partial", "whole"} :
       /\ state = "whole" => backup.phase = "sealed"
       /\ backup' = [phase |-> backup.phase, holds |-> backup.holds,
                     copy |-> [state |-> state, holds |-> backup.holds]]
  /\ UNCHANGED <<host, script>>

ReleaseStep(r) ==
  \/ \E c \in Commands, f \in ReleaseFiles : Invoke(r, c, f)
  \/ AcquireLock(r) \/ Look(r) \/ StartDatabase(r) \/ StageGate(r) \/ MigrationSafety(r)
  \/ Migrate(r) \/ StartAdmin(r) \/ VerifyMode(r) \/ StopAdmin(r) \/ FailStep(r) \/ KillScript(r)

ReleaseNext ==
  \/ \E r \in ScriptRuns : ReleaseStep(r)
  \/ WriteData \/ Dump \/ Seal \/ BackupStops \/ CopyOff

ReleaseSpec == ReleaseInit /\ [][ReleaseNext]_releaseVars

---------------------------------------------------------------------------
(* Properties.                                                             *)

\* Data is migrated only by a run whose backup hook let it pass, several steps
\* before and with other runs, writes, backups and kills in between: an empty
\* directory that was confirmed is still without data at the migration.  Where
\* the hook is the verifier, it has seen a whole copy of an earlier state of
\* this database.  How much earlier is open: the copy may lack the latest
\* writes, or be of the database before its first.
MigratedDataWasJudged ==
  LET finding == host.migration.finding
  IN host.migration.data > 0 =>
       \/ finding.by = "command"
       \/ /\ finding.by = "verifier"
          /\ finding.copy.state = "whole" /\ finding.copy.holds <= host.migration.data

\* Between the runs of the script Admin is open only after its write mode, if
\* one is expected, and its gate were checked, unless a run was killed, Docker
\* failed to stop it, or no gate is set.
OpenAdminWasChecked ==
  host.lock = {} /\ host.admin # "stopped" => host.admin = "checked" \/ host.left

\* Both: data that a deployment migrates was let pass by its hook, and an open
\* administration has passed its checks.
ReleasesAreChecked == MigratedDataWasJudged /\ OpenAdminWasChecked

===============================================================================
