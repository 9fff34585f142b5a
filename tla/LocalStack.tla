------------------------------ MODULE LocalStack ------------------------------
(***************************************************************************)
(* The local development stack: launchers (`pnpm dev:offline`, `dev:pilot`)*)
(* that spawn the four applications and supervise them, and one `pnpm      *)
(* dev:stop`, which share three files: the owner lock, the recorded state, *)
(* and the request to stop.  Launchers are interrupted or killed, and      *)
(* applications exit, at any time.                                         *)
(***************************************************************************)
EXTENDS Naturals, FiniteSets

CONSTANTS Launchers,  \* processes that run the start command
          Apps,       \* how many applications a stack has, in their order
          Attempts,   \* times a launcher looks whether a service is healthy
          ExitBound,  \* applications that exit by themselves
          KillBound   \* launchers killed before they could clean up

VARIABLES lock,       \* owner.lock: the launcher it names
          recorded,   \* state.json
          requested,  \* stop.requested exists
          launcher,   \* each launcher
          app,        \* each launcher's applications
          stopper,    \* the stop command
          exits, kills

stackVars == <<lock, recorded, requested, launcher, app, stopper, exits, kills>>

\* What the properties need of the constants.
StackWorkload ==
    /\ Apps \in Nat \ {0} /\ Attempts \in Nat /\ ExitBound \in Nat /\ KillBound \in Nat
    /\ "none" \notin Launchers

NoLauncher == "none"
NoFile == [launcher |-> NoLauncher, spawned |-> 0, status |-> "absent"]
LauncherSteps == {"idle", "starting", "locked", "preparing", "infrastructure", "migrating",
                  "probing", "spawning", "writing", "waiting", "ready", "ending", "unrecording",
                  "unlocking", "refused", "ended", "killed"}
Alive(l) == launcher[l].step \notin {"idle", "refused", "ended", "killed"}

Launcher == [step : LauncherSteps, mode : {"offline", "pilot"}, spawned : 0..Apps,
             tries : 0..Attempts, interrupted : BOOLEAN]
StateFile == [launcher : Launchers \union {NoLauncher}, spawned : 0..Apps,
              status : {"absent", "starting", "ready"}]
Stopper == [step : {"idle", "terminating", "checking", "waiting", "done", "failed"},
            of : Launchers \union {NoLauncher}, upTo : 0..Apps, killed : BOOLEAN]

StackTypeOK ==
    /\ lock \in Launchers \union {NoLauncher}
    /\ recorded \in StateFile /\ requested \in BOOLEAN
    /\ launcher \in [Launchers -> Launcher]
    /\ app \in [Launchers -> [1..Apps -> {"none", "live", "gone"}]]
    /\ stopper \in Stopper
    /\ exits \in 0..ExitBound /\ kills \in 0..KillBound

LauncherBecomes(l, step, mode, spawned, tries, interrupted) ==
    launcher' = [launcher EXCEPT ![l] = [step |-> step, mode |-> mode, spawned |-> spawned,
                                         tries |-> tries, interrupted |-> interrupted]]
LauncherGoes(l, step, spawned, tries) ==
    LauncherBecomes(l, step, launcher[l].mode, spawned, tries, launcher[l].interrupted)
LauncherTo(l, step) == LauncherGoes(l, step, launcher[l].spawned, launcher[l].tries)
AnyAppLive == \E l \in Launchers, i \in 1..Apps : app[l][i] = "live"
LiveUpTo(l, n) == \A i \in 1..n : app[l][i] = "live"

(* SIGTERM to the group of every application among the first n whose leader *)
(* is alive, then SIGKILL to those that are after five seconds.             *)
Terminated(l, n) ==
    [app EXCEPT ![l] = [i \in 1..Apps |->
                            IF i <= n /\ app[l][i] = "live" THEN "gone" ELSE app[l][i]]]
Turns(l, n, to) == app' = [app EXCEPT ![l] = [i \in 1..Apps |-> IF i = n THEN to ELSE app[l][i]]]

-----------------------------------------------------------------------------
(* Starting *)

(* The request to stop is removed before the lock is tried. *)
ClearRequest(l) ==
    /\ launcher[l].step = "idle"
    /\ \E mode \in {"offline", "pilot"} :
          LauncherBecomes(l, "starting", mode, launcher[l].spawned, launcher[l].tries, launcher[l].interrupted)
    /\ requested' = FALSE
    /\ UNCHANGED <<lock, recorded, app, stopper, exits, kills>>

AcquireOwnerLock(l) ==
    /\ launcher[l].step = "starting"
    /\ IF lock = NoLauncher THEN lock' = l /\ LauncherTo(l, "locked") ELSE UNCHANGED lock /\ LauncherTo(l, "refused")
    /\ UNCHANGED <<recorded, requested, app, stopper, exits, kills>>

Record(l, status) == recorded' = [launcher |-> l, spawned |-> launcher[l].spawned, status |-> status]

RecordStarting(l) ==
    /\ launcher[l].step = "locked"
    /\ Record(l, "starting")
    /\ LauncherTo(l, "preparing")
    /\ UNCHANGED <<lock, requested, app, stopper, exits, kills>>

Continues(l) == ~launcher[l].interrupted /\ ~requested
Pilot(l) == launcher[l].mode = "pilot"

(* The profile, which a live pilot is refused without its authorisation,    *)
(* providers and approvals; then the ports, taken while an application of   *)
(* another stack runs.                                                      *)
BuildProfile(l) ==
    /\ launcher[l].step = "preparing"
    /\ \/ Pilot(l) /\ LauncherTo(l, "ending")
       \/ (AnyAppLive \/ ~Continues(l)) /\ LauncherTo(l, "ending")
       \/ ~AnyAppLive /\ Continues(l) /\ LauncherTo(l, "infrastructure")
    /\ UNCHANGED <<lock, recorded, requested, app, stopper, exits, kills>>

(* Is PostgreSQL, and Redis, running and healthy?  Asked so many times. *)
EnsureInfrastructure(l) ==
    /\ launcher[l].step = "infrastructure"
    /\ \/ LauncherGoes(l, IF Continues(l) THEN "migrating" ELSE "ending", launcher[l].spawned, 0)
       \/ /\ launcher[l].tries < Attempts
          /\ LauncherGoes(l, launcher[l].step, launcher[l].spawned, launcher[l].tries + 1)
       \/ launcher[l].tries = Attempts /\ LauncherTo(l, "ending")
    /\ UNCHANGED <<lock, recorded, requested, app, stopper, exits, kills>>

(* The migrations; and for a pilot the hosts of its providers, each reached *)
(* or the start fails.                                                      *)
MigrateAndProbe(l) ==
    /\ launcher[l].step = "migrating"
    /\ \/ LauncherTo(l, "ending")
       \/ Continues(l) /\ LauncherTo(l, IF Pilot(l) THEN "probing" ELSE "spawning")
    /\ UNCHANGED <<lock, recorded, requested, app, stopper, exits, kills>>

VerifyEgress(l) ==
    /\ launcher[l].step = "probing"
    /\ LauncherTo(l, "ending") \/ (Continues(l) /\ LauncherTo(l, "spawning"))
    /\ UNCHANGED <<lock, recorded, requested, app, stopper, exits, kills>>

Spawn(l) ==
    LET n == launcher[l].spawned + 1
    IN /\ launcher[l].step = "spawning"
       /\ IF ~Continues(l) THEN LauncherTo(l, "ending") /\ UNCHANGED app
          ELSE \/ Turns(l, n, "live") /\ LauncherGoes(l, "writing", n, launcher[l].tries)
               \/ LauncherTo(l, "ending") /\ UNCHANGED app
       /\ UNCHANGED <<lock, recorded, requested, stopper, exits, kills>>

RecordSpawned(l) ==
    /\ launcher[l].step = "writing"
    /\ Record(l, "starting")
    /\ LauncherTo(l, IF launcher[l].spawned = Apps THEN "waiting" ELSE "spawning")
    /\ UNCHANGED <<lock, requested, app, stopper, exits, kills>>

(* The services answer, the worker's probe passes, and all four leaders     *)
(* stay alive; or one exited, a request came, or the attempts ran out.      *)
AwaitReadiness(l) ==
    /\ launcher[l].step = "waiting"
    /\ \/ /\ ~requested /\ LiveUpTo(l, Apps)
          /\ Record(l, "ready")
          /\ LauncherTo(l, "ready")
       \/ LauncherTo(l, "ending") /\ UNCHANGED recorded
    /\ UNCHANGED <<lock, requested, app, stopper, exits, kills>>

-----------------------------------------------------------------------------
(* Ending.  The supervisor watches for a signal and for the request; that   *)
(* its applications are alive it does not watch.                            *)

Supervise(l) ==
    /\ launcher[l].step = "ready" /\ ~Continues(l)
    /\ LauncherTo(l, "ending")
    /\ UNCHANGED <<lock, recorded, requested, app, stopper, exits, kills>>

OwnedTerminatedIfReady(l) ==
    IF recorded.status = "ready" THEN Terminated(l, launcher[l].spawned) ELSE app
OwnedTerminated(l) == Terminated(l, launcher[l].spawned)

TerminateOwned(l) ==
    /\ launcher[l].step = "ending"
    /\ app' = OwnedTerminated(l)
    /\ LauncherTo(l, "unrecording")
    /\ UNCHANGED <<lock, recorded, requested, stopper, exits, kills>>

RemoveState(l) ==
    /\ launcher[l].step = "unrecording"
    /\ recorded' = NoFile
    /\ LauncherTo(l, "unlocking")
    /\ UNCHANGED <<lock, requested, app, stopper, exits, kills>>

RemoveLock(l) ==
    /\ launcher[l].step = "unlocking"
    /\ lock' = NoLauncher /\ requested' = FALSE
    /\ LauncherTo(l, "ended")
    /\ UNCHANGED <<recorded, app, stopper, exits, kills>>

Interrupt(l) ==
    /\ Alive(l) /\ ~launcher[l].interrupted
    /\ LauncherBecomes(l, launcher[l].step, launcher[l].mode, launcher[l].spawned, launcher[l].tries, TRUE)
    /\ UNCHANGED <<lock, recorded, requested, app, stopper, exits, kills>>

(* a launcher killed outright: its applications, detached, live on *)
KillLauncher(l) ==
    /\ Alive(l) /\ kills < KillBound
    /\ LauncherTo(l, "killed") /\ kills' = kills + 1
    /\ stopper' = [step |-> stopper.step, of |-> stopper.of, upTo |-> stopper.upTo,
                   killed |-> stopper.killed \/ stopper.of = l]
    /\ UNCHANGED <<lock, recorded, requested, app, exits>>

AppExits(l, i) ==
    /\ app[l][i] = "live" /\ exits < ExitBound
    /\ Turns(l, i, "gone") /\ exits' = exits + 1
    /\ UNCHANGED <<lock, recorded, requested, launcher, stopper, kills>>

-----------------------------------------------------------------------------
(* Stopping *)

StopperAt(step) ==
    stopper' = [step |-> step, of |-> stopper.of, upTo |-> stopper.upTo, killed |-> stopper.killed]

(* No state file: nothing runs, unless a launcher has just taken the lock. *)
StopNothing ==
    /\ stopper.step = "idle" /\ recorded = NoFile
    /\ IF lock # NoLauncher /\ Alive(lock)
       THEN StopperAt("failed") /\ UNCHANGED <<lock, requested>>
       ELSE StopperAt("done") /\ lock' = NoLauncher /\ requested' = FALSE
    /\ UNCHANGED <<recorded, launcher, app, exits, kills>>

(* The state is read once; the request follows. *)
RequestStop ==
    /\ stopper.step = "idle" /\ recorded # NoFile
    /\ stopper' = [step |-> "terminating", of |-> recorded.launcher, upTo |-> recorded.spawned,
                   killed |-> launcher[recorded.launcher].step = "killed"]
    /\ requested' = TRUE
    /\ UNCHANGED <<lock, recorded, launcher, app, exits, kills>>

StopTerminates ==
    /\ stopper.step = "terminating"
    /\ app' = Terminated(stopper.of, stopper.upTo)
    /\ StopperAt("checking")
    /\ UNCHANGED <<lock, recorded, requested, launcher, exits, kills>>

FinishStop == IF recorded' # NoFile \/ lock' # NoLauncher THEN StopperAt("failed") ELSE StopperAt("done")

(* A launcher that is gone leaves its files to the stop command; *)
StopCleansUp ==
    /\ stopper.step = "checking" /\ ~Alive(stopper.of)
    /\ recorded' = NoFile /\ lock' = NoLauncher /\ requested' = FALSE
    /\ FinishStop
    /\ UNCHANGED <<launcher, app, exits, kills>>

(* one that lives is waited for, thirty seconds at most. *)
StopWaits ==
    /\ \/ stopper.step = "checking" /\ Alive(stopper.of)
       \/ stopper.step = "waiting"
    /\ UNCHANGED <<lock, recorded, requested>>
    /\ IF recorded # NoFile /\ stopper.step = "checking" THEN StopperAt("waiting") ELSE FinishStop
    /\ UNCHANGED <<launcher, app, exits, kills>>

-----------------------------------------------------------------------------
StackInit ==
    /\ lock = NoLauncher /\ recorded = NoFile /\ requested = FALSE
    /\ launcher = [l \in Launchers |-> [step |-> "idle", mode |-> "offline", spawned |-> 0,
                                        tries |-> 0, interrupted |-> FALSE]]
    /\ app = [l \in Launchers |-> [i \in 1..Apps |-> "none"]]
    /\ stopper = [step |-> "idle", of |-> NoLauncher, upTo |-> 0, killed |-> FALSE]
    /\ exits = 0 /\ kills = 0

StackNext ==
    \/ \E l \in Launchers :
         \/ ClearRequest(l) \/ AcquireOwnerLock(l) \/ RecordStarting(l) \/ BuildProfile(l)
         \/ EnsureInfrastructure(l) \/ MigrateAndProbe(l) \/ VerifyEgress(l) \/ Spawn(l) \/ RecordSpawned(l)
         \/ AwaitReadiness(l) \/ Supervise(l) \/ TerminateOwned(l)
         \/ RemoveState(l) \/ RemoveLock(l) \/ Interrupt(l) \/ KillLauncher(l)
         \/ \E i \in 1..Apps : AppExits(l, i)
    \/ StopNothing \/ RequestStop \/ StopTerminates \/ StopCleansUp \/ StopWaits

StackSpec == StackInit /\ [][StackNext]_stackVars

-----------------------------------------------------------------------------
(* A stop that reports success has stopped the whole stack it read, the     *)
(* applications spawned after it read the state included, unless the        *)
(* launcher was killed: each either terminated them or waited for the       *)
(* launcher to (stopStack and startStack, which share nothing but files).   *)
StopMeansStopped ==
    (stopper.step = "done" /\ stopper.of # NoLauncher /\ ~stopper.killed)
    => \A i \in 1..Apps : app[stopper.of][i] # "live"
=============================================================================
