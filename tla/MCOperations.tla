---------------------------- MODULE MCOperations ----------------------------
(***************************************************************************)
(* The scripts, the scheduled services, the pilot, the internal runtime    *)
(* and the detection of a link's platform.  They share no state, so a      *)
(* behaviour here is a behaviour of one of them.                           *)
(***************************************************************************)
EXTENDS ScheduledOperations, PilotGuard, PilotCalibration, LocalStack, InternalRuntime,
  ProductionRelease, TLC

CONSTANTS a, b, d   \* requests to review, evaluators, processes, launchers

\* Sound: no property tells a from b.
MCSymmetry == Permutations({a, b})

-----------------------------------------------------------------------------
(* The values of the constants.                                             *)

ReleaseCommands == {"deploy", "admin-start", "admin-stop"}
OldRelease == [Defaults EXCEPT !.empty = TRUE, !.mode = "full", !.expected = "full"]
NewRelease == [OldRelease EXCEPT !.hook = TRUE, !.expected = "readonly"]
BothReleases == {OldRelease, NewRelease}
DayObservations == <<2, 1, 1, 1, 0, 0, 0>>
DayRevisions == <<2, 2, 2, 2, 0, 0, 0>>
ProposedWindows == {<<1, 4>>}
ServiceOverlap == [cleanup |-> 2, canary |-> 3, evidence |-> 2]
RowStage == <<1, 1>>
SharedHosts == {<<"com", "x">>, <<"com", "twitter", "mobile">>, <<"com", "tiktok", "vm", "a">>,
  <<"cn", "weibo", "oasis", "m">>, <<"be", "youtu", "www">>}
ApiEnvironment == [role |-> "api", class |-> "internal", stage |-> "internal", production |-> TRUE,
  authorized |-> TRUE, queue |-> "internal", from |-> 0, to |-> 3, deployment |-> "tikdd",
  region |-> "nl", providers |-> {"sss"}, controls |-> TRUE, secrets |-> {"admission", "diagnostics"},
  proxied |-> TRUE]
WorkerEnvironment == [ApiEnvironment EXCEPT !.role = "worker", !.secrets = {"delivery", "rollout"}]
InternalEnvironments ==
  [api |-> {ApiEnvironment},
   worker |-> {WorkerEnvironment,
               [WorkerEnvironment EXCEPT !.providers = {"sss", "cobalt"}, !.region = "other"],
               [WorkerEnvironment EXCEPT !.class = "public", !.stage = "production"]}]
InternalPlan == [ready |-> TRUE, deployment |-> "tikdd", region |-> "nl", providers |-> {"sss"},
  proxied |-> TRUE]
ListedProviders == {"sss", "dlpanda"}
InternalManifests == [sss |-> [enabled |-> TRUE, verified |-> TRUE, regions |-> {"*"}]]

\* What the properties of each part need of its constants.
ASSUME GuardAssumption == GuardWorkload
ASSUME CalibrationAssumption == CalibrationWorkload
ASSUME StackAssumption == StackWorkload
ASSUME RuntimeAssumption == RuntimeWorkload
ASSUME ReleaseAssumption == ReleaseWorkload

VARIABLES part, link, first, job, steps

Detection == INSTANCE PlatformDetection WITH
  Hosts <- SharedHosts, Queries <- {<<"v">>, <<"t", "v">>}, Steps <- 2

-----------------------------------------------------------------------------
(* One part moves; the others keep a state they can start in.               *)

detectionVars == <<link, first, job, steps>>

IdleLink == [scheme |-> "https", userinfo |-> FALSE, port |-> "none", host |-> <<"com", "x">>,
  dot |-> FALSE, query |-> <<"v">>, plain |-> TRUE, hash |-> FALSE]
IdleEnvironment == [api |-> ApiEnvironment, worker |-> WorkerEnvironment]

OperationsInit ==
  /\ part \in {"sched", "release", "calibration", "guard", "stack", "detection", "internal"}
  /\ Init   \* of the scheduled services
  /\ part # "sched" => service = "cleanup"
  /\ ReleaseInit
  /\ part # "release" => ~host.database
  /\ CalibrationInit
  /\ GuardInit
  /\ part # "guard" => guard = NoGuard
  /\ StackInit
  /\ Detection!Init
  /\ part # "detection" => link = IdleLink
  /\ RuntimeInit
  /\ part # "internal" => environment = IdleEnvironment

OperationsNext ==
  \/ part = "sched" /\ SchedNext /\ UNCHANGED <<part, releaseVars, calibrationVars, guardVars,
       stackVars, detectionVars, runtimeVars>>
  \/ part = "release" /\ ReleaseNext /\ UNCHANGED <<part, schedVars, calibrationVars, guardVars,
       stackVars, detectionVars, runtimeVars>>
  \/ part = "calibration" /\ CalibrationNext /\ UNCHANGED <<part, schedVars, releaseVars, guardVars,
       stackVars, detectionVars, runtimeVars>>
  \/ part = "guard" /\ GuardNext /\ UNCHANGED <<part, schedVars, releaseVars, calibrationVars,
       stackVars, detectionVars, runtimeVars>>
  \/ part = "stack" /\ StackNext /\ UNCHANGED <<part, schedVars, releaseVars, calibrationVars,
       guardVars, detectionVars, runtimeVars>>
  \/ part = "detection" /\ Detection!DetectionNext /\ UNCHANGED <<part, schedVars, releaseVars,
       calibrationVars, guardVars, stackVars, runtimeVars>>
  \/ part = "internal" /\ RuntimeNext /\ UNCHANGED <<part, schedVars, releaseVars, calibrationVars,
       guardVars, stackVars, detectionVars>>

allVars == <<part, schedVars, releaseVars, calibrationVars, guardVars, stackVars, detectionVars,
  runtimeVars>>
OperationsSpec == OperationsInit /\ [][OperationsNext]_allVars

-----------------------------------------------------------------------------
\* Every part keeps its types.
OperationsTypeOK ==
  /\ TypeOK /\ ReleaseTypeOK /\ CalibrationTypeOK /\ GuardTypeOK /\ StackTypeOK /\ RuntimeTypeOK
  /\ Detection!TypeOK

\* Spellings of one link that its platform serves alike are one page.
SharedLinksAreOnePage == part = "detection" => Detection!SharedLinksAreOnePage

=============================================================================
