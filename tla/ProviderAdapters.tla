--------------------------- MODULE ProviderAdapters ---------------------------
(***************************************************************************)
(* The provider adapters (packages/providers/src/adapters): what each of   *)
(* them may answer, stage by stage.  A stage is the code between two       *)
(* requests; its outcomes are the next stage, a resolution, or one of the  *)
(* failures its parsing and checks can throw, with the two decisions       *)
(* (retryable, fallbackAllowed) the code gives each.  What a response says *)
(* is data: any outcome its classification knows may be the one.           *)
(*                                                                         *)
(* The router (ProviderRoute) runs these stages, and interrupts them.      *)
(***************************************************************************)
EXTENDS Naturals, FiniteSets

Failure(code, retryable, fallback) ==
  [to |-> "failed", code |-> code, retryable |-> retryable, fallback |-> fallback]
Go(stage) == [to |-> stage, code |-> "none", retryable |-> FALSE, fallback |-> FALSE]
Resolved == Go("resolved")

\* An exception that is not a ProviderError; the router names it.
Raw == Go("raw")

Unavailable == Failure("provider_unavailable", TRUE, TRUE)
TimedOut == Failure("provider_timeout", TRUE, TRUE)
RateLimited == Failure("provider_rate_limited", TRUE, TRUE)
Challenge == Failure("provider_challenge", TRUE, TRUE)
SchemaChanged == Failure("provider_schema_changed", TRUE, TRUE)
InvalidOnce == Failure("invalid_result", TRUE, TRUE)
InvalidHere == Failure("invalid_result", FALSE, TRUE)
Unsupported == Failure("unsupported_url", FALSE, TRUE)
UnsupportedContent == Failure("unsupported_url", FALSE, FALSE)
Private == Failure("content_private", FALSE, FALSE)
NotFound == Failure("content_not_found", FALSE, FALSE)
NeedsLogin == Failure("authentication_required", FALSE, FALSE)

---------------------------------------------------------------------------
(* adapters/shared.ts                                                      *)

\* Redirects are followed by hand, inside the allowlist and up to a limit.
Redirecting == {Unavailable, InvalidOnce, InvalidHere}

\* The body limit, then the status, the challenge and the content type.
Answering(allowNonOk) ==
  {InvalidOnce, RateLimited, TimedOut, NeedsLogin, Challenge, Unavailable}
    \cup IF allowNonOk THEN {} ELSE {SchemaChanged}

Text == Redirecting \cup Answering(FALSE)
TextAnyStatus == Redirecting \cup Answering(TRUE)

\* A result is built from the formats, or there is none to build it from.
Building(formats) == IF formats = 0 THEN Unsupported ELSE Resolved

\* Every target of a redirect resolution is checked against its host policy.
Redirect == {Building(1), Raw}

Approval(approved, stage) == IF approved THEN {Go(stage)} ELSE {Unsupported}

\* An adapter: its stages, and what an aborted and a broken exchange become.
Adapter(steps, aborted, broken) == [steps |-> steps, aborted |-> aborted, broken |-> broken]

\* The stages that do not notice an abort: they await nothing the signal
\* reaches, or catch whatever the request throws.
Deaf == {"start", "gate", "reserve", "thumbnail", "second", "secondpoll", "build"}

---------------------------------------------------------------------------
(* adapters/free-site.ts, for SnapInsta and TikVid                         *)

SiteForm == {SchemaChanged, InvalidHere, Go("submit")}
SiteContent == {Private, NotFound, Challenge, Unsupported}
SiteResult == SiteContent \cup {InvalidOnce, Building(1)}

FreeSite(approved) == Adapter(
  [start |-> Approval(TRUE, "landing"), landing |-> Text \cup SiteForm, submit |-> Text \cup SiteResult],
  Raw, Raw)

(* adapters/dlpanda.ts *)

PandaToken == {SchemaChanged, Go("submit")}
PandaParse == {Building(n) : n \in 0 .. 1}

DLPanda(approved) == Adapter(
  [start |-> Approval(TRUE, "landing"), landing |-> Text \cup PandaToken,
   submit |-> Text \cup {Unsupported, NeedsLogin} \cup PandaParse],
  Raw, Raw)

(* adapters/tikcd.ts and adapters/snaptik-monster.ts *)

TikCDParse == {SchemaChanged, NotFound, Unavailable, InvalidOnce} \cup Redirect

TikCD(approved) == Adapter(
  [start |-> {Go("api")}, api |-> Text \cup TikCDParse], Raw, Raw)

MonsterToken == {SchemaChanged, Go("submit")}
MonsterParse == {Private, NotFound, Unsupported, InvalidOnce} \cup Redirect

SnapTikMonster(approved) == Adapter(
  [start |-> {Go("landing")}, landing |-> Text \cup MonsterToken, submit |-> Text \cup MonsterParse],
  Raw, Raw)

---------------------------------------------------------------------------
(* adapters/locoloader.ts: a token of the extraction budget is reserved     *)
(* after the landing page and before the extraction.                       *)

LocoCode == {Unavailable, Failure("geo_restricted", FALSE, FALSE), Challenge, Private, Unsupported, SchemaChanged}
LocoParse == {SchemaChanged, InvalidHere} \cup LocoCode
LocoApproval(approved) == Approval(approved, "landing")

LocoLoader(approved) == Adapter(
  [start |-> LocoApproval(approved), landing |-> Text \cup {Go("reserve")},
   reserve |-> {Go("extract")},
   extract |-> Text \cup LocoParse \cup Redirect],
  Raw, Raw)

(* adapters/socialdownloader.ts: one budget for all its platforms *)

SocialFailure == {Private, NotFound, UnsupportedContent, NeedsLogin, Unavailable}
SocialParse == {SchemaChanged, UnsupportedContent} \cup SocialFailure
SocialApproval(approved) == Approval(approved, "reserve")

SocialDownloader(approved) == Adapter(
  [start |-> SocialApproval(approved), reserve |-> {Go("extract")},
   extract |-> TextAnyStatus \cup SocialParse \cup {Building(1)}],
  TimedOut, Unavailable)

---------------------------------------------------------------------------
(* adapters/cobalt.ts: one request to the service the project hosts.        *)

CobaltModes == {"redirect", "picker", "tunnel", "local-processing"}

\* An approved platform without modes of its own gets those of the older list.
CobaltVerified(platform, approved, legacy, capabilities) ==
  IF platform \notin approved THEN {}
  ELSE IF platform \in DOMAIN capabilities THEN capabilities[platform] \cap CobaltModes
  ELSE IF platform \in legacy THEN {"redirect", "picker"} ELSE {}

CobaltApproval(approved) == Approval(approved, "request")
CobaltExchange == {SchemaChanged}
CobaltError == {NeedsLogin, RateLimited, Private, Unsupported, Unavailable}
CobaltStatus == {SchemaChanged, NeedsLogin, RateLimited, Unavailable} \cup CobaltError

\* A processing plan is whole and only of tunnels; a direct host needs a
\* policy of its platform.
CobaltPlan == {InvalidHere}
CobaltFormats == {Unsupported, InvalidHere}

\* The modes of the answer, a tunnel among its formats included, against the
\* verified ones.
CobaltMode(answered, verified) == IF answered \subseteq verified THEN Go("thumbnail") ELSE Unsupported
CobaltAnswer(verified) ==
  CobaltStatus \cup CobaltPlan \cup CobaltFormats \cup
    {CobaltMode(answered, verified) : answered \in {{m} : m \in CobaltModes} \cup {{"redirect", "tunnel"}, {"picker", "tunnel"}}}

\* A thumbnail that is not found is left out (adapters/tiktok-thumbnail.ts).
CobaltThumbnail == {Go("build")}
CobaltBuild == {InvalidOnce, Unavailable, Resolved}

Cobalt(verified) == Adapter(
  [start |-> CobaltApproval(verified # {}), request |-> CobaltExchange \cup CobaltAnswer(verified),
   thumbnail |-> CobaltThumbnail, build |-> CobaltBuild],
  TimedOut, Unavailable)

(* adapters/ytdlp-isolated.ts: the isolated runner *)

RunnerFailure == {RateLimited, Challenge, TimedOut, InvalidHere, Unsupported}
                   \cup {Failure("provider_unavailable", again, TRUE) : again \in BOOLEAN}
RunnerAnswer == {Failure("provider_schema_changed", FALSE, TRUE), InvalidHere} \cup Redirect
RunnerApproval(approved) == Approval(approved, "request")

YtDlpIsolated(approved) == Adapter(
  [start |-> RunnerApproval(approved), request |-> {Unavailable} \cup RunnerFailure \cup RunnerAnswer],
  Unavailable, Failure("provider_schema_changed", FALSE, TRUE))

---------------------------------------------------------------------------
(* adapters/snapyt.ts: landing page, resolution, result page, and up to     *)
(* five probes of the media it lists.                                      *)

SnapApproval(approved) == Approval(approved, "gate")
SnapNonce == {SchemaChanged, Go("resolve")}
SnapFailure == {Private, NotFound, Unsupported, RateLimited, Unavailable}
SnapAjax == {SchemaChanged, InvalidHere, Go("result")} \cup SnapFailure
SnapResult == {InvalidHere, Go("probe")}

\* A rejected medium is only counted; any other failure of a probe ends the call.
SnapRejected == {InvalidOnce, InvalidHere}
SnapProbe == {Unavailable, RateLimited, TimedOut, Challenge} \cup SnapRejected
SnapMedia == SnapProbe \cup {Go("probe"), Unavailable, Resolved}

SnapYT(approved) == Adapter(
  [start |-> SnapApproval(approved), gate |-> {Go("landing")}, landing |-> Text \cup SnapNonce,
   resolve |-> Text \cup SnapAjax, result |-> Text \cup SnapResult, probe |-> SnapMedia],
  Raw, Unavailable)

---------------------------------------------------------------------------
(* adapters/noadsdl.ts: metadata, then up to two jobs, each polled until it *)
(* is done, fails, or the polls and their time are used up.                *)

NoAdsApproval(approved) == Approval(approved, "gate")
NoAdsFailure == {Private, NotFound, Unsupported, RateLimited, Unavailable}
NoAdsInfo == {SchemaChanged, InvalidHere, Go("job")} \cup NoAdsFailure
NoAdsJob == {SchemaChanged} \cup NoAdsFailure

\* The first job must be prepared.
NoAdsPrepared == {Go("second"), Go("build")}
NoAdsFirst == TextAnyStatus \cup NoAdsJob \cup {TimedOut, Go("poll")} \cup NoAdsPrepared

\* Whatever happens to the second job, an abort included, the first is delivered.
NoAdsSecond == {Go("secondpoll"), Go("build")}
NoAdsBuild == {Unavailable, Resolved}

NoAdsDL(approved) == Adapter(
  [start |-> NoAdsApproval(approved), gate |-> {Go("info")}, info |-> TextAnyStatus \cup NoAdsInfo,
   job |-> NoAdsFirst, poll |-> NoAdsFirst, second |-> NoAdsSecond, secondpoll |-> NoAdsSecond,
   build |-> NoAdsBuild],
  TimedOut, Unavailable)

---------------------------------------------------------------------------
(* adapters/nine-x-buddy.ts: bootstrap, token, extraction (once more when   *)
(* it has no formats), inspection, preparation, progress, cancellation.    *)

BuddyApproval(approved) == Approval(approved, "gate")
BuddyBootstrap == {SchemaChanged, Go("token")}
BuddyJson == TextAnyStatus \cup {SchemaChanged}
BuddyToken == BuddyJson \cup {Challenge, Go("extract")}
BuddyContent == {Private, Failure("invalid_url", FALSE, FALSE), NotFound, UnsupportedContent}
BuddyDescriptor == {SchemaChanged}
BuddyExtract(again) == BuddyJson \cup BuddyContent \cup BuddyDescriptor \cup {Go("inspect"), again}
BuddyPrepared == {Go("build"), Go("progress")}
BuddyInspect == BuddyJson \cup {Go("prepare")} \cup BuddyPrepared
BuddyProgress == BuddyJson \cup {Unavailable, Go("build"), Go("progress"), Go("cancel")}
BuddyCancel == {TimedOut}
BuddyBuild == {Unavailable, Resolved}

NineXBuddy(approved) == Adapter(
  [start |-> BuddyApproval(approved), gate |-> {Go("landing")}, landing |-> Text \cup BuddyBootstrap,
   token |-> BuddyToken, extract |-> BuddyExtract(Go("extractagain")), extractagain |-> BuddyExtract(Unavailable),
   inspect |-> BuddyInspect, prepare |-> BuddyJson \cup BuddyPrepared, progress |-> BuddyProgress,
   cancel |-> BuddyCancel, build |-> BuddyBuild],
  TimedOut, Unavailable)

---------------------------------------------------------------------------
(* adapters/viddown.ts: the page's token, or one fetched with its cookie    *)

VidDownToken == {SchemaChanged, Go("token"), Go("loader")}
VidDownLegacy == {SchemaChanged, Go("loader")}
VidDownFailure == {Private, NotFound, UnsupportedContent, Unavailable}
VidDownLoader == {SchemaChanged, InvalidHere} \cup VidDownFailure

VidDown(approved) == Adapter(
  [start |-> {Go("landing")}, landing |-> Text \cup VidDownToken, token |-> Text \cup VidDownLegacy,
   loader |-> Text \cup VidDownLoader \cup Redirect],
  Raw, Raw)

(* adapters/savefromins.ts *)

InsFailure == {NeedsLogin, Private, NotFound, Failure("geo_restricted", FALSE, FALSE),
               RateLimited, Challenge, Unsupported, Unavailable}
InsResources == {SchemaChanged, InvalidOnce}
InsPayload == {SchemaChanged} \cup InsFailure \cup InsResources \cup {Building(1)}

SaveFromIns(approved) == Adapter(
  [start |-> {Go("request")}, request |-> Text \cup InsPayload], Raw, Raw)

(* adapters/fdown-isuru.ts, which also has a deadline of its own *)

FDownFailure == {NeedsLogin, Challenge, RateLimited, Private, NotFound, Unsupported, SchemaChanged}
FDownParse == {SchemaChanged, InvalidOnce} \cup FDownFailure
FDownDeadline == {TimedOut}

FDownIsuru(approved) == Adapter(
  [start |-> {Go("request")},
   request |-> TextAnyStatus \cup FDownParse \cup FDownDeadline \cup {Building(1), Unavailable}],
  TimedOut, Unavailable)

(* adapters/ssstwitter.ts: the thumbnail is optional, and its failure, an   *)
(* abort included, only leaves it out.                                     *)

SSSForm == {SchemaChanged, Go("submit")}
SSSResult == {SchemaChanged, Private, NotFound, Failure("geo_restricted", FALSE, FALSE), Go("thumbnail")}
SSSThumbnail == {Go("build")}
SSSBuild == {Building(n) : n \in 0 .. 1} \cup {InvalidOnce}

SSSTwitter(approved) == Adapter(
  [start |-> {Go("landing")}, landing |-> Text \cup SSSForm, submit |-> Text \cup SSSResult,
   thumbnail |-> SSSThumbnail, build |-> SSSBuild],
  Raw, Raw)

(* adapters/twitter-saver.ts *)

SaverLanding == {Challenge, Go("search")}
SaverFailure == {Private, NotFound, Failure("geo_restricted", FALSE, FALSE), Unsupported}
SaverSearch == {SchemaChanged} \cup SaverFailure \cup {Building(n) : n \in 0 .. 1} \cup Redirect

TwitterSaver(approved) == Adapter(
  [start |-> {Go("landing")}, landing |-> Text \cup SaverLanding, search |-> Text \cup SaverSearch],
  Raw, Raw)

(* adapters/getxhamster.ts *)

XHamsterApproval(approved) == Approval(approved, "gate")
XHamsterParse == {SchemaChanged, Unsupported, InvalidHere} \cup Redirect

GetXHamster(approved) == Adapter(
  [start |-> XHamsterApproval(approved), gate |-> {Go("request")}, request |-> Text \cup XHamsterParse],
  Raw, Raw)

(* adapters/pinterest-videodownloader.ts: a short link is expanded first    *)

PinStart == {Go("expand"), Go("pin")}
PinExpand == {Unsupported, Go("pin")}
PinParse == {SchemaChanged, InvalidHere} \cup Redirect

PinterestVideoDownloader(approved) == Adapter(
  [start |-> PinStart, expand |-> Text \cup PinExpand, pin |-> Text \cup PinParse],
  Raw, Raw)

---------------------------------------------------------------------------
(* What the worker asks for before it constructs an enabled adapter        *)
(* (apps/worker/src, the *-activation.ts files and worker.ts): approvals,   *)
(* platforms that stay within the audited ones, and secrets.                *)

TwitterSaverNeeds == {"terms"}
DLPandaNeeds == {"terms"}
SSSTwitterNeeds == {"terms", "delivery audit"}
SaveFromInsNeeds == {"terms", "delivery audit", "request auth"}
SnapTikNeeds == {"terms", "delivery audit"}
TikVidNeeds == {"terms", "delivery audit"}
TikCDNeeds == {"terms", "delivery audit"}
SnapInstaNeeds == {"terms", "delivery audit"}
FDownNeeds == {"terms", "delivery audit"}
SocialNeeds == {"terms", "delivery audit"}
PinterestNeeds == {"terms", "delivery audit"}
VidDownNeeds == {"terms", "delivery audit"}
LocoLoaderNeeds == {"terms", "delivery audit", "audited platforms"}
BuddyNeeds == {"automation use", "delivery audit", "audited platforms"}
XHamsterNeeds == {"automation use", "delivery audit", "audited platforms"}
SnapYTNeeds == {"terms", "delivery audit"}
NoAdsDLNeeds == {"terms", "delivery audit"}
CobaltNeeds == {"license", "delivery audit", "api key"}
YtDlpNeeds == {"runtime", "delivery audit", "platforms and capabilities", "secret"}

=============================================================================
