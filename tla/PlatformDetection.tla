-------------------------- MODULE PlatformDetection --------------------------
(***************************************************************************)
(* Which platform a link belongs to, and its canonical form: the identity   *)
(* under which tasks share work.  People pass one post on under many        *)
(* spellings; the API detects what it is given, and the worker detects the  *)
(* same link again when the job runs.                                       *)
(*                                                                         *)
(* A host is the sequence of its labels from the right: <<"com", "x">> is   *)
(* x.com.  A link keeps of its query the parameters' names, in order, and   *)
(* whether the rest is spelled as URLSearchParams would write it.           *)
(***************************************************************************)
EXTENDS Naturals, Sequences

CONSTANTS
  Hosts,     \* hosts of links
  Queries,   \* sequences of parameter names, of Parameters
  Steps      \* how often a link is passed on

VARIABLES
  link,  \* the link as somebody has it now
  first, \* the link as it was first seen
  job,   \* the job that the API made of a link, or none
  steps  \* how often the link has been passed on

detectionVars == <<link, first, job, steps>>

---------------------------------------------------------------------------
(* The catalogue *)

Rule(platform, host, below) == [platform |-> platform, host |-> host, below |-> below]
Below(platform, tld, name) == Rule(platform, <<tld, name>>, TRUE)
Only(platform, tld, name) == Rule(platform, <<tld, name>>, FALSE)

\* A platform's host of its own name under .com, with everything below it.
Com(platforms) == {Below(p, "com", p) : p \in platforms}

\* The platforms that are offered, or nearly.
Offered ==
  Com({"tiktok", "youtube", "x", "instagram", "facebook", "vimeo", "dailymotion", "reddit", "soundcloud"}) \cup
  { Rule("tiktok", <<"com", "tiktok", "vm">>, FALSE), Rule("tiktok", <<"com", "tiktok", "vt">>, FALSE),
    Only("youtube", "be", "youtu"), Below("x", "com", "twitter"), Only("facebook", "watch", "fb"),
    Only("dailymotion", "ly", "dai"), Only("reddit", "it", "redd"), Below("twitch", "tv", "twitch"),
    Rule("twitch", <<"tv", "twitch", "clips">>, FALSE), Rule("soundcloud", <<"com", "soundcloud", "on">>, TRUE) }

Planned ==
  Com({"bilibili", "douyin", "kuaishou", "pinterest", "xhamster", "vk", "streamable", "tumblr", "weibo", "xiaohongshu",
       "snapchat"}) \cup
  { Only("bilibili", "tv", "b23"), Below("douyin", "com", "iesdouyin"), Below("kuaishou", "com", "kuaishouapp"),
    Only("pinterest", "it", "pin"), Below("vk", "ru", "vkvideo"), Below("weibo", "cn", "weibo"),
    Below("xiaohongshu", "com", "xhslink"), Below("xigua", "com", "ixigua"), Rule("oasis", <<"cn", "weibo", "oasis">>, TRUE) }

\* The additions that yt-dlp knows.
Retained ==
  Com({"9gag", "bandcamp", "bitchute", "buzzfeed", "espn", "flickr", "imdb", "imgur", "kickstarter", "likee", "linkedin",
       "loom", "mixcloud", "puhutv", "rumble", "substack", "ted"}) \cup
  { Below("blogger", "com", "blogspot"), Rule("espn", <<"br", "com", "espn">>, TRUE),
    Rule("espn", <<"pe", "com", "espn">>, TRUE), Below("espn", "in", "espn"), Only("flickr", "kr", "flic"),
    Below("likee", "video", "likee"), Below("likee", "video", "like"), Below("medal", "tv", "medal"),
    Below("odnoklassniki", "ru", "ok"), Below("periscope", "tv", "periscope"), Below("periscope", "tv", "pscp"),
    Only("telegram", "me", "t") }

Catalogue == Offered \cup Planned \cup Retained

\* The parameters that say who shared a link, those that start with utm_, and
\* one that says what is linked.
Listed == {"feature", "is_copy_url", "is_from_webapp", "s", "sender_device", "si", "source", "stkn", "t",
           "utm_campaign", "utm_content", "utm_medium", "utm_source", "utm_term"}
StartsWithUtm == {"utm_campaign", "utm_content", "utm_medium", "utm_source", "utm_term", "utm_id", "utm_other"}
Parameters == Listed \cup StartsWithUtm \cup {"v", "list"}

Link == [scheme : {"https", "http", "other"}, userinfo : BOOLEAN, port : {"none", "80", "443", "other"},
         host : Hosts \cup {<<"com", "x">>}, dot : BOOLEAN, query : Seq(Parameters), plain : BOOLEAN, hash : BOOLEAN]
None == [platform |-> "none"]

TypeOK ==
  /\ link \in Link /\ first \in Link
  /\ job = None \/ (job.source \in Link /\ job.canonical \in Link /\ job.state \in {"queued", "ran", "mismatch"})
  /\ steps \in 0 .. Steps

---------------------------------------------------------------------------
(* Detection *)

HostMatches(host, rule) ==
  /\ Len(host) >= Len(rule.host) /\ rule.host = SubSeq(host, 1, Len(rule.host))
  /\ rule.below \/ rule.host = host

\* The most specific rule decides: rules that match one host are nested, and
\* told apart by their length.
Matching(host) == {r \in Catalogue : HostMatches(host, r)}
PlatformForHost(host) ==
  LET all == Matching(host)
  IN IF all = {} THEN "none" ELSE (CHOOSE r \in all : \A q \in all : Len(q.host) <= Len(r.host)).platform

\* When a parameter is deleted, the whole query is written anew.  A fault
\* would be to delete the listed parameters only.
RemoveListed(l) ==
  LET kept == SelectSeq(l.query, LAMBDA p : p \notin Listed)
  IN [l EXCEPT !.query = kept, !.plain = @ \/ Len(kept) < Len(l.query)]
RemoveTrackingParameters(l) ==
  LET kept == SelectSeq(l.query, LAMBDA p : p \notin Listed \cup StartsWithUtm)
  IN [l EXCEPT !.query = kept, !.plain = @ \/ Len(kept) < Len(l.query)]

\* A port that is the scheme's own is dropped when the link is parsed.
Accepted(l) == l.scheme # "other" /\ ~l.userinfo /\ l.port # "other"

\* Every host of X is written as x.com; a link on another keeps its host, and
\* the dot behind it.
DetectPlatform(l) ==
  LET platform == PlatformForHost(l.host)
      canonical == RemoveTrackingParameters([l EXCEPT !.scheme = "https", !.port = "none", !.hash = FALSE])
  IN IF ~Accepted(l) \/ platform = "none" THEN None
     ELSE [platform |-> platform,
           canonical |-> IF platform = "x" THEN [canonical EXCEPT !.host = <<"com", "x">>, !.dot = FALSE] ELSE canonical]

---------------------------------------------------------------------------
(* A link and what becomes of it *)

Init ==
  /\ link \in [scheme : {"https", "http"}, userinfo : {FALSE}, port : {"none"}, host : Hosts, dot : {FALSE},
               query : Queries, plain : BOOLEAN, hash : {FALSE}]
  /\ first = link /\ job = None /\ steps = 0

Spelled(l) == steps < Steps /\ link' = l /\ steps' = steps + 1 /\ UNCHANGED <<first, job>>

\* What sharing does to a link: another scheme or a place in the page, a
\* parameter in front or behind, and, on X, another of its hosts.
Rescheme(scheme) == scheme # link.scheme /\ Spelled([link EXCEPT !.scheme = scheme])
Anchor == Spelled([link EXCEPT !.hash = ~@])
Repeat(port) == link.port # port /\ Spelled([link EXCEPT !.port = port])
Track(p) ==
  \E query \in {<<p>> \o link.query, Append(link.query, p)} : Spelled([link EXCEPT !.query = query])
Alias(host) ==
  /\ PlatformForHost(link.host) = "x" /\ PlatformForHost(host) = "x" /\ host # link.host
  /\ \E dot \in BOOLEAN : Spelled([link EXCEPT !.host = host, !.dot = dot])

\* The API queues the platform it detects with the link it was given.
Submit ==
  /\ job = None /\ DetectPlatform(link) # None
  /\ job' = [platform |-> DetectPlatform(link).platform, source |-> link, canonical |-> DetectPlatform(link).canonical,
             state |-> "queued"]
  /\ UNCHANGED <<link, first, steps>>

\* The worker detects it again.
VerifyResolveJobPlatform ==
  /\ job # None /\ job.state = "queued"
  /\ job' = [job EXCEPT !.state = IF DetectPlatform(job.source).platform = job.platform THEN "ran" ELSE "mismatch"]
  /\ UNCHANGED <<link, first, steps>>

DetectionNext ==
  \/ \E scheme \in {"https", "http"} : Rescheme(scheme)
  \/ Anchor
  \/ \E port \in {"80", "443"} : Repeat(port)
  \/ \E p \in {"si", "utm_source", "utm_id"} : Track(p)
  \/ \E host \in Hosts : Alias(host)
  \/ Submit \/ VerifyResolveJobPlatform

DetectionSpec == Init /\ [][DetectionNext]_detectionVars

---------------------------------------------------------------------------
(* However a link has been passed on, it is the same page for the service:  *)
(* one platform and one canonical form, which is detected as itself.  So    *)
(* the task made of any spelling is found again by every other, and the     *)
(* worker never disagrees with the API.  A query whose rest the standard    *)
(* would spell otherwise is left out: removing a parameter respells it.     *)
SharedLinksAreOnePage ==
  LET now == DetectPlatform(link)
  IN /\ link.plain => now = DetectPlatform(first)
     /\ now # None => DetectPlatform(now.canonical) = now
     /\ (job # None /\ link.plain) =>
          now.canonical = job.canonical /\ DetectPlatform(job.source).canonical = job.canonical /\ job.state # "mismatch"
=============================================================================
