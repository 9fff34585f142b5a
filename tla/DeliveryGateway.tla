---------------------------- MODULE DeliveryGateway ----------------------------
(***************************************************************************)
(* What apps/delivery does with a ticket that was redeemed: the policy of  *)
(* its candidate, the secret, then one of four ways to the browser: a      *)
(* redirect, a processing plan, the relay of another host's body, or a     *)
(* temporary artifact.                                                     *)
(*                                                                         *)
(* An address is reviewed (its host, path and query meet the policy and    *)
(* its name has only public addresses) or foreign.  Bytes are counted in   *)
(* units of which a policy allows ByteLimit.  The rows of tickets, their   *)
(* expiry and failures to record are those of DeliveryTickets.             *)
(***************************************************************************)
EXTENDS Naturals, Sequences, TLC

CONSTANTS
  Downloads,     \* numbers of the requests for a ticket, and of their tickets
  Offered,       \* the host policies of the candidates each may be for
  ByteLimit,     \* maximumBytes of a relay or an artifact
  HopLimit       \* redirects a relay follows (3)

VARIABLE visit   \* the ticket of each download and the GET that redeems it

Undeclared == ByteLimit + 2
Sizes == 0 .. ByteLimit + 1
Addresses == {"reviewed", "foreign"}

---------------------------------------------------------------------------
(* HOST_POLICIES.  Each policy has one mode.                               *)

Policies(ids, mode, handoff, limits) ==
  [i \in ids |-> [mode |-> mode, handoff |-> handoff, limits |-> limits]]

SitePolicies ==
  Policies({"twittersaver-media-v1", "ssstwitter-media-v1", "savefromins-instagram-media-v1",
            "savefromins-instagram-media-v2", "snaptik-monster-tiktok-media-v1",
            "tikcd-tiktok-media-v1", "fdown-isuru-facebook-media-v1",
            "socialdownloader-space-facebook-media-v1", "socialdownloader-space-x-media-v1",
            "socialdownloader-space-tiktok-media-v1", "pinterest-videodownloader-pinterest-media-v1",
            "viddown-net-vimeo-media-v1", "vidomon-okru-media-v1", "locoloader-xhamster-media-v1",
            "9xbuddy-xhamster-artifact-v1", "snapyt-app-youtube-media-v1", "noadsdl-youtube-media-v1"},
           "redirect", "navigate", "none")
  @@ Policies({"fdown-isuru-facebook-media-v2", "getxhamster-xhamster-media-v1"},
              "redirect", "cors-download", "none")

CobaltPolicies ==
  Policies({"cobalt-selfhosted-okru-media-v1", "cobalt-selfhosted-x-media-v1",
            "cobalt-selfhosted-instagram-media-v1", "cobalt-selfhosted-tiktok-media-v1",
            "cobalt-selfhosted-facebook-media-v1", "cobalt-selfhosted-pinterest-media-v1",
            "cobalt-selfhosted-vimeo-media-v1"}, "redirect", "navigate", "none")
  @@ Policies({"cobalt-selfhosted-tunnel-media-v1"}, "proxy", "navigate", "none")
  @@ Policies({"cobalt-selfhosted-processing-media-v1"}, "proxy", "client-process", "none")

IsolatedPolicies ==
  Policies({"ytdlp-dailymotion-direct-v1", "ytdlp-youtube-direct-v1"}, "redirect", "navigate", "none")
  @@ Policies({"ytdlp-dailymotion-relay-v1", "ytdlp-youtube-relay-v1"},
              "proxy", "server-download", "relay")
  @@ Policies({"ytdlp-dailymotion-artifact-v1", "ytdlp-youtube-artifact-v1"},
              "temporary-object", "server-download", "artifact")

HostPolicies == SitePolicies @@ CobaltPolicies @@ IsolatedPolicies

\* The refinements of DeliveryHostPolicySchema.
Coherent(p) ==
  /\ p.handoff = "server-download" <=> p.limits # "none"
  /\ p.limits = "relay" => p.mode = "proxy"
  /\ p.limits = "artifact" => p.mode = "temporary-object"

GatewayAssumption ==
  /\ \A id \in DOMAIN HostPolicies : Coherent(HostPolicies[id])
  /\ Offered \in [Downloads -> SUBSET DOMAIN HostPolicies]
  /\ ByteLimit \in Nat \ {0} /\ HopLimit \in Nat

---------------------------------------------------------------------------
\* The three kinds of DeliveryCandidateInputSchema; each fixes its mode,
\* except for a target.  A plan's inputs are as good as the worst of them.
Candidates(d) ==
  {c \in [policy : Offered[d], mode : {"redirect", "proxy", "temporary-object"},
          kind : {"target", "processing", "artifact"}, headers : BOOLEAN,
          address : Addresses, size : Sizes \ {0}] :
     /\ c.mode = HostPolicies[c.policy].mode
     /\ c.kind = "processing" => c.mode = "proxy" /\ ~c.headers
     /\ c.kind = "artifact" => c.mode = "temporary-object" /\ ~c.headers /\ c.address = "reviewed"
     /\ c.kind # "artifact" => c.size = 1}

Verdicts == {"none", "passed", "mode_rejected", "host_rejected", "dns_rejected", "internal_error"}
Answers == {"none", "refused", "rejected", "plan", "redirect", "body"}

\* A visit holds a candidate from its ticket to its end.
Visits(d) ==
  [phase : {"none", "closed"}, reached : SUBSET Addresses, hops : 0 .. HopLimit,
   declared : Sizes \cup {Undeclared}, total : Sizes, outcome : Verdicts, answer : Answers]
  \cup
  [phase : {"issued", "file", "plan", "target", "relay", "body"}, candidate : Candidates(d),
   reached : SUBSET Addresses, hops : 0 .. HopLimit, declared : Sizes \cup {Undeclared},
   total : Sizes, outcome : Verdicts, answer : Answers]

GatewayTypeOK ==
  /\ DOMAIN visit = Downloads
  /\ \A d \in Downloads : visit[d] \in Visits(d)

Unasked == [phase |-> "none", reached |-> {}, hops |-> 0, declared |-> Undeclared, total |-> 0,
            outcome |-> "none", answer |-> "none"]

Underway(c, phase, reached, hops, declared, total) ==
  [phase |-> phase, candidate |-> c, reached |-> reached, hops |-> hops, declared |-> declared,
   total |-> total, outcome |-> "none", answer |-> "none"]

Closed(reached, declared, total, outcome, answer) ==
  [phase |-> "closed", reached |-> reached, hops |-> 0, declared |-> declared, total |-> total,
   outcome |-> outcome, answer |-> answer]

GatewayInit == visit = [d \in Downloads |-> Unasked]

PolicyOf(v) == HostPolicies[v.candidate.policy]
Set(d, v) == visit' = [visit EXCEPT ![d] = v]

Continue(d, phase, reached, hops, declared, total) ==
  Set(d, Underway(visit[d].candidate, phase, reached, hops, declared, total))

\* What is kept of a visit that ended.
End(d, outcome, answer) ==
  Set(d, Closed(visit[d].reached, visit[d].declared, visit[d].total, outcome, answer))

\* The browser goes on by itself.
Hand(d, answer) ==
  Set(d, Closed({visit[d].candidate.address}, Undeclared, 0, "passed", answer))

Reject(d, outcome) == End(d, outcome, "rejected")

\* assertDeliveryTargetPolicy and assertPublicDeliveryDns.
Accepted(address) == address = "reviewed"

---------------------------------------------------------------------------
\* POST /v1/deliveries: the repository finds a candidate that its policy
\* allows, or there is none.
Issue(d) ==
  /\ visit[d].phase = "none"
  /\ \/ \E c \in Candidates(d) : Set(d, Underway(c, "issued", {}, 0, Undeclared, 0))
     \/ End(d, "none", "refused")

\* GET /d/:token: the ticket is expired or gone, its policy is not the one of
\* the POST any more (another release), its envelope does not open, or its
\* secret tells the way.
Open(d) ==
  LET v == visit[d]
      way == CASE v.candidate.kind = "artifact" -> "file" [] v.candidate.kind = "processing" -> "plan"
               [] OTHER -> "target"
  IN /\ v.phase = "issued"
     /\ \/ End(d, "none", "refused")
        \/ \E outcome \in {"mode_rejected", "host_rejected"} : Reject(d, outcome)
        \/ Continue(d, way, {}, 0, Undeclared, 0)

---------------------------------------------------------------------------
\* The file is opened, measured and hashed before its first byte is sent.
OpenArtifact(d) ==
  LET v == visit[d]
  IN /\ v.phase = "file"
     /\ IF PolicyOf(v).limits # "artifact" \/ v.candidate.size > ByteLimit
          THEN Reject(d, "mode_rejected")
          ELSE \/ Continue(d, "body", {}, 0, v.candidate.size, 0)
               \/ Reject(d, "internal_error")

\* A plan for another kind of policy is refused without an outcome.
SendPlan(d) ==
  LET v == visit[d]
      planned == PolicyOf(v).handoff = "client-process"
  IN /\ v.phase = "plan"
     /\ \/ ~planned /\ Reject(d, "none")
        \/ planned /\ ~Accepted(v.candidate.address) /\ Reject(d, "host_rejected")
        \/ planned /\ Accepted(v.candidate.address) /\ Hand(d, "plan")

\* The target, and headers that only the gateway may send.
CheckTarget(d) ==
  LET v == visit[d]
      relayed == PolicyOf(v).handoff = "server-download"
      sound == Accepted(v.candidate.address) /\ (v.candidate.headers => relayed)
  IN /\ v.phase = "target"
     /\ \/ ~sound /\ Reject(d, "dns_rejected")
        \/ sound /\ ~relayed /\ Hand(d, "redirect")
        \/ sound /\ relayed /\ PolicyOf(v).limits # "relay" /\ Reject(d, "none")
        \/ sound /\ relayed /\ PolicyOf(v).limits = "relay"
           /\ Continue(d, "relay", {v.candidate.address}, 0, Undeclared, 0)

---------------------------------------------------------------------------
\* A fault: the address a redirect leads to is taken as it comes.
FollowUnchecked(d) ==
  /\ visit[d].phase = "relay" /\ visit[d].hops < HopLimit
  /\ \E a \in Addresses : Continue(d, "relay", visit[d].reached \cup {a}, visit[d].hops + 1, Undeclared, 0)

\* The upstream redirects: HopLimit times at most, each to a checked address.
Follow(d) ==
  /\ visit[d].phase = "relay"
  /\ \E a \in Addresses :
       IF visit[d].hops < HopLimit /\ Accepted(a)
         THEN Continue(d, "relay", visit[d].reached \cup {a}, visit[d].hops + 1, Undeclared, 0)
         ELSE Reject(d, "internal_error")

\* Its body, declared or not, when the status, the type and the size will do.
StartBody(d) ==
  /\ visit[d].phase = "relay"
  /\ \E n \in 1 .. ByteLimit \cup {Undeclared} :
       Continue(d, "body", visit[d].reached, 0, n, 0)

\* Anything else, a timeout included.
RelayFails(d) ==
  /\ visit[d].phase = "relay"
  /\ Reject(d, "internal_error")

Chunk(d) ==
  LET v == visit[d]
  IN /\ v.phase = "body"
     /\ v.candidate.kind = "artifact" => v.total < v.declared
     /\ IF v.total < ByteLimit THEN Continue(d, "body", v.reached, 0, v.declared, v.total + 1)
        ELSE End(d, "internal_error", "body")

\* The body ends.  A relay must have sent what it declared; the artifact was
\* hashed already.
EndBody(d) ==
  LET v == visit[d]
      whole == v.total > 0 /\ v.declared \in {v.total, Undeclared}
  IN /\ v.phase = "body"
     /\ v.candidate.kind = "artifact" => v.total = v.declared
     /\ End(d, IF whole THEN "passed" ELSE "internal_error", "body")

\* The body breaks or takes too long; or the browser goes away, and no
\* outcome is recorded.
BodyStops(d) ==
  /\ visit[d].phase = "body"
  /\ \E outcome \in {"internal_error", "none"} : End(d, outcome, "body")

GatewayStep(d) ==
  \/ OpenArtifact(d) \/ SendPlan(d) \/ CheckTarget(d)
  \/ Follow(d) \/ StartBody(d) \/ RelayFails(d) \/ Chunk(d) \/ EndBody(d) \/ BodyStops(d)

---------------------------------------------------------------------------
(* Properties.                                                             *)

\* A delivery on record as passed was whole: not empty, within the limit of
\* its policy, and as long as its Content-Length told the browser.
PassedMeansWhole ==
  \A d \in Downloads : LET v == visit[d] IN
    v.outcome = "passed" /\ v.answer = "body"
      => v.total \in 1 .. ByteLimit /\ v.declared \in {v.total, Undeclared}

\* Every address the gateway fetches or sends a browser to was reviewed, at
\* every hop of the relay, which passes its headers on.
ReachesReviewedOnly == \A d \in Downloads : visit[d].reached \subseteq {"reviewed"}

\* What a visitor is given was reviewed: both, whatever the sources answer.
DeliveredAsReviewed == PassedMeansWhole /\ ReachesReviewedOnly

===============================================================================
