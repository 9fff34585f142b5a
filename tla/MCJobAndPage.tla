----------------------------- MODULE MCJobAndPage -----------------------------
(***************************************************************************)
(* What a visitor waits for: the resolve jobs of a worker, and the page    *)
(* with its downloads.  They share no state (the page's view of a job is   *)
(* the status of its task), so a behaviour here is one of either.          *)
(***************************************************************************)
EXTENDS ProviderRoute, ResolvePage, TLC

CONSTANTS j1, j2   \* jobs

-----------------------------------------------------------------------------
(* The instances: one job on every platform a provider of the worker       *)
(* serves, with all of them enabled; two jobs that share two providers     *)
(* with a slot each; and a page with two downloads.                        *)

Jobs == {j1, j2}
Alone == {[platform |-> f, enabled |-> Provider, jobs |-> {j1}] : f \in UNION {Serves[p] : p \in Provider}}
Together == {[platform |-> "xhamster", enabled |-> {"locoloader", "getxhamster"}, jobs |-> Jobs]}
Route == Alone \cup Together

OnCobalt == {"x", "tiktok", "vimeo", "dailymotion"}
OnCobaltLegacy == {"tiktok"}
OnCobaltModes == [x |-> {"redirect", "tunnel"}, vimeo |-> {"redirect", "tunnel", "picker"}]

\* What the gateway relays itself is left to the second download.
MCOffered ==
  1 :> {"fdown-isuru-facebook-media-v2", "cobalt-selfhosted-processing-media-v1"}
  @@ 2 :> {"fdown-isuru-facebook-media-v2", "ytdlp-youtube-relay-v1", "ytdlp-youtube-artifact-v1"}

VARIABLE part

ASSUME PageAssumption == PageWorkload

-----------------------------------------------------------------------------
(* One part moves; the other keeps the value it starts with: the page has  *)
(* no request under way, and the worker was refused.  Fairness asks        *)
(* nothing of either.                                                      *)

BothInit ==
  /\ \/ part = "job" /\ Init
     \/ part = "page" /\ worker = "refused" /\ Given /\ platform[j1] = "pinterest" /\ approved = Needs
  /\ PageInitial

BothNext ==
  \/ part = "job" /\ Next /\ UNCHANGED <<part, allVars>>
  \/ part = "page" /\ PageNext /\ UNCHANGED <<part, vars>>

BothSpec ==
  /\ BothInit /\ [][BothNext]_<<part, vars, allVars>>
  /\ Fairness /\ PageFairness

-----------------------------------------------------------------------------
\* The state's shape, of both parts.
BothTypeOK == TypeOK /\ PageTypeOK /\ GatewayTypeOK
=============================================================================
