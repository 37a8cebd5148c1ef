----------------------------- MODULE MCController -----------------------------
(* Instances of Controller for TLC.                                         *)
EXTENDS Controller, TLC

CONSTANTS n1, n2, n3, c1, c2, c3, c4

(* Two founders on leaves 0 and 1, or three founders.                       *)
TwoFounders == 0 :> n1 @@ 1 :> n2
ThreeFounders == 0 :> n1 @@ 1 :> n2 @@ 2 :> n3

(* The order of the hashes; only a recovery with competing candidates can   *)
(* tell two orders apart.                                                   *)
MCHash == c1 :> 1 @@ c2 :> 2 @@ c3 :> 3 @@ c4 :> 4
MCHashUpto3 == [c \in Refs |-> MCHash[c]]

(* What the actions and the properties of the run with faults read: all but *)
(* the history of the authority's answers (acked, refused), which only      *)
(* Ordering and FencedSequencer state properties of.  States that agree on  *)
(* the view have the same successors and the same verdicts.                 *)
WithoutAnswers == <<log, nodeVars, netVars, decided, crashes>>

(* Bound on the commits of the run with faults: any three, by either node,  *)
(* and a fourth, c4, while n1 works alone and has published one GroupInfo.  *)
(* Four commits are what it takes to fill a slot that was passed over.      *)
FourthAlone ==
    c4 \in DOMAIN log =>
        /\ {c1, c2, c3} \subseteq DOMAIN log
        /\ tip[n2] = Genesis /\ sent = {} /\ Cardinality(published) = 1

(* In place of symmetry, for liveness: a commit takes the first ref that is *)
(* free.  Where recovery is given one candidate, refs are only compared for *)
(* equality, so another free ref leads to the same behaviours, renamed (up  *)
(* to the history of answers, which no action reads); and every step that   *)
(* some ref enables has a step left, so fairness means what it means        *)
(* without the constraint.                                                  *)
FirstFreeRef ==
    \A c \in DOMAIN log' \ DOMAIN log, d \in Refs \ DOMAIN log : Hash[c] <= Hash[d]
=============================================================================
