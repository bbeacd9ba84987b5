---------------------------- MODULE PeerComparison ----------------------------
(***************************************************************************)
(* The comparison of a platform's route with those of its peers            *)
(* (core/peerComparison.ts), and the cohorts that the corpus build calls   *)
(* qualified for it (scripts/build-corpus-health.mjs).                     *)
(*                                                                         *)
(* A platform is [published, valid, organization, basis, value]: whether   *)
(* the publication gate lets it through, whether its graph has no finding, *)
(* the organization of its record, the comparison basis of its graph and   *)
(* one of the four counts of its route.  Time is in half days: a review is *)
(* dated by day, and the requests come at any hour.                        *)
(***************************************************************************)
EXTENDS Integers, Sequences, FiniteSets, SequencesExt

CONSTANTS Rows,            \* the platforms, in the order of their slugs
          FirstPlatforms,  \* what may be deployed at first
          ReviewsOf(_),    \* what one review makes of a platform
          Lowered, Normalized, \* keys of organizations: lower case; words only
          CohortKey, Participants, \* the candidate cohort
          ComparisonDays,  \* COMPARISON_FRESHNESS_DAYS
          MIN_QUALIFIED_PEERS,
          MaxReviews, MaxHalfDays

ASSUME RowsDistinct ==
  /\ Rows \in Seq(ToSet(Rows)) /\ Participants \subseteq ToSet(Rows)
  /\ IsInjective(Rows)

\* A cohort of four leaves each of its routes three peers.
ASSUME PeerLimits == MIN_QUALIFIED_PEERS \in 1..3 /\ ComparisonDays \in Nat

VARIABLES platforms, now, reviews

peerVars == <<platforms, now, reviews>>

Slugs == ToSet(Rows)
------------------------------------------------------------------------------
(* Who qualifies                                                           *)

\* Counted in whole days.
validFreshnessDay(day) == 2 * day <= now /\ now \div 2 <= day + ComparisonDays

\* Of today or at most so many days ago, to the hour.
validFreshnessDate(day) == 2 * day <= now /\ now <= 2 * day + 2 * ComparisonDays

validBasis(p) ==
  /\ p.basis.complete
  /\ p.basis.classAgrees   \* with the boundary of the graph
  /\ p.basis.organizationKey = Lowered[p.organization]
  /\ validFreshnessDate(p.basis.day)

qualified(s) ==
  LET p == platforms[s] IN p.published /\ p.valid /\ validBasis(p)

\* The six keys that must be equal, as one.
compatible(s, t) == platforms[s].basis.key = platforms[t].basis.key

\* May be a peer of the subject, as far as the two are concerned.
eligiblePeer(subject, s) == s # subject /\ qualified(s) /\ compatible(subject, s)

\* An organization or a documentation set that was seen before.
collides(s, earlier) ==
  \E t \in earlier :
    \/ platforms[s].basis.organizationKey = platforms[t].basis.organizationKey
    \/ platforms[s].basis.documentationSetKey = platforms[t].basis.documentationSetKey
------------------------------------------------------------------------------
(* buildPeerComparison                                                     *)

\* In the order of their slugs, each unless it collides with one before it.
peers(subject) ==
  LET upTo[n \in 0..Len(Rows)] ==
        IF n = 0 THEN <<>>
        ELSE IF /\ eligiblePeer(subject, Rows[n])
                /\ ~collides(Rows[n], {subject} \cup ToSet(upTo[n - 1]))
             THEN Append(upTo[n - 1], Rows[n]) ELSE upTo[n - 1]
  IN  upTo[Len(Rows)]

comparable(subject) ==
  qualified(subject) /\ Len(peers(subject)) >= MIN_QUALIFIED_PEERS

\* The k-th of the values in ascending order.
ascending(values, k) ==
  CHOOSE v \in ToSet(values) :
    /\ Cardinality({i \in DOMAIN values : values[i] < v}) < k
    /\ Cardinality({i \in DOMAIN values : values[i] <= v}) >= k

\* Twice the median, which may lie between two values.
twiceMedian(values) ==
  LET middle == Len(values) \div 2
  IN  IF Len(values) % 2 = 0 THEN ascending(values, middle) + ascending(values, middle + 1)
      ELSE 2 * ascending(values, middle + 1)

valuesOf(shown) == [k \in DOMAIN shown |-> platforms[shown[k]].value]

position(subject) ==
  LET own == 2 * platforms[subject].value
      theirs == twiceMedian(valuesOf(peers(subject)))
  IN  IF own < theirs THEN "below" ELSE IF own > theirs THEN "above" ELSE "at"
------------------------------------------------------------------------------
(* The cohorts of the corpus build                                         *)

comparisonQualified(s) ==
  LET p == platforms[s]
  IN  /\ p.published /\ p.basis.key = CohortKey
      /\ p.basis.organizationKey = Normalized[p.organization]

\* The cohort is qualified; its routes count as routes_with_three_qualified_peers.
cohortQualified ==
  /\ \A s, t \in Participants :
       s # t => Normalized[platforms[s].organization] # Normalized[platforms[t].organization]
  /\ Cardinality(Participants) >= 4
  /\ \A s \in Participants : comparisonQualified(s)
------------------------------------------------------------------------------
PeerInit == platforms \in FirstPlatforms /\ now = 0 /\ reviews = 0

\* The files of one platform change and are deployed.
Review(s) ==
  /\ reviews < MaxReviews /\ reviews' = reviews + 1
  /\ \E p \in ReviewsOf(platforms[s]) : platforms' = [platforms EXCEPT ![s] = p]
  /\ UNCHANGED now

Wait == now < MaxHalfDays /\ now' = now + 1 /\ UNCHANGED <<platforms, reviews>>

PeerNext == Wait \/ \E s \in Slugs : Review(s)

PeerSpec == PeerInit /\ [][PeerNext]_peerVars
------------------------------------------------------------------------------
(* Properties                                                              *)

\* What a comparison says of itself (COMPARISON_CRITERIA): the peers have the
\* subject's job, boundaries, granularity and category; they and the subject
\* are of different organizations with different documentation; and no review
\* is older than ComparisonDays at the hour of the request.
CriteriaHold ==
  \A subject \in Slugs : comparable(subject) =>
    LET all == {subject} \cup ToSet(peers(subject))
    IN  /\ Cardinality(all) > MIN_QUALIFIED_PEERS
        /\ \A s \in all : /\ platforms[s].published /\ platforms[s].valid
                          /\ now - 2 * platforms[s].basis.day \in 0..(2 * ComparisonDays)
        /\ \A s, t \in all : s # t =>
             /\ platforms[s].basis.key = platforms[t].basis.key
             /\ platforms[s].organization # platforms[t].organization
             /\ platforms[s].basis.documentationSetKey # platforms[t].basis.documentationSetKey

\* A route that qualifies is left out of a comparison only because it shares
\* an organization or a documentation set with a route that is in it.
LeftOutCollides ==
  \A subject \in Slugs : qualified(subject) =>
    LET compared == {subject} \cup ToSet(peers(subject))
    IN  \A s \in Slugs \ compared : eligiblePeer(subject, s) => collides(s, compared)

\* Above the median there are at least as many peers with lower values as
\* others, and the other way round (median, position).
PositionIsMajority ==
  \A subject \in Slugs : comparable(subject) =>
    LET shown == peers(subject)
        own == platforms[subject].value
        lower == Cardinality({k \in DOMAIN shown : platforms[shown[k]].value < own})
        higher == Cardinality({k \in DOMAIN shown : platforms[shown[k]].value > own})
    IN  /\ position(subject) = "above" => 2 * lower >= Len(shown)
        /\ position(subject) = "below" => 2 * higher >= Len(shown)
        /\ position(subject) = "at" => 2 * lower <= Len(shown) /\ 2 * higher <= Len(shown)

\* When the build calls the candidate cohort qualified, every route of it has
\* its comparison, provided the build and the service spell the keys of its
\* organizations alike, the reviews are recent, and its documentation is shared
\* with no route it is comparable to: an outsider with the organization of one
\* route and the documentation of another takes the place of both
\* (candidateCohorts; comparePeerRoutes).
CertifiedIsCompared ==
  /\ cohortQualified
  /\ \A s \in Participants :
       LET p == platforms[s]
       IN  /\ Normalized[p.organization] = Lowered[p.organization]
           /\ p.valid /\ p.basis.complete /\ p.basis.classAgrees /\ validFreshnessDate(p.basis.day)
           /\ \A t \in Slugs : eligiblePeer(s, t) =>
                p.basis.documentationSetKey # platforms[t].basis.documentationSetKey
  => \A s \in Participants : comparable(s)

\* A comparison meets its own criteria, leaves out nobody it could have kept,
\* and takes the side of the majority, whatever reviews and the clock do.
PeersStand ==
  /\ CriteriaHold
  /\ LeftOutCollides
  /\ CertifiedIsCompared
  /\ PositionIsMajority
==============================================================================
