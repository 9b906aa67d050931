---------------------------- MODULE TogetherTime ----------------------------
(***************************************************************************)
(* Nearby-time estimates from two phones' location samples: the phones'    *)
(* encrypted queues (LocationSampler, LocationUploadWorker), the ingestion *)
(* and recomputation on the server (routes/together_time_v2.py,            *)
(* together_time_service.py) and the interval algorithm                    *)
(* (domain/location.py).                                                   *)
(*                                                                         *)
(* Time is counted in minutes and a sample is taken on the minute, so a    *)
(* minute bucket has one kind of evidence.  A place is a point on a line   *)
(* with an accuracy; the great-circle distance is the distance on it.      *)
(* Late batches arrive in any order and only the neighbourhood of their    *)
(* samples is computed again.                                              *)
(***************************************************************************)
EXTENDS Integers, FiniteSets, FiniteSetsExt

CONSTANTS
    Partners,       \* the two members
    PlacesOf,       \* the places each member's phone may report
    ClockAhead,     \* minutes each phone's clock is ahead of the server's
    Threshold,      \* proximity_threshold_m
    Fresh,          \* MAX_MUTUAL_EVIDENCE_AGE = MAX_SAMPLE_SKEW = MAX_COUNTED_INTERVAL
    Bridge,         \* MAX_BRIDGED_INTERVAL
    Horizon,        \* RECOMPUTE_HORIZON
    Keep,           \* age at which a raw sample expires
    DayLength,      \* minutes of a day
    LastMinute,     \* bound on the clock
    MaxFixes,       \* bound on samples taken and choices together
    BatchLimit,     \* rows of one upload
    QueueCap,       \* rows a phone keeps
    MaxChoices      \* bound on lost answers and changes of preference, timezone or total

ASSUME TogetherAssumption ==
    /\ IsFiniteSet(Partners) /\ Cardinality(Partners) = 2
    /\ ClockAhead \in [Partners -> Nat]
    /\ {Fresh, Bridge, Horizon, Keep, DayLength, LastMinute, BatchLimit, QueueCap} \subseteq Nat
    /\ 0 < Fresh /\ Fresh < Bridge /\ Bridge <= Horizon /\ Horizon < Keep
    /\ DayLength > 0 /\ BatchLimit > 0 /\ QueueCap > 0

VARIABLES
    minute,     \* the present minute
    sharing,    \* members with location_enabled
    fixQueue,   \* samples on each phone
    samples,    \* raw samples on the server
    minuteEvidence,    \* evidence stored for each minute
    dayTotals,       \* daily totals
    zone,       \* offset of the home timezone
    standing,    \* minutes counted when their raw samples were deleted
    moved,      \* the home timezone has been changed
    fixes, choices      \* counters for the bounds

togetherVars ==
    <<minute, sharing, fixQueue, samples, minuteEvidence, dayTotals, zone, standing,
      moved, fixes, choices>>

Minutes == 0..LastMinute

Samples ==
    UNION {[who : {p}, at : 0..(LastMinute + Fresh), place : PlacesOf[p]]
           : p \in Partners}

Evidence == {"observed", "bridged", "unverified", "apart", "poor_accuracy"}

CountedEvidence == {"observed", "bridged"}

\* The local day a minute belongs to in a timezone.
DayOf(m, z) == (m + z) \div DayLength

Days == 0..DayOf(LastMinute, 1)

\* An absent row reads as an estimate of zero.
DayRows == [stored : BOOLEAN, estimate : 0..(LastMinute + 1), corrected : {-1, 0},
            revision : Nat]

NoTotal == [stored |-> FALSE, estimate |-> 0, corrected |-> -1, revision |-> 0]

TogetherInit ==
    /\ minute = 0
    /\ sharing = Partners
    /\ fixQueue = [p \in Partners |-> {}]
    /\ samples = {}
    /\ minuteEvidence = [m \in Minutes |-> "none"]
    /\ dayTotals = [d \in Days |-> NoTotal]
    /\ zone = 0
    /\ standing = {}
    /\ moved = FALSE
    /\ fixes = 0 /\ choices = 0
-----------------------------------------------------------------------------
(* domain/location.py *)

Distance(s, t) == IF s.place.at > t.place.at THEN s.place.at - t.place.at
                  ELSE t.place.at - s.place.at

\* decide_proximity followed by the classification of _anchor.
Proximity(s, t) ==
    LET measured == Distance(s, t)
        uncertainty == s.place.accuracy + t.place.accuracy
        definite == measured + uncertainty <= Threshold
        likely == /\ measured <= Threshold
                  /\ s.place.accuracy <= Threshold /\ t.place.accuracy <= Threshold
    IN  CASE definite \/ likely -> "nearby"
          [] ~(definite \/ likely) /\ measured - uncertainty > Threshold -> "apart"
          [] OTHER -> "poor_accuracy"

SampleTimes(S) == {s.at : s \in S}

\* The newest sample of one member.
Best(S) == CHOOSE s \in S : \A t \in S : s.at >= t.at

Older(s, t) == IF s.at < t.at THEN s.at ELSE t.at

\* The state of the two streams once everything recorded up to t is known.
Anchor(S, t) ==
    LET known(p) == {s \in S : s.who = p /\ s.at <= t}
    IN  IF \E p \in Partners : known(p) = {} THEN "waiting_for_partner"
        ELSE LET left == CHOOSE p \in Partners : TRUE
                 s == Best(known(left))
                 u == Best(known(CHOOSE p \in Partners : p # left))
             IN  IF t - Older(s, u) > Fresh THEN "stale" ELSE Proximity(s, u)

\* The states at every instant of an observation.
Anchors(S) == [t \in SampleTimes(S) |-> Anchor(S, t)]

\* The evidence for the interval between two successive instants.
PairKind(A, p, c) ==
    CASE {A[p], A[c]} = {"nearby"} /\ c - p <= Fresh -> "observed"
      [] "apart" \in {A[p], A[c]} -> "apart"
      [] "apart" \notin {A[p], A[c]} /\ "poor_accuracy" \in {A[p], A[c]} -> "poor_accuracy"
      [] OTHER -> "unverified"

\* A gap between two successive nearby instants with nothing against it.
Bridged(A, m) ==
    \E p, c \in DOMAIN A :
        /\ p <= m /\ m < c
        /\ A[p] = "nearby" /\ A[c] = "nearby"
        /\ c - p > Fresh /\ c - p <= Bridge
        /\ \A t \in (p + 1)..(c - 1) :
              t \in DOMAIN A => A[t] \notin {"nearby", "apart", "poor_accuracy"}

\* The evidence for minute m: the interval it lies in, or the bridge over it.
Estimate(A, m) ==
    LET before == {t \in DOMAIN A : t <= m}
        after == {t \in DOMAIN A : t > m}
    IN  IF before = {} \/ after = {} THEN "none"
        ELSE LET kind == PairKind(A, Max(before), Min(after))
             IN  IF kind = "unverified" /\ Bridged(A, m) THEN "bridged" ELSE kind

\* live_projection: the state the screen shows while both share.
Projection(S, t) ==
    LET known == {s \in S : s.at <= t}
    IN  IF \E p \in Partners : ~\E s \in known : s.who = p THEN "waiting_for_partner"
        ELSE LET last == Max(SampleTimes(known))
                 mutual == Min({Max({s.at : s \in {x \in known : x.who = p}}) : p \in Partners})
                 earlier == SampleTimes(known) \ {last}
             IN  CASE Anchor(known, last) = "stale" \/ mutual + Fresh <= t -> "stale"
                   [] OTHER ->
                      IF Anchor(known, last) # "nearby" THEN Anchor(known, last)
                      ELSE IF /\ earlier # {}
                              /\ Anchor(known, Max(earlier)) = "nearby"
                              /\ last - Max(earlier) <= Fresh
                           THEN "nearby" ELSE "confirming"
-----------------------------------------------------------------------------
(* together_time_service.py *)

\* Mutant: only the minutes after the observation.
ImpactForward(t, now) ==
    {m \in Minutes : m >= t /\ m < t + Bridge /\ m >= now - Horizon /\ m < now}

\* Minutes that an observation at t may change, within the safe horizon.
Impact(t, now) ==
    {m \in Minutes : m >= t - Bridge /\ m < t + Bridge /\ m >= now - Horizon /\ m < now}

\* The merged ranges around the accepted observations.
Ranges(changed, now) ==
    LET cover == UNION {Impact(t, now) : t \in {x \in changed : x <= now /\ x >= now - Horizon}}
        stretches == {first..last : first \in {m \in cover : m - 1 \notin cover},
                               last \in {m \in cover : m + 1 \notin cover}}
    IN  {r \in stretches : r # {} /\ r \subseteq cover}

\* The samples a range is computed from.
Context(S, r, now) ==
    {s \in S : /\ s.at >= Min(r) - Bridge
               /\ s.at <= now /\ s.at <= Max(r) + 1 + Bridge}

\* Each range's buckets are deleted and written again.
Recomputed(S, changed, now) ==
    LET ranges == Ranges(changed, now)
        timeline == [r \in ranges |-> Anchors(Context(S, r, now))]
    IN  [m \in Minutes |->
            IF \E r \in ranges : m \in r
            THEN Estimate(timeline[CHOOSE r \in ranges : m \in r], m)
            ELSE minuteEvidence[m]]

CountedOn(stored, d, z) ==
    Cardinality({m \in Minutes : stored[m] \in CountedEvidence /\ DayOf(m, z) = d})

\* Daily totals of the touched days, explicit corrections kept.
SyncDailyTotals(stored, touched, z) ==
    [d \in Days |->
        IF d \in {DayOf(m, z) : m \in touched}
        THEN [dayTotals[d] EXCEPT !.stored = TRUE, !.estimate = CountedOn(stored, d, z)]
        ELSE dayTotals[d]]

\* The two newest samples of each member.
LatestStreams(S, now) ==
    {s \in S : s.at <= now
        /\ Cardinality({t \in S : t.who = s.who /\ t.at <= now /\ t.at > s.at}) < 2}

CurrentLiveProjection == Projection(LatestStreams(samples, minute), minute)

\* The total of the summary: a day's correction stands for its estimate.
ObservedMinutes ==
    MapThenSumSet(LAMBDA d : IF dayTotals[d].corrected = -1 THEN dayTotals[d].estimate
                             ELSE dayTotals[d].corrected, Days)
-----------------------------------------------------------------------------
(* Server requests; each holds the couple row's lock. *)

BothShare == sharing = Partners

\* _validate_sample_time
Acceptable(s) == s.at >= minute - Horizon /\ s.at <= minute + Fresh

\* The estimates around the changed instants, then the totals of their days.
RecomputeRecentProximity(S, changed) ==
    LET stored == Recomputed(S, changed, minute)
    IN  /\ minuteEvidence' = stored
        /\ dayTotals' = SyncDailyTotals(stored, UNION Ranges(changed, minute), zone)

\* Replays of stored samples are counted as duplicates; the rest is stored and
\* the estimates around it are computed again.
StoreBatch(batch) ==
    /\ samples' = samples \union batch
    /\ RecomputeRecentProximity(samples \union batch, SampleTimes(batch \ samples))

\* A step the bound MaxChoices counts.
Choice == choices < MaxChoices /\ fixes + choices < MaxFixes /\ choices' = choices + 1

\* Withdrawing consent deletes the couple's raw samples at once.
SetSharing(p) ==
    /\ Choice
    /\ IF p \in sharing
       THEN /\ sharing' = sharing \ {p}
            /\ samples' = {}
            /\ standing' = standing \union {m \in Minutes : minuteEvidence[m] \in CountedEvidence}
       ELSE sharing' = sharing \union {p} /\ UNCHANGED <<samples, standing>>
    /\ UNCHANGED <<minute, fixQueue, minuteEvidence, dayTotals, zone, moved, fixes>>

SetHomeTimezone ==
    /\ Choice
    /\ moved' = TRUE
    /\ zone' = 1 - zone
    /\ UNCHANGED <<minute, sharing, fixQueue, samples, minuteEvidence, dayTotals,
                   standing, fixes>>

\* A completed day is corrected to zero; a missing row is created first.
CorrectDay(d) ==
    /\ Choice
    /\ d < DayOf(minute, zone)
    /\ dayTotals' = [dayTotals EXCEPT ![d].corrected = 0, ![d].revision = @ + 1, ![d].stored = TRUE,
                            ![d].estimate = IF dayTotals[d].stored THEN @
                                            ELSE CountedOn(minuteEvidence, d, zone)]
    /\ UNCHANGED <<minute, sharing, fixQueue, samples, minuteEvidence, zone, standing, moved,
                   fixes>>

\* The administrator repartitions the retained history.
Reaggregate ==
    /\ moved
    /\ dayTotals' = SyncDailyTotals(minuteEvidence, 0..minute, zone)
    /\ UNCHANGED <<minute, sharing, fixQueue, samples, minuteEvidence, zone,
                   standing, fixes, moved, choices>>

ExpiredSamples == {s \in samples : s.at + Keep <= minute}

PurgeSamples ==
    /\ ExpiredSamples # {}
    /\ samples' = samples \ ExpiredSamples
    /\ standing' = standing \union {m \in Minutes : minuteEvidence[m] \in CountedEvidence}
    /\ UNCHANGED <<minute, sharing, fixQueue, minuteEvidence, dayTotals, zone, fixes,
                   moved, choices>>
-----------------------------------------------------------------------------
(* The phones. *)

Newest(rows, n) == {s \in rows : Cardinality({t \in rows : t.at > s.at}) < n}

\* A fix is queued when the server grants consent or cannot be asked; a refusal
\* empties the queue.  The fix may carry a clock slightly ahead of the server's.
Collect(p, place, ahead) ==
    /\ fixes + choices < MaxFixes
    /\ ~\E s \in fixQueue[p] \union samples : s.who = p /\ s.at = minute + ahead
    /\ fixQueue' = [fixQueue EXCEPT ![p] =
            Newest(@ \union {[who |-> p, at |-> minute + ahead, place |-> place]}, QueueCap)]
    /\ fixes' = fixes + 1
    /\ UNCHANGED <<minute, sharing, samples, minuteEvidence, dayTotals, zone, standing,
                   moved, choices>>

ConsentDenied(p) ==
    /\ ~BothShare /\ fixQueue[p] # {}
    /\ fixQueue' = [fixQueue EXCEPT ![p] = {}]
    /\ UNCHANGED <<minute, sharing, samples, minuteEvidence, dayTotals, zone,
                   standing, fixes, moved, choices>>

OldestBatch(p) ==
    {s \in fixQueue[p] :
        Cardinality({t \in fixQueue[p] : t.at < s.at}) < BatchLimit}

\* The batch is stored and acknowledged, or its answer is lost and it is sent again.
Upload(p) ==
    /\ BothShare /\ OldestBatch(p) # {}
    /\ \A s \in OldestBatch(p) : Acceptable(s)
    /\ StoreBatch(OldestBatch(p))
    /\ \/ /\ fixQueue' = [fixQueue EXCEPT ![p] = @ \ OldestBatch(p)]
          /\ UNCHANGED choices
       \/ Choice /\ UNCHANGED fixQueue
    /\ UNCHANGED <<minute, sharing, zone, standing, fixes, moved>>

\* A batch that was refused is sent row by row; a refused row is dropped (a row
\* past the queue's own age limit is older still and goes the same way).
IsolateInvalidRow(p) ==
    /\ BothShare
    /\ \E s \in OldestBatch(p) : ~Acceptable(s)
    /\ \E s \in OldestBatch(p) :
          /\ \A t \in OldestBatch(p) : s.at <= t.at
          /\ IF Acceptable(s) THEN StoreBatch({s})
             ELSE UNCHANGED <<samples, minuteEvidence, dayTotals>>
          /\ fixQueue' = [fixQueue EXCEPT ![p] = @ \ {s}]
    /\ UNCHANGED <<minute, sharing, zone, standing, fixes, moved, choices>>

NextMinute ==
    /\ minute < LastMinute
    /\ minute' = minute + 1
    /\ UNCHANGED <<sharing, fixQueue, samples, minuteEvidence, dayTotals, zone,
                   standing, fixes, moved, choices>>

TogetherNext ==
    \/ \E p \in Partners :
          \/ SetSharing(p) \/ ConsentDenied(p) \/ Upload(p) \/ IsolateInvalidRow(p)
          \/ \E place \in PlacesOf[p] : Collect(p, place, ClockAhead[p])
    \/ \E d \in Days : CorrectDay(d)
    \/ SetHomeTimezone \/ Reaggregate \/ PurgeSamples \/ NextMinute

TogetherSpec == TogetherInit /\ [][TogetherNext]_togetherVars
-----------------------------------------------------------------------------
\* Every variable has its type.
TogetherTypeOK ==
    /\ minute \in Minutes
    /\ sharing \subseteq Partners
    /\ \A p \in Partners : \A s \in fixQueue[p] : s.who = p
    /\ samples \subseteq Samples
    /\ minuteEvidence \in [Minutes -> Evidence \union {"none"}]
    /\ dayTotals \in [Days -> DayRows]
    /\ zone \in {0, 1}
    /\ standing \subseteq Minutes

\* However late and in whatever order the batches arrive, a minute within the
\* safe horizon counts only if the whole timeline of the retained samples counts
\* it: contrary evidence that arrives later takes back every such minute it
\* contradicts (recompute_recent_proximity).  Older minutes, and those whose
\* samples are gone, stand.
CountedTimeIsProven ==
    LET timeline == Anchors({s \in samples : s.at <= minute})
    IN  \A m \in Minutes \ standing :
            m >= minute - Horizon /\ minuteEvidence[m] \in CountedEvidence =>
                Estimate(timeline, m) \in CountedEvidence

\* The live state, derived from the two newest samples of each member, is the
\* state the whole timeline gives (current_live_projection).
LiveAgreesWithHistory == CurrentLiveProjection = Projection(samples, minute)

\* While the couple keeps its timezone, batches that reach back over midnight
\* leave both days' rows in agreement with their minutes, corrected or not, so
\* the summary counts every minute once (_sync_daily_totals, _observed_seconds).
DayTotalsMatch ==
    ~moved =>
        /\ \A d \in Days : dayTotals[d].estimate = CountedOn(minuteEvidence, d, zone)
        /\ ObservedMinutes =
               Cardinality({m \in Minutes : /\ minuteEvidence[m] \in CountedEvidence
                                           /\ dayTotals[DayOf(m, zone)].corrected = -1})

\* Time together is what the retained samples prove, live, per minute and per day,
\* whatever the order in which the two phones upload (together_time_service.py,
\* domain/location.py).
TogetherTimeIsProven ==
    CountedTimeIsProven /\ LiveAgreesWithHistory /\ DayTotalsMatch
=============================================================================
