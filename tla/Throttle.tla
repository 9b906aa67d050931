------------------------------ MODULE Throttle ------------------------------
(***************************************************************************)
(* The fixed-window throttle in front of sign-in, registration and         *)
(* recovery (rate_limit.py): an ordered pair of rules, the client address  *)
(* first and the subject second, each one counter row in the database.     *)
(* One request's rules run in one transaction of their own, so a request   *)
(* is one action; counters are kept whether or not the request succeeds.   *)
(***************************************************************************)
EXTENDS Integers, FiniteSets, FiniteSetsExt

CONSTANTS
    Clients,        \* client addresses
    Subjects,       \* hashed email addresses
    ClientLimit,    \* requests of one address per window
    SubjectLimit,   \* requests for one subject per window
    RateWindow,     \* length of the window
    Retention,      \* a counter untouched for 24 hours is purged
    RateEnd,        \* bound on the clock
    MaxPerInstant   \* bound on the requests at one instant

ASSUME ThrottleAssumption ==
    /\ {ClientLimit, SubjectLimit, RateWindow, MaxPerInstant} \subseteq Nat \ {0}
    /\ RateEnd \in Nat /\ Retention \in Nat
    /\ RateWindow <= Retention

VARIABLES
    rateNow,    \* the clock
    buckets,    \* counter row of each rule subject, NoBucket where there is none
    passed,     \* history: requests let through per rule subject, each its instant and
                \* its number among those of that instant
    asked       \* requests made at this instant, to bound them

throttleVars == <<rateNow, buckets, passed, asked>>

RateKeys == ({"ip"} \X Clients) \cup ({"subject"} \X Subjects)
LimitOf(k) == IF k[1] = "ip" THEN ClientLimit ELSE SubjectLimit
NoBucket == [started |-> 0, count |-> 0, updated |-> 0]

BucketRows ==
    [started : 0..RateEnd, count : 0..(Max({ClientLimit, SubjectLimit}) + 1),
     updated : 0..RateEnd]

ThrottleInit ==
    /\ rateNow = 0
    /\ buckets = [k \in RateKeys |-> NoBucket]
    /\ passed = [k \in RateKeys |-> {}]
    /\ asked = 0

\* Mutant: a window ends one instant early.
WindowOverEarly(row) == row.count > 0 /\ row.started <= rateNow - RateWindow + 1

WindowOver(row) == row.count > 0 /\ row.started <= rateNow - RateWindow

\* The row of a counted request, never past one more than the limit.
CountedRow(row, limit) ==
    IF row.count = 0
    THEN [started |-> rateNow, count |-> 1, updated |-> rateNow]
    ELSE [row EXCEPT !.count = Min({@ + 1, limit + 1}), !.updated = rateNow]

\* Every expired row of the scope is deleted, then the row of this subject is
\* inserted or its count raised.
ConsumeRule(rows, k) ==
    LET kept == [q \in RateKeys |->
                    IF q[1] = k[1] /\ WindowOver(rows[q]) THEN NoBucket ELSE rows[q]]
    IN  [kept EXCEPT ![k] = CountedRow(kept[k], LimitOf(k))]

Within(rows, k) == rows[k].count <= LimitOf(k)

\* The requests let through from instant a on, before instant b.
Between(P, a, b) == {p \in P : a <= p[1] /\ p[1] < b}

LetThrough(P) == P \cup {<<rateNow, Cardinality(Between(P, rateNow, rateNow + 1))>>}

\* A request: the subject is counted only once the address has passed.
AskThrottle(client, subject) ==
    LET ip    == <<"ip", client>>
        mail  == <<"subject", subject>>
        first == ConsumeRule(buckets, ip)
        both  == ConsumeRule(first, mail)
    IN  /\ asked < MaxPerInstant
        /\ asked' = asked + 1
        /\ \/ /\ ~Within(first, ip)
              /\ buckets' = first
              /\ UNCHANGED passed
           \/ /\ Within(first, ip)
              /\ buckets' = both
              /\ passed' = IF Within(both, mail)
                           THEN [k \in RateKeys |-> IF k \in {ip, mail} THEN LetThrough(passed[k])
                                                 ELSE passed[k]]
                           ELSE passed
        /\ UNCHANGED rateNow

\* purge_rate_limit_state, called by privacy maintenance.
PurgeBuckets ==
    /\ \E k \in RateKeys :
          buckets[k].count > 0 /\ buckets[k].updated <= rateNow - Retention
    /\ buckets' = [k \in RateKeys |->
          IF buckets[k].updated <= rateNow - Retention THEN NoBucket ELSE buckets[k]]
    /\ UNCHANGED <<rateNow, passed, asked>>

RateTick ==
    /\ rateNow < RateEnd
    /\ rateNow' = rateNow + 1
    /\ asked' = 0
    /\ UNCHANGED <<buckets, passed>>

ThrottleNext ==
    \/ \E c \in Clients, s \in Subjects : AskThrottle(c, s)
    \/ PurgeBuckets
    \/ RateTick

ThrottleSpec == ThrottleInit /\ [][ThrottleNext]_throttleVars

-----------------------------------------------------------------------------

\* Every variable has its type.
ThrottleTypeOK ==
    /\ rateNow \in 0..RateEnd
    /\ buckets \in [RateKeys -> BucketRows]
    /\ \A k \in RateKeys : passed[k] \subseteq (0..RateEnd) \X Nat
    /\ asked \in 0..MaxPerInstant

\* Counting by fixed windows lets less than twice the limit through in any
\* interval as long as a window, across a window's edge included: no deletion of
\* expired rows, by this subject, another one or the purge, forgets requests that
\* still count (_consume_rule, purge_rate_limit_state).
ThrottleHolds ==
    \A k \in RateKeys, t \in 0..RateEnd :
        Cardinality(Between(passed[k], t, t + RateWindow)) <= 2 * LimitOf(k) - 1
=============================================================================
