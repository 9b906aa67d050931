--------------------------- MODULE WatchAuthority ---------------------------
(***************************************************************************)
(* Private relationship content on a watch. The phone keeps a relationship *)
(* identity (RelationshipDisplayIdentity) and the one watch it manages     *)
(* (ManagedWatchStore), each with a generation that only grows, and        *)
(* publishes data items; the watch accepts an item only when two guards    *)
(* agree (WearTargetGuard, WearRelationshipGuard).                         *)
(*                                                                         *)
(* The data layer keeps the latest item of each path and delivers paths in *)
(* any order. One item is delivered at a time: the handler applies a       *)
(* buffer of several one by one, purges first. The three unmanaged purge   *)
(* paths carry the same marker and are one path here. One phone and the    *)
(* watch Local are modelled; another watch is only a name. Texts and photos *)
(* are left out: content is named by what authorised it. The preferences   *)
(* item, guarded like the display item, is left out too.                   *)
(***************************************************************************)
EXTENDS Integers, FiniteSets

CONSTANTS
    Local, OtherWatch,  \* node names of this watch and of another one
    Couples,            \* relationships the account can have
    NoOne,              \* the blank relationship or node name
    Expiry,             \* EXPIRY_MILLIS, in ticks of the clock
    MaxClock,           \* bound of the model: ticks
    MaxGen,             \* bound of the model: generations of the relationship
    MaxTargets          \* bound of the model: generations of the managed watch

ASSUME WatchAssumption ==
    /\ Local # OtherWatch /\ NoOne \notin Couples \cup {Local, OtherWatch}
    /\ Expiry \in Nat \ {0} /\ MaxClock \in Nat \ {0} /\ {MaxGen, MaxTargets} \subseteq Nat \ {0}

VARIABLES
    clock,    \* shared by phone and watch
    identity, \* RelationshipDisplayIdentity of the phone
    managed,  \* ManagedWatchStore of the phone: node and generation
    sync,     \* DisplayCacheSynchronizer.refresh: what it has read so far
    items,    \* the latest data item of every path, forgotten once received
    fresh,    \* paths whose latest item the watch has not received
    guard,    \* WearRelationshipGuard's persisted state
    aim,      \* WearTargetGuard's persisted state
    content,  \* what is stored on the watch, by kind, named by its authority
    fetches,  \* photo transfers under way on the watch
    purged    \* history: highest relationship generation purged on the watch

watchVars == <<clock, identity, managed, sync, items, fresh, guard, aim, content,
               fetches, purged>>
phoneSide == <<identity, managed, sync, items>>
watchSide == <<guard, aim, content, fetches, purged>>

Paths == {"display", "profile", "purge", "mpurge", "v1"}
Kinds == {"display", "names", "photo", "queue"}
GuardStatuses == {"NONE", "LEGACY", "ACTIVE", "EXPIRED", "PURGED"}
NoSync == [stage |-> "idle"]
Cleared == [k \in Kinds |-> {}]
NoItem == [rel |-> NoOne, gen |-> 0, active |-> FALSE, node |-> NoOne, wgen |-> 0, at |-> 0]

WatchTypeOK ==
    /\ clock \in 1..MaxClock
    /\ identity.gen \in 0..MaxGen /\ identity.active \in BOOLEAN
    /\ managed.node \in {NoOne, Local, OtherWatch} /\ managed.gen \in Nat
    /\ sync.stage \in {"idle", "asked", "checked"}
    /\ fresh \subseteq Paths
    /\ guard.status \in GuardStatuses /\ guard.gen \in 0..MaxGen
    /\ aim.gen \in 0..managed.gen
    /\ DOMAIN content = Kinds

\* A watch that an earlier phone app may already have filled.
WatchInit ==
    /\ clock = 1
    /\ identity = [rel |-> NoOne, gen |-> 0, active |-> FALSE]
    /\ managed = [node |-> NoOne, gen |-> 0]
    /\ sync = NoSync
    /\ items = [p \in Paths |-> NoItem]
    /\ fresh = {}
    /\ guard \in {[rel |-> NoOne, gen |-> 0, status |-> "NONE", auth |-> 0],
                  [rel |-> NoOne, gen |-> 0, status |-> "LEGACY", auth |-> 1]}
    /\ aim = [node |-> NoOne, gen |-> 0, controlled |-> FALSE]
    /\ content = IF guard.status = "NONE" THEN Cleared
                 ELSE [Cleared EXCEPT !["display"] = {[rel |-> NoOne, gen |-> 0, wgen |-> 0]}]
    /\ fetches = {}
    /\ purged = 0

-----------------------------------------------------------------------------
(* The phone.                                                               *)

\* nextGeneration: the wall clock only makes the step larger.
NextGeneration(g) == g + 1

Purged(i) == [i EXCEPT !.gen = NextGeneration(@), !.active = FALSE]
Activated(i, rel) ==
    IF i.active /\ i.rel = rel THEN i
    ELSE [rel |-> rel, gen |-> NextGeneration(i.gen), active |-> TRUE]

\* A managed item for identity i and managed watch m.
ItemFor(i, m, active) ==
    [rel |-> i.rel, gen |-> i.gen, active |-> active, node |-> m.node, wgen |-> m.gen,
     at |-> clock]

\* WearProfilePublisher.publish
PublishedProfile(board, i, m) ==
    [p \in Paths |->
        CASE p = "profile" /\ m.node # NoOne -> ItemFor(i, m, i.active)
          [] p = "purge" /\ ~i.active -> ItemFor(i, [node |-> NoOne, gen |-> 0], FALSE)
          [] OTHER -> board[p]]

\* WearCachePublisher.clear and WearProfilePublisher.clear for the purged identity i.
ClearedBoard(board, i, m) ==
    [p \in Paths |->
        CASE p = "purge" -> ItemFor(i, [node |-> NoOne, gen |-> 0], FALSE)
          [] p \in {"mpurge", "profile"} /\ m.node # NoOne -> ItemFor(i, m, FALSE)
          [] p = "v1" -> NoItem
          [] OTHER -> board[p]]

\* Every path whose item is put again is delivered (again).
Publish(board, paths) == items' = board /\ fresh' = fresh \cup paths
ClearPaths(m) == {"purge", "v1"} \cup (IF m.node = NoOne THEN {} ELSE {"mpurge", "profile"})

\* DisplayCacheSynchronizer.clear, on sign-out, unpairing, or an inactive answer.
ClearDisplay ==
    /\ identity' = Purged(identity)
    /\ Publish(ClearedBoard(items, identity', managed), ClearPaths(managed))

SignOut ==
    /\ identity.gen < MaxGen
    /\ ClearDisplay
    /\ UNCHANGED <<clock, managed, sync, watchSide>>

\* DisplayCacheSynchronizer.refresh: the identity is read and the server asked for the
\* account's relationship ...
RefreshStart ==
    /\ sync = NoSync
    /\ \E c \in Couples \cup {NoOne} :
            sync' = [stage |-> "asked", seen |-> identity, found |-> c]
    /\ UNCHANGED <<clock, identity, managed, items, fresh, watchSide>>

\* ... the answer is dropped if the identity has changed ...
RefreshCheck ==
    /\ sync.stage = "asked"
    /\ \/ /\ identity # sync.seen
          /\ sync' = NoSync /\ UNCHANGED <<identity, items, fresh>>
       \/ /\ identity = sync.seen /\ sync.found = NoOne /\ identity.gen < MaxGen
          /\ sync' = NoSync /\ ClearDisplay
       \/ /\ identity = sync.seen /\ sync.found # NoOne
          /\ sync' = [sync EXCEPT !.stage = "checked"] /\ UNCHANGED <<identity, items, fresh>>
    /\ UNCHANGED <<clock, managed, watchSide>>

\* ... and otherwise activated and published.
RefreshPublish ==
    /\ sync.stage = "checked" /\ identity.gen < MaxGen
    /\ sync' = NoSync
    /\ identity' = Activated(identity, sync.found)
    /\ IF managed.node = NoOne THEN UNCHANGED <<items, fresh>>
       ELSE Publish([items EXCEPT !["display"] = ItemFor(identity', managed, TRUE)], {"display"})
    /\ UNCHANGED <<clock, managed, watchSide>>

\* rotateRelationshipBarrier: purge and activate again, for a new generation.
Rotated(i) == IF i.active THEN Activated(Purged(i), i.rel) ELSE i
RotatedBoard(i) == IF i.active THEN ClearedBoard(items, Purged(i), managed) ELSE items
RotatedPaths(i) == IF i.active THEN ClearPaths(managed) ELSE {}

\* ManagedWatchStore.select and clearTarget
Selected(n) ==
    [node |-> n, gen |-> IF managed.node = n THEN managed.gen ELSE NextGeneration(managed.gen)]
TargetCleared == [node |-> NoOne, gen |-> NextGeneration(managed.gen)]

\* WearCachePublisher.clearTarget: it carries no relationship generation.
TargetPurge(n, g) == [NoItem EXCEPT !.node = n, !.wgen = g, !.at = clock]

\* ManagedWatchCoordinator.select, or updatePreferences when n is already managed.
SelectWatch(n) ==
    /\ identity.gen + 2 <= MaxGen /\ managed.gen < MaxTargets
    /\ LET other == managed.node # n IN
       /\ identity' = IF other THEN Rotated(identity) ELSE identity
       /\ managed' = Selected(n)
       /\ Publish(PublishedProfile(IF other THEN RotatedBoard(identity) ELSE items,
                                   identity', managed'),
                  (IF other THEN RotatedPaths(identity) ELSE {})
                      \cup {"profile"} \cup (IF identity'.active THEN {} ELSE {"purge"}))
    /\ UNCHANGED <<clock, sync, watchSide>>

\* ManagedWatchCoordinator.prepareRemoval: the purge for the removed watch replaces the
\* one that the rotation has put.
RemoveWatch ==
    /\ managed.node # NoOne /\ identity.gen + 2 <= MaxGen /\ managed.gen < MaxTargets
    /\ identity' = Rotated(identity)
    /\ managed' = TargetCleared
    /\ Publish([RotatedBoard(identity) EXCEPT !["mpurge"] =
                    TargetPurge(managed.node, managed'.gen)],
               RotatedPaths(identity) \cup {"mpurge"})
    /\ UNCHANGED <<clock, sync, watchSide>>

-----------------------------------------------------------------------------
(* WearRelationshipPolicy: a transition is the next state, whether the item *)
(* is accepted and whether stored content is cleared first.                 *)

Readable(s) == s.status \in {"ACTIVE", "LEGACY"}
ExpiredAt(at) == at + Expiry <= clock
Refused(s) == [state |-> s, accepted |-> FALSE, clear |-> FALSE]
Granted(s, clear) == [state |-> s, accepted |-> TRUE, clear |-> clear]

TooOld(s, m) ==
    IF m.gen = s.gen /\ s.status = "EXPIRED" THEN Refused(s)
    ELSE [state |-> [rel |-> m.rel, gen |-> m.gen, status |-> "EXPIRED", auth |-> m.at],
          accepted |-> FALSE, clear |-> TRUE]

\* acceptActive
AcceptActive(s, m) ==
    CASE m.gen = 0 \/ m.gen < s.gen -> Refused(s)
      [] m.gen = s.gen /\ (s.status = "PURGED" \/ s.rel \notin {NoOne, m.rel}) -> Refused(s)
      [] m.gen = s.gen /\ s.rel \in {NoOne, m.rel} /\ ExpiredAt(m.at)
            /\ Readable(s) /\ ~ExpiredAt(s.auth) -> Granted(s, FALSE)
      [] m.gen = s.gen /\ s.status # "PURGED" /\ s.rel \in {NoOne, m.rel} /\ ~ExpiredAt(m.at)
            -> Granted([rel |-> m.rel, gen |-> m.gen, status |-> "ACTIVE",
                        auth |-> IF s.auth > m.at THEN s.auth ELSE m.at], s.status # "ACTIVE")
      [] m.gen > s.gen /\ ~ExpiredAt(m.at)
            -> Granted([rel |-> m.rel, gen |-> m.gen, status |-> "ACTIVE", auth |-> m.at], TRUE)
      [] OTHER -> TooOld(s, m)

\* purge, and purgeLegacy for an item without a generation
PurgeTransition(s, m) ==
    IF m.gen = 0 \/ m.gen < s.gen THEN Refused(s)
    ELSE Granted([rel |-> m.rel, gen |-> m.gen, status |-> "PURGED", auth |-> clock], TRUE)
PurgeLegacy(s) ==
    IF s.gen > 0 THEN Refused(s)
    ELSE Granted([rel |-> NoOne, gen |-> 0, status |-> "EXPIRED", auth |-> clock], TRUE)

ExpireTransition(s) ==
    IF Readable(s) /\ ExpiredAt(s.auth) THEN Granted([s EXCEPT !.status = "EXPIRED"], TRUE)
    ELSE Refused(s)

\* apply: content is cleared before the new state is persisted.
After(t, stored) == IF t.clear THEN Cleared ELSE stored
StateAfter(t, s) == IF t.accepted \/ t.clear THEN t.state ELSE s

(* WearControllerPolicy.decide *)
Decide(m) ==
    CASE m.wgen < aim.gen -> [accepted |-> FALSE, clear |-> FALSE, next |-> aim]
      [] m.wgen >= aim.gen /\ m.node # Local ->
            IF m.wgen > aim.gen
            THEN [accepted |-> FALSE, clear |-> TRUE,
                  next |-> [node |-> NoOne, gen |-> m.wgen, controlled |-> FALSE]]
            ELSE [accepted |-> FALSE, clear |-> FALSE, next |-> aim]
      [] OTHER -> [accepted |-> TRUE, clear |-> m.wgen > aim.gen \/ aim.node # Local,
                   next |-> [node |-> Local, gen |-> m.wgen, controlled |-> TRUE]]

Owner(m) == [rel |-> m.rel, gen |-> m.gen, wgen |-> m.wgen]

\* Store an item that both guards accept: storeManagedDisplay and storeManagedProfile. A
\* profile's photo is fetched later.
Store(p, m) ==
    LET d == Decide(m)
        t == AcceptActive(guard, m)
        base == After(t, IF d.clear THEN Cleared ELSE content)
    IN IF m.node = NoOne \/ m.wgen = 0 \/ ~t.accepted
       THEN UNCHANGED <<guard, aim, content, fetches>>
       ELSE /\ aim' = d.next
            /\ IF ~d.accepted
               THEN /\ content' = IF d.clear THEN Cleared ELSE content
                    /\ UNCHANGED <<guard, fetches>>
               ELSE /\ guard' = StateAfter(t, guard)
                    /\ content' = [base EXCEPT ![IF p = "profile" THEN "names" ELSE p] =
                                                    {Owner(m)}]
                    /\ fetches' = IF p = "profile"
                                  THEN fetches \cup {[owner |-> Owner(m), checked |-> FALSE]}
                                  ELSE fetches

\* WearTargetGuard.purge, and what it and authorizesManagedPurge require.
PurgesTarget(m) == m.wgen > 0 /\ m.wgen >= aim.gen
PurgedAim(m) == [node |-> NoOne, gen |-> m.wgen, controlled |-> FALSE]
PurgeAllowed(p, m) == p = "purge" \/ (m.node = Local /\ PurgesTarget(m))

\* The purge paths, and a profile published without a relationship.
IsPurge(p, m) == p \in {"purge", "mpurge"} \/ (p = "profile" /\ ~m.active)

\* WearSyncService.purge
PurgeWatch(p, m) ==
    LET ofTarget == PurgesTarget(m)
        t == PurgeTransition(guard, m)
    IN IF ~PurgeAllowed(p, m) THEN UNCHANGED <<guard, aim, content, fetches, purged>>
       ELSE /\ content' = After(t, IF ofTarget THEN Cleared ELSE content)
            /\ aim' = CASE ofTarget -> PurgedAim(m)
                        [] ~ofTarget /\ t.accepted -> [aim EXCEPT !.controlled = FALSE]
                        [] OTHER -> aim
            /\ guard' = StateAfter(t, guard)
            /\ purged' = IF m.gen > purged THEN m.gen ELSE purged
            /\ UNCHANGED fetches

\* onDataChanged
Deliver(p) ==
    /\ p \in fresh
    /\ fresh' = fresh \ {p}
    /\ items' = [items EXCEPT ![p] = NoItem]
    /\ LET m == items[p] IN
       CASE p = "v1" -> /\ guard' = StateAfter(PurgeLegacy(guard), guard)
                        /\ content' = After(PurgeLegacy(guard), content)
                        /\ UNCHANGED <<aim, fetches, purged>>
         [] IsPurge(p, m) -> PurgeWatch(p, m)
         [] OTHER -> Store(p, m) /\ UNCHANGED purged
    /\ UNCHANGED <<clock, identity, managed, sync>>

IsCurrentTarget(o) == aim.node = Local /\ aim.gen = o.wgen

\* fetchPhoto's callback: the target is looked at ...
CheckFetch(f) ==
    /\ f \in fetches /\ ~f.checked
    /\ fetches' = (fetches \ {f}) \cup
                    (IF IsCurrentTarget(f.owner) THEN {[f EXCEPT !.checked = TRUE]} ELSE {})
    /\ UNCHANGED <<clock, phoneSide, fresh, guard, aim, content, purged>>

\* Mutant: the callback trusts the check made when the profile arrived.
PhotoAuthorizedOnce(s, o) == Readable(s)
\* storePhotoIfAuthorized
PhotoAuthorized(s, o) == s.status = "ACTIVE" /\ s.gen = o.gen /\ s.rel = o.rel

\* ... and then, under the relationship lock, the photo stored.
StorePhoto(f) ==
    /\ f \in fetches /\ f.checked
    /\ fetches' = fetches \ {f}
    /\ LET t == ExpireTransition(guard) IN
       /\ guard' = StateAfter(t, guard)
       /\ aim' = [aim EXCEPT !.controlled = @ /\ ~t.accepted]
       /\ content' = IF PhotoAuthorized(guard', f.owner)
                     THEN [content EXCEPT !["photo"] = {f.owner}] ELSE After(t, content)
    /\ UNCHANGED <<clock, phoneSide, fresh, purged>>

\* WearCacheExpiryReceiver, or a read: content whose authority is a day old goes.
Expire ==
    /\ ExpireTransition(guard).accepted
    /\ guard' = ExpireTransition(guard).state
    /\ content' = Cleared
    /\ aim' = [aim EXCEPT !.controlled = FALSE]
    /\ UNCHANGED <<clock, phoneSide, fresh, fetches, purged>>

\* WearSmoochConfirmActivity.send: an action is queued with both generations.
QueueAction ==
    /\ Readable(guard) /\ ~ExpiredAt(guard.auth)
    /\ content' = [content EXCEPT !["queue"] =
                      @ \cup {[rel |-> guard.rel, gen |-> guard.gen, wgen |-> aim.gen]}]
    /\ UNCHANGED <<clock, phoneSide, fresh, guard, aim, fetches, purged>>

WatchTick ==
    /\ clock < MaxClock /\ clock' = clock + 1
    /\ UNCHANGED <<phoneSide, fresh, watchSide>>

WatchNext ==
    \/ SignOut \/ RefreshStart \/ RefreshCheck \/ RefreshPublish
    \/ \E n \in {Local, OtherWatch} : SelectWatch(n)
    \/ RemoveWatch
    \/ \E p \in Paths : Deliver(p)
    \/ \E f \in fetches : CheckFetch(f) \/ StorePhoto(f)
    \/ Expire \/ QueueAction \/ WatchTick

WatchSpec == WatchInit /\ [][WatchNext]_watchVars

-----------------------------------------------------------------------------

\* All content stored on the watch belongs to the one relationship and generation its
\* guard vouches for, whatever the order in which items, photos and expiries arrive.
WatchShowsOneRelationship ==
    \A k \in Kinds : \A o \in content[k] :
        Readable(guard) /\ o.rel = guard.rel /\ o.gen = guard.gen

\* Nothing authorised at or before a generation whose purge the watch has applied is
\* still stored or comes back with a late item or photo.
NothingOutlivesItsPurge ==
    \A k \in Kinds : \A o \in content[k] : purged = 0 \/ o.gen > purged

\* When everything published has arrived, a watch whose phone has no relationship, or
\* manages another watch or none, stores nothing (an earlier app's content, which has no
\* generation, goes when it expires or a generation is first seen).
QuietWatchIsClean ==
    fresh = {} /\ (~identity.active \/ managed.node # Local)
        => \A k \in Kinds : \A o \in content[k] : o.gen = 0

\* The watch keeps faith with the phone: its content is of one relationship,
\* nothing survives or follows its purge, and once all has arrived a watch that
\* should be empty is empty (WearRelationshipPolicy, WearSyncService).
WatchIsFaithful ==
    WatchShowsOneRelationship /\ NothingOutlivesItsPurge /\ QuietWatchIsClean
=============================================================================
