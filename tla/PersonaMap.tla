----------------------------- MODULE PersonaMap -----------------------------
(***************************************************************************)
(* The map from a persona's UUID to its slug, read by every request for    *)
(* /{uuid}/mcp and refreshed from Mantle on a miss (gateway_middleware.py, *)
(* PersonaMap).                                                            *)
(*                                                                         *)
(* slug_for_uuid runs in an executor, so lookups are threads and share the *)
(* map with no lock.  A thread may be preempted wherever a write of        *)
(* another would change what it does next: at the call of Mantle, around   *)
(* the stamp of a miss, before the writes of a refresh and before the      *)
(* second look.  Time is kept as ages and countdowns, which is what the    *)
(* comparisons of the code see of it.                                      *)
(***************************************************************************)
EXTENDS Naturals

CONSTANTS
  Uuids,      \* what a caller may ask for
  Lookups,    \* executor threads
  NoUuid,
  Interval,   \* _MISS_REFRESH_INTERVAL_S
  Backoff     \* _REFRESH_BACKOFF_S

ASSUME PersonaMapAssumption ==
  /\ NoUuid \notin Uuids
  /\ Interval \in Nat \ {0} /\ Backoff \in Nat \ {0}

Longest == IF Interval > Backoff THEN Interval ELSE Backoff

VARIABLES
  listed,     \* Mantle: the UUIDs of its registered personas
  uuids,      \* the keys of _uuid_to_slug
  loaded,     \* _loaded
  retryIn,    \* _next_retry_at - now, 0 once it has passed
  missAge,    \* now - _last_miss_refresh, up to Interval
  pc, asked,  \* where lookup l is, and the UUID it is for
  why,        \* why[l]: the call of refresh l is in: "load" or "miss"
  age,        \* age[l]: how long ago l last read the clock, up to Longest
  got,        \* got[l]: the list Mantle sent l
  excused,    \* excused[l]: history, l need not find a persona that is listed
  answer      \* what the lookup that ended in the latest step answered

mapVars == <<uuids, loaded, retryIn, missAge>>
vars == <<listed, uuids, loaded, retryIn, missAge, pc, asked, why, age, got,
          excused, answer>>

Places == {"idle", "begin", "find", "stamp", "fetch", "install", "failed", "refind"}

NoAnswer == [found |-> FALSE, excused |-> TRUE]

TypeOK ==
  /\ listed \subseteq Uuids
  /\ uuids \subseteq listed /\ loaded \in BOOLEAN
  /\ retryIn \in 0..Backoff /\ missAge \in 0..Interval
  /\ pc \in [Lookups -> Places]
  /\ asked \in [Lookups -> Uuids \cup {NoUuid}]
  /\ why \in [Lookups -> {"load", "miss"}]
  /\ age \in [Lookups -> 0..Longest]
  /\ got \in [Lookups -> SUBSET listed]
  /\ excused \in [Lookups -> BOOLEAN]
  /\ answer \in [found : BOOLEAN, excused : BOOLEAN]

Init ==
  /\ listed \in SUBSET Uuids
  /\ uuids = {} /\ loaded = FALSE
  /\ retryIn = 0 /\ missAge = Interval
  /\ pc = [l \in Lookups |-> "idle"]
  /\ asked = [l \in Lookups |-> NoUuid]
  /\ why = [l \in Lookups |-> "load"]
  /\ age = [l \in Lookups |-> 0]
  /\ got = [l \in Lookups |-> {}]
  /\ excused = [l \in Lookups |-> TRUE]
  /\ answer = NoAnswer

----------------------------------------------------------------------------
\* A persona registers with Mantle.
Listed(u) ==
  /\ u \notin listed
  /\ listed' = listed \cup {u}
  /\ answer' = NoAnswer
  /\ UNCHANGED <<mapVars, pc, asked, why, age, got, excused>>

Older(n, bound) == IF n < bound THEN n + 1 ELSE n

ReadsClock(l) == pc[l] \in {"stamp", "fetch", "install", "failed"}

Tick ==
  /\ retryIn' = IF retryIn > 0 THEN retryIn - 1 ELSE 0
  /\ missAge' = Older(missAge, Interval)
  /\ age' = [l \in Lookups |-> IF ReadsClock(l) THEN Older(age[l], Longest) ELSE 0]
  /\ answer' = NoAnswer
  /\ UNCHANGED <<listed, uuids, loaded, pc, asked, why, got, excused>>

----------------------------------------------------------------------------
\* slug_for_uuid is called.  What is not in the map may not be found while the throttle of
\* misses or the backoff keeps it from being asked for.
Begin(l, u) ==
  /\ pc[l] = "idle"
  /\ pc' = [pc EXCEPT ![l] = "begin"]
  /\ asked' = [asked EXCEPT ![l] = u]
  /\ excused' = [excused EXCEPT ![l] =
       \/ u \notin listed
       \/ u \notin uuids /\ (retryIn > 0 \/ (loaded /\ missAge < Interval))]
  /\ answer' = NoAnswer
  /\ UNCHANGED <<listed, mapVars, why, age, got>>

\* It returns; the lookups in `others` need no longer find what they were asked for.
Answer(l, found, others) ==
  /\ pc' = [pc EXCEPT ![l] = "idle"]
  /\ answer' = [found |-> found, excused |-> excused[l]]
  /\ asked' = [asked EXCEPT ![l] = NoUuid]
  /\ why' = [why EXCEPT ![l] = "load"]
  /\ age' = [age EXCEPT ![l] = 0]
  /\ got' = [got EXCEPT ![l] = {}]
  /\ excused' = [k \in Lookups |-> k = l \/ excused[k] \/ k \in others]
  /\ UNCHANGED listed

\* It goes on; so do the others.
Goes(l, place, others) ==
  /\ pc' = [pc EXCEPT ![l] = place]
  /\ excused' = [k \in Lookups |-> excused[k] \/ k \in others]
  /\ answer' = NoAnswer
  /\ UNCHANGED <<listed, asked>>

\* Where a refresh that returned True leads.
After(w) == IF w = "load" THEN "find" ELSE "refind"

\* The lookups at one of `places` that would not be found if they looked now.
Missing(l, places) == {k \in Lookups \ {l} : pc[k] \in places /\ asked[k] \notin uuids}

\* refresh up to its call of Mantle; inside the backoff window it returns
\* whether the map was ever loaded.
Refresh(l, w, others) ==
  \/ /\ retryIn = 0
     /\ Goes(l, "fetch", others)
     /\ age' = [age EXCEPT ![l] = 0]
     /\ why' = [why EXCEPT ![l] = w]
     /\ UNCHANGED got
  \/ /\ retryIn > 0 /\ loaded
     /\ Goes(l, After(w), others)
     /\ age' = [age EXCEPT ![l] = 0]
     /\ UNCHANGED <<why, got>>
  \/ /\ retryIn > 0 /\ ~loaded
     /\ Answer(l, FALSE, others)

\* if not self._loaded: refresh
Load(l) ==
  /\ pc[l] = "begin"
  /\ \/ /\ loaded
        /\ Goes(l, "find", {})
        /\ UNCHANGED <<age, why, got>>
     \/ /\ ~loaded
        /\ Refresh(l, "load", {})
  /\ UNCHANGED mapVars

\* Mantle answers with the personas it has; the reply is on its way.  (A reply
\* that is lost is a call that failed.)
MantleReads(l) ==
  /\ pc[l] = "fetch"
  /\ listed # {}
  /\ pc' = [pc EXCEPT ![l] = "install"]
  /\ got' = [got EXCEPT ![l] = listed]
  /\ answer' = NoAnswer
  /\ UNCHANGED <<listed, mapVars, asked, age, why, excused>>

\* list_personas raised or returned nothing: unreachable, not 200, or empty.
FetchFails(l) ==
  /\ pc[l] = "fetch"
  /\ Goes(l, "failed", {l})
  /\ UNCHANGED <<mapVars, age, why, got>>

\* _next_retry_at = now + 30, of the clock read before the call.
BackOffFor(l) == IF age[l] < Backoff THEN Backoff - age[l] ELSE 0

\* It keeps those from asking Mantle that have not begun to.
BackOff(l) ==
  /\ pc[l] = "failed"
  /\ retryIn' = BackOffFor(l)
  /\ Answer(l, FALSE, Missing(l, {"begin", "find", "stamp"}))
  /\ UNCHANGED <<uuids, loaded, missAge>>

\* Mutant: a reply only adds to a map that was never loaded.
Replaced_Once(l) == IF loaded THEN uuids ELSE got[l]

\* Mutant: what was asked for is entered too.
Replaced_Asked(l) == got[l] \cup {asked[l]}

Replaced(l) == got[l]

\* Those that lose what they were asked for, and cannot ask Mantle again.
Losing(l) ==
  {k \in Lookups \ {l} : /\ asked[k] \notin got[l]
                         /\ \/ pc[k] = "refind"
                            \/ (pc[k] \in {"begin", "find"} /\ missAge < Interval)}

\* The maps are replaced, whatever another thread put there meanwhile, and
\* refresh returns True.
Install(l) ==
  /\ pc[l] = "install"
  /\ uuids' = Replaced(l)
  /\ loaded' = TRUE
  /\ retryIn' = 0
  /\ Goes(l, After(why[l]), Losing(l))
  /\ age' = [age EXCEPT ![l] = 0]
  /\ why' = [why EXCEPT ![l] = "load"]
  /\ got' = [got EXCEPT ![l] = {}]
  /\ UNCHANGED missAge

Throttled_OffByOne == missAge <= Interval                  \* mutant

\* now - self._last_miss_refresh < _MISS_REFRESH_INTERVAL_S
Throttled == missAge < Interval

\* The first look into the map, and the check that a miss may refresh it.
Find(l) ==
  /\ pc[l] = "find"
  /\ \/ /\ asked[l] \in uuids
        /\ Answer(l, TRUE, {})
     \/ /\ asked[l] \notin uuids /\ Throttled
        /\ Answer(l, FALSE, {})
     \/ /\ asked[l] \notin uuids /\ ~Throttled
        /\ Goes(l, "stamp", {})
        /\ age' = [age EXCEPT ![l] = 0]
        /\ UNCHANGED <<why, got>>
  /\ UNCHANGED mapVars

\* The stamp, of the clock read before the check, is set before the refresh and
\* whether or not it succeeds; it throttles those that have not looked yet.
Stamp(l) ==
  /\ pc[l] = "stamp"
  /\ missAge' = IF age[l] < Interval THEN age[l] ELSE Interval
  /\ Refresh(l, "miss", Missing(l, {"begin", "find"}))
  /\ UNCHANGED <<uuids, loaded, retryIn>>

\* The look after the miss refreshed the map.
Refind(l) ==
  /\ pc[l] = "refind"
  /\ Answer(l, asked[l] \in uuids, {})
  /\ UNCHANGED mapVars

LookupStep(l) ==
  Load(l) \/ FetchFails(l) \/ BackOff(l) \/ Install(l) \/ Find(l) \/ Stamp(l) \/ Refind(l)

Next ==
  \/ \E u \in Uuids : Listed(u)
  \/ Tick
  \/ \E l \in Lookups :
       \/ \E u \in Uuids : Begin(l, u)
       \/ MantleReads(l)
       \/ LookupStep(l)

\* Time passes and threads run; the caller of each UUID keeps asking, and a
\* Mantle that is asked again and again does answer, in full.
Fairness ==
  /\ WF_vars(Tick)
  /\ \A l \in Lookups : WF_vars(LookupStep(l)) /\ SF_vars(MantleReads(l))
  /\ \A u \in Uuids : SF_vars(\E l \in Lookups : Begin(l, u))

Spec == Init /\ [][Next]_vars
FairSpec == Spec /\ Fairness

----------------------------------------------------------------------------
\* Properties

\* A persona Mantle lists is known for good in the end, although a slow reply
\* may overwrite a newer one and a stranger's miss may use up the interval.
EventuallyKnown == \A u \in Uuids : <>(u \in listed) => <>[](u \in uuids)
=============================================================================
