----------------------------- MODULE Describers -----------------------------
(***************************************************************************)
(* Describers: after an artifact changes, a persona tool enriches it.  A   *)
(* change made through the gateway fires it inline, every change fires it  *)
(* again from Mantle's change feed, and one table of stamps keeps the two  *)
(* apart (dispatcher.py, "describers"; events.py).  The enrichment is a    *)
(* change itself.                                                          *)
(*                                                                         *)
(* One asyncio loop: an action is what a task does between two awaits.     *)
(* The driver takes events one at a time and awaits the describer it       *)
(* fires; inline describers are tasks of their own.  Every artifact here   *)
(* has a content type with a describer.                                    *)
(***************************************************************************)
EXTENDS Naturals, Sequences, FiniteSets

CONSTANTS
  Artifacts, NoArtifact,
  Runs,        \* bound: describer calls in progress
  TTL,         \* describe_dedup_ttl
  MaxRun,      \* the longest a describer takes
  MaxChanges   \* bound: changes made by people

NoRun == "no run"

ASSUME DescribersAssumption ==
  /\ NoArtifact \notin Artifacts /\ NoRun \notin Runs
  /\ TTL \in Nat \ {0} /\ MaxRun \in Nat /\ MaxChanges \in Nat

\* A change is the number of the person's change, or 0 for an enrichment.
Changes == 0..MaxChanges

VARIABLES
  changes,   \* how many changes people made
  feed,      \* the events the driver's socket holds: the artifact and its change
  connected, \* Mantle sends the driver what changes
  driver,    \* the call the driver awaits: a run, or NoRun
  inline,    \* gateway requests whose write Mantle did but which have not resumed
  age,       \* age[a]: time since the stamp of a in _described; TTL if none
  run,       \* run[r]: the describer call r
  fired      \* history: how often each change of each artifact fired a describer

vars == <<changes, feed, connected, driver, inline, age, run, fired>>

Idle == [of |-> NoArtifact, took |-> 0, wrote |-> FALSE]
Calls == [of : Artifacts \cup {NoArtifact}, took : 0..MaxRun, wrote : BOOLEAN]
Events == [of : Artifacts, change : Changes]

TypeOK ==
  /\ changes \in Changes
  /\ feed \in Seq(Events)
  /\ connected \in BOOLEAN
  /\ driver \in Runs \cup {NoRun}
  /\ inline \subseteq Events
  /\ age \in [Artifacts -> 0..TTL]
  /\ run \in [Runs -> Calls]
  /\ fired \in [Changes \X Artifacts -> 0..2]
  /\ driver # NoRun => run[driver] # Idle

Init ==
  /\ changes = 0
  /\ feed = <<>>
  /\ connected \in BOOLEAN
  /\ driver = NoRun
  /\ inline = {}
  /\ age = [a \in Artifacts |-> TTL]
  /\ run = [r \in Runs |-> Idle]
  /\ fired = [f \in Changes \X Artifacts |-> 0]

----------------------------------------------------------------------------
\* Mantle

\* Mantle writes a: who is subscribed hears of it.
Written(a, n) ==
  feed' = IF connected THEN Append(feed, [of |-> a, change |-> n]) ELSE feed

\* Someone changes a in Mantle without the gateway, or through an mcp_tool
\* operation, which fires nothing inline.
DirectChange(a) ==
  /\ changes < MaxChanges
  /\ changes' = changes + 1
  /\ Written(a, changes')
  /\ UNCHANGED <<connected, driver, inline, age, run, fired>>

\* Someone changes a through the gateway.  The describer of `target` is fired
\* when the request resumes: of a itself after create and update, but of the
\* artifact the operation was called on after its create or add.
GatewayChange(a, target) ==
  /\ changes < MaxChanges
  /\ changes' = changes + 1
  /\ Written(a, changes')
  /\ inline' = inline \cup {[of |-> target, change |-> changes']}
  /\ UNCHANGED <<connected, driver, age, run, fired>>

----------------------------------------------------------------------------
\* The dispatcher

\* Mutant: a window one tick short.
Recently_Short(a) == age[a] + 1 < TTL

\* (now - last) < self._describe_dedup_ttl
Recently(a) == age[a] < TTL

\* Mutant: firing leaves no stamp.
Stamp_Missing(e) == age' = age

\* A describer of e.of is due and is not deduplicated: the stamp is set before
\* anything else can fail.
Stamp(e) == age' = [age EXCEPT ![e.of] = 0]

Start(r, e) ==
  /\ run[r] = Idle
  /\ run' = [run EXCEPT ![r] = [of |-> e.of, took |-> 0, wrote |-> FALSE]]
  /\ fired' = [fired EXCEPT ![<<e.change, e.of>>] = IF @ < 2 THEN @ + 1 ELSE @]

\* The request resumes after its write: _fire_describer.
Resume(e) ==
  /\ e \in inline
  /\ inline' = inline \ {e}
  /\ \/ /\ Recently(e.of)
        /\ UNCHANGED <<age, run, fired>>
     \/ /\ ~Recently(e.of)
        /\ Stamp(e)
        /\ \E r \in Runs : Start(r, e)
  /\ UNCHANGED <<changes, feed, connected, driver>>

\* The driver takes the next event: fire_describer_for_resource.
Handle ==
  /\ driver = NoRun /\ feed # <<>>
  /\ feed' = Tail(feed)
  /\ LET e == Head(feed) IN
       \/ /\ Recently(e.of)
          /\ UNCHANGED <<driver, age, run, fired>>
       \/ /\ ~Recently(e.of)       \* no client_id, or no delegation: no call
          /\ Stamp(e)
          /\ UNCHANGED <<driver, run, fired>>
       \/ /\ ~Recently(e.of)
          /\ Stamp(e)
          /\ \E r \in Runs : Start(r, e) /\ driver' = r
  /\ UNCHANGED <<changes, connected, inline>>

----------------------------------------------------------------------------
\* A describer

\* It writes what it found into its artifact.
WriteBack(r) ==
  /\ run[r] # Idle /\ ~run[r].wrote
  /\ run' = [run EXCEPT ![r].wrote = TRUE]
  /\ Written(run[r].of, 0)
  /\ UNCHANGED <<changes, connected, driver, inline, age, fired>>

\* Mutant: the driver never gets its call back.
Released_Never(r) == driver

\* The driver awaited r, or it did not.
Released(r) == IF driver = r THEN NoRun ELSE driver

\* The call returns, fails or times out.
Finish(r) ==
  /\ run[r] # Idle
  /\ run' = [run EXCEPT ![r] = Idle]
  /\ driver' = Released(r)
  /\ UNCHANGED <<changes, feed, connected, inline, age, fired>>

----------------------------------------------------------------------------
\* The socket drops; what it still holds may be lost.
Disconnect ==
  /\ connected
  /\ connected' = FALSE
  /\ feed' \in {feed, <<>>}
  /\ UNCHANGED <<changes, driver, inline, age, run, fired>>

\* The driver drained the old socket, slept and subscribed again.  Nothing is
\* replayed.
Reconnect ==
  /\ ~connected /\ driver = NoRun /\ feed = <<>>
  /\ connected' = TRUE
  /\ UNCHANGED <<changes, feed, driver, inline, age, run, fired>>

\* Time passes while everyone waits: a describer ends within MaxRun, an event is
\* taken when the driver is free and a request resumes when Mantle answered.
Tick ==
  /\ \A r \in Runs : run[r] # Idle => run[r].took < MaxRun
  /\ driver # NoRun \/ feed = <<>>
  /\ inline = {}
  /\ age' = [a \in Artifacts |-> IF age[a] < TTL THEN age[a] + 1 ELSE TTL]
  /\ run' = [r \in Runs |-> IF run[r] = Idle THEN Idle ELSE [run[r] EXCEPT !.took = @ + 1]]
  /\ UNCHANGED <<changes, feed, connected, driver, inline, fired>>

Next ==
  \/ \E a \in Artifacts : DirectChange(a)
  \/ \E a, target \in Artifacts : GatewayChange(a, target)
  \/ \E e \in inline : Resume(e)
  \/ Handle
  \/ \E r \in Runs : WriteBack(r) \/ Finish(r)
  \/ Disconnect \/ Reconnect
  \/ Tick

\* The loop runs, calls end, time passes.
Fairness ==
  /\ WF_vars(Handle) /\ WF_vars(Tick)
  /\ WF_vars(\E e \in inline : Resume(e))
  /\ \A r \in Runs : WF_vars(Finish(r))

Spec == Init /\ [][Next]_vars
FairSpec == Spec /\ Fairness

----------------------------------------------------------------------------
\* Properties

\* The dedup can only do its work if a describer of each artifact, one after the other,
\* fits into the window (the code's own 30 s and 15 s do not).
DescribersAreShort == IsFiniteSet(Artifacts) /\ MaxRun * Cardinality(Artifacts) < TTL

\* dispatcher.py 154-157: the dedup "breaks the describer-write-back loop (the
\* enrichment write is itself a change event)".
LoopBroken == \A a \in Artifacts : fired[<<0, a>>] = 0

\* events.py 7-8: "a shared dedup in the dispatcher prevents double-firing":
\* the inline trigger and the feed's do not both fire for one change.
OncePerChange == \A n \in Changes \ {0}, a \in Artifacts : fired[<<n, a>>] <= 1

\* When people stop changing things describers stop running, and the driver is
\* free again.
ComesToRest == <>[](\A r \in Runs : run[r] = Idle) /\ []<>(feed = <<>> /\ driver = NoRun)
=============================================================================
