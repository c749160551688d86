--------------------------- MODULE WriteBack_proofs ---------------------------
(***************************************************************************)
(* The describers' queue, stamps and calls, for any artifacts, runs and    *)
(* times: type correctness; that the driver waits for a call that runs;    *)
(* and that a describer fired by a request is the first for its change.    *)
(* What the run shows of its small instance, that no describer fires       *)
(* because of a describer nor twice for one change, is proved of all that  *)
(* have its proportions: a describer of each artifact, one after the       *)
(* other, fits into the window.                                            *)
(*                                                                         *)
(* At the end both sides of what is written back: the invariants of        *)
(* Describers and of Evolution hold in the module that composes them.      *)
(***************************************************************************)
EXTENDS MCWriteBack, FiniteSetTheorems, TLAPS

\* A call that runs is of some artifact.
Working == \A r \in Runs : run[r] = Idle \/ run[r].of \in Artifacts

TypeInv == TypeOK /\ Working

LEMMA IdleIsACall == Idle \in Calls
BY DescribersAssumption DEF Idle, Calls

\* Someone writes: the change is heard of, or not.
LEMMA WrittenType ==
  ASSUME TypeOK, NEW a \in Artifacts, NEW n \in Changes, Written(a, n)
  PROVE  feed' \in Seq(Events)
<1>1. [of |-> a, change |-> n] \in Events /\ feed \in Seq(Events)
  BY DEF TypeOK, Events
<1>2. Append(feed, [of |-> a, change |-> n]) \in Seq(Events)
  BY <1>1
<1> QED
  BY <1>1, <1>2 DEF Written

LEMMA StampType ==
  ASSUME TypeOK, NEW e \in Events, Stamp(e)
  PROVE  age' \in [Artifacts -> 0..TTL]
<1>1. e.of \in Artifacts /\ 0 \in 0..TTL
  BY DescribersAssumption DEF Events
<1>2. age \in [Artifacts -> 0..TTL]
  BY DEF TypeOK
<1> QED
  BY <1>1, <1>2 DEF Stamp

LEMMA StartType ==
  ASSUME TypeOK, NEW r \in Runs, NEW e \in Events, Start(r, e)
  PROVE  /\ run' \in [Runs -> Calls] /\ fired' \in [Changes \X Artifacts -> 0..2]
         /\ run[r] = Idle /\ run'[r] # Idle /\ run'[r].of \in Artifacts
         /\ \A q \in Runs \ {r} : run'[q] = run[q]
<1>1. [of |-> e.of, took |-> 0, wrote |-> FALSE] \in Calls
  BY DescribersAssumption DEF Calls, Events
<1>2. e.of # NoArtifact
  BY DescribersAssumption DEF Events
<1>3. /\ run' \in [Runs -> Calls] /\ run'[r] # Idle /\ run'[r].of = e.of
      /\ \A q \in Runs \ {r} : run'[q] = run[q]
  BY <1>1, <1>2 DEF TypeOK, Start, Idle
<1>4. fired' \in [Changes \X Artifacts -> 0..2]
  BY DEF TypeOK, Start, Events
<1> QED
  BY <1>3, <1>4 DEF Start, Events

----------------------------------------------------------------------------
LEMMA InitType == Init => TypeInv
<1> SUFFICES ASSUME Init PROVE TypeInv
  OBVIOUS
<1>1. run \in [Runs -> Calls]
  BY IdleIsACall DEF Init
<1>2. /\ changes \in Changes /\ age \in [Artifacts -> 0..TTL]
      /\ fired \in [Changes \X Artifacts -> 0..2]
  BY DescribersAssumption DEF Init, Changes
<1> QED
  BY <1>1, <1>2 DEF Init, TypeOK, TypeInv, Working

LEMMA ChangeType ==
  ASSUME TypeInv, NEW a \in Artifacts, NEW target \in Artifacts,
         DirectChange(a) \/ GatewayChange(a, target)
  PROVE  TypeInv'
<1>1. changes' = changes + 1 /\ changes' \in Changes /\ Written(a, changes')
  BY DescribersAssumption DEF TypeInv, Working, TypeOK, Changes, DirectChange, GatewayChange
<1>2. feed' \in Seq(Events)
  BY <1>1, WrittenType DEF TypeInv
<1>3. inline' \subseteq Events
  BY <1>1 DEF TypeInv, Working, TypeOK, DirectChange, GatewayChange, Events
<1> QED
  BY <1>1, <1>2, <1>3 DEF TypeInv, Working, TypeOK, DirectChange, GatewayChange

\* A request resumes.  The run it takes was idle, so it is not the driver's.
LEMMA ResumeType ==
  ASSUME TypeInv, NEW e \in inline, Resume(e)
  PROVE  TypeInv'
<1>1. e \in Events /\ inline' \subseteq Events
  BY DEF TypeInv, Working, TypeOK, Resume
<1>2. CASE UNCHANGED <<age, run, fired>>
  BY <1>1, <1>2 DEF TypeInv, Working, TypeOK, Resume
<1>3. CASE Stamp(e) /\ \E r \in Runs : Start(r, e)
  <2>1. PICK r \in Runs : Start(r, e)
    BY <1>3
  <2>2. driver # NoRun => driver # r
    BY <2>1 DEF TypeInv, Working, TypeOK, Start
  <2> QED
    BY <1>1, <1>3, <2>1, <2>2, StampType, StartType DEF TypeInv, Working, TypeOK, Resume
<1> QED
  BY <1>2, <1>3 DEF Resume

\* The driver takes an event.
LEMMA HandleType ==
  ASSUME TypeInv, Handle
  PROVE  TypeInv'
<1> DEFINE e == Head(feed)
<1>1. e \in Events /\ feed' \in Seq(Events)
  BY DEF TypeInv, Working, TypeOK, Handle
<1> HIDE DEF e
<1>2. CASE UNCHANGED <<driver, run, fired>> /\ (UNCHANGED age \/ Stamp(e))
  BY <1>1, <1>2, StampType DEF TypeInv, Working, TypeOK, Handle
<1>3. CASE Stamp(e) /\ \E r \in Runs : Start(r, e) /\ driver' = r
  BY <1>1, <1>3, StampType, StartType DEF TypeInv, Working, TypeOK, Handle
<1> QED
  BY <1>2, <1>3 DEF Handle, e

LEMMA WriteBackType ==
  ASSUME TypeInv, NEW r \in Runs, WriteBack(r)
  PROVE  TypeInv'
<1>1. run[r] \in Calls /\ run[r] # Idle /\ run[r].of \in Artifacts
  BY DEF TypeInv, Working, TypeOK, WriteBack
<1> DEFINE now == [run[r] EXCEPT !.wrote = TRUE]
<1>2. now \in Calls /\ now # Idle /\ now.of = run[r].of
  BY <1>1 DEF Calls, Idle
<1>3. /\ run' = [run EXCEPT ![r] = now] /\ Written(run[r].of, 0)
      /\ UNCHANGED <<changes, connected, driver, inline, age, fired>>
  BY DEF WriteBack
<1> HIDE DEF now
<1>4. /\ run' \in [Runs -> Calls] /\ run'[r] = now
      /\ \A q \in Runs \ {r} : run'[q] = run[q]
  BY <1>2, <1>3 DEF TypeInv, TypeOK
<1>5. feed' \in Seq(Events)
  <2>1. 0 \in Changes
    BY DescribersAssumption DEF Changes
  <2> QED
    BY <1>1, <1>3, <2>1, WrittenType DEF TypeInv
<1>6. Working'
  BY <1>1, <1>2, <1>4 DEF TypeInv, Working
<1>7. driver' # NoRun => run'[driver'] # Idle
  BY <1>2, <1>3, <1>4 DEF TypeInv, TypeOK
<1> QED
  BY <1>3, <1>4, <1>5, <1>6, <1>7 DEF TypeInv, TypeOK

\* A call ends: if the driver waited for it, it no longer does.
LEMMA FinishType ==
  ASSUME TypeInv, NEW r \in Runs, Finish(r)
  PROVE  TypeInv'
<1>1. run' \in [Runs -> Calls] /\ run'[r] = Idle /\ \A q \in Runs \ {r} : run'[q] = run[q]
  BY IdleIsACall DEF TypeInv, TypeOK, Finish
<1>2. driver' \in Runs \cup {NoRun} /\ (driver' # NoRun => driver' = driver /\ driver # r)
  BY DEF TypeInv, TypeOK, Finish, Released
<1> QED
  BY <1>1, <1>2 DEF TypeInv, Working, TypeOK, Finish

\* The socket drops and is opened again.
LEMMA SocketType ==
  ASSUME TypeInv, Disconnect \/ Reconnect
  PROVE  TypeInv'
<1>1. <<>> \in Seq(Events)
  OBVIOUS
<1>2. feed' \in Seq(Events)
  BY <1>1 DEF TypeInv, TypeOK, Disconnect, Reconnect
<1> QED
  BY <1>2 DEF TypeInv, Working, TypeOK, Disconnect, Reconnect

LEMMA TickType ==
  ASSUME TypeInv, Tick
  PROVE  TypeInv'
<1>1. age' \in [Artifacts -> 0..TTL]
  BY DescribersAssumption DEF TypeInv, TypeOK, Tick
<1>2. ASSUME NEW r \in Runs, run[r] # Idle
      PROVE  LET now == [run[r] EXCEPT !.took = @ + 1]
             IN  now \in Calls /\ now # Idle /\ now.of = run[r].of
  <2>1. run[r] \in Calls /\ run[r].took < MaxRun /\ run[r].of \in Artifacts
    BY <1>2 DEF TypeInv, Working, TypeOK, Tick
  <2>2. run[r].of # NoArtifact
    BY <2>1, DescribersAssumption
  <2> QED
    BY <2>1, <2>2, DescribersAssumption DEF Calls, Idle
<1>3. /\ run' \in [Runs -> Calls]
      /\ \A r \in Runs : run[r] # Idle => run'[r] # Idle /\ run'[r].of = run[r].of
      /\ \A r \in Runs : run[r] = Idle => run'[r] = Idle
  BY <1>2, IdleIsACall DEF TypeInv, TypeOK, Tick
<1>4. UNCHANGED <<changes, feed, connected, driver, inline, fired>>
  BY DEF Tick
<1> QED
  BY <1>1, <1>3, <1>4 DEF TypeInv, Working, TypeOK

----------------------------------------------------------------------------
LEMMA NextType ==
  ASSUME TypeInv, [Next]_vars
  PROVE  TypeInv'
<1>1. CASE \E a \in Artifacts : DirectChange(a)
  BY <1>1, ChangeType
<1>2. CASE \E a, target \in Artifacts : GatewayChange(a, target)
  BY <1>2, ChangeType
<1>3. CASE \E e \in inline : Resume(e)
  BY <1>3, ResumeType
<1>4. CASE \E r \in Runs : WriteBack(r) \/ Finish(r)
  BY <1>4, WriteBackType, FinishType
<1>5. CASE UNCHANGED vars
  BY <1>5 DEF TypeInv, Working, TypeOK, vars
<1> QED
  BY <1>1, <1>2, <1>3, <1>4, <1>5, HandleType, SocketType, TickType DEF Next

\* Type correctness, with the driver never waiting for a call that has ended.
THEOREM DescribersTypeOK == Spec => []TypeOK
<1>1. TypeInv => TypeOK
  BY DEF TypeInv
<1> QED
  BY <1>1, InitType, NextType, PTL DEF Spec

----------------------------------------------------------------------------
\* What a request fires, whatever the times are.

\* An event that must not fire a describer: an enrichment, or a change that fired one.
Spent(e) == e.change = 0 \/ fired[<<e.change, e.of>>] >= 1

\* A request that resumes does so in the instant in which its change was heard of.
Resuming == \A e \in inline : e.change # 0 /\ (Spent(e) => age[e.of] = 0)

\* One change is one event of the feed and one request at most, and a change to come has
\* fired nothing.
Numbered ==
  /\ \A e \in inline : e.change <= changes
  /\ \A i \in DOMAIN feed : feed[i].change <= changes
  /\ \A n \in Changes, a \in Artifacts : n > changes => fired[<<n, a>>] = 0
  /\ \A e, f \in inline : e.change = f.change => e = f
  /\ \A i, j \in DOMAIN feed :
       feed[i].change = feed[j].change => i = j \/ feed[i].change = 0

RequestInv == Resuming /\ Numbered

USE DEF RequestInv

LEMMA FeedEvents ==
  ASSUME TypeOK
  PROVE  \A i \in DOMAIN feed :
           feed[i] \in Events /\ feed[i].of \in Artifacts /\ feed[i].change \in Changes
<1>1. \A i \in DOMAIN feed : feed[i] \in Events
  BY DEF TypeOK
<1> QED
  BY <1>1 DEF Events

LEMMA WrittenFeed ==
  ASSUME TypeOK, NEW a \in Artifacts, NEW n \in Changes, Written(a, n)
  PROVE  \A i \in DOMAIN feed' :
           \/ i \in DOMAIN feed /\ feed'[i] = feed[i]
           \/ i = Len(feed) + 1 /\ feed'[i] = [of |-> a, change |-> n]
<1>1. [of |-> a, change |-> n] \in Events /\ feed \in Seq(Events)
  BY DEF TypeOK, Events
<1> QED
  BY <1>1 DEF Written

LEMMA HandledFeed ==
  ASSUME TypeOK, Handle
  PROVE  /\ 1 \in DOMAIN feed /\ Head(feed) = feed[1]
         /\ \A i \in DOMAIN feed' : i + 1 \in DOMAIN feed /\ feed'[i] = feed[i + 1] /\ i \in Nat \ {0}
<1>1. feed \in Seq(Events) /\ feed # <<>> /\ feed' = Tail(feed)
  BY DEF TypeOK, Handle
<1> QED
  BY <1>1

\* Firing for e counts for e alone, and for no change that is still to come.
LEMMA StartCounts ==
  ASSUME TypeInv, RequestInv, NEW e \in Events, e.change <= changes, NEW r \in Runs, Start(r, e)
  PROVE  /\ \A n \in Changes, a \in Artifacts :
              n # e.change \/ a # e.of => fired'[<<n, a>>] = fired[<<n, a>>]
         /\ \A n \in Changes, a \in Artifacts : n > changes => fired'[<<n, a>>] = 0
<1>1. \A n \in Changes, a \in Artifacts :
        n # e.change \/ a # e.of => fired'[<<n, a>>] = fired[<<n, a>>]
  BY DEF Start, TypeInv, TypeOK, Events
<1>2. \A n \in Changes : n > changes => n # e.change
  BY DEF Changes, TypeInv, TypeOK, Events
<1> QED
  BY <1>1, <1>2 DEF Numbered

\* Nobody asked for anything yet.
LEMMA InitRequests == Init => RequestInv
<1> SUFFICES ASSUME Init PROVE RequestInv
  OBVIOUS
<1>1. DOMAIN feed = {} /\ inline = {}
  BY DEF Init
<1>2. \A n \in Changes, a \in Artifacts : fired[<<n, a>>] = 0
  BY DEF Init
<1> QED
  BY <1>1, <1>2 DEF Resuming, Numbered

\* The change has a number that no event has and has fired nothing yet.
LEMMA ChangeRequests ==
  ASSUME TypeInv, RequestInv, NEW a \in Artifacts, NEW target \in Artifacts,
         DirectChange(a) \/ GatewayChange(a, target)
  PROVE  RequestInv'
<1>1. /\ changes' = changes + 1 /\ changes' \in Changes /\ Written(a, changes')
      /\ changes \in Nat /\ changes' # 0
      /\ UNCHANGED <<driver, age, run, fired>>
  BY DescribersAssumption DEF TypeInv, TypeOK, Changes, DirectChange, GatewayChange
<1>2. \A i \in DOMAIN feed' :
        \/ i \in DOMAIN feed /\ feed'[i] = feed[i]
        \/ i = Len(feed) + 1 /\ feed'[i].change = changes'
  BY <1>1, WrittenFeed DEF TypeInv
<1>3. \A e \in inline' : e \in inline \/ (e = [of |-> target, change |-> changes'])
  BY DEF DirectChange, GatewayChange
<1>4. Resuming'
  <2>1. fired'[<<changes', target>>] = 0 /\ UNCHANGED <<age, fired>>
    BY <1>1 DEF Numbered
  <2> SUFFICES ASSUME NEW e \in inline'
               PROVE  e.change # 0 /\ (Spent(e)' => age'[e.of] = 0)
    BY DEF Resuming
  <2>2. CASE e \in inline
    BY <2>1, <2>2 DEF Resuming, Spent
  <2>3. CASE e = [of |-> target, change |-> changes']
    <3>1. e.change = changes' /\ e.of = target
      BY <2>3
    <3> QED
      BY <1>1, <2>1, <3>1 DEF Spent
  <2> QED
    BY <1>3, <2>2, <2>3
<1>5. Numbered'
  <2>1. \A e \in inline : e \in Events /\ e.change <= changes /\ e.change \in Nat
    BY DEF Numbered, TypeInv, TypeOK, Events, Changes
  <2>2. \A i \in DOMAIN feed : feed[i].change <= changes /\ feed[i].change \in Nat
    BY FeedEvents DEF Numbered, TypeInv, Changes
  <2>3. \A e \in inline' : e.change <= changes'
    BY <1>1, <1>3, <2>1
  <2>4. \A i \in DOMAIN feed' : feed'[i].change <= changes'
    BY <1>1, <1>2, <2>2
  <2>5. \A n \in Changes, b \in Artifacts : n > changes' => fired'[<<n, b>>] = 0
    BY <1>1 DEF Numbered, Changes
  <2>6. \A e, f \in inline' : e.change = f.change => e = f
    BY <1>1, <1>3, <2>1 DEF Numbered
  <2>7. \A i, j \in DOMAIN feed' :
          feed'[i].change = feed'[j].change => i = j \/ feed'[i].change = 0
    BY <1>1, <1>2, <2>2 DEF Numbered
  <2> QED
    BY <2>3, <2>4, <2>5, <2>6, <2>7 DEF Numbered
<1> QED
  BY <1>4, <1>5

\* A request resumes.
LEMMA ResumeRequests ==
  ASSUME TypeInv, RequestInv, NEW e \in inline, Resume(e)
  PROVE  RequestInv'
<1>1. /\ e \in Events /\ e.of \in Artifacts /\ e.change <= changes
      /\ inline' = inline \ {e} /\ UNCHANGED <<changes, feed, connected, driver>>
  BY DEF Numbered, TypeInv, TypeOK, Events, Resume
<1>2. CASE UNCHANGED <<age, run, fired>>
  BY <1>1, <1>2 DEF Resuming, Numbered, Spent
<1>3. ASSUME Stamp(e), NEW r \in Runs, Start(r, e)
      PROVE  RequestInv'
  <2>1. Resuming'
    <3> SUFFICES ASSUME NEW f \in inline, f # e
                 PROVE  f.change # 0 /\ (Spent(f)' => age'[f.of] = 0)
      BY <1>1 DEF Resuming
    <3>1. f.change # 0 /\ (Spent(f) => age[f.of] = 0) /\ f.change # e.change
      BY DEF Resuming, Numbered
    <3>2. f.of \in Artifacts /\ f.change \in Changes
      BY DEF TypeInv, TypeOK, Events
    <3>3. Spent(f)' => Spent(f)
      BY <1>1, <1>3, <3>1, <3>2, StartCounts DEF Spent
    <3>4. age[f.of] = 0 => age'[f.of] = 0
      BY <1>1, <1>3, <3>2 DEF Stamp, TypeInv, TypeOK
    <3> QED
      BY <3>1, <3>3, <3>4
  <2>2. Numbered'
    BY <1>1, <1>3, StartCounts DEF Numbered
  <2> QED
    BY <2>1, <2>2
<1> QED
  BY <1>2, <1>3 DEF Resume

\* The driver takes an event.  If it fires for the change of a request, the stamp is new.
LEMMA HandleRequests ==
  ASSUME TypeInv, RequestInv, Handle
  PROVE  RequestInv'
<1> DEFINE e == Head(feed)
<1>1. /\ e \in Events /\ e.of \in Artifacts /\ e.change \in Changes /\ e.change <= changes
      /\ UNCHANGED <<changes, connected, inline>>
  BY HandledFeed, FeedEvents DEF TypeInv, Handle, Numbered
<1>2. \/ UNCHANGED <<age, fired>>
      \/ Stamp(e) /\ UNCHANGED fired
      \/ Stamp(e) /\ \E r \in Runs : Start(r, e)
  BY DEF Handle
<1> HIDE DEF e
<1>3. /\ \A n \in Changes, a \in Artifacts :
           n # e.change \/ a # e.of => fired'[<<n, a>>] = fired[<<n, a>>]
      /\ \A n \in Changes, a \in Artifacts : n > changes => fired'[<<n, a>>] = 0
  BY <1>1, <1>2, StartCounts DEF Numbered
<1>4. Resuming'
  <2> SUFFICES ASSUME NEW f \in inline
               PROVE  f.change # 0 /\ (Spent(f)' => age'[f.of] = 0)
    BY <1>1 DEF Resuming
  <2>1. f.change # 0 /\ (Spent(f) => age[f.of] = 0) /\ f.change \in Changes /\ f.of \in Artifacts
    BY DEF Resuming, TypeInv, TypeOK, Events
  <2>2. age[f.of] = 0 => age'[f.of] = 0
    BY <1>1, <1>2, <2>1 DEF Stamp, TypeInv, TypeOK
  <2>3. Spent(f)' => Spent(f) \/ (f.of = e.of /\ Stamp(e))
    BY <1>2, <1>3, <2>1 DEF Spent
  <2>4. Stamp(e) => age'[e.of] = 0
    BY <1>1 DEF Stamp, TypeInv, TypeOK
  <2> QED
    BY <2>1, <2>2, <2>3, <2>4
<1>5. Numbered'
  <2>1. \A i \in DOMAIN feed' :
          i + 1 \in DOMAIN feed /\ feed'[i] = feed[i + 1] /\ i \in Nat \ {0}
    BY HandledFeed DEF TypeInv
  <2>2. \A i, j \in DOMAIN feed' :
          feed'[i].change = feed'[j].change => i = j \/ feed'[i].change = 0
    <3> SUFFICES ASSUME NEW i \in DOMAIN feed', NEW j \in DOMAIN feed',
                        feed'[i].change = feed'[j].change, feed'[i].change # 0
                 PROVE  i = j
      OBVIOUS
    <3>1. i + 1 = j + 1 /\ i \in Nat /\ j \in Nat
      BY <2>1 DEF Numbered
    <3> QED
      BY <3>1
  <2>3. \A i \in DOMAIN feed' : feed'[i].change <= changes'
    BY <1>1, <2>1 DEF Numbered
  <2> QED
    BY <1>1, <1>3, <2>2, <2>3 DEF Numbered
<1> QED
  BY <1>4, <1>5

\* A describer writes: an event that is no change of a person.
LEMMA WritingRequests ==
  ASSUME TypeInv, RequestInv, NEW r \in Runs, WriteBack(r)
  PROVE  RequestInv'
<1>1. /\ run[r].of \in Artifacts /\ 0 \in Changes /\ Written(run[r].of, 0) /\ 0 <= changes
      /\ UNCHANGED <<changes, inline, age, fired>>
  BY DescribersAssumption DEF TypeInv, Working, TypeOK, WriteBack, Changes
<1>2. \A i \in DOMAIN feed' :
        \/ i \in DOMAIN feed /\ feed'[i] = feed[i]
        \/ i = Len(feed) + 1 /\ feed'[i].change = 0
  BY <1>1, WrittenFeed DEF TypeInv
<1>3. Resuming'
  BY <1>1 DEF Resuming, Spent
<1>4. Numbered'
  BY <1>1, <1>2 DEF Numbered
<1> QED
  BY <1>3, <1>4

\* Time passes only while no request is about to resume.
LEMMA OtherRequests ==
  ASSUME TypeInv, RequestInv,
         \/ \E r \in Runs : Finish(r)
         \/ Disconnect \/ Reconnect \/ Tick \/ UNCHANGED vars
  PROVE  RequestInv'
<1>1. /\ feed' = feed \/ DOMAIN feed' = {}
      /\ UNCHANGED <<changes, inline, fired>>
      /\ inline = {} \/ UNCHANGED age
  BY DEF Finish, Disconnect, Reconnect, Tick, vars
<1> QED
  BY <1>1 DEF Resuming, Numbered, Spent

LEMMA NextRequests ==
  ASSUME TypeInv, RequestInv, [Next]_vars
  PROVE  RequestInv'
<1>1. CASE \E a \in Artifacts : DirectChange(a)
  BY <1>1, ChangeRequests
<1>2. CASE \E a, target \in Artifacts : GatewayChange(a, target)
  BY <1>2, ChangeRequests
<1>3. CASE \E e \in inline : Resume(e)
  BY <1>3, ResumeRequests
<1>4. CASE \E r \in Runs : WriteBack(r)
  BY <1>4, WritingRequests
<1> QED
  BY <1>1, <1>2, <1>3, <1>4, HandleRequests, OtherRequests DEF Next

\* A call that begins and is not the driver's is the first describer of a person's change.
RequestsFireFirst ==
  (\E r \in Runs : run[r] = Idle /\ run'[r] # Idle) /\ driver' = driver =>
    \E n \in Changes \ {0}, a \in Artifacts : fired[<<n, a>>] = 0 /\ fired'[<<n, a>>] = 1

LEMMA NextFiresFirst ==
  ASSUME TypeInv, RequestInv, [Next]_vars
  PROVE  RequestsFireFirst
<1> SUFFICES ASSUME NEW q \in Runs, run[q] = Idle, run'[q] # Idle, driver' = driver
             PROVE  \E n \in Changes \ {0}, a \in Artifacts :
                      fired[<<n, a>>] = 0 /\ fired'[<<n, a>>] = 1
  BY DEF RequestsFireFirst
<1>1. ASSUME NEW e \in inline, Resume(e)
      PROVE  \E n \in Changes \ {0}, a \in Artifacts :
               fired[<<n, a>>] = 0 /\ fired'[<<n, a>>] = 1
  <2>1. ~Recently(e.of) /\ \E r \in Runs : Start(r, e)
    BY <1>1 DEF Resume
  <2>2. e \in Events /\ e.of \in Artifacts /\ e.change \in Changes \ {0} /\ ~Spent(e)
    BY <2>1, DescribersAssumption DEF Resuming, Recently, TypeInv, TypeOK, Events
  <2>3. fired[<<e.change, e.of>>] = 0 /\ fired \in [Changes \X Artifacts -> 0..2]
    BY <2>2 DEF Spent, TypeInv, TypeOK
  <2>4. fired'[<<e.change, e.of>>] = 1
    BY <2>1, <2>2, <2>3 DEF Start
  <2> QED
    BY <2>2, <2>3, <2>4
<1>2. ASSUME Handle PROVE FALSE
  <2>1. driver = NoRun /\ (UNCHANGED run \/ (driver' \in Runs /\ run'[driver'] # Idle))
    <3>1. \A r \in Runs, e \in Events : Start(r, e) => run'[r] # Idle
      BY StartType DEF TypeInv
    <3>2. Head(feed) \in Events
      BY <1>2, HandledFeed, FeedEvents DEF TypeInv
    <3> QED
      BY <1>2, <3>1, <3>2 DEF Handle
  <2> QED
    BY <2>1, DescribersAssumption
<1>3. ~(UNCHANGED run)
  OBVIOUS
<1>4. ASSUME NEW r \in Runs, WriteBack(r) \/ Finish(r) PROVE FALSE
  <2>1. \A p \in Runs \ {r} : run'[p] = run[p]
    BY <1>4 DEF WriteBack, Finish, TypeInv, TypeOK
  <2>2. run[r] # Idle
    BY <1>4 DEF WriteBack, Finish
  <2> QED
    BY <2>1, <2>2
<1>5. ~Tick
  BY DEF Tick
<1> QED
  BY <1>1, <1>2, <1>3, <1>4, <1>5
     DEF Next, DirectChange, GatewayChange, Disconnect, Reconnect, vars

\* A describer that a request fires is the first for its change: only what the feed tells,
\* and tells late, can close the loop of describers or fire a second time (dispatcher.py
\* 154-157, events.py 7-8).  However long describers take, and however the two race.
THEOREM RequestsAlwaysFireFirst == Spec => [][RequestsFireFirst]_vars
<1>1. Init => TypeInv /\ RequestInv
  BY InitType, InitRequests
<1>2. TypeInv /\ RequestInv /\ [Next]_vars => TypeInv' /\ RequestInv' /\ RequestsFireFirst
  BY NextType, NextRequests, NextFiresFirst
<1> QED
  BY <1>1, <1>2, PTL DEF Spec

----------------------------------------------------------------------------
\* Why the window is enough.  After a describer of `a` was fired, the enrichment it
\* writes waits for the calls the driver makes before it.  Each of them but the one that
\* was running is of an artifact that was stamped since then and is not fired again
\* before `a` could be.  So the age of a stamp plus what is left of the driver's call is at
\* most one call for each artifact in Since(a).

Remaining == IF driver = NoRun THEN 0 ELSE MaxRun - run[driver].took
Since(a) == {b \in Artifacts : age[b] <= age[a]}
InTime(a) == age[a] + Remaining <= MaxRun * Cardinality(Since(a))

\* The stamp of an artifact is as old as its describer.
Timed == \A r \in Runs : run[r] # Idle => run[r].took = age[run[r].of]

\* What waits in the feed is taken while the stamp is fresh.
Waiting == \A i \in DOMAIN feed : Spent(feed[i]) => InTime(feed[i].of)

\* One of the two that tell of a change has fired its describer only when it is gone.
Exclusive == \A i \in DOMAIN feed : feed[i] \in inline => ~Spent(feed[i])

OnceInv == RequestInv /\ Timed /\ Waiting /\ Exclusive /\ LoopBroken /\ OncePerChange

LEMMA ProductsGrow ==
  ASSUME NEW m \in Nat, NEW k \in Nat, NEW n \in Nat, k <= n
  PROVE  m * k <= m * n
<1>1. PICK d \in Nat : n = k + d
  BY SMT
<1>2. m * n = m * k + m * d /\ m * d \in Nat /\ m * k \in Nat
  BY <1>1, SMT
<1> QED
  BY <1>2, SMT

\* A set of artifacts that grows allows more time.
LEMMA SetsGrow ==
  ASSUME DescribersAreShort, NEW S \in SUBSET Artifacts, NEW T \in SUBSET S
  PROVE  /\ MaxRun * Cardinality(T) <= MaxRun * Cardinality(S)
         /\ MaxRun * Cardinality(S) < TTL
         /\ MaxRun * Cardinality(T) \in Nat /\ MaxRun * Cardinality(S) \in Nat
         /\ Cardinality(S) \in Nat
<1>1. IsFiniteSet(Artifacts) /\ IsFiniteSet(S) /\ IsFiniteSet(T) /\ T \in SUBSET Artifacts
  BY FS_Subset DEF DescribersAreShort
<1>2. /\ Cardinality(T) <= Cardinality(S) /\ Cardinality(S) <= Cardinality(Artifacts)
      /\ Cardinality(T) \in Nat /\ Cardinality(S) \in Nat /\ Cardinality(Artifacts) \in Nat
  BY <1>1, FS_Subset, FS_CardinalityType
<1>3. /\ MaxRun * Cardinality(T) <= MaxRun * Cardinality(S)
      /\ MaxRun * Cardinality(S) <= MaxRun * Cardinality(Artifacts)
  BY <1>2, ProductsGrow, DescribersAssumption
<1>4. /\ MaxRun * Cardinality(T) \in Nat /\ MaxRun * Cardinality(S) \in Nat
      /\ MaxRun * Cardinality(Artifacts) \in Nat
  BY <1>2, DescribersAssumption
<1> QED
  BY <1>2, <1>3, <1>4, DescribersAssumption DEF DescribersAreShort

\* The artifacts that are counted include the one itself.
LEMMA OneCall ==
  ASSUME DescribersAreShort, TypeOK, NEW a \in Artifacts
  PROVE  /\ Since(a) \in SUBSET Artifacts /\ MaxRun < TTL
         /\ MaxRun <= MaxRun * Cardinality(Since(a))
         /\ \A c \in Artifacts \ {a} : age[c] <= age[a] =>
               2 * MaxRun <= MaxRun * Cardinality(Since(a))
<1>1. a \in Since(a) /\ Since(a) \in SUBSET Artifacts
  BY DescribersAssumption DEF Since, TypeOK
<1>2. {a} \in SUBSET Since(a) /\ Cardinality({a}) = 1
  BY <1>1, FS_Singleton
<1>3. MaxRun * 1 <= MaxRun * Cardinality(Since(a)) /\ MaxRun * 1 = MaxRun
  BY <1>1, <1>2, SetsGrow, DescribersAssumption
<1>4. MaxRun < TTL
  BY <1>1, <1>3, SetsGrow, DescribersAssumption
<1>5. ASSUME NEW c \in Artifacts \ {a}, age[c] <= age[a]
      PROVE  2 * MaxRun <= MaxRun * Cardinality(Since(a))
  <2>1. {a} \cup {c} \in SUBSET Since(a)
    BY <1>1, <1>5 DEF Since
  <2>2. Cardinality({a} \cup {c}) = 2
    <3>1. IsFiniteSet({a}) /\ Cardinality({a}) = 1 /\ c \notin {a}
      BY FS_Singleton
    <3> QED
      BY <3>1, FS_AddElement
  <2>3. MaxRun * 2 <= MaxRun * Cardinality(Since(a))
    BY <1>1, <2>1, <2>2, SetsGrow
  <2>4. MaxRun * 2 = 2 * MaxRun
    BY DescribersAssumption
  <2> QED
    BY <2>3, <2>4
<1> QED
  BY <1>1, <1>3, <1>4, <1>5

LEMMA RemainingType ==
  ASSUME TypeInv
  PROVE  Remaining \in 0..MaxRun
BY DescribersAssumption DEF TypeInv, TypeOK, Remaining, Calls

\* What is taken in time is taken before the stamp is old.
LEMMA InTimeIsRecent ==
  ASSUME TypeInv, DescribersAreShort, NEW a \in Artifacts, InTime(a)
  PROVE  age[a] + Remaining < TTL
<1>1. Since(a) \in SUBSET Artifacts
  BY DEF Since
<1>2. MaxRun * Cardinality(Since(a)) < TTL /\ MaxRun * Cardinality(Since(a)) \in Nat
  BY <1>1, SetsGrow
<1>3. age[a] \in Nat /\ Remaining \in Nat
  BY RemainingType, DescribersAssumption DEF TypeInv, TypeOK
<1> QED
  BY <1>2, <1>3, DescribersAssumption DEF InTime

\* More artifacts count and no more time is left to wait: still in time.
LEMMA StillInTime ==
  ASSUME TypeInv, TypeInv', DescribersAreShort, NEW a \in Artifacts, InTime(a),
         Since(a) \subseteq Since(a)', age'[a] + Remaining' <= age[a] + Remaining
  PROVE  InTime(a)'
<1>1. Since(a) \in SUBSET Since(a)' /\ Since(a)' \in SUBSET Artifacts
  BY DEF Since
<1>2. /\ MaxRun * Cardinality(Since(a)) <= MaxRun * Cardinality(Since(a)')
      /\ MaxRun * Cardinality(Since(a)) \in Nat /\ MaxRun * Cardinality(Since(a)') \in Nat
  BY <1>1, SetsGrow
<1>3. age[a] \in Nat /\ Remaining \in Nat
  BY RemainingType, DescribersAssumption DEF TypeInv, TypeOK
<1>4. age'[a] \in Nat
  BY DescribersAssumption DEF TypeInv, TypeOK
<1>5. Remaining' \in Nat
  BY DescribersAssumption DEF TypeInv, TypeOK, Remaining, Calls
<1> QED
  BY <1>2, <1>3, <1>4, <1>5 DEF InTime

\* A stamp is set on c while the driver rests: whatever waits has one call more.
LEMMA InTimeAfterStamp ==
  ASSUME TypeInv, TypeInv', DescribersAreShort, NEW a \in Artifacts, InTime(a),
         NEW e \in Events, Stamp(e), ~Recently(e.of),
         Remaining' = Remaining \/ Remaining = 0
  PROVE  InTime(a)' /\ e.of # a
<1> DEFINE c == e.of
<1>1. /\ c \in Artifacts /\ age' = [age EXCEPT ![c] = 0] /\ age \in [Artifacts -> 0..TTL]
      /\ ~(age[c] < TTL)
  BY DEF Events, Stamp, TypeInv, TypeOK, Recently
<1>2. age[a] \in Nat /\ Remaining \in Nat /\ Remaining' \in Nat /\ Remaining' <= MaxRun
  BY RemainingType, DescribersAssumption DEF TypeInv, TypeOK, Remaining, Calls
<1>3. age[a] < TTL /\ c # a
  BY <1>1, <1>2, InTimeIsRecent, DescribersAssumption
<1>4. /\ age'[a] = age[a] /\ c \notin Since(a)
      /\ Since(a) \cup {c} \in SUBSET Since(a)' /\ Since(a)' \in SUBSET Artifacts
  BY <1>1, <1>2, <1>3, DescribersAssumption DEF Since
<1>5. CASE Remaining' = Remaining
  BY <1>3, <1>4, <1>5, StillInTime, <1>2
<1>6. CASE Remaining = 0
  <2>1. IsFiniteSet(Since(a)) /\ Since(a) \in SUBSET Artifacts
    BY FS_Subset DEF Since, DescribersAreShort
  <2>2. /\ Cardinality(Since(a) \cup {c}) = Cardinality(Since(a)) + 1
        /\ Cardinality(Since(a)) \in Nat
    BY <2>1, <1>4, FS_AddElement, FS_CardinalityType
  <2>3. MaxRun * (Cardinality(Since(a)) + 1) = MaxRun * Cardinality(Since(a)) + MaxRun
    BY <2>2, DescribersAssumption
  <2>4. MaxRun * Cardinality(Since(a) \cup {c}) <= MaxRun * Cardinality(Since(a)')
    BY <1>4, SetsGrow
  <2>5. /\ MaxRun * Cardinality(Since(a)') \in Nat
        /\ MaxRun * Cardinality(Since(a)) \in Nat
    BY <1>4, <2>1, SetsGrow
  <2> QED
    BY <1>2, <1>3, <1>4, <1>6, <2>2, <2>3, <2>4, <2>5, DescribersAssumption DEF InTime
<1> QED
  BY <1>3, <1>5, <1>6

----------------------------------------------------------------------------
LEMMA InitOnce == Init => OnceInv
<1> SUFFICES ASSUME Init PROVE OnceInv
  OBVIOUS
<1>1. DOMAIN feed = {} /\ inline = {}
  BY DEF Init
<1>2. \A n \in Changes, a \in Artifacts : fired[<<n, a>>] = 0
  BY DEF Init
<1>3. Timed /\ Waiting /\ Resuming /\ Numbered /\ Exclusive
  BY <1>1, <1>2 DEF Timed, Waiting, Resuming, Numbered, Exclusive, Init
<1>4. LoopBroken /\ OncePerChange
  BY <1>2, DescribersAssumption DEF LoopBroken, OncePerChange, Changes
<1> QED
  BY <1>3, <1>4 DEF OnceInv

\* The change has a number that no event has and has fired nothing yet.
LEMMA ChangeOnce ==
  ASSUME TypeInv, OnceInv, RequestInv', NEW a \in Artifacts, NEW target \in Artifacts,
         DirectChange(a) \/ GatewayChange(a, target)
  PROVE  OnceInv'
<1>1. /\ changes' = changes + 1 /\ changes' \in Changes /\ Written(a, changes')
      /\ changes \in Nat /\ changes' # 0
      /\ UNCHANGED <<driver, age, run, fired>>
  BY DescribersAssumption DEF TypeInv, TypeOK, Changes, DirectChange, GatewayChange
<1>2. \A i \in DOMAIN feed' :
        \/ i \in DOMAIN feed /\ feed'[i] = feed[i] /\ feed[i] \in Events
        \/ /\ i = Len(feed) + 1 /\ feed'[i].of = a /\ feed'[i].change = changes'
           /\ feed'[i] \in Events
  <2>1. [of |-> a, change |-> changes'] \in Events /\ feed \in Seq(Events)
    BY <1>1 DEF TypeInv, TypeOK, Events
  <2>2. \A i \in DOMAIN feed : feed[i] \in Events
    BY <2>1
  <2> QED
    BY <1>1, <2>1, <2>2, WrittenFeed DEF TypeInv
<1>3. \A e \in inline' : e \in inline \/ (e = [of |-> target, change |-> changes'])
  BY DEF DirectChange, GatewayChange
<1>4. ASSUME NEW e, e.change = changes', e.of \in Artifacts
      PROVE  ~Spent(e) /\ ~Spent(e)'
  <2>1. fired[<<changes', e.of>>] = 0
    BY <1>1, <1>4 DEF OnceInv, Numbered
  <2> QED
    BY <1>1, <1>4, <2>1 DEF Spent
<1>5. \A e : Spent(e)' = Spent(e)
  BY <1>1 DEF Spent
<1>6. \A b \in Artifacts : InTime(b)' = InTime(b)
  BY <1>1 DEF InTime, Since, Remaining
<1>7. Timed'
  BY <1>1 DEF OnceInv, Timed
<1>8. Waiting'
  BY <1>2, <1>4, <1>5, <1>6 DEF OnceInv, Waiting, Events
<1>11. Exclusive'
  <2> SUFFICES ASSUME NEW i \in DOMAIN feed', feed'[i] \in inline'
               PROVE  ~Spent(feed'[i])
    BY <1>1 DEF Exclusive, Spent
  <2>1. CASE feed'[i].change = changes'
    BY <1>2, <1>4, <2>1 DEF Events
  <2>2. CASE feed'[i].change # changes'
    BY <1>2, <1>3, <2>2 DEF OnceInv, Exclusive
  <2> QED
    BY <2>1, <2>2
<1> QED
  BY <1>1, <1>7, <1>8, <1>11 DEF OnceInv, LoopBroken, OncePerChange

\* A describer is fired for a change that had fired none.
LEMMA StartFired ==
  ASSUME TypeInv, NEW e \in Events, NEW r \in Runs, Start(r, e), ~Spent(e)
  PROVE  /\ e.change # 0 /\ e.change \in Changes /\ e.of \in Artifacts
         /\ fired'[<<e.change, e.of>>] = 1
         /\ \A n \in Changes, a \in Artifacts :
              n # e.change \/ a # e.of => fired'[<<n, a>>] = fired[<<n, a>>]
<1>1. e.change # 0 /\ e.change \in Changes /\ e.of \in Artifacts
  BY DEF Spent, Events
<1>2. fired[<<e.change, e.of>>] = 0 /\ fired \in [Changes \X Artifacts -> 0..2]
  BY <1>1 DEF Spent, TypeInv, TypeOK
<1>3. fired' = [fired EXCEPT ![<<e.change, e.of>>] = 1]
  BY <1>1, <1>2 DEF Start
<1> QED
  BY <1>1, <1>2, <1>3

\* The artifact has no call that runs, so no stamp but that of the new call is set.
LEMMA StampTimed ==
  ASSUME TypeInv, OnceInv, DescribersAreShort, NEW e \in Events, Stamp(e), ~Recently(e.of),
         UNCHANGED run \/ \E r \in Runs : Start(r, e)
  PROVE  Timed'
<1>1. /\ e.of \in Artifacts /\ age' = [age EXCEPT ![e.of] = 0] /\ ~(age[e.of] < TTL)
      /\ age \in [Artifacts -> 0..TTL]
  BY DEF Events, Stamp, TypeInv, TypeOK, Recently
<1>2. \A r \in Runs : run[r] # Idle => run[r].of # e.of
  <2> SUFFICES ASSUME NEW r \in Runs, run[r] # Idle, run[r].of = e.of PROVE FALSE
    OBVIOUS
  <2>1. run[r].took \in 0..MaxRun /\ run[r].took = age[e.of]
    BY DEF TypeInv, TypeOK, Calls, OnceInv, Timed
  <2>2. MaxRun < TTL
    BY <1>1, OneCall DEF TypeInv
  <2> QED
    BY <1>1, <2>1, <2>2, DescribersAssumption
<1>3. \A r \in Runs : run[r] # Idle =>
        run[r].took = age'[run[r].of] /\ run[r].of \in Artifacts
  BY <1>1, <1>2 DEF TypeInv, Working, OnceInv, Timed
<1>4. CASE UNCHANGED run
  BY <1>3, <1>4 DEF Timed
<1>5. ASSUME NEW r \in Runs, Start(r, e) PROVE Timed'
  <2>1. /\ run'[r] = [of |-> e.of, took |-> 0, wrote |-> FALSE]
        /\ \A q \in Runs \ {r} : run'[q] = run[q]
    BY <1>5 DEF Start, TypeInv, TypeOK
  <2> QED
    BY <1>1, <1>3, <2>1 DEF Timed
<1> QED
  BY <1>4, <1>5

\* A request resumes and fires.  Its change may still wait in the feed: the stamp is new.
LEMMA ResumeOnce ==
  ASSUME TypeInv, TypeInv', OnceInv, RequestInv', DescribersAreShort, NEW e \in inline, Resume(e)
  PROVE  OnceInv'
<1>1. /\ e \in Events /\ e.of \in Artifacts /\ e.change \in Changes /\ e.change # 0
      /\ inline' = inline \ {e} /\ UNCHANGED <<changes, feed, connected, driver>>
  BY DEF OnceInv, Resuming, TypeInv, TypeOK, Events, Resume
<1>2. CASE UNCHANGED <<age, run, fired>>
  BY <1>1, <1>2 DEF OnceInv, Timed, Waiting, Resuming, Numbered, Exclusive, LoopBroken,
                    OncePerChange, Spent, InTime, Since, Remaining
<1>3. ASSUME ~Recently(e.of), Stamp(e), NEW r \in Runs, Start(r, e)
      PROVE  OnceInv'
  <2>1. ~Spent(e)
    BY <1>1, <1>3, DescribersAssumption DEF OnceInv, Resuming, Recently
  <2>2. /\ fired'[<<e.change, e.of>>] = 1
        /\ \A n \in Changes, a \in Artifacts :
             n # e.change \/ a # e.of => fired'[<<n, a>>] = fired[<<n, a>>]
    BY <1>1, <1>3, <2>1, StartFired
  <2>3. Remaining' = Remaining
    BY <1>1, <1>3, StartType DEF Remaining, TypeInv, TypeOK
  <2>4. Timed'
    BY <1>1, <1>3, StampTimed
  <2>6. InTime(e.of)'
    <3>1. age'[e.of] = 0 /\ Remaining' \in 0..MaxRun
      BY <1>1, <1>3, <2>3, RemainingType DEF Stamp, TypeInv, TypeOK
    <3>2. e.of \in Since(e.of)' /\ Since(e.of)' \in SUBSET Artifacts
      BY <1>1, <3>1, DescribersAssumption DEF Since
    <3>3. {e.of} \in SUBSET Since(e.of)' /\ Cardinality({e.of}) = 1
      BY <3>2, FS_Singleton
    <3>4. MaxRun * 1 <= MaxRun * Cardinality(Since(e.of)')
      BY <3>2, <3>3, SetsGrow
    <3>5. MaxRun * Cardinality(Since(e.of)') \in Nat
      BY <3>2, <3>3, SetsGrow
    <3> QED
      BY <3>1, <3>4, <3>5, DescribersAssumption DEF InTime
  <2>7. Waiting'
    <3> SUFFICES ASSUME NEW i \in DOMAIN feed, Spent(feed[i])'
                 PROVE  InTime(feed[i].of)'
      BY <1>1 DEF Waiting
    <3>1. feed[i].of \in Artifacts /\ feed[i].change \in Changes
      BY FeedEvents DEF TypeInv
    <3>2. CASE feed[i].of = e.of
      BY <1>1, <2>6, <3>2 DEF InTime, Since
    <3>3. CASE feed[i].of # e.of
      <4>1. Spent(feed[i])
        BY <1>1, <2>2, <3>1, <3>3 DEF Spent
      <4>2. InTime(feed[i].of)
        BY <4>1 DEF OnceInv, Waiting
      <4> DEFINE a == feed[i].of
      <4>3. a \in Artifacts /\ InTime(a) /\ feed' = feed
        BY <1>1, <3>1, <4>2
      <4> HIDE DEF a
      <4>4. ASSUME NEW b \in Artifacts, InTime(b) PROVE InTime(b)'
        BY <1>1, <1>3, <2>3, <4>4, InTimeAfterStamp
      <4> QED
        BY <4>3, <4>4 DEF a, InTime, Since
    <3> QED
      BY <3>2, <3>3
  <2>10. Exclusive'
    <3> SUFFICES ASSUME NEW i \in DOMAIN feed, feed[i] \in inline, feed[i] # e
                 PROVE  ~Spent(feed[i])'
      BY <1>1 DEF Exclusive
    <3>1. /\ feed[i].of \in Artifacts /\ feed[i].change \in Changes
          /\ feed[i].change # e.change /\ ~Spent(feed[i])
      BY FeedEvents DEF TypeInv, OnceInv, Numbered, Exclusive
    <3> QED
      BY <1>1, <2>2, <3>1 DEF Spent
  <2>11. LoopBroken' /\ OncePerChange'
    BY <1>1, <2>2, DescribersAssumption DEF OnceInv, LoopBroken, OncePerChange, Changes
  <2> QED
    BY <2>4, <2>7, <2>10, <2>11 DEF OnceInv
<1> QED
  BY <1>2, <1>3 DEF Resume

\* The driver takes an event.  One that must not fire is still in time.
LEMMA HandleOnce ==
  ASSUME TypeInv, TypeInv', OnceInv, RequestInv', DescribersAreShort, Handle
  PROVE  OnceInv'
<1> DEFINE e == Head(feed)
<1>1. /\ e \in Events /\ e.of \in Artifacts /\ e.change \in Changes /\ e = feed[1]
      /\ 1 \in DOMAIN feed
      /\ driver = NoRun /\ Remaining = 0 /\ UNCHANGED <<changes, connected, inline>>
  BY HandledFeed, FeedEvents DEF TypeInv, Handle, Remaining
<1>2. \/ /\ Recently(e.of)
         /\ UNCHANGED <<driver, age, run, fired>>
      \/ /\ ~Recently(e.of)
         /\ Stamp(e)
         /\ UNCHANGED <<driver, run, fired>>
      \/ /\ ~Recently(e.of)
         /\ Stamp(e)
         /\ \E r \in Runs : Start(r, e) /\ driver' = r
  BY DEF Handle
<1> HIDE DEF e
<1>3. ~Recently(e.of) => ~Spent(e)
  <2> SUFFICES ASSUME Spent(e) PROVE Recently(e.of)
    OBVIOUS
  <2>1. InTime(e.of)
    BY <1>1 DEF OnceInv, Waiting
  <2> QED
    BY <1>1, <2>1, InTimeIsRecent, DescribersAssumption DEF Recently, TypeInv, TypeOK
<1>4. \A i \in DOMAIN feed' :
        /\ i + 1 \in DOMAIN feed /\ i \in Nat \ {0} /\ feed'[i] = feed[i + 1] /\ feed'[i] \in Events
        /\ feed'[i].of \in Artifacts /\ feed'[i].change \in Changes
        /\ feed'[i].change = e.change => e.change = 0
  <2>1. \A i \in DOMAIN feed' :
          /\ i + 1 \in DOMAIN feed /\ i \in Nat \ {0} /\ feed'[i] = feed[i + 1] /\ feed'[i] \in Events
          /\ feed'[i].of \in Artifacts /\ feed'[i].change \in Changes
    BY HandledFeed, FeedEvents DEF TypeInv
  <2>2. \A i \in DOMAIN feed' : i + 1 # 1
    BY <2>1
  <2> QED
    BY <1>1, <2>1, <2>2 DEF OnceInv, Numbered
<1>5. /\ \A n \in Changes, a \in Artifacts :
           n # e.change \/ a # e.of => fired'[<<n, a>>] = fired[<<n, a>>]
      /\ \/ fired' = fired
         \/ ~Recently(e.of) /\ e.change # 0 /\ fired'[<<e.change, e.of>>] = 1
  BY <1>1, <1>2, <1>3, StartFired
<1>6. \A f \in Events : f.change # e.change \/ e.change = 0 => (Spent(f)' => Spent(f))
  BY <1>5 DEF Spent, Events
<1>7. Timed'
  BY <1>1, <1>2, StampTimed DEF OnceInv, Timed
<1>8. \A a \in Artifacts : InTime(a) => InTime(a)'
  <2> SUFFICES ASSUME NEW a \in Artifacts, InTime(a) PROVE InTime(a)'
    OBVIOUS
  <2>1. CASE UNCHANGED <<driver, age, run>>
    BY <2>1 DEF InTime, Since, Remaining
  <2>2. CASE ~Recently(e.of) /\ Stamp(e)
    BY <1>1, <2>2, InTimeAfterStamp
  <2> QED
    BY <1>2, <2>1, <2>2
<1>9. Waiting'
  BY <1>4, <1>6, <1>8 DEF OnceInv, Waiting
<1>12. Exclusive'
  BY <1>1, <1>4, <1>6 DEF OnceInv, Exclusive
<1>13. LoopBroken' /\ OncePerChange'
  BY <1>1, <1>5, DescribersAssumption DEF OnceInv, LoopBroken, OncePerChange, Changes
<1> QED
  BY <1>7, <1>9, <1>12, <1>13 DEF OnceInv

\* The describer writes while its stamp is as old as it is itself; of the driver's call
\* before it no more is left than what the stamp of that call's artifact allows.
LEMMA WriteBackOnce ==
  ASSUME TypeInv, TypeInv', OnceInv, RequestInv', DescribersAreShort, NEW r \in Runs, WriteBack(r)
  PROVE  OnceInv'
<1> DEFINE a == run[r].of
<1>1. /\ a \in Artifacts /\ run[r] \in Calls /\ run[r] # Idle /\ age[a] = run[r].took
      /\ 0 \in Changes /\ Written(a, 0)
      /\ UNCHANGED <<changes, connected, driver, inline, age, fired>>
  BY DescribersAssumption
    DEF TypeInv, Working, TypeOK, OnceInv, Timed, WriteBack, Changes
<1> HIDE DEF a
<1>2. \A q \in Runs : /\ run'[q].of = run[q].of /\ run'[q].took = run[q].took
                      /\ run'[q] # Idle => run[q] # Idle
  <2>1. run' = [run EXCEPT ![r].wrote = TRUE] /\ run \in [Runs -> Calls]
    BY DEF WriteBack, TypeInv, TypeOK
  <2> QED
    BY <1>1, <2>1 DEF Calls
<1>3. Remaining' = Remaining
  BY <1>1, <1>2 DEF Remaining, TypeInv, TypeOK
<1>4. InTime(a)
  <2>1. /\ age[a] \in Nat /\ age[a] <= MaxRun /\ Remaining \in Nat
        /\ MaxRun <= MaxRun * Cardinality(Since(a))
        /\ \A c \in Artifacts \ {a} : age[c] <= age[a] =>
              2 * MaxRun <= MaxRun * Cardinality(Since(a))
        /\ MaxRun * Cardinality(Since(a)) \in Nat
    BY <1>1, OneCall, SetsGrow, RemainingType, DescribersAssumption DEF TypeInv, Calls
  <2>2. CASE driver = NoRun
    <3>1. Remaining = 0
      BY <2>2 DEF Remaining
    <3> QED
      BY <2>1, <3>1, DescribersAssumption DEF InTime
  <2>3. CASE driver # NoRun
    <3> DEFINE c == run[driver].of
    <3>1. /\ c \in Artifacts /\ age[c] = run[driver].took /\ age[c] \in Nat
          /\ age[c] <= MaxRun /\ Remaining = MaxRun - age[c]
      BY <2>3, DescribersAssumption
        DEF TypeInv, Working, TypeOK, OnceInv, Timed, Calls, Remaining
    <3> HIDE DEF c
    <3>2. CASE age[c] <= age[a] /\ c # a
      BY <1>1, <2>1, <3>1, <3>2, DescribersAssumption DEF InTime
    <3>3. CASE age[c] > age[a] \/ c = a
      BY <1>1, <2>1, <3>1, <3>3, DescribersAssumption DEF InTime
    <3> QED
      BY <2>1, <3>1, <3>2, <3>3
  <2> QED
    BY <2>2, <2>3
<1>5. \A b \in Artifacts : InTime(b)' = InTime(b)
  BY <1>1, <1>3 DEF InTime, Since
<1>6. \A f : Spent(f)' = Spent(f)
  BY <1>1 DEF Spent
<1>7. \A i \in DOMAIN feed' :
        \/ i \in DOMAIN feed /\ feed'[i] = feed[i] /\ feed[i].of \in Artifacts
        \/ i = Len(feed) + 1 /\ feed'[i].of = a /\ feed'[i].change = 0
  BY <1>1, WrittenFeed, FeedEvents DEF TypeInv
<1>8. Timed'
  BY <1>1, <1>2 DEF OnceInv, Timed
<1>9. Waiting'
  BY <1>1, <1>4, <1>5, <1>6, <1>7 DEF OnceInv, Waiting
<1>10. LoopBroken' /\ OncePerChange'
  BY <1>1 DEF OnceInv, LoopBroken, OncePerChange
<1>12. Exclusive'
  <2>1. \A e \in inline : e.change # 0
    BY DEF OnceInv, Resuming
  <2> QED
    BY <1>1, <1>6, <1>7, <2>1 DEF OnceInv, Exclusive
<1> QED
  BY <1>8, <1>9, <1>10, <1>12 DEF OnceInv

\* A call ends, and the driver may be free earlier than it had to be.
LEMMA FinishOnce ==
  ASSUME TypeInv, TypeInv', OnceInv, RequestInv', DescribersAreShort, NEW r \in Runs, Finish(r)
  PROVE  OnceInv'
<1>1. /\ run' = [run EXCEPT ![r] = Idle] /\ UNCHANGED <<changes, feed, connected, inline, age, fired>>
      /\ driver' = IF driver = r THEN NoRun ELSE driver
  BY DEF Finish, Released
<1>2. Timed'
  BY <1>1 DEF OnceInv, Timed, TypeInv, TypeOK
<1>3. Remaining' <= Remaining
  BY <1>1, RemainingType, DescribersAssumption DEF Remaining, TypeInv, TypeOK, Calls
<1>4. \A a \in Artifacts : InTime(a) => InTime(a)'
  <2> SUFFICES ASSUME NEW a \in Artifacts, InTime(a) PROVE InTime(a)'
    OBVIOUS
  <2>1. age'[a] + Remaining' <= age[a] + Remaining /\ Since(a) \subseteq Since(a)'
    <3>1. age[a] \in Nat /\ Remaining \in Nat /\ Remaining' \in Int
      BY RemainingType, DescribersAssumption DEF TypeInv, TypeOK, Remaining, Calls
    <3> QED
      BY <1>1, <1>3, <3>1 DEF Since
  <2> QED
    BY <2>1, StillInTime
<1>5. \A f : Spent(f)' = Spent(f)
  BY <1>1 DEF Spent
<1>6. Waiting'
  BY <1>1, <1>4, <1>5, FeedEvents DEF OnceInv, Waiting, TypeInv
<1> QED
  BY <1>1, <1>2, <1>5, <1>6
    DEF OnceInv, Resuming, Numbered, Exclusive, LoopBroken, OncePerChange

LEMMA SocketOnce ==
  ASSUME TypeInv, OnceInv, RequestInv', Disconnect \/ Reconnect
  PROVE  OnceInv'
<1>1. /\ feed' = feed \/ DOMAIN feed' = {}
      /\ UNCHANGED <<changes, driver, inline, age, run, fired>>
  BY DEF Disconnect, Reconnect
<1>2. /\ \A f : Spent(f)' = Spent(f)
      /\ \A a : InTime(a)' = InTime(a)
  BY <1>1 DEF Spent, InTime, Since, Remaining
<1> QED
  BY <1>1, <1>2
    DEF OnceInv, Timed, Waiting, Resuming, Numbered, Exclusive, LoopBroken, OncePerChange

\* Time passes for the stamps and for the driver's call alike, and only while it has one.
LEMMA TickOnce ==
  ASSUME TypeInv, TypeInv', OnceInv, RequestInv', DescribersAreShort, Tick
  PROVE  OnceInv'
<1>1. /\ UNCHANGED <<changes, feed, connected, driver, inline, fired>> /\ inline = {}
      /\ driver # NoRun \/ DOMAIN feed = {}
      /\ age \in [Artifacts -> 0..TTL]
      /\ age' = [a \in Artifacts |-> IF age[a] < TTL THEN age[a] + 1 ELSE TTL]
  BY DEF Tick, TypeInv, TypeOK
<1>2. ASSUME NEW r \in Runs
      PROVE  /\ run[r] = Idle => run'[r] = Idle
             /\ run[r] # Idle => /\ run'[r].of = run[r].of /\ run'[r].took = run[r].took + 1
                                 /\ run[r].took < MaxRun /\ run[r].of \in Artifacts
                                 /\ run[r].took \in Nat
  BY DEF Tick, TypeInv, Working, TypeOK, Calls
<1>3. Timed'
  <2> SUFFICES ASSUME NEW r \in Runs, run'[r] # Idle
               PROVE  run'[r].took = age'[run'[r].of]
    BY DEF Timed
  <2>1. run[r] # Idle /\ run[r].took = age[run[r].of] /\ run[r].of \in Artifacts
    BY <1>2 DEF OnceInv, Timed
  <2>2. MaxRun < TTL
    BY <2>1, OneCall DEF TypeInv
  <2>3. age[run[r].of] < TTL
    BY <1>2, <2>1, <2>2, DescribersAssumption
  <2> QED
    BY <1>1, <1>2, <2>1, <2>3
<1>4. ASSUME NEW a \in Artifacts, InTime(a), driver # NoRun PROVE InTime(a)'
  <2>1. driver \in Runs /\ run[driver] # Idle
    BY <1>4 DEF TypeInv, TypeOK
  <2>2. Remaining' = Remaining - 1 /\ Remaining \in Nat
    <3>1. Remaining = MaxRun - run[driver].took
      BY <1>4 DEF Remaining
    <3>2. /\ driver' = driver
          /\ run'[driver].took = run[driver].took + 1
          /\ run[driver].took \in Nat /\ run[driver].took < MaxRun
      BY <1>1, <1>2, <2>1
    <3>3. Remaining' = MaxRun - run'[driver].took
      BY <1>4, <3>2 DEF Remaining
    <3> QED
      BY <3>1, <3>2, <3>3, DescribersAssumption
  <2>3. age[a] \in Nat /\ age[a] < TTL
    BY <1>1, <1>4, <2>2, InTimeIsRecent, DescribersAssumption
  <2>4. age'[a] = age[a] + 1
    BY <1>1, <2>3
  <2>5. Since(a) \subseteq Since(a)'
    BY <1>1, <2>3, <2>4, DescribersAssumption DEF Since
  <2>6. age'[a] + Remaining' <= age[a] + Remaining
    BY <2>2, <2>3, <2>4
  <2> QED
    BY <1>4, <2>5, <2>6, StillInTime
<1>5. \A f : Spent(f)' = Spent(f)
  BY <1>1 DEF Spent
<1>6. Waiting'
  BY <1>1, <1>4, <1>5, FeedEvents DEF OnceInv, Waiting, TypeInv
<1> QED
  BY <1>1, <1>3, <1>5, <1>6
    DEF OnceInv, Resuming, Numbered, Exclusive, LoopBroken, OncePerChange

LEMMA NextOnce ==
  ASSUME TypeInv, TypeInv', OnceInv, RequestInv', DescribersAreShort, [Next]_vars
  PROVE  OnceInv'
<1>1. CASE \E a \in Artifacts : DirectChange(a)
  BY <1>1, ChangeOnce
<1>2. CASE \E a, target \in Artifacts : GatewayChange(a, target)
  BY <1>2, ChangeOnce
<1>3. CASE \E e \in inline : Resume(e)
  BY <1>3, ResumeOnce
<1>4. CASE \E r \in Runs : WriteBack(r) \/ Finish(r)
  BY <1>4, WriteBackOnce, FinishOnce
<1>5. CASE UNCHANGED vars
  BY <1>5 DEF OnceInv, Timed, Waiting, Resuming, Numbered, Exclusive, LoopBroken, OncePerChange,
              Spent, InTime, Since, Remaining, vars
<1> QED
  BY <1>1, <1>2, <1>3, <1>4, <1>5, HandleOnce, SocketOnce, TickOnce DEF Next

----------------------------------------------------------------------------
\* Both sides.

\* What is proved of the record of operators.
P == INSTANCE Evolution_proofs

LEMMA SameAssumption == P!EvolutionAssumption
BY RecordAssumption DEF Record!EvolutionAssumption, P!EvolutionAssumption, Record!Authors,
   P!Authors

LEMMA SameDocuments ==
  /\ P!NoEvidence = Record!NoEvidence /\ P!NoRow = Record!NoRow /\ P!Idle = Record!Idle
  /\ P!Callers = Record!Callers /\ P!NotChosen = Record!NotChosen /\ P!Verdicts = Record!Verdicts
  /\ \A row : P!Exists(row) = Record!Exists(row)
  /\ \A doc : P!Fresh(doc) = Record!Fresh(doc)
BY DEF P!NoEvidence, Record!NoEvidence, P!NoRow, Record!NoRow, P!Idle, Record!Idle,
   P!Callers, Record!Callers, P!NotChosen, Record!NotChosen, P!Verdicts, Record!Verdicts,
   P!Exists, Record!Exists, P!Fresh, Record!Fresh

LEMMA SameChanges ==
  /\ \A row, doc : P!Preserved(row, doc) = Record!Preserved(row, doc)
  /\ \A t, v : P!Counted(t, v) = Record!Counted(t, v)
  /\ \A t : P!Credited(t) = Record!Credited(t)
  /\ \A left : P!Onwards(left) = Record!Onwards(left)
<1>1. \A row, doc : P!Preserved(row, doc) = Record!Preserved(row, doc)
  BY SameDocuments DEF P!Preserved, Record!Preserved
<1>2. \A t, v : P!Counted(t, v) = Record!Counted(t, v)
  BY DEF P!Counted, Record!Counted
<1>3. \A t : P!Credited(t) = Record!Credited(t)
  BY DEF P!Credited, Record!Credited
<1>4. \A left : P!Onwards(left) = Record!Onwards(left)
  BY SameDocuments DEF P!Onwards, Record!Onwards
<1> QED
  BY <1>1, <1>2, <1>3, <1>4

LEMMA SameFitness ==
  /\ \A t : P!Fitness(t) = Record!Fitness(t)
  /\ \A t : P!IsUnfit(t) <=> Record!IsUnfit(t)
  /\ \A t, u : P!Fitter(t, u) <=> Record!Fitter(t, u)
<1>1. \A t : P!Fitness(t) = Record!Fitness(t)
  BY DEF P!Fitness, Record!Fitness
<1>2. P!PriorFitness = Record!PriorFitness /\ P!SquaredQuantile = Record!SquaredQuantile
  BY <1>1, SameDocuments
     DEF P!PriorFitness, Record!PriorFitness, P!SquaredQuantile, Record!SquaredQuantile
<1>3. \A t : P!IsUnfit(t) <=> Record!IsUnfit(t)
  BY <1>1, <1>2 DEF P!IsUnfit, Record!IsUnfit
<1>4. \A t, u : P!Fitter(t, u) <=> Record!Fitter(t, u)
  BY <1>1 DEF P!Fitter, Record!Fitter
<1> QED
  BY <1>1, <1>3, <1>4

LEMMA SameInit == Record!Init => P!Init
<1>1. P!Known = Record!Known
  BY SameDocuments DEF P!Known, Record!Known, P!Twice, Record!Twice
<1> QED
  BY <1>1, SameDocuments DEF P!Init, Record!Init

LEMMA SameEnter ==
  ASSUME NEW w, NEW next
  PROVE  Record!Enter(w, next) => P!Enter(w, next)
BY SameDocuments DEF P!Enter, Record!Enter

LEMMA SamePut ==
  ASSUME NEW c, NEW next
  PROVE  Record!Put(c, next) => P!Put(c, next)
BY SameDocuments DEF P!Put, Record!Put

LEMMA SameCalls ==
  ASSUME NEW w
  PROVE  /\ \A o, doc : Record!PutOperator(w, o, doc) => P!PutOperator(w, o, doc)
         /\ \A o, v : Record!RecordInvocation(w, o, v) => P!RecordInvocation(w, o, v)
         /\ \A x : Record!RecordUse(w, x) => P!RecordUse(w, x)
         /\ Record!Select(w) => P!Select(w)
<1>1. \A o, doc : Record!PutOperator(w, o, doc) => P!PutOperator(w, o, doc)
  BY SameEnter, SameDocuments, SameChanges DEF P!PutOperator, Record!PutOperator
<1>2. \A o, v : Record!RecordInvocation(w, o, v) => P!RecordInvocation(w, o, v)
  BY SameEnter, SameDocuments, SameChanges
     DEF P!RecordInvocation, Record!RecordInvocation, P!Report, Record!Report
<1>3. \A x : Record!RecordUse(w, x) => P!RecordUse(w, x)
  BY SameEnter, SameDocuments DEF P!RecordUse, Record!RecordUse
<1>4. Record!Select(w) => P!Select(w)
  BY SameEnter, SameDocuments DEF P!Select, Record!Select
<1> QED
  BY <1>1, <1>2, <1>3, <1>4

LEMMA SameSteps ==
  ASSUME NEW w
  PROVE  Record!Step(w) => P!Step(w)
<1>1. Record!PutUsed(w) => P!PutUsed(w)
  BY SameDocuments DEF P!PutUsed, Record!PutUsed
<1>2. Record!Credit(w) => P!Credit(w)
  BY SameDocuments, SameChanges DEF P!Credit, Record!Credit, P!Report, Record!Report
<1>3. Record!PutRow(w) => P!PutRow(w)
  BY SamePut, SameDocuments DEF P!PutRow, Record!PutRow
<1>4. Record!GetCandidate(w) => P!GetCandidate(w)
  BY SameDocuments DEF P!GetCandidate, Record!GetCandidate
<1>5. Record!ReturnFittest(w) => P!ReturnFittest(w)
  BY SameDocuments, SameFitness DEF P!ReturnFittest, Record!ReturnFittest
<1> QED
  BY <1>1, <1>2, <1>3, <1>4, <1>5 DEF P!Step, Record!Step

LEMMA SameNext == [Record!Next]_recordVars => [P!Next]_(P!vars)
<1>1. Record!Sweep => P!Sweep
  BY SameDocuments, SameChanges DEF P!Sweep, Record!Sweep
<1>2. Record!Retire => P!Retire
  BY SameDocuments, SameChanges, SameFitness DEF P!Retire, Record!Retire
<1>3. Record!Archive => P!Archive
  BY SamePut, SameChanges DEF P!Archive, Record!Archive
<1>4. Record!Next => P!Next
  BY <1>1, <1>2, <1>3, SameCalls, SameSteps, SameDocuments DEF P!Next, Record!Next
<1> QED
  BY <1>4 DEF recordVars, P!vars

LEMMA SameTypes ==
  P!TypeOK => Record!TypeOK
<1>1. P!Tallies = Record!Tallies /\ P!Steps = Record!Steps /\ P!Authors = Record!Authors
  BY DEF P!Tallies, Record!Tallies, P!Steps, Record!Steps, P!Authors, Record!Authors
<1>2. P!Rows = Record!Rows
  BY <1>1 DEF P!Rows, Record!Rows
<1>3. P!Works = Record!Works
  BY <1>1, <1>2, SameDocuments DEF P!Works, Record!Works
<1> QED
  BY <1>1, <1>2, <1>3, SameDocuments DEF P!TypeOK, Record!TypeOK

LEMMA SameProperties ==
  /\ P!EvidenceIsObserved => EvidenceIsObserved
  /\ P!ArchivedWasRefuted => ArchivedWasRefuted
  /\ P!SelectSpares => SelectSpares
<1>1. P!EvidenceIsObserved => EvidenceIsObserved
  BY SameDocuments DEF EvidenceIsObserved, P!EvidenceIsObserved, Record!EvidenceIsObserved
<1>2. P!ArchivedWasRefuted => ArchivedWasRefuted
  BY DEF ArchivedWasRefuted, P!ArchivedWasRefuted, Record!ArchivedWasRefuted
<1>3. P!SelectSpares => SelectSpares
  BY SameDocuments, SameFitness DEF SelectSpares, P!SelectSpares, Record!SelectSpares
<1> QED
  BY <1>1, <1>2, <1>3

\* A step is one of the describers or one of the record, and leaves the other side alone.
LEMMA OneSideMoves ==
  ASSUME [WriteBackNext]_<<side, vars, recordVars>>
  PROVE  [Next]_vars /\ [Record!Next]_recordVars
BY DEF WriteBackNext, vars, recordVars

LEMMA WriteBackInvariant ==
  WriteBackSpec => [](TypeInv /\ P!IInv) /\ [][P!AloneLoses]_(P!vars)
<1>1. WriteBackInit => TypeInv /\ P!IInv
  BY InitType, SameInit, SameAssumption, P!InitHolds DEF WriteBackInit
<1>2. ASSUME TypeInv, P!IInv, [WriteBackNext]_<<side, vars, recordVars>>
      PROVE  TypeInv' /\ P!IInv' /\ [P!AloneLoses]_(P!vars)
  <2>1. [Next]_vars /\ [P!Next]_(P!vars)
    BY <1>2, OneSideMoves, SameNext
  <2> QED
    BY <1>2, <2>1, NextType, SameAssumption, P!NextKeeps
<1> QED
  BY <1>1, <1>2, PTL DEF WriteBackSpec

\* Every variable of both sides has its type.
THEOREM WriteBackTypesOK == WriteBackSpec => []TypesOK
<1>1. TypeInv /\ P!IInv => TypesOK
  BY SameTypes DEF TypeInv, TypesOK, P!IInv
<1> QED
  BY <1>1, WriteBackInvariant, PTL

\* A describer that a request fires is the first for its change, whatever operators record
\* meanwhile and however long describers take.
THEOREM WriteBackRequests ==
  WriteBackSpec => [][RequestsFireFirst]_<<side, vars, recordVars>>
<1>1. WriteBackInit => TypeInv /\ RequestInv
  BY InitType, InitRequests DEF WriteBackInit
<1>2. ASSUME TypeInv, RequestInv, [WriteBackNext]_<<side, vars, recordVars>>
      PROVE  TypeInv' /\ RequestInv' /\ RequestsFireFirst
  <2>1. [Next]_vars
    BY <1>2, OneSideMoves
  <2>2. TypeInv'
    BY <1>2, <2>1, NextType
  <2> QED
    BY <1>2, <2>1, <2>2, NextRequests, NextFiresFirst
<1> QED
  BY <1>1, <1>2, PTL DEF WriteBackSpec

\* Where a describer of each artifact, one after the other, fits into the window, as in the
\* run, none fires because of a describer and none twice for one change (dispatcher.py
\* 154-157, events.py 7-8).  Calls of 30 s and a window of 15 s are not of that kind.
THEOREM WriteBackBreaksLoop ==
  ASSUME DescribersAreShort
  PROVE  WriteBackSpec => [](LoopBroken /\ OncePerChange)
<1>1. WriteBackInit => TypeInv /\ OnceInv
  BY InitType, InitOnce DEF WriteBackInit
<1>2. ASSUME TypeInv, OnceInv, [WriteBackNext]_<<side, vars, recordVars>>
      PROVE  TypeInv' /\ OnceInv'
  <2>1. [Next]_vars /\ TypeInv'
    BY <1>2, OneSideMoves, NextType
  <2>2. RequestInv'
    BY <1>2, <2>1, NextRequests DEF OnceInv
  <2> QED
    BY <1>2, <2>1, <2>2, NextOnce
<1>3. OnceInv => LoopBroken /\ OncePerChange
  BY DEF OnceInv
<1> QED
  BY <1>1, <1>2, <1>3, PTL DEF WriteBackSpec

\* The counters of an operator were reported of the behaviour it is stored with.
THEOREM WriteBackEvidence == WriteBackSpec => []EvidenceIsObserved
<1>1. P!IInv => EvidenceIsObserved
  BY SameAssumption, SameProperties, P!InvariantSays
<1> QED
  BY <1>1, WriteBackInvariant, PTL

\* Nobody is retired before a third refutation.
THEOREM WriteBackArchives == WriteBackSpec => []ArchivedWasRefuted
<1>1. P!IInv => ArchivedWasRefuted
  BY SameAssumption, SameProperties, P!InvariantSays
<1> QED
  BY <1>1, WriteBackInvariant, PTL

\* select spares what nothing is known about.
THEOREM WriteBackSelects == WriteBackSpec => []SelectSpares
<1>1. P!IInv => SelectSpares
  BY SameAssumption, SameProperties, P!InvariantSays
<1> QED
  BY <1>1, WriteBackInvariant, PTL

\* A write that nothing overlapped loses nothing.
THEOREM WriteBackLosesNothing == WriteBackSpec => AloneLosesNothing
<1>1. [P!AloneLoses]_(P!vars) =>
       [\A c \in Record!Callers, o \in Operators :
          (call[c].do \in {"put", "archive"} /\ call'[c] # call[c] /\ call[c].op = o
            /\ ~overlapped[c] /\ Record!Exists(store[o])) =>
            LET old == store[o]
                new == store'[o]
            IN /\ old.by \in People => new.by \in People
               /\ old.cited => new.cited
               /\ \/ \A f \in DOMAIN Record!NoEvidence : new.tally[f] >= old.tally[f]
                  \/ new.spec # old.spec /\ new.reset = old.spec]_(Record!vars)
  BY SameDocuments DEF P!AloneLoses, P!vars, Record!vars
<1> QED
  BY <1>1, WriteBackInvariant, PTL DEF AloneLosesNothing, Record!AloneLosesNothing
=============================================================================
