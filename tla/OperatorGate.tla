---------------------------- MODULE OperatorGate ----------------------------
(***************************************************************************)
(* The gate before a persona tool that the platform offers as an operator  *)
(* (operator_gate.py; called from the dispatcher and from                  *)
(* /personas/{slug}/tools/call, one gate and one cache).                   *)
(*                                                                         *)
(* A check reads the clock, looks at the cache, and on a miss awaits one   *)
(* Mantle read; any number of checks of one caller may be in that await    *)
(* together, and Mantle may change its mind while they are.  Time is a     *)
(* counter; the read ends within MaxLatency of it or fails.                *)
(***************************************************************************)
EXTENDS Naturals, FiniteSets

CONSTANTS
  Callers,      \* cache keys: the digest of a caller's token
  Operators,    \* the operators the platform may offer
  Tools,        \* (persona slug, tool) pairs
  Runs,         \* Runs[o]: the tool operator o runs
  Personal,     \* tools on a person's own server (the slug is a UUID)
  Checks,       \* concurrent calls of OperatorGate.check
  NoCaller, NoTool,
  TTL,          \* OperatorGate.ttl
  MaxLatency,   \* the Mantle client's timeout
  MaxEntries,   \* 4096 in the code
  MaxTime       \* bound on the clock

GateAssumption ==
  /\ Runs \in [Operators -> Tools]
  /\ Personal \subseteq Tools
  /\ NoCaller \notin Callers /\ NoTool \notin Tools
  /\ TTL \in Nat /\ MaxLatency \in Nat /\ MaxLatency < TTL
  /\ MaxEntries \in Nat /\ MaxTime \in Nat

VARIABLES
  clock,
  offered,    \* Mantle: the operators it names
  may,        \* may[c]: Mantle: those caller c may invoke
  since,      \* since[c][t]: history, when Mantle's verdict on t last changed for c
  seen,       \* seen[c]: OperatorGate._seen
  pc,         \* pc[k]: "idle", "asked" (request sent) or "answered" (reply on its way)
  who, tool,  \* the arguments of check k
  start,      \* start[k]: `now` of _offered
  reply,      \* reply[k]: what Mantle read for k
  outcome     \* how the check that ended in the latest step ended

mantleVars == <<offered, may, since>>
checkVars == <<pc, who, tool, start, reply>>
vars == <<clock, offered, may, since, seen, pc, who, tool, start, reply, outcome>>

\* An answer is the dict _offered builds, kept as the tools it maps to False:
\* a tool it lacks and a tool it maps to True both pass.
Answers == SUBSET Tools

NoEntry == [kept |-> FALSE, at |-> 0, answer |-> {}]
Entries == [kept : BOOLEAN, at : Nat, answer : Answers]

NoOutcome == [who |-> NoCaller, tool |-> NoTool, verdict |-> "none"]
Outcomes == [who : Callers \cup {NoCaller}, tool : Tools \cup {NoTool},
             verdict : {"none", "allowed", "refused", "unknown"}]

TypeOK ==
  /\ clock \in Nat
  /\ offered \subseteq Operators
  /\ may \in [Callers -> SUBSET Operators]
  /\ since \in [Callers -> [Tools -> Nat]]
  /\ seen \in [Callers -> Entries]
  /\ pc \in [Checks -> {"idle", "asked", "answered"}]
  /\ who \in [Checks -> Callers \cup {NoCaller}]
  /\ tool \in [Checks -> Tools \cup {NoTool}]
  /\ start \in [Checks -> Nat]
  /\ reply \in [Checks -> Answers]
  /\ outcome \in Outcomes
  /\ \A k \in Checks : /\ (who[k] = NoCaller) <=> (pc[k] = "idle")
                       /\ (tool[k] = NoTool) <=> (pc[k] = "idle")

Init ==
  /\ clock = 0
  /\ offered \in SUBSET Operators
  /\ may \in [Callers -> SUBSET Operators]
  /\ since = [c \in Callers |-> [t \in Tools |-> 0]]
  /\ seen = [c \in Callers |-> NoEntry]
  /\ pc = [k \in Checks |-> "idle"]
  /\ who = [k \in Checks |-> NoCaller]
  /\ tool = [k \in Checks |-> NoTool]
  /\ start = [k \in Checks |-> 0]
  /\ reply = [k \in Checks |-> {}]
  /\ outcome = NoOutcome

----------------------------------------------------------------------------
\* The tools that operators o withhold from one who may invoke m of them:
\* those that some operator runs, but none that is granted.
Withheld(o, m) == {Runs[p] : p \in o} \ {Runs[p] : p \in o \cap m}

\* Operators are offered or withdrawn, grants given or taken back.
MantleChanges(o2, m2) ==
  /\ offered' = o2
  /\ may' = m2
  /\ since' = [c \in Callers |-> [t \in Tools |->
       IF t \in Withheld(o2, m2[c]) <=> t \in Withheld(offered, may[c])
       THEN since[c][t] ELSE clock]]
  /\ outcome' = NoOutcome
  /\ UNCHANGED <<clock, seen, checkVars>>

OffersChange == \E p \in Operators :
  MantleChanges((offered \ {p}) \cup ({p} \ offered), may)

GrantsChange == \E c \in Callers, m \in SUBSET Operators :
  /\ m # may[c]
  /\ MantleChanges(offered, [may EXCEPT ![c] = m])

\* Time passes; no read outlives MaxLatency.
Tick ==
  /\ clock < MaxTime
  /\ \A k \in Checks : pc[k] # "idle" => clock < start[k] + MaxLatency
  /\ clock' = clock + 1
  /\ outcome' = NoOutcome
  /\ UNCHANGED <<mantleVars, seen, checkVars>>

----------------------------------------------------------------------------
Fresh_Late(e, now) == e.kept /\ now < e.at + 2 * TTL       \* mutant

\* now - hit[0] < self.ttl
Fresh(e, now) == e.kept /\ now < e.at + TTL

Ended(c, t, v) == [who |-> c, tool |-> t, verdict |-> v]
Answered(c, t, a) == Ended(c, t, IF t \in a THEN "refused" ELSE "allowed")

\* check(slug, tool, token) up to its await, or to its end when it needs none.
OwnServer(c, t) ==
  /\ t \in Personal
  /\ outcome' = Ended(c, t, "allowed")
  /\ UNCHANGED <<clock, mantleVars, seen, checkVars>>

Hit(c, t) ==
  /\ t \notin Personal
  /\ Fresh(seen[c], clock)
  /\ outcome' = Answered(c, t, seen[c].answer)
  /\ UNCHANGED <<clock, mantleVars, seen, checkVars>>

Miss(k, c, t) ==
  /\ pc[k] = "idle"
  /\ t \notin Personal
  /\ ~Fresh(seen[c], clock)
  /\ pc' = [pc EXCEPT ![k] = "asked"]
  /\ who' = [who EXCEPT ![k] = c]
  /\ tool' = [tool EXCEPT ![k] = t]
  /\ start' = [start EXCEPT ![k] = clock]
  /\ outcome' = NoOutcome
  /\ UNCHANGED <<clock, mantleVars, seen, reply>>

\* Mutant: a tool that two operators run needs both grants.
Offered_Both(o, m) == {t \in Tools : \E p \in o : Runs[p] = t /\ p \notin m}

\* The dict _offered builds from the operators Mantle names: either of two
\* operators on one tool clears it.
Offered(o, m) ==
  {t \in Tools : LET items == {p \in o : Runs[p] = t}
                 IN items # {} /\ \A p \in items : p \notin m}

\* Mantle evaluates the request of k.
MantleReads(k) ==
  /\ pc[k] = "asked"
  /\ pc' = [pc EXCEPT ![k] = "answered"]
  /\ reply' = [reply EXCEPT ![k] = Offered(offered, may[who[k]])]
  /\ outcome' = NoOutcome
  /\ UNCHANGED <<clock, mantleVars, seen, who, tool, start>>

\* Mutant: a call that ends keeps its place.
Return_Kept(k) ==
  /\ pc' = [pc EXCEPT ![k] = "idle"]
  /\ UNCHANGED <<who, tool, start, reply>>

\* The call k is over.
Return(k) ==
  /\ pc' = [pc EXCEPT ![k] = "idle"]
  /\ who' = [who EXCEPT ![k] = NoCaller]
  /\ tool' = [tool EXCEPT ![k] = NoTool]
  /\ start' = [start EXCEPT ![k] = 0]
  /\ reply' = [reply EXCEPT ![k] = {}]

\* if len(self._seen) > 4096: keep what is still fresh.
Pruned(now) ==
  IF Cardinality({c \in Callers : seen[c].kept}) > MaxEntries
  THEN [c \in Callers |-> IF Fresh(seen[c], now) THEN seen[c] ELSE NoEntry]
  ELSE seen

\* Mutant: the entry is dated when the answer arrives.
Stored_Arrival(k) ==
  [Pruned(start[k]) EXCEPT ![who[k]] = [kept |-> TRUE, at |-> clock, answer |-> reply[k]]]

\* The entry is dated before the read, at `now`.
Stored(k) ==
  [Pruned(start[k]) EXCEPT
     ![who[k]] = [kept |-> TRUE, at |-> start[k], answer |-> reply[k]]]

\* The reply arrives: it is kept, whatever another check kept meanwhile.
Arrives(k) ==
  /\ pc[k] = "answered"
  /\ seen' = Stored(k)
  /\ outcome' = Answered(who[k], tool[k], reply[k])
  /\ Return(k)
  /\ UNCHANGED <<clock, mantleVars>>

\* platform_operators raised: 503, nothing kept.
Fails(k) ==
  /\ pc[k] # "idle"
  /\ outcome' = Ended(who[k], tool[k], "unknown")
  /\ Return(k)
  /\ UNCHANGED <<clock, mantleVars, seen>>

Next ==
  \/ OffersChange
  \/ GrantsChange
  \/ Tick
  \/ \E c \in Callers, t \in Tools : OwnServer(c, t) \/ Hit(c, t)
  \/ \E k \in Checks, c \in Callers, t \in Tools : Miss(k, c, t)
  \/ \E k \in Checks : MantleReads(k) \/ Arrives(k) \/ Fails(k)

Spec == Init /\ [][Next]_vars

----------------------------------------------------------------------------
\* Properties

\* operator_gate.py 11-12: a withdrawn grant reaches the gate within the TTL.
\* A check that clears a platform operator's tool ends less than TTL after the
\* caller could last invoke it, however cached answers and reads in flight
\* overtake each other.
WithdrawalReaches ==
  /\ outcome.verdict = "allowed" /\ outcome.tool \notin Personal
  /\ outcome.tool \in Withheld(offered, may[outcome.who])
  => clock < since[outcome.who][outcome.tool] + TTL

\* The same for a grant that is given: nobody is refused by an answer that has
\* been wrong for TTL, and either of two operators on one tool clears it.
GrantReaches ==
  /\ outcome.verdict = "refused"
  /\ outcome.tool \notin Withheld(offered, may[outcome.who])
  => clock < since[outcome.who][outcome.tool] + TTL
=============================================================================
