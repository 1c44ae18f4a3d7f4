---------------------------- MODULE MonitorProofs ----------------------------
(***************************************************************************)
(* Proofs about Monitor for any agents and any number of edits, changes and *)
(* failures: the writers of the status implement AtomicStatus, and the      *)
(* safety invariants of the run and of the StatefulSet watcher.             *)
(***************************************************************************)
EXTENDS Monitor, TLAPS

\* While the object keeps its resourceVersion, a copy of it is exact.
FreshCopies == \A w \in fresh : at[w] = "update" /\ copy[w] = status

ReportLocs  == {"ready", "halted", "fail"}
MonitorLocs == {"stats", "old", "delete", "agent", "record"}
CreateRun   == {"sts", "ready"} \cup MonitorLocs
HaltRun     == {"halt", "haltSvcs", "haltMonitor", "halted"}
TerminateRun == {"terminate", "finalizer", "gone"}

\* What the run asks for at the places where it writes the status.
Reported == IF rc = "ready" THEN "Ready" ELSE IF rc = "halted" THEN "Halted" ELSE "NotReady"

\* The operator writes the status for its run only, and is done when the status
\* says what the run asked for.
Reporting ==
    /\ rc \in ReportLocs => /\ at["operator"] # "idle"
                            /\ want["operator"] = [phase |-> Reported, obsGen |-> my.gen]
    /\ rc \notin ReportLocs => at["operator"] = "idle"
    /\ at["operator"] = "done" => status.phase = Reported /\ status.obsGen = my.gen

\* The generation travels from the object to the store, the run and the status.
GenOrder ==
    /\ status.obsGen <= seen.gen /\ seen.gen <= gen
    /\ rc # "idle" => status.obsGen <= my.gen /\ my.gen <= seen.gen
    /\ rc \in MonitorLocs => status.obsGen = my.gen

\* Equal generations mean equal specs, in the store and in the run's copy; an
\* event is on its way when the conditions differ.
Copies ==
    /\ seen.gen = gen => seen.agent = agent /\ seen.halted = halted /\ seen.deleting = deleting
    /\ ~news => seen.paused = paused /\ seen.restore = restore
    /\ rc # "idle" /\ my.gen = seen.gen =>
         /\ my.agent = seen.agent
         /\ rc \in HaltRun => seen.halted
         /\ rc \in CreateRun => ~seen.halted
         /\ rc \in TerminateRun <=> seen.deleting

\* The key is in the queue again when the run is behind the store.  When the
\* worker rests, the status is up to date, or it is known why not.
WakeUps ==
    /\ rc # "idle" /\ (my.gen # seen.gen \/ my.restore # seen.restore) => dirty
    /\ rc = "idle" /\ ~dirty => IF seen.deleting THEN faults # 0
                               ELSE status.obsGen = seen.gen \/ warned \/ Waits(seen)

\* An agent is set up on a stats service that is there.
ServiceFirst ==
    /\ rc \in {"agent", "record"} => my.agent # "none" /\ svc.exists
    /\ rc \in {"old", "delete"} /\ my.agent # "none" => svc.exists

\* Monitoring comes after Ready, Halted after the services and the agent.
Phased ==
    /\ rc \in MonitorLocs => status.phase = "Ready"
    /\ rc \in {"haltMonitor", "halted"} => ~svc.exists /\ serviceMonitor # "owned"

\* The agent is set up before it is recorded, and left alone while the worker
\* rests.
AgentSetUp ==
    /\ rc = "record" => my.agent \in Active
    /\ rc = "idle" /\ ~dirty /\ ~warned /\ ~Waits(seen)
         => seen.deleting \/ seen.halted \/ seen.agent \in Active \cup {"none"}

\* As long as no call fails, the agent on the stats service is the only one
\* set up, and another one is set up only after that one was deleted.
OneAgent ==
    faults = 0 =>
        /\ at["operator"] # "getFailed"
        /\ rc \notin {"agent", "record"} => Active \subseteq {svc.recorded}
        /\ rc \in {"agent", "record"} => Active \subseteq {my.agent}
        /\ rc = "delete" => old = svc.recorded
        /\ rc = "idle" /\ ~dirty /\ ~warned /\ ~Waits(seen)
             => Active \subseteq (IF seen.halted THEN {} ELSE {seen.agent})

\* The delete handler runs while the store has no StatefulSet; the worker
\* writes what the store has, or its key is in the queue again.
Watching ==
    /\ at["handler"] # "idle" => stsSeen = "none"
    /\ stsSeen # "none" /\ ~stsDirty =>
         /\ at["watcher"] # "idle" => want["watcher"] = [replicaReady |-> stsSeen = "ready"]
         /\ at["watcher"] \in {"idle", "done"} => status.replicaReady = (stsSeen = "ready")

(* The inductive invariant.  StatusIsAtomic needs FreshCopies (an update that *)
(* the API server accepts changes the writer's fields only) and GenOrder (a  *)
(* run never reports an older generation than the one before it).            *)
IInv ==
    /\ TypeOK
    /\ FreshCopies /\ Reporting /\ GenOrder
    /\ Copies /\ WakeUps
    /\ ServiceFirst /\ Phased /\ HaltedUnmonitored
    /\ AgentSetUp /\ OneAgent
    /\ Watching

-----------------------------------------------------------------------------
(* The calls of the writers. *)

(* The bounds are numbers, and the counters stay within them.                *)
LEMMA Counters ==
    /\ 1 \in 1..MaxGen /\ 0 \in 0..MaxChanges /\ 0 \in 0..MaxFaults /\ 0 \in 0..MaxGen
    /\ \A i \in 1..MaxGen : i \in 0..MaxGen /\ (i < MaxGen => i + 1 \in 1..MaxGen)
    /\ \A i \in 0..MaxChanges : i < MaxChanges => i + 1 \in 0..MaxChanges
    /\ \A i \in 0..MaxFaults : i < MaxFaults => i + 1 \in 0..MaxFaults /\ i + 1 # 0
  BY StatusUpdateAssumption DEF StatusUpdateAssumption

(* What a writer may ask for.                                                *)
LEMMA ShareFacts ==
    /\ \A w \in Writers : Nothing \in Share(w)
    /\ \A p \in A!Phases, g \in 0..MaxGen : [phase |-> p, obsGen |-> g] \in Share("operator")
    /\ \A w \in {"watcher", "handler"}, b \in BOOLEAN : [replicaReady |-> b] \in Share(w)
  BY DEF Share

(* An update changes the fields of its writer and leaves the others.         *)
LEMMA TransformFacts ==
    ASSUME NEW s \in A!Status, NEW w \in Writers, want[w] \in Share(w)
    PROVE  /\ Transform(s, w) \in A!Status
           /\ w = "operator" => Transform(s, w).replicaReady = s.replicaReady
           /\ w # "operator" => Transform(s, w).phase = s.phase /\ Transform(s, w).obsGen = s.obsGen
           /\ \A p \in A!Phases, g \in 0..MaxGen :
                 want[w] = [phase |-> p, obsGen |-> g]
                     => Transform(s, w).phase = p /\ Transform(s, w).obsGen = g
           /\ \A b \in BOOLEAN :
                 want[w] = [replicaReady |-> b] => Transform(s, w).replicaReady = b
           /\ want[w] = Nothing => Transform(s, w) = s
  <1> DEFINE t == Transform(s, w)
  <1>1. DOMAIN s = {"phase", "obsGen", "replicaReady"} /\ s.phase \in A!Phases /\ s.obsGen \in Nat
        /\ s.replicaReady \in BOOLEAN
    BY DEF A!Status
  <1>2. t = [f \in {"phase", "obsGen", "replicaReady"} |->
                IF f \in DOMAIN want[w] THEN want[w][f] ELSE s[f]]
    BY <1>1 DEF Transform
  <1> HIDE DEF t
  <1>3. t = [phase |-> t.phase, obsGen |-> t.obsGen, replicaReady |-> t.replicaReady]
    BY <1>2
  <1>4. CASE want[w] = Nothing
    <2>1. DOMAIN want[w] = {}
      BY <1>4 DEF Nothing
    <2>2. t.phase = s.phase /\ t.obsGen = s.obsGen /\ t.replicaReady = s.replicaReady
      BY <1>2, <2>1
    <2>3. t = s
      BY <1>1, <1>2, <2>1 DEF A!Status
    <2>4. \A p \in A!Phases, g \in 0..MaxGen : want[w] # [phase |-> p, obsGen |-> g]
      BY <2>1
    <2>5. \A b \in BOOLEAN : want[w] # [replicaReady |-> b]
      BY <2>1
    <2> QED BY <1>4, <2>2, <2>3, <2>4, <2>5 DEF t
  <1>5. ASSUME w = "operator", NEW p \in A!Phases, NEW g \in 0..MaxGen,
               want[w] = [phase |-> p, obsGen |-> g]
        PROVE  t.phase = p /\ t.obsGen = g /\ t.replicaReady = s.replicaReady /\ t \in A!Status
    <2>1. t.phase = p /\ t.obsGen = g /\ t.replicaReady = s.replicaReady
      BY <1>2, <1>5
    <2>2. g \in Nat
      BY StatusUpdateAssumption DEF StatusUpdateAssumption
    <2> QED BY <1>1, <1>3, <2>1, <2>2 DEF A!Status
  <1>6. ASSUME w # "operator", NEW b \in BOOLEAN, want[w] = [replicaReady |-> b]
        PROVE  t.phase = s.phase /\ t.obsGen = s.obsGen /\ t.replicaReady = b /\ t \in A!Status
    <2>1. t.phase = s.phase /\ t.obsGen = s.obsGen /\ t.replicaReady = b
      BY <1>2, <1>6
    <2> QED BY <1>1, <1>3, <2>1 DEF A!Status
  <1>7. CASE want[w] # Nothing /\ w = "operator"
    <2>1. PICK p \in A!Phases, g \in 0..MaxGen : want[w] = [phase |-> p, obsGen |-> g]
      BY <1>7 DEF Share
    <2>2. t.phase = p /\ t.obsGen = g /\ t.replicaReady = s.replicaReady /\ t \in A!Status
      BY <1>5, <1>7, <2>1
    <2>3. \A q \in A!Phases, h \in 0..MaxGen :
             want[w] = [phase |-> q, obsGen |-> h] => q = p /\ h = g
      BY <2>1
    <2>4. \A b \in BOOLEAN : want[w] # [replicaReady |-> b]
      BY <2>1
    <2> QED BY <1>7, <2>2, <2>3, <2>4 DEF t
  <1>8. CASE want[w] # Nothing /\ w # "operator"
    <2>1. PICK b \in BOOLEAN : want[w] = [replicaReady |-> b]
      BY <1>8 DEF Share
    <2>2. t.phase = s.phase /\ t.obsGen = s.obsGen /\ t.replicaReady = b /\ t \in A!Status
      BY <1>6, <1>8, <2>1
    <2>3. \A q \in A!Phases, h \in 0..MaxGen : want[w] # [phase |-> q, obsGen |-> h]
      BY <2>1
    <2>4. \A c \in BOOLEAN : want[w] = [replicaReady |-> c] => c = b
      BY <2>1
    <2> QED BY <1>8, <2>2, <2>3, <2>4 DEF t
  <1> QED BY <1>4, <1>7, <1>8

(* An update begins: its writer had none under way.                          *)
LEMMA BeginFacts ==
    ASSUME WritersOK, FreshCopies, UNCHANGED objectVars,
           NEW w \in Writers, NEW change \in Share(w), Begin(w, change)
    PROVE  /\ WritersOK' /\ FreshCopies'
           /\ at'[w] = "get" /\ want'[w] = change
           /\ \A v \in Writers \ {w} : at'[v] = at[v] /\ want'[v] = want[v]
  <1>1. /\ at[w] # "update" /\ at' = [at EXCEPT ![w] = "get"] /\ copy' = copy
        /\ want' = [want EXCEPT ![w] = change] /\ status' = status /\ fresh' = fresh
    BY DEF Begin, Goto, objectVars
  <1>2. WritersOK'
    BY <1>1 DEF WritersOK, Calls
  <1>3. FreshCopies'
    BY <1>1 DEF FreshCopies, WritersOK
  <1> QED BY <1>1, <1>2, <1>3 DEF WritersOK

(* The caller has taken the result.                                          *)
LEMMA EndFacts ==
    ASSUME WritersOK, FreshCopies, UNCHANGED objectVars, NEW w \in Writers, End(w)
    PROVE  /\ WritersOK' /\ FreshCopies'
           /\ at'[w] = "idle" /\ want'[w] = Nothing
           /\ \A v \in Writers \ {w} : at'[v] = at[v] /\ want'[v] = want[v]
  <1>1. /\ at[w] # "update" /\ at' = [at EXCEPT ![w] = "idle"] /\ copy' = copy
        /\ want' = [want EXCEPT ![w] = Nothing] /\ status' = status /\ fresh' = fresh
    BY DEF End, Goto, objectVars
  <1>2. WritersOK'
    BY <1>1, ShareFacts DEF WritersOK, Calls
  <1>3. FreshCopies'
    BY <1>1 DEF FreshCopies, WritersOK
  <1> QED BY <1>1, <1>2, <1>3 DEF WritersOK

(* A call of a writer either leaves the status alone, or writes what the     *)
(* writer wants on top of the present status; it is done only then.          *)
LEMMA CallFacts ==
    ASSUME ObjectOK, WritersOK, FreshCopies, NEW w \in Writers, CallOf(w)
    PROVE  /\ ObjectOK' /\ WritersOK' /\ FreshCopies'
           /\ gen' = gen /\ want' = want /\ UNCHANGED watchVars
           /\ at[w] # "idle" /\ at'[w] # "idle"
           /\ \A v \in Writers \ {w} : at'[v] = at[v]
           /\ status' = status \/ status' = Transform(status, w)
           /\ at'[w] = "done" => status' = Transform(status, w)
           /\ \/ faults' = faults /\ at'[w] # "getFailed"
              \/ Fault
  <1> DEFINE Goal == /\ status' \in A!Status /\ gen' = gen /\ fresh' \subseteq Writers
                     /\ at' \in [Writers -> Calls] /\ copy' \in [Writers -> A!Status]
                     /\ want' = want /\ UNCHANGED watchVars /\ FreshCopies'
                     /\ at[w] # "idle" /\ at'[w] # "idle"
                     /\ \A v \in Writers \ {w} : at'[v] = at[v]
                     /\ status' = status \/ status' = Transform(status, w)
                     /\ at'[w] = "done" => status' = Transform(status, w)
                     /\ (faults' = faults /\ at'[w] # "getFailed") \/ Fault
  <1>1. NoStatus \in A!Status
    BY DEF NoStatus, A!Status, A!Phases
  <1>2. /\ at \in [Writers -> Calls] /\ copy \in [Writers -> A!Status] /\ want[w] \in Share(w)
        /\ status \in A!Status /\ fresh \subseteq Writers
        /\ \A v \in fresh : at[v] = "update" /\ copy[v] = status
    BY DEF WritersOK, ObjectOK, FreshCopies
  <1>3. Transform(status, w) \in A!Status
    BY <1>2, TransformFacts
  <1>4. ASSUME Get(w) PROVE Goal
    <2>1. /\ at[w] \in {"get", "refresh"} /\ at' = [at EXCEPT ![w] = "update"]
          /\ copy' = [copy EXCEPT ![w] = status] /\ fresh' = fresh \cup {w}
          /\ status' = status /\ gen' = gen /\ want' = want /\ faults' = faults
          /\ UNCHANGED watchVars
      BY <1>4 DEF Get, Goto
    <2>2. FreshCopies'
      BY <1>2, <2>1 DEF FreshCopies
    <2> QED BY <1>2, <2>1, <2>2 DEF Calls
  <1>5. ASSUME GetFails(w) PROVE Goal
    <2>1. /\ Fault /\ status' = status /\ gen' = gen /\ fresh' = fresh /\ want' = want
          /\ UNCHANGED watchVars
          /\ at[w] \in {"get", "refresh"}
          /\ \E c \in {"getFailed", "failed", "update"} : at' = [at EXCEPT ![w] = c]
          /\ copy' = copy \/ copy' = [copy EXCEPT ![w] = NoStatus]
      BY <1>5 DEF GetFails, Goto, Finish, objectVars
    <2>2. w \notin fresh
      BY <1>2, <2>1
    <2>3. FreshCopies'
      BY <1>2, <2>1, <2>2 DEF FreshCopies
    <2> QED BY <1>1, <1>2, <2>1, <2>3 DEF Calls
  <1>6. ASSUME UpdateStatus(w) \/ ReplyLost(w) PROVE Goal
    <2>1. /\ at[w] = "update" /\ w \in fresh /\ status' = Transform(copy[w], w)
          /\ fresh' = (IF status' = status THEN fresh \ {w} ELSE {})
          /\ gen' = gen /\ want' = want /\ UNCHANGED watchVars
          /\ \/ at' = at /\ copy' = copy
             \/ /\ \E c \in {"done", "failed"} : at' = [at EXCEPT ![w] = c]
                /\ copy' = [copy EXCEPT ![w] = NoStatus]
          /\ faults' = faults \/ Fault
      BY <1>6 DEF UpdateStatus, ReplyLost, Committed, Goto, Finish
    <2>2. status' = Transform(status, w)
      BY <1>2, <2>1
    <2>3. FreshCopies'
      BY <1>2, <2>1 DEF FreshCopies
    <2>4. at' \in [Writers -> Calls] /\ copy' \in [Writers -> A!Status]
      BY <1>1, <1>2, <2>1 DEF Calls
    <2>5. at'[w] \in {"update", "done", "failed"} /\ \A v \in Writers \ {w} : at'[v] = at[v]
      BY <1>2, <2>1
    <2> QED BY <1>2, <1>3, <2>1, <2>2, <2>3, <2>4, <2>5
  <1>7. ASSUME UpdateFails(w) \/ TimesOut(w) PROVE Goal
    <2>1. /\ at[w] = "update" /\ Fault /\ fresh' = fresh \ {w}
          /\ status' = status /\ gen' = gen /\ want' = want /\ UNCHANGED watchVars
          /\ at' = [at EXCEPT ![w] = "failed"] /\ copy' = [copy EXCEPT ![w] = NoStatus]
      BY <1>7 DEF UpdateFails, TimesOut, Goto, Finish
    <2>2. FreshCopies'
      BY <1>2, <2>1 DEF FreshCopies
    <2> QED BY <1>1, <1>2, <2>1, <2>2 DEF Calls
  <1>8. ASSUME Conflict(w) PROVE Goal
    <2>1. /\ at[w] = "update" /\ w \notin fresh
          /\ status' = status /\ gen' = gen /\ fresh' = fresh /\ want' = want
          /\ faults' = faults /\ UNCHANGED watchVars
          /\ \E c \in {"refresh", "failed"} : at' = [at EXCEPT ![w] = c]
          /\ copy' = copy \/ copy' = [copy EXCEPT ![w] = NoStatus]
      BY <1>8 DEF Conflict, Goto, Finish, objectVars
    <2>2. FreshCopies'
      BY <1>2, <2>1 DEF FreshCopies
    <2> QED BY <1>1, <1>2, <2>1, <2>2 DEF Calls
  <1>9. Goal
    BY <1>4, <1>5, <1>6, <1>7, <1>8 DEF CallOf
  <1>10. ObjectOK' /\ WritersOK'
    BY <1>9 DEF ObjectOK, WritersOK, Share
  <1> QED BY <1>9, <1>10

-----------------------------------------------------------------------------
(* The steps of the run, by what they do to the run's own state. *)

(* What a step that leaves its variables alone cannot disturb.               *)
LEMMA Frame ==
    /\ ObjectOK /\ UNCHANGED objectVars => ObjectOK'
    /\ WritersOK /\ UNCHANGED writerVars => WritersOK'
    /\ WatchOK /\ UNCHANGED <<watchVars, faults>> => WatchOK'
    /\ InputOK /\ UNCHANGED inputVars => InputOK'
    /\ RunOK /\ UNCHANGED runVars => RunOK'
    /\ ShootOK /\ UNCHANGED shootVars => ShootOK'
    /\ FreshCopies /\ UNCHANGED <<objectVars, writerVars>> => FreshCopies'
    /\ Reporting /\ UNCHANGED <<status, writerVars, runVars>> => Reporting'
    /\ GenOrder /\ UNCHANGED <<objectVars, seen, runVars>> => GenOrder'
    /\ ServiceFirst /\ UNCHANGED <<runVars, shootVars>> => ServiceFirst'
    /\ Phased /\ UNCHANGED <<status, runVars, shootVars>> => Phased'
    /\ HaltedUnmonitored /\ UNCHANGED <<status, shootVars>> => HaltedUnmonitored'
    /\ Watching /\ UNCHANGED <<status, writerVars, watchVars>> => Watching'
  <1>1. ObjectOK /\ UNCHANGED objectVars => ObjectOK'
    BY DEF ObjectOK, objectVars
  <1>2. WritersOK /\ UNCHANGED writerVars => WritersOK'
    BY DEF WritersOK, writerVars
  <1>3. WatchOK /\ UNCHANGED <<watchVars, faults>> => WatchOK'
    BY DEF WatchOK, watchVars
  <1>4. InputOK /\ UNCHANGED inputVars => InputOK'
    BY DEF InputOK, inputVars, specVars, condVars
  <1>5. RunOK /\ UNCHANGED runVars => RunOK'
    BY DEF RunOK, runVars, NoCopy
  <1>6. ShootOK /\ UNCHANGED shootVars => ShootOK'
    BY DEF ShootOK, shootVars
  <1>7. FreshCopies /\ UNCHANGED <<objectVars, writerVars>> => FreshCopies'
    BY DEF FreshCopies, objectVars, writerVars
  <1>8. Reporting /\ UNCHANGED <<status, writerVars, runVars>> => Reporting'
    BY DEF Reporting, Reported, writerVars, runVars
  <1>9. GenOrder /\ UNCHANGED <<objectVars, seen, runVars>> => GenOrder'
    BY DEF GenOrder, objectVars, runVars
  <1>10. ServiceFirst /\ UNCHANGED <<runVars, shootVars>> => ServiceFirst'
    BY DEF ServiceFirst, runVars, shootVars
  <1>11. Phased /\ UNCHANGED <<status, runVars, shootVars>> => Phased'
    BY DEF Phased, runVars, shootVars
  <1>12. HaltedUnmonitored /\ UNCHANGED <<status, shootVars>> => HaltedUnmonitored'
    BY DEF HaltedUnmonitored, shootVars
  <1>13. Watching /\ UNCHANGED <<status, writerVars, watchVars>> => Watching'
    BY DEF Watching, writerVars, watchVars
  <1> QED
    BY <1>1, <1>2, <1>3, <1>4, <1>5, <1>6, <1>7, <1>8, <1>9, <1>10, <1>11, <1>12, <1>13

(* The run: its status writes, its generation, its copy and its wake-up.     *)
RunInv == Reporting /\ GenOrder /\ Copies /\ WakeUps

(* The run goes on from one place to the next without touching the status.   *)
LEMMA GoStep ==
    ASSUME RunInv, RunOK, UNCHANGED <<objectVars, writerVars, inputVars, my>>,
           NEW l \in RunLocs \ (ReportLocs \cup {"idle"}), rc' = l,
           rc \notin ReportLocs \cup {"idle"},
           l \in HaltRun => rc \in HaltRun,
           l \in CreateRun => rc \in CreateRun,
           l \in MonitorLocs => rc \in MonitorLocs,
           l \in TerminateRun <=> rc \in TerminateRun
    PROVE  RunInv'
  <1>1. /\ status' = status /\ gen' = gen /\ at' = at /\ want' = want /\ seen' = seen
        /\ dirty' = dirty /\ my' = my /\ agent' = agent /\ halted' = halted
        /\ deleting' = deleting /\ news' = news /\ paused' = paused /\ restore' = restore
    BY DEF objectVars, writerVars, inputVars, specVars, condVars
  <1>2. Reporting'
    BY <1>1 DEF RunInv, Reporting, Reported
  <1>3. GenOrder'
    BY <1>1 DEF RunInv, GenOrder
  <1>4. Copies'
    BY <1>1 DEF RunInv, Copies
  <1>5. WakeUps'
    BY <1>1 DEF RunInv, WakeUps
  <1> QED BY <1>2, <1>3, <1>4, <1>5 DEF RunInv

(* The run returns: the status reports its generation, or it is retried, or  *)
(* it is known why it has ended early.                                       *)
LEMMA ReturnStep ==
    ASSUME RunInv, ObjectOK, InputOK, WatchOK, RunOK,
           UNCHANGED <<objectVars, specVars, condVars, seen, news>>,
           NEW w \in BOOLEAN, Return(w), rc # "idle",
           at'["operator"] = "idle",
           \/ dirty'
           \/ dirty' = dirty /\ rc \notin TerminateRun /\ (status.obsGen = my.gen \/ w)
           \/ dirty' = dirty /\ rc \in TerminateRun /\ Fault
           \/ dirty' = dirty /\ rc \in CreateRun \ TerminateRun /\ my.restore # "none"
    PROVE  RunInv' /\ RunOK'
  <1>1. /\ status' = status /\ gen' = gen /\ seen' = seen /\ agent' = agent /\ halted' = halted
        /\ deleting' = deleting /\ news' = news /\ paused' = paused /\ restore' = restore
        /\ rc' = "idle" /\ my' = NoCopy /\ warned' = w
    BY DEF objectVars, specVars, condVars, Return
  <1>2. NoCopy \in [gen: 0..MaxGen, agent: Agents, restore: RestoreModes]
    BY MonitorAssumption, Counters DEF MonitorAssumption, NoCopy, RestoreModes
  <1>3. RunOK'
    BY <1>1, <1>2 DEF RunOK, RunLocs, Return
  <1>4. Reporting'
    BY <1>1 DEF RunInv, Reporting, ReportLocs
  <1>5. GenOrder'
    BY <1>1 DEF RunInv, GenOrder, MonitorLocs
  <1>6. Copies'
    BY <1>1 DEF RunInv, Copies
  <1>7. WakeUps'
    <2> SUFFICES ASSUME ~dirty'
                 PROVE  IF seen.deleting THEN faults' # 0
                        ELSE status.obsGen = seen.gen \/ w \/ Waits(seen)
      BY <1>1 DEF WakeUps
    <2>1. /\ ~dirty /\ my.gen = seen.gen /\ my.restore = seen.restore
          /\ rc \in CreateRun => ~seen.halted
          /\ rc \in TerminateRun <=> seen.deleting
      BY DEF RunInv, WakeUps, Copies
    <2>2. Fault => faults' # 0
      BY Counters DEF WatchOK, Fault
    <2> QED BY <2>1, <2>2 DEF Waits
  <1> QED BY <1>3, <1>4, <1>5, <1>6, <1>7 DEF RunInv

(* The run begins to write the status.                                       *)
LEMMA ReportStep ==
    ASSUME RunInv, ObjectOK, WritersOK, FreshCopies, RunOK,
           UNCHANGED <<objectVars, inputVars>>, rc \notin TerminateRun \cup {"idle"},
           NEW phase \in {"Ready", "Halted", "NotReady"}, NEW l \in ReportLocs,
           Report(phase, l),
           l = "ready" => phase = "Ready" /\ rc \in CreateRun,
           l = "halted" => phase = "Halted" /\ rc \in HaltRun,
           l = "fail" => phase = "NotReady"
    PROVE  /\ RunInv' /\ WritersOK' /\ FreshCopies' /\ RunOK'
           /\ rc' = l /\ my' = my /\ at'["operator"] = "get"
           /\ \A v \in {"watcher", "handler"} : at'[v] = at[v] /\ want'[v] = want[v]
  <1>1. /\ status' = status /\ gen' = gen /\ seen' = seen /\ agent' = agent /\ halted' = halted
        /\ deleting' = deleting /\ news' = news /\ paused' = paused /\ restore' = restore
        /\ dirty' = dirty /\ rc' = l /\ my' = my /\ old' = old /\ warned' = warned
        /\ Begin("operator", [phase |-> phase, obsGen |-> my.gen])
    BY DEF objectVars, inputVars, specVars, condVars, Report, Go
  <1>2. my.gen \in 0..MaxGen
    BY DEF RunOK
  <1>3. [phase |-> phase, obsGen |-> my.gen] \in Share("operator")
    BY <1>2, ShareFacts DEF A!Phases
  <1>4. /\ WritersOK' /\ FreshCopies' /\ at'["operator"] = "get"
        /\ want'["operator"] = [phase |-> phase, obsGen |-> my.gen]
        /\ \A v \in {"watcher", "handler"} : at'[v] = at[v] /\ want'[v] = want[v]
    BY <1>1, <1>3, BeginFacts DEF Writers
  <1>5. RunOK'
    BY <1>1 DEF RunOK, RunLocs, ReportLocs
  <1>6. Reporting'
    BY <1>1, <1>4 DEF Reporting, Reported, ReportLocs
  <1>7. GenOrder'
    BY <1>1 DEF RunInv, GenOrder, ReportLocs, MonitorLocs
  <1>8. Copies'
    BY <1>1 DEF RunInv, Copies, ReportLocs, MonitorLocs, HaltRun, CreateRun, TerminateRun
  <1>9. WakeUps'
    BY <1>1 DEF RunInv, WakeUps, ReportLocs
  <1> QED BY <1>1, <1>4, <1>5, <1>6, <1>7, <1>8, <1>9 DEF RunInv

(* The run and its copy of what others keep: an effect on the offshoots and  *)
(* the StatefulSet comes on top.                                             *)
AgentInv == ServiceFirst /\ Phased /\ HaltedUnmonitored /\ AgentSetUp /\ OneAgent

(* A report leaves the run at a place where no agent is being set up.        *)
LEMMA ReportAgents ==
    ASSUME AgentInv, ShootOK, WatchOK, rc' \in ReportLocs, status' = status,
           rc \notin {"agent", "record"}, at'["operator"] = "get",
           \/ UNCHANGED shootVars /\ (faults' = faults \/ Fault)
           \/ Fault /\ ShootOK' /\ (HaltedUnmonitored => HaltedUnmonitored'),
           rc' = "halted" => ~svc'.exists /\ serviceMonitor' # "owned"
    PROVE  AgentInv'
  <1>1. Fault => faults' # 0
    BY Counters DEF Fault, WatchOK
  <1>2. ServiceFirst' /\ Phased' /\ AgentSetUp'
    BY DEF ServiceFirst, Phased, AgentSetUp, ReportLocs, MonitorLocs
  <1>3. HaltedUnmonitored'
    BY DEF AgentInv, HaltedUnmonitored, shootVars
  <1>4. OneAgent'
    <2>1. CASE Fault
      BY <1>1, <2>1 DEF OneAgent
    <2>2. CASE UNCHANGED shootVars /\ faults' = faults
      <3>1. svc' = svc /\ Active' = Active
        BY <2>2 DEF shootVars, Active
      <3> QED BY <2>2, <3>1 DEF AgentInv, OneAgent, ReportLocs
    <2> QED BY <2>1, <2>2
  <1> QED BY <1>2, <1>3, <1>4 DEF AgentInv

(* What the watcher does is not disturbed by the operator's own writes.      *)
LEMMA WatchingKept ==
    ASSUME Watching, status' = status, stsSeen' = stsSeen, stsDirty' = stsDirty,
           \A v \in {"watcher", "handler"} : at'[v] = at[v] /\ want'[v] = want[v]
    PROVE  Watching'
  BY DEF Watching

\* The conjuncts of the invariant that steps are checked against, ...
LEMMA Parts ==
    IInv <=> /\ ObjectOK /\ WritersOK /\ WatchOK /\ InputOK /\ RunOK /\ ShootOK
             /\ FreshCopies /\ RunInv /\ AgentInv /\ Watching
  BY DEF IInv, TypeOK, StatusTypeOK, RunInv, AgentInv

\* ... and the same for the next state.
LEMMA PartsPrime ==
    IInv' <=> /\ ObjectOK' /\ WritersOK' /\ WatchOK' /\ InputOK' /\ RunOK' /\ ShootOK'
              /\ FreshCopies' /\ RunInv' /\ AgentInv' /\ Watching'
  BY DEF IInv, TypeOK, StatusTypeOK, RunInv, AgentInv

\* create up to the status.
LEMMA EnsureStatefulSetStep ==
    ASSUME IInv, EnsureStatefulSet PROVE IInv'
  <1>1. /\ ObjectOK /\ WritersOK /\ WatchOK /\ InputOK /\ RunOK /\ ShootOK
        /\ FreshCopies /\ RunInv /\ AgentInv /\ Watching
    BY Parts
  <1>2. Report("Ready", "ready") \/ Report("NotReady", "fail")
    BY DEF EnsureStatefulSet
  <1>3. /\ rc = "sts" /\ (faults' = faults \/ Fault)
        /\ sts' \in {"none", "notReady", "ready"} /\ stsSeen' = stsSeen /\ stsDirty' = stsDirty
        /\ UNCHANGED <<objectVars, changes, inputVars, shootVars>>
    BY <1>1 DEF EnsureStatefulSet, SetSts, CreatedSts, WatchOK, watcherVars
  <1>4. /\ RunInv' /\ WritersOK' /\ FreshCopies' /\ RunOK'
        /\ rc' \in {"ready", "fail"} /\ at'["operator"] = "get"
        /\ \A v \in {"watcher", "handler"} : at'[v] = at[v] /\ want'[v] = want[v]
    BY <1>1, <1>2, <1>3, ReportStep DEF ReportLocs, CreateRun, TerminateRun
  <1>5. ObjectOK' /\ InputOK' /\ ShootOK'
    BY <1>1, <1>3, Frame
  <1>6. WatchOK'
    BY <1>1, <1>3, Counters DEF WatchOK, Fault
  <1>7. AgentInv'
    BY <1>1, <1>3, <1>4, ReportAgents DEF objectVars, ReportLocs
  <1>8. Watching'
    BY <1>1, <1>3, <1>4, WatchingKept DEF objectVars
  <1> QED BY <1>4, <1>5, <1>6, <1>7, <1>8, PartsPrime

(* create ends before the status: nothing is done to the offshoots, and the   *)
(* run has warned, or its copy says what it waits for.                       *)
LEMMA EarlyReturn ==
    ASSUME IInv, rc = "sts", NEW w \in BOOLEAN, Return(w),
           w \/ my.restore # "none", faults' = faults \/ Fault,
           sts' \in {"none", "notReady", "ready"}, stsSeen' = stsSeen, stsDirty' = stsDirty,
           UNCHANGED <<objectVars, writerVars, changes, inputVars, shootVars>>
    PROVE  IInv'
  <1>1. /\ ObjectOK /\ WritersOK /\ WatchOK /\ InputOK /\ RunOK /\ ShootOK
        /\ FreshCopies /\ RunInv /\ AgentInv /\ Watching
    BY Parts
  <1>2. ObjectOK' /\ WritersOK' /\ InputOK' /\ ShootOK' /\ FreshCopies'
    BY <1>1, Frame
  <1>3. WatchOK'
    BY <1>1, Counters DEF WatchOK, Fault
  <1>4. /\ status' = status /\ at' = at /\ want' = want /\ seen' = seen /\ dirty' = dirty
        /\ svc' = svc /\ serviceMonitor' = serviceMonitor /\ Active' = Active
        /\ rc' = "idle" /\ warned' = w
    BY DEF objectVars, writerVars, inputVars, shootVars, Active, Return
  <1>5. at["operator"] = "idle"
    BY <1>1 DEF RunInv, Reporting, ReportLocs
  <1>6. RunInv' /\ RunOK'
    BY <1>1, <1>4, <1>5, ReturnStep DEF inputVars, CreateRun, TerminateRun
  <1>7. ~dirty => w \/ Waits(seen)
    BY <1>1 DEF RunInv, WakeUps, Copies, CreateRun, Waits
  <1>8. faults' = 0 => faults = 0
    BY <1>1, Counters DEF WatchOK, Fault
  <1>9. AgentInv'
    BY <1>1, <1>4, <1>5, <1>7, <1>8
       DEF AgentInv, ServiceFirst, Phased, HaltedUnmonitored, AgentSetUp, OneAgent, MonitorLocs
  <1>10. Watching'
    BY <1>1, <1>4, WatchingKept
  <1> QED BY <1>2, <1>3, <1>6, <1>9, <1>10, PartsPrime

\* The validation refuses the object, or one of its calls fails.
LEMMA ValidationFailsStep ==
    ASSUME IInv, ValidationFails PROVE IInv'
  <1>1. WatchOK
    BY Parts
  <1>2. /\ rc = "sts" /\ Fault /\ Return(TRUE)
        /\ UNCHANGED <<objectVars, writerVars, watchVars, inputVars, shootVars>>
    BY DEF ValidationFails
  <1> QED BY <1>1, <1>2, EarlyReturn DEF watchVars, WatchOK

\* The initial restore is not complete.
LEMMA WaitForInitialRestoreStep ==
    ASSUME IInv, WaitForInitialRestore PROVE IInv'
  <1>1. WatchOK
    BY Parts
  <1>2. /\ rc = "sts" /\ my.restore # "none" /\ Return(FALSE) /\ faults' = faults
        /\ sts' \in {"none", "notReady", "ready"} /\ stsSeen' = stsSeen /\ stsDirty' = stsDirty
        /\ UNCHANGED <<objectVars, writerVars, changes, inputVars, shootVars>>
    BY <1>1 DEF WaitForInitialRestore, SetSts, CreatedSts, WatchOK
  <1> QED BY <1>2, EarlyReturn

\* The status write that ends create.
LEMMA SetReadyStep ==
    ASSUME IInv, SetReady PROVE IInv'
  <1>1. /\ ObjectOK /\ WritersOK /\ WatchOK /\ InputOK /\ RunOK /\ ShootOK
        /\ FreshCopies /\ RunInv /\ AgentInv /\ Watching
    BY Parts
  <1>2. rc = "ready" /\ UNCHANGED <<objectVars, watchVars, faults, inputVars, shootVars>>
    BY DEF SetReady
  <1>3. ObjectOK' /\ InputOK' /\ ShootOK' /\ WatchOK'
    BY <1>1, <1>2, Frame
  <1>4. CASE Report("NotReady", "fail")
    <2>1. /\ RunInv' /\ WritersOK' /\ FreshCopies' /\ RunOK'
          /\ rc' = "fail" /\ my' = my /\ at'["operator"] = "get"
          /\ \A v \in {"watcher", "handler"} : at'[v] = at[v] /\ want'[v] = want[v]
      BY <1>1, <1>2, <1>4, ReportStep DEF ReportLocs, TerminateRun
    <2>2. AgentInv'
      BY <1>1, <1>2, <2>1, ReportAgents DEF objectVars, ReportLocs
    <2>3. Watching'
      BY <1>1, <1>2, <2>1, WatchingKept DEF objectVars, watchVars
    <2> QED BY <1>3, <2>1, <2>2, <2>3, PartsPrime
  <1>5. CASE at["operator"] = "done" /\ End("operator") /\ Go("stats")
    <2>1. /\ WritersOK' /\ FreshCopies' /\ at'["operator"] = "idle"
          /\ \A v \in {"watcher", "handler"} : at'[v] = at[v] /\ want'[v] = want[v]
      BY <1>1, <1>2, <1>5, EndFacts DEF Writers
    <2>2. /\ rc' = "stats" /\ my' = my /\ old' = old /\ warned' = warned
          /\ status' = status /\ gen' = gen /\ seen' = seen /\ dirty' = dirty
          /\ agent' = agent /\ halted' = halted /\ svc' = svc /\ faults' = faults
          /\ deleting' = deleting /\ news' = news /\ paused' = paused /\ restore' = restore
          /\ serviceMonitor' = serviceMonitor
      BY <1>2, <1>5 DEF Go, objectVars, inputVars, specVars, condVars, shootVars
    <2>3. status.phase = "Ready" /\ status.obsGen = my.gen
      BY <1>1, <1>2, <1>5 DEF RunInv, Reporting, Reported
    <2>4. RunOK'
      BY <1>1, <2>2 DEF RunOK, RunLocs
    <2>5. Reporting' /\ WakeUps'
      BY <1>1, <1>2, <2>1, <2>2 DEF RunInv, Reporting, WakeUps, ReportLocs
    <2>6. GenOrder'
      BY <1>1, <1>2, <2>2, <2>3 DEF RunInv, GenOrder
    <2>7. Copies'
      BY <1>1, <1>2, <2>2 DEF RunInv, Copies, CreateRun, HaltRun, TerminateRun
    <2>8. AgentInv'
      BY <1>1, <1>2, <2>1, <2>2, <2>3
         DEF AgentInv, ServiceFirst, Phased, HaltedUnmonitored, AgentSetUp, OneAgent, Active
    <2>9. Watching'
      BY <1>1, <1>2, <2>1, WatchingKept DEF objectVars, watchVars
    <2> QED BY <1>3, <2>1, <2>4, <2>5, <2>6, <2>7, <2>8, <2>9, PartsPrime DEF RunInv
  <1> QED BY <1>4, <1>5 DEF SetReady

(* A step of manageMonitor, apart from what it does to the offshoots.        *)
LEMMA MonitorStep ==
    ASSUME IInv, rc \in MonitorLocs, ShootOK', AgentInv',
           UNCHANGED <<objectVars, writerVars, watchVars, inputVars>>,
           faults' = faults \/ Fault,
           \/ rc' \in MonitorLocs /\ my' = my /\ old' \in Agents \cup {""} /\ warned' = warned
           \/ Return(TRUE) \/ Return(FALSE)
    PROVE  IInv'
  <1>1. /\ ObjectOK /\ WritersOK /\ WatchOK /\ InputOK /\ RunOK /\ ShootOK
        /\ FreshCopies /\ RunInv /\ AgentInv /\ Watching
    BY Parts
  <1>2. ObjectOK' /\ WritersOK' /\ InputOK' /\ FreshCopies' /\ Watching'
    BY <1>1, Frame DEF objectVars
  <1>3. WatchOK'
    BY <1>1, Counters DEF WatchOK, watchVars, Fault
  <1>4. RunInv' /\ RunOK'
    <2>1. CASE rc' \in MonitorLocs /\ my' = my /\ old' \in Agents \cup {""} /\ warned' = warned
      <3>1. RunOK'
        BY <1>1, <2>1 DEF RunOK, RunLocs, MonitorLocs
      <3>2. RunInv'
        BY <1>1, <2>1, GoStep DEF RunLocs, MonitorLocs, ReportLocs, HaltRun, CreateRun, TerminateRun
      <3> QED BY <3>1, <3>2
    <2>2. CASE Return(TRUE) \/ Return(FALSE)
      <3>1. /\ rc \notin TerminateRun \cup {"idle"}
            /\ status.obsGen = my.gen /\ at'["operator"] = "idle"
        BY <1>1 DEF RunInv, GenOrder, Reporting, writerVars, MonitorLocs, ReportLocs, TerminateRun
      <3> QED BY <1>1, <2>2, <3>1, ReturnStep DEF inputVars
    <2> QED BY <2>1, <2>2
  <1> QED BY <1>2, <1>3, <1>4, PartsPrime

(* A failing call ends the run with a warning.                               *)
LEMMA WarnedAgents ==
    ASSUME WatchOK, AgentInv, rc \in MonitorLocs, status' = status, Fault, Return(TRUE)
    PROVE  AgentInv'
  <1>1. faults' # 0 /\ rc' = "idle" /\ warned' = TRUE
    BY Counters DEF WatchOK, Fault, Return
  <1>2. status.phase = "Ready"
    BY DEF AgentInv, Phased
  <1> QED
    BY <1>1, <1>2 DEF AgentInv, ServiceFirst, Phased, HaltedUnmonitored, AgentSetUp, OneAgent,
                      MonitorLocs

(* What the calls do to the stats service and to the ServiceMonitor.         *)
LEMMA ShootFacts ==
    ASSUME ShootOK
    PROVE  /\ svc.exists \in BOOLEAN /\ svc.scrape \in BOOLEAN
           /\ svc.recorded \in (Agents \ {"none"}) \cup {""}
           /\ ~svc.exists => svc.recorded = "" /\ ~svc.scrape
  BY DEF ShootOK

\* The stats service, before the agent that lives on it.
LEMMA ensureStatsServiceStep ==
    ASSUME IInv, ensureStatsService PROVE IInv'
  <1>1. /\ ObjectOK /\ WritersOK /\ WatchOK /\ InputOK /\ RunOK /\ ShootOK
        /\ FreshCopies /\ RunInv /\ AgentInv /\ Watching
    BY Parts
  <1> DEFINE Change == /\ svc' = IF my.agent = "none" THEN svc ELSE [svc EXCEPT !.exists = TRUE]
                       /\ UNCHANGED serviceMonitor
  <1>2. /\ rc = "stats" /\ UNCHANGED <<objectVars, writerVars, watchVars, inputVars>>
        /\ \/ Change /\ Go("old") /\ UNCHANGED faults
           \/ (Change \/ UNCHANGED shootVars) /\ Fault /\ Return(TRUE)
    BY DEF ensureStatsService, MonitorCall
  <1>3. ASSUME Change
        PROVE  /\ ShootOK' /\ Active' = Active /\ svc'.recorded = svc.recorded
               /\ my.agent # "none" => svc'.exists
    <2>1. ShootOK'
      BY <1>1, <1>3 DEF ShootOK
    <2>2. svc'.recorded = svc.recorded /\ svc'.scrape = svc.scrape
          /\ (my.agent # "none" => svc'.exists)
      BY <1>1, <1>3 DEF ShootOK
    <2> QED BY <1>3, <2>1, <2>2 DEF Active
  <1>4. ShootOK'
    BY <1>1, <1>2, <1>3, Frame
  <1>5. AgentInv'
    <2>1. CASE Fault /\ Return(TRUE)
      BY <1>1, <1>2, <2>1, WarnedAgents DEF objectVars, MonitorLocs
    <2>2. CASE Change /\ Go("old") /\ UNCHANGED faults
      <3>1. rc' = "old" /\ my' = my /\ status' = status /\ at' = at /\ faults' = faults
        BY <1>2, <2>2 DEF Go, objectVars, writerVars
      <3>2. status.phase = "Ready"
        BY <1>1, <1>2 DEF AgentInv, Phased, MonitorLocs
      <3> QED
        BY <1>1, <1>2, <1>3, <2>2, <3>1, <3>2
           DEF AgentInv, ServiceFirst, Phased, HaltedUnmonitored, AgentSetUp, OneAgent
    <2> QED BY <1>2, <2>1, <2>2
  <1> QED BY <1>1, <1>2, <1>4, <1>5, MonitorStep DEF Go, MonitorLocs, RunOK

\* The agent that the stats service records.
LEMMA getOldAgentStep ==
    ASSUME IInv, getOldAgent PROVE IInv'
  <1>1. /\ ObjectOK /\ WritersOK /\ WatchOK /\ InputOK /\ RunOK /\ ShootOK
        /\ FreshCopies /\ RunInv /\ AgentInv /\ Watching
    BY Parts
  <1>2. PICK a \in {svc.recorded, ""} :
          /\ IF a = svc.recorded THEN UNCHANGED faults ELSE Fault
          /\ \/ a \notin {"", my.agent} /\ rc' = "delete" /\ old' = a /\ UNCHANGED <<my, warned>>
             \/ a \in {"", my.agent} /\ my.agent = "none" /\ Return(FALSE)
             \/ a \in {"", my.agent} /\ my.agent # "none" /\ Go("agent")
    BY DEF getOldAgent
  <1>3. rc = "old" /\ UNCHANGED <<objectVars, writerVars, watchVars, inputVars, shootVars>>
    BY DEF getOldAgent
  <1>4. ShootOK' /\ svc' = svc /\ Active' = Active /\ status' = status /\ at' = at
        /\ seen' = seen /\ dirty' = dirty
    BY <1>1, <1>3, Frame DEF shootVars, Active, objectVars, writerVars, inputVars
  <1>5. /\ a \in Agents \cup {""} /\ (faults' = faults \/ Fault)
        /\ svc.recorded # "none" /\ svc.recorded \in Agents \cup {""}
        /\ Active \subseteq {"builtin", "operator"}
    BY <1>1, <1>2, ShootFacts DEF Active
  <1>6. faults' = 0 => faults = 0 /\ a = svc.recorded
    BY <1>1, <1>2, Counters DEF WatchOK, Fault
  <1>7. /\ status.phase = "Ready" /\ (my.agent # "none" => svc.exists)
        /\ at["operator"] = "idle"
        /\ faults = 0 => Active \subseteq {svc.recorded}
    BY <1>1, <1>3 DEF AgentInv, Phased, ServiceFirst, OneAgent, RunInv, Reporting, MonitorLocs,
                      ReportLocs
  <1>8. AgentInv'
    <2>1. CASE a \notin {"", my.agent} /\ rc' = "delete" /\ old' = a /\ UNCHANGED <<my, warned>>
      BY <1>4, <1>6, <1>7, <2>1
         DEF AgentInv, ServiceFirst, Phased, HaltedUnmonitored, AgentSetUp, OneAgent
    <2>2. CASE a \in {"", my.agent} /\ my.agent = "none" /\ Return(FALSE)
      <3>1. rc' = "idle" /\ my' = NoCopy
        BY <2>2 DEF Return
      <3>2. ~dirty => ~seen.halted /\ seen.agent = "none"
        BY <1>1, <1>3, <2>2 DEF RunInv, Copies, WakeUps, CreateRun, MonitorLocs
      <3>3. faults' = 0 => Active = {}
        BY <1>5, <1>6, <1>7, <2>2
      <3> QED
        BY <1>4, <1>6, <1>7, <3>1, <3>2, <3>3
           DEF AgentInv, ServiceFirst, Phased, HaltedUnmonitored, AgentSetUp, OneAgent, MonitorLocs
    <2>3. CASE a \in {"", my.agent} /\ my.agent # "none" /\ Go("agent")
      <3>1. rc' = "agent" /\ my' = my
        BY <2>3 DEF Go
      <3>2. faults' = 0 => Active \subseteq {my.agent}
        BY <1>5, <1>6, <1>7, <2>3
      <3> QED
        BY <1>4, <1>6, <1>7, <2>3, <3>1, <3>2
           DEF AgentInv, ServiceFirst, Phased, HaltedUnmonitored, AgentSetUp, OneAgent
    <2> QED BY <1>2, <2>1, <2>2, <2>3
  <1> QED BY <1>1, <1>2, <1>3, <1>4, <1>5, <1>8, MonitorStep DEF Go, MonitorLocs, RunOK

(* agent.Delete takes away what its agent left behind, and nothing else.     *)
LEMMA DeleteFacts ==
    ASSUME ShootOK, NEW a \in Agents \cup {""}, Delete(a)
    PROVE  /\ ShootOK' /\ svc'.exists = svc.exists /\ svc'.recorded = svc.recorded
           /\ Active' \subseteq Active \ {a}
           /\ serviceMonitor' \in {serviceMonitor, "none"}
  <1>1. /\ svc' = IF a = "builtin" THEN [svc EXCEPT !.scrape = FALSE] ELSE svc
        /\ serviceMonitor' = IF a = "operator" THEN "none" ELSE serviceMonitor
    BY DEF Delete
  <1>2. /\ svc'.exists = svc.exists /\ svc'.recorded = svc.recorded
        /\ svc' \in [exists: BOOLEAN, recorded: (Agents \ {"none"}) \cup {""}, scrape: BOOLEAN]
        /\ serviceMonitor' \in {"none", "owned", "orphan"}
    BY <1>1 DEF ShootOK
  <1>3. svc'.scrape = IF a = "builtin" THEN FALSE ELSE svc.scrape
    BY <1>1 DEF ShootOK
  <1>4. ~svc.exists => svc.recorded = "" /\ ~svc.scrape
    BY DEF ShootOK
  <1>5. ShootOK'
    BY <1>2, <1>3, <1>4 DEF ShootOK
  <1>6. Active' \subseteq Active \ {a}
    <2>1. CASE a = "builtin"
      <3>1. ~svc'.scrape /\ serviceMonitor' = serviceMonitor
        BY <1>1, <2>1 DEF ShootOK
      <3> QED BY <2>1, <3>1 DEF Active
    <2>2. CASE a = "operator"
      <3>1. svc' = svc /\ serviceMonitor' = "none"
        BY <1>1, <2>2
      <3> QED BY <2>2, <3>1 DEF Active
    <2>3. CASE a \notin {"builtin", "operator"}
      <3>1. svc' = svc /\ serviceMonitor' = serviceMonitor
        BY <1>1, <2>3
      <3> QED BY <2>3, <3>1 DEF Active
    <2> QED BY <2>1, <2>2, <2>3
  <1> QED BY <1>1, <1>2, <1>5, <1>6

\* That agent is removed when it is not the one of the spec.
LEMMA DeleteOldAgentStep ==
    ASSUME IInv, DeleteOldAgent PROVE IInv'
  <1>1. /\ ObjectOK /\ WritersOK /\ WatchOK /\ InputOK /\ RunOK /\ ShootOK
        /\ FreshCopies /\ RunInv /\ AgentInv /\ Watching
    BY Parts
  <1>2. /\ rc = "delete" /\ UNCHANGED <<objectVars, writerVars, watchVars, inputVars>>
        /\ (Delete(old) /\ faults' = faults) \/ (Fault /\ UNCHANGED shootVars)
        /\ (my.agent = "none" /\ Return(FALSE)) \/ (my.agent # "none" /\ Go("agent"))
    BY DEF DeleteOldAgent
  <1>3. /\ status' = status /\ at' = at /\ seen' = seen /\ dirty' = dirty
        /\ old \in Agents \cup {""}
    BY <1>1, <1>2 DEF objectVars, writerVars, inputVars, RunOK
  <1>4. /\ ShootOK' /\ svc'.exists = svc.exists
        /\ faults' = 0 => faults = 0 /\ Active' \subseteq Active \ {old}
    <2>1. CASE Delete(old) /\ faults' = faults
      BY <1>1, <1>3, <2>1, DeleteFacts
    <2>2. CASE Fault /\ UNCHANGED shootVars
      BY <1>1, <2>2, Counters, Frame DEF WatchOK, Fault, shootVars
    <2> QED BY <1>2, <2>1, <2>2
  <1>5. /\ status.phase = "Ready" /\ (my.agent # "none" => svc.exists)
        /\ at["operator"] = "idle"
        /\ faults = 0 => Active \subseteq {old}
    BY <1>1, <1>2 DEF AgentInv, Phased, ServiceFirst, OneAgent, RunInv, Reporting, MonitorLocs,
                      ReportLocs
  <1>6. AgentInv'
    <2>1. faults' = 0 => Active' = {}
      BY <1>4, <1>5
    <2>2. CASE my.agent = "none" /\ Return(FALSE)
      <3>1. rc' = "idle"
        BY <2>2 DEF Return
      <3>2. ~dirty => seen.agent = "none"
        BY <1>1, <1>2, <2>2 DEF RunInv, Copies, WakeUps
      <3> QED
        BY <1>3, <1>5, <2>1, <3>1, <3>2
           DEF AgentInv, ServiceFirst, Phased, HaltedUnmonitored, AgentSetUp, OneAgent, MonitorLocs
    <2>3. CASE my.agent # "none" /\ Go("agent")
      <3>1. rc' = "agent" /\ my' = my
        BY <2>3 DEF Go
      <3> QED
        BY <1>3, <1>4, <1>5, <2>1, <2>3, <3>1
           DEF AgentInv, ServiceFirst, Phased, HaltedUnmonitored, AgentSetUp, OneAgent
    <2> QED BY <1>2, <2>2, <2>3
  <1> QED BY <1>1, <1>2, <1>3, <1>4, <1>6, MonitorStep DEF Go, MonitorLocs

\* The agent of the spec is set up, ...
LEMMA addOrUpdateMonitorStep ==
    ASSUME IInv, addOrUpdateMonitor PROVE IInv'
  <1>1. /\ ObjectOK /\ WritersOK /\ WatchOK /\ InputOK /\ RunOK /\ ShootOK
        /\ FreshCopies /\ RunInv /\ AgentInv /\ Watching
    BY Parts
  <1>2. /\ rc = "agent" /\ UNCHANGED <<objectVars, writerVars, watchVars, inputVars>>
        /\ \/ /\ my.agent = "operator" /\ serviceMonitor = "orphan"
              /\ Return(TRUE) /\ UNCHANGED <<faults, shootVars>>
           \/ /\ ~(my.agent = "operator" /\ serviceMonitor = "orphan")
              /\ CreateOrUpdate /\ Go("record") /\ UNCHANGED faults
           \/ (CreateOrUpdate \/ UNCHANGED shootVars) /\ Fault /\ Return(TRUE)
    BY DEF addOrUpdateMonitor, MonitorCall, statusVars
  <1>3. /\ status' = status /\ at' = at /\ my.agent \in Agents
        /\ status.phase = "Ready" /\ my.agent # "none" /\ svc.exists
        /\ at["operator"] = "idle"
        /\ faults = 0 => Active \subseteq {my.agent}
    BY <1>1, <1>2 DEF objectVars, writerVars, RunOK, AgentInv, Phased, ServiceFirst, OneAgent,
                      RunInv, Reporting, MonitorLocs, ReportLocs
  <1>4. ASSUME CreateOrUpdate
        PROVE  /\ ShootOK' /\ svc'.exists /\ Active' \subseteq Active \cup {my.agent}
               /\ ~(my.agent = "operator" /\ serviceMonitor = "orphan") => my.agent \in Active'
    <2>1. /\ svc' = IF my.agent = "builtin" THEN [svc EXCEPT !.scrape = TRUE] ELSE svc
          /\ serviceMonitor' = IF my.agent = "operator" /\ serviceMonitor = "none"
                               THEN "owned" ELSE serviceMonitor
      BY <1>4 DEF CreateOrUpdate
    <2>2. /\ svc'.exists
          /\ svc' \in [exists: BOOLEAN, recorded: (Agents \ {"none"}) \cup {""}, scrape: BOOLEAN]
          /\ serviceMonitor' \in {"none", "owned", "orphan"}
      BY <1>1, <1>3, <2>1 DEF ShootOK
    <2>3. IF my.agent = "builtin" THEN svc'.scrape ELSE svc' = svc
      BY <1>1, <2>1 DEF ShootOK
    <2>4. my.agent \in {"builtin", "operator"}
      BY <1>3, MonitorAssumption DEF MonitorAssumption
    <2>5. Active' \subseteq Active \cup {my.agent}
      BY <2>1, <2>3, <2>4 DEF Active
    <2>6. ~(my.agent = "operator" /\ serviceMonitor = "orphan") => my.agent \in Active'
      BY <1>1, <2>1, <2>3, <2>4 DEF Active, ShootOK
    <2> QED BY <2>2, <2>5, <2>6 DEF ShootOK
  <1>5. ShootOK'
    BY <1>1, <1>2, <1>4, Frame
  <1>6. AgentInv'
    <2>1. CASE Fault /\ Return(TRUE)
      BY <1>1, <1>2, <1>3, <2>1, WarnedAgents DEF MonitorLocs
    <2>2. CASE /\ my.agent = "operator" /\ serviceMonitor = "orphan"
               /\ Return(TRUE) /\ UNCHANGED <<faults, shootVars>>
      <3>1. rc' = "idle" /\ warned' = TRUE /\ svc' = svc /\ Active' = Active /\ faults' = faults
        BY <2>2 DEF Return, shootVars, Active
      <3>2. faults = 0 => Active = {}
        BY <1>3, <2>2 DEF Active
      <3> QED
        BY <1>3, <3>1, <3>2
           DEF AgentInv, ServiceFirst, Phased, HaltedUnmonitored, AgentSetUp, OneAgent, MonitorLocs
    <2>3. CASE /\ ~(my.agent = "operator" /\ serviceMonitor = "orphan")
               /\ CreateOrUpdate /\ Go("record") /\ UNCHANGED faults
      <3>1. rc' = "record" /\ my' = my /\ faults' = faults
        BY <2>3 DEF Go
      <3> QED
        BY <1>3, <1>4, <2>3, <3>1
           DEF AgentInv, ServiceFirst, Phased, HaltedUnmonitored, AgentSetUp, OneAgent
    <2> QED BY <1>2, <2>1, <2>2, <2>3
  <1> QED BY <1>1, <1>2, <1>5, <1>6, MonitorStep DEF Go, MonitorLocs, RunOK

\* ... and recorded.
LEMMA setNewAgentStep ==
    ASSUME IInv, setNewAgent PROVE IInv'
  <1>1. /\ ObjectOK /\ WritersOK /\ WatchOK /\ InputOK /\ RunOK /\ ShootOK
        /\ FreshCopies /\ RunInv /\ AgentInv /\ Watching
    BY Parts
  <1> DEFINE Change == svc' = [svc EXCEPT !.recorded = my.agent] /\ UNCHANGED serviceMonitor
  <1>2. /\ rc = "record" /\ UNCHANGED <<objectVars, writerVars, watchVars, inputVars>>
        /\ \/ Change /\ Return(FALSE) /\ UNCHANGED faults
           \/ (Change \/ UNCHANGED shootVars) /\ Fault /\ Return(TRUE)
    BY DEF setNewAgent, MonitorCall
  <1>3. /\ status' = status /\ at' = at /\ my.agent \in Agents /\ seen' = seen /\ dirty' = dirty
        /\ status.phase = "Ready" /\ my.agent # "none" /\ svc.exists /\ my.agent \in Active
        /\ at["operator"] = "idle"
        /\ faults = 0 => Active \subseteq {my.agent}
    BY <1>1, <1>2 DEF objectVars, writerVars, inputVars, RunOK, AgentInv, Phased, ServiceFirst,
                      AgentSetUp, OneAgent, RunInv, Reporting, MonitorLocs, ReportLocs
  <1>4. ASSUME Change
        PROVE  ShootOK' /\ svc'.recorded = my.agent /\ Active' = Active
    <2>1. /\ svc' \in [exists: BOOLEAN, recorded: (Agents \ {"none"}) \cup {""}, scrape: BOOLEAN]
          /\ svc'.exists /\ svc'.recorded = my.agent /\ svc'.scrape = svc.scrape
      BY <1>1, <1>3, <1>4 DEF ShootOK
    <2> QED BY <1>1, <1>4, <2>1 DEF ShootOK, Active
  <1>5. ShootOK'
    BY <1>1, <1>2, <1>4, Frame
  <1>6. AgentInv'
    <2>1. CASE Fault /\ Return(TRUE)
      BY <1>1, <1>2, <1>3, <2>1, WarnedAgents DEF MonitorLocs
    <2>2. CASE Change /\ Return(FALSE) /\ UNCHANGED faults
      <3>1. rc' = "idle" /\ faults' = faults
        BY <2>2 DEF Return
      <3>2. ~dirty => ~seen.halted /\ seen.agent = my.agent
        BY <1>1, <1>2 DEF RunInv, Copies, WakeUps, CreateRun, MonitorLocs
      <3> QED
        BY <1>3, <1>4, <2>2, <3>1, <3>2
           DEF AgentInv, ServiceFirst, Phased, HaltedUnmonitored, AgentSetUp, OneAgent, MonitorLocs
    <2> QED BY <1>2, <2>1, <2>2
  <1> QED BY <1>1, <1>2, <1>5, <1>6, MonitorStep DEF Go, MonitorLocs, RunOK

-----------------------------------------------------------------------------
(* The steps of halt. *)

(* A call of halt that succeeds, or that fails and is reported.              *)
LEMMA HaltStep ==
    ASSUME IInv, ShootOK', rc \in {"halt", "haltSvcs"},
           UNCHANGED <<objectVars, changes, inputVars>>,
           sts' \in {sts, "none"}, stsSeen' = stsSeen, stsDirty' = stsDirty,
           HaltedUnmonitored => HaltedUnmonitored',
           \/ /\ Go("haltSvcs") \/ (Go("haltMonitor") /\ ~svc'.exists /\ serviceMonitor' # "owned")
              /\ UNCHANGED <<writerVars, faults>>
              /\ Active' \subseteq Active /\ (svc'.recorded = svc.recorded \/ Active' = {})
           \/ Fault /\ Report("NotReady", "fail")
    PROVE  IInv'
  <1>1. /\ ObjectOK /\ WritersOK /\ WatchOK /\ InputOK /\ RunOK /\ ShootOK
        /\ FreshCopies /\ RunInv /\ AgentInv /\ Watching
    BY Parts
  <1>2. ObjectOK' /\ InputOK' /\ status' = status
    BY <1>1, Frame DEF objectVars
  <1>3. CASE Fault /\ Report("NotReady", "fail")
    <2>1. WatchOK'
      BY <1>1, <1>3, Counters DEF WatchOK, Fault
    <2>2. /\ RunInv' /\ WritersOK' /\ FreshCopies' /\ RunOK'
          /\ rc' = "fail" /\ my' = my /\ at'["operator"] = "get"
          /\ \A v \in {"watcher", "handler"} : at'[v] = at[v] /\ want'[v] = want[v]
      BY <1>1, <1>3, ReportStep DEF ReportLocs, TerminateRun
    <2>3. AgentInv'
      BY <1>1, <1>2, <1>3, <2>2, ReportAgents DEF ReportLocs
    <2>4. Watching'
      BY <1>1, <1>2, <2>2, WatchingKept
    <2> QED BY <1>2, <2>1, <2>2, <2>3, <2>4, PartsPrime
  <1>4. CASE /\ Go("haltSvcs") \/ (Go("haltMonitor") /\ ~svc'.exists /\ serviceMonitor' # "owned")
             /\ UNCHANGED <<writerVars, faults>>
             /\ Active' \subseteq Active /\ (svc'.recorded = svc.recorded \/ Active' = {})
    <2>1. /\ rc' = "haltSvcs" \/ (rc' = "haltMonitor" /\ ~svc'.exists /\ serviceMonitor' # "owned")
          /\ my' = my /\ old' = old /\ warned' = warned
          /\ at' = at /\ want' = want /\ faults' = faults
      BY <1>4 DEF Go, writerVars
    <2>2. WatchOK'
      BY <1>1, <2>1 DEF WatchOK
    <2>3. WritersOK' /\ FreshCopies'
      BY <1>1, <1>4, Frame
    <2>4. RunOK'
      BY <1>1, <2>1 DEF RunOK, RunLocs
    <2>5. RunInv'
      BY <1>1, <1>4, <2>1, GoStep
         DEF RunLocs, MonitorLocs, ReportLocs, HaltRun, CreateRun, TerminateRun
    <2>6. Active' \subseteq {svc'.recorded} \/ faults # 0
      BY <1>1, <1>4 DEF AgentInv, OneAgent
    <2>7. AgentInv'
      BY <1>1, <1>2, <2>1, <2>6
         DEF AgentInv, ServiceFirst, Phased, AgentSetUp, OneAgent, MonitorLocs
    <2>8. Watching'
      BY <1>1, <1>2, <2>1, WatchingKept
    <2> QED BY <1>2, <2>2, <2>3, <2>4, <2>5, <2>7, <2>8, PartsPrime
  <1> QED BY <1>3, <1>4

\* halt: the StatefulSet, ...
LEMMA HaltStatefulSetStep ==
    ASSUME IInv, HaltStatefulSet PROVE IInv'
  <1>1. /\ ObjectOK /\ WritersOK /\ WatchOK /\ InputOK /\ RunOK /\ ShootOK
        /\ FreshCopies /\ RunInv /\ AgentInv /\ Watching
    BY Parts
  <1>2. /\ rc = "halt" /\ UNCHANGED <<objectVars, changes, inputVars, shootVars>>
        /\ sts' \in {sts, "none"} /\ stsSeen' = stsSeen /\ stsDirty' = stsDirty
        /\ \/ Go("haltSvcs") /\ UNCHANGED <<writerVars, faults>>
           \/ Fault /\ Report("NotReady", "fail")
    BY DEF HaltStatefulSet, HaltCall, SetSts, watcherVars
  <1>3. ShootOK' /\ svc' = svc /\ Active' = Active
    BY <1>1, <1>2, Frame DEF shootVars, Active
  <1>4. HaltedUnmonitored => HaltedUnmonitored'
    BY <1>2 DEF HaltedUnmonitored, objectVars, shootVars
  <1> QED BY <1>2, <1>3, <1>4, HaltStep

\* ... the stats service with its record, ...
LEMMA HaltServicesStep ==
    ASSUME IInv, HaltServices PROVE IInv'
  <1>1. /\ ObjectOK /\ WritersOK /\ WatchOK /\ InputOK /\ RunOK /\ ShootOK
        /\ FreshCopies /\ RunInv /\ AgentInv /\ Watching
    BY Parts
  <1> DEFINE Change == /\ svc' = NoService
                       /\ serviceMonitor' = IF serviceMonitor = "owned" THEN "orphan"
                                                                        ELSE serviceMonitor
                       /\ UNCHANGED watcherVars
  <1>2. /\ rc = "haltSvcs" /\ UNCHANGED <<objectVars, changes, inputVars>>
        /\ \/ Change /\ Go("haltMonitor") /\ UNCHANGED <<writerVars, faults>>
           \/ (Change \/ UNCHANGED <<watcherVars, shootVars>>) /\ Fault /\ Report("NotReady", "fail")
    BY DEF HaltServices, HaltCall, Orphaned
  <1>3. sts' = sts /\ stsSeen' = stsSeen /\ stsDirty' = stsDirty
    BY <1>2 DEF watcherVars
  <1>4. ASSUME Change
        PROVE  /\ ShootOK' /\ ~svc'.exists /\ serviceMonitor' # "owned" /\ Active' = {}
               /\ HaltedUnmonitored'
    <2>1. /\ ~svc'.exists /\ ~svc'.scrape /\ svc'.recorded = ""
          /\ svc' \in [exists: BOOLEAN, recorded: (Agents \ {"none"}) \cup {""}, scrape: BOOLEAN]
      BY <1>4 DEF NoService
    <2>2. serviceMonitor' \in {"none", "orphan"}
      BY <1>1, <1>4 DEF ShootOK
    <2> QED BY <2>1, <2>2 DEF ShootOK, Active, HaltedUnmonitored
  <1>5. ShootOK'
    BY <1>1, <1>2, <1>4, Frame
  <1>6. HaltedUnmonitored => HaltedUnmonitored'
    BY <1>2, <1>4 DEF HaltedUnmonitored, objectVars, shootVars
  <1> HIDE DEF Change
  <1> QED BY <1>2, <1>3, <1>4, <1>5, <1>6, HaltStep

\* ... the agent of the spec, ...
LEMMA HaltMonitorStep ==
    ASSUME IInv, HaltMonitor PROVE IInv'
  <1>1. /\ ObjectOK /\ WritersOK /\ WatchOK /\ InputOK /\ RunOK /\ ShootOK
        /\ FreshCopies /\ RunInv /\ AgentInv /\ Watching
    BY Parts
  <1>2. /\ rc = "haltMonitor" /\ UNCHANGED <<objectVars, watchVars, inputVars>>
        /\ \/ Delete(my.agent) /\ UNCHANGED faults /\ Report("Halted", "halted")
           \/ UNCHANGED shootVars /\ Fault /\ Report("Halted", "halted")
           \/ Delete(my.agent) /\ Fault /\ Report("NotReady", "fail")
    BY DEF HaltMonitor
  <1>3. /\ ~svc.exists /\ serviceMonitor # "owned" /\ my.agent \in Agents
        /\ status' = status /\ stsSeen' = stsSeen /\ stsDirty' = stsDirty
    BY <1>1, <1>2 DEF AgentInv, Phased, RunOK, objectVars, watchVars
  <1>4. ShootOK' /\ ~svc'.exists /\ serviceMonitor' # "owned"
    BY <1>1, <1>2, <1>3, DeleteFacts, Frame DEF shootVars
  <1>5. HaltedUnmonitored' /\ Active' = {}
    <2>1. ~svc'.scrape
      BY <1>4 DEF ShootOK
    <2> QED BY <1>4, <2>1 DEF HaltedUnmonitored, Active
  <1>6. ObjectOK' /\ InputOK'
    BY <1>1, <1>2, Frame
  <1>7. WatchOK'
    BY <1>1, <1>2, Counters DEF WatchOK, watchVars, Fault
  <1>8. /\ RunInv' /\ WritersOK' /\ FreshCopies' /\ RunOK'
        /\ rc' \in {"halted", "fail"} /\ at'["operator"] = "get"
        /\ \A v \in {"watcher", "handler"} : at'[v] = at[v] /\ want'[v] = want[v]
    BY <1>1, <1>2, ReportStep DEF ReportLocs, HaltRun, TerminateRun
  <1>9. AgentInv'
    BY <1>4, <1>5, <1>8
       DEF AgentInv, ServiceFirst, Phased, AgentSetUp, OneAgent, MonitorLocs
  <1>10. Watching'
    BY <1>1, <1>3, <1>8, WatchingKept
  <1> QED BY <1>4, <1>6, <1>7, <1>8, <1>9, <1>10, PartsPrime

\* ... and the status.
LEMMA SetHaltedStep ==
    ASSUME IInv, SetHalted PROVE IInv'
  <1>1. /\ ObjectOK /\ WritersOK /\ WatchOK /\ InputOK /\ RunOK /\ ShootOK
        /\ FreshCopies /\ RunInv /\ AgentInv /\ Watching
    BY Parts
  <1>2. rc = "halted" /\ UNCHANGED <<objectVars, watchVars, faults, inputVars, shootVars>>
    BY DEF SetHalted
  <1>3. ObjectOK' /\ InputOK' /\ ShootOK' /\ WatchOK'
    BY <1>1, <1>2, Frame
  <1>4. CASE Report("NotReady", "fail")
    <2>1. /\ RunInv' /\ WritersOK' /\ FreshCopies' /\ RunOK'
          /\ rc' = "fail" /\ my' = my /\ at'["operator"] = "get"
          /\ \A v \in {"watcher", "handler"} : at'[v] = at[v] /\ want'[v] = want[v]
      BY <1>1, <1>2, <1>4, ReportStep DEF ReportLocs, TerminateRun
    <2>2. AgentInv'
      BY <1>1, <1>2, <2>1, ReportAgents DEF objectVars, ReportLocs
    <2>3. Watching'
      BY <1>1, <1>2, <2>1, WatchingKept DEF objectVars, watchVars
    <2> QED BY <1>3, <2>1, <2>2, <2>3, PartsPrime
  <1>5. CASE at["operator"] = "done" /\ End("operator") /\ Return(FALSE)
    <2>1. /\ WritersOK' /\ FreshCopies' /\ at'["operator"] = "idle"
          /\ \A v \in {"watcher", "handler"} : at'[v] = at[v] /\ want'[v] = want[v]
      BY <1>1, <1>2, <1>5, EndFacts DEF Writers
    <2>2. /\ rc' = "idle" /\ status' = status /\ seen' = seen /\ dirty' = dirty
          /\ svc' = svc /\ faults' = faults /\ serviceMonitor' = serviceMonitor
      BY <1>2, <1>5 DEF Return, objectVars, inputVars, shootVars
    <2>3. status.obsGen = my.gen
      BY <1>1, <1>5 DEF RunInv, Reporting
    <2>4. RunInv' /\ RunOK'
      BY <1>1, <1>2, <1>5, <2>1, <2>3, ReturnStep DEF inputVars, TerminateRun
    <2>5. ~dirty => seen.halted
      BY <1>1, <1>2 DEF RunInv, WakeUps, Copies, HaltRun
    <2>6. Active = {} /\ Active' = {}
      BY <1>1, <1>2, <2>2 DEF AgentInv, Phased, ShootOK, Active
    <2>7. AgentInv'
      BY <1>1, <2>1, <2>2, <2>5, <2>6
         DEF AgentInv, ServiceFirst, Phased, HaltedUnmonitored, AgentSetUp, OneAgent, MonitorLocs
    <2>8. Watching'
      BY <1>1, <1>2, <2>1, WatchingKept DEF objectVars, watchVars
    <2> QED BY <1>3, <2>1, <2>4, <2>7, <2>8, PartsPrime
  <1> QED BY <1>4, <1>5 DEF SetHalted

\* A failed run writes NotReady.
LEMMA PushFailureEventStep ==
    ASSUME IInv, PushFailureEvent PROVE IInv'
  <1>1. /\ ObjectOK /\ WritersOK /\ WatchOK /\ InputOK /\ RunOK /\ ShootOK
        /\ FreshCopies /\ RunInv /\ AgentInv /\ Watching
    BY Parts
  <1>2. /\ rc = "fail" /\ End("operator") /\ Return(TRUE) /\ dirty' \in {dirty, TRUE}
        /\ UNCHANGED <<objectVars, watchVars, faults, specVars, condVars, seen, news, shootVars>>
    BY DEF PushFailureEvent
  <1>3. ObjectOK' /\ InputOK' /\ ShootOK' /\ WatchOK'
    BY <1>1, <1>2, Frame DEF InputOK, specVars, condVars
  <1>4. /\ WritersOK' /\ FreshCopies' /\ at'["operator"] = "idle"
        /\ \A v \in {"watcher", "handler"} : at'[v] = at[v] /\ want'[v] = want[v]
    BY <1>1, <1>2, EndFacts DEF Writers
  <1>5. RunInv' /\ RunOK'
    BY <1>1, <1>2, <1>4, ReturnStep DEF TerminateRun
  <1>6. /\ rc' = "idle" /\ warned' = TRUE /\ status' = status /\ svc' = svc /\ faults' = faults
        /\ serviceMonitor' = serviceMonitor /\ Active' = Active
    BY <1>2 DEF Return, objectVars, shootVars, Active
  <1>7. AgentInv'
    BY <1>1, <1>2, <1>4, <1>6
       DEF AgentInv, ServiceFirst, Phased, HaltedUnmonitored, AgentSetUp, OneAgent, MonitorLocs
  <1>8. Watching'
    BY <1>1, <1>2, <1>4, WatchingKept DEF objectVars, watchVars
  <1> QED BY <1>3, <1>4, <1>5, <1>7, <1>8, PartsPrime

-----------------------------------------------------------------------------
(* The steps of terminate. *)

(* A step of terminate goes on, or fails and is tried again with the resync. *)
LEMMA TerminateStep ==
    ASSUME IInv, rc \in {"terminate", "finalizer"}, ShootOK', Active' \subseteq Active,
           svc'.exists = svc.exists, svc'.recorded = svc.recorded,
           serviceMonitor' \in {serviceMonitor, "none"},
           UNCHANGED <<objectVars, writerVars, watchVars, specVars, condVars, seen, news>>,
           faults' = faults \/ Fault,
           \/ (Go("finalizer") \/ Go("gone")) /\ UNCHANGED dirty
           \/ Fault /\ Return(FALSE) /\ dirty' \in {dirty, TRUE}
    PROVE  IInv'
  <1>1. /\ ObjectOK /\ WritersOK /\ WatchOK /\ InputOK /\ RunOK /\ ShootOK
        /\ FreshCopies /\ RunInv /\ AgentInv /\ Watching
    BY Parts
  <1>2. ObjectOK' /\ WritersOK' /\ FreshCopies' /\ Watching'
    BY <1>1, Frame DEF objectVars
  <1>3. WatchOK'
    BY <1>1, Counters DEF WatchOK, watchVars, Fault
  <1>4. InputOK'
    BY <1>1 DEF InputOK, specVars, condVars
  <1>5. /\ status' = status /\ at' = at /\ seen' = seen /\ at["operator"] = "idle"
        /\ faults' = 0 => faults = 0
    BY <1>1, Counters DEF objectVars, writerVars, RunInv, Reporting, ReportLocs, WatchOK, Fault
  <1>6. HaltedUnmonitored'
    BY <1>1, <1>5 DEF AgentInv, HaltedUnmonitored
  <1>7. CASE (Go("finalizer") \/ Go("gone")) /\ UNCHANGED dirty
    <2>1. rc' \in {"finalizer", "gone"} /\ my' = my /\ old' = old /\ warned' = warned
      BY <1>7 DEF Go
    <2>2. RunOK'
      BY <1>1, <2>1 DEF RunOK, RunLocs
    <2>3. RunInv'
      BY <1>1, <1>7, <2>1, GoStep
         DEF RunLocs, MonitorLocs, ReportLocs, HaltRun, CreateRun, TerminateRun, inputVars
    <2>4. AgentInv'
      BY <1>1, <1>5, <1>6, <2>1
         DEF AgentInv, ServiceFirst, Phased, AgentSetUp, OneAgent, MonitorLocs
    <2> QED BY <1>2, <1>3, <1>4, <2>2, <2>3, <2>4, PartsPrime
  <1>8. CASE Fault /\ Return(FALSE) /\ dirty' \in {dirty, TRUE}
    <2>1. rc' = "idle" /\ faults' # 0
      BY <1>1, <1>8, Counters DEF Return, WatchOK, Fault
    <2>2. /\ rc \in TerminateRun /\ rc # "idle" /\ at'["operator"] = "idle"
          /\ dirty' \/ dirty' = dirty
      BY <1>5, <1>8 DEF TerminateRun
    <2>3. ~dirty' => seen.deleting
      BY <1>1, <2>2 DEF RunInv, WakeUps, Copies
    <2>4. AgentInv'
      BY <1>5, <1>6, <2>1, <2>3
         DEF AgentInv, ServiceFirst, Phased, AgentSetUp, OneAgent, MonitorLocs
    <2>5. RunInv' /\ RunOK'
      BY <1>1, <1>8, <2>2, ReturnStep
    <2> QED BY <1>2, <1>3, <1>4, <2>4, <2>5, PartsPrime
  <1> QED BY <1>7, <1>8

\* The agent of the spec is deleted with the database.
LEMMA terminateStep ==
    ASSUME IInv, terminate PROVE IInv'
  <1>1. ShootOK /\ RunOK
    BY Parts
  <1>2. /\ rc = "terminate"
        /\ UNCHANGED <<objectVars, writerVars, watchVars, specVars, condVars, seen, news>>
        /\ \/ Delete(my.agent) /\ Go("finalizer") /\ UNCHANGED <<faults, dirty>>
           \/ UNCHANGED shootVars /\ Fault /\ Go("finalizer") /\ UNCHANGED dirty
           \/ UNCHANGED shootVars /\ Fault /\ Return(FALSE) /\ dirty' \in {dirty, TRUE}
    BY DEF terminate, TerminateFails
  <1>3. my.agent \in Agents \cup {""}
    BY <1>1 DEF RunOK
  <1>4. /\ ShootOK' /\ svc'.exists = svc.exists /\ svc'.recorded = svc.recorded
        /\ Active' \subseteq Active /\ serviceMonitor' \in {serviceMonitor, "none"}
    <2>1. CASE Delete(my.agent)
      BY <1>1, <1>3, <2>1, DeleteFacts
    <2>2. CASE UNCHANGED shootVars
      BY <1>1, <2>2, Frame DEF shootVars, Active
    <2> QED BY <1>2, <2>1, <2>2
  <1> QED BY <1>2, <1>4, TerminateStep

\* The finalizer is removed.
LEMMA RemoveFinalizerStep ==
    ASSUME IInv, RemoveFinalizer PROVE IInv'
  <1>1. ShootOK
    BY Parts
  <1>2. /\ rc = "finalizer" /\ UNCHANGED shootVars
        /\ UNCHANGED <<objectVars, writerVars, watchVars, specVars, condVars, seen, news>>
        /\ \/ Go("gone") /\ UNCHANGED <<faults, dirty>>
           \/ Fault /\ Return(FALSE) /\ dirty' \in {dirty, TRUE}
    BY DEF RemoveFinalizer, TerminateFails
  <1>3. ShootOK' /\ svc' = svc /\ serviceMonitor' = serviceMonitor /\ Active' = Active
    BY <1>1, <1>2, Frame DEF shootVars, Active
  <1> QED BY <1>2, <1>3, TerminateStep

-----------------------------------------------------------------------------
(* The queue, the informer and the users. *)

(* The order of the generations, as numbers.                                 *)
LEMMA Generations ==
    ASSUME ObjectOK, InputOK, RunOK, RunInv
    PROVE  /\ status.obsGen \in Int /\ seen.gen \in Int /\ gen \in Int /\ my.gen \in Int
           /\ status.obsGen <= seen.gen /\ seen.gen <= gen
           /\ rc # "idle" => status.obsGen <= my.gen /\ my.gen <= seen.gen
  <1>1. status.obsGen \in Int
    BY DEF ObjectOK, A!Status
  <1>2. gen \in Int
    BY DEF ObjectOK
  <1>3. seen.gen \in Int
    BY DEF InputOK
  <1>4. my.gen \in Int
    <2>1. my.gen \in 0..MaxGen
      BY DEF RunOK
    <2> QED BY <2>1
  <1> QED BY <1>1, <1>2, <1>3, <1>4 DEF RunInv, GenOrder

\* A run begins with the copy in the store.
LEMMA RunStep ==
    ASSUME IInv, Run PROVE IInv'
  <1>1. /\ ObjectOK /\ WritersOK /\ WatchOK /\ InputOK /\ RunOK /\ ShootOK
        /\ FreshCopies /\ RunInv /\ AgentInv /\ Watching
    BY Parts
  <1>2. /\ dirty /\ rc = "idle" /\ dirty' = FALSE
        /\ UNCHANGED <<statusVars, specVars, condVars, seen, news, shootVars>>
        /\ \/ seen.paused /\ ~seen.deleting /\ Return(FALSE)
           \/ /\ my' = Copy(seen) /\ warned' = FALSE /\ old' = ""
              /\ rc' = IF seen.deleting THEN "terminate"
                       ELSE IF seen.halted THEN "halt" ELSE "sts"
    BY DEF Run
  <1>3. /\ status' = status /\ gen' = gen /\ at' = at /\ want' = want /\ seen' = seen
        /\ agent' = agent /\ halted' = halted /\ deleting' = deleting /\ news' = news
        /\ paused' = paused /\ restore' = restore /\ svc' = svc /\ faults' = faults
        /\ serviceMonitor' = serviceMonitor /\ Active' = Active
    BY <1>2 DEF statusVars, objectVars, writerVars, specVars, condVars, shootVars, Active
  <1>4. ObjectOK' /\ WritersOK' /\ WatchOK' /\ ShootOK' /\ FreshCopies' /\ Watching'
    BY <1>1, <1>2, <1>3, Frame DEF statusVars
  <1>5. InputOK'
    BY <1>1, <1>2, <1>3 DEF InputOK
  <1>6. at["operator"] = "idle"
    BY <1>1, <1>2 DEF RunInv, Reporting, ReportLocs
  <1>7. CASE seen.paused /\ ~seen.deleting /\ Return(FALSE)
    <2>1. rc' = "idle" /\ my' = NoCopy /\ warned' = FALSE /\ Waits(seen)
      BY <1>7 DEF Return, Waits
    <2>2. NoCopy \in [gen: 0..MaxGen, agent: Agents, restore: RestoreModes]
      BY MonitorAssumption, Counters DEF MonitorAssumption, NoCopy, RestoreModes
    <2>3. RunOK'
      BY <1>7, <2>1, <2>2 DEF RunOK, RunLocs, Return
    <2>4. Reporting' /\ WakeUps'
      BY <1>3, <1>6, <1>7, <2>1 DEF Reporting, WakeUps, ReportLocs
    <2>5. GenOrder' /\ Copies'
      BY <1>1, <1>3, <2>1 DEF RunInv, GenOrder, Copies, MonitorLocs
    <2>6. AgentInv'
      BY <1>1, <1>2, <1>3, <2>1
         DEF AgentInv, ServiceFirst, Phased, HaltedUnmonitored, AgentSetUp, OneAgent, MonitorLocs
    <2> QED BY <1>4, <1>5, <2>3, <2>4, <2>5, <2>6, PartsPrime DEF RunInv
  <1>8. CASE /\ my' = Copy(seen) /\ warned' = FALSE /\ old' = ""
             /\ rc' = IF seen.deleting THEN "terminate"
                      ELSE IF seen.halted THEN "halt" ELSE "sts"
    <2>1. my'.gen = seen.gen /\ my'.agent = seen.agent /\ my'.restore = seen.restore
      BY <1>8 DEF Copy
    <2>2. seen.gen \in 1..MaxGen /\ seen.gen \in 0..MaxGen /\ seen.agent \in Agents
          /\ seen.restore \in RestoreModes
      BY <1>1, Counters DEF InputOK
    <2>3. RunOK'
      BY <1>8, <2>2 DEF RunOK, RunLocs, Copy
    <2>4. Reporting'
      BY <1>3, <1>6, <1>8 DEF Reporting, ReportLocs
    <2>5. GenOrder'
      <3>1. status.obsGen <= seen.gen /\ seen.gen <= gen /\ seen.gen <= seen.gen
        BY <1>1, Generations
      <3>2. rc' \notin MonitorLocs
        BY <1>8 DEF MonitorLocs
      <3> QED BY <1>3, <2>1, <3>1, <3>2 DEF GenOrder
    <2>6. Copies' /\ WakeUps'
      <3>1. /\ rc' \in HaltRun => seen.halted
            /\ rc' \in CreateRun => ~seen.halted
            /\ rc' \in TerminateRun <=> seen.deleting
            /\ rc' # "idle"
        BY <1>8 DEF HaltRun, CreateRun, TerminateRun, MonitorLocs
      <3> QED BY <1>1, <1>3, <2>1, <3>1 DEF RunInv, Copies, WakeUps
    <2>7. AgentInv'
      BY <1>1, <1>2, <1>3, <1>8
         DEF AgentInv, ServiceFirst, Phased, HaltedUnmonitored, AgentSetUp, OneAgent, MonitorLocs
    <2> QED BY <1>4, <1>5, <2>3, <2>4, <2>5, <2>6, <2>7, PartsPrime DEF RunInv
  <1> QED BY <1>2, <1>7, <1>8

\* A user edits the agent, halts or deletes.
LEMMA EditStep ==
    ASSUME IInv, Edit PROVE IInv'
  <1>1. /\ ObjectOK /\ WritersOK /\ WatchOK /\ InputOK /\ RunOK /\ ShootOK
        /\ FreshCopies /\ RunInv /\ AgentInv /\ Watching
    BY Parts
  <1>2. /\ gen < MaxGen /\ gen' = gen + 1 /\ fresh' = {} /\ status' = status
        /\ agent' \in Agents /\ halted' \in BOOLEAN /\ deleting' \in BOOLEAN
        /\ UNCHANGED <<writerVars, watchVars, faults, condVars, seen, news, dirty, runVars,
                       shootVars>>
    BY <1>1 DEF Edit, SpecChanges, InputOK
  <1>3. WritersOK' /\ WatchOK' /\ RunOK' /\ ShootOK' /\ Watching' /\ Reporting'
    BY <1>1, <1>2, Frame DEF RunInv
  <1>4. ObjectOK' /\ FreshCopies'
    BY <1>1, <1>2, Counters DEF ObjectOK, FreshCopies
  <1>5. InputOK'
    BY <1>1, <1>2 DEF InputOK, condVars
  <1>6. seen' = seen /\ seen.gen <= gen /\ seen.gen \in Int /\ gen \in Int
    BY <1>1, <1>2 DEF InputOK, ObjectOK, RunInv, GenOrder
  <1>7. GenOrder'
    BY <1>1, <1>2, <1>6 DEF RunInv, GenOrder, runVars
  <1>8. seen'.gen # gen'
    BY <1>2, <1>6
  <1>9. Copies' /\ WakeUps'
    BY <1>1, <1>2, <1>8 DEF RunInv, Copies, WakeUps, runVars, condVars
  <1>10. AgentInv'
    BY <1>1, <1>2
       DEF AgentInv, ServiceFirst, Phased, HaltedUnmonitored, AgentSetUp, OneAgent, Active,
           runVars, shootVars, writerVars
  <1> QED BY <1>3, <1>4, <1>5, <1>7, <1>9, <1>10, PartsPrime DEF RunInv

\* Another controller writes a condition: an event is on its way.
LEMMA ConditionStep ==
    ASSUME IInv, Condition, paused' \in BOOLEAN, restore' \in RestoreModes,
           changes' = changes \/ (changes < MaxChanges /\ changes' = changes + 1)
    PROVE  IInv'
  <1>1. /\ ObjectOK /\ WritersOK /\ WatchOK /\ InputOK /\ RunOK /\ ShootOK
        /\ FreshCopies /\ RunInv /\ AgentInv /\ Watching
    BY Parts
  <1>2. /\ fresh' = {} /\ news' = TRUE /\ status' = status /\ gen' = gen
        /\ UNCHANGED <<writerVars, watcherVars, faults, specVars, seen, dirty, runVars, shootVars>>
    BY DEF Condition
  <1>3. /\ at' = at /\ want' = want /\ seen' = seen /\ dirty' = dirty /\ faults' = faults
        /\ agent' = agent /\ halted' = halted /\ deleting' = deleting /\ svc' = svc
        /\ serviceMonitor' = serviceMonitor /\ rc' = rc /\ my' = my /\ old' = old
        /\ warned' = warned /\ stsSeen' = stsSeen /\ stsDirty' = stsDirty /\ sts' = sts
        /\ Active' = Active
    BY <1>2 DEF writerVars, watcherVars, specVars, runVars, shootVars, Active
  <1>4. WritersOK' /\ RunOK' /\ ShootOK' /\ Reporting' /\ ServiceFirst' /\ Phased'
        /\ HaltedUnmonitored'
    BY <1>1, <1>2, Frame DEF RunInv, AgentInv
  <1>5. ObjectOK' /\ FreshCopies'
    BY <1>1, <1>2 DEF ObjectOK, FreshCopies
  <1>6. WatchOK' /\ InputOK'
    BY <1>1, <1>2, <1>3, Counters DEF WatchOK, InputOK
  <1>7. GenOrder' /\ Copies' /\ WakeUps'
    BY <1>1, <1>2, <1>3 DEF RunInv, GenOrder, Copies, WakeUps
  <1>8. AgentSetUp' /\ OneAgent'
    BY <1>1, <1>3 DEF AgentInv, AgentSetUp, OneAgent
  <1>9. Watching'
    BY <1>1, <1>2, <1>3, WatchingKept
  <1> QED BY <1>4, <1>5, <1>6, <1>7, <1>8, <1>9, PartsPrime DEF RunInv, AgentInv

\* The conditions that matter to a run.
LEMMA ConditionsStep ==
    ASSUME IInv, Pause \/ Unpause \/ Restored PROVE IInv'
  <1>1. paused \in BOOLEAN /\ restore \in RestoreModes
    BY Parts DEF InputOK
  <1>2. /\ Condition /\ paused' \in BOOLEAN /\ restore' \in RestoreModes
        /\ changes' = changes \/ (changes < MaxChanges /\ changes' = changes + 1)
    BY <1>1 DEF Pause, Unpause, Restored, RestoreModes
  <1> QED BY <1>2, ConditionStep

(* The informer catches up: a run or a status that is behind gets its key.   *)
LEMMA PxEventStep ==
    ASSUME IInv, PxEvent PROVE IInv'
  <1>1. /\ ObjectOK /\ WritersOK /\ WatchOK /\ InputOK /\ RunOK /\ ShootOK
        /\ FreshCopies /\ RunInv /\ AgentInv /\ Watching
    BY Parts
  <1>2. /\ seen' = Object /\ news' = FALSE
        /\ dirty' = (dirty \/ news \/ deleting \/ status.obsGen # gen)
        /\ UNCHANGED <<statusVars, specVars, condVars, runVars, shootVars>>
    BY DEF PxEvent
  <1>3. /\ status' = status /\ gen' = gen /\ at' = at /\ want' = want
        /\ agent' = agent /\ halted' = halted /\ deleting' = deleting /\ paused' = paused
        /\ restore' = restore /\ svc' = svc /\ faults' = faults
        /\ serviceMonitor' = serviceMonitor /\ rc' = rc /\ my' = my /\ old' = old
        /\ warned' = warned /\ Active' = Active
    BY <1>2 DEF statusVars, objectVars, writerVars, specVars, condVars, runVars, shootVars, Active
  <1>4. /\ ObjectOK' /\ WritersOK' /\ WatchOK' /\ RunOK' /\ ShootOK' /\ FreshCopies' /\ Watching'
        /\ Reporting'
    BY <1>1, <1>2, <1>3, Frame DEF statusVars, RunInv
  <1>5. /\ seen'.gen = gen /\ seen'.agent = agent /\ seen'.halted = halted
        /\ seen'.deleting = deleting /\ seen'.paused = paused /\ seen'.restore = restore
    BY <1>2 DEF Object
  <1>6. InputOK'
    BY <1>1, <1>2, <1>3 DEF InputOK, Object, ObjectOK
  <1>7. /\ status.obsGen \in Int /\ seen.gen \in Int /\ gen \in Int /\ my.gen \in Int
        /\ status.obsGen <= seen.gen /\ seen.gen <= gen
        /\ rc # "idle" => status.obsGen <= my.gen /\ my.gen <= seen.gen
    BY <1>1, Generations
  <1>8. GenOrder'
    BY <1>1, <1>3, <1>5, <1>7 DEF RunInv, GenOrder
  <1>9. seen.gen = gen => seen.agent = agent /\ seen.halted = halted /\ seen.deleting = deleting
    BY <1>1 DEF RunInv, Copies
  <1>10. Copies'
    <2>1. rc # "idle" /\ my.gen = gen => seen.gen = gen
      BY <1>7
    <2> QED BY <1>1, <1>3, <1>5, <1>9, <2>1 DEF RunInv, Copies
  <1>11. ~dirty' => ~dirty /\ seen' = seen
    <2> SUFFICES ASSUME ~dirty' PROVE ~dirty /\ seen' = seen
      OBVIOUS
    <2>1. ~dirty /\ ~news /\ status.obsGen = gen
      BY <1>2
    <2>2. /\ seen.gen = gen /\ seen.agent = agent /\ seen.halted = halted
          /\ seen.deleting = deleting /\ seen.paused = paused /\ seen.restore = restore
      BY <1>1, <1>7, <1>9, <2>1 DEF RunInv, Copies
    <2>3. seen = [gen |-> seen.gen, agent |-> seen.agent, halted |-> seen.halted,
                  deleting |-> seen.deleting, paused |-> seen.paused, restore |-> seen.restore]
      BY <1>1 DEF InputOK
    <2> QED BY <1>2, <2>1, <2>2, <2>3 DEF Object
  <1>12. WakeUps'
    BY <1>1, <1>3, <1>11 DEF RunInv, WakeUps
  <1>13. AgentInv'
    <2>1. ServiceFirst' /\ Phased' /\ HaltedUnmonitored'
      BY <1>1, <1>2, <1>3, Frame DEF AgentInv
    <2>2. AgentSetUp' /\ OneAgent'
      BY <1>1, <1>3, <1>11 DEF AgentInv, AgentSetUp, OneAgent
    <2> QED BY <2>1, <2>2 DEF AgentInv
  <1> QED BY <1>4, <1>6, <1>8, <1>10, <1>12, <1>13, PartsPrime DEF RunInv

\* The resync of the informer.
LEMMA ResyncStep ==
    ASSUME IInv, Resync PROVE IInv'
  <1>1. /\ ObjectOK /\ WritersOK /\ WatchOK /\ InputOK /\ RunOK /\ ShootOK
        /\ FreshCopies /\ RunInv /\ AgentInv /\ Watching
    BY Parts
  <1>2. /\ dirty' = TRUE
        /\ UNCHANGED <<statusVars, specVars, condVars, seen, news, runVars, shootVars>>
    BY DEF Resync
  <1>3. /\ ObjectOK' /\ WritersOK' /\ WatchOK' /\ RunOK' /\ ShootOK' /\ FreshCopies' /\ Watching'
        /\ Reporting' /\ GenOrder' /\ ServiceFirst' /\ Phased' /\ HaltedUnmonitored'
    BY <1>1, <1>2, Frame DEF statusVars, objectVars, RunInv, AgentInv
  <1>4. InputOK'
    BY <1>1, <1>2 DEF InputOK, specVars, condVars
  <1>5. Copies' /\ WakeUps'
    BY <1>1, <1>2 DEF RunInv, Copies, WakeUps, statusVars, objectVars, specVars, condVars, runVars
  <1>6. AgentSetUp' /\ OneAgent'
    BY <1>1, <1>2
       DEF AgentInv, AgentSetUp, OneAgent, Active, statusVars, writerVars, runVars, shootVars
  <1> QED BY <1>3, <1>4, <1>5, <1>6, PartsPrime DEF RunInv, AgentInv

(* The process starts again, from what the API server has.                   *)
LEMMA RestartStep ==
    ASSUME IInv, Restart, Fault \/ (rc = "fail" /\ at["operator"] = "getFailed" /\ faults' = faults)
    PROVE  IInv'
  <1>1. /\ ObjectOK /\ WritersOK /\ WatchOK /\ InputOK /\ RunOK /\ ShootOK
        /\ FreshCopies /\ RunInv /\ AgentInv /\ Watching
    BY Parts
  <1>2. /\ at' = [w \in Writers |-> "idle"] /\ fresh' = {} /\ stsSeen' = sts
        /\ stsDirty' = (sts # "none") /\ copy' = [w \in Writers |-> NoStatus]
        /\ want' = [w \in Writers |-> Nothing] /\ status' = status /\ gen' = gen
        /\ sts' = sts /\ changes' = changes
        /\ seen' = Object /\ news' = FALSE /\ dirty' = TRUE
        /\ rc' = "idle" /\ my' = NoCopy /\ old' = "" /\ warned' = FALSE
        /\ UNCHANGED <<specVars, condVars, shootVars>>
    BY DEF Restart, ForgetCalls, Return
  <1>3. /\ agent' = agent /\ halted' = halted /\ deleting' = deleting /\ paused' = paused
        /\ restore' = restore /\ svc' = svc /\ serviceMonitor' = serviceMonitor
    BY <1>2 DEF specVars, condVars, shootVars
  <1>4. faults' # 0
    <2>1. CASE Fault
      BY <1>1, <2>1, Counters DEF WatchOK, Fault
    <2>2. CASE rc = "fail" /\ at["operator"] = "getFailed" /\ faults' = faults
      BY <1>1, <2>2 DEF AgentInv, OneAgent
    <2> QED BY <2>1, <2>2
  <1>5. ObjectOK' /\ FreshCopies' /\ ShootOK'
    BY <1>1, <1>2, Frame DEF ObjectOK, FreshCopies
  <1>6. WritersOK'
    <2>1. NoStatus \in A!Status
      BY DEF NoStatus, A!Status, A!Phases
    <2>2. at' \in [Writers -> Calls] /\ copy' \in [Writers -> A!Status]
      BY <1>2, <2>1 DEF Calls
    <2>3. DOMAIN want' = Writers /\ \A w \in Writers : want'[w] \in Share(w)
      BY <1>2, ShareFacts
    <2> QED BY <2>2, <2>3 DEF WritersOK, Share
  <1>7. WatchOK'
    BY <1>1, <1>2, Counters DEF WatchOK, Fault
  <1>8. /\ InputOK' /\ seen'.gen = gen /\ seen'.agent = agent /\ seen'.halted = halted
        /\ seen'.deleting = deleting /\ seen'.paused = paused /\ seen'.restore = restore
    BY <1>1, <1>2, <1>3 DEF InputOK, ObjectOK, Object
  <1>9. RunOK'
    <2>1. NoCopy \in [gen: 0..MaxGen, agent: Agents, restore: RestoreModes]
      BY MonitorAssumption, Counters DEF MonitorAssumption, NoCopy, RestoreModes
    <2> QED BY <1>2, <2>1 DEF RunOK, RunLocs
  <1>10. Reporting'
    BY <1>2 DEF Reporting, ReportLocs, Writers
  <1>11. GenOrder'
    <2>1. status.obsGen <= gen /\ gen <= gen
      BY <1>1, Generations
    <2> QED BY <1>2, <1>8, <2>1 DEF GenOrder, MonitorLocs
  <1>12. Copies' /\ WakeUps'
    BY <1>2, <1>3, <1>8 DEF Copies, WakeUps
  <1>13. AgentInv'
    <2>1. HaltedUnmonitored'
      BY <1>1, <1>2, Frame DEF AgentInv
    <2>2. ServiceFirst' /\ Phased' /\ AgentSetUp' /\ OneAgent'
      BY <1>2, <1>4 DEF ServiceFirst, Phased, AgentSetUp, OneAgent, MonitorLocs
    <2> QED BY <2>1, <2>2 DEF AgentInv
  <1>14. Watching'
    BY <1>2 DEF Watching, Writers
  <1> QED BY <1>5, <1>6, <1>7, <1>8, <1>9, <1>10, <1>11, <1>12, <1>13, <1>14, PartsPrime DEF RunInv

(* The stats service of a database that is gone is collected.                *)
LEMMA CollectServiceStep ==
    ASSUME IInv, CollectService PROVE IInv'
  <1>1. /\ ObjectOK /\ WritersOK /\ WatchOK /\ InputOK /\ RunOK /\ ShootOK
        /\ FreshCopies /\ RunInv /\ AgentInv /\ Watching
    BY Parts
  <1>2. /\ rc = "gone" /\ svc' = NoService /\ serviceMonitor' = Orphaned
        /\ UNCHANGED <<statusVars, inputVars, runVars>>
    BY DEF CollectService, Exists
  <1>3. /\ ObjectOK' /\ WritersOK' /\ WatchOK' /\ InputOK' /\ RunOK' /\ FreshCopies' /\ Watching'
        /\ Reporting' /\ GenOrder'
    BY <1>1, <1>2, Frame DEF statusVars, objectVars, inputVars, RunInv
  <1>4. ShootOK' /\ Active' = {} /\ ~svc'.exists /\ serviceMonitor' # "owned"
    <2>1. /\ ~svc'.exists /\ ~svc'.scrape /\ svc'.recorded = ""
          /\ svc' \in [exists: BOOLEAN, recorded: (Agents \ {"none"}) \cup {""}, scrape: BOOLEAN]
      BY <1>2 DEF NoService
    <2>2. serviceMonitor' \in {"none", "orphan"}
      BY <1>1, <1>2 DEF ShootOK, Orphaned
    <2> QED BY <2>1, <2>2 DEF ShootOK, Active
  <1>5. Copies' /\ WakeUps'
    BY <1>1, <1>2 DEF RunInv, Copies, WakeUps, statusVars, objectVars, inputVars, specVars,
                      condVars, runVars
  <1>6. rc' = "gone" /\ at' = at /\ faults' = faults
    BY <1>2 DEF runVars, statusVars, writerVars
  <1>7. AgentInv'
    BY <1>1, <1>4, <1>6
       DEF AgentInv, ServiceFirst, Phased, HaltedUnmonitored, AgentSetUp, OneAgent, MonitorLocs
  <1> QED BY <1>3, <1>4, <1>5, <1>7, PartsPrime DEF RunInv

\* The garbage collector takes an orphaned ServiceMonitor.
LEMMA CollectServiceMonitorStep ==
    ASSUME IInv, CollectServiceMonitor PROVE IInv'
  <1>1. /\ ObjectOK /\ WritersOK /\ WatchOK /\ InputOK /\ RunOK /\ ShootOK
        /\ FreshCopies /\ RunInv /\ AgentInv /\ Watching
    BY Parts
  <1>2. /\ serviceMonitor = "orphan" /\ serviceMonitor' = "none" /\ svc' = svc
        /\ UNCHANGED <<statusVars, inputVars, runVars>>
    BY DEF CollectServiceMonitor
  <1>3. /\ ObjectOK' /\ WritersOK' /\ WatchOK' /\ InputOK' /\ RunOK' /\ FreshCopies' /\ Watching'
        /\ Reporting' /\ GenOrder'
    BY <1>1, <1>2, Frame DEF statusVars, objectVars, inputVars, RunInv
  <1>4. ShootOK' /\ Active' = Active
    BY <1>1, <1>2 DEF ShootOK, Active
  <1>5. Copies' /\ WakeUps'
    BY <1>1, <1>2 DEF RunInv, Copies, WakeUps, statusVars, objectVars, inputVars, specVars,
                      condVars, runVars
  <1>6. AgentInv'
    BY <1>1, <1>2, <1>4
       DEF AgentInv, ServiceFirst, Phased, HaltedUnmonitored, AgentSetUp, OneAgent,
           statusVars, objectVars, writerVars, inputVars, runVars
  <1> QED BY <1>3, <1>4, <1>5, <1>6, PartsPrime DEF RunInv

-----------------------------------------------------------------------------
(* The writers' calls, and the StatefulSet watcher. *)

(* What a call does to the status: it writes what its writer asked for, and  *)
(* the operator asks for what its run has reached.                           *)
LEMMA StatusChange ==
    ASSUME IInv, NEW w \in Writers, CallOf(w)
    PROVE  /\ w # "operator" => status'.phase = status.phase /\ status'.obsGen = status.obsGen
           /\ w = "operator" => /\ rc \in ReportLocs
                                /\ status'.replicaReady = status.replicaReady
                                /\ \/ status' = status
                                   \/ status'.phase = Reported /\ status'.obsGen = my.gen
                                /\ at'[w] = "done" => /\ status'.phase = Reported
                                                      /\ status'.obsGen = my.gen
           /\ \A b \in BOOLEAN : want[w] = [replicaReady |-> b] /\ at'[w] = "done"
                                     => status'.replicaReady = b
  <1>1. /\ ObjectOK /\ WritersOK /\ WatchOK /\ InputOK /\ RunOK /\ ShootOK
        /\ FreshCopies /\ RunInv /\ AgentInv /\ Watching
    BY Parts
  <1>2. /\ at[w] # "idle" /\ status \in A!Status /\ want[w] \in Share(w)
        /\ status' = status \/ status' = Transform(status, w)
        /\ at'[w] = "done" => status' = Transform(status, w)
    BY <1>1, CallFacts DEF ObjectOK, WritersOK
  <1>3. /\ w = "operator" => Transform(status, w).replicaReady = status.replicaReady
        /\ w # "operator" => /\ Transform(status, w).phase = status.phase
                             /\ Transform(status, w).obsGen = status.obsGen
        /\ \A p \in A!Phases, g \in 0..MaxGen :
              want[w] = [phase |-> p, obsGen |-> g]
                  => Transform(status, w).phase = p /\ Transform(status, w).obsGen = g
        /\ \A b \in BOOLEAN :
              want[w] = [replicaReady |-> b] => Transform(status, w).replicaReady = b
    BY <1>2, TransformFacts
  <1>4. ASSUME w = "operator"
        PROVE  /\ rc \in ReportLocs /\ want[w] = [phase |-> Reported, obsGen |-> my.gen]
               /\ Reported \in A!Phases /\ my.gen \in 0..MaxGen
    BY <1>1, <1>2, <1>4 DEF RunInv, Reporting, Reported, RunOK, A!Phases
  <1>5. ASSUME w = "operator"
        PROVE  Transform(status, w).phase = Reported /\ Transform(status, w).obsGen = my.gen
    BY <1>3, <1>4, <1>5
  <1> QED BY <1>2, <1>3, <1>4, <1>5

\* One call of one writer of the status.
LEMMA StatusCallStep ==
    ASSUME IInv, NEW w \in Writers, StatusCall(w) PROVE IInv'
  <1>1. /\ ObjectOK /\ WritersOK /\ WatchOK /\ InputOK /\ RunOK /\ ShootOK
        /\ FreshCopies /\ RunInv /\ AgentInv /\ Watching
    BY Parts
  <1>2. /\ CallOf(w) /\ news' = (news \/ status' # status)
        /\ UNCHANGED <<specVars, condVars, seen, dirty, runVars, shootVars>>
    BY DEF StatusCall
  <1>3. /\ ObjectOK' /\ WritersOK' /\ FreshCopies' /\ gen' = gen /\ want' = want
        /\ UNCHANGED watchVars /\ at[w] # "idle" /\ at'[w] # "idle"
        /\ \A v \in Writers \ {w} : at'[v] = at[v]
        /\ (faults' = faults /\ at'[w] # "getFailed") \/ Fault
    BY <1>1, <1>2, CallFacts
  <1>4. /\ w # "operator" => status'.phase = status.phase /\ status'.obsGen = status.obsGen
        /\ w = "operator" => /\ rc \in ReportLocs
                             /\ status'.replicaReady = status.replicaReady
                             /\ \/ status' = status
                                \/ status'.phase = Reported /\ status'.obsGen = my.gen
                             /\ at'[w] = "done" => /\ status'.phase = Reported
                                                   /\ status'.obsGen = my.gen
        /\ \A b \in BOOLEAN : want[w] = [replicaReady |-> b] /\ at'[w] = "done"
                                  => status'.replicaReady = b
    BY <1>2, StatusChange
  <1>5. /\ agent' = agent /\ halted' = halted /\ seen' = seen /\ dirty' = dirty /\ rc' = rc
        /\ my' = my /\ old' = old /\ warned' = warned /\ svc' = svc
        /\ serviceMonitor' = serviceMonitor /\ stsSeen' = stsSeen /\ stsDirty' = stsDirty
        /\ deleting' = deleting /\ paused' = paused /\ restore' = restore
        /\ Reported' = Reported /\ Active' = Active
    BY <1>2, <1>3 DEF specVars, condVars, runVars, shootVars, watchVars, Reported, Active
  <1>6. RunOK' /\ ShootOK'
    BY <1>1, <1>2, Frame
  <1>7. InputOK'
    BY <1>1, <1>2, <1>5 DEF InputOK
  <1>8. WatchOK'
    BY <1>1, <1>3, Counters DEF WatchOK, watchVars, Fault
  <1>9. Reporting'
    <2>1. CASE w = "operator"
      BY <1>1, <1>3, <1>4, <1>5, <2>1 DEF RunInv, Reporting
    <2>2. CASE w # "operator"
      <3>1. at'["operator"] = at["operator"]
        BY <1>3, <2>2 DEF Writers
      <3> QED BY <1>1, <1>3, <1>4, <1>5, <2>2, <3>1 DEF RunInv, Reporting
    <2> QED BY <2>1, <2>2
  <1>10. GenOrder'
    <2>1. CASE status'.obsGen = status.obsGen
      BY <1>1, <1>3, <1>5, <2>1 DEF RunInv, GenOrder
    <2>2. CASE rc \in ReportLocs /\ status'.obsGen = my.gen
      <3>1. rc # "idle" /\ rc \notin MonitorLocs
        BY <2>2 DEF ReportLocs, MonitorLocs
      <3>2. my.gen <= my.gen /\ my.gen <= seen.gen /\ seen.gen <= gen
        BY <1>1, <3>1, Generations
      <3> QED BY <1>3, <1>5, <2>2, <3>1, <3>2 DEF GenOrder
    <2> QED BY <1>4, <2>1, <2>2
  <1>11. Copies'
    BY <1>1, <1>2, <1>3, <1>5 DEF RunInv, Copies
  <1>12. WakeUps'
    <2>1. faults' = 0 => faults = 0
      BY <1>1, <1>3, Counters DEF WatchOK, Fault
    <2> QED BY <1>1, <1>4, <1>5, <2>1 DEF RunInv, WakeUps, ReportLocs
  <1>13. AgentInv'
    <2>1. HaltedUnmonitored'
      <3>1. status'.phase = "Halted" => status.phase = "Halted" \/ rc = "halted"
        BY <1>4 DEF Reported
      <3> QED BY <1>1, <1>5, <3>1 DEF AgentInv, HaltedUnmonitored, Phased
    <2>2. Phased'
      BY <1>1, <1>4, <1>5 DEF AgentInv, Phased, ReportLocs, MonitorLocs
    <2>3. ServiceFirst' /\ AgentSetUp'
      BY <1>1, <1>5 DEF AgentInv, ServiceFirst, AgentSetUp
    <2>4. OneAgent'
      <3>1. faults' = 0 => faults = 0 /\ at'[w] # "getFailed"
        BY <1>1, <1>3, Counters DEF WatchOK, Fault
      <3>2. at'["operator"] = "getFailed" => w = "operator" \/ at["operator"] = "getFailed"
        BY <1>3 DEF Writers
      <3> QED BY <1>1, <1>5, <3>1, <3>2 DEF AgentInv, OneAgent
    <2> QED BY <2>1, <2>2, <2>3, <2>4 DEF AgentInv
  <1>14. Watching'
    <2>1. CASE w = "operator"
      <3>1. /\ \A v \in {"watcher", "handler"} : at'[v] = at[v]
            /\ status'.replicaReady = status.replicaReady
        BY <1>3, <1>4, <2>1 DEF Writers
      <3> QED BY <1>1, <1>3, <1>5, <3>1 DEF Watching
    <2>2. CASE w = "handler"
      <3>1. stsSeen = "none"
        BY <1>1, <1>3, <2>2 DEF Watching
      <3> QED BY <1>5, <3>1 DEF Watching
    <2>3. CASE w = "watcher"
      <3>1. at'["handler"] = at["handler"]
        BY <1>3, <2>3 DEF Writers
      <3>2. stsSeen # "none" /\ ~stsDirty => want["watcher"] = [replicaReady |-> stsSeen = "ready"]
        BY <1>1, <1>3, <2>3 DEF Watching
      <3>3. (stsSeen = "ready") \in BOOLEAN
        OBVIOUS
      <3>4. stsSeen # "none" /\ ~stsDirty /\ at'["watcher"] = "done"
               => status'.replicaReady = (stsSeen = "ready")
        BY <1>4, <2>3, <3>2, <3>3
      <3> QED BY <1>1, <1>3, <1>5, <2>3, <3>1, <3>2, <3>4 DEF Watching
    <2> QED BY <2>1, <2>2, <2>3 DEF Writers
  <1> QED
    BY <1>3, <1>6, <1>7, <1>8, <1>9, <1>10, <1>11, <1>12, <1>13, <1>14, PartsPrime DEF RunInv

(* A step that leaves the run, the object and the operator's write alone.    *)
LEMMA WatcherFrame ==
    ASSUME IInv, UNCHANGED <<objectVars, faults, monitorVars>>,
           at'["operator"] = at["operator"], want'["operator"] = want["operator"],
           WritersOK', FreshCopies', WatchOK', Watching'
    PROVE  IInv'
  <1>1. /\ ObjectOK /\ WritersOK /\ WatchOK /\ InputOK /\ RunOK /\ ShootOK
        /\ FreshCopies /\ RunInv /\ AgentInv /\ Watching
    BY Parts
  <1>2. /\ status' = status /\ gen' = gen /\ agent' = agent /\ halted' = halted /\ seen' = seen
        /\ dirty' = dirty /\ rc' = rc /\ my' = my /\ old' = old /\ warned' = warned
        /\ svc' = svc /\ serviceMonitor' = serviceMonitor /\ faults' = faults
        /\ deleting' = deleting /\ news' = news /\ paused' = paused /\ restore' = restore
        /\ Active' = Active /\ Reported' = Reported
    BY DEF objectVars, monitorVars, inputVars, specVars, condVars, runVars, shootVars, Active,
           Reported
  <1>3. ObjectOK' /\ InputOK' /\ RunOK' /\ ShootOK' /\ GenOrder'
    BY <1>1, Frame DEF monitorVars, inputVars, RunInv
  <1>4. Reporting'
    BY <1>1, <1>2 DEF RunInv, Reporting
  <1>5. Copies' /\ WakeUps'
    BY <1>1, <1>2 DEF RunInv, Copies, WakeUps
  <1>6. ServiceFirst' /\ Phased' /\ HaltedUnmonitored' /\ AgentSetUp'
    BY <1>1, <1>2 DEF AgentInv, ServiceFirst, Phased, HaltedUnmonitored, AgentSetUp
  <1>7. OneAgent'
    BY <1>1, <1>2 DEF AgentInv, OneAgent
  <1> QED BY <1>3, <1>4, <1>5, <1>6, <1>7, PartsPrime DEF RunInv, AgentInv

\* The StatefulSet watcher and its event handlers.
LEMMA StsWatcherStep ==
    ASSUME IInv, WatcherStep, UNCHANGED monitorVars PROVE IInv'
  <1>1. /\ ObjectOK /\ WritersOK /\ WatchOK /\ InputOK /\ RunOK /\ ShootOK
        /\ FreshCopies /\ RunInv /\ AgentInv /\ Watching
    BY Parts
  <1>2. UNCHANGED monitorVars /\ WatcherStep
    OBVIOUS
  <1>3. CASE StsEvent
    <2>1. /\ stsSeen # sts /\ at["handler"] = "idle" /\ stsSeen' = sts /\ sts' = sts
          /\ changes' = changes /\ faults' = faults /\ UNCHANGED objectVars
      BY <1>3 DEF StsEvent
    <2>2. CASE sts = "none"
      <3>1. Begin("handler", [replicaReady |-> FALSE]) /\ stsDirty' = stsDirty
        BY <1>3, <2>2 DEF StsEvent
      <3>2. [replicaReady |-> FALSE] \in Share("handler")
        BY ShareFacts
      <3>3. /\ WritersOK' /\ FreshCopies' /\ at'["operator"] = at["operator"]
            /\ want'["operator"] = want["operator"]
        BY <1>1, <2>1, <3>1, <3>2, BeginFacts DEF Writers
      <3>4. WatchOK' /\ Watching'
        BY <1>1, <2>1, <2>2, <3>1 DEF WatchOK, Watching
      <3> QED BY <1>2, <2>1, <3>3, <3>4, WatcherFrame
    <2>3. CASE sts # "none"
      <3>1. stsDirty' = TRUE /\ UNCHANGED writerVars
        BY <1>3, <2>3 DEF StsEvent
      <3>2. WritersOK' /\ FreshCopies' /\ at' = at /\ want' = want
        BY <1>1, <2>1, <3>1, Frame DEF writerVars
      <3>3. WatchOK' /\ Watching'
        BY <1>1, <2>1, <3>1, <3>2 DEF WatchOK, Watching
      <3> QED BY <1>2, <2>1, <3>2, <3>3, WatcherFrame
    <2> QED BY <2>2, <2>3
  <1>4. CASE HandlerReturns
    <2>1. End("handler") /\ UNCHANGED <<objectVars, watchVars, faults>>
      BY <1>4 DEF HandlerReturns
    <2>2. /\ WritersOK' /\ FreshCopies' /\ at'["handler"] = "idle"
          /\ \A v \in {"operator", "watcher"} : at'[v] = at[v] /\ want'[v] = want[v]
      BY <1>1, <2>1, EndFacts DEF Writers
    <2>3. WatchOK'
      BY <1>1, <2>1, Frame
    <2>4. Watching'
      BY <1>1, <2>1, <2>2 DEF Watching, watchVars, objectVars
    <2> QED BY <1>2, <2>1, <2>2, <2>3, <2>4, WatcherFrame
  <1>5. CASE processStatefulSet
    <2>1. /\ stsDirty /\ at["watcher"] = "idle" /\ stsDirty' = FALSE /\ sts' = sts
          /\ stsSeen' = stsSeen /\ changes' = changes /\ faults' = faults /\ UNCHANGED objectVars
      BY <1>5 DEF processStatefulSet
    <2>2. WatchOK'
      BY <1>1, <2>1 DEF WatchOK
    <2>3. CASE stsSeen = "none"
      <3>1. UNCHANGED writerVars
        BY <1>5, <2>3 DEF processStatefulSet
      <3>2. WritersOK' /\ FreshCopies' /\ at' = at /\ want' = want
        BY <1>1, <2>1, <3>1, Frame DEF writerVars
      <3>3. Watching'
        BY <2>1, <2>3 DEF Watching
      <3> QED BY <1>2, <2>1, <2>2, <3>2, <3>3, WatcherFrame
    <2>4. CASE stsSeen # "none"
      <3>1. Begin("watcher", [replicaReady |-> stsSeen = "ready"])
        BY <1>5, <2>4 DEF processStatefulSet
      <3>2. [replicaReady |-> stsSeen = "ready"] \in Share("watcher")
        BY DEF Share
      <3>3. /\ WritersOK' /\ FreshCopies' /\ at'["watcher"] = "get"
            /\ want'["watcher"] = [replicaReady |-> stsSeen = "ready"]
            /\ \A v \in {"operator", "handler"} : at'[v] = at[v] /\ want'[v] = want[v]
        BY <1>1, <2>1, <3>1, <3>2, BeginFacts DEF Writers
      <3>4. Watching'
        BY <1>1, <2>1, <3>3 DEF Watching
      <3> QED BY <1>2, <2>1, <2>2, <3>3, <3>4, WatcherFrame
    <2> QED BY <2>3, <2>4
  <1>6. CASE WatcherReturns
    <2>1. /\ End("watcher") /\ stsDirty' = (stsDirty \/ at["watcher"] # "done")
          /\ sts' = sts /\ stsSeen' = stsSeen /\ changes' = changes /\ faults' = faults
          /\ UNCHANGED objectVars
      BY <1>6 DEF WatcherReturns
    <2>2. /\ WritersOK' /\ FreshCopies' /\ at'["watcher"] = "idle"
          /\ \A v \in {"operator", "handler"} : at'[v] = at[v] /\ want'[v] = want[v]
      BY <1>1, <2>1, EndFacts DEF Writers
    <2>3. WatchOK'
      BY <1>1, <2>1 DEF WatchOK
    <2>4. ~stsDirty' => ~stsDirty /\ at["watcher"] = "done"
      BY <2>1
    <2>5. Watching'
      BY <1>1, <2>1, <2>2, <2>4 DEF Watching, objectVars
    <2> QED BY <1>2, <2>1, <2>2, <2>3, <2>5, WatcherFrame
  <1> QED BY <1>2, <1>3, <1>4, <1>5, <1>6 DEF WatcherStep

\* The readiness of the pods changes.
LEMMA PodsChangeStep ==
    ASSUME IInv, PodsChange, UNCHANGED monitorVars PROVE IInv'
  <1>1. /\ ObjectOK /\ WritersOK /\ WatchOK /\ InputOK /\ RunOK /\ ShootOK
        /\ FreshCopies /\ RunInv /\ AgentInv /\ Watching
    BY Parts
  <1>2. /\ changes < MaxChanges /\ changes' = changes + 1 /\ sts' \in {"notReady", "ready"}
        /\ stsSeen' = stsSeen /\ stsDirty' = stsDirty /\ faults' = faults
        /\ UNCHANGED <<objectVars, writerVars>>
    BY DEF PodsChange, SetSts
  <1>3. WatchOK'
    BY <1>1, <1>2, Counters DEF WatchOK
  <1>4. WritersOK' /\ FreshCopies' /\ at' = at /\ want' = want /\ status' = status
    BY <1>1, <1>2, Frame DEF writerVars, objectVars
  <1>5. Watching'
    BY <1>1, <1>2, <1>4, WatchingKept
  <1> QED BY <1>2, <1>3, <1>4, <1>5, WatcherFrame

-----------------------------------------------------------------------------
(* The theorems. *)

\* The invariant holds at the start, ...
LEMMA Initial == MInit => IInv
  <1> SUFFICES ASSUME MInit PROVE IInv
    OBVIOUS
  <1>1. /\ status = [phase |-> "Provisioning", obsGen |-> 0, replicaReady |-> FALSE]
        /\ gen = 1 /\ fresh = {}
        /\ at = [w \in Writers |-> "idle"] /\ copy = [w \in Writers |-> NoStatus]
        /\ want = [w \in Writers |-> Nothing]
        /\ sts = "none" /\ stsSeen = "none" /\ stsDirty = FALSE /\ changes = 0 /\ faults = 0
    BY DEF MInit, StatusInit, NoStatus
  <1>2. /\ agent \in Agents /\ halted = FALSE /\ deleting = FALSE /\ paused = FALSE
        /\ restore \in RestoreModes /\ seen = Object /\ news = FALSE /\ dirty = TRUE
        /\ rc = "idle" /\ my = NoCopy /\ old = "" /\ warned = FALSE
        /\ svc = NoService /\ serviceMonitor = "none"
    BY MonitorAssumption DEF MInit, MonitorAssumption, RestoreModes
  <1>3. ObjectOK /\ FreshCopies /\ WatchOK
    BY <1>1, Counters DEF ObjectOK, FreshCopies, WatchOK, A!Status, A!Phases
  <1>4. WritersOK
    <2>1. NoStatus \in A!Status
      BY DEF NoStatus, A!Status, A!Phases
    <2>2. at \in [Writers -> Calls] /\ copy \in [Writers -> A!Status]
      BY <1>1, <2>1 DEF Calls
    <2> QED BY <1>1, <2>2, ShareFacts DEF WritersOK
  <1>5. /\ InputOK /\ seen.gen = 1 /\ gen = 1 /\ seen.agent = agent /\ seen.halted = halted
        /\ seen.deleting = deleting /\ seen.paused = paused /\ seen.restore = restore
    BY <1>1, <1>2, Counters DEF InputOK, Object
  <1>6. RunOK
    <2>1. NoCopy \in [gen: 0..MaxGen, agent: Agents, restore: RestoreModes]
      BY MonitorAssumption, Counters DEF MonitorAssumption, NoCopy, RestoreModes
    <2> QED BY <1>2, <2>1 DEF RunOK, RunLocs
  <1>7. ShootOK
    BY <1>2 DEF ShootOK, NoService
  <1>8. RunInv
    <2>1. at["operator"] = "idle" /\ status.obsGen <= seen.gen /\ seen.gen <= gen
      BY <1>1, <1>5 DEF Writers
    <2> QED
      BY <1>2, <1>5, <2>1 DEF RunInv, Reporting, GenOrder, Copies, WakeUps, ReportLocs, MonitorLocs
  <1>9. AgentInv
    <2>1. Active = {} /\ at["operator"] = "idle" /\ status.phase = "Provisioning"
      BY <1>1, <1>2 DEF Active, NoService, Writers
    <2> QED
      BY <1>2, <2>1 DEF AgentInv, ServiceFirst, Phased, HaltedUnmonitored, AgentSetUp, OneAgent,
                        MonitorLocs
  <1>10. Watching
    BY <1>1 DEF Watching, Writers
  <1> QED BY <1>3, <1>4, <1>5, <1>6, <1>7, <1>8, <1>9, <1>10, Parts

\* ... every step keeps it, ...
LEMMA Inductive == IInv /\ [MNext]_mvars => IInv'
  <1> SUFFICES ASSUME IInv, [MNext]_mvars PROVE IInv'
    OBVIOUS
  <1>1. CASE OperatorStep
    <2>1. CASE PushFailurePanics
      BY <2>1, RestartStep DEF PushFailurePanics
    <2> QED
      BY <1>1, <2>1, RunStep, ValidationFailsStep, WaitForInitialRestoreStep,
         EnsureStatefulSetStep, SetReadyStep, ensureStatsServiceStep,
         getOldAgentStep, DeleteOldAgentStep, addOrUpdateMonitorStep, setNewAgentStep,
         HaltStatefulSetStep, HaltServicesStep, HaltMonitorStep, SetHaltedStep,
         PushFailureEventStep, terminateStep, RemoveFinalizerStep DEF OperatorStep
  <1>2. CASE Crash
    BY <1>2, RestartStep DEF Crash
  <1>3. CASE \E w \in Writers : StatusCall(w)
    BY <1>3, StatusCallStep
  <1>4. CASE UNCHANGED mvars
    <2>1. UNCHANGED <<objectVars, faults, monitorVars, writerVars, watchVars, status, at, want>>
      BY <1>4 DEF mvars, statusVars, objectVars, writerVars
    <2>2. WritersOK' /\ FreshCopies' /\ WatchOK' /\ Watching'
      BY <2>1, Parts, Frame
    <2> QED BY <2>1, <2>2, WatcherFrame
  <1> QED
    BY <1>1, <1>2, <1>3, <1>4, EditStep, ConditionsStep, PxEventStep, ResyncStep,
       CollectServiceStep, CollectServiceMonitorStep, StsWatcherStep, PodsChangeStep
       DEF MNext, StsWatcher

\* ... so it always holds.
LEMMA Invariance == MSpec => []IInv
  BY Initial, Inductive, PTL DEF MSpec

(* Every variable of the run, of the writers and of the watcher keeps its    *)
(* type, whatever the bounds and whichever agents there are.                 *)
THEOREM TypeCorrect == MSpec => []TypeOK
  <1>1. IInv => TypeOK
    BY DEF IInv
  <1> QED BY <1>1, Invariance, PTL

(* halt reports Halted only after the stats service is gone and the          *)
(* ServiceMonitor has no owner (dormant.go:186-210); no other write of the   *)
(* status, no late run and no restart makes the report false.                *)
THEOREM HaltedIsUnmonitored == MSpec => []HaltedUnmonitored
  <1>1. IInv => HaltedUnmonitored
    BY DEF IInv
  <1> QED BY <1>1, Invariance, PTL

(* Errors of validation and of monitoring are swallowed                      *)
(* (percona_xtradb.go:39-49, 161-185): at rest the agent of the spec is set  *)
(* up, or the last run has warned, unless the database is paused, waits for  *)
(* its initial restore or is being deleted.                                  *)
THEOREM MonitorIsAppliedOrWarned == MSpec => []MonitorAppliedOrWarned
  <1>1. IInv => MonitorAppliedOrWarned
    <2> SUFFICES ASSUME IInv, Settled, ~deleting, ~halted, agent # "none", ~Waits(Object), ~warned
                 PROVE  agent \in Active
      BY DEF MonitorAppliedOrWarned
    <2>1. AgentSetUp /\ rc = "idle" /\ ~dirty /\ seen = Object
      BY DEF IInv, Settled
    <2>2. seen.agent = agent /\ seen.halted = halted /\ seen.deleting = deleting
      BY <2>1 DEF Object
    <2> QED BY <2>1, <2>2 DEF AgentSetUp
  <1> QED BY <1>1, Invariance, PTL

(* The old agent is deleted before another one is set up, and with halt      *)
(* (monitor.go:89-108): a run that gets there without a failing call leaves  *)
(* none behind.                                                              *)
THEOREM NoAgentIsStray == MSpec => []NoStrayAgent
  <1>1. IInv => NoStrayAgent
    <2> SUFFICES ASSUME IInv, Settled, faults = 0, ~warned, ~Waits(Object)
                 PROVE  Active \subseteq (IF halted THEN {} ELSE {agent})
      BY DEF NoStrayAgent
    <2>1. OneAgent /\ rc = "idle" /\ ~dirty /\ seen = Object
      BY DEF IInv, Settled
    <2>2. seen.agent = agent /\ seen.halted = halted
      BY <2>1 DEF Object
    <2> QED BY <2>1, <2>2 DEF OneAgent
  <1> QED BY <1>1, Invariance, PTL

(* Before the operator or the watcher comes to rest the generation of the    *)
(* spec is reported, or an event or a condition says why not, and the        *)
(* readiness of the pods is in ReplicaReady; a deletion rests only after a   *)
(* failed call (handler.go:97-109, workqueue.go:54-77,                       *)
(* percona_xtradb.go:39-80, 135-148, statefulset/controller.go:112-131).     *)
THEOREM NothingIsForgotten == MSpec => []NothingForgotten
  <1>1. IInv => NothingForgotten
    <2> SUFFICES ASSUME IInv PROVE NothingForgotten
      OBVIOUS
    <2>1. WakeUps /\ Watching /\ faults \in 0..MaxFaults
      BY DEF IInv, TypeOK, StatusTypeOK, WatchOK
    <2>2. Settled => IF deleting THEN faults > 0
                                 ELSE status.obsGen = gen \/ warned \/ Waits(Object)
      <3> SUFFICES ASSUME Settled
                   PROVE  IF deleting THEN faults > 0
                                      ELSE status.obsGen = gen \/ warned \/ Waits(Object)
        OBVIOUS
      <3>1. seen = Object /\ seen.gen = gen /\ seen.deleting = deleting
        BY DEF Settled, Object
      <3>2. IF deleting THEN faults # 0 ELSE status.obsGen = gen \/ warned \/ Waits(Object)
        BY <2>1, <3>1 DEF Settled, WakeUps
      <3>3. faults # 0 => faults > 0
        BY <2>1
      <3> QED BY <3>2, <3>3
    <2>3. stsSeen = sts /\ ~stsDirty /\ at["watcher"] = "idle" /\ sts # "none"
             => status.replicaReady = (sts = "ready")
      BY <2>1 DEF Watching
    <2> QED BY <2>2, <2>3 DEF NothingForgotten
  <1> QED BY <1>1, Invariance, PTL

(* The writers of the status implement AtomicStatus: an update that the API  *)
(* server accepts is made on the present status, changes the fields of its   *)
(* writer only, and never reports an older generation than before            *)
(* (util/perconaxtradb.go:121-145, conditions.go:59-80).                     *)
THEOREM WritersImplementAtomicStatus == MSpec => StatusIsAtomic
  <1>1. MInit => A!Init
    <2> SUFFICES ASSUME MInit PROVE A!Init
      OBVIOUS
    <2>1. status = [phase |-> "Provisioning", obsGen |-> 0, replicaReady |-> FALSE] /\ gen = 1
      BY DEF MInit, StatusInit, NoStatus
    <2> QED BY <2>1 DEF A!Init, A!Status, A!Phases
  <1>2. IInv /\ [MNext]_mvars => [A!Next]_<<status, gen>>
    <2> SUFFICES ASSUME IInv, MNext, ~UNCHANGED <<status, gen>> PROVE A!Next
      BY DEF mvars, statusVars, objectVars
    <2>1. /\ ObjectOK /\ WritersOK /\ InputOK /\ RunOK /\ FreshCopies /\ RunInv
      BY Parts
    <2>2. CASE Edit
      BY <2>2 DEF Edit, SpecChanges, A!Next, A!Edit
    <2>3. ASSUME NEW w \in Writers, StatusCall(w) PROVE A!Next
      <3>1. CallOf(w)
        BY <2>3 DEF StatusCall
      <3>2. /\ status' \in A!Status /\ status \in A!Status /\ gen' = gen
        BY <2>1, <3>1, CallFacts DEF ObjectOK
      <3>3. /\ w # "operator" => status'.phase = status.phase /\ status'.obsGen = status.obsGen
            /\ w = "operator" => /\ rc \in ReportLocs
                                 /\ status'.replicaReady = status.replicaReady
                                 /\ \/ status' = status
                                    \/ status'.phase = Reported /\ status'.obsGen = my.gen
        BY <3>1, StatusChange
      <3>4. /\ status.obsGen \in Int /\ status.obsGen <= gen
            /\ rc # "idle" => status.obsGen <= my.gen /\ my.gen <= gen
        BY <2>1, Generations
      <3>5. CASE w = "operator"
        <4>1. status'.obsGen = my.gen /\ rc # "idle"
          BY <3>2, <3>3, <3>5 DEF ReportLocs
        <4>2. status.obsGen <= status'.obsGen /\ status'.obsGen <= gen
          BY <3>4, <4>1
        <4>3. A!Write({"phase", "obsGen"})
          BY <3>2, <3>3, <3>5, <4>2 DEF A!Write, A!Fields
        <4> QED BY <4>3 DEF A!Next, A!Shares
      <3>6. CASE w # "operator"
        <4>1. status.obsGen <= status'.obsGen /\ status'.obsGen <= gen
          BY <3>3, <3>4, <3>6
        <4>2. A!Write({"replicaReady"})
          BY <3>2, <3>3, <3>6, <4>1 DEF A!Write, A!Fields
        <4> QED BY <4>2 DEF A!Next, A!Shares
      <3> QED BY <3>5, <3>6
    <2>4. CASE OperatorStep
      <3>1. UNCHANGED <<status, gen>>
        BY <2>4 DEF OperatorStep, Run, ValidationFails, WaitForInitialRestore, EnsureStatefulSet,
                    SetReady, ensureStatsService, getOldAgent, DeleteOldAgent, addOrUpdateMonitor,
                    setNewAgent, HaltStatefulSet, HaltServices, HaltMonitor, SetHalted,
                    PushFailureEvent, PushFailurePanics, terminate, RemoveFinalizer, MonitorCall,
                    HaltCall, Restart, ForgetCalls, statusVars, objectVars
      <3> QED BY <3>1
    <2>5. CASE \/ Pause \/ Unpause \/ Restored \/ PxEvent \/ Resync \/ Crash
               \/ CollectService \/ CollectServiceMonitor \/ StsWatcher
      <3>1. UNCHANGED <<status, gen>>
        BY <2>5 DEF Pause, Unpause, Restored, Condition, PxEvent, Resync, Crash, Restart,
                    ForgetCalls, CollectService, CollectServiceMonitor, StsWatcher,
                    WatcherStep, StsEvent, HandlerReturns, processStatefulSet, WatcherReturns,
                    PodsChange, statusVars, objectVars
      <3> QED BY <3>1
    <2> QED BY <2>2, <2>3, <2>4, <2>5 DEF MNext
  <1> QED BY <1>1, <1>2, Invariance, PTL DEF MSpec, StatusIsAtomic, A!Spec
=============================================================================
