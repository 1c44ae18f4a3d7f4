--------------------------- MODULE WorkQueueProofs ---------------------------
(***************************************************************************)
(* Proofs about WorkQueue for every set of keys, every number of workers    *)
(* and every retry limit: the safety invariants, and that the queue         *)
(* implements KeyQueue.                                                     *)
(***************************************************************************)
EXTENDS WorkQueue, TLAPS

\* A goroutine ends only after ShutDown, so that nothing is added after the
\* last one has left.
ExitAfterShutDown == \A w \in Workers : pc[w] = "exit" => shuttingDown

(* The inductive invariant.  MutualExclusion needs all of the bookkeeping:   *)
(* that a queued key is with no worker (QueueOfDirty) keeps Get from handing *)
(* it out twice, and ProcessingIsHeld ties the processing set to the         *)
(* workers.                                                                  *)
IInv ==
    /\ TypeOK
    /\ QueueOfDirty
    /\ NoLostKey
    /\ ProcessingIsHeld
    /\ MutualExclusion
    /\ ExitAfterShutDown
    /\ ExitedMeansDrained

-----------------------------------------------------------------------------
(* What Get does to the sequence `queue': the tail is the queue without its  *)
(* first element, shifted by one (queue.go:151-158).                         *)
LEMMA TailFacts ==
    ASSUME NEW S, NEW q \in Seq(S), q # << >>
    PROVE  /\ Head(q) = q[1] /\ Head(q) \in S
           /\ Tail(q) \in Seq(S)
           /\ Len(q) \in Nat /\ Len(q) >= 1
           /\ Len(Tail(q)) = Len(q) - 1
           /\ \A i \in 1..Len(Tail(q)) : Tail(q)[i] = q[i + 1]
  OBVIOUS

(* What Add and Done do to it: one element more, at the end                  *)
(* (queue.go:125, queue.go:173).                                             *)
LEMMA AppendFacts ==
    ASSUME NEW S, NEW q \in Seq(S), NEW k \in S
    PROVE  /\ Append(q, k) \in Seq(S)
           /\ Len(q) \in Nat
           /\ Len(Append(q, k)) = Len(q) + 1
           /\ \A i \in 1..Len(q) : Append(q, k)[i] = q[i]
           /\ Append(q, k)[Len(q) + 1] = k
  OBVIOUS

(* A queue that gets a key it does not have stays free of duplicates and     *)
(* inside any set that has the old keys and the new one.                     *)
LEMMA AppendFresh ==
    ASSUME NEW S, NEW q \in Seq(S), NEW k \in S, NEW T,
           \A i \in 1..Len(q) : q[i] \in T \ {k},
           \A i, j \in 1..Len(q) : q[i] = q[j] => i = j
    PROVE  /\ \A i \in 1..Len(Append(q, k)) : Append(q, k)[i] \in T \cup {k}
           /\ \A i, j \in 1..Len(Append(q, k)) :
                 Append(q, k)[i] = Append(q, k)[j] => i = j
           /\ \E i \in 1..Len(Append(q, k)) : Append(q, k)[i] = k
           /\ \A x \in S : (\E i \in 1..Len(q) : q[i] = x)
                              => \E i \in 1..Len(Append(q, k)) : Append(q, k)[i] = x
  <1>1. /\ Len(q) \in Nat
        /\ Len(Append(q, k)) = Len(q) + 1
        /\ \A i \in 1..Len(q) : Append(q, k)[i] = q[i]
        /\ Append(q, k)[Len(q) + 1] = k
    BY AppendFacts
  <1>2. \A i \in 1..Len(Append(q, k)) : i \in 1..Len(q) \/ i = Len(q) + 1
    BY <1>1
  <1>3. \A i \in 1..Len(q) : i \in 1..Len(Append(q, k))
    BY <1>1
  <1>4. Len(q) + 1 \in 1..Len(Append(q, k))
    BY <1>1
  <1> QED BY <1>1, <1>2, <1>3, <1>4

-----------------------------------------------------------------------------
(* Add keeps the bookkeeping whether the key is new, already dirty or with a *)
(* worker (queue.go:108-127); Enqueue and WaitingLoop both rest on it.       *)
LEMMA AddPreserves ==
    ASSUME TypeOK, QueueOfDirty, NoLostKey, NEW k \in Keys, Add(k)
    PROVE  /\ queue' \in Seq(Keys) /\ dirty' \in SUBSET Keys
           /\ processing' = processing
           /\ QueueOfDirty' /\ NoLostKey'
           /\ shuttingDown => UNCHANGED <<queue, dirty>>
  <1>1. CASE shuttingDown \/ k \in dirty
    BY <1>1 DEF Add, queueVars, TypeOK, QueueOfDirty, NoLostKey
  <1>2. CASE ~(shuttingDown \/ k \in dirty) /\ k \in processing
    BY <1>2 DEF Add, queueVars, TypeOK, QueueOfDirty, NoLostKey
  <1>3. CASE ~(shuttingDown \/ k \in dirty) /\ k \notin processing
    <2>1. /\ dirty' = dirty \cup {k} /\ queue' = Append(queue, k)
          /\ processing' = processing /\ queue \in Seq(Keys) /\ k \notin dirty
      BY <1>3 DEF Add, TypeOK
    <2>2. \A i \in 1..Len(queue) : queue[i] \in (dirty \ processing) \ {k}
      BY <2>1 DEF QueueOfDirty
    <2>3. \A i, j \in 1..Len(queue) : queue[i] = queue[j] => i = j
      BY DEF QueueOfDirty
    <2>4. /\ \A i \in 1..Len(queue') : queue'[i] \in (dirty \ processing) \cup {k}
          /\ \A i, j \in 1..Len(queue') : queue'[i] = queue'[j] => i = j
          /\ \E i \in 1..Len(queue') : queue'[i] = k
          /\ \A x \in Keys : (\E i \in 1..Len(queue) : queue[i] = x)
                                => \E i \in 1..Len(queue') : queue'[i] = x
      BY <2>1, <2>2, <2>3, AppendFresh
    <2>5. QueueOfDirty'
      BY <1>3, <2>1, <2>4 DEF QueueOfDirty
    <2>6. NoLostKey'
      BY <2>1, <2>4 DEF NoLostKey, TypeOK
    <2>7. queue' \in Seq(Keys)
      BY <2>1, AppendFacts
    <2> QED BY <1>3, <2>1, <2>5, <2>6, <2>7 DEF TypeOK
  <1> QED BY <1>1, <1>2, <1>3

(* When a step leaves the workers, their keys and the processing set alone   *)
(* and nothing is added once the queue shuts down, the part of IInv that is  *)
(* about workers carries over.                                               *)
LEMMA WorkersUnchanged ==
    ASSUME IInv, UNCHANGED <<held, pc, processing, shuttingDown>>,
           shuttingDown => UNCHANGED <<queue, dirty>>
    PROVE  ProcessingIsHeld' /\ MutualExclusion' /\ ExitAfterShutDown' /\ ExitedMeansDrained'
  <1>1. ProcessingIsHeld' /\ MutualExclusion' /\ ExitAfterShutDown'
    BY DEF IInv, ProcessingIsHeld, MutualExclusion, ExitAfterShutDown
  <1>2. ExitedMeansDrained'
    BY DEF IInv, ExitAfterShutDown, ExitedMeansDrained
  <1> QED BY <1>1, <1>2

(* Every step of the queue and of the workers keeps the inductive invariant. *)
LEMMA Inductive ==
    ASSUME IInv, [Next]_vars
    PROVE  IInv'
  <1> USE WorkQueueAssumption DEF WorkQueueAssumption
  <1>1. ASSUME NEW k \in Keys, Enqueue(k)
        PROVE  IInv'
    <2>1. TypeOK' /\ QueueOfDirty' /\ NoLostKey'
      BY <1>1, AddPreserves DEF IInv, Enqueue, TypeOK
    <2>2. ProcessingIsHeld' /\ MutualExclusion' /\ ExitAfterShutDown' /\ ExitedMeansDrained'
      BY <1>1, AddPreserves, WorkersUnchanged DEF IInv, Enqueue
    <2> QED BY <2>1, <2>2 DEF IInv
  <1>2. ASSUME NEW k \in Keys, WaitingLoop(k)
        PROVE  IInv'
    <2>1. TypeOK' /\ QueueOfDirty' /\ NoLostKey'
      BY <1>2, AddPreserves DEF IInv, WaitingLoop, TypeOK
    <2>2. ProcessingIsHeld' /\ MutualExclusion' /\ ExitAfterShutDown' /\ ExitedMeansDrained'
      BY <1>2, AddPreserves, WorkersUnchanged DEF IInv, WaitingLoop
    <2> QED BY <2>1, <2>2 DEF IInv
  <1>3. ASSUME NEW w \in Workers, Get(w)
        PROVE  IInv'
    <2> DEFINE h == Head(queue)
    <2>1. /\ h = queue[1] /\ h \in Keys /\ Tail(queue) \in Seq(Keys)
          /\ Len(queue) \in Nat /\ Len(queue) >= 1
          /\ Len(Tail(queue)) = Len(queue) - 1
          /\ \A i \in 1..Len(Tail(queue)) : Tail(queue)[i] = queue[i + 1]
      BY <1>3, TailFacts DEF Get, IInv, TypeOK
    <2>2. h \in dirty \ processing
      BY <2>1 DEF IInv, QueueOfDirty
    <2> HIDE DEF h
    <2>3. /\ queue' = Tail(queue) /\ processing' = processing \cup {h}
          /\ dirty' = dirty \ {h}
          /\ held' = [held EXCEPT ![w] = h] /\ pc' = [pc EXCEPT ![w] = "reconcile"]
          /\ pc[w] = "get" /\ UNCHANGED <<waiting, failures, shuttingDown>>
      BY <1>3 DEF Get, h
    <2>4. TypeOK'
      BY <2>1, <2>3 DEF IInv, TypeOK, Locations
    <2>5. QueueOfDirty'
      <3>1. \A i \in 1..Len(Tail(queue)) : i + 1 \in 1..Len(queue) /\ i + 1 # 1
        BY <2>1
      <3>2. \A i \in 1..Len(Tail(queue)) : queue[i + 1] # h /\ queue[i + 1] \in dirty \ processing
        BY <2>1, <3>1 DEF IInv, QueueOfDirty
      <3>3. \A i, j \in 1..Len(Tail(queue)) : queue[i + 1] = queue[j + 1] => i = j
        BY <2>1, <3>1 DEF IInv, QueueOfDirty
      <3> QED BY <2>1, <2>3, <3>2, <3>3 DEF QueueOfDirty
    <2>6. NoLostKey'
      <3> SUFFICES ASSUME NEW k \in dirty', k \notin processing'
                   PROVE  \E i \in 1..Len(queue') : queue'[i] = k
        BY DEF NoLostKey
      <3>1. PICK i \in 1..Len(queue) : queue[i] = k
        BY <2>3 DEF IInv, NoLostKey
      <3>2. i # 1
        BY <2>1, <2>3, <3>1
      <3>3. i - 1 \in 1..Len(Tail(queue)) /\ Tail(queue)[i - 1] = k
        BY <2>1, <3>1, <3>2
      <3> QED BY <2>3, <3>3
    <2>7. \A v \in Workers : held[v] # h
      BY <2>1, <2>2 DEF IInv, ProcessingIsHeld
    <2>8. held[w] = NoKey
      BY <2>3 DEF IInv, ProcessingIsHeld
    <2>9. ProcessingIsHeld'
      BY <2>1, <2>3, <2>8 DEF IInv, ProcessingIsHeld, TypeOK
    <2>10. MutualExclusion'
      BY <2>3, <2>7 DEF IInv, MutualExclusion, TypeOK
    <2>11. ExitAfterShutDown' /\ ExitedMeansDrained'
      BY <2>3 DEF IInv, ExitAfterShutDown, ExitedMeansDrained, TypeOK
    <2> QED BY <2>4, <2>5, <2>6, <2>9, <2>10, <2>11 DEF IInv
  <1>4. ASSUME NEW w \in Workers, Quit(w)
        PROVE  IInv'
    <2>1. TypeOK' /\ QueueOfDirty' /\ NoLostKey' /\ MutualExclusion'
      BY <1>4 DEF IInv, Quit, TypeOK, QueueOfDirty, NoLostKey, MutualExclusion, Locations
    <2>2. ProcessingIsHeld' /\ ExitAfterShutDown'
      BY <1>4 DEF IInv, Quit, ProcessingIsHeld, ExitAfterShutDown, TypeOK
    <2>3. ExitedMeansDrained'
      <3> SUFFICES ASSUME \A v \in Workers : pc'[v] = "exit"
                   PROVE  dirty' = {} /\ queue' = << >>
        BY DEF ExitedMeansDrained
      <3>1. queue = << >> /\ UNCHANGED <<queue, dirty, processing, held>>
        BY <1>4 DEF Quit
      <3>2. processing' = {}
        BY <2>2 DEF ProcessingIsHeld
      <3> QED BY <3>1, <3>2 DEF IInv, NoLostKey
    <2> QED BY <2>1, <2>2, <2>3 DEF IInv
  <1>5. ASSUME NEW w \in Workers, Succeed(w) \/ Retry(w) \/ Drop(w)
        PROVE  IInv'
    <2>1. /\ pc[w] = "reconcile" /\ pc' = [pc EXCEPT ![w] = "done"]
          /\ UNCHANGED <<queue, dirty, processing, shuttingDown, held>>
      BY <1>5 DEF Succeed, Retry, Drop
    <2>2. held[w] \in Keys
      BY <2>1 DEF IInv, TypeOK, ProcessingIsHeld
    <2>3. failures' \in [Keys -> 0..MaxRetries] /\ waiting' \in SUBSET Keys
      BY <1>5, <2>2 DEF IInv, TypeOK, Succeed, Retry, Drop
    <2>4. TypeOK'
      BY <2>1, <2>3 DEF IInv, TypeOK, Locations
    <2>5. QueueOfDirty' /\ NoLostKey' /\ MutualExclusion'
      BY <2>1 DEF IInv, QueueOfDirty, NoLostKey, MutualExclusion
    <2>6. ProcessingIsHeld' /\ ExitAfterShutDown' /\ ExitedMeansDrained'
      BY <2>1 DEF IInv, ProcessingIsHeld, ExitAfterShutDown, ExitedMeansDrained, TypeOK
    <2> QED BY <2>4, <2>5, <2>6 DEF IInv
  <1>6. ASSUME NEW w \in Workers, Done(w)
        PROVE  IInv'
    <2> DEFINE h == held[w]
    <2>1. h \in Keys /\ h \in processing
      BY <1>6 DEF Done, IInv, TypeOK, ProcessingIsHeld
    <2> HIDE DEF h
    <2>2. /\ pc[w] = "done" /\ processing' = processing \ {h}
          /\ queue' = IF h \in dirty THEN Append(queue, h) ELSE queue
          /\ held' = [held EXCEPT ![w] = NoKey] /\ pc' = [pc EXCEPT ![w] = "get"]
          /\ UNCHANGED <<dirty, waiting, failures, shuttingDown>>
      BY <1>6 DEF Done, h
    <2>3. queue \in Seq(Keys) /\ \A i \in 1..Len(queue) : queue[i] \in (dirty \ processing) \ {h}
      BY <2>1 DEF IInv, TypeOK, QueueOfDirty
    <2>4. TypeOK'
      BY <2>1, <2>2, <2>3, AppendFacts DEF IInv, TypeOK, Locations
    <2>5. QueueOfDirty' /\ NoLostKey'
      <3>1. CASE h \in dirty
        <4>1. /\ \A i \in 1..Len(queue') : queue'[i] \in (dirty \ processing) \cup {h}
              /\ \A i, j \in 1..Len(queue') : queue'[i] = queue'[j] => i = j
              /\ \E i \in 1..Len(queue') : queue'[i] = h
              /\ \A x \in Keys : (\E i \in 1..Len(queue) : queue[i] = x)
                                    => \E i \in 1..Len(queue') : queue'[i] = x
          BY <2>1, <2>2, <2>3, <3>1, AppendFresh DEF IInv, QueueOfDirty
        <4> QED BY <2>2, <3>1, <4>1 DEF IInv, TypeOK, QueueOfDirty, NoLostKey
      <3>2. CASE h \notin dirty
        BY <2>2, <3>2 DEF IInv, QueueOfDirty, NoLostKey
      <3> QED BY <3>1, <3>2
    <2>6. \A v \in Workers : held[v] = h => v = w
      BY <2>1 DEF IInv, MutualExclusion, h
    <2>7. held[w] = h
      BY DEF h
    <2>8. ProcessingIsHeld'
      <3>1. \A v \in Workers : pc'[v] \in {"reconcile", "done"} <=> held'[v] # NoKey
        BY <2>2 DEF IInv, ProcessingIsHeld, TypeOK
      <3>2. processing' = {held'[v] : v \in Workers} \ {NoKey}
        BY <2>1, <2>2, <2>6, <2>7 DEF IInv, ProcessingIsHeld, TypeOK
      <3> QED BY <3>1, <3>2 DEF ProcessingIsHeld
    <2>9. MutualExclusion'
      BY <2>2 DEF IInv, MutualExclusion, TypeOK
    <2>10. ExitAfterShutDown' /\ ExitedMeansDrained'
      BY <2>2 DEF IInv, ExitAfterShutDown, ExitedMeansDrained, TypeOK
    <2> QED BY <2>4, <2>5, <2>8, <2>9, <2>10 DEF IInv
  <1>7. ASSUME ShutDown
        PROVE  IInv'
    BY <1>7 DEF IInv, ShutDown, TypeOK, QueueOfDirty, NoLostKey, ProcessingIsHeld,
                MutualExclusion, ExitAfterShutDown, ExitedMeansDrained
  <1>8. ASSUME UNCHANGED vars
        PROVE  IInv'
    BY <1>8 DEF IInv, vars, TypeOK, QueueOfDirty, NoLostKey, ProcessingIsHeld,
                MutualExclusion, ExitAfterShutDown, ExitedMeansDrained
  <1> QED BY <1>1, <1>2, <1>3, <1>4, <1>5, <1>6, <1>7, <1>8 DEF Next, WorkerStep

(* The inductive invariant holds in every reachable state.                   *)
LEMMA Invariance == Spec => []IInv
  <1>1. ASSUME Init
        PROVE  IInv
    <2>1. TypeOK
      <3>1. queue \in Seq(Keys)
        BY <1>1 DEF Init
      <3>2. failures \in [Keys -> 0..MaxRetries]
        BY <1>1, WorkQueueAssumption DEF WorkQueueAssumption, Init
      <3>3. shuttingDown \in BOOLEAN
        BY <1>1 DEF Init
      <3>4. /\ dirty \in SUBSET Keys /\ processing \in SUBSET Keys /\ waiting \in SUBSET Keys
            /\ held \in [Workers -> Keys \cup {NoKey}]
        BY <1>1 DEF Init
      <3>5. pc \in [Workers -> Locations]
        BY <1>1 DEF Init, Locations
      <3> QED BY <3>1, <3>2, <3>3, <3>4, <3>5 DEF TypeOK
    <2>2. QueueOfDirty /\ NoLostKey
      BY <1>1 DEF Init, QueueOfDirty, NoLostKey
    <2>3. ProcessingIsHeld /\ MutualExclusion
      BY <1>1 DEF Init, ProcessingIsHeld, MutualExclusion
    <2>4. ExitAfterShutDown /\ ExitedMeansDrained
      BY <1>1 DEF Init, ExitAfterShutDown, ExitedMeansDrained
    <2> QED BY <2>1, <2>2, <2>3, <2>4 DEF IInv
  <1> QED BY <1>1, Inductive, PTL DEF Spec

-----------------------------------------------------------------------------
(* The fields keep their types, in particular no key fails more often than   *)
(* MaxRetries without being dropped (worker.go:92-108).                      *)
THEOREM TypeCorrect == Spec => []TypeOK
  BY Invariance, PTL DEF IInv

(* No key is with two workers at a time (worker.go:79-80).                   *)
THEOREM KeysAreExclusive == Spec => []MutualExclusion
  BY Invariance, PTL DEF IInv

(* No event is lost: a dirty key is in the queue, or is put there when its   *)
(* worker is done with it (queue.go:108-128, 165-177).                       *)
THEOREM NothingIsLost == Spec => []NoLostKey
  BY Invariance, PTL DEF IInv

(* Nothing is queued twice, nor while a worker has it: the contract between  *)
(* queue, dirty and processing (queue.go:66-88).                             *)
THEOREM QueueIsOfDirty == Spec => []QueueOfDirty
  BY Invariance, PTL DEF IInv

(* What the queue believes to be in processing is exactly what the workers   *)
(* hold, whatever order Get, Done and ShutDown come in (queue.go:141-177).   *)
THEOREM ProcessingIsExact == Spec => []ProcessingIsHeld
  BY Invariance, PTL DEF IInv

(* When the last worker has left, every accepted key was processed           *)
(* (queue.go:178-180).                                                       *)
THEOREM ShutDownDrains == Spec => []ExitedMeansDrained
  BY Invariance, PTL DEF IInv

(* The queue implements KeyQueue: Add marks a key, Get takes one that is     *)
(* marked and not with a worker, Done releases it, and no other step is seen.*)
THEOREM ImplementsKeyQueue == Spec => KeyQueueSpec
  <1> USE DEF KQ!vars
  <1>1. Init => KQ!Init
    BY DEF Init, KQ!Init
  <1>2. ASSUME IInv, [Next]_vars
        PROVE  [KQ!Next]_(KQ!vars)
    <2>1. ASSUME NEW k \in Keys, Enqueue(k) \/ WaitingLoop(k)
          PROVE  KQ!Mark(k) \/ UNCHANGED KQ!vars
      BY <2>1 DEF Enqueue, WaitingLoop, Add, queueVars, KQ!Mark
    <2>2. ASSUME NEW w \in Workers, Get(w)
          PROVE  \E k \in Keys : KQ!Take(k)
      <3>1. Head(queue) = queue[1] /\ Head(queue) \in Keys /\ Len(queue) \in Nat /\ Len(queue) >= 1
        BY <1>2, <2>2, TailFacts DEF Get, IInv, TypeOK
      <3>2. Head(queue) \in dirty \ processing
        BY <1>2, <3>1 DEF IInv, QueueOfDirty
      <3>3. KQ!Take(Head(queue))
        BY <2>2, <3>2 DEF Get, KQ!Take
      <3> QED BY <3>1, <3>3
    <2>3. ASSUME NEW w \in Workers, Done(w)
          PROVE  \E k \in Keys : KQ!Release(k)
      <3>1. held[w] \in Keys /\ held[w] \in processing
        BY <1>2, <2>3 DEF Done, IInv, TypeOK, ProcessingIsHeld
      <3>2. KQ!Release(held[w])
        BY <2>3, <3>1 DEF Done, KQ!Release
      <3> QED BY <3>1, <3>2
    <2>4. ASSUME NEW w \in Workers, Quit(w) \/ Succeed(w) \/ Retry(w) \/ Drop(w)
          PROVE  UNCHANGED KQ!vars
      BY <2>4 DEF Quit, Succeed, Retry, Drop
    <2>5. CASE ShutDown \/ UNCHANGED vars
      BY <2>5 DEF ShutDown, vars
    <2> QED BY <1>2, <2>1, <2>2, <2>3, <2>4, <2>5 DEF Next, WorkerStep, KQ!Next
  <1> QED BY <1>1, <1>2, Invariance, PTL DEF Spec, KeyQueueSpec, KQ!Spec

=============================================================================
