----------------------------- MODULE WorkQueue ------------------------------
(***************************************************************************)
(* The rate limited work queue between the informer and the reconcile       *)
(* function: client-go's workqueue (queue, dirty and processing), its       *)
(* delaying and rate limiting layers, and the loop of the worker goroutines *)
(* (kmodules.xyz/client-go/tools/queue/worker.go).  What reconcile does is  *)
(* left open: it returns nil or an error.                                   *)
(***************************************************************************)
EXTENDS Naturals, Sequences, FiniteSets

CONSTANTS Keys,         \* namespace/name of the watched objects
          Workers,      \* the NumThreads goroutines started by Worker.Run
          MaxRetries,   \* MaxNumRequeues
          NoKey         \* "this worker holds no key"

ASSUME WorkQueueAssumption ==
    /\ MaxRetries \in Nat
    /\ NoKey \notin Keys

VARIABLES queue,        \* the order in which keys are handed out
          dirty,        \* keys that need processing
          processing,   \* keys that a worker has
          waiting,      \* keys of the delaying queue whose back-off runs
          failures,     \* failures[k]: NumRequeues of the rate limiter
          shuttingDown, \* ShutDown was called
          held,         \* held[w]: the key worker w took from Get
          pc            \* pc[w]: where worker w is in processNextEntry

vars == <<queue, dirty, processing, waiting, failures, shuttingDown, held, pc>>

queueVars == <<queue, dirty, processing>>

Locations == {"get", "reconcile", "done", "exit"}

TypeOK ==
    /\ queue \in Seq(Keys)
    /\ dirty \in SUBSET Keys
    /\ processing \in SUBSET Keys
    /\ waiting \in SUBSET Keys
    /\ failures \in [Keys -> 0..MaxRetries]
    /\ shuttingDown \in BOOLEAN
    /\ held \in [Workers -> Keys \cup {NoKey}]
    /\ pc \in [Workers -> Locations]

Init ==
    /\ queue = << >>
    /\ dirty = {}
    /\ processing = {}
    /\ waiting = {}
    /\ failures = [k \in Keys |-> 0]
    /\ shuttingDown = FALSE
    /\ held = [w \in Workers |-> NoKey]
    /\ pc = [w \in Workers |-> "get"]

-----------------------------------------------------------------------------
(* Definitions named ...Bug are plausible mistakes in the definition that      *)
(* follows; each is used to show that a property can fail.                  *)

\* Add forgets that a worker has the key.
AddBug(k) ==
    IF shuttingDown \/ k \in dirty
    THEN UNCHANGED queueVars
    ELSE /\ dirty' = dirty \cup {k}
         /\ queue' = Append(queue, k)
         /\ UNCHANGED processing

(* Type.Add: nothing if the queue is shutting down or the key is already    *)
(* dirty; a key that a worker has is only remembered, Done queues it.       *)
Add(k) ==
    IF shuttingDown \/ k \in dirty
    THEN UNCHANGED queueVars
    ELSE /\ dirty' = dirty \cup {k}
         /\ queue' = IF k \in processing THEN queue ELSE Append(queue, k)
         /\ UNCHANGED processing

\* QueueingEventHandler.Enqueue: an informer event adds the key.
Enqueue(k) ==
    /\ Add(k)
    /\ UNCHANGED <<waiting, failures, shuttingDown, held, pc>>

\* The timer fires and the key is not added.
WaitingLoopBug(k) ==
    /\ ~shuttingDown
    /\ k \in waiting
    /\ waiting' = waiting \ {k}
    /\ UNCHANGED <<queueVars, failures, shuttingDown, held, pc>>

\* delayingType.waitingLoop: the back-off of k is over; ShutDown ends the loop.
WaitingLoop(k) ==
    /\ ~shuttingDown
    /\ k \in waiting
    /\ waiting' = waiting \ {k}
    /\ Add(k)
    /\ UNCHANGED <<failures, shuttingDown, held, pc>>

\* Get does not record the key as being processed.
GetBug(w) ==
    /\ pc[w] = "get"
    /\ queue # << >>
    /\ queue' = Tail(queue)
    /\ dirty' = dirty \ {Head(queue)}
    /\ held' = [held EXCEPT ![w] = Head(queue)]
    /\ pc' = [pc EXCEPT ![w] = "reconcile"]
    /\ UNCHANGED <<processing, waiting, failures, shuttingDown>>

\* Type.Get with an item: the head of the queue becomes w's.
Get(w) ==
    /\ pc[w] = "get"
    /\ queue # << >>
    /\ queue' = Tail(queue)
    /\ processing' = processing \cup {Head(queue)}
    /\ dirty' = dirty \ {Head(queue)}
    /\ held' = [held EXCEPT ![w] = Head(queue)]
    /\ pc' = [pc EXCEPT ![w] = "reconcile"]
    /\ UNCHANGED <<waiting, failures, shuttingDown>>

\* The goroutine ends as soon as the queue shuts down.
QuitBug(w) ==
    /\ pc[w] = "get"
    /\ shuttingDown
    /\ pc' = [pc EXCEPT ![w] = "exit"]
    /\ UNCHANGED <<queue, dirty, processing, waiting, failures, shuttingDown, held>>

\* Type.Get with quit: an empty queue that is shutting down ends the goroutine.
Quit(w) ==
    /\ pc[w] = "get"
    /\ queue = << >>
    /\ shuttingDown
    /\ pc' = [pc EXCEPT ![w] = "exit"]
    /\ UNCHANGED <<queue, dirty, processing, waiting, failures, shuttingDown, held>>

\* processNextEntry after reconcile returned nil: Forget.
Succeed(w) ==
    /\ pc[w] = "reconcile"
    /\ failures' = [failures EXCEPT ![held[w]] = 0]
    /\ pc' = [pc EXCEPT ![w] = "done"]
    /\ UNCHANGED <<queue, dirty, processing, waiting, shuttingDown, held>>

\* One retry too many.
RetryBug(w) ==
    /\ pc[w] = "reconcile"
    /\ failures[held[w]] <= MaxRetries
    /\ failures' = [failures EXCEPT ![held[w]] = @ + 1]
    /\ waiting' = IF shuttingDown THEN waiting ELSE waiting \cup {held[w]}
    /\ pc' = [pc EXCEPT ![w] = "done"]
    /\ UNCHANGED <<queue, dirty, processing, shuttingDown, held>>

\* processNextEntry after an error, NumRequeues < maxRetries: AddRateLimited.
\* The limiter counts the failure even when AddAfter then drops the key
\* because the queue is shutting down.
Retry(w) ==
    /\ pc[w] = "reconcile"
    /\ failures[held[w]] < MaxRetries
    /\ failures' = [failures EXCEPT ![held[w]] = @ + 1]
    /\ waiting' = IF shuttingDown THEN waiting ELSE waiting \cup {held[w]}
    /\ pc' = [pc EXCEPT ![w] = "done"]
    /\ UNCHANGED <<queue, dirty, processing, shuttingDown, held>>

\* processNextEntry after an error with the retries used up: Forget, drop.
Drop(w) ==
    /\ pc[w] = "reconcile"
    /\ failures[held[w]] >= MaxRetries
    /\ failures' = [failures EXCEPT ![held[w]] = 0]
    /\ pc' = [pc EXCEPT ![w] = "done"]
    /\ UNCHANGED <<queue, dirty, processing, waiting, shuttingDown, held>>

\* Done does not look at the dirty set: it loses an event, or queues a key that
\* nobody asked for.
DoneBugLost(w) ==
    /\ pc[w] = "done"
    /\ processing' = processing \ {held[w]}
    /\ held' = [held EXCEPT ![w] = NoKey]
    /\ pc' = [pc EXCEPT ![w] = "get"]
    /\ UNCHANGED <<queue, dirty, waiting, failures, shuttingDown>>

DoneBugAlways(w) ==
    /\ pc[w] = "done"
    /\ processing' = processing \ {held[w]}
    /\ queue' = Append(queue, held[w])
    /\ held' = [held EXCEPT ![w] = NoKey]
    /\ pc' = [pc EXCEPT ![w] = "get"]
    /\ UNCHANGED <<dirty, waiting, failures, shuttingDown>>

\* The deferred Type.Done: a key made dirty meanwhile goes back to the queue.
Done(w) ==
    /\ pc[w] = "done"
    /\ processing' = processing \ {held[w]}
    /\ queue' = IF held[w] \in dirty THEN Append(queue, held[w]) ELSE queue
    /\ held' = [held EXCEPT ![w] = NoKey]
    /\ pc' = [pc EXCEPT ![w] = "get"]
    /\ UNCHANGED <<dirty, waiting, failures, shuttingDown>>

\* Worker.Run's goroutine on the stop channel.
ShutDown ==
    /\ ~shuttingDown
    /\ shuttingDown' = TRUE
    /\ UNCHANGED <<queue, dirty, processing, waiting, failures, held, pc>>

WorkerStep(w) == Get(w) \/ Quit(w) \/ Succeed(w) \/ Retry(w) \/ Drop(w) \/ Done(w)

Next ==
    \/ \E k \in Keys : Enqueue(k) \/ WaitingLoop(k)
    \/ \E w \in Workers : WorkerStep(w)
    \/ ShutDown

Spec == Init /\ [][Next]_vars

(***************************************************************************)
(* Goroutines are scheduled fairly (reconcile returns: every wait in it has *)
(* a timeout) and timers fire.  Nothing forces an event or a shutdown.      *)
(***************************************************************************)
Fairness ==
    /\ \A w \in Workers : WF_vars(WorkerStep(w))
    /\ \A k \in Keys : WF_vars(WaitingLoop(k))

FairSpec == Spec /\ Fairness

-----------------------------------------------------------------------------
(* "two deployments with the same key are never processed in parallel"      *)
(* (worker.go:79-80): no key is with two workers between Get and Done.      *)
MutualExclusion ==
    \A v, w \in Workers :
        held[v] = held[w] /\ held[v] # NoKey => v = w

(* "Every element of queue should be in the dirty set and not in the        *)
(* processing set" (queue.go:66-68), and it is in the queue once: otherwise *)
(* Get would hand one key to two workers.                                   *)
QueueOfDirty ==
    /\ \A i \in 1..Len(queue) : queue[i] \in dirty \ processing
    /\ \A i, j \in 1..Len(queue) : queue[i] = queue[j] => i = j

(* An event is never lost: a key that needs processing is in the queue, or  *)
(* with a worker whose Done will queue it.                                  *)
NoLostKey ==
    \A k \in dirty : k \in processing \/ \E i \in 1..Len(queue) : queue[i] = k

(* The processing set is exactly what the workers hold.                     *)
ProcessingIsHeld ==
    /\ \A w \in Workers : pc[w] \in {"reconcile", "done"} <=> held[w] # NoKey
    /\ processing = {held[w] : w \in Workers} \ {NoKey}

(* "As soon as the worker goroutines have drained the existing items in the *)
(* queue, they will be instructed to exit" (queue.go:178-180): when the     *)
(* last worker has left, no key that was accepted is left behind.           *)
ExitedMeansDrained ==
    (Workers # {} /\ \A w \in Workers : pc[w] = "exit") => dirty = {} /\ queue = << >>

(* Every accepted event is acted upon: a dirty key is taken by a worker     *)
(* after it was marked (shutting down drains the queue too).                *)
EventIsProcessed == \A k \in Keys : k \in dirty ~> k \notin dirty

(* "requeues on an error" (worker.go:71): a key whose reconcile failed and   *)
(* that was not given up is with a worker again, whatever the other keys do, *)
(* unless the queue is shut down first.                                      *)
FailedKeyIsRetried ==
    \A k \in Keys : k \in waiting ~> (shuttingDown \/ \E w \in Workers : held[w] = k)

(* The queue implements the promise its users rely on. *)
KQ == INSTANCE KeyQueue WITH need <- dirty, busy <- processing

KeyQueueSpec == KQ!Spec

=============================================================================
