------------------------------ MODULE WorkerPool ------------------------------
(***************************************************************************)
(* The worker pool of the proof server (proof-server/src/worker_pool.rs):  *)
(* clients submit jobs and wait for their result, workers take them from a *)
(* channel, a collector removes jobs that timed out.                       *)
(*                                                                         *)
(* A step is what happens between taking the lock of the request map (or   *)
(* using a channel) and giving it up.                                      *)
(*   status     the request map: the status of every job, or "Absent",     *)
(*   updates    the status updates that wait in the channel of a job; its  *)
(*              receivers are clones of one another and share them,        *)
(*   expired    the jobs whose timeout has passed,                         *)
(*   items      the channel of work items,                                 *)
(*   open       the sender of that channel is not dropped,                 *)
(*   collector  the task that collects jobs runs,                          *)
(*   worker     where a worker is, and the job it is at,                   *)
(*   client     where the request that submits the job is,                 *)
(*   watcher    further receivers from subscribe, and what they wait for,  *)
(*   cancel     where the one cancel of a job is.                          *)
(* Results are left out, and so are poll and the counters of /ready, which *)
(* only read.                                                              *)
(***************************************************************************)
EXTENDS Naturals, Sequences, FiniteSets, Functions

CONSTANTS Job,        \* jobs, one per submission
          NoJob,      \* a worker or watcher has no job yet
          Worker,     \* worker tasks
          Watcher,    \* callers of subscribe other than the submitter
          Capacity    \* job_capacity, 0: no limit

ASSUME PoolAssumption ==
  /\ NoJob \notin Job
  /\ IsFiniteSet(Job) /\ Capacity \in Nat

VARIABLES status, updates, expired, items, open, collector, worker, client, watcher, cancel

vars == <<status, updates, expired, items, open, collector, worker, client, watcher, cancel>>

(* Error stands for every WorkError, the panic of the work included.       *)
Final == {"Cancelled", "Error", "Success"}

JobStatus == {"Pending", "Processing"} \cup Final

Init ==
  /\ status = [j \in Job |-> "Absent"]
  /\ updates = [j \in Job |-> <<>>]
  /\ expired = {}
  /\ items = <<>> /\ open = TRUE /\ collector = TRUE
  /\ worker = [w \in Worker |-> [pc |-> "recv", job |-> NoJob]]
  /\ client = [j \in Job |-> "idle"]
  /\ watcher = [x \in Watcher |-> [pc |-> "idle", job |-> NoJob]]
  /\ cancel = [j \in Job |-> "idle"]

Present(j) == status[j] # "Absent"

PendingCount == Cardinality({j \in Job : status[j] = "Pending"})

IsFull == Capacity # 0 /\ PendingCount >= Capacity

(* Mutant of SetStatus: the subscribers are not told.                      *)
SetStatusSilently(j, s) ==
  /\ status' = IF Present(j) THEN [status EXCEPT ![j] = s] ELSE status
  /\ UNCHANGED updates

(* A job that was collected has no status to set and nobody to tell.       *)
SetStatus(j, s) ==
  /\ status' = IF Present(j) THEN [status EXCEPT ![j] = s] ELSE status
  /\ updates' = IF Present(j) THEN [updates EXCEPT ![j] = Append(@, s)] ELSE updates

-----------------------------------------------------------------------------
(* submit_and_subscribe.  The map is unlocked between the capacity check   *)
(* and the insertion.                                                      *)
CheckCapacity(j) ==
  /\ client[j] = "idle" /\ open
  /\ client' = [client EXCEPT ![j] = IF IsFull THEN "refused" ELSE "admitted"]
  /\ UNCHANGED <<status, updates, expired, items, open, collector, worker, watcher, cancel>>

Insert(j) ==
  /\ client[j] = "admitted"
  /\ status' = [status EXCEPT ![j] = "Pending"]
  /\ client' = [client EXCEPT ![j] = "inserted"]
  /\ UNCHANGED <<updates, expired, items, open, collector, worker, watcher, cancel>>

Send(j) ==
  /\ client[j] = "inserted"
  /\ items' = Append(items, j)
  /\ client' = [client EXCEPT ![j] = "sent"]
  /\ UNCHANGED <<status, updates, expired, open, collector, worker, watcher, cancel>>

(* The unwrap of submit_and_subscribe: a job that is gone or timed out is  *)
(* a panic.                                                                *)
Subscribe(j) ==
  /\ client[j] = "sent"
  /\ client' = [client EXCEPT ![j] =
                  IF Present(j) /\ j \notin expired THEN "waiting" ELSE "panicked"]
  /\ UNCHANGED <<status, updates, expired, items, open, collector, worker, watcher, cancel>>

(* Another subscriber; for an unknown or timed out job it gets an error.   *)
Watch(x, j) ==
  /\ watcher[x].pc = "idle" /\ open
  /\ Present(j) /\ j \notin expired
  /\ watcher' = [watcher EXCEPT ![x] = [pc |-> "waiting", job |-> j]]
  /\ UNCHANGED <<status, updates, expired, items, open, collector, worker, client, cancel>>

(* The map goes with the last clone of Requests, after a shutdown; the     *)
(* channel of a job goes with its last sender, of which the worker and the *)
(* cancel that looked the job up hold clones.                              *)
PoolDropped == ~ open /\ ~ collector /\ \A w \in Worker : worker[w].pc = "exited"

Held(j) == \E w \in Worker : worker[w].pc \in {"start", "run"} /\ worker[w].job = j

Closed(j) == (~ Present(j) \/ PoolDropped) /\ ~ Held(j) /\ cancel[j] # "found"

(* wait_for_success takes an update from the channel; it ends with a final *)
(* status, or as lost when the channel is empty and closed.                *)
CanReceive(j) == updates[j] # <<>> \/ Closed(j)

(* Mutant of AfterReceive: any status ends the wait.                       *)
AfterReceiveAny(j) == IF updates[j] = <<>> THEN "lost" ELSE Head(updates[j])

AfterReceive(j) ==
  IF updates[j] = <<>> THEN "lost"
  ELSE IF Head(updates[j]) \in Final THEN Head(updates[j]) ELSE "waiting"

Receive(j) ==
  updates' = IF updates[j] = <<>> THEN updates ELSE [updates EXCEPT ![j] = Tail(@)]

ClientReceive(j) ==
  /\ client[j] = "waiting" /\ CanReceive(j)
  /\ client' = [client EXCEPT ![j] = AfterReceive(j)]
  /\ Receive(j)
  /\ UNCHANGED <<status, expired, items, open, collector, worker, watcher, cancel>>

WatcherReceive(x) ==
  LET j == watcher[x].job
  IN  /\ watcher[x].pc = "waiting" /\ CanReceive(j)
      /\ watcher' = [watcher EXCEPT ![x].pc = AfterReceive(j)]
      /\ Receive(j)
      /\ UNCHANGED <<status, expired, items, open, collector, worker, client, cancel>>

(* cancel.  The map is unlocked between the look at the status and the     *)
(* change; a job that is not pending gives an error and changes nothing.   *)
CancelFind(j) ==
  /\ cancel[j] = "idle" /\ open
  /\ status[j] = "Pending"
  /\ cancel' = [cancel EXCEPT ![j] = "found"]
  /\ UNCHANGED <<status, updates, expired, items, open, collector, worker, client, watcher>>

CancelSet(j) ==
  /\ cancel[j] = "found"
  /\ SetStatus(j, "Cancelled")
  /\ cancel' = [cancel EXCEPT ![j] = "ok"]
  /\ UNCHANGED <<expired, items, open, collector, worker, client, watcher>>

-----------------------------------------------------------------------------
(* The loop of a worker.                                                   *)
WorkerReceive(w) ==
  /\ worker[w].pc = "recv" /\ items # <<>>
  /\ worker' = [worker EXCEPT ![w] = [pc |-> "get", job |-> Head(items)]]
  /\ items' = Tail(items)
  /\ UNCHANGED <<status, updates, expired, open, collector, client, watcher, cancel>>

(* Mutants of WorkerGet: work that is to be ignored ends the loop; work    *)
(* that timed out is ignored as well.                                      *)
WorkerGetBreaks(w) ==
  /\ worker[w].pc = "get"
  /\ worker' = [worker EXCEPT ![w].pc =
                  IF status[worker[w].job] \in {"Absent", "Cancelled"} THEN "exited" ELSE "start"]
  /\ UNCHANGED <<status, updates, expired, items, open, collector, client, watcher, cancel>>

WorkerGetSkipsExpired(w) ==
  /\ worker[w].pc = "get"
  /\ worker' = [worker EXCEPT ![w].pc =
                  IF \/ status[worker[w].job] \in {"Absent", "Cancelled"}
                     \/ worker[w].job \in expired THEN "recv" ELSE "start"]
  /\ UNCHANGED <<status, updates, expired, items, open, collector, client, watcher, cancel>>

WorkerGet(w) ==
  /\ worker[w].pc = "get"
  /\ worker' = [worker EXCEPT ![w].pc =
                  IF status[worker[w].job] \in {"Absent", "Cancelled"} THEN "recv" ELSE "start"]
  /\ UNCHANGED <<status, updates, expired, items, open, collector, client, watcher, cancel>>

WorkerStart(w) ==
  /\ worker[w].pc = "start"
  /\ SetStatus(worker[w].job, "Processing")
  /\ worker' = [worker EXCEPT ![w].pc = "run"]
  /\ UNCHANGED <<expired, items, open, collector, client, watcher, cancel>>

WorkerFinish(w, result) ==
  /\ worker[w].pc = "run"
  /\ SetStatus(worker[w].job, result)
  /\ worker' = [worker EXCEPT ![w].pc = "recv"]
  /\ UNCHANGED <<expired, items, open, collector, client, watcher, cancel>>

(* The loop ends when the channel is empty and its sender dropped.         *)
WorkerExit(w) ==
  /\ worker[w].pc = "recv" /\ items = <<>> /\ ~ open
  /\ worker' = [worker EXCEPT ![w].pc = "exited"]
  /\ UNCHANGED <<status, updates, expired, items, open, collector, client, watcher, cancel>>

(* Time passes the timeout of a job.                                       *)
Expire(j) ==
  /\ Present(j) /\ j \notin expired
  /\ expired' = expired \cup {j}
  /\ UNCHANGED <<status, updates, items, open, collector, worker, client, watcher, cancel>>

(* Mutant of Collect: jobs are removed before their timeout.               *)
CollectEarly ==
  /\ collector /\ \E j \in Job : Present(j)
  /\ status' = [j \in Job |-> "Absent"]
  /\ UNCHANGED <<updates, expired, items, open, collector, worker, client, watcher, cancel>>

(* gc removes the jobs that timed out, whatever their status.              *)
Collect ==
  /\ collector /\ \E j \in expired : Present(j)
  /\ status' = [j \in Job |-> IF j \in expired THEN "Absent" ELSE status[j]]
  /\ UNCHANGED <<updates, expired, items, open, collector, worker, client, watcher, cancel>>

(* Mutant of CollectorStop: it goes on while there are jobs.               *)
CollectorStopsWhenDone ==
  /\ collector /\ ~ open /\ \A j \in Job : ~ Present(j)
  /\ collector' = FALSE
  /\ UNCHANGED <<status, updates, expired, items, open, worker, client, watcher, cancel>>

(* The collector ends when its own channel is closed.                      *)
CollectorStop ==
  /\ collector /\ ~ open
  /\ collector' = FALSE
  /\ UNCHANGED <<status, updates, expired, items, open, worker, client, watcher, cancel>>

(* shutdown takes the pool: no other call is under way or comes later.     *)
Shutdown ==
  /\ open
  /\ \A j \in Job : client[j] \notin {"admitted", "inserted", "sent"} /\ cancel[j] # "found"
  /\ open' = FALSE
  /\ UNCHANGED <<status, updates, expired, items, collector, worker, client, watcher, cancel>>

-----------------------------------------------------------------------------
ClientStep(j) ==
  CheckCapacity(j) \/ Insert(j) \/ Send(j) \/ Subscribe(j) \/ ClientReceive(j)

WorkerStep(w) ==
  \/ WorkerReceive(w) \/ WorkerGet(w) \/ WorkerStart(w) \/ WorkerExit(w)
  \/ \E result \in {"Success", "Error"} : WorkerFinish(w, result)

Next ==
  \/ \E j \in Job : ClientStep(j) \/ CancelFind(j) \/ CancelSet(j) \/ Expire(j)
  \/ \E x \in Watcher : WatcherReceive(x) \/ \E j \in Job : Watch(x, j)
  \/ \E w \in Worker : WorkerStep(w)
  \/ Collect \/ CollectorStop \/ Shutdown

(* Tasks that can go on are scheduled, and the work of a job ends.  No     *)
(* caller has to submit, cancel or shut down, and time need not pass.      *)
Fairness ==
  /\ \A j \in Job : WF_vars(Insert(j) \/ Send(j) \/ Subscribe(j) \/ ClientReceive(j))
  /\ \A j \in Job : WF_vars(CancelSet(j))
  /\ \A x \in Watcher : WF_vars(WatcherReceive(x))
  /\ \A w \in Worker : WF_vars(WorkerStep(w))
  /\ WF_vars(CollectorStop)

Spec == Init /\ [][Next]_vars

FairSpec == Spec /\ Fairness

-----------------------------------------------------------------------------
Waiting == {"waiting", "lost"} \cup Final

(* The type invariant.                                                     *)
TypeOK ==
  /\ status \in [Job -> JobStatus \cup {"Absent"}]
  /\ updates \in [Job -> Seq(JobStatus)]
  /\ expired \subseteq Job
  /\ items \in Seq(Job)
  /\ open \in BOOLEAN /\ collector \in BOOLEAN
  /\ worker \in [Worker -> [pc : {"recv", "get", "start", "run", "exited"},
                           job : Job \cup {NoJob}]]
  /\ client \in [Job -> {"idle", "refused", "admitted", "inserted", "sent", "panicked"}
                          \cup Waiting]
  /\ watcher \in [Watcher -> [pc : {"idle"} \cup Waiting, job : Job \cup {NoJob}]]
  /\ cancel \in [Job -> {"idle", "found", "ok"}]

At(w, j, pcs) == worker[w].job = j /\ worker[w].pc \in pcs

(* No job is stranded in the request map, where it would count against the *)
(* capacity or as processing until it times out: a pending job is about to *)
(* be sent, is in the channel or was taken by a worker that will start it, *)
(* and a worker is running every job that is said to be processing.        *)
NoJobStranded ==
  \A j \in Job :
    /\ status[j] = "Pending" =>
         \/ client[j] = "inserted"
         \/ j \in Range(items)
         \/ \E w \in Worker : At(w, j, {"get", "start"})
    /\ status[j] = "Processing" => \E w \in Worker : At(w, j, {"run"})

(* wait_for_success cannot miss the end of a job: while the client waits   *)
(* for a job that has ended, the channel of the job holds a final status.  *)
FinalStatusInFlight ==
  \A j \in Job :
    client[j] = "waiting" /\ status[j] \in Final =>
      \E k \in DOMAIN updates[j] : updates[j][k] \in Final

(* Only a timeout makes a client lose its job ("failed to complete job"):  *)
(* the channel of a job closes neither early nor at a shutdown.            *)
LostOnlyIfExpired == \A j \in Job : client[j] = "lost" => j \in expired

(* Every wait_for_success ends, although jobs are cancelled and collected  *)
(* at any moment and the pool may be shut down meanwhile.                  *)
EveryWaitEnds == \A j \in Job : client[j] = "waiting" ~> client[j] # "waiting"

(* shutdown returns: the workers finish the jobs that are queued, and      *)
(* neither they nor the collector keep it waiting.                         *)
ShutdownCompletes == ~ open ~> PoolDropped

(* What subscribe says of its receiver ("Returns a receiver that will      *)
(* receive all status updates for the job"), for the update that ends the  *)
(* job: whoever still waits for it will receive it.                        *)
SubscribersSeeTheEnd ==
  \A x \in Watcher :
    watcher[x].pc = "waiting" /\ status[watcher[x].job] \in Final =>
      \E k \in DOMAIN updates[watcher[x].job] : updates[watcher[x].job][k] \in Final

(* What cancel says of its result ("Returns the job if it was found and    *)
(* canceled"): after it returned Ok the job is cancelled and no worker     *)
(* runs it.                                                                *)
CancelledIsNotRun ==
  \A j \in Job : cancel[j] = "ok" =>
    /\ Present(j) => status[j] = "Cancelled"
    /\ \A w \in Worker : ~ At(w, j, {"run"})

(* What the capacity of the pool says ("capacity is 5 pending").           *)
CapacityRespected == Capacity # 0 => PendingCount <= Capacity
=============================================================================
