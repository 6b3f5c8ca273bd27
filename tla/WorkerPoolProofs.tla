--------------------------- MODULE WorkerPoolProofs ---------------------------
(***************************************************************************)
(* Theorems about the worker pool, for any number of jobs, workers and     *)
(* subscribers and any capacity.                                           *)
(***************************************************************************)
EXTENDS WorkerPool, TLAPS

(* Taking the first element off a non-empty sequence, by its elements.     *)
LEMMA TailElements ==
  ASSUME NEW S, NEW s \in Seq(S), s # <<>>
  PROVE  /\ Head(s) \in S /\ Tail(s) \in Seq(S)
         /\ \A k \in DOMAIN s : k = 1 \/ (k - 1 \in DOMAIN Tail(s) /\ Tail(s)[k - 1] = s[k])
         /\ 1 \in DOMAIN s /\ s[1] = Head(s)
  OBVIOUS

(* Appending keeps the elements where they are and adds one at the end.    *)
LEMMA AppendElements ==
  ASSUME NEW S, NEW s \in Seq(S), NEW e \in S
  PROVE  /\ Append(s, e) \in Seq(S)
         /\ \A k \in DOMAIN s : k \in DOMAIN Append(s, e) /\ Append(s, e)[k] = s[k]
         /\ Len(s) + 1 \in DOMAIN Append(s, e) /\ Append(s, e)[Len(s) + 1] = e
  OBVIOUS

(* set_status leaves well-typed maps.                                      *)
LEMMA SetStatusType ==
  ASSUME TypeOK, NEW j \in Job, NEW s \in JobStatus, SetStatus(j, s)
  PROVE  /\ status' \in [Job -> JobStatus \cup {"Absent"}]
         /\ updates' \in [Job -> Seq(JobStatus)]
<1>1. CASE Present(j)
  <2>1. updates[j] \in Seq(JobStatus)
    BY DEF TypeOK
  <2>2. Append(updates[j], s) \in Seq(JobStatus)
    BY <2>1, AppendElements
  <2> QED  BY <1>1, <2>2 DEF TypeOK, SetStatus
<1>2. CASE ~ Present(j)
  BY <1>2 DEF TypeOK, SetStatus
<1> QED  BY <1>1, <1>2

(* A worker that has a job at hand has a job.                              *)
WorkerBusy ==
  \A w \in Worker : worker[w].pc \in {"get", "start", "run"} => worker[w].job \in Job

WatcherBusy ==
  \A x \in Watcher : watcher[x].pc = "waiting" => watcher[x].job \in Job

PoolType == TypeOK /\ WorkerBusy /\ WatcherBusy

LEMMA ReceiveType ==
  ASSUME TypeOK, NEW j \in Job, Receive(j)
  PROVE  updates' \in [Job -> Seq(JobStatus)] /\ AfterReceive(j) \in Waiting
<1>1. updates[j] \in Seq(JobStatus)
  BY DEF TypeOK
<1>2. CASE updates[j] = <<>>
  BY <1>2 DEF TypeOK, Receive, AfterReceive, Waiting
<1>3. CASE updates[j] # <<>>
  <2>1. Tail(updates[j]) \in Seq(JobStatus)
    BY <1>1, <1>3, TailElements
  <2> QED  BY <1>3, <2>1 DEF TypeOK, Receive, AfterReceive, Waiting
<1> QED  BY <1>2, <1>3

(* A step that moves one worker on keeps the workers typed.                *)
LEMMA WorkerMoves ==
  ASSUME TypeOK, WorkerBusy, NEW w \in Worker,
         NEW pc \in {"recv", "get", "start", "run", "exited"},
         worker[w].job \in Job \/ pc \in {"recv", "exited"},
         worker' = [worker EXCEPT ![w].pc = pc]
  PROVE  /\ worker' \in [Worker -> [pc : {"recv", "get", "start", "run", "exited"},
                                    job : Job \cup {NoJob}]]
         /\ WorkerBusy'
<1> DEFINE R == [pc : {"recv", "get", "start", "run", "exited"}, job : Job \cup {NoJob}]
<1>1. worker \in [Worker -> R]
  BY DEF TypeOK
<1>2. [worker[w] EXCEPT !.pc = pc] \in R
  <2>1. worker[w] \in R
    BY <1>1
  <2> QED  BY <2>1
<1>3. /\ worker' \in [Worker -> R]
      /\ worker'[w] = [worker[w] EXCEPT !.pc = pc]
      /\ \A v \in Worker \ {w} : worker'[v] = worker[v]
  <2> HIDE DEF R
  <2> QED  BY <1>1, <1>2
<1>4. worker'[w].pc = pc /\ worker'[w].job = worker[w].job
  BY <1>1, <1>3
<1>5. WorkerBusy'
  BY <1>3, <1>4 DEF WorkerBusy
<1> QED  BY <1>3, <1>5

(* The same for a watcher that received something.                         *)
LEMMA WatcherMoves ==
  ASSUME TypeOK, WatcherBusy, NEW x \in Watcher, NEW pc \in Waiting,
         watcher[x].job \in Job, watcher' = [watcher EXCEPT ![x].pc = pc]
  PROVE  /\ watcher' \in [Watcher -> [pc : {"idle"} \cup Waiting, job : Job \cup {NoJob}]]
         /\ WatcherBusy'
<1> DEFINE R == [pc : {"idle"} \cup Waiting, job : Job \cup {NoJob}]
<1>1. watcher \in [Watcher -> R]
  BY DEF TypeOK
<1>2. [watcher[x] EXCEPT !.pc = pc] \in R
  <2>1. watcher[x] \in R
    BY <1>1
  <2> QED  BY <2>1
<1>3. /\ watcher' \in [Watcher -> R]
      /\ watcher'[x] = [watcher[x] EXCEPT !.pc = pc]
      /\ \A y \in Watcher \ {x} : watcher'[y] = watcher[y]
  <2> HIDE DEF R
  <2> QED  BY <1>1, <1>2
<1>4. watcher'[x].job = watcher[x].job
  BY <1>1, <1>3
<1>5. WatcherBusy'
  BY <1>3, <1>4 DEF WatcherBusy
<1> QED  BY <1>3, <1>5

LEMMA PoolTypeInit == Init => PoolType
  BY DEF Init, PoolType, TypeOK, WorkerBusy, WatcherBusy, Waiting, JobStatus

(* One step for every action.                                              *)
LEMMA PoolTypeNext == PoolType /\ [Next]_vars => PoolType'
<1> SUFFICES ASSUME PoolType, [Next]_vars PROVE PoolType'
  OBVIOUS
<1>a. TypeOK /\ WorkerBusy /\ WatcherBusy
  BY DEF PoolType
<1>1. ASSUME NEW j \in Job, CheckCapacity(j) PROVE PoolType'
  BY <1>a, <1>1 DEF CheckCapacity, PoolType, TypeOK, WorkerBusy, WatcherBusy
<1>2. ASSUME NEW j \in Job, Insert(j) PROVE PoolType'
  BY <1>a, <1>2 DEF Insert, PoolType, TypeOK, WorkerBusy, WatcherBusy, JobStatus
<1>3. ASSUME NEW j \in Job, Send(j) PROVE PoolType'
  BY <1>a, <1>3 DEF Send, PoolType, TypeOK, WorkerBusy, WatcherBusy
<1>4. ASSUME NEW j \in Job, Subscribe(j) PROVE PoolType'
  BY <1>a, <1>4 DEF Subscribe, PoolType, TypeOK, WorkerBusy, WatcherBusy, Waiting
<1>5. ASSUME NEW j \in Job, ClientReceive(j) PROVE PoolType'
  <2>1. updates' \in [Job -> Seq(JobStatus)] /\ AfterReceive(j) \in Waiting
    BY <1>a, <1>5, ReceiveType DEF ClientReceive
  <2> QED  BY <1>a, <1>5, <2>1, Zenon DEF ClientReceive, PoolType, TypeOK, WorkerBusy, WatcherBusy
<1>6. ASSUME NEW j \in Job, CancelFind(j) PROVE PoolType'
  BY <1>a, <1>6 DEF CancelFind, PoolType, TypeOK, WorkerBusy, WatcherBusy
<1>7. ASSUME NEW j \in Job, CancelSet(j) PROVE PoolType'
  <2>1. "Cancelled" \in JobStatus
    BY DEF JobStatus, Final
  <2>2. /\ status' \in [Job -> JobStatus \cup {"Absent"}]
        /\ updates' \in [Job -> Seq(JobStatus)]
    BY <1>a, <1>7, <2>1, SetStatusType DEF CancelSet
  <2> QED  BY <1>a, <1>7, <2>2, Zenon DEF CancelSet, PoolType, TypeOK, WorkerBusy, WatcherBusy
<1>8. ASSUME NEW j \in Job, Expire(j) PROVE PoolType'
  BY <1>a, <1>8 DEF Expire, PoolType, TypeOK, WorkerBusy, WatcherBusy
<1>9. ASSUME NEW x \in Watcher, WatcherReceive(x) PROVE PoolType'
  <2> DEFINE j == watcher[x].job
  <2>1. j \in Job
    BY <1>a, <1>9 DEF WatcherReceive, WatcherBusy
  <2>2. updates' \in [Job -> Seq(JobStatus)] /\ AfterReceive(j) \in Waiting
    BY <1>a, <1>9, <2>1, ReceiveType DEF WatcherReceive
  <2>3. /\ watcher' \in [Watcher -> [pc : {"idle"} \cup Waiting, job : Job \cup {NoJob}]]
        /\ WatcherBusy'
    BY <1>a, <1>9, <2>1, <2>2, WatcherMoves, Zenon DEF WatcherReceive
  <2>4. UNCHANGED <<status, expired, items, open, collector, worker, client, cancel>>
    BY <1>9 DEF WatcherReceive
  <2> QED  BY <1>a, <2>2, <2>3, <2>4 DEF PoolType, TypeOK, WorkerBusy
<1>10. ASSUME NEW x \in Watcher, NEW j \in Job, Watch(x, j) PROVE PoolType'
  BY <1>a, <1>10 DEF Watch, PoolType, TypeOK, WorkerBusy, WatcherBusy, Waiting
<1>11. ASSUME NEW w \in Worker, WorkerReceive(w) PROVE PoolType'
  <2>1. Head(items) \in Job /\ Tail(items) \in Seq(Job)
    BY <1>a, <1>11, TailElements DEF WorkerReceive, TypeOK
  <2> QED  BY <1>a, <1>11, <2>1 DEF WorkerReceive, PoolType, TypeOK, WorkerBusy, WatcherBusy
<1>12. ASSUME NEW w \in Worker, WorkerGet(w) PROVE PoolType'
  <2>1. worker[w].job \in Job
    BY <1>a, <1>12 DEF WorkerGet, WorkerBusy
  <2>2. PICK pc \in {"recv", "start"} : worker' = [worker EXCEPT ![w].pc = pc]
    BY <1>12, Zenon DEF WorkerGet
  <2>3. /\ worker' \in [Worker -> [pc : {"recv", "get", "start", "run", "exited"},
                                   job : Job \cup {NoJob}]]
        /\ WorkerBusy'
    BY <1>a, <2>1, <2>2, WorkerMoves, Zenon
  <2>4. UNCHANGED <<status, updates, expired, items, open, collector, client, watcher, cancel>>
    BY <1>12 DEF WorkerGet
  <2> QED  BY <1>a, <2>3, <2>4 DEF PoolType, TypeOK, WatcherBusy
<1>13. ASSUME NEW w \in Worker, WorkerStart(w) PROVE PoolType'
  <2>1. worker[w].job \in Job /\ "Processing" \in JobStatus
    BY <1>a, <1>13 DEF WorkerStart, WorkerBusy, JobStatus
  <2>2. /\ status' \in [Job -> JobStatus \cup {"Absent"}]
        /\ updates' \in [Job -> Seq(JobStatus)]
    BY <1>a, <1>13, <2>1, SetStatusType DEF WorkerStart
  <2>3. /\ worker' \in [Worker -> [pc : {"recv", "get", "start", "run", "exited"},
                                   job : Job \cup {NoJob}]]
        /\ WorkerBusy'
    BY <1>a, <1>13, <2>1, WorkerMoves, Zenon DEF WorkerStart
  <2>4. UNCHANGED <<expired, items, open, collector, client, watcher, cancel>>
    BY <1>13 DEF WorkerStart
  <2> QED  BY <1>a, <2>2, <2>3, <2>4 DEF PoolType, TypeOK, WatcherBusy
<1>14. ASSUME NEW w \in Worker, NEW result \in {"Success", "Error"}, WorkerFinish(w, result)
       PROVE  PoolType'
  <2>1. worker[w].job \in Job /\ result \in JobStatus
    BY <1>a, <1>14 DEF WorkerFinish, WorkerBusy, JobStatus, Final
  <2>2. /\ status' \in [Job -> JobStatus \cup {"Absent"}]
        /\ updates' \in [Job -> Seq(JobStatus)]
    BY <1>a, <1>14, <2>1, SetStatusType DEF WorkerFinish
  <2>3. /\ worker' \in [Worker -> [pc : {"recv", "get", "start", "run", "exited"},
                                   job : Job \cup {NoJob}]]
        /\ WorkerBusy'
    BY <1>a, <1>14, <2>1, WorkerMoves, Zenon DEF WorkerFinish
  <2>4. UNCHANGED <<expired, items, open, collector, client, watcher, cancel>>
    BY <1>14 DEF WorkerFinish
  <2> QED  BY <1>a, <2>2, <2>3, <2>4 DEF PoolType, TypeOK, WatcherBusy
<1>15. ASSUME NEW w \in Worker, WorkerExit(w) PROVE PoolType'
  <2>1. /\ worker' \in [Worker -> [pc : {"recv", "get", "start", "run", "exited"},
                                   job : Job \cup {NoJob}]]
        /\ WorkerBusy'
    BY <1>a, <1>15, WorkerMoves, Zenon DEF WorkerExit
  <2>2. UNCHANGED <<status, updates, expired, items, open, collector, client, watcher, cancel>>
    BY <1>15 DEF WorkerExit
  <2> QED  BY <1>a, <2>1, <2>2 DEF PoolType, TypeOK, WatcherBusy
<1>16. ASSUME Collect PROVE PoolType'
  BY <1>a, <1>16 DEF Collect, PoolType, TypeOK, WorkerBusy, WatcherBusy
<1>17. ASSUME CollectorStop PROVE PoolType'
  BY <1>a, <1>17, Zenon DEF CollectorStop, PoolType, TypeOK, WorkerBusy, WatcherBusy
<1>18. ASSUME Shutdown PROVE PoolType'
  BY <1>a, <1>18, Zenon DEF Shutdown, PoolType, TypeOK, WorkerBusy, WatcherBusy
<1>19. CASE UNCHANGED vars
  BY <1>a, <1>19 DEF vars, PoolType, TypeOK, WorkerBusy, WatcherBusy
<1> QED
  BY <1>1, <1>2, <1>3, <1>4, <1>5, <1>6, <1>7, <1>8, <1>9, <1>10, <1>11, <1>12, <1>13,
     <1>14, <1>15, <1>16, <1>17, <1>18, <1>19 DEF Next, ClientStep, WorkerStep

(* Every reachable state of the pool is well typed: a worker is always at  *)
(* a job when it looks one up, starts or finishes it.                      *)
THEOREM PoolTypeCorrect == Spec => []TypeOK
<1>1. PoolType => TypeOK
  BY DEF PoolType
<1> QED  BY <1>1, PoolTypeInit, PoolTypeNext, PTL DEF Spec


-----------------------------------------------------------------------------
(* No job is stranded: the two conjuncts of the invariant for one job.     *)
PendingReached(j) ==
  status[j] = "Pending" =>
    \/ client[j] = "inserted"
    \/ j \in Range(items)
    \/ \E w \in Worker : At(w, j, {"get", "start"})

ProcessingRuns(j) ==
  status[j] = "Processing" => \E w \in Worker : At(w, j, {"run"})

LEMMA StrandedByJob ==
  NoJobStranded <=> \A j \in Job : PendingReached(j) /\ ProcessingRuns(j)
  BY DEF NoJobStranded, PendingReached, ProcessingRuns

(* Steps that change neither the map, the channel nor a worker, and take   *)
(* no client away from between insertion and sending.                      *)
LEMMA StrandedFrame ==
  ASSUME NoJobStranded, UNCHANGED <<status, items, worker>>,
         \A j \in Job : client[j] = "inserted" => client'[j] = "inserted"
  PROVE  NoJobStranded'
  BY DEF NoJobStranded, At

(* What set_status does to the status of every job.                        *)
LEMMA SetStatusEffect ==
  ASSUME TypeOK, NEW j \in Job, NEW s, SetStatus(j, s)
  PROVE  /\ \A i \in Job : i # j => status'[i] = status[i]
         /\ status'[j] = IF status[j] = "Absent" THEN "Absent" ELSE s
  BY DEF SetStatus, Present, TypeOK

LEMMA StrandedNext == PoolType /\ NoJobStranded /\ [Next]_vars => NoJobStranded'
<1> SUFFICES ASSUME PoolType, NoJobStranded, [Next]_vars PROVE NoJobStranded'
  OBVIOUS
<1>a. TypeOK /\ WorkerBusy
  BY DEF PoolType
<1>b. /\ worker \in [Worker -> [pc : {"recv", "get", "start", "run", "exited"},
                                job : Job \cup {NoJob}]]
      /\ items \in Seq(Job) /\ DOMAIN client = Job /\ DOMAIN status = Job
  BY <1>a DEF TypeOK
<1>1. ASSUME NEW j \in Job, CheckCapacity(j) PROVE NoJobStranded'
  BY <1>b, <1>1, StrandedFrame DEF CheckCapacity
<1>2. ASSUME NEW j \in Job, Insert(j) PROVE NoJobStranded'
  BY <1>b, <1>2 DEF Insert, NoJobStranded, At
<1>3. ASSUME NEW j \in Job, Send(j) PROVE NoJobStranded'
  <2>1. Range(items') = Range(items) \cup {j}
    BY <1>b, <1>3, SMTT(30) DEF Send, Range
  <2> QED  BY <1>b, <1>3, <2>1 DEF Send, NoJobStranded, At
<1>4. ASSUME NEW j \in Job, Subscribe(j) PROVE NoJobStranded'
  BY <1>b, <1>4, StrandedFrame DEF Subscribe
<1>5. ASSUME NEW j \in Job, ClientReceive(j) PROVE NoJobStranded'
  BY <1>b, <1>5, StrandedFrame DEF ClientReceive
<1>6. ASSUME NEW j \in Job, CancelFind(j) PROVE NoJobStranded'
  BY <1>6, StrandedFrame DEF CancelFind
<1>7. ASSUME NEW j \in Job, CancelSet(j) PROVE NoJobStranded'
  <2>1. \A i \in Job : status'[i] \in {status[i], "Cancelled"}
    BY <1>a, <1>7, SetStatusEffect DEF CancelSet
  <2> QED  BY <1>7, <2>1 DEF CancelSet, NoJobStranded, At
<1>8. ASSUME NEW j \in Job, Expire(j) PROVE NoJobStranded'
  BY <1>8, StrandedFrame DEF Expire
<1>9. ASSUME NEW x \in Watcher, WatcherReceive(x) PROVE NoJobStranded'
  BY <1>9, StrandedFrame DEF WatcherReceive
<1>10. ASSUME NEW x \in Watcher, NEW j \in Job, Watch(x, j) PROVE NoJobStranded'
  BY <1>10, StrandedFrame DEF Watch
<1>11. ASSUME NEW w \in Worker, WorkerReceive(w) PROVE NoJobStranded'
  <2>1. \A j \in Range(items) : j = Head(items) \/ j \in Range(items')
    <3>1. items # <<>> /\ items' = Tail(items)
      BY <1>11 DEF WorkerReceive
    <3>2. ASSUME NEW k \in DOMAIN items, k # 1
          PROVE  items[k] \in Range(items')
      <4>1. k - 1 \in DOMAIN Tail(items) /\ Tail(items)[k - 1] = items[k]
        BY <1>b, <3>1, <3>2, TailElements
      <4> QED  BY <3>1, <4>1 DEF Range
    <3>3. items[1] = Head(items)
      BY <1>b, <3>1, TailElements
    <3> QED  BY <3>2, <3>3 DEF Range
  <2>2. /\ worker' = [worker EXCEPT ![w] = [pc |-> "get", job |-> Head(items)]]
        /\ worker[w].pc = "recv"
        /\ UNCHANGED <<status, client>>
    BY <1>11 DEF WorkerReceive
  <2>3. worker'[w] = [pc |-> "get", job |-> Head(items)]
        /\ \A v \in Worker : v # w => worker'[v] = worker[v]
    BY <1>b, <2>2
  <2>4. ASSUME NEW j \in Job PROVE PendingReached(j)' /\ ProcessingRuns(j)'
    <3>1. PendingReached(j) /\ ProcessingRuns(j)
      BY StrandedByJob
    <3>2. PendingReached(j)'
      BY <2>1, <2>2, <2>3, <3>1 DEF PendingReached, At
    <3>3. ProcessingRuns(j)'
      BY <2>2, <2>3, <3>1 DEF ProcessingRuns, At
    <3> QED  BY <3>2, <3>3
  <2> QED  BY <2>4 DEF NoJobStranded, PendingReached, ProcessingRuns
<1>12. ASSUME NEW w \in Worker, WorkerGet(w) PROVE NoJobStranded'
  <2>1. /\ worker' = [worker EXCEPT ![w].pc =
               IF status[worker[w].job] \in {"Absent", "Cancelled"} THEN "recv" ELSE "start"]
        /\ worker[w].pc = "get"
        /\ UNCHANGED <<status, client, items>>
    BY <1>12 DEF WorkerGet
  <2>2. /\ worker'[w].job = worker[w].job
        /\ worker'[w].pc = IF status[worker[w].job] \in {"Absent", "Cancelled"}
                           THEN "recv" ELSE "start"
        /\ \A v \in Worker : v # w => worker'[v] = worker[v]
    BY <1>b, <2>1
  <2> QED  BY <2>1, <2>2 DEF NoJobStranded, At
<1>13. ASSUME NEW w \in Worker, WorkerStart(w) PROVE NoJobStranded'
  <2>1. worker[w].pc = "start" /\ worker[w].job \in Job /\ UNCHANGED <<client, items>>
    BY <1>a, <1>13 DEF WorkerStart, WorkerBusy
  <2>2. /\ worker'[w].job = worker[w].job /\ worker'[w].pc = "run"
        /\ \A v \in Worker : v # w => worker'[v] = worker[v]
    BY <1>b, <1>13 DEF WorkerStart
  <2>3. /\ \A i \in Job : i # worker[w].job => status'[i] = status[i]
        /\ status'[worker[w].job] \in {"Absent", "Processing"}
    BY <1>a, <1>13, <2>1, SetStatusEffect DEF WorkerStart
  <2> QED  BY <2>1, <2>2, <2>3 DEF NoJobStranded, At
<1>14. ASSUME NEW w \in Worker, NEW result \in {"Success", "Error"}, WorkerFinish(w, result)
       PROVE  NoJobStranded'
  <2>1. worker[w].pc = "run" /\ worker[w].job \in Job /\ UNCHANGED <<client, items>>
    BY <1>a, <1>14 DEF WorkerFinish, WorkerBusy
  <2>2. \A v \in Worker : v # w => worker'[v] = worker[v]
    BY <1>b, <1>14 DEF WorkerFinish
  <2>3. /\ \A i \in Job : i # worker[w].job => status'[i] = status[i]
        /\ status'[worker[w].job] \in {"Absent", "Success", "Error"}
    BY <1>a, <1>14, <2>1, SetStatusEffect DEF WorkerFinish
  <2> QED  BY <2>1, <2>2, <2>3 DEF NoJobStranded, At
<1>15. ASSUME NEW w \in Worker, WorkerExit(w) PROVE NoJobStranded'
  <2>1. /\ worker' = [worker EXCEPT ![w].pc = "exited"] /\ worker[w].pc = "recv"
        /\ UNCHANGED <<status, client, items>>
    BY <1>15 DEF WorkerExit
  <2>2. \A v \in Worker : v # w => worker'[v] = worker[v]
    BY <1>b, <2>1
  <2> QED  BY <2>1, <2>2 DEF NoJobStranded, At
<1>16. ASSUME Collect PROVE NoJobStranded'
  <2>1. \A i \in Job : status'[i] \in {status[i], "Absent"}
    BY <1>16 DEF Collect
  <2> QED  BY <1>16, <2>1 DEF Collect, NoJobStranded, At
<1>17. ASSUME CollectorStop PROVE NoJobStranded'
  BY <1>17, StrandedFrame DEF CollectorStop
<1>18. ASSUME Shutdown PROVE NoJobStranded'
  BY <1>18, StrandedFrame DEF Shutdown
<1>19. CASE UNCHANGED vars
  BY <1>19, StrandedFrame DEF vars
<1> QED
  BY <1>1, <1>2, <1>3, <1>4, <1>5, <1>6, <1>7, <1>8, <1>9, <1>10, <1>11, <1>12, <1>13,
     <1>14, <1>15, <1>16, <1>17, <1>18, <1>19 DEF Next, ClientStep, WorkerStep

(* No pending or processing job of the request map is forgotten by the     *)
(* workers, whatever is cancelled, collected or subscribed to.             *)
THEOREM NoJobIsStranded == Spec => []NoJobStranded
<1>1. Init => NoJobStranded
  BY DEF Init, NoJobStranded
<1> QED  BY <1>1, PoolTypeInit, PoolTypeNext, StrandedNext, PTL DEF Spec

-----------------------------------------------------------------------------
(* The end of a job stays in its channel from the insertion of the job     *)
(* until the client takes it: FinalStatusInFlight, from insertion on.      *)
HasFinal(j) == \E k \in DOMAIN updates[j] : updates[j][k] \in Final

EndInFlight ==
  \A j \in Job :
    client[j] \in {"inserted", "sent", "waiting"} /\ status[j] \in Final => HasFinal(j)

(* set_status with a final status puts it into the channel and takes       *)
(* nothing out of any channel.                                             *)
LEMMA SetStatusInFlight ==
  ASSUME TypeOK, EndInFlight, NEW j \in Job, NEW s \in JobStatus, SetStatus(j, s),
         UNCHANGED client
  PROVE  EndInFlight'
<1>1. CASE ~ Present(j)
  BY <1>1 DEF SetStatus, EndInFlight, HasFinal
<1>2. CASE Present(j)
  <2>1. /\ status' = [status EXCEPT ![j] = s]
        /\ updates' = [updates EXCEPT ![j] = Append(@, s)]
    BY <1>2 DEF SetStatus
  <2>2. updates \in [Job -> Seq(JobStatus)] /\ DOMAIN status = Job
    BY DEF TypeOK
  <2>3. ASSUME NEW i \in Job, i # j,
               client'[i] \in {"inserted", "sent", "waiting"}, status'[i] \in Final
        PROVE  HasFinal(i)'
    BY <2>1, <2>2, <2>3 DEF EndInFlight, HasFinal
  <2>4. ASSUME status'[j] \in Final PROVE HasFinal(j)'
    <3>1. updates'[j] = Append(updates[j], s) /\ s \in Final
      BY <2>1, <2>2, <2>4
    <3>2. Len(updates[j]) + 1 \in DOMAIN updates'[j]
          /\ updates'[j][Len(updates[j]) + 1] = s
      BY <2>2, <3>1, AppendElements
    <3> QED  BY <3>1, <3>2 DEF HasFinal
  <2> QED  BY <2>3, <2>4 DEF EndInFlight
<1> QED  BY <1>1, <1>2

(* Steps that keep the map and the channels, and start no wait.            *)
LEMMA InFlightFrame ==
  ASSUME EndInFlight, UNCHANGED <<status, updates>>,
         \A j \in Job : client'[j] \in {"inserted", "sent", "waiting"}
                          => client[j] \in {"inserted", "sent", "waiting"}
  PROVE  EndInFlight'
  BY DEF EndInFlight, HasFinal

LEMMA InFlightNext ==
  ASSUME Watcher = {}
  PROVE  PoolType /\ EndInFlight /\ [Next]_vars => EndInFlight'
<1> SUFFICES ASSUME PoolType, EndInFlight, [Next]_vars PROVE EndInFlight'
  OBVIOUS
<1>a. TypeOK /\ WorkerBusy
  BY DEF PoolType
<1>b. DOMAIN client = Job /\ DOMAIN status = Job /\ updates \in [Job -> Seq(JobStatus)]
  BY <1>a DEF TypeOK
<1>c. {"Processing", "Cancelled", "Success", "Error"} \subseteq JobStatus
  BY DEF JobStatus, Final
<1>1. ASSUME NEW j \in Job, CheckCapacity(j) PROVE EndInFlight'
  BY <1>b, <1>1, InFlightFrame DEF CheckCapacity
<1>2. ASSUME NEW j \in Job, Insert(j) PROVE EndInFlight'
  <2>1. status'[j] \notin Final /\ \A i \in Job : i # j => status'[i] = status[i]
    BY <1>b, <1>2 DEF Insert, Final
  <2>2. \A i \in Job : i # j => client'[i] = client[i]
    BY <1>b, <1>2 DEF Insert
  <2> QED  BY <1>2, <2>1, <2>2 DEF Insert, EndInFlight, HasFinal
<1>3. ASSUME NEW j \in Job, Send(j) PROVE EndInFlight'
  BY <1>b, <1>3, InFlightFrame DEF Send
<1>4. ASSUME NEW j \in Job, Subscribe(j) PROVE EndInFlight'
  BY <1>b, <1>4, InFlightFrame DEF Subscribe
<1>5. ASSUME NEW j \in Job, ClientReceive(j) PROVE EndInFlight'
  <2>1. /\ client' = [client EXCEPT ![j] = AfterReceive(j)] /\ client[j] = "waiting"
        /\ Receive(j) /\ UNCHANGED status
    BY <1>5 DEF ClientReceive
  <2>2. \A i \in Job : i # j => client'[i] = client[i] /\ updates'[i] = updates[i]
    BY <1>b, <2>1 DEF Receive
  <2>3. ASSUME client'[j] \in {"inserted", "sent", "waiting"}, status'[j] \in Final
        PROVE  HasFinal(j)'
    <3>1. AfterReceive(j) \in {"inserted", "sent", "waiting"}
      BY <1>b, <2>1, <2>3
    <3>2. updates[j] # <<>> /\ Head(updates[j]) \notin Final
      BY <3>1 DEF AfterReceive, Final
    <3>3. PICK k \in DOMAIN updates[j] : updates[j][k] \in Final
      BY <2>1, <2>3 DEF EndInFlight, HasFinal
    <3>4. k - 1 \in DOMAIN Tail(updates[j]) /\ Tail(updates[j])[k - 1] = updates[j][k]
      BY <1>b, <3>2, <3>3, TailElements
    <3>5. updates'[j] = Tail(updates[j])
      BY <1>b, <2>1, <3>2 DEF Receive
    <3> QED  BY <3>3, <3>4, <3>5 DEF HasFinal
  <2> QED  BY <2>1, <2>2, <2>3 DEF EndInFlight, HasFinal
<1>6. ASSUME NEW j \in Job, CancelFind(j) PROVE EndInFlight'
  BY <1>6, InFlightFrame DEF CancelFind
<1>7. ASSUME NEW j \in Job, CancelSet(j) PROVE EndInFlight'
  BY <1>a, <1>c, <1>7, SetStatusInFlight DEF CancelSet
<1>8. ASSUME NEW j \in Job, Expire(j) PROVE EndInFlight'
  BY <1>8, InFlightFrame DEF Expire
<1>11. ASSUME NEW w \in Worker, WorkerReceive(w) PROVE EndInFlight'
  BY <1>11, InFlightFrame DEF WorkerReceive
<1>12. ASSUME NEW w \in Worker, WorkerGet(w) PROVE EndInFlight'
  BY <1>12, InFlightFrame DEF WorkerGet
<1>13. ASSUME NEW w \in Worker, WorkerStart(w) PROVE EndInFlight'
  <2>1. worker[w].job \in Job
    BY <1>a, <1>13 DEF WorkerStart, WorkerBusy
  <2> QED  BY <1>a, <1>c, <1>13, <2>1, SetStatusInFlight DEF WorkerStart
<1>14. ASSUME NEW w \in Worker, NEW result \in {"Success", "Error"}, WorkerFinish(w, result)
       PROVE  EndInFlight'
  <2>1. worker[w].job \in Job
    BY <1>a, <1>14 DEF WorkerFinish, WorkerBusy
  <2> QED  BY <1>a, <1>c, <1>14, <2>1, SetStatusInFlight DEF WorkerFinish
<1>15. ASSUME NEW w \in Worker, WorkerExit(w) PROVE EndInFlight'
  BY <1>15, InFlightFrame DEF WorkerExit
<1>16. ASSUME Collect PROVE EndInFlight'
  <2>1. \A i \in Job : status'[i] \in {status[i], "Absent"} /\ "Absent" \notin Final
    BY <1>16 DEF Collect, Final
  <2> QED  BY <1>16, <2>1 DEF Collect, EndInFlight, HasFinal
<1>17. ASSUME CollectorStop PROVE EndInFlight'
  BY <1>17, InFlightFrame DEF CollectorStop
<1>18. ASSUME Shutdown PROVE EndInFlight'
  BY <1>18, InFlightFrame DEF Shutdown
<1>19. CASE UNCHANGED vars
  BY <1>19, InFlightFrame DEF vars
<1> QED
  BY <1>1, <1>2, <1>3, <1>4, <1>5, <1>6, <1>7, <1>8, <1>11, <1>12, <1>13,
     <1>14, <1>15, <1>16, <1>17, <1>18, <1>19 DEF Next, ClientStep, WorkerStep

(* As long as nobody but the submitter subscribes to a job,                *)
(* wait_for_success cannot miss the status that ends the job.              *)
THEOREM EndIsNotMissed ==
  ASSUME Watcher = {}
  PROVE  Spec => []FinalStatusInFlight
<1>1. Init => EndInFlight
  BY DEF Init, EndInFlight
<1>2. EndInFlight => FinalStatusInFlight
  BY DEF EndInFlight, FinalStatusInFlight, HasFinal
<1> QED  BY <1>1, <1>2, PoolTypeInit, PoolTypeNext, InFlightNext, PTL DEF Spec
=============================================================================
