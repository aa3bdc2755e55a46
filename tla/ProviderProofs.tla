--------------------------- MODULE ProviderProofs ---------------------------
(***************************************************************************)
(* Proofs about Provider, for any pods, containers, workers and scrapers:  *)
(*   1. types and the mutex: one goroutine at a time is inside the library;*)
(*   2. the map and the notifier, when no two pods have one key;           *)
(*   3. the packages the kubelet counts on are active, each in an instance *)
(*      of its own, when the containers of a pod have different images too;*)
(*   4. when no two pods have one key and nothing failed, the device runs  *)
(*      no package that the kubelet does not count on.                     *)
(***************************************************************************)
EXTENDS Provider, SequenceTheorems, FiniteSetTheorems, TLAPS

-----------------------------------------------------------------------------
(* The package service keeps its types. *)

LEMMA CallTypes ==
    /\ PSTypeOK /\ (\E image \in Images : CallDeploy(image)) => PSTypeOK'
    /\ \A id \in Ids : PSTypeOK /\ CallRemove(id) => PSTypeOK'
<1>1. ASSUME PSTypeOK, NEW id \in Ids, NEW op \in {"DeployPackage", "RemovePackage"},
             NEW image \in Images \cup {None}, Begin(op, id, image)
      PROVE  PSTypeOK'
  <2>1. [op |-> op, id |-> id, image |-> image, status |-> "running"] \in Calls
    BY DEF Calls
  <2> QED
    BY <1>1, <2>1 DEF PSTypeOK, Begin
<1> QED
  BY <1>1 DEF CallDeploy, CallRemove

LEMMA ReturnTypes == PSTypeOK /\ (PSReturns \/ Collect \/ Drift \/ PSCrash) => PSTypeOK'
<1> SUFFICES ASSUME PSTypeOK PROVE PSReturns \/ Collect \/ Drift \/ PSCrash => PSTypeOK'
  OBVIOUS
<1>1. ASSUME NEW status \in {"ok", "err"}, call # None, Return(status)
      PROVE  call' \in Calls /\ call.id \in Ids /\ call.image \in Images \cup {None}
  <2>1. call \in Calls
    BY <1>1 DEF PSTypeOK
  <2> QED
    BY <1>1, <2>1 DEF Return, Calls
<1>2. DeployOk => PSTypeOK'
  BY <1>1 DEF DeployOk, Running, PSTypeOK
<1>3. DeployErr => PSTypeOK'
  BY <1>1 DEF DeployErr, Running, PSTypeOK
<1>4. RemoveOk => PSTypeOK'
  BY <1>1 DEF RemoveOk, Running, PSTypeOK
<1>5. RemoveErr => PSTypeOK'
  BY <1>1 DEF RemoveErr, Running, PSTypeOK
<1>6. Collect \/ Drift \/ PSCrash => PSTypeOK'
  BY DEF Collect, Drift, PSCrash, PSTypeOK
<1> QED
  BY <1>2, <1>3, <1>4, <1>5, <1>6 DEF PSReturns

-----------------------------------------------------------------------------
(* The tasks and the mutex. *)

Stages == [op \in {"CreatePod", "UpdatePod", "DeletePod"} |->
    CASE op = "CreatePod" -> {"lock", "container", "deploying", "adapter", "watch", "list",
                              "remove", "removing"}
      [] op = "UpdatePod" -> {"lock", "update"}
      [] op = "DeletePod" -> {"check", "lock", "remove", "removing"}]

(* A task past the lock. *)
Locked(t) == t.pc \notin {"lock", "check", "update"}

GoodTask(t) == /\ t \in Tasks
               /\ t.pc \in Stages[t.op]
               /\ t.op # "DeletePod" => t.rev \in Revisions(t.pod)

TasksInv == /\ \A w \in Workers : task[w] # None => GoodTask(task[w])
            /\ \A v, w \in Workers : v # w /\ task[v] # None /\ task[w] # None
                                        => task[v].pod # task[w].pod

(* A scraper that has the mutex, or had it when it panicked. *)
Took == {"inside", "panicked"}

MutexInv == /\ \A w \in Workers : task[w] # None /\ Locked(task[w]) => mutex = w
            /\ \A s \in Scrapers : scrape[s] \in Took => mutex = s

WantInv == want = [p \in Pods |-> want[p]]

Calling(t) == t.pc \in {"deploying", "removing"}

(* The call of the library in progress is the one of the task that waits.     *)
Deploys(t) == /\ call # None /\ call.op = "DeployPackage"
              /\ Len(t.packages) + 1 <= Len(Containers[t.pod][t.rev])
              /\ call.image = Containers[t.pod][t.rev][Len(t.packages) + 1]
Removes(t) == /\ call # None /\ call.op = "RemovePackage"
              /\ t.packages # <<>> /\ call.id = Head(t.packages).id

CallerInv ==
    /\ \A w \in Workers : task[w] # None =>
          /\ task[w].pc = "deploying" => Deploys(task[w])
          /\ task[w].pc = "removing" => Removes(task[w])
    /\ call # None => \E w \in Workers : task[w] # None /\ Calling(task[w])

BaseInv == TypeOK /\ TasksInv /\ MutexInv /\ CallerInv /\ WantInv

LEMMA InitBase == Init => BaseInv
<1> SUFFICES ASSUME Init PROVE BaseInv
  OBVIOUS
<1>1. PSTypeOK
  BY DEF Init, PSInit, PSTypeOK
<1>2. /\ DOMAIN pods = {}
      /\ task \in [Workers -> {None}] /\ scrape \in [Scrapers -> {"idle"}]
      /\ told \in [Pods -> {None}] /\ want \in [Pods -> {0}] /\ mutex = None
      /\ faults = 0
  BY DEF Init
<1>3. faults \in 0..MaxFaults
  BY <1>2, ProviderAssumption
<1>4. TypeOK
  BY <1>1, <1>2, <1>3 DEF TypeOK
<1> QED
  BY <1>2, <1>4 DEF BaseInv, TasksInv, MutexInv, Took, CallerInv, WantInv, Init, PSInit

(* A step of worker w, which is then at t, inside or outside of the mutex.    *)
LEMMA TaskMoves ==
    ASSUME BaseInv, NEW w \in Workers, NEW t, t # None => GoodTask(t),
           t # None => \A v \in Workers : v # w /\ task[v] # None => task[v].pod # t.pod,
           task' = [task EXCEPT ![w] = t],
           \/ mutex' = mutex /\ (t # None /\ Locked(t) => mutex = w)
           \/ mutex = None /\ mutex' = w
           \/ mutex = w /\ mutex' = None /\ (t # None => ~Locked(t)),
           UNCHANGED <<scrape, want>>
    PROVE  /\ TasksInv' /\ MutexInv' /\ WantInv'
           /\ task' \in [Workers -> Tasks \cup {None}]
           /\ mutex' \in Workers \cup Scrapers \cup {None}
<1>1. /\ task \in [Workers -> Tasks \cup {None}]
      /\ mutex \in Workers \cup Scrapers \cup {None}
      /\ task'[w] = t /\ \A v \in Workers : v # w => task'[v] = task[v]
  BY DEF BaseInv, TypeOK
<1>2. t \in Tasks \cup {None}
  BY DEF GoodTask
<1>3. TasksInv'
  BY <1>1 DEF BaseInv, TasksInv
<1>4. MutexInv'
  BY <1>1, ProviderAssumption DEF BaseInv, MutexInv
<1>5. WantInv'
  BY DEF BaseInv, WantInv
<1> QED
  BY <1>1, <1>2, <1>3, <1>4, <1>5

LEMMA CallerKeeps ==
    ASSUME BaseInv, NEW w \in Workers, NEW t, t # None => ~Calling(t),
           task[w] # None => ~Calling(task[w]),
           task' = [task EXCEPT ![w] = t], call' = call
    PROVE  CallerInv'
<1>1. task'[w] = t /\ \A v \in Workers : v # w => task'[v] = task[v]
  BY DEF BaseInv, TypeOK
<1>2. ASSUME NEW v \in Workers, task'[v] # None
      PROVE  /\ task'[v].pc = "deploying" => Deploys(task[v])'
             /\ task'[v].pc = "removing" => Removes(task[v])'
  BY <1>1, <1>2 DEF BaseInv, CallerInv, Calling, Deploys, Removes
<1>3. call' # None => \E v \in Workers : task'[v] # None /\ Calling(task'[v])
  BY <1>1 DEF BaseInv, CallerInv
<1> QED
  BY <1>2, <1>3 DEF CallerInv, Calling, Deploys, Removes

LEMMA StoreTypes ==
    ASSUME TypeOK, NEW k \in Keys, NEW entry \in ProviderPods, Store(k, entry)
    PROVE  DOMAIN pods' \subseteq Keys /\ \A j \in DOMAIN pods' : pods'[j] \in ProviderPods
  BY DEF TypeOK, Store

(* What is known of a worker's task. *)
LEMMA TaskIs ==
    ASSUME BaseInv, NEW w \in Workers, task[w] # None
    PROVE  /\ task[w] \in Tasks /\ GoodTask(task[w])
           /\ task[w].pod \in Pods /\ MyKey(w) \in Keys /\ task[w].rev \in Nat
           /\ task[w].packages \in Seq(Packages)
           /\ \A v \in Workers : v # w /\ task[v] # None => task[v].pod # task[w].pod
  BY ProviderAssumption DEF BaseInv, TasksInv, GoodTask, Tasks, MyKey

LEMMA PackagesAtType == ASSUME TypeOK, NEW k PROVE PackagesAt(k) \in Seq(Packages)
<1>1. k \in DOMAIN pods => pods[k].packages \in Seq(Packages)
  BY DEF TypeOK, ProviderPods
<1> QED
  BY <1>1 DEF PackagesAt

LEMMA ImagesOf ==
    ASSUME NEW p \in Pods, NEW r \in Revisions(p)
    PROVE  r \in Nat \ {0} /\ Containers[p][r] \in Seq(Images)
<1>1. Containers[p] \in Seq(Seq(Images))
  BY ProviderAssumption
<1>2. DOMAIN Containers[p] = 1..Len(Containers[p]) /\ Len(Containers[p]) \in Nat
  BY <1>1, LenProperties
<1>3. r \in 1..Len(Containers[p])
  BY <1>2 DEF Revisions
<1> QED
  BY <1>1, <1>2, <1>3, ElementOfSeq

LEMMA SyncBase ==
    ASSUME BaseInv, NEW w \in Workers, NEW p \in Pods, Sync(w, p) PROVE BaseInv'
<1>1. PICK op \in {"CreatePod", "UpdatePod", "DeletePod"}, pc \in {"lock", "check"} :
        /\ Start(w, op, pc, p)
        /\ op = "DeletePod" <=> pc = "check"
        /\ op # "DeletePod" => want[p] # 0
  BY DEF Sync
<1> DEFINE t == [op |-> op, pc |-> pc, pod |-> p, rev |-> want[p], packages |-> <<>>]
<1>2. /\ task[w] = None /\ \A v \in Workers : task[v] # None => task[v].pod # p
      /\ UNCHANGED <<pods, mutex, scrape, kubeVars, psVars>>
      /\ task' = [task EXCEPT ![w] = t]
  BY <1>1 DEF Sync, Start
<1>3. want[p] \in Revisions(p) \cup {0} /\ want[p] \in Nat
  BY ImagesOf DEF BaseInv, TypeOK
<1>4. t \in Tasks
  BY <1>1, <1>3 DEF Tasks, Pcs
<1>5. GoodTask(t) /\ ~Locked(t) /\ ~Calling(t) /\ t.pod = p
  BY <1>1, <1>3, <1>4 DEF GoodTask, Locked, Calling, Stages
<1> HIDE DEF t
<1>6. TasksInv' /\ MutexInv' /\ WantInv' /\ task' \in [Workers -> Tasks \cup {None}]
  BY <1>2, <1>5, TaskMoves DEF kubeVars
<1>7. CallerInv'
  BY <1>2, <1>5, CallerKeeps DEF psVars
<1>8. TypeOK'
  BY <1>2, <1>6 DEF BaseInv, TypeOK, kubeVars, psVars, PSTypeOK
<1> QED
  BY <1>6, <1>7, <1>8 DEF BaseInv

(* A step of a task that calls nothing and leaves the map alone. *)
LEMMA GotoBase ==
    ASSUME BaseInv, NEW w \in Workers, task[w] # None, NEW pc \in Pcs,
           NEW packages \in Seq(Packages),
           task' = [task EXCEPT ![w] = [task[w] EXCEPT !.pc = pc, !.packages = packages]],
           pc \in Stages[task[w].op], pc \notin {"deploying", "removing"}, ~Calling(task[w]),
           \/ mutex' = mutex /\ (Locked(task[w]) \/ pc \in {"lock", "update"})
           \/ mutex = None /\ mutex' = w,
           UNCHANGED <<pods, scrape, kubeVars, psVars>>
    PROVE  BaseInv'
<1> DEFINE t == [task[w] EXCEPT !.pc = pc, !.packages = packages]
<1>1. task[w] \in Tasks /\ GoodTask(task[w])
      /\ \A v \in Workers : v # w /\ task[v] # None => task[v].pod # task[w].pod
  BY TaskIs
<1>2. t \in Tasks /\ t.pc = pc /\ t.op = task[w].op /\ t.pod = task[w].pod /\ t.rev = task[w].rev
  BY <1>1 DEF Tasks
<1>3. GoodTask(t) /\ ~Calling(t) /\ (Locked(t) => pc \notin {"lock", "update"})
  BY <1>1, <1>2 DEF GoodTask, Calling, Locked
<1>4. Locked(task[w]) => mutex = w
  BY DEF BaseInv, MutexInv
<1>5. task' = [task EXCEPT ![w] = t]
  OBVIOUS
<1> HIDE DEF t
<1>6. /\ TasksInv' /\ MutexInv' /\ WantInv' /\ task' \in [Workers -> Tasks \cup {None}]
      /\ mutex' \in Workers \cup Scrapers \cup {None}
  <2>1. \A v \in Workers : v # w /\ task[v] # None => task[v].pod # t.pod
    BY <1>1, <1>2
  <2>2. \/ mutex' = mutex /\ (Locked(t) => mutex = w)
        \/ mutex = None /\ mutex' = w
    BY <1>3, <1>4
  <2>3. UNCHANGED <<scrape, want>>
    BY DEF kubeVars
  <2> QED
    BY <1>3, <1>5, <2>1, <2>2, <2>3, TaskMoves
<1>7. CallerInv'
  BY <1>3, <1>5, CallerKeeps DEF psVars
<1>8. TypeOK'
  BY <1>6 DEF BaseInv, TypeOK, kubeVars, psVars, PSTypeOK
<1> QED
  BY <1>6, <1>7, <1>8 DEF BaseInv

(* The end of a task. *)
LEMMA DoneBase ==
    ASSUME BaseInv, NEW w \in Workers, task[w] # None, ~Calling(task[w]), Done(w),
           (mutex' = mutex /\ ~Locked(task[w])) \/ (mutex' = None /\ Locked(task[w])),
           DOMAIN pods' \subseteq Keys, \A k \in DOMAIN pods' : pods'[k] \in ProviderPods,
           told' \in [Pods -> Phases \cup {None}],
           UNCHANGED <<scrape, want, faults, psVars>>
    PROVE  BaseInv'
<1>1. task' = [task EXCEPT ![w] = None] /\ (Locked(task[w]) => mutex = w)
  BY DEF Done, BaseInv, MutexInv
<1>2. /\ TasksInv' /\ MutexInv' /\ WantInv' /\ task' \in [Workers -> Tasks \cup {None}]
      /\ mutex' \in Workers \cup Scrapers \cup {None}
  BY <1>1, TaskMoves
<1>3. CallerInv'
  BY <1>1, CallerKeeps DEF psVars
<1>4. TypeOK'
  BY <1>2 DEF BaseInv, TypeOK, psVars, PSTypeOK
<1> QED
  BY <1>2, <1>3, <1>4 DEF BaseInv

LEMMA GotoIs ==
    ASSUME BaseInv, NEW w \in Workers, task[w] # None, NEW pc, Goto(w, pc)
    PROVE  task' = [task EXCEPT ![w] = [task[w] EXCEPT !.pc = pc, !.packages = task[w].packages]]
<1>1. task[w] \in Tasks
  BY TaskIs
<1>2. [task[w] EXCEPT !.pc = pc] = [task[w] EXCEPT !.pc = pc, !.packages = task[w].packages]
  BY <1>1 DEF Tasks
<1>3. task' = [task EXCEPT ![w] = [task[w] EXCEPT !.pc = pc]]
  BY DEF Goto
<1> QED
  BY <1>2, <1>3

(* CreatePod and DeletePod take the mutex, and UpdatePod does not. *)
LEMMA LockBase ==
    ASSUME BaseInv, NEW w \in Workers, CreateLock(w) \/ DeleteLock(w) \/ UpdateRead(w)
    PROVE  BaseInv'
<1>1. CASE CreateLock(w)
  <2>1. /\ task[w] # None /\ task[w].op = "CreatePod" /\ ~Calling(task[w])
        /\ mutex = None /\ mutex' = w
        /\ Goto(w, "container") /\ UNCHANGED <<pods, scrape, kubeVars, psVars>>
    BY <1>1 DEF CreateLock, At, Lock, Calling
  <2>2. "container" \in Pcs /\ "container" \in Stages["CreatePod"]
    BY DEF Pcs, Stages
  <2> QED
    BY <2>1, <2>2, TaskIs, GotoIs, GotoBase
<1>2. CASE DeleteLock(w)
  <2>1. /\ task[w] # None /\ task[w].op = "DeletePod" /\ ~Calling(task[w])
        /\ mutex = None /\ mutex' = w
        /\ task' = [task EXCEPT ![w] = [task[w] EXCEPT !.pc = "remove",
                                                    !.packages = PackagesAt(MyKey(w))]]
        /\ UNCHANGED <<pods, scrape, kubeVars, psVars>>
    BY <1>2 DEF DeleteLock, At, Lock, Calling
  <2>2. "remove" \in Pcs /\ "remove" \in Stages["DeletePod"]
    BY DEF Pcs, Stages
  <2>3. PackagesAt(MyKey(w)) \in Seq(Packages)
    BY PackagesAtType DEF BaseInv
  <2> QED
    BY <2>1, <2>2, <2>3, GotoBase
<1>3. CASE UpdateRead(w)
  <2>1. /\ task[w] # None /\ task[w].op = "UpdatePod" /\ ~Calling(task[w])
        /\ mutex' = mutex
        /\ task' = [task EXCEPT ![w] = [task[w] EXCEPT !.pc = "update",
                                                    !.packages = PackagesAt(MyKey(w))]]
        /\ UNCHANGED <<pods, scrape, kubeVars, psVars>>
    BY <1>3 DEF UpdateRead, At, Calling
  <2>2. "update" \in Pcs /\ "update" \in Stages["UpdatePod"]
    BY DEF Pcs, Stages
  <2>3. PackagesAt(MyKey(w)) \in Seq(Packages)
    BY PackagesAtType DEF BaseInv
  <2> QED
    BY <2>1, <2>2, <2>3, GotoBase
<1> QED
  BY <1>1, <1>2, <1>3

(* A task that begins or ends a call. *)
LEMMA CallBase ==
    ASSUME BaseInv, NEW w \in Workers, task[w] # None, Locked(task[w]),
           NEW t, GoodTask(t), Locked(t), t.pod = task[w].pod,
           task' = [task EXCEPT ![w] = t], PSTypeOK', CallerInv',
           UNCHANGED <<pods, mutex, scrape, kubeVars>>
    PROVE  BaseInv'
<1>1. \A v \in Workers : v # w /\ task[v] # None => task[v].pod # t.pod
  BY TaskIs
<1>2. mutex = w /\ UNCHANGED <<scrape, want>>
  BY DEF BaseInv, MutexInv, kubeVars
<1>3. TasksInv' /\ MutexInv' /\ WantInv' /\ task' \in [Workers -> Tasks \cup {None}]
  BY <1>1, <1>2, TaskMoves
<1>4. TypeOK'
  BY <1>3 DEF BaseInv, TypeOK, kubeVars
<1> QED
  BY <1>3, <1>4 DEF BaseInv

(* No other task is past the lock. *)
LEMMA Alone ==
    ASSUME BaseInv, NEW w \in Workers, task[w] # None, Locked(task[w])
    PROVE  /\ mutex = w
           /\ \A v \in Workers : v # w /\ task[v] # None => ~Locked(task[v]) /\ ~Calling(task[v])
           /\ ~Calling(task[w]) => call = None
<1>1. /\ mutex = w
      /\ \A v \in Workers : v # w /\ task[v] # None => ~Locked(task[v])
  BY DEF BaseInv, MutexInv
<1>2. \A v \in Workers : task[v] # None /\ Calling(task[v]) => Locked(task[v])
  BY DEF Calling, Locked
<1> QED
  BY <1>1, <1>2 DEF BaseInv, CallerInv

LEMMA ContainerBase ==
    ASSUME BaseInv, NEW w \in Workers, Container(w) PROVE BaseInv'
<1> DEFINE n == Len(task[w].packages) + 1
           t == [task[w] EXCEPT !.pc = "deploying"]
<1>1. /\ task[w] # None /\ task[w].op = "CreatePod" /\ task[w].pc = "container"
      /\ Locked(task[w]) /\ ~Calling(task[w])
      /\ UNCHANGED <<pods, mutex, scrape, kubeVars>>
  BY DEF Container, At, Locked, Calling
<1>2. ASSUME NEW pc \in {"adapter", "remove"}, Goto(w, pc), UNCHANGED psVars PROVE BaseInv'
  <2>1. pc \in Pcs /\ pc \in Stages["CreatePod"]
    BY <1>2 DEF Pcs, Stages
  <2> QED
    BY <1>1, <1>2, <2>1, TaskIs, GotoIs, GotoBase
<1>3. CASE /\ n <= Len(MyImages(w))
           /\ CallDeploy(MyImages(w)[n])
           /\ Goto(w, "deploying")
  <2>1. task[w] \in Tasks /\ task[w].pod \in Pods /\ task[w].rev \in Revisions(task[w].pod)
        /\ task[w].packages \in Seq(Packages)
    BY <1>1, TaskIs DEF GoodTask
  <2>2. t \in Tasks /\ t.pc = "deploying" /\ t.op = "CreatePod" /\ t.pod = task[w].pod
        /\ t.rev = task[w].rev /\ t.packages = task[w].packages
    BY <1>1, <2>1 DEF Tasks, Pcs
  <2>3. GoodTask(t) /\ Locked(t) /\ Calling(t)
    BY <2>1, <2>2 DEF GoodTask, Locked, Stages, Calling
  <2>4. MyImages(w)[n] \in Images
    <3>1. MyImages(w) \in Seq(Images)
      BY <2>1, ImagesOf DEF MyImages
    <3>2. n \in 1..Len(MyImages(w))
      BY <1>3, <2>1, <3>1, LenProperties
    <3> QED
      BY <3>1, <3>2, ElementOfSeq
  <2>5. PSTypeOK'
    BY <1>3, <2>4, CallTypes DEF BaseInv, TypeOK
  <2>6. task' = [task EXCEPT ![w] = t]
    BY <1>3 DEF Goto
  <2>7. call' # None /\ call'.op = "DeployPackage" /\ call'.image = MyImages(w)[n]
    <3>1. PICK id \in Ids : Begin("DeployPackage", id, MyImages(w)[n])
      BY <1>3 DEF CallDeploy
    <3>2. call' = [op |-> "DeployPackage", id |-> id, image |-> MyImages(w)[n], status |-> "running"]
      BY <3>1 DEF Begin
    <3>3. call' \in Calls
      BY <2>4, <3>2 DEF Calls
    <3> QED
      BY <3>2, <3>3, NoneIsNoCall
  <2> HIDE DEF t
  <2>9. CallerInv'
    <3>1. task'[w] = t /\ \A v \in Workers : v # w => task'[v] = task[v]
      BY <2>6 DEF BaseInv, TypeOK
    <3>2. \A v \in Workers : v # w /\ task[v] # None => ~Calling(task[v])
      BY <1>1, Alone
    <3>3. \A v \in Workers : v # w /\ task'[v] # None
                                => task'[v].pc # "deploying" /\ task'[v].pc # "removing"
      BY <3>1, <3>2 DEF Calling
    <3>4. Deploys(task[w])'
      BY <1>3, <2>2, <2>7, <3>1 DEF Deploys, MyImages
    <3>5. task'[w] # None => task'[w].pc = "deploying"
      BY <2>2, <3>1
    <3>6. t # None
      BY <2>2, NoneIsNoTask
    <3> QED
      BY <2>3, <3>1, <3>3, <3>4, <3>5, <3>6 DEF CallerInv, Calling
  <2> QED
    BY <1>1, <2>2, <2>3, <2>5, <2>6, <2>9, CallBase
<1> QED
  BY <1>2, <1>3 DEF Container

(* The call has returned. *)
LEMMA CollectBase ==
    ASSUME BaseInv, NEW w \in Workers, task[w] # None, Locked(task[w]), Collect,
           NEW pc \in Pcs, pc \in Stages[task[w].op], pc \notin {"lock", "update", "check"},
           pc \notin {"deploying", "removing"}, NEW packages \in Seq(Packages),
           task' = [task EXCEPT ![w] = [task[w] EXCEPT !.pc = pc, !.packages = packages]],
           UNCHANGED <<pods, mutex, scrape, kubeVars>>
    PROVE  BaseInv'
<1> DEFINE t == [task[w] EXCEPT !.pc = pc, !.packages = packages]
<1>1. task[w] \in Tasks /\ GoodTask(task[w])
  BY TaskIs
<1>2. t \in Tasks /\ t.pc = pc /\ t.op = task[w].op /\ t.pod = task[w].pod /\ t.rev = task[w].rev
  BY <1>1 DEF Tasks
<1>3. GoodTask(t) /\ ~Calling(t) /\ Locked(t)
  BY <1>1, <1>2 DEF GoodTask, Calling, Locked
<1>4. PSTypeOK'
  BY ReturnTypes DEF BaseInv, TypeOK
<1>5. task' = [task EXCEPT ![w] = t]
  OBVIOUS
<1> HIDE DEF t
<1>6. CallerInv'
  <2>1. task'[w] = t /\ \A v \in Workers : v # w => task'[v] = task[v]
    BY <1>5 DEF BaseInv, TypeOK
  <2>2. \A v \in Workers : task'[v] # None => ~Calling(task'[v])
    BY <1>3, <2>1, Alone
  <2> QED
    BY <2>2 DEF CallerInv, Calling, Collect
<1> QED
  BY <1>2, <1>3, <1>4, <1>5, <1>6, CallBase

LEMMA PackageOf ==
    ASSUME BaseInv, NEW w \in Workers, task[w] # None, task[w].pc = "deploying"
    PROVE  /\ call \in Calls /\ call.image = MyImages(w)[Len(task[w].packages) + 1]
           /\ Len(task[w].packages) + 1 <= Len(MyImages(w))
           /\ [id |-> call.id, image |-> call.image] \in Packages
           /\ Append(task[w].packages, [id |-> call.id, image |-> call.image]) \in Seq(Packages)
<1>1. /\ call \in Calls /\ Len(task[w].packages) + 1 <= Len(MyImages(w))
      /\ call.image = MyImages(w)[Len(task[w].packages) + 1]
  BY DEF BaseInv, CallerInv, Deploys, MyImages, TypeOK, PSTypeOK
<1>2. task[w].pod \in Pods /\ task[w].rev \in Revisions(task[w].pod)
      /\ task[w].packages \in Seq(Packages)
  <2>1. GoodTask(task[w])
    BY TaskIs
  <2>2. task[w].op # "DeletePod"
    BY <2>1 DEF GoodTask, Stages, Tasks
  <2> QED
    BY <2>1, <2>2, TaskIs DEF GoodTask
<1>3. MyImages(w) \in Seq(Images)
  BY <1>2, ImagesOf DEF MyImages
<1>4. Len(task[w].packages) + 1 \in 1..Len(MyImages(w))
  BY <1>1, <1>2, <1>3, LenProperties
<1>5. call.image \in Images
  BY <1>1, <1>3, <1>4, ElementOfSeq
<1>6. [id |-> call.id, image |-> call.image] \in Packages
  BY <1>1, <1>5 DEF Packages, Calls
<1> QED
  BY <1>1, <1>2, <1>6, AppendProperties

LEMMA DeployedBase ==
    ASSUME BaseInv, NEW w \in Workers, Deployed(w) PROVE BaseInv'
<1>1. /\ task[w] # None /\ task[w].op = "CreatePod" /\ task[w].pc = "deploying"
      /\ Locked(task[w]) /\ Collect
      /\ UNCHANGED <<pods, mutex, scrape, kubeVars>>
  BY DEF Deployed, At, Locked
<1>2. {"container", "remove"} \subseteq Pcs /\ {"container", "remove"} \subseteq Stages["CreatePod"]
  BY DEF Pcs, Stages
<1>3. task[w] \in Tasks /\ task[w].packages \in Seq(Packages)
  BY <1>1, TaskIs
<1>4. CASE call.status = "ok"
  <2>1. task' = [task EXCEPT ![w] = [task[w] EXCEPT !.pc = "container",
                  !.packages = Append(task[w].packages, [id |-> call.id, image |-> call.image])]]
    BY <1>4 DEF Deployed, Keeps
  <2> QED
    BY <1>1, <1>2, <2>1, PackageOf, CollectBase
<1>5. CASE call.status # "ok"
  <2>1. task' = [task EXCEPT ![w] = [task[w] EXCEPT !.pc = "remove"]]
    BY <1>5 DEF Deployed, Goto
  <2>2. [task[w] EXCEPT !.pc = "remove"]
            = [task[w] EXCEPT !.pc = "remove", !.packages = task[w].packages]
    BY <1>3 DEF Tasks
  <2> QED
    BY <1>1, <1>2, <1>3, <2>1, <2>2, CollectBase
<1> QED
  BY <1>4, <1>5

LEMMA RemovedBase ==
    ASSUME BaseInv, NEW w \in Workers, Removed(w) PROVE BaseInv'
<1>1. /\ task[w] # None /\ task[w].pc = "removing" /\ Locked(task[w]) /\ Collect
      /\ task' = [task EXCEPT ![w] = [task[w] EXCEPT !.pc = "remove",
                                                  !.packages = Tail(task[w].packages)]]
      /\ UNCHANGED <<pods, mutex, scrape, kubeVars>>
  BY DEF Removed, Locked
<1>2. GoodTask(task[w]) /\ task[w] \in Tasks
  BY <1>1, TaskIs
<1>3. "remove" \in Pcs /\ "remove" \in Stages[task[w].op]
  BY <1>1, <1>2 DEF Pcs, Stages, GoodTask, Tasks
<1>4. task[w].packages # <<>> /\ task[w].packages \in Seq(Packages)
  BY <1>1, <1>2 DEF BaseInv, CallerInv, Removes, Tasks
<1>5. Tail(task[w].packages) \in Seq(Packages)
  BY <1>4, HeadTailProperties
<1> QED
  BY <1>1, <1>3, <1>5, CollectBase

LEMMA CallRemoveBase ==
    ASSUME BaseInv, NEW w \in Workers, CallRemovePackage(w) PROVE BaseInv'
<1> DEFINE t == [task[w] EXCEPT !.pc = "removing"]
<1>1. /\ task[w] # None /\ task[w].pc = "remove" /\ Locked(task[w])
      /\ task[w].packages # <<>>
      /\ CallRemove(Head(task[w].packages).id)
      /\ task' = [task EXCEPT ![w] = t]
      /\ UNCHANGED <<pods, mutex, scrape, kubeVars>>
  BY DEF CallRemovePackage, Locked, Goto
<1>2. GoodTask(task[w]) /\ task[w] \in Tasks /\ task[w].packages \in Seq(Packages)
  BY <1>1, TaskIs
<1>3. t \in Tasks /\ t.pc = "removing" /\ t.op = task[w].op /\ t.pod = task[w].pod
      /\ t.rev = task[w].rev /\ t.packages = task[w].packages
  BY <1>2 DEF Tasks, Pcs
<1>4. GoodTask(t) /\ Locked(t) /\ Calling(t)
  BY <1>1, <1>2, <1>3 DEF GoodTask, Locked, Calling, Stages, Tasks
<1>5. Head(task[w].packages).id \in Ids
  <2>1. Head(task[w].packages) \in Packages
    BY <1>1, <1>2, HeadTailProperties
  <2> QED
    BY <2>1 DEF Packages
<1>6. PSTypeOK'
  BY <1>1, <1>5, CallTypes DEF BaseInv, TypeOK
<1>7. call' # None /\ call'.op = "RemovePackage" /\ call'.id = Head(task[w].packages).id
  <2>1. call' = [op |-> "RemovePackage", id |-> Head(task[w].packages).id, image |-> None,
                 status |-> "running"]
    BY <1>1 DEF CallRemove, Begin
  <2>2. call' \in Calls
    BY <1>5, <2>1 DEF Calls
  <2> QED
    BY <2>1, <2>2, NoneIsNoCall
<1> HIDE DEF t
<1>8. CallerInv'
  <2>1. task'[w] = t /\ \A v \in Workers : v # w => task'[v] = task[v]
    BY <1>1 DEF BaseInv, TypeOK
  <2>2. \A v \in Workers : v # w /\ task[v] # None => ~Calling(task[v])
    BY <1>1, Alone
  <2>3. \A v \in Workers : v # w /\ task'[v] # None
                              => task'[v].pc # "deploying" /\ task'[v].pc # "removing"
    BY <2>1, <2>2 DEF Calling
  <2>4. Removes(task[w])'
    BY <1>1, <1>3, <1>7, <2>1 DEF Removes
  <2>5. t # None
    BY <1>3, NoneIsNoTask
  <2> QED
    BY <1>3, <1>4, <2>1, <2>3, <2>4, <2>5 DEF CallerInv, Calling
<1> QED
  BY <1>1, <1>3, <1>4, <1>6, <1>8, CallBase

LEMMA CreatedBase ==
    ASSUME BaseInv, NEW w \in Workers, task[w] # None, task[w].op = "CreatePod",
           task[w].pc \in {"adapter", "list"}, Created(w), UNCHANGED <<scrape, want, faults, psVars>>
    PROVE  BaseInv'
<1>1. Locked(task[w]) /\ ~Calling(task[w])
  BY DEF Locked, Calling
<1>2. task[w] \in Tasks /\ MyKey(w) \in Keys
  BY TaskIs
<1>3. [pod |-> task[w].pod, rev |-> task[w].rev, packages |-> task[w].packages] \in ProviderPods
  BY <1>2 DEF Tasks, ProviderPods
<1>4. DOMAIN pods' \subseteq Keys /\ \A j \in DOMAIN pods' : pods'[j] \in ProviderPods
  BY <1>2, <1>3, StoreTypes DEF Created, BaseInv
<1>5. told' \in [Pods -> Phases \cup {None}]
  BY DEF Created, BaseInv, TypeOK, Phases, ApiPhases
<1> QED
  BY <1>1, <1>4, <1>5, DoneBase DEF Created, Unlock

LEMMA AdapterBase ==
    ASSUME BaseInv, NEW w \in Workers, Adapter(w) \/ AdapterWatch(w) \/ AdapterList(w)
    PROVE  BaseInv'
<1>1. /\ task[w] # None /\ task[w].op = "CreatePod" /\ task[w].pc \in {"adapter", "watch", "list"}
      /\ UNCHANGED <<scrape, want, faults, psVars>>
  BY DEF Adapter, AdapterWatch, AdapterList, At
<1>2. ASSUME NEW pc \in {"watch", "list", "remove"}, GoOn(w, pc) PROVE BaseInv'
  <2>1. /\ Goto(w, pc) /\ Locked(task[w]) /\ ~Calling(task[w])
        /\ UNCHANGED <<pods, mutex, scrape, kubeVars, psVars>>
    BY <1>1, <1>2 DEF GoOn, kubeVars, Locked, Calling
  <2>2. pc \in Pcs /\ pc \in Stages["CreatePod"]
    BY <1>2 DEF Pcs, Stages
  <2> QED
    BY <1>1, <1>2, <2>1, <2>2, TaskIs, GotoIs, GotoBase
<1>3. CASE Created(w) /\ task[w].pc \in {"adapter", "list"}
  BY <1>1, <1>3, CreatedBase
<1> QED
  BY <1>2, <1>3 DEF Adapter, AdapterWatch, AdapterList, At

LEMMA EndBase ==
    ASSUME BaseInv, NEW w \in Workers,
           UpdateWrite(w) \/ DeleteCheck(w) \/ CreateFailed(w) \/ DeleteDone(w)
    PROVE  BaseInv'
<1>1. task[w] # None /\ ~Calling(task[w]) /\ task[w] \in Tasks /\ MyKey(w) \in Keys
  <2>1. task[w] # None /\ ~Calling(task[w])
    BY DEF UpdateWrite, DeleteCheck, CreateFailed, DeleteDone, At, Calling
  <2> QED
    BY <2>1, TaskIs
<1>2. /\ DOMAIN pods \subseteq Keys /\ \A k \in DOMAIN pods : pods[k] \in ProviderPods
      /\ told \in [Pods -> Phases \cup {None}]
  BY DEF BaseInv, TypeOK
<1>3. CASE UpdateWrite(w)
  <2>1. [pod |-> task[w].pod, rev |-> task[w].rev, packages |-> task[w].packages] \in ProviderPods
    BY <1>1 DEF Tasks, ProviderPods
  <2>2. DOMAIN pods' \subseteq Keys /\ \A j \in DOMAIN pods' : pods'[j] \in ProviderPods
    BY <1>1, <1>3, <2>1, StoreTypes DEF UpdateWrite, BaseInv
  <2>3. ~Locked(task[w]) /\ Done(w) /\ mutex' = mutex
        /\ UNCHANGED <<scrape, want, faults, psVars>> /\ Reports(task[w].pod)
    BY <1>3 DEF UpdateWrite, At, Locked
  <2>4. (mutex' = mutex /\ ~Locked(task[w])) \/ (mutex' = None /\ Locked(task[w]))
    BY <2>3
  <2>5. told' \in [Pods -> Phases \cup {None}]
    BY <1>2, <2>3 DEF Reports, Phases
  <2> QED
    BY <1>1, <2>2, <2>3, <2>4, <2>5, DoneBase
<1>4. CASE DeleteCheck(w)
  <2>1. /\ ~Locked(task[w]) /\ task[w].op = "DeletePod"
        /\ UNCHANGED <<pods, mutex, scrape, kubeVars, psVars>>
    BY <1>4 DEF DeleteCheck, At, Locked
  <2>2. CASE Goto(w, "lock")
    <3>1. "lock" \in Pcs /\ "lock" \in Stages["DeletePod"]
      BY DEF Pcs, Stages
    <3> QED
      BY <1>1, <2>1, <2>2, <3>1, TaskIs, GotoIs, GotoBase
  <2>3. CASE Done(w)
    <3>1. mutex' = mutex /\ UNCHANGED <<scrape, want, faults, psVars>> /\ told' = told
          /\ pods' = pods
      BY <2>1 DEF kubeVars
    <3>2. (mutex' = mutex /\ ~Locked(task[w])) \/ (mutex' = None /\ Locked(task[w]))
      BY <2>1, <3>1
    <3>3. /\ DOMAIN pods' \subseteq Keys /\ \A k \in DOMAIN pods' : pods'[k] \in ProviderPods
          /\ told' \in [Pods -> Phases \cup {None}]
      BY <1>2, <3>1
    <3> QED
      BY <1>1, <2>3, <3>1, <3>2, <3>3, DoneBase
  <2> QED
    BY <1>4, <2>2, <2>3 DEF DeleteCheck
<1>5. CASE CreateFailed(w)
  <2>1. Locked(task[w])
    BY <1>5 DEF CreateFailed, At, Locked
  <2> QED
    BY <1>1, <1>2, <1>5, <2>1, DoneBase DEF CreateFailed, Unlock, kubeVars
<1>6. CASE DeleteDone(w)
  <2>1. Locked(task[w])
    BY <1>6 DEF DeleteDone, At, Locked
  <2>2. DOMAIN pods' \subseteq Keys /\ \A j \in DOMAIN pods' : pods'[j] \in ProviderPods
    BY <1>2, <1>6 DEF DeleteDone
  <2>3. told' \in [Pods -> Phases \cup {None}]
    BY <1>2, <1>6 DEF DeleteDone, Phases
  <2> QED
    BY <1>1, <1>6, <2>1, <2>2, <2>3, DoneBase DEF DeleteDone, Unlock
<1> QED
  BY <1>3, <1>4, <1>5, <1>6

(* A return changes the status of the call and nothing else of it. *)
LEMMA SameCall ==
    ASSUME PSTypeOK, PSReturns
    PROVE  /\ call \in Calls /\ call' \in Calls /\ call # None /\ call' # None
           /\ call'.op = call.op /\ call'.id = call.id /\ call'.image = call.image
           /\ call.status = "running"
<1>1. call # None /\ call.status = "running" /\ \E status \in {"ok", "err"} : Return(status)
  BY DEF PSReturns, DeployOk, DeployErr, RemoveOk, RemoveErr, Running
<1>2. call \in Calls
  BY <1>1 DEF PSTypeOK
<1>3. PICK status \in {"ok", "err"} : call' = [call EXCEPT !.status = status]
  BY <1>1 DEF Return
<1>4. call' \in Calls /\ call'.op = call.op /\ call'.id = call.id /\ call'.image = call.image
  BY <1>2, <1>3 DEF Calls
<1> QED
  BY <1>1, <1>2, <1>4, NoneIsNoCall

(* A step outside of the workers: the tasks and the map stay as they are. *)
LEMMA OutsideBase ==
    ASSUME BaseInv, UNCHANGED <<pods, task>>, PSTypeOK', faults' \in 0..MaxFaults,
           \/ UNCHANGED call
           \/ call # None /\ call' # None /\ call'.op = call.op /\ call'.id = call.id
              /\ call'.image = call.image,
           \/ UNCHANGED want
           \/ \E p \in Pods : \E r \in Revisions(p) \cup {0} : want' = [want EXCEPT ![p] = r],
           UNCHANGED told,
           \/ UNCHANGED <<mutex, scrape>>
           \/ /\ \A w \in Workers : task[w] # None => ~Locked(task[w])
              /\ mutex' \in Scrapers \cup {None}
              /\ scrape' \in [Scrapers -> {"idle", "lock", "inside", "panicked"}]
              /\ \A s \in Scrapers : scrape'[s] \in Took => mutex' = s
           \/ /\ UNCHANGED mutex
              /\ scrape' \in [Scrapers -> {"idle", "lock", "inside", "panicked"}]
              /\ \A s \in Scrapers : scrape'[s] \in Took => scrape[s] \in Took
    PROVE  BaseInv'
<1>1. TasksInv'
  BY DEF BaseInv, TasksInv
<1>2. MutexInv' /\ mutex' \in Workers \cup Scrapers \cup {None}
      /\ scrape' \in [Scrapers -> {"idle", "lock", "inside", "panicked"}]
  BY DEF BaseInv, MutexInv, TypeOK
<1>3. CallerInv'
  <2>1. \A w \in Workers : task[w] # None =>
            /\ task[w].pc = "deploying" => Deploys(task[w])'
            /\ task[w].pc = "removing" => Removes(task[w])'
    BY DEF BaseInv, CallerInv, Deploys, Removes
  <2>2. call' # None => \E w \in Workers : task[w] # None /\ Calling(task[w])
    BY DEF BaseInv, CallerInv
  <2> QED
    BY <2>1, <2>2 DEF CallerInv, Calling
<1>4. WantInv' /\ \A p \in Pods : want'[p] \in Revisions(p) \cup {0}
  <2>1. CASE UNCHANGED want
    BY <2>1 DEF BaseInv, WantInv, TypeOK
  <2>2. CASE \E p \in Pods : \E r \in Revisions(p) \cup {0} : want' = [want EXCEPT ![p] = r]
    <3>1. PICK p \in Pods : \E r \in Revisions(p) \cup {0} : want' = [want EXCEPT ![p] = r]
      BY <2>2
    <3>2. PICK r \in Revisions(p) \cup {0} : want' = [want EXCEPT ![p] = r]
      BY <3>1
    <3>3. want = [q \in Pods |-> want[q]] /\ \A q \in Pods : want[q] \in Revisions(q) \cup {0}
      BY DEF BaseInv, WantInv, TypeOK
    <3>4. want' = [q \in Pods |-> IF q = p THEN r ELSE want[q]]
      BY <3>2, <3>3
    <3> QED
      BY <3>2, <3>3, <3>4 DEF WantInv
  <2> QED
    BY <2>1, <2>2
<1>5. TypeOK'
  BY <1>2, <1>4 DEF BaseInv, TypeOK
<1> QED
  BY <1>1, <1>2, <1>3, <1>4, <1>5 DEF BaseInv

LEMMA OthersBase ==
    ASSUME BaseInv,
           \/ \E p \in Pods : KubernetesWants(p)
           \/ \E s \in Scrapers : ScrapeNext(s) \/ ScrapeLock(s) \/ ScrapeUnlock(s) \/ ScrapePanics(s)
           \/ Answer \/ NoAnswer \/ LateEffect \/ UNCHANGED vars
    PROVE  BaseInv'
<1>1. /\ PSTypeOK /\ faults \in 0..MaxFaults /\ mutex \in Workers \cup Scrapers \cup {None}
      /\ scrape \in [Scrapers -> {"idle", "lock", "inside", "panicked"}]
      /\ \A s \in Scrapers : scrape[s] \in Took => mutex = s
      /\ \A w \in Workers : task[w] # None /\ Locked(task[w]) => mutex = w
  BY DEF BaseInv, TypeOK, MutexInv
<1>2. UNCHANGED psVars => PSTypeOK'
  BY <1>1 DEF psVars, PSTypeOK
<1>3. ASSUME NEW p \in Pods, KubernetesWants(p) PROVE BaseInv'
  <2>1. /\ UNCHANGED <<pods, mutex, task, scrape, told, faults>> /\ UNCHANGED psVars /\ UNCHANGED call
        /\ \E r \in Revisions(p) \cup {0} : want' = [want EXCEPT ![p] = r]
    BY <1>3 DEF KubernetesWants, psVars
  <2> QED
    BY <1>1, <1>2, <2>1, OutsideBase
<1>4. ASSUME NEW s \in Scrapers, ScrapeNext(s) PROVE BaseInv'
  <2>1. /\ UNCHANGED <<pods, mutex, task, want, told, faults, call>> /\ UNCHANGED psVars
        /\ scrape' = [scrape EXCEPT ![s] = "lock"]
    BY <1>4 DEF ScrapeNext, psVars, kubeVars
  <2>2. scrape' \in [Scrapers -> {"idle", "lock", "inside", "panicked"}]
        /\ \A u \in Scrapers : scrape'[u] \in Took => scrape[u] \in Took
    BY <1>1, <2>1 DEF Took
  <2> QED
    BY <1>1, <1>2, <2>1, <2>2, OutsideBase
<1>5. ASSUME NEW s \in Scrapers, ScrapeLock(s) PROVE BaseInv'
  <2>1. /\ UNCHANGED <<pods, task, want, told, faults, call>> /\ UNCHANGED psVars
        /\ scrape' = [scrape EXCEPT ![s] = "inside"] /\ mutex = None /\ mutex' = s
    BY <1>5 DEF ScrapeLock, Lock, psVars, kubeVars
  <2>2. /\ \A w \in Workers : task[w] # None => ~Locked(task[w])
        /\ \A u \in Scrapers : scrape[u] \notin Took
    BY <1>1, <2>1, ProviderAssumption
  <2> QED
    BY <1>1, <1>2, <2>1, <2>2, OutsideBase
<1>6. ASSUME NEW s \in Scrapers, ScrapeUnlock(s) PROVE BaseInv'
  <2>1. /\ UNCHANGED <<pods, task, want, told, faults, call>> /\ UNCHANGED psVars
        /\ scrape[s] = "inside" /\ scrape' = [scrape EXCEPT ![s] = "idle"] /\ mutex' = None
    BY <1>6 DEF ScrapeUnlock, Unlock, psVars, kubeVars
  <2>2. /\ \A w \in Workers : task[w] # None => ~Locked(task[w])
        /\ \A u \in Scrapers : u # s => scrape[u] \notin Took
    BY <1>1, <2>1, ProviderAssumption DEF Took
  <2>3. \A u \in Scrapers : scrape'[u] \notin Took
    BY <1>1, <2>1, <2>2 DEF Took
  <2> QED
    BY <1>1, <1>2, <2>1, <2>2, <2>3, OutsideBase
<1>7. ASSUME NEW s \in Scrapers, ScrapePanics(s) PROVE BaseInv'
  <2>1. /\ UNCHANGED <<pods, mutex, task, want, told, call>> /\ UNCHANGED psVars
        /\ scrape' = [scrape EXCEPT ![s] = "panicked"]
    BY <1>7 DEF ScrapePanics, psVars
  <2>2. faults' \in 0..MaxFaults
    BY <1>1, <1>7, ProviderAssumption DEF ScrapePanics, Fault
  <2>3. scrape' \in [Scrapers -> {"idle", "lock", "inside", "panicked"}]
        /\ \A u \in Scrapers : scrape'[u] \in Took => scrape[u] \in Took
    BY <1>1, <1>7, <2>1 DEF Took, ScrapePanics
  <2> QED
    BY <1>1, <1>2, <2>1, <2>2, <2>3, OutsideBase
<1>8. CASE Answer \/ NoAnswer
  <2>1. PSReturns /\ UNCHANGED <<pods, mutex, task, scrape, want, told>> /\ faults' \in 0..MaxFaults
    <3>1. CASE Answer
      BY <1>1, <3>1 DEF Answer, PSReturns, kubeVars
    <3>2. CASE NoAnswer
      BY <1>1, <3>2, ProviderAssumption DEF NoAnswer, Fault, PSReturns
    <3> QED
      BY <1>8, <3>1, <3>2
  <2>2. PSTypeOK'
    BY <1>1, <2>1, ReturnTypes
  <2> QED
    BY <1>1, <2>1, <2>2, SameCall, OutsideBase
<1>9. CASE LateEffect
  <2>1. PSTypeOK' /\ UNCHANGED <<pods, mutex, task, scrape, want, told, faults, call>>
    BY <1>1, <1>9, ReturnTypes DEF LateEffect, Drift, kubeVars
  <2> QED
    BY <1>1, <2>1, OutsideBase
<1>10. CASE UNCHANGED vars
  <2>1. UNCHANGED psVars /\ UNCHANGED <<pods, mutex, task, scrape, want, told, faults, call>>
    BY <1>10 DEF vars, psVars
  <2> QED
    BY <1>1, <1>2, <2>1, OutsideBase
<1> QED
  BY <1>3, <1>4, <1>5, <1>6, <1>7, <1>8, <1>9, <1>10

LEMMA CrashBase == BaseInv /\ Crash => BaseInv'
<1> SUFFICES ASSUME BaseInv, Crash PROVE BaseInv'
  OBVIOUS
<1>1. PSTypeOK' /\ call' = None
  BY ReturnTypes DEF BaseInv, TypeOK, Crash, PSCrash
<1>2. /\ task' \in [Workers -> {None}] /\ DOMAIN pods' = {} /\ mutex' = None
      /\ scrape' \in [Scrapers -> {"idle"}] /\ told' \in [Pods -> {None}] /\ want' = want
  BY DEF Crash
<1>3. faults' \in 0..MaxFaults
  BY ProviderAssumption DEF Crash, Fault, BaseInv, TypeOK
<1>4. TypeOK'
  BY <1>1, <1>2, <1>3 DEF TypeOK, BaseInv
<1>5. TasksInv' /\ MutexInv' /\ CallerInv' /\ WantInv'
  BY <1>1, <1>2 DEF TasksInv, MutexInv, Took, CallerInv, WantInv, BaseInv
<1> QED
  BY <1>4, <1>5 DEF BaseInv

LEMMA StepBase == BaseInv /\ [Next]_vars => BaseInv'
<1> SUFFICES ASSUME BaseInv, [Next]_vars PROVE BaseInv'
  OBVIOUS
<1>1. ASSUME NEW w \in Workers, Step(w) PROVE BaseInv'
  BY <1>1, LockBase, ContainerBase, DeployedBase, AdapterBase, EndBase, CallRemoveBase,
     RemovedBase DEF Step
<1> QED
  BY <1>1, SyncBase, OthersBase, CrashBase DEF Next

THEOREM BaseHolds == Spec => []BaseInv
  BY InitBase, StepBase, PTL DEF Spec

(* The provider's fields keep their types. *)
THEOREM TypeCorrect == Spec => []TypeOK
<1>1. BaseInv => TypeOK
  BY DEF BaseInv
<1> QED
  BY <1>1, BaseHolds, PTL

(* A scraper that panicked has the mutex, and every handler is before the     *)
(* lock or takes none.                                                        *)
PanickedHolds == \A s \in Scrapers : scrape[s] = "panicked" =>
    /\ mutex = s
    /\ \A w \in Workers : task[w] # None => task[w].pc \in {"lock", "check", "update"}

(* A panic between Lock and Unlock in GetMetricsResource loses the mutex: as  *)
(* long as the process lives nobody else has it, and CreatePod and DeletePod  *)
(* of every pod wait.                                                         *)
THEOREM PanicKeepsMutex == Spec => []PanickedHolds
<1>1. BaseInv => PanickedHolds
  BY ProviderAssumption DEF BaseInv, MutexInv, Took, Locked, PanickedHolds
<1> QED
  BY <1>1, BaseHolds, PTL

(* However many workers and scrapers there are, and whatever fails, one       *)
(* goroutine at most is inside nextgengw, which is not thread safe: every one *)
(* that is holds the provider's mutex.                                        *)
THEOREM OneInsideTheLibrary == Spec => []LibraryExclusive
<1>1. ASSUME BaseInv PROVE LibraryExclusive
  <2> DEFINE W == {w \in Workers : task[w] # None /\ task[w].pc \in {"deploying", "removing"}}
             S == {s \in Scrapers : scrape[s] = "inside"}
  <2>1. \A g \in W \cup S : g = mutex
    BY <1>1 DEF BaseInv, MutexInv, Locked, Took
  <2>2. W \cup S = {} \/ W \cup S = {mutex}
    BY <2>1
  <2> HIDE DEF W, S
  <2>3. Cardinality(W \cup S) <= 1
    <3>1. Cardinality({}) = 0 /\ Cardinality({mutex}) = 1
      BY FS_EmptySet, FS_Singleton
    <3>2. CASE W \cup S = {}
      BY <3>1, <3>2
    <3>3. CASE W \cup S = {mutex}
      BY <3>1, <3>3
    <3> QED
      BY <2>2, <3>2, <3>3
  <2> QED
    BY <2>3 DEF LibraryExclusive, W, S
<1> QED
  BY <1>1, BaseHolds, PTL

-----------------------------------------------------------------------------
(* 2. The map, its packages and what the notifier is told. *)

(* buildKey gives each pod a key of its own.  It joins namespace and name     *)
(* with "-", so there are pods for which it does not (ProviderSameKey.cfg).   *)
KeysDiffer == \A p, q \in Pods : KeyOf[p] = KeyOf[q] => p = q

-----------------------------------------------------------------------------
(* The handlers and the map: CreatePod finds no entry all along, UpdatePod    *)
(* writes back the packages that are there.                                   *)

Fits(t) == /\ t.op = "CreatePod" => KeyOf[t.pod] \notin DOMAIN pods
           /\ t.op = "UpdatePod" =>
                 /\ KeyOf[t.pod] \in DOMAIN pods
                 /\ t.pc = "update" => t.packages = pods[KeyOf[t.pod]].packages

EntriesInv == \A k \in DOMAIN pods : /\ pods[k].pod \in Pods /\ KeyOf[pods[k].pod] = k
                                     /\ pods[k].rev \in Revisions(pods[k].pod)

HandlerInv == EntriesInv /\ \A w \in Workers : task[w] # None => Fits(task[w])

(* A step that leaves the map alone. *)
LEMMA MapStays ==
    ASSUME HandlerInv, BaseInv, NEW w \in Workers, NEW t,
           t # None => t.op = task[w].op /\ t.pod = task[w].pod /\ task[w] # None,
           t # None /\ t.pc = "update" => t.packages = PackagesAt(KeyOf[t.pod]),
           task' = [task EXCEPT ![w] = t], UNCHANGED pods
    PROVE  HandlerInv'
<1>1. task'[w] = t /\ \A v \in Workers : v # w => task'[v] = task[v]
  BY DEF BaseInv, TypeOK
<1>2. EntriesInv'
  BY DEF HandlerInv, EntriesInv
<1>3. ASSUME NEW v \in Workers, task'[v] # None PROVE Fits(task[v])'
  BY <1>1, <1>3 DEF HandlerInv, Fits, PackagesAt
<1> QED
  BY <1>2, <1>3 DEF HandlerInv

OtherEntriesStay(k) == \A j \in DOMAIN pods \cup DOMAIN pods' :
    j # k => j \in DOMAIN pods /\ j \in DOMAIN pods' /\ pods'[j] = pods[j]

(* A step that changes the entry of its pod, and ends the task. *)
LEMMA MapChanges ==
    ASSUME KeysDiffer, HandlerInv, BaseInv, NEW w \in Workers, task[w] # None, Done(w),
           OtherEntriesStay(MyKey(w)),
           EntriesInv'
    PROVE  HandlerInv'
<1>1. task'[w] = None /\ \A v \in Workers : v # w => task'[v] = task[v]
  BY DEF BaseInv, TypeOK, Done
<1>2. ASSUME NEW v \in Workers, task'[v] # None PROVE Fits(task[v])'
  <2>1. v # w /\ task'[v] = task[v] /\ task[v] # None
    BY <1>1, <1>2
  <2>2. task[v].pod \in Pods /\ task[w].pod \in Pods /\ task[v].pod # task[w].pod
    BY <2>1, TaskIs
  <2>3. KeyOf[task[v].pod] \in Keys /\ KeyOf[task[v].pod] # MyKey(w)
    BY <2>2, ProviderAssumption DEF KeysDiffer, MyKey
  <2>4. Fits(task[v])
    BY <2>1 DEF HandlerInv
  <2> QED
    BY <2>1, <2>3, <2>4 DEF Fits, OtherEntriesStay
<1> QED
  BY <1>2 DEF HandlerInv

(* What a handler's step does to its task and to the map. *)
Writes(w) == /\ \/ task[w].op = "CreatePod" /\ task[w].pc \in {"adapter", "list"}
                   /\ told' = [told EXCEPT ![task[w].pod] = "Running"]
                \/ task[w].op = "UpdatePod" /\ task[w].pc = "update" /\ Reports(task[w].pod)
             /\ Store(MyKey(w), [pod |-> task[w].pod, rev |-> task[w].rev,
                                 packages |-> task[w].packages])
Drops(w) == /\ task[w].op = "DeletePod" /\ task[w].pc = "remove"
            /\ pods' = [k \in DOMAIN pods \ {MyKey(w)} |-> pods[k]]
            /\ told' = [told EXCEPT ![task[w].pod] = "Succeeded"]

LEMMA StepIs ==
    ASSUME BaseInv, NEW w \in Workers, Step(w)
    PROVE  /\ task[w] # None
           /\ \/ UNCHANGED <<pods, told>> /\ \E t :
                    /\ task' = [task EXCEPT ![w] = t]
                    /\ t # None => t.op = task[w].op /\ t.pod = task[w].pod /\ t.rev = task[w].rev
                    /\ t # None /\ t.pc = "update" => t.packages = PackagesAt(KeyOf[t.pod])
              \/ Done(w) /\ Writes(w)
              \/ Done(w) /\ Drops(w)
<1> DEFINE Stays(t) == /\ UNCHANGED <<pods, told>>
                       /\ task' = [task EXCEPT ![w] = t]
                       /\ t # None => t.op = task[w].op /\ t.pod = task[w].pod /\ t.rev = task[w].rev
                       /\ t # None /\ t.pc = "update" => t.packages = PackagesAt(KeyOf[t.pod])
<1>1. task[w] # None
  BY DEF Step, CreateLock, Container, Deployed, Adapter, AdapterWatch, AdapterList, UpdateRead,
         UpdateWrite, DeleteCheck, DeleteLock, DeleteDone, CallRemovePackage, Removed,
         CreateFailed, At
<1>2. task[w] \in Tasks
  BY <1>1, TaskIs
<1>3. ASSUME NEW pc, pc # "update", Goto(w, pc), UNCHANGED <<pods, told>> PROVE \E t : Stays(t)
  <2> DEFINE t == [task[w] EXCEPT !.pc = pc]
  <2>1. t.op = task[w].op /\ t.pod = task[w].pod /\ t.rev = task[w].rev /\ t.pc = pc
    BY <1>2 DEF Tasks
  <2>2. Stays(t)
    BY <1>3, <2>1 DEF Goto
  <2> QED
    BY <2>2
<1>4. ASSUME NEW pc, NEW packages, pc = "update" => packages = PackagesAt(MyKey(w)),
             task' = [task EXCEPT ![w] = [task[w] EXCEPT !.pc = pc, !.packages = packages]],
             UNCHANGED <<pods, told>>
      PROVE  \E t : Stays(t)
  <2> DEFINE t == [task[w] EXCEPT !.pc = pc, !.packages = packages]
  <2>1. t.op = task[w].op /\ t.pod = task[w].pod /\ t.rev = task[w].rev /\ t.pc = pc
        /\ t.packages = packages
    BY <1>2 DEF Tasks
  <2>2. Stays(t)
    BY <1>4, <2>1 DEF MyKey
  <2> QED
    BY <2>2
<1>5. ASSUME Done(w), UNCHANGED <<pods, told>> PROVE \E t : Stays(t)
  <2>1. Stays(None)
    BY <1>5 DEF Done
  <2> QED
    BY <2>1
<1> HIDE DEF Stays
<1>6. CASE CreateLock(w) \/ Container(w) \/ AdapterWatch(w) \/ CallRemovePackage(w)
  <2>1. \E pc \in {"container", "adapter", "remove", "deploying", "list", "removing"} :
            Goto(w, pc) /\ UNCHANGED <<pods, told>>
    BY <1>6 DEF CreateLock, Container, AdapterWatch, CallRemovePackage, GoOn, kubeVars
  <2> QED
    BY <1>1, <1>3, <2>1 DEF Stays
<1>7. CASE Deployed(w) \/ Removed(w) \/ UpdateRead(w) \/ DeleteLock(w)
  <2>1. \/ \E pc \in {"remove"} : Goto(w, pc) /\ UNCHANGED <<pods, told>>
        \/ \E pc \in {"container", "remove", "update"} : \E packages :
              /\ pc = "update" => packages = PackagesAt(MyKey(w))
              /\ task' = [task EXCEPT ![w] = [task[w] EXCEPT !.pc = pc, !.packages = packages]]
              /\ UNCHANGED <<pods, told>>
    BY <1>7 DEF Deployed, Keeps, Removed, UpdateRead, DeleteLock, kubeVars
  <2> QED
    BY <1>1, <1>3, <1>4, <2>1 DEF Stays
<1>8. CASE DeleteCheck(w) \/ CreateFailed(w)
  <2>1. Goto(w, "lock") \/ Done(w)
    BY <1>8 DEF DeleteCheck, CreateFailed
  <2>2. UNCHANGED <<pods, told>>
    BY <1>8 DEF DeleteCheck, CreateFailed, kubeVars
  <2> QED
    BY <1>1, <1>3, <1>5, <2>1, <2>2 DEF Stays
<1>9. CASE Adapter(w) \/ AdapterList(w)
  <2>1. task[w].op = "CreatePod" /\ task[w].pc \in {"adapter", "list"}
    BY <1>9 DEF Adapter, AdapterList, At
  <2>2. CASE Created(w)
    BY <1>1, <2>1, <2>2 DEF Created, Writes
  <2>3. CASE \E pc \in {"watch", "remove"} : GoOn(w, pc)
    <3>1. \E pc \in {"watch", "remove"} : Goto(w, pc) /\ UNCHANGED <<pods, told>>
      BY <2>3 DEF GoOn
    <3> QED
      BY <1>1, <1>3, <3>1 DEF Stays
  <2> QED
    BY <1>9, <2>2, <2>3 DEF Adapter, AdapterList
<1>10. CASE UpdateWrite(w)
  BY <1>1, <1>10 DEF UpdateWrite, Writes, At, kubeVars
<1>11. CASE DeleteDone(w)
  BY <1>1, <1>11 DEF DeleteDone, Drops, At
<1> QED
  BY <1>6, <1>7, <1>8, <1>9, <1>10, <1>11 DEF Step

(* Every step is one of Virtual Kubelet's, of a handler, of something else    *)
(* that leaves tasks and map alone, or a crash.                               *)
LEMMA NextIs ==
    ASSUME [Next]_vars
    PROVE  \/ \E w \in Workers : \E p \in Pods : Sync(w, p)
           \/ \E w \in Workers : Step(w)
           \/ UNCHANGED <<pods, task, told>>
           \/ Crash
  BY DEF Next, KubernetesWants, ScrapeNext, ScrapeLock, ScrapeUnlock, ScrapePanics, Answer, NoAnswer,
         LateEffect, kubeVars, vars

(* What Virtual Kubelet starts. *)
LEMMA SyncIs ==
    ASSUME BaseInv, NEW w \in Workers, NEW p \in Pods, Sync(w, p)
    PROVE  /\ task[w] = None /\ task'[w] # None
           /\ \A v \in Workers : v # w => task'[v] = task[v] /\ (task[v] # None => task[v].pod # p)
           /\ task'[w].pod = p /\ task'[w].packages = <<>> /\ task'[w].pc \in {"lock", "check"}
           /\ task'[w].op \in {"CreatePod", "UpdatePod", "DeletePod"}
           /\ task'[w].op = "CreatePod" => KeyOf[p] \notin DOMAIN pods
           /\ task'[w].op = "UpdatePod" => KeyOf[p] \in DOMAIN pods
           /\ UNCHANGED <<pods, told, mutex>> /\ UNCHANGED psVars
<1>1. PICK op \in {"CreatePod", "UpdatePod", "DeletePod"}, pc \in {"lock", "check"} :
        /\ Start(w, op, pc, p)
        /\ op = "CreatePod" => KeyOf[p] \notin DOMAIN pods
        /\ op = "UpdatePod" => KeyOf[p] \in DOMAIN pods
  BY DEF Sync
<1> DEFINE t == [op |-> op, pc |-> pc, pod |-> p, rev |-> want[p], packages |-> <<>>]
<1>2. task' = [task EXCEPT ![w] = t]
  BY <1>1 DEF Start
<1>3. task'[w] = t /\ \A v \in Workers : v # w => task'[v] = task[v]
  BY <1>2 DEF BaseInv, TypeOK
<1>4. /\ task[w] = None /\ \A v \in Workers : task[v] # None => task[v].pod # p
      /\ UNCHANGED <<pods, told, mutex>> /\ UNCHANGED psVars
  BY DEF Sync, kubeVars
<1>5. t \in Tasks
  <2>1. want[p] \in Nat
    BY ImagesOf DEF BaseInv, TypeOK
  <2> QED
    BY <2>1 DEF Tasks, Pcs
<1>6. t # None
  BY <1>5, NoneIsNoTask
<1> QED
  BY <1>1, <1>3, <1>4, <1>6

LEMMA HandlerStep ==
    ASSUME KeysDiffer, BaseInv, HandlerInv, [Next]_vars
    PROVE  HandlerInv'
<1>1. ASSUME NEW w \in Workers, NEW p \in Pods, Sync(w, p) PROVE HandlerInv'
  <2>1. ASSUME NEW v \in Workers, task'[v] # None PROVE Fits(task[v])'
    BY <1>1, <2>1, SyncIs DEF HandlerInv, Fits
  <2>2. EntriesInv'
    BY <1>1, SyncIs DEF HandlerInv, EntriesInv
  <2> QED
    BY <2>1, <2>2 DEF HandlerInv
<1>2. ASSUME NEW w \in Workers, Step(w) PROVE HandlerInv'
  <2>1. task[w] # None /\ GoodTask(task[w]) /\ task[w].pod \in Pods /\ task[w] \in Tasks
    BY <1>2, StepIs, TaskIs
  <2>2. CASE UNCHANGED <<pods, told>> /\ \E t :
                /\ task' = [task EXCEPT ![w] = t]
                /\ t # None => t.op = task[w].op /\ t.pod = task[w].pod /\ t.rev = task[w].rev
                /\ t # None /\ t.pc = "update" => t.packages = PackagesAt(KeyOf[t.pod])
    BY <2>1, <2>2, MapStays
  <2>3. CASE Done(w) /\ Writes(w)
    <3>1. /\ DOMAIN pods' = DOMAIN pods \cup {MyKey(w)}
          /\ \A k \in DOMAIN pods' : k # MyKey(w) => pods'[k] = pods[k]
          /\ pods'[MyKey(w)].pod = task[w].pod /\ pods'[MyKey(w)].rev = task[w].rev
      BY <2>3 DEF Writes, Store
    <3>2. OtherEntriesStay(MyKey(w))
      BY <3>1 DEF OtherEntriesStay
    <3>3. task[w].rev \in Revisions(task[w].pod)
      BY <2>1, <2>3 DEF Writes, GoodTask
    <3>4. EntriesInv'
      <4>1. ASSUME NEW k \in DOMAIN pods'
            PROVE  /\ pods'[k].pod \in Pods /\ KeyOf[pods'[k].pod] = k
                   /\ pods'[k].rev \in Revisions(pods'[k].pod)
        <5>1. CASE k = MyKey(w)
          <6>1. pods'[k].pod = task[w].pod /\ pods'[k].rev = task[w].rev
            BY <3>1, <5>1
          <6>2. KeyOf[task[w].pod] = k
            BY <5>1 DEF MyKey
          <6> QED
            BY <2>1, <3>3, <6>1, <6>2
        <5>2. CASE k # MyKey(w)
          BY <3>1, <5>2 DEF HandlerInv, EntriesInv
        <5> QED
          BY <5>1, <5>2
      <4> QED
        BY <4>1 DEF EntriesInv, Revisions
    <3> QED
      BY <2>1, <2>3, <3>2, <3>4, MapChanges
  <2>4. CASE Done(w) /\ Drops(w)
    <3>1. DOMAIN pods' = DOMAIN pods \ {MyKey(w)} /\ \A k \in DOMAIN pods' : pods'[k] = pods[k]
      BY <2>4 DEF Drops
    <3>2. OtherEntriesStay(MyKey(w))
      BY <3>1 DEF OtherEntriesStay
    <3>3. EntriesInv'
      BY <3>1 DEF HandlerInv, EntriesInv
    <3> QED
      BY <2>1, <2>4, <3>2, <3>3, MapChanges
  <2> QED
    BY <1>2, <2>2, <2>3, <2>4, StepIs
<1>3. CASE UNCHANGED <<pods, task, told>>
  BY <1>3 DEF HandlerInv, EntriesInv, Fits
<1>4. CASE Crash
  BY <1>4 DEF Crash, HandlerInv, EntriesInv
<1> QED
  BY <1>1, <1>2, <1>3, <1>4, NextIs

LEMMA InitHandler == Init => HandlerInv
  BY DEF Init, HandlerInv, EntriesInv

(* When the keys differ, GetPod returns the pod it was asked for: the finding *)
(* of ProviderSameKey.cfg has no other cause.                                 *)
THEOREM GetPodIsByName == ASSUME KeysDiffer PROVE Spec => []GetPodByName
<1>1. HandlerInv => GetPodByName
  BY DEF HandlerInv, EntriesInv, KeysDiffer, GetPodByName
<1>2. BaseInv /\ HandlerInv /\ [Next]_vars => HandlerInv'
  BY HandlerStep
<1> QED
  BY <1>1, <1>2, InitHandler, BaseHolds, PTL DEF Spec

-----------------------------------------------------------------------------
(* What the notifier is told. *)

(* Kubernetes lets a pod's containers be changed, but none added or removed.  *)
SameNumber == \A p \in Pods : \A r, s \in Revisions(p) :
                  Len(Containers[p][r]) = Len(Containers[p][s])

Number(p) == Len(Containers[p][1])

(* How many packages a task of CreatePod has. *)
Counts(t) == /\ t.pc \in {"lock", "container", "deploying"} => Len(t.packages) <= Number(t.pod)
             /\ t.pc \in {"adapter", "watch", "list"} => Len(t.packages) = Number(t.pod)

ToldInv == /\ \A w \in Workers : task[w] # None /\ task[w].op = "CreatePod" => Counts(task[w])
           /\ \A k \in DOMAIN pods : Len(pods[k].packages) = Number(pods[k].pod)
           /\ \A p \in Pods : /\ told[p] \in ApiPhases => KeyOf[p] \in DOMAIN pods
                              /\ told[p] = "Succeeded" => KeyOf[p] \notin DOMAIN pods

LEMMA NumberIs ==
    ASSUME SameNumber, NEW p \in Pods, NEW r \in Revisions(p)
    PROVE  Len(Containers[p][r]) = Number(p) /\ Number(p) \in Nat
<1>1. Containers[p] \in Seq(Seq(Images))
  BY ProviderAssumption
<1>2. DOMAIN Containers[p] = 1..Len(Containers[p]) /\ Len(Containers[p]) \in Nat
  BY <1>1, LenProperties
<1>3. r \in 1..Len(Containers[p]) /\ 1 \in Revisions(p)
  BY <1>2 DEF Revisions
<1>4. Containers[p][r] \in Seq(Images)
  BY ImagesOf
<1> QED
  BY <1>3, <1>4, LenProperties DEF SameNumber, Number

(* CreatePod's loop ends when every container has a package. *)
LEMMA CountsKeep ==
    ASSUME SameNumber, BaseInv, NEW w \in Workers, Step(w), task[w] # None, task[w].op = "CreatePod",
           Counts(task[w]), task'[w] # None
    PROVE  Counts(task[w])'
<1>1. /\ task[w] \in Tasks /\ task[w].pod \in Pods /\ task[w].rev \in Revisions(task[w].pod)
      /\ task[w].packages \in Seq(Packages) /\ Len(task[w].packages) \in Nat
      /\ Len(MyImages(w)) = Number(task[w].pod) /\ Number(task[w].pod) \in Nat
  <2>1. /\ task[w] \in Tasks /\ task[w].pod \in Pods /\ task[w].rev \in Revisions(task[w].pod)
        /\ task[w].packages \in Seq(Packages)
    BY TaskIs DEF GoodTask
  <2> QED
    BY <2>1, NumberIs, LenProperties DEF MyImages
<1>2. \/ CreateLock(w) \/ Container(w) \/ Deployed(w) \/ Adapter(w) \/ AdapterWatch(w)
      \/ AdapterList(w) \/ CallRemovePackage(w) \/ Removed(w) \/ CreateFailed(w)
  BY DEF Step, UpdateRead, UpdateWrite, DeleteCheck, DeleteLock, DeleteDone, At
<1>3. ASSUME NEW pc, Goto(w, pc)
      PROVE  task'[w].pc = pc /\ task'[w].packages = task[w].packages
             /\ task'[w].pod = task[w].pod
  <2>1. task'[w] = [task[w] EXCEPT !.pc = pc]
    BY <1>3 DEF Goto, BaseInv, TypeOK
  <2> QED
    BY <1>1, <2>1 DEF Tasks
<1>4. Done(w) => task'[w] = None
  BY DEF Done, BaseInv, TypeOK
<1>5. CASE CreateLock(w)
  <2>1. Goto(w, "container") /\ task[w].pc = "lock"
    BY <1>5 DEF CreateLock, At
  <2> QED
    BY <1>3, <2>1 DEF Counts
<1>6. CASE Container(w)
  <2>1. CASE Goto(w, "adapter") /\ Len(task[w].packages) + 1 > Len(MyImages(w))
    <3>1. Len(task[w].packages) = Number(task[w].pod)
      BY <1>1, <1>6, <2>1 DEF Counts, Container, At
    <3> QED
      BY <1>3, <2>1, <3>1 DEF Counts
  <2>2. CASE Goto(w, "remove")
    BY <1>3, <2>2 DEF Counts
  <2>3. CASE Goto(w, "deploying")
    BY <1>3, <1>6, <2>3 DEF Counts, Container, At
  <2> QED
    BY <1>6, <2>1, <2>2, <2>3 DEF Container
<1>7. CASE Deployed(w)
  <2>1. task[w].pc = "deploying"
    BY <1>7 DEF Deployed, At
  <2>2. CASE Goto(w, "remove")
    BY <1>3, <2>2 DEF Counts
  <2>3. CASE Keeps(w, [id |-> call.id, image |-> call.image])
    <3> DEFINE packages == Append(task[w].packages, [id |-> call.id, image |-> call.image])
    <3>1. task'[w] = [task[w] EXCEPT !.pc = "container", !.packages = packages]
      BY <2>3 DEF Keeps, BaseInv, TypeOK
    <3>2. task'[w].pc = "container" /\ task'[w].packages = packages /\ task'[w].pod = task[w].pod
      BY <1>1, <3>1 DEF Tasks
    <3>3. Len(packages) = Len(task[w].packages) + 1
      BY <1>1, <2>1, PackageOf, AppendProperties
    <3>4. Len(packages) <= Number(task[w].pod)
      BY <1>1, <2>1, <3>3, PackageOf
    <3> QED
      BY <3>2, <3>4 DEF Counts
  <2> QED
    BY <1>7, <2>2, <2>3 DEF Deployed
<1>8. CASE Adapter(w) \/ AdapterWatch(w) \/ AdapterList(w)
  <2>1. task[w].pc \in {"adapter", "watch", "list"}
        /\ \E pc \in {"watch", "list", "remove"} : Goto(w, pc)
    BY <1>4, <1>8 DEF Adapter, AdapterWatch, AdapterList, At, GoOn, Created
  <2> QED
    BY <1>3, <2>1 DEF Counts
<1>9. CASE CallRemovePackage(w)
  BY <1>3, <1>9 DEF CallRemovePackage, Counts
<1>10. CASE Removed(w)
  <2>1. task'[w] = [task[w] EXCEPT !.pc = "remove", !.packages = Tail(task[w].packages)]
    BY <1>10 DEF Removed, BaseInv, TypeOK
  <2>2. task'[w].pc = "remove"
    BY <1>1, <2>1 DEF Tasks
  <2> QED
    BY <2>2 DEF Counts
<1>11. CASE CreateFailed(w)
  BY <1>4, <1>11 DEF CreateFailed
<1> QED
  BY <1>2, <1>5, <1>6, <1>7, <1>8, <1>9, <1>10, <1>11

LEMMA ToldStep ==
    ASSUME KeysDiffer, SameNumber, BaseInv, HandlerInv, ToldInv, [Next]_vars
    PROVE  ToldInv'
<1>1. ASSUME NEW w \in Workers, NEW p \in Pods, Sync(w, p) PROVE ToldInv'
  <2>1. Number(p) >= 0 \/ task'[w].op # "CreatePod"
    <3>1. BaseInv'
      BY StepBase
    <3>2. task'[w].op = "CreatePod" => task'[w].rev \in Revisions(p)
      BY <1>1, <3>1, SyncIs DEF BaseInv, TasksInv, GoodTask, Revisions
    <3> QED
      BY <3>2, NumberIs
  <2>2. task'[w].op = "CreatePod" => Counts(task[w])'
    <3>1. Len(<<>>) = 0
      OBVIOUS
    <3> QED
      BY <1>1, <2>1, <3>1, SyncIs DEF Counts, Number
  <2>3. \A v \in Workers : v # w /\ task'[v] # None /\ task'[v].op = "CreatePod" => Counts(task[v])'
    BY <1>1, SyncIs DEF ToldInv, Counts, Number
  <2> QED
    BY <1>1, <2>2, <2>3, SyncIs DEF ToldInv, Number
<1>2. ASSUME NEW w \in Workers, Step(w) PROVE ToldInv'
  <2>1. task[w] # None /\ GoodTask(task[w]) /\ task[w].pod \in Pods /\ task[w] \in Tasks
    BY <1>2, StepIs, TaskIs
  <2>2. Done(w) => task'[w] = None
    BY DEF Done, BaseInv, TypeOK
  <2>3. \A v \in Workers : task'[v] # None /\ task'[v].op = "CreatePod" => Counts(task[v])'
    <3>1. TAKE v \in Workers
    <3>2. \A u \in Workers : u # w => task'[u] = task[u]
      BY <1>2, StepIs DEF Done, BaseInv, TypeOK
    <3>3. task'[w] # None => task'[w].op = task[w].op
      BY <1>2, <2>2, StepIs DEF BaseInv, TypeOK
    <3>4. CASE v = w
      BY <1>2, <2>1, <3>3, <3>4, CountsKeep DEF ToldInv
    <3>5. CASE v # w
      BY <3>2, <3>5 DEF ToldInv, Counts, Number
    <3> QED
      BY <3>4, <3>5
  <2>4. told \in [Pods -> Phases \cup {None}]
        /\ \A p \in Pods : p # task[w].pod => KeyOf[p] # MyKey(w)
    BY <2>1 DEF BaseInv, TypeOK, KeysDiffer, MyKey
  <2>5. CASE UNCHANGED <<pods, told>>
    BY <2>3, <2>5 DEF ToldInv, Number
  <2>6. CASE Done(w) /\ Writes(w)
    <3>1. /\ DOMAIN pods' = DOMAIN pods \cup {MyKey(w)}
          /\ \A k \in DOMAIN pods' : k # MyKey(w) => pods'[k] = pods[k]
          /\ pods'[MyKey(w)].pod = task[w].pod /\ pods'[MyKey(w)].packages = task[w].packages
      BY <2>6 DEF Writes, Store
    <3>2. Len(task[w].packages) = Number(task[w].pod)
      <4>1. CASE task[w].op = "CreatePod"
        BY <2>1, <2>6, <4>1 DEF Writes, ToldInv, Counts
      <4>2. CASE task[w].op = "UpdatePod" /\ task[w].pc = "update"
        <5>1. MyKey(w) \in DOMAIN pods /\ task[w].packages = pods[MyKey(w)].packages
          BY <2>1, <4>2 DEF HandlerInv, Fits, MyKey
        <5>2. pods[MyKey(w)].pod = task[w].pod
          BY <2>1, <5>1 DEF HandlerInv, EntriesInv, KeysDiffer, MyKey
        <5> QED
          BY <5>1, <5>2 DEF ToldInv
      <4> QED
        BY <2>6, <4>1, <4>2 DEF Writes
    <3>3. \A k \in DOMAIN pods' : Len(pods'[k].packages) = Number(pods'[k].pod)
      BY <3>1, <3>2 DEF ToldInv
    <3>4. \A p \in Pods : /\ told'[p] \in ApiPhases => KeyOf[p] \in DOMAIN pods'
                          /\ told'[p] = "Succeeded" => KeyOf[p] \notin DOMAIN pods'
      <4>1. TAKE p \in Pods
      <4>2. CASE p # task[w].pod
        <5>1. told'[p] = told[p]
          BY <2>4, <2>6, <4>2 DEF Writes, Reports
        <5> QED
          BY <2>4, <3>1, <4>2, <5>1 DEF ToldInv
      <4>3. CASE p = task[w].pod
        <5>1. KeyOf[p] \in DOMAIN pods'
          BY <3>1, <4>3 DEF MyKey
        <5>2. told'[p] # "Succeeded"
          <6>1. CASE told' = [told EXCEPT ![task[w].pod] = "Running"]
            BY <2>4, <4>3, <6>1
          <6>2. CASE Reports(task[w].pod)
            BY <2>4, <4>3, <6>2 DEF Reports, ApiPhases
          <6> QED
            BY <2>6, <6>1, <6>2 DEF Writes
        <5> QED
          BY <5>1, <5>2
      <4> QED
        BY <4>2, <4>3
    <3> QED
      BY <2>3, <3>3, <3>4 DEF ToldInv, Number
  <2>7. CASE Done(w) /\ Drops(w)
    <3>1. /\ DOMAIN pods' = DOMAIN pods \ {MyKey(w)} /\ \A k \in DOMAIN pods' : pods'[k] = pods[k]
          /\ told' = [told EXCEPT ![task[w].pod] = "Succeeded"]
      BY <2>7 DEF Drops
    <3>2. \A p \in Pods : /\ told'[p] \in ApiPhases => KeyOf[p] \in DOMAIN pods'
                          /\ told'[p] = "Succeeded" => KeyOf[p] \notin DOMAIN pods'
      <4>1. TAKE p \in Pods
      <4>2. CASE p # task[w].pod
        BY <2>4, <3>1, <4>2 DEF ToldInv
      <4>3. CASE p = task[w].pod
        <5>1. told'[p] = "Succeeded" /\ KeyOf[p] \notin DOMAIN pods'
          BY <2>4, <3>1, <4>3 DEF MyKey
        <5> QED
          BY <5>1 DEF ApiPhases
      <4> QED
        BY <4>2, <4>3
    <3> QED
      BY <2>3, <3>1, <3>2 DEF ToldInv, Number
  <2> QED
    BY <1>2, <2>5, <2>6, <2>7, StepIs
<1>3. CASE UNCHANGED <<pods, task, told>>
  BY <1>3 DEF ToldInv, Counts, Number
<1>4. CASE Crash
  <2>1. \A p \in Pods : told'[p] = None
    BY <1>4 DEF Crash
  <2>2. \A w \in Workers : task'[w] = None
    BY <1>4 DEF Crash
  <2>3. DOMAIN pods' = {}
    BY <1>4 DEF Crash
  <2> QED
    BY <2>1, <2>2, <2>3, NoneIsNoTask DEF ToldInv, Phases
<1> QED
  BY <1>1, <1>2, <1>3, <1>4, NextIs

LEMMA InitTold == Init => ToldInv
  BY NoneIsNoTask DEF Init, ToldInv, Phases

(* When keys differ and updates keep the number of containers, what the       *)
(* notifier was told last is so, by any of the three handlers: a pod reported *)
(* Running or Pending is in the map with a package for each of its            *)
(* containers, one reported Succeeded is not in it.                           *)
THEOREM NotifierIsRight == ASSUME KeysDiffer, SameNumber PROVE Spec => []ToldIsTrue
<1>1. ASSUME HandlerInv, ToldInv PROVE ToldIsTrue
  <2>1. ASSUME NEW p \in Pods, KeyOf[p] \in DOMAIN pods
        PROVE  /\ pods[KeyOf[p]].pod = p
               /\ Len(pods[KeyOf[p]].packages) = Len(Containers[p][pods[KeyOf[p]].rev])
    <3>1. pods[KeyOf[p]].pod = p /\ pods[KeyOf[p]].rev \in Revisions(p)
      BY <1>1, <2>1 DEF HandlerInv, EntriesInv, KeysDiffer
    <3> QED
      BY <1>1, <2>1, <3>1, NumberIs DEF ToldInv
  <2> QED
    BY <1>1, <2>1 DEF ToldInv, ToldIsTrue
<1>2. BaseInv /\ HandlerInv /\ [Next]_vars => HandlerInv'
  BY HandlerStep
<1>3. BaseInv /\ HandlerInv /\ ToldInv /\ [Next]_vars => ToldInv'
  BY ToldStep
<1> QED
  BY <1>1, <1>2, <1>3, InitHandler, InitTold, BaseHolds, PTL DEF Spec

-----------------------------------------------------------------------------
(* 3. The packages the kubelet counts on. *)

(* Without it two containers of one pod get one image (ProviderSameImage.cfg). *)
ImagesDiffer == \A p \in Pods : \A r \in Revisions(p) : \A i, j \in DOMAIN Containers[p][r] :
                    i # j => Containers[p][r][i] # Containers[p][r][j]

-----------------------------------------------------------------------------
(* The packages of the pods in the map that DeletePod does not work on, and   *)
(* those that CreatePod has deployed.                                         *)

Kept == {k \in DOMAIN pods : ~Deleting(k)}
KeptPackages == UNION {Range(pods[k].packages) : k \in Kept}
BuiltPackages == UNION {Range(task[w].packages) : w \in {v \in Workers : Building(v)}}

Good(o) == o.id \in inUse \ doubt /\ device[o.id] = o.image
Apart(o, q) == o.id # q.id /\ o.image # q.image

AllGood == \A o \in KeptPackages \cup BuiltPackages : Good(o)

KeptApart == \A k, j \in Kept :
    \A i \in DOMAIN pods[k].packages, l \in DOMAIN pods[j].packages :
        k # j \/ i # l => Apart(pods[k].packages[i], pods[j].packages[l])

BuiltApart == \A w \in Workers : Building(w) =>
    /\ DOMAIN task[w].packages \subseteq DOMAIN MyImages(w)
    /\ \A i \in DOMAIN task[w].packages : task[w].packages[i].image = MyImages(w)[i]
    /\ \A i, l \in DOMAIN task[w].packages :
          i # l => task[w].packages[i].id # task[w].packages[l].id

(* The roll-back and DeletePod remove nobody else's packages. *)
RemovedApart == \A w \in Workers : task[w] # None =>
    /\ task[w].pc \in {"remove", "removing"} =>
          \A o \in Range(task[w].packages) : \A q \in KeptPackages : o.id # q.id
    /\ task[w].pc = "deploying" => \A q \in KeptPackages : q.image # call.image
    /\ task[w].pc \in {"lock", "check"} => task[w].packages = <<>>

CallApart == call # None =>
    /\ \A o \in KeptPackages \cup BuiltPackages : o.id # call.id
    /\ call.op = "DeployPackage" /\ call.status = "ok" => Good(call)

OwnedInv == /\ AllGood /\ KeptApart /\ BuiltApart /\ RemovedApart /\ CallApart
            /\ \A o \in BuiltPackages, q \in KeptPackages : Apart(o, q)

LEMMA InitOwned == Init => OwnedInv
<1> SUFFICES ASSUME Init PROVE OwnedInv
  OBVIOUS
<1>1. DOMAIN pods = {} /\ (\A w \in Workers : task[w] = None) /\ call = None
  BY DEF Init, PSInit
<1>2. Kept = {} /\ KeptPackages = {} /\ BuiltPackages = {} /\ \A w \in Workers : ~Building(w)
  BY <1>1 DEF Kept, KeptPackages, BuiltPackages, Building, At
<1> QED
  BY <1>1, <1>2 DEF OwnedInv, AllGood, KeptApart, BuiltApart, RemovedApart, CallApart

(* The packages a CreatePod has deployed differ. *)
LEMMA BuiltDiffer ==
    ASSUME ImagesDiffer, BaseInv, OwnedInv, NEW w \in Workers, Building(w),
           NEW i \in DOMAIN task[w].packages, NEW l \in DOMAIN task[w].packages, i # l
    PROVE  Apart(task[w].packages[i], task[w].packages[l])
<1>1. /\ task[w] # None /\ task[w].pod \in Pods /\ task[w].rev \in Revisions(task[w].pod)
      /\ task[w].packages \in Seq(Packages)
  BY TaskIs DEF Building, At, GoodTask
<1>2. DOMAIN task[w].packages \subseteq DOMAIN MyImages(w)
  BY DEF OwnedInv, BuiltApart
<1> QED
  BY <1>1, <1>2 DEF OwnedInv, BuiltApart, Apart, ImagesDiffer, MyImages

(* OwnedActive and OwnedOnce follow. *)
LEMMA OwnedFollows ==
    ASSUME ImagesDiffer, BaseInv, OwnedInv PROVE OwnedActive /\ OwnedOnce
<1>1. ASSUME NEW o \in Owned
      PROVE  \/ \E k \in Kept : \E i \in DOMAIN pods[k].packages : o = <<k, i, pods[k].packages[i]>>
             \/ \E w \in Workers : Building(w) /\ \E i \in DOMAIN task[w].packages :
                    o = <<w, i, task[w].packages[i]>>
  BY DEF Owned, Kept
<1>2. /\ \A k \in Kept : \A i \in DOMAIN pods[k].packages : pods[k].packages[i] \in KeptPackages
      /\ \A w \in Workers : Building(w) => \A i \in DOMAIN task[w].packages :
            task[w].packages[i] \in BuiltPackages
  BY DEF KeptPackages, BuiltPackages, Range
<1>3. OwnedActive
  <2>1. ASSUME NEW o \in Owned PROVE o[3] \in KeptPackages \cup BuiltPackages
    BY <1>1, <1>2
  <2> QED
    BY <2>1 DEF OwnedActive, OwnedInv, AllGood, Good
<1>4. \A v, w \in Workers : Building(v) /\ Building(w) => v = w
  BY DEF Building, At, BaseInv, MutexInv, Locked
<1>5. ASSUME NEW w \in Workers, Building(w), NEW i \in DOMAIN task[w].packages,
             NEW l \in DOMAIN task[w].packages, i # l
      PROVE  Apart(task[w].packages[i], task[w].packages[l])
  BY <1>5, BuiltDiffer
<1>6. ASSUME NEW o \in Owned, NEW q \in Owned, o # q PROVE Apart(o[3], q[3])
  <2>1. CASE \E k \in Kept : \E i \in DOMAIN pods[k].packages : o = <<k, i, pods[k].packages[i]>>
    <3>1. PICK k \in Kept : \E i \in DOMAIN pods[k].packages : o = <<k, i, pods[k].packages[i]>>
      BY <2>1
    <3>2. PICK i \in DOMAIN pods[k].packages : o = <<k, i, pods[k].packages[i]>>
      BY <3>1
    <3>3. ASSUME NEW j \in Kept, NEW l \in DOMAIN pods[j].packages,
                 q = <<j, l, pods[j].packages[l]>>
          PROVE  Apart(o[3], q[3])
      BY <1>6, <3>2, <3>3 DEF OwnedInv, KeptApart
    <3>4. ASSUME NEW w \in Workers, Building(w), NEW l \in DOMAIN task[w].packages,
                 q = <<w, l, task[w].packages[l]>>
          PROVE  Apart(o[3], q[3])
      BY <1>2, <3>2, <3>4 DEF OwnedInv, Apart
    <3> QED
      BY <1>1, <3>3, <3>4
  <2>2. CASE \E v \in Workers : Building(v) /\ \E i \in DOMAIN task[v].packages :
                    o = <<v, i, task[v].packages[i]>>
    <3>1. PICK v \in Workers : Building(v) /\ \E i \in DOMAIN task[v].packages :
                    o = <<v, i, task[v].packages[i]>>
      BY <2>2
    <3>2. PICK i \in DOMAIN task[v].packages : o = <<v, i, task[v].packages[i]>>
      BY <3>1
    <3>3. ASSUME NEW j \in Kept, NEW l \in DOMAIN pods[j].packages,
                 q = <<j, l, pods[j].packages[l]>>
          PROVE  Apart(o[3], q[3])
      BY <1>2, <3>1, <3>2, <3>3 DEF OwnedInv, Apart
    <3>4. ASSUME NEW w \in Workers, Building(w), NEW l \in DOMAIN task[w].packages,
                 q = <<w, l, task[w].packages[l]>>
          PROVE  Apart(o[3], q[3])
      <4>1. v = w
        BY <1>4, <3>1, <3>4
      <4> QED
        BY <1>5, <1>6, <3>1, <3>2, <3>4, <4>1
    <3> QED
      BY <1>1, <3>3, <3>4
  <2> QED
    BY <1>1, <2>1, <2>2
<1>7. OwnedOnce
  BY <1>6 DEF OwnedOnce, Apart
<1> QED
  BY <1>3, <1>7

-----------------------------------------------------------------------------
(* Steps after which the kubelet counts on the same packages, or on fewer. *)

LEMMA RangeEmpty == Range(<<>>) = {}
  BY DEF Range

LEMMA Shrinks ==
    ASSUME BaseInv, BaseInv', OwnedInv, NEW w \in Workers,
           UNCHANGED <<inUse, device, doubt>>, call' \in {call, None},
           Kept' \subseteq Kept, \A k \in Kept' : pods'[k].packages = pods[k].packages,
           \A v \in Workers : v # w => task'[v] = task[v],
           Building(w)' => \/ task'[w].packages = <<>>
                           \/ /\ Building(w) /\ task'[w].packages = task[w].packages
                              /\ task'[w].pod = task[w].pod /\ task'[w].rev = task[w].rev,
           task'[w] # None =>
              /\ task'[w].pc # "deploying"
              /\ task'[w].pc \in {"lock", "check"} => task'[w].packages = <<>>
              /\ task'[w].pc \in {"remove", "removing"} =>
                    \A o \in Range(task'[w].packages) : \A q \in KeptPackages' : o.id # q.id
    PROVE  OwnedInv'
<1>1. KeptPackages' \subseteq KeptPackages
  BY DEF KeptPackages
<1>2. ASSUME NEW v \in Workers, Building(v)', task'[v].packages # <<>>
      PROVE  /\ Building(v) /\ task'[v].packages = task[v].packages
             /\ task'[v].pod = task[v].pod /\ task'[v].rev = task[v].rev
  BY <1>2 DEF Building, At
<1>3. BuiltPackages' \subseteq BuiltPackages
  BY <1>2, RangeEmpty DEF BuiltPackages
<1>4. AllGood' /\ \A o \in BuiltPackages', q \in KeptPackages' : Apart(o, q)
  BY <1>1, <1>3 DEF OwnedInv, AllGood, Good, Apart
<1>5. KeptApart'
  BY DEF OwnedInv, KeptApart, Apart
<1>6. BuiltApart'
  <2>1. SUFFICES ASSUME NEW v \in Workers, Building(v)'
                 PROVE  /\ DOMAIN task'[v].packages \subseteq DOMAIN MyImages(v)'
                        /\ \A i \in DOMAIN task'[v].packages :
                              task'[v].packages[i].image = MyImages(v)'[i]
                        /\ \A i, l \in DOMAIN task'[v].packages :
                              i # l => task'[v].packages[i].id # task'[v].packages[l].id
    BY DEF BuiltApart
  <2>2. CASE task'[v].packages = <<>>
    BY <2>2
  <2>3. CASE task'[v].packages # <<>>
    BY <1>2, <2>1, <2>3 DEF OwnedInv, BuiltApart, MyImages
  <2> QED
    BY <2>2, <2>3
<1>7. RemovedApart'
  <2>1. ASSUME NEW v \in Workers, v # w, task'[v] # None
        PROVE  /\ task'[v].pc \in {"remove", "removing"} =>
                     \A o \in Range(task'[v].packages) : \A q \in KeptPackages' : o.id # q.id
               /\ task'[v].pc = "deploying" => \A q \in KeptPackages' : q.image # call'.image
               /\ task'[v].pc \in {"lock", "check"} => task'[v].packages = <<>>
    <3>1. task'[v] = task[v] /\ task[v] # None
      BY <2>1
    <3>2. task'[v].pc = "deploying" => call' = call
      BY <2>1 DEF BaseInv, CallerInv, Deploys
    <3> QED
      BY <1>1, <3>1, <3>2 DEF OwnedInv, RemovedApart
  <2> QED
    BY <2>1 DEF RemovedApart
<1>8. CallApart'
  BY <1>1, <1>3 DEF OwnedInv, CallApart, Good
<1> QED
  BY <1>4, <1>5, <1>6, <1>7, <1>8 DEF OwnedInv, Apart

(* DeletePod's entries stay those of DeletePod. *)
LEMMA KeptIs ==
    ASSUME NEW w \in Workers, \A v \in Workers : v # w => task'[v] = task[v],
           task[w] # None /\ task[w].op = "DeletePod" /\ task[w].pc \in {"remove", "removing"} =>
              /\ task'[w] # None /\ task'[w].op = "DeletePod" /\ task'[w].pod = task[w].pod
              /\ task'[w].pc \in {"remove", "removing"},
           DOMAIN pods' \subseteq DOMAIN pods
    PROVE  Kept' \subseteq Kept
<1>1. ASSUME NEW k, Deleting(k) PROVE Deleting(k)'
  <2>1. PICK v \in Workers : \E pc \in {"remove", "removing"} :
                                 At(v, "DeletePod", pc) /\ MyKey(v) = k
    BY <1>1 DEF Deleting
  <2>2. CASE v # w
    BY <2>1, <2>2 DEF At, MyKey, Deleting
  <2>3. CASE v = w
    BY <2>1, <2>3 DEF At, MyKey, Deleting
  <2> QED
    BY <2>2, <2>3
<1> QED
  BY <1>1 DEF Kept

LEMMA TaskIsNow ==
    ASSUME BaseInv, NEW w \in Workers, NEW t, task' = [task EXCEPT ![w] = t]
    PROVE  task'[w] = t /\ \A v \in Workers : v # w => task'[v] = task[v]
  BY DEF BaseInv, TypeOK

(* A task of CreatePod or UpdatePod goes on, or ends. *)
LEMMA CreateMoves ==
    ASSUME BaseInv, BaseInv', OwnedInv, NEW w \in Workers, task[w] # None,
           task[w].op # "DeletePod",
           UNCHANGED <<pods, inUse, device, doubt>>, call' \in {call, None},
           \/ Done(w)
           \/ \E pc \in {"container", "adapter", "watch", "list", "remove"} :
                 /\ Goto(w, pc)
                 /\ Building(w) \/ (task[w].pc \in {"lock", "remove"} /\ pc # "remove")
                 /\ pc = "container" => task[w].packages = <<>>
                 /\ pc \notin {"container", "remove"} => Building(w)
    PROVE  OwnedInv'
<1>1. task[w] \in Tasks
  BY TaskIs
<1>2. Kept' \subseteq Kept /\ \A k \in Kept' : pods'[k].packages = pods[k].packages
  <2>1. \A v \in Workers : v # w => task'[v] = task[v]
    BY DEF Done, Goto, BaseInv, TypeOK
  <2> QED
    BY <2>1, KeptIs
<1>3. CASE Done(w)
  <2>1. task'[w] = None /\ \A v \in Workers : v # w => task'[v] = task[v]
    BY <1>3, TaskIsNow DEF Done
  <2>2. ~Building(w)'
    BY <2>1 DEF Building, At
  <2> QED
    BY <1>2, <2>1, <2>2, Shrinks
<1>4. ASSUME NEW pc \in {"container", "adapter", "watch", "list", "remove"}, Goto(w, pc),
             Building(w) \/ (task[w].pc \in {"lock", "remove"} /\ pc # "remove"),
             pc = "container" => task[w].packages = <<>>,
             pc \notin {"container", "remove"} => Building(w)
      PROVE  OwnedInv'
  <2>1. task'[w] = [task[w] EXCEPT !.pc = pc] /\ \A v \in Workers : v # w => task'[v] = task[v]
    BY <1>4, TaskIsNow DEF Goto
  <2>2. /\ task'[w].pc = pc /\ task'[w].packages = task[w].packages /\ task'[w].pod = task[w].pod
        /\ task'[w].rev = task[w].rev
    BY <1>1, <2>1 DEF Tasks
  <2>3. Building(w)' => \/ task'[w].packages = <<>>
                        \/ /\ Building(w) /\ task'[w].packages = task[w].packages
                           /\ task'[w].pod = task[w].pod /\ task'[w].rev = task[w].rev
    <3>1. Building(w)' => task'[w].pc # "remove"
      BY DEF Building, At
    <3> QED
      BY <1>4, <2>2, <3>1
  <2>4. pc = "remove" => \A o \in Range(task'[w].packages) : \A q \in KeptPackages' : o.id # q.id
    <3>1. KeptPackages' \subseteq KeptPackages
      BY <1>2 DEF KeptPackages
    <3>2. pc = "remove" => Range(task'[w].packages) \subseteq BuiltPackages
      BY <1>4, <2>2 DEF BuiltPackages
    <3> QED
      BY <3>1, <3>2 DEF OwnedInv, Apart
  <2> QED
    BY <1>2, <1>4, <2>1, <2>2, <2>3, <2>4, Shrinks
<1> QED
  BY <1>3, <1>4
(* The steps of CreatePod and UpdatePod that deploy, remove and write nothing. *)
LEMMA OwnedQuiet ==
    ASSUME BaseInv, BaseInv', OwnedInv, NEW w \in Workers,
           \/ CreateLock(w) \/ AdapterWatch(w) \/ CreateFailed(w)
           \/ Container(w) /\ (Goto(w, "adapter") \/ Goto(w, "remove")) /\ UNCHANGED psVars
           \/ Deployed(w) /\ call.status # "ok"
           \/ (Adapter(w) \/ AdapterList(w)) /\ ~Created(w)
    PROVE  OwnedInv'
<1>1. task[w] # None /\ task[w].op = "CreatePod"
  BY DEF CreateLock, AdapterWatch, CreateFailed, Container, Deployed, Adapter, AdapterList, At
<1>2. UNCHANGED <<pods, inUse, device, doubt>> /\ call' \in {call, None}
  BY DEF CreateLock, AdapterWatch, CreateFailed, Container, Deployed, Adapter, AdapterList,
         psVars, Collect, GoOn
<1>3. \/ Done(w)
      \/ \E pc \in {"container", "adapter", "watch", "list", "remove"} :
            /\ Goto(w, pc)
            /\ Building(w) \/ (task[w].pc \in {"lock", "remove"} /\ pc # "remove")
            /\ pc = "container" => task[w].packages = <<>>
            /\ pc \notin {"container", "remove"} => Building(w)
  <2>1. CASE CreateLock(w)
    BY <2>1 DEF CreateLock, At, OwnedInv, RemovedApart
  <2>2. CASE AdapterWatch(w)
    BY <2>2 DEF AdapterWatch, GoOn, At, Building
  <2>3. CASE CreateFailed(w)
    BY <2>3 DEF CreateFailed
  <2>4. CASE Container(w) /\ (Goto(w, "adapter") \/ Goto(w, "remove")) /\ UNCHANGED psVars
    <3>1. Building(w)
      BY <2>4 DEF Container, At, Building
    <3> QED
      BY <2>4, <3>1
  <2>5. CASE Deployed(w) /\ call.status # "ok"
    BY <2>5 DEF Deployed, At, Building
  <2>6. CASE (Adapter(w) \/ AdapterList(w)) /\ ~Created(w)
    BY <2>6 DEF Adapter, AdapterList, GoOn, At, Building
  <2> QED
    BY <2>1, <2>2, <2>3, <2>4, <2>5, <2>6
<1> QED
  BY <1>1, <1>2, <1>3, CreateMoves
(* The steps of UpdatePod. *)
LEMMA OwnedUpdate ==
    ASSUME BaseInv, BaseInv', HandlerInv, OwnedInv, NEW w \in Workers,
           UpdateRead(w) \/ UpdateWrite(w)
    PROVE  OwnedInv'
<1>1. /\ task[w] # None /\ task[w].op = "UpdatePod" /\ task[w] \in Tasks
      /\ UNCHANGED <<inUse, device, doubt, call>>
      /\ \A v \in Workers : v # w => task'[v] = task[v]
  <2>1. task[w] # None /\ task[w].op = "UpdatePod" /\ UNCHANGED <<inUse, device, doubt, call>>
    BY DEF UpdateRead, UpdateWrite, At, psVars
  <2>2. \A v \in Workers : v # w => task'[v] = task[v]
    BY DEF UpdateRead, UpdateWrite, Done, BaseInv, TypeOK
  <2> QED
    BY <2>1, <2>2, TaskIs
<1>2. CASE UpdateRead(w)
  <2>1. UNCHANGED pods
    BY <1>2 DEF UpdateRead
  <2>2. task'[w] = [task[w] EXCEPT !.pc = "update", !.packages = PackagesAt(MyKey(w))]
    BY <1>2 DEF UpdateRead, BaseInv, TypeOK
  <2>3. task'[w].pc = "update"
    BY <1>1, <2>2 DEF Tasks
  <2>4. ~Building(w)'
    BY <2>3 DEF Building, At
  <2>5. Kept' \subseteq Kept
    BY <1>1, <2>1, KeptIs
  <2> QED
    BY <1>1, <2>1, <2>3, <2>4, <2>5, Shrinks
<1>3. CASE UpdateWrite(w)
  <2>1. /\ MyKey(w) \in DOMAIN pods /\ task[w].packages = pods[MyKey(w)].packages
    BY <1>1, <1>3 DEF HandlerInv, Fits, UpdateWrite, At, MyKey
  <2>2. /\ DOMAIN pods' = DOMAIN pods
        /\ \A k \in DOMAIN pods : pods'[k].packages = pods[k].packages
    BY <1>3, <2>1 DEF UpdateWrite, Store
  <2>3. task'[w] = None
    BY <1>3 DEF UpdateWrite, Done, BaseInv, TypeOK
  <2>4. ~Building(w)'
    BY <2>3 DEF Building, At
  <2>5. Kept' \subseteq Kept
    BY <1>1, <2>2, KeptIs
  <2>6. \A k \in Kept' : pods'[k].packages = pods[k].packages
    BY <2>2 DEF Kept
  <2> QED
    BY <1>1, <2>3, <2>4, <2>5, <2>6, Shrinks
<1> QED
  BY <1>2, <1>3

(* A worker takes a pod: its task has no packages yet. *)
LEMMA OwnedSync ==
    ASSUME BaseInv, BaseInv', OwnedInv, NEW w \in Workers, NEW p \in Pods, Sync(w, p)
    PROVE  OwnedInv'
<1>1. PICK op \in {"CreatePod", "UpdatePod", "DeletePod"}, pc \in {"lock", "check"} :
        Start(w, op, pc, p)
  BY DEF Sync
<1> DEFINE t == [op |-> op, pc |-> pc, pod |-> p, rev |-> want[p], packages |-> <<>>]
<1>2. task'[w] = t /\ \A v \in Workers : v # w => task'[v] = task[v]
  BY <1>1 DEF Start, BaseInv, TypeOK
<1>3. task'[w].pc \in {"lock", "check"} /\ task'[w].packages = <<>>
  BY <1>2
<1>4. task[w] = None /\ UNCHANGED <<pods, inUse, device, doubt, call>>
  BY DEF Sync, psVars
<1>5. ~Building(w)'
  BY <1>3 DEF Building, At
<1>6. Kept' \subseteq Kept
  BY <1>2, <1>4, KeptIs
<1> QED
  BY <1>2, <1>3, <1>4, <1>5, <1>6, Shrinks

(* DeletePod no longer counts on the packages it removes, which differ from   *)
(* those of the other pods. *)
LEMMA OwnedDelete ==
    ASSUME BaseInv, BaseInv', OwnedInv, NEW w \in Workers,
           DeleteCheck(w) \/ DeleteLock(w) \/ DeleteDone(w)
    PROVE  OwnedInv'
<1>1. /\ task[w] # None /\ task[w].op = "DeletePod" /\ task[w] \in Tasks
      /\ UNCHANGED <<inUse, device, doubt, call>>
      /\ \A v \in Workers : v # w => task'[v] = task[v]
  <2>1. task[w] # None /\ task[w].op = "DeletePod" /\ UNCHANGED <<inUse, device, doubt, call>>
    BY DEF DeleteCheck, DeleteLock, DeleteDone, At, psVars
  <2>2. \A v \in Workers : v # w => task'[v] = task[v]
    BY DEF DeleteCheck, DeleteLock, DeleteDone, Goto, Done, BaseInv, TypeOK
  <2> QED
    BY <2>1, <2>2, TaskIs
<1>2. CASE DeleteCheck(w)
  <2>1. UNCHANGED pods /\ task[w].pc = "check" /\ task[w].packages = <<>>
    BY <1>1, <1>2 DEF DeleteCheck, At, OwnedInv, RemovedApart
  <2>2. \/ task'[w] = None
        \/ task'[w] = [task[w] EXCEPT !.pc = "lock"]
    BY <1>2 DEF DeleteCheck, Goto, Done, BaseInv, TypeOK
  <2>3. task'[w] = None \/ (task'[w].pc = "lock" /\ task'[w].packages = <<>>)
    BY <1>1, <2>1, <2>2 DEF Tasks
  <2>4. ~Building(w)'
    BY <2>3 DEF Building, At
  <2>5. Kept' \subseteq Kept
    BY <1>1, <2>1, KeptIs
  <2> QED
    BY <1>1, <2>1, <2>3, <2>4, <2>5, Shrinks
<1>3. CASE DeleteLock(w)
  <2>1. UNCHANGED pods /\ task[w].pc = "lock" /\ mutex = None
    BY <1>3 DEF DeleteLock, At, Lock
  <2>2. task'[w] = [task[w] EXCEPT !.pc = "remove", !.packages = PackagesAt(MyKey(w))]
    BY <1>3 DEF DeleteLock, BaseInv, TypeOK
  <2>3. /\ task'[w].pc = "remove" /\ task'[w].packages = PackagesAt(MyKey(w))
        /\ task'[w].op = "DeletePod" /\ task'[w].pod = task[w].pod
    BY <1>1, <2>2 DEF Tasks
  <2>4. task'[w] # None
    <3>1. PackagesAt(MyKey(w)) \in Seq(Packages)
      BY PackagesAtType DEF BaseInv
    <3>2. task'[w] \in Tasks
      BY <1>1, <2>2, <3>1 DEF Tasks, Pcs
    <3> QED
      BY <3>2, NoneIsNoTask
  <2>5. ~Building(w)'
    BY <2>3 DEF Building, At
  <2>6. Kept' \subseteq Kept
    BY <1>1, <2>1, KeptIs
  <2>7. Deleting(MyKey(w))'
    BY <2>3, <2>4 DEF Deleting, At, MyKey
  <2>8. MyKey(w) \notin Kept'
    BY <2>3, <2>7 DEF Kept, MyKey
  <2>9. MyKey(w) \in DOMAIN pods => MyKey(w) \in Kept
    <3>1. \A v \in Workers : task[v] # None => ~Locked(task[v])
      BY <2>1, ProviderAssumption DEF BaseInv, MutexInv
    <3> QED
      BY <3>1 DEF Kept, Deleting, At, Locked
  <2>10. \A o \in Range(task'[w].packages) : \A q \in KeptPackages' : o.id # q.id
    <3>1. ASSUME NEW o \in Range(task'[w].packages), NEW q \in KeptPackages' PROVE o.id # q.id
      <4>1. PICK j \in Kept' : q \in Range(pods[j].packages)
        BY <2>1 DEF KeptPackages
      <4>2. PICK l \in DOMAIN pods[j].packages : q = pods[j].packages[l]
        BY <4>1 DEF Range
      <4>3. MyKey(w) \in DOMAIN pods /\ o \in Range(pods[MyKey(w)].packages)
        BY <2>3, RangeEmpty DEF PackagesAt
      <4>4. PICK i \in DOMAIN pods[MyKey(w)].packages : o = pods[MyKey(w)].packages[i]
        BY <4>3 DEF Range
      <4>5. j # MyKey(w) /\ j \in Kept /\ MyKey(w) \in Kept
        BY <2>6, <2>8, <2>9, <4>3
      <4> QED
        BY <4>2, <4>4, <4>5 DEF OwnedInv, KeptApart, Apart
    <3> QED
      BY <3>1
  <2> QED
    BY <1>1, <2>1, <2>3, <2>5, <2>6, <2>10, Shrinks
<1>4. CASE DeleteDone(w)
  <2>1. /\ task[w].pc = "remove" /\ task'[w] = None
        /\ DOMAIN pods' = DOMAIN pods \ {MyKey(w)}
        /\ \A k \in DOMAIN pods' : pods'[k] = pods[k]
    BY <1>4 DEF DeleteDone, At, Done, BaseInv, TypeOK
  <2>2. \A v \in Workers : v # w /\ task[v] # None => ~Locked(task[v])
    BY <1>1, <2>1, Alone DEF Locked
  <2>3. \A k : Deleting(k) => k = MyKey(w)
    BY <2>2 DEF Deleting, At, Locked
  <2>4. Kept' \subseteq Kept
    BY <2>1, <2>3 DEF Kept
  <2>5. ~Building(w)' /\ \A k \in Kept' : pods'[k].packages = pods[k].packages
    BY <2>1 DEF Building, At, Kept
  <2> QED
    BY <1>1, <2>1, <2>4, <2>5, Shrinks
<1> QED
  BY <1>2, <1>3, <1>4

(* A package has been removed: those left to remove are fewer. *)
LEMMA OwnedRemoved ==
    ASSUME BaseInv, BaseInv', OwnedInv, NEW w \in Workers, Removed(w) PROVE OwnedInv'
<1>1. /\ task[w] # None /\ task[w].pc = "removing"
      /\ UNCHANGED <<pods, inUse, device, doubt>> /\ call' = None
      /\ task'[w] = [task[w] EXCEPT !.pc = "remove", !.packages = Tail(task[w].packages)]
      /\ \A v \in Workers : v # w => task'[v] = task[v]
  BY DEF Removed, Collect, BaseInv, TypeOK
<1>2. /\ task[w] \in Tasks /\ task[w].packages \in Seq(Packages) /\ task[w].packages # <<>>
  BY <1>1, TaskIs DEF BaseInv, CallerInv, Removes
<1>3. /\ task'[w].pc = "remove" /\ task'[w].packages = Tail(task[w].packages)
      /\ task'[w].op = task[w].op /\ task'[w].pod = task[w].pod
  BY <1>1, <1>2 DEF Tasks
<1>4. task'[w] # None
  <2>1. Tail(task[w].packages) \in Seq(Packages)
    BY <1>2, HeadTailProperties
  <2> QED
    BY <1>1, <1>2, <2>1, NoneIsNoTask DEF Tasks, Pcs
<1>5. Range(task'[w].packages) \subseteq Range(task[w].packages)
  <2>1. /\ Len(Tail(task[w].packages)) = Len(task[w].packages) - 1
        /\ \A i \in 1 .. Len(Tail(task[w].packages)) : Tail(task[w].packages)[i] = task[w].packages[i+1]
        /\ Tail(task[w].packages) \in Seq(Packages)
    BY <1>2, HeadTailProperties
  <2>2. /\ DOMAIN task[w].packages = 1..Len(task[w].packages) /\ Len(task[w].packages) \in Nat
        /\ DOMAIN Tail(task[w].packages) = 1..Len(Tail(task[w].packages))
    BY <1>2, <2>1, LenProperties
  <2>3. ASSUME NEW i \in DOMAIN Tail(task[w].packages)
        PROVE  i + 1 \in DOMAIN task[w].packages
               /\ Tail(task[w].packages)[i] = task[w].packages[i + 1]
    BY <2>1, <2>2
  <2> QED
    BY <1>3, <2>3 DEF Range
<1>6. Kept' \subseteq Kept
  BY <1>1, <1>3, <1>4, KeptIs
<1>7. ~Building(w)'
  BY <1>3 DEF Building, At
<1>8. \A o \in Range(task'[w].packages) : \A q \in KeptPackages' : o.id # q.id
  <2>1. KeptPackages' \subseteq KeptPackages
    BY <1>1, <1>6 DEF KeptPackages
  <2> QED
    BY <1>1, <1>5, <2>1 DEF OwnedInv, RemovedApart
<1> QED
  BY <1>1, <1>3, <1>6, <1>7, <1>8, Shrinks
-----------------------------------------------------------------------------
(* The calls of the library. *)

(* DeployPackage picks an id above those the kubelet counts on, for an image  *)
(* that none of them has; RemovePackage gets the id of none of them.          *)
LEMMA OwnedCalls ==
    ASSUME BaseInv, OwnedInv, NEW w \in Workers,
           \/ CallRemovePackage(w)
           \/ /\ Container(w) /\ ~Installed(MyImages(w)[Len(task[w].packages) + 1])
              /\ CallDeploy(MyImages(w)[Len(task[w].packages) + 1]) /\ Goto(w, "deploying")
    PROVE  OwnedInv'
<1>1. /\ task[w] # None /\ task[w].pc \in {"remove", "container"} /\ UNCHANGED pods
      /\ \E pc \in {"removing", "deploying"} :
            Goto(w, pc) /\ (pc = "deploying" <=> task[w].pc = "container")
  BY DEF CallRemovePackage, Container, At
<1>2. task[w] \in Tasks /\ task[w].packages \in Seq(Packages) /\ Locked(task[w])
  BY <1>1, TaskIs DEF Locked
<1>3. PICK pc \in {"removing", "deploying"} :
          Goto(w, pc) /\ (pc = "deploying" <=> task[w].pc = "container")
  BY <1>1
<1>4. task'[w] = [task[w] EXCEPT !.pc = pc] /\ \A v \in Workers : v # w => task'[v] = task[v]
  BY <1>3, TaskIsNow DEF Goto
<1>5. /\ task'[w].pc = pc /\ task'[w].packages = task[w].packages /\ task'[w].op = task[w].op
      /\ task'[w].pod = task[w].pod /\ task'[w].rev = task[w].rev /\ task'[w] # None
  <2>1. /\ task'[w].pc = pc /\ task'[w].packages = task[w].packages /\ task'[w].op = task[w].op
        /\ task'[w].pod = task[w].pod /\ task'[w].rev = task[w].rev
    BY <1>2, <1>4 DEF Tasks
  <2>2. task'[w] \in Tasks
    BY <1>2, <1>4 DEF Tasks, Pcs
  <2> QED
    BY <2>1, <2>2, NoneIsNoTask
<1>6. \A v \in Workers : v # w /\ task[v] # None => ~Locked(task[v])
  BY <1>1, <1>2, Alone
<1>7. PICK id : /\ call' # None /\ call'.id = id /\ call'.status = "running"
                /\ doubt' = doubt \cup {id} /\ UNCHANGED <<inUse, device>>
                /\ pc = "deploying" => /\ \A i \in inUse : i < id
                                       /\ call'.image = MyImages(w)[Len(task[w].packages) + 1]
                /\ pc = "removing" => /\ id = Head(task[w].packages).id
                                      /\ task[w].packages # <<>>
                                      /\ call'.op = "RemovePackage"
  <2>1. CASE CallRemovePackage(w)
    <3>1. /\ Begin("RemovePackage", Head(task[w].packages).id, None) /\ task[w].packages # <<>>
          /\ pc = "removing"
      BY <1>3, <2>1 DEF CallRemovePackage, CallRemove
    <3>2. Head(task[w].packages).id \in Ids
      <4>1. Head(task[w].packages) \in Packages
        BY <1>2, <3>1, HeadTailProperties
      <4> QED
        BY <4>1 DEF Packages
    <3>3. call' # None
      <4>1. call' \in Calls
        BY <3>1, <3>2 DEF Begin, Calls
      <4> QED
        BY <4>1, NoneIsNoCall
    <3> QED
      BY <3>1, <3>3 DEF Begin
  <2>2. CASE /\ Container(w) /\ CallDeploy(MyImages(w)[Len(task[w].packages) + 1])
             /\ Goto(w, "deploying")
    <3> DEFINE image == MyImages(w)[Len(task[w].packages) + 1]
    <3>1. PICK id \in Ids : IsNextId(id) /\ Begin("DeployPackage", id, image)
      BY <2>2 DEF CallDeploy
    <3>2. pc = "deploying"
      BY <1>3, <2>2 DEF Container, At
    <3>3. call' # None
      <4>1. call'.status = "running" /\ CallerInv'
        BY <3>1, ContainerBase, <2>2 DEF Begin, BaseInv
      <4> QED
        BY <1>5, <3>2, <4>1 DEF CallerInv, Deploys
    <3> QED
      BY <3>1, <3>2, <3>3 DEF Begin, IsNextId
  <2> QED
    BY <2>1, <2>2
<1>8. /\ Kept' = Kept /\ KeptPackages' = KeptPackages /\ BuiltPackages' \subseteq BuiltPackages
      /\ \A v \in Workers : Building(v)' => Building(v)
  <2>1. \A k : Deleting(k)' <=> Deleting(k)
    <3>1. \A v \in Workers : \A k : (\E x \in {"remove", "removing"} : At(v, "DeletePod", x)' /\ MyKey(v)' = k)
             <=> (\E x \in {"remove", "removing"} : At(v, "DeletePod", x) /\ MyKey(v) = k)
      <4>1. TAKE v \in Workers
      <4> TAKE k
      <4>2. CASE v = w
        <5>1. CASE task[w].pc = "container"
          BY <1>1, <1>3, <1>5, <4>2, <5>1 DEF At
        <5>2. CASE task[w].pc = "remove"
          BY <1>1, <1>3, <1>5, <4>2, <5>2 DEF At, MyKey
        <5> QED
          BY <1>1, <5>1, <5>2
      <4>3. CASE v # w
        BY <1>4, <4>3 DEF At, MyKey
      <4> QED
        BY <4>2, <4>3
    <3> QED
      BY <3>1 DEF Deleting
  <2>2. \A v \in Workers : Building(v)' => Building(v)
    BY <1>1, <1>3, <1>4, <1>5 DEF Building, At
  <2>3. \A v \in Workers : Building(v)' => task'[v].packages = task[v].packages
    BY <1>4, <1>5
  <2>4. Kept' = Kept
    BY <1>1, <2>1 DEF Kept
  <2>5. KeptPackages' = KeptPackages
    BY <1>1, <2>4 DEF KeptPackages
  <2> QED
    BY <2>2, <2>3, <2>4, <2>5 DEF BuiltPackages
<1>9. \A o \in KeptPackages \cup BuiltPackages' : o.id # call'.id
  <2>1. CASE pc = "deploying"
    <3>1. \A o \in KeptPackages \cup BuiltPackages : o.id \in inUse
      BY DEF OwnedInv, AllGood, Good
    <3>2. \A i \in inUse : i \in Int /\ i < call'.id
      BY <1>7, <2>1 DEF BaseInv, TypeOK, PSTypeOK, Ids
    <3> QED
      BY <1>8, <3>1, <3>2
  <2>2. CASE pc = "removing"
    <3>1. Head(task[w].packages) \in Range(task[w].packages)
      <4>1. 1 \in DOMAIN task[w].packages /\ Head(task[w].packages) = task[w].packages[1]
        BY <1>2, <1>7, <2>2, EmptySeq, LenProperties
      <4> QED
        BY <4>1 DEF Range
    <3>2. \A o \in KeptPackages : o.id # call'.id
      BY <1>1, <1>3, <1>7, <2>2, <3>1 DEF OwnedInv, RemovedApart
    <3>3. \A v \in Workers : ~Building(v)'
      BY <1>4, <1>5, <1>6, <2>2 DEF Building, At, Locked
    <3> QED
      BY <3>2, <3>3 DEF BuiltPackages
  <2> QED
    BY <2>1, <2>2
<1>10. AllGood' /\ \A o \in BuiltPackages', q \in KeptPackages' : Apart(o, q)
  BY <1>7, <1>8, <1>9 DEF OwnedInv, AllGood, Good
<1>11. KeptApart'
  BY <1>1, <1>8 DEF OwnedInv, KeptApart
<1>12. BuiltApart'
  <2>1. ASSUME NEW v \in Workers
        PROVE  /\ Building(v)' => Building(v)
               /\ Building(v)' => task'[v].packages = task[v].packages /\ MyImages(v)' = MyImages(v)
    <3>1. CASE v = w
      BY <1>5, <1>8, <3>1 DEF MyImages
    <3>2. CASE v # w
      BY <1>4, <1>8, <3>2 DEF MyImages
    <3> QED
      BY <3>1, <3>2
  <2> QED
    BY <2>1 DEF OwnedInv, BuiltApart
<1>13. RemovedApart'
  <2>1. ASSUME NEW v \in Workers, v # w, task'[v] # None
        PROVE  /\ task'[v].pc \notin {"remove", "removing", "deploying"}
               /\ task'[v].pc \in {"lock", "check"} => task'[v].packages = <<>>
    BY <1>4, <1>6, <2>1 DEF Locked, OwnedInv, RemovedApart
  <2>2. pc = "removing" => \A o \in Range(task'[w].packages) : \A q \in KeptPackages' : o.id # q.id
    BY <1>1, <1>3, <1>5, <1>8 DEF OwnedInv, RemovedApart
  <2>3. pc = "deploying" => \A q \in KeptPackages' : q.image # call'.image
    <3>1. ASSUME pc = "deploying", NEW q \in KeptPackages PROVE q.image # call'.image
      <4>1. PICK k \in DOMAIN pods : q \in Range(pods[k].packages)
        BY DEF KeptPackages, Kept
      <4>2. ~Installed(MyImages(w)[Len(task[w].packages) + 1])
        BY <1>3, <3>1 DEF CallRemovePackage
      <4> QED
        BY <1>7, <3>1, <4>1, <4>2 DEF Installed
    <3> QED
      BY <1>8, <3>1
  <2> QED
    BY <1>5, <2>1, <2>2, <2>3 DEF RemovedApart
<1>14. CallApart'
  BY <1>7, <1>8, <1>9 DEF CallApart
<1> QED
  BY <1>10, <1>11, <1>12, <1>13, <1>14 DEF OwnedInv, Apart
(* The package that DeployPackage returned is one more the kubelet counts on. *)
LEMMA OwnedDeployed ==
    ASSUME BaseInv, OwnedInv, NEW w \in Workers, Deployed(w), call.status = "ok"
    PROVE  OwnedInv'
<1> DEFINE package == [id |-> call.id, image |-> call.image]
           n == Len(task[w].packages)
           packages == Append(task[w].packages, package)
<1>1. /\ task[w] # None /\ task[w].pc = "deploying" /\ task[w].op = "CreatePod"
      /\ call # None /\ call' = None /\ UNCHANGED <<pods, inUse, device, doubt>>
      /\ task' = [task EXCEPT ![w] = [task[w] EXCEPT !.pc = "container", !.packages = packages]]
  BY DEF Deployed, At, Collect, Keeps
<1>2. /\ task[w] \in Tasks /\ task[w].packages \in Seq(Packages) /\ Locked(task[w]) /\ Building(w)
      /\ task[w].pod \in Pods /\ task[w].rev \in Revisions(task[w].pod)
  BY <1>1, TaskIs DEF Locked, Building, At, GoodTask
<1>3. /\ task'[w] = [task[w] EXCEPT !.pc = "container", !.packages = packages]
      /\ \A v \in Workers : v # w => task'[v] = task[v]
  BY <1>1, TaskIsNow
<1>4. /\ task'[w].pc = "container" /\ task'[w].packages = packages /\ task'[w].op = "CreatePod"
      /\ task'[w].pod = task[w].pod /\ task'[w].rev = task[w].rev
  <2>1. task[w].op = "CreatePod" /\ task[w] \in Tasks
    BY <1>1, <1>2
  <2>2. ASSUME NEW x, task'[w] = [task[w] EXCEPT !.pc = "container", !.packages = x]
        PROVE  /\ task'[w].pc = "container" /\ task'[w].packages = x /\ task'[w].op = "CreatePod"
               /\ task'[w].pod = task[w].pod /\ task'[w].rev = task[w].rev
    BY <2>1, <2>2 DEF Tasks
  <2> QED
    BY <1>3, <2>2
<1>5. \A v \in Workers : v # w /\ task[v] # None => ~Locked(task[v])
  BY <1>1, <1>2, Alone
<1>6. /\ call.image = MyImages(w)[n + 1] /\ n + 1 <= Len(MyImages(w)) /\ package \in Packages
      /\ n \in Nat
  BY <1>1, <1>2, PackageOf, LenProperties
<1>7. /\ packages \in Seq(Packages) /\ Len(packages) = n + 1
      /\ \A i \in 1..n : packages[i] = task[w].packages[i]
      /\ packages[n + 1] = package
      /\ DOMAIN packages = 1..(n + 1) /\ DOMAIN task[w].packages = 1..n
  <2>1. /\ packages \in Seq(Packages) /\ Len(packages) = n + 1
        /\ \A i \in 1..n : packages[i] = task[w].packages[i]
        /\ packages[n + 1] = package
    BY <1>2, <1>6, AppendProperties
  <2> QED
    BY <1>2, <2>1, LenProperties
<1> HIDE DEF packages
<1>8. Kept' \subseteq Kept /\ KeptPackages' \subseteq KeptPackages
  <2>1. Kept' \subseteq Kept
    BY <1>1, <1>3, KeptIs
  <2> QED
    BY <1>1, <2>1 DEF KeptPackages
<1>9. \A v \in Workers : Building(v)' => v = w
  BY <1>3, <1>5 DEF Building, At, Locked
<1>10. \A o \in BuiltPackages' : o = package \/ o \in BuiltPackages
  <2>1. ASSUME NEW o \in BuiltPackages' PROVE o = package \/ o \in BuiltPackages
    <3>1. o \in Range(packages)
      BY <1>4, <1>9 DEF BuiltPackages
    <3>2. PICK i \in DOMAIN packages : o = packages[i]
      BY <3>1 DEF Range
    <3>3. CASE i = n + 1
      BY <1>7, <3>2, <3>3
    <3>4. CASE i # n + 1
      <4>1. i \in DOMAIN task[w].packages /\ o = task[w].packages[i]
        BY <1>6, <1>7, <3>2, <3>4
      <4> QED
        BY <1>2, <4>1 DEF BuiltPackages, Range
    <3> QED
      BY <3>3, <3>4
  <2> QED
    BY <2>1
<1>11. /\ Good(call) /\ \A o \in KeptPackages \cup BuiltPackages : o.id # call.id
       /\ \A q \in KeptPackages : q.image # call.image
  BY <1>1 DEF OwnedInv, CallApart, RemovedApart, BaseInv, CallerInv, Deploys
<1>12. package.id = call.id /\ package.image = call.image
  OBVIOUS
<1> HIDE DEF package
<1>13. AllGood' /\ \A o \in BuiltPackages', q \in KeptPackages' : Apart(o, q)
  <2>1. \A o \in KeptPackages' \cup BuiltPackages' : Good(o)
    BY <1>8, <1>10, <1>11, <1>12 DEF OwnedInv, AllGood, Good
  <2>2. AllGood'
    BY <1>1, <2>1 DEF AllGood, Good
  <2>3. \A o \in BuiltPackages', q \in KeptPackages' : Apart(o, q)
    BY <1>8, <1>10, <1>11, <1>12 DEF OwnedInv, Apart
  <2> QED
    BY <2>2, <2>3
<1>14. KeptApart'
  BY <1>1, <1>8 DEF OwnedInv, KeptApart
<1>15. BuiltApart'
  <2>1. MyImages(w)' = MyImages(w) /\ MyImages(w) \in Seq(Images)
    BY <1>2, <1>4, ImagesOf DEF MyImages
  <2>2. DOMAIN packages \subseteq DOMAIN MyImages(w)
    <3>1. DOMAIN MyImages(w) = 1..Len(MyImages(w)) /\ Len(MyImages(w)) \in Nat
      BY <2>1, LenProperties
    <3> QED
      BY <1>6, <1>7, <3>1
  <2>3. \A i \in DOMAIN packages : packages[i].image = MyImages(w)[i]
    <3>1. TAKE i \in DOMAIN packages
    <3>2. CASE i = n + 1
      BY <1>6, <1>7, <1>12, <3>2
    <3>3. CASE i # n + 1
      <4>1. i \in DOMAIN task[w].packages /\ packages[i] = task[w].packages[i]
        BY <1>6, <1>7, <3>3
      <4> QED
        BY <1>2, <4>1 DEF OwnedInv, BuiltApart
    <3> QED
      BY <3>2, <3>3
  <2>4. \A i \in 1..n : packages[i] = task[w].packages[i] /\ packages[i] \in BuiltPackages
    BY <1>2, <1>7 DEF BuiltPackages, Range
  <2>5. \A i, l \in DOMAIN packages : i # l => packages[i].id # packages[l].id
    <3>1. ASSUME NEW i \in DOMAIN packages, NEW l \in DOMAIN packages, i # l
          PROVE  packages[i].id # packages[l].id
      <4>1. \A j \in DOMAIN packages : j = n + 1 \/ j \in 1..n
        BY <1>6, <1>7
      <4>2. CASE i = n + 1 \/ l = n + 1
        BY <1>7, <1>11, <1>12, <2>4, <3>1, <4>1, <4>2
      <4>3. CASE i \in 1..n /\ l \in 1..n
        BY <1>2, <1>7, <2>4, <3>1, <4>3 DEF OwnedInv, BuiltApart
      <4> QED
        BY <4>1, <4>2, <4>3
    <3> QED
      BY <3>1
  <2> QED
    BY <1>4, <1>9, <2>1, <2>2, <2>3, <2>5 DEF BuiltApart
<1>16. RemovedApart'
  <2>1. ASSUME NEW v \in Workers, v # w, task'[v] # None
        PROVE  /\ task'[v].pc \notin {"remove", "removing", "deploying"}
               /\ task'[v].pc \in {"lock", "check"} => task'[v].packages = <<>>
    BY <1>3, <1>5, <2>1 DEF Locked, OwnedInv, RemovedApart
  <2> QED
    BY <1>4, <2>1 DEF RemovedApart
<1>17. CallApart'
  BY <1>1 DEF CallApart
<1> QED
  BY <1>13, <1>14, <1>15, <1>16, <1>17 DEF OwnedInv, Apart

(* The packages of a CreatePod become those of its pod, which had no entry.   *)
LEMMA OwnedCreated ==
    ASSUME ImagesDiffer, BaseInv, HandlerInv, OwnedInv, NEW w \in Workers,
           Adapter(w) \/ AdapterList(w), Created(w)
    PROVE  OwnedInv'
<1>1. /\ task[w] # None /\ task[w].pc \in {"adapter", "list"} /\ task[w].op = "CreatePod"
      /\ UNCHANGED <<inUse, device, doubt, call>>
      /\ task'[w] = None /\ \A v \in Workers : v # w => task'[v] = task[v]
  BY DEF Adapter, AdapterList, At, psVars, Created, Done, BaseInv, TypeOK
<1>2. /\ MyKey(w) \notin DOMAIN pods /\ DOMAIN pods' = DOMAIN pods \cup {MyKey(w)}
      /\ \A k \in DOMAIN pods : pods'[k] = pods[k]
      /\ pods'[MyKey(w)].packages = task[w].packages
  <2>1. MyKey(w) \notin DOMAIN pods
    BY <1>1 DEF HandlerInv, Fits, MyKey
  <2> QED
    BY <2>1 DEF Created, Store
<1>3. Locked(task[w]) /\ ~Calling(task[w]) /\ Building(w)
  BY <1>1 DEF Locked, Calling, Building, At
<1>4. /\ call = None /\ \A v \in Workers : v # w /\ task[v] # None => ~Locked(task[v])
  BY <1>1, <1>3, Alone
<1>5. Kept' \ {MyKey(w)} \subseteq Kept
  <2>1. \A k : ~Deleting(k)
    BY <1>1, <1>4 DEF Deleting, At, Locked
  <2> QED
    BY <1>2, <2>1 DEF Kept
<1>6. \A k \in Kept' : k # MyKey(w) => k \in Kept /\ k \in DOMAIN pods /\ pods'[k] = pods[k]
  BY <1>2, <1>5 DEF Kept
<1>7. \A k \in Kept' : \A i \in DOMAIN pods'[k].packages :
          \/ k = MyKey(w) /\ i \in DOMAIN task[w].packages
             /\ pods'[k].packages[i] = task[w].packages[i]
             /\ task[w].packages[i] \in BuiltPackages
          \/ k # MyKey(w) /\ k \in Kept /\ i \in DOMAIN pods[k].packages
             /\ pods'[k].packages[i] = pods[k].packages[i]
             /\ pods[k].packages[i] \in KeptPackages
  BY <1>2, <1>3, <1>6 DEF BuiltPackages, KeptPackages, Range
<1>8. \A v \in Workers : ~Building(v)'
  BY <1>1, <1>4 DEF Building, At, Locked
<1>9. BuiltPackages' = {} /\ KeptPackages' \subseteq KeptPackages \cup BuiltPackages
  BY <1>7, <1>8 DEF BuiltPackages, KeptPackages, Range
<1>10. AllGood'
  BY <1>1, <1>9 DEF OwnedInv, AllGood, Good
<1>11. KeptApart'
  <2>1. ASSUME NEW k \in Kept', NEW j \in Kept', NEW i \in DOMAIN pods'[k].packages,
               NEW l \in DOMAIN pods'[j].packages, k # j \/ i # l
        PROVE  Apart(pods'[k].packages[i], pods'[j].packages[l])
    <3>1. CASE k = MyKey(w) /\ j = MyKey(w)
      <4>1. Apart(task[w].packages[i], task[w].packages[l])
        BY <1>3, <1>7, <2>1, <3>1, BuiltDiffer
      <4> QED
        BY <1>2, <3>1, <4>1
    <3>2. CASE k = MyKey(w) /\ j # MyKey(w)
      BY <1>7, <3>2 DEF OwnedInv
    <3>3. CASE k # MyKey(w) /\ j = MyKey(w)
      BY <1>7, <3>3 DEF OwnedInv, Apart
    <3>4. CASE k # MyKey(w) /\ j # MyKey(w)
      BY <1>7, <2>1, <3>4 DEF OwnedInv, KeptApart
    <3> QED
      BY <3>1, <3>2, <3>3, <3>4
  <2> QED
    BY <2>1 DEF KeptApart, Apart
<1>12. BuiltApart'
  BY <1>8 DEF BuiltApart
<1>13. RemovedApart'
  <2>1. ASSUME NEW v \in Workers, task'[v] # None
        PROVE  /\ task'[v].pc \notin {"remove", "removing", "deploying"}
               /\ task'[v].pc \in {"lock", "check"} => task'[v].packages = <<>>
    BY <1>1, <1>4, <2>1 DEF Locked, OwnedInv, RemovedApart
  <2> QED
    BY <2>1 DEF RemovedApart
<1>14. CallApart'
  BY <1>1, <1>4 DEF CallApart
<1> QED
  BY <1>9, <1>10, <1>11, <1>12, <1>13, <1>14 DEF OwnedInv, Apart
(* The device answers a call, or a request that went unanswered takes effect: *)
(* that changes the instance of the call, or those in doubt. *)
LEMMA OwnedDevice ==
    ASSUME BaseInv, OwnedInv, UNCHANGED <<pods, task>>, PSReturns \/ Drift
    PROVE  OwnedInv'
<1>1. /\ Kept' = Kept /\ KeptPackages' = KeptPackages /\ BuiltPackages' = BuiltPackages
      /\ \A w \in Workers : Building(w)' = Building(w) /\ MyImages(w)' = MyImages(w)
  BY DEF Kept, KeptPackages, BuiltPackages, Building, Deleting, At, MyKey, MyImages
<1>2. PSTypeOK
  BY DEF BaseInv, TypeOK
<1>3. \A o \in KeptPackages \cup BuiltPackages :
          Good(o) /\ o.id \in Ids /\ (call # None => o.id # call.id)
  BY <1>2 DEF OwnedInv, AllGood, Good, CallApart, PSTypeOK
<1>4. /\ call' # None <=> call # None
      /\ call # None => call'.op = call.op /\ call'.id = call.id /\ call'.image = call.image
  BY <1>2, SameCall DEF Drift
<1>5. doubt' \subseteq doubt
  BY DEF PSReturns, DeployOk, DeployErr, RemoveOk, RemoveErr, Drift
<1>6. ASSUME NEW o, Good(o), o.id \in Ids, o.id # call.id \/ Drift
      PROVE  o.id \in inUse' /\ device'[o.id] = device[o.id]
  <2>1. CASE Drift
    BY <1>2, <1>6, <2>1 DEF Drift, Good, PSTypeOK
  <2>2. CASE PSReturns /\ o.id # call.id
    BY <1>2, <1>6, <2>2 DEF PSReturns, DeployOk, DeployErr, RemoveOk, RemoveErr, Good, PSTypeOK
  <2> QED
    BY <1>6, <2>1, <2>2
<1>7. AllGood'
  <2>1. ASSUME NEW o \in KeptPackages \cup BuiltPackages
        PROVE  o.id \in inUse' \ doubt' /\ device'[o.id] = o.image
    <3>1. call # None \/ Drift
      BY <1>2, SameCall
    <3>2. Good(o) /\ o.id \in Ids /\ (o.id # call.id \/ Drift)
      BY <1>3, <3>1
    <3> QED
      BY <1>5, <1>6, <3>2 DEF Good
  <2> QED
    BY <1>1, <2>1 DEF AllGood, Good
<1>8. CallApart'
  <2>1. ASSUME call' # None, call'.op = "DeployPackage", call'.status = "ok" PROVE Good(call)'
    <3>1. CASE Drift
      <4>1. call' = call /\ Good(call) /\ call.id \in Ids
        BY <1>2, <2>1, <3>1 DEF Drift, OwnedInv, CallApart, PSTypeOK, Calls
      <4>2. call'.id \in inUse' /\ device'[call'.id] = device[call.id]
        BY <1>6, <3>1, <4>1
      <4> QED
        BY <1>5, <4>1, <4>2 DEF Good
    <3>2. CASE PSReturns
      <4>1. /\ call \in Calls /\ call' \in Calls /\ call # None
            /\ call'.op = call.op /\ call'.id = call.id /\ call'.image = call.image
        BY <1>2, <3>2, SameCall
      <4>2. ASSUME NEW status \in {"ok", "err"}, Return(status) PROVE call'.status = status
        BY <4>1, <4>2 DEF Return, Calls
      <4>3. DeployOk
        <5>1. ~RemoveOk /\ ~RemoveErr
          BY <2>1, <4>1 DEF RemoveOk, RemoveErr, Running
        <5>2. ~DeployErr
          BY <2>1, <4>2 DEF DeployErr
        <5> QED
          BY <3>2, <5>1, <5>2 DEF PSReturns
      <4>4. call.id \in inUse' \ doubt' /\ device'[call.id] = call.image
        BY <1>2, <4>1, <4>3 DEF DeployOk, PSTypeOK, Calls
      <4> QED
        BY <4>1, <4>4 DEF Good
    <3> QED
      BY <3>1, <3>2
  <2>2. call' # None => \A o \in KeptPackages' \cup BuiltPackages' : o.id # call'.id
    BY <1>1, <1>3, <1>4
  <2> QED
    BY <2>1, <2>2 DEF CallApart
<1>9. RemovedApart'
  BY <1>1, <1>4 DEF OwnedInv, RemovedApart, BaseInv, CallerInv, Deploys
<1>10. KeptApart' /\ BuiltApart'
  BY <1>1 DEF OwnedInv, KeptApart, BuiltApart
<1> QED
  BY <1>1, <1>7, <1>8, <1>9, <1>10 DEF OwnedInv, Apart

-----------------------------------------------------------------------------
(* Every step. *)

LEMMA OwnedStep ==
    ASSUME ImagesDiffer, BaseInv, HandlerInv, OwnedInv, [Next]_vars
    PROVE  OwnedInv'
<1>1. BaseInv'
  BY StepBase
<1>2. CASE UNCHANGED <<pods, task, psVars>>
  <2>1. /\ Kept' = Kept /\ KeptPackages' = KeptPackages /\ BuiltPackages' = BuiltPackages
        /\ \A w \in Workers : Building(w)' = Building(w) /\ MyImages(w)' = MyImages(w)
    BY <1>2 DEF Kept, KeptPackages, BuiltPackages, Building, Deleting, At, MyKey, MyImages
  <2>2. UNCHANGED <<inUse, device, doubt, call, pods, task>>
    BY <1>2 DEF psVars
  <2>3. AllGood' /\ KeptApart'
    BY <2>1, <2>2 DEF OwnedInv, AllGood, Good, KeptApart
  <2>4. BuiltApart'
    BY <2>1, <2>2 DEF OwnedInv, BuiltApart
  <2>5. RemovedApart' /\ CallApart'
    BY <2>1, <2>2 DEF OwnedInv, RemovedApart, CallApart, Good
  <2> QED
    BY <2>1, <2>3, <2>4, <2>5 DEF OwnedInv, Apart
<1>3. ASSUME NEW w \in Workers, NEW p \in Pods, Sync(w, p) PROVE OwnedInv'
  BY <1>1, <1>3, OwnedSync
<1>4. ASSUME NEW w \in Workers, Step(w) PROVE OwnedInv'
  <2>1. CASE CreateLock(w) \/ AdapterWatch(w) \/ CreateFailed(w)
    BY <1>1, <2>1, OwnedQuiet
  <2>2. CASE Container(w)
    BY <1>1, <2>2, OwnedQuiet, OwnedCalls DEF Container
  <2>3. CASE Deployed(w)
    BY <1>1, <2>3, OwnedQuiet, OwnedDeployed
  <2>4. CASE Adapter(w) \/ AdapterList(w)
    BY <1>1, <2>4, OwnedQuiet, OwnedCreated
  <2>5. CASE UpdateRead(w) \/ UpdateWrite(w)
    BY <1>1, <2>5, OwnedUpdate
  <2>6. CASE DeleteCheck(w) \/ DeleteLock(w) \/ DeleteDone(w)
    BY <1>1, <2>6, OwnedDelete
  <2>7. CASE CallRemovePackage(w)
    BY <2>7, OwnedCalls
  <2>8. CASE Removed(w)
    BY <1>1, <2>8, OwnedRemoved
  <2> QED
    BY <1>4, <2>1, <2>2, <2>3, <2>4, <2>5, <2>6, <2>7, <2>8 DEF Step
<1>5. CASE Answer \/ NoAnswer \/ LateEffect
  BY <1>5, OwnedDevice DEF Answer, NoAnswer, LateEffect, PSReturns
<1>6. CASE Crash
  <2>1. DOMAIN pods' = {} /\ (\A w \in Workers : task'[w] = None) /\ call' = None
    BY <1>6 DEF Crash, PSCrash
  <2>2. /\ Kept' = {} /\ KeptPackages' = {} /\ BuiltPackages' = {}
        /\ \A w \in Workers : ~Building(w)'
    BY <2>1 DEF Kept, KeptPackages, BuiltPackages, Building, At
  <2> QED
    BY <2>1, <2>2 DEF OwnedInv, AllGood, KeptApart, BuiltApart, RemovedApart, CallApart
<1>7. ASSUME NEW s \in Scrapers, ScrapeNext(s) \/ ScrapeLock(s) \/ ScrapeUnlock(s) \/ ScrapePanics(s)
      PROVE  UNCHANGED <<pods, task, psVars>>
  BY <1>7 DEF ScrapeNext, ScrapeLock, ScrapeUnlock, ScrapePanics
<1>8. ASSUME NEW p \in Pods, KubernetesWants(p) PROVE UNCHANGED <<pods, task, psVars>>
  BY <1>8 DEF KubernetesWants
<1> QED
  BY <1>2, <1>3, <1>4, <1>5, <1>6, <1>7, <1>8 DEF Next, vars

LEMMA OwnedHolds == ASSUME KeysDiffer, ImagesDiffer PROVE Spec => [](BaseInv /\ OwnedInv)
<1>1. BaseInv /\ HandlerInv /\ [Next]_vars => HandlerInv'
  BY HandlerStep
<1>2. BaseInv /\ HandlerInv /\ OwnedInv /\ [Next]_vars => OwnedInv'
  BY OwnedStep
<1> QED
  BY <1>1, <1>2, InitHandler, InitOwned, BaseHolds, PTL DEF Spec

(* When keys and images differ, every package the kubelet counts on runs on   *)
(* the device, and no request can still change it: with calls that fail, late *)
(* effects and crashes, however many pods, workers and scrapers there are.    *)
THEOREM OwnedRuns == ASSUME KeysDiffer, ImagesDiffer PROVE Spec => []OwnedActive
<1>1. BaseInv /\ OwnedInv => OwnedActive
  BY OwnedFollows
<1> QED
  BY <1>1, OwnedHolds, PTL

(* No image is deployed twice and no instance belongs to two containers, when *)
(* keys and images differ; equal images within one pod break it, as           *)
(* ProviderSameImage.cfg shows.                                               *)
THEOREM NeverDeployedTwice == ASSUME KeysDiffer, ImagesDiffer PROVE Spec => []OwnedOnce
<1>1. BaseInv /\ OwnedInv => OwnedOnce
  BY OwnedFollows
<1> QED
  BY <1>1, OwnedHolds, PTL

-----------------------------------------------------------------------------
(* 4. The packages the kubelet does not count on. *)

(* The packages of the tasks past the lock: deployed so far, or to be removed. *)
HeldPackages == UNION {Range(task[w].packages) : w \in {v \in Workers : task[v] # None /\ Locked(task[v])}}

(* What is on the device belongs to a pod, to a task, or to the call in       *)
(* progress.                                                                  *)
Accounted(i) == \/ \E o \in KeptPackages \cup HeldPackages : o.id = i
                \/ call # None /\ call.id = i

NoStrays == /\ \A i \in Ids : device[i] # None => Accounted(i)
            /\ doubt \subseteq IF call # None THEN {call.id} ELSE {}
            /\ call # None /\ call.status # "running" =>
                  /\ call.status = "ok" /\ doubt = {}
                  /\ call.op = "RemovePackage" => device[call.id] = None

OrphanInv == faults = 0 => NoStrays

LEMMA InitOrphan == Init => OrphanInv
<1> SUFFICES ASSUME Init PROVE NoStrays
  BY DEF OrphanInv
<1>1. device = [i \in Ids |-> None] /\ doubt = {} /\ call = None
  BY DEF Init, PSInit
<1> QED
  BY <1>1 DEF NoStrays

(* The entries that nobody deletes stay with their packages. *)
LEMMA KeptStay ==
    ASSUME NEW w \in Workers, \A v \in Workers : v # w => task'[v] = task[v],
           \A k \in Kept : k \in DOMAIN pods' /\ pods'[k].packages = pods[k].packages,
           task'[w] # None /\ task'[w].op = "DeletePod" /\ task'[w].pc \in {"remove", "removing"} =>
              /\ task[w] # None /\ task[w].op = "DeletePod" /\ task[w].pod = task'[w].pod
              /\ task[w].pc \in {"remove", "removing"}
    PROVE  KeptPackages \subseteq KeptPackages'
<1>1. ASSUME NEW k, Deleting(k)' PROVE Deleting(k)
  <2>1. PICK v \in Workers : \E pc \in {"remove", "removing"} :
                                 At(v, "DeletePod", pc)' /\ MyKey(v)' = k
    BY <1>1 DEF Deleting
  <2>2. CASE v # w
    BY <2>1, <2>2 DEF At, MyKey, Deleting
  <2>3. CASE v = w
    BY <2>1, <2>3 DEF At, MyKey, Deleting
  <2> QED
    BY <2>2, <2>3
<1>2. \A k \in Kept : k \in Kept'
  BY <1>1 DEF Kept
<1> QED
  BY <1>2 DEF KeptPackages

(* A step of worker w that hands over every package it holds. *)
LEMMA HeldStay ==
    ASSUME NEW w \in Workers, \A v \in Workers : v # w => task'[v] = task[v],
           task[w] # None /\ Locked(task[w]) =>
              Range(task[w].packages) \subseteq KeptPackages' \cup HeldPackages'
    PROVE  HeldPackages \subseteq KeptPackages' \cup HeldPackages'
<1>1. ASSUME NEW v \in Workers, task[v] # None, Locked(task[v])
      PROVE  Range(task[v].packages) \subseteq KeptPackages' \cup HeldPackages'
  <2>1. CASE v # w
    <3>1. task'[v] # None /\ Locked(task[v])' /\ task'[v].packages = task[v].packages
      BY <1>1, <2>1 DEF Locked
    <3> QED
      BY <3>1 DEF HeldPackages, Locked
  <2> QED
    BY <1>1, <2>1
<1> QED
  BY <1>1 DEF HeldPackages

(* The device and the call stay, and so does every package that counts. *)
LEMMA OrphanKeeps ==
    ASSUME OrphanInv, UNCHANGED <<device, doubt, call, faults>>,
           KeptPackages \subseteq KeptPackages' \cup HeldPackages',
           HeldPackages \subseteq KeptPackages' \cup HeldPackages'
    PROVE  OrphanInv'
<1> SUFFICES ASSUME NoStrays PROVE NoStrays'
  BY DEF OrphanInv
<1>1. \A i \in Ids : Accounted(i) => Accounted(i)'
  BY DEF Accounted
<1> QED
  BY <1>1 DEF NoStrays

(* A task that goes on with the packages it has, or ends with none. *)
LEMMA OrphanGoto ==
    ASSUME BaseInv, OrphanInv, NEW w \in Workers, task[w] # None,
           UNCHANGED <<pods, device, doubt, call, faults>>,
           \/ Done(w) /\ (task[w].packages = <<>> \/ ~Locked(task[w]))
           \/ \E pc \in Pcs \ {"lock", "check", "update"} :
                 /\ Goto(w, pc)
                 /\ task[w].op # "DeletePod" \/ task[w].pc \in {"remove", "removing"}
    PROVE  OrphanInv'
<1>1. task[w] \in Tasks
  BY TaskIs
<1>2. CASE Done(w) /\ (task[w].packages = <<>> \/ ~Locked(task[w]))
  <2>1. task'[w] = None /\ \A v \in Workers : v # w => task'[v] = task[v]
    BY <1>2, TaskIsNow DEF Done
  <2>2. KeptPackages \subseteq KeptPackages'
    BY <2>1, KeptStay DEF Kept
  <2>3. HeldPackages \subseteq KeptPackages' \cup HeldPackages'
    BY <1>2, <2>1, HeldStay, RangeEmpty
  <2> QED
    BY <2>2, <2>3, OrphanKeeps
<1>3. ASSUME NEW pc \in Pcs \ {"lock", "check", "update"}, Goto(w, pc),
             task[w].op # "DeletePod" \/ task[w].pc \in {"remove", "removing"}
      PROVE  OrphanInv'
  <2>1. task'[w] = [task[w] EXCEPT !.pc = pc] /\ \A v \in Workers : v # w => task'[v] = task[v]
    BY <1>3, TaskIsNow DEF Goto
  <2>2. /\ task'[w].pc = pc /\ task'[w].packages = task[w].packages /\ task'[w].op = task[w].op
        /\ task'[w].pod = task[w].pod /\ task'[w] \in Tasks
    BY <1>1, <2>1 DEF Tasks
  <2>3. KeptPackages \subseteq KeptPackages'
    BY <1>3, <2>1, <2>2, KeptStay DEF Kept
  <2>4. task'[w] # None /\ Locked(task[w])'
    BY <2>2, NoneIsNoTask DEF Locked
  <2>5. Range(task[w].packages) \subseteq HeldPackages'
    BY <2>2, <2>4 DEF HeldPackages, Locked
  <2> QED
    BY <2>1, <2>3, <2>5, HeldStay, OrphanKeeps
<1> QED
  BY <1>2, <1>3

(* A task outside of the mutex leaves the packages of every entry alone. *)
LEMMA OrphanOutside ==
    ASSUME BaseInv, HandlerInv, OrphanInv, NEW w \in Workers,
           \/ UpdateRead(w) \/ UpdateWrite(w) \/ DeleteCheck(w)
           \/ \E p \in Pods : Sync(w, p)
    PROVE  OrphanInv'
<1>1. UNCHANGED <<device, doubt, call, faults>>
  BY DEF UpdateRead, UpdateWrite, DeleteCheck, Sync, psVars, kubeVars
<1>2. task[w] = None \/ ~Locked(task[w])
  BY DEF UpdateRead, UpdateWrite, DeleteCheck, Sync, At, Locked
<1>3. /\ \A v \in Workers : v # w => task'[v] = task[v]
      /\ task'[w] = None \/ task'[w].pc \notin {"remove", "removing"}
  <2>1. CASE \E p \in Pods : Sync(w, p)
    BY <2>1, SyncIs
  <2>2. CASE UpdateWrite(w)
    BY <2>2, TaskIsNow DEF UpdateWrite, Done
  <2>3. CASE UpdateRead(w)
    <3>1. task[w] \in Tasks
      BY <2>3, TaskIs DEF UpdateRead, At
    <3>2. task'[w] = [task[w] EXCEPT !.pc = "update", !.packages = PackagesAt(MyKey(w))]
          /\ \A v \in Workers : v # w => task'[v] = task[v]
      BY <2>3 DEF UpdateRead, BaseInv, TypeOK
    <3>3. ASSUME NEW x, task'[w] = [task[w] EXCEPT !.pc = "update", !.packages = x]
          PROVE  task'[w].pc = "update"
      BY <3>1, <3>3 DEF Tasks
    <3> QED
      BY <3>2, <3>3
  <2>4. CASE DeleteCheck(w)
    <3>1. task[w] \in Tasks
      BY <2>4, TaskIs DEF DeleteCheck, At
    <3>2. Done(w) \/ Goto(w, "lock")
      BY <2>4 DEF DeleteCheck
    <3>3. /\ task'[w] = None \/ task'[w] = [task[w] EXCEPT !.pc = "lock"]
          /\ \A v \in Workers : v # w => task'[v] = task[v]
      BY <3>2 DEF Done, Goto, BaseInv, TypeOK
    <3> QED
      BY <3>1, <3>3 DEF Tasks
  <2> QED
    BY <2>1, <2>2, <2>3, <2>4
<1>4. \A k \in Kept : k \in DOMAIN pods' /\ pods'[k].packages = pods[k].packages
  <2>1. CASE UpdateWrite(w)
    <3>1. /\ task[w] # None /\ MyKey(w) \in DOMAIN pods
          /\ task[w].packages = pods[MyKey(w)].packages
      BY <2>1 DEF HandlerInv, Fits, UpdateWrite, At, MyKey
    <3> QED
      BY <2>1, <3>1 DEF UpdateWrite, Store, Kept
  <2>2. CASE UNCHANGED pods
    BY <2>2 DEF Kept
  <2> QED
    BY <2>1, <2>2 DEF UpdateRead, DeleteCheck, Sync
<1>5. KeptPackages \subseteq KeptPackages'
  BY <1>3, <1>4, KeptStay
<1>6. HeldPackages \subseteq KeptPackages' \cup HeldPackages'
  BY <1>2, <1>3, HeldStay
<1> QED
  BY <1>1, <1>5, <1>6, OrphanKeeps

(* The steps with the mutex that call nothing and write nothing. *)
LEMMA OrphanQuiet ==
    ASSUME BaseInv, OrphanInv, NEW w \in Workers,
           \/ CreateLock(w) \/ AdapterWatch(w) \/ CreateFailed(w)
           \/ Container(w) /\ (Goto(w, "adapter") \/ Goto(w, "remove")) /\ UNCHANGED psVars
           \/ (Adapter(w) \/ AdapterList(w)) /\ ~Created(w)
    PROVE  OrphanInv'
<1>1. task[w] # None /\ task[w].op = "CreatePod" /\ UNCHANGED <<pods, device, doubt, call, faults>>
  BY DEF CreateLock, AdapterWatch, CreateFailed, Container, Adapter, AdapterList, GoOn, At,
         psVars, kubeVars
<1>2. \/ Done(w) /\ task[w].packages = <<>>
      \/ \E pc \in {"container", "adapter", "remove", "watch", "list"} : Goto(w, pc)
  BY DEF CreateLock, AdapterWatch, CreateFailed, Container, Adapter, AdapterList, GoOn
<1> QED
  BY <1>1, <1>2, OrphanGoto DEF Pcs

(* The packages of a CreatePod become those of its pod. *)
LEMMA OrphanCreated ==
    ASSUME BaseInv, HandlerInv, OrphanInv, NEW w \in Workers,
           Adapter(w) \/ AdapterList(w), Created(w)
    PROVE  OrphanInv'
<1>1. /\ task[w] # None /\ task[w].pc \in {"adapter", "list"} /\ task[w].op = "CreatePod"
      /\ UNCHANGED <<device, doubt, call, faults>>
      /\ task'[w] = None /\ \A v \in Workers : v # w => task'[v] = task[v]
  BY TaskIsNow DEF Adapter, AdapterList, At, psVars, Created, Done
<1>2. /\ MyKey(w) \notin DOMAIN pods /\ DOMAIN pods' = DOMAIN pods \cup {MyKey(w)}
      /\ \A k \in DOMAIN pods : pods'[k] = pods[k]
      /\ pods'[MyKey(w)].packages = task[w].packages
  <2>1. MyKey(w) \notin DOMAIN pods
    BY <1>1 DEF HandlerInv, Fits, MyKey
  <2> QED
    BY <2>1 DEF Created, Store
<1>3. \A v \in Workers : v # w /\ task[v] # None => ~Locked(task[v])
  BY <1>1, Alone DEF Locked
<1>4. KeptPackages \subseteq KeptPackages'
  BY <1>1, <1>2, KeptStay DEF Kept
<1>5. MyKey(w) \in Kept'
  <2>1. \A k : ~Deleting(k)'
    BY <1>1, <1>3 DEF Deleting, At, Locked
  <2> QED
    BY <1>2, <2>1 DEF Kept
<1>6. Range(task[w].packages) \subseteq KeptPackages'
  BY <1>2, <1>5 DEF KeptPackages
<1> QED
  BY <1>1, <1>4, <1>6, HeldStay, OrphanKeeps

(* DeletePod takes the packages of the entry, and drops the entry when it has *)
(* removed them. *)
LEMMA OrphanDelete ==
    ASSUME BaseInv, OrphanInv, NEW w \in Workers, DeleteLock(w) \/ DeleteDone(w)
    PROVE  OrphanInv'
<1>1. /\ task[w] # None /\ task[w].op = "DeletePod" /\ task[w] \in Tasks
      /\ UNCHANGED <<device, doubt, call, faults>>
      /\ \A v \in Workers : v # w => task'[v] = task[v]
  <2>1. task[w] # None /\ task[w].op = "DeletePod" /\ UNCHANGED <<device, doubt, call, faults>>
    BY DEF DeleteLock, DeleteDone, At, psVars, kubeVars
  <2>2. \A v \in Workers : v # w => task'[v] = task[v]
    BY TaskIsNow DEF DeleteLock, DeleteDone, Done
  <2> QED
    BY <2>1, <2>2, TaskIs
<1>2. CASE DeleteLock(w)
  <2>1. UNCHANGED pods /\ task[w].pc = "lock"
    BY <1>2 DEF DeleteLock, At
  <2>2. task'[w] = [task[w] EXCEPT !.pc = "remove", !.packages = PackagesAt(MyKey(w))]
    BY <1>2 DEF DeleteLock, BaseInv, TypeOK
  <2>3. PackagesAt(MyKey(w)) \in Seq(Packages)
    BY PackagesAtType DEF BaseInv
  <2>4. /\ task'[w].pc = "remove" /\ task'[w].packages = PackagesAt(MyKey(w))
        /\ task'[w].op = "DeletePod" /\ task'[w].pod = task[w].pod /\ task'[w] # None
    <3>1. /\ task'[w].pc = "remove" /\ task'[w].packages = PackagesAt(MyKey(w))
          /\ task'[w].op = "DeletePod" /\ task'[w].pod = task[w].pod
      BY <1>1, <2>2 DEF Tasks
    <3>2. task'[w] \in Tasks
      BY <1>1, <2>2, <2>3 DEF Tasks, Pcs
    <3> QED
      BY <3>1, <3>2, NoneIsNoTask
  <2>5. Range(PackagesAt(MyKey(w))) \subseteq HeldPackages'
    BY <2>4 DEF HeldPackages, Locked
  <2>6. ASSUME NEW k \in Kept PROVE Range(pods[k].packages) \subseteq KeptPackages' \cup HeldPackages'
    <3>1. CASE k = MyKey(w)
      BY <2>5, <3>1 DEF PackagesAt, Kept
    <3>2. CASE k # MyKey(w)
      <4>1. ~Deleting(k)'
        <5>1. \A v \in Workers : \A pc \in {"remove", "removing"} :
                  At(v, "DeletePod", pc)' /\ MyKey(v)' = k => v # w
          BY <2>4, <3>2 DEF MyKey
        <5> QED
          BY <1>1, <5>1 DEF Kept, Deleting, At, MyKey
      <4>2. k \in Kept'
        BY <2>1, <4>1 DEF Kept
      <4> QED
        BY <2>1, <4>2 DEF KeptPackages
    <3> QED
      BY <3>1, <3>2
  <2>7. KeptPackages \subseteq KeptPackages' \cup HeldPackages'
    BY <2>6 DEF KeptPackages
  <2>8. HeldPackages \subseteq KeptPackages' \cup HeldPackages'
    BY <1>1, <2>1, HeldStay DEF Locked
  <2> QED
    BY <1>1, <2>7, <2>8, OrphanKeeps
<1>3. CASE DeleteDone(w)
  <2>1. /\ task[w].pc = "remove" /\ task'[w] = None /\ task[w].packages = <<>>
        /\ DOMAIN pods' = DOMAIN pods \ {MyKey(w)}
        /\ \A k \in DOMAIN pods' : pods'[k] = pods[k]
    BY <1>3, TaskIsNow DEF DeleteDone, At, Done
  <2>2. Deleting(MyKey(w))
    BY <1>1, <2>1 DEF Deleting, At
  <2>3. \A k \in Kept : k \in DOMAIN pods' /\ pods'[k].packages = pods[k].packages
    BY <2>1, <2>2 DEF Kept
  <2>4. KeptPackages \subseteq KeptPackages'
    BY <1>1, <2>1, <2>3, KeptStay
  <2>5. HeldPackages \subseteq KeptPackages' \cup HeldPackages'
    BY <1>1, <2>1, HeldStay, RangeEmpty
  <2> QED
    BY <1>1, <2>4, <2>5, OrphanKeeps
<1> QED
  BY <1>2, <1>3

(* A call of the library puts its own instance in doubt, and no other. *)
LEMMA OrphanCalls ==
    ASSUME BaseInv, OrphanInv, NEW w \in Workers,
           \/ CallRemovePackage(w)
           \/ /\ Container(w) /\ CallDeploy(MyImages(w)[Len(task[w].packages) + 1])
              /\ Goto(w, "deploying")
    PROVE  OrphanInv'
<1> SUFFICES ASSUME NoStrays PROVE NoStrays'
  BY DEF OrphanInv, CallRemovePackage, Container, kubeVars
<1>1. /\ task[w] # None /\ task[w].pc \in {"remove", "container"} /\ UNCHANGED pods
      /\ task[w].pc = "container" => task[w].op = "CreatePod"
      /\ \E pc \in {"removing", "deploying"} : Goto(w, pc) /\ (pc = "deploying" => task[w].pc = "container")
  BY DEF CallRemovePackage, Container, At
<1>2. PICK pc \in {"removing", "deploying"} :
          Goto(w, pc) /\ (pc = "deploying" => task[w].pc = "container")
  BY <1>1
<1>3. task[w] \in Tasks
  BY <1>1, TaskIs
<1>4. task'[w] = [task[w] EXCEPT !.pc = pc] /\ \A v \in Workers : v # w => task'[v] = task[v]
  BY <1>2, TaskIsNow DEF Goto
<1>5. /\ task'[w].pc = pc /\ task'[w].packages = task[w].packages /\ task'[w].op = task[w].op
      /\ task'[w].pod = task[w].pod /\ task'[w] \in Tasks
  BY <1>3, <1>4 DEF Tasks, Pcs
<1>6. KeptPackages \subseteq KeptPackages'
  BY <1>1, <1>2, <1>4, <1>5, KeptStay DEF Kept
<1>7. HeldPackages \subseteq KeptPackages' \cup HeldPackages'
  <2>1. Range(task[w].packages) \subseteq HeldPackages'
    BY <1>5, NoneIsNoTask DEF HeldPackages, Locked
  <2> QED
    BY <1>4, <2>1, HeldStay
<1>8. PICK id \in Ids : /\ call = None /\ call' # None /\ call'.id = id /\ call'.status = "running"
                        /\ doubt' = doubt \cup {id} /\ UNCHANGED device
  <2>1. ASSUME NEW op \in {"DeployPackage", "RemovePackage"}, NEW id \in Ids,
               NEW image \in Images \cup {None}, Begin(op, id, image)
        PROVE  /\ call = None /\ call' # None /\ call'.id = id /\ call'.status = "running"
               /\ doubt' = doubt \cup {id} /\ UNCHANGED device
    BY <2>1, NoneIsNoCall DEF Begin, Calls
  <2>2. CASE CallRemovePackage(w)
    <3>1. Head(task[w].packages) \in Packages
      BY <1>3, <2>2, HeadTailProperties DEF CallRemovePackage, Tasks
    <3>2. Head(task[w].packages).id \in Ids
      BY <3>1 DEF Packages
    <3> QED
      BY <2>1, <2>2, <3>2 DEF CallRemovePackage, CallRemove
  <2>3. CASE /\ Container(w) /\ CallDeploy(MyImages(w)[Len(task[w].packages) + 1])
             /\ Goto(w, "deploying")
    <3>1. PICK id \in Ids : Begin("DeployPackage", id, MyImages(w)[Len(task[w].packages) + 1])
      BY <2>3 DEF CallDeploy
    <3>2. call' # None
      <4>1. task'[w].pc = "deploying" /\ task'[w] # None
        <5>1. task'[w] = [task[w] EXCEPT !.pc = "deploying"]
          BY <2>3, TaskIsNow DEF Goto
        <5> QED
          BY <1>3, <1>5, <5>1, NoneIsNoTask DEF Tasks
      <4>2. CallerInv'
        BY <2>3, ContainerBase DEF BaseInv
      <4> QED
        BY <4>1, <4>2 DEF CallerInv, Deploys
    <3> QED
      BY <3>1, <3>2 DEF Begin
  <2> QED
    BY <2>2, <2>3
<1>9. \A i \in Ids : device[i] # None => Accounted(i)'
  BY <1>6, <1>7, <1>8 DEF NoStrays, Accounted
<1> QED
  BY <1>8, <1>9 DEF NoStrays

(* The package of the call that returned becomes one of its task, or is gone  *)
(* from the device and from its task.                                         *)
LEMMA OrphanCollect ==
    ASSUME BaseInv, OrphanInv, NEW w \in Workers, Deployed(w) \/ Removed(w)
    PROVE  OrphanInv'
<1> SUFFICES ASSUME NoStrays PROVE NoStrays'
  BY DEF OrphanInv, Deployed, Removed, kubeVars
<1>1. /\ task[w] # None /\ task[w].pc \in {"deploying", "removing"} /\ UNCHANGED <<pods, device, doubt>>
      /\ call # None /\ call.status # "running" /\ call' = None
      /\ task[w].pc = "deploying" => task[w].op = "CreatePod"
  BY DEF Deployed, Removed, At, Collect
<1>2. task[w] \in Tasks /\ task[w].packages \in Seq(Packages)
  BY <1>1, TaskIs
<1>3. call.status = "ok" /\ doubt = {} /\ (call.op = "RemovePackage" => device[call.id] = None)
  BY <1>1 DEF NoStrays
<1>4. ASSUME NEW packages, NEW pc \in {"container", "remove"},
             \A v \in Workers : v # w => task'[v] = task[v],
             task'[w] # None, task'[w].pc = pc, task'[w].packages = packages,
             task'[w].op = task[w].op, task'[w].pod = task[w].pod,
             pc = "remove" => task[w].pc = "removing",
             \A o \in Range(task[w].packages) : o \in Range(packages) \/ device[o.id] = None,
             device[call.id] # None => \E o \in Range(packages) : o.id = call.id
      PROVE  NoStrays'
  <2>1. KeptPackages \subseteq KeptPackages'
    BY <1>1, <1>4, KeptStay DEF Kept
  <2>2. Range(packages) \subseteq HeldPackages'
    BY <1>4 DEF HeldPackages, Locked
  <2>3. ASSUME NEW o \in HeldPackages PROVE o \in HeldPackages' \/ device[o.id] = None
    <3>1. PICK v \in Workers : task[v] # None /\ Locked(task[v]) /\ o \in Range(task[v].packages)
      BY DEF HeldPackages
    <3>2. CASE v = w
      BY <1>4, <2>2, <3>1, <3>2
    <3>3. CASE v # w
      BY <1>4, <3>1, <3>3 DEF HeldPackages, Locked
    <3> QED
      BY <3>2, <3>3
  <2>4. ASSUME NEW i \in Ids, device[i] # None PROVE Accounted(i)'
    BY <1>4, <2>1, <2>2, <2>3, <2>4 DEF NoStrays, Accounted
  <2> QED
    BY <1>1, <1>3, <2>4 DEF NoStrays
<1>5. CASE Deployed(w)
  <2> DEFINE package == [id |-> call.id, image |-> call.image]
             packages == Append(task[w].packages, package)
  <2>1. task[w].pc = "deploying" /\ task[w].op = "CreatePod"
    BY <1>5 DEF Deployed, At
  <2>2. package \in Packages /\ packages \in Seq(Packages)
    BY <1>1, <2>1, PackageOf
  <2>3. task'[w] = [task[w] EXCEPT !.pc = "container", !.packages = packages]
        /\ \A v \in Workers : v # w => task'[v] = task[v]
    BY <1>3, <1>5 DEF Deployed, Keeps, BaseInv, TypeOK
  <2>4. \A o \in Range(task[w].packages) \cup {package} : o \in Range(packages)
    BY <1>2, <2>2, AppendProperties, LenProperties DEF Range
  <2>5. package.id = call.id
    OBVIOUS
  <2>6. /\ task'[w] # None /\ task'[w].pc = "container" /\ task'[w].packages = packages
        /\ task'[w].op = task[w].op /\ task'[w].pod = task[w].pod
    <3>1. /\ task'[w].pc = "container" /\ task'[w].packages = packages
          /\ task'[w].op = task[w].op /\ task'[w].pod = task[w].pod
      BY <1>2, <2>3 DEF Tasks
    <3>2. task'[w] \in Tasks
      BY <1>2, <2>2, <2>3 DEF Tasks, Pcs
    <3> QED
      BY <3>1, <3>2, NoneIsNoTask
  <2> HIDE DEF package, packages
  <2> QED
    BY <1>4, <2>3, <2>4, <2>5, <2>6
<1>6. CASE Removed(w)
  <2> DEFINE packages == Tail(task[w].packages)
  <2>1. task[w].pc = "removing" /\ Removes(task[w])
    BY <1>1, <1>6 DEF Removed, BaseInv, CallerInv
  <2>2. packages \in Seq(Packages)
    BY <1>2, <2>1, HeadTailProperties DEF Removes
  <2>3. task'[w] = [task[w] EXCEPT !.pc = "remove", !.packages = packages]
        /\ \A v \in Workers : v # w => task'[v] = task[v]
    BY <1>6 DEF Removed, BaseInv, TypeOK
  <2>4. ASSUME NEW o \in Range(task[w].packages), o # Head(task[w].packages)
        PROVE  o \in Range(packages)
    <3>1. PICK i \in DOMAIN task[w].packages : o = task[w].packages[i]
      BY DEF Range
    <3>2. /\ i \in 1..Len(task[w].packages) /\ Len(task[w].packages) \in Nat /\ i # 1
      BY <1>2, <2>1, <2>4, <3>1, LenProperties, HeadTailProperties DEF Removes
    <3>3. i - 1 \in 1..Len(packages) /\ packages[i - 1] = o
      BY <1>2, <2>1, <3>1, <3>2, HeadTailProperties DEF Removes
    <3> QED
      BY <2>2, <3>3, LenProperties DEF Range
  <2>5. device[Head(task[w].packages).id] = None /\ call.id = Head(task[w].packages).id
    BY <1>3, <2>1 DEF Removes
  <2>6. /\ task'[w] # None /\ task'[w].pc = "remove" /\ task'[w].packages = packages
        /\ task'[w].op = task[w].op /\ task'[w].pod = task[w].pod
    <3>1. /\ task'[w].pc = "remove" /\ task'[w].packages = packages
          /\ task'[w].op = task[w].op /\ task'[w].pod = task[w].pod
      BY <1>2, <2>3 DEF Tasks
    <3>2. task'[w] \in Tasks
      BY <1>2, <2>2, <2>3 DEF Tasks, Pcs
    <3> QED
      BY <3>1, <3>2, NoneIsNoTask
  <2> HIDE DEF packages
  <2>7. \A o \in Range(task[w].packages) : o \in Range(packages) \/ device[o.id] = None
    BY <2>4, <2>5
  <2> QED
    BY <1>4, <2>1, <2>3, <2>5, <2>6, <2>7
<1> QED
  BY <1>5, <1>6

(* The device answers, or a late request takes effect: only the instance of   *)
(* the call changes.                                                          *)
LEMMA OrphanDevice ==
    ASSUME BaseInv, OrphanInv, UNCHANGED <<pods, task, faults>>, DeployOk \/ RemoveOk \/ Drift
    PROVE  OrphanInv'
<1> SUFFICES ASSUME NoStrays PROVE NoStrays'
  BY DEF OrphanInv
<1>1. KeptPackages' = KeptPackages /\ HeldPackages' = HeldPackages
  BY DEF KeptPackages, Kept, Deleting, At, MyKey, HeldPackages, Locked
<1>2. PSTypeOK
  BY DEF BaseInv, TypeOK
<1>3. CASE DeployOk \/ RemoveOk
  <2>1. /\ call \in Calls /\ call # None /\ call' # None
        /\ call'.op = call.op /\ call'.id = call.id /\ doubt' = {}
        /\ \A i \in Ids : i # call.id => device'[i] = device[i]
    BY <1>2, <1>3, SameCall DEF PSReturns, DeployOk, RemoveOk, PSTypeOK
  <2>2. call'.status = "ok"
    BY <1>3, <2>1 DEF DeployOk, RemoveOk, Return, Calls
  <2>3. call'.op = "RemovePackage" => device'[call'.id] = None
    BY <1>2, <1>3, <2>1 DEF DeployOk, RemoveOk, Running, PSTypeOK, Calls
  <2>4. \A i \in Ids : device'[i] # None => Accounted(i)'
    BY <1>1, <2>1 DEF NoStrays, Accounted
  <2> QED
    BY <2>1, <2>2, <2>3, <2>4 DEF NoStrays
<1>4. CASE Drift
  <2>1. /\ call' = call /\ doubt' \subseteq doubt
        /\ \A i \in Ids : i \notin doubt => device'[i] = device[i]
    BY <1>2, <1>4 DEF Drift, PSTypeOK
  <2>2. doubt # {}
    BY <1>4 DEF Drift
  <2>3. call # None /\ doubt \subseteq {call.id} /\ call.status = "running"
    BY <2>2 DEF NoStrays
  <2>4. \A i \in Ids : device'[i] # None => Accounted(i)'
    BY <1>1, <2>1, <2>3 DEF NoStrays, Accounted
  <2> QED
    BY <2>1, <2>3, <2>4 DEF NoStrays
<1> QED
  BY <1>3, <1>4

LEMMA OrphanStep ==
    ASSUME BaseInv, HandlerInv, OrphanInv, [Next]_vars PROVE OrphanInv'
<1>1. CASE UNCHANGED <<pods, task, psVars, faults>>
  <2>1. KeptPackages' = KeptPackages /\ HeldPackages' = HeldPackages
    BY <1>1 DEF KeptPackages, Kept, Deleting, At, MyKey, HeldPackages, Locked
  <2> QED
    BY <1>1, <2>1, OrphanKeeps DEF psVars
<1>2. ASSUME NEW w \in Workers, NEW p \in Pods, Sync(w, p) PROVE OrphanInv'
  BY <1>2, OrphanOutside
<1>3. ASSUME NEW w \in Workers, Step(w) PROVE OrphanInv'
  <2>1. CASE CreateLock(w) \/ AdapterWatch(w) \/ CreateFailed(w)
    BY <2>1, OrphanQuiet
  <2>2. CASE Container(w)
    BY <2>2, OrphanQuiet, OrphanCalls DEF Container
  <2>3. CASE Deployed(w) \/ Removed(w)
    BY <2>3, OrphanCollect
  <2>4. CASE Adapter(w) \/ AdapterList(w)
    BY <2>4, OrphanQuiet, OrphanCreated
  <2>5. CASE UpdateRead(w) \/ UpdateWrite(w) \/ DeleteCheck(w)
    BY <2>5, OrphanOutside
  <2>6. CASE DeleteLock(w) \/ DeleteDone(w)
    BY <2>6, OrphanDelete
  <2>7. CASE CallRemovePackage(w)
    BY <2>7, OrphanCalls
  <2> QED
    BY <1>3, <2>1, <2>2, <2>3, <2>4, <2>5, <2>6, <2>7 DEF Step
<1>4. CASE Answer \/ LateEffect
  BY <1>4, OrphanDevice DEF Answer, LateEffect, kubeVars
<1>5. CASE NoAnswer \/ Crash \/ \E s \in Scrapers : ScrapePanics(s)
  <2>1. faults' = faults + 1 /\ faults \in Nat
    BY <1>5, ProviderAssumption DEF NoAnswer, Crash, ScrapePanics, Fault, BaseInv, TypeOK
  <2> QED
    BY <2>1 DEF OrphanInv
<1>6. ASSUME NEW s \in Scrapers, ScrapeNext(s) \/ ScrapeLock(s) \/ ScrapeUnlock(s)
      PROVE  UNCHANGED <<pods, task, psVars, faults>>
  BY <1>6 DEF ScrapeNext, ScrapeLock, ScrapeUnlock, kubeVars
<1>7. ASSUME NEW p \in Pods, KubernetesWants(p) PROVE UNCHANGED <<pods, task, psVars, faults>>
  BY <1>7 DEF KubernetesWants
<1> QED
  BY <1>1, <1>2, <1>3, <1>4, <1>5, <1>6, <1>7 DEF Next, vars

(* When the mutex is free no task holds a package, no pod is being deleted    *)
(* and no call is in progress.                                                *)
LEMMA OrphanFollows == BaseInv /\ OrphanInv => NoOrphans
<1> SUFFICES ASSUME BaseInv, NoStrays, mutex = None, NEW i \in Ids, device[i] # None
             PROVE  \E o \in Owned : o[3].id = i
  BY DEF OrphanInv, NoOrphans
<1>1. \A w \in Workers : task[w] # None => ~Locked(task[w])
  BY ProviderAssumption DEF BaseInv, MutexInv
<1>2. call = None /\ HeldPackages = {}
  BY <1>1 DEF BaseInv, CallerInv, Calling, Locked, HeldPackages
<1>3. PICK k \in Kept : \E o \in Range(pods[k].packages) : o.id = i
  BY <1>2 DEF NoStrays, Accounted, KeptPackages
<1>4. PICK j \in DOMAIN pods[k].packages : pods[k].packages[j].id = i
  BY <1>3 DEF Range
<1> DEFINE o == <<k, j, pods[k].packages[j]>>
<1>5. o \in Owned
  <2>1. k \in {q \in DOMAIN pods : ~Deleting(q)}
    BY DEF Kept
  <2>2. o \in {<<k, l, pods[k].packages[l]>> : l \in DOMAIN pods[k].packages}
    BY <1>4
  <2> HIDE DEF o
  <2> QED
    BY <2>1, <2>2 DEF Owned
<1>6. o[3] = pods[k].packages[j]
  OBVIOUS
<1> QED
  BY <1>4, <1>5, <1>6

(* When no two pods have one key: as long as no call of the library failed    *)
(* and the kubelet did not crash, whatever else failed, the device runs the   *)
(* packages of the pods in the map and no others whenever the mutex is free.  *)
THEOREM NothingLeftBehind == ASSUME KeysDiffer PROVE Spec => []NoOrphans
<1>1. BaseInv /\ HandlerInv /\ [Next]_vars => HandlerInv'
  BY HandlerStep
<1>2. BaseInv /\ HandlerInv /\ OrphanInv /\ [Next]_vars => OrphanInv'
  BY OrphanStep
<1> QED
  BY <1>1, <1>2, InitHandler, InitOrphan, OrphanFollows, BaseHolds, PTL DEF Spec
=============================================================================
