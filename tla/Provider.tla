------------------------------ MODULE Provider ------------------------------
(***************************************************************************)
(* The provider of providers/fhpAicos/fhpAicos.go in NextGenGW mode:       *)
(* CreatePod, UpdatePod, DeletePod, GetPod and GetMetricsResource over the *)
(* map p.pods, the mutex, and the packages on the device.                  *)
(*                                                                         *)
(* They are called by Virtual Kubelet (external): its workers take pods    *)
(* from a queue that never hands one pod to two workers, ask GetPod, and   *)
(* call one of the three handlers.  A scraper calls GetMetricsResource at  *)
(* any time.  The kubelet may crash and lose p.pods and InstanceInUse.     *)
(***************************************************************************)
EXTENDS PackageService, SequencesExt, FiniteSets

CONSTANTS
    Pods,        \* pods Kubernetes schedules on this node
    Keys,        \* keys of p.pods
    KeyOf,       \* KeyOf[p]: buildKey(p)
    Containers,  \* Containers[p][r]: the images of the containers of revision r of pod p
    Adapted,     \* pods that ask for a communication adapter
    Workers,     \* Virtual Kubelet's pod workers
    Scrapers,    \* goroutines that serve GetMetricsResource
    MaxFaults    \* bound: failed calls of nextgengw, panics and crashes

ASSUME ProviderAssumption ==
    /\ KeyOf \in [Pods -> Keys]
    /\ \A p \in Pods : Containers[p] \in Seq(Seq(Images))
    /\ Adapted \subseteq Pods
    /\ Workers \cap Scrapers = {}
    /\ None \notin Workers \cup Scrapers
    /\ MaxFaults \in Nat

VARIABLES
    pods,     \* p.pods: a function from the keys in the map to ProviderPods
    mutex,    \* p.mutex: its holder, or None
    task,     \* task[w]: the handler worker w runs, or None
    scrape,   \* scrape[s]: where GetMetricsResource is
    want,     \* want[p]: the revision Kubernetes wants, 0 when the pod is to go
    told,     \* told[p]: the phase last given to the notifier, or None
    faults    \* failed calls, panics and crashes so far

vars == <<pods, mutex, task, scrape, want, told, faults, psVars>>
kubeVars == <<want, told, faults>>

Revisions(p) == DOMAIN Containers[p]
Packages == [id : Ids, image : Images]
ProviderPods == [pod : Pods, rev : Nat, packages : Seq(Packages)]
Pcs == {"lock", "container", "deploying", "adapter", "watch", "list", "update", "check", "remove", "removing"}
Tasks == [op : {"CreatePod", "UpdatePod", "DeletePod"}, pc : Pcs, pod : Pods,
          rev : Nat, packages : Seq(Packages)]
ApiPhases == {"Pending", "Running"}   \* of a pod Virtual Kubelet has updated
Phases == ApiPhases \cup {"Succeeded"}
ASSUME NoneIsNoTask == None \notin Tasks \cup Phases

TypeOK == /\ PSTypeOK
          /\ DOMAIN pods \subseteq Keys
          /\ \A k \in DOMAIN pods : pods[k] \in ProviderPods
          /\ mutex \in Workers \cup Scrapers \cup {None}
          /\ task \in [Workers -> Tasks \cup {None}]
          /\ scrape \in [Scrapers -> {"idle", "lock", "inside", "panicked"}]
          /\ \A p \in Pods : want[p] \in Revisions(p) \cup {0}
          /\ told \in [Pods -> Phases \cup {None}]
          /\ faults \in 0..MaxFaults

Init == /\ PSInit
        /\ pods = << >>
        /\ mutex = None
        /\ task = [w \in Workers |-> None]
        /\ scrape = [s \in Scrapers |-> "idle"]
        /\ want = [p \in Pods |-> 0]
        /\ told = [p \in Pods |-> None]
        /\ faults = 0

-----------------------------------------------------------------------------
(* p.pods[key] with no entry is the zero ProviderPod, which has no packages. *)
PackagesAt(k) == IF k \in DOMAIN pods THEN pods[k].packages ELSE <<>>

Store(k, entry) == pods' = [j \in DOMAIN pods \cup {k} |-> IF j = k THEN entry ELSE pods[j]]

At(w, op, pc) == task[w] # None /\ task[w].op = op /\ task[w].pc = pc
Goto(w, pc) == task' = [task EXCEPT ![w].pc = pc]
Done(w) == task' = [task EXCEPT ![w] = None]
Lock(w) == mutex = None /\ mutex' = w
Unlock == mutex' = None
MyKey(w) == KeyOf[task[w].pod]
MyImages(w) == Containers[task[w].pod][task[w].rev]

-----------------------------------------------------------------------------
(* Kubernetes and Virtual Kubelet (external). *)

(* A pod is created, changed or deleted at the API server. *)
KubernetesWants(p) ==
    /\ \E r \in Revisions(p) \cup {0} : want[p] # r /\ want' = [want EXCEPT ![p] = r]
    /\ UNCHANGED <<pods, mutex, task, scrape, told, faults, psVars>>

Start(w, op, pc, p) ==
    task' = [task EXCEPT ![w] = [op |-> op, pc |-> pc, pod |-> p, rev |-> want[p],
                                 packages |-> <<>>]]

(* A worker takes pod p, looks it up with GetPod, and calls a handler. *)
Sync(w, p) ==
    /\ task[w] = None
    /\ \A v \in Workers : task[v] # None => task[v].pod # p
    /\ LET known == KeyOf[p] \in DOMAIN pods
       IN \/ want[p] = 0 /\ Start(w, "DeletePod", "check", p)
          \/ want[p] # 0 /\ ~known /\ Start(w, "CreatePod", "lock", p)
          \/ /\ want[p] # 0 /\ known
             /\ <<pods[KeyOf[p]].pod, pods[KeyOf[p]].rev>> # <<p, want[p]>>
             /\ Start(w, "UpdatePod", "lock", p)
    /\ UNCHANGED <<pods, mutex, scrape, kubeVars, psVars>>

-----------------------------------------------------------------------------
(* CreatePod *)

CreateLock(w) ==
    /\ At(w, "CreatePod", "lock")
    /\ Lock(w)
    /\ Goto(w, "container")
    /\ UNCHANGED <<pods, scrape, kubeVars, psVars>>

(* Mutant: nobody looks whether the image is installed. *)
NeverInstalled(image) == FALSE

(* The image is one of the packages of some pod in the map. *)
Installed(image) == \E k \in DOMAIN pods : \E pkg \in Range(pods[k].packages) : pkg.image = image

(* The loop over the containers: the next one is refused when its image is   *)
(* already installed or cannot be fetched (FetchPackage), else it is deployed. *)
Container(w) ==
    LET n == Len(task[w].packages) + 1
    IN  /\ At(w, "CreatePod", "container")
        /\ \/ /\ n > Len(MyImages(w))
              /\ Goto(w, "adapter")
              /\ UNCHANGED psVars
           \/ /\ n <= Len(MyImages(w))
              /\ Goto(w, "remove")
              /\ UNCHANGED psVars
           \/ /\ n <= Len(MyImages(w))
              /\ ~Installed(MyImages(w)[n])
              /\ CallDeploy(MyImages(w)[n])
              /\ Goto(w, "deploying")
        /\ UNCHANGED <<pods, mutex, scrape, kubeVars>>

(* The package is appended to the pod's, and the loop goes on. *)
Keeps(w, package) ==
    task' = [task EXCEPT ![w].pc = "container", ![w].packages = Append(@, package)]

(* Mutant: the package counts as deployed whatever DeployPackage returned. *)
DeployedAlways(w) ==
    /\ At(w, "CreatePod", "deploying")
    /\ Collect
    /\ Keeps(w, [id |-> call.id, image |-> call.image])
    /\ UNCHANGED <<pods, mutex, scrape, kubeVars>>

(* DeployPackage has returned.  What the code does with a non-zero id after  *)
(* an error, leshan.RemovePackage, reaches no device in NextGenGW mode.      *)
Deployed(w) ==
    /\ At(w, "CreatePod", "deploying")
    /\ Collect
    /\ IF call.status = "ok" THEN Keeps(w, [id |-> call.id, image |-> call.image])
                             ELSE Goto(w, "remove")
    /\ UNCHANGED <<pods, mutex, scrape, kubeVars>>

(* The pod goes into the map and the notifier is told.                       *)
Created(w) ==
    LET t == task[w]
    IN  /\ Store(MyKey(w), [pod |-> t.pod, rev |-> t.rev, packages |-> t.packages])
        /\ told' = [told EXCEPT ![t.pod] = "Running"]
        /\ Unlock
        /\ Done(w)

GoOn(w, pc) == Goto(w, pc) /\ UNCHANGED <<pods, mutex, told>>

(* deployCommunicationInterfaceAdapter, with the mutex held, for a pod that   *)
(* asks for it.  A deployment that exists and has pods is used as it is; one  *)
(* that is new or has none yet is watched.                                    *)
Adapter(w) ==
    /\ At(w, "CreatePod", "adapter")
    /\ \/ Created(w)
       \/ task[w].pod \in Adapted /\ GoOn(w, "watch")
       \/ task[w].pod \in Adapted /\ GoOn(w, "remove")
    /\ UNCHANGED <<scrape, want, faults, psVars>>

(* The watch fails, or ends: a replica is available, or the server closed it. *)
AdapterWatch(w) ==
    /\ At(w, "CreatePod", "watch")
    /\ GoOn(w, "list") \/ GoOn(w, "remove")
    /\ UNCHANGED <<scrape, want, faults, psVars>>

(* The first pod of the list is taken.  The list may be empty after a watch   *)
(* that was closed early: the process then ends as in Crash.                  *)
AdapterList(w) ==
    /\ At(w, "CreatePod", "list")
    /\ Created(w) \/ GoOn(w, "remove")
    /\ UNCHANGED <<scrape, want, faults, psVars>>

-----------------------------------------------------------------------------
(* UpdatePod takes no lock: it reads the entry, and writes it back with the  *)
(* pod it was given, whose phase is the API server's: that of an earlier      *)
(* notification.                                                              *)

UpdateRead(w) ==
    /\ At(w, "UpdatePod", "lock")
    /\ task' = [task EXCEPT ![w].pc = "update", ![w].packages = PackagesAt(MyKey(w))]
    /\ UNCHANGED <<pods, mutex, scrape, kubeVars, psVars>>

(* The notifier is told the phase of the pod UpdatePod was given. *)
Reports(p) == \E phase \in ApiPhases : told' = [told EXCEPT ![p] = phase]

(* Mutant: the new entry is made of the pod alone. *)
UpdateForgets(w) ==
    LET t == task[w]
    IN  /\ At(w, "UpdatePod", "update")
        /\ Store(MyKey(w), [pod |-> t.pod, rev |-> t.rev, packages |-> <<>>])
        /\ Reports(t.pod)
        /\ Done(w)
        /\ UNCHANGED <<mutex, scrape, want, faults, psVars>>

UpdateWrite(w) ==
    LET t == task[w]
    IN  /\ At(w, "UpdatePod", "update")
        /\ Store(MyKey(w), [pod |-> t.pod, rev |-> t.rev, packages |-> t.packages])
        /\ Reports(t.pod)
        /\ Done(w)
        /\ UNCHANGED <<mutex, scrape, want, faults, psVars>>

-----------------------------------------------------------------------------
(* DeletePod *)

(* The look-up comes before the lock. *)
DeleteCheck(w) ==
    /\ At(w, "DeletePod", "check")
    /\ IF MyKey(w) \in DOMAIN pods THEN Goto(w, "lock") ELSE Done(w)
    /\ UNCHANGED <<pods, mutex, scrape, kubeVars, psVars>>

DeleteLock(w) ==
    /\ At(w, "DeletePod", "lock")
    /\ Lock(w)
    /\ task' = [task EXCEPT ![w].pc = "remove", ![w].packages = PackagesAt(MyKey(w))]
    /\ UNCHANGED <<pods, scrape, kubeVars, psVars>>

(* The loop over the packages to remove, of DeletePod and of a CreatePod     *)
(* that failed.  An error of RemovePackage is only logged.                   *)
CallRemovePackage(w) ==
    /\ task[w] # None
    /\ task[w].pc = "remove"
    /\ task[w].packages # <<>>
    /\ CallRemove(Head(task[w].packages).id)
    /\ Goto(w, "removing")
    /\ UNCHANGED <<pods, mutex, scrape, kubeVars>>

Removed(w) ==
    /\ task[w] # None
    /\ task[w].pc = "removing"
    /\ Collect
    /\ task' = [task EXCEPT ![w].pc = "remove", ![w].packages = Tail(@)]
    /\ UNCHANGED <<pods, mutex, scrape, kubeVars>>

(* Mutant: CreatePod returns its error without rolling back. *)
FailedWithoutRollback(w) ==
    /\ At(w, "CreatePod", "remove")
    /\ Unlock
    /\ Done(w)
    /\ UNCHANGED <<pods, scrape, kubeVars, psVars>>

(* Mutant: CreatePod returns its error without releasing the mutex. *)
FailedWithoutUnlock(w) ==
    /\ At(w, "CreatePod", "remove")
    /\ task[w].packages = <<>>
    /\ Done(w)
    /\ UNCHANGED <<pods, mutex, scrape, kubeVars, psVars>>

CreateFailed(w) ==
    /\ At(w, "CreatePod", "remove")
    /\ task[w].packages = <<>>
    /\ Unlock
    /\ Done(w)
    /\ UNCHANGED <<pods, scrape, kubeVars, psVars>>

(* Mutant: the pod stays in the map. *)
DeletedStays(w) ==
    /\ At(w, "DeletePod", "remove")
    /\ task[w].packages = <<>>
    /\ told' = [told EXCEPT ![task[w].pod] = "Succeeded"]
    /\ Unlock
    /\ Done(w)
    /\ UNCHANGED <<pods, scrape, want, faults, psVars>>

DeleteDone(w) ==
    /\ At(w, "DeletePod", "remove")
    /\ task[w].packages = <<>>
    /\ pods' = [k \in DOMAIN pods \ {MyKey(w)} |-> pods[k]]
    /\ told' = [told EXCEPT ![task[w].pod] = "Succeeded"]
    /\ Unlock
    /\ Done(w)
    /\ UNCHANGED <<scrape, want, faults, psVars>>

-----------------------------------------------------------------------------
(* GetMetricsResource walks the map without the lock, and takes it around    *)
(* each GetPackageStats and GetNodeStats.  Their type assertions on the       *)
(* answer are not checked: one that fails panics between Lock and Unlock, and *)
(* net/http goes on without the request, whose mutex nobody releases.         *)

ScrapeNext(s) ==
    /\ scrape[s] = "idle"
    /\ scrape' = [scrape EXCEPT ![s] = "lock"]
    /\ UNCHANGED <<pods, mutex, task, kubeVars, psVars>>

(* Mutant: the mutex is not taken. *)
ScrapeWithoutLock(s) ==
    /\ scrape[s] = "lock"
    /\ scrape' = [scrape EXCEPT ![s] = "inside"]
    /\ UNCHANGED <<pods, mutex, task, kubeVars, psVars>>

ScrapeLock(s) ==
    /\ scrape[s] = "lock"
    /\ Lock(s)
    /\ scrape' = [scrape EXCEPT ![s] = "inside"]
    /\ UNCHANGED <<pods, task, kubeVars, psVars>>

ScrapeUnlock(s) ==
    /\ scrape[s] = "inside"
    /\ Unlock
    /\ scrape' = [scrape EXCEPT ![s] = "idle"]
    /\ UNCHANGED <<pods, task, kubeVars, psVars>>

Fault == /\ faults < MaxFaults
         /\ faults' = faults + 1

ScrapePanics(s) ==
    /\ scrape[s] = "inside"
    /\ Fault
    /\ scrape' = [scrape EXCEPT ![s] = "panicked"]
    /\ UNCHANGED <<pods, mutex, task, want, told, psVars>>

-----------------------------------------------------------------------------
(* The package service goes on by itself. *)

Answer == /\ DeployOk \/ RemoveOk
          /\ UNCHANGED <<pods, mutex, task, scrape, kubeVars>>

NoAnswer == /\ DeployErr \/ RemoveErr
            /\ Fault
            /\ UNCHANGED <<pods, mutex, task, scrape, want, told>>

LateEffect == Drift /\ UNCHANGED <<pods, mutex, task, scrape, kubeVars>>

Crash == /\ PSCrash
         /\ Fault
         /\ pods' = << >>
         /\ mutex' = None
         /\ task' = [w \in Workers |-> None]
         /\ scrape' = [s \in Scrapers |-> "idle"]
         /\ told' = [p \in Pods |-> None]
         /\ UNCHANGED want

Step(w) == \/ CreateLock(w) \/ Container(w) \/ Deployed(w)
           \/ Adapter(w) \/ AdapterWatch(w) \/ AdapterList(w)
           \/ UpdateRead(w) \/ UpdateWrite(w)
           \/ DeleteCheck(w) \/ DeleteLock(w) \/ DeleteDone(w)
           \/ CallRemovePackage(w) \/ Removed(w) \/ CreateFailed(w)

Next == \/ \E p \in Pods : KubernetesWants(p)
        \/ \E w \in Workers : (\E p \in Pods : Sync(w, p)) \/ Step(w)
        \/ \E s \in Scrapers : ScrapeNext(s) \/ ScrapeLock(s) \/ ScrapeUnlock(s)
                                 \/ ScrapePanics(s)
        \/ Answer \/ NoAnswer \/ LateEffect \/ Crash

Spec == Init /\ [][Next]_vars

(* Fairness: the goroutines run; every call of nextgengw returns or panics,    *)
(* for it waits at most TIMEOUT for each answer; single calls of the API       *)
(* server return; a mutex and Virtual Kubelet's queue serve whoever waits long *)
(* enough.  That the watch for the adapter ends is not assumed: it has no      *)
(* time limit.                                                                 *)
Fairness == /\ \A w \in Workers : /\ WF_vars(Step(w) /\ ~At(w, "CreatePod", "watch"))
                                  /\ SF_vars(CreateLock(w) \/ DeleteLock(w))
            /\ \A s \in Scrapers : WF_vars(ScrapeUnlock(s))
            /\ WF_vars(Answer \/ NoAnswer)
            /\ \A p \in Pods : SF_vars(\E w \in Workers : Sync(w, p))

FairSpec == Spec /\ Fairness

-----------------------------------------------------------------------------
(* Properties. *)

(* Worker w is in DeletePod, past the lock, for key k. *)
Deleting(k) == \E w \in Workers : \E pc \in {"remove", "removing"} :
                   At(w, "DeletePod", pc) /\ MyKey(w) = k

Building(w) == \E pc \in {"container", "deploying", "adapter", "watch", "list"} : At(w, "CreatePod", pc)

(* The packages the kubelet counts on, as <<owner, position, package>>: those *)
(* of the pods in the map, but for the one DeletePod works on, and those a    *)
(* CreatePod that has not failed so far has deployed.                         *)
Owned == UNION ({{<<k, i, pods[k].packages[i]>> : i \in DOMAIN pods[k].packages} :
                   k \in {j \in DOMAIN pods : ~Deleting(j)}}
                \cup
                {{<<w, i, task[w].packages[i]>> : i \in DOMAIN task[w].packages} :
                   w \in {v \in Workers : Building(v)}})

(* A package the kubelet counts on is running: the device has its image       *)
(* active in its instance, its id is in InstanceInUse, and no request that    *)
(* went unanswered can still change it.  Broken by an id handed out twice, a  *)
(* roll-back or a DeletePod that removes another pod's package, an UpdatePod  *)
(* that writes back an entry whose packages are gone.                         *)
OwnedActive == \A o \in Owned : /\ device[o[3].id] = o[3].image
                                /\ o[3].id \in inUse \ doubt

(* "embServe services must be unique": no image is deployed twice, and no     *)
(* instance belongs to two containers.                                        *)
OwnedOnce == \A o, q \in Owned : o # q => o[3].image # q[3].image /\ o[3].id # q[3].id

(* "nextgengw lib is not thread safe": one goroutine at a time is inside it,  *)
(* workers in CreatePod and DeletePod and the scraper alike.                  *)
LibraryExclusive ==
    Cardinality({w \in Workers : task[w] # None /\ task[w].pc \in {"deploying", "removing"}}
                \cup {s \in Scrapers : scrape[s] = "inside"}) <= 1

(* As long as no call of the library failed or panicked and the kubelet did   *)
(* not crash, whenever the mutex is free the device runs the packages of the  *)
(* pods in the map and no others: whatever else fails, CreatePod rolls back   *)
(* all it did.                                                                *)
NoOrphans == faults = 0 /\ mutex = None =>
                 \A i \in Ids : device[i] # None => \E o \in Owned : o[3].id = i

(* What the notifier was told last is so, by CreatePod, UpdatePod or          *)
(* DeletePod: a pod reported Running or Pending is in the map under its key,  *)
(* with a package for each of its containers, on which GetStatsSummary        *)
(* relies, and one reported Succeeded is not in the map.                      *)
ToldIsTrue == \A p \in Pods :
    (\A w \in Workers : task[w] # None => task[w].pod # p) =>
        LET known == KeyOf[p] \in DOMAIN pods /\ pods[KeyOf[p]].pod = p
            entry == pods[KeyOf[p]]
        IN  /\ told[p] \in ApiPhases =>
                   known /\ Len(entry.packages) = Len(Containers[p][entry.rev])
            /\ told[p] = "Succeeded" => ~known

(* Goroutine g holds the mutex where the code bounds its time in no way: a    *)
(* scraper after a panic in GetPackageStats or GetNodeStats (1074, 1223), a   *)
(* CreatePod in the watch for the adapter (407).                              *)
Holds(g) == /\ mutex = g
            /\ \/ g \in Scrapers /\ scrape[g] = "panicked"
               \/ g \in Workers /\ At(g, "CreatePod", "watch")

(* Whoever takes the mutex releases it, on every path out of CreatePod,       *)
(* DeletePod and GetMetricsResource, but for the two places of Holds.         *)
MutexReleased == \A g \in Workers \cup Scrapers : mutex = g ~> mutex # g \/ Holds(g)

(* A pod that is to go, and not asked for again, goes, whatever becomes of    *)
(* its packages and whatever other handlers compete for the mutex: only a     *)
(* goroutine that keeps the mutex for good, in one of the two places of       *)
(* Holds, stops DeletePod.                                                    *)
DeletedPodsGo == \A p \in Pods :
    <>[](want[p] = 0) => \/ <>[](\A k \in DOMAIN pods : pods[k].pod # p)
                         \/ \E g \in Workers \cup Scrapers : <>[]Holds(g)

(* GetPod "returns a pod by name": the pod it returns has that name.          *)
GetPodByName == \A p \in Pods : KeyOf[p] \in DOMAIN pods => pods[KeyOf[p]].pod = p
=============================================================================
