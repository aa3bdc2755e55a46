------------------------------- MODULE Leshan -------------------------------
(***************************************************************************)
(* The provider in LwM2M mode: CreatePod and DeletePod of                  *)
(* providers/fhpAicos/fhpAicos.go, with DeployPackage and RemovePackage of *)
(* protocol/leshan/leshan.go and FetchPackage of registry/registry.go.     *)
(*                                                                         *)
(* The mutex makes one handler run at a time (see Provider).  Each request *)
(* to the Leshan server is an action: the server passes it to the device,  *)
(* which carries it out or refuses it, or the answer is lost and nobody    *)
(* knows which.  The server's list of the device's instances lags behind.  *)
(* The kubelet may crash; packages it fetched stay on its disk.            *)
(***************************************************************************)
EXTENDS Integers, Sequences, FiniteSets, FiniteSetsExt, SequencesExt

CONSTANTS
    Pods,       \* pods Kubernetes may want on this node
    Containers, \* Containers[p]: the images of the containers of pod p
    Adapted,    \* pods that ask for a communication adapter
    FirstId,    \* the id DeployPackage tries first
    MaxId,      \* bound: the largest id an instance may get
    MaxFaults,  \* bound: lost answers, failed downloads and crashes
    None

Images == UNION {Range(Containers[p]) : p \in Pods}
Ids == FirstId..MaxId

ASSUME LeshanAssumption ==
    /\ \A p \in Pods : Containers[p] \in Seq(Images)
    /\ Adapted \subseteq Pods
    /\ FirstId \in Nat \ {0} /\ MaxId \in Nat /\ MaxFaults \in Nat

Packages == [id : Ids, image : Images]
Steps == {"container", "fetch", "copy", "list", "create", "read", "write", "install",
          "activate", "adapter", "cleanup", "remove"}
Handlers == [kind : {"CreatePod", "DeletePod"}, pod : Pods, step : Steps,
             image : Images \cup {None}, id : Ids \cup {0}, packages : Seq(Packages)]
ASSUME NoneIsNoHandler == None \notin Handlers

VARIABLES
    want,    \* the pods Kubernetes wants
    pods,    \* p.pods: the packages [id, image] of each pod in the map
    op,      \* the handler that holds the mutex (in Handlers), or None
    file,    \* file[image]: what of the image is on the kubelet's disk
    device,  \* the instances of the device: [image, state] by id
    listed,  \* the ids in the server's AvailableInstances["9"]
    lost,    \* history: the instances there were at the last crash
    faults

vars == <<want, pods, op, file, device, listed, lost, faults>>

Init == /\ want = {} /\ pods = << >> /\ op = None
        /\ file = [image \in Images |-> "none"]
        /\ device = << >> /\ listed = {}
        /\ lost = {} /\ faults = 0

Without(f, x) == [y \in DOMAIN f \ {x} |-> f[y]]
With(f, x, value) == [y \in DOMAIN f \cup {x} |-> IF y = x THEN value ELSE f[y]]
Fault == faults < MaxFaults /\ faults' = faults + 1

At(step) == op # None /\ op.step = step
Goto(step) == op' = [op EXCEPT !.step = step]

-----------------------------------------------------------------------------
(* Kubernetes, the device and the process. *)

Wish == /\ \E p \in Pods : want' = (want \ {p}) \cup ({p} \ want)
        /\ UNCHANGED <<pods, op, file, device, listed, lost, faults>>

(* The device's registration update reaches the server. *)
Refresh == /\ listed # DOMAIN device
           /\ listed' = DOMAIN device
           /\ UNCHANGED <<want, pods, op, file, device, lost, faults>>

(* A download that was under way may have left a part of the file. *)
Crash == /\ Fault
         /\ pods' = << >> /\ op' = None
         /\ lost' = DOMAIN device
         /\ IF At("copy") THEN \E left \in {"none", "partial"} :
                                 file' = [file EXCEPT ![op.image] = left]
            ELSE UNCHANGED file
         /\ UNCHANGED <<want, device, listed>>

-----------------------------------------------------------------------------
(* CreatePod *)

Begin(kind, p, step, packages) ==
    op' = [kind |-> kind, pod |-> p, step |-> step, image |-> None, id |-> 0,
           packages |-> packages]

CreatePod(p) ==
    /\ op = None /\ p \in want \ DOMAIN pods
    /\ Begin("CreatePod", p, "container", <<>>)
    /\ UNCHANGED <<want, pods, file, device, listed, lost, faults>>

Installed(image) == \E p \in DOMAIN pods : \E pkg \in Range(pods[p]) : pkg.image = image

(* The pod goes into the map. *)
Created == pods' = With(pods, op.pod, op.packages) /\ op' = None

(* The loop: an image that another pod has ends the deployment.  After the    *)
(* last container comes the adapter, for a pod that asks for one.             *)
NextContainer ==
    LET images == Containers[op.pod]
        n == Len(op.packages) + 1
    IN  /\ At("container")
        /\ IF n > Len(images)
           THEN IF op.pod \in Adapted THEN Goto("adapter") /\ UNCHANGED pods ELSE Created
           ELSE /\ IF Installed(images[n]) THEN Goto("remove")
                   ELSE op' = [op EXCEPT !.step = "fetch", !.image = images[n]]
                /\ UNCHANGED pods
        /\ UNCHANGED <<want, file, device, listed, lost, faults>>

(* deployCommunicationInterfaceAdapter, whose steps are in Provider, succeeds *)
(* or fails, and may take for ever.                                           *)
Adapter == /\ At("adapter")
           /\ \/ Created
              \/ Goto("remove") /\ UNCHANGED pods
           /\ UNCHANGED <<want, file, device, listed, lost, faults>>

-----------------------------------------------------------------------------
(* FetchPackage: a file that exists is taken for the package. *)

Resolve == /\ At("fetch")
           /\ \/ Goto(IF file[op.image] = "none" THEN "copy" ELSE "list") /\ UNCHANGED faults
              \/ Fault /\ Goto("remove")
           /\ UNCHANGED <<want, pods, file, device, listed, lost>>

(* oras.Copy into the file store. *)
Copy == /\ At("copy")
        /\ \/ file' = [file EXCEPT ![op.image] = "complete"] /\ Goto("list") /\ UNCHANGED faults
           \/ /\ Fault /\ Goto("remove")
              /\ \E left \in {"none", "partial"} : file' = [file EXCEPT ![op.image] = left]
        /\ UNCHANGED <<want, pods, device, listed, lost>>

-----------------------------------------------------------------------------
(* DeployPackage *)

(* Mutant: the list is not looked at. *)
FirstIdAlways == FirstId

(* The loop over AvailableInstances: the first id from FirstId not in it. *)
packageId == Min(Ids \ listed)

(* CreatePod goes on with the id and the error that DeployPackage returns:    *)
(* with an id, the instance is removed before the other packages are.         *)
Failed(id) == Goto(IF id # 0 THEN "cleanup" ELSE "remove")

GetInstances ==
    /\ At("list")
    /\ \/ /\ Ids \ listed # {}
          /\ op' = [op EXCEPT !.step = "create", !.id = packageId] /\ UNCHANGED faults
       \/ Fault /\ Failed(0)
    /\ UNCHANGED <<want, pods, file, device, listed, lost>>

(* A request for the instance op.id: the device carries it out, if it accepts *)
(* it, and the next step follows; it refuses it; or the answer is lost, and   *)
(* DeployPackage fails, with the id in its hands.                             *)
Request(accepts, effect, next, returned) ==
    /\ \/ accepts /\ device' = effect /\ next /\ UNCHANGED faults
       \/ ~accepts /\ Failed(returned) /\ UNCHANGED <<device, faults>>
       \/ Fault /\ Failed(returned) /\ device' \in {device} \cup (IF accepts THEN {effect} ELSE {})
    /\ UNCHANGED <<want, pods, file, listed, lost>>

(* Mutant: the id is returned although no instance may have been created. *)
CreateReturnsId ==
    /\ At("create")
    /\ Request(op.id \notin DOMAIN device,
               With(device, op.id, [image |-> None, state |-> "created"]),
               Goto("read"), op.id)

CreateInstance ==
    /\ At("create")
    /\ Request(op.id \notin DOMAIN device,
               With(device, op.id, [image |-> None, state |-> "created"]),
               Goto("read"), 0)

(* os.ReadFile *)
ReadFile == /\ At("read")
            /\ \/ Goto("write") /\ UNCHANGED faults
               \/ Fault /\ Failed(op.id)
            /\ UNCHANGED <<want, pods, file, device, listed, lost>>

(* A request for an instance whose state is the one it needs. *)
Change(step, needs, state, next, returned) ==
    LET there == op.id \in DOMAIN device
    IN  /\ At(step)
        /\ Request(there /\ needs,
                   [device EXCEPT ![op.id] = [image |-> op.image, state |-> state]],
                   next, returned)

Write == Change("write", TRUE, "delivered", Goto("install"), op.id)

(* Mutant: a failed installation returns no id. *)
InstallReturnsNone == Change("install", file[op.image] = "complete", "installed", Goto("activate"), 0)

(* The device cannot install a part of a package. *)
Install == Change("install", file[op.image] = "complete", "installed", Goto("activate"), op.id)

Activate == Change("activate", TRUE, "active",
                   op' = [op EXCEPT !.step = "container",
                                    !.packages = Append(@, [id |-> op.id, image |-> op.image])],
                   op.id)

-----------------------------------------------------------------------------
(* RemovePackage: whatever becomes of it, the handler goes on. *)

RemovePackage(id) ==
    /\ \/ device' = Without(device, id) /\ UNCHANGED faults
       \/ Fault /\ device' \in {device, Without(device, id)}
    /\ UNCHANGED <<want, pods, file, listed, lost>>

(* CreatePod removes the leftovers of the container that failed ... *)
CleanUp == At("cleanup") /\ RemovePackage(op.id) /\ Goto("remove")

(* ... and then the packages of those before, as DeletePod does with all.     *)
RemoveNext == /\ At("remove") /\ op.packages # <<>>
              /\ RemovePackage(Head(op.packages).id)
              /\ op' = [op EXCEPT !.packages = Tail(@)]

DeletePod(p) ==
    /\ op = None /\ p \in DOMAIN pods \ want
    /\ Begin("DeletePod", p, "remove", pods[p])
    /\ UNCHANGED <<want, pods, file, device, listed, lost, faults>>

(* CreatePod returns its error, or DeletePod drops the entry. *)
Return == /\ At("remove") /\ op.packages = <<>>
          /\ op' = None
          /\ pods' = IF op.kind = "DeletePod" THEN Without(pods, op.pod) ELSE pods
          /\ UNCHANGED <<want, file, device, listed, lost, faults>>

Step == \/ NextContainer \/ Resolve \/ Copy \/ GetInstances \/ CreateInstance \/ ReadFile
        \/ Write \/ Install \/ Activate \/ CleanUp \/ RemoveNext \/ Return

Next == \/ Wish \/ Refresh \/ Crash \/ Step
        \/ Adapter
        \/ \E p \in Pods : CreatePod(p) \/ DeletePod(p)

(* The handler goes on and its requests return, but for those of Adapter;     *)
(* Virtual Kubelet comes back to a pod whose CreatePod or DeletePod is due;   *)
(* the device updates its registration.                                       *)
Fairness == /\ WF_vars(Step) /\ WF_vars(Refresh)
            /\ \A p \in Pods : SF_vars(CreatePod(p)) /\ SF_vars(DeletePod(p))

Spec == Init /\ [][Next]_vars /\ Fairness

-----------------------------------------------------------------------------
(* Properties. *)

(* The packages the kubelet counts on: those of the pods in the map, but for  *)
(* the one DeletePod works on, and those of the containers that CreatePod has *)
(* deployed and does not roll back.                                           *)
Counted == (UNION {{<<p, i>> : i \in DOMAIN pods[p]} :
                     p \in {q \in DOMAIN pods : op # None => op.kind = "CreatePod" \/ op.pod # q}})
           \cup (IF op # None /\ op.kind = "CreatePod" /\ ~At("remove") /\ ~At("cleanup")
                 THEN {<<op.pod, i>> : i \in DOMAIN op.packages} ELSE {})
Package(c) == IF c[1] \in DOMAIN pods THEN pods[c[1]][c[2]] ELSE op.packages[c[2]]

(* Every package the kubelet counts on has an instance of its own, in which   *)
(* its image is active, whatever requests failed and however old the list was *)
(* from which its id was chosen: the clean-up after a failure never removes   *)
(* another package's instance.                                                *)
CountedIsActive ==
    /\ \A c \in Counted : LET pkg == Package(c)
                          IN  /\ pkg.id \in DOMAIN device
                              /\ device[pkg.id] = [image |-> pkg.image, state |-> "active"]
    /\ \A c, d \in Counted : c # d => Package(c).id # Package(d).id

(* When no handler runs, at most one instance is left behind for each failure, *)
(* apart from those of a process that crashed: a deployment that failed half   *)
(* way is undone.                                                             *)
OneStrayPerFault ==
    op = None => Cardinality(DOMAIN device \ (lost \cup {Package(c).id : c \in Counted})) <= faults

(* When Kubernetes settles for some pods, each of them with one container and *)
(* no adapter is deployed in the end, although ids are chosen from an old     *)
(* list, unless another has its image, or an interrupted download left a part *)
(* of its package, which is taken for the package from then on, or another    *)
(* pod's adapter never becomes available, which is waited for with the mutex. *)
Shares(p, q) == Range(Containers[p]) \cap Range(Containers[q]) # {}
RetriedIsDeployed ==
    \A settled \in SUBSET Pods :
        \A p \in {q \in settled \ Adapted : Len(Containers[q]) = 1} :
            (\A q \in settled \ {p} : ~Shares(p, q)) =>
              (<>[](want = settled)
                 => \/ <>[](p \in DOMAIN pods \/ file[Containers[p][1]] = "partial")
                    \/ <>[]At("adapter"))
=============================================================================
