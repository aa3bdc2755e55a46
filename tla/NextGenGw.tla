----------------------------- MODULE NextGenGw ------------------------------
(***************************************************************************)
(* DeployPackage and RemovePackage of                                      *)
(* providers/fhpAicos/protocol/nextgengw/nextgengw.go, one action per MQTT *)
(* request.  The provider holds its mutex around every call, so there is   *)
(* at most one call in progress.                                           *)
(*                                                                         *)
(* A request ends in one of two ways.  It is answered with the response    *)
(* code the code asks for; the gateway hands requests to the device in the *)
(* order it got them, so every earlier request has been dealt with by      *)
(* then.  Or it returns an error (subscribe or publish failed, timeout,    *)
(* any other response): it then has no effect, or it is still in the pipe  *)
(* to the device and takes effect later.                                   *)
(***************************************************************************)
EXTENDS Integers, SequencesExt

CONSTANTS
    Images,    \* the packages that can be deployed
    MaxId,     \* bound: the largest instance id DeployPackage may pick
    MaxPipe,   \* bound: requests that can be on their way to the device
    None

ASSUME NextGenGwAssumption == MaxId \in Nat /\ MaxPipe \in Nat /\ None \notin Images

VARIABLES
    InstanceInUse,   \* nextgengw.go:31
    instance,        \* instance[i]: instance i of LWM2M_Software_Management on the device
    pipe,            \* requests on their way to the device that nobody waits for
    call             \* the call in progress: [op, pc, id, image], or None

vars == <<InstanceInUse, instance, pipe, call>>

Ids == 0..MaxId
Stages == {"absent", "created", "added", "installed", "active"}
Requests == [op : {"create", "add", "install", "activate", "delete"},
             id : Ids, image : Images \cup {None}]
Pcs == {"create", "add", "install", "activate", "cleanup", "remove", "ok", "err"}
Calls == [op : {"DeployPackage", "RemovePackage"}, pc : Pcs, id : Ids,
          image : Images \cup {None}]

Absent == [stage |-> "absent", image |-> None]

TypeOK == /\ InstanceInUse \in Seq(Ids)
          /\ instance \in [Ids -> [stage : Stages, image : Images \cup {None}]]
          /\ pipe \in Seq(Requests)
          /\ Len(pipe) <= MaxPipe
          /\ call \in Calls \cup {None}

Init == /\ InstanceInUse = <<>>
        /\ instance = [i \in Ids |-> Absent]
        /\ pipe = <<>>
        /\ call = None

-----------------------------------------------------------------------------
(* The device. *)

(* The stages of an instance in which the device carries out a request. *)
Needs == [create |-> Stages, add |-> Stages \ {"absent"}, install |-> {"added"},
          activate |-> {"installed"}, delete |-> Stages \ {"absent"}]

(* An instance after the request. *)
After(r, inst) ==
    CASE r.op = "create"   -> [stage |-> "created", image |-> None]
      [] r.op = "add"      -> [stage |-> "added", image |-> r.image]
      [] r.op = "install"  -> [inst EXCEPT !.stage = "installed"]
      [] r.op = "activate" -> [inst EXCEPT !.stage = "active"]
      [] r.op = "delete"   -> Absent

Executes(r) == /\ instance[r.id].stage \in Needs[r.op]
               /\ instance' = [instance EXCEPT ![r.id] = After(r, @)]

(* The device gets to a request of the pipe, and carries it out or refuses it. *)
DeviceStep == /\ pipe # <<>>
              /\ pipe' = Tail(pipe)
              /\ Executes(Head(pipe)) \/ UNCHANGED instance
              /\ UNCHANGED <<InstanceInUse, call>>

Answered(r) == pipe = <<>> /\ Executes(r) /\ UNCHANGED pipe

Failed(r) == /\ UNCHANGED instance
             /\ \/ UNCHANGED pipe
                \/ Len(pipe) < MaxPipe /\ pipe' = Append(pipe, r)

-----------------------------------------------------------------------------
(* The calls. *)

Request(op) == [op |-> op, id |-> call.id, image |-> call.image]
At(pc) == call # None /\ call.pc = pc
Goto(pc) == call' = [call EXCEPT !.pc = pc]

(* Mutant: the number of ids in use as the next id. *)
CountAsNextId == Len(InstanceInUse)

NextInstanceId == IF InstanceInUse = <<>> THEN 0
                  ELSE Last(InstanceInUse) + 1

DeployPackage(image) ==
    /\ call = None
    /\ NextInstanceId <= MaxId
    /\ call' = [op |-> "DeployPackage", pc |-> "create", id |-> NextInstanceId,
                image |-> image]
    /\ UNCHANGED <<InstanceInUse, instance, pipe>>

(* Mutant: the id after the one created goes to InstanceInUse. *)
CreateRecordsNextId ==
    /\ At("create")
    /\ \/ /\ Answered(Request("create"))
          /\ InstanceInUse' = Append(InstanceInUse, call.id + 1)
          /\ Goto("add")
       \/ Failed(Request("create")) /\ Goto("err") /\ UNCHANGED InstanceInUse

CreateSwMngtInstance ==
    /\ At("create")
    /\ \/ /\ Answered(Request("create"))
          /\ InstanceInUse' = Append(InstanceInUse, call.id)
          /\ Goto("add")
       \/ Failed(Request("create")) /\ Goto("err") /\ UNCHANGED InstanceInUse

(* AddPackage, InstallPackage, ActivatePackage: a failure leads to RemovePackage. *)
Stage(pc, next) == /\ At(pc)
                   /\ \/ Answered(Request(pc)) /\ Goto(next)
                      \/ Failed(Request(pc)) /\ Goto("cleanup")
                   /\ UNCHANGED InstanceInUse

(* Mutant: an error of AddPackage is not looked at. *)
AddIgnoresError ==
    /\ At("add")
    /\ Answered(Request("add")) \/ Failed(Request("add"))
    /\ Goto("install")
    /\ UNCHANGED InstanceInUse

(* Mutant: an error of ActivatePackage is not looked at. *)
ActivateIgnoresError ==
    /\ At("activate")
    /\ Answered(Request("activate")) \/ Failed(Request("activate"))
    /\ Goto("ok")
    /\ UNCHANGED InstanceInUse

AddPackage == Stage("add", "install")
InstallPackage == Stage("install", "activate")
ActivatePackage == Stage("activate", "ok")

(* sort.Search: an index at which the binary search for x can end. *)
Search(s, x) == CHOOSE k \in 1..(Len(s) + 1) : /\ k = 1 \/ s[k-1] < x
                                               /\ k = Len(s) + 1 \/ s[k] >= x

Forget(s, id) == LET k == Search(s, id)
                 IN  IF k \in 1..Len(s) /\ s[k] = id THEN RemoveAt(s, k) ELSE s

RemovePackage(id) ==
    /\ call = None
    /\ call' = [op |-> "RemovePackage", pc |-> "remove", id |-> id, image |-> None]
    /\ UNCHANGED <<InstanceInUse, instance, pipe>>

(* Mutant: the id is taken out of InstanceInUse whatever the answer. *)
DeleteForgetsAlways ==
    \E pc \in {"remove", "cleanup"} :
      /\ At(pc)
      /\ InstanceInUse' = Forget(InstanceInUse, call.id)
      /\ \/ Answered(Request("delete")) /\ Goto(IF pc = "remove" THEN "ok" ELSE "err")
         \/ Failed(Request("delete")) /\ Goto("err")

(* The DELETE request, and what RemovePackage does with the answer; "cleanup" *)
(* is the call DeployPackage makes, whose error it ignores.                   *)
Delete ==
    \E pc \in {"remove", "cleanup"} :
      /\ At(pc)
      /\ \/ /\ Answered(Request("delete"))
            /\ InstanceInUse' = Forget(InstanceInUse, call.id)
            /\ Goto(IF pc = "remove" THEN "ok" ELSE "err")
         \/ Failed(Request("delete")) /\ Goto("err") /\ UNCHANGED InstanceInUse

Collect == /\ At("ok") \/ At("err")
           /\ call' = None
           /\ UNCHANGED <<InstanceInUse, instance, pipe>>

Crash == /\ InstanceInUse' = <<>>
         /\ call' = None
         /\ UNCHANGED <<instance, pipe>>

Next == \/ \E image \in Images : DeployPackage(image)
        \/ \E id \in Ids : RemovePackage(id)
        \/ CreateSwMngtInstance \/ AddPackage \/ InstallPackage \/ ActivatePackage
        \/ Delete \/ Collect \/ DeviceStep \/ Crash

Spec == Init /\ [][Next]_vars

-----------------------------------------------------------------------------
(* Properties. *)

(* InstanceInUse is strictly ascending: DeployPackage appends a greater id    *)
(* and RemovePackage finds its id by binary search, so an id out of order     *)
(* would be handed out twice or never be forgotten.                           *)
IsAscending(s) == \A j, k \in DOMAIN s : j < k => s[j] < s[k]
Ascending == IsAscending(InstanceInUse)

Waiting == {r.id : r \in Range(pipe)}

(* When DeployPackage returns no error the package is active in the instance  *)
(* whose id it returns, the id is in InstanceInUse, and no request that was   *)
(* given up earlier can still change the instance.                            *)
DeployedIsActive ==
    call # None /\ call.op = "DeployPackage" /\ call.pc = "ok" =>
        /\ instance[call.id] = [stage |-> "active", image |-> call.image]
        /\ call.id \in Range(InstanceInUse) \ Waiting

(* Why DeployedIsActive holds: what is true while a call goes on.  The id of  *)
(* a deployment is above the ids in use until it is the last of them, and each *)
(* answered request has left the pipe empty and the instance one stage on.    *)
Deploying == {"create", "add", "install", "activate", "cleanup"}
Reached == [add      |-> [stage |-> "created",   image |-> None],
            install  |-> [stage |-> "added",     image |-> call.image],
            activate |-> [stage |-> "installed", image |-> call.image],
            ok       |-> [stage |-> "active",    image |-> call.image]]
CallInv ==
    call # None =>
        /\ call.pc \in Deploying => call.op = "DeployPackage"
        /\ call.pc = "remove" => call.op = "RemovePackage"
        /\ call.op = "DeployPackage" => call.image \in Images
        /\ call.pc = "create" => \A i \in Range(InstanceInUse) : i < call.id
        /\ call.pc \in Deploying \ {"create"} => /\ InstanceInUse # <<>>
                                               /\ Last(InstanceInUse) = call.id
        /\ call.op = "DeployPackage" /\ call.pc \in DOMAIN Reached =>
               /\ instance[call.id] = Reached[call.pc]
               /\ pipe = <<>>
               /\ call.id \in Range(InstanceInUse)

-----------------------------------------------------------------------------
(* The refinement of PackageService. *)

InCall(ops) == call # None /\ call.pc \in ops

(* CreateSwMngtInstance has put the id of the running call in InstanceInUse. *)
inUseBar == IF InCall({"add", "install", "activate", "cleanup"})
            THEN Range(InstanceInUse) \ {call.id} ELSE Range(InstanceInUse)
deviceBar == [i \in Ids |-> IF instance[i].stage = "active" THEN instance[i].image ELSE None]
doubtBar == Waiting \cup {i \in Ids : InCall(Pcs \ {"ok", "err"}) /\ call.id = i}
callBar == IF call = None THEN None
           ELSE [op |-> call.op, id |-> call.id, image |-> call.image,
                 status |-> IF call.pc \in {"ok", "err"} THEN call.pc ELSE "running"]

PS == INSTANCE PackageService
        WITH inUse <- inUseBar, device <- deviceBar, doubt <- doubtBar, call <- callBar

ASSUME NoneIsNoCall == None \notin Calls \cup PS!Calls

(* Every call, however its requests end, keeps the promise of PackageService. *)
KeepsPromise == PS!PSSpec
=============================================================================
