--------------------------- MODULE PackageService ---------------------------
(***************************************************************************)
(* What package nextgengw promises the provider: DeployPackage and         *)
(* RemovePackage as a call and a return each, over the instances of        *)
(* LWM2M_Software_Management on the far-edge device.                       *)
(*                                                                         *)
(* The promise is weak on purpose.  A request that got no answer may still *)
(* take effect at the device, so the instance of a failed call is in doubt *)
(* and may change at any time, until a later request is answered.  An      *)
(* instance that is not in doubt never changes by itself.                  *)
(***************************************************************************)
EXTENDS Integers

CONSTANTS
    Images,   \* the packages that can be deployed
    MaxId,    \* bound: the largest instance id DeployPackage may pick
    None

ASSUME PackageServiceAssumption == MaxId \in Nat /\ None \notin Images

VARIABLES
    inUse,    \* the ids in InstanceInUse
    device,   \* device[i]: the image active in instance i of the device, or None
    doubt,    \* instances that a request may still change
    call      \* the call in progress: [op, id, image, status], or None

psVars == <<inUse, device, doubt, call>>

Ids == 0..MaxId
Calls == [op : {"DeployPackage", "RemovePackage"}, id : Ids,
          image : Images \cup {None}, status : {"running", "ok", "err"}]
ASSUME NoneIsNoCall == None \notin Calls

PSTypeOK == /\ inUse \subseteq Ids
            /\ device \in [Ids -> Images \cup {None}]
            /\ doubt \subseteq Ids
            /\ call \in Calls \cup {None}

PSInit == /\ inUse = {}
          /\ device = [i \in Ids |-> None]
          /\ doubt = {}
          /\ call = None

(* The id DeployPackage picks: one above every id in use. *)
IsNextId(id) == /\ \A i \in inUse : i < id
                /\ id = 0 \/ id - 1 \in inUse

Begin(op, id, image) ==
    /\ call = None
    /\ call' = [op |-> op, id |-> id, image |-> image, status |-> "running"]
    /\ doubt' = doubt \cup {id}
    /\ UNCHANGED <<inUse, device>>

CallDeploy(image) == \E id \in Ids : IsNextId(id) /\ Begin("DeployPackage", id, image)
CallRemove(id) == Begin("RemovePackage", id, None)

Running(op) == call # None /\ call.op = op /\ call.status = "running"
Return(status) == call' = [call EXCEPT !.status = status]

(* Mutant: the id after the one deployed is in use. *)
DeployOkOffByOne ==
    /\ Running("DeployPackage")
    /\ inUse' = inUse \cup {call.id + 1}
    /\ device' = [device EXCEPT ![call.id] = call.image]
    /\ doubt' = {}
    /\ Return("ok")

DeployOk == /\ Running("DeployPackage")
            /\ inUse' = inUse \cup {call.id}
            /\ device' = [device EXCEPT ![call.id] = call.image]
            /\ doubt' = {}
            /\ Return("ok")

(* The clean-up of a failed deployment may fail too: the id then stays in use. *)
DeployErr == /\ Running("DeployPackage")
             /\ inUse' \in {inUse, inUse \cup {call.id}}
             /\ device' \in {device, [device EXCEPT ![call.id] = None]}
             /\ doubt' \in SUBSET doubt
             /\ Return("err")

RemoveOk == /\ Running("RemovePackage")
            /\ inUse' = inUse \ {call.id}
            /\ device' = [device EXCEPT ![call.id] = None]
            /\ doubt' = {}
            /\ Return("ok")

RemoveErr == /\ Running("RemovePackage")
             /\ doubt' \in SUBSET doubt
             /\ Return("err")
             /\ UNCHANGED <<inUse, device>>

(* The caller goes on with the result. *)
Collect == /\ call # None
           /\ call.status # "running"
           /\ call' = None
           /\ UNCHANGED <<inUse, device, doubt>>

(* A request that was not answered takes effect, or is found to have none. *)
Drift == /\ \E i \in doubt : \E image \in Images \cup {None} :
              device' = [device EXCEPT ![i] = image]
         /\ doubt' \in SUBSET doubt
         /\ Running("DeployPackage") \/ Running("RemovePackage") => call.id \in doubt'
         /\ UNCHANGED <<inUse, call>>

(* The kubelet process dies: InstanceInUse is in its memory only. *)
PSCrash == /\ inUse' = {}
           /\ doubt' \in SUBSET doubt
           /\ call' = None
           /\ UNCHANGED device

PSReturns == DeployOk \/ DeployErr \/ RemoveOk \/ RemoveErr

PSNext == \/ \E image \in Images : CallDeploy(image)
          \/ \E id \in Ids : CallRemove(id)
          \/ PSReturns \/ Collect \/ Drift \/ PSCrash

PSSpec == PSInit /\ [][PSNext]_psVars
=============================================================================
