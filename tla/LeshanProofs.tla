---------------------------- MODULE LeshanProofs ----------------------------
(***************************************************************************)
(* Proofs about Leshan, for any pods, containers, ids and number of faults:*)
(*   1. types;                                                             *)
(*   2. the packages the kubelet counts on are active, each in an instance *)
(*      of its own;                                                        *)
(*   3. each failure leaves at most one instance behind.                   *)
(***************************************************************************)
EXTENDS Leshan, SequenceTheorems, FiniteSetTheorems, WellFoundedInduction, TLAPS

-----------------------------------------------------------------------------
(* 1. Types. *)

(* The steps between the choice of an id and the active instance, and those   *)
(* at which the instance op.id has been created, as far as CreatePod knows.   *)
Deploying == {"create", "read", "write", "install", "activate"}
Making == {"read", "write", "install", "activate", "cleanup"}

OpInv == op # None =>
    /\ op \in Handlers
    /\ op.step \in Deploying \cup Making => op.id \in Ids
    /\ op.step \in Deploying \cup {"fetch", "copy", "list"} => op.image \in Images
    /\ op.step # "remove" => op.kind = "CreatePod"
    /\ op.kind = "CreatePod" => op.pod \notin DOMAIN pods

TypeOK == /\ DOMAIN pods \subseteq Pods
          /\ \A p \in DOMAIN pods : pods[p] \in Seq(Packages)
          /\ OpInv
          /\ DOMAIN device \subseteq Ids
          /\ faults \in Nat

(* The handler goes on at another step, with the same kind and pod. *)
Goes(step, image, id, packages) ==
    /\ op' \in Handlers /\ op' # None
    /\ op'.kind = op.kind /\ op'.pod = op.pod
    /\ op'.step = step /\ op'.image = image /\ op'.id = id /\ op'.packages = packages

LEMMA GotoGoes ==
    ASSUME TypeOK, op # None, NEW step \in Steps, Goto(step)
    PROVE  Goes(step, op.image, op.id, op.packages)
<1>1. op \in Handlers
  BY DEF TypeOK, OpInv
<1>2. op' \in Handlers /\ op'.kind = op.kind /\ op'.pod = op.pod /\ op'.step = step
      /\ op'.image = op.image /\ op'.id = op.id /\ op'.packages = op.packages
  BY <1>1 DEF Goto, Handlers
<1> QED
  BY <1>2, NoneIsNoHandler DEF Goes

LEMMA FailedGoes ==
    ASSUME TypeOK, op # None, NEW id, Failed(id)
    PROVE  Goes(IF id # 0 THEN "cleanup" ELSE "remove", op.image, op.id, op.packages)
<1>1. CASE id # 0
  BY <1>1, GotoGoes DEF Failed, Steps
<1>2. CASE id = 0
  BY <1>2, GotoGoes DEF Failed, Steps
<1> QED
  BY <1>1, <1>2

LEMMA TypeGoes ==
    ASSUME TypeOK, op # None, NEW step \in Steps, NEW image, NEW id, NEW packages,
           Goes(step, image, id, packages), UNCHANGED pods,
           step \in Deploying \cup Making => id \in Ids,
           step \in Deploying \cup {"fetch", "copy", "list"} => image \in Images,
           step # "remove" => op.kind = "CreatePod",
           DOMAIN device' \subseteq Ids, faults' \in Nat
    PROVE  TypeOK'
<1>1. OpInv'
  BY DEF TypeOK, OpInv, Goes
<1> QED
  BY <1>1 DEF TypeOK

LEMMA FaultCounts == TypeOK /\ Fault => faults' \in Nat /\ faults' = faults + 1
  BY DEF TypeOK, Fault

(* The smallest of some natural numbers is one of them. *)
LEMMA MinIs == ASSUME NEW S \in SUBSET Nat, S # {} PROVE Min(S) \in S
<1> DEFINE Segments == {0..m : m \in S}
<1>1. Segments \subseteq FiniteSubsetsOf(Nat) /\ Segments # {}
  <2>1. \A m \in S : 0..m \in SUBSET Nat /\ IsFiniteSet(0..m)
    BY FS_Interval
  <2> QED
    BY <2>1 DEF FiniteSubsetsOf
<1>2. IsWellFoundedOn(StrictSubsetOrdering(Nat), FiniteSubsetsOf(Nat))
  BY FS_StrictSubsetOrderingWellFounded
<1> HIDE DEF Segments
<1>3. PICK x \in Segments : \A y \in Segments : <<y, x>> \notin StrictSubsetOrdering(Nat)
  BY <1>1, <1>2, WFMin
<1>4. PICK m \in S : x = 0..m
  BY <1>3 DEF Segments
<1>5. ASSUME NEW k \in S PROVE m <= k
  <2>1. <<0..k, 0..m>> \notin StrictSubsetOrdering(Nat)
    BY <1>3, <1>4 DEF Segments
  <2>2. ~(0..k \subseteq 0..m) \/ 0..k = 0..m
    BY <2>1 DEF StrictSubsetOrdering
  <2>3. m \in Nat /\ k \in Nat
    OBVIOUS
  <2>4. k < m => 0..k \subseteq 0..m /\ m \notin 0..k /\ m \in 0..m
    BY <2>3
  <2> QED
    BY <2>2, <2>3, <2>4
<1> QED
  BY <1>5 DEF Min

LEMMA IdsAre == Ids \subseteq Nat /\ 0 \notin Ids /\ IsFiniteSet(Ids)
  BY LeshanAssumption, FS_Interval DEF Ids

LEMMA PackageIdIs == Ids \ listed # {} => packageId \in Ids
  BY IdsAre, MinIs DEF packageId

-----------------------------------------------------------------------------
(* 2. The packages the kubelet counts on. *)

Kept == {q \in DOMAIN pods : op # None => op.kind = "CreatePod" \/ op.pod # q}
KeptPackages == UNION {Range(pods[p]) : p \in Kept}
Building == op # None /\ op.kind = "CreatePod" /\ op.step \notin {"remove", "cleanup"}

Active(o) == o.id \in DOMAIN device /\ device[o.id] = [image |-> o.image, state |-> "active"]

KeptActive == \A o \in KeptPackages : Active(o)
KeptApart == \A p, q \in Kept : \A i \in DOMAIN pods[p], j \in DOMAIN pods[q] :
                 p # q \/ i # j => pods[p][i].id # pods[q][j].id

(* What a handler deployed or removes is nobody else's. *)
HeldApart == op # None =>
    \A o \in Range(op.packages) : \A q \in KeptPackages : o.id # q.id

BuiltActive == Building =>
    /\ \A o \in Range(op.packages) : Active(o)
    /\ \A i, j \in DOMAIN op.packages : i # j => op.packages[i].id # op.packages[j].id

(* Nor is the instance that CreatePod works on, or cleans up. *)
MadeApart == op # None /\ op.step \in Making =>
    /\ \A q \in KeptPackages : op.id # q.id
    /\ op.step # "cleanup" => \A o \in Range(op.packages) : op.id # o.id

CountedInv == KeptActive /\ KeptApart /\ HeldApart /\ BuiltActive /\ MadeApart

-----------------------------------------------------------------------------
(* 3. What is left behind. *)

(* The ids that a pod or the handler that runs will remove one day. *)
Known == {o.id : o \in KeptPackages}
         \cup (IF op # None THEN {o.id : o \in Range(op.packages)} ELSE {})
         \cup (IF op # None /\ op.step \in Making THEN {op.id} ELSE {})

Strays == DOMAIN device \ (lost \cup Known)

StrayInv == Cardinality(Strays) <= faults

LEMMA InitInv == Init => TypeOK /\ CountedInv /\ StrayInv
<1> SUFFICES ASSUME Init PROVE TypeOK /\ CountedInv /\ StrayInv
  OBVIOUS
<1>1. DOMAIN pods = {} /\ op = None /\ DOMAIN device = {} /\ faults = 0
  BY DEF Init
<1>2. Kept = {} /\ KeptPackages = {} /\ ~Building
  BY <1>1 DEF Kept, KeptPackages, Building
<1>3. TypeOK /\ CountedInv
  BY <1>1, <1>2 DEF TypeOK, OpInv, CountedInv, KeptActive, KeptApart, HeldApart, BuiltActive, MadeApart
<1>4. Strays = {}
  BY <1>1 DEF Strays
<1> QED
  BY <1>1, <1>3, <1>4, FS_EmptySet DEF StrayInv

(* The packages that count, among them those that CreatePod has deployed.     *)
Claims == KeptPackages \cup (IF Building THEN Range(op.packages) ELSE {})

(* The handler goes on with its packages; it touches its own instance only.   *)
LEMMA CountedGoes ==
    ASSUME CountedInv, op # None, NEW step \in Steps, NEW image, NEW id,
           Goes(step, image, id, op.packages), UNCHANGED pods,
           step \notin {"remove", "cleanup"} => op.step \notin {"remove", "cleanup"},
           \A o \in KeptPackages : Active(o)',
           step \notin {"remove", "cleanup"} => \A o \in Range(op.packages) : Active(o) => Active(o)',
           step \in Making => /\ \A o \in KeptPackages : o.id # id
                              /\ step # "cleanup" => \A o \in Range(op.packages) : o.id # id
    PROVE  CountedInv'
<1>1. Kept' = Kept /\ KeptPackages' = KeptPackages
  <2>1. Kept' = Kept
    BY DEF Kept, Goes
  <2> QED
    BY <2>1 DEF KeptPackages, Goes
<1>2. Building' => Building
  BY DEF Building, Goes
<1>3. KeptActive' /\ KeptApart' /\ HeldApart'
  BY <1>1 DEF CountedInv, KeptActive, KeptApart, HeldApart, Goes
<1>4. BuiltActive'
  <2>1. Building' => step \notin {"remove", "cleanup"}
    BY DEF Building, Goes
  <2> QED
    BY <1>2, <2>1 DEF CountedInv, BuiltActive, Goes
<1>5. MadeApart'
  BY <1>1 DEF MadeApart, Goes
<1> QED
  BY <1>3, <1>4, <1>5 DEF CountedInv

-----------------------------------------------------------------------------
(* The requests to the device. *)

(* A request touches no instance but op.id, which is there, or is created.    *)
Touches == \/ UNCHANGED device
           \/ op.step \in Making /\ \E x : device' = [device EXCEPT ![op.id] = x]
           \/ /\ op.step = "create" /\ op.id \notin DOMAIN device
              /\ \E x : device' = With(device, op.id, x)

Fails == /\ Failed(IF op.step = "create" THEN 0 ELSE op.id)
         /\ Fault \/ UNCHANGED <<device, faults>>

Proceeds == /\ op.step # "activate" /\ UNCHANGED faults
            /\ op.step = "create" => op.id \notin DOMAIN device
            /\ \E step \in {"read", "install", "activate"} : Goto(step)

Activates ==
    /\ op.step = "activate" /\ UNCHANGED faults /\ op.id \in DOMAIN device
    /\ device' = [device EXCEPT ![op.id] = [image |-> op.image, state |-> "active"]]
    /\ op' = [op EXCEPT !.step = "container",
                        !.packages = Append(@, [id |-> op.id, image |-> op.image])]

LEMMA RequestIs ==
    ASSUME CreateInstance \/ Write \/ Install \/ Activate
    PROVE  /\ op # None /\ op.step \in Deploying /\ UNCHANGED <<pods, lost>> /\ Touches
           /\ Fails \/ Proceeds \/ Activates
<1>1. CASE CreateInstance
  <2>1. op # None /\ op.step = "create" /\ UNCHANGED <<pods, lost>>
    BY <1>1 DEF CreateInstance, At, Request
  <2>2. Touches
    BY <1>1, <2>1 DEF CreateInstance, Request, Touches
  <2>3. Fails \/ Proceeds
    BY <1>1, <2>1 DEF CreateInstance, Request, Fails, Proceeds
  <2> QED
    BY <2>1, <2>2, <2>3 DEF Deploying
<1>2. CASE Write
  <2>1. op # None /\ op.step = "write" /\ UNCHANGED <<pods, lost>>
    BY <1>2 DEF Write, Change, At, Request
  <2>2. Touches
    BY <1>2, <2>1 DEF Write, Change, Request, Touches, Making
  <2>3. Fails \/ Proceeds
    BY <1>2, <2>1 DEF Write, Change, Request, Fails, Proceeds
  <2> QED
    BY <2>1, <2>2, <2>3 DEF Deploying
<1>3. CASE Install
  <2>1. op # None /\ op.step = "install" /\ UNCHANGED <<pods, lost>>
    BY <1>3 DEF Install, Change, At, Request
  <2>2. Touches
    BY <1>3, <2>1 DEF Install, Change, Request, Touches, Making
  <2>3. Fails \/ Proceeds
    BY <1>3, <2>1 DEF Install, Change, Request, Fails, Proceeds
  <2> QED
    BY <2>1, <2>2, <2>3 DEF Deploying
<1>4. CASE Activate
  <2>1. op # None /\ op.step = "activate" /\ UNCHANGED <<pods, lost>>
    BY <1>4 DEF Activate, Change, At, Request
  <2>2. Touches
    BY <1>4, <2>1 DEF Activate, Change, Request, Touches, Making
  <2>3. Fails \/ Activates
    BY <1>4, <2>1 DEF Activate, Change, Request, Fails, Activates
  <2> QED
    BY <2>1, <2>2, <2>3 DEF Deploying
<1> QED
  BY <1>1, <1>2, <1>3, <1>4

(* What counts is active still after a request, and no id is new but op.id.   *)
LEMMA TouchesOne ==
    ASSUME TypeOK, CountedInv, op # None, op.step \in Deploying, Touches
    PROVE  /\ \A o \in Claims : Active(o)'
           /\ \A o : o.id # op.id /\ Active(o) => Active(o)'
           /\ DOMAIN device \subseteq DOMAIN device' /\ DOMAIN device' \subseteq DOMAIN device \cup {op.id}
           /\ DOMAIN device' # DOMAIN device => op.step = "create"
           /\ DOMAIN device' \subseteq Ids
<1>1. \A o \in Claims : Active(o) /\ (op.step \in Making => o.id # op.id)
  BY DEF CountedInv, KeptActive, BuiltActive, MadeApart, Claims, Building, Deploying
<1>2. op.id \in Ids
  BY DEF TypeOK, OpInv
<1>3. CASE UNCHANGED device
  BY <1>1, <1>3 DEF Active, TypeOK
<1>4. ASSUME op.step \in Making, NEW x, device' = [device EXCEPT ![op.id] = x]
      PROVE  /\ \A o : o.id # op.id /\ Active(o) => Active(o)'
             /\ DOMAIN device' = DOMAIN device
  BY <1>4 DEF Active
<1>5. ASSUME op.step = "create", op.id \notin DOMAIN device, NEW x, device' = With(device, op.id, x)
      PROVE  /\ \A o : Active(o) => Active(o)'
             /\ DOMAIN device' = DOMAIN device \cup {op.id}
  BY <1>5 DEF Active, With
<1> QED
  BY <1>1, <1>2, <1>3, <1>4, <1>5 DEF Touches, TypeOK

LEMMA FailsInv ==
    ASSUME TypeOK, CountedInv, op # None, op.step \in Deploying, Touches, Fails, UNCHANGED pods
    PROVE  TypeOK' /\ CountedInv'
<1> DEFINE r == IF op.step = "create" THEN 0 ELSE op.id
           step == IF r # 0 THEN "cleanup" ELSE "remove"
<1>1. Goes(step, op.image, op.id, op.packages) /\ step \in Steps
  BY FailedGoes DEF Fails, Steps
<1>2. /\ op.id \in Ids /\ op.kind = "CreatePod"
      /\ step = "cleanup" => op.step \in Making
      /\ step \in {"cleanup", "remove"}
  BY DEF TypeOK, OpInv, Deploying, Making
<1> HIDE DEF r, step
<1>3. faults' \in Nat
  BY FaultCounts DEF Fails, TypeOK
<1>4. \A o \in KeptPackages : Active(o)'
  BY TouchesOne DEF Claims
<1>5. TypeOK'
  BY <1>1, <1>2, <1>3, TouchesOne, TypeGoes DEF Deploying
<1>6. step \in Making => \A o \in KeptPackages : o.id # op.id
  BY <1>2 DEF CountedInv, MadeApart, Making
<1>7. CountedInv'
  BY <1>1, <1>2, <1>4, <1>6, CountedGoes DEF Making
<1> QED
  BY <1>5, <1>7

LEMMA ProceedsInv ==
    ASSUME TypeOK, CountedInv, op # None, op.step \in Deploying, Touches, Proceeds, UNCHANGED pods
    PROVE  TypeOK' /\ CountedInv'
<1>1. PICK step \in {"read", "install", "activate"} : Goto(step)
  BY DEF Proceeds
<1>2. Goes(step, op.image, op.id, op.packages) /\ step \in Steps /\ step \in Deploying
  BY <1>1, GotoGoes DEF Steps, Deploying
<1>3. op.id \in Ids /\ op.image \in Images /\ op.kind = "CreatePod" /\ faults' \in Nat
  BY DEF TypeOK, OpInv, Deploying, Proceeds
<1>4. TypeOK'
  BY <1>2, <1>3, TouchesOne, TypeGoes
<1>5. \A o \in KeptPackages \cup Range(op.packages) : o.id # op.id
  <2>1. CASE op.step = "create"
    BY <1>3, <2>1 DEF Proceeds, CountedInv, KeptActive, BuiltActive, Building, Active
  <2>2. CASE op.step \in Making
    BY <2>2 DEF CountedInv, MadeApart, Deploying
  <2> QED
    BY <2>1, <2>2 DEF Deploying, Making
<1>6. op.step \notin {"remove", "cleanup"}
  BY DEF Deploying
<1>7. /\ \A o \in KeptPackages : Active(o)'
      /\ \A o \in Range(op.packages) : Active(o) => Active(o)'
  BY <1>5, TouchesOne DEF Claims
<1>8. CountedInv'
  BY <1>2, <1>5, <1>6, <1>7, CountedGoes
<1> QED
  BY <1>4, <1>8

(* The package that has been activated is one more that counts. *)
LEMMA ActivatesInv ==
    ASSUME TypeOK, CountedInv, op # None, Touches, Activates, UNCHANGED pods
    PROVE  /\ TypeOK' /\ CountedInv'
           /\ Goes("container", op.image, op.id, Append(op.packages, [id |-> op.id, image |-> op.image]))
<1> DEFINE package == [id |-> op.id, image |-> op.image]
           packages == Append(op.packages, package)
           n == Len(op.packages)
<1>1. op \in Handlers /\ op.step = "activate" /\ op.id \in Ids /\ op.image \in Images
      /\ op.kind = "CreatePod" /\ op.packages \in Seq(Packages)
  BY DEF Activates, TypeOK, OpInv, Deploying, Handlers
<1>2. package \in Packages /\ package.id = op.id /\ package.image = op.image
  BY <1>1 DEF Packages
<1>3. /\ packages \in Seq(Packages) /\ Len(packages) = n + 1 /\ n \in Nat
      /\ \A i \in 1..n : packages[i] = op.packages[i]
      /\ packages[n + 1] = package
      /\ DOMAIN packages = 1..(n + 1) /\ DOMAIN op.packages = 1..n
  <2>1. /\ packages \in Seq(Packages) /\ Len(packages) = n + 1
        /\ \A i \in 1..n : packages[i] = op.packages[i]
        /\ packages[n + 1] = package
    BY <1>1, <1>2, AppendProperties
  <2> QED
    BY <1>1, <2>1, LenProperties
<1>4. Goes("container", op.image, op.id, packages)
  <2>1. op' = [op EXCEPT !.step = "container", !.packages = packages]
    BY DEF Activates
  <2>2. /\ op'.step = "container" /\ op'.packages = packages /\ op'.kind = op.kind
        /\ op'.pod = op.pod /\ op'.image = op.image /\ op'.id = op.id
    BY <1>1, <2>1 DEF Handlers
  <2>3. op' \in Handlers
    BY <1>1, <1>3, <2>1 DEF Handlers, Steps
  <2> QED
    BY <2>2, <2>3, NoneIsNoHandler DEF Goes
<1>5. \A o \in Range(op.packages) \cup KeptPackages : Active(o) /\ o.id # op.id
  BY <1>1 DEF CountedInv, KeptActive, BuiltActive, Building, MadeApart, Making
<1>6. \A o : Active(o) /\ o.id # op.id => Active(o)'
  BY DEF Activates, Active
<1>7. /\ package.id \in DOMAIN device'
      /\ device'[package.id] = [image |-> package.image, state |-> "active"]
  BY <1>2 DEF Activates
<1> HIDE DEF packages, package
<1>8. TypeOK'
  <2>1. faults' \in Nat /\ DOMAIN device' \subseteq Ids
    BY DEF TypeOK, Activates
  <2> QED
    BY <1>1, <1>4, <2>1, TypeGoes DEF Deploying, Making, Steps
<1>9. Kept' = Kept /\ KeptPackages' = KeptPackages
  <2>1. Kept' = Kept
    BY <1>4 DEF Kept, Goes
  <2> QED
    BY <2>1 DEF KeptPackages
<1>10. \A i \in DOMAIN packages :
          \/ i = n + 1 /\ packages[i] = package
          \/ i \in DOMAIN op.packages /\ packages[i] = op.packages[i] /\ packages[i] \in Range(op.packages)
  BY <1>3 DEF Range
<1>11. \A o \in Range(packages) : o = package \/ o \in Range(op.packages)
  BY <1>10 DEF Range
<1>12. KeptActive' /\ KeptApart'
  BY <1>5, <1>6, <1>9 DEF CountedInv, KeptActive, KeptApart
<1>13. HeldApart'
  <2>1. \A o \in Range(packages) : \A q \in KeptPackages : o.id # q.id
    BY <1>2, <1>5, <1>11 DEF CountedInv, HeldApart
  <2> QED
    BY <1>4, <1>9, <2>1 DEF HeldApart, Goes
<1>14. BuiltActive'
  <2>1. \A o \in Range(packages) : Active(o)'
    <3>1. TAKE o \in Range(packages)
    <3>2. o.id \in DOMAIN device' /\ device'[o.id] = [image |-> o.image, state |-> "active"]
      <4>1. CASE o = package
        BY <1>7, <4>1
      <4>2. CASE o \in Range(op.packages)
        BY <1>5, <1>6, <4>2 DEF Active
      <4> QED
        BY <1>11, <4>1, <4>2
    <3> QED
      BY <3>2 DEF Active
  <2>2. \A i, j \in DOMAIN op.packages : i # j => op.packages[i].id # op.packages[j].id
    BY <1>1 DEF CountedInv, BuiltActive, Building
  <2>3. \A i, j \in DOMAIN packages : i # j => packages[i].id # packages[j].id
    BY <1>2, <1>5, <1>10, <2>2
  <2> QED
    BY <1>4, <2>1, <2>3 DEF BuiltActive, Goes
<1>15. MadeApart'
  BY <1>4 DEF MadeApart, Making, Goes
<1> QED
  BY <1>4, <1>8, <1>12, <1>13, <1>14, <1>15 DEF CountedInv, packages, package

-----------------------------------------------------------------------------
(* The steps of the handler that send no request. *)

(* Between two containers, before the adapter and after it, CreatePod goes on *)
(* with the packages it has, or is done.                                      *)
Between == /\ op # None /\ op.step \in {"container", "adapter"}
           /\ UNCHANGED <<device, faults, lost>>

Advances ==
    /\ Between /\ UNCHANGED pods
    /\ \/ \E step \in {"remove", "adapter"} : Goto(step)
       \/ \E image \in Images : op' = [op EXCEPT !.step = "fetch", !.image = image]

LEMMA ContainerIs ==
    ASSUME TypeOK, NextContainer \/ Adapter
    PROVE  Advances \/ (Between /\ Created)
<1>1. Between
  BY DEF NextContainer, Adapter, At, Between
<1>2. op.pod \in Pods /\ op.packages \in Seq(Packages)
  BY <1>1 DEF Between, TypeOK, OpInv, Handlers
<1>3. CASE Adapter
  BY <1>1, <1>3 DEF Adapter, Advances
<1>4. CASE NextContainer
  <2> DEFINE images == Containers[op.pod]
             n == Len(op.packages) + 1
  <2>1. images \in Seq(Images) /\ Len(images) \in Nat /\ n \in Nat \ {0}
    BY <1>2, LeshanAssumption, LenProperties
  <2>2. CASE n > Len(images)
    <3>1. (Goto("adapter") /\ UNCHANGED pods) \/ Created
      BY <1>4, <2>2 DEF NextContainer
    <3> QED
      BY <1>1, <3>1 DEF Advances
  <2>3. CASE ~(n > Len(images))
    <3>1. images[n] \in Images
      BY <2>1, <2>3, ElementOfSeq
    <3>2. /\ UNCHANGED pods
          /\ Goto("remove") \/ op' = [op EXCEPT !.step = "fetch", !.image = images[n]]
      BY <1>4, <2>3 DEF NextContainer
    <3> HIDE DEF images, n
    <3> QED
      BY <1>1, <3>1, <3>2 DEF Advances
  <2> QED
    BY <2>2, <2>3
<1> QED
  BY <1>3, <1>4

(* CreatePod goes on with what it has. *)
LEMMA QuietInv ==
    ASSUME TypeOK, CountedInv,
           \/ Resolve \/ Copy \/ GetInstances \/ ReadFile
           \/ Advances
    PROVE  /\ TypeOK' /\ CountedInv' /\ op # None /\ UNCHANGED <<pods, device, lost>>
           /\ \E step \in Steps : \E image, id : Goes(step, image, id, op.packages)
           /\ op.step \in Making => op'.step \in Making /\ op'.id = op.id
           /\ Fault \/ UNCHANGED faults
<1>1. /\ op # None /\ UNCHANGED <<pods, device, lost>> /\ (Fault \/ UNCHANGED faults)
      /\ op.step \in {"fetch", "copy", "list", "read", "container", "adapter"}
      /\ op.step = "read" <=> ReadFile
      /\ op.step \in {"container", "adapter"} => Advances
  BY DEF Resolve, Copy, GetInstances, ReadFile, Advances, Between, At
<1>2. op \in Handlers /\ op.kind = "CreatePod" /\ op.pod \in Pods /\ op.packages \in Seq(Packages)
  BY <1>1 DEF TypeOK, OpInv, Handlers
<1>3. \E step \in Steps, image \in Images \cup {None}, id \in Ids \cup {0} :
        /\ Goes(step, image, id, op.packages)
        /\ step \in {"fetch", "copy", "list", "create", "write", "adapter", "remove", "cleanup"}
        /\ step \in Deploying \cup {"fetch", "copy", "list"} => image \in Images
        /\ step \in Deploying \cup Making => id \in Ids
        /\ step \in Making <=> op.step = "read"
        /\ step \in Making => id = op.id
  <2>1. CASE Advances
    <3>1. op.step \in {"container", "adapter"}
      BY <2>1 DEF Advances, Between
    <3>2. ASSUME NEW step \in {"remove", "adapter"}, Goto(step)
          PROVE  Goes(step, op.image, op.id, op.packages)
      BY <1>1, <3>2, GotoGoes DEF Steps
    <3>3. ASSUME NEW image \in Images, op' = [op EXCEPT !.step = "fetch", !.image = image]
          PROVE  Goes("fetch", image, op.id, op.packages)
      <4>1. /\ op'.step = "fetch" /\ op'.packages = op.packages /\ op'.kind = op.kind
            /\ op'.pod = op.pod /\ op'.image = image /\ op'.id = op.id
        BY <1>2, <3>3 DEF Handlers
      <4>2. op' \in Handlers
        BY <1>2, <3>3 DEF Handlers, Steps
      <4> QED
        BY <4>1, <4>2, NoneIsNoHandler DEF Goes
    <3> QED
      BY <1>2, <2>1, <3>1, <3>2, <3>3 DEF Advances, Steps, Deploying, Making, Handlers
  <2>2. CASE Resolve \/ Copy
    <3>1. PICK step \in {"copy", "list", "remove"} : Goto(step)
      BY <2>2 DEF Resolve, Copy
    <3>2. op.step \in {"fetch", "copy"} /\ op.image \in Images
      BY <1>1, <2>2 DEF Resolve, Copy, At, TypeOK, OpInv
    <3> QED
      BY <1>1, <1>2, <3>1, <3>2, GotoGoes DEF Steps, Deploying, Making, Handlers
  <2>3. CASE GetInstances
    <3>1. op.step = "list" /\ op.image \in Images
      BY <1>1, <2>3 DEF GetInstances, At, TypeOK, OpInv
    <3>2. CASE Failed(0)
      <4>1. Goto("remove")
        BY <3>2 DEF Failed
      <4> QED
        BY <1>1, <1>2, <3>1, <4>1, GotoGoes DEF Steps, Deploying, Making, Handlers
    <3>3. CASE Ids \ listed # {} /\ op' = [op EXCEPT !.step = "create", !.id = packageId]
      <4>1. packageId \in Ids
        BY <3>3, PackageIdIs
      <4>2. Goes("create", op.image, packageId, op.packages)
        <5>1. /\ op'.step = "create" /\ op'.packages = op.packages /\ op'.kind = op.kind
              /\ op'.pod = op.pod /\ op'.image = op.image /\ op'.id = packageId
          BY <1>2, <3>3 DEF Handlers
        <5>2. op' \in Handlers
          BY <1>2, <3>3, <4>1 DEF Handlers, Steps
        <5> QED
          BY <5>1, <5>2, NoneIsNoHandler DEF Goes
      <4> QED
        BY <1>2, <3>1, <4>1, <4>2 DEF Steps, Deploying, Making, Handlers
    <3> QED
      BY <2>3, <3>2, <3>3 DEF GetInstances
  <2>4. CASE ReadFile
    <3>1. op.step = "read" /\ op.id \in Ids /\ op.image \in Images
      BY <1>1, <2>4 DEF TypeOK, OpInv, Making, Deploying
    <3>2. \E step \in {"write", "cleanup"} : Goto(step)
      BY <2>4, <3>1, IdsAre DEF ReadFile, Failed
    <3> QED
      BY <1>1, <1>2, <3>1, <3>2, GotoGoes DEF Steps, Deploying, Making, Handlers
  <2> QED
    BY <2>1, <2>2, <2>3, <2>4
<1>4. PICK step \in Steps, image \in Images \cup {None}, id \in Ids \cup {0} :
        /\ Goes(step, image, id, op.packages)
        /\ step \in {"fetch", "copy", "list", "create", "write", "adapter", "remove", "cleanup"}
        /\ step \in Deploying \cup {"fetch", "copy", "list"} => image \in Images
        /\ step \in Deploying \cup Making => id \in Ids
        /\ step \in Making <=> op.step = "read"
        /\ step \in Making => id = op.id
  BY <1>3
<1>5. faults' \in Nat /\ DOMAIN device' \subseteq Ids
  BY <1>1, FaultCounts DEF TypeOK
<1>6. TypeOK'
  BY <1>1, <1>2, <1>4, <1>5, TypeGoes
<1>7. op.step = "read" => /\ \A o \in KeptPackages : o.id # op.id
                          /\ \A o \in Range(op.packages) : o.id # op.id
  BY <1>1 DEF CountedInv, MadeApart, Making
<1>8. /\ \A o \in KeptPackages : Active(o)'
      /\ \A o \in Range(op.packages) : Active(o) => Active(o)'
  BY <1>1 DEF CountedInv, KeptActive, Active
<1>9. CountedInv'
  BY <1>1, <1>4, <1>7, <1>8, CountedGoes
<1>10. op.step \in Making => op'.step \in Making /\ op'.id = op.id
  BY <1>1, <1>4 DEF Making, Goes
<1> QED
  BY <1>1, <1>4, <1>6, <1>9, <1>10

LEMMA RangeEmpty == Range(<<>>) = {}
  BY DEF Range

(* A handler begins: CreatePod with no packages, DeletePod with the pod's.    *)
LEMMA BeginIs ==
    ASSUME NEW kind \in {"CreatePod", "DeletePod"}, NEW p \in Pods, NEW step \in Steps,
           NEW packages \in Seq(Packages), Begin(kind, p, step, packages)
    PROVE  /\ op' \in Handlers /\ op' # None /\ op'.kind = kind /\ op'.pod = p /\ op'.step = step
           /\ op'.packages = packages
<1>1. op' = [kind |-> kind, pod |-> p, step |-> step, image |-> None, id |-> 0, packages |-> packages]
  BY DEF Begin
<1>2. op' \in Handlers
  BY <1>1 DEF Handlers
<1> QED
  BY <1>1, <1>2, NoneIsNoHandler

LEMMA CreateInv ==
    ASSUME TypeOK, CountedInv, NEW p \in Pods, CreatePod(p)
    PROVE  TypeOK' /\ CountedInv' /\ KeptPackages' = KeptPackages
<1>1. /\ op' \in Handlers /\ op' # None /\ op'.kind = "CreatePod" /\ op'.pod = p
      /\ op'.step = "container" /\ op'.packages = <<>>
      /\ op = None /\ p \notin DOMAIN pods /\ UNCHANGED <<pods, device, faults>>
  <2>1. Begin("CreatePod", p, "container", <<>>) /\ <<>> \in Seq(Packages) /\ "container" \in Steps
    BY DEF CreatePod, Steps
  <2> QED
    BY <2>1, BeginIs DEF CreatePod
<1>2. TypeOK'
  BY <1>1 DEF TypeOK, OpInv, Deploying, Making
<1>3. Kept' = Kept /\ KeptPackages' = KeptPackages
  <2>1. Kept' = Kept
    BY <1>1 DEF Kept
  <2> QED
    BY <1>1, <2>1 DEF KeptPackages
<1>4. KeptActive' /\ KeptApart'
  BY <1>1, <1>3 DEF CountedInv, KeptActive, KeptApart, Active
<1>5. HeldApart' /\ BuiltActive' /\ MadeApart'
  BY <1>1, RangeEmpty DEF HeldApart, BuiltActive, MadeApart, Making
<1> QED
  BY <1>2, <1>3, <1>4, <1>5 DEF CountedInv

LEMMA DeleteInv ==
    ASSUME TypeOK, CountedInv, NEW p \in Pods, DeletePod(p)
    PROVE  /\ TypeOK' /\ CountedInv' /\ op = None /\ p \in DOMAIN pods
           /\ op' # None /\ op'.packages = pods[p] /\ Kept' = Kept \ {p}
<1>1. /\ op' \in Handlers /\ op' # None /\ op'.kind = "DeletePod" /\ op'.pod = p
      /\ op'.step = "remove" /\ op'.packages = pods[p]
      /\ op = None /\ p \in DOMAIN pods /\ UNCHANGED <<pods, device, faults>>
  BY BeginIs DEF DeletePod, Steps, TypeOK
<1>2. TypeOK'
  BY <1>1 DEF TypeOK, OpInv, Deploying, Making
<1>3. Kept' = Kept \ {p} /\ Kept = DOMAIN pods
  BY <1>1 DEF Kept
<1>4. KeptPackages' \subseteq KeptPackages
  BY <1>1, <1>3 DEF KeptPackages
<1>5. KeptActive' /\ KeptApart'
  BY <1>1, <1>3, <1>4 DEF CountedInv, KeptActive, KeptApart, Active
<1>6. HeldApart'
  <2>1. ASSUME NEW o \in Range(pods[p]), NEW q \in KeptPackages' PROVE o.id # q.id
    <3>1. PICK j \in Kept' : q \in Range(pods[j])
      BY <1>1 DEF KeptPackages
    <3>2. PICK l \in DOMAIN pods[j] : q = pods[j][l]
      BY <3>1 DEF Range
    <3>3. PICK i \in DOMAIN pods[p] : o = pods[p][i]
      BY DEF Range
    <3>4. j \in Kept /\ p \in Kept /\ j # p
      BY <1>1, <1>3
    <3> QED
      BY <3>2, <3>3, <3>4 DEF CountedInv, KeptApart
  <2> QED
    BY <1>1, <2>1 DEF HeldApart
<1>7. BuiltActive' /\ MadeApart'
  BY <1>1 DEF BuiltActive, Building, MadeApart, Making
<1> QED
  BY <1>1, <1>2, <1>3, <1>5, <1>6, <1>7 DEF CountedInv

(* All is deployed: the packages are those of a pod now. *)
LEMMA EntersInv ==
    ASSUME TypeOK, CountedInv, Between, Created
    PROVE  /\ TypeOK' /\ CountedInv' /\ op # None /\ op' = None /\ UNCHANGED <<device, faults, lost>>
           /\ op.step \notin Making /\ KeptPackages' = KeptPackages \cup Range(op.packages)
<1>1. /\ op # None /\ op.step \in {"container", "adapter"} /\ op' = None
      /\ UNCHANGED <<device, faults, lost>>
      /\ pods' = With(pods, op.pod, op.packages)
  BY DEF Between, Created
<1>2. /\ op.kind = "CreatePod" /\ op.pod \notin DOMAIN pods /\ op.pod \in Pods
      /\ op.packages \in Seq(Packages)
  BY <1>1 DEF TypeOK, OpInv, Handlers
<1>3. /\ DOMAIN pods' = DOMAIN pods \cup {op.pod} /\ pods'[op.pod] = op.packages
      /\ \A p \in DOMAIN pods : pods'[p] = pods[p] /\ p # op.pod
  BY <1>1, <1>2 DEF With
<1>4. TypeOK'
  <2>1. \A p \in DOMAIN pods' : pods'[p] \in Seq(Packages)
    BY <1>2, <1>3 DEF TypeOK
  <2> QED
    BY <1>1, <1>2, <1>3, <2>1 DEF TypeOK, OpInv
<1>5. Kept = DOMAIN pods /\ Kept' = Kept \cup {op.pod}
  BY <1>1, <1>2, <1>3 DEF Kept
<1>6. KeptPackages' = KeptPackages \cup Range(op.packages)
  BY <1>3, <1>5 DEF KeptPackages
<1>7. Building
  BY <1>1, <1>2 DEF Building
<1>8. KeptActive'
  <2>1. SUFFICES ASSUME NEW o \in KeptPackages \cup Range(op.packages) PROVE Active(o)'
    BY <1>6 DEF KeptActive
  <2>2. Active(o)
    BY <1>7, <2>1 DEF CountedInv, KeptActive, BuiltActive
  <2> QED
    BY <1>1, <2>2 DEF Active
<1>9. KeptApart'
  <2>1. ASSUME NEW p \in Kept', NEW q \in Kept', NEW i \in DOMAIN pods'[p], NEW j \in DOMAIN pods'[q],
               p # q \/ i # j
        PROVE  pods'[p][i].id # pods'[q][j].id
    <3>1. CASE p = op.pod /\ q = op.pod
      BY <1>3, <1>7, <2>1, <3>1 DEF CountedInv, BuiltActive
    <3>2. CASE p = op.pod /\ q # op.pod
      <4>1. q \in Kept /\ pods'[q] = pods[q] /\ pods'[p] = op.packages
        BY <1>3, <1>5, <3>2
      <4>2. pods[q][j] \in KeptPackages /\ op.packages[i] \in Range(op.packages)
        BY <4>1 DEF KeptPackages, Range
      <4> QED
        BY <1>1, <4>1, <4>2 DEF CountedInv, HeldApart
    <3>3. CASE p # op.pod /\ q = op.pod
      <4>1. p \in Kept /\ pods'[p] = pods[p] /\ pods'[q] = op.packages
        BY <1>3, <1>5, <3>3
      <4>2. pods[p][i] \in KeptPackages /\ op.packages[j] \in Range(op.packages)
        BY <4>1 DEF KeptPackages, Range
      <4> QED
        BY <1>1, <4>1, <4>2 DEF CountedInv, HeldApart
    <3>4. CASE p # op.pod /\ q # op.pod
      <4>1. p \in Kept /\ pods'[p] = pods[p] /\ q \in Kept /\ pods'[q] = pods[q]
        BY <1>3, <1>5, <3>4
      <4> QED
        BY <2>1, <4>1 DEF CountedInv, KeptApart
    <3> QED
      BY <3>1, <3>2, <3>3, <3>4
  <2> QED
    BY <2>1 DEF KeptApart
<1>10. HeldApart' /\ BuiltActive' /\ MadeApart'
  BY <1>1 DEF HeldApart, BuiltActive, Building, MadeApart
<1> QED
  BY <1>1, <1>4, <1>6, <1>8, <1>9, <1>10 DEF CountedInv, Making

(* The handler ends, with nothing left to remove. *)
LEMMA ReturnInv ==
    ASSUME TypeOK, CountedInv, Return
    PROVE  /\ TypeOK' /\ CountedInv' /\ op # None /\ op' = None /\ UNCHANGED <<device, faults, lost>>
           /\ op.step = "remove" /\ op.packages = <<>> /\ KeptPackages' = KeptPackages
<1>1. /\ op # None /\ op.step = "remove" /\ op.packages = <<>> /\ op' = None
      /\ UNCHANGED <<device, faults, lost>>
      /\ pods' = IF op.kind = "DeletePod" THEN Without(pods, op.pod) ELSE pods
  BY DEF Return, At
<1>2. op.kind \in {"CreatePod", "DeletePod"}
  BY <1>1 DEF TypeOK, OpInv, Handlers
<1>3. /\ Kept' = Kept /\ DOMAIN pods' \subseteq DOMAIN pods
      /\ \A p \in DOMAIN pods' : pods'[p] = pods[p]
  BY <1>1, <1>2 DEF Kept, Without
<1>4. Kept \subseteq DOMAIN pods'
  BY <1>1, <1>2 DEF Kept, Without
<1>5. KeptPackages' = KeptPackages
  BY <1>3, <1>4 DEF KeptPackages
<1>6. TypeOK'
  BY <1>1, <1>3 DEF TypeOK, OpInv
<1>7. KeptActive' /\ KeptApart'
  BY <1>1, <1>3, <1>4, <1>5 DEF CountedInv, KeptActive, KeptApart, Active
<1>8. HeldApart' /\ BuiltActive' /\ MadeApart'
  BY <1>1 DEF HeldApart, BuiltActive, Building, MadeApart
<1> QED
  BY <1>1, <1>5, <1>6, <1>7, <1>8 DEF CountedInv

(* RemovePackage takes one instance away, unless it fails. *)
LEMMA RemovesOne ==
    ASSUME TypeOK, NEW id, RemovePackage(id)
    PROVE  /\ \A o : o.id # id /\ Active(o) => Active(o)'
           /\ DOMAIN device' \subseteq DOMAIN device /\ DOMAIN device' \subseteq Ids
           /\ UNCHANGED <<pods, lost>> /\ faults' \in Nat
           /\ (UNCHANGED faults /\ id \notin DOMAIN device') \/ Fault
<1>1. UNCHANGED <<pods, lost>> /\ device' \in {device, Without(device, id)}
  BY DEF RemovePackage
<1>2. /\ \A o : o.id # id /\ Active(o) => Active(o)'
      /\ DOMAIN device' \subseteq DOMAIN device
  BY <1>1 DEF Active, Without
<1>3. (UNCHANGED faults /\ id \notin DOMAIN device') \/ Fault
  BY DEF RemovePackage, Without
<1> QED
  BY <1>1, <1>2, <1>3, FaultCounts DEF TypeOK

LEMMA CleanUpInv ==
    ASSUME TypeOK, CountedInv, CleanUp
    PROVE  /\ TypeOK' /\ CountedInv' /\ op # None /\ op.step = "cleanup"
           /\ Goes("remove", op.image, op.id, op.packages) /\ RemovePackage(op.id)
<1>1. op # None /\ op.step = "cleanup" /\ RemovePackage(op.id) /\ Goto("remove")
  BY DEF CleanUp, At
<1>2. Goes("remove", op.image, op.id, op.packages)
  BY <1>1, GotoGoes DEF Steps
<1>3. TypeOK'
  BY <1>1, <1>2, RemovesOne, TypeGoes DEF Steps, Deploying, Making
<1>4. \A o \in KeptPackages : Active(o)'
  BY <1>1, RemovesOne DEF CountedInv, KeptActive, MadeApart, Making
<1>5. CountedInv'
  BY <1>1, <1>2, <1>4, RemovesOne, CountedGoes DEF Steps, Making
<1> QED
  BY <1>1, <1>2, <1>3, <1>5

LEMMA RemoveNextInv ==
    ASSUME TypeOK, CountedInv, RemoveNext
    PROVE  /\ TypeOK' /\ CountedInv' /\ op # None /\ op.step = "remove"
           /\ \E packages : Goes("remove", op.image, op.id, packages)
           /\ RemovePackage(Head(op.packages).id)
           /\ \A o \in Range(op.packages) : o.id # Head(op.packages).id => o \in Range(op'.packages)
<1> DEFINE packages == Tail(op.packages)
<1>1. /\ op # None /\ op.step = "remove" /\ RemovePackage(Head(op.packages).id)
      /\ op' = [op EXCEPT !.packages = packages] /\ op.packages # <<>>
  BY DEF RemoveNext, At
<1>2. op \in Handlers /\ op.packages \in Seq(Packages)
  BY <1>1 DEF TypeOK, OpInv, Handlers
<1>3. /\ packages \in Seq(Packages) /\ Len(packages) = Len(op.packages) - 1
      /\ \A i \in 1..Len(packages) : packages[i] = op.packages[i + 1]
      /\ Head(op.packages) = op.packages[1] /\ Len(op.packages) \in Nat \ {0}
      /\ DOMAIN packages = 1..Len(packages) /\ DOMAIN op.packages = 1..Len(op.packages)
  <2>1. /\ packages \in Seq(Packages) /\ Len(packages) = Len(op.packages) - 1
        /\ \A i \in 1..Len(packages) : packages[i] = op.packages[i + 1]
    BY <1>1, <1>2, HeadTailProperties
  <2> QED
    BY <1>1, <1>2, <2>1, LenProperties, EmptySeq
<1>4. Goes("remove", op.image, op.id, packages)
  <2>1. /\ op'.step = "remove" /\ op'.packages = packages /\ op'.kind = op.kind
        /\ op'.pod = op.pod /\ op'.image = op.image /\ op'.id = op.id
    BY <1>1, <1>2 DEF Handlers
  <2>2. op' \in Handlers
    BY <1>1, <1>2, <1>3 DEF Handlers
  <2> QED
    BY <2>1, <2>2, NoneIsNoHandler DEF Goes
<1>5. /\ Range(packages) \subseteq Range(op.packages) /\ Head(op.packages) \in Range(op.packages)
      /\ \A o \in Range(op.packages) : o # Head(op.packages) => o \in Range(packages)
  <2>1. \A i \in DOMAIN packages : i + 1 \in DOMAIN op.packages /\ packages[i] = op.packages[i + 1]
    BY <1>3
  <2>2. ASSUME NEW i \in DOMAIN op.packages, op.packages[i] # Head(op.packages)
        PROVE  i - 1 \in DOMAIN packages /\ packages[i - 1] = op.packages[i]
    BY <1>3, <2>2
  <2>3. Range(packages) \subseteq Range(op.packages)
    BY <2>1 DEF Range
  <2>4. Head(op.packages) \in Range(op.packages)
    <3>1. 1 \in DOMAIN op.packages
      BY <1>3
    <3> QED
      BY <1>3, <3>1 DEF Range
  <2>5. ASSUME NEW o \in Range(op.packages), o # Head(op.packages) PROVE o \in Range(packages)
    <3>1. PICK i \in DOMAIN op.packages : o = op.packages[i]
      BY DEF Range
    <3>2. i - 1 \in DOMAIN packages /\ packages[i - 1] = o
      BY <2>2, <2>5, <3>1
    <3> QED
      BY <3>2 DEF Range
  <2> QED
    BY <2>3, <2>4, <2>5
<1> HIDE DEF packages
<1>6. TypeOK'
  BY <1>1, <1>4, RemovesOne, TypeGoes DEF Steps, Deploying, Making
<1>7. Kept' = Kept /\ KeptPackages' = KeptPackages
  <2>1. UNCHANGED pods
    BY <1>1, RemovesOne
  <2>2. Kept' = Kept
    BY <1>1, <1>4, <2>1 DEF Kept, Goes
  <2> QED
    BY <2>1, <2>2 DEF KeptPackages
<1>8. \A o \in KeptPackages : Active(o)'
  <2>1. \A o \in KeptPackages : Active(o) /\ o.id # Head(op.packages).id
    BY <1>1, <1>5 DEF CountedInv, KeptActive, HeldApart
  <2> QED
    BY <1>1, <2>1, RemovesOne
<1>9. KeptActive' /\ KeptApart'
  <2>1. UNCHANGED pods
    BY <1>1, RemovesOne
  <2> QED
    BY <1>7, <1>8, <2>1 DEF CountedInv, KeptActive, KeptApart
<1>10. HeldApart'
  BY <1>1, <1>4, <1>5, <1>7 DEF CountedInv, HeldApart, Goes
<1>11. BuiltActive' /\ MadeApart'
  BY <1>4 DEF BuiltActive, Building, MadeApart, Making, Goes
<1> QED
  BY <1>1, <1>4, <1>5, <1>6, <1>9, <1>10, <1>11 DEF CountedInv, Goes

LEMMA CrashInv ==
    ASSUME TypeOK, Crash
    PROVE  TypeOK' /\ CountedInv' /\ Strays' = {}
<1>1. /\ DOMAIN pods' = {} /\ op' = None /\ lost' = DOMAIN device /\ UNCHANGED device
      /\ faults' \in Nat
  BY FaultCounts DEF Crash
<1>2. TypeOK'
  BY <1>1 DEF TypeOK, OpInv
<1>3. Kept' = {} /\ KeptPackages' = {}
  BY <1>1 DEF Kept, KeptPackages
<1>4. CountedInv'
  BY <1>1, <1>3 DEF CountedInv, KeptActive, KeptApart, HeldApart, BuiltActive, Building, MadeApart
<1> QED
  BY <1>1, <1>2, <1>4 DEF Strays

LEMMA OutsideInv ==
    ASSUME TypeOK, CountedInv, UNCHANGED <<pods, op, device, faults>>
    PROVE  TypeOK' /\ CountedInv' /\ Known' = Known
<1>1. Kept' = Kept /\ KeptPackages' = KeptPackages /\ Building' = Building
  BY DEF Kept, KeptPackages, Building
<1>2. TypeOK'
  BY DEF TypeOK, OpInv
<1>3. KeptActive' /\ KeptApart' /\ HeldApart'
  BY <1>1 DEF CountedInv, KeptActive, KeptApart, HeldApart, Active
<1>4. BuiltActive' /\ MadeApart'
  BY <1>1 DEF CountedInv, BuiltActive, MadeApart, Active
<1> QED
  BY <1>1, <1>2, <1>3, <1>4 DEF CountedInv, Known

-----------------------------------------------------------------------------
(* Every step. *)

LEMMA InvStep == ASSUME TypeOK, CountedInv, [Next]_vars PROVE TypeOK' /\ CountedInv'
<1>1. CASE Resolve \/ Copy \/ GetInstances \/ ReadFile
  BY <1>1, QuietInv
<1>2. CASE NextContainer \/ Adapter
  BY <1>2, ContainerIs, QuietInv, EntersInv
<1>3. CASE CreateInstance \/ Write \/ Install \/ Activate
  BY <1>3, RequestIs, FailsInv, ProceedsInv, ActivatesInv
<1>4. CASE CleanUp \/ RemoveNext \/ Return
  BY <1>4, CleanUpInv, RemoveNextInv, ReturnInv
<1>5. CASE \E p \in Pods : CreatePod(p) \/ DeletePod(p)
  BY <1>5, CreateInv, DeleteInv
<1>6. CASE Crash
  BY <1>6, CrashInv
<1>7. CASE Wish \/ Refresh \/ UNCHANGED vars
  <2>1. UNCHANGED <<pods, op, device, faults>>
    BY <1>7 DEF Wish, Refresh, vars
  <2> QED
    BY <2>1, OutsideInv
<1> QED
  BY <1>1, <1>2, <1>3, <1>4, <1>5, <1>6, <1>7 DEF Next, Step

LEMMA InvHolds == Spec => [](TypeOK /\ CountedInv)
<1>1. Init => TypeOK /\ CountedInv
  BY InitInv
<1>2. TypeOK /\ CountedInv /\ [Next]_vars => (TypeOK /\ CountedInv)'
  BY InvStep
<1> QED
  BY <1>1, <1>2, PTL DEF Spec

(* Types: the ids the kubelet asks for are ids, a handler has an image and an *)
(* id when it needs them, and CreatePod's pod is not in the map.              *)
THEOREM TypeCorrect == Spec => []TypeOK
  BY InvHolds, PTL

-----------------------------------------------------------------------------
(* The packages that count, one by one. *)

(* A package that counts is a pod's, or one that CreatePod has deployed.      *)
LEMMA CountedIs ==
    ASSUME TypeOK, NEW c \in Counted
    PROVE  \/ /\ c[1] \in Kept /\ c[2] \in DOMAIN pods[c[1]] /\ Package(c) = pods[c[1]][c[2]]
              /\ c = <<c[1], c[2]>> /\ Package(c) \in KeptPackages
           \/ /\ Building /\ c[1] = op.pod /\ c[2] \in DOMAIN op.packages
              /\ c = <<c[1], c[2]>> /\ Package(c) = op.packages[c[2]]
              /\ Package(c) \in Range(op.packages)
<1>1. CASE \E p \in Kept : \E i \in DOMAIN pods[p] : c = <<p, i>>
  <2>1. PICK p \in Kept : \E i \in DOMAIN pods[p] : c = <<p, i>>
    BY <1>1
  <2>2. PICK i \in DOMAIN pods[p] : c = <<p, i>>
    BY <2>1
  <2>3. c[1] = p /\ c[2] = i /\ p \in DOMAIN pods
    BY <2>1, <2>2 DEF Kept
  <2>4. Package(c) = pods[p][i]
    BY <2>3 DEF Package
  <2>5. pods[p][i] \in KeptPackages
    BY DEF KeptPackages, Range
  <2> QED
    BY <2>2, <2>3, <2>4, <2>5
<1>2. CASE Building /\ \E i \in DOMAIN op.packages : c = <<op.pod, i>>
  <2>1. PICK i \in DOMAIN op.packages : c = <<op.pod, i>>
    BY <1>2
  <2>2. op.pod \notin DOMAIN pods
    BY <1>2 DEF Building, TypeOK, OpInv
  <2>3. c[1] = op.pod /\ c[2] = i /\ Package(c) = op.packages[i]
    BY <2>1, <2>2 DEF Package
  <2>4. op.packages[i] \in Range(op.packages)
    BY DEF Range
  <2> QED
    BY <1>2, <2>1, <2>3, <2>4
<1>3. \/ \E p \in Kept : \E i \in DOMAIN pods[p] : c = <<p, i>>
      \/ Building /\ \E i \in DOMAIN op.packages : c = <<op.pod, i>>
  <2>1. Building <=> op # None /\ op.kind = "CreatePod" /\ ~At("remove") /\ ~At("cleanup")
    BY DEF Building, At
  <2> QED
    BY <2>1 DEF Counted, Kept
<1> QED
  BY <1>1, <1>2, <1>3

LEMMA CountedFollows == TypeOK /\ CountedInv => CountedIsActive
<1> SUFFICES ASSUME TypeOK, CountedInv PROVE CountedIsActive
  OBVIOUS
<1>1. ASSUME NEW c \in Counted PROVE Active(Package(c))
  BY CountedIs DEF CountedInv, KeptActive, BuiltActive
<1>2. ASSUME NEW c \in Counted, NEW d \in Counted, c # d PROVE Package(c).id # Package(d).id
  <2>1. CASE c[1] \in Kept /\ d[1] \in Kept
    <3>1. /\ c[2] \in DOMAIN pods[c[1]] /\ Package(c) = pods[c[1]][c[2]] /\ c = <<c[1], c[2]>>
          /\ d[2] \in DOMAIN pods[d[1]] /\ Package(d) = pods[d[1]][d[2]] /\ d = <<d[1], d[2]>>
      BY <2>1, CountedIs DEF Kept, Building, TypeOK, OpInv
    <3>2. c[1] # d[1] \/ c[2] # d[2]
      BY <1>2, <3>1
    <3> QED
      BY <2>1, <3>1, <3>2 DEF CountedInv, KeptApart
  <2>2. CASE c[1] \notin Kept /\ d[1] \notin Kept
    <3>1. /\ Building /\ c[1] = op.pod /\ d[1] = op.pod
          /\ c[2] \in DOMAIN op.packages /\ Package(c) = op.packages[c[2]] /\ c = <<c[1], c[2]>>
          /\ d[2] \in DOMAIN op.packages /\ Package(d) = op.packages[d[2]] /\ d = <<d[1], d[2]>>
      BY <2>2, CountedIs
    <3>2. c[2] # d[2]
      BY <1>2, <3>1
    <3> QED
      BY <3>1, <3>2 DEF CountedInv, BuiltActive
  <2>3. CASE c[1] \in Kept /\ d[1] \notin Kept
    <3>1. op # None /\ Package(c) \in KeptPackages /\ Package(d) \in Range(op.packages)
      <4>1. Building /\ Package(d) \in Range(op.packages)
        BY <2>3, CountedIs
      <4>2. Package(c) \in KeptPackages
        BY <2>3, CountedIs DEF Kept, Building, TypeOK, OpInv
      <4> QED
        BY <4>1, <4>2 DEF Building
    <3> QED
      BY <3>1 DEF CountedInv, HeldApart
  <2>4. CASE c[1] \notin Kept /\ d[1] \in Kept
    <3>1. op # None /\ Package(d) \in KeptPackages /\ Package(c) \in Range(op.packages)
      <4>1. Building /\ Package(c) \in Range(op.packages)
        BY <2>4, CountedIs
      <4>2. Package(d) \in KeptPackages
        BY <2>4, CountedIs DEF Kept, Building, TypeOK, OpInv
      <4> QED
        BY <4>1, <4>2 DEF Building
    <3> QED
      BY <3>1 DEF CountedInv, HeldApart
  <2> QED
    BY <2>1, <2>2, <2>3, <2>4
<1> QED
  BY <1>1, <1>2 DEF CountedIsActive, Active

(* Every package the kubelet counts on has an instance of its own, in which   *)
(* its image is active, for any number of failures and any age of the         *)
(* server's list: an instance is created only where there is none, and the    *)
(* clean-up of CreatePod and DeletePod removes what is theirs alone.          *)
THEOREM CountedActive == Spec => []CountedIsActive
  BY InvHolds, CountedFollows, PTL

-----------------------------------------------------------------------------
(* What each step leaves behind. *)

(* A step leaves nothing behind, or it is a failure that leaves one instance. *)
Accounts == \/ UNCHANGED faults /\ Strays' \subseteq Strays
            \/ Fault /\ \E x : Strays' \subseteq Strays \cup {x}

LEMMA StrayCount == ASSUME TypeOK, StrayInv, Accounts PROVE StrayInv'
<1>1. IsFiniteSet(Strays) /\ Cardinality(Strays) \in Nat
  <2>1. IsFiniteSet(Strays)
    BY IdsAre, FS_Subset DEF TypeOK, Strays
  <2> QED
    BY <2>1, FS_CardinalityType
<1>2. CASE UNCHANGED faults /\ Strays' \subseteq Strays
  <2>1. Cardinality(Strays') <= Cardinality(Strays) /\ Cardinality(Strays') \in Nat
    BY <1>1, <1>2, FS_Subset, FS_CardinalityType
  <2> QED
    BY <1>1, <1>2, <2>1 DEF StrayInv, TypeOK
<1>3. ASSUME Fault, NEW x, Strays' \subseteq Strays \cup {x} PROVE StrayInv'
  <2>1. /\ IsFiniteSet(Strays \cup {x})
        /\ Cardinality(Strays \cup {x}) <= Cardinality(Strays) + 1
        /\ Cardinality(Strays \cup {x}) \in Nat
    <3>1. IsFiniteSet(Strays \cup {x})
      BY <1>1, FS_AddElement
    <3>2. Cardinality(Strays \cup {x}) = Cardinality(Strays) \/ Cardinality(Strays \cup {x}) = Cardinality(Strays) + 1
      BY <1>1, FS_AddElement
    <3> QED
      BY <1>1, <3>1, <3>2
  <2>2. Cardinality(Strays') <= Cardinality(Strays \cup {x}) /\ Cardinality(Strays') \in Nat
    BY <1>3, <2>1, FS_Subset, FS_CardinalityType
  <2>3. faults' = faults + 1 /\ faults \in Nat
    BY <1>3, FaultCounts DEF TypeOK
  <2> DEFINE m == Cardinality(Strays')
             n == Cardinality(Strays)
  <2>4. m \in Nat /\ n \in Nat /\ n <= faults /\ m <= n + 1
    BY <1>1, <2>1, <2>2 DEF StrayInv
  <2> HIDE DEF m, n
  <2>5. m <= faults + 1
    BY <2>3, <2>4
  <2> QED
    BY <2>3, <2>5 DEF m, StrayInv
<1> QED
  BY <1>2, <1>3 DEF Accounts

(* As long as the handler goes on, with the packages that it had, and the pods *)
(* are the same, what is known is known, but for the instance it worked on.    *)
LEMMA GoesKnown ==
    ASSUME op # None, NEW step, NEW image, NEW id, NEW packages,
           Goes(step, image, id, packages), UNCHANGED pods
    PROVE  /\ Known' = {o.id : o \in KeptPackages} \cup {o.id : o \in Range(packages)}
                       \cup (IF step \in Making THEN {id} ELSE {})
           /\ Known = {o.id : o \in KeptPackages} \cup {o.id : o \in Range(op.packages)}
                       \cup (IF op.step \in Making THEN {op.id} ELSE {})
<1>1. Kept' = Kept
  BY DEF Kept, Goes
<1>2. KeptPackages' = KeptPackages
  BY <1>1 DEF KeptPackages
<1> QED
  BY <1>2 DEF Known, Goes

LEMMA RequestAccounts ==
    ASSUME TypeOK, CountedInv, CreateInstance \/ Write \/ Install \/ Activate
    PROVE  Accounts
<1>1. /\ op # None /\ op.step \in Deploying /\ UNCHANGED <<pods, lost>> /\ Touches
      /\ Fails \/ Proceeds \/ Activates
  BY RequestIs
<1>2. /\ DOMAIN device' \subseteq DOMAIN device \cup {op.id}
      /\ op.step # "create" => DOMAIN device' = DOMAIN device
  BY <1>1, TouchesOne
<1>3. op.id \in Ids /\ op.id # 0
  BY <1>1, IdsAre DEF TypeOK, OpInv
<1>4. CASE Fails
  <2> DEFINE step == IF op.step = "create" THEN "remove" ELSE "cleanup"
  <2>1. Goes(step, op.image, op.id, op.packages)
    BY <1>1, <1>3, <1>4, FailedGoes DEF Fails
  <2>2. Known \subseteq Known'
    BY <1>1, <2>1, GoesKnown DEF Making, Deploying
  <2>3. CASE Fault
    BY <1>1, <1>2, <2>2, <2>3 DEF Accounts, Strays
  <2>4. CASE UNCHANGED <<device, faults>>
    BY <1>1, <2>2, <2>4 DEF Accounts, Strays
  <2> QED
    BY <1>4, <2>3, <2>4 DEF Fails
<1>5. CASE Proceeds
  <2>1. PICK step \in {"read", "install", "activate"} : Goto(step)
    BY <1>5 DEF Proceeds
  <2>2. Goes(step, op.image, op.id, op.packages)
    BY <1>1, <2>1, GotoGoes DEF Steps
  <2>3. Known \cup {op.id} \subseteq Known'
    BY <1>1, <2>2, GoesKnown DEF Making
  <2> QED
    BY <1>1, <1>2, <1>5, <2>3 DEF Accounts, Strays, Proceeds
<1>6. CASE Activates
  <2> DEFINE package == [id |-> op.id, image |-> op.image]
  <2>1. Goes("container", op.image, op.id, Append(op.packages, package))
    BY <1>1, <1>6, ActivatesInv
  <2>2. Range(op.packages) \cup {package} \subseteq Range(Append(op.packages, package))
    <3>1. op.packages \in Seq(Packages) /\ package \in Packages
      BY <1>1, <1>3 DEF TypeOK, OpInv, Handlers, Packages
    <3>2. /\ Len(Append(op.packages, package)) = Len(op.packages) + 1
          /\ \A i \in 1..Len(op.packages) : Append(op.packages, package)[i] = op.packages[i]
          /\ Append(op.packages, package)[Len(op.packages) + 1] = package
          /\ Append(op.packages, package) \in Seq(Packages)
      BY <3>1, AppendProperties
    <3>3. /\ Len(op.packages) \in Nat /\ DOMAIN op.packages = 1..Len(op.packages)
          /\ DOMAIN Append(op.packages, package) = 1..(Len(op.packages) + 1)
      BY <3>1, <3>2, LenProperties
    <3> DEFINE all == Append(op.packages, package)
    <3>4. package \in Range(all)
      <4>1. Len(op.packages) + 1 \in DOMAIN all /\ all[Len(op.packages) + 1] = package
        BY <3>2, <3>3
      <4> HIDE DEF all, package
      <4> QED
        BY <4>1 DEF Range
    <3>5. Range(op.packages) \subseteq Range(all)
      <4>1. \A i \in DOMAIN op.packages : i \in DOMAIN all /\ all[i] = op.packages[i]
        BY <3>2, <3>3
      <4> HIDE DEF all
      <4> QED
        BY <4>1 DEF Range
    <3> QED
      BY <3>4, <3>5
  <2>3. package.id = op.id
    OBVIOUS
  <2> HIDE DEF package
  <2>4. Known \cup {op.id} \subseteq Known'
    BY <1>1, <2>1, <2>2, <2>3, GoesKnown
  <2> QED
    BY <1>1, <1>2, <1>6, <2>4 DEF Accounts, Strays, Activates
<1> QED
  BY <1>1, <1>4, <1>5, <1>6

LEMMA QuietAccounts ==
    ASSUME TypeOK, CountedInv,
           \/ Resolve \/ Copy \/ GetInstances \/ ReadFile
           \/ Advances
    PROVE  Accounts
<1>1. /\ op # None /\ UNCHANGED <<pods, device, lost>> /\ (Fault \/ UNCHANGED faults)
      /\ op.step \in Making => op'.step \in Making /\ op'.id = op.id
      /\ \E step \in Steps : \E image, id : Goes(step, image, id, op.packages)
  BY QuietInv
<1>2. PICK step \in Steps : \E image, id : Goes(step, image, id, op.packages)
  BY <1>1
<1>3. PICK image, id : Goes(step, image, id, op.packages)
  BY <1>2
<1>4. op.step \in Making => step \in Making /\ id = op.id
  BY <1>1, <1>3 DEF Goes
<1>5. Known \subseteq Known'
  BY <1>1, <1>3, <1>4, GoesKnown
<1> QED
  BY <1>1, <1>5 DEF Accounts, Strays

LEMMA RemovalAccounts ==
    ASSUME TypeOK, CountedInv, CleanUp \/ RemoveNext
    PROVE  Accounts
<1>1. ASSUME NEW id, RemovePackage(id), Known \subseteq Known' \cup {id} PROVE Accounts
  <2>1. /\ DOMAIN device' \subseteq DOMAIN device /\ UNCHANGED lost
        /\ (UNCHANGED faults /\ id \notin DOMAIN device') \/ Fault
    BY <1>1, RemovesOne
  <2> QED
    BY <1>1, <2>1 DEF Accounts, Strays
<1>2. CASE CleanUp
  <2>1. /\ op # None /\ Goes("remove", op.image, op.id, op.packages) /\ RemovePackage(op.id)
    BY <1>2, CleanUpInv
  <2>2. UNCHANGED pods
    BY <2>1 DEF RemovePackage
  <2>3. Known \subseteq Known' \cup {op.id}
    BY <2>1, <2>2, GoesKnown
  <2> QED
    BY <1>1, <2>1, <2>3
<1>3. CASE RemoveNext
  <2> DEFINE id == Head(op.packages).id
  <2>1. /\ op # None /\ op.step = "remove" /\ RemovePackage(id)
        /\ \E packages : Goes("remove", op.image, op.id, packages)
        /\ \A o \in Range(op.packages) : o.id # id => o \in Range(op'.packages)
    BY <1>3, RemoveNextInv
  <2> HIDE DEF id
  <2>2. UNCHANGED pods
    BY <2>1 DEF RemovePackage
  <2>3. PICK packages : Goes("remove", op.image, op.id, packages)
    BY <2>1
  <2>4. \A o \in Range(op.packages) : o.id # id => o \in Range(packages)
    BY <2>1, <2>3 DEF Goes
  <2>5. Known \subseteq Known' \cup {id}
    BY <2>1, <2>2, <2>3, <2>4, GoesKnown DEF Making
  <2> QED
    BY <1>1, <2>1, <2>5
<1> QED
  BY <1>2, <1>3

(* A handler that begins or ends forgets nothing. *)
LEMMA EndsAccounts ==
    ASSUME TypeOK, CountedInv,
           \/ \E p \in Pods : CreatePod(p) \/ DeletePod(p)
           \/ Return
           \/ Between /\ Created
    PROVE  Accounts
<1>1. CASE \E p \in Pods : CreatePod(p)
  <2>1. PICK p \in Pods : CreatePod(p)
    BY <1>1
  <2>2. op = None /\ KeptPackages' = KeptPackages /\ UNCHANGED <<device, lost, faults>>
    BY <2>1, CreateInv DEF CreatePod
  <2>3. Known \subseteq Known'
    BY <2>2 DEF Known
  <2> QED
    BY <2>2, <2>3 DEF Accounts, Strays
<1>2. CASE \E p \in Pods : DeletePod(p)
  <2>1. PICK p \in Pods : DeletePod(p)
    BY <1>2
  <2>2. /\ op = None /\ p \in DOMAIN pods /\ op' # None /\ op'.packages = pods[p]
        /\ Kept' = Kept \ {p} /\ UNCHANGED <<pods, device, lost, faults>>
    BY <2>1, DeleteInv DEF DeletePod
  <2>3. KeptPackages \subseteq KeptPackages' \cup Range(op'.packages)
    BY <2>2 DEF KeptPackages
  <2>4. Known \subseteq Known'
    BY <2>2, <2>3 DEF Known
  <2> QED
    BY <2>2, <2>4 DEF Accounts, Strays
<1>3. CASE Return
  <2>1. /\ op # None /\ op' = None /\ UNCHANGED <<device, faults, lost>>
        /\ op.step = "remove" /\ op.packages = <<>> /\ KeptPackages' = KeptPackages
    BY <1>3, ReturnInv
  <2>2. Known \subseteq Known'
    BY <2>1, RangeEmpty DEF Known, Making
  <2> QED
    BY <2>1, <2>2 DEF Accounts, Strays
<1>4. CASE Between /\ Created
  <2>1. /\ op # None /\ op' = None /\ UNCHANGED <<device, faults, lost>>
        /\ op.step \notin Making /\ KeptPackages' = KeptPackages \cup Range(op.packages)
    BY <1>4, EntersInv
  <2>2. Known \subseteq Known'
    BY <2>1 DEF Known
  <2> QED
    BY <2>1, <2>2 DEF Accounts, Strays
<1> QED
  BY <1>1, <1>2, <1>3, <1>4

LEMMA StrayStep == ASSUME TypeOK, CountedInv, StrayInv, [Next]_vars PROVE StrayInv'
<1>1. CASE Resolve \/ Copy \/ GetInstances \/ ReadFile
  BY <1>1, QuietAccounts, StrayCount
<1>2. CASE NextContainer \/ Adapter
  BY <1>2, ContainerIs, QuietAccounts, EndsAccounts, StrayCount
<1>3. CASE CreateInstance \/ Write \/ Install \/ Activate
  BY <1>3, RequestAccounts, StrayCount
<1>4. CASE CleanUp \/ RemoveNext
  BY <1>4, RemovalAccounts, StrayCount
<1>5. CASE Return \/ \E p \in Pods : CreatePod(p) \/ DeletePod(p)
  BY <1>5, EndsAccounts, StrayCount
<1>6. CASE Crash
  <2>1. Strays' = {} /\ faults' \in Nat
    BY <1>6, CrashInv, FaultCounts DEF Crash
  <2>2. Cardinality(Strays') = 0
    BY <2>1, FS_EmptySet
  <2> QED
    BY <2>1, <2>2 DEF StrayInv
<1>7. CASE Wish \/ Refresh \/ UNCHANGED vars
  <2>1. UNCHANGED <<pods, op, device, lost, faults>>
    BY <1>7 DEF Wish, Refresh, vars
  <2>2. Known' = Known
    BY <2>1, OutsideInv
  <2> QED
    BY <2>1, <2>2, StrayCount DEF Accounts, Strays
<1> QED
  BY <1>1, <1>2, <1>3, <1>4, <1>5, <1>6, <1>7 DEF Next, Step

LEMMA StrayFollows == TypeOK /\ StrayInv => OneStrayPerFault
<1> SUFFICES ASSUME TypeOK, StrayInv, op = None PROVE OneStrayPerFault
  BY DEF OneStrayPerFault
<1>1. Known \subseteq {Package(c).id : c \in Counted}
  <2>1. ASSUME NEW o \in KeptPackages PROVE \E c \in Counted : Package(c) = o
    <3>1. PICK p \in Kept : o \in Range(pods[p])
      BY DEF KeptPackages
    <3>2. PICK i \in DOMAIN pods[p] : o = pods[p][i]
      BY <3>1 DEF Range
    <3>3. <<p, i>> \in Counted
      BY DEF Counted, Kept
    <3>4. Package(<<p, i>>) = o
      BY <3>2 DEF Package, Kept
    <3> QED
      BY <3>3, <3>4
  <2> QED
    BY <2>1 DEF Known
<1>2. DOMAIN device \ (lost \cup {Package(c).id : c \in Counted}) \subseteq Strays
  BY <1>1 DEF Strays
<1>3. IsFiniteSet(Strays)
  BY IdsAre, FS_Subset DEF TypeOK, Strays
<1> DEFINE behind == DOMAIN device \ (lost \cup {Package(c).id : c \in Counted})
<1>4. /\ Cardinality(behind) <= Cardinality(Strays)
      /\ Cardinality(behind) \in Nat /\ Cardinality(Strays) \in Nat
  BY <1>2, <1>3, FS_Subset, FS_CardinalityType
<1>5. Cardinality(behind) <= faults
  BY <1>4 DEF StrayInv, TypeOK
<1> QED
  BY <1>5 DEF OneStrayPerFault

(* When no handler runs, at most one instance is left behind for each lost    *)
(* answer or failed download, apart from those of a process that crashed: in  *)
(* every state what is on the device is a pod's, or in the hands of the       *)
(* handler that runs, or one failure accounts for it.                         *)
THEOREM LeftBehind == Spec => []OneStrayPerFault
<1>1. Init => StrayInv
  BY InitInv
<1>2. TypeOK /\ CountedInv /\ StrayInv /\ [Next]_vars => StrayInv'
  BY StrayStep
<1>3. TypeOK /\ StrayInv => OneStrayPerFault
  BY StrayFollows
<1> QED
  BY <1>1, <1>2, <1>3, InvHolds, PTL DEF Spec
=============================================================================
