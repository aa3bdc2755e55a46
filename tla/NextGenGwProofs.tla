--------------------------- MODULE NextGenGwProofs --------------------------
(***************************************************************************)
(* Proofs about NextGenGw, for every set of images and all bounds: the     *)
(* inductive invariant, InstanceInUse in ascending order, what a           *)
(* successful DeployPackage guarantees, and the refinement of              *)
(* PackageService.                                                         *)
(***************************************************************************)
EXTENDS NextGenGw, SequenceTheorems, TLAPS

-----------------------------------------------------------------------------
(* Sequences of ids. *)

(* What is in a sequence after Append and Tail. *)
LEMMA RangeAppend ==
    ASSUME NEW S, NEW s \in Seq(S), NEW x
    PROVE  Range(Append(s, x)) = Range(s) \cup {x}
<1> DEFINE t == Append(s, x)
<1>1. Len(s) \in Nat /\ DOMAIN s = 1..Len(s)
  BY LenProperties
<1>2. s \in Seq(S \cup {x})
  BY ElementOfSeq, LenProperties, SeqDef
<1>3. /\ DOMAIN t = 1..(Len(s) + 1)
      /\ \A k \in 1..Len(s) : t[k] = s[k]
      /\ t[Len(s) + 1] = x
  BY <1>2, AppendProperties, LenProperties
<1> HIDE DEF t
<1>4. \A k \in 1..(Len(s) + 1) : k \in 1..Len(s) \/ k = Len(s) + 1
  BY <1>1
<1>5. 1..Len(s) \subseteq 1..(Len(s) + 1) /\ Len(s) + 1 \in 1..(Len(s) + 1)
  BY <1>1
<1>6. Range(t) = Range(s) \cup {x}
  BY <1>1, <1>3, <1>4, <1>5, Zenon DEF Range
<1> QED
  BY <1>6 DEF t

LEMMA RangeTail ==
    ASSUME NEW S, NEW s \in Seq(S), s # <<>>
    PROVE  /\ Range(Tail(s)) \subseteq Range(s)
           /\ Head(s) \in Range(s)
<1> DEFINE t == Tail(s)
<1>1. /\ Len(s) \in Nat /\ Len(s) # 0 /\ DOMAIN s = 1..Len(s)
      /\ Len(t) = Len(s) - 1 /\ DOMAIN t = 1..Len(t)
      /\ \A k \in 1..Len(t) : t[k] = s[k + 1]
      /\ Head(s) = s[1]
  BY HeadTailProperties, LenProperties, EmptySeq
<1> HIDE DEF t
<1>2. \A k \in 1..Len(t) : k + 1 \in 1..Len(s)
  BY <1>1
<1>3. Range(t) \subseteq Range(s)
  BY <1>1, <1>2 DEF Range
<1>4. Head(s) \in Range(s)
  BY <1>1 DEF Range
<1> QED
  BY <1>3, <1>4 DEF t

(* The last id in ascending order is the greatest. *)
LEMMA LastIsGreatest ==
    ASSUME NEW s \in Seq(Ids), s # <<>>, IsAscending(s)
    PROVE  /\ Last(s) \in Range(s)
           /\ Last(s) \in Ids
           /\ \A i \in Range(s) : i <= Last(s)
<1>1. Len(s) \in 1..Len(s) /\ DOMAIN s = 1..Len(s)
  BY EmptySeq, LenProperties
<1>2. \A k \in 1..Len(s) : s[k] \in Ids
  BY ElementOfSeq
<1> QED
  BY <1>1, <1>2 DEF Last, Range, IsAscending, Ids

(* An id above all ids goes to the end. *)
LEMMA AppendAscending ==
    ASSUME NEW s \in Seq(Ids), IsAscending(s), NEW x \in Ids, \A i \in Range(s) : i < x
    PROVE  /\ Append(s, x) \in Seq(Ids)
           /\ Append(s, x) # <<>>
           /\ IsAscending(Append(s, x))
           /\ Last(Append(s, x)) = x
           /\ Range(Append(s, x)) = Range(s) \cup {x}
<1> DEFINE t == Append(s, x)
<1>1. /\ t \in Seq(Ids)
      /\ Len(t) = Len(s) + 1
      /\ DOMAIN t = 1..(Len(s) + 1)
      /\ \A k \in 1..Len(s) : t[k] = s[k]
      /\ t[Len(s) + 1] = x
  BY AppendProperties, LenProperties
<1>2. Len(s) \in Nat /\ DOMAIN s = 1..Len(s)
  BY LenProperties
<1>3. IsAscending(t)
  <2> SUFFICES ASSUME NEW j \in 1..(Len(s) + 1), NEW k \in 1..(Len(s) + 1), j < k
               PROVE  t[j] < t[k]
    BY <1>1 DEF IsAscending
  <2>1. j \in 1..Len(s) /\ t[j] = s[j]
    BY <1>1, <1>2
  <2>2. CASE k \in 1..Len(s)
    BY <2>1, <2>2, <1>1, <1>2 DEF IsAscending
  <2>3. CASE k = Len(s) + 1
    BY <2>1, <2>3, <1>1, <1>2 DEF Range
  <2> QED
    BY <2>2, <2>3, <1>2
<1>4. Range(t) = Range(s) \cup {x}
  BY RangeAppend
<1>5. Last(t) = x /\ t # <<>>
  BY <1>1, AppendProperties DEF Last
<1> QED
  BY <1>1, <1>3, <1>4, <1>5

(* RemovePackage takes its id, and nothing else, out of InstanceInUse.  With *)
(* the ids in order the binary search finds the id wherever it is.           *)
LEMMA ForgetProperties ==
    ASSUME NEW s \in Seq(Ids), IsAscending(s), NEW x \in Ids
    PROVE  /\ Forget(s, x) \in Seq(Ids)
           /\ IsAscending(Forget(s, x))
           /\ Range(Forget(s, x)) = Range(s) \ {x}
<1> DEFINE n == Len(s)
           F(k) == /\ k = 1 \/ s[k-1] < x
                   /\ k = n + 1 \/ s[k] >= x
           c == CHOOSE k \in 1..(n + 1) : F(k)
<1>1. n \in Nat /\ DOMAIN s = 1..n /\ \A k \in 1..n : s[k] \in Int
  <2>1. n \in Nat /\ DOMAIN s = 1..n
    BY LenProperties
  <2>2. \A k \in 1..n : s[k] \in Ids
    BY ElementOfSeq
  <2> QED
    BY <2>1, <2>2, NextGenGwAssumption DEF Ids
<1>0. x \in Int
  BY NextGenGwAssumption DEF Ids
<1>2. \A j, k \in 1..n : j < k => s[j] < s[k]
  BY <1>1 DEF IsAscending
<1>3. Search(s, x) = c
  BY DEF Search
<1>4. CASE x \notin Range(s)
  <2>1. ~(c \in 1..n /\ s[c] = x)
    BY <1>1, <1>4 DEF Range
  <2> QED
    BY <2>1, <1>3, <1>4 DEF Forget
<1>5. CASE x \in Range(s)
  <2>1. PICK p \in 1..n : s[p] = x
    BY <1>1, <1>5 DEF Range
  <2>2. F(p) /\ p \in 1..(n + 1)
    BY <1>0, <1>1, <1>2, <2>1
  <2>3. c \in 1..(n + 1) /\ F(c)
    BY <2>2
  <2> HIDE DEF c
  <2>4. c = p
    <3>1. ~(c < p)
      BY <1>0, <1>1, <1>2, <2>1, <2>3
    <3>2. ~(c > p)
      <4> SUFFICES ASSUME c > p PROVE FALSE
        OBVIOUS
      <4>1. c - 1 \in 1..n /\ p <= c - 1 /\ c # 1
        BY <1>1, <2>1, <2>3
      <4>3. s[c-1] < x
        BY <4>1, <2>3
      <4>2. p = c - 1 \/ s[p] < s[c-1]
        BY <4>1, <1>2, <2>1, <1>1
      <4> QED
        BY <4>1, <4>2, <4>3, <1>0, <1>1, <2>1
    <3> QED
      BY <3>1, <3>2, <2>1, <2>3, <1>1
  <2> DEFINE t == RemoveAt(s, p)
  <2>5. Forget(s, x) = t
    BY <1>3, <2>1, <2>4 DEF Forget
  <2>6. /\ t \in Seq(Ids)
        /\ DOMAIN t = 1..(n - 1)
        /\ \A j \in 1..(n - 1) : t[j] = IF j < p THEN s[j] ELSE s[j+1]
    <3> DEFINE u == SubSeq(s, 1, p - 1)
               v == SubSeq(s, p + 1, n)
    <3>1. /\ u \in Seq(Ids) /\ Len(u) = p - 1
          /\ \A j \in 1..(p - 1) : u[j] = s[j]
      BY SubSeqProperties, <1>1, <2>1
    <3>2. /\ v \in Seq(Ids) /\ Len(v) = n - p
          /\ \A j \in 1..(n - p) : v[j] = s[p + j]
      <4>1. \A i \in (p + 1)..n : s[i] \in Ids
        BY ElementOfSeq, <1>1, <2>1
      <4>2. /\ v \in Seq(Ids)
            /\ Len(v) = IF p + 1 <= n THEN n - (p + 1) + 1 ELSE 0
            /\ \A j \in 1..(n - (p + 1) + 1) : v[j] = s[(p + 1) + j - 1]
        BY <4>1, SubSeqProperties, <1>1, <2>1
      <4>3. n \in Nat /\ p \in Nat /\ p <= n
        BY <1>1, <2>1
      <4> HIDE DEF v, n
      <4>4. n - (p + 1) + 1 = n - p /\ (p + 1 > n => n - p = 0)
        BY <4>3
      <4>5. \A j \in 1..(n - p) : (p + 1) + j - 1 = p + j
        BY <4>3
      <4>6. Len(v) = n - p
        BY <4>2, <4>3, <4>4
      <4> QED
        BY <4>2, <4>4, <4>5, <4>6
    <3>3. t = u \o v
      BY DEF RemoveAt
    <3>4. /\ t \in Seq(Ids) /\ Len(t) = n - 1
          /\ \A j \in 1..(n - 1) : t[j] = IF j < p THEN u[j] ELSE v[j - p + 1]
      <4> HIDE DEF u, v, t
      <4>1. /\ t \in Seq(Ids)
            /\ Len(t) = Len(u) + Len(v)
            /\ \A j \in 1..(Len(u) + Len(v)) :
                  t[j] = IF j <= Len(u) THEN u[j] ELSE v[j - Len(u)]
        BY <3>1, <3>2, <3>3, ConcatProperties
      <4>2. Len(u) + Len(v) = n - 1
        BY <3>1, <3>2, <1>1, <2>1
      <4>3. \A j \in 1..(n - 1) : (j <= p - 1 <=> j < p) /\ j - (p - 1) = j - p + 1
        BY <1>1, <2>1
      <4> QED
        BY <4>1, <4>2, <4>3, <3>1
    <3> HIDE DEF u, v, t
    <3> QED
      BY <3>1, <3>2, <3>4, LenProperties, <1>1, <2>1
  <2> HIDE DEF t, c, F
  <2>7. IsAscending(t)
    BY <2>6, <1>1, <1>2, <2>1 DEF IsAscending
  <2>8. Range(t) = Range(s) \ {x}
    <3>1. ASSUME NEW j \in 1..(n - 1) PROVE t[j] \in Range(s) \ {x}
      <4>1. PICK k \in 1..n : t[j] = s[k] /\ k # p
        <5>1. CASE j < p
          BY <5>1, <2>6, <1>1, <2>1
        <5>2. CASE ~(j < p)
          <6>1. j + 1 \in 1..n /\ j + 1 # p
            BY <5>2, <1>1, <2>1
          <6> QED
            BY <6>1, <5>2, <2>6
        <5> QED
          BY <5>1, <5>2
      <4>2. s[k] # x
        BY <4>1, <1>0, <1>1, <1>2, <2>1
      <4> QED
        BY <4>1, <4>2, <1>1 DEF Range
    <3>2. ASSUME NEW k \in 1..n, s[k] # x PROVE s[k] \in Range(t)
      <4>1. CASE k < p
        <5>1. k \in 1..(n - 1) /\ t[k] = s[k]
          BY <4>1, <2>6, <1>1, <2>1
        <5> QED
          BY <5>1, <2>6 DEF Range
      <4>2. CASE k > p
        <5>1. k - 1 \in 1..(n - 1) /\ t[k-1] = s[k]
          BY <4>2, <2>6, <1>1, <2>1
        <5> QED
          BY <5>1, <2>6 DEF Range
      <4> QED
        BY <3>2, <4>1, <4>2, <2>1, <1>1
    <3> QED
      BY <3>1, <3>2, <2>6, <1>1 DEF Range
  <2> QED
    BY <2>5, <2>6, <2>7, <2>8
<1> QED
  BY <1>4, <1>5

-----------------------------------------------------------------------------
(* The inductive invariant. *)

Inv == TypeOK /\ Ascending /\ CallInv

LEMMA InitInv == Init => Inv
BY NextGenGwAssumption, EmptySeq
   DEF Init, Inv, TypeOK, Ascending, IsAscending, CallInv, Ids, Absent, Stages

(* The device leaves every instance of the right type. *)
LEMMA ExecutesType ==
    ASSUME TypeOK, NEW r \in Requests, Executes(r)
    PROVE  instance' \in [Ids -> [stage : Stages, image : Images \cup {None}]]
<1>1. After(r, instance[r.id]) \in [stage : Stages, image : Images \cup {None}]
  BY DEF TypeOK, After, Requests, Stages, Absent
<1> QED
  BY <1>1 DEF TypeOK, Executes, Requests

(* An unanswered request leaves the pipe of the right type. *)
LEMMA FailedType ==
    ASSUME TypeOK, NEW r \in Requests, Failed(r)
    PROVE  /\ instance' = instance
           /\ pipe' \in Seq(Requests) /\ Len(pipe') <= MaxPipe
           /\ \/ pipe' = pipe
              \/ Range(pipe') = Range(pipe) \cup {r}
<1>1. CASE pipe' = pipe
  BY <1>1 DEF TypeOK, Failed
<1>2. CASE Len(pipe) < MaxPipe /\ pipe' = Append(pipe, r)
  <2>1. pipe' \in Seq(Requests) /\ Len(pipe') = Len(pipe) + 1 /\ Len(pipe) \in Nat
    BY <1>2, AppendProperties, LenProperties DEF TypeOK
  <2>2. Len(pipe') <= MaxPipe
    BY <1>2, <2>1, NextGenGwAssumption
  <2>3. Range(pipe') = Range(pipe) \cup {r}
    BY <1>2, RangeAppend DEF TypeOK
  <2> QED
    BY <2>1, <2>2, <2>3 DEF Failed
<1> QED
  BY <1>1, <1>2 DEF Failed

(* The request of a call is a request, and what its id is. *)
LEMMA RequestType ==
    ASSUME TypeOK, call # None, NEW op \in {"create", "add", "install", "activate", "delete"}
    PROVE  /\ Request(op) \in Requests
           /\ Request(op).op = op /\ Request(op).id = call.id
           /\ Request(op).image = call.image
           /\ call \in Calls
BY DEF TypeOK, Calls, Requests, Request

LEMMA StageInv ==
    ASSUME Inv, NEW pc, NEW next,
           <<pc, next>> \in {<<"add", "install">>, <<"install", "activate">>, <<"activate", "ok">>},
           Stage(pc, next)
    PROVE  Inv'
<1>1. /\ call # None /\ call.pc = pc /\ InstanceInUse' = InstanceInUse
      /\ TypeOK /\ Ascending /\ CallInv
  BY DEF Stage, At, Inv
<1>2. /\ Request(pc) \in Requests
      /\ Request(pc).op = pc /\ Request(pc).id = call.id
      /\ Request(pc).image = call.image
      /\ call \in Calls
  BY <1>1, RequestType
<1>3. call.op = "DeployPackage" /\ call.image \in Images
  BY <1>1 DEF CallInv, Deploying
<1>4. InstanceInUse # <<>> /\ Last(InstanceInUse) = call.id /\ call.id \in Range(InstanceInUse)
  BY <1>1, <1>3 DEF CallInv, Deploying, Reached
<1>5. CASE Answered(Request(pc)) /\ Goto(next)
  <2>1. pipe = <<>> /\ pipe' = pipe /\ call' = [call EXCEPT !.pc = next]
    BY <1>5 DEF Answered, Goto
  <2>2. /\ instance' \in [Ids -> [stage : Stages, image : Images \cup {None}]]
        /\ instance' = [instance EXCEPT ![call.id] = After(Request(pc), @)]
    BY <1>1, <1>2, <1>5, ExecutesType DEF Answered, Executes
  <2>3. TypeOK'
    BY <1>1, <1>2, <2>1, <2>2 DEF TypeOK, Calls, Pcs
  <2>4. Ascending'
    BY <1>1 DEF Ascending
  <2>5. instance'[call.id] = After(Request(pc), instance[call.id])
    BY <1>1, <1>2, <2>2 DEF TypeOK, Calls
  <2>6. pc # "add" => instance[call.id] = Reached[pc]
    BY <1>1, <1>3 DEF CallInv, Reached
  <2>7. call'.pc = next /\ call'.op = call.op /\ call'.id = call.id /\ call'.image = call.image
    BY <1>2, <2>1 DEF Calls
  <2>8. instance'[call.id] =
            CASE pc = "add"      -> [stage |-> "added", image |-> call.image]
              [] pc = "install"  -> [stage |-> "installed", image |-> call.image]
              [] pc = "activate" -> [stage |-> "active", image |-> call.image]
    BY <1>2, <2>5, <2>6 DEF After, Reached
  <2>9. CallInv'
    BY <1>1, <1>3, <1>4, <2>1, <2>7, <2>8 DEF CallInv, Deploying, Reached
  <2> QED
    BY <2>3, <2>4, <2>9 DEF Inv
<1>6. CASE Failed(Request(pc)) /\ Goto("cleanup")
  <2>1. TypeOK'
    BY <1>1, <1>2, <1>6, FailedType DEF TypeOK, Goto, Calls, Pcs
  <2>2. Ascending'
    BY <1>1 DEF Ascending
  <2>3. /\ call'.pc = "cleanup" /\ call'.op = call.op /\ call'.id = call.id
        /\ call'.image = call.image
    BY <1>2, <1>6 DEF Goto, Calls
  <2>4. CallInv'
    BY <1>1, <1>3, <1>4, <2>3 DEF CallInv, Deploying, Reached
  <2> QED
    BY <2>1, <2>2, <2>4 DEF Inv
<1> QED
  BY <1>5, <1>6 DEF Stage

(* The last id in use is in use and above the others, so the next is above all. *)
LEMMA NextIdIsNew ==
    ASSUME InstanceInUse \in Seq(Ids), Ascending
    PROVE  /\ NextInstanceId \in Int /\ NextInstanceId >= 0
           /\ \A i \in Range(InstanceInUse) : i < NextInstanceId
           /\ NextInstanceId = 0 \/ NextInstanceId - 1 \in Range(InstanceInUse)
<1>1. CASE InstanceInUse = <<>>
  BY <1>1, EmptySeq DEF NextInstanceId, Range
<1>2. CASE InstanceInUse # <<>>
  <2>1. /\ Last(InstanceInUse) \in Range(InstanceInUse)
        /\ Last(InstanceInUse) \in Ids
        /\ \A i \in Range(InstanceInUse) : i <= Last(InstanceInUse)
    BY <1>2, LastIsGreatest DEF Ascending
  <2>2. Range(InstanceInUse) \subseteq Ids
    BY ElementOfSeq, LenProperties DEF Range
  <2>3. NextInstanceId = Last(InstanceInUse) + 1
    BY <1>2 DEF NextInstanceId
  <2> HIDE DEF NextInstanceId
  <2> QED
    BY <2>1, <2>2, <2>3, NextGenGwAssumption DEF Ids
<1> QED
  BY <1>1, <1>2

LEMMA StepInv == Inv /\ [Next]_vars => Inv'
<1> SUFFICES ASSUME Inv, [Next]_vars PROVE Inv'
  OBVIOUS
<1> USE DEF Inv
<1>1. ASSUME NEW image \in Images, DeployPackage(image) PROVE Inv'
  <2>1. /\ NextInstanceId \in Ids
        /\ \A i \in Range(InstanceInUse) : i < NextInstanceId
    BY <1>1, NextIdIsNew, NextGenGwAssumption DEF DeployPackage, TypeOK, Ids
  <2>2. TypeOK'
    BY <1>1, <2>1 DEF DeployPackage, TypeOK, Calls, Pcs
  <2>3. Ascending'
    BY <1>1 DEF DeployPackage, Ascending
  <2>4. CallInv'
    BY <1>1, <2>1 DEF DeployPackage, CallInv, Deploying, Reached
  <2> QED
    BY <2>2, <2>3, <2>4
<1>2. ASSUME NEW id \in Ids, RemovePackage(id) PROVE Inv'
  BY <1>2 DEF RemovePackage, TypeOK, Calls, Pcs, Ascending, CallInv, Deploying, Reached
<1>3. CASE CreateSwMngtInstance
  <2>1. /\ call # None /\ call.pc = "create"
        /\ Request("create") \in Requests
        /\ Request("create").op = "create" /\ Request("create").id = call.id
        /\ call \in Calls /\ call.id \in Ids
    BY <1>3, RequestType DEF CreateSwMngtInstance, At, Calls
  <2>2. /\ call.op = "DeployPackage" /\ call.image \in Images
        /\ \A i \in Range(InstanceInUse) : i < call.id
    BY <2>1 DEF CallInv, Deploying
  <2>3. CASE /\ Answered(Request("create"))
             /\ InstanceInUse' = Append(InstanceInUse, call.id)
             /\ Goto("add")
    <3>1. /\ InstanceInUse' \in Seq(Ids) /\ InstanceInUse' # <<>>
          /\ IsAscending(InstanceInUse') /\ Last(InstanceInUse') = call.id
          /\ Range(InstanceInUse') = Range(InstanceInUse) \cup {call.id}
      BY <2>1, <2>2, <2>3, AppendAscending DEF TypeOK, Ascending
    <3>2. pipe = <<>> /\ pipe' = pipe /\ call' = [call EXCEPT !.pc = "add"]
      BY <2>3 DEF Answered, Goto
    <3>3. /\ instance' \in [Ids -> [stage : Stages, image : Images \cup {None}]]
          /\ instance'[call.id] = After(Request("create"), instance[call.id])
      BY <2>1, <2>3, ExecutesType DEF Answered, Executes, TypeOK
    <3>4. instance'[call.id] = [stage |-> "created", image |-> None]
      BY <2>1, <3>3 DEF After
    <3>5. /\ call'.pc = "add" /\ call'.op = call.op /\ call'.id = call.id
          /\ call'.image = call.image /\ call' \in Calls
      BY <2>1, <3>2 DEF Calls, Pcs
    <3>6. TypeOK'
      BY <3>1, <3>2, <3>3, <3>5 DEF TypeOK
    <3>7. Ascending'
      BY <3>1 DEF Ascending
    <3>8. CallInv'
      BY <2>2, <3>1, <3>2, <3>4, <3>5 DEF CallInv, Deploying, Reached
    <3> QED
      BY <3>6, <3>7, <3>8
  <2>4. CASE Failed(Request("create")) /\ Goto("err") /\ UNCHANGED InstanceInUse
    <3>1. /\ call'.pc = "err" /\ call'.op = call.op /\ call'.image = call.image
          /\ call' \in Calls
      BY <2>1, <2>4 DEF Goto, Calls, Pcs
    <3>2. TypeOK'
      BY <2>1, <2>4, <3>1, FailedType DEF TypeOK
    <3>3. Ascending' /\ CallInv'
      BY <2>2, <2>4, <3>1 DEF Ascending, CallInv, Deploying, Reached
    <3> QED
      BY <3>2, <3>3
  <2> QED
    BY <1>3, <2>3, <2>4 DEF CreateSwMngtInstance
<1>4. CASE AddPackage
  BY <1>4, StageInv DEF AddPackage
<1>5. CASE InstallPackage
  BY <1>5, StageInv DEF InstallPackage
<1>6. CASE ActivatePackage
  BY <1>6, StageInv DEF ActivatePackage
<1>7. CASE Delete
  <2>1. PICK pc \in {"remove", "cleanup"} :
          /\ At(pc)
          /\ \/ /\ Answered(Request("delete"))
                /\ InstanceInUse' = Forget(InstanceInUse, call.id)
                /\ Goto(IF pc = "remove" THEN "ok" ELSE "err")
             \/ Failed(Request("delete")) /\ Goto("err") /\ UNCHANGED InstanceInUse
    BY <1>7 DEF Delete
  <2>2. /\ call # None /\ call.pc = pc
        /\ Request("delete") \in Requests
        /\ call \in Calls /\ call.id \in Ids
    BY <2>1, RequestType DEF At, Calls
  <2>3. /\ call.op = IF pc = "remove" THEN "RemovePackage" ELSE "DeployPackage"
        /\ call.op = "DeployPackage" => call.image \in Images
    BY <2>2 DEF CallInv, Deploying
  <2>4. /\ call' \in Calls /\ call'.op = call.op /\ call'.image = call.image
        /\ call'.pc \in {"ok", "err"}
        /\ call.op = "DeployPackage" => call'.pc = "err"
    BY <2>1, <2>2, <2>3 DEF Goto, Calls, Pcs
  <2>5. InstanceInUse' \in Seq(Ids) /\ IsAscending(InstanceInUse')
    BY <2>1, <2>2, ForgetProperties DEF TypeOK, Ascending
  <2>6. TypeOK'
    BY <2>1, <2>2, <2>4, <2>5, ExecutesType, FailedType DEF TypeOK, Answered
  <2>7. Ascending' /\ CallInv'
    BY <2>3, <2>4, <2>5 DEF Ascending, CallInv, Deploying, Reached
  <2> QED
    BY <2>6, <2>7
<1>8. CASE Collect
  BY <1>8 DEF Collect, TypeOK, Ascending, CallInv
<1>9. CASE DeviceStep
  <2>1. Head(pipe) \in Requests /\ pipe' \in Seq(Requests) /\ Len(pipe') <= MaxPipe
    BY <1>9, HeadTailProperties, LenProperties, NextGenGwAssumption DEF DeviceStep, TypeOK
  <2>2. instance' \in [Ids -> [stage : Stages, image : Images \cup {None}]]
    BY <1>9, <2>1, ExecutesType DEF DeviceStep, TypeOK
  <2>3. TypeOK' /\ Ascending'
    BY <1>9, <2>1, <2>2 DEF DeviceStep, TypeOK, Ascending
  <2>4. CallInv'
    BY <1>9 DEF DeviceStep, CallInv, Deploying, Reached
  <2> QED
    BY <2>3, <2>4
<1>10. CASE Crash
  BY <1>10, EmptySeq DEF Crash, TypeOK, Ascending, IsAscending, CallInv
<1>11. CASE UNCHANGED vars
  BY <1>11 DEF vars, TypeOK, Ascending, CallInv, Deploying, Reached
<1> QED
  BY <1>1, <1>2, <1>3, <1>4, <1>5, <1>6, <1>7, <1>8, <1>9, <1>10, <1>11 DEF Next

-----------------------------------------------------------------------------
(* The theorems. *)

LEMMA InvInductive == Spec => []Inv
BY InitInv, StepInv, PTL DEF Spec

(* The variables of NextGenGw keep their types; the pipe never exceeds its bound. *)
THEOREM TypeCorrect == Spec => []TypeOK
<1>1. Inv => TypeOK
  BY DEF Inv
<1> QED
  BY <1>1, InvInductive, PTL

(* InstanceInUse stays in strictly ascending order, whatever fails and whenever *)
(* the kubelet dies: so DeployPackage never hands out an id that is in use, and *)
(* the binary search of RemovePackage finds every id that is.                   *)
THEOREM AlwaysAscending == Spec => []Ascending
<1>1. Inv => Ascending
  BY DEF Inv
<1> QED
  BY <1>1, InvInductive, PTL

(* What the conjuncts of CallInv say of the call in progress is always so. *)
THEOREM CallsAdvance == Spec => []CallInv
<1>1. Inv => CallInv
  BY DEF Inv
<1> QED
  BY <1>1, InvInductive, PTL

(* A DeployPackage that returns no error has its package active in the device,  *)
(* its id in InstanceInUse, and no request left that could change the instance. *)
THEOREM DeploymentsAreActive == Spec => []DeployedIsActive
<1>1. Inv => DeployedIsActive
  <2> SUFFICES ASSUME Inv, call # None, call.op = "DeployPackage", call.pc = "ok"
               PROVE  /\ instance[call.id] = [stage |-> "active", image |-> call.image]
                      /\ call.id \in Range(InstanceInUse) \ Waiting
    BY DEF DeployedIsActive
  <2>1. /\ instance[call.id] = [stage |-> "active", image |-> call.image]
        /\ pipe = <<>>
        /\ call.id \in Range(InstanceInUse)
    BY DEF Inv, CallInv, Reached
  <2>2. Waiting = {}
    BY <2>1, EmptySeq DEF Waiting, Range
  <2> QED
    BY <2>1, <2>2
<1> QED
  BY <1>1, InvInductive, PTL

-----------------------------------------------------------------------------
(* The refinement. *)

(* A change of one instance of the device, seen by PackageService. *)
LEMMA DeviceChange ==
    ASSUME instance \in [Ids -> [stage : Stages, image : Images \cup {None}]],
           NEW i \in Ids, NEW x \in [stage : Stages, image : Images \cup {None}],
           instance' = [instance EXCEPT ![i] = x]
    PROVE  /\ deviceBar' = [deviceBar EXCEPT ![i] = IF x.stage = "active" THEN x.image ELSE None]
           /\ (IF x.stage = "active" THEN x.image ELSE None) \in Images \cup {None}
BY DEF deviceBar

(* The device carries out a request whose instance is in doubt. *)
LEMMA ExecutesDrifts ==
    ASSUME TypeOK, NEW r \in Requests, Executes(r) \/ UNCHANGED instance
    PROVE  \E image \in Images \cup {None} : deviceBar' = [deviceBar EXCEPT ![r.id] = image]
<1>1. r.id \in Ids
  BY DEF Requests
<1>2. CASE Executes(r)
  <2>1. instance' = [instance EXCEPT ![r.id] = After(r, instance[r.id])]
    BY <1>2 DEF Executes
  <2>2. After(r, instance[r.id]) \in [stage : Stages, image : Images \cup {None}]
    BY DEF TypeOK, After, Requests, Stages, Absent
  <2> QED
    BY <1>1, <2>1, <2>2, DeviceChange DEF TypeOK
<1>3. CASE UNCHANGED instance
  <2>1. deviceBar' = deviceBar
    BY <1>3 DEF deviceBar
  <2>2. deviceBar = [deviceBar EXCEPT ![r.id] = deviceBar[r.id]]
    BY <1>1 DEF deviceBar
  <2>3. deviceBar[r.id] \in Images \cup {None}
    BY <1>1 DEF deviceBar, TypeOK
  <2> QED
    BY <2>1, <2>2, <2>3
<1> QED
  BY <1>2, <1>3

(* A request that failed may be in the pipe from then on. *)
LEMMA FailedWaiting ==
    ASSUME TypeOK, NEW r \in Requests, Failed(r)
    PROVE  UNCHANGED instance /\ Waiting' \subseteq Waiting \cup {r.id}
BY FailedType DEF Waiting

LEMMA InitRefines == Init => PS!PSInit
BY EmptySeq DEF Init, PS!PSInit, inUseBar, deviceBar, doubtBar, callBar, InCall,
   Waiting, Range, Absent, PS!Ids, Ids

LEMMA StageRefines ==
    ASSUME Inv, NEW pc, NEW next,
           <<pc, next>> \in {<<"add", "install">>, <<"install", "activate">>, <<"activate", "ok">>},
           Stage(pc, next)
    PROVE  PS!PSNext
<1>1. /\ call # None /\ call.pc = pc /\ InstanceInUse' = InstanceInUse
      /\ TypeOK /\ CallInv
  BY DEF Stage, At, Inv
<1>2. /\ Request(pc) \in Requests
      /\ Request(pc).op = pc /\ Request(pc).id = call.id
      /\ Request(pc).image = call.image
      /\ call \in Calls /\ call.id \in Ids
  BY <1>1, RequestType DEF Calls
<1>3. call.op = "DeployPackage" /\ call.image \in Images
  BY <1>1 DEF CallInv, Deploying
<1>4. Last(InstanceInUse) = call.id /\ call.id \in Range(InstanceInUse)
  BY <1>1, <1>3 DEF CallInv, Deploying, Reached
<1>5. /\ inUseBar = Range(InstanceInUse) \ {call.id}
      /\ callBar = [op |-> call.op, id |-> call.id, image |-> call.image, status |-> "running"]
      /\ doubtBar = Waiting \cup {call.id}
  BY <1>1, <1>2 DEF inUseBar, callBar, doubtBar, InCall, Pcs
<1>6. ASSUME NEW to, to \in {"install", "activate", "cleanup"}, Goto(to),
             Executes(Request(pc)) \/ UNCHANGED instance,
             Waiting' \subseteq Waiting \cup {call.id}
      PROVE  PS!Drift
  <2>1. call' # None /\ call'.pc = to /\ call'.op = call.op /\ call'.id = call.id
        /\ call'.image = call.image
    BY <1>1, <1>2, <1>6, NoneIsNoCall DEF Goto, Calls, Pcs
  <2>2. /\ inUseBar' = inUseBar /\ callBar' = callBar
        /\ doubtBar' = Waiting' \cup {call.id}
    BY <1>1, <1>2, <1>5, <1>6, <2>1 DEF inUseBar, callBar, doubtBar, InCall, Pcs
  <2>3. \E image \in Images \cup {None} : deviceBar' = [deviceBar EXCEPT ![call.id] = image]
    BY <1>1, <1>2, <1>6, ExecutesDrifts
  <2> QED
    BY <1>5, <1>6, <2>2, <2>3 DEF PS!Drift, PS!Running
<1>7. CASE Answered(Request(pc)) /\ Goto(next)
  <2>1. /\ pipe = <<>> /\ Waiting' = Waiting /\ Waiting = {}
        /\ Executes(Request(pc)) /\ call' = [call EXCEPT !.pc = next]
    BY <1>7, EmptySeq DEF Answered, Goto, Waiting, Range
  <2>2. CASE next # "ok"
    <3>1. PS!Drift
      BY <1>6, <1>7, <2>1, <2>2
    <3> QED
      BY <3>1 DEF PS!PSNext
  <2>3. CASE next = "ok"
    <3>1. pc = "activate" /\ instance[call.id] = Reached["activate"]
      BY <1>1, <1>3, <2>3 DEF CallInv, Reached
    <3>2. instance' = [instance EXCEPT ![call.id] = [stage |-> "active", image |-> call.image]]
      <4>1. After(Request(pc), instance[call.id]) = [stage |-> "active", image |-> call.image]
        BY <1>2, <3>1 DEF After, Reached
      <4> QED
        BY <1>2, <2>1, <4>1 DEF Executes
    <3>3. deviceBar' = [deviceBar EXCEPT ![call.id] = call.image]
      BY <1>1, <1>2, <1>3, <3>2, DeviceChange DEF TypeOK, Stages
    <3>4. /\ call' \in Calls /\ call' # None /\ call'.pc = "ok" /\ call'.op = call.op
          /\ call'.id = call.id /\ call'.image = call.image
      BY <1>2, <2>1, <2>3, NoneIsNoCall DEF Calls, Pcs
    <3>5. /\ inUseBar' = inUseBar \cup {call.id}
          /\ doubtBar' = {}
      BY <1>1, <1>4, <1>5, <2>1, <3>4 DEF inUseBar, doubtBar, InCall, Pcs
    <3>6. callBar' = [callBar EXCEPT !.status = "ok"]
      BY <1>5, <3>4 DEF callBar
    <3>7. callBar # None /\ callBar.op = "DeployPackage" /\ callBar.status = "running"
          /\ callBar.id = call.id /\ callBar.image = call.image
      BY <1>2, <1>3, <1>5, NoneIsNoCall DEF PS!Calls, PS!Ids, Calls, Ids
    <3>8. PS!DeployOk
      BY <3>3, <3>5, <3>6, <3>7 DEF PS!DeployOk, PS!Running, PS!Return
    <3> QED
      BY <3>8 DEF PS!PSNext, PS!PSReturns
  <2> QED
    BY <2>2, <2>3
<1>8. CASE Failed(Request(pc)) /\ Goto("cleanup")
  <2>1. UNCHANGED instance /\ Waiting' \subseteq Waiting \cup {call.id}
    BY <1>1, <1>2, <1>8, FailedWaiting
  <2>2. PS!Drift
    BY <1>6, <1>8, <2>1
  <2> QED
    BY <2>2 DEF PS!PSNext
<1> QED
  BY <1>7, <1>8 DEF Stage

LEMMA StepRefines == Inv /\ [Next]_vars => [PS!PSNext]_PS!psVars
<1> SUFFICES ASSUME Inv, [Next]_vars PROVE [PS!PSNext]_PS!psVars
  OBVIOUS
<1>0. TypeOK /\ Ascending /\ CallInv
  BY DEF Inv
<1>1. ASSUME NEW image \in Images, DeployPackage(image) PROVE PS!PSNext
  <2>1. call = None /\ callBar = None /\ inUseBar = Range(InstanceInUse) /\ doubtBar = Waiting
    BY <1>1 DEF DeployPackage, callBar, inUseBar, doubtBar, InCall
  <2>2. /\ NextInstanceId \in Ids
        /\ \A i \in Range(InstanceInUse) : i < NextInstanceId
        /\ NextInstanceId = 0 \/ NextInstanceId - 1 \in Range(InstanceInUse)
    BY <1>0, <1>1, NextIdIsNew, NextGenGwAssumption DEF DeployPackage, TypeOK, Ids
  <2> DEFINE id == NextInstanceId
  <2> HIDE DEF id
  <2>3. /\ call' = [op |-> "DeployPackage", pc |-> "create", id |-> id, image |-> image]
        /\ call' \in Calls
    BY <1>1, <2>2 DEF DeployPackage, id, Calls, Pcs
  <2>4. call' # None
    BY <2>3, NoneIsNoCall
  <2>5. callBar' = [op |-> "DeployPackage", id |-> id, image |-> image, status |-> "running"]
    BY <2>3, <2>4 DEF callBar
  <2>6. /\ inUseBar' = inUseBar /\ deviceBar' = deviceBar
        /\ doubtBar' = doubtBar \cup {id}
    BY <1>1, <2>1, <2>2, <2>3, <2>4
       DEF DeployPackage, id, inUseBar, deviceBar, doubtBar, InCall, Waiting, Pcs
  <2>7. id \in PS!Ids /\ PS!IsNextId(id)
    BY <2>1, <2>2 DEF id, PS!Ids, Ids, PS!IsNextId
  <2>8. PS!CallDeploy(image)
    BY <2>1, <2>5, <2>6, <2>7 DEF PS!CallDeploy, PS!Begin
  <2> QED
    BY <2>8 DEF PS!PSNext
<1>2. ASSUME NEW id \in Ids, RemovePackage(id) PROVE PS!PSNext
  <2>1. call = None /\ callBar = None /\ inUseBar = Range(InstanceInUse) /\ doubtBar = Waiting
    BY <1>2 DEF RemovePackage, callBar, inUseBar, doubtBar, InCall
  <2>2. /\ call' = [op |-> "RemovePackage", pc |-> "remove", id |-> id, image |-> None]
        /\ call' \in Calls /\ call' # None
    BY <1>2, NoneIsNoCall DEF RemovePackage, Calls, Pcs
  <2>3. callBar' = [op |-> "RemovePackage", id |-> id, image |-> None, status |-> "running"]
    BY <2>2 DEF callBar
  <2>4. /\ inUseBar' = inUseBar /\ deviceBar' = deviceBar
        /\ doubtBar' = doubtBar \cup {id}
    BY <1>2, <2>1, <2>2
       DEF RemovePackage, inUseBar, deviceBar, doubtBar, InCall, Waiting, Pcs
  <2>5. PS!CallRemove(id) /\ id \in PS!Ids
    BY <2>1, <2>3, <2>4 DEF PS!CallRemove, PS!Begin, PS!Ids, Ids
  <2> QED
    BY <2>5 DEF PS!PSNext
<1>3. CASE CreateSwMngtInstance
  <2>1. /\ call # None /\ call.pc = "create"
        /\ Request("create") \in Requests
        /\ Request("create").op = "create" /\ Request("create").id = call.id
        /\ call \in Calls /\ call.id \in Ids
    BY <1>0, <1>3, RequestType DEF CreateSwMngtInstance, At, Calls
  <2>2. /\ call.op = "DeployPackage" /\ call.image \in Images
        /\ \A i \in Range(InstanceInUse) : i < call.id
    BY <1>0, <2>1 DEF CallInv, Deploying
  <2>3. call.id \notin Range(InstanceInUse)
    BY <2>1, <2>2, NextGenGwAssumption DEF Ids
  <2>4. /\ inUseBar = Range(InstanceInUse)
        /\ callBar = [op |-> call.op, id |-> call.id, image |-> call.image,
                      status |-> "running"]
        /\ doubtBar = Waiting \cup {call.id}
    BY <2>1 DEF inUseBar, callBar, doubtBar, InCall, Pcs
  <2>5. CASE /\ Answered(Request("create"))
             /\ InstanceInUse' = Append(InstanceInUse, call.id)
             /\ Goto("add")
    <3>1. Range(InstanceInUse') = Range(InstanceInUse) \cup {call.id}
      BY <1>0, <2>1, <2>5, RangeAppend DEF TypeOK
    <3>2. /\ call' # None /\ call'.pc = "add" /\ call'.op = call.op /\ call'.id = call.id
          /\ call'.image = call.image
      BY <2>1, <2>5, NoneIsNoCall DEF Goto, Calls, Pcs
    <3>3. Waiting' = Waiting
      BY <2>5 DEF Answered, Waiting
    <3>4. /\ inUseBar' = inUseBar /\ callBar' = callBar /\ doubtBar' = doubtBar
      BY <2>1, <2>3, <2>4, <3>1, <3>2, <3>3 DEF inUseBar, callBar, doubtBar, InCall, Pcs
    <3>5. \E image \in Images \cup {None} : deviceBar' = [deviceBar EXCEPT ![call.id] = image]
      BY <1>0, <2>1, <2>5, ExecutesDrifts DEF Answered
    <3>6. PS!Drift
      BY <2>4, <3>4, <3>5 DEF PS!Drift, PS!Running
    <3> QED
      BY <3>6 DEF PS!PSNext
  <2>6. CASE Failed(Request("create")) /\ Goto("err") /\ UNCHANGED InstanceInUse
    <3>1. UNCHANGED instance /\ Waiting' \subseteq Waiting \cup {call.id}
      BY <1>0, <2>1, <2>6, FailedWaiting
    <3>2. /\ call' # None /\ call'.pc = "err" /\ call'.op = call.op /\ call'.id = call.id
          /\ call'.image = call.image
      BY <2>1, <2>6, NoneIsNoCall DEF Goto, Calls, Pcs
    <3>3. /\ inUseBar' = inUseBar /\ deviceBar' = deviceBar /\ doubtBar' \subseteq doubtBar
          /\ callBar' = [callBar EXCEPT !.status = "err"]
      BY <2>4, <2>6, <3>1, <3>2 DEF inUseBar, deviceBar, callBar, doubtBar, InCall
    <3>4. callBar # None /\ callBar.op = "DeployPackage" /\ callBar.status = "running"
      BY <2>1, <2>2, <2>4, NoneIsNoCall DEF PS!Calls, PS!Ids, Calls, Ids
    <3>5. PS!DeployErr
      BY <3>3, <3>4 DEF PS!DeployErr, PS!Running, PS!Return
    <3> QED
      BY <3>5 DEF PS!PSNext, PS!PSReturns
  <2> QED
    BY <1>3, <2>5, <2>6 DEF CreateSwMngtInstance
<1>4. CASE AddPackage
  BY <1>4, StageRefines DEF AddPackage
<1>5. CASE InstallPackage
  BY <1>5, StageRefines DEF InstallPackage
<1>6. CASE ActivatePackage
  BY <1>6, StageRefines DEF ActivatePackage
<1>7. CASE Delete
  <2>1. PICK pc \in {"remove", "cleanup"} :
          /\ At(pc)
          /\ \/ /\ Answered(Request("delete"))
                /\ InstanceInUse' = Forget(InstanceInUse, call.id)
                /\ Goto(IF pc = "remove" THEN "ok" ELSE "err")
             \/ Failed(Request("delete")) /\ Goto("err") /\ UNCHANGED InstanceInUse
    BY <1>7 DEF Delete
  <2>2. /\ call # None /\ call.pc = pc
        /\ Request("delete") \in Requests
        /\ Request("delete").op = "delete" /\ Request("delete").id = call.id
        /\ call \in Calls /\ call.id \in Ids
    BY <1>0, <2>1, RequestType DEF At, Calls
  <2>3. /\ call.op = IF pc = "remove" THEN "RemovePackage" ELSE "DeployPackage"
        /\ pc = "cleanup" => /\ Last(InstanceInUse) = call.id
                             /\ InstanceInUse # <<>>
    BY <1>0, <2>2 DEF CallInv, Deploying
  <2>4. pc = "cleanup" => call.id \in Range(InstanceInUse)
    BY <1>0, <2>3, LastIsGreatest DEF TypeOK, Ascending
  <2>5. /\ inUseBar = IF pc = "cleanup" THEN Range(InstanceInUse) \ {call.id}
                      ELSE Range(InstanceInUse)
        /\ callBar = [op |-> call.op, id |-> call.id, image |-> call.image,
                      status |-> "running"]
        /\ doubtBar = Waiting \cup {call.id}
    BY <2>2 DEF inUseBar, callBar, doubtBar, InCall, Pcs
  <2>6. callBar # None /\ callBar.op = call.op /\ callBar.status = "running"
        /\ callBar.id = call.id
    BY <2>2, <2>5, NoneIsNoCall DEF PS!Calls, PS!Ids, Calls, Ids
  <2>7. /\ call' # None /\ call'.op = call.op /\ call'.id = call.id
        /\ call'.image = call.image /\ call'.pc \in {"ok", "err"}
        /\ inUseBar' = Range(InstanceInUse')
        /\ doubtBar' = Waiting'
        /\ callBar' = [callBar EXCEPT !.status = call'.pc]
    <3>1. \E to \in {"ok", "err"} : Goto(to)
      BY <2>1
    <3>2. /\ call' # None /\ call'.op = call.op /\ call'.id = call.id
          /\ call'.image = call.image /\ call'.pc \in {"ok", "err"}
      BY <2>2, <3>1, NoneIsNoCall DEF Goto, Calls, Pcs
    <3> QED
      BY <2>5, <3>2 DEF inUseBar, callBar, doubtBar, InCall
  <2>8. CASE /\ Answered(Request("delete"))
             /\ InstanceInUse' = Forget(InstanceInUse, call.id)
             /\ Goto(IF pc = "remove" THEN "ok" ELSE "err")
    <3>1. Range(InstanceInUse') = Range(InstanceInUse) \ {call.id}
      BY <1>0, <2>2, <2>8, ForgetProperties DEF TypeOK, Ascending
    <3>2. /\ pipe = <<>> /\ Waiting' = {}
          /\ instance' = [instance EXCEPT ![call.id] = Absent]
      <4>1. After(Request("delete"), instance[call.id]) = Absent
        BY <2>2 DEF After
      <4>2. pipe = <<>> /\ pipe' = pipe /\ Executes(Request("delete"))
        BY <2>8 DEF Answered
      <4>3. Waiting' = {}
        BY <4>2, EmptySeq DEF Waiting, Range
      <4> QED
        BY <2>2, <4>1, <4>2, <4>3 DEF Executes
    <3>3. deviceBar' = [deviceBar EXCEPT ![call.id] = None]
      <4>1. Absent \in [stage : Stages, image : Images \cup {None}] /\ Absent.stage = "absent"
        BY DEF Absent, Stages
      <4> QED
        BY <1>0, <2>2, <3>2, <4>1, DeviceChange DEF TypeOK
    <3>4. call'.pc = IF pc = "remove" THEN "ok" ELSE "err"
      BY <2>2, <2>8 DEF Goto, Calls
    <3>5. CASE pc = "remove"
      <4>1. PS!RemoveOk
        BY <2>3, <2>5, <2>6, <2>7, <3>1, <3>2, <3>3, <3>4, <3>5
           DEF PS!RemoveOk, PS!Running, PS!Return
      <4> QED
        BY <4>1 DEF PS!PSNext, PS!PSReturns
    <3>6. CASE pc = "cleanup"
      <4>1. PS!DeployErr
        BY <2>3, <2>5, <2>6, <2>7, <3>1, <3>2, <3>3, <3>4, <3>6
           DEF PS!DeployErr, PS!Running, PS!Return
      <4> QED
        BY <4>1 DEF PS!PSNext, PS!PSReturns
    <3> QED
      BY <3>5, <3>6
  <2>9. CASE Failed(Request("delete")) /\ Goto("err") /\ UNCHANGED InstanceInUse
    <3>1. UNCHANGED instance /\ Waiting' \subseteq Waiting \cup {call.id}
      BY <1>0, <2>2, <2>9, FailedWaiting
    <3>2. /\ deviceBar' = deviceBar /\ doubtBar' \subseteq doubtBar
          /\ call'.pc = "err"
      BY <2>2, <2>5, <2>7, <2>9, <3>1 DEF deviceBar, Goto, Calls
    <3>3. CASE pc = "remove"
      <4>1. PS!RemoveErr
        BY <2>3, <2>5, <2>6, <2>7, <2>9, <3>2, <3>3
           DEF PS!RemoveErr, PS!Running, PS!Return
      <4> QED
        BY <4>1 DEF PS!PSNext, PS!PSReturns
    <3>4. CASE pc = "cleanup"
      <4>1. inUseBar' = inUseBar \cup {call.id}
        BY <2>4, <2>5, <2>7, <2>9, <3>4
      <4>2. PS!DeployErr
        BY <2>3, <2>5, <2>6, <2>7, <3>2, <3>4, <4>1
           DEF PS!DeployErr, PS!Running, PS!Return
      <4> QED
        BY <4>2 DEF PS!PSNext, PS!PSReturns
    <3> QED
      BY <3>3, <3>4
  <2> QED
    BY <2>1, <2>8, <2>9
<1>8. CASE Collect
  <2>1. call # None /\ call.pc \in {"ok", "err"} /\ call' = None /\ call \in Calls
    BY <1>0, <1>8 DEF Collect, At, TypeOK
  <2>2. callBar = [op |-> call.op, id |-> call.id, image |-> call.image, status |-> call.pc]
        /\ callBar' = None
    BY <2>1 DEF callBar
  <2>3. callBar # None /\ callBar.status # "running"
    BY <2>1, <2>2, NoneIsNoCall DEF PS!Calls, PS!Ids, Calls, Ids
  <2>4. /\ inUseBar' = inUseBar /\ deviceBar' = deviceBar /\ doubtBar' = doubtBar
    BY <1>8, <2>1 DEF Collect, inUseBar, deviceBar, doubtBar, InCall, Waiting
  <2>5. PS!Collect
    BY <2>2, <2>3, <2>4 DEF PS!Collect
  <2> QED
    BY <2>5 DEF PS!PSNext
<1>9. CASE DeviceStep
  <2>1. /\ Head(pipe) \in Requests /\ Range(pipe') \subseteq Range(pipe)
        /\ Head(pipe) \in Range(pipe)
    BY <1>0, <1>9, HeadTailProperties, RangeTail DEF DeviceStep, TypeOK
  <2>2. \E image \in Images \cup {None} :
            deviceBar' = [deviceBar EXCEPT ![Head(pipe).id] = image]
    BY <1>0, <1>9, <2>1, ExecutesDrifts DEF DeviceStep
  <2>3. Head(pipe).id \in Waiting /\ Waiting' \subseteq Waiting
    BY <2>1 DEF Waiting
  <2>4. /\ inUseBar' = inUseBar /\ callBar' = callBar
        /\ Head(pipe).id \in doubtBar /\ doubtBar' \subseteq doubtBar
    BY <1>9, <2>3 DEF DeviceStep, inUseBar, callBar, doubtBar, InCall
  <2>5. PS!Running("DeployPackage") \/ PS!Running("RemovePackage") => callBar.id \in doubtBar'
    <3>1. CASE call = None
      BY <3>1 DEF PS!Running, callBar
    <3>2. CASE call # None
      <4>1. /\ call \in Calls
            /\ callBar = [op |-> call.op, id |-> call.id, image |-> call.image,
                 status |-> IF call.pc \in {"ok", "err"} THEN call.pc ELSE "running"]
        BY <1>0, <3>2 DEF callBar, TypeOK
      <4>2. CASE call.pc \in {"ok", "err"}
        BY <4>1, <4>2 DEF PS!Running
      <4>3. CASE call.pc \notin {"ok", "err"}
        <5>1. call.id \in doubtBar'
          BY <1>9, <3>2, <4>1, <4>3 DEF DeviceStep, doubtBar, InCall, Calls, Pcs
        <5> QED
          BY <4>1, <5>1
      <4> QED
        BY <4>2, <4>3
    <3> QED
      BY <3>1, <3>2
  <2>6. PS!Drift
    BY <2>2, <2>4, <2>5 DEF PS!Drift
  <2> QED
    BY <2>6 DEF PS!PSNext
<1>10. CASE Crash
  <2>1. /\ inUseBar' = {} /\ callBar' = None /\ deviceBar' = deviceBar
        /\ doubtBar' \subseteq doubtBar
    BY <1>10, EmptySeq DEF Crash, inUseBar, callBar, deviceBar, doubtBar, InCall, Range, Waiting
  <2>2. PS!PSCrash
    BY <2>1 DEF PS!PSCrash
  <2> QED
    BY <2>2 DEF PS!PSNext
<1>11. CASE UNCHANGED vars
  BY <1>11 DEF vars, PS!psVars, inUseBar, callBar, deviceBar, doubtBar, InCall, Waiting
<1> QED
  BY <1>1, <1>2, <1>3, <1>4, <1>5, <1>6, <1>7, <1>8, <1>9, <1>10, <1>11 DEF Next

(* nextgengw keeps the promise of PackageService, on which the model of the     *)
(* provider rests, for any packages and however requests fail, get lost, or     *)
(* take effect late, and whenever the kubelet dies.                             *)
THEOREM PromiseIsKept == Spec => KeepsPromise
BY InvInductive, InitRefines, StepRefines, PTL DEF Spec, KeepsPromise, PS!PSSpec
=============================================================================
