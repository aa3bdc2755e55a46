----------------------------- MODULE MqttProofs ------------------------------
(***************************************************************************)
(* Proofs about MqttRequests, for any number of requests and of repeated   *)
(* answers: an answer proves that the request was carried out, it takes    *)
(* two late answers to fill the client, and a client that is full stays so.*)
(***************************************************************************)
EXTENDS MqttRequests, SequenceTheorems, FiniteSetTheorems, FunctionTheorems, TLAPS

(* The messages among packets are answers to requests in done. *)
AnswersIn(packets, done) ==
    \A i \in DOMAIN packets : packets[i].type = "PUBLISH" => packets[i].topic \in done

(* What is on its way to the client, or in the client, comes from a request   *)
(* the device has carried out.                                                *)
AnswersAreTrue ==
    /\ AnswersIn(conn, executed)
    /\ reader # None => reader \in executed
    /\ handler # None => handler \in executed

IInv == TypeOK /\ AnswersAreTrue /\ OkWasExecuted

LEMMA InitInv == Init => IInv
<1> SUFFICES ASSUME Init PROVE IInv
  OBVIOUS
<1>1. todo \in Seq(Topics) /\ conn \in Seq(Packets) /\ DOMAIN conn = {}
  BY DEF Init
<1>2. TypeOK
  BY <1>1, MqttAssumption DEF Init, TypeOK, Pcs
<1>3. AnswersAreTrue
  BY <1>1 DEF Init, AnswersAreTrue, AnswersIn
<1>4. OkWasExecuted
  <2>1. \A t \in Topics : result[t] = None
    BY DEF Init
  <2>2. None # "ok"
    BY MqttAssumption
  <2> QED
    BY <2>1, <2>2 DEF OkWasExecuted
<1> QED
  BY <1>2, <1>3, <1>4 DEF IInv

(* A packet is sent that is no answer, or a true one. *)
LEMMA AppendKeeps ==
    ASSUME NEW packets \in Seq(Packets), NEW done, AnswersIn(packets, done),
           NEW p \in Packets, p.type = "PUBLISH" => p.topic \in done
    PROVE  /\ Append(packets, p) \in Seq(Packets)
           /\ AnswersIn(Append(packets, p), done)
<1> DEFINE n == Len(packets) + 1
           more == Append(packets, p)
<1>1. /\ more \in Seq(Packets) /\ DOMAIN more = 1..n /\ DOMAIN packets = 1..Len(packets)
      /\ more[n] = p /\ \A i \in DOMAIN packets : more[i] = packets[i]
      /\ Len(packets) \in Nat
  OBVIOUS
<1>2. \A i \in DOMAIN more : i \in DOMAIN packets \/ i = n
  BY <1>1
<1> QED
  BY <1>1, <1>2, Zenon DEF AnswersIn

(* The first packet is read. *)
LEMMA TailKeeps ==
    ASSUME NEW packets \in Seq(Packets), NEW done, AnswersIn(packets, done), packets # <<>>
    PROVE  /\ Tail(packets) \in Seq(Packets) /\ Head(packets) \in Packets
           /\ AnswersIn(Tail(packets), done)
           /\ Head(packets).type = "PUBLISH" => Head(packets).topic \in done
<1>1. /\ Len(packets) \in Nat /\ Len(packets) >= 1 /\ DOMAIN packets = 1..Len(packets)
      /\ DOMAIN Tail(packets) = 1..(Len(packets) - 1)
      /\ \A i \in DOMAIN Tail(packets) : Tail(packets)[i] = packets[i + 1] /\ i + 1 \in DOMAIN packets
      /\ Head(packets) = packets[1] /\ 1 \in DOMAIN packets
  OBVIOUS
<1>2. Tail(packets) \in Seq(Packets) /\ Head(packets) \in Packets
  BY <1>1
<1> QED
  BY <1>1, <1>2, Zenon DEF AnswersIn

LEMMA PacketType ==
    ASSUME NEW type \in {"SUBACK", "PUBACK", "UNSUBACK", "PUBLISH"}, NEW t \in Topics
    PROVE  /\ Packet(type, t) \in Packets
           /\ Packet(type, t).type = type /\ Packet(type, t).topic = t
  BY DEF Packet, Packets

(* A request that has begun has a topic of its own. *)
Started == pc # "idle" => topic \in Topics

-----------------------------------------------------------------------------
(* The request.  It sends packets that are no answers, and takes one.         *)

(* A step that leaves the device's and the client's part alone and sends at   *)
(* most one acknowledgement keeps the answers true.                           *)
LEMMA AckKeeps ==
    ASSUME TypeOK, AnswersAreTrue, NEW type \in {"SUBACK", "PUBACK", "UNSUBACK"}, NEW t \in Topics,
           conn' = Append(conn, Packet(type, t)), UNCHANGED <<executed, reader>>,
           handler' \in {handler, None}
    PROVE  conn' \in Seq(Packets) /\ AnswersAreTrue'
<1>1. Packet(type, t) \in Packets /\ Packet(type, t).type # "PUBLISH"
  BY PacketType
<1>2. conn \in Seq(Packets) /\ AnswersIn(conn, executed)
  BY DEF TypeOK, AnswersAreTrue
<1>3. conn' \in Seq(Packets) /\ AnswersIn(conn', executed)
  BY <1>1, <1>2, AppendKeeps
<1> QED
  BY <1>3 DEF AnswersAreTrue

LEMMA SubscribeStep == ASSUME IInv, Started, NEW o \in Ops, Subscribe(o) PROVE IInv' /\ Started'
<1> USE DEF IInv, Subscribe, clientVars
<1>1. topic' \in Topics
  BY MqttAssumption DEF TypeOK, Topics
<1>2. conn' \in Seq(Packets) /\ AnswersAreTrue'
  BY <1>1, AckKeeps
<1>3. TypeOK' /\ Started'
  BY <1>1, <1>2 DEF TypeOK, Pcs, Topics, Started
<1>4. OkWasExecuted'
  BY DEF OkWasExecuted
<1> QED
  BY <1>2, <1>3, <1>4

(* The request gives up. *)
LEMMA GiveUpStep ==
    ASSUME IInv, Started, SubscribeFails \/ PublishFails \/ Timeout \/ UnsubscribeFails
    PROVE  IInv' /\ Started'
<1> USE DEF IInv, clientVars
<1>1. topic \in Topics /\ late' \in 0..2
  BY DEF Started, SubscribeFails, PublishFails, Timeout, UnsubscribeFails, Late, TypeOK
<1>2. conn' \in Seq(Packets) /\ AnswersAreTrue'
  <2>1. CASE conn' = Append(conn, Packet("UNSUBACK", topic))
    <3>1. UNCHANGED <<executed, reader, handler>>
      BY DEF SubscribeFails, PublishFails, Timeout, UnsubscribeFails
    <3> QED
      BY <1>1, <2>1, <3>1, AckKeeps
  <2>2. CASE UNCHANGED conn
    BY <2>2 DEF TypeOK, AnswersAreTrue, SubscribeFails, PublishFails, Timeout, UnsubscribeFails
  <2> QED
    BY <2>1, <2>2 DEF SubscribeFails, PublishFails, Timeout, UnsubscribeFails
<1>3. /\ result' \in [Topics -> {"ok", "err", None}]
      /\ \A t \in Topics : result'[t] = "ok" => result[t] = "ok"
  BY <1>1 DEF TypeOK, Finish, SubscribeFails, PublishFails, Timeout, UnsubscribeFails
<1>4. TypeOK' /\ Started'
  BY <1>1, <1>2, <1>3
  DEF TypeOK, Pcs, Started, SubscribeFails, PublishFails, Timeout, UnsubscribeFails
<1>5. OkWasExecuted'
  BY <1>3 DEF OkWasExecuted, SubscribeFails, PublishFails, Timeout, UnsubscribeFails
<1> QED
  BY <1>2, <1>4, <1>5

LEMMA ReceiveStep == ASSUME IInv, Started, Receive PROVE IInv' /\ Started'
<1> USE DEF IInv
<1>1. topic \in Topics /\ handler \in executed /\ handler' = None
  BY DEF Receive, Started, AnswersAreTrue
<1>2. conn' \in Seq(Packets) /\ AnswersAreTrue'
  <2>1. CASE conn' = Append(conn, Packet("UNSUBACK", topic))
    BY <1>1, <2>1, AckKeeps DEF Receive
  <2>2. CASE UNCHANGED conn
    BY <1>1, <2>2 DEF Receive, TypeOK, AnswersAreTrue
  <2> QED
    BY <2>1, <2>2 DEF Receive
<1>3. \/ result' = result
      \/ handler = topic /\ result' = [result EXCEPT ![topic] = "ok"]
  BY DEF Receive, Finish
<1>4. TypeOK' /\ Started'
  BY <1>1, <1>2, <1>3 DEF Receive, TypeOK, Pcs, Started
<1>5. OkWasExecuted'
  BY <1>1, <1>3 DEF Receive, TypeOK, OkWasExecuted
<1> QED
  BY <1>2, <1>4, <1>5

-----------------------------------------------------------------------------
(* The client and the device. *)

(* After Subscribe the request is published, and its PUBACK will follow; the  *)
(* other acknowledgements are only read.                                      *)
LEMMA ReadAckStep == ASSUME IInv, Started, ReadAck PROVE IInv' /\ Started'
<1> USE DEF IInv
<1>1. conn \in Seq(Packets) /\ AnswersIn(conn, executed) /\ conn # <<>>
  BY DEF TypeOK, AnswersAreTrue, ReadAck
<1>2. Tail(conn) \in Seq(Packets) /\ AnswersIn(Tail(conn), executed)
  BY <1>1, TailKeeps
<1>3. UNCHANGED <<op, topic, result, subs, executed, clientVars, late>>
  BY DEF ReadAck
<1>4. CASE /\ pc = "subscribe" /\ pc' = "publish" /\ todo' = Append(todo, topic)
           /\ conn' = Append(Tail(conn), Packet("PUBACK", topic))
  <2>1. topic \in Topics /\ todo' \in Seq(Topics)
    BY <1>4 DEF Started, TypeOK
  <2>2. Packet("PUBACK", topic) \in Packets /\ Packet("PUBACK", topic).type # "PUBLISH"
    BY <2>1, PacketType
  <2>3. conn' \in Seq(Packets) /\ AnswersIn(conn', executed)
    BY <1>2, <1>4, <2>2, AppendKeeps
  <2> QED
    BY <1>3, <1>4, <2>1, <2>3
    DEF TypeOK, AnswersAreTrue, OkWasExecuted, Started, clientVars, Pcs
<1>5. CASE pc' \in {"wait", "idle", pc} /\ (pc' = "wait" => pc = "publish" \/ pc = "wait")
           /\ todo' = todo /\ conn' = Tail(conn)
  BY <1>2, <1>3, <1>5 DEF TypeOK, AnswersAreTrue, OkWasExecuted, Started, clientVars, Pcs
<1> QED
  BY <1>4, <1>5 DEF ReadAck

LEMMA ReadMessageStep == ASSUME IInv, Started, ReadMessage PROVE IInv' /\ Started'
<1> USE DEF IInv, ReadMessage
<1>1. conn \in Seq(Packets) /\ AnswersIn(conn, executed)
  BY DEF TypeOK, AnswersAreTrue
<1>2. /\ conn' \in Seq(Packets) /\ AnswersIn(conn', executed)
      /\ Head(conn) \in Packets /\ reader' \in executed
  BY <1>1, TailKeeps
<1>3. TypeOK' /\ AnswersAreTrue'
  BY <1>2 DEF TypeOK, AnswersAreTrue
<1> QED
  BY <1>3 DEF OkWasExecuted, Started

LEMMA MessageHandlerStep == ASSUME IInv, Started, MessageHandler PROVE IInv' /\ Started'
  BY DEF IInv, MessageHandler, TypeOK, AnswersAreTrue, OkWasExecuted, Started

(* An answer is sent for a request that was carried out. *)
LEMMA DeliverKeeps ==
    ASSUME TypeOK, NEW done, AnswersIn(conn, done), NEW t \in Topics, t \in done,
           Deliver(t) \/ UNCHANGED conn
    PROVE  conn' \in Seq(Packets) /\ AnswersIn(conn', done)
<1>1. conn \in Seq(Packets)
  BY DEF TypeOK
<1>2. CASE conn' = Append(conn, Packet("PUBLISH", t))
  <2>1. Packet("PUBLISH", t) \in Packets /\ Packet("PUBLISH", t).topic \in done
    BY PacketType
  <2> QED
    BY <1>1, <1>2, <2>1, AppendKeeps
<1> QED
  BY <1>1, <1>2 DEF Deliver

LEMMA DeviceAnswersStep == ASSUME IInv, Started, DeviceAnswers PROVE IInv' /\ Started'
<1> USE DEF IInv, DeviceAnswers
<1>1. Head(todo) \in Topics /\ todo' \in Seq(Topics)
  BY DEF TypeOK
<1>2. executed \subseteq executed' /\ Head(todo) \in executed' /\ executed' \subseteq Topics
  BY <1>1 DEF TypeOK
<1>3. AnswersIn(conn, executed')
  BY <1>2 DEF AnswersAreTrue, AnswersIn
<1>4. conn' \in Seq(Packets) /\ AnswersIn(conn', executed')
  BY <1>1, <1>2, <1>3, DeliverKeeps
<1>5. TypeOK' /\ AnswersAreTrue'
  BY <1>1, <1>2, <1>4 DEF TypeOK, AnswersAreTrue, clientVars
<1> QED
  BY <1>2, <1>5 DEF OkWasExecuted, Started

LEMMA DeviceRepeatsStep == ASSUME IInv, Started, DeviceRepeats PROVE IInv' /\ Started'
<1> USE DEF IInv, DeviceRepeats
<1>1. conn' \in Seq(Packets) /\ AnswersIn(conn', executed)
  <2>1. PICK t \in executed \cap subs : Deliver(t)
    OBVIOUS
  <2>2. t \in Topics /\ AnswersIn(conn, executed)
    BY DEF TypeOK, AnswersAreTrue
  <2> QED
    BY <2>1, <2>2, DeliverKeeps
<1>2. repeats' \in 0..MaxRepeats /\ late' \in 0..2
  BY MqttAssumption DEF TypeOK, Late
<1>3. TypeOK' /\ AnswersAreTrue'
  BY <1>1, <1>2 DEF TypeOK, AnswersAreTrue
<1> QED
  BY <1>3 DEF OkWasExecuted, Started

(* Whatever the client holds or has on its way is an answer to a request that *)
(* was carried out, in every reachable state of nextgengw.go's requests.      *)
THEOREM Inductive == Spec => [](IInv /\ Started)
<1>1. Init => Started
  BY DEF Init, Started
<1>2. IInv /\ Started /\ UNCHANGED vars => IInv' /\ Started'
  BY DEF IInv, TypeOK, AnswersAreTrue, AnswersIn, OkWasExecuted, Started, vars
<1>3. IInv /\ Started /\ [Next]_vars => IInv' /\ Started'
  BY <1>2, SubscribeStep, GiveUpStep, ReceiveStep, ReadAckStep, ReadMessageStep,
     MessageHandlerStep, DeviceAnswersStep, DeviceRepeatsStep DEF Next
<1> QED
  BY <1>1, <1>3, InitInv, PTL DEF Spec

(* nextgengw.go: a function that returns no error has made the device carry   *)
(* out its request.                                                           *)
THEOREM AnswersProve == Spec => []OkWasExecuted
<1>1. IInv => OkWasExecuted
  BY DEF IInv
<1> QED
  BY <1>1, Inductive, PTL

(* nextgengw.go, MessageHandler: once nobody takes from ch and both           *)
(* goroutines of the client hold a message, nothing is ever read again.       *)
THEOREM FullForGood == Spec => WedgedForGood
<1>1. [Next]_vars => (Wedged => Wedged')
  <2> SUFFICES ASSUME [Next]_vars, Wedged PROVE Wedged'
    OBVIOUS
  <2> USE DEF Wedged
  <2>1. CASE UNCHANGED vars
    BY <2>1 DEF vars
  <2>2. ASSUME NEW o \in Ops, Subscribe(o) PROVE Wedged'
    BY <2>2 DEF Subscribe, clientVars
  <2>3. CASE SubscribeFails \/ PublishFails \/ Timeout \/ UnsubscribeFails
    BY <2>3 DEF SubscribeFails, PublishFails, Timeout, UnsubscribeFails, clientVars
  <2>4. CASE Receive \/ ReadAck \/ ReadMessage \/ MessageHandler
    BY <2>4 DEF Receive, ReadAck, ReadMessage, MessageHandler
  <2>5. CASE DeviceAnswers \/ DeviceRepeats
    BY <2>5 DEF DeviceAnswers, DeviceRepeats, clientVars
  <2> QED
    BY <2>1, <2>2, <2>3, <2>4, <2>5 DEF Next
<1> QED
  BY <1>1, PTL DEF Spec, WedgedForGood

-----------------------------------------------------------------------------
(* Answers nobody waits for, counted. *)

(* How many of the first packets, those before position k, are answers.       *)
Before(packets, k) == {i \in DOMAIN packets : i < k /\ packets[i].type = "PUBLISH"}
Count(packets, k) == Cardinality(Before(packets, k))
Held == (IF reader # None THEN 1 ELSE 0) + (IF handler # None THEN 1 ELSE 0)

(* Every answer that is still to come, or on its way, or in the client, is    *)
(* that of the current request or one that was counted as late ...            *)
AllAnswers == Count(conn, Len(conn) + 1) + Len(todo) + Held
                 <= late + IF pc \in {"publish", "wait"} THEN 1 ELSE 0

(* ... and those that arrive before the PUBACK of the current request are     *)
(* late ones all: its own answer comes behind that packet.                    *)
EarlyAnswers == pc = "publish" =>
    \E k \in DOMAIN conn : /\ conn[k].type = "PUBACK" /\ conn[k].topic = topic
                           /\ Count(conn, k) + Held <= late

StaleInv == late <= 1 => AllAnswers /\ EarlyAnswers

LEMMA CountIs ==
    ASSUME NEW packets \in Seq(Packets), NEW k
    PROVE  IsFiniteSet(Before(packets, k)) /\ Count(packets, k) \in Nat
<1>1. IsFiniteSet(1..Len(packets)) /\ DOMAIN packets = 1..Len(packets)
  BY FS_Interval
<1>2. Before(packets, k) \subseteq 1..Len(packets)
  BY <1>1 DEF Before
<1> QED
  BY <1>1, <1>2, FS_Subset, FS_CardinalityType DEF Count

(* A packet sent comes last. *)
LEMMA CountAppend ==
    ASSUME NEW packets \in Seq(Packets), NEW p \in Packets
    PROVE  LET more == Append(packets, p)
           IN  /\ Count(more, Len(more) + 1)
                    = Count(packets, Len(packets) + 1) + IF p.type = "PUBLISH" THEN 1 ELSE 0
               /\ \A k \in 1..(Len(packets) + 1) : Count(more, k) = Count(packets, k)
<1> DEFINE more == Append(packets, p)
           n == Len(packets) + 1
<1>1. /\ n \in Nat /\ n >= 1 /\ DOMAIN packets = 1..(n - 1) /\ DOMAIN more = 1..n /\ Len(more) = n
      /\ more[n] = p /\ \A i \in 1..(n - 1) : more[i] = packets[i]
  OBVIOUS
<1> HIDE DEF more, n
<1>2. ASSUME NEW k \in 1..n PROVE Before(more, k) = Before(packets, k)
  BY <1>1, <1>2 DEF Before
<1>3. Before(more, n + 1) = IF p.type = "PUBLISH" THEN Before(packets, n) \cup {n}
                                                    ELSE Before(packets, n)
  <2>1. \A i \in DOMAIN more : i < n + 1 /\ (i \in DOMAIN packets => i < n)
    BY <1>1
  <2>2. \A i \in DOMAIN packets : i \in DOMAIN more /\ more[i].type = packets[i].type
    BY <1>1
  <2>3. \A i \in DOMAIN more : i \in DOMAIN packets \/ i = n
    BY <1>1
  <2>4. n \in DOMAIN more /\ more[n].type = p.type
    BY <1>1
  <2> QED
    BY <2>1, <2>2, <2>3, <2>4 DEF Before
<1>4. n \notin Before(packets, n)
  BY <1>1 DEF Before
<1>5. IsFiniteSet(Before(packets, n)) /\ Count(packets, n) \in Nat
  BY CountIs
<1>6. Cardinality(Before(packets, n) \cup {n}) = Cardinality(Before(packets, n)) + 1
  BY <1>4, <1>5, FS_AddElement
<1>7. Count(more, n + 1) = Count(packets, n) + IF p.type = "PUBLISH" THEN 1 ELSE 0
  <2>1. CASE p.type = "PUBLISH"
    BY <1>3, <1>6, <2>1 DEF Count
  <2>2. CASE p.type # "PUBLISH"
    BY <1>3, <1>5, <2>2 DEF Count
  <2> QED
    BY <2>1, <2>2
<1>8. \A k \in 1..n : Count(more, k) = Count(packets, k)
  BY <1>2 DEF Count
<1> QED
  BY <1>1, <1>7, <1>8 DEF more, n

(* The first packet is read: the others move up by one. *)
LEMMA CountTail ==
    ASSUME NEW packets \in Seq(Packets), packets # <<>>, NEW k \in 2..(Len(packets) + 1)
    PROVE  Count(Tail(packets), k - 1)
              = Count(packets, k) - IF Head(packets).type = "PUBLISH" THEN 1 ELSE 0
<1> DEFINE rest == Tail(packets)
           S == Before(rest, k - 1)
           T == Before(packets, k) \ {1}
           f == [i \in S |-> i + 1]
<1>1. /\ Len(packets) \in Nat /\ Len(packets) >= 1 /\ DOMAIN packets = 1..Len(packets)
      /\ rest \in Seq(Packets) /\ DOMAIN rest = 1..(Len(packets) - 1)
      /\ \A i \in DOMAIN rest : rest[i] = packets[i + 1]
      /\ Head(packets) = packets[1] /\ k \in Int /\ k >= 2
  OBVIOUS
<1>2. IsFiniteSet(S) /\ IsFiniteSet(Before(packets, k)) /\ Count(packets, k) \in Nat
  BY <1>1, CountIs
<1> HIDE DEF rest
<1>3. \A i \in S : i \in Int /\ i + 1 \in T
  BY <1>1 DEF Before
<1>4. \A j \in T : j \in Int /\ j - 1 \in S
  BY <1>1 DEF Before
<1>5. f \in Bijection(S, T)
  <2> HIDE DEF S, T
  <2>1. f \in [S -> T] /\ \A i, j \in S : f[i] = f[j] => i = j
    BY <1>3
  <2>2. \A j \in T : f[j - 1] = j
    BY <1>4
  <2>3. \A j \in T : \E i \in S : f[i] = j
    BY <1>4, <2>2
  <2> QED
    BY <2>1, <2>3, Fun_IsBij
<1>6. Cardinality(T) = Cardinality(S)
  BY <1>2, <1>5, FS_Bijection DEF ExistsBijection
<1>7. Cardinality(T) = Count(packets, k) - IF Head(packets).type = "PUBLISH" THEN 1 ELSE 0
  <2>1. 1 \in Before(packets, k) <=> Head(packets).type = "PUBLISH"
    BY <1>1 DEF Before
  <2>2. Cardinality(T) = IF 1 \in Before(packets, k) THEN Cardinality(Before(packets, k)) - 1
                                                    ELSE Cardinality(Before(packets, k))
    BY <1>2, FS_RemoveElement
  <2> HIDE DEF T
  <2> QED
    BY <1>2, <2>1, <2>2 DEF Count
<1> QED
  BY <1>6, <1>7 DEF Count, rest

(* What the proof uses of the types. *)
LEMMA Numbers ==
    ASSUME TypeOK
    PROVE  /\ conn \in Seq(Packets) /\ Count(conn, Len(conn) + 1) \in Nat
           /\ todo \in Seq(Topics) /\ Len(todo) \in Nat
           /\ late \in 0..2 /\ Held \in 0..2
  BY CountIs DEF TypeOK, Held

(* A step that sends at most an acknowledgement, of a request that is then    *)
(* not in "publish".                                                          *)
LEMMA StaleAck ==
    ASSUME TypeOK, TypeOK', StaleInv, UNCHANGED <<todo, reader>>,
           UNCHANGED conn \/ \E type \in {"SUBACK", "PUBACK", "UNSUBACK"}, t \in Topics :
                                conn' = Append(conn, Packet(type, t)),
           pc' # "publish",
           Held' + (late + IF pc \in {"publish", "wait"} THEN 1 ELSE 0)
              <= Held + (late' + IF pc' \in {"publish", "wait"} THEN 1 ELSE 0),
           late' >= late
    PROVE  StaleInv'
<1>1. Count(conn', Len(conn') + 1) = Count(conn, Len(conn) + 1)
  <2>1. CASE UNCHANGED conn
    BY <2>1
  <2>2. ASSUME NEW type \in {"SUBACK", "PUBACK", "UNSUBACK"}, NEW t \in Topics,
               conn' = Append(conn, Packet(type, t))
        PROVE  Count(conn', Len(conn') + 1) = Count(conn, Len(conn) + 1)
    <3>1. Packet(type, t) \in Packets /\ Packet(type, t).type # "PUBLISH"
      BY PacketType
    <3> QED
      BY <2>2, <3>1, Numbers, CountAppend
  <2> QED
    BY <2>1, <2>2
<1>2. Held' \in 0..2 /\ late' \in 0..2
  BY DEF Held, TypeOK
<1>3. late' <= 1 => AllAnswers'
  BY <1>1, <1>2, Numbers DEF StaleInv, AllAnswers
<1> QED
  BY <1>3 DEF StaleInv, EarlyAnswers

(* The request begins, gives up, or takes an answer. *)
LEMMA StaleRequest ==
    ASSUME IInv, IInv', Started, StaleInv,
           \/ \E o \in Ops : Subscribe(o)
           \/ SubscribeFails \/ PublishFails \/ Timeout \/ UnsubscribeFails \/ Receive
    PROVE  StaleInv'
<1> USE DEF IInv
<1>1. ASSUME NEW o \in Ops, Subscribe(o) PROVE StaleInv'
  <2>1. topic' \in Topics
    BY <1>1, MqttAssumption DEF Subscribe, TypeOK, Topics
  <2>2. UNCHANGED <<todo, reader, handler, late>> /\ Held' = Held
    BY <1>1 DEF Subscribe, clientVars, Held
  <2> QED
    BY <1>1, <2>1, <2>2, Numbers, StaleAck DEF Subscribe
<1>2. CASE SubscribeFails \/ PublishFails \/ Timeout \/ UnsubscribeFails
  <2> USE DEF SubscribeFails, PublishFails, Timeout, UnsubscribeFails
  <2>1. topic \in Topics /\ UNCHANGED <<todo, reader, handler>> /\ Held' = Held
    BY <1>2 DEF Started, clientVars, Held
  <2>2. UNCHANGED conn \/ conn' = Append(conn, Packet("UNSUBACK", topic))
    BY <1>2
  <2>3. late' = (IF late = 2 THEN 2 ELSE late + 1) /\ pc' \in {"idle", "unsubscribe"}
    BY <1>2 DEF Late
  <2>4. CASE late' = 2
    BY <2>4 DEF StaleInv
  <2>5. CASE late' # 2
    BY <2>1, <2>2, <2>3, <2>5, Numbers, StaleAck
  <2> QED
    BY <2>4, <2>5
<1>3. CASE Receive
  <2>1. topic \in Topics /\ UNCHANGED <<todo, reader, late>> /\ Held' + 1 = Held
    BY <1>3, Numbers DEF Receive, Started, Held
  <2>2. UNCHANGED conn \/ conn' = Append(conn, Packet("UNSUBACK", topic))
    BY <1>3 DEF Receive
  <2>3. pc = "wait" /\ pc' \in {"idle", "unsubscribe", "wait"}
    BY <1>3 DEF Receive
  <2>4. Held' \in 0..2
    BY DEF Held
  <2> QED
    BY <2>1, <2>2, <2>3, <2>4, Numbers, StaleAck
<1> QED
  BY <1>1, <1>2, <1>3

(* The first packet leaves the connection: those behind it move up.           *)
LEMMA TailMoves ==
    ASSUME NEW packets \in Seq(Packets), packets # <<>>
    PROVE  /\ Tail(packets) \in Seq(Packets) /\ Len(Tail(packets)) + 1 = Len(packets)
           /\ Count(Tail(packets), Len(Tail(packets)) + 1)
                 = Count(packets, Len(packets) + 1)
                      - IF Head(packets).type = "PUBLISH" THEN 1 ELSE 0
           /\ \A k \in DOMAIN packets : k # 1 =>
                 /\ k - 1 \in DOMAIN Tail(packets) /\ Tail(packets)[k - 1] = packets[k]
                 /\ Count(Tail(packets), k - 1)
                       = Count(packets, k) - IF Head(packets).type = "PUBLISH" THEN 1 ELSE 0
<1>1. /\ Len(packets) \in Nat /\ Len(packets) >= 1 /\ DOMAIN packets = 1..Len(packets)
      /\ Tail(packets) \in Seq(Packets) /\ Len(Tail(packets)) = Len(packets) - 1
      /\ DOMAIN Tail(packets) = 1..(Len(packets) - 1)
      /\ \A k \in DOMAIN packets : k # 1 =>
            k - 1 \in DOMAIN Tail(packets) /\ Tail(packets)[k - 1] = packets[k]
  OBVIOUS
<1>2. Count(Tail(packets), (Len(packets) + 1) - 1)
         = Count(packets, Len(packets) + 1) - IF Head(packets).type = "PUBLISH" THEN 1 ELSE 0
  BY <1>1, CountTail
<1>3. \A k \in DOMAIN packets : k # 1 =>
         Count(Tail(packets), k - 1)
            = Count(packets, k) - IF Head(packets).type = "PUBLISH" THEN 1 ELSE 0
  BY <1>1, CountTail
<1> QED
  BY <1>1, <1>2, <1>3

(* An acknowledgement is read.  When the request is published, what is on its *)
(* way before its PUBACK are late answers.                                    *)
LEMMA StaleReadAck == ASSUME IInv, IInv', Started, StaleInv, ReadAck PROVE StaleInv'
<1> USE DEF IInv
<1> DEFINE rest == Tail(conn)
<1>1. /\ reader = None /\ Head(conn).type # "PUBLISH" /\ conn \in Seq(Packets) /\ conn # <<>>
      /\ UNCHANGED <<topic, late>> /\ Held' = Held
  BY DEF ReadAck, TypeOK, clientVars, Held
<1>2. /\ rest \in Seq(Packets) /\ Len(rest) \in Nat /\ Count(rest, Len(rest) + 1) \in Nat
      /\ Count(rest, Len(rest) + 1) = Count(conn, Len(conn) + 1)
      /\ \A k \in DOMAIN conn : k # 1 =>
            k - 1 \in DOMAIN rest /\ rest[k - 1] = conn[k] /\ Count(rest, k - 1) = Count(conn, k)
  BY <1>1, TailMoves, CountIs
<1> HIDE DEF rest
<1>3. CASE /\ pc = "subscribe" /\ pc' = "publish" /\ todo' = Append(todo, topic)
           /\ conn' = Append(rest, Packet("PUBACK", topic))
  <2> DEFINE p == Packet("PUBACK", topic)
  <2>1. p \in Packets /\ p.type = "PUBACK" /\ p.topic = topic /\ conn' = Append(rest, p)
    BY <1>3, PacketType DEF Started
  <2> HIDE DEF p
  <2>2. /\ Count(conn', Len(conn') + 1) = Count(rest, Len(rest) + 1)
        /\ Count(conn', Len(rest) + 1) = Count(rest, Len(rest) + 1)
    <3>1. Len(rest) + 1 \in 1..(Len(rest) + 1)
      BY <1>2
    <3> QED
      BY <1>2, <2>1, <3>1, CountAppend
  <2>3. Len(todo') = Len(todo) + 1
    BY <1>3, Numbers
  <2>4. late <= 1 => Count(conn, Len(conn) + 1) + Len(todo) + Held <= late
    BY <1>3, Numbers DEF StaleInv, AllAnswers
  <2>5. late' <= 1 => AllAnswers'
    BY <1>1, <1>2, <1>3, <2>2, <2>3, <2>4, Numbers DEF AllAnswers
  <2>6. /\ Len(rest) + 1 \in DOMAIN conn' /\ conn'[Len(rest) + 1].type = "PUBACK"
        /\ conn'[Len(rest) + 1].topic = topic'
    BY <1>1, <1>2, <2>1
  <2>7. late' <= 1 => Count(conn', Len(rest) + 1) + Held' <= late'
    BY <1>1, <1>2, <2>2, <2>4, Numbers
  <2> QED
    BY <2>5, <2>6, <2>7 DEF StaleInv, EarlyAnswers
<1>4. CASE /\ todo' = todo /\ conn' = rest
           /\ \/ pc' = pc /\ ~(/\ pc = "publish" /\ Head(conn).type = "PUBACK"
                               /\ Head(conn).topic = topic)
              \/ pc = "publish" /\ pc' = "wait"
              \/ pc = "unsubscribe" /\ pc' = "idle"
  <2>1. late' <= 1 => AllAnswers'
    BY <1>1, <1>2, <1>4 DEF StaleInv, AllAnswers
  <2>2. ASSUME late' <= 1, pc' = "publish"
        PROVE  \E k \in DOMAIN conn' : /\ conn'[k].type = "PUBACK" /\ conn'[k].topic = topic'
                                       /\ Count(conn', k) + Held' <= late'
    <3>1. PICK k \in DOMAIN conn : /\ conn[k].type = "PUBACK" /\ conn[k].topic = topic
                                   /\ Count(conn, k) + Held <= late
      BY <1>1, <1>4, <2>2 DEF StaleInv, EarlyAnswers
    <3>2. k # 1
      BY <1>1, <1>4, <2>2, <3>1
    <3> QED
      BY <1>1, <1>2, <1>4, <3>1, <3>2
  <2> QED
    BY <2>1, <2>2 DEF StaleInv, EarlyAnswers
<1> QED
  BY <1>3, <1>4 DEF ReadAck, rest

(* A message goes from the connection to the reader ... *)
LEMMA StaleReadMessage == ASSUME IInv, IInv', Started, StaleInv, ReadMessage PROVE StaleInv'
<1> USE DEF IInv
<1> DEFINE rest == Tail(conn)
<1>1. /\ reader = None /\ Head(conn).type = "PUBLISH" /\ conn \in Seq(Packets) /\ conn # <<>>
      /\ UNCHANGED <<pc, topic, todo, late>> /\ conn' = rest
  BY DEF ReadMessage, TypeOK
<1>2. Held' = Held + 1
  <2>1. reader' # None
    <3>1. Head(conn) \in Packets
      BY <1>1
    <3> QED
      BY <3>1, MqttAssumption DEF ReadMessage, Packets, Topics
  <2> QED
    BY <1>1, <2>1 DEF ReadMessage, Held
<1>3. /\ Count(rest, Len(rest) + 1) = Count(conn, Len(conn) + 1) - 1
      /\ \A k \in DOMAIN conn : k # 1 =>
          k - 1 \in DOMAIN rest /\ rest[k - 1] = conn[k] /\ Count(rest, k - 1) = Count(conn, k) - 1
  BY <1>1, TailMoves
<1> HIDE DEF rest
<1>4. late' <= 1 => AllAnswers'
  BY <1>1, <1>2, <1>3, Numbers DEF StaleInv, AllAnswers
<1>5. ASSUME late' <= 1, pc' = "publish"
      PROVE  \E k \in DOMAIN conn' : /\ conn'[k].type = "PUBACK" /\ conn'[k].topic = topic'
                                     /\ Count(conn', k) + Held' <= late'
  <2>1. PICK k \in DOMAIN conn : /\ conn[k].type = "PUBACK" /\ conn[k].topic = topic
                                 /\ Count(conn, k) + Held <= late
    BY <1>1, <1>5 DEF StaleInv, EarlyAnswers
  <2>2. k # 1
    BY <1>1, <2>1
  <2>3. Count(conn, k) \in Nat /\ Held \in 0..2
    BY <1>1, CountIs, Numbers
  <2>4. Count(rest, k - 1) + Held' <= late'
    BY <1>1, <1>2, <1>3, <2>1, <2>2, <2>3
  <2> QED
    BY <1>1, <1>3, <2>1, <2>2, <2>4
<1> QED
  BY <1>4, <1>5 DEF StaleInv, EarlyAnswers

(* ... and on to MessageHandler. *)
LEMMA StaleHandler == ASSUME StaleInv, MessageHandler PROVE StaleInv'
<1>1. UNCHANGED <<pc, topic, todo, conn, late>> /\ Held' = Held
  BY DEF MessageHandler, Held
<1> QED
  BY <1>1 DEF StaleInv, AllAnswers, EarlyAnswers

(* An answer joins the packets, behind the PUBACK of the request that waits   *)
(* for it; it was among those to come, or is one late answer more.            *)
LEMMA StaleDevice == ASSUME IInv, IInv', StaleInv, DeviceAnswers \/ DeviceRepeats PROVE StaleInv'
<1> USE DEF IInv
<1>1. /\ UNCHANGED <<pc, topic, reader, handler>> /\ Held' = Held
      /\ \E t \in Topics : UNCHANGED conn \/ conn' = Append(conn, Packet("PUBLISH", t))
  <2>1. todo # <<>> => Head(todo) \in Topics
    BY DEF TypeOK
  <2>2. executed \subseteq Topics
    BY DEF TypeOK
  <2> QED
    BY <2>1, <2>2 DEF DeviceAnswers, DeviceRepeats, Deliver, clientVars, Held
<1>2. /\ Len(todo') + late <= Len(todo) + late' - 1 \/ late' = 2
      /\ late' >= late
  <2>1. CASE DeviceAnswers
    BY <2>1, Numbers DEF DeviceAnswers
  <2>2. CASE DeviceRepeats
    BY <2>2, Numbers DEF DeviceRepeats, Late
  <2> QED
    BY <2>1, <2>2
<1>3. /\ Count(conn', Len(conn') + 1) <= Count(conn, Len(conn) + 1) + 1
      /\ \A k \in DOMAIN conn : k \in DOMAIN conn' /\ conn'[k] = conn[k] /\ Count(conn', k) = Count(conn, k)
  <2>1. CASE UNCHANGED conn
    BY <2>1, Numbers
  <2>2. ASSUME NEW t \in Topics, conn' = Append(conn, Packet("PUBLISH", t))
        PROVE  /\ Count(conn', Len(conn') + 1) <= Count(conn, Len(conn) + 1) + 1
               /\ \A k \in DOMAIN conn :
                     k \in DOMAIN conn' /\ conn'[k] = conn[k] /\ Count(conn', k) = Count(conn, k)
    <3>1. Packet("PUBLISH", t) \in Packets /\ conn \in Seq(Packets)
      BY PacketType DEF TypeOK
    <3>2. /\ Count(conn', Len(conn') + 1) <= Count(conn, Len(conn) + 1) + 1
          /\ \A k \in 1..(Len(conn) + 1) : Count(conn', k) = Count(conn, k)
      BY <2>2, <3>1, Numbers, CountAppend
    <3>3. \A k \in DOMAIN conn : k \in 1..(Len(conn) + 1) /\ k \in DOMAIN conn' /\ conn'[k] = conn[k]
      BY <2>2, <3>1
    <3> QED
      BY <3>2, <3>3
  <2> QED
    BY <1>1, <2>1, <2>2
<1>4. /\ Count(conn', Len(conn') + 1) \in Nat /\ Len(todo') \in Nat /\ late' \in 0..2
  BY CountIs DEF TypeOK
<1>5. late' <= 1 => AllAnswers'
  <2> DEFINE own == IF pc \in {"publish", "wait"} THEN 1 ELSE 0
  <2>1. late' <= 1 => Count(conn, Len(conn) + 1) + Len(todo) + Held <= late + own
    BY <1>2, <1>4, Numbers DEF StaleInv, AllAnswers
  <2>2. own \in Nat
    OBVIOUS
  <2> HIDE DEF own
  <2> DEFINE a == Count(conn', Len(conn') + 1)
             b == Count(conn, Len(conn) + 1)
             k == Len(todo')
             l == Len(todo)
             m == late
             n == late'
  <2>3. a \in Nat /\ b \in Nat /\ k \in Nat /\ l \in Nat /\ Held \in Nat /\ m \in Nat /\ n \in Nat
    BY <1>4, Numbers
  <2>4. n <= 1 => a <= b + 1 /\ k + m <= l + n - 1 /\ b + l + Held <= m + own
    BY <1>2, <1>3, <2>1
  <2> HIDE DEF a, b, k, l, m, n
  <2>5. n <= 1 => a + k + Held <= n + own
    BY <2>2, <2>3, <2>4
  <2>6. late' <= 1 => Count(conn', Len(conn') + 1) + Len(todo') + Held' <= late' + own
    BY <1>1, <2>5 DEF a, k, n
  <2> QED
    BY <1>1, <2>6 DEF AllAnswers, own
<1>6. late' <= 1 => EarlyAnswers'
  <2>1. SUFFICES ASSUME late' <= 1, pc = "publish"
        PROVE  \E k \in DOMAIN conn' : /\ conn'[k].type = "PUBACK" /\ conn'[k].topic = topic'
                                       /\ Count(conn', k) + Held' <= late'
    BY <1>1 DEF EarlyAnswers
  <2>2. PICK k \in DOMAIN conn : /\ conn[k].type = "PUBACK" /\ conn[k].topic = topic
                                 /\ Count(conn, k) + Held <= late
    BY <1>2, <1>4, <2>1, Numbers DEF StaleInv, EarlyAnswers
  <2>3. Count(conn, k) + Held <= late'
    BY <1>2, <1>4, <2>2, Numbers, CountIs
  <2> QED
    BY <1>1, <1>3, <2>2, <2>3
<1> QED
  BY <1>5, <1>6 DEF StaleInv

LEMMA StaleStep == IInv /\ IInv' /\ Started /\ StaleInv /\ [Next]_vars => StaleInv'
<1>1. StaleInv /\ UNCHANGED vars => StaleInv'
  BY DEF vars, StaleInv, AllAnswers, EarlyAnswers, Held
<1> QED
  BY <1>1, StaleRequest, StaleReadAck, StaleReadMessage, StaleHandler, StaleDevice DEF Next

(* nextgengw.go, MessageHandler: it takes two late answers to fill the        *)
(* client.  With one, whatever its moment, there is room for it, for the      *)
(* answer to the current request comes after that request's PUBACK, and by    *)
(* then somebody reads ch.                                                    *)
THEOREM OneLateFits == Spec => []OneLateIsHarmless
<1>1. IInv /\ StaleInv => OneLateIsHarmless
  <2> SUFFICES ASSUME IInv, StaleInv, late <= 1, Wedged PROVE FALSE
    BY DEF OneLateIsHarmless
  <2>1. Held = 2 /\ pc # "wait" /\ late \in 0..2
    BY DEF Wedged, Held, IInv, TypeOK
  <2>2. CASE pc = "publish"
    <3>1. PICK k \in DOMAIN conn : Count(conn, k) + Held <= late
      BY <2>2 DEF StaleInv, EarlyAnswers
    <3>2. Count(conn, k) \in Nat
      BY CountIs DEF IInv, TypeOK
    <3> QED
      BY <2>1, <3>1, <3>2
  <2>3. CASE pc # "publish"
    BY <2>1, <2>3, Numbers DEF IInv, StaleInv, AllAnswers
  <2> QED
    BY <2>2, <2>3
<1>2. Init => StaleInv
  <2> SUFFICES ASSUME Init PROVE StaleInv
    OBVIOUS
  <2>1. conn = <<>> /\ todo = <<>> /\ Held = 0 /\ late = 0 /\ pc = "idle"
    BY DEF Init, Held
  <2>2. Before(conn, Len(conn) + 1) = {}
    BY <2>1 DEF Before
  <2>3. Count(conn, Len(conn) + 1) = 0 /\ Len(todo) = 0
    BY <2>1, <2>2, FS_EmptySet DEF Count
  <2> QED
    BY <2>1, <2>3 DEF StaleInv, AllAnswers, EarlyAnswers
<1> QED
  BY <1>1, <1>2, StaleStep, Inductive, PTL DEF Spec
=============================================================================
