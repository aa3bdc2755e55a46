---------------------------- MODULE MqttRequests ----------------------------
(***************************************************************************)
(* One request to the gateway after another, as the functions of           *)
(* providers/fhpAicos/protocol/nextgengw/nextgengw.go make them: subscribe *)
(* to a fresh response topic, publish the request, take messages from the  *)
(* channel ch until the answer is there or TIMEOUT has passed, and - in    *)
(* some of the functions - unsubscribe.                                    *)
(*                                                                         *)
(* External: the broker, the device behind it, and the MQTT client.  The   *)
(* client has one goroutine that reads packets from the connection and one *)
(* that calls MessageHandler; each holds one message at most, and the      *)
(* reader reads nothing while it holds one.  The client gives up waiting   *)
(* for the broker's acknowledgement of a packet after a while.             *)
(***************************************************************************)
EXTENDS Naturals, Sequences, FiniteSets

CONSTANTS
    Ops,           \* the kinds of request
    Tidy,          \* those that unsubscribe after an answer
    MaxRequests,   \* bound: requests made
    MaxRepeats,    \* bound: answers delivered once more (QoS 1)
    None

ASSUME MqttAssumption == /\ Tidy \subseteq Ops
                         /\ MaxRequests \in Nat /\ MaxRepeats \in Nat
                         /\ None \notin Nat \cup {"ok", "err"}

VARIABLES
    pc,        \* where the current request is
    op,        \* its kind
    topic,     \* its response topic: requests are numbered
    result,    \* result[t]: "ok" or "err" once request t has returned
    subs,      \* topics subscribed at the broker
    todo,      \* requests the device has still to carry out
    executed,  \* requests the device has carried out
    conn,      \* packets on their way from the broker to the client
    reader,    \* the message the reading goroutine holds, or None
    handler,   \* the message MessageHandler waits to put on ch, or None
    repeats,   \* repeated answers so far
    late       \* what can leave an answer nobody waits for: expired waits and
               \* repeated answers so far; 2 stands for two or more

vars == <<pc, op, topic, result, subs, todo, executed, conn, reader, handler, repeats, late>>
clientVars == <<reader, handler, repeats>>

Topics == 1..MaxRequests
Packets == [type : {"SUBACK", "PUBACK", "UNSUBACK", "PUBLISH"}, topic : Topics]
Pcs == {"idle", "subscribe", "publish", "wait", "unsubscribe"}

TypeOK == /\ pc \in Pcs
          /\ op \in Ops \cup {None}
          /\ topic \in 0..MaxRequests
          /\ result \in [Topics -> {"ok", "err", None}]
          /\ subs \subseteq Topics /\ executed \subseteq Topics
          /\ todo \in Seq(Topics) /\ conn \in Seq(Packets)
          /\ reader \in Topics \cup {None} /\ handler \in Topics \cup {None}
          /\ repeats \in 0..MaxRepeats /\ late \in 0..2

Init == /\ pc = "idle" /\ op = None /\ topic = 0
        /\ result = [t \in Topics |-> None]
        /\ subs = {} /\ todo = <<>> /\ executed = {} /\ conn = <<>>
        /\ reader = None /\ handler = None
        /\ repeats = 0 /\ late = 0

Packet(type, t) == [type |-> type, topic |-> t]
Late == late' = IF late = 2 THEN 2 ELSE late + 1

-----------------------------------------------------------------------------
(* The request. *)

Finish(r) == result' = [result EXCEPT ![topic] = r]

(* The SUBSCRIBE packet reaches the broker, which acknowledges it. *)
Subscribe(o) ==
    /\ pc = "idle" /\ topic < MaxRequests
    /\ topic' = topic + 1
    /\ op' = o
    /\ pc' = "subscribe"
    /\ subs' = subs \cup {topic'}
    /\ conn' = Append(conn, Packet("SUBACK", topic'))
    /\ UNCHANGED <<result, todo, executed, clientVars, late>>

(* Subscribe returned an error: so does the request, and unsubscribes nothing. *)
SubscribeFails ==
    /\ pc = "subscribe" /\ Late
    /\ pc' = "idle"
    /\ Finish("err")
    /\ UNCHANGED <<op, topic, subs, todo, executed, conn, clientVars>>

PublishFails ==
    /\ pc = "publish" /\ Late
    /\ pc' = "unsubscribe"
    /\ Finish("err")
    /\ subs' = subs \ {topic}
    /\ conn' = Append(conn, Packet("UNSUBACK", topic))
    /\ UNCHANGED <<op, topic, todo, executed, clientVars>>

(* Mutant: any message is the answer. *)
ReceiveAny ==
    /\ pc = "wait" /\ handler # None
    /\ handler' = None
    /\ Finish("ok")
    /\ pc' = "idle"
    /\ UNCHANGED <<op, topic, subs, todo, executed, conn, reader, repeats, late>>

(* case data := <-ch: a message of another topic is thrown away. *)
Receive ==
    /\ pc = "wait" /\ handler # None
    /\ handler' = None
    /\ IF handler = topic
       THEN /\ Finish("ok")
            /\ IF op \in Tidy
               THEN /\ pc' = "unsubscribe"
                    /\ subs' = subs \ {topic}
                    /\ conn' = Append(conn, Packet("UNSUBACK", topic))
               ELSE pc' = "idle" /\ UNCHANGED <<subs, conn>>
       ELSE UNCHANGED <<pc, result, subs, conn>>
    /\ UNCHANGED <<op, topic, todo, executed, reader, repeats, late>>

(* Mutant: the wait for the answer has no limit. *)
NoTimeout == FALSE

(* case <-time.After(timeout) *)
Timeout ==
    /\ pc = "wait" /\ Late
    /\ pc' = "unsubscribe"
    /\ Finish("err")
    /\ subs' = subs \ {topic}
    /\ conn' = Append(conn, Packet("UNSUBACK", topic))
    /\ UNCHANGED <<op, topic, todo, executed, clientVars>>

(* The error of Unsubscribe is ignored. *)
UnsubscribeFails ==
    /\ pc = "unsubscribe"
    /\ pc' = "idle"
    /\ Late
    /\ UNCHANGED <<op, topic, result, subs, todo, executed, conn, clientVars>>

-----------------------------------------------------------------------------
(* The MQTT client (external) and MessageHandler. *)

(* Mutant: the request is published twice. *)
PublishTwice ==
    /\ reader = None /\ conn # <<>> /\ Head(conn).type # "PUBLISH"
    /\ LET mine == Head(conn).topic = topic
       IN  CASE mine /\ Head(conn).type = "SUBACK" /\ pc = "subscribe" ->
                  /\ pc' = "publish"
                  /\ todo' = todo \o <<topic, topic>>
                  /\ conn' = Append(Tail(conn), Packet("PUBACK", topic))
             [] mine /\ Head(conn).type = "PUBACK" /\ pc = "publish" ->
                  pc' = "wait" /\ conn' = Tail(conn) /\ UNCHANGED todo
             [] mine /\ Head(conn).type = "UNSUBACK" /\ pc = "unsubscribe" ->
                  pc' = "idle" /\ conn' = Tail(conn) /\ UNCHANGED todo
             [] OTHER -> conn' = Tail(conn) /\ UNCHANGED <<pc, todo>>
    /\ UNCHANGED <<op, topic, result, subs, executed, clientVars, late>>

(* An acknowledgement the request waits for lets it go on; with SUBACK the    *)
(* PUBLISH packet goes out.                                                   *)
ReadAck ==
    /\ reader = None /\ conn # <<>> /\ Head(conn).type # "PUBLISH"
    /\ LET mine == Head(conn).topic = topic
       IN  CASE mine /\ Head(conn).type = "SUBACK" /\ pc = "subscribe" ->
                  /\ pc' = "publish"
                  /\ todo' = Append(todo, topic)
                  /\ conn' = Append(Tail(conn), Packet("PUBACK", topic))
             [] mine /\ Head(conn).type = "PUBACK" /\ pc = "publish" ->
                  pc' = "wait" /\ conn' = Tail(conn) /\ UNCHANGED todo
             [] mine /\ Head(conn).type = "UNSUBACK" /\ pc = "unsubscribe" ->
                  pc' = "idle" /\ conn' = Tail(conn) /\ UNCHANGED todo
             [] OTHER -> conn' = Tail(conn) /\ UNCHANGED <<pc, todo>>
    /\ UNCHANGED <<op, topic, result, subs, executed, clientVars, late>>

ReadMessage ==
    /\ reader = None /\ conn # <<>> /\ Head(conn).type = "PUBLISH"
    /\ reader' = Head(conn).topic
    /\ conn' = Tail(conn)
    /\ UNCHANGED <<pc, op, topic, result, subs, todo, executed, handler, repeats, late>>

(* Mutant: a message nobody took is dropped when the next one comes. *)
HandlerDropsOld ==
    /\ reader # None
    /\ handler' = reader
    /\ reader' = None
    /\ UNCHANGED <<pc, op, topic, result, subs, todo, executed, conn, repeats, late>>

(* MessageHandler is called, and waits for someone to take from ch. *)
MessageHandler ==
    /\ reader # None /\ handler = None
    /\ handler' = reader
    /\ reader' = None
    /\ UNCHANGED <<pc, op, topic, result, subs, todo, executed, conn, repeats, late>>

-----------------------------------------------------------------------------
(* The device (external). *)

Deliver(t) == conn' = IF t \in subs THEN Append(conn, Packet("PUBLISH", t)) ELSE conn

(* The device carries out a request and answers it; the answer may get lost. *)
DeviceAnswers ==
    /\ todo # <<>>
    /\ todo' = Tail(todo)
    /\ executed' = executed \cup {Head(todo)}
    /\ Deliver(Head(todo)) \/ UNCHANGED conn
    /\ UNCHANGED <<pc, op, topic, result, subs, clientVars, late>>

(* An answer is delivered again: QoS 1 promises at least once. *)
DeviceRepeats ==
    /\ repeats < MaxRepeats
    /\ repeats' = repeats + 1
    /\ \E t \in executed \cap subs : Deliver(t)
    /\ Late
    /\ UNCHANGED <<pc, op, topic, result, subs, todo, executed, reader, handler>>

Next == \/ \E o \in Ops : Subscribe(o)
        \/ SubscribeFails \/ PublishFails \/ Receive \/ Timeout \/ UnsubscribeFails
        \/ ReadAck \/ ReadMessage \/ MessageHandler
        \/ DeviceAnswers \/ DeviceRepeats

Spec == Init /\ [][Next]_vars

(* Fairness: the client's goroutines run, the request takes what is on ch, and *)
(* the time limits of the client and of the select statement do expire.        *)
Fairness == /\ WF_vars(SubscribeFails) /\ WF_vars(PublishFails)
            /\ WF_vars(Timeout) /\ WF_vars(UnsubscribeFails)

FairSpec == Spec /\ Fairness

-----------------------------------------------------------------------------
(* Properties. *)

(* A request that returns no error was carried out: the answer it took is     *)
(* its own, not one that an earlier request gave up waiting for.              *)
OkWasExecuted == \A t \in Topics : result[t] = "ok" => t \in executed

(* Two messages that nobody takes fill the client: nothing is read from the   *)
(* connection any more.  Only a request that waits on ch could take them.     *)
Wedged == reader # None /\ handler # None /\ pc # "wait"

(* One expired wait or one repeated answer does not fill the client, whatever *)
(* its moment: the next request still gets through.                           *)
OneLateIsHarmless == late <= 1 => ~Wedged

(* With two, the client may fill up - and then no request gets through again: *)
(* ch is only read between Publish and the answer, and Publish needs an       *)
(* acknowledgement that can no longer be read.                                *)
WedgedForGood == [][Wedged => Wedged']_vars

(* Every request returns, answered or not, even when the client is full and   *)
(* while answers of other requests keep coming.                               *)
RequestsReturn == pc # "idle" ~> pc = "idle"
=============================================================================
