------------------------ MODULE RemoteCommandProofs -------------------------
(***************************************************************************)
(* Proofs about RemoteCommand, for any forms, protocols and number of      *)
(* streams: what createStreams returns is complete, the replies to all its *)
(* streams are out, and no goroutine waits for it any more.                *)
(***************************************************************************)
EXTENDS RemoteCommand, SequenceTheorems, FiniteSetTheorems, FunctionTheorems, TLAPS

Pcs == {"options", "rejected", "failed", "wait", "run", "served", "panicked"}
Streams == [type : Types \cup {"other"}, reply : BOOLEAN,
            waiter : {"unread", "select", "notify", "done", "none"}]

TypeOK == /\ form \in Forms /\ protocol \in Protocols /\ pc \in Pcs
          /\ streams \in Seq(Streams)
          /\ ctx \in [Types -> DOMAIN streams \cup {Channel, Ignored, None}]
          /\ received \in Nat
          /\ resize \in {"none", "decode", "send", "done"} /\ sizes \in 0..MaxSizes
          /\ status \in {"unwritten", "nothing", "text", "json"}

-----------------------------------------------------------------------------
(* The inductive invariant. *)

Returned == pc \in {"run", "served", "panicked"}

(* A WebSocket has no streams to wait for, and its channels are there.        *)
ChannelsInv == protocol \in WebSockets =>
    /\ streams = <<>> /\ pc \in {"options", "rejected", "run", "served", "panicked"}
    /\ Returned => ctx = Channels

(* The context knows a stream for each type that was taken, and by its type.  *)
TakenInv == /\ \A t \in Types : ctx[t] \in DOMAIN streams => streams[ctx[t]].type = t
            /\ \A s \in DOMAIN streams : streams[s].waiter \in {"select", "notify", "done"} =>
                   /\ streams[s].type \in Types /\ ctx[streams[s].type] # None
            /\ pc = "options" => streams = <<>> /\ received = 0

(* Only a stream with a reply notifies; as long as waitForStreams waits, only *)
(* such a one is done, and receivedStreams counts them.                       *)
Counted == {s \in DOMAIN streams : streams[s].waiter = "done"}
CountInv == /\ \A s \in DOMAIN streams : streams[s].waiter = "notify" => streams[s].reply
            /\ pc \in {"options", "wait"} =>
                  /\ \A s \in Counted : streams[s].reply
                  /\ received = Cardinality(Counted) /\ received < expectedStreams

(* Streams that are done and have their replies, of each type there is to be. *)
Complete == \A t \in Wanted : \E s \in Counted : streams[s].type = t /\ streams[s].reply
CompleteInv == protocol \notin WebSockets /\ Returned /\ KeepsToProtocol => Complete

IInv == TypeOK /\ ChannelsInv /\ TakenInv /\ CountInv /\ CompleteInv

-----------------------------------------------------------------------------
(* What the request asks for. *)

(* As many streams are expected as there are types of them.                   *)
LEMMA Expected ==
    ASSUME form \in Forms
    PROVE  /\ Wanted \subseteq Types /\ IsFiniteSet(Wanted)
           /\ Cardinality(Wanted) = expectedStreams
           /\ expectedStreams \in Nat /\ expectedStreams >= 1
<1> DEFINE resizes == form.tty /\ "resize" \in handler.types
<1>1. Options \subseteq Asked /\ IsFiniteSet(Asked)
  <2>1. IsFiniteSet({"stdin"}) /\ IsFiniteSet({"stdin"} \cup {"stdout"})
    BY FS_Singleton, FS_AddElement
  <2>2. IsFiniteSet(({"stdin"} \cup {"stdout"}) \cup {"stderr"})
    BY <2>1, FS_AddElement
  <2>3. ({"stdin"} \cup {"stdout"}) \cup {"stderr"} = Asked
    BY DEF Asked
  <2> QED
    BY <2>2, <2>3 DEF Options
<1>2. IsFiniteSet(Options) /\ Cardinality(Options) \in Nat
  BY <1>1, FS_Subset, FS_CardinalityType
<1>3. "error" \notin Options /\ "resize" \notin Options \cup {"error"}
  BY <1>1 DEF Asked
<1>4. IsFiniteSet(Options \cup {"error"}) /\ Cardinality(Options \cup {"error"}) = Cardinality(Options) + 1
  BY <1>2, <1>3, FS_AddElement
<1>5. /\ IsFiniteSet((Options \cup {"error"}) \cup {"resize"})
      /\ Cardinality((Options \cup {"error"}) \cup {"resize"}) = Cardinality(Options) + 2
  BY <1>2, <1>3, <1>4, FS_AddElement
<1>6. Wanted = IF resizes THEN (Options \cup {"error"}) \cup {"resize"} ELSE Options \cup {"error"}
  BY DEF Wanted
<1>7. expectedStreams = IF resizes THEN Cardinality(Options) + 2 ELSE Cardinality(Options) + 1
  BY <1>2 DEF expectedStreams
<1> HIDE DEF resizes
<1> QED
  BY <1>1, <1>2, <1>4, <1>5, <1>6, <1>7 DEF Types, Asked

(* It stays what it is. *)
LEMMA SameRequest ==
    ASSUME UNCHANGED <<form, protocol>>
    PROVE  Wanted' = Wanted /\ expectedStreams' = expectedStreams /\ Channels' = Channels
<1>1. Options' = Options
  BY DEF Options
<1>2. handler' = handler
  BY DEF handler
<1> QED
  BY <1>1, <1>2 DEF Wanted, expectedStreams, Channels

LEMMA CountedIs ==
    ASSUME TypeOK
    PROVE  /\ DOMAIN streams = 1..Len(streams) /\ Len(streams) \in Nat
           /\ IsFiniteSet(Counted) /\ Cardinality(Counted) \in Nat
           /\ \A s \in DOMAIN streams : streams[s] \in Streams /\ s \in Nat
<1>1. DOMAIN streams = 1..Len(streams) /\ Len(streams) \in Nat
  BY DEF TypeOK
<1>2. IsFiniteSet(1..Len(streams))
  BY <1>1, FS_Interval
<1>3. Counted \subseteq 1..Len(streams)
  BY <1>1 DEF Counted
<1>4. IsFiniteSet(Counted) /\ Cardinality(Counted) \in Nat
  BY <1>2, <1>3, FS_Subset, FS_CardinalityType
<1>5. \A s \in DOMAIN streams : streams[s] \in Streams /\ s \in Nat
  BY <1>1 DEF TypeOK
<1> QED
  BY <1>1, <1>4, <1>5

LEMMA InitInv == Init => IInv
<1> SUFFICES ASSUME Init PROVE IInv
  OBVIOUS
<1>1. streams = <<>> /\ DOMAIN streams = {} /\ streams \in Seq(Streams)
  BY DEF Init
<1>2. TypeOK
  BY <1>1, RemoteCommandAssumption DEF Init, TypeOK, Pcs
<1>3. ChannelsInv /\ TakenInv /\ CompleteInv
  BY <1>1 DEF Init, ChannelsInv, TakenInv, CompleteInv, Returned
<1>4. CountInv
  <2>1. Counted = {}
    BY <1>1 DEF Counted
  <2>2. received = Cardinality(Counted) /\ received < expectedStreams
    BY <1>2, <2>1, Expected, FS_EmptySet DEF Init, TypeOK
  <2> QED
    BY <1>1, <2>1, <2>2 DEF CountInv
<1> QED
  BY <1>2, <1>3, <1>4 DEF IInv

-----------------------------------------------------------------------------
(* The server's steps that leave the streams alone. *)

(* With streams and context unchanged, what is to be shown is what pc' needs. *)
LEMMA StreamsStay ==
    ASSUME IInv, TypeOK', UNCHANGED <<form, protocol, streams, ctx, received>>,
           pc' = "options" => pc = "options", pc' = "wait" => pc \in {"options", "wait"},
           ChannelsInv', Returned' => Returned \/ protocol \in WebSockets
    PROVE  IInv'
<1> USE DEF IInv
<1>1. Wanted' = Wanted /\ expectedStreams' = expectedStreams /\ Counted' = Counted
  BY SameRequest DEF Counted
<1>2. TakenInv'
  BY DEF TakenInv
<1>3. CountInv'
  BY <1>1 DEF CountInv
<1>4. CompleteInv'
  BY <1>1 DEF CompleteInv, Complete, KeepsToProtocol, Returned
<1> QED
  BY <1>2, <1>3, <1>4

LEMMA CreateStep == ASSUME IInv, createHTTPStreamStreams PROVE IInv'
<1> USE DEF IInv, createHTTPStreamStreams
<1>1. TypeOK'
  BY DEF TypeOK, Pcs
<1>2. ChannelsInv'
  BY DEF ChannelsInv
<1> QED
  BY <1>1, <1>2, StreamsStay DEF Returned

LEMMA WebSocketStep == ASSUME IInv, createWebSocketStreams PROVE IInv'
<1> USE DEF IInv, createWebSocketStreams
<1>1. streams' = <<>> /\ DOMAIN streams' = {} /\ UNCHANGED <<form, protocol, streams, received>>
  BY DEF ChannelsInv
<1>2. Channels' = Channels
  BY SameRequest
<1>3. TypeOK'
  <2>1. Channels \in [Types -> DOMAIN streams \cup {Channel, Ignored, None}]
    BY DEF Channels
  <2>2. pc' \in Pcs /\ ctx' \in [Types -> DOMAIN streams' \cup {Channel, Ignored, None}]
    BY <2>1 DEF TypeOK, Pcs
  <2>3. resize' \in {"none", "decode", "send", "done"}
    BY DEF TypeOK, StartResize
  <2> QED
    BY <2>2, <2>3 DEF TypeOK
<1>4. ChannelsInv'
  BY <1>1, <1>2 DEF ChannelsInv, Returned
<1>5. TakenInv' /\ CountInv' /\ CompleteInv'
  BY <1>1 DEF TakenInv, CountInv, Counted, CompleteInv
<1> QED
  BY <1>3, <1>4, <1>5

LEMMA QuietStep == ASSUME IInv, Expire \/ Size \/ SizeTaken \/ SizesEnd PROVE IInv'
<1> USE DEF IInv, Expire, Size, SizeTaken, SizesEnd
<1>1. TypeOK'
  BY RemoteCommandAssumption DEF TypeOK, Pcs
<1>2. ChannelsInv'
  <2>1. Channels' = Channels
    BY SameRequest
  <2> QED
    BY <2>1 DEF ChannelsInv, Returned
<1> QED
  BY <1>1, <1>2, StreamsStay DEF Returned

LEMMA ServeStep == ASSUME IInv, Serve PROVE IInv'
<1> USE DEF IInv, Serve
<1>1. TypeOK'
  <2>1. \A success \in BOOLEAN : Written(success) \in {"nothing", "text", "json"}
    BY DEF Written, handler, v1ProtocolHandler, v2ProtocolHandler, v3ProtocolHandler,
           v4ProtocolHandler, v5ProtocolHandler, Handler
  <2> QED
    BY <2>1 DEF TypeOK, Pcs
<1>2. ChannelsInv'
  <2>1. Channels' = Channels
    BY SameRequest
  <2> QED
    BY <2>1 DEF ChannelsInv, Returned
<1> QED
  BY <1>1, <1>2, StreamsStay DEF Returned

-----------------------------------------------------------------------------
(* The client opens a stream: whoever keeps to the protocol now did before.   *)

LEMMA OpenStep == ASSUME IInv, NEW type \in Types \cup {"other"}, Open(type) PROVE IInv'
<1> USE DEF IInv, Open
<1> DEFINE n == Len(streams) + 1
           r == [type |-> type, reply |-> FALSE, waiter |-> "unread"]
<1>1. /\ r \in Streams /\ streams' \in Seq(Streams) /\ DOMAIN streams' = DOMAIN streams \cup {n}
      /\ n \notin DOMAIN streams /\ n \in Nat /\ streams'[n] = r
      /\ \A s \in DOMAIN streams : streams'[s] = streams[s]
  <2>1. r \in Streams
    BY DEF Streams
  <2> QED
    BY <2>1 DEF TypeOK
<1>2. streams'[n].type = type /\ streams'[n].waiter = "unread"
  BY <1>1
<1> HIDE DEF n, r
<1>3. /\ Wanted' = Wanted /\ expectedStreams' = expectedStreams
      /\ UNCHANGED <<form, protocol, pc, ctx, received, resize, sizes, status>>
  BY SameRequest
<1>4. TypeOK'
  BY <1>1, <1>3 DEF TypeOK
<1>5. ChannelsInv'
  BY <1>3 DEF ChannelsInv
<1>6. Counted' = Counted
  BY <1>1, <1>2 DEF Counted
<1>7. TakenInv'
  <2>1. \A t \in Types : ctx[t] # n
    BY <1>1, RemoteCommandAssumption DEF TypeOK
  <2>2. \A t \in Types : ctx[t] \in DOMAIN streams' => streams'[ctx[t]].type = t
    BY <1>1, <2>1 DEF TakenInv
  <2> QED
    BY <1>1, <1>2, <1>3, <2>2 DEF TakenInv
<1>8. CountInv'
  BY <1>1, <1>2, <1>3, <1>6 DEF CountInv, Counted
<1>9. CompleteInv'
  <2>1. KeepsToProtocol' => KeepsToProtocol
    BY <1>1, <1>3 DEF KeepsToProtocol
  <2>2. Complete => Complete'
    BY <1>1, <1>3, <1>6 DEF Complete, Counted
  <2> QED
    BY <1>3, <2>1, <2>2 DEF CompleteInv, Returned
<1> QED
  BY <1>4, <1>5, <1>7, <1>8, <1>9

-----------------------------------------------------------------------------
(* A stream goes on.  Its type stays. *)

StreamGoesOn(s, r) == /\ streams' = [streams EXCEPT ![s] = r]
                      /\ r \in Streams /\ r.type = streams[s].type
                      /\ UNCHANGED <<form, protocol>>

LEMMA GoesOnIs ==
    ASSUME TypeOK, NEW s \in DOMAIN streams, NEW r, StreamGoesOn(s, r)
    PROVE  /\ DOMAIN streams' = DOMAIN streams /\ streams' \in Seq(Streams) /\ streams'[s] = r
           /\ \A v \in DOMAIN streams : v # s => streams'[v] = streams[v]
           /\ \A v \in DOMAIN streams : streams'[v].type = streams[v].type
           /\ KeepsToProtocol' = KeepsToProtocol
<1>1. /\ DOMAIN streams' = DOMAIN streams /\ streams' \in Seq(Streams) /\ streams'[s] = r
      /\ \A v \in DOMAIN streams : v # s => streams'[v] = streams[v]
  BY DEF TypeOK, StreamGoesOn
<1>2. \A v \in DOMAIN streams : streams'[v].type = streams[v].type
  BY <1>1 DEF StreamGoesOn
<1>3. Wanted' = Wanted
  BY SameRequest DEF StreamGoesOn
<1>4. KeepsToProtocol' = KeepsToProtocol
  BY <1>1, <1>2, <1>3 DEF KeepsToProtocol
<1> QED
  BY <1>1, <1>2, <1>4

(* One that is not done goes on, or is done when nobody waits any more; the   *)
(* context and the count stay.                                                *)
LEMMA GoesOn ==
    ASSUME IInv, NEW s \in DOMAIN streams, NEW r, StreamGoesOn(s, r),
           UNCHANGED <<pc, ctx, received, resize, sizes, status>>,
           streams[s].waiter = "done" => r.waiter = "done" /\ r.reply,
           streams[s].waiter # "done" => r.waiter # "done" \/ pc # "wait",
           r.waiter = "notify" => r.reply,
           streams[s].reply => r.reply,
           r.waiter \in {"select", "notify", "done"} =>
              streams[s].waiter \in {"select", "notify", "done"}
    PROVE  IInv'
<1> USE DEF IInv
<1>1. /\ DOMAIN streams' = DOMAIN streams /\ streams' \in Seq(Streams) /\ streams'[s] = r
      /\ \A v \in DOMAIN streams : v # s => streams'[v] = streams[v]
      /\ \A v \in DOMAIN streams : streams'[v].type = streams[v].type
      /\ KeepsToProtocol' = KeepsToProtocol
  BY GoesOnIs
<1>2. Wanted' = Wanted /\ expectedStreams' = expectedStreams
  BY SameRequest DEF StreamGoesOn
<1>3. TypeOK'
  BY <1>1 DEF TypeOK, StreamGoesOn
<1>4. ChannelsInv'
  BY <1>1 DEF ChannelsInv, StreamGoesOn
<1>5. TakenInv'
  BY <1>1 DEF TakenInv
<1>6. Counted \subseteq Counted' /\ (pc = "wait" => Counted' = Counted)
  BY <1>1 DEF Counted
<1>7. CountInv'
  <2>1. pc # "options"
    BY DEF TakenInv
  <2>2. pc = "wait" => /\ \A v \in Counted' : streams'[v].reply
                       /\ received = Cardinality(Counted') /\ received < expectedStreams'
    BY <1>1, <1>2, <1>6 DEF CountInv, Counted
  <2> QED
    BY <1>1, <2>1, <2>2 DEF CountInv
<1>8. CompleteInv'
  <2>1. \A v \in Counted : v \in Counted' /\ (streams[v].reply => streams'[v].reply)
                          /\ streams'[v].type = streams[v].type
    BY <1>1, <1>6 DEF Counted
  <2>2. Complete => Complete'
    BY <1>2, <2>1 DEF Complete
  <2> QED
    BY <1>1, <2>2 DEF CompleteInv, Returned, StreamGoesOn
<1> QED
  BY <1>3, <1>4, <1>5, <1>7, <1>8

LEMMA ReplyStep == ASSUME IInv, NEW s \in DOMAIN streams, Reply(s) PROVE IInv'
<1> DEFINE r == [streams[s] EXCEPT !.reply = TRUE]
<1>1. streams[s] \in Streams
  BY CountedIs DEF IInv
<1>2. /\ r \in Streams /\ r.type = streams[s].type /\ r.waiter = streams[s].waiter /\ r.reply
      /\ streams' = [streams EXCEPT ![s] = r]
  BY <1>1 DEF Reply, Streams
<1> HIDE DEF r
<1>3. StreamGoesOn(s, r) /\ UNCHANGED <<pc, ctx, received, resize, sizes, status>>
  BY <1>2 DEF StreamGoesOn, Reply
<1> QED
  BY <1>2, <1>3, GoesOn

LEMMA WaitStep == ASSUME IInv, NEW s \in DOMAIN streams, waitStreamReply(s) PROVE IInv'
<1>1. streams[s] \in Streams /\ streams[s].waiter = "select"
  BY CountedIs DEF IInv, waitStreamReply
<1>2. PICK next \in {"notify", "done"} :
         /\ next = "notify" => streams[s].reply
         /\ next = "done" => pc # "wait"
         /\ streams' = [streams EXCEPT ![s].waiter = next]
  BY DEF waitStreamReply
<1> DEFINE r == [streams[s] EXCEPT !.waiter = next]
<1>3. /\ r \in Streams /\ r.type = streams[s].type /\ r.waiter = next
      /\ r.reply = streams[s].reply /\ streams' = [streams EXCEPT ![s] = r]
  BY <1>1, <1>2 DEF Streams
<1> HIDE DEF r
<1>4. StreamGoesOn(s, r) /\ UNCHANGED <<pc, ctx, received, resize, sizes, status>>
  BY <1>3 DEF StreamGoesOn, waitStreamReply
<1> QED
  BY <1>1, <1>2, <1>3, <1>4, GoesOn

(* waitForStreams takes a stream. *)
LEMMA TakeStep == ASSUME IInv, NEW s \in DOMAIN streams, Take(s) PROVE IInv'
<1> USE DEF IInv
<1> DEFINE type == streams[s].type
           known == type \in handler.types
           r == [streams[s] EXCEPT !.waiter = IF known THEN "select" ELSE "none"]
<1>1. streams[s] \in Streams /\ s \in Nat /\ s \notin {Channel, Ignored, None}
  BY CountedIs, RemoteCommandAssumption
<1>2. /\ streams' = [streams EXCEPT ![s] = r] /\ r \in Streams /\ r.type = type
      /\ r.waiter = IF known THEN "select" ELSE "none"
      /\ ctx' = IF known THEN [ctx EXCEPT ![type] = s] ELSE ctx
  BY <1>1 DEF Take, Streams
<1>3. StreamGoesOn(s, r) /\ streams[s].waiter = "unread"
  BY <1>2 DEF StreamGoesOn, Take
<1>4. known => type \in Types
  BY DEF handler, v1ProtocolHandler, v2ProtocolHandler, v3ProtocolHandler,
         v4ProtocolHandler, v5ProtocolHandler, Handler
<1> HIDE DEF known, r, type
<1>5. /\ DOMAIN streams' = DOMAIN streams /\ streams' \in Seq(Streams) /\ streams'[s] = r
      /\ \A v \in DOMAIN streams : v # s => streams'[v] = streams[v]
      /\ \A v \in DOMAIN streams : streams'[v].type = streams[v].type
  BY <1>3, GoesOnIs
<1>6. /\ expectedStreams' = expectedStreams /\ pc = "wait"
      /\ UNCHANGED <<form, protocol, pc, received, resize, sizes, status>>
  BY SameRequest DEF Take
<1>7. \A t \in Types : /\ ctx'[t] \in {ctx[t], s} /\ (ctx[t] # None => ctx'[t] # None)
                       /\ (ctx'[t] = ctx[t] \/ t = type)
  BY <1>1, <1>2, <1>4 DEF TypeOK
<1>8. TypeOK'
  <2>1. ctx' \in [Types -> DOMAIN streams \cup {Channel, Ignored, None}]
    BY <1>2 DEF TypeOK
  <2> QED
    BY <1>5, <1>6, <2>1 DEF TypeOK
<1>9. ChannelsInv' /\ CompleteInv'
  BY <1>6 DEF ChannelsInv, CompleteInv, Returned
<1>10. TakenInv'
  <2>1. \A t \in Types : ctx'[t] \in DOMAIN streams' => streams'[ctx'[t]].type = t
    BY <1>5, <1>7 DEF TakenInv, type
  <2>2. ASSUME NEW v \in DOMAIN streams', streams'[v].waiter \in {"select", "notify", "done"}
        PROVE  streams'[v].type \in Types /\ ctx'[streams'[v].type] # None
    <3>1. CASE v # s
      BY <1>5, <1>7, <2>2, <3>1 DEF TakenInv
    <3>2. CASE v = s
      <4>1. known
        BY <1>2, <1>5, <2>2, <3>2
      <4>2. type \in Types /\ ctx'[type] = s
        BY <1>2, <1>4, <4>1 DEF TypeOK
      <4> QED
        BY <1>1, <1>2, <1>5, <3>2, <4>2
    <3> QED
      BY <3>1, <3>2
  <2> QED
    BY <1>6, <2>1, <2>2 DEF TakenInv
<1>11. Counted' = Counted
  BY <1>2, <1>3, <1>5 DEF Counted
<1>12. CountInv'
  BY <1>2, <1>3, <1>5, <1>6, <1>11 DEF CountInv, Counted
<1> QED
  BY <1>8, <1>9, <1>10, <1>12

(* As many things of wanted types, each of a type of its own, as there are    *)
(* wanted types: all types are there. *)
LEMMA AllTypes ==
    ASSUME NEW S, NEW T, NEW f \in [S -> T], IsFiniteSet(T), Cardinality(S) = Cardinality(T),
           \A s, v \in S : f[s] = f[v] => s = v
    PROVE  \A t \in T : \E s \in S : f[s] = t
<1>1. f \in Injection(S, T)
  BY Fun_IsInj
<1>2. f \in Surjection(S, T)
  BY <1>1, FS_Injection
<1> QED
  BY <1>2, Fun_SurjectionProperties

(* waitForStreams counts one more, and returns when all are counted. *)
LEMMA NotifyStep == ASSUME IInv, NEW s \in DOMAIN streams, Notify(s) PROVE IInv'
<1> USE DEF IInv
<1> DEFINE r == [streams[s] EXCEPT !.waiter = "done"]
<1>1. streams[s] \in Streams /\ streams[s].waiter = "notify" /\ streams[s].reply /\ pc = "wait"
  BY CountedIs DEF Notify, CountInv
<1>2. /\ streams' = [streams EXCEPT ![s] = r] /\ r \in Streams /\ r.type = streams[s].type
      /\ r.waiter = "done" /\ r.reply
  BY <1>1 DEF Notify, Streams
<1>3. StreamGoesOn(s, r) /\ UNCHANGED <<form, protocol, ctx, sizes, status>>
  BY <1>2 DEF StreamGoesOn, Notify
<1> HIDE DEF r
<1>4. /\ DOMAIN streams' = DOMAIN streams /\ streams' \in Seq(Streams) /\ streams'[s] = r
      /\ \A v \in DOMAIN streams : v # s => streams'[v] = streams[v]
      /\ \A v \in DOMAIN streams : streams'[v].type = streams[v].type
      /\ KeepsToProtocol' = KeepsToProtocol
  BY <1>3, GoesOnIs
<1>5. Wanted' = Wanted /\ expectedStreams' = expectedStreams
  BY <1>3, SameRequest
<1>6. /\ Counted' = Counted \cup {s} /\ s \notin Counted
      /\ \A v \in Counted' : streams'[v].reply
  BY <1>1, <1>2, <1>4 DEF Counted, CountInv
<1>7. received \in Nat /\ received' = received + 1 /\ received' = Cardinality(Counted')
  <2>1. received \in Nat /\ received' = received + 1 /\ received = Cardinality(Counted)
    BY <1>1 DEF Notify, CountInv, TypeOK
  <2>2. Cardinality(Counted \cup {s}) = Cardinality(Counted) + 1
    BY <1>6, CountedIs, FS_AddElement
  <2> QED
    BY <1>6, <2>1, <2>2
<1>8. TypeOK'
  <2>1. pc' \in Pcs /\ resize' \in {"none", "decode", "send", "done"}
    BY DEF Notify, StartResize, TypeOK, Pcs
  <2> QED
    BY <1>3, <1>4, <1>7, <2>1 DEF TypeOK
<1>9. protocol \notin WebSockets
  BY <1>1 DEF ChannelsInv
<1>10. ChannelsInv'
  BY <1>3, <1>9 DEF ChannelsInv
<1>11. pc' \in {"wait", "run"} /\ (pc' = "run" <=> received' = expectedStreams)
  BY <1>1 DEF Notify
<1>12. TakenInv'
  BY <1>1, <1>3, <1>4, <1>11 DEF TakenInv
<1>13. CountInv'
  <2>1. received < expectedStreams /\ expectedStreams \in Nat
    BY <1>1, Expected DEF CountInv, TypeOK
  <2>2. pc' = "wait" => received' < expectedStreams'
    BY <1>5, <1>7, <1>11, <2>1
  <2> QED
    BY <1>2, <1>4, <1>6, <1>7, <1>11, <2>2 DEF CountInv
<1>14. CompleteInv'
  <2>1. SUFFICES ASSUME pc' = "run", KeepsToProtocol' PROVE Complete'
    BY <1>11 DEF CompleteInv, Returned
  <2> DEFINE f == [v \in Counted' |-> streams'[v].type]
  <2>2. IsFiniteSet(Wanted') /\ Cardinality(Wanted') = Cardinality(Counted')
    BY <1>5, <1>7, <1>11, <2>1, Expected DEF TypeOK
  <2>3. f \in [Counted' -> Wanted'] /\ \A v, w \in Counted' : f[v] = f[w] => v = w
    BY <2>1 DEF KeepsToProtocol, Counted
  <2> HIDE DEF f
  <2>4. \A t \in Wanted' : \E v \in Counted' : f[v] = t
    BY <2>2, <2>3, AllTypes
  <2> QED
    BY <1>6, <2>4 DEF Complete, f
<1> QED
  BY <1>8, <1>10, <1>12, <1>13, <1>14

-----------------------------------------------------------------------------
(* Together. *)

LEMMA NextInv == IInv /\ [Next]_vars => IInv'
<1>1. IInv /\ UNCHANGED vars => IInv'
  <2> SUFFICES ASSUME IInv, UNCHANGED vars PROVE IInv'
    OBVIOUS
  <2>1. ChannelsInv'
    <3>1. Channels' = Channels
      BY SameRequest DEF vars
    <3> QED
      BY <3>1 DEF vars, IInv, ChannelsInv, Returned
  <2>2. TypeOK'
    BY DEF vars, IInv, TypeOK
  <2> QED
    BY <2>1, <2>2, StreamsStay DEF vars, Returned
<1> QED
  BY <1>1, CreateStep, WebSocketStep, QuietStep, ServeStep, OpenStep, ReplyStep, TakeStep,
     WaitStep, NotifyStep DEF Next

LEMMA InvHolds == Spec => []IInv
  BY InitInv, NextInv, PTL DEF Spec

(* When a client has kept to the protocol, the streams of a context that      *)
(* waitForStreams returned are all there, done and replied to.                *)
LEMMA StreamsDone ==
    ASSUME IInv, Returned, KeepsToProtocol, NEW s \in DOMAIN streams
    PROVE  streams[s].waiter = "done" /\ streams[s].reply
<1>1. protocol \notin WebSockets
  BY DEF IInv, ChannelsInv
<1>2. streams[s].type \in Wanted
  BY DEF KeepsToProtocol
<1>3. PICK v \in Counted : streams[v].type = streams[s].type /\ streams[v].reply
  BY <1>1, <1>2 DEF IInv, CompleteInv, Complete
<1>4. v = s
  BY <1>3 DEF KeepsToProtocol, Counted
<1> QED
  BY <1>3, <1>4 DEF Counted

(* The state of a request keeps its types: in particular the streams in the   *)
(* context are streams the client has opened.                                 *)
THEOREM TypeCorrect == Spec => []TypeOK
<1>1. IInv => TypeOK
  BY DEF IInv
<1> QED
  BY <1>1, InvHolds, PTL

(* createStreams returns no context that lacks a stream the request asked for, *)
(* whatever the order of streams, replies and the time limit, to a client that *)
(* keeps to the protocol: with the error stream always there, writeStatus is   *)
(* never nil when ServeExec or ServeAttach calls it.                           *)
THEOREM ContextComplete == Spec => []ContextIsComplete
<1>1. ASSUME IInv, Returned, KeepsToProtocol, NEW t \in Wanted PROVE ctx[t] # None
  <2>1. t \in Types
    BY <1>1, Expected DEF IInv, TypeOK
  <2>2. CASE protocol \in WebSockets
    <3>1. ctx = Channels
      BY <1>1, <2>2 DEF IInv, ChannelsInv
    <3> QED
      BY <2>1, <3>1, RemoteCommandAssumption DEF Channels
  <2>3. CASE protocol \notin WebSockets
    <3>1. PICK s \in Counted : streams[s].type = t
      BY <1>1, <2>3 DEF IInv, CompleteInv, Complete
    <3> QED
      BY <1>1, <3>1 DEF IInv, TakenInv, Counted
  <2> QED
    BY <2>2, <2>3
<1>2. IInv => ContextIsComplete
  BY <1>1 DEF ContextIsComplete, Returned
<1> QED
  BY <1>2, InvHolds, PTL

(* The reply to every stream in use is out when the connection is closed: the *)
(* client gets the reply frame before the goaway frame.                       *)
THEOREM RepliesAreOut == Spec => []RepliesBeforeClose
<1>1. IInv => RepliesBeforeClose
  BY StreamsDone DEF RepliesBeforeClose, Returned
<1> QED
  BY <1>1, InvHolds, PTL

(* Once there is a context, the goroutines of all streams have come to their  *)
(* end: none is left that would notify waitForStreams or hand it a stream.    *)
THEOREM NobodyWaits == Spec => []NobodyLeftBehind
<1>1. IInv => NobodyLeftBehind
  BY StreamsDone DEF NobodyLeftBehind, Returned
<1> QED
  BY <1>1, InvHolds, PTL
=============================================================================
