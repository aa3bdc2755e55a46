-------------------------- MODULE PortForwardProofs -------------------------
(***************************************************************************)
(* Proofs about PortForwardStreams, for any number of forwards and any     *)
(* request ids a client may choose: monitors remove their own pairs, a     *)
(* pair is complete once at most, and its streams are of one forward.      *)
(***************************************************************************)
EXTENDS PortForwardStreams, TLAPS

(* Streams are opened once and known to the loop only when opened; an older   *)
(* client opens the data stream right after the error stream.                 *)
OpenInv ==
    /\ \A i, j \in DOMAIN opened : opened[i] = opened[j] => i = j
    /\ header = None => \A i \in DOMAIN opened : opened[i].type = "data" =>
           i > 1 /\ opened[i - 1] = [of |-> opened[i].of, type |-> "error"]
    /\ received \subseteq Range(opened) /\ streamChan \subseteq Range(opened)
    /\ loop # None => loop.stream \in Range(opened)

(* s has been opened, and has the request id of pair p.                       *)
Belongs(s, p) == s \in Range(opened) /\ requestID(s) = p.requestID

(* A pair has streams of its own request id, and is complete when it has both. *)
PairInv == \A n \in DOMAIN pairs :
    LET p == pairs[n]
    IN  /\ p.error # None => Belongs([of |-> p.error, type |-> "error"], p)
        /\ p.data # None => Belongs([of |-> p.data, type |-> "data"], p)
        /\ p.completions = IF p.error # None /\ p.data # None THEN 1 ELSE 0

(* The map and the loop know pairs by their request ids. *)
IdInv == /\ \A id \in DOMAIN streamPairs : pairs[streamPairs[id]].requestID = id
         /\ loop # None => pairs[loop.pair].requestID = requestID(loop.stream)

IInv == TypeOK /\ OpenInv /\ PairInv /\ IdInv /\ RemovesItsOwn

LEMMA InitInv == Init => IInv
<1> SUFFICES ASSUME Init PROVE IInv
  OBVIOUS
<1>1. DOMAIN opened = {} /\ DOMAIN pairs = {} /\ DOMAIN streamPairs = {}
  BY DEF Init
<1>2. TypeOK
  <2>1. pairs \in Seq(Pairs) /\ opened \in Seq(Streams)
    BY DEF Init
  <2>2. \A id \in DOMAIN streamPairs : id \in Int /\ streamPairs[id] \in DOMAIN pairs
    BY <1>1
  <2>3. /\ header \in Headers \cup {None} /\ exited \in BOOLEAN
        /\ received \subseteq Streams /\ streamChan \subseteq Streams
        /\ loop \in [stream : Streams, pair : DOMAIN pairs] \cup {None}
    BY DEF Init
  <2> QED
    BY <2>1, <2>2, <2>3 DEF TypeOK
<1>3. OpenInv
  BY <1>1 DEF Init, OpenInv
<1>4. PairInv /\ IdInv /\ RemovesItsOwn
  BY <1>1 DEF Init, PairInv, IdInv, RemovesItsOwn
<1> QED
  BY <1>2, <1>3, <1>4 DEF IInv

(* A stream's identifier tells where in the order of streams it was opened.   *)
LEMMA IdentifierIs ==
    ASSUME opened \in Seq(Streams), OpenInv, NEW i \in DOMAIN opened
    PROVE  Identifier(opened[i]) = 2 * i - 1
<1> DEFINE P(j) == j \in DOMAIN opened /\ opened[j] = opened[i]
<1>1. (CHOOSE j \in DOMAIN opened : opened[j] = opened[i]) = i
  BY DEF OpenInv
<1> QED
  BY <1>1 DEF Identifier

LEMMA RequestIDType ==
    ASSUME TypeOK, OpenInv, NEW s \in Range(opened)
    PROVE  requestID(s) \in Int /\ s \in Streams
<1>1. PICK i \in DOMAIN opened : s = opened[i]
  BY DEF Range
<1>2. s \in Streams /\ i \in Int
  BY <1>1 DEF TypeOK
<1>3. Identifier(s) \in Int
  BY <1>1, <1>2, IdentifierIs DEF TypeOK
<1>4. header # None => header[s.of] \in Int
  BY <1>2, StreamsAssumption DEF TypeOK, Streams
<1> QED
  BY <1>2, <1>3, <1>4 DEF requestID

(* A stream keeps its request id when another is opened. *)
LEMMA OpenKeeps ==
    ASSUME TypeOK, OpenInv, NEW s \in Streams, s \notin Range(opened),
           opened' = Append(opened, s), header' = header, OpenInv'
    PROVE  /\ Range(opened') = Range(opened) \cup {s}
           /\ \A t \in Range(opened) : requestID(t)' = requestID(t)
<1>1. /\ opened \in Seq(Streams) /\ opened' \in Seq(Streams)
      /\ DOMAIN opened = 1..Len(opened) /\ DOMAIN opened' = 1..(Len(opened) + 1)
      /\ \A i \in DOMAIN opened : opened'[i] = opened[i]
      /\ opened'[Len(opened) + 1] = s /\ Len(opened) \in Nat
  BY DEF TypeOK
<1>2. DOMAIN opened' = DOMAIN opened \cup {Len(opened) + 1}
  BY <1>1
<1>3. Range(opened') = Range(opened) \cup {s}
  BY <1>1, <1>2 DEF Range
<1>4. ASSUME NEW t \in Range(opened) PROVE requestID(t)' = requestID(t)
  <2>1. PICK i \in DOMAIN opened : t = opened[i]
    BY DEF Range
  <2>2. i \in DOMAIN opened' /\ t = opened'[i]
    BY <1>1, <1>2, <2>1
  <2>3. Identifier(t) = 2 * i - 1
    BY <1>1, <2>1, IdentifierIs
  <2>4. Identifier(t)' = 2 * i - 1
    <3>1. (CHOOSE j \in DOMAIN opened' : opened'[j] = t) = i
      BY <2>2 DEF OpenInv
    <3> QED
      BY <3>1 DEF Identifier
  <2> QED
    BY <2>3, <2>4 DEF requestID
<1> QED
  BY <1>3, <1>4

LEMMA OpenStep == ASSUME IInv, NEW s \in Streams, Open(s) PROVE IInv'
<1> USE DEF IInv
<1>1. /\ opened \in Seq(Streams) /\ opened' \in Seq(Streams)
      /\ DOMAIN opened = 1..Len(opened) /\ DOMAIN opened' = 1..(Len(opened) + 1)
      /\ \A i \in DOMAIN opened : opened'[i] = opened[i]
      /\ opened'[Len(opened) + 1] = s /\ Len(opened) \in Nat
  BY DEF TypeOK, Open
<1>2. DOMAIN opened' = DOMAIN opened \cup {Len(opened) + 1}
  BY <1>1
<1>3. Range(opened') = Range(opened) \cup {s}
  BY <1>1, <1>2 DEF Range
<1>4. TypeOK'
  BY <1>1 DEF TypeOK, Open
<1>5. OpenInv'
  <2>1. \A i \in DOMAIN opened : opened[i] # s
    BY DEF Open, Range
  <2>2. \A i, j \in DOMAIN opened' : opened'[i] = opened'[j] => i = j
    BY <1>1, <1>2, <2>1 DEF OpenInv
  <2>3. header' = None => \A i \in DOMAIN opened' : opened'[i].type = "data" =>
           i > 1 /\ opened'[i - 1] = [of |-> opened'[i].of, type |-> "error"]
    <3>1. SUFFICES ASSUME header = None, NEW i \in DOMAIN opened', opened'[i].type = "data"
                   PROVE  i > 1 /\ opened'[i - 1] = [of |-> opened'[i].of, type |-> "error"]
      BY DEF Open
    <3>2. CASE i \in DOMAIN opened
      <4>1. opened[i].type = "data" /\ opened'[i] = opened[i]
        BY <1>1, <3>1, <3>2
      <4>2. i > 1 /\ opened[i - 1] = [of |-> opened[i].of, type |-> "error"]
        BY <3>1, <3>2, <4>1 DEF OpenInv
      <4>3. i - 1 \in DOMAIN opened
        BY <1>1, <3>2, <4>2
      <4> QED
        BY <1>1, <4>1, <4>2, <4>3
    <3>3. CASE i = Len(opened) + 1
      <4>1. /\ [s EXCEPT !.type = "error"] \in Range(opened)
            /\ Last(opened) = [s EXCEPT !.type = "error"]
        BY <1>1, <3>1, <3>3 DEF Open
      <4>2. [s EXCEPT !.type = "error"] = [of |-> s.of, type |-> "error"]
        BY DEF Streams
      <4>3. DOMAIN opened # {}
        BY <4>1 DEF Range
      <4>4. Len(opened) \in DOMAIN opened /\ Last(opened) = opened[Len(opened)]
        BY <1>1, <4>3 DEF Last
      <4>5. i - 1 = Len(opened) /\ i > 1
        BY <1>1, <3>3, <4>4
      <4>6. opened'[i] = s /\ opened'[i - 1] = Last(opened)
        BY <1>1, <3>3, <4>4, <4>5
      <4> QED
        BY <4>1, <4>2, <4>5, <4>6
    <3> QED
      BY <1>2, <3>2, <3>3
  <2>4. /\ received' \subseteq Range(opened') /\ streamChan' \subseteq Range(opened')
        /\ loop' # None => loop'.stream \in Range(opened')
    BY <1>3 DEF OpenInv, Open
  <2> QED
    BY <2>2, <2>3, <2>4 DEF OpenInv
<1>6. \A t \in Range(opened) : requestID(t)' = requestID(t)
  BY <1>5, OpenKeeps DEF Open
<1>7. PairInv'
  BY <1>3, <1>6 DEF PairInv, Belongs, Open
<1>8. IdInv'
  BY <1>6 DEF IdInv, OpenInv, Open
<1>9. RemovesItsOwn'
  BY DEF RemovesItsOwn, Open
<1> QED
  BY <1>4, <1>5, <1>7, <1>8, <1>9

LEMMA ReceivedStep == ASSUME IInv, NEW s \in Streams, httpStreamReceived(s) PROVE IInv'
<1> USE DEF IInv, httpStreamReceived
<1>1. TypeOK'
  BY DEF TypeOK
<1>2. OpenInv'
  BY DEF OpenInv
<1>3. PairInv' /\ IdInv'
  BY DEF PairInv, IdInv, Belongs, requestID, Identifier
<1>4. RemovesItsOwn'
  BY DEF RemovesItsOwn
<1> QED
  BY <1>1, <1>2, <1>3, <1>4

LEMMA ClosedStep == ASSUME IInv, Closed PROVE IInv'
<1> USE DEF IInv, Closed, clientVars
<1>1. TypeOK' /\ OpenInv'
  BY DEF TypeOK, OpenInv
<1>2. PairInv' /\ IdInv'
  BY DEF PairInv, IdInv, Belongs, requestID, Identifier
<1>3. RemovesItsOwn'
  BY DEF RemovesItsOwn
<1> QED
  BY <1>1, <1>2, <1>3

(* The loop takes a stream.  A pair that is made for it has a request id that *)
(* is not in the map.                                                         *)
LEMMA GetStreamPairStep == ASSUME IInv, NEW s \in Streams, getStreamPair(s) PROVE IInv'
<1> DEFINE id == requestID(s)
           n == Len(pairs) + 1
<1> USE DEF IInv
<1>1. /\ UNCHANGED clientVars /\ \A t : requestID(t)' = requestID(t)
      /\ s \in Range(opened) /\ id \in Int /\ n \in Nat
  <2>1. s \in Range(opened) /\ UNCHANGED clientVars
    BY DEF getStreamPair, OpenInv
  <2>2. \A t : requestID(t)' = requestID(t)
    BY <2>1 DEF clientVars, requestID, Identifier
  <2>3. n \in Nat
    BY DEF TypeOK
  <2> QED
    BY <2>1, <2>2, <2>3, RequestIDType
<1>2. OpenInv'
  BY <1>1 DEF OpenInv, getStreamPair, clientVars
<1>3. CASE id \in DOMAIN streamPairs
  <2>1. /\ loop' = [stream |-> s, pair |-> streamPairs[id]]
        /\ UNCHANGED <<pairs, streamPairs, exited, clientVars>>
        /\ streamChan' \subseteq streamChan
    BY <1>3 DEF getStreamPair
  <2>2. TypeOK'
    BY <1>3, <2>1 DEF TypeOK, clientVars
  <2>3. IdInv'
    BY <1>1, <1>3, <2>1 DEF IdInv
  <2>4. PairInv' /\ RemovesItsOwn'
    BY <1>1, <2>1 DEF PairInv, Belongs, RemovesItsOwn, clientVars
  <2> QED
    BY <1>2, <2>2, <2>3, <2>4
<1>4. CASE id \notin DOMAIN streamPairs
  <2>1. /\ loop' = [stream |-> s, pair |-> n]
        /\ pairs' = Append(pairs, NewPair(id))
        /\ streamPairs' = [i \in DOMAIN streamPairs \cup {id} |-> IF i = id THEN n ELSE streamPairs[i]]
        /\ UNCHANGED <<exited, clientVars>> /\ streamChan' \subseteq streamChan
    BY <1>4 DEF getStreamPair
  <2>2. NewPair(id) \in Pairs
    BY <1>1 DEF NewPair, Pairs
  <2>3. /\ pairs' \in Seq(Pairs) /\ DOMAIN pairs = 1..Len(pairs)
        /\ DOMAIN pairs' = DOMAIN pairs \cup {n} /\ n \notin DOMAIN pairs
        /\ \A m \in DOMAIN pairs : pairs'[m] = pairs[m]
        /\ pairs'[n] = NewPair(id)
    BY <2>1, <2>2 DEF TypeOK
  <2>4. TypeOK'
    <3>1. \A i \in DOMAIN streamPairs' : i \in Int /\ streamPairs'[i] \in DOMAIN pairs'
      BY <1>1, <2>1, <2>3 DEF TypeOK
    <3>2. loop' \in [stream : Streams, pair : DOMAIN pairs']
      BY <2>1, <2>3
    <3> QED
      BY <2>1, <2>3, <3>1, <3>2 DEF TypeOK, clientVars
  <2>5. PairInv'
    BY <1>1, <2>1, <2>3 DEF PairInv, Belongs, NewPair, clientVars
  <2>6. IdInv'
    BY <1>1, <2>1, <2>3 DEF IdInv, TypeOK, NewPair
  <2>7. RemovesItsOwn'
    BY <1>4, <2>1, <2>3 DEF RemovesItsOwn, NewPair
  <2> QED
    BY <1>2, <2>4, <2>5, <2>6, <2>7
<1> QED
  BY <1>3, <1>4

(* A stream joins its pair. *)
LEMMA AddStep == ASSUME IInv, add PROVE IInv'
<1> DEFINE n == loop.pair
           s == loop.stream
           p == pairs[n]
           q == With(p, s)
<1> USE DEF IInv
<1>1. /\ n \in DOMAIN pairs /\ s \in Streams /\ p \in Pairs
      /\ s \in Range(opened) /\ requestID(s) = p.requestID
      /\ loop' = None /\ UNCHANGED <<streamChan, exited, streamPairs, clientVars>>
  BY DEF add, TypeOK, OpenInv, IdInv
<1>2. PICK r \in Pairs :
        /\ pairs' = [pairs EXCEPT ![n] = r]
        /\ r.requestID = p.requestID /\ r.monitor = p.monitor
        /\ r.error # None => Belongs([of |-> r.error, type |-> "error"], p)
        /\ r.data # None => Belongs([of |-> r.data, type |-> "data"], p)
        /\ r.completions = IF r.error # None /\ r.data # None THEN 1 ELSE 0
  <2>1. /\ p.error # None => Belongs([of |-> p.error, type |-> "error"], p)
        /\ p.data # None => Belongs([of |-> p.data, type |-> "data"], p)
        /\ p.completions = IF p.error # None /\ p.data # None THEN 1 ELSE 0
    BY <1>1 DEF PairInv
  <2>2. CASE Assigned(p, s.type)
    BY <1>1, <2>1, <2>2 DEF add
  <2>3. CASE ~Assigned(p, s.type)
    <3> DEFINE r == IF q.error # None /\ q.data # None THEN [q EXCEPT !.completions = @ + 1] ELSE q
    <3>1. pairs' = [pairs EXCEPT ![n] = r]
      BY <2>3 DEF add
    <3>2. s = [of |-> s.of, type |-> s.type] /\ s.type \in {"error", "data"} /\ s.of \in Forwards
      BY <1>1 DEF Streams
    <3>3. Belongs(s, p)
      BY <1>1 DEF Belongs
    <3>4. p.completions = 0
      BY <2>1, <2>3 DEF Assigned
    <3>5. /\ r \in Pairs /\ r.requestID = p.requestID /\ r.monitor = p.monitor
          /\ r.completions = IF r.error # None /\ r.data # None THEN 1 ELSE 0
          /\ r.error = IF s.type = "error" THEN s.of ELSE p.error
          /\ r.data = IF s.type = "error" THEN p.data ELSE s.of
      BY <1>1, <3>2, <3>4 DEF With, Pairs
    <3>6. /\ r.error # None => Belongs([of |-> r.error, type |-> "error"], p)
          /\ r.data # None => Belongs([of |-> r.data, type |-> "data"], p)
      BY <2>1, <3>2, <3>3, <3>5
    <3> QED
      BY <3>1, <3>5, <3>6
  <2> QED
    BY <2>2, <2>3
<1>3. /\ DOMAIN pairs' = DOMAIN pairs /\ pairs'[n] = r
      /\ \A m \in DOMAIN pairs : m # n => pairs'[m] = pairs[m]
  BY <1>1, <1>2 DEF TypeOK
<1>4. TypeOK'
  BY <1>1, <1>2, <1>3 DEF TypeOK, clientVars
<1>5. \A t : requestID(t)' = requestID(t)
  BY <1>1 DEF clientVars, requestID, Identifier
<1>6. OpenInv'
  BY <1>1 DEF OpenInv, clientVars
<1>7. PairInv'
  BY <1>1, <1>2, <1>3, <1>5 DEF PairInv, Belongs, clientVars
<1>8. IdInv' /\ RemovesItsOwn'
  BY <1>1, <1>2, <1>3, <1>5 DEF IdInv, RemovesItsOwn, TypeOK
<1> QED
  BY <1>4, <1>6, <1>7, <1>8

(* What a monitor that goes on leaves alone. *)
LEMMA MonitoringKeeps ==
    ASSUME IInv, NEW n, NEW from, NEW to \in {"remove", "done"}, Monitoring(n, from, to),
           UNCHANGED <<streamChan, loop, exited, clientVars>>,
           DOMAIN streamPairs' \subseteq DOMAIN streamPairs,
           \A id \in DOMAIN streamPairs' : streamPairs'[id] = streamPairs[id]
    PROVE  TypeOK' /\ OpenInv' /\ PairInv' /\ IdInv'
<1> USE DEF IInv, Monitoring
<1>1. /\ DOMAIN pairs' = DOMAIN pairs /\ pairs \in Seq(Pairs) /\ pairs' \in Seq(Pairs)
      /\ \A m \in DOMAIN pairs :
            /\ pairs'[m].requestID = pairs[m].requestID
            /\ pairs'[m].error = pairs[m].error
            /\ pairs'[m].data = pairs[m].data
            /\ pairs'[m].completions = pairs[m].completions
  <2>1. pairs[n] \in Pairs /\ n \in DOMAIN pairs /\ pairs \in Seq(Pairs)
    BY DEF TypeOK
  <2>2. [pairs[n] EXCEPT !.monitor = to] \in Pairs
    BY <2>1 DEF Pairs
  <2> QED
    BY <2>1, <2>2 DEF Pairs
<1>2. \A t : requestID(t)' = requestID(t)
  BY DEF clientVars, requestID, Identifier
<1>3. TypeOK'
  BY <1>1 DEF TypeOK, clientVars
<1>4. OpenInv'
  BY DEF OpenInv, clientVars
<1>5. PairInv'
  BY <1>1, <1>2 DEF PairInv, Belongs, clientVars
<1>6. IdInv'
  BY <1>1, <1>2 DEF IdInv, TypeOK
<1> QED
  BY <1>3, <1>4, <1>5, <1>6

LEMMA TimeStep == ASSUME IInv, NEW n, TimedOut(n) \/ Complete(n) PROVE IInv'
<1>1. /\ Monitoring(n, "select", "remove")
      /\ UNCHANGED <<streamChan, loop, exited, streamPairs, clientVars>>
  BY DEF TimedOut, Complete
<1>2. TypeOK' /\ OpenInv' /\ PairInv' /\ IdInv'
  BY <1>1, MonitoringKeeps
<1>3. RemovesItsOwn'
  BY <1>1 DEF IInv, TypeOK, RemovesItsOwn, Monitoring, Pairs
<1> QED
  BY <1>2, <1>3 DEF IInv

(* Only the map's entry of its own pair goes: other pairs whose monitors run  *)
(* have other request ids, for the map leads from each id to one pair.        *)
LEMMA RemoveStep == ASSUME IInv, NEW n, removeStreamPair(n) PROVE IInv'
<1>1. /\ Monitoring(n, "remove", "done") /\ n \in DOMAIN pairs
      /\ UNCHANGED <<streamChan, loop, exited, clientVars>>
      /\ streamPairs' = [id \in DOMAIN streamPairs \ {pairs[n].requestID} |-> streamPairs[id]]
  BY DEF removeStreamPair, Monitoring
<1>2. TypeOK' /\ OpenInv' /\ PairInv' /\ IdInv'
  BY <1>1, MonitoringKeeps
<1>3. RemovesItsOwn'
  <2>1. /\ DOMAIN pairs' = DOMAIN pairs
        /\ \A m \in DOMAIN pairs : /\ pairs'[m].requestID = pairs[m].requestID
                                   /\ m # n => pairs'[m] = pairs[m]
        /\ pairs'[n].monitor = "done"
    <3>1. pairs \in Seq(Pairs) /\ pairs[n] \in Pairs
      BY <1>1 DEF IInv, TypeOK
    <3>2. [pairs[n] EXCEPT !.monitor = "done"].requestID = pairs[n].requestID
      BY <3>1 DEF Pairs
    <3>3. [pairs[n] EXCEPT !.monitor = "done"].monitor = "done"
      BY <3>1 DEF Pairs
    <3> QED
      BY <1>1, <3>1, <3>2, <3>3 DEF Monitoring
  <2>2. ASSUME NEW m \in DOMAIN pairs, m # n, pairs[m].monitor # "done"
        PROVE  /\ pairs[m].requestID \in DOMAIN streamPairs'
               /\ streamPairs'[pairs[m].requestID] = m
    BY <1>1, <2>2 DEF IInv, RemovesItsOwn, Monitoring
  <2> QED
    BY <2>1, <2>2 DEF RemovesItsOwn
<1> QED
  BY <1>2, <1>3 DEF IInv

(* Every reachable state of httpstream.go's handler satisfies the inductive   *)
(* invariant, for any streams the client opens.                               *)
THEOREM Inductive == Spec => []IInv
<1>1. IInv /\ UNCHANGED vars => IInv'
  <2> SUFFICES ASSUME IInv, UNCHANGED vars PROVE IInv'
    OBVIOUS
  <2>1. TypeOK' /\ OpenInv'
    BY DEF IInv, vars, TypeOK, OpenInv
  <2>2. PairInv' /\ IdInv'
    BY DEF IInv, vars, PairInv, IdInv, Belongs, requestID, Identifier
  <2>3. RemovesItsOwn'
    BY DEF IInv, vars, RemovesItsOwn
  <2> QED
    BY <2>1, <2>2, <2>3 DEF IInv
<1>2. IInv /\ [Next]_vars => IInv'
  BY <1>1, OpenStep, ReceivedStep, GetStreamPairStep, AddStep, ClosedStep, TimeStep, RemoveStep
  DEF Next
<1> QED
  BY <1>2, InitInv, PTL DEF Spec

(* httpstream.go, removeStreamPair: what a monitor finds under its request id *)
(* is its own pair.                                                           *)
THEOREM MonitorsRemoveTheirOwn == Spec => []RemovesItsOwn
<1>1. IInv => RemovesItsOwn
  BY DEF IInv
<1> QED
  BY <1>1, Inductive, PTL

(* httpstream.go, add: no pair is completed a second time. *)
THEOREM CompletedOnce == Spec => []CompleteOnce
<1>1. IInv => CompleteOnce
  <2> SUFFICES ASSUME IInv, NEW n \in DOMAIN pairs PROVE pairs[n].completions <= 1
    BY DEF CompleteOnce
  <2>1. pairs[n].completions \in {0, 1}
    BY Zenon DEF IInv, PairInv
  <2> QED
    BY <2>1
<1> QED
  BY <1>1, Inductive, PTL

(* httpstream.go, requestID and getStreamPair: the streams of a pair are of   *)
(* one forward, unless the client gave one request id to two.                 *)
THEOREM PairsAreOfOneForward == Spec => []PairsMatch
<1>1. IInv => PairsMatch
  <2> SUFFICES ASSUME IInv, NEW n \in DOMAIN pairs,
                      pairs[n].error # None, pairs[n].data # None
               PROVE  \/ pairs[n].error = pairs[n].data
                      \/ header # None /\ header[pairs[n].error] = header[pairs[n].data]
    BY DEF PairsMatch
  <2> DEFINE e == [of |-> pairs[n].error, type |-> "error"]
             d == [of |-> pairs[n].data, type |-> "data"]
  <2>1. /\ e \in Range(opened) /\ d \in Range(opened) /\ requestID(e) = requestID(d)
        /\ e.of = pairs[n].error /\ d.of = pairs[n].data
        /\ e.type = "error" /\ d.type = "data"
    BY DEF IInv, PairInv, Belongs
  <2> HIDE DEF e, d
  <2>2. CASE header # None
    BY <2>1, <2>2 DEF requestID
  <2>3. CASE header = None
    <3>1. PICK i \in DOMAIN opened : e = opened[i]
      BY <2>1 DEF Range
    <3>2. PICK j \in DOMAIN opened : d = opened[j]
      BY <2>1 DEF Range
    <3>3. i \in Nat /\ j \in Nat /\ DOMAIN opened = 1..Len(opened) /\ Len(opened) \in Nat
      BY DEF IInv, TypeOK
    <3>4. Identifier(e) = 2 * i - 1 /\ Identifier(d) = 2 * j - 1
      BY <3>1, <3>2, IdentifierIs DEF IInv, TypeOK
    <3>5. Identifier(e) = Identifier(d) - 2
      BY <2>1, <2>3 DEF requestID
    <3>6. j - 1 = i
      BY <3>3, <3>4, <3>5
    <3>7. opened[j - 1] = [of |-> d.of, type |-> "error"]
      BY <2>1, <2>3, <3>2 DEF IInv, OpenInv
    <3> QED
      BY <2>1, <3>1, <3>6, <3>7
  <2> QED
    BY <2>2, <2>3
<1> QED
  BY <1>1, Inductive, PTL
=============================================================================
