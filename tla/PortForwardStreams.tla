------------------------- MODULE PortForwardStreams -------------------------
(***************************************************************************)
(* internal/kubernetes/portforward/httpstream.go: one connection over      *)
(* which a client opens an error and a data stream for each port it wants  *)
(* forwarded.  The handler's loop pairs them up by request id, each pair   *)
(* has a goroutine that monitors it and, once complete, one that forwards. *)
(*                                                                         *)
(* External: the client, and the SPDY library, which calls                 *)
(* httpStreamReceived for each stream in a goroutine of its own, so that   *)
(* streams reach the loop in any order.                                    *)
(***************************************************************************)
EXTENDS Integers, FiniteSets, SequencesExt

CONSTANTS
    Forwards,   \* the ports the client wants forwarded, each with two streams
    Headers,    \* how clients may number their forwards in the request id header
    None

ASSUME StreamsAssumption == /\ Headers \subseteq [Forwards -> Int]
                            /\ None \notin Forwards \cup Int \cup Headers

VARIABLES
    header,       \* header[f]: the request id the client sends with f; None for
                  \* an older client, which sends none
    opened,       \* the streams opened so far; the i-th has identifier 2i - 1
    received,     \* those the library has not called httpStreamReceived for
    streamChan,   \* those on their way through the channel to the loop
    loop,         \* the stream and the pair that run works on, or None
    exited,       \* the connection is closed, and run has returned
    pairs,        \* every httpStreamPair made so far
    streamPairs   \* the map: request id -> index in pairs

vars == <<header, opened, received, streamChan, loop, exited, pairs, streamPairs>>
clientVars == <<header, opened, received>>

Streams == [of : Forwards, type : {"error", "data"}]
Pairs == [requestID : Int, error : Forwards \cup {None}, data : Forwards \cup {None},
          completions : Nat, monitor : {"select", "remove", "done"}]

TypeOK == /\ header \in Headers \cup {None}
          /\ opened \in Seq(Streams)
          /\ received \subseteq Streams /\ streamChan \subseteq Streams
          /\ loop \in [stream : Streams, pair : DOMAIN pairs] \cup {None}
          /\ exited \in BOOLEAN
          /\ pairs \in Seq(Pairs)
          /\ \A id \in DOMAIN streamPairs : id \in Int /\ streamPairs[id] \in DOMAIN pairs

Init == /\ header \in Headers \cup {None}
        /\ opened = <<>> /\ received = {} /\ streamChan = {}
        /\ loop = None /\ exited = FALSE
        /\ pairs = <<>> /\ streamPairs = << >>

-----------------------------------------------------------------------------
(* The client opens the error stream of a forward first, and may never get to *)
(* the other.  An older one opens both before it starts another forward.      *)
Open(s) ==
    /\ s \notin Range(opened)
    /\ s.type = "data" => /\ [s EXCEPT !.type = "error"] \in Range(opened)
                          /\ header = None => Last(opened) = [s EXCEPT !.type = "error"]
    /\ opened' = Append(opened, s)
    /\ received' = received \cup {s}
    /\ UNCHANGED <<header, streamChan, loop, exited, pairs, streamPairs>>

(* A stream with a wrong port or type is rejected, the others go to the loop. *)
httpStreamReceived(s) ==
    /\ s \in received
    /\ received' = received \ {s}
    /\ streamChan' \in {streamChan, streamChan \cup {s}}
    /\ UNCHANGED <<header, opened, loop, exited, pairs, streamPairs>>

-----------------------------------------------------------------------------
(* The loop. *)

Identifier(s) == 2 * (CHOOSE i \in DOMAIN opened : opened[i] = s) - 1

(* Mutant: the data stream of an older client comes before the error stream. *)
requestIDPlus2(s) == IF header # None THEN header[s.of]
                     ELSE IF s.type = "error" THEN Identifier(s) ELSE Identifier(s) + 2

requestID(s) == IF header # None THEN header[s.of]
                ELSE IF s.type = "error" THEN Identifier(s) ELSE Identifier(s) - 2

NewPair(id) == [requestID |-> id, error |-> None, data |-> None, completions |-> 0,
                monitor |-> "select"]

(* Mutant: a new pair for each stream, whether there is one or not. *)
alwaysNewPair(s) ==
    /\ loop = None /\ ~exited /\ s \in streamChan
    /\ streamChan' = streamChan \ {s}
    /\ LET n == Len(pairs) + 1
       IN  /\ pairs' = Append(pairs, NewPair(requestID(s)))
           /\ streamPairs' = [id \in DOMAIN streamPairs \cup {requestID(s)} |->
                                  IF id = requestID(s) THEN n ELSE streamPairs[id]]
           /\ loop' = [stream |-> s, pair |-> n]
    /\ UNCHANGED <<exited, clientVars>>

(* The loop takes a stream and looks up its pair; a new one gets a monitor. *)
getStreamPair(s) ==
    LET id == requestID(s)
        n == Len(pairs) + 1
    IN  /\ loop = None /\ ~exited /\ s \in streamChan
        /\ streamChan' = streamChan \ {s}
        /\ \/ /\ id \in DOMAIN streamPairs
              /\ loop' = [stream |-> s, pair |-> streamPairs[id]]
              /\ UNCHANGED <<pairs, streamPairs>>
           \/ /\ id \notin DOMAIN streamPairs
              /\ loop' = [stream |-> s, pair |-> n]
              /\ pairs' = Append(pairs, NewPair(id))
              /\ streamPairs' = [i \in DOMAIN streamPairs \cup {id} |->
                                     IF i = id THEN n ELSE streamPairs[i]]
        /\ UNCHANGED <<exited, clientVars>>

Assigned(p, type) == IF type = "error" THEN p.error # None ELSE p.data # None

With(p, s) == IF s.type = "error" THEN [p EXCEPT !.error = s.of] ELSE [p EXCEPT !.data = s.of]

(* Mutant: a second stream of a type replaces the first. *)
addAgain ==
    /\ loop # None
    /\ LET p == With(pairs[loop.pair], loop.stream)
       IN  pairs' = [pairs EXCEPT ![loop.pair] =
              IF p.error # None /\ p.data # None
              THEN [p EXCEPT !.completions = @ + 1] ELSE p]
    /\ loop' = None
    /\ UNCHANGED <<streamChan, exited, streamPairs, clientVars>>

(* p.add, and what the loop does with the result: a pair that is complete now *)
(* is told so and forwarded.  It may have timed out in the meantime.  A       *)
(* stream of a type that the pair has already is an error.                    *)
add ==
    /\ loop # None
    /\ LET p == pairs[loop.pair]
           q == With(p, loop.stream)
       IN  pairs' = [pairs EXCEPT ![loop.pair] =
              IF Assigned(p, loop.stream.type) THEN p
              ELSE IF q.error # None /\ q.data # None
              THEN [q EXCEPT !.completions = @ + 1] ELSE q]
    /\ loop' = None
    /\ UNCHANGED <<streamChan, exited, streamPairs, clientVars>>

(* The connection is closed; monitors and forwards go on. *)
Closed == /\ loop = None /\ ~exited
          /\ exited' = TRUE
          /\ UNCHANGED <<streamChan, loop, pairs, streamPairs, clientVars>>

-----------------------------------------------------------------------------
(* The monitor of pair n.  When the time is up and the pair complete, select  *)
(* may take either.                                                           *)

Monitoring(n, from, to) == /\ n \in DOMAIN pairs /\ pairs[n].monitor = from
                           /\ pairs' = [pairs EXCEPT ![n].monitor = to]

TimedOut(n) == /\ Monitoring(n, "select", "remove")
               /\ UNCHANGED <<streamChan, loop, exited, streamPairs, clientVars>>

Complete(n) == /\ Monitoring(n, "select", "remove")
               /\ pairs[n].completions > 0
               /\ UNCHANGED <<streamChan, loop, exited, streamPairs, clientVars>>

(* Mutant: a pair that timed out stays in the map. *)
removeIfComplete(n) ==
    /\ Monitoring(n, "remove", "done")
    /\ streamPairs' = [id \in {i \in DOMAIN streamPairs :
                               i # pairs[n].requestID \/ pairs[n].completions = 0} |-> streamPairs[id]]
    /\ UNCHANGED <<streamChan, loop, exited, clientVars>>

removeStreamPair(n) ==
    /\ Monitoring(n, "remove", "done")
    /\ streamPairs' = [id \in DOMAIN streamPairs \ {pairs[n].requestID} |-> streamPairs[id]]
    /\ UNCHANGED <<streamChan, loop, exited, clientVars>>

Next == \/ \E s \in Streams : Open(s) \/ httpStreamReceived(s) \/ getStreamPair(s)
        \/ add \/ Closed
        \/ \E n \in DOMAIN pairs : TimedOut(n) \/ Complete(n) \/ removeStreamPair(n)

Spec == Init /\ [][Next]_vars

(* Fairness: time is up one day, and the monitors run. *)
Numbers == 1..(2 * Cardinality(Forwards))
FairSpec == Spec /\ \A n \in Numbers : WF_vars(TimedOut(n)) /\ WF_vars(removeStreamPair(n))

-----------------------------------------------------------------------------
(* Properties. *)

(* removeStreamPair looks the pair up by its id again, long after the monitor *)
(* was started: it finds the monitor's own pair there, never another one made *)
(* under the same id, and never none, which it would dereference.             *)
RemovesItsOwn == \A n \in DOMAIN pairs : pairs[n].monitor # "done" =>
    /\ pairs[n].requestID \in DOMAIN streamPairs
    /\ streamPairs[pairs[n].requestID] = n

(* The two streams of a pair are of one forward, in whatever order they       *)
(* arrive and whatever timed out before - unless the client used one request  *)
(* id for two; for an older client, when it does not open streams             *)
(* concurrently.                                                              *)
PairsMatch == \A n \in DOMAIN pairs :
    LET p == pairs[n]
    IN  p.error # None /\ p.data # None =>
            p.error = p.data \/ (header # None /\ header[p.error] = header[p.data])

(* A pair is complete once at most - a second close of p.complete panics -    *)
(* and its streams are handed to one portForward, timed out or not.           *)
CompleteOnce == \A n \in DOMAIN pairs : pairs[n].completions <= 1

(* No pair stays in the map, and with it a request id that cannot be used     *)
(* any more, whichever of its streams are missing and if the loop has ended.  *)
PairsGo == \A n \in Numbers :
    n \in DOMAIN pairs ~> \A id \in DOMAIN streamPairs : streamPairs[id] # n
=============================================================================
