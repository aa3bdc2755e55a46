-------------------------- MODULE MonitorVariable ---------------------------
(***************************************************************************)
(* internal/lock/monitor.go: a variable that is Set by anyone, and readers *)
(* that wait on a channel until there is a value they have not read.       *)
(*                                                                         *)
(* A channel is a number, close puts it in "closed"; every operation holds *)
(* the variable's lock from start to end.  The value is left out, it is    *)
(* told apart by its version.  Names start with Monitor so that the module *)
(* can be extended beside another.                                         *)
(***************************************************************************)
EXTENDS Integers

CONSTANTS
    Readers,      \* goroutines, each with a Subscription of its own
    MaxVersion,   \* bound: how often Set is called
    Nothing

Subscriptions == [lastVersionRead : Nat, channel : Nat]

ASSUME MonitorAssumption == MaxVersion \in Nat /\ Nothing \notin Nat \cup Subscriptions

VARIABLES
    currentVersion,   \* monitor.go:45
    channel,          \* versionInvalidationChannel
    made,             \* the channels made so far are 1..made
    closed,           \* those of them that are closed
    sub,              \* sub[r]: r's subscription, or Nothing
    reader            \* reader[r]: what r does, and the channel it holds, if any

monitorVars == <<currentVersion, channel, made, closed, sub, reader>>

MonitorTypeOK == /\ currentVersion \in Nat
                 /\ channel \in Nat /\ made \in Nat /\ closed \subseteq Nat
                 /\ sub \in [Readers -> Subscriptions \cup {Nothing}]
                 /\ reader \in [Readers -> [pc : {"idle", "select", "ready"},
                                            channel : Nat \cup {Nothing}]]

MonitorInit == /\ currentVersion = 0
               /\ made = 1 /\ channel = 1 /\ closed = {}
               /\ sub = [r \in Readers |-> Nothing]
               /\ reader = [r \in Readers |-> [pc |-> "idle", channel |-> Nothing]]

(* Mutant: the channel is closed, and kept. *)
SetKeepsChannel ==
    /\ currentVersion < MaxVersion
    /\ currentVersion' = currentVersion + 1
    /\ closed' = closed \cup {channel}
    /\ UNCHANGED <<channel, made, sub, reader>>

Set == /\ currentVersion < MaxVersion
       /\ currentVersion' = currentVersion + 1
       /\ closed' = closed \cup {channel}
       /\ made' = made + 1
       /\ channel' = made'
       /\ UNCHANGED <<sub, reader>>

(* Mutant: a value that has been set before is not announced. *)
SubscribeToNext(r) ==
    /\ sub[r] = Nothing
    /\ sub' = [sub EXCEPT ![r] = [lastVersionRead |-> 0, channel |-> channel]]
    /\ UNCHANGED <<currentVersion, channel, made, closed, reader>>

(* Mutant: a subscription starts below the version of a variable without value. *)
SubscribeBelowZero(r) ==
    /\ sub[r] = Nothing
    /\ sub' = [sub EXCEPT ![r] = [lastVersionRead |-> -1, channel |-> channel]]
    /\ UNCHANGED <<currentVersion, channel, made, closed, reader>>

(* When there is a value already, the channel is a new one that is closed. *)
Subscribe(r) ==
    /\ sub[r] = Nothing
    /\ \/ /\ currentVersion > 0
          /\ made' = made + 1
          /\ closed' = closed \cup {made'}
          /\ sub' = [sub EXCEPT ![r] = [lastVersionRead |-> 0, channel |-> made']]
       \/ /\ currentVersion = 0
          /\ sub' = [sub EXCEPT ![r] = [lastVersionRead |-> 0, channel |-> channel]]
          /\ UNCHANGED <<made, closed>>
    /\ UNCHANGED <<currentVersion, channel, reader>>

(* The reader gets the channel that it will receive from. *)
NewValueReady(r) ==
    /\ sub[r] # Nothing /\ reader[r].pc = "idle"
    /\ reader' = [reader EXCEPT ![r] = [pc |-> "select", channel |-> sub[r].channel]]
    /\ UNCHANGED <<currentVersion, channel, made, closed, sub>>

(* External: the receive from the channel returns once it is closed. *)
Received(r) ==
    /\ reader[r].pc = "select" /\ reader[r].channel \in closed
    /\ reader' = [reader EXCEPT ![r] = [pc |-> "ready", channel |-> Nothing]]
    /\ UNCHANGED <<currentVersion, channel, made, closed, sub>>

(* Mutant: the channel is kept when the value is read. *)
ValueKeepsChannel(r) ==
    /\ sub[r] # Nothing
    /\ sub' = [sub EXCEPT ![r].lastVersionRead = currentVersion]
    /\ reader' = [reader EXCEPT ![r].pc = IF @ = "ready" THEN "idle" ELSE @]
    /\ UNCHANGED <<currentVersion, channel, made, closed>>

(* A value can be read at any time, also between NewValueReady and the receive. *)
Value(r) ==
    /\ sub[r] # Nothing
    /\ sub' = [sub EXCEPT ![r] = [lastVersionRead |-> currentVersion, channel |-> channel]]
    /\ reader' = [reader EXCEPT ![r].pc = IF @ = "ready" THEN "idle" ELSE @]
    /\ UNCHANGED <<currentVersion, channel, made, closed>>

MonitorNext == \/ Set
               \/ \E r \in Readers : Subscribe(r) \/ NewValueReady(r) \/ Received(r) \/ Value(r)

MonitorSpec == MonitorInit /\ [][MonitorNext]_monitorVars

(* MonitorFairness: a reader goes on, and reads the value once its channel is closed. *)
MonitorFairness == \A r \in Readers :
    /\ WF_monitorVars(NewValueReady(r))
    /\ WF_monitorVars(Received(r))
    /\ WF_monitorVars(reader[r].pc = "ready" /\ Value(r))

MonitorFairSpec == MonitorSpec /\ MonitorFairness

-----------------------------------------------------------------------------
(* Properties. *)

(* A subscription's channel is closed exactly when there is a value that its  *)
(* reader has not read, however Set, Subscribe and Value interleave.          *)
ClosedIffNews == \A r \in Readers : sub[r] # Nothing =>
    (sub[r].channel \in closed <=> sub[r].lastVersionRead < currentVersion)

(* A reader that waits on an open channel has read the latest value, even if  *)
(* it read a value after it had fetched the channel.                          *)
NothingMissed == \A r \in Readers :
    reader[r].pc = "select" /\ reader[r].channel \notin closed
        => sub[r].lastVersionRead = currentVersion

(* Every reader ends up with the last value that is set. *)
LastValueIsRead == \A r \in Readers :
    sub[r] # Nothing /\ currentVersion = MaxVersion ~> sub[r] # Nothing /\ sub[r].lastVersionRead = MaxVersion
=============================================================================
