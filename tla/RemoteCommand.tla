--------------------------- MODULE RemoteCommand ----------------------------
(***************************************************************************)
(* internal/kubernetes/remotecommand: one request to execute a command in  *)
(* a container, or to attach to it.  The client opens the streams it wants *)
(* over SPDY and createStreams waits for them; over a WebSocket they are   *)
(* channels of the connection and there from the start.                    *)
(*                                                                         *)
(* External: the client; the SPDY library, which calls the stream handler  *)
(* in a goroutine for each stream and, when it has returned, sends the     *)
(* reply and closes replySent; the container.                              *)
(***************************************************************************)
EXTENDS Integers, FiniteSets, SequencesExt

CONSTANTS
    Forms,        \* the form values of requests: [tty, stdin, stdout, stderr]
    Protocols,    \* stream protocols the handshake may agree upon
    MaxStreams,   \* bound: streams the client opens
    MaxSizes,     \* bound: times the client's terminal is resized
    Channel,      \* a channel of a WebSocket, in use
    Ignored,      \* a channel of a WebSocket that was not asked for
    None

ASSUME RemoteCommandAssumption ==
    /\ Forms \subseteq [{"tty", "stdin", "stdout", "stderr"} -> BOOLEAN]
    /\ MaxStreams \in Nat /\ MaxSizes \in Nat
    /\ {Channel, Ignored, None} \cap Int = {} /\ None \notin {Channel, Ignored}
    /\ Protocols \subseteq {"v1", "v2", "v3", "v4", "v5", "other",
                      "websocket", "v4.websocket"}

VARIABLES
    form,       \* the values of the request's form
    protocol,   \* the agreed protocol
    pc,         \* where ServeExec or ServeAttach is
    streams,    \* the streams the client has opened
    ctx,        \* the context: for each type the stream in use, or None
    received,   \* receivedStreams
    resize,     \* the goroutine in handleResizeEvents
    sizes,      \* terminal sizes the client has sent so far
    status      \* what writeStatus has written

vars == <<form, protocol, pc, streams, ctx, received, resize, sizes, status>>

Types == {"error", "stdin", "stdout", "stderr", "resize"}
Asked == {"stdin", "stdout", "stderr"}

(* A stream is a record of its type, reply: whether replySent is closed, and  *)
(* waiter: where its goroutine is, "unread" until waitForStreams takes the    *)
(* stream, in the "select" of waitStreamReply, about to "notify", or "done".  *)
WebSockets == {"websocket", "v4.websocket"}

Init == /\ form \in Forms
        /\ protocol \in Protocols
        /\ pc = "options"
        /\ streams = <<>>
        /\ ctx = [t \in Types |-> None]
        /\ received = 0
        /\ resize = "none" /\ sizes = 0
        /\ status = "unwritten"

-----------------------------------------------------------------------------
(* NewOptions: with a terminal there is no stderr of its own, and one of the  *)
(* three must be asked for.                                                   *)
Options == {t \in Asked : form[t] /\ ~(t = "stderr" /\ form.tty)}

(* The protocol handlers, by what their waitForStreams and                    *)
(* supportsTerminalResizing differ in: the stream types they know, how an     *)
(* error is written, and whether the error stream is reset on return.         *)
Handler(types, written, resets) == [types |-> types, written |-> written, resets |-> resets]
v1ProtocolHandler == Handler(Types \ {"resize"}, "text", TRUE)
v2ProtocolHandler == Handler(Types \ {"resize"}, "text", FALSE)
v3ProtocolHandler == Handler(Types, "text", FALSE)
v4ProtocolHandler == Handler(Types, "json", FALSE)
v5ProtocolHandler == Handler(Types, "json", FALSE)
handler == CASE protocol = "v1" -> v1ProtocolHandler
             [] protocol = "v2" -> v2ProtocolHandler
             [] protocol = "v3" -> v3ProtocolHandler
             [] protocol = "v4" -> v4ProtocolHandler
             [] protocol = "v5" -> v5ProtocolHandler
             [] OTHER -> Handler(Types, IF protocol = "websocket" THEN "text" ELSE "json", FALSE)

(* Mutant: the stream of the terminal's sizes is not counted. *)
expectedWithoutResize == 1 + Cardinality(Options)

expectedStreams == 1 + Cardinality(Options)
                     + IF form.tty /\ "resize" \in handler.types THEN 1 ELSE 0

(* What a client that keeps to the protocol opens. *)
Wanted == {"error"} \cup Options
             \cup IF form.tty /\ "resize" \in handler.types THEN {"resize"} ELSE {}

StartResize(c) == resize' = IF c["resize"] = None THEN "none" ELSE "decode"

(* createChannels: all five channels exist, error and resize always in use.   *)
Channels == [t \in Types |-> IF t \in Options \cup {"error", "resize"}
                             THEN Channel ELSE Ignored]

(* Over SPDY the handshake and the upgrade may fail.  A protocol that no      *)
(* handler knows is found out after them, and the connection is left open.    *)
createHTTPStreamStreams ==
    /\ pc = "options" /\ protocol \notin WebSockets /\ Options # {}
    /\ pc' \in {"rejected", IF protocol = "other" THEN "failed" ELSE "wait"}
    /\ UNCHANGED <<form, protocol, streams, ctx, received, resize, sizes, status>>

createWebSocketStreams ==
    /\ pc = "options" /\ protocol \in WebSockets /\ Options # {}
    /\ \/ pc' = "rejected" /\ UNCHANGED <<ctx, resize>>
       \/ pc' = "run" /\ ctx' = Channels /\ StartResize(Channels)
    /\ UNCHANGED <<form, protocol, streams, received, sizes, status>>

-----------------------------------------------------------------------------
(* The client opens a stream once the connection is upgraded.  Its handler    *)
(* blocks until waitForStreams takes the stream.                              *)
Open(type) ==
    /\ protocol \notin WebSockets /\ pc \notin {"options", "rejected"}
    /\ Len(streams) < MaxStreams
    /\ streams' = Append(streams, [type |-> type, reply |-> FALSE, waiter |-> "unread"])
    /\ UNCHANGED <<form, protocol, pc, ctx, received, resize, sizes, status>>

(* The library has sent the reply, and closes replySent. *)
Reply(s) ==
    /\ streams[s].waiter # "unread" /\ ~streams[s].reply
    /\ streams' = [streams EXCEPT ![s].reply = TRUE]
    /\ UNCHANGED <<form, protocol, pc, ctx, received, resize, sizes, status>>

(* waitForStreams takes a stream. *)
Take(s) ==
    /\ pc = "wait" /\ streams[s].waiter = "unread"
    /\ LET type == streams[s].type
       IN IF type \in handler.types THEN /\ ctx' = [ctx EXCEPT ![type] = s]
                              /\ streams' = [streams EXCEPT ![s].waiter = "select"]
                         ELSE /\ streams' = [streams EXCEPT ![s].waiter = "none"]
                              /\ UNCHANGED ctx
    /\ UNCHANGED <<form, protocol, pc, received, resize, sizes, status>>

(* Mutant: the goroutine does not wait for the reply. *)
DoesNotWait(s) ==
    /\ streams[s].waiter = "select"
    /\ streams' = [streams EXCEPT ![s].waiter = IF pc = "wait" THEN "notify" ELSE "done"]
    /\ UNCHANGED <<form, protocol, pc, ctx, received, resize, sizes, status>>

(* waitStreamReply: the reply was sent, or waitForStreams has closed stop.    *)
(* When both are so, select takes either.                                     *)
waitStreamReply(s) ==
    /\ streams[s].waiter = "select"
    /\ \E next \in {"notify", "done"} :
          /\ next = "notify" => streams[s].reply
          /\ next = "done" => pc # "wait"
          /\ streams' = [streams EXCEPT ![s].waiter = next]
    /\ UNCHANGED <<form, protocol, pc, ctx, received, resize, sizes, status>>

(* Mutant: one reply less is enough. *)
NotifyOneLess(s) ==
    /\ pc = "wait" /\ streams[s].waiter = "notify"
    /\ streams' = [streams EXCEPT ![s].waiter = "done"]
    /\ received' = received + 1
    /\ IF received' >= expectedStreams - 1 THEN pc' = "run" /\ StartResize(ctx)
                                           ELSE UNCHANGED <<pc, resize>>
    /\ UNCHANGED <<form, protocol, ctx, sizes, status>>

(* waitForStreams counts a reply, and returns with the last. *)
Notify(s) ==
    /\ pc = "wait" /\ streams[s].waiter = "notify"
    /\ streams' = [streams EXCEPT ![s].waiter = "done"]
    /\ received' = received + 1
    /\ IF received' = expectedStreams THEN pc' = "run" /\ StartResize(ctx)
                                      ELSE UNCHANGED <<pc, resize>>
    /\ UNCHANGED <<form, protocol, ctx, sizes, status>>

(* The time limit is over: createStreams returns, the connection stays open.  *)
Expire == /\ pc = "wait"
          /\ pc' = "failed"
          /\ UNCHANGED <<form, protocol, streams, ctx, received, resize, sizes, status>>

-----------------------------------------------------------------------------
(* handleResizeEvents hands each size to the container, which need not read   *)
(* it, and ends when it cannot decode another from the stream.                *)
Size == /\ resize = "decode" /\ sizes < MaxSizes
        /\ resize' = "send" /\ sizes' = sizes + 1
        /\ UNCHANGED <<form, protocol, pc, streams, ctx, received, status>>

SizeTaken == /\ resize = "send" /\ pc = "run"
             /\ resize' = "decode"
             /\ UNCHANGED <<form, protocol, pc, streams, ctx, received, sizes, status>>

SizesEnd == /\ resize = "decode"
            /\ resize' = "done"
            /\ UNCHANGED <<form, protocol, pc, streams, ctx, received, sizes, status>>

(* v1WriteStatusFunc writes errors as text and nothing on success,            *)
(* v4WriteStatusFunc writes every status as JSON.                             *)
Written(success) == IF handler.resets \/ (success /\ handler.written = "text")
                    THEN "nothing" ELSE handler.written

(* Exec or attach ends, with success, an exit code or an error, the status is *)
(* written and the connection closed.  Without an error stream writeStatus is *)
(* nil, and calling it panics.                                                *)
Serve == /\ pc = "run"
         /\ IF ctx["error"] = None
            THEN pc' = "panicked" /\ UNCHANGED status
            ELSE pc' = "served" /\ \E success \in BOOLEAN : status' = Written(success)
         /\ UNCHANGED <<form, protocol, streams, ctx, received, resize, sizes>>

Next == \/ createHTTPStreamStreams \/ createWebSocketStreams
        \/ Expire \/ Size \/ SizeTaken \/ SizesEnd \/ Serve
        \/ \E type \in Types \cup {"other"} : Open(type)
        \/ \E s \in DOMAIN streams : Reply(s) \/ Take(s) \/ waitStreamReply(s) \/ Notify(s)

Spec == Init /\ [][Next]_vars

-----------------------------------------------------------------------------
(* Properties. *)

(* The client has opened streams it wanted only, and none of a type twice.    *)
KeepsToProtocol == /\ \A s \in DOMAIN streams : streams[s].type \in Wanted
                   /\ \A s, t \in DOMAIN streams :
                          streams[s].type = streams[t].type => s = t

(* What waitForStreams returns without an error: "if all the streams were     *)
(* received".  Replies are counted, not types: it holds for clients that keep *)
(* to the protocol, and others can bring writeStatus to be nil.               *)
ContextIsComplete ==
    pc \in {"run", "served", "panicked"} /\ KeepsToProtocol =>
        \A t \in Wanted : ctx[t] # None

(* "to ensure that the replyFrame is enqueued before the connection's goaway  *)
(* frame is sent": when the connection is closed, the reply to every stream   *)
(* in use has been sent.                                                      *)
RepliesBeforeClose ==
    pc = "served" /\ KeepsToProtocol =>
        \A t \in Types : ctx[t] \in DOMAIN streams => streams[ctx[t]].reply

(* When waitForStreams has returned a context, no goroutine of a stream is    *)
(* left that waits for it: neither one that would notify it, nor one that     *)
(* would hand it a stream.                                                    *)
NobodyLeftBehind ==
    pc \in {"run", "served"} /\ KeepsToProtocol =>
        \A s \in DOMAIN streams : streams[s].waiter = "done"
=============================================================================
