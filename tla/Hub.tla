-------------------------------- MODULE Hub --------------------------------
(***************************************************************************)
(* The in-process broadcast hub (internal/realtime/hub.go) with the        *)
(* goroutines that use it: SSE handlers (sse.go), WebSocket handlers and   *)
(* their read pumps (websocket.go), and publishers running inside HTTP     *)
(* handlers (booking.Handler.notifyOwner).                                 *)
(*                                                                         *)
(* A connection has one channel, named by the connection.  The two maps    *)
(* ownerSubs and listingSubs are one map over Topics, under the one        *)
(* RWMutex they share.  A Lock ... Unlock section contains no call that    *)
(* can block, so it is one step, enabled when nobody holds the read lock;  *)
(* publish holds the read lock over several steps.                         *)
(***************************************************************************)
EXTENDS Integers, Sequences, FiniteSets

CONSTANTS
    SSE,         \* connections served by SSEHandler.BookingEvents
    WS,          \* connections served by WebSocketHandler.ListingAvailability
    Publishers,  \* calls of Hub.publish
    Topics,      \* owners and listings
    BufferSize   \* subscriberBufferSize = 8

Conns == SSE \cup WS

ASSUME HubAssumption ==
    /\ SSE \cap WS = {}
    /\ BufferSize \in Nat \ {0}

VARIABLES
    topic,     \* the owner or listing of each connection and publisher
    subs,      \* the channels registered under each topic
    buf,       \* payloads in each channel
    closes,    \* how often close was called on each channel
    once,      \* state of the sync.Once of each WebSocket connection
    handler,   \* where the handler goroutine of a connection is
    pump,      \* where the read pump of a WebSocket connection is
    gone,      \* clients that disconnected
    readers,   \* publishers that hold the read lock
    todo,      \* channels a publisher's loop has still to visit
    pub,       \* where each publisher is
    panicked   \* channels that were sent on or closed after they were closed

vars == <<topic, subs, buf, closes, once, handler, pump, gone, readers, todo,
          pub, panicked>>

HandlerPCs == {"start", "serving", "cancel", "unsubscribe", "close", "done"}
PumpPCs == {"off", "reading", "cancel", "unsubscribe", "close", "done"}

TypeOK ==
    /\ topic \in [Conns \cup Publishers -> Topics]
    /\ subs \in [Topics -> SUBSET Conns]
    /\ buf \in [Conns -> Seq(Publishers)]
    /\ \A c \in Conns : Len(buf[c]) <= BufferSize
    /\ closes \in [Conns -> 0 .. 1]
    /\ once \in [Conns -> {"free", "running", "ran"}]
    /\ handler \in [Conns -> HandlerPCs]
    /\ pump \in [Conns -> PumpPCs]
    /\ gone \subseteq Conns
    /\ readers \subseteq Publishers
    /\ todo \in [Publishers -> SUBSET Conns]
    /\ pub \in [Publishers -> {"start", "sending", "done"}]
    /\ panicked \subseteq Conns

Init ==
    /\ topic \in [Conns \cup Publishers -> Topics]
    /\ subs = [t \in Topics |-> {}]
    /\ buf = [c \in Conns |-> <<>>]
    /\ closes = [c \in Conns |-> 0]
    /\ once = [c \in Conns |-> "free"]
    /\ handler = [c \in Conns |-> "start"]
    /\ pump = [c \in Conns |-> "off"]
    /\ gone = {}
    /\ readers = {}
    /\ todo = [p \in Publishers |-> {}]
    /\ pub = [p \in Publishers |-> "start"]
    /\ panicked = {}

----------------------------------------------------------------------------
(***************************************************************************)
(* Hub.subscribe and the cancel function it returns.                       *)
(***************************************************************************)

\* Hub.subscribe under the write lock.
Register(c) ==
    /\ readers = {}
    /\ subs' = [subs EXCEPT ![topic[c]] = @ \cup {c}]

\* Mutant: the map is changed without taking the lock.
UnregisterNoLock(c) == subs' = [subs EXCEPT ![topic[c]] = @ \ {c}]

\* Mutant: cancel closes the channel but leaves it registered.
UnregisterForgotten(c) == readers = {} /\ UNCHANGED subs

\* cancel, first part: delete under the write lock.
Unregister(c) ==
    /\ readers = {}
    /\ subs' = [subs EXCEPT ![topic[c]] = @ \ {c}]

\* A send or close on c's channel now panics.
Closed(c) == IF closes[c] = 1 THEN {c} ELSE {}

\* cancel, second part: close(ch), outside the lock.  A second close panics.
CloseChannel(c) ==
    /\ closes' = [closes EXCEPT ![c] = 1]
    /\ panicked' = panicked \cup Closed(c)

----------------------------------------------------------------------------
(***************************************************************************)
(* SSEHandler.BookingEvents.                                               *)
(***************************************************************************)

SSEStart(c) ==
    /\ c \in SSE
    /\ handler[c] = "start"
    /\ Register(c)
    /\ handler' = [handler EXCEPT ![c] = "serving"]
    /\ UNCHANGED <<topic, buf, closes, once, pump, gone, readers, todo, pub,
                   panicked>>

\* The loop takes a payload and writes it.  The write fails when the client is
\* gone, and also when the WriteTimeout of the server, which counts from the
\* request, has passed: then the handler returns and the payload is lost.
SSESend(c) ==
    /\ c \in SSE
    /\ handler[c] = "serving"
    /\ buf[c] # <<>>
    /\ buf' = [buf EXCEPT ![c] = Tail(@)]
    /\ \/ UNCHANGED handler
       \/ handler' = [handler EXCEPT ![c] = "unsubscribe"]
    /\ UNCHANGED <<topic, subs, closes, once, pump, gone, readers, todo, pub,
                   panicked>>

\* r.Context().Done(), or the first write fails.
SSEContextDone(c) ==
    /\ c \in SSE
    /\ handler[c] = "serving"
    /\ c \in gone
    /\ handler' = [handler EXCEPT ![c] = "unsubscribe"]
    /\ UNCHANGED <<topic, subs, buf, closes, once, pump, gone, readers, todo,
                   pub, panicked>>

\* The deferred cancel, called by this goroutine alone.
SSEUnsubscribe(c) ==
    /\ c \in SSE
    /\ handler[c] = "unsubscribe"
    /\ Unregister(c)
    /\ handler' = [handler EXCEPT ![c] = "close"]
    /\ UNCHANGED <<topic, buf, closes, once, pump, gone, readers, todo, pub,
                   panicked>>

SSEClose(c) ==
    /\ c \in SSE
    /\ handler[c] = "close"
    /\ CloseChannel(c)
    /\ handler' = [handler EXCEPT ![c] = "done"]
    /\ UNCHANGED <<topic, subs, buf, once, pump, gone, readers, todo, pub>>

----------------------------------------------------------------------------
(***************************************************************************)
(* WebSocketHandler.ListingAvailability: two goroutines that may both call *)
(* cancel, which sync.Once runs once; the second caller waits for it.      *)
(***************************************************************************)

\* Upgrade and snapshot are over: subscribe and start the read pump.
WSStart(c) ==
    /\ c \in WS
    /\ handler[c] = "start"
    /\ Register(c)
    /\ handler' = [handler EXCEPT ![c] = "serving"]
    /\ pump' = [pump EXCEPT ![c] = "reading"]
    /\ UNCHANGED <<topic, buf, closes, once, gone, readers, todo, pub, panicked>>

\* One round of "for payload := range ch": a failed write returns.
WSSend(c) ==
    /\ c \in WS
    /\ handler[c] = "serving"
    /\ buf[c] # <<>>
    /\ buf' = [buf EXCEPT ![c] = Tail(@)]
    /\ \/ UNCHANGED handler
       \/ c \in gone /\ handler' = [handler EXCEPT ![c] = "cancel"]
    /\ UNCHANGED <<topic, subs, closes, once, pump, gone, readers, todo, pub,
                   panicked>>

\* The channel is closed and drained: the loop ends.
WSRangeEnds(c) ==
    /\ c \in WS
    /\ handler[c] = "serving"
    /\ buf[c] = <<>> /\ closes[c] = 1
    /\ handler' = [handler EXCEPT ![c] = "cancel"]
    /\ UNCHANGED <<topic, subs, buf, closes, once, pump, gone, readers, todo,
                   pub, panicked>>

\* Mutant: the read pump returns without cancelling.
PumpReadFailsForgets(c) ==
    /\ c \in WS
    /\ pump[c] = "reading"
    /\ c \in gone \/ handler[c] = "done"
    /\ pump' = [pump EXCEPT ![c] = "done"]
    /\ UNCHANGED <<topic, subs, buf, closes, once, handler, gone, readers, todo,
                   pub, panicked>>

\* conn.NextReader fails: the client left or the handler closed conn.
PumpReadFails(c) ==
    /\ c \in WS
    /\ pump[c] = "reading"
    /\ c \in gone \/ handler[c] = "done"
    /\ pump' = [pump EXCEPT ![c] = "cancel"]
    /\ UNCHANGED <<topic, subs, buf, closes, once, handler, gone, readers, todo,
                   pub, panicked>>

\* The program counter of one of the two goroutines of c, before and after.
At(c, g, label) == IF g = "handler" THEN handler[c] = label ELSE pump[c] = label
Goto(c, g, label) ==
    \/ /\ g = "handler"
       /\ handler' = [handler EXCEPT ![c] = label]
       /\ UNCHANGED pump
    \/ /\ g = "pump"
       /\ pump' = [pump EXCEPT ![c] = label]
       /\ UNCHANGED handler

\* Mutant: cancel without sync.Once.
OnceDoAlways(c, g) ==
    /\ c \in WS
    /\ At(c, g, "cancel")
    /\ Goto(c, g, "unsubscribe")
    /\ UNCHANGED <<topic, subs, buf, closes, once, gone, readers, todo, pub,
                   panicked>>

\* once.Do(unsubscribe): the first caller runs it, a later one returns when
\* it has run.
OnceDo(c, g) ==
    /\ c \in WS
    /\ At(c, g, "cancel")
    /\ \/ /\ once[c] = "free"
          /\ once' = [once EXCEPT ![c] = "running"]
          /\ Goto(c, g, "unsubscribe")
       \/ /\ once[c] = "ran"
          /\ UNCHANGED once
          /\ Goto(c, g, "done")
    /\ UNCHANGED <<topic, subs, buf, closes, gone, readers, todo, pub, panicked>>

WSUnsubscribe(c, g) ==
    /\ c \in WS
    /\ At(c, g, "unsubscribe")
    /\ Unregister(c)
    /\ Goto(c, g, "close")
    /\ UNCHANGED <<topic, buf, closes, once, gone, readers, todo, pub, panicked>>

WSClose(c, g) ==
    /\ c \in WS
    /\ At(c, g, "close")
    /\ CloseChannel(c)
    /\ once' = [once EXCEPT ![c] = "ran"]
    /\ Goto(c, g, "done")
    /\ UNCHANGED <<topic, subs, buf, gone, readers, todo, pub>>

----------------------------------------------------------------------------
(***************************************************************************)
(* Hub.publish.                                                            *)
(***************************************************************************)

\* RLock; the map cannot change until RUnlock.
PublishStart(p) ==
    /\ pub[p] = "start"
    /\ readers' = readers \cup {p}
    /\ todo' = [todo EXCEPT ![p] = subs[topic[p]]]
    /\ pub' = [pub EXCEPT ![p] = "sending"]
    /\ UNCHANGED <<topic, subs, buf, closes, once, handler, pump, gone, panicked>>

\* Mutant: a plain send, which blocks on a full channel.
PublishSendBlocking(p) ==
    /\ pub[p] = "sending"
    /\ \E c \in todo[p] :
         /\ Len(buf[c]) < BufferSize
         /\ todo' = [todo EXCEPT ![p] = @ \ {c}]
         /\ panicked' = panicked \cup Closed(c)
         /\ buf' = [buf EXCEPT ![c] = Append(@, p)]
    /\ UNCHANGED <<topic, subs, closes, once, handler, pump, gone, readers, pub>>

\* One round of the loop over subs[key], in map order: a send that never
\* blocks; a full channel drops the payload, a closed one panics.
PublishSend(p) ==
    /\ pub[p] = "sending"
    /\ \E c \in todo[p] :
         /\ todo' = [todo EXCEPT ![p] = @ \ {c}]
         /\ panicked' = panicked \cup Closed(c)
         /\ buf' = IF closes[c] = 0 /\ Len(buf[c]) < BufferSize
                   THEN [buf EXCEPT ![c] = Append(@, p)]
                   ELSE buf
    /\ UNCHANGED <<topic, subs, closes, once, handler, pump, gone, readers, pub>>

\* The deferred RUnlock.
PublishEnd(p) ==
    /\ pub[p] = "sending"
    /\ todo[p] = {}
    /\ readers' = readers \ {p}
    /\ pub' = [pub EXCEPT ![p] = "done"]
    /\ UNCHANGED <<topic, subs, buf, closes, once, handler, pump, gone, todo,
                   panicked>>

\* A client closes its connection or drops off the network.
Disconnect(c) ==
    /\ c \notin gone
    /\ gone' = gone \cup {c}
    /\ UNCHANGED <<topic, subs, buf, closes, once, handler, pump, readers, todo,
                   pub, panicked>>

----------------------------------------------------------------------------

\* The steps that deliver payloads to a client: a slow client may hold them up.
Deliver(c) == SSESend(c) \/ WSSend(c)

\* The other steps of the handler and of the pump.
Serve(c) ==
    \/ SSEStart(c) \/ SSEContextDone(c) \/ SSEUnsubscribe(c) \/ SSEClose(c)
    \/ WSStart(c) \/ WSRangeEnds(c)
    \/ OnceDo(c, "handler") \/ WSUnsubscribe(c, "handler") \/ WSClose(c, "handler")
Pump(c) ==
    PumpReadFails(c) \/ OnceDo(c, "pump") \/ WSUnsubscribe(c, "pump")
    \/ WSClose(c, "pump")
Publish(p) == PublishStart(p) \/ PublishSend(p) \/ PublishEnd(p)

Over(c) == handler[c] = "done" /\ (c \in WS => pump[c] = "done")

Terminated ==
    /\ \A c \in Conns : Over(c)
    /\ \A p \in Publishers : pub[p] = "done"
    /\ UNCHANGED vars

Next ==
    \/ \E c \in Conns : Deliver(c) \/ Serve(c) \/ Pump(c) \/ Disconnect(c)
    \/ \E p \in Publishers : Publish(p)
    \/ Terminated

Spec == Init /\ [][Next]_vars

\* Every goroutine that can run does; a write to a client that is gone does
\* return.  Nothing is assumed of clients: a connected one may never read, and
\* need not disconnect.
Fairness ==
    /\ \A c \in Conns : /\ WF_vars(Serve(c)) /\ WF_vars(Pump(c))
                        /\ WF_vars(c \in gone /\ Deliver(c))
    /\ \A p \in Publishers : WF_vars(Publish(p))

FairSpec == Spec /\ Fairness

----------------------------------------------------------------------------
(***************************************************************************)
(* Properties.                                                             *)
(***************************************************************************)

\* close(ch) runs outside the lock, and two goroutines may call cancel: still
\* publish never sends on a closed channel and no channel is closed twice,
\* either of which would kill the API process.
NoPanic == panicked = {}

\* When the goroutines of a connection are over, its channel is out of the
\* hub and closed: disconnected dashboards do not accumulate in the maps.
NoLeak ==
    \A c \in Conns :
        Over(c) => closes[c] = 1 /\ \A t \in Topics : c \notin subs[t]

\* A client that disconnects is let go of by both its goroutines, although the
\* handler of a WebSocket may be blocked on an empty channel at that moment.
DisconnectedConnectionEnds == \A c \in Conns : c \in gone ~> Over(c)

\* Publishing runs inline in an HTTP handler and ends whatever the subscribers
\* do, also when none of them ever reads again.
PublishersNeverBlock == \A p \in Publishers : <>(pub[p] = "done")

============================================================================
