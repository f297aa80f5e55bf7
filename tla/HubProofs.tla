----------------------------- MODULE HubProofs -----------------------------
(***************************************************************************)
(* Proofs about Hub, for any number of connections, publishers and topics  *)
(* and any buffer size.                                                    *)
(*                                                                         *)
(* That no goroutine sends on a closed channel rests on three facts that   *)
(* only hold together: a channel leaves the map before it is closed        *)
(* (the phases below), the map does not change while a publisher holds the *)
(* read lock (Snapshot), and of the two goroutines of a WebSocket at most  *)
(* one is inside cancel (WSPhase).                                         *)
(***************************************************************************)
EXTENDS Hub, TLAPS

\* Where the handler of an SSE connection stands with its channel.
SSEPhase(c) ==
    /\ handler[c] # "cancel"
    /\ closes[c] = 1 <=> handler[c] = "done"
    /\ \A t \in Topics :
          c \in subs[t] => t = topic[c] /\ handler[c] \in {"serving", "unsubscribe"}

\* Where the two goroutines of a WebSocket stand with their channel, by the
\* state of its sync.Once.
WSPhase(c) ==
    /\ once[c] = "free" =>
          /\ closes[c] = 0
          /\ handler[c] \in {"start", "serving", "cancel"}
          /\ pump[c] \in {"off", "reading", "cancel"}
    /\ once[c] = "running" =>
          /\ closes[c] = 0
          /\ \/ handler[c] \in {"unsubscribe", "close"} /\ pump[c] \in {"reading", "cancel"}
             \/ pump[c] \in {"unsubscribe", "close"} /\ handler[c] \in {"serving", "cancel"}
    /\ once[c] = "ran" =>
          /\ closes[c] = 1
          /\ handler[c] \in {"serving", "cancel", "done"}
          /\ pump[c] \in {"reading", "cancel", "done"}
    /\ handler[c] = "start" <=> pump[c] = "off"
    /\ \A t \in Topics :
          c \in subs[t] =>
              /\ t = topic[c]
              /\ once[c] = "free" \/ handler[c] = "unsubscribe" \/ pump[c] = "unsubscribe"

\* A publisher in its loop holds the read lock and has yet to visit channels
\* that are registered now.
Snapshot ==
    \A p \in Publishers :
        /\ p \in readers <=> pub[p] = "sending"
        /\ pub[p] # "sending" => todo[p] = {}
        /\ todo[p] \subseteq subs[topic[p]]

HubInv ==
    /\ TypeOK
    /\ \A c \in SSE : SSEPhase(c)
    /\ \A c \in WS : WSPhase(c)
    /\ Snapshot
    /\ NoPanic

----------------------------------------------------------------------------

\* A registered channel is open: whatever is in the map can be sent on.
LEMMA RegisteredIsOpen ==
    ASSUME HubInv, NEW t \in Topics, NEW c \in subs[t]
    PROVE  closes[c] = 0
<1>1. c \in Conns /\ closes[c] \in 0 .. 1
  BY DEF HubInv, TypeOK
<1>2. CASE c \in SSE
  BY <1>1, <1>2 DEF HubInv, SSEPhase
<1>3. CASE c \in WS
  <2>1. once[c] \in {"free", "running", "ran"} /\ WSPhase(c)
    BY <1>1, <1>3 DEF HubInv, TypeOK
  <2>2. QED BY <2>1, <1>1 DEF WSPhase
<1>4. QED BY <1>1, <1>2, <1>3 DEF Conns

\* Nothing is registered, buffered or locked initially.
LEMMA HubInit == Init => HubInv
<1> SUFFICES ASSUME Init PROVE HubInv
  OBVIOUS
<1>1. TypeOK
  <2>1. buf \in [Conns -> Seq(Publishers)] /\ \A c \in Conns : Len(buf[c]) <= BufferSize
    BY HubAssumption DEF Init
  <2>2. handler \in [Conns -> HandlerPCs] /\ pump \in [Conns -> PumpPCs]
    BY DEF Init, HandlerPCs, PumpPCs
  <2>3. /\ subs \in [Topics -> SUBSET Conns] /\ todo \in [Publishers -> SUBSET Conns]
        /\ closes \in [Conns -> 0 .. 1] /\ once \in [Conns -> {"free", "running", "ran"}]
        /\ pub \in [Publishers -> {"start", "sending", "done"}]
    BY DEF Init
  <2>4. QED BY <2>1, <2>2, <2>3 DEF Init, TypeOK
<1>2. (\A c \in SSE : SSEPhase(c)) /\ (\A c \in WS : WSPhase(c))
  BY DEF Init, SSEPhase, WSPhase, Conns
<1>3. Snapshot /\ NoPanic
  BY DEF Init, Snapshot, NoPanic
<1>4. QED BY <1>1, <1>2, <1>3 DEF HubInv

\* Every goroutine step keeps the types and the buffer bound.
LEMMA HubType == HubInv /\ [Next]_vars => TypeOK'
<1> SUFFICES ASSUME HubInv, [Next]_vars PROVE TypeOK'
  OBVIOUS
<1> USE DEF HubInv
<1>1. CASE UNCHANGED vars
  BY <1>1 DEF TypeOK, vars
<1>2. ASSUME NEW c \in Conns, Deliver(c) PROVE TypeOK'
  <2>1. buf' = [buf EXCEPT ![c] = Tail(@)] /\ buf[c] # <<>>
    BY <1>2 DEF Deliver, SSESend, WSSend
  <2>2. Tail(buf[c]) \in Seq(Publishers) /\ Len(Tail(buf[c])) <= BufferSize
    BY <2>1, HubAssumption DEF TypeOK
  <2>3. buf' \in [Conns -> Seq(Publishers)] /\ \A d \in Conns : Len(buf'[d]) <= BufferSize
    BY <2>1, <2>2 DEF TypeOK
  <2>4. QED BY <1>2, <2>3 DEF Deliver, SSESend, WSSend, TypeOK, HandlerPCs
<1>3. ASSUME NEW c \in Conns, Serve(c) PROVE TypeOK'
  <2>1. CASE SSEStart(c)
    BY <2>1, <1>3 DEF SSEStart, Register, TypeOK, HandlerPCs
  <2>2. CASE SSEContextDone(c)
    BY <2>2, <1>3 DEF SSEContextDone, TypeOK, HandlerPCs
  <2>3. CASE SSEUnsubscribe(c)
    BY <2>3, <1>3 DEF SSEUnsubscribe, Unregister, TypeOK, HandlerPCs
  <2>4. CASE SSEClose(c)
    BY <2>4, <1>3 DEF SSEClose, CloseChannel, Closed, TypeOK, HandlerPCs
  <2>5. CASE WSStart(c)
    BY <2>5, <1>3 DEF WSStart, Register, TypeOK, HandlerPCs, PumpPCs
  <2>6. CASE WSRangeEnds(c)
    BY <2>6, <1>3 DEF WSRangeEnds, TypeOK, HandlerPCs
  <2>7. CASE OnceDo(c, "handler")
    <3>1. /\ Goto(c, "handler", "unsubscribe") \/ Goto(c, "handler", "done")
          /\ once' = once \/ once' = [once EXCEPT ![c] = "running"]
          /\ UNCHANGED <<topic, subs, buf, closes, gone, readers, todo, pub, panicked>>
      BY <2>7 DEF OnceDo
    <3>2. handler' \in [Conns -> HandlerPCs] /\ pump' \in [Conns -> PumpPCs]
      BY <3>1 DEF Goto, TypeOK, HandlerPCs, PumpPCs
    <3>3. once' \in [Conns -> {"free", "running", "ran"}]
      BY <3>1 DEF TypeOK
    <3>4. QED BY <3>1, <3>2, <3>3 DEF TypeOK
  <2>8. CASE WSUnsubscribe(c, "handler")
    BY <2>8, <1>3 DEF WSUnsubscribe, Unregister, Goto, TypeOK, HandlerPCs
  <2>9. CASE WSClose(c, "handler")
    <3>1. /\ panicked' \subseteq Conns /\ closes' = [closes EXCEPT ![c] = 1]
          /\ once' = [once EXCEPT ![c] = "ran"] /\ Goto(c, "handler", "done")
          /\ UNCHANGED <<topic, subs, buf, gone, readers, todo, pub>>
      BY <2>9 DEF WSClose, CloseChannel, Closed, TypeOK
    <3>2. handler' \in [Conns -> HandlerPCs] /\ pump' \in [Conns -> PumpPCs]
      BY <3>1 DEF Goto, TypeOK, HandlerPCs, PumpPCs
    <3>3. closes' \in [Conns -> 0 .. 1] /\ once' \in [Conns -> {"free", "running", "ran"}]
      BY <3>1 DEF TypeOK
    <3>4. QED BY <3>1, <3>2, <3>3 DEF TypeOK
  <2>10. QED
    BY <1>3, <2>1, <2>2, <2>3, <2>4, <2>5, <2>6, <2>7, <2>8, <2>9 DEF Serve
<1>4. ASSUME NEW c \in Conns, Pump(c) PROVE TypeOK'
  <2>1. CASE PumpReadFails(c)
    BY <2>1, <1>4 DEF PumpReadFails, TypeOK, PumpPCs
  <2>2. CASE OnceDo(c, "pump")
    <3>1. /\ Goto(c, "pump", "unsubscribe") \/ Goto(c, "pump", "done")
          /\ once' = once \/ once' = [once EXCEPT ![c] = "running"]
          /\ UNCHANGED <<topic, subs, buf, closes, gone, readers, todo, pub, panicked>>
      BY <2>2 DEF OnceDo
    <3>2. handler' \in [Conns -> HandlerPCs] /\ pump' \in [Conns -> PumpPCs]
      BY <3>1 DEF Goto, TypeOK, HandlerPCs, PumpPCs
    <3>3. once' \in [Conns -> {"free", "running", "ran"}]
      BY <3>1 DEF TypeOK
    <3>4. QED BY <3>1, <3>2, <3>3 DEF TypeOK
  <2>3. CASE WSUnsubscribe(c, "pump")
    BY <2>3, <1>4 DEF WSUnsubscribe, Unregister, Goto, TypeOK, PumpPCs
  <2>4. CASE WSClose(c, "pump")
    <3>1. /\ panicked' \subseteq Conns /\ closes' = [closes EXCEPT ![c] = 1]
          /\ once' = [once EXCEPT ![c] = "ran"] /\ Goto(c, "pump", "done")
          /\ UNCHANGED <<topic, subs, buf, gone, readers, todo, pub>>
      BY <2>4 DEF WSClose, CloseChannel, Closed, TypeOK
    <3>2. handler' \in [Conns -> HandlerPCs] /\ pump' \in [Conns -> PumpPCs]
      BY <3>1 DEF Goto, TypeOK, HandlerPCs, PumpPCs
    <3>3. closes' \in [Conns -> 0 .. 1] /\ once' \in [Conns -> {"free", "running", "ran"}]
      BY <3>1 DEF TypeOK
    <3>4. QED BY <3>1, <3>2, <3>3 DEF TypeOK
  <2>5. QED BY <1>4, <2>1, <2>2, <2>3, <2>4 DEF Pump
<1>5. ASSUME NEW p \in Publishers, Publish(p) PROVE TypeOK'
  <2>1. CASE PublishStart(p)
    BY <2>1, <1>5 DEF PublishStart, TypeOK
  <2>2. CASE PublishSend(p)
    <3>1. PICK c \in todo[p] :
             /\ todo' = [todo EXCEPT ![p] = @ \ {c}]
             /\ panicked' = panicked \cup Closed(c)
             /\ buf' = IF closes[c] = 0 /\ Len(buf[c]) < BufferSize
                       THEN [buf EXCEPT ![c] = Append(@, p)] ELSE buf
      BY <2>2 DEF PublishSend
    <3>2. c \in Conns
      BY <3>1 DEF TypeOK
    <3>3. Append(buf[c], p) \in Seq(Publishers) /\ Len(Append(buf[c], p)) = Len(buf[c]) + 1
          /\ Len(buf[c]) \in Nat
      BY <3>2 DEF TypeOK
    <3>4. buf' \in [Conns -> Seq(Publishers)] /\ \A d \in Conns : Len(buf'[d]) <= BufferSize
      BY <3>1, <3>2, <3>3, HubAssumption DEF TypeOK
    <3>5. panicked' \subseteq Conns
      BY <3>1, <3>2 DEF Closed, TypeOK
    <3>6. QED BY <2>2, <3>1, <3>4, <3>5 DEF PublishSend, TypeOK
  <2>3. CASE PublishEnd(p)
    BY <2>3, <1>5 DEF PublishEnd, TypeOK
  <2>4. QED BY <1>5, <2>1, <2>2, <2>3 DEF Publish
<1>6. ASSUME NEW c \in Conns, Disconnect(c) PROVE TypeOK'
  BY <1>6 DEF Disconnect, TypeOK
<1>7. CASE Terminated
  BY <1>7 DEF Terminated, TypeOK, vars
<1>8. QED BY <1>1, <1>2, <1>3, <1>4, <1>5, <1>6, <1>7 DEF Next

\* Every goroutine step keeps the phases, the snapshots and the absence of a
\* panic.
LEMMA HubStep == HubInv /\ [Next]_vars => HubInv'
<1> SUFFICES ASSUME HubInv, [Next]_vars PROVE HubInv'
  OBVIOUS
<1>t. TypeOK /\ TypeOK'
  BY HubType DEF HubInv
<1>i. /\ \A c \in SSE : SSEPhase(c)
      /\ \A c \in WS : WSPhase(c)
      /\ Snapshot /\ NoPanic
  BY DEF HubInv
<1>d. SSE \cap WS = {} /\ Conns = SSE \cup WS
  BY HubAssumption DEF Conns
<1>1. CASE UNCHANGED vars
  BY <1>1, <1>t, <1>i DEF HubInv, vars, SSEPhase, WSPhase, Snapshot, NoPanic
\* While the map changes, no publisher is in its loop.
<1>m. ASSUME readers = {}, UNCHANGED <<readers, todo, pub>>
      PROVE  Snapshot'
  BY <1>m, <1>i DEF Snapshot
\* A step of one connection's goroutines leaves the others' phases alone.
<1>f. ASSUME NEW c \in Conns, UNCHANGED topic,
             \A d \in Conns \ {c} : /\ handler'[d] = handler[d] /\ pump'[d] = pump[d]
                                    /\ once'[d] = once[d] /\ closes'[d] = closes[d],
             \A d \in Conns \ {c}, t \in Topics : d \in subs'[t] => d \in subs[t],
             c \in SSE => SSEPhase(c)', c \in WS => WSPhase(c)'
      PROVE  (\A d \in SSE : SSEPhase(d)') /\ (\A d \in WS : WSPhase(d)')
  <2>1. ASSUME NEW d \in SSE PROVE SSEPhase(d)'
    <3>1. CASE d = c
      BY <3>1, <2>1, <1>f
    <3>2. CASE d # c
      <4>1. d \in Conns \ {c} /\ SSEPhase(d)
        BY <3>2, <1>d, <1>i
      <4>2. QED BY <4>1, <1>f DEF SSEPhase
    <3>3. QED BY <3>1, <3>2
  <2>2. ASSUME NEW d \in WS PROVE WSPhase(d)'
    <3>1. CASE d = c
      BY <3>1, <2>2, <1>f
    <3>2. CASE d # c
      <4>1. d \in Conns \ {c} /\ WSPhase(d)
        BY <3>2, <1>d, <1>i
      <4>2. QED BY <4>1, <1>f DEF WSPhase
    <3>3. QED BY <3>1, <3>2
  <2>3. QED BY <2>1, <2>2
<1>2. ASSUME NEW c \in Conns, Deliver(c) PROVE HubInv'
  <2>1. /\ UNCHANGED <<topic, subs, closes, once, pump, readers, todo, pub, panicked>>
        /\ handler[c] = "serving"
        /\ \/ handler' = handler
           \/ c \in SSE /\ handler' = [handler EXCEPT ![c] = "unsubscribe"]
           \/ c \in WS /\ handler' = [handler EXCEPT ![c] = "cancel"]
    BY <1>2 DEF Deliver, SSESend, WSSend
  <2>2. c \in SSE => SSEPhase(c)'
    BY <2>1, <1>t, <1>i, <1>d DEF SSEPhase, TypeOK
  <2>3. c \in WS => WSPhase(c)'
    BY <2>1, <1>t, <1>i, <1>d DEF WSPhase, TypeOK
  <2>4. (\A d \in SSE : SSEPhase(d)') /\ (\A d \in WS : WSPhase(d)')
    BY <2>1, <2>2, <2>3, <1>f, <1>t DEF TypeOK
  <2>5. Snapshot' /\ NoPanic'
    BY <2>1, <1>i DEF Snapshot, NoPanic
  <2>6. QED BY <2>4, <2>5, <1>t DEF HubInv
<1>3. ASSUME NEW c \in SSE, Serve(c) PROVE HubInv'
  <2> c \in Conns /\ c \notin WS /\ SSEPhase(c)
    BY <1>d, <1>i
  <2>1. /\ UNCHANGED <<topic, buf, once, pump, readers, todo, pub>>
        /\ \/ /\ handler[c] = "start" /\ handler' = [handler EXCEPT ![c] = "serving"]
              /\ readers = {} /\ subs' = [subs EXCEPT ![topic[c]] = @ \cup {c}]
              /\ UNCHANGED <<closes, panicked>>
           \/ /\ handler[c] = "serving" /\ handler' = [handler EXCEPT ![c] = "unsubscribe"]
              /\ UNCHANGED <<subs, closes, panicked>>
           \/ /\ handler[c] = "unsubscribe" /\ handler' = [handler EXCEPT ![c] = "close"]
              /\ readers = {} /\ subs' = [subs EXCEPT ![topic[c]] = @ \ {c}]
              /\ UNCHANGED <<closes, panicked>>
           \/ /\ handler[c] = "close" /\ handler' = [handler EXCEPT ![c] = "done"]
              /\ closes' = [closes EXCEPT ![c] = 1] /\ panicked' = panicked \cup Closed(c)
              /\ UNCHANGED subs
    BY <1>3 DEF Serve, SSEStart, SSEContextDone, SSEUnsubscribe, SSEClose, WSStart, WSRangeEnds,
       OnceDo, WSUnsubscribe, WSClose, Register, Unregister, CloseChannel
  <2>2. SSEPhase(c)'
    BY <2>1, <1>t DEF SSEPhase, TypeOK
  <2>3. \A d \in Conns \ {c} : /\ handler'[d] = handler[d] /\ pump'[d] = pump[d]
                              /\ once'[d] = once[d] /\ closes'[d] = closes[d]
    BY <2>1, <1>t DEF TypeOK
  <2>4. \A d \in Conns \ {c}, t \in Topics : d \in subs'[t] => d \in subs[t]
    <3>1. \/ subs' = subs
          \/ subs' = [subs EXCEPT ![topic[c]] = @ \cup {c}]
          \/ subs' = [subs EXCEPT ![topic[c]] = @ \ {c}]
      BY <2>1
    <3>2. topic[c] \in Topics /\ subs \in [Topics -> SUBSET Conns]
      BY <1>t DEF TypeOK
    <3>3. QED BY <3>1, <3>2
  <2>5. (\A d \in SSE : SSEPhase(d)') /\ (\A d \in WS : WSPhase(d)')
    <3>1. UNCHANGED topic
      BY <2>1
    <3>2. QED BY <3>1, <2>2, <2>3, <2>4, <1>f
  <2>6. Snapshot'
    BY <2>1, <1>m, <1>i DEF Snapshot
  <2>7. panicked' = panicked
    BY <2>1 DEF SSEPhase, Closed
  <2>8. NoPanic'
    BY <2>7, <1>i DEF NoPanic
  <2>9. QED BY <2>5, <2>6, <2>8, <1>t DEF HubInv
<1>4. ASSUME NEW c \in WS, Serve(c) \/ Pump(c) PROVE HubInv'
  <2> c \in Conns /\ c \notin SSE /\ WSPhase(c)
    BY <1>d, <1>i
  <2>1. UNCHANGED <<topic, buf, readers, todo, pub>>
    BY <1>4 DEF Serve, Pump, SSEStart, SSEContextDone, SSEUnsubscribe, SSEClose, WSStart,
       WSRangeEnds, PumpReadFails, OnceDo, WSUnsubscribe, WSClose
  <2>2. ASSUME NEW g \in {"handler", "pump"}, OnceDo(c, g)
        PROVE  WSPhase(c)' /\ UNCHANGED <<subs, closes, panicked>>
               /\ \A d \in Conns \ {c} : handler'[d] = handler[d] /\ pump'[d] = pump[d]
                                          /\ once'[d] = once[d]
    BY <2>2, <1>t DEF OnceDo, At, Goto, WSPhase, TypeOK
  <2>3. ASSUME NEW g \in {"handler", "pump"}, WSUnsubscribe(c, g)
        PROVE  WSPhase(c)' /\ UNCHANGED <<once, closes, panicked>> /\ readers = {}
               /\ subs' = [subs EXCEPT ![topic[c]] = @ \ {c}]
               /\ \A d \in Conns \ {c} : handler'[d] = handler[d] /\ pump'[d] = pump[d]
    BY <2>3, <1>t DEF WSUnsubscribe, Unregister, At, Goto, WSPhase, TypeOK
  <2>4. ASSUME NEW g \in {"handler", "pump"}, WSClose(c, g)
        PROVE  WSPhase(c)' /\ UNCHANGED subs /\ closes[c] = 0
               /\ panicked' = panicked \cup Closed(c)
               /\ \A d \in Conns \ {c} : handler'[d] = handler[d] /\ pump'[d] = pump[d]
                                          /\ once'[d] = once[d] /\ closes'[d] = closes[d]
    <3>1. once[c] = "running" /\ closes[c] = 0
      BY <2>4, <1>t DEF WSClose, At, WSPhase, TypeOK
    <3>2. QED BY <2>4, <3>1, <1>t DEF WSClose, CloseChannel, At, Goto, WSPhase, TypeOK
  <2>5. CASE WSStart(c)
    <3>1. WSPhase(c)'
      BY <2>5, <1>t DEF WSStart, Register, WSPhase, TypeOK
    <3>2. (\A d \in SSE : SSEPhase(d)') /\ (\A d \in WS : WSPhase(d)')
      BY <2>5, <3>1, <1>f, <1>t DEF WSStart, Register, TypeOK
    <3>3. Snapshot' /\ NoPanic'
      BY <2>5, <1>m, <1>i DEF WSStart, Register, NoPanic
    <3>4. QED BY <3>2, <3>3, <1>t DEF HubInv
  <2>6. CASE WSRangeEnds(c) \/ PumpReadFails(c)
    <3>1. WSPhase(c)'
      BY <2>6, <1>t DEF WSRangeEnds, PumpReadFails, WSPhase, TypeOK
    <3>2. (\A d \in SSE : SSEPhase(d)') /\ (\A d \in WS : WSPhase(d)')
      BY <2>6, <3>1, <1>f, <1>t DEF WSRangeEnds, PumpReadFails, TypeOK
    <3>3. Snapshot' /\ NoPanic'
      BY <2>6, <1>i DEF WSRangeEnds, PumpReadFails, Snapshot, NoPanic
    <3>4. QED BY <3>2, <3>3, <1>t DEF HubInv
  <2>7. ASSUME NEW g \in {"handler", "pump"},
               OnceDo(c, g) \/ WSUnsubscribe(c, g) \/ WSClose(c, g)
        PROVE  HubInv'
    <3>1. (\A d \in SSE : SSEPhase(d)') /\ (\A d \in WS : WSPhase(d)')
      BY <2>7, <2>1, <2>2, <2>3, <2>4, <1>f, <1>t DEF TypeOK
    <3>2. Snapshot'
      <4>1. CASE UNCHANGED subs
        BY <4>1, <2>1, <1>i DEF Snapshot
      <4>2. CASE readers = {}
        BY <4>2, <2>1, <1>m
      <4>3. QED BY <4>1, <4>2, <2>7, <2>2, <2>3, <2>4
    <3>3. NoPanic'
      BY <2>7, <2>2, <2>3, <2>4, <1>i DEF NoPanic, Closed
    <3>4. QED BY <3>1, <3>2, <3>3, <1>t DEF HubInv
  <2>8. QED
    BY <1>4, <2>5, <2>6, <2>7
       DEF Serve, Pump, SSEStart, SSEContextDone, SSEUnsubscribe, SSEClose
<1>5. ASSUME NEW p \in Publishers, Publish(p) PROVE HubInv'
  <2>1. UNCHANGED <<topic, subs, closes, once, handler, pump>>
    BY <1>5 DEF Publish, PublishStart, PublishSend, PublishEnd
  <2>2. (\A d \in SSE : SSEPhase(d)') /\ (\A d \in WS : WSPhase(d)')
    BY <2>1, <1>i DEF SSEPhase, WSPhase
  <2>3. Snapshot'
    <3>1. CASE PublishStart(p)
      BY <3>1, <1>5, <1>i, <1>t DEF PublishStart, Snapshot, TypeOK
    <3>2. CASE PublishSend(p)
      BY <3>2, <1>5, <1>i, <1>t DEF PublishSend, Snapshot, TypeOK
    <3>3. CASE PublishEnd(p)
      BY <3>3, <1>5, <1>i, <1>t DEF PublishEnd, Snapshot, TypeOK
    <3>4. QED BY <1>5, <3>1, <3>2, <3>3 DEF Publish
  <2>4. NoPanic'
    <3>1. CASE PublishSend(p)
      <4>1. PICK c \in todo[p] : panicked' = panicked \cup Closed(c)
        BY <3>1 DEF PublishSend
      <4>2. c \in subs[topic[p]] /\ topic[p] \in Topics
        BY <4>1, <1>i, <1>t DEF Snapshot, TypeOK
      <4>3. closes[c] = 0
        BY <4>2, RegisteredIsOpen
      <4>4. QED BY <4>1, <4>3, <1>i DEF NoPanic, Closed
    <3>2. CASE PublishStart(p) \/ PublishEnd(p)
      BY <3>2, <1>i DEF PublishStart, PublishEnd, NoPanic
    <3>3. QED BY <1>5, <3>1, <3>2 DEF Publish
  <2>5. QED BY <2>2, <2>3, <2>4, <1>t DEF HubInv
<1>6. ASSUME NEW c \in Conns, Disconnect(c) PROVE HubInv'
  BY <1>6, <1>t, <1>i DEF Disconnect, HubInv, SSEPhase, WSPhase, Snapshot, NoPanic
<1>7. ASSUME NEW c \in SSE, Pump(c) PROVE FALSE
  BY <1>7, <1>d DEF Pump, PumpReadFails, OnceDo, WSUnsubscribe, WSClose
<1>8. CASE Terminated
  BY <1>8, <1>1 DEF Terminated
<1>9. QED
  BY <1>1, <1>2, <1>3, <1>4, <1>5, <1>6, <1>7, <1>8, <1>d DEF Next

\* HubInv is an invariant of the hub and its users.
LEMMA HubInvariance == Spec => []HubInv
BY HubInit, HubStep, PTL DEF Spec

----------------------------------------------------------------------------

\* Type correctness; in particular no channel ever holds more than
\* subscriberBufferSize payloads.
THEOREM TypeCorrect == Spec => []TypeOK
BY HubInvariance, PTL DEF HubInv

\* Hub.publish never sends on a closed channel and cancel never closes one
\* twice, for any number of dashboards, viewers and publishers.
THEOREM NoPanicHolds == Spec => []NoPanic
BY HubInvariance, PTL DEF HubInv

\* A connection whose goroutines have returned is out of the hub's maps.
THEOREM NoLeakHolds == Spec => []NoLeak
<1>1. HubInv => NoLeak
  <2> SUFFICES ASSUME HubInv, NEW c \in Conns, Over(c)
               PROVE  closes[c] = 1 /\ \A t \in Topics : c \notin subs[t]
    BY DEF NoLeak
  <2>1. closes[c] = 1
    <3>1. CASE c \in SSE
      BY <3>1 DEF HubInv, SSEPhase, Over
    <3>2. CASE c \in WS
      BY <3>2 DEF HubInv, WSPhase, Over, TypeOK
    <3>3. QED BY <3>1, <3>2 DEF Conns
  <2>2. QED BY <2>1, RegisteredIsOpen
<1>2. QED BY <1>1, HubInvariance, PTL

============================================================================
