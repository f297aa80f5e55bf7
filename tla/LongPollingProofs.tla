------------------------- MODULE LongPollingProofs -------------------------
(***************************************************************************)
(* Proofs about long polling: types, that a report is always news, what is *)
(* overlooked, and that a shutdown costs no client its answer.  They hold  *)
(* for any number of processes, clients and writes and any limits and      *)
(* timeouts, the last one if the drain is no shorter than WriteTimeout.    *)
(***************************************************************************)
EXTENDS LongPolling, SequenceTheorems, TLAPS

Rows == 1 .. Len(stamps)

\* updated_at has whole seconds, is never in the future, and later versions do
\* not have an earlier one.
StampsOK ==
    /\ \A i \in Rows : stamps[i] % 2 = 0 /\ stamps[i] <= clock
    /\ \A i, j \in Rows : i <= j => stamps[i] <= stamps[j]

\* The cursor is the time of the last answer, which is past.
CursorOK == \A c \in Clients : since[c] = told[c] /\ told[c] <= clock

\* The client was shown a version the reader has, from before its last answer.
SeenOK ==
    \A c \in Clients :
        /\ seen[c] <= ReaderVersion
        /\ seen[c] # 0 => stamps[seen[c]] <= since[c]

\* What a handler has read, and what it made of it.
ReadOK ==
    \A c \in Clients :
        poll[c] \in {"wait", "answer"} =>
            /\ got[c] \in Rows
            /\ seen[c] <= got[c]
            /\ got[c] <= ReaderVersion
            /\ poll[c] = "wait" => stamps[got[c]] <= since[c]
            /\ poll[c] = "answer" => stamps[got[c]] > since[c]

PollInv == StampsOK /\ CursorOK /\ SeenOK /\ ReadOK

----------------------------------------------------------------------------
(***************************************************************************)
(* Types.                                                                  *)
(***************************************************************************)

\* The counter of the limiters keeps its bound, whoever counts.
LEMMA IncrTyped ==
    ASSUME count \in 0 .. MaxCount, Incr \/ UNCHANGED count
    PROVE  count' \in 0 .. MaxCount
BY APIServerAssumption DEF Incr, MaxCount

\* Whatever a limiter decides, it increments the counter or leaves it.
LEMMA GateCounts ==
    ASSUME NEW a, NEW max, Admits(a, max) \/ Rejects(a, max)
    PROVE  Incr \/ UNCHANGED count
BY DEF Admits, Rejects, Allow, Refuse

\* Boot, shutdown, crash and calls keep the types of the process state.
LEMMA ProcTyped ==
    ASSUME ServerTypeOK, NEW a \in Procs,
           \/ Main(a) \/ Boot(a) \/ Signal(a) \/ Crash(a)
           \/ CallArrives(a) \/ CallEnds(a) \/ Upgrade(a) \/ Snapshot(a)
    PROVE  ServerTypeOK'
<1> USE APIServerAssumption DEF ServerTypeOK, Phases
<1>1. CASE Boot(a)
  BY <1>1 DEF Boot, gate
<1>2. CASE CallArrives(a) \/ CallEnds(a)
  BY <1>2 DEF CallArrives, CallEnds, gate
<1>3. CASE Upgrade(a) \/ Snapshot(a)
  BY <1>3 DEF Upgrade, Snapshot, gate
<1>4. CASE Signal(a)
  BY <1>4 DEF Signal, gate
<1>5. ASSUME Gone(a) PROVE ServerTypeOK'
  <2>1. at' \in [Clients -> Procs \cup {NoProc}]
    BY <1>5 DEF Gone
  <2>2. /\ phase' \in [Procs -> Phases]
        /\ drain' \in [Procs -> 0 .. ShutdownTimeout]
        /\ late' \in [Procs -> BOOLEAN]
        /\ redis' \subseteq Procs /\ rpc' \subseteq Procs /\ upgraded' \subseteq Procs
    BY <1>5 DEF Gone
  <2> QED  BY <1>5, <2>1, <2>2 DEF Gone, gate
<1>6. CASE Crash(a)
  BY <1>5, <1>6 DEF Crash
<1>7. CASE Main(a)
  <2>1. CASE GracefulStopReturns(a)
    BY <2>1 DEF GracefulStopReturns, gate
  <2>2. CASE ShutdownReturns(a)
    BY <2>2 DEF ShutdownReturns, gate
  <2>3. CASE ShutdownTimesOut(a)
    BY <2>3 DEF ShutdownTimesOut, gate
  <2>4. CASE CloseMySQL(a)
    BY <2>4 DEF CloseMySQL, gate
  <2>5. CASE MainReturns(a)
    BY <1>5, <2>5 DEF MainReturns
  <2> QED  BY <1>7, <2>1, <2>2, <2>3, <2>4, <2>5 DEF Main
<1> QED  BY <1>1, <1>2, <1>3, <1>4, <1>6, <1>7

\* The timers stay within their bounds as time passes.
LEMMA TickTyped ==
    ASSUME ServerTypeOK, TickServer
    PROVE  ServerTypeOK'
<1> USE APIServerAssumption DEF ServerTypeOK, TickServer
<1>1. windowLeft' \in 1 .. Window /\ count' \in 0 .. MaxCount
  BY DEF TickWindow, MaxCount
<1>2. token' \in [Clients -> 0 .. TokenTTL]
  BY DEF Less
<1>3. drain' \in [Procs -> 0 .. ShutdownTimeout]
  BY DEF Less
<1> QED  BY <1>1, <1>2, <1>3

\* The second of a time has no fraction and is not after it, and a whole second
\* that is not after a time is not after its second.
LEMMA SecondFacts ==
    ASSUME NEW t \in Nat
    PROVE  /\ Second(t) \in 0 .. t
           /\ Second(t) % 2 = 0
           /\ \A u \in Nat : u % 2 = 0 /\ u <= t => u <= Second(t)
<1>1. t % 2 \in {0, 1}
  BY SMT
<1>2. CASE t % 2 = 0
  BY <1>2 DEF Second
<1>3. CASE t % 2 = 1
  <2>1. Second(t) = t - 1 /\ t >= 1
    BY <1>3 DEF Second
  <2>2. (t - 1) % 2 = 0
    BY <1>3
  <2> QED  BY <1>3, <2>1, <2>2
<1> QED  BY <1>1, <1>2, <1>3

\* The types of the part LongPolling adds.
PollTypeOK ==
    /\ clock \in 0 .. MaxClock
    /\ stamps \in Seq(0 .. MaxClock) /\ Len(stamps) >= 1
    /\ applied \in 0 .. Len(stamps)
    /\ poll \in [Clients -> {"idle", "stream", "check", "wait", "answer"}]
    /\ age \in [Clients -> 0 .. PollTimeout]
    /\ got \in [Clients -> 0 .. Len(stamps)]
    /\ since \in [Clients -> 0 .. MaxClock]
    /\ seen \in [Clients -> 0 .. Len(stamps)]
    /\ told \in [Clients -> 0 .. MaxClock]

\* A version the reader has is one of the row.
LEMMA ReaderTyped ==
    ASSUME PollTypeOK
    PROVE  ReaderVersion \in 0 .. Len(stamps)
BY LongPollingAssumption DEF PollTypeOK, ReaderVersion

\* The handlers of a client's request leave the server alone, but for at.
LEMMA HandleTyped ==
    ASSUME TypeOK, NEW c \in Clients, Handle(c) \/ StreamEnds(c)
    PROVE  TypeOK'
<1> USE APIServerAssumption, LongPollingAssumption
<1>0. PollTypeOK /\ ServerTypeOK
  BY DEF TypeOK, PollTypeOK
<1>1. CASE PollRead(c)
  BY <1>0, <1>1, ReaderTyped
     DEF TypeOK, ServerTypeOK, PollTypeOK, PollRead, server, gate, row, client
<1>2. CASE PollAgain(c)
  BY <1>0, <1>2 DEF TypeOK, ServerTypeOK, PollTypeOK, PollAgain, server, gate, row, client
<1>3. ASSUME Return(c), UNCHANGED <<server, gate, clock, row>>,
             UNCHANGED client \/ Delivered(c, got[c]) \/ Delivered(c, seen[c])
      PROVE  TypeOK'
  <2>1. ServerTypeOK'
    BY <1>0, <1>3 DEF ServerTypeOK, Return, server, gate
  <2>2. /\ poll' \in [Clients -> {"idle", "stream", "check", "wait", "answer"}]
        /\ age' \in [Clients -> 0 .. PollTimeout]
        /\ got' \in [Clients -> 0 .. Len(stamps)]
    BY <1>0, <1>3 DEF PollTypeOK, Return
  <2>3. /\ since' \in [Clients -> 0 .. MaxClock]
        /\ seen' \in [Clients -> 0 .. Len(stamps)]
        /\ told' \in [Clients -> 0 .. MaxClock]
    BY <1>0, <1>3 DEF PollTypeOK, Delivered, client
  <2> QED  BY <1>0, <1>3, <2>1, <2>2, <2>3 DEF TypeOK, PollTypeOK, row
<1>4. CASE PollFails(c)
  BY <1>3, <1>4 DEF PollFails
<1>5. CASE PollChanged(c)
  BY <1>3, <1>5 DEF PollChanged, Lost
<1>6. CASE PollTimesOut(c)
  BY <1>3, <1>6 DEF PollTimesOut, Lost
<1>7. CASE StreamEnds(c)
  BY <1>3, <1>7 DEF StreamEnds
<1> QED  BY <1>1, <1>2, <1>4, <1>5, <1>6, <1>7 DEF Handle

\* The requests that pass the gate, or do not.
LEMMA RequestTyped ==
    ASSUME TypeOK, NEW c \in Clients, NEW a \in Procs, Request(c, a)
    PROVE  TypeOK'
<1> USE APIServerAssumption, LongPollingAssumption
<1>0. ServerTypeOK
  BY DEF TypeOK
<1>1. ASSUME count' \in 0 .. MaxCount, UNCHANGED <<server, windowLeft, clock, row, age, got, client>>,
             at' \in [Clients -> Procs \cup {NoProc}],
             token' \in [Clients -> 0 .. TokenTTL],
             poll' \in [Clients -> {"idle", "stream", "check", "wait", "answer"}]
      PROVE  TypeOK'
  <2>1. ServerTypeOK'
    BY <1>0, <1>1 DEF ServerTypeOK, server
  <2> QED  BY <1>1, <2>1 DEF TypeOK, row, client
<1>2. ASSUME NEW max, Admits(a, max) \/ Rejects(a, max) PROVE count' \in 0 .. MaxCount
  BY <1>0, <1>2, GateCounts, IncrTyped DEF ServerTypeOK
<1>3. CASE Send(c, a)
  BY <1>0, <1>1, <1>2, <1>3 DEF Send, ServerTypeOK, TypeOK
<1>4. CASE SendRefused(c, a)
  BY <1>0, <1>1, <1>2, <1>4 DEF SendRefused, ServerTypeOK, TypeOK, handler
<1>5. CASE SignIn(c, a)
  <2>1. CASE Login(c, a)
    <3>1. count' \in 0 .. MaxCount
      BY <1>2, <2>1 DEF Login
    <3>2. token' \in [Clients -> 0 .. TokenTTL]
      BY <1>0, <2>1 DEF Login, ServerTypeOK
    <3>3. at' \in [Clients -> Procs \cup {NoProc}]
      BY <1>0, <2>1 DEF Login, ServerTypeOK
    <3>4. poll' \in [Clients -> {"idle", "stream", "check", "wait", "answer"}]
      BY <1>5 DEF SignIn, TypeOK, handler
    <3> QED  BY <1>1, <1>5, <2>1, <3>1, <3>2, <3>3, <3>4 DEF SignIn, Login, handler
  <2>2. CASE LoginRejected(c, a)
    BY <1>0, <1>1, <1>2, <1>5, <2>2 DEF SignIn, LoginRejected, ServerTypeOK, TypeOK, handler
  <2> QED  BY <1>5, <2>1, <2>2 DEF SignIn
<1>6. CASE OpenStream(c, a)
  BY <1>0, <1>1, <1>6 DEF OpenStream, ServerTypeOK, TypeOK, gate
<1> QED  BY <1>3, <1>4, <1>5, <1>6 DEF Request

\* Every step keeps every type.
LEMMA TypeStep ==
    ASSUME TypeOK, [Next]_vars
    PROVE  TypeOK'
<1> USE APIServerAssumption, LongPollingAssumption
<1>1. CASE Write
  <2>1. Second(clock) \in 0 .. MaxClock
    <3>1. clock \in Nat /\ clock <= MaxClock
      BY DEF TypeOK
    <3>2. Second(clock) \in 0 .. clock
      BY <3>1, SecondFacts
    <3> QED  BY <3>1, <3>2
  <2>2. stamps' \in Seq(0 .. MaxClock) /\ Len(stamps') = Len(stamps) + 1
    BY <1>1, <2>1 DEF Write, TypeOK
  <2>3. ServerTypeOK'
    BY <1>1 DEF Write, TypeOK, ServerTypeOK, server, gate
  <2>4. got' \in [Clients -> 0 .. Len(stamps')] /\ seen' \in [Clients -> 0 .. Len(stamps')]
    <3>1. got' = got /\ seen' = seen
      BY <1>1 DEF Write, handler, client
    <3>2. Len(stamps) \in Nat /\ got \in [Clients -> 0 .. Len(stamps)] /\ seen \in [Clients -> 0 .. Len(stamps)]
      BY DEF TypeOK
    <3>3. 0 .. Len(stamps) \subseteq 0 .. Len(stamps')
      BY <2>2, <3>2
    <3> QED  BY <3>1, <3>2, <3>3
  <2> QED  BY <1>1, <2>2, <2>3, <2>4 DEF Write, TypeOK, handler, client
<1>2. CASE Replicate
  BY <1>2 DEF Replicate, TypeOK, ServerTypeOK, server, gate, handler, client
<1>3. CASE Tick
  <2>1. ServerTypeOK'
    BY <1>3, TickTyped DEF Tick, TypeOK
  <2>2. age' \in [Clients -> 0 .. PollTimeout]
    BY <1>3 DEF Tick, TypeOK
  <2> QED  BY <1>3, <2>1, <2>2 DEF Tick, TypeOK, row, client
<1>4. ASSUME NEW a \in Procs, ProcStep(a) PROVE TypeOK'
  <2>1. ServerTypeOK'
    BY <1>4, ProcTyped DEF ProcStep, TypeOK
  <2>2. /\ poll' \in [Clients -> {"idle", "stream", "check", "wait", "answer"}]
        /\ age' \in [Clients -> 0 .. PollTimeout]
        /\ got' \in [Clients -> 0 .. Len(stamps)]
    BY <1>4 DEF ProcStep, TypeOK
  <2> QED  BY <1>4, <2>1, <2>2 DEF ProcStep, TypeOK, row, client
<1>5. ASSUME NEW c \in Clients, Handle(c) \/ StreamEnds(c) PROVE TypeOK'
  BY <1>5, HandleTyped
<1>6. ASSUME NEW c \in Clients, NEW a \in Procs, Request(c, a) PROVE TypeOK'
  BY <1>6, RequestTyped
<1>7. CASE UNCHANGED vars
  BY <1>7 DEF vars, TypeOK, ServerTypeOK, server, gate, row, handler, client
<1> QED  BY <1>1, <1>2, <1>3, <1>4, <1>5, <1>6, <1>7 DEF Next

\* Every variable of the API process and of long polling keeps its type; in
\* particular the counter, the windows and all timers stay within their bounds.
THEOREM TypeCorrect == Spec => []TypeOK
<1>1. Init => TypeOK
  BY APIServerAssumption, LongPollingAssumption
     DEF Init, ServerInit, TypeOK, ServerTypeOK, Phases, MaxCount
<1> QED  BY <1>1, TypeStep, PTL DEF Spec

----------------------------------------------------------------------------
(***************************************************************************)
(* The cursor, the row and what handlers have read.                        *)
(***************************************************************************)

\* The versions of the row have natural numbers as stamps.
LEMMA RowTyped ==
    ASSUME TypeOK
    PROVE  /\ Len(stamps) \in Nat
           /\ ReaderVersion \in Nat
           /\ \A i \in Rows : i \in Nat /\ stamps[i] \in Nat
<1>1. stamps \in Seq(0 .. MaxClock)
  BY DEF TypeOK
<1>2. Len(stamps) \in Nat /\ \A i \in Rows : stamps[i] \in 0 .. MaxClock
  <2>1. Len(stamps) \in Nat
    BY <1>1
  <2>2. ASSUME NEW i \in 1 .. Len(stamps) PROVE stamps[i] \in 0 .. MaxClock
    BY <1>1, ElementOfSeq
  <2> QED  BY <2>1, <2>2 DEF Rows
<1>3. 0 .. MaxClock \subseteq Nat
  BY LongPollingAssumption
<1>4. ReaderVersion \in Nat
  BY <1>2 DEF ReaderVersion, TypeOK
<1> QED  BY <1>2, <1>3, <1>4 DEF Rows

\* A change of the row: the new version is stamped with the current second.
LEMMA WriteInv ==
    ASSUME TypeOK, PollInv, Write
    PROVE  PollInv'
<1> DEFINE n == Len(stamps) + 1
<1>1. clock \in Nat /\ Len(stamps) \in Nat /\ stamps \in Seq(Int)
  BY LongPollingAssumption DEF TypeOK
<1>2. Second(clock) \in Int /\ Second(clock) <= clock /\ Second(clock) % 2 = 0
  BY <1>1, SecondFacts
<1>3. /\ Rows' = 1 .. n
      /\ stamps'[n] = Second(clock)
      /\ \A i \in Rows : stamps'[i] = stamps[i]
  BY <1>1, <1>2 DEF Write, Rows
<1>4. /\ Rows = 1 .. Len(stamps)
      /\ \A i \in Rows : stamps[i] \in Nat /\ stamps[i] <= Second(clock)
  <2>1. \A i \in Rows : stamps[i] \in Nat
    BY RowTyped
  <2>2. \A u \in Nat : u % 2 = 0 /\ u <= clock => u <= Second(clock)
    BY <1>1, SecondFacts
  <2> QED  BY <2>1, <2>2 DEF PollInv, StampsOK, Rows
<1>5. StampsOK'
  <2>1. UNCHANGED clock
    BY DEF Write
  <2>0. ASSUME NEW i \in Rows' PROVE i = n \/ (i \in Rows /\ i < n)
    <3>1. i \in 1 .. Len(stamps) + 1
      BY <1>3
    <3> QED  BY <1>1, <3>1 DEF Rows
  <2>2. ASSUME NEW i \in Rows'
        PROVE  stamps'[i] % 2 = 0 /\ stamps'[i] <= clock
    <3>1. CASE i = n
      BY <1>2, <1>3, <3>1
    <3>2. CASE i \in Rows
      BY <1>3, <3>2 DEF PollInv, StampsOK
    <3> QED  BY <2>0, <3>1, <3>2
  <2>3. ASSUME NEW i \in Rows', NEW j \in Rows', i <= j
        PROVE  stamps'[i] <= stamps'[j]
    <3>1. CASE j = n /\ i = n
      BY <1>2, <1>3, <3>1
    <3>2. CASE j = n /\ i \in Rows
      BY <1>3, <1>4, <3>2
    <3>3. CASE j \in Rows /\ j < n
      <4>1. i \in Rows
        BY <1>1, <1>3, <1>4, <2>0, <2>3, <3>3
      <4> QED  BY <1>3, <2>3, <3>3, <4>1 DEF PollInv, StampsOK
    <3> QED  BY <2>0, <3>1, <3>2, <3>3
  <2> QED  BY <2>1, <2>2, <2>3 DEF StampsOK
<1>6. CursorOK'
  BY DEF Write, client, PollInv, CursorOK
<1>7. ReaderVersion <= ReaderVersion' /\ ReaderVersion \in Int /\ ReaderVersion' \in Int
  BY <1>1 DEF Write, ReaderVersion, TypeOK
<1>8. SeenOK'
  <2> SUFFICES ASSUME NEW c \in Clients
               PROVE  /\ seen[c] <= ReaderVersion'
                      /\ seen[c] # 0 => stamps'[seen[c]] <= since[c]
    BY DEF SeenOK, Write, client
  <2>1. seen[c] \in 0 .. Len(stamps)
    BY DEF TypeOK
  <2>2. seen[c] # 0 => seen[c] \in Rows
    BY <1>1, <2>1 DEF Rows
  <2> QED  BY <1>1, <1>3, <1>7, <2>1, <2>2 DEF PollInv, SeenOK
<1>9. ReadOK'
  <2> SUFFICES ASSUME NEW c \in Clients, poll[c] \in {"wait", "answer"}
               PROVE  /\ got[c] \in Rows'
                      /\ seen[c] <= got[c]
                      /\ got[c] <= ReaderVersion'
                      /\ poll[c] = "wait" => stamps'[got[c]] <= since[c]
                      /\ poll[c] = "answer" => stamps'[got[c]] > since[c]
    BY DEF ReadOK, Write, client, handler
  <2> QED  BY <1>1, <1>3, <1>4, <1>7 DEF PollInv, ReadOK
<1> QED  BY <1>5, <1>6, <1>8, <1>9 DEF PollInv

\* Time and replication only move forward.
LEMMA ForwardInv ==
    ASSUME TypeOK, PollInv, Tick \/ Replicate
    PROVE  PollInv'
<1>1. UNCHANGED <<stamps, poll, got, since, seen, told>>
  BY DEF Tick, Replicate, row, handler, client
<1>2. clock \in Int /\ clock' \in Int /\ clock <= clock'
  BY LongPollingAssumption DEF Tick, Replicate, TypeOK
<1>3. ReaderVersion <= ReaderVersion' /\ ReaderVersion \in Int /\ ReaderVersion' \in Int
  BY DEF Tick, Replicate, row, TypeOK, ReaderVersion
<1>4. \A i \in Rows : stamps[i] \in Int
  BY LongPollingAssumption DEF TypeOK, Rows
<1>5. StampsOK'
  BY <1>1, <1>2, <1>4 DEF PollInv, StampsOK, Rows
<1>6. \A c \in Clients : told[c] \in Int /\ seen[c] \in Int /\ got[c] \in Int
  BY LongPollingAssumption DEF TypeOK
<1>7. CursorOK'
  BY <1>1, <1>2, <1>6 DEF PollInv, CursorOK
<1>8. SeenOK'
  BY <1>1, <1>3, <1>6 DEF PollInv, SeenOK
<1>9. ReadOK'
  BY <1>1, <1>3, <1>6 DEF PollInv, ReadOK, Rows
<1> QED  BY <1>5, <1>7, <1>8, <1>9 DEF PollInv

\* A step that leaves row, time and cursors alone, and ends requests or begins
\* them: no handler is then further than before.
LEMMA QuietInv ==
    ASSUME PollInv, UNCHANGED <<clock, row, client>>,
           \A c \in Clients :
               \/ poll'[c] \notin {"wait", "answer"}
               \/ poll'[c] = poll[c] /\ got'[c] = got[c]
    PROVE  PollInv'
BY DEF PollInv, StampsOK, CursorOK, SeenOK, ReadOK, Rows, ReaderVersion, row, client

\* An answer reaches the client: the cursor moves to the present, which no
\* version is later than.
LEMMA DeliveredInv ==
    ASSUME TypeOK, PollInv, NEW c \in Clients, poll[c] \in {"wait", "answer"},
           NEW shown, shown = got[c] \/ shown = seen[c],
           Delivered(c, shown), Return(c), UNCHANGED <<clock, row>>
    PROVE  PollInv'
<1>1. clock \in Int /\ ReaderVersion \in Int /\ \A i \in Rows : stamps[i] \in Int
  BY LongPollingAssumption DEF TypeOK, ReaderVersion, Rows
<1>2. UNCHANGED <<stamps, ReaderVersion, Rows, clock>>
  BY DEF row, ReaderVersion, Rows
<1>3. StampsOK'
  BY <1>2 DEF PollInv, StampsOK
<1>4. /\ since' = [since EXCEPT ![c] = clock]
      /\ told' = [told EXCEPT ![c] = clock]
      /\ seen' = [seen EXCEPT ![c] = shown]
      /\ poll' = [poll EXCEPT ![c] = "idle"]
      /\ got' = [got EXCEPT ![c] = 0]
  BY DEF Delivered, Return
<1>5. CursorOK'
  BY <1>1, <1>2, <1>4 DEF PollInv, CursorOK, TypeOK
<1>6. shown \in 0 .. Len(stamps) /\ shown <= ReaderVersion
  BY DEF TypeOK, PollInv, SeenOK, ReadOK
<1>7. shown # 0 => stamps[shown] <= clock
  <2>1. shown # 0 => shown \in Rows
    BY <1>6 DEF TypeOK, Rows
  <2> QED  BY <2>1 DEF PollInv, StampsOK
<1>8. SeenOK'
  <2> SUFFICES ASSUME NEW d \in Clients
               PROVE  /\ seen'[d] <= ReaderVersion
                      /\ seen'[d] # 0 => stamps[seen'[d]] <= since'[d]
    BY <1>2 DEF SeenOK
  <2>1. CASE d = c
    BY <1>4, <1>6, <1>7, <2>1 DEF TypeOK
  <2>2. CASE d # c
    BY <1>4, <2>2 DEF TypeOK, PollInv, SeenOK
  <2> QED  BY <2>1, <2>2
<1>9. ReadOK'
  <2> SUFFICES ASSUME NEW d \in Clients, poll'[d] \in {"wait", "answer"}
               PROVE  /\ got'[d] \in Rows
                      /\ seen'[d] <= got'[d]
                      /\ got'[d] <= ReaderVersion
                      /\ poll'[d] = "wait" => stamps[got'[d]] <= since'[d]
                      /\ poll'[d] = "answer" => stamps[got'[d]] > since'[d]
    BY <1>2 DEF ReadOK
  <2>1. d # c
    BY <1>4 DEF TypeOK
  <2> QED  BY <1>4, <2>1 DEF TypeOK, PollInv, ReadOK
<1> QED  BY <1>3, <1>5, <1>8, <1>9 DEF PollInv

\* The invariant is kept by every step.
LEMMA PollStep ==
    ASSUME TypeOK, PollInv, [Next]_vars
    PROVE  PollInv'
<1>1. CASE Write
  BY <1>1, WriteInv
<1>2. CASE Tick \/ Replicate
  BY <1>2, ForwardInv
<1>3. ASSUME NEW a \in Procs, ProcStep(a) PROVE PollInv'
  BY <1>3, QuietInv DEF ProcStep
<1>4. ASSUME NEW c \in Clients, NEW a \in Procs, Request(c, a) PROVE PollInv'
  BY <1>4, QuietInv
     DEF Request, Send, SendRefused, SignIn, OpenStream, handler, TypeOK
<1>5. ASSUME NEW c \in Clients, Return(c), UNCHANGED <<clock, row, client>> PROVE PollInv'
  BY <1>5, QuietInv DEF Return, TypeOK
<1>6. ASSUME NEW c \in Clients, PollRead(c) PROVE PollInv'
  <2>1. ReaderVersion \in Rows /\ UNCHANGED <<clock, row, client>>
    BY <1>6, LongPollingAssumption DEF PollRead, ReaderVersion, TypeOK, Rows
  <2>2. UNCHANGED <<stamps, ReaderVersion, Rows, clock, since, seen, told>>
    BY <2>1 DEF row, client, ReaderVersion, Rows
  <2>3. /\ got' = [got EXCEPT ![c] = ReaderVersion]
        /\ poll' = [poll EXCEPT ![c] = IF IsNew(c, ReaderVersion) THEN "answer" ELSE "wait"]
    BY <1>6 DEF PollRead
  <2>4. StampsOK' /\ CursorOK' /\ SeenOK'
    BY <2>2 DEF PollInv, StampsOK, CursorOK, SeenOK
  <2>5. ReadOK'
    <3> SUFFICES ASSUME NEW d \in Clients, poll'[d] \in {"wait", "answer"}
                 PROVE  /\ got'[d] \in Rows
                        /\ seen[d] <= got'[d]
                        /\ got'[d] <= ReaderVersion
                        /\ poll'[d] = "wait" => stamps[got'[d]] <= since[d]
                        /\ poll'[d] = "answer" => stamps[got'[d]] > since[d]
      BY <2>2 DEF ReadOK
    <3>1. CASE d = c
      <4>1. stamps[ReaderVersion] \in Int /\ since[c] \in Int /\ ReaderVersion \in Int
        <5>1. stamps[ReaderVersion] \in Nat /\ ReaderVersion \in Nat
          BY <2>1, RowTyped
        <5>2. since[c] \in 0 .. MaxClock
          BY DEF TypeOK
        <5> QED  BY <5>1, <5>2
      <4>2. got'[c] = ReaderVersion /\ seen[c] <= ReaderVersion
        BY <2>3 DEF TypeOK, PollInv, SeenOK
      <4>3. poll'[c] = IF stamps[ReaderVersion] > since[c] THEN "answer" ELSE "wait"
        BY <2>3 DEF TypeOK, IsNew
      <4> QED  BY <2>1, <3>1, <4>1, <4>2, <4>3
    <3>2. CASE d # c
      BY <2>3, <3>2 DEF TypeOK, PollInv, ReadOK
    <3> QED  BY <3>1, <3>2
  <2> QED  BY <2>4, <2>5 DEF PollInv
<1>7. ASSUME NEW c \in Clients, PollAgain(c) PROVE PollInv'
  BY <1>7, QuietInv DEF PollAgain, TypeOK
<1>8. ASSUME NEW c \in Clients, PollChanged(c) \/ PollTimesOut(c) PROVE PollInv'
  <2>1. Return(c) /\ UNCHANGED <<clock, row>> /\ poll[c] \in {"wait", "answer"}
    BY <1>8 DEF PollChanged, PollTimesOut
  <2>2. CASE UNCHANGED client
    BY <1>5, <2>1, <2>2
  <2>3. CASE Delivered(c, got[c])
    BY <2>1, <2>3, DeliveredInv
  <2>4. CASE Delivered(c, seen[c])
    BY <2>1, <2>4, DeliveredInv
  <2> QED  BY <1>8, <2>2, <2>3, <2>4 DEF PollChanged, PollTimesOut, Lost
<1>9. ASSUME NEW c \in Clients, PollFails(c) \/ StreamEnds(c) PROVE PollInv'
  BY <1>5, <1>9 DEF PollFails, StreamEnds
<1>10. CASE UNCHANGED vars
  BY <1>10, QuietInv DEF vars, handler
<1> QED  BY <1>1, <1>2, <1>3, <1>4, <1>6, <1>7, <1>8, <1>9, <1>10 DEF Next, Handle

\* Types and the invariant together hold always.
LEMMA PollInvariant == Spec => [](TypeOK /\ PollInv)
<1>1. Init => PollInv
  <2> SUFFICES ASSUME Init PROVE PollInv
    OBVIOUS
  <2>1. Rows = {1} /\ stamps[1] = 2 /\ clock = 2 /\ 2 % 2 = 0
    BY DEF Init, Rows
  <2>2. StampsOK
    BY <2>1 DEF StampsOK
  <2>3. CursorOK /\ ReadOK
    BY <2>1 DEF Init, CursorOK, ReadOK
  <2>4. SeenOK
    BY LongPollingAssumption DEF Init, SeenOK, ReaderVersion
  <2> QED  BY <2>2, <2>3, <2>4 DEF PollInv
<1> QED  BY <1>1, PollStep, TypeCorrect, PTL DEF Spec

\* Poll never answers with a version the client was shown before, or an older
\* one, for any number of clients, processes and changes and any lag.
THEOREM EachReportIsNewsHolds == Spec => []EachReportIsNews
<1>1. TypeOK /\ PollInv => EachReportIsNews
  <2> SUFFICES ASSUME TypeOK, PollInv, NEW c \in Clients, poll[c] = "answer"
               PROVE  got[c] > seen[c]
    BY DEF EachReportIsNews
  <2>1. /\ got[c] \in Rows /\ seen[c] \in Nat /\ seen[c] <= got[c]
        /\ stamps[got[c]] > since[c]
    BY DEF PollInv, ReadOK, TypeOK
  <2>2. seen[c] # 0 => stamps[seen[c]] <= since[c]
    BY DEF PollInv, SeenOK
  <2>3. stamps[got[c]] \in Int /\ since[c] \in Int /\ got[c] \in Int /\ got[c] # 0
    BY <2>1, LongPollingAssumption DEF TypeOK, Rows
  <2>4. seen[c] # got[c]
    BY <2>1, <2>2, <2>3
  <2> QED  BY <2>1, <2>3, <2>4
<1> QED  BY <1>1, PollInvariant, PTL

\* What Poll has read and overlooks was changed no later than in the second of
\* the last answer, for any lag, any losses and any restarts.
THEOREM OverlooksNothingLaterHolds == Spec => []OverlooksNothingLater
<1>1. TypeOK /\ PollInv => OverlooksNothingLater
  <2> SUFFICES ASSUME TypeOK, PollInv, NEW c \in Clients, poll[c] = "wait"
               PROVE  stamps[got[c]] <= Second(told[c])
    BY DEF OverlooksNothingLater
  <2>1. got[c] \in Rows /\ stamps[got[c]] <= told[c]
    BY DEF PollInv, ReadOK, CursorOK
  <2>2. stamps[got[c]] \in Nat /\ stamps[got[c]] % 2 = 0
    BY <2>1, RowTyped DEF PollInv, StampsOK
  <2>3. told[c] \in Nat
    BY DEF TypeOK
  <2>4. \A u \in Nat : u % 2 = 0 /\ u <= told[c] => u <= Second(told[c])
    BY <2>3, SecondFacts
  <2> QED  BY <2>1, <2>2, <2>4
<1> QED  BY <1>1, PollInvariant, PTL

----------------------------------------------------------------------------
(***************************************************************************)
(* Shutdown.                                                               *)
(***************************************************************************)

\* What a poll on a process that accepts nothing any more has behind it: the part
\* of the drain that is over.
Drained(c) ==
    poll[c] \in Polling =>
        /\ at[c] \in Procs
        /\ phase[at[c]] = "draining" =>
              age[c] >= WriteTimeout \/ age[c] + drain[at[c]] >= ShutdownTimeout
        /\ phase[at[c]] \in {"closing", "closed"} => age[c] >= WriteTimeout

DrainOK == \A c \in Clients : Drained(c)

LEMMA DrainTypes ==
    ASSUME TypeOK
    PROVE  /\ phase \in [Procs -> Phases] /\ drain \in [Procs -> Nat]
           /\ at \in [Clients -> Procs \cup {NoProc}]
           /\ age \in [Clients -> Nat] /\ \A c \in Clients : age[c] <= PollTimeout
           /\ DOMAIN poll = Clients
           /\ WriteTimeout \in Nat /\ PollTimeout \in Nat /\ ShutdownTimeout \in Nat
           /\ WriteTimeout <= PollTimeout /\ WriteTimeout <= ShutdownTimeout
BY APIServerAssumption, LongPollingAssumption DEF TypeOK, ServerTypeOK

\* A poll that goes on, on a process that does not move.
LEMMA PollGoesOn ==
    ASSUME UNCHANGED <<phase, drain>>, NEW c \in Clients, Drained(c),
           poll'[c] \in Polling => poll[c] \in Polling /\ at'[c] = at[c] /\ age'[c] = age[c]
    PROVE  Drained(c)'
BY DEF Drained

\* The steps of main: the drain begins with all of its time, and ends when nothing
\* is in flight or none of it is left.
LEMMA ProcDrains ==
    ASSUME TypeOK, DrainOK, NEW a \in Procs, ProcStep(a)
    PROVE  DrainOK'
<1> USE DrainTypes
<1>0. SUFFICES ASSUME NEW c \in Clients, Drained(c), poll'[c] \in Polling PROVE Drained(c)'
  BY DEF DrainOK, Drained
<1>1. poll[c] \in Polling /\ at'[c] = at[c] /\ age'[c] = age[c] /\ at[c] \in Procs
  BY <1>0 DEF ProcStep, Polling, Drained
<1>2. ASSUME UNCHANGED <<phase, drain>> PROVE Drained(c)'
  BY <1>0, <1>1, <1>2, PollGoesOn
<1>3. ASSUME at[c] # a, \A b \in Procs : b # a => phase'[b] = phase[b] /\ drain'[b] = drain[b]
      PROVE  Drained(c)'
  BY <1>0, <1>1, <1>3 DEF Drained
<1>4. CASE CallArrives(a) \/ CallEnds(a) \/ Upgrade(a) \/ Snapshot(a)
  BY <1>2, <1>4 DEF CallArrives, CallEnds, Upgrade, Snapshot
<1>5. CASE Boot(a) \/ Signal(a)
  BY <1>0, <1>1, <1>5 DEF Boot, Signal, Drained
<1>6. CASE GracefulStopReturns(a)
  BY <1>0, <1>1, <1>6 DEF GracefulStopReturns, Drained
<1>7. CASE ShutdownReturns(a)
  <2>1. at[c] # a
    BY <1>7 DEF ShutdownReturns, InFlight
  <2> QED  BY <1>3, <1>7, <2>1 DEF ShutdownReturns
<1>8. CASE ShutdownTimesOut(a)
  <2>1. CASE at[c] = a
    <3>1. age[c] >= WriteTimeout
      BY <1>0, <1>1, <1>8, <2>1 DEF ShutdownTimesOut, Drained
    <3> QED  BY <1>1, <1>8, <2>1, <3>1 DEF ShutdownTimesOut, Drained
  <2>2. CASE at[c] # a
    BY <1>3, <1>8, <2>2 DEF ShutdownTimesOut
  <2> QED  BY <2>1, <2>2
<1>9. CASE CloseMySQL(a)
  BY <1>0, <1>1, <1>9 DEF CloseMySQL, Drained
<1>10. ASSUME Gone(a) PROVE Drained(c)'
  <2>1. at[c] # a
    BY <1>1, <1>10, APIServerAssumption DEF Gone
  <2> QED  BY <1>3, <1>10, <2>1 DEF Gone
<1> QED  BY <1>4, <1>5, <1>6, <1>7, <1>8, <1>9, <1>10
         DEF ProcStep, Main, MainReturns, Crash

\* A tick takes from the drain what it adds to the age of the poll.
LEMMA TickDrains ==
    ASSUME TypeOK, DrainOK, Tick
    PROVE  DrainOK'
<1> USE DrainTypes
<1>0. SUFFICES ASSUME NEW c \in Clients, Drained(c), poll'[c] \in Polling PROVE Drained(c)'
  BY DEF DrainOK, Drained
<1>1. /\ poll[c] \in Polling /\ UNCHANGED <<poll, phase, at>> /\ at[c] \in Procs
      /\ age'[c] = IF age[c] < PollTimeout THEN age[c] + 1 ELSE age[c]
      /\ drain'[at[c]] = IF drain[at[c]] = 0 THEN 0 ELSE drain[at[c]] - 1
  BY <1>0 DEF Tick, TickServer, Less, Drained
<1>2. age[c] \in Nat /\ drain[at[c]] \in Nat /\ age[c] <= PollTimeout
  BY <1>1
<1> QED  BY <1>0, <1>1, <1>2 DEF Drained

\* Handlers and requests: a poll begins only on a process that accepts.
LEMMA RequestDrains ==
    ASSUME TypeOK, DrainOK, NEW c \in Clients,
           Handle(c) \/ StreamEnds(c) \/ \E a \in Procs : Request(c, a)
    PROVE  DrainOK'
<1> USE DrainTypes
<1>1. UNCHANGED <<phase, drain>>
  BY DEF Handle, PollRead, PollFails, PollAgain, PollChanged, PollTimesOut, StreamEnds,
         Request, Send, SendRefused, SignIn, Login, LoginRejected, OpenStream, server
<1>2. ASSUME \A d \in Clients : poll'[d] \in Polling =>
                poll[d] \in Polling /\ at'[d] = at[d] /\ age'[d] = age[d]
      PROVE  DrainOK'
  BY <1>1, <1>2, PollGoesOn DEF DrainOK
<1>3. CASE Handle(c) \/ StreamEnds(c)
  <2>1. CASE Return(c)
    BY <1>2, <2>1 DEF Return, Polling
  <2>2. CASE PollRead(c) \/ PollAgain(c)
    BY <1>2, <2>2 DEF PollRead, PollAgain, Polling
  <2> QED  BY <1>3, <2>1, <2>2 DEF Handle, StreamEnds, PollFails, PollChanged, PollTimesOut
<1>4. ASSUME NEW a \in Procs, Request(c, a) PROVE DrainOK'
  <2>1. CASE SendRefused(c, a) \/ SignIn(c, a)
    BY <1>2, <2>1 DEF SendRefused, SignIn, Login, LoginRejected, handler
  <2>2. CASE OpenStream(c, a)
    BY <1>2, <2>2 DEF OpenStream, Polling
  <2>3. CASE Send(c, a)
    <3>1. /\ at' = [at EXCEPT ![c] = a] /\ poll' = [poll EXCEPT ![c] = "check"]
          /\ age' = age /\ phase[a] \in {"serving", "stopping"}
      BY <2>3 DEF Send, Accepting
    <3>2. ASSUME NEW d \in Clients PROVE Drained(d)'
      <4>1. CASE d = c
        BY <1>1, <3>1, <4>1 DEF Drained
      <4>2. CASE d # c
        BY <1>1, <3>1, <4>2, PollGoesOn DEF DrainOK
      <4> QED  BY <4>1, <4>2
    <3> QED  BY <3>2 DEF DrainOK
  <2> QED  BY <1>4, <2>1, <2>2, <2>3 DEF Request
<1> QED  BY <1>3, <1>4

\* The processes close MySQL and their other clients only under polls that are too
\* old to be answered, whatever arrives while GracefulStop waits: the drain is as
\* long as an answer may take, and it begins after the last poll was accepted.
THEOREM ShutdownCostsNoAnswerHolds == Spec => []ShutdownCostsNoAnswer
<1>1. Init => DrainOK
  BY DEF Init, DrainOK, Drained, Polling
<1>2. ASSUME TypeOK, DrainOK, [Next]_vars PROVE DrainOK'
  <2>1. CASE Write \/ Replicate \/ UNCHANGED vars
    <3>1. UNCHANGED <<phase, drain, poll, at, age>>
      BY <2>1 DEF Write, Replicate, vars, server, handler
    <3> QED  BY <1>2, <3>1, PollGoesOn DEF DrainOK
  <2> QED  BY <1>2, <2>1, TickDrains, ProcDrains, RequestDrains DEF Next
<1>3. DrainOK => ShutdownCostsNoAnswer
  BY DEF DrainOK, Drained, ShutdownCostsNoAnswer
<1> QED  BY <1>1, <1>2, <1>3, TypeCorrect, PTL DEF Spec

============================================================================
