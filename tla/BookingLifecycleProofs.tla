----------------------- MODULE BookingLifecycleProofs -----------------------
(***************************************************************************)
(* Proofs about BookingLifecycle for any number of concurrent callers, any *)
(* lag of the replica and any set of faults.                               *)
(*                                                                         *)
(* A status is checked in one step and written in a later one, so what is  *)
(* true of the row at the check is not true at the write.  What survives   *)
(* is that the version that was checked is still in the history:           *)
(* CheckedVersion carries it from the check to the write, and              *)
(* EveryStatusWasEarned follows from it.                                   *)
(***************************************************************************)
EXTENDS BookingLifecycle, TLAPS

\* A caller about to write has read a version that permits its target.
CheckedVersion ==
    \A c \in Callers :
        pc[c] = "write" =>
            /\ readAt[c] \in 1 .. Len(history)
            /\ to[c] \in validTransitions[history[readAt[c]]]

AfterWrite == {"reread", "publish", "email", "sync", "respond"}

\* A caller past its UPDATE knows the version that has its status.
WroteItsStatus ==
    \A c \in Callers :
        pc[c] \in AfterWrite =>
            wroteAt[c] \in 1 .. Len(history) /\ history[wroteAt[c]] = to[c]

\* effects and wroteAt are only set together with a write.
AnnouncedWrite ==
    \A c \in Callers :
        /\ effects[c] # {} => wroteAt[c] # 0
        /\ wroteAt[c] # 0 => history[wroteAt[c]] = to[c]

AfterReread == {"publish", "email", "sync", "respond"}

\* Reader() never goes back: it has at least what the caller checked, and so
\* had the re-read row, which is the one announced.
ReadsForward ==
    \A c \in Callers :
        /\ readAt[c] <= ReaderVersion
        /\ pc[c] \in AfterReread => shown[c] # 0 /\ readAt[c] <= shown[c]
        /\ effects[c] # {} => shown[c] # 0 /\ readAt[c] <= shown[c]
        /\ pc[c] \in {"start", "read"} => effects[c] = {}
        /\ pc[c] \in {"write", "reread"} => effects[c] = {} /\ readAt[c] # 0

LifeInv ==
    TypeOK /\ CheckedVersion /\ WroteItsStatus /\ AnnouncedWrite
    /\ EveryStatusWasEarned /\ ReadsForward

----------------------------------------------------------------------------

\* The history only grows, at most by the target of the writing caller, and
\* keeps what it had (UPDATE in Repository.UpdateStatus).
LEMMA SetStatusAppends ==
    ASSUME TypeOK, NEW c \in Callers, SetStatus(c)
    PROVE  /\ history' \in Seq(Statuses)
           /\ Len(history') >= Len(history)
           /\ Len(history') \in Nat
           /\ \A i \in 1 .. Len(history) : history'[i] = history[i]
           /\ \A i \in 1 .. Len(history') :
                 i > Len(history) => history'[i] = to[c] /\ i = Len(history) + 1
           /\ wroteAt' = [wroteAt EXCEPT ![c] = Len(history')]
           /\ history'[Len(history')] = to[c]
<1>1. history \in Seq(Statuses) /\ Len(history) \in Nat /\ Len(history) >= 1
      /\ to[c] \in Statuses
  BY DEF TypeOK, Targets
<1>2. CASE Current = to[c]
  BY <1>1, <1>2 DEF SetStatus, Current
<1>3. CASE Current # to[c]
  <2>1. history' = Append(history, to[c])
    BY <1>3 DEF SetStatus
  <2>2. QED
    BY <2>1, <1>1 DEF SetStatus
<1>4. QED BY <1>2, <1>3

\* The three starting histories are made of valid transitions.
LEMMA LifeInit == Init => LifeInv
<1> SUFFICES ASSUME Init PROVE LifeInv
  OBVIOUS
<1>0. /\ applied \in 0 .. Len(history) /\ to \in [Callers -> Targets]
      /\ pc = [c \in Callers |-> "start"]
      /\ readAt = [c \in Callers |-> 0] /\ wroteAt = [c \in Callers |-> 0]
      /\ shown = [c \in Callers |-> 0]
      /\ effects = [c \in Callers |-> {}]
      /\ reply = [c \in Callers |-> "none"]
  BY DEF Init
<1>1. TypeOK
  <2>1. <<"requested">> \in Seq(Statuses) /\ <<"requested", "approved">> \in Seq(Statuses)
    BY DEF Statuses
  <2>2. <<"requested", "approved", "active">> \in Seq(Statuses)
    BY DEF Statuses
  <2>3. history \in Seq(Statuses)
    BY <2>1, <2>2 DEF Init
  <2>4. Len(history) \in 1 .. 3
    BY DEF Init
  <2>5. Len(history) >= 1 /\ 0 \in 0 .. Len(history)
    BY <2>4
  <2>6. pc \in [Callers -> PCs] /\ reply \in [Callers -> Replies]
    BY <1>0 DEF PCs, Replies
  <2>7. /\ readAt \in [Callers -> 0 .. Len(history)]
        /\ wroteAt \in [Callers -> 0 .. Len(history)]
        /\ shown \in [Callers -> 0 .. Len(history)]
        /\ effects \in [Callers -> SUBSET Effects]
    BY <2>5, <1>0
  <2>8. QED
    BY <2>3, <2>5, <2>6, <2>7, <1>0 DEF TypeOK
<1>2. CheckedVersion /\ WroteItsStatus /\ AnnouncedWrite
  BY <1>0 DEF CheckedVersion, WroteItsStatus, AnnouncedWrite, AfterWrite
<1>3. EveryStatusWasEarned
  <2>1. \A i \in 2 .. Len(history) :
            history[i] \in validTransitions[history[i - 1]]
    BY DEF Init, validTransitions, Statuses
  <2>2. ASSUME NEW i \in 2 .. Len(history)
        PROVE  \E j \in 1 .. (i - 1) : history[i] \in validTransitions[history[j]]
    <3>1. i - 1 \in 1 .. (i - 1)
      OBVIOUS
    <3>2. QED BY <2>1, <3>1
  <2>3. QED BY <2>2 DEF EveryStatusWasEarned
<1>4. ReadsForward
  BY <1>0, <1>1 DEF ReadsForward, AfterReread, ReaderVersion, TypeOK
<1>5. QED BY <1>1, <1>2, <1>3, <1>4 DEF LifeInv

\* Every handler step, fault and replica step preserves the types.
LEMMA LifeType == TypeOK /\ [Next]_vars => TypeOK'
<1> SUFFICES ASSUME TypeOK, [Next]_vars PROVE TypeOK'
  OBVIOUS
<1>1. CASE UNCHANGED vars
  BY <1>1 DEF TypeOK, vars
<1>2. ASSUME NEW c \in Callers, SetStatus(c), UNCHANGED <<applied, to, readAt, shown>>,
             pc' \in [Callers -> PCs], effects' \in [Callers -> SUBSET Effects],
             reply' \in [Callers -> Replies]
      PROVE  TypeOK'
  <2>1. history' \in Seq(Statuses) /\ Len(history') >= Len(history)
        /\ wroteAt' = [wroteAt EXCEPT ![c] = Len(history')] /\ Len(history') \in Nat
    BY <1>2, SetStatusAppends
  <2>2. QED BY <1>2, <2>1 DEF TypeOK
<1>3. ASSUME NEW c \in Callers, Progress(c) \/ QueryFails(c) \/ Crash(c)
      PROVE  TypeOK'
  <2>1. CASE Parse(c)
    BY <2>1 DEF Parse, Goto, Answer, TypeOK, PCs, Replies
  <2>2. CASE UpdateStatusRead(c)
    <3>1. ReaderVersion \in 0 .. Len(history)
      BY DEF ReaderVersion, TypeOK
    <3>2. QED
      BY <2>2, <3>1 DEF UpdateStatusRead, Goto, Answer, TypeOK, PCs, Replies
  <2>3. CASE UpdateStatusWrite(c)
    <3>1. /\ pc' \in [Callers -> PCs] /\ effects' \in [Callers -> SUBSET Effects]
          /\ reply' \in [Callers -> Replies]
      BY <2>3 DEF UpdateStatusWrite, Goto, TypeOK, PCs
    <3>2. QED BY <2>3, <3>1, <1>2 DEF UpdateStatusWrite
  <2>4. CASE Reread(c)
    <3>1. ReaderVersion \in 0 .. Len(history)
      BY DEF ReaderVersion, TypeOK
    <3>2. QED BY <2>4, <3>1 DEF Reread, Goto, TypeOK, PCs
  <2>5. CASE Publish(c)
    BY <2>5 DEF Publish, Perform, Goto, TypeOK, PCs, Effects
  <2>6. CASE QueueEmail(c)
    BY <2>6 DEF QueueEmail, Perform, Goto, TypeOK, PCs, Effects
  <2>7. CASE SendTransactional(c)
    BY <2>7 DEF SendTransactional, Perform, Goto, TypeOK, PCs, Effects
  <2>8. CASE RespondTransition(c)
    <3>1. Perform(c, {"owner"}) \/ UNCHANGED effects
      BY <2>8 DEF RespondTransition
    <3>2. effects' \in [Callers -> SUBSET Effects]
      <4>1. CASE Perform(c, {"owner"})
        <5>1. effects[c] \cup {"owner"} \in SUBSET Effects
          BY DEF TypeOK, Effects
        <5> QED BY <4>1, <5>1 DEF Perform, TypeOK
      <4>2. CASE UNCHANGED effects
        BY <4>2 DEF TypeOK
      <4> QED BY <3>1, <4>1, <4>2
    <3>3. QED BY <2>8, <3>2 DEF RespondTransition, Answer, TypeOK, PCs, Replies
  <2>9. CASE RespondDispute(c)
    <3>1. Perform(c, {"report"}) \/ UNCHANGED effects
      BY <2>9 DEF RespondDispute
    <3>2. effects' \in [Callers -> SUBSET Effects]
      <4>1. CASE Perform(c, {"report"})
        <5>1. effects[c] \cup {"report"} \in SUBSET Effects
          BY DEF TypeOK, Effects
        <5> QED BY <4>1, <5>1 DEF Perform, TypeOK
      <4>2. CASE UNCHANGED effects
        BY <4>2 DEF TypeOK
      <4> QED BY <3>1, <4>1, <4>2
    <3>3. QED BY <2>9, <3>2 DEF RespondDispute, Answer, TypeOK, PCs, Replies
  <2>10. CASE QueryFails(c)
    <3>1. /\ pc' \in [Callers -> PCs] /\ effects' \in [Callers -> SUBSET Effects]
          /\ reply' \in [Callers -> Replies]
      BY <2>10 DEF QueryFails, Answer, TypeOK, PCs, Replies
    <3>2. CASE SetStatus(c)
      BY <2>10, <3>1, <3>2, <1>2 DEF QueryFails
    <3>3. CASE UNCHANGED <<history, wroteAt>>
      BY <2>10, <3>1, <3>3 DEF QueryFails, TypeOK
    <3>4. QED BY <2>10, <3>2, <3>3 DEF QueryFails
  <2>11. CASE Crash(c)
    BY <2>11 DEF Crash, Goto, TypeOK, PCs
  <2>12. QED
    BY <1>3, <2>1, <2>2, <2>3, <2>4, <2>5, <2>6, <2>7, <2>8, <2>9, <2>10, <2>11
       DEF Progress
<1>4. CASE Replicate
  BY <1>4 DEF Replicate, TypeOK
<1>5. CASE Terminated
  BY <1>5 DEF Terminated, TypeOK, vars
<1>6. QED
  BY <1>1, <1>3, <1>4, <1>5 DEF Next

\* Steps that leave the history alone keep what was proved of it; only the
\* moving caller's own conjuncts need an argument.
LEMMA LifeStep == LifeInv /\ [Next]_vars => LifeInv'
<1> SUFFICES ASSUME LifeInv, [Next]_vars PROVE LifeInv'
  OBVIOUS
<1>t. TypeOK /\ TypeOK'
  BY LifeType DEF LifeInv
<1>h. history \in Seq(Statuses) /\ Len(history) \in Nat /\ Len(history) >= 1
  BY <1>t DEF TypeOK
<1>i. /\ CheckedVersion /\ WroteItsStatus /\ AnnouncedWrite /\ EveryStatusWasEarned
      /\ ReadsForward
  BY DEF LifeInv
<1>1. CASE UNCHANGED vars
  BY <1>1, <1>t, <1>i DEF vars, LifeInv, CheckedVersion, WroteItsStatus, AnnouncedWrite,
     EveryStatusWasEarned, ReadsForward, ReaderVersion
<1>2. ASSUME NEW c \in Callers, pc[c] = "write", SetStatus(c),
             UNCHANGED <<applied, to, readAt, shown, effects>>,
             pc' \in {[pc EXCEPT ![c] = "reread"], [pc EXCEPT ![c] = "done"]}
      PROVE  LifeInv'
  <2>1. /\ Len(history') >= Len(history) /\ Len(history') \in Nat
        /\ \A i \in 1 .. Len(history) : history'[i] = history[i]
        /\ \A i \in 1 .. Len(history') :
              i > Len(history) => history'[i] = to[c] /\ i = Len(history) + 1
        /\ wroteAt' = [wroteAt EXCEPT ![c] = Len(history')]
        /\ history'[Len(history')] = to[c]
    BY <1>2, <1>t, SetStatusAppends
  <2>2. EveryStatusWasEarned'
    <3> SUFFICES ASSUME NEW i \in 2 .. Len(history')
                 PROVE  \E j \in 1 .. (i - 1) :
                            history'[i] \in validTransitions[history'[j]]
      BY DEF EveryStatusWasEarned, validTransitions
    <3>1. CASE i <= Len(history)
      <4>1. i \in 2 .. Len(history)
        BY <3>1, <1>h
      <4>2. PICK j \in 1 .. (i - 1) : history[i] \in validTransitions[history[j]]
        BY <4>1, <1>i DEF EveryStatusWasEarned
      <4>3. history'[i] = history[i] /\ history'[j] = history[j]
        BY <4>1, <2>1, <1>h
      <4>4. QED BY <4>2, <4>3
    <3>2. CASE i > Len(history)
      <4>1. history'[i] = to[c] /\ i = Len(history) + 1
        BY <3>2, <2>1
      <4>2. readAt[c] \in 1 .. Len(history)
            /\ to[c] \in validTransitions[history[readAt[c]]]
        BY <1>2, <1>i DEF CheckedVersion
      <4>3. readAt[c] \in 1 .. (i - 1) /\ history'[readAt[c]] = history[readAt[c]]
        BY <4>1, <4>2, <2>1, <1>h
      <4>4. QED BY <4>1, <4>2, <4>3
    <3>3. QED BY <3>1, <3>2, <1>h
  <2>3. CheckedVersion'
    <3> SUFFICES ASSUME NEW d \in Callers, pc'[d] = "write"
                 PROVE  /\ readAt'[d] \in 1 .. Len(history')
                        /\ to'[d] \in validTransitions[history'[readAt'[d]]]
      BY DEF CheckedVersion, validTransitions
    <3>1. d # c /\ pc[d] = "write"
      BY <1>2, <1>t DEF TypeOK
    <3>2. readAt[d] \in 1 .. Len(history)
          /\ to[d] \in validTransitions[history[readAt[d]]]
      BY <3>1, <1>i DEF CheckedVersion
    <3>3. QED BY <3>2, <2>1, <1>2, <1>h
  <2>4. WroteItsStatus' /\ AnnouncedWrite'
    <3>1. ASSUME NEW d \in Callers, d # c
          PROVE  /\ wroteAt'[d] = wroteAt[d] /\ pc'[d] = pc[d]
                 /\ wroteAt[d] # 0 => history'[wroteAt[d]] = history[wroteAt[d]]
      BY <3>1, <2>1, <1>2, <1>t, <1>h DEF TypeOK
    <3>2. wroteAt'[c] = Len(history') /\ Len(history') >= 1
      BY <2>1, <1>t, <1>h DEF TypeOK
    <3>3. WroteItsStatus'
      BY <3>1, <3>2, <2>1, <1>2, <1>i, <1>h DEF WroteItsStatus
    <3>4. AnnouncedWrite'
      BY <3>1, <3>2, <2>1, <1>2, <1>i, <1>h DEF AnnouncedWrite
    <3>5. QED BY <3>3, <3>4
  <2>5. ReadsForward'
    <3>1. ReaderVersion' >= ReaderVersion /\ ReaderVersion \in Nat /\ ReaderVersion' \in Nat
      BY <1>2, <2>1, <1>t, <1>h DEF ReaderVersion, TypeOK
    <3>2. \A d \in Callers : readAt[d] \in Nat /\ shown[d] \in Nat
      BY <1>t, <1>h DEF TypeOK
    <3>3. \A d \in Callers : d # c => pc'[d] = pc[d]
      BY <1>2, <1>t DEF TypeOK
    <3>4. pc'[c] \in {"reread", "done"}
      BY <1>2, <1>t DEF TypeOK
    <3>5. QED
      BY <1>2, <1>i, <3>1, <3>2, <3>3, <3>4 DEF ReadsForward, AfterReread
  <2>6. QED BY <2>2, <2>3, <2>4, <2>5, <1>t DEF LifeInv
<1>3. ASSUME NEW c \in Callers, NEW label \in PCs \ {"write"}, NEW done,
             UNCHANGED <<history, applied, to, readAt, wroteAt>>,
             pc' = [pc EXCEPT ![c] = label],
             label \in AfterWrite => pc[c] \in AfterWrite,
             effects' = [effects EXCEPT ![c] = done],
             done # effects[c] => pc[c] \in AfterReread,
             label \in {"start", "read", "reread"} => done = {} /\ label # "reread",
             \/ shown' = shown /\ (label \in AfterReread => pc[c] \in AfterReread)
             \/ /\ shown' = [shown EXCEPT ![c] = ReaderVersion]
                /\ pc[c] = "reread" /\ done = effects[c]
      PROVE  LifeInv'
  <2>0. AfterReread \subseteq AfterWrite /\ "reread" \in AfterWrite
    BY DEF AfterReread, AfterWrite
  <2>1. EveryStatusWasEarned'
    BY <1>3, <1>i DEF EveryStatusWasEarned
  <2>2. CheckedVersion'
    BY <1>3, <1>i, <1>t DEF CheckedVersion, TypeOK
  <2>3. WroteItsStatus'
    BY <1>3, <1>i, <1>t DEF WroteItsStatus, TypeOK
  <2>4. pc[c] \in AfterWrite => wroteAt[c] # 0
    BY <1>i, <1>h DEF WroteItsStatus
  <2>5. AnnouncedWrite'
    BY <1>3, <2>0, <2>4, <1>i, <1>t DEF AnnouncedWrite, TypeOK
  <2>6. ReadsForward'
    <3>1. ReaderVersion' = ReaderVersion /\ ReaderVersion \in Nat
      BY <1>3, <1>t, <1>h DEF ReaderVersion, TypeOK
    <3>2. \A d \in Callers : readAt[d] \in Nat /\ shown[d] \in Nat
      BY <1>t, <1>h DEF TypeOK
    <3>3. ASSUME NEW d \in Callers, d # c
          PROVE  pc'[d] = pc[d] /\ effects'[d] = effects[d] /\ shown'[d] = shown[d]
      BY <3>3, <1>3, <1>t DEF TypeOK
    <3>4. pc'[c] = label /\ effects'[c] = done
      BY <1>3, <1>t DEF TypeOK
    <3>5. CASE shown' = shown /\ (label \in AfterReread => pc[c] \in AfterReread)
      BY <3>5, <1>3, <1>i, <3>1, <3>2, <3>3, <3>4 DEF ReadsForward, AfterReread
    <3>6. CASE /\ shown' = [shown EXCEPT ![c] = ReaderVersion]
               /\ pc[c] = "reread" /\ done = effects[c]
      <4>1. shown'[c] = ReaderVersion
        BY <3>6, <1>t DEF TypeOK
      <4>2. readAt[c] <= ReaderVersion /\ readAt[c] # 0 /\ effects[c] = {}
        BY <3>6, <1>i DEF ReadsForward
      <4>3. ReaderVersion # 0
        BY <4>2, <3>1, <3>2
      <4>4. QED
        BY <3>6, <1>3, <1>i, <3>1, <3>2, <3>3, <3>4, <4>1, <4>2, <4>3
           DEF ReadsForward, AfterReread
    <3>7. QED BY <1>3, <3>5, <3>6
  <2>7. QED BY <2>1, <2>2, <2>3, <2>5, <2>6, <1>t DEF LifeInv
<1>4. ASSUME NEW c \in Callers, Progress(c) \/ QueryFails(c) \/ Crash(c)
      PROVE  LifeInv'
  <2> USE <1>t, <1>h, <1>i
  <2>e. effects' = effects => effects' = [effects EXCEPT ![c] = effects[c]]
    BY DEF TypeOK
  <2>1. CASE Parse(c)
    <3>1. effects[c] = {}
      BY <2>1 DEF Parse, ReadsForward
    <3>2. QED
      BY <2>1, <2>e, <3>1, <1>3 DEF Parse, Goto, Answer, AfterWrite, AfterReread, PCs
  <2>2. CASE UpdateStatusRead(c)
    <3>1. ReaderVersion \in 0 .. Len(history)
      BY DEF ReaderVersion, TypeOK
    <3>2. UNCHANGED <<history, applied, to, wroteAt, shown, effects>>
          /\ readAt' = [readAt EXCEPT ![c] = ReaderVersion]
      BY <2>2 DEF UpdateStatusRead
    <3>3. \/ pc' = [pc EXCEPT ![c] = "done"]
          \/ /\ pc' = [pc EXCEPT ![c] = "write"]
             /\ ReaderVersion # 0
             /\ to[c] \in validTransitions[history[ReaderVersion]]
      BY <2>2 DEF UpdateStatusRead, Goto, Answer, CanTransition
    <3>4. CheckedVersion'
      <4> SUFFICES ASSUME NEW d \in Callers, pc'[d] = "write"
                   PROVE  /\ readAt'[d] \in 1 .. Len(history')
                          /\ to'[d] \in validTransitions[history'[readAt'[d]]]
        BY DEF CheckedVersion, validTransitions
      <4>1. CASE d = c
        BY <4>1, <3>1, <3>2, <3>3 DEF TypeOK
      <4>2. CASE d # c
        BY <4>2, <3>2, <3>3 DEF TypeOK, CheckedVersion
      <4>3. QED BY <4>1, <4>2
    <3>5. AnnouncedWrite' /\ EveryStatusWasEarned'
      BY <3>2 DEF AnnouncedWrite, EveryStatusWasEarned, validTransitions
    <3>6. WroteItsStatus'
      BY <3>2, <3>3 DEF TypeOK, WroteItsStatus, AfterWrite
    <3>7. ReadsForward'
      <4>1. effects[c] = {}
        BY <2>2 DEF UpdateStatusRead, ReadsForward
      <4>2. ReaderVersion' = ReaderVersion
        BY <3>2 DEF ReaderVersion
      <4>3. readAt'[c] = ReaderVersion /\ pc'[c] \in {"done", "write"}
            /\ (pc'[c] = "write" => ReaderVersion # 0)
        BY <3>2, <3>3 DEF TypeOK
      <4>4. \A d \in Callers : d # c => readAt'[d] = readAt[d] /\ pc'[d] = pc[d]
        BY <3>2, <3>3 DEF TypeOK
      <4>5. QED
        BY <3>1, <3>2, <4>1, <4>2, <4>3, <4>4 DEF ReadsForward, AfterReread
    <3>8. QED BY <3>4, <3>5, <3>6, <3>7 DEF LifeInv
  <2>3. CASE UpdateStatusWrite(c)
    BY <2>3, <1>2 DEF UpdateStatusWrite, Goto
  <2>4. CASE Reread(c)
    BY <2>4, <2>e, <1>3 DEF Reread, Goto, AfterWrite, AfterReread, PCs
  <2>5. CASE Publish(c)
    BY <2>5, <2>e, <1>3 DEF Publish, Perform, Goto, AfterWrite, AfterReread, PCs
  <2>6. CASE QueueEmail(c)
    BY <2>6, <2>e, <1>3 DEF QueueEmail, Perform, Goto, AfterWrite, AfterReread, PCs
  <2>7. CASE SendTransactional(c)
    BY <2>7, <2>e, <1>3 DEF SendTransactional, Perform, Goto, AfterWrite, AfterReread, PCs
  <2>8. CASE RespondTransition(c)
    BY <2>8, <2>e, <1>3 DEF RespondTransition, Perform, Answer, AfterWrite, AfterReread, PCs
  <2>9. CASE RespondDispute(c)
    BY <2>9, <2>e, <1>3 DEF RespondDispute, Perform, Answer, AfterWrite, AfterReread, PCs
  <2>10. CASE QueryFails(c)
    <3>1. CASE pc[c] = "write" /\ SetStatus(c)
      BY <2>10, <3>1, <1>2 DEF QueryFails, Answer
    <3>2. CASE UNCHANGED <<history, wroteAt>>
      BY <2>10, <3>2, <2>e, <1>3 DEF QueryFails, Answer, AfterWrite, AfterReread, PCs
    <3>3. QED BY <2>10, <3>1, <3>2 DEF QueryFails
  <2>11. CASE Crash(c)
    BY <2>11, <2>e, <1>3 DEF Crash, Goto, AfterWrite, AfterReread, PCs
  <2>12. QED
    BY <1>4, <2>1, <2>2, <2>3, <2>4, <2>5, <2>6, <2>7, <2>8, <2>9, <2>10, <2>11
       DEF Progress
<1>5. CASE Replicate
  <2>1. CheckedVersion' /\ WroteItsStatus' /\ AnnouncedWrite' /\ EveryStatusWasEarned'
    BY <1>5, <1>i DEF Replicate, CheckedVersion, WroteItsStatus, AnnouncedWrite,
       EveryStatusWasEarned
  <2>2. \A d \in Callers : readAt[d] \in Nat /\ applied \in Nat
    BY <1>t, <1>h DEF TypeOK
  <2>3. ReadsForward'
    BY <1>5, <1>h, <1>i, <2>2 DEF Replicate, ReadsForward, ReaderVersion
  <2>4. QED BY <1>t, <2>1, <2>3 DEF LifeInv
<1>6. CASE Terminated
  BY <1>6, <1>t, <1>i DEF Terminated, vars, LifeInv, CheckedVersion, WroteItsStatus,
     AnnouncedWrite, EveryStatusWasEarned, ReadsForward, ReaderVersion
<1>7. QED
  BY <1>1, <1>4, <1>5, <1>6 DEF Next

\* LifeInv is an invariant of the transition handlers.
LEMMA LifeInvariance == Spec => []LifeInv
BY LifeInit, LifeStep, PTL DEF Spec

----------------------------------------------------------------------------

\* Type correctness of the transition handlers.
THEOREM TypeCorrect == Spec => []TypeOK
<1>1. LifeInv => TypeOK
  BY DEF LifeInv
<1>2. QED BY <1>1, LifeInvariance, PTL

\* For any number of racing callers and any replica lag, UpdateStatus never
\* writes a status that no earlier status of the booking permits.
THEOREM EveryStatusWasEarnedHolds == Spec => []EveryStatusWasEarned
<1>1. LifeInv => EveryStatusWasEarned
  BY DEF LifeInv
<1>2. QED BY <1>1, LifeInvariance, PTL

\* Service.transition announces nothing before its own UPDATE, and the status
\* it announces, that of the re-read row, is never older than the one checked.
THEOREM EffectsFollowWriteHolds == Spec => []EffectsFollowWrite
<1>1. LifeInv => EffectsFollowWrite
  BY DEF LifeInv, AnnouncedWrite, ReadsForward, EffectsFollowWrite
<1>2. QED BY <1>1, LifeInvariance, PTL

\* No step of any handler, late or retried, moves a booking whose terminal
\* status every reader sees and that no caller is about to write.
THEOREM SettledIsFinalHolds == Spec => SettledIsFinal
<1>1. ASSUME TypeOK, [Next]_vars, Settled
      PROVE  Settled' /\ UNCHANGED history
  <2>1. ReaderVersion = Len(history) /\ Len(history) # 0
    BY <1>1 DEF ReaderVersion, Settled, TypeOK
  <2>2. ASSUME UNCHANGED history, HasReplica => applied' = applied,
               \A c \in Callers : pc'[c] # "write"
        PROVE  Settled' /\ UNCHANGED history
    BY <1>1, <2>2 DEF Settled, Current, validTransitions
  <2>3. ASSUME NEW c \in Callers, Progress(c) \/ QueryFails(c) \/ Crash(c)
        PROVE  Settled' /\ UNCHANGED history
    <3>1. CASE UpdateStatusRead(c)
      <4>1. ~CanTransition(history[ReaderVersion], to[c])
        BY <1>1, <2>1 DEF CanTransition, Settled, Current
      <4>2. pc' = [pc EXCEPT ![c] = "done"] /\ UNCHANGED <<history, applied>>
        BY <3>1, <2>1, <4>1 DEF UpdateStatusRead, Answer
      <4>3. QED BY <1>1, <2>2, <4>2 DEF Settled, TypeOK
    <3>2. pc[c] # "write"
      BY <1>1, <2>3 DEF Settled
    <3>3. CASE ~UpdateStatusRead(c)
      <4>1. /\ UNCHANGED <<history, applied>>
            /\ \E label \in PCs \ {"write"} : pc' = [pc EXCEPT ![c] = label]
        BY <2>3, <3>2, <3>3 DEF Progress, QueryFails, Crash, Parse, UpdateStatusWrite, Reread,
           Publish, QueueEmail, SendTransactional, RespondTransition, RespondDispute,
           Goto, Answer, PCs
      <4>2. QED BY <1>1, <2>2, <4>1 DEF Settled, TypeOK
    <3>4. QED BY <3>1, <3>3
  <2>4. CASE Replicate
    BY <1>1, <2>2, <2>4 DEF Replicate, Settled, TypeOK
  <2>5. CASE Terminated \/ UNCHANGED vars
    BY <1>1, <2>2, <2>5 DEF Terminated, vars, Settled
  <2>6. QED BY <1>1, <2>3, <2>4, <2>5 DEF Next
<1>2. TypeOK /\ [Next]_vars => [Settled => Settled' /\ UNCHANGED history]_vars
  BY <1>1
<1>3. QED BY <1>2, TypeCorrect, PTL DEF Spec, SettledIsFinal

============================================================================
