------------------------- MODULE BufferTimersProofs -------------------------
(***************************************************************************)
(* Proofs about BufferTimers, for any notifiers, periods, capacities and   *)
(* numbers of resets: a notification that is held back is on its way to be *)
(* reported, and no period outlasts its maximum.                           *)
(***************************************************************************)
EXTENDS BufferTimers, TLAPS

\* wait is in a tick, and holds timers.mux.
Ticking == wpc \in {"active", "activeTick", "arm", "start"}

\* Who holds timers.mux, what is being ticked, what Run has in hand.
LockInv ==
    /\ Ticking => timersMux = "wait" /\ cpc # "stopped"
    /\ cpc = "reset" => timersMux = "caller"
    /\ cpc \in {"lock", "reset"} => cid # None
    /\ Ticking \/ wpc = "tick" <=> cur # None
    /\ cur # None => cur \in timers \/ cpc = "stopped"
    /\ cpc = "stopped" => timers = {}
    /\ rpc = "receive" <=> rid = None

\* The time.Timer of a period that is about to begin is running.
ArmInv ==
    /\ wpc \in {"arm", "start"} => ~isActive[cur]
    /\ wpc = "start" => dueIn[cur] \in 1..MaxPeriod

\* An active timer has a goroutine that will report it, and one that stops
\* being active in a tick has just been reported.
ActiveInv ==
    /\ \A n \in Ids : isActive[n] => Buffered(n) \/ cpc = "stopped"
    /\ wpc = "activeTick" /\ ~isActive[cur] => Queued(cur)

TickInv ==
    LockInv /\ ArmInv /\ ActiveInv /\ NoLostTick /\ DueByDeadline

Ind == TypeOK /\ TickInv

-----------------------------------------------------------------------------
(* Queues.                                                                 *)

\* A queue holds what it held, and what is appended.
LEMMA AppendToSet ==
    ASSUME NEW s \in Seq(Ids), NEW n \in Ids
    PROVE  /\ Append(s, n) \in Seq(Ids) /\ Len(Append(s, n)) = Len(s) + 1
           /\ ToSet(Append(s, n)) = ToSet(s) \cup {n}
<1>1. /\ Append(s, n) \in Seq(Ids) /\ Len(Append(s, n)) = Len(s) + 1
      /\ DOMAIN Append(s, n) = 1..Len(s) + 1 /\ DOMAIN s = 1..Len(s)
      /\ Len(s) \in Nat
      /\ \A i \in 1..Len(s) : Append(s, n)[i] = s[i]
      /\ Append(s, n)[Len(s) + 1] = n
  OBVIOUS
<1>2. ToSet(Append(s, n)) \subseteq ToSet(s) \cup {n}
  <2>1. ASSUME NEW i \in 1..Len(s) + 1 PROVE Append(s, n)[i] \in ToSet(s) \cup {n}
    <3>1. CASE i = Len(s) + 1
      BY <1>1, <3>1
    <3>2. CASE i # Len(s) + 1
      <4>1. i \in DOMAIN s /\ Append(s, n)[i] = s[i]
        BY <1>1, <3>2
      <4>2. QED
        BY <4>1 DEF ToSet
    <3>3. QED
      BY <3>1, <3>2
  <2>2. QED
    BY <1>1, <2>1 DEF ToSet
<1>3. n \in ToSet(Append(s, n))
  BY <1>1 DEF ToSet
<1>4. ToSet(s) \subseteq ToSet(Append(s, n))
  <2>1. ASSUME NEW i \in 1..Len(s) PROVE s[i] \in ToSet(Append(s, n))
    <3>1. i \in DOMAIN Append(s, n) /\ Append(s, n)[i] = s[i]
      BY <1>1
    <3>2. QED
      BY <3>1 DEF ToSet
  <2>2. QED
    BY <1>1, <2>1 DEF ToSet
<1>5. QED
  BY <1>1, <1>2, <1>3, <1>4

\* A queue holds its head and what is behind it.
LEMMA HeadAndTail ==
    ASSUME NEW s \in Seq(Ids), s # << >>
    PROVE  /\ Head(s) \in Ids /\ Tail(s) \in Seq(Ids) /\ Len(Tail(s)) = Len(s) - 1
           /\ ToSet(s) = ToSet(Tail(s)) \cup {Head(s)}
<1>1. /\ Head(s) = s[1] /\ Len(s) \in Nat \ {0}
      /\ Head(s) \in Ids /\ Tail(s) \in Seq(Ids) /\ Len(Tail(s)) = Len(s) - 1
      /\ \A i \in 1..Len(Tail(s)) : Tail(s)[i] = s[i + 1]
  OBVIOUS
<1>2. ToSet(s) \subseteq ToSet(Tail(s)) \cup {Head(s)}
  <2>1. ASSUME NEW i \in 1..Len(s) PROVE s[i] \in ToSet(Tail(s)) \cup {Head(s)}
    <3>1. CASE i = 1
      BY <1>1, <3>1
    <3>2. CASE i # 1
      <4>1. i - 1 \in DOMAIN Tail(s) /\ Tail(s)[i - 1] = s[i]
        BY <1>1, <3>2
      <4>2. Tail(s)[i - 1] \in ToSet(Tail(s))
        BY <4>1 DEF ToSet
      <4>3. QED
        BY <4>1, <4>2
    <3>3. QED
      BY <3>1, <3>2
  <2>2. QED
    BY <2>1 DEF ToSet
<1>3. ToSet(Tail(s)) \cup {Head(s)} \subseteq ToSet(s)
  BY <1>1 DEF ToSet
<1>4. QED
  BY <1>1, <1>2, <1>3

-----------------------------------------------------------------------------
(* The invariant.                                                          *)

\* A new set of timers satisfies the invariant.
LEMMA InitInd == Init => Ind
<1> SUFFICES ASSUME Init PROVE Ind
  OBVIOUS
<1> USE BufferAssumption DEF Init
<1>1. TypeOK
  <2>1. /\ timersMux \in {None, "wait", "caller"} /\ timers \subseteq Ids
        /\ ch \in Seq(Ids) /\ Len(ch) <= ChCap
        /\ bufferTrigger \in Seq(Ids) /\ Len(bufferTrigger) <= TriggerCap
    OBVIOUS
  <2>2. /\ mux \in [Ids -> {None} \cup Slots] /\ isActive \in [Ids -> BOOLEAN]
        /\ deadline \in [Ids -> 0..MaxPeriod]
        /\ cancelTick \in [Ids -> {None} \cup Slots]
        /\ dueIn \in [Ids -> {Off} \cup 0..MaxPeriod]
        /\ fired \in [Ids -> BOOLEAN] /\ pending \in [Ids -> BOOLEAN]
    OBVIOUS
  <2>3. /\ gpc \in [Ids -> [Slots -> {"none", "select", "lock", "send"}]]
        /\ cancelled \in [Ids -> [Slots -> BOOLEAN]]
    OBVIOUS
  <2>4. /\ rpc \in {"receive", "lock", "trigger"} /\ rid \in Ids \cup {None}
        /\ wpc \in {"select", "update", "tick", "active", "activeTick", "arm",
                    "start"}
        /\ cur \in Ids \cup {None} /\ toUpdate \subseteq Ids
        /\ cpc \in {"idle", "lock", "reset", "stopped"}
        /\ cid \in Ids \cup {None} /\ resets \in 0..MaxResets
    OBVIOUS
  <2>5. QED
    BY <2>1, <2>2, <2>3, <2>4 DEF TypeOK
<1>2. TickInv
  BY DEF TickInv, LockInv, Ticking, ArmInv, ActiveInv, NoLostTick, DueByDeadline
<1>3. QED
  BY <1>1, <1>2 DEF Ind

\* The next length of a period is one.
LEMMA SnoozeType ==
    ASSUME TypeOK, NEW n \in Ids
    PROVE  /\ SnoozedTo(n) \in {Off} \cup 0..MaxPeriod
           /\ SnoozedTo(n) = 0 => dueIn[n] = 0
           /\ isActive[n] /\ dueIn[n] # Off /\ dueIn[n] <= deadline[n] =>
                SnoozedTo(n) # Off /\ SnoozedTo(n) <= deadline[n]
           /\ isActive[n] /\ SnoozedTo(n) # dueIn[n] => SnoozedTo(n) <= deadline[n]
           /\ SnoozedTo(n) = Off => dueIn[n] = Off
<1>1. /\ dueIn[n] \in {Off} \cup 0..MaxPeriod /\ deadline[n] \in 0..MaxPeriod
      /\ isActive[n] \in BOOLEAN
  BY DEF TypeOK
<1>2. CASE ~isActive[n] \/ deadline[n] = 0
  BY <1>1, <1>2 DEF SnoozedTo
<1>3. CASE isActive[n] /\ deadline[n] # 0
  BY <1>1, <1>3, BufferAssumption DEF SnoozedTo, Off
<1>4. QED
  BY <1>2, <1>3

\* What the reset of an active timer does.
LEMMA ResetEffect ==
    ASSUME ResetTimer, isActive[cid]
    PROVE  /\ isActive' = [isActive EXCEPT ![cid] = FALSE]
           /\ cancelled' = [cancelled EXCEPT ![cid] =
                [g \in Slots |-> @[g] \/ g = cancelTick[cid]]]
           /\ pending' = [pending EXCEPT ![cid] = wpc = "tick" /\ cur = cid]
BY Zenon DEF ResetTimer

\* Every step keeps the types.
LEMMA TypeStep ==
    ASSUME TypeOK, LockInv, [Next]_vars
    PROVE  TypeOK'
<1> USE BufferAssumption
    DEF TypeOK, vars, timerVars, goVars, runVars, waitVars, callVars
<1>1. CASE WaitData
  BY <1>1 DEF WaitData
<1>2. ASSUME NEW n \in Ids, UpdateNext(n) PROVE TypeOK'
  BY <1>2 DEF UpdateNext
<1>3. CASE WaitReturns
  BY <1>3 DEF WaitReturns
<1>4. CASE WaitTrigger
  BY <1>4 DEF WaitTrigger
<1>5. CASE TickLock
  BY <1>5 DEF TickLock
<1>6. CASE TickIsActive
  BY <1>6 DEF TickIsActive
<1>7. CASE ActiveTick
  <2>1. cur \in Ids
    BY <1>7 DEF ActiveTick, LockInv, Ticking
  <2>2. SnoozedTo(cur) \in {Off} \cup 0..MaxPeriod
    BY <2>1, SnoozeType
  <2>3. dueIn' \in [Ids -> {Off} \cup 0..MaxPeriod]
    BY <1>7, <2>2 DEF ActiveTick
  <2>4. QED
    BY <1>7, <2>3 DEF ActiveTick, TickReturns
<1>8. CASE InactiveArm
  <2>1. MinPeriod \in {Off} \cup 0..MaxPeriod
    BY DEF Off
  <2>2. dueIn' \in [Ids -> {Off} \cup 0..MaxPeriod]
    BY <1>8, <2>1 DEF InactiveArm
  <2>3. QED
    BY <1>8, <2>2 DEF InactiveArm
<1>9. CASE InactiveStart
  <2>1. PICK g \in Slots :
          /\ gpc' = [gpc EXCEPT ![cur][g] = "select"]
          /\ cancelled' = [cancelled EXCEPT ![cur][g] = FALSE]
          /\ cancelTick' = [cancelTick EXCEPT ![cur] = g]
    BY <1>9 DEF InactiveStart
  <2>2. /\ gpc' \in [Ids -> [Slots -> {"none", "select", "lock", "send"}]]
        /\ cancelled' \in [Ids -> [Slots -> BOOLEAN]]
        /\ cancelTick' \in [Ids -> {None} \cup Slots]
    BY <2>1
  <2>3. QED
    BY <1>9, <2>2 DEF InactiveStart, TickReturns
<1>10. ASSUME NEW n \in Ids, Fire(n) PROVE TypeOK'
  BY <1>10 DEF Fire
<1>11. ASSUME NEW n \in Ids, NEW g \in Slots, ReceiveC(n, g) PROVE TypeOK'
  BY <1>11 DEF ReceiveC
<1>12. ASSUME NEW n \in Ids, NEW g \in Slots, ReceiveCancel(n, g) PROVE TypeOK'
  BY <1>12 DEF ReceiveCancel, Forgotten
<1>13. ASSUME NEW n \in Ids, NEW g \in Slots, LockTimer(n, g) PROVE TypeOK'
  BY <1>13 DEF LockTimer
<1>14. ASSUME NEW n \in Ids, NEW g \in Slots, Send(n, g) PROVE TypeOK'
  <2>1. ch' \in Seq(Ids) /\ Len(ch') <= ChCap
    BY <1>14, AppendToSet DEF Send
  <2>2. /\ gpc' \in [Ids -> [Slots -> {"none", "select", "lock", "send"}]]
        /\ cancelled' \in [Ids -> [Slots -> BOOLEAN]]
        /\ cancelTick' \in [Ids -> {None} \cup Slots]
    BY <1>14 DEF Send, Forgotten
  <2>3. QED
    BY <1>14, <2>1, <2>2 DEF Send
<1>15. CASE RunReceive
  BY <1>15, HeadAndTail DEF RunReceive
<1>16. CASE RunLock
  BY <1>16 DEF RunLock
<1>17. CASE RunTrigger
  <2>1. bufferTrigger' \in Seq(Ids) /\ Len(bufferTrigger') <= TriggerCap
    BY <1>17, AppendToSet DEF RunTrigger, LockInv
  <2>2. QED
    BY <1>17, <2>1 DEF RunTrigger
<1>18. ASSUME NEW n \in Ids, Add(n) \/ BufferReset(n) PROVE TypeOK'
  <2>1. CASE Add(n)
    BY <2>1 DEF Add
  <2>2. CASE BufferReset(n)
    <3>1. resets' \in 0..MaxResets
      BY <2>2 DEF BufferReset
    <3>2. QED
      BY <2>2, <3>1 DEF BufferReset
  <2>3. QED
    BY <1>18, <2>1, <2>2
<1>19. CASE ResetLock
  BY <1>19 DEF ResetLock
<1>20. CASE ResetTimer
  <2>1. cid \in Ids
    BY <1>20 DEF ResetTimer, LockInv
  <2>2. CASE isActive[cid]
    <3>1. isActive' \in [Ids -> BOOLEAN]
      BY <1>20, <2>2, ResetEffect
    <3>2. cancelled' \in [Ids -> [Slots -> BOOLEAN]]
      <4> DEFINE row == [g \in Slots |-> cancelled[cid][g] \/ g = cancelTick[cid]]
      <4>1. row \in [Slots -> BOOLEAN]
        OBVIOUS
      <4>2. cancelled' = [cancelled EXCEPT ![cid] = row]
        BY <1>20, <2>2, ResetEffect, Zenon
      <4> HIDE DEF row
      <4>3. QED
        BY <4>1, <4>2
    <3>3. pending' \in [Ids -> BOOLEAN]
      BY <1>20, <2>2 DEF ResetTimer
    <3>4. QED
      BY <1>20, <3>1, <3>2, <3>3 DEF ResetTimer
  <2>3. CASE ~isActive[cid]
    BY <1>20, <2>3 DEF ResetTimer
  <2>4. QED
    BY <2>2, <2>3
<1>21. CASE Stop
  BY <1>21 DEF Stop
<1>22. CASE TimePasses
  <2>1. /\ dueIn' \in [Ids -> {Off} \cup 0..MaxPeriod]
        /\ deadline' \in [Ids -> 0..MaxPeriod]
    BY <1>22 DEF TimePasses, LessOne, Off
  <2>2. QED
    BY <1>22, <2>1 DEF TimePasses
<1>23. CASE UNCHANGED vars
  BY <1>23
<1>24. QED
  BY <1>1, <1>2, <1>3, <1>4, <1>5, <1>6, <1>7, <1>8, <1>9, <1>10, <1>11,
     <1>12, <1>13, <1>14, <1>15, <1>16, <1>17, <1>18, <1>19, <1>20, <1>21,
     <1>22, <1>23 DEF Next, WaitStep, GoStep, RunStep, ResetStep

\* Every step leaves timers.mux with one goroutine.
LEMMA LockStep ==
    ASSUME TypeOK, LockInv, [Next]_vars
    PROVE  LockInv'
<1> USE BufferAssumption
    DEF TypeOK, LockInv, Ticking, vars, timerVars, goVars, runVars, waitVars,
        callVars
<1>1. CASE WaitData \/ WaitReturns \/ WaitTrigger
  BY <1>1 DEF WaitData, WaitReturns, WaitTrigger
<1>2. ASSUME NEW n \in Ids, UpdateNext(n) PROVE LockInv'
  BY <1>2 DEF UpdateNext
<1>3. CASE TickLock
  BY <1>3 DEF TickLock
<1>4. CASE TickIsActive
  BY <1>4 DEF TickIsActive
<1>5. CASE ActiveTick \/ InactiveStart
  BY <1>5 DEF ActiveTick, InactiveStart, TickReturns
<1>6. CASE InactiveArm
  BY <1>6 DEF InactiveArm
<1>7. ASSUME NEW n \in Ids, Fire(n) PROVE LockInv'
  BY <1>7 DEF Fire
<1>7a. ASSUME NEW n \in Ids, NEW g \in Slots, GoStep(n, g) PROVE LockInv'
  BY <1>7a DEF GoStep, ReceiveC, ReceiveCancel, LockTimer, Send
<1>8. CASE RunReceive
  <2>1. rid' \in Ids
    BY <1>8, HeadAndTail DEF RunReceive
  <2>2. QED
    BY <1>8, <2>1 DEF RunReceive
<1>9. CASE RunLock \/ RunTrigger
  BY <1>9 DEF RunLock, RunTrigger
<1>10. ASSUME NEW n \in Ids, Add(n) \/ BufferReset(n) PROVE LockInv'
  BY <1>10 DEF Add, BufferReset
<1>11. CASE ResetLock
  BY <1>11 DEF ResetLock
<1>12. CASE ResetTimer
  BY <1>12 DEF ResetTimer
<1>13. CASE Stop \/ TimePasses
  <2>1. CASE Stop
    BY <2>1 DEF Stop
  <2>2. CASE TimePasses
    BY <2>2 DEF TimePasses
  <2>3. QED
    BY <1>13, <2>1, <2>2
<1>14. CASE UNCHANGED vars
  BY <1>14
<1>15. QED
  BY <1>1, <1>2, <1>3, <1>4, <1>5, <1>6, <1>7, <1>7a, <1>8, <1>9, <1>10,
     <1>11, <1>12, <1>13, <1>14 DEF Next, WaitStep, RunStep, ResetStep

\* A goroutine that will report n goes on, until it has, or is cancelled.
LEMMA BufferedStays ==
    ASSUME TypeOK, LockInv, [Next]_vars, NEW n \in Ids, Buffered(n),
           ~Stop, ~(ResetTimer /\ cid = n), \A g \in Slots : ~Send(n, g)
    PROVE  Buffered(n)'
<1> USE BufferAssumption
    DEF TypeOK, vars, timerVars, goVars, runVars, waitVars, callVars
<1>1. PICK g \in Slots :
        \/ gpc[n][g] \in {"lock", "send"}
        \/ /\ gpc[n][g] = "select" /\ ~cancelled[n][g]
           /\ fired[n] \/ dueIn[n] # Off
  BY DEF Buffered
<1>2. CASE UNCHANGED <<gpc, cancelled, fired, dueIn>>
  BY <1>1, <1>2 DEF Buffered
<1>3. CASE ActiveTick
  <2>1. dueIn[n] # Off => dueIn'[n] # Off
    <3>1. CASE cur = n
      BY <1>3, <3>1, SnoozeType DEF ActiveTick
    <3>2. CASE cur # n
      BY <1>3, <3>2 DEF ActiveTick
    <3>3. QED
      BY <3>1, <3>2
  <2>2. UNCHANGED <<gpc, cancelled, fired>>
    BY <1>3 DEF ActiveTick
  <2>3. QED
    BY <1>1, <2>1, <2>2 DEF Buffered
<1>4. CASE InactiveArm
  <2>1. dueIn[n] # Off => dueIn'[n] # Off
    BY <1>4 DEF InactiveArm, Off
  <2>2. UNCHANGED <<gpc, cancelled, fired>>
    BY <1>4 DEF InactiveArm
  <2>3. QED
    BY <1>1, <2>1, <2>2 DEF Buffered
<1>5. CASE InactiveStart
  <2>1. PICK h \in Slots :
          /\ gpc[cur][h] = "none"
          /\ gpc' = [gpc EXCEPT ![cur][h] = "select"]
          /\ cancelled' = [cancelled EXCEPT ![cur][h] = FALSE]
    BY <1>5 DEF InactiveStart
  <2>2. gpc'[n][g] = gpc[n][g] /\ cancelled'[n][g] = cancelled[n][g]
    BY <1>1, <2>1
  <2>3. UNCHANGED <<dueIn, fired>>
    BY <1>5 DEF InactiveStart
  <2>4. QED
    BY <1>1, <2>2, <2>3 DEF Buffered
<1>6. ASSUME NEW m \in Ids, Fire(m) PROVE Buffered(n)'
  <2>1. fired[n] \/ dueIn[n] # Off => fired'[n] \/ dueIn'[n] # Off
    BY <1>6 DEF Fire
  <2>2. UNCHANGED <<gpc, cancelled>>
    BY <1>6 DEF Fire
  <2>3. QED
    BY <1>1, <2>1, <2>2 DEF Buffered
<1>7. ASSUME NEW m \in Ids, NEW h \in Slots, ReceiveC(m, h) PROVE Buffered(n)'
  <2>1. CASE m = n
    <3>1. gpc'[n][h] = "lock"
      BY <1>7, <2>1 DEF ReceiveC
    <3>2. QED
      BY <3>1 DEF Buffered
  <2>2. CASE m # n
    <3>1. gpc'[n] = gpc[n] /\ fired'[n] = fired[n] /\ UNCHANGED <<cancelled, dueIn>>
      BY <1>7, <2>2 DEF ReceiveC
    <3>2. QED
      BY <1>1, <3>1 DEF Buffered
  <2>3. QED
    BY <2>1, <2>2
<1>8. ASSUME NEW m \in Ids, NEW h \in Slots, ReceiveCancel(m, h)
      PROVE  Buffered(n)'
  <2>1. m # n \/ h # g
    BY <1>1, <1>8 DEF ReceiveCancel
  <2>2. gpc'[n][g] = gpc[n][g] /\ cancelled'[n][g] = cancelled[n][g]
    BY <1>8, <2>1 DEF ReceiveCancel
  <2>3. UNCHANGED <<fired, dueIn>>
    BY <1>8 DEF ReceiveCancel
  <2>4. QED
    BY <1>1, <2>2, <2>3 DEF Buffered
<1>9. ASSUME NEW m \in Ids, NEW h \in Slots, LockTimer(m, h) PROVE Buffered(n)'
  <2>1. gpc'[n][g] = gpc[n][g] \/ gpc'[n][g] = "send"
    BY <1>9 DEF LockTimer
  <2>2. UNCHANGED <<cancelled, fired, dueIn>>
    BY <1>9 DEF LockTimer
  <2>3. QED
    BY <1>1, <2>1, <2>2 DEF Buffered
<1>10. ASSUME NEW m \in Ids, NEW h \in Slots, Send(m, h) PROVE Buffered(n)'
  <2>1. m # n
    BY <1>10
  <2>2. gpc'[n] = gpc[n] /\ cancelled'[n] = cancelled[n] /\ UNCHANGED <<fired, dueIn>>
    BY <1>10, <2>1 DEF Send
  <2>3. QED
    BY <1>1, <2>2 DEF Buffered
<1>11. CASE ResetTimer
  <2>1. cid # n /\ UNCHANGED <<gpc, fired, dueIn>>
    BY <1>11 DEF ResetTimer
  <2>2. cancelled'[n] = cancelled[n]
    <3>1. CASE isActive[cid]
      BY <1>11, <2>1, <3>1, ResetEffect
    <3>2. CASE ~isActive[cid]
      BY <1>11, <3>2 DEF ResetTimer
    <3>3. QED
      BY <3>1, <3>2
  <2>3. QED
    BY <1>1, <2>1, <2>2 DEF Buffered
<1>12. CASE TimePasses
  <2>1. dueIn[n] # Off => dueIn'[n] # Off
    BY <1>12 DEF TimePasses, LessOne, Off
  <2>2. UNCHANGED <<gpc, cancelled, fired>>
    BY <1>12 DEF TimePasses
  <2>3. QED
    BY <1>1, <2>1, <2>2 DEF Buffered
<1>13. QED
  BY <1>2, <1>3, <1>4, <1>5, <1>6, <1>7, <1>8, <1>9, <1>10, <1>11, <1>12
     DEF Next, WaitStep, GoStep, RunStep, ResetStep, WaitData, UpdateNext,
         WaitReturns, WaitTrigger, TickLock, TickIsActive, RunReceive, RunLock,
         RunTrigger, Add, BufferReset, ResetLock

\* An ID on its way through the channels goes on, until wait takes it.
LEMMA QueuedStays ==
    ASSUME TypeOK, LockInv, [Next]_vars, NEW n \in Ids, Queued(n), ~WaitTrigger
    PROVE  Queued(n)'
<1> USE BufferAssumption
    DEF TypeOK, vars, timerVars, goVars, runVars, waitVars, callVars
<1>1. CASE UNCHANGED <<ch, rid, bufferTrigger>>
  BY <1>1 DEF Queued
<1>2. ASSUME NEW m \in Ids, NEW g \in Slots, Send(m, g) PROVE Queued(n)'
  <2>1. ch' = Append(ch, m) /\ UNCHANGED <<rid, bufferTrigger>>
    BY <1>2 DEF Send
  <2>2. QED
    BY <2>1, AppendToSet DEF Queued
<1>3. CASE RunReceive
  <2>1. /\ rid = None /\ ch # << >> /\ rid' = Head(ch) /\ ch' = Tail(ch)
        /\ UNCHANGED bufferTrigger
    BY <1>3 DEF RunReceive, LockInv
  <2>2. QED
    BY <2>1, HeadAndTail DEF Queued
<1>4. CASE RunTrigger
  <2>1. rid \in Ids /\ bufferTrigger' = Append(bufferTrigger, rid) /\ UNCHANGED ch
    BY <1>4 DEF RunTrigger, LockInv
  <2>2. QED
    BY <2>1, AppendToSet DEF Queued
<1>5. QED
  BY <1>1, <1>2, <1>3, <1>4
     DEF Next, WaitStep, GoStep, RunStep, ResetStep, WaitData, UpdateNext,
         WaitReturns, TickLock, TickIsActive, ActiveTick, InactiveArm,
         InactiveStart, Fire, ReceiveC, ReceiveCancel, LockTimer, RunLock, Add,
         BufferReset, ResetLock, ResetTimer, Stop, TimePasses

\* A period begins with a running time.Timer, in a timer that is not active.
LEMMA ArmStep ==
    ASSUME TypeOK, LockInv, ArmInv, [Next]_vars
    PROVE  ArmInv'
<1> USE BufferAssumption
    DEF TypeOK, LockInv, Ticking, ArmInv, vars, timerVars, goVars, runVars,
        waitVars, callVars
<1>1. CASE wpc' \notin {"arm", "start"}
  BY <1>1
<1>2. CASE TickIsActive
  BY <1>2 DEF TickIsActive
<1>3. CASE InactiveArm
  <2>1. dueIn'[cur] = MinPeriod
    BY <1>3 DEF InactiveArm
  <2>2. QED
    BY <1>3, <2>1 DEF InactiveArm
<1>4. CASE UNCHANGED <<wpc, cur, isActive, dueIn>>
  BY <1>4
<1>5. ASSUME NEW n \in Ids, NEW g \in Slots, Send(n, g) PROVE ArmInv'
  BY <1>5 DEF Send
<1>6. ASSUME NEW n \in Ids, Fire(n) PROVE ArmInv'
  BY <1>6 DEF Fire
<1>7. CASE ResetTimer
  BY <1>7 DEF ResetTimer
<1>8. CASE Stop
  BY <1>8 DEF Stop
<1>9. CASE TimePasses
  BY <1>9 DEF TimePasses, Quiet
<1>10. QED
  BY <1>1, <1>2, <1>3, <1>4, <1>5, <1>6, <1>7, <1>8, <1>9
     DEF Next, WaitStep, GoStep, RunStep, ResetStep, WaitData, UpdateNext,
         WaitReturns, WaitTrigger, TickLock, ActiveTick, InactiveStart,
         TickReturns, ReceiveC, ReceiveCancel, LockTimer, RunReceive, RunLock,
         RunTrigger, Add, BufferReset, ResetLock

\* The goroutine that InactiveStart starts will report.
LEMMA StartBuffers ==
    ASSUME TypeOK, LockInv, ArmInv, InactiveStart, NEW n \in Ids, n = cur
    PROVE  Buffered(n)'
<1>1. dueIn[n] # Off
  BY DEF TypeOK, ArmInv, InactiveStart, Off
<1>2. PICK g \in Slots :
        /\ gpc' = [gpc EXCEPT ![n][g] = "select"]
        /\ cancelled' = [cancelled EXCEPT ![n][g] = FALSE]
  BY DEF InactiveStart
<1>3. gpc'[n][g] = "select" /\ ~cancelled'[n][g] /\ dueIn' = dueIn
  BY <1>2 DEF TypeOK, InactiveStart
<1>4. QED
  BY <1>1, <1>3 DEF Buffered

\* Who changes isActive.
LEMMA ActiveChanges ==
    ASSUME [Next]_vars
    PROVE  \/ isActive' = isActive \/ InactiveStart \/ ResetTimer
           \/ \E n \in Ids, g \in Slots : Send(n, g)
BY DEF Next, vars, timerVars, WaitStep, GoStep, RunStep, ResetStep, WaitData,
       UpdateNext, WaitReturns, WaitTrigger, TickLock, TickIsActive, ActiveTick,
       InactiveArm, Fire, ReceiveC, ReceiveCancel, LockTimer, RunReceive,
       RunLock, RunTrigger, Add, BufferReset, ResetLock, Stop, TimePasses

\* An active timer keeps the goroutine that will report it.
LEMMA ActiveStep ==
    ASSUME TypeOK, LockInv, ArmInv, ActiveInv, [Next]_vars
    PROVE  ActiveInv'
<1> USE BufferAssumption
    DEF TypeOK, vars, timerVars, goVars, runVars, waitVars, callVars
<1>1. ASSUME NEW n \in Ids, isActive'[n], cpc' # "stopped" PROVE Buffered(n)'
  <2>1. cpc # "stopped" /\ ~Stop
    BY <1>1
       DEF Next, WaitStep, GoStep, RunStep, ResetStep, WaitData, UpdateNext,
           WaitReturns, WaitTrigger, TickLock, TickIsActive, ActiveTick,
           InactiveArm, InactiveStart, Fire, ReceiveC, ReceiveCancel,
           LockTimer, Send, RunReceive, RunLock, RunTrigger, Add, BufferReset,
           ResetLock, ResetTimer, Stop, TimePasses
  <2>2. CASE isActive[n]
    <3>1. Buffered(n)
      BY <2>1, <2>2 DEF ActiveInv
    <3>2. \A g \in Slots : ~Send(n, g)
      BY <1>1 DEF Send
    <3>3. ~(ResetTimer /\ cid = n)
      BY <1>1, <2>2 DEF ResetTimer
    <3>4. QED
      BY <2>1, <3>1, <3>2, <3>3, BufferedStays
  <2>3. CASE ~isActive[n]
    <3>1. InactiveStart /\ cur = n
      <4>1. CASE isActive' = isActive
        BY <1>1, <2>3, <4>1
      <4>2. CASE InactiveStart
        BY <1>1, <2>3, <4>2 DEF InactiveStart
      <4>3. CASE ResetTimer
        BY <1>1, <2>3, <4>3, ResetEffect DEF ResetTimer
      <4>4. ASSUME NEW m \in Ids, NEW g \in Slots, Send(m, g) PROVE FALSE
        BY <1>1, <2>3, <4>4 DEF Send
      <4>5. QED
        BY <4>1, <4>2, <4>3, <4>4, ActiveChanges
    <3>2. QED
      BY <3>1, StartBuffers
  <2>4. QED
    BY <2>2, <2>3
<1>2. ASSUME NEW n \in Ids, wpc' = "activeTick", cur' = n, ~isActive'[n]
      PROVE  Queued(n)'
  <2>1. ~WaitTrigger /\ ~InactiveStart /\ ~ActiveTick
    BY <1>2 DEF WaitTrigger, InactiveStart, ActiveTick, TickReturns
  <2>2. CASE wpc = "activeTick" /\ cur = n /\ ~isActive[n]
    BY <2>1, <2>2, QueuedStays DEF ActiveInv
  <2>3. ASSUME NEW g \in Slots, Send(n, g) PROVE Queued(n)'
    <3>1. ch' = Append(ch, n)
      BY <2>3 DEF Send
    <3>2. QED
      BY <3>1, AppendToSet DEF Queued
  <2>4. wpc = "activeTick" \/ TickIsActive
    BY <1>2
       DEF Next, WaitStep, GoStep, RunStep, ResetStep, WaitData, UpdateNext,
           WaitReturns, WaitTrigger, TickLock, ActiveTick,
           InactiveArm, InactiveStart, Fire, ReceiveC, ReceiveCancel,
           LockTimer, Send, RunReceive, RunLock, RunTrigger, Add, BufferReset,
           ResetLock, ResetTimer, Stop, TimePasses, TickReturns
  <2>5. ~TickIsActive
    BY <1>2 DEF TickIsActive
  <2>6. ~ResetTimer
    BY <2>4, <2>5 DEF ResetTimer, LockInv, Ticking
  <2>7. cur = n
    BY <1>2, <2>1, <2>4, <2>5, <2>6
       DEF Next, WaitStep, GoStep, RunStep, ResetStep, WaitData, UpdateNext,
           WaitReturns, TickLock, InactiveArm, Fire, ReceiveC, ReceiveCancel,
           LockTimer, Send, RunReceive, RunLock, RunTrigger, Add, BufferReset,
           ResetLock, Stop, TimePasses
  <2>7a. isActive[n] => \E g \in Slots : Send(n, g)
    <3>1. ASSUME NEW m \in Ids, NEW g \in Slots, Send(m, g), isActive[n]
          PROVE  m = n
      BY <1>2, <3>1 DEF Send
    <3>2. isActive[n] => isActive' # isActive
      BY <1>2
    <3>3. QED
      BY <2>1, <2>6, <3>1, <3>2, ActiveChanges
  <2>8. QED
    BY <2>2, <2>3, <2>4, <2>5, <2>7, <2>7a
<1>3. cur' \in Ids \/ wpc' # "activeTick"
  <2>1. LockInv' /\ TypeOK'
    BY LockStep, TypeStep
  <2>2. QED
    BY <2>1 DEF LockInv, Ticking
<1>4. QED
  BY <1>1, <1>2, <1>3 DEF ActiveInv

\* A notification that is held back goes on being buffered, queued, or ticked.
LEMMA NoLostStep ==
    ASSUME TypeOK, LockInv, ArmInv, ActiveInv, NoLostTick, [Next]_vars
    PROVE  NoLostTick'
<1> USE BufferAssumption
    DEF TypeOK, vars, timerVars, goVars, runVars, waitVars, callVars
<1> SUFFICES ASSUME NEW n \in Ids, pending'[n], cpc' # "stopped", cur' # n
             PROVE  Buffered(n)' \/ Queued(n)'
  BY DEF NoLostTick
<1>1. cpc # "stopped" /\ ~Stop
  BY DEF Next, WaitStep, GoStep, RunStep, ResetStep, WaitData, UpdateNext,
         WaitReturns, WaitTrigger, TickLock, TickIsActive, ActiveTick,
         InactiveArm, InactiveStart, Fire, ReceiveC, ReceiveCancel,
         LockTimer, Send, RunReceive, RunLock, RunTrigger, Add, BufferReset,
         ResetLock, ResetTimer, Stop, TimePasses
<1>2. CASE WaitTrigger
  <2>1. pending[n] /\ n \notin ToSet(bufferTrigger) /\ cur' = cur
    BY <1>2 DEF WaitTrigger
  <2>2. Buffered(n) \/ n \in ToSet(ch) \cup {rid}
    BY <1>1, <2>1 DEF NoLostTick, Queued
  <2>3. Buffered(n) => Buffered(n)'
    BY <1>2 DEF WaitTrigger, Buffered
  <2>4. n \in ToSet(ch) \cup {rid} => Queued(n)'
    BY <1>2 DEF WaitTrigger, Queued
  <2>5. QED
    BY <2>2, <2>3, <2>4
<1>3. ASSUME NEW g \in Slots, Send(n, g) PROVE Queued(n)'
  <2>1. ch' = Append(ch, n)
    BY <1>3 DEF Send
  <2>2. QED
    BY <2>1, AppendToSet DEF Queued
<1>4. CASE ResetTimer /\ cid = n /\ isActive[n]
  <2>1. pending'[n] = (wpc = "tick" /\ cur = n)
    BY <1>4, ResetEffect
  <2>2. cur' = cur
    BY <1>4 DEF ResetTimer
  <2>3. QED
    BY <2>1, <2>2
<1>5. CASE ResetTimer /\ cid = n /\ ~isActive[n]
  BY <1>1, <1>5 DEF ResetTimer, NoLostTick, Buffered, Queued
<1>6. CASE /\ ~WaitTrigger /\ ~(ResetTimer /\ cid = n)
           /\ \A g \in Slots : ~Send(n, g)
  <2>1. CASE cur = n
    <3>1. TickLock \/ ActiveTick \/ InactiveStart
      BY <2>1
         DEF Next, WaitStep, GoStep, RunStep, ResetStep, WaitData, UpdateNext,
             WaitReturns, WaitTrigger, TickIsActive, InactiveArm, Fire,
             ReceiveC, ReceiveCancel, LockTimer, Send, RunReceive, RunLock,
             RunTrigger, Add, BufferReset, ResetLock, ResetTimer, Stop,
             TimePasses, LockInv, Ticking
    <3>2. CASE TickLock
      BY <1>1, <2>1, <3>2 DEF TickLock, LockInv
    <3>3. CASE ActiveTick
      <4>1. CASE isActive[n]
        BY <1>1, <1>6, <4>1, BufferedStays DEF ActiveInv
      <4>2. CASE ~isActive[n]
        BY <1>6, <2>1, <3>3, <4>2, QueuedStays DEF ActiveInv, ActiveTick
      <4>3. QED
        BY <4>1, <4>2
    <3>4. CASE InactiveStart
      BY <2>1, <3>4, StartBuffers
    <3>5. QED
      BY <3>1, <3>2, <3>3, <3>4
  <2>2. CASE cur # n
    <3>1. pending[n]
      BY <1>6, <2>2
         DEF Next, WaitStep, GoStep, RunStep, ResetStep, WaitData, UpdateNext,
             WaitReturns, TickLock, TickIsActive, ActiveTick, InactiveArm,
             InactiveStart, Fire, ReceiveC, ReceiveCancel, LockTimer, Send,
             RunReceive, RunLock, RunTrigger, Add, BufferReset, ResetLock,
             ResetTimer, Stop, TimePasses
    <3>2. Buffered(n) \/ Queued(n)
      BY <1>1, <2>2, <3>1 DEF NoLostTick
    <3>3. QED
      BY <1>1, <1>6, <3>2, BufferedStays, QueuedStays
  <2>3. QED
    BY <2>1, <2>2
<1>7. QED
  BY <1>2, <1>3, <1>4, <1>5, <1>6

\* No step lets an active period outlast its deadline.
LEMMA DeadlineStep ==
    ASSUME TypeOK, LockInv, ArmInv, DueByDeadline, [Next]_vars
    PROVE  DueByDeadline'
<1> USE BufferAssumption
    DEF TypeOK, vars, timerVars, goVars, runVars, waitVars, callVars
<1>1. CASE UNCHANGED <<isActive, dueIn, deadline>>
  BY <1>1 DEF DueByDeadline
<1>2. CASE ActiveTick
  <2>1. cur \in Ids
    BY <1>2 DEF ActiveTick, LockInv, Ticking
  <2>2. ASSUME NEW n \in Ids, isActive[n], dueIn'[n] # Off
        PROVE  dueIn'[n] <= deadline[n]
    <3>1. CASE n = cur
      BY <1>2, <2>1, <2>2, <3>1, SnoozeType DEF ActiveTick, DueByDeadline
    <3>2. CASE n # cur
      BY <1>2, <2>2, <3>2 DEF ActiveTick, DueByDeadline
    <3>3. QED
      BY <3>1, <3>2
  <2>3. QED
    BY <1>2, <2>2 DEF ActiveTick, DueByDeadline
<1>3. CASE InactiveArm
  BY <1>3 DEF InactiveArm, ArmInv, LockInv, Ticking, DueByDeadline
<1>4. CASE InactiveStart
  BY <1>4 DEF InactiveStart, ArmInv, LockInv, Ticking, DueByDeadline
<1>5. ASSUME NEW n \in Ids, Fire(n) PROVE DueByDeadline'
  BY <1>5 DEF Fire, DueByDeadline
<1>6. ASSUME NEW n \in Ids, NEW g \in Slots, Send(n, g) PROVE DueByDeadline'
  BY <1>6 DEF Send, DueByDeadline
<1>7. CASE ResetTimer
  <2>1. \A n \in Ids : isActive'[n] => isActive[n]
    BY <1>7, ResetEffect DEF ResetTimer
  <2>2. QED
    BY <1>7, <2>1 DEF ResetTimer, DueByDeadline
<1>8. CASE Stop
  BY <1>8 DEF Stop, DueByDeadline
<1>9. CASE TimePasses
  BY <1>9 DEF TimePasses, LessOne, Off, DueByDeadline
<1>10. QED
  BY <1>1, <1>2, <1>3, <1>4, <1>5, <1>6, <1>7, <1>8, <1>9
     DEF Next, WaitStep, GoStep, RunStep, ResetStep, WaitData, UpdateNext,
         WaitReturns, WaitTrigger, TickLock, TickIsActive, ReceiveC,
         ReceiveCancel, LockTimer, RunReceive, RunLock, RunTrigger, Add,
         BufferReset, ResetLock

-----------------------------------------------------------------------------
(* Theorems.                                                               *)

\* The invariant holds in every state of the timers.
THEOREM IndInvariant == Spec => []Ind
<1>1. Ind /\ [Next]_vars => Ind'
  BY TypeStep, LockStep, ArmStep, ActiveStep, NoLostStep, DeadlineStep
     DEF Ind, TickInv
<1>2. QED
  BY InitInd, <1>1, PTL DEF Spec

\* The variables have their types.
THEOREM TypeCorrect == Spec => []TypeOK
BY IndInvariant, PTL DEF Ind

\* A notification that Buffering holds back is on its way to be reported
\* (timers.tick and the goroutine of inactiveTick, buffer_period.go), also
\* when the tick meets a timer that is firing, or a reset.
THEOREM NoLostTickHolds == Spec => []NoLostTick
BY IndInvariant, PTL DEF Ind, TickInv

\* activeTick never snoozes a timer past the maximum of its period.
THEOREM DueByDeadlineHolds == Spec => []DueByDeadline
BY IndInvariant, PTL DEF Ind, TickInv
=============================================================================
