-------------------------- MODULE TokenFileProofs --------------------------
(***************************************************************************)
(* Proofs about FileQuery and TokenFile: for any contents of the file, any *)
(* number of changes, of answers within one second and of Waits under way, *)
(* and any capacity of dataCh.                                             *)
(*                                                                         *)
(* The inductive invariant follows a file's contents: from the file to the *)
(* view by way of its stats (StampInv, WatchInv, ReadInv), from the view   *)
(* through the Waits, which may overtake each other, to the cache and to   *)
(* tokenUpdate (HandInv), and from there to the Vault client (LoopInv).    *)
(***************************************************************************)
EXTENDS TokenFile, TLAPS

\* Every stat was taken of the file as it was at some time.
Past(s) == s = None \/ s <= stamp

StampInv ==
    /\ Past(fileStat) /\ Past(stat) /\ Past(taken) /\ Past(offered)
    /\ \A w \in watchers : Past(w.last) /\ Past(w.result)

\* One goroutine at most watches the file, for the Fetch that waits for it or
\* for one that was stopped, and it compares with the stat of the last read.
WatchInv ==
    /\ \A v, w \in watchers : v = w
    /\ \A w \in watchers :
         /\ w.last = stat
         /\ w.at = "sleep" => w.last # None
         /\ w.at = "send" => w.result # None
    /\ watchers # {} =>
         /\ offered = None
         /\ qpc = "select" \/ (qpc = "ended" /\ stopped)
    /\ qpc = "read" => taken # None

\* While the file is as it was at the last stat, what was read is what it
\* holds: the answer until the view has seen it, then the view's data.
ReadInv ==
    stat # None /\ stat = fileStat =>
        /\ query = "agent" => client = file
        /\ query # "agent" =>
             IF qpc = "return" THEN answer = file ELSE ~missed => viewed = file

\* What the loop of VaultTokenWatcher keeps.
LoopInv ==
    /\ loop = "select" => current \in Slots
    /\ query = "token" =>
         /\ client \in Clients /\ rawToken \in Tokens
         /\ ~client.wrapped => client.token = rawToken
    /\ loop = "unwrap" =>
         query = "token" /\ client.wrapped /\ pending \in Tokens
    /\ query # "token" =>
         /\ tokenUpdate = None
         /\ \A s \in Slots : waits[s].at # "notify"

\* A Wait will read the view's data yet, or the view was stopped before it
\* could hand it on.
Coming ==
    \/ dataCh > 0
    \/ \E s \in Slots : waits[s].at = "read"
    \/ qpc = "deliver"
    \/ qpc = "ended" /\ stopped /\ watchers = {}

\* A Wait that is about to hand on the view's data.
Current(s) == waits[s].at = "notify" /\ waits[s].value = viewed

\* The last token that was handed on is the view's: it is in the channel, or
\* the loop has used it unless it is blank or could not be unwrapped.
LastIsViewed ==
    IF tokenUpdate # None THEN tokenUpdate = viewed
    ELSE viewed \in Tokens =>
           IF loop = "unwrap" THEN pending = viewed
           ELSE client.wrapped \/ rawToken = viewed

\* A token that is not the view's any more is known to be late, or will be
\* when a newer one is handed on before it.
TokenInv ==
    /\ \A s \in Slots :
         waits[s].at = "notify" =>
             \/ Coming \/ Current(s) \/ waits[s].late
             \/ \E o \in Slots : Current(o) /\ s \in waits[o].older
    /\ \/ Coming \/ overtaken \/ LastIsViewed
       \/ \E o \in Slots : Current(o)

HandInv ==
    /\ query = "file" => Coming \/ cache = viewed
    /\ query = "token" => TokenInv

Ind == TypeOK /\ StampInv /\ WatchInv /\ ReadInv /\ LoopInv /\ HandInv

-----------------------------------------------------------------------------

\* What a Wait is.
Waits == [at : {"none", "wait", "read", "notify", "drain", "result"},
          value : Contents \cup {None}, older : SUBSET Slots, late : BOOLEAN]

\* A Wait that has nothing in hand is one.
LEMMA IdleIsWait ==
    ASSUME NEW at \in {"none", "wait", "read", "drain", "result"}
    PROVE  Idle(at) \in Waits
BY DEF Idle, Waits

\* So is a place for a Wait.
LEMMA FreeIsWait == Free \in Waits
BY IdleIsWait DEF Free

\* The parts of the state that the steps of Wait and of the loop share.
LEMMA TypeParts ==
    TypeOK => waits \in [Slots -> Waits]
BY DEF TypeOK, Waits

\* Every step of a query keeps the types.
LEMMA TypeQueryStep ==
    ASSUME TypeOK, WatchInv, QueryMoves
    PROVE  TypeOK'
<1> USE FileQueryAssumption DEF TypeOK, QueryTypeOK, loopVars, fileVars,
        viewVars
<1>0. UNCHANGED <<stamp, loopVars, waits, tokenUpdate, cancelled, cache,
                  overtaken>>
  BY DEF QueryMoves
<1>1. ASSUME NEW w \in watchers, StatChanged(w) PROVE TypeOK'
  <2> DEFINE result == IF fileStat = None THEN Failed ELSE fileStat
             sending == [w EXCEPT !.at = "send", !.result = result]
  <2>1. result \in Stats \cup {Failed, None}
    OBVIOUS
  <2>2. sending \in [at : {"stat", "send", "sleep"},
                     last : Stats \cup {None},
                     result : Stats \cup {Failed, None}]
    BY <2>1
  <2>3. watchers' = (watchers \ {w}) \cup {sending}
    BY <1>1 DEF StatChanged, Becomes
  <2> HIDE DEF result, sending
  <2>4. watchers' \subseteq [at : {"stat", "send", "sleep"},
                            last : Stats \cup {None},
                            result : Stats \cup {Failed, None}]
    BY <2>2, <2>3
  <2>5. QED
    BY <1>0, <1>1, <2>4 DEF StatChanged, Becomes
<1>2. ASSUME NEW w \in watchers, StatSame(w) PROVE TypeOK'
  BY <1>0, <1>2 DEF StatSame, Becomes
<1>3. ASSUME NEW w \in watchers, SendResult(w) PROVE TypeOK'
  BY <1>0, <1>3 DEF SendResult, Becomes
<1>4. ASSUME NEW w \in watchers, WatchStopped(w) PROVE TypeOK'
  BY <1>0, <1>4 DEF WatchStopped, Becomes
<1>5. CASE CallWatch
  BY <1>0, <1>5 DEF CallWatch
<1>6. CASE FetchStopped
  BY <1>0, <1>6 DEF FetchStopped, FetchTo
<1>7. CASE TakeResult
  BY <1>0, <1>7 DEF TakeResult, FetchTo
<1>8. CASE ReadFile
  BY <1>0, <1>8 DEF ReadFile, Uses, FetchTo
<1>9. CASE ReadFails
  BY <1>0, <1>9 DEF ReadFails, FetchTo
<1>10. CASE ReturnLater
  <2>1. qpc' \in {"deliver", "call"}
    BY <1>10 DEF ReturnLater, FetchTo
  <2>2. indexed' \in BOOLEAN /\ received' \in BOOLEAN /\ missed' \in BOOLEAN
    BY <1>10 DEF ReturnLater
  <2>3. viewed' \in Contents \cup {None} /\ answer' \in Contents \cup {None}
    BY <1>10 DEF ReturnLater
  <2>4. QED
    BY <1>0, <1>10, <2>1, <2>2, <2>3 DEF ReturnLater, FetchTo
<1>11. CASE ReturnNotLater
  BY <1>0, <1>11 DEF ReturnNotLater, FetchTo, NewData
<1>12. CASE Deliver
  BY <1>0, <1>12 DEF Deliver, FetchTo
<1>13. CASE Retry \/ GiveUp
  BY <1>0, <1>13 DEF Retry, GiveUp, FetchTo
<1>14. CASE PollStopped
  BY <1>0, <1>14 DEF PollStopped, FetchTo
<1>15. CASE Stop
  BY <1>0, <1>15 DEF Stop
<1>16. QED
  BY <1>1, <1>2, <1>3, <1>4, <1>5, <1>6, <1>7, <1>8, <1>9, <1>10, <1>11,
     <1>12, <1>13, <1>14, <1>15 DEF QueryMoves, QueryStep, WatchStep, FetchStep

\* Every step of a Wait keeps the types.
LEMMA TypeWaitStep ==
    ASSUME TypeOK, NEW s \in Slots,
           \/ WaitTakes(s) \/ WaitReads(s) \/ WaitNotifies(s)
           \/ WaitDrained(s) \/ WaitFails(s) \/ WaitCancelled(s)
    PROVE  TypeOK'
<1> USE FileQueryAssumption DEF fileVars, loopVars
<1>0. waits \in [Slots -> Waits]
  BY TypeParts
<1>1. ASSUME waits' \in [Slots -> Waits],
             UNCHANGED <<fileVars, stamp, query, watchers, stat, offered, taken,
                         answer, stopped, slips, indexed, received, viewed,
                         missed, client, loopVars, cancelled>>,
             qpc' \in {qpc, "ended"}, dataCh' \in 0..Cap,
             tokenUpdate' \in Contents \cup {None}, overtaken' \in BOOLEAN,
             cache' \in Contents \cup {None}
      PROVE  TypeOK'
  BY <1>1 DEF TypeOK, QueryTypeOK, Waits
<1>2. /\ qpc' = qpc => qpc' \in {qpc, "ended"}
      /\ dataCh \in 0..Cap /\ tokenUpdate \in Contents \cup {None}
      /\ overtaken \in BOOLEAN /\ cache \in Contents \cup {None}
      /\ viewed \in Contents \cup {None}
  BY DEF TypeOK, QueryTypeOK
<1>3. CASE WaitTakes(s)
  <2>1. waits' \in [Slots -> Waits]
    BY <1>0, <1>3 DEF WaitTakes, Moves, WaitMoves, Waits
  <2>2. dataCh' \in 0..Cap
    BY <1>2, <1>3 DEF WaitTakes
  <2>3. QED
    BY <1>1, <1>2, <1>3, <2>1, <2>2 DEF WaitTakes, Moves, WaitMoves
<1>4. CASE WaitReads(s)
  <2>1. waits' \in [Slots -> Waits]
    <3>1. CASE query = "token"
      <4> DEFINE older == {o \in Slots : /\ waits[o].at = "notify"
                                         /\ waits[o].value # viewed}
      <4>1. [at |-> "notify", value |-> viewed, late |-> FALSE,
             older |-> older] \in Waits
        BY <1>2 DEF Waits
      <4>2. QED
        BY <1>0, <1>4, <3>1, <4>1 DEF WaitReads, WaitMoves
    <3>2. CASE query # "token"
      BY <1>0, <1>4, <3>2 DEF WaitReads, Moves, WaitMoves, Waits
    <3>3. QED
      BY <3>1, <3>2
  <2>2. QED
    BY <1>1, <1>2, <1>4, <2>1 DEF WaitReads, Moves, WaitMoves
<1>5. CASE WaitNotifies(s)
  <2>1. ASSUME NEW o \in Slots
        PROVE  [waits[o] EXCEPT !.late = @ \/ o \in waits[s].older,
                                !.older = @ \ {s}] \in Waits
    <3>0. waits[o] \in Waits
      BY <1>0
    <3>1. ASSUME NEW late \in BOOLEAN, NEW older \in SUBSET Slots
          PROVE  [waits[o] EXCEPT !.late = late, !.older = older] \in Waits
      BY <3>0 DEF Waits
    <3>2. /\ (waits[o].late \/ o \in waits[s].older) \in BOOLEAN
          /\ waits[o].older \ {s} \in SUBSET Slots
      BY <1>0 DEF Waits
    <3>3. QED
      BY <3>1, <3>2
  <2>2. waits' \in [Slots -> Waits]
    BY <1>5, <2>1, IdleIsWait DEF WaitNotifies, WaitMoves
  <2>3. waits[s].value \in Contents \cup {None} /\ waits[s].late \in BOOLEAN
    BY <1>0 DEF Waits
  <2>4. QED
    BY <1>1, <1>2, <1>5, <2>2, <2>3 DEF WaitNotifies, WaitMoves
<1>6. CASE WaitDrained(s) \/ WaitFails(s) \/ WaitCancelled(s)
  <2>1. waits' \in [Slots -> Waits]
    BY <1>0, <1>6, IdleIsWait, FreeIsWait
       DEF WaitDrained, WaitFails, WaitCancelled, Finishes, WaitMoves
  <2>2. QED
    BY <1>1, <1>2, <1>6, <2>1
       DEF WaitDrained, WaitFails, WaitCancelled, Finishes, WaitMoves
<1>7. QED
  BY <1>3, <1>4, <1>5, <1>6

\* Every step of the loop keeps the types.
LEMMA TypeLoopStep ==
    ASSUME TypeOK, LoopInv, LoopStep
    PROVE  TypeOK'
<1> USE FileQueryAssumption DEF fileVars, qvars, viewVars
<1>0. waits \in [Slots -> Waits]
  BY TypeParts
<1>1. ASSUME waits' \in [Slots -> Waits], current' \in Slots \cup {None},
             UNCHANGED <<fileVars, stamp, qvars, unwrap, cancelled, cache,
                         overtaken>>,
             loop' \in {"start", "select", "unwrap", "ended"},
             client' \in Clients \cup {client}, rawToken' \in Tokens \cup {None},
             pending' \in Tokens \cup {None},
             tokenUpdate' \in Contents \cup {None}
      PROVE  TypeOK'
  BY <1>1 DEF TypeOK, QueryTypeOK, Waits
<1>2. /\ tokenUpdate \in Contents \cup {None} /\ rawToken \in Tokens \cup {None}
      /\ pending \in Tokens \cup {None} /\ current \in Slots \cup {None}
  BY DEF TypeOK
<1>3. CASE CallWaitCh
  BY <1>0, <1>1, <1>2, <1>3, IdleIsWait DEF CallWaitCh, LoopMoves
<1>4. CASE LoopResult
  BY <1>0, <1>1, <1>2, <1>4, FreeIsWait DEF LoopResult, LoopMoves
<1>5. ASSUME LeaveWait PROVE waits' \in [Slots -> Waits] /\ current' = None
  BY <1>0, <1>5, FreeIsWait DEF LeaveWait
<1>6. CASE SameToken \/ EmptyToken
  BY <1>1, <1>2, <1>5, <1>6 DEF SameToken, EmptyToken, TakeToken, LoopMoves
<1>7. ASSUME tokenUpdate \notin {rawToken, Blank}, tokenUpdate # None
      PROVE  /\ tokenUpdate \in Tokens
             /\ \A w \in BOOLEAN : [token |-> tokenUpdate, wrapped |-> w] \in Clients
  BY <1>2, <1>7 DEF Tokens, Clients
<1>8. CASE NewToken
  BY <1>1, <1>2, <1>5, <1>7, <1>8 DEF NewToken, TakeToken, LoopMoves
<1>9. CASE NewWrappedToken
  BY <1>1, <1>2, <1>5, <1>7, <1>9 DEF NewWrappedToken, TakeToken, LoopMoves
<1>10. CASE Unwrapped
  <2>1. [token |-> pending, wrapped |-> FALSE] \in Clients
    BY <1>10 DEF Unwrapped, LoopInv, Clients
  <2>2. QED
    BY <1>0, <1>1, <1>2, <1>10, <2>1 DEF Unwrapped, LoopMoves
<1>11. CASE UnwrapFails
  BY <1>0, <1>1, <1>2, <1>11 DEF UnwrapFails, LoopMoves
<1>12. CASE LoopEnds
  BY <1>1, <1>2, <1>5, <1>12 DEF LoopEnds, LoopMoves
<1>13. QED
  BY <1>3, <1>4, <1>6, <1>8, <1>9, <1>10, <1>11, <1>12 DEF LoopStep

\* Every step keeps the types.
LEMMA TypeStep ==
    ASSUME TypeOK, WatchInv, LoopInv, [Next]_vars
    PROVE  TypeOK'
<1> USE FileQueryAssumption DEF fileVars, loopVars, qvars, viewVars
<1>1. CASE WriteFile
  BY <1>1 DEF WriteFile, TypeOK, QueryTypeOK, Stats
<1>2. CASE RemoveFile
  BY <1>2 DEF RemoveFile, TypeOK, QueryTypeOK, Stats
<1>3. CASE PollAgain
  BY <1>3 DEF PollAgain, TypeOK, QueryTypeOK
<1>4. CASE Cancel
  BY <1>4 DEF Cancel, TypeOK, QueryTypeOK
<1>5. CASE UNCHANGED vars
  BY <1>5 DEF vars, TypeOK, QueryTypeOK
<1>6. QED
  BY <1>1, <1>2, <1>3, <1>4, <1>5, TypeQueryStep, TypeWaitStep, TypeLoopStep
     DEF Next, WaitStep

-----------------------------------------------------------------------------

\* What every step that is not one of the query's leaves of it.
LEMMA QueryLeftAlone ==
    ASSUME [Next]_vars, ~QueryMoves
    PROVE  /\ UNCHANGED <<query, watchers, stat, offered, taken, answer,
                          stopped, viewed, missed, received>>
           /\ \/ UNCHANGED qpc
              \/ qpc = "report" /\ qpc' = "ended"
              \/ qpc = "ended" /\ ~stopped /\ qpc' = "call"
<1> USE DEF fileVars, qvars, viewVars
<1>1. CASE WriteFile \/ RemoveFile \/ PollAgain \/ Cancel
  BY <1>1 DEF WriteFile, RemoveFile, PollAgain, Cancel
<1>2. ASSUME NEW s \in Slots, WaitTakes(s) \/ WaitReads(s) \/ WaitNotifies(s)
      PROVE  UNCHANGED <<query, watchers, stat, offered, taken, answer, stopped,
                         viewed, missed, received, qpc>>
  BY <1>2 DEF WaitTakes, WaitReads, WaitNotifies, Moves, WaitMoves
<1>3. ASSUME NEW s \in Slots, WaitDrained(s) \/ WaitFails(s) \/ WaitCancelled(s)
      PROVE  /\ UNCHANGED <<query, watchers, stat, offered, taken, answer,
                            stopped, viewed, missed, received>>
             /\ UNCHANGED qpc \/ (qpc = "report" /\ qpc' = "ended")
  BY <1>3 DEF WaitDrained, WaitFails, WaitCancelled, Finishes, WaitMoves
<1>4. CASE LoopStep
  BY <1>4 DEF LoopStep, CallWaitCh, LoopResult, SameToken, EmptyToken, NewToken,
     NewWrappedToken, Unwrapped, UnwrapFails, LoopEnds, LoopMoves
<1>5. CASE UNCHANGED vars
  BY <1>5 DEF vars
<1>6. QED
  BY <1>1, <1>2, <1>3, <1>4, <1>5 DEF Next, WaitStep

\* Only another program changes the file.
LEMMA FileLeftAlone ==
    ASSUME [Next]_vars, ~WriteFile, ~RemoveFile
    PROVE  UNCHANGED <<file, fileStat, stamp>>
<1> USE DEF fileVars, qvars, viewVars
<1>1. CASE QueryMoves
  BY <1>1 DEF QueryMoves, QueryStep, WatchStep, FetchStep, StatChanged, StatSame,
     SendResult, WatchStopped, Becomes, CallWatch, FetchStopped, TakeResult,
     ReadFile, Uses, ReadFails, ReturnLater, ReturnNotLater, Deliver, Retry,
     GiveUp, PollStopped, Stop, FetchTo
<1>2. CASE PollAgain \/ Cancel
  BY <1>2 DEF PollAgain, Cancel
<1>3. ASSUME NEW s \in Slots,
             \/ WaitTakes(s) \/ WaitReads(s) \/ WaitNotifies(s)
             \/ WaitDrained(s) \/ WaitFails(s) \/ WaitCancelled(s)
      PROVE  UNCHANGED <<file, fileStat, stamp>>
  BY <1>3 DEF WaitTakes, WaitReads, WaitNotifies, WaitDrained, WaitFails,
     WaitCancelled, Finishes, Moves, WaitMoves
<1>4. CASE LoopStep
  BY <1>4 DEF LoopStep, CallWaitCh, LoopResult, SameToken, EmptyToken, NewToken,
     NewWrappedToken, Unwrapped, UnwrapFails, LoopEnds, LoopMoves
<1>5. CASE UNCHANGED vars
  BY <1>5 DEF vars
<1>6. QED
  BY <1>1, <1>2, <1>3, <1>4, <1>5 DEF Next, WaitStep

\* No step makes a stat out of nothing.
LEMMA StampStep ==
    ASSUME TypeOK, StampInv, [Next]_vars
    PROVE  StampInv'
<1> USE FileQueryAssumption DEF StampInv, Past
<1>0. /\ stamp \in Stats /\ Stats \subseteq Nat /\ Failed = -1
      /\ fileStat \in Stats \cup {None} /\ stat \in Stats \cup {None}
      /\ offered \in Stats \cup {Failed, None} /\ taken \in Stats \cup {None}
      /\ \A w \in watchers : /\ w.last \in Stats \cup {None}
                             /\ w.result \in Stats \cup {Failed, None}
  BY DEF TypeOK, QueryTypeOK, Stats, Failed
<1>1. CASE WriteFile \/ RemoveFile
  <2>1. /\ UNCHANGED <<stat, taken, offered, watchers>>
        /\ stamp' = stamp + 1
        /\ fileStat' \in {stamp', None}
    BY <1>1 DEF WriteFile, RemoveFile, qvars
  <2>2. ASSUME NEW s \in Stats \cup {Failed, None}, Past(s)
        PROVE  s = None \/ s <= stamp'
    BY <1>0, <2>1, <2>2
  <2>3. stamp' <= stamp'
    BY <1>0, <2>1
  <2> HIDE DEF Past
  <2>4. Past(stat)' /\ Past(taken)' /\ Past(offered)'
    BY <1>0, <2>1, <2>2 DEF Past
  <2>5. Past(fileStat)'
    BY <2>1, <2>3 DEF Past
  <2>6. ASSUME NEW w \in watchers PROVE Past(w.last)' /\ Past(w.result)'
    BY <1>0, <2>2 DEF Past
  <2>7. QED
    BY <2>1, <2>4, <2>5, <2>6
<1>2. CASE QueryMoves
  <2>0. UNCHANGED <<stamp, fileStat>>
    BY <1>0, <1>2, FileLeftAlone DEF QueryMoves, WriteFile, RemoveFile, loopVars
  <2>1. ASSUME NEW w \in watchers, StatChanged(w) PROVE StampInv'
    <3> DEFINE result == IF fileStat = None THEN Failed ELSE fileStat
               sending == [w EXCEPT !.at = "send", !.result = result]
    <3>1. Past(result) /\ sending.last = w.last /\ sending.result = result
      <4>1. w \in [at : {"stat", "send", "sleep"}, last : Stats \cup {None},
                   result : Stats \cup {Failed, None}]
        BY DEF TypeOK, QueryTypeOK
      <4>2. sending.last = w.last /\ sending.result = result
        BY <4>1
      <4>3. Past(result)
        BY <1>0
      <4>4. QED
        BY <4>2, <4>3
    <3>2. /\ watchers' = (watchers \ {w}) \cup {sending}
          /\ UNCHANGED <<stat, taken, offered>>
      BY <2>1 DEF StatChanged, Becomes
    <3> HIDE DEF result, sending
    <3>3. QED
      BY <2>0, <3>1, <3>2
  <2>2. ASSUME NEW w \in watchers, StatSame(w) PROVE StampInv'
    <3> DEFINE sleeping == [w EXCEPT !.at = "sleep"]
    <3>1. sleeping.last = w.last /\ sleeping.result = w.result
      BY DEF TypeOK, QueryTypeOK
    <3>2. /\ watchers' = (watchers \ {w}) \cup {sleeping}
          /\ UNCHANGED <<stat, taken, offered>>
      BY <2>2 DEF StatSame, Becomes
    <3> HIDE DEF sleeping
    <3>3. QED
      BY <2>0, <3>1, <3>2
  <2>3. ASSUME NEW w \in watchers, SendResult(w) \/ WatchStopped(w) PROVE StampInv'
    <3>1. /\ watchers' \subseteq watchers
          /\ UNCHANGED <<stat, taken>>
          /\ offered' \in {offered, w.result}
      BY <2>3 DEF SendResult, WatchStopped, Becomes
    <3>2. QED
      BY <2>0, <3>1
  <2>4. CASE CallWatch
    <3>1. /\ watchers' = watchers \cup {[at |-> "stat", last |-> stat, result |-> None]}
          /\ UNCHANGED <<stat, taken>>
          /\ offered' = None
      BY <2>4 DEF CallWatch
    <3>2. QED
      BY <2>0, <3>1
  <2>5. CASE FetchStep /\ ~CallWatch
    <3>1. /\ UNCHANGED watchers
          /\ stat' \in {stat, taken} /\ offered' \in {offered, None}
          /\ taken' \in {taken, offered, None}
      BY <2>5 DEF FetchStep, FetchStopped, TakeResult, ReadFile, Uses, ReadFails,
         ReturnLater, ReturnNotLater, Deliver, Retry, GiveUp, PollStopped, FetchTo
    <3>2. QED
      BY <2>0, <3>1
  <2>6. CASE Stop
    BY <2>0, <2>6 DEF Stop
  <2>7. QED
    BY <1>2, <2>1, <2>2, <2>3, <2>4, <2>5, <2>6
       DEF QueryMoves, QueryStep, WatchStep
<1>3. CASE ~WriteFile /\ ~RemoveFile /\ ~QueryMoves
  BY <1>3, FileLeftAlone, QueryLeftAlone
<1>4. QED
  BY <1>1, <1>2, <1>3

\* Every step keeps one goroutine at most that watches the file.
LEMMA WatchKept ==
    ASSUME TypeOK, WatchInv, [Next]_vars
    PROVE  WatchInv'
<1> USE FileQueryAssumption DEF WatchInv
<1>1. CASE ~QueryMoves
  BY <1>1, QueryLeftAlone
<1>2. ASSUME QueryMoves, NEW w \in watchers, StatChanged(w) PROVE WatchInv'
  <2> DEFINE result == IF fileStat = None THEN Failed ELSE fileStat
             sending == [w EXCEPT !.at = "send", !.result = result]
  <2>1. sending.last = w.last /\ sending.at = "send" /\ sending.result = result
    BY DEF TypeOK, QueryTypeOK
  <2>2. result # None
    BY DEF TypeOK, QueryTypeOK
  <2>3. /\ watchers' = {sending}
        /\ UNCHANGED <<qpc, stat, stopped, taken, offered>>
    BY <1>2 DEF StatChanged, Becomes
  <2> HIDE DEF result, sending
  <2>4. QED
    BY <2>1, <2>2, <2>3
<1>3. ASSUME QueryMoves, NEW w \in watchers, StatSame(w) PROVE WatchInv'
  <2> DEFINE sleeping == [w EXCEPT !.at = "sleep"]
  <2>1. sleeping.last = w.last /\ sleeping.at = "sleep"
    BY DEF TypeOK, QueryTypeOK
  <2>2. w.last # None
    BY <1>3 DEF StatSame
  <2>3. /\ watchers' = {sleeping}
        /\ UNCHANGED <<qpc, stat, stopped, taken, offered>>
    BY <1>3 DEF StatSame, Becomes
  <2> HIDE DEF sleeping
  <2>4. QED
    BY <2>1, <2>2, <2>3
<1>4. ASSUME QueryMoves, NEW w \in watchers, SendResult(w) \/ WatchStopped(w)
      PROVE  WatchInv'
  <2>1. watchers' = {} /\ UNCHANGED <<qpc, stat, stopped, taken>>
    BY <1>4 DEF SendResult, WatchStopped, Becomes
  <2>2. QED
    BY <2>1
<1>5. CASE CallWatch
  <2>1. /\ watchers' = {[at |-> "stat", last |-> stat, result |-> None]}
        /\ qpc' = "select" /\ offered' = None
        /\ UNCHANGED <<stat, stopped, taken>>
    BY <1>5 DEF CallWatch
  <2>2. QED
    BY <2>1
<1>6. CASE FetchStopped
  BY <1>6 DEF FetchStopped, FetchTo
<1>7. CASE TakeResult
  <2>1. watchers = {} /\ watchers' = {}
    BY <1>7 DEF TakeResult, FetchTo
  <2>2. qpc' = "read" => taken' # None
    BY <1>7 DEF TakeResult, FetchTo
  <2>3. QED
    BY <2>1, <2>2
<1>8. CASE ReadFile \/ ReadFails \/ ReturnLater \/ ReturnNotLater \/ Deliver
           \/ Retry \/ GiveUp \/ PollStopped
  <2>1. /\ qpc \notin {"select", "ended"} /\ qpc' # "read"
        /\ UNCHANGED <<watchers, stopped>>
    BY <1>8 DEF ReadFile, Uses, ReadFails, ReturnLater, ReturnNotLater, Deliver,
       Retry, GiveUp, PollStopped, FetchTo
  <2>2. QED
    BY <2>1
<1>9. CASE Stop
  BY <1>9 DEF Stop, TypeOK, QueryTypeOK
<1>10. QED
  BY <1>1, <1>2, <1>3, <1>4, <1>5, <1>6, <1>7, <1>8, <1>9
     DEF QueryMoves, QueryStep, WatchStep, FetchStep

\* Only the agent's query and the loop of VaultTokenWatcher set the token of
\* the client.
LEMMA ClientLeftAlone ==
    ASSUME LoopInv, [Next]_vars,
           \/ QueryMoves /\ query # "agent"
           \/ ~QueryMoves /\ query # "token"
    PROVE  UNCHANGED client
<1> USE DEF loopVars
<1>1. CASE QueryMoves
  BY <1>1 DEF QueryMoves, QueryStep, WatchStep, FetchStep, StatChanged, StatSame,
     SendResult, WatchStopped, Becomes, CallWatch, FetchStopped, TakeResult,
     ReadFile, Uses, ReadFails, ReturnLater, ReturnNotLater, Deliver, Retry,
     GiveUp, PollStopped, Stop
<1>2. CASE WriteFile \/ RemoveFile \/ PollAgain \/ Cancel
  BY <1>2 DEF WriteFile, RemoveFile, PollAgain, Cancel
<1>3. ASSUME NEW s \in Slots,
             \/ WaitTakes(s) \/ WaitReads(s) \/ WaitNotifies(s)
             \/ WaitDrained(s) \/ WaitFails(s) \/ WaitCancelled(s)
      PROVE  UNCHANGED client
  BY <1>3 DEF WaitTakes, WaitReads, WaitNotifies, WaitDrained, WaitFails,
     WaitCancelled, Finishes, Moves, WaitMoves
<1>4. CASE LoopStep /\ ~QueryMoves
  BY <1>4 DEF LoopInv, LoopStep, CallWaitCh, LoopResult, SameToken, EmptyToken,
     NewToken, NewWrappedToken, Unwrapped, UnwrapFails, LoopEnds, TakeToken
<1>5. CASE UNCHANGED vars
  BY <1>5 DEF vars
<1>6. QED
  BY <1>1, <1>2, <1>3, <1>4, <1>5 DEF Next, WaitStep

\* Every step keeps what was read of a file that is as it was.
LEMMA ReadKept ==
    ASSUME TypeOK, StampInv, LoopInv, ReadInv, [Next]_vars
    PROVE  ReadInv'
<1> USE FileQueryAssumption DEF ReadInv
<1>1. CASE WriteFile \/ RemoveFile
  <2>1. /\ stat' = stat /\ fileStat' \in {stamp + 1, None}
    BY <1>1 DEF WriteFile, RemoveFile, qvars
  <2>2. stat = None \/ (stat <= stamp /\ stat \in Int)
    BY DEF StampInv, Past, TypeOK, QueryTypeOK, Stats
  <2>3. stamp \in Int
    BY DEF TypeOK, Stats
  <2>4. stat' = None \/ stat' # fileStat'
    BY <2>1, <2>2, <2>3
  <2>5. QED
    BY <2>4
<1> SUFFICES ASSUME UNCHANGED <<file, fileStat>> PROVE ReadInv'
  BY <1>1, FileLeftAlone
<1>2. CASE ~QueryMoves
  <2>1. query # "token" => UNCHANGED client
    BY <1>2, ClientLeftAlone
  <2>2. QED
    BY <1>2, <2>1, QueryLeftAlone
<1>3. CASE WatchStep \/ CallWatch \/ FetchStopped \/ TakeResult \/ Stop
  <2>1. /\ UNCHANGED <<query, stat, viewed, missed, answer, client>>
        /\ qpc' = qpc \/ (qpc # "return" /\ qpc' # "return")
    BY <1>3 DEF WatchStep, StatChanged, StatSame, SendResult, WatchStopped,
       Becomes, CallWatch, FetchStopped, TakeResult, Stop, FetchTo, viewVars
  <2>2. QED
    BY <2>1
<1>4. CASE ReadFile
  BY <1>4 DEF ReadFile, Uses, FetchTo
<1>5. CASE ReadFails \/ Deliver \/ Retry \/ GiveUp \/ PollStopped
  <2>1. /\ UNCHANGED <<query, stat, viewed, missed, client>>
        /\ qpc # "return" /\ qpc' # "return"
    BY <1>5 DEF ReadFails, Deliver, Retry, GiveUp, PollStopped, FetchTo, viewVars
  <2>2. QED
    BY <2>1
<1>6. CASE ReturnLater
  <2>1. /\ UNCHANGED <<query, stat, client>>
        /\ qpc = "return" /\ qpc' # "return" /\ viewed' = answer
    BY <1>6 DEF ReturnLater, FetchTo
  <2>2. QED
    BY <2>1
<1>7. CASE ReturnNotLater
  <2>1. /\ UNCHANGED <<query, stat, client, viewed>>
        /\ qpc = "return" /\ qpc' # "return" /\ missed' = NewData
    BY <1>7 DEF ReturnNotLater, FetchTo
  <2>2. QED
    BY <2>1 DEF NewData
<1>8. QED
  BY <1>2, <1>3, <1>4, <1>5, <1>6, <1>7 DEF QueryMoves, QueryStep, FetchStep

\* Every step of the loop keeps its own state in order.
LEMMA LoopStepKeeps ==
    ASSUME TypeOK, LoopInv, LoopStep
    PROVE  LoopInv'
<1> USE FileQueryAssumption, TokenFileAssumption DEF LoopInv
<1>0. /\ query' = query /\ waits \in [Slots -> Waits]
      /\ tokenUpdate \in Contents \cup {None}
  BY TypeParts DEF LoopStep, CallWaitCh, LoopResult, SameToken, EmptyToken,
     NewToken, NewWrappedToken, Unwrapped, UnwrapFails, LoopEnds, LoopMoves,
     qvars, TypeOK
<1>1. CASE CallWaitCh
  <2>1. PICK s \in Slots : /\ waits' = [waits EXCEPT ![s] = Idle("wait")]
                           /\ current' = s
    BY <1>1 DEF CallWaitCh
  <2>2. \A o \in Slots : waits'[o].at = "notify" => waits[o].at = "notify"
    BY <1>0, <2>1 DEF Idle
  <2>3. QED
    BY <1>0, <1>1, <2>1, <2>2 DEF CallWaitCh, LoopMoves
<1>2. ASSUME LeaveWait \/ waits' = waits \/ waits' = [waits EXCEPT ![current] = Free]
      PROVE  \A o \in Slots : waits'[o].at = "notify" => waits[o].at = "notify"
  BY <1>0, <1>2 DEF LeaveWait, Free, Idle
<1>3. CASE LoopResult
  <2>1. loop' = "start" /\ UNCHANGED <<client, tokenUpdate, rawToken>>
    BY <1>3 DEF LoopResult, LoopMoves
  <2>2. QED
    BY <1>0, <1>2, <1>3, <2>1 DEF LoopResult
<1>4. CASE SameToken \/ EmptyToken
  <2>1. /\ loop' = "start" /\ UNCHANGED <<client, rawToken>>
        /\ tokenUpdate # None
    BY <1>4 DEF SameToken, EmptyToken, TakeToken, LoopMoves
  <2>2. QED
    BY <1>0, <2>1
<1>5. ASSUME tokenUpdate \notin {rawToken, Blank}, tokenUpdate # None
      PROVE  /\ tokenUpdate \in Tokens
             /\ \A w \in BOOLEAN :
                  LET c == [token |-> tokenUpdate, wrapped |-> w]
                  IN  c \in Clients /\ c.wrapped = w /\ c.token = tokenUpdate
  BY <1>0, <1>5 DEF Tokens, Clients
<1>6. CASE NewToken
  <2>1. /\ loop' = "start" /\ rawToken' = tokenUpdate
        /\ client' = [token |-> tokenUpdate, wrapped |-> FALSE]
        /\ tokenUpdate # None /\ tokenUpdate \notin {rawToken, Blank}
    BY <1>6 DEF NewToken, TakeToken, LoopMoves
  <2>2. QED
    BY <1>0, <1>5, <2>1
<1>7. CASE NewWrappedToken
  <2>1. /\ loop' = "unwrap" /\ pending' = tokenUpdate /\ UNCHANGED rawToken
        /\ client' = [token |-> tokenUpdate, wrapped |-> TRUE]
        /\ tokenUpdate # None /\ tokenUpdate \notin {rawToken, Blank}
    BY <1>7 DEF NewWrappedToken, TakeToken, LoopMoves
  <2>2. query = "token"
    BY <2>1
  <2>3. QED
    BY <1>0, <1>5, <2>1, <2>2
<1>8. CASE Unwrapped
  <2>1. /\ loop = "unwrap" /\ loop' = "start" /\ rawToken' = pending
        /\ client' = [token |-> pending, wrapped |-> FALSE]
        /\ UNCHANGED <<waits, tokenUpdate>>
    BY <1>8 DEF Unwrapped, LoopMoves
  <2>2. pending \in Tokens /\ client' \in Clients /\ client'.token = pending
    BY <2>1 DEF Clients
  <2>3. QED
    BY <1>0, <2>1, <2>2
<1>9. CASE UnwrapFails
  <2>1. loop' = "start" /\ UNCHANGED <<client, waits, tokenUpdate, rawToken>>
    BY <1>9 DEF UnwrapFails, LoopMoves
  <2>2. QED
    BY <1>0, <2>1
<1>10. CASE LoopEnds
  <2>1. loop' = "ended" /\ UNCHANGED <<client, tokenUpdate, rawToken>> /\ LeaveWait
    BY <1>10 DEF LoopEnds, LoopMoves
  <2>2. QED
    BY <1>0, <1>2, <2>1
<1>11. QED
  BY <1>1, <1>3, <1>4, <1>6, <1>7, <1>8, <1>9, <1>10 DEF LoopStep

\* Every step keeps the state of the loop in order.
LEMMA LoopKept ==
    ASSUME TypeOK, LoopInv, [Next]_vars
    PROVE  LoopInv'
<1>1. CASE LoopStep
  BY <1>1, LoopStepKeeps
<1>2. CASE QueryMoves
  <2>1. /\ UNCHANGED <<loopVars, waits, tokenUpdate>>
        /\ query' = query
    BY <1>2 DEF QueryMoves, QueryStep, WatchStep, FetchStep, StatChanged,
       StatSame, SendResult, WatchStopped, Becomes, CallWatch, FetchStopped,
       TakeResult, ReadFile, Uses, ReadFails, ReturnLater, ReturnNotLater,
       Deliver, Retry, GiveUp, PollStopped, Stop, FetchTo
  <2>2. query = "token" => client' = client
    BY <1>2, ClientLeftAlone
  <2>3. QED
    BY <2>1, <2>2 DEF LoopInv, loopVars
<1>3. CASE WriteFile \/ RemoveFile \/ PollAgain \/ Cancel \/ UNCHANGED vars
  <2>1. UNCHANGED <<query, loopVars, client, waits, tokenUpdate>>
    BY <1>3 DEF WriteFile, RemoveFile, PollAgain, Cancel, vars, qvars
  <2>2. QED
    BY <2>1 DEF LoopInv, loopVars
<1>4. ASSUME NEW s \in Slots,
             \/ WaitTakes(s) \/ WaitReads(s) \/ WaitNotifies(s)
             \/ WaitDrained(s) \/ WaitFails(s) \/ WaitCancelled(s)
      PROVE  LoopInv'
  <2>0. waits \in [Slots -> Waits]
    BY TypeParts
  <2>1. UNCHANGED <<query, loopVars, client>>
    BY <1>4 DEF WaitTakes, WaitReads, WaitNotifies, WaitDrained, WaitFails,
       WaitCancelled, Finishes, Moves, WaitMoves
  <2>2. ASSUME query # "token"
        PROVE  /\ tokenUpdate' = tokenUpdate
               /\ \A o \in Slots : waits'[o].at # "notify"
    <3>1. ~WaitNotifies(s)
      BY <2>2 DEF LoopInv, WaitNotifies
    <3>2. tokenUpdate' = tokenUpdate
      BY <1>4, <3>1 DEF WaitTakes, WaitReads, WaitDrained, WaitFails, WaitCancelled
    <3>3. \A o \in Slots : o # s => waits'[o] = waits[o]
      BY <1>4, <2>0, <2>2, <3>1 DEF WaitTakes, WaitReads, WaitDrained, WaitFails,
         WaitCancelled, Finishes, Moves, WaitMoves
    <3>4. waits'[s].at \in {"read", "drain", "result", "none"}
      BY <1>4, <2>0, <2>2, <3>1 DEF WaitTakes, WaitReads, WaitDrained, WaitFails,
         WaitCancelled, Finishes, Moves, WaitMoves, Free, Idle, Waits
    <3>5. QED
      BY <2>2, <3>2, <3>3, <3>4 DEF LoopInv
  <2>3. QED
    BY <2>1, <2>2 DEF LoopInv, loopVars
<1>5. QED
  BY <1>1, <1>2, <1>3, <1>4 DEF Next, WaitStep

-----------------------------------------------------------------------------

\* A step of the query leaves what is on its way on its way, and sends what is
\* new to the view.
LEMMA ComingFromQuery ==
    ASSUME TypeOK, WatchInv, QueryMoves, Coming \/ viewed' # viewed
    PROVE  Coming'
<1> USE DEF Coming
<1>0. UNCHANGED waits /\ dataCh \in Nat
  BY DEF QueryMoves, TypeOK, QueryTypeOK
<1>1. CASE WatchStep
  <2>1. \E w \in watchers : UNCHANGED <<qpc, dataCh, stopped, viewed>>
    BY <1>1 DEF WatchStep, StatChanged, StatSame, SendResult, WatchStopped,
       Becomes, viewVars
  <2>2. QED
    BY <1>0, <2>1
<1>2. CASE CallWatch \/ FetchStopped \/ TakeResult \/ ReadFile \/ ReadFails
           \/ ReturnNotLater \/ Retry \/ GiveUp
  <2>1. /\ UNCHANGED <<dataCh, viewed>>
        /\ qpc \notin {"deliver", "ended"}
    BY <1>2 DEF CallWatch, FetchStopped, TakeResult, ReadFile, Uses, ReadFails,
       ReturnNotLater, Retry, GiveUp, viewVars
  <2>2. QED
    BY <1>0, <2>1
<1>3. CASE ReturnLater
  <2>1. /\ dataCh' = dataCh /\ qpc = "return" /\ viewed' = answer
        /\ NewData => qpc' = "deliver"
    BY <1>3 DEF ReturnLater, FetchTo
  <2>2. viewed' = viewed \/ NewData
    BY <2>1 DEF NewData
  <2>3. QED
    BY <1>0, <2>1, <2>2
<1>4. CASE Deliver
  BY <1>0, <1>4 DEF Deliver
<1>5. CASE PollStopped
  <2>1. /\ qpc \notin {"select", "ended"} /\ qpc' = "ended" /\ stopped
        /\ UNCHANGED <<watchers, stopped>>
    BY <1>5 DEF PollStopped, FetchTo
  <2>2. watchers' = {}
    BY <2>1 DEF WatchInv
  <2>3. QED
    BY <2>1, <2>2
<1>6. CASE Stop
  BY <1>0, <1>6 DEF Stop, viewVars
<1>7. QED
  BY <1>1, <1>2, <1>3, <1>4, <1>5, <1>6 DEF QueryMoves, QueryStep, FetchStep

\* The loop leaves Waits alone that have data in their hands.
LEMMA WaitsOfLoop ==
    ASSUME TypeOK, LoopStep, NEW s \in Slots
    PROVE  /\ waits[s].at \in {"read", "notify"} => waits'[s] = waits[s]
           /\ waits'[s].at = "notify" => waits'[s] = waits[s]
<1> USE DEF Free, Idle
<1>0. waits \in [Slots -> Waits]
  BY TypeParts
<1>1. CASE CallWaitCh
  BY <1>0, <1>1 DEF CallWaitCh
<1>2. CASE LoopResult
  BY <1>0, <1>2 DEF LoopResult
<1>3. CASE LeaveWait
  BY <1>0, <1>3 DEF LeaveWait
<1>4. CASE UNCHANGED waits
  BY <1>4
<1>5. QED
  BY <1>1, <1>2, <1>3, <1>4 DEF LoopStep, SameToken, EmptyToken, NewToken,
     NewWrappedToken, Unwrapped, UnwrapFails, LoopEnds, TakeToken

\* A step of a Wait leaves the other Waits alone that have data in their hands.
LEMMA WaitsOfWait ==
    ASSUME TypeOK, NEW s \in Slots,
           \/ WaitTakes(s) \/ WaitDrained(s) \/ WaitFails(s) \/ WaitCancelled(s)
    PROVE  /\ waits[s].at \notin {"read", "notify"}
           /\ waits'[s].at # "notify"
           /\ \A o \in Slots \ {s} : waits'[o] = waits[o]
<1>0. waits \in [Slots -> Waits]
  BY TypeParts
<1>1. waits[s].at \notin {"read", "notify"}
  BY DEF WaitTakes, WaitDrained, WaitFails, WaitCancelled
<1>2. \/ waits' = [waits EXCEPT ![s].at = "read"]
      \/ waits' = [waits EXCEPT ![s] = Idle("result")]
      \/ waits' = [waits EXCEPT ![s] = Idle("none")]
  BY DEF WaitTakes, WaitDrained, WaitFails, WaitCancelled, Finishes, Moves,
     WaitMoves, Free
<1>3. waits'[s].at # "notify" /\ \A o \in Slots \ {s} : waits'[o] = waits[o]
  BY <1>0, <1>2 DEF Idle, Waits
<1>4. QED
  BY <1>1, <1>3

\* What is on its way stays on its way until a Wait reads it.
LEMMA ComingStep ==
    ASSUME TypeOK, WatchInv, [Next]_vars, Coming \/ viewed' # viewed,
           \A s \in Slots : ~WaitReads(s)
    PROVE  Coming'
<1> USE DEF Coming
<1>0. dataCh \in Nat /\ waits \in [Slots -> Waits]
  BY TypeParts DEF TypeOK, QueryTypeOK
<1>1. CASE QueryMoves
  BY <1>1, ComingFromQuery
<1> SUFFICES ASSUME ~QueryMoves PROVE Coming'
  BY <1>1
<1>2. /\ Coming
      /\ UNCHANGED <<watchers, stopped>>
      /\ qpc = "deliver" => qpc' = "deliver"
      /\ qpc = "ended" /\ stopped => qpc' = "ended"
  BY QueryLeftAlone
<1>3. ASSUME UNCHANGED dataCh,
             \A s \in Slots : waits[s].at = "read" => waits'[s].at = "read"
      PROVE  Coming'
  BY <1>2, <1>3
<1>4. CASE WriteFile \/ RemoveFile \/ PollAgain \/ Cancel \/ UNCHANGED vars
  BY <1>3, <1>4 DEF WriteFile, RemoveFile, PollAgain, Cancel, vars, qvars, viewVars
<1>5. CASE LoopStep
  <2>1. UNCHANGED dataCh
    BY <1>5 DEF LoopStep, CallWaitCh, LoopResult, SameToken, EmptyToken, NewToken,
       NewWrappedToken, Unwrapped, UnwrapFails, LoopEnds, LoopMoves, qvars, viewVars
  <2>2. QED
    BY <1>3, <1>5, <2>1, WaitsOfLoop
<1>6. ASSUME NEW s \in Slots, WaitTakes(s) PROVE Coming'
  <2>1. waits'[s].at = "read"
    BY <1>0, <1>6 DEF WaitTakes, Moves, WaitMoves, Waits
  <2>2. QED
    BY <2>1
<1>7. ASSUME NEW s \in Slots, WaitDrained(s) \/ WaitFails(s) \/ WaitCancelled(s)
      PROVE  Coming'
  <2>1. UNCHANGED dataCh
    BY <1>7 DEF WaitDrained, WaitFails, WaitCancelled
  <2>2. QED
    BY <1>3, <1>7, <2>1, WaitsOfWait
<1>8. ASSUME NEW s \in Slots, WaitNotifies(s) PROVE Coming'
  <2>1. ASSUME NEW o \in Slots, waits[o].at = "read" PROVE waits'[o].at = "read"
    <3>1. o # s
      BY <1>8, <2>1 DEF WaitNotifies
    <3>2. waits'[o] = [waits[o] EXCEPT !.late = @ \/ o \in waits[s].older,
                                       !.older = @ \ {s}]
      BY <1>8, <3>1 DEF WaitNotifies, WaitMoves
    <3>3. waits[o] \in Waits
      BY <1>0
    <3>4. QED
      BY <2>1, <3>2, <3>3 DEF Waits
  <2>2. UNCHANGED dataCh
    BY <1>8 DEF WaitNotifies
  <2>3. QED
    BY <1>3, <2>1, <2>2
<1>9. QED
  BY <1>4, <1>5, <1>6, <1>7, <1>8 DEF Next, WaitStep

\* The loop does with the last token what it should.
LEMMA LastIsUsed ==
    ASSUME TypeOK, LoopInv, LastIsViewed, LoopStep
    PROVE  LastIsViewed'
<1> USE FileQueryAssumption, TokenFileAssumption DEF LastIsViewed, Tokens
<1>1. UNCHANGED viewed
  BY DEF LoopStep, CallWaitCh, LoopResult, SameToken, EmptyToken, NewToken,
     NewWrappedToken, Unwrapped, UnwrapFails, LoopEnds, LoopMoves, qvars, viewVars
<1>2. CASE CallWaitCh \/ LoopResult \/ LoopEnds
  <2>1. /\ UNCHANGED <<client, tokenUpdate, rawToken>>
        /\ loop # "unwrap" /\ loop' # "unwrap"
    BY <1>2 DEF CallWaitCh, LoopResult, LoopEnds, LoopMoves
  <2>2. QED
    BY <1>1, <2>1
<1>3. CASE SameToken
  BY <1>1, <1>3 DEF SameToken, TakeToken, LoopMoves
<1>4. CASE EmptyToken
  BY <1>1, <1>4 DEF EmptyToken, TakeToken
<1>5. CASE NewToken
  BY <1>1, <1>5 DEF NewToken, TakeToken, LoopMoves
<1>6. CASE NewWrappedToken
  BY <1>1, <1>6 DEF NewWrappedToken, TakeToken, LoopMoves
<1>7. CASE Unwrapped
  BY <1>1, <1>7 DEF Unwrapped, LoopMoves
<1>8. CASE UnwrapFails
  BY <1>1, <1>8 DEF UnwrapFails, LoopMoves, LoopInv
<1>9. QED
  BY <1>2, <1>3, <1>4, <1>5, <1>6, <1>7, <1>8 DEF LoopStep

\* A Wait that reads the view's data has the newest token of all.
LEMMA TokenRead ==
    ASSUME TypeOK, TokenInv, query = "token", NEW s \in Slots, WaitReads(s)
    PROVE  TokenInv'
<1>0. waits \in [Slots -> Waits] /\ viewed' = viewed
  BY TypeParts DEF WaitReads, WaitMoves
<1> DEFINE older == {o \in Slots : /\ waits[o].at = "notify"
                                   /\ waits[o].value # viewed}
<1>1. waits' = [waits EXCEPT ![s] = [at |-> "notify", value |-> viewed,
                                     late |-> FALSE, older |-> older]]
  BY DEF WaitReads, WaitMoves
<1>2. Current(s)' /\ waits'[s].older = older
  BY <1>0, <1>1 DEF Current
<1>3. ASSUME NEW o \in Slots, waits'[o].at = "notify"
      PROVE  Current(o)' \/ o \in waits'[s].older
  <2>1. CASE o = s
    BY <1>2, <2>1
  <2>2. CASE o # s
    BY <1>0, <1>1, <1>2, <1>3, <2>2 DEF Current
  <2>3. QED
    BY <2>1, <2>2
<1> HIDE DEF older
<1>4. QED
  BY <1>2, <1>3 DEF TokenInv

\* When a Wait hands on its token, the ones it has overtaken are late.
LEMMA TokenNotified ==
    ASSUME TypeOK, TokenInv, ~Coming, NEW n \in Slots, WaitNotifies(n)
    PROVE  TokenInv'
<1> USE FileQueryAssumption
<1>0. /\ waits \in [Slots -> Waits] /\ viewed' = viewed
      /\ tokenUpdate' = waits[n].value /\ overtaken' = waits[n].late
      /\ waits[n].at = "notify"
  BY TypeParts DEF WaitNotifies, WaitMoves
<1>1. waits'[n].at = "drain"
  BY DEF WaitNotifies, WaitMoves, Idle
<1>2. ASSUME NEW o \in Slots, o # n
      PROVE  /\ waits'[o].at = waits[o].at /\ waits'[o].value = waits[o].value
             /\ waits'[o].late = (waits[o].late \/ o \in waits[n].older)
             /\ waits'[o].older = waits[o].older \ {n}
  <2>1. waits'[o] = [waits[o] EXCEPT !.late = @ \/ o \in waits[n].older,
                                     !.older = @ \ {n}]
    BY <1>2 DEF WaitNotifies, WaitMoves
  <2>2. waits[o] \in Waits
    BY <1>0
  <2>3. QED
    BY <2>1, <2>2 DEF Waits
<1>3. ASSUME NEW o \in Slots, o # n PROVE Current(o)' <=> Current(o)
  BY <1>0, <1>2, <1>3 DEF Current
<1>4. ASSUME NEW s \in Slots, waits'[s].at = "notify"
      PROVE  \/ Current(s)' \/ waits'[s].late
             \/ \E o \in Slots : Current(o)' /\ s \in waits'[o].older
  <2>1. s # n /\ waits[s].at = "notify"
    BY <1>1, <1>2, <1>4
  <2>2. CASE Current(s) \/ waits[s].late
    BY <1>2, <1>3, <2>1, <2>2
  <2>3. ASSUME NEW o \in Slots, Current(o), s \in waits[o].older
        PROVE  \/ waits'[s].late
               \/ Current(o)' /\ s \in waits'[o].older
    <3>1. CASE o = n
      BY <1>2, <2>1, <2>3, <3>1
    <3>2. CASE o # n
      BY <1>2, <1>3, <2>1, <2>3, <3>2
    <3>3. QED
      BY <3>1, <3>2
  <2>4. QED
    BY <2>1, <2>2, <2>3 DEF TokenInv
<1>5. overtaken' \/ LastIsViewed' \/ \E o \in Slots : Current(o)'
  <2>1. CASE Current(n)
    <3>1. tokenUpdate' = viewed'
      BY <1>0, <2>1 DEF Current
    <3>2. QED
      BY <3>1 DEF LastIsViewed, Tokens
  <2>2. CASE ~Current(n)
    BY <1>0, <1>3, <2>2 DEF TokenInv
  <2>3. QED
    BY <2>1, <2>2
<1>6. QED
  BY <1>4, <1>5 DEF TokenInv

\* Every step keeps the order of the tokens.
LEMMA TokenKept ==
    ASSUME TypeOK, WatchInv, LoopInv, query = "token", TokenInv, [Next]_vars
    PROVE  TokenInv'
<1>0. waits \in [Slots -> Waits]
  BY TypeParts
<1>1. ASSUME NEW s \in Slots, WaitReads(s) PROVE TokenInv'
  BY <1>1, TokenRead
<1> SUFFICES ASSUME \A s \in Slots : ~WaitReads(s), ~Coming' PROVE TokenInv'
  BY <1>1 DEF TokenInv
<1>2. ~Coming /\ viewed' = viewed
  BY ComingStep
<1>3. ASSUME NEW s \in Slots, WaitNotifies(s) PROVE TokenInv'
  BY <1>2, <1>3, TokenNotified
<1>4. ASSUME UNCHANGED overtaken, LastIsViewed => LastIsViewed',
             \A s \in Slots :
               /\ waits[s].at = "notify" => waits'[s] = waits[s]
               /\ waits'[s].at = "notify" => waits'[s] = waits[s]
      PROVE  TokenInv'
  BY <1>2, <1>4 DEF TokenInv, Current
<1>5. CASE LoopStep
  <2>1. UNCHANGED overtaken
    BY <1>5 DEF LoopStep, CallWaitCh, LoopResult, SameToken, EmptyToken, NewToken,
       NewWrappedToken, Unwrapped, UnwrapFails, LoopEnds, LoopMoves
  <2>2. QED
    BY <1>4, <1>5, <2>1, WaitsOfLoop, LastIsUsed
<1>6. ASSUME NEW s \in Slots,
             \/ WaitTakes(s) \/ WaitDrained(s) \/ WaitFails(s) \/ WaitCancelled(s)
      PROVE  TokenInv'
  <2>1. UNCHANGED <<overtaken, tokenUpdate, loop, pending, client, rawToken>>
    BY <1>6 DEF WaitTakes, WaitDrained, WaitFails, WaitCancelled, Finishes, Moves,
       WaitMoves, loopVars
  <2>2. LastIsViewed => LastIsViewed'
    BY <1>2, <2>1 DEF LastIsViewed
  <2>3. QED
    BY <1>4, <1>6, <2>1, <2>2, WaitsOfWait
<1>7. CASE QueryMoves
  <2>1. UNCHANGED client
    BY <1>7, ClientLeftAlone
  <2>2. UNCHANGED <<overtaken, tokenUpdate, loop, pending, rawToken, waits>>
    BY <1>7 DEF QueryMoves, loopVars
  <2>3. LastIsViewed => LastIsViewed'
    BY <1>2, <2>1, <2>2 DEF LastIsViewed
  <2>4. QED
    BY <1>4, <2>2, <2>3
<1>8. CASE WriteFile \/ RemoveFile \/ PollAgain \/ Cancel \/ UNCHANGED vars
  <2>1. UNCHANGED <<overtaken, tokenUpdate, loop, pending, rawToken, waits, client>>
    BY <1>8 DEF WriteFile, RemoveFile, PollAgain, Cancel, vars, loopVars
  <2>2. LastIsViewed => LastIsViewed'
    BY <1>2, <2>1 DEF LastIsViewed
  <2>3. QED
    BY <1>4, <2>1, <2>2
<1>9. QED
  BY <1>3, <1>5, <1>6, <1>7, <1>8 DEF Next, WaitStep

\* Every step keeps the cache and the tokens in step with the view.
LEMMA HandKept ==
    ASSUME TypeOK, WatchInv, LoopInv, HandInv, [Next]_vars
    PROVE  HandInv'
<1>1. query' = query
  <2>1. CASE QueryMoves
    BY <2>1 DEF QueryMoves, QueryStep, WatchStep, FetchStep, StatChanged,
       StatSame, SendResult, WatchStopped, Becomes, CallWatch, FetchStopped,
       TakeResult, ReadFile, Uses, ReadFails, ReturnLater, ReturnNotLater,
       Deliver, Retry, GiveUp, PollStopped, Stop, FetchTo
  <2>2. QED
    BY <2>1, QueryLeftAlone
<1>2. CASE query = "token"
  BY <1>1, <1>2, TokenKept DEF HandInv
<1>3. CASE query = "file"
  <2>1. ASSUME NEW s \in Slots, WaitReads(s) PROVE cache' = viewed'
    BY <2>1 DEF WaitReads, Moves, WaitMoves
  <2>2. ASSUME \A s \in Slots : ~WaitReads(s) PROVE cache' = cache
    <3>1. CASE QueryMoves \/ WriteFile \/ RemoveFile \/ PollAgain \/ Cancel
               \/ UNCHANGED vars
      BY <3>1 DEF QueryMoves, WriteFile, RemoveFile, PollAgain, Cancel, vars
    <3>2. CASE LoopStep
      BY <3>2 DEF LoopStep, CallWaitCh, LoopResult, SameToken, EmptyToken,
         NewToken, NewWrappedToken, Unwrapped, UnwrapFails, LoopEnds, LoopMoves
    <3>3. CASE WaitStep
      BY <2>2, <3>3 DEF WaitStep, WaitTakes, WaitNotifies, WaitDrained,
         WaitFails, WaitCancelled
    <3>4. QED
      BY <3>1, <3>2, <3>3 DEF Next
  <2>3. QED
    BY <1>1, <1>3, <2>1, <2>2, ComingStep DEF HandInv
<1>4. QED
  BY <1>1, <1>2, <1>3 DEF HandInv

\* The initial states satisfy the invariant.
LEMMA InitInd == Init => Ind
<1> SUFFICES ASSUME Init PROVE Ind
  OBVIOUS
<1> USE FileQueryAssumption, TokenFileAssumption DEF Init, QueryInit
<1>1. /\ rawToken \in Tokens \cup {None} /\ client \in Clients \cup {None}
      /\ query = "token" => /\ client \in Clients /\ rawToken \in Tokens
                            /\ client.token = rawToken
  <2>1. CASE query = "token"
    <3>1. Configured \in Tokens
      BY DEF Tokens
    <3>2. /\ client = [token |-> Configured, wrapped |-> FALSE]
          /\ rawToken = Configured
      BY <2>1
    <3>3. client \in Clients /\ client.token = Configured
      BY <3>1, <3>2 DEF Clients
    <3>4. QED
      BY <3>1, <3>2, <3>3
  <2>2. CASE query # "token"
    BY <2>2
  <2>3. QED
    BY <2>1, <2>2
<1>2. TypeOK
  <2>1. waits \in [Slots -> Waits]
    BY FreeIsWait
  <2>2. QueryTypeOK /\ stamp \in Stats
    <3>1. 0 \in Stats /\ 0 \in 0..MaxSlips /\ 0 \in 0..Cap
      BY DEF Stats
    <3>2. /\ indexed \in BOOLEAN /\ received \in BOOLEAN
          /\ stopped \in BOOLEAN /\ missed \in BOOLEAN
      OBVIOUS
    <3>3. QED
      BY <3>1, <3>2 DEF QueryTypeOK
  <2>3. QED
    BY <1>1, <2>1, <2>2 DEF TypeOK, Waits
<1>3. StampInv
  BY DEF StampInv, Past
<1>4. WatchInv /\ ReadInv
  BY DEF WatchInv, ReadInv
<1>5. LoopInv
  BY <1>1 DEF LoopInv, Free, Idle
<1>6. HandInv
  BY DEF HandInv, TokenInv, LastIsViewed, Tokens, Free, Idle
<1>7. QED
  BY <1>2, <1>3, <1>4, <1>5, <1>6 DEF Ind

\* The invariant holds in every reachable state.
THEOREM IndInvariant == Spec => []Ind
<1>1. Ind /\ [Next]_vars => Ind'
  BY TypeStep, StampStep, WatchKept, ReadKept, LoopKept, HandKept DEF Ind
<1>2. QED
  BY InitInd, <1>1, PTL DEF Spec

\* The variables of FileQuery and TokenFile stay in their ranges; dataCh and
\* the table of Waits do not overflow.
THEOREM TypeCorrect == Spec => []TypeOK
<1>1. Ind => TypeOK
  BY DEF Ind
<1>2. QED
  BY <1>1, IndInvariant, PTL

\* watch and Fetch of the three queries of a file: while they wait for the
\* next change, the view (or the client) has what is in the file, whatever
\* changed between the stat and the read.
THEOREM FollowsFileHolds == Spec => []FollowsFile
<1>1. Ind => FollowsFile
  <2> SUFFICES ASSUME Ind, Resting PROVE FollowsFile
    BY DEF FollowsFile
  <2>1. PICK w \in watchers : w.at = "sleep" /\ w.last = fileStat
    BY DEF Resting
  <2>2. stat # None /\ stat = fileStat /\ qpc # "return"
    BY <2>1 DEF Ind, WatchInv
  <2>3. QED
    BY <2>2 DEF Ind, ReadInv, FollowsFile
<1>2. QED
  BY <1>1, IndInvariant, PTL

\* Wait, Notify and the loop of VaultTokenWatcher: when all is quiet, what is
\* in the file is in the cache or is the token of the Vault client, although
\* any number of Waits hand on what they read in any order.
THEOREM FileIsUsedHolds == Spec => []FileIsUsed
<1>1. Ind => FileIsUsed
  <2> SUFFICES ASSUME Ind, Settled PROVE CacheFollowsFile /\ ClientFollowsFile
    BY DEF FileIsUsed
  <2> USE DEF Ind
  <2>1. PICK w \in watchers : w.at = "sleep" /\ w.last = fileStat
    BY DEF Settled, Resting
  <2>2. /\ stat # None /\ stat = fileStat
        /\ qpc = "select" \/ qpc = "ended"
    BY <2>1 DEF WatchInv
  <2>3. ~Coming
    BY <2>1, <2>2 DEF Coming, Settled
  <2>4. query # "agent" /\ ~missed => viewed = file
    BY <2>2 DEF ReadInv
  <2>5. CacheFollowsFile
    BY <2>3, <2>4 DEF CacheFollowsFile, HandInv
  <2>6. ASSUME query = "token", loop = "select", file \in Tokens,
               ~client.wrapped, ~missed, ~overtaken
        PROVE  client.token = file
    <3>1. LastIsViewed
      BY <2>3, <2>6 DEF HandInv, TokenInv, Current, Settled
    <3>2. rawToken = file
      BY <2>4, <2>6, <3>1 DEF LastIsViewed, Settled
    <3>3. QED
      BY <2>6, <3>2 DEF LoopInv
  <2>7. QED
    BY <2>5, <2>6 DEF ClientFollowsFile
<1>2. QED
  BY <1>1, IndInvariant, PTL
=============================================================================
