----------------------------- MODULE ViewProofs -----------------------------
(***************************************************************************)
(* Proofs about View: for any number of poll goroutines, any values, any   *)
(* capacity of dataCh and any retry limit.                                 *)
(*                                                                         *)
(* The inductive invariant adds to the properties what a fetch goroutine   *)
(* that outlives its poll looks like (only once the view is stopped, and   *)
(* only past the poll's return), and that a fetch answers on at most one   *)
(* of doneCh and fetchErrCh, as its last step.                             *)
(***************************************************************************)
EXTENDS View, TLAPS

\* A retry is only slept for while retries are left.
RetryRoom == \A p \in Pollers : ppc[p] = "sleep" => retries[p] < MaxRetries

TypeInv == TypeOK /\ RetryRoom

\* A running fetch is being waited for, or the view was stopped and its poll
\* has left.
Orphans ==
    \A p \in Pollers : fpc[p] # "none" =>
        ppc[p] = "wait" \/ (StopClosed /\ ppc[p] \in {"unflag", "idle"})

\* The channels are empty while the fetch runs, and only one gets an answer.
OneAnswer ==
    \A p \in Pollers :
        /\ fpc[p] # "none" => ~doneCh[p] /\ fetchErrCh[p] = "none"
        /\ doneCh[p] => fetchErrCh[p] = "none"

Structure == SinglePoller /\ Orphans /\ OneAnswer

\* Something that may still lead to a delivery.
Undelivered(p) ==
    \/ Fetching(p)
    \/ doneCh[p] /\ ppc[p] = "wait"
    \/ ppc[p] = "deliver"

\* There is one such thing at a time, and none after a late delivery.
LateInv ==
    /\ \A p, q \in Pollers : Undelivered(p) /\ Undelivered(q) => p = q
    /\ late > 0 => StopClosed /\ \A p \in Pollers : ~Undelivered(p)
    /\ late <= 1

\* NoLostUpdate, and the same for the value that Wait is about to save.
NoLostInv ==
    /\ NoLostUpdate
    /\ receivedData /\ wpc = "save" /\ held # data => InFlight

Ind == TypeInv /\ Structure /\ LateInv /\ NoLostInv

-----------------------------------------------------------------------------

\* What a reply is made of.
LEMMA NoReplyType == NoReply \in Replies
BY ViewAssumption DEF NoReply, Replies

\* What a reply consists of.
LEMMA ReplyFields ==
    ASSUME NEW r \in Replies
    PROVE  r.index \in 0..MaxIndex /\ r.data \in Values
BY ViewAssumption DEF Replies

\* The server's answers are replies.
LEMMA ServerAnswersType ==
    ASSUME TypeOK, NEW p \in Pollers, NEW a \in ServerAnswers(p)
    PROVE  a \in Replies
<1>1. CASE allowStale[p]
  BY <1>1 DEF TypeOK, ServerAnswers, Answers, Replies
<1>2. CASE ~allowStale[p]
  <2>1. leader.index \in 1..MaxIndex /\ leader.data \in Values
    BY DEF TypeOK, Answers
  <2>2. a = [index |-> leader.index, data |-> leader.data, old |-> FALSE]
    BY <1>2 DEF ServerAnswers
  <2>3. QED
    BY <2>1, <2>2 DEF Replies
<1>3. QED
  BY <1>1, <1>2

\* The initial states satisfy the invariant.
LEMMA InitInd == Init => Ind
<1> SUFFICES ASSUME Init PROVE Ind
  OBVIOUS
<1> USE ViewAssumption DEF Init
<1>1. TypeInv
  <2>1. leader \in Answers /\ follower \in Answers
    BY DEF Answers
  <2>2. /\ reply \in [Pollers -> Replies]
        /\ retries \in [Pollers -> 0..MaxRetries]
        /\ fetchErrCh \in [Pollers -> ErrorKinds \cup {"none"}]
        /\ dataCh \in 0..Cap /\ late \in Nat
        /\ lastIndex \in 0..MaxIndex /\ errorsLeft \in 0..MaxErrors
    BY NoReplyType
  <2>3. /\ allowStale \in [Pollers -> BOOLEAN]
        /\ doneCh \in [Pollers -> BOOLEAN]
        /\ successCh \in [Pollers -> BOOLEAN]
        /\ isPolling \in BOOLEAN /\ receivedData \in BOOLEAN
    OBVIOUS
  <2>4. /\ ppc \in [Pollers -> {"idle", "flag", "spawn", "wait", "deliver",
                                "sleep", "push", "unflag"}]
        /\ fpc \in [Pollers -> {"none", "check", "query", "index", "store",
                                "done"}]
    OBVIOUS
  <2>5. data \in Values /\ held \in Values /\ cache \in Values \cup {Uncached}
    OBVIOUS
  <2>6. QED
    BY <2>1, <2>2, <2>3, <2>4, <2>5 DEF TypeInv, TypeOK, RetryRoom
<1>2. Structure
  BY DEF Structure, SinglePoller, Orphans, OneAnswer, Holding
<1>3. LateInv
  BY DEF LateInv, Undelivered, Fetching
<1>4. NoLostInv
  BY DEF NoLostInv, NoLostUpdate
<1>5. QED
  BY <1>1, <1>2, <1>3, <1>4 DEF Ind

\* Every step keeps the types.
LEMMA TypeInvStep ==
    ASSUME TypeInv, [Next]_vars
    PROVE  TypeInv'
<1> USE ViewAssumption DEF vars, serverVars, fetchVars, waitVars,
        TypeInv, TypeOK, RetryRoom
<1>1. ASSUME NEW p \in Pollers, CallPoll(p) PROVE TypeInv'
  BY <1>1 DEF CallPoll
<1>2. ASSUME NEW p \in Pollers, AlreadyPolling(p) PROVE TypeInv'
  BY <1>2 DEF AlreadyPolling
<1>3. ASSUME NEW p \in Pollers, SetPollingFlag(p) PROVE TypeInv'
  BY <1>3 DEF SetPollingFlag
<1>4. ASSUME NEW p \in Pollers, SpawnFetch(p) PROVE TypeInv'
  BY <1>4, NoReplyType DEF SpawnFetch
<1>5. ASSUME NEW p \in Pollers, ReceiveDone(p) PROVE TypeInv'
  BY <1>5 DEF ReceiveDone, LeaveChannels
<1>6. ASSUME NEW p \in Pollers, Deliver(p) PROVE TypeInv'
  BY <1>6 DEF Deliver
<1>7. ASSUME NEW p \in Pollers, ReceiveSuccess(p) PROVE TypeInv'
  BY <1>7 DEF ReceiveSuccess
<1>8. ASSUME NEW p \in Pollers, ReceiveError(p) PROVE TypeInv'
  BY <1>8 DEF ReceiveError, ShouldRetry, LeaveChannels
<1>9. ASSUME NEW p \in Pollers, RetrySleepEnds(p) PROVE TypeInv'
  BY <1>9 DEF RetrySleepEnds
<1>10. ASSUME NEW p \in Pollers, PushError(p) PROVE TypeInv'
  BY <1>10 DEF PushError
<1>11. ASSUME NEW p \in Pollers, PollStopped(p) PROVE TypeInv'
  BY <1>11 DEF PollStopped
<1>12. ASSUME NEW p \in Pollers, ClearPollingFlag(p) PROVE TypeInv'
  <2>1. isPolling' \in BOOLEAN
    BY <1>12 DEF ClearPollingFlag
  <2>2. retries' \in [Pollers -> 0..MaxRetries]
    BY <1>12 DEF ClearPollingFlag
  <2>3. QED
    BY <1>12, <2>1, <2>2 DEF ClearPollingFlag
<1>13. ASSUME NEW p \in Pollers, FetchCheck(p) PROVE TypeInv'
  BY <1>13 DEF FetchCheck, FetchReturns
<1>14. ASSUME NEW p \in Pollers, FetchAnswered(p) PROVE TypeInv'
  BY <1>14, ServerAnswersType DEF FetchAnswered, TooOld
<1>15. ASSUME NEW p \in Pollers, FetchFails(p) PROVE TypeInv'
  BY <1>15 DEF ErrorKinds, FetchFails, FetchReturns
<1>16. ASSUME NEW p \in Pollers, FetchStopped(p) PROVE TypeInv'
  BY <1>16 DEF ErrorKinds, FetchStopped, FetchReturns
<1>16a. ASSUME NEW p \in Pollers, FetchCancelled(p) PROVE TypeInv'
  BY <1>16a DEF FetchCancelled, FetchReturns
<1>17. ASSUME NEW p \in Pollers, IndexWentBack(p) PROVE TypeInv'
  BY <1>17, NoReplyType DEF IndexWentBack, Forget
<1>18. ASSUME NEW p \in Pollers, IndexAdvanced(p) PROVE TypeInv'
  BY <1>18, NoReplyType, ReplyFields DEF IndexAdvanced, Forget, Ignorable
<1>19. ASSUME NEW p \in Pollers, Store(p) PROVE TypeInv'
  BY <1>19, NoReplyType, ReplyFields DEF Store, Forget
<1>20. ASSUME NEW p \in Pollers, CloseDone(p) PROVE TypeInv'
  BY <1>20 DEF CloseDone, FetchReturns
<1>21. CASE ServerWrite
  BY <1>21 DEF ServerWrite, Answers
<1>22. CASE ServerRestart
  BY <1>22 DEF ServerRestart, Answers
<1>23. CASE ServerReplicate
  BY <1>23 DEF ServerReplicate
<1>24. CASE StopDependency
  BY <1>24 DEF StopDependency
<1>25. CASE CloseStopCh
  BY <1>25 DEF CloseStopCh
<1>26. CASE WaitEnter
  BY <1>26 DEF WaitEnter
<1>27. CASE WaitLeave
  BY <1>27 DEF WaitLeave
<1>28. CASE WaitTake
  BY <1>28 DEF WaitTake
<1>29. CASE WaitSave
  BY <1>29 DEF WaitSave
<1>30. CASE WaitDrained
  BY <1>30 DEF WaitDrained
<1>31. CASE UNCHANGED vars
  BY <1>31
<1>32. QED
  BY <1>1, <1>2, <1>3, <1>4, <1>5, <1>6, <1>7, <1>8, <1>9, <1>10,
     <1>11, <1>12, <1>13, <1>14, <1>15, <1>16, <1>16a, <1>17, <1>18, <1>19,
     <1>20, <1>21, <1>22, <1>23, <1>24, <1>25, <1>26, <1>27, <1>28,
     <1>29, <1>30, <1>31
     DEF Next, ServerNext, PollStep, FetchStep, WaitStep

\* Every step keeps one poller, and fetches that belong to it or are orphans.
LEMMA StructureStep ==
    ASSUME TypeInv, Structure, [Next]_vars
    PROVE  Structure'
<1> USE ViewAssumption DEF vars, serverVars, fetchVars, waitVars,
        TypeInv, TypeOK, Structure, SinglePoller, Orphans, OneAnswer, Holding,
        StopClosed
<1>1. ASSUME NEW p \in Pollers, CallPoll(p) PROVE Structure'
  BY <1>1 DEF CallPoll
<1>2. ASSUME NEW p \in Pollers, AlreadyPolling(p) PROVE Structure'
  BY <1>2 DEF AlreadyPolling
<1>3. ASSUME NEW p \in Pollers, SetPollingFlag(p) PROVE Structure'
  BY <1>3 DEF SetPollingFlag
<1>4. ASSUME NEW p \in Pollers, SpawnFetch(p) PROVE Structure'
  BY <1>4 DEF SpawnFetch
<1>5. ASSUME NEW p \in Pollers, ReceiveDone(p) PROVE Structure'
  BY <1>5 DEF ReceiveDone, LeaveChannels
<1>6. ASSUME NEW p \in Pollers, Deliver(p) PROVE Structure'
  BY <1>6 DEF Deliver
<1>7. ASSUME NEW p \in Pollers, ReceiveSuccess(p) PROVE Structure'
  BY <1>7 DEF ReceiveSuccess
<1>8. ASSUME NEW p \in Pollers, ReceiveError(p) PROVE Structure'
  BY <1>8 DEF ReceiveError, ShouldRetry, LeaveChannels
<1>9. ASSUME NEW p \in Pollers, RetrySleepEnds(p) PROVE Structure'
  BY <1>9 DEF RetrySleepEnds
<1>10. ASSUME NEW p \in Pollers, PushError(p) PROVE Structure'
  BY <1>10 DEF PushError
<1>11. ASSUME NEW p \in Pollers, PollStopped(p) PROVE Structure'
  BY <1>11 DEF PollStopped
<1>12. ASSUME NEW p \in Pollers, ClearPollingFlag(p) PROVE Structure'
  BY <1>12 DEF ClearPollingFlag
<1>13. ASSUME NEW p \in Pollers, FetchCheck(p) PROVE Structure'
  BY <1>13 DEF FetchCheck, FetchReturns
<1>14. ASSUME NEW p \in Pollers, FetchAnswered(p) PROVE Structure'
  BY <1>14 DEF FetchAnswered, TooOld, ServerAnswers
<1>15. ASSUME NEW p \in Pollers, FetchFails(p) PROVE Structure'
  BY <1>15 DEF FetchFails, FetchReturns
<1>16. ASSUME NEW p \in Pollers, FetchStopped(p) PROVE Structure'
  BY <1>16 DEF FetchStopped, FetchReturns
<1>16a. ASSUME NEW p \in Pollers, FetchCancelled(p) PROVE Structure'
  BY <1>16a DEF FetchCancelled, FetchReturns
<1>17. ASSUME NEW p \in Pollers, IndexWentBack(p) PROVE Structure'
  BY <1>17 DEF IndexWentBack, Forget
<1>18. ASSUME NEW p \in Pollers, IndexAdvanced(p) PROVE Structure'
  BY <1>18 DEF IndexAdvanced, Forget, Ignorable
<1>19. ASSUME NEW p \in Pollers, Store(p) PROVE Structure'
  BY <1>19 DEF Store, Forget
<1>20. ASSUME NEW p \in Pollers, CloseDone(p) PROVE Structure'
  BY <1>20 DEF CloseDone, FetchReturns
<1>21. CASE ServerWrite
  BY <1>21 DEF ServerWrite
<1>22. CASE ServerRestart
  BY <1>22 DEF ServerRestart
<1>23. CASE ServerReplicate
  BY <1>23 DEF ServerReplicate
<1>24. CASE StopDependency
  BY <1>24 DEF StopDependency
<1>25. CASE CloseStopCh
  BY <1>25 DEF CloseStopCh
<1>26. CASE WaitEnter
  BY <1>26 DEF WaitEnter
<1>27. CASE WaitLeave
  BY <1>27 DEF WaitLeave
<1>28. CASE WaitTake
  BY <1>28 DEF WaitTake
<1>29. CASE WaitSave
  BY <1>29 DEF WaitSave
<1>30. CASE WaitDrained
  BY <1>30 DEF WaitDrained
<1>31. CASE UNCHANGED vars
  BY <1>31
<1>32. QED
  BY <1>1, <1>2, <1>3, <1>4, <1>5, <1>6, <1>7, <1>8, <1>9, <1>10,
     <1>11, <1>12, <1>13, <1>14, <1>15, <1>16, <1>16a, <1>17, <1>18, <1>19,
     <1>20, <1>21, <1>22, <1>23, <1>24, <1>25, <1>26, <1>27, <1>28,
     <1>29, <1>30, <1>31
     DEF Next, ServerNext, PollStep, FetchStep, WaitStep

\* Only a fetch started before the view was stopped leads to a delivery.
LEMMA LateStep ==
    ASSUME TypeInv, Structure, LateInv, [Next]_vars
    PROVE  LateInv'
<1> USE ViewAssumption DEF vars, serverVars, fetchVars, waitVars,
        TypeInv, TypeOK, Structure, SinglePoller, Orphans, OneAnswer, Holding,
        StopClosed, LateInv, Undelivered, Fetching
<1>1. ASSUME NEW p \in Pollers, CallPoll(p) PROVE LateInv'
  BY <1>1 DEF CallPoll
<1>2. ASSUME NEW p \in Pollers, AlreadyPolling(p) PROVE LateInv'
  BY <1>2 DEF AlreadyPolling
<1>3. ASSUME NEW p \in Pollers, SetPollingFlag(p) PROVE LateInv'
  BY <1>3 DEF SetPollingFlag
<1>4. ASSUME NEW p \in Pollers, SpawnFetch(p) PROVE LateInv'
  BY <1>4 DEF SpawnFetch
<1>5. ASSUME NEW p \in Pollers, ReceiveDone(p) PROVE LateInv'
  BY <1>5 DEF ReceiveDone, LeaveChannels
<1>6. ASSUME NEW p \in Pollers, Deliver(p) PROVE LateInv'
  BY <1>6 DEF Deliver
<1>7. ASSUME NEW p \in Pollers, ReceiveSuccess(p) PROVE LateInv'
  BY <1>7 DEF ReceiveSuccess
<1>8. ASSUME NEW p \in Pollers, ReceiveError(p) PROVE LateInv'
  BY <1>8 DEF ReceiveError, ShouldRetry, LeaveChannels
<1>9. ASSUME NEW p \in Pollers, RetrySleepEnds(p) PROVE LateInv'
  BY <1>9 DEF RetrySleepEnds
<1>10. ASSUME NEW p \in Pollers, PushError(p) PROVE LateInv'
  BY <1>10 DEF PushError
<1>11. ASSUME NEW p \in Pollers, PollStopped(p) PROVE LateInv'
  BY <1>11 DEF PollStopped
<1>12. ASSUME NEW p \in Pollers, ClearPollingFlag(p) PROVE LateInv'
  BY <1>12 DEF ClearPollingFlag
<1>13. ASSUME NEW p \in Pollers, FetchCheck(p) PROVE LateInv'
  BY <1>13 DEF FetchCheck, FetchReturns
<1>14. ASSUME NEW p \in Pollers, FetchAnswered(p) PROVE LateInv'
  BY <1>14 DEF FetchAnswered, TooOld, ServerAnswers
<1>15. ASSUME NEW p \in Pollers, FetchFails(p) PROVE LateInv'
  BY <1>15 DEF FetchFails, FetchReturns
<1>16. ASSUME NEW p \in Pollers, FetchStopped(p) PROVE LateInv'
  BY <1>16 DEF FetchStopped, FetchReturns
<1>16a. ASSUME NEW p \in Pollers, FetchCancelled(p) PROVE LateInv'
  BY <1>16a DEF FetchCancelled, FetchReturns
<1>17. ASSUME NEW p \in Pollers, IndexWentBack(p) PROVE LateInv'
  BY <1>17 DEF IndexWentBack, Forget
<1>18. ASSUME NEW p \in Pollers, IndexAdvanced(p) PROVE LateInv'
  BY <1>18 DEF IndexAdvanced, Forget, Ignorable
<1>19. ASSUME NEW p \in Pollers, Store(p) PROVE LateInv'
  BY <1>19 DEF Store, Forget
<1>20. ASSUME NEW p \in Pollers, CloseDone(p) PROVE LateInv'
  BY <1>20 DEF CloseDone, FetchReturns
<1>21. CASE ServerWrite
  BY <1>21 DEF ServerWrite
<1>22. CASE ServerRestart
  BY <1>22 DEF ServerRestart
<1>23. CASE ServerReplicate
  BY <1>23 DEF ServerReplicate
<1>24. CASE StopDependency
  BY <1>24 DEF StopDependency
<1>25. CASE CloseStopCh
  BY <1>25 DEF CloseStopCh
<1>26. CASE WaitEnter
  BY <1>26 DEF WaitEnter
<1>27. CASE WaitLeave
  BY <1>27 DEF WaitLeave
<1>28. CASE WaitTake
  BY <1>28 DEF WaitTake
<1>29. CASE WaitSave
  BY <1>29 DEF WaitSave
<1>30. CASE WaitDrained
  BY <1>30 DEF WaitDrained
<1>31. CASE UNCHANGED vars
  BY <1>31
<1>32. QED
  BY <1>1, <1>2, <1>3, <1>4, <1>5, <1>6, <1>7, <1>8, <1>9, <1>10,
     <1>11, <1>12, <1>13, <1>14, <1>15, <1>16, <1>16a, <1>17, <1>18, <1>19,
     <1>20, <1>21, <1>22, <1>23, <1>24, <1>25, <1>26, <1>27, <1>28,
     <1>29, <1>30, <1>31
     DEF Next, ServerNext, PollStep, FetchStep, WaitStep

\* Every step passes new data on, or leaves it where it is.
LEMMA NoLostStep ==
    ASSUME TypeInv, Structure, NoLostInv, [Next]_vars
    PROVE  NoLostInv'
<1> USE ViewAssumption DEF vars, serverVars, fetchVars, waitVars,
        TypeInv, TypeOK, Structure, Orphans, OneAnswer,
        StopClosed, NoLostInv, NoLostUpdate, InFlight
<1>1. ASSUME NEW p \in Pollers, CallPoll(p) PROVE NoLostInv'
  BY <1>1 DEF CallPoll
<1>2. ASSUME NEW p \in Pollers, AlreadyPolling(p) PROVE NoLostInv'
  BY <1>2 DEF AlreadyPolling
<1>3. ASSUME NEW p \in Pollers, SetPollingFlag(p) PROVE NoLostInv'
  BY <1>3 DEF SetPollingFlag
<1>4. ASSUME NEW p \in Pollers, SpawnFetch(p) PROVE NoLostInv'
  BY <1>4 DEF SpawnFetch
<1>5. ASSUME NEW p \in Pollers, ReceiveDone(p) PROVE NoLostInv'
  BY <1>5 DEF ReceiveDone, LeaveChannels
<1>6. ASSUME NEW p \in Pollers, Deliver(p) PROVE NoLostInv'
  BY <1>6 DEF Deliver
<1>7. ASSUME NEW p \in Pollers, ReceiveSuccess(p) PROVE NoLostInv'
  BY <1>7 DEF ReceiveSuccess
<1>8. ASSUME NEW p \in Pollers, ReceiveError(p) PROVE NoLostInv'
  BY <1>8 DEF ReceiveError, ShouldRetry, LeaveChannels
<1>9. ASSUME NEW p \in Pollers, RetrySleepEnds(p) PROVE NoLostInv'
  BY <1>9 DEF RetrySleepEnds
<1>10. ASSUME NEW p \in Pollers, PushError(p) PROVE NoLostInv'
  BY <1>10 DEF PushError
<1>11. ASSUME NEW p \in Pollers, PollStopped(p) PROVE NoLostInv'
  BY <1>11 DEF PollStopped
<1>12. ASSUME NEW p \in Pollers, ClearPollingFlag(p) PROVE NoLostInv'
  BY <1>12 DEF ClearPollingFlag
<1>13. ASSUME NEW p \in Pollers, FetchCheck(p) PROVE NoLostInv'
  BY <1>13 DEF FetchCheck, FetchReturns
<1>14. ASSUME NEW p \in Pollers, FetchAnswered(p) PROVE NoLostInv'
  BY <1>14 DEF FetchAnswered, TooOld, ServerAnswers
<1>15. ASSUME NEW p \in Pollers, FetchFails(p) PROVE NoLostInv'
  BY <1>15 DEF FetchFails, FetchReturns
<1>16. ASSUME NEW p \in Pollers, FetchStopped(p) PROVE NoLostInv'
  BY <1>16 DEF FetchStopped, FetchReturns
<1>16a. ASSUME NEW p \in Pollers, FetchCancelled(p) PROVE NoLostInv'
  BY <1>16a DEF FetchCancelled, FetchReturns
<1>17. ASSUME NEW p \in Pollers, IndexWentBack(p) PROVE NoLostInv'
  BY <1>17 DEF IndexWentBack, Forget
<1>18. ASSUME NEW p \in Pollers, IndexAdvanced(p) PROVE NoLostInv'
  BY <1>18 DEF IndexAdvanced, Forget, Ignorable
<1>19. ASSUME NEW p \in Pollers, Store(p) PROVE NoLostInv'
  BY <1>19 DEF Store, Forget
<1>20. ASSUME NEW p \in Pollers, CloseDone(p) PROVE NoLostInv'
  BY <1>20 DEF CloseDone, FetchReturns
<1>21. CASE ServerWrite
  BY <1>21 DEF ServerWrite
<1>22. CASE ServerRestart
  BY <1>22 DEF ServerRestart
<1>23. CASE ServerReplicate
  BY <1>23 DEF ServerReplicate
<1>24. CASE StopDependency
  BY <1>24 DEF StopDependency
<1>25. CASE CloseStopCh
  BY <1>25 DEF CloseStopCh
<1>26. CASE WaitEnter
  BY <1>26 DEF WaitEnter
<1>27. CASE WaitLeave
  BY <1>27 DEF WaitLeave
<1>28. CASE WaitTake
  BY <1>28 DEF WaitTake
<1>29. CASE WaitSave
  BY <1>29 DEF WaitSave
<1>30. CASE WaitDrained
  BY <1>30 DEF WaitDrained
<1>31. CASE UNCHANGED vars
  BY <1>31
<1>32. QED
  BY <1>1, <1>2, <1>3, <1>4, <1>5, <1>6, <1>7, <1>8, <1>9, <1>10,
     <1>11, <1>12, <1>13, <1>14, <1>15, <1>16, <1>16a, <1>17, <1>18, <1>19,
     <1>20, <1>21, <1>22, <1>23, <1>24, <1>25, <1>26, <1>27, <1>28,
     <1>29, <1>30, <1>31
     DEF Next, ServerNext, PollStep, FetchStep, WaitStep

\* The invariant holds in every reachable state.
THEOREM IndInvariant == Spec => []Ind
<1>1. Ind /\ [Next]_vars => Ind'
  BY TypeInvStep, StructureStep, LateStep, NoLostStep DEF Ind
<1>2. QED
  BY InitInd, <1>1, PTL DEF Spec

\* view.go, types: the variables of View stay in their ranges; in particular
\* no more than MaxRetries retries are counted.
THEOREM TypeCorrect == Spec => []TypeOK
<1>1. Ind => TypeOK
  BY DEF Ind, TypeInv
<1>2. QED
  BY <1>1, IndInvariant, PTL

\* view.go, pollingFlag: one goroutine polls the view at a time.
THEOREM SinglePollerHolds == Spec => []SinglePoller
<1>1. Ind => SinglePoller
  BY DEF Ind, Structure
<1>2. QED
  BY <1>1, IndInvariant, PTL

\* view.go, fetch: only one fetch is past its stop check at a time.
THEOREM SingleFetchHolds == Spec => []SingleFetch
<1>1. Ind => SingleFetch
  BY DEF Ind, LateInv, SingleFetch, Undelivered
<1>2. QED
  BY <1>1, IndInvariant, PTL

\* view.go and watcher.go, wait: data a view stores always reaches the cache.
THEOREM NoLostUpdateHolds == Spec => []NoLostUpdate
<1>1. Ind => NoLostUpdate
  BY DEF Ind, NoLostInv
<1>2. QED
  BY <1>1, IndInvariant, PTL

\* view.go, poll: at most one delivery follows a stop.
THEOREM AtMostOneLateDeliveryHolds == Spec => []AtMostOneLateDelivery
<1>1. Ind => AtMostOneLateDelivery
  BY DEF Ind, LateInv, AtMostOneLateDelivery
<1>2. QED
  BY <1>1, IndInvariant, PTL

\* fetch, maxStale: no answer that is kept is too old.
NoneTooOld == \A p \in Pollers : ~reply[p].old

\* An answer is kept by FetchAnswered only, and one of the leader is not old.
LEMMA NoneTooOldStep ==
    ASSUME TypeOK, NoneTooOld, [Next]_vars
    PROVE  NoneTooOld'
<1> USE DEF NoneTooOld
<1>1. reply \in [Pollers -> Replies] /\ NoReply.old = FALSE
  BY DEF TypeOK, NoReply
<1>2. ASSUME NEW p \in Pollers, FetchAnswered(p) PROVE NoneTooOld'
  <2>1. PICK a \in ServerAnswers(p) :
          reply' = reply \/ (~TooOld(p, a) /\ reply' = [reply EXCEPT ![p] = a])
    BY <1>2 DEF FetchAnswered
  <2>2. CASE reply' = reply
    BY <2>2
  <2>3. CASE ~TooOld(p, a) /\ reply' = [reply EXCEPT ![p] = a]
    <3>1. ~a.old
      <4>1. CASE allowStale[p]
        BY <2>3, <4>1 DEF TooOld
      <4>2. CASE ~allowStale[p]
        BY <4>2 DEF ServerAnswers
      <4>3. QED
        BY <4>1, <4>2
    <3>2. QED
      BY <1>1, <2>3, <3>1
  <2>4. QED
    BY <2>1, <2>2, <2>3
<1>3. ASSUME NEW p \in Pollers,
             SpawnFetch(p) \/ IndexWentBack(p) \/ IndexAdvanced(p) \/ Store(p)
      PROVE  NoneTooOld'
  <2>1. reply' = [reply EXCEPT ![p] = NoReply] \/ reply' = reply
    BY <1>3 DEF SpawnFetch, IndexWentBack, IndexAdvanced, Store, Forget
  <2>2. QED
    BY <1>1, <2>1
<1>4. ASSUME NEW p \in Pollers,
             CallPoll(p) \/ AlreadyPolling(p) \/ SetPollingFlag(p)
             \/ ReceiveDone(p) \/ Deliver(p) \/ ReceiveSuccess(p)
             \/ ReceiveError(p) \/ RetrySleepEnds(p) \/ PushError(p)
             \/ PollStopped(p) \/ ClearPollingFlag(p)
      PROVE  NoneTooOld'
  BY <1>4 DEF CallPoll, AlreadyPolling, SetPollingFlag, ReceiveDone, Deliver,
     ReceiveSuccess, ReceiveError, RetrySleepEnds, PushError, PollStopped,
     ClearPollingFlag, fetchVars
<1>5. ASSUME NEW p \in Pollers,
             FetchCheck(p) \/ FetchFails(p) \/ FetchStopped(p)
             \/ FetchCancelled(p) \/ CloseDone(p)
      PROVE  NoneTooOld'
  BY <1>5 DEF FetchCheck, FetchFails, FetchStopped, FetchCancelled, CloseDone
<1>6. CASE ServerNext \/ StopDependency \/ CloseStopCh \/ WaitEnter
           \/ WaitLeave \/ WaitStep \/ UNCHANGED vars
  BY <1>6 DEF ServerNext, ServerWrite, ServerRestart, ServerReplicate,
     StopDependency, CloseStopCh, WaitEnter, WaitLeave, WaitStep, WaitTake,
     WaitSave, WaitDrained, fetchVars, vars
<1>7. QED
  BY <1>2, <1>3, <1>4, <1>5, <1>6 DEF Next, PollStep, FetchStep

\* view.go, fetch: an answer older than maxStale is never stored.
THEOREM NeverTooOldHolds == Spec => NeverTooOld
<1>1. Init => NoneTooOld
  BY DEF Init, NoneTooOld, NoReply
<1>2. TypeOK /\ NoneTooOld /\ [Next]_vars => NoneTooOld'
  BY NoneTooOldStep
<1>3. NoneTooOld => [\A p \in Pollers : Store(p) => ~reply[p].old]_vars
  BY DEF NoneTooOld
<1>4. QED
  BY <1>1, <1>2, <1>3, TypeCorrect, PTL DEF Spec, NeverTooOld

\* If index is the leader's, so is the value.
AtLeader(index, value) == index = leader.index => value = leader.data

\* Answers on their way, and the index kept of the last one, are the leader's
\* or have an index that the leader left.
IndexInv ==
    restarted # "reused" =>
        /\ follower.index <= leader.index
        /\ AtLeader(follower.index, follower.data)
        /\ \A p \in Pollers :
             /\ fpc[p] = "index" => AtLeader(reply[p].index, reply[p].data)
             /\ fpc[p] = "store" => /\ lastIndex \in {0, reply[p].index}
                                    /\ AtLeader(lastIndex, reply[p].data)
        /\ IndexMatchesData

\* The server moves the leader's index with its value, to an index that the
\* view does not hold.
LEMMA IndexServerStep ==
    ASSUME TypeInv, Structure, LateInv, IndexInv, ServerNext
    PROVE  IndexInv'
<1> USE ViewAssumption DEF IndexInv
<1> SUFFICES ASSUME restarted' # "reused" PROVE IndexInv'
  OBVIOUS
<1>0. /\ UNCHANGED <<lastIndex, data, reply, fpc>>
      /\ leader.index \in Nat /\ follower.index \in Nat
  BY DEF ServerNext, ServerWrite, ServerRestart, ServerReplicate, fetchVars,
     TypeInv, TypeOK, Answers
<1>1. CASE ServerWrite \/ ServerRestart
  <2>1. /\ lastIndex # leader'.index
        /\ \A p \in Pollers : fpc[p] = "index" => reply[p].index # leader'.index
    BY <1>1 DEF ServerWrite, ServerRestart, IndexesKnown
  <2>2. /\ follower'.index <= leader'.index
        /\ AtLeader(follower.index, follower.data)'
    BY <1>0, <1>1 DEF ServerWrite, ServerRestart, AtLeader
  <2>3. \A p \in Pollers :
          fpc[p] = "store" => lastIndex \in {0, reply[p].index}
    BY <1>1 DEF ServerWrite, ServerRestart
  <2>4. QED
    BY <1>0, <2>1, <2>2, <2>3 DEF AtLeader, IndexMatchesData
<1>2. CASE ServerReplicate
  <2>1. UNCHANGED <<leader, restarted>> /\ follower' = leader
    BY <1>2 DEF ServerReplicate
  <2>2. QED
    BY <1>0, <2>1 DEF AtLeader, IndexMatchesData
<1>3. QED
  BY <1>1, <1>2 DEF ServerNext

\* No step of a poll touches an answer; a 500 forgets the index.
LEMMA IndexPollStep ==
    ASSUME TypeInv, Structure, LateInv, IndexInv,
           NEW p \in Pollers, CallPoll(p) \/ PollStep(p)
    PROVE  IndexInv'
<1> USE ViewAssumption DEF IndexInv
<1>1. CASE SpawnFetch(p)
  <2> SUFFICES ASSUME restarted # "reused" PROVE IndexInv'
    BY <1>1 DEF SpawnFetch, serverVars
  <2>1. /\ UNCHANGED <<serverVars, lastIndex, data>>
        /\ fpc' = [fpc EXCEPT ![p] = "check"]
        /\ reply' = [reply EXCEPT ![p] = NoReply]
    BY <1>1 DEF SpawnFetch
  <2>2. fpc[p] # "store"
    BY <1>1 DEF SpawnFetch, Structure, Orphans
  <2>3. \A q \in Pollers : q # p => fpc'[q] = fpc[q] /\ reply'[q] = reply[q]
    BY <2>1 DEF TypeInv, TypeOK
  <2>4. fpc'[p] = "check"
    BY <2>1 DEF TypeInv, TypeOK
  <2>5. IndexMatchesData'
    BY <2>1, <2>2, <2>3 DEF IndexMatchesData, serverVars
  <2>6. QED
    BY <2>1, <2>3, <2>4, <2>5 DEF AtLeader, serverVars
<1>2. CASE ReceiveError(p)
  <2>1. /\ UNCHANGED <<serverVars, data, fpc, reply>>
        /\ lastIndex' \in {0, lastIndex}
    BY <1>2 DEF ReceiveError
  <2>2. leader.index \in Nat \ {0}
    BY DEF TypeInv, TypeOK, Answers
  <2>3. lastIndex' = 0 => lastIndex' # leader'.index
    BY <2>1, <2>2 DEF serverVars
  <2>4. QED
    BY <2>1, <2>3 DEF AtLeader, IndexMatchesData, serverVars
<1>3. CASE ~SpawnFetch(p) /\ ~ReceiveError(p)
  <2>1. UNCHANGED <<leader, follower, restarted, lastIndex, data, fpc, reply>>
    BY <1>3 DEF PollStep, CallPoll, AlreadyPolling, SetPollingFlag,
       ReceiveDone, Deliver, ReceiveSuccess, RetrySleepEnds, PushError,
       PollStopped, ClearPollingFlag, serverVars, fetchVars
  <2>2. QED
    BY <2>1 DEF AtLeader, IndexMatchesData
<1>4. QED
  BY <1>1, <1>2, <1>3

\* A fetch takes its answers from the leader or the follower, and is the only
\* one to move the index while it has one.
LEMMA IndexFetchStep ==
    ASSUME TypeInv, Structure, LateInv, IndexInv,
           NEW p \in Pollers, FetchStep(p)
    PROVE  IndexInv'
<1> USE ViewAssumption DEF IndexInv
<1> SUFFICES ASSUME restarted # "reused" PROVE IndexInv'
  BY DEF FetchStep, FetchCheck, FetchAnswered, FetchFails, FetchStopped,
     FetchCancelled, IndexWentBack, IndexAdvanced, Store, CloseDone, serverVars
<1>0. /\ fpc \in [Pollers -> {"none", "check", "query", "index", "store",
                              "done"}]
      /\ reply \in [Pollers -> Replies]
      /\ leader.index \in Nat \ {0} /\ lastIndex \in Nat
      /\ \A q \in Pollers : reply[q].index \in Nat \ {0}
  BY DEF TypeInv, TypeOK, Answers, Replies
<1>1. \A q \in Pollers : Fetching(p) /\ Fetching(q) => p = q
  BY DEF LateInv, Undelivered
<1>2. CASE FetchCheck(p) \/ FetchFails(p) \/ FetchStopped(p)
           \/ FetchCancelled(p) \/ CloseDone(p)
  <2>1. /\ UNCHANGED <<leader, follower, restarted, lastIndex, data, reply>>
        /\ fpc[p] \in {"check", "query", "done"}
        /\ \E place \in {"none", "query"} : fpc' = [fpc EXCEPT ![p] = place]
    BY <1>2 DEF FetchCheck, FetchFails, FetchStopped, FetchCancelled,
       CloseDone, FetchReturns, serverVars
  <2>2. \A q \in Pollers :
          fpc'[q] = fpc[q] \/ (fpc[q] # "store" /\ fpc'[q] \in {"none", "query"})
    BY <1>0, <2>1
  <2>3. IndexMatchesData'
    BY <2>1, <2>2 DEF IndexMatchesData
  <2>4. QED
    BY <2>1, <2>2, <2>3 DEF AtLeader
<1>3. CASE FetchAnswered(p)
  <2>1. /\ UNCHANGED <<leader, follower, restarted, lastIndex, data>>
        /\ fpc[p] = "query"
    BY <1>3 DEF FetchAnswered, serverVars
  <2>2. PICK a \in ServerAnswers(p) :
          \/ fpc' = [fpc EXCEPT ![p] = "check"] /\ reply' = reply
          \/ /\ fpc' = [fpc EXCEPT ![p] = "index"]
             /\ reply' = [reply EXCEPT ![p] = a]
    BY <1>3 DEF FetchAnswered
  <2>3. AtLeader(a.index, a.data)
    BY <1>0 DEF ServerAnswers, AtLeader
  <2>4. \A q \in Pollers : q # p => fpc'[q] = fpc[q] /\ reply'[q] = reply[q]
    BY <1>0, <2>2
  <2>5. fpc'[p] = "check" \/ (fpc'[p] = "index" /\ reply'[p] = a)
    BY <1>0, <2>2
  <2>6. IndexMatchesData'
    BY <2>1, <2>4 DEF IndexMatchesData
  <2>7. QED
    BY <2>1, <2>3, <2>4, <2>5, <2>6 DEF AtLeader
<1>4. CASE IndexWentBack(p)
  <2>1. /\ UNCHANGED <<leader, follower, restarted, data>>
        /\ lastIndex' = 0
        /\ fpc[p] = "index"
        /\ fpc' = [fpc EXCEPT ![p] = "check"]
        /\ reply' = [reply EXCEPT ![p] = NoReply]
    BY <1>4 DEF IndexWentBack, Forget, serverVars
  <2>2. \A q \in Pollers : q # p => fpc'[q] = fpc[q] /\ reply'[q] = reply[q]
    BY <1>0, <2>1
  <2>3. fpc'[p] = "check"
    BY <1>0, <2>1
  <2>4. lastIndex' # leader'.index
    BY <1>0, <2>1
  <2>5. QED
    BY <2>1, <2>2, <2>3, <2>4 DEF AtLeader, IndexMatchesData
<1>5. CASE IndexAdvanced(p)
  <2>1. /\ UNCHANGED <<leader, follower, restarted, data>>
        /\ lastIndex' = reply[p].index
        /\ fpc[p] = "index"
        /\ \/ /\ Ignorable(p)
              /\ fpc' = [fpc EXCEPT ![p] = "check"]
              /\ reply' = [reply EXCEPT ![p] = NoReply]
           \/ /\ ~Ignorable(p)
              /\ fpc' = [fpc EXCEPT ![p] = "store"]
              /\ reply' = reply
    BY <1>5 DEF IndexAdvanced, Forget, serverVars
  <2>2. AtLeader(reply[p].index, reply[p].data)
    BY <2>1
  <2>3. \A q \in Pollers : q # p => fpc'[q] = fpc[q] /\ reply'[q] = reply[q]
    BY <1>0, <2>1
  <2>4. \A q \in Pollers : q # p => fpc'[q] \notin {"index", "store"}
    BY <1>1, <2>1, <2>3 DEF Fetching
  <2>5. \/ Ignorable(p) /\ fpc'[p] = "check"
        \/ fpc'[p] = "store" /\ reply'[p] = reply[p]
    BY <1>0, <2>1
  <2>6. IndexMatchesData'
    BY <2>1, <2>2, <2>5 DEF AtLeader, Ignorable, IndexMatchesData
  <2>7. QED
    BY <2>1, <2>2, <2>4, <2>5, <2>6 DEF AtLeader
<1>6. CASE Store(p)
  <2>1. /\ UNCHANGED <<leader, follower, restarted, lastIndex>>
        /\ data' = reply[p].data
        /\ fpc[p] = "store"
        /\ fpc' = [fpc EXCEPT ![p] = "done"]
        /\ reply' = [reply EXCEPT ![p] = NoReply]
    BY <1>6 DEF Store, Forget, serverVars
  <2>2. AtLeader(lastIndex, reply[p].data)
    BY <2>1
  <2>3. \A q \in Pollers : q # p => fpc'[q] = fpc[q] /\ reply'[q] = reply[q]
    BY <1>0, <2>1
  <2>4. fpc'[p] = "done"
    BY <1>0, <2>1
  <2>5. IndexMatchesData'
    BY <1>0, <2>1, <2>2 DEF AtLeader, IndexMatchesData
  <2>6. QED
    BY <2>1, <2>3, <2>4, <2>5 DEF AtLeader
<1>7. QED
  BY <1>2, <1>3, <1>4, <1>5, <1>6 DEF FetchStep

\* view.go, fetch, the comparison of indexes: while the server gives out none
\* that the view still holds, a view that has the leader's index has its value, or is about to store it,
\* so that an answer with the same index may be ignored.
THEOREM IndexMatchesDataHolds == Spec => []IndexMatchesData
<1>1. Init => IndexInv
  <2> SUFFICES ASSUME Init PROVE IndexInv
    OBVIOUS
  <2>1. leader.index = 1 /\ follower = leader /\ lastIndex = 0
    BY DEF Init
  <2>2. \A p \in Pollers : fpc[p] = "none"
    BY DEF Init
  <2>3. QED
    BY <2>1, <2>2 DEF IndexInv, AtLeader, IndexMatchesData
<1>2. Ind /\ IndexInv /\ [Next]_vars => IndexInv'
  <2> SUFFICES ASSUME Ind, IndexInv, [Next]_vars PROVE IndexInv'
    OBVIOUS
  <2>1. TypeInv /\ Structure /\ LateInv
    BY DEF Ind
  <2>2. CASE ServerNext
    BY <2>1, <2>2, IndexServerStep
  <2>3. ASSUME NEW p \in Pollers, CallPoll(p) \/ PollStep(p) PROVE IndexInv'
    BY <2>1, <2>3, IndexPollStep
  <2>4. ASSUME NEW p \in Pollers, FetchStep(p) PROVE IndexInv'
    BY <2>1, <2>4, IndexFetchStep
  <2>5. CASE StopDependency \/ CloseStopCh \/ WaitEnter \/ WaitLeave
             \/ WaitStep \/ UNCHANGED vars
    <3>1. UNCHANGED <<leader, follower, restarted, lastIndex, data, fpc, reply>>
      BY <2>5 DEF StopDependency, CloseStopCh, WaitEnter, WaitLeave, WaitStep,
         WaitTake, WaitSave, WaitDrained, serverVars, fetchVars, vars
    <3>2. QED
      BY <3>1 DEF IndexInv, AtLeader, IndexMatchesData
  <2>6. QED
    BY <2>2, <2>3, <2>4, <2>5 DEF Next
<1>3. IndexInv => IndexMatchesData
  BY DEF IndexInv, IndexMatchesData
<1>4. QED
  BY <1>1, <1>2, <1>3, IndInvariant, PTL DEF Spec
=============================================================================
